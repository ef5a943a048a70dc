SPECIFICATION Spec
CONSTANTS
    N = 2
    x = x
    y = y
    Points = {x, y}
    Sim <- MCSim
    Floor <- MCFloor
    Batch = 1
    MaxWrites = 3
    MaxFaults = 1
    Null = Null
INVARIANTS MarksAreTrue PairsAreTrue
PROPERTY PairIsListed
CHECK_DEADLOCK FALSE
