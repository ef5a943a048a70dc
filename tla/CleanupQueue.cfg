SPECIFICATION Spec
CONSTANTS
    N = 3
    Inputs <- MCInputs
    Days = {1}
    Sim <- MCSim
    Aged = {1}
    Limit = 4
    Posts <- MCPosts
    Passes = {p1}
    Cadences = {"daily"}
    Reqs = {r1}
    MaxActs = 2
    Null = Null
INVARIANTS NothingMissed QueuedApplies
PROPERTIES AppliedIsDone AnsweredIsClosed
CHECK_DEADLOCK FALSE
