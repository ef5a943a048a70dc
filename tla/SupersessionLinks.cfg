SPECIFICATION Spec
CONSTANTS
    r1 = r1
    owner = owner
    None = None
    Rows = {r1, r2, r3}
    Sessions = {owner}
    Reach <- MCReachAll
    Dates = {1, 2}
    MaxTime = 2
    MaxDepth = 64
    Kinds = {"write", "review", "expire", "import"}
SYMMETRY AllSymmetric
INVARIANT ChainsEnd
INVARIANT MirrorAgrees
PROPERTY LinkIsOrdered
PROPERTY PeriodsAreReal
CHECK_DEADLOCK FALSE
