SPECIFICATION Spec
CONSTANTS
    r1 = r1
    owner = owner
    None = None
    Rows = {r1, r2, r3, r4}
    Sessions = {owner, s2, s3}
    Reach <- MCReachAll
    Dates = {}
    MaxTime = 1
    MaxDepth = 64
    Kinds = {"review"}
SYMMETRY AllSymmetric
INVARIANT ChainsEnd
CHECK_DEADLOCK FALSE
