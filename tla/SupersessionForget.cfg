SPECIFICATION LiveSpec
CONSTANTS
    r1 = r1
    owner = owner
    None = None
    Rows = {r1, r2, r3}
    Sessions = {owner, s2}
    Reach <- MCReach
    Dates = {}
    MaxTime = 1
    MaxDepth = 64
    Kinds = {"write", "forget"}
INVARIANT ConfirmIsIdle
PROPERTY ForeignStaysRetired
PROPERTY EndsAreExpiries
PROPERTY RequestsEnd
CHECK_DEADLOCK FALSE
