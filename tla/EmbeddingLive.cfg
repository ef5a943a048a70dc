SPECIFICATION LiveSpec
CONSTANTS
    None = None
    Units = {"u"}
    DefaultUnit = "u"
    Models = {"m1", "m2"}
    Guessed = {}
    Rows = {1, 2}
    UnitOf <- MCUnitOf
    RowKinds = {"private"}
    Mode = "command"
    Configs <- MCPair
    Typed <- MCBoth
    FirstModel = "m1"
    KekVerified = TRUE
    Page = 2
    RetireBatch = 1
    FailLimit = 1
    MaxGen = 3
    MaxFaults = 1
INVARIANT StaleCacheSafe
PROPERTIES FlipHidesNothing SlotKeepsModel RetiredIsNotServed FlipCompletes RetireCompletes
CHECK_DEADLOCK FALSE
