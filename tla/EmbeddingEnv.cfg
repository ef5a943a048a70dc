SPECIFICATION Spec
CONSTANTS
    None = None
    Units = {"u", "v"}
    DefaultUnit = "u"
    Models = {"m1", "m2", "m3"}
    Guessed = {}
    Rows = {1, 2, 3}
    UnitOf <- MCUnitOf
    RowKinds = {"plain", "private"}
    Mode = "env"
    Configs <- MCEnvs
    Typed = {}
    FirstModel = "m1"
    KekVerified = FALSE
    Page = 2
    RetireBatch = 1
    FailLimit = 1
    MaxGen = 0
    MaxFaults = 1
INVARIANTS ActiveIsBuilt ActiveSlotPure
PROPERTIES RetireWaits
CHECK_DEADLOCK FALSE
