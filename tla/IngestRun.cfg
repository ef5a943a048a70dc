SPECIFICATION Spec
CONSTANTS
    None = None
    f1 = f1
    Files = {f1}
    FileOrder <- MCFileOrder
    Runs = {r1, r2}
    Extractors = {e1, e2}
    LineKinds = {"owner", "long", "secret", "begin", "end"}
    RewriteMidRun = FALSE
    MaxWindows = 2
    MaxFaults = 1
SYMMETRY Symmetric
INVARIANT NothingSkipped
INVARIANT FencedStaysOut
INVARIANT NoNeedlessReread
INVARIANT SweptIsSpent
CHECK_DEADLOCK FALSE
