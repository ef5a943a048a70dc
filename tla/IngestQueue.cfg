SPECIFICATION MCSpec
CONSTANTS
    open = open
    private = private
    None = None
    Facts <- MCFacts
    Private <- MCPrivate
    Older <- MCOlder
    Reqs = {r1, r2}
    MaxRows = 3
    Chunks = {c1, c2}
    MaxBatches = 2
    Cmds = {r1, r2}
    MaxFaults = 1
SYMMETRY Sym
INVARIANTS CopiesAreConcurrent TextIsGone CollectedIsWhole
PROPERTIES AnswerStands SentOnce
CHECK_DEADLOCK FALSE
