\* Four posts to one form, one attempt a minute for a key, two for a peer,
\* and one password hash at a time; two requests for a digest, with grants
\* that move the ceiling of the namespace written to.
CONSTANTS
    Reqs = {a, b, c, d}
    Forms <- MCForms
    Keys = {k1, k2}
    Peers = {p1, p2}
    PerMinute = 0
    PeerMultiplier = 2
    MaxKeys = 1
    Permits = 1
    Window = 1
    MaxTime = 1
    Clients = {"me"}
    Callers = {q1, q2}
    Changes = {"note", "rename", "key", "entry"}
    Touches <- MCTouches
    Level <- MCLevel
    Primary = {"user"}
    Grants <- MCGrants
    Queries = {"-"}
    CacheMs = 1
    MaxNow = 1
    MaxMoves = 1
SYMMETRY Symmetry
SPECIFICATION Spec
INVARIANTS
    LoadIsBounded
    AnswerIsWithinGrant
    MissingOnlyIfRaced
CHECK_DEADLOCK FALSE
