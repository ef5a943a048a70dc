\* One client, two requests at once and two pairs; one authorization for the
\* server, two in turn and two processes for the command line.
CONSTANTS
    Clients = {c1}
    Codes = {k1, k2}
    Reqs = {r1, r2}
    MaxPairs = 2
    Refreshing = {c1}
    Procs = {p1, p2}
    None = None
SYMMETRY Symmetry
SPECIFICATION MCSpec
INVARIANTS
    DeadStaysDead
    RevokedShutOut
    DiskIsUnspent
PROPERTY OneCredential
CHECK_DEADLOCK FALSE
