SPECIFICATION Spec
CONSTANTS
    Procs = {p1, p2}
    FileSize = 2
    Headers <- MCHeaders
    Limits = {0, 1}
    MaxEvents = 2
    MaxClaims = 2
INVARIANTS
    TypeOK
    LimitKept
    StreamExact
SYMMETRY MCSymmetry
CHECK_DEADLOCK FALSE
