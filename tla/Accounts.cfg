SPECIFICATION Spec
CONSTANTS
    Procs = {p1, p2}
    Kinds <- AllKinds
    AccessLife = 1
    RefreshLife = 2
    MaxTime = 2
    MaxRequests = 4
    MaxFaults = 1
INVARIANTS
    TypeOK
    RevokedStaysRevoked
    SessionsRefreshable
    OldSessionsEnded
    PurposeKept
    UsedCodesGone
SYMMETRY MCSymmetry
CHECK_DEADLOCK FALSE
