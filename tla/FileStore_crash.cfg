SPECIFICATION Spec
CONSTANTS
    Clients = {"c1"}
    Workers = {"w1"}
    Contents = {"x"}
    Size <- MCSize
    Roles <- MCAll
    Quota = 4
    Libraries <- MCLibraries
    Sessions <- MCTwoSessions
    FirstId = 4
    FirstMsg = 3
    MaxActive = 1
    MaxRequests = 2
    MayRefuse = FALSE
    MaxFaults = 1
INVARIANTS
    NothingLost
    DriftBounded
    NoOrphanMessage
