SPECIFICATION FairHistorySpec
CONSTANTS
    Clients = {"c1"}
    Workers = {"w1"}
    Contents = {"x"}
    Size <- MCSize
    Roles <- MCAll
    Quota = 4
    Libraries <- MCLibraries
    Sessions <- MCSessions
    FirstId = 4
    FirstMsg = 3
    MaxActive = 1
    MaxRequests = 1
    MayRefuse = FALSE
    MaxFaults = 0
INVARIANTS
    TypeOK
    Accounting
    Consistent
    NoDanglingReference
PROPERTIES
    Termination
    ImplementsLibrary
