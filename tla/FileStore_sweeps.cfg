SPECIFICATION FairSpec
CONSTANTS
    Clients = {"c1", "c2"}
    Workers = {"w1"}
    Contents = {"x"}
    Size <- MCSize
    Roles <- MCSweeps
    Quota = 4
    Libraries <- MCSweepLibraries
    Sessions <- MCTwoSessions
    FirstId = 4
    FirstMsg = 3
    MaxActive = 3
    MaxRequests = 2
    MayRefuse = TRUE
    MaxFaults = 0
INVARIANTS
    SweptReferences
    NoCycle
    ParentIsFolder
    SweepExactly
PROPERTIES
    Termination
