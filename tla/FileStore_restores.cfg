SPECIFICATION Spec
CONSTANTS
    Clients = {"c1", "c2"}
    Workers = {}
    Contents = {"x"}
    Size <- MCSize
    Roles <- MCRestores
    Quota = 4
    Libraries <- MCSmallLibraries
    Sessions <- MCNoSessions
    FirstId = 4
    FirstMsg = 3
    MaxActive = 3
    MaxRequests = 2
    MayRefuse = FALSE
    MaxFaults = 0
INVARIANTS
    Accounting
