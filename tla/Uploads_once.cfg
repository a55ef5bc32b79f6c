SPECIFICATION FairSpec
CONSTANTS
    Clients = {"c1", "c2"}
    Workers = {"w1"}
    Chunked = {"u1"}
    Small = {"u2"}
    Contents = {"x"}
    Content <- MCSame
    NumChunks = 2
    Resend = FALSE
    MayFail = TRUE
    MaxCompletes = 2
    MaxFaults = 1
INVARIANTS
    TypeOK
    CompletedMeansStored
    WholeContent
PROPERTIES
    DirsReclaimed
CHECK_DEADLOCK FALSE
