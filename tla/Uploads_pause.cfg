SPECIFICATION Spec
CONSTANTS
    Clients = {"c1", "c2"}
    Workers = {"w1"}
    Chunked = {"u1"}
    Small = {"u2"}
    Contents = {"x"}
    Content <- MCSame
    NumChunks = 1
    Resend = FALSE
    MayFail = FALSE
    MaxCompletes = 0
    MaxFaults = 0
INVARIANTS
    ReceivedOnDisk
CHECK_DEADLOCK FALSE
