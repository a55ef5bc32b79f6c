SPECIFICATION FairSpec
CONSTANTS
    Workers = {w1, w2}
    Emails = {"m1", "m2", "m3", "m4"}
    Addresses = {"a", "b"}
    To <- MCTo
    MaxRetries = 1
    Backoff <- MCBackoff
    RateLimit = 3
    Avatars = {"v1", "v2"}
    Senders = {s1}
    Timeout = 1
    Loads <- MCLoads
INVARIANTS
    TypeOK
    OneTask
    RateLimited
    ClosedUnused
    AvatarStored
PROPERTIES
    Settled
    Answered
    ShutdownEnds
CHECK_DEADLOCK FALSE
