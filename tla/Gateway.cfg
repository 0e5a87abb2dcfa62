SPECIFICATION BoundedFairSpec
CONSTANTS
    Second = 1
    MaxInt64 = 1000
    N = 3
    URL <- ThreeURLs
    Broken = {2}
    Sessions <- TwoSessions
    Hash <- NextHash
    BaseDelay = 1
    MaxDelay = 8
    Statuses = {200, 429, 503}
    Headers <- NoHeaders
    Requests = {r1, r2}
    SessionOf <- TwoSessionOf
    HasPool = TRUE
    RateLimitAction = TRUE
    Threshold = 2
    MaxInt32 = 127
    DiagEgress = TRUE
    MaxAttempts = 3
    ClientsLeave = TRUE
    NetworkFaults = TRUE
    Nobody = Nobody
    MaxTime = 1
    r1 = r1
    r2 = r2
    s0 = s0
    s1 = s1
INVARIANTS
    GatewayTypeOK
    CrossingsArePending
    NoSilentReturn
    ChargedAtMostOnce
PROPERTIES
    ClientErrorsSpareHealth
    AttemptsAvoidIsolated
    PoolSpec
    EveryRequestEnds
    LockIsReleased
