SPECIFICATION BoundedSpec
CONSTANTS
    Second = 1
    MaxInt64 = 1000
    N = 2
    URL <- TwoURLs
    Broken = {}
    Sessions <- TwoSessions
    Hash <- TwoHash
    BaseDelay = 1
    MaxDelay = 8
    Statuses = {200}
    Headers <- NoHeaders
    Requests = {r1, r2}
    SessionOf <- TwoSessionOf
    HasPool = TRUE
    RateLimitAction = FALSE
    Threshold = 2
    MaxInt32 = 127
    DiagEgress = FALSE
    MaxAttempts = 1
    ClientsLeave = FALSE
    NetworkFaults = TRUE
    Nobody = Nobody
    MaxTime = 1
    r1 = r1
    r2 = r2
    s0 = s0
    s1 = s1
PROPERTIES
    BlameFollowsRequest
