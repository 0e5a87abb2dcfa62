SPECIFICATION BoundedSpec
CONSTANTS
    Second = 1
    MaxInt64 = 1000
    N = 3
    URL <- ThreeURLs
    Broken = {2}
    Sessions <- ThreeSessions
    Hash <- ThreeHash
    BaseDelay = 1
    MaxDelay = 8
    Statuses = {200, 429, 503}
    Headers <- SomeHeaders
    MaxTime = 2
    MaxFailures = 4
    s0 = s0
    s1 = s1
    s2 = s2
INVARIANTS
    PoolTypeOK
    RecordsAgree
    AffinityUntilFailure
    IsolationHolds
PROPERTIES
    SessionsDoNotWander
    CooldownCoversBackoff
