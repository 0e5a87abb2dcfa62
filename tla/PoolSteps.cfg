SPECIFICATION BoundedFairSpec
CONSTANTS
    Second = 1
    MaxInt64 = 1000
    N = 2
    URL <- TwoURLs
    Broken = {1}
    Sessions <- TwoSessions
    Hash <- TwoHash
    BaseDelay = 1
    MaxDelay = 8
    Statuses = {200, 404, 503}
    Headers <- WaitHeaders
    Goroutines = {g1, g2}
    Nobody = Nobody
    MaxTime = 2
    MaxFailures = 3
    s0 = s0
    s1 = s1
INVARIANTS
    SectionsAreAtomic
    DatesAreWaitedOut
PROPERTIES
    SectionsEnd
