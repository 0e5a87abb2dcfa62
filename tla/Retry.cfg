SPECIFICATION CallerSpec
CONSTANTS
    Second = 3
    MaxInt64 = 127
    MaxFailures = 8
    Delays = {1, 2, 3, 8, 16}
    MaxTime = 3
    MaxHeader = 135
INVARIANTS
    BackoffAsStated
    RetryAfterIsObeyed
PROPERTIES
    BackoffNeverShrinks
