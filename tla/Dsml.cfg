SPECIFICATION Spec
CONSTANTS
    Fragments <- SomeFragments
    Cuts <- NoCuts
    MaxTokens = 6
    MaxShared = 4
    MaxBlocks = 2
INVARIANTS
    StreamIsWellFormed
    StreamAgreesWithMessage
    StopAnnouncesCalls
    NothingLeftToRewrite
    EveryCallOnceAndAllProse
    CallIdsDiffer
CHECK_DEADLOCK FALSE
