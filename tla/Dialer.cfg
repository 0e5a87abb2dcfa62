SPECIFICATION FairSpec
CONSTANTS
    MaxAddresses = 3
INVARIANTS
    ForcedFamilyOnly
    FailureIsExhaustive
PROPERTIES
    DialEnds
CHECK_DEADLOCK FALSE
