SPECIFICATION Spec
CONSTANTS
    Fragments <- SomeFragments
    Cuts <- AnyCuts
    MaxTokens = 4
    MaxShared = 2
    MaxBlocks = 2
INVARIANTS
    CutTagsAreRewritten
CHECK_DEADLOCK FALSE
