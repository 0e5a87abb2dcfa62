SPECIFICATION Spec
CONSTANTS
    Settings <- AllSettings
    MaxMessages = 5
    MaxFailures = 1
INVARIANTS
    ToolExchangeIsValid
    NothingSaidIsLost
    ReasoningArrives
    ModelsAgreeWithList
PROPERTIES
    SessionSettles
CHECK_DEADLOCK FALSE
