SPECIFICATION FairSpec
CONSTANTS
    Texts <- SomeTexts
    Ignored <- SomeIgnored
    ParsesAsURL <- SomeParsing
    HasHost <- SomeHosts
    Scheme <- SomeSchemes
    HasSeparator <- SomeSeparators
    Empty = ""
    Blank = " "
    Environments <- SomeEnvironments
    Connections = {c1, c2}
INVARIANTS
    ServerTypeOK
    ExitStatusTells
    PoolIsUsable
    ProxySettingsAreUsed
PROPERTIES
    SignalStops
CHECK_DEADLOCK FALSE
