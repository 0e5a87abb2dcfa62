SPECIFICATION Spec
CONSTANTS
    Texts <- SomeTexts
    Ignored <- SomeIgnored
    ParsesAsURL <- SomeParsing
    HasHost <- SomeHosts
    Scheme <- SomeSchemes
    HasSeparator <- SomeSeparators
    Empty = ""
    Blank = " "
    Environments <- SomeEnvironments
    Connections = {c1, c2}
INVARIANTS
    ShutdownDrains
CHECK_DEADLOCK FALSE
