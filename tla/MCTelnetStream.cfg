SPECIFICATION StreamSpec
CONSTANTS
    Pieces <- Keys
    TerminalVerbs <- MCVerbs
    Options <- MCOptions
    SbData <- PlainSb
    MaxItems = 3
CHECK_DEADLOCK FALSE
INVARIANTS Faithful
PROPERTIES NegotiationEnds
