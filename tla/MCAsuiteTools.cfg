CONSTANTS
    Fits <- MCFits Qualified <- MCQualified Unset = Unset TpVersions <- MCTpVersions
    MessageSize = 4 PointerSize = 1 UseridSize = 3 Environ <- MCEnviron LoggedIn <- MCLoggedIn
    CommandSize = 7 ReadSize = 9 Outputs <- MCOutputs
    Options <- MCOptions Users <- MCUsers Texts <- MCTexts Commands <- MCCommands
    Destinations = {"NET.LU", "SYM", "TOOLONGNAME", "TOO.LONG"}
SPECIFICATION ToolsSpec
CHECK_DEADLOCK FALSE
INVARIANTS MessageShown CommandDone
PROPERTIES ToolEnds
