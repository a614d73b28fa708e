CONSTANTS
    Length <- MCLength NameLimit <- MCNameLimit LuNames = {"NET.LU"}
    RemoteDir = {"home", "dir"} LocalDir = {"home", "sub"} Home = "home"
    Name <- MCName InitRemote <- MCInitRemote InitLocal <- MCInitLocal MaxOutages = 1
    Lines <- MCLines LineLengths = {4, 5} Matches <- MCMatches DirOf <- MCDirOf
    FormatBelow <- MCFormatBelow Number = {"0", "1"} BufferSize = 4 ArgSize = 3
    MaxCommands = 4 MaxChanges = 1
    Destinations = {"NET.LU", "SYM", "TOOLONGNAME"} ModeNames = {"", "MODE", "LONGMODE9"} TpNames = {"", "TP"}
SPECIFICATION Spec
CHECK_DEADLOCK FALSE
INVARIANT AllListedTaken
