SPECIFICATION Spec
CONSTANTS
    Nodes <- MCNodes
    NamePart <- MCNamePart
    Devices <- MCDevices
    Procs = {p1, p2}
    Operator = p1
    Commands <- MCCommands
    Files <- MCFiles
    Upper <- MCUpper
    Padded <- MCPadded
    FirstRoom = 1
    MoreRoom = 1
    MaxCommands <- MCMaxCommands
CHECK_DEADLOCK FALSE
 
PROPERTIES ToldTrue Progress IdleDeletedClean
