SPECIFICATION Spec
CONSTANTS
    f = f
    g = g
    home = home
    dot = dot
    none = none
    Name <- MCName
    NameLength <- MCLength
    Home = home
    Dot = dot
    NoName = none
    Absent = absent
    Directory = directory
    Block <- MCBlock
    InitLocal <- MCLocal
    InitRemote <- MCRemote
    Kinds <- MCKinds
    Wildcards <- MCWildcards
    AllocSizes = {FALSE, TRUE}
    MaxCalls = 4
    MaxOutages = 1
CHECK_DEADLOCK FALSE
INVARIANTS Synchronised CallerTold
PROPERTIES OnlyNamedChange ListedEntriesMatch CallReturns
