SPECIFICATION Spec
CONSTANTS
    Tps <- MCTps
    NoName <- MCNoName
    Limit = 3
    CntIntvl = 2
    FillsName = TRUE
    Unknown = {2}
    MaxTime = 3
    MaxAttaches = 4
    MaxStarts = 2
CHECK_DEADLOCK FALSE
INVARIANTS LimitKept ChildrenCorrelated StaysRegistered
PROPERTIES TakenUp
