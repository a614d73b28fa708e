CONSTANTS
    p1 = p1 p2 = p2 ka = ka kb = kb kc = kc short = short long = long huge = huge
    Proc = {p1, p2} Key = {ka, kb, kc} Value = {short, long, huge} NoValue = NoValue
    Hash <- MCHash HashSize = 3 KeyLen <- MCKeyLen DataLen <- MCDataLen
    Hdr = 1 Align = 1 Page = 8 Multiplier = 1 First = 1 MaxSize = 16
    Requests <- MCRequests
    MaxCalls = 5 MaxCrashes = 1 MaxShortages = 1
SPECIFICATION Spec
CHECK_DEADLOCK FALSE
INVARIANTS WellFormed TraversalComplete
PROPERTIES IsMap CallReturns
