CONSTANTS
    c1 = c1 c2 = c2 lu1 = lu1 lu2 = lu2 user = user group = group Unset = Unset
    Client = {c1, c2} NoOne = NoOne LuName <- MCLuName Text = {lu1, lu2, user, group} Names <- MCNames
    MaxRequests = 4 MaxLost = 1
SPECIFICATION Spec
CHECK_DEADLOCK FALSE
 
PROPERTIES  ClientAnswered
