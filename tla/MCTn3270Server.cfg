SPECIFICATION Spec
CONSTANTS
    Conns = {c1, c2, c3}
    NoConn = NoConn
    Limit = 2
    MaxFd = 7
    client_sock = 3
    manage_sock = 4
    MaxShortages = 1
CHECK_DEADLOCK FALSE
INVARIANTS LimitRespected ClientsWatched NoStrayEvent FdsCounted
PROPERTIES StaleFdsNeverReused Responsive
