SPECIFICATION HostSpec
CONSTANTS
    Peers = {p1}
    Lsids = {w1}
    Sessions = {s1, s2}
    s1 = s1
    Local = h1
    Locals = {h1}
    HostOf <- MCHostOf
    TimeOf <- MCTimeOf
    Nil = Nil
    Paths = {home}
    EventCap = 4
INVARIANT
    CanceledJoinFails
CHECK_DEADLOCK FALSE
