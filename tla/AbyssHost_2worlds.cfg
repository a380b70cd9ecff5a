SPECIFICATION FairHostSpec
CONSTANTS
    Peers = {p1}
    Lsids = {w1, w2}
    Sessions = {s1}
    s1 = s1
    Local = h1
    Locals = {h1}
    HostOf <- MCHostOf
    TimeOf <- MCTimeOf
    Nil = Nil
    Paths = {}
    EventCap = 2
INVARIANTS
    ActivityIsMembership
PROPERTIES
    ResultReachesCaller
CHECK_DEADLOCK FALSE
