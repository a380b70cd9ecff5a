SPECIFICATION FairSpec
CONSTANTS
    Worlds = {w1, w2}
    Net = {n1}
    App = {r1, r2, t1}
    Callers = {t1}
    r1 = r1
    r2 = r2
    w1 = w1
    w2 = w2
    ReaderOf <- MCReaderOf
    EventCap = 1
    WorldCap = 1
    MaxEvents <- MCMaxEvents
    None = None
INVARIANTS
    EventsInOrder
PROPERTIES
    TerminateIsLast
    CallsReturn
    TerminateArrives
CHECK_DEADLOCK FALSE
