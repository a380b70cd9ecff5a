SPECIFICATION Spec
CONSTANTS
    Threads = {t1, t2}
    MaxOf <- EachOnce
    MaxHandles = 5
    MaxBody = 2
    Closable = {"resolver", "host", "world", "client", "response"}
    Null = Null
INVARIANTS
    HandlesCounted
    ConnectionsReleased
    PanicsAreMisuse
    ReadBodyAllEnds
SYMMETRY Symmetry
CHECK_DEADLOCK FALSE
