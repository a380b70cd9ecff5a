SPECIFICATION FairSpec
CONSTANTS
    Inbounds = {i1, i2}
    Outbounds = {o1, o2}
    Senders = {t1, t2}
    InboxCap = 1
    CleanerRuns = TRUE
    None = None
INVARIANTS
    HandedOverOnce
    OneReader
PROPERTIES
    LinkIsFinal
    CompleteLinkIsServed
CHECK_DEADLOCK FALSE
