SPECIFICATION Spec
CONSTANTS
    Peers = {p1, p2}
    Lsids = {w1}
    Sessions = {s1, s2, s3}
    s1 = s1
    h1 = h1
    Locals = {h1}
    HostOf <- MCHostOf
    TimeOf <- MCTimeOf
    Nil = Nil
SYMMETRY Symmetry
INVARIANTS
    TypeOK
    NoPanic
    ConnectedEntries
    NoDanglingCommitment
    MutualConsent
    JoinStaysPending
PROPERTIES
    KeepsMembership
    JoinResultIsFinal
    SessionsAdvance
CHECK_DEADLOCK FALSE
