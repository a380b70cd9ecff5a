SPECIFICATION FairNetSpec
CONSTANTS
    Peers = {ha, hb, hc}
    Locals = {ha, hb, hc}
    Lsids = {wa, wb, wc}
    Sessions = {wa, wb, wc}
    ha = ha
    hb = hb
    hc = hc
    wa = wa
    wb = wb
    wc = wc
    wx = wx
    HostOf <- Host3
    TimeOf <- Time3
    JoinTo <- Join3
    Leaving = {}
    Declining = {}
    Rounds = 1
    Nil = Nil
INVARIANTS
    NoFault
PROPERTIES
    ImplementsAND
    MembersStay
    MembersFindEachOther
CHECK_DEADLOCK FALSE
