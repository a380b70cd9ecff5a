SPECIFICATION NetSpec
CONSTANTS
    Peers = {ha, hb, hc}
    Locals = {ha, hb, hc}
    Lsids = {wa, wb, wc, wx}
    Sessions = {wa, wb, wc, wx}
    ha = ha
    hb = hb
    hc = hc
    wa = wa
    wb = wb
    wc = wc
    wx = wx
    HostOf <- Host4
    TimeOf <- Time4
    JoinTo <- Join4
    Leaving = {wx}
    Declining = {wc}
    Rounds = 0
    Nil = Nil
INVARIANTS
    MembersAreHeld
    QuietWaiting
CHECK_DEADLOCK FALSE
