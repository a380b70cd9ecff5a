SPECIFICATION FairSpec
CONSTANTS
    Ids = {"Id"}
    IPv4 = {"10.0.0.1"}
    IPv6 = {"fd00::1"}
    Ports = {"80", "81"}
    Senders = {and, other}
    and = and
    other = other
    MessagesOf <- MCMessagesOf
    MaxSends <- MCMaxSends
    Ms = 10
    ChCap = 1
    NoMsg = NoMsg
INVARIANTS
    WholeMessages
    ArrivesAsSent
    GivesUpOnOverlap
PROPERTIES
    WrittenIsServed
CHECK_DEADLOCK FALSE
