SPECIFICATION FairSpec
CONSTANTS
    a = a
    b = b
    c = c
    m1 = m1
    m2 = m2
    ab = ab
    ab2 = ab2
    ba = ba
    Hosts = {a, b, c}
    Machine <- MCMachine
    Ports <- MCPorts
    Meets <- MCMeets
    Dials = {ab, ba}
    Dialer <- MCDialer
    Target <- MCTarget
    MaxStarts <- MCMaxStarts
    PublicIPs <- MCPublicIPs
    MaxFaults = 1
    Loopback = Loopback
    Zero = Zero
    None = None
INVARIANTS
    OnlyTargetTakes
    UrlReaches
PROPERTIES
    DialEnds
    KnownPeersConnect
CHECK_DEADLOCK FALSE
