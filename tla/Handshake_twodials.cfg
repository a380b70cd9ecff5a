SPECIFICATION Spec
CONSTANTS
    a = a
    b = b
    c = c
    m1 = m1
    m2 = m2
    ab = ab
    ab2 = ab2
    ba = ba
    Hosts = {a, b, c}
    Machine <- MCMachine
    Ports <- MCPorts
    Meets <- MCMeets
    Dials = {ab, ab2}
    Dialer <- MCDialer
    Target <- MCTarget
    MaxStarts <- MCMaxStarts
    PublicIPs <- MCNoPublicIPs
    MaxFaults = 0
    Loopback = Loopback
    Zero = Zero
    None = None
INVARIANT
    EndsHoldOneConnection
CHECK_DEADLOCK FALSE
