---------------------------- MODULE MC_Handshake ----------------------------
\* Host a has a machine of its own, b and c share one.  What differs between the
\* runs is which host calls which.
EXTENDS Handshake, TLC

CONSTANTS a, b, c, m1, m2, ab, ab2, ba

MCMachine == (a :> m1) @@ (b :> m2) @@ (c :> m2)
MCPorts == (m1 :> {1}) @@ (m2 :> {1, 2})
MCMeets == (a :> {b}) @@ (b :> {a}) @@ (c :> {a})
MCPublicIPs == (a :> {m2}) @@ (b :> {m2}) @@ (c :> {})
MCNoPublicIPs == [h \in Hosts |-> {}]
MCDialer == [d \in Dials |-> IF d = ba THEN b ELSE a]
MCTarget == [d \in Dials |-> IF d = ba THEN a ELSE b]
MCMaxStarts == (a :> 1) @@ (b :> IF MaxFaults = 0 THEN 1 ELSE 2) @@ (c :> 1)
=============================================================================
