----------------------------- MODULE Handshake -----------------------------
(***************************************************************************)
(* How hosts find and authenticate each other (src/net_service): the       *)
(* identity that a host makes when it starts, the peers it knows, the      *)
(* choice of an address, and the two-message handshake of every outbound   *)
(* connection (PrepareAbyssOutbound, PrepareAbyssInbound).                 *)
(*                                                                         *)
(* The root key of a host survives a restart; the handshake key, the TLS   *)
(* key and the UDP port are new at each start, so a process is a host and  *)
(* the number of its start.  QUIC and the cryptography are external: what  *)
(* is encrypted for a key only its owner decrypts.  Module PeerLink has    *)
(* what happens on a link afterwards.                                      *)
(***************************************************************************)
EXTENDS Naturals, Sequences, FiniteSets

CONSTANTS
    Hosts,      \* identity hashes
    Machine,    \* the machine of each host, which is also its private IP address
    Ports,      \* the free UDP ports of each machine
    Meets,      \* Meets[h]: the hosts whose certificates may reach h
    Dials,      \* calls of ConnectAbyssAsync
    Dialer,     \* the host that makes the call
    Target,     \* the host that the URL names
    MaxStarts,  \* bound: how often each host starts
    PublicIPs,  \* arguments of SetPublicIP on each host
    MaxFaults,  \* bound: crashes, lost connections, failing dials
    Loopback, Zero, None

ASSUME DialAssumption == /\ Dialer \in [Dials -> Hosts] /\ Target \in [Dials -> Hosts]
                         /\ \A d \in Dials : Dialer[d] # Target[d]
ASSUME MeetAssumption == \A h \in Hosts : Meets[h] \subseteq Hosts \ {h}
ASSUME StartAssumption == MaxStarts \in [Hosts -> Nat] /\ MaxFaults \in Nat
ASSUME AddressAssumption == /\ Loopback # Zero
                            /\ \A h \in Hosts : Machine[h] \notin {Loopback, Zero}
ASSUME NoneAssumption == None \notin Dials

VARIABLES
    up,      \* the host is running
    port,    \* port[h][n]: the port of the n-th process of h
    pub,     \* localPublicAddr
    known,   \* known[h][p]: the start of p whose certificates h holds, 0 if none
    link,    \* the peer p of h: its state and the dial behind each half
    dial,    \* progress of each outbound attempt
    candidates, \* the addresses it was given
    conn,    \* the connection of each dial
    inbound, \* progress of the accepting side of each connection
    faults

vars == <<up, port, pub, known, link, dial, candidates, conn, inbound, faults>>

Epoch(h) == Len(port[h])
NoLink == [state |-> "DISCONNECTED", in |-> None, out |-> None]

-----------------------------------------------------------------------------
(* Addresses *)

\* The address part of the URL of the n-th process of h.
Addresses(h, n) == <<[ip |-> Machine[h], port |-> port[h][n]], [ip |-> Loopback, port |-> port[h][n]]>>

\* The elements of sequence s at the positions in at, in their order.
Picked(s, at) ==
    [k \in 1..Cardinality(at) |-> s[CHOOSE i \in at : Cardinality({j \in at : j <= i}) = k]]

\* Mutant: the address of the own machine is not a candidate.
FilterOwnMachine(h, addresses) ==
    Picked(addresses, {k \in DOMAIN addresses : addresses[k].ip \notin {Zero, Loopback, pub[h], Machine[h]}})

\* The addresses that are neither unusable nor the own public one; the last
\* loopback address where there is none.  Parsed addresses have 16 bytes, so the
\* test for 192.168 is never met and a private address counts as a public one.
FilterAddressCandidates(h, addresses) ==
    LET public   == Picked(addresses, {k \in DOMAIN addresses : addresses[k].ip \notin {Zero, Loopback, pub[h]}})
        loopback == Picked(addresses, {k \in DOMAIN addresses : addresses[k].ip = Loopback})
    IN  IF public # <<>> THEN public
        ELSE IF loopback # <<>> THEN <<loopback[Len(loopback)]>> ELSE <<>>

\* The hosts that listen at address a as seen from h.
Listening(h, a) ==
    {p \in Hosts : /\ up[p] /\ port[p][Epoch(p)] = a.port
                   /\ Machine[p] = IF a.ip = Loopback THEN Machine[h] ELSE a.ip}

-----------------------------------------------------------------------------
(* Identities *)

\* The process of h that is running: the owner of its handshake and TLS keys.
Process(h) == [host |-> h, start |-> Epoch(h)]

\* Mutant: the handshake is read whatever key it is encrypted with.
DecryptsAnything(h, hello) == TRUE

\* RSA-OAEP with the handshake key of the running process.
DecryptHandshake(h, hello) == hello.key = Process(h)

\* The binding certificate of the running process of h, encrypted for the
\* handshake key of p that h knows, be it current or not.
EncryptHandshake(h, p) ==
    [key |-> [host |-> p, start |-> known[h][p]], bind |-> Process(h)]

\* The certificate binds the TLS key of the connection to the root key of p.
VerifyTLSBinding(p, bind, tls) == bind.host = p /\ bind = tls

-----------------------------------------------------------------------------
(* Hosts start and end *)

Start(h) ==
    /\ ~up[h] /\ Epoch(h) < MaxStarts[h]
    /\ \E n \in Ports[Machine[h]] :
          /\ \A p \in Hosts : up[p] /\ Machine[p] = Machine[h] => port[p][Epoch(p)] # n
          /\ port' = [port EXCEPT ![h] = Append(@, n)]
    /\ up' = [up EXCEPT ![h] = TRUE]
    /\ UNCHANGED <<pub, known, link, dial, conn, inbound, candidates, faults>>

\* The process of h is gone: its memory, its goroutines and its connections.
Ended(h) ==
    LET Mine(d) == Dialer[d] = h \/ conn[d].server.host = h
    IN  /\ up' = [up EXCEPT ![h] = FALSE]
        /\ pub' = [pub EXCEPT ![h] = Zero]
        /\ known' = [known EXCEPT ![h] = [p \in Hosts |-> 0]]
        /\ link' = [link EXCEPT ![h] = [p \in Hosts |-> NoLink]]
        /\ dial' = [d \in Dials |-> IF Dialer[d] = h /\ dial[d] # "new" THEN "done" ELSE dial[d]]
        /\ conn' = [d \in Dials |-> IF Mine(d) THEN [conn[d] EXCEPT !.open = FALSE] ELSE conn[d]]
        /\ inbound' = [d \in Dials |-> IF conn[d].server.host = h THEN "done" ELSE inbound[d]]
        /\ UNCHANGED <<port, candidates>>

Crash(h) ==
    /\ up[h] /\ faults < MaxFaults
    /\ faults' = faults + 1
    /\ Ended(h)

SetPublicIP(h, ip) ==
    /\ up[h]
    /\ pub' = [pub EXCEPT ![h] = ip]
    /\ UNCHANGED <<up, port, known, link, dial, conn, inbound, candidates, faults>>

\* The certificates of a process of p reach h; the first pair is kept.
AppendKnownPeer(h, p, n) ==
    /\ up[h] /\ known[h][p] = 0
    /\ known' = [known EXCEPT ![h][p] = n]
    /\ UNCHANGED <<up, port, pub, link, dial, conn, inbound, candidates, faults>>

-----------------------------------------------------------------------------
(* The outbound half *)

\* The call, with the URL of the n-th process of the target: errors return.
ConnectAbyssAsync(d, n) ==
    LET h == Dialer[d]
        filtered == FilterAddressCandidates(h, Addresses(Target[d], n))
    IN  /\ up[h] /\ dial[d] = "new"
        /\ candidates' = [candidates EXCEPT ![d] = filtered]
        /\ dial' = [dial EXCEPT ![d] =
              IF filtered # <<>> /\ known[h][Target[d]] # 0 THEN "dial" ELSE "done"]
        /\ UNCHANGED <<up, port, pub, known, link, conn, inbound, faults>>

\* The deferred function of an attempt that failed.
Failed(h, p) == link' = [link EXCEPT ![h][p].state = "CLOSED"]

\* The dial fails: nobody listens there, or the packets are lost.
DialFails(d) ==
    LET h == Dialer[d]
        selected == FilterAddressCandidates(h, candidates[d])
    IN  /\ dial[d] = "dial" /\ selected # <<>>
        /\ \/ Listening(h, selected[1]) = {} /\ UNCHANGED faults
           \/ faults < MaxFaults /\ faults' = faults + 1
        /\ dial' = [dial EXCEPT ![d] = "done"]
        /\ Failed(h, Target[d])
        /\ UNCHANGED <<up, port, pub, known, conn, inbound, candidates>>

\* The candidates are filtered once more and the first one is used.
Dial(d) ==
    LET h == Dialer[d]
        selected == FilterAddressCandidates(h, candidates[d])
    IN  /\ dial[d] = "dial" /\ selected # <<>>
        /\ \E p \in Listening(h, selected[1]) :
              conn' = [conn EXCEPT ![d] = [server |-> Process(p), client |-> Process(h), open |-> TRUE,
                                           hello |-> None, answered |-> FALSE]]
        /\ dial' = [dial EXCEPT ![d] = "dialed"]
        /\ inbound' = [inbound EXCEPT ![d] = "accepted"]
        /\ UNCHANGED <<up, port, pub, known, link, candidates, faults>>

\* No candidate is left, since the public address was set meanwhile:
\* address_selected[0] panics and the process ends.
DialPanics(d) ==
    /\ dial[d] = "dial"
    /\ FilterAddressCandidates(Dialer[d], candidates[d]) = <<>>
    /\ Ended(Dialer[d])
    /\ UNCHANGED faults

SendHello(d) ==
    /\ dial[d] = "dialed"
    /\ IF conn[d].open
       THEN /\ conn' = [conn EXCEPT ![d].hello = EncryptHandshake(Dialer[d], Target[d])]
            /\ dial' = [dial EXCEPT ![d] = "sent"]
            /\ UNCHANGED link
       ELSE /\ dial' = [dial EXCEPT ![d] = "done"]
            /\ Failed(Dialer[d], Target[d])
            /\ UNCHANGED conn
    /\ UNCHANGED <<up, port, pub, known, inbound, candidates, faults>>

\* Mutant: a half that comes second does not complete the link.
TakenFirstOnly(s, half) ==
    IF s = "DISCONNECTED" THEN (IF half = "in" THEN "INBOUND" ELSE "OUTBOUND") ELSE s

\* The state of a peer after one more half.
Taken(s, half) ==
    CASE s = "DISCONNECTED" -> IF half = "in" THEN "INBOUND" ELSE "OUTBOUND"
      [] s = "OUTBOUND" /\ half = "in" -> "CONNECTED"
      [] s = "INBOUND" /\ half = "out" -> "CONNECTED"
      [] OTHER -> s

\* The deferred function of an attempt that succeeded: the half is taken, or it
\* is redundant and its connection is closed.
Succeeded(h, p, half, d, c) ==
    LET peer  == link[h][p]
        state == Taken(peer.state, half)
    IN  IF state # peer.state
        THEN /\ link' = [link EXCEPT ![h][p] = [peer EXCEPT !.state = state, ![half] = d]]
             /\ conn' = [conn EXCEPT ![d] = c]
        ELSE /\ conn' = [conn EXCEPT ![d] = [c EXCEPT !.open = FALSE]]
             /\ UNCHANGED link

\* The answer, the end of the connection and an answer of another host all end
\* the attempt in the same way: the errors of Decode and VerifyTLSBinding are
\* held by a shadowing err.
ReceiveAnswer(d) ==
    /\ dial[d] = "sent" /\ (conn[d].answered \/ ~conn[d].open)
    /\ dial' = [dial EXCEPT ![d] = "done"]
    /\ Succeeded(Dialer[d], Target[d], "out", d, conn[d])
    /\ UNCHANGED <<up, port, pub, known, inbound, candidates, faults>>

-----------------------------------------------------------------------------
(* The inbound half *)

\* A handshake that does not arrive or is not for this process: the goroutine
\* ends, no peer changes and the connection stays as it is.
InboundUnidentified(d) ==
    /\ inbound[d] = "accepted"
    /\ \/ ~conn[d].open
       \/ conn[d].hello # None /\ ~DecryptHandshake(conn[d].server.host, conn[d].hello)
    /\ inbound' = [inbound EXCEPT ![d] = "done"]
    /\ UNCHANGED <<up, port, pub, known, link, dial, conn, candidates, faults>>

ReceiveHello(d) ==
    /\ inbound[d] = "accepted" /\ conn[d].open /\ conn[d].hello # None
    /\ DecryptHandshake(conn[d].server.host, conn[d].hello)
    /\ inbound' = [inbound EXCEPT ![d] = "lookup"]
    /\ UNCHANGED <<up, port, pub, known, link, dial, conn, candidates, faults>>

\* Mutant: a peer that is not known at once is not waited for.
AnswerAtOnce(d) ==
    /\ inbound[d] = "lookup"
    /\ inbound' = [inbound EXCEPT ![d] = "done"]
    /\ IF known[conn[d].server.host][conn[d].hello.bind.host] = 0
       THEN UNCHANGED <<link, conn>>
       ELSE Succeeded(conn[d].server.host, conn[d].hello.bind.host, "in", d,
                      [conn[d] EXCEPT !.answered = TRUE])
    /\ UNCHANGED <<up, port, pub, known, dial, candidates, faults>>

\* The peer is known, or has become known: its binding is verified and
\* answered.
Answer(d) ==
    LET h == conn[d].server.host
        p == conn[d].hello.bind.host
    IN  /\ inbound[d] = "lookup" /\ known[h][p] # 0
        /\ inbound' = [inbound EXCEPT ![d] = "done"]
        /\ IF VerifyTLSBinding(p, conn[d].hello.bind, conn[d].client) /\ conn[d].open
           THEN Succeeded(h, p, "in", d, [conn[d] EXCEPT !.answered = TRUE])
           ELSE Failed(h, p) /\ UNCHANGED conn
        /\ UNCHANGED <<up, port, pub, known, dial, candidates, faults>>

-----------------------------------------------------------------------------
(* Connections *)

LoseConnection(d) ==
    /\ conn[d].open /\ faults < MaxFaults
    /\ faults' = faults + 1
    /\ conn' = [conn EXCEPT ![d].open = FALSE]
    /\ UNCHANGED <<up, port, pub, known, link, dial, inbound, candidates>>

\* listenAhmp of the inbound half returns.
ListenEnds(h, p) ==
    /\ link[h][p].in # None /\ link[h][p].state # "CLOSED"
    /\ ~conn[link[h][p].in].open
    /\ Failed(h, p)
    /\ UNCHANGED <<up, port, pub, known, dial, conn, inbound, candidates, faults>>

-----------------------------------------------------------------------------
NoProcess == [host |-> None, start |-> 0]

Init ==
    /\ up = [h \in Hosts |-> FALSE]
    /\ port = [h \in Hosts |-> <<>>]
    /\ pub = [h \in Hosts |-> Zero]
    /\ known = [h \in Hosts |-> [p \in Hosts |-> 0]]
    /\ link = [h \in Hosts |-> [p \in Hosts |-> NoLink]]
    /\ dial = [d \in Dials |-> "new"]
    /\ candidates = [d \in Dials |-> <<>>]
    /\ conn = [d \in Dials |-> [server |-> NoProcess, client |-> NoProcess, open |-> FALSE,
                                hello |-> None, answered |-> FALSE]]
    /\ inbound = [d \in Dials |-> "none"]
    /\ faults = 0

Call ==
    \/ \E h \in Hosts : \E p \in Meets[h] : \E n \in 1..Epoch(p) : AppendKnownPeer(h, p, n)
    \/ \E h \in Hosts : \E ip \in PublicIPs[h] : SetPublicIP(h, ip)
    \/ \E d \in Dials : \E n \in 1..Epoch(Target[d]) : ConnectAbyssAsync(d, n)

DialStep(d) == DialFails(d) \/ Dial(d) \/ DialPanics(d) \/ SendHello(d) \/ ReceiveAnswer(d)
AcceptStep(d) == InboundUnidentified(d) \/ ReceiveHello(d) \/ Answer(d)

Next ==
    \/ \E h \in Hosts : Start(h) \/ Crash(h)
    \/ Call
    \/ \E d \in Dials : DialStep(d) \/ AcceptStep(d) \/ LoseConnection(d)
    \/ \E h, p \in Hosts : ListenEnds(h, p)

Spec == Init /\ [][Next]_vars

\* The goroutines of the attempts and the readers keep running.
FairSpec ==
    /\ Spec
    /\ \A d \in Dials : WF_vars(DialStep(d)) /\ WF_vars(AcceptStep(d))
    /\ \A h, p \in Hosts : WF_vars(ListenEnds(h, p))

-----------------------------------------------------------------------------
(* Properties *)

Processes == [host : Hosts \cup {None}, start : Nat]
Hellos == [key : Processes, bind : [host : Hosts, start : Nat]]
Connections == [server : Processes, client : Processes, open : BOOLEAN,
                hello : Hellos \cup {None}, answered : BOOLEAN]
Links == [state : {"DISCONNECTED", "INBOUND", "OUTBOUND", "CONNECTED", "CLOSED"},
          in : Dials \cup {None}, out : Dials \cup {None}]

\* The identities, links, attempts and connections have their types.
TypeOK ==
    /\ port \in [Hosts -> Seq(UNION {Ports[Machine[h]] : h \in Hosts})]
    /\ known \in [Hosts -> [Hosts -> Nat]]
    /\ link \in [Hosts -> [Hosts -> Links]]
    /\ dial \in [Dials -> {"new", "dial", "dialed", "sent", "done"}]
    /\ conn \in [Dials -> Connections]
    /\ inbound \in [Dials -> {"none", "accepted", "lookup", "done"}]

\* Whatever ports are used again and whoever listens at an old address, the
\* inbound half of a link is a connection that the peer has made to this host.
OnlyTargetTakes ==
    \A h, p \in Hosts : link[h][p].in # None =>
        /\ Target[link[h][p].in] = h
        /\ conn[link[h][p].in].client.host = p

\* The URL of a running host leads to that host, from another machine and from
\* its own, also when the two share a public address.
UrlReaches ==
    \A h, p \in Hosts : h # p /\ up[h] /\ up[p] /\ (pub[h] = Machine[p] => Machine[h] = Machine[p]) =>
        LET selected == FilterAddressCandidates(h, Addresses(p, Epoch(p)))
        IN  selected # <<>> /\ Listening(h, selected[1]) = {p}

\* An attempt waits for ever only for a host that has no use for its handshake:
\* one that has other keys than the caller knows, or does not know the caller.
Unanswered(d) ==
    /\ dial[d] = "sent" /\ conn[d].open
    /\ \/ conn[d].hello.key # conn[d].server
       \/ known[conn[d].server.host][Dialer[d]] = 0

DialEnds ==
    \A d \in Dials : (dial[d] # "new") ~> (dial[d] = "done" \/ Unanswered(d))

\* Two hosts that know each other's current certificates and call each other
\* with nothing else under way between them.
Between(d, h, p) == {Dialer[d], Target[d]} = {h, p}
Calling(d) ==
    LET h == Dialer[d]
        p == Target[d]
        selected == FilterAddressCandidates(h, candidates[d])
    IN  /\ up[h] /\ known[h][p] = Epoch(p)
        /\ link[h][p] = NoLink
        /\ dial[d] = "dial" /\ selected # <<>> /\ Listening(h, selected[1]) = {p}
CallEachOther(d, e) ==
    /\ Dialer[d] = Target[e] /\ Dialer[e] = Target[d]
    /\ Calling(d) /\ Calling(e)
    /\ \A f \in Dials \ {d, e} : Between(f, Dialer[d], Target[d]) =>
          dial[f] = "done" /\ inbound[f] \in {"none", "done"}

\* They both end up connected, unless there is a fault after that.
KnownPeersConnect ==
    \A d, e \in Dials :
        (faults = MaxFaults /\ CallEachOther(d, e)) ~>
        \/ /\ link[Dialer[d]][Target[d]].state = "CONNECTED"
           /\ link[Dialer[e]][Target[e]].state = "CONNECTED"
        \/ ~up[Dialer[d]] \/ ~up[Dialer[e]]

-----------------------------------------------------------------------------
(* What a comment of the repository asks for.  This is refuted by a run.      *)

\* abyss_inbound.go: "make sure that only one inbound connection is answered
\* for a peer".  If it were so, the two ends of a direction would hold the same
\* connection.
EndsHoldOneConnection ==
    \A h, p \in Hosts : link[h][p].out # None /\ link[p][h].in # None =>
        link[h][p].out = link[p][h].in
=============================================================================
