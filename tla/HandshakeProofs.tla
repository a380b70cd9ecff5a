-------------------------- MODULE HandshakeProofs --------------------------
(***************************************************************************)
(* Proofs about Handshake, for any hosts, machines, ports, calls and       *)
(* faults: an inbound half always belongs to the two hosts of its call.    *)
(*                                                                         *)
(* The property is not inductive.  When a half is taken, what matters is   *)
(* which key the handshake was encrypted with, which was fixed when it was *)
(* sent, and that the connection of a dial is never replaced by another.   *)
(* Genuine says so.                                                        *)
(*                                                                         *)
(* That a URL leads to its host rests on the ports: no two processes that  *)
(* run on one machine listen at the same one (PortsDiffer), and of the     *)
(* addresses of a URL the filter keeps one of the machine of the host.     *)
(***************************************************************************)
EXTENDS Handshake, SequenceTheorems, FiniteSetTheorems, TLAPS

\* A handshake on its way is encrypted for the target; one that was decrypted has
\* arrived there; a dial that has no connection yet is behind no link.
Genuine(d) ==
    /\ conn[d].hello # None =>
          conn[d].hello.key.host = Target[d] /\ dial[d] \in {"sent", "done"}
    /\ inbound[d] = "lookup" => conn[d].hello # None /\ conn[d].server.host = Target[d]
    /\ dial[d] \in {"new", "dial"} =>
          /\ inbound[d] \in {"none", "done"}
          /\ \A h, p \in Hosts : link[h][p].in # d

IInv == TypeOK /\ (\A d \in Dials : Genuine(d)) /\ OnlyTargetTakes

USE DialAssumption, NoneAssumption

LEMMA InitIInv == Init => IInv
<1> SUFFICES ASSUME Init PROVE IInv
  OBVIOUS
<1>1. TypeOK
  BY DEF Init, TypeOK, NoLink, NoProcess, Links, Connections, Processes
<1>2. ASSUME NEW d \in Dials PROVE Genuine(d)
  BY <1>2 DEF Init, Genuine, NoLink
<1>3. OnlyTargetTakes
  BY DEF Init, OnlyTargetTakes, NoLink
<1> QED
  BY <1>1, <1>2, <1>3 DEF IInv

-----------------------------------------------------------------------------
(* The parts that actions share *)

\* A peer gets the record r.
LEMMA OnePeer ==
    ASSUME TypeOK, NEW h \in Hosts, NEW p \in Hosts, NEW r \in Links,
           link' = [link EXCEPT ![h][p] = r]
    PROVE  /\ link' \in [Hosts -> [Hosts -> Links]]
           /\ \A x, y \in Hosts : link'[x][y] = IF x = h /\ y = p THEN r ELSE link[x][y]
BY DEF TypeOK

\* Marking a peer closed changes no half.
LEMMA FailedKeeps ==
    ASSUME TypeOK, NEW h \in Hosts, NEW p \in Hosts, Failed(h, p)
    PROVE  /\ link' \in [Hosts -> [Hosts -> Links]]
           /\ \A x, y \in Hosts : link'[x][y].in = link[x][y].in
<1> DEFINE r == [link[h][p] EXCEPT !.state = "CLOSED"]
<1>1. link[h][p] \in Links
  BY DEF TypeOK
<1>2. r \in Links /\ r.in = link[h][p].in
  BY <1>1 DEF Links
<1>3. link' = [link EXCEPT ![h][p] = r]
  BY DEF Failed
<1> HIDE DEF r
<1> QED
  BY <1>2, <1>3, OnePeer

\* Nothing of the handshakes changes.
SameHandshakes ==
    \A e \in Dials : /\ conn'[e].hello = conn[e].hello
                     /\ conn'[e].client = conn[e].client
                     /\ conn'[e].server = conn[e].server

\* A connection gets the record c, with the same handshake.
LEMMA OneConnection ==
    ASSUME TypeOK, NEW d \in Dials, NEW c \in Connections,
           c.hello = conn[d].hello, c.client = conn[d].client, c.server = conn[d].server,
           conn' = [conn EXCEPT ![d] = c]
    PROVE  conn' \in [Dials -> Connections] /\ SameHandshakes
BY DEF TypeOK, SameHandshakes

\* The half that an attempt adds, and what it does to its connection.
LEMMA HalfTaken ==
    ASSUME TypeOK, NEW h \in Hosts, NEW p \in Hosts, NEW d \in Dials, NEW half \in {"in", "out"},
           NEW c \in Connections,
           c.hello = conn[d].hello, c.client = conn[d].client, c.server = conn[d].server,
           Succeeded(h, p, half, d, c)
    PROVE  /\ link' \in [Hosts -> [Hosts -> Links]]
           /\ conn' \in [Dials -> Connections]
           /\ SameHandshakes
           /\ \A x, y \in Hosts : \/ link'[x][y].in = link[x][y].in
                                  \/ half = "in" /\ x = h /\ y = p /\ link'[x][y].in = d
<1>1. link[h][p] \in Links
  BY DEF TypeOK
<1>2. CASE Taken(link[h][p].state, half) # link[h][p].state
  <2> DEFINE r == [link[h][p] EXCEPT !.state = Taken(link[h][p].state, half), ![half] = d]
  <2>1. link' = [link EXCEPT ![h][p] = r]
    BY <1>2 DEF Succeeded
  <2>2. conn' = [conn EXCEPT ![d] = c]
    BY <1>2 DEF Succeeded
  <2>3. Taken(link[h][p].state, half) \in {"INBOUND", "OUTBOUND", "CONNECTED"}
    BY <1>2 DEF Taken
  <2>4. r \in Links
    BY <1>1, <2>3 DEF Links
  <2>5. r.in = link[h][p].in \/ (half = "in" /\ r.in = d)
    BY <1>1, <2>3 DEF Links
  <2>6. conn' \in [Dials -> Connections] /\ SameHandshakes
    BY <2>2, OneConnection
  <2> HIDE DEF r
  <2>7. /\ link' \in [Hosts -> [Hosts -> Links]]
        /\ \A x, y \in Hosts : link'[x][y] = IF x = h /\ y = p THEN r ELSE link[x][y]
    BY <2>1, <2>4, OnePeer
  <2> QED
    BY <2>5, <2>6, <2>7
<1>3. CASE Taken(link[h][p].state, half) = link[h][p].state
  <2> DEFINE k == [c EXCEPT !.open = FALSE]
  <2>1. conn' = [conn EXCEPT ![d] = k] /\ link' = link
    BY <1>3 DEF Succeeded
  <2>2. k \in Connections /\ k.hello = c.hello /\ k.client = c.client /\ k.server = c.server
    BY DEF Connections
  <2> HIDE DEF k
  <2>3. conn' \in [Dials -> Connections] /\ SameHandshakes
    BY <2>1, <2>2, OneConnection
  <2> QED
    BY <2>1, <2>3 DEF TypeOK
<1> QED
  BY <1>2, <1>3

LEMMA EpochIsNat ==
    ASSUME TypeOK, NEW h \in Hosts PROVE Epoch(h) \in Nat
BY LenProperties DEF TypeOK, Epoch

\* What the end of a process does to the halves and the handshakes.
LEMMA EndedKeeps ==
    ASSUME TypeOK, NEW h \in Hosts, Ended(h)
    PROVE  /\ TypeOK'
           /\ SameHandshakes
           /\ \A x, y \in Hosts : link'[x][y].in \in {link[x][y].in, None}
           /\ \A e \in Dials : /\ inbound'[e] \in {inbound[e], "done"}
                               /\ dial'[e] \in {dial[e], "done"}
<1>1. /\ link' \in [Hosts -> [Hosts -> Links]]
      /\ \A x, y \in Hosts : link'[x][y].in \in {link[x][y].in, None}
  BY DEF TypeOK, Ended, Links, NoLink
<1> DEFINE Shut(c) == [c EXCEPT !.open = FALSE]
           Mine(d) == Dialer[d] = h \/ conn[d].server.host = h
<1>a. conn \in [Dials -> Connections]
  BY DEF TypeOK
<1>b. conn' = [d \in Dials |-> IF Mine(d) THEN Shut(conn[d]) ELSE conn[d]]
  BY DEF Ended
<1>c. ASSUME NEW c \in Connections
      PROVE  /\ Shut(c) \in Connections
             /\ Shut(c).hello = c.hello /\ Shut(c).client = c.client /\ Shut(c).server = c.server
  BY DEF Connections
<1> HIDE DEF Shut, Mine
<1>2. conn' \in [Dials -> Connections]
  BY <1>a, <1>b, <1>c
<1>3. SameHandshakes
  BY <1>a, <1>b, <1>c DEF SameHandshakes
<1>4. /\ inbound' \in [Dials -> {"none", "accepted", "lookup", "done"}]
      /\ dial' \in [Dials -> {"new", "dial", "dialed", "sent", "done"}]
      /\ \A e \in Dials : /\ inbound'[e] \in {inbound[e], "done"}
                          /\ dial'[e] \in {dial[e], "done"}
  BY DEF TypeOK, Ended
<1>5. known' \in [Hosts -> [Hosts -> Nat]] /\ port' = port
  BY DEF TypeOK, Ended
<1> QED
  BY <1>1, <1>2, <1>3, <1>4, <1>5 DEF TypeOK

\* Steps that take no inbound half, decrypt nothing and begin no connection.
LEMMA Quiet ==
    ASSUME IInv, TypeOK', SameHandshakes,
           \A x, y \in Hosts : link'[x][y].in \in {link[x][y].in, None},
           \A e \in Dials : inbound'[e] \in {inbound[e], "done"},
           \A e \in Dials : /\ dial'[e] \in {"new", "dial"} => dial[e] \in {"new", "dial"}
                            /\ dial[e] \in {"sent", "done"} => dial'[e] \in {"sent", "done"}
    PROVE  IInv'
<1>1. ASSUME NEW e \in Dials PROVE Genuine(e)'
  <2>1. Genuine(e)
    BY DEF IInv
  <2>2. conn'[e].hello = conn[e].hello /\ conn'[e].server = conn[e].server
    BY DEF SameHandshakes
  <2>3. \A x, y \in Hosts : link[x][y].in # e => link'[x][y].in # e
    OBVIOUS
  <2>4. /\ inbound'[e] \in {inbound[e], "done"}
        /\ dial'[e] \in {"new", "dial"} => dial[e] \in {"new", "dial"}
        /\ dial[e] \in {"sent", "done"} => dial'[e] \in {"sent", "done"}
    OBVIOUS
  <2>5. conn'[e].hello # None =>
          conn'[e].hello.key.host = Target[e] /\ dial'[e] \in {"sent", "done"}
    BY <2>1, <2>2, <2>4 DEF Genuine
  <2>6. inbound'[e] = "lookup" => conn'[e].hello # None /\ conn'[e].server.host = Target[e]
    BY <2>1, <2>2, <2>4 DEF Genuine
  <2>7. dial'[e] \in {"new", "dial"} =>
          inbound'[e] \in {"none", "done"} /\ \A x, y \in Hosts : link'[x][y].in # e
    BY <2>1, <2>3, <2>4 DEF Genuine
  <2> QED
    BY <2>5, <2>6, <2>7 DEF Genuine
<1>2. ASSUME NEW x \in Hosts, NEW y \in Hosts, link'[x][y].in # None
      PROVE  Target[link'[x][y].in] = x /\ conn'[link'[x][y].in].client.host = y
  <2>1. link'[x][y].in = link[x][y].in /\ link[x][y].in \in Dials
    BY <1>2 DEF IInv, TypeOK, Links
  <2> QED
    BY <1>2, <2>1 DEF IInv, OnlyTargetTakes, SameHandshakes
<1> QED
  BY <1>1, <1>2 DEF IInv, OnlyTargetTakes

-----------------------------------------------------------------------------
(* One lemma per group of actions *)

LEMMA HostStep ==
    ASSUME IInv, NEW h \in Hosts, Start(h) \/ Crash(h) PROVE IInv'
<1>1. CASE Start(h)
  <2>1. port' \in [Hosts -> Seq(UNION {Ports[Machine[x]] : x \in Hosts})]
    <3> DEFINE All == UNION {Ports[Machine[x]] : x \in Hosts}
    <3>1. PICK n \in Ports[Machine[h]] : port' = [port EXCEPT ![h] = Append(@, n)]
      BY <1>1 DEF Start
    <3>2. n \in All /\ port \in [Hosts -> Seq(All)]
      BY DEF IInv, TypeOK
    <3> HIDE DEF All
    <3>3. Append(port[h], n) \in Seq(All)
      BY <3>2
    <3> QED
      BY <3>1, <3>2, <3>3 DEF All
  <2>2. TypeOK'
    BY <1>1, <2>1 DEF Start, IInv, TypeOK
  <2> QED
    BY <1>1, <2>2, Quiet DEF Start, SameHandshakes
<1>2. CASE Crash(h)
  <2>1. Ended(h) /\ TypeOK
    BY <1>2 DEF Crash, IInv
  <2> QED
    BY <2>1, EndedKeeps, Quiet
<1> QED
  BY <1>1, <1>2

LEMMA CallStep ==
    ASSUME IInv, Call PROVE IInv'
<1>1. ASSUME NEW h \in Hosts, NEW p \in Hosts, NEW n \in 1..Epoch(p), AppendKnownPeer(h, p, n)
      PROVE  IInv'
  <2>1. n \in Nat
    BY EpochIsNat DEF IInv
  <2>2. known' \in [Hosts -> [Hosts -> Nat]]
    BY <1>1, <2>1 DEF AppendKnownPeer, IInv, TypeOK
  <2>3. TypeOK'
    BY <1>1, <2>2 DEF AppendKnownPeer, IInv, TypeOK
  <2> QED
    BY <1>1, <2>3, Quiet DEF AppendKnownPeer, SameHandshakes
<1>2. ASSUME NEW h \in Hosts, NEW ip, SetPublicIP(h, ip) PROVE IInv'
  <2>1. TypeOK'
    BY <1>2 DEF SetPublicIP, IInv, TypeOK
  <2> QED
    BY <1>2, <2>1, Quiet DEF SetPublicIP, SameHandshakes
<1>3. ASSUME NEW d \in Dials, NEW n, ConnectAbyssAsync(d, n) PROVE IInv'
  <2>1. /\ dial' \in [Dials -> {"new", "dial", "dialed", "sent", "done"}]
        /\ \A e \in Dials : /\ dial'[e] \in {"new", "dial"} => dial[e] \in {"new", "dial"}
                            /\ dial[e] \in {"sent", "done"} => dial'[e] \in {"sent", "done"}
    BY <1>3 DEF ConnectAbyssAsync, IInv, TypeOK
  <2>2. TypeOK'
    BY <1>3, <2>1 DEF ConnectAbyssAsync, IInv, TypeOK
  <2> QED
    BY <1>3, <2>1, <2>2, Quiet DEF ConnectAbyssAsync, SameHandshakes
<1> QED
  BY <1>1, <1>2, <1>3, MeetAssumption DEF Call

\* Only Dial makes a connection: the dial had none and is behind no link.
LEMMA DialKeeps ==
    ASSUME IInv, NEW d \in Dials, Dial(d) PROVE IInv'
<1>1. PICK p \in Hosts :
        conn' = [conn EXCEPT ![d] = [server |-> Process(p), client |-> Process(Dialer[d]),
                                     open |-> TRUE, hello |-> None, answered |-> FALSE]]
  BY DEF Dial, Listening
<1>2. /\ dial[d] = "dial" /\ dial' = [dial EXCEPT ![d] = "dialed"]
      /\ inbound' = [inbound EXCEPT ![d] = "accepted"]
      /\ UNCHANGED <<port, known, link>>
  BY DEF Dial
<1>3. Process(p) \in Processes /\ Process(Dialer[d]) \in Processes
  BY EpochIsNat DEF IInv, Process, Processes
<1>4. TypeOK'
  <2>1. conn' \in [Dials -> Connections]
    BY <1>1, <1>3 DEF IInv, TypeOK, Connections
  <2>2. /\ dial' \in [Dials -> {"new", "dial", "dialed", "sent", "done"}]
        /\ inbound' \in [Dials -> {"none", "accepted", "lookup", "done"}]
    BY <1>2 DEF IInv, TypeOK
  <2> QED
    BY <1>2, <2>1, <2>2 DEF IInv, TypeOK
<1>5. ASSUME NEW e \in Dials PROVE Genuine(e)'
  <2>1. CASE e = d
    BY <1>1, <1>2, <2>1 DEF IInv, TypeOK, Genuine
  <2>2. CASE e # d
    BY <1>1, <1>2, <2>2 DEF IInv, TypeOK, Genuine
  <2> QED
    BY <2>1, <2>2
<1>6. OnlyTargetTakes'
  <2>1. \A x, y \in Hosts : link[x][y].in # d
    BY <1>2 DEF IInv, Genuine
  <2>2. ASSUME NEW x \in Hosts, NEW y \in Hosts, link[x][y].in # None
        PROVE  Target[link[x][y].in] = x /\ conn'[link[x][y].in].client.host = y
    <3>1. link[x][y].in \in Dials \ {d}
      BY <2>1, <2>2 DEF IInv, TypeOK, Links
    <3>2. Target[link[x][y].in] = x /\ conn[link[x][y].in].client.host = y
      BY <2>2 DEF IInv, OnlyTargetTakes
    <3>3. conn'[link[x][y].in] = conn[link[x][y].in]
      BY <1>1, <3>1 DEF IInv, TypeOK
    <3> QED
      BY <3>2, <3>3
  <2> QED
    BY <1>2, <2>2 DEF OnlyTargetTakes
<1> QED
  BY <1>4, <1>5, <1>6 DEF IInv

LEMMA DialStepKeeps ==
    ASSUME IInv, NEW d \in Dials, DialStep(d) PROVE IInv'
<1> USE DEF IInv
<1>1. CASE DialFails(d)
  <2>1. Failed(Dialer[d], Target[d]) /\ dial' = [dial EXCEPT ![d] = "done"]
        /\ UNCHANGED <<port, known, conn, inbound>>
    BY <1>1 DEF DialFails
  <2>2. /\ link' \in [Hosts -> [Hosts -> Links]]
        /\ \A x, y \in Hosts : link'[x][y].in = link[x][y].in
    BY <2>1, FailedKeeps
  <2>3. TypeOK'
    BY <2>1, <2>2 DEF TypeOK
  <2> QED
    BY <2>1, <2>2, <2>3, Quiet DEF TypeOK, SameHandshakes
<1>2. CASE DialPanics(d)
  <2>1. Ended(Dialer[d]) /\ TypeOK
    BY <1>2 DEF DialPanics
  <2> QED
    BY <2>1, EndedKeeps, Quiet
<1>3. CASE SendHello(d) /\ conn[d].open
  <2> DEFINE k == [host |-> Target[d], start |-> known[Dialer[d]][Target[d]]]
             m == [key |-> k, bind |-> Process(Dialer[d])]
  <2>1. /\ dial[d] = "dialed" /\ dial' = [dial EXCEPT ![d] = "sent"]
        /\ conn' = [conn EXCEPT ![d].hello = m]
        /\ UNCHANGED <<port, known, link, inbound>>
    BY <1>3 DEF SendHello, EncryptHandshake
  <2>2. k \in Processes /\ Process(Dialer[d]) \in [host : Hosts, start : Nat]
    <3>1. Dialer[d] \in Hosts /\ Target[d] \in Hosts
      OBVIOUS
    <3>2. known[Dialer[d]][Target[d]] \in Nat
      BY <3>1 DEF TypeOK
    <3>3. Epoch(Dialer[d]) \in Nat
      BY <3>1, EpochIsNat
    <3> QED
      BY <3>1, <3>2, <3>3 DEF Process, Processes
  <2>3. m \in Hellos /\ m.key.host = Target[d]
    BY <2>2 DEF Hellos
  <2> HIDE DEF m, k
  <2>4. TypeOK'
    BY <2>1, <2>3 DEF TypeOK, Connections
  <2>5. /\ conn'[d].hello = m
        /\ \A e \in Dials \ {d} : conn'[e] = conn[e]
        /\ \A e \in Dials : conn'[e].client = conn[e].client /\ conn'[e].server = conn[e].server
    BY <2>1 DEF TypeOK, Connections
  <2>6. inbound[d] # "lookup"
    BY <2>1 DEF Genuine
  <2>7. ASSUME NEW e \in Dials PROVE Genuine(e)'
    BY <2>1, <2>3, <2>5, <2>6 DEF TypeOK, Genuine
  <2>8. ASSUME NEW x \in Hosts, NEW y \in Hosts, link[x][y].in # None
        PROVE  Target[link[x][y].in] = x /\ conn'[link[x][y].in].client.host = y
    <3>1. link[x][y].in \in Dials
      BY <2>8 DEF TypeOK, Links
    <3>2. Target[link[x][y].in] = x /\ conn[link[x][y].in].client.host = y
      BY <2>8 DEF OnlyTargetTakes
    <3> QED
      BY <2>5, <3>1, <3>2
  <2> QED
    BY <2>1, <2>4, <2>7, <2>8 DEF OnlyTargetTakes
<1>4. CASE SendHello(d) /\ ~conn[d].open
  <2>1. Failed(Dialer[d], Target[d]) /\ dial' = [dial EXCEPT ![d] = "done"]
        /\ UNCHANGED <<port, known, conn, inbound>>
    BY <1>4 DEF SendHello
  <2>2. /\ link' \in [Hosts -> [Hosts -> Links]]
        /\ \A x, y \in Hosts : link'[x][y].in = link[x][y].in
    BY <2>1, FailedKeeps
  <2>3. TypeOK'
    BY <2>1, <2>2 DEF TypeOK
  <2> QED
    BY <2>1, <2>2, <2>3, Quiet DEF TypeOK, SameHandshakes
<1>5. CASE ReceiveAnswer(d)
  <2>1. /\ Succeeded(Dialer[d], Target[d], "out", d, conn[d])
        /\ dial' = [dial EXCEPT ![d] = "done"]
        /\ UNCHANGED <<port, known, inbound>>
    BY <1>5 DEF ReceiveAnswer
  <2>2. conn[d] \in Connections
    BY DEF TypeOK
  <2>3. /\ link' \in [Hosts -> [Hosts -> Links]]
        /\ conn' \in [Dials -> Connections]
        /\ SameHandshakes
        /\ \A x, y \in Hosts : link'[x][y].in = link[x][y].in
    <3>1. Dialer[d] \in Hosts /\ Target[d] \in Hosts /\ "out" # "in" /\ "out" \in {"in", "out"}
      OBVIOUS
    <3> QED
      BY <2>1, <2>2, <3>1, HalfTaken
  <2>4. TypeOK'
    BY <2>1, <2>3 DEF TypeOK
  <2> QED
    BY <2>1, <2>3, <2>4, Quiet DEF TypeOK
<1> QED
  BY <1>1, <1>2, <1>3, <1>4, <1>5, DialKeeps DEF DialStep

LEMMA AcceptStepKeeps ==
    ASSUME IInv, NEW d \in Dials, AcceptStep(d) PROVE IInv'
<1> USE DEF IInv
<1>1. CASE InboundUnidentified(d)
  <2>1. TypeOK'
    BY <1>1 DEF InboundUnidentified, TypeOK
  <2> QED
    BY <1>1, <2>1, Quiet DEF InboundUnidentified, TypeOK, SameHandshakes
<1>2. CASE ReceiveHello(d)
  <2>1. /\ inbound[d] = "accepted" /\ inbound' = [inbound EXCEPT ![d] = "lookup"]
        /\ conn[d].hello # None /\ conn[d].hello.key = Process(conn[d].server.host)
        /\ UNCHANGED <<port, known, link, dial, conn>>
    BY <1>2 DEF ReceiveHello, DecryptHandshake
  <2>2. conn[d].server.host = Target[d]
    BY <2>1 DEF Genuine, Process
  <2>3. TypeOK'
    BY <2>1 DEF TypeOK
  <2>4. ASSUME NEW e \in Dials PROVE Genuine(e)'
    BY <2>1, <2>2 DEF TypeOK, Genuine
  <2>5. OnlyTargetTakes'
    BY <2>1 DEF OnlyTargetTakes
  <2> QED
    BY <2>3, <2>4, <2>5
<1>3. CASE Answer(d)
  <2> DEFINE h == conn[d].server.host
             p == conn[d].hello.bind.host
             c == [conn[d] EXCEPT !.answered = TRUE]
  <2>1. /\ inbound[d] = "lookup" /\ inbound' = [inbound EXCEPT ![d] = "done"]
        /\ UNCHANGED <<port, known, dial>>
    BY <1>3 DEF Answer
  <2>2. conn[d] \in Connections /\ conn[d].hello # None /\ h = Target[d]
    BY <2>1 DEF TypeOK, Genuine
  <2>3. h \in Hosts /\ p \in Hosts
    BY <2>2 DEF Connections, Hellos
  <2>4. CASE Failed(h, p) /\ UNCHANGED conn
    <3>1. /\ link' \in [Hosts -> [Hosts -> Links]]
          /\ \A x, y \in Hosts : link'[x][y].in = link[x][y].in
      BY <2>3, <2>4, FailedKeeps
    <3>2. TypeOK'
      BY <2>1, <2>4, <3>1 DEF TypeOK
    <3> QED
      BY <2>1, <2>4, <3>1, <3>2, Quiet DEF TypeOK, SameHandshakes
  <2>5. CASE VerifyTLSBinding(p, conn[d].hello.bind, conn[d].client) /\ Succeeded(h, p, "in", d, c)
    <3>1. conn[d].client.host = p
      BY <2>5 DEF VerifyTLSBinding
    <3>2. c \in Connections /\ c.hello = conn[d].hello /\ c.client = conn[d].client
          /\ c.server = conn[d].server
      BY <2>2 DEF Connections
    <3> HIDE DEF c, h, p
    <3>3. /\ link' \in [Hosts -> [Hosts -> Links]]
          /\ conn' \in [Dials -> Connections]
          /\ SameHandshakes
          /\ \A x, y \in Hosts : \/ link'[x][y].in = link[x][y].in
                                 \/ x = h /\ y = p /\ link'[x][y].in = d
      BY <2>3, <2>5, <3>2, HalfTaken
    <3>4. TypeOK'
      BY <2>1, <3>3 DEF TypeOK
    <3>5. ASSUME NEW e \in Dials PROVE Genuine(e)'
      BY <2>1, <3>3 DEF TypeOK, Genuine, SameHandshakes
    <3>6. ASSUME NEW x \in Hosts, NEW y \in Hosts, link'[x][y].in # None
          PROVE  Target[link'[x][y].in] = x /\ conn'[link'[x][y].in].client.host = y
      <4>1. CASE link'[x][y].in = link[x][y].in
        <5>1. link[x][y].in \in Dials
          BY <3>6, <4>1 DEF TypeOK, Links
        <5>2. Target[link[x][y].in] = x /\ conn[link[x][y].in].client.host = y
          BY <3>6, <4>1 DEF OnlyTargetTakes
        <5> QED
          BY <3>3, <4>1, <5>1, <5>2 DEF SameHandshakes
      <4>2. CASE x = h /\ y = p /\ link'[x][y].in = d
        BY <2>2, <3>1, <3>3, <4>2 DEF SameHandshakes
      <4> QED
        BY <3>3, <4>1, <4>2
    <3> QED
      BY <3>4, <3>5, <3>6 DEF OnlyTargetTakes
  <2> QED
    BY <1>3, <2>4, <2>5 DEF Answer
<1> QED
  BY <1>1, <1>2, <1>3 DEF AcceptStep

LEMMA ConnectionStep ==
    ASSUME IInv, \/ \E d \in Dials : LoseConnection(d)
                 \/ \E h, p \in Hosts : ListenEnds(h, p)
    PROVE  IInv'
<1> USE DEF IInv
<1>1. ASSUME NEW d \in Dials, LoseConnection(d) PROVE IInv'
  <2> DEFINE c == [conn[d] EXCEPT !.open = FALSE]
  <2>1. conn' = [conn EXCEPT ![d] = c] /\ UNCHANGED <<port, known, link, dial, inbound>>
    BY <1>1 DEF LoseConnection
  <2>2. c \in Connections /\ c.hello = conn[d].hello /\ c.client = conn[d].client
        /\ c.server = conn[d].server
    <3>1. conn[d] \in Connections
      BY DEF TypeOK
    <3> QED
      BY <3>1 DEF Connections
  <2> HIDE DEF c
  <2>3. conn' \in [Dials -> Connections] /\ SameHandshakes
    BY <2>1, <2>2, OneConnection
  <2>4. TypeOK'
    BY <2>1, <2>3 DEF TypeOK
  <2> QED
    BY <2>1, <2>3, <2>4, Quiet
<1>2. ASSUME NEW h \in Hosts, NEW p \in Hosts, ListenEnds(h, p) PROVE IInv'
  <2>1. Failed(h, p) /\ UNCHANGED <<port, known, dial, conn, inbound>>
    BY <1>2 DEF ListenEnds
  <2>2. /\ link' \in [Hosts -> [Hosts -> Links]]
        /\ \A x, y \in Hosts : link'[x][y].in = link[x][y].in
    BY <2>1, FailedKeeps
  <2>3. TypeOK'
    BY <2>1, <2>2 DEF TypeOK
  <2> QED
    BY <2>1, <2>2, <2>3, Quiet DEF SameHandshakes
<1> QED
  BY <1>1, <1>2

-----------------------------------------------------------------------------
\* The inductive invariant.
THEOREM IInvInvariant == Spec => []IInv
<1>1. IInv /\ [Next]_vars => IInv'
  <2>1. ASSUME IInv, Next PROVE IInv'
    BY <2>1, HostStep, CallStep, DialStepKeeps, AcceptStepKeeps, ConnectionStep DEF Next
  <2>2. ASSUME IInv, UNCHANGED vars PROVE IInv'
    <3>1. UNCHANGED <<port, known, link, dial, conn, inbound>>
      BY <2>2 DEF vars
    <3>2. TypeOK'
      BY <2>2, <3>1 DEF IInv, TypeOK
    <3> QED
      BY <2>2, <3>1, <3>2, Quiet DEF SameHandshakes
  <2> QED
    BY <2>1, <2>2
<1> QED
  BY <1>1, InitIInv, PTL DEF Spec

\* PrepareAbyssInbound gives a half only to a connection that the named peer has
\* made to this host, however often hosts restart, crash and use old ports again.
THEOREM InboundHalfIsGenuine == Spec => []OnlyTargetTakes
BY IInvInvariant, PTL DEF IInv

-----------------------------------------------------------------------------
(* Addresses *)

\* A running host has a port, which no other running host of its machine has.
PortsDiffer ==
    /\ up \in [Hosts -> BOOLEAN]
    /\ \A h \in Hosts : up[h] => Epoch(h) > 0
    /\ \A h, p \in Hosts : h # p /\ up[h] /\ up[p] /\ Machine[h] = Machine[p] =>
          port[h][Epoch(h)] # port[p][Epoch(p)]

\* Start takes a free port, and the end of a process frees its port.
LEMMA PortsStep ==
    ASSUME TypeOK, PortsDiffer, [Next]_vars
    PROVE  PortsDiffer'
<1>1. ASSUME NEW h \in Hosts, Start(h) PROVE PortsDiffer'
  <2>1. PICK n \in Ports[Machine[h]] :
           /\ \A p \in Hosts : up[p] /\ Machine[p] = Machine[h] => port[p][Epoch(p)] # n
           /\ port' = [port EXCEPT ![h] = Append(@, n)]
    BY <1>1 DEF Start
  <2>2. ~up[h] /\ up' = [up EXCEPT ![h] = TRUE]
    BY <1>1 DEF Start
  <2>3. \A p \in Hosts \ {h} : up'[p] = up[p] /\ Epoch(p)' = Epoch(p) /\ port'[p] = port[p]
    BY <2>1, <2>2 DEF TypeOK, PortsDiffer, Epoch
  <2>4. Epoch(h)' = Epoch(h) + 1 /\ Epoch(h)' > 0 /\ port'[h][Epoch(h)'] = n
    <3> DEFINE S == UNION {Ports[Machine[p]] : p \in Hosts}
    <3>1. port[h] \in Seq(S) /\ n \in S /\ port'[h] = Append(port[h], n)
      BY <2>1 DEF TypeOK
    <3> HIDE DEF S
    <3>2. Len(port'[h]) = Len(port[h]) + 1 /\ Len(port[h]) \in Nat /\ port'[h][Len(port[h]) + 1] = n
      BY <3>1
    <3> QED
      BY <3>2 DEF Epoch
  <2>5. up' \in [Hosts -> BOOLEAN] /\ up'[h]
    BY <2>2 DEF PortsDiffer
  <2>6. \A p \in Hosts \ {h} : up[p] /\ Machine[p] = Machine[h] => port'[p][Epoch(p)'] # n
    BY <2>1, <2>3
  <2> QED
    BY <2>3, <2>4, <2>5, <2>6 DEF PortsDiffer
<1>2. ASSUME NEW h \in Hosts, Ended(h) PROVE PortsDiffer'
  <2>1. up' = [up EXCEPT ![h] = FALSE] /\ port' = port
    BY <1>2 DEF Ended
  <2>2. up' \in [Hosts -> BOOLEAN] /\ \A p \in Hosts : up'[p] => up[p]
    BY <2>1 DEF PortsDiffer
  <2> QED
    BY <2>1, <2>2 DEF PortsDiffer, Epoch
<1>3. CASE UNCHANGED <<up, port>>
  BY <1>3 DEF PortsDiffer, Epoch
<1>4. \/ UNCHANGED <<up, port>>
      \/ \E h \in Hosts : Start(h) \/ Ended(h)
  <2>1. Call => UNCHANGED <<up, port>>
    BY DEF Call, AppendKnownPeer, SetPublicIP, ConnectAbyssAsync
  <2>2. ASSUME NEW d \in Dials, DialStep(d)
        PROVE  UNCHANGED <<up, port>> \/ Ended(Dialer[d])
    BY <2>2 DEF DialStep, DialFails, Dial, DialPanics, SendHello, ReceiveAnswer
  <2>3. ASSUME NEW d \in Dials, AcceptStep(d) \/ LoseConnection(d) PROVE UNCHANGED <<up, port>>
    BY <2>3 DEF AcceptStep, InboundUnidentified, ReceiveHello, Answer, LoseConnection
  <2> QED
    BY <2>1, <2>2, <2>3 DEF Next, vars, Crash, ListenEnds
<1> QED
  BY <1>1, <1>2, <1>3, <1>4

\* Picking one position, or none.
LEMMA PickedLemma ==
    ASSUME NEW s
    PROVE  /\ Picked(s, {}) = <<>>
           /\ \A i \in Nat : Picked(s, {i}) = <<s[i]>>
<1>1. Cardinality({}) = 0
  BY FS_EmptySet
<1>2. Picked(s, {}) = <<>>
  BY <1>1 DEF Picked
<1>3. ASSUME NEW i \in Nat PROVE Picked(s, {i}) = <<s[i]>>
  <2>1. Cardinality({i}) = 1
    BY FS_Singleton
  <2>2. \A k \in {i} : {j \in {i} : j <= k} = {i}
    OBVIOUS
  <2>3. (CHOOSE k \in {i} : Cardinality({j \in {i} : j <= k}) = 1) = i
    BY <2>1, <2>2
  <2>4. Picked(s, {i}) = [k \in 1..1 |-> s[i]]
    BY <2>1, <2>3 DEF Picked
  <2> QED
    BY <2>4
<1> QED
  BY <1>2, <1>3

\* FilterAddressCandidates leaves one of the two addresses of a URL: that of the
\* machine, unless it is the own public one.
LEMMA FilterLemma ==
    ASSUME NEW h \in Hosts, NEW p \in Hosts, NEW n
    PROVE  LET url == Addresses(p, n)
           IN  FilterAddressCandidates(h, url) = IF Machine[p] = pub[h] THEN <<url[2]>> ELSE <<url[1]>>
<1> DEFINE url == Addresses(p, n)
           public == {k \in DOMAIN url : url[k].ip \notin {Zero, Loopback, pub[h]}}
           loopback == {k \in DOMAIN url : url[k].ip = Loopback}
<1>1. DOMAIN url = {1, 2} /\ url[1].ip = Machine[p] /\ url[2].ip = Loopback
  BY DEF Addresses
<1> HIDE DEF url
<1>2. loopback = {2} /\ public = IF Machine[p] = pub[h] THEN {} ELSE {1}
  BY <1>1, AddressAssumption
<1> HIDE DEF public, loopback
<1>3. Picked(url, loopback) = <<url[2]>>
  BY <1>2, PickedLemma
<1>4. Picked(url, public) = IF Machine[p] = pub[h] THEN <<>> ELSE <<url[1]>>
  BY <1>2, PickedLemma
<1>5. FilterAddressCandidates(h, url) =
         IF Picked(url, public) # <<>> THEN Picked(url, public)
         ELSE IF Picked(url, loopback) # <<>>
              THEN <<Picked(url, loopback)[Len(Picked(url, loopback))]>> ELSE <<>>
  BY DEF FilterAddressCandidates, public, loopback
<1>6. /\ <<url[2]>> # <<>> /\ <<url[1]>> # <<>>
      /\ Len(<<url[2]>>) = 1 /\ <<url[2]>>[1] = url[2]
  OBVIOUS
<1>7. FilterAddressCandidates(h, url) = IF Machine[p] = pub[h] THEN <<url[2]>> ELSE <<url[1]>>
  BY <1>3, <1>4, <1>5, <1>6
<1> QED
  BY <1>7 DEF url

\* Whichever address is left, the host that listens there is the one of the URL.
LEMMA ReachLemma ==
    ASSUME PortsDiffer, NEW h \in Hosts, NEW p \in Hosts, h # p, up[h], up[p],
           pub[h] = Machine[p] => Machine[h] = Machine[p]
    PROVE  LET selected == FilterAddressCandidates(h, Addresses(p, Epoch(p)))
           IN  selected # <<>> /\ Listening(h, selected[1]) = {p}
<1> DEFINE url == Addresses(p, Epoch(p))
           selected == FilterAddressCandidates(h, url)
           n == port[p][Epoch(p)]
<1>1. /\ url[1] = [ip |-> Machine[p], port |-> n] /\ url[2] = [ip |-> Loopback, port |-> n]
  BY DEF Addresses
<1>2. {x \in Hosts : up[x] /\ port[x][Epoch(x)] = n /\ Machine[x] = Machine[p]} = {p}
  BY DEF PortsDiffer
<1>3. Machine[p] # Loopback
  BY AddressAssumption
<1>4. selected = IF Machine[p] = pub[h] THEN <<url[2]>> ELSE <<url[1]>>
  BY FilterLemma
<1> HIDE DEF url, selected, n
<1>5. CASE Machine[p] = pub[h]
  <2>1. selected # <<>> /\ selected[1] = url[2] /\ Machine[h] = Machine[p]
    BY <1>4, <1>5
  <2>2. Listening(h, url[2]) = {x \in Hosts : up[x] /\ port[x][Epoch(x)] = n /\ Machine[x] = Machine[p]}
    BY <1>1, <2>1 DEF Listening
  <2> QED
    BY <1>2, <2>1, <2>2 DEF selected, url
<1>6. CASE Machine[p] # pub[h]
  <2>1. selected # <<>> /\ selected[1] = url[1]
    BY <1>4, <1>6
  <2>2. Listening(h, url[1]) = {x \in Hosts : up[x] /\ port[x][Epoch(x)] = n /\ Machine[x] = Machine[p]}
    BY <1>1, <1>3 DEF Listening
  <2> QED
    BY <1>2, <2>1, <2>2 DEF selected, url
<1> QED
  BY <1>5, <1>6

\* The URL of a running host leads to that host, whatever hosts share a machine,
\* restart and use the ports of others again.
THEOREM UrlsLeadToTheirHosts == Spec => []UrlReaches
<1>1. Init => PortsDiffer
  BY DEF Init, PortsDiffer
<1>2. IInv /\ PortsDiffer /\ [Next]_vars => PortsDiffer'
  BY PortsStep DEF IInv
<1>3. PortsDiffer => UrlReaches
  BY ReachLemma DEF UrlReaches
<1> QED
  BY <1>1, <1>2, <1>3, IInvInvariant, PTL DEF Spec
============================================================================
