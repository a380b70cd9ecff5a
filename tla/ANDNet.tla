------------------------------- MODULE ANDNet -------------------------------
(***************************************************************************)
(* All hosts, each with the AND of module AND, joined by the ordered links *)
(* of src/net_service.  Nothing is assumed of the messages here: what a    *)
(* host receives is what the AND of another host has sent.  Every call is  *)
(* the action of module AND together with Post, which puts the messages of *)
(* the call on the links.                                                  *)
(*                                                                         *)
(* A world is known to the other hosts by its id, so the sessions of AND   *)
(* are the worlds of all hosts, and a host is a peer of every other host.  *)
(* Links do not break: the host never calls PeerClose.  Time is not        *)
(* modelled: a timer may expire, and a session be a second old, at any     *)
(* moment.                                                                 *)
(***************************************************************************)
EXTENDS AND

CONSTANTS
    JoinTo,     \* the world that a world joins, Nil for one that is opened
    Leaving,    \* the worlds that the application may leave
    Declining,  \* the worlds whose application may decline requests
    Rounds      \* bound: no timer expires just to announce a member more often

ASSUME ClosedAssumption == Locals = Peers /\ Sessions = Lsids
ASSUME NetFiniteAssumption == IsFiniteSet(Peers) /\ IsFiniteSet(Lsids)
ASSUME JoinAssumption ==
    /\ JoinTo \in [Lsids -> Lsids \cup {Nil}]
    /\ \A l \in Lsids : JoinTo[l] # Nil => HostOf[JoinTo[l]] # HostOf[l]
ASSUME BoundAssumption == Rounds \in Nat /\ Leaving \cup Declining \subseteq Lsids

VARIABLES
    published,  \* the worlds that a path leads to
    net         \* net[h][p]: the messages of h that p has not handled

netvars == <<vars, published, net>>

Others(h) == Peers \ {h}

-----------------------------------------------------------------------------
(* Messages on the links *)

\* A message as world l sends it.
Wire(l, m) == [ssid |-> l, msg |-> m]

Wired(l, tx) == [n \in DOMAIN tx |-> Wire(l, tx[n])]

\* The world that a message is for; a join request names it by its path.
Receiver(m) == IF m.msg.type = "JN" THEN JoinTo[m.ssid] ELSE m.msg.rsid

\* A call that sends the messages of fx, having handled the message before.
Post(l, fx, before) ==
    net' = [before EXCEPT ![HostOf[l]] = [p \in Peers |-> @[p] \o Wired(l, fx[p].tx)]]

\* The orders in which a loop may visit the worlds of W.
Orders(W) ==
    {order \in [1..Cardinality(W) -> W] :
        /\ \A l \in W : \E k \in DOMAIN order : order[k] = l
        /\ \A j, k \in DOMAIN order : order[j] = order[k] => j = k}

\* The loops over the worlds of h: at most one message of each world, to p.
PostEach(h, p, F, before) ==
    \E order \in Orders({l \in Lsids : F[l][p].tx # <<>>}) :
        net' = [before EXCEPT ![h][p] =
                   @ \o [k \in DOMAIN order |-> Wire(order[k], F[order[k]][p].tx[1])]]

-----------------------------------------------------------------------------
(* Links and applications *)

\* Mutant: a second link to the same peer is reported too.
ConnectAgain(h, p) ==
    LET F == OnWorlds(h, [l \in Lsids |-> At(World(l), p, ConnectPeer(entry[l][p]))])
    IN  PeerConnected(h, p) /\ PostEach(h, p, F, net) /\ UNCHANGED published

\* The serve loop of h for p starts, once in the life of the link.
Connect(h, p) ==
    LET F == OnWorlds(h, [l \in Lsids |-> At(World(l), p, ConnectPeer(entry[l][p]))])
    IN  /\ p \notin peers[h]
        /\ PeerConnected(h, p) /\ PostEach(h, p, F, net)
        /\ UNCHANGED published

Open(l) ==
    /\ JoinTo[l] = Nil
    /\ OpenWorld(l) /\ Post(l, OpenEntries(PeersOf(l)), net)
    /\ UNCHANGED published

Join(l) ==
    LET target == HostOf[JoinTo[l]]
    IN  /\ JoinTo[l] # Nil
        /\ JoinWorld(l, target) /\ Post(l, JoinEntries(target, PeersOf(l)), net)
        /\ UNCHANGED published

\* TrySetMapping, for the path of l; a path is not withdrawn.  One that nobody
\* joins by is left out: it makes no difference.
Publish(l) ==
    /\ Exposed(l) /\ l \notin published
    /\ \E k \in Lsids : JoinTo[k] = l
    /\ published' = published \cup {l}
    /\ UNCHANGED <<vars, net>>

\* The application answers the last request about p that it has seen.
Asked(l, p, s) == Exposed(l) /\ told[l][p] = [st |-> "requested", sid |-> s]

Accept(l, p, s) ==
    /\ Asked(l, p, s)
    /\ AcceptSessionCall(l, p, s) /\ Post(l, AcceptSession(World(l), p, s), net)
    /\ UNCHANGED published

Decline(l, p, s) ==
    /\ l \in Declining /\ Asked(l, p, s)
    /\ DeclineSessionCall(l, p, s) /\ Post(l, DeclineSession(World(l), p, s), net)
    /\ UNCHANGED published

Leave(l) ==
    /\ l \in Leaving
    /\ CloseWorld(l) /\ Post(l, Close(World(l)), net)
    /\ UNCHANGED published

\* A timer that finds nobody to announce only asks for the next timer.
Announce(l, old) ==
    /\ JoinTo[l] = Nil
    /\ \E p \in old : Announces(entry[l][p]) /\ entry[l][p].sjnc < Rounds
    /\ TimerExpireCall(l, old) /\ Post(l, TimerExpire(World(l), old), net)
    /\ UNCHANGED published

-----------------------------------------------------------------------------
(* Serve loops *)

\* Peers of a list, without the receiver.
Known(h, mems) == [q \in DOMAIN mems \ {h} |-> mems[q]]

\* The handler of world l for the message m of session s of p.  (A JNI is never
\* about its receiver: WireOK of ANDNetProofs.)
Receive(l, p, s, m, rest) ==
    LET w    == World(l)
        mems == Known(HostOf[l], m.mems)
    IN  \/ m.type = "JN"  /\ ReceiveJN(l, p, s) /\ Post(l, JN(w, p, s), rest)
        \/ m.type = "JOK" /\ ReceiveJOK(l, p, s, mems) /\ Post(l, JOK(w, p, s, mems), rest)
        \/ m.type = "JDN" /\ ReceiveJDN(l, p) /\ Post(l, JDN(w, p), rest)
        \/ m.type = "JNI" /\ ReceiveJNI(l, p, s, m.peer, m.sid) /\ Post(l, JNI(w, p, s, m.peer, m.sid), rest)
        \/ m.type = "MEM" /\ ReceiveMEM(l, p, s) /\ Post(l, MEM(w, p, s), rest)
        \/ m.type = "SJN" /\ ReceiveSJN(l, p, s, mems) /\ Post(l, SJN(w, p, s, mems), rest)
        \/ m.type = "CRR" /\ ReceiveCRR(l, p, s, mems) /\ Post(l, CRR(w, p, s, mems), rest)
        \/ m.type = "RST" /\ ReceiveRST(l, p) /\ Post(l, RST(w, p), rest)

\* The serve loop of h for p takes one message: a join request for an unknown
\* path is denied, a reset without a receiver reaches every world, a message for
\* a world that is gone has no effect.
Take(h, p) ==
    LET m    == Head(net[p][h])
        rest == [net EXCEPT ![p][h] = Tail(@)]
        l    == Receiver(m)
        Here == {k \in worlds : HostOf[k] = h}
        F    == OnWorlds(h, [k \in Lsids |-> RST(World(k), p)])
    IN  /\ net[p][h] # <<>>
        /\ UNCHANGED published
        /\ \/ /\ m.msg.type = "JN" /\ l \notin published
              /\ net' = [rest EXCEPT ![h][p] = Append(@, Wire(Nil, Msg("JDN", m.ssid)))]
              /\ UNCHANGED vars
           \/ /\ m.msg.type = "RST" /\ l = Nil
              /\ ReceiveRSTAll(h, p) /\ PostEach(h, p, F, rest)
           \/ /\ l \in Here
              /\ m.msg.type = "JN" => l \in published
              /\ Receive(l, p, m.ssid, m.msg, rest)
           \/ /\ l # Nil /\ l \notin Here
              /\ m.msg.type = "JN" => l \in published
              /\ net' = rest
              /\ UNCHANGED vars

\* Mutant: the serve loop handles messages before it calls PeerConnected.
DeliverUnconnected(h, p) == Take(h, p)

Deliver(h, p) == p \in peers[h] /\ Take(h, p)

-----------------------------------------------------------------------------
NetInit ==
    /\ Init
    /\ published = {}
    /\ net = [h \in Peers |-> [p \in Peers |-> <<>>]]

Links(h) == \E p \in Others(h) : Connect(h, p) \/ Deliver(h, p)

Operations(l) ==
    \/ Open(l) \/ Join(l) \/ Publish(l) \/ Leave(l)
    \/ \E p \in Peers, s \in Sessions : Accept(l, p, s) \/ Decline(l, p, s)
    \/ \E old \in SUBSET Peers : Announce(l, old)

NetNext ==
    /\ fault = "none"
    /\ \/ \E h \in Peers : Links(h)
       \/ \E l \in Lsids : Operations(l)

NetSpec == NetInit /\ [][NetNext]_netvars

\* What goes on by itself: links come up, messages arrive, applications accept
\* and timers expire.  No application is bound to open, join or leave.
Progress ==
    /\ fault = "none"
    /\ \/ \E h \in Peers : Links(h)
       \/ \E l \in Lsids : \/ \E p \in Peers, s \in Sessions : Accept(l, p, s)
                           \/ Announce(l, Peers)

FairNetSpec == NetSpec /\ WF_netvars(Progress)

-----------------------------------------------------------------------------
(* Properties *)

\* Each host of the composition is an AND as module AND specifies it, in an
\* environment that may send anything; what that module assumes of the
\* environment (a join request only for a world that has joined, no second JOK,
\* no second connection of a peer) is what the hosts do to one another.
ImplementsAND == Spec

\* Hosts that talk only to each other never bring one another down: no panic,
\* and no introduction of a session that the asked host has heard of but is not
\* connected to (the nil Peer of CRR_MEMS).
NoFault == fault = "none"

Apart == {lk \in Lsids \X Lsids : HostOf[lk[1]] # HostOf[lk[2]]}

\* World l holds world k of another host in one of the states.
Holds(l, k, states) ==
    LET i == entry[l][HostOf[k]] IN i.sid = k /\ i.state \in states

\* A reset that world k has sent to world l is not handled yet.
ResetComing(k, l) ==
    LET queue == net[HostOf[k]][HostOf[l]]
        Drops(m) == m.ssid = k /\ m.msg.type = "RST" /\ m.msg.rsid = l
    IN  \E n \in DOMAIN queue : Drops(queue[n])

\* A world that has received JOK or MEM of another world, and has not cleared it
\* since, is still held by that world as its member or as the one it waits for,
\* unless the reset is on its way: whatever joins, introductions, resets, echoes
\* of resets and closed worlds went before, no world keeps for ever a member
\* that has dropped it.
MembersAreHeld ==
    \A lk \in Apart : Holds(lk[1], lk[2], {"RMEM_NJNI", "RMEM", "MEM"}) =>
        Holds(lk[2], lk[1], {"TMEM", "MEM"}) \/ ResetComing(lk[2], lk[1])

AllHandled == \A h, p \in Peers : net[h][p] = <<>>

\* The host of l has opened another world that is not older.
Superseded(l) == \E n \in used \ {l} : HostOf[n] = HostOf[l] /\ TimeOf[n] >= TimeOf[l]

\* Once every message is handled, a world that has sent JOK or MEM and waits for
\* the answer waits for a world that has it as its next member, or for one that
\* is gone: AND drops what is addressed to a closed world, without a reset.
\* This is not so for a pair with a world whose host has another one that is as
\* new: a third host may keep to that one and ignore a MEM of the first, and
\* neither the world it has ignored nor, if it accepts that world after all, it
\* itself learns that the MEM is lost.
QuietWaiting ==
    AllHandled => \A lk \in Apart :
        Holds(lk[1], lk[2], {"TMEM"}) => \/ Holds(lk[2], lk[1], {"RMEM", "RMEM_NJNI"})
                                         \/ lk[2] \notin worlds
                                         \/ Superseded(lk[1])
                                         \/ Superseded(lk[2]) /\ Holds(lk[2], lk[1], {"MEM"})

\* As long as nobody leaves or declines, a member stays: joins that race with
\* one another, introductions that arrive twice and announcements never reset it.
MembersStay ==
    [][\A lk \in Apart : Holds(lk[1], lk[2], {"MEM"}) => Holds(lk[1], lk[2], {"MEM"})']_netvars

\* Worlds that have joined the same world become members of each other, although
\* the joins may cross and the host that accepts both tells neither of the other:
\* the announcements of its timer and the requests they raise make up for it.
MembersFindEachOther ==
    <>[](\A lk \in Apart :
            (\A k \in {lk[1], lk[2]} : result[k] = "success") => Holds(lk[1], lk[2], {"MEM"}))
=============================================================================
