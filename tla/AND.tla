-------------------------------- MODULE AND ---------------------------------
(***************************************************************************)
(* The neighbour discovery component of a host (src/and/and.go): its       *)
(* connected peers, its worlds, and the calls of INeighborDiscovery.  Every *)
(* call holds api_mtx from its first to its last statement, so one call is *)
(* one step.  The environment is open: the network may deliver any message *)
(* of any connected peer in any order, the application may accept, decline *)
(* and leave at any moment.                                                *)
(*                                                                         *)
(* Locals is the set of hosts that are described side by side: one in      *)
(* AbyssHost, all of them in ANDNet.  They share nothing; a world belongs  *)
(* to the host HostOf[l].  When one of them dies, the model stops.         *)
(*                                                                         *)
(* told, said, heard and result are history variables: they record what    *)
(* the calls have pushed on the event channel and sent to the peers.       *)
(***************************************************************************)
EXTENDS ANDWorld

CONSTANTS
    Lsids,      \* local session ids: every world that is ever created
    Locals,     \* identity hashes of the local hosts
    HostOf      \* the local host of each world

ASSUME LsidAssumption == Nil \notin Lsids /\ HostOf \in [Lsids -> Locals]

VARIABLES
    peers,      \* [Locals -> SUBSET Peers]: AND.peers, the connected peers
    worlds,     \* AND.worlds: the local session ids of the live worlds
    used,       \* the local session ids handed out so far (uuid.New)
    join_hash,  \* [Lsids -> Peers or Nil]: the join target of a world
    entry,      \* [Lsids -> [Peers -> Info]]: ANDWorld.peers
    fault,      \* "none", or how the process has died
    told,       \* what the events have told the application about a peer
    said,       \* the session that was last sent JOK or MEM, no RST since
    heard,      \* the sessions from which JOK or MEM has arrived
    result      \* the join result that the events have reported

code == <<peers, worlds, used, join_hash, entry, fault>>
history == <<told, said, heard, result>>
vars == <<code, history>>

\* The connected peers of the host of l.
PeersOf(l) == peers[HostOf[l]]

World(l) == [join_hash |-> join_hash[l], peers |-> entry[l]]

-----------------------------------------------------------------------------
(* What the application and the peers learn from the effects of a call. *)

Told == [st : {"idle", "requested", "ready", "bad"}, sid : Sessions \cup {Nil}]

ToldIdle == [st |-> "idle", sid |-> Nil]

\* The application's view of a peer after one event; "bad", for ever, once an
\* event has made no sense to it: a member that is ready without a request, a
\* leave of a member that is not there, an object of a member that is not there.
Observe1(t, e) ==
    LET Is(st) == t.st = st /\ t.sid = e.sid
        To(st) == [st |-> st, sid |-> e.sid]
    IN  IF t.st = "bad" THEN t
        ELSE CASE e.type = "Request" -> IF t.st = "ready" THEN To("bad") ELSE To("requested")
               [] e.type = "Ready"   -> IF Is("requested") THEN To("ready") ELSE To("bad")
               [] e.type = "Close"   -> IF Is("ready") THEN ToldIdle ELSE To("bad")
               [] e.type \in {"ObjectAppend", "ObjectDelete"} -> IF Is("ready") THEN t ELSE To("bad")
               [] OTHER -> t

\* No call raises more than two events about one peer.
Observe(t, ev) ==
    IF ev = <<>> THEN t
    ELSE IF Len(ev) = 1 THEN Observe1(t, ev[1])
    ELSE Observe1(Observe1(t, ev[1]), ev[2])

\* The session of the peer that believes this host to be its member.
Say(s, tx) ==
    LET commits == {k \in DOMAIN tx : tx[k].type \in {"JOK", "MEM"}}
    IN  IF commits # {} THEN tx[CHOOSE k \in commits : TRUE].rsid
        ELSE IF \E k \in DOMAIN tx : tx[k].type = "RST" /\ tx[k].rsid = s THEN Nil
        ELSE s

Raises(ev, type) == \E k \in DOMAIN ev : ev[k].type = type

\* The join result that a world has reported, after the events of a call.
Outcome(r, fx) ==
    LET Reports(type) == \E p \in Peers : Raises(fx[p].ev, type)
    IN  IF ~Reports("JoinSuccess") /\ ~Reports("JoinFail") THEN r
        ELSE IF r # "none" \/ (Reports("JoinSuccess") /\ Reports("JoinFail")) THEN "twice"
        ELSE IF Reports("JoinSuccess") THEN "success" ELSE "fail"

-----------------------------------------------------------------------------
(* The effect of a call on every world, as a function of Lsids. *)

OnWorld(l, fx) ==
    [k \in Lsids |-> IF k = l THEN fx ELSE [p \in Peers |-> Keep(entry[k][p])]]

\* The loops over all worlds of host h of PeerConnected, PeerClose and RST.
OnWorlds(h, fx) ==
    [k \in Lsids |-> IF k \in worlds /\ HostOf[k] = h THEN fx[k]
                     ELSE [p \in Peers |-> Keep(entry[k][p])]]

FaultOf(F) ==
    LET Has(why) == \E l \in Lsids, p \in Peers : F[l][p].fault = why
    IN  IF Has("panic") THEN "panic" ELSE IF Has("nilpeer") THEN "nilpeer" ELSE fault

\* Entries, messages and events of a call; the calls below add the rest.
Apply(F) ==
    /\ entry' = [l \in Lsids |-> [p \in Peers |-> F[l][p].info]]
    /\ told'  = [l \in Lsids |-> [p \in Peers |-> Observe(told[l][p], F[l][p].ev)]]
    /\ said'  = [l \in Lsids |-> [p \in Peers |-> Say(said[l][p], F[l][p].tx)]]
    /\ fault' = FaultOf(F)

\* A call that reaches world l and only changes the entries of that world; a
\* call for a world that is not there returns 0 at once.
Call(l, fx) ==
    /\ l \in worlds
    /\ Apply(OnWorld(l, fx))
    /\ result' = [result EXCEPT ![l] = Outcome(@, fx)]
    /\ UNCHANGED <<peers, worlds, used, join_hash>>

-----------------------------------------------------------------------------
(* Calls of the network and of the application *)

PeerConnected(h, p) ==
    /\ peers' = [peers EXCEPT ![h] = @ \cup {p}]
    /\ Apply(OnWorlds(h, [l \in Lsids |-> At(World(l), p, ConnectPeer(entry[l][p]))]))
    /\ UNCHANGED <<worlds, used, join_hash, heard, result>>

PeerClose(h, p) ==
    LET F == OnWorlds(h, [l \in Lsids |-> RemovePeer(World(l), p)])
    IN  /\ peers' = [peers EXCEPT ![h] = @ \ {p}]
        /\ Apply(F)
        /\ result' = [l \in Lsids |-> Outcome(result[l], F[l])]
        /\ UNCHANGED <<worlds, used, join_hash, heard>>

OpenWorld(l) ==
    /\ l \notin used
    /\ used' = used \cup {l}
    /\ worlds' = worlds \cup {l}
    /\ Apply(OnWorld(l, OpenEntries(PeersOf(l))))
    /\ result' = [result EXCEPT ![l] = IF @ = "none" THEN "success" ELSE "twice"]
    /\ UNCHANGED <<peers, join_hash, heard>>

JoinWorld(l, target) ==
    /\ l \notin used
    /\ used' = used \cup {l}
    /\ worlds' = worlds \cup {l}
    /\ join_hash' = [join_hash EXCEPT ![l] = target]
    /\ Apply(OnWorld(l, JoinEntries(target, PeersOf(l))))
    /\ UNCHANGED <<peers, heard, result>>

AcceptSessionCall(l, p, s) == Call(l, AcceptSession(World(l), p, s)) /\ UNCHANGED heard

DeclineSessionCall(l, p, s) == Call(l, DeclineSession(World(l), p, s)) /\ UNCHANGED heard

CloseWorld(l) ==
    LET fx == Close(World(l))
    IN  /\ l \in worlds
        /\ worlds' = worlds \ {l}
        /\ Apply(OnWorld(l, fx))
        /\ result' = [result EXCEPT ![l] = Outcome(@, fx)]
        /\ UNCHANGED <<peers, used, join_hash, heard>>

TimerExpireCall(l, old) == Call(l, TimerExpire(World(l), old)) /\ UNCHANGED heard

-----------------------------------------------------------------------------
(* Messages of session s of peer p, addressed to world l *)

Hear(l, p, s) == heard' = [heard EXCEPT ![l][p] = @ \cup {s}]

ReceiveJN(l, p, s) == Call(l, JN(World(l), p, s)) /\ UNCHANGED heard

ReceiveJOK(l, p, s, mems) == Call(l, JOK(World(l), p, s, mems)) /\ Hear(l, p, s)

ReceiveJDN(l, p) == Call(l, JDN(World(l), p)) /\ UNCHANGED heard

ReceiveJNI(l, p, s, q, t) == Call(l, JNI(World(l), p, s, q, t)) /\ UNCHANGED heard

ReceiveMEM(l, p, s) == Call(l, MEM(World(l), p, s)) /\ Hear(l, p, s)

ReceiveSJN(l, p, s, mems) == Call(l, SJN(World(l), p, s, mems)) /\ UNCHANGED heard

ReceiveCRR(l, p, s, mems) == Call(l, CRR(World(l), p, s, mems)) /\ UNCHANGED heard

ReceiveSOA(l, p, s) == Call(l, SOA(World(l), p, s)) /\ UNCHANGED heard

ReceiveSOD(l, p, s) == Call(l, SOD(World(l), p, s)) /\ UNCHANGED heard

ReceiveRST(l, p) == Call(l, RST(World(l), p)) /\ UNCHANGED heard

\* A reset whose receiver session id is uuid.Nil is applied to every world of h.
ReceiveRSTAll(h, p) ==
    LET F == OnWorlds(h, [l \in Lsids |-> RST(World(l), p)])
    IN  /\ Apply(F)
        /\ result' = [l \in Lsids |-> Outcome(result[l], F[l])]
        /\ UNCHANGED <<peers, worlds, used, join_hash, heard>>

-----------------------------------------------------------------------------
Init ==
    /\ peers = [h \in Locals |-> {}]
    /\ worlds = {}
    /\ used = {}
    /\ join_hash = [l \in Lsids |-> Nil]
    /\ entry = [l \in Lsids |-> [p \in Peers |-> Absent]]
    /\ fault = "none"
    /\ told = [l \in Lsids |-> [p \in Peers |-> ToldIdle]]
    /\ said = [l \in Lsids |-> [p \in Peers |-> Nil]]
    /\ heard = [l \in Lsids |-> [p \in Peers |-> {}]]
    /\ result = [l \in Lsids |-> "none"]

\* Partial maps from peers to sessions: the member lists of a message of p.
ListsOf(p) == UNION {[Q -> Sessions] : Q \in SUBSET (Peers \ {p})}

\* The application holds a handle of the world: its join has succeeded.
Exposed(l) == result[l] = "success"

Connections ==
    \E h \in Locals :
        \/ \E p \in Peers \ peers[h] : PeerConnected(h, p)
        \/ \E p \in peers[h] : PeerClose(h, p)

Application ==
    \/ \E l \in Lsids : OpenWorld(l)
    \/ \E l \in Lsids, p \in Peers : JoinWorld(l, p)
    \/ \E l \in Lsids : CloseWorld(l)
    \/ \E l \in Lsids, p \in Peers, s \in Sessions :
          Exposed(l) /\ (AcceptSessionCall(l, p, s) \/ DeclineSessionCall(l, p, s))

\* Only worlds that were opened request timers.
Timers ==
    \E l \in Lsids, old \in SUBSET Peers : join_hash[l] = Nil /\ TimerExpireCall(l, old)

\* A path maps to a world only once the application holds it, so JN reaches
\* exposed worlds only.  A world sends one JN, so one JOK answers it.
Messages ==
    \E l \in Lsids : \E p \in PeersOf(l) :
        \/ ReceiveJDN(l, p)
        \/ ReceiveRST(l, p)
        \/ \E s \in Sessions :
              \/ Exposed(l) /\ ReceiveJN(l, p, s)
              \/ ReceiveMEM(l, p, s)
              \/ ReceiveSOA(l, p, s)
              \/ ReceiveSOD(l, p, s)
              \/ \E q \in Peers, t \in Sessions : ReceiveJNI(l, p, s, q, t)
              \/ \E mems \in ListsOf(p) :
                    \/ ~Exposed(l) /\ ReceiveJOK(l, p, s, mems)
                    \/ ReceiveSJN(l, p, s, mems)
                    \/ ReceiveCRR(l, p, s, mems)

Resets == \E h \in Locals : \E p \in peers[h] : ReceiveRSTAll(h, p)

Next == fault = "none" /\ (Connections \/ Application \/ Timers \/ Messages \/ Resets)

Spec == Init /\ [][Next]_vars

-----------------------------------------------------------------------------
(* Properties *)

\* Every variable of AND and every history variable has its type.
TypeOK ==
    /\ peers \in [Locals -> SUBSET Peers]
    /\ worlds \subseteq used
    /\ used \subseteq Lsids
    /\ join_hash \in [Lsids -> Peers \cup {Nil}]
    /\ entry \in [Lsids -> [Peers -> Info]]
    /\ fault \in {"none", "panic", "nilpeer"}
    /\ told \in [Lsids -> [Peers -> Told]]
    /\ said \in [Lsids -> [Peers -> Sessions \cup {Nil}]]
    /\ heard \in [Lsids -> [Peers -> SUBSET Sessions]]
    /\ result \in [Lsids -> {"none", "success", "fail", "twice"}]

\* None of the panic statements of the state machine is reached ("not
\* connected", "duplicate connection", "proper member check failed", "and
\* invalid state", "impossible disconnected state", "must be removed, not
\* cleared"), and no handler meets a nil entry.  What this leaves out is the nil
\* Peer that CRR_MEMS can meet (fault "nilpeer").
NoPanic == fault # "panic"

\* A world knows a peer as connected exactly while the peer is connected:
\* PeerConnected and PeerClose reach every world, and no handler in between
\* drops a connected entry or keeps the entry of a closed one.
ConnectedEntries ==
    \A l \in worlds, p \in Peers : p \in PeersOf(l) <=> entry[l][p].state \in Connected

\* The events of a world make sense to the application: ready only after a
\* request for the same session, leave and object events only of a ready
\* member, no second request while the member is ready.  A peer is a member
\* (WS_MEM) exactly while the application holds it as ready, with the same
\* session, and an entry that waits for the application has been requested.
EventProtocol ==
    \A l \in Lsids, p \in Peers :
        LET i == entry[l][p]
            t == told[l][p]
        IN  /\ t.st # "bad"
            /\ t.st = "ready" <=> i.state = "MEM"
            /\ i.state \in {"JN", "JNI", "RMEM", "TMEM"} => t.st = "requested"
            /\ i.state \in {"JN", "JNI", "RMEM", "TMEM", "MEM"} => t.sid = i.sid

\* The states in which the application is asked about the session.
Waiting == {"JN", "JNI", "RMEM", "TMEM"}

Neighbours ==
    INSTANCE Membership WITH
        Worlds  <- Lsids,
        view    <- told,
        pending <- [l \in Lsids |-> [p \in Peers |->
                       IF entry[l][p].state \in Waiting THEN entry[l][p].sid ELSE Nil]],
        member  <- [l \in Lsids |-> [p \in Peers |->
                       IF entry[l][p].state = "MEM" THEN entry[l][p].sid ELSE Nil]]

\* The events of a world are those of module Membership: ready only for a
\* session that was asked about and is not withdrawn, leave only of a member, a
\* new request in the place of an older session only.  The refinement mapping
\* reads pending and member off the states of the entries, so the application
\* has a peer as ready exactly while its entry is WS_MEM, with the same session.
KeepsMembership == Neighbours!Spec

\* No half membership is left behind: a session of a peer that was sent JOK or
\* MEM is still held by the world, or has been sent RST since.
NoDanglingCommitment ==
    \A l \in Lsids, p \in Peers :
        said[l][p] # Nil => /\ entry[l][p].state \in {"TMEM", "MEM"}
                            /\ entry[l][p].sid = said[l][p]

\* The application sees a member as ready only if the two sessions have agreed:
\* this host has sent JOK or MEM to that session and not withdrawn it, and JOK
\* or MEM has arrived from that same session.
MutualConsent ==
    \A l \in Lsids, p \in Peers :
        told[l][p].st = "ready" => /\ said[l][p] = told[l][p].sid
                                   /\ told[l][p].sid \in heard[l][p]

\* As long as the join of a live world is not answered, its target is still
\* waited for: the join is never lost inside AND.  And nobody else is a target.
JoinStaysPending ==
    \A l \in worlds, p \in Peers :
        entry[l][p].state \in {"DC_JT", "JT"} <=> (result[l] = "none" /\ join_hash[l] = p)

\* A world whose join has not succeeded raises no event about any peer.  The
\* event loop has no World object for it: it would panic, or call a method of
\* the nil World that ANDJoinFail leaves in the map.
UnjoinedWorldIsSilent ==
    \A l \in Lsids : result[l] # "success" => \A p \in Peers : told[l][p].st = "idle"

\* The join result of a world is reported at most once.  A second report would
\* block the event loop for ever on the nil channel of a deleted queue entry.
JoinResultIsFinal ==
    [][\A l \in Lsids : result[l] # "none" => result'[l] = result[l]]_vars

\* The session a world holds for a peer is replaced only by a newer one; an
\* older session, or another one of the same millisecond, has to wait for a
\* reset.
SessionsAdvance ==
    [][\A l \in Lsids, p \in Peers :
          (entry[l][p].sid # Nil /\ entry'[l][p].sid \notin {Nil, entry[l][p].sid})
          => TimeOf[entry[l][p].sid] < TimeOf[entry'[l][p].sid]]_vars
=============================================================================
