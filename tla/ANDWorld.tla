------------------------------ MODULE ANDWorld ------------------------------
(***************************************************************************)
(* The state machine that one world keeps for each neighbour               *)
(* (src/and/world.go): what every handler of ANDWorld does to the entry of *)
(* every peer, which messages it sends to that peer and which events it    *)
(* pushes on the event channel about it.                                   *)
(*                                                                         *)
(* The handlers have no variables here: they map a world record            *)
(*     w = [join_hash, peers]        (peers \in [Peers -> Info])           *)
(* to the effect that the call has on the entry of each peer, a function   *)
(* in [Peers -> Eff].  Modules AND and AbyssHost turn effects into steps.  *)
(*                                                                         *)
(* Abstractions.  A session's creation time travels with its id in every   *)
(* message that carries it, and an entry always stores the two together,   *)
(* so the time is a function TimeOf of the id; times are truncated to      *)
(* milliseconds on the wire, so TimeOf need not be injective.  The Peer    *)
(* pointer of an entry is nil exactly in the two WS_DC states.  sjnc is    *)
(* only compared with 3 and saturates at SjnMax.  A key that the map does  *)
(* not hold is the entry Absent.                                           *)
(***************************************************************************)
EXTENDS Naturals, Sequences, FiniteSets, SequencesExt

CONSTANTS
    Peers,      \* identity hashes of the remote hosts
    Sessions,   \* session ids of the worlds of remote hosts
    TimeOf,     \* creation time of each of those sessions, in milliseconds
    Nil         \* uuid.Nil, and the join_hash of a world that was opened

ASSUME TimeAssumption == TimeOf \in [Sessions -> Nat \ {0}]
ASSUME NilAssumption == Nil \notin Sessions /\ Nil \notin Peers

SjnMax == 4

-----------------------------------------------------------------------------
(* Entries *)

Disconnected == {"DC_JT", "DC_JNI"}

\* States of an entry of the map that has a live Peer pointer.
Connected == {"CC", "JT", "JN", "RMEM_NJNI", "JNI", "RMEM", "TMEM", "MEM"}

WS == Disconnected \cup Connected \cup {"Absent"}

Info == [state : WS, sid : Sessions \cup {Nil}, sjnp : BOOLEAN, sjnc : 0..SjnMax]

NewANDPeerSessionState(sid, state) ==
    [state |-> state, sid |-> sid, sjnp |-> FALSE, sjnc |-> 0]

Absent == NewANDPeerSessionState(Nil, "Absent")

\* Clear() of a connected entry.
Cleared == NewANDPeerSessionState(Nil, "CC")

\* Mutant: equal times count as newer.
NewerOrSame(i, s) == i.sid = Nil \/ TimeOf[i.sid] <= TimeOf[s]

\* s.TimeStamp.Before(timestamp); an entry without a session has the zero time.
Newer(i, s) == i.sid = Nil \/ TimeOf[i.sid] < TimeOf[s]

-----------------------------------------------------------------------------
(* Effects: the new entry, the messages sent to the peer, the events about  *)
(* the peer, and whether the Go code panics.                                *)

Msg(type, rsid) == [type |-> type, rsid |-> rsid]

Event(type, sid) == [type |-> type, sid |-> sid]

Effect(i, tx, ev) == [info |-> i, tx |-> tx, ev |-> ev, fault |-> "none"]

Keep(i) == Effect(i, <<>>, <<>>)

\* panic(...) or a nil dereference in the handler.
Fault(i, why) == [Keep(i) EXCEPT !.fault = why]

\* Only peer p is affected.
At(w, p, e) == [q \in Peers |-> IF q = p THEN e ELSE Keep(w.peers[q])]

\* One message for each peer of Q, in some order.
Each(Q, Message(_)) ==
    LET order == SetToSeq(Q) IN [k \in 1..Len(order) |-> Message(order[k])]

-----------------------------------------------------------------------------
(* Helpers of the handlers *)

ClearStates(i) ==
    CASE i.state \in Disconnected ->
            Keep(Absent)
      [] i.state = "CC" ->
            Keep(Cleared)
      [] i.state = "JT" ->
            Effect(Cleared, <<Msg("RST", i.sid)>>, <<Event("JoinFail", Nil)>>)
      [] i.state = "JN" ->
            Effect(Cleared, <<Msg("JDN", i.sid)>>, <<>>)
      [] i.state = "MEM" ->
            Effect(Cleared, <<Msg("RST", i.sid)>>, <<Event("Close", i.sid)>>)
      [] i.state \in {"RMEM_NJNI", "JNI", "RMEM", "TMEM"} ->
            Effect(Cleared, <<Msg("RST", i.sid)>>, <<>>)
      [] OTHER ->
            Fault(i, "panic")

\* Mutant: the old session is overwritten, not cleared.
RenewedUncleared(i, s, state, ev) == Effect(NewANDPeerSessionState(s, state), <<>>, ev)

\* The branch of TryUpdateSessionID that succeeds, with the state its caller
\* then stores and the event its caller then raises.
Renewed(i, s, state, ev) ==
    LET c == ClearStates(i)
    IN  Effect(NewANDPeerSessionState(s, state), c.tx, c.ev \o ev)

IsProperMember(i, s) == i.state = "MEM" /\ i.sid = s

\* The rest of IsProperMemberOrReset.
Reset(i) == IF i.state \in Connected THEN ClearStates(i) ELSE Fault(i, "panic")

JNI_MEMS(i, s) ==
    CASE i.state = "Absent" ->
            Effect(NewANDPeerSessionState(s, "DC_JNI"), <<>>,
                   <<Event("PeerRegister", Nil), Event("ConnectRequest", Nil)>>)
      [] i.state = "DC_JNI" ->
            Keep(IF Newer(i, s) THEN NewANDPeerSessionState(s, "DC_JNI") ELSE i)
      [] i.state = "CC" ->
            Effect(NewANDPeerSessionState(s, "JNI"), <<>>, <<Event("Request", s)>>)
      [] i.state \in {"JN", "RMEM_NJNI", "JNI", "RMEM", "TMEM", "MEM"} ->
            IF Newer(i, s)
            THEN Renewed(i, s, "JNI", <<Event("Request", s)>>)
            ELSE IF i.state = "RMEM_NJNI" /\ i.sid = s
                 THEN Effect([i EXCEPT !.state = "RMEM"], <<>>, <<Event("Request", s)>>)
                 ELSE Keep(i)
      [] OTHER ->
            Fault(i, "panic")

-----------------------------------------------------------------------------
(* Handlers for the calls of AND *)

\* The entry for a peer that has just connected.
ConnectPeer(i) ==
    CASE i.state = "Absent" ->
            Keep(Cleared)
      [] i.state = "DC_JT" ->
            Effect([i EXCEPT !.state = "JT"], <<Msg("JN", Nil)>>, <<>>)
      [] i.state = "DC_JNI" ->
            Effect([i EXCEPT !.state = "JNI"], <<>>, <<Event("Request", i.sid)>>)
      [] OTHER ->
            Fault(i, "panic")

\* Mutant: the peers that are already connected are not copied.
OpenEntriesEmpty(connected) == [q \in Peers |-> Keep(Absent)]

\* NewWorldOpen: an entry for every connected peer.
OpenEntries(connected) ==
    [q \in Peers |-> Keep(IF q \in connected THEN Cleared ELSE Absent)]

\* NewWorldJoin: the same, and the join request to the target or, when it is
\* not connected, the request to connect.
JoinEntries(target, connected) ==
    [q \in Peers |->
        IF q # target THEN Keep(IF q \in connected THEN Cleared ELSE Absent)
        ELSE IF q \in connected
             THEN Effect(NewANDPeerSessionState(Nil, "JT"), <<Msg("JN", Nil)>>, <<>>)
             ELSE Effect(NewANDPeerSessionState(Nil, "DC_JT"), <<>>,
                         <<Event("ConnectRequest", Nil)>>)]

\* Mutant: the entry is cleared and not deleted.
RemovePeerKeepsEntry(w, p) == At(w, p, ClearStates(w.peers[p]))

RemovePeer(w, p) == At(w, p, [ClearStates(w.peers[p]) EXCEPT !.info = Absent])

\* Mutant: the peers are not told.
CloseEntrySilently(i) == Keep(Absent)

\* Close() and the deletion of the world: what it does about one entry.
CloseEntry(i) ==
    CASE i.state = "JT" ->
            Effect(Absent, <<Msg("RST", i.sid)>>, <<Event("JoinFail", Nil)>>)
      [] i.state \in {"JN", "RMEM_NJNI", "JNI", "RMEM", "TMEM"} ->
            Effect(Absent, <<Msg("RST", i.sid)>>, <<>>)
      [] i.state = "MEM" ->
            Effect(Absent, <<Msg("RST", i.sid)>>, <<Event("Close", i.sid)>>)
      [] OTHER ->
            Keep(Absent)

Close(w) == [q \in Peers |-> CloseEntry(w.peers[q])]

\* The application accepts session s of p.  A joining peer is answered with
\* the member list, and every member is told of it.
AcceptSession(w, p, s) ==
    LET i       == w.peers[p]
        members == {q \in Peers : w.peers[q].state = "MEM"}
    IN  CASE i.state \in {"DC_JT", "JT"} ->
                At(w, p, Fault(i, "panic"))
          [] i.state = "JN" /\ i.sid = s ->
                [q \in Peers |->
                    IF q = p
                    THEN Effect([i EXCEPT !.state = "TMEM"],
                                <<[type |-> "JOK", rsid |-> s,
                                   mems |-> [r \in members |-> w.peers[r].sid]]>>, <<>>)
                    ELSE IF q \in members
                         THEN Effect(w.peers[q],
                                     <<[type |-> "JNI", rsid |-> w.peers[q].sid,
                                        peer |-> p, sid |-> s]>>, <<>>)
                         ELSE Keep(w.peers[q])]
          [] i.state = "JNI" /\ i.sid = s ->
                At(w, p, Effect([i EXCEPT !.state = "TMEM"], <<Msg("MEM", s)>>, <<>>))
          [] i.state = "RMEM" /\ i.sid = s ->
                At(w, p, Effect([i EXCEPT !.state = "MEM"], <<Msg("MEM", s)>>,
                                <<Event("Ready", s)>>))
          [] OTHER ->
                At(w, p, Keep(i))

\* Mutant: the peer is not told.
DeclineSessionSilently(w, p, s) ==
    LET i == w.peers[p]
    IN  At(w, p, Keep(IF i.state \in Connected /\ i.sid = s THEN Cleared ELSE i))

DeclineSession(w, p, s) ==
    LET i == w.peers[p]
    IN  At(w, p, IF i.state # "Absent" /\ i.sid = s THEN ClearStates(i) ELSE Keep(i))

\* Mutant: one announcement more.
AnnouncesOnceMore(i) == i.state = "MEM" /\ ~i.sjnp /\ i.sjnc <= 4

\* Mutant: only members that were introduced by another world are announced.
AnnouncesIntroduced(i) == i.state = "MEM" /\ i.sjnp /\ i.sjnc <= 3

\* A member that is still to be announced to the others.
Announces(i) == i.state = "MEM" /\ ~i.sjnp /\ i.sjnc <= 3

\* TimerExpire: old is the set of peers whose session is at least a second old.
\* The sessions not yet announced often enough are announced to every member.
TimerExpire(w, old) ==
    LET members == {q \in Peers : w.peers[q].state = "MEM"}
        sjn     == {q \in old : Announces(w.peers[q])}
        list    == [r \in sjn |-> w.peers[r].sid]
    IN  [q \in Peers |->
            Effect(IF q \in sjn THEN [w.peers[q] EXCEPT !.sjnc = @ + 1] ELSE w.peers[q],
                   IF q \in members /\ sjn # {}
                   THEN <<[type |-> "SJN", rsid |-> w.peers[q].sid, mems |-> list]>>
                   ELSE <<>>,
                   <<>>)]

-----------------------------------------------------------------------------
(* Handlers for the messages of peer p, sent by its session s *)

JN(w, p, s) ==
    LET i == w.peers[p]
    IN  At(w, p,
           CASE i.state = "CC" ->
                   Effect(NewANDPeerSessionState(s, "JN"), <<>>, <<Event("Request", s)>>)
             [] i.state = "JT" ->
                   Effect(i, <<Msg("JDN", s)>>, <<>>)
             [] i.state \in {"JN", "RMEM_NJNI", "JNI", "RMEM", "TMEM", "MEM"} ->
                   IF Newer(i, s)
                   THEN Renewed(i, s, "JN", <<Event("Request", s)>>)
                   ELSE Effect(i, <<Msg("JDN", s)>>, <<>>)
             [] OTHER ->
                   Fault(i, "panic"))

\* mems is the member list, a function from other peers to their sessions.
\* JOK, JDN and the object messages use the entry of the sender without asking
\* whether there is one; there always is (ConnectedEntries of module AND).
JOK(w, p, s, mems) ==
    LET i == w.peers[p]
    IN  IF w.join_hash # p \/ i.state # "JT"
        THEN At(w, p, Effect(i, <<Msg("RST", s)>>, <<>>))
        ELSE [q \in Peers |->
                IF q = p
                THEN Effect([NewANDPeerSessionState(s, "RMEM") EXCEPT !.sjnp = TRUE], <<>>,
                            <<Event("JoinSuccess", Nil), Event("Request", s)>>)
                ELSE IF q \in DOMAIN mems
                     THEN JNI_MEMS(w.peers[q], mems[q])
                     ELSE Keep(w.peers[q])]

\* Mutant: the caller of JoinWorld is not told.
JDNSilently(w, p) ==
    LET i == w.peers[p]
    IN  At(w, p, Keep(IF w.join_hash = p /\ i.state = "JT" THEN Cleared ELSE i))

\* Mutant: the state of the entry is not checked.
JDNAnyState(w, p) ==
    At(w, p, IF w.join_hash = p THEN Effect(Cleared, <<>>, <<Event("JoinFail", Nil)>>)
                                ELSE Keep(w.peers[p]))

JDN(w, p) ==
    LET i == w.peers[p]
    IN  At(w, p, IF w.join_hash = p /\ i.state = "JT"
                 THEN Effect(Cleared, <<>>, <<Event("JoinFail", Nil)>>)
                 ELSE Keep(i))

\* Mutant: p need not be a member.
JNIOfAnyone(w, p, s, q, t) == At(w, q, JNI_MEMS(w.peers[q], t))

\* p announces session t of peer q.
JNI(w, p, s, q, t) ==
    IF IsProperMember(w.peers[p], s)
    THEN At(w, q, JNI_MEMS(w.peers[q], t))
    ELSE At(w, p, Reset(w.peers[p]))

\* Mutant: TMEM is completed by a MEM of any session of the peer.
MEMOfAnySession(w, p, s) ==
    LET i == w.peers[p]
    IN  At(w, p,
           CASE i.state = "CC" -> Keep(NewANDPeerSessionState(s, "RMEM_NJNI"))
             [] i.state = "JT" -> ClearStates(i)
             [] i.state = "TMEM" ->
                   Effect([i EXCEPT !.state = "MEM"], <<>>, <<Event("Ready", i.sid)>>)
             [] OTHER -> Keep(i))

\* Mutant: MEM of a session that is not accepted yet is forgotten.
MEMEarlyForgotten(w, p, s) ==
    LET i == w.peers[p]
    IN  At(w, p,
           CASE i.state = "CC" -> Keep(NewANDPeerSessionState(s, "RMEM_NJNI"))
             [] i.state = "JT" -> ClearStates(i)
             [] i.state = "TMEM" /\ i.sid = s ->
                   Effect([i EXCEPT !.state = "MEM"], <<>>, <<Event("Ready", s)>>)
             [] OTHER -> Keep(i))

MEM(w, p, s) ==
    LET i == w.peers[p]
    IN  At(w, p,
           CASE i.state = "CC" ->
                   Keep(NewANDPeerSessionState(s, "RMEM_NJNI"))
             [] i.state = "JT" ->
                   ClearStates(i)
             [] i.state \in {"JN", "RMEM_NJNI", "JNI", "RMEM", "TMEM", "MEM"} ->
                   IF Newer(i, s)
                   THEN Renewed(i, s, "RMEM_NJNI", <<>>)
                   ELSE IF i.state = "JNI" /\ i.sid = s
                   THEN Keep([i EXCEPT !.state = "RMEM"])
                   ELSE IF i.state = "TMEM" /\ i.sid = s
                   THEN Effect([i EXCEPT !.state = "MEM"], <<>>, <<Event("Ready", s)>>)
                   ELSE Keep(i)
             [] OTHER ->
                   Fault(i, "panic"))

\* p lists the sessions it has announced: the known ones are counted, each of
\* the others is asked for.
SJN(w, p, s, mems) ==
    LET known   == {q \in DOMAIN mems : IsProperMember(w.peers[q], mems[q])}
        unknown == DOMAIN mems \ known
        Count(i) == [i EXCEPT !.sjnc = IF @ < SjnMax THEN @ + 1 ELSE @]
        Ask(q)   == [type |-> "CRR", rsid |-> s, mems |-> [r \in {q} |-> mems[r]]]
    IN  IF ~IsProperMember(w.peers[p], s) THEN At(w, p, Reset(w.peers[p]))
        ELSE [q \in Peers |->
                Effect(IF q \in known THEN Count(w.peers[q]) ELSE w.peers[q],
                       IF q = p THEN Each(unknown, Ask) ELSE <<>>,
                       <<>>)]

\* p asks to be introduced to sessions: both sides of each one that the world
\* still holds get a JNI about the other.
CRR(w, p, s, mems) ==
    LET held    == {q \in DOMAIN mems : w.peers[q].state # "Absent"
                                        /\ w.peers[q].sid = mems[q]}
        About(q, r) == [type |-> "JNI", rsid |-> w.peers[q].sid,
                        peer |-> r, sid |-> w.peers[r].sid]
        AboutTo(r)  == About(p, r)
    IN  IF ~IsProperMember(w.peers[p], s) THEN At(w, p, Reset(w.peers[p]))
        ELSE [q \in Peers |->
                IF q = p THEN Effect(w.peers[p], Each(held, AboutTo), <<>>)
                ELSE IF q \notin held THEN Keep(w.peers[q])
                ELSE IF w.peers[q].state \in Disconnected
                     THEN Fault(w.peers[q], "nilpeer")
                     ELSE Effect(w.peers[q], <<About(q, p)>>, <<>>)]

\* Shared objects appended or deleted: type is "ObjectAppend" or "ObjectDelete".
ObjectUpdate(w, p, s, type) ==
    LET i == w.peers[p]
    IN  At(w, p,
           IF i.sid # s THEN Effect(i, <<Msg("RST", s)>>, <<>>)
           ELSE IF i.state = "MEM" THEN Effect(i, <<>>, <<Event(type, s)>>)
           ELSE Keep(i))

SOA(w, p, s) == ObjectUpdate(w, p, s, "ObjectAppend")

SOD(w, p, s) == ObjectUpdate(w, p, s, "ObjectDelete")

RST(w, p) == At(w, p, ClearStates(w.peers[p]))
=============================================================================
