---------------------------- MODULE ANDNetProofs ----------------------------
(***************************************************************************)
(* The hosts of ANDNet, for any number of hosts and worlds: together they  *)
(* implement module AND, none of them fails, and no world keeps a member   *)
(* that has dropped it.  The inductive invariant NInv adds to IInv what is *)
(* on the links (WireOK), that the one join request of a world is in one   *)
(* place at a time (JoinOnce), and that a commitment is kept or followed   *)
(* by a reset (CommitsKept, HearsBack).                                    *)
(*                                                                         *)
(* Every step is described by the effects F on all entries and by d, the   *)
(* number of messages taken from each link: Moves says what is on the      *)
(* links afterwards, Fits what the effects may be.  Each action is shown   *)
(* to have such effects, and these to preserve each part of NInv.          *)
(***************************************************************************)
EXTENDS ANDNet, ANDProofs, FiniteSetTheorems

-----------------------------------------------------------------------------
(* The inductive invariant *)

\* The messages that promise membership.
Commits == {"JOK", "MEM"}

\* The states of an entry whose session has sent JOK or MEM.
Hears == {"RMEM_NJNI", "RMEM", "MEM"}

\* What a message m on the link from x to y looks like.
WireOK(x, y, m) ==
    /\ m.msg.type # "JDN" => m.ssid \in Lsids /\ HostOf[m.ssid] = x
    /\ m.msg.type = "JN" => JoinTo[m.ssid] # Nil /\ HostOf[JoinTo[m.ssid]] = y
    /\ m.msg.type \in Commits => m.msg.rsid \in Lsids
    /\ m.msg.type = "JOK" => HostOf[m.msg.rsid] = y /\ JoinTo[m.msg.rsid] = m.ssid
    /\ m.msg.type = "JNI" => m.msg.peer \in Peers \ {y} /\ m.msg.sid \in Sessions
    /\ m.msg.type \in {"JOK", "SJN", "CRR"} => m.msg.mems \in ListsOf(x)
    /\ m.msg.type = "SJN" => DOMAIN m.msg.mems \subseteq peers[x]
    /\ m.msg.type = "CRR" => DOMAIN m.msg.mems \subseteq peers[y]

Listed(q) == \E S : q \in Seq(S)

LinksOK ==
    /\ net = [x \in Peers |-> [y \in Peers |-> net[x][y]]]
    /\ \A x, y \in Peers : /\ Listed(net[x][y])
                           /\ \A n \in DOMAIN net[x][y] : WireOK(x, y, net[x][y][n])

\* A session in an entry belongs to the peer, and to a world that joins this one.
EntriesOK ==
    \A l \in Lsids, x \in Peers :
        /\ entry[l][x].state = "JN" => JoinTo[entry[l][x].sid] = l
        /\ entry[l][x].state \in {"JN"} \cup Hears => HostOf[entry[l][x].sid] = x

IsAsk(m, l) == m.msg.type = "JN" /\ m.ssid = l

IsAnswer(m, l) == m.msg.type = "JOK" /\ m.msg.rsid = l

IsReset(m, k, l) == m.msg.type = "RST" /\ m.ssid = k /\ m.msg.rsid = l

\* Where the join of l is: its request or the answer is message n of a link, or
\* the request waits for the application of its target.
Token(l, kind, n) ==
    LET t      == JoinTo[l]
        ask    == net[HostOf[l]][HostOf[t]]
        answer == net[HostOf[t]][HostOf[l]]
        i      == entry[t][HostOf[l]]
    IN  \/ kind = "ask" /\ n \in DOMAIN ask /\ IsAsk(ask[n], l)
        \/ kind = "wait" /\ n = 0 /\ i.state = "JN" /\ i.sid = l
        \/ kind = "answer" /\ n \in DOMAIN answer /\ IsAnswer(answer[n], l)

\* The request of l has been sent, and the answer has not arrived.
Requested(l) ==
    /\ l \in used
    /\ entry[l][HostOf[JoinTo[l]]].state # "DC_JT"
    /\ result[l] # "success"

JoinOnce(l) ==
    /\ \A k1, k2, n1, n2 : Token(l, k1, n1) /\ Token(l, k2, n2) => k1 = k2 /\ n1 = n2
    /\ \A k, n : Token(l, k, n) => Requested(l)

\* A reset from k to l is on the link from x to y, behind message n.
ResetAfter(x, y, n, k, l) ==
    \E j \in DOMAIN net[x][y] : j > n /\ IsReset(net[x][y][j], k, l)

\* A commitment on a link still stands, or a reset follows it.
CommitsKept ==
    \A x, y \in Peers : \A n \in DOMAIN net[x][y] :
        LET m == net[x][y][n]
        IN  m.msg.type \in Commits => \/ said[m.ssid][y] = m.msg.rsid
                                      \/ ResetAfter(x, y, n, m.ssid, m.msg.rsid)

\* A commitment that has arrived still stands, or a reset is on its way.
HearsBack ==
    \A l \in Lsids, x \in Peers :
        LET k == entry[l][x].sid
        IN  entry[l][x].state \in Hears => \/ said[k][HostOf[l]] = l
                                           \/ ResetAfter(x, HostOf[l], 0, k, l)

\* What the calls leave of the join targets, the paths and the connections.
CallsOK ==
    /\ fault = "none"
    /\ \A l \in published : l \in Lsids /\ result[l] = "success"
    /\ \A l \in Lsids : join_hash[l] # Nil => JoinTo[l] # Nil /\ join_hash[l] = HostOf[JoinTo[l]]
    /\ \A h \in Peers : h \notin peers[h]

NInv ==
    /\ CallsOK
    /\ LinksOK
    /\ EntriesOK
    /\ \A l \in Lsids : JoinTo[l] # Nil => JoinOnce(l)
    /\ CommitsKept
    /\ HearsBack

-----------------------------------------------------------------------------
(* Effects on one entry *)

\* Effect e on entry i sends messages of these types only; it takes a session
\* into state JN, or hears from it, only if the session is in J or in H.
Modest(i, e, types, J, H) ==
    /\ Listed(e.tx)
    /\ \A n \in DOMAIN e.tx : e.tx[n].type \in types
    /\ e.info.state = "DC_JT" => i.state = "DC_JT"
    /\ e.info.state = "JN" => e.info.sid \in J \/ (i.state = "JN" /\ e.info.sid = i.sid)
    /\ e.info.state \in Hears => e.info.sid \in H \/ (i.state \in Hears /\ e.info.sid = i.sid)
    /\ ~Raises(e.ev, "JoinSuccess")
    /\ e.fault # "nilpeer"

\* The messages that refuse or withdraw.
Refusals == {"RST", "JDN"}

\* Sequences of at most one message.
LEMMA ListedLemma ==
    /\ Listed(<<>>)
    /\ \A m : Listed(<<m>>) /\ DOMAIN <<m>> = {1} /\ <<m>>[1] = m /\ Len(<<m>>) = 1
    /\ \A y, s : Msg(y, s).type = y /\ Msg(y, s).rsid = s
PROOF
<1>1. <<>> \in Seq({})
  OBVIOUS
<1>2. ASSUME NEW m PROVE Listed(<<m>>) /\ DOMAIN <<m>> = {1} /\ <<m>>[1] = m /\ Len(<<m>>) = 1
  <2>1. <<m>> \in Seq({m})
    OBVIOUS
  <2>2. Listed(<<m>>)
    BY <2>1 DEF Listed
  <2> QED BY <2>2
<1> QED BY <1>1, <1>2 DEF Listed, Msg

\* The effects that the handlers are put together from.
LEMMA PartsModest ==
    ASSUME NEW i, NEW J, NEW H
    PROVE  /\ Modest(i, Keep(i), Refusals, J, H)
           /\ Modest(i, Fault(i, "panic"), Refusals, J, H)
           /\ Modest(i, ClearStates(i), Refusals, J, H)
           /\ ClearStates(i).info.state \notin Hears
PROOF
<1> USE ListedLemma, RaisesLemma
    DEF Modest, Refusals, Hears, Effect, Keep, Fault, Cleared, Absent, NewANDPeerSessionState,
        Disconnected
<1>1. Modest(i, Keep(i), Refusals, J, H) /\ Modest(i, Fault(i, "panic"), Refusals, J, H)
  OBVIOUS
<1>2. CASE i.state \in Disconnected
  BY <1>2 DEF ClearStates
<1>3. CASE i.state = "CC"
  BY <1>3 DEF ClearStates
<1>4. CASE i.state = "JT"
  BY <1>4 DEF ClearStates
<1>5. CASE i.state = "JN"
  BY <1>5 DEF ClearStates
<1>6. CASE i.state = "MEM"
  BY <1>6 DEF ClearStates
<1>7. CASE i.state \in {"RMEM_NJNI", "JNI", "RMEM", "TMEM"}
  BY <1>7 DEF ClearStates
<1>8. CASE i.state \notin Disconnected \cup {"CC", "JT", "JN", "MEM", "RMEM_NJNI", "JNI", "RMEM", "TMEM"}
  <2>1. ClearStates(i) = Fault(i, "panic")
    BY <1>8 DEF ClearStates
  <2> QED BY <1>1, <1>8, <2>1
<1> QED BY <1>1, <1>2, <1>3, <1>4, <1>5, <1>6, <1>7, <1>8

\* An entry that goes to another state with the same session.
LEMMA AdvancedModest ==
    ASSUME NEW i \in Info, NEW st \in {"JT", "JNI", "RMEM", "MEM"}, NEW ev, NEW e, NEW H,
           e = Effect([i EXCEPT !.state = st], <<>>, ev), ~Raises(ev, "JoinSuccess"),
           st \in Hears => i.state \in Hears \/ i.sid \in H
    PROVE  Modest(i, e, Refusals, {}, H)
PROOF
<1>1. e.info.state = st /\ e.info.sid = i.sid /\ e.tx = <<>> /\ e.ev = ev /\ e.fault = "none"
  BY DEF Effect, Info
<1> QED BY <1>1, ListedLemma DEF Modest

\* The branch of TryUpdateSessionID that succeeds resets the old session, and
\* the events it raises are those of ClearStates and its caller's.
LEMMA RenewedModest ==
    ASSUME NEW i, NEW s, NEW state \in {"JN", "JNI", "RMEM_NJNI"}, i.state \in Held,
           NEW ev \in {<<>>, <<Event("Request", s)>>}
    PROVE  Modest(i, Renewed(i, s, state, ev), Refusals,
                  IF state = "JN" THEN {s} ELSE {}, IF state = "RMEM_NJNI" THEN {s} ELSE {})
PROOF
<1> DEFINE c == ClearStates(i)
           e == Renewed(i, s, state, ev)
<1>1. /\ e.info.state = state /\ e.info.sid = s /\ e.tx = c.tx /\ e.ev = c.ev \o ev
      /\ e.fault = "none"
  BY DEF Renewed, Effect, NewANDPeerSessionState
<1>2. Listed(c.tx) /\ \A n \in DOMAIN c.tx : c.tx[n].type \in Refusals
  BY PartsModest DEF Modest
<1>3. ~Raises(c.ev \o ev, "JoinSuccess")
  <2>1. c.ev \in {<<>>, <<Event("Close", i.sid)>>}
    BY DEF ClearStates, Held, Effect, Disconnected
  <2> DEFINE x == Event("Close", i.sid)
             y == Event("Request", s)
  <2>3. /\ ~Raises(<<>>, "JoinSuccess") /\ ~Raises(<<x>>, "JoinSuccess")
        /\ ~Raises(<<y>>, "JoinSuccess") /\ ~Raises(<<x, y>>, "JoinSuccess")
    BY RaisesLemma
  <2> HIDE DEF x, y
  <2>4. /\ <<>> \o <<>> = <<>> /\ <<>> \o <<y>> = <<y>>
        /\ <<x>> \o <<>> = <<x>> /\ <<x>> \o <<y>> = <<x, y>>
    BY ConcatLemma
  <2>5. c.ev \in {<<>>, <<x>>} /\ ev \in {<<>>, <<y>>}
    BY <2>1 DEF x, y
  <2>6. c.ev \o ev \in {<<>>, <<x>>, <<y>>, <<x, y>>}
    <3>1. CASE c.ev = <<>>
      BY <2>4, <2>5, <3>1
    <3>2. CASE c.ev = <<x>>
      BY <2>4, <2>5, <3>2
    <3> QED BY <2>5, <3>1, <3>2
  <2> QED BY <2>3, <2>6
<1> HIDE DEF c, e
<1>4. Modest(i, e, Refusals, IF state = "JN" THEN {s} ELSE {}, IF state = "RMEM_NJNI" THEN {s} ELSE {})
  BY <1>1, <1>2, <1>3 DEF Modest, Hears
<1> QED BY <1>4 DEF e

\* The entry that an announced session changes.
LEMMA JNI_MEMS_Modest ==
    ASSUME NEW i \in Info, NEW s
    PROVE  Modest(i, JNI_MEMS(i, s), Refusals, {}, {})
PROOF
<1> DEFINE e == JNI_MEMS(i, s)
<1>1. CASE i.state \in {"Absent", "DC_JNI", "CC"}
  <2> USE ListedLemma, RaisesLemma
      DEF Modest, Refusals, Hears, Effect, Keep, NewANDPeerSessionState
  <2>1. CASE i.state = "Absent"
    BY <2>1 DEF JNI_MEMS
  <2>2. CASE i.state = "DC_JNI"
    <3>1. e = Keep(NewANDPeerSessionState(s, "DC_JNI")) \/ e = Keep(i)
      BY <2>2 DEF JNI_MEMS
    <3>2. CASE e = Keep(NewANDPeerSessionState(s, "DC_JNI"))
      BY <3>2
    <3> QED BY <3>1, <3>2, PartsModest
  <2>3. CASE i.state = "CC"
    BY <2>3 DEF JNI_MEMS
  <2> QED BY <1>1, <2>1, <2>2, <2>3
<1>2. CASE i.state \in Held
  <2>1. CASE Newer(i, s)
    <3>1. e = Renewed(i, s, "JNI", <<Event("Request", s)>>)
      BY <1>2, <2>1 DEF JNI_MEMS, Held
    <3>2. Modest(i, e, Refusals, {}, {})
      BY <1>2, <3>1, RenewedModest
    <3> QED BY <3>2
  <2>2. CASE ~Newer(i, s) /\ i.state = "RMEM_NJNI" /\ i.sid = s
    <3>1. e = Effect([i EXCEPT !.state = "RMEM"], <<>>, <<Event("Request", s)>>)
      BY <2>2 DEF JNI_MEMS
    <3>2. i.state \in Hears
      BY <2>2 DEF Hears
    <3> DEFINE ev == <<Event("Request", s)>>
    <3>3. ~Raises(ev, "JoinSuccess")
      BY RaisesLemma
    <3> HIDE DEF e, ev
    <3>4. e = Effect([i EXCEPT !.state = "RMEM"], <<>>, ev)
      BY <3>1 DEF ev
    <3>5. Modest(i, e, Refusals, {}, {})
      BY <3>2, <3>3, <3>4, AdvancedModest
    <3> QED BY <3>5 DEF e
  <2>3. CASE ~Newer(i, s) /\ ~(i.state = "RMEM_NJNI" /\ i.sid = s)
    <3>1. e = Keep(i)
      BY <1>2, <2>3 DEF JNI_MEMS, Held
    <3> QED BY <3>1, PartsModest
  <2> QED BY <2>1, <2>2, <2>3
<1>3. CASE i.state \notin Held \cup {"Absent", "DC_JNI", "CC"}
  <2>1. e = Fault(i, "panic")
    BY <1>3 DEF JNI_MEMS, Held
  <2> QED BY <2>1, PartsModest
<1> QED BY <1>1, <1>2, <1>3

-----------------------------------------------------------------------------
(* Handlers *)

\* The effects fx on the entries of world w are modest; those on peer p may take
\* sessions of J and H.
WModest(w, p, fx, types, J, H) ==
    \A q \in Peers : Modest(w.peers[q], fx[q], types, IF q = p THEN J ELSE {}, IF q = p THEN H ELSE {})

LEMMA AtModest ==
    ASSUME NEW w, NEW p \in Peers, NEW e, NEW J, NEW H, Modest(w.peers[p], e, Refusals, J, H)
    PROVE  WModest(w, p, At(w, p, e), Refusals, J, H)
PROOF
<1>1. \A q \in Peers : At(w, p, e)[q] = IF q = p THEN e ELSE Keep(w.peers[q])
  BY DEF At
<1>2. \A q \in Peers : Modest(w.peers[q], Keep(w.peers[q]), Refusals, {}, {})
  BY PartsModest
<1> QED BY <1>1, <1>2 DEF WModest

\* The handlers that only clear, refuse or note an announced session.
LEMMA PlainHandlers ==
    ASSUME NEW w, \A q \in Peers : w.peers[q] \in Info, NEW p \in Peers, NEW s
    PROVE  /\ WModest(w, p, RST(w, p), Refusals, {}, {})
           /\ WModest(w, p, JDN(w, p), Refusals, {}, {})
           /\ WModest(w, p, At(w, p, Reset(w.peers[p])), Refusals, {}, {})
           /\ WModest(w, p, DeclineSession(w, p, s), Refusals, {}, {})
           /\ WModest(w, p, JN(w, p, s), Refusals, {s}, {})
           /\ \A q \in Peers : \A t : WModest(w, q, JNI(w, p, s, q, t), Refusals, {}, {})
PROOF
<1> DEFINE i == w.peers[p]
           c == ClearStates(i)
<1>1. /\ Modest(i, Keep(i), Refusals, {}, {}) /\ Modest(i, Keep(i), Refusals, {s}, {})
      /\ Modest(i, Fault(i, "panic"), Refusals, {}, {})
      /\ Modest(i, Fault(i, "panic"), Refusals, {s}, {})
      /\ Modest(i, c, Refusals, {}, {})
  BY PartsModest
<1>2. WModest(w, p, RST(w, p), Refusals, {}, {})
  BY <1>1, AtModest DEF RST
<1>3. WModest(w, p, At(w, p, Reset(i)), Refusals, {}, {})
  <2>1. Reset(i) \in {c, Fault(i, "panic")}
    BY DEF Reset
  <2>2. Modest(i, Reset(i), Refusals, {}, {})
    BY <1>1, <2>1
  <2> QED BY <2>2, AtModest
<1>4. WModest(w, p, JDN(w, p), Refusals, {}, {})
  <2> DEFINE fail == Effect(Cleared, <<>>, <<Event("JoinFail", Nil)>>)
  <2>1. Modest(i, fail, Refusals, {}, {})
    BY ListedLemma, RaisesLemma DEF Modest, Effect, Cleared, NewANDPeerSessionState, Hears
  <2>2. JDN(w, p) \in {At(w, p, fail), At(w, p, Keep(i))}
    BY DEF JDN
  <2> QED BY <1>1, <2>1, <2>2, AtModest
<1>5. WModest(w, p, DeclineSession(w, p, s), Refusals, {}, {})
  <2>1. DeclineSession(w, p, s) \in {At(w, p, c), At(w, p, Keep(i))}
    BY DEF DeclineSession
  <2> QED BY <1>1, <2>1, AtModest
<1>6. WModest(w, p, JN(w, p, s), Refusals, {s}, {})
  <2> DEFINE ask == Effect(NewANDPeerSessionState(s, "JN"), <<>>, <<Event("Request", s)>>)
             deny == Effect(i, <<Msg("JDN", s)>>, <<>>)
             new == Renewed(i, s, "JN", <<Event("Request", s)>>)
  <2>1. Modest(i, ask, Refusals, {s}, {})
    BY ListedLemma, RaisesLemma DEF Modest, Effect, NewANDPeerSessionState, Hears
  <2>2. Modest(i, deny, Refusals, {s}, {})
    BY ListedLemma, RaisesLemma DEF Modest, Effect, Refusals
  <2>3. i.state \in Held => Modest(i, new, Refusals, {s}, {})
    BY RenewedModest
  <2>4. \/ JN(w, p, s) \in {At(w, p, ask), At(w, p, deny), At(w, p, Fault(i, "panic"))}
        \/ i.state \in Held /\ JN(w, p, s) = At(w, p, new)
    BY DEF JN, Held
  <2> HIDE DEF ask, deny, new, i
  <2>5. CASE i.state \in Held /\ JN(w, p, s) = At(w, p, new)
    BY <2>3, <2>5, AtModest DEF i
  <2>6. CASE JN(w, p, s) \in {At(w, p, ask), At(w, p, deny), At(w, p, Fault(i, "panic"))}
    BY <1>1, <2>1, <2>2, <2>6, AtModest DEF i
  <2> QED BY <2>4, <2>5, <2>6
<1>7. ASSUME NEW q \in Peers, NEW t PROVE WModest(w, q, JNI(w, p, s, q, t), Refusals, {}, {})
  <2>1. JNI(w, p, s, q, t) \in {At(w, q, JNI_MEMS(w.peers[q], t)), At(w, p, Reset(i))}
    BY DEF JNI
  <2>2. CASE JNI(w, p, s, q, t) = At(w, p, Reset(i))
    BY <1>3, <2>2 DEF WModest
  <2>3. CASE JNI(w, p, s, q, t) = At(w, q, JNI_MEMS(w.peers[q], t))
    BY <2>3, JNI_MEMS_Modest, AtModest
  <2> QED BY <2>1, <2>2, <2>3
<1> QED BY <1>2, <1>3, <1>4, <1>5, <1>6, <1>7

\* MEM is the only message besides JOK that makes a session heard of.
LEMMA MEM_Modest ==
    ASSUME NEW w, \A q \in Peers : w.peers[q] \in Info, NEW p \in Peers, NEW s
    PROVE  WModest(w, p, MEM(w, p, s), Refusals, {}, {s})
PROOF
<1> DEFINE i == w.peers[p]
           early == Keep(NewANDPeerSessionState(s, "RMEM_NJNI"))
           new == Renewed(i, s, "RMEM_NJNI", <<>>)
           introduced == Keep([i EXCEPT !.state = "RMEM"])
           ready == Effect([i EXCEPT !.state = "MEM"], <<>>, <<Event("Ready", s)>>)
<1>1. i \in Info
  OBVIOUS
<1>2. Modest(i, early, Refusals, {}, {s})
  BY ListedLemma, RaisesLemma DEF Modest, Keep, Effect, NewANDPeerSessionState, Hears
<1>3. i.state \in Held => Modest(i, new, Refusals, {}, {s})
  BY RenewedModest
<1>4. i.sid = s => Modest(i, introduced, Refusals, {}, {s})
  <2>1. introduced = Effect([i EXCEPT !.state = "RMEM"], <<>>, <<>>)
    BY DEF Keep
  <2> DEFINE ev == <<>>
  <2>2. ~Raises(ev, "JoinSuccess")
    BY RaisesLemma
  <2> HIDE DEF ev, introduced
  <2>3. introduced = Effect([i EXCEPT !.state = "RMEM"], <<>>, ev)
    BY <2>1 DEF ev
  <2> QED BY <1>1, <2>2, <2>3, AdvancedModest
<1>5. i.sid = s => Modest(i, ready, Refusals, {}, {s})
  <2> DEFINE ev == <<Event("Ready", s)>>
  <2>1. ~Raises(ev, "JoinSuccess")
    BY RaisesLemma
  <2> HIDE DEF ev
  <2>2. ready = Effect([i EXCEPT !.state = "MEM"], <<>>, ev)
    BY DEF ev
  <2> QED BY <1>1, <2>1, <2>2, AdvancedModest
<1>6. /\ Modest(i, Keep(i), Refusals, {}, {s}) /\ Modest(i, Fault(i, "panic"), Refusals, {}, {s})
      /\ Modest(i, ClearStates(i), Refusals, {}, {s})
  BY PartsModest
<1>7. \/ MEM(w, p, s) \in {At(w, p, early), At(w, p, ClearStates(i)), At(w, p, Keep(i)),
                           At(w, p, Fault(i, "panic"))}
      \/ i.state \in Held /\ MEM(w, p, s) = At(w, p, new)
      \/ i.sid = s /\ MEM(w, p, s) \in {At(w, p, introduced), At(w, p, ready)}
  BY DEF MEM, Held
<1>8. ASSUME NEW e, Modest(i, e, Refusals, {}, {s}), MEM(w, p, s) = At(w, p, e)
      PROVE  WModest(w, p, MEM(w, p, s), Refusals, {}, {s})
  BY <1>8, AtModest
<1> HIDE DEF i, early, new, introduced, ready
<1> QED BY <1>2, <1>3, <1>4, <1>5, <1>6, <1>7, <1>8

\* The closing of a world, for one entry.
LEMMA CloseModest ==
    ASSUME NEW w, NEW p \in Peers
    PROVE  WModest(w, p, Close(w), Refusals, {}, {})
PROOF
<1> SUFFICES ASSUME NEW q \in Peers PROVE Modest(w.peers[q], CloseEntry(w.peers[q]), Refusals, {}, {})
  BY DEF WModest, Close
<1> DEFINE i == w.peers[q]
<1> USE ListedLemma, RaisesLemma
    DEF Modest, Refusals, Hears, Effect, Keep, Absent, NewANDPeerSessionState
<1>1. CASE i.state = "JT"
  BY <1>1 DEF CloseEntry
<1>2. CASE i.state \in {"JN", "RMEM_NJNI", "JNI", "RMEM", "TMEM"}
  BY <1>2 DEF CloseEntry
<1>3. CASE i.state = "MEM"
  BY <1>3 DEF CloseEntry
<1>4. CASE i.state \notin {"JT", "JN", "RMEM_NJNI", "JNI", "RMEM", "TMEM", "MEM"}
  BY <1>4 DEF CloseEntry
<1> QED BY <1>1, <1>2, <1>3, <1>4

\* JOK, but for the report of the join: it is heard from s, and the members of
\* the list are noted.
LEMMA JOK_Modest ==
    ASSUME NEW w, \A q \in Peers : w.peers[q] \in Info, NEW p \in Peers, NEW s, NEW mems,
           p \notin DOMAIN mems
    PROVE  /\ \A q \in Peers \ {p} : Modest(w.peers[q], JOK(w, p, s, mems)[q], Refusals, {}, {})
           /\ LET e == JOK(w, p, s, mems)[p]
              IN  Modest(w.peers[p], [e EXCEPT !.ev = <<>>], Refusals, {}, {s})
PROOF
<1> DEFINE fx == JOK(w, p, s, mems)
           i == w.peers[p]
           rst == Effect(i, <<Msg("RST", s)>>, <<>>)
           info == [NewANDPeerSessionState(s, "RMEM") EXCEPT !.sjnp = TRUE]
           ev == <<Event("JoinSuccess", Nil), Event("Request", s)>>
           joined == Effect(info, <<>>, ev)
<1>1. Modest(i, [rst EXCEPT !.ev = <<>>], Refusals, {}, {s})
  BY ListedLemma, RaisesLemma DEF Modest, Effect, Refusals
<1>2. Modest(i, [joined EXCEPT !.ev = <<>>], Refusals, {}, {s})
  BY ListedLemma, RaisesLemma DEF Modest, Effect, NewANDPeerSessionState
<1>3. \A q \in Peers : /\ Modest(w.peers[q], Keep(w.peers[q]), Refusals, {}, {})
                       /\ \A t : Modest(w.peers[q], JNI_MEMS(w.peers[q], t), Refusals, {}, {})
  BY PartsModest, JNI_MEMS_Modest
<1>4. CASE w.join_hash # p \/ i.state # "JT"
  <2>1. fx = At(w, p, rst)
    BY <1>4 DEF JOK
  <2>2. fx[p] = rst /\ \A q \in Peers \ {p} : fx[q] = Keep(w.peers[q])
    BY <2>1 DEF At
  <2> HIDE DEF fx, rst
  <2>3. /\ \A q \in Peers \ {p} : Modest(w.peers[q], fx[q], Refusals, {}, {})
        /\ Modest(w.peers[p], [fx[p] EXCEPT !.ev = <<>>], Refusals, {}, {s})
    BY <1>1, <1>3, <2>2
  <2> QED BY <2>3 DEF fx
<1>5. CASE ~(w.join_hash # p \/ i.state # "JT")
  <2>1. /\ fx[p] = joined
        /\ \A q \in Peers \ {p} : fx[q] \in {JNI_MEMS(w.peers[q], mems[q]), Keep(w.peers[q])}
    BY <1>5 DEF JOK
  <2> HIDE DEF fx, joined
  <2>2. /\ \A q \in Peers \ {p} : Modest(w.peers[q], fx[q], Refusals, {}, {})
        /\ Modest(w.peers[p], [fx[p] EXCEPT !.ev = <<>>], Refusals, {}, {s})
    BY <1>2, <1>3, <2>1
  <2> QED BY <2>2 DEF fx
<1> QED BY <1>4, <1>5

\* An entry that keeps its state and session, in a call without events.
LEMMA SameModest ==
    ASSUME NEW i, NEW e, NEW types, e.info.state = i.state, e.info.sid = i.sid, e.ev = <<>>,
           e.fault # "nilpeer", Listed(e.tx), \A n \in DOMAIN e.tx : e.tx[n].type \in types
    PROVE  Modest(i, e, types, {}, {})
  BY RaisesLemma DEF Modest

\* A newly connected peer is sent the join request that waited for it.
LEMMA ConnectModest ==
    ASSUME NEW i \in Info
    PROVE  /\ i.state # "DC_JT" => Modest(i, ConnectPeer(i), Refusals, {}, {})
           /\ i.state = "DC_JT" => /\ ConnectPeer(i).tx = <<Msg("JN", Nil)>>
                                   /\ ConnectPeer(i).info.state = "JT"
                                   /\ ConnectPeer(i).ev = <<>> /\ ConnectPeer(i).fault = "none"
PROOF
<1> DEFINE e == ConnectPeer(i)
<1>1. CASE i.state = "Absent"
  BY <1>1, ListedLemma, RaisesLemma
     DEF ConnectPeer, Modest, Keep, Effect, Cleared, NewANDPeerSessionState, Hears
<1>2. CASE i.state = "DC_JT"
  BY <1>2 DEF ConnectPeer, Effect, Info
<1>3. CASE i.state = "DC_JNI"
  <2> DEFINE ev == <<Event("Request", i.sid)>>
  <2>1. ~Raises(ev, "JoinSuccess")
    BY RaisesLemma
  <2>2. e = Effect([i EXCEPT !.state = "JNI"], <<>>, ev)
    BY <1>3 DEF ConnectPeer
  <2> HIDE DEF ev, e
  <2>3. Modest(i, e, Refusals, {}, {})
    BY <2>1, <2>2, AdvancedModest DEF Hears
  <2> QED BY <1>3, <2>3 DEF e
<1>4. CASE i.state \notin {"Absent", "DC_JT", "DC_JNI"}
  <2>1. e = Fault(i, "panic")
    BY <1>4 DEF ConnectPeer
  <2> QED BY <1>4, <2>1, PartsModest
<1> QED BY <1>1, <1>2, <1>3, <1>4

\* The new entries of a world.
LEMMA NewEntriesModest ==
    ASSUME NEW target, NEW connected
    PROVE  /\ \A q \in Peers : Modest(Absent, OpenEntries(connected)[q], Refusals, {}, {})
           /\ \A q \in Peers \ {target} : Modest(Absent, JoinEntries(target, connected)[q], Refusals, {}, {})
           /\ target \in Peers =>
                 LET e == JoinEntries(target, connected)[target]
                 IN  /\ e.info.state \in Target /\ e.fault = "none" /\ ~Raises(e.ev, "JoinSuccess")
                     /\ \/ e.tx = <<>>
                        \/ e.tx = <<Msg("JN", Nil)>> /\ e.info.state = "JT"
PROOF
<1> USE ListedLemma, RaisesLemma
    DEF Modest, Keep, Effect, Cleared, Absent, NewANDPeerSessionState, Hears, Target
<1>1. \A q \in Peers : Modest(Absent, OpenEntries(connected)[q], Refusals, {}, {})
  BY DEF OpenEntries
<1>2. \A q \in Peers \ {target} : Modest(Absent, JoinEntries(target, connected)[q], Refusals, {}, {})
  BY DEF JoinEntries
<1>3. ASSUME target \in Peers
      PROVE  LET e == JoinEntries(target, connected)[target]
             IN  /\ e.info.state \in Target /\ e.fault = "none" /\ ~Raises(e.ev, "JoinSuccess")
                 /\ \/ e.tx = <<>>
                    \/ e.tx = <<Msg("JN", Nil)>> /\ e.info.state = "JT"
  BY <1>3 DEF JoinEntries
<1> QED BY <1>1, <1>2, <1>3

\* The order in which a loop visits a finite set.
LEMMA OrderLemma ==
    ASSUME NEW Q, IsFiniteSet(Q)
    PROVE  /\ Len(SetToSeq(Q)) \in Nat
           /\ \A k \in 1..Len(SetToSeq(Q)) : SetToSeq(Q)[k] \in Q
PROOF
<1> DEFINE c == Cardinality(Q)
           D == 1..c
<1>1. c \in Nat /\ ExistsBijection(D, Q)
  BY FS_CardinalityType
<1>2. PICK f : f \in Bijection(D, Q)
  BY <1>1 DEF ExistsBijection
<1>3. f \in [D -> Q] /\ IsInjective(f)
  BY <1>2 DEF Bijection, Injection
<1>4. SetToSeq(Q) \in [D -> Q]
  <2>1. SetToSeq(Q) = CHOOSE g \in [D -> Q] : IsInjective(g)
    BY DEF SetToSeq
  <2> HIDE DEF D
  <2> QED BY <1>3, <2>1
<1>5. SetToSeq(Q) \in Seq(Q) /\ Len(SetToSeq(Q)) = c
  BY <1>1, <1>4
<1> QED BY <1>1, <1>4, <1>5

\* The timer announces members to members.
LEMMA TimerModest ==
    ASSUME NEW w, \A q \in Peers : w.peers[q] \in Info, NEW p \in Peers, NEW old
    PROVE  LET fx == TimerExpire(w, old)
               sjn == {q \in old : Announces(w.peers[q])}
               list == [r \in sjn |-> w.peers[r].sid]
           IN  /\ WModest(w, p, fx, {"SJN"}, {}, {})
               /\ \A q \in Peers : \A n \in DOMAIN fx[q].tx : fx[q].tx[n].mems = list
PROOF
<1> DEFINE fx == TimerExpire(w, old)
           members == {q \in Peers : w.peers[q].state = "MEM"}
           sjn == {q \in old : Announces(w.peers[q])}
           list == [r \in sjn |-> w.peers[r].sid]
           msg(q) == [type |-> "SJN", rsid |-> w.peers[q].sid, mems |-> list]
           j(q) == IF q \in sjn THEN [w.peers[q] EXCEPT !.sjnc = @ + 1] ELSE w.peers[q]
<1>1. \A q \in Peers : fx[q] = Effect(j(q), IF q \in members /\ sjn # {} THEN <<msg(q)>> ELSE <<>>, <<>>)
  BY DEF TimerExpire
<1>2. \A q \in Peers : j(q).state = w.peers[q].state /\ j(q).sid = w.peers[q].sid
  BY DEF Info
<1>3. \A q : msg(q).type = "SJN" /\ msg(q).mems = list
  OBVIOUS
<1> HIDE DEF fx, j, msg, sjn, members, list
<1>4. ASSUME NEW q \in Peers
      PROVE  /\ fx[q].info.state = w.peers[q].state /\ fx[q].info.sid = w.peers[q].sid
             /\ fx[q].ev = <<>> /\ fx[q].fault = "none"
             /\ fx[q].tx = <<>> \/ fx[q].tx = <<msg(q)>>
  <2>1. fx[q] = Effect(j(q), <<>>, <<>>) \/ fx[q] = Effect(j(q), <<msg(q)>>, <<>>)
    BY <1>1
  <2> QED BY <1>2, <2>1 DEF Effect
<1>5. ASSUME NEW q \in Peers
      PROVE  /\ Listed(fx[q].tx)
             /\ \A n \in DOMAIN fx[q].tx : fx[q].tx[n].type = "SJN" /\ fx[q].tx[n].mems = list
  <2>1. CASE fx[q].tx = <<>>
    BY <2>1, ListedLemma
  <2>2. CASE fx[q].tx = <<msg(q)>>
    BY <1>3, <2>2, ListedLemma
  <2> QED BY <1>4, <2>1, <2>2
<1>6. \A q \in Peers : Modest(w.peers[q], fx[q], {"SJN"}, {}, {})
  BY <1>4, <1>5, SameModest
<1>7. WModest(w, p, fx, {"SJN"}, {}, {})
  BY <1>6 DEF WModest
<1> QED BY <1>5, <1>7 DEF fx, sjn, list

\* If g is a request of a world for an announced session of mems, it goes to p,
\* who has announced it.
Asks(p, q, mems, g) ==
    g.type = "CRR" => q = p /\ \E r \in DOMAIN mems : g.mems = [x \in {r} |-> mems[x]]

\* The answers to announced sessions: each asks for one session of the list.
LEMMA SJN_Modest ==
    ASSUME NEW w, \A q \in Peers : w.peers[q] \in Info, NEW p \in Peers, NEW s,
           NEW mems, IsFiniteSet(DOMAIN mems)
    PROVE  LET fx == SJN(w, p, s, mems)
           IN  /\ WModest(w, p, fx, Refusals \cup {"CRR"}, {}, {})
               /\ \A q \in Peers : \A n \in DOMAIN fx[q].tx : Asks(p, q, mems, fx[q].tx[n])
PROOF
<1> DEFINE fx == SJN(w, p, s, mems)
           known == {q \in DOMAIN mems : IsProperMember(w.peers[q], mems[q])}
           unknown == DOMAIN mems \ known
           Count(i) == [i EXCEPT !.sjnc = IF @ < SjnMax THEN @ + 1 ELSE @]
           Ask(q) == [type |-> "CRR", rsid |-> s, mems |-> [r \in {q} |-> mems[r]]]
           order == SetToSeq(unknown)
           asks == Each(unknown, Ask)
           j(q) == IF q \in known THEN Count(w.peers[q]) ELSE w.peers[q]
<1>1. CASE ~IsProperMember(w.peers[p], s)
  <2>1. fx = At(w, p, Reset(w.peers[p]))
    BY <1>1 DEF SJN
  <2>2. WModest(w, p, fx, Refusals, {}, {})
    BY <2>1, PlainHandlers
  <2> HIDE DEF fx
  <2>3. WModest(w, p, fx, Refusals \cup {"CRR"}, {}, {})
    BY <2>2 DEF WModest, Modest
  <2>4. \A q \in Peers : \A n \in DOMAIN fx[q].tx : fx[q].tx[n].type # "CRR"
    BY <2>2 DEF WModest, Modest, Refusals
  <2> QED BY <2>3, <2>4 DEF fx, Asks
<1>2. CASE IsProperMember(w.peers[p], s)
  <2>1. \A q \in Peers : fx[q] = Effect(j(q), IF q = p THEN asks ELSE <<>>, <<>>)
    BY <1>2 DEF SJN
  <2>2. IsFiniteSet(unknown)
    BY FS_Subset
  <2>3. Len(order) \in Nat /\ \A k \in 1..Len(order) : order[k] \in unknown
    BY <2>2, OrderLemma
  <2>4. asks = [k \in 1..Len(order) |-> Ask(order[k])]
    BY DEF Each
  <2>5. \A q : Ask(q).type = "CRR" /\ Ask(q).mems = [r \in {q} |-> mems[r]]
    OBVIOUS
  <2>6. \A q \in Peers : j(q).state = w.peers[q].state /\ j(q).sid = w.peers[q].sid
    BY DEF Info
  <2>7. \A r \in unknown : r \in DOMAIN mems
    OBVIOUS
  <2> HIDE DEF fx, j, asks, Ask, order, unknown
  <2>8. Listed(asks)
    <3>1. asks \in Seq({Ask(order[k]) : k \in 1..Len(order)})
      BY <2>3, <2>4
    <3> QED BY <3>1 DEF Listed
  <2>9. \A n \in DOMAIN asks : asks[n].type = "CRR"
                               /\ \E r \in DOMAIN mems : asks[n].mems = [x \in {r} |-> mems[x]]
    BY <2>3, <2>4, <2>5, <2>7
  <2>10. ASSUME NEW q \in Peers
         PROVE  /\ fx[q].info.state = w.peers[q].state /\ fx[q].info.sid = w.peers[q].sid
                /\ fx[q].ev = <<>> /\ fx[q].fault = "none"
                /\ fx[q].tx = <<>> \/ (q = p /\ fx[q].tx = asks)
    <3>1. fx[q] = Effect(j(q), <<>>, <<>>) \/ (q = p /\ fx[q] = Effect(j(q), asks, <<>>))
      BY <2>1
    <3> QED BY <2>6, <3>1 DEF Effect
  <2>11. \A q \in Peers : Modest(w.peers[q], fx[q], Refusals \cup {"CRR"}, {}, {})
    <3> SUFFICES ASSUME NEW q \in Peers PROVE Modest(w.peers[q], fx[q], Refusals \cup {"CRR"}, {}, {})
      OBVIOUS
    <3>1. Listed(fx[q].tx) /\ \A n \in DOMAIN fx[q].tx : fx[q].tx[n].type \in Refusals \cup {"CRR"}
      BY <2>8, <2>9, <2>10, ListedLemma
    <3> QED BY <2>10, <3>1, SameModest
  <2>12. WModest(w, p, fx, Refusals \cup {"CRR"}, {}, {})
    BY <2>11 DEF WModest
  <2>13. \A q \in Peers : \A n \in DOMAIN fx[q].tx : fx[q].tx[n].type = "CRR" =>
            q = p /\ \E r \in DOMAIN mems : fx[q].tx[n].mems = [x \in {r} |-> mems[x]]
    <3> SUFFICES ASSUME NEW q \in Peers, NEW n \in DOMAIN fx[q].tx
                 PROVE  q = p /\ \E r \in DOMAIN mems : fx[q].tx[n].mems = [x \in {r} |-> mems[x]]
      OBVIOUS
    <3>1. fx[q].tx # <<>>
      OBVIOUS
    <3>2. q = p /\ fx[q].tx = asks
      BY <2>10, <3>1
    <3> QED BY <2>9, <3>2
  <2> QED BY <2>12, <2>13 DEF fx, Asks
<1> QED BY <1>1, <1>2

\* If g is an introduction, it is about a session of mems, for p, or about session
\* s of p, for another peer.
Introduces(p, q, s, mems, g) ==
    g.type = "JNI" => \/ q = p /\ g.peer \in DOMAIN mems /\ g.sid = mems[g.peer]
                      \/ q # p /\ g.peer = p /\ g.sid = s

\* The introductions: the asking peer learns of sessions of its list, and each
\* of these peers of the asking one.
LEMMA CRR_Modest ==
    ASSUME NEW w, \A q \in Peers : w.peers[q] \in Info, NEW p \in Peers, NEW s,
           NEW mems, DOMAIN mems \subseteq Peers, IsFiniteSet(DOMAIN mems),
           \A q \in DOMAIN mems : w.peers[q].state \notin Disconnected
    PROVE  LET fx == CRR(w, p, s, mems)
           IN  /\ WModest(w, p, fx, Refusals \cup {"JNI"}, {}, {})
               /\ \A q \in Peers : \A n \in DOMAIN fx[q].tx : Introduces(p, q, s, mems, fx[q].tx[n])
PROOF
<1> DEFINE fx == CRR(w, p, s, mems)
           held == {q \in DOMAIN mems : w.peers[q].state # "Absent" /\ w.peers[q].sid = mems[q]}
           About(q, r) == [type |-> "JNI", rsid |-> w.peers[q].sid, peer |-> r, sid |-> w.peers[r].sid]
           AboutTo(r) == About(p, r)
           order == SetToSeq(held)
           all == Each(held, AboutTo)
           i(q) == w.peers[q]
           types == Refusals \cup {"JNI"}
<1>1. CASE ~IsProperMember(w.peers[p], s)
  <2>1. fx = At(w, p, Reset(w.peers[p]))
    BY <1>1 DEF CRR
  <2>2. WModest(w, p, fx, Refusals, {}, {})
    BY <2>1, PlainHandlers
  <2> HIDE DEF fx
  <2>3. WModest(w, p, fx, Refusals \cup {"JNI"}, {}, {})
    BY <2>2 DEF WModest, Modest
  <2>4. \A q \in Peers : \A n \in DOMAIN fx[q].tx : fx[q].tx[n].type # "JNI"
    BY <2>2 DEF WModest, Modest, Refusals
  <2> QED BY <2>3, <2>4 DEF fx, Introduces
<1>2. CASE IsProperMember(w.peers[p], s)
  <2>1. ASSUME NEW q \in Peers
        PROVE  \/ q = p /\ fx[q] = Effect(i(q), all, <<>>)
               \/ fx[q] = Keep(i(q))
               \/ q # p /\ fx[q] = Effect(i(q), <<About(q, p)>>, <<>>)
    <3>1. fx[q] = IF q = p THEN Effect(i(p), all, <<>>)
                  ELSE IF q \notin held THEN Keep(i(q))
                  ELSE IF i(q).state \in Disconnected THEN Fault(i(q), "nilpeer")
                       ELSE Effect(i(q), <<About(q, p)>>, <<>>)
      BY <1>2 DEF CRR
    <3>2. q \in held => i(q).state \notin Disconnected
      OBVIOUS
    <3> HIDE DEF fx, all, i, About, held
    <3> QED BY <3>1, <3>2
  <2>2. i(p).sid = s
    BY <1>2 DEF IsProperMember
  <2>3. IsFiniteSet(held)
    BY FS_Subset
  <2>4. Len(order) \in Nat /\ \A k \in 1..Len(order) : order[k] \in held
    BY <2>3, OrderLemma
  <2>5. all = [k \in 1..Len(order) |-> About(p, order[k])]
    BY DEF Each
  <2>6. \A q, r : About(q, r).type = "JNI" /\ About(q, r).peer = r /\ About(q, r).sid = i(r).sid
    OBVIOUS
  <2>7. \A r \in held : r \in DOMAIN mems /\ i(r).sid = mems[r]
    OBVIOUS
  <2> HIDE DEF fx, all, i, About, order, held
  <2>8. Listed(all)
    <3>1. all \in Seq({About(p, order[k]) : k \in 1..Len(order)})
      BY <2>4, <2>5
    <3> QED BY <3>1 DEF Listed
  <2>9. \A n \in DOMAIN all : /\ all[n].type = "JNI" /\ all[n].peer \in DOMAIN mems
                              /\ all[n].sid = mems[all[n].peer]
    BY <2>4, <2>5, <2>6, <2>7
  <2>10. ASSUME NEW q \in Peers
         PROVE  /\ fx[q].info = i(q) /\ fx[q].ev = <<>> /\ fx[q].fault = "none"
                /\ \/ fx[q].tx = <<>>
                   \/ q = p /\ fx[q].tx = all
                   \/ q # p /\ fx[q].tx = <<About(q, p)>>
    <3>1. CASE q = p /\ fx[q] = Effect(i(q), all, <<>>)
      BY <3>1 DEF Effect
    <3>2. CASE fx[q] = Keep(i(q))
      BY <3>2 DEF Keep, Effect
    <3>3. CASE q # p /\ fx[q] = Effect(i(q), <<About(q, p)>>, <<>>)
      BY <3>3 DEF Effect
    <3> QED BY <2>1, <3>1, <3>2, <3>3
  <2>11. ASSUME NEW q \in Peers
         PROVE  /\ Listed(fx[q].tx)
                /\ \A n \in DOMAIN fx[q].tx :
                      /\ fx[q].tx[n].type = "JNI"
                      /\ \/ /\ q = p /\ fx[q].tx[n].peer \in DOMAIN mems
                            /\ fx[q].tx[n].sid = mems[fx[q].tx[n].peer]
                         \/ q # p /\ fx[q].tx[n].peer = p /\ fx[q].tx[n].sid = s
    <3>1. CASE fx[q].tx = <<>>
      BY <3>1, ListedLemma
    <3>2. CASE q = p /\ fx[q].tx = all
      BY <2>8, <2>9, <3>2
    <3>3. CASE q # p /\ fx[q].tx = <<About(q, p)>>
      BY <2>2, <2>6, <3>3, ListedLemma
    <3> QED BY <2>10, <3>1, <3>2, <3>3
  <2>12. \A q \in Peers : Modest(w.peers[q], fx[q], types, {}, {})
    BY <2>10, <2>11, SameModest DEF i
  <2>13. WModest(w, p, fx, types, {}, {})
    BY <2>12 DEF WModest
  <2> QED BY <2>11, <2>13 DEF fx, Introduces
<1> QED BY <1>1, <1>2

\* The message m that the effect e of AcceptSession sends to q: the commitment to
\* p, or its announcement to another member.
Accepts(w, p, q, e, m) ==
    LET i == w.peers[p]
        members == {r \in Peers : w.peers[r].state = "MEM"}
    IN  \/ /\ m.type = "JOK" /\ q = p /\ i.state = "JN" /\ e.info.state = "TMEM"
           /\ m.mems = [r \in members |-> w.peers[r].sid]
           /\ m.rsid = i.sid /\ Len(e.tx) = 1
        \/ /\ m.type = "MEM" /\ q = p /\ i.state \in {"JNI", "RMEM"}
           /\ m.rsid = i.sid /\ Len(e.tx) = 1
        \/ /\ m.type = "JNI" /\ q # p /\ m.peer = p /\ m.sid = i.sid
           /\ i.state = "JN"

\* The application accepts: one commitment, to a session that asked for it or
\* was introduced, and a joining session is announced to the members.
LEMMA AcceptModest ==
    ASSUME NEW w, \A q \in Peers : w.peers[q] \in Info, NEW p \in Peers, NEW s
    PROVE  LET fx == AcceptSession(w, p, s)
           IN  /\ WModest(w, p, fx, {"JOK", "MEM", "JNI"}, {}, {})
               /\ \A q \in Peers : \A n \in DOMAIN fx[q].tx : Accepts(w, p, q, fx[q], fx[q].tx[n])
PROOF
<1> DEFINE fx == AcceptSession(w, p, s)
           i == w.peers[p]
           members == {q \in Peers : w.peers[q].state = "MEM"}
           list == [r \in members |-> w.peers[r].sid]
           types == {"JOK", "MEM", "JNI"}
           Good1(q) == \A n \in DOMAIN fx[q].tx :
               LET m == fx[q].tx[n]
               IN  \/ /\ m.type = "JOK" /\ q = p /\ i.state = "JN" /\ fx[q].info.state = "TMEM"
                      /\ m.mems = list
                      /\ m.rsid = i.sid /\ Len(fx[q].tx) = 1
                   \/ /\ m.type = "MEM" /\ q = p /\ i.state \in {"JNI", "RMEM"}
                      /\ m.rsid = i.sid /\ Len(fx[q].tx) = 1
                   \/ /\ m.type = "JNI" /\ q # p /\ m.peer = p /\ m.sid = i.sid
                      /\ i.state = "JN"
<1> SUFFICES ASSUME NEW q \in Peers
             PROVE  Modest(w.peers[q], fx[q], types, {}, {}) /\ Good1(q)
  BY DEF WModest, Accepts
<1>0. i \in Info
  OBVIOUS
<1>1. ASSUME NEW e, NEW m, NEW st \in {"TMEM", "MEM"}, NEW ev \in {<<>>, <<Event("Ready", s)>>},
             e = Effect([i EXCEPT !.state = st], <<m>>, ev), m.type \in types,
             st = "MEM" => i.state = "RMEM"
      PROVE  /\ Modest(i, e, types, {}, {})
             /\ e.tx = <<m>> /\ e.info.state = st
  <2>1. e.info.state = st /\ e.info.sid = i.sid /\ e.tx = <<m>> /\ e.ev = ev /\ e.fault = "none"
    BY <1>0, <1>1 DEF Effect, Info
  <2>2. ~Raises(ev, "JoinSuccess")
    BY RaisesLemma
  <2>3. Listed(<<m>>) /\ \A n \in DOMAIN <<m>> : <<m>>[n] = m
    BY ListedLemma
  <2> QED BY <1>1, <2>1, <2>2, <2>3 DEF Modest, Hears
<1>2. ASSUME NEW e, Modest(w.peers[q], e, Refusals, {}, {}), e.tx = <<>>
      PROVE  Modest(w.peers[q], e, types, {}, {}) /\ (fx[q] = e => Good1(q))
  BY <1>2 DEF Modest
<1>3. /\ Modest(w.peers[q], Keep(w.peers[q]), Refusals, {}, {}) /\ Keep(w.peers[q]).tx = <<>>
      /\ Modest(i, Fault(i, "panic"), Refusals, {}, {}) /\ Fault(i, "panic").tx = <<>>
  BY PartsModest DEF Keep, Effect, Fault
<1>4. CASE i.state = "JN" /\ i.sid = s
  <2> DEFINE jok == [type |-> "JOK", rsid |-> s, mems |-> list]
             jni == [type |-> "JNI", rsid |-> w.peers[q].sid, peer |-> p, sid |-> s]
  <2>1. fx[q] = IF q = p THEN Effect([i EXCEPT !.state = "TMEM"], <<jok>>, <<>>)
                ELSE IF q \in members THEN Effect(w.peers[q], <<jni>>, <<>>)
                     ELSE Keep(w.peers[q])
    BY <1>4 DEF AcceptSession
  <2>2. /\ jok.type = "JOK" /\ jok.rsid = s /\ jok.mems = list
        /\ jni.type = "JNI" /\ jni.peer = p /\ jni.sid = s
    OBVIOUS
  <2> HIDE DEF fx, jok, jni, list, members
  <2>3. CASE q = p
    <3>1. /\ Modest(i, fx[q], types, {}, {})
          /\ fx[q].tx = <<jok>> /\ fx[q].info.state = "TMEM"
      BY <1>1, <2>1, <2>2, <2>3
    <3> QED BY <1>4, <2>2, <2>3, <3>1, ListedLemma
  <2>4. CASE q # p /\ q \in members
    <3>1. fx[q] = Effect(w.peers[q], <<jni>>, <<>>)
      BY <2>1, <2>4
    <3>2. /\ fx[q].info = w.peers[q] /\ fx[q].tx = <<jni>> /\ fx[q].ev = <<>> /\ fx[q].fault = "none"
      BY <3>1 DEF Effect
    <3>3. /\ Listed(fx[q].tx) /\ \A n \in DOMAIN fx[q].tx : fx[q].tx[n] = jni
      BY <3>2, ListedLemma
    <3>4. Modest(w.peers[q], fx[q], types, {}, {})
      BY <2>2, <3>2, <3>3, SameModest
    <3> QED BY <1>4, <2>2, <2>4, <3>3, <3>4
  <2>5. CASE q # p /\ q \notin members
    BY <1>2, <1>3, <2>1, <2>5
  <2> QED BY <2>3, <2>4, <2>5
<1>5. CASE i.state \in {"JNI", "RMEM"} /\ i.sid = s
  <2> DEFINE st == IF i.state = "JNI" THEN "TMEM" ELSE "MEM"
             ev == IF i.state = "JNI" THEN <<>> ELSE <<Event("Ready", s)>>
             mem == Msg("MEM", s)
  <2>1. fx[q] = IF q = p THEN Effect([i EXCEPT !.state = st], <<mem>>, ev) ELSE Keep(w.peers[q])
    <3>1. CASE i.state = "JNI"
      BY <1>5, <3>1 DEF AcceptSession, At
    <3>2. CASE i.state = "RMEM"
      BY <1>5, <3>2 DEF AcceptSession, At
    <3> QED BY <1>5, <3>1, <3>2
  <2>2. /\ mem.type = "MEM" /\ mem.rsid = s
        /\ st \in {"TMEM", "MEM"} /\ ev \in {<<>>, <<Event("Ready", s)>>}
        /\ st = "MEM" => i.state = "RMEM"
    BY <1>5 DEF Msg
  <2> HIDE DEF fx, st, ev, mem
  <2>3. CASE q = p
    <3>1. Modest(i, fx[q], types, {}, {}) /\ fx[q].tx = <<mem>>
      BY <1>1, <2>1, <2>2, <2>3
    <3> QED BY <1>5, <2>2, <2>3, <3>1, ListedLemma
  <2>4. CASE q # p
    BY <1>2, <1>3, <2>1, <2>4
  <2> QED BY <2>3, <2>4
<1>6. CASE ~(i.state \in {"JN", "JNI", "RMEM"} /\ i.sid = s)
  <2>1. fx[q] = Keep(w.peers[q]) \/ (q = p /\ fx[q] = Fault(i, "panic"))
    BY <1>6 DEF AcceptSession, At
  <2> HIDE DEF fx
  <2> QED BY <1>2, <1>3, <2>1
<1> QED BY <1>4, <1>5, <1>6

-----------------------------------------------------------------------------
(* What a step does to the links *)

LEMMA ListLemma ==
    ASSUME NEW q, Listed(q)
    PROVE  /\ Len(q) \in Nat /\ DOMAIN q = 1..Len(q)
           /\ q # <<>> => /\ Listed(Tail(q)) /\ Len(Tail(q)) = Len(q) - 1 /\ Len(q) >= 1
                          /\ Head(q) = q[1]
                          /\ \A n \in 1..Len(Tail(q)) : Tail(q)[n] = q[n + 1]
PROOF
<1>1. PICK S : q \in Seq(S)
  BY DEF Listed
<1>2. ASSUME q # <<>>
      PROVE  /\ Listed(Tail(q)) /\ Len(Tail(q)) = Len(q) - 1 /\ Len(q) >= 1
             /\ Head(q) = q[1]
             /\ \A n \in 1..Len(Tail(q)) : Tail(q)[n] = q[n + 1]
  <2>1. Tail(q) \in Seq(S)
    BY <1>1, <1>2
  <2>2. Len(Tail(q)) = Len(q) - 1 /\ Len(q) >= 1 /\ Head(q) = q[1]
        /\ \A n \in 1..Len(Tail(q)) : Tail(q)[n] = q[n + 1]
    BY <1>1, <1>2
  <2> QED BY <2>1, <2>2 DEF Listed
<1> QED BY <1>1, <1>2

LEMMA JoinLemma ==
    ASSUME NEW q, NEW r, Listed(q), Listed(r)
    PROVE  /\ Listed(q \o r) /\ Len(q \o r) = Len(q) + Len(r)
           /\ \A n \in 1..Len(q) : (q \o r)[n] = q[n]
           /\ \A n \in 1..Len(r) : (q \o r)[Len(q) + n] = r[n]
PROOF
<1>1. PICK S : q \in Seq(S)
  BY DEF Listed
<1>2. PICK T : r \in Seq(T)
  BY DEF Listed
<1> DEFINE U == S \cup T
<1>3. q \in Seq(U) /\ r \in Seq(U)
  BY <1>1, <1>2
<1>4. q \o r \in Seq(U)
  BY <1>3
<1>5. Listed(q \o r)
  BY <1>4 DEF Listed
<1>6. Len(q \o r) = Len(q) + Len(r) /\ \A n \in 1..Len(q) : (q \o r)[n] = q[n]
  BY <1>3
<1>7. \A n \in 1..Len(r) : (q \o r)[Len(q) + n] = r[n]
  BY <1>3
<1> QED BY <1>5, <1>6, <1>7

\* before is what d leaves of the links.
Rests(before, d) ==
    /\ before = [x \in Peers |-> [y \in Peers |-> before[x][y]]]
    /\ \A x, y \in Peers :
          /\ d[x][y] \in {0, 1} /\ d[x][y] <= Len(net[x][y])
          /\ Listed(before[x][y]) /\ Len(before[x][y]) = Len(net[x][y]) - d[x][y]
          /\ \A n \in 1..Len(before[x][y]) : before[x][y][n] = net[x][y][n + d[x][y]]

NoTake == [x \in Peers |-> [y \in Peers |-> 0]]

OneTake(p, h) == [x \in Peers |-> [y \in Peers |-> IF x = p /\ y = h THEN 1 ELSE 0]]

LEMMA RestsLemma ==
    ASSUME LinksOK, NEW p \in Peers, NEW h \in Peers
    PROVE  /\ Rests(net, NoTake)
           /\ net[p][h] # <<>> => /\ Rests([net EXCEPT ![p][h] = Tail(@)], OneTake(p, h))
                                  /\ Head(net[p][h]) = net[p][h][1] /\ 1 \in DOMAIN net[p][h]
PROOF
<1>1. \A x, y \in Peers : Listed(net[x][y]) /\ Len(net[x][y]) \in Nat
  BY ListLemma DEF LinksOK
<1>2. Rests(net, NoTake)
  BY <1>1, SMTT(40) DEF Rests, NoTake, LinksOK
<1>3. ASSUME net[p][h] # <<>>
      PROVE  /\ Rests([net EXCEPT ![p][h] = Tail(@)], OneTake(p, h))
             /\ Head(net[p][h]) = net[p][h][1] /\ 1 \in DOMAIN net[p][h]
  <2> DEFINE before == [net EXCEPT ![p][h] = Tail(@)]
             d == OneTake(p, h)
  <2>1. before = [x \in Peers |-> [y \in Peers |-> IF x = p /\ y = h THEN Tail(net[x][y]) ELSE net[x][y]]]
    BY DEF LinksOK
  <2>2. \A x, y \in Peers : d[x][y] = IF x = p /\ y = h THEN 1 ELSE 0
    BY DEF OneTake
  <2>3. /\ Listed(Tail(net[p][h])) /\ Len(Tail(net[p][h])) = Len(net[p][h]) - 1 /\ Len(net[p][h]) >= 1
        /\ Head(net[p][h]) = net[p][h][1] /\ DOMAIN net[p][h] = 1..Len(net[p][h])
        /\ \A n \in 1..Len(Tail(net[p][h])) : Tail(net[p][h])[n] = net[p][h][n + 1]
    BY <1>1, <1>3, ListLemma
  <2> HIDE DEF before, d
  <2>4. before = [x \in Peers |-> [y \in Peers |-> before[x][y]]]
    BY <2>1
  <2>5. ASSUME NEW x \in Peers, NEW y \in Peers
        PROVE  /\ d[x][y] \in {0, 1} /\ d[x][y] <= Len(net[x][y])
               /\ Listed(before[x][y]) /\ Len(before[x][y]) = Len(net[x][y]) - d[x][y]
               /\ \A n \in 1..Len(before[x][y]) : before[x][y][n] = net[x][y][n + d[x][y]]
    <3>1. CASE x = p /\ y = h
      <4>1. before[x][y] = Tail(net[p][h]) /\ d[x][y] = 1
        BY <2>1, <2>2, <3>1
      <4> QED BY <2>3, <3>1, <4>1
    <3>2. CASE ~(x = p /\ y = h)
      <4>1. before[x][y] = net[x][y] /\ d[x][y] = 0
        BY <2>1, <2>2, <3>2
      <4> QED BY <1>1, <4>1
    <3> QED BY <3>1, <3>2
  <2>6. Rests(before, d)
    BY <2>4, <2>5 DEF Rests
  <2>7. 1 \in DOMAIN net[p][h]
    BY <1>1, <2>3
  <2> QED BY <2>3, <2>6, <2>7 DEF before, d
<1> QED BY <1>2, <1>3

\* The messages of F on the link from x to y, behind the c that were there.
Carries(F, x, y, c, r) ==
    LET new == (c + 1)..Len(r)
    IN  /\ Listed(r) /\ c <= Len(r)
        /\ \A n \in new :
              \/ r[n].msg.type = "JDN"
              \/ \E l \in Lsids : /\ HostOf[l] = x
                                  /\ \E j \in DOMAIN F[l][y].tx : r[n] = Wire(l, F[l][y].tx[j])
        /\ \A l \in Lsids : HostOf[l] = x =>
              \A j \in DOMAIN F[l][y].tx : \E n \in new : r[n] = Wire(l, F[l][y].tx[j])
        /\ \A l \in Lsids : Len(F[l][y].tx) = 1 =>
              \A n1, n2 \in new : r[n1].ssid = l /\ r[n2].ssid = l => n1 = n2

\* The step takes d messages from the links and adds those of F.
Moves(F, d) ==
    /\ net' = [x \in Peers |-> [y \in Peers |-> net'[x][y]]]
    /\ \A x, y \in Peers :
          /\ d[x][y] \in {0, 1} /\ d[x][y] <= Len(net[x][y])
          /\ \A n \in 1..(Len(net[x][y]) - d[x][y]) : net'[x][y][n] = net[x][y][n + d[x][y]]
          /\ Carries(F, x, y, Len(net[x][y]) - d[x][y], net'[x][y])

\* Nothing is added.
LEMMA CarriesNothing ==
    ASSUME NEW F, NEW x, NEW y, NEW r, Listed(r),
           \A l \in Lsids : HostOf[l] = x => F[l][y].tx = <<>>
    PROVE  Carries(F, x, y, Len(r), r)
  BY ListLemma DEF Carries

\* The messages of one world of x.
LEMMA CarriesOne ==
    ASSUME NEW F, NEW k \in Lsids, NEW y \in Peers, NEW q, Listed(q), NEW tx, Listed(tx),
           F[k][y].tx = tx, \A l \in Lsids \ {k} : F[l][y].tx = <<>>
    PROVE  Carries(F, HostOf[k], y, Len(q), q \o Wired(k, tx))
PROOF
<1> DEFINE out == Wired(k, tx)
           r == q \o out
           new == (Len(q) + 1)..Len(r)
<1>1. Len(tx) \in Nat /\ DOMAIN tx = 1..Len(tx) /\ Len(q) \in Nat
  BY ListLemma
<1>2. out = [n \in 1..Len(tx) |-> Wire(k, tx[n])]
  BY <1>1 DEF Wired
<1>3. out \in Seq({Wire(k, tx[n]) : n \in 1..Len(tx)}) /\ Len(out) = Len(tx)
  BY <1>1, <1>2
<1>4. Listed(out)
  BY <1>3 DEF Listed
<1> HIDE DEF out
<1>5. /\ Listed(r) /\ Len(r) = Len(q) + Len(tx)
      /\ \A n \in 1..Len(tx) : r[Len(q) + n] = Wire(k, tx[n])
  BY <1>2, <1>3, <1>4, JoinLemma
<1> HIDE DEF r
<1>6. \A n \in new : n - Len(q) \in 1..Len(tx) /\ r[n] = Wire(k, tx[n - Len(q)])
  <2> SUFFICES ASSUME NEW n \in new
               PROVE  n - Len(q) \in 1..Len(tx) /\ r[n] = Wire(k, tx[n - Len(q)])
    OBVIOUS
  <2>1. n - Len(q) \in 1..Len(tx) /\ n = Len(q) + (n - Len(q))
    BY <1>1, <1>5
  <2> QED BY <1>5, <2>1
<1>7. \A n \in 1..Len(tx) : Len(q) + n \in new
  BY <1>1, <1>5
<1>8. Len(q) <= Len(r)
  BY <1>1, <1>5
<1>9. \A n \in new : \E j \in DOMAIN F[k][y].tx : r[n] = Wire(k, F[k][y].tx[j])
  BY <1>1, <1>6
<1>10. ASSUME NEW l \in Lsids, NEW j \in DOMAIN F[l][y].tx
       PROVE  \E n \in new : r[n] = Wire(l, F[l][y].tx[j])
  <2>1. l = k
    OBVIOUS
  <2>2. j \in 1..Len(tx) /\ F[l][y].tx[j] = tx[j]
    BY <1>1, <2>1
  <2> QED BY <1>5, <1>7, <2>1, <2>2
<1>11. ASSUME NEW l \in Lsids, Len(F[l][y].tx) = 1, NEW n1 \in new, NEW n2 \in new
       PROVE  n1 = n2
  <2>1. Len(<<>>) # 1
    OBVIOUS
  <2>2. l = k
    BY <1>11, <2>1
  <2>3. Len(tx) = 1
    BY <1>11, <2>2
  <2> QED BY <1>1, <1>6, <2>3
<1>12. Carries(F, HostOf[k], y, Len(q), r)
  BY <1>5, <1>8, <1>9, <1>10, <1>11 DEF Carries
<1> QED BY <1>12 DEF r, out

\* A call of one world.
LEMMA PostMoves ==
    ASSUME NEW before, NEW d, Rests(before, d), NEW l \in Lsids, NEW fx, Post(l, fx, before),
           \A q \in Peers : Listed(fx[q].tx)
    PROVE  Moves(OnWorld(l, fx), d)
PROOF
<1> DEFINE F == OnWorld(l, fx)
           h == HostOf[l]
<1>1. h \in Peers
  BY LsidAssumption, ClosedAssumption
<1>2. net' = [x \in Peers |-> [y \in Peers |->
                 IF x = h THEN before[x][y] \o Wired(l, fx[y].tx) ELSE before[x][y]]]
  BY <1>1 DEF Post, Rests
<1>3. \A k \in Lsids, y \in Peers : F[k][y].tx = IF k = l THEN fx[y].tx ELSE <<>>
  BY DEF OnWorld, Keep, Effect
<1>4. net' = [x \in Peers |-> [y \in Peers |-> net'[x][y]]]
  BY <1>2
<1> HIDE DEF F
<1>5. ASSUME NEW x \in Peers, NEW y \in Peers
      PROVE  /\ \A n \in 1..(Len(net[x][y]) - d[x][y]) : net'[x][y][n] = net[x][y][n + d[x][y]]
             /\ Carries(F, x, y, Len(net[x][y]) - d[x][y], net'[x][y])
  <2> DEFINE q == before[x][y]
  <2>1. /\ Listed(q) /\ Len(q) = Len(net[x][y]) - d[x][y]
        /\ \A n \in 1..Len(q) : q[n] = net[x][y][n + d[x][y]]
    BY DEF Rests
  <2> HIDE DEF q
  <2>2. CASE x = h
    <3> DEFINE tx == fx[y].tx
    <3>1. net'[x][y] = q \o Wired(l, tx)
      BY <1>2, <2>2 DEF q
    <3>2. Listed(tx) /\ F[l][y].tx = tx /\ \A k \in Lsids \ {l} : F[k][y].tx = <<>>
      BY <1>3
    <3> HIDE DEF tx
    <3>3. Carries(F, h, y, Len(q), q \o Wired(l, tx))
      BY <2>1, <3>2, CarriesOne
    <3>4. Listed(Wired(l, tx))
      <4>1. Len(tx) \in Nat /\ DOMAIN tx = 1..Len(tx)
        BY <3>2, ListLemma
      <4>2. Wired(l, tx) \in Seq({Wire(l, tx[n]) : n \in 1..Len(tx)})
        BY <4>1 DEF Wired
      <4> QED BY <4>2 DEF Listed
    <3>5. \A n \in 1..Len(q) : (q \o Wired(l, tx))[n] = q[n]
      BY <2>1, <3>4, JoinLemma
    <3> QED BY <2>1, <2>2, <3>1, <3>3, <3>5
  <2>3. CASE x # h
    <3>1. net'[x][y] = q
      BY <1>2, <2>3 DEF q
    <3>2. \A k \in Lsids : HostOf[k] = x => F[k][y].tx = <<>>
      BY <1>3, <2>3
    <3>3. Carries(F, x, y, Len(q), q)
      BY <2>1, <3>2, CarriesNothing
    <3> QED BY <2>1, <3>1, <3>3
  <2> QED BY <2>2, <2>3
<1>6. Moves(F, d)
  BY <1>4, <1>5 DEF Moves, Rests
<1> QED BY <1>6 DEF F

\* The loops over the worlds of a host.
LEMMA PostEachMoves ==
    ASSUME NEW before, NEW d, Rests(before, d), NEW h \in Peers, NEW p \in Peers, NEW F,
           PostEach(h, p, F, before),
           \A l \in Lsids, y \in Peers : y # p \/ HostOf[l] # h => F[l][y].tx = <<>>,
           \A l \in Lsids : F[l][p].tx = <<>> \/ \E m : F[l][p].tx = <<m>>
    PROVE  Moves(F, d)
PROOF
<1> DEFINE W == {l \in Lsids : F[l][p].tx # <<>>}
<1>1. PICK order \in Orders(W) :
         net' = [before EXCEPT ![h][p] =
                   @ \o [k \in DOMAIN order |-> Wire(order[k], F[order[k]][p].tx[1])]]
  BY DEF PostEach
<1> DEFINE out == [k \in DOMAIN order |-> Wire(order[k], F[order[k]][p].tx[1])]
           N == DOMAIN order
<1>2. /\ order \in [1..Cardinality(W) -> W]
      /\ \A l \in W : \E k \in N : order[k] = l
      /\ \A j, k \in N : order[j] = order[k] => j = k
  BY DEF Orders
<1>3. IsFiniteSet(W)
  BY NetFiniteAssumption, FS_Subset
<1>4. Cardinality(W) \in Nat
  BY <1>3, FS_CardinalityType
<1>5. N = 1..Cardinality(W)
  BY <1>2
<1>6. out \in Seq({out[k] : k \in N}) /\ Len(out) = Cardinality(W)
  <2> DEFINE c == Cardinality(W)
  <2>1. c \in Nat /\ DOMAIN out = 1..c /\ out = [k \in 1..c |-> out[k]] /\ N = 1..c
    BY <1>4, <1>5
  <2> HIDE DEF out, c, N
  <2>2. out \in Seq({out[k] : k \in N}) /\ Len(out) = c
    BY <2>1
  <2> QED BY <2>2 DEF c
<1>7. Listed(out)
  BY <1>6 DEF Listed
<1>8. ASSUME NEW k \in N
      PROVE  /\ order[k] \in Lsids /\ HostOf[order[k]] = h
             /\ F[order[k]][p].tx = <<F[order[k]][p].tx[1]>>
             /\ out[k] = Wire(order[k], F[order[k]][p].tx[1])
             /\ out[k].ssid = order[k]
  <2>1. order[k] \in W
    BY <1>2, <1>5
  <2>2. out[k] = Wire(order[k], F[order[k]][p].tx[1])
    OBVIOUS
  <2>3. PICK m : F[order[k]][p].tx = <<m>>
    BY <2>1
  <2> QED BY <2>1, <2>2, <2>3 DEF Wire
<1>9. net' = [x \in Peers |-> [y \in Peers |->
                 IF x = h /\ y = p THEN before[x][y] \o out ELSE before[x][y]]]
  BY <1>1, ZenonT(60) DEF Rests
<1>10. net' = [x \in Peers |-> [y \in Peers |-> net'[x][y]]]
  BY <1>9
<1>11. ASSUME NEW l \in W PROVE \E k \in N : order[k] = l
  BY <1>2
<1>12. \A j, k \in N : order[j] = order[k] => j = k
  BY <1>2
<1>13. ASSUME NEW x \in Peers, NEW y \in Peers
       PROVE  /\ \A n \in 1..(Len(net[x][y]) - d[x][y]) : net'[x][y][n] = net[x][y][n + d[x][y]]
              /\ Carries(F, x, y, Len(net[x][y]) - d[x][y], net'[x][y])
  <2> DEFINE q == before[x][y]
  <2>1. /\ Listed(q) /\ Len(q) = Len(net[x][y]) - d[x][y]
        /\ \A n \in 1..Len(q) : q[n] = net[x][y][n + d[x][y]]
    BY DEF Rests
  <2> HIDE DEF q
  <2>2. CASE x = h /\ y = p
    <3> DEFINE r == q \o out
               new == (Len(q) + 1)..Len(r)
    <3>1. net'[x][y] = r
      BY <1>9, <2>2 DEF q
    <3> HIDE DEF out, W, N
    <3>2. /\ Listed(r) /\ Len(r) = Len(q) + Len(out)
          /\ \A n \in 1..Len(q) : r[n] = q[n]
          /\ \A n \in 1..Len(out) : r[Len(q) + n] = out[n]
      <4>1. Listed(q) /\ Listed(out)
        BY <1>7, <2>1
      <4> QED BY <4>1, JoinLemma
    <3> HIDE DEF r
    <3>3. Len(q) \in Nat /\ Len(out) \in Nat /\ N = 1..Len(out)
      BY <1>4, <1>5, <1>6, <2>1, ListLemma
    <3>4. \A n \in new : n - Len(q) \in N /\ r[n] = out[n - Len(q)]
      <4> SUFFICES ASSUME NEW n \in new PROVE n - Len(q) \in N /\ r[n] = out[n - Len(q)]
        OBVIOUS
      <4>1. n - Len(q) \in 1..Len(out) /\ n = Len(q) + (n - Len(q))
        BY <3>2, <3>3
      <4> QED BY <3>2, <3>3, <4>1
    <3>5. \A n \in N : Len(q) + n \in new /\ r[Len(q) + n] = out[n]
      <4> SUFFICES ASSUME NEW n \in 1..Len(out) PROVE Len(q) + n \in new /\ r[Len(q) + n] = out[n]
        BY <3>3
      <4>1. Len(q) + n \in new
        BY <3>2, <3>3
      <4> QED BY <3>2, <4>1
    <3>6. \A n \in new : \E l \in Lsids : /\ HostOf[l] = x
                                          /\ \E j \in DOMAIN F[l][y].tx : r[n] = Wire(l, F[l][y].tx[j])
      <4> SUFFICES ASSUME NEW n \in new
                   PROVE  \E l \in Lsids : /\ HostOf[l] = x
                                           /\ \E j \in DOMAIN F[l][y].tx : r[n] = Wire(l, F[l][y].tx[j])
        OBVIOUS
      <4> DEFINE l == order[n - Len(q)]
      <4>1. /\ l \in Lsids /\ HostOf[l] = h /\ F[l][p].tx = <<F[l][p].tx[1]>>
            /\ r[n] = Wire(l, F[l][p].tx[1])
        BY <1>8, <3>4
      <4>2. 1 \in DOMAIN F[l][p].tx
        BY <4>1
      <4> QED BY <2>2, <4>1, <4>2
    <3>7. ASSUME NEW l \in Lsids, NEW j \in DOMAIN F[l][y].tx
          PROVE  \E n \in new : r[n] = Wire(l, F[l][y].tx[j])
      <4>1. F[l][p].tx # <<>>
        BY <2>2
      <4>2. l \in W
        BY <4>1 DEF W
      <4>3. PICK k \in N : order[k] = l
        BY <1>11, <4>2
      <4>4. F[l][p].tx = <<F[l][p].tx[1]>> /\ out[k] = Wire(l, F[l][p].tx[1])
        BY <1>8, <4>3
      <4>5. j = 1
        BY <2>2, <4>4
      <4> QED BY <2>2, <3>5, <4>4, <4>5
    <3>8. ASSUME NEW l \in Lsids, NEW n1 \in new, NEW n2 \in new, r[n1].ssid = l, r[n2].ssid = l
          PROVE  n1 = n2
      <4>1. order[n1 - Len(q)] = l /\ order[n2 - Len(q)] = l
        BY <1>8, <3>4, <3>8
      <4>2. n1 - Len(q) = n2 - Len(q)
        BY <1>12, <3>4, <4>1
      <4> QED BY <3>3, <4>2
    <3>9. Carries(F, x, y, Len(q), r)
      <4>1. Len(q) <= Len(r)
        BY <3>2, <3>3
      <4> QED BY <3>2, <3>6, <3>7, <3>8, <4>1 DEF Carries
    <3> QED BY <2>1, <3>1, <3>2, <3>9
  <2>3. CASE ~(x = h /\ y = p)
    <3>1. net'[x][y] = q
      BY <1>9, <2>3 DEF q
    <3>2. \A k \in Lsids : HostOf[k] = x => F[k][y].tx = <<>>
      BY <2>3
    <3>3. Carries(F, x, y, Len(q), q)
      BY <2>1, <3>2, CarriesNothing
    <3> QED BY <2>1, <3>1, <3>3
  <2> QED BY <2>2, <2>3
<1> QED BY <1>10, <1>13 DEF Moves, Rests

-----------------------------------------------------------------------------
(* What the effects of a step may be *)

\* The message that world l sends to y as effect e on entry i.
SendsOK(l, y, i, e, m) ==
    /\ WireOK(HostOf[l], y, Wire(l, m))
    /\ m.type \in Commits => Len(e.tx) = 1 /\ i.state \notin {"TMEM", "MEM"}
    /\ m.type = "JN" => /\ Len(e.tx) = 1 /\ e.info.state # "DC_JT" /\ l \in used'
                        /\ l \notin used \/ i.state = "DC_JT"
    /\ m.type = "JOK" => i.state = "JN" /\ i.sid = m.rsid /\ e.info.state # "JN"

\* The effect e on entry i of world l for y, in a step that has taken message m of
\* y from the link, if took is 1.
TakesOK(l, i, e, took, m) ==
    /\ e.info.state = "DC_JT" => i.state = "DC_JT" \/ l \notin used
    /\ e.info.state = "JN" => \/ i.state = "JN" /\ i.sid = e.info.sid
                              \/ took = 1 /\ IsAsk(m, e.info.sid) /\ JoinTo[m.ssid] = l
    /\ e.info.state \in Hears => \/ i.state \in Hears /\ i.sid = e.info.sid
                                 \/ /\ took = 1 /\ m.ssid = e.info.sid
                                    /\ m.msg.type \in Commits /\ m.msg.rsid = l
    /\ took = 1 /\ m.msg.type = "RST" /\ m.msg.rsid = l => e.info.state \notin Hears

Fits(F, d) ==
    \A l \in Lsids, y \in Peers :
        /\ Listed(F[l][y].tx)
        /\ \A n \in DOMAIN F[l][y].tx : SendsOK(l, y, entry[l][y], F[l][y], F[l][y].tx[n])
        /\ TakesOK(l, entry[l][y], F[l][y], d[y][HostOf[l]], net[y][HostOf[l]][1])

\* A join succeeds only by the answer to its request.
Succeeds(d) ==
    \A l \in Lsids : JoinTo[l] # Nil /\ result'[l] = "success" =>
        LET y == HostOf[JoinTo[l]]
        IN  result[l] = "success" \/ (d[y][HostOf[l]] = 1 /\ IsAnswer(net[y][HostOf[l]][1], l))

\* A step with effects F that takes the messages of d.
Step(F, d) ==
    /\ \A l \in Lsids, y \in Peers : /\ entry'[l][y] = F[l][y].info
                                     /\ said'[l][y] = Say(said[l][y], F[l][y].tx)
    /\ used \subseteq used'
    /\ \A h \in Peers : peers[h] \subseteq peers'[h]
    /\ Moves(F, d)
    /\ Fits(F, d)
    /\ Succeeds(d)

\* Every message on a link was there, one place further back, or is one of F.
LEMMA MessageLemma ==
    ASSUME LinksOK, NEW F, NEW d, Moves(F, d), NEW x \in Peers, NEW y \in Peers
    PROVE  /\ Len(net[x][y]) \in Nat /\ DOMAIN net[x][y] = 1..Len(net[x][y])
           /\ Len(net'[x][y]) \in Nat /\ DOMAIN net'[x][y] = 1..Len(net'[x][y])
           /\ d[x][y] \in {0, 1} /\ d[x][y] <= Len(net[x][y])
           /\ \A n \in DOMAIN net'[x][y] :
                 \/ /\ n + d[x][y] \in DOMAIN net[x][y]
                    /\ net'[x][y][n] = net[x][y][n + d[x][y]]
                 \/ /\ n > Len(net[x][y]) - d[x][y]
                    /\ \/ net'[x][y][n].msg.type = "JDN"
                       \/ \E l \in Lsids : /\ HostOf[l] = x
                                           /\ \E j \in DOMAIN F[l][y].tx : net'[x][y][n] = Wire(l, F[l][y].tx[j])
           /\ \A n \in DOMAIN net[x][y] : n > d[x][y] =>
                 n - d[x][y] \in DOMAIN net'[x][y] /\ net'[x][y][n - d[x][y]] = net[x][y][n]
PROOF
<1> DEFINE q == net[x][y]
           r == net'[x][y]
           c == Len(q) - d[x][y]
<1>1. Listed(q)
  BY DEF LinksOK
<1>2. /\ d[x][y] \in {0, 1} /\ d[x][y] <= Len(q)
      /\ \A n \in 1..c : r[n] = q[n + d[x][y]]
      /\ Carries(F, x, y, c, r)
  BY DEF Moves
<1>3. Listed(r) /\ c <= Len(r)
  BY <1>2 DEF Carries
<1>4. Len(q) \in Nat /\ DOMAIN q = 1..Len(q) /\ Len(r) \in Nat /\ DOMAIN r = 1..Len(r)
  BY <1>1, <1>3, ListLemma
<1>5. \A n \in (c + 1)..Len(r) :
         \/ r[n].msg.type = "JDN"
         \/ \E l \in Lsids : /\ HostOf[l] = x
                             /\ \E j \in DOMAIN F[l][y].tx : r[n] = Wire(l, F[l][y].tx[j])
  BY <1>2 DEF Carries
<1> HIDE DEF q, r
<1>6. ASSUME NEW n \in DOMAIN r
      PROVE  \/ n + d[x][y] \in DOMAIN q /\ r[n] = q[n + d[x][y]]
             \/ n \in (c + 1)..Len(r) /\ n > c
  <2>1. CASE n <= c
    BY <1>2, <1>4, <2>1
  <2>2. CASE n > c
    BY <1>2, <1>4, <2>2
  <2> QED BY <1>2, <1>4, <2>1, <2>2
<1>7. ASSUME NEW n \in DOMAIN q, n > d[x][y]
      PROVE  n - d[x][y] \in DOMAIN r /\ r[n - d[x][y]] = q[n]
  <2>1. n - d[x][y] \in 1..c /\ n - d[x][y] \in DOMAIN r /\ (n - d[x][y]) + d[x][y] = n
    BY <1>2, <1>3, <1>4, <1>7
  <2> QED BY <1>2, <2>1
<1> QED BY <1>2, <1>4, <1>5, <1>6, <1>7 DEF q, r

\* The places of the messages that the step adds to the link from x to y.
NewPlaces(d, x, y) == (Len(net[x][y]) - d[x][y] + 1)..Len(net'[x][y])

\* Message m is one of F.
OneOf(F, x, y, m) ==
    \/ m.msg.type = "JDN"
    \/ \E w \in Lsids : /\ HostOf[w] = x
                        /\ \E j \in DOMAIN F[w][y].tx : m = Wire(w, F[w][y].tx[j])

\* The same for one message, with its place.
LEMMA OriginLemma ==
    ASSUME LinksOK, NEW F, NEW d, Moves(F, d), NEW x \in Peers, NEW y \in Peers,
           NEW n \in DOMAIN net'[x][y], NEW m, m = net'[x][y][n]
    PROVE  /\ n \in Nat \ {0} /\ d[x][y] \in {0, 1}
           /\ \/ n + d[x][y] \in DOMAIN net[x][y] /\ m = net[x][y][n + d[x][y]]
              \/ n \in NewPlaces(d, x, y) /\ OneOf(F, x, y, m)
PROOF
<1> DEFINE a == Len(net[x][y])
           b == Len(net'[x][y])
           t == d[x][y]
<1>1. a \in Nat /\ b \in Nat /\ t \in 0..1 /\ t <= a /\ n \in 1..b
  BY MessageLemma
<1>2. \A j \in DOMAIN net'[x][y] :
         \/ j + t \in DOMAIN net[x][y] /\ net'[x][y][j] = net[x][y][j + t]
         \/ /\ j > a - t
            /\ \/ net'[x][y][j].msg.type = "JDN"
               \/ \E w \in Lsids : /\ HostOf[w] = x
                                   /\ \E u \in DOMAIN F[w][y].tx : net'[x][y][j] = Wire(w, F[w][y].tx[u])
  BY MessageLemma
<1> HIDE DEF a, b, t
<1>3. n > a - t => n \in (a - t + 1)..b
  BY <1>1
<1>4. n \in Nat \ {0} /\ t \in {0, 1}
  BY <1>1
<1>5. \/ n + t \in DOMAIN net[x][y] /\ m = net[x][y][n + t]
      \/ /\ n > a - t
         /\ \/ m.msg.type = "JDN"
            \/ \E w \in Lsids : /\ HostOf[w] = x
                                /\ \E u \in DOMAIN F[w][y].tx : m = Wire(w, F[w][y].tx[u])
  BY <1>2
<1> QED BY <1>3, <1>4, <1>5 DEF a, b, t, NewPlaces, OneOf

\* What is on a link is kept well formed.
LEMMA LinksStep ==
    ASSUME LinksOK, NEW F, NEW d, Step(F, d)
    PROVE  LinksOK'
PROOF
<1>1. Moves(F, d) /\ Fits(F, d) /\ \A h \in Peers : peers[h] \subseteq peers'[h]
  BY DEF Step
<1>2. ASSUME NEW x \in Peers, NEW y \in Peers, NEW m, WireOK(x, y, m)
      PROVE  WireOK(x, y, m)'
  BY <1>1, <1>2 DEF WireOK
<1>3. ASSUME NEW x \in Peers, NEW y \in Peers, NEW n \in DOMAIN net'[x][y]
      PROVE  WireOK(x, y, net[x][y][n])'
  <2>1. PICK m : m = net'[x][y][n]
    OBVIOUS
  <2>2. WireOK(x, y, m)'
    <3>1. CASE n + d[x][y] \in DOMAIN net[x][y] /\ m = net[x][y][n + d[x][y]]
      BY <1>2, <3>1 DEF LinksOK
    <3>2. CASE m.msg.type = "JDN"
      BY <3>2 DEF WireOK, Commits
    <3>3. CASE \E l \in Lsids : /\ HostOf[l] = x
                                /\ \E j \in DOMAIN F[l][y].tx : m = Wire(l, F[l][y].tx[j])
      <4>1. PICK l \in Lsids : HostOf[l] = x /\ \E j \in DOMAIN F[l][y].tx : m = Wire(l, F[l][y].tx[j])
        BY <3>3
      <4>2. WireOK(x, y, m)
        BY <1>1, <4>1 DEF Fits, SendsOK
      <4> QED BY <1>2, <4>2
    <3> QED BY <1>1, <2>1, <3>1, <3>2, <3>3, MessageLemma
  <2> QED BY <2>1, <2>2 DEF WireOK
<1>4. \A x, y \in Peers : Listed(net'[x][y])
  BY <1>1 DEF Moves, Carries
<1>5. net' = [x \in Peers |-> [y \in Peers |-> net'[x][y]]]
  BY <1>1 DEF Moves
<1> QED BY <1>3, <1>4, <1>5 DEF LinksOK

\* Sessions stay with their peers, and join requests with their targets.
LEMMA EntriesStep ==
    ASSUME IInv, LinksOK, EntriesOK, NEW F, NEW d, Step(F, d)
    PROVE  EntriesOK'
PROOF
<1> SUFFICES ASSUME NEW l \in Lsids, NEW y \in Peers
             PROVE  /\ entry'[l][y].state = "JN" => JoinTo[entry'[l][y].sid] = l
                    /\ entry'[l][y].state \in {"JN"} \cup Hears => HostOf[entry'[l][y].sid] = y
  BY DEF EntriesOK
<1> DEFINE i == entry[l][y]
           e == F[l][y]
           x == HostOf[l]
           m == net[y][x][1]
           took == d[y][x]
<1>1. Moves(F, d) /\ entry'[l][y] = e.info /\ TakesOK(l, i, e, took, m)
  BY DEF Step, Fits
<1>2. x \in Peers
  BY LsidAssumption, ClosedAssumption
<1>3. took = 1 => WireOK(y, x, m)
  <2>1. took = 1 => 1 \in DOMAIN net[y][x]
    BY <1>1, <1>2, MessageLemma
  <2> QED BY <1>2, <2>1 DEF LinksOK
<1>4. /\ i.state = "JN" => JoinTo[i.sid] = l
      /\ i.state \in {"JN"} \cup Hears => HostOf[i.sid] = y
  BY DEF EntriesOK
<1> HIDE DEF i, e, m, took
<1>5. took = 1 /\ m.msg.type # "JDN" => HostOf[m.ssid] = y
  BY <1>3 DEF WireOK
<1> QED BY <1>1, <1>4, <1>5 DEF TakesOK, IsAsk, Commits

\* A commitment is recorded, and no commitment is dropped without a reset.
LEMMA SaidLemma ==
    ASSUME IInv, NEW F, NEW d, Step(F, d), NEW k \in Lsids, NEW y \in Peers
    PROVE  /\ \A n \in DOMAIN F[k][y].tx :
                 F[k][y].tx[n].type \in Commits => said'[k][y] = F[k][y].tx[n].rsid
           /\ \A l \in Lsids : said[k][y] = l /\ said'[k][y] # l =>
                 \E j \in DOMAIN F[k][y].tx : F[k][y].tx[j].type = "RST" /\ F[k][y].tx[j].rsid = l
PROOF
<1> DEFINE tx == F[k][y].tx
           commits == {n \in DOMAIN tx : tx[n].type \in {"JOK", "MEM"}}
<1>1. said'[k][y] = Say(said[k][y], tx)
  BY DEF Step
<1>2. Listed(tx) /\ \A n \in commits : Len(tx) = 1 /\ entry[k][y].state \notin {"TMEM", "MEM"}
  BY DEF Step, Fits, SendsOK, Commits
<1>3. EntryOK(entry[k][y], told[k][y], said[k][y], heard[k][y])
  BY DEF IInv
<1>4. Nil \notin Lsids
  BY LsidAssumption
<1> HIDE DEF tx
<1>5. ASSUME commits # {} PROVE said[k][y] = Nil /\ \A n \in commits : said'[k][y] = tx[n].rsid
  <2>1. Len(tx) = 1 /\ entry[k][y].state \notin {"TMEM", "MEM"}
    BY <1>2, <1>5
  <2>2. DOMAIN tx = {1}
    <3>1. DOMAIN tx = 1..1
      BY <1>2, <2>1, ListLemma
    <3> QED BY <3>1
  <2>3. commits = {1}
    BY <1>5, <2>2
  <2>4. (CHOOSE n \in commits : TRUE) = 1
    BY <2>3
  <2>5. Say(said[k][y], tx) = tx[1].rsid
    BY <1>5, <2>4 DEF Say
  <2>6. said[k][y] = Nil
    BY <1>3, <2>1 DEF EntryOK
  <2> QED BY <1>1, <2>3, <2>5, <2>6
<1>6. ASSUME commits = {}
      PROVE  \/ said'[k][y] = said[k][y]
             \/ \E j \in DOMAIN tx : tx[j].type = "RST" /\ tx[j].rsid = said[k][y]
  BY <1>1, <1>6 DEF Say
<1>7. \A n \in DOMAIN tx : tx[n].type \in Commits => n \in commits
  BY DEF Commits
<1>8. \A l \in Lsids : said[k][y] = l /\ said'[k][y] # l =>
         \E j \in DOMAIN tx : tx[j].type = "RST" /\ tx[j].rsid = l
  BY <1>4, <1>5, <1>6
<1>9. \A n \in DOMAIN tx : tx[n].type \in Commits => said'[k][y] = tx[n].rsid
  BY <1>5, <1>7
<1> QED BY <1>8, <1>9 DEF tx

\* A commitment that stands, or is followed by a reset, is so after the step, if
\* the step does not take the reset.
LEMMA StandsLemma ==
    ASSUME IInv, LinksOK, NEW F, NEW d, Step(F, d), NEW k \in Lsids, NEW y \in Peers, NEW l \in Lsids,
           NEW n \in Nat, NEW x, x = HostOf[k], NEW c \in Nat, c <= n, n <= c + d[x][y],
           c + d[x][y] <= Len(net[x][y]),
           said[k][y] = l \/ ResetAfter(x, y, n, k, l),
           n = c /\ d[x][y] = 1 => ~IsReset(net[x][y][n + 1], k, l)
    PROVE  said'[k][y] = l \/ ResetAfter(x, y, c, k, l)'
PROOF
<1>0. x \in Peers
  BY LsidAssumption, ClosedAssumption
<1>1. Moves(F, d)
  BY DEF Step
<1>2. /\ Len(net[x][y]) \in Nat /\ DOMAIN net[x][y] = 1..Len(net[x][y])
      /\ Len(net'[x][y]) \in Nat /\ DOMAIN net'[x][y] = 1..Len(net'[x][y])
      /\ d[x][y] \in {0, 1} /\ d[x][y] <= Len(net[x][y])
      /\ \A j \in DOMAIN net[x][y] : j > d[x][y] =>
            j - d[x][y] \in DOMAIN net'[x][y] /\ net'[x][y][j - d[x][y]] = net[x][y][j]
  BY <1>0, <1>1, MessageLemma
<1>3. CASE said[k][y] = l
  <2>1. CASE said'[k][y] = l
    BY <2>1
  <2>2. CASE said'[k][y] # l
    <3>1. PICK j \in DOMAIN F[k][y].tx : F[k][y].tx[j].type = "RST" /\ F[k][y].tx[j].rsid = l
      BY <1>3, <2>2, SaidLemma
    <3>2. Carries(F, x, y, Len(net[x][y]) - d[x][y], net'[x][y])
      BY <1>0, <1>1 DEF Moves
    <3>3. PICK u \in (Len(net[x][y]) - d[x][y] + 1)..Len(net'[x][y]) :
             net'[x][y][u] = Wire(k, F[k][y].tx[j])
      BY <3>2 DEF Carries
    <3>4. u \in DOMAIN net'[x][y] /\ u > c
      <4> DEFINE a == Len(net[x][y])
                 b == Len(net'[x][y])
                 t == d[x][y]
      <4>1. a \in Nat /\ b \in Nat /\ t \in 0..1 /\ c + t <= a /\ u \in (a - t + 1)..b
        BY <1>2, <3>3
      <4> HIDE DEF a, b, t
      <4>2. u \in 1..b /\ u > c
        BY <4>1
      <4> QED BY <1>2, <4>2 DEF b
    <3>5. IsReset(net'[x][y][u], k, l)
      BY <3>1, <3>3 DEF IsReset, Wire
    <3> QED BY <3>4, <3>5 DEF ResetAfter
  <2> QED BY <2>1, <2>2
<1>4. CASE ResetAfter(x, y, n, k, l)
  <2>1. PICK j \in DOMAIN net[x][y] : j > n /\ IsReset(net[x][y][j], k, l)
    BY <1>4 DEF ResetAfter
  <2>2. j # n + 1 \/ n # c \/ d[x][y] # 1
    BY <2>1
  <2>3. j \in Nat /\ j > d[x][y] /\ j - d[x][y] > c
    BY <1>2, <2>1, <2>2
  <2>4. j - d[x][y] \in DOMAIN net'[x][y] /\ IsReset(net'[x][y][j - d[x][y]], k, l)
    BY <1>2, <2>1, <2>3
  <2> QED BY <2>3, <2>4 DEF ResetAfter
<1> QED BY <1>3, <1>4

\* A commitment on a link stands, or a reset follows it.
LEMMA CommitsStep ==
    ASSUME IInv, LinksOK, CommitsKept, NEW F, NEW d, Step(F, d)
    PROVE  CommitsKept'
PROOF
<1>1. ASSUME NEW x \in Peers, NEW y \in Peers, NEW n \in DOMAIN net'[x][y], NEW m, m = net'[x][y][n],
             m.msg.type \in Commits, NEW k, k = m.ssid, NEW l, l = m.msg.rsid
      PROVE  said'[k][y] = l \/ ResetAfter(x, y, n, k, l)'
  <2>1. Moves(F, d)
    BY DEF Step
  <2>2. /\ Len(net[x][y]) \in Nat /\ DOMAIN net[x][y] = 1..Len(net[x][y])
        /\ Len(net'[x][y]) \in Nat /\ DOMAIN net'[x][y] = 1..Len(net'[x][y])
        /\ d[x][y] \in {0, 1} /\ d[x][y] <= Len(net[x][y])
        /\ \/ n + d[x][y] \in DOMAIN net[x][y] /\ m = net[x][y][n + d[x][y]]
           \/ m.msg.type = "JDN"
           \/ \E w \in Lsids : /\ HostOf[w] = x
                               /\ \E j \in DOMAIN F[w][y].tx : m = Wire(w, F[w][y].tx[j])
    BY <1>1, <2>1, MessageLemma
  <2>3. ASSUME n + d[x][y] \in DOMAIN net[x][y], m = net[x][y][n + d[x][y]]
        PROVE  said'[k][y] = l \/ ResetAfter(x, y, n, k, l)'
    <3> DEFINE j == n + d[x][y]
    <3>1. k \in Lsids /\ HostOf[k] = x /\ l \in Lsids
      BY <1>1, <2>3 DEF LinksOK, WireOK, Commits
    <3>2. said[k][y] = l \/ ResetAfter(x, y, j, k, l)
      BY <1>1, <2>3 DEF CommitsKept
    <3>3. /\ j \in Nat /\ n \in Nat /\ n <= j /\ j <= n + d[x][y] /\ n + d[x][y] <= Len(net[x][y])
          /\ ~(j = n /\ d[x][y] = 1)
      BY <2>2, <2>3
    <3> HIDE DEF j
    <3> QED BY <3>1, <3>2, <3>3, StandsLemma
  <2>4. ASSUME NEW w \in Lsids, NEW j \in DOMAIN F[w][y].tx, m = Wire(w, F[w][y].tx[j])
        PROVE  said'[k][y] = l
    <3>1. k = w /\ m.msg = F[w][y].tx[j]
      BY <1>1, <2>4 DEF Wire
    <3> QED BY <1>1, <3>1, SaidLemma
  <2>5. m.msg.type # "JDN"
    BY <1>1 DEF Commits
  <2> QED BY <2>2, <2>3, <2>4, <2>5
<1> QED BY <1>1 DEF CommitsKept, ResetAfter, IsReset

\* A commitment that has arrived stands, or its reset is on the way.
LEMMA HearsStep ==
    ASSUME IInv, LinksOK, EntriesOK, CommitsKept, HearsBack, NEW F, NEW d, Step(F, d)
    PROVE  HearsBack'
PROOF
<1>1. ASSUME NEW l \in Lsids, NEW x \in Peers, NEW y, y = HostOf[l],
             entry'[l][x].state \in Hears, NEW k, k = entry'[l][x].sid
      PROVE  said'[k][y] = l \/ ResetAfter(x, y, 0, k, l)'
  <2> DEFINE i == entry[l][x]
             e == F[l][x]
             m == net[x][y][1]
             took == d[x][y]
  <2>1. y \in Peers
    BY <1>1, LsidAssumption, ClosedAssumption
  <2>2. Moves(F, d) /\ entry'[l][x] = e.info /\ TakesOK(l, i, e, took, m)
    BY <1>1 DEF Step, Fits
  <2>3. /\ Len(net[x][y]) \in Nat /\ DOMAIN net[x][y] = 1..Len(net[x][y])
        /\ d[x][y] \in {0, 1} /\ d[x][y] <= Len(net[x][y])
    BY <2>1, <2>2, MessageLemma
  <2>4. i \in Info /\ EntryOK(i, told[l][x], said[l][x], heard[l][x])
    BY DEF IInv, TypeOK
  <2>5. \/ i.state \in Hears /\ i.sid = k
        \/ took = 1 /\ m.ssid = k /\ m.msg.type \in Commits /\ m.msg.rsid = l
    <3> HIDE DEF i, e, m, took
    <3> QED BY <1>1, <2>2 DEF TakesOK
  <2>6. took = 1 => 1 \in DOMAIN net[x][y] /\ WireOK(x, y, m)
    BY <2>1, <2>3 DEF LinksOK
  <2>7. ASSUME i.state \in Hears, i.sid = k
        PROVE  said'[k][y] = l \/ ResetAfter(x, y, 0, k, l)'
    <3>1. k # Nil
      BY <2>4, <2>7 DEF EntryOK, Hears
    <3>2. k \in Lsids
      BY <2>4, <2>7, <3>1, ClosedAssumption DEF Info
    <3>3. HostOf[k] = x
      BY <2>7 DEF EntriesOK
    <3>4. said[k][y] = l \/ ResetAfter(x, y, 0, k, l)
      BY <1>1, <2>7 DEF HearsBack
    <3>5. took = 1 => ~IsReset(m, k, l)
      <4> HIDE DEF i, e, m, took
      <4> QED BY <1>1, <2>2 DEF TakesOK, IsReset
    <3>6. 0 = 0 /\ d[x][y] = 1 => ~IsReset(net[x][y][0 + 1], k, l)
      BY <3>5
    <3>7. 0 + d[x][y] <= Len(net[x][y]) /\ 0 <= 0 + d[x][y]
      BY <2>3
    <3> QED BY <2>1, <3>2, <3>3, <3>4, <3>6, <3>7, StandsLemma
  <2>8. ASSUME took = 1, m.ssid = k, m.msg.type \in Commits, m.msg.rsid = l
        PROVE  said'[k][y] = l \/ ResetAfter(x, y, 0, k, l)'
    <3>1. k \in Lsids /\ HostOf[k] = x
      <4> HIDE DEF m, took
      <4> QED BY <2>6, <2>8 DEF WireOK, Commits
    <3>2. said[k][y] = l \/ ResetAfter(x, y, 1, k, l)
      BY <2>1, <2>6, <2>8 DEF CommitsKept
    <3>3. /\ 1 \in Nat /\ 0 \in Nat /\ 0 <= 1 /\ 1 <= 0 + d[x][y] /\ 0 + d[x][y] <= Len(net[x][y])
          /\ ~(1 = 0)
      BY <2>3, <2>8
    <3> QED BY <2>1, <3>1, <3>2, <3>3, StandsLemma
  <2> QED BY <2>5, <2>7, <2>8
<1> QED BY <1>1 DEF HearsBack, ResetAfter, IsReset

-----------------------------------------------------------------------------
(* The one request of a join *)

\* Where the request or the answer of l is after the step, it was before the step,
\* one place further back; a request that waits has been taken from its link, a new
\* answer comes from the request that has waited, and a new request is sent only
\* before the join.
LEMMA TokenStep ==
    ASSUME LinksOK, NEW F, NEW d, Step(F, d), NEW l \in Lsids, JoinTo[l] # Nil,
           NEW t, t = JoinTo[l], NEW h, h = HostOf[l], NEW y, y = HostOf[t],
           NEW kind, NEW n, Token(l, kind, n)'
    PROVE  \/ /\ kind = "ask" /\ n \in Nat \ {0}
              /\ \/ Token(l, "ask", n + d[h][y])
                 \/ /\ n \in NewPlaces(d, h, y)
                    /\ net'[h][y][n].ssid = l /\ Len(F[l][y].tx) = 1
                    /\ l \in used' /\ entry'[l][y].state # "DC_JT"
                    /\ l \notin used \/ entry[l][y].state = "DC_JT"
           \/ /\ kind = "wait" /\ n = 0
              /\ Token(l, "wait", 0) \/ (d[h][y] = 1 /\ Token(l, "ask", 1))
           \/ /\ kind = "answer" /\ n \in Nat \ {0}
              /\ \/ Token(l, "answer", n + d[y][h])
                 \/ /\ n \in NewPlaces(d, y, h)
                    /\ net'[y][h][n].ssid = t /\ Len(F[t][h].tx) = 1
                    /\ Token(l, "wait", 0) /\ ~Token(l, "wait", 0)'
PROOF
<1>1. t \in Lsids /\ h \in Peers /\ y \in Peers
  BY JoinAssumption, LsidAssumption, ClosedAssumption
<1>2. Moves(F, d) /\ Fits(F, d)
  BY DEF Step
<1>3. \A w \in Lsids, x \in Peers : entry'[w][x] = F[w][x].info
  BY DEF Step
<1>4. CASE kind = "ask" /\ n \in DOMAIN net'[h][y] /\ IsAsk(net'[h][y][n], l)
  <2>1. PICK m : m = net'[h][y][n]
    OBVIOUS
  <2>2. m.msg.type = "JN" /\ m.ssid = l
    BY <1>4, <2>1 DEF IsAsk
  <2>3. /\ n \in Nat \ {0}
        /\ \/ n + d[h][y] \in DOMAIN net[h][y] /\ m = net[h][y][n + d[h][y]]
           \/ n \in NewPlaces(d, h, y) /\ OneOf(F, h, y, m)
    <3>1. h \in Peers /\ y \in Peers /\ n \in DOMAIN net'[h][y] /\ Moves(F, d)
      BY <1>1, <1>2, <1>4
    <3> QED BY <2>1, <3>1, OriginLemma
  <2>4. m.msg.type # "JDN"
    BY <2>2
  <2>5. ASSUME n + d[h][y] \in DOMAIN net[h][y], m = net[h][y][n + d[h][y]]
        PROVE  Token(l, "ask", n + d[h][y])
    BY <2>2, <2>5 DEF Token, IsAsk
  <2>6. ASSUME NEW w \in Lsids, NEW j \in DOMAIN F[w][y].tx, m = Wire(w, F[w][y].tx[j])
        PROVE  /\ m.ssid = l /\ Len(F[l][y].tx) = 1
               /\ l \in used' /\ entry'[l][y].state # "DC_JT"
               /\ l \notin used \/ entry[l][y].state = "DC_JT"
    <3>1. w = l /\ F[w][y].tx[j].type = "JN"
      BY <2>2, <2>6 DEF Wire
    <3>2. SendsOK(l, y, entry[l][y], F[l][y], F[l][y].tx[j])
      BY <1>1, <1>2, <3>1 DEF Fits
    <3> QED BY <1>1, <1>3, <2>2, <3>1, <3>2 DEF SendsOK
  <2> QED BY <1>4, <2>1, <2>3, <2>4, <2>5, <2>6 DEF OneOf
<1>5. CASE kind = "wait" /\ n = 0 /\ entry'[t][h].state = "JN" /\ entry'[t][h].sid = l
  <2> DEFINE m == net[h][y][1]
             took == d[h][y]
             i == entry[t][h]
             e == F[t][h]
  <2>1. TakesOK(t, i, e, took, m) /\ e.info.state = "JN" /\ e.info.sid = l
    BY <1>1, <1>2, <1>3, <1>5 DEF Fits
  <2>2. \/ i.state = "JN" /\ i.sid = l
        \/ took = 1 /\ IsAsk(m, l)
    <3> HIDE DEF i, e, took, m
    <3> QED BY <2>1 DEF TakesOK
  <2>3. took = 1 => 1 \in DOMAIN net[h][y]
    BY <1>1, <1>2, MessageLemma
  <2> QED BY <1>5, <2>2, <2>3 DEF Token
<1>6. CASE kind = "answer" /\ n \in DOMAIN net'[y][h] /\ IsAnswer(net'[y][h][n], l)
  <2>1. PICK m : m = net'[y][h][n]
    OBVIOUS
  <2>2. m.msg.type = "JOK" /\ m.msg.rsid = l
    BY <1>6, <2>1 DEF IsAnswer
  <2>3. /\ n \in Nat \ {0}
        /\ \/ n + d[y][h] \in DOMAIN net[y][h] /\ m = net[y][h][n + d[y][h]]
           \/ n \in NewPlaces(d, y, h) /\ OneOf(F, y, h, m)
    <3>1. y \in Peers /\ h \in Peers /\ n \in DOMAIN net'[y][h] /\ Moves(F, d)
      BY <1>1, <1>2, <1>6
    <3> QED BY <2>1, <3>1, OriginLemma
  <2>4. m.msg.type # "JDN"
    BY <2>2
  <2>5. ASSUME n + d[y][h] \in DOMAIN net[y][h], m = net[y][h][n + d[y][h]]
        PROVE  Token(l, "answer", n + d[y][h])
    BY <2>2, <2>5 DEF Token, IsAnswer
  <2>6. ASSUME NEW w \in Lsids, NEW j \in DOMAIN F[w][h].tx, m = Wire(w, F[w][h].tx[j])
        PROVE  /\ m.ssid = t /\ Len(F[t][h].tx) = 1
               /\ Token(l, "wait", 0) /\ ~Token(l, "wait", 0)'
    <3>1. m.ssid = w /\ m.msg = F[w][h].tx[j]
      BY <2>6 DEF Wire
    <3>2. SendsOK(w, h, entry[w][h], F[w][h], F[w][h].tx[j])
      BY <1>1, <1>2 DEF Fits
    <3>3. WireOK(HostOf[w], h, m)
      BY <2>6, <3>2 DEF SendsOK
    <3>4. w = t
      BY <2>2, <3>1, <3>3 DEF WireOK
    <3>5. /\ Len(F[t][h].tx) = 1 /\ entry[t][h].state = "JN" /\ entry[t][h].sid = l
          /\ F[t][h].info.state # "JN"
      BY <2>2, <3>1, <3>2, <3>4 DEF SendsOK, Commits
    <3>6. entry'[t][h].state # "JN"
      BY <1>1, <1>3, <3>5
    <3>7. Token(l, "wait", 0)
      BY <3>5 DEF Token
    <3>8. ~Token(l, "wait", 0)'
      BY <3>6 DEF Token
    <3> QED BY <3>1, <3>4, <3>5, <3>7, <3>8
  <2> QED BY <1>6, <2>1, <2>3, <2>4, <2>5, <2>6 DEF OneOf
<1> QED BY <1>4, <1>5, <1>6 DEF Token

\* A join is requested once, and its request or its answer is in one place.
LEMMA JoinStep ==
    ASSUME IInv, LinksOK, NEW F, NEW d, Step(F, d), NEW l \in Lsids, JoinTo[l] # Nil, JoinOnce(l)
    PROVE  JoinOnce(l)'
PROOF
<1>1. PICK t : t = JoinTo[l]
  OBVIOUS
<1>2. PICK h, y : h = HostOf[l] /\ y = HostOf[t]
  OBVIOUS
<1>3. t \in Lsids /\ h \in Peers /\ y \in Peers
  BY <1>1, <1>2, JoinAssumption, LsidAssumption, ClosedAssumption
<1> DEFINE Fresh(kind, n) ==
               /\ kind = "ask" /\ n \in NewPlaces(d, h, y)
               /\ net'[h][y][n].ssid = l /\ Len(F[l][y].tx) = 1
               /\ l \in used' /\ entry'[l][y].state # "DC_JT"
               /\ l \notin used \/ entry[l][y].state = "DC_JT"
           Old(kind, n, k, j) ==
               \/ kind = "ask" /\ n \in Nat \ {0} /\ k = "ask" /\ j = n + d[h][y]
               \/ kind = "wait" /\ n = 0 /\ k = "wait" /\ j = 0
               \/ kind = "wait" /\ n = 0 /\ k = "ask" /\ j = 1 /\ d[h][y] = 1
               \/ kind = "answer" /\ n \in Nat \ {0} /\ k = "answer" /\ j = n + d[y][h]
               \/ /\ kind = "answer" /\ k = "wait" /\ j = 0 /\ ~Token(l, "wait", 0)'
                  /\ n \in NewPlaces(d, y, h) /\ net'[y][h][n].ssid = t /\ Len(F[t][h].tx) = 1
<1>4. Moves(F, d) /\ Fits(F, d) /\ used \subseteq used'
  BY DEF Step
<1>5. d[h][y] \in {0, 1} /\ d[y][h] \in {0, 1}
  BY <1>3, <1>4 DEF Moves
<1>6. ASSUME NEW kind, NEW n, Token(l, kind, n)'
      PROVE  Fresh(kind, n) \/ \E k, j : Old(kind, n, k, j) /\ Token(l, k, j)
  BY <1>1, <1>2, <1>6, TokenStep
<1>7. ASSUME NEW x \in Peers, NEW u \in Peers, NEW w \in Lsids, Len(F[w][u].tx) = 1,
             NEW m \in NewPlaces(d, x, u), NEW n \in NewPlaces(d, x, u),
             net'[x][u][m].ssid = w, net'[x][u][n].ssid = w
      PROVE  m = n
  <2>1. Carries(F, x, u, Len(net[x][u]) - d[x][u], net'[x][u])
    BY <1>4 DEF Moves
  <2> QED BY <1>7, <2>1 DEF Carries, NewPlaces
<1>8. ASSUME NEW kind, NEW n, Fresh(kind, n) PROVE \A k, j : ~Token(l, k, j)
  BY <1>1, <1>2, <1>8 DEF JoinOnce, Requested
<1>9. ASSUME NEW k1, NEW n1, NEW k2, NEW n2, NEW k, NEW j, Old(k1, n1, k, j), Old(k2, n2, k, j),
             Token(l, k1, n1)', Token(l, k2, n2)'
      PROVE  k1 = k2 /\ n1 = n2
  <2>1. CASE k = "ask"
    BY <1>5, <1>9, <2>1
  <2>2. CASE k = "answer"
    BY <1>5, <1>9, <2>2
  <2>3. CASE k = "wait"
    <3>1. CASE k1 = "wait" \/ k2 = "wait"
      <4>1. Token(l, "wait", 0)'
        BY <1>9, <2>3, <3>1
      <4> QED BY <1>9, <2>3, <3>1, <4>1
    <3>2. CASE k1 = "answer" /\ k2 = "answer"
      <4> USE <1>9, <2>3, <3>2
      <4>1. /\ n1 \in NewPlaces(d, y, h) /\ net'[y][h][n1].ssid = t
            /\ n2 \in NewPlaces(d, y, h) /\ net'[y][h][n2].ssid = t /\ Len(F[t][h].tx) = 1
        OBVIOUS
      <4> QED BY <1>3, <1>7, <4>1
    <3> QED BY <1>9, <2>3, <3>1, <3>2
  <2> QED BY <1>9, <2>1, <2>2, <2>3
<1>10. ASSUME NEW k1, NEW n1, NEW k2, NEW n2, Token(l, k1, n1)', Token(l, k2, n2)'
       PROVE  k1 = k2 /\ n1 = n2
  <2>1. CASE Fresh(k1, n1)
    <3>1. Fresh(k2, n2)
      BY <1>6, <1>8, <1>10, <2>1
    <3> QED BY <1>3, <1>7, <2>1, <3>1
  <2>2. CASE Fresh(k2, n2)
    <3>1. Fresh(k1, n1)
      BY <1>6, <1>8, <1>10, <2>2
    <3> QED BY <1>3, <1>7, <2>2, <3>1
  <2>3. CASE ~Fresh(k1, n1) /\ ~Fresh(k2, n2)
    <3> HIDE DEF Fresh, Old
    <3>1. PICK a, b : Old(k1, n1, a, b) /\ Token(l, a, b)
      BY <1>6, <1>10, <2>3
    <3>2. PICK a2, b2 : Old(k2, n2, a2, b2) /\ Token(l, a2, b2)
      BY <1>6, <1>10, <2>3
    <3>3. a = a2 /\ b = b2
      BY <3>1, <3>2 DEF JoinOnce
    <3> QED BY <1>9, <1>10, <3>1, <3>2, <3>3
  <2> QED BY <2>1, <2>2, <2>3
<1>11. result'[l] = "success" => result[l] = "success" \/ (d[y][h] = 1 /\ Token(l, "answer", 1))
  <2>1. result'[l] = "success" => result[l] = "success" \/ (d[y][h] = 1 /\ IsAnswer(net[y][h][1], l))
    BY <1>1, <1>2 DEF Step, Succeeds
  <2>2. d[y][h] = 1 => 1 \in DOMAIN net[y][h]
    BY <1>3, <1>4, MessageLemma
  <2> QED BY <1>1, <1>2, <2>1, <2>2 DEF Token
<1>12. ASSUME NEW kind, NEW n, Token(l, kind, n)'
       PROVE  l \in used' /\ entry'[l][y].state # "DC_JT" /\ result'[l] # "success"
  <2>1. CASE Fresh(kind, n)
    <3>1. l \notin used => result[l] = "none"
      BY DEF IInv, WorldOK
    <3>2. entry[l][y].state = "DC_JT" => result[l] = "none"
      <4>1. WorldOK(l)
        BY DEF IInv
      <4> QED BY <1>3, <4>1 DEF WorldOK, Target
    <3>3. result[l] # "success"
      BY <2>1, <3>1, <3>2
    <3>4. ~Token(l, "answer", 1)
      BY <1>8, <2>1
    <3> QED BY <1>11, <2>1, <3>3, <3>4
  <2>2. CASE ~Fresh(kind, n)
    <3> HIDE DEF Fresh, Old
    <3>1. PICK a, b : Old(kind, n, a, b) /\ Token(l, a, b)
      BY <1>6, <1>12, <2>2
    <3>2. l \in used /\ entry[l][y].state # "DC_JT" /\ result[l] # "success"
      BY <1>1, <1>2, <3>1 DEF JoinOnce, Requested
    <3>3. TakesOK(l, entry[l][y], F[l][y], d[y][h], net[y][h][1]) /\ entry'[l][y] = F[l][y].info
      BY <1>2, <1>3, <1>4 DEF Fits, Step
    <3>4. entry'[l][y].state # "DC_JT"
      BY <3>2, <3>3 DEF TakesOK
    <3>5. ~(d[y][h] = 1 /\ Token(l, "answer", 1))
      <4> SUFFICES ASSUME d[y][h] = 1, Token(l, "answer", 1) PROVE FALSE
        OBVIOUS
      <4>1. a = "answer" /\ b = 1
        BY <3>1 DEF JoinOnce
      <4>2. n \in Nat \ {0} /\ 1 = n + 1
        BY <3>1, <4>1 DEF Old
      <4> QED BY <4>2
    <3> QED BY <1>4, <1>11, <3>2, <3>4, <3>5
  <2> QED BY <2>1, <2>2
<1>13. ASSUME NEW kind, NEW n, Token(l, kind, n)' PROVE Requested(l)'
  BY <1>1, <1>2, <1>12, <1>13 DEF Requested
<1> QED BY <1>10, <1>13 DEF JoinOnce

-----------------------------------------------------------------------------
(* From the effects of a handler to a step *)

\* The effects fx on the entries of l fit a step that takes the messages of d.
FitsAt(l, fx, d) ==
    \A y \in Peers :
        /\ Listed(fx[y].tx)
        /\ \A n \in DOMAIN fx[y].tx : SendsOK(l, y, entry[l][y], fx[y], fx[y].tx[n])
        /\ TakesOK(l, entry[l][y], fx[y], d[y][HostOf[l]], net[y][HostOf[l]][1])
        /\ fx[y].fault # "nilpeer"

\* Refusals may be sent at any time.
LEMMA RefusalLemma ==
    ASSUME NEW l \in Lsids, NEW y, NEW i, NEW e, NEW m, m.type \in Refusals
    PROVE  SendsOK(l, y, i, e, m)
  BY DEF SendsOK, WireOK, Wire, Refusals, Commits

\* An effect that only refuses, and takes no session, fits if it heeds a reset.
LEMMA PlainFits ==
    ASSUME NEW l \in Lsids, NEW y, NEW i, NEW e, Modest(i, e, Refusals, {}, {}), NEW took, NEW m,
           took = 1 /\ m.msg.type = "RST" /\ m.msg.rsid = l => e.info.state \notin Hears
    PROVE  /\ Listed(e.tx) /\ \A n \in DOMAIN e.tx : SendsOK(l, y, i, e, e.tx[n])
           /\ TakesOK(l, i, e, took, m)
           /\ e.fault # "nilpeer"
PROOF
<1>1. TakesOK(l, i, e, took, m)
  BY DEF Modest, TakesOK
<1>2. Listed(e.tx) /\ e.fault # "nilpeer" /\ \A n \in DOMAIN e.tx : e.tx[n].type \in Refusals
  BY DEF Modest
<1>3. \A n \in DOMAIN e.tx : SendsOK(l, y, i, e, e.tx[n])
  BY <1>2, RefusalLemma
<1> QED BY <1>1, <1>2, <1>3

\* A reset that the step takes is not meant for world k, or finds nothing there.
Unmoved(d, k) ==
    \A y \in Peers :
        LET m == net[y][HostOf[k]][1]
        IN  d[y][HostOf[k]] = 1 /\ m.msg.type = "RST" /\ m.msg.rsid = k => entry[k][y].state \notin Hears

\* A world whose entries are kept.
LEMMA KeepFits ==
    ASSUME NEW k \in Lsids, NEW d, Unmoved(d, k), NEW fx,
           \A y \in Peers : fx[y] = Keep(entry[k][y])
    PROVE  FitsAt(k, fx, d)
PROOF
<1> SUFFICES ASSUME NEW y \in Peers
             PROVE  /\ Listed(fx[y].tx)
                    /\ \A n \in DOMAIN fx[y].tx : SendsOK(k, y, entry[k][y], fx[y], fx[y].tx[n])
                    /\ TakesOK(k, entry[k][y], fx[y], d[y][HostOf[k]], net[y][HostOf[k]][1])
                    /\ fx[y].fault # "nilpeer"
  BY DEF FitsAt
<1> DEFINE i == entry[k][y]
           m == net[y][HostOf[k]][1]
           took == d[y][HostOf[k]]
           e == fx[y]
<1>1. e = Keep(i)
  OBVIOUS
<1>2. took = 1 /\ m.msg.type = "RST" /\ m.msg.rsid = k => i.state \notin Hears
  BY DEF Unmoved
<1> HIDE DEF i, m, took, e
<1>3. Modest(i, e, Refusals, {}, {}) /\ e.info = i
  BY <1>1, PartsModest DEF Keep, Effect
<1>4. /\ Listed(e.tx) /\ \A n \in DOMAIN e.tx : SendsOK(k, y, i, e, e.tx[n])
      /\ TakesOK(k, i, e, took, m)
      /\ e.fault # "nilpeer"
  BY <1>2, <1>3, PlainFits
<1> QED BY <1>4 DEF i, m, took, e

\* The effects of a call make a step.
LEMMA EffectsStep ==
    ASSUME fault = "none", NEW F, NEW d, Apply(F), Moves(F, d), \A k \in Lsids : FitsAt(k, F[k], d),
           used \subseteq used', \A h \in Peers : peers[h] \subseteq peers'[h], Succeeds(d)
    PROVE  Step(F, d) /\ fault' # "nilpeer"
PROOF
<1>1. \A l \in Lsids, y \in Peers : /\ entry'[l][y] = F[l][y].info
                                    /\ said'[l][y] = Say(said[l][y], F[l][y].tx)
  BY DEF Apply
<1>2. Fits(F, d)
  BY DEF Fits, FitsAt
<1>3. fault' # "nilpeer"
  BY DEF Apply, FaultOf, FitsAt
<1> QED BY <1>1, <1>2, <1>3 DEF Step

\* The same for a call of one world.
LEMMA FxStep ==
    ASSUME fault = "none", NEW l \in Lsids, NEW fx, NEW before, NEW d, Rests(before, d),
           Post(l, fx, before), Apply(OnWorld(l, fx)), FitsAt(l, fx, d),
           \A k \in Lsids \ {l} : Unmoved(d, k),
           used \subseteq used', \A h \in Peers : peers[h] \subseteq peers'[h], Succeeds(d)
    PROVE  Step(OnWorld(l, fx), d) /\ fault' # "nilpeer"
PROOF
<1> DEFINE F == OnWorld(l, fx)
<1>1. \A q \in Peers : Listed(fx[q].tx)
  BY DEF FitsAt
<1>2. Moves(F, d)
  BY <1>1, PostMoves
<1>3. F[l] = fx /\ \A k \in Lsids \ {l} : \A y \in Peers : F[k][y] = Keep(entry[k][y])
  BY DEF OnWorld
<1> HIDE DEF F
<1>4. \A k \in Lsids : FitsAt(k, F[k], d)
  <2> SUFFICES ASSUME NEW k \in Lsids PROVE FitsAt(k, F[k], d)
    OBVIOUS
  <2>1. CASE k = l
    BY <1>3, <2>1
  <2>2. CASE k # l
    <3>1. \A y \in Peers : F[k][y] = Keep(entry[k][y])
      BY <1>3, <2>2
    <3> QED BY <2>2, <3>1, KeepFits
  <2> QED BY <2>1, <2>2
<1>5. Apply(F)
  BY DEF F
<1>6. Step(F, d) /\ fault' # "nilpeer"
  BY <1>2, <1>4, <1>5, EffectsStep
<1> QED BY <1>6 DEF F

-----------------------------------------------------------------------------
(* Calls that take no message *)

\* The step has effects that fit, and does not meet the nil Peer of CRR_MEMS.
Regular == (\E F, d : Step(F, d)) /\ fault' # "nilpeer"

\* No world reports the success of its join in this step.
NoSuccess == \A k \in Lsids : JoinTo[k] # Nil /\ result'[k] = "success" => result[k] = "success"

\* The result after events that do not report a success.
LEMMA NoSuccessOutcome ==
    ASSUME NEW r, NEW fx, \A q \in Peers : ~Raises(fx[q].ev, "JoinSuccess"), Outcome(r, fx) = "success"
    PROVE  r = "success"
PROOF
<1> DEFINE Reports(type) == \E p \in Peers : Raises(fx[p].ev, type)
           win == Reports("JoinSuccess")
           lose == Reports("JoinFail")
<1>1. Outcome(r, fx) = IF ~win /\ ~lose THEN r
                       ELSE IF r # "none" \/ (win /\ lose) THEN "twice"
                       ELSE IF win THEN "success" ELSE "fail"
  BY DEF Outcome
<1>2. ~win
  OBVIOUS
<1> HIDE DEF win, lose
<1> QED BY <1>1, <1>2

\* Effects without JoinSuccess do not make a join succeed.
LEMMA NoSuccessLemma ==
    ASSUME IInv, NEW l \in Lsids, NEW fx, result' = [result EXCEPT ![l] = Outcome(@, fx)],
           \A q \in Peers : ~Raises(fx[q].ev, "JoinSuccess")
    PROVE  NoSuccess
PROOF
<1>1. PICK r : r = result[l]
  OBVIOUS
<1>2. Outcome(r, fx) = "success" => r = "success"
  BY NoSuccessOutcome
<1>3. result \in [Lsids -> {"none", "success", "fail", "twice"}]
  BY DEF IInv, TypeOK
<1> QED BY <1>1, <1>2, <1>3 DEF NoSuccess

\* What the invariants say of an entry of a live world of h.
LEMMA StateLemma ==
    ASSUME IInv, NInv, NEW l \in Lsids, NEW q \in Peers
    PROVE  /\ fault = "none" /\ LinksOK /\ Rests(net, NoTake)
           /\ HostOf[l] \in Peers /\ World(l).peers = entry[l] /\ World(l).join_hash = join_hash[l]
           /\ \A x \in Peers : World(l).peers[x] \in Info
           /\ entry[l][q].state \in Connected => q \in PeersOf(l) /\ q # HostOf[l]
           /\ l \in worlds /\ q \in PeersOf(l) => entry[l][q].state \in Connected
           /\ entry[l][q].state \in Held => entry[l][q].sid \in Sessions
           /\ worlds \subseteq used /\ used \subseteq Lsids
PROOF
<1>1. fault = "none" /\ LinksOK
  BY DEF NInv, CallsOK
<1>2. HostOf[l] \in Peers
  BY LsidAssumption, ClosedAssumption
<1>3. Rests(net, NoTake)
  BY <1>1, <1>2, RestsLemma
<1>4. World(l).peers = entry[l] /\ World(l).join_hash = join_hash[l]
  BY DEF World
<1>5. /\ \A x \in Peers : entry[l][x] \in Info
      /\ worlds \subseteq used /\ used \subseteq Lsids
  BY DEF IInv, TypeOK
<1>6. WorldOK(l) /\ EntryOK(entry[l][q], told[l][q], said[l][q], heard[l][q])
  BY DEF IInv
<1>7. /\ entry[l][q].state \in Connected => l \in worlds /\ q \in PeersOf(l)
      /\ l \in worlds /\ q \in PeersOf(l) => entry[l][q].state \in Connected
  BY <1>6 DEF WorldOK, Connected
<1>8. q \in PeersOf(l) => q # HostOf[l]
  BY <1>2 DEF NInv, CallsOK, PeersOf
<1>9. entry[l][q].state \in Held => entry[l][q].sid \in Sessions
  BY <1>5, <1>6 DEF EntryOK, Info, Held
<1> QED BY <1>1, <1>2, <1>3, <1>4, <1>5, <1>7, <1>8, <1>9

\* A call that takes no message, with modest effects.
LEMMA FreeStep ==
    ASSUME IInv, NInv, NEW l \in Lsids, NEW fx, Post(l, fx, net), Apply(OnWorld(l, fx)),
           used \subseteq used', \A h \in Peers : peers[h] \subseteq peers'[h], NoSuccess,
           \A y \in Peers :
              /\ Listed(fx[y].tx) /\ fx[y].fault # "nilpeer"
              /\ \A n \in DOMAIN fx[y].tx : SendsOK(l, y, entry[l][y], fx[y], fx[y].tx[n])
              /\ TakesOK(l, entry[l][y], fx[y], 0, net[y][HostOf[l]][1])
    PROVE  Regular
PROOF
<1>0. HostOf[l] \in Peers
  BY LsidAssumption, ClosedAssumption
<1>1. fault = "none" /\ Rests(net, NoTake) /\ HostOf[l] \in Peers
  BY <1>0, StateLemma
<1>2. \A x, y \in Peers : NoTake[x][y] = 0
  BY DEF NoTake
<1>3. \A k \in Lsids : HostOf[k] \in Peers
  BY LsidAssumption, ClosedAssumption
<1>4. FitsAt(l, fx, NoTake)
  BY <1>1, <1>2 DEF FitsAt
<1>5. \A k \in Lsids \ {l} : Unmoved(NoTake, k)
  BY <1>2, <1>3 DEF Unmoved
<1>6. Succeeds(NoTake)
  BY DEF Succeeds, NoSuccess
<1>7. Step(OnWorld(l, fx), NoTake) /\ fault' # "nilpeer"
  BY <1>1, <1>4, <1>5, <1>6, FxStep
<1> QED BY <1>7 DEF Regular

\* The same, for effects that only refuse.
LEMMA PlainStep ==
    ASSUME IInv, NInv, NEW l \in Lsids, NEW fx, Post(l, fx, net), Apply(OnWorld(l, fx)),
           used \subseteq used', \A h \in Peers : peers[h] \subseteq peers'[h], NoSuccess,
           NEW p, WModest(World(l), p, fx, Refusals, {}, {})
    PROVE  Regular
PROOF
<1>1. World(l).peers = entry[l]
  BY DEF World
<1>2. ASSUME NEW y \in Peers
      PROVE  /\ Listed(fx[y].tx) /\ fx[y].fault # "nilpeer"
             /\ \A n \in DOMAIN fx[y].tx : SendsOK(l, y, entry[l][y], fx[y], fx[y].tx[n])
             /\ TakesOK(l, entry[l][y], fx[y], 0, net[y][HostOf[l]][1])
  <2> DEFINE i == entry[l][y]
             e == fx[y]
             m == net[y][HostOf[l]][1]
             took == 0
  <2>1. Modest(i, e, Refusals, {}, {}) /\ took # 1
    BY <1>1 DEF WModest
  <2> HIDE DEF i, e, m, took
  <2>2. /\ Listed(e.tx) /\ \A n \in DOMAIN e.tx : SendsOK(l, y, i, e, e.tx[n])
        /\ TakesOK(l, i, e, took, m)
        /\ e.fault # "nilpeer"
    BY <2>1, PlainFits
  <2> QED BY <2>2 DEF i, e, m, took
<1> QED BY <1>2, FreeStep

\* The frame of a call.
LEMMA CallFrame ==
    ASSUME NEW l, NEW fx, Call(l, fx)
    PROVE  /\ Apply(OnWorld(l, fx)) /\ used \subseteq used' /\ l \in worlds
           /\ \A h \in Peers : peers[h] \subseteq peers'[h]
           /\ result' = [result EXCEPT ![l] = Outcome(@, fx)]
  BY DEF Call

\* An application that declines or leaves.
LEMMA RefuseSteps ==
    ASSUME IInv, NInv, NEW l \in Lsids, NEW p \in Peers, NEW s \in Sessions,
           Decline(l, p, s) \/ Leave(l)
    PROVE  Regular /\ Next
PROOF
<1>0. fault = "none" /\ \A x \in Peers : World(l).peers[x] \in Info
  BY StateLemma
<1>1. CASE Decline(l, p, s)
  <2> DEFINE fx == DeclineSession(World(l), p, s)
  <2>1. DeclineSessionCall(l, p, s) /\ Call(l, fx) /\ Post(l, fx, net) /\ Exposed(l)
    BY <1>1 DEF Decline, DeclineSessionCall, Asked
  <2>2. WModest(World(l), p, fx, Refusals, {}, {})
    BY <1>0, PlainHandlers
  <2> HIDE DEF fx
  <2>3. /\ Apply(OnWorld(l, fx)) /\ used \subseteq used'
        /\ \A h \in Peers : peers[h] \subseteq peers'[h]
        /\ result' = [result EXCEPT ![l] = Outcome(@, fx)]
    BY <2>1, CallFrame
  <2>4. \A q \in Peers : ~Raises(fx[q].ev, "JoinSuccess")
    BY <2>2 DEF WModest, Modest
  <2>5. NoSuccess
    BY <2>3, <2>4, NoSuccessLemma
  <2>6. Regular
    BY <2>1, <2>2, <2>3, <2>5, PlainStep
  <2>7. Next
    BY <1>0, <2>1 DEF Next, Application
  <2> QED BY <2>6, <2>7
<1>2. CASE Leave(l)
  <2> DEFINE fx == Close(World(l))
  <2>1. CloseWorld(l) /\ Post(l, fx, net)
    BY <1>2 DEF Leave
  <2>2. WModest(World(l), p, fx, Refusals, {}, {})
    BY CloseModest
  <2>3. /\ Apply(OnWorld(l, fx)) /\ used \subseteq used'
        /\ \A h \in Peers : peers[h] \subseteq peers'[h]
        /\ result' = [result EXCEPT ![l] = Outcome(@, fx)]
    BY <2>1 DEF CloseWorld
  <2> HIDE DEF fx
  <2>4. \A q \in Peers : ~Raises(fx[q].ev, "JoinSuccess")
    BY <2>2 DEF WModest, Modest
  <2>5. NoSuccess
    BY <2>3, <2>4, NoSuccessLemma
  <2>6. Regular
    BY <2>1, <2>2, <2>3, <2>5, PlainStep
  <2>7. Next
    BY <1>0, <2>1 DEF Next, Application
  <2> QED BY <2>6, <2>7
<1> QED BY <1>1, <1>2

\* A world that is opened.
LEMMA OpenStep ==
    ASSUME IInv, NInv, NEW l \in Lsids, Open(l)
    PROVE  Regular /\ Next
PROOF
<1> DEFINE fx == OpenEntries(PeersOf(l))
<1>0. HostOf[l] \in Peers
  BY LsidAssumption, ClosedAssumption
<1>1. fault = "none" /\ World(l).peers = entry[l] /\ worlds \subseteq used
  BY <1>0, StateLemma
<1>2. OpenWorld(l) /\ Post(l, fx, net) /\ JoinTo[l] = Nil
  BY DEF Open
<1>3. /\ l \notin used /\ Apply(OnWorld(l, fx)) /\ used \subseteq used'
      /\ \A h \in Peers : peers[h] \subseteq peers'[h]
      /\ \A k \in Lsids : k # l => result'[k] = result[k]
  BY <1>2 DEF OpenWorld, IInv, TypeOK
<1>4. NoSuccess
  BY <1>2, <1>3 DEF NoSuccess
<1>5. WModest(World(l), HostOf[l], fx, Refusals, {}, {})
  <2>1. \A q \in Peers : Modest(Absent, fx[q], Refusals, {}, {})
    BY NewEntriesModest
  <2>2. \A q \in Peers : entry[l][q].state = "Absent"
    BY <1>1, <1>3 DEF IInv, WorldOK
  <2> HIDE DEF fx
  <2>3. \A q \in Peers : Modest(entry[l][q], fx[q], Refusals, {}, {})
    BY <2>1, <2>2 DEF Modest, Absent, NewANDPeerSessionState, Hears
  <2> QED BY <1>1, <2>3 DEF WModest
<1> HIDE DEF fx
<1>6. Regular
  BY <1>2, <1>3, <1>4, <1>5, PlainStep
<1>7. Next
  BY <1>1, <1>2 DEF Next, Application
<1> QED BY <1>6, <1>7

\* A world that joins: the request is sent at once, or the target is noted.
LEMMA JoinWorldNet ==
    ASSUME IInv, NInv, NEW l \in Lsids, Join(l)
    PROVE  Regular /\ Next
PROOF
<1>1. PICK p : p = HostOf[JoinTo[l]]
  OBVIOUS
<1> DEFINE fx == JoinEntries(p, PeersOf(l))
<1>2. JoinWorld(l, p) /\ Post(l, fx, net) /\ JoinTo[l] # Nil
  BY <1>1 DEF Join
<1>3. p \in Peers /\ HostOf[l] \in Peers
  BY <1>1, <1>2, JoinAssumption, LsidAssumption, ClosedAssumption
<1>4. fault = "none" /\ World(l).peers = entry[l] /\ worlds \subseteq used
  BY <1>3, StateLemma
<1>5. /\ l \notin used /\ Apply(OnWorld(l, fx)) /\ used' = used \cup {l} /\ result' = result
      /\ \A h \in Peers : peers[h] \subseteq peers'[h]
  BY <1>2 DEF JoinWorld
<1>6. NoSuccess
  BY <1>5 DEF NoSuccess
<1>7. ASSUME NEW y \in Peers
      PROVE  /\ Listed(fx[y].tx) /\ fx[y].fault # "nilpeer"
             /\ \A n \in DOMAIN fx[y].tx : SendsOK(l, y, entry[l][y], fx[y], fx[y].tx[n])
             /\ TakesOK(l, entry[l][y], fx[y], 0, net[y][HostOf[l]][1])
  <2> DEFINE i == entry[l][y]
             e == fx[y]
             m == net[y][HostOf[l]][1]
             took == 0
  <2>1. i.state = "Absent" /\ took # 1
    BY <1>4, <1>5 DEF IInv, WorldOK
  <2>2. CASE y # p
    <3>1. Modest(Absent, e, Refusals, {}, {})
      BY <2>2, NewEntriesModest
    <3> HIDE DEF i, e, m, took, fx
    <3>2. Modest(i, e, Refusals, {}, {})
      BY <2>1, <3>1 DEF Modest, Absent, NewANDPeerSessionState, Hears
    <3>3. /\ Listed(e.tx) /\ \A n \in DOMAIN e.tx : SendsOK(l, y, i, e, e.tx[n])
          /\ TakesOK(l, i, e, took, m)
          /\ e.fault # "nilpeer"
      BY <2>1, <3>2, PlainFits
    <3> QED BY <3>3 DEF i, e, m, took
  <2>3. CASE y = p
    <3>1. /\ e.info.state \in Target /\ e.fault = "none"
          /\ \/ e.tx = <<>>
             \/ e.tx = <<Msg("JN", Nil)>> /\ e.info.state = "JT"
      BY <2>3, NewEntriesModest
    <3> HIDE DEF i, e, m, took, fx
    <3>2. TakesOK(l, i, e, took, m)
      BY <1>5, <2>1, <3>1 DEF TakesOK, Target, Hears
    <3>3. /\ Listed(e.tx)
          /\ \A n \in DOMAIN e.tx : /\ e.tx[n].type = "JN" /\ Len(e.tx) = 1 /\ e.info.state = "JT"
      <4>1. CASE e.tx = <<>>
        BY <4>1, ListedLemma
      <4>2. CASE e.tx = <<Msg("JN", Nil)>> /\ e.info.state = "JT"
        <5>1. PICK g : g = Msg("JN", Nil)
          OBVIOUS
        <5>2. g.type = "JN" /\ e.tx = <<g>>
          BY <4>2, <5>1 DEF Msg
        <5> QED BY <4>2, <5>2, ListedLemma
      <4> QED BY <3>1, <4>1, <4>2
    <3>4. ASSUME NEW n \in DOMAIN e.tx PROVE SendsOK(l, y, i, e, e.tx[n])
      <4> DEFINE g == e.tx[n]
      <4>1. g.type = "JN" /\ Len(e.tx) = 1 /\ e.info.state = "JT"
        BY <3>3
      <4> HIDE DEF g
      <4>2. WireOK(HostOf[l], y, Wire(l, g))
        BY <1>1, <1>2, <2>3, <4>1 DEF WireOK, Wire, Commits
      <4>3. SendsOK(l, y, i, e, g)
        BY <1>5, <4>1, <4>2 DEF SendsOK, Commits
      <4> QED BY <4>3 DEF g
    <3>5. e.fault # "nilpeer"
      BY <3>1
    <3> QED BY <3>2, <3>3, <3>4, <3>5 DEF i, e, m, took
  <2> QED BY <2>2, <2>3
<1> HIDE DEF fx
<1>8. used \subseteq used'
  BY <1>5
<1>9. Regular
  BY <1>2, <1>5, <1>6, <1>7, <1>8, FreeStep
<1>10. Next
  BY <1>2, <1>3, <1>4 DEF Next, Application
<1> QED BY <1>9, <1>10

\* The application accepts: the commitment goes to a session of the peer, a JOK to
\* the one that has asked for it, and the lists name members.
LEMMA AcceptStep ==
    ASSUME IInv, NInv, NEW l \in Lsids, NEW p \in Peers, NEW s \in Sessions, Accept(l, p, s)
    PROVE  Regular /\ Next
PROOF
<1> DEFINE w == World(l)
           fx == AcceptSession(w, p, s)
           h == HostOf[l]
           members == {q \in Peers : w.peers[q].state = "MEM"}
           list == [r \in members |-> w.peers[r].sid]
<1>0. fault = "none" /\ h \in Peers /\ w.peers = entry[l] /\ \A x \in Peers : w.peers[x] \in Info
  BY StateLemma
<1>1. AcceptSessionCall(l, p, s) /\ Call(l, fx) /\ Post(l, fx, net) /\ Exposed(l)
  BY DEF Accept, AcceptSessionCall, Asked
<1>2. /\ WModest(w, p, fx, {"JOK", "MEM", "JNI"}, {}, {})
      /\ \A q \in Peers : \A n \in DOMAIN fx[q].tx : Accepts(w, p, q, fx[q], fx[q].tx[n])
  BY <1>0, AcceptModest
<1>3. list \in ListsOf(h)
  <2>1. \A q \in members : q \in Peers /\ q # h /\ w.peers[q].sid \in Sessions
    <3> SUFFICES ASSUME NEW q \in Peers, entry[l][q].state = "MEM"
                 PROVE  q # h /\ entry[l][q].sid \in Sessions
      BY <1>0
    <3> QED BY StateLemma DEF Connected, Held
  <2>2. members \in SUBSET (Peers \ {h}) /\ list \in [members -> Sessions]
    BY <2>1
  <2> HIDE DEF members, list
  <2> QED BY <2>2 DEF ListsOf
<1>4. /\ entry[l][p].state \in {"JN", "JNI", "RMEM"} => entry[l][p].sid \in Lsids
      /\ entry[l][p].state = "JN" => HostOf[entry[l][p].sid] = p /\ JoinTo[entry[l][p].sid] = l
  <2>1. entry[l][p].state \in {"JN", "JNI", "RMEM"} => entry[l][p].sid \in Sessions
    BY StateLemma DEF Held
  <2>2. entry[l][p].state = "JN" => HostOf[entry[l][p].sid] = p /\ JoinTo[entry[l][p].sid] = l
    BY DEF NInv, EntriesOK
  <2> QED BY <2>1, <2>2, ClosedAssumption
<1> HIDE DEF fx, list, members
<1>5. /\ Apply(OnWorld(l, fx)) /\ used \subseteq used'
      /\ \A x \in Peers : peers[x] \subseteq peers'[x]
      /\ result' = [result EXCEPT ![l] = Outcome(@, fx)]
  BY <1>1, CallFrame
<1>6. NoSuccess
  <2>1. \A q \in Peers : ~Raises(fx[q].ev, "JoinSuccess")
    BY <1>2 DEF WModest, Modest
  <2> QED BY <1>5, <2>1, NoSuccessLemma
<1>7. ASSUME NEW y \in Peers
      PROVE  /\ Listed(fx[y].tx) /\ fx[y].fault # "nilpeer"
             /\ \A n \in DOMAIN fx[y].tx : SendsOK(l, y, entry[l][y], fx[y], fx[y].tx[n])
             /\ TakesOK(l, entry[l][y], fx[y], 0, net[y][HostOf[l]][1])
  <2> DEFINE i == entry[l][y]
             j == entry[l][p]
             e == fx[y]
  <2>1. Modest(i, e, {"JOK", "MEM", "JNI"}, {}, {})
    BY <1>0, <1>2 DEF WModest
  <2>2. j = w.peers[p]
    BY <1>0
  <2> HIDE DEF i, e, j, w
  <2>3. TakesOK(l, i, e, 0, net[y][HostOf[l]][1])
    BY <2>1 DEF Modest, TakesOK
  <2>4. Listed(e.tx) /\ e.fault # "nilpeer"
    BY <2>1 DEF Modest
  <2>5. ASSUME NEW n \in DOMAIN e.tx PROVE SendsOK(l, y, i, e, e.tx[n])
    <3> DEFINE m == e.tx[n]
    <3>1. \/ /\ m.type = "JOK" /\ y = p /\ j.state = "JN" /\ e.info.state = "TMEM"
             /\ m.mems = list /\ m.rsid = j.sid /\ Len(e.tx) = 1
          \/ /\ m.type = "MEM" /\ y = p /\ j.state \in {"JNI", "RMEM"}
             /\ m.rsid = j.sid /\ Len(e.tx) = 1
          \/ m.type = "JNI" /\ y # p /\ m.peer = p /\ m.sid = j.sid /\ j.state = "JN"
      BY <1>2, <2>2 DEF e, Accepts, list, members
    <3>2. y = p => i = j
      BY DEF i, j
    <3>3. /\ j.state \in {"JN", "JNI", "RMEM"} => j.sid \in Lsids /\ j.sid \in Sessions
          /\ j.state = "JN" => HostOf[j.sid] = p /\ JoinTo[j.sid] = l
      BY <1>4, ClosedAssumption DEF j
    <3> HIDE DEF m
    <3>4. WireOK(h, y, Wire(l, m))
      <4>1. /\ Wire(l, m).msg = m /\ Wire(l, m).ssid = l
        BY DEF Wire
      <4>2. CASE m.type = "JOK"
        BY <1>3, <3>1, <3>3, <4>1, <4>2 DEF WireOK, Commits
      <4>3. CASE m.type = "MEM"
        BY <3>1, <3>3, <4>1, <4>3 DEF WireOK, Commits
      <4>4. CASE m.type = "JNI"
        BY <3>1, <3>3, <4>1, <4>4 DEF WireOK, Commits
      <4> QED BY <3>1, <4>2, <4>3, <4>4
    <3>5. SendsOK(l, y, i, e, m)
      BY <3>1, <3>2, <3>4 DEF SendsOK, Commits
    <3> QED BY <3>5 DEF m
  <2> QED BY <2>3, <2>4, <2>5 DEF i, e
<1>8. Regular
  BY <1>1, <1>5, <1>6, <1>7, FreeStep
<1>9. Next
  BY <1>0, <1>1 DEF Next, Application
<1> QED BY <1>8, <1>9

\* The timer of a world that was opened.
LEMMA AnnounceStep ==
    ASSUME IInv, NInv, NEW l \in Lsids, NEW old \in SUBSET Peers, Announce(l, old)
    PROVE  Regular /\ Next
PROOF
<1> DEFINE w == World(l)
           fx == TimerExpire(w, old)
           h == HostOf[l]
           sjn == {q \in old : Announces(w.peers[q])}
           list == [r \in sjn |-> w.peers[r].sid]
<1>0. h \in Peers
  BY LsidAssumption, ClosedAssumption
<1>1. fault = "none" /\ w.peers = entry[l] /\ \A x \in Peers : w.peers[x] \in Info
  BY <1>0, StateLemma
<1>2. TimerExpireCall(l, old) /\ Call(l, fx) /\ Post(l, fx, net) /\ JoinTo[l] = Nil
  BY DEF Announce, TimerExpireCall
<1>3. /\ WModest(w, h, fx, {"SJN"}, {}, {})
      /\ \A q \in Peers : \A n \in DOMAIN fx[q].tx : fx[q].tx[n].mems = list
  BY <1>0, <1>1, TimerModest
<1>4. list \in ListsOf(h) /\ DOMAIN list \subseteq peers[h]
  <2>1. \A q \in sjn : q \in Peers /\ q \in PeersOf(l) /\ q # h /\ w.peers[q].sid \in Sessions
    <3> SUFFICES ASSUME NEW q \in Peers, entry[l][q].state = "MEM"
                 PROVE  q \in PeersOf(l) /\ q # h /\ entry[l][q].sid \in Sessions
      BY <1>1 DEF Announces
    <3> QED BY StateLemma DEF Connected, Held
  <2>2. /\ sjn \in SUBSET (Peers \ {h}) /\ list \in [sjn -> Sessions]
        /\ sjn \subseteq peers[h] /\ DOMAIN list = sjn
    BY <2>1 DEF PeersOf
  <2> HIDE DEF sjn, list
  <2> QED BY <2>2 DEF ListsOf
<1>5. join_hash[l] = Nil
  BY <1>2 DEF NInv, CallsOK
<1> HIDE DEF fx, list, sjn
<1>6. /\ Apply(OnWorld(l, fx)) /\ used \subseteq used'
      /\ \A x \in Peers : peers[x] \subseteq peers'[x]
      /\ result' = [result EXCEPT ![l] = Outcome(@, fx)]
  BY <1>2, CallFrame
<1>7. NoSuccess
  <2>1. \A q \in Peers : ~Raises(fx[q].ev, "JoinSuccess")
    BY <1>3 DEF WModest, Modest
  <2> QED BY <1>6, <2>1, NoSuccessLemma
<1>8. ASSUME NEW y \in Peers
      PROVE  /\ Listed(fx[y].tx) /\ fx[y].fault # "nilpeer"
             /\ \A n \in DOMAIN fx[y].tx : SendsOK(l, y, entry[l][y], fx[y], fx[y].tx[n])
             /\ TakesOK(l, entry[l][y], fx[y], 0, net[y][HostOf[l]][1])
  <2> DEFINE i == entry[l][y]
             e == fx[y]
  <2>1. Modest(i, e, {"SJN"}, {}, {}) /\ \A n \in DOMAIN e.tx : e.tx[n].mems = list
    BY <1>1, <1>3 DEF WModest
  <2> HIDE DEF i, e, w
  <2>2. TakesOK(l, i, e, 0, net[y][HostOf[l]][1])
    BY <2>1 DEF Modest, TakesOK
  <2>3. Listed(e.tx) /\ e.fault # "nilpeer"
    BY <2>1 DEF Modest
  <2>4. ASSUME NEW n \in DOMAIN e.tx PROVE SendsOK(l, y, i, e, e.tx[n])
    <3> DEFINE m == e.tx[n]
    <3>1. m.type = "SJN" /\ m.mems = list
      BY <2>1 DEF Modest
    <3> HIDE DEF m
    <3>2. WireOK(h, y, Wire(l, m))
      <4>1. /\ Wire(l, m).msg = m /\ Wire(l, m).ssid = l
        BY DEF Wire
      <4> QED BY <1>4, <3>1, <4>1 DEF WireOK, Commits
    <3>3. SendsOK(l, y, i, e, m)
      BY <3>1, <3>2 DEF SendsOK, Commits
    <3> QED BY <3>3 DEF m
  <2> QED BY <2>2, <2>3, <2>4 DEF i, e
<1>9. Regular
  BY <1>2, <1>6, <1>7, <1>8, FreeStep
<1>10. Next
  BY <1>1, <1>2, <1>5 DEF Next, Timers
<1> QED BY <1>9, <1>10

-----------------------------------------------------------------------------
(* Loops over the worlds of a host, and messages *)

\* Which link the step takes a message from.
LEMMA TookLemma ==
    ASSUME NEW p \in Peers, NEW h \in Peers
    PROVE  \A x, y \in Peers : /\ NoTake[x][y] = 0
                               /\ OneTake(p, h)[x][y] = IF x = p /\ y = h THEN 1 ELSE 0
  BY DEF NoTake, OneTake

\* F is a loop over the worlds of h, with effects e[k] on their entries for p.
Loops(F, h, p, e) ==
    \A k \in Lsids : \A y \in Peers :
        F[k][y] = IF k \in worlds /\ HostOf[k] = h /\ y = p THEN e[k] ELSE Keep(entry[k][y])

\* Each of the effects fits a step that takes d from the link of p.
EachFits(h, p, e, d) ==
    \A k \in Lsids : HostOf[k] = h /\ k \in worlds =>
        /\ e[k].fault # "nilpeer"
        /\ e[k].tx = <<>> \/ \E m : e[k].tx = <<m>>
        /\ \A n \in DOMAIN e[k].tx : SendsOK(k, p, entry[k][p], e[k], e[k].tx[n])
        /\ TakesOK(k, entry[k][p], e[k], d[p][h], net[p][h][1])

LEMMA OnWorldsLemma ==
    ASSUME NEW h, NEW p \in Peers, NEW e
    PROVE  Loops(OnWorlds(h, [k \in Lsids |-> At(World(k), p, e[k])]), h, p, e)
PROOF
<1> SUFFICES ASSUME NEW k \in Lsids, NEW y \in Peers
             PROVE  OnWorlds(h, [n \in Lsids |-> At(World(n), p, e[n])])[k][y] =
                       IF k \in worlds /\ HostOf[k] = h /\ y = p THEN e[k] ELSE Keep(entry[k][y])
  BY DEF Loops
<1>1. World(k).peers = entry[k]
  BY DEF World
<1>2. At(World(k), p, e[k])[y] = IF y = p THEN e[k] ELSE Keep(entry[k][y])
  BY <1>1 DEF At
<1>3. OnWorlds(h, [n \in Lsids |-> At(World(n), p, e[n])])[k] =
         IF k \in worlds /\ HostOf[k] = h THEN At(World(k), p, e[k])
         ELSE [q \in Peers |-> Keep(entry[k][q])]
  BY DEF OnWorlds
<1> QED BY <1>2, <1>3

LEMMA KeepLemma ==
    \A i : Keep(i).tx = <<>> /\ Keep(i).info = i /\ Keep(i).ev = <<>> /\ Keep(i).fault = "none"
  BY DEF Keep, Effect

\* Such a loop is a step.
LEMMA LoopStep ==
    ASSUME fault = "none", NEW h \in Peers, NEW p \in Peers, NEW F, NEW e, NEW d, NEW before,
           Loops(F, h, p, e), EachFits(h, p, e, d), \A k \in Lsids : Unmoved(d, k),
           Rests(before, d), PostEach(h, p, F, before), Apply(F), used \subseteq used',
           \A x \in Peers : peers[x] \subseteq peers'[x], NoSuccess
    PROVE  Regular
PROOF
<1>1. ASSUME NEW k \in Lsids, NEW y \in Peers, ~(k \in worlds /\ HostOf[k] = h /\ y = p)
      PROVE  F[k][y] = Keep(entry[k][y]) /\ F[k][y].tx = <<>>
  <2>1. F[k][y] = Keep(entry[k][y])
    BY <1>1 DEF Loops
  <2> QED BY <2>1, KeepLemma
<1>2. ASSUME NEW k \in Lsids, k \in worlds, HostOf[k] = h
      PROVE  /\ F[k][p] = e[k] /\ e[k].fault # "nilpeer"
             /\ e[k].tx = <<>> \/ \E m : e[k].tx = <<m>>
             /\ \A n \in DOMAIN e[k].tx : SendsOK(k, p, entry[k][p], e[k], e[k].tx[n])
             /\ TakesOK(k, entry[k][p], e[k], d[p][h], net[p][h][1])
  BY <1>2 DEF Loops, EachFits
<1>3. \A k \in Lsids, y \in Peers : y # p \/ HostOf[k] # h => F[k][y].tx = <<>>
  BY <1>1
<1>4. \A k \in Lsids : F[k][p].tx = <<>> \/ \E m : F[k][p].tx = <<m>>
  BY <1>1, <1>2
<1>5. Moves(F, d)
  BY <1>3, <1>4, PostEachMoves
<1>6. ASSUME NEW k \in Lsids PROVE FitsAt(k, F[k], d)
  <2>1. PICK fx : fx = [y \in Peers |-> Keep(entry[k][y])]
    OBVIOUS
  <2>2. \A y \in Peers : fx[y] = Keep(entry[k][y])
    BY <2>1
  <2>3. FitsAt(k, fx, d)
    BY <2>2, KeepFits
  <2>4. ASSUME NEW y \in Peers
        PROVE  /\ Listed(F[k][y].tx)
               /\ \A n \in DOMAIN F[k][y].tx : SendsOK(k, y, entry[k][y], F[k][y], F[k][y].tx[n])
               /\ TakesOK(k, entry[k][y], F[k][y], d[y][HostOf[k]], net[y][HostOf[k]][1])
               /\ F[k][y].fault # "nilpeer"
    <3>1. CASE k \in worlds /\ HostOf[k] = h /\ y = p
      <4>1. F[k][y] = e[k]
        BY <1>2, <3>1
      <4>2. Listed(e[k].tx)
        <5>1. e[k].tx = <<>> \/ \E m : e[k].tx = <<m>>
          BY <1>2, <3>1
        <5> QED BY <5>1, ListedLemma
      <4> QED BY <1>2, <3>1, <4>1, <4>2
    <3>2. CASE ~(k \in worlds /\ HostOf[k] = h /\ y = p)
      <4>1. F[k][y] = fx[y]
        BY <1>1, <2>2, <3>2
      <4> QED BY <2>3, <4>1 DEF FitsAt
    <3> QED BY <3>1, <3>2
  <2> QED BY <2>4 DEF FitsAt
<1>7. Succeeds(d)
  BY DEF Succeeds, NoSuccess
<1>8. Step(F, d) /\ fault' # "nilpeer"
  BY <1>5, <1>6, <1>7, EffectsStep
<1> QED BY <1>8 DEF Regular

\* A peer connects, and is sent the join requests that waited for it.
LEMMA ConnectStep ==
    ASSUME IInv, NInv, NEW h \in Peers, NEW p \in Peers, Connect(h, p)
    PROVE  Regular /\ Next
PROOF
<1>1. PICK e : e = [k \in Lsids |-> ConnectPeer(entry[k][p])]
  OBVIOUS
<1>2. PICK F : F = OnWorlds(h, [k \in Lsids |-> At(World(k), p, ConnectPeer(entry[k][p]))])
  OBVIOUS
<1>3. F = OnWorlds(h, [k \in Lsids |-> At(World(k), p, e[k])])
  <2>1. \A k \in Lsids : e[k] = ConnectPeer(entry[k][p])
    BY <1>1
  <2>2. [k \in Lsids |-> At(World(k), p, e[k])] = [k \in Lsids |-> At(World(k), p, ConnectPeer(entry[k][p]))]
    BY <2>1
  <2> QED BY <1>2, <2>2
<1>4. Loops(F, h, p, e)
  BY <1>3, OnWorldsLemma
<1>5. p \notin peers[h] /\ PeerConnected(h, p) /\ PostEach(h, p, F, net)
  BY <1>2 DEF Connect
<1>6. /\ Apply(F) /\ used \subseteq used' /\ result' = result
      /\ \A x \in Peers : peers[x] \subseteq peers'[x]
  <2>1. Apply(F) /\ used' = used /\ result' = result /\ peers' = [peers EXCEPT ![h] = @ \cup {p}]
    BY <1>2, <1>5 DEF PeerConnected
  <2>2. peers \in [Peers -> SUBSET Peers]
    BY ClosedAssumption DEF IInv, TypeOK
  <2> QED BY <2>1, <2>2
<1>7. NoSuccess
  BY <1>6 DEF NoSuccess
<1>8. Rests(net, NoTake) /\ fault = "none"
  BY RestsLemma DEF NInv, CallsOK
<1>9. \A k \in Lsids : HostOf[k] \in Peers
  BY LsidAssumption, ClosedAssumption
<1>10. \A k \in Lsids : Unmoved(NoTake, k)
  BY <1>9, TookLemma DEF Unmoved
<1>11. ASSUME NEW k \in Lsids, HostOf[k] = h, k \in worlds
       PROVE  /\ e[k].fault # "nilpeer"
              /\ e[k].tx = <<>> \/ \E m : e[k].tx = <<m>>
              /\ \A n \in DOMAIN e[k].tx : SendsOK(k, p, entry[k][p], e[k], e[k].tx[n])
              /\ TakesOK(k, entry[k][p], e[k], NoTake[p][h], net[p][h][1])
  <2> DEFINE i == entry[k][p]
             c == e[k]
             took == NoTake[p][h]
             g == net[p][h][1]
  <2>1. c = ConnectPeer(i) /\ i \in Info /\ took = 0 /\ k \in used'
    BY <1>1, <1>6, <1>11, TookLemma DEF IInv, TypeOK
  <2>2. WorldOK(k) /\ CallsOK
    BY DEF IInv, NInv
  <2>3. i.state = "DC_JT" => JoinTo[k] # Nil /\ HostOf[JoinTo[k]] = p
    BY <1>11, <2>2, NilAssumption DEF WorldOK, Target, CallsOK
  <2> HIDE DEF i, c, took, g
  <2>4. CASE i.state # "DC_JT"
    <3>1. Modest(i, c, Refusals, {}, {})
      BY <2>1, <2>4, ConnectModest
    <3>2. c.tx = <<>>
      BY <2>1, <2>4 DEF ConnectPeer, Keep, Effect, Fault
    <3>3. took # 1
      BY <2>1
    <3>4. /\ \A n \in DOMAIN c.tx : SendsOK(k, p, i, c, c.tx[n])
          /\ TakesOK(k, i, c, took, g)
          /\ c.fault # "nilpeer"
      BY <3>1, <3>3, PlainFits
    <3> QED BY <3>2, <3>4 DEF i, c, took, g
  <2>5. CASE i.state = "DC_JT"
    <3>1. c.tx = <<Msg("JN", Nil)>> /\ c.info.state = "JT" /\ c.fault = "none"
      BY <2>1, <2>5, ConnectModest
    <3>2. PICK m : m = Msg("JN", Nil)
      OBVIOUS
    <3>3. m.type = "JN" /\ c.tx = <<m>>
      BY <3>1, <3>2 DEF Msg
    <3>4. Len(c.tx) = 1 /\ \A n \in DOMAIN c.tx : c.tx[n] = m
      BY <3>3, ListedLemma
    <3>5. WireOK(h, p, Wire(k, m))
      BY <1>11, <2>3, <2>5, <3>3 DEF WireOK, Wire, Commits
    <3>6. SendsOK(k, p, i, c, m)
      BY <1>11, <2>1, <2>5, <3>1, <3>3, <3>4, <3>5 DEF SendsOK, Commits
    <3>7. TakesOK(k, i, c, took, g)
      BY <2>1, <3>1 DEF TakesOK, Hears
    <3>8. c.fault # "nilpeer"
      BY <3>1
    <3> QED BY <3>3, <3>4, <3>6, <3>7, <3>8 DEF i, c, took, g
  <2> QED BY <2>4, <2>5
<1>12. EachFits(h, p, e, NoTake)
  BY <1>11 DEF EachFits
<1>13. Regular
  BY <1>4, <1>5, <1>6, <1>7, <1>8, <1>10, <1>12, LoopStep
<1>14. Next
  BY <1>5, <1>8, ClosedAssumption DEF Next, Connections
<1> QED BY <1>13, <1>14

\* A message that changes no entry: it is lost, or a join request is denied.
Still == [k \in Lsids |-> [q \in Peers |-> Keep(entry[k][q])]]

LEMMA StillStep ==
    ASSUME IInv, NInv, NEW d, Moves(Still, d), \A k \in Lsids : Unmoved(d, k), UNCHANGED vars
    PROVE  Regular
PROOF
<1>1. PICK F : F = Still
  OBVIOUS
<1>2. \A k \in Lsids : \A y \in Peers : F[k][y] = Keep(entry[k][y])
  BY <1>1 DEF Still
<1>3. \A k \in Lsids : FitsAt(k, F[k], d)
  BY <1>2, KeepFits
<1>4. Fits(F, d)
  BY <1>3 DEF Fits, FitsAt
<1>5. entry' = entry /\ said' = said /\ used' = used /\ peers' = peers /\ result' = result /\ fault' = fault
  BY DEF vars, code, history
<1>6. \A l \in Lsids, y \in Peers : /\ entry'[l][y] = F[l][y].info
                                    /\ said'[l][y] = Say(said[l][y], F[l][y].tx)
  BY <1>2, <1>5, KeepLemma, SayLemma
<1>7. Succeeds(d)
  BY <1>5 DEF Succeeds
<1>8. Step(F, d)
  BY <1>1, <1>4, <1>5, <1>6, <1>7 DEF Step
<1>9. fault' # "nilpeer"
  BY <1>5 DEF NInv, CallsOK
<1> QED BY <1>8, <1>9 DEF Regular

\* The links afterwards: g is all that h may add, for p.
Adds(h, p, before, g) == net' = before \/ net' = [before EXCEPT ![h][p] = Append(@, g)]

LEMMA StillMoves ==
    ASSUME NEW before, NEW d, Rests(before, d), NEW h \in Peers, NEW p \in Peers, NEW g, g.msg.type = "JDN",
           Adds(h, p, before, g)
    PROVE  Moves(Still, d)
PROOF
<1>0. net' = before \/ net' = [before EXCEPT ![h][p] = Append(@, g)]
  BY DEF Adds
<1>1. PICK F : F = Still
  OBVIOUS
<1>2. \A k \in Lsids, y \in Peers : F[k][y].tx = <<>>
  BY <1>1, KeepLemma DEF Still
<1>3. /\ before = [x \in Peers |-> [y \in Peers |-> before[x][y]]]
      /\ \A x, y \in Peers :
            /\ d[x][y] \in {0, 1} /\ d[x][y] <= Len(net[x][y])
            /\ Listed(before[x][y]) /\ Len(before[x][y]) = Len(net[x][y]) - d[x][y]
            /\ \A n \in 1..Len(before[x][y]) : before[x][y][n] = net[x][y][n + d[x][y]]
  BY DEF Rests
<1>4. /\ net' = [x \in Peers |-> [y \in Peers |-> net'[x][y]]]
      /\ \A x, y \in Peers : \/ net'[x][y] = before[x][y]
                             \/ net'[x][y] = Append(before[x][y], g)
  <2>1. CASE net' = before
    BY <1>3, <2>1
  <2>2. CASE net' = [before EXCEPT ![h][p] = Append(@, g)]
    <3>1. net' = [x \in Peers |-> [y \in Peers |-> IF x = h /\ y = p THEN Append(before[x][y], g)
                                                  ELSE before[x][y]]]
      BY <1>3, <2>2
    <3> QED BY <3>1
  <2> QED BY <1>0, <2>1, <2>2
<1>5. ASSUME NEW x \in Peers, NEW y \in Peers
      PROVE  /\ \A n \in 1..(Len(net[x][y]) - d[x][y]) : net'[x][y][n] = net[x][y][n + d[x][y]]
             /\ Carries(F, x, y, Len(net[x][y]) - d[x][y], net'[x][y])
  <2> DEFINE q == before[x][y]
             r == net'[x][y]
             c == Len(net[x][y]) - d[x][y]
  <2>1. Listed(q) /\ Len(q) = c /\ \A n \in 1..Len(q) : q[n] = net[x][y][n + d[x][y]]
    BY <1>3
  <2>2. r = q \/ r = Append(q, g)
    BY <1>4
  <2>3. \A k \in Lsids : HostOf[k] = x => F[k][y].tx = <<>>
    BY <1>2
  <2> HIDE DEF q, r, c
  <2>4. CASE r = q
    <3>1. Carries(F, x, y, Len(q), q)
      BY <2>1, <2>3, CarriesNothing
    <3>2. Carries(F, x, y, c, r) /\ \A n \in 1..c : r[n] = net[x][y][n + d[x][y]]
      BY <2>1, <2>4, <3>1
    <3> QED BY <3>2 DEF c, r
  <2>5. CASE r = Append(q, g)
    <3>1. PICK S : q \in Seq(S)
      BY <2>1 DEF Listed
    <3> DEFINE U == S \cup {g}
    <3>2. q \in Seq(U) /\ g \in U
      BY <3>1
    <3>3. /\ r \in Seq(U) /\ Len(r) = Len(q) + 1 /\ Len(q) \in Nat /\ r[Len(q) + 1] = g
          /\ \A n \in 1..Len(q) : r[n] = q[n]
      BY <2>5, <3>2
    <3>4. Listed(r)
      BY <3>3 DEF Listed
    <3>5. c \in Nat /\ c <= Len(r) /\ \A n \in (c + 1)..Len(r) : r[n].msg.type = "JDN"
      <4>1. c \in Nat /\ Len(r) = c + 1 /\ r[c + 1] = g
        BY <2>1, <3>3
      <4>2. \A n \in (c + 1)..(c + 1) : n = c + 1
        BY <4>1
      <4> QED BY <4>1, <4>2
    <3>6. \A k \in Lsids : Len(F[k][y].tx) # 1
      <4>1. Len(<<>>) # 1
        OBVIOUS
      <4> QED BY <1>2, <4>1
    <3>7. \A k \in Lsids : DOMAIN F[k][y].tx = {}
      BY <1>2
    <3>8. Carries(F, x, y, c, r)
      BY <3>4, <3>5, <3>6, <3>7 DEF Carries
    <3>9. \A n \in 1..c : r[n] = net[x][y][n + d[x][y]]
      BY <2>1, <3>3
    <3> QED BY <3>8, <3>9 DEF c, r
  <2> QED BY <2>2, <2>4, <2>5
<1>6. \A x, y \in Peers : d[x][y] \in {0, 1} /\ d[x][y] <= Len(net[x][y])
  BY <1>3
<1>7. Moves(F, d)
  BY <1>4, <1>5, <1>6 DEF Moves
<1> QED BY <1>1, <1>7

\* What is known of the message that a serve loop takes: a reset concerns no world
\* but its receiver.
Takes(h, p, m, rest, d) ==
    /\ net[p][h] # <<>> /\ m = Head(net[p][h])
    /\ rest = [net EXCEPT ![p][h] = Tail(@)]
    /\ d = OneTake(p, h)

\* The message m, to h, is no reset for world k.
Spares(h, m, k) == HostOf[k] # h \/ k \notin worlds \/ m.msg.type # "RST" \/ m.msg.rsid # k

LEMMA TakenLemma ==
    ASSUME IInv, NInv, NEW h \in Peers, NEW p \in Peers, NEW m, NEW rest, NEW d, Takes(h, p, m, rest, d)
    PROVE  /\ m = net[p][h][1] /\ 1 \in DOMAIN net[p][h] /\ WireOK(p, h, m)
           /\ Rests(rest, d) /\ fault = "none"
           /\ \A x, y \in Peers : d[x][y] = IF x = p /\ y = h THEN 1 ELSE 0
           /\ \A k \in Lsids : Spares(h, m, k) => Unmoved(d, k)
PROOF
<1>0. /\ net[p][h] # <<>> /\ m = Head(net[p][h])
      /\ rest = [net EXCEPT ![p][h] = Tail(@)]
      /\ d = OneTake(p, h)
  BY DEF Takes
<1>1. LinksOK /\ fault = "none"
  BY DEF NInv, CallsOK
<1>2. m = net[p][h][1] /\ 1 \in DOMAIN net[p][h] /\ Rests(rest, d)
  BY <1>0, <1>1, RestsLemma
<1>3. WireOK(p, h, m)
  BY <1>1, <1>2 DEF LinksOK
<1>4. \A x, y \in Peers : d[x][y] = IF x = p /\ y = h THEN 1 ELSE 0
  BY <1>0, TookLemma
<1>5. ASSUME NEW k \in Lsids, Spares(h, m, k)
      PROVE  Unmoved(d, k)
  <2>1. HostOf[k] \in Peers
    BY LsidAssumption, ClosedAssumption
  <2>2. k \notin worlds => \A y \in Peers : entry[k][y].state \notin Hears
    BY DEF IInv, WorldOK, Hears
  <2>3. \A y \in Peers : d[y][HostOf[k]] = 1 => y = p /\ HostOf[k] = h
    BY <1>4, <2>1
  <2> QED BY <1>2, <1>5, <2>2, <2>3 DEF Unmoved, Spares
<1> QED BY <1>1, <1>2, <1>3, <1>4, <1>5

\* A join request for a path that leads nowhere, a message for a world that is gone.
LEMMA IgnoredStep ==
    ASSUME IInv, NInv, NEW h \in Peers, NEW p \in Peers, NEW m, NEW rest, NEW d, Takes(h, p, m, rest, d),
           UNCHANGED vars,
           \/ /\ m.msg.type = "JN"
              /\ net' = [rest EXCEPT ![h][p] = Append(@, Wire(Nil, Msg("JDN", m.ssid)))]
           \/ Receiver(m) \notin {k \in worlds : HostOf[k] = h} /\ net' = rest
    PROVE  Regular
PROOF
<1>2. PICK g : g = Wire(Nil, Msg("JDN", m.ssid))
  OBVIOUS
<1>3. g.msg.type = "JDN"
  BY <1>2, ListedLemma DEF Wire
<1>4. Rests(rest, d)
  BY TakenLemma
<1>5. Adds(h, p, rest, g)
  BY <1>2 DEF Adds
<1>6. Moves(Still, d)
  BY <1>3, <1>4, <1>5, StillMoves
<1>7. ASSUME NEW k \in Lsids PROVE Unmoved(d, k)
  <2>1. Spares(h, m, k)
    BY DEF Receiver, Spares
  <2> QED BY <2>1, TakenLemma
<1> QED BY <1>6, <1>7, StillStep

\* A reset without a receiver.
LEMMA ResetAllStep ==
    ASSUME IInv, NInv, NEW h \in Peers, NEW p \in Peers, NEW m, NEW rest, NEW d, Takes(h, p, m, rest, d),
           m.msg.type = "RST", Receiver(m) = Nil, p \in peers[h], ReceiveRSTAll(h, p),
           PostEach(h, p, OnWorlds(h, [k \in Lsids |-> RST(World(k), p)]), rest)
    PROVE  Regular /\ Next
PROOF
<1>2. PICK e : e = [k \in Lsids |-> ClearStates(entry[k][p])]
  OBVIOUS
<1>3. PICK F : F = OnWorlds(h, [k \in Lsids |-> At(World(k), p, e[k])])
  OBVIOUS
<1>4. F = OnWorlds(h, [k \in Lsids |-> RST(World(k), p)])
  <2>1. \A k \in Lsids : RST(World(k), p) = At(World(k), p, e[k])
    BY <1>2 DEF RST, World
  <2> QED BY <1>3, <2>1
<1>5. Loops(F, h, p, e)
  BY <1>3, OnWorldsLemma
<1>6. Apply(F) /\ PostEach(h, p, F, rest) /\ used' = used /\ peers' = peers
  BY <1>4 DEF ReceiveRSTAll
<1>7. result' = [l \in Lsids |-> Outcome(result[l], F[l])]
  BY <1>4 DEF ReceiveRSTAll
<1>8. Rests(rest, d) /\ fault = "none"
  BY TakenLemma
<1>9. \A k \in Lsids : Unmoved(d, k)
  <2>1. \A k \in Lsids : Spares(h, m, k)
    BY LsidAssumption DEF Receiver, Spares
  <2> QED BY <2>1, TakenLemma
<1>10. ASSUME NEW k \in Lsids
       PROVE  /\ Modest(entry[k][p], e[k], Refusals, {}, {}) /\ e[k].info.state \notin Hears
              /\ e[k].tx = <<>> \/ \E g : e[k].tx = <<g>>
  <2> DEFINE i == entry[k][p]
             c == ClearStates(i)
  <2>1. Modest(i, c, Refusals, {}, {}) /\ c.info.state \notin Hears
    BY PartsModest
  <2>2. c.tx = <<>> \/ \E y : c.tx = <<Msg(y, i.sid)>>
    BY DEF ClearStates, Keep, Effect, Fault
  <2> QED BY <1>2, <2>1, <2>2
<1>11. ASSUME NEW k \in Lsids, HostOf[k] = h, k \in worlds
       PROVE  /\ e[k].fault # "nilpeer"
              /\ e[k].tx = <<>> \/ \E g : e[k].tx = <<g>>
              /\ \A n \in DOMAIN e[k].tx : SendsOK(k, p, entry[k][p], e[k], e[k].tx[n])
              /\ TakesOK(k, entry[k][p], e[k], d[p][h], net[p][h][1])
  <2> DEFINE i == entry[k][p]
             c == e[k]
             took == d[p][h]
             g == net[p][h][1]
  <2>1. /\ Modest(i, c, Refusals, {}, {}) /\ c.info.state \notin Hears
        /\ c.tx = <<>> \/ \E x : c.tx = <<x>>
    BY <1>10
  <2> HIDE DEF i, c, took, g
  <2>2. /\ \A n \in DOMAIN c.tx : SendsOK(k, p, i, c, c.tx[n])
        /\ TakesOK(k, i, c, took, g) /\ c.fault # "nilpeer"
    BY <2>1, PlainFits
  <2> QED BY <2>1, <2>2 DEF i, c, took, g
<1>12. EachFits(h, p, e, d)
  BY <1>11 DEF EachFits
<1>13. NoSuccess
  <2> SUFFICES ASSUME NEW k \in Lsids, result'[k] = "success" PROVE result[k] = "success"
    BY DEF NoSuccess
  <2> DEFINE fx == F[k]
  <2>1. Outcome(result[k], fx) = "success"
    BY <1>7
  <2>2. ASSUME NEW q \in Peers PROVE ~Raises(fx[q].ev, "JoinSuccess")
    <3>1. fx[q] = e[k] \/ fx[q] = Keep(entry[k][q])
      BY <1>5 DEF Loops
    <3>2. ~Raises(e[k].ev, "JoinSuccess")
      BY <1>10 DEF Modest
    <3>3. ~Raises(Keep(entry[k][q]).ev, "JoinSuccess")
      BY KeepLemma, RaisesLemma
    <3> QED BY <3>1, <3>2, <3>3
  <2> HIDE DEF fx
  <2> QED BY <2>1, <2>2, NoSuccessOutcome
<1>14. used \subseteq used' /\ \A x \in Peers : peers[x] \subseteq peers'[x]
  BY <1>6
<1>15. Regular
  BY <1>5, <1>6, <1>8, <1>9, <1>12, <1>13, <1>14, LoopStep
<1>16. Next
  BY <1>8, ClosedAssumption DEF Next, Resets
<1> QED BY <1>15, <1>16

-----------------------------------------------------------------------------
(* The handlers of the messages *)

\* The effects fx on the entries of world l fit a step that takes message m of p.
Handled(l, p, m, fx) ==
    \A y \in Peers :
        /\ Listed(fx[y].tx) /\ fx[y].fault # "nilpeer"
        /\ \A n \in DOMAIN fx[y].tx : SendsOK(l, y, entry[l][y], fx[y], fx[y].tx[n])
        /\ y = p => TakesOK(l, entry[l][y], fx[y], 1, m)
        /\ y # p => TakesOK(l, entry[l][y], fx[y], 0, m)

\* The effect of message m of p, for world l of h, is fx.
Handles(h, p, m, rest, d, l, fx) ==
    /\ Takes(h, p, m, rest, d) /\ p \in peers[h]
    /\ l \in worlds /\ HostOf[l] = h /\ l = Receiver(m)
    /\ Call(l, fx) /\ Post(l, fx, rest)

\* What holds when a message reaches its world.
LEMMA HandlesLemma ==
    ASSUME IInv, NInv, NEW h \in Peers, NEW p \in Peers, NEW m, NEW rest, NEW d, NEW l, NEW fx,
           Handles(h, p, m, rest, d, l, fx)
    PROVE  /\ l \in Lsids /\ HostOf[l] = h /\ p \in PeersOf(l) /\ fault = "none"
           /\ Takes(h, p, m, rest, d) /\ Call(l, fx) /\ Post(l, fx, rest)
           /\ l \in worlds /\ WireOK(p, h, m) /\ h # p
           /\ World(l).peers = entry[l] /\ \A x \in Peers : World(l).peers[x] \in Info
           /\ m.msg.type = "JN" => JoinTo[m.ssid] = l
           /\ m.msg.type # "JN" => m.msg.rsid = l
           /\ m.msg.type # "JDN" => m.ssid \in Sessions
PROOF
<1>1. /\ Takes(h, p, m, rest, d) /\ p \in peers[h]
      /\ l \in worlds /\ HostOf[l] = h /\ l = Receiver(m)
      /\ Call(l, fx) /\ Post(l, fx, rest)
  BY DEF Handles
<1>2. l \in Lsids
  BY <1>1 DEF IInv, TypeOK
<1>3. WireOK(p, h, m) /\ fault = "none"
  BY <1>1, TakenLemma
<1>4. World(l).peers = entry[l] /\ \A x \in Peers : World(l).peers[x] \in Info
  BY <1>2, StateLemma
<1>5. h # p
  BY <1>1 DEF NInv, CallsOK
<1>6. m.msg.type # "JDN" => m.ssid \in Sessions
  BY <1>3, ClosedAssumption DEF WireOK
<1> QED BY <1>1, <1>2, <1>3, <1>4, <1>5, <1>6 DEF Receiver, PeersOf

LEMMA HandledStep ==
    ASSUME IInv, NInv, NEW h \in Peers, NEW p \in Peers, NEW m, NEW rest, NEW d, NEW l, NEW fx,
           Handles(h, p, m, rest, d, l, fx), Handled(l, p, m, fx), Succeeds(d)
    PROVE  Regular
PROOF
<1>1. /\ l \in Lsids /\ HostOf[l] = h /\ fault = "none" /\ Takes(h, p, m, rest, d)
      /\ Call(l, fx) /\ Post(l, fx, rest)
      /\ m.msg.type # "JN" => m.msg.rsid = l
  BY HandlesLemma
<1>2. /\ m = net[p][h][1] /\ Rests(rest, d)
      /\ \A x, y \in Peers : d[x][y] = IF x = p /\ y = h THEN 1 ELSE 0
  BY <1>1, TakenLemma
<1>3. \A k \in Lsids \ {l} : Unmoved(d, k)
  <2>1. \A k \in Lsids \ {l} : Spares(h, m, k)
    BY <1>1 DEF Spares
  <2> QED BY <1>1, <2>1, TakenLemma
<1>4. /\ Apply(OnWorld(l, fx)) /\ used \subseteq used'
      /\ \A x \in Peers : peers[x] \subseteq peers'[x]
  BY <1>1, CallFrame
<1>5. FitsAt(l, fx, d)
  <2> SUFFICES ASSUME NEW y \in Peers
               PROVE  TakesOK(l, entry[l][y], fx[y], d[y][h], net[y][h][1])
    BY <1>1 DEF FitsAt, Handled
  <2> DEFINE i == entry[l][y]
             e == fx[y]
             took == d[y][h]
             g == net[y][h][1]
  <2>1. CASE y = p
    <3>1. TakesOK(l, i, e, 1, m)
      BY <2>1 DEF Handled
    <3>2. took = 1 /\ g = m
      BY <1>2, <2>1
    <3> HIDE DEF i, e, took, g
    <3>3. TakesOK(l, i, e, took, g)
      BY <3>1, <3>2
    <3> QED BY <3>3 DEF i, e, took, g
  <2>2. CASE y # p
    <3>1. TakesOK(l, i, e, 0, m)
      BY <2>2 DEF Handled
    <3>2. took # 1
      BY <1>2, <2>2
    <3>3. 0 # 1
      OBVIOUS
    <3> HIDE DEF i, e, took, g
    <3>4. TakesOK(l, i, e, took, g)
      BY <3>1, <3>2, <3>3 DEF TakesOK
    <3> QED BY <3>4 DEF i, e, took, g
  <2> QED BY <2>1, <2>2
<1>6. Step(OnWorld(l, fx), d) /\ fault' # "nilpeer"
  BY <1>1, <1>2, <1>3, <1>4, <1>5, FxStep
<1> QED BY <1>6 DEF Regular

\* A handler that takes only sessions of this message, and sends refusals or what
\* fits.
LEMMA ModestHandled ==
    ASSUME IInv, NInv, NEW h \in Peers, NEW p \in Peers, NEW m, NEW rest, NEW d, NEW l, NEW fx,
           Handles(h, p, m, rest, d, l, fx), NEW types, NEW J, NEW H,
           WModest(World(l), p, fx, types, J, H),
           \A s \in J : IsAsk(m, s) /\ JoinTo[m.ssid] = l,
           \A s \in H : m.ssid = s /\ m.msg.type \in Commits /\ m.msg.rsid = l,
           m.msg.type = "RST" => fx[p].info.state \notin Hears,
           \A y \in Peers : \A n \in DOMAIN fx[y].tx :
              fx[y].tx[n].type \notin Refusals => SendsOK(l, y, entry[l][y], fx[y], fx[y].tx[n])
    PROVE  Regular
PROOF
<1>1. /\ l \in Lsids /\ HostOf[l] = h /\ fault = "none" /\ Takes(h, p, m, rest, d) /\ Call(l, fx)
      /\ World(l).peers = entry[l]
  BY HandlesLemma
<1>2. \A y \in Peers : Modest(entry[l][y], fx[y], types, IF y = p THEN J ELSE {}, IF y = p THEN H ELSE {})
  BY <1>1 DEF WModest
<1>3. ASSUME NEW y \in Peers
      PROVE  /\ Listed(fx[y].tx) /\ fx[y].fault # "nilpeer"
             /\ \A n \in DOMAIN fx[y].tx : SendsOK(l, y, entry[l][y], fx[y], fx[y].tx[n])
             /\ y = p => TakesOK(l, entry[l][y], fx[y], 1, m)
             /\ y # p => TakesOK(l, entry[l][y], fx[y], 0, m)
  <2> DEFINE i == entry[l][y]
             e == fx[y]
             JJ == IF y = p THEN J ELSE {}
             HH == IF y = p THEN H ELSE {}
  <2>1. Modest(i, e, types, JJ, HH)
    BY <1>2
  <2>2. /\ \A s \in JJ : y = p /\ IsAsk(m, s) /\ JoinTo[m.ssid] = l
        /\ \A s \in HH : y = p /\ m.ssid = s /\ m.msg.type \in Commits /\ m.msg.rsid = l
        /\ y = p => (m.msg.type = "RST" => e.info.state \notin Hears)
    OBVIOUS
  <2>3. \A n \in DOMAIN e.tx : e.tx[n].type \notin Refusals => SendsOK(l, y, i, e, e.tx[n])
    OBVIOUS
  <2> HIDE DEF i, e, JJ, HH
  <2>4. \A n \in DOMAIN e.tx : SendsOK(l, y, i, e, e.tx[n])
    BY <1>1, <2>3, RefusalLemma
  <2>5. Listed(e.tx) /\ e.fault # "nilpeer"
    BY <2>1 DEF Modest
  <2>6. y = p => TakesOK(l, i, e, 1, m)
    BY <2>1, <2>2 DEF Modest, TakesOK
  <2>7. y # p => TakesOK(l, i, e, 0, m)
    <3>1. 0 # 1
      OBVIOUS
    <3> QED BY <2>1, <2>2, <3>1 DEF Modest, TakesOK
  <2> QED BY <2>4, <2>5, <2>6, <2>7 DEF i, e
<1>4. Handled(l, p, m, fx)
  BY <1>3 DEF Handled
<1>5. result' = [result EXCEPT ![l] = Outcome(@, fx)]
  BY <1>1, CallFrame
<1>6. \A q \in Peers : ~Raises(fx[q].ev, "JoinSuccess")
  BY <1>2 DEF Modest
<1>7. NoSuccess
  BY <1>1, <1>5, <1>6, NoSuccessLemma
<1>8. Succeeds(d)
  BY <1>7 DEF NoSuccess, Succeeds
<1> QED BY <1>4, <1>8, HandledStep

\* The messages whose handlers only send refusals.
LEMMA PlainMessages ==
    ASSUME IInv, NInv, NEW h \in Peers, NEW p \in Peers, NEW m, NEW rest, NEW d, NEW l, NEW fx,
           Handles(h, p, m, rest, d, l, fx), NEW w, w = World(l), NEW s, s = m.ssid,
           \/ m.msg.type = "JN" /\ fx = JN(w, p, s)
           \/ m.msg.type = "JDN" /\ fx = JDN(w, p)
           \/ m.msg.type = "JNI" /\ fx = JNI(w, p, s, m.msg.peer, m.msg.sid)
           \/ m.msg.type = "MEM" /\ fx = MEM(w, p, s)
           \/ m.msg.type = "RST" /\ fx = RST(w, p)
    PROVE  Regular
PROOF
<1>1. /\ \A x \in Peers : w.peers[x] \in Info
      /\ m.msg.type = "JN" => JoinTo[m.ssid] = l
      /\ m.msg.type # "JN" => m.msg.rsid = l
      /\ WireOK(p, h, m)
  BY HandlesLemma
<1>2. ASSUME NEW J, NEW H, WModest(w, p, fx, Refusals, J, H),
             \A x \in J : IsAsk(m, x) /\ JoinTo[m.ssid] = l,
             \A x \in H : m.ssid = x /\ m.msg.type \in Commits /\ m.msg.rsid = l,
             m.msg.type = "RST" => fx[p].info.state \notin Hears
      PROVE  Regular
  <2>1. \A y \in Peers : \A n \in DOMAIN fx[y].tx : fx[y].tx[n].type \in Refusals
    BY <1>2 DEF WModest, Modest
  <2>2. \A y \in Peers : \A n \in DOMAIN fx[y].tx :
            fx[y].tx[n].type \notin Refusals => SendsOK(l, y, entry[l][y], fx[y], fx[y].tx[n])
    BY <2>1
  <2>3. WModest(World(l), p, fx, Refusals, J, H)
    BY <1>2
  <2> QED BY <1>2, <2>2, <2>3, ModestHandled
<1>3. CASE m.msg.type = "JN" /\ fx = JN(w, p, s)
  <2>1. WModest(w, p, fx, Refusals, {s}, {})
    BY <1>1, <1>3, PlainHandlers
  <2>2. \A x \in {s} : IsAsk(m, x) /\ JoinTo[m.ssid] = l
    BY <1>1, <1>3 DEF IsAsk
  <2> QED BY <1>2, <1>3, <2>1, <2>2
<1>4. CASE m.msg.type = "JDN" /\ fx = JDN(w, p)
  <2>1. WModest(w, p, fx, Refusals, {}, {})
    BY <1>1, <1>4, PlainHandlers
  <2> QED BY <1>2, <1>4, <2>1
<1>5. CASE m.msg.type = "JNI" /\ fx = JNI(w, p, s, m.msg.peer, m.msg.sid)
  <2>1. m.msg.peer \in Peers
    BY <1>1, <1>5 DEF WireOK
  <2>2. WModest(w, m.msg.peer, fx, Refusals, {}, {})
    BY <1>1, <1>5, <2>1, PlainHandlers
  <2>3. WModest(w, p, fx, Refusals, {}, {})
    BY <2>2 DEF WModest
  <2> QED BY <1>2, <1>5, <2>3
<1>6. CASE m.msg.type = "MEM" /\ fx = MEM(w, p, s)
  <2>1. WModest(w, p, fx, Refusals, {}, {s})
    BY <1>1, <1>6, MEM_Modest
  <2>2. \A x \in {s} : m.ssid = x /\ m.msg.type \in Commits /\ m.msg.rsid = l
    BY <1>1, <1>6 DEF Commits
  <2> QED BY <1>2, <1>6, <2>1, <2>2
<1>7. CASE m.msg.type = "RST" /\ fx = RST(w, p)
  <2>1. WModest(w, p, fx, Refusals, {}, {})
    BY <1>1, <1>7, PlainHandlers
  <2>2. fx[p] = ClearStates(w.peers[p])
    BY <1>7 DEF RST, At
  <2>3. fx[p].info.state \notin Hears
    BY <2>2, PartsModest
  <2> QED BY <1>2, <2>1, <2>3
<1> QED BY <1>3, <1>4, <1>5, <1>6, <1>7

\* The list of a message, as the receiver uses it.
LEMMA KnownLemma ==
    ASSUME NEW p \in Peers, NEW h \in Peers, NEW list \in ListsOf(p), NEW mems, mems = Known(h, list)
    PROVE  /\ mems \in ListsOf(p) /\ DOMAIN mems \subseteq Peers \ {p, h}
           /\ DOMAIN mems \subseteq DOMAIN list /\ IsFiniteSet(DOMAIN mems)
           /\ \A q \in DOMAIN mems : mems[q] \in Sessions
PROOF
<1>1. PICK Q \in SUBSET (Peers \ {p}) : list \in [Q -> Sessions]
  BY DEF ListsOf
<1> DEFINE R == Q \ {h}
<1>2. DOMAIN mems = R /\ \A q \in R : mems[q] = list[q] /\ list[q] \in Sessions
  BY <1>1 DEF Known
<1>3. mems \in [R -> Sessions]
  <2>1. mems = [q \in R |-> mems[q]]
    BY <1>1 DEF Known
  <2> QED BY <1>2, <2>1
<1>4. R \in SUBSET (Peers \ {p}) /\ R \subseteq Peers \ {p, h} /\ R \subseteq DOMAIN list /\ R \subseteq Peers
  BY <1>1
<1>5. mems \in ListsOf(p)
  BY <1>3, <1>4 DEF ListsOf
<1>6. IsFiniteSet(R)
  BY <1>4, NetFiniteAssumption, FS_Subset
<1> QED BY <1>2, <1>4, <1>5, <1>6

\* Announced sessions: the requests ask for one of them each.
LEMMA SJN_Step ==
    ASSUME IInv, NInv, NEW h \in Peers, NEW p \in Peers, NEW m, NEW rest, NEW d, NEW l, NEW fx,
           Handles(h, p, m, rest, d, l, fx), NEW w, w = World(l), NEW s, s = m.ssid,
           NEW mems, mems = Known(h, m.msg.mems),
           m.msg.type = "SJN", fx = SJN(w, p, s, mems)
    PROVE  Regular
PROOF
<1>1. /\ l \in Lsids /\ HostOf[l] = h /\ \A x \in Peers : w.peers[x] \in Info
      /\ WireOK(p, h, m)
  BY HandlesLemma
<1>2. m.msg.mems \in ListsOf(p) /\ DOMAIN m.msg.mems \subseteq peers[p]
  BY <1>1 DEF WireOK
<1>3. /\ DOMAIN mems \subseteq Peers \ {p, h} /\ DOMAIN mems \subseteq DOMAIN m.msg.mems
      /\ IsFiniteSet(DOMAIN mems) /\ \A q \in DOMAIN mems : mems[q] \in Sessions
  BY <1>2, KnownLemma
<1>4. /\ WModest(w, p, fx, Refusals \cup {"CRR"}, {}, {})
      /\ \A q \in Peers : \A n \in DOMAIN fx[q].tx : Asks(p, q, mems, fx[q].tx[n])
  BY <1>1, <1>3, SJN_Modest
<1>5. ASSUME NEW y \in Peers, NEW n \in DOMAIN fx[y].tx, fx[y].tx[n].type \notin Refusals
      PROVE  SendsOK(l, y, entry[l][y], fx[y], fx[y].tx[n])
  <2> DEFINE g == fx[y].tx[n]
             i == entry[l][y]
             e == fx[y]
  <2>1. g.type = "CRR"
    BY <1>4, <1>5 DEF WModest, Modest
  <2>2. PICK r \in DOMAIN mems : y = p /\ g.mems = [x \in {r} |-> mems[x]]
    <3>1. Asks(p, y, mems, g)
      BY <1>4
    <3> HIDE DEF g
    <3> QED BY <2>1, <3>1 DEF Asks
  <2> HIDE DEF g, i, e
  <2>3. g.mems \in ListsOf(h)
    <3>1. {r} \in SUBSET (Peers \ {h}) /\ g.mems \in [{r} -> Sessions]
      BY <1>3, <2>2
    <3> QED BY <3>1 DEF ListsOf
  <2>4. DOMAIN g.mems \subseteq peers[y]
    <3>1. r \in peers[y]
      BY <1>2, <1>3, <2>2
    <3> QED BY <2>2, <3>1
  <2>5. Wire(l, g).msg = g /\ Wire(l, g).ssid = l
    BY DEF Wire
  <2>6. WireOK(h, y, Wire(l, g))
    BY <1>1, <2>1, <2>3, <2>4, <2>5 DEF WireOK, Commits
  <2>7. SendsOK(l, y, i, e, g)
    BY <1>1, <2>1, <2>6 DEF SendsOK, Commits
  <2> QED BY <2>7 DEF g, i, e
<1>6. WModest(World(l), p, fx, Refusals \cup {"CRR"}, {}, {}) /\ m.msg.type # "RST"
  BY <1>4
<1> QED BY <1>5, <1>6, ModestHandled

\* Introductions: what the world has heard of from p is about connected peers.
LEMMA CRR_Step ==
    ASSUME IInv, NInv, NEW h \in Peers, NEW p \in Peers, NEW m, NEW rest, NEW d, NEW l, NEW fx,
           Handles(h, p, m, rest, d, l, fx), NEW w, w = World(l), NEW s, s = m.ssid,
           NEW mems, mems = Known(h, m.msg.mems),
           m.msg.type = "CRR", fx = CRR(w, p, s, mems)
    PROVE  Regular
PROOF
<1>1. /\ l \in Lsids /\ HostOf[l] = h /\ \A x \in Peers : w.peers[x] \in Info
      /\ WireOK(p, h, m) /\ l \in worlds /\ w.peers = entry[l] /\ s \in Sessions
  BY HandlesLemma
<1>2. m.msg.mems \in ListsOf(p) /\ DOMAIN m.msg.mems \subseteq peers[h]
  BY <1>1 DEF WireOK
<1>3. /\ DOMAIN mems \subseteq Peers \ {p, h} /\ DOMAIN mems \subseteq DOMAIN m.msg.mems
      /\ IsFiniteSet(DOMAIN mems) /\ \A q \in DOMAIN mems : mems[q] \in Sessions
  BY <1>2, KnownLemma
<1>4. ASSUME NEW q \in DOMAIN mems PROVE w.peers[q].state \notin Disconnected
  <2>1. q \in Peers /\ q \in PeersOf(l)
    BY <1>1, <1>2, <1>3 DEF PeersOf
  <2>2. entry[l][q].state \in Connected
    BY <1>1, <2>1, StateLemma
  <2> QED BY <1>1, <2>2 DEF Connected, Disconnected
<1>5. DOMAIN mems \subseteq Peers
  BY <1>3
<1>6. /\ WModest(w, p, fx, Refusals \cup {"JNI"}, {}, {})
      /\ \A q \in Peers : \A n \in DOMAIN fx[q].tx : Introduces(p, q, s, mems, fx[q].tx[n])
  BY <1>1, <1>3, <1>4, <1>5, CRR_Modest
<1>7. ASSUME NEW y \in Peers, NEW n \in DOMAIN fx[y].tx, fx[y].tx[n].type \notin Refusals
      PROVE  SendsOK(l, y, entry[l][y], fx[y], fx[y].tx[n])
  <2> DEFINE g == fx[y].tx[n]
             i == entry[l][y]
             e == fx[y]
  <2>1. g.type = "JNI"
    BY <1>6, <1>7 DEF WModest, Modest
  <2>2. \/ y = p /\ g.peer \in DOMAIN mems /\ g.sid = mems[g.peer]
        \/ y # p /\ g.peer = p /\ g.sid = s
    <3>1. Introduces(p, y, s, mems, g)
      BY <1>6
    <3> HIDE DEF g
    <3> QED BY <2>1, <3>1 DEF Introduces
  <2> HIDE DEF g, i, e
  <2>3. g.peer \in Peers \ {y} /\ g.sid \in Sessions
    BY <1>1, <1>3, <2>2
  <2>4. Wire(l, g).msg = g /\ Wire(l, g).ssid = l
    BY DEF Wire
  <2>5. WireOK(h, y, Wire(l, g))
    BY <1>1, <2>1, <2>3, <2>4 DEF WireOK, Commits
  <2>6. SendsOK(l, y, i, e, g)
    BY <1>1, <2>1, <2>5 DEF SendsOK, Commits
  <2> QED BY <2>6 DEF g, i, e
<1>8. WModest(World(l), p, fx, Refusals \cup {"JNI"}, {}, {}) /\ m.msg.type # "RST"
  BY <1>6
<1> QED BY <1>7, <1>8, ModestHandled

\* The answer to the join request: it was asked for, and is heard once.
LEMMA JOK_Step ==
    ASSUME IInv, NInv, NEW h \in Peers, NEW p \in Peers, NEW m, NEW rest, NEW d, NEW l, NEW fx,
           Handles(h, p, m, rest, d, l, fx), NEW w, w = World(l), NEW s, s = m.ssid,
           NEW mems, mems = Known(h, m.msg.mems),
           m.msg.type = "JOK", fx = JOK(w, p, s, mems)
    PROVE  Regular /\ ~Exposed(l)
PROOF
<1>1. /\ l \in Lsids /\ HostOf[l] = h /\ \A x \in Peers : w.peers[x] \in Info
      /\ WireOK(p, h, m) /\ w.peers = entry[l] /\ m.msg.rsid = l
      /\ Takes(h, p, m, rest, d) /\ Call(l, fx)
  BY HandlesLemma
<1>2. /\ m.msg.mems \in ListsOf(p) /\ m.ssid \in Lsids /\ HostOf[m.ssid] = p
      /\ JoinTo[l] = m.ssid /\ JoinTo[l] # Nil
  BY <1>1, LsidAssumption DEF WireOK
<1>3. p \notin DOMAIN mems
  BY <1>2, KnownLemma
<1>4. /\ m = net[p][h][1] /\ 1 \in DOMAIN net[p][h]
      /\ d[p][h] = 1
  BY <1>1, TakenLemma
<1>5. IsAnswer(m, l)
  BY <1>1 DEF IsAnswer
<1>6. ~Exposed(l)
  <2>1. Token(l, "answer", 1)
    BY <1>1, <1>2, <1>4, <1>5 DEF Token
  <2>2. Requested(l)
    BY <1>1, <1>2, <2>1 DEF NInv, JoinOnce
  <2> QED BY <2>2 DEF Requested, Exposed
<1>7. /\ \A q \in Peers \ {p} : Modest(entry[l][q], fx[q], Refusals, {}, {})
      /\ Modest(entry[l][p], [fx[p] EXCEPT !.ev = <<>>], Refusals, {}, {s})
  BY <1>1, <1>3, JOK_Modest
<1>8. \E j, tx, ev : fx[p] = Effect(j, tx, ev)
  <2>1. CASE w.join_hash # p \/ w.peers[p].state # "JT"
    BY <2>1 DEF JOK, At
  <2>2. CASE ~(w.join_hash # p \/ w.peers[p].state # "JT")
    <3>1. fx[p] = Effect([NewANDPeerSessionState(s, "RMEM") EXCEPT !.sjnp = TRUE], <<>>,
                         <<Event("JoinSuccess", Nil), Event("Request", s)>>)
      BY <2>2 DEF JOK
    <3> QED BY <3>1
  <2> QED BY <2>1, <2>2
<1>9. PICK e : /\ e.info = fx[p].info /\ e.tx = fx[p].tx /\ e.fault = fx[p].fault
               /\ Modest(entry[l][p], e, Refusals, {}, {s})
  <2>1. PICK j, tx, ev : fx[p] = Effect(j, tx, ev)
    BY <1>8
  <2> DEFINE c == [fx[p] EXCEPT !.ev = <<>>]
  <2>2. c.info = fx[p].info /\ c.tx = fx[p].tx /\ c.fault = fx[p].fault
    BY <2>1 DEF Effect
  <2> QED BY <1>7, <2>2
<1>10. ASSUME NEW y \in Peers
       PROVE  /\ Listed(fx[y].tx) /\ fx[y].fault # "nilpeer"
              /\ \A n \in DOMAIN fx[y].tx : SendsOK(l, y, entry[l][y], fx[y], fx[y].tx[n])
              /\ y = p => TakesOK(l, entry[l][y], fx[y], 1, m)
              /\ y # p => TakesOK(l, entry[l][y], fx[y], 0, m)
  <2> DEFINE i == entry[l][y]
             c == fx[y]
  <2>1. CASE y # p
    <3>1. Modest(i, c, Refusals, {}, {})
      BY <1>7, <2>1
    <3> HIDE DEF i, c
    <3>2. \A n \in DOMAIN c.tx : SendsOK(l, y, i, c, c.tx[n])
      BY <1>1, <3>1, RefusalLemma DEF Modest
    <3>3. 0 # 1
      OBVIOUS
    <3>4. TakesOK(l, i, c, 0, m)
      BY <3>1, <3>3 DEF Modest, TakesOK
    <3>5. Listed(c.tx) /\ c.fault # "nilpeer"
      BY <3>1 DEF Modest
    <3> QED BY <2>1, <3>2, <3>4, <3>5 DEF i, c
  <2>2. CASE y = p
    <3>1. Modest(i, e, Refusals, {}, {s}) /\ e.info = c.info /\ e.tx = c.tx /\ e.fault = c.fault
      BY <1>9, <2>2
    <3> HIDE DEF i, c
    <3>2. \A n \in DOMAIN c.tx : SendsOK(l, y, i, c, c.tx[n])
      BY <1>1, <3>1, RefusalLemma DEF Modest
    <3>3. TakesOK(l, i, c, 1, m)
      BY <1>1, <3>1 DEF Modest, TakesOK, Commits
    <3>4. Listed(c.tx) /\ c.fault # "nilpeer"
      BY <3>1 DEF Modest
    <3> QED BY <2>2, <3>2, <3>3, <3>4 DEF i, c
  <2> QED BY <2>1, <2>2
<1>11. Handled(l, p, m, fx)
  BY <1>10 DEF Handled
<1>12. Succeeds(d)
  <2>1. \A k \in Lsids \ {l} : result'[k] = result[k]
    <3>1. result' = [result EXCEPT ![l] = Outcome(@, fx)]
      BY <1>1, CallFrame
    <3>2. result \in [Lsids -> {"none", "success", "fail", "twice"}]
      BY DEF IInv, TypeOK
    <3> QED BY <3>1, <3>2
  <2>2. HostOf[JoinTo[l]] = p
    BY <1>2
  <2> QED BY <1>1, <1>4, <1>5, <2>1, <2>2 DEF Succeeds
<1>13. Regular
  BY <1>11, <1>12, HandledStep
<1> QED BY <1>6, <1>13

\* Every message that reaches its world is handled as module AND does it.
LEMMA ReceiveStep ==
    ASSUME IInv, NInv, NEW h \in Peers, NEW p \in Peers, NEW m, NEW rest, NEW d, NEW l,
           Takes(h, p, m, rest, d), p \in peers[h], l \in worlds, HostOf[l] = h, l = Receiver(m),
           m.msg.type = "JN" => l \in published,
           Receive(l, p, m.ssid, m.msg, rest)
    PROVE  Regular /\ Next
PROOF
<1>1. PICK w, s, mems : w = World(l) /\ s = m.ssid /\ mems = Known(h, m.msg.mems)
  OBVIOUS
<1>2. \/ m.msg.type = "JN"  /\ ReceiveJN(l, p, s) /\ Post(l, JN(w, p, s), rest)
      \/ m.msg.type = "JOK" /\ ReceiveJOK(l, p, s, mems) /\ Post(l, JOK(w, p, s, mems), rest)
      \/ m.msg.type = "JDN" /\ ReceiveJDN(l, p) /\ Post(l, JDN(w, p), rest)
      \/ /\ m.msg.type = "JNI" /\ ReceiveJNI(l, p, s, m.msg.peer, m.msg.sid)
         /\ Post(l, JNI(w, p, s, m.msg.peer, m.msg.sid), rest)
      \/ m.msg.type = "MEM" /\ ReceiveMEM(l, p, s) /\ Post(l, MEM(w, p, s), rest)
      \/ m.msg.type = "SJN" /\ ReceiveSJN(l, p, s, mems) /\ Post(l, SJN(w, p, s, mems), rest)
      \/ m.msg.type = "CRR" /\ ReceiveCRR(l, p, s, mems) /\ Post(l, CRR(w, p, s, mems), rest)
      \/ m.msg.type = "RST" /\ ReceiveRST(l, p) /\ Post(l, RST(w, p), rest)
  BY <1>1 DEF Receive
<1>3. ASSUME NEW fx, Call(l, fx), Post(l, fx, rest) PROVE Handles(h, p, m, rest, d, l, fx)
  BY <1>3 DEF Handles
<1>4. WireOK(p, h, m) /\ fault = "none" /\ l \in Lsids /\ p \in PeersOf(l)
  <2>1. l \in Lsids /\ p \in PeersOf(l)
    BY DEF IInv, TypeOK, PeersOf
  <2> QED BY <2>1, TakenLemma
<1>5. m.msg.type # "JDN" => s \in Sessions
  BY <1>1, <1>4, ClosedAssumption DEF WireOK
<1>6. m.msg.type \in {"JOK", "SJN", "CRR"} => mems \in ListsOf(p)
  BY <1>1, <1>4, KnownLemma DEF WireOK
<1>7. CASE m.msg.type = "JN" /\ ReceiveJN(l, p, s) /\ Post(l, JN(w, p, s), rest)
  <2>1. PICK fx : fx = JN(w, p, s)
    OBVIOUS
  <2>2. Handles(h, p, m, rest, d, l, fx)
    BY <1>1, <1>3, <1>7, <2>1 DEF ReceiveJN
  <2>3. Regular
    BY <1>1, <1>7, <2>1, <2>2, PlainMessages
  <2>4. Exposed(l)
    BY <1>7 DEF NInv, CallsOK, Exposed
  <2> QED BY <1>4, <1>5, <1>7, <2>3, <2>4 DEF Next, Messages
<1>8. CASE m.msg.type = "JOK" /\ ReceiveJOK(l, p, s, mems) /\ Post(l, JOK(w, p, s, mems), rest)
  <2>1. PICK fx : fx = JOK(w, p, s, mems)
    OBVIOUS
  <2>2. Handles(h, p, m, rest, d, l, fx)
    BY <1>1, <1>3, <1>8, <2>1 DEF ReceiveJOK
  <2>3. Regular /\ ~Exposed(l)
    BY <1>1, <1>8, <2>1, <2>2, JOK_Step
  <2> QED BY <1>4, <1>5, <1>6, <1>8, <2>3 DEF Next, Messages
<1>9. CASE m.msg.type = "JDN" /\ ReceiveJDN(l, p) /\ Post(l, JDN(w, p), rest)
  <2>1. PICK fx : fx = JDN(w, p)
    OBVIOUS
  <2>2. Handles(h, p, m, rest, d, l, fx)
    BY <1>1, <1>3, <1>9, <2>1 DEF ReceiveJDN
  <2>3. Regular
    BY <1>1, <1>9, <2>1, <2>2, PlainMessages
  <2> QED BY <1>4, <1>9, <2>3 DEF Next, Messages
<1>10. CASE /\ m.msg.type = "JNI" /\ ReceiveJNI(l, p, s, m.msg.peer, m.msg.sid)
            /\ Post(l, JNI(w, p, s, m.msg.peer, m.msg.sid), rest)
  <2>1. PICK fx : fx = JNI(w, p, s, m.msg.peer, m.msg.sid)
    OBVIOUS
  <2>2. Handles(h, p, m, rest, d, l, fx)
    BY <1>1, <1>3, <1>10, <2>1 DEF ReceiveJNI
  <2>3. Regular
    BY <1>1, <1>10, <2>1, <2>2, PlainMessages
  <2>4. m.msg.peer \in Peers /\ m.msg.sid \in Sessions
    BY <1>4, <1>10 DEF WireOK
  <2> QED BY <1>4, <1>5, <1>10, <2>3, <2>4 DEF Next, Messages
<1>11. CASE m.msg.type = "MEM" /\ ReceiveMEM(l, p, s) /\ Post(l, MEM(w, p, s), rest)
  <2>1. PICK fx : fx = MEM(w, p, s)
    OBVIOUS
  <2>2. Handles(h, p, m, rest, d, l, fx)
    BY <1>1, <1>3, <1>11, <2>1 DEF ReceiveMEM
  <2>3. Regular
    BY <1>1, <1>11, <2>1, <2>2, PlainMessages
  <2> QED BY <1>4, <1>5, <1>11, <2>3 DEF Next, Messages
<1>12. CASE m.msg.type = "SJN" /\ ReceiveSJN(l, p, s, mems) /\ Post(l, SJN(w, p, s, mems), rest)
  <2>1. PICK fx : fx = SJN(w, p, s, mems)
    OBVIOUS
  <2>2. Handles(h, p, m, rest, d, l, fx)
    BY <1>1, <1>3, <1>12, <2>1 DEF ReceiveSJN
  <2>3. Regular
    BY <1>1, <1>12, <2>1, <2>2, SJN_Step
  <2> QED BY <1>4, <1>5, <1>6, <1>12, <2>3 DEF Next, Messages
<1>13. CASE m.msg.type = "CRR" /\ ReceiveCRR(l, p, s, mems) /\ Post(l, CRR(w, p, s, mems), rest)
  <2>1. PICK fx : fx = CRR(w, p, s, mems)
    OBVIOUS
  <2>2. Handles(h, p, m, rest, d, l, fx)
    BY <1>1, <1>3, <1>13, <2>1 DEF ReceiveCRR
  <2>3. Regular
    BY <1>1, <1>13, <2>1, <2>2, CRR_Step
  <2> QED BY <1>4, <1>5, <1>6, <1>13, <2>3 DEF Next, Messages
<1>14. CASE m.msg.type = "RST" /\ ReceiveRST(l, p) /\ Post(l, RST(w, p), rest)
  <2>1. PICK fx : fx = RST(w, p)
    OBVIOUS
  <2>2. Handles(h, p, m, rest, d, l, fx)
    BY <1>1, <1>3, <1>14, <2>1 DEF ReceiveRST
  <2>3. Regular
    BY <1>1, <1>14, <2>1, <2>2, PlainMessages
  <2> QED BY <1>4, <1>14, <2>3 DEF Next, Messages
<1> QED BY <1>2, <1>7, <1>8, <1>9, <1>10, <1>11, <1>12, <1>13, <1>14

LEMMA DeliverStep ==
    ASSUME IInv, NInv, NEW h \in Peers, NEW p \in Peers, Deliver(h, p)
    PROVE  Regular /\ [Next]_vars
PROOF
<1>1. PICK m, rest, d, l : /\ m = Head(net[p][h]) /\ rest = [net EXCEPT ![p][h] = Tail(@)]
                           /\ d = OneTake(p, h) /\ l = Receiver(m)
  OBVIOUS
<1>2. /\ p \in peers[h] /\ net[p][h] # <<>>
      /\ \/ /\ m.msg.type = "JN" /\ l \notin published
            /\ net' = [rest EXCEPT ![h][p] = Append(@, Wire(Nil, Msg("JDN", m.ssid)))]
            /\ UNCHANGED vars
         \/ /\ m.msg.type = "RST" /\ l = Nil /\ ReceiveRSTAll(h, p)
            /\ PostEach(h, p, OnWorlds(h, [k \in Lsids |-> RST(World(k), p)]), rest)
         \/ /\ l \in {k \in worlds : HostOf[k] = h}
            /\ m.msg.type = "JN" => l \in published
            /\ Receive(l, p, m.ssid, m.msg, rest)
         \/ /\ l \notin {k \in worlds : HostOf[k] = h}
            /\ net' = rest /\ UNCHANGED vars
  BY <1>1 DEF Deliver, Take
<1>3. Takes(h, p, m, rest, d)
  BY <1>1, <1>2 DEF Takes
<1>4. CASE /\ m.msg.type = "JN" /\ l \notin published
           /\ net' = [rest EXCEPT ![h][p] = Append(@, Wire(Nil, Msg("JDN", m.ssid)))]
           /\ UNCHANGED vars
  BY <1>3, <1>4, IgnoredStep
<1>5. CASE /\ m.msg.type = "RST" /\ l = Nil /\ ReceiveRSTAll(h, p)
           /\ PostEach(h, p, OnWorlds(h, [k \in Lsids |-> RST(World(k), p)]), rest)
  BY <1>1, <1>2, <1>3, <1>5, ResetAllStep
<1>6. CASE /\ l \in {k \in worlds : HostOf[k] = h}
           /\ m.msg.type = "JN" => l \in published
           /\ Receive(l, p, m.ssid, m.msg, rest)
  BY <1>1, <1>2, <1>3, <1>6, ReceiveStep
<1>7. CASE l \notin {k \in worlds : HostOf[k] = h} /\ net' = rest /\ UNCHANGED vars
  BY <1>1, <1>3, <1>7, IgnoredStep
<1> QED BY <1>2, <1>4, <1>5, <1>6, <1>7

-----------------------------------------------------------------------------
(* The theorems *)

\* Every step of a host is a step of module AND, with effects that fit; only the
\* publication of a path is none.
LEMMA NetStep ==
    ASSUME IInv, NInv, NetNext
    PROVE  /\ [Next]_vars
           /\ Regular \/ UNCHANGED <<vars, net>>
PROOF
<1>1. CASE \E h \in Peers : Links(h)
  <2>1. PICK h \in Peers, p \in Peers : Connect(h, p) \/ Deliver(h, p)
    BY <1>1 DEF Links, Others
  <2> QED BY <2>1, ConnectStep, DeliverStep
<1>2. CASE \E l \in Lsids : Operations(l)
  <2>1. PICK l \in Lsids : Operations(l)
    BY <1>2
  <2>2. CASE Open(l) \/ Join(l)
    BY <2>2, OpenStep, JoinWorldNet
  <2>3. CASE Publish(l)
    BY <2>3 DEF Publish
  <2>4. CASE \E p \in Peers, s \in Sessions : Accept(l, p, s)
    BY <2>4, AcceptStep
  <2>5. CASE \E p \in Peers, s \in Sessions : Decline(l, p, s)
    BY <2>5, RefuseSteps
  <2>6. CASE Leave(l)
    <3>1. HostOf[l] \in Peers /\ l \in Sessions
      BY LsidAssumption, ClosedAssumption
    <3> QED BY <2>6, <3>1, RefuseSteps
  <2>7. CASE \E old \in SUBSET Peers : Announce(l, old)
    BY <2>7, AnnounceStep
  <2> QED BY <2>1, <2>2, <2>3, <2>4, <2>5, <2>6, <2>7 DEF Operations
<1> QED BY <1>1, <1>2 DEF NetNext

\* What a step leaves of the join targets, the connections and the paths.
LEMMA NetFrame ==
    ASSUME IInv, NInv, NetNext
    PROVE  /\ \A l \in Lsids : \/ join_hash'[l] = join_hash[l]
                               \/ JoinTo[l] # Nil /\ join_hash'[l] = HostOf[JoinTo[l]]
           /\ \A h \in Peers : h \in peers'[h] => h \in peers[h]
           /\ \A l \in published' : l \in published \/ (l \in Lsids /\ result[l] = "success")
PROOF
<1>0. join_hash \in [Lsids -> Peers \cup {Nil}] /\ peers \in [Peers -> SUBSET Peers]
  BY ClosedAssumption DEF IInv, TypeOK
<1>1. CASE UNCHANGED <<join_hash, peers, published>>
  BY <1>1
<1>2. ASSUME NEW l, NEW fx, Call(l, fx) PROVE UNCHANGED <<join_hash, peers>>
  BY <1>2 DEF Call
<1>3. CASE \E h \in Peers : Links(h)
  <2>1. PICK h \in Peers, p \in Peers : p # h /\ (Connect(h, p) \/ Deliver(h, p))
    BY <1>3 DEF Links, Others
  <2>2. CASE Connect(h, p)
    <3>1. /\ peers' = [peers EXCEPT ![h] = @ \cup {p}]
          /\ UNCHANGED <<join_hash, published>>
      BY <2>2 DEF Connect, PeerConnected
    <3> QED BY <1>0, <2>1, <3>1
  <2>3. CASE Deliver(h, p)
    <3>1. published' = published
      BY <2>3 DEF Deliver, Take
    <3>2. \/ UNCHANGED vars \/ ReceiveRSTAll(h, p)
          \/ \E l, s, m, rest : Receive(l, p, s, m, rest)
      BY <2>3 DEF Deliver, Take
    <3>3. UNCHANGED <<join_hash, peers>>
      <4>1. CASE UNCHANGED vars
        BY <4>1 DEF vars, code
      <4>2. CASE ReceiveRSTAll(h, p)
        BY <4>2 DEF ReceiveRSTAll
      <4>3. CASE \E l, s, m, rest : Receive(l, p, s, m, rest)
        <5>1. PICK l, s, m, rest : Receive(l, p, s, m, rest)
          BY <4>3
        <5>2. \E fx : Call(l, fx)
          BY <5>1 DEF Receive, ReceiveJN, ReceiveJOK, ReceiveJDN, ReceiveJNI, ReceiveMEM,
             ReceiveSJN, ReceiveCRR, ReceiveRST
        <5> QED BY <1>2, <5>2
      <4> QED BY <3>2, <4>1, <4>2, <4>3
    <3> QED BY <1>1, <3>1, <3>3
  <2> QED BY <2>1, <2>2, <2>3
<1>4. CASE \E l \in Lsids : Operations(l)
  <2>1. PICK l \in Lsids : Operations(l)
    BY <1>4
  <2>2. CASE Open(l)
    BY <1>1, <2>2 DEF Open, OpenWorld
  <2>3. CASE Join(l)
    <3>1. PICK t : t = HostOf[JoinTo[l]]
      OBVIOUS
    <3>2. /\ JoinTo[l] # Nil /\ join_hash' = [join_hash EXCEPT ![l] = t]
          /\ UNCHANGED <<peers, published>>
      BY <2>3, <3>1 DEF Join, JoinWorld
    <3> QED BY <1>0, <3>1, <3>2
  <2>4. CASE Publish(l)
    <3>1. UNCHANGED <<join_hash, peers>> /\ published' = published \cup {l} /\ result[l] = "success"
      BY <2>4 DEF Publish, Exposed, vars, code
    <3> QED BY <3>1
  <2>5. CASE \E p \in Peers, s \in Sessions : Accept(l, p, s) \/ Decline(l, p, s)
    BY <1>1, <1>2, <2>5 DEF Accept, Decline, AcceptSessionCall, DeclineSessionCall
  <2>6. CASE Leave(l)
    BY <1>1, <2>6 DEF Leave, CloseWorld
  <2>7. CASE \E old \in SUBSET Peers : Announce(l, old)
    BY <1>1, <1>2, <2>7 DEF Announce, TimerExpireCall
  <2> QED BY <2>1, <2>2, <2>3, <2>4, <2>5, <2>6, <2>7 DEF Operations
<1> QED BY <1>3, <1>4 DEF NetNext

\* No link carries anything in the initial state, and no entry is in use.
LEMMA NetInitLemma ==
    ASSUME NetInit
    PROVE  IInv /\ NInv
PROOF
<1>1. /\ Init /\ published = {} /\ net = [h \in Peers |-> [p \in Peers |-> <<>>]]
      /\ fault = "none" /\ join_hash = [l \in Lsids |-> Nil] /\ peers = [h \in Peers |-> {}]
      /\ entry = [l \in Lsids |-> [p \in Peers |-> Absent]]
  BY ClosedAssumption DEF NetInit, Init
<1>2. IInv
  BY <1>1, InitLemma
<1>3. \A x, y \in Peers : net[x][y] = <<>> /\ Listed(net[x][y]) /\ DOMAIN net[x][y] = {}
  <2>1. \A x, y \in Peers : net[x][y] = <<>>
    BY <1>1
  <2>2. Listed(<<>>) /\ DOMAIN <<>> = {}
    BY ListedLemma
  <2> QED BY <2>1, <2>2
<1>4. \A l \in Lsids, x \in Peers : entry[l][x].state = "Absent"
  BY <1>1 DEF Absent, NewANDPeerSessionState
<1>5. CallsOK
  BY <1>1 DEF CallsOK
<1>6. LinksOK
  <2>1. net = [x \in Peers |-> [y \in Peers |-> net[x][y]]]
    BY <1>1
  <2> QED BY <1>3, <2>1 DEF LinksOK
<1>7. EntriesOK /\ HearsBack
  BY <1>4 DEF EntriesOK, HearsBack, Hears
<1>8. CommitsKept
  BY <1>3 DEF CommitsKept
<1>9. ASSUME NEW l \in Lsids, JoinTo[l] # Nil PROVE JoinOnce(l)
  <2>1. HostOf[l] \in Peers /\ JoinTo[l] \in Lsids /\ HostOf[JoinTo[l]] \in Peers
    BY <1>9, JoinAssumption, LsidAssumption, ClosedAssumption
  <2>2. \A kind, n : ~Token(l, kind, n)
    BY <1>3, <1>4, <2>1 DEF Token
  <2> QED BY <2>2 DEF JoinOnce
<1> QED BY <1>2, <1>5, <1>6, <1>7, <1>8, <1>9 DEF NInv

\* A step that neither calls AND nor moves a message.
LEMMA IdleStep ==
    ASSUME NInv, UNCHANGED <<vars, net>>
    PROVE  /\ (LinksOK /\ EntriesOK /\ CommitsKept /\ HearsBack)'
           /\ \A l \in Lsids : JoinTo[l] # Nil => JoinOnce(l)'
PROOF
<1>1. /\ peers' = peers /\ used' = used /\ entry' = entry /\ said' = said /\ result' = result
      /\ net' = net
  BY DEF vars, code, history
<1>2. \A x, y, m : WireOK(x, y, m)' <=> WireOK(x, y, m)
  BY <1>1 DEF WireOK
<1>3. \A x, y, n, k, l : ResetAfter(x, y, n, k, l)' <=> ResetAfter(x, y, n, k, l)
  BY <1>1 DEF ResetAfter
<1>4. LinksOK'
  BY <1>1, <1>2 DEF NInv, LinksOK
<1>5. EntriesOK'
  BY <1>1 DEF NInv, EntriesOK
<1>6. CommitsKept'
  BY <1>1, <1>3 DEF NInv, CommitsKept
<1>7. HearsBack'
  BY <1>1, <1>3 DEF NInv, HearsBack
<1>8. ASSUME NEW l \in Lsids, JoinTo[l] # Nil PROVE JoinOnce(l)'
  <2>1. JoinOnce(l)
    BY <1>8 DEF NInv
  <2>2. /\ \A k, n : Token(l, k, n)' <=> Token(l, k, n)
        /\ Requested(l)' <=> Requested(l)
    BY <1>1 DEF Token, Requested
  <2> QED BY <2>1, <2>2 DEF JoinOnce
<1> QED BY <1>4, <1>5, <1>6, <1>7, <1>8

\* The invariants of AND and of the links are kept by every step.
LEMMA NetNextLemma ==
    ASSUME IInv, NInv, [NetNext]_netvars
    PROVE  [Next]_vars /\ IInv' /\ NInv'
PROOF
<1>1. CASE UNCHANGED netvars
  <2>1. UNCHANGED vars /\ UNCHANGED <<published, net>>
    BY <1>1 DEF netvars
  <2>2. IInv'
    BY <2>1, NextLemma
  <2>3. CallsOK'
    BY <2>1 DEF NInv, CallsOK, vars, code, history
  <2>4. NInv'
    BY <2>1, <2>3, IdleStep DEF NInv
  <2> QED BY <2>1, <2>2, <2>4
<1>2. CASE NetNext
  <2>1. [Next]_vars /\ (Regular \/ UNCHANGED <<vars, net>>)
    BY <1>2, NetStep
  <2>2. IInv'
    BY <2>1, NextLemma
  <2>3. \A l \in Lsids : result[l] # "none" => result'[l] = result[l]
    BY <2>1, ResultLemma
  <2>4. fault' = "none"
    <3>1. fault' \in {"none", "panic", "nilpeer"} /\ fault' # "panic"
      BY <2>2 DEF IInv, TypeOK, NoPanic
    <3>2. fault' # "nilpeer"
      BY <2>1 DEF Regular, NInv, CallsOK, vars, code
    <3> QED BY <3>1, <3>2
  <2>5. CallsOK'
    <3>1. /\ \A l \in Lsids : \/ join_hash'[l] = join_hash[l]
                              \/ JoinTo[l] # Nil /\ join_hash'[l] = HostOf[JoinTo[l]]
          /\ \A h \in Peers : h \in peers'[h] => h \in peers[h]
          /\ \A l \in published' : l \in published \/ (l \in Lsids /\ result[l] = "success")
      BY <1>2, NetFrame
    <3>2. /\ \A l \in published : l \in Lsids /\ result[l] = "success"
          /\ \A l \in Lsids : join_hash[l] # Nil => JoinTo[l] # Nil /\ join_hash[l] = HostOf[JoinTo[l]]
          /\ \A h \in Peers : h \notin peers[h]
      BY DEF NInv, CallsOK
    <3>3. \A l \in published' : l \in Lsids /\ result'[l] = "success"
      BY <2>3, <3>1, <3>2
    <3> QED BY <2>4, <3>1, <3>2, <3>3 DEF CallsOK
  <2>6. CASE Regular
    <3>1. PICK F, d : Step(F, d)
      BY <2>6 DEF Regular
    <3>2. LinksOK /\ EntriesOK /\ CommitsKept /\ HearsBack
      BY DEF NInv
    <3>3. LinksOK'
      BY <3>1, <3>2, LinksStep
    <3>4. EntriesOK'
      BY <3>1, <3>2, EntriesStep
    <3>5. CommitsKept'
      BY <3>1, <3>2, CommitsStep
    <3>6. HearsBack'
      BY <3>1, <3>2, HearsStep
    <3>7. ASSUME NEW l \in Lsids, JoinTo[l] # Nil PROVE JoinOnce(l)'
      <4>1. JoinOnce(l)
        BY <3>7 DEF NInv
      <4> QED BY <3>1, <3>2, <3>7, <4>1, JoinStep
    <3>8. NInv'
      BY <2>5, <3>3, <3>4, <3>5, <3>6, <3>7 DEF NInv
    <3> QED BY <2>1, <2>2, <3>8
  <2>7. CASE UNCHANGED <<vars, net>>
    <3>1. NInv'
      BY <2>5, <2>7, IdleStep DEF NInv
    <3> QED BY <2>1, <2>2, <3>1
  <2> QED BY <2>1, <2>6, <2>7
<1> QED BY <1>1, <1>2

\* The inductive invariant of all hosts and links.
THEOREM NetInvariance == NetSpec => [](IInv /\ NInv)
PROOF
<1>1. NetInit => IInv /\ NInv
  BY NetInitLemma
<1>2. (IInv /\ NInv) /\ [NetNext]_netvars => (IInv /\ NInv)'
  BY NetNextLemma
<1> QED BY <1>1, <1>2, PTL DEF NetSpec

\* The hosts implement the AND of module AND: what that module assumes of a
\* peer, these hosts do to one another.
THEOREM HostsImplementAND == NetSpec => ImplementsAND
PROOF
<1>1. NetInit => Init
  BY DEF NetInit
<1>2. (IInv /\ NInv) /\ [NetNext]_netvars => [Next]_vars
  BY NetNextLemma
<1> QED BY <1>1, <1>2, NetInvariance, PTL DEF NetSpec, ImplementsAND, Spec

\* No host panics, and none is asked to introduce a peer it is not connected to.
THEOREM NobodyFails == NetSpec => []NoFault
PROOF
<1>1. NInv => NoFault
  BY DEF NInv, CallsOK, NoFault
<1> QED BY <1>1, NetInvariance, PTL

\* A member that has dropped this world has a reset on its way to it.
THEOREM MembersHeld == NetSpec => []MembersAreHeld
PROOF
<1>1. IInv /\ NInv => MembersAreHeld
  <2> SUFFICES ASSUME IInv, NInv, NEW lk \in Apart,
                      Holds(lk[1], lk[2], {"RMEM_NJNI", "RMEM", "MEM"}),
                      ~ResetComing(lk[2], lk[1])
               PROVE  Holds(lk[2], lk[1], {"TMEM", "MEM"})
    BY DEF MembersAreHeld
  <2>1. PICK l, k : l = lk[1] /\ k = lk[2]
    OBVIOUS
  <2>2. l \in Lsids /\ k \in Lsids /\ HostOf[l] \in Peers /\ HostOf[k] \in Peers
    BY <2>1, LsidAssumption, ClosedAssumption DEF Apart
  <2>3. entry[l][HostOf[k]].sid = k /\ entry[l][HostOf[k]].state \in Hears
    BY <2>1 DEF Holds, Hears
  <2>4. ~ResetAfter(HostOf[k], HostOf[l], 0, k, l)
    BY <2>1 DEF ResetAfter, ResetComing, IsReset
  <2>5. said[k][HostOf[l]] = l
    BY <2>2, <2>3, <2>4 DEF NInv, HearsBack
  <2>6. EntryOK(entry[k][HostOf[l]], told[k][HostOf[l]], said[k][HostOf[l]], heard[k][HostOf[l]])
    BY <2>2 DEF IInv
  <2>7. entry[k][HostOf[l]].state \in {"TMEM", "MEM"} /\ entry[k][HostOf[l]].sid = l
    BY <2>2, <2>5, <2>6, LsidAssumption DEF EntryOK
  <2> QED BY <2>1, <2>7 DEF Holds
<1> QED BY <1>1, NetInvariance, PTL

\* What module ANDProofs shows of a host among arbitrary peers holds for each of
\* these hosts.
THEOREM HostsAreSound ==
    NetSpec => /\ [](EventProtocol /\ MutualConsent /\ NoDanglingCommitment)
               /\ [](ConnectedEntries /\ JoinStaysPending /\ UnjoinedWorldIsSilent)
               /\ JoinResultIsFinal
               /\ SessionsAdvance
               /\ KeepsMembership
PROOF
<1>1. NetSpec => Spec
  BY HostsImplementAND DEF ImplementsAND
<1> QED BY <1>1, EventsMakeSense, Consent, CommitmentsKept, EntriesFollowConnections, JoinsStayPending,
           UnjoinedIsSilent, ResultIsFinal, NewerSessionsOnly, MembershipKept, PTL
=============================================================================
