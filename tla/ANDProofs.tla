----------------------------- MODULE ANDProofs ------------------------------
(***************************************************************************)
(* The safety invariants of AND, for any number of peers, sessions and     *)
(* worlds.  The inductive invariant IInv says of every entry which event   *)
(* and which message came last (EntryOK) and of every world how its        *)
(* entries fit its join (WorldOK).  The lemmas on effects show that each   *)
(* handler of ANDWorld preserves EntryOK; StepLemma and CallLemma lift     *)
(* that to the calls of AND; the theorems at the end follow.               *)
(***************************************************************************)
EXTENDS AND, TLAPS, SequenceTheorems

-----------------------------------------------------------------------------
(* The inductive invariant *)

\* Entry i against what the application was told (t), the session that was
\* promised membership (sd) and the sessions heard from (h).
EntryOK(i, t, sd, h) ==
    /\ t.st # "bad"
    /\ t.st = "ready" <=> i.state = "MEM"
    /\ i.state \in {"JN", "JNI", "RMEM", "TMEM"} => t.st = "requested"
    /\ i.state \in {"JN", "JNI", "RMEM", "TMEM", "MEM"} => t.sid = i.sid
    /\ sd = (IF i.state \in {"TMEM", "MEM"} THEN i.sid ELSE Nil)
    /\ i.state \in {"RMEM_NJNI", "RMEM", "MEM"} => i.sid \in h
    /\ i.sid = Nil <=> i.state \in {"Absent", "CC", "JT", "DC_JT"}

\* The states of a join target.
Target == {"DC_JT", "JT"}

\* The states of the entries of a world that has not joined.
Quiet == {"Absent", "CC", "RMEM_NJNI", "JT", "DC_JT"}

WorldOK(l) ==
    /\ l \in worlds => \A p \in Peers :
          /\ p \in PeersOf(l) <=> entry[l][p].state \in Connected
          /\ entry[l][p].state \in Target <=> (result[l] = "none" /\ join_hash[l] = p)
    /\ l \notin worlds => \A p \in Peers : entry[l][p].state = "Absent"
    /\ l \notin used => result[l] = "none"
    /\ result[l] # "twice"
    /\ result[l] # "success" => \A p \in Peers :
          told[l][p].st = "idle" /\ entry[l][p].state \in Quiet

IInv ==
    /\ TypeOK
    /\ NoPanic
    /\ \A l \in Lsids : \A p \in Peers :
          EntryOK(entry[l][p], told[l][p], said[l][p], heard[l][p])
    /\ \A l \in Lsids : WorldOK(l)

-----------------------------------------------------------------------------
(* What events and messages do to the history variables *)

As(st, sid) == [st |-> st, sid |-> sid]

\* Sending nothing changes no commitment; one message makes a commitment
\* (JOK, MEM), withdraws it (RST of the same session) or leaves it alone.
LEMMA SayLemma ==
    /\ \A s : Say(s, <<>>) = s
    /\ \A s, m : Say(s, <<m>>) = IF m.type \in {"JOK", "MEM"} THEN m.rsid
            ELSE IF m.type = "RST" /\ m.rsid = s THEN Nil ELSE s
PROOF
<1>1. \A s : Say(s, <<>>) = s
  BY DEF Say
<1>2. ASSUME NEW s, NEW m
      PROVE  Say(s, <<m>>) = IF m.type \in {"JOK", "MEM"} THEN m.rsid
                             ELSE IF m.type = "RST" /\ m.rsid = s THEN Nil ELSE s
  <2> DEFINE tx == <<m>>
  <2>1. DOMAIN tx = {1} /\ tx[1] = m
    OBVIOUS
  <2> HIDE DEF tx
  <2>2. CASE m.type \in {"JOK", "MEM"}
    <3>1. {k \in DOMAIN tx : tx[k].type \in {"JOK", "MEM"}} = {1}
      BY <2>1, <2>2
    <3>2. (CHOOSE k \in {1} : TRUE) = 1
      OBVIOUS
    <3> QED BY <2>1, <2>2, <3>1, <3>2 DEF Say, tx
  <2>3. CASE m.type \notin {"JOK", "MEM"}
    <3>1. {k \in DOMAIN tx : tx[k].type \in {"JOK", "MEM"}} = {}
      BY <2>1, <2>3
    <3> QED BY <2>1, <2>3, <3>1 DEF Say, tx
  <2> QED BY <2>2, <2>3
<1> QED BY <1>1, <1>2

\* The view of the application after each sequence of events that a handler
\* of ANDWorld pushes about one peer.
LEMMA EventLemma ==
    /\ \A t : Observe(t, <<>>) = t
    /\ \A t, s : t.st \notin {"ready", "bad"} => Observe(t, <<Event("Request", s)>>) = As("requested", s)
    /\ \A t, s : t.st = "requested" /\ t.sid = s => Observe(t, <<Event("Ready", s)>>) = As("ready", s)
    /\ \A t, s : t.st = "ready" /\ t.sid = s => Observe(t, <<Event("Close", s)>>) = ToldIdle
    /\ \A t, s, u : t.st = "ready" /\ t.sid = s =>
          Observe(t, <<Event("Close", s), Event("Request", u)>>) = As("requested", u)
    /\ \A t, s : t.st \notin {"ready", "bad"} =>
          Observe(t, <<Event("JoinSuccess", Nil), Event("Request", s)>>) = As("requested", s)
    /\ \A t, y : y \in {"JoinFail", "ConnectRequest"} => Observe(t, <<Event(y, Nil)>>) = t
    /\ \A t : Observe(t, <<Event("PeerRegister", Nil), Event("ConnectRequest", Nil)>>) = t
    /\ \A t, s, y : y \in {"ObjectAppend", "ObjectDelete"} /\ t.st = "ready" /\ t.sid = s =>
          Observe(t, <<Event(y, s)>>) = t
  BY DEF Observe, Observe1, Event, As, ToldIdle

\* Components and type of a view of the application.
LEMMA AsLemma ==
    /\ \A st, s : As(st, s).st = st /\ As(st, s).sid = s
    /\ \A st, s : st \in {"idle", "requested", "ready"} /\ s \in Sessions \cup {Nil} => As(st, s) \in Told
    /\ ToldIdle.st = "idle" /\ ToldIdle.sid = Nil /\ ToldIdle \in Told
  BY DEF As, ToldIdle, Told

\* Which types occur in a sequence of at most two events.
LEMMA RaisesLemma ==
    /\ \A y : ~Raises(<<>>, y)
    /\ \A x, s, y : Raises(<<Event(x, s)>>, y) <=> x = y
    /\ \A x, s, z, u, y : Raises(<<Event(x, s), Event(z, u)>>, y) <=> (x = y \/ z = y)
  BY DEF Raises, Event

\* SayLemma for messages that carry a session id only.
LEMMA MsgLemma ==
    /\ \A s : Say(s, <<>>) = s
    /\ \A s, y, u : Say(s, <<Msg(y, u)>>) = IF y \in {"JOK", "MEM"} THEN u
            ELSE IF y = "RST" /\ u = s THEN Nil ELSE s
  BY SayLemma DEF Msg

\* Concatenation of sequences of at most one element.
LEMMA ConcatLemma ==
    /\ <<>> \o <<>> = <<>>
    /\ \A a : <<>> \o <<a>> = <<a>> /\ <<a>> \o <<>> = <<a>>
    /\ \A a, b : <<a>> \o <<b>> = <<a, b>>
PROOF
<1>1. <<>> \o <<>> = <<>>
  OBVIOUS
<1>2. ASSUME NEW a PROVE <<>> \o <<a>> = <<a>> /\ <<a>> \o <<>> = <<a>>
  <2>1. <<a>> \in Seq({a})
    OBVIOUS
  <2> QED BY <2>1, ConcatEmptySeq
<1>3. ASSUME NEW a, NEW b PROVE <<a>> \o <<b>> = <<a, b>>
  <2> DEFINE u == <<a>>
             v == <<b>>
             x == <<a, b>>
  <2>1. u \in Seq({a, b}) /\ v \in Seq({a, b}) /\ Len(u) = 1 /\ Len(v) = 1
    OBVIOUS
  <2>2. u \o v \in Seq({a, b}) /\ Len(u \o v) = 2 /\ (u \o v)[1] = a /\ (u \o v)[2] = b
    BY <2>1
  <2>3. x \in Seq({a, b}) /\ Len(x) = 2 /\ x[1] = a /\ x[2] = b
    OBVIOUS
  <2> HIDE DEF u, v, x
  <2>4. u \o v = x
    BY <2>2, <2>3, SeqEqual
  <2> QED BY <2>4 DEF u, v, x
<1> QED BY <1>1, <1>2, <1>3

-----------------------------------------------------------------------------
(* Effects on one entry *)

\* Effect e on entry i keeps EntryOK, does not panic, reports a failed join
\* exactly when the entry stops being the join target, and no success.
Sound(i, t, sd, h, e) ==
    /\ e.info \in Info
    /\ Observe(t, e.ev) \in Told
    /\ EntryOK(e.info, Observe(t, e.ev), Say(sd, e.tx), h)
    /\ e.fault \in {"none", "nilpeer"}
    /\ e.info.state \in Target => i.state \in Target
    /\ ~Raises(e.ev, "JoinSuccess")
    /\ Raises(e.ev, "JoinFail") <=> (i.state \in Target /\ e.info.state \notin Target)

\* The effect neither connects nor disconnects the peer.
Linked(i, e) == e.info.state \in Connected <=> i.state \in Connected

\* In a world that has not joined, the effect tells the application nothing.
Silent(i, t, e) ==
    i.state \in Quiet /\ t.st = "idle"
    => e.info.state \in Quiet /\ Observe(t, e.ev).st = "idle"

\* Entry i with its history is consistent.
Consistent(i, t, sd, h) ==
    i \in Info /\ t \in Told /\ sd \in Sessions \cup {Nil} /\ h \in SUBSET Sessions
    /\ EntryOK(i, t, sd, h)

\* A handler that leaves an entry alone preserves EntryOK.
LEMMA KeepSound ==
    ASSUME NEW i, NEW t, NEW sd, NEW h, Consistent(i, t, sd, h)
    PROVE  Sound(i, t, sd, h, Keep(i)) /\ Linked(i, Keep(i)) /\ Silent(i, t, Keep(i))
PROOF
<1> USE MsgLemma, EventLemma, AsLemma, RaisesLemma, NilAssumption
    DEF EntryOK, Sound, Linked, Silent, Consistent, Effect, Cleared, Absent,
        NewANDPeerSessionState, Info, WS, Connected, Disconnected, Target, Quiet, SjnMax
<1> QED BY DEF Keep

\* ClearStates, for the entries it is called with: those of connected peers,
\* and those of DeclineSession.
LEMMA ClearSound ==
    ASSUME NEW i, NEW t, NEW sd, NEW h, Consistent(i, t, sd, h),
           i.state \in Connected \cup {"DC_JNI"}
    PROVE  /\ Sound(i, t, sd, h, ClearStates(i))
           /\ Linked(i, ClearStates(i))
           /\ Silent(i, t, ClearStates(i))
PROOF
<1> DEFINE rst == <<Msg("RST", i.sid)>>
<1> USE MsgLemma, EventLemma, AsLemma, RaisesLemma, NilAssumption
    DEF EntryOK, Sound, Linked, Silent, Consistent, Effect, Cleared, Absent,
        NewANDPeerSessionState, Info, WS, Connected, Disconnected, Target, Quiet, SjnMax
<1>1. CASE i.state = "DC_JNI"
  <2>1. ClearStates(i) = Effect(Absent, <<>>, <<>>)
    BY <1>1 DEF ClearStates, Keep
  <2> QED BY <1>1, <2>1
<1>2. CASE i.state = "CC"
  <2>1. ClearStates(i) = Effect(Cleared, <<>>, <<>>)
    BY <1>2 DEF ClearStates, Keep
  <2> QED BY <1>2, <2>1
<1>3. CASE i.state = "JT"
  <2>1. ClearStates(i) = Effect(Cleared, rst, <<Event("JoinFail", Nil)>>)
    BY <1>3 DEF ClearStates
  <2> QED BY <1>3, <2>1
<1>4. CASE i.state = "JN"
  <2>1. ClearStates(i) = Effect(Cleared, <<Msg("JDN", i.sid)>>, <<>>)
    BY <1>4 DEF ClearStates
  <2> QED BY <1>4, <2>1
<1>5. CASE i.state = "MEM"
  <2>1. ClearStates(i) = Effect(Cleared, rst, <<Event("Close", i.sid)>>)
    BY <1>5 DEF ClearStates
  <2> QED BY <1>5, <2>1
<1>6. CASE i.state \in {"RMEM_NJNI", "JNI", "RMEM", "TMEM"}
  <2>1. ClearStates(i) = Effect(Cleared, rst, <<>>)
    BY <1>6 DEF ClearStates
  <2> QED BY <1>6, <2>1
<1> QED BY <1>1, <1>2, <1>3, <1>4, <1>5, <1>6

\* The states whose session TryUpdateSessionID may replace.
Held == {"JN", "RMEM_NJNI", "JNI", "RMEM", "TMEM", "MEM"}

\* An entry for which the application is asked to accept session s; a ready
\* member is closed first.
LEMMA RequestSound ==
    ASSUME NEW i, NEW t, NEW sd, NEW h, Consistent(i, t, sd, h), i.state \notin Target,
           NEW s \in Sessions, NEW j \in Info, j.sid = s, j.state \in {"JN", "JNI", "RMEM"},
           j.state = "RMEM" => s \in h,
           NEW tx, Say(sd, tx) = Nil, NEW ev,
           \/ t.st # "ready" /\ ev = <<Event("Request", s)>>
           \/ t.st = "ready" /\ ev = <<Event("Close", t.sid), Event("Request", s)>>
    PROVE  Sound(i, t, sd, h, Effect(j, tx, ev))
PROOF
<1>0. t.st # "bad"
  BY DEF Consistent, EntryOK
<1>1. Observe(t, ev) = As("requested", s)
  BY <1>0, EventLemma
<1>2. EntryOK(j, Observe(t, ev), Say(sd, tx), h)
  BY <1>1, AsLemma, NilAssumption DEF EntryOK
<1>3. ~Raises(ev, "JoinSuccess") /\ ~Raises(ev, "JoinFail")
  BY RaisesLemma
<1>4. j.state \notin Target
  BY DEF Target
<1> QED BY <1>1, <1>2, <1>3, <1>4, AsLemma DEF Sound, Effect

\* An entry that has only been sent MEM.
LEMMA EarlyMemSound ==
    ASSUME NEW i, NEW t, NEW sd, NEW h, Consistent(i, t, sd, h), i.state \notin Target,
           NEW s \in h, NEW j \in Info, j.sid = s, j.state = "RMEM_NJNI",
           NEW tx, Say(sd, tx) = Nil, NEW ev,
           \/ t.st # "ready" /\ ev = <<>>
           \/ t.st = "ready" /\ ev = <<Event("Close", t.sid)>>
    PROVE  Sound(i, t, sd, h, Effect(j, tx, ev)) /\ Silent(i, t, Effect(j, tx, ev))
PROOF
<1>1. Observe(t, ev) \in {t, ToldIdle} /\ Observe(t, ev).st # "ready"
  BY EventLemma, AsLemma
<1>2. EntryOK(j, Observe(t, ev), Say(sd, tx), h)
  <2>1. j.sid # Nil
    BY NilAssumption DEF Consistent
  <2> QED BY <1>1, <2>1, AsLemma DEF EntryOK, Consistent
<1>3. ~Raises(ev, "JoinSuccess") /\ ~Raises(ev, "JoinFail")
  BY RaisesLemma
<1>4. j.state \notin Target /\ Observe(t, ev) \in Told
  BY <1>1, AsLemma DEF Target, Consistent
<1>5. Effect(j, tx, ev).info = j /\ Effect(j, tx, ev).tx = tx /\ Effect(j, tx, ev).ev = ev
      /\ Effect(j, tx, ev).fault = "none"
  BY DEF Effect
<1>6. Silent(i, t, Effect(j, tx, ev))
  BY <1>1, <1>5, AsLemma DEF Silent, Quiet
<1> QED BY <1>2, <1>3, <1>4, <1>5, <1>6 DEF Sound

\* A newer session after JN or JNI (a request is raised) or after MEM.
LEMMA RenewedSound ==
    ASSUME NEW i, NEW t, NEW sd, NEW h, Consistent(i, t, sd, h), i.state \in Held,
           NEW s \in Sessions
    PROVE  /\ \A st \in {"JN", "JNI"} :
                 /\ Sound(i, t, sd, h, Renewed(i, s, st, <<Event("Request", s)>>))
                 /\ Linked(i, Renewed(i, s, st, <<Event("Request", s)>>))
           /\ s \in h => /\ Sound(i, t, sd, h, Renewed(i, s, "RMEM_NJNI", <<>>))
                         /\ Linked(i, Renewed(i, s, "RMEM_NJNI", <<>>))
                         /\ Silent(i, t, Renewed(i, s, "RMEM_NJNI", <<>>))
PROOF
<1> DEFINE New(st) == NewANDPeerSessionState(s, st)
           tx == ClearStates(i).tx
           ev == ClearStates(i).ev
           req == Event("Request", s)
<1>1. \/ t.st = "ready" /\ ev = <<Event("Close", t.sid)>>
      \/ t.st # "ready" /\ ev = <<>>
  BY DEF ClearStates, Held, Disconnected, Effect, Consistent, EntryOK
<1>2. Say(sd, tx) = Nil
  <2>1. tx = <<Msg("RST", i.sid)>> \/ (i.state = "JN" /\ tx = <<Msg("JDN", i.sid)>>)
    BY DEF ClearStates, Held, Disconnected, Effect
  <2>2. sd = i.sid \/ (sd = Nil /\ i.sid # Nil)
    BY DEF Consistent, EntryOK, Held
  <2>3. i.state = "JN" => sd = Nil
    BY DEF Consistent, EntryOK
  <2> HIDE DEF tx
  <2> QED BY <2>1, <2>2, <2>3, MsgLemma
<1>3. \A st, ev2 : Renewed(i, s, st, ev2) = Effect(New(st), tx, ev \o ev2)
  BY DEF Renewed
<1>4. \A st \in Held : New(st) \in Info /\ New(st).sid = s /\ New(st).state = st
  BY DEF NewANDPeerSessionState, Info, WS, Connected, Held, SjnMax
<1>5. i.state \notin Target /\ i.state \in Connected
  BY DEF Held, Target, Connected
<1> HIDE DEF New, tx, ev
<1>6. ASSUME NEW st \in {"JN", "JNI"}
      PROVE  /\ Sound(i, t, sd, h, Renewed(i, s, st, <<req>>))
             /\ Linked(i, Renewed(i, s, st, <<req>>))
  <2>1. \/ t.st = "ready" /\ ev \o <<req>> = <<Event("Close", t.sid), req>>
        \/ t.st # "ready" /\ ev \o <<req>> = <<req>>
    BY <1>1, ConcatLemma
  <2>2. Sound(i, t, sd, h, Effect(New(st), tx, ev \o <<req>>))
    BY <1>2, <1>4, <1>5, <2>1, RequestSound DEF Held
  <2>3. Linked(i, Effect(New(st), tx, ev \o <<req>>))
    BY <1>4, <1>5 DEF Linked, Effect, Connected, Held
  <2> QED BY <1>3, <2>2, <2>3
<1>7. ASSUME s \in h
      PROVE  /\ Sound(i, t, sd, h, Renewed(i, s, "RMEM_NJNI", <<>>))
             /\ Linked(i, Renewed(i, s, "RMEM_NJNI", <<>>))
             /\ Silent(i, t, Renewed(i, s, "RMEM_NJNI", <<>>))
  <2>1. ev \o <<>> = ev
    BY <1>1, ConcatLemma
  <2>2. /\ Sound(i, t, sd, h, Effect(New("RMEM_NJNI"), tx, ev))
        /\ Silent(i, t, Effect(New("RMEM_NJNI"), tx, ev))
    BY <1>1, <1>2, <1>4, <1>5, <1>7, EarlyMemSound DEF Held
  <2>3. Linked(i, Effect(New("RMEM_NJNI"), tx, ev))
    BY <1>4, <1>5 DEF Linked, Effect, Connected, Held
  <2> QED BY <1>3, <2>1, <2>2, <2>3
<1> QED BY <1>6, <1>7

\* JNI_MEMS preserves EntryOK for every entry but a join target.
LEMMA JNI_MEMS_Sound ==
    ASSUME NEW i, NEW t, NEW sd, NEW h, Consistent(i, t, sd, h), i.state \notin Target,
           NEW s \in Sessions
    PROVE  Sound(i, t, sd, h, JNI_MEMS(i, s)) /\ Linked(i, JNI_MEMS(i, s))
PROOF
<1> DEFINE New(st) == NewANDPeerSessionState(s, st)
           req == <<Event("Request", s)>>
           e == JNI_MEMS(i, s)
           reg == <<Event("PeerRegister", Nil), Event("ConnectRequest", Nil)>>
<1>1. /\ i.state = "Absent" => e = Effect(New("DC_JNI"), <<>>, reg)
      /\ i.state = "DC_JNI" => e = Effect(New("DC_JNI"), <<>>, <<>>) \/ e = Keep(i)
      /\ i.state = "CC" => e = Effect(New("JNI"), <<>>, req)
      /\ i.state \in Held => \/ e = Renewed(i, s, "JNI", req)
                             \/ e = Keep(i)
                             \/ /\ i.state = "RMEM_NJNI" /\ i.sid = s
                                /\ e = Effect([i EXCEPT !.state = "RMEM"], <<>>, req)
  BY DEF JNI_MEMS, Held, Keep
<1>2. i.state \in {"Absent", "DC_JNI", "CC"} \cup Held
  BY DEF Consistent, Info, WS, Connected, Disconnected, Target, Held
<1>3. \A st \in {"DC_JNI", "JNI"} : New(st) \in Info /\ New(st).sid = s /\ New(st).state = st
  BY DEF NewANDPeerSessionState, Info, WS, Connected, Disconnected, SjnMax
<1>4. s # Nil
  BY NilAssumption
<1> HIDE DEF e, New
<1>5. CASE e = Keep(i)
  BY <1>5, KeepSound DEF e
<1>6. CASE i.state \in Held /\ e = Renewed(i, s, "JNI", req)
  BY <1>6, RenewedSound DEF e
<1>7. CASE i.state \in {"Absent", "DC_JNI"} /\ e \in {Effect(New("DC_JNI"), <<>>, <<>>),
                                                      Effect(New("DC_JNI"), <<>>, reg)}
  <2>1. /\ e.info = New("DC_JNI") /\ e.tx = <<>> /\ e.ev \in {<<>>, reg} /\ e.fault = "none"
    BY <1>7 DEF Effect
  <2>2. Observe(t, e.ev) = t /\ Say(sd, e.tx) = sd
    BY <2>1, EventLemma, MsgLemma
  <2>3. ~Raises(e.ev, "JoinSuccess") /\ ~Raises(e.ev, "JoinFail")
    BY <2>1, RaisesLemma
  <2>4. EntryOK(New("DC_JNI"), t, sd, h)
    BY <1>3, <1>4, <1>7 DEF Consistent, EntryOK
  <2>5. Sound(i, t, sd, h, e) /\ Linked(i, e)
    BY <1>3, <1>7, <2>1, <2>2, <2>3, <2>4 DEF Sound, Linked, Target, Connected, Consistent
  <2> QED BY <2>5 DEF e
<1>8. CASE i.state = "CC"
  <2>1. t.st # "ready" /\ sd = Nil
    BY <1>8 DEF Consistent, EntryOK
  <2>2. Sound(i, t, sd, h, Effect(New("JNI"), <<>>, req))
    BY <1>3, <2>1, MsgLemma, RequestSound
  <2>3. Linked(i, Effect(New("JNI"), <<>>, req))
    BY <1>3, <1>8 DEF Linked, Effect, Connected
  <2> QED BY <1>1, <1>8, <2>2, <2>3 DEF e
<1>9. CASE i.state = "RMEM_NJNI" /\ i.sid = s /\ e = Effect([i EXCEPT !.state = "RMEM"], <<>>, req)
  <2> DEFINE j == [i EXCEPT !.state = "RMEM"]
  <2>1. j \in Info /\ j.sid = s /\ j.state = "RMEM" /\ s \in h
    BY <1>9 DEF Consistent, EntryOK, Info, WS, Connected
  <2>2. t.st # "ready" /\ sd = Nil
    BY <1>9 DEF Consistent, EntryOK
  <2> HIDE DEF j
  <2>3. Sound(i, t, sd, h, Effect(j, <<>>, req))
    BY <2>1, <2>2, MsgLemma, RequestSound
  <2>4. Linked(i, Effect(j, <<>>, req))
    BY <1>9, <2>1 DEF Linked, Effect, Connected
  <2> QED BY <1>9, <2>3, <2>4 DEF e, j
<1> QED BY <1>1, <1>2, <1>5, <1>6, <1>7, <1>8, <1>9

\* An effect that leaves state and session of the entry alone.
LEMMA SameSound ==
    ASSUME NEW i, NEW t, NEW sd, NEW h, Consistent(i, t, sd, h),
           NEW e, e.info \in Info, e.info.state = i.state, e.info.sid = i.sid,
           Observe(t, e.ev) = t, ~Raises(e.ev, "JoinSuccess"), ~Raises(e.ev, "JoinFail"),
           Say(sd, e.tx) = sd, e.fault \in {"none", "nilpeer"}
    PROVE  Sound(i, t, sd, h, e) /\ Linked(i, e) /\ Silent(i, t, e)
PROOF
<1>1. EntryOK(e.info, t, sd, h)
  BY DEF Consistent, EntryOK
<1>2. Sound(i, t, sd, h, e)
  BY <1>1 DEF Sound, Consistent
<1> QED BY <1>2 DEF Linked, Silent

\* A message to the peer, or several, none of them about its membership.
LEMMA SayOther ==
    ASSUME NEW s, NEW tx, \A k \in DOMAIN tx : tx[k].type \notin {"JOK", "MEM", "RST"}
    PROVE  Say(s, tx) = s
PROOF
<1>1. {k \in DOMAIN tx : tx[k].type \in {"JOK", "MEM"}} = {}
  OBVIOUS
<1> QED BY <1>1 DEF Say

\* An answer that leaves the entry alone, to a session that was promised nothing.
LEMMA ReplySound ==
    ASSUME NEW i, NEW t, NEW sd, NEW h, Consistent(i, t, sd, h),
           NEW y \in {"RST", "JDN"}, NEW s \in Sessions, y = "JDN" \/ s # sd
    PROVE  LET e == Effect(i, <<Msg(y, s)>>, <<>>)
           IN  Sound(i, t, sd, h, e) /\ Linked(i, e) /\ Silent(i, t, e)
PROOF
<1> DEFINE e == Effect(i, <<Msg(y, s)>>, <<>>)
<1>1. e.info = i /\ e.tx = <<Msg(y, s)>> /\ e.ev = <<>> /\ e.fault = "none"
  BY DEF Effect
<1>2. Say(sd, <<Msg(y, s)>>) = sd
  BY MsgLemma
<1> HIDE DEF e
<1>3. Sound(i, t, sd, h, e) /\ Linked(i, e) /\ Silent(i, t, e)
  BY <1>1, <1>2, SameSound, EventLemma, RaisesLemma DEF Consistent
<1> QED BY <1>3 DEF e

-----------------------------------------------------------------------------
(* Handlers that affect the entry of one peer *)

\* A join request of a connected peer preserves EntryOK of all entries.
LEMMA JN_Sound ==
    ASSUME NEW w, NEW p, NEW t, NEW sd, NEW h, Consistent(w.peers[p], t, sd, h),
           w.peers[p].state \in Connected, NEW s \in Sessions
    PROVE  \E e : /\ JN(w, p, s) = At(w, p, e)
                  /\ Sound(w.peers[p], t, sd, h, e) /\ Linked(w.peers[p], e)
PROOF
<1> DEFINE i == w.peers[p]
           req == <<Event("Request", s)>>
           j == NewANDPeerSessionState(s, "JN")
<1>1. CASE i.state = "CC"
  <2>1. JN(w, p, s) = At(w, p, Effect(j, <<>>, req))
    BY <1>1 DEF JN
  <2>2. j \in Info /\ j.sid = s /\ j.state = "JN"
    BY DEF NewANDPeerSessionState, Info, WS, Connected, SjnMax
  <2>3. t.st # "ready" /\ sd = Nil /\ i.state \notin Target
    BY <1>1 DEF Consistent, EntryOK, Target
  <2> HIDE DEF j
  <2>4. Sound(i, t, sd, h, Effect(j, <<>>, req))
    BY <2>2, <2>3, MsgLemma, RequestSound
  <2>5. Linked(i, Effect(j, <<>>, req))
    BY <1>1, <2>2 DEF Linked, Effect, Connected
  <2> QED BY <2>1, <2>4, <2>5
<1>2. CASE i.state \in Held /\ Newer(i, s)
  <2>1. JN(w, p, s) = At(w, p, Renewed(i, s, "JN", req))
    BY <1>2 DEF JN, Held
  <2> QED BY <1>2, <2>1, RenewedSound
<1>3. CASE i.state = "JT" \/ (i.state \in Held /\ ~Newer(i, s))
  <2>1. JN(w, p, s) = At(w, p, Effect(i, <<Msg("JDN", s)>>, <<>>))
    BY <1>3 DEF JN, Held
  <2> QED BY <2>1, ReplySound
<1> QED BY <1>1, <1>2, <1>3 DEF Connected, Held

\* MEM of a connected peer preserves EntryOK, also in a world that has not
\* joined, where it stays silent.
LEMMA MEM_Sound ==
    ASSUME NEW w, NEW p, NEW t, NEW sd, NEW h, Consistent(w.peers[p], t, sd, h),
           w.peers[p].state \in Connected, NEW s \in h
    PROVE  \E e : /\ MEM(w, p, s) = At(w, p, e)
                  /\ Sound(w.peers[p], t, sd, h, e) /\ Linked(w.peers[p], e)
                  /\ Silent(w.peers[p], t, e)
PROOF
<1> DEFINE i == w.peers[p]
           j == NewANDPeerSessionState(s, "RMEM_NJNI")
<1>0. s \in Sessions /\ s # Nil
  BY NilAssumption DEF Consistent
<1>1. CASE i.state = "CC"
  <2>1. MEM(w, p, s) = At(w, p, Effect(j, <<>>, <<>>))
    BY <1>1 DEF MEM, Keep
  <2>2. j \in Info /\ j.sid = s /\ j.state = "RMEM_NJNI"
    BY <1>0 DEF NewANDPeerSessionState, Info, WS, Connected, SjnMax
  <2>3. t.st # "ready" /\ sd = Nil /\ i.state \notin Target
    BY <1>1 DEF Consistent, EntryOK, Target
  <2> HIDE DEF j
  <2>4. Sound(i, t, sd, h, Effect(j, <<>>, <<>>)) /\ Silent(i, t, Effect(j, <<>>, <<>>))
    BY <2>2, <2>3, MsgLemma, EarlyMemSound
  <2>5. Linked(i, Effect(j, <<>>, <<>>))
    BY <1>1, <2>2 DEF Linked, Effect, Connected
  <2> QED BY <2>1, <2>4, <2>5
<1>2. CASE i.state = "JT"
  <2>1. MEM(w, p, s) = At(w, p, ClearStates(i))
    BY <1>2 DEF MEM
  <2> QED BY <2>1, ClearSound
<1>3. CASE i.state \in Held /\ Newer(i, s)
  <2>1. MEM(w, p, s) = At(w, p, Renewed(i, s, "RMEM_NJNI", <<>>))
    BY <1>3 DEF MEM, Held
  <2> QED BY <1>0, <1>3, <2>1, RenewedSound
<1>4. CASE i.state = "JNI" /\ ~Newer(i, s) /\ i.sid = s
  <2> DEFINE r == [i EXCEPT !.state = "RMEM"]
             e == Effect(r, <<>>, <<>>)
  <2>1. MEM(w, p, s) = At(w, p, e)
    BY <1>4 DEF MEM, Keep
  <2>2. r \in Info /\ r.sid = s /\ r.state = "RMEM"
    BY <1>4 DEF Consistent, Info, WS, Connected
  <2>3. e.info = r /\ e.tx = <<>> /\ e.ev = <<>> /\ e.fault = "none"
    BY DEF Effect
  <2> HIDE DEF r, e
  <2>4. EntryOK(r, t, sd, h)
    BY <1>0, <1>4, <2>2 DEF Consistent, EntryOK
  <2>5. Sound(i, t, sd, h, e)
    BY <1>4, <2>2, <2>3, <2>4, EventLemma, MsgLemma, RaisesLemma DEF Sound, Target, Consistent
  <2>6. Linked(i, e) /\ Silent(i, t, e)
    BY <1>4, <2>2, <2>3 DEF Linked, Silent, Connected, Quiet
  <2> QED BY <2>1, <2>5, <2>6
<1>5. CASE i.state = "TMEM" /\ ~Newer(i, s) /\ i.sid = s
  <2> DEFINE r == [i EXCEPT !.state = "MEM"]
             e == Effect(r, <<>>, <<Event("Ready", s)>>)
  <2>1. MEM(w, p, s) = At(w, p, e)
    BY <1>5 DEF MEM
  <2>2. r \in Info /\ r.sid = s /\ r.state = "MEM"
    BY <1>5 DEF Consistent, Info, WS, Connected
  <2>3. e.info = r /\ e.tx = <<>> /\ e.ev = <<Event("Ready", s)>> /\ e.fault = "none"
    BY DEF Effect
  <2>4. t.st = "requested" /\ t.sid = s /\ sd = s
    BY <1>5 DEF Consistent, EntryOK
  <2> HIDE DEF r, e
  <2>5. Observe(t, e.ev) = As("ready", s) /\ Say(sd, e.tx) = s
    BY <2>3, <2>4, EventLemma, MsgLemma
  <2>6. EntryOK(r, As("ready", s), s, h)
    BY <1>0, <2>2, AsLemma DEF EntryOK
  <2>7. Sound(i, t, sd, h, e)
    BY <1>0, <1>5, <2>2, <2>3, <2>5, <2>6, AsLemma, RaisesLemma DEF Sound, Target
  <2>8. Linked(i, e) /\ Silent(i, t, e)
    BY <1>5, <2>2, <2>3 DEF Linked, Silent, Connected, Quiet
  <2> QED BY <2>1, <2>7, <2>8
<1>6. CASE i.state \in Held /\ ~Newer(i, s) /\ ~(i.state \in {"JNI", "TMEM"} /\ i.sid = s)
  <2>1. MEM(w, p, s) = At(w, p, Keep(i))
    BY <1>6 DEF MEM, Held
  <2> QED BY <2>1, KeepSound
<1> QED BY <1>1, <1>2, <1>3, <1>4, <1>5, <1>6 DEF Connected, Held

-----------------------------------------------------------------------------
(* Handlers, as effects on all the entries of a world.  T, S and H are the    *)
(* told, said and heard of that world.                                       *)

WConsistent(w, T, S, H) == \A q \in Peers : Consistent(w.peers[q], T[q], S[q], H[q])

WSound(w, T, S, H, fx) ==
    \A q \in Peers : Sound(w.peers[q], T[q], S[q], H[q], fx[q]) /\ Linked(w.peers[q], fx[q])

WSilent(w, T, fx) == \A q \in Peers : Silent(w.peers[q], T[q], fx[q])

\* An effect on one entry that is sound is sound for the world.
LEMMA AtSound ==
    ASSUME NEW w, NEW T, NEW S, NEW H, WConsistent(w, T, S, H), NEW p \in Peers, NEW e,
           Sound(w.peers[p], T[p], S[p], H[p], e), Linked(w.peers[p], e)
    PROVE  /\ WSound(w, T, S, H, At(w, p, e))
           /\ Silent(w.peers[p], T[p], e) => WSilent(w, T, At(w, p, e))
PROOF
<1>1. \A q \in Peers : At(w, p, e)[q] = IF q = p THEN e ELSE Keep(w.peers[q])
  BY DEF At
<1>2. \A q \in Peers : /\ Sound(w.peers[q], T[q], S[q], H[q], Keep(w.peers[q]))
                       /\ Linked(w.peers[q], Keep(w.peers[q]))
                       /\ Silent(w.peers[q], T[q], Keep(w.peers[q]))
  BY KeepSound DEF WConsistent
<1> QED BY <1>1, <1>2 DEF WSound, WSilent

\* The handlers of a message that can reach a world in any state of its join.
LEMMA ClearAtSound ==
    ASSUME NEW w, NEW T, NEW S, NEW H, WConsistent(w, T, S, H), NEW p \in Peers,
           w.peers[p].state \in Connected
    PROVE  /\ WSound(w, T, S, H, RST(w, p)) /\ WSilent(w, T, RST(w, p))
           /\ WSound(w, T, S, H, At(w, p, Reset(w.peers[p])))
           /\ WSilent(w, T, At(w, p, Reset(w.peers[p])))
PROOF
<1> DEFINE c == ClearStates(w.peers[p])
<1>1. Sound(w.peers[p], T[p], S[p], H[p], c) /\ Linked(w.peers[p], c) /\ Silent(w.peers[p], T[p], c)
  BY ClearSound DEF WConsistent
<1>2. RST(w, p) = At(w, p, c) /\ Reset(w.peers[p]) = c
  BY DEF RST, Reset
<1> QED BY <1>1, <1>2, AtSound

\* JDN preserves EntryOK, and reports the failed join if it was pending.
LEMMA JDN_Sound ==
    ASSUME NEW w, NEW T, NEW S, NEW H, WConsistent(w, T, S, H), NEW p \in Peers
    PROVE  WSound(w, T, S, H, JDN(w, p)) /\ WSilent(w, T, JDN(w, p))
PROOF
<1> DEFINE i == w.peers[p]
           e == Effect(Cleared, <<>>, <<Event("JoinFail", Nil)>>)
<1>1. CASE w.join_hash = p /\ i.state = "JT"
  <2>1. JDN(w, p) = At(w, p, e)
    BY <1>1 DEF JDN
  <2>2. /\ e.info = Cleared /\ e.tx = <<>> /\ e.ev = <<Event("JoinFail", Nil)>> /\ e.fault = "none"
        /\ Cleared \in Info /\ Cleared.state = "CC" /\ Cleared.sid = Nil
    BY DEF Effect, Cleared, NewANDPeerSessionState, Info, WS, Connected, SjnMax
  <2> HIDE DEF e
  <2>3. Observe(T[p], e.ev) = T[p] /\ Say(S[p], e.tx) = S[p]
        /\ ~Raises(e.ev, "JoinSuccess") /\ Raises(e.ev, "JoinFail")
    BY <2>2, EventLemma, MsgLemma, RaisesLemma
  <2>4. Consistent(i, T[p], S[p], H[p])
    BY DEF WConsistent
  <2>5. EntryOK(Cleared, T[p], S[p], H[p])
    BY <1>1, <2>2, <2>4 DEF Consistent, EntryOK
  <2>6. Sound(i, T[p], S[p], H[p], e) /\ Linked(i, e) /\ Silent(i, T[p], e)
    BY <1>1, <2>2, <2>3, <2>4, <2>5
       DEF Sound, Linked, Silent, Target, Connected, Quiet, Consistent
  <2> QED BY <2>1, <2>6, AtSound
<1>2. CASE ~(w.join_hash = p /\ i.state = "JT")
  <2>1. JDN(w, p) = At(w, p, Keep(i))
    BY <1>2 DEF JDN
  <2> QED BY <2>1, KeepSound, AtSound DEF WConsistent
<1> QED BY <1>1, <1>2

\* SOA and SOD preserve EntryOK: their events only reach ready members.
LEMMA ObjectSound ==
    ASSUME NEW w, NEW T, NEW S, NEW H, WConsistent(w, T, S, H), NEW p \in Peers, NEW s \in Sessions,
           NEW y \in {"ObjectAppend", "ObjectDelete"}
    PROVE  WSound(w, T, S, H, ObjectUpdate(w, p, s, y)) /\ WSilent(w, T, ObjectUpdate(w, p, s, y))
PROOF
<1> DEFINE i == w.peers[p]
           e == Effect(i, <<>>, <<Event(y, s)>>)
<1>0. Consistent(i, T[p], S[p], H[p])
  BY DEF WConsistent
<1>1. CASE i.sid # s
  <2>1. s # S[p]
    BY <1>0, <1>1, NilAssumption DEF Consistent, EntryOK
  <2>2. ObjectUpdate(w, p, s, y) = At(w, p, Effect(i, <<Msg("RST", s)>>, <<>>))
    BY <1>1 DEF ObjectUpdate
  <2> QED BY <1>0, <2>1, <2>2, ReplySound, AtSound
<1>2. CASE i.sid = s /\ i.state = "MEM"
  <2>1. ObjectUpdate(w, p, s, y) = At(w, p, e)
    BY <1>2 DEF ObjectUpdate
  <2>2. e.info = i /\ e.tx = <<>> /\ e.ev = <<Event(y, s)>> /\ e.fault = "none"
    BY DEF Effect
  <2> HIDE DEF e
  <2>3. T[p].st = "ready" /\ T[p].sid = s
    BY <1>0, <1>2 DEF Consistent, EntryOK
  <2>4. Observe(T[p], e.ev) = T[p] /\ Say(S[p], e.tx) = S[p]
        /\ ~Raises(e.ev, "JoinSuccess") /\ ~Raises(e.ev, "JoinFail")
    BY <2>2, <2>3, EventLemma, MsgLemma, RaisesLemma
  <2>5. Sound(i, T[p], S[p], H[p], e) /\ Linked(i, e) /\ Silent(i, T[p], e)
    BY <1>0, <2>2, <2>4, SameSound DEF Consistent
  <2> QED BY <2>1, <2>5, AtSound
<1>3. CASE i.sid = s /\ i.state # "MEM"
  <2>1. ObjectUpdate(w, p, s, y) = At(w, p, Keep(i))
    BY <1>3 DEF ObjectUpdate
  <2> QED BY <1>0, <2>1, KeepSound, AtSound
<1> QED BY <1>1, <1>2, <1>3

\* JNI of a member introduces another peer, JNI of anyone else resets it;
\* both preserve EntryOK.
LEMMA JNI_Sound ==
    ASSUME NEW w, NEW T, NEW S, NEW H, WConsistent(w, T, S, H), NEW p \in Peers, NEW s \in Sessions,
           NEW q \in Peers, NEW u \in Sessions, w.peers[p].state \in Connected,
           w.peers[p].state = "MEM" => w.peers[q].state \notin Target
    PROVE  /\ WSound(w, T, S, H, JNI(w, p, s, q, u))
           /\ w.peers[p].state # "MEM" => WSilent(w, T, JNI(w, p, s, q, u))
PROOF
<1>1. CASE IsProperMember(w.peers[p], s)
  <2>1. JNI(w, p, s, q, u) = At(w, q, JNI_MEMS(w.peers[q], u)) /\ w.peers[p].state = "MEM"
    BY <1>1 DEF JNI, IsProperMember
  <2>2. /\ Sound(w.peers[q], T[q], S[q], H[q], JNI_MEMS(w.peers[q], u))
        /\ Linked(w.peers[q], JNI_MEMS(w.peers[q], u))
    BY <2>1, JNI_MEMS_Sound DEF WConsistent
  <2> QED BY <2>1, <2>2, AtSound
<1>2. CASE ~IsProperMember(w.peers[p], s)
  <2>1. JNI(w, p, s, q, u) = At(w, p, Reset(w.peers[p]))
    BY <1>2 DEF JNI
  <2> QED BY <2>1, ClearAtSound
<1> QED BY <1>1, <1>2

\* Sending to members, counting announcements and the nil Peer of CRR_MEMS leave
\* states and sessions alone.
LEMMA OthersSound ==
    ASSUME NEW w, NEW T, NEW S, NEW H, WConsistent(w, T, S, H), NEW fx,
           \A q \in Peers :
              /\ fx[q].info \in Info
              /\ fx[q].info.state = w.peers[q].state /\ fx[q].info.sid = w.peers[q].sid
              /\ fx[q].ev = <<>> /\ fx[q].fault \in {"none", "nilpeer"}
              /\ \A k \in DOMAIN fx[q].tx : fx[q].tx[k].type \notin {"JOK", "MEM", "RST"}
    PROVE  WSound(w, T, S, H, fx) /\ WSilent(w, T, fx)
PROOF
<1>1. ASSUME NEW q \in Peers
      PROVE  /\ Sound(w.peers[q], T[q], S[q], H[q], fx[q]) /\ Linked(w.peers[q], fx[q])
             /\ Silent(w.peers[q], T[q], fx[q])
  <2>1. Say(S[q], fx[q].tx) = S[q]
    BY SayOther
  <2>2. Observe(T[q], fx[q].ev) = T[q] /\ ~Raises(fx[q].ev, "JoinSuccess")
        /\ ~Raises(fx[q].ev, "JoinFail")
    BY EventLemma, RaisesLemma
  <2> QED BY <2>1, <2>2, SameSound DEF WConsistent
<1> QED BY <1>1 DEF WSound, WSilent

\* TimerExpire changes counters and announces members, nothing else.
LEMMA TimerSound ==
    ASSUME NEW w, NEW T, NEW S, NEW H, WConsistent(w, T, S, H), NEW old
    PROVE  WSound(w, T, S, H, TimerExpire(w, old)) /\ WSilent(w, T, TimerExpire(w, old))
PROOF
<1> DEFINE fx == TimerExpire(w, old)
           members == {q \in Peers : w.peers[q].state = "MEM"}
           sjn == {q \in old : Announces(w.peers[q])}
           list == [r \in sjn |-> w.peers[r].sid]
           msg(q) == [type |-> "SJN", rsid |-> w.peers[q].sid, mems |-> list]
           j(q) == IF q \in sjn THEN [w.peers[q] EXCEPT !.sjnc = @ + 1] ELSE w.peers[q]
<1>1. \A q \in Peers : fx[q] = Effect(j(q), IF q \in members /\ sjn # {} THEN <<msg(q)>> ELSE <<>>, <<>>)
  BY DEF TimerExpire
<1>2. \A q \in Peers : j(q) \in Info /\ j(q).state = w.peers[q].state /\ j(q).sid = w.peers[q].sid
  <2> SUFFICES ASSUME NEW q \in Peers
               PROVE  j(q) \in Info /\ j(q).state = w.peers[q].state /\ j(q).sid = w.peers[q].sid
    OBVIOUS
  <2>1. w.peers[q] \in Info
    BY DEF WConsistent, Consistent
  <2>2. CASE q \in sjn
    BY <2>1, <2>2 DEF Info, SjnMax, Announces
  <2>3. CASE q \notin sjn
    BY <2>1, <2>3
  <2> QED BY <2>2, <2>3
<1>3. \A q : msg(q).type = "SJN"
  OBVIOUS
<1> HIDE DEF fx, j, msg, sjn, members
<1>4. \A q \in Peers : /\ fx[q].info = j(q) /\ fx[q].ev = <<>> /\ fx[q].fault = "none"
                       /\ fx[q].tx = <<>> \/ fx[q].tx = <<msg(q)>>
  <2> SUFFICES ASSUME NEW q \in Peers
               PROVE  /\ fx[q].info = j(q) /\ fx[q].ev = <<>> /\ fx[q].fault = "none"
                      /\ fx[q].tx = <<>> \/ fx[q].tx = <<msg(q)>>
    OBVIOUS
  <2>1. fx[q] = Effect(j(q), <<>>, <<>>) \/ fx[q] = Effect(j(q), <<msg(q)>>, <<>>)
    BY <1>1
  <2> QED BY <2>1 DEF Effect
<1>5. \A q \in Peers : \A k \in DOMAIN fx[q].tx : fx[q].tx[k].type \notin {"JOK", "MEM", "RST"}
  BY <1>3, <1>4
<1>6. WSound(w, T, S, H, fx) /\ WSilent(w, T, fx)
  BY <1>2, <1>4, <1>5, OthersSound
<1> QED BY <1>6 DEF fx

\* SJN of a member counts and asks; of anyone else it resets the peer.
LEMMA SJN_Sound ==
    ASSUME NEW w, NEW T, NEW S, NEW H, WConsistent(w, T, S, H), NEW p \in Peers, NEW s \in Sessions,
           NEW mems, w.peers[p].state \in Connected
    PROVE  WSound(w, T, S, H, SJN(w, p, s, mems)) /\ WSilent(w, T, SJN(w, p, s, mems))
PROOF
<1> DEFINE fx == SJN(w, p, s, mems)
           known == {q \in DOMAIN mems : IsProperMember(w.peers[q], mems[q])}
           unknown == DOMAIN mems \ known
           Count(i) == [i EXCEPT !.sjnc = IF @ < SjnMax THEN @ + 1 ELSE @]
           Ask(q) == [type |-> "CRR", rsid |-> s, mems |-> [r \in {q} |-> mems[r]]]
           asks == Each(unknown, Ask)
           j(q) == IF q \in known THEN Count(w.peers[q]) ELSE w.peers[q]
<1>1. CASE ~IsProperMember(w.peers[p], s)
  <2>1. fx = At(w, p, Reset(w.peers[p]))
    BY <1>1 DEF SJN
  <2> QED BY <2>1, ClearAtSound
<1>2. CASE IsProperMember(w.peers[p], s)
  <2>1. \A q \in Peers : fx[q] = Effect(j(q), IF q = p THEN asks ELSE <<>>, <<>>)
    BY <1>2 DEF SJN
  <2>2. \A k \in DOMAIN asks : asks[k].type = "CRR"
    BY DEF Each
  <2>3. ASSUME NEW q \in Peers
        PROVE  j(q) \in Info /\ j(q).state = w.peers[q].state /\ j(q).sid = w.peers[q].sid
    <3>1. w.peers[q] \in Info
      BY DEF WConsistent, Consistent
    <3>2. CASE q \in known
      BY <3>1, <3>2 DEF Info, SjnMax
    <3>3. CASE q \notin known
      BY <3>1, <3>3
    <3> QED BY <3>2, <3>3
  <2> HIDE DEF fx, j, asks
  <2>4. ASSUME NEW q \in Peers
        PROVE  /\ fx[q].info = j(q) /\ fx[q].ev = <<>> /\ fx[q].fault = "none"
               /\ fx[q].tx = <<>> \/ fx[q].tx = asks
    <3>1. fx[q] = Effect(j(q), asks, <<>>) \/ fx[q] = Effect(j(q), <<>>, <<>>)
      BY <2>1
    <3> QED BY <3>1 DEF Effect
  <2>5. \A q \in Peers : \A k \in DOMAIN fx[q].tx : fx[q].tx[k].type \notin {"JOK", "MEM", "RST"}
    BY <2>2, <2>4
  <2>6. WSound(w, T, S, H, fx) /\ WSilent(w, T, fx)
    BY <2>3, <2>4, <2>5, OthersSound
  <2> QED BY <2>6 DEF fx
<1> QED BY <1>1, <1>2

\* CRR of a member introduces; of anyone else it resets the peer.
LEMMA CRR_Sound ==
    ASSUME NEW w, NEW T, NEW S, NEW H, WConsistent(w, T, S, H), NEW p \in Peers, NEW s \in Sessions,
           NEW mems, w.peers[p].state \in Connected
    PROVE  WSound(w, T, S, H, CRR(w, p, s, mems)) /\ WSilent(w, T, CRR(w, p, s, mems))
PROOF
<1> DEFINE fx == CRR(w, p, s, mems)
           held == {q \in DOMAIN mems : w.peers[q].state # "Absent" /\ w.peers[q].sid = mems[q]}
           About(q, r) == [type |-> "JNI", rsid |-> w.peers[q].sid, peer |-> r, sid |-> w.peers[r].sid]
           AboutTo(r) == About(p, r)
           all == Each(held, AboutTo)
           i(q) == w.peers[q]
<1>1. CASE ~IsProperMember(w.peers[p], s)
  <2>1. fx = At(w, p, Reset(w.peers[p]))
    BY <1>1 DEF CRR
  <2> QED BY <2>1, ClearAtSound
<1>2. CASE IsProperMember(w.peers[p], s)
  <2>1. \A q \in Peers : fx[q] \in {Effect(i(q), all, <<>>), Keep(i(q)),
                                    Fault(i(q), "nilpeer"), Effect(i(q), <<About(q, p)>>, <<>>)}
    BY <1>2 DEF CRR
  <2>2. /\ \A k \in DOMAIN all : all[k].type = "JNI"
        /\ \A q, r : About(q, r).type = "JNI"
    BY DEF Each
  <2>3. \A q \in Peers : i(q) \in Info
    BY DEF WConsistent, Consistent
  <2> HIDE DEF fx, all, i, About
  <2>4. ASSUME NEW q \in Peers
        PROVE  /\ fx[q].info = i(q) /\ fx[q].ev = <<>> /\ fx[q].fault \in {"none", "nilpeer"}
               /\ fx[q].tx \in {<<>>, all, <<About(q, p)>>}
    <3>1. CASE fx[q] = Effect(i(q), all, <<>>)
      BY <3>1 DEF Effect
    <3>2. CASE fx[q] = Keep(i(q))
      BY <3>2 DEF Keep, Effect
    <3>3. CASE fx[q] = Fault(i(q), "nilpeer")
      BY <3>3 DEF Fault, Keep, Effect
    <3>4. CASE fx[q] = Effect(i(q), <<About(q, p)>>, <<>>)
      BY <3>4 DEF Effect
    <3> QED BY <2>1, <3>1, <3>2, <3>3, <3>4
  <2>5. \A q \in Peers : \A k \in DOMAIN fx[q].tx : fx[q].tx[k].type \notin {"JOK", "MEM", "RST"}
    <3> SUFFICES ASSUME NEW q \in Peers, NEW k \in DOMAIN fx[q].tx
                 PROVE  fx[q].tx[k].type = "JNI"
      OBVIOUS
    <3>1. CASE fx[q].tx = <<About(q, p)>>
      BY <3>1, <2>2
    <3> QED BY <2>2, <2>4, <3>1
  <2>6. WSound(w, T, S, H, fx) /\ WSilent(w, T, fx)
    BY <2>3, <2>4, <2>5, OthersSound DEF i
  <2> QED BY <2>6 DEF fx
<1> QED BY <1>1, <1>2

\* AcceptSession in a world without a pending join preserves EntryOK: a
\* member is ready only after both sides have agreed.
LEMMA AcceptSound ==
    ASSUME NEW w, NEW T, NEW S, NEW H, WConsistent(w, T, S, H), NEW p \in Peers, NEW s \in Sessions,
           w.peers[p].state \notin Target
    PROVE  WSound(w, T, S, H, AcceptSession(w, p, s))
PROOF
<1> DEFINE i == w.peers[p]
           fx == AcceptSession(w, p, s)
           members == {q \in Peers : w.peers[q].state = "MEM"}
           r(st) == [i EXCEPT !.state = st]
<1>0. Consistent(i, T[p], S[p], H[p]) /\ s # Nil
  BY NilAssumption DEF WConsistent
<1>a. \A st \in {"TMEM", "MEM"} : r(st) \in Info /\ r(st).state = st /\ r(st).sid = i.sid
  BY <1>0 DEF Consistent, Info, WS, Connected
\* The entry moves to TMEM, with the one message that promises membership.
<1>b. ASSUME i.state \in {"JN", "JNI"}, i.sid = s, NEW m, m.type \in {"JOK", "MEM"}, m.rsid = s
      PROVE  LET e == Effect(r("TMEM"), <<m>>, <<>>)
             IN  Sound(i, T[p], S[p], H[p], e) /\ Linked(i, e)
  <2> DEFINE e == Effect(r("TMEM"), <<m>>, <<>>)
  <2> HIDE DEF r
  <2>1. e.info = r("TMEM") /\ e.tx = <<m>> /\ e.ev = <<>> /\ e.fault = "none"
    BY DEF Effect
  <2> HIDE DEF e
  <2>2. Say(S[p], e.tx) = s /\ Observe(T[p], e.ev) = T[p]
        /\ ~Raises(e.ev, "JoinSuccess") /\ ~Raises(e.ev, "JoinFail")
    BY <1>b, <2>1, SayLemma, EventLemma, RaisesLemma
  <2>3. EntryOK(r("TMEM"), T[p], s, H[p])
    BY <1>0, <1>a, <1>b DEF Consistent, EntryOK
  <2>4. Sound(i, T[p], S[p], H[p], e) /\ Linked(i, e)
    BY <1>0, <1>a, <1>b, <2>1, <2>2, <2>3 DEF Sound, Linked, Connected, Target, Consistent
  <2> QED BY <2>4 DEF e
<1>1. CASE i.state = "JN" /\ i.sid = s
  <2> DEFINE jok == [type |-> "JOK", rsid |-> s, mems |-> [q \in members |-> w.peers[q].sid]]
             jni(q) == [type |-> "JNI", rsid |-> w.peers[q].sid, peer |-> p, sid |-> s]
  <2>1. \A q \in Peers : fx[q] = IF q = p THEN Effect(r("TMEM"), <<jok>>, <<>>)
                                 ELSE IF q \in members THEN Effect(w.peers[q], <<jni(q)>>, <<>>)
                                 ELSE Keep(w.peers[q])
    BY <1>1 DEF AcceptSession, Target
  <2>2. jok.type = "JOK" /\ jok.rsid = s /\ \A q : jni(q).type = "JNI"
    OBVIOUS
  <2> HIDE DEF fx, jok, jni, members, r
  <2>a. fx[p] = Effect(r("TMEM"), <<jok>>, <<>>)
    BY <2>1
  <2>3. Sound(i, T[p], S[p], H[p], fx[p]) /\ Linked(i, fx[p])
    BY <1>1, <1>b, <2>a, <2>2
  <2>4. ASSUME NEW q \in Peers, q # p
        PROVE  Sound(w.peers[q], T[q], S[q], H[q], fx[q]) /\ Linked(w.peers[q], fx[q])
    <3>1. Consistent(w.peers[q], T[q], S[q], H[q])
      BY DEF WConsistent
    <3>2. CASE q \notin members
      BY <2>1, <2>4, <3>1, <3>2, KeepSound
    <3>3. CASE q \in members
      <4>a. fx[q] = Effect(w.peers[q], <<jni(q)>>, <<>>)
        BY <2>1, <2>4, <3>3
      <4>1. fx[q].info = w.peers[q] /\ fx[q].tx = <<jni(q)>> /\ fx[q].ev = <<>> /\ fx[q].fault = "none"
        BY <4>a DEF Effect
      <4>2. Say(S[q], fx[q].tx) = S[q]
        BY <2>2, <4>1, SayLemma
      <4>3. w.peers[q] \in Info
        BY <3>1 DEF Consistent
      <4> QED BY <3>1, <4>1, <4>2, <4>3, SameSound, EventLemma, RaisesLemma
    <3> QED BY <3>2, <3>3
  <2>5. WSound(w, T, S, H, fx)
    BY <2>3, <2>4 DEF WSound
  <2> QED BY <2>5 DEF fx
<1>2. CASE i.state = "JNI" /\ i.sid = s
  <2>1. fx = At(w, p, Effect(r("TMEM"), <<Msg("MEM", s)>>, <<>>))
    BY <1>2 DEF AcceptSession, Target
  <2>2. Msg("MEM", s).type = "MEM" /\ Msg("MEM", s).rsid = s
    BY DEF Msg
  <2> HIDE DEF r
  <2> QED BY <1>2, <1>b, <2>1, <2>2, AtSound
<1>3. CASE i.state = "RMEM" /\ i.sid = s
  <2> DEFINE e == Effect(r("MEM"), <<Msg("MEM", s)>>, <<Event("Ready", s)>>)
  <2>1. fx = At(w, p, e)
    BY <1>3 DEF AcceptSession, Target
  <2> HIDE DEF r
  <2>2. e.info = r("MEM") /\ e.tx = <<Msg("MEM", s)>> /\ e.ev = <<Event("Ready", s)>> /\ e.fault = "none"
    BY DEF Effect
  <2> HIDE DEF e
  <2>3. T[p].st = "requested" /\ T[p].sid = s /\ s \in H[p]
    BY <1>0, <1>3 DEF Consistent, EntryOK
  <2>4. Say(S[p], e.tx) = s /\ Observe(T[p], e.ev) = As("ready", s)
        /\ ~Raises(e.ev, "JoinSuccess") /\ ~Raises(e.ev, "JoinFail")
    BY <2>2, <2>3, MsgLemma, EventLemma, RaisesLemma
  <2>5. EntryOK(r("MEM"), As("ready", s), s, H[p])
    BY <1>0, <1>a, <1>3, <2>3, AsLemma DEF EntryOK
  <2>6. Sound(i, T[p], S[p], H[p], e) /\ Linked(i, e)
    BY <1>a, <1>3, <2>2, <2>4, <2>5, AsLemma DEF Sound, Linked, Connected, Target
  <2> QED BY <2>1, <2>6, AtSound
<1>4. CASE ~(i.state \in {"JN", "JNI", "RMEM"} /\ i.sid = s)
  <2>1. fx = At(w, p, Keep(i))
    BY <1>4 DEF AcceptSession, Target
  <2> QED BY <1>0, <2>1, KeepSound, AtSound
<1> QED BY <1>1, <1>2, <1>3, <1>4

\* DeclineSession preserves EntryOK: what was promised is withdrawn.
LEMMA DeclineSound ==
    ASSUME NEW w, NEW T, NEW S, NEW H, WConsistent(w, T, S, H), NEW p \in Peers, NEW s \in Sessions
    PROVE  WSound(w, T, S, H, DeclineSession(w, p, s))
PROOF
<1> DEFINE i == w.peers[p]
<1>0. Consistent(i, T[p], S[p], H[p])
  BY DEF WConsistent
<1>1. CASE i.state # "Absent" /\ i.sid = s
  <2>1. DeclineSession(w, p, s) = At(w, p, ClearStates(i))
    BY <1>1 DEF DeclineSession
  <2>2. i.state \in Connected \cup {"DC_JNI"}
    BY <1>0, <1>1, NilAssumption DEF Consistent, EntryOK, Info, WS, Disconnected
  <2> QED BY <1>0, <2>1, <2>2, ClearSound, AtSound
<1>2. CASE ~(i.state # "Absent" /\ i.sid = s)
  <2>1. DeclineSession(w, p, s) = At(w, p, Keep(i))
    BY <1>2 DEF DeclineSession
  <2> QED BY <1>0, <2>1, KeepSound, AtSound
<1> QED BY <1>1, <1>2

-----------------------------------------------------------------------------
(* Steps of AND *)

\* The join result of a world after sound effects.
LEMMA OutcomeLemma ==
    ASSUME NEW r, NEW fx, \A p \in Peers : ~Raises(fx[p].ev, "JoinSuccess")
    PROVE  /\ (\A p \in Peers : ~Raises(fx[p].ev, "JoinFail")) => Outcome(r, fx) = r
           /\ (r = "none" /\ \E p \in Peers : Raises(fx[p].ev, "JoinFail")) => Outcome(r, fx) = "fail"
PROOF
<1> DEFINE Reports(type) == \E p \in Peers : Raises(fx[p].ev, type)
           win == Reports("JoinSuccess")
           lose == Reports("JoinFail")
<1>1. Outcome(r, fx) = IF ~win /\ ~lose THEN r
                       ELSE IF r # "none" \/ (win /\ lose) THEN "twice"
                       ELSE IF win THEN "success" ELSE "fail"
  BY DEF Outcome
<1>2. ~win
  OBVIOUS
<1>3. lose <=> \E p \in Peers : Raises(fx[p].ev, "JoinFail")
  OBVIOUS
<1> HIDE DEF win, lose
<1>4. ~lose => Outcome(r, fx) = r
  BY <1>1, <1>2
<1>5. lose /\ r = "none" => Outcome(r, fx) = "fail"
  BY <1>1, <1>2
<1> QED BY <1>3, <1>4, <1>5

\* The inductive invariant gives consistency of every world.
LEMMA ConsistentLemma ==
    ASSUME IInv, NEW H \in [Lsids -> [Peers -> SUBSET Sessions]],
           \A l \in Lsids : \A p \in Peers : heard[l][p] \subseteq H[l][p]
    PROVE  /\ \A l \in Lsids : \A p \in Peers :
                 Consistent(entry[l][p], told[l][p], said[l][p], H[l][p])
           /\ \A l \in Lsids : WConsistent(World(l), told[l], said[l], H[l])
           /\ \A l \in Lsids : World(l).peers = entry[l] /\ World(l).join_hash = join_hash[l]
PROOF
<1>1. ASSUME NEW l \in Lsids, NEW p \in Peers
      PROVE  Consistent(entry[l][p], told[l][p], said[l][p], H[l][p])
  <2>1. /\ entry[l][p] \in Info /\ told[l][p] \in Told /\ said[l][p] \in Sessions \cup {Nil}
        /\ H[l][p] \in SUBSET Sessions
    BY DEF IInv, TypeOK
  <2>2. EntryOK(entry[l][p], told[l][p], said[l][p], heard[l][p])
    BY DEF IInv
  <2>3. EntryOK(entry[l][p], told[l][p], said[l][p], H[l][p])
    BY <2>2 DEF EntryOK
  <2> QED BY <2>1, <2>3 DEF Consistent
<1>2. \A l \in Lsids : World(l).peers = entry[l] /\ World(l).join_hash = join_hash[l]
  BY DEF World
<1> QED BY <1>1, <1>2 DEF WConsistent

\* A call whose effects are sound, that neither creates nor deletes a world.
LEMMA StepLemma ==
    ASSUME IInv, NEW F, Apply(F), worlds' = worlds, used' = used, join_hash' = join_hash,
           peers' \in [Locals -> SUBSET Peers], heard' \in [Lsids -> [Peers -> SUBSET Sessions]],
           result' = [l \in Lsids |-> Outcome(result[l], F[l])],
           \A l \in Lsids : \A p \in Peers :
              Sound(entry[l][p], told[l][p], said[l][p], heard'[l][p], F[l][p]),
           \A l \in worlds : \A p \in Peers : p \in PeersOf(l)' <=> F[l][p].info.state \in Connected,
           \A l \in Lsids \ worlds : \A p \in Peers : F[l][p].info.state = "Absent",
           \A l \in Lsids : result[l] # "success" =>
              \A p \in Peers : Silent(entry[l][p], told[l][p], F[l][p])
    PROVE  IInv'
PROOF
<1>1. \A l \in Lsids : \A p \in Peers :
         /\ entry'[l][p] = F[l][p].info
         /\ told'[l][p] = Observe(told[l][p], F[l][p].ev)
         /\ said'[l][p] = Say(said[l][p], F[l][p].tx)
  BY DEF Apply
<1>2. \A l \in Lsids : \A p \in Peers :
         EntryOK(entry'[l][p], told'[l][p], said'[l][p], heard'[l][p])
  BY <1>1 DEF Sound
<1>3. TypeOK'
  <2>1. entry' \in [Lsids -> [Peers -> Info]]
    BY DEF Apply, Sound
  <2>2. told' \in [Lsids -> [Peers -> Told]]
    BY DEF Apply, Sound
  <2>3. \A l \in Lsids : \A p \in Peers : said'[l][p] \in Sessions \cup {Nil}
    <3> SUFFICES ASSUME NEW l \in Lsids, NEW p \in Peers
                 PROVE  said'[l][p] \in Sessions \cup {Nil}
      OBVIOUS
    <3>1. entry'[l][p] \in Info
      BY <2>1
    <3> QED BY <1>2, <3>1 DEF EntryOK, Info
  <2>4. said' \in [Lsids -> [Peers -> Sessions \cup {Nil}]]
    BY <1>1, <2>3 DEF Apply
  <2>5. fault' \in {"none", "panic", "nilpeer"}
    BY DEF Apply, FaultOf, IInv, TypeOK
  <2>6. result' \in [Lsids -> {"none", "success", "fail", "twice"}]
    BY DEF Outcome, IInv, TypeOK
  <2> QED BY <2>1, <2>2, <2>4, <2>5, <2>6 DEF TypeOK, IInv
<1>4. NoPanic'
  <2>1. \A l \in Lsids : \A p \in Peers : F[l][p].fault # "panic"
    BY DEF Sound
  <2> QED BY <2>1 DEF Apply, FaultOf, NoPanic, IInv
<1>5. ASSUME NEW l \in Lsids
      PROVE  /\ result'[l] = result[l] \/ (result[l] = "none" /\ result'[l] = "fail")
             /\ l \in worlds => \A p \in Peers :
                   entry'[l][p].state \in Target <=> (result'[l] = "none" /\ join_hash[l] = p)
  <2>1. \A p \in Peers :
           /\ ~Raises(F[l][p].ev, "JoinSuccess")
           /\ entry'[l][p].state \in Target => entry[l][p].state \in Target
           /\ Raises(F[l][p].ev, "JoinFail")
              <=> (entry[l][p].state \in Target /\ entry'[l][p].state \notin Target)
    BY <1>1 DEF Sound
  <2>2. WorldOK(l)
    BY DEF IInv
  <2>3. \A p \in Peers : entry[l][p].state \in Target => result[l] = "none" /\ join_hash[l] = p /\ l \in worlds
    BY <2>2 DEF WorldOK, Target
  <2>4. result'[l] = Outcome(result[l], F[l])
    OBVIOUS
  <2>5. CASE \A p \in Peers : ~Raises(F[l][p].ev, "JoinFail")
    <3>1. result'[l] = result[l]
      BY <2>1, <2>4, <2>5, OutcomeLemma
    <3> QED BY <2>1, <2>2, <2>5, <3>1 DEF WorldOK
  <2>6. CASE \E p \in Peers : Raises(F[l][p].ev, "JoinFail")
    <3>1. PICK p \in Peers : Raises(F[l][p].ev, "JoinFail")
      BY <2>6
    <3>2. result[l] = "none" /\ join_hash[l] = p /\ entry'[l][p].state \notin Target
      BY <2>1, <2>3, <3>1
    <3>3. result'[l] = "fail"
      BY <2>1, <2>4, <3>1, <3>2, OutcomeLemma
    <3> QED BY <2>1, <2>3, <3>2, <3>3
  <2> QED BY <2>5, <2>6
<1>6. ASSUME NEW l \in Lsids
      PROVE  WorldOK(l)'
  <2>1. WorldOK(l)
    BY DEF IInv
  <2>2. l \in worlds' => \A p \in Peers :
           /\ p \in PeersOf(l)' <=> entry'[l][p].state \in Connected
           /\ entry'[l][p].state \in Target <=> (result'[l] = "none" /\ join_hash'[l] = p)
    BY <1>1, <1>5
  <2>3. l \notin worlds' => \A p \in Peers : entry'[l][p].state = "Absent"
    BY <1>1
  <2>4. l \notin used' => result'[l] = "none"
    <3>1. SUFFICES ASSUME l \notin used
                   PROVE  result'[l] = "none"
      OBVIOUS
    <3>2. l \notin worlds /\ result[l] = "none"
      BY <2>1, <3>1 DEF WorldOK, IInv, TypeOK
    <3>3. \A p \in Peers : entry[l][p].state \notin Target
      BY <2>1, <3>2 DEF WorldOK, Target
    <3>4. \A p \in Peers : ~Raises(F[l][p].ev, "JoinSuccess") /\ ~Raises(F[l][p].ev, "JoinFail")
      BY <3>3 DEF Sound
    <3> QED BY <3>2, <3>4, OutcomeLemma
  <2>5. result'[l] # "twice"
    BY <1>5, <2>1 DEF WorldOK
  <2>6. result'[l] # "success" => \A p \in Peers : told'[l][p].st = "idle" /\ entry'[l][p].state \in Quiet
    <3>1. SUFFICES ASSUME result'[l] # "success", NEW p \in Peers
                   PROVE  told'[l][p].st = "idle" /\ entry'[l][p].state \in Quiet
      OBVIOUS
    <3>2. result[l] # "success"
      BY <1>5, <3>1
    <3>3. told[l][p].st = "idle" /\ entry[l][p].state \in Quiet
      BY <2>1, <3>2 DEF WorldOK
    <3>4. Silent(entry[l][p], told[l][p], F[l][p])
      BY <3>2
    <3> QED BY <1>1, <3>3, <3>4 DEF Silent
  <2> QED BY <2>2, <2>3, <2>4, <2>5, <2>6 DEF WorldOK
<1> QED BY <1>2, <1>3, <1>4, <1>6 DEF IInv

\* A call that changes the entries of one world.
LEMMA CallLemma ==
    ASSUME IInv, NEW l \in Lsids, NEW fx, Call(l, fx),
           heard' \in [Lsids -> [Peers -> SUBSET Sessions]],
           \A k \in Lsids : \A p \in Peers : heard[k][p] \subseteq heard'[k][p],
           WSound(World(l), told[l], said[l], heard'[l], fx),
           result[l] # "success" => WSilent(World(l), told[l], fx)
    PROVE  IInv'
PROOF
<1> DEFINE F == OnWorld(l, fx)
<1>1. /\ l \in worlds /\ Apply(F) /\ result' = [result EXCEPT ![l] = Outcome(@, fx)]
      /\ peers' = peers /\ worlds' = worlds /\ used' = used /\ join_hash' = join_hash
  BY DEF Call
<1>2. /\ F[l] = fx
      /\ \A k \in Lsids : k # l => F[k] = [p \in Peers |-> Keep(entry[k][p])]
  BY DEF OnWorld
<1>3. /\ \A k \in Lsids : \A p \in Peers : Consistent(entry[k][p], told[k][p], said[k][p], heard'[k][p])
      /\ World(l).peers = entry[l]
  BY ConsistentLemma
<1> HIDE DEF F
<1>4. ASSUME NEW k \in Lsids, NEW p \in Peers
      PROVE  /\ Sound(entry[k][p], told[k][p], said[k][p], heard'[k][p], F[k][p])
             /\ Linked(entry[k][p], F[k][p])
             /\ result[k] # "success" => Silent(entry[k][p], told[k][p], F[k][p])
  <2>1. CASE k = l
    BY <1>2, <1>3, <2>1 DEF WSound, WSilent
  <2>2. CASE k # l
    <3>1. F[k][p] = Keep(entry[k][p])
      BY <1>2, <2>2
    <3> QED BY <1>3, <3>1, KeepSound
  <2> QED BY <2>1, <2>2
<1>5. \A k \in worlds : \A p \in Peers : p \in PeersOf(k)' <=> F[k][p].info.state \in Connected
  BY <1>1, <1>4 DEF IInv, WorldOK, TypeOK, Linked, PeersOf
<1>6. \A k \in Lsids \ worlds : \A p \in Peers : F[k][p].info.state = "Absent"
  <2> SUFFICES ASSUME NEW k \in Lsids \ worlds, NEW p \in Peers
               PROVE  F[k][p].info.state = "Absent"
    OBVIOUS
  <2>1. F[k][p] = Keep(entry[k][p])
    BY <1>1, <1>2
  <2>2. entry[k][p].state = "Absent"
    BY DEF IInv, WorldOK
  <2> QED BY <2>1, <2>2 DEF Keep, Effect
<1>7. result' = [k \in Lsids |-> Outcome(result[k], F[k])]
  <2>1. ASSUME NEW k \in Lsids, k # l
        PROVE  Outcome(result[k], F[k]) = result[k]
    <3>1. ASSUME NEW p \in Peers PROVE F[k][p].ev = <<>>
      <4>1. F[k][p] = Keep(entry[k][p])
        BY <1>2, <2>1
      <4> QED BY <4>1 DEF Keep, Effect
    <3>2. \A p \in Peers : ~Raises(F[k][p].ev, "JoinSuccess") /\ ~Raises(F[k][p].ev, "JoinFail")
      BY <3>1, RaisesLemma
    <3> QED BY <3>2, OutcomeLemma
  <2>2. result \in [Lsids -> {"none", "success", "fail", "twice"}]
    BY DEF IInv, TypeOK
  <2> QED BY <1>1, <1>2, <2>1, <2>2
<1>8. peers' \in [Locals -> SUBSET Peers]
  BY <1>1 DEF IInv, TypeOK
<1> QED BY <1>1, <1>4, <1>5, <1>6, <1>7, <1>8, StepLemma

-----------------------------------------------------------------------------
(* Connections, and worlds that are created, joined and deleted *)

\* What PeerConnected does to the entry of the new peer is sound, and connects it.
LEMMA ConnectSound ==
    ASSUME NEW i, NEW t, NEW sd, NEW h, Consistent(i, t, sd, h), i.state \notin Connected
    PROVE  /\ Sound(i, t, sd, h, ConnectPeer(i)) /\ Silent(i, t, ConnectPeer(i))
           /\ ConnectPeer(i).info.state \in Connected
           /\ ~Raises(ConnectPeer(i).ev, "JoinFail")
PROOF
<1> DEFINE e == ConnectPeer(i)
           r(st) == [i EXCEPT !.state = st]
<1>0. /\ i.state \in {"Absent", "DC_JT", "DC_JNI"}
      /\ \A st \in {"JT", "JNI"} : r(st) \in Info /\ r(st).state = st /\ r(st).sid = i.sid
  BY DEF Consistent, Info, WS, Disconnected, Connected
<1>1. CASE i.state = "Absent"
  <2>1. e = Effect(Cleared, <<>>, <<>>)
    BY <1>1 DEF ConnectPeer, Keep
  <2>2. /\ e.info = Cleared /\ e.tx = <<>> /\ e.ev = <<>> /\ e.fault = "none"
        /\ Cleared \in Info /\ Cleared.state = "CC" /\ Cleared.sid = Nil
    BY <2>1 DEF Effect, Cleared, NewANDPeerSessionState, Info, WS, Connected, SjnMax
  <2> HIDE DEF e
  <2>3. EntryOK(Cleared, t, sd, h)
    BY <1>1, <2>2 DEF Consistent, EntryOK
  <2>4. Observe(t, e.ev) = t /\ Say(sd, e.tx) = sd /\ \A y : ~Raises(e.ev, y)
    BY <2>2, EventLemma, MsgLemma, RaisesLemma
  <2>5. Sound(i, t, sd, h, e)
    BY <1>1, <2>2, <2>3, <2>4 DEF Sound, Target, Consistent
  <2>6. Silent(i, t, e) /\ e.info.state \in Connected /\ ~Raises(e.ev, "JoinFail")
    BY <2>2, <2>4 DEF Silent, Quiet, Connected
  <2> QED BY <2>5, <2>6 DEF e
<1>2. CASE i.state = "DC_JT"
  <2>1. e = Effect(r("JT"), <<Msg("JN", Nil)>>, <<>>)
    BY <1>2 DEF ConnectPeer
  <2>2. e.info = r("JT") /\ e.tx = <<Msg("JN", Nil)>> /\ e.ev = <<>> /\ e.fault = "none"
    BY <2>1 DEF Effect
  <2> HIDE DEF e, r
  <2>3. EntryOK(r("JT"), t, sd, h)
    BY <1>0, <1>2, <2>2 DEF Consistent, EntryOK
  <2>4. Observe(t, e.ev) = t /\ Say(sd, e.tx) = sd /\ \A y : ~Raises(e.ev, y)
    BY <2>2, EventLemma, MsgLemma, RaisesLemma
  <2>5. Sound(i, t, sd, h, e)
    BY <1>0, <1>2, <2>2, <2>3, <2>4 DEF Sound, Target, Consistent
  <2>6. Silent(i, t, e) /\ e.info.state \in Connected /\ ~Raises(e.ev, "JoinFail")
    BY <1>0, <2>2, <2>4 DEF Silent, Quiet, Connected
  <2> QED BY <2>5, <2>6 DEF e
<1>3. CASE i.state = "DC_JNI"
  <2>1. e = Effect(r("JNI"), <<>>, <<Event("Request", i.sid)>>)
    BY <1>3 DEF ConnectPeer
  <2>2. /\ e.info = r("JNI") /\ e.tx = <<>> /\ e.ev = <<Event("Request", i.sid)>>
        /\ i.sid \in Sessions /\ t.st # "ready" /\ sd = Nil
    BY <1>3, <2>1 DEF Effect, Consistent, EntryOK, Info
  <2> HIDE DEF r
  <2>3. Say(sd, <<>>) = Nil
    BY <2>2, MsgLemma
  <2>4. Sound(i, t, sd, h, e)
    BY <1>0, <1>3, <2>1, <2>2, <2>3, RequestSound DEF Target
  <2> HIDE DEF e
  <2>5. Silent(i, t, e) /\ e.info.state \in Connected /\ ~Raises(e.ev, "JoinFail")
    BY <1>0, <1>3, <2>2, RaisesLemma DEF Silent, Quiet, Connected
  <2> QED BY <2>4, <2>5 DEF e
<1> QED BY <1>0, <1>1, <1>2, <1>3

\* What PeerClose does to the entry of the peer is sound, and disconnects it.
LEMMA RemoveSound ==
    ASSUME NEW i, NEW t, NEW sd, NEW h, Consistent(i, t, sd, h), i.state \in Connected
    PROVE  LET e == [ClearStates(i) EXCEPT !.info = Absent]
           IN  Sound(i, t, sd, h, e) /\ Silent(i, t, e) /\ e.info.state \notin Connected
PROOF
<1> DEFINE c == ClearStates(i)
           e == [c EXCEPT !.info = Absent]
<1>1. Sound(i, t, sd, h, c) /\ Silent(i, t, c)
  BY ClearSound
<1>2. c.info = Cleared /\ e = [info |-> Absent, tx |-> c.tx, ev |-> c.ev, fault |-> c.fault]
  BY DEF ClearStates, Connected, Disconnected, Keep, Effect
<1>3. /\ e.info = Absent /\ e.tx = c.tx /\ e.ev = c.ev /\ e.fault = c.fault
      /\ Absent \in Info /\ Absent.state = "Absent" /\ Absent.sid = Nil
      /\ Cleared.state = "CC" /\ Cleared.sid = Nil
  BY <1>2 DEF Absent, Cleared, NewANDPeerSessionState, Info, WS, Connected, SjnMax
<1> HIDE DEF c, e
<1>4. EntryOK(Absent, Observe(t, e.ev), Say(sd, e.tx), h)
  BY <1>1, <1>2, <1>3 DEF Sound, EntryOK
<1>5. Sound(i, t, sd, h, e)
  BY <1>1, <1>2, <1>3, <1>4 DEF Sound, Target
<1>6. Silent(i, t, e) /\ e.info.state \notin Connected
  BY <1>1, <1>3 DEF Silent, Quiet, Connected
<1> QED BY <1>5, <1>6 DEF e, c

\* The effect leaves a consistent entry behind; Sound without the join result.
Good(t, sd, h, e) ==
    /\ e.info \in Info
    /\ Observe(t, e.ev) \in Told
    /\ EntryOK(e.info, Observe(t, e.ev), Say(sd, e.tx), h)
    /\ e.fault \in {"none", "nilpeer"}

\* What the deletion of a world does to an entry; it fails the join only of a
\* target that is connected.
LEMMA CloseSound ==
    ASSUME NEW i, NEW t, NEW sd, NEW h, Consistent(i, t, sd, h)
    PROVE  /\ Good(t, sd, h, CloseEntry(i)) /\ Silent(i, t, CloseEntry(i))
           /\ CloseEntry(i).info.state = "Absent"
           /\ ~Raises(CloseEntry(i).ev, "JoinSuccess")
           /\ Raises(CloseEntry(i).ev, "JoinFail") => i.state \in Target
PROOF
<1> DEFINE e == CloseEntry(i)
           rst == <<Msg("RST", i.sid)>>
<1>0. Absent \in Info /\ Absent.state = "Absent" /\ Absent.sid = Nil
  BY DEF Absent, NewANDPeerSessionState, Info, WS, SjnMax
<1>1. /\ i.state = "JT" => e = Effect(Absent, rst, <<Event("JoinFail", Nil)>>)
      /\ i.state \in {"JN", "RMEM_NJNI", "JNI", "RMEM", "TMEM"} => e = Effect(Absent, rst, <<>>)
      /\ i.state = "MEM" => e = Effect(Absent, rst, <<Event("Close", i.sid)>>)
      /\ i.state \in {"Absent", "CC", "DC_JT", "DC_JNI"} => e = Effect(Absent, <<>>, <<>>)
  BY DEF CloseEntry, Keep
<1>2. e.info = Absent /\ e.fault = "none"
  BY <1>1 DEF Effect, Consistent, Info, WS, Connected, Disconnected
<1>3. /\ e.tx = IF i.state \in {"Absent", "CC", "DC_JT", "DC_JNI"} THEN <<>> ELSE rst
      /\ e.ev = IF i.state = "JT" THEN <<Event("JoinFail", Nil)>>
                ELSE IF i.state = "MEM" THEN <<Event("Close", i.sid)>> ELSE <<>>
  BY <1>1 DEF Effect, Consistent, Info, WS, Connected, Disconnected
<1> HIDE DEF e
<1>4. Say(sd, e.tx) = Nil
  BY <1>3, MsgLemma, NilAssumption DEF Consistent, EntryOK
<1>5. Observe(t, e.ev) = IF i.state = "MEM" THEN ToldIdle ELSE t
  <2>1. CASE i.state = "MEM"
    <3>1. t.st = "ready" /\ t.sid = i.sid
      BY <2>1 DEF Consistent, EntryOK
    <3>2. e.ev = <<Event("Close", i.sid)>>
      BY <1>3, <2>1
    <3> QED BY <2>1, <3>1, <3>2, EventLemma
  <2>2. CASE i.state = "JT"
    BY <1>3, <2>2, EventLemma
  <2>3. CASE i.state \notin {"MEM", "JT"}
    BY <1>3, <2>3, EventLemma
  <2> QED BY <2>1, <2>2, <2>3
<1>6. ~Raises(e.ev, "JoinSuccess") /\ (Raises(e.ev, "JoinFail") => i.state \in Target)
  BY <1>3, RaisesLemma DEF Target
<1>7. EntryOK(Absent, Observe(t, e.ev), Nil, h)
  BY <1>0, <1>5, AsLemma DEF Consistent, EntryOK
<1>8. Good(t, sd, h, e)
  BY <1>0, <1>2, <1>4, <1>5, <1>7, AsLemma DEF Good, Consistent
<1>9. Silent(i, t, e) /\ e.info.state = "Absent"
  BY <1>0, <1>2, <1>5, AsLemma DEF Silent, Quiet
<1> QED BY <1>6, <1>8, <1>9 DEF e

\* The loops of PeerConnected, PeerClose and RST over all worlds: effect e[l] on
\* the entry of peer p in every live world l.
LEMMA LoopLemma ==
    ASSUME IInv, NEW h \in Locals, NEW p \in Peers, NEW e, NEW F,
           F = OnWorlds(h, [l \in Lsids |-> At(World(l), p, e[l])]), Apply(F),
           worlds' = worlds, used' = used, join_hash' = join_hash, heard' = heard,
           peers' \in {peers, [peers EXCEPT ![h] = @ \cup {p}], [peers EXCEPT ![h] = @ \ {p}]},
           result' = [l \in Lsids |-> Outcome(result[l], F[l])],
           \A l \in worlds : HostOf[l] = h =>
              /\ Sound(entry[l][p], told[l][p], said[l][p], heard[l][p], e[l])
              /\ Silent(entry[l][p], told[l][p], e[l])
              /\ p \in PeersOf(l)' <=> e[l].info.state \in Connected
    PROVE  IInv'
PROOF
<1>1. \A l \in Lsids : \A q \in Peers :
         F[l][q] = IF l \in worlds /\ HostOf[l] = h /\ q = p THEN e[l] ELSE Keep(entry[l][q])
  BY ConsistentLemma DEF OnWorlds, At, World
<1>2. \A l \in Lsids : \A q \in Peers : Consistent(entry[l][q], told[l][q], said[l][q], heard[l][q])
  BY ConsistentLemma DEF IInv, TypeOK
<1>3. ASSUME NEW l \in Lsids, NEW q \in Peers
      PROVE  /\ Sound(entry[l][q], told[l][q], said[l][q], heard'[l][q], F[l][q])
             /\ Silent(entry[l][q], told[l][q], F[l][q])
             /\ l \in worlds => (q \in PeersOf(l)' <=> F[l][q].info.state \in Connected)
             /\ l \notin worlds => F[l][q].info.state = "Absent"
  <2>1. CASE l \in worlds /\ HostOf[l] = h /\ q = p
    BY <1>1, <2>1
  <2>2. CASE ~(l \in worlds /\ HostOf[l] = h /\ q = p)
    <3>1. F[l][q] = Keep(entry[l][q])
      BY <1>1, <2>2
    <3>2. /\ Sound(entry[l][q], told[l][q], said[l][q], heard[l][q], F[l][q])
          /\ Silent(entry[l][q], told[l][q], F[l][q])
      BY <1>2, <3>1, KeepSound
    <3>3. F[l][q].info = entry[l][q]
      BY <3>1 DEF Keep, Effect
    <3>4. l \in worlds => (q \in PeersOf(l) <=> entry[l][q].state \in Connected)
      BY DEF IInv, WorldOK
    <3>5. l \notin worlds => entry[l][q].state = "Absent"
      BY DEF IInv, WorldOK
    <3>6. l \in worlds => (q \in PeersOf(l)' <=> q \in PeersOf(l))
      BY <2>2, LsidAssumption DEF IInv, TypeOK, PeersOf
    <3> QED BY <2>2, <3>2, <3>3, <3>4, <3>5, <3>6
  <2> QED BY <2>1, <2>2
<1>4. peers' \in [Locals -> SUBSET Peers] /\ heard' \in [Lsids -> [Peers -> SUBSET Sessions]] /\ worlds \subseteq Lsids
  BY DEF IInv, TypeOK
<1>5. \A l \in worlds : \A q \in Peers : q \in PeersOf(l)' <=> F[l][q].info.state \in Connected
  BY <1>3, <1>4
<1>6. \A l \in Lsids \ worlds : \A q \in Peers : F[l][q].info.state = "Absent"
  BY <1>3
<1> QED BY <1>3, <1>4, <1>5, <1>6, StepLemma

\* A call that creates, deletes or joins world l.
LEMMA WorldLemma ==
    ASSUME IInv, NEW l \in Lsids, NEW fx, Apply(OnWorld(l, fx)), peers' = peers,
           worlds' \in {worlds, worlds \cup {l}, worlds \ {l}}, used' \in {used, used \cup {l}},
           worlds' \subseteq used',
           join_hash' \in [Lsids -> Peers \cup {Nil}],
           result' \in [Lsids -> {"none", "success", "fail", "twice"}],
           heard' \in [Lsids -> [Peers -> SUBSET Sessions]],
           \A k \in Lsids \ {l} : join_hash'[k] = join_hash[k] /\ result'[k] = result[k],
           \A k \in Lsids : \A p \in Peers : heard[k][p] \subseteq heard'[k][p],
           \A p \in Peers : Good(told[l][p], said[l][p], heard'[l][p], fx[p]),
           WorldOK(l)'
    PROVE  IInv'
PROOF
<1> DEFINE F == OnWorld(l, fx)
<1>1. F[l] = fx /\ \A k \in Lsids \ {l} : \A p \in Peers : F[k][p] = Keep(entry[k][p])
  BY DEF OnWorld
<1>2. \A k \in Lsids : \A p \in Peers : Consistent(entry[k][p], told[k][p], said[k][p], heard'[k][p])
  BY ConsistentLemma
<1>3. /\ Apply(F)
      /\ \A k \in Lsids : \A p \in Peers :
         /\ entry'[k][p] = F[k][p].info
         /\ told'[k][p] = Observe(told[k][p], F[k][p].ev)
         /\ said'[k][p] = Say(said[k][p], F[k][p].tx)
  BY DEF Apply
<1> HIDE DEF F
<1>4. ASSUME NEW k \in Lsids \ {l}, NEW p \in Peers
      PROVE  /\ F[k][p].info = entry[k][p] /\ told'[k][p] = told[k][p]
             /\ Good(told[k][p], said[k][p], heard'[k][p], F[k][p])
  <2>1. F[k][p] = Keep(entry[k][p])
    BY <1>1
  <2>2. F[k][p].info = entry[k][p] /\ F[k][p].ev = <<>>
    BY <2>1 DEF Keep, Effect
  <2>3. Sound(entry[k][p], told[k][p], said[k][p], heard'[k][p], F[k][p])
    BY <1>2, <2>1, KeepSound
  <2> QED BY <1>3, <2>2, <2>3, EventLemma DEF Good, Sound
<1>5. \A k \in Lsids : \A p \in Peers : Good(told[k][p], said[k][p], heard'[k][p], F[k][p])
  BY <1>1, <1>4
<1>6. \A k \in Lsids : \A p \in Peers :
         EntryOK(entry'[k][p], told'[k][p], said'[k][p], heard'[k][p])
  BY <1>3, <1>5 DEF Good
<1>7. TypeOK'
  <2>0. \A k \in Lsids : \A p \in Peers : F[k][p].info \in Info
    BY <1>5 DEF Good
  <2>b. entry' = [k \in Lsids |-> [p \in Peers |-> F[k][p].info]]
    BY <1>3 DEF Apply
  <2>1. entry' \in [Lsids -> [Peers -> Info]]
    BY <2>0, <2>b
  <2>a. \A k \in Lsids : \A p \in Peers : Observe(told[k][p], F[k][p].ev) \in Told
    BY <1>5 DEF Good
  <2>2. told' \in [Lsids -> [Peers -> Told]]
    BY <1>3, <2>a DEF Apply
  <2>3. ASSUME NEW k \in Lsids, NEW p \in Peers PROVE said'[k][p] \in Sessions \cup {Nil}
    <3>1. entry'[k][p] \in Info
      BY <2>1
    <3> QED BY <1>6, <3>1 DEF EntryOK, Info
  <2>4. said' \in [Lsids -> [Peers -> Sessions \cup {Nil}]]
    BY <1>3, <2>3 DEF Apply
  <2>5. fault' \in {"none", "panic", "nilpeer"}
    BY <1>3 DEF Apply, FaultOf, IInv, TypeOK
  <2>6. peers' \in [Locals -> SUBSET Peers] /\ used' \subseteq Lsids
    BY DEF IInv, TypeOK
  <2> QED BY <2>1, <2>2, <2>4, <2>5, <2>6 DEF TypeOK
<1>8. NoPanic'
  <2>1. \A k \in Lsids : \A p \in Peers : F[k][p].fault # "panic"
    BY <1>5 DEF Good
  <2> QED BY <1>3, <2>1 DEF Apply, FaultOf, NoPanic, IInv
<1>9. ASSUME NEW k \in Lsids \ {l}
      PROVE  WorldOK(k)'
  <2>1. WorldOK(k)
    BY DEF IInv
  <2>2. /\ k \in worlds' <=> k \in worlds
        /\ k \in used' <=> k \in used
        /\ \A p \in Peers : entry'[k][p] = entry[k][p] /\ told'[k][p] = told[k][p]
    BY <1>3, <1>4
  <2>3. join_hash'[k] = join_hash[k] /\ result'[k] = result[k]
    OBVIOUS
  <2>4. k \in worlds' => \A p \in Peers :
          /\ p \in PeersOf(k)' <=> entry'[k][p].state \in Connected
          /\ entry'[k][p].state \in Target <=> (result'[k] = "none" /\ join_hash'[k] = p)
    BY <2>1, <2>2, <2>3 DEF WorldOK, PeersOf
  <2>5. k \notin worlds' => \A p \in Peers : entry'[k][p].state = "Absent"
    BY <2>1, <2>2 DEF WorldOK
  <2>6. (k \notin used' => result'[k] = "none") /\ result'[k] # "twice"
    BY <2>1, <2>2, <2>3 DEF WorldOK
  <2>7. result'[k] # "success" => \A p \in Peers :
           told'[k][p].st = "idle" /\ entry'[k][p].state \in Quiet
    BY <2>1, <2>2, <2>3 DEF WorldOK
  <2> QED BY <2>4, <2>5, <2>6, <2>7 DEF WorldOK
<1> QED BY <1>6, <1>7, <1>8, <1>9 DEF IInv

\* The first entry of a peer in a new world.
LEMMA NewEntryGood ==
    ASSUME NEW i, NEW t, NEW sd, NEW h, Consistent(i, t, sd, h), i.state = "Absent",
           NEW st \in Quiet \ {"RMEM_NJNI"}, NEW tx, NEW ev, Observe(t, ev) = t, Say(sd, tx) = sd
    PROVE  LET e == Effect(NewANDPeerSessionState(Nil, st), tx, ev)
           IN  Good(t, sd, h, e) /\ e.info.state = st /\ Observe(t, e.ev) = t
PROOF
<1> DEFINE j == NewANDPeerSessionState(Nil, st)
           e == Effect(j, tx, ev)
<1>1. e.info = j /\ e.tx = tx /\ e.ev = ev /\ e.fault = "none"
  BY DEF Effect
<1>2. j \in Info /\ j.state = st /\ j.sid = Nil
  BY DEF NewANDPeerSessionState, Info, WS, Connected, Disconnected, Quiet, SjnMax
<1> HIDE DEF e, j
<1>3. EntryOK(j, t, sd, h)
  BY <1>2 DEF Consistent, EntryOK, Quiet
<1>4. Good(t, sd, h, e) /\ e.info.state = st /\ Observe(t, e.ev) = t
  BY <1>1, <1>2, <1>3 DEF Good, Consistent
<1> QED BY <1>4 DEF e, j

\* A world that has not been created has no entries, no result, no history.
LEMMA FreshLemma ==
    ASSUME IInv, NEW l \in Lsids \ used
    PROVE  /\ result[l] = "none" /\ l \notin worlds
           /\ \A p \in Peers : entry[l][p].state = "Absent" /\ told[l][p].st = "idle"
           /\ \A p \in Peers : Consistent(entry[l][p], told[l][p], said[l][p], heard[l][p])
           /\ \A k \in Lsids : \A p \in Peers : heard[k][p] \subseteq heard[k][p]
           /\ heard \in [Lsids -> [Peers -> SUBSET Sessions]]
PROOF
<1>1. WorldOK(l) /\ l \notin worlds
  BY DEF IInv, TypeOK
<1>2. result[l] = "none" /\ \A p \in Peers : entry[l][p].state = "Absent" /\ told[l][p].st = "idle"
  BY <1>1 DEF WorldOK
<1>3. heard \in [Lsids -> [Peers -> SUBSET Sessions]]
  BY DEF IInv, TypeOK
<1> QED BY <1>1, <1>2, <1>3, ConsistentLemma

\* Opening a world preserves the invariant.
LEMMA OpenWorldStep ==
    ASSUME IInv, NEW l \in Lsids, OpenWorld(l)
    PROVE  IInv'
PROOF
<1> DEFINE fx == OpenEntries(PeersOf(l))
           st(p) == IF p \in PeersOf(l) THEN "CC" ELSE "Absent"
<1>1. /\ l \in Lsids \ used /\ Apply(OnWorld(l, fx)) /\ peers' = peers /\ heard' = heard
      /\ join_hash' = join_hash /\ used' = used \cup {l} /\ worlds' = worlds \cup {l}
      /\ result' = [result EXCEPT ![l] = IF @ = "none" THEN "success" ELSE "twice"]
  BY DEF OpenWorld
<1>2. /\ PeersOf(l) \subseteq Peers /\ worlds \subseteq used /\ used \subseteq Lsids
      /\ join_hash \in [Lsids -> Peers \cup {Nil}]
      /\ result \in [Lsids -> {"none", "success", "fail", "twice"}]
  BY LsidAssumption DEF IInv, TypeOK, PeersOf
<1>3. /\ result'[l] = "success" /\ \A k \in Lsids \ {l} : result'[k] = result[k]
      /\ result' \in [Lsids -> {"none", "success", "fail", "twice"}]
  BY <1>1, <1>2, FreshLemma
<1>4. ASSUME NEW p \in Peers
      PROVE  Good(told[l][p], said[l][p], heard[l][p], fx[p]) /\ fx[p].info.state = st(p)
  <2>1. fx[p] = Effect(NewANDPeerSessionState(Nil, st(p)), <<>>, <<>>)
    BY DEF OpenEntries, Keep, Cleared, Absent
  <2>2. st(p) \in Quiet \ {"RMEM_NJNI"}
    BY DEF Quiet
  <2> HIDE DEF fx, st
  <2> QED BY <1>1, <2>1, <2>2, FreshLemma, NewEntryGood, EventLemma, MsgLemma
<1>5. \A p \in Peers : entry'[l][p].state = st(p)
  BY <1>1, <1>4 DEF Apply, OnWorld
<1>6. WorldOK(l)'
  BY <1>1, <1>2, <1>3, <1>5 DEF WorldOK, PeersOf, Connected, Target
<1> HIDE DEF fx, st
<1> QED BY <1>1, <1>2, <1>3, <1>4, <1>6, WorldLemma, FreshLemma

\* Joining a world preserves the invariant.
LEMMA JoinWorldStep ==
    ASSUME IInv, NEW l \in Lsids, NEW target \in Peers, JoinWorld(l, target)
    PROVE  IInv'
PROOF
<1> DEFINE fx == JoinEntries(target, PeersOf(l))
           st(p) == IF p # target THEN IF p \in PeersOf(l) THEN "CC" ELSE "Absent"
                    ELSE IF p \in PeersOf(l) THEN "JT" ELSE "DC_JT"
<1>1. /\ l \in Lsids \ used /\ Apply(OnWorld(l, fx)) /\ peers' = peers /\ heard' = heard
      /\ join_hash' = [join_hash EXCEPT ![l] = target] /\ result' = result
      /\ used' = used \cup {l} /\ worlds' = worlds \cup {l}
  BY DEF JoinWorld
<1>2. /\ PeersOf(l) \subseteq Peers /\ worlds \subseteq used /\ used \subseteq Lsids
      /\ join_hash \in [Lsids -> Peers \cup {Nil}]
      /\ result \in [Lsids -> {"none", "success", "fail", "twice"}]
  BY LsidAssumption DEF IInv, TypeOK, PeersOf
<1>3. /\ join_hash'[l] = target /\ \A k \in Lsids \ {l} : join_hash'[k] = join_hash[k]
      /\ join_hash' \in [Lsids -> Peers \cup {Nil}]
  BY <1>1, <1>2
<1>4. ASSUME NEW p \in Peers
      PROVE  /\ Good(told[l][p], said[l][p], heard[l][p], fx[p]) /\ fx[p].info.state = st(p)
             /\ Observe(told[l][p], fx[p].ev) = told[l][p]
  <2>1. \E tx \in {<<>>, <<Msg("JN", Nil)>>}, ev \in {<<>>, <<Event("ConnectRequest", Nil)>>} :
           fx[p] = Effect(NewANDPeerSessionState(Nil, st(p)), tx, ev)
    BY DEF JoinEntries, Keep, Cleared, Absent
  <2>2. st(p) \in Quiet \ {"RMEM_NJNI"}
    BY DEF Quiet
  <2> HIDE DEF fx, st
  <2>3. PICK tx \in {<<>>, <<Msg("JN", Nil)>>}, ev \in {<<>>, <<Event("ConnectRequest", Nil)>>} :
           fx[p] = Effect(NewANDPeerSessionState(Nil, st(p)), tx, ev)
    BY <2>1
  <2>4. Observe(told[l][p], ev) = told[l][p] /\ Say(said[l][p], tx) = said[l][p]
    BY EventLemma, MsgLemma
  <2> QED BY <1>1, <2>2, <2>3, <2>4, FreshLemma, NewEntryGood
<1>5. \A p \in Peers : entry'[l][p] = fx[p].info /\ told'[l][p] = Observe(told[l][p], fx[p].ev)
  BY <1>1 DEF Apply, OnWorld
<1>6. \A p \in Peers : entry'[l][p].state = st(p) /\ told'[l][p].st = "idle"
  BY <1>1, <1>4, <1>5, FreshLemma
<1>7. result'[l] = "none"
  BY <1>1, FreshLemma
<1>8. WorldOK(l)'
  BY <1>1, <1>2, <1>3, <1>6, <1>7 DEF WorldOK, PeersOf, Connected, Target, Quiet
<1> HIDE DEF fx, st
<1> QED BY <1>1, <1>2, <1>3, <1>4, <1>8, WorldLemma, FreshLemma

\* Deleting a world preserves the invariant, whatever the state of its join.
LEMMA CloseWorldStep ==
    ASSUME IInv, NEW l \in Lsids, CloseWorld(l)
    PROVE  IInv'
PROOF
<1> DEFINE fx == Close(World(l))
<1>1. /\ l \in worlds /\ Apply(OnWorld(l, fx)) /\ peers' = peers /\ heard' = heard
      /\ join_hash' = join_hash /\ used' = used /\ worlds' = worlds \ {l}
      /\ result' = [result EXCEPT ![l] = Outcome(@, fx)]
  BY DEF CloseWorld
<1>2. /\ worlds \subseteq used /\ used \subseteq Lsids
      /\ join_hash \in [Lsids -> Peers \cup {Nil}]
      /\ result \in [Lsids -> {"none", "success", "fail", "twice"}]
      /\ heard \in [Lsids -> [Peers -> SUBSET Sessions]]
  BY DEF IInv, TypeOK
<1>3. /\ \A p \in Peers : Consistent(entry[l][p], told[l][p], said[l][p], heard[l][p])
      /\ WorldOK(l)
  BY <1>2, ConsistentLemma DEF IInv
<1>4. \A p \in Peers : fx[p] = CloseEntry(entry[l][p])
  BY DEF Close, World
<1>5. \A p \in Peers : entry'[l][p] = fx[p].info /\ told'[l][p] = Observe(told[l][p], fx[p].ev)
  BY <1>1 DEF Apply, OnWorld
<1> HIDE DEF fx
<1>6. \A p \in Peers :
         /\ Good(told[l][p], said[l][p], heard[l][p], fx[p])
         /\ Silent(entry[l][p], told[l][p], fx[p])
         /\ fx[p].info.state = "Absent"
         /\ ~Raises(fx[p].ev, "JoinSuccess")
         /\ Raises(fx[p].ev, "JoinFail") => entry[l][p].state \in Target
  BY <1>3, <1>4, CloseSound
<1>7. /\ result'[l] = result[l] \/ (result[l] = "none" /\ result'[l] = "fail")
      /\ result' \in [Lsids -> {"none", "success", "fail", "twice"}]
      /\ \A k \in Lsids \ {l} : result'[k] = result[k]
  <2>1. result'[l] = Outcome(result[l], fx) /\ \A k \in Lsids \ {l} : result'[k] = result[k]
    BY <1>1, <1>2
  <2>2. CASE \A p \in Peers : ~Raises(fx[p].ev, "JoinFail")
    <3>1. Outcome(result[l], fx) = result[l]
      BY <1>6, <2>2, OutcomeLemma
    <3> QED BY <1>1, <1>2, <2>1, <3>1
  <2>3. CASE \E p \in Peers : Raises(fx[p].ev, "JoinFail")
    <3>1. result[l] = "none"
      BY <1>1, <1>3, <1>6, <2>3 DEF WorldOK
    <3>2. Outcome(result[l], fx) = "fail"
      BY <1>6, <2>3, <3>1, OutcomeLemma
    <3> QED BY <1>1, <1>2, <2>1, <3>1, <3>2
  <2> QED BY <2>2, <2>3
<1>8. WorldOK(l)'
  <2>1. l \notin worlds' /\ l \in used'
    BY <1>1, <1>2
  <2>2. \A p \in Peers : entry'[l][p].state = "Absent"
    BY <1>5, <1>6
  <2>3. ASSUME result'[l] # "success", NEW p \in Peers
        PROVE  told'[l][p].st = "idle" /\ entry'[l][p].state \in Quiet
    <3>1. entry[l][p].state \in Quiet /\ told[l][p].st = "idle"
      BY <1>3, <1>7, <2>3 DEF WorldOK
    <3> QED BY <1>5, <1>6, <3>1 DEF Silent
  <2>4. result'[l] # "twice"
    BY <1>3, <1>7 DEF WorldOK
  <2> QED BY <2>1, <2>2, <2>3, <2>4 DEF WorldOK
<1> QED BY <1>1, <1>2, <1>6, <1>7, <1>8, WorldLemma

\* The entry of the join target once the join has succeeded.
LEMMA TargetEntry ==
    ASSUME NEW s \in Sessions
    PROVE  LET j == [NewANDPeerSessionState(s, "RMEM") EXCEPT !.sjnp = TRUE]
           IN  j \in Info /\ j.state = "RMEM" /\ j.sid = s
PROOF
<1> DEFINE r == NewANDPeerSessionState(s, "RMEM")
           j == [r EXCEPT !.sjnp = TRUE]
<1>1. r \in Info /\ r.state = "RMEM" /\ r.sid = s
  BY DEF NewANDPeerSessionState, Info, WS, Connected, SjnMax
<1> HIDE DEF r
<1>2. j \in Info /\ j.state = "RMEM" /\ j.sid = s
  BY <1>1 DEF Info
<1> QED BY <1>2 DEF r

\* The answer to a join: the world joins, or the answer is refused.
LEMMA JOKStep ==
    ASSUME IInv, NEW l \in Lsids, NEW p \in PeersOf(l), NEW s \in Sessions, NEW mems \in ListsOf(p),
           ~Exposed(l), ReceiveJOK(l, p, s, mems)
    PROVE  IInv'
PROOF
<1> DEFINE w == World(l)
           fx == JOK(w, p, s, mems)
<1>1. /\ l \in worlds /\ Call(l, fx) /\ Apply(OnWorld(l, fx))
      /\ heard' = [heard EXCEPT ![l][p] = @ \cup {s}]
      /\ result' = [result EXCEPT ![l] = Outcome(@, fx)]
      /\ peers' = peers /\ worlds' = worlds /\ used' = used /\ join_hash' = join_hash
  BY DEF ReceiveJOK, Call, Hear
<1>2. /\ p \in Peers /\ worlds \subseteq used /\ used \subseteq Lsids
      /\ join_hash \in [Lsids -> Peers \cup {Nil}]
      /\ result \in [Lsids -> {"none", "success", "fail", "twice"}]
      /\ heard \in [Lsids -> [Peers -> SUBSET Sessions]]
  BY LsidAssumption DEF IInv, TypeOK, PeersOf
<1>3. /\ heard' \in [Lsids -> [Peers -> SUBSET Sessions]] /\ s \in heard'[l][p]
      /\ \A k \in Lsids : \A q \in Peers : heard[k][q] \subseteq heard'[k][q]
  BY <1>1, <1>2
<1>4. /\ WConsistent(w, told[l], said[l], heard'[l]) /\ w.peers = entry[l] /\ w.join_hash = join_hash[l]
      /\ \A q \in Peers : Consistent(entry[l][q], told[l][q], said[l][q], heard'[l][q])
  BY <1>3, ConsistentLemma
<1>5. /\ WorldOK(l) /\ result[l] # "success"
      /\ \A q \in Peers : told[l][q].st = "idle" /\ entry[l][q].state \in Quiet
  BY DEF IInv, WorldOK, Exposed
<1>6. CASE join_hash[l] # p \/ entry[l][p].state # "JT"
  <2>1. fx = At(w, p, Effect(entry[l][p], <<Msg("RST", s)>>, <<>>))
    BY <1>4, <1>6 DEF JOK
  <2>2. s # said[l][p]
    BY <1>2, <1>4, <1>5, NilAssumption DEF Consistent, EntryOK, Quiet
  <2>3. WSound(w, told[l], said[l], heard'[l], fx) /\ WSilent(w, told[l], fx)
    BY <1>2, <1>4, <2>1, <2>2, ReplySound, AtSound
  <2> HIDE DEF fx, w
  <2>4. WSound(World(l), told[l], said[l], heard'[l], fx)
        /\ WSilent(World(l), told[l], fx)
    BY <2>3 DEF w
  <2> QED BY <1>1, <1>3, <2>4, CallLemma
<1>7. CASE join_hash[l] = p /\ entry[l][p].state = "JT"
  <2> DEFINE j == [NewANDPeerSessionState(s, "RMEM") EXCEPT !.sjnp = TRUE]
             ev == <<Event("JoinSuccess", Nil), Event("Request", s)>>
  <2>1. /\ fx[p] = Effect(j, <<>>, ev)
        /\ \A q \in Peers \ {p} : \/ q \in DOMAIN mems /\ fx[q] = JNI_MEMS(entry[l][q], mems[q])
                                  \/ fx[q] = Keep(entry[l][q])
    BY <1>2, <1>4, <1>7 DEF JOK
  <2>2. \A q \in DOMAIN mems : mems[q] \in Sessions
    BY DEF ListsOf
  <2>3. j \in Info /\ j.state = "RMEM" /\ j.sid = s
    BY TargetEntry
  <2>4. fx[p].info = j /\ fx[p].tx = <<>> /\ fx[p].ev = ev /\ fx[p].fault = "none"
    BY <2>1 DEF Effect
  <2>5. \A q \in Peers : entry'[l][q] = fx[q].info /\ told'[l][q] = Observe(told[l][q], fx[q].ev)
    BY <1>1 DEF Apply, OnWorld
  <2> HIDE DEF fx, j
  <2>6. /\ Raises(fx[p].ev, "JoinSuccess") /\ ~Raises(fx[p].ev, "JoinFail")
        /\ Observe(told[l][p], fx[p].ev) = As("requested", s) /\ Say(said[l][p], fx[p].tx) = Nil
    <3>1. told[l][p].st \notin {"ready", "bad"} /\ said[l][p] = Nil
      BY <1>2, <1>4, <1>5, <1>7 DEF Consistent, EntryOK
    <3> QED BY <2>4, <3>1, EventLemma, MsgLemma, RaisesLemma
  <2>7. Good(told[l][p], said[l][p], heard'[l][p], fx[p])
    <3>1. EntryOK(j, As("requested", s), Nil, heard'[l][p])
      BY <1>3, <2>3, AsLemma, NilAssumption DEF EntryOK
    <3> QED BY <2>3, <2>4, <2>6, <3>1, AsLemma DEF Good
  <2>8. ASSUME NEW q \in Peers \ {p}
        PROVE  /\ entry[l][q].state \notin Target
               /\ Sound(entry[l][q], told[l][q], said[l][q], heard'[l][q], fx[q])
               /\ Linked(entry[l][q], fx[q])
    <3>1. entry[l][q].state \notin Target
      BY <1>1, <1>5, <1>7 DEF WorldOK
    <3>2. CASE q \in DOMAIN mems /\ fx[q] = JNI_MEMS(entry[l][q], mems[q])
      BY <1>4, <2>2, <3>1, <3>2, JNI_MEMS_Sound
    <3>3. CASE fx[q] = Keep(entry[l][q])
      BY <1>4, <3>1, <3>3, KeepSound
    <3> QED BY <2>1, <3>2, <3>3
  <2>9. \A q \in Peers : Good(told[l][q], said[l][q], heard'[l][q], fx[q])
    BY <2>7, <2>8 DEF Good, Sound
  <2>10. Outcome(result[l], fx) = "success"
    <3>1. result[l] = "none"
      BY <1>1, <1>2, <1>5, <1>7 DEF WorldOK, Target
    <3>2. \A q \in Peers : ~Raises(fx[q].ev, "JoinFail")
      BY <2>6, <2>8 DEF Sound
    <3> QED BY <1>2, <2>6, <3>1, <3>2 DEF Outcome
  <2>11. /\ result'[l] = "success" /\ \A k \in Lsids \ {l} : result'[k] = result[k]
         /\ result' \in [Lsids -> {"none", "success", "fail", "twice"}]
    BY <1>1, <1>2, <2>10
  <2>12. WorldOK(l)'
    <3>1. ASSUME NEW q \in Peers
          PROVE  (q \in PeersOf(l)' <=> entry'[l][q].state \in Connected) /\ entry'[l][q].state \notin Target
      <4>1. q \in PeersOf(l) <=> entry[l][q].state \in Connected
        BY <1>1, <1>5 DEF WorldOK
      <4>2. CASE q = p
        BY <1>1, <2>3, <2>4, <2>5, <4>2 DEF PeersOf, Connected, Target
      <4>3. CASE q # p
        BY <1>1, <2>5, <2>8, <4>1, <4>3 DEF PeersOf, Sound, Linked
      <4> QED BY <4>2, <4>3
    <3>2. l \in worlds' /\ l \in used'
      BY <1>1, <1>2
    <3> QED BY <2>11, <3>1, <3>2 DEF WorldOK
  <2> QED BY <1>1, <1>2, <1>3, <2>9, <2>11, <2>12, WorldLemma
<1> QED BY <1>6, <1>7

-----------------------------------------------------------------------------
(* Every step preserves the invariant *)

\* Connecting and disconnecting a peer, and a reset for all worlds.
LEMMA LoopSteps ==
    ASSUME IInv, NEW h \in Locals, NEW p \in Peers,
           \/ p \notin peers[h] /\ PeerConnected(h, p)
           \/ p \in peers[h] /\ PeerClose(h, p)
           \/ p \in peers[h] /\ ReceiveRSTAll(h, p)
    PROVE  IInv'
PROOF
<1>1. /\ \A l \in Lsids : Consistent(entry[l][p], told[l][p], said[l][p], heard[l][p])
      /\ \A l \in Lsids : World(l).peers = entry[l]
  BY ConsistentLemma DEF IInv, TypeOK
<1>2. worlds \subseteq Lsids /\ \A l \in worlds : HostOf[l] = h => (p \in peers[h] <=> entry[l][p].state \in Connected)
  BY DEF IInv, WorldOK, TypeOK, PeersOf
<1>3. CASE p \notin peers[h] /\ PeerConnected(h, p)
  <2> DEFINE e == [l \in Lsids |-> ConnectPeer(entry[l][p])]
             G == [l \in Lsids |-> At(World(l), p, e[l])]
             F == OnWorlds(h, G)
  <2>1. /\ Apply(F) /\ peers' = [peers EXCEPT ![h] = @ \cup {p}] /\ worlds' = worlds /\ used' = used
        /\ join_hash' = join_hash /\ heard' = heard /\ result' = result
    <3>1. G = [l \in Lsids |-> At(World(l), p, ConnectPeer(entry[l][p]))]
      OBVIOUS
    <3> HIDE DEF G
    <3> QED BY <1>3, <3>1 DEF PeerConnected
  <2>2. \A l \in Lsids : e[l] = ConnectPeer(entry[l][p])
    OBVIOUS
  <2>3. \A l \in Lsids : \A q \in Peers :
           F[l][q] = IF l \in worlds /\ HostOf[l] = h /\ q = p THEN e[l] ELSE Keep(entry[l][q])
    BY <1>1 DEF OnWorlds, At
  <2>4. F = OnWorlds(h, [l \in Lsids |-> At(World(l), p, e[l])])
    OBVIOUS
  <2> HIDE DEF e, F, G
  <2>5. \A l \in worlds : HostOf[l] = h =>
           /\ Sound(entry[l][p], told[l][p], said[l][p], heard[l][p], e[l])
           /\ Silent(entry[l][p], told[l][p], e[l])
           /\ e[l].info.state \in Connected /\ ~Raises(e[l].ev, "JoinFail")
    BY <1>1, <1>2, <1>3, <2>2, ConnectSound
  <2>6. ASSUME NEW l \in Lsids PROVE Outcome(result[l], F[l]) = result[l]
    <3>1. ASSUME NEW q \in Peers
          PROVE  ~Raises(F[l][q].ev, "JoinSuccess") /\ ~Raises(F[l][q].ev, "JoinFail")
      <4>1. CASE l \in worlds /\ HostOf[l] = h /\ q = p
        BY <2>3, <2>5, <4>1 DEF Sound
      <4>2. CASE ~(l \in worlds /\ HostOf[l] = h /\ q = p)
        <5>1. F[l][q] = Keep(entry[l][q])
          BY <2>3, <4>2
        <5>2. F[l][q].ev = <<>>
          BY <5>1 DEF Keep, Effect
        <5> QED BY <5>2, RaisesLemma
      <4> QED BY <4>1, <4>2
    <3> QED BY <3>1, OutcomeLemma
  <2>7. result' = [l \in Lsids |-> Outcome(result[l], F[l])]
    <3>1. result \in [Lsids -> {"none", "success", "fail", "twice"}]
      BY DEF IInv, TypeOK
    <3> QED BY <2>1, <2>6, <3>1
  <2>8. \A l \in worlds : HostOf[l] = h => p \in PeersOf(l)'
    BY <2>1 DEF IInv, TypeOK, PeersOf
  <2>9. \A l \in worlds : HostOf[l] = h =>
           /\ Sound(entry[l][p], told[l][p], said[l][p], heard[l][p], e[l])
           /\ Silent(entry[l][p], told[l][p], e[l])
           /\ p \in PeersOf(l)' <=> e[l].info.state \in Connected
    BY <2>5, <2>8
  <2>10. /\ Apply(F) /\ worlds' = worlds /\ used' = used /\ join_hash' = join_hash /\ heard' = heard
         /\ peers' \in {peers, [peers EXCEPT ![h] = @ \cup {p}], [peers EXCEPT ![h] = @ \ {p}]}
    BY <2>1
  <2> QED BY <2>4, <2>7, <2>9, <2>10, LoopLemma
<1>4. CASE p \in peers[h] /\ PeerClose(h, p)
  <2> DEFINE e == [l \in Lsids |-> [ClearStates(entry[l][p]) EXCEPT !.info = Absent]]
             F == OnWorlds(h, [l \in Lsids |-> At(World(l), p, e[l])])
  <2>1. \A l \in Lsids : RemovePeer(World(l), p) = At(World(l), p, e[l])
    BY <1>1 DEF RemovePeer
  <2>2. F = OnWorlds(h, [l \in Lsids |-> RemovePeer(World(l), p)])
    BY <2>1 DEF OnWorlds
  <2>3. \A l \in Lsids : e[l] = [ClearStates(entry[l][p]) EXCEPT !.info = Absent]
    OBVIOUS
  <2>4. /\ Apply(F) /\ peers' = [peers EXCEPT ![h] = @ \ {p}] /\ worlds' = worlds /\ used' = used
        /\ join_hash' = join_hash /\ heard' = heard
        /\ result' = [l \in Lsids |-> Outcome(result[l], F[l])]
    BY <1>4, <2>2 DEF PeerClose
  <2>5. F = OnWorlds(h, [l \in Lsids |-> At(World(l), p, e[l])])
    OBVIOUS
  <2> HIDE DEF e, F
  <2>6. \A l \in worlds : HostOf[l] = h =>
           /\ Sound(entry[l][p], told[l][p], said[l][p], heard[l][p], e[l])
           /\ Silent(entry[l][p], told[l][p], e[l])
           /\ e[l].info.state \notin Connected
    <3> SUFFICES ASSUME NEW l \in worlds, HostOf[l] = h
                 PROVE  /\ Sound(entry[l][p], told[l][p], said[l][p], heard[l][p], e[l])
                        /\ Silent(entry[l][p], told[l][p], e[l])
                        /\ e[l].info.state \notin Connected
      OBVIOUS
    <3>1. Consistent(entry[l][p], told[l][p], said[l][p], heard[l][p]) /\ entry[l][p].state \in Connected
      BY <1>1, <1>2, <1>4
    <3>2. e[l] = [ClearStates(entry[l][p]) EXCEPT !.info = Absent]
      BY <1>2, <2>3
    <3> QED BY <3>1, <3>2, RemoveSound
  <2>7. \A l \in worlds : HostOf[l] = h => p \notin PeersOf(l)'
    BY <2>4 DEF IInv, TypeOK, PeersOf
  <2>8. \A l \in worlds : HostOf[l] = h =>
           /\ Sound(entry[l][p], told[l][p], said[l][p], heard[l][p], e[l])
           /\ Silent(entry[l][p], told[l][p], e[l])
           /\ p \in PeersOf(l)' <=> e[l].info.state \in Connected
    BY <2>6, <2>7
  <2>9. /\ Apply(F) /\ worlds' = worlds /\ used' = used /\ join_hash' = join_hash /\ heard' = heard
        /\ peers' \in {peers, [peers EXCEPT ![h] = @ \cup {p}], [peers EXCEPT ![h] = @ \ {p}]}
        /\ result' = [l \in Lsids |-> Outcome(result[l], F[l])]
    BY <2>4
  <2> QED BY <2>5, <2>8, <2>9, LoopLemma
<1>5. CASE p \in peers[h] /\ ReceiveRSTAll(h, p)
  <2> DEFINE e == [l \in Lsids |-> ClearStates(entry[l][p])]
             F == OnWorlds(h, [l \in Lsids |-> At(World(l), p, e[l])])
  <2>1. \A l \in Lsids : RST(World(l), p) = At(World(l), p, e[l])
    BY <1>1 DEF RST
  <2>2. F = OnWorlds(h, [l \in Lsids |-> RST(World(l), p)])
    BY <2>1 DEF OnWorlds
  <2>3. \A l \in Lsids : e[l] = ClearStates(entry[l][p])
    OBVIOUS
  <2>4. /\ Apply(F) /\ peers' = peers /\ worlds' = worlds /\ used' = used
        /\ join_hash' = join_hash /\ heard' = heard
        /\ result' = [l \in Lsids |-> Outcome(result[l], F[l])]
    BY <1>5, <2>2 DEF ReceiveRSTAll
  <2>5. F = OnWorlds(h, [l \in Lsids |-> At(World(l), p, e[l])])
    OBVIOUS
  <2> HIDE DEF e, F
  <2>6. \A l \in worlds : HostOf[l] = h =>
           /\ Sound(entry[l][p], told[l][p], said[l][p], heard[l][p], e[l])
           /\ Silent(entry[l][p], told[l][p], e[l])
           /\ e[l].info.state \in Connected
    BY <1>1, <1>2, <1>5, <2>3, ClearSound DEF Linked
  <2>7. \A l \in worlds : HostOf[l] = h => p \in PeersOf(l)'
    BY <1>5, <2>4 DEF IInv, TypeOK, PeersOf
  <2>8. \A l \in worlds : HostOf[l] = h =>
           /\ Sound(entry[l][p], told[l][p], said[l][p], heard[l][p], e[l])
           /\ Silent(entry[l][p], told[l][p], e[l])
           /\ p \in PeersOf(l)' <=> e[l].info.state \in Connected
    BY <2>6, <2>7
  <2>9. /\ Apply(F) /\ worlds' = worlds /\ used' = used /\ join_hash' = join_hash /\ heard' = heard
        /\ peers' \in {peers, [peers EXCEPT ![h] = @ \cup {p}], [peers EXCEPT ![h] = @ \ {p}]}
        /\ result' = [l \in Lsids |-> Outcome(result[l], F[l])]
    BY <2>4
  <2> QED BY <2>5, <2>8, <2>9, LoopLemma
<1> QED BY <1>3, <1>4, <1>5

\* A message of a connected peer, and a call of the application or of a timer,
\* that changes the entries of one world.
LEMMA CallSteps ==
    ASSUME IInv, NEW l \in Lsids, NEW p, NEW s,
           \/ p \in Peers /\ s \in Sessions /\ Exposed(l) /\ (AcceptSessionCall(l, p, s) \/ DeclineSessionCall(l, p, s))
           \/ \E old \in SUBSET Peers : TimerExpireCall(l, old)
           \/ p \in PeersOf(l) /\ ReceiveJDN(l, p)
           \/ p \in PeersOf(l) /\ ReceiveRST(l, p)
           \/ p \in PeersOf(l) /\ s \in Sessions /\ Exposed(l) /\ ReceiveJN(l, p, s)
           \/ p \in PeersOf(l) /\ s \in Sessions /\ ReceiveMEM(l, p, s)
           \/ p \in PeersOf(l) /\ s \in Sessions /\ ReceiveSOA(l, p, s)
           \/ p \in PeersOf(l) /\ s \in Sessions /\ ReceiveSOD(l, p, s)
           \/ p \in PeersOf(l) /\ s \in Sessions /\ \E q \in Peers, u \in Sessions : ReceiveJNI(l, p, s, q, u)
           \/ p \in PeersOf(l) /\ s \in Sessions /\ \E mems \in ListsOf(p) : ReceiveSJN(l, p, s, mems)
           \/ p \in PeersOf(l) /\ s \in Sessions /\ \E mems \in ListsOf(p) : ReceiveCRR(l, p, s, mems)
    PROVE  IInv'
PROOF
<1> DEFINE w == World(l)
           OK(h, fx) == /\ WSound(w, told[l], said[l], h[l], fx)
                        /\ result[l] # "success" => WSilent(w, told[l], fx)
<1>0. p \in PeersOf(l) => p \in Peers
  BY LsidAssumption DEF IInv, TypeOK, PeersOf
<1>1. /\ heard \in [Lsids -> [Peers -> SUBSET Sessions]]
      /\ \A k \in Lsids : \A q \in Peers : heard[k][q] \subseteq heard[k][q]
  BY DEF IInv, TypeOK
<1>2. /\ WConsistent(w, told[l], said[l], heard[l]) /\ w.peers = entry[l] /\ w.join_hash = join_hash[l]
  BY <1>1, ConsistentLemma
<1>3. WorldOK(l)
  BY DEF IInv
<1>4. ASSUME NEW fx, Call(l, fx), heard' = heard, OK(heard, fx)
      PROVE  IInv'
  BY <1>1, <1>4, CallLemma
<1>5. l \in worlds /\ p \in PeersOf(l) => entry[l][p].state \in Connected
  BY <1>0, <1>3 DEF WorldOK
<1>6. l \in worlds /\ Exposed(l) => \A q \in Peers : entry[l][q].state \notin Target
  BY <1>3 DEF WorldOK, Exposed
<1>7. p \in PeersOf(l) /\ l \in worlds /\ entry[l][p].state = "MEM" => Exposed(l)
  BY <1>0, <1>3 DEF WorldOK, Exposed, Quiet
<1>8. Exposed(l) <=> result[l] = "success"
  BY DEF Exposed
<1> HIDE DEF w
<1>9. CASE p \in Peers /\ s \in Sessions /\ Exposed(l) /\ AcceptSessionCall(l, p, s)
  <2>1. Call(l, AcceptSession(w, p, s)) /\ heard' = heard /\ l \in worlds
    BY <1>9 DEF AcceptSessionCall, Call, w
  <2>2. OK(heard, AcceptSession(w, p, s))
    BY <1>2, <1>6, <1>8, <1>9, <2>1, AcceptSound
  <2> QED BY <1>4, <2>1, <2>2
<1>10. CASE p \in Peers /\ s \in Sessions /\ Exposed(l) /\ DeclineSessionCall(l, p, s)
  <2>1. Call(l, DeclineSession(w, p, s)) /\ heard' = heard
    BY <1>10 DEF DeclineSessionCall, w
  <2>2. OK(heard, DeclineSession(w, p, s))
    BY <1>2, <1>8, <1>10, DeclineSound
  <2> QED BY <1>4, <2>1, <2>2
<1>11. CASE \E old \in SUBSET Peers : TimerExpireCall(l, old)
  <2>1. PICK old \in SUBSET Peers : TimerExpireCall(l, old)
    BY <1>11
  <2>2. Call(l, TimerExpire(w, old)) /\ heard' = heard
    BY <2>1 DEF TimerExpireCall, w
  <2>3. OK(heard, TimerExpire(w, old))
    BY <1>2, TimerSound
  <2> QED BY <1>4, <2>2, <2>3
<1>12. CASE p \in PeersOf(l) /\ ReceiveJDN(l, p)
  <2>1. Call(l, JDN(w, p)) /\ heard' = heard
    BY <1>12 DEF ReceiveJDN, w
  <2>2. OK(heard, JDN(w, p))
    BY <1>0, <1>12, <1>2, JDN_Sound
  <2> QED BY <1>4, <2>1, <2>2
<1>13. CASE p \in PeersOf(l) /\ ReceiveRST(l, p)
  <2>1. Call(l, RST(w, p)) /\ heard' = heard /\ l \in worlds
    BY <1>13 DEF ReceiveRST, Call, w
  <2>2. OK(heard, RST(w, p))
    BY <1>0, <1>2, <1>5, <1>13, <2>1, ClearAtSound
  <2> QED BY <1>4, <2>1, <2>2
<1>14. CASE p \in PeersOf(l) /\ s \in Sessions /\ Exposed(l) /\ ReceiveJN(l, p, s)
  <2>1. Call(l, JN(w, p, s)) /\ heard' = heard /\ l \in worlds
    BY <1>14 DEF ReceiveJN, Call, w
  <2>2. w.peers[p].state \in Connected /\ Consistent(w.peers[p], told[l][p], said[l][p], heard[l][p])
    BY <1>0, <1>2, <1>5, <1>14, <2>1 DEF WConsistent
  <2>3. PICK e : /\ JN(w, p, s) = At(w, p, e)
                 /\ Sound(w.peers[p], told[l][p], said[l][p], heard[l][p], e) /\ Linked(w.peers[p], e)
    BY <1>14, <2>2, JN_Sound
  <2>4. OK(heard, JN(w, p, s))
    BY <1>0, <1>2, <1>8, <1>14, <2>3, AtSound
  <2> QED BY <1>4, <2>1, <2>4
<1>15. CASE p \in PeersOf(l) /\ s \in Sessions /\ ReceiveMEM(l, p, s)
  <2>1. /\ Call(l, MEM(w, p, s)) /\ l \in worlds
        /\ heard' = [heard EXCEPT ![l][p] = @ \cup {s}]
    BY <1>15 DEF ReceiveMEM, Hear, Call, w
  <2>2. /\ heard' \in [Lsids -> [Peers -> SUBSET Sessions]] /\ s \in heard'[l][p]
        /\ \A k \in Lsids : \A q \in Peers : heard[k][q] \subseteq heard'[k][q]
    BY <1>0, <1>1, <1>15, <2>1
  <2>3. WConsistent(w, told[l], said[l], heard'[l])
    BY <2>2, ConsistentLemma DEF w
  <2>4. /\ w.peers[p].state \in Connected
        /\ Consistent(w.peers[p], told[l][p], said[l][p], heard'[l][p])
    BY <1>0, <1>2, <1>5, <1>15, <2>1, <2>3 DEF WConsistent
  <2>5. PICK e : /\ MEM(w, p, s) = At(w, p, e)
                 /\ Sound(w.peers[p], told[l][p], said[l][p], heard'[l][p], e)
                 /\ Linked(w.peers[p], e) /\ Silent(w.peers[p], told[l][p], e)
    BY <2>2, <2>4, MEM_Sound
  <2>6. OK(heard', MEM(w, p, s))
    BY <1>0, <1>15, <2>3, <2>5, AtSound
  <2> QED BY <2>1, <2>2, <2>6, CallLemma DEF w
<1>16. CASE p \in PeersOf(l) /\ s \in Sessions /\ (ReceiveSOA(l, p, s) \/ ReceiveSOD(l, p, s))
  <2>1. PICK y \in {"ObjectAppend", "ObjectDelete"} :
           Call(l, ObjectUpdate(w, p, s, y)) /\ heard' = heard
    BY <1>16 DEF ReceiveSOA, ReceiveSOD, SOA, SOD, w
  <2>2. OK(heard, ObjectUpdate(w, p, s, y))
    BY <1>0, <1>16, <1>2, ObjectSound
  <2> QED BY <1>4, <2>1, <2>2
<1>17. CASE p \in PeersOf(l) /\ s \in Sessions /\ \E q \in Peers, u \in Sessions : ReceiveJNI(l, p, s, q, u)
  <2>1. PICK q \in Peers, u \in Sessions : ReceiveJNI(l, p, s, q, u)
    BY <1>17
  <2>2. Call(l, JNI(w, p, s, q, u)) /\ heard' = heard /\ l \in worlds
    BY <2>1 DEF ReceiveJNI, Call, w
  <2>3. /\ w.peers[p].state \in Connected
        /\ w.peers[p].state = "MEM" => w.peers[q].state \notin Target /\ Exposed(l)
    BY <1>0, <1>2, <1>5, <1>6, <1>7, <1>17, <2>2
  <2>4. OK(heard, JNI(w, p, s, q, u))
    BY <1>0, <1>17, <1>2, <1>8, <2>3, JNI_Sound
  <2> QED BY <1>4, <2>2, <2>4
<1>18. CASE p \in PeersOf(l) /\ s \in Sessions /\ \E mems \in ListsOf(p) : ReceiveSJN(l, p, s, mems)
  <2>1. PICK mems \in ListsOf(p) : ReceiveSJN(l, p, s, mems)
    BY <1>18
  <2>2. Call(l, SJN(w, p, s, mems)) /\ heard' = heard /\ l \in worlds
    BY <2>1 DEF ReceiveSJN, Call, w
  <2>3. OK(heard, SJN(w, p, s, mems))
    BY <1>0, <1>2, <1>5, <1>18, <2>2, SJN_Sound
  <2> QED BY <1>4, <2>2, <2>3
<1>19. CASE p \in PeersOf(l) /\ s \in Sessions /\ \E mems \in ListsOf(p) : ReceiveCRR(l, p, s, mems)
  <2>1. PICK mems \in ListsOf(p) : ReceiveCRR(l, p, s, mems)
    BY <1>19
  <2>2. Call(l, CRR(w, p, s, mems)) /\ heard' = heard /\ l \in worlds
    BY <2>1 DEF ReceiveCRR, Call, w
  <2>3. OK(heard, CRR(w, p, s, mems))
    BY <1>0, <1>2, <1>5, <1>19, <2>2, CRR_Sound
  <2> QED BY <1>4, <2>2, <2>3
<1> QED BY <1>9, <1>10, <1>11, <1>12, <1>13, <1>14, <1>15, <1>16, <1>17, <1>18, <1>19

\* The initial state satisfies the invariant.
LEMMA InitLemma ==
    ASSUME Init
    PROVE  IInv
PROOF
<1>1. /\ Absent \in Info /\ Absent.state = "Absent" /\ Absent.sid = Nil
      /\ ToldIdle \in Told /\ ToldIdle.st = "idle"
  BY AsLemma DEF Absent, NewANDPeerSessionState, Info, WS, SjnMax
<1>2. TypeOK
  BY <1>1 DEF Init, TypeOK
<1>3. EntryOK(Absent, ToldIdle, Nil, {})
  BY <1>1 DEF EntryOK
<1>4. /\ \A l \in Lsids : \A p \in Peers :
            entry[l][p] = Absent /\ told[l][p] = ToldIdle /\ said[l][p] = Nil /\ heard[l][p] = {}
      /\ worlds = {} /\ fault = "none" /\ \A l \in Lsids : result[l] = "none"
  BY DEF Init
<1>5. \A l \in Lsids : \A p \in Peers : EntryOK(entry[l][p], told[l][p], said[l][p], heard[l][p])
  BY <1>3, <1>4
<1>6. \A l \in Lsids : WorldOK(l)
  BY <1>1, <1>4 DEF WorldOK, Quiet
<1> QED BY <1>2, <1>4, <1>5, <1>6 DEF IInv, NoPanic

\* A step that changes nothing preserves the invariant, as every other step does.
LEMMA NextLemma ==
    ASSUME IInv, [Next]_vars
    PROVE  IInv'
PROOF
<1>1. CASE Connections \/ Resets
  <2>1. \A h \in Locals : peers[h] \subseteq Peers
    BY DEF IInv, TypeOK
  <2> QED BY <1>1, <2>1, LoopSteps DEF Connections, Resets
<1>2. CASE Application
  <2>1. CASE \E l \in Lsids : OpenWorld(l)
    BY <2>1, OpenWorldStep
  <2>2. CASE \E l \in Lsids, p \in Peers : JoinWorld(l, p)
    BY <2>2, JoinWorldStep
  <2>3. CASE \E l \in Lsids : CloseWorld(l)
    BY <2>3, CloseWorldStep
  <2>4. CASE \E l \in Lsids, p \in Peers, s \in Sessions :
               Exposed(l) /\ (AcceptSessionCall(l, p, s) \/ DeclineSessionCall(l, p, s))
    BY <2>4, CallSteps
  <2> QED BY <1>2, <2>1, <2>2, <2>3, <2>4 DEF Application
<1>3. CASE Timers
  BY <1>3, CallSteps DEF Timers
<1>4. CASE Messages
  <2>0. \A l \in Lsids : PeersOf(l) \subseteq Peers
    BY LsidAssumption DEF IInv, TypeOK, PeersOf
  <2>1. PICK l \in Lsids, p \in Peers :
        /\ p \in PeersOf(l)
        /\ \/ ReceiveJDN(l, p)
           \/ ReceiveRST(l, p)
           \/ \E s \in Sessions :
                 \/ Exposed(l) /\ ReceiveJN(l, p, s)
                 \/ ReceiveMEM(l, p, s)
                 \/ ReceiveSOA(l, p, s)
                 \/ ReceiveSOD(l, p, s)
                 \/ \E q \in Peers, t \in Sessions : ReceiveJNI(l, p, s, q, t)
                 \/ \E mems \in ListsOf(p) :
                       \/ ~Exposed(l) /\ ReceiveJOK(l, p, s, mems)
                       \/ ReceiveSJN(l, p, s, mems)
                       \/ ReceiveCRR(l, p, s, mems)
    BY <1>4, <2>0 DEF Messages
  <2>2. p \in PeersOf(l)
    BY <2>1
  <2>3. CASE ReceiveJDN(l, p) \/ ReceiveRST(l, p)
    BY <2>2, <2>3, CallSteps
  <2>4. CASE \E s \in Sessions : \E mems \in ListsOf(p) : ~Exposed(l) /\ ReceiveJOK(l, p, s, mems)
    BY <2>2, <2>4, JOKStep
  <2>5. ASSUME NEW s \in Sessions,
               \/ Exposed(l) /\ ReceiveJN(l, p, s)
               \/ ReceiveMEM(l, p, s)
               \/ ReceiveSOA(l, p, s)
               \/ ReceiveSOD(l, p, s)
               \/ \E q \in Peers, t \in Sessions : ReceiveJNI(l, p, s, q, t)
               \/ \E mems \in ListsOf(p) : ReceiveSJN(l, p, s, mems)
               \/ \E mems \in ListsOf(p) : ReceiveCRR(l, p, s, mems)
        PROVE  IInv'
    BY <2>2, <2>5, CallSteps
  <2> QED BY <2>1, <2>3, <2>4, <2>5
<1>5. CASE UNCHANGED vars
  BY <1>5 DEF IInv, TypeOK, NoPanic, WorldOK, PeersOf, vars, code, history
<1> QED BY <1>1, <1>2, <1>3, <1>4, <1>5 DEF Next

-----------------------------------------------------------------------------
(* The theorems *)

\* Every reachable state satisfies the inductive invariant: what the
\* application was told and what the peer was sent always match the entry.
THEOREM Invariance == Spec => []IInv
PROOF
<1>1. Init => IInv
  BY InitLemma
<1>2. IInv /\ [Next]_vars => IInv'
  BY NextLemma
<1> QED BY <1>1, <1>2, PTL DEF Spec

\* Every variable keeps its type through every call of AND.
THEOREM TypeCorrect == Spec => []TypeOK
PROOF
<1>1. IInv => TypeOK
  BY DEF IInv
<1> QED BY <1>1, Invariance, PTL

\* No panic statement of the state machine is reachable from what connected
\* peers may send and the application may call.
THEOREM PanicFree == Spec => []NoPanic
PROOF
<1>1. IInv => NoPanic
  BY DEF IInv
<1> QED BY <1>1, Invariance, PTL

\* The entries of every world follow PeerConnected and PeerClose.
THEOREM EntriesFollowConnections == Spec => []ConnectedEntries
PROOF
<1>1. IInv => ConnectedEntries
  BY DEF IInv, TypeOK, WorldOK, ConnectedEntries
<1> QED BY <1>1, Invariance, PTL

\* The events about a peer form a protocol the application can follow.
THEOREM EventsMakeSense == Spec => []EventProtocol
PROOF
<1>1. IInv => EventProtocol
  BY DEF IInv, EntryOK, EventProtocol
<1> QED BY <1>1, Invariance, PTL

\* Every promise of membership is kept or withdrawn.
THEOREM CommitmentsKept == Spec => []NoDanglingCommitment
PROOF
<1>1. IInv => NoDanglingCommitment
  BY DEF IInv, EntryOK, NoDanglingCommitment
<1> QED BY <1>1, Invariance, PTL

\* A member is ready only after both sides have agreed.
THEOREM Consent == Spec => []MutualConsent
PROOF
<1>1. IInv => MutualConsent
  <2> SUFFICES ASSUME IInv, NEW l \in Lsids, NEW p \in Peers, told[l][p].st = "ready"
               PROVE  said[l][p] = told[l][p].sid /\ told[l][p].sid \in heard[l][p]
    BY DEF MutualConsent
  <2>1. EntryOK(entry[l][p], told[l][p], said[l][p], heard[l][p])
    BY DEF IInv
  <2> QED BY <2>1 DEF EntryOK
<1> QED BY <1>1, Invariance, PTL

\* A join is never lost inside AND.
THEOREM JoinsStayPending == Spec => []JoinStaysPending
PROOF
<1>1. IInv => JoinStaysPending
  BY DEF IInv, TypeOK, WorldOK, Target, JoinStaysPending
<1> QED BY <1>1, Invariance, PTL

\* Nothing is reported about the peers of a world that has not joined.
THEOREM UnjoinedIsSilent == Spec => []UnjoinedWorldIsSilent
PROOF
<1>1. IInv => UnjoinedWorldIsSilent
  BY DEF IInv, WorldOK, UnjoinedWorldIsSilent
<1> QED BY <1>1, Invariance, PTL

\* No step changes a join result that has been reported: an event that would is
\* recorded as "twice", which the invariant excludes.
LEMMA ResultLemma ==
    ASSUME IInv, [Next]_vars
    PROVE  \A l \in Lsids : result[l] # "none" => result'[l] = result[l]
PROOF
<1> SUFFICES ASSUME NEW k \in Lsids, result[k] # "none" PROVE result'[k] = result[k]
  OBVIOUS
<1>1. IInv'
  BY NextLemma
<1>2. result'[k] # "twice"
  BY <1>1 DEF IInv, WorldOK
<1>3. result \in [Lsids -> {"none", "success", "fail", "twice"}]
  BY DEF IInv, TypeOK
<1>4. ASSUME NEW fx PROVE Outcome(result[k], fx) \in {result[k], "twice"}
  BY DEF Outcome
<1>5. CASE \/ result' = result
           \/ \E F : result' = [l \in Lsids |-> Outcome(result[l], F[l])]
           \/ \E l \in Lsids : \E fx : result' = [result EXCEPT ![l] = Outcome(@, fx)]
           \/ \E l \in Lsids : l \notin used
                 /\ result' = [result EXCEPT ![l] = IF @ = "none" THEN "success" ELSE "twice"]
  <2>1. CASE \E F : result' = [l \in Lsids |-> Outcome(result[l], F[l])]
    BY <1>2, <1>4, <2>1
  <2>2. CASE \E l \in Lsids : \E fx : result' = [result EXCEPT ![l] = Outcome(@, fx)]
    BY <1>2, <1>3, <1>4, <2>2
  <2>3. CASE \E l \in Lsids : l \notin used
                /\ result' = [result EXCEPT ![l] = IF @ = "none" THEN "success" ELSE "twice"]
    BY <1>2, <1>3, <2>3
  <2> QED BY <1>5, <2>1, <2>2, <2>3
<1>6. CASE Connections
  BY <1>5, <1>6 DEF Connections, PeerConnected, PeerClose
<1>7. CASE Resets
  BY <1>5, <1>7 DEF Resets, ReceiveRSTAll
<1>8. ASSUME NEW l \in Lsids, NEW fx, Call(l, fx) PROVE result'[k] = result[k]
  BY <1>5, <1>8 DEF Call
<1>9. CASE Application
  <2>1. CASE \E l \in Lsids : OpenWorld(l)
    BY <1>5, <2>1 DEF OpenWorld
  <2>2. CASE \E l \in Lsids, p \in Peers : JoinWorld(l, p)
    BY <1>5, <2>2 DEF JoinWorld
  <2>3. CASE \E l \in Lsids : CloseWorld(l)
    BY <1>5, <2>3 DEF CloseWorld
  <2>4. CASE \E l \in Lsids, p \in Peers, s \in Sessions :
               Exposed(l) /\ (AcceptSessionCall(l, p, s) \/ DeclineSessionCall(l, p, s))
    BY <1>8, <2>4 DEF AcceptSessionCall, DeclineSessionCall
  <2> QED BY <1>9, <2>1, <2>2, <2>3, <2>4 DEF Application
<1>10. CASE Timers
  BY <1>8, <1>10 DEF Timers, TimerExpireCall
<1>11. CASE Messages
  BY <1>8, <1>11 DEF Messages, ReceiveJN, ReceiveJOK, ReceiveJDN, ReceiveJNI, ReceiveMEM,
     ReceiveSJN, ReceiveCRR, ReceiveSOA, ReceiveSOD, ReceiveRST
<1>12. CASE UNCHANGED vars
  BY <1>12 DEF vars, history
<1> QED BY <1>6, <1>7, <1>9, <1>10, <1>11, <1>12 DEF Next

\* The join result of a world is reported at most once.
THEOREM ResultIsFinal == Spec => JoinResultIsFinal
PROOF
<1>1. IInv /\ [Next]_vars => [\A l \in Lsids : result[l] # "none" => result'[l] = result[l]]_vars
  BY ResultLemma
<1> QED BY <1>1, Invariance, PTL DEF Spec, JoinResultIsFinal

-----------------------------------------------------------------------------
(* Sessions *)

\* The session of entry i after entry j has taken its place: the same, none, or
\* a newer one.
Advances(i, j) ==
    i.sid # Nil /\ j.sid \notin {Nil, i.sid} => TimeOf[i.sid] < TimeOf[j.sid]

\* No entry of world w loses its session to an older one.
WAdvances(w, fx) == \A q \in Peers : Advances(w.peers[q], fx[q].info)

\* An entry without a session is Absent, idle or the target of a join.
NoSession(i) == i.state \in {"Absent", "CC", "JT", "DC_JT"} => i.sid = Nil

\* Clearing an entry, and renewing one whose session is older.
LEMMA ClearAdvances ==
    /\ \A i : ClearStates(i).info.sid \in {Nil, i.sid}
    /\ \A i : Advances(i, ClearStates(i).info) /\ Advances(i, Keep(i).info)
    /\ \A i, why : Advances(i, Fault(i, why).info)
    /\ \A i, s, state, ev : Newer(i, s) => Advances(i, Renewed(i, s, state, ev).info)
PROOF
<1>1. ASSUME NEW i PROVE ClearStates(i).info.sid \in {Nil, i.sid}
  BY DEF ClearStates, Effect, Keep, Fault, Cleared, Absent, NewANDPeerSessionState
<1>2. ASSUME NEW i PROVE Advances(i, ClearStates(i).info) /\ Advances(i, Keep(i).info)
  BY <1>1 DEF Advances, Keep, Effect
<1>3. ASSUME NEW i, NEW why PROVE Advances(i, Fault(i, why).info)
  BY DEF Advances, Fault, Keep, Effect
<1>4. ASSUME NEW i, NEW s, NEW state, NEW ev, Newer(i, s)
      PROVE  Advances(i, Renewed(i, s, state, ev).info)
  <2>1. Renewed(i, s, state, ev).info.sid = s
    BY DEF Renewed, Effect, NewANDPeerSessionState
  <2> QED BY <1>4, <2>1 DEF Advances, Newer
<1> QED BY <1>1, <1>2, <1>3, <1>4

\* An effect on the entry of one peer leaves the sessions of the others alone.
LEMMA AtAdvances ==
    ASSUME NEW w, NEW p, NEW e, Advances(w.peers[p], e.info)
    PROVE  WAdvances(w, At(w, p, e))
PROOF
<1>1. \A q \in Peers : At(w, p, e)[q] = IF q = p THEN e ELSE Keep(w.peers[q])
  BY DEF At
<1> QED BY <1>1, ClearAdvances DEF WAdvances

\* The handlers that look at the time of the session.
LEMMA NewSessionAdvances ==
    ASSUME NEW i \in Info, NoSession(i), NEW s \in Sessions
    PROVE  /\ Advances(i, JNI_MEMS(i, s).info)
           /\ \A w, p : w.peers[p] = i => /\ WAdvances(w, JN(w, p, s))
                                          /\ WAdvances(w, MEM(w, p, s))
PROOF
<1>1. ASSUME i.sid = Nil, NEW j PROVE Advances(i, j)
  BY <1>1 DEF Advances
<1>2. Advances(i, JNI_MEMS(i, s).info)
  <2>1. CASE i.state = "DC_JNI"
    <3>1. JNI_MEMS(i, s) = Keep(IF Newer(i, s) THEN NewANDPeerSessionState(s, "DC_JNI") ELSE i)
      BY <2>1 DEF JNI_MEMS
    <3>2. JNI_MEMS(i, s).info = IF Newer(i, s) THEN NewANDPeerSessionState(s, "DC_JNI") ELSE i
      BY <3>1 DEF Keep, Effect
    <3> QED BY <3>2 DEF Advances, Newer, NewANDPeerSessionState
  <2>2. CASE i.state \in Held /\ Newer(i, s)
    <3>1. JNI_MEMS(i, s) = Renewed(i, s, "JNI", <<Event("Request", s)>>)
      BY <2>2 DEF JNI_MEMS, Held
    <3> QED BY <2>2, <3>1, ClearAdvances
  <2>3. CASE i.state \in Held /\ ~Newer(i, s)
    <3>1. JNI_MEMS(i, s).info.sid = i.sid
      BY <2>3 DEF JNI_MEMS, Held, Keep, Effect, Info
    <3> QED BY <3>1 DEF Advances
  <2>4. CASE i.state = "JT" \/ i.state = "DC_JT" \/ i.state = "CC" \/ i.state = "Absent"
    BY <1>1, <2>4 DEF NoSession
  <2> QED BY <2>1, <2>2, <2>3, <2>4 DEF Info, WS, Connected, Disconnected, Held
<1>3. ASSUME NEW w, NEW p, w.peers[p] = i PROVE WAdvances(w, JN(w, p, s))
  <2>1. PICK e : JN(w, p, s) = At(w, p, e) /\
           e = CASE i.state = "CC" ->
                   Effect(NewANDPeerSessionState(s, "JN"), <<>>, <<Event("Request", s)>>)
             [] i.state = "JT" ->
                   Effect(i, <<Msg("JDN", s)>>, <<>>)
             [] i.state \in {"JN", "RMEM_NJNI", "JNI", "RMEM", "TMEM", "MEM"} ->
                   IF Newer(i, s)
                   THEN Renewed(i, s, "JN", <<Event("Request", s)>>)
                   ELSE Effect(i, <<Msg("JDN", s)>>, <<>>)
             [] OTHER ->
                   Fault(i, "panic")
    BY <1>3 DEF JN
  <2>2. CASE i.state \in Held /\ Newer(i, s)
    BY <1>3, <2>1, <2>2, AtAdvances, ClearAdvances DEF Held
  <2>3. CASE i.state \in Held /\ ~Newer(i, s)
    <3>1. e.info = i
      BY <2>1, <2>3 DEF Held, Effect
    <3> QED BY <1>3, <2>1, <3>1, AtAdvances DEF Advances
  <2>4. CASE i.state = "DC_JNI"
    <3>1. e = Fault(i, "panic")
      BY <2>1, <2>4
    <3> QED BY <1>3, <2>1, <3>1, AtAdvances, ClearAdvances
  <2>5. CASE i.state = "JT" \/ i.state = "DC_JT" \/ i.state = "CC" \/ i.state = "Absent"
    BY <1>1, <1>3, <2>1, <2>5, AtAdvances DEF NoSession
  <2> QED BY <2>2, <2>3, <2>4, <2>5 DEF Info, WS, Connected, Disconnected, Held
<1>4. ASSUME NEW w, NEW p, w.peers[p] = i PROVE WAdvances(w, MEM(w, p, s))
  <2>1. PICK e : MEM(w, p, s) = At(w, p, e) /\
           e = CASE i.state = "CC" ->
                   Keep(NewANDPeerSessionState(s, "RMEM_NJNI"))
             [] i.state = "JT" ->
                   ClearStates(i)
             [] i.state \in {"JN", "RMEM_NJNI", "JNI", "RMEM", "TMEM", "MEM"} ->
                   IF Newer(i, s)
                   THEN Renewed(i, s, "RMEM_NJNI", <<>>)
                   ELSE IF i.state = "JNI" /\ i.sid = s
                   THEN Keep([i EXCEPT !.state = "RMEM"])
                   ELSE IF i.state = "TMEM" /\ i.sid = s
                   THEN Effect([i EXCEPT !.state = "MEM"], <<>>, <<Event("Ready", s)>>)
                   ELSE Keep(i)
             [] OTHER ->
                   Fault(i, "panic")
    BY <1>4 DEF MEM
  <2>2. CASE i.state \in Held /\ Newer(i, s)
    BY <1>4, <2>1, <2>2, AtAdvances, ClearAdvances DEF Held
  <2>3. CASE i.state \in Held /\ ~Newer(i, s)
    <3>1. e.info.sid = i.sid
      BY <2>1, <2>3 DEF Held, Effect, Keep, Info
    <3> QED BY <1>4, <2>1, <3>1, AtAdvances DEF Advances
  <2>4. CASE i.state = "DC_JNI"
    <3>1. e = Fault(i, "panic")
      BY <2>1, <2>4
    <3> QED BY <1>4, <2>1, <3>1, AtAdvances, ClearAdvances
  <2>5. CASE i.state = "JT" \/ i.state = "DC_JT" \/ i.state = "CC" \/ i.state = "Absent"
    BY <1>1, <1>4, <2>1, <2>5, AtAdvances DEF NoSession
  <2> QED BY <2>2, <2>3, <2>4, <2>5 DEF Info, WS, Connected, Disconnected, Held
<1> QED BY <1>2, <1>3, <1>4

\* A world whose entries have a session exactly where they should.
WTyped(w) == \A q \in Peers : w.peers[q] \in Info /\ NoSession(w.peers[q])

\* The handlers that keep the session of every entry or drop it.
LEMMA OtherHandlersAdvance ==
    ASSUME NEW w, WTyped(w), NEW p \in Peers
    PROVE  /\ WAdvances(w, RST(w, p)) /\ WAdvances(w, At(w, p, Reset(w.peers[p])))
           /\ WAdvances(w, RemovePeer(w, p)) /\ WAdvances(w, Close(w))
           /\ WAdvances(w, At(w, p, ConnectPeer(w.peers[p])))
           /\ WAdvances(w, JDN(w, p))
           /\ \A s : WAdvances(w, AcceptSession(w, p, s)) /\ WAdvances(w, DeclineSession(w, p, s))
           /\ \A s, type : WAdvances(w, ObjectUpdate(w, p, s, type))
           /\ \A old : WAdvances(w, TimerExpire(w, old))
PROOF
<1> DEFINE i == w.peers[p]
<1>0. i \in Info /\ NoSession(i)
  BY DEF WTyped
<1>1. WAdvances(w, RST(w, p)) /\ WAdvances(w, At(w, p, Reset(w.peers[p])))
  BY AtAdvances, ClearAdvances DEF RST, Reset
<1>2. WAdvances(w, RemovePeer(w, p))
  <2>1. [ClearStates(i) EXCEPT !.info = Absent].info = Absent
    BY DEF ClearStates, Effect, Keep, Fault
  <2>2. Absent.sid = Nil
    BY DEF Absent, NewANDPeerSessionState
  <2>3. Advances(i, Absent)
    BY <2>2 DEF Advances
  <2> QED BY <2>1, <2>3, AtAdvances DEF RemovePeer
<1>3. WAdvances(w, Close(w))
  <2>1. \A j : CloseEntry(j).info = Absent
    BY DEF CloseEntry, Effect, Keep
  <2>2. Absent.sid = Nil
    BY DEF Absent, NewANDPeerSessionState
  <2> QED BY <2>1, <2>2 DEF Close, WAdvances, Advances
<1>4. WAdvances(w, At(w, p, ConnectPeer(w.peers[p])))
  <2>1. i.sid = Nil \/ ConnectPeer(i).info.sid = i.sid
    BY <1>0 DEF ConnectPeer, Effect, Keep, Fault, NoSession, Info
  <2> QED BY <2>1, AtAdvances DEF Advances
<1>5. WAdvances(w, JDN(w, p))
  <2> DEFINE e == IF w.join_hash = p /\ i.state = "JT"
                  THEN Effect(Cleared, <<>>, <<Event("JoinFail", Nil)>>) ELSE Keep(i)
  <2>1. e.info.sid \in {Nil, i.sid}
    BY DEF Effect, Keep, Cleared, NewANDPeerSessionState
  <2>2. JDN(w, p) = At(w, p, e)
    BY DEF JDN
  <2> HIDE DEF e
  <2> QED BY <2>1, <2>2, AtAdvances DEF Advances
<1>6. ASSUME NEW s PROVE WAdvances(w, AcceptSession(w, p, s))
  <2> DEFINE fx == AcceptSession(w, p, s)
  <2>1. ASSUME NEW st PROVE Advances(i, [i EXCEPT !.state = st])
    BY <1>0 DEF Advances, Info
  <2>2. CASE i.state = "JN" /\ i.sid = s
    <3>1. \A q \in Peers : fx[q].info = IF q = p THEN [i EXCEPT !.state = "TMEM"] ELSE w.peers[q]
      BY <2>2 DEF AcceptSession, Effect, Keep
    <3>2. \A j : Advances(j, j)
      BY DEF Advances
    <3> HIDE DEF fx
    <3>3. WAdvances(w, fx)
      BY <2>1, <3>1, <3>2 DEF WAdvances
    <3> QED BY <3>3 DEF fx
  <2>3. CASE ~(i.state = "JN" /\ i.sid = s)
    <3>1. PICK e : /\ fx = At(w, p, e)
                   /\ \/ e = Fault(i, "panic") \/ e = Keep(i)
                      \/ e.info = [i EXCEPT !.state = "TMEM"] \/ e.info = [i EXCEPT !.state = "MEM"]
      <4>1. CASE i.state = "DC_JT" \/ i.state = "JT"
        BY <4>1 DEF AcceptSession
      <4>2. CASE i.state = "JNI" /\ i.sid = s
        <5> DEFINE e == Effect([i EXCEPT !.state = "TMEM"], <<Msg("MEM", s)>>, <<>>)
        <5>1. fx = At(w, p, e)
          BY <2>3, <4>2 DEF AcceptSession
        <5>2. e.info = [i EXCEPT !.state = "TMEM"]
          BY DEF Effect
        <5> QED BY <5>1, <5>2
      <4>3. CASE i.state = "RMEM" /\ i.sid = s
        <5> DEFINE e == Effect([i EXCEPT !.state = "MEM"], <<Msg("MEM", s)>>, <<Event("Ready", s)>>)
        <5>1. fx = At(w, p, e)
          BY <2>3, <4>3 DEF AcceptSession
        <5>2. e.info = [i EXCEPT !.state = "MEM"]
          BY DEF Effect
        <5> QED BY <5>1, <5>2
      <4>4. CASE /\ i.state # "DC_JT" /\ i.state # "JT"
                 /\ ~(i.state = "JNI" /\ i.sid = s) /\ ~(i.state = "RMEM" /\ i.sid = s)
        BY <2>3, <4>4 DEF AcceptSession
      <4> QED BY <4>1, <4>2, <4>3, <4>4
    <3>2. Advances(i, e.info)
      BY <2>1, <3>1, ClearAdvances
    <3> QED BY <3>1, <3>2, AtAdvances
  <2> QED BY <2>2, <2>3
<1>7. ASSUME NEW s PROVE WAdvances(w, DeclineSession(w, p, s))
  BY AtAdvances, ClearAdvances DEF DeclineSession
<1>8. ASSUME NEW s, NEW type PROVE WAdvances(w, ObjectUpdate(w, p, s, type))
  <2> DEFINE e == IF i.sid # s THEN Effect(i, <<Msg("RST", s)>>, <<>>)
                  ELSE IF i.state = "MEM" THEN Effect(i, <<>>, <<Event(type, s)>>)
                  ELSE Keep(i)
  <2>1. e.info = i
    BY DEF Effect, Keep
  <2>2. ObjectUpdate(w, p, s, type) = At(w, p, e)
    BY DEF ObjectUpdate
  <2> HIDE DEF e
  <2> QED BY <2>1, <2>2, AtAdvances DEF Advances
<1>9. ASSUME NEW old PROVE WAdvances(w, TimerExpire(w, old))
  <2>1. \A q \in Peers : TimerExpire(w, old)[q].info.sid = w.peers[q].sid
    BY DEF TimerExpire, Effect, WTyped, Info
  <2> QED BY <2>1 DEF WAdvances, Advances
<1> QED BY <1>1, <1>2, <1>3, <1>4, <1>5, <1>6, <1>7, <1>8, <1>9

\* The handlers of messages with a list of members.
LEMMA ListHandlersAdvance ==
    ASSUME NEW w, WTyped(w), NEW p \in Peers, NEW s \in Sessions
    PROVE  /\ \A q \in Peers, t \in Sessions : WAdvances(w, JNI(w, p, s, q, t))
           /\ \A mems \in ListsOf(p) : /\ WAdvances(w, JOK(w, p, s, mems))
                                       /\ WAdvances(w, SJN(w, p, s, mems))
                                       /\ WAdvances(w, CRR(w, p, s, mems))
PROOF
<1>1. WAdvances(w, At(w, p, Reset(w.peers[p])))
  BY OtherHandlersAdvance
<1>2. ASSUME NEW q \in Peers, NEW t \in Sessions PROVE WAdvances(w, JNI(w, p, s, q, t))
  <2>1. Advances(w.peers[q], JNI_MEMS(w.peers[q], t).info)
    BY NewSessionAdvances DEF WTyped
  <2>2. JNI(w, p, s, q, t) \in {At(w, q, JNI_MEMS(w.peers[q], t)), At(w, p, Reset(w.peers[p]))}
    BY DEF JNI
  <2> QED BY <1>1, <2>1, <2>2, AtAdvances
<1>3. ASSUME NEW mems \in ListsOf(p) PROVE WAdvances(w, JOK(w, p, s, mems))
  <2>1. CASE w.join_hash # p \/ w.peers[p].state # "JT"
    <3> DEFINE e == Effect(w.peers[p], <<Msg("RST", s)>>, <<>>)
    <3>1. e.info = w.peers[p] /\ JOK(w, p, s, mems) = At(w, p, e)
      BY <2>1 DEF Effect, JOK
    <3> HIDE DEF e
    <3> QED BY <3>1, AtAdvances DEF Advances
  <2>2. CASE w.join_hash = p /\ w.peers[p].state = "JT"
    <3>1. \A q \in Peers \ {p} : JOK(w, p, s, mems)[q] =
             IF q \in DOMAIN mems THEN JNI_MEMS(w.peers[q], mems[q]) ELSE Keep(w.peers[q])
      BY <2>2 DEF JOK
    <3>2. w.peers[p].sid = Nil
      BY <2>2 DEF WTyped, NoSession
    <3>3. \A q \in DOMAIN mems : mems[q] \in Sessions
      BY DEF ListsOf
    <3>4. ASSUME NEW q \in Peers \ {p} PROVE Advances(w.peers[q], JOK(w, p, s, mems)[q].info)
      <4>1. CASE q \in DOMAIN mems
        BY <3>1, <3>3, <4>1, NewSessionAdvances DEF WTyped
      <4>2. CASE q \notin DOMAIN mems
        BY <3>1, <4>2, ClearAdvances
      <4> QED BY <4>1, <4>2
    <3> QED BY <3>2, <3>4 DEF WAdvances, Advances
  <2> QED BY <2>1, <2>2
<1>4. ASSUME NEW mems \in ListsOf(p) PROVE WAdvances(w, SJN(w, p, s, mems))
  <2>1. CASE IsProperMember(w.peers[p], s)
    <3>1. \A q \in Peers : SJN(w, p, s, mems)[q].info.sid = w.peers[q].sid
      BY <2>1 DEF SJN, Effect, WTyped, Info
    <3> QED BY <3>1 DEF WAdvances, Advances
  <2>2. CASE ~IsProperMember(w.peers[p], s)
    BY <1>1, <2>2 DEF SJN
  <2> QED BY <2>1, <2>2
<1>5. ASSUME NEW mems \in ListsOf(p) PROVE WAdvances(w, CRR(w, p, s, mems))
  <2>1. CASE IsProperMember(w.peers[p], s)
    <3>1. \A q \in Peers : CRR(w, p, s, mems)[q].info = w.peers[q]
      BY <2>1 DEF CRR, Effect, Keep, Fault
    <3> QED BY <3>1 DEF WAdvances, Advances
  <2>2. CASE ~IsProperMember(w.peers[p], s)
    BY <1>1, <2>2 DEF CRR
  <2> QED BY <2>1, <2>2
<1> QED BY <1>2, <1>3, <1>4, <1>5

\* No step replaces a session by one that is not newer.
LEMMA SessionLemma ==
    ASSUME IInv, [Next]_vars
    PROVE  \A l \in Lsids, p \in Peers : Advances(entry[l][p], entry'[l][p])
PROOF
<1>1. ASSUME NEW l \in Lsids PROVE WTyped(World(l)) /\ World(l).peers = entry[l]
  BY DEF IInv, TypeOK, EntryOK, WTyped, NoSession, World
<1>2. ASSUME NEW F, Apply(F), \A l \in Lsids : WAdvances(World(l), F[l])
      PROVE  \A l \in Lsids, p \in Peers : Advances(entry[l][p], entry'[l][p])
  BY <1>1, <1>2 DEF Apply, WAdvances
<1>3. \A l \in Lsids : WAdvances(World(l), [p \in Peers |-> Keep(entry[l][p])])
  BY <1>1, ClearAdvances DEF WAdvances
<1>4. ASSUME NEW l \in Lsids, NEW fx, WAdvances(World(l), fx), Apply(OnWorld(l, fx))
      PROVE  \A k \in Lsids, p \in Peers : Advances(entry[k][p], entry'[k][p])
  BY <1>2, <1>3, <1>4 DEF OnWorld
<1>5. ASSUME NEW h, NEW fx, \A l \in Lsids : WAdvances(World(l), fx[l]), Apply(OnWorlds(h, fx))
      PROVE  \A k \in Lsids, p \in Peers : Advances(entry[k][p], entry'[k][p])
  BY <1>2, <1>3, <1>5 DEF OnWorlds
<1>6. \A h \in Locals : peers[h] \subseteq Peers
  BY DEF IInv, TypeOK
<1>7. CASE Connections \/ Resets
  <2>1. CASE \E h \in Locals : \E p \in Peers \ peers[h] : PeerConnected(h, p)
    <3>1. PICK h \in Locals, p \in Peers : PeerConnected(h, p)
      BY <2>1
    <3> DEFINE fx == [l \in Lsids |-> At(World(l), p, ConnectPeer(entry[l][p]))]
    <3>2. \A l \in Lsids : WAdvances(World(l), fx[l])
      BY <1>1, OtherHandlersAdvance
    <3>3. Apply(OnWorlds(h, fx))
      BY <3>1 DEF PeerConnected
    <3> HIDE DEF fx
    <3> QED BY <1>5, <3>2, <3>3
  <2>2. CASE \E h \in Locals : \E p \in peers[h] : PeerClose(h, p)
    <3>1. PICK h \in Locals, p \in Peers : PeerClose(h, p)
      BY <1>6, <2>2
    <3> DEFINE fx == [l \in Lsids |-> RemovePeer(World(l), p)]
    <3>2. \A l \in Lsids : WAdvances(World(l), fx[l])
      BY <1>1, OtherHandlersAdvance
    <3>3. Apply(OnWorlds(h, fx))
      BY <3>1 DEF PeerClose
    <3> HIDE DEF fx
    <3> QED BY <1>5, <3>2, <3>3
  <2>3. CASE \E h \in Locals : \E p \in peers[h] : ReceiveRSTAll(h, p)
    <3>1. PICK h \in Locals, p \in Peers : ReceiveRSTAll(h, p)
      BY <1>6, <2>3
    <3> DEFINE fx == [l \in Lsids |-> RST(World(l), p)]
    <3>2. \A l \in Lsids : WAdvances(World(l), fx[l])
      BY <1>1, OtherHandlersAdvance
    <3>3. Apply(OnWorlds(h, fx))
      BY <3>1 DEF ReceiveRSTAll
    <3> HIDE DEF fx
    <3> QED BY <1>5, <3>2, <3>3
  <2> QED BY <1>7, <2>1, <2>2, <2>3 DEF Connections, Resets
<1>8. ASSUME NEW l \in Lsids, NEW fx, WAdvances(World(l), fx), Call(l, fx)
      PROVE  \A k \in Lsids, p \in Peers : Advances(entry[k][p], entry'[k][p])
  BY <1>4, <1>8 DEF Call
<1>9. CASE Application
  <2>1. ASSUME NEW l \in Lsids, l \notin used, NEW fx PROVE WAdvances(World(l), fx)
    <3>1. \A p \in Peers : entry[l][p].state = "Absent"
      BY <2>1 DEF IInv, TypeOK, WorldOK
    <3>2. \A p \in Peers : entry[l][p].sid = Nil
      BY <1>1, <3>1 DEF WTyped, NoSession
    <3> QED BY <1>1, <3>2 DEF WAdvances, Advances
  <2>2. CASE \E l \in Lsids : OpenWorld(l)
    BY <1>4, <2>1, <2>2 DEF OpenWorld
  <2>3. CASE \E l \in Lsids, p \in Peers : JoinWorld(l, p)
    BY <1>4, <2>1, <2>3 DEF JoinWorld
  <2>4. CASE \E l \in Lsids : CloseWorld(l)
    <3>1. PICK l \in Lsids : CloseWorld(l)
      BY <2>4
    <3>2. CASE Peers = {}
      BY <3>2
    <3>3. CASE Peers # {}
      <4>1. WAdvances(World(l), Close(World(l)))
        BY <1>1, <3>3, OtherHandlersAdvance
      <4> QED BY <1>4, <3>1, <4>1 DEF CloseWorld
    <3> QED BY <3>2, <3>3
  <2>5. CASE \E l \in Lsids, p \in Peers, s \in Sessions :
               Exposed(l) /\ (AcceptSessionCall(l, p, s) \/ DeclineSessionCall(l, p, s))
    <3>1. PICK l \in Lsids, p \in Peers, s \in Sessions :
             AcceptSessionCall(l, p, s) \/ DeclineSessionCall(l, p, s)
      BY <2>5
    <3>2. WAdvances(World(l), AcceptSession(World(l), p, s)) /\ WAdvances(World(l), DeclineSession(World(l), p, s))
      BY <1>1, OtherHandlersAdvance
    <3> QED BY <1>8, <3>1, <3>2 DEF AcceptSessionCall, DeclineSessionCall
  <2> QED BY <1>9, <2>2, <2>3, <2>4, <2>5 DEF Application
<1>10. CASE Timers
  <2>1. PICK l \in Lsids, old \in SUBSET Peers : TimerExpireCall(l, old)
    BY <1>10 DEF Timers
  <2>2. CASE Peers = {}
    BY <2>2
  <2>3. CASE Peers # {}
    <3>1. WAdvances(World(l), TimerExpire(World(l), old))
      BY <1>1, <2>3, OtherHandlersAdvance
    <3> QED BY <1>8, <2>1, <3>1 DEF TimerExpireCall
  <2> QED BY <2>2, <2>3
<1>11. CASE Messages
  <2>1. PICK l \in Lsids, p \in Peers :
           \/ ReceiveJDN(l, p)
           \/ ReceiveRST(l, p)
           \/ \E s \in Sessions :
                 \/ ReceiveJN(l, p, s)
                 \/ ReceiveMEM(l, p, s)
                 \/ ReceiveSOA(l, p, s)
                 \/ ReceiveSOD(l, p, s)
                 \/ \E q \in Peers, t \in Sessions : ReceiveJNI(l, p, s, q, t)
                 \/ \E mems \in ListsOf(p) :
                       \/ ReceiveJOK(l, p, s, mems)
                       \/ ReceiveSJN(l, p, s, mems)
                       \/ ReceiveCRR(l, p, s, mems)
    BY <1>6, <1>11, LsidAssumption DEF Messages, PeersOf
  <2> DEFINE w == World(l)
  <2>2. WTyped(w) /\ w.peers[p] \in Info /\ NoSession(w.peers[p])
    BY <1>1 DEF WTyped
  <2> HIDE DEF w
  <2>3. CASE ReceiveJDN(l, p) \/ ReceiveRST(l, p)
    <3>1. WAdvances(w, JDN(w, p)) /\ WAdvances(w, RST(w, p))
      BY <2>2, OtherHandlersAdvance
    <3> QED BY <1>8, <2>3, <3>1 DEF ReceiveJDN, ReceiveRST, w
  <2>4. ASSUME NEW s \in Sessions, ReceiveJN(l, p, s) \/ ReceiveMEM(l, p, s)
        PROVE  \A k \in Lsids, q \in Peers : Advances(entry[k][q], entry'[k][q])
    <3>1. WAdvances(w, JN(w, p, s)) /\ WAdvances(w, MEM(w, p, s))
      BY <2>2, NewSessionAdvances
    <3> QED BY <1>8, <2>4, <3>1 DEF ReceiveJN, ReceiveMEM, w
  <2>5. ASSUME NEW s \in Sessions, ReceiveSOA(l, p, s) \/ ReceiveSOD(l, p, s)
        PROVE  \A k \in Lsids, q \in Peers : Advances(entry[k][q], entry'[k][q])
    <3>1. WAdvances(w, SOA(w, p, s)) /\ WAdvances(w, SOD(w, p, s))
      BY <2>2, OtherHandlersAdvance DEF SOA, SOD
    <3> QED BY <1>8, <2>5, <3>1 DEF ReceiveSOA, ReceiveSOD, w
  <2>6. ASSUME NEW s \in Sessions, NEW q \in Peers, NEW t \in Sessions, ReceiveJNI(l, p, s, q, t)
        PROVE  \A k \in Lsids, r \in Peers : Advances(entry[k][r], entry'[k][r])
    <3>1. WAdvances(w, JNI(w, p, s, q, t))
      BY <2>2, ListHandlersAdvance
    <3> QED BY <1>8, <2>6, <3>1 DEF ReceiveJNI, w
  <2>7. ASSUME NEW s \in Sessions, NEW mems \in ListsOf(p),
               ReceiveJOK(l, p, s, mems) \/ ReceiveSJN(l, p, s, mems) \/ ReceiveCRR(l, p, s, mems)
        PROVE  \A k \in Lsids, q \in Peers : Advances(entry[k][q], entry'[k][q])
    <3>1. /\ WAdvances(w, JOK(w, p, s, mems)) /\ WAdvances(w, SJN(w, p, s, mems))
          /\ WAdvances(w, CRR(w, p, s, mems))
      BY <2>2, ListHandlersAdvance
    <3> QED BY <1>8, <2>7, <3>1 DEF ReceiveJOK, ReceiveSJN, ReceiveCRR, w
  <2> QED BY <2>1, <2>3, <2>4, <2>5, <2>6, <2>7
<1>12. CASE UNCHANGED vars
  BY <1>12 DEF vars, code, Advances
<1> QED BY <1>7, <1>9, <1>10, <1>11, <1>12 DEF Next

\* TryUpdateSessionID and every other place that stores a session id: a session
\* gives way to a newer one only.
THEOREM NewerSessionsOnly == Spec => SessionsAdvance
PROOF
<1>1. IInv /\ [Next]_vars =>
        [\A l \in Lsids, p \in Peers :
            (entry[l][p].sid # Nil /\ entry'[l][p].sid \notin {Nil, entry[l][p].sid})
            => TimeOf[entry[l][p].sid] < TimeOf[entry'[l][p].sid]]_vars
  BY SessionLemma DEF Advances
<1> QED BY <1>1, Invariance, PTL DEF Spec, SessionsAdvance

-----------------------------------------------------------------------------
(* Membership *)

\* The view t of the application fits entry i.
Viewed(i, t) ==
    /\ t.st # "bad"
    /\ t.st = "ready" <=> i.state = "MEM"
    /\ i.state = "MEM" => t.sid = i.sid

\* What effect e on entry i may do to the session that the application knows:
\* only a session that waits becomes a member, a member never waits again, and
\* an entry that is given up is reported if it was a member and only then.
Lawful(i, t, e) ==
    /\ e.info.state = "MEM" => i.state \in Waiting \cup {"MEM"} /\ e.info.sid = i.sid
    /\ i.state = "MEM" /\ e.info.state \in Waiting => e.info.sid # i.sid
    /\ e.info.state \notin Waiting \cup {"MEM"} =>
          Observe(t, e.ev) = IF i.state = "MEM" THEN ToldIdle ELSE t

WViewed(w, v) ==
    \A q \in Peers : w.peers[q] \in Info /\ NoSession(w.peers[q]) /\ Viewed(w.peers[q], v[q])

WLawful(w, v, fx) == \A q \in Peers : Lawful(w.peers[q], v[q], fx[q])

\* The ways in which an effect is lawful.
LEMMA LawfulForms ==
    ASSUME NEW i, NEW t, NEW e, Viewed(i, t)
    PROVE  /\ e.info.state = i.state /\ e.info.sid = i.sid /\ e.ev = <<>> => Lawful(i, t, e)
           /\ e.info.state \in Waiting /\ (i.state = "MEM" => e.info.sid # i.sid) => Lawful(i, t, e)
           /\ e.info.state = "MEM" /\ i.state \in Waiting \cup {"MEM"} /\ e.info.sid = i.sid
              => Lawful(i, t, e)
           /\ /\ e.info.state \notin Waiting \cup {"MEM"}
              /\ Observe(t, e.ev) = IF i.state = "MEM" THEN ToldIdle ELSE t
              => Lawful(i, t, e)
PROOF
<1>1. Observe(t, <<>>) = t /\ "MEM" \notin Waiting
  BY EventLemma DEF Waiting
<1> QED BY <1>1 DEF Lawful

\* ClearStates and Close tell the application of a member, and of nobody else.
LEMMA ClearTells ==
    ASSUME NEW i, NEW t, Viewed(i, t)
    PROVE  /\ Observe(t, ClearStates(i).ev) = IF i.state = "MEM" THEN ToldIdle ELSE t
           /\ Observe(t, CloseEntry(i).ev) = IF i.state = "MEM" THEN ToldIdle ELSE t
PROOF
<1>1. CASE i.state = "MEM"
  <2>1. ClearStates(i).ev = <<Event("Close", i.sid)>> /\ CloseEntry(i).ev = <<Event("Close", i.sid)>>
    BY <1>1 DEF ClearStates, CloseEntry, Effect, Disconnected
  <2> QED BY <1>1, <2>1, EventLemma DEF Viewed
<1>2. CASE i.state # "MEM"
  <2>1. /\ ClearStates(i).ev \in {<<>>, <<Event("JoinFail", Nil)>>}
        /\ CloseEntry(i).ev \in {<<>>, <<Event("JoinFail", Nil)>>}
    BY <1>2 DEF ClearStates, CloseEntry, Effect, Keep, Fault
  <2>2. Observe(t, <<>>) = t /\ Observe(t, <<Event("JoinFail", Nil)>>) = t
    BY EventLemma
  <2> QED BY <1>2, <2>1, <2>2
<1> QED BY <1>1, <1>2

\* The helpers of the handlers are lawful.
LEMMA HelpersLawful ==
    ASSUME NEW i \in Info, NoSession(i), NEW t, Viewed(i, t)
    PROVE  /\ Lawful(i, t, Keep(i)) /\ Lawful(i, t, ClearStates(i)) /\ Lawful(i, t, CloseEntry(i))
           /\ \A why : Lawful(i, t, Fault(i, why))
           /\ Lawful(i, t, [ClearStates(i) EXCEPT !.info = Absent])
           /\ Lawful(i, t, ConnectPeer(i))
           /\ \A s \in Sessions : i.state \in Held /\ Newer(i, s) =>
                 /\ \A st \in Waiting : \A ev : Lawful(i, t, Renewed(i, s, st, ev))
                 /\ Lawful(i, t, Renewed(i, s, "RMEM_NJNI", <<>>))
PROOF
<1>0. /\ Absent.state = "Absent" /\ Cleared.state = "CC"
      /\ {"Absent", "CC", "JT", "DC_JT", "DC_JNI", "RMEM_NJNI"} \cap (Waiting \cup {"MEM"}) = {}
  BY DEF Absent, Cleared, NewANDPeerSessionState, Waiting
<1>1. Lawful(i, t, Keep(i)) /\ \A why : Lawful(i, t, Fault(i, why))
  <2>1. Keep(i).info = i /\ Keep(i).ev = <<>>
    BY DEF Keep, Effect
  <2>2. \A why : Fault(i, why).info = i /\ Fault(i, why).ev = <<>>
    BY DEF Fault, Keep, Effect
  <2> QED BY <2>1, <2>2, LawfulForms
<1>2. Lawful(i, t, ClearStates(i))
  <2>1. CASE i.state = "Absent"
    <3>1. ClearStates(i) = Fault(i, "panic")
      BY <2>1 DEF ClearStates, Disconnected
    <3> QED BY <1>1, <3>1
  <2>2. CASE i.state # "Absent"
    <3>1. ClearStates(i).info \in {Absent, Cleared}
      BY <2>2 DEF ClearStates, Effect, Keep, Info, WS, Connected, Disconnected
    <3> QED BY <1>0, <3>1, ClearTells, LawfulForms
  <2> QED BY <2>1, <2>2
<1>3. Lawful(i, t, CloseEntry(i))
  <2>1. CloseEntry(i).info = Absent
    BY DEF CloseEntry, Effect, Keep
  <2> QED BY <1>0, <2>1, ClearTells, LawfulForms
<1>4. Lawful(i, t, [ClearStates(i) EXCEPT !.info = Absent])
  <2> DEFINE e == [ClearStates(i) EXCEPT !.info = Absent]
  <2>1. e.info = Absent /\ e.ev = ClearStates(i).ev
    BY DEF ClearStates, Effect, Keep, Fault
  <2> HIDE DEF e
  <2>2. Lawful(i, t, e)
    BY <1>0, <2>1, ClearTells, LawfulForms
  <2> QED BY <2>2 DEF e
<1>5. Lawful(i, t, ConnectPeer(i))
  <2>1. CASE i.state \in {"Absent", "DC_JT"}
    <3>1. ConnectPeer(i).info.state \in {"CC", "JT"} /\ ConnectPeer(i).ev = <<>>
      BY <1>0, <2>1 DEF ConnectPeer, Effect, Keep, Info
    <3>2. Observe(t, <<>>) = t
      BY EventLemma
    <3> QED BY <1>0, <2>1, <3>1, <3>2, LawfulForms
  <2>2. CASE i.state = "DC_JNI"
    <3>1. ConnectPeer(i).info.state = "JNI"
      BY <2>2 DEF ConnectPeer, Effect, Info
    <3> QED BY <2>2, <3>1, LawfulForms DEF Waiting
  <2>3. CASE i.state \notin {"Absent", "DC_JT", "DC_JNI"}
    <3>1. ConnectPeer(i) = Fault(i, "panic")
      BY <2>3 DEF ConnectPeer
    <3> QED BY <1>1, <3>1
  <2> QED BY <2>1, <2>2, <2>3
<1>6. ASSUME NEW s \in Sessions, i.state \in Held, Newer(i, s)
      PROVE  /\ \A st \in Waiting : \A ev : Lawful(i, t, Renewed(i, s, st, ev))
             /\ Lawful(i, t, Renewed(i, s, "RMEM_NJNI", <<>>))
  <2>1. i.sid # s
    BY <1>6, NilAssumption, TimeAssumption DEF Newer
  <2>2. \A st, ev : /\ Renewed(i, s, st, ev).info.state = st /\ Renewed(i, s, st, ev).info.sid = s
                    /\ Renewed(i, s, st, ev).ev = ClearStates(i).ev \o ev
    BY DEF Renewed, Effect, NewANDPeerSessionState
  <2>3. ClearStates(i).ev \o <<>> = ClearStates(i).ev
    <3>1. ClearStates(i).ev \in {<<>>, <<Event("JoinFail", Nil)>>, <<Event("Close", i.sid)>>}
      BY DEF ClearStates, Effect, Keep, Fault
    <3> QED BY <3>1, ConcatLemma
  <2>4. Lawful(i, t, Renewed(i, s, "RMEM_NJNI", <<>>))
    <3> DEFINE e == Renewed(i, s, "RMEM_NJNI", <<>>)
    <3>1. e.info.state = "RMEM_NJNI" /\ e.ev = ClearStates(i).ev
      BY <2>2, <2>3
    <3> HIDE DEF e
    <3>2. Lawful(i, t, e)
      BY <1>0, <3>1, ClearTells, LawfulForms
    <3> QED BY <3>2 DEF e
  <2>5. \A st \in Waiting : \A ev : Lawful(i, t, Renewed(i, s, st, ev))
    BY <2>1, <2>2, LawfulForms
  <2> QED BY <2>4, <2>5
<1> QED BY <1>1, <1>2, <1>3, <1>4, <1>5, <1>6

\* An effect on the entry of one peer.
LEMMA AtLawful ==
    ASSUME NEW w, NEW v, WViewed(w, v), NEW p, NEW e, p \in Peers => Lawful(w.peers[p], v[p], e)
    PROVE  WLawful(w, v, At(w, p, e))
PROOF
<1>1. \A q \in Peers : At(w, p, e)[q] = IF q = p THEN e ELSE Keep(w.peers[q])
  BY DEF At
<1> QED BY <1>1, HelpersLawful DEF WLawful, WViewed

\* The handlers that may store a new session.
LEMMA NewSessionLawful ==
    ASSUME NEW i \in Info, NoSession(i), NEW t, Viewed(i, t), NEW s \in Sessions
    PROVE  /\ Lawful(i, t, JNI_MEMS(i, s))
           /\ \A w, v : \A p \in Peers : w.peers[p] = i /\ v[p] = t /\ WViewed(w, v) =>
                 WLawful(w, v, JN(w, p, s)) /\ WLawful(w, v, MEM(w, p, s))
PROOF
<1>0. \A st \in {"Absent", "CC", "JT", "DC_JT", "DC_JNI", "RMEM_NJNI"} : st \notin Waiting \cup {"MEM"}
  BY DEF Waiting
<1>1. /\ Observe(t, <<>>) = t
      /\ Observe(t, <<Event("PeerRegister", Nil), Event("ConnectRequest", Nil)>>) = t
  BY EventLemma
<1>2. Lawful(i, t, JNI_MEMS(i, s))
  <2> DEFINE e == JNI_MEMS(i, s)
  <2>1. CASE i.state = "Absent" \/ i.state = "DC_JNI"
    <3>1. /\ e.info.state = "DC_JNI"
          /\ e.ev \in {<<>>, <<Event("PeerRegister", Nil), Event("ConnectRequest", Nil)>>}
      BY <2>1 DEF JNI_MEMS, Keep, Effect, NewANDPeerSessionState
    <3> HIDE DEF e
    <3>2. Lawful(i, t, e)
      BY <1>0, <1>1, <2>1, <3>1, LawfulForms
    <3> QED BY <3>2 DEF e
  <2>2. CASE i.state = "CC"
    <3>1. e.info.state = "JNI"
      BY <2>2 DEF JNI_MEMS, Effect, NewANDPeerSessionState
    <3> QED BY <2>2, <3>1, LawfulForms DEF Waiting
  <2>3. CASE i.state \in Held /\ Newer(i, s)
    <3>1. e = Renewed(i, s, "JNI", <<Event("Request", s)>>)
      BY <2>3 DEF JNI_MEMS, Held
    <3> QED BY <2>3, <3>1, HelpersLawful DEF Waiting
  <2>4. CASE i.state \in Held /\ ~Newer(i, s)
    <3>1. e = Keep(i) \/ (i.state = "RMEM_NJNI" /\ e.info.state = "RMEM")
      BY <2>4 DEF JNI_MEMS, Held, Effect, Info
    <3>2. CASE e = Keep(i)
      BY <3>2, HelpersLawful
    <3>3. CASE i.state = "RMEM_NJNI" /\ e.info.state = "RMEM"
      BY <3>3, LawfulForms DEF Waiting
    <3> QED BY <3>1, <3>2, <3>3
  <2>5. CASE i.state = "JT" \/ i.state = "DC_JT"
    <3>1. e = Fault(i, "panic")
      BY <2>5 DEF JNI_MEMS
    <3> QED BY <3>1, HelpersLawful
  <2> QED BY <2>1, <2>2, <2>3, <2>4, <2>5 DEF Info, WS, Connected, Disconnected, Held
<1>3. ASSUME NEW w, NEW v, NEW p \in Peers, w.peers[p] = i, v[p] = t, WViewed(w, v)
      PROVE  WLawful(w, v, JN(w, p, s))
  <2>1. PICK e : JN(w, p, s) = At(w, p, e) /\
           e = CASE i.state = "CC" ->
                   Effect(NewANDPeerSessionState(s, "JN"), <<>>, <<Event("Request", s)>>)
             [] i.state = "JT" ->
                   Effect(i, <<Msg("JDN", s)>>, <<>>)
             [] i.state \in {"JN", "RMEM_NJNI", "JNI", "RMEM", "TMEM", "MEM"} ->
                   IF Newer(i, s)
                   THEN Renewed(i, s, "JN", <<Event("Request", s)>>)
                   ELSE Effect(i, <<Msg("JDN", s)>>, <<>>)
             [] OTHER ->
                   Fault(i, "panic")
    BY <1>3 DEF JN
  <2>2. \/ i.state = "CC" /\ e.info.state = "JN"
        \/ e.info = i /\ e.ev = <<>>
        \/ i.state \in Held /\ Newer(i, s) /\ e = Renewed(i, s, "JN", <<Event("Request", s)>>)
    BY <2>1 DEF Effect, Fault, Keep, NewANDPeerSessionState, Held
  <2>3. Lawful(i, t, e)
    BY <2>2, LawfulForms, HelpersLawful DEF Waiting
  <2> QED BY <1>3, <2>1, <2>3, AtLawful
<1>4. ASSUME NEW w, NEW v, NEW p \in Peers, w.peers[p] = i, v[p] = t, WViewed(w, v)
      PROVE  WLawful(w, v, MEM(w, p, s))
  <2>1. PICK e : MEM(w, p, s) = At(w, p, e) /\
           e = CASE i.state = "CC" ->
                   Keep(NewANDPeerSessionState(s, "RMEM_NJNI"))
             [] i.state = "JT" ->
                   ClearStates(i)
             [] i.state \in {"JN", "RMEM_NJNI", "JNI", "RMEM", "TMEM", "MEM"} ->
                   IF Newer(i, s)
                   THEN Renewed(i, s, "RMEM_NJNI", <<>>)
                   ELSE IF i.state = "JNI" /\ i.sid = s
                   THEN Keep([i EXCEPT !.state = "RMEM"])
                   ELSE IF i.state = "TMEM" /\ i.sid = s
                   THEN Effect([i EXCEPT !.state = "MEM"], <<>>, <<Event("Ready", s)>>)
                   ELSE Keep(i)
             [] OTHER ->
                   Fault(i, "panic")
    BY <1>4 DEF MEM
  <2>2. CASE i.state = "CC"
    <3>1. e.info.state = "RMEM_NJNI" /\ e.ev = <<>>
      BY <2>1, <2>2 DEF Keep, Effect, NewANDPeerSessionState
    <3>2. Lawful(i, t, e)
      BY <1>0, <1>1, <2>2, <3>1, LawfulForms
    <3> QED BY <1>4, <2>1, <3>2, AtLawful
  <2>3. CASE i.state = "JT" \/ (i.state \in Held /\ Newer(i, s))
    <3>1. Lawful(i, t, e)
      BY <2>1, <2>3, HelpersLawful DEF Held
    <3> QED BY <1>4, <2>1, <3>1, AtLawful
  <2>4. CASE i.state \in Held /\ ~Newer(i, s)
    <3>1. \/ i.state = "JNI" /\ e.info.state = "RMEM"
          \/ i.state = "TMEM" /\ e.info.state = "MEM" /\ e.info.sid = i.sid
          \/ e = Keep(i)
      BY <2>1, <2>4 DEF Held, Keep, Effect, Info
    <3>2. Lawful(i, t, e)
      BY <3>1, LawfulForms, HelpersLawful DEF Waiting
    <3> QED BY <1>4, <2>1, <3>2, AtLawful
  <2>5. CASE i.state \notin Held \cup {"CC", "JT"}
    <3>1. e = Fault(i, "panic")
      BY <2>1, <2>5 DEF Held
    <3> QED BY <1>4, <2>1, <3>1, AtLawful, HelpersLawful
  <2> QED BY <2>2, <2>3, <2>4, <2>5
<1> QED BY <1>2, <1>3, <1>4

\* The handlers of the calls, and of messages that only end or complete.
LEMMA OtherHandlersLawful ==
    ASSUME NEW w, NEW v, WViewed(w, v), NEW p \in Peers
    PROVE  /\ WLawful(w, v, RST(w, p)) /\ WLawful(w, v, At(w, p, Reset(w.peers[p])))
           /\ WLawful(w, v, RemovePeer(w, p)) /\ WLawful(w, v, Close(w))
           /\ WLawful(w, v, At(w, p, ConnectPeer(w.peers[p])))
           /\ WLawful(w, v, JDN(w, p))
           /\ \A s : WLawful(w, v, AcceptSession(w, p, s)) /\ WLawful(w, v, DeclineSession(w, p, s))
           /\ \A s, type : WLawful(w, v, ObjectUpdate(w, p, s, type))
           /\ \A old : WLawful(w, v, TimerExpire(w, old))
PROOF
<1> DEFINE i == w.peers[p]
           t == v[p]
<1>0. i \in Info /\ NoSession(i) /\ Viewed(i, t)
  BY DEF WViewed
<1>1. WLawful(w, v, RST(w, p)) /\ WLawful(w, v, At(w, p, Reset(w.peers[p])))
  BY <1>0, AtLawful, HelpersLawful DEF RST, Reset
<1>2. WLawful(w, v, RemovePeer(w, p))
  BY <1>0, AtLawful, HelpersLawful DEF RemovePeer
<1>3. WLawful(w, v, Close(w))
  BY HelpersLawful DEF Close, WLawful, WViewed
<1>4. WLawful(w, v, At(w, p, ConnectPeer(w.peers[p])))
  BY <1>0, AtLawful, HelpersLawful
<1>5. WLawful(w, v, JDN(w, p))
  <2> DEFINE e == IF w.join_hash = p /\ i.state = "JT"
                  THEN Effect(Cleared, <<>>, <<Event("JoinFail", Nil)>>) ELSE Keep(i)
  <2>1. \/ i.state = "JT" /\ e.info.state = "CC" /\ e.ev = <<Event("JoinFail", Nil)>>
        \/ e = Keep(i)
    BY DEF Effect, Cleared, NewANDPeerSessionState
  <2>2. Observe(t, <<Event("JoinFail", Nil)>>) = t /\ "CC" \notin Waiting
    BY EventLemma DEF Waiting
  <2>3. JDN(w, p) = At(w, p, e)
    BY DEF JDN
  <2> HIDE DEF e
  <2>4. Lawful(i, t, e)
    BY <1>0, <2>1, <2>2, LawfulForms, HelpersLawful
  <2> QED BY <2>3, <2>4, AtLawful
<1>6. ASSUME NEW s PROVE WLawful(w, v, AcceptSession(w, p, s))
  <2> DEFINE fx == AcceptSession(w, p, s)
  <2>1. CASE i.state = "JN" /\ i.sid = s
    <3>1. fx[p].info.state = "TMEM"
      BY <1>0, <2>1 DEF AcceptSession, Effect, Info
    <3>2. \A q \in Peers \ {p} : fx[q].info = w.peers[q] /\ fx[q].ev = <<>>
      BY <2>1 DEF AcceptSession, Effect, Keep
    <3> HIDE DEF fx
    <3>3. Lawful(i, t, fx[p])
      BY <1>0, <2>1, <3>1, LawfulForms DEF Waiting
    <3>4. \A q \in Peers \ {p} : Lawful(w.peers[q], v[q], fx[q])
      BY <3>2, LawfulForms DEF WViewed
    <3>5. WLawful(w, v, fx)
      BY <3>3, <3>4 DEF WLawful
    <3> QED BY <3>5 DEF fx
  <2>2. CASE ~(i.state = "JN" /\ i.sid = s)
    <3>1. PICK e : /\ fx = At(w, p, e)
                   /\ \/ e = Fault(i, "panic") \/ e = Keep(i)
                      \/ i.state = "JNI" /\ e.info = [i EXCEPT !.state = "TMEM"]
                      \/ i.state = "RMEM" /\ e.info = [i EXCEPT !.state = "MEM"]
      <4>1. CASE i.state = "DC_JT" \/ i.state = "JT"
        BY <4>1 DEF AcceptSession
      <4>2. CASE i.state = "JNI" /\ i.sid = s
        <5> DEFINE e == Effect([i EXCEPT !.state = "TMEM"], <<Msg("MEM", s)>>, <<>>)
        <5>1. fx = At(w, p, e)
          BY <2>2, <4>2 DEF AcceptSession
        <5>2. e.info = [i EXCEPT !.state = "TMEM"]
          BY DEF Effect
        <5> QED BY <4>2, <5>1, <5>2
      <4>3. CASE i.state = "RMEM" /\ i.sid = s
        <5> DEFINE e == Effect([i EXCEPT !.state = "MEM"], <<Msg("MEM", s)>>, <<Event("Ready", s)>>)
        <5>1. fx = At(w, p, e)
          BY <2>2, <4>3 DEF AcceptSession
        <5>2. e.info = [i EXCEPT !.state = "MEM"]
          BY DEF Effect
        <5> QED BY <4>3, <5>1, <5>2
      <4>4. CASE /\ i.state # "DC_JT" /\ i.state # "JT"
                 /\ ~(i.state = "JNI" /\ i.sid = s) /\ ~(i.state = "RMEM" /\ i.sid = s)
        BY <2>2, <4>4 DEF AcceptSession
      <4> QED BY <4>1, <4>2, <4>3, <4>4
    <3>2. \/ e = Fault(i, "panic") \/ e = Keep(i)
          \/ i.state = "JNI" /\ e.info.state = "TMEM"
          \/ i.state = "RMEM" /\ e.info.state = "MEM" /\ e.info.sid = i.sid
      BY <1>0, <3>1 DEF Info
    <3>3. Lawful(i, t, e)
      BY <1>0, <3>2, LawfulForms, HelpersLawful DEF Waiting
    <3> QED BY <3>1, <3>3, AtLawful
  <2> QED BY <2>1, <2>2
<1>7. ASSUME NEW s PROVE WLawful(w, v, DeclineSession(w, p, s))
  BY <1>0, AtLawful, HelpersLawful DEF DeclineSession
<1>8. ASSUME NEW s, NEW type PROVE WLawful(w, v, ObjectUpdate(w, p, s, type))
  <2> DEFINE e == IF i.sid # s THEN Effect(i, <<Msg("RST", s)>>, <<>>)
                  ELSE IF i.state = "MEM" THEN Effect(i, <<>>, <<Event(type, s)>>)
                  ELSE Keep(i)
  <2>1. e.info = i /\ (e.ev = <<>> \/ i.state = "MEM")
    BY DEF Effect, Keep
  <2>2. ObjectUpdate(w, p, s, type) = At(w, p, e)
    BY DEF ObjectUpdate
  <2> HIDE DEF e
  <2>3. Lawful(i, t, e)
    BY <1>0, <2>1, LawfulForms
  <2> QED BY <2>2, <2>3, AtLawful
<1>9. ASSUME NEW old PROVE WLawful(w, v, TimerExpire(w, old))
  <2> DEFINE fx == TimerExpire(w, old)
  <2>1. \A q \in Peers : /\ fx[q].info.sid = w.peers[q].sid /\ fx[q].info.state = w.peers[q].state
                         /\ fx[q].ev = <<>>
    BY DEF TimerExpire, Effect, WViewed, Info
  <2> HIDE DEF fx
  <2>2. WLawful(w, v, fx)
    BY <2>1, LawfulForms DEF WLawful, WViewed
  <2> QED BY <2>2 DEF fx
<1> QED BY <1>1, <1>2, <1>3, <1>4, <1>5, <1>6, <1>7, <1>8, <1>9

\* The handlers of messages with a list of members.
LEMMA ListHandlersLawful ==
    ASSUME NEW w, NEW v, WViewed(w, v), NEW p \in Peers, NEW s \in Sessions
    PROVE  /\ \A q \in Peers, t \in Sessions : WLawful(w, v, JNI(w, p, s, q, t))
           /\ \A mems \in ListsOf(p) : /\ WLawful(w, v, JOK(w, p, s, mems))
                                       /\ WLawful(w, v, SJN(w, p, s, mems))
                                       /\ WLawful(w, v, CRR(w, p, s, mems))
PROOF
<1>1. WLawful(w, v, At(w, p, Reset(w.peers[p])))
  BY OtherHandlersLawful
<1>2. ASSUME NEW q \in Peers, NEW t \in Sessions PROVE WLawful(w, v, JNI(w, p, s, q, t))
  <2>1. Lawful(w.peers[q], v[q], JNI_MEMS(w.peers[q], t))
    BY NewSessionLawful DEF WViewed
  <2>2. JNI(w, p, s, q, t) \in {At(w, q, JNI_MEMS(w.peers[q], t)), At(w, p, Reset(w.peers[p]))}
    BY DEF JNI
  <2> QED BY <1>1, <2>1, <2>2, AtLawful
<1>3. ASSUME NEW mems \in ListsOf(p) PROVE WLawful(w, v, JOK(w, p, s, mems))
  <2>1. CASE w.join_hash # p \/ w.peers[p].state # "JT"
    <3> DEFINE e == Effect(w.peers[p], <<Msg("RST", s)>>, <<>>)
    <3>1. e.info = w.peers[p] /\ e.ev = <<>> /\ JOK(w, p, s, mems) = At(w, p, e)
      BY <2>1 DEF Effect, JOK
    <3> HIDE DEF e
    <3>2. Lawful(w.peers[p], v[p], e)
      BY <3>1, LawfulForms DEF WViewed
    <3> QED BY <3>1, <3>2, AtLawful
  <2>2. CASE w.join_hash = p /\ w.peers[p].state = "JT"
    <3> DEFINE fx == JOK(w, p, s, mems)
    <3>1. \A q \in Peers \ {p} : fx[q] =
             IF q \in DOMAIN mems THEN JNI_MEMS(w.peers[q], mems[q]) ELSE Keep(w.peers[q])
      BY <2>2 DEF JOK
    <3>2. fx[p].info.state = "RMEM"
      BY <2>2 DEF JOK, Effect, NewANDPeerSessionState
    <3>3. \A q \in DOMAIN mems : mems[q] \in Sessions
      BY DEF ListsOf
    <3> HIDE DEF fx
    <3>4. ASSUME NEW q \in Peers \ {p} PROVE Lawful(w.peers[q], v[q], fx[q])
      <4>1. CASE q \in DOMAIN mems
        BY <3>1, <3>3, <4>1, NewSessionLawful DEF WViewed
      <4>2. CASE q \notin DOMAIN mems
        BY <3>1, <4>2, HelpersLawful DEF WViewed
      <4> QED BY <4>1, <4>2
    <3>5. Lawful(w.peers[p], v[p], fx[p])
      BY <2>2, <3>2, LawfulForms DEF WViewed, Waiting
    <3>6. WLawful(w, v, fx)
      BY <3>4, <3>5 DEF WLawful
    <3> QED BY <3>6 DEF fx
  <2> QED BY <2>1, <2>2
<1>4. ASSUME NEW mems \in ListsOf(p) PROVE WLawful(w, v, SJN(w, p, s, mems))
  <2> DEFINE fx == SJN(w, p, s, mems)
  <2>1. CASE IsProperMember(w.peers[p], s)
    <3>1. \A q \in Peers : /\ fx[q].info.sid = w.peers[q].sid /\ fx[q].info.state = w.peers[q].state
                           /\ fx[q].ev = <<>>
      BY <2>1 DEF SJN, Effect, WViewed, Info
    <3> HIDE DEF fx
    <3>2. WLawful(w, v, fx)
      BY <3>1, LawfulForms DEF WLawful, WViewed
    <3> QED BY <3>2 DEF fx
  <2>2. CASE ~IsProperMember(w.peers[p], s)
    BY <1>1, <2>2 DEF SJN
  <2> QED BY <2>1, <2>2
<1>5. ASSUME NEW mems \in ListsOf(p) PROVE WLawful(w, v, CRR(w, p, s, mems))
  <2> DEFINE fx == CRR(w, p, s, mems)
  <2>1. CASE IsProperMember(w.peers[p], s)
    <3>1. \A q \in Peers : fx[q].info = w.peers[q] /\ fx[q].ev = <<>>
      BY <2>1 DEF CRR, Effect, Keep, Fault
    <3> HIDE DEF fx
    <3>2. WLawful(w, v, fx)
      BY <3>1, LawfulForms DEF WLawful, WViewed
    <3> QED BY <3>2 DEF fx
  <2>2. CASE ~IsProperMember(w.peers[p], s)
    BY <1>1, <2>2 DEF CRR
  <2> QED BY <2>1, <2>2
<1> QED BY <1>2, <1>3, <1>4, <1>5

\* What a step of AND has done to the entry and to the view of peer p.
LawfulStep(l, p) ==
    LET i == entry[l][p]
        j == entry'[l][p]
    IN  /\ j.state = "MEM" => i.state \in Waiting \cup {"MEM"} /\ j.sid = i.sid
        /\ i.state = "MEM" /\ j.state \in Waiting => j.sid # i.sid
        /\ j.state \notin Waiting \cup {"MEM"} =>
              told'[l][p] = IF i.state = "MEM" THEN ToldIdle ELSE told[l][p]

\* Every step of AND is lawful for every world and every peer.
LEMMA LawfulLemma ==
    ASSUME IInv, [Next]_vars
    PROVE  \A l \in Lsids, p \in Peers : LawfulStep(l, p)
PROOF
<1>1. ASSUME NEW l \in Lsids PROVE WViewed(World(l), told[l]) /\ World(l).peers = entry[l]
  BY DEF IInv, TypeOK, EntryOK, WViewed, Viewed, NoSession, World
<1>2. ASSUME NEW F, Apply(F), \A l \in Lsids : WLawful(World(l), told[l], F[l])
      PROVE  \A l \in Lsids, p \in Peers : LawfulStep(l, p)
  <2>1. ASSUME NEW l \in Lsids, NEW p \in Peers PROVE LawfulStep(l, p)
    <3>1. entry'[l][p] = F[l][p].info /\ told'[l][p] = Observe(told[l][p], F[l][p].ev)
      BY <1>2 DEF Apply
    <3>2. Lawful(entry[l][p], told[l][p], F[l][p])
      BY <1>1, <1>2 DEF WLawful
    <3> QED BY <3>1, <3>2 DEF Lawful, LawfulStep
  <2> QED BY <2>1
<1>3. \A l \in Lsids : WLawful(World(l), told[l], [p \in Peers |-> Keep(entry[l][p])])
  BY <1>1, HelpersLawful DEF WLawful, WViewed
<1>4. ASSUME NEW l \in Lsids, NEW fx, WLawful(World(l), told[l], fx), Apply(OnWorld(l, fx))
      PROVE  \A k \in Lsids, p \in Peers : LawfulStep(k, p)
  BY <1>2, <1>3, <1>4 DEF OnWorld
<1>5. ASSUME NEW h, NEW fx, \A l \in Lsids : WLawful(World(l), told[l], fx[l]), Apply(OnWorlds(h, fx))
      PROVE  \A k \in Lsids, p \in Peers : LawfulStep(k, p)
  BY <1>2, <1>3, <1>5 DEF OnWorlds
<1>6. \A h \in Locals : peers[h] \subseteq Peers
  BY DEF IInv, TypeOK
<1>7. CASE Connections \/ Resets
  <2>1. CASE \E h \in Locals : \E p \in Peers \ peers[h] : PeerConnected(h, p)
    <3>1. PICK h \in Locals, p \in Peers : PeerConnected(h, p)
      BY <2>1
    <3> DEFINE fx == [l \in Lsids |-> At(World(l), p, ConnectPeer(entry[l][p]))]
    <3>2. \A l \in Lsids : WLawful(World(l), told[l], fx[l])
      BY <1>1, OtherHandlersLawful
    <3>3. Apply(OnWorlds(h, fx))
      BY <3>1 DEF PeerConnected
    <3> HIDE DEF fx
    <3> QED BY <1>5, <3>2, <3>3
  <2>2. CASE \E h \in Locals : \E p \in peers[h] : PeerClose(h, p)
    <3>1. PICK h \in Locals, p \in Peers : PeerClose(h, p)
      BY <1>6, <2>2
    <3> DEFINE fx == [l \in Lsids |-> RemovePeer(World(l), p)]
    <3>2. \A l \in Lsids : WLawful(World(l), told[l], fx[l])
      BY <1>1, OtherHandlersLawful
    <3>3. Apply(OnWorlds(h, fx))
      BY <3>1 DEF PeerClose
    <3> HIDE DEF fx
    <3> QED BY <1>5, <3>2, <3>3
  <2>3. CASE \E h \in Locals : \E p \in peers[h] : ReceiveRSTAll(h, p)
    <3>1. PICK h \in Locals, p \in Peers : ReceiveRSTAll(h, p)
      BY <1>6, <2>3
    <3> DEFINE fx == [l \in Lsids |-> RST(World(l), p)]
    <3>2. \A l \in Lsids : WLawful(World(l), told[l], fx[l])
      BY <1>1, OtherHandlersLawful
    <3>3. Apply(OnWorlds(h, fx))
      BY <3>1 DEF ReceiveRSTAll
    <3> HIDE DEF fx
    <3> QED BY <1>5, <3>2, <3>3
  <2> QED BY <1>7, <2>1, <2>2, <2>3 DEF Connections, Resets
<1>8. ASSUME NEW l \in Lsids, NEW fx, WLawful(World(l), told[l], fx), Call(l, fx)
      PROVE  \A k \in Lsids, p \in Peers : LawfulStep(k, p)
  BY <1>4, <1>8 DEF Call
<1>9. CASE Application
  <2>1. ASSUME NEW l \in Lsids, l \notin used, NEW fx,
               \A p \in Peers : /\ fx[p].info.state \in {"Absent", "CC", "JT", "DC_JT"}
                                /\ fx[p].ev \in {<<>>, <<Event("ConnectRequest", Nil)>>}
        PROVE  WLawful(World(l), told[l], fx)
    <3>1. \A p \in Peers : entry[l][p].state = "Absent"
      BY <2>1 DEF IInv, TypeOK, WorldOK
    <3>2. ASSUME NEW p \in Peers PROVE Lawful(entry[l][p], told[l][p], fx[p])
      <4>1. Observe(told[l][p], fx[p].ev) = told[l][p]
        BY <2>1, EventLemma
      <4>2. Viewed(entry[l][p], told[l][p])
        BY <1>1 DEF WViewed
      <4>3. fx[p].info.state \notin Waiting \cup {"MEM"}
        BY <2>1 DEF Waiting
      <4> QED BY <3>1, <4>1, <4>2, <4>3, LawfulForms
    <3> QED BY <1>1, <3>2 DEF WLawful
  <2>2. CASE \E l \in Lsids : OpenWorld(l)
    <3>1. PICK l \in Lsids : OpenWorld(l)
      BY <2>2
    <3> DEFINE fx == OpenEntries(PeersOf(l))
    <3>2. \A p \in Peers : fx[p].info.state \in {"Absent", "CC"} /\ fx[p].ev = <<>>
      BY DEF OpenEntries, Keep, Effect, Absent, Cleared, NewANDPeerSessionState
    <3>3. l \notin used /\ Apply(OnWorld(l, fx))
      BY <3>1 DEF OpenWorld
    <3> HIDE DEF fx
    <3> QED BY <1>4, <2>1, <3>2, <3>3
  <2>3. CASE \E l \in Lsids, p \in Peers : JoinWorld(l, p)
    <3>1. PICK l \in Lsids, p \in Peers : JoinWorld(l, p)
      BY <2>3
    <3> DEFINE fx == JoinEntries(p, PeersOf(l))
    <3>2. \A q \in Peers : /\ fx[q].info.state \in {"Absent", "CC", "JT", "DC_JT"}
                           /\ fx[q].ev \in {<<>>, <<Event("ConnectRequest", Nil)>>}
      BY DEF JoinEntries, Keep, Effect, Absent, Cleared, NewANDPeerSessionState
    <3>3. l \notin used /\ Apply(OnWorld(l, fx))
      BY <3>1 DEF JoinWorld
    <3> HIDE DEF fx
    <3> QED BY <1>4, <2>1, <3>2, <3>3
  <2>4. CASE \E l \in Lsids : CloseWorld(l)
    <3>1. PICK l \in Lsids : CloseWorld(l)
      BY <2>4
    <3>2. CASE Peers = {}
      BY <3>2
    <3>3. CASE Peers # {}
      <4>1. WLawful(World(l), told[l], Close(World(l)))
        BY <1>1, <3>3, OtherHandlersLawful
      <4> QED BY <1>4, <3>1, <4>1 DEF CloseWorld
    <3> QED BY <3>2, <3>3
  <2>5. CASE \E l \in Lsids, p \in Peers, s \in Sessions :
               Exposed(l) /\ (AcceptSessionCall(l, p, s) \/ DeclineSessionCall(l, p, s))
    <3>1. PICK l \in Lsids, p \in Peers, s \in Sessions :
             AcceptSessionCall(l, p, s) \/ DeclineSessionCall(l, p, s)
      BY <2>5
    <3>2. /\ WLawful(World(l), told[l], AcceptSession(World(l), p, s))
          /\ WLawful(World(l), told[l], DeclineSession(World(l), p, s))
      BY <1>1, OtherHandlersLawful
    <3> QED BY <1>8, <3>1, <3>2 DEF AcceptSessionCall, DeclineSessionCall
  <2> QED BY <1>9, <2>2, <2>3, <2>4, <2>5 DEF Application
<1>10. CASE Timers
  <2>1. PICK l \in Lsids, old \in SUBSET Peers : TimerExpireCall(l, old)
    BY <1>10 DEF Timers
  <2>2. CASE Peers = {}
    BY <2>2
  <2>3. CASE Peers # {}
    <3>1. WLawful(World(l), told[l], TimerExpire(World(l), old))
      BY <1>1, <2>3, OtherHandlersLawful
    <3> QED BY <1>8, <2>1, <3>1 DEF TimerExpireCall
  <2> QED BY <2>2, <2>3
<1>11. CASE Messages
  <2>1. PICK l \in Lsids, p \in Peers :
           \/ ReceiveJDN(l, p)
           \/ ReceiveRST(l, p)
           \/ \E s \in Sessions :
                 \/ ReceiveJN(l, p, s)
                 \/ ReceiveMEM(l, p, s)
                 \/ ReceiveSOA(l, p, s)
                 \/ ReceiveSOD(l, p, s)
                 \/ \E q \in Peers, t \in Sessions : ReceiveJNI(l, p, s, q, t)
                 \/ \E mems \in ListsOf(p) :
                       \/ ReceiveJOK(l, p, s, mems)
                       \/ ReceiveSJN(l, p, s, mems)
                       \/ ReceiveCRR(l, p, s, mems)
    BY <1>6, <1>11, LsidAssumption DEF Messages, PeersOf
  <2> DEFINE w == World(l)
             v == told[l]
  <2>2. /\ WViewed(w, v)
        /\ w.peers[p] \in Info /\ NoSession(w.peers[p]) /\ Viewed(w.peers[p], v[p])
    BY <1>1 DEF WViewed
  <2>3. ASSUME NEW fx, WLawful(w, v, fx), Call(l, fx)
        PROVE  \A k \in Lsids, q \in Peers : LawfulStep(k, q)
    BY <1>8, <2>3
  <2> HIDE DEF w, v
  <2>4. CASE ReceiveJDN(l, p) \/ ReceiveRST(l, p)
    <3>1. WLawful(w, v, JDN(w, p)) /\ WLawful(w, v, RST(w, p))
      BY <2>2, OtherHandlersLawful
    <3> QED BY <2>3, <2>4, <3>1 DEF ReceiveJDN, ReceiveRST, w
  <2>5. ASSUME NEW s \in Sessions, ReceiveJN(l, p, s) \/ ReceiveMEM(l, p, s)
        PROVE  \A k \in Lsids, q \in Peers : LawfulStep(k, q)
    <3>1. WLawful(w, v, JN(w, p, s)) /\ WLawful(w, v, MEM(w, p, s))
      BY <2>2, NewSessionLawful
    <3> QED BY <2>3, <2>5, <3>1 DEF ReceiveJN, ReceiveMEM, w
  <2>6. ASSUME NEW s \in Sessions, ReceiveSOA(l, p, s) \/ ReceiveSOD(l, p, s)
        PROVE  \A k \in Lsids, q \in Peers : LawfulStep(k, q)
    <3>1. WLawful(w, v, SOA(w, p, s)) /\ WLawful(w, v, SOD(w, p, s))
      BY <2>2, OtherHandlersLawful DEF SOA, SOD
    <3> QED BY <2>3, <2>6, <3>1 DEF ReceiveSOA, ReceiveSOD, w
  <2>7. ASSUME NEW s \in Sessions, NEW q \in Peers, NEW t \in Sessions, ReceiveJNI(l, p, s, q, t)
        PROVE  \A k \in Lsids, r \in Peers : LawfulStep(k, r)
    <3>1. WLawful(w, v, JNI(w, p, s, q, t))
      BY <2>2, ListHandlersLawful
    <3> QED BY <2>3, <2>7, <3>1 DEF ReceiveJNI, w
  <2>8. ASSUME NEW s \in Sessions, NEW mems \in ListsOf(p),
               ReceiveJOK(l, p, s, mems) \/ ReceiveSJN(l, p, s, mems) \/ ReceiveCRR(l, p, s, mems)
        PROVE  \A k \in Lsids, q \in Peers : LawfulStep(k, q)
    <3>1. /\ WLawful(w, v, JOK(w, p, s, mems)) /\ WLawful(w, v, SJN(w, p, s, mems))
          /\ WLawful(w, v, CRR(w, p, s, mems))
      BY <2>2, ListHandlersLawful
    <3> QED BY <2>3, <2>8, <3>1 DEF ReceiveJOK, ReceiveSJN, ReceiveCRR, w
  <2> QED BY <2>1, <2>4, <2>5, <2>6, <2>7, <2>8
<1>12. CASE UNCHANGED vars
  <2>1. entry' = entry /\ told' = told
    BY <1>12 DEF vars, code, history
  <2> QED BY <2>1 DEF LawfulStep, Waiting
<1> QED BY <1>7, <1>9, <1>10, <1>11, <1>12 DEF Next

\* A lawful step between states of the invariant is a step of module Membership.
LEMMA MembershipStep ==
    ASSUME IInv, IInv', [Next]_vars
    PROVE  Neighbours!Next
PROOF
<1> DEFINE Pending(i) == IF i.state \in Waiting THEN i.sid ELSE Nil
           Member(i)  == IF i.state = "MEM" THEN i.sid ELSE Nil
           NStep(l, p) == \/ Neighbours!Ready(l, p) \/ Neighbours!Leave(l, p)
                          \/ Neighbours!Withdraw(l, p) \/ Neighbours!Stay(l, p)
                          \/ \E s \in Sessions : Neighbours!Request(l, p, s)
<1> SUFFICES ASSUME NEW l \in Lsids, NEW p \in Peers PROVE NStep(l, p)
  BY DEF Neighbours!Next
<1> DEFINE i == entry[l][p]
           j == entry'[l][p]
           t == told[l][p]
           u == told'[l][p]
<1>1. /\ i \in Info /\ t \in Told /\ EntryOK(i, t, said[l][p], heard[l][p])
      /\ j \in Info /\ u \in Told /\ EntryOK(j, u, said'[l][p], heard'[l][p])
  BY DEF IInv, TypeOK
<1>2. /\ j.state = "MEM" => i.state \in Waiting \cup {"MEM"} /\ j.sid = i.sid
      /\ i.state = "MEM" /\ j.state \in Waiting => j.sid # i.sid
      /\ j.state \notin Waiting \cup {"MEM"} => u = IF i.state = "MEM" THEN ToldIdle ELSE t
  BY LawfulLemma DEF LawfulStep
<1>3. i.sid # Nil /\ j.sid \notin {Nil, i.sid} => TimeOf[i.sid] < TimeOf[j.sid]
  BY SessionLemma DEF Advances
<1>4. /\ i.state \in Waiting => i.sid \in Sessions /\ t = As("requested", i.sid)
      /\ i.state = "MEM" => i.sid \in Sessions /\ t = As("ready", i.sid)
      /\ j.state \in Waiting => j.sid \in Sessions /\ u = As("requested", j.sid)
      /\ j.state = "MEM" => j.sid \in Sessions /\ u = As("ready", j.sid)
  BY <1>1 DEF EntryOK, Waiting, Info, Told, As
<1>5. "MEM" \notin Waiting
  BY DEF Waiting
<1>6. \A st, s : Neighbours!Says(st, s) = As(st, s)
  BY DEF Neighbours!Says, As
<1>7. Neighbours!Idle = ToldIdle
  BY DEF Neighbours!Idle, Neighbours!Says, ToldIdle
<1> HIDE DEF i, j, t, u
<1>8. CASE j.state = "MEM"
  <2>1. CASE i.state = "MEM"
    <3>1. u = t /\ Pending(j) = Pending(i) /\ Member(j) = Member(i)
      BY <1>2, <1>4, <1>5, <1>8, <2>1
    <3> QED BY <3>1 DEF Neighbours!Stay, Neighbours!Becomes, i, j, t, u
  <2>2. CASE i.state \in Waiting
    <3>1. Pending(i) # Nil /\ u = As("ready", Pending(i)) /\ Pending(j) = Nil /\ Member(j) = Pending(i)
      BY <1>2, <1>4, <1>5, <1>8, <2>2, NilAssumption
    <3> QED BY <1>6, <3>1 DEF Neighbours!Ready, Neighbours!Becomes, i, j, t, u
  <2> QED BY <1>2, <1>8, <2>1, <2>2
<1>9. CASE j.state \in Waiting
  <2>1. Pending(j) = j.sid /\ Member(j) = Nil
    BY <1>5, <1>9
  <2>2. CASE i.state \in Waiting /\ j.sid = i.sid
    <3>1. u = t /\ Pending(j) = Pending(i) /\ Member(j) = Member(i)
      BY <1>4, <1>5, <1>9, <2>1, <2>2
    <3> QED BY <3>1 DEF Neighbours!Stay, Neighbours!Becomes, i, j, t, u
  <2>3. CASE ~(i.state \in Waiting /\ j.sid = i.sid)
    <3>1. j.sid \in Sessions /\ j.sid # Nil /\ u = As("requested", j.sid)
      BY <1>4, <1>9, NilAssumption
    <3>2. Neighbours!Becomes(l, p, Neighbours!Says("requested", j.sid), j.sid, Nil)
      BY <1>6, <2>1, <3>1 DEF Neighbours!Becomes, i, j, t, u
    <3>3. ASSUME NEW s \in {Pending(i), Member(i)}, s # Nil PROVE TimeOf[s] < TimeOf[j.sid]
      <4>1. s = i.sid /\ j.sid # i.sid
        BY <1>2, <1>9, <2>3, <3>3
      <4> QED BY <1>3, <3>1, <3>3, <4>1
    <3>4. Neighbours!GivesWay(Pending(i), j.sid) /\ Neighbours!GivesWay(Member(i), j.sid)
      BY <3>3 DEF Neighbours!GivesWay
    <3>5. Neighbours!Request(l, p, j.sid)
      BY <3>2, <3>4 DEF Neighbours!Request, i
    <3> QED BY <3>1, <3>5
  <2> QED BY <2>2, <2>3
<1>10. CASE j.state \notin Waiting \cup {"MEM"}
  <2>1. Pending(j) = Nil /\ Member(j) = Nil
    BY <1>10
  <2>2. CASE i.state = "MEM"
    <3>1. Member(i) # Nil /\ u = ToldIdle
      BY <1>2, <1>4, <1>10, <2>2, NilAssumption
    <3> QED BY <1>7, <2>1, <3>1 DEF Neighbours!Leave, Neighbours!Becomes, i, j, t, u
  <2>3. CASE i.state \in Waiting
    <3>1. Pending(i) # Nil /\ u = t
      BY <1>2, <1>4, <1>5, <1>10, <2>3, NilAssumption
    <3> QED BY <2>1, <3>1 DEF Neighbours!Withdraw, Neighbours!Becomes, i, j, t, u
  <2>4. CASE i.state \notin Waiting \cup {"MEM"}
    <3>1. u = t /\ Pending(i) = Nil /\ Member(i) = Nil
      BY <1>2, <1>10, <2>4
    <3> QED BY <2>1, <3>1 DEF Neighbours!Stay, Neighbours!Becomes, i, j, t, u
  <2> QED BY <2>2, <2>3, <2>4
<1> QED BY <1>8, <1>9, <1>10

\* Refinement: whatever the peers send and whenever they connect, the requests,
\* memberships and events of AND are those of module Membership.
THEOREM MembershipKept == Spec => KeepsMembership
PROOF
<1>1. Init => Neighbours!Init
  <2> SUFFICES ASSUME Init PROVE Neighbours!Init
    OBVIOUS
  <2>1. told = [l \in Lsids |-> [p \in Peers |-> Neighbours!Idle]]
    BY DEF Init, ToldIdle, Neighbours!Idle, Neighbours!Says
  <2>2. \A l \in Lsids, p \in Peers : entry[l][p].state = "Absent"
    BY DEF Init, Absent, NewANDPeerSessionState
  <2> QED BY <2>1, <2>2 DEF Neighbours!Init, Waiting
<1>2. IInv /\ IInv' /\ [Next]_vars => [Neighbours!Next]_(Neighbours!mvars)
  BY MembershipStep
<1> QED BY <1>1, <1>2, Invariance, PTL DEF Spec, KeepsMembership, Neighbours!Spec
=============================================================================
