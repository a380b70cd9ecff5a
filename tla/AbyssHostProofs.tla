--------------------------- MODULE AbyssHostProofs ---------------------------
(***************************************************************************)
(* Proofs about AbyssHost, for any peers, worlds, paths and capacity: the  *)
(* host keeps to what AND assumes of it, its event loop survives, activity *)
(* counts memberships, and every world has one timer at most.              *)
(*                                                                         *)
(* The channel between AND and the event loop makes these hard: the host   *)
(* lags behind.  The invariant Leads says that the events on their way,    *)
(* handled one by one, lead from what the event loop knows (Seen) to what  *)
(* AND has decided (Due), and that each of them can be handled when its    *)
(* turn comes.  What is in Due is known from the invariant of AND.         *)
(***************************************************************************)
EXTENDS AbyssHost, ANDProofs, FiniteSetTheorems

-----------------------------------------------------------------------------
(* What the events on their way do *)

PeerEvents == {"Request", "Ready", "Close", "ObjectAppend", "ObjectDelete"}

NetEvents == {"ConnectRequest", "PeerRegister"}

Answers == {"JoinSuccess", "JoinFail"}

\* Table f with c for peer p in world l.
Put(f, l, p, c) == [f EXCEPT ![l][p] = c]

\* The worlds of the host, the view of the application and the answered joins
\* after event e.
After(x, e) ==
    [w |-> IF e.type = "JoinSuccess" THEN [x.w EXCEPT ![e.lsid] = "live"]
           ELSE IF e.type = "JoinFail" THEN [x.w EXCEPT ![e.lsid] = "nil"]
           ELSE IF e.type = "WorldLeave" THEN [x.w EXCEPT ![e.lsid] = "absent"]
           ELSE x.w,
     v |-> IF e.type \in PeerEvents
           THEN Put(x.v, e.lsid, e.peer, Observe1(x.v[e.lsid][e.peer], e)) ELSE x.v,
     a |-> IF e.type \in Answers THEN x.a \cup {e.lsid} ELSE x.a]

\* The event loop survives event e, and the event makes sense to the application.
Handled(x, e) ==
    /\ e.type \in PeerEvents => /\ x.w[e.lsid] = "live"
                                /\ Observe1(x.v[e.lsid][e.peer], e).st # "bad"
    /\ e.type \in Answers => e.lsid \notin x.a

\* The events of s can be handled one after the other, and lead from x to y.
Leads(s, x, y) ==
    \E X : /\ X[0] = x /\ X[Len(s)] = y
           /\ \A k \in 1..Len(s) : Handled(X[k - 1], s[k]) /\ X[k] = After(X[k - 1], s[k])

\* What the event loop has seen, and what AND has decided.
Seen == [w |-> hworlds, v |-> view, a |-> used \ join_queue]

Standing(in, r) == IF ~in THEN "absent" ELSE IF r = "success" THEN "live" ELSE IF r = "fail" THEN "nil" ELSE "absent"

Due == [w |-> [l \in Lsids |-> Standing(l \in worlds, result[l])],
        v |-> told,
        a |-> {l \in used : result[l] # "none"}]

-----------------------------------------------------------------------------
(* The inductive invariant *)

Types == PeerEvents \cup NetEvents \cup Answers \cup {"WorldLeave", "TimerRequest"}

HostEvents == [type : Types, lsid : Lsids, peer : Peers \cup {Nil}, sid : Sessions \cup {Nil}]

HostTypeOK ==
    /\ eventCh \in Seq(HostEvents)
    /\ hworlds \in [Lsids -> {"absent", "nil", "live"}]
    /\ join_queue \subseteq used
    /\ join_res \in [Lsids -> {"none", "ok", "fail"}]
    /\ api \in [Lsids -> {"none", "opening", "joining", "held", "failed", "left"}]
    /\ serving \subseteq peers[Local]
    /\ pathMap \in [Paths -> Lsids \cup {Nil}]
    /\ timers \in [Lsids -> {0, 1}]
    /\ active \in [Peers -> Nat]
    /\ view \in [Lsids -> [Peers -> Told]]
    /\ offers \subseteq [lsid : Lsids, peer : Peers, sid : Sessions]

\* What the application holds, it holds of worlds that have joined.
Joined ==
    /\ \A l \in Lsids :
          /\ api[l] \in {"opening", "held", "left"} => result[l] = "success"
          /\ join_res[l] = "ok" => result[l] = "success"
          /\ join_res[l] = "fail" => result[l] = "fail"
          /\ join_res[l] # "none" => l \in used \ join_queue
          /\ l \notin used => join_hash[l] = Nil
    /\ \A path \in Paths : pathMap[path] # Nil => result[pathMap[path]] = "success"
    /\ \A o \in offers : result[o.lsid] = "success"

\* An event about a peer is of a world that has joined, and so on.
EventOK(e) ==
    /\ e.type \in Answers \cup {"TimerRequest"} => e.lsid \in used
    /\ e.type \in PeerEvents => e.peer \in Peers /\ result[e.lsid] = "success"
    /\ e.type = "Request" => e.sid \in Sessions
    /\ e.type = "JoinSuccess" => result[e.lsid] = "success"
    /\ e.type = "JoinFail" => result[e.lsid] = "fail"
    /\ e.type = "TimerRequest" => join_hash[e.lsid] = Nil

\* The timer of a world runs, or is requested once, or neither.
TimerChain(l) ==
    /\ \A j, k \in Requests(l) : j = k
    /\ timers[l] = 1 => Requests(l) = {} /\ l \in used /\ join_hash[l] = Nil
    /\ l \in worlds /\ join_hash[l] = Nil => timers[l] = 1 \/ Requests(l) # {}

ReadyIn(p) == {l \in Lsids : view[l][p].st = "ready"}

HInv ==
    /\ IInv
    /\ HostTypeOK
    /\ EventLoopSurvives
    /\ Joined
    /\ \A k \in DOMAIN eventCh : EventOK(eventCh[k])
    /\ \A l \in Lsids : TimerChain(l)
    /\ Leads(eventCh, Seen, Due)
    /\ \A p \in Peers : active[p] = Cardinality(ReadyIn(p))

-----------------------------------------------------------------------------
(* Sequences of events *)

\* All worlds are worlds of this host.
LEMMA OneHost == \A l \in Lsids : HostOf[l] = Local /\ PeersOf(l) = peers[Local]
  BY LsidAssumption, LocalAssumption DEF PeersOf

\* Elements of a concatenation.
LEMMA ConcatFacts ==
    ASSUME NEW S, NEW s \in Seq(S), NEW t \in Seq(S)
    PROVE  /\ s \o t \in Seq(S) /\ Len(s \o t) = Len(s) + Len(t)
           /\ Len(s) \in Nat /\ Len(t) \in Nat
           /\ \A k \in 1..Len(s) : (s \o t)[k] = s[k]
           /\ \A k \in 1..Len(t) : (s \o t)[Len(s) + k] = t[k]
           /\ \A k \in 1..Len(s) + Len(t) : k \in 1..Len(s) \/ k - Len(s) \in 1..Len(t)
           /\ DOMAIN s = 1..Len(s) /\ DOMAIN t = 1..Len(t) /\ DOMAIN (s \o t) = 1..Len(s) + Len(t)
  OBVIOUS

\* No event leads nowhere; one event leads to the state after it.
LEMMA LeadsShort ==
    /\ \A x : Leads(<<>>, x, x)
    /\ \A x, e : Handled(x, e) => Leads(<<e>>, x, After(x, e))
PROOF
<1>1. ASSUME NEW x PROVE Leads(<<>>, x, x)
  <2> DEFINE X == [k \in {0} |-> x]
             s == <<>>
  <2>1. Len(s) = 0
    OBVIOUS
  <2>2. X[0] = x
    OBVIOUS
  <2> HIDE DEF X, s
  <2>3. Leads(s, x, x)
    BY <2>1, <2>2 DEF Leads
  <2> QED BY <2>3 DEF s
<1>2. ASSUME NEW x, NEW e, Handled(x, e) PROVE Leads(<<e>>, x, After(x, e))
  <2> DEFINE X == [k \in {0, 1} |-> IF k = 0 THEN x ELSE After(x, e)]
             s == <<e>>
  <2>1. Len(s) = 1 /\ s[1] = e
    OBVIOUS
  <2>2. X[0] = x /\ X[1] = After(x, e)
    OBVIOUS
  <2> HIDE DEF X, s
  <2>3. \A k \in 1..Len(s) : Handled(X[k - 1], s[k]) /\ X[k] = After(X[k - 1], s[k])
    <3> SUFFICES ASSUME NEW k \in 1..Len(s)
                 PROVE  Handled(X[k - 1], s[k]) /\ X[k] = After(X[k - 1], s[k])
      OBVIOUS
    <3>1. k = 1 /\ k - 1 = 0
      BY <2>1
    <3> QED BY <1>2, <2>1, <2>2, <3>1
  <2>4. Leads(s, x, After(x, e))
    BY <2>1, <2>2, <2>3 DEF Leads
  <2> QED BY <2>4 DEF s
<1> QED BY <1>1, <1>2

\* What one sequence leads to, the next continues.
LEMMA LeadsConcat ==
    ASSUME NEW S, NEW s \in Seq(S), NEW t \in Seq(S), NEW x, NEW y, NEW z,
           Leads(s, x, y), Leads(t, y, z)
    PROVE  Leads(s \o t, x, z)
PROOF
<1>1. PICK X : /\ X[0] = x /\ X[Len(s)] = y
               /\ \A k \in 1..Len(s) : Handled(X[k - 1], s[k]) /\ X[k] = After(X[k - 1], s[k])
  BY DEF Leads
<1>2. PICK Y : /\ Y[0] = y /\ Y[Len(t)] = z
               /\ \A k \in 1..Len(t) : Handled(Y[k - 1], t[k]) /\ Y[k] = After(Y[k - 1], t[k])
  BY DEF Leads
<1> DEFINE m == Len(s)
           n == Len(t)
           Z == [k \in 0..m + n |-> IF k <= m THEN X[k] ELSE Y[k - m]]
           u == s \o t
<1>3. m \in Nat /\ n \in Nat /\ Len(u) = m + n
  BY ConcatFacts
<1>4. /\ \A k \in 1..m : u[k] = s[k]
      /\ \A k \in 1..n : u[m + k] = t[k]
  BY ConcatFacts
<1>5. /\ \A k \in 0..m : Z[k] = X[k]
      /\ \A k \in 1..n : Z[m + k] = Y[k]
  BY <1>3
<1>6. \A k \in 0..n : Z[m + k] = Y[k]
  <2> SUFFICES ASSUME NEW k \in 0..n PROVE Z[m + k] = Y[k]
    OBVIOUS
  <2>1. CASE k = 0
    <3>1. m + k = m /\ m \in 0..m
      BY <1>3, <2>1
    <3>2. Z[m] = X[m]
      BY <1>5, <3>1
    <3> HIDE DEF Z
    <3> QED BY <1>1, <1>2, <2>1, <3>1, <3>2
  <2>2. CASE k # 0
    BY <1>3, <1>5, <2>2
  <2> QED BY <2>1, <2>2
<1> HIDE DEF Z, u
<1>7. ASSUME NEW k \in 1..m + n
      PROVE  Handled(Z[k - 1], u[k]) /\ Z[k] = After(Z[k - 1], u[k])
  <2>1. CASE k <= m
    <3>1. k \in 1..m /\ k - 1 \in 0..m /\ k \in 0..m
      BY <1>3, <2>1
    <3>2. Z[k] = X[k] /\ Z[k - 1] = X[k - 1] /\ u[k] = s[k]
      BY <1>4, <1>5, <3>1
    <3> QED BY <1>1, <3>1, <3>2
  <2>2. CASE ~(k <= m)
    <3> DEFINE j == k - m
    <3>1. j \in 1..n /\ j - 1 \in 0..n /\ j \in 0..n /\ k = m + j /\ k - 1 = m + (j - 1)
      BY <1>3, <2>2
    <3> HIDE DEF j
    <3>2. Z[m + j] = Y[j] /\ Z[m + (j - 1)] = Y[j - 1] /\ u[m + j] = t[j]
      BY <1>4, <1>6, <3>1
    <3>3. Z[k] = Y[j] /\ Z[k - 1] = Y[j - 1] /\ u[k] = t[j]
      BY <3>1, <3>2
    <3> QED BY <1>2, <3>1, <3>3
  <2> QED BY <2>1, <2>2
<1>8. Z[0] = x
  <2>1. 0 \in 0..m
    BY <1>3
  <2> QED BY <1>1, <1>5, <2>1
<1>9. Z[m + n] = z
  <2>1. n \in 0..n
    BY <1>3
  <2> QED BY <1>2, <1>6, <2>1
<1>10. Leads(u, x, z)
  BY <1>3, <1>7, <1>8, <1>9 DEF Leads
<1> QED BY <1>10 DEF u

\* The first event can be handled, and the others lead on from there.
LEMMA LeadsTail ==
    ASSUME NEW S, NEW s \in Seq(S), s # <<>>, NEW x, NEW y, Leads(s, x, y)
    PROVE  Handled(x, Head(s)) /\ Leads(Tail(s), After(x, Head(s)), y)
PROOF
<1>1. PICK X : /\ X[0] = x /\ X[Len(s)] = y
               /\ \A k \in 1..Len(s) : Handled(X[k - 1], s[k]) /\ X[k] = After(X[k - 1], s[k])
  BY DEF Leads
<1> DEFINE n == Len(s)
           t == Tail(s)
           Y == [k \in 0..n - 1 |-> X[k + 1]]
<1>2. /\ n \in Nat /\ n > 0 /\ Len(t) = n - 1 /\ Head(s) = s[1]
      /\ \A k \in 1..n - 1 : t[k] = s[k + 1]
  OBVIOUS
<1>3. 1 \in 1..n /\ 1 - 1 = 0
  BY <1>2
<1>4. Handled(x, s[1]) /\ X[1] = After(x, s[1])
  <2>1. Handled(X[1 - 1], s[1]) /\ X[1] = After(X[1 - 1], s[1])
    BY <1>1, <1>3
  <2> QED BY <1>1, <1>3, <2>1
<1>5. \A k \in 0..n - 1 : Y[k] = X[k + 1]
  OBVIOUS
<1> HIDE DEF Y, t
<1>6. Y[0] = After(x, s[1])
  <2>1. 0 \in 0..n - 1 /\ 0 + 1 = 1
    BY <1>2
  <2>2. Y[0] = X[0 + 1]
    BY <1>5, <2>1
  <2> QED BY <1>4, <2>1, <2>2
<1>7. Y[n - 1] = y
  <2>1. n - 1 \in 0..n - 1 /\ (n - 1) + 1 = n
    BY <1>2
  <2>2. Y[n - 1] = X[(n - 1) + 1]
    BY <1>5, <2>1
  <2> QED BY <1>1, <2>1, <2>2
<1>8. ASSUME NEW k \in 1..n - 1
      PROVE  Handled(Y[k - 1], t[k]) /\ Y[k] = After(Y[k - 1], t[k])
  <2>1. k \in 0..n - 1 /\ k - 1 \in 0..n - 1 /\ (k - 1) + 1 = k /\ k + 1 \in 1..n /\ (k + 1) - 1 = k
    BY <1>2
  <2>2. Y[k] = X[k + 1] /\ Y[k - 1] = X[k] /\ t[k] = s[k + 1]
    <3>1. Y[k - 1] = X[(k - 1) + 1]
      BY <1>5, <2>1
    <3> QED BY <1>2, <1>5, <2>1, <3>1
  <2>3. Handled(X[(k + 1) - 1], s[k + 1]) /\ X[k + 1] = After(X[(k + 1) - 1], s[k + 1])
    BY <1>1, <2>1
  <2> QED BY <2>1, <2>2, <2>3
<1>9. Leads(t, After(x, s[1]), y)
  BY <1>2, <1>6, <1>7, <1>8 DEF Leads
<1> QED BY <1>2, <1>4, <1>9 DEF t

-----------------------------------------------------------------------------
(* The events that a handler raises *)

\* At most two events about a peer; an answer to a join comes first, and only
\* of a target that has been asked to join.
Tidy(i, ev) ==
    /\ ev \in Seq([type : PeerEvents \cup NetEvents \cup Answers, sid : Sessions \cup {Nil}])
    /\ Len(ev) \in 0..2
    /\ \A k \in DOMAIN ev : /\ ev[k].type \in Answers => k = 1 /\ i.state = "JT"
                            /\ ev[k].type = "Request" => ev[k].sid \in Sessions

WTidy(w, fx) == \A q \in Peers : Tidy(w.peers[q], fx[q].ev)

\* A sequence of no, one or two events of the right kinds.
LEMMA TidyShort ==
    /\ \A i : Tidy(i, <<>>)
    /\ \A i, x, s : /\ x \in PeerEvents \cup NetEvents \cup Answers /\ s \in Sessions \cup {Nil}
                    /\ x \in Answers => i.state = "JT"
                    /\ x = "Request" => s \in Sessions
                    => Tidy(i, <<Event(x, s)>>)
    /\ \A i, x, s, z, u :
          /\ x \in PeerEvents \cup NetEvents \cup Answers /\ s \in Sessions \cup {Nil}
          /\ x \in Answers => i.state = "JT"
          /\ x = "Request" => s \in Sessions
          /\ z \in PeerEvents \cup NetEvents /\ u \in Sessions \cup {Nil}
          /\ z = "Request" => u \in Sessions
          => Tidy(i, <<Event(x, s), Event(z, u)>>)
PROOF
<1> DEFINE E == [type : PeerEvents \cup NetEvents \cup Answers, sid : Sessions \cup {Nil}]
<1>1. ASSUME NEW x \in PeerEvents \cup NetEvents \cup Answers, NEW s \in Sessions \cup {Nil}
      PROVE  Event(x, s) \in E /\ Event(x, s).type = x /\ Event(x, s).sid = s
  BY DEF Event
<1>2. ASSUME NEW i PROVE Tidy(i, <<>>)
  BY DEF Tidy
<1>3. ASSUME NEW i, NEW x \in PeerEvents \cup NetEvents \cup Answers, NEW s \in Sessions \cup {Nil},
             x \in Answers => i.state = "JT", x = "Request" => s \in Sessions
      PROVE  Tidy(i, <<Event(x, s)>>)
  <2> DEFINE ev == <<Event(x, s)>>
  <2>1. ev \in Seq(E) /\ Len(ev) = 1 /\ DOMAIN ev = {1} /\ ev[1] = Event(x, s)
    BY <1>1
  <2> HIDE DEF ev
  <2>2. Tidy(i, ev)
    BY <1>1, <1>3, <2>1 DEF Tidy
  <2> QED BY <2>2 DEF ev
<1>4. ASSUME NEW i, NEW x \in PeerEvents \cup NetEvents \cup Answers, NEW s \in Sessions \cup {Nil},
             x \in Answers => i.state = "JT", x = "Request" => s \in Sessions,
             NEW z \in PeerEvents \cup NetEvents, NEW u \in Sessions \cup {Nil},
             z = "Request" => u \in Sessions
      PROVE  Tidy(i, <<Event(x, s), Event(z, u)>>)
  <2> DEFINE ev == <<Event(x, s), Event(z, u)>>
  <2>1. ev \in Seq(E) /\ Len(ev) = 2 /\ DOMAIN ev = {1, 2} /\ ev[1] = Event(x, s) /\ ev[2] = Event(z, u)
    BY <1>1
  <2>2. z \notin Answers
    BY DEF PeerEvents, NetEvents, Answers
  <2> HIDE DEF ev
  <2>3. ASSUME NEW k \in DOMAIN ev
        PROVE  /\ ev[k].type \in Answers => k = 1 /\ i.state = "JT"
               /\ ev[k].type = "Request" => ev[k].sid \in Sessions
    <3>1. CASE k = 1
      BY <1>1, <1>4, <2>1, <3>1
    <3>2. CASE k = 2
      BY <1>1, <1>4, <2>1, <2>2, <3>2
    <3> QED BY <2>1, <3>1, <3>2
  <2>4. Tidy(i, ev)
    BY <2>1, <2>3 DEF Tidy
  <2> QED BY <2>4 DEF ev
<1> QED BY <1>2, <1>3, <1>4

\* The helpers of the handlers.
LEMMA HelpersTidy ==
    ASSUME NEW i \in Info
    PROVE  /\ Tidy(i, Keep(i).ev)
           /\ \A why : Tidy(i, Fault(i, why).ev)
           /\ Tidy(i, ClearStates(i).ev)
           /\ (i.state = "DC_JNI" => i.sid # Nil) => Tidy(i, ConnectPeer(i).ev)
           /\ \A s \in Sessions : /\ Tidy(i, JNI_MEMS(i, s).ev)
                                  /\ \A state : i.state \in Held =>
                                        /\ Tidy(i, Renewed(i, s, state, <<Event("Request", s)>>).ev)
                                        /\ Tidy(i, Renewed(i, s, state, <<>>).ev)
           /\ Tidy(i, CloseEntry(i).ev)
PROOF
<1>0. i.sid \in Sessions \cup {Nil} /\ i.state \in WS
  BY DEF Info
<1>1. /\ \A j, tx, ev : Effect(j, tx, ev).ev = ev
      /\ \A j : Keep(j).ev = <<>>
      /\ \A j, why : Fault(j, why).ev = <<>>
  BY DEF Effect, Keep, Fault
<1>2. Tidy(i, Keep(i).ev) /\ \A why : Tidy(i, Fault(i, why).ev)
  BY <1>1, TidyShort
<1>3. /\ ClearStates(i).ev \in {<<>>, <<Event("JoinFail", Nil)>>, <<Event("Close", i.sid)>>}
      /\ ClearStates(i).ev = <<Event("JoinFail", Nil)>> => i.state = "JT"
      /\ i.state \in Held => ClearStates(i).ev = IF i.state = "MEM" THEN <<Event("Close", i.sid)>> ELSE <<>>
  <2>1. CASE i.state = "JT"
    BY <1>1, <2>1 DEF ClearStates, Disconnected, Held
  <2>2. CASE i.state = "MEM"
    <3>1. ClearStates(i).ev = <<Event("Close", i.sid)>>
      BY <1>1, <2>2 DEF ClearStates, Disconnected
    <3>2. Event("JoinFail", Nil).type = "JoinFail" /\ Event("Close", i.sid).type = "Close"
      BY DEF Event
    <3>3. <<Event("Close", i.sid)>>[1] # <<Event("JoinFail", Nil)>>[1]
      BY <3>2
    <3> QED BY <2>2, <3>1, <3>3
  <2>3. CASE i.state # "JT" /\ i.state # "MEM"
    <3>1. ClearStates(i).ev = <<>>
      <4>1. CASE i.state \in Disconnected
        BY <1>1, <4>1 DEF ClearStates, Disconnected
      <4>2. CASE i.state = "CC" \/ i.state = "JN"
        BY <1>1, <4>2 DEF ClearStates, Disconnected
      <4>4. CASE i.state \in {"RMEM_NJNI", "JNI", "RMEM", "TMEM"}
        <5>1. ClearStates(i) = Effect(Cleared, <<Msg("RST", i.sid)>>, <<>>)
          BY <4>4 DEF ClearStates, Disconnected
        <5> QED BY <1>1, <5>1
      <4>3. CASE i.state = "Absent"
        BY <1>1, <4>3 DEF ClearStates, Disconnected
      <4> QED BY <1>0, <2>3, <4>1, <4>2, <4>3, <4>4 DEF WS, Connected
    <3>2. <<>> # <<Event("JoinFail", Nil)>>
      OBVIOUS
    <3> QED BY <2>3, <3>1, <3>2
  <2> QED BY <2>1, <2>2, <2>3
<1>4. Tidy(i, ClearStates(i).ev)
  <2>1. Tidy(i, <<Event("Close", i.sid)>>)
    BY <1>0, TidyShort DEF PeerEvents, Answers
  <2>2. i.state = "JT" => Tidy(i, <<Event("JoinFail", Nil)>>)
    BY TidyShort DEF Answers
  <2> QED BY <1>3, <2>1, <2>2, TidyShort
<1>5. ASSUME i.state = "DC_JNI" => i.sid # Nil PROVE Tidy(i, ConnectPeer(i).ev)
  <2>1. i.state = "DC_JNI" => Tidy(i, <<Event("Request", i.sid)>>)
    BY <1>0, <1>5, TidyShort DEF PeerEvents, Answers
  <2> QED BY <1>1, <2>1, TidyShort DEF ConnectPeer
<1>6. ASSUME NEW s \in Sessions, NEW state, i.state \in Held
      PROVE  /\ Tidy(i, Renewed(i, s, state, <<Event("Request", s)>>).ev)
             /\ Tidy(i, Renewed(i, s, state, <<>>).ev)
  <2>1. \A ev : Renewed(i, s, state, ev).ev = ClearStates(i).ev \o ev
    BY DEF Renewed, Effect
  <2>2. Tidy(i, <<Event("Request", s)>>)
    BY TidyShort DEF PeerEvents, Answers
  <2>3. Tidy(i, <<Event("Close", i.sid), Event("Request", s)>>)
    BY <1>0, TidyShort DEF PeerEvents, Answers
  <2>4. CASE i.state = "MEM"
    <3>1. ClearStates(i).ev = <<Event("Close", i.sid)>>
      BY <1>3, <1>6, <2>4
    <3>2. /\ <<Event("Close", i.sid)>> \o <<Event("Request", s)>> = <<Event("Close", i.sid), Event("Request", s)>>
          /\ <<Event("Close", i.sid)>> \o <<>> = <<Event("Close", i.sid)>>
      BY ConcatLemma
    <3> QED BY <1>4, <2>1, <2>3, <3>1, <3>2
  <2>5. CASE i.state # "MEM"
    <3>1. ClearStates(i).ev = <<>>
      BY <1>3, <1>6, <2>5
    <3>2. /\ <<>> \o <<Event("Request", s)>> = <<Event("Request", s)>>
          /\ <<>> \o <<>> = <<>>
      BY ConcatLemma
    <3> QED BY <2>1, <2>2, <3>1, <3>2, TidyShort
  <2> QED BY <2>4, <2>5
<1>7. ASSUME NEW s \in Sessions PROVE Tidy(i, JNI_MEMS(i, s).ev)
  <2>1. /\ Tidy(i, <<Event("Request", s)>>) /\ Tidy(i, <<>>)
        /\ Tidy(i, <<Event("PeerRegister", Nil), Event("ConnectRequest", Nil)>>)
    BY TidyShort DEF PeerEvents, Answers, NetEvents
  <2>2. CASE i.state = "Absent" \/ i.state = "DC_JNI" \/ i.state = "CC"
    BY <1>1, <2>1, <2>2 DEF JNI_MEMS
  <2>3. CASE i.state \in Held /\ Newer(i, s)
    <3>1. JNI_MEMS(i, s) = Renewed(i, s, "JNI", <<Event("Request", s)>>)
      BY <2>3 DEF JNI_MEMS, Held
    <3> QED BY <1>6, <2>3, <3>1
  <2>4. CASE i.state \in Held /\ ~Newer(i, s)
    BY <1>1, <2>1, <2>4 DEF JNI_MEMS, Held
  <2>5. CASE i.state = "JT" \/ i.state = "DC_JT"
    BY <1>1, <2>1, <2>5 DEF JNI_MEMS
  <2> QED BY <1>0, <2>2, <2>3, <2>4, <2>5 DEF WS, Connected, Disconnected, Held
<1>8. Tidy(i, CloseEntry(i).ev)
  <2>1. Tidy(i, <<Event("Close", i.sid)>>) /\ Tidy(i, <<>>)
    BY <1>0, TidyShort DEF PeerEvents, Answers
  <2>2. i.state = "JT" => Tidy(i, <<Event("JoinFail", Nil)>>)
    BY TidyShort DEF Answers
  <2> QED BY <1>1, <2>1, <2>2 DEF CloseEntry
<1> QED BY <1>2, <1>4, <1>5, <1>6, <1>7, <1>8

\* An effect on the entry of one peer.
LEMMA AtTidy ==
    ASSUME NEW w, \A q \in Peers : w.peers[q] \in Info, NEW p, NEW e, Tidy(w.peers[p], e.ev)
    PROVE  WTidy(w, At(w, p, e))
PROOF
<1>1. \A q \in Peers : At(w, p, e)[q] = IF q = p THEN e ELSE Keep(w.peers[q])
  BY DEF At
<1> QED BY <1>1, HelpersTidy DEF WTidy

\* The handlers of the calls, and of messages without a list.
LEMMA HandlersTidy ==
    ASSUME NEW w, \A q \in Peers : w.peers[q] \in Info, NEW p \in Peers
    PROVE  /\ WTidy(w, RST(w, p)) /\ WTidy(w, At(w, p, Reset(w.peers[p])))
           /\ WTidy(w, Close(w)) /\ WTidy(w, JDN(w, p))
           /\ (w.peers[p].state = "DC_JNI" => w.peers[p].sid # Nil)
                 => WTidy(w, At(w, p, ConnectPeer(w.peers[p])))
           /\ \A s \in Sessions :
                 /\ WTidy(w, AcceptSession(w, p, s)) /\ WTidy(w, DeclineSession(w, p, s))
                 /\ WTidy(w, JN(w, p, s)) /\ WTidy(w, MEM(w, p, s))
                 /\ WTidy(w, SOA(w, p, s)) /\ WTidy(w, SOD(w, p, s))
           /\ \A old : WTidy(w, TimerExpire(w, old))
PROOF
<1> DEFINE i == w.peers[p]
<1>0. i \in Info /\ i.state \in WS
  BY DEF Info
<1>1. /\ \A j, tx, ev : Effect(j, tx, ev).ev = ev
      /\ \A j : Keep(j).ev = <<>>
      /\ \A j, why : Fault(j, why).ev = <<>>
  BY DEF Effect, Keep, Fault
<1>2. /\ Tidy(i, <<>>) /\ Tidy(i, ClearStates(i).ev) /\ \A why : Tidy(i, Fault(i, why).ev)
      /\ Tidy(i, Keep(i).ev)
      /\ \A s \in Sessions : \A x \in PeerEvents : Tidy(i, <<Event(x, s)>>)
  <2>1. \A x \in PeerEvents : x \notin Answers
    BY DEF PeerEvents, Answers
  <2> QED BY <1>0, <2>1, HelpersTidy, TidyShort
<1>3. WTidy(w, RST(w, p)) /\ WTidy(w, At(w, p, Reset(w.peers[p])))
  BY <1>2, AtTidy DEF RST, Reset
<1>4. WTidy(w, Close(w))
  BY HelpersTidy DEF Close, WTidy
<1>5. WTidy(w, JDN(w, p))
  <2>1. i.state = "JT" => Tidy(i, <<Event("JoinFail", Nil)>>)
    BY TidyShort DEF Answers
  <2> DEFINE e == IF w.join_hash = p /\ i.state = "JT"
                  THEN Effect(Cleared, <<>>, <<Event("JoinFail", Nil)>>) ELSE Keep(i)
  <2>2. Tidy(i, e.ev)
    BY <1>1, <1>2, <2>1
  <2>3. JDN(w, p) = At(w, p, e)
    BY DEF JDN
  <2> HIDE DEF e
  <2> QED BY <2>2, <2>3, AtTidy
<1>6. ASSUME i.state = "DC_JNI" => i.sid # Nil
      PROVE  WTidy(w, At(w, p, ConnectPeer(w.peers[p])))
  BY <1>0, <1>6, HelpersTidy, AtTidy
<1>7. ASSUME NEW s \in Sessions PROVE WTidy(w, AcceptSession(w, p, s))
  <2> DEFINE fx == AcceptSession(w, p, s)
  <2>1. CASE i.state = "JN" /\ i.sid = s
    <3>1. \A q \in Peers : fx[q].ev = <<>>
      BY <2>1 DEF AcceptSession, Effect, Keep
    <3> QED BY <3>1, TidyShort DEF WTidy
  <2>2. CASE ~(i.state = "JN" /\ i.sid = s)
    <3>1. CASE i.state = "DC_JT" \/ i.state = "JT"
      BY <1>2, <3>1, AtTidy DEF AcceptSession
    <3>2. CASE i.state = "JNI" /\ i.sid = s
      <4>1. fx = At(w, p, Effect([i EXCEPT !.state = "TMEM"], <<Msg("MEM", s)>>, <<>>))
        BY <2>2, <3>2 DEF AcceptSession
      <4> QED BY <1>1, <1>2, <4>1, AtTidy
    <3>3. CASE i.state = "RMEM" /\ i.sid = s
      <4>1. fx = At(w, p, Effect([i EXCEPT !.state = "MEM"], <<Msg("MEM", s)>>, <<Event("Ready", s)>>))
        BY <2>2, <3>3 DEF AcceptSession
      <4>2. Tidy(i, <<Event("Ready", s)>>)
        BY <1>2 DEF PeerEvents
      <4> QED BY <1>1, <4>1, <4>2, AtTidy
    <3>4. CASE /\ i.state # "DC_JT" /\ i.state # "JT"
               /\ ~(i.state = "JNI" /\ i.sid = s) /\ ~(i.state = "RMEM" /\ i.sid = s)
      <4>1. fx = At(w, p, Keep(i))
        BY <2>2, <3>4 DEF AcceptSession
      <4> QED BY <1>2, <4>1, AtTidy
    <3> QED BY <3>1, <3>2, <3>3, <3>4
  <2> QED BY <2>1, <2>2
<1>8. ASSUME NEW s \in Sessions PROVE WTidy(w, DeclineSession(w, p, s))
  BY <1>2, AtTidy DEF DeclineSession
<1>9. ASSUME NEW s \in Sessions PROVE WTidy(w, JN(w, p, s))
  <2>1. PICK e : JN(w, p, s) = At(w, p, e) /\
           e = CASE i.state = "CC" ->
                   Effect(NewANDPeerSessionState(s, "JN"), <<>>, <<Event("Request", s)>>)
             [] i.state = "JT" ->
                   Effect(i, <<Msg("JDN", s)>>, <<>>)
             [] i.state \in {"JN", "RMEM_NJNI", "JNI", "RMEM", "TMEM", "MEM"} ->
                   IF Newer(i, s)
                   THEN Renewed(i, s, "JN", <<Event("Request", s)>>)
                   ELSE Effect(i, <<Msg("JDN", s)>>, <<>>)
             [] OTHER ->
                   Fault(i, "panic")
    BY DEF JN
  <2>2. Tidy(i, <<Event("Request", s)>>)
    BY <1>2 DEF PeerEvents
  <2>3. CASE i.state \in Held /\ Newer(i, s)
    BY <1>0, <2>1, <2>3, AtTidy, HelpersTidy DEF Held
  <2>4. CASE i.state \in Held /\ ~Newer(i, s)
    <3>1. e = Effect(i, <<Msg("JDN", s)>>, <<>>)
      BY <2>1, <2>4 DEF Held
    <3> QED BY <1>1, <1>2, <2>1, <3>1, AtTidy
  <2>5. CASE i.state = "CC" \/ i.state = "JT"
    <3>1. e.ev = <<Event("Request", s)>> \/ e.ev = <<>>
      BY <1>1, <2>1, <2>5
    <3> QED BY <1>2, <2>1, <2>2, <3>1, AtTidy
  <2>6. CASE i.state = "DC_JNI" \/ i.state = "DC_JT" \/ i.state = "Absent"
    <3>1. e = Fault(i, "panic")
      BY <2>1, <2>6
    <3> QED BY <1>2, <2>1, <3>1, AtTidy
  <2> QED BY <1>0, <2>3, <2>4, <2>5, <2>6 DEF WS, Connected, Disconnected, Held
<1>10. ASSUME NEW s \in Sessions PROVE WTidy(w, MEM(w, p, s))
  <2>1. PICK e : MEM(w, p, s) = At(w, p, e) /\
           e = CASE i.state = "CC" ->
                   Keep(NewANDPeerSessionState(s, "RMEM_NJNI"))
             [] i.state = "JT" ->
                   ClearStates(i)
             [] i.state \in {"JN", "RMEM_NJNI", "JNI", "RMEM", "TMEM", "MEM"} ->
                   IF Newer(i, s)
                   THEN Renewed(i, s, "RMEM_NJNI", <<>>)
                   ELSE IF i.state = "JNI" /\ i.sid = s
                   THEN Keep([i EXCEPT !.state = "RMEM"])
                   ELSE IF i.state = "TMEM" /\ i.sid = s
                   THEN Effect([i EXCEPT !.state = "MEM"], <<>>, <<Event("Ready", s)>>)
                   ELSE Keep(i)
             [] OTHER ->
                   Fault(i, "panic")
    BY DEF MEM
  <2>2. Tidy(i, <<Event("Ready", s)>>)
    BY <1>2 DEF PeerEvents
  <2>3. CASE i.state \in Held /\ Newer(i, s)
    BY <1>0, <2>1, <2>3, AtTidy, HelpersTidy DEF Held
  <2>4. CASE i.state \in Held /\ ~Newer(i, s)
    <3>1. e.ev = <<Event("Ready", s)>> \/ e.ev = <<>>
      BY <1>1, <2>1, <2>4 DEF Held
    <3> QED BY <1>2, <2>1, <2>2, <3>1, AtTidy
  <2>5. CASE i.state = "CC" \/ i.state = "JT"
    <3>1. e.ev = <<>> \/ e = ClearStates(i)
      BY <1>1, <2>1, <2>5
    <3> QED BY <1>2, <2>1, <3>1, AtTidy
  <2>6. CASE i.state = "DC_JNI" \/ i.state = "DC_JT" \/ i.state = "Absent"
    <3>1. e = Fault(i, "panic")
      BY <2>1, <2>6
    <3> QED BY <1>2, <2>1, <3>1, AtTidy
  <2> QED BY <1>0, <2>3, <2>4, <2>5, <2>6 DEF WS, Connected, Disconnected, Held
<1>11. ASSUME NEW s \in Sessions, NEW type \in {"ObjectAppend", "ObjectDelete"}
       PROVE  WTidy(w, ObjectUpdate(w, p, s, type))
  <2> DEFINE e == IF i.sid # s THEN Effect(i, <<Msg("RST", s)>>, <<>>)
                  ELSE IF i.state = "MEM" THEN Effect(i, <<>>, <<Event(type, s)>>)
                  ELSE Keep(i)
  <2>1. e.ev = <<>> \/ e.ev = <<Event(type, s)>>
    BY <1>1
  <2>2. Tidy(i, <<Event(type, s)>>)
    BY <1>2 DEF PeerEvents
  <2>3. ObjectUpdate(w, p, s, type) = At(w, p, e)
    BY DEF ObjectUpdate
  <2> HIDE DEF e
  <2> QED BY <1>2, <2>1, <2>2, <2>3, AtTidy
<1>12. ASSUME NEW old PROVE WTidy(w, TimerExpire(w, old))
  <2>1. \A q \in Peers : TimerExpire(w, old)[q].ev = <<>>
    BY DEF TimerExpire, Effect
  <2> QED BY <2>1, TidyShort DEF WTidy
<1> QED BY <1>3, <1>4, <1>5, <1>6, <1>7, <1>8, <1>9, <1>10, <1>11, <1>12 DEF SOA, SOD

\* The handlers of messages with a list of members.
LEMMA ListHandlersTidy ==
    ASSUME NEW w, \A q \in Peers : w.peers[q] \in Info, NEW p \in Peers, NEW s \in Sessions
    PROVE  /\ \A q \in Peers, t \in Sessions : WTidy(w, JNI(w, p, s, q, t))
           /\ \A mems \in ListsOf(p) : /\ WTidy(w, JOK(w, p, s, mems))
                                       /\ WTidy(w, SJN(w, p, s, mems))
                                       /\ WTidy(w, CRR(w, p, s, mems))
PROOF
<1>0. /\ \A j, tx, ev : Effect(j, tx, ev).ev = ev
      /\ \A j : Keep(j).ev = <<>>
      /\ \A j, why : Fault(j, why).ev = <<>>
  BY DEF Effect, Keep, Fault
<1>1. WTidy(w, At(w, p, Reset(w.peers[p])))
  BY HandlersTidy
<1>2. ASSUME NEW q \in Peers, NEW t \in Sessions PROVE WTidy(w, JNI(w, p, s, q, t))
  <2>1. Tidy(w.peers[q], JNI_MEMS(w.peers[q], t).ev)
    BY HelpersTidy
  <2>2. JNI(w, p, s, q, t) \in {At(w, q, JNI_MEMS(w.peers[q], t)), At(w, p, Reset(w.peers[p]))}
    BY DEF JNI
  <2> QED BY <1>1, <2>1, <2>2, AtTidy
<1>3. ASSUME NEW mems \in ListsOf(p) PROVE WTidy(w, JOK(w, p, s, mems))
  <2>1. CASE w.join_hash # p \/ w.peers[p].state # "JT"
    <3>1. JOK(w, p, s, mems) = At(w, p, Effect(w.peers[p], <<Msg("RST", s)>>, <<>>))
      BY <2>1 DEF JOK
    <3> QED BY <1>0, <3>1, AtTidy, TidyShort
  <2>2. CASE w.join_hash = p /\ w.peers[p].state = "JT"
    <3>1. \A q \in Peers \ {p} : JOK(w, p, s, mems)[q] =
             IF q \in DOMAIN mems THEN JNI_MEMS(w.peers[q], mems[q]) ELSE Keep(w.peers[q])
      BY <2>2 DEF JOK
    <3>2. JOK(w, p, s, mems)[p].ev = <<Event("JoinSuccess", Nil), Event("Request", s)>>
      BY <1>0, <2>2 DEF JOK
    <3>3. \A q \in DOMAIN mems : mems[q] \in Sessions
      BY DEF ListsOf
    <3>4. ASSUME NEW q \in Peers \ {p} PROVE Tidy(w.peers[q], JOK(w, p, s, mems)[q].ev)
      <4>1. CASE q \in DOMAIN mems
        BY <3>1, <3>3, <4>1, HelpersTidy
      <4>2. CASE q \notin DOMAIN mems
        BY <3>1, <4>2, HelpersTidy
      <4> QED BY <4>1, <4>2
    <3>5. Tidy(w.peers[p], <<Event("JoinSuccess", Nil), Event("Request", s)>>)
      BY <2>2, TidyShort DEF Answers, PeerEvents
    <3> QED BY <3>2, <3>4, <3>5 DEF WTidy
  <2> QED BY <2>1, <2>2
<1>4. ASSUME NEW mems \in ListsOf(p) PROVE WTidy(w, SJN(w, p, s, mems))
  <2>1. CASE IsProperMember(w.peers[p], s)
    <3>1. \A q \in Peers : SJN(w, p, s, mems)[q].ev = <<>>
      BY <2>1 DEF SJN, Effect
    <3> QED BY <3>1, TidyShort DEF WTidy
  <2>2. CASE ~IsProperMember(w.peers[p], s)
    BY <1>1, <2>2 DEF SJN
  <2> QED BY <2>1, <2>2
<1>5. ASSUME NEW mems \in ListsOf(p) PROVE WTidy(w, CRR(w, p, s, mems))
  <2>1. CASE IsProperMember(w.peers[p], s)
    <3>1. \A q \in Peers : CRR(w, p, s, mems)[q].ev = <<>>
      BY <2>1 DEF CRR, Effect, Keep, Fault
    <3> QED BY <3>1, TidyShort DEF WTidy
  <2>2. CASE ~IsProperMember(w.peers[p], s)
    BY <1>1, <2>2 DEF CRR
  <2> QED BY <2>1, <2>2
<1> QED BY <1>2, <1>3, <1>4, <1>5

-----------------------------------------------------------------------------
(* The events of a call, in the order in which they are pushed *)

\* What event makes of a view that is idle, requested or bad.
LEMMA ObserveLemma ==
    /\ \A t, e : t.st = "bad" => Observe1(t, e) = t
    /\ \A t, e : e.type \notin PeerEvents => Observe1(t, e) = t
    /\ \A t, e : t.st = "idle" /\ e.type \in PeerEvents => Observe1(t, e).st \in {"requested", "bad"}
    /\ \A t, e : t.st \in {"requested", "bad"} => Observe1(t, e).st # "idle"
    /\ \A t, e, f : e.type = f.type /\ e.sid = f.sid => Observe1(t, e) = Observe1(t, f)
PROOF
<1>1. ASSUME NEW t, NEW e, t.st = "bad" PROVE Observe1(t, e) = t
  BY <1>1 DEF Observe1
<1>2. ASSUME NEW t, NEW e, e.type \notin PeerEvents PROVE Observe1(t, e) = t
  BY <1>2 DEF Observe1, PeerEvents
<1>3. ASSUME NEW t, NEW e, t.st = "idle", e.type \in PeerEvents
      PROVE  Observe1(t, e).st \in {"requested", "bad"}
  BY <1>3 DEF Observe1, PeerEvents
<1>4. ASSUME NEW t, NEW e, t.st \in {"requested", "bad"} PROVE Observe1(t, e).st # "idle"
  <2>1. CASE e.type \in PeerEvents
    BY <1>4, <2>1 DEF Observe1, PeerEvents, ToldIdle
  <2>2. CASE e.type \notin PeerEvents
    BY <1>2, <1>4, <2>2
  <2> QED BY <2>1, <2>2
<1>5. ASSUME NEW t, NEW e, NEW f, e.type = f.type, e.sid = f.sid PROVE Observe1(t, e) = Observe1(t, f)
  BY <1>5 DEF Observe1
<1> QED BY <1>1, <1>2, <1>3, <1>4, <1>5

\* A view that is idle before and after a call was not touched.
LEMMA IdleLemma ==
    ASSUME NEW t, t.st = "idle", NEW ev, DOMAIN ev = 1..Len(ev), Len(ev) \in 0..2,
           NEW n \in DOMAIN ev, ev[n].type \in PeerEvents, Observe(t, ev).st = "idle"
    PROVE  FALSE
PROOF
<1>1. Len(<<>>) = 0
  OBVIOUS
<1>2. ev # <<>> /\ n \in {1, 2} /\ Len(ev) \in {1, 2} /\ (n = 2 => Len(ev) = 2)
  BY <1>1
<1>3. CASE Len(ev) = 1
  BY <1>2, <1>3, ObserveLemma DEF Observe
<1>4. CASE Len(ev) = 2
  <2>1. Observe(t, ev) = Observe1(Observe1(t, ev[1]), ev[2])
    BY <1>2, <1>4 DEF Observe
  <2>2. CASE ev[1].type \in PeerEvents
    <3>1. Observe1(t, ev[1]).st \in {"requested", "bad"}
      BY <2>2, ObserveLemma
    <3> QED BY <2>1, <3>1, ObserveLemma
  <2>3. CASE ev[1].type \notin PeerEvents
    <3>1. Observe1(t, ev[1]) = t /\ ev[2].type \in PeerEvents
      BY <1>2, <2>3, ObserveLemma
    <3>2. Observe(t, ev).st \in {"requested", "bad"}
      BY <2>1, <3>1, ObserveLemma
    <3> QED BY <3>2
  <2> QED BY <2>2, <2>3
<1> QED BY <1>2, <1>3, <1>4

\* What tidiness says of the events.
LEMMA TidyFacts ==
    ASSUME NEW i, NEW ev, Tidy(i, ev)
    PROVE  /\ DOMAIN ev = 1..Len(ev) /\ Len(ev) \in 0..2
           /\ \A n \in DOMAIN ev :
                 /\ n \in {1, 2}
                 /\ ev[n].type \in PeerEvents \cup NetEvents \cup Answers
                 /\ ev[n].sid \in Sessions \cup {Nil}
                 /\ ev[n].type = "Request" => ev[n].sid \in Sessions
                 /\ ev[n].type \in Answers => n = 1 /\ i.state = "JT"
           /\ Len(ev) = 0 <=> ev = <<>>
PROOF
<1> DEFINE E == [type : PeerEvents \cup NetEvents \cup Answers, sid : Sessions \cup {Nil}]
<1>1. ev \in Seq(E) /\ Len(ev) \in 0..2
  BY DEF Tidy
<1>2. \A e \in E : e.type \in PeerEvents \cup NetEvents \cup Answers /\ e.sid \in Sessions \cup {Nil}
  OBVIOUS
<1> HIDE DEF E
<1>3. DOMAIN ev = 1..Len(ev) /\ (Len(ev) = 0 <=> ev = <<>>)
  BY <1>1
<1>4. \A n \in 1..Len(ev) : n \in {1, 2}
  <2>1. \A m \in 0..2 : \A n \in 1..m : n = 1 \/ n = 2
    OBVIOUS
  <2> QED BY <1>1, <2>1
<1>5. \A n \in DOMAIN ev : ev[n] \in E
  BY <1>1, <1>3
<1>6. \A n \in DOMAIN ev : /\ ev[n].type = "Request" => ev[n].sid \in Sessions
                           /\ ev[n].type \in Answers => n = 1 /\ i.state = "JT"
  BY DEF Tidy
<1>7. \A n \in DOMAIN ev : /\ ev[n].type \in PeerEvents \cup NetEvents \cup Answers
                           /\ ev[n].sid \in Sessions \cup {Nil}
  BY <1>2, <1>5
<1>8. \A n \in DOMAIN ev : n \in {1, 2}
  BY <1>3, <1>4
<1>9. DOMAIN ev = 1..Len(ev) /\ Len(ev) \in 0..2 /\ (Len(ev) = 0 <=> ev = <<>>)
  BY <1>1, <1>3
<1>10. ASSUME NEW n \in DOMAIN ev
       PROVE  /\ n \in {1, 2}
              /\ ev[n].type \in PeerEvents \cup NetEvents \cup Answers
              /\ ev[n].sid \in Sessions \cup {Nil}
              /\ ev[n].type = "Request" => ev[n].sid \in Sessions
              /\ ev[n].type \in Answers => n = 1 /\ i.state = "JT"
  BY <1>6, <1>7, <1>8
<1> QED BY <1>9, <1>10

\* The event that o stands for.
At1(F, o) == F[o.lsid][o.peer].ev[o.n]

\* The effects of a call on all worlds: each is tidy, worlds that AND does not
\* have raise requests to the network at most, the joins are answered as r says
\* and T is what the application will have been told.
Pushable(F, T, r) ==
    /\ \A l \in Lsids, p \in Peers : Tidy(entry[l][p], F[l][p].ev)
    /\ \A l \in Lsids \ worlds, p \in Peers : \A n \in DOMAIN F[l][p].ev : F[l][p].ev[n].type \in NetEvents
    /\ r \in [Lsids -> {"none", "success", "fail"}]
    /\ \A l \in Lsids : r[l] = Outcome(result[l], F[l])
    /\ T \in [Lsids -> [Peers -> Told]]
    /\ \A l \in Lsids, p \in Peers : T[l][p] = Observe(told[l][p], F[l][p].ev)
    /\ \A l \in Lsids, p \in Peers : T[l][p].st # "bad" /\ (r[l] # "success" => T[l][p].st = "idle")

\* What o may be.
LEMMA RaisedLemma ==
    ASSUME NEW F, NEW T, NEW r, Pushable(F, T, r)
    PROVE  /\ \A o \in Raised(F) :
                 /\ o.lsid \in Lsids /\ o.peer \in Peers /\ o.n \in {1, 2}
                 /\ o.n \in DOMAIN F[o.lsid][o.peer].ev
                 /\ o = [lsid |-> o.lsid, peer |-> o.peer, n |-> o.n]
           /\ \A l \in Lsids, p \in Peers : \A n \in DOMAIN F[l][p].ev :
                 [lsid |-> l, peer |-> p, n |-> n] \in Raised(F)
           /\ \A l \in Lsids, p \in Peers :
                 /\ DOMAIN F[l][p].ev = 1..Len(F[l][p].ev) /\ Len(F[l][p].ev) \in 0..2
PROOF
<1>1. ASSUME NEW l \in Lsids, NEW p \in Peers
      PROVE  /\ DOMAIN F[l][p].ev = 1..Len(F[l][p].ev) /\ Len(F[l][p].ev) \in 0..2
             /\ \A n \in DOMAIN F[l][p].ev : n \in {1, 2}
  BY TidyFacts DEF Pushable
<1>2. ASSUME NEW o \in Raised(F)
      PROVE  /\ o.lsid \in Lsids /\ o.peer \in Peers /\ o.n \in {1, 2}
             /\ o.n \in DOMAIN F[o.lsid][o.peer].ev
             /\ o = [lsid |-> o.lsid, peer |-> o.peer, n |-> o.n]
  <2>1. PICK l \in Lsids, p \in Peers : \E n \in DOMAIN F[l][p].ev : o = [lsid |-> l, peer |-> p, n |-> n]
    BY DEF Raised
  <2>2. PICK n \in DOMAIN F[l][p].ev : o = [lsid |-> l, peer |-> p, n |-> n]
    BY <2>1
  <2>3. o.lsid = l /\ o.peer = p /\ o.n = n
    BY <2>2
  <2> QED BY <1>1, <2>2, <2>3
<1>3. ASSUME NEW l \in Lsids, NEW p \in Peers, NEW n \in DOMAIN F[l][p].ev
      PROVE  [lsid |-> l, peer |-> p, n |-> n] \in Raised(F)
  <2> DEFINE B == {[lsid |-> l, peer |-> p, n |-> m] : m \in DOMAIN F[l][p].ev}
             A == {{[lsid |-> k, peer |-> q, n |-> m] : m \in DOMAIN F[k][q].ev} : k \in Lsids, q \in Peers}
  <2>1. [lsid |-> l, peer |-> p, n |-> n] \in B
    OBVIOUS
  <2>2. B \in A
    OBVIOUS
  <2>3. Raised(F) = UNION A
    BY DEF Raised
  <2> HIDE DEF A, B
  <2> QED BY <2>1, <2>2, <2>3
<1> QED BY <1>1, <1>2, <1>3

\* Answers to joins come from the target of the join; the other events are of
\* worlds that have joined, or go to the network.
LEMMA AnswerLemma ==
    ASSUME IInv, NEW F, NEW T, NEW r, Pushable(F, T, r)
    PROVE  /\ \A o \in Raised(F) :
                 /\ At1(F, o).type \in PeerEvents \cup NetEvents \cup Answers
                 /\ At1(F, o).sid \in Sessions \cup {Nil}
                 /\ At1(F, o).type = "Request" => At1(F, o).sid \in Sessions
                 /\ At1(F, o).type \in Answers =>
                       /\ o.n = 1 /\ o.lsid \in worlds /\ result[o.lsid] = "none" /\ join_hash[o.lsid] = o.peer
                       /\ r[o.lsid] = IF At1(F, o).type = "JoinSuccess" THEN "success" ELSE "fail"
                 /\ At1(F, o).type \in PeerEvents => o.lsid \in worlds /\ r[o.lsid] = "success"
           /\ \A l \in Lsids : r[l] # result[l] =>
                 \E o \in Raised(F) : o.lsid = l /\ At1(F, o).type \in Answers
PROOF
<1>0. /\ "JoinSuccess" \notin NetEvents /\ "JoinFail" \notin NetEvents
      /\ \A x \in PeerEvents : x \notin NetEvents
      /\ \A x \in Answers : x \in {"JoinSuccess", "JoinFail"}
  BY DEF Answers, NetEvents, PeerEvents
<1>1. ASSUME NEW l \in Lsids, r[l] # result[l]
      PROVE  \E o \in Raised(F) : o.lsid = l /\ At1(F, o).type \in Answers
  <2>1. PICK p \in Peers : Raises(F[l][p].ev, "JoinSuccess") \/ Raises(F[l][p].ev, "JoinFail")
    BY <1>1 DEF Pushable, Outcome
  <2>2. PICK n \in DOMAIN F[l][p].ev : F[l][p].ev[n].type \in Answers
    BY <2>1 DEF Raises, Answers
  <2> DEFINE o == [lsid |-> l, peer |-> p, n |-> n]
  <2>3. o \in Raised(F)
    BY RaisedLemma
  <2>4. o.lsid = l /\ o.peer = p /\ o.n = n
    OBVIOUS
  <2> HIDE DEF o
  <2> QED BY <2>2, <2>3, <2>4 DEF At1
<1>2. ASSUME NEW o \in Raised(F)
      PROVE  /\ At1(F, o).type \in PeerEvents \cup NetEvents \cup Answers
             /\ At1(F, o).sid \in Sessions \cup {Nil}
             /\ At1(F, o).type = "Request" => At1(F, o).sid \in Sessions
             /\ At1(F, o).type \in Answers => o.n = 1 /\ entry[o.lsid][o.peer].state = "JT"
  <2>1. o.lsid \in Lsids /\ o.peer \in Peers /\ o.n \in DOMAIN F[o.lsid][o.peer].ev
    BY RaisedLemma
  <2>2. Tidy(entry[o.lsid][o.peer], F[o.lsid][o.peer].ev)
    BY <2>1 DEF Pushable
  <2> DEFINE ev == F[o.lsid][o.peer].ev
  <2>3. \A n \in DOMAIN ev :
           /\ ev[n].type \in PeerEvents \cup NetEvents \cup Answers
           /\ ev[n].sid \in Sessions \cup {Nil}
           /\ ev[n].type = "Request" => ev[n].sid \in Sessions
           /\ ev[n].type \in Answers => n = 1 /\ entry[o.lsid][o.peer].state = "JT"
    BY <2>2, TidyFacts
  <2> QED BY <2>1, <2>3 DEF At1
<1>3. ASSUME NEW o \in Raised(F), At1(F, o).type \in Answers
      PROVE  /\ o.n = 1 /\ o.lsid \in worlds /\ result[o.lsid] = "none" /\ join_hash[o.lsid] = o.peer
             /\ r[o.lsid] = IF At1(F, o).type = "JoinSuccess" THEN "success" ELSE "fail"
  <2> DEFINE l == o.lsid
             p == o.peer
  <2>1. l \in Lsids /\ p \in Peers /\ o.n \in DOMAIN F[l][p].ev
    BY RaisedLemma
  <2>2. o.n = 1 /\ entry[l][p].state = "JT"
    BY <1>2, <1>3
  <2>3. l \in worlds /\ result[l] = "none" /\ join_hash[l] = p
    <3>1. WorldOK(l)
      BY <2>1 DEF IInv
    <3>2. "JT" \in Target /\ "JT" # "Absent"
      BY DEF Target
    <3> QED BY <2>1, <2>2, <3>1, <3>2 DEF WorldOK
  <2>4. r[l] = Outcome("none", F[l]) /\ r[l] # "twice"
    BY <2>1, <2>3 DEF Pushable
  <2>5. Raises(F[l][p].ev, At1(F, o).type)
    BY <2>1 DEF Raises, At1
  <2>6. CASE At1(F, o).type = "JoinSuccess"
    BY <2>1, <2>2, <2>3, <2>4, <2>5, <2>6 DEF Outcome
  <2>7. CASE At1(F, o).type = "JoinFail"
    BY <2>1, <2>2, <2>3, <2>4, <2>5, <2>7 DEF Outcome
  <2> QED BY <1>0, <1>3, <2>6, <2>7
<1>4. ASSUME NEW o \in Raised(F), At1(F, o).type \in PeerEvents
      PROVE  o.lsid \in worlds /\ r[o.lsid] = "success"
  <2> DEFINE l == o.lsid
             p == o.peer
             ev == F[l][p].ev
             t == told[l][p]
  <2>1. /\ l \in Lsids /\ p \in Peers /\ o.n \in DOMAIN ev /\ o.n \in {1, 2}
        /\ DOMAIN ev = 1..Len(ev) /\ Len(ev) \in 0..2
    BY RaisedLemma
  <2>2. l \in worlds
    BY <1>0, <1>4, <2>1 DEF Pushable, At1
  <2>3. ev[o.n].type \in PeerEvents
    BY <1>4 DEF At1
  <2>4. ASSUME r[l] # "success" PROVE FALSE
    <3>1. result[l] # "success"
      BY <1>1, <1>3, <2>1, <2>4
    <3>2. t.st = "idle"
      BY <2>1, <3>1 DEF IInv, WorldOK
    <3>3. Observe(t, ev).st = "idle"
      BY <2>1, <2>4 DEF Pushable
    <3> QED BY <2>1, <2>3, <3>2, <3>3, IdleLemma
  <2> QED BY <2>2, <2>4
<1> QED BY <1>1, <1>2, <1>3, <1>4

\* What the event loop knows once it has handled the events P of a call.
Slot(l, p, m) == [lsid |-> l, peer |-> p, n |-> m]

Answered(F, P, l) == \E o \in P : o.lsid = l /\ At1(F, o).type \in Answers

Part(F, P, l, p) ==
    IF Slot(l, p, 2) \in P THEN Observe1(Observe1(told[l][p], F[l][p].ev[1]), F[l][p].ev[2])
    ELSE IF Slot(l, p, 1) \in P THEN Observe1(told[l][p], F[l][p].ev[1])
    ELSE told[l][p]

Way(F, r, P) ==
    [w |-> [l \in Lsids |-> Standing(l \in worlds, IF Answered(F, P, l) THEN r[l] ELSE result[l])],
     v |-> [l \in Lsids |-> [p \in Peers |-> Part(F, P, l, p)]],
     a |-> {l \in used : result[l] # "none" \/ Answered(F, P, l)}]

\* What it knows after all of them.
Mid(T, r) ==
    [w |-> [l \in Lsids |-> Standing(l \in worlds, r[l])],
     v |-> T,
     a |-> {l \in used : r[l] # "none"}]

\* No answers leave the joins as they are.
LEMMA AnsweredLemma ==
    ASSUME IInv, NEW F, NEW T, NEW r, Pushable(F, T, r)
    PROVE  /\ \A l : ~Answered(F, {}, l)
           /\ \A P \in SUBSET Raised(F) : \A l \in Lsids :
                 Answered(F, P, l) => l \in worlds /\ result[l] = "none" /\ r[l] \in {"success", "fail"}
           /\ \A l \in Lsids : ~Answered(F, Raised(F), l) => r[l] = result[l]
           /\ \A P : \A o \in Raised(F) : \A l :
                 Answered(F, P \cup {o}, l) <=>
                    (Answered(F, P, l) \/ (o.lsid = l /\ At1(F, o).type \in Answers))
PROOF
<1>1. \A l : ~Answered(F, {}, l)
  BY DEF Answered
<1>2. ASSUME NEW P \in SUBSET Raised(F), NEW l \in Lsids, Answered(F, P, l)
      PROVE  l \in worlds /\ result[l] = "none" /\ r[l] \in {"success", "fail"}
  <2>1. PICK o \in Raised(F) : o.lsid = l /\ At1(F, o).type \in Answers
    BY <1>2 DEF Answered
  <2>2. /\ o.lsid \in worlds /\ result[o.lsid] = "none"
        /\ r[o.lsid] = IF At1(F, o).type = "JoinSuccess" THEN "success" ELSE "fail"
    BY <2>1, AnswerLemma
  <2> QED BY <2>1, <2>2
<1>3. \A l \in Lsids : ~Answered(F, Raised(F), l) => r[l] = result[l]
  BY AnswerLemma DEF Answered
<1>4. ASSUME NEW P, NEW o, NEW l
      PROVE  Answered(F, P \cup {o}, l) <=>
                (Answered(F, P, l) \/ (o.lsid = l /\ At1(F, o).type \in Answers))
  BY DEF Answered
<1> QED BY <1>1, <1>2, <1>3, <1>4

\* Where the events start and where they end.
LEMMA WayEnds ==
    ASSUME IInv, NEW F, NEW T, NEW r, Pushable(F, T, r)
    PROVE  Way(F, r, {}) = Due /\ Way(F, r, Raised(F)) = Mid(T, r)
PROOF
<1>1. /\ told \in [Lsids -> [Peers -> Told]] /\ T \in [Lsids -> [Peers -> Told]]
      /\ \A l \in Lsids, p \in Peers : T[l][p] = Observe(told[l][p], F[l][p].ev)
      /\ used \subseteq Lsids
  BY DEF IInv, TypeOK, Pushable
<1>2. Way(F, r, {}) = Due
  <2>1. \A l, p : Part(F, {}, l, p) = told[l][p]
    BY DEF Part
  <2>2. [l \in Lsids |-> [p \in Peers |-> Part(F, {}, l, p)]] = told
    BY <1>1, <2>1
  <2>3. {l \in used : result[l] # "none" \/ Answered(F, {}, l)} = {l \in used : result[l] # "none"}
    BY AnsweredLemma
  <2>4. [l \in Lsids |-> Standing(l \in worlds, IF Answered(F, {}, l) THEN r[l] ELSE result[l])]
        = [l \in Lsids |-> Standing(l \in worlds, result[l])]
    BY AnsweredLemma
  <2> QED BY <2>2, <2>3, <2>4 DEF Way, Due
<1>3. Way(F, r, Raised(F)) = Mid(T, r)
  <2> DEFINE P == Raised(F)
  <2>1. ASSUME NEW l \in Lsids, NEW p \in Peers PROVE Part(F, P, l, p) = T[l][p]
    <3> DEFINE N == Len(F[l][p].ev)
    <3>1. /\ DOMAIN F[l][p].ev = 1..N /\ N \in 0..2
          /\ N = 0 <=> F[l][p].ev = <<>>
      BY TidyFacts DEF Pushable
    <3>2. \A m \in {1, 2} : Slot(l, p, m) \in P <=> m \in DOMAIN F[l][p].ev
      <4> SUFFICES ASSUME NEW m \in {1, 2} PROVE Slot(l, p, m) \in P <=> m \in DOMAIN F[l][p].ev
        OBVIOUS
      <4>1. Slot(l, p, m).lsid = l /\ Slot(l, p, m).peer = p /\ Slot(l, p, m).n = m
        BY DEF Slot
      <4>2. Slot(l, p, m) \in P => m \in DOMAIN F[l][p].ev
        BY <4>1, RaisedLemma
      <4>3. m \in DOMAIN F[l][p].ev => Slot(l, p, m) \in P
        BY RaisedLemma DEF Slot
      <4> QED BY <4>2, <4>3
    <3>3. (1 \in 1..N <=> N # 0) /\ (2 \in 1..N <=> N = 2)
      <4>1. \A m \in 0..2 : (1 \in 1..m <=> m # 0) /\ (2 \in 1..m <=> m = 2)
        OBVIOUS
      <4> QED BY <3>1, <4>1
    <3> QED BY <1>1, <3>1, <3>2, <3>3 DEF Part, Observe
  <2>2. [l \in Lsids |-> [p \in Peers |-> Part(F, P, l, p)]] = T
    BY <1>1, <2>1
  <2>3. \A l \in Lsids : Answered(F, P, l) => result[l] = "none" /\ r[l] \in {"success", "fail"}
    BY AnsweredLemma
  <2>4. \A l \in Lsids : ~Answered(F, P, l) => r[l] = result[l]
    BY AnsweredLemma
  <2>5. {l \in used : result[l] # "none" \/ Answered(F, P, l)} = {l \in used : r[l] # "none"}
    BY <1>1, <2>3, <2>4
  <2>6. [l \in Lsids |-> Standing(l \in worlds, IF Answered(F, P, l) THEN r[l] ELSE result[l])]
        = [l \in Lsids |-> Standing(l \in worlds, r[l])]
    BY <2>4
  <2> QED BY <2>2, <2>5, <2>6 DEF Way, Mid
<1> QED BY <1>2, <1>3

IsTable(f) == f = [l \in Lsids |-> [p \in Peers |-> f[l][p]]]

\* A change of one entry of a table.
LEMMA PutLemma ==
    ASSUME NEW f, IsTable(f), NEW g, IsTable(g), NEW l \in Lsids, NEW p \in Peers, NEW c,
           \A k \in Lsids, q \in Peers : g[k][q] = IF k = l /\ q = p THEN c ELSE f[k][q]
    PROVE  g = Put(f, l, p, c)
PROOF
<1> DEFINE h == [f EXCEPT ![l][p] = c]
<1>0. DOMAIN f = Lsids /\ DOMAIN g = Lsids
  BY DEF IsTable
<1>1. ASSUME NEW k \in Lsids PROVE g[k] = h[k]
  <2>1. f[k] = [q \in Peers |-> f[k][q]] /\ g[k] = [q \in Peers |-> g[k][q]]
    BY DEF IsTable
  <2>2. CASE k = l
    <3>1. h[k] = [f[l] EXCEPT ![p] = c]
      BY <1>0, <2>2
    <3> QED BY <2>1, <2>2, <3>1
  <2>3. CASE k # l
    <3>1. h[k] = f[k]
      BY <1>0, <2>3
    <3> QED BY <2>1, <2>3, <3>1
  <2> QED BY <2>2, <2>3
<1>2. g = [k \in Lsids |-> g[k]] /\ h = [k \in Lsids |-> h[k]]
  BY <1>0 DEF IsTable
<1> HIDE DEF h
<1>3. g = h
  BY <1>1, <1>2
<1> QED BY <1>3 DEF h, Put

\* One event more: the event loop can handle it, and knows what it says.
LEMMA WayStep ==
    ASSUME IInv, NEW F, NEW T, NEW r, Pushable(F, T, r),
           NEW P \in SUBSET Raised(F), NEW o \in Raised(F), o \notin P,
           o.n = 2 => Slot(o.lsid, o.peer, 1) \in P,
           o.n = 1 => Slot(o.lsid, o.peer, 2) \notin P,
           \A oo \in Raised(F) \ {o} : At1(F, oo).type = "JoinSuccess" => oo \in P
    PROVE  /\ Handled(Way(F, r, P), EventOf(F, o))
           /\ Way(F, r, P \cup {o}) = After(Way(F, r, P), EventOf(F, o))
PROOF
<1> DEFINE l == o.lsid
           p == o.peer
           e == EventOf(F, o)
           t == told[l][p]
           ev == F[l][p].ev
           x == Way(F, r, P)
           y == Way(F, r, P \cup {o})
<1>1. /\ l \in Lsids /\ p \in Peers /\ o.n \in {1, 2} /\ o.n \in DOMAIN ev
      /\ DOMAIN ev = 1..Len(ev) /\ Len(ev) \in 0..2 /\ o = Slot(l, p, o.n)
  BY RaisedLemma DEF Slot
<1>2. e.type = At1(F, o).type /\ e.sid = At1(F, o).sid /\ e.lsid = l /\ e.peer = p
  BY DEF EventOf, AndEvent, At1
<1>3. /\ At1(F, o).type \in PeerEvents \cup NetEvents \cup Answers
      /\ At1(F, o).type \in Answers =>
            /\ o.n = 1 /\ l \in worlds /\ result[l] = "none" /\ join_hash[l] = p
            /\ r[l] = IF At1(F, o).type = "JoinSuccess" THEN "success" ELSE "fail"
      /\ At1(F, o).type \in PeerEvents => l \in worlds /\ r[l] = "success"
  BY AnswerLemma
<1>4. /\ \A z \in PeerEvents : z \notin Answers /\ z \notin NetEvents
      /\ \A z \in Answers : z \notin NetEvents /\ z \in {"JoinSuccess", "JoinFail"}
      /\ \A z \in PeerEvents \cup NetEvents : z \notin {"JoinSuccess", "JoinFail", "WorldLeave"}
      /\ "JoinSuccess" \in Answers /\ "JoinFail" \in Answers
  BY DEF PeerEvents, NetEvents, Answers
<1>5. e.type \in Answers => l \notin x.a
  <2> SUFFICES ASSUME e.type \in Answers, l \in x.a PROVE FALSE
    OBVIOUS
  <2>1. Answered(F, P, l)
    BY <1>2, <1>3 DEF Way
  <2>2. PICK oo \in P : oo.lsid = l /\ At1(F, oo).type \in Answers
    BY <2>1 DEF Answered
  <2>3. /\ oo \in Raised(F) /\ oo.n = 1 /\ join_hash[l] = oo.peer /\ o.n = 1 /\ join_hash[l] = p
        /\ oo = Slot(oo.lsid, oo.peer, oo.n)
    BY <1>2, <1>3, <2>2, AnswerLemma, RaisedLemma DEF Slot
  <2>4. oo = o
    BY <1>1, <2>2, <2>3
  <2> QED BY <2>2, <2>4
<1>6. e.type \in PeerEvents => x.w[l] = "live"
  <2> SUFFICES ASSUME e.type \in PeerEvents PROVE x.w[l] = "live"
    OBVIOUS
  <2>1. l \in worlds /\ r[l] = "success"
    BY <1>2, <1>3
  <2>2. x.w[l] = Standing(l \in worlds, IF Answered(F, P, l) THEN r[l] ELSE result[l])
    BY <1>1 DEF Way
  <2>3. CASE Answered(F, P, l)
    BY <2>1, <2>2, <2>3 DEF Standing
  <2>4. CASE ~Answered(F, P, l)
    <3>1. result[l] = "success"
      <4> SUFFICES ASSUME result[l] # "success" PROVE FALSE
        OBVIOUS
      <4>1. PICK oo \in Raised(F) : oo.lsid = l /\ At1(F, oo).type \in Answers
        BY <1>1, <2>1, AnswerLemma
      <4>2. At1(F, oo).type = "JoinSuccess"
        BY <2>1, <4>1, AnswerLemma
      <4>3. oo # o
        BY <1>2, <1>4, <4>1
      <4>4. oo \in P
        BY <4>1, <4>2, <4>3
      <4> QED BY <2>4, <4>1, <4>4 DEF Answered
    <3> QED BY <2>1, <2>2, <2>4, <3>1 DEF Standing
  <2> QED BY <2>3, <2>4
<1>7. /\ Part(F, P, l, p) = IF o.n = 1 THEN t ELSE Observe1(t, ev[1])
      /\ Part(F, P \cup {o}, l, p) = Observe1(Part(F, P, l, p), ev[o.n])
      /\ Part(F, P \cup {o}, l, p).st # "bad"
  <2>0. Slot(l, p, 1) # Slot(l, p, 2)
    BY DEF Slot
  <2>1. T[l][p].st # "bad" /\ T[l][p] = Observe(t, ev)
    BY <1>1 DEF Pushable
  <2>2. Len(<<>>) = 0
    OBVIOUS
  <2>3. CASE o.n = 1
    <3>1. Slot(l, p, 1) \notin P /\ Slot(l, p, 2) \notin P
      BY <1>1, <2>3
    <3>2. Slot(l, p, 1) \in P \cup {o} /\ Slot(l, p, 2) \notin P \cup {o}
      BY <1>1, <2>0, <2>3, <3>1
    <3>3. Part(F, P, l, p) = t /\ Part(F, P \cup {o}, l, p) = Observe1(t, ev[1])
      BY <3>1, <3>2 DEF Part
    <3>4. Observe1(t, ev[1]).st # "bad"
      <4>1. ev # <<>> /\ (Len(ev) = 1 \/ Len(ev) = 2)
        BY <1>1, <2>2
      <4>2. Observe(t, ev) \in {Observe1(t, ev[1]), Observe1(Observe1(t, ev[1]), ev[2])}
        BY <4>1 DEF Observe
      <4> QED BY <2>1, <4>2, ObserveLemma
    <3> QED BY <2>3, <3>3, <3>4
  <2>4. CASE o.n = 2
    <3>1. Slot(l, p, 1) \in P /\ Slot(l, p, 2) \notin P /\ Slot(l, p, 2) \in P \cup {o}
      BY <1>1, <2>4
    <3>2. /\ Part(F, P, l, p) = Observe1(t, ev[1])
          /\ Part(F, P \cup {o}, l, p) = Observe1(Observe1(t, ev[1]), ev[2])
      BY <3>1 DEF Part
    <3>3. ev # <<>> /\ Len(ev) # 1
      BY <1>1, <2>2, <2>4
    <3>4. Observe(t, ev) = Observe1(Observe1(t, ev[1]), ev[2])
      BY <3>3 DEF Observe
    <3> QED BY <2>1, <2>4, <3>2, <3>4
  <2> QED BY <1>1, <2>3, <2>4
<1>8. ev[o.n].type = e.type /\ ev[o.n].sid = e.sid
  BY <1>2 DEF At1
<1>9. Observe1(Part(F, P, l, p), ev[o.n]) = Observe1(Part(F, P, l, p), e)
  BY <1>8, ObserveLemma
<1>10. x.v[l][p] = Part(F, P, l, p)
  BY <1>1 DEF Way
<1>11. Handled(x, e)
  BY <1>2, <1>5, <1>6, <1>7, <1>9, <1>10 DEF Handled
<1>12. y.v = After(x, e).v
  <2>1. ASSUME NEW k \in Lsids, NEW q \in Peers, k # l \/ q # p
        PROVE  Part(F, P \cup {o}, k, q) = Part(F, P, k, q)
    <3>1. \A m : Slot(k, q, m).lsid = k /\ Slot(k, q, m).peer = q
      BY DEF Slot
    <3>2. \A m : Slot(k, q, m) # o
      BY <2>1, <3>1
    <3> QED BY <3>2 DEF Part
  <2>2. CASE e.type \in PeerEvents
    <3> DEFINE f == [k \in Lsids |-> [q \in Peers |-> Part(F, P, k, q)]]
               g == [k \in Lsids |-> [q \in Peers |-> Part(F, P \cup {o}, k, q)]]
               b == Observe1(Part(F, P, l, p), e)
    <3>1. x.v = f /\ y.v = g
      BY DEF Way
    <3>2. After(x, e).v = Put(f, l, p, b)
      BY <1>2, <1>10, <2>2, <3>1 DEF After
    <3>3. \A k \in Lsids, q \in Peers : g[k][q] = IF k = l /\ q = p THEN b ELSE f[k][q]
      BY <1>1, <1>7, <1>9, <2>1
    <3>4. IsTable(f) /\ IsTable(g)
      BY DEF IsTable
    <3> HIDE DEF f, g, b
    <3>5. g = Put(f, l, p, b)
      BY <1>1, <3>3, <3>4, PutLemma
    <3> QED BY <3>1, <3>2, <3>5
  <2>3. CASE e.type \notin PeerEvents
    <3>1. Observe1(Part(F, P, l, p), e) = Part(F, P, l, p)
      BY <2>3, ObserveLemma
    <3>2. \A k \in Lsids, q \in Peers : Part(F, P \cup {o}, k, q) = Part(F, P, k, q)
      BY <1>7, <1>9, <2>1, <3>1
    <3>3. [k \in Lsids |-> [q \in Peers |-> Part(F, P \cup {o}, k, q)]]
          = [k \in Lsids |-> [q \in Peers |-> Part(F, P, k, q)]]
      BY <3>2
    <3>4. After(x, e).v = x.v
      BY <2>3 DEF After
    <3> QED BY <3>3, <3>4 DEF Way
  <2> QED BY <2>2, <2>3
<1>13. y.a = After(x, e).a
  <2>1. After(x, e).a = IF e.type \in Answers THEN x.a \cup {l} ELSE x.a
    BY <1>2 DEF After
  <2>2. \A k : Answered(F, P \cup {o}, k) <=> (Answered(F, P, k) \/ (l = k /\ e.type \in Answers))
    BY <1>2, AnsweredLemma
  <2>3. e.type \in Answers => l \in used
    BY <1>2, <1>3 DEF IInv, TypeOK
  <2>4. /\ y.a = {k \in used : result[k] # "none" \/ Answered(F, P \cup {o}, k)}
        /\ x.a = {k \in used : result[k] # "none" \/ Answered(F, P, k)}
    BY DEF Way
  <2> HIDE DEF x, y, e, l
  <2> QED BY <2>1, <2>2, <2>3, <2>4
<1>14. y.w = After(x, e).w
  <2> DEFINE St(Q, k) == Standing(k \in worlds, IF Answered(F, Q, k) THEN r[k] ELSE result[k])
  <2>1. /\ x.w = [k \in Lsids |-> St(P, k)]
        /\ y.w = [k \in Lsids |-> St(P \cup {o}, k)]
    BY DEF Way
  <2>2. \A k \in Lsids : ~(k = l /\ e.type \in Answers) => St(P \cup {o}, k) = St(P, k)
    BY <1>2, AnsweredLemma
  <2>3. CASE e.type \in Answers
    <3> DEFINE c == IF e.type = "JoinSuccess" THEN "live" ELSE "nil"
    <3>1. e.type = "JoinSuccess" \/ e.type = "JoinFail"
      BY <1>4, <2>3
    <3>2. After(x, e).w = [x.w EXCEPT ![l] = c]
      BY <1>2, <3>1 DEF After
    <3>3. St(P \cup {o}, l) = c
      <4>1. Answered(F, P \cup {o}, l)
        BY <1>2, <2>3, AnsweredLemma
      <4>2. l \in worlds /\ r[l] = IF e.type = "JoinSuccess" THEN "success" ELSE "fail"
        BY <1>2, <1>3, <2>3
      <4> QED BY <3>1, <4>1, <4>2 DEF Standing
    <3> HIDE DEF St, c, x, y, e, l
    <3>4. \A k \in Lsids : St(P \cup {o}, k) = IF k = l THEN c ELSE St(P, k)
      BY <2>2, <3>3
    <3>5. [k \in Lsids |-> St(P \cup {o}, k)] = [[k \in Lsids |-> St(P, k)] EXCEPT ![l] = c]
      BY <3>4
    <3> QED BY <2>1, <3>2, <3>5
  <2>4. CASE e.type \notin Answers
    <3>1. e.type \in PeerEvents \cup NetEvents
      BY <1>2, <1>3, <2>4
    <3>2. After(x, e).w = x.w
      BY <1>4, <3>1 DEF After
    <3> HIDE DEF St
    <3>3. [k \in Lsids |-> St(P \cup {o}, k)] = [k \in Lsids |-> St(P, k)]
      BY <2>2, <2>4
    <3> QED BY <2>1, <3>2, <3>3
  <2> QED BY <2>3, <2>4
<1>15. y = After(x, e)
  <2>1. /\ y = [w |-> y.w, v |-> y.v, a |-> y.a]
        /\ After(x, e) = [w |-> After(x, e).w, v |-> After(x, e).v, a |-> After(x, e).a]
    BY DEF Way, After
  <2> HIDE DEF x, y, e
  <2> QED BY <1>12, <1>13, <1>14, <2>1
<1> QED BY <1>11, <1>15

\* The events of a call before the next one.
Past(order, j) == {order[i] : i \in 1..j}

\* A visit meets every event once, and the events about a peer in their order.
LEMMA VisitLemma ==
    ASSUME NEW F, NEW T, NEW r, Pushable(F, T, r), NEW order \in Visits(F)
    PROVE  /\ order \in Seq(Raised(F)) /\ Len(order) \in Nat /\ DOMAIN order = 1..Len(order)
           /\ Past(order, 0) = {} /\ Past(order, Len(order)) = Raised(F)
           /\ \A j \in 1..Len(order) :
                 /\ order[j] \in Raised(F) /\ order[j] \notin Past(order, j - 1)
                 /\ Past(order, j - 1) \in SUBSET Raised(F)
                 /\ Past(order, j) = Past(order, j - 1) \cup {order[j]}
                 /\ order[j].n = 2 => Slot(order[j].lsid, order[j].peer, 1) \in Past(order, j - 1)
                 /\ order[j].n = 1 => Slot(order[j].lsid, order[j].peer, 2) \notin Past(order, j - 1)
PROOF
<1> DEFINE N == Len(order)
<1>1. order \in Seq(Raised(F))
  <2>1. order \in SeqOf(Raised(F), EventCap)
    BY DEF Visits
  <2>2. PICK m \in 0..EventCap : order \in [1..m -> Raised(F)]
    BY <2>1 DEF SeqOf
  <2>3. m \in Nat
    BY <2>2, EventCapAssumption
  <2> QED BY <2>2, <2>3
<1>2. N \in Nat /\ DOMAIN order = 1..N /\ \A j \in 1..N : order[j] \in Raised(F)
  BY <1>1
<1>3. /\ \A o \in Raised(F) : \E k \in 1..N : order[k] = o
      /\ \A j, k \in 1..N : j < k /\ order[j].lsid = order[k].lsid /\ order[j].peer = order[k].peer
                            => order[j].n < order[k].n
  BY <1>2 DEF Visits
<1>4. \A o \in Raised(F) : o.n \in {1, 2} /\ o.n \in DOMAIN F[o.lsid][o.peer].ev
                           /\ o.lsid \in Lsids /\ o.peer \in Peers /\ o = Slot(o.lsid, o.peer, o.n)
  BY RaisedLemma DEF Slot
<1>5. Past(order, 0) = {}
  BY DEF Past
<1>6. Past(order, N) = Raised(F)
  BY <1>2, <1>3 DEF Past
<1>7. ASSUME NEW j \in 1..N
      PROVE  /\ order[j] \in Raised(F) /\ order[j] \notin Past(order, j - 1)
             /\ Past(order, j - 1) \in SUBSET Raised(F)
             /\ Past(order, j) = Past(order, j - 1) \cup {order[j]}
             /\ order[j].n = 2 => Slot(order[j].lsid, order[j].peer, 1) \in Past(order, j - 1)
             /\ order[j].n = 1 => Slot(order[j].lsid, order[j].peer, 2) \notin Past(order, j - 1)
  <2>0. order[j] \in Raised(F) /\ order[j].n \in {1, 2}
    BY <1>2, <1>4
  <2>1. \A i \in 1..j - 1 : i \in 1..N /\ i < j
    BY <1>2
  <2>2. \A i \in 1..j : i \in 1..j - 1 \/ i = j
    BY <1>2
  <2>3. Past(order, j) = Past(order, j - 1) \cup {order[j]}
    <3>1. \A i \in 1..j - 1 : i \in 1..j
      BY <1>2
    <3>2. j \in 1..j
      BY <1>2
    <3> QED BY <2>2, <3>1, <3>2 DEF Past
  <2>4. Past(order, j - 1) \in SUBSET Raised(F)
    BY <1>2, <2>1 DEF Past
  <2>5. order[j] \notin Past(order, j - 1)
    <3> SUFFICES ASSUME NEW i \in 1..j - 1, order[j] = order[i] PROVE FALSE
      BY DEF Past
    <3>1. order[i].n < order[j].n
      BY <1>3, <2>1
    <3> QED BY <2>0, <3>1
  <2>6. ASSUME order[j].n = 2 PROVE Slot(order[j].lsid, order[j].peer, 1) \in Past(order, j - 1)
    <3> DEFINE o == order[j]
               q == Slot(o.lsid, o.peer, 1)
    <3>1. q.lsid = o.lsid /\ q.peer = o.peer /\ q.n = 1
      BY DEF Slot
    <3>2. q \in Raised(F)
      <4>1. DOMAIN F[o.lsid][o.peer].ev = 1..Len(F[o.lsid][o.peer].ev) /\ Len(F[o.lsid][o.peer].ev) \in 0..2
        BY <1>4, <2>0, RaisedLemma
      <4>2. 2 \in DOMAIN F[o.lsid][o.peer].ev
        BY <1>4, <2>0, <2>6
      <4>3. 1 \in DOMAIN F[o.lsid][o.peer].ev
        BY <4>1, <4>2
      <4> QED BY <1>4, <2>0, <4>3, RaisedLemma DEF Slot
    <3>3. PICK k \in 1..N : order[k] = q
      BY <1>3, <3>2
    <3>4. k # j
      BY <2>6, <3>1, <3>3
    <3>5. ~(j < k)
      <4> SUFFICES ASSUME j < k PROVE FALSE
        OBVIOUS
      <4>1. order[j].n < order[k].n
        BY <1>3, <3>1, <3>3
      <4> QED BY <2>6, <3>1, <3>3, <4>1
    <3>6. k \in 1..j - 1
      BY <1>2, <3>4, <3>5
    <3> QED BY <3>3, <3>6 DEF Past
  <2>7. ASSUME order[j].n = 1 PROVE Slot(order[j].lsid, order[j].peer, 2) \notin Past(order, j - 1)
    <3> DEFINE q == Slot(order[j].lsid, order[j].peer, 2)
    <3> SUFFICES ASSUME NEW i \in 1..j - 1, order[i] = q PROVE FALSE
      BY DEF Past
    <3>1. q.lsid = order[j].lsid /\ q.peer = order[j].peer /\ q.n = 2
      BY DEF Slot
    <3>2. order[i].n < order[j].n
      BY <1>3, <2>1, <3>1
    <3> QED BY <2>7, <3>1, <3>2
  <2> QED BY <2>0, <2>3, <2>4, <2>5, <2>6, <2>7
<1> QED BY <1>1, <1>2, <1>5, <1>6, <1>7

\* The events of a call, in the order of a visit.
Pushed(F, order) == [k \in DOMAIN order |-> EventOf(F, order[k])]

\* They lead from what AND has decided to what it will have decided.
LEMMA PushLemma ==
    ASSUME IInv, NEW F, NEW T, NEW r, Pushable(F, T, r), NEW order \in Visits(F),
           \A k \in DOMAIN order : EventOf(F, order[k]).type = "JoinSuccess" => k = 1
    PROVE  /\ Pushed(F, order) \in Seq(HostEvents) /\ Len(Pushed(F, order)) = Len(order)
           /\ Leads(Pushed(F, order), Due, Mid(T, r))
           /\ \A k \in DOMAIN Pushed(F, order) :
                 LET e == Pushed(F, order)[k]
                 IN  /\ e.type \in PeerEvents \cup NetEvents \cup Answers
                     /\ e.type \in PeerEvents => e.lsid \in worlds /\ e.peer \in Peers /\ r[e.lsid] = "success"
                     /\ e.type = "Request" => e.sid \in Sessions
                     /\ e.type \in Answers =>
                           e.lsid \in worlds /\ r[e.lsid] = IF e.type = "JoinSuccess" THEN "success" ELSE "fail"
PROOF
<1> DEFINE N == Len(order)
           s == Pushed(F, order)
           X == [j \in 0..N |-> Way(F, r, Past(order, j))]
<1>1. N \in Nat /\ DOMAIN order = 1..N /\ order \in Seq(Raised(F))
  BY VisitLemma
<1>2. \A k \in 1..N : order[k] \in Raised(F) /\ s[k] = EventOf(F, order[k])
  BY <1>1 DEF Pushed
<1>3. ASSUME NEW o \in Raised(F)
      PROVE  LET e == EventOf(F, o)
             IN  /\ e \in HostEvents
                 /\ e.type \in PeerEvents \cup NetEvents \cup Answers
                 /\ e.type \in PeerEvents => e.lsid \in worlds /\ e.peer \in Peers /\ r[e.lsid] = "success"
                 /\ e.type = "Request" => e.sid \in Sessions
                 /\ e.type \in Answers =>
                       e.lsid \in worlds /\ r[e.lsid] = IF e.type = "JoinSuccess" THEN "success" ELSE "fail"
  <2> DEFINE e == EventOf(F, o)
             a == At1(F, o)
  <2>1. e = [type |-> a.type, lsid |-> o.lsid, peer |-> o.peer, sid |-> a.sid]
    BY DEF EventOf, AndEvent, At1
  <2>2. o.lsid \in Lsids /\ o.peer \in Peers
    BY RaisedLemma
  <2>3. /\ a.type \in PeerEvents \cup NetEvents \cup Answers
        /\ a.sid \in Sessions \cup {Nil}
        /\ a.type = "Request" => a.sid \in Sessions
        /\ a.type \in Answers =>
              o.lsid \in worlds /\ r[o.lsid] = IF a.type = "JoinSuccess" THEN "success" ELSE "fail"
        /\ a.type \in PeerEvents => o.lsid \in worlds /\ r[o.lsid] = "success"
    BY AnswerLemma
  <2>4. a.type \in Types
    BY <2>3 DEF Types
  <2> HIDE DEF e, a
  <2>5. e \in HostEvents
    BY <2>1, <2>2, <2>3, <2>4 DEF HostEvents
  <2>6. e.type = a.type /\ e.lsid = o.lsid /\ e.peer = o.peer /\ e.sid = a.sid
    BY <2>1
  <2> QED BY <2>2, <2>3, <2>5, <2>6 DEF e
<1>4. s \in Seq(HostEvents) /\ Len(s) = N /\ DOMAIN s = 1..N
  <2>1. \A k \in 1..N : EventOf(F, order[k]) \in HostEvents
    BY <1>2, <1>3
  <2>2. s = [k \in 1..N |-> EventOf(F, order[k])]
    BY <1>1 DEF Pushed
  <2> HIDE DEF s, N
  <2> QED BY <1>1, <2>1, <2>2
<1>5. \A j \in 0..N : X[j] = Way(F, r, Past(order, j))
  OBVIOUS
<1>6. \A k \in 1..N : EventOf(F, order[k]).type = "JoinSuccess" => k = 1
  BY <1>1
<1> HIDE DEF X, s
<1>7. ASSUME NEW k \in 1..N
      PROVE  Handled(X[k - 1], s[k]) /\ X[k] = After(X[k - 1], s[k])
  <2> DEFINE P == Past(order, k - 1)
             o == order[k]
  <2>1. k - 1 \in 0..N /\ k \in 0..N
    BY <1>1
  <2>2. X[k - 1] = Way(F, r, P) /\ X[k] = Way(F, r, P \cup {o}) /\ s[k] = EventOf(F, o)
    <3>1. Past(order, k) = Past(order, k - 1) \cup {order[k]}
      BY VisitLemma
    <3>2. X[k - 1] = Way(F, r, Past(order, k - 1)) /\ X[k] = Way(F, r, Past(order, k))
      BY <1>5, <2>1
    <3> QED BY <1>2, <3>1, <3>2
  <2>3. /\ P \in SUBSET Raised(F) /\ o \in Raised(F) /\ o \notin P
        /\ o.n = 2 => Slot(o.lsid, o.peer, 1) \in P
        /\ o.n = 1 => Slot(o.lsid, o.peer, 2) \notin P
    BY VisitLemma
  <2>4. \A oo \in Raised(F) \ {o} : At1(F, oo).type = "JoinSuccess" => oo \in P
    <3> SUFFICES ASSUME NEW oo \in Raised(F) \ {o}, At1(F, oo).type = "JoinSuccess" PROVE oo \in P
      OBVIOUS
    <3>1. oo \in Past(order, N)
      BY VisitLemma
    <3>2. PICK i \in 1..N : oo = order[i]
      BY <3>1 DEF Past
    <3>3. EventOf(F, oo).type = "JoinSuccess"
      BY DEF EventOf, AndEvent, At1
    <3>4. i = 1
      BY <1>6, <3>2, <3>3
    <3>5. k # 1
      BY <3>2, <3>4
    <3>6. 1 \in 1..k - 1
      BY <1>1, <3>5
    <3> QED BY <3>2, <3>4, <3>6 DEF Past
  <2> HIDE DEF P, o
  <2> QED BY <2>2, <2>3, <2>4, WayStep
<1>8. X[0] = Due /\ X[N] = Mid(T, r)
  <2>1. 0 \in 0..N /\ N \in 0..N
    BY <1>1
  <2>2. Past(order, 0) = {} /\ Past(order, N) = Raised(F)
    BY VisitLemma
  <2>3. X[0] = Way(F, r, {}) /\ X[N] = Way(F, r, Raised(F))
    BY <1>5, <2>1, <2>2
  <2> QED BY <2>3, WayEnds
<1>9. Leads(s, Due, Mid(T, r))
  BY <1>4, <1>7, <1>8 DEF Leads
<1>10. \A k \in DOMAIN s :
          LET e == s[k]
          IN  /\ e.type \in PeerEvents \cup NetEvents \cup Answers
              /\ e.type \in PeerEvents => e.lsid \in worlds /\ e.peer \in Peers /\ r[e.lsid] = "success"
              /\ e.type = "Request" => e.sid \in Sessions
              /\ e.type \in Answers =>
                    e.lsid \in worlds /\ r[e.lsid] = IF e.type = "JoinSuccess" THEN "success" ELSE "fail"
  BY <1>2, <1>3, <1>4
<1> QED BY <1>4, <1>9, <1>10 DEF s

-----------------------------------------------------------------------------
(* Calls of AND *)

\* The result of an effect without an answer to a join.
LEMMA NoAnswer ==
    ASSUME NEW x, NEW fx, \A p \in Peers : \A n \in DOMAIN fx[p].ev : fx[p].ev[n].type \notin Answers
    PROVE  Outcome(x, fx) = x
PROOF
<1>1. \A p \in Peers : ~Raises(fx[p].ev, "JoinSuccess") /\ ~Raises(fx[p].ev, "JoinFail")
  BY DEF Raises, Answers
<1> QED BY <1>1, OutcomeLemma

\* The effects of a call of AND can be pushed.
LEMMA PushableLemma ==
    ASSUME IInv, IInv', NEW F, told' = [l \in Lsids |-> [p \in Peers |-> Observe(told[l][p], F[l][p].ev)]],
           \A l \in Lsids, p \in Peers : Tidy(entry[l][p], F[l][p].ev),
           \A l \in Lsids \ worlds, p \in Peers : F[l][p].ev = <<>>,
           \A l \in Lsids : result'[l] = Outcome(result[l], F[l])
    PROVE  Pushable(F, told', result')
PROOF
<1>1. told' \in [Lsids -> [Peers -> Told]] /\ result' \in [Lsids -> {"none", "success", "fail", "twice"}]
  BY DEF IInv, TypeOK
<1>2. \A l \in Lsids : result'[l] # "twice"
  BY DEF IInv, WorldOK
<1>3. result' \in [Lsids -> {"none", "success", "fail"}]
  BY <1>1, <1>2
<1>4. \A l \in Lsids, p \in Peers : told'[l][p].st # "bad"
  BY DEF IInv, EntryOK
<1>5. \A l \in Lsids, p \in Peers : result'[l] # "success" => told'[l][p].st = "idle"
  BY DEF IInv, WorldOK
<1>6. \A l \in Lsids, p \in Peers : told'[l][p] = Observe(told[l][p], F[l][p].ev)
  OBVIOUS
<1>7. \A n : n \notin DOMAIN <<>>
  OBVIOUS
<1>8. \A l \in Lsids \ worlds, p \in Peers : \A n \in DOMAIN F[l][p].ev : F[l][p].ev[n].type \in NetEvents
  BY <1>7
<1> QED BY <1>1, <1>3, <1>4, <1>5, <1>6, <1>8 DEF Pushable

\* A call that reaches one world.
LEMMA CallPushable ==
    ASSUME IInv, IInv', NEW l \in worlds, NEW fx, WTidy(World(l), fx),
           Apply(OnWorld(l, fx)), result' = [result EXCEPT ![l] = Outcome(@, fx)]
    PROVE  Pushable(OnWorld(l, fx), told', result')
PROOF
<1> DEFINE F == OnWorld(l, fx)
<1>1. /\ l \in Lsids /\ result \in [Lsids -> {"none", "success", "fail", "twice"}]
      /\ \A k \in Lsids, p \in Peers : entry[k][p] \in Info
  BY DEF IInv, TypeOK
<1>2. told' = [k \in Lsids |-> [p \in Peers |-> Observe(told[k][p], F[k][p].ev)]]
  BY DEF Apply
<1>3. F[l] = fx /\ \A k \in Lsids \ {l}, p \in Peers : F[k][p].ev = <<>>
  BY <1>1 DEF OnWorld, Keep, Effect
<1>4. \A n : n \notin DOMAIN <<>>
  OBVIOUS
<1> HIDE DEF F
<1>5. \A k \in Lsids, p \in Peers : Tidy(entry[k][p], F[k][p].ev)
  <2>1. \A p \in Peers : Tidy(entry[l][p], fx[p].ev)
    BY DEF WTidy, World
  <2> QED BY <1>3, <2>1, TidyShort
<1>6. \A k \in Lsids : result'[k] = Outcome(result[k], F[k])
  <2>1. \A k \in Lsids \ {l} : Outcome(result[k], F[k]) = result[k]
    <3> SUFFICES ASSUME NEW k \in Lsids \ {l} PROVE Outcome(result[k], F[k]) = result[k]
      OBVIOUS
    <3>1. \A p \in Peers : \A n \in DOMAIN F[k][p].ev : F[k][p].ev[n].type \notin Answers
      BY <1>3, <1>4
    <3> QED BY <3>1, NoAnswer
  <2> QED BY <1>1, <1>3, <2>1
<1>7. \A k \in Lsids \ worlds, p \in Peers : F[k][p].ev = <<>>
  BY <1>3
<1>8. Pushable(F, told', result')
  BY <1>2, <1>5, <1>6, <1>7, PushableLemma
<1> QED BY <1>8 DEF F

\* A call that reaches all worlds.
LEMMA LoopPushable ==
    ASSUME IInv, IInv', NEW fx, \A l \in worlds : WTidy(World(l), fx[l]),
           Apply(OnWorlds(Local, fx)), \A l \in Lsids : result'[l] = Outcome(result[l], OnWorlds(Local, fx)[l])
    PROVE  Pushable(OnWorlds(Local, fx), told', result')
PROOF
<1> DEFINE F == OnWorlds(Local, fx)
<1>1. told' = [k \in Lsids |-> [p \in Peers |-> Observe(told[k][p], F[k][p].ev)]]
  BY DEF Apply
<1>2. worlds \subseteq Lsids
  BY DEF IInv, TypeOK
<1>3. /\ \A l \in worlds : F[l] = fx[l]
      /\ \A l \in Lsids \ worlds, p \in Peers : F[l][p].ev = <<>>
  BY <1>2, OneHost DEF OnWorlds, Keep, Effect
<1>4. \A l \in worlds, p \in Peers : Tidy(entry[l][p], fx[l][p].ev)
  BY DEF WTidy, World
<1> HIDE DEF F
<1>5. ASSUME NEW l \in Lsids, NEW p \in Peers PROVE Tidy(entry[l][p], F[l][p].ev)
  <2>1. CASE l \in worlds
    BY <1>3, <1>4, <2>1
  <2>2. CASE l \notin worlds
    BY <1>3, <2>2, TidyShort
  <2> QED BY <2>1, <2>2
<1>6. \A l \in Lsids : result'[l] = Outcome(result[l], F[l])
  BY DEF F
<1>7. Pushable(F, told', result')
  BY <1>1, <1>3, <1>5, <1>6, PushableLemma
<1> QED BY <1>7 DEF F

\* A call that makes a world raises no events, or asks the network to connect.
LEMMA FreshPushable ==
    ASSUME IInv, IInv', NEW l \in Lsids \ used, NEW fx, Apply(OnWorld(l, fx)),
           \A p \in Peers : fx[p].ev \in {<<>>, <<Event("ConnectRequest", Nil)>>}
    PROVE  Pushable(OnWorld(l, fx), told', result) /\ told' = told
PROOF
<1> DEFINE F == OnWorld(l, fx)
           c == <<Event("ConnectRequest", Nil)>>
<1>1. /\ l \notin worlds /\ result \in [Lsids -> {"none", "success", "fail", "twice"}]
      /\ told \in [Lsids -> [Peers -> Told]]
  BY DEF IInv, TypeOK
<1>2. \A k \in Lsids, p \in Peers : F[k][p].ev \in {<<>>, c} /\ (k # l => F[k][p].ev = <<>>)
  BY DEF OnWorld, Keep, Effect
<1>3. told' = [k \in Lsids |-> [p \in Peers |-> Observe(told[k][p], F[k][p].ev)]]
  BY DEF Apply
<1>4. /\ \A n : n \notin DOMAIN <<>>
      /\ Len(c) = 1 /\ c # <<>> /\ DOMAIN c = {1} /\ c[1].type = "ConnectRequest"
  BY DEF Event
<1>5. \A i : Tidy(i, <<>>) /\ Tidy(i, c)
  BY TidyShort DEF NetEvents, Answers
<1>6. \A t : Observe(t, <<>>) = t /\ Observe(t, c) = t
  BY <1>4, ObserveLemma DEF Observe, PeerEvents
<1> HIDE DEF F, c
<1>7. told' = told
  <2>1. \A k \in Lsids, p \in Peers : Observe(told[k][p], F[k][p].ev) = told[k][p]
    BY <1>2, <1>6
  <2>2. told = [k \in Lsids |-> [p \in Peers |-> told[k][p]]]
    BY <1>1
  <2> QED BY <1>3, <2>1, <2>2
<1>8. \A k \in Lsids, p \in Peers : \A n \in DOMAIN F[k][p].ev : F[k][p].ev[n].type = "ConnectRequest"
  BY <1>2, <1>4
<1>9. \A k \in Lsids : Outcome(result[k], F[k]) = result[k]
  <2> SUFFICES ASSUME NEW k \in Lsids PROVE Outcome(result[k], F[k]) = result[k]
    OBVIOUS
  <2>1. \A p \in Peers : \A n \in DOMAIN F[k][p].ev : F[k][p].ev[n].type \notin Answers
    BY <1>8 DEF Answers
  <2> QED BY <2>1, NoAnswer
<1>10. result \in [Lsids -> {"none", "success", "fail"}]
  BY <1>1 DEF IInv, WorldOK
<1>11. \A k \in Lsids, p \in Peers : told[k][p].st # "bad" /\ (result[k] # "success" => told[k][p].st = "idle")
  BY DEF IInv, WorldOK, EntryOK
<1>12. \A k \in Lsids, p \in Peers : Tidy(entry[k][p], F[k][p].ev)
  BY <1>2, <1>5
<1>13. \A k \in Lsids, p \in Peers : \A n \in DOMAIN F[k][p].ev : F[k][p].ev[n].type \in NetEvents
  BY <1>8 DEF NetEvents
<1>14. \A k \in Lsids, p \in Peers : told'[k][p] = Observe(told[k][p], F[k][p].ev)
  BY <1>3
<1>15. Pushable(F, told', result)
  BY <1>1, <1>7, <1>9, <1>10, <1>11, <1>12, <1>13, <1>14 DEF Pushable
<1> QED BY <1>7, <1>15 DEF F

\* The requests for a timer of l in s.
Wanted(s, l) == {m \in DOMAIN s : s[m].type = "TimerRequest" /\ s[m].lsid = l}

\* What is reported stays reported, and worlds that were made keep their target.
LEMMA StableLemma ==
    ASSUME IInv, [Next]_vars
    PROVE  /\ IInv' /\ used \subseteq used' /\ \A l \in used : join_hash'[l] = join_hash[l]
           /\ \A l \in Lsids : l \notin used' => join_hash'[l] = join_hash[l]
           /\ \A l \in Lsids : result[l] # "none" => result'[l] = result[l]
           /\ \A l \in worlds' : l \in worlds \/ l \notin used
           /\ peers[Local] \cup peers'[Local] \subseteq Peers
PROOF
<1>1. IInv' /\ \A l \in Lsids : result[l] # "none" => result'[l] = result[l]
  BY NextLemma, ResultLemma
<1>2. join_hash \in [Lsids -> Peers \cup {Nil}] /\ used \subseteq Lsids /\ peers[Local] \subseteq Peers /\ worlds \subseteq used
  BY LocalAssumption DEF IInv, TypeOK
<1>3. peers'[Local] \subseteq Peers
  BY <1>1, LocalAssumption DEF IInv, TypeOK
<1>4. /\ used \subseteq used' /\ \A l \in used : join_hash'[l] = join_hash[l]
      /\ \A l \in Lsids : l \notin used' => join_hash'[l] = join_hash[l]
      /\ \A l \in worlds' : l \in worlds \/ l \notin used
  <2>1. CASE UNCHANGED <<worlds, used, join_hash>>
    BY <2>1
  <2>2. CASE \E l \in Lsids : OpenWorld(l)
    BY <2>2 DEF OpenWorld
  <2>3. CASE \E l \in Lsids, p \in Peers : JoinWorld(l, p)
    BY <1>2, <2>3 DEF JoinWorld
  <2>4. CASE \E l \in Lsids : CloseWorld(l)
    BY <2>4 DEF CloseWorld
  <2>5. CASE Application
    <3>1. CASE \E l \in Lsids, p \in Peers, s \in Sessions :
                 Exposed(l) /\ (AcceptSessionCall(l, p, s) \/ DeclineSessionCall(l, p, s))
      BY <2>1, <3>1 DEF AcceptSessionCall, DeclineSessionCall, Call
    <3> QED BY <2>2, <2>3, <2>4, <2>5, <3>1 DEF Application
  <2>6. CASE Connections
    BY <2>1, <2>6 DEF Connections, PeerConnected, PeerClose
  <2>7. CASE Timers
    BY <2>1, <2>7 DEF Timers, TimerExpireCall, Call
  <2>8. CASE Resets
    BY <2>1, <2>8 DEF Resets, ReceiveRSTAll
  <2>9. CASE Messages
    BY <2>1, <2>9 DEF Messages, Call, ReceiveJDN, ReceiveRST, ReceiveJN, ReceiveMEM, ReceiveSOA,
       ReceiveSOD, ReceiveJNI, ReceiveJOK, ReceiveSJN, ReceiveCRR
  <2>10. CASE UNCHANGED vars
    BY <2>1, <2>10 DEF vars, code
  <2> QED BY <2>5, <2>6, <2>7, <2>8, <2>9, <2>10 DEF Next
<1> QED BY <1>1, <1>2, <1>3, <1>4

\* An event that was in order stays in order.
LEMMA EventStable ==
    ASSUME IInv, [Next]_vars, NEW e, e.lsid \in Lsids, EventOK(e)
    PROVE  EventOK(e)'
  BY StableLemma DEF EventOK

\* A call of AND pushes its events, and then those of last.
LEMMA EmitStep ==
    ASSUME HInv, [Next]_vars, NEW F, NEW last \in Seq(HostEvents), NEW r, Pushable(F, told', r),
           Emit(F, last), Leads(last, Mid(told', r), Due'),
           \A l \in Lsids : r[l] # "none" => result'[l] = r[l],
           \A m \in DOMAIN last : EventOK(last[m])'
    PROVE  /\ eventCh' \in Seq(HostEvents)
           /\ (\A k \in DOMAIN eventCh : EventOK(eventCh[k]))'
           /\ Leads(eventCh', Seen, Due')
           /\ \E b \in Nat : \A l \in Lsids :
                 Requests(l)' = Requests(l) \cup {b + m : m \in Wanted(last, l)}
PROOF
<1>0. IInv /\ eventCh \in Seq(HostEvents) /\ Leads(eventCh, Seen, Due)
  BY DEF HInv, HostTypeOK
<1>1. PICK order \in Visits(F) :
         /\ \A k \in DOMAIN (Pushed(F, order) \o last) : (Pushed(F, order) \o last)[k].type = "JoinSuccess" => k = 1
         /\ eventCh' = eventCh \o (Pushed(F, order) \o last)
  BY DEF Emit, Pushed
<1>20. PICK s : s = Pushed(F, order)
  OBVIOUS
<1> DEFINE u == s \o last
<1>2. order \in Seq(Raised(F)) /\ DOMAIN order = 1..Len(order) /\ Len(order) \in Nat
  BY VisitLemma
<1>3. s = [k \in 1..Len(order) |-> EventOf(F, order[k])]
  BY <1>20, <1>2 DEF Pushed
<1>4. \A o \in Raised(F) : EventOf(F, o) \in HostEvents
  <2> SUFFICES ASSUME NEW o \in Raised(F) PROVE EventOf(F, o) \in HostEvents
    OBVIOUS
  <2>1. o.lsid \in Lsids /\ o.peer \in Peers
    BY RaisedLemma
  <2>2. At1(F, o).type \in Types /\ At1(F, o).sid \in Sessions \cup {Nil}
    BY <1>0, AnswerLemma DEF Types
  <2>3. EventOf(F, o) = [type |-> At1(F, o).type, lsid |-> o.lsid, peer |-> o.peer, sid |-> At1(F, o).sid]
    BY DEF EventOf, AndEvent, At1
  <2> QED BY <2>1, <2>2, <2>3 DEF HostEvents
<1>5. s \in Seq(HostEvents) /\ Len(s) = Len(order)
  <2>1. \A k \in 1..Len(order) : EventOf(F, order[k]) \in HostEvents
    BY <1>2, <1>4
  <2> QED BY <1>2, <1>3, <2>1
<1>6. /\ Len(s) \in Nat /\ Len(last) \in Nat /\ DOMAIN s = 1..Len(s) /\ DOMAIN last = 1..Len(last)
      /\ u \in Seq(HostEvents) /\ Len(u) = Len(s) + Len(last) /\ DOMAIN u = 1..Len(s) + Len(last)
      /\ \A k \in 1..Len(s) : u[k] = s[k]
      /\ \A k \in 1..Len(last) : u[Len(s) + k] = last[k]
      /\ \A k \in 1..Len(s) + Len(last) : k \in 1..Len(s) \/ k - Len(s) \in 1..Len(last)
  <2>1. /\ Len(s) \in Nat /\ Len(last) \in Nat /\ DOMAIN s = 1..Len(s) /\ DOMAIN last = 1..Len(last)
        /\ u \in Seq(HostEvents) /\ Len(u) = Len(s) + Len(last) /\ DOMAIN u = 1..Len(s) + Len(last)
    <3>1. Len(s) \in Nat /\ Len(last) \in Nat /\ DOMAIN s = 1..Len(s) /\ DOMAIN last = 1..Len(last)
      BY <1>5
    <3>2. u \in Seq(HostEvents) /\ Len(u) = Len(s) + Len(last)
      BY <1>5
    <3> HIDE DEF u
    <3>3. DOMAIN u = 1..Len(u)
      BY <3>2
    <3> QED BY <3>1, <3>2, <3>3
  <2>2. \A k \in 1..Len(s) : u[k] = s[k]
    BY <1>5, ConcatFacts
  <2>3. \A k \in 1..Len(last) : u[Len(s) + k] = last[k]
    BY <1>5, ConcatFacts
  <2>4. \A k \in 1..Len(s) + Len(last) : k \in 1..Len(s) \/ k - Len(s) \in 1..Len(last)
    BY <2>1
  <2> QED BY <2>1, <2>2, <2>3, <2>4
<1>7. \A k \in DOMAIN order : EventOf(F, order[k]).type = "JoinSuccess" => k = 1
  <2> SUFFICES ASSUME NEW k \in DOMAIN order, EventOf(F, order[k]).type = "JoinSuccess" PROVE k = 1
    OBVIOUS
  <2>1. s[k] = EventOf(F, order[k]) /\ k \in 1..Len(s)
    BY <1>2, <1>3, <1>5
  <2>2. u[k] = s[k] /\ k \in DOMAIN u
    BY <1>6, <2>1
  <2> QED BY <1>1, <1>20, <2>1, <2>2
<1>8. /\ Leads(s, Due, Mid(told', r))
      /\ \A k \in DOMAIN s :
            LET e == s[k]
            IN  /\ e.type \in PeerEvents \cup NetEvents \cup Answers
                /\ e.type \in PeerEvents => e.lsid \in worlds /\ e.peer \in Peers /\ r[e.lsid] = "success"
                /\ e.type = "Request" => e.sid \in Sessions
                /\ e.type \in Answers =>
                      e.lsid \in worlds /\ r[e.lsid] = IF e.type = "JoinSuccess" THEN "success" ELSE "fail"
  BY <1>20, <1>0, <1>7, PushLemma
<1>9. eventCh' = eventCh \o u
  BY <1>20, <1>1
<1> HIDE DEF u
<1>21. PICK a : a = Len(eventCh)
  OBVIOUS
<1>22. PICK b : b = a + Len(s)
  OBVIOUS
<1>10. ASSUME NEW k \in DOMAIN s
       PROVE  EventOK(s[k])' /\ s[k].type # "TimerRequest"
  <2> DEFINE e == s[k]
  <2>1. /\ e.type \in PeerEvents \cup NetEvents \cup Answers
        /\ e.type \in PeerEvents => e.lsid \in worlds /\ e.peer \in Peers /\ r[e.lsid] = "success"
        /\ e.type = "Request" => e.sid \in Sessions
        /\ e.type \in Answers =>
              e.lsid \in worlds /\ r[e.lsid] = IF e.type = "JoinSuccess" THEN "success" ELSE "fail"
    BY <1>8
  <2>2. worlds \subseteq used /\ used \subseteq used' /\ worlds \subseteq Lsids
    BY <1>0, StableLemma DEF IInv, TypeOK
  <2>3. /\ e.type \in Answers => e.lsid \in used' /\ result'[e.lsid] = r[e.lsid]
        /\ e.type \in PeerEvents => result'[e.lsid] = r[e.lsid]
    BY <2>1, <2>2
  <2>4. /\ e.type # "TimerRequest"
        /\ e.type = "JoinSuccess" \/ e.type = "JoinFail" => e.type \in Answers
    BY <2>1 DEF PeerEvents, NetEvents, Answers
  <2> HIDE DEF e
  <2>5. EventOK(e)'
    BY <2>1, <2>3, <2>4 DEF EventOK
  <2> QED BY <2>4, <2>5 DEF e
<1>11. /\ a \in Nat /\ b \in Nat /\ Len(u) = Len(s) + Len(last) /\ DOMAIN eventCh = 1..a
       /\ eventCh' \in Seq(HostEvents) /\ DOMAIN eventCh' = 1..a + Len(u)
       /\ \A k \in 1..a : eventCh'[k] = eventCh[k]
       /\ \A k \in 1..Len(u) : eventCh'[a + k] = u[k]
  <2>1. /\ a \in Nat /\ DOMAIN eventCh = 1..a
        /\ eventCh' \in Seq(HostEvents) /\ DOMAIN eventCh' = 1..a + Len(u)
    <3>1. a \in Nat /\ DOMAIN eventCh = 1..a
      BY <1>21, <1>0
    <3>2. eventCh' \in Seq(HostEvents) /\ Len(eventCh') = a + Len(u)
      <4>1. u \in Seq(HostEvents) /\ eventCh \in Seq(HostEvents)
        BY <1>0, <1>6
      <4>2. eventCh \o u \in Seq(HostEvents) /\ Len(eventCh \o u) = Len(eventCh) + Len(u)
        BY <4>1, ConcatFacts
      <4> QED BY <1>9, <1>21, <4>2
    <3>3. DOMAIN eventCh' = 1..Len(eventCh')
      BY <3>2
    <3> QED BY <3>1, <3>2, <3>3
  <2>2. \A k \in 1..a : eventCh'[k] = eventCh[k]
    BY <1>21, <1>0, <1>6, <1>9, ConcatFacts
  <2>3. \A k \in 1..Len(u) : eventCh'[a + k] = u[k]
    BY <1>21, <1>0, <1>6, <1>9, ConcatFacts
  <2> QED BY <1>22, <1>6, <2>1, <2>2, <2>3
<1>12. Leads(eventCh', Seen, Due')
  <2>1. Leads(u, Due, Due')
    BY <1>5, <1>8, LeadsConcat DEF u
  <2> QED BY <1>0, <1>6, <1>9, <2>1, LeadsConcat
<1>13. /\ \A k \in 1..a : eventCh'[k] = eventCh[k]
       /\ \A k \in 1..Len(s) : eventCh'[a + k] = s[k]
       /\ \A m \in 1..Len(last) : eventCh'[b + m] = last[m] /\ b + m \in DOMAIN eventCh'
       /\ \A k \in DOMAIN eventCh' : k \in 1..a \/ k - a \in 1..Len(s) \/ k - b \in 1..Len(last)
       /\ \A k \in 1..a : k \in DOMAIN eventCh'
  <2>1. ASSUME NEW k \in 1..Len(s) PROVE eventCh'[a + k] = s[k]
    <3>1. k \in 1..Len(u)
      BY <1>6
    <3> QED BY <1>6, <1>11, <3>1
  <2>2. ASSUME NEW m \in 1..Len(last) PROVE eventCh'[b + m] = last[m] /\ b + m \in DOMAIN eventCh'
    <3>1. Len(s) + m \in 1..Len(u) /\ b + m = a + (Len(s) + m) /\ b + m \in DOMAIN eventCh'
      BY <1>22, <1>6, <1>11
    <3>2. eventCh'[a + (Len(s) + m)] = u[Len(s) + m] /\ u[Len(s) + m] = last[m]
      BY <1>6, <1>11, <3>1
    <3> QED BY <3>1, <3>2
  <2>3. ASSUME NEW k \in DOMAIN eventCh' PROVE k \in 1..a \/ k - a \in 1..Len(s) \/ k - b \in 1..Len(last)
    BY <1>22, <1>6, <1>11
  <2>4. \A k \in 1..a : k \in DOMAIN eventCh'
    BY <1>6, <1>11
  <2> QED BY <1>11, <2>1, <2>2, <2>3, <2>4
<1>14. ASSUME NEW k \in DOMAIN eventCh' PROVE EventOK(eventCh[k])'
  <2>0. b \in Nat /\ a \in Nat /\ k \in Nat
    BY <1>6, <1>11
  <2>1. CASE k \in 1..a
    <3>1. EventOK(eventCh[k]) /\ eventCh[k] \in HostEvents
      BY <1>0, <1>11, <2>1 DEF HInv
    <3>2. eventCh[k].lsid \in Lsids
      BY <3>1 DEF HostEvents
    <3> DEFINE e == eventCh[k]
    <3>3. PICK f : f = eventCh[k]
      OBVIOUS
    <3>4. EventOK(f)'
      BY <1>0, <3>1, <3>2, <3>3, EventStable
    <3>5. eventCh'[k] = f
      BY <1>13, <2>1, <3>3
    <3> QED BY <3>4, <3>5 DEF EventOK
  <2>2. CASE k - a \in 1..Len(s)
    <3>1. PICK j : j = k - a
      OBVIOUS
    <3>2. j \in 1..Len(s) /\ j \in DOMAIN s /\ a + j = k
      BY <1>6, <2>0, <2>2, <3>1
    <3>3. eventCh'[k] = s[j]
      BY <1>13, <3>2
    <3>4. EventOK(s[j])'
      BY <1>10, <3>2
    <3> QED BY <3>3, <3>4 DEF EventOK
  <2>3. CASE k - b \in 1..Len(last)
    <3>1. PICK j : j = k - b
      OBVIOUS
    <3>2. j \in 1..Len(last) /\ j \in DOMAIN last /\ b + j = k
      BY <1>6, <2>0, <2>3, <3>1
    <3>3. eventCh'[k] = last[j]
      BY <1>13, <3>2
    <3>4. EventOK(last[j])'
      BY <3>2
    <3> QED BY <3>3, <3>4 DEF EventOK
  <2> QED BY <1>13, <2>1, <2>2, <2>3
<1>15. ASSUME NEW l \in Lsids
       PROVE  Requests(l)' = Requests(l) \cup {b + m : m \in Wanted(last, l)}
  <2> DEFINE A == {k \in DOMAIN eventCh' : eventCh'[k].type = "TimerRequest" /\ eventCh'[k].lsid = l}
             B == {k \in DOMAIN eventCh : eventCh[k].type = "TimerRequest" /\ eventCh[k].lsid = l}
             C == {b + m : m \in Wanted(last, l)}
  <2>0. b \in Nat /\ a \in Nat /\ DOMAIN last = 1..Len(last) /\ DOMAIN eventCh = 1..a
    BY <1>6, <1>11
  <2>1. ASSUME NEW k \in A PROVE k \in B \cup C
    <3>1. CASE k \in 1..a
      BY <1>13, <2>0, <2>1, <3>1
    <3>2. CASE k - a \in 1..Len(s)
      <4>1. eventCh'[a + (k - a)] = s[k - a] /\ a + (k - a) = k
        BY <1>11, <1>13, <2>0, <3>2
      <4>2. s[k - a].type # "TimerRequest"
        BY <1>6, <1>10, <3>2
      <4> QED BY <2>1, <4>1, <4>2
    <3>3. CASE k - b \in 1..Len(last)
      <4>1. eventCh'[b + (k - b)] = last[k - b] /\ b + (k - b) = k
        BY <1>11, <1>13, <2>0, <3>3
      <4>2. k - b \in Wanted(last, l)
        BY <2>0, <2>1, <3>3, <4>1 DEF Wanted
      <4> QED BY <4>1, <4>2
    <3> QED BY <1>13, <3>1, <3>2, <3>3
  <2>2. ASSUME NEW k \in B PROVE k \in A
    BY <1>13, <2>0, <2>2
  <2>3. ASSUME NEW k \in C PROVE k \in A
    <3>1. PICK m \in Wanted(last, l) : k = b + m
      BY <2>3
    <3>2. m \in 1..Len(last) /\ last[m].type = "TimerRequest" /\ last[m].lsid = l
      BY <2>0, <3>1 DEF Wanted
    <3> QED BY <1>13, <3>1, <3>2
  <2> HIDE DEF A, B, C
  <2>4. A = B \cup C
    BY <2>1, <2>2, <2>3
  <2> QED BY <2>4 DEF A, B, C, Requests
<1> QED BY <1>11, <1>12, <1>14, <1>15

\* What follows the events of a call: nothing, the end of the world, the request
\* for the next timer, or the success of opening the world and its first timer.
LEMMA LastLemma ==
    ASSUME IInv, IInv', NEW l \in Lsids
    PROVE  /\ UNCHANGED <<worlds, used>> =>
                 /\ Leads(<<>>, Mid(told', result'), Due')
                 /\ Leads(<<AndEvent("TimerRequest", l, Nil, Nil)>>, Mid(told', result'), Due')
           /\ worlds' = worlds \ {l} /\ used' = used =>
                 Leads(<<AndEvent("WorldLeave", l, Nil, Nil)>>, Mid(told', result'), Due')
           /\ worlds' = worlds \cup {l} /\ used' = used \cup {l} /\ l \notin used =>
                 /\ result' = result => Leads(<<>>, Mid(told', result), Due')
                 /\ result' = [result EXCEPT ![l] = "success"] =>
                       Leads(<<AndEvent("JoinSuccess", l, Nil, Nil), AndEvent("TimerRequest", l, Nil, Nil)>>,
                             Mid(told', result), Due')
PROOF
<1> DEFINE timer == AndEvent("TimerRequest", l, Nil, Nil)
           leave == AndEvent("WorldLeave", l, Nil, Nil)
           joined == AndEvent("JoinSuccess", l, Nil, Nil)
<1>1. /\ timer.type = "TimerRequest" /\ leave.type = "WorldLeave" /\ joined.type = "JoinSuccess"
      /\ leave.lsid = l /\ joined.lsid = l
  BY DEF AndEvent
<1>2. /\ "TimerRequest" \notin PeerEvents \cup Answers /\ "WorldLeave" \notin PeerEvents \cup Answers
      /\ "JoinSuccess" \in Answers /\ "JoinSuccess" \notin PeerEvents
  BY DEF PeerEvents, Answers
<1>3. /\ used \subseteq Lsids /\ worlds \subseteq used
      /\ \A k \in Lsids : k \notin used => result[k] = "none" /\ k \notin worlds
      /\ result \in [Lsids -> {"none", "success", "fail", "twice"}]
  BY DEF IInv, TypeOK, WorldOK
<1>4. Due' = [w |-> [k \in Lsids |-> Standing(k \in worlds', result'[k])],
              v |-> told', a |-> {k \in used' : result'[k] # "none"}]
  BY DEF Due, Standing
<1> HIDE DEF timer, leave, joined
<1>5. ASSUME NEW T, NEW r PROVE Leads(<<timer>>, Mid(T, r), Mid(T, r))
  <2>1. Handled(Mid(T, r), timer)
    BY <1>1, <1>2 DEF Handled
  <2>2. After(Mid(T, r), timer) = Mid(T, r)
    BY <1>1, <1>2 DEF After, Mid
  <2> QED BY <2>1, <2>2, LeadsShort
<1>6. ASSUME UNCHANGED <<worlds, used>>
      PROVE  Leads(<<>>, Mid(told', result'), Due') /\ Leads(<<timer>>, Mid(told', result'), Due')
  <2>1. Mid(told', result') = Due'
    BY <1>4, <1>6 DEF Mid
  <2> QED BY <1>5, <2>1, LeadsShort
<1>7. ASSUME worlds' = worlds \ {l}, used' = used
      PROVE  Leads(<<leave>>, Mid(told', result'), Due')
  <2> DEFINE x == Mid(told', result')
  <2>1. Handled(x, leave)
    BY <1>1, <1>2 DEF Handled
  <2>2. After(x, leave) = [w |-> [x.w EXCEPT ![l] = "absent"], v |-> x.v, a |-> x.a]
    BY <1>1, <1>2 DEF After
  <2>3. [x.w EXCEPT ![l] = "absent"] = [k \in Lsids |-> Standing(k \in worlds', result'[k])]
    <3>1. x.w = [k \in Lsids |-> Standing(k \in worlds, result'[k])]
      BY DEF Mid
    <3>2. \A k \in Lsids : Standing(k \in worlds', result'[k]) =
                              IF k = l THEN "absent" ELSE Standing(k \in worlds, result'[k])
      BY <1>7 DEF Standing
    <3> QED BY <3>1, <3>2
  <2>4. x.v = told' /\ x.a = {k \in used' : result'[k] # "none"}
    BY <1>7 DEF Mid
  <2>5. After(x, leave) = Due'
    BY <1>4, <2>2, <2>3, <2>4
  <2> HIDE DEF x
  <2>6. Leads(<<leave>>, x, Due')
    BY <2>1, <2>5, LeadsShort
  <2> QED BY <2>6 DEF x
<1>8. ASSUME worlds' = worlds \cup {l}, used' = used \cup {l}, l \notin used, result' = result
      PROVE  Leads(<<>>, Mid(told', result), Due')
  <2>1. \A k \in Lsids : Standing(k \in worlds', result'[k]) = Standing(k \in worlds, result[k])
    BY <1>3, <1>8 DEF Standing
  <2>2. {k \in used' : result'[k] # "none"} = {k \in used : result[k] # "none"}
    BY <1>3, <1>8
  <2>3. Mid(told', result) = Due'
    BY <1>4, <2>1, <2>2 DEF Mid
  <2> QED BY <2>3, LeadsShort
<1>9. ASSUME worlds' = worlds \cup {l}, used' = used \cup {l}, l \notin used,
             result' = [result EXCEPT ![l] = "success"]
      PROVE  Leads(<<joined, timer>>, Mid(told', result), Due')
  <2> DEFINE x == Mid(told', result)
             y == Mid(told', result')
  <2>1. Handled(x, joined)
    BY <1>1, <1>2, <1>9 DEF Handled, Mid
  <2>2. After(x, joined) = [w |-> [x.w EXCEPT ![l] = "live"], v |-> x.v, a |-> x.a \cup {l}]
    BY <1>1, <1>2 DEF After
  <2>3. [x.w EXCEPT ![l] = "live"] = [k \in Lsids |-> Standing(k \in worlds', result'[k])]
    <3>1. x.w = [k \in Lsids |-> Standing(k \in worlds, result[k])]
      BY DEF Mid
    <3>2. \A k \in Lsids : Standing(k \in worlds', result'[k]) =
                              IF k = l THEN "live" ELSE Standing(k \in worlds, result[k])
      BY <1>3, <1>9 DEF Standing
    <3> QED BY <3>1, <3>2
  <2>4. x.v = told' /\ x.a \cup {l} = {k \in used' : result'[k] # "none"}
    BY <1>3, <1>9 DEF Mid
  <2>5. After(x, joined) = Due'
    BY <1>4, <2>2, <2>3, <2>4
  <2>6. Handled(Due', timer) /\ After(Due', timer) = Due'
    BY <1>1, <1>2, <1>4 DEF Handled, After
  <2> HIDE DEF x
  <2>7. Leads(<<joined>>, x, Due') /\ Leads(<<timer>>, Due', Due')
    BY <2>1, <2>5, <2>6, LeadsShort
  <2>8. Leads(<<joined>> \o <<timer>>, x, Due')
    <3>1. <<joined>> \in Seq({joined, timer}) /\ <<timer>> \in Seq({joined, timer})
      OBVIOUS
    <3> QED BY <2>7, <3>1, LeadsConcat
  <2>9. <<joined>> \o <<timer>> = <<joined, timer>>
    BY ConcatLemma
  <2> QED BY <2>8, <2>9 DEF x
<1> QED BY <1>6, <1>7, <1>8, <1>9 DEF timer, leave, joined

\* The host keeps to what AND assumes of its environment.
LEMMA Drives ==
    ASSUME HInv, HostNext
    PROVE  [Next]_vars
PROOF
<1>1. /\ fault = "none" /\ peers[Local] \subseteq Peers /\ serving \subseteq peers[Local]
      /\ pathMap \in [Paths -> Lsids \cup {Nil}] /\ timers \in [Lsids -> {0, 1}]
      /\ offers \subseteq [lsid : Lsids, peer : Peers, sid : Sessions]
  BY LocalAssumption DEF HostNext, HInv, HostTypeOK, IInv, TypeOK
<1>2. ASSUME NEW l \in Lsids, Leave(l) PROVE [Next]_vars
  BY <1>1, <1>2 DEF Leave, Next, Application
<1>3. CASE Callers
  <2>1. PICK l \in Lsids :
           \/ HostOpenWorld(l)
           \/ \E target \in Peers : HostJoinWorld(l, target)
           \/ OpenReturn(l)
           \/ JoinReturn(l)
           \/ ContextDone(l)
           \/ WatchdogCloses(l)
           \/ WatchdogReturns(l)
           \/ LeaveWorld(l)
           \/ TimerFires(l)
           \/ \E path \in Paths : TrySetMapping(path, l)
    BY <1>3 DEF Callers
  <2>2. CASE HostOpenWorld(l)
    BY <1>1, <2>2 DEF HostOpenWorld, Next, Application
  <2>3. CASE \E target \in Peers : HostJoinWorld(l, target)
    BY <1>1, <2>3 DEF HostJoinWorld, Next, Application
  <2>4. CASE WatchdogCloses(l) \/ LeaveWorld(l)
    BY <1>2, <2>4 DEF WatchdogCloses, LeaveWorld
  <2>5. CASE TimerFires(l)
    <3>1. join_hash[l] = Nil
      <4>1. timers[l] = 1
        BY <1>1, <2>5 DEF TimerFires
      <4> QED BY <4>1 DEF HInv, TimerChain
    <3> QED BY <1>1, <2>5, <3>1 DEF TimerFires, Next, Timers
  <2>6. CASE OpenReturn(l) \/ JoinReturn(l) \/ ContextDone(l) \/ WatchdogReturns(l)
             \/ \E path \in Paths : TrySetMapping(path, l)
    BY <2>6 DEF OpenReturn, JoinReturn, ContextDone, WatchdogReturns, TrySetMapping
  <2> QED BY <2>1, <2>2, <2>3, <2>4, <2>5, <2>6
<1>4. CASE Members
  <2>1. PICK o \in offers : Accept(o) \/ Decline(o)
    BY <1>4 DEF Members
  <2>2. o.lsid \in Lsids /\ o.peer \in Peers /\ o.sid \in Sessions
    BY <1>1
  <2>3. Exposed(o.lsid)
    BY DEF HInv, Joined, Exposed
  <2> QED BY <1>1, <2>1, <2>2, <2>3 DEF Accept, Decline, Next, Application
<1>5. CASE Network
  <2>1. PICK p \in Peers : ServeStart(p) \/ ServeStop(p) \/ Serve(p)
    BY <1>5 DEF Network
  <2>2. CASE ServeStart(p)
    BY <1>1, <2>2, LocalAssumption DEF ServeStart, Next, Connections
  <2>3. CASE ServeStop(p)
    BY <2>3 DEF ServeStop
  <2>4. CASE Serve(p)
    <3>1. p \in peers[Local] /\ \A l \in Lsids : PeersOf(l) = peers[Local]
      BY <1>1, <2>4, OneHost DEF Serve
    <3>2. CASE ReceiveRSTAll(Local, p)
      BY <1>1, <3>1, <3>2, LocalAssumption DEF Next, Resets
    <3>3. CASE \E path \in Paths, s \in Sessions :
                  PathToSessionID(path) # Nil /\ ReceiveJN(PathToSessionID(path), p, s)
      <4>1. PICK path \in Paths, s \in Sessions : pathMap[path] # Nil /\ ReceiveJN(pathMap[path], p, s)
        BY <3>3 DEF PathToSessionID
      <4>2. pathMap[path] \in Lsids
        BY <1>1, <4>1
      <4>3. Exposed(pathMap[path])
        BY <4>1 DEF HInv, Joined, Exposed
      <4> QED BY <1>1, <3>1, <4>1, <4>2, <4>3 DEF Next, Messages
    <3>4. CASE \E l \in Lsids :
                  \/ ReceiveJDN(l, p)
                  \/ ReceiveRST(l, p)
                  \/ \E s \in Sessions :
                        \/ ReceiveMEM(l, p, s)
                        \/ ReceiveSOA(l, p, s)
                        \/ ReceiveSOD(l, p, s)
                        \/ \E q \in Peers, t \in Sessions : ReceiveJNI(l, p, s, q, t)
                        \/ \E mems \in ListsOf(p) :
                              \/ ~Exposed(l) /\ ReceiveJOK(l, p, s, mems)
                              \/ ReceiveSJN(l, p, s, mems)
                              \/ ReceiveCRR(l, p, s, mems)
      BY <1>1, <3>1, <3>4 DEF Next, Messages
    <3> QED BY <2>4, <3>2, <3>3, <3>4 DEF Serve
  <2> QED BY <2>1, <2>2, <2>3, <2>4
<1>6. CASE EventLoop \/ \E path \in Paths : DeleteMapping(path)
  BY <1>6 DEF EventLoop, DeleteMapping
<1> QED BY <1>3, <1>4, <1>5, <1>6 DEF HostNext

-----------------------------------------------------------------------------
(* Steps of the host *)

\* The events on their way after a step in which the event loop rests.
Pushes ==
    /\ eventCh' \in Seq(HostEvents)
    /\ (\A k \in DOMAIN eventCh : EventOK(eventCh[k]))'
    /\ Leads(eventCh', Seen, Due')

\* Steps of the callers, of the serve loops and of the timers.
LEMMA FrameLemma ==
    ASSUME HInv, [Next]_vars, Pushes,
           UNCHANGED <<hworlds, view, active, offers>>, dead' = dead,
           used' \ join_queue' = used \ join_queue, join_queue' \subseteq used',
           join_res' \in [Lsids -> {"none", "ok", "fail"}],
           api' \in [Lsids -> {"none", "opening", "joining", "held", "failed", "left"}],
           serving' \subseteq peers'[Local],
           pathMap' \in [Paths -> Lsids \cup {Nil}],
           timers' \in [Lsids -> {0, 1}],
           \A l \in Lsids : api'[l] \in {"opening", "held", "left"} => result'[l] = "success",
           \A l \in Lsids : join_res'[l] # "none" => join_res'[l] = join_res[l],
           \A path \in Paths : pathMap'[path] # Nil => result'[pathMap'[path]] = "success",
           \A l \in Lsids : TimerChain(l)'
    PROVE  HInv'
PROOF
<1>1. /\ IInv' /\ used \subseteq used'
      /\ \A l \in Lsids : result[l] # "none" => result'[l] = result[l]
      /\ \A l \in Lsids : l \notin used' => join_hash'[l] = join_hash[l]
  BY StableLemma DEF HInv
<1>2. HostTypeOK /\ EventLoopSurvives /\ Joined
  BY DEF HInv
<1>3. HostTypeOK'
  BY <1>2 DEF HostTypeOK, Pushes
<1>4. EventLoopSurvives'
  BY <1>2 DEF EventLoopSurvives
<1>5. Joined'
  <2>1. ASSUME NEW l \in Lsids
        PROVE  /\ join_res'[l] = "ok" => result'[l] = "success"
               /\ join_res'[l] = "fail" => result'[l] = "fail"
               /\ join_res'[l] # "none" => l \in used' \ join_queue'
               /\ l \notin used' => join_hash'[l] = Nil
    BY <1>1, <1>2 DEF Joined
  <2>2. \A o \in offers' : result'[o.lsid] = "success"
    <3> SUFFICES ASSUME NEW o \in offers PROVE result'[o.lsid] = "success"
      OBVIOUS
    <3>1. o.lsid \in Lsids /\ result[o.lsid] = "success"
      BY <1>2 DEF Joined, HostTypeOK
    <3> QED BY <1>1, <3>1
  <2> QED BY <2>1, <2>2 DEF Joined
<1>6. Leads(eventCh, Seen, Due)'
  <2>1. Seen' = Seen
    BY DEF Seen
  <2> QED BY <2>1 DEF Pushes
<1>7. \A p \in Peers : active'[p] = Cardinality(ReadyIn(p))'
  BY DEF HInv, ReadyIn
<1> QED BY <1>1, <1>3, <1>4, <1>5, <1>6, <1>7 DEF HInv, Pushes

\* The timers of the worlds when none fires and none is requested.
LEMMA TimersRest ==
    ASSUME HInv, [Next]_vars, NEW l \in Lsids, timers'[l] = timers[l],
           l \in worlds' => l \in worlds, Requests(l)' = Requests(l)
    PROVE  TimerChain(l)'
PROOF
<1>1. /\ TimerChain(l) /\ used \subseteq used' /\ worlds \subseteq used
      /\ \A k \in used : join_hash'[k] = join_hash[k]
  BY StableLemma DEF HInv, IInv, TypeOK
<1> QED BY <1>1 DEF TimerChain

\* Steps that leave AND and the events alone.
LEMMA QuietLemma ==
    ASSUME HInv, UNCHANGED vars, Quietly
    PROVE  /\ Pushes
           /\ timers' = timers => \A l \in Lsids : TimerChain(l)'
           /\ UNCHANGED <<peers, worlds, used, result>>
PROOF
<1>1. /\ UNCHANGED <<peers, worlds, used, join_hash, told, result>> /\ eventCh' = eventCh
      /\ eventCh \in Seq(HostEvents) /\ Leads(eventCh, Seen, Due)
      /\ \A k \in DOMAIN eventCh : EventOK(eventCh[k])
      /\ \A l \in Lsids : TimerChain(l)
  BY DEF vars, code, history, Quietly, HInv, HostTypeOK
<1>2. Due' = Due
  BY <1>1 DEF Due, Standing
<1>3. (\A k \in DOMAIN eventCh : EventOK(eventCh[k]))'
  BY <1>1 DEF EventOK
<1>4. ASSUME timers' = timers PROVE \A l \in Lsids : TimerChain(l)'
  BY <1>1, <1>4 DEF TimerChain, Requests
<1> QED BY <1>1, <1>2, <1>3, <1>4 DEF Pushes

\* Calls of AND by the application and by the serve loops.
LEMMA CallStep ==
    ASSUME HInv, [Next]_vars, NEW F, Pushable(F, told', result'), Emit(F, <<>>),
           UNCHANGED <<worlds, used, calls, app, pathMap, dead>>, serving' \subseteq peers'[Local]
    PROVE  HInv'
PROOF
<1> DEFINE s == <<>>
<1>1. s \in Seq(HostEvents) /\ DOMAIN s = {}
  OBVIOUS
<1>2. /\ IInv /\ IInv' /\ HostTypeOK /\ Joined
      /\ \A l \in Lsids : result[l] # "none" => result'[l] = result[l]
  BY StableLemma DEF HInv
<1>3. Leads(s, Mid(told', result'), Due')
  <2>1. CASE Lsids = {}
    <3>1. Mid(told', result') = Due'
      BY <2>1 DEF Mid, Due
    <3> QED BY <3>1, LeadsShort
  <2>2. CASE Lsids # {}
    BY <1>2, <2>2, LastLemma
  <2> QED BY <2>1, <2>2
<1>4. \A l \in Lsids : Wanted(s, l) = {}
  BY <1>1 DEF Wanted
<1> HIDE DEF s
<1>5. Emit(F, s)
  BY DEF s
<1>6. \A m \in DOMAIN s : EventOK(s[m])'
  BY <1>1
<1>7. /\ Pushes
      /\ \E b \in Nat : \A l \in Lsids : Requests(l)' = Requests(l) \cup {b + m : m \in Wanted(s, l)}
  BY <1>1, <1>3, <1>5, <1>6, EmitStep DEF Pushes
<1>8. \A l \in Lsids : Requests(l)' = Requests(l)
  BY <1>4, <1>7
<1>9. /\ timers' = timers /\ join_res' = join_res /\ join_queue' = join_queue /\ api' = api
      /\ UNCHANGED <<hworlds, view, active, offers>>
  BY DEF calls, app
<1>10. \A l \in Lsids : TimerChain(l)'
  BY <1>8, <1>9, TimersRest
<1>11. /\ \A l \in Lsids : api'[l] \in {"opening", "held", "left"} => result'[l] = "success"
       /\ \A path \in Paths : pathMap'[path] # Nil => result'[pathMap'[path]] = "success"
  <2>1. ASSUME NEW path \in Paths, pathMap[path] # Nil PROVE result'[pathMap[path]] = "success"
    <3>1. pathMap[path] \in Lsids /\ result[pathMap[path]] = "success"
      BY <1>2, <2>1 DEF HostTypeOK, Joined
    <3> QED BY <1>2, <3>1
  <2> QED BY <1>2, <1>9, <2>1 DEF Joined
<1> QED BY <1>2, <1>7, <1>9, <1>10, <1>11, FrameLemma DEF HostTypeOK

\* A call for one world, without a last event.
LEMMA OneWorldStep ==
    ASSUME HInv, [Next]_vars, NEW l, NEW fx, Call(l, fx), WTidy(World(l), fx), EmitOn(l, fx, <<>>),
           UNCHANGED <<calls, app, net, dead>>
    PROVE  HInv'
PROOF
<1>1. IInv /\ IInv' /\ serving \subseteq peers[Local]
  BY NextLemma DEF HInv, HostTypeOK
<1>2. /\ l \in worlds /\ Apply(OnWorld(l, fx)) /\ result' = [result EXCEPT ![l] = Outcome(@, fx)]
      /\ UNCHANGED <<peers, worlds, used>>
  BY DEF Call
<1>3. Pushable(OnWorld(l, fx), told', result')
  BY <1>1, <1>2, CallPushable
<1> QED BY <1>1, <1>2, <1>3, CallStep DEF EmitOn, net

\* The worlds that the handlers work on.
LEMMA WorldTyped ==
    ASSUME IInv, NEW l \in Lsids
    PROVE  \A q \in Peers : World(l).peers[q] \in Info /\ World(l).peers[q] = entry[l][q]
  BY DEF IInv, TypeOK, World

\* The application answers a request.
LEMMA MembersStep ==
    ASSUME HInv, [Next]_vars, NEW o \in offers, Accept(o) \/ Decline(o)
    PROVE  HInv'
PROOF
<1>1. IInv /\ o.lsid \in Lsids /\ o.peer \in Peers /\ o.sid \in Sessions
  BY DEF HInv, HostTypeOK
<1>2. /\ WTidy(World(o.lsid), AcceptSession(World(o.lsid), o.peer, o.sid))
      /\ WTidy(World(o.lsid), DeclineSession(World(o.lsid), o.peer, o.sid))
  BY <1>1, WorldTyped, HandlersTidy
<1> QED BY <1>2, OneWorldStep DEF Accept, Decline, AcceptSessionCall, DeclineSessionCall

\* A peer connects.
LEMMA ServeStartStep ==
    ASSUME HInv, [Next]_vars, NEW p \in Peers, ServeStart(p)
    PROVE  HInv'
PROOF
<1> DEFINE fx == [l \in Lsids |-> At(World(l), p, ConnectPeer(entry[l][p]))]
<1>1. IInv /\ IInv' /\ serving \subseteq peers[Local] /\ worlds \subseteq Lsids
  BY NextLemma DEF HInv, HostTypeOK, IInv, TypeOK
<1>2. /\ p \notin peers[Local] /\ peers' = [peers EXCEPT ![Local] = @ \cup {p}] /\ Apply(OnWorlds(Local, fx)) /\ Emit(OnWorlds(Local, fx), <<>>)
      /\ UNCHANGED <<worlds, used, result, calls, app, pathMap, dead>> /\ serving' = serving \cup {p}
  BY DEF ServeStart, PeerConnected
<1>3. ASSUME NEW l \in worlds
      PROVE  /\ WTidy(World(l), fx[l]) /\ fx[l] = At(World(l), p, ConnectPeer(entry[l][p]))
             /\ entry[l][p].state # "JT" /\ ConnectPeer(entry[l][p]).ev \in {<<>>, <<Event("Request", entry[l][p].sid)>>}
  <2>1. /\ World(l).peers[p] = entry[l][p] /\ l \in Lsids
        /\ \A q \in Peers : World(l).peers[q] \in Info
    BY <1>1, WorldTyped
  <2>2. entry[l][p].state = "DC_JNI" => entry[l][p].sid # Nil
    BY <1>1, <2>1 DEF IInv, EntryOK
  <2>3. entry[l][p].state \notin Connected
    BY <1>1, <1>2, <2>1, OneHost DEF IInv, WorldOK
  <2>4. ConnectPeer(entry[l][p]).ev \in {<<>>, <<Event("Request", entry[l][p].sid)>>}
    BY DEF ConnectPeer, Keep, Effect, Fault
  <2> QED BY <2>1, <2>2, <2>3, <2>4, HandlersTidy DEF Connected
<1>4. ASSUME NEW l \in Lsids PROVE Outcome(result[l], OnWorlds(Local, fx)[l]) = result[l]
  <2>1. \A q \in Peers : OnWorlds(Local, fx)[l][q].ev \in {<<>>, <<Event("Request", entry[l][p].sid)>>}
    <3>1. CASE l \in worlds
      <4>1. OnWorlds(Local, fx)[l] = At(World(l), p, ConnectPeer(entry[l][p]))
        BY <1>3, <3>1, OneHost DEF OnWorlds
      <4>2. \A q \in Peers : q # p => At(World(l), p, ConnectPeer(entry[l][p]))[q].ev = <<>>
        BY DEF At, Keep, Effect
      <4>3. At(World(l), p, ConnectPeer(entry[l][p]))[p] = ConnectPeer(entry[l][p])
        BY DEF At
      <4> QED BY <1>3, <3>1, <4>1, <4>2, <4>3
    <3>2. CASE l \notin worlds
      BY <3>2 DEF OnWorlds, Keep, Effect
    <3> QED BY <3>1, <3>2
  <2>2. \A q \in Peers : \A n \in DOMAIN OnWorlds(Local, fx)[l][q].ev : OnWorlds(Local, fx)[l][q].ev[n].type \notin Answers
    <3> DEFINE c == <<Event("Request", entry[l][p].sid)>>
    <3>1. DOMAIN c = {1} /\ c[1].type = "Request"
      BY DEF Event
    <3>2. \A n : n \notin DOMAIN <<>>
      OBVIOUS
    <3>3. "Request" \notin Answers
      BY DEF Answers
    <3> HIDE DEF c, fx
    <3> QED BY <2>1, <3>1, <3>2, <3>3 DEF c
  <2> QED BY <2>2, NoAnswer
<1>5. \A l \in Lsids : result'[l] = Outcome(result[l], OnWorlds(Local, fx)[l])
  BY <1>2, <1>4
<1> HIDE DEF fx
<1>6. Pushable(OnWorlds(Local, fx), told', result')
  BY <1>1, <1>2, <1>3, <1>5, LoopPushable
<1>7. serving' \subseteq peers'[Local]
  BY <1>1, <1>2, LocalAssumption DEF IInv, TypeOK
<1> QED BY <1>1, <1>2, <1>6, <1>7, CallStep

\* A serve loop handles a message.
LEMMA ServeStep ==
    ASSUME HInv, [Next]_vars, NEW p \in Peers, Serve(p)
    PROVE  HInv'
PROOF
<1>1. IInv /\ IInv' /\ serving \subseteq peers[Local] /\ worlds \subseteq Lsids /\ UNCHANGED <<calls, app, net, dead>>
  BY NextLemma DEF HInv, HostTypeOK, IInv, TypeOK, Serve
<1>2. ASSUME NEW l \in Lsids
      PROVE  /\ WTidy(World(l), RST(World(l), p)) /\ WTidy(World(l), JDN(World(l), p))
             /\ \A s \in Sessions :
                   /\ WTidy(World(l), JN(World(l), p, s)) /\ WTidy(World(l), MEM(World(l), p, s))
                   /\ WTidy(World(l), SOA(World(l), p, s)) /\ WTidy(World(l), SOD(World(l), p, s))
                   /\ \A q \in Peers, t \in Sessions : WTidy(World(l), JNI(World(l), p, s, q, t))
                   /\ \A mems \in ListsOf(p) : /\ WTidy(World(l), JOK(World(l), p, s, mems))
                                               /\ WTidy(World(l), SJN(World(l), p, s, mems))
                                               /\ WTidy(World(l), CRR(World(l), p, s, mems))
  <2>1. \A q \in Peers : World(l).peers[q] \in Info
    BY <1>1, WorldTyped
  <2> QED BY <2>1, HandlersTidy, ListHandlersTidy
<1>3. CASE ReceiveRSTAll(Local, p) /\ Emit(OnWorlds(Local, [l \in Lsids |-> RST(World(l), p)]), <<>>)
  <2> DEFINE fx == [l \in Lsids |-> RST(World(l), p)]
  <2>1. /\ Apply(OnWorlds(Local, fx)) /\ \A l \in Lsids : result'[l] = Outcome(result[l], OnWorlds(Local, fx)[l])
        /\ UNCHANGED <<peers, worlds, used>>
    BY <1>3 DEF ReceiveRSTAll
  <2>2. \A l \in worlds : WTidy(World(l), fx[l])
    BY <1>1, <1>2
  <2>3. Emit(OnWorlds(Local, fx), <<>>)
    BY <1>3
  <2> HIDE DEF fx
  <2>4. Pushable(OnWorlds(Local, fx), told', result')
    BY <1>1, <2>1, <2>2, LoopPushable
  <2> QED BY <1>1, <2>1, <2>3, <2>4, CallStep DEF net
<1>4. CASE \E path \in Paths, s \in Sessions :
              LET l == PathToSessionID(path)
              IN  l # Nil /\ ReceiveJN(l, p, s) /\ EmitOn(l, JN(World(l), p, s), <<>>)
  <2>1. PICK path \in Paths, s \in Sessions :
           LET l == PathToSessionID(path)
           IN  l # Nil /\ ReceiveJN(l, p, s) /\ EmitOn(l, JN(World(l), p, s), <<>>)
    BY <1>4
  <2>2. pathMap[path] \in Lsids
    BY <2>1 DEF HInv, HostTypeOK, PathToSessionID
  <2> QED BY <1>1, <1>2, <2>1, <2>2, OneWorldStep DEF PathToSessionID, ReceiveJN
<1>5. ASSUME NEW l \in Lsids,
             \/ ReceiveJDN(l, p) /\ EmitOn(l, JDN(World(l), p), <<>>)
             \/ ReceiveRST(l, p) /\ EmitOn(l, RST(World(l), p), <<>>)
      PROVE  HInv'
  BY <1>1, <1>2, <1>5, OneWorldStep DEF ReceiveJDN, ReceiveRST
<1>6. ASSUME NEW l \in Lsids, NEW s \in Sessions,
             \/ ReceiveMEM(l, p, s) /\ EmitOn(l, MEM(World(l), p, s), <<>>)
             \/ ReceiveSOA(l, p, s) /\ EmitOn(l, SOA(World(l), p, s), <<>>)
             \/ ReceiveSOD(l, p, s) /\ EmitOn(l, SOD(World(l), p, s), <<>>)
      PROVE  HInv'
  BY <1>1, <1>2, <1>6, OneWorldStep DEF ReceiveMEM, ReceiveSOA, ReceiveSOD
<1>7. ASSUME NEW l \in Lsids, NEW s \in Sessions, NEW q \in Peers, NEW t \in Sessions,
             ReceiveJNI(l, p, s, q, t), EmitOn(l, JNI(World(l), p, s, q, t), <<>>)
      PROVE  HInv'
  BY <1>1, <1>2, <1>7, OneWorldStep DEF ReceiveJNI
<1>8. ASSUME NEW l \in Lsids, NEW s \in Sessions, NEW mems \in ListsOf(p),
             \/ ReceiveJOK(l, p, s, mems) /\ EmitOn(l, JOK(World(l), p, s, mems), <<>>)
             \/ ReceiveSJN(l, p, s, mems) /\ EmitOn(l, SJN(World(l), p, s, mems), <<>>)
             \/ ReceiveCRR(l, p, s, mems) /\ EmitOn(l, CRR(World(l), p, s, mems), <<>>)
      PROVE  HInv'
  BY <1>1, <1>2, <1>8, OneWorldStep DEF ReceiveJOK, ReceiveSJN, ReceiveCRR
<1> QED BY <1>3, <1>4, <1>5, <1>6, <1>7, <1>8 DEF Serve

\* Callers that get their result, contexts, watchdogs, the paths and the end of
\* a serve loop.
LEMMA QuietSteps ==
    ASSUME HInv, NEW l, NEW path, NEW p,
           \/ l \in Lsids /\ (OpenReturn(l) \/ JoinReturn(l))
           \/ ContextDone(l) \/ WatchdogReturns(l)
           \/ path \in Paths /\ ((l \in Lsids /\ TrySetMapping(path, l)) \/ DeleteMapping(path))
           \/ ServeStop(p)
    PROVE  HInv'
PROOF
<1>1. UNCHANGED vars /\ Quietly /\ [Next]_vars /\ timers' = timers /\ UNCHANGED <<hworlds, view, active, offers>>
  BY DEF OpenReturn, JoinReturn, ContextDone, WatchdogReturns, TrySetMapping, DeleteMapping, ServeStop, app
<1>2. /\ Pushes /\ \A k \in Lsids : TimerChain(k)'
      /\ UNCHANGED <<peers, worlds, used, result>>
  BY <1>1, QuietLemma
<1>3. HostTypeOK /\ Joined /\ join_queue' = join_queue
  BY DEF HInv, OpenReturn, JoinReturn, ContextDone, WatchdogReturns, TrySetMapping, DeleteMapping, ServeStop, calls
<1>4. CASE l \in Lsids /\ (OpenReturn(l) \/ JoinReturn(l))
  <2>1. /\ join_res[l] # "none" /\ join_res' = [join_res EXCEPT ![l] = "none"]
        /\ UNCHANGED <<serving, pathMap>>
        /\ api[l] \in {"opening", "joining"}
        /\ api' = [api EXCEPT ![l] = IF api[l] = "opening" \/ join_res[l] = "ok" THEN "held" ELSE "failed"]
        /\ (api[l] = "opening" /\ join_res[l] # "ok") \/ dead' = dead
    BY <1>4 DEF OpenReturn, JoinReturn, net
  <2>2. join_res[l] \in {"ok", "fail"}
    BY <1>3, <1>4, <2>1 DEF HostTypeOK
  <2>3. dead' = dead
    BY <1>3, <1>4, <2>1, <2>2 DEF Joined
  <2>4. join_res' \in [Lsids -> {"none", "ok", "fail"}] /\ \A k \in Lsids : join_res'[k] # "none" => join_res'[k] = join_res[k]
    BY <1>3, <2>1 DEF HostTypeOK
  <2>5. api' \in [Lsids -> {"none", "opening", "joining", "held", "failed", "left"}]
    BY <1>3, <2>1 DEF HostTypeOK
  <2>6. \A k \in Lsids : api'[k] \in {"opening", "held", "left"} => result'[k] = "success"
    <3> SUFFICES ASSUME NEW k \in Lsids, api'[k] \in {"opening", "held", "left"} PROVE result[k] = "success"
      BY <1>2
    <3>1. CASE k = l
      <4>1. api[l] = "opening" \/ join_res[l] = "ok"
        BY <1>3, <2>1, <3>1 DEF HostTypeOK
      <4> QED BY <1>3, <3>1, <4>1 DEF Joined
    <3>2. CASE k # l
      <4>1. api'[k] = api[k]
        BY <1>3, <2>1, <3>2 DEF HostTypeOK
      <4> QED BY <1>3, <4>1 DEF Joined
    <3> QED BY <3>1, <3>2
  <2> QED BY <1>1, <1>2, <1>3, <2>1, <2>3, <2>4, <2>5, <2>6, FrameLemma DEF HostTypeOK, Joined
<1>5. CASE ContextDone(l) \/ WatchdogReturns(l)
  <2>1. UNCHANGED <<join_res, api, serving, pathMap, dead>>
    BY <1>5 DEF ContextDone, WatchdogReturns, net
  <2> QED BY <1>1, <1>2, <1>3, <2>1, FrameLemma DEF HostTypeOK, Joined
<1>6. CASE path \in Paths /\ ((l \in Lsids /\ TrySetMapping(path, l)) \/ DeleteMapping(path))
  <2>1. /\ UNCHANGED <<join_res, api, serving, dead>>
        /\ \/ l \in Lsids /\ pathMap' = [pathMap EXCEPT ![path] = l] /\ api[l] \in {"held", "left"}
           \/ pathMap' = [pathMap EXCEPT ![path] = Nil]
    BY <1>6 DEF TrySetMapping, DeleteMapping, calls
  <2>2. pathMap' \in [Paths -> Lsids \cup {Nil}]
    BY <1>3, <1>6, <2>1 DEF HostTypeOK
  <2>3. \A q \in Paths : pathMap'[q] # Nil => result'[pathMap'[q]] = "success"
    BY <1>2, <1>3, <1>6, <2>1 DEF HostTypeOK, Joined
  <2> QED BY <1>1, <1>2, <1>3, <2>1, <2>2, <2>3, FrameLemma DEF HostTypeOK, Joined
<1>7. CASE ServeStop(p)
  <2>1. UNCHANGED <<join_res, api, pathMap, dead>> /\ serving' = serving \ {p}
    BY <1>7 DEF ServeStop, calls
  <2> QED BY <1>1, <1>2, <1>3, <2>1, FrameLemma DEF HostTypeOK, Joined
<1> QED BY <1>4, <1>5, <1>6, <1>7

\* One event at the end of a call.
LEMMA OneLast ==
    ASSUME HInv, [Next]_vars, NEW F, NEW e \in HostEvents, Pushable(F, told', result'), Emit(F, <<e>>),
           Leads(<<e>>, Mid(told', result'), Due'), EventOK(e)'
    PROVE  /\ Pushes
           /\ \E b \in Nat : \A l \in Lsids :
                 Requests(l)' = Requests(l) \cup IF e.type = "TimerRequest" /\ e.lsid = l THEN {b} ELSE {}
PROOF
<1>1. PICK s : s = <<e>>
  OBVIOUS
<1>2. s \in Seq(HostEvents) /\ DOMAIN s = {1} /\ s[1] = e
  BY <1>1
<1>3. \A l : Wanted(s, l) = IF e.type = "TimerRequest" /\ e.lsid = l THEN {1} ELSE {}
  BY <1>2 DEF Wanted
<1>4. Emit(F, s) /\ Leads(s, Mid(told', result'), Due')
  BY <1>1
<1>5. \A m \in DOMAIN s : EventOK(s[m])'
  BY <1>2
<1>6. /\ Pushes
      /\ \E b \in Nat : \A l \in Lsids : Requests(l)' = Requests(l) \cup {b + m : m \in Wanted(s, l)}
  BY <1>2, <1>4, <1>5, EmitStep DEF Pushes
<1>7. PICK b \in Nat : \A l \in Lsids : Requests(l)' = Requests(l) \cup {b + m : m \in Wanted(s, l)}
  BY <1>6
<1>8. \A l \in Lsids : Requests(l)' = Requests(l) \cup IF e.type = "TimerRequest" /\ e.lsid = l THEN {b + 1} ELSE {}
  <2>1. ASSUME NEW l \in Lsids, e.type = "TimerRequest" /\ e.lsid = l
        PROVE  {b + m : m \in Wanted(s, l)} = {b + 1}
    BY <1>3, <2>1
  <2>2. ASSUME NEW l \in Lsids, ~(e.type = "TimerRequest" /\ e.lsid = l)
        PROVE  {b + m : m \in Wanted(s, l)} = {}
    BY <1>3, <2>2
  <2> QED BY <1>7, <2>1, <2>2
<1>9. b + 1 \in Nat
  OBVIOUS
<1> QED BY <1>6, <1>8, <1>9

\* The events of the host that AND does not raise about a peer.
LEMMA HostEvent ==
    ASSUME NEW l \in Lsids, NEW x \in {"WorldLeave", "TimerRequest", "JoinSuccess"}
    PROVE  /\ AndEvent(x, l, Nil, Nil) \in HostEvents
           /\ AndEvent(x, l, Nil, Nil).type = x /\ AndEvent(x, l, Nil, Nil).lsid = l
  BY DEF AndEvent, HostEvents, Types, Answers

\* The watchdog or the application closes a world.
LEMMA LeaveLemma ==
    ASSUME HInv, [Next]_vars, NEW l \in Lsids, Leave(l), timers' = timers
    PROVE  /\ Pushes /\ used' = used /\ peers' = peers
           /\ \A k \in Lsids : TimerChain(k)'
PROOF
<1>1. CASE l \notin worlds /\ UNCHANGED vars /\ Quietly
  BY <1>1, QuietLemma
<1>2. CASE CloseWorld(l) /\ EmitOn(l, Close(World(l)), <<AndEvent("WorldLeave", l, Nil, Nil)>>)
  <2> DEFINE e == AndEvent("WorldLeave", l, Nil, Nil)
             F == OnWorld(l, Close(World(l)))
  <2>1. IInv /\ IInv'
    BY NextLemma DEF HInv
  <2>2. /\ l \in worlds /\ worlds' = worlds \ {l} /\ used' = used /\ peers' = peers
        /\ Apply(F) /\ result' = [result EXCEPT ![l] = Outcome(@, Close(World(l)))]
    BY <1>2 DEF CloseWorld
  <2>3. WTidy(World(l), Close(World(l)))
    <3>1. \A q \in Peers : World(l).peers[q] \in Info
      BY <2>1, WorldTyped
    <3>2. CASE Peers = {}
      BY <3>2 DEF WTidy
    <3>3. CASE Peers # {}
      BY <3>1, <3>3, HandlersTidy
    <3> QED BY <3>2, <3>3
  <2>4. Pushable(F, told', result')
    BY <2>1, <2>2, <2>3, CallPushable
  <2>5. Leads(<<e>>, Mid(told', result'), Due')
    BY <2>1, <2>2, LastLemma
  <2>6. e \in HostEvents /\ e.type = "WorldLeave" /\ Emit(F, <<e>>)
    BY <1>2, HostEvent DEF EmitOn
  <2> HIDE DEF e, F
  <2>7. EventOK(e)'
    BY <2>6 DEF EventOK, PeerEvents, Answers
  <2>8. Pushes /\ \A k \in Lsids : Requests(k)' = Requests(k)
    BY <2>4, <2>5, <2>6, <2>7, OneLast
  <2>9. \A k \in Lsids : TimerChain(k)'
    BY <2>2, <2>8, TimersRest
  <2> QED BY <2>2, <2>8, <2>9
<1> QED BY <1>1, <1>2 DEF Leave

\* LeaveWorld and the watchdog.
LEMMA LeaveSteps ==
    ASSUME HInv, [Next]_vars, NEW l \in Lsids, WatchdogCloses(l) \/ LeaveWorld(l)
    PROVE  HInv'
PROOF
<1>1. /\ Leave(l) /\ timers' = timers
      /\ UNCHANGED <<hworlds, view, active, offers, join_queue, join_res, serving, pathMap, dead>>
      /\ api' = api \/ (api[l] = "held" /\ api' = [api EXCEPT ![l] = "left"])
  BY DEF WatchdogCloses, LeaveWorld, app, net
<1>2. Pushes /\ used' = used /\ peers' = peers /\ \A k \in Lsids : TimerChain(k)'
  BY <1>1, LeaveLemma
<1>3. HostTypeOK /\ Joined /\ \A k \in Lsids : result[k] # "none" => result'[k] = result[k]
  BY StableLemma DEF HInv
<1>4. api' \in [Lsids -> {"none", "opening", "joining", "held", "failed", "left"}]
  BY <1>1, <1>3 DEF HostTypeOK
<1>5. \A k \in Lsids : api'[k] \in {"opening", "held", "left"} => result'[k] = "success"
  <2> SUFFICES ASSUME NEW k \in Lsids, api'[k] \in {"opening", "held", "left"} PROVE result'[k] = "success"
    OBVIOUS
  <2>1. api[k] \in {"opening", "held", "left"}
    BY <1>1, <1>3 DEF HostTypeOK
  <2> QED BY <1>3, <2>1 DEF Joined
<1>6. \A path \in Paths : pathMap'[path] # Nil => result'[pathMap'[path]] = "success"
  <2> SUFFICES ASSUME NEW path \in Paths, pathMap[path] # Nil PROVE result'[pathMap[path]] = "success"
    BY <1>1
  <2>1. pathMap[path] \in Lsids /\ result[pathMap[path]] = "success"
    BY <1>3 DEF HostTypeOK, Joined
  <2> QED BY <1>3, <2>1
<1> QED BY <1>1, <1>2, <1>3, <1>4, <1>5, <1>6, FrameLemma DEF HostTypeOK

\* A timer fires.
LEMMA TimerStep ==
    ASSUME HInv, [Next]_vars, NEW l \in Lsids, TimerFires(l)
    PROVE  HInv'
PROOF
<1>1. /\ IInv /\ IInv' /\ HostTypeOK /\ Joined /\ used \subseteq used'
      /\ \A k \in Lsids : result[k] # "none" => result'[k] = result[k]
      /\ \A k \in used : join_hash'[k] = join_hash[k]
  BY StableLemma DEF HInv
<1>2. /\ timers[l] > 0 /\ timers' = [timers EXCEPT ![l] = @ - 1]
      /\ UNCHANGED <<join_queue, join_res, api, hworlds, active, view, offers, serving, pathMap, dead>>
  BY DEF TimerFires, calls, net
<1>3. /\ timers[l] = 1 /\ timers' \in [Lsids -> {0, 1}] /\ timers'[l] = 0
      /\ \A k \in Lsids \ {l} : timers'[k] = timers[k]
  BY <1>1, <1>2 DEF HostTypeOK
<1>4. Requests(l) = {} /\ l \in used /\ join_hash[l] = Nil
  BY <1>3 DEF HInv, TimerChain
<1>5. Pushes /\ used' = used /\ peers' = peers /\ \A k \in Lsids : TimerChain(k)'
  <2>1. CASE l \notin worlds /\ UNCHANGED vars /\ Quietly
    <3>1. Pushes /\ UNCHANGED <<peers, worlds, used, result>>
      BY <2>1, QuietLemma
    <3>2. \A k \in Lsids : Requests(k)' = Requests(k)
      BY <2>1 DEF Quietly, Requests
    <3>3. \A k \in Lsids \ {l} : TimerChain(k)'
      BY <1>3, <3>1, <3>2, TimersRest
    <3>4. TimerChain(l)'
      BY <1>3, <1>4, <2>1, <3>1, <3>2 DEF TimerChain
    <3> QED BY <3>1, <3>3, <3>4
  <2>2. ASSUME NEW old \in SUBSET Peers, TimerExpireCall(l, old),
               EmitOn(l, TimerExpire(World(l), old), <<AndEvent("TimerRequest", l, Nil, Nil)>>)
        PROVE  Pushes /\ used' = used /\ peers' = peers /\ \A k \in Lsids : TimerChain(k)'
    <3> DEFINE e == AndEvent("TimerRequest", l, Nil, Nil)
               fx == TimerExpire(World(l), old)
    <3>1. /\ l \in worlds /\ UNCHANGED <<peers, worlds, used>>
          /\ Apply(OnWorld(l, fx)) /\ result' = [result EXCEPT ![l] = Outcome(@, fx)]
      BY <2>2 DEF TimerExpireCall, Call
    <3>2. WTidy(World(l), fx)
      <4>1. \A q \in Peers : TimerExpire(World(l), old)[q].ev = <<>>
        BY DEF TimerExpire, Effect
      <4> QED BY <4>1, TidyShort DEF WTidy
    <3>3. Pushable(OnWorld(l, fx), told', result')
      BY <1>1, <3>1, <3>2, CallPushable
    <3>4. Leads(<<e>>, Mid(told', result'), Due')
      BY <1>1, <3>1, LastLemma
    <3>5. e \in HostEvents /\ e.type = "TimerRequest" /\ e.lsid = l /\ Emit(OnWorld(l, fx), <<e>>)
      BY <2>2, HostEvent DEF EmitOn
    <3>6. EventOK(e)'
      <4>1. l \in used' /\ join_hash'[l] = Nil
        BY <1>1, <1>4
      <4>2. "TimerRequest" \notin PeerEvents
        BY DEF PeerEvents
      <4> QED BY <3>5, <4>1, <4>2 DEF EventOK
    <3>7. /\ Pushes
          /\ \E b \in Nat : \A k \in Lsids :
                Requests(k)' = Requests(k) \cup IF e.type = "TimerRequest" /\ e.lsid = k THEN {b} ELSE {}
      BY <3>3, <3>4, <3>5, <3>6, OneLast
    <3>8. PICK b \in Nat : \A k \in Lsids : Requests(k)' = Requests(k) \cup IF l = k THEN {b} ELSE {}
      BY <3>5, <3>7
    <3>9. \A k \in Lsids \ {l} : TimerChain(k)'
      BY <1>3, <3>1, <3>8, TimersRest
    <3>10. TimerChain(l)'
      <4>1. Requests(l)' = {b}
        BY <1>4, <3>8
      <4> QED BY <1>3, <4>1 DEF TimerChain
    <3> QED BY <3>1, <3>7, <3>9, <3>10
  <2> QED BY <2>1, <2>2 DEF TimerFires
<1>6. \A k \in Lsids : api'[k] \in {"opening", "held", "left"} => result'[k] = "success"
  BY <1>1, <1>2 DEF Joined
<1>7. \A path \in Paths : pathMap'[path] # Nil => result'[pathMap'[path]] = "success"
  <2> SUFFICES ASSUME NEW path \in Paths, pathMap[path] # Nil PROVE result'[pathMap[path]] = "success"
    BY <1>2
  <2>1. pathMap[path] \in Lsids /\ result[pathMap[path]] = "success"
    BY <1>1 DEF HostTypeOK, Joined
  <2> QED BY <1>1, <2>1
<1> QED BY <1>1, <1>2, <1>3, <1>5, <1>6, <1>7, FrameLemma DEF HostTypeOK

\* A world is opened.
LEMMA OpenStep ==
    ASSUME HInv, [Next]_vars, NEW l \in Lsids, HostOpenWorld(l)
    PROVE  HInv'
PROOF
<1> DEFINE fx == OpenEntries(PeersOf(l))
           j == AndEvent("JoinSuccess", l, Nil, Nil)
           t == AndEvent("TimerRequest", l, Nil, Nil)
<1>1. /\ IInv /\ IInv' /\ HostTypeOK /\ Joined /\ used \subseteq Lsids
      /\ \A k \in Lsids : result[k] # "none" => result'[k] = result[k]
  BY StableLemma DEF HInv, IInv, TypeOK
<1>2. /\ l \notin used /\ used' = used \cup {l} /\ worlds' = worlds \cup {l} /\ Apply(OnWorld(l, fx))
      /\ join_hash' = join_hash /\ peers' = peers
      /\ join_queue' = join_queue \cup {l} /\ api' = [api EXCEPT ![l] = "opening"]
      /\ UNCHANGED <<join_res, hworlds, timers, active, view, offers, serving, pathMap, dead>>
  BY DEF HostOpenWorld, OpenWorld, app, net
<1>3. result[l] = "none" /\ result' = [result EXCEPT ![l] = "success"]
  <2>1. result[l] = "none" /\ result \in [Lsids -> {"none", "success", "fail", "twice"}]
    BY <1>1, <1>2 DEF IInv, WorldOK, TypeOK
  <2> QED BY <2>1 DEF HostOpenWorld, OpenWorld
<1>4. Pushable(OnWorld(l, fx), told', result)
  <2>1. \A p \in Peers : fx[p].ev \in {<<>>, <<Event("ConnectRequest", Nil)>>}
    BY DEF OpenEntries, Keep, Effect
  <2> QED BY <1>1, <1>2, <2>1, FreshPushable
<1>5. PICK s : s = <<j, t>>
  OBVIOUS
<1>6. /\ j \in HostEvents /\ j.type = "JoinSuccess" /\ j.lsid = l
      /\ t \in HostEvents /\ t.type = "TimerRequest" /\ t.lsid = l
  BY HostEvent
<1>7. Emit(OnWorld(l, fx), s) /\ Leads(s, Mid(told', result), Due')
  BY <1>1, <1>2, <1>3, <1>5, LastLemma DEF HostOpenWorld, EmitOn
<1> HIDE DEF fx
<1>8. s \in Seq(HostEvents) /\ DOMAIN s = {1, 2} /\ s[1] = j /\ s[2] = t
  BY <1>5, <1>6
<1>9. ASSUME NEW m \in DOMAIN s PROVE EventOK(s[m])'
  <2>1. l \in used' /\ join_hash'[l] = Nil /\ result'[l] = "success"
    BY <1>1, <1>2, <1>3 DEF Joined, IInv, TypeOK
  <2>2. "TimerRequest" \notin PeerEvents /\ "JoinSuccess" \notin PeerEvents
    BY DEF PeerEvents
  <2>3. EventOK(j)' /\ EventOK(t)'
    BY <1>6, <2>1, <2>2 DEF EventOK
  <2>4. s[m] = j \/ s[m] = t
    BY <1>8
  <2> QED BY <2>3, <2>4 DEF EventOK
<1>10. \A k \in Lsids : result[k] # "none" => result'[k] = result[k]
  BY <1>1
<1>11. /\ Pushes
       /\ \E b \in Nat : \A k \in Lsids : Requests(k)' = Requests(k) \cup {b + m : m \in Wanted(s, k)}
  BY <1>4, <1>7, <1>8, <1>9, <1>10, EmitStep DEF Pushes
<1>12. \A k \in Lsids : Wanted(s, k) = IF k = l THEN {2} ELSE {}
  BY <1>6, <1>8 DEF Wanted
<1>13. PICK b \in Nat : \A k \in Lsids : Requests(k)' = Requests(k) \cup {b + m : m \in Wanted(s, k)}
  BY <1>11
<1>14. \A k \in Lsids : TimerChain(k)'
  <2>1. ASSUME NEW k \in Lsids \ {l} PROVE TimerChain(k)'
    <3>1. Requests(k)' = Requests(k)
      BY <1>12, <1>13
    <3> QED BY <1>2, <3>1, TimersRest
  <2>2. TimerChain(l)'
    <3>1. Requests(l)' = Requests(l) \cup {b + 2}
      BY <1>12, <1>13
    <3>2. Requests(l) = {}
      <4>1. \A k \in DOMAIN eventCh : EventOK(eventCh[k])
        BY DEF HInv
      <4> QED BY <1>2, <4>1 DEF Requests, EventOK
    <3>3. timers[l] # 1
      BY <1>2 DEF HInv, TimerChain
    <3> QED BY <1>2, <3>1, <3>2, <3>3 DEF TimerChain
  <2> QED BY <2>1, <2>2
<1>15. api' \in [Lsids -> {"none", "opening", "joining", "held", "failed", "left"}]
  BY <1>1, <1>2 DEF HostTypeOK
<1>16. \A k \in Lsids : api'[k] \in {"opening", "held", "left"} => result'[k] = "success"
  <2> SUFFICES ASSUME NEW k \in Lsids, api'[k] \in {"opening", "held", "left"} PROVE result'[k] = "success"
    OBVIOUS
  <2>1. CASE k = l
    BY <1>1, <1>3, <2>1 DEF IInv, TypeOK
  <2>2. CASE k # l
    <3>1. api'[k] = api[k]
      BY <1>1, <1>2, <2>2 DEF HostTypeOK
    <3> QED BY <1>1, <3>1 DEF Joined
  <2> QED BY <2>1, <2>2
<1>17. \A path \in Paths : pathMap'[path] # Nil => result'[pathMap'[path]] = "success"
  <2> SUFFICES ASSUME NEW path \in Paths, pathMap[path] # Nil PROVE result'[pathMap[path]] = "success"
    BY <1>2
  <2>1. pathMap[path] \in Lsids /\ result[pathMap[path]] = "success"
    BY <1>1 DEF HostTypeOK, Joined
  <2> QED BY <1>1, <2>1
<1>18. used' \ join_queue' = used \ join_queue /\ join_queue' \subseteq used'
  BY <1>1, <1>2 DEF HostTypeOK
<1> QED BY <1>1, <1>2, <1>11, <1>14, <1>15, <1>16, <1>17, <1>18, FrameLemma DEF HostTypeOK

\* A world is joined.
LEMMA JoinStep ==
    ASSUME HInv, [Next]_vars, NEW l \in Lsids, NEW target \in Peers, HostJoinWorld(l, target)
    PROVE  HInv'
PROOF
<1> DEFINE fx == JoinEntries(target, PeersOf(l))
<1>1. /\ IInv /\ IInv' /\ HostTypeOK /\ Joined /\ used \subseteq Lsids
      /\ join_hash \in [Lsids -> Peers \cup {Nil}]
  BY StableLemma DEF HInv, IInv, TypeOK
<1>2. /\ l \notin used /\ used' = used \cup {l} /\ worlds' = worlds \cup {l} /\ Apply(OnWorld(l, fx))
      /\ join_hash' = [join_hash EXCEPT ![l] = target] /\ UNCHANGED <<peers, result>>
      /\ join_queue' = join_queue \cup {l} /\ api' = [api EXCEPT ![l] = "joining"]
      /\ UNCHANGED <<join_res, hworlds, timers, active, view, offers, serving, pathMap, dead>>
      /\ Emit(OnWorld(l, fx), <<>>)
  BY DEF HostJoinWorld, JoinWorld, app, net, EmitOn
<1>3. Pushable(OnWorld(l, fx), told', result)
  <2>1. \A p \in Peers : fx[p].ev \in {<<>>, <<Event("ConnectRequest", Nil)>>}
    BY DEF JoinEntries, Keep, Effect
  <2> QED BY <1>1, <1>2, <2>1, FreshPushable
<1>4. PICK s : s = <<>>
  OBVIOUS
<1>5. Emit(OnWorld(l, fx), s) /\ Leads(s, Mid(told', result), Due')
  BY <1>1, <1>2, <1>4, LastLemma
<1> HIDE DEF fx
<1>6. s \in Seq(HostEvents) /\ DOMAIN s = {} /\ \A k : Wanted(s, k) = {}
  BY <1>4 DEF Wanted
<1>7. \A m \in DOMAIN s : EventOK(s[m])'
  BY <1>6
<1>8. \A k \in Lsids : result[k] # "none" => result'[k] = result[k]
  BY <1>2
<1>9. /\ Pushes
      /\ \E b \in Nat : \A k \in Lsids : Requests(k)' = Requests(k) \cup {b + m : m \in Wanted(s, k)}
  BY <1>3, <1>5, <1>6, <1>7, <1>8, EmitStep DEF Pushes
<1>10. \A k \in Lsids : Requests(k)' = Requests(k)
  BY <1>6, <1>9
<1>11. \A k \in Lsids : TimerChain(k)'
  <2>1. ASSUME NEW k \in Lsids \ {l} PROVE TimerChain(k)'
    BY <1>2, <1>10, TimersRest
  <2>2. TimerChain(l)'
    <3>1. join_hash'[l] # Nil
      BY <1>1, <1>2, NilAssumption
    <3>2. TimerChain(l) /\ timers[l] # 1
      BY <1>2 DEF HInv, TimerChain
    <3> QED BY <1>2, <1>10, <3>1, <3>2 DEF TimerChain
  <2> QED BY <2>1, <2>2
<1>12. /\ api' \in [Lsids -> {"none", "opening", "joining", "held", "failed", "left"}]
       /\ \A k \in Lsids : api'[k] \in {"opening", "held", "left"} => result'[k] = "success"
  BY <1>1, <1>2 DEF HostTypeOK, Joined
<1>13. \A path \in Paths : pathMap'[path] # Nil => result'[pathMap'[path]] = "success"
  BY <1>1, <1>2 DEF Joined
<1>14. used' \ join_queue' = used \ join_queue /\ join_queue' \subseteq used'
  BY <1>1, <1>2 DEF HostTypeOK
<1> QED BY <1>1, <1>2, <1>9, <1>11, <1>12, <1>13, <1>14, FrameLemma DEF HostTypeOK

\* The event loop takes the first event: the others stay in order.
LEMMA TakeLemma ==
    ASSUME HInv, eventCh # <<>>, eventCh' = Tail(eventCh), UNCHANGED vars
    PROVE  /\ Head(eventCh) \in HostEvents /\ EventOK(Head(eventCh)) /\ Handled(Seen, Head(eventCh))
           /\ Leads(eventCh', After(Seen, Head(eventCh)), Due')
           /\ eventCh' \in Seq(HostEvents) /\ (\A k \in DOMAIN eventCh : EventOK(eventCh[k]))'
           /\ \A l \in Lsids : Requests(l)' = {k - 1 : k \in Requests(l) \ {1}}
           /\ \A l : 1 \in Requests(l) <=> Head(eventCh).type = "TimerRequest" /\ Head(eventCh).lsid = l
           /\ IInv' /\ UNCHANGED <<peers, worlds, used, join_hash, result>>
PROOF
<1> DEFINE n == Len(eventCh)
<1>1. /\ eventCh \in Seq(HostEvents) /\ Leads(eventCh, Seen, Due) /\ IInv
      /\ \A k \in DOMAIN eventCh : EventOK(eventCh[k])
  BY DEF HInv, HostTypeOK
<1>2. UNCHANGED <<peers, worlds, used, join_hash, told, result>> /\ IInv'
  BY <1>1, NextLemma DEF vars, code, history
<1>3. /\ n \in Nat /\ n > 0 /\ DOMAIN eventCh = 1..n /\ Head(eventCh) = eventCh[1] /\ eventCh[1] \in HostEvents
      /\ eventCh' \in Seq(HostEvents) /\ DOMAIN eventCh' = 1..n - 1
      /\ \A k \in 1..n - 1 : eventCh'[k] = eventCh[k + 1]
  BY <1>1
<1>4. 1 \in DOMAIN eventCh
  BY <1>3
<1>5. Handled(Seen, Head(eventCh)) /\ Leads(eventCh', After(Seen, Head(eventCh)), Due)
  BY <1>1, LeadsTail
<1>6. Due' = Due
  BY <1>2 DEF Due, Standing
<1>7. ASSUME NEW k \in DOMAIN eventCh' PROVE EventOK(eventCh[k])'
  <2>1. k + 1 \in DOMAIN eventCh /\ eventCh'[k] = eventCh[k + 1]
    BY <1>3
  <2>2. EventOK(eventCh[k + 1])
    BY <1>1, <2>1
  <2> QED BY <1>2, <2>1, <2>2 DEF EventOK
<1>8. ASSUME NEW l \in Lsids PROVE Requests(l)' = {k - 1 : k \in Requests(l) \ {1}}
  <2> DEFINE A == {k \in DOMAIN eventCh' : eventCh'[k].type = "TimerRequest" /\ eventCh'[k].lsid = l}
             B == {k \in DOMAIN eventCh : eventCh[k].type = "TimerRequest" /\ eventCh[k].lsid = l}
  <2>1. ASSUME NEW k \in A PROVE k \in {i - 1 : i \in B \ {1}}
    <3>1. k + 1 \in DOMAIN eventCh /\ eventCh'[k] = eventCh[k + 1] /\ k + 1 # 1 /\ (k + 1) - 1 = k
      BY <1>3
    <3>2. k + 1 \in B \ {1}
      BY <3>1
    <3> QED BY <3>1, <3>2
  <2>2. ASSUME NEW i \in B \ {1} PROVE i - 1 \in A
    <3>1. i - 1 \in 1..n - 1 /\ (i - 1) + 1 = i
      BY <1>3
    <3>2. eventCh'[i - 1] = eventCh[(i - 1) + 1]
      BY <1>3, <3>1
    <3>3. eventCh'[i - 1] = eventCh[i]
      BY <3>1, <3>2
    <3> QED BY <1>3, <3>1, <3>3
  <2> HIDE DEF A, B
  <2>3. A = {i - 1 : i \in B \ {1}}
    BY <2>1, <2>2
  <2> QED BY <2>3 DEF A, B, Requests
<1>9. \A l : 1 \in Requests(l) <=> Head(eventCh).type = "TimerRequest" /\ Head(eventCh).lsid = l
  BY <1>3, <1>4 DEF Requests
<1> QED BY <1>1, <1>2, <1>3, <1>4, <1>5, <1>6, <1>7, <1>8, <1>9

\* Taking an event that is not a request for a timer of l leaves its timer alone.
LEMMA TakeTimers ==
    ASSUME HInv, NEW l \in Lsids, Requests(l)' = {k - 1 : k \in Requests(l) \ {1}}, 1 \notin Requests(l),
           timers'[l] = timers[l], UNCHANGED <<worlds, used, join_hash>>
    PROVE  TimerChain(l)'
PROOF
<1>1. TimerChain(l) /\ Requests(l)' = {k - 1 : k \in Requests(l)}
  BY DEF HInv
<1>2. /\ \A j, k \in Requests(l)' : j = k
      /\ Requests(l)' = {} <=> Requests(l) = {}
  BY <1>1 DEF TimerChain
<1> QED BY <1>1, <1>2 DEF TimerChain

\* Steps of the event loop.
LEMMA LoopFrame ==
    ASSUME HInv, eventCh # <<>>, eventCh' = Tail(eventCh), UNCHANGED <<vars, net, api>>,
           Seen' = After(Seen, Head(eventCh)), dead' \in {dead, "left world not found"},
           hworlds' \in [Lsids -> {"absent", "nil", "live"}], view' \in [Lsids -> [Peers -> Told]],
           join_queue' \subseteq join_queue,
           join_res' \in [Lsids -> {"none", "ok", "fail"}],
           timers' \in [Lsids -> {0, 1}], active' \in [Peers -> Nat],
           offers' \subseteq [lsid : Lsids, peer : Peers, sid : Sessions],
           \A l \in Lsids : /\ join_res'[l] = "ok" => result[l] = "success"
                            /\ join_res'[l] = "fail" => result[l] = "fail"
                            /\ join_res'[l] # "none" => l \in used \ join_queue',
           \A o \in offers' : result[o.lsid] = "success",
           \A l \in Lsids : TimerChain(l)',
           \A p \in Peers : active'[p] = Cardinality(ReadyIn(p)')
    PROVE  HInv'
PROOF
<1>1. /\ Leads(eventCh', Seen', Due') /\ eventCh' \in Seq(HostEvents)
      /\ (\A k \in DOMAIN eventCh : EventOK(eventCh[k]))'
      /\ IInv' /\ UNCHANGED <<peers, worlds, used, join_hash, result>>
  BY TakeLemma
<1>2. HostTypeOK /\ EventLoopSurvives /\ Joined
  BY DEF HInv
<1>3. HostTypeOK'
  BY <1>1, <1>2 DEF HostTypeOK, net
<1>4. EventLoopSurvives'
  BY <1>2 DEF EventLoopSurvives
<1>5. Joined'
  BY <1>1, <1>2 DEF Joined, net
<1>6. Leads(eventCh, Seen, Due)' /\ (\A p \in Peers : active[p] = Cardinality(ReadyIn(p)))'
  BY <1>1
<1> QED BY <1>1, <1>3, <1>4, <1>5, <1>6 DEF HInv

\* The event loop hands a join result to its caller.
LEMMA JoinResultStep ==
    ASSUME HInv, eventCh # <<>>, eventCh' = Tail(eventCh), UNCHANGED <<vars, net>>,
           \/ Head(eventCh).type = "JoinSuccess" /\ HandleJoinResult(Head(eventCh), "live", "ok")
           \/ Head(eventCh).type = "JoinFail" /\ HandleJoinResult(Head(eventCh), "nil", "fail")
    PROVE  HInv'
PROOF
<1> DEFINE e == Head(eventCh)
           l == e.lsid
           world == IF e.type = "JoinSuccess" THEN "live" ELSE "nil"
           res == IF e.type = "JoinSuccess" THEN "ok" ELSE "fail"
<1>1. /\ e \in HostEvents /\ EventOK(e) /\ Handled(Seen, e) /\ UNCHANGED <<worlds, used, join_hash>>
      /\ \A k \in Lsids : Requests(k)' = {i - 1 : i \in Requests(k) \ {1}}
      /\ \A k : 1 \in Requests(k) <=> e.type = "TimerRequest" /\ e.lsid = k
  BY TakeLemma
<1>2. e.type \in {"JoinSuccess", "JoinFail"} /\ HandleJoinResult(e, world, res)
  OBVIOUS
<1>3. e.type \in Answers /\ e.type \notin PeerEvents /\ e.type # "TimerRequest" /\ e.type # "WorldLeave"
  BY <1>2 DEF Answers, PeerEvents
<1> HIDE DEF e
<1>4. l \in Lsids /\ l \in used /\ result[l] = IF e.type = "JoinSuccess" THEN "success" ELSE "fail"
  BY <1>1, <1>2, <1>3 DEF HostEvents, EventOK
<1>5. HostTypeOK /\ Joined
  BY DEF HInv
<1>6. l \in join_queue /\ join_res[l] = "none"
  <2>1. l \notin used \ join_queue
    BY <1>1, <1>3 DEF Handled, Seen
  <2> QED BY <1>4, <1>5, <2>1 DEF Joined
<1>7. /\ hworlds' = [hworlds EXCEPT ![l] = world] /\ join_queue' = join_queue \ {l}
      /\ join_res' = [join_res EXCEPT ![l] = res] /\ dead' = dead
      /\ UNCHANGED <<api, timers, active, view, offers>>
  BY <1>2, <1>6 DEF HandleJoinResult
<1>8. Seen' = After(Seen, e)
  <2>1. Seen' = [w |-> [hworlds EXCEPT ![l] = world], v |-> view, a |-> (used \ join_queue) \cup {l}]
    BY <1>1, <1>4, <1>6, <1>7 DEF Seen
  <2>2. After(Seen, e).w = [hworlds EXCEPT ![l] = world]
    BY <1>2 DEF After, Seen
  <2>3. After(Seen, e) = [w |-> After(Seen, e).w, v |-> view, a |-> (used \ join_queue) \cup {l}]
    BY <1>3 DEF After, Seen
  <2> QED BY <2>1, <2>2, <2>3
<1>9. /\ hworlds' \in [Lsids -> {"absent", "nil", "live"}]
      /\ join_res' \in [Lsids -> {"none", "ok", "fail"}]
  BY <1>5, <1>7 DEF HostTypeOK
<1>10. \A k \in Lsids : /\ join_res'[k] = "ok" => result[k] = "success"
                        /\ join_res'[k] = "fail" => result[k] = "fail"
                        /\ join_res'[k] # "none" => k \in used \ join_queue'
  <2> SUFFICES ASSUME NEW k \in Lsids
               PROVE  /\ join_res'[k] = "ok" => result[k] = "success"
                      /\ join_res'[k] = "fail" => result[k] = "fail"
                      /\ join_res'[k] # "none" => k \in used \ join_queue'
    OBVIOUS
  <2>1. CASE k = l
    <3>1. join_res'[l] = res
      BY <1>4, <1>5, <1>7 DEF HostTypeOK
    <3> QED BY <1>4, <1>7, <2>1, <3>1
  <2>2. CASE k # l
    <3>1. join_res'[k] = join_res[k]
      BY <1>5, <1>7, <2>2 DEF HostTypeOK
    <3> QED BY <1>5, <1>7, <2>2, <3>1 DEF Joined
  <2> QED BY <2>1, <2>2
<1>11. \A k \in Lsids : TimerChain(k)'
  BY <1>1, <1>3, <1>7, TakeTimers
<1>12. \A p \in Peers : active'[p] = Cardinality(ReadyIn(p)')
  BY <1>7 DEF HInv, ReadyIn
<1> QED BY <1>5, <1>7, <1>8, <1>9, <1>10, <1>11, <1>12, LoopFrame DEF HostTypeOK, Joined, e


\* The event loop forgets a world.
LEMMA WorldLeaveStep ==
    ASSUME HInv, eventCh # <<>>, eventCh' = Tail(eventCh), UNCHANGED <<vars, net>>,
           Head(eventCh).type = "WorldLeave", HandleWorldLeave(Head(eventCh))
    PROVE  HInv'
PROOF
<1>0. PICK e : e = Head(eventCh)
  OBVIOUS
<1>1. /\ e \in HostEvents /\ UNCHANGED <<worlds, used, join_hash>>
      /\ \A k \in Lsids : Requests(k)' = {i - 1 : i \in Requests(k) \ {1}}
      /\ \A k : 1 \in Requests(k) <=> e.type = "TimerRequest" /\ e.lsid = k
  BY <1>0, TakeLemma
<1>2. e.type = "WorldLeave" /\ e.type \notin Answers /\ e.type \notin PeerEvents
  BY <1>0 DEF Answers, PeerEvents
<1>3. /\ hworlds' = [hworlds EXCEPT ![e.lsid] = "absent"] /\ dead' \in {dead, "left world not found"}
      /\ UNCHANGED <<join_queue, join_res, api, timers, active, view, offers>>
  BY <1>0 DEF HandleWorldLeave, calls
<1>4. HostTypeOK /\ Joined
  BY DEF HInv
<1>5. Seen' = After(Seen, e)
  <2>1. Seen' = [w |-> [hworlds EXCEPT ![e.lsid] = "absent"], v |-> view, a |-> used \ join_queue]
    BY <1>1, <1>3 DEF Seen
  <2> QED BY <1>2, <2>1 DEF After, Seen
<1>6. hworlds' \in [Lsids -> {"absent", "nil", "live"}]
  BY <1>3, <1>4 DEF HostTypeOK
<1>7. \A k \in Lsids : TimerChain(k)'
  BY <1>1, <1>2, <1>3, TakeTimers
<1>8. \A p \in Peers : active'[p] = Cardinality(ReadyIn(p)')
  BY <1>3 DEF HInv, ReadyIn
<1> QED BY <1>0, <1>3, <1>4, <1>5, <1>6, <1>7, <1>8, LoopFrame DEF HostTypeOK, Joined

\* The event loop asks the network service for a connection, or registers a peer.
LEMMA NetStep ==
    ASSUME HInv, eventCh # <<>>, eventCh' = Tail(eventCh), UNCHANGED <<vars, net>>,
           Head(eventCh).type \in NetEvents, HandleNetRequest
    PROVE  HInv'
PROOF
<1>0. PICK e : e = Head(eventCh)
  OBVIOUS
<1>1. /\ UNCHANGED <<worlds, used, join_hash>>
      /\ \A k \in Lsids : Requests(k)' = {i - 1 : i \in Requests(k) \ {1}}
      /\ \A k : 1 \in Requests(k) <=> e.type = "TimerRequest" /\ e.lsid = k
  BY <1>0, TakeLemma
<1>2. e.type \notin Answers \cup PeerEvents \cup {"WorldLeave", "TimerRequest"}
  BY <1>0 DEF Answers, PeerEvents, NetEvents
<1>3. UNCHANGED <<hworlds, join_queue, join_res, api, timers, active, view, offers, dead>>
  BY DEF HandleNetRequest, calls, app
<1>4. HostTypeOK /\ Joined
  BY DEF HInv
<1>5. Seen' = After(Seen, e)
  BY <1>1, <1>2, <1>3 DEF After, Seen, Answers
<1>6. \A k \in Lsids : TimerChain(k)'
  BY <1>1, <1>2, <1>3, TakeTimers
<1>7. \A p \in Peers : active'[p] = Cardinality(ReadyIn(p)')
  BY <1>3 DEF HInv, ReadyIn
<1> QED BY <1>0, <1>3, <1>4, <1>5, <1>6, <1>7, LoopFrame DEF HostTypeOK, Joined

\* The event loop starts a timer.
LEMMA TimerRequestStep ==
    ASSUME HInv, eventCh # <<>>, eventCh' = Tail(eventCh), UNCHANGED <<vars, net>>,
           Head(eventCh).type = "TimerRequest", HandleTimerRequest(Head(eventCh))
    PROVE  HInv'
PROOF
<1>0. PICK e : e = Head(eventCh)
  OBVIOUS
<1>1. /\ e \in HostEvents /\ EventOK(e) /\ UNCHANGED <<worlds, used, join_hash>>
      /\ \A k \in Lsids : Requests(k)' = {i - 1 : i \in Requests(k) \ {1}}
      /\ \A k : 1 \in Requests(k) <=> e.type = "TimerRequest" /\ e.lsid = k
  BY <1>0, TakeLemma
<1>2. /\ e.type = "TimerRequest" /\ e.type \notin Answers \cup PeerEvents \cup {"WorldLeave"}
      /\ e.lsid \in Lsids /\ e.lsid \in used /\ join_hash[e.lsid] = Nil
  <2>1. e.type = "TimerRequest" /\ e.type \notin Answers \cup PeerEvents \cup {"WorldLeave"}
    BY <1>0 DEF Answers, PeerEvents
  <2> QED BY <1>1, <2>1 DEF EventOK, HostEvents
<1>3. /\ timers' = [timers EXCEPT ![e.lsid] = @ + 1]
      /\ UNCHANGED <<hworlds, join_queue, join_res, api, active, view, offers, dead>>
  BY <1>0 DEF HandleTimerRequest, calls
<1>4. HostTypeOK /\ Joined
  BY DEF HInv
<1>5. Seen' = After(Seen, e)
  BY <1>1, <1>2, <1>3 DEF After, Seen
<1>6. timers[e.lsid] = 0 /\ Requests(e.lsid) = {1}
  <2>1. TimerChain(e.lsid) /\ 1 \in Requests(e.lsid) /\ timers[e.lsid] \in {0, 1}
    BY <1>1, <1>2, <1>4 DEF HInv, HostTypeOK
  <2> QED BY <2>1 DEF TimerChain
<1>7. timers' \in [Lsids -> {0, 1}] /\ timers'[e.lsid] = 1 /\ \A k \in Lsids \ {e.lsid} : timers'[k] = timers[k]
  BY <1>2, <1>3, <1>4, <1>6 DEF HostTypeOK
<1>8. \A k \in Lsids : TimerChain(k)'
  <2>1. ASSUME NEW k \in Lsids \ {e.lsid} PROVE TimerChain(k)'
    BY <1>1, <1>7, TakeTimers
  <2>2. Requests(e.lsid)' = {}
    BY <1>1, <1>2, <1>6
  <2>3. PICK l : l = e.lsid
    OBVIOUS
  <2>4. Requests(l)' = {}
    BY <2>2, <2>3 DEF Requests
  <2>5. TimerChain(l)'
    BY <1>1, <1>2, <1>7, <2>3, <2>4 DEF TimerChain
  <2> QED BY <2>1, <2>3, <2>5
<1>9. \A p \in Peers : active'[p] = Cardinality(ReadyIn(p)')
  BY <1>3 DEF HInv, ReadyIn
<1> QED BY <1>0, <1>3, <1>4, <1>5, <1>7, <1>8, <1>9, LoopFrame DEF HostTypeOK, Joined

\* What an event that makes sense to the application does to its view of a peer,
\* and whether it counts as ready.
LEMMA SensibleLemma ==
    ASSUME NEW t \in Told, NEW e, e.type \in PeerEvents, e.sid \in Sessions \cup {Nil}, Observe1(t, e).st # "bad"
    PROVE  /\ Observe1(t, e) \in Told
           /\ \/ Step(e.type) = 1 /\ t.st # "ready" /\ Observe1(t, e).st = "ready"
              \/ Step(e.type) = -1 /\ t.st = "ready" /\ Observe1(t, e).st # "ready"
              \/ Step(e.type) = 0 /\ (t.st = "ready" <=> Observe1(t, e).st = "ready")
PROOF
<1>0. t.st # "bad"
  BY ObserveLemma
<1>1. CASE e.type = "Request"
  BY <1>0, <1>1 DEF Observe1, Told, Step
<1>2. CASE e.type = "Ready"
  BY <1>0, <1>2 DEF Observe1, Told, Step
<1>3. CASE e.type = "Close"
  BY <1>0, <1>3 DEF Observe1, Told, Step, ToldIdle
<1>4. CASE e.type \in {"ObjectAppend", "ObjectDelete"}
  BY <1>0, <1>4 DEF Observe1, Told, Step
<1> QED BY <1>1, <1>2, <1>3, <1>4 DEF PeerEvents

\* Counting the worlds in which a peer is ready, after one of them has changed.
LEMMA CountLemma ==
    ASSUME NEW S, IsFiniteSet(S), NEW T, NEW l, NEW n \in {-1, 0, 1},
           \/ n = 1 /\ l \notin S /\ T = S \cup {l}
           \/ n = -1 /\ l \in S /\ T = S \ {l}
           \/ n = 0 /\ T = S
    PROVE  Cardinality(T) = Cardinality(S) + n /\ Cardinality(T) \in Nat /\ Cardinality(S) \in Nat
PROOF
<1>1. IsFiniteSet(S \cup {l}) /\ IsFiniteSet(S \ {l})
  BY FS_AddElement, FS_RemoveElement
<1>2. IsFiniteSet(T)
  BY <1>1
<1>3. Cardinality(S) \in Nat /\ Cardinality(T) \in Nat
  BY <1>2, FS_CardinalityType
<1>4. CASE n = 1 /\ l \notin S /\ T = S \cup {l}
  <2>1. Cardinality(T) = Cardinality(S) + 1
    BY <1>4, FS_AddElement
  <2> QED BY <1>3, <1>4, <2>1
<1>5. CASE n = -1 /\ l \in S /\ T = S \ {l}
  <2>1. Cardinality(T) = Cardinality(S) - 1
    BY <1>5, FS_RemoveElement
  <2> QED BY <1>3, <1>5, <2>1
<1>6. CASE n = 0 /\ T = S
  BY <1>3, <1>6
<1> QED BY <1>4, <1>5, <1>6

\* The event loop tells the application about a peer.
LEMMA PeerEventStep ==
    ASSUME HInv, eventCh # <<>>, eventCh' = Tail(eventCh), UNCHANGED <<vars, net>>,
           Head(eventCh).type \in PeerEvents, HandlePeerEvent(Head(eventCh))
    PROVE  HInv'
PROOF
<1>0. PICK e : e = Head(eventCh)
  OBVIOUS
<1>10. PICK l : l = e.lsid
  OBVIOUS
<1>11. PICK p : p = e.peer
  OBVIOUS
<1>12. PICK c : c = Observe1(view[l][p], e)
  OBVIOUS
<1>13. PICK n : n = Step(e.type)
  OBVIOUS
<1>1. /\ e \in HostEvents /\ EventOK(e) /\ Handled(Seen, e) /\ UNCHANGED <<worlds, used, join_hash>>
      /\ \A k \in Lsids : Requests(k)' = {i - 1 : i \in Requests(k) \ {1}}
      /\ \A k : 1 \in Requests(k) <=> e.type = "TimerRequest" /\ e.lsid = k
  BY <1>0, TakeLemma
<1>2. e.type \in PeerEvents /\ e.type \notin Answers \cup {"WorldLeave", "TimerRequest"}
  BY <1>0 DEF Answers, PeerEvents
<1>3. /\ l \in Lsids /\ p \in Peers /\ e.sid \in Sessions \cup {Nil} /\ result[l] = "success"
      /\ e.type = "Request" => e.sid \in Sessions
  BY <1>1, <1>2, <1>10, <1>11 DEF HostEvents, EventOK
<1>4. HostTypeOK /\ Joined /\ \A q \in Peers : active[q] = Cardinality(ReadyIn(q))
  BY DEF HInv
<1>5. hworlds[l] = "live" /\ c.st # "bad" /\ view[l][p] \in Told
  <2>1. hworlds[l] = "live" /\ c.st # "bad"
    BY <1>1, <1>2, <1>10, <1>11, <1>12 DEF Handled, Seen
  <2> QED BY <1>3, <1>4, <2>1 DEF HostTypeOK
<1>6. /\ c \in Told
      /\ \/ n = 1 /\ view[l][p].st # "ready" /\ c.st = "ready"
         \/ n = -1 /\ view[l][p].st = "ready" /\ c.st # "ready"
         \/ n = 0 /\ (view[l][p].st = "ready" <=> c.st = "ready")
  BY <1>2, <1>3, <1>5, <1>12, <1>13, SensibleLemma
<1>7. /\ view' = Put(view, l, p, c)
      /\ active' = [active EXCEPT ![p] = @ + n]
      /\ offers' = IF e.type = "Request" THEN offers \cup {[lsid |-> l, peer |-> p, sid |-> e.sid]} ELSE offers
      /\ dead' = CASE hworlds[l] = "absent" -> "world not found"
                   [] hworlds[l] = "nil" -> "nil world"
                   [] active[p] + n < 0 -> "deactivated"
                   [] OTHER -> dead
      /\ UNCHANGED <<hworlds, join_queue, join_res, api, timers>>
  BY <1>0, <1>10, <1>11, <1>12, <1>13 DEF HandlePeerEvent, Put, calls
<1>8. /\ view' \in [Lsids -> [Peers -> Told]] /\ view'[l][p] = c
      /\ \A k \in Lsids, q \in Peers : k # l \/ q # p => view'[k][q] = view[k][q]
  BY <1>3, <1>4, <1>6, <1>7 DEF HostTypeOK, Put
<1>9. Seen' = After(Seen, e)
  <2>1. Seen' = [w |-> hworlds, v |-> Put(view, l, p, c), a |-> used \ join_queue]
    BY <1>1, <1>7 DEF Seen
  <2>2. After(Seen, e) = [w |-> hworlds, v |-> Put(view, l, p, c), a |-> used \ join_queue]
    BY <1>2, <1>10, <1>11, <1>12 DEF After, Seen, Answers
  <2> QED BY <2>1, <2>2
<1>14. ASSUME NEW q \in Peers \ {p} PROVE ReadyIn(q)' = ReadyIn(q)
  BY <1>8, <1>14 DEF ReadyIn
<1>15. /\ Cardinality(ReadyIn(p)') = Cardinality(ReadyIn(p)) + n
       /\ Cardinality(ReadyIn(p)') \in Nat /\ Cardinality(ReadyIn(p)) \in Nat
  <2> DEFINE S == {k \in Lsids : view[k][p].st = "ready"}
             T == {k \in Lsids : view'[k][p].st = "ready"}
  <2>1. IsFiniteSet(S)
    BY FiniteAssumption, FS_Subset
  <2>2. \A k \in Lsids \ {l} : view'[k][p].st = view[k][p].st
    BY <1>3, <1>8
  <2>3. /\ l \in S <=> view[l][p].st = "ready"
        /\ l \in T <=> c.st = "ready"
        /\ \A k : k # l => (k \in S <=> k \in T)
    BY <1>3, <1>8, <2>2
  <2>4. S = ReadyIn(p) /\ T = ReadyIn(p)'
    BY DEF ReadyIn
  <2> HIDE DEF S, T
  <2>5. \/ n = 1 /\ l \notin S /\ T = S \cup {l}
        \/ n = -1 /\ l \in S /\ T = S \ {l}
        \/ n = 0 /\ T = S
    <3>1. CASE n = 1 /\ view[l][p].st # "ready" /\ c.st = "ready"
      BY <2>3, <3>1
    <3>2. CASE n = -1 /\ view[l][p].st = "ready" /\ c.st # "ready"
      BY <2>3, <3>2
    <3>3. CASE n = 0 /\ (view[l][p].st = "ready" <=> c.st = "ready")
      <4>1. l \in S <=> l \in T
        BY <2>3, <3>3
      <4>2. \A k : k \in S <=> k \in T
        BY <2>3, <4>1
      <4>3. S = T
        BY <4>2
      <4> QED BY <3>3, <4>3
    <3> QED BY <1>6, <3>1, <3>2, <3>3
  <2>6. Cardinality(T) = Cardinality(S) + n /\ Cardinality(T) \in Nat /\ Cardinality(S) \in Nat
    BY <1>6, <2>1, <2>5, CountLemma
  <2> QED BY <2>4, <2>6
<1>16. active[p] = Cardinality(ReadyIn(p)) /\ active[p] + n \in Nat
  BY <1>3, <1>4, <1>15
<1>17. /\ active' \in [Peers -> Nat] /\ active'[p] = active[p] + n
       /\ \A q \in Peers \ {p} : active'[q] = active[q]
  BY <1>3, <1>4, <1>7, <1>16 DEF HostTypeOK
<1>18. \A q \in Peers : active'[q] = Cardinality(ReadyIn(q)')
  <2>1. ASSUME NEW q \in Peers \ {p} PROVE active'[q] = Cardinality(ReadyIn(q)')
    BY <1>4, <1>14, <1>17, <2>1
  <2>2. active'[p] = Cardinality(ReadyIn(p)')
    BY <1>15, <1>16, <1>17
  <2>3. ASSUME NEW q \in Peers, q = p PROVE active'[q] = Cardinality(ReadyIn(q)')
    BY <2>2, <2>3 DEF ReadyIn
  <2> QED BY <2>1, <2>3
<1>19. dead' = dead
  <2>1. ~(active[p] + n < 0)
    BY <1>16
  <2> QED BY <1>5, <1>7, <2>1
<1>20. /\ offers' \subseteq [lsid : Lsids, peer : Peers, sid : Sessions]
       /\ \A o \in offers' : result[o.lsid] = "success"
  <2>0. PICK o : o = [lsid |-> l, peer |-> p, sid |-> e.sid]
    OBVIOUS
  <2>1. /\ offers \subseteq [lsid : Lsids, peer : Peers, sid : Sessions]
        /\ \A x \in offers : result[x.lsid] = "success"
    BY <1>4 DEF HostTypeOK, Joined
  <2>2. CASE e.type = "Request"
    <3>1. o \in [lsid : Lsids, peer : Peers, sid : Sessions] /\ o.lsid = l
      BY <1>3, <2>0, <2>2
    <3>2. offers' = offers \cup {o}
      BY <1>7, <2>0, <2>2
    <3> QED BY <1>3, <2>1, <3>1, <3>2
  <2>3. CASE e.type # "Request"
    BY <1>7, <2>1, <2>3
  <2> QED BY <2>2, <2>3
<1>21. \A k \in Lsids : TimerChain(k)'
  BY <1>1, <1>2, <1>7, TakeTimers
<1> QED BY <1>0, <1>4, <1>7, <1>8, <1>9, <1>17, <1>18, <1>19, <1>20, <1>21, LoopFrame DEF HostTypeOK, Joined

-----------------------------------------------------------------------------
(* The theorems *)

\* Nothing has happened and nothing is on its way.
LEMMA HostInitLemma ==
    ASSUME HostInit
    PROVE  HInv
PROOF
<1>1. IInv /\ Init
  BY InitLemma DEF HostInit
<1>2. ToldIdle \in Told /\ ToldIdle.st = "idle"
  BY AsLemma
<1>3. PICK s : s = <<>>
  OBVIOUS
<1>4. s \in Seq(HostEvents) /\ DOMAIN s = {} /\ eventCh = s
  BY <1>3 DEF HostInit
<1>5. view = [l \in Lsids |-> [p \in Peers |-> ToldIdle]] /\ view = told
  BY <1>1 DEF HostInit, Init
<1>6. HostTypeOK
  <2>1. view \in [Lsids -> [Peers -> Told]]
    BY <1>2, <1>5
  <2> QED BY <1>1, <1>4, <2>1 DEF HostInit, Init, HostTypeOK
<1>7. Joined /\ EventLoopSurvives
  BY <1>1 DEF HostInit, Init, Joined, EventLoopSurvives
<1>8. \A l \in Lsids : TimerChain(l)
  BY <1>1, <1>4 DEF HostInit, Init, TimerChain, Requests
<1>9. Leads(eventCh, Seen, Due)
  <2>1. Seen = [w |-> [l \in Lsids |-> "absent"], v |-> view, a |-> {}]
    BY <1>1 DEF HostInit, Init, Seen
  <2>2. [l \in Lsids |-> Standing(l \in worlds, result[l])] = [l \in Lsids |-> "absent"]
    BY <1>1 DEF Init, Standing
  <2>3. {l \in used : result[l] # "none"} = {}
    BY <1>1 DEF Init
  <2>4. Due = [w |-> [l \in Lsids |-> "absent"], v |-> view, a |-> {}]
    BY <1>5, <2>2, <2>3 DEF Due
  <2>5. Leads(<<>>, Seen, Seen)
    BY LeadsShort
  <2> QED BY <1>3, <1>4, <2>1, <2>4, <2>5
<1>10. \A p \in Peers : active[p] = Cardinality(ReadyIn(p))
  <2> SUFFICES ASSUME NEW p \in Peers PROVE active[p] = Cardinality(ReadyIn(p))
    OBVIOUS
  <2>1. ReadyIn(p) = {}
    BY <1>2, <1>5 DEF ReadyIn
  <2>2. active[p] = 0
    BY DEF HostInit
  <2> QED BY <2>1, <2>2, FS_EmptySet
<1>11. \A k \in DOMAIN eventCh : EventOK(eventCh[k])
  BY <1>4
<1> QED BY <1>1, <1>6, <1>7, <1>8, <1>9, <1>10, <1>11 DEF HInv

\* No step of the host breaks the invariant.
LEMMA HostNextLemma ==
    ASSUME HInv, [HostNext]_hvars
    PROVE  HInv'
PROOF
<1>1. CASE UNCHANGED hvars
  <2>1. UNCHANGED vars /\ Quietly /\ [Next]_vars /\ UNCHANGED <<net, calls, app, dead>>
    BY <1>1 DEF hvars, Quietly
  <2>2. /\ Pushes /\ UNCHANGED <<peers, worlds, used, result>>
        /\ timers' = timers => \A l \in Lsids : TimerChain(l)'
    BY <2>1, QuietLemma
  <2>3. UNCHANGED <<hworlds, timers, view, active, offers, join_queue, join_res, api, serving, pathMap>>
    BY <2>1 DEF calls, app, net
  <2>4. HostTypeOK /\ Joined
    BY DEF HInv
  <2> QED BY <2>1, <2>2, <2>3, <2>4, FrameLemma DEF HostTypeOK, Joined
<1>2. CASE HostNext
  <2>0. [Next]_vars
    BY <1>2, Drives
  <2>1. CASE Callers
    <3>1. PICK l \in Lsids :
             \/ HostOpenWorld(l)
             \/ \E target \in Peers : HostJoinWorld(l, target)
             \/ OpenReturn(l)
             \/ JoinReturn(l)
             \/ ContextDone(l)
             \/ WatchdogCloses(l)
             \/ WatchdogReturns(l)
             \/ LeaveWorld(l)
             \/ TimerFires(l)
             \/ \E path \in Paths : TrySetMapping(path, l)
      BY <2>1 DEF Callers
    <3>2. CASE HostOpenWorld(l)
      BY <2>0, <3>2, OpenStep
    <3>3. CASE \E target \in Peers : HostJoinWorld(l, target)
      BY <2>0, <3>3, JoinStep
    <3>4. CASE WatchdogCloses(l) \/ LeaveWorld(l)
      BY <2>0, <3>4, LeaveSteps
    <3>5. CASE TimerFires(l)
      BY <2>0, <3>5, TimerStep
    <3>6. CASE OpenReturn(l) \/ JoinReturn(l) \/ ContextDone(l) \/ WatchdogReturns(l)
               \/ \E path \in Paths : TrySetMapping(path, l)
      BY <3>6, QuietSteps
    <3> QED BY <3>1, <3>2, <3>3, <3>4, <3>5, <3>6
  <2>2. CASE Members
    BY <2>0, <2>2, MembersStep DEF Members
  <2>3. CASE Network
    <3>1. PICK p \in Peers : ServeStart(p) \/ ServeStop(p) \/ Serve(p)
      BY <2>3 DEF Network
    <3>2. CASE ServeStop(p)
      BY <3>2, QuietSteps
    <3> QED BY <2>0, <3>1, <3>2, ServeStartStep, ServeStep
  <2>4. CASE EventLoop
    <3>1. eventCh # <<>> /\ eventCh' = Tail(eventCh) /\ UNCHANGED <<vars, net>>
      BY <2>4 DEF EventLoop
    <3>2. CASE \/ Head(eventCh).type = "JoinSuccess" /\ HandleJoinResult(Head(eventCh), "live", "ok")
               \/ Head(eventCh).type = "JoinFail" /\ HandleJoinResult(Head(eventCh), "nil", "fail")
      BY <3>1, <3>2, JoinResultStep
    <3>3. CASE Head(eventCh).type = "WorldLeave" /\ HandleWorldLeave(Head(eventCh))
      BY <3>1, <3>3, WorldLeaveStep
    <3>4. CASE Head(eventCh).type \in PeerEvents /\ HandlePeerEvent(Head(eventCh))
      BY <3>1, <3>4, PeerEventStep
    <3>5. CASE Head(eventCh).type = "TimerRequest" /\ HandleTimerRequest(Head(eventCh))
      BY <3>1, <3>5, TimerRequestStep
    <3>6. CASE Head(eventCh).type \in NetEvents /\ HandleNetRequest
      BY <3>1, <3>6, NetStep
    <3> QED BY <2>4, <3>2, <3>3, <3>4, <3>5, <3>6 DEF EventLoop, PeerEvents, NetEvents
  <2>5. CASE \E path \in Paths : DeleteMapping(path)
    BY <2>5, QuietSteps
  <2> QED BY <1>2, <2>1, <2>2, <2>3, <2>4, <2>5 DEF HostNext
<1> QED BY <1>1, <1>2

\* In every reachable state of the host, the events on their way lead from what
\* the event loop has seen to what AND has decided, and the rest of HInv.
THEOREM HostInvariance == HostSpec => []HInv
PROOF
<1>1. HostInit => HInv
  BY HostInitLemma
<1>2. HInv /\ [HostNext]_hvars => HInv'
  BY HostNextLemma
<1> QED BY <1>1, <1>2, PTL DEF HostSpec

\* The event loop of host.go: whatever the order in which callers, serve loops,
\* timers and the loop itself run, every event finds the World it is for, no
\* peer is deactivated more often than activated, and every join result has a
\* caller; the early WorldLeave of a canceled join is the only way to die.
THEOREM LoopSurvives == HostSpec => []EventLoopSurvives
PROOF
<1>1. HInv => EventLoopSurvives
  BY DEF HInv
<1> QED BY <1>1, HostInvariance, PTL

\* Activate and Deactivate: the counter on which the cleaner decides is the
\* number of worlds in which the application has the peer as a ready member.
THEOREM ActivityCounts == HostSpec => []ActivityIsMembership
PROOF
<1>1. HInv => ActivityIsMembership
  BY DEF HInv, ActivityIsMembership, ReadyIn
<1> QED BY <1>1, HostInvariance, PTL

\* EANDTimerRequest and TimerExpire: a world that was opened has one timer,
\* running or requested, until it is closed, and at most one afterwards.
THEOREM TimersAreSingle == HostSpec => []OneTimerChain
PROOF
<1>1. ASSUME HInv PROVE OneTimerChain
  <2> SUFFICES ASSUME NEW l \in Lsids
               PROVE  /\ timers[l] + Cardinality(Requests(l)) <= 1
                      /\ l \in worlds /\ join_hash[l] = Nil => timers[l] + Cardinality(Requests(l)) = 1
    BY DEF OneTimerChain
  <2>1. TimerChain(l) /\ timers[l] \in {0, 1}
    BY <1>1 DEF HInv, HostTypeOK
  <2>2. Requests(l) = {} => Cardinality(Requests(l)) = 0
    BY FS_EmptySet
  <2>3. Requests(l) # {} => Cardinality(Requests(l)) = 1
    <3> SUFFICES ASSUME NEW k \in Requests(l) PROVE Cardinality(Requests(l)) = 1
      OBVIOUS
    <3>1. Requests(l) = {k}
      BY <2>1 DEF TimerChain
    <3> QED BY <3>1, FS_Singleton
  <2> QED BY <2>1, <2>2, <2>3 DEF TimerChain
<1> QED BY <1>1, HostInvariance, PTL

\* The calls of the host are calls that module AND expects: every behaviour of
\* the host is, seen from AND, a behaviour of AND, and so everything proved of
\* AND holds inside the host.
THEOREM HostDrivesAND == HostSpec => DrivesAND
PROOF
<1>1. HostInit => Init
  BY DEF HostInit
<1>2. HInv /\ [HostNext]_hvars => [Next]_vars
  <2> SUFFICES ASSUME HInv, [HostNext]_hvars PROVE [Next]_vars
    OBVIOUS
  <2>1. CASE HostNext
    BY <2>1, Drives
  <2>2. CASE UNCHANGED hvars
    BY <2>2 DEF hvars
  <2> QED BY <2>1, <2>2
<1> QED BY <1>1, <1>2, HostInvariance, PTL DEF HostSpec, DrivesAND, Spec
=============================================================================
