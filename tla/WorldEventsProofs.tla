------------------------- MODULE WorldEventsProofs --------------------------
(***************************************************************************)
(* The events of a world reach the application once, in order, and with    *)
(* EWorldTerminate last, for any number of worlds, goroutines and threads  *)
(* and for channels of any size.                                           *)
(*                                                                         *)
(* EventsInOrder is not inductive: the event loop panics, and loses the    *)
(* event, if it does not find the world.  The invariant therefore also     *)
(* says that a world that AND knows is in the map of the host or about to  *)
(* be (Found), that nothing is pushed after a WorldLeave (LastIsLeave) and *)
(* why: api_mtx is held from the look-up of the world to its removal       *)
(* (Locking).                                                              *)
(***************************************************************************)
EXTENDS WorldEvents, TLAPS

-----------------------------------------------------------------------------
(* The inductive invariant *)

Raised == {"request", "member", "leave"}

CallKinds == {"open", "net", "answer", "leave"}

\* What may be left of the burst of a call.
Rest(call) ==
    CASE call = "open"   -> {<<"success", "host">>, <<"host">>, <<>>}
      [] call = "net"    -> {<<"request">>, <<"member">>, <<"host">>, <<>>}
      [] call = "answer" -> {<<"member">>, <<>>}
      [] call = "leave"  -> {<<"member", "leave">>, <<"leave">>, <<>>}
      [] OTHER -> {<<>>}

ThreadRec == [at : {"idle", "lock", "push", "result", "wait"}, call : CallKinds \cup {"none"},
              world : Worlds \cup {None}, todo : Seq(Kinds)]

ThreadOK(r) ==
    /\ r.todo \in Rest(r.call)
    /\ r.at = "idle" => r = Idle
    /\ r.at # "idle" => r.world \in Worlds
    /\ r.at # "push" => r.todo = <<>>
    /\ r.at \in {"lock", "push"} => r.call \in CallKinds

TypeOK ==
    /\ mtx \in Threads \cup {None}
    /\ thread \in [Threads -> ThreadRec] /\ \A t \in Threads : ThreadOK(thread[t])
    /\ eventCh \in Seq(Events)
    /\ loop \in Events \cup {None}
    /\ worldCh \in [Worlds -> Seq(Events)]
    /\ opened \subseteq Worlds /\ awake \subseteq Worlds /\ hworlds \subseteq Worlds
    /\ results \subseteq Worlds /\ held \subseteq Worlds /\ ended \subseteq Worlds
    /\ asked \subseteq Events
    /\ pushed \in [Worlds -> Nat] /\ got \in [Worlds -> Nat]

\* Thread t is in the part of OpenWorld that AND does, for world w.
Opening(t, w) == thread[t].call = "open" /\ thread[t].world = w /\ thread[t].at \in {"lock", "push"}

\* The mutex is held from the choice of the events to the end of the call, by
\* one thread, and what a call still has to push is about a world of AND.
Locking ==
    /\ \A t \in Threads : thread[t].at = "push" <=> mtx = t
    /\ \A t \in Threads : thread[t].at = "push" /\ thread[t].todo # <<>> /\ thread[t].call # "open"
                          => thread[t].world \in awake
    /\ awake \subseteq opened
    /\ \A t \in Threads, w \in Worlds : Opening(t, w) => w \in opened \ awake
    /\ \A t, u \in Threads, w \in Worlds : Opening(t, w) /\ Opening(u, w) => t = u

\* The events that are raised on a World are the numbered ones.
Numbered ==
    /\ \A k \in DOMAIN eventCh : eventCh[k].n # 0 <=> eventCh[k].kind \in Raised
    /\ loop # None => loop.n # 0

Leaves(w, e) == e.world = w /\ e.kind = "leave"

\* The WorldLeave of w was pushed.
Left(w) ==
    \/ w \in ended
    \/ loop # None /\ Leaves(w, loop)
    \/ \E k \in DOMAIN eventCh : Leaves(w, eventCh[k])
    \/ \E k \in DOMAIN worldCh[w] : Leaves(w, worldCh[w][k])

\* Nothing can be pushed for w any more: AND does not know it, or the call that
\* closes it has pushed its last event.
Closed(w) ==
    /\ w \in opened
    /\ \A t \in Threads : ~Opening(t, w)
    /\ w \in awake => /\ mtx \in Threads /\ thread[mtx].world = w
                      /\ thread[mtx].call = "leave" /\ thread[mtx].todo = <<>>

LastIsLeave ==
    \A w \in Worlds :
        /\ Left(w) => Closed(w)
        /\ w \in ended => got[w] = pushed[w]
        /\ loop # None /\ Leaves(w, loop) => loop.n = pushed[w]
        /\ \A k \in DOMAIN eventCh : Leaves(w, eventCh[k]) => eventCh[k].n = pushed[w]
        /\ \A k \in DOMAIN worldCh[w] : Leaves(w, worldCh[w][k]) => worldCh[w][k].n = pushed[w]

Success(w, e) == e.world = w /\ e.kind = "success"

\* The host has a World object for w, or will have it before later events.
Ready(w) == w \in hworlds \/ \E k \in DOMAIN eventCh : Success(w, eventCh[k])

Found ==
    /\ panicked = FALSE
    /\ \A w \in awake : Left(w) \/ Ready(w)
    /\ \A t \in Threads, w \in Worlds :
          Opening(t, w) /\ thread[t].at = "push" /\ thread[t].todo # <<"success", "host">> => Ready(w)
    /\ \A k \in DOMAIN eventCh : eventCh[k].kind \in Raised =>
          \/ eventCh[k].world \in hworlds
          \/ \E j \in 1..k - 1 : Success(eventCh[k].world, eventCh[j])

IInv == TypeOK /\ Locking /\ Numbered /\ EventsInOrder /\ LastIsLeave /\ Found

-----------------------------------------------------------------------------
(* Bursts *)

\* The first event of a burst and what is left after it.
LEMMA RestLemma ==
    ASSUME NEW call \in CallKinds, NEW todo \in Rest(call), todo # <<>>
    PROVE  /\ Head(todo) \in Kinds
           /\ Tail(todo) \in Rest(call) /\ Tail(todo) \in Seq(Kinds)
           /\ Tail(todo) # <<"success", "host">>
           /\ Head(todo) = "leave" => call = "leave" /\ Tail(todo) = <<>>
           /\ call = "open" => Head(todo) \notin Raised
           /\ todo = <<"success", "host">> => Head(todo) = "success"
PROOF
<1>1. CASE todo = <<"success", "host">>
  BY <1>1 DEF Rest, CallKinds, Kinds, Raised
<1>2. CASE todo = <<"member", "leave">>
  BY <1>2 DEF Rest, CallKinds, Kinds, Raised
<1>3. ASSUME NEW kind \in Kinds, todo = <<kind>>, kind # "success",
             kind = "leave" => call = "leave", call = "open" => kind = "host"
      PROVE  /\ Head(todo) \in Kinds /\ Tail(todo) = <<>>
             /\ Head(todo) = "leave" => call = "leave"
             /\ call = "open" => Head(todo) \notin Raised
             /\ todo # <<"success", "host">>
  BY <1>3 DEF Kinds, Raised
<1>4. <<>> \in Rest(call) /\ <<>> \in Seq(Kinds) /\ <<>> # <<"success", "host">>
  BY DEF Rest, CallKinds
<1>5. CASE \E kind \in Kinds : /\ todo = <<kind>> /\ kind # "success"
                               /\ kind = "leave" => call = "leave"
                               /\ call = "open" => kind = "host"
  BY <1>3, <1>4, <1>5
<1>6. todo \in {<<"success", "host">>, <<"member", "leave">>} \/
      \E kind \in Kinds : /\ todo = <<kind>> /\ kind # "success"
                          /\ kind = "leave" => call = "leave"
                          /\ call = "open" => kind = "host"
  <2>1. CASE call = "open"
    BY <2>1 DEF Rest, Kinds
  <2>2. CASE call = "net"
    BY <2>2 DEF Rest, Kinds
  <2>3. CASE call = "answer"
    BY <2>3 DEF Rest, Kinds
  <2>4. CASE call = "leave"
    BY <2>4 DEF Rest, Kinds
  <2> QED BY <2>1, <2>2, <2>3, <2>4 DEF CallKinds
<1> QED BY <1>1, <1>2, <1>5, <1>6

\* A burst is what a call has to push before it has pushed anything.
LEMMA BurstLemma ==
    ASSUME NEW call \in CallKinds, NEW burst \in Bursts(call) \cup {<<>>}
    PROVE  /\ burst \in Rest(call) /\ burst \in Seq(Kinds)
           /\ call = "open" /\ burst # <<>> => burst = <<"success", "host">>
PROOF
<1>1. /\ <<>> \in Seq(Kinds) /\ <<"success", "host">> \in Seq(Kinds) /\ <<"member", "leave">> \in Seq(Kinds)
      /\ \A kind \in Kinds : <<kind>> \in Seq(Kinds)
  BY DEF Kinds
<1>2. CASE call = "open"
  <2>1. Bursts(call) = {<<"success", "host">>} /\ Rest(call) = {<<"success", "host">>, <<"host">>, <<>>}
    BY <1>2 DEF Rest, Bursts
  <2> QED BY <1>1, <2>1
<1>3. CASE call = "net"
  <2>1. /\ Bursts(call) = {<<"request">>, <<"member">>, <<"host">>}
        /\ Rest(call) = {<<"request">>, <<"member">>, <<"host">>, <<>>}
    BY <1>3 DEF Rest, Bursts
  <2> QED BY <1>1, <1>3, <2>1 DEF Kinds
<1>4. CASE call = "answer"
  <2>1. Bursts(call) = {<<>>, <<"member">>} /\ Rest(call) = {<<"member">>, <<>>}
    BY <1>4 DEF Rest, Bursts
  <2> QED BY <1>1, <1>4, <2>1 DEF Kinds
<1>5. CASE call = "leave"
  <2>1. /\ Bursts(call) = {<<"leave">>, <<"member", "leave">>}
        /\ Rest(call) = {<<"member", "leave">>, <<"leave">>, <<>>}
    BY <1>5 DEF Rest, Bursts
  <2> QED BY <1>1, <1>5, <2>1 DEF Kinds
<1> QED BY <1>2, <1>3, <1>4, <1>5 DEF CallKinds

-----------------------------------------------------------------------------
(* Types *)

\* The records that the actions store for a thread.
LEMMA RecLemma ==
    /\ Idle \in ThreadRec /\ ThreadOK(Idle)
    /\ Idle.at = "idle" /\ Idle.call = "none" /\ Idle.world = None /\ Idle.todo = <<>>
    /\ \A call \in CallKinds, w \in Worlds :
          LET r == [at |-> "lock", call |-> call, world |-> w, todo |-> <<>>]
          IN  r \in ThreadRec /\ ThreadOK(r)
    /\ \A w \in Worlds :
          LET r == [Idle EXCEPT !.at = "wait", !.world = w]
          IN  r \in ThreadRec /\ ThreadOK(r) /\ r.at = "wait" /\ r.call = "none" /\ r.world = w
PROOF
<1>1. <<>> \in Seq(Kinds) /\ \A call \in CallKinds \cup {"none"} : <<>> \in Rest(call)
  BY DEF Rest, CallKinds
<1> QED BY <1>1 DEF Idle, ThreadRec, ThreadOK

\* Storing such a record keeps the types of the threads.
LEMMA ThreadLemma ==
    ASSUME TypeOK, NEW t \in Threads, NEW r \in ThreadRec, ThreadOK(r),
           thread' = [thread EXCEPT ![t] = r]
    PROVE  thread' \in [Threads -> ThreadRec] /\ \A u \in Threads : ThreadOK(thread'[u])
  BY DEF TypeOK

\* Every action keeps the types.
LEMMA TypeStep ==
    ASSUME TypeOK, [Next]_vars
    PROVE  TypeOK'
PROOF
<1> USE DEF Threads
<1>1. ASSUME NEW t \in Threads, Lock(t) PROVE TypeOK'
  <2>1. PICK burst \in IF Known(t) THEN Bursts(thread[t].call) ELSE {<<>>} :
           thread' = [thread EXCEPT ![t].at = "push", ![t].todo = burst]
    BY <1>1 DEF Lock
  <2>2. thread[t] \in ThreadRec /\ ThreadOK(thread[t]) /\ thread[t].at = "lock"
    BY <1>1 DEF Lock, TypeOK
  <2>3. thread[t].call \in CallKinds /\ thread[t].world \in Worlds
    BY <2>2 DEF ThreadOK
  <2>4. burst \in Rest(thread[t].call) /\ burst \in Seq(Kinds)
    BY <2>3, BurstLemma
  <2> DEFINE r == [thread[t] EXCEPT !.at = "push", !.todo = burst]
  <2>5. r \in ThreadRec /\ ThreadOK(r)
    BY <2>2, <2>3, <2>4 DEF ThreadRec, ThreadOK
  <2>6. thread' = [thread EXCEPT ![t] = r]
    BY <2>1
  <2> HIDE DEF r
  <2>7. thread' \in [Threads -> ThreadRec] /\ \A u \in Threads : ThreadOK(thread'[u])
    BY <2>5, <2>6, ThreadLemma
  <2> QED BY <1>1, <2>7 DEF Lock, TypeOK
<1>2. ASSUME NEW t \in Threads, Push(t) PROVE TypeOK'
  <2>1. thread[t] \in ThreadRec /\ ThreadOK(thread[t]) /\ thread[t].at = "push" /\ thread[t].todo # <<>>
    BY <1>2 DEF Push, TypeOK
  <2>2. thread[t].call \in CallKinds /\ thread[t].world \in Worlds /\ thread[t].todo \in Rest(thread[t].call)
    BY <2>1 DEF ThreadOK
  <2>3. /\ Head(thread[t].todo) \in Kinds
        /\ Tail(thread[t].todo) \in Rest(thread[t].call) /\ Tail(thread[t].todo) \in Seq(Kinds)
    BY <2>1, <2>2, RestLemma
  <2> DEFINE r == [thread[t] EXCEPT !.todo = Tail(@)]
  <2>4. r \in ThreadRec /\ ThreadOK(r)
    BY <2>1, <2>2, <2>3 DEF ThreadRec, ThreadOK
  <2>5. thread' = [thread EXCEPT ![t] = r]
    BY <1>2 DEF Push
  <2> HIDE DEF r
  <2>6. thread' \in [Threads -> ThreadRec] /\ \A u \in Threads : ThreadOK(thread'[u])
    BY <2>4, <2>5, ThreadLemma
  <2> DEFINE n == IF Head(thread[t].todo) \in {"request", "member", "leave"}
                  THEN pushed[thread[t].world] + 1 ELSE 0
             e == [world |-> thread[t].world, kind |-> Head(thread[t].todo), n |-> n]
  <2>7. n \in Nat /\ eventCh' = Append(eventCh, e)
    BY <1>2, <2>2 DEF Push, TypeOK
  <2>8. eventCh' \in Seq(Events)
    <3> HIDE DEF n
    <3>1. e \in Events
      BY <2>2, <2>3, <2>7 DEF Events
    <3> HIDE DEF e
    <3> QED BY <2>7, <3>1 DEF TypeOK
  <2> HIDE DEF n, e
  <2>9. pushed' \in [Worlds -> Nat]
    BY <1>2, <2>2 DEF Push, TypeOK
  <2> QED BY <1>2, <2>6, <2>8, <2>9 DEF Push, TypeOK
<1>3. ASSUME NEW t \in Threads, Unlock(t) PROVE TypeOK'
  <2>1. thread[t] \in ThreadRec /\ ThreadOK(thread[t]) /\ thread[t].at = "push" /\ thread[t].todo = <<>>
    BY <1>3 DEF Unlock, TypeOK
  <2>2. thread[t].world \in Worlds
    BY <2>1 DEF ThreadOK
  <2> DEFINE r == [thread[t] EXCEPT !.at = "result"]
  <2>3. r \in ThreadRec /\ ThreadOK(r)
    BY <2>1, <2>2 DEF ThreadRec, ThreadOK
  <2>4. thread' = [thread EXCEPT ![t] = IF thread[t].call = "open" THEN r ELSE Idle]
    BY <1>3 DEF Unlock
  <2> HIDE DEF r
  <2>5. thread' \in [Threads -> ThreadRec] /\ \A u \in Threads : ThreadOK(thread'[u])
    BY <2>3, <2>4, ThreadLemma, RecLemma
  <2> QED BY <1>3, <2>2, <2>5 DEF Unlock, TypeOK, AwakeAfter
<1>4. ASSUME NEW t \in Threads, OpenReturns(t) PROVE TypeOK'
  <2>1. thread' \in [Threads -> ThreadRec] /\ \A u \in Threads : ThreadOK(thread'[u])
    BY <1>4, ThreadLemma, RecLemma DEF OpenReturns
  <2>2. thread[t].world \in Worlds
    BY <1>4 DEF OpenReturns, TypeOK, ThreadOK
  <2> QED BY <1>4, <2>1, <2>2 DEF OpenReturns, TypeOK
<1>5. ASSUME NEW t \in Threads, NEW call \in CallKinds, NEW w \in Worlds, Busy(t, call, w)
      PROVE  thread' \in [Threads -> ThreadRec] /\ \A u \in Threads : ThreadOK(thread'[u])
  <2> DEFINE r == [at |-> "lock", call |-> call, world |-> w, todo |-> <<>>]
  <2>1. r \in ThreadRec /\ ThreadOK(r)
    BY RecLemma
  <2>2. thread' = [thread EXCEPT ![t] = r]
    BY <1>5 DEF Busy
  <2> HIDE DEF r
  <2> QED BY <2>1, <2>2, ThreadLemma
<1>6. ASSUME NEW t \in Threads, NEW w \in Worlds, NetCall(t, w) \/ WorldLeave(t, w) PROVE TypeOK'
  BY <1>5, <1>6 DEF NetCall, WorldLeave, TypeOK, CallKinds
<1>7. ASSUME NEW t \in Threads, NEW w \in Worlds, OpenWorld(t, w) PROVE TypeOK'
  BY <1>5, <1>7 DEF OpenWorld, TypeOK, CallKinds
<1>8. ASSUME NEW t \in Threads, NEW r \in asked, Answer(t, r) PROVE TypeOK'
  <2>1. r.world \in Worlds
    BY DEF TypeOK, Events
  <2> QED BY <1>5, <1>8, <2>1 DEF Answer, TypeOK, CallKinds
<1>9. ASSUME NEW t \in Threads, NEW w \in Worlds, WaitEvent(t, w) PROVE TypeOK'
  <2>1. thread' \in [Threads -> ThreadRec] /\ \A u \in Threads : ThreadOK(thread'[u])
    BY <1>9, ThreadLemma, RecLemma DEF WaitEvent
  <2> QED BY <1>9, <2>1 DEF WaitEvent, TypeOK
<1>10. ASSUME NEW t \in Threads, Receive(t) PROVE TypeOK'
  <2>1. thread' \in [Threads -> ThreadRec] /\ \A u \in Threads : ThreadOK(thread'[u])
    BY <1>10, ThreadLemma, RecLemma DEF Receive
  <2>2. thread[t].world \in Worlds
    BY <1>10 DEF Receive, TypeOK, ThreadOK
  <2>3. worldCh[thread[t].world] \in Seq(Events) /\ worldCh[thread[t].world] # <<>>
    BY <1>10, <2>2 DEF Receive, TypeOK
  <2>4. Head(worldCh[thread[t].world]) \in Events /\ Tail(worldCh[thread[t].world]) \in Seq(Events)
    BY <2>3
  <2> QED BY <1>10, <2>1, <2>2, <2>4 DEF Receive, TypeOK
<1>11. ASSUME LoopHandles PROVE TypeOK'
  <2>1. Head(eventCh) \in Events /\ Tail(eventCh) \in Seq(Events)
    BY <1>11 DEF LoopHandles, TypeOK
  <2>2. Head(eventCh).world \in Worlds
    BY <2>1 DEF Events
  <2> QED BY <1>11, <2>1, <2>2 DEF LoopHandles, TypeOK
<1>12. ASSUME LoopTakes PROVE TypeOK'
  <2>1. Head(eventCh) \in Events /\ Tail(eventCh) \in Seq(Events)
    BY <1>12 DEF LoopTakes, TypeOK
  <2> QED BY <1>12, <2>1 DEF LoopTakes, TypeOK
<1>13. ASSUME Raise PROVE TypeOK'
  <2>1. loop \in Events /\ loop.world \in Worlds
    BY <1>13 DEF Raise, TypeOK, Events
  <2>2. worldCh' \in [Worlds -> Seq(Events)]
    BY <1>13, <2>1 DEF Raise, TypeOK
  <2> QED BY <1>13, <2>2 DEF Raise, TypeOK
<1>14. CASE UNCHANGED vars
  BY <1>14 DEF vars, TypeOK
<1>15. Callers \subseteq Threads
  BY PathAssumption
<1> QED BY <1>1, <1>2, <1>3, <1>4, <1>6, <1>7, <1>8, <1>9, <1>10, <1>11, <1>12, <1>13, <1>14, <1>15
        DEF Next, EventLoop, Continue, Read

-----------------------------------------------------------------------------
(* The mutex and the worlds of AND *)

\* What the other threads do is not changed by a step of t.
LEMMA OthersLemma ==
    ASSUME TypeOK, NEW t \in Threads, NEW r, thread' = [thread EXCEPT ![t] = r]
    PROVE  thread'[t] = r /\ \A u \in Threads \ {t} : thread'[u] = thread[u]
  BY DEF TypeOK

\* A thread that begins or ends a call, or that waits for an event, outside
\* of AND.
LEMMA OutsideLemma ==
    ASSUME TypeOK, Locking, NEW t \in Threads, NEW r, thread' = [thread EXCEPT ![t] = r],
           thread[t].at # "push", r.at # "push", ~(r.call = "open" /\ r.at = "lock"),
           UNCHANGED <<mtx, opened, awake>>
    PROVE  Locking'
PROOF
<1>1. thread'[t] = r /\ \A u \in Threads \ {t} : thread'[u] = thread[u]
  BY OthersLemma
<1>2. \A w \in Worlds : ~Opening(t, w)'
  BY <1>1 DEF Opening
<1>3. \A u \in Threads \ {t}, w \in Worlds : Opening(u, w)' <=> Opening(u, w)
  BY <1>1 DEF Opening
<1>4. \A u \in Threads : thread'[u].at = "push" <=> (thread[u].at = "push" /\ u # t)
  BY <1>1
<1> QED BY <1>1, <1>2, <1>3, <1>4 DEF Locking

\* Only the holder of api_mtx pushes, and only about worlds that AND knows.
LEMMA LockingStep ==
    ASSUME TypeOK, Locking, [Next]_vars
    PROVE  Locking'
PROOF
<1> USE DEF Threads
<1>1. ASSUME NEW t \in Threads, Lock(t) PROVE Locking'
  <2>1. PICK burst \in IF Known(t) THEN Bursts(thread[t].call) ELSE {<<>>} :
           thread' = [thread EXCEPT ![t].at = "push", ![t].todo = burst]
    BY <1>1 DEF Lock
  <2> DEFINE r == [thread[t] EXCEPT !.at = "push", !.todo = burst]
  <2>2. thread' = [thread EXCEPT ![t] = r]
    BY <2>1
  <2>3. r.at = "push" /\ r.todo = burst /\ r.call = thread[t].call /\ r.world = thread[t].world
    BY DEF TypeOK, ThreadRec
  <2> HIDE DEF r
  <2>4. thread'[t] = r /\ \A u \in Threads \ {t} : thread'[u] = thread[u]
    BY <2>2, OthersLemma
  <2>5. thread[t].at = "lock" /\ mtx = None /\ mtx' = t /\ UNCHANGED <<opened, awake>>
    BY <1>1 DEF Lock
  <2>6. \A u \in Threads, w \in Worlds : Opening(u, w)' <=> Opening(u, w)
    BY <2>3, <2>4, <2>5 DEF Opening
  <2>7. burst # <<>> /\ thread[t].call # "open" => thread[t].world \in awake
    BY <2>1 DEF Known
  <2>8. \A u \in Threads : thread[u].at # "push"
    BY <2>5, PathAssumption DEF Locking
  <2> QED BY <2>3, <2>4, <2>5, <2>6, <2>7, <2>8 DEF Locking
<1>2. ASSUME NEW t \in Threads, Push(t) PROVE Locking'
  <2> DEFINE r == [thread[t] EXCEPT !.todo = Tail(@)]
  <2>1. thread' = [thread EXCEPT ![t] = r] /\ thread[t].at = "push" /\ thread[t].todo # <<>>
    BY <1>2 DEF Push
  <2>2. r.at = thread[t].at /\ r.call = thread[t].call /\ r.world = thread[t].world
    BY DEF TypeOK, ThreadRec
  <2> HIDE DEF r
  <2>3. thread'[t] = r /\ \A u \in Threads \ {t} : thread'[u] = thread[u]
    BY <2>1, OthersLemma
  <2>4. \A u \in Threads, w \in Worlds : Opening(u, w)' <=> Opening(u, w)
    BY <2>2, <2>3 DEF Opening
  <2>5. UNCHANGED <<mtx, opened, awake>>
    BY <1>2 DEF Push
  <2> QED BY <2>1, <2>2, <2>3, <2>4, <2>5 DEF Locking
<1>3. ASSUME NEW t \in Threads, Unlock(t) PROVE Locking'
  <2>1. PICK r : thread' = [thread EXCEPT ![t] = r] /\ r.at # "push" /\ r.at # "lock"
    <3>1. thread[t] \in ThreadRec
      BY DEF TypeOK
    <3>2. [thread[t] EXCEPT !.at = "result"].at = "result" /\ Idle.at = "idle"
      BY <3>1 DEF ThreadRec, Idle
    <3>3. thread' = [thread EXCEPT ![t] = IF thread[t].call = "open"
                                          THEN [thread[t] EXCEPT !.at = "result"] ELSE Idle]
      BY <1>3 DEF Unlock
    <3> QED BY <3>2, <3>3
  <2>2. thread'[t] = r /\ \A u \in Threads \ {t} : thread'[u] = thread[u]
    BY <2>1, OthersLemma
  <2>3. thread[t].at = "push" /\ mtx = t /\ mtx' = None /\ thread[t].world \in Worlds
    BY <1>3 DEF Unlock, Locking, TypeOK, ThreadOK
  <2>4. \A u \in Threads : thread'[u].at # "push"
    BY <2>1, <2>2, <2>3 DEF Locking
  <2>5. \A u \in Threads, w \in Worlds : Opening(u, w)' <=> (Opening(u, w) /\ u # t)
    BY <2>1, <2>2 DEF Opening
  <2>6. UNCHANGED opened /\ awake' = AwakeAfter(t)
    BY <1>3 DEF Unlock
  <2>7. CASE thread[t].call = "open"
    <3>1. Opening(t, thread[t].world) /\ awake' = awake \cup {thread[t].world}
      BY <2>3, <2>6, <2>7 DEF Opening, AwakeAfter
    <3> QED BY <2>3, <2>4, <2>5, <2>6, <3>1, PathAssumption DEF Locking
  <2>8. CASE thread[t].call # "open"
    <3>1. awake' \subseteq awake
      BY <2>6, <2>8 DEF AwakeAfter
    <3> QED BY <2>3, <2>4, <2>5, <2>6, <3>1, PathAssumption DEF Locking
  <2> QED BY <2>7, <2>8
<1>4. ASSUME NEW t \in Threads, OpenReturns(t) PROVE Locking'
  <2>1. thread' = [thread EXCEPT ![t] = Idle] /\ thread[t].at = "result" /\ UNCHANGED <<mtx, opened, awake>>
    BY <1>4 DEF OpenReturns
  <2> QED BY <2>1, RecLemma, OutsideLemma
<1>5. ASSUME NEW t \in Threads, NEW w \in Worlds, NEW call, call # "open", Busy(t, call, w),
             UNCHANGED <<mtx, opened, awake>>
      PROVE  Locking'
  <2> DEFINE r == [at |-> "lock", call |-> call, world |-> w, todo |-> <<>>]
  <2>1. thread' = [thread EXCEPT ![t] = r] /\ thread[t].at = "idle"
    BY <1>5, RecLemma DEF Busy
  <2>2. r.at = "lock" /\ r.call = call
    OBVIOUS
  <2> HIDE DEF r
  <2> QED BY <1>5, <2>1, <2>2, OutsideLemma
<1>6. ASSUME NEW t \in Threads, NEW w \in Worlds, NetCall(t, w) \/ WorldLeave(t, w) PROVE Locking'
  BY <1>5, <1>6 DEF NetCall, WorldLeave
<1>7. ASSUME NEW t \in Threads, NEW w \in Worlds, OpenWorld(t, w) PROVE Locking'
  <2> DEFINE r == [at |-> "lock", call |-> "open", world |-> w, todo |-> <<>>]
  <2>1. thread' = [thread EXCEPT ![t] = r] /\ thread[t].at = "idle"
    BY <1>7, RecLemma DEF Busy, OpenWorld
  <2>2. r.at = "lock" /\ r.call = "open" /\ r.world = w
    OBVIOUS
  <2> HIDE DEF r
  <2>3. thread'[t] = r /\ \A u \in Threads \ {t} : thread'[u] = thread[u]
    BY <2>1, OthersLemma
  <2>4. w \notin opened /\ opened' = opened \cup {w} /\ UNCHANGED <<mtx, awake>>
    BY <1>7 DEF OpenWorld
  <2>5. \A u \in Threads, v \in Worlds : Opening(u, v)' <=> (Opening(u, v) \/ (u = t /\ v = w))
    BY <2>1, <2>2, <2>3 DEF Opening
  <2>6. \A u \in Threads : thread'[u].at = "push" <=> (thread[u].at = "push" /\ u # t)
    BY <2>1, <2>2, <2>3
  <2> QED BY <2>1, <2>3, <2>4, <2>5, <2>6 DEF Locking
<1>8. ASSUME NEW t \in Threads, NEW r \in asked, Answer(t, r) PROVE Locking'
  <2>1. r.world \in Worlds
    BY DEF TypeOK, Events
  <2> QED BY <1>5, <1>8, <2>1 DEF Answer
<1>9. ASSUME NEW t \in Threads, NEW w \in Worlds, WaitEvent(t, w) PROVE Locking'
  <2> DEFINE r == [Idle EXCEPT !.at = "wait", !.world = w]
  <2>1. thread' = [thread EXCEPT ![t] = r] /\ thread[t].at = "idle" /\ UNCHANGED <<mtx, opened, awake>>
    BY <1>9, RecLemma DEF WaitEvent
  <2>2. r.at = "wait"
    BY RecLemma
  <2> HIDE DEF r
  <2> QED BY <2>1, <2>2, OutsideLemma
<1>10. ASSUME NEW t \in Threads, Receive(t) PROVE Locking'
  <2>1. thread' = [thread EXCEPT ![t] = Idle] /\ thread[t].at = "wait" /\ UNCHANGED <<mtx, opened, awake>>
    BY <1>10 DEF Receive
  <2> QED BY <2>1, RecLemma, OutsideLemma
<1>11. CASE EventLoop \/ UNCHANGED vars
  <2>1. UNCHANGED <<thread, mtx, opened, awake>>
    BY <1>11 DEF EventLoop, LoopHandles, LoopTakes, Raise, vars
  <2> QED BY <2>1 DEF Locking, Opening
<1>12. Callers \subseteq Threads
  BY PathAssumption
<1> QED BY <1>1, <1>2, <1>3, <1>4, <1>6, <1>7, <1>8, <1>9, <1>10, <1>11, <1>12
        DEF Next, Continue, Read

-----------------------------------------------------------------------------
(* The order of the events *)

\* The steps that move no event: the channels, the loop and the counters stay.
Still ==
    UNCHANGED <<eventCh, loop, hworlds, worldCh, ended, pushed, got, panicked>>

\* Every step moves no event, or is one of the five that do.
LEMMA StepLemma ==
    ASSUME [Next]_vars
    PROVE  \/ Still \/ LoopHandles \/ LoopTakes \/ Raise
           \/ \E t \in Threads : Push(t) \/ Receive(t)
  BY DEF Next, EventLoop, Continue, Read, Lock, Unlock, OpenReturns, NetCall, OpenWorld, WorldLeave,
         Answer, WaitEvent, Still, vars, Threads

\* Elements of a channel after a push and after a read.
LEMMA ChannelLemma ==
    ASSUME NEW S, NEW s \in Seq(S)
    PROVE  /\ \A e \in S : /\ DOMAIN Append(s, e) = 1..Len(s) + 1
                           /\ Append(s, e)[Len(s) + 1] = e
                           /\ \A k \in DOMAIN s : Append(s, e)[k] = s[k]
           /\ DOMAIN s = 1..Len(s) /\ Len(s) \in Nat
           /\ s # <<>> => /\ Len(s) > 0 /\ Head(s) = s[1] /\ Head(s) \in S
                          /\ Tail(s) \in Seq(S) /\ Len(Tail(s)) = Len(s) - 1
                          /\ DOMAIN Tail(s) = 1..Len(s) - 1
                          /\ \A k \in 1..Len(s) - 1 : Tail(s)[k] = s[k + 1]
  OBVIOUS

\* What Push puts on AND.eventCh.
LEMMA PushLemma ==
    ASSUME TypeOK, NEW t \in Threads, Push(t)
    PROVE  LET w == thread[t].world
               kind == Head(thread[t].todo)
           IN  /\ w \in Worlds /\ kind \in Kinds /\ thread[t].call \in CallKinds
               /\ thread[t].todo \in Rest(thread[t].call)
               /\ \E e \in Events :
                     /\ e.world = w /\ e.kind = kind
                     /\ e.n = IF kind \in Raised THEN pushed[w] + 1 ELSE 0
                     /\ eventCh' = Append(eventCh, e)
               /\ pushed' = [pushed EXCEPT ![w] = IF kind \in Raised THEN @ + 1 ELSE @]
PROOF
<1> DEFINE w == thread[t].world
           kind == Head(thread[t].todo)
           n == IF kind \in Raised THEN pushed[w] + 1 ELSE 0
           e == [world |-> w, kind |-> kind, n |-> n]
<1>1. thread[t] \in ThreadRec /\ ThreadOK(thread[t]) /\ thread[t].at = "push" /\ thread[t].todo # <<>>
  BY DEF Push, TypeOK
<1>2. thread[t].call \in CallKinds /\ w \in Worlds /\ thread[t].todo \in Rest(thread[t].call)
  BY <1>1 DEF ThreadOK
<1>3. kind \in Kinds
  BY <1>1, <1>2, RestLemma
<1>4. n \in Nat /\ eventCh' = Append(eventCh, e)
  BY <1>2 DEF Push, TypeOK, Raised
<1>5. pushed' = [pushed EXCEPT ![w] = IF kind \in Raised THEN @ + 1 ELSE @]
  BY DEF Push, Raised
<1> HIDE DEF n
<1>6. e \in Events /\ e.world = w /\ e.kind = kind /\ e.n = n
  BY <1>2, <1>3, <1>4 DEF Events
<1> HIDE DEF e
<1> QED BY <1>2, <1>3, <1>4, <1>5, <1>6 DEF n

\* The oldest event on the channel is of a world that the event loop finds.
LEMMA HeadFound ==
    ASSUME TypeOK, Numbered, Found, eventCh # <<>>, Head(eventCh).kind \in Raised
    PROVE  Head(eventCh).world \in hworlds /\ Head(eventCh).n # 0 /\ Head(eventCh) \in Events
PROOF
<1>1. 1 \in DOMAIN eventCh /\ Head(eventCh) = eventCh[1] /\ Head(eventCh) \in Events
  BY ChannelLemma DEF TypeOK
<1>2. ~\E j \in 1..1 - 1 : Success(eventCh[1].world, eventCh[j])
  OBVIOUS
<1> QED BY <1>1, <1>2 DEF Found, Numbered

\* What LoopTakes does, given that the world is found.
LEMMA TakesLemma ==
    ASSUME TypeOK, Numbered, Found, LoopTakes
    PROVE  /\ eventCh # <<>> /\ loop = None /\ loop' = Head(eventCh) /\ loop' # None
           /\ loop'.n # 0 /\ loop'.kind \in Raised /\ loop' \in Events
           /\ eventCh' = Tail(eventCh)
           /\ hworlds' = IF loop'.kind = "leave" THEN hworlds \ {loop'.world} ELSE hworlds
           /\ UNCHANGED <<mtx, thread, opened, awake, results, held, worldCh, asked, ended, pushed, got, panicked>>
PROOF
<1>1. eventCh # <<>> /\ Head(eventCh).kind \in Raised
  BY DEF LoopTakes, Raised
<1>2. Head(eventCh).world \in hworlds /\ Head(eventCh).n # 0 /\ Head(eventCh) \in Events
  BY <1>1, HeadFound
<1> QED BY <1>1, <1>2, PathAssumption DEF LoopTakes

\* The numbers of the events stay what they are.
LEMMA NumberedStep ==
    ASSUME TypeOK, Numbered, Found, [Next]_vars
    PROVE  Numbered'
PROOF
<1>1. CASE Still
  BY <1>1 DEF Still, Numbered
<1>2. CASE LoopHandles
  <2>1. eventCh' = Tail(eventCh) /\ eventCh # <<>> /\ loop' = loop
    BY <1>2 DEF LoopHandles
  <2> QED BY <2>1, ChannelLemma DEF Numbered, TypeOK
<1>3. CASE LoopTakes
  <2>1. eventCh' = Tail(eventCh) /\ eventCh # <<>> /\ loop'.n # 0
    BY <1>3, TakesLemma
  <2> QED BY <2>1, ChannelLemma DEF Numbered, TypeOK
<1>4. CASE Raise
  BY <1>4 DEF Raise, Numbered
<1>5. ASSUME NEW t \in Threads, Push(t) PROVE Numbered'
  <2>1. PICK e \in Events :
           /\ e.kind = Head(thread[t].todo) /\ eventCh' = Append(eventCh, e)
           /\ e.n = IF e.kind \in Raised THEN pushed[thread[t].world] + 1 ELSE 0
    BY <1>5, PushLemma
  <2>2. pushed[thread[t].world] \in Nat /\ UNCHANGED loop
    BY <1>5, PushLemma DEF TypeOK, Push
  <2>3. e.n # 0 <=> e.kind \in Raised
    BY <2>1, <2>2
  <2> QED BY <2>1, <2>2, <2>3, ChannelLemma DEF Numbered, TypeOK
<1>6. ASSUME NEW t \in Threads, Receive(t) PROVE Numbered'
  BY <1>6 DEF Receive, Numbered
<1> QED BY <1>1, <1>2, <1>3, <1>4, <1>5, <1>6, StepLemma

\* The events of world w on their way, as EventsInOrder says of each world.
OrderOf(w) ==
    /\ \A k \in DOMAIN worldCh[w] : Of(w, worldCh[w][k]) /\ worldCh[w][k].n = got[w] + k
    /\ InLoop(w) => loop.n = Taken(w)
    /\ Taken(w) <= pushed[w]
    /\ \A n \in Taken(w) + 1 .. pushed[w] : \E k \in DOMAIN eventCh : Of(w, eventCh[k]) /\ eventCh[k].n = n
    /\ \A k \in DOMAIN eventCh : Of(w, eventCh[k]) => eventCh[k].n \in Taken(w) + 1 .. pushed[w]
    /\ \A j, k \in DOMAIN eventCh :
          j < k /\ Of(w, eventCh[j]) /\ Of(w, eventCh[k]) => eventCh[j].n < eventCh[k].n

\* Types of what OrderOf is about.
LEMMA TakenType ==
    ASSUME TypeOK, NEW w \in Worlds
    PROVE  Taken(w) \in Nat /\ pushed[w] \in Nat /\ got[w] \in Nat /\ Len(worldCh[w]) \in Nat
  BY DEF TypeOK, Taken

\* The oldest event of a world on AND.eventCh is its next one.
LEMMA NextIsHead ==
    ASSUME TypeOK, EventsInOrder, eventCh # <<>>, NEW w \in Worlds, Of(w, Head(eventCh))
    PROVE  Head(eventCh).n = Taken(w) + 1
PROOF
<1>1. DOMAIN eventCh = 1..Len(eventCh) /\ Len(eventCh) > 0 /\ Len(eventCh) \in Nat /\ Head(eventCh) = eventCh[1]
  BY ChannelLemma DEF TypeOK
<1>2. OrderOf(w) /\ Taken(w) \in Nat /\ pushed[w] \in Nat
  BY TakenType DEF EventsInOrder, OrderOf
<1>3. eventCh[1].n \in Taken(w) + 1 .. pushed[w]
  BY <1>1, <1>2 DEF OrderOf
<1>4. PICK k \in DOMAIN eventCh : Of(w, eventCh[k]) /\ eventCh[k].n = Taken(w) + 1
  BY <1>2, <1>3 DEF OrderOf
<1>5. CASE k = 1
  BY <1>1, <1>4, <1>5
<1>6. CASE k # 1
  <2>1. eventCh[1].n < eventCh[k].n
    BY <1>1, <1>2, <1>4, <1>6 DEF OrderOf
  <2> QED BY <1>2, <1>3, <1>4, <2>1
<1> QED BY <1>5, <1>6

\* The head of AND.eventCh is taken off.
LEMMA TailOrder ==
    ASSUME TypeOK, EventsInOrder, eventCh # <<>>, eventCh' = Tail(eventCh), NEW w \in Worlds,
           UNCHANGED <<worldCh, got, pushed>>,
           Taken(w)' = (IF Of(w, Head(eventCh)) THEN Taken(w) + 1 ELSE Taken(w)),
           InLoop(w)' => loop'.n = Taken(w)'
    PROVE  OrderOf(w)'
PROOF
<1>1. /\ DOMAIN eventCh = 1..Len(eventCh) /\ Len(eventCh) > 0 /\ Len(eventCh) \in Nat
      /\ DOMAIN eventCh' = 1..Len(eventCh) - 1 /\ Head(eventCh) = eventCh[1]
      /\ \A k \in 1..Len(eventCh) - 1 : eventCh'[k] = eventCh[k + 1]
  BY ChannelLemma DEF TypeOK
<1>2. OrderOf(w) /\ Taken(w) \in Nat /\ pushed[w] \in Nat
  BY TakenType DEF EventsInOrder, OrderOf
<1>3. Of(w, eventCh[1]) => eventCh[1].n = Taken(w) + 1
  BY <1>1, NextIsHead
<1>4. \A e : Of(w, e)' <=> Of(w, e)
  BY DEF Of
<1>5. (\A k \in DOMAIN worldCh[w] : Of(w, worldCh[w][k]) /\ worldCh[w][k].n = got[w] + k)'
  BY <1>2 DEF OrderOf, Of
<1>6. Taken(w)' <= pushed'[w] /\ Taken(w)' \in Nat
  BY <1>1, <1>2, <1>3 DEF OrderOf
<1>7. \A n \in Taken(w)' + 1 .. pushed'[w] :
         \E k \in DOMAIN eventCh' : Of(w, eventCh'[k]) /\ eventCh'[k].n = n
  <2> SUFFICES ASSUME NEW n \in Taken(w)' + 1 .. pushed'[w]
               PROVE  \E k \in DOMAIN eventCh' : Of(w, eventCh'[k]) /\ eventCh'[k].n = n
    OBVIOUS
  <2>1. n \in Taken(w) + 1 .. pushed[w]
    BY <1>2
  <2>2. PICK k \in DOMAIN eventCh : Of(w, eventCh[k]) /\ eventCh[k].n = n
    BY <1>2, <2>1 DEF OrderOf
  <2>3. k # 1
    BY <1>1, <1>2, <1>3, <2>2
  <2>4. k - 1 \in DOMAIN eventCh' /\ eventCh'[k - 1] = eventCh[k]
    BY <1>1, <2>3
  <2> QED BY <2>2, <2>4
<1>8. \A k \in DOMAIN eventCh' : Of(w, eventCh'[k]) => eventCh'[k].n \in Taken(w)' + 1 .. pushed'[w]
  <2> SUFFICES ASSUME NEW k \in DOMAIN eventCh', Of(w, eventCh'[k])
               PROVE  eventCh'[k].n \in Taken(w)' + 1 .. pushed'[w]
    OBVIOUS
  <2>1. k + 1 \in DOMAIN eventCh /\ eventCh'[k] = eventCh[k + 1] /\ 1 \in DOMAIN eventCh /\ 1 < k + 1
    BY <1>1
  <2>2. eventCh[k + 1].n \in Taken(w) + 1 .. pushed[w]
    BY <1>2, <2>1 DEF OrderOf
  <2>3. CASE Of(w, eventCh[1])
    <3>1. eventCh[1].n < eventCh[k + 1].n
      BY <1>2, <2>1, <2>3 DEF OrderOf
    <3> QED BY <1>1, <1>2, <1>3, <2>1, <2>2, <2>3, <3>1
  <2>4. CASE ~Of(w, eventCh[1])
    BY <1>1, <2>1, <2>2, <2>4
  <2> QED BY <2>3, <2>4
<1>9. \A j, k \in DOMAIN eventCh' :
         j < k /\ Of(w, eventCh'[j]) /\ Of(w, eventCh'[k]) => eventCh'[j].n < eventCh'[k].n
  <2> SUFFICES ASSUME NEW j \in DOMAIN eventCh', NEW k \in DOMAIN eventCh', j < k,
                      Of(w, eventCh'[j]), Of(w, eventCh'[k])
               PROVE  eventCh'[j].n < eventCh'[k].n
    OBVIOUS
  <2>1. /\ j + 1 \in DOMAIN eventCh /\ k + 1 \in DOMAIN eventCh /\ j + 1 < k + 1
        /\ eventCh'[j] = eventCh[j + 1] /\ eventCh'[k] = eventCh[k + 1]
    BY <1>1
  <2> QED BY <1>2, <2>1 DEF OrderOf
<1> QED BY <1>4, <1>5, <1>6, <1>7, <1>8, <1>9 DEF OrderOf

\* An event is pushed: it is the newest of its world.
LEMMA PushOrder ==
    ASSUME TypeOK, EventsInOrder, NEW t \in Threads, Push(t), NEW w \in Worlds
    PROVE  OrderOf(w)'
PROOF
<1>1. PICK e \in Events :
         /\ e.world = thread[t].world /\ e.kind = Head(thread[t].todo)
         /\ e.n = IF e.kind \in Raised THEN pushed[e.world] + 1 ELSE 0
         /\ eventCh' = Append(eventCh, e)
         /\ pushed' = [pushed EXCEPT ![e.world] = IF e.kind \in Raised THEN @ + 1 ELSE @]
         /\ e.world \in Worlds
  BY PushLemma
<1>2. /\ DOMAIN eventCh = 1..Len(eventCh) /\ Len(eventCh) \in Nat
      /\ DOMAIN eventCh' = 1..Len(eventCh) + 1 /\ eventCh'[Len(eventCh) + 1] = e
      /\ \A k \in DOMAIN eventCh : eventCh'[k] = eventCh[k]
  BY <1>1, ChannelLemma DEF TypeOK
<1>3. OrderOf(w) /\ Taken(w) \in Nat /\ pushed[w] \in Nat
  BY TakenType DEF EventsInOrder, OrderOf
<1>4. UNCHANGED <<worldCh, got, loop>>
  BY DEF Push
<1>5. Taken(w)' = Taken(w) /\ (InLoop(w)' <=> InLoop(w)) /\ \A x : Of(w, x)' <=> Of(w, x)
  BY <1>4 DEF Taken, InLoop, Of
<1>6. pushed'[w] \in Nat /\ pushed'[w] = IF Of(w, e) THEN pushed[w] + 1 ELSE pushed[w]
  BY <1>1, <1>3 DEF Of, TypeOK
<1>7. Of(w, e) => e.n = pushed[w] + 1
  BY <1>1 DEF Of
<1>8. \A n \in Taken(w) + 1 .. pushed'[w] :
         \E k \in DOMAIN eventCh' : Of(w, eventCh'[k]) /\ eventCh'[k].n = n
  <2> SUFFICES ASSUME NEW n \in Taken(w) + 1 .. pushed'[w]
               PROVE  \E k \in DOMAIN eventCh' : Of(w, eventCh'[k]) /\ eventCh'[k].n = n
    OBVIOUS
  <2>1. CASE n \in Taken(w) + 1 .. pushed[w]
    <3>1. PICK k \in DOMAIN eventCh : Of(w, eventCh[k]) /\ eventCh[k].n = n
      BY <1>3, <2>1 DEF OrderOf
    <3> QED BY <1>2, <3>1
  <2>2. CASE n \notin Taken(w) + 1 .. pushed[w]
    <3>1. Of(w, e) /\ e.n = n
      BY <1>3, <1>6, <1>7, <2>2
    <3> QED BY <1>2, <3>1
  <2> QED BY <2>1, <2>2
<1>9. \A k \in DOMAIN eventCh' : Of(w, eventCh'[k]) => eventCh'[k].n \in Taken(w) + 1 .. pushed'[w]
  <2>1. ASSUME NEW k \in DOMAIN eventCh, Of(w, eventCh'[k])
        PROVE  eventCh'[k].n \in Taken(w) + 1 .. pushed'[w]
    <3>1. eventCh[k].n \in Taken(w) + 1 .. pushed[w]
      BY <1>2, <1>3, <2>1 DEF OrderOf
    <3> QED BY <1>2, <1>3, <1>6, <3>1
  <2>2. Of(w, e) => e.n \in Taken(w) + 1 .. pushed'[w]
    BY <1>3, <1>6, <1>7 DEF OrderOf
  <2> QED BY <1>2, <2>1, <2>2
<1>10. \A j, k \in DOMAIN eventCh' :
          j < k /\ Of(w, eventCh'[j]) /\ Of(w, eventCh'[k]) => eventCh'[j].n < eventCh'[k].n
  <2> SUFFICES ASSUME NEW j \in DOMAIN eventCh', NEW k \in DOMAIN eventCh', j < k,
                      Of(w, eventCh'[j]), Of(w, eventCh'[k])
               PROVE  eventCh'[j].n < eventCh'[k].n
    OBVIOUS
  <2>1. j \in DOMAIN eventCh /\ eventCh'[j] = eventCh[j]
    BY <1>2
  <2>2. CASE k \in DOMAIN eventCh
    BY <1>2, <1>3, <2>1, <2>2 DEF OrderOf
  <2>3. CASE k = Len(eventCh) + 1
    <3>1. eventCh[j].n \in Taken(w) + 1 .. pushed[w]
      BY <1>3, <2>1 DEF OrderOf
    <3> QED BY <1>2, <1>3, <1>7, <2>1, <2>3, <3>1
  <2> QED BY <1>2, <2>2, <2>3
<1>11. /\ \A k \in DOMAIN worldCh'[w] : Of(w, worldCh'[w][k]) /\ worldCh'[w][k].n = got'[w] + k
       /\ InLoop(w)' => loop'.n = Taken(w)'
       /\ Taken(w)' <= pushed'[w]
  BY <1>3, <1>4, <1>5, <1>6 DEF OrderOf
<1> QED BY <1>5, <1>8, <1>9, <1>10, <1>11 DEF OrderOf

\* An event moves on from the loop to its world, or from there to the reader:
\* the numbers on AND.eventCh do not notice.
LEMMA MoveOrder ==
    ASSUME TypeOK, EventsInOrder, NEW w \in Worlds,
           UNCHANGED <<eventCh, pushed>>, Taken(w)' = Taken(w), InLoop(w)' => UNCHANGED loop,
           \A k \in DOMAIN worldCh'[w] : Of(w, worldCh'[w][k]) /\ worldCh'[w][k].n = got'[w] + k,
           InLoop(w)' => InLoop(w)
    PROVE  OrderOf(w)'
PROOF
<1>1. OrderOf(w)
  BY DEF EventsInOrder, OrderOf
<1>2. \A x : Of(w, x)' <=> Of(w, x)
  BY DEF Of
<1>3. /\ InLoop(w)' => loop'.n = Taken(w)'
      /\ Taken(w)' <= pushed'[w]
      /\ \A n \in Taken(w)' + 1 .. pushed'[w] : \E k \in DOMAIN eventCh' : Of(w, eventCh'[k]) /\ eventCh'[k].n = n
      /\ \A k \in DOMAIN eventCh' : Of(w, eventCh'[k]) => eventCh'[k].n \in Taken(w)' + 1 .. pushed'[w]
      /\ \A j, k \in DOMAIN eventCh' :
            j < k /\ Of(w, eventCh'[j]) /\ Of(w, eventCh'[k]) => eventCh'[j].n < eventCh'[k].n
  BY <1>1, <1>2 DEF OrderOf
<1> QED BY <1>2, <1>3 DEF OrderOf

\* Every step keeps the events of every world in order.
LEMMA OrderStep ==
    ASSUME TypeOK, Numbered, Found, EventsInOrder, [Next]_vars
    PROVE  EventsInOrder'
PROOF
<1> SUFFICES ASSUME NEW w \in Worlds PROVE OrderOf(w)'
  BY DEF EventsInOrder, OrderOf
<1>0. OrderOf(w) /\ Taken(w) \in Nat /\ got[w] \in Nat
  BY TakenType DEF EventsInOrder, OrderOf
<1>1. CASE Still
  BY <1>0, <1>1 DEF Still, OrderOf, Of, Taken, InLoop
<1>2. CASE LoopHandles
  <2>1. /\ eventCh # <<>> /\ eventCh' = Tail(eventCh) /\ Head(eventCh).kind \in {"host", "success"}
        /\ UNCHANGED <<worldCh, got, pushed, loop>>
    BY <1>2 DEF LoopHandles
  <2>2. ~Of(w, Head(eventCh))
    <3>1. 1 \in DOMAIN eventCh /\ Head(eventCh) = eventCh[1]
      BY <2>1, ChannelLemma DEF TypeOK
    <3> QED BY <2>1, <3>1 DEF Numbered, Raised, Of
  <2>3. Taken(w)' = Taken(w) /\ (InLoop(w)' <=> InLoop(w))
    BY <2>1 DEF Taken, InLoop
  <2>4. InLoop(w)' => loop'.n = Taken(w)'
    BY <1>0, <2>1, <2>3 DEF OrderOf
  <2> QED BY <2>1, <2>2, <2>3, <2>4, TailOrder
<1>3. CASE LoopTakes
  <2>1. /\ eventCh # <<>> /\ loop = None /\ loop' = Head(eventCh) /\ loop' # None /\ loop'.n # 0
        /\ eventCh' = Tail(eventCh) /\ UNCHANGED <<worldCh, got, pushed>>
    BY <1>3, TakesLemma
  <2>2. InLoop(w)' <=> Of(w, Head(eventCh))
    BY <2>1 DEF InLoop, Of
  <2>3. Taken(w)' = IF Of(w, Head(eventCh)) THEN Taken(w) + 1 ELSE Taken(w)
    <3>1. ~InLoop(w)
      BY <2>1 DEF InLoop
    <3>2. got[w] \in Nat /\ Len(worldCh[w]) \in Nat
      BY TakenType
    <3> QED BY <2>1, <2>2, <3>1, <3>2 DEF Taken
  <2>4. InLoop(w)' => loop'.n = Taken(w)'
    BY <2>1, <2>2, <2>3, NextIsHead
  <2> QED BY <2>1, <2>3, <2>4, TailOrder
<1>4. CASE Raise
  <2>1. /\ loop # None /\ loop' = None /\ UNCHANGED <<eventCh, pushed, got>>
        /\ worldCh' = [worldCh EXCEPT ![loop.world] = Append(@, loop)]
        /\ loop \in Events /\ loop.world \in Worlds
    BY <1>4 DEF Raise, TypeOK, Events
  <2>2. ~InLoop(w)'
    BY <2>1 DEF InLoop
  <2>3. CASE InLoop(w)
    <3>1. worldCh'[w] = Append(worldCh[w], loop) /\ worldCh[w] \in Seq(Events)
      BY <2>1, <2>3 DEF InLoop, TypeOK
    <3>2. /\ DOMAIN worldCh[w] = 1..Len(worldCh[w]) /\ Len(worldCh[w]) \in Nat
          /\ DOMAIN worldCh'[w] = 1..Len(worldCh[w]) + 1
          /\ worldCh'[w][Len(worldCh[w]) + 1] = loop
          /\ \A k \in DOMAIN worldCh[w] : worldCh'[w][k] = worldCh[w][k]
      BY <2>1, <3>1, ChannelLemma
    <3>3. Len(worldCh'[w]) = Len(worldCh[w]) + 1
      BY <2>1, <3>1
    <3>4. loop.n = got[w] + Len(worldCh[w]) + 1 /\ Of(w, loop)
      BY <1>0, <2>1, <2>3, <3>2 DEF OrderOf, Taken, InLoop, Of, Numbered
    <3>5. Taken(w)' = Taken(w)
      BY <1>0, <2>1, <2>2, <2>3, <3>2, <3>3 DEF Taken
    <3>6. ASSUME NEW k \in DOMAIN worldCh'[w]
          PROVE  Of(w, worldCh'[w][k]) /\ worldCh'[w][k].n = got'[w] + k
      <4>1. CASE k \in DOMAIN worldCh[w]
        BY <1>0, <2>1, <3>2, <4>1 DEF OrderOf
      <4>2. CASE k = Len(worldCh[w]) + 1
        <5>1. worldCh'[w][k] = loop /\ got'[w] = got[w]
          BY <2>1, <3>2, <4>2
        <5> QED BY <1>0, <3>2, <3>4, <4>2, <5>1
      <4> QED BY <3>2, <4>1, <4>2
    <3> QED BY <2>1, <2>2, <3>5, <3>6, MoveOrder
  <2>4. CASE ~InLoop(w)
    <3>1. worldCh'[w] = worldCh[w]
      BY <2>1, <2>4 DEF InLoop, TypeOK
    <3>2. Taken(w)' = Taken(w)
      BY <2>1, <2>2, <2>4, <3>1 DEF Taken
    <3> QED BY <1>0, <2>1, <2>2, <3>1, <3>2, MoveOrder DEF OrderOf
  <2> QED BY <2>3, <2>4
<1>5. ASSUME NEW t \in Threads, Push(t) PROVE OrderOf(w)'
  BY <1>5, PushOrder
<1>6. ASSUME NEW t \in Threads, Receive(t) PROVE OrderOf(w)'
  <2> DEFINE v == thread[t].world
  <2>1. /\ worldCh[v] # <<>> /\ worldCh' = [worldCh EXCEPT ![v] = Tail(@)]
        /\ got' = [got EXCEPT ![v] = @ + 1] /\ UNCHANGED <<eventCh, pushed, loop>>
    BY <1>6 DEF Receive
  <2> HIDE DEF v
  <2>2. InLoop(w)' <=> InLoop(w)
    BY <2>1 DEF InLoop
  <2>3. CASE w = v
    <3>0. worldCh \in [Worlds -> Seq(Events)] /\ got \in [Worlds -> Nat]
      BY DEF TypeOK
    <3>1. worldCh'[w] = Tail(worldCh[w]) /\ worldCh[w] # <<>> /\ worldCh[w] \in Seq(Events)
          /\ got'[w] = got[w] + 1
      BY <2>1, <2>3, <3>0
    <3>2. /\ DOMAIN worldCh[w] = 1..Len(worldCh[w]) /\ Len(worldCh[w]) \in Nat /\ Len(worldCh[w]) > 0
          /\ DOMAIN worldCh'[w] = 1..Len(worldCh[w]) - 1 /\ Len(worldCh'[w]) = Len(worldCh[w]) - 1
          /\ \A k \in 1..Len(worldCh[w]) - 1 : worldCh'[w][k] = worldCh[w][k + 1]
      BY <3>1, ChannelLemma
    <3>3. Taken(w)' = Taken(w)
      BY <1>0, <2>2, <3>1, <3>2 DEF Taken
    <3>4. ASSUME NEW k \in DOMAIN worldCh'[w]
          PROVE  Of(w, worldCh'[w][k]) /\ worldCh'[w][k].n = got'[w] + k
      <4>1. k + 1 \in DOMAIN worldCh[w] /\ worldCh'[w][k] = worldCh[w][k + 1] /\ k \in Nat
        BY <3>2
      <4>2. Of(w, worldCh[w][k + 1]) /\ worldCh[w][k + 1].n = got[w] + (k + 1)
        BY <1>0, <4>1 DEF OrderOf
      <4> QED BY <1>0, <3>1, <4>1, <4>2
    <3> QED BY <2>1, <2>2, <3>3, <3>4, MoveOrder
  <2>4. CASE w # v
    <3>1. worldCh'[w] = worldCh[w] /\ got'[w] = got[w]
      BY <2>1, <2>4 DEF TypeOK
    <3>2. Taken(w)' = Taken(w)
      BY <2>2, <3>1 DEF Taken
    <3> QED BY <1>0, <2>1, <2>2, <3>1, <3>2, MoveOrder DEF OrderOf
  <2> QED BY <2>3, <2>4
<1> QED BY <1>1, <1>2, <1>3, <1>4, <1>5, <1>6, StepLemma

-----------------------------------------------------------------------------
(* Nothing follows a WorldLeave *)

\* Whoever pushes an event pushes it for a world that is not closed.
LEMMA PushNotClosed ==
    ASSUME TypeOK, Locking, NEW t \in Threads, Push(t)
    PROVE  ~Closed(thread[t].world)
PROOF
<1>1. thread[t].at = "push" /\ thread[t].todo # <<>> /\ mtx = t
  BY DEF Push, Locking
<1>2. CASE thread[t].call = "open"
  BY <1>1, <1>2 DEF Closed, Opening
<1>3. CASE thread[t].call # "open"
  BY <1>1, <1>3 DEF Closed, Locking
<1> QED BY <1>2, <1>3

\* A step outside of AND does not open a closed world again.
LEMMA OutsideClosed ==
    ASSUME TypeOK, Locking, NEW t \in Threads, NEW r, thread' = [thread EXCEPT ![t] = r],
           thread[t].at # "push", NEW w \in Worlds,
           ~(r.call = "open" /\ r.world = w /\ r.at \in {"lock", "push"}),
           UNCHANGED <<mtx, awake>>, opened \subseteq opened', Closed(w)
    PROVE  Closed(w)'
PROOF
<1>1. thread'[t] = r /\ \A u \in Threads \ {t} : thread'[u] = thread[u]
  BY OthersLemma
<1>2. \A u \in Threads : ~Opening(u, w)'
  BY <1>1 DEF Opening, Closed
<1>3. mtx # t
  BY DEF Locking
<1> QED BY <1>1, <1>2, <1>3 DEF Closed

\* A closed world stays closed.
LEMMA ClosedStays ==
    ASSUME TypeOK, Locking, [Next]_vars, NEW w \in Worlds, Closed(w)
    PROVE  Closed(w)'
PROOF
<1> USE DEF Threads
<1>1. ASSUME NEW t \in Threads, Lock(t) PROVE Closed(w)'
  <2>1. PICK burst : thread' = [thread EXCEPT ![t].at = "push", ![t].todo = burst]
    BY <1>1 DEF Lock
  <2> DEFINE r == [thread[t] EXCEPT !.at = "push", !.todo = burst]
  <2>2. thread' = [thread EXCEPT ![t] = r]
    BY <2>1
  <2>3. r.call = thread[t].call /\ r.world = thread[t].world
    BY DEF TypeOK, ThreadRec
  <2> HIDE DEF r
  <2>4. thread'[t] = r /\ \A u \in Threads \ {t} : thread'[u] = thread[u]
    BY <2>2, OthersLemma
  <2>5. thread[t].at = "lock" /\ mtx = None /\ UNCHANGED <<opened, awake>>
    BY <1>1 DEF Lock
  <2>6. \A u \in Threads : ~Opening(u, w)'
    BY <2>3, <2>4, <2>5 DEF Opening, Closed
  <2>7. w \notin awake
    BY <2>5, PathAssumption DEF Closed
  <2> QED BY <2>5, <2>6, <2>7 DEF Closed
<1>2. ASSUME NEW t \in Threads, Push(t) PROVE Closed(w)'
  <2> DEFINE r == [thread[t] EXCEPT !.todo = Tail(@)]
  <2>1. thread' = [thread EXCEPT ![t] = r] /\ thread[t].at = "push" /\ thread[t].todo # <<>>
    BY <1>2 DEF Push
  <2>2. r.at = thread[t].at /\ r.call = thread[t].call /\ r.world = thread[t].world
    BY DEF TypeOK, ThreadRec
  <2> HIDE DEF r
  <2>3. thread'[t] = r /\ \A u \in Threads \ {t} : thread'[u] = thread[u]
    BY <2>1, OthersLemma
  <2>4. \A u \in Threads : Opening(u, w)' <=> Opening(u, w)
    BY <2>2, <2>3 DEF Opening
  <2>5. UNCHANGED <<mtx, opened, awake>> /\ mtx = t
    BY <1>2, <2>1 DEF Push, Locking
  <2>6. w \notin awake
    BY <2>1, <2>5 DEF Closed
  <2> QED BY <2>4, <2>5, <2>6 DEF Closed
<1>3. ASSUME NEW t \in Threads, Unlock(t) PROVE Closed(w)'
  <2>1. PICK r : thread' = [thread EXCEPT ![t] = r] /\ r.at # "push" /\ r.at # "lock"
    <3>1. thread[t] \in ThreadRec
      BY DEF TypeOK
    <3>2. [thread[t] EXCEPT !.at = "result"].at = "result" /\ Idle.at = "idle"
      BY <3>1 DEF ThreadRec, Idle
    <3>3. thread' = [thread EXCEPT ![t] = IF thread[t].call = "open"
                                          THEN [thread[t] EXCEPT !.at = "result"] ELSE Idle]
      BY <1>3 DEF Unlock
    <3> QED BY <3>2, <3>3
  <2>2. thread'[t] = r /\ \A u \in Threads \ {t} : thread'[u] = thread[u]
    BY <2>1, OthersLemma
  <2>3. thread[t].at = "push" /\ mtx = t /\ UNCHANGED opened /\ awake' = AwakeAfter(t)
    BY <1>3 DEF Unlock, Locking
  <2>4. \A u \in Threads : ~Opening(u, w)'
    BY <2>1, <2>2 DEF Opening, Closed
  <2>5. w \notin awake'
    <3>1. CASE thread[t].call = "open"
      <4>1. thread[t].world # w
        BY <2>3, <3>1 DEF Closed, Opening
      <4>2. w \notin awake
        BY <2>3, <3>1 DEF Closed
      <4> QED BY <2>3, <3>1, <4>1, <4>2 DEF AwakeAfter
    <3>2. CASE thread[t].call = "leave"
      <4>1. awake' = awake \ {thread[t].world}
        BY <2>3, <3>2 DEF AwakeAfter
      <4> QED BY <2>3, <4>1 DEF Closed
    <3>3. CASE thread[t].call \notin {"open", "leave"}
      <4>1. awake' = awake
        BY <2>3, <3>3 DEF AwakeAfter
      <4> QED BY <2>3, <3>3, <4>1 DEF Closed
    <3> QED BY <3>1, <3>2, <3>3
  <2> QED BY <2>3, <2>4, <2>5 DEF Closed
<1>4. ASSUME NEW t \in Threads, OpenReturns(t) PROVE Closed(w)'
  <2>1. /\ thread' = [thread EXCEPT ![t] = Idle] /\ thread[t].at = "result" /\ UNCHANGED <<mtx, awake>>
        /\ opened \subseteq opened'
    BY <1>4 DEF OpenReturns
  <2> QED BY <2>1, RecLemma, OutsideClosed
<1>5. ASSUME NEW t \in Threads, NEW v, NEW call, call # "open" \/ v # w, Busy(t, call, v),
             UNCHANGED <<mtx, awake>>, opened \subseteq opened'
      PROVE  Closed(w)'
  <2> DEFINE r == [at |-> "lock", call |-> call, world |-> v, todo |-> <<>>]
  <2>1. thread' = [thread EXCEPT ![t] = r] /\ thread[t].at = "idle"
    BY <1>5, RecLemma DEF Busy
  <2>2. r.call = call /\ r.world = v
    OBVIOUS
  <2> HIDE DEF r
  <2>3. thread[t].at # "push" /\ ~(r.call = "open" /\ r.world = w /\ r.at \in {"lock", "push"})
    BY <1>5, <2>1, <2>2
  <2> QED BY <1>5, <2>1, <2>3, OutsideClosed
<1>6. ASSUME NEW t \in Threads, NEW v \in Worlds, NetCall(t, v) \/ WorldLeave(t, v) PROVE Closed(w)'
  BY <1>5, <1>6 DEF NetCall, WorldLeave
<1>7. ASSUME NEW t \in Threads, NEW v \in Worlds, OpenWorld(t, v) PROVE Closed(w)'
  <2>1. v # w
    BY <1>7 DEF OpenWorld, Closed
  <2> QED BY <1>5, <1>7, <2>1 DEF OpenWorld
<1>8. ASSUME NEW t \in Threads, NEW r \in asked, Answer(t, r) PROVE Closed(w)'
  BY <1>5, <1>8 DEF Answer
<1>9. ASSUME NEW t \in Threads, NEW v \in Worlds, WaitEvent(t, v) PROVE Closed(w)'
  <2> DEFINE r == [Idle EXCEPT !.at = "wait", !.world = v]
  <2>1. /\ thread' = [thread EXCEPT ![t] = r] /\ thread[t].at = "idle" /\ UNCHANGED <<mtx, awake>>
        /\ opened \subseteq opened'
    BY <1>9, RecLemma DEF WaitEvent
  <2>2. r.at = "wait"
    BY RecLemma
  <2> HIDE DEF r
  <2> QED BY <2>1, <2>2, OutsideClosed
<1>10. ASSUME NEW t \in Threads, Receive(t) PROVE Closed(w)'
  <2>1. /\ thread' = [thread EXCEPT ![t] = Idle] /\ thread[t].at = "wait" /\ UNCHANGED <<mtx, awake>>
        /\ opened \subseteq opened'
    BY <1>10 DEF Receive
  <2> QED BY <2>1, RecLemma, OutsideClosed
<1>11. CASE EventLoop \/ UNCHANGED vars
  <2>1. UNCHANGED <<thread, mtx, opened, awake>>
    BY <1>11 DEF EventLoop, LoopHandles, LoopTakes, Raise, vars
  <2> QED BY <2>1 DEF Closed, Opening
<1>12. Callers \subseteq Threads
  BY PathAssumption
<1> QED BY <1>1, <1>2, <1>3, <1>4, <1>6, <1>7, <1>8, <1>9, <1>10, <1>11, <1>12
        DEF Next, Continue, Read

\* LastIsLeave for one world.
LeaveOf(w) ==
    /\ Left(w) => Closed(w)
    /\ w \in ended => got[w] = pushed[w]
    /\ loop # None /\ Leaves(w, loop) => loop.n = pushed[w]
    /\ \A k \in DOMAIN eventCh : Leaves(w, eventCh[k]) => eventCh[k].n = pushed[w]
    /\ \A k \in DOMAIN worldCh[w] : Leaves(w, worldCh[w][k]) => worldCh[w][k].n = pushed[w]

\* The WorldLeave event of a world is its last event, wherever it is.
LEMMA LeaveStep ==
    ASSUME IInv, [Next]_vars
    PROVE  LastIsLeave'
PROOF
<1> SUFFICES ASSUME NEW w \in Worlds PROVE LeaveOf(w)'
  BY DEF LastIsLeave, LeaveOf
<1>0. /\ TypeOK /\ Locking /\ Numbered /\ EventsInOrder /\ Found /\ LeaveOf(w) /\ OrderOf(w)
      /\ Taken(w) \in Nat /\ got[w] \in Nat /\ pushed[w] \in Nat
  BY TakenType DEF IInv, LastIsLeave, LeaveOf, EventsInOrder, OrderOf
<1>a. Left(w) => Closed(w)'
  BY <1>0, ClosedStays DEF LeaveOf
<1>b. \A x : Leaves(w, x)' <=> Leaves(w, x)
  BY DEF Leaves
<1>1. CASE Still
  <2>1. Left(w)' <=> Left(w)
    BY <1>1 DEF Still, Left, Leaves
  <2> QED BY <1>0, <1>1, <1>a, <2>1 DEF Still, LeaveOf, Leaves
<1>2. CASE LoopHandles
  <2>1. eventCh # <<>> /\ eventCh' = Tail(eventCh) /\ UNCHANGED <<worldCh, got, pushed, loop, ended>>
    BY <1>2 DEF LoopHandles
  <2>2. \A k \in DOMAIN eventCh' : \E j \in DOMAIN eventCh : eventCh'[k] = eventCh[j]
    BY <1>0, <2>1, ChannelLemma DEF TypeOK
  <2>3. Left(w)' => Left(w)
    BY <2>1, <2>2 DEF Left, Leaves
  <2> QED BY <1>0, <1>a, <1>b, <2>1, <2>2, <2>3 DEF LeaveOf
<1>3. CASE LoopTakes
  <2>1. /\ eventCh # <<>> /\ eventCh' = Tail(eventCh) /\ loop' = Head(eventCh)
        /\ UNCHANGED <<worldCh, got, pushed, ended>>
    BY <1>0, <1>3, TakesLemma
  <2>2. \A k \in DOMAIN eventCh' : \E j \in DOMAIN eventCh : eventCh'[k] = eventCh[j]
    BY <1>0, <2>1, ChannelLemma DEF TypeOK
  <2>3. 1 \in DOMAIN eventCh /\ loop' = eventCh[1]
    BY <1>0, <2>1, ChannelLemma DEF TypeOK
  <2>4. Left(w)' => Left(w)
    BY <2>1, <2>2, <2>3 DEF Left, Leaves
  <2> QED BY <1>0, <1>a, <1>b, <2>1, <2>2, <2>3, <2>4 DEF LeaveOf
<1>4. CASE Raise
  <2>1. /\ loop # None /\ loop' = None /\ UNCHANGED <<eventCh, pushed, got, ended>>
        /\ worldCh' = [worldCh EXCEPT ![loop.world] = Append(@, loop)]
        /\ loop \in Events /\ loop.world \in Worlds
    BY <1>0, <1>4 DEF Raise, TypeOK, Events
  <2>2. \A k \in DOMAIN worldCh'[w] :
           (\E j \in DOMAIN worldCh[w] : worldCh'[w][k] = worldCh[w][j]) \/ worldCh'[w][k] = loop
    <3>1. CASE loop.world = w
      <4>1. worldCh'[w] = Append(worldCh[w], loop) /\ worldCh[w] \in Seq(Events)
        BY <1>0, <2>1, <3>1 DEF TypeOK
      <4> QED BY <2>1, <4>1, ChannelLemma
    <3>2. CASE loop.world # w
      <4>1. worldCh'[w] = worldCh[w]
        BY <1>0, <2>1, <3>2 DEF TypeOK
      <4> QED BY <4>1
    <3> QED BY <3>1, <3>2
  <2>3. Left(w)' => Left(w)
    BY <2>1, <2>2 DEF Left, Leaves
  <2> QED BY <1>0, <1>a, <1>b, <2>1, <2>2, <2>3 DEF LeaveOf
<1>5. ASSUME NEW t \in Threads, Push(t) PROVE LeaveOf(w)'
  <2>1. PICK e \in Events :
           /\ e.world = thread[t].world /\ e.kind = Head(thread[t].todo)
           /\ e.n = IF e.kind \in Raised THEN pushed[e.world] + 1 ELSE 0
           /\ eventCh' = Append(eventCh, e)
           /\ pushed' = [pushed EXCEPT ![e.world] = IF e.kind \in Raised THEN @ + 1 ELSE @]
           /\ e.world \in Worlds
    BY <1>0, <1>5, PushLemma
  <2>2. /\ DOMAIN eventCh = 1..Len(eventCh) /\ Len(eventCh) \in Nat
        /\ DOMAIN eventCh' = 1..Len(eventCh) + 1 /\ eventCh'[Len(eventCh) + 1] = e
        /\ \A k \in DOMAIN eventCh : eventCh'[k] = eventCh[k]
    BY <1>0, <2>1, ChannelLemma DEF TypeOK
  <2>3. UNCHANGED <<worldCh, got, loop, ended, mtx, opened, awake>>
    BY <1>5 DEF Push
  <2>4. CASE e.world # w
    <3>1. pushed'[w] = pushed[w]
      BY <1>0, <2>1, <2>4 DEF TypeOK
    <3>2. ~Leaves(w, e)
      BY <2>4 DEF Leaves
    <3>3. \A k \in DOMAIN eventCh' : Leaves(w, eventCh'[k]) => \E j \in DOMAIN eventCh : eventCh'[k] = eventCh[j]
      BY <2>2, <3>2
    <3>4. Left(w)' => Left(w)
      BY <1>b, <2>3, <3>3 DEF Left
    <3> QED BY <1>0, <1>a, <1>b, <2>3, <3>1, <3>3, <3>4 DEF LeaveOf
  <2>5. CASE e.world = w
    <3>1. ~Left(w)
      BY <1>0, <1>5, <2>1, <2>5, PushNotClosed DEF LeaveOf
    <3>2. \A k \in DOMAIN eventCh' : Leaves(w, eventCh'[k]) => eventCh'[k] = e
      BY <2>2, <3>1 DEF Left
    <3>3. CASE e.kind # "leave"
      <4>1. ~Left(w)'
        BY <1>b, <2>3, <3>1, <3>2, <3>3 DEF Left, Leaves
      <4> QED BY <4>1, <1>b, <2>3 DEF LeaveOf, Left
    <3>4. CASE e.kind = "leave"
      <4>1. pushed'[w] = pushed[w] + 1 /\ e.n = pushed[w] + 1
        BY <1>0, <2>1, <2>5, <3>4 DEF TypeOK, Raised
      <4>2. /\ thread[t].at = "push" /\ thread[t].todo # <<>> /\ mtx = t
            /\ thread[t].todo \in Rest(thread[t].call) /\ thread[t].call \in CallKinds
        BY <1>0, <1>5, PushLemma DEF Push, Locking
      <4>3. thread[t].call = "leave" /\ Tail(thread[t].todo) = <<>>
        BY <2>1, <3>4, <4>2, RestLemma
      <4> DEFINE r == [thread[t] EXCEPT !.todo = Tail(@)]
      <4>4. thread' = [thread EXCEPT ![t] = r]
        BY <1>5 DEF Push
      <4>5. r.at = "push" /\ r.call = "leave" /\ r.world = w /\ r.todo = <<>>
        BY <1>0, <2>1, <2>5, <4>2, <4>3 DEF TypeOK, ThreadRec
      <4> HIDE DEF r
      <4>6. thread'[t] = r /\ \A u \in Threads \ {t} : thread'[u] = thread[u]
        BY <1>0, <4>4, OthersLemma
      <4>7. w \in awake
        BY <1>0, <2>1, <2>5, <4>2, <4>3 DEF Locking
      <4>8. \A u \in Threads : ~Opening(u, w)'
        BY <1>0, <4>5, <4>6, <4>7 DEF Opening, Locking
      <4>9. Closed(w)'
        BY <1>0, <2>3, <4>2, <4>5, <4>6, <4>7, <4>8 DEF Closed, Locking
      <4>10. \A k \in DOMAIN eventCh' : Leaves(w, eventCh'[k]) => eventCh'[k].n = pushed'[w]
        BY <3>2, <4>1
      <4>11. ~(loop # None /\ Leaves(w, loop)) /\ w \notin ended
        BY <3>1 DEF Left
      <4>12. \A k \in DOMAIN worldCh[w] : ~Leaves(w, worldCh[w][k])
        BY <3>1 DEF Left
      <4> QED BY <1>b, <2>3, <4>9, <4>10, <4>11, <4>12 DEF LeaveOf
    <3> QED BY <3>3, <3>4
  <2> QED BY <2>4, <2>5
<1>6. ASSUME NEW t \in Threads, Receive(t) PROVE LeaveOf(w)'
  <2> DEFINE v == thread[t].world
  <2>1. /\ worldCh[v] # <<>> /\ worldCh' = [worldCh EXCEPT ![v] = Tail(@)]
        /\ got' = [got EXCEPT ![v] = @ + 1] /\ UNCHANGED <<eventCh, pushed, loop>>
        /\ ended' = IF Head(worldCh[v]).kind = "leave" THEN ended \cup {v} ELSE ended
    BY <1>6 DEF Receive
  <2> HIDE DEF v
  <2>2. CASE w = v
    <3>1. /\ worldCh'[w] = Tail(worldCh[w]) /\ worldCh[w] # <<>> /\ worldCh[w] \in Seq(Events)
          /\ got'[w] = got[w] + 1
      <4>1. worldCh \in [Worlds -> Seq(Events)] /\ got \in [Worlds -> Nat]
        BY <1>0 DEF TypeOK
      <4> QED BY <2>1, <2>2, <4>1
    <3>2. /\ 1 \in DOMAIN worldCh[w] /\ Head(worldCh[w]) = worldCh[w][1] /\ Len(worldCh[w]) > 0
          /\ Len(worldCh[w]) \in Nat
          /\ \A k \in DOMAIN worldCh'[w] : \E j \in DOMAIN worldCh[w] : worldCh'[w][k] = worldCh[w][j]
      BY <3>1, ChannelLemma
    <3>3. worldCh[w][1].n = got[w] + 1 /\ worldCh[w][1].world = w
      BY <1>0, <3>2 DEF OrderOf, Of
    <3>4. w \notin ended
      BY <1>0, <3>2 DEF LeaveOf, OrderOf, Taken
    <3>5. w \in ended' => Leaves(w, worldCh[w][1])
      BY <2>1, <2>2, <3>2, <3>3, <3>4 DEF Leaves
    <3>6. w \in ended' => got'[w] = pushed'[w]
      BY <1>0, <2>1, <3>1, <3>2, <3>3, <3>5 DEF LeaveOf
    <3>7. Left(w)' => Left(w)
      BY <1>b, <2>1, <3>2, <3>5 DEF Left
    <3> QED BY <1>0, <1>a, <1>b, <2>1, <3>2, <3>6, <3>7 DEF LeaveOf
  <2>3. CASE w # v
    <3>1. worldCh'[w] = worldCh[w] /\ got'[w] = got[w] /\ (w \in ended' <=> w \in ended)
      BY <1>0, <2>1, <2>3 DEF TypeOK
    <3>2. Left(w)' => Left(w)
      BY <1>b, <2>1, <3>1 DEF Left
    <3> QED BY <1>0, <1>a, <1>b, <2>1, <3>1, <3>2 DEF LeaveOf
  <2> QED BY <2>2, <2>3
<1> QED BY <1>1, <1>2, <1>3, <1>4, <1>5, <1>6, StepLemma

-----------------------------------------------------------------------------
(* The event loop finds every world *)

\* A WorldLeave that was pushed is somewhere on its way or was read.
LEMMA LeftStays ==
    ASSUME IInv, [Next]_vars, NEW w \in Worlds, Left(w)
    PROVE  Left(w)'
PROOF
<1>0. TypeOK /\ Numbered /\ Found /\ OrderOf(w)
  BY DEF IInv, EventsInOrder, OrderOf
<1>b. \A x : Leaves(w, x)' <=> Leaves(w, x)
  BY DEF Leaves
<1>1. CASE Still
  BY <1>1 DEF Still, Left, Leaves
<1>2. CASE LoopHandles \/ LoopTakes
  <2>1. eventCh # <<>> /\ eventCh' = Tail(eventCh) /\ UNCHANGED <<worldCh, ended>> /\ loop = None
    BY <1>2 DEF LoopHandles, LoopTakes
  <2>2. CASE \E k \in DOMAIN eventCh : Leaves(w, eventCh[k])
    <3>1. PICK k \in DOMAIN eventCh : Leaves(w, eventCh[k])
      BY <2>2
    <3>2. CASE k = 1
      <4>1. Head(eventCh).kind = "leave" /\ Head(eventCh) = eventCh[1]
        BY <1>0, <2>1, <3>1, <3>2, ChannelLemma DEF TypeOK, Leaves
      <4>2. LoopTakes
        BY <1>2, <4>1 DEF LoopHandles
      <4> QED BY <1>0, <1>b, <3>1, <3>2, <4>1, <4>2, TakesLemma DEF Left
    <3>3. CASE k # 1
      <4>1. k - 1 \in DOMAIN eventCh' /\ eventCh'[k - 1] = eventCh[k]
        BY <1>0, <2>1, <3>3, ChannelLemma DEF TypeOK
      <4> QED BY <1>b, <3>1, <4>1 DEF Left
    <3> QED BY <3>2, <3>3
  <2>3. CASE ~\E k \in DOMAIN eventCh : Leaves(w, eventCh[k])
    BY <1>b, <2>1, <2>3 DEF Left
  <2> QED BY <2>2, <2>3
<1>3. CASE Raise
  <2>1. /\ loop # None /\ UNCHANGED <<eventCh, ended>>
        /\ worldCh' = [worldCh EXCEPT ![loop.world] = Append(@, loop)]
        /\ loop \in Events
    BY <1>0, <1>3 DEF Raise, TypeOK
  <2>2. CASE loop.world = w
    <3>1. worldCh'[w] = Append(worldCh[w], loop) /\ worldCh[w] \in Seq(Events)
      BY <1>0, <2>1, <2>2 DEF TypeOK
    <3>2. /\ DOMAIN worldCh'[w] = 1..Len(worldCh[w]) + 1 /\ DOMAIN worldCh[w] = 1..Len(worldCh[w])
          /\ worldCh'[w][Len(worldCh[w]) + 1] = loop /\ Len(worldCh[w]) \in Nat
          /\ \A k \in DOMAIN worldCh[w] : worldCh'[w][k] = worldCh[w][k]
      BY <2>1, <3>1, ChannelLemma
    <3>3. \A k \in DOMAIN worldCh[w] : k \in DOMAIN worldCh'[w]
      BY <3>2
    <3>4. Len(worldCh[w]) + 1 \in DOMAIN worldCh'[w]
      BY <3>2
    <3> QED BY <1>b, <2>1, <3>2, <3>3, <3>4 DEF Left
  <2>3. CASE loop.world # w
    <3>1. worldCh'[w] = worldCh[w]
      BY <1>0, <2>1, <2>3 DEF TypeOK
    <3> QED BY <1>b, <2>1, <2>3, <3>1 DEF Left, Leaves
  <2> QED BY <2>2, <2>3
<1>4. ASSUME NEW t \in Threads, Push(t) PROVE Left(w)'
  <2>1. \E e \in Events : eventCh' = Append(eventCh, e)
    BY <1>0, <1>4, PushLemma
  <2>2. \A k \in DOMAIN eventCh : k \in DOMAIN eventCh' /\ eventCh'[k] = eventCh[k]
    BY <1>0, <2>1, ChannelLemma DEF TypeOK
  <2>3. UNCHANGED <<worldCh, ended, loop>>
    BY <1>4 DEF Push
  <2> QED BY <1>b, <2>2, <2>3 DEF Left
<1>5. ASSUME NEW t \in Threads, Receive(t) PROVE Left(w)'
  <2> DEFINE v == thread[t].world
  <2>1. /\ worldCh[v] # <<>> /\ worldCh' = [worldCh EXCEPT ![v] = Tail(@)]
        /\ UNCHANGED <<eventCh, loop>>
        /\ ended' = IF Head(worldCh[v]).kind = "leave" THEN ended \cup {v} ELSE ended
    BY <1>5 DEF Receive
  <2> HIDE DEF v
  <2>2. CASE w = v /\ \E k \in DOMAIN worldCh[w] : Leaves(w, worldCh[w][k])
    <3>1. worldCh'[w] = Tail(worldCh[w]) /\ worldCh[w] # <<>> /\ worldCh[w] \in Seq(Events)
      <4>1. worldCh \in [Worlds -> Seq(Events)]
        BY <1>0 DEF TypeOK
      <4> QED BY <2>1, <2>2, <4>1
    <3>2. PICK k \in DOMAIN worldCh[w] : Leaves(w, worldCh[w][k])
      BY <2>2
    <3>3. CASE k = 1
      <4>1. Head(worldCh[w]).kind = "leave"
        BY <3>1, <3>2, <3>3, ChannelLemma DEF Leaves
      <4> QED BY <2>1, <2>2, <4>1 DEF Left
    <3>4. CASE k # 1
      <4>1. k - 1 \in DOMAIN worldCh'[w] /\ worldCh'[w][k - 1] = worldCh[w][k]
        BY <3>1, <3>4, ChannelLemma
      <4> QED BY <1>b, <3>2, <4>1 DEF Left
    <3> QED BY <3>3, <3>4
  <2>3. CASE w # v
    <3>1. worldCh'[w] = worldCh[w]
      BY <1>0, <2>1, <2>3 DEF TypeOK
    <3> QED BY <1>b, <2>1, <3>1 DEF Left
  <2>4. CASE ~\E k \in DOMAIN worldCh[w] : Leaves(w, worldCh[w][k])
    BY <1>b, <2>1, <2>4 DEF Left
  <2> QED BY <2>2, <2>3, <2>4
<1> QED BY <1>1, <1>2, <1>3, <1>4, <1>5, StepLemma

\* A world that the host has or will have is only removed by its WorldLeave.
LEMMA ReadyStays ==
    ASSUME IInv, [Next]_vars, NEW w \in Worlds, Ready(w), ~Left(w)
    PROVE  Ready(w)'
PROOF
<1>0. TypeOK /\ Numbered /\ Found
  BY DEF IInv
<1>b. \A x : Success(w, x)' <=> Success(w, x)
  BY DEF Success
<1>1. CASE Still \/ Raise \/ \E t \in Threads : Receive(t)
  BY <1>1, <1>b DEF Still, Raise, Receive, Ready
<1>2. CASE LoopHandles
  <2>1. /\ eventCh # <<>> /\ eventCh' = Tail(eventCh) /\ hworlds \subseteq hworlds'
        /\ Head(eventCh).kind = "success" => Head(eventCh).world \in hworlds'
    BY <1>2 DEF LoopHandles
  <2>2. CASE \E k \in DOMAIN eventCh : Success(w, eventCh[k])
    <3>1. PICK k \in DOMAIN eventCh : Success(w, eventCh[k])
      BY <2>2
    <3>2. CASE k = 1
      <4>1. Head(eventCh) = eventCh[1]
        BY <1>0, <2>1, ChannelLemma DEF TypeOK
      <4> QED BY <2>1, <3>1, <3>2, <4>1 DEF Ready, Success
    <3>3. CASE k # 1
      <4>1. k - 1 \in DOMAIN eventCh' /\ eventCh'[k - 1] = eventCh[k]
        BY <1>0, <2>1, <3>3, ChannelLemma DEF TypeOK
      <4> QED BY <1>b, <3>1, <4>1 DEF Ready
    <3> QED BY <3>2, <3>3
  <2>3. CASE w \in hworlds
    BY <2>1, <2>3 DEF Ready
  <2> QED BY <2>2, <2>3 DEF Ready
<1>3. CASE LoopTakes
  <2>1. /\ eventCh # <<>> /\ eventCh' = Tail(eventCh) /\ loop' = Head(eventCh)
        /\ loop'.kind \in Raised
        /\ hworlds' = IF loop'.kind = "leave" THEN hworlds \ {loop'.world} ELSE hworlds
    BY <1>0, <1>3, TakesLemma
  <2>2. 1 \in DOMAIN eventCh /\ loop' = eventCh[1]
    BY <1>0, <2>1, ChannelLemma DEF TypeOK
  <2>3. ~Leaves(w, loop')
    BY <2>2 DEF Left
  <2>4. w \in hworlds => w \in hworlds'
    BY <2>1, <2>3 DEF Leaves
  <2>5. CASE \E k \in DOMAIN eventCh : Success(w, eventCh[k])
    <3>1. PICK k \in DOMAIN eventCh : Success(w, eventCh[k])
      BY <2>5
    <3>2. k # 1
      BY <2>1, <2>2, <3>1 DEF Success, Raised
    <3>3. k - 1 \in DOMAIN eventCh' /\ eventCh'[k - 1] = eventCh[k]
      BY <1>0, <2>1, <3>2, ChannelLemma DEF TypeOK
    <3> QED BY <1>b, <3>1, <3>3 DEF Ready
  <2> QED BY <2>4, <2>5 DEF Ready
<1>4. ASSUME NEW t \in Threads, Push(t) PROVE Ready(w)'
  <2>1. \E e \in Events : eventCh' = Append(eventCh, e)
    BY <1>0, <1>4, PushLemma
  <2>2. \A k \in DOMAIN eventCh : k \in DOMAIN eventCh' /\ eventCh'[k] = eventCh[k]
    BY <1>0, <2>1, ChannelLemma DEF TypeOK
  <2>3. UNCHANGED hworlds
    BY <1>4 DEF Push
  <2> QED BY <1>b, <2>2, <2>3 DEF Ready
<1> QED BY <1>1, <1>2, <1>3, <1>4, StepLemma

\* A world that AND knows is known to the host, or about to be, until it is left.
LEMMA AwakeFound ==
    ASSUME IInv, [Next]_vars, NEW w \in awake'
    PROVE  Left(w)' \/ Ready(w)'
PROOF
<1>0. TypeOK /\ Locking /\ Found
  BY DEF IInv
<1>1. CASE w \in awake
  <2>1. w \in Worlds
    BY <1>0, <1>1 DEF TypeOK
  <2>2. CASE Left(w)
    BY <2>1, <2>2, LeftStays
  <2>3. CASE ~Left(w)
    BY <1>0, <1>1, <2>1, <2>3, ReadyStays DEF Found
  <2> QED BY <2>2, <2>3
<1>2. CASE w \notin awake
  <2>1. PICK t \in Threads : Unlock(t) /\ thread[t].call = "open" /\ w = thread[t].world
    <3>1. \/ awake' = awake
          \/ \E t \in Threads : Unlock(t)
      BY DEF Next, EventLoop, Continue, Read, Lock, Push, Receive, LoopHandles, LoopTakes, Raise,
             OpenReturns, NetCall, OpenWorld, WorldLeave, Answer, WaitEvent, vars
    <3>2. PICK t \in Threads : Unlock(t)
      BY <1>2, <3>1
    <3>3. awake' = AwakeAfter(t)
      BY <3>2 DEF Unlock
    <3> QED BY <1>2, <3>2, <3>3 DEF AwakeAfter
  <2>2. /\ thread[t].at = "push" /\ thread[t].todo = <<>> /\ UNCHANGED <<eventCh, hworlds>>
    BY <2>1 DEF Unlock
  <2>3. w \in Worlds /\ Opening(t, w)
    BY <1>0, <2>1, <2>2 DEF TypeOK, ThreadOK, Opening
  <2>4. <<>> # <<"success", "host">>
    OBVIOUS
  <2>5. Ready(w)
    BY <1>0, <2>2, <2>3, <2>4 DEF Found
  <2> QED BY <2>2, <2>5 DEF Ready, Success
<1> QED BY <1>1, <1>2

\* OpenWorld pushes the JoinSuccess before anything else.
LEMMA OpeningFound ==
    ASSUME IInv, [Next]_vars, NEW u \in Threads, NEW w \in Worlds,
           Opening(u, w)', thread'[u].at = "push", thread'[u].todo # <<"success", "host">>
    PROVE  Ready(w)'
PROOF
<1>0. TypeOK /\ Locking /\ Found
  BY DEF IInv
<1>1. ASSUME Opening(u, w), thread[u].at = "push", thread[u].todo # <<"success", "host">>
      PROVE  Ready(w)'
  <2>1. Ready(w)
    BY <1>0, <1>1 DEF Found
  <2>2. ~Left(w)
    BY <1>1 DEF IInv, LastIsLeave, Closed
  <2> QED BY <2>1, <2>2, ReadyStays
<1>2. CASE thread'[u] = thread[u]
  BY <1>1, <1>2 DEF Opening
<1>3. CASE thread'[u] # thread[u]
  <2>1. ASSUME NEW r, thread' = [thread EXCEPT ![u] = r], r.at # "push" PROVE FALSE
    <3>1. thread'[u] = r
      BY <1>0, <2>1, OthersLemma
    <3> QED BY <2>1, <3>1
  <2>2. ASSUME NEW t \in Threads, t # u, NEW r, thread' = [thread EXCEPT ![t] = r] PROVE FALSE
    BY <1>0, <1>3, <2>2, OthersLemma
  <2>3. ASSUME NEW t \in Threads, Lock(t) PROVE FALSE
    <3>1. PICK burst \in IF Known(t) THEN Bursts(thread[t].call) ELSE {<<>>} :
             thread' = [thread EXCEPT ![t].at = "push", ![t].todo = burst]
      BY <2>3 DEF Lock
    <3> DEFINE r == [thread[t] EXCEPT !.at = "push", !.todo = burst]
    <3>2. thread' = [thread EXCEPT ![t] = r]
      BY <3>1
    <3>3. r.call = thread[t].call /\ r.todo = burst
      BY <1>0 DEF TypeOK, ThreadRec
    <3> HIDE DEF r
    <3>4. t = u
      BY <2>2, <3>2
    <3>5. thread'[u] = r
      BY <1>0, <3>2, <3>4, OthersLemma
    <3>6. thread[t].call = "open"
      BY <3>3, <3>5 DEF Opening
    <3>7. burst \in Bursts("open")
      BY <3>1, <3>6 DEF Known
    <3>8. burst = <<"success", "host">>
      BY <3>7 DEF Bursts
    <3> QED BY <3>3, <3>5, <3>8
  <2>4. ASSUME NEW t \in Threads, Push(t) PROVE Ready(w)'
    <3> DEFINE r == [thread[t] EXCEPT !.todo = Tail(@)]
    <3>1. thread' = [thread EXCEPT ![t] = r] /\ thread[t].at = "push" /\ UNCHANGED hworlds
      BY <2>4 DEF Push
    <3>2. r.call = thread[t].call /\ r.world = thread[t].world
      BY <1>0 DEF TypeOK, ThreadRec
    <3> HIDE DEF r
    <3>3. t = u
      BY <2>2, <3>1
    <3>4. thread'[u] = r
      BY <1>0, <3>1, <3>3, OthersLemma
    <3>5. Opening(u, w)
      BY <3>1, <3>2, <3>3, <3>4 DEF Opening
    <3>6. CASE thread[u].todo # <<"success", "host">>
      BY <1>1, <3>1, <3>3, <3>5, <3>6
    <3>7. CASE thread[u].todo = <<"success", "host">>
      <4>1. PICK e \in Events : /\ e.world = thread[u].world /\ e.kind = Head(thread[u].todo)
                                /\ eventCh' = Append(eventCh, e)
        BY <1>0, <2>4, <3>3, PushLemma
      <4>2. Head(<<"success", "host">>) = "success"
        OBVIOUS
      <4>3. Success(w, e)
        BY <3>5, <3>7, <4>1, <4>2 DEF Success, Opening
      <4>4. /\ DOMAIN eventCh' = 1..Len(eventCh) + 1 /\ eventCh'[Len(eventCh) + 1] = e
            /\ Len(eventCh) \in Nat
        BY <1>0, <4>1, ChannelLemma DEF TypeOK
      <4>5. Len(eventCh) + 1 \in DOMAIN eventCh'
        BY <4>4
      <4> QED BY <4>3, <4>4, <4>5 DEF Ready, Success
    <3> QED BY <3>6, <3>7
  <2>5. ASSUME NEW t \in Threads, NEW r, thread' = [thread EXCEPT ![t] = r], r.at # "push" PROVE FALSE
    BY <2>1, <2>2, <2>5
  <2>6. ASSUME NEW t \in Threads, Unlock(t) PROVE FALSE
    <3>1. thread[t] \in ThreadRec
      BY <1>0 DEF TypeOK
    <3>2. [thread[t] EXCEPT !.at = "result"].at = "result" /\ Idle.at = "idle"
      BY <3>1 DEF ThreadRec, Idle
    <3>3. thread' = [thread EXCEPT ![t] = IF thread[t].call = "open"
                                          THEN [thread[t] EXCEPT !.at = "result"] ELSE Idle]
      BY <2>6 DEF Unlock
    <3> QED BY <2>5, <3>2, <3>3
  <2>7. ASSUME NEW t \in Threads, OpenReturns(t) \/ Receive(t) PROVE FALSE
    BY <2>5, <2>7, RecLemma DEF OpenReturns, Receive
  <2>8. ASSUME NEW t \in Threads, NEW v, WaitEvent(t, v) PROVE FALSE
    <3> DEFINE r == [Idle EXCEPT !.at = "wait", !.world = v]
    <3>1. r.at = "wait"
      BY DEF Idle
    <3>2. thread' = [thread EXCEPT ![t] = r]
      BY <2>8 DEF WaitEvent
    <3> HIDE DEF r
    <3> QED BY <2>5, <3>1, <3>2
  <2>9. ASSUME NEW t \in Threads, NEW call, NEW v, Busy(t, call, v) PROVE FALSE
    <3> DEFINE r == [at |-> "lock", call |-> call, world |-> v, todo |-> <<>>]
    <3>1. r.at = "lock"
      OBVIOUS
    <3>2. thread' = [thread EXCEPT ![t] = r]
      BY <2>9 DEF Busy
    <3> HIDE DEF r
    <3> QED BY <2>5, <3>1, <3>2
  <2>10. ~(EventLoop \/ UNCHANGED vars)
    BY <1>3 DEF EventLoop, LoopHandles, LoopTakes, Raise, vars
  <2>11. Callers \subseteq Threads /\ App \subseteq Threads /\ Net \subseteq Threads
    BY PathAssumption DEF Threads
  <2> QED BY <2>3, <2>4, <2>6, <2>7, <2>8, <2>9, <2>10, <2>11
          DEF Next, Continue, Read, NetCall, OpenWorld, WorldLeave, Answer
<1> QED BY <1>2, <1>3

\* The event on place k of AND.eventCh is of a world that the loop will find.
FoundAt(k) ==
    \/ eventCh[k].world \in hworlds
    \/ \E j \in 1..k - 1 : Success(eventCh[k].world, eventCh[j])

\* The event loop finds the world of every event that is on the channel.
LEMMA RaisedFound ==
    ASSUME IInv, [Next]_vars, NEW k \in DOMAIN eventCh', eventCh'[k].kind \in Raised
    PROVE  \/ eventCh'[k].world \in hworlds'
           \/ \E j \in 1..k - 1 : Success(eventCh'[k].world, eventCh'[j])
PROOF
<1>0. /\ TypeOK /\ Locking /\ Numbered /\ EventsInOrder /\ LastIsLeave /\ Found
      /\ \A i \in DOMAIN eventCh : eventCh[i].kind \in Raised => FoundAt(i)
  BY DEF IInv, Found, FoundAt
<1>1. CASE Still \/ Raise \/ \E t \in Threads : Receive(t)
  <2>1. UNCHANGED <<eventCh, hworlds>>
    BY <1>1 DEF Still, Raise, Receive
  <2> QED BY <1>0, <2>1 DEF FoundAt
<1>2. ASSUME eventCh # <<>>, eventCh' = Tail(eventCh), 
             Head(eventCh).kind = "success" => Head(eventCh).world \in hworlds',
             eventCh'[k].world \in hworlds => eventCh'[k].world \in hworlds'
      PROVE  \/ eventCh'[k].world \in hworlds'
             \/ \E j \in 1..k - 1 : Success(eventCh'[k].world, eventCh'[j])
  <2>1. /\ DOMAIN eventCh = 1..Len(eventCh) /\ Len(eventCh) > 0 /\ Len(eventCh) \in Nat
        /\ DOMAIN eventCh' = 1..Len(eventCh) - 1 /\ Head(eventCh) = eventCh[1]
        /\ \A i \in 1..Len(eventCh) - 1 : eventCh'[i] = eventCh[i + 1]
    BY <1>0, <1>2, ChannelLemma DEF TypeOK
  <2>2. k \in Nat /\ k + 1 \in DOMAIN eventCh /\ eventCh'[k] = eventCh[k + 1]
    BY <2>1
  <2>3. FoundAt(k + 1)
    BY <1>0, <2>2
  <2>4. CASE eventCh[k + 1].world \in hworlds
    BY <1>2, <2>2, <2>4
  <2>5. CASE \E j \in 1..k : Success(eventCh[k + 1].world, eventCh[j])
    <3>1. PICK j \in 1..k : Success(eventCh[k + 1].world, eventCh[j])
      BY <2>5
    <3>2. CASE j = 1
      BY <1>2, <2>1, <2>2, <3>1, <3>2 DEF Success
    <3>3. CASE j # 1
      <4>1. j - 1 \in 1..k - 1 /\ eventCh'[j - 1] = eventCh[j]
        BY <2>1, <2>2, <3>3
      <4> QED BY <2>2, <3>1, <4>1
    <3> QED BY <3>2, <3>3
  <2>6. (k + 1) - 1 = k
    BY <2>2
  <2> QED BY <2>3, <2>4, <2>5, <2>6 DEF FoundAt
<1>3. CASE LoopHandles
  <2>1. /\ eventCh # <<>> /\ eventCh' = Tail(eventCh) /\ hworlds \subseteq hworlds'
        /\ Head(eventCh).kind = "success" => Head(eventCh).world \in hworlds'
    BY <1>3 DEF LoopHandles
  <2> QED BY <1>2, <2>1
<1>4. CASE LoopTakes
  <2>1. /\ eventCh # <<>> /\ eventCh' = Tail(eventCh) /\ loop' = Head(eventCh)
        /\ loop'.kind \in Raised /\ loop' \in Events /\ loop'.n # 0
        /\ hworlds' = IF loop'.kind = "leave" THEN hworlds \ {loop'.world} ELSE hworlds
    BY <1>0, <1>4, TakesLemma
  <2>2. Head(eventCh).kind # "success"
    BY <2>1 DEF Raised
  <2>3. /\ DOMAIN eventCh = 1..Len(eventCh) /\ Len(eventCh) > 0 /\ Len(eventCh) \in Nat
        /\ DOMAIN eventCh' = 1..Len(eventCh) - 1 /\ Head(eventCh) = eventCh[1]
        /\ \A i \in 1..Len(eventCh) - 1 : eventCh'[i] = eventCh[i + 1]
    BY <1>0, <2>1, ChannelLemma DEF TypeOK
  <2>4. /\ k \in Nat /\ k + 1 \in DOMAIN eventCh /\ eventCh'[k] = eventCh[k + 1]
        /\ 1 \in DOMAIN eventCh /\ 1 < k + 1
    BY <2>3
  <2> DEFINE w == loop'.world
  <2>5. w \in Worlds /\ eventCh[k + 1].n # 0
    BY <1>0, <2>1, <2>4 DEF Events, Numbered
  <2>6. ASSUME loop'.kind = "leave", eventCh'[k].world = w PROVE FALSE
    <3>1. OrderOf(w) /\ Taken(w) \in Nat /\ pushed[w] \in Nat
      BY <1>0, <2>5, TakenType DEF EventsInOrder, OrderOf
    <3>2. Of(w, eventCh[1]) /\ Of(w, eventCh[k + 1]) /\ Leaves(w, eventCh[1])
      BY <2>1, <2>3, <2>4, <2>5, <2>6 DEF Of, Leaves
    <3>3. eventCh[1].n < eventCh[k + 1].n
      BY <2>4, <3>1, <3>2 DEF OrderOf
    <3>4. eventCh[1].n = pushed[w]
      BY <1>0, <2>4, <2>5, <3>2 DEF LastIsLeave
    <3>5. eventCh[k + 1].n \in Taken(w) + 1 .. pushed[w]
      BY <2>4, <3>1, <3>2 DEF OrderOf
    <3> QED BY <3>1, <3>3, <3>4, <3>5
  <2>7. eventCh'[k].world \in hworlds => eventCh'[k].world \in hworlds'
    BY <2>1, <2>6
  <2> QED BY <1>2, <2>1, <2>2, <2>7
<1>5. ASSUME NEW t \in Threads, Push(t)
      PROVE  \/ eventCh'[k].world \in hworlds'
             \/ \E j \in 1..k - 1 : Success(eventCh'[k].world, eventCh'[j])
  <2>1. PICK e \in Events :
           /\ e.world = thread[t].world /\ e.kind = Head(thread[t].todo)
           /\ eventCh' = Append(eventCh, e) /\ e.world \in Worlds
    BY <1>0, <1>5, PushLemma
  <2>2. /\ DOMAIN eventCh = 1..Len(eventCh) /\ Len(eventCh) \in Nat
        /\ DOMAIN eventCh' = 1..Len(eventCh) + 1 /\ eventCh'[Len(eventCh) + 1] = e
        /\ \A i \in DOMAIN eventCh : eventCh'[i] = eventCh[i]
    BY <1>0, <2>1, ChannelLemma DEF TypeOK
  <2>3. UNCHANGED hworlds
    BY <1>5 DEF Push
  <2>4. CASE k \in DOMAIN eventCh
    <3>1. \A j \in 1..k - 1 : eventCh'[j] = eventCh[j]
      BY <2>2, <2>4
    <3>2. FoundAt(k)
      BY <1>0, <2>2, <2>4
    <3> QED BY <2>2, <2>3, <2>4, <3>1, <3>2 DEF FoundAt
  <2>5. CASE k \notin DOMAIN eventCh
    <3>1. k = Len(eventCh) + 1 /\ eventCh'[k] = e /\ 1..k - 1 = DOMAIN eventCh
      BY <2>2, <2>5
    <3>2. /\ thread[t].call \in CallKinds /\ thread[t].todo \in Rest(thread[t].call)
          /\ thread[t].todo # <<>> /\ thread[t].at = "push"
      BY <1>0, <1>5, PushLemma DEF Push
    <3>3. thread[t].call # "open"
      BY <2>1, <3>1, <3>2, RestLemma
    <3>4. e.world \in awake
      BY <1>0, <2>1, <3>2, <3>3 DEF Locking
    <3>5. ~Left(e.world)
      BY <1>0, <1>5, <2>1, PushNotClosed DEF LastIsLeave
    <3>6. Ready(e.world)
      BY <1>0, <3>4, <3>5 DEF Found
    <3>7. CASE e.world \in hworlds
      BY <2>3, <3>1, <3>7
    <3>8. CASE \E j \in DOMAIN eventCh : Success(e.world, eventCh[j])
      BY <2>2, <3>1, <3>8
    <3> QED BY <3>6, <3>7, <3>8 DEF Ready
  <2> QED BY <2>4, <2>5
<1> QED BY <1>1, <1>3, <1>4, <1>5, StepLemma

\* The event loop never looks for a world that it does not have.
LEMMA FoundStep ==
    ASSUME IInv, [Next]_vars
    PROVE  Found'
PROOF
<1>1. panicked' = FALSE
  <2>1. TypeOK /\ Numbered /\ Found
    BY DEF IInv
  <2>2. CASE LoopTakes
    BY <2>1, <2>2, TakesLemma DEF Found
  <2>3. CASE ~LoopTakes
    BY <2>1, <2>3, StepLemma DEF Still, LoopHandles, Raise, Push, Receive, Found
  <2> QED BY <2>2, <2>3
<1>2. \A w \in awake' : Left(w)' \/ Ready(w)'
  BY AwakeFound
<1>3. \A t \in Threads, w \in Worlds :
         Opening(t, w)' /\ thread'[t].at = "push" /\ thread'[t].todo # <<"success", "host">> => Ready(w)'
  BY OpeningFound
<1>4. \A k \in DOMAIN eventCh' : eventCh'[k].kind \in Raised =>
         \/ eventCh'[k].world \in hworlds'
         \/ \E j \in 1..k - 1 : Success(eventCh'[k].world, eventCh'[j])
  BY RaisedFound
<1>5. \A w, e : Success(w, e)' <=> Success(w, e)
  BY DEF Success
<1> QED BY <1>1, <1>2, <1>3, <1>4, <1>5 DEF Found, Raised

-----------------------------------------------------------------------------
(* The theorems *)

LEMMA InitLemma == Init => IInv
PROOF
<1> SUFFICES ASSUME Init PROVE IInv
  OBVIOUS
<1>1. \A t \in Threads : thread[t] = Idle
  BY DEF Init
<1>2. TypeOK
  <2>1. thread \in [Threads -> ThreadRec] /\ \A t \in Threads : ThreadOK(thread[t])
    BY <1>1, RecLemma DEF Init
  <2>2. eventCh \in Seq(Events) /\ worldCh \in [Worlds -> Seq(Events)]
    BY DEF Init
  <2>3. pushed \in [Worlds -> Nat] /\ got \in [Worlds -> Nat]
    BY DEF Init
  <2>4. /\ opened \subseteq Worlds /\ awake \subseteq Worlds /\ hworlds \subseteq Worlds
        /\ results \subseteq Worlds /\ held \subseteq Worlds /\ ended \subseteq Worlds
        /\ asked \subseteq Events /\ mtx \in Threads \cup {None} /\ loop \in Events \cup {None}
    BY DEF Init
  <2> QED BY <2>1, <2>2, <2>3, <2>4 DEF TypeOK
<1>3. DOMAIN eventCh = {} /\ \A w \in Worlds : DOMAIN worldCh[w] = {} /\ Len(worldCh[w]) = 0
  BY DEF Init
<1>4. \A t \in Threads, w \in Worlds : ~Opening(t, w)
  BY <1>1, RecLemma DEF Opening
<1>5. Locking
  <2>1. \A t \in Threads : thread[t].at = "idle" /\ mtx # t
    BY <1>1, RecLemma, PathAssumption DEF Init, Threads
  <2> QED BY <1>4, <2>1 DEF Init, Locking
<1>6. Numbered
  BY <1>3 DEF Init, Numbered
<1>7. EventsInOrder
  <2>1. \A w \in Worlds : ~InLoop(w) /\ Taken(w) = 0 /\ pushed[w] = 0
    BY <1>3 DEF Init, InLoop, Taken
  <2> QED BY <1>3, <2>1 DEF EventsInOrder
<1>8. LastIsLeave
  BY <1>3 DEF Init, LastIsLeave, Left
<1>9. Found
  BY <1>3, <1>4 DEF Init, Found
<1> QED BY <1>2, <1>5, <1>6, <1>7, <1>8, <1>9 DEF IInv

LEMMA InductiveStep == IInv /\ [Next]_vars => IInv'
  BY TypeStep, LockingStep, NumberedStep, OrderStep, LeaveStep, FoundStep DEF IInv

\* An application that has read EWorldTerminate has read everything, and AND
\* pushes nothing more for that world.
LEMMA TerminateStep ==
    ASSUME IInv, [Next]_vars, NEW w \in ended
    PROVE  ~OnTheWay(w) /\ pushed'[w] = pushed[w]
PROOF
<1>1. TypeOK /\ Locking /\ w \in Worlds /\ EventsInOrder /\ LastIsLeave
  BY DEF IInv, TypeOK
<1>2. /\ OrderOf(w) /\ Taken(w) \in Nat /\ pushed[w] \in Nat /\ got[w] = pushed[w]
      /\ Len(worldCh[w]) \in Nat
  BY <1>1, TakenType DEF EventsInOrder, OrderOf, LastIsLeave
<1>3. Taken(w) = pushed[w] /\ Len(worldCh[w]) = 0 /\ ~InLoop(w)
  BY <1>2 DEF OrderOf, Taken
<1>4. worldCh[w] = <<>>
  BY <1>1, <1>3 DEF TypeOK
<1>5. \A k \in DOMAIN eventCh : ~Of(w, eventCh[k])
  BY <1>2, <1>3 DEF OrderOf
<1>6. Closed(w)
  BY <1>1 DEF LastIsLeave, Left
<1>7. pushed'[w] = pushed[w]
  <2>1. ASSUME NEW t \in Threads, Push(t) PROVE pushed'[w] = pushed[w]
    <3>1. thread[t].world # w
      BY <1>1, <1>6, <2>1, PushNotClosed
    <3> QED BY <1>1, <2>1, <3>1 DEF Push, TypeOK
  <2> QED BY <2>1, StepLemma DEF Still, LoopHandles, LoopTakes, Raise, Receive
<1> QED BY <1>3, <1>4, <1>5, <1>7 DEF OnTheWay

\* The parts of the invariant hold together in every reachable state.
THEOREM Invariance == Spec => []IInv
PROOF
<1>1. Init => IInv
  BY InitLemma
<1>2. IInv /\ [Next]_vars => IInv'
  BY InductiveStep
<1> QED BY <1>1, <1>2, PTL DEF Spec

\* The events of a world are read in the order in which AND pushed them, and
\* none is lost or read twice, whatever the capacities of the two channels.
THEOREM InOrder == Spec => []EventsInOrder
PROOF
<1>1. IInv => EventsInOrder
  BY DEF IInv
<1> QED BY <1>1, Invariance, PTL

\* EWorldTerminate is the last event of a world.
THEOREM TerminateLast == Spec => TerminateIsLast
PROOF
<1>1. IInv /\ [Next]_vars => [\A w \in ended : ~OnTheWay(w) /\ pushed'[w] = pushed[w]]_vars
  BY TerminateStep
<1>2. Spec => [][\A w \in ended : ~OnTheWay(w) /\ pushed'[w] = pushed[w]]_vars
  BY <1>1, Invariance, PTL DEF Spec
<1> QED BY <1>2 DEF TerminateIsLast
=============================================================================
