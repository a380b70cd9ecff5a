---------------------------- MODULE WorldEvents -----------------------------
(***************************************************************************)
(* The way of an event from AND to the application.  A call of AND pushes  *)
(* its events on AND.eventCh while it holds api_mtx (src/and/and.go); the  *)
(* event loop moves them one by one to the channel of their World          *)
(* (src/host/host.go, src/host/world.go); the threads of the application   *)
(* read those with World_WaitEvent and call back into AND with Accept,     *)
(* Decline and WorldLeave (src/native_dll/dllmain.go).  Both channels are  *)
(* bounded and a push on a full channel blocks, so a circle of waiting is  *)
(* possible: caller, event loop, reader.                                   *)
(*                                                                         *)
(* What a call decides is module AND; here a call is the number and the    *)
(* kind of the events it pushes: "request" (SessionRequest), "member" (any *)
(* other event that is raised on a World), "leave" (WorldLeave), "success" *)
(* (JoinSuccess) and "host" (timers, connection requests and certificates, *)
(* which the event loop deals with at once).  The worlds here are opened;  *)
(* JoinWorld, with its failures and its canceled joins, is in AbyssHost.   *)
(***************************************************************************)
EXTENDS Naturals, Sequences, FiniteSets

CONSTANTS
    Worlds,
    Net,        \* goroutines of the host that call AND: serve loops, timers
    App,        \* threads of the application
    Callers,    \* those of them that open, leave, accept and decline
    ReaderOf,   \* the thread that waits for the events of each world
    EventCap,   \* capacity of AND.eventCh
    WorldCap,   \* capacity of World.eventChannel
    MaxEvents,  \* bound: requests and member events of each world
    None

\* An event on AND.eventCh; n numbers the events that are raised on a world.
Kinds == {"request", "member", "leave", "success", "host"}

Events == [world : Worlds, kind : Kinds, n : Nat]

ASSUME PathAssumption ==
    /\ EventCap \in Nat \ {0} /\ WorldCap \in Nat \ {0} /\ MaxEvents \in [Worlds -> Nat]
    /\ Callers \subseteq App /\ Net \cap App = {}
    /\ ReaderOf \in [Worlds -> App]
    /\ None \notin Worlds \cup Net \cup App /\ None \notin Events

VARIABLES
    mtx,      \* who holds api_mtx, or None
    thread,   \* what each goroutine and thread is doing
    eventCh,  \* AND.eventCh
    loop,     \* the event that the event loop is about to raise, or None
    opened,   \* the worlds that an OpenWorld call was begun for
    awake,    \* AND.worlds
    hworlds,  \* AbyssHost.worlds
    results,  \* the worlds whose result is in its join_res_ch
    held,     \* the worlds that OpenWorld has returned
    worldCh,  \* World.eventChannel
    asked,    \* the requests that the application has read and not answered
    ended,    \* the worlds whose EWorldTerminate was read
    pushed,   \* the number of world events that AND has pushed for each world
    got,      \* the number of them that the application has read
    panicked  \* the event loop has not found a world

vars == <<mtx, thread, eventCh, loop, opened, awake, hworlds, results, held,
          worldCh, asked, ended, pushed, got, panicked>>

Threads == Net \cup App

-----------------------------------------------------------------------------
(* A call of AND: lock, push the events, unlock *)

Idle == [at |-> "idle", call |-> "none", world |-> None, todo |-> <<>>]

Busy(t, call, w) ==
    /\ thread[t] = Idle
    /\ thread' = [thread EXCEPT ![t] = [at |-> "lock", call |-> call, world |-> w, todo |-> <<>>]]

\* The events a call may push for the world it is about.
Bursts(call) ==
    CASE call = "open"   -> {<<"success", "host">>}
      [] call = "net"    -> {<<"request">>, <<"member">>, <<"host">>}
      [] call = "answer" -> {<<>>, <<"member">>}
      [] call = "leave"  -> {<<"leave">>, <<"member", "leave">>}

\* Mutant: the closed world is not removed.
AwakeStays(t) == IF thread[t].call = "open" THEN awake \cup {thread[t].world} ELSE awake

\* AND.worlds after the call.
AwakeAfter(t) ==
    CASE thread[t].call = "open"  -> awake \cup {thread[t].world}
      [] thread[t].call = "leave" -> awake \ {thread[t].world}
      [] OTHER -> awake

Known(t) == thread[t].call = "open" \/ thread[t].world \in awake

\* Taking the lock; a call for a world that AND does not know has no effect.
Lock(t) ==
    /\ thread[t].at = "lock" /\ mtx = None
    /\ mtx' = t
    /\ \E burst \in IF Known(t) THEN Bursts(thread[t].call) ELSE {<<>>} :
          /\ burst \in {<<"request">>, <<"member">>} => pushed[thread[t].world] < MaxEvents[thread[t].world]
          /\ thread' = [thread EXCEPT ![t].at = "push", ![t].todo = burst]
    /\ UNCHANGED <<eventCh, loop, opened, awake, hworlds, results, held, worldCh, asked, ended, pushed, got, panicked>>

\* A world event carries its number, for the properties only.
Push(t) ==
    LET w == thread[t].world
        kind == Head(thread[t].todo)
        raised == kind \in {"request", "member", "leave"}
    IN  /\ thread[t].at = "push" /\ thread[t].todo # <<>>
        /\ Len(eventCh) < EventCap
        /\ eventCh' = Append(eventCh, [world |-> w, kind |-> kind,
                                       n |-> IF raised THEN pushed[w] + 1 ELSE 0])
        /\ pushed' = [pushed EXCEPT ![w] = IF raised THEN @ + 1 ELSE @]
        /\ thread' = [thread EXCEPT ![t].todo = Tail(@)]
        /\ UNCHANGED <<mtx, loop, opened, awake, hworlds, results, held, worldCh, asked, ended, got, panicked>>

\* Mutant: the return that finds no world forgets to unlock.
UnlockFound(t) ==
    /\ thread[t].at = "push" /\ thread[t].todo = <<>>
    /\ mtx' = IF Known(t) THEN None ELSE mtx
    /\ awake' = AwakeAfter(t)
    /\ thread' = [thread EXCEPT ![t] = IF @.call = "open" THEN [@ EXCEPT !.at = "result"] ELSE Idle]
    /\ UNCHANGED <<eventCh, loop, opened, hworlds, results, held, worldCh, asked, ended, pushed, got, panicked>>

\* The deferred unlock; OpenWorld goes on to wait for its result.
Unlock(t) ==
    /\ thread[t].at = "push" /\ thread[t].todo = <<>>
    /\ mtx' = None
    /\ awake' = AwakeAfter(t)
    /\ thread' = [thread EXCEPT ![t] = IF @.call = "open" THEN [@ EXCEPT !.at = "result"] ELSE Idle]
    /\ UNCHANGED <<eventCh, loop, opened, hworlds, results, held, worldCh, asked, ended, pushed, got, panicked>>

-----------------------------------------------------------------------------
(* Who calls *)

\* A message, a connection or a timer that is about world w.
NetCall(c, w) ==
    /\ w \in awake
    /\ Busy(c, "net", w)
    /\ UNCHANGED <<mtx, eventCh, loop, opened, awake, hworlds, results, held, worldCh, asked, ended, pushed, got, panicked>>

OpenWorld(t, w) ==
    /\ w \notin opened
    /\ Busy(t, "open", w)
    /\ opened' = opened \cup {w}
    /\ UNCHANGED <<mtx, eventCh, loop, awake, hworlds, results, held, worldCh, asked, ended, pushed, got, panicked>>

OpenReturns(t) ==
    /\ thread[t].at = "result" /\ thread[t].world \in results
    /\ results' = results \ {thread[t].world}
    /\ held' = held \cup {thread[t].world}
    /\ thread' = [thread EXCEPT ![t] = Idle]
    /\ UNCHANGED <<mtx, eventCh, loop, opened, awake, hworlds, worldCh, asked, ended, pushed, got, panicked>>

\* WorldPeerRequest_Accept and _Decline.
Answer(t, r) ==
    /\ Busy(t, "answer", r.world)
    /\ asked' = asked \ {r}
    /\ UNCHANGED <<mtx, eventCh, loop, opened, awake, hworlds, results, held, worldCh, ended, pushed, got, panicked>>

WorldLeave(t, w) ==
    /\ w \in held
    /\ Busy(t, "leave", w)
    /\ UNCHANGED <<mtx, eventCh, loop, opened, awake, hworlds, results, held, worldCh, asked, ended, pushed, got, panicked>>

\* World_WaitEvent: the thread does nothing else until there is an event.
WaitEvent(t, w) ==
    /\ t = ReaderOf[w] /\ w \in held \ ended
    /\ thread[t] = Idle
    /\ thread' = [thread EXCEPT ![t] = [Idle EXCEPT !.at = "wait", !.world = w]]
    /\ UNCHANGED <<mtx, eventCh, loop, opened, awake, hworlds, results, held, worldCh, asked, ended, pushed, got, panicked>>

Receive(t) ==
    LET w == thread[t].world
    IN  /\ thread[t].at = "wait" /\ worldCh[w] # <<>>
        /\ worldCh' = [worldCh EXCEPT ![w] = Tail(@)]
        /\ got' = [got EXCEPT ![w] = @ + 1]
        /\ asked' = IF Head(worldCh[w]).kind = "request" THEN asked \cup {Head(worldCh[w])} ELSE asked
        /\ ended' = IF Head(worldCh[w]).kind = "leave" THEN ended \cup {w} ELSE ended
        /\ thread' = [thread EXCEPT ![t] = Idle]
        /\ UNCHANGED <<mtx, eventCh, loop, opened, awake, hworlds, results, held, pushed, panicked>>

-----------------------------------------------------------------------------
(* The event loop *)

\* Everything but an event that is raised on a World.
LoopHandles ==
    /\ loop = None /\ ~panicked /\ eventCh # <<>>
    /\ LET e == Head(eventCh)
       IN  \/ /\ e.kind = "host"
              /\ UNCHANGED <<hworlds, results>>
           \/ /\ e.kind = "success"
              /\ hworlds' = hworlds \cup {e.world}
              /\ results' = results \cup {e.world}
    /\ eventCh' = Tail(eventCh)
    /\ UNCHANGED <<mtx, thread, loop, opened, awake, held, worldCh, asked, ended, pushed, got, panicked>>

\* The look-up of the world, which WorldLeave also removes.
LoopTakes ==
    /\ loop = None /\ ~panicked /\ eventCh # <<>>
    /\ LET e == Head(eventCh)
       IN  /\ e.kind \in {"request", "member", "leave"}
           /\ IF e.world \in hworlds THEN loop' = e /\ UNCHANGED panicked
                                     ELSE panicked' = TRUE /\ UNCHANGED loop
           /\ hworlds' = IF e.kind = "leave" THEN hworlds \ {e.world} ELSE hworlds
    /\ eventCh' = Tail(eventCh)
    /\ UNCHANGED <<mtx, thread, opened, awake, results, held, worldCh, asked, ended, pushed, got>>

\* Mutant: an event that does not fit on the channel is dropped.
RaiseOrDrop ==
    /\ loop # None
    /\ worldCh' = IF Len(worldCh[loop.world]) < WorldCap
                  THEN [worldCh EXCEPT ![loop.world] = Append(@, loop)] ELSE worldCh
    /\ loop' = None
    /\ UNCHANGED <<mtx, thread, eventCh, opened, awake, hworlds, results, held, asked, ended, pushed, got, panicked>>

\* World.Raise...: blocks on a full channel.
Raise ==
    /\ loop # None
    /\ Len(worldCh[loop.world]) < WorldCap
    /\ worldCh' = [worldCh EXCEPT ![loop.world] = Append(@, loop)]
    /\ loop' = None
    /\ UNCHANGED <<mtx, thread, eventCh, opened, awake, hworlds, results, held, asked, ended, pushed, got, panicked>>

-----------------------------------------------------------------------------
Init ==
    /\ mtx = None
    /\ thread = [t \in Threads |-> Idle]
    /\ eventCh = <<>> /\ loop = None
    /\ opened = {} /\ awake = {} /\ hworlds = {} /\ results = {} /\ held = {}
    /\ worldCh = [w \in Worlds |-> <<>>]
    /\ asked = {} /\ ended = {}
    /\ pushed = [w \in Worlds |-> 0] /\ got = [w \in Worlds |-> 0]
    /\ panicked = FALSE

EventLoop == LoopHandles \/ LoopTakes \/ Raise

\* What goes on without a new decision of the application.
Continue(t) == Lock(t) \/ Push(t) \/ Unlock(t) \/ OpenReturns(t)

Read(t) == (\E w \in Worlds : WaitEvent(t, w)) \/ Receive(t)

Next ==
    \/ EventLoop
    \/ \E t \in Threads : Continue(t)
    \/ \E t \in App : Read(t)
    \/ \E c \in Net, w \in Worlds : NetCall(c, w)
    \/ \E t \in Callers, w \in Worlds : OpenWorld(t, w) \/ WorldLeave(t, w)
    \/ \E t \in Callers, r \in asked : Answer(t, r)

Spec == Init /\ [][Next]_vars

\* Goroutines and threads keep running, api_mtx is given to whoever waits for
\* it (a sync.Mutex is handed over in turn after a millisecond), and the
\* application reads each world until its termination.
FairSpec ==
    /\ Spec
    /\ WF_vars(EventLoop)
    /\ \A t \in Threads : SF_vars(Lock(t)) /\ WF_vars(Continue(t))
    /\ \A t \in App : WF_vars(Read(t))

-----------------------------------------------------------------------------
(* Properties *)

\* Event e was raised on world w.
Of(w, e) == e.world = w /\ e.n # 0

InLoop(w) == loop # None /\ loop.world = w

\* The number of events of a world that have left AND.eventCh.
Taken(w) == got[w] + Len(worldCh[w]) + (IF InLoop(w) THEN 1 ELSE 0)

\* Two channels and a loop between them, shared with other worlds, lose,
\* duplicate and reorder nothing: the events of a world are read in the order
\* in which AND pushed them.  What was read is followed by the channel of the
\* world, that by the event in the loop, and that by the rest on AND.eventCh.
EventsInOrder ==
    \A w \in Worlds :
        /\ \A k \in DOMAIN worldCh[w] : Of(w, worldCh[w][k]) /\ worldCh[w][k].n = got[w] + k
        /\ InLoop(w) => loop.n = Taken(w)
        /\ Taken(w) <= pushed[w]
        /\ \A n \in Taken(w) + 1 .. pushed[w] : \E k \in DOMAIN eventCh : Of(w, eventCh[k]) /\ eventCh[k].n = n
        /\ \A k \in DOMAIN eventCh : Of(w, eventCh[k]) => eventCh[k].n \in Taken(w) + 1 .. pushed[w]
        /\ \A j, k \in DOMAIN eventCh :
              j < k /\ Of(w, eventCh[j]) /\ Of(w, eventCh[k]) => eventCh[j].n < eventCh[k].n

\* An event of w is on its way to the application.
OnTheWay(w) == worldCh[w] # <<>> \/ InLoop(w) \/ \E k \in DOMAIN eventCh : Of(w, eventCh[k])

\* EWorldTerminate is the last event of a world: when the application has read
\* it, it has read everything and nothing more will come.
TerminateIsLast ==
    [][\A w \in ended : ~OnTheWay(w) /\ pushed'[w] = pushed[w]]_vars

\* Every call here returns, OpenWorld included, however small the channels
\* are, if each world is read by a thread that does nothing else.
CallsReturn ==
    \A t \in Net \cup Callers : thread[t].at \in {"lock", "push", "result"} ~> thread[t].at \in {"idle", "wait"}

\* A world that was left gets its EWorldTerminate, and the reader of a world is
\* not left waiting for it.
TerminateArrives == \A w \in Worlds : (w \in held \ awake) ~> (w \in ended)
=============================================================================
