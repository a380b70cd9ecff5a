----------------------------- MODULE AbyssHost ------------------------------
(***************************************************************************)
(* The host around AND (src/host): the calls of the application, a serve   *)
(* loop for every connected peer, the context watchdog of JoinWorld, and   *)
(* the event loop that turns the events of AND into World objects, join    *)
(* results and timers.  All of them run concurrently and meet only in AND, *)
(* in the event channel and in the maps worlds and join_queue.             *)
(*                                                                         *)
(* Every call of AND is the action of module AND together with Emit, which *)
(* pushes the events of the call on the channel.  A call that finds no     *)
(* world returns without effect.  The serve loops never call PeerClose.    *)
(***************************************************************************)
EXTENDS AND, Integers

CONSTANTS
    Local,      \* identity hash of this host
    Paths,      \* the paths that the application may publish
    EventCap    \* capacity of the event channel

ASSUME LocalAssumption == Locals = {Local}
ASSUME EventCapAssumption == EventCap \in Nat
ASSUME FiniteAssumption == IsFiniteSet(Lsids)

VARIABLES
    eventCh,    \* AND.eventCh
    hworlds,    \* AbyssHost.worlds: a World ("live"), a nil pointer, or no key
    join_queue, \* AbyssHost.join_queue: the keys
    join_res,   \* the buffered channel of each join result
    api,        \* where the OpenWorld or JoinWorld call of a world is
    ctx,        \* the contexts of JoinWorld calls that are done
    watchdog,   \* the context watchdog of each JoinWorld call
    waiter,     \* ctx_done_waiter holds a value
    serving,    \* the peers with a running serve loop
    pathMap,    \* SimplePathResolver
    timers,     \* the running timers of each world
    active,     \* Activity.active_cnt of each peer
    view,       \* what the application has seen of each peer
    offers,     \* the Accept and Decline functions the application has
    dead        \* "none", or how the event loop or a call has died

calls == <<join_queue, join_res, api, ctx, watchdog, waiter>>
app == <<hworlds, timers, active, view, offers>>
net == <<serving, pathMap>>
hvars == <<vars, eventCh, calls, app, net, dead>>

-----------------------------------------------------------------------------
(* The event channel *)

AndEvent(type, l, p, s) == [type |-> type, lsid |-> l, peer |-> p, sid |-> s]

\* The events of a call: the n-th one about peer p of world l.
Raised(F) ==
    UNION {{[lsid |-> l, peer |-> p, n |-> n] : n \in DOMAIN F[l][p].ev} : l \in Lsids, p \in Peers}

EventOf(F, o) ==
    LET e == F[o.lsid][o.peer].ev[o.n] IN AndEvent(e.type, o.lsid, o.peer, e.sid)

\* The maps are visited in any order, world after world and peer after peer.
Visits(F) ==
    {order \in SeqOf(Raised(F), EventCap) :
        /\ \A o \in Raised(F) : \E k \in DOMAIN order : order[k] = o
        /\ \A j, k \in DOMAIN order : j < k /\ order[j].lsid = order[k].lsid =>
              /\ \A i \in j..k : order[i].lsid = order[k].lsid
              /\ order[j].peer = order[k].peer =>
                    order[j].n < order[k].n /\ \A i \in j..k : order[i].peer = order[k].peer}

\* The events of a call are pushed in such an order, the answer to a join first.
Emit(F, last) ==
    \E order \in Visits(F) :
        LET new == [k \in DOMAIN order |-> EventOf(F, order[k])] \o last
        IN  /\ \A k \in DOMAIN new : new[k].type = "JoinSuccess" => k = 1
            /\ Len(eventCh \o new) <= EventCap
            /\ eventCh' = eventCh \o new

EmitOn(l, fx, last) == Emit(OnWorld(l, fx), last)

Quietly == UNCHANGED eventCh

-----------------------------------------------------------------------------
(* Calls of the application *)

HostOpenWorld(l) ==
    /\ OpenWorld(l)
    /\ EmitOn(l, OpenEntries(PeersOf(l)), <<AndEvent("JoinSuccess", l, Nil, Nil),
                                            AndEvent("TimerRequest", l, Nil, Nil)>>)
    /\ join_queue' = join_queue \cup {l}
    /\ api' = [api EXCEPT ![l] = "opening"]
    /\ UNCHANGED <<join_res, ctx, watchdog, waiter, app, net, dead>>

\* The call of AND, then the start of the watchdog.
HostJoinWorld(l, target) ==
    /\ JoinWorld(l, target)
    /\ EmitOn(l, JoinEntries(target, PeersOf(l)), <<>>)
    /\ join_queue' = join_queue \cup {l}
    /\ api' = [api EXCEPT ![l] = "joining"]
    /\ watchdog' = [watchdog EXCEPT ![l] = "armed"]
    /\ UNCHANGED <<join_res, ctx, waiter, app, net, dead>>

\* The join result arrives: OpenWorld panics if it is a failure, JoinWorld
\* signals the watchdog and returns the world or the error.
OpenReturn(l) ==
    /\ api[l] = "opening" /\ join_res[l] # "none"
    /\ join_res' = [join_res EXCEPT ![l] = "none"]
    /\ api' = [api EXCEPT ![l] = "held"]
    /\ dead' = IF join_res[l] = "ok" THEN dead ELSE "world open failed"
    /\ UNCHANGED <<vars, join_queue, ctx, watchdog, waiter, app, net>> /\ Quietly

JoinReturn(l) ==
    /\ api[l] = "joining" /\ join_res[l] # "none"
    /\ join_res' = [join_res EXCEPT ![l] = "none"]
    /\ api' = [api EXCEPT ![l] = IF join_res[l] = "ok" THEN "held" ELSE "failed"]
    /\ waiter' = waiter \cup {l}
    /\ UNCHANGED <<vars, join_queue, ctx, watchdog, app, net, dead>> /\ Quietly

\* The timeout of the context, or its cancellation, which may also come after
\* the call has returned (native_dll defers the cancellation).
ContextDone(l) ==
    /\ watchdog[l] = "armed" /\ l \notin ctx
    /\ ctx' = ctx \cup {l}
    /\ UNCHANGED <<vars, join_queue, join_res, api, watchdog, waiter, app, net, dead>> /\ Quietly

\* CloseWorld of AND, with the WorldLeave event at the end.
Leave(l) ==
    \/ /\ CloseWorld(l)
       /\ EmitOn(l, Close(World(l)), <<AndEvent("WorldLeave", l, Nil, Nil)>>)
    \/ l \notin worlds /\ UNCHANGED vars /\ Quietly

\* The select of the watchdog: when both cases are ready, either may be taken.
WatchdogCloses(l) ==
    /\ watchdog[l] = "armed" /\ l \in ctx
    /\ Leave(l)
    /\ watchdog' = [watchdog EXCEPT ![l] = "done"]
    /\ UNCHANGED <<join_queue, join_res, api, ctx, waiter, app, net, dead>>

WatchdogReturns(l) ==
    /\ watchdog[l] = "armed" /\ l \in waiter
    /\ watchdog' = [watchdog EXCEPT ![l] = "done"]
    /\ waiter' = waiter \ {l}
    /\ UNCHANGED <<vars, join_queue, join_res, api, ctx, app, net, dead>> /\ Quietly

LeaveWorld(l) ==
    /\ api[l] = "held"
    /\ Leave(l)
    /\ api' = [api EXCEPT ![l] = "left"]
    /\ UNCHANGED <<join_queue, join_res, ctx, watchdog, waiter, app, net, dead>>

\* The functions of an EWorldMemberRequest, which the application may call at
\* any time, also when the session is long gone.
Accept(o) ==
    /\ AcceptSessionCall(o.lsid, o.peer, o.sid)
    /\ EmitOn(o.lsid, AcceptSession(World(o.lsid), o.peer, o.sid), <<>>)
    /\ UNCHANGED <<calls, app, net, dead>>

Decline(o) ==
    /\ DeclineSessionCall(o.lsid, o.peer, o.sid)
    /\ EmitOn(o.lsid, DeclineSession(World(o.lsid), o.peer, o.sid), <<>>)
    /\ UNCHANGED <<calls, app, net, dead>>

TrySetMapping(path, l) ==
    /\ api[l] \in {"held", "left"} /\ pathMap[path] = Nil
    /\ pathMap' = [pathMap EXCEPT ![path] = l]
    /\ UNCHANGED <<vars, calls, app, serving, dead>> /\ Quietly

DeleteMapping(path) ==
    /\ pathMap[path] # Nil
    /\ pathMap' = [pathMap EXCEPT ![path] = Nil]
    /\ UNCHANGED <<vars, calls, app, serving, dead>> /\ Quietly

-----------------------------------------------------------------------------
(* Serve loops *)

\* Mutant: a peer whose serve loop has ended is handed over again.
ServeStartAgain(p) ==
    /\ p \notin serving
    /\ PeerConnected(Local, p)
    /\ Emit(OnWorlds(Local, [l \in Lsids |-> At(World(l), p, ConnectPeer(entry[l][p]))]), <<>>)
    /\ serving' = serving \cup {p}
    /\ UNCHANGED <<calls, app, pathMap, dead>>

\* The network service hands over every peer at most once.
ServeStart(p) ==
    /\ p \notin peers[Local]
    /\ PeerConnected(Local, p)
    /\ Emit(OnWorlds(Local, [l \in Lsids |-> At(World(l), p, ConnectPeer(entry[l][p]))]), <<>>)
    /\ serving' = serving \cup {p}
    /\ UNCHANGED <<calls, app, pathMap, dead>>

\* The context of the peer is done; AND is not told.
ServeStop(p) ==
    /\ p \in serving
    /\ serving' = serving \ {p}
    /\ UNCHANGED <<vars, calls, app, pathMap, dead>> /\ Quietly

PathToSessionID(path) == pathMap[path]

\* The message switch of the serve loop of p.  A join request is for a path;
\* the path is looked up in the same step as AND is called.  A path that changes
\* in between makes no difference, since AND looks its world up again.
Serve(p) ==
    /\ p \in serving
    /\ UNCHANGED <<calls, app, net, dead>>
    /\ \/ ReceiveRSTAll(Local, p) /\ Emit(OnWorlds(Local, [l \in Lsids |-> RST(World(l), p)]), <<>>)
       \/ \E path \in Paths, s \in Sessions :
             LET l == PathToSessionID(path)
             IN  /\ l # Nil
                 /\ ReceiveJN(l, p, s)
                 /\ EmitOn(l, JN(World(l), p, s), <<>>)
       \/ \E l \in Lsids :
             \/ ReceiveJDN(l, p) /\ EmitOn(l, JDN(World(l), p), <<>>)
             \/ ReceiveRST(l, p) /\ EmitOn(l, RST(World(l), p), <<>>)
             \/ \E s \in Sessions :
                   \/ ReceiveMEM(l, p, s) /\ EmitOn(l, MEM(World(l), p, s), <<>>)
                   \/ ReceiveSOA(l, p, s) /\ EmitOn(l, SOA(World(l), p, s), <<>>)
                   \/ ReceiveSOD(l, p, s) /\ EmitOn(l, SOD(World(l), p, s), <<>>)
                   \/ \E q \in Peers, t \in Sessions :
                         /\ ReceiveJNI(l, p, s, q, t)
                         /\ EmitOn(l, JNI(World(l), p, s, q, t), <<>>)
                   \/ \E mems \in ListsOf(p) :
                         \* one JN was sent, so no JOK follows the first
                         \/ /\ ~Exposed(l)
                            /\ ReceiveJOK(l, p, s, mems)
                            /\ EmitOn(l, JOK(World(l), p, s, mems), <<>>)
                         \/ ReceiveSJN(l, p, s, mems) /\ EmitOn(l, SJN(World(l), p, s, mems), <<>>)
                         \/ ReceiveCRR(l, p, s, mems) /\ EmitOn(l, CRR(World(l), p, s, mems), <<>>)

-----------------------------------------------------------------------------
(* Timers and the event loop *)

\* Mutant: no further timer is requested.
TimerFiresOnce(l) ==
    /\ timers[l] > 0
    /\ timers' = [timers EXCEPT ![l] = @ - 1]
    /\ \E old \in SUBSET Peers :
          TimerExpireCall(l, old) /\ EmitOn(l, TimerExpire(World(l), old), <<>>)
    /\ UNCHANGED <<calls, hworlds, active, view, offers, net, dead>>

\* A timer of the event loop calls TimerExpire, which requests the next one; a
\* world that is gone lets the timer end.
TimerFires(l) ==
    /\ timers[l] > 0
    /\ timers' = [timers EXCEPT ![l] = @ - 1]
    /\ \/ \E old \in SUBSET Peers :
             /\ TimerExpireCall(l, old)
             /\ EmitOn(l, TimerExpire(World(l), old), <<AndEvent("TimerRequest", l, Nil, Nil)>>)
       \/ l \notin worlds /\ UNCHANGED vars /\ Quietly
    /\ UNCHANGED <<calls, hworlds, active, view, offers, net, dead>>

\* Mutant: a failure is not sent to the caller.
HandleJoinResultLost(e, world, res) ==
    /\ hworlds' = [hworlds EXCEPT ![e.lsid] = world]
    /\ join_queue' = join_queue \ {e.lsid}
    /\ join_res' = IF res = "ok" THEN [join_res EXCEPT ![e.lsid] = res] ELSE join_res
    /\ UNCHANGED <<api, ctx, watchdog, waiter, timers, active, view, offers, dead>>

\* JoinSuccess and JoinFail: the World object or a nil pointer, and the answer
\* to the caller.  A missing queue entry is a nil channel: the loop hangs.
HandleJoinResult(e, world, res) ==
    /\ hworlds' = [hworlds EXCEPT ![e.lsid] = world]
    /\ join_queue' = join_queue \ {e.lsid}
    /\ join_res' = [join_res EXCEPT ![e.lsid] = res]
    /\ dead' = IF e.lsid \in join_queue /\ join_res[e.lsid] = "none" THEN dead ELSE "hang"
    /\ UNCHANGED <<api, ctx, watchdog, waiter, timers, active, view, offers>>

HandleWorldLeave(e) ==
    /\ hworlds' = [hworlds EXCEPT ![e.lsid] = "absent"]
    /\ dead' = IF hworlds[e.lsid] = "absent" THEN "left world not found" ELSE dead
    /\ UNCHANGED <<calls, timers, active, view, offers>>

\* Mutant: the peer is activated by the request.
StepOnRequest(type) == CASE type = "Request" -> 1 [] type = "Close" -> -1 [] OTHER -> 0

\* Activate and Deactivate.
Step(type) == CASE type = "Ready" -> 1 [] type = "Close" -> -1 [] OTHER -> 0

\* Events about a peer: the lookup, the activity of the peer, and the event for
\* the application.
HandlePeerEvent(e) ==
    LET step == Step(e.type)
    IN  /\ dead' = CASE hworlds[e.lsid] = "absent" -> "world not found"
                     [] hworlds[e.lsid] = "nil" -> "nil world"
                     [] active[e.peer] + step < 0 -> "deactivated"
                     [] OTHER -> dead
        /\ active' = [active EXCEPT ![e.peer] = @ + step]
        /\ view' = [view EXCEPT ![e.lsid][e.peer] = Observe1(@, e)]
        /\ offers' = IF e.type = "Request"
                     THEN offers \cup {[lsid |-> e.lsid, peer |-> e.peer, sid |-> e.sid]}
                     ELSE offers
        /\ UNCHANGED <<calls, hworlds, timers>>

HandleTimerRequest(e) ==
    /\ timers' = [timers EXCEPT ![e.lsid] = @ + 1]
    /\ UNCHANGED <<calls, hworlds, active, view, offers, dead>>

\* Requests to the network service.
HandleNetRequest == UNCHANGED <<calls, app, dead>>

EventLoop ==
    /\ eventCh # <<>>
    /\ eventCh' = Tail(eventCh)
    /\ LET e == Head(eventCh)
       IN  \/ e.type = "JoinSuccess" /\ HandleJoinResult(e, "live", "ok")
           \/ e.type = "JoinFail" /\ HandleJoinResult(e, "nil", "fail")
           \/ e.type = "WorldLeave" /\ HandleWorldLeave(e)
           \/ /\ e.type \in {"Request", "Ready", "Close", "ObjectAppend", "ObjectDelete"}
              /\ HandlePeerEvent(e)
           \/ e.type = "TimerRequest" /\ HandleTimerRequest(e)
           \/ e.type \in {"ConnectRequest", "PeerRegister"} /\ HandleNetRequest
    /\ UNCHANGED <<vars, net>>

-----------------------------------------------------------------------------
HostInit ==
    /\ Init
    /\ eventCh = <<>>
    /\ hworlds = [l \in Lsids |-> "absent"]
    /\ join_queue = {}
    /\ join_res = [l \in Lsids |-> "none"]
    /\ api = [l \in Lsids |-> "none"]
    /\ ctx = {}
    /\ watchdog = [l \in Lsids |-> "none"]
    /\ waiter = {}
    /\ serving = {}
    /\ pathMap = [path \in Paths |-> Nil]
    /\ timers = [l \in Lsids |-> 0]
    /\ active = [p \in Peers |-> 0]
    /\ view = [l \in Lsids |-> [p \in Peers |-> ToldIdle]]
    /\ offers = {}
    /\ dead = "none"

Callers ==
    \E l \in Lsids :
        \/ HostOpenWorld(l)
        \/ \E target \in Peers : HostJoinWorld(l, target)
        \/ OpenReturn(l)
        \/ JoinReturn(l)
        \/ ContextDone(l)
        \/ WatchdogCloses(l)
        \/ WatchdogReturns(l)
        \/ LeaveWorld(l)
        \/ TimerFires(l)
        \/ \E path \in Paths : TrySetMapping(path, l)

Members == \E o \in offers : Accept(o) \/ Decline(o)

Network == \E p \in Peers : ServeStart(p) \/ ServeStop(p) \/ Serve(p)

HostNext ==
    /\ dead = "none" /\ fault = "none"
    /\ Callers \/ Members \/ Network \/ EventLoop \/ \E path \in Paths : DeleteMapping(path)

HostSpec == HostInit /\ [][HostNext]_hvars

\* The event loop and the waiting callers are goroutines that keep running.
FairHostSpec ==
    /\ HostSpec
    /\ WF_hvars(dead = "none" /\ fault = "none" /\ EventLoop)
    /\ \A l \in Lsids :
          WF_hvars(dead = "none" /\ fault = "none" /\ (OpenReturn(l) \/ JoinReturn(l)))

-----------------------------------------------------------------------------
(* Properties *)

\* The event loop never meets an event for a world it does not have or for a nil
\* World, never deactivates a peer more often than it activated it, and never
\* blocks on a join result nobody waits for; OpenWorld never sees a failure.
\* What this leaves out is the WorldLeave of a join that was canceled before
\* its target was connected ("left world not found").
EventLoopSurvives == dead \in {"none", "left world not found"}

\* The activity counter of a peer, on which the cleaner decides whether to close
\* its connection, is the number of worlds in which the application has it as a
\* ready member.
ActivityIsMembership ==
    dead = "none" =>
        \A p \in Peers : active[p] = Cardinality({l \in Lsids : view[l][p].st = "ready"})

\* The requests for a timer of l that are on their way.
Requests(l) == {k \in DOMAIN eventCh : eventCh[k].type = "TimerRequest" /\ eventCh[k].lsid = l}

\* A world that was opened has exactly one timer, running or requested, until
\* it is closed, and at most one after that: the announcements of its members
\* neither stop nor multiply.
OneTimerChain ==
    \A l \in Lsids :
        LET n == timers[l] + Cardinality(Requests(l))
        IN  /\ n <= 1
            /\ l \in worlds /\ join_hash[l] = Nil => n = 1

\* The host keeps to what AND assumes of its environment: peers connect once,
\* join requests and answers of the application reach joined worlds only,
\* timers reach opened worlds only.
DrivesAND == Spec

\* Every join result that AND reports reaches the caller of OpenWorld or
\* JoinWorld.
ResultReachesCaller ==
    \A l \in Lsids :
        (result[l] # "none" /\ dead = "none" /\ fault = "none")
        ~> (api[l] \in {"held", "failed", "left"} \/ dead # "none" \/ fault # "none")

-----------------------------------------------------------------------------
(* What a comment of the repository says of the host.  A run refutes it.      *)

\* host.go, JoinWorld, where the watchdog calls CloseWorld: "this request AND
\* module to early-return join failure".  A world that was joined and is closed
\* has reported a result.
CanceledJoinFails == \A l \in used \ worlds : result[l] # "none"
=============================================================================
