--------------------------- MODULE NativeDLLProofs --------------------------
(***************************************************************************)
(* Proofs about the C interface: the counter of the handles, the abyst     *)
(* connections behind them, the panics, and the loop of ReadBodyAll, for   *)
(* any number of threads and handles.                                      *)
(*                                                                         *)
(* However long the list of exported functions, a step of a thread is one  *)
(* of a few: it begins a call, returns, goes on with the next step, starts *)
(* to make a handle, reads from a body, or takes one of the steps that the *)
(* functions have in common.  StepLemma says so, function by function.     *)
(* The invariant has four parts: the types and the handles of the calls    *)
(* under way (TInv), the connections (CInv), what holds as long as the     *)
(* application has kept the rules (GInv), and the bodies that are being    *)
(* read (RInv).                                                            *)
(***************************************************************************)
EXTENDS NativeDLL, FiniteSetTheorems, TLAPS

HandleOrNull == Handles \cup {Null}

CallOf ==
    [at : {"idle", "close", "destuct", "remove", "release", "call", "error", "read", "short",
           "host", "resolver", "roundtrip", "readall", "count", "new"},
     h : HandleOrNull, h2 : HandleOrNull, make : HandleOrNull, buf : Nat, readlen : Nat]

Body == [len : Nat, left : Nat, known : BOOLEAN, exists : BOOLEAN, client : HandleOrNull]

\* The handles of a call c under way, in a table T: those that were passed have
\* been given away, and the one that it is about to make has not.
CallFits(T, c) ==
    /\ c.h # Null => T[c.h] # "unused"
    /\ c.h2 # Null => T[c.h2] # "unused"
    /\ c.at \in {"destuct", "remove", "release", "roundtrip", "readall"} => c.h # Null
    /\ c.at \in {"count", "new"} => c.make # Null /\ T[c.make] = "unused"
    /\ c.at \notin {"count", "new"} => c.make = Null

TInv ==
    /\ table \in [Handles -> {"unused", "open", "closed"}]
    /\ conn \in [Handles -> {"none", "open", "lost", "closed"}]
    /\ body \in [Handles -> Body]
    /\ thread \in [Threads -> CallOf]
    /\ misused \in BOOLEAN /\ crashed \in BOOLEAN
    /\ \A t \in Threads : CallFits(table, thread[t])
    /\ \A t, u \in Threads : t # u /\ thread[t].make # Null => thread[t].make # thread[u].make

\* The calls that have counted a handle and not made it, or deleted one and not
\* counted that.
Between == {t \in Threads : thread[t].at \in {"new", "release"}}

NInv == IsFiniteSet(OpenHandles) /\ HandlesCounted

\* Only clients have connections, a thread that is about to delete a client has
\* closed its connection, and no connection is closed before its handle is out.
Closing(C, c) ==
    /\ c.at = "destuct" => Kind(c.h) = "client"
    /\ c.at = "remove" /\ Kind(c.h) = "client" => C[c.h] = "closed"

CInv ==
    /\ ConnectionsReleased
    /\ \A h \in Handles : /\ conn[h] # "none" => Kind(h) = "client"
                          /\ table[h] = "unused" => conn[h] # "closed"
    /\ \A t \in Threads : Closing(conn, thread[t])

\* A call c that keeps the rules, with a table T and bodies B.
Kept(T, B, c) ==
    /\ c.at \notin {"idle", "release"} => /\ c.h # Null => T[c.h] = "open"
                                          /\ c.h2 # Null => T[c.h2] = "open"
    /\ c.at \in {"call", "error", "read", "host", "resolver"} => c.h # Null
    /\ c.at \in {"host", "resolver"} => c.h2 # Null
    /\ c.at = "error" => Kind(c.h) = "error"
    /\ c.at = "read" /\ Kind(c.h) = "response" => B[c.h].exists
    /\ c.at # "short"

\* No call has a handle that another one is closing.
Apart(c, d) == c.at \in ClosingSteps /\ c.h # Null /\ d.at # "idle" => c.h # d.h /\ c.h # d.h2

GInv ==
    ~misused =>
        /\ ~crashed
        /\ \A t \in Threads : Kept(table, body, thread[t])
        /\ \A t, u \in Threads : t # u => Apart(thread[t], thread[u])

\* In ReadBodyAll, what is left of a body of announced length fits into what is
\* left of the buffer.
Fits(B, c) == c.at = "readall" /\ B[c.h].known => c.readlen + B[c.h].left <= c.buf

RInv ==
    /\ \A h \in Handles : body[h].left <= body[h].len
    /\ \A t \in Threads : Fits(body, thread[t])

-----------------------------------------------------------------------------
(* The kinds of steps *)

\* A call of thread t panics, for one of these reasons.
Panics(t) ==
    LET c == thread[t]
    IN  /\ Panic
        /\ \/ c.at \in {"call", "error", "read", "short", "host", "remove"} /\ ~Valid(c.h)
           \/ c.at = "close" /\ c.h # Null /\ ~Valid(c.h)
           \/ c.at = "resolver" /\ ~Valid(c.h2)
           \/ c.at = "error" /\ Kind(c.h) # "error"
           \/ c.at = "read" /\ Kind(c.h) = "response" /\ ~body[c.h].exists
           \/ c.at = "short"

Ends(t) ==
    /\ thread[t].at \in {"idle", "close", "call", "error", "read", "short", "host", "resolver"}
    /\ Returns(t)

Begins(t) ==
    /\ thread[t] = Idle
    /\ \E c \in CallOf :
          /\ c.at \in {"close", "call", "error", "read", "short", "host"} /\ c.make = Null
          /\ c.h # Null => table[c.h] # "unused"
          /\ c.h2 # Null => table[c.h2] # "unused" /\ c.at = "host"
          /\ thread' = [thread EXCEPT ![t] = c]
          /\ misused' = (misused \/ Misuse(c.at, IF c.at = "close" THEN {c.h} \ {Null}
                                                 ELSE IF c.at = "host" THEN {c.h, c.h2} ELSE {c.h}))
    /\ UNCHANGED <<table, count, conn, body, crashed>>

GoesOn(t) ==
    LET c == thread[t]
    IN  /\ \E step \in {"resolver", "roundtrip", "destuct", "remove"} :
              /\ thread' = [thread EXCEPT ![t].at = step]
              /\ step = "resolver" => c.at = "host"
              /\ step = "roundtrip" => c.at = "call" /\ Valid(c.h)
              /\ step = "destuct" => c.at = "close" /\ Valid(c.h) /\ Kind(c.h) = "client"
              /\ step = "remove" => c.at = "close" /\ Valid(c.h) /\ Kind(c.h) # "client"
        /\ UNCHANGED <<table, count, conn, body, misused, crashed>>

\* A thread starts to make a handle h, and what is behind it.
StartsToMake(t, h) ==
    /\ thread[t] = Idle \/ thread[t].at \in {"call", "resolver", "roundtrip"}
    /\ h \in Free(Kind(h))
    /\ Exports(t, "count", h)
    /\ \/ UNCHANGED <<conn, body>>
       \/ Kind(h) = "client" /\ conn' = [conn EXCEPT ![h] = "open"] /\ UNCHANGED body
       \/ /\ \E b \in Body : b.left <= b.len /\ body' = [body EXCEPT ![h] = b]
          /\ UNCHANGED conn

\* ReadBody, and the start of ReadBodyAll.
Takes(t) ==
    LET h == thread[t].h
    IN  /\ thread[t].at = "read" /\ Valid(h)
        /\ \E len \in Nat : \E r \in Reads(body[h], len) : body' = [body EXCEPT ![h].left = @ - r.n]
        /\ thread' = [thread EXCEPT ![t] = Idle]
        /\ UNCHANGED <<table, count, conn, misused, crashed>>

Loops(t) ==
    LET h == thread[t].h
    IN  /\ thread[t].at = "read" /\ Valid(h)
        /\ \E len \in Nat :
              /\ ~(len < ContentLength(body[h]))
              /\ thread' = [thread EXCEPT ![t].at = "readall", ![t].buf = len, ![t].readlen = 0]
        /\ UNCHANGED <<table, count, conn, body, misused, crashed>>

Deletes(t) ==
    LET h == thread[t].h
    IN  /\ thread[t].at = "remove" /\ Valid(h)
        /\ table' = [table EXCEPT ![h] = "closed"]
        /\ thread' = [thread EXCEPT ![t].at = "release"]
        /\ UNCHANGED <<count, conn, body, misused, crashed>>

ThreadStep(t) ==
    \/ Panics(t) \/ Ends(t) \/ Begins(t) \/ GoesOn(t)
    \/ \E h \in Handles : StartsToMake(t, h)
    \/ Takes(t) \/ Loops(t) \/ ReadAllStep(t)
    \/ CountHandleExport(t) \/ NewHandle(t) \/ Destuct(t) \/ Deletes(t) \/ CountHandleRelease(t)

-----------------------------------------------------------------------------
(* Every step is of one of these kinds *)

\* A handle with nothing behind it.
LEMMA PlainLemma ==
    ASSUME NEW t \in Threads, NEW kind \in Kinds, ExportsPlain(t, "count", kind),
           thread[t] = Idle \/ thread[t].at \in {"call", "resolver", "roundtrip"}
    PROVE  ThreadStep(t)
<1>1. PICK h \in Free(kind) : Exports(t, "count", h)
  BY DEF ExportsPlain
<1>2. h \in Handles /\ Kind(h) = kind
  BY DEF Free
<1>3. StartsToMake(t, h)
  BY <1>1, <1>2 DEF StartsToMake, ExportsPlain
<1>4. QED
  BY <1>2, <1>3 DEF ThreadStep

\* An error is a handle with nothing behind it.
LEMMA ErrorLemma ==
    ASSUME NEW t \in Threads, marshalError(t), thread[t].at \in {"call", "roundtrip"}
    PROVE  ThreadStep(t)
<1>1. "error" \in Kinds
  BY DEF Kinds
<1>2. QED
  BY <1>1, PlainLemma DEF marshalError

\* A response.
LEMMA ResponseLemma ==
    ASSUME NEW t \in Threads, NEW b \in Body, b.left <= b.len, NewResponse(t, b),
           thread[t].at \in {"call", "roundtrip"}
    PROVE  ThreadStep(t)
<1>1. PICK h \in Free("response") :
         Exports(t, "count", h) /\ body' = [body EXCEPT ![h] = b] /\ UNCHANGED conn
  BY DEF NewResponse
<1>2. h \in Handles /\ Kind(h) = "response"
  BY DEF Free
<1>3. StartsToMake(t, h)
  BY <1>1, <1>2 DEF StartsToMake
<1>4. QED
  BY <1>2, <1>3 DEF ThreadStep

\* The beginnings of calls.
LEMMA CallsLemma ==
    ASSUME TInv, NEW t \in Threads, Calls(t)
    PROVE  ThreadStep(t)
<1>1. {"resolver", "server"} \subseteq Kinds
  BY DEF Kinds
<1>2. CASE NewSimplePathResolver(t) \/ NewSimpleAbystServer(t)
  <2>1. thread[t] = Idle /\ thread[t].at = "idle"
    BY <1>2 DEF NewSimplePathResolver, NewSimpleAbystServer, Idle
  <2>2. CASE Returns(t)
    BY <2>1, <2>2 DEF Ends, ThreadStep
  <2>3. CASE ~Returns(t)
    BY <1>1, <1>2, <2>1, <2>3, PlainLemma DEF NewSimplePathResolver, NewSimpleAbystServer
  <2>4. QED
    BY <2>2, <2>3
<1>3. ASSUME NEW h \in Passed PROVE h \in HandleOrNull /\ (h # Null => table[h] # "unused")
  BY DEF Passed, HandleOrNull
<1>4. ASSUME NEW h \in Passed, NEW step \in {"close", "call", "error", "read", "short"}, Begin(t, step, h)
      PROVE  Begins(t)
  <2> DEFINE c == [Idle EXCEPT !.at = step, !.h = h]
  <2>1. /\ c \in CallOf
        /\ c.at = step /\ c.h = h /\ c.h2 = Null /\ c.make = Null
    BY <1>3 DEF Idle, CallOf, HandleOrNull
  <2>2. /\ thread' = [thread EXCEPT ![t] = c]
        /\ misused' = (misused \/ Misuse(step, IF step = "close" THEN {h} \ {Null} ELSE {h}))
    BY <1>4 DEF Begin
  <2> HIDE DEF c
  <2>3. QED
    BY <1>3, <1>4, <2>1, <2>2 DEF Begins, Begin
<1>5. ASSUME NEW hs \in Passed, NEW hr \in Passed, BeginHost(t, hs, hr)
      PROVE  Begins(t)
  <2> DEFINE c == [Idle EXCEPT !.at = "host", !.h = hs, !.h2 = hr]
  <2>1. /\ c \in CallOf
        /\ c.at = "host" /\ c.h = hs /\ c.h2 = hr /\ c.make = Null
    BY <1>3 DEF Idle, CallOf, HandleOrNull
  <2>2. thread' = [thread EXCEPT ![t] = c] /\ misused' = (misused \/ Misuse("host", {hs, hr}))
    BY <1>5 DEF BeginHost
  <2> HIDE DEF c
  <2>3. QED
    BY <1>3, <1>5, <2>1, <2>2 DEF Begins, BeginHost
<1>6. QED
  BY <1>2, <1>4, <1>5 DEF Calls, ThreadStep

\* Functions that make nothing, or an error.
LEMMA MethodLemma ==
    ASSUME NEW t \in Threads
    PROVE  /\ SimplePathResolver_SetMapping(t) => ThreadStep(t)
           /\ Host_AppendKnownPeer(t) => ThreadStep(t)
           /\ BadArgument(t) => ThreadStep(t)
           /\ \A kind \in Kinds : Method(t, kind) => ThreadStep(t)
           /\ WorldPeer_Methods(t) => ThreadStep(t)
           /\ GetError(t) => ThreadStep(t)
<1>1. ASSUME Returns(t), thread[t].at \in {"call", "error", "short"}
      PROVE  ThreadStep(t)
  BY <1>1 DEF Ends, ThreadStep
<1>2. ASSUME NEW kind, Looks(t, "call", kind, marshalError(t), Returns(t) \/ marshalError(t))
      PROVE  ThreadStep(t)
  <2>1. thread[t].at = "call" /\ (Panics(t) \/ marshalError(t) \/ Returns(t))
    BY <1>2 DEF Looks, Panics
  <2>2. QED
    BY <1>1, <2>1, ErrorLemma DEF ThreadStep
<1>3. ASSUME NEW kind, Method(t, kind)
      PROVE  ThreadStep(t)
  <2>1. thread[t].at = "call" /\ (Panics(t) \/ Returns(t))
    BY <1>3 DEF Method, Looks, Panics
  <2>2. QED
    BY <1>1, <2>1 DEF ThreadStep
<1>4. BadArgument(t) => ThreadStep(t)
  BY <1>1 DEF BadArgument
<1>5. WorldPeer_Methods(t) => ThreadStep(t)
  <2>1. ASSUME Looks(t, "short", "member", Returns(t), Panic) PROVE ThreadStep(t)
    <3>1. thread[t].at = "short" /\ (Panics(t) \/ Returns(t))
      BY <2>1 DEF Looks, Panics
    <3>2. QED
      BY <1>1, <3>1 DEF ThreadStep
  <2>2. QED
    BY <1>3, <2>1 DEF WorldPeer_Methods
<1>6. GetError(t) => ThreadStep(t)
  <2>1. ASSUME GetError(t) PROVE thread[t].at = "error" /\ (Panics(t) \/ Returns(t))
    BY <2>1 DEF GetError, Looks, Panics
  <2>2. QED
    BY <1>1, <2>1 DEF ThreadStep
<1>7. QED
  BY <1>2, <1>3, <1>4, <1>5, <1>6 DEF SimplePathResolver_SetMapping, Host_AppendKnownPeer

\* Hosts, worlds and events.
LEMMA HostLemma ==
    ASSUME NEW t \in Threads
    PROVE  /\ NewHost(t) => ThreadStep(t)
           /\ NewHostGoesOn(t) => ThreadStep(t)
           /\ Host_OpenWorld(t) => ThreadStep(t)
           /\ Host_JoinWorld(t) => ThreadStep(t)
           /\ World_WaitEvent(t) => ThreadStep(t)
<1>1. {"host", "world"} \cup EventKinds \subseteq Kinds
  BY DEF Kinds, EventKinds
<1>2. ASSUME Returns(t), thread[t].at \in {"call", "host", "resolver"}
      PROVE  ThreadStep(t)
  BY <1>2 DEF Ends, ThreadStep
<1>3. NewHost(t) => ThreadStep(t)
  <2>1. ASSUME NewHost(t) PROVE thread[t].at = "host" /\ (Panics(t) \/ Returns(t) \/ GoesOn(t))
    BY <2>1 DEF NewHost, Looks, Panics, GoesOn
  <2>2. QED
    BY <1>2, <2>1 DEF ThreadStep
<1>4. NewHostGoesOn(t) => ThreadStep(t)
  <2>1. ASSUME NewHostGoesOn(t)
        PROVE  thread[t].at = "resolver" /\ (Panics(t) \/ Returns(t) \/ ExportsPlain(t, "count", "host"))
    BY <2>1 DEF NewHostGoesOn, Panics
  <2>2. QED
    BY <1>1, <1>2, <2>1, PlainLemma DEF ThreadStep
<1>5. ASSUME Looks(t, "call", "host", Returns(t), Returns(t) \/ ExportsPlain(t, "count", "world"))
      PROVE  ThreadStep(t)
  <2>1. thread[t].at = "call" /\ (Panics(t) \/ Returns(t) \/ ExportsPlain(t, "count", "world"))
    BY <1>5 DEF Looks, Panics
  <2>2. QED
    BY <1>1, <1>2, <2>1, PlainLemma DEF ThreadStep
<1>6. World_WaitEvent(t) => ThreadStep(t)
  <2>1. ASSUME World_WaitEvent(t)
        PROVE  /\ thread[t].at = "call"
               /\ Panics(t) \/ Returns(t) \/ \E kind \in EventKinds : ExportsPlain(t, "count", kind)
    BY <2>1 DEF World_WaitEvent, Looks, Panics
  <2>2. QED
    BY <1>1, <1>2, <2>1, PlainLemma DEF ThreadStep
<1>7. QED
  BY <1>3, <1>4, <1>5, <1>6 DEF Host_OpenWorld, Host_JoinWorld

\* Clients and their requests.
LEMMA ClientLemma ==
    ASSUME TInv, NEW t \in Threads
    PROVE  /\ GetAbystClientConnection(t) => ThreadStep(t)
           /\ AbystClient_Request(t) => ThreadStep(t)
           /\ RoundTrip(t) => ThreadStep(t)
<1>1. ASSUME Returns(t), thread[t].at = "call"
      PROVE  ThreadStep(t)
  BY <1>1 DEF Ends, ThreadStep
<1>2. GetAbystClientConnection(t) => ThreadStep(t)
  <2>1. SUFFICES ASSUME GetAbystClientConnection(t) PROVE ThreadStep(t)
    OBVIOUS
  <2>2. /\ thread[t].at = "call"
        /\ \/ Panics(t) \/ Returns(t) \/ marshalError(t)
           \/ \E h \in Free("client") :
                 Exports(t, "count", h) /\ conn' = [conn EXCEPT ![h] = "open"] /\ UNCHANGED body
    BY <2>1 DEF GetAbystClientConnection, Looks, Panics
  <2>3. ASSUME NEW h \in Free("client"), Exports(t, "count", h),
               conn' = [conn EXCEPT ![h] = "open"], UNCHANGED body
        PROVE  ThreadStep(t)
    <3>1. h \in Handles /\ Kind(h) = "client"
      BY DEF Free
    <3>2. StartsToMake(t, h)
      BY <2>2, <2>3, <3>1 DEF StartsToMake
    <3>3. QED
      BY <3>1, <3>2 DEF ThreadStep
  <2>4. QED
    BY <1>1, <2>2, <2>3, ErrorLemma DEF ThreadStep
<1>3. AbystClient_Request(t) => ThreadStep(t)
  <2>1. SUFFICES ASSUME AbystClient_Request(t) PROVE ThreadStep(t)
    OBVIOUS
  <2>2. /\ thread[t].at = "call"
        /\ Panics(t) \/ Returns(t) \/ marshalError(t) \/ NewResponse(t, NoBody) \/ GoesOn(t)
    BY <2>1 DEF AbystClient_Request, Looks, Panics, GoesOn
  <2>3. NoBody \in Body /\ NoBody.left <= NoBody.len
    BY DEF NoBody, Body, HandleOrNull
  <2>4. QED
    BY <1>1, <2>2, <2>3, ErrorLemma, ResponseLemma DEF ThreadStep
<1>4. RoundTrip(t) => ThreadStep(t)
  <2>1. SUFFICES ASSUME RoundTrip(t) PROVE ThreadStep(t)
    OBVIOUS
  <2>2. thread[t].at = "roundtrip" /\ thread[t].h \in HandleOrNull
    BY <2>1 DEF RoundTrip, TInv, CallOf
  <2>3. CASE marshalError(t)
    BY <2>2, <2>3, ErrorLemma
  <2>4. CASE ~marshalError(t)
    <3>1. PICK n \in 0..MaxBody, known \in BOOLEAN :
             NewResponse(t, [len |-> n, left |-> n, known |-> known, exists |-> TRUE,
                             client |-> thread[t].h])
      BY <2>1, <2>4 DEF RoundTrip
    <3> DEFINE b == [len |-> n, left |-> n, known |-> known, exists |-> TRUE, client |-> thread[t].h]
    <3>2. n \in Nat /\ n <= n
      BY DLLAssumption
    <3>3. b \in Body /\ b.left <= b.len
      BY <2>2, <3>2 DEF Body
    <3>4. NewResponse(t, b)
      BY <3>1
    <3> HIDE DEF b
    <3>5. QED
      BY <2>2, <3>3, <3>4, ResponseLemma
  <2>5. QED
    BY <2>3, <2>4
<1>5. QED
  BY <1>2, <1>3, <1>4

\* The bodies of responses.
LEMMA ReadLemma ==
    ASSUME NEW t \in Threads, NEW len \in Nat
    PROVE  /\ ReadBody(t, len) => ThreadStep(t)
           /\ ReadBodyAll(t, len) => ThreadStep(t)
<1>1. ReadBody(t, len) => ThreadStep(t)
  <2>1. SUFFICES ASSUME ReadBody(t, len) PROVE ThreadStep(t)
    OBVIOUS
  <2>2. thread[t].at = "read"
    BY <2>1 DEF ReadBody, Looks
  <2>3. Panics(t) \/ Returns(t) \/ Takes(t)
    BY <2>1, <2>2 DEF ReadBody, Looks, Panics, Takes
  <2>4. QED
    BY <2>2, <2>3 DEF Ends, ThreadStep
<1>2. ReadBodyAll(t, len) => ThreadStep(t)
  <2>1. SUFFICES ASSUME ReadBodyAll(t, len) PROVE ThreadStep(t)
    OBVIOUS
  <2>2. thread[t].at = "read"
    BY <2>1 DEF ReadBodyAll, Looks
  <2>3. Panics(t) \/ Returns(t) \/ Loops(t)
    BY <2>1, <2>2 DEF ReadBodyAll, ReadsAll, Looks, Panics, Loops
  <2>4. QED
    BY <2>2, <2>3 DEF Ends, ThreadStep
<1>3. QED
  BY <1>1, <1>2

\* CloseAbyssHandle up to the value, and the Delete.
LEMMA CloseLemma ==
    ASSUME NEW t \in Threads
    PROVE  /\ CloseAbyssHandle(t) => ThreadStep(t)
           /\ Delete(t) => ThreadStep(t)
<1>1. CloseAbyssHandle(t) => ThreadStep(t)
  <2>1. SUFFICES ASSUME CloseAbyssHandle(t) PROVE ThreadStep(t)
    OBVIOUS
  <2>2. thread[t].at = "close"
    BY <2>1 DEF CloseAbyssHandle
  <2>3. Panics(t) \/ Returns(t) \/ GoesOn(t)
    BY <2>1, <2>2 DEF CloseAbyssHandle, Panics, GoesOn
  <2>4. QED
    BY <2>2, <2>3 DEF Ends, ThreadStep
<1>2. Delete(t) => ThreadStep(t)
  BY DEF Delete, Panics, Deletes, ThreadStep
<1>3. QED
  BY <1>1, <1>2

\* Every step of every thread.
LEMMA StepLemma ==
    ASSUME TInv, Next
    PROVE  (\E t \in Threads : ThreadStep(t)) \/ \E h \in Handles : ConnectionLost(h)
<1>1. ASSUME NEW t \in Threads, Functions(t)
      PROVE  ThreadStep(t)
  <2>1. {"resolver", "host", "world", "request", "member", "append", "delete", "leave", "response"}
        \subseteq Kinds
    BY DEF Kinds
  <2>2. CASE \/ SimplePathResolver_SetMapping(t) \/ SimplePathResolver_DeleteMapping(t)
             \/ Host_AppendKnownPeer(t) \/ Host_Methods(t) \/ World_Methods(t) \/ WorldLeave(t)
             \/ WorldPeerRequest_Methods(t) \/ WorldPeer_Methods(t) \/ WorldPeerEvent_Methods(t)
             \/ AbyssResponse_Methods(t) \/ GetError(t)
    BY <2>1, <2>2, MethodLemma
    DEF SimplePathResolver_DeleteMapping, Host_Methods, World_Methods, WorldLeave,
        WorldPeerRequest_Methods, WorldPeerEvent_Methods, AbyssResponse_Methods
  <2>3. CASE NewHost(t) \/ NewHostGoesOn(t) \/ Host_OpenWorld(t) \/ Host_JoinWorld(t) \/ World_WaitEvent(t)
    BY <2>3, HostLemma
  <2>4. CASE GetAbystClientConnection(t) \/ AbystClient_Request(t)
    BY <2>4, ClientLemma
  <2>5. CASE \E len \in 0..MaxBody : ReadBody(t, len) \/ ReadBodyAll(t, len)
    <3>1. 0..MaxBody \subseteq Nat
      BY DLLAssumption
    <3>2. QED
      BY <2>5, <3>1, ReadLemma
  <2>6. CASE CloseAbyssHandle(t)
    BY <2>6, CloseLemma
  <2>7. QED
    BY <1>1, <2>2, <2>3, <2>4, <2>5, <2>6 DEF Functions
<1>2. ASSUME NEW t \in Threads, Continues(t)
      PROVE  ThreadStep(t)
  BY <1>2, ClientLemma, CloseLemma DEF Continues, ThreadStep
<1>3. QED
  BY <1>1, <1>2, CallsLemma DEF Next

-----------------------------------------------------------------------------
(* Types, and the handles of the calls under way *)

\* A call without handles.
LEMMA IdleLemma ==
    /\ Idle \in CallOf /\ Idle.at = "idle" /\ Idle.h = Null /\ Idle.h2 = Null /\ Idle.make = Null
    /\ \A T : CallFits(T, Idle)
BY DEF Idle, CallOf, CallFits, HandleOrNull

\* A call that goes on, with its handles.
LEMMA AtLemma ==
    ASSUME NEW c \in CallOf, NEW step \in {"resolver", "roundtrip", "destuct", "remove", "release", "new"}
    PROVE  LET d == [c EXCEPT !.at = step]
           IN  /\ d \in CallOf /\ d.at = step /\ d.h = c.h /\ d.h2 = c.h2 /\ d.make = c.make
               /\ d.buf = c.buf /\ d.readlen = c.readlen
BY DEF CallOf

\* A call that starts to make a handle.
LEMMA MakeLemma ==
    ASSUME NEW c \in CallOf, NEW h \in Handles
    PROVE  LET d == [c EXCEPT !.at = "count", !.make = h]
           IN  d \in CallOf /\ d.at = "count" /\ d.h = c.h /\ d.h2 = c.h2 /\ d.make = h
BY DEF CallOf, HandleOrNull

\* A step of one thread, that takes no handle back and gives away none that
\* another thread is making.
LEMMA MoveLemma ==
    ASSUME TInv, NEW t \in Threads, NEW c \in CallOf, thread' = [thread EXCEPT ![t] = c],
           table' \in [Handles -> {"unused", "open", "closed"}],
           conn' \in [Handles -> {"none", "open", "lost", "closed"}],
           body' \in [Handles -> Body],
           misused' \in BOOLEAN, crashed' \in BOOLEAN,
           CallFits(table', c),
           \A u \in Threads \ {t} : CallFits(table', thread[u]),
           \A u \in Threads \ {t} : c.make # Null => c.make # thread[u].make
    PROVE  TInv'
<1>1. thread' \in [Threads -> CallOf] /\ thread'[t] = c /\ \A u \in Threads \ {t} : thread'[u] = thread[u]
  BY DEF TInv
<1>2. \A u \in Threads : CallFits(table', thread'[u])
  BY <1>1
<1>3. ASSUME NEW u \in Threads, NEW v \in Threads, u # v, thread'[u].make # Null
      PROVE  thread'[u].make # thread'[v].make
  <2>1. CASE u = t
    BY <1>1, <1>3, <2>1
  <2>2. CASE v = t
    BY <1>1, <1>3, <2>2
  <2>3. CASE u # t /\ v # t
    BY <1>1, <1>3, <2>3 DEF TInv
  <2>4. QED
    BY <2>1, <2>2, <2>3
<1>4. QED
  BY <1>1, <1>2, <1>3 DEF TInv

\* The same, for a step that leaves the table alone.
LEMMA QuietLemma ==
    ASSUME TInv, NEW t \in Threads, NEW c \in CallOf, thread' = [thread EXCEPT ![t] = c],
           UNCHANGED <<table, crashed>>,
           conn' \in [Handles -> {"none", "open", "lost", "closed"}],
           body' \in [Handles -> Body], misused' \in BOOLEAN,
           CallFits(table, c),
           \A u \in Threads \ {t} : c.make # Null => c.make # thread[u].make
    PROVE  TInv'
<1>1. /\ table' \in [Handles -> {"unused", "open", "closed"}] /\ crashed' \in BOOLEAN
      /\ \A u \in Threads \ {t} : CallFits(table', thread[u])
      /\ CallFits(table', c)
  BY DEF TInv
<1>2. QED
  BY <1>1, MoveLemma

\* A read takes no more than is left.
LEMMA ReadsLemma ==
    ASSUME NEW b \in Body, NEW room \in Int, NEW r \in Reads(b, room)
    PROVE  r.n \in Nat /\ r.n <= b.left
<1>1. b.left \in Nat
  BY DEF Body
<1>2. r.n = 0 \/ r.n \in 1..b.left
  BY <1>1 DEF Reads
<1>3. QED
  BY <1>1, <1>2

\* What is taken from a body.
LEMMA DrainLemma ==
    ASSUME body \in [Handles -> Body], NEW h \in Handles, NEW n \in Nat, n <= body[h].left,
           body' = [body EXCEPT ![h].left = @ - n]
    PROVE  /\ body' \in [Handles -> Body]
           /\ body'[h].left = body[h].left - n
           /\ \A k \in Handles : /\ body'[k].left <= body[k].left /\ body'[k].len = body[k].len
                                 /\ body'[k].known = body[k].known /\ body'[k].exists = body[k].exists
<1> DEFINE b == [body[h] EXCEPT !.left = @ - n]
<1>1. body[h] \in Body
  OBVIOUS
<1>2. body[h].left \in Nat
  BY <1>1 DEF Body
<1>3. body[h].left - n \in Nat /\ body[h].left - n <= body[h].left
  BY <1>2
<1>4. /\ b \in Body /\ b.left = body[h].left - n /\ b.len = body[h].len
      /\ b.known = body[h].known /\ b.exists = body[h].exists
  BY <1>1, <1>3 DEF Body
<1>5. body' = [body EXCEPT ![h] = b]
  OBVIOUS
<1> HIDE DEF b
<1>6. body' \in [Handles -> Body] /\ body'[h] = b /\ \A k \in Handles \ {h} : body'[k] = body[k]
  BY <1>4, <1>5
<1>7. ASSUME NEW k \in Handles
      PROVE  /\ body'[k].left <= body[k].left /\ body'[k].len = body[k].len
             /\ body'[k].known = body[k].known /\ body'[k].exists = body[k].exists
  <2>1. CASE k = h
    BY <1>3, <1>4, <1>6, <2>1
  <2>2. CASE k # h
    <3>1. body'[k] = body[k] /\ body[k].left \in Nat
      BY <1>6, <2>2 DEF Body
    <3>2. QED
      BY <3>1
  <2>3. QED
    BY <2>1, <2>2
<1>8. QED
  BY <1>4, <1>6, <1>7

\* A turn of the loop of ReadBodyAll, and the call that it leaves.
LEMMA TurnLemma ==
    ASSUME TInv, NEW t \in Threads, ReadAllStep(t)
    PROVE  /\ thread[t].at = "readall" /\ thread[t].h \in Handles
           /\ UNCHANGED <<table, count, conn, misused, crashed>>
           /\ \E n \in Nat, d \in CallOf :
                 /\ n <= body[thread[t].h].left
                 /\ body' = [body EXCEPT ![thread[t].h].left = @ - n]
                 /\ thread' = [thread EXCEPT ![t] = d]
                 /\ \/ d = Idle
                    \/ /\ d.at = "readall" /\ d.h = thread[t].h /\ d.h2 = thread[t].h2
                       /\ d.make = thread[t].make /\ d.buf = thread[t].buf
                       /\ d.readlen = thread[t].readlen + n
<1> DEFINE c == thread[t]
<1>1. c \in CallOf /\ c.at = "readall" /\ UNCHANGED <<table, count, conn, misused, crashed>>
  BY DEF ReadAllStep, TInv
<1>2. CallFits(table, c)
  BY DEF TInv
<1>3. c.h \in Handles
  BY <1>1, <1>2 DEF CallFits, CallOf, HandleOrNull
<1>4. body[c.h] \in Body /\ c.buf - c.readlen \in Int /\ c.readlen \in Nat
  BY <1>1, <1>3 DEF TInv, CallOf
<1>5. PICK r \in Reads(body[c.h], c.buf - c.readlen) :
         /\ thread' = [thread EXCEPT ![t] = IF r.err = "nil" THEN [c EXCEPT !.readlen = @ + r.n] ELSE Idle]
         /\ body' = [body EXCEPT ![c.h].left = @ - r.n]
  BY DEF ReadAllStep
<1>6. r.n \in Nat /\ r.n <= body[c.h].left
  BY <1>4, <1>5, ReadsLemma
<1> DEFINE n == r.n
           d == IF r.err = "nil" THEN [c EXCEPT !.readlen = @ + n] ELSE Idle
<1>7. d \in CallOf
  <2>1. c.readlen + n \in Nat
    BY <1>4, <1>6
  <2>2. QED
    BY <1>1, <2>1, IdleLemma DEF CallOf
<1>8. \/ d = Idle
      \/ /\ d.at = "readall" /\ d.h = c.h /\ d.h2 = c.h2 /\ d.make = c.make /\ d.buf = c.buf
         /\ d.readlen = c.readlen + n
  BY <1>1 DEF CallOf
<1>9. /\ n \in Nat /\ n <= body[c.h].left /\ body' = [body EXCEPT ![c.h].left = @ - n]
      /\ thread' = [thread EXCEPT ![t] = d]
  BY <1>5, <1>6
<1> HIDE DEF d, n
<1>10. QED
  BY <1>1, <1>3, <1>7, <1>8, <1>9

\* ReadBody.
LEMMA TakesLemma ==
    ASSUME TInv, NEW t \in Threads, Takes(t)
    PROVE  /\ thread[t].at = "read" /\ thread[t].h \in Handles
           /\ UNCHANGED <<table, count, conn, misused, crashed>>
           /\ thread' = [thread EXCEPT ![t] = Idle]
           /\ \E n \in Nat : /\ n <= body[thread[t].h].left
                             /\ body' = [body EXCEPT ![thread[t].h].left = @ - n]
<1>1. thread[t].h \in Handles
  BY DEF Takes, Valid, TInv, CallOf, HandleOrNull
<1>2. PICK len \in Nat : \E r \in Reads(body[thread[t].h], len) : body' = [body EXCEPT ![thread[t].h].left = @ - r.n]
  BY DEF Takes
<1>3. PICK r \in Reads(body[thread[t].h], len) : body' = [body EXCEPT ![thread[t].h].left = @ - r.n]
  BY <1>2
<1>4. body[thread[t].h] \in Body /\ len \in Int
  BY <1>1 DEF TInv
<1>5. r.n \in Nat /\ r.n <= body[thread[t].h].left
  BY <1>3, <1>4, ReadsLemma
<1>6. QED
  BY <1>1, <1>3, <1>5 DEF Takes

\* Every step of a thread keeps the types and the handles of the calls.
LEMMA TStepLemma ==
    ASSUME TInv, NEW t \in Threads, ThreadStep(t)
    PROVE  TInv'
<1>1. /\ thread[t] \in CallOf /\ CallFits(table, thread[t])
      /\ table \in [Handles -> {"unused", "open", "closed"}]
      /\ conn \in [Handles -> {"none", "open", "lost", "closed"}]
      /\ body \in [Handles -> Body] /\ misused \in BOOLEAN /\ crashed \in BOOLEAN
      /\ \A u \in Threads \ {t} : thread[t].make # Null => thread[t].make # thread[u].make
  BY DEF TInv
<1>2. CASE Panics(t)
  BY <1>2 DEF Panics, Panic, TInv
<1>3. CASE Ends(t)
  BY <1>1, <1>3, IdleLemma, QuietLemma DEF Ends, Returns
<1>4. CASE Begins(t)
  <2>1. PICK c \in CallOf :
          /\ c.at \in {"close", "call", "error", "read", "short", "host"} /\ c.make = Null
          /\ c.h # Null => table[c.h] # "unused"
          /\ c.h2 # Null => table[c.h2] # "unused"
          /\ thread' = [thread EXCEPT ![t] = c]
    BY <1>4 DEF Begins
  <2>2. misused' \in BOOLEAN /\ UNCHANGED <<table, conn, body, crashed>>
    BY <1>4 DEF Begins
  <2>3. CallFits(table, c)
    BY <2>1 DEF CallFits
  <2>4. QED
    BY <1>1, <2>1, <2>2, <2>3, QuietLemma
<1>5. CASE GoesOn(t)
  <2>1. PICK step \in {"resolver", "roundtrip", "destuct", "remove"} :
          /\ thread' = [thread EXCEPT ![t].at = step]
          /\ step = "resolver" => thread[t].at = "host"
          /\ step # "resolver" => thread[t].at \in {"call", "close"} /\ Valid(thread[t].h)
    BY <1>5 DEF GoesOn
  <2> DEFINE c == [thread[t] EXCEPT !.at = step]
  <2>2. c \in CallOf /\ c.at = step /\ c.h = thread[t].h /\ c.h2 = thread[t].h2 /\ c.make = thread[t].make
    BY <1>1 DEF CallOf
  <2>3. thread' = [thread EXCEPT ![t] = c] /\ UNCHANGED <<table, conn, body, misused, crashed>>
    BY <1>5, <2>1 DEF GoesOn
  <2> HIDE DEF c
  <2>4. CallFits(table, c)
    BY <1>1, <2>1, <2>2 DEF CallFits, Valid
  <2>5. /\ \A u \in Threads \ {t} : c.make # Null => c.make # thread[u].make
        /\ conn' \in [Handles -> {"none", "open", "lost", "closed"}] /\ body' \in [Handles -> Body]
        /\ misused' \in BOOLEAN
    BY <1>1, <2>2, <2>3
  <2>6. QED
    BY <2>2, <2>3, <2>4, <2>5, QuietLemma
<1>6. ASSUME NEW h \in Handles, StartsToMake(t, h)
      PROVE  TInv'
  <2> DEFINE c == [thread[t] EXCEPT !.at = "count", !.make = h]
  <2>1. c \in CallOf /\ c.at = "count" /\ c.h = thread[t].h /\ c.h2 = thread[t].h2 /\ c.make = h
    BY <1>1, MakeLemma
  <2>2. thread' = [thread EXCEPT ![t] = c] /\ UNCHANGED <<table, crashed, misused>>
    BY <1>6 DEF StartsToMake, Exports
  <2>3. table[h] = "unused" /\ h # Null /\ \A u \in Threads : thread[u].make # h
    BY <1>6, DLLAssumption DEF StartsToMake, Free, Handles
  <2>4. /\ conn' \in [Handles -> {"none", "open", "lost", "closed"}]
        /\ body' \in [Handles -> Body]
    BY <1>1, <1>6 DEF StartsToMake
  <2> HIDE DEF c
  <2>5. CallFits(table, c)
    BY <1>1, <2>1, <2>3 DEF CallFits
  <2>6. QED
    BY <1>1, <2>1, <2>2, <2>3, <2>4, <2>5, QuietLemma
<1>7. CASE Takes(t)
  <2>1. body' \in [Handles -> Body]
    BY <1>1, <1>7, TakesLemma, DrainLemma
  <2>2. QED
    BY <1>1, <1>7, <2>1, IdleLemma, TakesLemma, QuietLemma
<1>8. CASE Loops(t)
  <2>1. PICK len \in Nat : thread' = [thread EXCEPT ![t].at = "readall", ![t].buf = len, ![t].readlen = 0]
    BY <1>8 DEF Loops
  <2> DEFINE c == [thread[t] EXCEPT !.at = "readall", !.buf = len, !.readlen = 0]
  <2>2. c \in CallOf /\ c.at = "readall" /\ c.h = thread[t].h /\ c.h2 = thread[t].h2 /\ c.make = thread[t].make
    BY <1>1 DEF CallOf
  <2>3. thread' = [thread EXCEPT ![t] = c] /\ UNCHANGED <<table, conn, body, crashed, misused>>
    BY <1>8, <2>1 DEF Loops
  <2> HIDE DEF c
  <2>4. CallFits(table, c)
    BY <1>1, <1>8, <2>2 DEF CallFits, Loops, Valid
  <2>5. /\ \A u \in Threads \ {t} : c.make # Null => c.make # thread[u].make
        /\ conn' \in [Handles -> {"none", "open", "lost", "closed"}] /\ body' \in [Handles -> Body]
        /\ misused' \in BOOLEAN
    BY <1>1, <2>2, <2>3
  <2>6. QED
    BY <2>2, <2>3, <2>4, <2>5, QuietLemma
<1>9. CASE ReadAllStep(t)
  <2>1. PICK n \in Nat, d \in CallOf :
                 /\ n <= body[thread[t].h].left
                 /\ body' = [body EXCEPT ![thread[t].h].left = @ - n]
                 /\ thread' = [thread EXCEPT ![t] = d]
                 /\ \/ d = Idle
                    \/ /\ d.at = "readall" /\ d.h = thread[t].h /\ d.h2 = thread[t].h2
                       /\ d.make = thread[t].make
    BY <1>9, TurnLemma
  <2>2. thread[t].at = "readall" /\ thread[t].h \in Handles /\ UNCHANGED <<table, conn, misused, crashed>>
    BY <1>9, TurnLemma
  <2>3. body' \in [Handles -> Body]
    BY <1>1, <2>1, <2>2, DrainLemma
  <2>4. CallFits(table, d) /\ d.make = Null
    BY <1>1, <2>1, <2>2, IdleLemma DEF CallFits
  <2>5. QED
    BY <1>1, <2>1, <2>2, <2>3, <2>4, QuietLemma
<1>10. CASE CountHandleExport(t)
  <2> DEFINE c == [thread[t] EXCEPT !.at = "new"]
  <2>1. c \in CallOf /\ c.at = "new" /\ c.h = thread[t].h /\ c.h2 = thread[t].h2 /\ c.make = thread[t].make
    BY <1>1, AtLemma
  <2>2. thread' = [thread EXCEPT ![t] = c] /\ thread[t].at = "count" /\ UNCHANGED <<table, conn, body, misused, crashed>>
    BY <1>10 DEF CountHandleExport
  <2> HIDE DEF c
  <2>3. CallFits(table, c)
    BY <1>1, <2>1, <2>2 DEF CallFits
  <2>4. /\ \A u \in Threads \ {t} : c.make # Null => c.make # thread[u].make
        /\ conn' \in [Handles -> {"none", "open", "lost", "closed"}] /\ body' \in [Handles -> Body]
        /\ misused' \in BOOLEAN
    BY <1>1, <2>1, <2>2
  <2>5. QED
    BY <2>1, <2>2, <2>3, <2>4, QuietLemma
<1>11. CASE NewHandle(t)
  <2> DEFINE m == thread[t].make
  <2>1. /\ thread[t].at = "new" /\ table' = [table EXCEPT ![m] = "open"]
        /\ thread' = [thread EXCEPT ![t] = Idle] /\ UNCHANGED <<conn, body, misused, crashed>>
    BY <1>11 DEF NewHandle
  <2>2. m \in Handles /\ m # Null
    BY <1>1, <2>1 DEF CallFits, CallOf, HandleOrNull
  <2>3. /\ table' \in [Handles -> {"unused", "open", "closed"}] /\ table'[m] = "open"
        /\ \A k \in Handles \ {m} : table'[k] = table[k]
    BY <1>1, <2>1, <2>2
  <2>4. ASSUME NEW u \in Threads \ {t}
        PROVE  CallFits(table', thread[u])
    <3>1. CallFits(table, thread[u]) /\ thread[u] \in CallOf /\ thread[u].make # m
      BY <1>1, <2>2 DEF TInv
    <3> HIDE DEF m
    <3>2. QED
      BY <2>3, <3>1 DEF CallFits, CallOf, HandleOrNull
  <2>5. QED
    BY <1>1, <2>1, <2>3, <2>4, IdleLemma, MoveLemma
<1>12. CASE Destuct(t)
  <2> DEFINE c == [thread[t] EXCEPT !.at = "remove"]
  <2>1. c \in CallOf /\ c.at = "remove" /\ c.h = thread[t].h /\ c.h2 = thread[t].h2 /\ c.make = thread[t].make
    BY <1>1, AtLemma
  <2>2. thread' = [thread EXCEPT ![t] = c] /\ thread[t].at = "destuct" /\ UNCHANGED <<table, body, misused, crashed>>
    BY <1>12 DEF Destuct
  <2>3. conn' \in [Handles -> {"none", "open", "lost", "closed"}]
    BY <1>1, <1>12 DEF Destuct
  <2> HIDE DEF c
  <2>4. CallFits(table, c)
    BY <1>1, <2>1, <2>2 DEF CallFits
  <2>5. /\ \A u \in Threads \ {t} : c.make # Null => c.make # thread[u].make
        /\ conn' \in [Handles -> {"none", "open", "lost", "closed"}] /\ body' \in [Handles -> Body]
        /\ misused' \in BOOLEAN
    BY <1>1, <2>1, <2>2, <2>3
  <2>6. QED
    BY <2>1, <2>2, <2>3, <2>4, <2>5, QuietLemma
<1>13. CASE Deletes(t)
  <2> DEFINE c == [thread[t] EXCEPT !.at = "release"]
             h == thread[t].h
  <2>1. c \in CallOf /\ c.at = "release" /\ c.h = thread[t].h /\ c.h2 = thread[t].h2 /\ c.make = thread[t].make
    BY <1>1, AtLemma
  <2>2. /\ thread' = [thread EXCEPT ![t] = c] /\ thread[t].at = "remove" /\ UNCHANGED <<conn, body, misused, crashed>>
        /\ table[h] = "open" /\ h # Null /\ table' = [table EXCEPT ![h] = "closed"]
    BY <1>13 DEF Deletes, Valid
  <2>3. h \in Handles
    BY <1>1, <2>2 DEF CallOf, HandleOrNull
  <2> HIDE DEF c, h
  <2>4. /\ table' \in [Handles -> {"unused", "open", "closed"}]
        /\ \A k \in Handles : table'[k] = "unused" <=> table[k] = "unused"
    BY <1>1, <2>2, <2>3
  <2>5. ASSUME NEW d \in CallOf, CallFits(table, d) PROVE CallFits(table', d)
    BY <2>4, <2>5 DEF CallFits, CallOf, HandleOrNull
  <2>6. CallFits(table, c) /\ c.make = Null
    BY <1>1, <2>1, <2>2 DEF CallFits
  <2>7. \A u \in Threads \ {t} : CallFits(table', thread[u])
    BY <2>5 DEF TInv
  <2>8. misused' \in BOOLEAN /\ crashed' \in BOOLEAN
        /\ conn' \in [Handles -> {"none", "open", "lost", "closed"}] /\ body' \in [Handles -> Body]
    BY <1>1, <2>2
  <2>9. QED
    BY <2>1, <2>2, <2>4, <2>5, <2>6, <2>7, <2>8, MoveLemma
<1>14. CASE CountHandleRelease(t)
  BY <1>1, <1>14, IdleLemma, QuietLemma DEF CountHandleRelease
<1>15. QED
  BY <1>2, <1>3, <1>4, <1>5, <1>6, <1>7, <1>8, <1>9, <1>10, <1>11, <1>12, <1>13, <1>14 DEF ThreadStep

\* The types and the handles of the calls, at first.
LEMMA TInitLemma == Init => TInv
<1>1. NoBody \in Body
  BY DEF NoBody, Body, HandleOrNull
<1>2. QED
  BY <1>1, IdleLemma DEF Init, TInv

\* And in every step: a lost connection changes no handle.
LEMMA TNextLemma == TInv /\ [Next]_vars => TInv'
<1>1. SUFFICES ASSUME TInv, [Next]_vars PROVE TInv'
  OBVIOUS
<1>2. ASSUME NEW h \in Handles, ConnectionLost(h) PROVE TInv'
  BY <1>1, <1>2 DEF ConnectionLost, TInv
<1>3. CASE UNCHANGED vars
  BY <1>1, <1>3 DEF vars, TInv
<1>4. QED
  BY <1>1, <1>2, <1>3, StepLemma, TStepLemma

\* What a step of a thread makes of its call.
LEMMA ThreadLemma ==
    ASSUME TInv, NEW t \in Threads
    PROVE  /\ ThreadStep(t) => \A u \in Threads \ {t} : thread'[u] = thread[u]
           /\ Ends(t) \/ Takes(t) \/ NewHandle(t) \/ CountHandleRelease(t) => thread'[t] = Idle
           /\ GoesOn(t) \/ CountHandleExport(t) \/ Destuct(t) \/ Deletes(t) \/ Loops(t) =>
                 /\ thread'[t].h = thread[t].h /\ thread'[t].h2 = thread[t].h2
                 /\ thread'[t].make = thread[t].make
           /\ CountHandleExport(t) => thread'[t].at = "new"
           /\ Destuct(t) => thread'[t].at = "remove"
           /\ Deletes(t) => thread'[t].at = "release"
           /\ Loops(t) => thread'[t].at = "readall"
           /\ GoesOn(t) => /\ thread'[t].at = "resolver" => thread[t].at = "host"
                           /\ thread'[t].at = "roundtrip" => thread[t].at = "call"
                           /\ thread'[t].at = "destuct" => thread[t].at = "close" /\ Kind(thread[t].h) = "client"
                           /\ thread'[t].at = "remove" => thread[t].at = "close" /\ Kind(thread[t].h) # "client"
                           /\ thread'[t].at \in {"resolver", "roundtrip", "destuct", "remove"}
           /\ \A h \in Handles : StartsToMake(t, h) =>
                 /\ thread'[t].at = "count" /\ thread'[t].make = h
                 /\ thread'[t].h = thread[t].h /\ thread'[t].h2 = thread[t].h2
<1>1. thread \in [Threads -> CallOf] /\ thread[t] \in CallOf
  BY DEF TInv
<1>2. ASSUME Ends(t) \/ Takes(t) \/ NewHandle(t) \/ CountHandleRelease(t)
      PROVE  thread'[t] = Idle /\ \A u \in Threads \ {t} : thread'[u] = thread[u]
  BY <1>1, <1>2 DEF Ends, Returns, Takes, NewHandle, CountHandleRelease
<1>3. ASSUME CountHandleExport(t)
      PROVE  /\ thread'[t].h = thread[t].h /\ thread'[t].h2 = thread[t].h2 /\ thread'[t].make = thread[t].make
             /\ thread'[t].at = "new" /\ \A u \in Threads \ {t} : thread'[u] = thread[u]
  BY <1>1, <1>3 DEF CountHandleExport, CallOf
<1>4. ASSUME Destuct(t)
      PROVE  /\ thread'[t].h = thread[t].h /\ thread'[t].h2 = thread[t].h2 /\ thread'[t].make = thread[t].make
             /\ thread'[t].at = "remove" /\ \A u \in Threads \ {t} : thread'[u] = thread[u]
  BY <1>1, <1>4 DEF Destuct, CallOf
<1>5. ASSUME Deletes(t)
      PROVE  /\ thread'[t].h = thread[t].h /\ thread'[t].h2 = thread[t].h2 /\ thread'[t].make = thread[t].make
             /\ thread'[t].at = "release" /\ \A u \in Threads \ {t} : thread'[u] = thread[u]
  BY <1>1, <1>5 DEF Deletes, CallOf
<1>6. ASSUME Loops(t)
      PROVE  /\ thread'[t].h = thread[t].h /\ thread'[t].h2 = thread[t].h2 /\ thread'[t].make = thread[t].make
             /\ thread'[t].at = "readall" /\ \A u \in Threads \ {t} : thread'[u] = thread[u]
  BY <1>1, <1>6 DEF Loops, CallOf
<1>7. ASSUME GoesOn(t)
      PROVE  /\ thread'[t].h = thread[t].h /\ thread'[t].h2 = thread[t].h2 /\ thread'[t].make = thread[t].make
             /\ thread'[t].at = "resolver" => thread[t].at = "host"
             /\ thread'[t].at = "roundtrip" => thread[t].at = "call"
             /\ thread'[t].at = "destuct" => thread[t].at = "close" /\ Kind(thread[t].h) = "client"
             /\ thread'[t].at = "remove" => thread[t].at = "close" /\ Kind(thread[t].h) # "client"
             /\ thread'[t].at \in {"resolver", "roundtrip", "destuct", "remove"}
             /\ \A u \in Threads \ {t} : thread'[u] = thread[u]
  BY <1>1, <1>7 DEF GoesOn, CallOf
<1>8. ASSUME NEW h \in Handles, StartsToMake(t, h)
      PROVE  /\ thread'[t].at = "count" /\ thread'[t].make = h
             /\ thread'[t].h = thread[t].h /\ thread'[t].h2 = thread[t].h2
             /\ \A u \in Threads \ {t} : thread'[u] = thread[u]
  BY <1>1, <1>8 DEF StartsToMake, Exports, CallOf
<1>9. ASSUME Panics(t) \/ Begins(t) \/ ReadAllStep(t)
      PROVE  \A u \in Threads \ {t} : thread'[u] = thread[u]
  BY <1>1, <1>9 DEF Panics, Panic, Begins, ReadAllStep
<1>10. ThreadStep(t) => \A u \in Threads \ {t} : thread'[u] = thread[u]
  BY <1>2, <1>3, <1>4, <1>5, <1>6, <1>7, <1>8, <1>9 DEF ThreadStep
<1>11. QED
  BY <1>2, <1>3, <1>4, <1>5, <1>6, <1>7, <1>8, <1>10

-----------------------------------------------------------------------------
(* The counter *)

\* A step that neither counts a handle nor changes the table.
LEMMA NQuietLemma ==
    ASSUME NInv, NEW t \in Threads, UNCHANGED <<table, count>>,
           \A u \in Threads \ {t} : thread'[u] = thread[u],
           thread[t].at \notin {"new", "release"}, thread'[t].at \notin {"new", "release"}
    PROVE  NInv'
<1>1. Between' = Between /\ OpenHandles' = OpenHandles
  BY DEF Between, OpenHandles
<1>2. QED
  BY <1>1 DEF NInv, HandlesCounted, Between

\* The counter, in every step of a thread.
LEMMA NStepLemma ==
    ASSUME TInv, NInv, NEW t \in Threads, ThreadStep(t)
    PROVE  NInv'
<1>1. \A u \in Threads \ {t} : thread'[u] = thread[u]
  BY ThreadLemma
<1>2. /\ IsFiniteSet(Between) /\ IsFiniteSet(OpenHandles)
      /\ Cardinality(Between) \in Nat /\ Cardinality(OpenHandles) \in Nat
      /\ count = Cardinality(OpenHandles) + Cardinality(Between)
  <2>1. IsFiniteSet(Between)
    BY DLLAssumption, FS_Subset DEF Between
  <2>2. QED
    BY <2>1, FS_CardinalityType DEF NInv, HandlesCounted, Between
<1>3. CASE Panics(t)
  BY <1>3 DEF Panics, Panic, NInv, HandlesCounted, OpenHandles
<1>4. CASE Ends(t) \/ Takes(t)
  BY <1>1, <1>4, ThreadLemma, IdleLemma, NQuietLemma DEF Ends, Returns, Takes
<1>5. CASE Begins(t)
  <2>1. thread[t].at = "idle" /\ thread'[t].at \notin {"new", "release"} /\ UNCHANGED <<table, count>>
    BY <1>5, IdleLemma DEF Begins, TInv
  <2>2. QED
    BY <1>1, <2>1, NQuietLemma
<1>6. CASE GoesOn(t)
  BY <1>1, <1>6, ThreadLemma, NQuietLemma DEF GoesOn
<1>7. ASSUME NEW h \in Handles, StartsToMake(t, h)
      PROVE  NInv'
  BY <1>1, <1>7, ThreadLemma, IdleLemma, NQuietLemma DEF StartsToMake, Exports
<1>8. CASE Loops(t)
  BY <1>1, <1>8, ThreadLemma, NQuietLemma DEF Loops
<1>9. CASE ReadAllStep(t)
  <2>1. PICK d \in CallOf : thread' = [thread EXCEPT ![t] = d] /\ (d = Idle \/ d.at = "readall")
    BY <1>9, TurnLemma
  <2>2. thread[t].at = "readall" /\ UNCHANGED <<table, count>> /\ thread'[t].at \notin {"new", "release"}
    BY <1>9, <2>1, IdleLemma DEF ReadAllStep, TInv
  <2>3. QED
    BY <1>1, <2>2, NQuietLemma
<1>10. CASE CountHandleExport(t)
  <2>1. UNCHANGED table /\ count' = count + 1 /\ thread[t].at = "count" /\ thread'[t].at = "new"
    BY <1>10, ThreadLemma DEF CountHandleExport
  <2>2. Between' = Between \cup {t} /\ t \notin Between /\ OpenHandles' = OpenHandles
    BY <1>1, <2>1 DEF Between, OpenHandles
  <2>3. Cardinality(Between') = Cardinality(Between) + 1
    BY <1>2, <2>2, FS_AddElement
  <2>4. QED
    BY <1>2, <2>1, <2>2, <2>3 DEF NInv, HandlesCounted, Between
<1>11. CASE NewHandle(t)
  <2> DEFINE m == thread[t].make
  <2>1. /\ thread[t].at = "new" /\ thread'[t].at = "idle" /\ UNCHANGED count
        /\ table' = [table EXCEPT ![m] = "open"]
    BY <1>11, ThreadLemma, IdleLemma DEF NewHandle
  <2>2. m \in Handles /\ table[m] = "unused"
    BY <2>1 DEF TInv, CallFits, CallOf, HandleOrNull
  <2> HIDE DEF m
  <2>3. Between' = Between \ {t} /\ t \in Between
    BY <1>1, <2>1 DEF Between
  <2>4. OpenHandles' = OpenHandles \cup {m} /\ m \notin OpenHandles
    BY <2>1, <2>2 DEF OpenHandles, TInv
  <2>5. /\ Cardinality(Between') = Cardinality(Between) - 1
        /\ IsFiniteSet(OpenHandles') /\ Cardinality(OpenHandles') = Cardinality(OpenHandles) + 1
    BY <1>2, <2>3, <2>4, FS_AddElement, FS_RemoveElement
  <2>6. QED
    BY <1>2, <2>1, <2>5 DEF NInv, HandlesCounted, Between
<1>12. CASE Destuct(t)
  BY <1>1, <1>12, ThreadLemma, NQuietLemma DEF Destuct
<1>13. CASE Deletes(t)
  <2> DEFINE h == thread[t].h
  <2>1. /\ thread[t].at = "remove" /\ thread'[t].at = "release" /\ UNCHANGED count
        /\ h # Null /\ table[h] = "open" /\ table' = [table EXCEPT ![h] = "closed"]
    BY <1>13, ThreadLemma DEF Deletes, Valid
  <2>2. h \in Handles
    BY <2>1 DEF TInv, CallOf, HandleOrNull
  <2> HIDE DEF h
  <2>3. Between' = Between \cup {t} /\ t \notin Between
    BY <1>1, <2>1 DEF Between
  <2>4. OpenHandles' = OpenHandles \ {h} /\ h \in OpenHandles
    BY <2>1, <2>2 DEF OpenHandles, TInv
  <2>5. /\ Cardinality(Between') = Cardinality(Between) + 1
        /\ IsFiniteSet(OpenHandles') /\ Cardinality(OpenHandles') = Cardinality(OpenHandles) - 1
    BY <1>2, <2>3, <2>4, FS_AddElement, FS_RemoveElement
  <2>6. QED
    BY <1>2, <2>1, <2>5 DEF NInv, HandlesCounted, Between
<1>14. CASE CountHandleRelease(t)
  <2>1. UNCHANGED table /\ count' = count - 1 /\ thread[t].at = "release" /\ thread'[t].at = "idle"
    BY <1>14, ThreadLemma, IdleLemma DEF CountHandleRelease
  <2>2. Between' = Between \ {t} /\ t \in Between /\ OpenHandles' = OpenHandles
    BY <1>1, <2>1 DEF Between, OpenHandles
  <2>3. Cardinality(Between') = Cardinality(Between) - 1
    BY <1>2, <2>2, FS_RemoveElement
  <2>4. QED
    BY <1>2, <2>1, <2>2, <2>3 DEF NInv, HandlesCounted, Between
<1>15. QED
  BY <1>3, <1>4, <1>5, <1>6, <1>7, <1>8, <1>9, <1>10, <1>11, <1>12, <1>13, <1>14 DEF ThreadStep

\* The counter, at first.
LEMMA NInitLemma == Init => NInv
<1>1. SUFFICES ASSUME Init PROVE NInv
  OBVIOUS
<1>2. OpenHandles = {} /\ Between = {}
  BY <1>1, IdleLemma DEF Init, OpenHandles, Between
<1>3. QED
  BY <1>1, <1>2, FS_EmptySet DEF Init, NInv, HandlesCounted, Between

\* The counter, in every step.
LEMMA NNextLemma == TInv /\ NInv /\ [Next]_vars => NInv'
<1>1. SUFFICES ASSUME TInv, NInv, [Next]_vars PROVE NInv'
  OBVIOUS
<1>2. CASE UNCHANGED <<table, count, thread>>
  BY <1>1, <1>2 DEF NInv, HandlesCounted, OpenHandles
<1>3. QED
  BY <1>1, <1>2, StepLemma, NStepLemma DEF ConnectionLost, vars

-----------------------------------------------------------------------------
(* Connections *)

\* A step that leaves the table and the connections alone.
LEMMA CQuietLemma ==
    ASSUME CInv, NEW t \in Threads, UNCHANGED <<table, conn>>,
           \A u \in Threads \ {t} : thread'[u] = thread[u],
           thread[t].at # "remove", thread[t].make \in {Null, thread'[t].make},
           Closing(conn, thread'[t])
    PROVE  CInv'
<1>1. \A u \in Threads : Closing(conn', thread'[u])
  BY DEF CInv
<1>2. ASSUME NEW h \in Handles
      PROVE  /\ conn'[h] = "open" => table'[h] = "open" \/ \E u \in Threads : thread'[u].make = h
             /\ conn'[h] = "closed" /\ table'[h] = "open" =>
                   \E u \in Threads : thread'[u].h = h /\ thread'[u].at = "remove"
  <2>1. h # Null
    BY DLLAssumption DEF Handles
  <2>2. ASSUME NEW u \in Threads, thread[u].make = h PROVE thread'[u].make = h
    BY <2>1, <2>2
  <2>3. ASSUME NEW u \in Threads, thread[u].h = h, thread[u].at = "remove"
        PROVE  thread'[u].h = h /\ thread'[u].at = "remove"
    BY <2>3
  <2>4. QED
    BY <2>2, <2>3 DEF CInv, ConnectionsReleased
<1>3. QED
  BY <1>1, <1>2 DEF CInv, ConnectionsReleased

\* The connections, in every step of a thread.
LEMMA CStepLemma ==
    ASSUME TInv, CInv, NEW t \in Threads, ThreadStep(t)
    PROVE  CInv'
<1>1. /\ \A u \in Threads \ {t} : thread'[u] = thread[u]
      /\ \A C : Closing(C, Idle)
      /\ CallFits(table, thread[t]) /\ thread[t] \in CallOf
  BY ThreadLemma, IdleLemma DEF Closing, TInv
<1>2. CASE Panics(t)
  BY <1>2 DEF Panics, Panic, CInv, ConnectionsReleased
<1>3. CASE Ends(t) \/ Takes(t) \/ CountHandleRelease(t)
  <2>1. /\ UNCHANGED <<table, conn>> /\ thread'[t] = Idle /\ thread[t].at # "remove"
        /\ thread[t].at \notin {"count", "new"}
    BY <1>3, ThreadLemma DEF Ends, Returns, Takes, CountHandleRelease
  <2>2. thread[t].make = Null
    BY <1>1, <2>1 DEF CallFits
  <2>3. QED
    BY <1>1, <2>1, <2>2, CQuietLemma
<1>4. CASE Begins(t)
  <2>1. /\ UNCHANGED <<table, conn>> /\ thread[t].at = "idle" /\ thread[t].make = Null
        /\ thread'[t].at \notin {"destuct", "remove"}
    BY <1>4, IdleLemma DEF Begins, TInv
  <2>2. QED
    BY <1>1, <2>1, CQuietLemma DEF Closing
<1>5. CASE GoesOn(t)
  <2>1. UNCHANGED <<table, conn>> /\ thread[t].at # "remove"
    BY <1>5, ThreadLemma DEF GoesOn
  <2>2. Closing(conn, thread'[t]) /\ thread[t].make = thread'[t].make
    BY <1>5, ThreadLemma DEF Closing
  <2>3. QED
    BY <1>1, <2>1, <2>2, CQuietLemma
<1>6. ASSUME NEW h \in Handles, StartsToMake(t, h)
      PROVE  CInv'
  <2>1. /\ thread'[t].at = "count" /\ thread'[t].make = h /\ UNCHANGED table
        /\ table[h] = "unused" /\ thread[t].at \notin {"remove", "count", "new"}
    BY <1>6, ThreadLemma, IdleLemma DEF StartsToMake, Exports, Free
  <2>2. thread[t].make = Null
    BY <1>1, <2>1 DEF CallFits
  <2>3. Closing(conn, thread'[t])
    BY <2>1 DEF Closing
  <2>4. CASE UNCHANGED conn
    BY <1>1, <2>1, <2>2, <2>3, <2>4, CQuietLemma
  <2>5. CASE Kind(h) = "client" /\ conn' = [conn EXCEPT ![h] = "open"]
    <3>1. conn'[h] = "open" /\ \A k \in Handles \ {h} : conn'[k] = conn[k]
      BY <2>5 DEF TInv
    <3>2. ASSUME NEW u \in Threads PROVE Closing(conn', thread'[u])
      <4>1. CASE u = t
        BY <2>1, <4>1 DEF Closing
      <4>2. CASE u # t
        <5>1. thread'[u] = thread[u] /\ Closing(conn, thread[u]) /\ CallFits(table, thread[u]) /\ thread[u] \in CallOf
          BY <1>1, <4>2 DEF CInv, TInv
        <5>2. thread[u].at = "remove" => thread[u].h \in Handles \ {h}
          BY <2>1, <5>1 DEF CallFits, CallOf, HandleOrNull
        <5>3. QED
          BY <3>1, <5>1, <5>2 DEF Closing
      <4>3. QED
        BY <4>1, <4>2
    <3>3. ASSUME NEW k \in Handles
          PROVE  /\ conn'[k] = "open" => table'[k] = "open" \/ \E u \in Threads : thread'[u].make = k
                 /\ conn'[k] = "closed" /\ table'[k] = "open" =>
                       \E u \in Threads : thread'[u].h = k /\ thread'[u].at = "remove"
                 /\ conn'[k] # "none" => Kind(k) = "client"
                 /\ table'[k] = "unused" => conn'[k] # "closed"
      <4>1. CASE k = h
        BY <2>1, <2>5, <3>1, <4>1
      <4>2. CASE k # h
        <5>1. k # Null /\ conn'[k] = conn[k] /\ table'[k] = table[k]
          BY <2>1, <3>1, <4>2, DLLAssumption DEF Handles
        <5>2. ASSUME NEW u \in Threads, thread[u].make = k PROVE thread'[u].make = k
          BY <1>1, <2>2, <5>1, <5>2
        <5>3. ASSUME NEW u \in Threads, thread[u].h = k, thread[u].at = "remove"
              PROVE  thread'[u].h = k /\ thread'[u].at = "remove"
          BY <1>1, <2>1, <5>3
        <5>4. QED
          BY <5>1, <5>2, <5>3 DEF CInv, ConnectionsReleased
      <4>3. QED
        BY <4>1, <4>2
    <3>4. QED
      BY <3>2, <3>3 DEF CInv, ConnectionsReleased
  <2>6. QED
    BY <1>6, <2>4, <2>5 DEF StartsToMake
<1>7. CASE Loops(t) \/ CountHandleExport(t)
  <2>1. /\ UNCHANGED <<table, conn>> /\ thread[t].at # "remove" /\ thread[t].make = thread'[t].make
        /\ thread'[t].at \in {"readall", "new"}
    BY <1>7, ThreadLemma DEF Loops, CountHandleExport
  <2>2. QED
    BY <1>1, <2>1, CQuietLemma DEF Closing
<1>8. CASE ReadAllStep(t)
  <2>1. PICK d \in CallOf : thread' = [thread EXCEPT ![t] = d] /\ (d = Idle \/ d.at = "readall")
    BY <1>8, TurnLemma
  <2>2. /\ thread[t].at = "readall" /\ UNCHANGED <<table, conn>>
        /\ thread'[t].at \notin {"destuct", "remove"}
    BY <1>8, <2>1, IdleLemma DEF ReadAllStep, TInv
  <2>3. thread[t].make = Null
    BY <1>1, <2>2 DEF CallFits
  <2>4. QED
    BY <1>1, <2>2, <2>3, CQuietLemma DEF Closing
<1>9. CASE NewHandle(t)
  <2> DEFINE m == thread[t].make
  <2>1. /\ thread[t].at = "new" /\ thread'[t] = Idle /\ UNCHANGED conn
        /\ table' = [table EXCEPT ![m] = "open"]
    BY <1>9, ThreadLemma DEF NewHandle
  <2>2. m \in Handles /\ table[m] = "unused" /\ m # Null
    BY <1>1, <2>1 DEF CallFits, CallOf, HandleOrNull
  <2> HIDE DEF m
  <2>3. table'[m] = "open" /\ \A k \in Handles \ {m} : table'[k] = table[k]
    BY <2>1, <2>2 DEF TInv
  <2>4. \A u \in Threads : Closing(conn', thread'[u])
    BY <1>1, <2>1 DEF CInv
  <2>5. ASSUME NEW k \in Handles
        PROVE  /\ conn'[k] = "open" => table'[k] = "open" \/ \E u \in Threads : thread'[u].make = k
               /\ conn'[k] = "closed" /\ table'[k] = "open" =>
                     \E u \in Threads : thread'[u].h = k /\ thread'[u].at = "remove"
               /\ conn'[k] # "none" => Kind(k) = "client"
               /\ table'[k] = "unused" => conn'[k] # "closed"
    <3>1. CASE k = m
      BY <2>1, <2>2, <2>3, <3>1 DEF CInv
    <3>2. CASE k # m
      <4>1. ASSUME NEW u \in Threads, thread[u].make = k PROVE thread'[u].make = k
        BY <1>1, <3>2, <4>1 DEF m
      <4>2. ASSUME NEW u \in Threads, thread[u].h = k, thread[u].at = "remove"
            PROVE  thread'[u].h = k /\ thread'[u].at = "remove"
        BY <1>1, <2>1, <4>2
      <4>3. QED
        BY <2>1, <2>3, <3>2, <4>1, <4>2 DEF CInv, ConnectionsReleased
    <3>3. QED
      BY <3>1, <3>2
  <2>6. QED
    BY <2>4, <2>5 DEF CInv, ConnectionsReleased
<1>10. CASE Destuct(t)
  <2> DEFINE h == thread[t].h
  <2>1. /\ thread[t].at = "destuct" /\ thread'[t].at = "remove" /\ thread'[t].h = h
        /\ thread'[t].make = thread[t].make
        /\ conn' = [conn EXCEPT ![h] = "closed"] /\ UNCHANGED table
    BY <1>10, ThreadLemma DEF Destuct
  <2>2. h \in Handles /\ table[h] # "unused" /\ Kind(h) = "client"
    BY <1>1, <2>1 DEF CallFits, CallOf, HandleOrNull, CInv, Closing
  <2> HIDE DEF h
  <2>3. conn'[h] = "closed" /\ \A k \in Handles \ {h} : conn'[k] = conn[k]
    BY <2>1, <2>2 DEF TInv
  <2>4. ASSUME NEW u \in Threads PROVE Closing(conn', thread'[u])
    <3>1. CASE u = t
      BY <2>1, <2>3, <3>1 DEF Closing
    <3>2. CASE u # t
      <4>1. thread'[u] = thread[u] /\ Closing(conn, thread[u]) /\ CallFits(table, thread[u]) /\ thread[u] \in CallOf
        BY <1>1, <3>2 DEF CInv, TInv
      <4>2. thread[u].at = "remove" => thread[u].h \in Handles
        BY <4>1 DEF CallFits, CallOf, HandleOrNull
      <4>3. QED
        BY <2>3, <4>1, <4>2 DEF Closing
    <3>3. QED
      BY <3>1, <3>2
  <2>5. ASSUME NEW k \in Handles
        PROVE  /\ conn'[k] = "open" => table'[k] = "open" \/ \E u \in Threads : thread'[u].make = k
               /\ conn'[k] = "closed" /\ table'[k] = "open" =>
                     \E u \in Threads : thread'[u].h = k /\ thread'[u].at = "remove"
               /\ conn'[k] # "none" => Kind(k) = "client"
               /\ table'[k] = "unused" => conn'[k] # "closed"
    <3>1. CASE k = h
      BY <2>1, <2>2, <2>3, <3>1
    <3>2. CASE k # h
      <4>1. ASSUME NEW u \in Threads, thread[u].make = k PROVE thread'[u].make = k
        BY <1>1, <2>1, <4>1
      <4>2. ASSUME NEW u \in Threads, thread[u].h = k, thread[u].at = "remove"
            PROVE  thread'[u].h = k /\ thread'[u].at = "remove"
        BY <1>1, <2>1, <4>2
      <4>3. QED
        BY <2>1, <2>3, <3>2, <4>1, <4>2 DEF CInv, ConnectionsReleased
    <3>3. QED
      BY <3>1, <3>2
  <2>6. QED
    BY <2>4, <2>5 DEF CInv, ConnectionsReleased
<1>11. CASE Deletes(t)
  <2> DEFINE h == thread[t].h
  <2>1. /\ thread[t].at = "remove" /\ thread'[t].at = "release" /\ thread'[t].make = thread[t].make
        /\ h # Null /\ table' = [table EXCEPT ![h] = "closed"] /\ UNCHANGED conn
    BY <1>11, ThreadLemma DEF Deletes, Valid
  <2>2. h \in Handles /\ (Kind(h) = "client" => conn[h] = "closed")
    BY <1>1, <2>1 DEF CallOf, HandleOrNull, CInv, Closing
  <2>3. ASSUME NEW u \in Threads, thread[u].at = "remove", thread[u].h # h
        PROVE  thread'[u] = thread[u]
    BY <1>1, <2>3
  <2> HIDE DEF h
  <2>4. table'[h] = "closed" /\ \A k \in Handles \ {h} : table'[k] = table[k]
    BY <2>1, <2>2 DEF TInv
  <2>5. \A u \in Threads : Closing(conn', thread'[u])
    BY <1>1, <2>1 DEF CInv, Closing
  <2>6. ASSUME NEW k \in Handles
        PROVE  /\ conn'[k] = "open" => table'[k] = "open" \/ \E u \in Threads : thread'[u].make = k
               /\ conn'[k] = "closed" /\ table'[k] = "open" =>
                     \E u \in Threads : thread'[u].h = k /\ thread'[u].at = "remove"
               /\ conn'[k] # "none" => Kind(k) = "client"
               /\ table'[k] = "unused" => conn'[k] # "closed"
    <3>1. CASE k = h
      <4>1. conn'[h] # "open"
        BY <2>1, <2>2 DEF CInv
      <4>2. QED
        BY <2>1, <2>4, <3>1, <4>1 DEF CInv
    <3>2. CASE k # h
      <4>1. ASSUME NEW u \in Threads, thread[u].make = k PROVE thread'[u].make = k
        BY <1>1, <2>1, <4>1
      <4>2. ASSUME NEW u \in Threads, thread[u].h = k, thread[u].at = "remove"
            PROVE  thread'[u].h = k /\ thread'[u].at = "remove"
        BY <2>3, <3>2, <4>2
      <4>3. QED
        BY <2>1, <2>4, <3>2, <4>1, <4>2 DEF CInv, ConnectionsReleased
    <3>3. QED
      BY <3>1, <3>2
  <2>7. QED
    BY <2>5, <2>6 DEF CInv, ConnectionsReleased
<1>12. QED
  BY <1>2, <1>3, <1>4, <1>5, <1>6, <1>7, <1>8, <1>9, <1>10, <1>11 DEF ThreadStep

\* The connections, at first.
LEMMA CInitLemma == Init => CInv
BY IdleLemma DEF Init, CInv, ConnectionsReleased, Closing

\* The connections, in every step; one that is lost is none that was closed.
LEMMA CNextLemma == TInv /\ CInv /\ [Next]_vars => CInv'
<1>1. SUFFICES ASSUME TInv, CInv, [Next]_vars PROVE CInv'
  OBVIOUS
<1>2. CASE UNCHANGED vars
  BY <1>1, <1>2 DEF vars, CInv, ConnectionsReleased
<1>3. ASSUME NEW h \in Handles, ConnectionLost(h) PROVE CInv'
  <2>1. /\ conn[h] = "open" /\ conn'[h] = "lost" /\ \A k \in Handles \ {h} : conn'[k] = conn[k]
        /\ UNCHANGED <<table, thread>>
    BY <1>1, <1>3 DEF ConnectionLost, TInv
  <2>2. ASSUME NEW u \in Threads PROVE Closing(conn', thread[u])
    <3>1. Closing(conn, thread[u]) /\ CallFits(table, thread[u]) /\ thread[u] \in CallOf
      BY <1>1 DEF CInv, TInv
    <3>2. thread[u].at = "remove" => thread[u].h \in Handles
      BY <3>1 DEF CallFits, CallOf, HandleOrNull
    <3>3. QED
      BY <2>1, <3>1, <3>2 DEF Closing
  <2>3. QED
    BY <1>1, <2>1, <2>2 DEF CInv, ConnectionsReleased
<1>4. QED
  BY <1>1, <1>2, <1>3, StepLemma, CStepLemma

-----------------------------------------------------------------------------
(* An application that keeps the rules *)

\* A call c has become d, with no other handles and not closing any if it did not.
Follows(c, d) ==
    \/ d.at = "idle"
    \/ /\ d.h = c.h /\ d.h2 = c.h2 /\ (d.at \in ClosingSteps => c.at \in ClosingSteps)
       /\ c.at = "idle" => c.h = Null /\ c.h2 = Null

\* Such a call stays apart from the others.
LEMMA ApartLemma ==
    ASSUME NEW c, NEW d, NEW e, Follows(c, d), Apart(c, e), Apart(e, c)
    PROVE  Apart(d, e) /\ Apart(e, d)
BY DEF Follows, Apart, ClosingSteps

\* Handles that stay open, and bodies that stay, are still good for a call.
LEMMA KeptLemma ==
    ASSUME NEW T, NEW U, NEW A, NEW B, NEW c \in CallOf, Kept(T, A, c),
           \A k \in Handles : T[k] = "open" => U[k] = "open" /\ B[k].exists = A[k].exists
    PROVE  Kept(U, B, c)
<1>1. c.h \in HandleOrNull /\ c.h2 \in HandleOrNull
  BY DEF CallOf
<1>2. QED
  BY <1>1 DEF Kept, HandleOrNull

\* A step of a thread that goes on with a call, or ends it.
LEMMA GQuietLemma ==
    ASSUME TInv, GInv, NEW t \in Threads, UNCHANGED <<misused, crashed>>,
           \A u \in Threads \ {t} : thread'[u] = thread[u],
           \A k \in Handles : table[k] = "open" => table'[k] = "open" /\ body'[k].exists = body[k].exists,
           Follows(thread[t], thread'[t]),
           Kept(table, body, thread[t]) => Kept(table', body', thread'[t])
    PROVE  GInv'
<1>1. SUFFICES ASSUME ~misused'
               PROVE  /\ ~crashed'
                      /\ \A u \in Threads : Kept(table', body', thread'[u])
                      /\ \A u, v \in Threads : u # v => Apart(thread'[u], thread'[v])
  BY DEF GInv
<1>2. /\ ~crashed
      /\ \A u \in Threads : Kept(table, body, thread[u])
      /\ \A u, v \in Threads : u # v => Apart(thread[u], thread[v])
  BY <1>1 DEF GInv
<1>3. ASSUME NEW u \in Threads PROVE Kept(table', body', thread'[u])
  <2>1. CASE u = t
    BY <1>2, <2>1
  <2>2. CASE u # t
    <3>1. thread'[u] = thread[u] /\ thread[u] \in CallOf /\ Kept(table, body, thread[u])
      BY <1>2, <2>2 DEF TInv
    <3>2. QED
      BY <3>1, KeptLemma
  <2>3. QED
    BY <2>1, <2>2
<1>4. ASSUME NEW u \in Threads, NEW v \in Threads, u # v PROVE Apart(thread'[u], thread'[v])
  <2>1. CASE u = t
    BY <1>2, <1>4, <2>1, ApartLemma
  <2>2. CASE v = t
    BY <1>2, <1>4, <2>2, ApartLemma
  <2>3. CASE u # t /\ v # t
    BY <1>2, <1>4, <2>3
  <2>4. QED
    BY <2>1, <2>2, <2>3
<1>5. QED
  BY <1>2, <1>3, <1>4

\* Idle keeps every rule.
LEMMA GIdleLemma == /\ \A T, B : Kept(T, B, Idle)
                    /\ \A c : Follows(c, Idle)
BY IdleLemma DEF Kept, Follows

\* No panic, and no call that breaks the rules, unless one has begun that does.
LEMMA GStepLemma ==
    ASSUME TInv, GInv, NEW t \in Threads, ThreadStep(t)
    PROVE  GInv'
<1>1. /\ \A u \in Threads \ {t} : thread'[u] = thread[u]
      /\ CallFits(table, thread[t]) /\ thread[t] \in CallOf
      /\ thread[t].h \in HandleOrNull /\ thread[t].h2 \in HandleOrNull
  BY ThreadLemma DEF TInv, CallOf
<1>2. CASE Panics(t)
  <2>1. SUFFICES ASSUME ~misused PROVE FALSE
    BY <1>2 DEF Panics, Panic, GInv
  <2>2. Kept(table, body, thread[t])
    BY <2>1 DEF GInv
  <2>3. QED
    BY <1>1, <1>2, <2>2 DEF Panics, Kept, CallFits, Valid
<1>3. CASE Ends(t) \/ CountHandleRelease(t)
  BY <1>1, <1>3, ThreadLemma, GIdleLemma, GQuietLemma DEF Ends, Returns, CountHandleRelease
<1>4. CASE Begins(t)
  <2>1. PICK c \in CallOf :
          /\ c.at \in {"close", "call", "error", "read", "short", "host"}
          /\ c.h2 # Null => c.at = "host"
          /\ thread' = [thread EXCEPT ![t] = c]
          /\ misused' = (misused \/ Misuse(c.at, IF c.at = "close" THEN {c.h} \ {Null}
                                                 ELSE IF c.at = "host" THEN {c.h, c.h2} ELSE {c.h}))
    BY <1>4 DEF Begins
  <2> DEFINE args == IF c.at = "close" THEN {c.h} \ {Null} ELSE IF c.at = "host" THEN {c.h, c.h2} ELSE {c.h}
  <2>2. thread'[t] = c /\ UNCHANGED <<table, body, crashed>>
    BY <1>4, <2>1 DEF Begins, TInv
  <2>3. SUFFICES ASSUME ~misused, ~Misuse(c.at, args) PROVE GInv'
    BY <2>1 DEF GInv
  <2>4. /\ ~crashed
        /\ \A u \in Threads : Kept(table, body, thread[u])
        /\ \A u, v \in Threads : u # v => Apart(thread[u], thread[v])
    BY <2>3 DEF GInv
  <2>5. /\ c.at # "short"
        /\ \A h \in args : /\ h # Null /\ table[h] = "open"
                           /\ c.at = "error" => Kind(h) = "error"
                           /\ c.at = "read" /\ Kind(h) = "response" => body[h].exists
                           /\ \A u \in Threads : thread[u].at # "idle" /\ h \in {thread[u].h, thread[u].h2} =>
                                 thread[u].at \notin ClosingSteps /\ c.at # "close"
    BY <2>3 DEF Misuse, Valid, InCall
  <2>6. /\ c.h # Null => c.h \in args
        /\ c.h2 # Null => c.h2 \in args
        /\ c.at # "close" => c.h \in args
        /\ c.at = "host" => c.h2 \in args
    BY <2>1
  <2> HIDE DEF args
  <2>7. Kept(table', body', c)
    BY <2>1, <2>2, <2>5, <2>6 DEF Kept
  <2>8. ASSUME NEW u \in Threads \ {t}
        PROVE  Apart(c, thread[u]) /\ Apart(thread[u], c)
    <3>1. ASSUME c.at \in ClosingSteps, c.h # Null, thread[u].at # "idle"
          PROVE  c.h # thread[u].h /\ c.h # thread[u].h2
      <4>1. c.at = "close" /\ c.h \in args
        BY <2>1, <2>6, <3>1 DEF ClosingSteps
      <4>2. QED
        BY <2>5, <3>1, <4>1
    <3>2. ASSUME thread[u].at \in ClosingSteps, thread[u].h # Null
          PROVE  thread[u].h # c.h /\ thread[u].h # c.h2
      <4>1. thread[u].at # "idle"
        BY <3>2 DEF ClosingSteps
      <4>2. QED
        BY <2>5, <2>6, <3>2, <4>1
    <3>3. QED
      BY <3>1, <3>2 DEF Apart
  <2>9. \A u \in Threads : Kept(table', body', thread'[u])
    BY <1>1, <2>2, <2>4, <2>7
  <2>10. ASSUME NEW u \in Threads, NEW v \in Threads, u # v
         PROVE  Apart(thread'[u], thread'[v])
    <3>1. CASE u = t
      BY <1>1, <2>2, <2>8, <2>10, <3>1
    <3>2. CASE v = t
      BY <1>1, <2>2, <2>8, <2>10, <3>2
    <3>3. CASE u # t /\ v # t
      BY <1>1, <2>4, <2>10, <3>3
    <3>4. QED
      BY <3>1, <3>2, <3>3
  <2>11. QED
    BY <2>2, <2>4, <2>9, <2>10 DEF GInv
<1>5. CASE GoesOn(t)
  <2>1. UNCHANGED <<table, body, misused, crashed>>
    BY <1>5 DEF GoesOn
  <2>2. Follows(thread[t], thread'[t])
    BY <1>5, ThreadLemma DEF Follows, ClosingSteps
  <2>3. Kept(table, body, thread[t]) => Kept(table', body', thread'[t])
    BY <1>5, <2>1, ThreadLemma DEF Kept
  <2>4. QED
    BY <1>1, <2>1, <2>2, <2>3, GQuietLemma
<1>6. ASSUME NEW h \in Handles, StartsToMake(t, h)
      PROVE  GInv'
  <2>1. /\ thread'[t].at = "count" /\ thread'[t].h = thread[t].h /\ thread'[t].h2 = thread[t].h2
        /\ UNCHANGED <<table, misused, crashed>>
        /\ table[h] = "unused" /\ (thread[t] = Idle \/ thread[t].at \in {"call", "resolver", "roundtrip"})
    BY <1>6, ThreadLemma DEF StartsToMake, Exports, Free
  <2>2. \A k \in Handles : table[k] = "open" => body'[k].exists = body[k].exists
    BY <1>6, <2>1 DEF StartsToMake, TInv
  <2>3. Follows(thread[t], thread'[t])
    BY <2>1, IdleLemma DEF Follows, ClosingSteps
  <2>4. Kept(table, body, thread[t]) => Kept(table', body', thread'[t])
    BY <2>1, IdleLemma DEF Kept
  <2>5. QED
    BY <1>1, <2>1, <2>2, <2>3, <2>4, GQuietLemma
<1>7. CASE Takes(t)
  <2>1. \A k \in Handles : body'[k].exists = body[k].exists
    BY <1>7, TakesLemma, DrainLemma DEF TInv
  <2>2. UNCHANGED <<table, misused, crashed>> /\ thread'[t] = Idle
    BY <1>7, ThreadLemma DEF Takes
  <2>3. QED
    BY <1>1, <2>1, <2>2, GIdleLemma, GQuietLemma
<1>8. CASE Loops(t) \/ CountHandleExport(t)
  <2>1. /\ UNCHANGED <<table, body, misused, crashed>>
        /\ thread[t].at \in {"read", "count"} /\ thread'[t].at \in {"readall", "new"}
        /\ thread'[t].h = thread[t].h /\ thread'[t].h2 = thread[t].h2
    BY <1>8, ThreadLemma DEF Loops, CountHandleExport
  <2>2. Follows(thread[t], thread'[t])
    BY <2>1 DEF Follows, ClosingSteps
  <2>3. Kept(table, body, thread[t]) => Kept(table', body', thread'[t])
    BY <2>1 DEF Kept
  <2>4. QED
    BY <1>1, <2>1, <2>2, <2>3, GQuietLemma
<1>9. CASE ReadAllStep(t)
  <2>1. PICK n \in Nat, d \in CallOf :
                 /\ n <= body[thread[t].h].left
                 /\ body' = [body EXCEPT ![thread[t].h].left = @ - n]
                 /\ thread' = [thread EXCEPT ![t] = d]
                 /\ d = Idle \/ (d.at = "readall" /\ d.h = thread[t].h /\ d.h2 = thread[t].h2)
    BY <1>9, TurnLemma
  <2>2. thread[t].at = "readall" /\ thread[t].h \in Handles /\ UNCHANGED <<table, misused, crashed>>
    BY <1>9, TurnLemma
  <2>3. \A k \in Handles : body'[k].exists = body[k].exists
    BY <2>1, <2>2, DrainLemma DEF TInv
  <2>4. thread'[t] = d
    BY <2>1 DEF TInv
  <2>5. Follows(thread[t], d)
    BY <2>1, <2>2, GIdleLemma DEF Follows, ClosingSteps
  <2>6. Kept(table, body, thread[t]) => Kept(table', body', d)
    <3>1. CASE d = Idle
      BY <3>1, GIdleLemma
    <3>2. CASE d # Idle
      BY <2>1, <2>2, <3>2 DEF Kept
    <3>3. QED
      BY <3>1, <3>2
  <2>7. QED
    BY <1>1, <2>2, <2>3, <2>4, <2>5, <2>6, GQuietLemma
<1>10. CASE NewHandle(t)
  <2>1. \A k \in Handles : table[k] = "open" => table'[k] = "open" /\ body'[k].exists = body[k].exists
    BY <1>10 DEF NewHandle, TInv
  <2>2. UNCHANGED <<misused, crashed>> /\ thread'[t] = Idle
    BY <1>10, ThreadLemma DEF NewHandle
  <2>3. QED
    BY <1>1, <2>1, <2>2, GIdleLemma, GQuietLemma
<1>11. CASE Destuct(t)
  <2>1. /\ UNCHANGED <<table, body, misused, crashed>>
        /\ thread[t].at = "destuct" /\ thread'[t].at = "remove"
        /\ thread'[t].h = thread[t].h /\ thread'[t].h2 = thread[t].h2
    BY <1>11, ThreadLemma DEF Destuct
  <2>2. Follows(thread[t], thread'[t])
    BY <2>1 DEF Follows, ClosingSteps
  <2>3. Kept(table, body, thread[t]) => Kept(table', body', thread'[t])
    BY <2>1 DEF Kept
  <2>4. QED
    BY <1>1, <2>1, <2>2, <2>3, GQuietLemma
<1>12. CASE Deletes(t)
  <2> DEFINE h == thread[t].h
  <2>1. /\ thread[t].at = "remove" /\ thread'[t].at = "release" /\ h # Null
        /\ thread'[t].h = thread[t].h /\ thread'[t].h2 = thread[t].h2
        /\ table' = [table EXCEPT ![h] = "closed"] /\ UNCHANGED <<body, misused, crashed>>
    BY <1>12, ThreadLemma DEF Deletes, Valid
  <2>2. SUFFICES ASSUME ~misused PROVE GInv'
    BY <2>1 DEF GInv
  <2>3. /\ ~crashed
        /\ \A u \in Threads : Kept(table, body, thread[u])
        /\ \A u, v \in Threads : u # v => Apart(thread[u], thread[v])
    BY <2>2 DEF GInv
  <2>4. \A k \in Handles \ {h} : table'[k] = table[k]
    BY <2>1 DEF TInv
  <2>5. ASSUME NEW u \in Threads PROVE Kept(table', body', thread'[u])
    <3>1. CASE u = t
      BY <2>1, <3>1 DEF Kept
    <3>2. CASE u # t
      <4>1. /\ thread'[u] = thread[u] /\ Kept(table, body, thread[u]) /\ Apart(thread[t], thread[u])
            /\ thread[u].h \in HandleOrNull /\ thread[u].h2 \in HandleOrNull
        BY <1>1, <2>3, <3>2 DEF TInv, CallOf
      <4>2. thread[u].at # "idle" => thread[u].h # h /\ thread[u].h2 # h
        BY <2>1, <4>1 DEF Apart, ClosingSteps
      <4>3. QED
        BY <2>1, <2>4, <4>1, <4>2 DEF Kept, HandleOrNull
    <3>3. QED
      BY <3>1, <3>2
  <2>6. Follows(thread[t], thread'[t])
    BY <2>1 DEF Follows, ClosingSteps
  <2>7. ASSUME NEW u \in Threads, NEW v \in Threads, u # v
        PROVE  Apart(thread'[u], thread'[v])
    <3>1. CASE u = t
      BY <1>1, <2>3, <2>6, <2>7, <3>1, ApartLemma
    <3>2. CASE v = t
      BY <1>1, <2>3, <2>6, <2>7, <3>2, ApartLemma
    <3>3. CASE u # t /\ v # t
      BY <1>1, <2>3, <2>7, <3>3
    <3>4. QED
      BY <3>1, <3>2, <3>3
  <2>8. QED
    BY <2>1, <2>3, <2>5, <2>7 DEF GInv
<1>13. QED
  BY <1>2, <1>3, <1>4, <1>5, <1>6, <1>7, <1>8, <1>9, <1>10, <1>11, <1>12 DEF ThreadStep

\* The rules are kept at first.
LEMMA GInitLemma == Init => GInv
<1>1. \A c : Apart(Idle, c)
  BY IdleLemma DEF Apart, ClosingSteps
<1>2. QED
  BY <1>1, GIdleLemma DEF Init, GInv

\* And in every step, unless the application breaks one.
LEMMA GNextLemma == TInv /\ GInv /\ [Next]_vars => GInv'
<1>1. SUFFICES ASSUME TInv, GInv, [Next]_vars PROVE GInv'
  OBVIOUS
<1>2. CASE UNCHANGED <<table, body, thread, misused, crashed>>
  BY <1>1, <1>2 DEF GInv
<1>3. QED
  BY <1>1, <1>2, StepLemma, GStepLemma DEF ConnectionLost, vars

-----------------------------------------------------------------------------
(* The loop of ReadBodyAll *)

\* A step that takes nothing into a buffer; bodies that have been given away only
\* shrink.
LEMMA RQuietLemma ==
    ASSUME TInv, RInv, NEW t \in Threads,
           \A u \in Threads \ {t} : thread'[u] = thread[u],
           body' \in [Handles -> Body],
           \A k \in Handles : body'[k].left <= body'[k].len,
           \A k \in Handles : table[k] # "unused" =>
              body'[k].left <= body[k].left /\ body'[k].known = body[k].known,
           Fits(body', thread'[t])
    PROVE  RInv'
<1>1. ASSUME NEW u \in Threads PROVE Fits(body', thread'[u])
  <2>1. CASE u = t
    BY <2>1
  <2>2. CASE u # t
    <3> DEFINE c == thread[u]
    <3>1. thread'[u] = c /\ c \in CallOf /\ Fits(body, c) /\ CallFits(table, c)
      BY <2>2 DEF RInv, TInv
    <3>2. SUFFICES ASSUME c.at = "readall", body'[c.h].known
                   PROVE  c.readlen + body'[c.h].left <= c.buf
      BY <3>1 DEF Fits
    <3>3. c.h \in Handles /\ table[c.h] # "unused" /\ c.readlen \in Nat /\ c.buf \in Nat
      BY <3>1, <3>2 DEF CallFits, CallOf, HandleOrNull
    <3>4. c.readlen + body[c.h].left <= c.buf /\ body'[c.h].left <= body[c.h].left
      BY <3>1, <3>2, <3>3 DEF Fits
    <3>5. body[c.h].left \in Nat /\ body'[c.h].left \in Nat
      BY <3>3 DEF TInv, Body
    <3>6. QED
      BY <3>3, <3>4, <3>5
  <2>3. QED
    BY <2>1, <2>2
<1>2. QED
  BY <1>1 DEF RInv

\* A step that leaves the bodies alone, and the call is not in the loop after it.
LEMMA RIdleLemma ==
    ASSUME TInv, RInv, NEW t \in Threads,
           \A u \in Threads \ {t} : thread'[u] = thread[u],
           UNCHANGED body, thread'[t].at # "readall"
    PROVE  RInv'
BY DEF RInv, Fits

\* What is left of the bodies, in every step of a thread.
LEMMA RStepLemma ==
    ASSUME TInv, RInv, NEW t \in Threads, ThreadStep(t)
    PROVE  RInv'
<1>1. /\ \A u \in Threads \ {t} : thread'[u] = thread[u]
      /\ thread[t] \in CallOf /\ body \in [Handles -> Body]
      /\ \A k \in Handles : body[k].left <= body[k].len /\ body[k].left \in Nat /\ body[k].len \in Nat
  BY ThreadLemma DEF TInv, RInv, Body
<1>2. CASE Panics(t)
  BY <1>2 DEF Panics, Panic, RInv
<1>3. CASE Ends(t) \/ CountHandleRelease(t) \/ NewHandle(t)
  BY <1>1, <1>3, ThreadLemma, IdleLemma, RIdleLemma DEF Ends, Returns, CountHandleRelease, NewHandle
<1>4. CASE Begins(t)
  <2>1. UNCHANGED body /\ thread'[t].at # "readall"
    BY <1>4 DEF Begins, TInv
  <2>2. QED
    BY <1>1, <2>1, RIdleLemma
<1>5. CASE GoesOn(t) \/ CountHandleExport(t) \/ Destuct(t) \/ Deletes(t)
  <2>1. UNCHANGED body /\ thread'[t].at # "readall"
    BY <1>5, ThreadLemma DEF GoesOn, CountHandleExport, Destuct, Deletes
  <2>2. QED
    BY <1>1, <2>1, RIdleLemma
<1>6. ASSUME NEW h \in Handles, StartsToMake(t, h)
      PROVE  RInv'
  <2>1. thread'[t].at = "count" /\ table[h] = "unused"
    BY <1>6, ThreadLemma DEF StartsToMake, Free
  <2>2. CASE UNCHANGED body
    BY <1>1, <2>1, <2>2, RIdleLemma
  <2>3. ASSUME NEW b \in Body, b.left <= b.len, body' = [body EXCEPT ![h] = b]
        PROVE  RInv'
    <3>1. body' \in [Handles -> Body] /\ body'[h] = b /\ \A k \in Handles \ {h} : body'[k] = body[k]
      BY <1>1, <2>3
    <3>2. \A k \in Handles : body'[k].left <= body'[k].len
      BY <1>1, <2>3, <3>1
    <3>3. ASSUME NEW k \in Handles, table[k] # "unused"
          PROVE  body'[k].left <= body[k].left /\ body'[k].known = body[k].known
      <4>1. body'[k] = body[k] /\ body[k].left \in Nat
        BY <1>1, <2>1, <3>1, <3>3
      <4>2. QED
        BY <4>1
    <3>4. Fits(body', thread'[t])
      BY <2>1 DEF Fits
    <3>5. QED
      BY <1>1, <3>1, <3>2, <3>3, <3>4, RQuietLemma
  <2>4. QED
    BY <1>6, <2>2, <2>3 DEF StartsToMake
<1>7. ASSUME NEW h \in Handles, NEW n \in Nat, n <= body[h].left,
             body' = [body EXCEPT ![h].left = @ - n]
      PROVE  /\ body' \in [Handles -> Body]
             /\ body'[h].left = body[h].left - n
             /\ \A k \in Handles : body'[k].left <= body'[k].len
             /\ \A k \in Handles : body'[k].left <= body[k].left /\ body'[k].known = body[k].known
  <2>1. /\ body' \in [Handles -> Body]
        /\ body'[h].left = body[h].left - n
        /\ \A k \in Handles : /\ body'[k].left <= body[k].left /\ body'[k].len = body[k].len
                              /\ body'[k].known = body[k].known
    BY <1>1, <1>7, DrainLemma
  <2>2. ASSUME NEW k \in Handles PROVE body'[k].left <= body'[k].len
    <3>1. /\ body'[k].left <= body[k].left /\ body'[k].len = body[k].len /\ body[k].left <= body[k].len
          /\ body[k].left \in Nat /\ body[k].len \in Nat /\ body'[k].left \in Nat
      BY <1>1, <2>1 DEF Body
    <3>2. QED
      BY <3>1
  <2>3. QED
    BY <2>1, <2>2
<1>8. CASE Takes(t)
  <2>1. Fits(body', thread'[t])
    BY <1>8, ThreadLemma, IdleLemma DEF Fits
  <2>2. /\ body' \in [Handles -> Body]
        /\ \A k \in Handles : body'[k].left <= body'[k].len
        /\ \A k \in Handles : body'[k].left <= body[k].left /\ body'[k].known = body[k].known
    BY <1>7, <1>8, TakesLemma
  <2>3. QED
    BY <1>1, <2>1, <2>2, RQuietLemma
<1>9. CASE Loops(t)
  <2> DEFINE h == thread[t].h
  <2>1. PICK len \in Nat : /\ ~(len < ContentLength(body[h]))
                           /\ thread' = [thread EXCEPT ![t].at = "readall", ![t].buf = len, ![t].readlen = 0]
    BY <1>9 DEF Loops
  <2>2. /\ UNCHANGED body /\ h \in Handles
        /\ thread[t].at = "read"
    BY <1>9 DEF Loops, Valid, TInv, CallOf, HandleOrNull
  <2>3. thread'[t].h = h /\ thread'[t].buf = len /\ thread'[t].readlen = 0
    BY <1>1, <2>1 DEF TInv, CallOf
  <2>4. body[h].known => body[h].left <= len
    BY <1>1, <2>1, <2>2 DEF ContentLength
  <2>5. Fits(body', thread'[t])
    BY <1>1, <2>2, <2>3, <2>4 DEF Fits
  <2>6. ASSUME NEW k \in Handles PROVE body'[k].left <= body[k].left
    BY <1>1, <2>2
  <2>7. QED
    BY <1>1, <2>2, <2>5, <2>6, RQuietLemma
<1>10. CASE ReadAllStep(t)
  <2> DEFINE c == thread[t]
  <2>1. PICK n \in Nat, d \in CallOf :
                 /\ n <= body[c.h].left
                 /\ body' = [body EXCEPT ![c.h].left = @ - n]
                 /\ thread' = [thread EXCEPT ![t] = d]
                 /\ \/ d = Idle
                    \/ /\ d.at = "readall" /\ d.h = c.h /\ d.buf = c.buf
                       /\ d.readlen = c.readlen + n
    BY <1>10, TurnLemma
  <2>2. c.at = "readall" /\ c.h \in Handles
    BY <1>10, TurnLemma
  <2>3. /\ body' \in [Handles -> Body] /\ body'[c.h].left = body[c.h].left - n
        /\ \A k \in Handles : body'[k].left <= body'[k].len
        /\ \A k \in Handles : body'[k].left <= body[k].left /\ body'[k].known = body[k].known
    BY <1>7, <2>1, <2>2
  <2>4. thread'[t] = d
    BY <2>1 DEF TInv
  <2>5. Fits(body', d)
    <3>1. SUFFICES ASSUME d.at = "readall", body'[d.h].known
                   PROVE  d.readlen + body'[d.h].left <= d.buf
      BY DEF Fits
    <3>2. d.h = c.h /\ d.buf = c.buf /\ d.readlen = c.readlen + n
      BY <2>1, <3>1, IdleLemma
    <3>3. c.readlen + body[c.h].left <= c.buf
      BY <2>2, <2>3, <3>1, <3>2 DEF RInv, Fits
    <3>4. c.readlen \in Nat /\ c.buf \in Nat /\ body[c.h].left \in Nat
      BY <1>1, <2>2 DEF CallOf
    <3>5. QED
      BY <2>1, <2>3, <3>2, <3>3, <3>4
  <2>6. QED
    BY <1>1, <2>3, <2>4, <2>5, RQuietLemma
<1>11. QED
  BY <1>2, <1>3, <1>4, <1>5, <1>6, <1>8, <1>9, <1>10 DEF ThreadStep

\* What is left of the bodies, at first.
LEMMA RInitLemma == Init => RInv
<1>1. NoBody.left <= NoBody.len
  BY DEF NoBody
<1>2. QED
  BY <1>1, IdleLemma DEF Init, RInv, Fits

\* And in every step.
LEMMA RNextLemma == TInv /\ RInv /\ [Next]_vars => RInv'
<1>1. SUFFICES ASSUME TInv, RInv, [Next]_vars PROVE RInv'
  OBVIOUS
<1>2. CASE UNCHANGED <<body, thread>>
  BY <1>1, <1>2 DEF RInv
<1>3. QED
  BY <1>1, <1>2, StepLemma, RStepLemma DEF ConnectionLost, vars

\* In a body that fits, a read has bytes, the end or an error.
LEMMA FitsLemma == TInv /\ RInv => ReadBodyAllEnds
<1>1. SUFFICES ASSUME TInv, RInv, NEW t \in Threads, thread[t].at = "readall",
                      body[thread[t].h].known,
                      Reads(body[thread[t].h], thread[t].buf - thread[t].readlen) = {[n |-> 0, err |-> "nil"]}
               PROVE  FALSE
  BY DEF ReadBodyAllEnds
<1> DEFINE c == thread[t]
           b == body[c.h]
<1>2. c \in CallOf /\ CallFits(table, c) /\ Fits(body, c)
  BY <1>1 DEF TInv, RInv
<1>3. c.h \in Handles
  BY <1>1, <1>2 DEF CallFits, CallOf, HandleOrNull
<1>4. b \in Body /\ c.readlen + b.left <= c.buf
  BY <1>1, <1>2, <1>3 DEF TInv, Fits
<1>5. c.readlen \in Nat /\ c.buf \in Nat /\ b.left \in Nat
  BY <1>2, <1>4 DEF CallOf, Body
<1> DEFINE room == c.buf - c.readlen
<1>6. room \in Nat /\ b.left <= room
  BY <1>4, <1>5
<1> HIDE DEF room, b, c
<1>7. Reads(b, room) = {[n |-> 0, err |-> "nil"]}
  BY <1>1 DEF room, b, c
<1>8. \A r \in Reads(b, room) : r.err = "nil"
  BY <1>7
<1>9. ASSUME conn[b.client] # "open" \/ b.left = 0
      PROVE  [n |-> 0, err |-> "lost"] \in Reads(b, room) \/ [n |-> 0, err |-> "EOF"] \in Reads(b, room)
  BY <1>9 DEF Reads
<1>10. conn[b.client] = "open" /\ b.left # 0
  BY <1>8, <1>9
<1>11. [n |-> b.left, err |-> "EOF"] \in Reads(b, room)
  BY <1>5, <1>6, <1>10 DEF Reads
<1>12. QED
  BY <1>8, <1>11

-----------------------------------------------------------------------------
(* Theorems *)

\* The types, and the handles of the calls under way: a handle that was passed
\* has been given away, one that is being made has not, and no two calls make
\* the same one, however the steps of the exported functions overlap.
THEOREM CallsKeepHandles == Spec => []TInv
<1>1. QED
  BY TInitLemma, TNextLemma, PTL DEF Spec

\* CountHandleExport and CountHandleRelease, which every exported function calls
\* on its own, agree with the table of cgo, up to the calls that are between the
\* two, for any number of threads and whatever handles they pass.
THEOREM CountIsRight == Spec => []HandlesCounted
<1>1. NInv => HandlesCounted
  BY DEF NInv
<1>2. QED
  BY <1>1, NInitLemma, NNextLemma, CallsKeepHandles, PTL DEF Spec

\* The Destuct and the Delete of CloseAbyssHandle, which are two steps, leave no
\* connection open without a handle and disconnect no client that is not being
\* closed, whichever threads close it and whenever the peer does.
THEOREM ConnectionsFollowHandles == Spec => []ConnectionsReleased
<1>1. CInv => ConnectionsReleased
  BY DEF CInv
<1>2. QED
  BY <1>1, CInitLemma, CNextLemma, CallsKeepHandles, PTL DEF Spec

\* An application that keeps the rules meets no panic in the exported functions,
\* though a handle is looked up, and deleted, some time after it was passed.
THEOREM KeptRulesNeverPanic == Spec => []PanicsAreMisuse
<1>1. GInv => PanicsAreMisuse
  BY DEF GInv, PanicsAreMisuse
<1>2. QED
  BY <1>1, GInitLemma, GNextLemma, CallsKeepHandles, PTL DEF Spec

\* ReadBodyAll spins for ever only on a body of unannounced length, however many
\* threads read the same body, and however large it is.
THEOREM ReadBodyAllDoesNotSpin == Spec => []ReadBodyAllEnds
<1>1. QED
  BY FitsLemma, RInitLemma, RNextLemma, CallsKeepHandles, PTL DEF Spec
=============================================================================
