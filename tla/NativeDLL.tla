----------------------------- MODULE NativeDLL ------------------------------
(***************************************************************************)
(* The C interface (src/native_dll/dllmain.go): the table of cgo handles   *)
(* that the application holds, the counter that watchdog keeps of them,    *)
(* and what stays open behind a handle: abyst connections and the bodies   *)
(* of abyst responses.  Threads of the application call the exported       *)
(* functions concurrently, with any handle.                                *)
(*                                                                         *)
(* A call takes several steps, without a lock: the application passes a    *)
(* handle, the function looks it up (Value), does its work, counts the     *)
(* handle that it will return (CountHandleExport) and makes it             *)
(* (cgo.NewHandle).  CloseAbyssHandle looks the handle up, destructs its   *)
(* value, deletes the handle and counts that.                              *)
(*                                                                         *)
(* A handle is named by its kind and a number; cgo never uses one twice.   *)
(* Functions that only read (GetHash, GetHead, GetBody, GetURL, ...) are   *)
(* one action: what matters of them is which handles they take.            *)
(***************************************************************************)
EXTENDS Integers, FiniteSets

CONSTANTS
    Threads,    \* threads of the application
    MaxOf,      \* bound: the handles of each kind
    MaxHandles, \* bound: the handles that are made
    MaxBody,    \* bound: bytes of a body and of a buffer
    Closable,   \* bound: the kinds of handles that the application closes
    Null        \* the handle 0

Kinds == {"error", "resolver", "server", "host", "world", "request", "member",
          "append", "delete", "leave", "client", "response"}

EventKinds == {"request", "member", "append", "delete", "leave"}

ASSUME DLLAssumption ==
    /\ IsFiniteSet(Threads)
    /\ MaxOf \in [Kinds -> Nat] /\ MaxHandles \in Nat /\ MaxBody \in Nat /\ Closable \subseteq Kinds
    /\ Null \notin UNION {{k} \X (1..MaxOf[k]) : k \in Kinds}

VARIABLES
    table,    \* each handle: unused, open or closed
    count,    \* watchdog.handle_count
    conn,     \* the connection behind each client handle
    body,     \* what is behind each response handle
    thread,   \* the call that each thread is in
    misused,  \* history: a call has broken the rules for the application
    crashed   \* a call has panicked, which ends the process

vars == <<table, count, conn, body, thread, misused, crashed>>

Handles == UNION {{k} \X (1..MaxOf[k]) : k \in Kinds}

Kind(h) == h[1]

OpenHandles == {h \in Handles : table[h] = "open"}

-----------------------------------------------------------------------------
(* Calls *)

\* The next step of a call, its handles, the handle that it is about to return,
\* and the progress of ReadBodyAll.
Idle == [at |-> "idle", h |-> Null, h2 |-> Null, make |-> Null, buf |-> 0, readlen |-> 0]

\* cgo.Handle.Value: panics for 0 and for a handle that was deleted or never
\* made.
Valid(h) == h # Null /\ table[h] = "open"

\* A handle that cgo has not given away, and will not in a call under way.
Free(kind) ==
    {h \in Handles : Kind(h) = kind /\ table[h] = "unused" /\ \A t \in Threads : thread[t].make # h}

Panic == crashed' = TRUE /\ UNCHANGED <<table, count, conn, body, thread, misused>>

\* Return without a handle.
Returns(t) ==
    /\ thread' = [thread EXCEPT ![t] = Idle]
    /\ UNCHANGED <<table, count, conn, body, misused, crashed>>

Made == {h \in Handles : table[h] # "unused" \/ \E t \in Threads : thread[t].make = h}

\* The function goes on with the step by which it begins to make handle h.
Exports(t, step, h) ==
    /\ Cardinality(Made) < MaxHandles
    /\ thread' = [thread EXCEPT ![t].at = step, ![t].make = h]
    /\ UNCHANGED <<table, count, misused, crashed>>

CountHandleExport(t) ==
    /\ thread[t].at = "count" /\ ~crashed
    /\ count' = count + 1
    /\ thread' = [thread EXCEPT ![t].at = "new"]
    /\ UNCHANGED <<table, conn, body, misused, crashed>>

\* cgo.NewHandle, and the return of the function.
NewHandle(t) ==
    /\ thread[t].at = "new" /\ ~crashed
    /\ table' = [table EXCEPT ![thread[t].make] = "open"]
    /\ thread' = [thread EXCEPT ![t] = Idle]
    /\ UNCHANGED <<count, conn, body, misused, crashed>>

\* A handle without anything behind it that the model keeps.
ExportsPlain(t, step, kind) ==
    (\E h \in Free(kind) : Exports(t, step, h)) /\ UNCHANGED <<conn, body>>

\* marshalError: the error is a handle of its own.
marshalError(t) == ExportsPlain(t, "count", "error")

-----------------------------------------------------------------------------
(* The application *)

\* What the application may pass for a handle: any that it has been given, also
\* after it was closed, and 0, which stands for any number that is no handle.
Passed == {h \in Handles : table[h] # "unused"} \cup {Null}

ClosingSteps == {"close", "destuct", "remove", "release"}

InCall(u, h) == thread[u].at # "idle" /\ h \in {thread[u].h, thread[u].h2}

\* The rules for the application: a handle is passed while it is open and no
\* thread is closing it; it is closed while no other call has it; only an error
\* is asked for its text; the body of the response to an unknown method is not
\* read; object ids have 16 bytes.
Misuse(step, args) ==
    \/ \E h \in args : \/ ~Valid(h)
                       \/ \E u \in Threads : InCall(u, h) /\ thread[u].at \in ClosingSteps
                       \/ step = "close" /\ \E u \in Threads : InCall(u, h)
                       \/ step = "error" /\ Kind(h) # "error"
                       \/ step = "read" /\ Kind(h) = "response" /\ ~body[h].exists
    \/ step = "short"

\* A call is "close" (CloseAbyssHandle), "error" (GetErrorBody), "read" (of a
\* body), "short" (with a short object id) or any other "call".  Which function
\* that is matters when the handle is looked up.
Begin(t, step, h) ==
    /\ thread[t] = Idle /\ ~crashed
    /\ thread' = [thread EXCEPT ![t] = [Idle EXCEPT !.at = step, !.h = h]]
    /\ misused' = (misused \/ Misuse(step, IF step = "close" THEN {h} \ {Null} ELSE {h}))
    /\ UNCHANGED <<table, count, conn, body, crashed>>

BeginHost(t, hs, hr) ==
    /\ thread[t] = Idle /\ ~crashed
    /\ thread' = [thread EXCEPT ![t] = [Idle EXCEPT !.at = "host", !.h = hs, !.h2 = hr]]
    /\ misused' = (misused \/ Misuse("host", {hs, hr}))
    /\ UNCHANGED <<table, count, conn, body, crashed>>

-----------------------------------------------------------------------------
(* Functions *)

\* The handle is looked up: a panic for an invalid one, refused for one of
\* another kind, and otherwise what the function does.  Refused is
\* INVALID_HANDLE, the handle 0, or an error by err_out.
Looks(t, step, kind, refused, does) ==
    /\ thread[t].at = step /\ ~crashed
    /\ \/ ~Valid(thread[t].h) /\ Panic
       \/ Valid(thread[t].h) /\ Kind(thread[t].h) # kind /\ refused
       \/ Valid(thread[t].h) /\ Kind(thread[t].h) = kind /\ does

NewSimplePathResolver(t) ==
    /\ thread[t] = Idle /\ ~crashed
    /\ ExportsPlain(t, "count", "resolver")

\* 0 for an empty path.
NewSimpleAbystServer(t) ==
    /\ thread[t] = Idle /\ ~crashed
    /\ Returns(t) \/ ExportsPlain(t, "count", "server")

\* Bad arguments, or a mapping that exists already, give an error.
SimplePathResolver_SetMapping(t) ==
    Looks(t, "call", "resolver", marshalError(t), Returns(t) \/ marshalError(t))

Host_AppendKnownPeer(t) ==
    Looks(t, "call", "host", marshalError(t), Returns(t) \/ marshalError(t))

\* The server's handle is looked up first, then the key is parsed, then the
\* resolver's handle is looked up; any failure gives 0.
NewHost(t) ==
    Looks(t, "host", "server", Returns(t),
        \/ Returns(t)
        \/ /\ thread' = [thread EXCEPT ![t].at = "resolver"]
           /\ UNCHANGED <<table, count, conn, body, misused, crashed>>)

NewHostGoesOn(t) ==
    LET hr == thread[t].h2
    IN  /\ thread[t].at = "resolver" /\ ~crashed
        /\ \/ ~Valid(hr) /\ Panic
           \/ Valid(hr) /\ Returns(t)
           \/ Valid(hr) /\ Kind(hr) = "resolver" /\ ExportsPlain(t, "count", "host")

\* Mutant: the handle of a joined world is not counted.
JoinWorldUncounted(t) ==
    Looks(t, "call", "host", Returns(t), Returns(t) \/ ExportsPlain(t, "new", "world"))

Host_JoinWorld(t) ==
    Looks(t, "call", "host", Returns(t), Returns(t) \/ ExportsPlain(t, "count", "world"))

Host_OpenWorld(t) ==
    Looks(t, "call", "host", Returns(t), Returns(t) \/ ExportsPlain(t, "count", "world"))

\* World_WaitEvent: an event has a handle, EWorldTerminate has none.
World_WaitEvent(t) ==
    Looks(t, "call", "world", Returns(t),
        Returns(t) \/ \E kind \in EventKinds : ExportsPlain(t, "count", kind))

\* Methods that leave the handles alone; what they ask of the host is in the
\* modules WorldEvents, AbyssHost and Handshake.
Method(t, kind) == Looks(t, "call", kind, Returns(t), Returns(t))

\* Bad arguments are refused before the handle is looked up.
BadArgument(t) == thread[t].at = "call" /\ ~crashed /\ Returns(t)

SimplePathResolver_DeleteMapping(t) == BadArgument(t) \/ Method(t, "resolver")

\* Host_GetLocalAbyssURL, _GetCertificates, _OpenOutboundConnection.
Host_Methods(t) == Method(t, "host")

\* World_GetSessionID, World_GetURL.
World_Methods(t) == Method(t, "world")

WorldLeave(t) == Method(t, "world")

\* WorldPeerRequest_GetHash, _Accept, _Decline.
WorldPeerRequest_Methods(t) == BadArgument(t) \/ Method(t, "request")

\* WorldPeer_GetHash, _AppendObjects, _DeleteObjects.  An object id that is
\* shorter than 16 bytes cannot be converted to a UUID: a panic.
WorldPeer_Methods(t) == Method(t, "member") \/ Looks(t, "short", "member", Returns(t), Panic)

\* _GetHead and _GetBody of the object events, WorldPeerLeave_GetHash.
WorldPeerEvent_Methods(t) == \E kind \in {"append", "delete", "leave"} : Method(t, kind)

\* AbyssResponse_GetHeaders, _GetContentLength.
AbyssResponse_Methods(t) == Method(t, "response")

\* GetErrorBodyLength and GetErrorBody do not look at the kind of the handle
\* before they use it.
GetError(t) == Looks(t, "error", "error", Panic, Returns(t))

-----------------------------------------------------------------------------
(* CloseAbyssHandle *)

\* Mutant: the method of the client has another name too.
CloseWithoutDestuct(t) ==
    /\ thread[t].at = "close" /\ ~crashed
    /\ \/ thread[t].h = Null /\ Returns(t)
       \/ thread[t].h # Null /\ ~Valid(thread[t].h) /\ Panic
       \/ /\ Valid(thread[t].h)
          /\ thread' = [thread EXCEPT ![t].at = "remove"]
          /\ UNCHANGED <<table, count, conn, body, misused, crashed>>

\* Mutant: the method of a response has the name that is asked for; it closes a
\* Body that may be nil.
CloseDestructsResponses(t) ==
    LET h == thread[t].h
    IN  /\ thread[t].at = "close" /\ ~crashed
        /\ \/ h = Null /\ Returns(t)
           \/ /\ h # Null
              /\ ~Valid(h) \/ (Kind(h) = "response" /\ ~body[h].exists)
              /\ Panic
           \/ /\ Valid(h) /\ (Kind(h) = "response" => body[h].exists)
              /\ thread' = [thread EXCEPT ![t].at = IF Kind(h) = "client" THEN "destuct" ELSE "remove"]
              /\ UNCHANGED <<table, count, conn, body, misused, crashed>>

\* 0 is only counted, for the log.  A value with a method Destuct has it called:
\* that is a client; a response has one with another name.
CloseAbyssHandle(t) ==
    LET h == thread[t].h
    IN  /\ thread[t].at = "close" /\ ~crashed
        /\ \/ h = Null /\ Returns(t)
           \/ h # Null /\ ~Valid(h) /\ Panic
           \/ /\ Valid(h)
              /\ thread' = [thread EXCEPT ![t].at = IF Kind(h) = "client" THEN "destuct" ELSE "remove"]
              /\ UNCHANGED <<table, count, conn, body, misused, crashed>>

\* AbystClientExport.Destuct: CloseWithError.
Destuct(t) ==
    /\ thread[t].at = "destuct" /\ ~crashed
    /\ conn' = [conn EXCEPT ![thread[t].h] = "closed"]
    /\ thread' = [thread EXCEPT ![t].at = "remove"]
    /\ UNCHANGED <<table, count, body, misused, crashed>>

\* cgo.Handle.Delete: panics if another thread has deleted the handle.
Delete(t) ==
    LET h == thread[t].h
    IN  /\ thread[t].at = "remove" /\ ~crashed
        /\ \/ ~Valid(h) /\ Panic
           \/ /\ Valid(h)
              /\ table' = [table EXCEPT ![h] = "closed"]
              /\ thread' = [thread EXCEPT ![t].at = "release"]
              /\ UNCHANGED <<count, conn, body, misused, crashed>>

CountHandleRelease(t) ==
    /\ thread[t].at = "release" /\ ~crashed
    /\ count' = count - 1
    /\ thread' = [thread EXCEPT ![t] = Idle]
    /\ UNCHANGED <<table, conn, body, misused, crashed>>

-----------------------------------------------------------------------------
(* Abyst clients and responses *)

\* Host_GetAbystClientConnection: a failure is an error, but an empty hash
\* gives 0 and no error.  A client has a connection of its own.
GetAbystClientConnection(t) ==
    Looks(t, "call", "host", marshalError(t),
        \/ Returns(t) \/ marshalError(t)
        \/ \E h \in Free("client") :
              /\ Exports(t, "count", h)
              /\ conn' = [conn EXCEPT ![h] = "open"]
              /\ UNCHANGED body)

\* The peer closes a connection, or it times out.
ConnectionLost(h) ==
    /\ conn[h] = "open" /\ ~crashed
    /\ conn' = [conn EXCEPT ![h] = "lost"]
    /\ UNCHANGED <<table, count, body, thread, misused, crashed>>

\* A response that the host makes itself for a method it does not know has no
\* Body; the others have one of some length, which the peer may not announce.
NoBody == [len |-> 0, left |-> 0, known |-> TRUE, exists |-> FALSE, client |-> Null]

NewResponse(t, b) ==
    \E h \in Free("response") :
        /\ Exports(t, "count", h)
        /\ body' = [body EXCEPT ![h] = b]
        /\ UNCHANGED conn

\* AbystClient_Request up to RoundTrip.
AbystClient_Request(t) ==
    Looks(t, "call", "client", marshalError(t),
        \/ NewResponse(t, NoBody)
        \/ Returns(t) \/ marshalError(t)
        \/ /\ thread' = [thread EXCEPT ![t].at = "roundtrip"]
           /\ UNCHANGED <<table, count, conn, body, misused, crashed>>)

\* RoundTrip returns a response, or an error, which it does at once when
\* the connection is lost or another thread has closed the client.
RoundTrip(t) ==
    /\ thread[t].at = "roundtrip" /\ ~crashed
    /\ \/ /\ conn[thread[t].h] = "open"
          /\ \E len \in 0..MaxBody, known \in BOOLEAN :
                NewResponse(t, [len |-> len, left |-> len, known |-> known,
                                exists |-> TRUE, client |-> thread[t].h])
       \/ marshalError(t)

ContentLength(b) == IF b.known THEN b.len ELSE -1

\* http.Response.Body.Read of a body with room for some bytes: nothing is left,
\* the connection is gone, or bytes, the last of them with or without EOF.
Reads(b, room) ==
    IF conn[b.client] # "open" THEN {[n |-> 0, err |-> "lost"]}
    ELSE IF b.left = 0 THEN {[n |-> 0, err |-> "EOF"]}
    ELSE IF room = 0 THEN {[n |-> 0, err |-> "nil"]}
    ELSE [n : 1..(IF room < b.left THEN room ELSE b.left), err : {"nil"}]
         \cup (IF b.left <= room THEN {[n |-> b.left, err |-> "EOF"]} ELSE {})

\* AbystResponse_ReadBody with a buffer of len bytes; a response without Body
\* panics.
ReadBody(t, len) ==
    LET h == thread[t].h
    IN  Looks(t, "read", "response", Returns(t),
            \/ len = 0 /\ Returns(t)
            \/ len # 0 /\ ~body[h].exists /\ Panic
            \/ /\ len # 0 /\ body[h].exists
               /\ \E r \in Reads(body[h], len) : body' = [body EXCEPT ![h].left = @ - r.n]
               /\ thread' = [thread EXCEPT ![t] = Idle]
               /\ UNCHANGED <<table, count, conn, misused, crashed>>)

\* The loop of ReadBodyAll begins, or panics for a response without Body.
ReadsAll(t, len) ==
    \/ ~body[thread[t].h].exists /\ Panic
    \/ /\ body[thread[t].h].exists
       /\ thread' = [thread EXCEPT ![t].at = "readall", ![t].buf = len, ![t].readlen = 0]
       /\ UNCHANGED <<table, count, conn, body, misused, crashed>>

\* Mutant: the announced length is not compared with the buffer.
ReadBodyAllUnchecked(t, len) ==
    Looks(t, "read", "response", Returns(t),
        (len = 0 /\ Returns(t)) \/ (len # 0 /\ ReadsAll(t, len)))

\* AbystResponse_ReadBodyAll: BUFFER_OVERFLOW, INVALID_ARGUMENTS, or the loop.
ReadBodyAll(t, len) ==
    LET refused == len < ContentLength(body[thread[t].h]) \/ len = 0
    IN  Looks(t, "read", "response", Returns(t),
            (refused /\ Returns(t)) \/ (~refused /\ ReadsAll(t, len)))

\* One turn of the loop: EOF ends it with the length, an error with ERROR.
ReadAllStep(t) ==
    LET c == thread[t]
    IN  /\ c.at = "readall" /\ ~crashed
        /\ \E r \in Reads(body[c.h], c.buf - c.readlen) :
              /\ thread' = [thread EXCEPT ![t] = IF r.err = "nil" THEN [c EXCEPT !.readlen = @ + r.n] ELSE Idle]
              /\ body' = [body EXCEPT ![c.h].left = @ - r.n]
        /\ UNCHANGED <<table, count, conn, misused, crashed>>

-----------------------------------------------------------------------------
Init ==
    /\ table = [h \in Handles |-> "unused"]
    /\ count = 0
    /\ conn = [h \in Handles |-> "none"]
    /\ body = [h \in Handles |-> NoBody]
    /\ thread = [t \in Threads |-> Idle]
    /\ misused = FALSE /\ crashed = FALSE

Calls(t) ==
    \/ NewSimplePathResolver(t) \/ NewSimpleAbystServer(t)
    \/ \E h \in Passed, step \in {"call", "error", "read", "short"} : Begin(t, step, h)
    \/ \E h \in Passed : (h # Null => Kind(h) \in Closable) /\ Begin(t, "close", h)
    \/ Free("host") # {} /\ \E hs, hr \in Passed : BeginHost(t, hs, hr)

Functions(t) ==
    \/ SimplePathResolver_SetMapping(t) \/ SimplePathResolver_DeleteMapping(t)
    \/ NewHost(t) \/ NewHostGoesOn(t)
    \/ Host_AppendKnownPeer(t) \/ Host_OpenWorld(t) \/ Host_JoinWorld(t) \/ Host_Methods(t)
    \/ World_WaitEvent(t) \/ World_Methods(t) \/ WorldLeave(t)
    \/ WorldPeerRequest_Methods(t) \/ WorldPeer_Methods(t) \/ WorldPeerEvent_Methods(t)
    \/ GetAbystClientConnection(t) \/ AbystClient_Request(t) \/ AbyssResponse_Methods(t)
    \/ \E len \in 0..MaxBody : ReadBody(t, len) \/ ReadBodyAll(t, len)
    \/ GetError(t) \/ CloseAbyssHandle(t)

\* The later steps of a call.
Continues(t) ==
    \/ CountHandleExport(t) \/ NewHandle(t)
    \/ Destuct(t) \/ Delete(t) \/ CountHandleRelease(t)
    \/ RoundTrip(t) \/ ReadAllStep(t)

Next ==
    \/ \E t \in Threads : Calls(t) \/ Functions(t) \/ Continues(t)
    \/ \E h \in Handles : ConnectionLost(h)

Spec == Init /\ [][Next]_vars

-----------------------------------------------------------------------------
(* Properties *)

\* handle_count is ahead of the handles that are open by the calls that have
\* counted a handle and not made it, or deleted one and not counted that: it is
\* never too low, and right when no call is at that point, on every way out of
\* every function and however the calls overlap.
HandlesCounted ==
    count = Cardinality(OpenHandles) + Cardinality({t \in Threads : thread[t].at \in {"new", "release"}})

\* No abyst connection is left open without a handle, even if threads close the
\* same client, or others make requests with it: a connection that is open has
\* an open handle, or its handle is about to be returned.  And no client that the
\* application still has is disconnected by this side, unless a thread is
\* closing it.
ConnectionsReleased ==
    \A h \in Handles :
        /\ conn[h] = "open" => table[h] = "open" \/ \E t \in Threads : thread[t].make = h
        /\ conn[h] = "closed" /\ table[h] = "open" =>
              \E t \in Threads : thread[t].h = h /\ thread[t].at = "remove"

\* An application that keeps the rules (Misuse) makes no exported function panic,
\* however its calls overlap: the look-up of a handle, which comes after the call
\* began, the Delete of CloseAbyssHandle, which comes after its look-up, and
\* the use of a handle of any kind by any function.
PanicsAreMisuse == crashed => misused

\* The loop of ReadBodyAll does not spin, unless the peer has not announced the
\* length of the body and the body does not fit into the buffer.
ReadBodyAllEnds ==
    \A t \in Threads :
        LET b == body[thread[t].h]
        IN  (/\ thread[t].at = "readall"
             /\ Reads(b, thread[t].buf - thread[t].readlen) = {[n |-> 0, err |-> "nil"]})
            => ~b.known
=============================================================================
