# TLA+ models of abyss_core

abyss_core connects hosts into *worlds*. A host opens a world or joins one that
another host has opened; Abyss Neighbor Discovery (AND) then makes the members of
the world known to each other, with every pair of members agreeing on the pair of
sessions that they use. This directory holds TLA+ modules for the parts of the
program that decide this, TLC configurations that check them on small instances,
and TLAPS proofs of the central properties for any number of hosts, sessions,
worlds, connections and threads.

    tlc -workers 2 -config AND_2peers.cfg MC_AND      # one run of the list below
    tlapm ANDProofs.tla                               # the proofs of one module

## 1. The system

| Part | Source | State | Operations |
|---|---|---|---|
| World state machine | `and/world.go` | for each neighbour: one of ten states `WS_*`, the session id and creation time, the announcement counters `sjnp`, `sjnc` | one handler for each call and each message |
| AND | `and/and.go` | connected peers, worlds by local session id, event channel | the calls of `INeighborDiscovery`, all under `api_mtx` |
| Host | `host/host.go`, `host/world.go` | World objects with their event channels, join queue, running joins with their watchdogs, timers | `OpenWorld`, `JoinWorld`, `LeaveWorld`, one serve loop per peer, the event loop |
| Path resolver | `host/default_path_resolver.go` | path to local session id | set, delete, look up |
| Network service | `net_service/*.go` | known peers; for each the connection state `PNCS_*`, reader, encoder, error, activity | connection attempts in both directions, handshake, reader, senders, cleaner |
| Identities, addresses | `net_service/cert_helper.go`, `address_selector.go` | root key, handshake key, TLS key; public address | encrypt, decrypt, verify, filter |
| Messages | `ahmp/` | none | raw form, parsing |
| URLs | `aurl/` | none | formatting, parsing |
| DLL interface | `native_dll/` | handles, and what is open behind them | forwards to the host |
| Logging, test helpers | `watchdog/`, `tools/`, `and/and_diag.go` | counters | none that the protocol depends on |

How they interact:

* The network service pushes a peer on `abyssPeerCH` when a connection in each
  direction is authenticated. The host starts a serve loop for it, which reports
  the peer to AND (`PeerConnected`) and then turns every message of the peer into
  a call of AND.
* AND answers with messages to peers (`TrySend...`) and with events on `eventCh`.
  The event loop of the host turns events into World objects, join results,
  events for the application, timers, and requests to the network service.
* The application reads the events of a world with `World_WaitEvent`, answers
  member requests with `Accept` or `Decline` (calls of AND), leaves worlds, and
  publishes worlds under paths. It holds everything through handles.

What is hard about it: the serve loops, the event loop, the timers, the watchdogs
and the application all call AND concurrently and learn of each other's calls only
later, through bounded channels; messages of several peers about the same third
peer arrive in any order; sessions are replaced while others are still being
agreed on; connection attempts for one peer race in both directions; a peer that
restarts has new keys and a new port; two goroutines write on one stream without
a lock.

What correct means, part by part:

* *world state machine*: no panic; a member is ready only if both sides agreed; a
  remote session that was promised membership is held or told otherwise; sessions
  are only replaced by newer ones; events make sense to the application;
* *AND*: worlds and connections never drift apart; a join is answered exactly
  once; a world that has not joined is silent;
* *several hosts*: they do not bring one another down; members find each other and
  stay; no world keeps a member that has dropped it, unless a reset is on its way;
* *host*: the event loop survives every event; results reach their callers; timers
  neither stop nor multiply; the activity of a peer counts its memberships; no
  event is lost or reordered, and every call returns;
* *network service*: a peer is handed over once, complete, with one reader, and a
  closed link stays closed; what is served is what was sent; only the intended
  host takes a handshake, and mutual calls connect;
* *DLL interface*: handles and connections are accounted for however calls overlap,
  and no function panics on an application that keeps a few rules.

The hazards behind these are listed with their source lines in `PROJECT.json`.

## 2. Modules

| Module | Models |
|---|---|
| `ANDWorld` | `and/world.go`: each handler as an operator from a world record to its effect on the entry of every peer: the new entry, the messages to that peer, the events about it, and whether the code panics |
| `AND` (extends `ANDWorld`) | `and/and.go`: the state of AND of one or several hosts, one action per call, an open environment |
| `Membership` | what AND promises the application about a neighbour: requests, memberships and events; `AND` implements it |
| `ANDNet` (extends `AND`) | all hosts, with ordered links between them |
| `AbyssHost` (extends `AND`) | `host/`: application calls, watchdogs, serve loops, timers, event channel and event loop around the actions of `AND` |
| `WorldEvents` | the way of an event: lock, bounded `eventCh`, event loop, bounded channel of a World, threads of the application |
| `PeerLink` | `net_service/`: the link to one remote host, with the part of the serve loop that consumes it |
| `Handshake` | `net_service/`: identities, addresses, dialling and the handshake between hosts that restart |
| `Aurl` | `aurl/abyss_url.go`: formatting and parsing |
| `AhmpStream` (extends `Aurl`) | `ahmp/`, the senders, the stream, the reader and the serve loop |
| `NativeDLL` | `native_dll/dllmain.go`: handles, connections, responses, concurrent threads |
| `ANDProofs`, `ANDNetProofs`, `AbyssHostProofs`, `WorldEventsProofs`, `PeerLinkProofs`, `HandshakeProofs`, `AhmpStreamProofs`, `NativeDLLProofs` | inductive invariants and theorems |
| `MC_*` | values of the constants and symmetry for TLC |

### ANDWorld and AND

A variable of the code is a variable of the module under the same name where TLA+
allows it: `peers`, `worlds`, `join_hash`, and `entry[l][p]` for
`worlds[l].peers[p]`. A key that a map does not hold is the entry `Absent`. All
calls hold `api_mtx` from beginning to end, so a call is one step; `Call`,
`OnWorld` and `OnWorlds` lift the effects of a handler to such a step. A panic or a
nil dereference sets `fault` and the system stops.

`Locals` is the set of hosts that the module describes side by side, `peers[h]` the
connected peers of host `h`, and `HostOf[l]` the host of world `l`. The hosts share no
variable of the code. `AbyssHost` has one local host, `ANDNet` takes all hosts.

Abstractions: the creation time of a session travels with its id in every message
that carries it and is stored with it, so it is a function `TimeOf` of the id; the
wire format has milliseconds, so two sessions may have equal times and `TimeOf` is
not assumed injective. `info.Peer` is nil exactly in the two `WS_DC` states.
`sjnc` is only compared with 3 and saturates at `SjnMax` = 4. Whether a session is a
second old is a free choice (`old` in `TimerExpire`). World URLs, certificates,
texts and codes are left out. A host is not among its own peers: with one local
host its hash is no member of `Peers`, and in `ANDNet` no host connects to itself. So
the tests `PeerHash == w.local` of the handlers matter only for the lists of members
in messages (`Known` of `ANDNet`).

The environment is open: any connected peer may send any message with any session,
in any order, to any world id, and a peer may disconnect and connect again at any
time, so lost, duplicated and reordered messages are included. It is restricted
by what the code around AND guarantees, and `AbyssHost` checks these restrictions
(`DrivesAND`): `JN` and the answers of the application only reach worlds that the
application holds, timers only worlds that were opened, and a peer is only
reported as connected when it is not connected. The one assumption about remote
hosts is that a world, which sends one `JN`, gets one `JOK`; `ANDNet` checks it
(`ImplementsAND`).

`told`, `said`, `heard` and `result` are history variables. `told` is what the
events have told the application about a peer, `said` the session of a peer that
was sent `JOK` or `MEM` and not `RST` since, `heard` the sessions from which `JOK` or
`MEM` has come, `result` the join result that was reported.

`Membership` has no messages, connections or entries: for each world and peer there
is the session that the application is asked about (`pending`), the session that is
a member (`member`) and what the events have said (`view`). `AND` instantiates it with
`view` as `told`, and with `pending` and `member` read off the states of the entries
(`KeepsMembership`). So ready events come only for a request that is not withdrawn,
leave events only for members, and a request or a member gives way only to a newer
session, in calls that touch many worlds and peers at once too.

### ANDNet

Every host is a local host of `AND`, and the sessions are the worlds of all hosts.
Each call is the action of `AND` together with `Post`, which appends the messages of
the call to `net[h][p]`, the ordered stream from `h` to `p`, in the order in which the
handler sends them. Go visits the map of worlds in any order, so `PostEach`, for the
loops over all worlds, chooses one. `Receive` and `Take` are the serve loop: nothing is
assumed of a message but that another host has sent it.
A list of members names the receiver too, and the handlers skip it (`Known`).
Objects (`SOA`, `SOD`) are left out, since they change no state. Links do not break,
because the host never calls `PeerClose`. `Rounds` bounds the announcements of a
timer, `Leaving` and `Declining` which applications may do so. Only paths by which
some world joins are published.

### AbyssHost

Each call of AND is the action of module `AND` conjoined with `Emit`, which appends
the events of the call to `eventCh`. Go visits maps in any order: `Raised` is the set
of the events of a call, `Visits` the orders in which the loops over worlds and
peers can push them, and `Emit` chooses one. A call whose events do not fit in the channel waits before it starts
(`EventCap`); module `WorldEvents` has the call that waits halfway. The join queue,
the buffered result channels, the watchdog goroutine with its `select`, the
contexts, the serve loops, the timers and the event loop are separate actions.
`ContextDone` may come before or after `JoinWorld` returns, because
`Host_JoinWorld` of the DLL cancels its context after the return. The serve loop
never calls `PeerClose`, so `ServeStop` leaves AND alone, and the `PeerClose` action of
`AND` has no counterpart here.

### WorldEvents

What a call decides is in `AND`; here it is the number and kind of the events that
it pushes, one by one, while it holds `api_mtx`. The event loop takes an event,
looks its world up and then pushes on the channel of the world, which may block.
Threads of the application wait in `World_WaitEvent`, and others open, leave,
accept and decline. The events of a world are numbered, for the properties only.
All worlds here are opened ones: joins, their failures and the join that is canceled
are in `AbyssHost`, and nothing that is said of `WorldEvents` is about them.

### PeerLink

One remote host, several attempts. Each attempt changes the peer in its deferred
function under the lock of the peer, so that is one step; what happens before
(handshake, lookup) is another. Errors are modelled where they go: the attempts
keep the first error, the reader overwrites it with nil, a sender overwrites it
with its own and cancels the context. A sender checks the state and writes in two
steps, for the type and for the body. `CleanerRuns` says whether a goroutine runs
`ContextedPeerMap.Cleaner`: a test starts one, the host never does.

### Handshake

A host keeps its root key for ever and makes a handshake key, a TLS key and a port
at each start, so a key is a host and the number of a start. Cryptography is
external: what is encrypted for a key only the process that owns it decrypts, and a
binding certificate names the TLS key of the process that made it. Hosts share
machines, ports are reused, URLs and certificates may be those of an earlier start,
the public address may be set at any time, and processes crash. The shadowed
errors of `PrepareAbyssOutbound` are modelled as they are: an attempt whose answer
is missing or of another host counts as a success.

### Aurl and AhmpStream

A text is a sequence of tokens with the separators as tokens of their own, which is
what the parsers look at. A message on the stream is two items, type and body,
written by two calls without a lock. The reader decodes a body by the type it has
read: fields that the body does not have stay empty, as in CBOR, and `TryParse` then
accepts or rejects. Times lose what is below a millisecond.

### NativeDLL

A handle is unused, open or closed; cgo never uses one twice. There is no lock, so a
call is as many steps as the code has: the application passes a handle (`Begin`), the
function looks it up and does its work (`Looks`: panic for an invalid handle, refusal for
one of another kind), and if it returns a handle, it counts it (`CountHandleExport`) and
makes it (`NewHandle`). `CloseAbyssHandle` looks the handle up, closes the connection of a
client (`Destuct`), deletes the handle (`Delete`) and counts that (`CountHandleRelease`).
Between any two of them other threads close the same handle, use it, read the same body;
the peer may drop a connection at any time (`ConnectionLost`), and a round trip and the
loop of `ReadBodyAll` go on for several steps. The functions that only read or forward are
one action per kind.

Handles are passed without restriction: closed ones, 0, those of another kind. `Misuse`
states the rules for an application, at the moment of the call: it passes open
handles that no thread is closing, closes a handle that no other call has, asks only errors
for their text, reads no body of a response that has none, and passes object ids of 16
bytes. `misused` is a history variable that remembers that a rule was broken; what then
happens is modelled all the same. `Closable` bounds what is closed in a run, `MaxOf` and
`MaxHandles` what is made. `NewHost` is called while the bound on hosts is not reached.

## 3. Runs

All runs use `CHECK_DEADLOCK FALSE`: a process that has died takes no further step,
the environment may fall silent, and bounded runs come to an end.

| Run | Instance | Properties |
|---|---|---|
| `AND_2peers` | 2 peers, 1 world, 3 sessions, two of them of the same millisecond | `TypeOK`, `NoPanic`, `ConnectedEntries`, `NoDanglingCommitment`, `MutualConsent`, `JoinStaysPending`, `KeepsMembership`, `JoinResultIsFinal`, `SessionsAdvance` |
| `ANDNet_converge` | 3 hosts: one opens, two join; fair | `NoFault`, `ImplementsAND`, `MembersStay`, `MembersFindEachOther` |
| `ANDNet_resets` | 3 hosts, 4 worlds: one opens, one joins twice, one joins; a world leaves, another declines | `MembersAreHeld`, `QuietWaiting` |
| `AbyssHost_loop` | 1 peer, 1 world, 2 sessions, 1 path, 4 events | `EventLoopSurvives`, `OneTimerChain`, `DrivesAND` |
| `AbyssHost_2worlds` | 1 peer, 2 worlds, 1 session, 2 events; fair | `ActivityIsMembership`, `ResultReachesCaller` |
| `WorldEvents` | 2 worlds with a reader each, 1 caller, 1 serve loop, channels of 1; fair | `EventsInOrder`, `TerminateIsLast`, `CallsReturn`, `TerminateArrives` |
| `PeerLink_attempts` | 2 inbound, 2 outbound attempts, 2 senders; fair | `HandedOverOnce`, `OneReader`, `LinkIsFinal`, `CompleteLinkIsServed` |
| `Handshake` | 3 hosts on 2 machines, a restart, 2 dials, 1 fault; fair | `OnlyTargetTakes`, `UrlReaches`, `DialEnds`, `KnownPeersConnect` |
| `AhmpStream` | 2 senders, every type of message, 3 messages, a channel of 1; fair | `WholeMessages`, `ArrivesAsSent`, `GivesUpOnOverlap`, `WrittenIsServed` |
| `NativeDLL` | 2 threads, 5 handles, at most 1 of each kind, bodies of up to 2 bytes | `HandlesCounted`, `ConnectionsReleased`, `PanicsAreMisuse`, `ReadBodyAllEnds` |

What they show, where the names do not say it:

* `KeepsMembership` is a refinement with a mapping: AND implements `Membership`. It
  says all that `EventProtocol` says, and which steps lead from one view to the next.
* `ImplementsAND` is a refinement by extension: each host of the composition behaves
  as `AND` allows, so what is proved of `AND` holds for it, and what `AND` assumes of
  its environment is what hosts do to one another.
* `MembersFindEachOther` holds although two joins that cross are not told of each
  other: it rests on the announcements of the timer, and it fails if members that
  were introduced once are not announced (the mutant `AnnouncesIntroduced`).
* `MembersAreHeld` and `QuietWaiting` are about late resets, resets with the nil id,
  and messages to closed worlds: they may undo memberships, and never leave one
  side believing in a membership that the other side has given up. Together they say
  that membership is mutual once all messages are handled, with two exceptions, which
  `QuietWaiting` names. `MembersAreHeld` holds for any number of hosts (section 4).
* The first exception is a wait for a world that has been closed, since AND drops what is
  addressed to it.
* The second needs a third host, and a host with a world beside another that is not older
  (`Superseded`). On the instance of `ANDNet_resets` TLC finds it when the
  exception is left out of the property: host `hb` has an older world `wb` and a newer one
  `wx`, and `wc` on `hc` holds `wx`. The `MEM` of `wb` to `wc` is ignored, because `wx` is
  newer, without an answer: `wb` waits for `wc` for ever. If `wx` then leaves, `wb`
  may be introduced to `wc` once more; `wc` accepts, its `MEM` makes it a member of
  `wb`, and `wc` waits for the `MEM` that it has ignored. In the run nothing else waits:
  any other world that waits does so for one that has it as its next member.
* `HandlesCounted` and `ConnectionsReleased` hold for careless applications too. The
  counter runs ahead of the table by the calls that are between counting and making,
  or between deleting and counting. A connection may be closed, by a thread
  that is about to delete the client, or lost, while its handle is still open.
* `PanicsAreMisuse` is what an application can rely on: the rules are checked when a
  call begins, the panics come steps later, after other threads have begun calls of
  their own. Without the rule that a handle is closed only while no other call has it, the
  look-up of the other call panics, or the `Delete` of the slower of two closing threads.
* `CallsReturn` holds even with channels of one element, if each world is read by a
  thread that does nothing else. One thread that reads two worlds, or reads and
  calls, can wait for ever for an event that its own waiting holds up.
* `GivesUpOnOverlap`: two sends that overlap do end the reader (two types in a row
  are no message), but they never produce a wrong message (`WholeMessages`), and
  nothing else ends it.
* `DialEnds`: an attempt can wait for ever for a host that does not recognise it,
  one that has restarted or does not know the caller, and for nobody else.
* `KnownPeersConnect` allows for the crash in which `address_selected[0]` meets an
  empty list.

Two runs refute what a comment of the repository says; the findings in
`PROJECT.json` quote the lines.

| Run | Refuted | In short |
|---|---|---|
| `AbyssHost_canceled` | `CanceledJoinFails` | a join canceled before its target is connected reports no result; the event loop panics on the leave event |
| `Handshake_twodials` | `EndsHoldOneConnection` | two dials to one peer are both answered, and the two ends may keep different connections |

Why the bounds are enough to be interesting: two peers let one introduce the other
(`JOK` lists, `JNI`, `SJN`, `CRR`); two sessions with different times let a peer
restart in the middle of an agreement, a third one brings the tie of two sessions in one
millisecond; two worlds of a host let one
activity counter serve two memberships, and the reset of a pending join hit a member of the
same host; three hosts are the least number with an
introduction between hosts that did not call each other. Five handles are a resolver, a server and a host with two
more: a world and its event, or a client and its response. Two threads are
the least with a call between two steps of another; the theorems about `NativeDLL` are for
any number. Four events let the
channel hold a join result, its first request, a leave and a timer request, and
fill up. Channels of capacity 1 fill up at once, so every wait that a larger one
permits happens. Two attempts in each direction are the least with a redundant one.
One fault is enough for a crash with a restart, a lost connection or a failing
dial in the middle of the other host's attempt. Bodies of 2 bytes can be read in
one or in two pieces, and be shorter than, equal to or longer than a buffer.

Fairness. Everywhere it is the fairness of goroutines and threads that are ready to
run:

* `FairHostSpec` (`AbyssHost`): the event loop and the goroutine waiting in
  `OpenWorld` or `JoinWorld`; nothing of peers, timers, contexts or the application.
* `FairSpec` of `PeerLink`: the goroutine of each attempt (which ends, by success or
  by the timeouts of QUIC) and the listen loop that starts serve loops.
* `FairNetSpec` of `ANDNet`: some link comes up, some message is handled, some
  application accepts or some timer expires, as long as one of them can; links are
  made and timers requested by the code itself, and accepting is what the
  property asks of an application. No application need open, join or leave.
* `FairSpec` of `WorldEvents`: the event loop, every call that has begun and the
  readers run; taking `api_mtx` is strongly fair, since `sync.Mutex` hands the lock
  to a goroutine that has waited for a millisecond.
* `FairSpec` of `AhmpStream`: the reader and the serve loop. Nothing of the senders.
* `FairSpec` of `Handshake`: the goroutines of each attempt at both ends, and the
  readers. Nothing of who starts, calls, crashes or learns certificates.

## 4. Proofs

All theorems are for any values of the constants that satisfy the named assumptions
of the modules (non-empty capacities, `Nil` or `None` is no member, creation times are
positive naturals, a dial is to another host, ...).

| Theorem | States |
|---|---|
| `ANDProofs` | |
| `Invariance` | the inductive invariant `IInv` |
| `TypeCorrect`, `PanicFree`, `EntriesFollowConnections`, `EventsMakeSense` | `TypeOK`, `NoPanic`, `ConnectedEntries`, `EventProtocol` |
| `CommitmentsKept`, `Consent`, `JoinsStayPending` | `NoDanglingCommitment`, `MutualConsent`, `JoinStaysPending` |
| `UnjoinedIsSilent` | `UnjoinedWorldIsSilent` (in `AND`, in no run of its own) |
| `ResultIsFinal`, `NewerSessionsOnly` | the action properties `JoinResultIsFinal`, `SessionsAdvance` |
| `MembershipKept` | the refinement `KeepsMembership` |
| `ANDNetProofs` | |
| `NetInvariance` | the inductive invariant `IInv /\ NInv` of all hosts and links |
| `HostsImplementAND` | the refinement `ImplementsAND` |
| `NobodyFails`, `MembersHeld` | `NoFault`, `MembersAreHeld` |
| `HostsAreSound` | every property of `ANDProofs` for the hosts of the composition |
| `AbyssHostProofs` | |
| `HostInvariance` | the inductive invariant `HInv` |
| `LoopSurvives`, `ActivityCounts`, `TimersAreSingle` | `EventLoopSurvives`, `ActivityIsMembership`, `OneTimerChain` |
| `HostDrivesAND` | the refinement `DrivesAND` |
| `WorldEventsProofs` | |
| `Invariance`, `InOrder` | the inductive invariant, `EventsInOrder` |
| `TerminateLast` | the action property `TerminateIsLast` |
| `PeerLinkProofs` | |
| `IInvInvariant`, `TypeCorrect` | the inductive invariant, `TypeOK` |
| `HandedOver`, `SingleReader` | `HandedOverOnce`, `OneReader` |
| `Final` | the action property `LinkIsFinal` |
| `HandshakeProofs` | |
| `IInvInvariant`, `InboundHalfIsGenuine` | the inductive invariant, `OnlyTargetTakes` |
| `UrlsLeadToTheirHosts` | `UrlReaches` |
| `AhmpStreamProofs` | |
| `Invariance`, `MessagesAreWhole` | the inductive invariant, `WholeMessages` |
| `MessagesArriveAsSent`, `OnlyOverlapEndsReader` | `ArrivesAsSent`, `GivesUpOnOverlap`, given `UrlsReadBack` |
| `NativeDLLProofs` | |
| `CallsKeepHandles` | the inductive invariant `TInv` of the handles in calls under way |
| `CountIsRight`, `ConnectionsFollowHandles` | `HandlesCounted`, `ConnectionsReleased`, for careless applications too |
| `KeptRulesNeverPanic` | `PanicsAreMisuse` |
| `ReadBodyAllDoesNotSpin` | `ReadBodyAllEnds` |

*ANDProofs.* None of the properties is inductive alone: `MutualConsent` at
`WS_RMEM` -> `WS_MEM` needs to know that `MEM` had arrived when the entry became `WS_RMEM`;
`NoPanic` needs the entries to follow the connections; silence of unjoined worlds
needs the states that their entries can be in. `IInv` is the conjunction of the
types, `NoPanic`, `EntryOK` for every entry (what was told, promised and heard last, given the
state of the entry) and `WorldOK` for every world (its entries fit the connections
and its join). The proof follows the layers of the model:

1. what one message or event does to the history variables (`SayLemma`,
   `EventLemma`, `RaisesLemma`);
2. effects on one entry are `Sound`: they preserve `EntryOK`, do not panic and report
   a failed join exactly when the entry stops being the target (`ClearSound`,
   `RenewedSound`, `JNI_MEMS_Sound`, ...);
3. every handler is sound for all entries of its world (`JN_Sound`, `MEM_Sound`,
   `AcceptSound`, ...), and silent where the world has not joined;
4. a step made of sound effects preserves `IInv` (`StepLemma`, `CallLemma`), so every
   action does (`NextLemma`).

`SessionsAdvance` is an action property and needs less: in every state an entry that
a handler renews has no session or an older one (`NewSessionAdvances`,
`OtherHandlersAdvance`, `ListHandlersAdvance`).

`KeepsMembership` is proved from `IInv` before and after a step, from `SessionsAdvance`,
and from what a step may do to one entry and its view (`Lawful`: only a session that
waits becomes a member, a member never waits again, an entry that is given up is
reported if it was a member and only then). Each handler is lawful for all entries of
its world (`NewSessionLawful`, `OtherHandlersLawful`, `ListHandlersLawful`), hence each
step is (`LawfulLemma`), and a lawful step is a step of `Membership` (`MembershipStep`).

*ANDNetProofs.* In `AND` the environment may send anything, so two facts that the
program needs cannot be proved there: a world gets at most one `JOK`, and nobody is
asked to introduce a session that it is not connected to (the nil `Peer` of
`CRR_MEMS`). Both are facts about messages of other hosts, sent long ago. `NInv` says
what they rest on:

* `CallsOK`: nothing has failed, what is published has joined, the path that a world
  joins leads to the host of its target, and no host is a peer of itself;
* `LinksOK`: for every message on its way, what its type says of its sender and its
  receiver (`WireOK`): the sending world is one of the sender, a `JN` and a `JOK` fit the
  join target, a `JNI` is not about its receiver, an `SJN` lists peers that the sender
  is connected to, and a `CRR` asks only for peers that the asked host is connected to;
* `EntriesOK`: an entry in state `JN` holds a session that joins this world, and a
  session that was heard of belongs to the peer of its entry;
* `JoinOnce`: of a world that joins there is at most one join request on its way, entry
  that holds it or answer on its way, and only while the answer has not arrived;
* `CommitsKept`: a world whose `JOK` or `MEM` is on its way still stands by it, or its
  reset follows the message on the same link;
* `HearsBack`: a world that has heard `JOK` or `MEM` of another one is still held by it,
  or the reset is on its way.

The argument has four layers. A handler is `Modest`: it sends
messages of certain types only, takes a session into state `JN` or a hearing state
only if it is one of those allowed, and does not meet a nil peer. The effects of a modest handler on all worlds,
with the message that was taken, form a `Step`: links move by appending and taking
(`Moves`), what is sent fits the sender (`Fits`), what is stored follows what was there
(`Succeeds`). Each conjunct of `NInv` is preserved by a `Step` (`LinksStep`, `EntriesStep`,
`CommitsStep`, `HearsStep`, and `TokenStep` with `JoinStep` for `JoinOnce`). Finally each
action of `ANDNet` is such a step and a step of `AND` (`NetStep`, `NetNextLemma`), which is
the refinement too. `IInv` is needed for `NInv` and the other way round, so they are
proved together; `MembersAreHeld` is `HearsBack` with what `IInv` says of commitments.
TLC has checked `NInv` on small instances first. Assumed are that every host is a peer and every session a world
(`ClosedAssumption`), that there are finitely many (`NetFiniteAssumption`: the loops
over worlds have orders), and that a world joins one of another host
(`JoinAssumption`).

*AbyssHostProofs.* The event loop lags behind AND: between the decision of AND and
the event loop lies the channel, with events of several calls, worlds and peers.
No property of the host is inductive without a statement about what is in it. A
count of events by kind is not enough, because an event may arrive at a World that
an event before it creates or destroys. `Leads(eventCh, Seen, Due)` says that the
events on their way, handled one by one, lead from what the event loop has (`Seen`:
its World objects, the view of the application, the joins answered) to what AND
has decided (`Due`, read off the variables of AND), and that each event can be
handled when its turn comes (`Handled`). What may be pushed next is then known from
`Due`, and `IInv` of AND holds there. `HInv` adds the types, `EventOK` of every event,
`Joined` (what the application holds is of joined worlds), `TimerChain` of every
world and the activity counters. The proof:

1. `Leads` splits and joins with the sequence (`LeadsConcat`, `LeadsTail`);
2. every handler of AND is `Tidy`: at most two events about a peer, in an order that
   makes sense, with the answer to a join first (`HandlersTidy`, `ListHandlersTidy`);
3. hence in whatever order the maps are visited, the events of a call lead from
   `Due` to the new `Due` (`WayStep`, `VisitLemma`, `PushLemma`, `EmitStep`): the step
   that makes the order of Go's maps harmless;
4. the calls of the host are calls that AND expects (`Drives`), which is also the
   refinement step;
5. each action of the callers, serve loops, timers and of the event loop
   (`OpenStep`, `ServeStep`, `TimerStep`, `PeerEventStep`, ...).

Counting ready worlds needs `FiniteAssumption`: a host has finitely many worlds.

*WorldEventsProofs.* `EventsInOrder` (what the application has read, the channel of
the world, the event in the hands of the event loop and `eventCh` hold consecutive
numbers) needs to know who may push: `Locking` says that one thread at a time does,
and for which world. `LastIsLeave` says that once the leave event of a world was
pushed nothing can be pushed for it, and `Found` that the event loop has the world
of every event in the channel, or will have it before that event. `Found` is a part of the
argument and no result of its own: it is about worlds that are opened. For joins the
event loop is in `AbyssHost`, where the canceled join is the exception (`AbyssHost_canceled`).

*AhmpStreamProofs.* Two calls write a message. `Written` says that a body is only
written after its type and in the order of the sender, `Paired` that as long as the
reader reads on, every type it has read is followed by its own body, `Taken` that
what is in the channel or served is whole and in order.
That the fields of a message come out as they went in rests on the URLs in it:
`UrlsReadBack` is the hypothesis that a URL that the host formats is read back by
`TryParse`. It is about the recursive parsers of `Aurl`, whose induction over texts
is out of reach of the prover. The run `AhmpStream` checks it with `ArrivesAsSent`: its
messages carry URLs with no, one and two addresses of both kinds, and the mutant
`AddrStringPlain`, which breaks the reading back, breaks the property.

*PeerLinkProofs.* The state of a peer says which halves it holds (`Halves`), and it
has been handed over at most once, and only with both halves; so an attempt that
completes a link is the only one to do so.

*HandshakeProofs.* `Genuine(d)`: what was sent on connection `d` is encrypted for the
target of the dial and bound to its caller, and a connection that is past
decryption has reached the target. The process that decrypts owns the key, so a
half that is taken is genuine. Crashes and restarts only close connections. For
`UrlReaches` the ports of running processes on one machine differ (`PortsDiffer`), and
the filter of addresses keeps one of the machine of the host.

*NativeDLLProofs.* `StepLemma` sorts the steps of all exported functions into kinds
(`ThreadStep`): a panic with its reason, the end of a call, its beginning, the start of
making a handle, each of the steps of making and closing one, and a turn of the
reading loop. Each invariant is then shown for each kind, with what the calls of the other
threads say of the shared state:

* `TInv`: what a call was passed has been given away, what it is making has not, and no
  two calls make the same handle. So `NewHandle` adds one to the open handles;
* `NInv`: `HandlesCounted`, and the open handles are finitely many, so that they can be
  counted. Each of the four steps that move the counter or the table moves the set of the
  calls in between as well; a `Delete` that comes second panics instead;
* `CInv`: `ConnectionsReleased`, and a thread that is about to delete a client has
  closed its connection, so `Delete` leaves none behind;
* `GInv`: as long as no rule was broken, the handles of every call are open until its last
  step (`Kept`) and no call has a handle that another one is closing (`Apart`). `Kept` alone
  is not inductive: `Delete` of another thread would break it. The rules are only about
  the moment at which a call begins, so that they hold later is what is proved;
* `RInv`: what a thread has read and what is left of an announced body fit into its
  buffer; other threads that read the same body only make less of it left.

Only model-checked: `QuietWaiting`, for three hosts (section 3); `MembersStay`,
which needs that nobody leaves or declines and an invariant about all the sessions
that were ever stored for a peer; `UrlsReadBack`, an induction over texts; and all
liveness properties, which are out of reach of the prover.

## 5. Not modelled, and what the models show without a run

Behaviours that the models contain and that no property excludes, because the code
neither promises nor prevents them:

* the watchdog of `JoinWorld` may close a world that was just returned
  (`WatchdogCloses`), and the world of a declined join is never closed;
* a member may be requested again before the first request is answered;
* the reader of a link stores a nil error over that of a failed send, and the serve
  loop of the expired peer dereferences it (`PeerLink.ServeExpires`);
* a failed outbound attempt yields no peer, and closes a link that is in use;
* a nil `Peer` that `CRR_MEMS` may meet in a `WS_DC_JNI` entry if a peer does not
  follow the protocol (`fault` = "nilpeer"; hosts do not cause it: theorem `NobodyFails`);
* the reset of a pending join carries the nil id and resets every world;
* a handle that is closed twice, or closed while another call has it, is a panic in the
  DLL (`NativeDLL.Delete`, `Looks`): the application has to order its calls;
* a `MEM` of an older session is ignored without an answer (`QuietWaiting`, section 3);
* the body of a response is never closed (`Destruct` is not `Destuct`).

Not modelled:

* the time between the look-up of a path and the call of AND for a join request
  (`AbyssHost.Serve`): AND looks its world up again, under its lock;
* in `ANDNet`, late answers to a request that has been answered or replaced; `AND` has them;
* the count of null handles passed to `CloseAbyssHandle`, which is only logged;
* shutdown through contexts, and the waiting of `ListenAndServe` for its loops;
* the HTTP/3 server and client behind abyst connections, beyond success, failure
  and the reading of bodies;
* `TimeoutContextGroup`, which is not used, `CheckSanity`, which is never called,
  `aurl/aurl.go`, which is commented out, and the pre-accept handler, which is stored
  and never asked;
* cryptography, CBOR and certificate encoding (external), texts and codes;
* buffers of the DLL with negative or wrong lengths, which only the C side can judge;
* statistics, logging and test tools.

## 6. What could follow

1. `MembersStay` as a theorem: with one world per host it should follow from `SessionsAdvance`
   and an invariant that excludes resets, with several it does not hold.
2. Shutdown: the host context ends while calls wait on channels.
