------------------------------ MODULE PeerLink ------------------------------
(***************************************************************************)
(* The link to one remote host (src/net_service): its entry in the map of  *)
(* known peers, the connection attempts in both directions, the reader of  *)
(* its messages (listenAhmp), the senders (_trySend2), the cleaner, and    *)
(* the serve loop of the host that consumes the link.                      *)
(*                                                                         *)
(* A link is usable once one inbound and one outbound connection have been *)
(* authenticated.  The attempts run concurrently; each one changes the     *)
(* peer in its deferred function, under the lock of the peer, so that is   *)
(* one step.  QUIC, TLS and the handshake itself are external: an attempt  *)
(* may fail or succeed at any point.  Time is abstract: the cleaner, if it *)
(* runs, may find the peer expired at any moment.                          *)
(***************************************************************************)
EXTENDS Naturals, Sequences, FiniteSets

CONSTANTS
    Inbounds,   \* connections that the remote host opens
    Outbounds,  \* calls of ConnectAbyssAsync for the remote host
    Senders,    \* goroutines that send to the remote host
    InboxCap,   \* capacity of ahmp_decoded_ch
    CleanerRuns,\* a goroutine runs Cleaner: true in a test, false in the host
    None        \* no connection, no error

ASSUME InboxCapAssumption == InboxCap \in Nat \ {0}
ASSUME CleanerAssumption == CleanerRuns \in BOOLEAN
ASSUME NoneAssumption == None \notin Inbounds \cup Outbounds

VARIABLES
    known,      \* ContextedPeerMap.peers has the peer
    state,      \* AbyssPeer.state
    err,        \* AbyssPeer.err
    decoder,    \* the inbound connection of ahmp_decoder
    encoder,    \* the outbound connection of ahmp_encoder
    inbox,      \* ahmp_decoded_ch
    inbound,    \* progress of each PrepareAbyssInbound
    outbound,   \* progress of each PrepareAbyssOutbound
    listening,  \* the inbound connections with a running listenAhmp
    sending,    \* progress of each sender
    expired,    \* the context of the peer is canceled
    accepted,   \* abyssPeerCH: how often it holds the peer
    served,     \* how many serve loops have reported the peer to AND
    serving,    \* a serve loop is running
    crash       \* "none", or how the process has died

peer == <<state, err, decoder, encoder>>
attempts == <<inbound, outbound>>
traffic == <<inbox, listening, sending>>
host == <<accepted, served, serving, crash>>
vars == <<known, expired, peer, attempts, traffic, host>>

-----------------------------------------------------------------------------
(* Known peers *)

\* The peer enters the map once and every waiter gets it.
AppendKnownPeer ==
    /\ ~known
    /\ known' = TRUE
    /\ inbound' = [c \in Inbounds |-> IF inbound[c] = "wait" THEN "found" ELSE inbound[c]]
    /\ UNCHANGED <<outbound, expired, peer, traffic, host>>

\* The cleaner cancels the context of a peer that is inactive or old.
Cleaner ==
    /\ CleanerRuns /\ known /\ ~expired
    /\ expired' = TRUE
    /\ UNCHANGED <<known, peer, attempts, traffic, host>>

-----------------------------------------------------------------------------
(* Connection attempts *)

\* The deferred function after an error: the first error stays.
AttemptFails ==
    /\ err' = IF err = None THEN "connection" ELSE err
    /\ state' = "CLOSED"
    /\ UNCHANGED <<decoder, encoder, listening, accepted>>

InboundAccepted(c) ==
    /\ inbound[c] = "new"
    /\ inbound' = [inbound EXCEPT ![c] = "handshake"]
    /\ UNCHANGED <<known, outbound, expired, peer, traffic, host>>

\* The handshake fails before the peer is looked up: there is nothing to change.
InboundUnidentified(c) ==
    /\ inbound[c] = "handshake"
    /\ inbound' = [inbound EXCEPT ![c] = "done"]
    /\ UNCHANGED <<known, outbound, expired, peer, traffic, host>>

\* The lookup; an unknown peer is waited for.
Wait(c) ==
    /\ inbound[c] = "handshake"
    /\ inbound' = [inbound EXCEPT ![c] = IF known THEN "found" ELSE "wait"]
    /\ UNCHANGED <<known, outbound, expired, peer, traffic, host>>

InboundFails(c) ==
    /\ inbound[c] = "found"
    /\ inbound' = [inbound EXCEPT ![c] = "done"]
    /\ AttemptFails
    /\ UNCHANGED <<known, inbox, outbound, sending, expired, served, serving, crash>>

\* Mutants: an inbound connection is taken in every state; an outbound one also
\* by a closed link; each half is pushed on abyssPeerCH; none is.
AcceptsAnyInbound == TRUE
AcceptsOutboundClosed == state \in {"DISCONNECTED", "INBOUND", "CLOSED"}
HandOverEachHalf(other) == accepted' = accepted + 1
HandOverNever(other) == accepted' = accepted

\* The states in which a connection is taken; a redundant one is closed again.
AcceptsInbound == state \in {"DISCONNECTED", "OUTBOUND"}
AcceptsOutbound == state \in {"DISCONNECTED", "INBOUND"}

\* The link is pushed on abyssPeerCH by the second half that is ready.
HandOver(other) == accepted' = IF state = other THEN accepted + 1 ELSE accepted

\* The inbound half of the link is there.
InboundReady(c) ==
    /\ inbound[c] = "found"
    /\ inbound' = [inbound EXCEPT ![c] = "done"]
    /\ \/ /\ AcceptsInbound
          /\ state' = IF state = "OUTBOUND" THEN "CONNECTED" ELSE "INBOUND"
          /\ HandOver("OUTBOUND")
          /\ decoder' = c
          /\ listening' = listening \cup {c}
       \/ /\ ~AcceptsInbound
          /\ UNCHANGED <<state, accepted, decoder, listening>>
    /\ UNCHANGED <<known, err, encoder, inbox, outbound, sending, expired, served, serving, crash>>

\* Only a known peer can be connected to.
ConnectAbyssAsync(c) ==
    /\ known /\ outbound[c] = "new"
    /\ outbound' = [outbound EXCEPT ![c] = "dial"]
    /\ UNCHANGED <<known, inbound, expired, peer, traffic, host>>

OutboundFails(c) ==
    /\ outbound[c] = "dial"
    /\ outbound' = [outbound EXCEPT ![c] = "done"]
    /\ AttemptFails
    /\ UNCHANGED <<known, inbox, inbound, sending, expired, served, serving, crash>>

\* The outbound half of the link is there.  An error in the answer of the
\* remote host is held by a shadowing err, so that this step covers it too.
OutboundReady(c) ==
    /\ outbound[c] = "dial"
    /\ outbound' = [outbound EXCEPT ![c] = "done"]
    /\ \/ /\ AcceptsOutbound
          /\ state' = IF state = "INBOUND" THEN "CONNECTED" ELSE "OUTBOUND"
          /\ HandOver("INBOUND")
          /\ encoder' = c
       \/ /\ ~AcceptsOutbound
          /\ UNCHANGED <<state, accepted, encoder>>
    /\ UNCHANGED <<known, err, decoder, inbound, expired, served, serving, crash, traffic>>

-----------------------------------------------------------------------------
(* Messages *)

\* listenAhmp decodes and parses one message; the channel blocks when it is full.
ListenMessage(c) ==
    /\ c \in listening /\ Len(inbox) < InboxCap
    /\ inbox' = Append(inbox, "message")
    /\ UNCHANGED <<known, listening, sending, expired, peer, attempts, host>>

\* listenAhmp returns, after reporting a message it could not parse or because
\* the connection ends.  Its deferred function stores an err that every
\* assignment in the loop shadows.
ListenEnds(c) ==
    /\ c \in listening
    /\ \/ Len(inbox) < InboxCap /\ inbox' = Append(inbox, "INVAL")
       \/ UNCHANGED inbox
    /\ listening' = listening \ {c}
    /\ state' = "CLOSED"
    /\ err' = None
    /\ UNCHANGED <<known, decoder, encoder, sending, expired, attempts, host>>

\* _trySend2 sends the type, then the body, each with _trySend: the check of the
\* state, then the write, with no lock around the two.  Only peers that AND has
\* seen are sent to.
CheckConnected(t) ==
    /\ \/ /\ served > 0 /\ sending[t] = "idle"
          /\ sending' = [sending EXCEPT ![t] = IF state = "CONNECTED" THEN "type" ELSE "typed"]
       \/ /\ sending[t] = "typed"
          /\ sending' = [sending EXCEPT ![t] = IF state = "CONNECTED" THEN "body" ELSE "idle"]
    /\ UNCHANGED <<known, inbox, listening, expired, peer, attempts, host>>

\* The write succeeds, or it fails, which closes the link and cancels its context.
Encode(t) ==
    /\ sending[t] \in {"type", "body"}
    /\ sending' = [sending EXCEPT ![t] = IF @ = "type" THEN "typed" ELSE "idle"]
    /\ \/ UNCHANGED <<state, err, expired>>
       \/ state' = "CLOSED" /\ err' = "send" /\ expired' = TRUE
    /\ UNCHANGED <<known, decoder, encoder, inbox, listening, attempts, host>>

-----------------------------------------------------------------------------
(* The consumer: listenLoop and serveLoop of the host *)

\* A peer that is no longer connected is dropped.
ServeStart ==
    /\ accepted > 0
    /\ accepted' = accepted - 1
    /\ IF state = "CONNECTED" THEN served' = served + 1 /\ serving' = TRUE
                              ELSE UNCHANGED <<served, serving>>
    /\ UNCHANGED <<known, expired, crash, peer, attempts, traffic>>

ServeMessage ==
    /\ serving /\ inbox # <<>>
    /\ inbox' = Tail(inbox)
    /\ UNCHANGED <<known, listening, sending, expired, peer, attempts, host>>

\* The context of the peer is done: its error is printed, nil or not.
ServeExpires ==
    /\ serving /\ expired
    /\ serving' = FALSE
    /\ crash' = IF err = None THEN "nil error" ELSE crash
    /\ UNCHANGED <<known, expired, accepted, served, peer, attempts, traffic>>

-----------------------------------------------------------------------------
Init ==
    /\ known = FALSE
    /\ state = "DISCONNECTED"
    /\ err = None
    /\ decoder = None
    /\ encoder = None
    /\ inbox = <<>>
    /\ inbound = [c \in Inbounds |-> "new"]
    /\ outbound = [c \in Outbounds |-> "new"]
    /\ listening = {}
    /\ sending = [t \in Senders |-> "idle"]
    /\ expired = FALSE
    /\ accepted = 0
    /\ served = 0
    /\ serving = FALSE
    /\ crash = "none"

Attempts ==
    \/ \E c \in Inbounds : \/ InboundAccepted(c) \/ InboundUnidentified(c) \/ Wait(c)
                           \/ InboundFails(c) \/ InboundReady(c)
    \/ \E c \in Outbounds : ConnectAbyssAsync(c) \/ OutboundFails(c) \/ OutboundReady(c)

Traffic ==
    \/ \E c \in Inbounds : ListenMessage(c) \/ ListenEnds(c)
    \/ \E t \in Senders : CheckConnected(t) \/ Encode(t)

Serve == ServeStart \/ ServeMessage \/ ServeExpires

Next == crash = "none" /\ (AppendKnownPeer \/ Cleaner \/ Attempts \/ Traffic \/ Serve)

Spec == Init /\ [][Next]_vars

\* The goroutines of the attempts and of the host keep running.
FairSpec ==
    /\ Spec
    /\ WF_vars(crash = "none" /\ ServeStart)
    /\ \A c \in Inbounds :
          WF_vars(crash = "none" /\ (InboundUnidentified(c) \/ Wait(c) \/ InboundFails(c)
                                    \/ InboundReady(c)))
    /\ \A c \in Outbounds : WF_vars(crash = "none" /\ (OutboundFails(c) \/ OutboundReady(c)))

-----------------------------------------------------------------------------
(* Properties *)

\* Every variable of the link has its type.
TypeOK ==
    /\ known \in BOOLEAN /\ expired \in BOOLEAN /\ serving \in BOOLEAN
    /\ state \in {"DISCONNECTED", "INBOUND", "OUTBOUND", "CONNECTED", "CLOSED"}
    /\ err \in {None, "connection", "send"}
    /\ decoder \in Inbounds \cup {None}
    /\ encoder \in Outbounds \cup {None}
    /\ inbox \in Seq({"message", "INVAL"})
    /\ inbound \in [Inbounds -> {"new", "handshake", "wait", "found", "done"}]
    /\ outbound \in [Outbounds -> {"new", "dial", "done"}]
    /\ listening \subseteq Inbounds
    /\ sending \in [Senders -> {"idle", "type", "typed", "body"}]
    /\ accepted \in Nat /\ served \in Nat
    /\ crash \in {"none", "nil error"}

\* However many attempts run, the peer is handed to the host at most once, and
\* only complete, with a connection in each direction.  AND panics on the
\* second PeerConnected of a peer.
HandedOverOnce ==
    /\ accepted + served <= 1
    /\ accepted + served > 0 => encoder # None /\ decoder # None

\* At most one listenAhmp ever reads for the peer, and it reads from the decoder
\* of the peer, so that messages keep the order of one connection.
OneReader == listening \subseteq {decoder}

\* A closed link stays closed, also for attempts that were under way, and the
\* two connections of a link are never exchanged.
LinkIsFinal ==
    [][/\ state = "CLOSED" => state' = "CLOSED"
       /\ encoder # None => encoder' = encoder
       /\ decoder # None => decoder' = decoder]_vars

\* A link that becomes complete is served, unless it closes first.
CompleteLinkIsServed == (state = "CONNECTED") ~> (served > 0 \/ state = "CLOSED")
=============================================================================
