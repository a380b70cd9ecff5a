--------------------------- MODULE PeerLinkProofs ---------------------------
(***************************************************************************)
(* Proofs about PeerLink, for any number of connections and senders.       *)
(*                                                                         *)
(* That the peer is handed over at most once is not inductive: the second  *)
(* half is recognised by the state, which a closed link forgets.  Halves   *)
(* ties the state to the two connections, which are never given up, and    *)
(* the count of hand-overs to the same two.                                *)
(***************************************************************************)
EXTENDS PeerLink, TLAPS

\* In every state but CLOSED the halves that are there are the ones that the
\* state names; the peer is handed over when the second one comes.
Halves ==
    /\ state = "DISCONNECTED" => decoder = None /\ encoder = None
    /\ state = "INBOUND" => decoder # None /\ encoder = None
    /\ state = "OUTBOUND" => decoder = None /\ encoder # None
    /\ state = "CONNECTED" => decoder # None /\ encoder # None
    /\ accepted + served <= IF decoder # None /\ encoder # None THEN 1 ELSE 0

IInv == TypeOK /\ Halves /\ OneReader

USE NoneAssumption DEF AcceptsInbound, AcceptsOutbound, HandOver

LEMMA InitIInv == Init => IInv
<1> SUFFICES ASSUME Init PROVE IInv
  OBVIOUS
<1>1. TypeOK
  <2>1. accepted \in Nat /\ served \in Nat /\ inbox \in Seq({"message", "INVAL"})
    BY DEF Init
  <2> QED
    BY <2>1 DEF Init, TypeOK
<1>2. Halves /\ OneReader
  BY DEF Init, Halves, OneReader
<1> QED
  BY <1>1, <1>2 DEF IInv

-----------------------------------------------------------------------------
\* The parts of the type invariant that leaves with arithmetic or sequences cite.
LEMMA Counts == TypeOK => accepted \in Nat /\ served \in Nat
BY DEF TypeOK

LEMMA InboxType == TypeOK => inbox \in Seq({"message", "INVAL"})
BY DEF TypeOK

LEMMA StateType ==
    TypeOK => state \in {"DISCONNECTED", "INBOUND", "OUTBOUND", "CONNECTED", "CLOSED"}
BY DEF TypeOK

\* Every action keeps the types.
LEMMA TypeStep == TypeOK /\ Next => TypeOK'
<1> SUFFICES ASSUME TypeOK, Next PROVE TypeOK'
  OBVIOUS
<1>1. CASE AppendKnownPeer
  BY <1>1 DEF TypeOK, AppendKnownPeer, peer, traffic, host
<1>2. CASE Cleaner
  BY <1>2 DEF TypeOK, Cleaner, peer, attempts, traffic, host
<1>3. ASSUME NEW c \in Inbounds,
             InboundAccepted(c) \/ InboundUnidentified(c) \/ Wait(c)
      PROVE  TypeOK'
  BY <1>3 DEF TypeOK, InboundAccepted, InboundUnidentified, Wait, peer, traffic, host
<1>4. ASSUME NEW c \in Inbounds, InboundFails(c) PROVE TypeOK'
  BY <1>4 DEF TypeOK, InboundFails, AttemptFails
<1>5. ASSUME NEW c \in Inbounds, InboundReady(c) PROVE TypeOK'
  <2>1. accepted' \in Nat
    BY <1>5, Counts DEF InboundReady
  <2>2. /\ state' \in {"DISCONNECTED", "INBOUND", "OUTBOUND", "CONNECTED", "CLOSED"}
        /\ inbound' \in [Inbounds -> {"new", "handshake", "wait", "found", "done"}]
        /\ decoder' \in Inbounds \cup {None}
        /\ listening' \subseteq Inbounds
    BY <1>5 DEF TypeOK, InboundReady
  <2> QED
    BY <1>5, <2>1, <2>2 DEF TypeOK, InboundReady
<1>6. ASSUME NEW c \in Outbounds, ConnectAbyssAsync(c) PROVE TypeOK'
  BY <1>6 DEF TypeOK, ConnectAbyssAsync, peer, traffic, host
<1>7. ASSUME NEW c \in Outbounds, OutboundFails(c) PROVE TypeOK'
  BY <1>7 DEF TypeOK, OutboundFails, AttemptFails
<1>8. ASSUME NEW c \in Outbounds, OutboundReady(c) PROVE TypeOK'
  <2>1. accepted' \in Nat
    BY <1>8, Counts DEF OutboundReady
  <2>2. /\ state' \in {"DISCONNECTED", "INBOUND", "OUTBOUND", "CONNECTED", "CLOSED"}
        /\ outbound' \in [Outbounds -> {"new", "dial", "done"}]
        /\ encoder' \in Outbounds \cup {None}
    BY <1>8 DEF TypeOK, OutboundReady
  <2> QED
    BY <1>8, <2>1, <2>2 DEF TypeOK, OutboundReady, traffic
<1>9. ASSUME NEW c \in Inbounds, ListenMessage(c) PROVE TypeOK'
  <2>1. inbox' \in Seq({"message", "INVAL"})
    BY <1>9, InboxType DEF ListenMessage
  <2> QED
    BY <1>9, <2>1 DEF TypeOK, ListenMessage, peer, attempts, host
<1>10. ASSUME NEW c \in Inbounds, ListenEnds(c) PROVE TypeOK'
  <2>1. inbox' \in Seq({"message", "INVAL"})
    BY <1>10, InboxType DEF ListenEnds
  <2>2. listening' \subseteq Inbounds
    BY <1>10 DEF TypeOK, ListenEnds
  <2> QED
    BY <1>10, <2>1, <2>2 DEF TypeOK, ListenEnds, attempts, host
<1>11. ASSUME NEW t \in Senders, CheckConnected(t) PROVE TypeOK'
  BY <1>11 DEF TypeOK, CheckConnected, peer, attempts, host
<1>12. ASSUME NEW t \in Senders, Encode(t) PROVE TypeOK'
  BY <1>12 DEF TypeOK, Encode, attempts, host
<1>13. CASE ServeStart
  <2>1. accepted' \in Nat /\ served' \in Nat
    <3>1. /\ accepted > 0 /\ accepted' = accepted - 1
          /\ served' = served + 1 \/ served' = served
      BY <1>13 DEF ServeStart
    <3> QED
      BY <3>1, Counts
  <2>2. serving' \in BOOLEAN
    BY <1>13 DEF TypeOK, ServeStart
  <2> QED
    BY <1>13, <2>1, <2>2 DEF TypeOK, ServeStart, peer, attempts, traffic
<1>14. CASE ServeMessage
  <2>1. inbox' \in Seq({"message", "INVAL"})
    <3>1. inbox # <<>> /\ inbox' = Tail(inbox)
      BY <1>14 DEF ServeMessage
    <3> QED
      BY <3>1, InboxType
  <2> QED
    BY <1>14, <2>1 DEF TypeOK, ServeMessage, peer, attempts, host
<1>15. CASE ServeExpires
  BY <1>15 DEF TypeOK, ServeExpires, peer, attempts, traffic
<1> QED
  BY <1>1, <1>2, <1>3, <1>4, <1>5, <1>6, <1>7, <1>8, <1>9, <1>10, <1>11, <1>12,
     <1>13, <1>14, <1>15 DEF Next, Attempts, Traffic, Serve

-----------------------------------------------------------------------------
\* What the other three properties need of a step.
LEMMA HalvesStep == TypeOK /\ Halves /\ Next => Halves'
<1> SUFFICES ASSUME TypeOK, Halves, Next PROVE Halves'
  OBVIOUS
<1>1. CASE AppendKnownPeer \/ Cleaner
  BY <1>1 DEF Halves, AppendKnownPeer, Cleaner, peer, host
<1>2. ASSUME NEW c \in Inbounds,
             InboundAccepted(c) \/ InboundUnidentified(c) \/ Wait(c)
      PROVE  Halves'
  BY <1>2 DEF Halves, InboundAccepted, InboundUnidentified, Wait, peer, host
<1>3. ASSUME NEW c \in Inbounds, InboundFails(c) PROVE Halves'
  BY <1>3 DEF Halves, InboundFails, AttemptFails
<1>4. ASSUME NEW c \in Inbounds, InboundReady(c) PROVE Halves'
  <2>1. CASE AcceptsInbound
    BY <1>4, <2>1, Counts, StateType DEF Halves, InboundReady
  <2>2. CASE ~AcceptsInbound
    BY <1>4, <2>2 DEF Halves, InboundReady
  <2> QED
    BY <2>1, <2>2
<1>5. ASSUME NEW c \in Outbounds, ConnectAbyssAsync(c) PROVE Halves'
  BY <1>5 DEF Halves, ConnectAbyssAsync, peer, host
<1>6. ASSUME NEW c \in Outbounds, OutboundFails(c) PROVE Halves'
  BY <1>6 DEF Halves, OutboundFails, AttemptFails
<1>7. ASSUME NEW c \in Outbounds, OutboundReady(c) PROVE Halves'
  <2>1. CASE AcceptsOutbound
    BY <1>7, <2>1, Counts, StateType DEF Halves, OutboundReady
  <2>2. CASE ~AcceptsOutbound
    BY <1>7, <2>2 DEF Halves, OutboundReady
  <2> QED
    BY <2>1, <2>2
<1>8. ASSUME NEW c \in Inbounds, ListenMessage(c) \/ ListenEnds(c) PROVE Halves'
  BY <1>8 DEF Halves, ListenMessage, ListenEnds, peer, host
<1>9. ASSUME NEW t \in Senders, CheckConnected(t) \/ Encode(t) PROVE Halves'
  BY <1>9 DEF Halves, CheckConnected, Encode, peer, host
<1>10. CASE ServeStart
  <2>1. /\ accepted' = accepted - 1
        /\ served' = served + 1 \/ served' = served
        /\ UNCHANGED peer
    BY <1>10 DEF ServeStart
  <2> QED
    BY <2>1, Counts DEF Halves, peer
<1>11. CASE ServeMessage \/ ServeExpires
  BY <1>11 DEF Halves, ServeMessage, ServeExpires, peer, host
<1> QED
  BY <1>1, <1>2, <1>3, <1>4, <1>5, <1>6, <1>7, <1>8, <1>9, <1>10, <1>11
     DEF Next, Attempts, Traffic, Serve

LEMMA ReaderStep == TypeOK /\ Halves /\ OneReader /\ Next => OneReader'
<1> SUFFICES ASSUME TypeOK, Halves, OneReader, Next PROVE OneReader'
  OBVIOUS
<1>1. CASE AppendKnownPeer \/ Cleaner
  BY <1>1 DEF OneReader, AppendKnownPeer, Cleaner, peer, traffic
<1>2. ASSUME NEW c \in Inbounds,
             InboundAccepted(c) \/ InboundUnidentified(c) \/ Wait(c) \/ InboundFails(c)
      PROVE  OneReader'
  BY <1>2 DEF OneReader, InboundAccepted, InboundUnidentified, Wait, InboundFails, AttemptFails,
              peer, traffic
<1>3. ASSUME NEW c \in Inbounds, InboundReady(c) PROVE OneReader'
  <2>1. CASE AcceptsInbound
    <3>1. decoder = None
      BY <2>1 DEF Halves
    <3>2. listening = {}
      BY <3>1 DEF TypeOK, OneReader
    <3> QED
      BY <1>3, <2>1, <3>2 DEF OneReader, InboundReady
  <2>2. CASE ~AcceptsInbound
    BY <1>3, <2>2 DEF OneReader, InboundReady
  <2> QED
    BY <2>1, <2>2
<1>4. ASSUME NEW c \in Outbounds, ConnectAbyssAsync(c) \/ OutboundFails(c) \/ OutboundReady(c)
      PROVE  OneReader'
  BY <1>4 DEF OneReader, ConnectAbyssAsync, OutboundFails, OutboundReady, AttemptFails, peer, traffic
<1>5. ASSUME NEW c \in Inbounds, ListenMessage(c) \/ ListenEnds(c) PROVE OneReader'
  BY <1>5 DEF OneReader, ListenMessage, ListenEnds, peer
<1>6. ASSUME NEW t \in Senders, CheckConnected(t) \/ Encode(t) PROVE OneReader'
  BY <1>6 DEF OneReader, CheckConnected, Encode, peer
<1>7. CASE Serve
  BY <1>7 DEF OneReader, Serve, ServeStart, ServeMessage, ServeExpires, peer, traffic
<1> QED
  BY <1>1, <1>2, <1>3, <1>4, <1>5, <1>6, <1>7 DEF Next, Attempts, Traffic

-----------------------------------------------------------------------------
\* The inductive invariant.
THEOREM IInvInvariant == Spec => []IInv
<1>1. IInv /\ [Next]_vars => IInv'
  <2>1. IInv /\ Next => IInv'
    BY TypeStep, HalvesStep, ReaderStep DEF IInv
  <2>2. IInv /\ UNCHANGED vars => IInv'
    BY DEF IInv, TypeOK, Halves, OneReader, vars, peer, attempts, traffic, host
  <2> QED
    BY <2>1, <2>2
<1> QED
  BY <1>1, InitIInv, PTL DEF Spec

\* Every variable of the link keeps its type, whatever attempts, readers,
\* senders and serve loops do.
THEOREM TypeCorrect == Spec => []TypeOK
BY IInvInvariant, PTL DEF IInv

\* However many connections are attempted, abyssPeerCH gets the peer at most
\* once, with both halves there.
THEOREM HandedOver == Spec => []HandedOverOnce
<1>1. IInv => HandedOverOnce
  <2> SUFFICES ASSUME IInv PROVE HandedOverOnce
    OBVIOUS
  <2>1. TypeOK /\ Halves
    BY DEF IInv
  <2> QED
    BY <2>1, Counts DEF Halves, HandedOverOnce
<1> QED
  BY <1>1, IInvInvariant, PTL

\* At most one listenAhmp runs, on the connection of the peer.
THEOREM SingleReader == Spec => []OneReader
BY IInvInvariant, PTL DEF IInv

\* No step opens a closed link again or exchanges one of its connections.
THEOREM Final == Spec => LinkIsFinal
<1> DEFINE Kept == /\ state = "CLOSED" => state' = "CLOSED"
                   /\ encoder # None => encoder' = encoder
                   /\ decoder # None => decoder' = decoder
<1>1. ASSUME IInv, Next PROVE Kept
  <2>1. ASSUME NEW c \in Inbounds, InboundFails(c) \/ InboundReady(c) PROVE Kept
    BY <1>1, <2>1 DEF IInv, Halves, InboundFails, InboundReady, AttemptFails
  <2>2. ASSUME NEW c \in Outbounds, OutboundFails(c) \/ OutboundReady(c) PROVE Kept
    BY <1>1, <2>2 DEF IInv, Halves, OutboundFails, OutboundReady, AttemptFails
  <2>3. ASSUME NEW c \in Inbounds, ListenEnds(c) PROVE Kept
    BY <2>3 DEF ListenEnds
  <2>4. ASSUME NEW t \in Senders, Encode(t) PROVE Kept
    BY <2>4 DEF Encode
  <2>5. CASE UNCHANGED peer
    BY <2>5 DEF peer
  <2> QED
    BY <1>1, <2>1, <2>2, <2>3, <2>4, <2>5
       DEF Next, Attempts, Traffic, Serve, AppendKnownPeer, Cleaner, InboundAccepted,
           InboundUnidentified, Wait, ConnectAbyssAsync, ListenMessage, CheckConnected,
           ServeStart, ServeMessage, ServeExpires
<1>2. IInv /\ [Next]_vars => [Kept]_vars
  BY <1>1
<1> QED
  BY <1>2, IInvInvariant, PTL DEF Spec, LinkIsFinal

=============================================================================
