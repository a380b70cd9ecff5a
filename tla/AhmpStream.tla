----------------------------- MODULE AhmpStream -----------------------------
(***************************************************************************)
(* One direction of a complete link: the goroutines of one host that send  *)
(* AHMP messages to a peer (src/net_service/abyss_peer.go), the stream,    *)
(* and the reader and the serve loop of the peer                           *)
(* (src/net_service/abyss_inbound.go, src/host/host.go).                   *)
(*                                                                         *)
(* A message is written as two CBOR items, its type and its body, each by  *)
(* an Encode of its own and without a lock: AND sends while it holds       *)
(* api_mtx, but the serve loop denies unknown paths and the application    *)
(* shares objects outside of it.  One Encode is one write on the QUIC      *)
(* stream, so items are whole.                                             *)
(*                                                                         *)
(* The items carry, for the properties only, who wrote them and as which   *)
(* message of that sender.                                                 *)
(***************************************************************************)
EXTENDS Aurl

CONSTANTS
    Senders,    \* goroutines that send to the peer
    MessagesOf, \* the messages each of them may send
    MaxSends,   \* bound: the messages of each of them
    Ms,         \* clock units of a millisecond
    ChCap,      \* capacity of ahmp_decoded_ch
    NoMsg

ASSUME StreamAssumption == MaxSends \in [Senders -> Nat] /\ ChCap \in Nat \ {0} /\ Ms \in Nat \ {0}

VARIABLES
    state,  \* AbyssPeer.state of the sending host: CONNECTED or CLOSED
    pc,     \* where each sender is in _trySend2
    cur,    \* the message it sends
    count,  \* the messages it has begun
    wire,   \* the items written so far
    got,    \* how many of them the reader has taken
    reader, \* what listenAhmp waits for: a type, the body of a type, or nothing
    ch,     \* ahmp_decoded_ch
    served, \* the messages that the serve loop has taken
    broken  \* the connection is lost

vars == <<state, pc, cur, count, wire, got, reader, ch, served, broken>>

-----------------------------------------------------------------------------
(* Messages and their raw form *)

Types == {"JN", "JOK", "JDN", "JNI", "MEM", "SJN", "CRR", "RST", "SOA", "SOD"}

Stamped == {"JN", "JOK", "MEM"}

\* The CBOR field that holds the list of a message; the one neighbour of a JNI
\* is a list of length one.
ListField(type) ==
    CASE type = "JOK" -> "Neighbors"
      [] type = "JNI" -> "Neighbor"
      [] type \in {"SJN", "CRR"} -> "MemberInfos"
      [] type = "SOA" -> "Objects"
      [] type = "SOD" -> "ObjectIDs"
      [] OTHER -> "none"

Discovery(type) == type \in {"JOK", "JNI"}

Elements == [sid : STRING, url : AURLs, time : Nat, rest : STRING]

Messages == [type : Types, ssid : STRING, rsid : STRING, time : Nat, list : Seq(Elements)]

\* What the callers of the TrySend functions pass: a UUID is never empty, and
\* a field that the message does not have is not there.
Sendable(m) ==
    /\ m.type # "JDN" => m.ssid # ""
    /\ m.type # "JN" => m.rsid # ""
    /\ m.type = "JNI" => Len(m.list) = 1
    /\ \A k \in DOMAIN m.list :
          /\ m.list[k].sid # ""
          /\ IF Discovery(m.type) THEN m.list[k].rest = ""
                                  ELSE m.list[k].url = NoAURL /\ m.list[k].time = 0

ASSUME MessageAssumption == \A s \in Senders : \A m \in MessagesOf[s] : m \in Messages /\ Sendable(m)

\* The TrySend functions: ids and URLs become text, times become milliseconds.
\* An element of a list is a neighbour (id, URL and time), a member (id and
\* peer) or an object (id and the rest).
RawElement(type, e) ==
    [sid  |-> e.sid,
     text |-> IF Discovery(type) THEN AURLToString(e.url) ELSE <<>>,
     time |-> IF Discovery(type) THEN e.time \div Ms ELSE 0,
     rest |-> IF Discovery(type) THEN "" ELSE e.rest]

Raw(m) ==
    [ssid  |-> IF m.type = "JDN" THEN "" ELSE m.ssid,
     rsid  |-> IF m.type = "JN" THEN "" ELSE m.rsid,
     time  |-> IF m.type \in Stamped THEN m.time \div Ms ELSE 0,
     field |-> ListField(m.type),
     list  |-> [k \in DOMAIN m.list |-> RawElement(m.type, m.list[k])]]

Invalid == [type |-> "INVAL", ssid |-> "", rsid |-> "", time |-> 0, list |-> <<>>]

Element(type, r) ==
    [sid  |-> r.sid,
     url  |-> IF Discovery(type) THEN TryParse(r.text) ELSE NoAURL,
     time |-> IF Discovery(type) THEN r.time * Ms ELSE 0,
     rest |-> r.rest]

\* Mutant: a nil receiver is no session id.
ParseNoNil(type, raw) ==
    IF raw.rsid = "nil" THEN Invalid
    ELSE [type |-> type, ssid |-> raw.ssid, rsid |-> raw.rsid, time |-> raw.time * Ms,
          list |-> [k \in DOMAIN raw.list |-> Element(type, raw.list[k])]]

\* Decoding a body into the raw message of a type (a field that the body does
\* not have stays empty), and TryParse.
Parse(type, raw) ==
    LET list == IF raw.field = ListField(type) THEN raw.list ELSE <<>>
        ok   == /\ type = "JDN" \/ raw.ssid # ""
                /\ type = "JN" \/ raw.rsid # ""
                /\ type = "JNI" => Len(list) = 1
                /\ \A k \in DOMAIN list :
                      list[k].sid # "" /\ (Discovery(type) => TryParse(list[k].text) # NoAURL)
    IN  IF ~ok THEN Invalid
        ELSE [type |-> type,
              ssid |-> IF type = "JDN" THEN "" ELSE raw.ssid,
              rsid |-> IF type = "JN" THEN "" ELSE raw.rsid,
              time |-> IF type \in Stamped THEN raw.time * Ms ELSE 0,
              list |-> [k \in DOMAIN list |-> Element(type, list[k])]]

\* What the body of each message is for a reader that has read each type.
Received ==
    [type \in Types |-> [m \in UNION {MessagesOf[s] : s \in Senders} |-> Parse(type, Raw(m))]]

-----------------------------------------------------------------------------
(* Senders *)

\* The items carry the message they are of; the reader looks at no more of it
\* than its type in the one and its raw form in the other.
TypeItem(s) == [kind |-> "type", from |-> s, n |-> count[s], msg |-> cur[s]]

BodyItem(s) == [kind |-> "body", from |-> s, n |-> count[s], msg |-> cur[s]]

Begin(s, m) ==
    /\ pc[s] = "idle" /\ count[s] < MaxSends[s]
    /\ pc' = [pc EXCEPT ![s] = "checkType"]
    /\ cur' = [cur EXCEPT ![s] = m]
    /\ count' = [count EXCEPT ![s] = @ + 1]
    /\ UNCHANGED <<state, wire, got, reader, ch, served, broken>>

\* _trySend reads the state without the lock; whatever becomes of the type, the
\* body is tried next.
Check(s) ==
    /\ \/ pc[s] = "checkType" /\ pc' = [pc EXCEPT ![s] = IF state = "CONNECTED" THEN "type" ELSE "checkBody"]
       \/ pc[s] = "checkBody" /\ pc' = [pc EXCEPT ![s] = IF state = "CONNECTED" THEN "body" ELSE "idle"]
    /\ UNCHANGED <<state, cur, count, wire, got, reader, ch, served, broken>>

\* Encode; an error closes the link.
Write(s, at, item, next) ==
    /\ pc[s] = at
    /\ pc' = [pc EXCEPT ![s] = next]
    /\ IF broken THEN state' = "CLOSED" /\ UNCHANGED wire
                 ELSE wire' = Append(wire, item) /\ UNCHANGED state
    /\ UNCHANGED <<cur, count, got, reader, ch, served, broken>>

EncodeType(s) == Write(s, "type", TypeItem(s), "checkBody")

EncodeBody(s) == Write(s, "body", BodyItem(s), "idle")

\* The link is closed for another reason: its own reader has ended, or a
\* further attempt has failed.
LinkCloses ==
    /\ state = "CONNECTED"
    /\ state' = "CLOSED"
    /\ UNCHANGED <<pc, cur, count, wire, got, reader, ch, served, broken>>

Break ==
    /\ ~broken
    /\ broken' = TRUE
    /\ UNCHANGED <<state, pc, cur, count, wire, got, reader, ch, served>>

-----------------------------------------------------------------------------
(* The reader and the serve loop of the peer *)

Item == wire[got + 1]

\* Decode(&ahmp_type): anything but a number ends the reader without a message.
ReadType ==
    /\ reader.at = "type" /\ got < Len(wire)
    /\ got' = got + 1
    /\ reader' = IF Item.kind = "type" THEN [at |-> "body", item |-> Item]
                                       ELSE [at |-> "ended", item |-> NoMsg]
    /\ UNCHANGED <<state, pc, cur, count, wire, ch, served, broken>>

\* What the reader makes of the item that follows a type.
Decoded(t, b) == IF b.kind = "type" THEN Invalid ELSE Received[t.msg.type][b.msg]

\* Mutant: a second type in a row begins a new message.
ReadBodyAgain ==
    /\ reader.at = "body" /\ got < Len(wire) /\ Len(ch) < ChCap
    /\ got' = got + 1
    /\ IF Item.kind = "type" THEN reader' = [reader EXCEPT !.item = Item] /\ UNCHANGED ch
       ELSE /\ ch' = Append(ch, [type |-> reader.item, body |-> Item])
            /\ reader' = [at |-> "type", item |-> NoMsg]
    /\ UNCHANGED <<state, pc, cur, count, wire, served, broken>>

\* Mutant: one slot of the channel is never used.
ReadBodyShort ==
    /\ reader.at = "body" /\ got < Len(wire) /\ Len(ch) < ChCap - 1
    /\ got' = got + 1
    /\ ch' = Append(ch, [type |-> reader.item, body |-> Item])
    /\ reader' = [at |-> IF Decoded(reader.item, Item) = Invalid THEN "ended" ELSE "type", item |-> NoMsg]
    /\ UNCHANGED <<state, pc, cur, count, wire, served, broken>>

\* Decode and TryParse of the body: the message or INVAL goes on the channel,
\* which may be full; after INVAL the reader returns.
ReadBody ==
    /\ reader.at = "body" /\ got < Len(wire) /\ Len(ch) < ChCap
    /\ got' = got + 1
    /\ ch' = Append(ch, [type |-> reader.item, body |-> Item])
    /\ reader' = [at |-> IF Decoded(reader.item, Item) = Invalid THEN "ended" ELSE "type", item |-> NoMsg]
    /\ UNCHANGED <<state, pc, cur, count, wire, served, broken>>

\* The stream ends: what is still on the way is lost.  The INVAL for a body that
\* is cut off is only logged.
ReadFails ==
    /\ broken /\ reader.at # "ended"
    /\ reader' = [at |-> "ended", item |-> NoMsg]
    /\ UNCHANGED <<state, pc, cur, count, wire, got, ch, served, broken>>

\* The serve loop hands a message to AND and only logs INVAL.
Serve ==
    /\ ch # <<>>
    /\ ch' = Tail(ch)
    /\ served' = IF Decoded(Head(ch).type, Head(ch).body) = Invalid THEN served ELSE Append(served, Head(ch))
    /\ UNCHANGED <<state, pc, cur, count, wire, got, reader, broken>>

-----------------------------------------------------------------------------
Init ==
    /\ state = "CONNECTED"
    /\ pc = [s \in Senders |-> "idle"]
    /\ cur = [s \in Senders |-> NoMsg]
    /\ count = [s \in Senders |-> 0]
    /\ wire = <<>>
    /\ got = 0
    /\ reader = [at |-> "type", item |-> NoMsg]
    /\ ch = <<>>
    /\ served = <<>>
    /\ broken = FALSE

Sender(s) ==
    (\E m \in MessagesOf[s] : Begin(s, m)) \/ Check(s) \/ EncodeType(s) \/ EncodeBody(s)

Next ==
    \/ \E s \in Senders : Sender(s)
    \/ LinkCloses \/ Break
    \/ ReadType \/ ReadBody \/ ReadFails \/ Serve

Spec == Init /\ [][Next]_vars

\* The reader and the serve loop are goroutines that keep running.
FairSpec == Spec /\ WF_vars(ReadType \/ ReadBody) /\ WF_vars(Serve)

-----------------------------------------------------------------------------
(* Properties *)

\* Whatever the interleaving of the senders, no message is put together from
\* the type of one and the body of another, none is taken twice, and the
\* messages of one sender are taken in the order in which it sent them.
WholeMessages ==
    /\ \A k \in DOMAIN served : /\ served[k].type.from = served[k].body.from
                                /\ served[k].type.n = served[k].body.n
    /\ \A j, k \in DOMAIN served :
          (j < k /\ served[j].type.from = served[k].type.from) => served[j].type.n < served[k].type.n

\* A message is rounded to milliseconds on the way, and nothing else.
InMs(t) == (t \div Ms) * Ms

Rounded(m) ==
    [type |-> m.type,
     ssid |-> IF m.type = "JDN" THEN "" ELSE m.ssid,
     rsid |-> IF m.type = "JN" THEN "" ELSE m.rsid,
     time |-> IF m.type \in Stamped THEN InMs(m.time) ELSE 0,
     list |-> [k \in DOMAIN m.list |->
                  IF Discovery(m.type) THEN [m.list[k] EXCEPT !.time = InMs(@)] ELSE m.list[k]]]

\* What the serve loop takes is what one of the senders was asked to send, with
\* its ids, its URLs, its lists and its times in milliseconds.
ArrivesAsSent ==
    \A k \in DOMAIN served :
        \E m \in MessagesOf[served[k].type.from] : Decoded(served[k].type, served[k].body) = Rounded(m)

\* On a connection that is not lost the reader gives up only because two sends
\* have overlapped (two types in a row): every message that the host sends by
\* itself can be parsed by its peer.
GivesUpOnOverlap ==
    (reader.at = "ended" /\ ~broken) =>
        \E k \in 1..got - 1 : wire[k].kind = "type" /\ wire[k + 1].kind = "type"

\* A message that is written completely is taken by the serve loop, unless the
\* reader has ended: the bounded channel delays messages and loses none.
WrittenIsServed ==
    <>[](\/ reader.at = "ended"
         \/ \A k \in DOMAIN wire : wire[k].kind = "body" =>
                \E j \in DOMAIN served : served[j].body = wire[k])
=============================================================================
