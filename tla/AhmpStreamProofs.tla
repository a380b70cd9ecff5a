-------------------------- MODULE AhmpStreamProofs --------------------------
(***************************************************************************)
(* The senders of a link write the type and the body of a message without  *)
(* a lock; still no message is mixed up, for any number of senders,        *)
(* messages and sizes of the channel.                                      *)
(*                                                                         *)
(* The argument: a body is only written after its type (Written), so a     *)
(* body of another sender that follows a type belongs to an earlier type;  *)
(* but that one was followed by another type, on which the reader gave up, *)
(* or by its own body (Paired).  Taken carries this over the channel to    *)
(* the serve loop.                                                         *)
(***************************************************************************)
EXTENDS AhmpStream, TLAPS

-----------------------------------------------------------------------------
(* The inductive invariant *)

AllMessages == UNION {MessagesOf[s] : s \in Senders}

Items == [kind : {"type", "body"}, from : Senders, n : Nat, msg : AllMessages]

Pairs == [type : Items, body : Items]

TypeOK ==
    /\ state \in {"CONNECTED", "CLOSED"}
    /\ pc \in [Senders -> {"idle", "checkType", "type", "checkBody", "body"}]
    /\ cur \in [Senders -> AllMessages \cup {NoMsg}]
    /\ \A s \in Senders : pc[s] # "idle" => cur[s] \in MessagesOf[s]
    /\ count \in [Senders -> Nat]
    /\ wire \in Seq(Items)
    /\ got \in 0..Len(wire)
    /\ reader.at \in {"type", "body", "ended"}
    /\ ch \in Seq(Pairs) /\ served \in Seq(Pairs)
    /\ broken \in BOOLEAN

\* Two items of the same message.
Same(i, j) == i.from = j.from /\ i.n = j.n

\* Item j may follow item i on the wire.
Follows(i, j) == i.from = j.from => i.n < j.n \/ (i.n = j.n /\ i.kind = "type" /\ j.kind = "body" /\ i.msg = j.msg)

\* The newest message of a sender, as far as it is written.
Latest(i) ==
    i.n = count[i.from] =>
        /\ i.msg = cur[i.from]
        /\ i.kind = "type" => pc[i.from] \in {"checkBody", "body", "idle"}
        /\ i.kind = "body" => pc[i.from] = "idle"

\* The type of the message that s sends is on the wire.
TypeWritten(s) == \E k \in DOMAIN wire : wire[k].kind = "type" /\ wire[k].from = s /\ wire[k].n = count[s]

Written ==
    /\ \A k \in DOMAIN wire : /\ wire[k].n <= count[wire[k].from] /\ wire[k].msg \in MessagesOf[wire[k].from]
                              /\ Latest(wire[k])
    /\ \A j, k \in DOMAIN wire : j < k => Follows(wire[j], wire[k])
    /\ \A k \in DOMAIN wire : wire[k].kind = "body" =>
          \E j \in DOMAIN wire : j < k /\ wire[j].kind = "type" /\ Same(wire[j], wire[k])
    /\ \A s \in Senders : /\ pc[s] = "body" /\ ~broken => TypeWritten(s)
                          /\ pc[s] = "checkBody" /\ ~broken /\ state = "CONNECTED" => TypeWritten(s)

\* As long as the reader reads on, it has seen whole messages only.
Paired ==
    reader.at # "ended" =>
        /\ \A k \in 1..got - 1 : wire[k].kind = "type" => wire[k + 1].kind = "body" /\ Same(wire[k], wire[k + 1])
        /\ reader.at = "body" => got > 0 /\ wire[got].kind = "type" /\ reader.item = wire[got]
        /\ reader.at = "type" => got = 0 \/ wire[got].kind = "body"

\* A message that the reader has put on the channel.
Whole(e) ==
    e.body.kind = "body" =>
        /\ Same(e.type, e.body) /\ e.type.msg = e.body.msg /\ e.body.msg \in MessagesOf[e.body.from]
        /\ \E k \in 1..got : wire[k] = e.body

Before(e, f) ==
    e.body.kind = "body" /\ f.body.kind = "body" /\ e.type.from = f.type.from => e.type.n < f.type.n

Taken ==
    /\ \A k \in DOMAIN ch : Whole(ch[k])
    /\ \A k \in DOMAIN served : Whole(served[k]) /\ served[k].body.kind = "body"
    /\ \A j, k \in DOMAIN ch : j < k => Before(ch[j], ch[k])
    /\ \A j, k \in DOMAIN served : j < k => Before(served[j], served[k])
    /\ \A j \in DOMAIN served, k \in DOMAIN ch : Before(served[j], ch[k])

IInv == TypeOK /\ Written /\ Paired /\ Taken

-----------------------------------------------------------------------------
(* Sequences *)

\* Elements of a sequence after Append and Tail.
LEMMA SeqLemma ==
    ASSUME NEW S, NEW s \in Seq(S)
    PROVE  /\ \A e \in S : /\ Append(s, e) \in Seq(S) /\ DOMAIN Append(s, e) = 1..Len(s) + 1
                           /\ Len(Append(s, e)) = Len(s) + 1 /\ Append(s, e)[Len(s) + 1] = e
                           /\ \A k \in 1..Len(s) : Append(s, e)[k] = s[k]
           /\ DOMAIN s = 1..Len(s) /\ Len(s) \in Nat /\ \A k \in 1..Len(s) : s[k] \in S
           /\ s # <<>> => /\ Len(s) > 0 /\ Head(s) = s[1] /\ Head(s) \in S
                          /\ Tail(s) \in Seq(S) /\ DOMAIN Tail(s) = 1..Len(s) - 1
                          /\ \A k \in 1..Len(s) - 1 : Tail(s)[k] = s[k + 1]
  OBVIOUS

-----------------------------------------------------------------------------
(* Steps *)

\* The steps of a sender and of its link: what the reader has is not changed,
\* and the wire may grow by one item.
LEMMA SenderSteps ==
    ASSUME [Next]_vars
    PROVE  \/ \E s \in Senders : \E m \in MessagesOf[s] : Begin(s, m)
           \/ \E s \in Senders : Check(s) \/ EncodeType(s) \/ EncodeBody(s)
           \/ LinkCloses \/ Break \/ ReadType \/ ReadBody \/ ReadFails \/ Serve
           \/ UNCHANGED vars
  BY DEF Next, Sender

\* The items that the senders write.
LEMMA ItemLemma ==
    ASSUME TypeOK, NEW s \in Senders, pc[s] # "idle"
    PROVE  /\ TypeItem(s) \in Items /\ BodyItem(s) \in Items
           /\ TypeItem(s).kind = "type" /\ BodyItem(s).kind = "body"
           /\ \A i \in {TypeItem(s), BodyItem(s)} : i.from = s /\ i.n = count[s] /\ i.msg = cur[s]
           /\ cur[s] \in MessagesOf[s]
PROOF
<1>1. cur[s] \in MessagesOf[s] /\ count[s] \in Nat
  BY DEF TypeOK
<1>2. cur[s] \in AllMessages
  BY <1>1 DEF AllMessages
<1> QED BY <1>1, <1>2 DEF TypeItem, BodyItem, Items

\* What an Encode does.
LEMMA WriteLemma ==
    ASSUME TypeOK, NEW s \in Senders, EncodeType(s) \/ EncodeBody(s)
    PROVE  /\ pc[s] \in {"type", "body"}
           /\ pc' = [pc EXCEPT ![s] = IF pc[s] = "type" THEN "checkBody" ELSE "idle"]
           /\ \/ broken /\ state' = "CLOSED" /\ wire' = wire
              \/ /\ ~broken /\ state' = state
                 /\ \E i \in Items : /\ i.kind = pc[s] /\ i.from = s /\ i.n = count[s] /\ i.msg = cur[s]
                                     /\ wire' = Append(wire, i)
           /\ UNCHANGED <<cur, count, got, reader, ch, served, broken>>
PROOF
<1>1. CASE EncodeType(s)
  <2>1. pc[s] = "type" /\ TypeItem(s) \in Items
    BY <1>1, ItemLemma DEF EncodeType, Write
  <2> QED BY <1>1, <2>1, ItemLemma DEF EncodeType, Write
<1>2. CASE EncodeBody(s)
  <2>1. pc[s] = "body" /\ BodyItem(s) \in Items
    BY <1>2, ItemLemma DEF EncodeBody, Write
  <2> QED BY <1>2, <2>1, ItemLemma DEF EncodeBody, Write
<1> QED BY <1>1, <1>2

\* What the reader sees of the wire stays as it is when the wire grows.
LEMMA WireGrows ==
    ASSUME TypeOK, NEW i \in Items, wire' = Append(wire, i)
    PROVE  /\ wire' \in Seq(Items) /\ Len(wire') = Len(wire) + 1 /\ wire'[Len(wire) + 1] = i
           /\ DOMAIN wire = 1..Len(wire) /\ DOMAIN wire' = 1..Len(wire) + 1 /\ Len(wire) \in Nat
           /\ \A k \in 1..Len(wire) : wire'[k] = wire[k] /\ wire[k] \in Items
           /\ got \in Nat /\ \A k \in 1..got : wire'[k] = wire[k]
PROOF
<1>1. wire \in Seq(Items) /\ got \in 0..Len(wire)
  BY DEF TypeOK
<1>2. /\ wire' \in Seq(Items) /\ Len(wire') = Len(wire) + 1 /\ wire'[Len(wire) + 1] = i
      /\ DOMAIN wire = 1..Len(wire) /\ DOMAIN wire' = 1..Len(wire) + 1 /\ Len(wire) \in Nat
      /\ \A k \in 1..Len(wire) : wire'[k] = wire[k] /\ wire[k] \in Items
  BY <1>1, SeqLemma
<1> QED BY <1>1, <1>2

-----------------------------------------------------------------------------
(* Types *)

LEMMA TypeStep ==
    ASSUME TypeOK, Paired, [Next]_vars
    PROVE  TypeOK'
PROOF
<1>1. ASSUME NEW s \in Senders, NEW m \in MessagesOf[s], Begin(s, m) PROVE TypeOK'
  <2>1. m \in AllMessages
    BY DEF AllMessages
  <2> QED BY <1>1, <2>1 DEF Begin, TypeOK
<1>2. ASSUME NEW s \in Senders, Check(s) PROVE TypeOK'
  <2>1. PICK at \in {"type", "checkBody", "body", "idle"} : pc[s] # "idle" /\ pc' = [pc EXCEPT ![s] = at]
    <3>1. CASE pc[s] = "checkType"
      BY <1>2, <3>1 DEF Check
    <3>2. CASE pc[s] = "checkBody"
      BY <1>2, <3>2 DEF Check
    <3> QED BY <1>2, <3>1, <3>2 DEF Check
  <2>2. /\ pc' \in [Senders -> {"idle", "checkType", "type", "checkBody", "body"}]
        /\ \A u \in Senders : pc'[u] # "idle" => pc[u] # "idle"
    BY <2>1 DEF TypeOK
  <2> QED BY <1>2, <2>2 DEF Check, TypeOK
<1>3. ASSUME NEW s \in Senders, EncodeType(s) \/ EncodeBody(s) PROVE TypeOK'
  <2>1. /\ pc[s] \in {"type", "body"}
        /\ pc' = [pc EXCEPT ![s] = IF pc[s] = "type" THEN "checkBody" ELSE "idle"]
        /\ state' \in {state, "CLOSED"}
        /\ UNCHANGED <<cur, count, got, reader, ch, served, broken>>
        /\ wire' = wire \/ \E i \in Items : wire' = Append(wire, i)
    BY <1>3, WriteLemma
  <2>2. wire' \in Seq(Items) /\ got \in 0..Len(wire')
    <3>1. CASE wire' = wire
      BY <3>1 DEF TypeOK
    <3>2. CASE \E i \in Items : wire' = Append(wire, i)
      <4>1. wire' \in Seq(Items) /\ Len(wire') = Len(wire) + 1 /\ Len(wire) \in Nat
        BY <3>2, WireGrows
      <4> QED BY <4>1 DEF TypeOK
    <3> QED BY <2>1, <3>1, <3>2
  <2>3. /\ pc' \in [Senders -> {"idle", "checkType", "type", "checkBody", "body"}]
        /\ \A u \in Senders : pc'[u] # "idle" => pc[u] # "idle"
    BY <2>1 DEF TypeOK
  <2> QED BY <2>1, <2>2, <2>3 DEF TypeOK
<1>4. CASE LinkCloses \/ Break \/ ReadFails \/ UNCHANGED vars
  <2>1. CASE LinkCloses \/ UNCHANGED vars
    BY <2>1 DEF LinkCloses, vars, TypeOK
  <2>2. CASE Break
    BY <2>2 DEF Break, TypeOK
  <2>3. CASE ReadFails
    BY <2>3 DEF ReadFails, TypeOK
  <2> QED BY <1>4, <2>1, <2>2, <2>3
<1>5. CASE ReadType
  <2>1. got' \in 0..Len(wire)
    BY <1>5 DEF ReadType, TypeOK
  <2>2. reader'.at \in {"type", "body", "ended"}
    BY <1>5 DEF ReadType
  <2> QED BY <1>5, <2>1, <2>2 DEF ReadType, TypeOK
<1>6. CASE ReadBody
  <2>1. got' \in 0..Len(wire) /\ got + 1 \in 1..Len(wire)
    BY <1>6 DEF ReadBody, TypeOK
  <2>2. reader'.at \in {"type", "body", "ended"}
    BY <1>6 DEF ReadBody
  <2>3. Item \in Items /\ reader.item \in Items
    <3>1. got > 0 /\ reader.item = wire[got]
      BY <1>6 DEF ReadBody, Paired
    <3>2. got \in 1..Len(wire) /\ wire \in Seq(Items)
      BY <3>1 DEF TypeOK
    <3> QED BY <2>1, <3>1, <3>2, SeqLemma DEF Item
  <2>4. ch' \in Seq(Pairs)
    <3> DEFINE e == [type |-> reader.item, body |-> Item]
    <3>1. e \in Pairs /\ ch' = Append(ch, e)
      BY <1>6, <2>3 DEF Pairs, ReadBody
    <3> HIDE DEF e
    <3> QED BY <3>1, SeqLemma DEF TypeOK
  <2> QED BY <1>6, <2>1, <2>2, <2>4 DEF ReadBody, TypeOK
<1>7. CASE Serve
  <2>1. Head(ch) \in Pairs /\ Tail(ch) \in Seq(Pairs)
    BY <1>7, SeqLemma DEF Serve, TypeOK
  <2>2. Append(served, Head(ch)) \in Seq(Pairs)
    BY <2>1, SeqLemma DEF TypeOK
  <2> QED BY <1>7, <2>1, <2>2 DEF Serve, TypeOK
<1> QED BY <1>1, <1>2, <1>3, <1>4, <1>5, <1>6, <1>7, SenderSteps

-----------------------------------------------------------------------------
(* The wire *)

\* A sender moves on and writes nothing.
LEMMA MovesOn ==
    ASSUME TypeOK, Written, NEW s \in Senders, UNCHANGED <<cur, count, wire>>,
           broken => broken', state' = "CONNECTED" => state = "CONNECTED",
           pc' \in [Senders -> {"idle", "checkType", "type", "checkBody", "body"}],
           \A u \in Senders \ {s} : pc'[u] = pc[u],
           pc[s] \in {"checkBody", "body", "idle"} => pc'[s] \in {"checkBody", "body", "idle"},
           pc[s] = "idle" => pc'[s] = "idle",
           pc'[s] = "body" /\ ~broken' => TypeWritten(s),
           pc'[s] = "checkBody" /\ ~broken' /\ state' = "CONNECTED" => TypeWritten(s)
    PROVE  Written'
PROOF
<1>1. \A u \in Senders : TypeWritten(u)' <=> TypeWritten(u)
  BY DEF TypeWritten
<1>2. \A k \in DOMAIN wire : Latest(wire[k]) => Latest(wire[k])'
  <2> SUFFICES ASSUME NEW k \in DOMAIN wire, Latest(wire[k]) PROVE Latest(wire[k])'
    OBVIOUS
  <2>1. wire[k] \in Items
    BY SeqLemma DEF TypeOK
  <2>2. wire[k].from \in Senders
    BY <2>1 DEF Items
  <2> QED BY <2>2 DEF Latest
<1>3. \A k \in DOMAIN wire' : /\ wire'[k].n <= count'[wire'[k].from]
                              /\ wire'[k].msg \in MessagesOf[wire'[k].from]
                              /\ Latest(wire[k])'
  BY <1>2 DEF Written
<1>4. \A j, k \in DOMAIN wire' : j < k => Follows(wire[j], wire[k])'
  BY DEF Written, Follows
<1>5. \A k \in DOMAIN wire' : wire'[k].kind = "body" =>
         \E j \in DOMAIN wire' : j < k /\ wire'[j].kind = "type" /\ Same(wire[j], wire[k])'
  BY DEF Written, Same
<1>6. \A u \in Senders : /\ pc'[u] = "body" /\ ~broken' => TypeWritten(u)'
                         /\ pc'[u] = "checkBody" /\ ~broken' /\ state' = "CONNECTED" => TypeWritten(u)'
  BY <1>1 DEF Written
<1> QED BY <1>3, <1>4, <1>5, <1>6 DEF Written

\* One more item.
LEMMA OneMore ==
    ASSUME TypeOK, Written, NEW s \in Senders, EncodeType(s) \/ EncodeBody(s), ~broken
    PROVE  Written'
PROOF
<1>1. PICK i \in Items : /\ i.kind = pc[s] /\ i.from = s /\ i.n = count[s] /\ i.msg = cur[s]
                         /\ wire' = Append(wire, i)
  BY WriteLemma
<1>2. /\ pc[s] \in {"type", "body"} /\ UNCHANGED <<cur, count, state, broken>>
      /\ pc' = [pc EXCEPT ![s] = IF pc[s] = "type" THEN "checkBody" ELSE "idle"]
  BY WriteLemma
<1>3. /\ DOMAIN wire = 1..Len(wire) /\ DOMAIN wire' = 1..Len(wire) + 1 /\ Len(wire) \in Nat
      /\ \A k \in DOMAIN wire : wire'[k] = wire[k] /\ wire[k] \in Items
      /\ wire'[Len(wire) + 1] = i
  BY <1>1, WireGrows
<1>4. /\ cur[s] \in MessagesOf[s] /\ count \in [Senders -> Nat]
      /\ pc'[s] = IF pc[s] = "type" THEN "checkBody" ELSE "idle"
      /\ \A u \in Senders \ {s} : pc'[u] = pc[u]
  BY <1>2 DEF TypeOK
<1>5. ASSUME NEW k \in DOMAIN wire
      PROVE  /\ wire[k].from \in Senders /\ wire[k].n \in Nat /\ wire[k].kind \in {"type", "body"}
             /\ wire[k].n <= count[wire[k].from] /\ wire[k].msg \in MessagesOf[wire[k].from]
             /\ Latest(wire[k]) /\ Latest(wire[k])'
             /\ Follows(wire[k], i)
  <2>1. wire[k].from \in Senders /\ wire[k].n \in Nat /\ wire[k].kind \in {"type", "body"}
    BY <1>3 DEF Items
  <2>2. Latest(wire[k]) /\ wire[k].n <= count[wire[k].from] /\ wire[k].msg \in MessagesOf[wire[k].from]
    BY DEF Written
  <2>3. CASE wire[k].from # s
    BY <1>1, <1>2, <1>3, <1>4, <2>1, <2>2, <2>3 DEF Latest, Follows
  <2>4. CASE wire[k].from = s
    <3>1. CASE wire[k].n = count[s]
      <4>1. wire[k].msg = cur[s] /\ wire[k].kind = "type" /\ pc[s] = "body"
        BY <1>2, <2>1, <2>2, <2>4, <3>1 DEF Latest
      <4> QED BY <1>1, <1>2, <1>3, <1>4, <2>1, <2>2, <2>4, <3>1, <4>1 DEF Latest, Follows
    <3>2. CASE wire[k].n # count[s]
      <4>1. wire[k].n < count[s]
        BY <1>4, <2>1, <2>2, <2>4, <3>2
      <4> QED BY <1>1, <1>2, <1>3, <1>4, <2>1, <2>2, <2>4, <3>2, <4>1 DEF Latest, Follows
    <3> QED BY <3>1, <3>2
  <2> QED BY <2>1, <2>2, <2>3, <2>4
<1>6. i.n <= count'[i.from] /\ i.msg \in MessagesOf[i.from] /\ Latest(i)'
  BY <1>1, <1>2, <1>4 DEF Latest
<1>7. \A x, y : (Follows(x, y)' <=> Follows(x, y)) /\ (Same(x, y)' <=> Same(x, y))
  BY DEF Follows, Same
<1>8. \A k \in DOMAIN wire' : k \in DOMAIN wire \/ (k = Len(wire) + 1 /\ wire'[k] = i)
  BY <1>3
<1>9. \A k \in DOMAIN wire' : /\ wire'[k].n <= count'[wire'[k].from]
                              /\ wire'[k].msg \in MessagesOf[wire'[k].from]
  BY <1>2, <1>3, <1>5, <1>6, <1>8
<1>10. \A k \in DOMAIN wire' :
          wire'[k].n = count'[wire'[k].from] =>
             /\ wire'[k].msg = cur'[wire'[k].from]
             /\ wire'[k].kind = "type" => pc'[wire'[k].from] \in {"checkBody", "body", "idle"}
             /\ wire'[k].kind = "body" => pc'[wire'[k].from] = "idle"
  BY <1>2, <1>3, <1>5, <1>6, <1>8 DEF Latest
<1>11. \A j, k \in DOMAIN wire' : j < k => Follows(wire'[j], wire'[k])
  <2> SUFFICES ASSUME NEW j \in DOMAIN wire', NEW k \in DOMAIN wire', j < k
               PROVE  Follows(wire'[j], wire'[k])
    OBVIOUS
  <2>1. j \in DOMAIN wire /\ wire'[j] = wire[j]
    BY <1>3
  <2>2. CASE k \in DOMAIN wire
    BY <1>3, <2>1, <2>2 DEF Written
  <2>3. CASE k \notin DOMAIN wire
    BY <1>5, <1>8, <2>1, <2>3
  <2> QED BY <2>2, <2>3
<1>12. TypeWritten(s)'
  <2>1. CASE pc[s] = "type"
    <3>1. Len(wire) + 1 \in DOMAIN wire'
      BY <1>3
    <3> QED BY <1>1, <1>2, <1>3, <2>1, <3>1 DEF TypeWritten
  <2>2. CASE pc[s] = "body"
    <3>1. TypeWritten(s)
      BY <2>2 DEF Written
    <3>2. \A k \in DOMAIN wire : k \in DOMAIN wire'
      BY <1>3
    <3> QED BY <1>2, <1>3, <3>1, <3>2 DEF TypeWritten
  <2> QED BY <1>2, <2>1, <2>2
<1>13. ASSUME NEW k \in DOMAIN wire', wire'[k].kind = "body"
       PROVE  \E j \in DOMAIN wire' : j < k /\ wire'[j].kind = "type" /\ Same(wire'[j], wire'[k])
  <2>1. \A j \in DOMAIN wire : j \in DOMAIN wire'
    BY <1>3
  <2>2. CASE k \in DOMAIN wire
    <3>1. PICK j \in DOMAIN wire : j < k /\ wire[j].kind = "type" /\ Same(wire[j], wire[k])
      BY <1>3, <1>13, <2>2 DEF Written
    <3> QED BY <1>3, <2>1, <2>2, <3>1
  <2>3. CASE k \notin DOMAIN wire
    <3>1. k = Len(wire) + 1 /\ wire'[k] = i /\ pc[s] = "body"
      BY <1>1, <1>8, <1>13, <2>3
    <3>2. PICK j \in DOMAIN wire : wire[j].kind = "type" /\ wire[j].from = s /\ wire[j].n = count[s]
      BY <3>1 DEF Written, TypeWritten
    <3>3. j < k
      BY <1>3, <3>1, <3>2
    <3> QED BY <1>1, <1>3, <2>1, <3>1, <3>2, <3>3 DEF Same
  <2> QED BY <2>2, <2>3
<1>14. ASSUME NEW u \in Senders
       PROVE  /\ pc'[u] = "body" /\ ~broken' => TypeWritten(u)'
              /\ pc'[u] = "checkBody" /\ ~broken' /\ state' = "CONNECTED" => TypeWritten(u)'
  <2>1. CASE u = s
    BY <1>12, <2>1
  <2>2. CASE u # s
    <3>1. TypeWritten(u) => TypeWritten(u)'
      <4>1. \A j \in DOMAIN wire : j \in DOMAIN wire'
        BY <1>3
      <4> QED BY <1>2, <1>3, <4>1 DEF TypeWritten
    <3> QED BY <1>2, <1>4, <2>2, <3>1 DEF Written
  <2> QED BY <2>1, <2>2
<1> QED BY <1>7, <1>9, <1>10, <1>11, <1>13, <1>14 DEF Written, Latest

LEMMA WrittenStep ==
    ASSUME TypeOK, Written, [Next]_vars
    PROVE  Written'
PROOF
<1>1. ASSUME NEW s \in Senders, NEW m \in MessagesOf[s], Begin(s, m) PROVE Written'
  <2>1. /\ pc[s] = "idle" /\ pc' = [pc EXCEPT ![s] = "checkType"]
        /\ cur' = [cur EXCEPT ![s] = m] /\ count' = [count EXCEPT ![s] = @ + 1]
        /\ UNCHANGED <<state, wire, broken>>
    BY <1>1 DEF Begin
  <2>2. /\ pc'[s] = "checkType" /\ count'[s] = count[s] + 1 /\ count[s] \in Nat
        /\ \A u \in Senders \ {s} : pc'[u] = pc[u] /\ cur'[u] = cur[u] /\ count'[u] = count[u]
    BY <2>1 DEF TypeOK
  <2>3. ASSUME NEW k \in DOMAIN wire
        PROVE  wire[k].n <= count'[wire[k].from] /\ Latest(wire[k])'
    <3>1. wire[k] \in Items
      BY SeqLemma DEF TypeOK
    <3>2. wire[k].from \in Senders /\ wire[k].n \in Nat /\ wire[k].n <= count[wire[k].from] /\ Latest(wire[k])
      BY <3>1 DEF Items, Written
    <3>3. CASE wire[k].from = s
      BY <2>1, <2>2, <3>2, <3>3 DEF Latest
    <3>4. CASE wire[k].from # s
      BY <2>1, <2>2, <3>2, <3>4 DEF Latest
    <3> QED BY <3>3, <3>4
  <2>4. ASSUME NEW u \in Senders
        PROVE  /\ pc'[u] = "body" /\ ~broken' => TypeWritten(u)'
               /\ pc'[u] = "checkBody" /\ ~broken' /\ state' = "CONNECTED" => TypeWritten(u)'
    <3>1. CASE u = s
      BY <2>2, <3>1
    <3>2. CASE u # s
      BY <2>1, <2>2, <3>2 DEF Written, TypeWritten
    <3> QED BY <3>1, <3>2
  <2>5. \A x, y : (Follows(x, y)' <=> Follows(x, y)) /\ (Same(x, y)' <=> Same(x, y))
    BY DEF Follows, Same
  <2> QED BY <2>1, <2>3, <2>4, <2>5 DEF Written, Latest
<1>2. ASSUME NEW s \in Senders, Check(s) PROVE Written'
  <2>1. /\ UNCHANGED <<state, cur, count, wire, broken>>
        /\ \/ pc[s] = "checkType" /\ pc' = [pc EXCEPT ![s] = IF state = "CONNECTED" THEN "type" ELSE "checkBody"]
           \/ pc[s] = "checkBody" /\ pc' = [pc EXCEPT ![s] = IF state = "CONNECTED" THEN "body" ELSE "idle"]
    BY <1>2 DEF Check
  <2>2. /\ pc' \in [Senders -> {"idle", "checkType", "type", "checkBody", "body"}]
        /\ \A u \in Senders \ {s} : pc'[u] = pc[u]
        /\ \/ pc[s] = "checkType" /\ pc'[s] = IF state = "CONNECTED" THEN "type" ELSE "checkBody"
           \/ pc[s] = "checkBody" /\ pc'[s] = IF state = "CONNECTED" THEN "body" ELSE "idle"
    BY <2>1 DEF TypeOK
  <2>3. pc[s] = "checkBody" /\ ~broken /\ state = "CONNECTED" => TypeWritten(s)
    BY DEF Written
  <2> QED BY <2>1, <2>2, <2>3, MovesOn
<1>3. ASSUME NEW s \in Senders, EncodeType(s) \/ EncodeBody(s) PROVE Written'
  <2>1. CASE ~broken
    BY <1>3, <2>1, OneMore
  <2>2. CASE broken
    <3>1. /\ state' = "CLOSED" /\ UNCHANGED <<cur, count, wire, broken>> /\ pc[s] \in {"type", "body"}
          /\ pc' = [pc EXCEPT ![s] = IF pc[s] = "type" THEN "checkBody" ELSE "idle"]
      BY <1>3, <2>2, WriteLemma
    <3>2. /\ pc' \in [Senders -> {"idle", "checkType", "type", "checkBody", "body"}]
          /\ \A u \in Senders \ {s} : pc'[u] = pc[u]
          /\ pc'[s] = IF pc[s] = "type" THEN "checkBody" ELSE "idle"
      BY <3>1 DEF TypeOK
    <3> QED BY <2>2, <3>1, <3>2, MovesOn
  <2> QED BY <2>1, <2>2
<1>4. CASE LinkCloses \/ Break \/ ReadType \/ ReadBody \/ ReadFails \/ Serve \/ UNCHANGED vars
  <2>1. UNCHANGED <<pc, cur, count, wire>>
    BY <1>4 DEF LinkCloses, Break, ReadType, ReadBody, ReadFails, Serve, vars
  <2>2. \A x, y : (Follows(x, y)' <=> Follows(x, y)) /\ (Same(x, y)' <=> Same(x, y))
    BY DEF Follows, Same
  <2>3. \A x : Latest(x)' <=> Latest(x)
    BY <2>1 DEF Latest
  <2>4. \A s \in Senders : TypeWritten(s)' <=> TypeWritten(s)
    BY <2>1 DEF TypeWritten
  <2>5. broken => broken'
    BY <1>4 DEF LinkCloses, Break, ReadType, ReadBody, ReadFails, Serve, vars
  <2>6. state' = "CONNECTED" => state = "CONNECTED"
    BY <1>4 DEF LinkCloses, Break, ReadType, ReadBody, ReadFails, Serve, vars
  <2> QED BY <2>1, <2>2, <2>3, <2>4, <2>5, <2>6 DEF Written
<1> QED BY <1>1, <1>2, <1>3, <1>4, SenderSteps

-----------------------------------------------------------------------------
(* The reader *)

\* A body that the reader comes to is the body of the type it has just read.
LEMMA NextBody ==
    ASSUME TypeOK, Written, Paired, reader.at # "ended", got < Len(wire), Item.kind = "body"
    PROVE  /\ reader.at = "body" /\ reader.item = wire[got] /\ Same(reader.item, Item)
           /\ reader.item.msg = Item.msg /\ Item.msg \in MessagesOf[Item.from]
PROOF
<1>1. /\ DOMAIN wire = 1..Len(wire) /\ Len(wire) \in Nat /\ got \in Nat
      /\ got + 1 \in DOMAIN wire /\ Item = wire[got + 1]
      /\ \A k \in DOMAIN wire : wire[k] \in Items
  BY SeqLemma DEF TypeOK, Item
<1>2. PICK j \in DOMAIN wire : j < got + 1 /\ wire[j].kind = "type" /\ Same(wire[j], wire[got + 1])
  BY <1>1 DEF Written
<1>3. Follows(wire[j], wire[got + 1]) /\ wire[got + 1].msg \in MessagesOf[wire[got + 1].from]
  BY <1>1, <1>2 DEF Written
<1>4. wire[j].n \in Nat /\ wire[got + 1].n \in Nat
  BY <1>1, <1>2 DEF Items
<1>5. CASE j = got
  <2>1. reader.at = "body" /\ reader.item = wire[got]
    BY <1>1, <1>2, <1>5 DEF Paired, TypeOK
  <2> QED BY <1>1, <1>2, <1>3, <1>4, <1>5, <2>1 DEF Same, Follows
<1>6. CASE j # got
  <2>1. j \in 1..got - 1 /\ j + 1 \in DOMAIN wire /\ j + 1 < got + 1
    BY <1>1, <1>2, <1>6
  <2>2. wire[j + 1].kind = "body" /\ Same(wire[j], wire[j + 1])
    BY <1>2, <2>1 DEF Paired
  <2>3. Follows(wire[j + 1], wire[got + 1])
    BY <1>1, <2>1 DEF Written
  <2> QED BY <1>2, <1>4, <2>2, <2>3 DEF Same, Follows
<1> QED BY <1>5, <1>6

\* What the reader has seen stays the same when the senders go on.
LEMMA PairedKept ==
    ASSUME TypeOK, Paired, UNCHANGED <<got, reader>>, \A k \in 1..got : wire'[k] = wire[k]
    PROVE  Paired'
PROOF
<1>1. got \in Nat
  BY DEF TypeOK
<1>2. \A k \in 1..got - 1 : k \in 1..got /\ k + 1 \in 1..got
  BY <1>1
<1>3. got > 0 => got \in 1..got
  BY <1>1
<1>4. \A x, y : Same(x, y)' <=> Same(x, y)
  BY DEF Same
<1> QED BY <1>1, <1>2, <1>3, <1>4 DEF Paired

\* The steps that are not the reader's.
LEMMA WireKept ==
    ASSUME TypeOK, [Next]_vars
    PROVE  \/ ReadType \/ ReadBody \/ ReadFails
           \/ UNCHANGED <<got, reader>> /\ \A k \in 1..got : wire'[k] = wire[k]
PROOF
<1>1. ASSUME NEW s \in Senders, EncodeType(s) \/ EncodeBody(s)
      PROVE  UNCHANGED <<got, reader>> /\ \A k \in 1..got : wire'[k] = wire[k]
  <2>1. UNCHANGED <<got, reader>> /\ (wire' = wire \/ \E i \in Items : wire' = Append(wire, i))
    BY <1>1, WriteLemma
  <2> QED BY <2>1, WireGrows
<1>2. ASSUME NEW s \in Senders, Check(s) \/ \E m \in MessagesOf[s] : Begin(s, m)
      PROVE  UNCHANGED <<got, reader, wire>>
  BY <1>2 DEF Check, Begin
<1>3. CASE LinkCloses \/ Break \/ Serve \/ UNCHANGED vars
  BY <1>3 DEF LinkCloses, Break, Serve, vars
<1> QED BY <1>1, <1>2, <1>3, SenderSteps

LEMMA PairedStep ==
    ASSUME TypeOK, Written, Paired, [Next]_vars
    PROVE  Paired'
PROOF
<1>1. \A x, y : Same(x, y)' <=> Same(x, y)
  BY DEF Same
<1>2. CASE ReadType
  <2>1. /\ reader.at = "type" /\ got < Len(wire) /\ got' = got + 1 /\ UNCHANGED wire
        /\ Item.kind = "type" => reader' = [at |-> "body", item |-> Item]
    BY <1>2 DEF ReadType
  <2>2. Item.kind # "body"
    BY <2>1, NextBody
  <2>3. got \in Nat /\ got + 1 \in 1..Len(wire) /\ wire[got + 1] \in Items
    BY <2>1, SeqLemma DEF TypeOK
  <2>4. Item.kind = "type" /\ Item = wire[got + 1]
    BY <2>2, <2>3 DEF Item, Items
  <2>5. reader'.at = "body" /\ reader'.item = wire[got + 1]
    BY <2>1, <2>4
  <2>6. got = 0 \/ wire[got].kind = "body"
    BY <2>1 DEF Paired
  <2>7. \A k \in 1..got' - 1 : wire[k].kind = "type" => k \in 1..got - 1
    BY <2>1, <2>3, <2>6
  <2> QED BY <1>1, <2>1, <2>3, <2>4, <2>5, <2>7 DEF Paired
<1>3. CASE ReadBody
  <2>1. /\ reader.at = "body" /\ got < Len(wire) /\ got' = got + 1 /\ UNCHANGED wire
        /\ reader' = [at |-> IF Decoded(reader.item, Item) = Invalid THEN "ended" ELSE "type", item |-> NoMsg]
    BY <1>3 DEF ReadBody
  <2>2. got \in Nat /\ got + 1 \in 1..Len(wire) /\ wire[got + 1] \in Items /\ Item = wire[got + 1]
    BY <2>1, SeqLemma DEF TypeOK, Item
  <2>3. CASE Item.kind = "type"
    <3>1. reader'.at = "ended"
      BY <2>1, <2>3 DEF Decoded
    <3> QED BY <3>1 DEF Paired
  <2>4. CASE Item.kind = "body"
    <3>1. reader.item = wire[got] /\ Same(wire[got], wire[got + 1])
      BY <2>1, <2>2, <2>4, NextBody
    <3>2. reader'.at \in {"ended", "type"}
      BY <2>1
    <3>3. \A k \in 1..got' - 1 : k \in 1..got - 1 \/ k = got
      BY <2>1, <2>2
    <3>4. \A k \in 1..got' - 1 :
             wire[k].kind = "type" => wire[k + 1].kind = "body" /\ Same(wire[k], wire[k + 1])
      BY <2>1, <2>2, <2>4, <3>1, <3>3 DEF Paired
    <3> QED BY <1>1, <2>1, <2>2, <2>4, <3>2, <3>4 DEF Paired
  <2> QED BY <2>2, <2>3, <2>4 DEF Items
<1>4. CASE ReadFails
  <2>1. reader'.at = "ended"
    BY <1>4 DEF ReadFails
  <2> QED BY <2>1 DEF Paired
<1> QED BY <1>2, <1>3, <1>4, WireKept, PairedKept

-----------------------------------------------------------------------------
(* The channel and the serve loop *)

\* A message stays whole when the reader and the senders go on.
LEMMA WholeStays ==
    ASSUME TypeOK, [Next]_vars, NEW e, Whole(e)
    PROVE  Whole(e)'
PROOF
<1>1. got' \in {got, got + 1} /\ got \in Nat /\ \A k \in 1..got : wire'[k] = wire[k]
  BY WireKept DEF ReadType, ReadBody, ReadFails, TypeOK
<1>2. \A k \in 1..got : k \in 1..got'
  BY <1>1
<1> QED BY <1>1, <1>2 DEF Whole, Same

LEMMA TakenStep ==
    ASSUME TypeOK, Written, Paired, Taken, [Next]_vars
    PROVE  Taken'
PROOF
<1>0. /\ ch \in Seq(Pairs) /\ served \in Seq(Pairs)
      /\ DOMAIN ch = 1..Len(ch) /\ Len(ch) \in Nat
      /\ DOMAIN served = 1..Len(served) /\ Len(served) \in Nat
  BY SeqLemma DEF TypeOK
<1> DEFINE WholeNext(x) ==
              x.body.kind = "body" =>
                  /\ Same(x.type, x.body) /\ x.type.msg = x.body.msg /\ x.body.msg \in MessagesOf[x.body.from]
                  /\ \E k \in 1..got' : wire'[k] = x.body
<1>b. \A x : Whole(x) => WholeNext(x)
  BY WholeStays DEF Whole, Same
<1>c. ASSUME \A k \in DOMAIN ch' : WholeNext(ch'[k]),
             \A k \in DOMAIN served' : WholeNext(served'[k]) /\ served'[k].body.kind = "body",
             \A j, k \in DOMAIN ch' : j < k => Before(ch'[j], ch'[k]),
             \A j, k \in DOMAIN served' : j < k => Before(served'[j], served'[k]),
             \A j \in DOMAIN served', k \in DOMAIN ch' : Before(served'[j], ch'[k])
      PROVE  Taken'
  BY <1>c DEF Taken, Whole, Same, Before
<1> HIDE DEF WholeNext
<1>1. CASE ReadBody
  <2> DEFINE e == [type |-> reader.item, body |-> Item]
  <2>1. /\ reader.at = "body" /\ got < Len(wire) /\ got' = got + 1
        /\ UNCHANGED <<wire, served>> /\ ch' = Append(ch, e)
    BY <1>1 DEF ReadBody
  <2>2. got \in Nat /\ got + 1 \in 1..Len(wire) /\ wire[got + 1] \in Items /\ Item = wire[got + 1]
    BY <2>1, SeqLemma DEF TypeOK, Item
  <2>3. reader.item \in Items
    <3>1. got \in 1..Len(wire) /\ wire \in Seq(Items) /\ reader.item = wire[got]
      BY <2>1 DEF Paired, TypeOK
    <3> QED BY <3>1, SeqLemma
  <2>4. e \in Pairs /\ e.type = reader.item /\ e.body = wire[got + 1]
    BY <2>2, <2>3 DEF Pairs
  <2> HIDE DEF e
  <2>5. WholeNext(e)
    <3>1. CASE Item.kind = "body"
      <4>1. Same(e.type, e.body) /\ e.type.msg = e.body.msg /\ e.body.msg \in MessagesOf[e.body.from]
        BY <2>1, <2>2, <2>4, <3>1, NextBody
      <4>2. got + 1 \in 1..got' /\ wire'[got + 1] = e.body
        BY <2>1, <2>2, <2>4
      <4> QED BY <4>1, <4>2 DEF WholeNext
    <3>2. CASE Item.kind # "body"
      BY <2>2, <2>4, <3>2 DEF WholeNext
    <3> QED BY <3>1, <3>2
  <2>6. ASSUME NEW f \in Pairs, Whole(f) PROVE Before(f, e)
    <3> SUFFICES ASSUME f.body.kind = "body", e.body.kind = "body", f.type.from = e.type.from
                 PROVE  f.type.n < e.type.n
      BY DEF Before
    <3>1. PICK k \in 1..got : wire[k] = f.body
      BY <2>6 DEF Whole
    <3>2. k \in DOMAIN wire /\ got + 1 \in DOMAIN wire /\ k < got + 1
      BY <2>1, <2>2, SeqLemma DEF TypeOK
    <3>3. Follows(f.body, e.body)
      BY <2>4, <3>1, <3>2 DEF Written
    <3>4. Same(e.type, e.body) /\ Same(f.type, f.body)
      BY <2>1, <2>2, <2>4, <2>6, NextBody DEF Whole
    <3> QED BY <3>3, <3>4 DEF Same, Follows
  <2>7. /\ DOMAIN ch' = 1..Len(ch) + 1 /\ ch'[Len(ch) + 1] = e
        /\ \A k \in 1..Len(ch) : ch'[k] = ch[k] /\ ch[k] \in Pairs
        /\ \A k \in 1..Len(served) : served[k] \in Pairs
    BY <1>0, <2>1, <2>4, SeqLemma
  <2>8. \A k \in DOMAIN ch' : k \in DOMAIN ch \/ k = Len(ch) + 1
    BY <1>0, <2>7
  <2>9. \A k \in DOMAIN ch' : WholeNext(ch'[k])
    BY <1>0, <1>b, <2>5, <2>7, <2>8 DEF Taken
  <2>10. \A j, k \in DOMAIN ch' : j < k => Before(ch'[j], ch'[k])
    <3> SUFFICES ASSUME NEW j \in DOMAIN ch', NEW k \in DOMAIN ch', j < k PROVE Before(ch'[j], ch'[k])
      OBVIOUS
    <3>1. j \in DOMAIN ch
      BY <1>0, <2>7
    <3> QED BY <1>0, <2>6, <2>7, <2>8, <3>1 DEF Taken
  <2>11. \A j \in DOMAIN served, k \in DOMAIN ch' : Before(served[j], ch'[k])
    BY <1>0, <2>6, <2>7, <2>8 DEF Taken
  <2> QED BY <1>b, <1>c, <2>1, <2>9, <2>10, <2>11 DEF Taken
<1>2. CASE Serve
  <2>1. /\ ch # <<>> /\ ch' = Tail(ch)
        /\ served' = IF Decoded(Head(ch).type, Head(ch).body) = Invalid THEN served ELSE Append(served, Head(ch))
    BY <1>2 DEF Serve
  <2>2. /\ Head(ch) \in Pairs /\ Head(ch) = ch[1] /\ 1 \in DOMAIN ch /\ DOMAIN ch' = 1..Len(ch) - 1
        /\ \A k \in DOMAIN ch' : k + 1 \in DOMAIN ch /\ 1 < k + 1 /\ ch'[k] = ch[k + 1]
    BY <1>0, <2>1, SeqLemma
  <2>3. \A k \in DOMAIN ch' : WholeNext(ch'[k]) /\ Before(ch[1], ch'[k])
    BY <1>b, <2>2 DEF Taken
  <2>4. \A j, k \in DOMAIN ch' : j < k => Before(ch'[j], ch'[k])
    <3> SUFFICES ASSUME NEW j \in DOMAIN ch', NEW k \in DOMAIN ch', j < k PROVE Before(ch'[j], ch'[k])
      OBVIOUS
    <3>1. j + 1 < k + 1
      BY <1>0, <2>2
    <3> QED BY <2>2, <3>1 DEF Taken
  <2>5. \A j \in DOMAIN served, k \in DOMAIN ch' : Before(served[j], ch'[k])
    BY <2>2 DEF Taken
  <2>6. CASE served' = served
    BY <1>b, <1>c, <2>3, <2>4, <2>5, <2>6 DEF Taken
  <2>7. CASE served' # served
    <3>1. Decoded(ch[1].type, ch[1].body) # Invalid /\ served' = Append(served, ch[1])
      BY <2>1, <2>2, <2>7
    <3>2. ch[1].body.kind = "body"
      <4>1. ch[1].body \in Items
        BY <2>2 DEF Pairs
      <4> QED BY <3>1, <4>1 DEF Decoded, Items
    <3>3. /\ DOMAIN served' = 1..Len(served) + 1 /\ served'[Len(served) + 1] = ch[1]
          /\ \A k \in 1..Len(served) : served'[k] = served[k]
      BY <1>0, <2>2, <3>1, SeqLemma
    <3>4. \A k \in DOMAIN served' : k \in DOMAIN served \/ k = Len(served) + 1
      BY <1>0, <3>3
    <3>5. \A k \in DOMAIN served' : WholeNext(served'[k]) /\ served'[k].body.kind = "body"
      BY <1>0, <1>b, <2>2, <3>2, <3>3, <3>4 DEF Taken
    <3>6. \A j, k \in DOMAIN served' : j < k => Before(served'[j], served'[k])
      <4> SUFFICES ASSUME NEW j \in DOMAIN served', NEW k \in DOMAIN served', j < k
                   PROVE  Before(served'[j], served'[k])
        OBVIOUS
      <4>1. j \in DOMAIN served
        BY <1>0, <3>3
      <4> QED BY <1>0, <2>2, <3>3, <3>4, <4>1 DEF Taken
    <3>7. \A j \in DOMAIN served', k \in DOMAIN ch' : Before(served'[j], ch'[k])
      BY <1>0, <2>3, <2>5, <3>3, <3>4
    <3> QED BY <1>c, <2>3, <2>4, <3>5, <3>6, <3>7
  <2> QED BY <2>6, <2>7
<1>3. CASE ~ReadBody /\ ~Serve
  <2>1. UNCHANGED <<ch, served>>
    <3>1. \A s \in Senders : EncodeType(s) \/ EncodeBody(s) => UNCHANGED <<ch, served>>
      BY WriteLemma
    <3>2. \A s \in Senders : Check(s) \/ (\E m \in MessagesOf[s] : Begin(s, m)) => UNCHANGED <<ch, served>>
      BY DEF Check, Begin
    <3> QED BY <1>3, <3>1, <3>2, SenderSteps DEF LinkCloses, Break, ReadType, ReadFails, vars
  <2> QED BY <1>b, <1>c, <2>1 DEF Taken
<1> QED BY <1>1, <1>2, <1>3

-----------------------------------------------------------------------------
(* The theorems *)

LEMMA InitLemma == Init => IInv
PROOF
<1> SUFFICES ASSUME Init PROVE IInv
  OBVIOUS
<1>1. TypeOK
  <2>1. wire \in Seq(Items) /\ ch \in Seq(Pairs) /\ served \in Seq(Pairs) /\ got \in 0..Len(wire)
    BY DEF Init
  <2> QED BY <2>1 DEF Init, TypeOK
<1>2. DOMAIN wire = {} /\ DOMAIN ch = {} /\ DOMAIN served = {}
  BY DEF Init
<1>3. Written
  BY <1>2 DEF Init, Written
<1>4. Paired
  BY DEF Init, Paired
<1>5. Taken
  BY <1>2 DEF Taken
<1> QED BY <1>1, <1>3, <1>4, <1>5 DEF IInv

LEMMA InductiveStep == IInv /\ [Next]_vars => IInv'
  BY TypeStep, WrittenStep, PairedStep, TakenStep DEF IInv

\* The parts of the invariant hold together in every reachable state.
THEOREM Invariance == Spec => []IInv
PROOF
<1>1. Init => IInv
  BY InitLemma
<1>2. IInv /\ [Next]_vars => IInv'
  BY InductiveStep
<1> QED BY <1>1, <1>2, PTL DEF Spec

\* Whatever the interleaving of the senders, the serve loop takes whole
\* messages only, none of them twice, and those of a sender in order.
THEOREM MessagesAreWhole == Spec => []WholeMessages
PROOF
<1>1. IInv => WholeMessages
  <2> SUFFICES ASSUME IInv PROVE WholeMessages
    OBVIOUS
  <2>1. \A k \in DOMAIN served : Same(served[k].type, served[k].body) /\ served[k].body.kind = "body"
    BY DEF IInv, Taken, Whole
  <2>2. \A j, k \in DOMAIN served : j < k => Before(served[j], served[k])
    BY DEF IInv, Taken
  <2> QED BY <2>1, <2>2 DEF WholeMessages, Same, Before
<1> QED BY <1>1, Invariance, PTL

-----------------------------------------------------------------------------
(* What a message is after its way through CBOR *)

\* Every URL that the host writes into a message is read back by TryParse.  What
\* TryParse makes of every text is an induction over the text, which is left to
\* TLC; that nothing else goes wrong on the way is proved from this.
UrlsReadBack ==
    \A s \in Senders : \A m \in MessagesOf[s] : Discovery(m.type) =>
        \A k \in DOMAIN m.list :
            /\ m.list[k].url # NoAURL
            /\ TryParse(AURLToString(m.list[k].url)) = m.list[k].url

\* The peer reads a message that was sent as it was sent, up to milliseconds.
LEMMA RoundTrip ==
    ASSUME UrlsReadBack, NEW s \in Senders, NEW m \in MessagesOf[s]
    PROVE  Parse(m.type, Raw(m)) = Rounded(m) /\ Rounded(m) # Invalid
PROOF
<1>1. m \in Messages /\ Sendable(m)
  BY MessageAssumption
<1>2. m.list \in Seq(Elements) /\ m.type \in Types
  BY <1>1 DEF Messages
<1>3. \A k \in DOMAIN m.list : m.list[k] \in Elements
  BY <1>2
<1> DEFINE list == [k \in DOMAIN m.list |-> IF Discovery(m.type) THEN [m.list[k] EXCEPT !.time = InMs(@)]
                                                                 ELSE m.list[k]]
           raw == [k \in DOMAIN m.list |-> RawElement(m.type, m.list[k])]
           r == [type |-> m.type,
                 ssid |-> IF m.type = "JDN" THEN "" ELSE m.ssid,
                 rsid |-> IF m.type = "JN" THEN "" ELSE m.rsid,
                 time |-> IF m.type \in Stamped THEN InMs(m.time) ELSE 0,
                 list |-> list]
<1>4. ASSUME NEW k \in DOMAIN m.list
      PROVE  /\ raw[k].sid # "" /\ (Discovery(m.type) => TryParse(raw[k].text) # NoAURL)
             /\ Element(m.type, raw[k]) = list[k]
  <2>1. m.list[k] = [sid |-> m.list[k].sid, url |-> m.list[k].url,
                     time |-> m.list[k].time, rest |-> m.list[k].rest]
    BY <1>3 DEF Elements
  <2>2. raw[k] = RawElement(m.type, m.list[k]) /\ m.list[k].sid # ""
    BY <1>1 DEF Sendable
  <2>3. CASE Discovery(m.type)
    <3>1. /\ m.list[k].rest = "" /\ m.list[k].url # NoAURL
          /\ TryParse(AURLToString(m.list[k].url)) = m.list[k].url
      BY <1>1, <2>3 DEF Sendable, UrlsReadBack
    <3>2. /\ raw[k].sid = m.list[k].sid /\ raw[k].text = AURLToString(m.list[k].url)
          /\ raw[k].time = m.list[k].time \div Ms /\ raw[k].rest = ""
      BY <2>2, <2>3 DEF RawElement
    <3>3. Element(m.type, raw[k]) = [sid |-> m.list[k].sid, url |-> m.list[k].url,
                                     time |-> InMs(m.list[k].time), rest |-> ""]
      BY <2>3, <3>1, <3>2 DEF Element, InMs
    <3>4. list[k] = [sid |-> m.list[k].sid, url |-> m.list[k].url,
                     time |-> InMs(m.list[k].time), rest |-> m.list[k].rest]
      BY <2>1, <2>3
    <3> QED BY <2>2, <3>1, <3>2, <3>3, <3>4
  <2>4. CASE ~Discovery(m.type)
    <3>1. m.list[k].url = NoAURL /\ m.list[k].time = 0
      BY <1>1, <2>4 DEF Sendable
    <3>2. raw[k].sid = m.list[k].sid /\ raw[k].rest = m.list[k].rest
      BY <2>2, <2>4 DEF RawElement
    <3>3. Element(m.type, raw[k]) = [sid |-> m.list[k].sid, url |-> NoAURL, time |-> 0, rest |-> m.list[k].rest]
      BY <2>4, <3>2 DEF Element
    <3> QED BY <2>1, <2>2, <2>4, <3>1, <3>2, <3>3
  <2> QED BY <2>3, <2>4
<1>5. /\ Raw(m).ssid = (IF m.type = "JDN" THEN "" ELSE m.ssid)
      /\ Raw(m).rsid = (IF m.type = "JN" THEN "" ELSE m.rsid)
      /\ Raw(m).time = (IF m.type \in Stamped THEN m.time \div Ms ELSE 0)
      /\ Raw(m).field = ListField(m.type) /\ Raw(m).list = raw
  BY DEF Raw
<1>6. DOMAIN raw = DOMAIN m.list /\ (m.type = "JNI" => Len(raw) = 1)
  <2>1. raw \in Seq({RawElement(m.type, m.list[k]) : k \in DOMAIN m.list}) /\ Len(raw) = Len(m.list)
    BY <1>2
  <2> QED BY <1>1, <2>1 DEF Sendable
<1>7. [k \in DOMAIN raw |-> Element(m.type, raw[k])] = list
  BY <1>4, <1>6
<1>8. Rounded(m) = r
  BY DEF Rounded
<1> HIDE DEF list, raw
<1>9. Parse(m.type, Raw(m)) = r
  <2>1. /\ m.type = "JDN" \/ Raw(m).ssid # ""
        /\ m.type = "JN" \/ Raw(m).rsid # ""
    BY <1>1, <1>5 DEF Sendable
  <2>2. IF m.type \in Stamped THEN Raw(m).time * Ms = InMs(m.time) ELSE TRUE
    BY <1>5 DEF InMs
  <2> QED BY <1>4, <1>5, <1>6, <1>7, <2>1, <2>2 DEF Parse
<1>10. r # Invalid
  <2>1. r.type = m.type /\ Invalid.type = "INVAL" /\ m.type # "INVAL"
    BY <1>2 DEF Invalid, Types
  <2> QED BY <2>1
<1> HIDE DEF r
<1> QED BY <1>8, <1>9, <1>10

\* What the serve loop and the reader make of a whole message.
LEMMA DecodedLemma ==
    ASSUME UrlsReadBack, NEW i, NEW j, j.kind = "body", i.msg = j.msg, NEW s \in Senders, j.msg \in MessagesOf[s]
    PROVE  Decoded(i, j) = Rounded(j.msg) /\ Decoded(i, j) # Invalid
PROOF
<1>1. j.msg.type \in Types /\ j.msg \in UNION {MessagesOf[u] : u \in Senders}
  BY MessageAssumption DEF Messages
<1>2. Received[j.msg.type][j.msg] = Parse(j.msg.type, Raw(j.msg))
  BY <1>1 DEF Received
<1>3. Decoded(i, j) = Parse(j.msg.type, Raw(j.msg))
  BY <1>2 DEF Decoded
<1> QED BY <1>3, RoundTrip

\* What the serve loop takes is what a sender was asked to send, whatever the
\* other senders write between its type and its body.
THEOREM MessagesArriveAsSent == UrlsReadBack => (Spec => []ArrivesAsSent)
PROOF
<1> SUFFICES ASSUME UrlsReadBack PROVE Spec => []ArrivesAsSent
  OBVIOUS
<1>1. IInv => ArrivesAsSent
  <2> SUFFICES ASSUME IInv, NEW k \in DOMAIN served
               PROVE  \E m \in MessagesOf[served[k].type.from] :
                         Decoded(served[k].type, served[k].body) = Rounded(m)
    BY DEF ArrivesAsSent
  <2>1. /\ served[k].body.kind = "body" /\ Same(served[k].type, served[k].body)
        /\ served[k].type.msg = served[k].body.msg /\ served[k].body.msg \in MessagesOf[served[k].body.from]
    BY DEF IInv, Taken, Whole
  <2>2. served[k].body.from \in Senders
    <3>1. served[k] \in Pairs
      BY SeqLemma DEF IInv, TypeOK
    <3> QED BY <3>1 DEF Pairs, Items
  <2>3. Decoded(served[k].type, served[k].body) = Rounded(served[k].body.msg)
    BY <2>1, <2>2, DecodedLemma
  <2> QED BY <2>1, <2>3 DEF Same
<1> QED BY <1>1, Invariance, PTL

LEMMA GivesUpStep ==
    ASSUME UrlsReadBack, IInv, GivesUpOnOverlap, [Next]_vars
    PROVE  GivesUpOnOverlap'
PROOF
<1>0. TypeOK /\ Written /\ Paired /\ got \in Nat
  BY DEF IInv, TypeOK
<1>1. CASE ReadType
  <2>1. reader.at = "type" /\ got < Len(wire)
    BY <1>1 DEF ReadType
  <2>2. Item.kind # "body" /\ Item \in Items
    BY <1>0, <2>1, NextBody, SeqLemma DEF TypeOK, Item
  <2>3. Item.kind = "type"
    BY <2>2 DEF Items
  <2>4. reader'.at = "body"
    BY <1>1, <2>3 DEF ReadType
  <2> QED BY <2>4 DEF GivesUpOnOverlap
<1>2. CASE ReadBody
  <2>1. /\ reader.at = "body" /\ got < Len(wire) /\ got' = got + 1 /\ wire' = wire
        /\ reader' = [at |-> IF Decoded(reader.item, Item) = Invalid THEN "ended" ELSE "type", item |-> NoMsg]
    BY <1>2 DEF ReadBody
  <2>2. Item = wire[got + 1] /\ Item \in Items
    BY <1>0, <2>1, SeqLemma DEF TypeOK, Item
  <2>3. CASE Item.kind = "type"
    <3>1. got > 0 /\ wire[got].kind = "type"
      BY <1>0, <2>1 DEF Paired
    <3>2. got \in 1..got' - 1
      BY <1>0, <2>1, <3>1
    <3> QED BY <2>1, <2>2, <2>3, <3>1, <3>2 DEF GivesUpOnOverlap
  <2>4. CASE Item.kind = "body"
    <3>1. reader.item.msg = Item.msg /\ Item.msg \in MessagesOf[Item.from] /\ Item.from \in Senders
      BY <1>0, <2>1, <2>2, <2>4, NextBody DEF Items
    <3>2. Decoded(reader.item, Item) # Invalid
      BY <2>4, <3>1, DecodedLemma
    <3> QED BY <2>1, <3>2 DEF GivesUpOnOverlap
  <2> QED BY <2>2, <2>3, <2>4 DEF Items
<1>3. CASE ReadFails
  BY <1>3 DEF ReadFails, GivesUpOnOverlap
<1>4. CASE UNCHANGED <<got, reader>> /\ \A k \in 1..got : wire'[k] = wire[k]
  <2>1. broken => broken'
    <3>1. \A s \in Senders : EncodeType(s) \/ EncodeBody(s) => UNCHANGED broken
      BY DEF EncodeType, EncodeBody, Write
    <3>2. \A s \in Senders : Check(s) \/ (\E m \in MessagesOf[s] : Begin(s, m)) => UNCHANGED broken
      BY DEF Check, Begin
    <3> QED BY <3>1, <3>2, SenderSteps DEF LinkCloses, Break, ReadType, ReadBody, ReadFails, Serve, vars
  <2>2. \A k \in 1..got - 1 : k \in 1..got /\ k + 1 \in 1..got
    BY <1>0
  <2> QED BY <1>4, <2>1, <2>2 DEF GivesUpOnOverlap
<1> QED BY <1>0, <1>1, <1>2, <1>3, <1>4, WireKept

\* A reader whose connection is not lost gives up on a message only if two
\* sends have overlapped.
THEOREM OnlyOverlapEndsReader == UrlsReadBack => (Spec => []GivesUpOnOverlap)
PROOF
<1> SUFFICES ASSUME UrlsReadBack PROVE Spec => []GivesUpOnOverlap
  OBVIOUS
<1>1. Init => GivesUpOnOverlap
  BY DEF Init, GivesUpOnOverlap
<1>2. IInv /\ GivesUpOnOverlap /\ [Next]_vars => GivesUpOnOverlap'
  BY GivesUpStep
<1> QED BY <1>1, <1>2, Invariance, PTL DEF Spec
=============================================================================
