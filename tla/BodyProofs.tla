----------------------------- MODULE BodyProofs -----------------------------
(***************************************************************************)
(* What extractAttributes makes of a message, for bodies of any length and *)
(* of any size, and what findProperty finds in a document, for documents   *)
(* of any length and depth.  Both are proved by induction, on the objects  *)
(* of the message and on the values of the document from the last one back:*)
(* that there is no least counterexample is that < is well-founded.        *)
(***************************************************************************)
EXTENDS MessageBodies, ArgoKeys, WellFoundedInduction, TLAPS

-----------------------------------------------------------------------------
(* Induction over the natural numbers, for a set of them.                  *)

LEMMA LeastElement ==
  ASSUME NEW T, T \subseteq Nat, T # {}
  PROVE  \E n \in T : \A m \in T : n <= m
<1>1. PICK n \in T : \A m \in T : ~ (<<m, n>> \in OpToRel(<, Nat))
  BY NatLessThanWellFounded, WFMin
<1>2. \A m \in T : <<m, n>> \in OpToRel(<, Nat) <=> m < n
  BY DEF OpToRel
<1>3. ASSUME NEW m \in T PROVE n <= m
  <2>1. ~ (m < n)
    BY <1>1, <1>2
  <2>2. m \in Nat /\ n \in Nat
    OBVIOUS
  <2> QED BY <2>1, <2>2
<1> QED BY <1>3

LEMMA Induction ==
  ASSUME NEW S, 0 \in S, \A n \in Nat : n \in S => n + 1 \in S
  PROVE  Nat \subseteq S
<1> DEFINE T == {n \in Nat : n \notin S}
<1>1. SUFFICES ASSUME T # {} PROVE FALSE
  OBVIOUS
<1>2. PICK n \in T : \A m \in T : n <= m
  <2> T \subseteq Nat
    OBVIOUS
  <2> HIDE DEF T
  <2> QED BY <1>1, LeastElement
<1>3. n \in Nat /\ n # 0 /\ n - 1 \in Nat
  BY <1>2
<1>4. n - 1 \in S
  BY <1>2, <1>3
<1>5. n - 1 + 1 \in S
  BY <1>3, <1>4
<1> QED BY <1>2, <1>3, <1>5

-----------------------------------------------------------------------------
(* FlattenSeq.                                                             *)

\* What the function FlattenSeq chooses is at i: the first i sequences together.
Joined(flat, seqs, i) == IF i = 1 THEN seqs[i] ELSE flat[i - 1] \o seqs[i]

Flattens(flat, seqs, n) == flat = [i \in 1..n |-> Joined(flat, seqs, i)]

LEMMA FlatExists ==
  ASSUME NEW seqs, NEW n \in Nat
  PROVE  \E flat : Flattens(flat, seqs, n)
<1> DEFINE S == {k \in Nat : \E flat : Flattens(flat, seqs, k)}
<1>1. 0 \in S
  <2> DEFINE flat == [i \in 1..0 |-> 0]
  <2>1. Flattens(flat, seqs, 0)
    BY DEF Flattens
  <2> QED BY <2>1
<1>2. ASSUME NEW k \in Nat, k \in S PROVE k + 1 \in S
  <2>1. PICK flat : Flattens(flat, seqs, k)
    BY <1>2
  <2>2. \A i \in 1..k : flat[i] = Joined(flat, seqs, i)
    BY <2>1 DEF Flattens
  <2> DEFINE more == [i \in 1..(k + 1) |-> Joined(flat, seqs, i)]
  <2>3. ASSUME NEW i \in 1..(k + 1)
        PROVE  Joined(flat, seqs, i) = Joined(more, seqs, i)
    <3>1. CASE i = 1
      BY <3>1 DEF Joined
    <3>2. CASE i # 1
      <4>1. i - 1 \in 1..k /\ i - 1 \in 1..(k + 1)
        BY <3>2
      <4>2. more[i - 1] = flat[i - 1]
        BY <2>2, <4>1
      <4> HIDE DEF more
      <4> QED BY <4>2, Zenon DEF Joined
    <3> QED BY <3>1, <3>2
  <2>4. Flattens(more, seqs, k + 1)
    BY <2>3, Zenon DEF Flattens
  <2> HIDE DEF more
  <2>5. k + 1 \in Nat
    OBVIOUS
  <2> QED BY <2>4, <2>5
<1> HIDE DEF S
<1>3. n \in S
  BY <1>1, <1>2, Induction
<1> QED BY <1>3 DEF S

\* FlattenSeq, one sequence after the other.
Prefixed(flat, seqs, n) ==
  /\ FlattenSeq(seqs) = flat[n]
  /\ flat[1] = seqs[1]
  /\ \A i \in 1..(n - 1) : flat[i + 1] = flat[i] \o seqs[i + 1]

LEMMA Flattened ==
  ASSUME NEW seqs, NEW n \in Nat \ {0}, Len(seqs) = n
  PROVE  \E flat : Prefixed(flat, seqs, n)
<1> DEFINE flat == CHOOSE f : Flattens(f, seqs, n)
<1>1. Flattens(flat, seqs, n)
  BY FlatExists
<1>2. FlattenSeq(seqs) = flat[n]
  BY DEF FlattenSeq, Flattens, Joined
<1> HIDE DEF flat
<1>3. \A i \in 1..n : flat[i] = Joined(flat, seqs, i)
  BY <1>1 DEF Flattens
<1>4. flat[1] = seqs[1]
  BY <1>3 DEF Joined
<1>5. ASSUME NEW i \in 1..(n - 1) PROVE flat[i + 1] = flat[i] \o seqs[i + 1]
  <2>1. i + 1 \in 1..n /\ i + 1 # 1 /\ (i + 1) - 1 = i
    OBVIOUS
  <2>2. flat[i + 1] = flat[(i + 1) - 1] \o seqs[i + 1]
    BY <1>3, <2>1, Zenon DEF Joined
  <2> QED BY <2>1, <2>2
<1> QED BY <1>2, <1>4, <1>5 DEF Prefixed

-----------------------------------------------------------------------------
(* The groups of the attributes.                                           *)

Before(g, h) == g[1] < h[1] \/ (g[1] = h[1] /\ g[2] < h[2])

\* The groups of the first i objects, of the given sizes.
InOrder(groups, size, i) ==
  /\ groups \in Seq(Nat \X Nat)
  /\ \A p \in DOMAIN groups : groups[p][1] \in 1..i /\ groups[p][2] \in 1..size[groups[p][1]]
  /\ \A j \in 1..i : \A e \in 1..size[j] : \E p \in DOMAIN groups : groups[p] = <<j, e>>
  /\ \A p, q \in DOMAIN groups : p < q => Before(groups[p], groups[q])

LEMMA GroupsOfObject ==
  ASSUME NEW i \in Nat, NEW k \in Nat, NEW t, t = [e \in 1..k |-> <<i, e>>]
  PROVE  t \in Seq(Nat \X Nat) /\ Len(t) = k
OBVIOUS

LEMMA Concatenated ==
  ASSUME NEW T, NEW s \in Seq(T), NEW t \in Seq(T)
  PROVE  /\ s \o t \in Seq(T)
         /\ DOMAIN s = 1..Len(s) /\ Len(s) \in Nat /\ Len(t) \in Nat
         /\ DOMAIN (s \o t) = 1..(Len(s) + Len(t))
         /\ \A p \in 1..(Len(s) + Len(t)) : (s \o t)[p] = IF p > Len(s) THEN t[p - Len(s)] ELSE s[p]
OBVIOUS

\* The groups of one object more come after those of the others.
LEMMA OneObjectMore ==
  ASSUME NEW n \in Nat, NEW size \in [1..n -> Nat], NEW i \in Nat, i + 1 \in 1..n,
         NEW s, InOrder(s, size, i)
  PROVE  InOrder(s \o [e \in 1..size[i + 1] |-> <<i + 1, e>>], size, i + 1)
<1> DEFINE k == size[i + 1]
           t == [e \in 1..k |-> <<i + 1, e>>]
           groups == s \o t
<1>1. k \in Nat
  OBVIOUS
<1>2. t \in Seq(Nat \X Nat) /\ Len(t) = k /\ s \in Seq(Nat \X Nat) /\ \A e \in 1..k : t[e] = <<i + 1, e>>
  <2>1. s \in Seq(Nat \X Nat)
    BY DEF InOrder
  <2>2. i + 1 \in Nat /\ \A e \in 1..k : t[e] = <<i + 1, e>>
    OBVIOUS
  <2>3. t \in Seq(Nat \X Nat) /\ Len(t) = k
    BY <1>1, <2>2, GroupsOfObject
  <2> QED BY <2>1, <2>2, <2>3
<1> HIDE DEF t, k
<1>3. /\ groups \in Seq(Nat \X Nat) /\ DOMAIN s = 1..Len(s)
      /\ DOMAIN groups = 1..(Len(s) + k)
      /\ \A p \in 1..(Len(s) + k) : groups[p] = IF p > Len(s) THEN t[p - Len(s)] ELSE s[p]
  <2>1. /\ groups \in Seq(Nat \X Nat) /\ DOMAIN s = 1..Len(s)
        /\ DOMAIN groups = 1..(Len(s) + Len(t))
        /\ \A p \in 1..(Len(s) + Len(t)) : groups[p] = IF p > Len(s) THEN t[p - Len(s)] ELSE s[p]
    BY <1>2, Concatenated
  <2> QED BY <1>2, <2>1
<1>4. Len(s) \in Nat
  BY <1>2
<1> HIDE DEF groups
<1>5. ASSUME NEW p \in 1..(Len(s) + k), p > Len(s)
      PROVE  p - Len(s) \in 1..k /\ groups[p] = <<i + 1, p - Len(s)>>
  <2>1. p - Len(s) \in 1..k
    BY <1>1, <1>4, <1>5
  <2> QED BY <2>1, <1>2, <1>3, <1>5
<1>6. ASSUME NEW p \in 1..(Len(s) + k), ~ (p > Len(s))
      PROVE  p \in 1..Len(s) /\ groups[p] = s[p] /\ s[p][1] \in 1..i /\ s[p][2] \in 1..size[s[p][1]]
  <2>1. p \in 1..Len(s)
    BY <1>1, <1>4, <1>6
  <2>2. \A r \in DOMAIN s : s[r][1] \in 1..i /\ s[r][2] \in 1..size[s[r][1]]
    BY DEF InOrder
  <2>3. groups[p] = s[p] /\ p \in DOMAIN s
    BY <2>1, <1>3, <1>6
  <2> QED BY <2>1, <2>2, <2>3
<1>7. \A p \in DOMAIN groups : groups[p][1] \in 1..(i + 1) /\ groups[p][2] \in 1..size[groups[p][1]]
  <2> SUFFICES ASSUME NEW p \in 1..(Len(s) + k)
               PROVE  groups[p][1] \in 1..(i + 1) /\ groups[p][2] \in 1..size[groups[p][1]]
    BY <1>3
  <2>1. CASE p > Len(s)
    BY <2>1, <1>5 DEF k
  <2>2. CASE ~ (p > Len(s))
    BY <2>2, <1>6
  <2> QED BY <2>1, <2>2
<1>8. ASSUME NEW j \in 1..(i + 1), NEW e \in 1..size[j]
      PROVE  \E p \in DOMAIN groups : groups[p] = <<j, e>>
  <2>1. CASE j = i + 1
    <3>1. e \in 1..k
      BY <2>1 DEF k
    <3>2. Len(s) + e \in 1..(Len(s) + k) /\ Len(s) + e > Len(s) /\ (Len(s) + e) - Len(s) = e
      BY <3>1, <1>1, <1>4
    <3>3. groups[Len(s) + e] = <<i + 1, e>>
      BY <3>2, <1>5
    <3> QED BY <2>1, <3>2, <3>3, <1>3
  <2>2. CASE j # i + 1
    <3>1. j \in 1..i
      BY <2>2
    <3>2. PICK p \in DOMAIN s : s[p] = <<j, e>>
      BY <3>1 DEF InOrder
    <3>3. p \in 1..(Len(s) + k)
      BY <1>1, <1>3, <1>4
    <3> QED BY <3>2, <3>3, <1>3
  <2> QED BY <2>1, <2>2
<1>9. ASSUME NEW p \in DOMAIN groups, NEW q \in DOMAIN groups, p < q
      PROVE  Before(groups[p], groups[q])
  <2>0. p \in 1..(Len(s) + k) /\ q \in 1..(Len(s) + k)
    BY <1>3
  <2>1. CASE p > Len(s)
    <3>1. groups[p] = <<i + 1, p - Len(s)>> /\ groups[q] = <<i + 1, q - Len(s)>>
      <4>1. q > Len(s)
        BY <2>0, <2>1, <1>4, <1>9
      <4> QED BY <2>0, <2>1, <4>1, <1>5
    <3>2. p - Len(s) < q - Len(s)
      BY <2>0, <1>4, <1>9
    <3> QED BY <3>1, <3>2 DEF Before
  <2>2. CASE ~ (p > Len(s)) /\ q > Len(s)
    <3>1. groups[p][1] \in 1..i /\ groups[q] = <<i + 1, q - Len(s)>>
      BY <2>0, <2>2, <1>5, <1>6
    <3>2. groups[p][1] < groups[q][1]
      BY <3>1
    <3> QED BY <3>2 DEF Before
  <2>3. CASE ~ (p > Len(s)) /\ ~ (q > Len(s))
    <3>1. p \in DOMAIN s /\ q \in DOMAIN s /\ groups[p] = s[p] /\ groups[q] = s[q]
      BY <2>0, <2>3, <1>3, <1>6
    <3> QED BY <3>1, <1>9 DEF InOrder
  <2> QED BY <2>1, <2>2, <2>3
<1> QED BY <1>3, <1>7, <1>8, <1>9 DEF InOrder, groups, t, k

\* The groups of n objects, flattened.
LEMMA GroupsFlattened ==
  ASSUME NEW n \in Nat, NEW size \in [1..n -> Nat], NEW lists,
         lists = [j \in 1..n |-> [e \in 1..size[j] |-> <<j, e>>]]
  PROVE  InOrder(FlattenSeq(lists), size, n)
<1>1. Len(lists) = n /\ \A j \in 1..n : lists[j] = [e \in 1..size[j] |-> <<j, e>>]
  OBVIOUS
<1>2. InOrder(<<>>, size, 0)
  BY DEF InOrder
<1>3. CASE n = 0
  <2>1. lists = <<>> /\ Len(<<>>) = 0
    BY <1>3
  <2>2. FlattenSeq(<<>>) = <<>>
    BY <2>1 DEF FlattenSeq
  <2> QED BY <1>2, <1>3, <2>1, <2>2
<1>4. CASE n # 0
  <2>0. PICK flat : Prefixed(flat, lists, n)
    <3>1. n \in Nat \ {0} /\ Len(lists) = n
      BY <1>1, <1>4
    <3> QED BY <3>1, Flattened
  <2>1. /\ FlattenSeq(lists) = flat[n]
        /\ flat[1] = lists[1]
        /\ \A i \in 1..(n - 1) : flat[i + 1] = flat[i] \o lists[i + 1]
    BY <2>0 DEF Prefixed
  <2> DEFINE S == {i \in Nat : i \in 1..n => InOrder(flat[i], size, i)}
  <2>2. 0 \in S
    OBVIOUS
  <2>3. ASSUME NEW i \in Nat, i \in S, i + 1 \in 1..n PROVE InOrder(flat[i + 1], size, i + 1)
    <3>1. CASE i = 0
      <4>0. 1 \in 1..n
        BY <1>4
      <4>1. lists[1] = [e \in 1..size[1] |-> <<1, e>>] /\ size[1] \in Nat
        <5>1. size[1] \in Nat
          BY <4>0
        <5> QED BY <1>1, <4>0, <5>1, Zenon
      <4>2. lists[1] \in Seq(Nat \X Nat)
        BY <4>1, GroupsOfObject
      <4>3. <<>> \o lists[1] = lists[1]
        BY <4>2
      <4>4. InOrder(<<>> \o lists[0 + 1], size, 0 + 1)
        BY <1>1, <1>2, <2>3, <3>1, OneObjectMore
      <4> QED BY <2>1, <3>1, <4>3, <4>4
    <3>2. CASE i # 0
      <4>1. i \in 1..n /\ i \in 1..(n - 1)
        BY <2>3, <3>2
      <4>2. InOrder(flat[i], size, i)
        BY <2>3, <4>1
      <4>3. flat[i + 1] = flat[i] \o [e \in 1..size[i + 1] |-> <<i + 1, e>>]
        BY <1>1, <2>1, <2>3, <4>1
      <4> QED BY <2>3, <4>2, <4>3, OneObjectMore
    <3> QED BY <3>1, <3>2
  <2>4. \A i \in Nat : i \in S => i + 1 \in S
    BY <2>3
  <2> HIDE DEF S
  <2>5. n \in S
    BY <2>2, <2>4, Induction
  <2>6. InOrder(flat[n], size, n)
    BY <1>4, <2>5 DEF S
  <2> QED BY <2>1, <2>6
<1> QED BY <1>3, <1>4

-----------------------------------------------------------------------------
(* Bodies.                                                                 *)

LEMMA BodyShape ==
  ASSUME NEW body \in Body
  PROVE  /\ body = [form |-> body.form, items |-> body.items]
         /\ body.form \in {"raw", "value", "array"}
         /\ body.items \in Seq(Value)
         /\ body.form # "array" => Len(body.items) = 1
<1>1. body \in [form : {"raw", "value", "array"}, items : BoundedSeq(Value, MaxLength)]
  BY DEF Body
<1>2. BoundedSeq(Value, MaxLength) \subseteq Seq(Value)
  BY MessageBodiesAssumption DEF BoundedSeq, SeqOf
<1> QED BY <1>1, <1>2 DEF Body

\* What was parsed of a body that is JSON and no array of one element: its values, each
\* on its own.
LEMMA ParsedShape ==
  ASSUME NEW transport, NEW body \in Body, ~ OneElementArray(body), body.form # "raw"
  PROVE  /\ DOMAIN Parsed(transport, body) = 1..Len(body.items)
         /\ Len(Parsed(transport, body)) = Len(body.items)
         /\ \A j \in 1..Len(body.items) :
              /\ Parsed(transport, body)[j].form = "value"
              /\ Parsed(transport, body)[j].items = <<body.items[j]>>
<1>1. /\ body = [form |-> body.form, items |-> body.items]
      /\ body.items \in Seq(Value) /\ DOMAIN body.items = 1..Len(body.items) /\ Len(body.items) \in Nat
  BY BodyShape
<1>2. CASE body.form = "value"
  <2>1. Len(body.items) = 1 /\ Parsed(transport, body) = <<body>>
    BY <1>2, BodyShape DEF Parsed, Undivided
  <2>2. body.items = <<body.items[1]>>
    BY <1>1, <2>1
  <2>3. 1..Len(body.items) = {1}
    BY <2>1
  <2> QED BY <1>2, <2>1, <2>2, <2>3
<1>3. CASE body.form = "array"
  <2>1. Parsed(transport, body) = [j \in 1..Len(body.items) |-> Of(body.items[j])]
    BY <1>1, <1>3 DEF Parsed, OneElementArray
  <2> QED BY <1>1, <2>1 DEF Of
<1> QED BY <1>2, <1>3, BodyShape

\* The value of a single measure is the body, for every JSON value and every array of
\* them: parseMessage and singleMeasure undo each other.  A body that is no JSON is kept
\* as the text it is, except over MQTT, where it is the same text in hexadecimal.
THEOREM SingleValueIsBody ==
  ASSUME NEW transport \in Transport, NEW body \in Body
  PROVE  LET value == SingleValue(Parsed(transport, body))
         IN  /\ value.items = body.items
             /\ value.form = IF body.form = "raw" /\ transport = "MQTT" THEN "hex" ELSE body.form
<1>1. CASE OneElementArray(body) \/ body.form # "array"
  <2>1. Parsed(transport, body) = <<Undivided(transport, body)>>
    BY <1>1 DEF Parsed, OneElementArray
  <2>2. SingleValue(Parsed(transport, body)) = Undivided(transport, body)
    BY <2>1 DEF SingleValue
  <2>3. body = [form |-> body.form, items |-> body.items]
    BY BodyShape
  <2> QED BY <2>2, <2>3 DEF Undivided
<1>2. CASE ~ OneElementArray(body) /\ body.form = "array"
  <2> DEFINE n == Len(body.items)
             parsed == Parsed(transport, body)
  <2>1. n # 1 /\ n \in Nat
    BY <1>2, BodyShape DEF OneElementArray
  <2>2. DOMAIN parsed = 1..n /\ Len(parsed) = n /\ \A j \in 1..n : parsed[j].items = <<body.items[j]>>
    BY <1>2, ParsedShape
  <2>3. SingleValue(parsed) = [form |-> "array", items |-> [j \in 1..n |-> parsed[j].items[1]]]
    BY <2>1, <2>2 DEF SingleValue
  <2>4. \A j \in 1..n : parsed[j].items[1] = body.items[j]
    BY <2>2
  <2>5. body.items = [j \in 1..n |-> body.items[j]]
    BY BodyShape
  <2>6. [j \in 1..n |-> parsed[j].items[1]] = body.items
    BY <2>4, <2>5
  <2> HIDE DEF n, parsed
  <2>7. SingleValue(parsed) = [form |-> "array", items |-> body.items]
    BY <2>3, <2>6
  <2> QED BY <1>2, <2>7 DEF parsed
<1> QED BY <1>1, <1>2

\* The groups of attributes of a message made of objects are those of the message, all
\* of them, once, and in their order, for any number of objects and of entities, under
\* both kinds of payload types, unless the message has a group that is mistaken.
\* (parseMessage, extractAttributes, multipleMeasures)
THEOREM GroupsInOrder ==
  ASSUME NEW transport, NEW payload, NEW body \in Body, ~ Mistaken(payload, body),
         \A j \in DOMAIN Parsed(transport, body) : IsObject(Parsed(transport, body)[j])
  PROVE  InBodyOrder(Groups(payload, Parsed(transport, body)), payload, body)
<1> DEFINE n == Len(body.items)
           size == [j \in 1..n |-> Entities(payload, body.items[j])]
           parsed == Parsed(transport, body)
<1>0. ~ OneElementArray(body) /\ \A j \in DOMAIN body.items : ~ Nested(payload, body.items[j])
  BY DEF Mistaken
<1>1. body.form # "raw"
  <2> SUFFICES ASSUME body.form = "raw" PROVE FALSE
    OBVIOUS
  <2> DEFINE x == Undivided(transport, body)
  <2>1. parsed = <<x>> /\ 1 \in DOMAIN <<x>> /\ <<x>>[1] = x
    BY DEF Parsed
  <2>2. x.form \in {"raw", "hex"}
    <3>1. body = [form |-> body.form, items |-> body.items]
      BY BodyShape
    <3> QED BY <3>1 DEF Undivided
  <2> QED BY <2>1, <2>2 DEF IsObject
<1>2. n \in Nat /\ body.items \in Seq(Value) /\ DOMAIN body.items = 1..n
  BY BodyShape
<1>3. size \in [1..n -> Nat]
  <2>1. \A j \in 1..n : body.items[j] \in Value
    BY <1>2
  <2>2. \A j \in 1..n : Entities(payload, body.items[j]) \in Nat
    BY <2>1, MessageBodiesAssumption DEF Value, Entities
  <2> QED BY <2>2
<1>4. /\ DOMAIN parsed = 1..n
      /\ \A j \in 1..n : parsed[j].form = "value" /\ parsed[j].items = <<body.items[j]>>
  BY <1>0, <1>1, ParsedShape
<1>5. Groups(payload, parsed) = FlattenSeq([j \in 1..n |-> [e \in 1..size[j] |-> <<j, e>>]])
  <2>1. ASSUME NEW j \in 1..n
        PROVE  Extracted(payload, j, parsed[j]) = [e \in 1..size[j] |-> <<j, e>>]
    <3>1. /\ parsed[j].form = "value" /\ parsed[j].items[1] = body.items[j]
          /\ ~ Nested(payload, body.items[j]) /\ size[j] = Entities(payload, body.items[j])
      BY <1>0, <1>2, <1>4
    <3> HIDE DEF parsed, size
    <3> QED BY <3>1 DEF Extracted
  <2>2. [j \in 1..n |-> Extracted(payload, j, parsed[j])] = [j \in 1..n |-> [e \in 1..size[j] |-> <<j, e>>]]
    BY <2>1, Zenon
  <2> QED BY <1>4, <2>2, Zenon DEF Groups
<1>6. InOrder(Groups(payload, parsed), size, n)
  <2> HIDE DEF size
  <2> QED BY <1>2, <1>3, <1>5, GroupsFlattened
<1> DEFINE groups == Groups(payload, parsed)
<1>7. InOrder(groups, size, n)
  BY <1>6
<1> HIDE DEF groups
<1>8. /\ groups \in Seq(Nat \X Nat)
      /\ \A p \in DOMAIN groups : groups[p][1] \in 1..n /\ groups[p][2] \in 1..size[groups[p][1]]
      /\ \A j \in 1..n : \A e \in 1..size[j] : \E p \in DOMAIN groups : groups[p] = <<j, e>>
      /\ \A p, q \in DOMAIN groups : p < q => Before(groups[p], groups[q])
  BY <1>7 DEF InOrder
<1>9. \A j \in 1..n : size[j] = Entities(payload, body.items[j])
  OBVIOUS
<1> HIDE DEF size, n, parsed
<1>10. \A p \in DOMAIN groups : groups[p] = <<groups[p][1], groups[p][2]>>
  BY <1>8
<1>11. {groups[p] : p \in DOMAIN groups} =
         UNION {{<<j, e>> : e \in 1..Entities(payload, body.items[j])} : j \in DOMAIN body.items}
  <2> DEFINE all == UNION {{<<j, e>> : e \in 1..Entities(payload, body.items[j])} : j \in DOMAIN body.items}
  <2>1. ASSUME NEW p \in DOMAIN groups PROVE groups[p] \in all
    <3>1. groups[p][1] \in 1..n /\ groups[p][2] \in 1..Entities(payload, body.items[groups[p][1]])
      BY <1>8, <1>9
    <3>2. groups[p] \in {<<groups[p][1], e>> : e \in 1..Entities(payload, body.items[groups[p][1]])}
      BY <3>1, <1>10
    <3> QED BY <3>1, <3>2, <1>2
  <2>2. ASSUME NEW j \in DOMAIN body.items, NEW e \in 1..Entities(payload, body.items[j])
        PROVE  <<j, e>> \in {groups[p] : p \in DOMAIN groups}
    BY <1>2, <1>8, <1>9
  <2> QED BY <2>1, <2>2
<1>12. \A p, q \in DOMAIN groups : p < q =>
         groups[p][1] < groups[q][1] \/ (groups[p][1] = groups[q][1] /\ groups[p][2] < groups[q][2])
  BY <1>8 DEF Before
<1> QED BY <1>11, <1>12 DEF InBodyOrder, groups, parsed

-----------------------------------------------------------------------------
(* The least and the greatest of a set of numbers.                         *)

LEMMA MinIsLeast ==
  ASSUME NEW T, T \subseteq Nat, T # {}
  PROVE  Min(T) \in T /\ \A m \in T : Min(T) <= m
BY LeastElement DEF Min

LEMMA LeastIsMin ==
  ASSUME NEW T, T \subseteq Nat, NEW n \in T, \A m \in T : n <= m
  PROVE  Min(T) = n
<1>1. Min(T) \in T /\ \A m \in T : Min(T) <= m
  BY MinIsLeast
<1>2. Min(T) <= n /\ n <= Min(T) /\ Min(T) \in Nat /\ n \in Nat
  BY <1>1
<1> QED BY <1>2

LEMMA GreatestElement ==
  ASSUME NEW w \in Nat, NEW T, T \subseteq 0..w, T # {}
  PROVE  \E n \in T : \A m \in T : m <= n
<1> DEFINE S == {w - m : m \in T}
<1>1. S \subseteq Nat /\ S # {}
  <2>1. \A m \in T : w - m \in Nat
    OBVIOUS
  <2>2. PICK m \in T : TRUE
    OBVIOUS
  <2>3. w - m \in S
    OBVIOUS
  <2> QED BY <2>1, <2>3
<1>2. PICK d \in S : \A e \in S : d <= e
  BY <1>1, LeastElement
<1>3. PICK n \in T : d = w - n
  BY <1>2
<1>4. ASSUME NEW m \in T PROVE m <= n
  <2>1. w - n <= w - m /\ n \in 0..w /\ m \in 0..w
    BY <1>2, <1>3
  <2> QED BY <2>1
<1> QED BY <1>4

-----------------------------------------------------------------------------
(* The outline of a document.                                              *)

LEMMA OutlineShape ==
  ASSUME NEW doc, Outline(doc)
  PROVE  /\ Len(doc) \in Nat \ {0} /\ DOMAIN doc = 1..Len(doc)
         /\ \A v \in 1..Len(doc) : doc[v].level \in Nat
         /\ \A v \in 1..(Len(doc) - 1) : doc[v + 1].level \in 1..(doc[v].level + 1)
<1>1. doc \in Seq(Outlined) /\ doc # <<>>
  BY DEF Outline
<1>2. Len(doc) \in Nat /\ DOMAIN doc = 1..Len(doc) /\ Len(doc) # 0
  BY <1>1
<1>3. \A v \in 1..Len(doc) : doc[v] \in Outlined
  BY <1>1, <1>2
<1> QED BY <1>2, <1>3 DEF Outline, Outlined

\* What is in a value of v is in v.
LEMMA InsideChild ==
  ASSUME NEW doc, Outline(doc), NEW v \in 1..Len(doc), NEW c \in Children(doc, v)
  PROVE  Inside(doc, c) \subseteq Inside(doc, v)
<1>1. /\ c \in (v + 1)..Len(doc) /\ \A u \in (v + 1)..c : doc[u].level > doc[v].level
      /\ doc[c].level = doc[v].level + 1
  BY DEF Children, Inside
<1>2. SUFFICES ASSUME NEW w \in Inside(doc, c) PROVE w \in Inside(doc, v)
  OBVIOUS
<1>3. w \in (c + 1)..Len(doc) /\ \A u \in (c + 1)..w : doc[u].level > doc[c].level
  BY DEF Inside
<1>4. Len(doc) \in Nat
  BY OutlineShape
<1>5. ASSUME NEW u \in (v + 1)..w PROVE doc[u].level > doc[v].level
  <2>1. u \in 1..Len(doc)
    BY <1>1, <1>3, <1>4
  <2>2. doc[u].level \in Nat /\ doc[v].level \in Nat
    BY <2>1, OutlineShape
  <2>3. CASE u <= c
    BY <1>1, <2>1, <2>3
  <2>4. CASE ~ (u <= c)
    <3>1. u \in (c + 1)..w
      BY <1>1, <1>3, <1>4, <2>4
    <3>2. doc[u].level > doc[c].level
      BY <3>1, <1>3
    <3> QED BY <1>1, <2>2, <3>2
  <2> QED BY <2>3, <2>4
<1>6. w \in (v + 1)..Len(doc)
  BY <1>1, <1>3, <1>4
<1> QED BY <1>5, <1>6 DEF Inside

\* What is in v is one of its values or in one of them.
LEMMA InsideIsChild ==
  ASSUME NEW doc, Outline(doc), NEW v \in 1..Len(doc), NEW w \in Inside(doc, v)
  PROVE  \E c \in Children(doc, v) : w = c \/ w \in Inside(doc, c)
<1> DEFINE T == {c \in (v + 1)..w : doc[c].level = doc[v].level + 1}
<1>1. w \in (v + 1)..Len(doc) /\ \A u \in (v + 1)..w : doc[u].level > doc[v].level
  BY DEF Inside
<1>2. Len(doc) \in Nat /\ v \in Nat /\ w \in Nat /\ (v + 1)..w \subseteq 1..Len(doc)
  <2>1. Len(doc) \in Nat
    BY OutlineShape
  <2> QED BY <1>1, <2>1
<1>3. \A u \in (v + 1)..w : doc[u].level \in Nat
  BY <1>2, OutlineShape
<1>4. v + 1 \in T
  <2>1. v \in 1..(Len(doc) - 1) /\ v + 1 \in (v + 1)..w
    BY <1>1, <1>2
  <2>2. doc[v + 1].level \in 1..(doc[v].level + 1) /\ doc[v].level \in Nat
    BY <2>1, OutlineShape
  <2>3. doc[v + 1].level > doc[v].level
    BY <1>1, <2>1
  <2>4. doc[v + 1].level = doc[v].level + 1
    BY <2>2, <2>3
  <2> QED BY <2>1, <2>4
<1>5. T \subseteq 0..w
  BY <1>2
<1>6. PICK c \in T : \A d \in T : d <= c
  <2> HIDE DEF T
  <2> QED BY <1>2, <1>4, <1>5, GreatestElement
<1>7. c \in (v + 1)..w /\ doc[c].level = doc[v].level + 1
  BY <1>6
<1>8. c \in Children(doc, v)
  <2>1. c \in (v + 1)..Len(doc) /\ (v + 1)..c \subseteq (v + 1)..w
    BY <1>1, <1>2, <1>7
  <2> QED BY <1>1, <1>7, <2>1 DEF Children, Inside
<1>9. ASSUME NEW u \in (c + 1)..w PROVE doc[u].level > doc[c].level
  <2>1. u \in (v + 1)..w /\ ~ (u <= c)
    BY <1>2, <1>7
  <2>2. doc[u].level # doc[v].level + 1
    BY <1>6, <2>1
  <2>3. doc[u].level > doc[v].level /\ doc[u].level \in Nat /\ doc[v].level \in Nat
    BY <1>1, <1>3, <2>1, OutlineShape
  <2> QED BY <1>7, <2>2, <2>3
<1>10. w = c \/ w \in (c + 1)..Len(doc)
  BY <1>1, <1>2, <1>7
<1> QED BY <1>8, <1>9, <1>10 DEF Inside

\* What is in a value of v comes before the values of v after it.
LEMMA InsideBefore ==
  ASSUME NEW doc, Outline(doc), NEW v \in 1..Len(doc),
         NEW c \in Children(doc, v), NEW d \in Children(doc, v), c < d,
         NEW w \in Inside(doc, c)
  PROVE  w < d
<1>1. /\ doc[c].level = doc[v].level + 1 /\ doc[d].level = doc[v].level + 1
      /\ c \in (v + 1)..Len(doc) /\ d \in (v + 1)..Len(doc)
      /\ w \in (c + 1)..Len(doc) /\ \A u \in (c + 1)..w : doc[u].level > doc[c].level
  BY DEF Children, Inside
<1>2. Len(doc) \in Nat /\ doc[v].level \in Nat
  BY OutlineShape
<1>3. SUFFICES ASSUME ~ (w < d) PROVE FALSE
  OBVIOUS
<1>4. d \in (c + 1)..w
  BY <1>1, <1>2, <1>3
<1>5. doc[d].level > doc[c].level
  BY <1>1, <1>4
<1> QED BY <1>1, <1>2, <1>5

-----------------------------------------------------------------------------
(* findProperty.                                                           *)

\* The value of the recursion of FindProperty at v.
Finding(doc, find, v) ==
  LET hits == {c \in Children(doc, v) : Matches(doc, c) \/ find[c] # 0}
  IN  IF doc[v].level >= MaxDepth \/ hits = {} THEN 0
      ELSE IF Matches(doc, Min(hits)) THEN Min(hits) ELSE find[Min(hits)]

LEMMA ChildrenAfter ==
  ASSUME NEW doc, Outline(doc), NEW v \in 1..Len(doc)
  PROVE  Children(doc, v) \subseteq (v + 1)..Len(doc) /\ Children(doc, v) \subseteq Nat
<1>1. Len(doc) \in Nat
  BY OutlineShape
<1> QED BY <1>1 DEF Children, Inside

\* The recursion at v asks for the values of v only.
LEMMA FindingIsLocal ==
  ASSUME NEW doc, Outline(doc), NEW v \in 1..Len(doc), NEW f, NEW g,
         \A c \in Children(doc, v) : f[c] = g[c]
  PROVE  Finding(doc, f, v) = Finding(doc, g, v)
<1> DEFINE hits == {c \in Children(doc, v) : Matches(doc, c) \/ f[c] # 0}
<1>1. hits = {c \in Children(doc, v) : Matches(doc, c) \/ g[c] # 0}
  OBVIOUS
<1>2. CASE hits = {}
  BY <1>1, <1>2, Zenon DEF Finding
<1>3. CASE hits # {}
  <2>1. hits \subseteq Nat
    BY ChildrenAfter
  <2>2. Min(hits) \in hits
    <3> HIDE DEF hits
    <3> QED BY <1>3, <2>1, MinIsLeast
  <2>3. f[Min(hits)] = g[Min(hits)]
    BY <2>2
  <2> QED BY <1>1, <2>3, Zenon DEF Finding
<1> QED BY <1>2, <1>3

\* There is a function that is the recursion everywhere, and FindProperty is its value
\* at the root.
LEMMA FindExists ==
  ASSUME NEW doc, Outline(doc)
  PROVE  \E find : find = [v \in DOMAIN doc |-> Finding(doc, find, v)]
<1> DEFINE n == Len(doc)
           Fits(f, k) == /\ f = [v \in 1..n |-> f[v]]
                         /\ \A v \in 1..n : v > n - k => f[v] = Finding(doc, f, v)
           S == {k \in Nat : k <= n => \E f : Fits(f, k)}
<1>1. n \in Nat /\ DOMAIN doc = 1..n
  BY OutlineShape
<1>2. 0 \in S
  <2> DEFINE f == [v \in 1..n |-> 0]
  <2>1. f = [v \in 1..n |-> f[v]]
    OBVIOUS
  <2>2. \A v \in 1..n : ~ (v > n - 0)
    BY <1>1
  <2>3. Fits(f, 0)
    <3> HIDE DEF f, n
    <3> QED BY <2>1, <2>2
  <2> QED BY <2>3
<1>3. ASSUME NEW k \in Nat, k \in S PROVE k + 1 \in S
  <2> SUFFICES ASSUME k + 1 <= n PROVE \E f : Fits(f, k + 1)
    OBVIOUS
  <2>1. PICK f : Fits(f, k)
    <3>1. k <= n
      BY <1>1
    <3> QED BY <1>3, <3>1
  <2> DEFINE v0 == n - k
             g == [v \in 1..n |-> IF v = v0 THEN Finding(doc, f, v0) ELSE f[v]]
  <2>2. v0 \in 1..n
    BY <1>1
  <2>3. \A v \in 1..n : v # v0 => g[v] = f[v]
    OBVIOUS
  <2>4. g[v0] = Finding(doc, f, v0)
    BY <2>2
  <2>5. g = [v \in 1..n |-> g[v]]
    OBVIOUS
  <2> HIDE DEF g
  <2>6. ASSUME NEW v \in 1..n, v > n - (k + 1) PROVE g[v] = Finding(doc, g, v)
    <3>1. v = v0 \/ v > n - k
      <4> HIDE DEF n, S
      <4> QED BY <1>1, <2>6
    <3>2. \A c \in Children(doc, v) : c \in 1..n /\ c # v0
      <4>1. Children(doc, v) \subseteq (v + 1)..n
        BY ChildrenAfter
      <4> HIDE DEF n, S
      <4> QED BY <1>1, <2>6, <4>1
    <3>3. \A c \in Children(doc, v) : f[c] = g[c]
      BY <2>3, <3>2
    <3>4. Finding(doc, f, v) = Finding(doc, g, v)
      <4> HIDE DEF n
      <4> QED BY <3>3, FindingIsLocal DEF n
    <3>5. CASE v = v0
      BY <2>4, <3>4, <3>5
    <3>6. CASE v # v0 /\ v > n - k
      <4>1. f[v] = Finding(doc, f, v)
        BY <2>1, <3>6
      <4> QED BY <2>3, <3>4, <3>6, <4>1
    <3> QED BY <3>1, <3>5, <3>6
  <2>7. Fits(g, k + 1)
    BY <2>5, <2>6
  <2> QED BY <2>7
<1>4. PICK f : Fits(f, n)
  <2> HIDE DEF S
  <2>1. n \in S
    BY <1>1, <1>2, <1>3, Induction
  <2> QED BY <1>1, <2>1 DEF S
<1>5. \A v \in 1..n : f[v] = Finding(doc, f, v)
  <2>1. \A v \in 1..n : v > n - n
    BY <1>1
  <2> QED BY <1>4, <2>1
<1>6. f = [v \in 1..n |-> Finding(doc, f, v)]
  <2>1. f = [v \in 1..n |-> f[v]]
    BY <1>4
  <2> HIDE DEF Fits
  <2> QED BY <1>5, <2>1, Zenon
<1> QED BY <1>1, <1>6

LEMMA FindPropertyIs ==
  ASSUME NEW doc, Outline(doc)
  PROVE  \E find : /\ FindProperty(doc) = find[1]
                   /\ \A v \in 1..Len(doc) : find[v] = Finding(doc, find, v)
<1> DEFINE find == CHOOSE f : f = [v \in DOMAIN doc |-> Finding(doc, f, v)]
<1>1. find = [v \in DOMAIN doc |-> Finding(doc, find, v)]
  BY FindExists
<1>2. FindProperty(doc) = find[1]
  BY DEF FindProperty, Finding
<1> HIDE DEF find
<1>3. DOMAIN doc = 1..Len(doc)
  BY OutlineShape
<1>4. \A v \in 1..Len(doc) : find[v] = Finding(doc, find, v)
  BY <1>1, <1>3, Zenon
<1> QED BY <1>2, <1>4

\* The fields of the hash in v that are not too deep, and the first of a set of fields.
Deep(doc, v) ==
  {w \in Inside(doc, v) : doc[w].name = HashField /\ doc[w].level <= MaxDepth}

FirstOf(fields) == IF fields = {} THEN 0 ELSE Min(fields)

\* If the recursion finds the first field in each of the values of v, it does so in v.
LEMMA FindsIn ==
  ASSUME NEW doc, Outline(doc), NEW v \in 1..Len(doc), NEW find,
         find[v] = Finding(doc, find, v),
         \A c \in Children(doc, v) : find[c] = FirstOf(Deep(doc, c))
  PROVE  find[v] = FirstOf(Deep(doc, v))
<1> DEFINE hits == {c \in Children(doc, v) : Matches(doc, c) \/ find[c] # 0}
<1>1. find[v] = IF doc[v].level >= MaxDepth \/ hits = {} THEN 0
                ELSE IF Matches(doc, Min(hits)) THEN Min(hits) ELSE find[Min(hits)]
  BY Zenon DEF Finding
<1>2. /\ Len(doc) \in Nat /\ doc[v].level \in Nat
      /\ \A w \in 1..Len(doc) : doc[w].level \in Nat
      /\ MaxDepth \in Nat
  BY OutlineShape, ArgoKeysAssumption
<1>3. \A u \in 1..Len(doc) : Inside(doc, u) \subseteq (u + 1)..Len(doc)
  BY DEF Inside
<1>4. \A c \in Children(doc, v) :
        /\ c \in Inside(doc, v) /\ c \in 1..Len(doc) /\ c \in Nat \ {0}
        /\ doc[c].level = doc[v].level + 1
  <2>1. Inside(doc, v) \subseteq 1..Len(doc)
    BY <1>2, <1>3
  <2> QED BY <1>2, <2>1 DEF Children
<1>5. \A u \in 1..Len(doc) : Deep(doc, u) \subseteq (u + 1)..Len(doc) /\ Deep(doc, u) \subseteq Nat \ {0}
  BY <1>2, <1>3 DEF Deep
<1>6. ASSUME NEW w \in Deep(doc, v)
      PROVE  \E c \in hits : (w = c /\ Matches(doc, c)) \/ w \in Deep(doc, c)
  <2>1. w \in Inside(doc, v) /\ doc[w].name = HashField /\ doc[w].level <= MaxDepth
    BY DEF Deep
  <2>2. PICK c \in Children(doc, v) : w = c \/ w \in Inside(doc, c)
    BY <2>1, InsideIsChild
  <2>3. CASE w = c
    BY <2>1, <2>3 DEF Matches
  <2>4. CASE w \in Inside(doc, c)
    <3>1. w \in Deep(doc, c)
      BY <2>1, <2>4 DEF Deep
    <3>2. Deep(doc, c) # {} /\ Deep(doc, c) \subseteq Nat \ {0}
      BY <1>4, <1>5, <3>1
    <3>3. Min(Deep(doc, c)) \in Deep(doc, c)
      BY <3>2, MinIsLeast
    <3>4. find[c] # 0
      BY <3>2, <3>3 DEF FirstOf
    <3> QED BY <3>1, <3>4
  <2> QED BY <2>2, <2>3, <2>4
<1>7. CASE doc[v].level >= MaxDepth
  <2>1. Deep(doc, v) = {}
    <3> SUFFICES ASSUME NEW w \in Deep(doc, v) PROVE FALSE
      OBVIOUS
    <3>1. w \in Inside(doc, v) /\ doc[w].level <= MaxDepth
      BY DEF Deep
    <3>2. w \in (v + 1)..w /\ w \in 1..Len(doc)
      BY <1>2, <1>3, <3>1
    <3>3. doc[w].level > doc[v].level
      BY <3>1, <3>2 DEF Inside
    <3> QED BY <1>2, <1>7, <3>1, <3>2, <3>3
  <2> QED BY <1>1, <1>7, <2>1 DEF FirstOf
<1>8. CASE ~ (doc[v].level >= MaxDepth) /\ hits = {}
  <2>1. Deep(doc, v) = {}
    BY <1>6, <1>8
  <2> QED BY <1>1, <1>8, <2>1 DEF FirstOf
<1>9. CASE ~ (doc[v].level >= MaxDepth) /\ hits # {}
  <2> DEFINE m == Min(hits)
  <2>1. hits \subseteq Nat /\ hits \subseteq Children(doc, v)
    BY <1>4
  <2>2. m \in hits /\ \A c \in hits : m <= c
    <3> HIDE DEF hits
    <3> QED BY <1>9, <2>1, MinIsLeast
  <2>3. m \in Children(doc, v) /\ (Matches(doc, m) \/ find[m] # 0) /\ m \in 1..Len(doc)
    BY <1>4, <2>2
  <2>4. Deep(doc, v) \subseteq Nat
    BY <1>5
  <2>5. CASE Matches(doc, m)
    <3>1. m \in Deep(doc, v)
      BY <1>2, <1>4, <1>9, <2>3, <2>5 DEF Deep, Matches
    <3>2. ASSUME NEW w \in Deep(doc, v) PROVE m <= w
      <4>1. PICK c \in hits : w = c \/ w \in Deep(doc, c)
        BY <1>6
      <4>2. c \in 1..Len(doc) /\ m <= c
        BY <1>4, <2>1, <2>2
      <4>3. w = c \/ w \in (c + 1)..Len(doc)
        BY <1>5, <4>1, <4>2
      <4> HIDE DEF m, hits
      <4> QED BY <1>2, <2>3, <4>2, <4>3
    <3>3. Min(Deep(doc, v)) = m
      <4> HIDE DEF m
      <4> QED BY <2>4, <3>1, <3>2, LeastIsMin
    <3>4. find[v] = m
      BY <1>1, <1>9, <2>5
    <3> QED BY <3>1, <3>3, <3>4 DEF FirstOf
  <2>6. CASE ~ Matches(doc, m)
    <3> DEFINE x == Min(Deep(doc, m))
    <3>1. Deep(doc, m) # {} /\ find[m] = x
      BY <2>3, <2>6 DEF FirstOf
    <3>2. Deep(doc, m) \subseteq Nat /\ Deep(doc, m) \subseteq (m + 1)..Len(doc)
      BY <1>5, <2>3
    <3>3. x \in Deep(doc, m) /\ \A w \in Deep(doc, m) : x <= w
      BY <3>1, <3>2, MinIsLeast
    <3>4. x \in Deep(doc, v)
      BY <2>3, <3>3, InsideChild DEF Deep
    <3>5. ASSUME NEW w \in Deep(doc, v) PROVE x <= w
      <4>1. PICK c \in hits : (w = c /\ Matches(doc, c)) \/ w \in Deep(doc, c)
        BY <1>6
      <4>2. c \in Children(doc, v) /\ c \in 1..Len(doc) /\ m <= c
        BY <1>4, <2>1, <2>2
      <4>3. CASE c = m
        BY <2>6, <3>3, <4>1, <4>3
      <4>4. CASE c # m
        <5>1. m < c
          <6> HIDE DEF m, hits
          <6> QED BY <2>3, <4>2, <4>4
        <5>2. x \in Inside(doc, m)
          BY <3>3 DEF Deep
        <5>3. x < c
          <6> HIDE DEF m, hits, x
          <6> QED BY <2>3, <4>2, <5>1, <5>2, InsideBefore
        <5>4. w = c \/ w \in (c + 1)..Len(doc)
          BY <1>5, <4>1, <4>2
        <5>5. x \in Nat
          BY <3>2, <3>3
        <5> HIDE DEF m, hits, x
        <5> QED BY <1>2, <4>2, <5>3, <5>4, <5>5
      <4> QED BY <4>3, <4>4
    <3>6. Min(Deep(doc, v)) = x
      <4> HIDE DEF x
      <4> QED BY <2>4, <3>4, <3>5, LeastIsMin
    <3>7. find[v] = find[m]
      BY <1>1, <1>9, <2>6
    <3> QED BY <3>1, <3>4, <3>6, <3>7 DEF FirstOf
  <2> QED BY <2>5, <2>6
<1> QED BY <1>7, <1>8, <1>9

\* findProperty finds the first field of the name in the order of the document, of those
\* that are not too deep, in every document; or nothing if there is none.
THEOREM FindsFirst ==
  ASSUME NEW doc, Outline(doc)
  PROVE  FindProperty(doc) = FirstNamed(doc)
<1> DEFINE n == Len(doc)
<1>1. /\ n \in Nat \ {0} /\ DOMAIN doc = 1..n
      /\ \A v \in 1..n : doc[v].level \in Nat
      /\ \A v \in 1..(n - 1) : doc[v + 1].level \in 1..(doc[v].level + 1)
  BY OutlineShape
<1>2. PICK find : /\ FindProperty(doc) = find[1]
                  /\ \A v \in 1..n : find[v] = Finding(doc, find, v)
  BY FindPropertyIs
<1> DEFINE S == {k \in Nat : \A v \in 1..n : v >= n - k => find[v] = FirstOf(Deep(doc, v))}
<1>3. ASSUME NEW k \in Nat, \A v \in 1..n : v > n - k => find[v] = FirstOf(Deep(doc, v))
      PROVE  \A v \in 1..n : v >= n - k => find[v] = FirstOf(Deep(doc, v))
  <2> SUFFICES ASSUME NEW v \in 1..n, v >= n - k PROVE find[v] = FirstOf(Deep(doc, v))
    OBVIOUS
  <2>1. Children(doc, v) \subseteq (v + 1)..n
    BY ChildrenAfter
  <2>2. \A c \in Children(doc, v) : c \in 1..n /\ c > n - k
    <3> HIDE DEF n
    <3> QED BY <1>1, <2>1
  <2>3. \A c \in Children(doc, v) : find[c] = FirstOf(Deep(doc, c))
    BY <1>3, <2>2
  <2> QED BY <1>2, <2>3, FindsIn
<1>4. 0 \in S
  <2>1. \A v \in 1..n : ~ (v > n - 0)
    BY <1>1
  <2>2. \A v \in 1..n : v >= n - 0 => find[v] = FirstOf(Deep(doc, v))
    <3> HIDE DEF n
    <3> QED BY <1>3, <2>1
  <2> QED BY <2>2
<1>5. ASSUME NEW k \in Nat, k \in S PROVE k + 1 \in S
  <2>1. \A v \in 1..n : v > n - (k + 1) => v >= n - k
    <3> HIDE DEF n, S
    <3> QED BY <1>1
  <2>2. \A v \in 1..n : v > n - (k + 1) => find[v] = FirstOf(Deep(doc, v))
    BY <1>5, <2>1
  <2>3. \A v \in 1..n : v >= n - (k + 1) => find[v] = FirstOf(Deep(doc, v))
    <3> HIDE DEF n, S
    <3> QED BY <1>3, <2>2
  <2> QED BY <2>3
<1>6. find[1] = FirstOf(Deep(doc, 1))
  <2>1. n \in S
    <3> HIDE DEF S, n
    <3> QED BY <1>1, <1>4, <1>5, Induction
  <2>2. 1 \in 1..n /\ 1 >= n - n
    BY <1>1
  <2> QED BY <2>1, <2>2
<1>7. doc[1].level = 0 /\ doc[1].name # HashField
  BY ArgoKeysAssumption DEF Outline
<1>8. \A u \in 2..n : doc[u].level > doc[1].level
  <2> SUFFICES ASSUME NEW u \in 2..n PROVE doc[u].level > 0
    BY <1>7
  <2>1. u - 1 \in 1..(n - 1) /\ (u - 1) + 1 = u /\ doc[u - 1].level \in Nat
    <3>1. u - 1 \in 1..(n - 1) /\ u - 1 \in 1..n /\ (u - 1) + 1 = u
      <4> HIDE DEF n
      <4> QED BY <1>1
    <3> QED BY <1>1, <3>1
  <2>2. doc[(u - 1) + 1].level \in 1..(doc[u - 1].level + 1)
    BY <1>1, <2>1
  <2> QED BY <2>1, <2>2
<1>9. Inside(doc, 1) = 2..n
  BY <1>8 DEF Inside
<1>10. Deep(doc, 1) = {v \in DOMAIN doc : doc[v].name = HashField /\ doc[v].level <= MaxDepth}
  <2>1. \A v \in 1..n : v = 1 \/ v \in 2..n
    <3> HIDE DEF n
    <3> QED BY <1>1
  <2>2. \A v \in 2..n : v \in 1..n
    OBVIOUS
  <2> HIDE DEF n
  <2> QED BY <1>1, <1>7, <1>9, <2>1, <2>2 DEF Deep
<1> QED BY <1>2, <1>6, <1>10 DEF FirstOf, FirstNamed
=============================================================================
