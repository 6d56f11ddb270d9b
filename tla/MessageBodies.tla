---------------------------- MODULE MessageBodies ----------------------------
(***************************************************************************)
(* What commonBindings makes of the body of a message: parseMessage,       *)
(* extractAttributes, and the shapes singleMeasure, multipleMeasures and   *)
(* updateCommand give to what they pass on.                                *)
(*                                                                         *)
(* A body is raw (it is no JSON), one value, or an array of values; an     *)
(* array inside an array counts as an object.  The size of an object is    *)
(* the number of its keys, or of its entities if it is a measure of a      *)
(* device with an NGSI payload type; the size of a scalar is the number of *)
(* its characters, 0 if it is no text.  What an object asks for is its     *)
(* type as a configuration request.                                        *)
(***************************************************************************)
EXTENDS Naturals, SequencesExt

CONSTANTS
  MaxSize,    \* bound on the size of a value
  MaxLength   \* bound on the values of an array

ASSUME MessageBodiesAssumption == MaxSize \in Nat /\ MaxLength \in Nat

\* "other" stands for a type that is neither of the two, or no type at all.
Ask == {"configuration", "subscription", "other"}

Kind == {"object", "null", "scalar"}

\* What an object may be as a measure of an NGSI payload type: its first entity has no
\* attributes, or it cannot be read (an attribute is null, or the entities are no list).
Flaw == {"none", "blank", "unreadable"}

Value == [kind : Kind, size : 0..MaxSize, flaw : Flaw, ask : Ask]

Payload   == {"plain", "ngsi"}
Transport == {"AMQP", "ARGO", "MQTT"}

\* A raw body is one text.
Body ==
  {b \in [form : {"raw", "value", "array"}, items : BoundedSeq(Value, MaxLength)] :
     b.form # "array" => Len(b.items) = 1}

Of(value) == [form |-> "value", items |-> <<value>>]

\* A body as parseMessage keeps it when it does not take it apart: what is no JSON
\* becomes hexadecimal if it is a Buffer, as MQTT hands it over, and stays what it is
\* if it is a text, which AMQP makes of it.
Undivided(transport, body) ==
  IF body.form = "raw" /\ transport = "MQTT" THEN [body EXCEPT !.form = "hex"] ELSE body

\* A wrong Parsed: an array of one element is handled like its element.
ParsedUnwrapped(transport, body) ==
  IF body.form = "array" THEN [j \in DOMAIN body.items |-> Of(body.items[j])]
  ELSE <<Undivided(transport, body)>>

\* parseMessage: the array of what the message holds.  An array of one element is kept
\* as an array, so that a single measure can tell it from its element.
Parsed(transport, body) ==
  IF body.form = "array" /\ Len(body.items) # 1
  THEN [j \in DOMAIN body.items |-> Of(body.items[j])]
  ELSE <<Undivided(transport, body)>>

\* The value of a single measure: what was parsed, without the array around it if
\* it has one element.
SingleValue(parsed) ==
  IF Len(parsed) = 1 THEN parsed[1]
  ELSE [form |-> "array", items |-> [j \in DOMAIN parsed |-> parsed[j].items[1]]]

\* typeof x === 'object', for something that was parsed: null is one.
IsObject(x) == x.form = "array" \/ (x.form = "value" /\ x.items[1].kind # "scalar")

IsNull(x) == x.form = "value" /\ x.items[1].kind = "null"

\* extractAttributes throws: the current object is null, or an attribute of it is, of
\* which a payload type of NGSI reads the type.
Unreadable(payload, x) ==
  /\ payload = "ngsi"
  /\ x.items[1].kind = "null" \/ (x.form = "value" /\ x.items[1].flaw = "unreadable")

\* A batch of entities, under an NGSI payload type only: one list of attributes each.
IsBatch(payload, value) == payload = "ngsi" /\ value.kind = "object" /\ value.size > 1

Entities(payload, value) == IF IsBatch(payload, value) THEN value.size ELSE 1

\* values[0][0] tells a list of lists from a list of attributes: it does not if the
\* first of the lists is empty.
Nested(payload, value) == IsBatch(payload, value) /\ value.flaw = "blank"

\* A group of attributes is known by the object and the entity it comes from;
\* Whole is the attribute "0" whose value is the element of an array of one.
Whole == <<0, 0>>

\* extractAttributes of the j-th object, and the test of values[0][0]: one flat list of
\* attributes, one list per entity, or all those lists where one list is expected.
Extracted(payload, j, x) ==
  CASE x.form = "array"             -> <<Whole>>
    [] Nested(payload, x.items[1])  -> << <<j, 0>> >>
    [] OTHER                        -> [e \in 1..Entities(payload, x.items[1]) |-> <<j, e>>]

\* attributesArray of multipleMeasures.
Groups(payload, parsed) == FlattenSeq([j \in DOMAIN parsed |-> Extracted(payload, j, parsed[j])])

\* The number of keys updateCommand finds in what was parsed: those of an object, "0" of
\* an array of one, the characters of a text, which are two per byte in hexadecimal.
Keys(x) ==
  CASE x.form \in {"value", "raw"} -> x.items[1].size
    [] x.form = "hex"              -> 2 * x.items[1].size
    [] x.form = "array"            -> Len(x.items)

\* objMessage.type of a configuration request: only an object has one.
Asked(x) == IF x.form = "value" /\ x.items[1].kind = "object" THEN x.items[1].ask ELSE "other"

-----------------------------------------------------------------------------
\* Are the groups those of the body, all of them, once, and in their order?
InBodyOrder(groups, payload, body) ==
  /\ {groups[p] : p \in DOMAIN groups} =
       UNION {{<<j, e>> : e \in 1..Entities(payload, body.items[j])} : j \in DOMAIN body.items}
  /\ \A p, q \in DOMAIN groups : p < q =>
       \/ groups[p][1] < groups[q][1]
       \/ groups[p][1] = groups[q][1] /\ groups[p][2] < groups[q][2]

OneElementArray(body) == body.form = "array" /\ Len(body.items) = 1

\* A body one group of which extractAttributes does not take for what it is.
Mistaken(payload, body) ==
  OneElementArray(body) \/ \E j \in DOMAIN body.items : Nested(payload, body.items[j])
=============================================================================
