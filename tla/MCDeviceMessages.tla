-------------------------- MODULE MCDeviceMessages --------------------------
(* Instances of DeviceMessages and ArgoKeys for TLC. *)
EXTENDS DeviceMessages, TLC

CONSTANTS m1, m2

-----------------------------------------------------------------------------
(* Documents; the hashed keys name the field "k".                          *)

At(level, kind, name, text) == [level |-> level, kind |-> kind, name |-> name, text |-> text]

Doc       == <<At(0, "element", NoName, Blank)>>
A(l, n)   == <<At(l, "text", n, "a")>>
B(l, n)   == <<At(l, "text", n, "b")>>
E(l, n)   == <<At(l, "element", n, Blank)>>
L(l, n)   == <<At(l, "list", n, Blank)>>
No(l, n)  == <<At(l, "text", n, Blank)>>

MCDocument ==
  {Doc \o A(1, "x") \o B(1, "k"), Doc \o A(1, "x"),
   \* the first field of the name is empty, in the ways a field can be
   Doc \o E(1, "x") \o No(2, "k") \o B(1, "k"),
   Doc \o L(1, "k") \o E(1, "x") \o B(2, "k"),
   Doc \o E(1, "k") \o A(2, "x") \o E(1, "x") \o B(2, "k"),
   \* it is repeated, and has XML attributes
   Doc \o L(1, "k") \o A(2, NoName) \o B(2, NoName),
   Doc \o L(1, "k") \o E(2, NoName) \o B(3, "x") \o A(3, "_") \o B(2, NoName),
   \* it is in the second of a list, at the limit of the depth, and below it
   Doc \o L(1, "x") \o E(2, NoName) \o B(3, "x") \o E(2, NoName) \o A(3, "k") \o B(1, "k"),
   Doc \o E(1, "x") \o E(2, "x") \o A(3, "k") \o B(1, "k"),
   Doc \o E(1, "x") \o E(2, "x") \o E(3, "x") \o A(4, "k") \o B(1, "k")}

-----------------------------------------------------------------------------
(* What the messages may be.                                               *)

Sized(n)   == [kind |-> "object", size |-> n, flaw |-> "none", ask |-> "other"]
Null       == [Sized(0) EXCEPT !.kind = "null"]
Text(n)    == [Sized(n) EXCEPT !.kind = "scalar"]
Asking(a)  == [Sized(1) EXCEPT !.ask = a]
Blanked    == [Sized(2) EXCEPT !.flaw = "blank"]
Unreadably == [Sized(1) EXCEPT !.flaw = "unreadable"]
Raw        == [form |-> "raw", items |-> <<Text(1)>>]
Several(s) == [form |-> "array", items |-> s]

AnyDoc == Doc \o A(1, "x") \o B(1, "k")

Plain(transport, topic, body, device, group) ==
  [transport |-> transport, topic |-> topic, body |-> body, payload |-> "plain", device |-> device,
   group |-> group, key |-> "plain", doc |-> AnyDoc, refusal |-> "none"]

Argo(key, doc, refusal) ==
  [transport |-> "ARGO", topic |-> "single", body |-> Of(Sized(1)), payload |-> "plain",
   device |-> "none", group |-> "absent", key |-> key, doc |-> doc, refusal |-> refusal]

Sent(transport, topic, bodies) ==
  {Plain(transport, topic, body, "none", "none") : body \in bodies}

Single  == {Raw, Of(Sized(0)), Of(Text(1)), Several(<<>>), Several(<<Sized(2)>>),
            Several(<<Sized(2), Sized(1)>>)}
Results == {Raw, Of(Sized(0)), Of(Text(1)), Of(Null), Several(<<>>), Several(<<Sized(2)>>),
            Several(<<Sized(1), Null>>), Several(<<Sized(2), Sized(1)>>)}
Measures == {Raw, Of(Text(1)), Of(Null), Of(Sized(2)), Several(<<>>), Several(<<Null>>),
             Several(<<Sized(1), Text(0)>>), Several(<<Sized(0), Sized(1)>>)}

\* Measures of a device with an NGSI payload type.
Batches == {Of(Sized(0)), Of(Null), Of(Unreadably), Several(<<Null>>), Several(<<Sized(2)>>),
            Several(<<Sized(2), Sized(1)>>), Several(<<Sized(1), Blanked>>)}

Requests ==
  {Of(Asking(a)) : a \in Ask} \union
  {Of(Null), Several(<<Asking("configuration"), Asking("subscription")>>),
   Several(<<Asking("other")>>)}

MCInputs ==
  Sent("AMQP", "single", Single) \union Sent("AMQP", "results", Results) \union
  Sent("AMQP", "measures", Measures) \union
  Sent("MQTT", "single", {Raw}) \union Sent("MQTT", "results", {Raw}) \union
  {[i EXCEPT !.payload = "ngsi"] : i \in Sent("MQTT", "measures", Batches)} \union
  {Plain("MQTT", "configuration", body, device, "absent") :
     body \in Requests, device \in {"HTTP", "MQTT"}} \union
  {Plain("MQTT", "configuration", Of(Asking("configuration")), "none", group) :
     group \in {"AMQP", "MQTT", "none"}} \union
  {Argo("hashed", doc, "none") : doc \in MCDocument} \union
  {Argo("plain", AnyDoc, "none"), Argo("malformed", AnyDoc, "none")} \union
  {Argo("plain", AnyDoc, refusal) : refusal \in {"params", "untyped", "type", "xml"}}
=============================================================================
