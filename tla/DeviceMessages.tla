--------------------------- MODULE DeviceMessages ---------------------------
(***************************************************************************)
(* What devices send by MQTT, AMQP and ARGO: messageHandler of             *)
(* commonBindings for the first two, the POST of the ARGO Messaging        *)
(* Service for the third, from its arrival to the last call of the         *)
(* library it causes.                                                      *)
(*                                                                         *)
(* A message of MQTT or AMQP is not answered: it is a measure or several,  *)
(* a set of command results or a set of configuration requests, after its  *)
(* topic.  An ARGO request is one measure, tried with one API key or two,  *)
(* and answered.  Messages run concurrently; they share the alarm          *)
(* MQTTB_ALARM.  The library (registry and Context Broker) and the         *)
(* endpoint of the device are external: they answer in any order, with or  *)
(* without an error.  A body that is null, or holds it, may throw in the   *)
(* handler, which nothing catches: the process ends.                       *)
(***************************************************************************)
EXTENDS MessageBodies, ArgoKeys

CONSTANTS
  Message,       \* messages of devices
  Inputs,        \* what each of them may be
  Document,      \* the bodies of ARGO requests
  Default,       \* defaultTransport
  ErrorCode      \* codes of the errors of the library, other than 404

NoCode == 0      \* an error whose code is no number, such as ECONNREFUSED

Binding == {"AMQP", "ARGO", "HTTP", "MQTT"}

\* "none" is a transport that is not set, "absent" the transport of no group.
\* refusal: what the middlewares of the ARGO binding stop a request for.
Input ==
  {i \in [transport : Transport, topic : {"measures", "single", "results", "configuration"},
          body : Body, payload : Payload, device : Binding \union {"none"}, group : Binding \union {"none", "absent"},
          key : {"plain", "hashed", "malformed"}, doc : Document,
          refusal : {"none", "params", "untyped", "type", "xml"}] :
     /\ i.topic = "configuration" => i.transport = "MQTT"
     /\ i.transport = "ARGO" => i.topic = "single" /\ i.body.form = "value"
     /\ i.transport # "ARGO" => i.key = "plain" /\ i.refusal = "none"}

ASSUME DeviceMessagesAssumption ==
  /\ Inputs \subseteq Input
  /\ Default \in Binding
  /\ ErrorCode \subseteq Nat \ ({404} \union 200..299)
  /\ \A doc \in Document : Outline(doc)

VARIABLES
  input,     \* per message: what it is
  stage,     \* per message: what its handler is waiting for, or how it ended
  answers,   \* per message: what the registry said of the keys tried so far
  reply,     \* per message: the status an ARGO request was answered with, or 0
  updates,   \* updates of measures not answered yet
  stored,    \* history: updates the Context Broker accepted
  writing,   \* results setCommandResult is writing
  written,   \* history: results the Context Broker accepted
  asking,    \* configuration requests in progress, with what they wait for
  alarm,     \* MQTTB_ALARM
  process    \* "up", or "crashed" by an exception

handling == <<input, stage, answers, reply>>
measures == <<updates, stored>>
results  == <<writing, written>>
requests == <<asking, alarm>>
vars == <<handling, measures, results, requests, process>>

\* An ARGO request goes from "device" to "answered"; a message from "device" to
\* "handled", which it is after processMessageForDevice whatever is still in progress,
\* "lost" without a device, "rejected" for its format, or "thrown" by an exception.
Stage == {"idle", "device", "busy", "handled", "lost", "rejected", "thrown", "answered"}
Step  == {"query", "subscribe", "group", "http"}

Result == Message \X Nat \X Nat

NoValue == [form |-> "raw", items |-> <<>>]
Idle    == [transport |-> "MQTT"]

TypeOK ==
  /\ input \in [Message -> Inputs \union {Idle}]
  /\ stage \in [Message -> Stage]
  /\ \A m \in Message : stage[m] # "idle" => input[m] \in Inputs
  /\ answers \in [Message -> Seq({"absent", "error", "found"})]
  /\ reply \in [Message -> {0} \union 200..599]
  /\ \A m \in Message : stage[m] = "answered" <=> reply[m] # 0
  /\ \A u \in updates \union stored : u.of \in Message /\ u.key \in Nat \ {0}
  /\ writing \in SUBSET Result
  /\ written \in SUBSET Result
  /\ asking \in SUBSET (Message \X Nat \X Step)
  /\ alarm \in {"released", "raised"}
  /\ process \in {"up", "crashed"}

Init ==
  /\ input = [m \in Message |-> Idle]
  /\ stage = [m \in Message |-> "idle"]
  /\ answers = [m \in Message |-> <<>>]
  /\ reply = [m \in Message |-> 0]
  /\ updates = {}
  /\ stored = {}
  /\ writing = {}
  /\ written = {}
  /\ asking = {}
  /\ alarm = "released"
  /\ process = "up"

Goes(m, from, to) ==
  /\ stage[m] = from
  /\ stage' = [stage EXCEPT ![m] = to]

IsArgo(m) == input[m].transport = "ARGO"

\* The answer of the registry to the look-up of m.
Says(m, answer) == answers' = [answers EXCEPT ![m] = Append(@, answer)]

-----------------------------------------------------------------------------
(* Answers of the ARGO binding.                                            *)

\* A wrong Status: the code of the error, whatever it is.
StatusOfAny(code) == code

\* writeSoapEnvelope: the code of the error, if it is a status.
Status(code) == IF code \in 200..599 THEN code ELSE 500

Answer(m, status) ==
  /\ stage' = [stage EXCEPT ![m] = "answered"]
  /\ reply' = [reply EXCEPT ![m] = status]

\* What the middlewares answer: the errors have a code, but for the TypeError of a
\* request without content type and the error of the XML parser, which has a status.
RefusalCode(refusal) == IF refusal \in {"params", "type"} THEN 400 ELSE NoCode

\* apiKeyList: a hashed key stands for two, the hash and the secret; it has to name
\* a field of the document that has a text.
KeyList(i) ==
  CASE i.key = "plain"     -> <<"key">>
    [] i.key = "hashed"    -> IF HashText(i.doc) = Blank THEN <<>> ELSE <<HashText(i.doc), "secret">>
    [] i.key = "malformed" -> <<>>

-----------------------------------------------------------------------------
(* Arrival: the topic and the body are read, the device is looked up.      *)

\* messageHandler, from the consumers of AMQP and the client of MQTT.
MessageArrives(m, i) ==
  /\ i.transport # "ARGO"
  /\ Goes(m, "idle", "device")
  /\ input' = [input EXCEPT ![m] = i]
  /\ alarm' = "released"
  /\ UNCHANGED <<answers, reply, measures, results, asking, process>>

\* The middlewares of the ARGO binding, and apiKeyList.
ArgoArrives(m, i) ==
  /\ i.transport = "ARGO"
  /\ stage[m] = "idle"
  /\ input' = [input EXCEPT ![m] = i]
  /\ \/ /\ i.refusal # "none"
        /\ Answer(m, Status(RefusalCode(i.refusal)))
     \/ /\ i.refusal = "none"
        /\ KeyList(i) = <<>>
        /\ Answer(m, 400)
     \/ /\ i.refusal = "none"
        /\ KeyList(i) # <<>>
        /\ Goes(m, "idle", "device")
        /\ UNCHANGED reply
  /\ UNCHANGED <<answers, measures, results, requests, process>>

Arrive(m) == \E i \in Inputs : process = "up" /\ (MessageArrives(m, i) \/ ArgoArrives(m, i))

-----------------------------------------------------------------------------
(* The device was found: processMessageForDevice, and the last step of     *)
(* handleIncomingMeasure of ARGO.                                          *)

Held(m) == Parsed(input[m].transport, input[m].body)

UpdateOf(m, groups, value) ==
  [of |-> m, key |-> Len(answers[m]) + 1, groups |-> groups, value |-> value]

\* processMessageForDevice returns, or throws.
Ended(m, throws) ==
  /\ Goes(m, "device", IF throws THEN "thrown" ELSE "handled")
  /\ process' = IF throws THEN "crashed" ELSE process

\* The elements of a message that its loop comes to: those before the first null, which
\* ends it by an exception.
Reached(m) == {j \in DOMAIN Held(m) : \A i \in 1..j : ~ IsNull(Held(m)[i])}

SingleMeasure(m) ==
  /\ input[m].topic = "single"
  /\ Goes(m, "device", IF IsArgo(m) THEN "busy" ELSE "handled")
  /\ updates' = updates \union
       {UpdateOf(m, <<>>, IF IsArgo(m) THEN input[m].body ELSE SingleValue(Held(m)))}
  /\ UNCHANGED <<input, reply, stored, results, requests, process>>

\* All the measures of the message in one update; a message that is not made of
\* objects is logged and dropped.
MultipleMeasures(m) ==
  /\ input[m].topic = "measures"
  /\ LET objects == \A j \in DOMAIN Held(m) : IsObject(Held(m)[j])
         throws  == \E j \in DOMAIN Held(m) : Unreadable(input[m].payload, Held(m)[j])
     IN  \/ /\ objects
            /\ Ended(m, throws)
            /\ updates' = updates \union
                 (IF throws THEN {} ELSE {UpdateOf(m, Groups(input[m].payload, Held(m)), NoValue)})
         \/ /\ ~ objects
            /\ Goes(m, "device", "rejected")
            /\ UNCHANGED <<updates, process>>
  /\ UNCHANGED <<input, reply, stored, results, requests>>

\* A wrong UpdateCommands: async.parallel instead of async.series.
UpdateCommandsParallel(m) ==
  /\ input[m].topic = "results"
  /\ Ended(m, Reached(m) # DOMAIN Held(m))
  /\ writing' = writing \union
       UNION {{<<m, j, k>> : k \in 1..Keys(Held(m)[j])} : j \in Reached(m)}
  /\ UNCHANGED <<input, reply, measures, written, requests>>

\* updateCommand for each element of the message: a series of setCommandResult each,
\* one beside the other.
UpdateCommands(m) ==
  /\ input[m].topic = "results"
  /\ Ended(m, Reached(m) # DOMAIN Held(m))
  /\ writing' = writing \union {<<m, j, 1>> : j \in {j \in Reached(m) : Keys(Held(m)[j]) > 0}}
  /\ UNCHANGED <<input, reply, measures, written, requests>>

\* manageConfiguration for each element of the message; an unknown type is logged and
\* ends without an error.
ManageConfigurationRequest(m) ==
  /\ input[m].topic = "configuration"
  /\ Ended(m, Reached(m) # DOMAIN Held(m))
  /\ LET of(ask) == {j \in Reached(m) : Asked(Held(m)[j]) = ask}
     IN  /\ asking' = asking \union {<<m, j, "query">> : j \in of("configuration")}
                             \union {<<m, j, "subscribe">> : j \in of("subscription")}
         /\ alarm' = IF of("other") # {} THEN "released" ELSE alarm
  /\ UNCHANGED <<input, reply, measures, results>>

DeviceFound(m) ==
  /\ stage[m] = "device"
  /\ Says(m, "found")
  /\ \/ SingleMeasure(m)
     \/ MultipleMeasures(m)
     \/ UpdateCommands(m)
     \/ ManageConfigurationRequest(m)

\* Without a device a message of MQTT or AMQP is logged and lost.
GiveUp(m, code) ==
  \/ IsArgo(m) /\ Answer(m, Status(code))
  \/ ~ IsArgo(m) /\ Goes(m, "device", "lost") /\ UNCHANGED reply

\* No device for this key: ARGO tries the next one, if there is one.
DeviceAbsent(m) ==
  /\ stage[m] = "device"
  /\ Says(m, "absent")
  /\ \/ Len(answers'[m]) < Len(KeyList(input[m])) /\ UNCHANGED <<stage, reply>>
     \/ Len(answers'[m]) >= Len(KeyList(input[m])) /\ GiveUp(m, 404)
  /\ UNCHANGED <<input, measures, results, requests, process>>

\* A wrong LookupFails: any error makes ARGO try the next key.
FailsRetried(m) ==
  /\ stage[m] = "device"
  /\ Says(m, "error")
  /\ \/ Len(answers'[m]) < Len(KeyList(input[m])) /\ UNCHANGED <<stage, reply>>
     \/ Len(answers'[m]) >= Len(KeyList(input[m])) /\ \E code \in ErrorCode : GiveUp(m, code)
  /\ UNCHANGED <<input, measures, results, requests, process>>

\* Another error of the look-up is not tried again.
LookupFails(m) ==
  /\ stage[m] = "device"
  /\ Says(m, "error")
  /\ \E code \in ErrorCode : GiveUp(m, code)
  /\ UNCHANGED <<input, measures, results, requests, process>>

-----------------------------------------------------------------------------
(* The answers of the Context Broker.                                      *)

\* A wrong UpdateAnswered: an error is logged and nothing else.
UpdateSilent(u) ==
  /\ process = "up"
  /\ u \in updates
  /\ updates' = updates \ {u}
  /\ \/ /\ stored' = stored \union {u}
        /\ \/ IsArgo(u.of) /\ Answer(u.of, 200)
           \/ ~ IsArgo(u.of) /\ UNCHANGED <<stage, reply>>
     \/ UNCHANGED <<stored, stage, reply>>
  /\ UNCHANGED <<input, answers, results, requests, process>>

\* The callback of update: an error is logged, and answered by ARGO.
UpdateAnswered(u) ==
  /\ process = "up"
  /\ u \in updates
  /\ updates' = updates \ {u}
  /\ \/ /\ stored' = stored \union {u}
        /\ \/ IsArgo(u.of) /\ Answer(u.of, 200)
           \/ ~ IsArgo(u.of) /\ UNCHANGED <<stage, reply>>
     \/ /\ \/ IsArgo(u.of) /\ \E code \in ErrorCode \union {404} : Answer(u.of, Status(code))
           \/ ~ IsArgo(u.of) /\ UNCHANGED <<stage, reply>>
        /\ UNCHANGED stored
  /\ UNCHANGED <<input, answers, results, requests, process>>

\* One result: the series goes on with the next one, or ends at an error.
ResultAnswered(w) ==
  /\ process = "up"
  /\ w \in writing
  /\ \/ /\ writing' = (writing \ {w}) \union
             (IF w[3] < Keys(Held(w[1])[w[2]]) THEN {<<w[1], w[2], w[3] + 1>>} ELSE {})
        /\ written' = written \union {w}
     \/ /\ writing' = writing \ {w}
        /\ UNCHANGED written
  /\ UNCHANGED <<handling, measures, requests, process>>

-----------------------------------------------------------------------------
(* Configuration requests, each on its own.                                *)

\* The callback of manageConfigurationRequest.
Ends(m, j, step, error) ==
  /\ asking' = asking \ {<<m, j, step>>}
  /\ alarm' = IF error THEN "raised" ELSE "released"

Continues(m, j, from, to) ==
  /\ asking' = (asking \ {<<m, j, from>>}) \union {<<m, j, to>>}
  /\ UNCHANGED alarm

SubscribeAnswered(m, j) ==
  /\ <<m, j, "subscribe">> \in asking
  /\ \E error \in BOOLEAN : Ends(m, j, "subscribe", error)
  /\ UNCHANGED <<handling, measures, results, process>>

QueryAnswered(m, j) ==
  /\ <<m, j, "query">> \in asking
  /\ Continues(m, j, "query", "group") \/ Ends(m, j, "query", TRUE)
  /\ UNCHANGED <<handling, measures, results, process>>

\* A group that is not found, or whose look-up fails, is {}.
Selected(i, known) ==
  IF i.device # "none" THEN i.device
  ELSE IF known /\ i.group # "none" THEN i.group
  ELSE Default

\* sendConfigurationToDevice: the group, and the binding of the transport.  MQTT
\* publishes if it is connected, AMQP and ARGO do nothing, and all three report success.
GroupAnswered(m, j) ==
  /\ <<m, j, "group">> \in asking
  /\ \E known \in IF input[m].group = "absent" THEN {FALSE} ELSE BOOLEAN :
       IF Selected(input[m], known) = "HTTP" THEN Continues(m, j, "group", "http")
       ELSE Ends(m, j, "group", FALSE)
  /\ UNCHANGED <<handling, measures, results, process>>

\* sendConfigurationToDevice of the HTTP binding, the look-up of the device and its
\* endpoint included.
HttpAnswered(m, j) ==
  /\ <<m, j, "http">> \in asking
  /\ \E error \in BOOLEAN : Ends(m, j, "http", error)
  /\ UNCHANGED <<handling, measures, results, process>>

Configures(m, j) ==
  /\ process = "up"
  /\ SubscribeAnswered(m, j) \/ QueryAnswered(m, j) \/ GroupAnswered(m, j) \/ HttpAnswered(m, j)

LookedUp(m) ==
  /\ process = "up"
  /\ DeviceFound(m) \/ DeviceAbsent(m) \/ LookupFails(m)

Next ==
  \/ \E m \in Message : Arrive(m) \/ LookedUp(m)
  \/ \E u \in updates : UpdateAnswered(u)
  \/ \E w \in writing : ResultAnswered(w)
  \/ \E a \in asking : Configures(a[1], a[2])

Spec == Init /\ [][Next]_vars

\* Every call of the library and of the endpoint is answered.  Nothing forces a
\* message to come.
Fairness ==
  \A m \in Message :
    /\ WF_vars(LookedUp(m))
    /\ WF_vars(\E u \in updates : u.of = m /\ UpdateAnswered(u))
    /\ \A j \in 1..MaxLength :
         /\ WF_vars(\E w \in writing : w[1] = m /\ w[2] = j /\ ResultAnswered(w))
         /\ WF_vars(Configures(m, j))

FairSpec == Spec /\ Fairness

-----------------------------------------------------------------------------
\* A measure of one attribute reaches the update as the JSON value that was sent, be it
\* a value or an array of any length; what is no JSON reaches it as the text that was sent
\* over AMQP, and in hexadecimal over MQTT.  The measures of a message reach the Context
\* Broker in one update, every group of it, once and in order, unless one of them is
\* mistaken: an array of one element, which is taken for a value, or a batch of entities
\* of which the first has no attributes.
\* (parseMessage, singleMeasure, extractAttributes, multipleMeasures, the ARGO body)
MeasuresAsSent ==
  \A u \in updates \union stored :
    LET i == input[u.of]
    IN  /\ i.topic = "single" =>
             /\ u.value.items = i.body.items
             /\ u.value.form = IF i.body.form = "raw" /\ i.transport = "MQTT" THEN "hex" ELSE i.body.form
        /\ i.topic = "measures" /\ ~ Mistaken(i.payload, i.body) =>
             InBodyOrder(u.groups, i.payload, i.body)

\* The results of one object are written in the order of the message, and none is
\* written, or tried, once one before it has failed, however the series of the other
\* objects and messages run.  (updateCommand, messageHandler)
ResultsInOrder ==
  \A w \in writing \union written : \A k \in 1..(w[3] - 1) : <<w[1], w[2], k>> \in written

\* An ARGO request is told 200 exactly if its measure was stored, for the device of the
\* first of its keys the registry does not answer with 404, and 404 only if the registry
\* has no device for any of them or the Context Broker has no such entity; no key is
\* tried after a device or an error.  (retrieveFirstDevice, handleIncomingMeasure,
\* writeSoapEnvelope)
ArgoTruthful ==
  /\ \A u \in updates \union stored : IsArgo(u.of) => u.key = Len(answers[u.of]) /\ answers[u.of][u.key] = "found"
  /\ \A m \in Message :
       /\ \A k \in DOMAIN answers[m] : k < Len(answers[m]) => answers[m][k] = "absent"
       /\ IsArgo(m) /\ stage[m] = "answered" =>
            /\ reply[m] = 200 <=> \E u \in stored : u.of = m
            /\ reply[m] = 404 =>
                 \/ Len(answers[m]) = Len(KeyList(input[m])) /\ answers[m] # <<>>
                 \/ Len(answers[m]) > 0 /\ Last(answers[m]) = "found"

\* A request with a hashed key is looked up under the text of the first field of that
\* name in the order of the document, as deep as the search goes, and under the secret;
\* no later field makes up for an empty one: the request is then answered with 400 and
\* the registry is not asked.  (findProperty, apiKeyList)
FirstFieldHashed ==
  \A m \in Message :
    stage[m] # "idle" /\ input[m].key = "hashed" /\ input[m].refusal = "none" =>
      LET text == TextAt(input[m].doc, FirstNamed(input[m].doc))
      IN  /\ text # Blank => KeyList(input[m]) = <<text, "secret">>
          /\ text = Blank => stage[m] = "answered" /\ reply[m] = 400 /\ answers[m] = <<>>

InProgress(m) ==
  \/ \E u \in updates : u.of = m
  \/ \E w \in writing : w[1] = m
  \/ \E a \in asking : a[1] = m

\* A body some value of which a handler may not be able to read.
Throwing(body) ==
  \E j \in DOMAIN body.items : body.items[j].kind = "null" \/ body.items[j].flaw = "unreadable"

\* Every message is dealt with to the end, and nothing it has started stays in progress,
\* unless a body with a null in it, or with entities that cannot be read, has ended the
\* process; an ARGO request is answered.  (messageHandler, handleIncomingMeasure)
EventuallySettled ==
  \A m \in Message :
    stage[m] # "idle" ~>
      \/ stage[m] \in {"answered", "handled", "lost", "rejected"} /\ ~ InProgress(m)
      \/ \E n \in Message : stage[n] = "thrown" /\ Throwing(input[n].body)
=============================================================================
