------------------------ MODULE DeviceMessagesProofs ------------------------
(***************************************************************************)
(* Messages of devices, for every set of messages, of documents and of     *)
(* error codes, and every bound on bodies: the types, the measures that    *)
(* reach the Context Broker, the order of the results, the keys an ARGO    *)
(* request is looked up under, and what it is told.                        *)
(***************************************************************************)
EXTENDS DeviceMessages, BodyProofs, TLAPS

\* What the registry has said of the keys of a message: nothing but "absent" before the
\* last of them, and nothing else at all while it is asked.
AnswersInv(m) ==
  /\ stage[m] = "idle" => answers[m] = <<>>
  /\ \A k \in DOMAIN answers[m] :
       k < Len(answers[m]) \/ stage[m] \in {"idle", "device"} => answers[m][k] = "absent"

\* The updates of a message come from the last answer of the registry.
UpdatesInv(m) ==
  \A u \in updates \union stored :
    u.of = m => /\ stage[m] \notin {"idle", "device"}
                /\ u.key = Len(answers[m])
                /\ answers[m][u.key] = "found"

\* An ARGO request has one update, which is its answer.
ArgoInv(m) ==
  IsArgo(m) =>
    /\ stage[m] \in {"device", "busy", "answered"}
    /\ stage[m] = "device" => Len(answers[m]) < Len(KeyList(input[m]))
    /\ stage[m] = "busy" => Len(answers[m]) > 0 /\ answers[m][Len(answers[m])] = "found"
    /\ \A u \in updates : u.of = m => stage[m] = "busy" /\ \A v \in updates : v.of = m => u = v
    /\ \A u \in stored : u.of = m => reply[m] = 200
    /\ reply[m] = 200 => \E u \in stored : u.of = m
    /\ reply[m] = 404 =>
         \/ Len(answers[m]) = Len(KeyList(input[m])) /\ answers[m] # <<>>
         \/ Len(answers[m]) > 0 /\ answers[m][Len(answers[m])] = "found"

MessageInv(m) == AnswersInv(m) /\ UpdatesInv(m) /\ ArgoInv(m)

MessagesInv == TypeOK /\ \A m \in Message : MessageInv(m)

-----------------------------------------------------------------------------
\* A step for one message leaves the invariant of the others as it was.
LEMMA OthersKeep ==
  ASSUME NEW m,
         \A n \in Message : MessageInv(n),
         \A n \in Message \ {m} : /\ input'[n] = input[n] /\ stage'[n] = stage[n]
                                  /\ answers'[n] = answers[n] /\ reply'[n] = reply[n],
         \A u \in updates' : u.of # m => u \in updates,
         \A u \in stored' : u.of # m => u \in stored,
         \A u \in stored : u.of # m => u \in stored'
  PROVE  \A n \in Message \ {m} : MessageInv(n)'
<1> SUFFICES ASSUME NEW n \in Message \ {m} PROVE MessageInv(n)'
  OBVIOUS
<1>1. MessageInv(n)
  OBVIOUS
<1>2. IsArgo(n)' <=> IsArgo(n)
  BY DEF IsArgo
<1>3. KeyList(input'[n]) = KeyList(input[n])
  OBVIOUS
<1>4. AnswersInv(n)'
  BY <1>1 DEF MessageInv, AnswersInv
<1>5. UpdatesInv(n)'
  <2>1. \A u \in updates' \union stored' : u.of = n => u \in updates \union stored
    OBVIOUS
  <2> QED BY <1>1, <2>1 DEF MessageInv, UpdatesInv
<1>6. ArgoInv(n)'
  <2>1. (\A u \in updates' : u.of = n => u \in updates) /\ (\A u \in stored' : u.of = n => u \in stored)
    OBVIOUS
  <2>2. \A u \in stored : u.of = n => u \in stored'
    OBVIOUS
  <2> HIDE DEF KeyList, IsArgo
  <2> QED BY <1>1, <1>2, <1>3, <2>1, <2>2 DEF MessageInv, ArgoInv
<1> QED BY <1>4, <1>5, <1>6 DEF MessageInv

\* A step that leaves the handling of messages and the updates alone keeps it for all.
LEMMA UntouchedKeeps ==
  ASSUME \A n \in Message : MessageInv(n), UNCHANGED <<handling, measures>>
  PROVE  \A n \in Message : MessageInv(n)'
BY DEF handling, measures, MessageInv, AnswersInv, UpdatesInv, ArgoInv, IsArgo

\* A function changed in one place.
LEMMA Replaced ==
  ASSUME NEW D, NEW S, NEW f \in [D -> S], NEW d \in D, NEW v \in S
  PROVE  /\ [f EXCEPT ![d] = v] \in [D -> S]
         /\ [f EXCEPT ![d] = v][d] = v
         /\ \A e \in D \ {d} : [f EXCEPT ![d] = v][e] = f[e]
OBVIOUS

\* A step of one message keeps the types if it ends with a status or goes on without
\* one, and has no new update.
Handled(m, to, status) ==
  /\ stage' = [stage EXCEPT ![m] = to]
  /\ reply' = [reply EXCEPT ![m] = status]

Unanswered(to, status) == to \in Stage \ {"idle", "answered"} /\ status = 0
Answered(to, status)   == to = "answered" /\ status \in 200..599

LEMMA HandlingTyped ==
  ASSUME TypeOK, NEW m \in Message, NEW to, NEW status,
         Unanswered(to, status) \/ Answered(to, status),
         Handled(m, to, status),
         input' \in [Message -> Inputs \union {Idle}], input'[m] \in Inputs,
         \A n \in Message \ {m} : input'[n] = input[n],
         answers' \in [Message -> Seq({"absent", "error", "found"})],
         updates' \union stored' \subseteq updates \union stored,
         UNCHANGED <<writing, written, asking, alarm, process>>
  PROVE  TypeOK'
<1>1. stage \in [Message -> Stage] /\ reply \in [Message -> {0} \union 200..599]
  BY DEF TypeOK
<1>2. /\ to \in Stage /\ to # "idle" /\ status \in {0} \union 200..599
      /\ to = "answered" <=> status # 0
  <2>1. CASE Unanswered(to, status)
    BY <2>1 DEF Unanswered
  <2>2. CASE Answered(to, status)
    <3>1. status \in 200..599 /\ status # 0
      BY <2>2 DEF Answered
    <3> QED BY <3>1, <2>2 DEF Answered, Stage
  <2> QED BY <2>1, <2>2
<1>3. stage' \in [Message -> Stage] /\ stage'[m] = to /\ \A n \in Message \ {m} : stage'[n] = stage[n]
  BY <1>1, <1>2, Replaced DEF Handled
<1>4. reply' \in [Message -> {0} \union 200..599] /\ reply'[m] = status
      /\ \A n \in Message \ {m} : reply'[n] = reply[n]
  BY <1>1, <1>2, Replaced DEF Handled
<1>5. /\ \A n \in Message : stage'[n] # "idle" => input'[n] \in Inputs
      /\ \A n \in Message : stage'[n] = "answered" <=> reply'[n] # 0
  <2>1. ASSUME NEW n \in Message
        PROVE  /\ stage'[n] # "idle" => input'[n] \in Inputs
               /\ stage'[n] = "answered" <=> reply'[n] # 0
    <3>1. CASE n = m
      BY <3>1, <1>2, <1>3, <1>4
    <3>2. CASE n # m
      <4>1. /\ stage[n] # "idle" => input[n] \in Inputs
            /\ stage[n] = "answered" <=> reply[n] # 0
        BY DEF TypeOK
      <4>2. stage'[n] = stage[n] /\ reply'[n] = reply[n] /\ input'[n] = input[n]
        BY <3>2, <1>3, <1>4
      <4> QED BY <4>1, <4>2
    <3> QED BY <3>1, <3>2
  <2> QED BY <2>1
<1>6. \A u \in updates' \union stored' : u.of \in Message /\ u.key \in Nat \ {0}
  BY DEF TypeOK
<1>7. /\ writing' \in SUBSET Result /\ written' \in SUBSET Result
      /\ asking' \in SUBSET (Message \X Nat \X Step) /\ alarm' \in {"released", "raised"}
      /\ process' \in {"up", "crashed"}
  BY DEF TypeOK
<1> QED BY <1>3, <1>4, <1>5, <1>6, <1>7 DEF TypeOK

\* Statuses of answers: a code of the library's is kept, and an error without a status
\* is 500.
LEMMA StatusOfError ==
  ASSUME NEW code \in ErrorCode \union {404, 400}
  PROVE  /\ Status(code) \in 300..599
         /\ Status(code) = 404 => code = 404
BY DeviceMessagesAssumption DEF Status

\* What Input says of a message of each kind.
LEMMA InputType == Inputs \subseteq Input
BY DeviceMessagesAssumption

\* A request of ARGO is a single measure, with at most two keys.
LEMMA ArgoInput ==
  ASSUME NEW i \in Inputs
  PROVE  /\ i.transport = "ARGO" => i.topic = "single"
         /\ Len(KeyList(i)) \in Nat
         /\ KeyList(i) # <<>> => Len(KeyList(i)) > 0
<1>1. i \in Input
  BY InputType
<1>2. i.key \in {"plain", "hashed", "malformed"} /\ (i.transport = "ARGO" => i.topic = "single")
  BY <1>1 DEF Input
<1>3. \A s, t : Len(<<s>>) = 1 /\ Len(<<s, t>>) = 2
  OBVIOUS
<1>4. Len(<<>>) = 0
  OBVIOUS
<1>5. KeyList(i) = <<>> \/ KeyList(i) = <<"key">> \/ KeyList(i) = <<HashText(i.doc), "secret">>
  BY <1>2 DEF KeyList
<1> QED BY <1>2, <1>3, <1>4, <1>5

\* The elements of a message are numbered.
LEMMA HeldIsSequence ==
  ASSUME NEW m \in Message, input[m] \in Inputs
  PROVE  DOMAIN Held(m) \subseteq Nat
<1>1. input[m].body \in Body
  BY InputType DEF Input
<1>2. input[m].body.items \in BoundedSeq(Value, MaxLength)
  BY <1>1 DEF Body
<1>3. DOMAIN input[m].body.items \subseteq Nat
  BY <1>2 DEF BoundedSeq, SeqOf
<1> QED BY <1>3 DEF Held, Parsed

-----------------------------------------------------------------------------
\* The arrival of a message of MQTT or AMQP.
LEMMA MessageArrivesKeeps ==
  ASSUME MessagesInv, NEW m \in Message, NEW i \in Inputs, MessageArrives(m, i)
  PROVE  MessagesInv'
<1> USE DEF MessagesInv
<1>1. TypeOK'
  BY DEF TypeOK, MessageArrives, Goes, Stage, measures, results
<1>2. \A n \in Message \ {m} : MessageInv(n)'
  <2>1. \A n \in Message \ {m} : /\ input'[n] = input[n] /\ stage'[n] = stage[n]
                                 /\ answers'[n] = answers[n] /\ reply'[n] = reply[n]
    BY DEF TypeOK, MessageArrives, Goes
  <2>2. updates' = updates /\ stored' = stored
    BY DEF MessageArrives, measures
  <2> QED BY <2>1, <2>2, OthersKeep
<1>3. MessageInv(m)'
  <2>1. stage[m] = "idle" /\ stage'[m] = "device" /\ answers'[m] = <<>> /\ input'[m] = i
    BY DEF MessageArrives, Goes, TypeOK, MessageInv, AnswersInv
  <2>2. updates' = updates /\ stored' = stored /\ \A u \in updates \union stored : u.of # m
    BY <2>1 DEF MessageArrives, measures, MessageInv, UpdatesInv
  <2>3. ~ IsArgo(m)'
    BY <2>1 DEF IsArgo, MessageArrives
  <2> QED BY <2>1, <2>2, <2>3 DEF MessageInv, AnswersInv, UpdatesInv, ArgoInv
<1> QED BY <1>1, <1>2, <1>3

\* The arrival of a request of ARGO: no key was tried yet, and a request that is refused
\* is not answered with 200 or 404.
LEMMA ArgoArrivesKeeps ==
  ASSUME MessagesInv, NEW m \in Message, NEW i \in Inputs, ArgoArrives(m, i)
  PROVE  MessagesInv'
<1> USE DEF MessagesInv
<1>1. stage[m] = "idle" /\ answers[m] = <<>> /\ reply[m] = 0 /\ input'[m] = i
  BY DEF ArgoArrives, TypeOK, MessageInv, AnswersInv
<1>2. \/ Handled(m, "device", 0) /\ KeyList(i) # <<>>
      \/ \E status \in {400, 500} : Handled(m, "answered", status)
  <2>1. reply = [reply EXCEPT ![m] = 0]
    BY <1>1 DEF TypeOK
  <2> QED BY <2>1 DEF ArgoArrives, Answer, Goes, Status, RefusalCode, NoCode, Handled
<1>3. UNCHANGED <<answers, updates, stored, writing, written, asking, alarm, process>>
      /\ input' = [input EXCEPT ![m] = i]
  BY DEF ArgoArrives, measures, results, requests
<1>4. TypeOK'
  <2>1. /\ input' \in [Message -> Inputs \union {Idle}] /\ input'[m] \in Inputs
        /\ \A n \in Message \ {m} : input'[n] = input[n]
    BY <1>1, <1>3 DEF TypeOK
  <2>2. /\ answers' \in [Message -> Seq({"absent", "error", "found"})]
        /\ updates' \union stored' \subseteq updates \union stored
        /\ UNCHANGED <<writing, written, asking, alarm, process>>
    BY <1>3 DEF TypeOK
  <2>3. Unanswered("device", 0) /\ \A status \in {400, 500} : Answered("answered", status)
    BY DEF Unanswered, Answered, Stage
  <2> QED BY <1>2, <2>1, <2>2, <2>3, HandlingTyped
<1>5. \A n \in Message \ {m} : MessageInv(n)'
  <2>1. \A n \in Message \ {m} : /\ input'[n] = input[n] /\ stage'[n] = stage[n]
                                 /\ answers'[n] = answers[n] /\ reply'[n] = reply[n]
    BY <1>2, <1>3 DEF TypeOK, Handled
  <2> QED BY <2>1, <1>3, OthersKeep
<1>6. MessageInv(m)'
  <2>1. \A u \in updates \union stored : u.of # m
    BY <1>1 DEF MessageInv, UpdatesInv
  <2>2. answers'[m] = <<>> /\ Len(answers'[m]) = 0
    BY <1>1, <1>3
  <2>3. Len(KeyList(i)) \in Nat /\ (KeyList(i) # <<>> => Len(KeyList(i)) > 0)
    BY ArgoInput
  <2>4. ArgoInv(m)'
    <3>1. \/ stage'[m] = "device" /\ reply'[m] = 0 /\ KeyList(i) # <<>>
          \/ stage'[m] = "answered" /\ reply'[m] \in {400, 500}
      BY <1>2 DEF TypeOK, Handled
    <3> HIDE DEF MessagesInv
    <3>2. KeyList(input'[m]) = KeyList(i)
      BY <1>1
    <3> QED BY <1>3, <2>1, <2>2, <2>3, <3>1, <3>2 DEF ArgoInv
  <2>5. AnswersInv(m)' /\ UpdatesInv(m)'
    BY <2>1, <2>2, <1>2, <1>3 DEF Handled, AnswersInv, UpdatesInv
  <2> QED BY <2>4, <2>5 DEF MessageInv
<1> QED BY <1>4, <1>5, <1>6

\* A device was found for the last key that was tried.  Whatever the message is, it
\* leaves "device" with one answer more; only a measure has an update, and ARGO sends
\* nothing else.
LEMMA DeviceFoundKeeps ==
  ASSUME MessagesInv, NEW m \in Message, DeviceFound(m)
  PROVE  MessagesInv'
<1> USE DEF MessagesInv
<1> DEFINE here == Len(answers[m]) + 1
<1>1. input[m] \in Inputs /\ stage[m] = "device" /\ reply[m] = 0 /\ answers[m] \in Seq({"absent", "error", "found"})
  BY DEF DeviceFound, TypeOK
<1>2. answers' = [answers EXCEPT ![m] = Append(@, "found")]
  BY DEF DeviceFound, Says
<1>3. /\ UNCHANGED <<input, reply, stored>>
      /\ stage' \in [Message -> Stage] /\ stage'[m] \in {"busy", "handled", "rejected", "thrown"}
      /\ process' \in {"up", "crashed"}
      /\ \A n \in Message \ {m} : stage'[n] = stage[n]
      /\ IsArgo(m) => stage'[m] = "busy"
      /\ updates' = updates \/ \E u : u.of = m /\ u.key = here /\ updates' = updates \union {u}
      /\ UNCHANGED <<asking, written>> \/ ~ IsArgo(m)
  <2>1. CASE SingleMeasure(m)
    <3> DEFINE one == UpdateOf(m, <<>>, IF IsArgo(m) THEN input[m].body ELSE SingleValue(Held(m)))
    <3>1. one.of = m /\ one.key = here
      BY DEF UpdateOf
    <3>2. /\ UNCHANGED <<input, reply, stored, results, requests, process>>
          /\ updates' = updates \union {one}
          /\ Goes(m, "device", IF IsArgo(m) THEN "busy" ELSE "handled")
      BY <2>1 DEF SingleMeasure
    <3> HIDE DEF one
    <3>3. /\ stage' \in [Message -> Stage]
          /\ stage'[m] = IF IsArgo(m) THEN "busy" ELSE "handled"
          /\ \A n \in Message \ {m} : stage'[n] = stage[n]
      BY <3>2 DEF Goes, TypeOK, Stage
    <3> QED BY <3>1, <3>2, <3>3 DEF results, requests, TypeOK
  <2>2. CASE MultipleMeasures(m)
    <3>1. ~ IsArgo(m)
      BY <2>2, <1>1, ArgoInput DEF MultipleMeasures, IsArgo
    <3> DEFINE all == UpdateOf(m, Groups(input[m].payload, Held(m)), NoValue)
    <3>2. all.of = m /\ all.key = here
      BY DEF UpdateOf
    <3>3. /\ UNCHANGED <<input, reply, stored>>
          /\ updates' = updates \/ updates' = updates \union {all}
          /\ \E to \in {"handled", "rejected", "thrown"} : Goes(m, "device", to)
          /\ process' \in {"up", "crashed"}
      BY <2>2 DEF MultipleMeasures, Ended, TypeOK
    <3> HIDE DEF all
    <3> QED BY <3>1, <3>2, <3>3 DEF Goes, TypeOK, Stage
  <2>3. CASE UpdateCommands(m)
    <3>1. ~ IsArgo(m)
      BY <2>3, <1>1, ArgoInput DEF UpdateCommands, IsArgo
    <3> QED BY <2>3, <3>1, <1>1 DEF UpdateCommands, Ended, Goes, TypeOK, Stage, measures, requests
  <2>4. CASE ManageConfigurationRequest(m)
    <3>1. ~ IsArgo(m)
      BY <2>4, <1>1, ArgoInput DEF ManageConfigurationRequest, IsArgo
    <3> QED BY <2>4, <3>1, <1>1 DEF ManageConfigurationRequest, Ended, Goes, TypeOK, Stage, measures, results
  <2> QED BY <2>1, <2>2, <2>3, <2>4 DEF DeviceFound
<1>4. /\ writing' \in SUBSET Result /\ written' = written
      /\ asking' \in SUBSET (Message \X Nat \X Step) /\ alarm' \in {"released", "raised"}
  <2>1. CASE SingleMeasure(m) \/ MultipleMeasures(m)
    BY <2>1 DEF SingleMeasure, MultipleMeasures, results, requests, TypeOK
  <2>2. CASE UpdateCommands(m)
    <3>1. DOMAIN Held(m) \subseteq Nat
      BY <1>1, HeldIsSequence
    <3> QED BY <2>2, <3>1 DEF UpdateCommands, Reached, requests, TypeOK, Result
  <2>3. CASE ManageConfigurationRequest(m)
    <3>1. DOMAIN Held(m) \subseteq Nat
      BY <1>1, HeldIsSequence
    <3>2. asking' \in SUBSET (Message \X Nat \X Step)
      BY <2>3, <3>1 DEF ManageConfigurationRequest, Reached, TypeOK, Step
    <3> QED BY <2>3, <3>2 DEF ManageConfigurationRequest, results, TypeOK
  <2> QED BY <2>1, <2>2, <2>3 DEF DeviceFound
<1>5. /\ answers' \in [Message -> Seq({"absent", "error", "found"})]
      /\ Len(answers'[m]) = here /\ here \in Nat \ {0}
      /\ answers'[m][here] = "found"
      /\ \A k \in DOMAIN answers'[m] : k < here => answers'[m][k] = "absent"
  BY <1>1, <1>2 DEF TypeOK, MessageInv, AnswersInv
<1>6. TypeOK'
  <2>1. \A u \in updates' \union stored' : u.of \in Message /\ u.key \in Nat \ {0}
    BY <1>3, <1>5 DEF TypeOK
  <2>2. \A n \in Message : /\ stage'[n] = "answered" <=> reply'[n] # 0
                           /\ stage'[n] # "idle" => input'[n] \in Inputs
    <3> SUFFICES ASSUME NEW n \in Message
                 PROVE  /\ stage'[n] = "answered" <=> reply'[n] # 0
                        /\ stage'[n] # "idle" => input'[n] \in Inputs
      OBVIOUS
    <3> CASE n = m
      BY <1>1, <1>3
    <3> CASE n # m
      BY <1>3 DEF TypeOK
    <3> QED OBVIOUS
  <2>3. input' \in [Message -> Inputs \union {Idle}] /\ reply' \in [Message -> {0} \union 200..599]
    BY <1>3 DEF TypeOK
  <2> HIDE DEF here
  <2> QED BY <1>3, <1>4, <1>5, <2>1, <2>2, <2>3 DEF TypeOK
<1>7. \A n \in Message \ {m} : MessageInv(n)'
  <2>1. \A n \in Message \ {m} : answers'[n] = answers[n]
    BY <1>2 DEF TypeOK
  <2>2. \A u \in updates' : u.of # m => u \in updates
    BY <1>3
  <2> QED BY <1>3, <2>1, <2>2, OthersKeep
<1>8. MessageInv(m)'
  <2>1. \A u \in updates \union stored : u.of # m
    BY <1>1 DEF MessageInv, UpdatesInv
  <2>2. \A u \in updates' \union stored' : u.of = m => u \in updates' /\ u.key = here
    BY <1>3, <2>1
  <2>3. \A u \in updates', v \in updates' : u.of = m /\ v.of = m => u = v
    BY <1>3, <2>1
  <2>4. AnswersInv(m)' /\ UpdatesInv(m)'
    BY <1>3, <1>5, <2>2 DEF AnswersInv, UpdatesInv
  <2>5. IsArgo(m)' <=> IsArgo(m)
    BY <1>3 DEF IsArgo
  <2>6. ArgoInv(m)'
    <3> HIDE DEF MessagesInv, here
    <3> QED BY <1>1, <1>3, <1>5, <2>1, <2>2, <2>3, <2>5 DEF ArgoInv
  <2> QED BY <2>4, <2>6 DEF MessageInv
<1> QED BY <1>6, <1>7, <1>8

\* No device: the answer of the registry is "absent" for all the keys tried.
LEMMA DeviceAbsentKeeps ==
  ASSUME MessagesInv, NEW m \in Message, DeviceAbsent(m)
  PROVE  MessagesInv'
<1> USE DEF MessagesInv
<1>1. input[m] \in Inputs /\ stage[m] = "device" /\ reply[m] = 0 /\ answers[m] \in Seq({"absent", "error", "found"})
  BY DEF DeviceAbsent, TypeOK
<1>2. /\ answers' = [answers EXCEPT ![m] = Append(@, "absent")]
      /\ UNCHANGED <<input, updates, stored, writing, written, asking, alarm, process>>
  BY DEF DeviceAbsent, Says, measures, results, requests
<1>3. /\ answers' \in [Message -> Seq({"absent", "error", "found"})]
      /\ Len(answers'[m]) = Len(answers[m]) + 1 /\ Len(answers[m]) \in Nat
      /\ \A k \in DOMAIN answers'[m] : answers'[m][k] = "absent"
  BY <1>1, <1>2 DEF TypeOK, MessageInv, AnswersInv
<1>4. /\ Len(KeyList(input[m])) \in Nat
      /\ IsArgo(m) => Len(answers[m]) < Len(KeyList(input[m]))
  BY <1>1, ArgoInput DEF MessageInv, ArgoInv
<1>5. \/ Handled(m, "device", 0) /\ Len(answers'[m]) < Len(KeyList(input[m]))
      \/ Handled(m, "lost", 0) /\ ~ IsArgo(m)
      \/ /\ Handled(m, "answered", 404) /\ IsArgo(m)
         /\ Len(answers'[m]) = Len(KeyList(input[m]))
  <2>1. Status(404) = 404
    BY DEF Status
  <2>2. stage = [stage EXCEPT ![m] = "device"] /\ reply = [reply EXCEPT ![m] = 0]
    BY <1>1 DEF TypeOK
  <2> HIDE DEF MessagesInv
  <2>3. CASE Len(answers'[m]) < Len(KeyList(input[m])) /\ UNCHANGED <<stage, reply>>
    BY <2>2, <2>3 DEF Handled
  <2>4. CASE Len(answers'[m]) >= Len(KeyList(input[m])) /\ GiveUp(m, 404)
    BY <2>4, <2>1, <2>2, <1>3, <1>4 DEF GiveUp, Answer, Goes, Handled
  <2> QED BY <2>3, <2>4 DEF DeviceAbsent
<1>6. TypeOK'
  <2>1. /\ input' \in [Message -> Inputs \union {Idle}] /\ input'[m] \in Inputs
        /\ \A n \in Message \ {m} : input'[n] = input[n]
        /\ updates' \union stored' \subseteq updates \union stored
        /\ UNCHANGED <<writing, written, asking, alarm, process>>
    BY <1>1, <1>2 DEF TypeOK
  <2>2. Unanswered("device", 0) /\ Unanswered("lost", 0) /\ Answered("answered", 404)
    BY DEF Unanswered, Answered, Stage
  <2> QED BY <1>3, <1>5, <2>1, <2>2, HandlingTyped
<1>7. \A n \in Message \ {m} : MessageInv(n)'
  <2>1. \A n \in Message \ {m} : /\ input'[n] = input[n] /\ stage'[n] = stage[n]
                                 /\ answers'[n] = answers[n] /\ reply'[n] = reply[n]
    BY <1>2, <1>5 DEF TypeOK, Handled
  <2> QED BY <2>1, <1>2, OthersKeep
<1>8. MessageInv(m)'
  <2>1. \A u \in updates' \union stored' : u.of # m
    BY <1>1, <1>2 DEF MessageInv, UpdatesInv
  <2>2. stage'[m] \in {"device", "lost", "answered"}
    BY <1>5 DEF TypeOK, Handled
  <2>3. AnswersInv(m)' /\ UpdatesInv(m)'
    BY <1>3, <2>1, <2>2 DEF AnswersInv, UpdatesInv
  <2>4. (IsArgo(m)' <=> IsArgo(m)) /\ KeyList(input'[m]) = KeyList(input[m]) /\ answers'[m] # <<>>
    BY <1>2, <1>3 DEF IsArgo
  <2>5. ArgoInv(m)'
    <3>1. IsArgo(m) =>
            /\ stage'[m] \in {"device", "answered"}
            /\ stage'[m] = "device" => Len(answers'[m]) < Len(KeyList(input[m]))
            /\ reply'[m] \in {0, 404}
            /\ reply'[m] = 404 => Len(answers'[m]) = Len(KeyList(input[m]))
      BY <1>3, <1>5 DEF TypeOK, Handled
    <3> HIDE DEF MessagesInv
    <3> QED BY <2>1, <2>4, <3>1 DEF ArgoInv
  <2> QED BY <2>3, <2>5 DEF MessageInv
<1> QED BY <1>6, <1>7, <1>8

\* The registry fails: the request is answered with the code of the error, which is
\* neither 200 nor 404, and no other key is tried.
LEMMA LookupFailsKeeps ==
  ASSUME MessagesInv, NEW m \in Message, LookupFails(m)
  PROVE  MessagesInv'
<1> USE DEF MessagesInv
<1>1. input[m] \in Inputs /\ stage[m] = "device" /\ reply[m] = 0 /\ answers[m] \in Seq({"absent", "error", "found"})
  BY DEF LookupFails, TypeOK
<1>2. /\ answers' = [answers EXCEPT ![m] = Append(@, "error")]
      /\ UNCHANGED <<input, updates, stored, writing, written, asking, alarm, process>>
  BY DEF LookupFails, Says, measures, results, requests
<1>3. /\ answers' \in [Message -> Seq({"absent", "error", "found"})]
      /\ Len(answers'[m]) = Len(answers[m]) + 1 /\ Len(answers[m]) \in Nat
      /\ \A k \in DOMAIN answers'[m] : k < Len(answers'[m]) => answers'[m][k] = "absent"
  BY <1>1, <1>2 DEF TypeOK, MessageInv, AnswersInv
<1>4. \/ Handled(m, "lost", 0) /\ ~ IsArgo(m)
      \/ \E status \in 300..599 : status # 404 /\ Handled(m, "answered", status) /\ IsArgo(m)
  <2>1. PICK code \in ErrorCode : GiveUp(m, code)
    BY DEF LookupFails
  <2>2. Status(code) \in 300..599 /\ Status(code) # 404
    BY StatusOfError, DeviceMessagesAssumption
  <2>3. reply = [reply EXCEPT ![m] = 0]
    BY <1>1 DEF TypeOK
  <2> QED BY <2>1, <2>2, <2>3 DEF GiveUp, Answer, Goes, Handled
<1>5. TypeOK'
  <2>1. /\ input' \in [Message -> Inputs \union {Idle}] /\ input'[m] \in Inputs
        /\ \A n \in Message \ {m} : input'[n] = input[n]
        /\ updates' \union stored' \subseteq updates \union stored
        /\ UNCHANGED <<writing, written, asking, alarm, process>>
    BY <1>1, <1>2 DEF TypeOK
  <2>2. Unanswered("lost", 0) /\ \A status \in 300..599 : Answered("answered", status)
    BY DEF Unanswered, Answered, Stage
  <2>3. CASE Handled(m, "lost", 0)
    BY <1>3, <2>1, <2>2, <2>3, HandlingTyped
  <2>4. CASE \E status \in 300..599 : Handled(m, "answered", status)
    <3>1. PICK status \in 300..599 : Handled(m, "answered", status)
      BY <2>4
    <3>2. Answered("answered", status)
      BY <2>2
    <3> QED BY <1>3, <2>1, <3>1, <3>2, HandlingTyped
  <2> QED BY <1>4, <2>3, <2>4
<1>6. \A n \in Message \ {m} : MessageInv(n)'
  <2>1. \A n \in Message \ {m} : /\ input'[n] = input[n] /\ stage'[n] = stage[n]
                                 /\ answers'[n] = answers[n] /\ reply'[n] = reply[n]
    BY <1>2, <1>4 DEF TypeOK, Handled
  <2> QED BY <2>1, <1>2, OthersKeep
<1>7. MessageInv(m)'
  <2>1. \A u \in updates' \union stored' : u.of # m
    BY <1>1, <1>2 DEF MessageInv, UpdatesInv
  <2>2. /\ stage'[m] \in {"lost", "answered"} /\ (IsArgo(m) => stage'[m] = "answered")
        /\ reply'[m] # 200 /\ reply'[m] # 404
    <3>1. stage \in [Message -> Stage] /\ reply \in [Message -> {0} \union 200..599]
      BY DEF TypeOK
    <3>2. CASE Handled(m, "lost", 0) /\ ~ IsArgo(m)
      BY <3>1, <3>2 DEF Handled
    <3>3. CASE \E status \in 300..599 : status # 404 /\ Handled(m, "answered", status) /\ IsArgo(m)
      <4>1. PICK status \in 300..599 : status # 404 /\ Handled(m, "answered", status) /\ IsArgo(m)
        BY <3>3
      <4>2. stage'[m] = "answered" /\ reply'[m] = status
        BY <3>1, <4>1 DEF Handled
      <4> QED BY <4>1, <4>2
    <3> QED BY <1>4, <3>2, <3>3
  <2>3. AnswersInv(m)' /\ UpdatesInv(m)'
    BY <1>3, <2>1, <2>2 DEF AnswersInv, UpdatesInv
  <2>4. IsArgo(m)' <=> IsArgo(m)
    BY <1>2 DEF IsArgo
  <2>5. ArgoInv(m)'
    BY <2>1, <2>2, <2>4 DEF ArgoInv
  <2> QED BY <2>3, <2>5 DEF MessageInv
<1> QED BY <1>5, <1>6, <1>7

\* The answer of the Context Broker to an update: of ARGO it is the reply, 200 if the
\* update was stored, and 404 only if the Context Broker says so.
LEMMA UpdateAnsweredKeeps ==
  ASSUME MessagesInv, NEW u \in updates, UpdateAnswered(u)
  PROVE  MessagesInv'
<1> USE DEF MessagesInv
<1> DEFINE m == u.of
<1>1. /\ m \in Message /\ stage[m] \notin {"idle", "device"}
      /\ input[m] \in Inputs
  BY DEF TypeOK, MessageInv, UpdatesInv
<1>2. IsArgo(m) => /\ stage[m] = "busy" /\ reply[m] = 0 /\ \A v \in updates : v.of = m => v = u
                   /\ \A v \in stored : v.of # m
  <2>1. SUFFICES ASSUME IsArgo(m)
                 PROVE  /\ stage[m] = "busy" /\ reply[m] = 0 /\ \A v \in updates : v.of = m => v = u
                        /\ \A v \in stored : v.of # m
    OBVIOUS
  <2>2. ArgoInv(m)
    BY <1>1 DEF MessageInv
  <2>3. stage[m] = "busy" /\ \A v \in updates : v.of = m => v = u
    BY <2>1, <2>2 DEF ArgoInv
  <2>4. reply[m] = 0
    BY <1>1, <2>3 DEF TypeOK
  <2>5. \A v \in stored : v.of # m
    BY <2>1, <2>2, <2>4 DEF ArgoInv
  <2> QED BY <2>3, <2>4, <2>5
<1>3. UNCHANGED <<input, answers, writing, written, asking, alarm, process>> /\ updates' = updates \ {u}
  BY DEF UpdateAnswered, results, requests
<1>4. \/ ~ IsArgo(m) /\ UNCHANGED <<stage, reply>> /\ stored' \in {stored, stored \union {u}}
      \/ IsArgo(m) /\ Handled(m, "answered", 200) /\ stored' = stored \union {u}
      \/ /\ IsArgo(m) /\ stored' = stored
         /\ \E status \in 300..599 : Handled(m, "answered", status)
  <2>1. \A code \in ErrorCode \union {404} : Status(code) \in 300..599
    BY StatusOfError
  <2> QED BY <2>1 DEF UpdateAnswered, Answer, Handled
<1>5. TypeOK'
  <2>1. /\ input' \in [Message -> Inputs \union {Idle}] /\ input'[m] \in Inputs
        /\ \A n \in Message \ {m} : input'[n] = input[n]
        /\ answers' \in [Message -> Seq({"absent", "error", "found"})]
        /\ updates' \union stored' \subseteq updates \union stored
        /\ UNCHANGED <<writing, written, asking, alarm, process>>
    BY <1>1, <1>3, <1>4 DEF TypeOK
  <2>2. CASE UNCHANGED <<stage, reply>>
    BY <2>1, <2>2, <1>3 DEF TypeOK
  <2>3. CASE \E status \in 200..599 : Handled(m, "answered", status)
    BY <2>1, <2>3, <1>1, HandlingTyped DEF Answered
  <2> QED BY <1>4, <2>2, <2>3
<1>6. \A n \in Message \ {m} : MessageInv(n)'
  <2>1. \A n \in Message \ {m} : /\ input'[n] = input[n] /\ stage'[n] = stage[n]
                                 /\ answers'[n] = answers[n] /\ reply'[n] = reply[n]
    <3>1. \/ UNCHANGED <<stage, reply>>
          \/ \E status \in 200..599 : Handled(m, "answered", status)
      BY <1>4
    <3>2. stage \in [Message -> Stage] /\ reply \in [Message -> {0} \union 200..599]
      BY DEF TypeOK
    <3> HIDE DEF m, MessagesInv
    <3> QED BY <3>1, <3>2, <1>3 DEF Handled
  <2>2. /\ \A v \in updates' : v.of # m => v \in updates
        /\ \A v \in stored' : v.of # m => v \in stored
        /\ \A v \in stored : v.of # m => v \in stored'
    BY <1>3, <1>4
  <2> HIDE DEF m
  <2> QED BY <2>1, <2>2, OthersKeep
<1>7. MessageInv(m)'
  <2>1. AnswersInv(m) /\ UpdatesInv(m) /\ ArgoInv(m)
    BY <1>1 DEF MessageInv
  <2>2. (IsArgo(m)' <=> IsArgo(m)) /\ KeyList(input'[m]) = KeyList(input[m]) /\ answers'[m] = answers[m]
    BY <1>3 DEF IsArgo
  <2>3. CASE ~ IsArgo(m) /\ UNCHANGED <<stage, reply>> /\ stored' \in {stored, stored \union {u}}
    BY <2>1, <2>2, <2>3, <1>3 DEF MessageInv, AnswersInv, UpdatesInv, ArgoInv
  <2>4. CASE IsArgo(m) /\ \E status \in 200..599 : Handled(m, "answered", status)
    <3>1. stage'[m] = "answered"
      BY <2>4, <1>1 DEF TypeOK, Handled
    <3>2. \A v \in updates' \union stored' : v \in updates \union stored
      BY <1>3, <1>4
    <3>3. AnswersInv(m)' /\ UpdatesInv(m)'
      BY <2>1, <2>2, <3>1, <3>2, <1>1 DEF AnswersInv, UpdatesInv
    <3>4. \A v \in updates' : v.of # m
      BY <2>4, <1>2, <1>3
    <3>5. Len(answers[m]) > 0 /\ answers[m][Len(answers[m])] = "found"
      BY <2>1, <2>4, <1>2 DEF ArgoInv
    <3>6. reply'[m] = 200 => \E v \in stored' : v.of = m
      <4>1. CASE Handled(m, "answered", 200) /\ stored' = stored \union {u}
        BY <4>1
      <4>2. CASE \E status \in 300..599 : Handled(m, "answered", status)
        <5>1. PICK status \in 300..599 : Handled(m, "answered", status)
          BY <4>2
        <5>2. reply'[m] = status
          BY <5>1, <1>1 DEF TypeOK, Handled
        <5> QED BY <5>1, <5>2
      <4> QED BY <4>1, <4>2, <1>4, <2>4
    <3>7. \A v \in stored' : v.of = m => reply'[m] = 200
      <4>1. CASE Handled(m, "answered", 200)
        BY <4>1, <1>1 DEF TypeOK, Handled
      <4>2. CASE stored' = stored
        BY <4>2, <2>4, <1>2
      <4> QED BY <4>1, <4>2, <1>4, <2>4
    <3>8. ArgoInv(m)'
      <4> HIDE DEF MessagesInv
      <4> QED BY <2>2, <3>1, <3>4, <3>5, <3>6, <3>7 DEF ArgoInv
    <3> QED BY <3>3, <3>8 DEF MessageInv
  <2> QED BY <1>4, <2>3, <2>4
<1> QED BY <1>5, <1>6, <1>7

-----------------------------------------------------------------------------
\* The invariant of the handling of messages.
LEMMA MessagesInvariant == Spec => []MessagesInv
<1>1. Init => MessagesInv
  <2> SUFFICES ASSUME Init PROVE MessagesInv
    OBVIOUS
  <2>1. TypeOK
    BY DEF Init, TypeOK, Stage, Idle
  <2>2. \A n \in Message : MessageInv(n)
    BY DEF Init, MessageInv, AnswersInv, UpdatesInv, ArgoInv, IsArgo, Idle
  <2> QED BY <2>1, <2>2 DEF MessagesInv
<1>2. MessagesInv /\ [Next]_vars => MessagesInv'
  <2> SUFFICES ASSUME MessagesInv, [Next]_vars PROVE MessagesInv'
    OBVIOUS
  <2>1. ASSUME NEW m \in Message, Arrive(m) PROVE MessagesInv'
    BY <2>1, MessageArrivesKeeps, ArgoArrivesKeeps DEF Arrive
  <2>2. ASSUME NEW m \in Message, LookedUp(m) PROVE MessagesInv'
    BY <2>2, DeviceFoundKeeps, DeviceAbsentKeeps, LookupFailsKeeps DEF LookedUp
  <2>3. ASSUME NEW u \in updates, UpdateAnswered(u) PROVE MessagesInv'
    BY <2>3, UpdateAnsweredKeeps
  <2>4. ASSUME NEW w \in writing, ResultAnswered(w) PROVE MessagesInv'
    <3>1. w \in Result /\ writing \subseteq Result /\ written \subseteq Result
      BY DEF MessagesInv, TypeOK
    <3>2. <<w[1], w[2], w[3] + 1>> \in Result
      BY <3>1 DEF Result
    <3>3. writing' \subseteq Result /\ written' \subseteq Result
      BY <2>4, <3>1, <3>2 DEF ResultAnswered
    <3>4. UNCHANGED <<handling, measures, requests, process>>
      BY <2>4 DEF ResultAnswered
    <3>5. TypeOK'
      BY <3>3, <3>4 DEF MessagesInv, TypeOK, handling, measures, requests
    <3> QED BY <3>4, <3>5, UntouchedKeeps DEF MessagesInv
  <2>5. ASSUME NEW a \in asking, Configures(a[1], a[2]) PROVE MessagesInv'
    <3>1. a[1] \in Message /\ a[2] \in Nat /\ asking \subseteq Message \X Nat \X Step
      BY DEF MessagesInv, TypeOK
    <3>2. \A step \in Step : <<a[1], a[2], step>> \in Message \X Nat \X Step
      BY <3>1
    <3>3. /\ UNCHANGED <<handling, measures, results, process>>
          /\ alarm' \in {"released", "raised"} \/ alarm' = alarm
          /\ asking' \subseteq asking \union {<<a[1], a[2], step>> : step \in Step}
      BY <2>5 DEF Configures, SubscribeAnswered, QueryAnswered, GroupAnswered, HttpAnswered,
                  Ends, Continues, Step
    <3>4. asking' \in SUBSET (Message \X Nat \X Step)
      BY <3>1, <3>2, <3>3
    <3>5. TypeOK'
      BY <3>3, <3>4 DEF MessagesInv, TypeOK, handling, measures, results
    <3> QED BY <3>3, <3>5, UntouchedKeeps DEF MessagesInv
  <2>6. ASSUME UNCHANGED vars PROVE MessagesInv'
    <3>1. TypeOK'
      BY <2>6 DEF MessagesInv, TypeOK, vars, handling, measures, results, requests
    <3> QED BY <2>6, <3>1, UntouchedKeeps DEF MessagesInv, vars
  <2> QED BY <2>1, <2>2, <2>3, <2>4, <2>5, <2>6 DEF Next
<1> QED BY <1>1, <1>2, PTL DEF Spec

\* The types of the handling of messages, for every set of messages.
THEOREM TypeCorrect == Spec => []TypeOK
<1>1. MessagesInv => TypeOK
  BY DEF MessagesInv
<1> QED BY <1>1, MessagesInvariant, PTL

\* An ARGO request is told what happened to its measure, and its keys are tried in order
\* up to the first the registry does not answer with 404, whatever the errors of the
\* registry and of the Context Broker are.
THEOREM ArgoIsTruthful == Spec => []ArgoTruthful
<1>1. MessagesInv => ArgoTruthful
  <2> SUFFICES ASSUME MessagesInv PROVE ArgoTruthful
    OBVIOUS
  <2>1. \A u \in updates \union stored :
          u.of \in Message /\ u.key = Len(answers[u.of]) /\ answers[u.of][u.key] = "found"
    BY DEF MessagesInv, TypeOK, MessageInv, UpdatesInv
  <2>2. ASSUME NEW m \in Message
        PROVE  \A k \in DOMAIN answers[m] : k < Len(answers[m]) => answers[m][k] = "absent"
    BY DEF MessagesInv, MessageInv, AnswersInv
  <2>3. ASSUME NEW m \in Message, IsArgo(m)
        PROVE  /\ reply[m] = 200 <=> \E u \in stored : u.of = m
               /\ reply[m] = 404 =>
                    \/ Len(answers[m]) = Len(KeyList(input[m])) /\ answers[m] # <<>>
                    \/ Len(answers[m]) > 0 /\ Last(answers[m]) = "found"
    <3>1. ArgoInv(m)
      BY DEF MessagesInv, MessageInv
    <3> QED BY <2>3, <3>1 DEF ArgoInv, Last
  <2> QED BY <2>1, <2>2, <2>3 DEF ArgoTruthful
<1> QED BY <1>1, MessagesInvariant, PTL

\* The results of one object are written in the order of the message, whatever fails and
\* however the series of several objects interleave.
THEOREM ResultsStayInOrder == Spec => []ResultsInOrder
<1>1. Init => ResultsInOrder
  BY DEF Init, ResultsInOrder
<1>2. ResultsInOrder /\ TypeOK /\ [Next]_vars => ResultsInOrder'
  <2> SUFFICES ASSUME ResultsInOrder, TypeOK, [Next]_vars PROVE ResultsInOrder'
    OBVIOUS
  <2>1. CASE UNCHANGED results
    BY <2>1 DEF results, ResultsInOrder
  <2>2. ASSUME NEW m \in Message, UpdateCommands(m) PROVE ResultsInOrder'
    <3>1. written' = written
      BY <2>2 DEF UpdateCommands
    <3>2. ASSUME NEW w \in writing' \union written', NEW k \in 1..(w[3] - 1)
          PROVE  <<w[1], w[2], k>> \in written'
      <4>1. CASE w \in writing \union written
        BY <4>1, <3>1, <3>2 DEF ResultsInOrder
      <4>2. CASE \E j : w = <<m, j, 1>>
        BY <4>2, <3>2
      <4> QED BY <2>2, <3>1, <4>1, <4>2 DEF UpdateCommands
    <3> QED BY <3>2 DEF ResultsInOrder
  <2>3. ASSUME NEW v \in writing, ResultAnswered(v) PROVE ResultsInOrder'
    <3>1. v \in Result /\ v[3] \in Nat
      BY DEF TypeOK, Result
    <3>2. written \subseteq written'
      BY <2>3 DEF ResultAnswered
    <3>3. ASSUME NEW w \in writing' \union written', NEW k \in 1..(w[3] - 1)
          PROVE  <<w[1], w[2], k>> \in written'
      <4>1. CASE w \in writing \union written
        BY <4>1, <3>2, <3>3 DEF ResultsInOrder
      <4>2. CASE w = <<v[1], v[2], v[3] + 1>> /\ v \in written'
        <5>1. v = <<v[1], v[2], v[3]>>
          BY <3>1 DEF Result
        <5>2. k \in 1..v[3]
          BY <4>2, <3>1, <3>3
        <5>3. CASE k = v[3]
          BY <4>2, <5>1, <5>3
        <5>4. CASE k # v[3]
          <6>1. k \in 1..(v[3] - 1)
            BY <5>2, <5>4, <3>1
          <6> QED BY <4>2, <6>1, <3>2 DEF ResultsInOrder
        <5> QED BY <5>3, <5>4
      <4> QED BY <2>3, <4>1, <4>2 DEF ResultAnswered
    <3> QED BY <3>3 DEF ResultsInOrder
  <2>4. ASSUME NEW m \in Message, Arrive(m) \/ LookedUp(m) PROVE ResultsInOrder'
    BY <2>1, <2>2, <2>4 DEF Arrive, MessageArrives, ArgoArrives, LookedUp, DeviceFound, DeviceAbsent,
       LookupFails, SingleMeasure, MultipleMeasures, ManageConfigurationRequest
  <2>5. ASSUME NEW u \in updates, UpdateAnswered(u) PROVE ResultsInOrder'
    BY <2>1, <2>5 DEF UpdateAnswered
  <2>6. ASSUME NEW a \in asking, Configures(a[1], a[2]) PROVE ResultsInOrder'
    BY <2>1, <2>6 DEF Configures, SubscribeAnswered, QueryAnswered, GroupAnswered, HttpAnswered
  <2> QED BY <2>1, <2>3, <2>4, <2>5, <2>6 DEF Next, vars
<1> QED BY <1>1, <1>2, TypeCorrect, PTL DEF Spec

-----------------------------------------------------------------------------
\* The update u holds what the message i asks for.
SentAs(u, i) ==
  /\ i.topic = "single" =>
       /\ u.value.items = i.body.items
       /\ u.value.form = IF i.body.form = "raw" /\ i.transport = "MQTT" THEN "hex" ELSE i.body.form
  /\ i.topic = "measures" /\ ~ Mistaken(i.payload, i.body) =>
       InBodyOrder(u.groups, i.payload, i.body)

MeasuresInv == \A u \in updates \union stored : SentAs(u, input[u.of])

\* The updates of a device that was found are made of the message it was found for.
LEMMA DeviceFoundSends ==
  ASSUME TypeOK, NEW m \in Message, DeviceFound(m), NEW u \in updates' \ updates
  PROVE  u.of = m /\ SentAs(u, input[m])
<1>1. input[m].body \in Body /\ input[m].transport \in Transport
  <2>1. input[m] \in Inputs
    BY DEF DeviceFound, TypeOK
  <2> QED BY <2>1, InputType DEF Input
<1>2. CASE SingleMeasure(m)
  <2> DEFINE value == IF IsArgo(m) THEN input[m].body ELSE SingleValue(Held(m))
  <2>1. /\ value.items = input[m].body.items
        /\ value.form = IF input[m].body.form = "raw" /\ input[m].transport = "MQTT" THEN "hex"
                         ELSE input[m].body.form
    <3>1. CASE IsArgo(m)
      BY <3>1 DEF IsArgo
    <3>2. CASE ~ IsArgo(m)
      BY <3>2, <1>1, SingleValueIsBody DEF Held
    <3> QED BY <3>1, <3>2
  <2> HIDE DEF value
  <2>2. u = UpdateOf(m, <<>>, value) /\ input[m].topic = "single"
    BY <1>2 DEF SingleMeasure, value
  <2> QED BY <2>1, <2>2 DEF UpdateOf, SentAs
<1>3. CASE MultipleMeasures(m)
  <2>1. /\ \A j \in DOMAIN Held(m) : IsObject(Held(m)[j])
        /\ u = UpdateOf(m, Groups(input[m].payload, Held(m)), NoValue)
        /\ input[m].topic = "measures"
    BY <1>3 DEF MultipleMeasures
  <2>2. ~ Mistaken(input[m].payload, input[m].body) =>
          InBodyOrder(Groups(input[m].payload, Held(m)), input[m].payload, input[m].body)
    BY <1>1, <2>1, GroupsInOrder DEF Held
  <2> QED BY <2>1, <2>2 DEF UpdateOf, SentAs
<1>4. CASE UpdateCommands(m) \/ ManageConfigurationRequest(m)
  BY <1>4 DEF UpdateCommands, ManageConfigurationRequest, measures
<1> QED BY <1>2, <1>3, <1>4 DEF DeviceFound

\* A measure of one attribute is stored as the value that was sent, and the measures of a
\* message in one update, every group of it, once and in order, for every body; no message
\* gets hold of the update of another, and the request an update is of stays what it was.
THEOREM MeasuresStayAsSent == Spec => []MeasuresAsSent
<1>1. Init => MeasuresInv
  BY DEF Init, MeasuresInv
<1>2. MessagesInv /\ MeasuresInv /\ [Next]_vars => MeasuresInv'
  <2> SUFFICES ASSUME MessagesInv, MeasuresInv, [Next]_vars PROVE MeasuresInv'
    OBVIOUS
  <2>1. CASE input' = input /\ updates' \union stored' \subseteq updates \union stored
    BY <2>1 DEF MeasuresInv
  <2>2. ASSUME NEW m \in Message, Arrive(m) PROVE MeasuresInv'
    <3>1. /\ stage[m] = "idle" /\ updates' = updates /\ stored' = stored
          /\ \E i \in Inputs : input' = [input EXCEPT ![m] = i]
      BY <2>2 DEF Arrive, MessageArrives, ArgoArrives, Goes, measures
    <3>2. ASSUME NEW u \in updates \union stored PROVE input'[u.of] = input[u.of]
      <4>1. u.of # m /\ u.of \in Message
        BY <3>1 DEF MessagesInv, TypeOK, MessageInv, UpdatesInv
      <4> QED BY <3>1, <4>1 DEF MessagesInv, TypeOK
    <3> QED BY <3>1, <3>2 DEF MeasuresInv
  <2>3. ASSUME NEW m \in Message, DeviceFound(m) PROVE MeasuresInv'
    <3>1. input' = input /\ stored' = stored
      BY <2>3 DEF DeviceFound, SingleMeasure, MultipleMeasures, UpdateCommands, ManageConfigurationRequest,
         measures
    <3>2. ASSUME NEW u \in updates' \union stored' PROVE SentAs(u, input'[u.of])
      <4>1. CASE u \in updates \union stored
        BY <3>1, <4>1 DEF MeasuresInv
      <4>2. CASE u \in updates' \ updates
        BY <2>3, <3>1, <4>2, DeviceFoundSends DEF MessagesInv
      <4> QED BY <3>1, <4>1, <4>2
    <3> QED BY <3>2 DEF MeasuresInv
  <2>4. ASSUME NEW m \in Message, LookedUp(m) PROVE MeasuresInv'
    BY <2>1, <2>3, <2>4 DEF LookedUp, DeviceAbsent, LookupFails, measures
  <2>5. ASSUME NEW u \in updates, UpdateAnswered(u) PROVE MeasuresInv'
    BY <2>1, <2>5 DEF UpdateAnswered
  <2>6. ASSUME NEW w \in writing, ResultAnswered(w) PROVE MeasuresInv'
    BY <2>1, <2>6 DEF ResultAnswered, handling, measures
  <2>7. ASSUME NEW a \in asking, Configures(a[1], a[2]) PROVE MeasuresInv'
    BY <2>1, <2>7 DEF Configures, SubscribeAnswered, QueryAnswered, GroupAnswered, HttpAnswered, handling,
       measures
  <2>8. CASE UNCHANGED vars
    BY <2>1, <2>8 DEF vars, handling, measures
  <2> QED BY <2>2, <2>4, <2>5, <2>6, <2>7, <2>8 DEF Next
<1>3. MeasuresInv => MeasuresAsSent
  BY DEF MeasuresInv, SentAs, MeasuresAsSent
<1> QED BY <1>1, <1>2, <1>3, MessagesInvariant, PTL DEF Spec

-----------------------------------------------------------------------------
(* The hashed keys.                                                        *)

\* A request whose hashed key has no text is refused as it arrives.
Keyless(i) == i.key = "hashed" /\ i.refusal = "none" /\ KeyList(i) = <<>>

KeylessInv ==
  \A m \in Message :
    stage[m] # "idle" /\ Keyless(input[m]) => stage[m] = "answered" /\ reply[m] = 400 /\ answers[m] = <<>>

\* A message is what it was when it came, and one that is answered stays as it is.
LEMMA AnsweredStays ==
  ASSUME MessagesInv, Next, NEW m \in Message, stage[m] # "idle"
  PROVE  /\ input'[m] = input[m]
         /\ stage[m] = "answered" => UNCHANGED <<stage[m], reply[m], answers[m]>>
<1> USE DEF MessagesInv
<1>1. CASE UNCHANGED handling
  BY <1>1 DEF handling
<1>2. ASSUME NEW n \in Message, Arrive(n) PROVE
        input'[m] = input[m] /\ UNCHANGED <<stage[m], reply[m], answers[m]>>
  <2>1. n # m
    BY <1>2 DEF Arrive, MessageArrives, ArgoArrives, Goes
  <2> QED BY <1>2, <2>1 DEF Arrive, MessageArrives, ArgoArrives, Goes, Answer, TypeOK
<1>3. ASSUME NEW n \in Message, LookedUp(n)
      PROVE  /\ input'[m] = input[m]
             /\ stage[m] = "answered" => UNCHANGED <<stage[m], reply[m], answers[m]>>
  <2>1. stage[n] = "device" /\ input' = input
    BY <1>3 DEF LookedUp, DeviceFound, DeviceAbsent, LookupFails, SingleMeasure, MultipleMeasures,
                UpdateCommands, ManageConfigurationRequest
  <2>2. \A o \in Message \ {n} : UNCHANGED <<stage[o], reply[o], answers[o]>>
    BY <1>3 DEF LookedUp, DeviceFound, DeviceAbsent, LookupFails, SingleMeasure, MultipleMeasures,
                UpdateCommands, ManageConfigurationRequest, Ended, Says, Goes, GiveUp, Answer, TypeOK
  <2> QED BY <2>1, <2>2
<1>4. ASSUME NEW u \in updates, UpdateAnswered(u)
      PROVE  /\ input'[m] = input[m]
             /\ stage[m] = "answered" => UNCHANGED <<stage[m], reply[m], answers[m]>>
  <2>1. input' = input /\ answers' = answers
    BY <1>4 DEF UpdateAnswered
  <2>2. u.of \in Message /\ (IsArgo(u.of) => stage[u.of] = "busy")
    BY DEF TypeOK, MessageInv, ArgoInv
  <2>3. u.of # m \/ ~ IsArgo(u.of) => UNCHANGED <<stage[m], reply[m]>>
    BY <1>4, <2>2 DEF UpdateAnswered, Answer, TypeOK
  <2> QED BY <2>1, <2>2, <2>3
<1>5. ASSUME NEW w \in writing, ResultAnswered(w) PROVE UNCHANGED handling
  BY <1>5 DEF ResultAnswered
<1>6. ASSUME NEW a \in asking, Configures(a[1], a[2]) PROVE UNCHANGED handling
  BY <1>6 DEF Configures, SubscribeAnswered, QueryAnswered, GroupAnswered, HttpAnswered
<1> QED BY <1>1, <1>2, <1>3, <1>4, <1>5, <1>6 DEF Next

\* What a message is as it comes: a request whose hashed key has no text is answered 400.
LEMMA KeylessRefused ==
  ASSUME MessagesInv, NEW m \in Message, NEW i \in Inputs, MessageArrives(m, i) \/ ArgoArrives(m, i)
  PROVE  /\ input'[m] = i
         /\ \A n \in Message \ {m} : stage'[n] = stage[n]
         /\ Keyless(i) => stage'[m] = "answered" /\ reply'[m] = 400 /\ answers'[m] = <<>>
<1> USE DEF MessagesInv
<1>1. i \in Input
  BY InputType
<1>2. stage[m] = "idle" /\ answers[m] = <<>> /\ input'[m] = i /\ UNCHANGED answers
  BY DEF MessageArrives, ArgoArrives, Goes, TypeOK, MessageInv, AnswersInv
<1>3. \A n \in Message \ {m} : stage'[n] = stage[n]
  BY DEF MessageArrives, ArgoArrives, Goes, Answer, TypeOK
<1>4. ASSUME Keyless(i) PROVE stage'[m] = "answered" /\ reply'[m] = 400
  <2>1. i.transport = "ARGO"
    BY <1>1, <1>4 DEF Keyless, Input
  <2>2. Answer(m, 400)
    BY <1>4, <2>1 DEF MessageArrives, ArgoArrives, Keyless
  <2> QED BY <2>2 DEF Answer, TypeOK
<1> QED BY <1>2, <1>3, <1>4

\* A request is looked up under the hash of the first field of the name its key selects,
\* for every document, and is refused with 400 if that field has no text.
\* (findProperty, apiKeyList)
THEOREM FirstFieldIsHashed == Spec => []FirstFieldHashed
<1>1. Init => KeylessInv
  BY DEF Init, KeylessInv
<1>2. MessagesInv /\ KeylessInv /\ [Next]_vars => KeylessInv'
  <2> SUFFICES ASSUME MessagesInv, KeylessInv, [Next]_vars PROVE KeylessInv'
    OBVIOUS
  <2>1. CASE UNCHANGED vars
    BY <2>1 DEF vars, handling, KeylessInv
  <2>2. CASE Next
    <3> SUFFICES ASSUME NEW m \in Message, stage'[m] # "idle", Keyless(input'[m])
                 PROVE  stage'[m] = "answered" /\ reply'[m] = 400 /\ answers'[m] = <<>>
      BY DEF KeylessInv, Keyless
    <3>1. CASE stage[m] # "idle"
      BY <2>2, <3>1, AnsweredStays DEF KeylessInv
    <3>2. CASE stage[m] = "idle"
      <4>1. ASSUME NEW n \in Message, Arrive(n)
            PROVE  stage'[m] = "answered" /\ reply'[m] = 400 /\ answers'[m] = <<>>
        <5>1. PICK i \in Inputs : MessageArrives(n, i) \/ ArgoArrives(n, i)
          BY <4>1 DEF Arrive
        <5>2. n = m /\ input'[m] = i
          BY <3>2, <5>1, KeylessRefused
        <5> QED BY <5>1, <5>2, KeylessRefused
      <4>2. ~ \E n \in Message : LookedUp(n) /\ n = m
        BY <3>2 DEF LookedUp, DeviceFound, DeviceAbsent, LookupFails
      <4>3. ASSUME NEW n \in Message \ {m}, LookedUp(n) PROVE FALSE
        BY <3>2, <4>3 DEF LookedUp, DeviceFound, DeviceAbsent, LookupFails, SingleMeasure, MultipleMeasures,
                UpdateCommands, ManageConfigurationRequest, Ended, Goes, GiveUp, Answer, MessagesInv, TypeOK
      <4>4. ASSUME NEW u \in updates, UpdateAnswered(u) PROVE FALSE
        <5>1. u.of \in Message /\ u.of # m
          BY <3>2 DEF MessagesInv, TypeOK, MessageInv, UpdatesInv
        <5> QED BY <3>2, <4>4, <5>1 DEF UpdateAnswered, Answer, MessagesInv, TypeOK
      <4>5. ASSUME NEW w \in writing, ResultAnswered(w) PROVE FALSE
        BY <3>2, <4>5 DEF ResultAnswered, handling
      <4>6. ASSUME NEW a \in asking, Configures(a[1], a[2]) PROVE FALSE
        BY <3>2, <4>6 DEF Configures, SubscribeAnswered, QueryAnswered, GroupAnswered, HttpAnswered, handling
      <4> QED BY <2>2, <4>1, <4>2, <4>3, <4>4, <4>5, <4>6 DEF Next
    <3> QED BY <3>1, <3>2
  <2> QED BY <2>1, <2>2
<1>3. MessagesInv /\ KeylessInv => FirstFieldHashed
  <2> SUFFICES ASSUME MessagesInv, KeylessInv, NEW m \in Message,
                      stage[m] # "idle", input[m].key = "hashed", input[m].refusal = "none"
               PROVE  LET text == TextAt(input[m].doc, FirstNamed(input[m].doc))
                      IN  /\ text # Blank => KeyList(input[m]) = <<text, "secret">>
                          /\ text = Blank => stage[m] = "answered" /\ reply[m] = 400 /\ answers[m] = <<>>
    BY DEF FirstFieldHashed
  <2> DEFINE i == input[m]
  <2>1. i.doc \in Document
    BY InputType DEF MessagesInv, TypeOK, Input
  <2>2. HashText(i.doc) = TextAt(i.doc, FirstNamed(i.doc))
    BY <2>1, FindsFirst, DeviceMessagesAssumption DEF HashText
  <2>3. KeyList(i) = IF HashText(i.doc) = Blank THEN <<>> ELSE <<HashText(i.doc), "secret">>
    BY DEF KeyList
  <2>4. HashText(i.doc) = Blank => Keyless(i)
    BY <2>3 DEF Keyless
  <2> QED BY <2>2, <2>3, <2>4 DEF KeylessInv
<1> QED BY <1>1, <1>2, <1>3, MessagesInvariant, PTL DEF Spec
=============================================================================
