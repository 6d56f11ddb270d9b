-------------------------- MODULE HttpRequestProofs --------------------------
(***************************************************************************)
(* Proofs about HttpRequest, for any number of requests and results and    *)
(* any errors of the library and the endpoint.                             *)
(***************************************************************************)
EXTENDS HttpRequest, TLAPS

\* Where a request stands says what it has done: its tasks are waiting or done from
\* the time they are handed out, and only a configuration request is delivered.
Placed(r) ==
  /\ stage[r] \in {"tasks", "queue"} =>
       /\ input[r].route # "configuration"
       /\ Tasks(input[r]) \subseteq waiting[r] \union done[r]
  /\ stage[r] = "queue" => waiting[r] = {}
  /\ stage[r] \in {"query", "endpoint", "sending"} =>
       input[r].route = "configuration" /\ Payload(input[r]) = "configuration"
  /\ stage[r] = "subscribe" =>
       input[r].route = "configuration" /\ Payload(input[r]) = "subscription"
  /\ answer[r] = 200 => Asked(input[r]) \subseteq done[r]

HttpInv == TypeOK /\ \A r \in Request : Placed(r)

\* Whatever the inputs, the tasks of one are among all tasks.
LEMMA TasksTyped == \A i \in Input : Tasks(i) \in SUBSET AllTasks
  BY DEF AllTasks

\* The codes of the errors of the library and of the endpoint are statuses, and none
\* of them is 200.
LEMMA CodesTyped ==
  ASSUME NEW code \in LibraryError \union {404, 400, 500, NoCode}
  PROVE  code = NoCode \/ (code \in 200..599 /\ code # 200 /\ code # 0)
  BY HttpRequestAssumption DEF HttpRequestAssumption, NoCode

\* Idle is an input the program can get.
LEMMA IdleTyped == Idle \in Input
<1> /\ "get" \in Route /\ "absent" \in Bodies["get"]
  BY DEF Route, Bodies
<1> "absent" \in Body
  BY DEF Body
<1> QED
  BY DEF Idle, Input

LEMMA InitPlaced == Init => HttpInv
  BY IdleTyped, HttpRequestAssumption DEF Init, HttpInv, TypeOK, Stage, Placed, Idle

\* An answer with an error or a refusal keeps the invariant, whatever was waiting.
LEMMA AnswerKeeps ==
  ASSUME HttpInv, NEW r \in Request, NEW status \in 200..599, Answer(r, status),
         UNCHANGED input,
         waiting' \in [Request -> SUBSET AllTasks], done' \in [Request -> SUBSET AllMarks],
         \A q \in Request \ {r} : waiting'[q] = waiting[q] /\ done'[q] = done[q],
         status = 200 => Asked(input[r]) \subseteq done'[r]
  PROVE  HttpInv'
<1> USE DEF HttpInv, TypeOK, Stage, Placed, Answer
<1>0. /\ status # 0
      /\ stage' \in [Request -> Stage]
      /\ answer' \in [Request -> {0} \union 200..599]
  OBVIOUS
<1>1. TypeOK'
  BY <1>0
<1>2. ASSUME NEW q \in Request PROVE Placed(q)'
  <2>1. CASE q = r
    BY <2>1
  <2>2. CASE q # r
    BY <2>2 DEF Asked
  <2> QED
    BY <2>1, <2>2
<1> QED
  BY <1>1, <1>2

\* An answer of success, with everything that was asked for done.
LEMMA SuccessKeeps ==
  ASSUME HttpInv, NEW r \in Request, Answer(r, 200), UNCHANGED <<input, waiting>>,
         done' \in [Request -> SUBSET AllMarks],
         \A q \in Request \ {r} : done'[q] = done[q],
         Asked(input[r]) \subseteq done'[r]
  PROVE  HttpInv'
<1>1. 200 \in 200..599
  OBVIOUS
<1>2. waiting' \in [Request -> SUBSET AllTasks]
  BY DEF HttpInv, TypeOK
<1>3. \A q \in Request \ {r} : waiting'[q] = waiting[q] /\ done'[q] = done[q]
  OBVIOUS
<1> HIDE DEF Answer
<1> QED
  BY <1>1, <1>2, <1>3, AnswerKeeps

\* So does a move to a stage that asks nothing of the request, or what it has.
LEMMA GoesKeeps ==
  ASSUME HttpInv, NEW r \in Request, NEW to \in Stage \ {"answered"}, Goes(r, to),
         stage[r] # "answered",
         UNCHANGED <<input, done>>,
         waiting' \in [Request -> SUBSET AllTasks],
         \A q \in Request \ {r} : waiting'[q] = waiting[q],
         to \in {"tasks", "queue"} =>
           /\ input[r].route # "configuration"
           /\ Tasks(input[r]) \subseteq waiting'[r] \union done[r],
         to = "queue" => waiting'[r] = {},
         to \in {"query", "endpoint", "sending"} =>
           input[r].route = "configuration" /\ Payload(input[r]) = "configuration",
         to = "subscribe" =>
           input[r].route = "configuration" /\ Payload(input[r]) = "subscription"
  PROVE  HttpInv'
<1> USE DEF HttpInv, TypeOK, Stage, Placed, Goes
<1>1. TypeOK'
  <2>1. stage' \in [Request -> Stage] /\ answer' = answer
    OBVIOUS
  <2>2. ASSUME NEW q \in Request PROVE answer'[q] # 0 <=> stage'[q] = "answered"
    <3>1. CASE q = r
      BY <3>1
    <3>2. CASE q # r
      BY <3>2
    <3> QED
      BY <3>1, <3>2
  <2> QED
    BY <2>1, <2>2
<1>2. ASSUME NEW q \in Request PROVE Placed(q)'
  <2>1. CASE q = r
    BY <2>1
  <2>2. CASE q # r
    BY <2>2 DEF Asked
  <2> QED
    BY <2>1, <2>2
<1> QED
  BY <1>1, <1>2

\* handleError and replyToDevice, called with an error.
LEMMA ErrorKeeps ==
  ASSUME HttpInv, NEW r \in Request, NEW code,
         code = NoCode \/ (code \in 200..599 /\ code # 200 /\ code # 0),
         HandleError(r, code) \/ ReplyWithError(r, code),
         stage[r] # "answered",
         UNCHANGED <<input, done>>,
         waiting' \in [Request -> SUBSET AllTasks],
         \A q \in Request \ {r} : waiting'[q] = waiting[q]
  PROVE  HttpInv'
<1>1. done' \in [Request -> SUBSET AllMarks]
  BY DEF HttpInv, TypeOK
<1>2. CASE HandleError(r, code)
  <2>1. PICK status \in 200..599 : status # 200 /\ Answer(r, status)
    BY <1>2 DEF HandleError, NoCode
  <2> QED
    BY <1>1, <2>1, AnswerKeeps
<1>3. CASE ReplyWithError(r, code) /\ code = NoCode
  BY <1>3, GoesKeeps DEF ReplyWithError, Stage
<1>4. CASE ReplyWithError(r, code) /\ code # NoCode
  BY <1>1, <1>4, AnswerKeeps DEF ReplyWithError
<1> QED
  BY <1>2, <1>3, <1>4

-----------------------------------------------------------------------------
(* The invariant.                                                          *)

\* A task that is answered keeps the invariant: before the last one the request goes
\* on waiting, after an error nothing depends on it.
LEMMA TaskKeeps ==
  ASSUME HttpInv, NEW r \in Request, NEW t \in waiting[r], UNCHANGED input,
         waiting' = [waiting EXCEPT ![r] = @ \ {t}],
         UNCHANGED <<stage, answer>>,
         \/ done' = [done EXCEPT ![r] = @ \union {t}]
         \/ stage[r] # "tasks" /\ UNCHANGED done
  PROVE  HttpInv'
<1> USE DEF HttpInv, TypeOK
<1>1. TypeOK'
  BY DEF AllMarks
<1>2. ASSUME NEW q \in Request PROVE Placed(q)'
  <2>1. CASE q = r
    BY <2>1 DEF Placed, Asked
  <2>2. CASE q # r
    BY <2>2 DEF Placed, Asked
  <2> QED
    BY <2>1, <2>2
<1> QED
  BY <1>1, <1>2

\* returnCommands keeps the invariant once every task has been accepted.
LEMMA ReturnKeeps ==
  ASSUME HttpInv, NEW r \in Request, ReturnCommands(r), UNCHANGED input,
         stage[r] # "answered", input[r].route # "configuration",
         Tasks(input[r]) \subseteq done'[r],
         waiting' \in [Request -> SUBSET AllTasks], done' \in [Request -> SUBSET AllMarks],
         waiting'[r] = {},
         \A q \in Request \ {r} : waiting'[q] = waiting[q] /\ done'[q] = done[q]
  PROVE  HttpInv'
<1>1. CASE Answer(r, 200)
  <2>1. Asked(input[r]) \subseteq done'[r] /\ 200 \in 200..599
    BY DEF Asked
  <2> QED
    BY <1>1, <2>1, AnswerKeeps
<1>2. CASE Goes(r, "queue")
  <2> USE DEF HttpInv, TypeOK, Stage, Placed, Goes
  <2>1. TypeOK'
    BY <1>2
  <2>2. ASSUME NEW q \in Request PROVE Placed(q)'
    <3>1. CASE q = r
      BY <1>2, <3>1
    <3>2. CASE q # r
      BY <1>2, <3>2 DEF Asked
    <3> QED
      BY <3>1, <3>2
  <2> QED
    BY <2>1, <2>2
<1> QED
  BY <1>1, <1>2 DEF ReturnCommands

\* HttpInv is an invariant.
LEMMA HttpInvariant == Spec => []HttpInv
<1>1. HttpInv /\ [Next]_vars => HttpInv'
  <2> SUFFICES ASSUME HttpInv, [Next]_vars PROVE HttpInv'
    OBVIOUS
  <2>1. CASE UNCHANGED vars
    BY <2>1 DEF vars, HttpInv, TypeOK, Placed, Asked
  <2>2. ASSUME NEW r \in Request, Receive(r) PROVE HttpInv'
    <3>1. PICK i \in Input : input' = [input EXCEPT ![r] = i]
      BY <2>2 DEF Receive
    <3>2. TypeOK'
      BY <2>2, <3>1 DEF Receive, Goes, HttpInv, TypeOK, Stage
    <3>3. ASSUME NEW q \in Request PROVE Placed(q)'
      <4>1. CASE q = r
        BY <2>2, <4>1 DEF Receive, Goes, HttpInv, TypeOK, Placed
      <4>2. CASE q # r
        BY <2>2, <3>1, <4>2 DEF Receive, Goes, HttpInv, TypeOK, Placed, Asked
      <4> QED
        BY <4>1, <4>2
    <3> QED
      BY <3>2, <3>3 DEF HttpInv
  <2>3. ASSUME NEW r \in Request, Library(r) PROVE HttpInv'
    <3>1. /\ waiting \in [Request -> SUBSET AllTasks]
          /\ done \in [Request -> SUBSET AllMarks]
          /\ input \in [Request -> Input]
      BY DEF HttpInv, TypeOK
    <3>2. CASE Read(r)
      <4>1. PICK code \in {400, NoCode} : HandleError(r, code) \/ Goes(r, "device")
        BY <3>2 DEF Read
      <4>2. CASE HandleError(r, code)
        BY <3>1, <3>2, <4>2, ErrorKeeps, CodesTyped DEF Read
      <4>3. CASE Goes(r, "device")
        BY <3>1, <3>2, <4>3, GoesKeeps DEF Read, Stage
      <4> QED
        BY <4>1, <4>2, <4>3
    <3>3. CASE DeviceNotFound(r)
      <4>1. PICK code \in LibraryError \union {404} : HandleError(r, code)
        BY <3>3 DEF DeviceNotFound
      <4> QED
        BY <3>1, <3>3, <4>1, ErrorKeeps, CodesTyped DEF DeviceNotFound
    <3>4. CASE ProcessMeasure(r)
      <4>1. /\ waiting' \in [Request -> SUBSET AllTasks]
            /\ waiting'[r] = Tasks(input[r])
            /\ \A q \in Request \ {r} : waiting'[q] = waiting[q]
        BY <3>1, <3>4, TasksTyped DEF ProcessMeasure
      <4>2. CASE waiting'[r] = {} /\ ReturnCommands(r)
        BY <3>1, <3>4, <4>1, <4>2, ReturnKeeps DEF ProcessMeasure
      <4>3. CASE Goes(r, "tasks")
        BY <3>4, <4>1, <4>3, GoesKeeps DEF ProcessMeasure, Stage
      <4> QED
        BY <3>4, <4>2, <4>3 DEF ProcessMeasure
    <3>5. CASE ProcessConfiguration(r)
      <4>1. CASE Goes(r, "query") /\ Payload(input[r]) = "configuration"
        BY <3>1, <3>5, <4>1, GoesKeeps DEF ProcessConfiguration, Stage
      <4>2. CASE Goes(r, "subscribe") /\ Payload(input[r]) = "subscription"
        BY <3>1, <3>5, <4>2, GoesKeeps DEF ProcessConfiguration, Stage
      <4>3. CASE Answer(r, 200) /\ Payload(input[r]) = "object"
        <5>1. UNCHANGED <<input, waiting, done>> /\ Asked(input[r]) \subseteq done[r]
          BY <3>5, <4>3 DEF ProcessConfiguration, Asked
        <5> QED
          BY <3>1, <4>3, <5>1, SuccessKeeps
      <4>4. CASE Goes(r, "threw")
        BY <3>1, <3>5, <4>4, GoesKeeps DEF ProcessConfiguration, Stage
      <4>5. CASE HandleError(r, NoCode)
        BY <3>1, <3>5, <4>5, ErrorKeeps DEF ProcessConfiguration
      <4> QED
        BY <3>5, <4>1, <4>2, <4>3, <4>4, <4>5 DEF ProcessConfiguration
    <3>6. ASSUME NEW t \in waiting[r], TaskDone(r, t) PROVE HttpInv'
      <4>1. /\ waiting' \in [Request -> SUBSET AllTasks]
            /\ done' \in [Request -> SUBSET AllMarks]
            /\ \A q \in Request \ {r} : waiting'[q] = waiting[q] /\ done'[q] = done[q]
        BY <3>1, <3>6 DEF TaskDone, AllMarks
      <4>2. CASE stage[r] = "tasks" /\ waiting'[r] = {} /\ ReturnCommands(r)
        <5>1. input[r].route # "configuration" /\ Tasks(input[r]) \subseteq done'[r]
          BY <3>1, <3>6, <4>2 DEF HttpInv, Placed, TaskDone
        <5> QED
          BY <3>6, <4>1, <4>2, <5>1, ReturnKeeps DEF TaskDone
      <4>3. CASE UNCHANGED <<stage, answer>>
        BY <3>6, <4>3, TaskKeeps DEF TaskDone
      <4> QED
        BY <3>6, <4>2, <4>3 DEF TaskDone
    <3>7. ASSUME NEW t \in waiting[r], TaskFails(r, t) PROVE HttpInv'
      <4>1. ASSUME stage[r] = "tasks", NEW code \in LibraryError, HandleError(r, code)
            PROVE  HttpInv'
        <5>1. /\ waiting' \in [Request -> SUBSET AllTasks]
              /\ \A q \in Request \ {r} : waiting'[q] = waiting[q]
          BY <3>1, <3>7 DEF TaskFails
        <5> QED
          BY <3>7, <4>1, <5>1, ErrorKeeps, CodesTyped DEF TaskFails
      <4>2. CASE stage[r] # "tasks" /\ UNCHANGED <<stage, answer>>
        BY <3>7, <4>2, TaskKeeps DEF TaskFails
      <4> QED
        BY <3>7, <4>1, <4>2 DEF TaskFails
    <3>8. CASE QueueAnswered(r)
      <4>1. Asked(input[r]) \subseteq done[r]
        BY <3>8 DEF QueueAnswered, HttpInv, Placed, Asked
      <4> QED
        BY <3>1, <3>8, <4>1, AnswerKeeps DEF QueueAnswered
    <3>9. CASE Query(r)
      <4>1. CASE Goes(r, "endpoint")
        BY <3>1, <3>9, <4>1, GoesKeeps DEF Query, Stage, HttpInv, Placed
      <4>2. ASSUME NEW code \in LibraryError, ReplyWithError(r, code) PROVE HttpInv'
        BY <3>1, <3>9, <4>2, ErrorKeeps, CodesTyped DEF Query
      <4> QED
        BY <3>9, <4>1, <4>2 DEF Query
    <3>10. CASE FindEndpoint(r)
      <4>1. CASE Goes(r, "sending")
        BY <3>1, <3>10, <4>1, GoesKeeps DEF FindEndpoint, Stage, HttpInv, Placed
      <4>2. ASSUME NEW code \in LibraryError \union {404, 400}, ReplyWithError(r, code)
            PROVE HttpInv'
        BY <3>1, <3>10, <4>2, ErrorKeeps, CodesTyped DEF FindEndpoint
      <4> QED
        BY <3>10, <4>1, <4>2 DEF FindEndpoint
    <3>11. CASE Subscribe(r)
      <4>1. CASE Answer(r, 200) /\ done' = [done EXCEPT ![r] = @ \union {Delivery("subscription")}]
        <5>1. /\ done' \in [Request -> SUBSET AllMarks]
              /\ \A q \in Request \ {r} : done'[q] = done[q]
              /\ Asked(input[r]) \subseteq done'[r]
          BY <3>1, <3>11, <4>1 DEF Subscribe, AllMarks, HttpInv, Placed, Asked
        <5>2. UNCHANGED <<input, waiting>> /\ Answer(r, 200)
          BY <3>11, <4>1 DEF Subscribe
        <5> QED
          BY <5>1, <5>2, SuccessKeeps
      <4>2. ASSUME NEW code \in LibraryError, ReplyWithError(r, code), UNCHANGED done
            PROVE HttpInv'
        BY <3>1, <3>11, <4>2, ErrorKeeps, CodesTyped DEF Subscribe
      <4> QED
        BY <3>11, <4>1, <4>2 DEF Subscribe
    <3> QED
      BY <2>3, <3>2, <3>3, <3>4, <3>5, <3>6, <3>7, <3>8, <3>9, <3>10, <3>11 DEF Library
  <2>4. ASSUME NEW r \in Request, Endpoint(r) PROVE HttpInv'
    <3>1. /\ waiting \in [Request -> SUBSET AllTasks]
          /\ done \in [Request -> SUBSET AllMarks]
      BY DEF HttpInv, TypeOK
    <3>2. PICK status \in EndpointStatus \union {NoCode} : EndpointAnswers(r, status)
      BY <2>4 DEF Endpoint
    <3>3. CASE status = 200
      <4>1. /\ done' \in [Request -> SUBSET AllMarks]
            /\ \A q \in Request \ {r} : done'[q] = done[q]
            /\ Asked(input[r]) \subseteq done'[r]
        BY <3>1, <3>2, <3>3 DEF EndpointAnswers, AllMarks, HttpInv, Placed, Asked
      <4>2. UNCHANGED <<input, waiting>> /\ Answer(r, 200)
        BY <3>2, <3>3 DEF EndpointAnswers
      <4> QED
        BY <4>1, <4>2, SuccessKeeps
    <3>4. CASE status # 200
      <4>1. status = NoCode \/ (status \in 200..599 /\ status # 200 /\ status # 0)
        BY <3>4, HttpRequestAssumption DEF HttpRequestAssumption
      <4> QED
        BY <3>1, <3>2, <3>4, <4>1, ErrorKeeps DEF EndpointAnswers
    <3> QED
      BY <3>3, <3>4
  <2> QED
    BY <2>1, <2>2, <2>3, <2>4 DEF Next
<1> QED
  BY InitPlaced, <1>1, PTL DEF Spec

-----------------------------------------------------------------------------
(* The theorems.                                                           *)

\* Every answer is an HTTP status, whatever the codes of the errors.  (handleError)
THEOREM TypeCorrect == Spec => []TypeOK
<1>1. HttpInv => TypeOK
  BY DEF HttpInv
<1> QED
  BY <1>1, HttpInvariant, PTL

\* A 200 means that all the request asked for was accepted.
\* (handleIncomingMeasure, sendConfigurationToDevice)
THEOREM SuccessIsComplete == Spec => []SuccessMeansDone
<1>1. HttpInv => SuccessMeansDone
  BY DEF HttpInv, Placed, SuccessMeansDone
<1> QED
  BY <1>1, HttpInvariant, PTL

\* An answer is final: no call that is still out can answer again.
\* (updateCommandHandler)
THEOREM AnswerIsFinal == Spec => AnsweredOnce
<1>1. HttpInv /\ [Next]_vars => [\A r \in Request : answer[r] # 0 => answer'[r] = answer[r]]_vars
  <2> SUFFICES ASSUME HttpInv, Next, NEW r \in Request, answer[r] # 0
               PROVE  answer'[r] = answer[r]
    BY DEF vars
  <2>1. stage[r] = "answered"
    BY DEF HttpInv, TypeOK
  <2>2. ASSUME NEW q \in Request, NEW status, Answer(q, status), q # r
        PROVE  answer'[r] = answer[r]
    BY <2>2 DEF Answer, HttpInv, TypeOK
  <2>3. PICK q \in Request : Receive(q) \/ Library(q) \/ Endpoint(q)
    BY DEF Next
  <2>4. UNCHANGED answer \/ stage[q] # "answered"
    BY <2>3 DEF Receive, Library, Read, DeviceNotFound, ProcessMeasure,
       ProcessConfiguration, TaskDone, TaskFails, QueueAnswered, Query, FindEndpoint,
       Subscribe, Endpoint, EndpointAnswers
  <2>5. UNCHANGED answer \/ \E status : Answer(q, status)
    BY <2>3 DEF Receive, Library, Read, DeviceNotFound, ProcessMeasure,
       ProcessConfiguration, TaskDone, TaskFails, QueueAnswered, Query, FindEndpoint,
       Subscribe, Endpoint, EndpointAnswers, HandleError, ReplyWithError, ReturnCommands, Goes
  <2> QED
    BY <2>1, <2>2, <2>4, <2>5
<1> QED
  BY <1>1, HttpInvariant, PTL DEF Spec, AnsweredOnce
=============================================================================
