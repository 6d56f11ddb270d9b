----------------------------- MODULE HttpRequest -----------------------------
(***************************************************************************)
(* The requests of devices to the HTTP binding: the five routes start      *)
(* registers, from the body parser to the answer.                          *)
(*                                                                         *)
(* The middlewares of a route run in one step once the body has been read, *)
(* up to the look-up of the device.  What a measure or a set of command    *)
(* results asks of the library are its tasks: one update for a measure,    *)
(* one setCommandResult per result, in parallel.  The library (registry    *)
(* and Context Broker) and the endpoint of the device are external: their  *)
(* answers come in any order, with or without an error.                    *)
(*                                                                         *)
(* The commands a poll is answered with, and what follows, are in          *)
(* CommandPolling.                                                         *)
(***************************************************************************)
EXTENDS Naturals

CONSTANTS
  Request,        \* requests of devices
  Command,        \* commands whose results a request may carry
  LibraryError,   \* codes of the errors of the library
  EndpointStatus  \* statuses the endpoint of a device answers with

NoCode == 0       \* an error whose code is no HTTP status, such as ECONNREFUSED

ASSUME HttpRequestAssumption ==
  /\ LibraryError \subseteq {NoCode} \union 400..599
  /\ EndpointStatus \subseteq 200..599

VARIABLES
  input,    \* per request: what it carries
  stage,    \* per request: what its handler is waiting for, or how it ended
  waiting,  \* per request: the tasks not answered yet
  done,     \* history: the tasks and deliveries that were accepted
  answer    \* per request: the status of its answer, or 0

vars == <<input, stage, waiting, done, answer>>

-----------------------------------------------------------------------------
(* What a request carries.  "broken" cannot be parsed; "zero" is a value   *)
(* JavaScript takes for false, as 0; "absent" is a POST without body or a  *)
(* GET without the parameter d.                                            *)

Bodies ==
  [get           |-> {"broken", "absent", "zero", "object"},
   measure       |-> {"broken", "absent", "zero", "object"},
   attr          |-> {"broken", "absent", "zero", "object", "number", "text", "binary"},
   command       |-> {"broken", "absent", "zero", "object"},
   configuration |-> {"broken", "absent", "zero", "configuration", "subscription"}]

Route == DOMAIN Bodies
Body  == UNION {Bodies[route] : route \in Route}

\* complete: the mandatory parameters are there, and a content type that is supported.
Input ==
  {i \in [route : Route, body : Body, complete : BOOLEAN, stamp : BOOLEAN,
          getCmd : BOOLEAN, results : SUBSET Command] :
     /\ i.body \in Bodies[i.route]
     /\ i.results # {} => i.route = "command" /\ i.body = "object"}

\* jsonPayload, after the body parser and parseData or parseDataMultipleMeasure: a
\* body that is false gives way to the parameter d, and the parser of a POST makes
\* {} of no body.
Payload(i) ==
  CASE i.body = "zero"                        -> "none"
    [] i.body = "absent" /\ i.route = "get"   -> "none"
    [] i.body = "absent" /\ i.route # "get"   -> "object"
    [] OTHER                                  -> i.body

\* toString('hex') of a single attribute: binary data to hexadecimal, an object to
\* the text "[object Object]", a text to itself; a number throws and stays.
Converted(body) ==
  CASE body = "binary" -> "hex"
    [] body = "object" -> "[object Object]"
    [] OTHER           -> body

\* addTimestamp writes into the members of the payload, if they are objects: the
\* measures of a list, which only parseDataMultipleMeasure makes.  Of a single object it
\* writes into the values that are objects themselves, which does not stamp the measure.
Stamped(i) == i.stamp /\ i.route = "measure"

\* The calls handleIncomingMeasure makes for the payload, and their marks in done.
Result(c) == [task |-> "result", of |-> c, stamped |-> FALSE]
Measure(value, stamped) == [task |-> "measure", of |-> value, stamped |-> stamped]

Tasks(i) ==
  CASE Payload(i) = "none"   -> {}
    [] Payload(i) # "none" /\ i.route = "command" -> {Result(c) : c \in i.results}
    [] Payload(i) # "none" /\ i.route = "attr"    -> {Measure(Converted(Payload(i)), Stamped(i))}
    [] OTHER                                      -> {Measure(Payload(i), Stamped(i))}

\* What a configuration request achieves.
Delivery(kind) == [task |-> "delivery", of |-> kind, stamped |-> FALSE]

Idle == [route |-> "get", body |-> "absent", complete |-> FALSE, stamp |-> FALSE,
         getCmd |-> FALSE, results |-> {}]

Init ==
  /\ input = [r \in Request |-> Idle]
  /\ stage = [r \in Request |-> "idle"]
  /\ waiting = [r \in Request |-> {}]
  /\ done = [r \in Request |-> {}]
  /\ answer = [r \in Request |-> 0]

-----------------------------------------------------------------------------
(* Answers.                                                                *)

Goes(r, to) ==
  /\ stage' = [stage EXCEPT ![r] = to]
  /\ UNCHANGED answer

Answer(r, status) ==
  /\ stage' = [stage EXCEPT ![r] = "answered"]
  /\ answer' = [answer EXCEPT ![r] = status]

\* A wrong version of HandleError, for the mutant runs: the code as it is.
HandleErrorRaw(r, code) == Answer(r, code)

\* handleError: the status of the error, if it is one.
HandleError(r, code) == Answer(r, IF code = NoCode THEN 500 ELSE code)

\* replyToDevice has no such test: the code of the error is the status, and a code
\* that is no status throws in the callback, so that nothing is answered.
ReplyWithError(r, code) ==
  IF code = NoCode THEN Goes(r, "threw") ELSE Answer(r, code)

\* returnCommands: without getCmd an empty answer, otherwise the queue first.
ReturnCommands(r) ==
  IF input[r].getCmd THEN Goes(r, "queue") ELSE Answer(r, 200)

-----------------------------------------------------------------------------
(* The pipeline.                                                           *)

Receive(r) ==
  /\ stage[r] = "idle"
  /\ input' \in {[input EXCEPT ![r] = i] : i \in Input}
  /\ Goes(r, "reading")
  /\ UNCHANGED <<waiting, done>>

\* checkMandatoryParams: a GET has to carry data or ask for commands.
Complete(i) ==
  i.complete /\ (i.route = "get" => i.body # "absent" \/ i.getCmd)

\* The body parser refuses what it cannot parse, parseData the parameter d of a GET,
\* with an error that has no status.
Read(r) ==
  LET i == input[r]
      parserFails == i.body = "broken" /\ i.route # "get"
  IN
  /\ stage[r] = "reading"
  /\ \/ (parserFails \/ ~ Complete(i)) /\ HandleError(r, 400)
     \/ ~ parserFails /\ Complete(i) /\ i.body = "broken" /\ HandleError(r, NoCode)
     \/ Complete(i) /\ i.body # "broken" /\ Goes(r, "device")
  /\ UNCHANGED <<input, waiting, done>>

\* retrieveDevice: the device of the default key, or the group, the device, found or
\* created, and the merge of both; one error for all.
DeviceNotFound(r) ==
  /\ stage[r] = "device"
  /\ \E code \in LibraryError \union {404} : HandleError(r, code)
  /\ UNCHANGED <<input, waiting, done>>

\* processHTTPWithDevice: nothing to send, or the tasks of the payload.
ProcessMeasure(r) ==
  /\ stage[r] = "device"
  /\ input[r].route # "configuration"
  /\ waiting' = [waiting EXCEPT ![r] = Tasks(input[r])]
  /\ \/ waiting'[r] = {} /\ ReturnCommands(r)
     \/ waiting'[r] # {} /\ Goes(r, "tasks")
  /\ UNCHANGED <<input, done>>

\* Wrong versions of TaskFails, for the mutant runs: the error is only logged; each
\* error calls back.
TaskFailsSilently(r, t) ==
  /\ t \in waiting[r]
  /\ waiting' = [waiting EXCEPT ![r] = @ \ {t}]
  /\ \/ waiting'[r] = {} /\ ReturnCommands(r)
     \/ waiting'[r] # {} /\ UNCHANGED <<stage, answer>>
  /\ UNCHANGED <<input, done>>

TaskFailsAgain(r, t) ==
  /\ t \in waiting[r]
  /\ waiting' = [waiting EXCEPT ![r] = @ \ {t}]
  /\ \E code \in LibraryError : HandleError(r, code)
  /\ UNCHANGED <<input, done>>

\* The answer to one task.  async.parallel calls updateCommandHandler once: at the
\* first error, or when all are done; what comes after an error changes nothing.
TaskDone(r, t) ==
  /\ t \in waiting[r]
  /\ waiting' = [waiting EXCEPT ![r] = @ \ {t}]
  /\ done' = [done EXCEPT ![r] = @ \union {t}]
  /\ \/ stage[r] = "tasks" /\ waiting'[r] = {} /\ ReturnCommands(r)
     \/ (stage[r] # "tasks" \/ waiting'[r] # {}) /\ UNCHANGED <<stage, answer>>
  /\ UNCHANGED input

TaskFails(r, t) ==
  /\ t \in waiting[r]
  /\ waiting' = [waiting EXCEPT ![r] = @ \ {t}]
  /\ \/ stage[r] = "tasks" /\ \E code \in LibraryError : HandleError(r, code)
     \/ stage[r] # "tasks" /\ UNCHANGED <<stage, answer>>
  /\ UNCHANGED <<input, done>>

\* A wrong version of QueueAnswered, for the mutant runs: an error is not answered.
QueueAnsweredIfRead(r) ==
  /\ stage[r] = "queue"
  /\ Answer(r, 200) \/ Goes(r, "threw")
  /\ UNCHANGED <<input, waiting, done>>

\* commandQueue: with an error, an empty list or commands, the answer is 200.
QueueAnswered(r) ==
  /\ stage[r] = "queue"
  /\ Answer(r, 200)
  /\ UNCHANGED <<input, waiting, done>>

-----------------------------------------------------------------------------
(* handleConfigurationRequest, manageConfiguration and                     *)
(* sendConfigurationToDevice.                                              *)

\* A type that is none of the two is only logged; reading the type of no payload
\* throws in the callback of the library, or is answered if that came at once.
ProcessConfiguration(r) ==
  LET payload == Payload(input[r]) IN
  /\ stage[r] = "device"
  /\ input[r].route = "configuration"
  /\ \/ payload = "configuration" /\ Goes(r, "query")
     \/ payload = "subscription" /\ Goes(r, "subscribe")
     \/ payload = "object" /\ Answer(r, 200)
     \/ payload = "none" /\ (Goes(r, "threw") \/ HandleError(r, NoCode))
  /\ UNCHANGED <<input, waiting, done>>

Query(r) ==
  /\ stage[r] = "query"
  /\ \/ Goes(r, "endpoint")
     \/ \E code \in LibraryError : ReplyWithError(r, code)
  /\ UNCHANGED <<input, waiting, done>>

\* The second retrieveDevice; a device without endpoint is an error of status 400.
FindEndpoint(r) ==
  /\ stage[r] = "endpoint"
  /\ \/ Goes(r, "sending")
     \/ \E code \in LibraryError \union {404, 400} : ReplyWithError(r, code)
  /\ UNCHANGED <<input, waiting, done>>

Subscribe(r) ==
  /\ stage[r] = "subscribe"
  /\ \/ Answer(r, 200) /\ done' = [done EXCEPT ![r] = @ \union {Delivery("subscription")}]
     \/ \E code \in LibraryError : ReplyWithError(r, code) /\ UNCHANGED done
  /\ UNCHANGED <<input, waiting>>

\* handleDeviceResponse: any status but 200 is the code of an error.
EndpointAnswers(r, status) ==
  /\ stage[r] = "sending"
  /\ \/ /\ status = 200
        /\ Answer(r, 200)
        /\ done' = [done EXCEPT ![r] = @ \union {Delivery("configuration")}]
     \/ status # 200 /\ ReplyWithError(r, status) /\ UNCHANGED done
  /\ UNCHANGED <<input, waiting>>

-----------------------------------------------------------------------------
Library(r) ==
  \/ Read(r)
  \/ DeviceNotFound(r)
  \/ ProcessMeasure(r)
  \/ ProcessConfiguration(r)
  \/ \E t \in waiting[r] : TaskDone(r, t) \/ TaskFails(r, t)
  \/ QueueAnswered(r)
  \/ Query(r)
  \/ FindEndpoint(r)
  \/ Subscribe(r)

Endpoint(r) == \E status \in EndpointStatus \union {NoCode} : EndpointAnswers(r, status)

Next == \E r \in Request : Receive(r) \/ Library(r) \/ Endpoint(r)

Spec == Init /\ [][Next]_vars

\* The library answers every call, and the endpoint answers or the connection ends.
Fairness == \A r \in Request : WF_vars(Library(r)) /\ WF_vars(Endpoint(r))

FairSpec == Spec /\ Fairness

-----------------------------------------------------------------------------
(* Properties.                                                             *)

Stage == {"idle", "reading", "device", "tasks", "queue", "query", "endpoint", "sending",
          "subscribe", "answered", "threw"}

AllTasks == UNION {Tasks(i) : i \in Input}
AllMarks == AllTasks \union {Delivery("configuration"), Delivery("subscription")}

\* Every answer is an HTTP status and a request has one exactly when it is answered.
\* (handleError, replyToDevice)
TypeOK ==
  /\ input \in [Request -> Input]
  /\ stage \in [Request -> Stage]
  /\ waiting \in [Request -> SUBSET AllTasks]
  /\ done \in [Request -> SUBSET AllMarks]
  /\ answer \in [Request -> {0} \union 200..599]
  /\ \A r \in Request : answer[r] # 0 <=> stage[r] = "answered"

\* What a request asks for: the tasks of its payload, or a delivery.
Asked(i) ==
  IF i.route # "configuration" THEN Tasks(i)
  ELSE IF Payload(i) \in {"configuration", "subscription"} THEN {Delivery(Payload(i))}
  ELSE {}

\* A device that reads 200 has everything it asked for: its measure or each of its
\* results is in the Context Broker, or its configuration was delivered to its
\* endpoint.  One result that fails among several is never a 200, whatever the
\* order of the answers.  (handleIncomingMeasure, sendConfigurationToDevice)
SuccessMeansDone ==
  \A r \in Request : answer[r] = 200 => Asked(input[r]) \subseteq done[r]

\* A request is answered once: results that are accepted or fail after the answer to
\* an earlier failure neither answer again nor change the answer.
\* (updateCommandHandler, the callback of async.parallel)
AnsweredOnce ==
  [][\A r \in Request : answer[r] # 0 => answer'[r] = answer[r]]_vars

\* A request for measures, results or commands is answered, whichever call fails, a
\* failure to read the queue included.  (returnCommands, handleError)
EventuallyAnswered ==
  \A r \in Request :
    stage[r] = "reading" /\ input[r].route # "configuration" ~> answer[r] # 0

\* The manual on a single measure: its value is stored as it was sent, binary data in
\* hexadecimal.  The code drops the values JavaScript takes for false.
\* (parseData, processHTTPWithDevice)
SingleMeasureStored ==
  \A r \in Request :
    LET sent == input[r].body IN
    answer[r] = 200 /\ input[r].route = "attr" /\ sent # "absent" =>
      \E stamped \in BOOLEAN :
        Measure(IF sent = "binary" THEN "hex" ELSE sent, stamped) \in done[r]
=============================================================================
