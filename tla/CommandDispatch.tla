--------------------------- MODULE CommandDispatch ---------------------------
(***************************************************************************)
(* Push commands of one device, from the request of the Context Broker to  *)
(* the callback of its handler.                                            *)
(*                                                                         *)
(* A request of origin "context" is an update with one or more commands,   *)
(* for the commandHandler; one of origin "notification" carries one        *)
(* command and goes through the notificationHandler of the agent, which    *)
(* looks for a binding, and that of the HTTP binding, the only binding     *)
(* that has one.  Both end in generateCommandExecution, which gives, per   *)
(* command, one execution per binding of the transport, and in             *)
(* async.series over them.                                                 *)
(*                                                                         *)
(* The executions of AMQP, ARGO and MQTT call back synchronously, and so   *)
(* async.series runs them in one step, up to the next execution of HTTP.   *)
(* The device registry, the Context Broker, the endpoint of the device and *)
(* the state of the MQTT and AMQP connections are external.                *)
(***************************************************************************)
EXTENDS Naturals, Sequences

CONSTANTS
  Request,      \* requests of the Context Broker for the device
  Origin,       \* "context" or "notification", per request
  Size,         \* the number of commands of each request
  Transports    \* values of transport at the device, the group and the configuration

ASSUME CommandDispatchAssumption ==
  /\ Origin \in [Request -> {"context", "notification"}]
  /\ Size \in [Request -> Nat \ {0}]

VARIABLES
  conf,       \* what the device, its group and the configuration say
  stage,      \* per request: what its handler is waiting for, or how it ended
  routed,     \* per notification: did the agent's handler find the group?
  found,      \* per request: did the handler that executes it find the group?
  plan,       \* per request: the bindings of its executions, in order
  pc,         \* per request: the execution in progress
  sent,       \* history: executions handed to a transport
  accepted,   \* history: executions the endpoint answered with 200 or 201
  results,    \* results updateCommand is writing
  written,    \* results in the Context Broker
  mqtt,       \* "none" without a client, "down" or "up"
  amqp,       \* "none" without a usable channel, or "up"
  process     \* "up", or "crashed" after an exception

progress == <<stage, routed, found>>
running  == <<plan, pc, sent, process>>
outcome  == <<accepted, results, written>>
links    == <<mqtt, amqp>>
vars == <<conf, progress, running, outcome, links>>

\* The bindings directory, in the order readdirSync gives.
Bindings == <<"AMQP", "ARGO", "HTTP", "MQTT">>
Binding  == {"AMQP", "ARGO", "HTTP", "MQTT"}

\* "none" stands for a transport that is not set, "absent" for no group at all.  A
\* group that is absent has no endpoint.
Conf ==
  {c \in [device : Transports, group : Transports \union {"absent"}, default : Transports,
          endpoint : {"device", "group"}] :
     c.endpoint = "group" => c.group # "absent"}

Stage == {"new", "device", "routeKey", "route", "key", "group", "effects", "running",
          "answered", "failed", "parked", "lost"}
Known == {"unknown", "yes", "no"}
Execution == Request \X (Nat \ {0})

TypeOK ==
  /\ conf \in Conf
  /\ stage \in [Request -> Stage]
  /\ routed \in [Request -> Known]
  /\ found \in [Request -> Known]
  /\ plan \in [Request -> Seq(Binding)]
  /\ pc \in [Request -> Nat]
  /\ sent \in SUBSET Execution
  /\ accepted \in SUBSET Execution
  /\ results \in SUBSET Execution
  /\ written \in SUBSET Execution
  /\ mqtt \in {"none", "down", "up"}
  /\ amqp \in {"none", "up"}
  /\ process \in {"up", "crashed"}

Init ==
  /\ conf \in Conf
  /\ stage = [r \in Request |-> "new"]
  /\ routed = [r \in Request |-> "unknown"]
  /\ found = [r \in Request |-> "unknown"]
  /\ plan = [r \in Request |-> <<>>]
  /\ pc = [r \in Request |-> 0]
  /\ sent = {}
  /\ accepted = {}
  /\ results = {}
  /\ written = {}
  /\ mqtt \in {"none", "down"}
  /\ amqp = "none"
  /\ process = "up"

\* The handler of r goes on from one of its waits to another.
Goes(r, from, to) ==
  /\ process = "up"
  /\ stage[r] = from
  /\ stage' = [stage EXCEPT ![r] = to]

-----------------------------------------------------------------------------
(* The choice of the bindings: transportSelector.                          *)

\* A wrong Handlers: no case for a protocol that is not set.
HandlersOfProtocol(protocol) == <<protocol>>

\* createExecutionsForBinding: the binding of the protocol, or every binding when
\* there is none.
Handlers(protocol) ==
  IF protocol = "none" THEN Bindings
  ELSE IF protocol \in Binding THEN <<protocol>> ELSE <<>>

Executions(protocol, commands) ==
  LET h == Handlers(protocol)
  IN  [k \in 1..(commands * Len(h)) |-> h[((k - 1) % Len(h)) + 1]]

\* The transport of the device, of the group if it was found, or the default.  A
\* group that was not found is {}.
Transport(known) ==
  IF conf.device # "none" THEN conf.device
  ELSE IF known = "yes" /\ conf.group # "none" THEN conf.group
  ELSE conf.default

\* The transport of the executions, and a wrong one: the group before the device.
GroupFirst(known) ==
  IF known = "yes" /\ conf.group # "none" THEN conf.group
  ELSE IF conf.device # "none" THEN conf.device ELSE conf.default

ExecutionTransport(known) == Transport(known)

\* getConfigurationSilently: an error leaves the group empty and is not passed on.
Lookup(known) == known = "yes" => conf.group # "absent"

-----------------------------------------------------------------------------
(* async.series over the executions.                                       *)

\* Publishing without a channel, or reading connected without a client, throws.
Throws(b) ==
  \/ b = "AMQP" /\ amqp = "none"
  \/ b = "MQTT" /\ mqtt = "none"

\* MQTT only logs while it is not connected, and ARGO has no commands.
Reaches(b) ==
  \/ b \in {"AMQP", "HTTP"}
  \/ b = "MQTT" /\ mqtt = "up"

\* The executions of p from i up to the next one of HTTP, which is then in
\* progress, or up to the end, where the series calls back.
Advance(r, p, i) ==
  \E j \in i..(Len(p) + 1) :
    /\ j <= Len(p) => p[j] = "HTTP"
    /\ \A k \in i..(j - 1) : p[k] # "HTTP"
    /\ sent' = sent \union
         {<<r, k>> : k \in {k \in i..j : /\ k <= Len(p)
                                         /\ Reaches(p[k])
                                         /\ \A l \in i..k : ~ Throws(p[l])}}
    /\ IF \E k \in i..(j - 1) : Throws(p[k])
       THEN /\ process' = "crashed"
            /\ stage' = [stage EXCEPT ![r] = "lost"]
       ELSE /\ stage' = [stage EXCEPT ![r] = IF j <= Len(p) THEN "running" ELSE "answered"]
            /\ UNCHANGED process
    /\ pc' = [pc EXCEPT ![r] = j]

\* A wrong Execute: async.parallel instead of async.series.
ExecuteParallel(r, known) ==
  LET p == Executions(ExecutionTransport(known), Size[r])
  IN  /\ plan' = [plan EXCEPT ![r] = p]
      /\ sent' = sent \union {<<r, k>> : k \in {k \in 1..Len(p) : Reaches(p[k])}}
      /\ stage' = [stage EXCEPT ![r] = IF Len(p) > 0 THEN "running" ELSE "answered"]
      /\ pc' = [pc EXCEPT ![r] = 1]
      /\ UNCHANGED process

Execute(r, known) ==
  LET p == Executions(ExecutionTransport(known), Size[r])
  IN  plan' = [plan EXCEPT ![r] = p] /\ Advance(r, p, 1)

-----------------------------------------------------------------------------
(* The handlers, up to the executions.                                     *)

Receive(r) ==
  /\ Goes(r, "new", IF Origin[r] = "context" THEN "device" ELSE "routeKey")
  /\ UNCHANGED <<conf, routed, found, running, outcome, links>>

\* getDeviceByNameAndType of commandHandler.
GetDevice(r) ==
  /\ Goes(r, "device", "key") \/ Goes(r, "device", "failed")
  /\ UNCHANGED <<conf, routed, found, running, outcome, links>>

\* getEffectiveApiKey of the agent's notificationHandler.
RouteKey(r) ==
  /\ Goes(r, "routeKey", "route") \/ Goes(r, "routeKey", "failed")
  /\ UNCHANGED <<conf, routed, found, running, outcome, links>>

\* The group, and applyFunctionFromBinding: only the HTTP binding has a
\* notificationHandler, and with no binding the series calls back at once.
Route(r) ==
  \E known \in {"yes", "no"} :
    /\ Lookup(known)
    /\ routed' = [routed EXCEPT ![r] = known]
    /\ Goes(r, "route", IF Transport(known) \in {"HTTP", "none"} THEN "key" ELSE "answered")
    /\ UNCHANGED <<conf, found, running, outcome, links>>

\* getEffectiveApiKey of commandHandler, or of the HTTP binding's notificationHandler.
EffectiveApiKey(r) ==
  /\ Goes(r, "key", "group") \/ Goes(r, "key", "failed")
  /\ UNCHANGED <<conf, routed, found, running, outcome, links>>

\* The group again; commandHandler then executes, and notificationHandler asks for
\* the side effects first.
FindGroup(r) ==
  /\ process = "up"
  /\ stage[r] = "group"
  /\ \E known \in {"yes", "no"} :
       /\ Lookup(known)
       /\ found' = [found EXCEPT ![r] = known]
       /\ \/ Origin[r] = "context" /\ Execute(r, known)
          \/ Origin[r] = "notification" /\ Goes(r, "group", "effects")
             /\ UNCHANGED running
  /\ UNCHANGED <<conf, routed, outcome, links>>

HasEndpoint(known) == conf.endpoint = "device" \/ known = "yes"

\* The callback of executeUpdateSideEffects: with no endpoint the command is stored
\* for a poll, which is in CommandPolling.
SideEffects(r) ==
  /\ process = "up"
  /\ stage[r] = "effects"
  /\ \/ HasEndpoint(found[r]) /\ Execute(r, found[r])
     \/ ~ HasEndpoint(found[r]) /\ Goes(r, "effects", "parked") /\ UNCHANGED running
  /\ UNCHANGED <<conf, routed, found, outcome, links>>

-----------------------------------------------------------------------------
(* The answer of the endpoint: executeCommand of the HTTP binding.         *)

\* Does the execution have an apikey?  It was generated with the effective key for a
\* context request, and with that of the group for a notification.
HasKey(r) == Origin[r] = "context" \/ found[r] = "yes"

\* 200 or 201 with the result of the command: updateCommand is put off to nextTick,
\* and the series goes on.  Without an apikey the result is dropped.
HttpAccepted(r) ==
  /\ process = "up"
  /\ stage[r] = "running"
  /\ HasEndpoint(found[r])
  /\ accepted' = accepted \union {<<r, pc[r]>>}
  /\ results' = IF HasKey(r) THEN results \union {<<r, pc[r]>>} ELSE results
  /\ Advance(r, plan[r], pc[r] + 1)
  /\ UNCHANGED <<conf, routed, found, plan, written, links>>

\* Wrong versions of HttpRefused: no callback at all; the series goes on.
RefusedSilently(r) ==
  /\ Goes(r, "running", "lost")
  /\ UNCHANGED <<conf, routed, found, running, outcome, links>>

RefusedContinues(r) ==
  /\ process = "up"
  /\ stage[r] = "running"
  /\ Advance(r, plan[r], pc[r] + 1)
  /\ UNCHANGED <<conf, routed, found, plan, outcome, links>>

\* Another code, no answer before the timeout, no connection, or no url: the series
\* ends with the error.
HttpRefused(r) ==
  /\ Goes(r, "running", "failed")
  /\ UNCHANGED <<conf, routed, found, running, outcome, links>>

\* setCommandResult of updateCommand; an error is only logged.
WriteResult(e) ==
  /\ process = "up"
  /\ e \in results
  /\ results' = results \ {e}
  /\ written' = written \union {e} \/ UNCHANGED written
  /\ UNCHANGED <<conf, progress, running, accepted, links>>

-----------------------------------------------------------------------------
\* The connections come and go; a binding that is disabled never has one.
MqttChanges ==
  /\ process = "up"
  /\ mqtt # "none"
  /\ mqtt' = IF mqtt = "up" THEN "down" ELSE "up"
  /\ UNCHANGED <<conf, progress, running, outcome, amqp>>

AmqpChanges ==
  /\ process = "up"
  /\ amqp' = IF amqp = "up" THEN "none" ELSE "up"
  /\ UNCHANGED <<conf, progress, running, outcome, mqtt>>

Next ==
  \/ \E r \in Request :
       \/ Receive(r) \/ GetDevice(r) \/ RouteKey(r) \/ Route(r) \/ EffectiveApiKey(r)
       \/ FindGroup(r) \/ SideEffects(r) \/ HttpAccepted(r) \/ HttpRefused(r)
  \/ \E e \in results : WriteResult(e)
  \/ MqttChanges
  \/ AmqpChanges

Spec == Init /\ [][Next]_vars

\* The library and the Context Broker answer every call, and the endpoint answers or
\* http.timeout passes.  Nothing forces a request, nor a connection to come back.
Fairness ==
  /\ \A r \in Request :
       WF_vars(\/ GetDevice(r) \/ RouteKey(r) \/ Route(r) \/ EffectiveApiKey(r)
               \/ FindGroup(r) \/ SideEffects(r) \/ HttpAccepted(r) \/ HttpRefused(r))
  /\ \A r \in Request : \A k \in 1..(4 * Size[r]) : WF_vars(WriteResult(<<r, k>>))

FairSpec == Spec /\ Fairness

-----------------------------------------------------------------------------
Http(r, k) == k \in DOMAIN plan[r] /\ plan[r][k] = "HTTP"

\* The commands of a request leave one after the other: an execution reaches a
\* transport only after the endpoint has accepted every HTTP execution before it, so
\* nothing of a request is sent once one of its commands has been refused, whatever
\* other requests do meanwhile.  (async.series of commandHandler)
InOrder ==
  \A e \in sent : \A k \in 1..(e[2] - 1) : Http(e[1], k) => <<e[1], k>> \in accepted

\* The callback without an error means that the endpoint accepted every HTTP
\* execution of the request: the half of ImplementsSeries that commandHandler relies on,
\* proved on its own.  (executeCommand of the HTTP binding, async.series)
AnsweredMeansAccepted ==
  \A r \in Request :
    stage[r] = "answered" =>
      \A k \in DOMAIN plan[r] : Http(r, k) => <<r, k>> \in accepted

\* A notified command leaves by the HTTP binding that took it, unless the device has
\* no transport and either there is no transport at all or the two look-ups of the
\* group, one to route and one to execute, gave different answers.
\* (notificationHandler of iotagent-json and of the HTTP binding)
RouteAgrees ==
  \A e \in sent :
    LET r == e[1]
    IN  Origin[r] = "notification" /\ ~ Http(r, e[2]) =>
          /\ conf.device = "none"
          /\ Transport(found[r]) = "none" \/ routed[r] # found[r]

\* Every request is answered, with or without an error, or stored for a poll, while
\* the process lives.  (commandHandler, notificationHandler)
EventuallyAnswered ==
  \A r \in Request :
    stage[r] # "new" ~> stage[r] \in {"answered", "failed", "parked"} \/ process = "crashed"

\* The abstract request: the executions of HTTP are what the endpoint has to perform,
\* and the verdict is how the handler ended.
HttpSeries == [r \in Request |-> {k \in DOMAIN plan[r] : plan[r][k] = "HTTP"}]

Verdict ==
  [r \in Request |->
     CASE stage[r] = "answered" -> "done"
       [] stage[r] = "failed"   -> "refused"
       [] stage[r] = "parked"   -> "stored"
       [] stage[r] = "lost"     -> "lost"
       [] OTHER                 -> "open"]

Series == INSTANCE CommandSeries WITH
  series <- HttpSeries, performed <- accepted, verdict <- Verdict

\* The handling of requests implements CommandSeries: each has its commands accepted
\* one after the other and at most once, gets one verdict that fits what was accepted,
\* and nothing is accepted or answered any more after an exception.  (commandHandler,
\* notificationHandler, executeCommand of the HTTP binding, async.series)
ImplementsSeries == Series!SeriesSpec
=============================================================================
