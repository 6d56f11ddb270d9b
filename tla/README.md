# TLA+ models of the JSON IoT Agent

The IoT Agent for JSON (`src/lib`) stands between devices that speak HTTP, MQTT, AMQP or the
ARGO Messaging Service and an NGSI Context Broker. `iotagent-node-lib` keeps the registries of
devices, groups and polled commands and talks to the Context Broker; the code of this repository
is what happens around it, mostly chains of asynchronous callbacks. This directory holds TLA+
modules for the parts of it where the order of those callbacks matters, TLC configurations that
check them, and TLAPS proofs.

## 1. Inventory

| Component | Code | State it keeps | Operations | Hard behaviours | What makes it correct |
|---|---|---|---|---|---|
| Polling commands | `bindings/HTTPBinding.js` (`notificationHandler`, `returnCommands`, command results) | entries of the command registry and `<name>_status` (both outside), nothing of its own | notify, store, poll, mark, remove, result | overlapping polls, reply before removal, parallel updates and removals, failed calls, restarts | at-least-once delivery, statuses in order, nothing kept for ever |
| Push commands | `commandHandler.js`, `transportSelector.js`, `iotagent-json.js` (`notificationHandler`), `executeCommand` of each binding | the series of executions of each request | receive, look up device, key and group, execute, write result | group read twice, refusal in the middle of a series, no client or channel | order, stop at a refusal, every request answered |
| AMQP connection | `bindings/AMQPBinding.js` | `amqpConn`, `amqpChannel`, `isConnecting`, `numRetried`, timers | start, connect, retry, set up, close, stop | broker down, connection lost during set-up, stop during a retry | one connection, bounded retries, start calls back |
| MQTT connection | `bindings/MQTTBinding.js` | `mqttClient`, `mqttConn`, `numRetried`, timers, clients of mqtt.js | start, connect, subscribe, error, close, stop | clients that reconnect by themselves, handlers of old clients, stop in two steps | one client, subscriptions after each connection, recovery |
| HTTP server and measures | `bindings/HTTPBinding.js` (middlewares, `handleIncomingMeasure`, `handleError`) | the request | one pipeline per route | parallel results with one error, error codes as HTTP statuses | one answer per request, of the right code |
| Message handling and grouping | `commonBindings.js` (`messageHandler`), `commandHandler.js` (`updateCommand`) | the MQTT alarm | route a topic, group measures, update, write results | bodies of several shapes, an array of one element, series of results beside each other, alarm shared by transports | the measures of a message in one update, in order; results in order up to the first failure |
| ARGO binding | `bindings/ARGOBinding.js` | the request | key list, device look-up over keys, answer | `done(false)` in a series, the search for the hashed field, errors without status | the device of the first key that has one; an answer that says what was stored |
| Configuration retrieval | `iotaUtils.js` (`manageConfiguration`), `commonBindings.js`, `iotagent-json.js` | none | query, subscribe, send | errors between query and send | one answer per request |
| Provisioning | `iotagent-json.js`, `transportSelector.js`, `HTTPBinding.js` (`setPollingAndDefaultTransport`) | the device object, shared by the bindings | provision, update | the result of the first binding is returned, another one fills it in | `transport` and `polling` agree with the endpoint |
| Life cycle | `iotagent-json.js` (`start`, `stop`, `handleShutdown`), `transportSelector.js`, `start` and `stop` of each binding | started bindings | start, stop, signal | signals during start, twice; bindings that were never started | every binding up before READY, every binding off at the exit |
| Configuration service | `configService.js` | the configuration | file, environment | sections that are made anew, texts where Booleans are expected, files that do not exist | a variable wins over the file and changes nothing else |
| Constants, errors, executables | `constants.js`, `errors.js`, `bin/` | none | none | none | unit tests |

Interactions: the library calls `commandHandler` and `notificationHandler`; both go through
`transportSelector` to the `executeCommand` or `notificationHandler` of a binding; bindings call
the library for registries, updates and command results; devices call the HTTP binding or publish
to the brokers. The bindings share nothing but the configuration and the library.

`PROJECT.json` lists the components with their status, and every hazard met in the code at its
line, with the properties that cover it or the reason why none does.

## 2. Modules

| Modules | Part | Instance for TLC |
|---|---|---|
| `CommandMailbox` (abstract), `CommandPolling` (implements it), `CommandPollingProofs` | polling commands | `MCCommandPolling` |
| `CommandSeries` (abstract), `CommandDispatch` (implements it), `CommandDispatchProofs` | push commands | `MCCommandDispatch` |
| `AmqpConnection`, `AmqpConnectionProofs` | AMQP connection | the `.cfg` alone |
| `MqttConnection`, `MqttConnectionProofs` | MQTT connection | the `.cfg` alone |
| `HttpRequest`, `HttpRequestProofs` | HTTP server | the `.cfg` alone |
| `MessageBodies` and `ArgoKeys` (operators), `BodyProofs`; `DeviceMessages`, `DeviceMessagesProofs` | messages of MQTT and AMQP, requests of ARGO | `MCDeviceMessages` |
| `Configuration` (operators), `Lifecycle`, `Provisioning` (composes the three), `AgentProofs` | configuration, start and stop of the agent, provisioning | `MCAgent` |

`Provisioning` EXTENDS `Lifecycle`, which EXTENDS `Configuration`: the steps of the agent and those
of the devices interleave in one specification, since the transport of a device depends on the
configuration the agent was started with, and the handlers exist only once the bindings are loaded.
`DeviceMessages` EXTENDS the two modules of operators; `BodyProofs` proves what those compute, and
`DeviceMessagesProofs` uses its theorems. The recursion of `findProperty` is written as a recursive
function over the positions of a document, so that it can be proved about.

What would come next: the composition of `HttpRequest` and
`CommandPolling`, whose `PostResult` and `StartPoll` are requests; `Lifecycle` over the two
connections themselves, of which it keeps only whether they were started and stopped.

## 3. What each module models

**CommandPolling.** One device without endpoint. The handlers are split where the code hands a
callback to the library; what runs between two callbacks is one action. `Notify`, `SideEffects`
and `Store` are `notificationHandler` (key, PENDING, `addCommand`); `StartPoll`, `Reply` and
`EmptyReply` are `returnCommands`; `MarkDelivered`, `RemoveCommand` and `EndPoll` are the
`async.parallel` of `updateCommandStatus`, in any order and any interleaving with other polls;
`PostResult` and `WriteResult` are a command result. `ReplyBody` is `parseCommand` and
`concatCommand`: blank values are dropped and the last value of a name wins. A `removeCommand`
may drop every entry of the name or the oldest one (`RemovesAll`), since that is the library's
business. `Fault` bounds failed calls, lost replies and restarts. The in-memory registry, which a
restart would empty, is not modelled.

**CommandMailbox.** What those commands promise: an accepted command stays pending until it has
been delivered at least once. The refinement maps `accepted` to the stored commands, `pending` to
the registry and `delivered` to the commands some reply carried, all restricted to commands with
a value (blank ones are removed unseen, as the manual says).

**CommandDispatch.** Push commands of one device. A request is an update with several commands
(`commandHandler`) or a notification with one (`notificationHandler` of the agent, then that of
the HTTP binding). `Transport` is the precedence device, group, default, evaluated once to route
a notification and again to execute it; `Handlers` and `Executions` are
`createExecutionsForBinding`, every binding in directory order when there is no transport at
all. `Advance` is one stretch of `async.series`: AMQP, ARGO and MQTT call back synchronously and
so run in one step up to the next HTTP execution. MQTT drops the command while it is not
connected, and a missing client or channel throws. A failed look-up of the group leaves it empty.
The result of an accepted command is written later (`updateCommand` from `nextTick`).

**CommandSeries.** What the handling of a request promises: the endpoint performs its commands one
after the other, each at most once, and the request gets one verdict: "done" if all were performed,
"refused" at any time before, "stored" when there was nothing to perform, and nothing happens to any
request after an exception. The refinement maps `series` to the HTTP executions of the plan,
`performed` to the executions an endpoint accepted, and `verdict` to how the handler ended. The other
transports acknowledge nothing, so nothing is promised of them.

**AmqpConnection.** `createConnection` with its two kinds of timers and attempts: "first" ones
carry the callback of the waterfall, "again" ones come from the `close` handler and carry none,
so that a reconnection goes no further than the connection and, out of retries, calls
`undefined`. `CreateChannel` and `CreateListener` are the rest of the waterfall, `Closed` the end
of a connection for whatever reason, `Stop` the two statements of `stop`.

**MqttConnection.** Each `createConnection` makes a client; the earlier ones are left as they
are, with their handlers, which all act on the module's `mqttClient`. A client of mqtt.js
reconnects by itself until it is ended. `Error`, `Lose` and `Close` are the `error` handler and
the two ways to a `close` event, and `OnClose` is its handler; `Stop` and `EndCallback` are the
two halves of `stop`.

**HttpRequest.** The five routes of `start`. `Receive` takes any request: the route, what its body
is (one that cannot be parsed, none, a false value such as 0, an object, and the contents of a
single measure), whether the parameters are complete, `t` and `getCmd`. `Read` is the body parser
and the synchronous middlewares, in the order of the route: a POST is parsed before its
parameters are checked, the parameter `d` of a GET after. `Payload`, `Stamped` and `Converted` are
what `parseData`, `addTimestamp` and `toString('hex')` make of the body. `Tasks` are the calls of
`processHTTPWithDevice`, one update or one result per attribute, and `TaskDone` and `TaskFails`
their answers in any order, with the callback of `async.parallel` at the first error or at the
end; tasks go on after an error has been answered. The configuration route is
`manageConfiguration` and `sendConfigurationToDevice`, with the two look-ups of the device. An
error of the library has an HTTP status or `NoCode` (a network error, an error without code).
`handleError` turns the latter into 500; `replyToDevice` throws (stage "threw"). Requests share
nothing in the agent but the library, so one of them stands for all.

**MessageBodies.** What `parseMessage` and `extractAttributes` make of a body. A body is no JSON,
one value or an array; a value is an object, `null` or a scalar, and the model keeps its size, from
which come the groups of attributes and the number of results. The special cases of the code are
kept: what is no JSON becomes hexadecimal when it comes as a Buffer, over MQTT, and stays a text when
it comes as one, over AMQP (`Undivided`); an array of one element stays an array; `null` passes for
an object (`IsObject`) and throws where something is read of it (`IsNull`, `Unreadable`); a device
with an NGSI payload type sends batches of entities (`IsBatch`), which are taken for one list when
the first of them has no attributes (`Nested`); a text has keys.

**DeviceMessages.** `MessageArrives` is `messageHandler` up to the look-up of the device,
`ArgoArrives` the middlewares of the ARGO POST and `apiKeyList`. `DeviceFound`, `DeviceAbsent` and
`LookupFails` are the answers of the registry: the four branches of `processMessageForDevice`, and
for ARGO the next step of `retrieveFirstDevice`. `UpdateAnswered` is the callback of `update`,
`ResultAnswered` one `setCommandResult` of the series of `updateCommand`; the series of the elements
of one message run beside each other. `QueryAnswered`, `SubscribeAnswered`, `GroupAnswered` and
`HttpAnswered` are `manageConfiguration` and `sendConfigurationToDevice`, with the choice of the
transport. `alarm` is MQTTB_ALARM: any message releases it. An element that is `null` ends the loop
over a message by an exception, which nothing in the code catches: what its elements before that one
have started stays behind (`Reached`), and the process is "crashed" (`Ended`).

**ArgoKeys.** `findProperty` over documents as xml2js makes them, written as outlines: the values of
a document in its order, each with its level, so that a value contains those after it that are deeper
(`Inside`, `Children`). There are fields, lists, empty fields, attributes, and the limit on the depth.
`FirstNamed`, the first field of that name in the order of the document, is the reference.

**Configuration.** A configuration maps sections to settings. `Effective` is
`processEnvironmentVariables`: which settings a section takes from the environment and which it
keeps of the file (`Given`, `Kept`), and `Throws` the errors of `fileExists` and of an unset section.
`Enabled`, `Credentials`, `FilesRead`, `Retrieves` and `DefaultTransport` are what the bindings read of
it, `FilesRead` the keys and certificates that the start of HTTP and that of MQTT read. The
settings that are handled in the same way are represented by one or two.

**Lifecycle.** `SetConfig`, `Activated`, `Started` and `SetReady` are `start` with the `async.map` of
`startTransportBindings`; `StartedAs` is what the `start` of each binding does before it returns.
A file of `FilesRead` that is missing throws in `Activated`. `StopBindings`, `Stopped`, `ResetMiddlewares` and `Deactivate` are `handleShutdown` and `stop`, one
instance per signal. Bindings are "unloaded", "off", "starting", "up", "closing", or "broken" (the
server object without a server). A port that is taken ends the process ("unbound").

**Provisioning.** `Provision` is `deviceProvisioningHandler` or `deviceUpdatingHandler` up to the
look-up of the group, `GroupFound` the rest: `setPollingAndDefaultTransport`, the handlers of the
other bindings, and the first result of the series, which goes back to the library. Owners of groups
change them meanwhile (`GroupChanges`).

Definitions named `...Strict`, `...Twice`, `...Always` and so on, introduced as wrong versions,
are plausible bugs: with each one in place of the definition after it, TLC finds one of the
properties violated, which shows that the property depends on the code.

## 4. Runs

| Run | Shows | Bounds |
|---|---|---|
| `polling` | `NoCommandLost`, `SettledNotPending`, `PendingNeverReturns`, `ImplementsMailbox`, `EventuallyReplied` | two commands of different names, two polls at a time, one fault |
| `polling_shared` | `NameCovered`, `EventuallyRemoved` | two commands of one name, one of them blank, two polls, one fault |
| `polling_lost` | violation of `NoCommandLost` | two commands of one name, two polls, no fault |
| `dispatch` | `InOrder`, `RouteAgrees`, `ImplementsSeries`, `EventuallyAnswered` | an update of two commands and a notification of one, transports HTTP, MQTT or none at each level |
| `amqp` | `OneConnection`, `GivesUpLast`, `ConsumersCurrent`, `StaysClosed`, `StartCompletes` | three retries, any number of outages and one or more stops |
| `amqp_deaf` | violation of `ConnectedListens` | two retries |
| `mqtt` | `OneClientIfEnded`, `ConnectedListens`, `Recovers` | two retries, three clients, three faults |
| `mqtt_stop` | violation of `StopReleases` | as `mqtt` |
| `http` | `SuccessMeansDone`, `AnsweredOnce`, `EventuallyAnswered` | one request of any kind, up to three results |
| `http_single` | violation of `SingleMeasureStored` | as `http` |
| `messages` | `MeasuresAsSent`, `ResultsInOrder`, `ArgoTruthful`, `FirstFieldHashed`, `EventuallySettled` | two messages at a time, bodies of up to two values of size up to two, of every kind, plain and NGSI payload types, errors with a status (302, 500) and without, ten documents, search to the depth 3 |
| `agent` | `EnvironmentOverFile`, `ReadyMeansServing`, `GracefulExit`, `PollingAgrees`, `EventuallyExits` | 45 initial states: every variable of the environment alone over a full file, nine files with two signals, one agent with a device, two keys and one change of a group |

Every passing run also checks the `TypeOK` of its module where it is not checked by another run.

Why the bounds are enough. The polling hazards need two commands and two polls; one fault can hit
any call, and a second one only repeats a redelivery. A series has a middle only with two
commands, and two requests are enough to interleave. `numRetried` bounds the connections of
AMQP by itself, so nothing else is capped. With three clients an MQTT client can be replaced
twice, and two retries are used up before the bound on clients is reached.

Messages interact in pairs, through the alarm and the sets of calls in progress, and every shape of a
body is there with two values: none, one, several, objects with none, one and several keys or
entities, `null` alone, alone in an array and after another value, text that is no JSON over both
brokers. The
documents have an empty, a repeated, a deep and a missing field of the name, before and after another
of that name. In `agent` variables of the environment act on one section each, so that they are given
one by one over the file that has everything, with a few pairs that interact; two signals are enough
for a stop to run while another does, and one change of a group separates any two look-ups.

Deadlock is checked where the system never stops (`polling`: the device keeps polling). The
connections stop for good after `stop`, a crash or the last retry, and a request is handled once,
so those runs do not check it.

Fairness. The library answers every call (its callbacks always come, with or without an error),
timers fire, amqplib and mqtt.js answer. A device goes on polling, and an endpoint answers or
`http.timeout` passes: without that setting the code has no bound of its own, so
`EventuallyAnswered` depends on it. Nothing forces a request, a notification, a stop, a success,
or a device to execute what it received, nor a message or a signal to come. In `messages` every call
of the registry, of the Context Broker and of an endpoint is answered, with or without an error
(`Fairness` has one conjunct per message and element, since they do not wait for each other). In
`agent` only the steps of a shutdown are fair: clients are ended by force and servers close once
their requests are answered (idle connections time out), so the callbacks of `stop` come.
A start need not get on. In `mqtt` the faults are bounded, which stands for a
broker that is reachable in the end. In `amqp` the broker may stay down for ever.

### Divergences shown

- `polling_lost`: a command that no reply has carried is removed (`HTTPBinding.js:625` removes by
  name) against `usermanual.md:488-489`.
- `amqp_deaf`: a reconnection (`AMQPBinding.js:165`) has neither channel nor consumers against
  `usermanual.md:986-988`.
- `http_single`: a single measure with the value 0 or false is dropped and answered with 200
  (`HTTPBinding.js:135` and `:359`) against `usermanual.md:86-87`. A JSON object sent in the same
  way is stored as the text "[object Object]" (`HTTPBinding.js:362`).
- `mqtt_stop`: clients are made after `stop` has called back (`MQTTBinding.js:362`) against
  `usermanual.md:1218`.

Seen in the models and left without a run of their own: `stop` of the MQTT binding without a
client is a TypeError (`Stop`, process "crashed"), and so is the last failed reconnection of AMQP
(`GiveUp`); a `stop` of AMQP with an attempt outstanding leaves the connection it opens
(`StaysClosed` excludes it); a command for MQTT while it is not connected is dropped and reported
as a success (`Reaches`); `retrytime` guards a read of `retryTime` in `AMQPBinding.js:114`;
an error without an HTTP status is answered neither by `replyToDevice` nor by anybody else, so a
device whose endpoint is unreachable waits for ever (`ReplyWithError`); a GET whose `d` cannot be
parsed is answered with 500, a POST with 400 (`Read`); the parameter `t` of a single
measure is ignored (`Stamped`), contrary to `usermanual.md:82` and `:86-87`.

Push commands and AMQP: the result of a notified command is dropped when its group is not found, for
`HTTPBinding.js:801` uses `group.apikey` (a branch of `HttpAccepted`); `AMQPBinding.js:148` makes
`retries + 1` retries (`MayRetry`), where `installationguide.md:162` promises the number of retries,
and counts those of all outages together: `GivesUpLast` says only that none is missing; messages are consumed with `noAck` (`AMQPBinding.js:210`), so that
those in progress are lost with the process.

Messages: an array of one element is stored as an attribute "0" (`commonBindings.js:63-65`,
`Mistaken` excludes it from `MeasuresAsSent`), where `usermanual.md:30-31` processes each element of
an array as a group of measures; a batch of entities of which the first has no attributes is passed
on as one group (`commonBindings.js:301`, excluded too); text that is no JSON is stored in hexadecimal over MQTT, as
`usermanual.md:617-634` says of a single measure, and as it is over AMQP, for `AMQPBinding.js:65` has
made a text of it; `null` as a result, as a configuration request, or as a measure of an NGSI payload
type ends the process (`commandHandler.js:194`, `iotaUtils.js:93`, `commonBindings.js:113`);
look-ups of
devices run beside each other (`commonBindings.js:395`), so that a later message may be stored before
an earlier one; MQTTB_ALARM is raised by failed configuration requests and released by any message of
any transport. An ARGO request with malformed XML or without content type is answered with 500
(`RefusalCode`). `done(false)` does not end `eachSeries` in the version of async the agent uses, but
the keys that follow a match are not looked up (`ArgoTruthful`).

Configuration: a variable of HTTP makes the whole section anew (`configService.js:293`), and that of
durable the options of AMQP (`:276`); the variables for `disabled` can only disable; the certificate
is checked at the path of the key (`:314`); an empty `IOTA_MQTT_REJECT_UNAUTHORIZED` without a
section of MQTT throws (`:195`); `IOTA_CONFIG_RETRIEVAL` is a text that is compared with `=== true`
(`iotagent-json.js:206`) and so never takes effect, although `installationguide.md:185` documents
it. `EnvironmentOverFile` asserts none of these: it says nothing of `configRetrieval` once its variable
is there, of the section of HTTP and the options of AMQP once a variable of theirs is set, nor that a
variable enables what the file disables.

Life cycle: without MQTT, or with MQTT disabled, every signal ends in a TypeError
(`MQTTBinding.js:362`), and so it does without a section of HTTP (`HTTPBinding.js:790`), although the
shutdown is meant to be graceful (`iotagent-json.js:229`); a key, a CA or a certificate of MQTT that
the file names and that is missing ends the start (`MQTTBinding.js:251-253`), and so do those of HTTP.
`GracefulExit` names these cases and says that there are no others. An update that changes the API key of a device is completed from the group
of the old key (`LookupKey`).

## 5. Proofs

Proved for every value of the constants, from the named assumptions on them
(`CommandPollingAssumption`, `CommandDispatchAssumption`, `AmqpConnectionAssumption`,
`MqttConnectionAssumption`, `HttpRequestAssumption`, `MessageBodiesAssumption`,
`ArgoKeysAssumption`, `DeviceMessagesAssumption`, `LifecycleAssumption`, `ProvisioningAssumption`),
which only give the constants their types; that of HttpRequest says that the codes of errors are error
statuses or none, that of DeviceMessages that no error has a code of success and that documents are
outlines, and that of
ArgoKeys that `findProperty` looks at one level at least. TLC evaluates them on the instances. The texts
of a configuration are the constant `Text`, since the provers do not know that a literal is a STRING.

- **CommandPollingProofs.** `TypeOK`; `NameCovered`; and, with one command of each name
  (`DistinctNames`), `NoCommandLost`, `PendingNeverReturns` and the refinement of
  `CommandMailbox`. `NoCommandLost` is not inductive: `PollInv` adds where every entry of
  `queue`, `marking`, `cleaning`, `inbox` and `reporting` comes from (it was stored, and what is
  being removed has been listed); `ReplyIsWholeList` and `RemovesOnlyItsCommand` say what
  distinct names buy, and `ListedReplied` that whatever was listed was replied. `StatusInvariant`
  says that a name is past PENDING only if one of its commands is stored, from which the order of
  the statuses follows. `SettledNotPending` needs `MarkingOfReplies`, that only what a poll replied
  is waiting to be marked. Without distinct names `NoCommandLost` is false, as `polling_lost` shows.
- **CommandDispatchProofs.** `TypeOK`, `InOrder` and `AnsweredMeansAccepted` (of which no run is made,
  since `ImplementsSeries` implies it), for any number of
  requests and commands and any transports. The invariant of a request (`RequestInv`) says that
  nothing of it is sent before its plan exists, that the execution in progress is one of HTTP and
  that every HTTP execution before it has been accepted. `AdvanceKeeps` is the argument for one
  stretch of the series, whatever the plan; `ExecuteKeeps` and `GoesKeeps` reduce the handlers
  to it. `RouteAgrees` needs in addition that an execution of a notification is of HTTP whenever the
  group it was generated from chose HTTP (`HttpOnly`, `RouteInvariant`). `DispatchImplementsSeries` is the refinement of
  `CommandSeries`. Its invariant, `SeriesInv`, adds that only executions before the one in
  progress have been accepted, and that a request is lost only with the process. Each stretch of
  `async.series` is one abstract step: `ExecuteImplements` is the one that begins a series,
  `AcceptedImplements` the one that goes on, and `GoesImplements` the steps that wait, refuse or store.
- **AmqpConnectionProofs.** `TypeOK`, `OneConnection`, `GivesUpLast`, `StaysClosed`, `ConsumersCurrent`, and that
  `isConnecting` is never set when `createConnection` is called (`ConnectingGuardIdle`).
  `OneConnection` needs `DialInv`: the connection that is up is `amqpConn` or is being closed
  by `stop`, which has cleared `amqpConn`, and before `start` nothing is outstanding. `GivesUpLast`
  needs `GiveUpInv`: `isConnecting` is set during an attempt only, what is up is `amqpConn`, and with
  nothing up or under way no retry is left.
- **MqttConnectionProofs.** `TypeOK`, `OneClientIfEnded` and `ConnectedListens`. The strengthening (`Succession`)
  says that while no client closed without having been ended, a timer exists only when the newest
  client is closed, and there is one at most.
- **HttpRequestProofs.** `TypeOK`, `SuccessMeansDone` and `AnsweredOnce`. `Placed` says what the
  stage of a request tells of its tasks: waiting or done from the time they are handed out, all
  done when the queue is read. `AnswerKeeps`, `GoesKeeps` and `ErrorKeeps` state once what an
  answer, a move and an error need, and each action is reduced to one of them.
- **BodyProofs.** What the operators over bodies and documents compute. The measures of a body are
  those sent, in order: `SingleValueIsBody` for one value (text that is no JSON as its transport hands
  it over) and `GroupsInOrder` for several, unless one is `Mistaken`, from the recursive function
  behind `FlattenSeq`. `FindsFirst` says that `FindProperty`, which goes depth first,
  finds the field that is first in the order of the document: `FindingIsLocal` and `FindExists`
  show that the recursion defines a function on an outline, and `FindsIn`, by induction from the last
  value back, that the search from a value finds the first such field inside it. The induction is over
  a set of positions (`Induction`, from `WFMin`), since the theorems with an operator as a parameter
  cannot be used.
- **DeviceMessagesProofs.** `TypeOK`, `ResultsInOrder`, `ArgoTruthful`, `MeasuresAsSent` and
  `FirstFieldHashed`. `MeasuresAsSent` is `SingleValueIsBody` and `GroupsInOrder` on the one step that
  sends an update. `FirstFieldHashed` has two halves: the keys looked up are those of the first field,
  by `FindsFirst`, and a request without its text is refused before any look-up (`KeylessInv`).
  `MessageInv` says of each
  message that only its last answer of the registry may be anything but "absent"
  (`AnswersInv`), that its updates come from that answer (`UpdatesInv`), and that an ARGO request has
  one update at a time, which decides its answer (`ArgoInv`); `OthersKeep` reduces every step to the
  message it is about. `ResultsInOrder` is inductive with the types.
- **AgentProofs.** `TypeOK`, `EnvironmentOverFile`, `ReadyMeansServing`, `GracefulExit` and
  `PollingAgrees`. `EnvironmentOverFile` is a lemma about `Effective` (`EffectiveIsOverFile`), for any
  file and any environment, and an invariant that the configuration is what `Effective` makes and the
  notifications are handled as it says (`ConfigInv`). `StartInv` says what the
  bindings are until the first signal, `StopInv` that after a stop of an agent that was ready no
  binding is up and that a stop waits for all that are closing, also those that another stop closes.
  `PollingAgrees` needs that the configuration does not change any more once the bindings are
  loaded (`LoadedStays`).

So every safety invariant, every action property and both refinements that the passing runs check
are proved. Those of polling but `TypeOK` and `NameCovered` are proved for commands of distinct names,
as the run `polling` has them; without, `NoCommandLost` is false (`polling_lost`).

Only model-checked: the liveness properties (`EventuallyReplied`, `EventuallyRemoved`,
`EventuallyAnswered`, `StartCompletes`, `Recovers`, `EventuallySettled`, `EventuallyExits`), since the
provers do not reason about fairness (`ENABLED`).

## 6. Not modelled

- `configurationNotificationHandler` and `configurationHandler` of `iotagent-json.js`: the first
  routes a notification like `notificationHandler` and sends it like a configuration request, both of
  which are modelled; the second refuses a group of another resource and changes nothing. So the
  component "Configuration retrieval" is modelled in part.
- Payload transformations of commands (`expression`, `payloadType`, `headers`), names, types and
  metadata of attributes, topics, timestamps and log messages: data no property speaks of.
- The in-memory registry of commands, which a restart empties.
- `constants.js` and `errors.js` are values; the executables are pure I/O.
- The library, mqtt.js, amqplib and the Context Broker appear only as the calls the code makes and
  the answers it relies on. No error of theirs has a code of success: `writeSoapEnvelope` would answer
  an ARGO request with it. An exception in a handler is taken to end the process, since nothing in the
  code catches it.
- Errors of an AMQP channel, and that of the first `assertQueue`, which the code ignores
  (`AMQPBinding.js:202`): the queues are taken to be there.
- The branch of `MqttConnection`'s `createConnection` for a client that `mqtt.connect` did not return
  (`MQTTBinding.js:283-290`), which mqtt.js does not reach.
- The time `addTimestamp` writes into values of a single payload that are objects themselves
  (`HTTPBinding.js:311-315`), which does not stamp the measure.
- Attributes of an NGSI-LD entity whose type is no text, which throw like those that are `null`.
