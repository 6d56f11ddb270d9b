------------------------------ MODULE Lifecycle ------------------------------
(***************************************************************************)
(* The life of the agent: start, from the configuration to the "ready" of  *)
(* the statistics; the bindings transportSelector starts and stops; and    *)
(* the shutdown each signal begins, up to the exit of the process.         *)
(*                                                                         *)
(* The bindings run beside each other and call back when they like; their  *)
(* own connections are in AmqpConnection and MqttConnection, of which we   *)
(* keep whether they have been started and stopped.  A signal may come at  *)
(* any time, and again.  The library  *)
(* (activate, the statistics, resetMiddlewares, deactivate) is external.   *)
(***************************************************************************)
EXTENDS Configuration

CONSTANTS
  Signal,       \* signals that may come
  Scenario      \* what the agent may meet: a configuration file, an environment, the
                \* signals that come, and what Provisioning adds

Binding == {"AMQP", "ARGO", "HTTP", "MQTT"}

\* A file has known sections and texts; "yes" and "no" are Booleans, which only a file
\* has.
ASSUME LifecycleAssumption ==
  /\ Binding \union {"none", "yes", "no"} \subseteq Text
  /\ \A s \in Scenario :
       /\ DOMAIN s.file \subseteq Section
       /\ \A section \in DOMAIN s.file : \A t \in DOMAIN s.file[section] : s.file[section][t] \in Text
       /\ DOMAIN s.env \subseteq (Section \union {"argo"}) \X STRING
       /\ \A v \in DOMAIN s.env : s.env[v] \in Text \ {"yes", "no"}

VARIABLES
  scenario,   \* what the agent is started with
  config,     \* the object getConfig returns
  process,    \* "running", or how it ended
  phase,      \* how far start has got
  notifier,   \* what notifications are handled as
  binding,    \* the state of each binding
  shutdown,   \* per signal: the step of its stop
  awaited,    \* per signal: the bindings whose stop has not called back
  began       \* history: the phase in which the first signal came, or "none"

starting == <<scenario, config, phase, notifier>>
stopping == <<shutdown, awaited, began>>
lifecycle == <<starting, process, binding, stopping>>

Phase == {"idle", "activating", "starting", "registering", "ready", "error"}

\* "unloaded" before transportBindings is filled, "off" without anything to stop, and
\* "broken" for a server object without a server.
BindingState == {"unloaded", "off", "starting", "up", "closing", "broken"}

LifecycleTypeOK ==
  /\ scenario \in Scenario
  /\ DOMAIN config \subseteq Section
  /\ process \in {"running", "exited", "failed", "crashed", "unbound"}
  /\ phase \in Phase
  /\ notifier \in {"none", "commands", "configuration"}
  /\ binding \in [Binding -> BindingState]
  /\ shutdown \in [Signal -> {"none", "bindings", "middlewares", "deactivate"}]
  /\ awaited \in [Signal -> SUBSET Binding]
  /\ \A s \in Signal : awaited[s] # {} => shutdown[s] = "bindings"
  /\ began \in Phase \union {"none"}

LifecycleInit ==
  /\ scenario \in Scenario
  /\ config = scenario.file
  /\ process = "running"
  /\ phase = "idle"
  /\ notifier = "none"
  /\ binding = [b \in Binding |-> "unloaded"]
  /\ shutdown = [s \in Signal |-> "none"]
  /\ awaited = [s \in Signal |-> {}]
  /\ began = "none"

-----------------------------------------------------------------------------
(* start.                                                                  *)

\* setConfig: an error it throws ends the process.
SetConfig ==
  /\ process = "running"
  /\ phase = "idle"
  /\ \/ /\ Throws(scenario.file, scenario.env)
        /\ process' = "crashed"
        /\ UNCHANGED <<config, phase>>
     \/ /\ ~ Throws(scenario.file, scenario.env)
        /\ config' = Effective(scenario.file, scenario.env)
        /\ phase' = "activating"
        /\ UNCHANGED process
  /\ UNCHANGED <<scenario, notifier, binding, stopping>>

\* What start of each binding does before it returns.
StartedAs(b) ==
  CASE b = "AMQP" -> IF Enabled(config, "amqp") THEN "starting" ELSE "off"
    [] b = "ARGO" -> IF ArgoEnabled(scenario.env) THEN "starting" ELSE "off"
    [] b = "HTTP" -> IF "http" \in DOMAIN config THEN "starting" ELSE "broken"
    [] b = "MQTT" -> IF Enabled(config, "mqtt") THEN "up" ELSE "off"

\* The callback of activate: the handlers are registered and every binding is started,
\* one after the other in one step.  start of HTTP and of MQTT throw for a file they
\* cannot read, and that of HTTP calls back with an error without its section.
Activated ==
  /\ process = "running"
  /\ phase = "activating"
  /\ notifier' = IF Retrieves(config) THEN "configuration" ELSE "commands"
  /\ binding' = [b \in Binding |-> StartedAs(b)]
  /\ \/ /\ ~ FilesRead(config) \subseteq File
        /\ process' = "crashed"
        /\ UNCHANGED phase
     \/ /\ FilesRead(config) \subseteq File
        /\ phase' = IF "http" \in DOMAIN config THEN "starting" ELSE "error"
        /\ UNCHANGED process
  /\ UNCHANGED <<scenario, config, stopping>>

ActivateFails ==
  /\ process = "running"
  /\ phase = "activating"
  /\ phase' = "error"
  /\ UNCHANGED <<scenario, config, notifier, process, binding, stopping>>

\* A wrong Started: the first binding to start makes the agent ready.
StartedFirst(b) ==
  /\ process = "running"
  /\ binding[b] = "starting"
  /\ binding' = [binding EXCEPT ![b] = "up"]
  /\ phase' = IF phase = "starting" THEN "registering" ELSE phase
  /\ UNCHANGED <<scenario, config, notifier, process, stopping>>

\* The callback of start of a binding, in async.map: the last of them ends the map,
\* unless an error has ended it before.
Started(b) ==
  /\ process = "running"
  /\ binding[b] = "starting"
  /\ binding' = [binding EXCEPT ![b] = "up"]
  /\ phase' = IF phase = "starting" /\ \A c \in Binding \ {b} : binding[c] # "starting"
              THEN "registering" ELSE phase
  /\ UNCHANGED <<scenario, config, notifier, process, stopping>>

\* A server cannot listen on its port: an 'error' event without a handler.
ListenFails(b) ==
  /\ process = "running"
  /\ b \in {"ARGO", "HTTP"}
  /\ binding[b] = "starting"
  /\ process' = "unbound"
  /\ UNCHANGED <<starting, binding, stopping>>

\* setReady, and the callback of statsRegistry.set.
SetReady ==
  /\ process = "running"
  /\ phase = "registering"
  /\ phase' = "ready"
  /\ UNCHANGED <<scenario, config, notifier, process, binding, stopping>>

-----------------------------------------------------------------------------
(* handleShutdown and stop.                                                *)

Loaded == \A b \in Binding : binding[b] # "unloaded"

\* The bindings whose stop does not call back before it returns.
Awaited == {b \in {"ARGO", "HTTP", "MQTT"} : binding[b] \in {"starting", "up", "closing"}}

\* AMQP closes its connection if it has one.  A server that waits for the address of
\* its host is not closed, and listens after all.
StoppedAs(b) ==
  CASE binding[b] = "up"       -> IF b = "AMQP" THEN {"off"} ELSE {"closing"}
    [] binding[b] = "starting" -> IF b = "AMQP" THEN {"starting"} ELSE {"starting", "closing"}
    [] OTHER                   -> {binding[b]}

\* Reading the close of no server or the end of no client is a TypeError.  A client
\* that was ended is still there.
StopThrows ==
  \/ binding["HTTP"] = "broken"
  \/ Loaded /\ ~ Enabled(config, "mqtt")

StopBindings(s) ==
  /\ process = "running"
  /\ s \in scenario.signals
  /\ shutdown[s] = "none"
  /\ began' = IF began = "none" THEN phase ELSE began
  /\ \/ /\ StopThrows
        /\ process' = "crashed"
        /\ UNCHANGED <<binding, shutdown, awaited>>
     \/ /\ ~ StopThrows
        /\ \E after \in [Binding -> BindingState] :
             /\ \A b \in Binding : after[b] \in StoppedAs(b)
             /\ binding' = after
        /\ shutdown' = [shutdown EXCEPT ![s] = "bindings"]
        /\ awaited' = [awaited EXCEPT ![s] = Awaited]
        /\ UNCHANGED process
  /\ UNCHANGED starting

\* A wrong Stopped: a server that was not listening does not call back.
StoppedListening(b) ==
  /\ process = "running"
  /\ binding[b] = "closing"
  /\ \E s \in Signal : b \in awaited[s]
  /\ binding' = [binding EXCEPT ![b] = "off"]
  /\ awaited' = [s \in Signal |-> awaited[s] \ {b}]
  /\ UNCHANGED <<starting, process, shutdown, began>>

\* The callback of close, or of end, for every stop that waits for it.  A server that
\* was not listening calls back too.
Stopped(b) ==
  /\ process = "running"
  /\ \E s \in Signal : b \in awaited[s]
  /\ binding' = [binding EXCEPT ![b] = IF @ = "closing" THEN "off" ELSE @]
  /\ awaited' = [s \in Signal |-> awaited[s] \ {b}]
  /\ UNCHANGED <<starting, process, shutdown, began>>

\* A wrong ResetMiddlewares: stop does not wait for the bindings.
ResetAtOnce(s) ==
  /\ process = "running"
  /\ shutdown[s] = "bindings"
  /\ shutdown' = [shutdown EXCEPT ![s] = "middlewares"]
  /\ UNCHANGED <<starting, process, binding, awaited, began>>

ResetMiddlewares(s) ==
  /\ process = "running"
  /\ shutdown[s] = "bindings"
  /\ awaited[s] = {}
  /\ shutdown' = [shutdown EXCEPT ![s] = "middlewares"]
  /\ UNCHANGED <<starting, process, binding, awaited, began>>

\* deactivate, and the callback of stop.
Deactivate(s) ==
  /\ process = "running"
  /\ shutdown[s] = "middlewares"
  /\ shutdown' = [shutdown EXCEPT ![s] = "deactivate"]
  /\ process' \in {"exited", "failed"}
  /\ UNCHANGED <<starting, binding, awaited, began>>

LifecycleNext ==
  \/ SetConfig \/ Activated \/ ActivateFails \/ SetReady
  \/ \E b \in Binding : Started(b) \/ ListenFails(b) \/ Stopped(b)
  \/ \E s \in Signal : StopBindings(s) \/ ResetMiddlewares(s) \/ Deactivate(s)

\* The callbacks of stop come: clients are ended by force, and the connections of a
\* server end, for requests are answered and idle connections are closed.  The library
\* calls back too.  Nothing forces a signal, nor a start to get on.
LifecycleFairness ==
  /\ \A b \in Binding : WF_lifecycle(Stopped(b))
  /\ \A s \in Signal : WF_lifecycle(ResetMiddlewares(s) \/ Deactivate(s))

-----------------------------------------------------------------------------
\* What the agent starts with is the file under the environment.  A variable wins over
\* the file, as a text or as the Boolean of its text; a setting of the file that has no
\* variable survives whatever other variables are set, but for the section of HTTP and
\* the options of AMQP, of which it says nothing once a variable of theirs is set; what
\* the file or a variable disables is not started; and without IOTA_CONFIG_RETRIEVAL, of
\* which it says nothing either, notifications are handled as the file asks.
\* (setConfig, processEnvironmentVariables, start)
EnvironmentOverFile ==
  LET file == scenario.file
      env  == scenario.env
  IN  phase # "idle" =>
        /\ \A v \in DOMAIN env :
             env[v] # "" /\ v[1] \in Section
               /\ v[2] \notin {"disabled", "transformations", "configRetrieval"} =>
               config[v[1]][v[2]] = IF v[2] \in Flags THEN Boolean(env[v]) ELSE env[v]
        /\ \A section \in DOMAIN file : \A s \in DOMAIN file[section] :
             \/ Has(config, section, s) /\ config[section][s] = file[section][s]
             \/ Defined(env, <<section, s>>)
             \/ section = "http" /\ AnyIsSet(env, "http")
             \/ s = "autoDelete" /\ Defined(env, <<"amqp", "durable">>)
        /\ \A section \in {"mqtt", "amqp"} :
             LET v == <<section, "disabled">>
             IN  IF Defined(env, v) THEN env[v] = "true" => ~ Enabled(config, section)
                 ELSE Truthy(file, section, "disabled") => ~ Enabled(config, section)
        /\ notifier # "none" /\ ~ Defined(env, <<"root", "configRetrieval">>) =>
             (notifier = "configuration" <=> Retrieves(file))

\* The agent reports that it is ready only with every binding up that the configuration
\* asks for, HTTP among them, and never after an error; until the first signal none of
\* them is anything else.  (startTransportBindings, setReady)
ReadyMeansServing ==
  phase \in {"registering", "ready"} /\ began = "none" =>
    /\ \A b \in Binding : binding[b] \in {"up", "off"}
    /\ binding["HTTP"] = "up"
    /\ binding["MQTT"] = "up" <=> Enabled(config, "mqtt")
    /\ binding["AMQP"] = "up" <=> Enabled(config, "amqp")

\* An agent that was ready leaves with code 0 only after every binding has been
\* stopped; and with MQTT enabled, a section of HTTP and files that can be read it
\* never ends by an exception, however many signals come and whenever they do.
\* (handleShutdown, stop, stopTransportBindings)
GracefulExit ==
  /\ process = "exited" /\ began = "ready" => \A b \in Binding : binding[b] = "off"
  /\ process = "crashed" =>
       \/ Throws(scenario.file, scenario.env)
       \/ ~ Enabled(config, "mqtt")
       \/ "http" \notin DOMAIN config
       \/ ~ FilesRead(config) \subseteq File

\* After a signal the process ends.  (handleShutdown)
EventuallyExits == began # "none" ~> process # "running"
=============================================================================
