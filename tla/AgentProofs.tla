----------------------------- MODULE AgentProofs -----------------------------
(***************************************************************************)
(* The life of the agent, for every configuration, environment, set of     *)
(* signals and of devices: what is up when the agent says it is ready,     *)
(* what is left when it exits, the transport of the devices, and what the  *)
(* configuration takes from the file and from the environment.             *)
(***************************************************************************)
EXTENDS Provisioning, TLAPS

\* Nothing is loaded before activate has called back.
LoadedInv ==
  /\ binding \in [Binding -> BindingState]
  /\ process = "running" /\ phase \in {"idle", "activating"} => \A b \in Binding : binding[b] = "unloaded"
  /\ phase \in {"starting", "registering", "ready"} => \A b \in Binding : binding[b] # "unloaded"
  /\ binding["HTTP"] = "broken" => "http" \notin DOMAIN config

\* Until a signal comes no binding is stopped, and those that are not wanted are off.
StartInv ==
  /\ began = "none" => \A s \in Signal : shutdown[s] = "none" /\ awaited[s] = {}
  /\ phase \in {"starting", "registering", "ready"} /\ began = "none" =>
       /\ \A b \in Binding : binding[b] \in {"starting", "up", "off"}
       /\ binding["HTTP"] # "off"
       /\ binding["MQTT"] # "starting"
       /\ \A b \in {"MQTT", "AMQP"} :
            binding[b] # "off" <=> Enabled(config, IF b = "MQTT" THEN "mqtt" ELSE "amqp")
  /\ phase \in {"registering", "ready"} => \A b \in Binding : binding[b] # "starting"

\* A stop of an agent that was ready leaves no binding up, and waits for those that are
\* still closing; only a crash leaves them as they were.
StopInv ==
  /\ shutdown \in [Signal -> {"none", "bindings", "middlewares", "deactivate"}]
  /\ awaited \in [Signal -> SUBSET Binding]
  /\ binding["AMQP"] # "closing"
  /\ began = "ready" => phase = "ready"
  /\ began = "ready" /\ process \in {"running", "exited"} =>
       \A b \in Binding : /\ binding[b] \in {"closing", "off"}
                          /\ \A s \in Signal : shutdown[s] # "none" /\ binding[b] = "closing" => b \in awaited[s]
  /\ \A s \in Signal : shutdown[s] # "bindings" => awaited[s] = {}
  /\ process = "exited" => \E s \in Signal : shutdown[s] = "deactivate"

\* What an exception can come from.
CrashInv ==
  process = "crashed" =>
    \/ Throws(scenario.file, scenario.env)
    \/ ~ Enabled(config, "mqtt")
    \/ "http" \notin DOMAIN config
    \/ ~ FilesRead(config) \subseteq File

AgentInv == phase \in Phase /\ LoadedInv /\ StartInv /\ StopInv /\ CrashInv

-----------------------------------------------------------------------------
\* Each step of the life of the agent keeps the invariant: the start of it,
LEMMA StartKeeps ==
  ASSUME AgentInv, SetConfig \/ Activated \/ ActivateFails \/ SetReady
  PROVE  AgentInv'
<1> USE DEF AgentInv
<1>1. CASE SetConfig
  <2>1. UNCHANGED <<scenario, binding, shutdown, awaited, began>> /\ phase = "idle" /\ process = "running"
    BY <1>1 DEF SetConfig, stopping
  <2>2. \/ phase' = "activating" /\ process' = process
        \/ phase' = phase /\ config' = config /\ process' = "crashed" /\ Throws(scenario.file, scenario.env)
    BY <1>1 DEF SetConfig
  <2>3. LoadedInv'
    BY <2>1, <2>2 DEF LoadedInv, Binding
  <2>4. StartInv'
    BY <2>1, <2>2 DEF StartInv
  <2>5. StopInv'
    BY <2>1, <2>2 DEF StopInv
  <2>6. CrashInv' /\ phase' \in Phase
    BY <2>1, <2>2 DEF CrashInv, Phase
  <2> QED BY <2>3, <2>4, <2>5, <2>6
<1>2. CASE Activated
  <2>1. /\ UNCHANGED <<scenario, config, shutdown, awaited, began>>
        /\ phase = "activating" /\ process = "running" /\ binding' = [b \in Binding |-> StartedAs(b)]
    BY <1>2 DEF Activated, stopping
  <2>2. \/ phase' = phase /\ process' = "crashed" /\ ~ FilesRead(config) \subseteq File
        \/ /\ phase' = IF "http" \in DOMAIN config THEN "starting" ELSE "error"
           /\ process' = process
    BY <1>2 DEF Activated
  <2>3. /\ \A b \in Binding : StartedAs(b) \in {"starting", "up", "off", "broken"}
        /\ StartedAs("HTTP") = IF "http" \in DOMAIN config THEN "starting" ELSE "broken"
        /\ StartedAs("MQTT") = IF Enabled(config, "mqtt") THEN "up" ELSE "off"
        /\ StartedAs("AMQP") = IF Enabled(config, "amqp") THEN "starting" ELSE "off"
        /\ \A b \in Binding \ {"HTTP"} : StartedAs(b) # "broken"
    BY DEF StartedAs, Binding
  <2>4. \A b \in Binding : binding'[b] = StartedAs(b)
    BY <2>1
  <2>5. LoadedInv'
    BY <2>1, <2>2, <2>3, <2>4 DEF LoadedInv, Binding, BindingState
  <2>6. StartInv'
    BY <2>1, <2>2, <2>3, <2>4 DEF StartInv, Binding
  <2>7. StopInv' /\ CrashInv' /\ phase' \in Phase
    <3>1. binding'["AMQP"] # "closing"
      BY <2>3, <2>4 DEF Binding
    <3> QED BY <2>1, <2>2, <3>1 DEF StopInv, CrashInv, Phase
  <2> QED BY <2>5, <2>6, <2>7
<1>3. CASE ActivateFails
  <2>1. UNCHANGED <<scenario, config, process, binding, shutdown, awaited, began>>
        /\ phase = "activating" /\ phase' = "error"
    BY <1>3 DEF ActivateFails, stopping
  <2> QED BY <2>1 DEF LoadedInv, StartInv, StopInv, CrashInv, Phase
<1>4. CASE SetReady
  <2>1. UNCHANGED <<scenario, config, process, binding, shutdown, awaited, began>>
        /\ phase = "registering" /\ phase' = "ready"
    BY <1>4 DEF SetReady, stopping
  <2> QED BY <2>1 DEF LoadedInv, StartInv, StopInv, CrashInv, Phase
<1> QED BY <1>1, <1>2, <1>3, <1>4

\* the callbacks of its bindings,
LEMMA BindingKeeps ==
  ASSUME AgentInv, NEW b \in Binding, Started(b) \/ ListenFails(b) \/ Stopped(b)
  PROVE  AgentInv'
<1> USE DEF AgentInv
<1>1. CASE Started(b)
  <2>1. /\ UNCHANGED <<scenario, config, process, shutdown, awaited, began>>
        /\ process = "running" /\ binding[b] = "starting"
        /\ binding' = [binding EXCEPT ![b] = "up"]
    BY <1>1 DEF Started, stopping
  <2>2. /\ binding' \in [Binding -> BindingState] /\ binding'[b] = "up"
        /\ \A c \in Binding \ {b} : binding'[c] = binding[c]
    BY <2>1 DEF LoadedInv, BindingState
  <2>3. \/ phase' = phase
        \/ phase = "starting" /\ phase' = "registering" /\ \A c \in Binding \ {b} : binding[c] # "starting"
    BY <1>1 DEF Started
  <2>4. phase \notin {"idle", "activating"}
    BY <2>1 DEF LoadedInv
  <2>5. LoadedInv'
    BY <2>1, <2>2, <2>3, <2>4 DEF LoadedInv
  <2>6. StartInv'
    BY <2>1, <2>2, <2>3 DEF StartInv, Binding
  <2>7. began # "ready"
    BY <2>1 DEF StopInv
  <2>8. StopInv' /\ CrashInv' /\ phase' \in Phase
    BY <2>1, <2>3, <2>7 DEF StopInv, CrashInv, Phase
  <2> QED BY <2>5, <2>6, <2>8
<1>2. CASE ListenFails(b)
  BY <1>2 DEF ListenFails, LoadedInv, StartInv, StopInv, CrashInv, starting, stopping
<1>3. CASE Stopped(b)
  <2>1. /\ UNCHANGED <<scenario, config, phase, process, shutdown, began>>
        /\ process = "running" /\ \E s \in Signal : b \in awaited[s]
        /\ binding' = [binding EXCEPT ![b] = IF @ = "closing" THEN "off" ELSE @]
        /\ awaited' = [s \in Signal |-> awaited[s] \ {b}]
    BY <1>3 DEF Stopped, starting
  <2>2. /\ binding' \in [Binding -> BindingState]
        /\ binding'[b] = IF binding[b] = "closing" THEN "off" ELSE binding[b]
        /\ \A c \in Binding \ {b} : binding'[c] = binding[c]
    BY <2>1 DEF LoadedInv, BindingState
  <2>3. began # "none"
    BY <2>1 DEF StartInv
  <2>4. LoadedInv' /\ StartInv' /\ CrashInv'
    BY <2>1, <2>2, <2>3 DEF LoadedInv, StartInv, CrashInv
  <2>5. StopInv'
    <3>1. awaited' \in [Signal -> SUBSET Binding] /\ \A s \in Signal : awaited'[s] = awaited[s] \ {b}
      BY <2>1 DEF StopInv
    <3>2. \A s \in Signal : shutdown'[s] # "bindings" => awaited'[s] = {}
      BY <2>1, <3>1 DEF StopInv
    <3>3. ASSUME began = "ready", NEW c \in Binding
          PROVE  /\ binding'[c] \in {"closing", "off"}
                 /\ \A s \in Signal : shutdown'[s] # "none" /\ binding'[c] = "closing" => c \in awaited'[s]
      <4>1. CASE c = b
        BY <4>1, <2>1, <2>2, <3>3 DEF StopInv
      <4>2. CASE c # b
        BY <4>2, <2>1, <2>2, <3>1, <3>3 DEF StopInv
      <4> QED BY <4>1, <4>2
    <3> QED BY <2>1, <3>1, <3>2, <3>3 DEF StopInv
  <2> QED BY <2>1, <2>4, <2>5
<1> QED BY <1>1, <1>2, <1>3

\* and the steps of its shutdowns.
LEMMA ShutdownKeeps ==
  ASSUME AgentInv, NEW s \in Signal, StopBindings(s) \/ ResetMiddlewares(s) \/ Deactivate(s)
  PROVE  AgentInv'
<1> USE DEF AgentInv
<1>1. CASE StopBindings(s) /\ StopThrows
  <2>1. /\ UNCHANGED <<scenario, config, phase, binding, shutdown, awaited>> /\ process' = "crashed"
        /\ began' = IF began = "none" THEN phase ELSE began
    BY <1>1 DEF StopBindings, starting
  <2>2. CrashInv'
    BY <2>1, <1>1 DEF CrashInv, StopThrows, LoadedInv
  <2>3. LoadedInv'
    BY <2>1 DEF LoadedInv
  <2>4. StartInv'
    BY <2>1 DEF StartInv
  <2>5. StopInv'
    BY <2>1 DEF StopInv
  <2> QED BY <2>1, <2>2, <2>3, <2>4, <2>5
<1>2. CASE StopBindings(s) /\ ~ StopThrows
  <2>1. /\ UNCHANGED <<scenario, config, phase, process>> /\ process = "running"
        /\ began' = IF began = "none" THEN phase ELSE began
        /\ shutdown[s] = "none"
        /\ shutdown' = [shutdown EXCEPT ![s] = "bindings"]
        /\ awaited' = [awaited EXCEPT ![s] = Awaited]
        /\ binding' \in [Binding -> BindingState]
        /\ \A b \in Binding : binding'[b] \in StoppedAs(b)
    BY <1>2 DEF StopBindings, starting
  <2>2. \A b \in Binding :
          /\ binding[b] = "up" => binding'[b] = IF b = "AMQP" THEN "off" ELSE "closing"
          /\ binding[b] = "starting" => binding'[b] \in IF b = "AMQP" THEN {"starting"} ELSE {"starting", "closing"}
          /\ binding[b] \notin {"up", "starting"} => binding'[b] = binding[b]
    BY <2>1 DEF StoppedAs
  <2>3. LoadedInv'
    <3>1. \A b \in Binding : /\ binding[b] = "unloaded" <=> binding'[b] = "unloaded"
                             /\ binding[b] = "broken" <=> binding'[b] = "broken"
      <4> SUFFICES ASSUME NEW b \in Binding
                   PROVE  /\ binding[b] = "unloaded" <=> binding'[b] = "unloaded"
                          /\ binding[b] = "broken" <=> binding'[b] = "broken"
        OBVIOUS
      <4>1. CASE binding[b] \notin {"up", "starting"}
        BY <4>1, <2>2
      <4>2. CASE binding[b] \in {"up", "starting"}
        BY <4>2, <2>2
      <4> QED BY <4>1, <4>2
    <3>2. binding'["HTTP"] = "broken" => "http" \notin DOMAIN config
      BY <3>1 DEF LoadedInv, Binding
    <3>3. \A b \in Binding : binding'[b] = "unloaded" <=> binding[b] = "unloaded"
      BY <3>1
    <3> HIDE DEF AgentInv
    <3> QED BY <2>1, <3>2, <3>3 DEF LoadedInv, AgentInv
  <2>4. began' # "none"
    BY <2>1 DEF Phase
  <2>5. StartInv' /\ CrashInv'
    BY <2>1, <2>2, <2>4 DEF StartInv, CrashInv
  <2>6. StopInv'
    <3>1. /\ shutdown' \in [Signal -> {"none", "bindings", "middlewares", "deactivate"}]
          /\ awaited' \in [Signal -> SUBSET Binding]
          /\ awaited'[s] = Awaited /\ shutdown'[s] = "bindings"
          /\ \A t \in Signal \ {s} : awaited'[t] = awaited[t] /\ shutdown'[t] = shutdown[t]
      BY <2>1 DEF StopInv, Awaited, Binding
    <3>2. \A t \in Signal : shutdown'[t] # "bindings" => awaited'[t] = {}
      BY <3>1 DEF StopInv
    <3>3. ASSUME began' = "ready", NEW b \in Binding
          PROVE  /\ binding'[b] \in {"closing", "off"}
                 /\ \A t \in Signal : shutdown'[t] # "none" /\ binding'[b] = "closing" => b \in awaited'[t]
      <4>1. CASE began = "none"
        <5>1. phase = "ready" /\ \A t \in Signal \ {s} : shutdown'[t] = "none"
          BY <4>1, <2>1, <3>1, <3>3 DEF StartInv
        <5>2. binding[b] \in {"up", "off"}
          BY <4>1, <5>1 DEF StartInv
        <5>3. binding'[b] = "closing" => b \in Awaited
          BY <5>2, <2>2 DEF Awaited, Binding
        <5> QED BY <5>1, <5>2, <5>3, <2>2, <3>1
      <4>2. CASE began = "ready"
        <5>1. /\ binding[b] \in {"closing", "off"}
              /\ \A t \in Signal : shutdown[t] # "none" /\ binding[b] = "closing" => b \in awaited[t]
          BY <4>2, <2>1 DEF StopInv
        <5>2. binding'[b] = binding[b]
          BY <5>1, <2>2
        <5>3. binding[b] = "closing" => b \in Awaited
          BY DEF StopInv, Awaited, Binding
        <5> QED BY <5>1, <5>2, <5>3, <3>1
      <4> QED BY <4>1, <4>2, <3>3, <2>1
    <3>4. began' = "ready" => phase' = "ready"
      BY <2>1 DEF StopInv
    <3>5. binding'["AMQP"] # "closing"
      <4>1. binding["AMQP"] # "closing" /\ "AMQP" \in Binding
        BY DEF StopInv, Binding
      <4>2. CASE binding["AMQP"] \in {"up", "starting"}
        BY <4>1, <4>2, <2>2
      <4>3. CASE binding["AMQP"] \notin {"up", "starting"}
        BY <4>1, <4>3, <2>2
      <4> QED BY <4>2, <4>3
    <3> QED BY <2>1, <3>1, <3>2, <3>3, <3>4, <3>5 DEF StopInv
  <2> QED BY <2>1, <2>3, <2>5, <2>6
<1>3. CASE ResetMiddlewares(s)
  BY <1>3 DEF ResetMiddlewares, LoadedInv, StartInv, StopInv, CrashInv, starting
<1>4. CASE Deactivate(s)
  BY <1>4 DEF Deactivate, LoadedInv, StartInv, StopInv, CrashInv, starting
<1> QED BY <1>1, <1>2, <1>3, <1>4 DEF StopBindings

-----------------------------------------------------------------------------
\* The invariant of the life of the agent, which no device has a part in.
LEMMA AgentInvariant == Spec => []AgentInv
<1>1. Init => AgentInv
  BY DEF Init, LifecycleInit, AgentInv, LoadedInv, StartInv, StopInv, CrashInv, Phase, Binding, BindingState
<1>2. AgentInv /\ [Next]_vars => AgentInv'
  <2> SUFFICES ASSUME AgentInv, [Next]_vars PROVE AgentInv'
    OBVIOUS
  <2>1. CASE LifecycleNext
    BY <2>1, StartKeeps, BindingKeeps, ShutdownKeeps DEF LifecycleNext
  <2>2. CASE UNCHANGED lifecycle
    BY <2>2 DEF lifecycle, starting, stopping, AgentInv, LoadedInv, StartInv, StopInv, CrashInv
  <2> QED BY <2>1, <2>2 DEF Next, Provision, GroupFound, GroupChanges, vars
<1> QED BY <1>1, <1>2, PTL DEF Spec

\* An agent that was ready exits with code 0 only when every binding is off, and ends by
\* an exception only for its configuration, whatever signals come and whenever they do.
THEOREM ExitIsGraceful == Spec => []GracefulExit
<1>1. AgentInv => GracefulExit
  <2> SUFFICES ASSUME AgentInv PROVE GracefulExit
    OBVIOUS
  <2>1. ASSUME process = "exited", began = "ready", NEW b \in Binding PROVE binding[b] = "off"
    <3>1. PICK s \in Signal : shutdown[s] = "deactivate"
      BY <2>1 DEF AgentInv, StopInv
    <3>2. awaited[s] = {}
      BY <3>1 DEF AgentInv, StopInv
    <3> QED BY <2>1, <3>1, <3>2 DEF AgentInv, StopInv
  <2> QED BY <2>1 DEF GracefulExit, AgentInv, CrashInv
<1> QED BY <1>1, AgentInvariant, PTL

\* The agent says it is ready with every binding up that its configuration asks for.
THEOREM ReadyIsServing == Spec => []ReadyMeansServing
<1>1. AgentInv => ReadyMeansServing
  <2> SUFFICES ASSUME AgentInv, phase \in {"registering", "ready"}, began = "none"
               PROVE  /\ \A b \in Binding : binding[b] \in {"up", "off"}
                      /\ binding["HTTP"] = "up"
                      /\ binding["MQTT"] = "up" <=> Enabled(config, "mqtt")
                      /\ binding["AMQP"] = "up" <=> Enabled(config, "amqp")
    BY DEF ReadyMeansServing
  <2>1. \A b \in Binding : binding[b] \in {"up", "off"}
    BY DEF AgentInv, StartInv
  <2>2. /\ binding["HTTP"] # "off"
        /\ binding["MQTT"] # "off" <=> Enabled(config, "mqtt")
        /\ binding["AMQP"] # "off" <=> Enabled(config, "amqp")
    BY DEF AgentInv, StartInv
  <2> QED BY <2>1, <2>2 DEF Binding
<1> QED BY <1>1, AgentInvariant, PTL

-----------------------------------------------------------------------------
(* What the library gets back for a device.                                *)

\* Until the group is found a device is as it was asked for, with the bindings loaded,
\* so that the configuration does not change any more.
DeviceInv(d) ==
  /\ step[d] # "none" => Loaded
  /\ d \in steady => step[d] # "none"
  /\ step[d] # "done" => polling[d] = "unset"
  /\ step[d] = "group" => transport[d] = request[d].transport

\* What a device should get back, of the group g.
Agrees(d, g) ==
  /\ returned[d][1] = "HTTP" => (returned[d][2] = "yes" <=> ~ (request[d].endpoint \/ g.endpoint))
  /\ returned[d][1] = IF request[d].transport # "none" THEN request[d].transport
                      ELSE IF g.transport # "none" THEN g.transport
                      ELSE DefaultTransport(config)

Settled(d) ==
  d \in steady /\ step[d] = "done" /\ (request[d].update => request[d].old = request[d].key)

ProvisioningInv ==
  /\ DOMAIN groups = Key
  /\ \A f \in {request, step, transport, polling, returned} : DOMAIN f = Device
  /\ \A d \in Device : DeviceInv(d) /\ (Settled(d) => Agrees(d, groups[request[d].key]))

\* The registration of a device, and the callback of HTTP with its group.
LEMMA DeviceKeeps ==
  ASSUME ProvisioningInv, NEW d \in Device,
         GroupFound(d) \/ \E payload \in scenario.wanted : Provision(d, payload)
  PROVE  ProvisioningInv'
<1>1. CASE \E payload \in scenario.wanted : Provision(d, payload)
  <2>1. PICK payload \in scenario.wanted : Provision(d, payload)
    BY <1>1
  <2>2. /\ UNCHANGED <<binding, config, groups, polling, returned>> /\ Loaded /\ step[d] = "none"
        /\ step' = [step EXCEPT ![d] = "group"] /\ request' = [request EXCEPT ![d] = payload]
        /\ transport' = [transport EXCEPT ![d] = payload.transport] /\ steady' = steady \union {d}
    BY <2>1 DEF Provision, lifecycle, starting
  <2>3. /\ DOMAIN groups' = Key
        /\ \A f \in {request', step', transport', polling', returned'} : DOMAIN f = Device
    BY <2>2 DEF ProvisioningInv
  <2>4. Loaded'
    BY <2>2 DEF Loaded
  <2>5. ASSUME NEW e \in Device
        PROVE  DeviceInv(e)' /\ (Settled(e)' => Agrees(e, groups[request[e].key])')
    <3>1. DeviceInv(e) /\ (Settled(e) => Agrees(e, groups[request[e].key]))
      BY DEF ProvisioningInv
    <3>2. CASE e = d
      <4>1. step'[d] = "group" /\ transport'[d] = payload.transport /\ request'[d] = payload
        BY <2>2 DEF ProvisioningInv
      <4> QED BY <3>1, <3>2, <4>1, <2>2, <2>4 DEF DeviceInv, Settled
    <3>3. CASE e # d
      <4>1. /\ step'[e] = step[e] /\ transport'[e] = transport[e] /\ request'[e] = request[e]
            /\ e \in steady' <=> e \in steady
        BY <3>3, <2>2 DEF ProvisioningInv
      <4> QED BY <3>1, <4>1, <2>2, <2>4 DEF DeviceInv, Settled, Agrees
    <3> QED BY <3>2, <3>3
  <2> QED BY <2>3, <2>5 DEF ProvisioningInv
<1>2. CASE GroupFound(d)
  <2>1. PICK group \in {groups[LookupKey(d)], NoGroup} :
          LET to == IF transport[d] # "none" THEN transport[d]
                    ELSE IF group.transport # "none" THEN group.transport
                    ELSE DefaultTransport(config)
          IN  /\ transport' = [transport EXCEPT ![d] = to]
              /\ polling' = [polling EXCEPT ![d] = PollingOf(d, to, group)]
              /\ steady' = IF group = groups[LookupKey(d)] THEN steady ELSE steady \ {d}
    BY <1>2 DEF GroupFound
  <2> DEFINE to == IF transport[d] # "none" THEN transport[d]
                   ELSE IF group.transport # "none" THEN group.transport
                   ELSE DefaultTransport(config)
  <2>2. /\ transport' = [transport EXCEPT ![d] = to]
        /\ polling' = [polling EXCEPT ![d] = PollingOf(d, to, group)]
        /\ steady' = IF group = groups[LookupKey(d)] THEN steady ELSE steady \ {d}
    BY <2>1
  <2>3. /\ UNCHANGED <<binding, config, groups, request>> /\ step[d] = "group"
        /\ step' = [step EXCEPT ![d] = "done"]
        /\ returned' = [returned EXCEPT ![d] = <<transport'[d], polling'[d]>>]
    BY <1>2 DEF GroupFound, Result, lifecycle, starting
  <2>4. Loaded'
    BY <2>3 DEF ProvisioningInv, DeviceInv, Loaded
  <2>5. /\ DOMAIN groups' = Key
        /\ \A f \in {request', step', transport', polling', returned'} : DOMAIN f = Device
    BY <2>2, <2>3 DEF ProvisioningInv
  <2>6. ASSUME NEW e \in Device
        PROVE  DeviceInv(e)' /\ (Settled(e)' => Agrees(e, groups[request[e].key])')
    <3>1. DeviceInv(e) /\ (Settled(e) => Agrees(e, groups[request[e].key]))
      BY DEF ProvisioningInv
    <3>2. CASE e = d
      <4>1. /\ step'[d] = "done" /\ transport'[d] = to /\ polling'[d] = PollingOf(d, to, group)
            /\ returned'[d] = <<to, PollingOf(d, to, group)>>
        BY <2>2, <2>3 DEF ProvisioningInv
      <4>2. DeviceInv(d)'
        BY <4>1, <2>2, <2>4 DEF DeviceInv
      <4>3. ASSUME Settled(d)' PROVE Agrees(d, groups[request[d].key])'
        <5>1. LookupKey(d) = request[d].key /\ group = groups[request[d].key]
          BY <4>3, <2>2, <2>3 DEF Settled, LookupKey
        <5>2. transport[d] = request[d].transport
          BY <3>1, <3>2, <2>3 DEF DeviceInv
        <5>3. to = IF request[d].transport # "none" THEN request[d].transport
                   ELSE IF group.transport # "none" THEN group.transport
                   ELSE DefaultTransport(config)
          BY <5>2
        <5>4. to = "HTTP" =>
                (PollingOf(d, to, group) = "yes" <=> ~ (request[d].endpoint \/ group.endpoint))
          BY DEF PollingOf
        <5> HIDE DEF to
        <5> QED BY <4>1, <5>1, <5>3, <5>4, <2>3 DEF Agrees
      <4> QED BY <3>2, <4>2, <4>3
    <3>3. CASE e # d
      <4>1. /\ step'[e] = step[e] /\ transport'[e] = transport[e] /\ polling'[e] = polling[e]
            /\ returned'[e] = returned[e] /\ (e \in steady' <=> e \in steady)
        BY <3>3, <2>2, <2>3 DEF ProvisioningInv
      <4> QED BY <3>1, <4>1, <2>3, <2>4 DEF DeviceInv, Settled, Agrees
    <3> QED BY <3>2, <3>3
  <2> QED BY <2>5, <2>6 DEF ProvisioningInv
<1> QED BY <1>1, <1>2

\* Once the bindings are loaded they stay so, and the configuration stays what it is.
LEMMA LoadedStays ==
  ASSUME AgentInv, LifecycleNext, Loaded
  PROVE  Loaded' /\ config' = config
<1>1. \A b \in Binding : binding[b] # "unloaded"
  BY DEF Loaded
<1>2. binding \in [Binding -> BindingState] /\ "HTTP" \in Binding
  BY DEF AgentInv, LoadedInv, Binding
<1>3. CASE SetConfig \/ Activated
  BY <1>1, <1>2, <1>3 DEF SetConfig, Activated, AgentInv, LoadedInv
<1>4. CASE ActivateFails \/ SetReady
  BY <1>1, <1>4 DEF ActivateFails, SetReady, Loaded
<1>5. ASSUME NEW b \in Binding, Started(b) \/ ListenFails(b) \/ Stopped(b)
      PROVE  Loaded' /\ config' = config
  BY <1>1, <1>2, <1>5 DEF Started, ListenFails, Stopped, starting, Loaded
<1>6. ASSUME NEW s \in Signal, StopBindings(s)
      PROVE  Loaded' /\ config' = config
  <2>1. config' = config
    BY <1>6 DEF StopBindings, starting
  <2>2. CASE binding' = binding
    BY <1>1, <2>1, <2>2 DEF Loaded
  <2>3. CASE \A b \in Binding : binding'[b] \in StoppedAs(b)
    <3>1. ASSUME NEW b \in Binding PROVE "unloaded" \notin StoppedAs(b)
      BY <1>1 DEF StoppedAs
    <3> QED BY <2>1, <2>3, <3>1 DEF Loaded
  <2> QED BY <1>6, <2>2, <2>3 DEF StopBindings
<1>7. ASSUME NEW s \in Signal, ResetMiddlewares(s) \/ Deactivate(s)
      PROVE  Loaded' /\ config' = config
  BY <1>1, <1>7 DEF ResetMiddlewares, Deactivate, starting, Loaded
<1> QED BY <1>3, <1>4, <1>5, <1>6, <1>7 DEF LifecycleNext

\* The invariant of devices, for any number of them and of changes of their groups.
LEMMA ProvisioningInvariant == Spec => []ProvisioningInv
<1>1. Init => ProvisioningInv
  <2> SUFFICES ASSUME Init PROVE ProvisioningInv
    OBVIOUS
  <2>1. DOMAIN groups = Key
    <3>1. scenario \in Scenario /\ groups \in scenario.groups
      BY DEF Init, LifecycleInit
    <3>2. groups \in [Key -> Groups]
      BY <3>1, ProvisioningAssumption
    <3> QED BY <3>2
  <2> QED BY <2>1 DEF Init, ProvisioningInv, DeviceInv, Settled
<1>2. AgentInv /\ ProvisioningInv /\ [Next]_vars => ProvisioningInv'
  <2> SUFFICES ASSUME AgentInv, ProvisioningInv, [Next]_vars PROVE ProvisioningInv'
    OBVIOUS
  <2>1. CASE LifecycleNext /\ UNCHANGED <<groups, changes, devices>>
    <3>1. UNCHANGED <<groups, request, step, transport, polling, returned, steady>>
      BY <2>1 DEF devices
    <3>2. ASSUME NEW d \in Device
          PROVE  DeviceInv(d)' /\ (Settled(d)' => Agrees(d, groups[request[d].key])')
      <4>1. DeviceInv(d) /\ (Settled(d) => Agrees(d, groups[request[d].key]))
        BY DEF ProvisioningInv
      <4>2. CASE step[d] = "none"
        BY <4>1, <4>2, <3>1 DEF DeviceInv, Settled
      <4>3. CASE step[d] # "none"
        <5>1. Loaded' /\ config' = config
          BY <4>1, <4>3, <2>1, LoadedStays DEF DeviceInv
        <5> QED BY <4>1, <5>1, <3>1 DEF DeviceInv, Settled, Agrees
      <4> QED BY <4>2, <4>3
    <3> QED BY <3>1, <3>2 DEF ProvisioningInv
  <2>2. ASSUME NEW d \in Device, GroupFound(d) \/ \E payload \in scenario.wanted : Provision(d, payload)
        PROVE  ProvisioningInv'
    BY <2>2, DeviceKeeps
  <2>3. ASSUME NEW k \in Key, GroupChanges(k) PROVE ProvisioningInv'
    <3>1. /\ UNCHANGED <<binding, config, request, step, transport, polling, returned>>
          /\ steady' = {d \in steady : k \notin {request[d].key, LookupKey(d)}}
          /\ \E group : groups' = [groups EXCEPT ![k] = group]
      BY <2>3 DEF GroupChanges, lifecycle, starting
    <3>2. DOMAIN groups' = Key /\ \A l \in Key \ {k} : groups'[l] = groups[l]
      BY <3>1 DEF ProvisioningInv
    <3>3. ASSUME NEW d \in Device
          PROVE  DeviceInv(d)' /\ (Settled(d)' => Agrees(d, groups[request[d].key])')
      <4>1. DeviceInv(d) /\ (Settled(d) => Agrees(d, groups[request[d].key]))
        BY DEF ProvisioningInv
      <4>2. DeviceInv(d)'
        BY <4>1, <3>1 DEF DeviceInv, Loaded
      <4>3. ASSUME Settled(d)' PROVE groups'[request[d].key] = groups[request[d].key]
        <5>1. request[d].key # k
          BY <4>3, <3>1 DEF Settled
        <5> QED BY <5>1, <3>1 DEF ProvisioningInv
      <4> QED BY <4>1, <4>2, <4>3, <3>1 DEF Settled, Agrees
    <3> QED BY <3>1, <3>2, <3>3 DEF ProvisioningInv
  <2>4. CASE UNCHANGED vars
    BY <2>4 DEF vars, devices, lifecycle, starting, ProvisioningInv, DeviceInv, Settled, Agrees, Loaded
  <2> QED BY <2>1, <2>2, <2>3, <2>4 DEF Next
<1> QED BY <1>1, <1>2, AgentInvariant, PTL DEF Spec

\* What the library gets back for a device agrees with the device and its group, for any
\* payloads, and whatever groups change and signals come meanwhile.
THEOREM PollingIsAgreed == Spec => []PollingAgrees
<1>1. ProvisioningInv /\ steady \subseteq Device => PollingAgrees
  BY DEF ProvisioningInv, Settled, Agrees, PollingAgrees
<1>2. Init => steady \subseteq Device
  BY DEF Init
<1>3. steady \subseteq Device /\ [Next]_vars => (steady \subseteq Device)'
  BY DEF Next, Provision, GroupFound, GroupChanges, vars, devices
<1> QED BY <1>1, <1>2, <1>3, ProvisioningInvariant, PTL DEF Spec

-----------------------------------------------------------------------------
(* The configuration.                                                      *)

\* What LifecycleAssumption says of a file and of an environment.
FileTyped(file) ==
  /\ DOMAIN file \subseteq Section
  /\ \A section \in DOMAIN file : \A t \in DOMAIN file[section] : file[section][t] \in Text

EnvTyped(env) ==
  /\ DOMAIN env \subseteq (Section \union {"argo"}) \X STRING
  /\ \A v \in DOMAIN env : env[v] \in Text \ {"yes", "no"}

\* A setting that is given has a variable, and one that is set is given but for the
\* transformations and for a disabled that is not "true".
LEMMA GivenSettings ==
  ASSUME NEW env, EnvTyped(env), NEW section, NEW s
  PROVE  /\ s \in Given(env, section) => Defined(env, <<section, s>>)
         /\ s \in SetIn(env, section) <=> IsSet(env, <<section, s>>)
         /\ s \in Given(env, section) /\ s = "disabled" => env[<<section, s>>] = "true"
         /\ IsSet(env, <<section, s>>) /\ s \notin {"transformations", "disabled"}
              => s \in Given(env, section)
<1>1. ASSUME NEW v \in DOMAIN env PROVE v = <<v[1], v[2]>>
  BY DEF EnvTyped
<1>2. s \in SetIn(env, section) <=> IsSet(env, <<section, s>>)
  BY <1>1 DEF SetIn, IsSet, Defined
<1>3. s \in Given(env, section) <=>
        \/ s \in SetIn(env, section) \ {"transformations"} /\ (s = "disabled" => env[<<section, s>>] = "true")
        \/ s = "rejectUnauthorized" /\ Defined(env, <<section, s>>)
  BY DEF Given
<1> QED BY <1>2, <1>3 DEF IsSet

\* A setting of the effective configuration: a variable wins over the file.
LEMMA EffectiveSetting ==
  ASSUME NEW file, NEW env, NEW section \in DOMAIN Effective(file, env)
  PROVE  /\ DOMAIN Effective(file, env)[section] = Given(env, section) \union Kept(file, env, section)
         /\ \A s \in Given(env, section) \union Kept(file, env, section) :
              Effective(file, env)[section][s] =
                IF s \notin Given(env, section) THEN file[section][s]
                ELSE IF s \in Flags \union {"disabled"} THEN Boolean(env[<<section, s>>])
                ELSE env[<<section, s>>]
<1>1. Effective(file, env)[section] = Settings(file, env, section)
  BY DEF Effective
<1> QED BY <1>1 DEF Settings

\* The effective configuration has the types of a file.
LEMMA EffectiveTyped ==
  ASSUME NEW file, NEW env, FileTyped(file), EnvTyped(env)
  PROVE  FileTyped(Effective(file, env))
<1>1. DOMAIN Effective(file, env) = DOMAIN file \union {s \in Section : AnyIsSet(env, s)}
  BY DEF Effective
<1>2. ASSUME NEW section \in DOMAIN Effective(file, env),
             NEW s \in DOMAIN Effective(file, env)[section]
      PROVE  Effective(file, env)[section][s] \in Text
  <2> DEFINE conf == Effective(file, env)
  <2>0. /\ DOMAIN conf[section] = Given(env, section) \union Kept(file, env, section)
        /\ \A t \in Given(env, section) \union Kept(file, env, section) :
             conf[section][t] = IF t \notin Given(env, section) THEN file[section][t]
                                ELSE IF t \in Flags \union {"disabled"} THEN Boolean(env[<<section, t>>])
                                ELSE env[<<section, t>>]
    BY EffectiveSetting
  <2>1. CASE s \in Given(env, section)
    <3>1. <<section, s>> \in DOMAIN env
      BY <2>1, GivenSettings DEF Defined
    <3>2. env[<<section, s>>] \in Text
      BY <3>1 DEF EnvTyped
    <3>3. Boolean(env[<<section, s>>]) \in Text
      BY LifecycleAssumption DEF Boolean
    <3> HIDE DEF conf
    <3>4. conf[section][s] \in {Boolean(env[<<section, s>>]), env[<<section, s>>]}
      BY <2>0, <2>1
    <3> QED BY <3>2, <3>3, <3>4 DEF conf
  <2>2. CASE s \notin Given(env, section)
    <3>1. s \in DOMAIN conf[section]
      OBVIOUS
    <3> HIDE DEF conf
    <3>2. s \in Kept(file, env, section) /\ conf[section][s] = file[section][s]
      BY <2>0, <2>2, <3>1
    <3>3. section \in DOMAIN file /\ s \in DOMAIN file[section]
      BY <3>2 DEF Kept
    <3> QED BY <3>2, <3>3 DEF FileTyped, conf
  <2> HIDE DEF conf
  <2> QED BY <2>1, <2>2 DEF conf
<1> QED BY <1>1, <1>2 DEF FileTyped

\* What EnvironmentOverFile says of the configuration.
VariablesWin(file, env, conf) ==
  \A v \in DOMAIN env :
    env[v] # "" /\ v[1] \in Section
      /\ v[2] \notin {"disabled", "transformations", "configRetrieval"} =>
      conf[v[1]][v[2]] = IF v[2] \in Flags THEN Boolean(env[v]) ELSE env[v]

FileIsKept(file, env, conf) ==
  \A section \in DOMAIN file : \A s \in DOMAIN file[section] :
    \/ Has(conf, section, s) /\ conf[section][s] = file[section][s]
    \/ Defined(env, <<section, s>>)
    \/ section = "http" /\ AnyIsSet(env, "http")
    \/ s = "autoDelete" /\ Defined(env, <<"amqp", "durable">>)

DisabledStays(file, env, conf) ==
  \A section \in {"mqtt", "amqp"} :
    LET v == <<section, "disabled">>
    IN  IF Defined(env, v) THEN env[v] = "true" => ~ Enabled(conf, section)
        ELSE Truthy(file, section, "disabled") => ~ Enabled(conf, section)

RetrievalIsOfFile(file, env, conf) ==
  ~ Defined(env, <<"root", "configRetrieval">>) => (Retrieves(conf) <=> Retrieves(file))

\* The environment over the file, for any file and any environment.
LEMMA EffectiveIsOverFile ==
  ASSUME NEW file, NEW env, FileTyped(file), EnvTyped(env)
  PROVE  LET conf == Effective(file, env)
         IN  /\ VariablesWin(file, env, conf)
             /\ FileIsKept(file, env, conf)
             /\ DisabledStays(file, env, conf)
             /\ RetrievalIsOfFile(file, env, conf)
<1> DEFINE conf == Effective(file, env)
<1>1. DOMAIN conf = DOMAIN file \union {s \in Section : AnyIsSet(env, s)}
  BY DEF Effective
<1>2. ASSUME NEW section \in DOMAIN conf
      PROVE  /\ DOMAIN conf[section] = Given(env, section) \union Kept(file, env, section)
             /\ \A s \in Given(env, section) \union Kept(file, env, section) :
                  conf[section][s] =
                    IF s \notin Given(env, section) THEN file[section][s]
                    ELSE IF s \in Flags \union {"disabled"} THEN Boolean(env[<<section, s>>])
                    ELSE env[<<section, s>>]
  BY EffectiveSetting
<1> HIDE DEF conf
<1>3. ASSUME NEW v \in DOMAIN env, env[v] # "", v[1] \in Section,
             v[2] \notin {"disabled", "transformations", "configRetrieval"}
      PROVE  conf[v[1]][v[2]] = IF v[2] \in Flags THEN Boolean(env[v]) ELSE env[v]
  <2>1. v = <<v[1], v[2]>>
    BY DEF EnvTyped
  <2>2. IsSet(env, <<v[1], v[2]>>)
    BY <1>3, <2>1 DEF IsSet, Defined
  <2>3. v[2] \in Given(env, v[1]) /\ v[2] \in SetIn(env, v[1])
    BY <1>3, <2>2, GivenSettings
  <2>4. v[1] \in DOMAIN conf
    BY <1>1, <1>3, <2>3 DEF AnyIsSet
  <2> QED BY <1>2, <1>3, <2>1, <2>3, <2>4
<1>4. ASSUME NEW section \in DOMAIN file, NEW s \in DOMAIN file[section]
      PROVE  \/ Has(conf, section, s) /\ conf[section][s] = file[section][s]
             \/ Defined(env, <<section, s>>)
             \/ section = "http" /\ AnyIsSet(env, "http")
             \/ s = "autoDelete" /\ Defined(env, <<"amqp", "durable">>)
  <2>1. CASE s \in Given(env, section)
    BY <2>1, GivenSettings
  <2>2. CASE s \notin Given(env, section) /\ s \in Kept(file, env, section)
    BY <1>1, <1>2, <2>2 DEF Has
  <2>3. CASE s \notin Kept(file, env, section) /\ ~ (section = "http" /\ AnyIsSet(env, "http"))
    <3>1. section = "amqp" /\ "durable" \in SetIn(env, section) /\ s = "autoDelete"
      BY <2>3 DEF Kept
    <3>2. Defined(env, <<"amqp", "durable">>)
      BY <3>1, GivenSettings DEF IsSet
    <3> QED BY <3>1, <3>2
  <2> QED BY <2>1, <2>2, <2>3
<1>5. ASSUME NEW section \in {"mqtt", "amqp"}, Defined(env, <<section, "disabled">>),
             env[<<section, "disabled">>] = "true"
      PROVE  ~ Enabled(conf, section)
  <2>1. IsSet(env, <<section, "disabled">>)
    BY <1>5 DEF IsSet
  <2>2. "disabled" \in SetIn(env, section)
    BY <2>1, GivenSettings
  <2>3. "disabled" \in Given(env, section) /\ section \in DOMAIN conf
    BY <1>1, <1>5, <2>2 DEF Given, AnyIsSet, Section
  <2>4. conf[section]["disabled"] = "yes"
    BY <1>2, <1>5, <2>3 DEF Boolean
  <2> QED BY <1>2, <2>3, <2>4 DEF Enabled, Truthy, Has
<1>6. ASSUME NEW section \in {"mqtt", "amqp"}, ~ Defined(env, <<section, "disabled">>),
             Truthy(file, section, "disabled")
      PROVE  ~ Enabled(conf, section)
  <2>1. /\ section \in DOMAIN file /\ "disabled" \in DOMAIN file[section]
        /\ file[section]["disabled"] \notin {"", "no"}
    BY <1>6 DEF Truthy, Has
  <2>2. section \in DOMAIN conf /\ "disabled" \in Kept(file, env, section)
    BY <1>1, <2>1 DEF Kept
  <2>3. "disabled" \notin Given(env, section)
    BY <1>6, GivenSettings
  <2> QED BY <1>2, <2>1, <2>2, <2>3 DEF Enabled, Truthy, Has
<1>7. ASSUME ~ Defined(env, <<"root", "configRetrieval">>)
      PROVE  Retrieves(conf) <=> Retrieves(file)
  <2>1. "configRetrieval" \notin Given(env, "root")
    BY <1>7, GivenSettings
  <2>2. ASSUME Retrieves(conf) PROVE Retrieves(file)
    <3>1. /\ "root" \in DOMAIN conf /\ "configRetrieval" \in DOMAIN conf["root"]
          /\ conf["root"]["configRetrieval"] = "yes"
      BY <2>2 DEF Retrieves, Has
    <3>2. "configRetrieval" \in Kept(file, env, "root") /\ file["root"]["configRetrieval"] = "yes"
      BY <1>2, <2>1, <3>1
    <3>3. "root" \in DOMAIN file /\ "configRetrieval" \in DOMAIN file["root"]
      BY <3>2 DEF Kept
    <3> QED BY <3>2, <3>3 DEF Retrieves, Has
  <2>3. ASSUME Retrieves(file) PROVE Retrieves(conf)
    <3>1. /\ "root" \in DOMAIN file /\ "configRetrieval" \in DOMAIN file["root"]
          /\ file["root"]["configRetrieval"] = "yes"
      BY <2>3 DEF Retrieves, Has
    <3>2. "root" \in DOMAIN conf /\ "configRetrieval" \in Kept(file, env, "root")
      BY <1>1, <3>1 DEF Kept
    <3> QED BY <1>2, <2>1, <3>1, <3>2 DEF Retrieves, Has
  <2> QED BY <2>2, <2>3
<1>8. VariablesWin(file, env, conf) /\ FileIsKept(file, env, conf)
  BY <1>3, <1>4 DEF VariablesWin, FileIsKept
<1>9. DisabledStays(file, env, conf) /\ RetrievalIsOfFile(file, env, conf)
  BY <1>5, <1>6, <1>7 DEF DisabledStays, RetrievalIsOfFile
<1> QED BY <1>8, <1>9 DEF conf

\* Before setConfig the configuration is the file, and after it the file under the
\* environment; nothing writes to it afterwards.
ConfigInv ==
  /\ scenario \in Scenario
  /\ phase = "idle" => config = scenario.file
  /\ phase # "idle" => config = Effective(scenario.file, scenario.env)
  /\ notifier \in {"none", "commands", "configuration"}
  /\ notifier # "none" => phase # "idle" /\ (notifier = "configuration" <=> Retrieves(config))

LEMMA ConfigInvariant == Spec => []ConfigInv
<1>1. Init => ConfigInv
  BY DEF Init, LifecycleInit, ConfigInv
<1>2. ConfigInv /\ [Next]_vars => ConfigInv'
  <2> SUFFICES ASSUME ConfigInv, [Next]_vars PROVE ConfigInv'
    OBVIOUS
  <2> USE DEF ConfigInv
  <2>1. CASE SetConfig
    BY <2>1 DEF SetConfig
  <2>2. CASE Activated
    BY <2>2 DEF Activated
  <2>3. CASE UNCHANGED <<scenario, config, notifier>> /\ (phase' = phase \/ (phase # "idle" /\ phase' # "idle"))
    BY <2>3
  <2>4. ASSUME NEW b \in Binding, Started(b) PROVE ConfigInv'
    BY <2>4 DEF Started
  <2>5. CASE LifecycleNext
    BY <2>1, <2>2, <2>3, <2>4, <2>5 DEF LifecycleNext, ActivateFails, SetReady, ListenFails, Stopped,
       StopBindings, ResetMiddlewares, Deactivate, starting
  <2>6. CASE UNCHANGED lifecycle
    BY <2>3, <2>6 DEF lifecycle, starting
  <2> QED BY <2>5, <2>6 DEF Next, Provision, GroupFound, GroupChanges, vars
<1> QED BY <1>1, <1>2, PTL DEF Spec

\* The agent starts with the file under the environment, for every file and every
\* environment: a variable that is set wins, as a text or as a Boolean; what has no
\* variable is that of the file, but for the section of HTTP and the options of AMQP
\* once a variable of theirs is set; what the file or a variable disables is not
\* started; and without its variable configuration retrieval is that of the file.
THEOREM EnvironmentIsOverFile == Spec => []EnvironmentOverFile
<1>1. ConfigInv => EnvironmentOverFile
  <2> SUFFICES ASSUME ConfigInv, phase # "idle" PROVE EnvironmentOverFile
    BY DEF EnvironmentOverFile
  <2> DEFINE file == scenario.file
             env  == scenario.env
  <2>1. FileTyped(file) /\ EnvTyped(env) /\ config = Effective(file, env)
    BY LifecycleAssumption DEF ConfigInv, FileTyped, EnvTyped
  <2>2. /\ VariablesWin(file, env, config)
        /\ FileIsKept(file, env, config)
        /\ DisabledStays(file, env, config)
        /\ RetrievalIsOfFile(file, env, config)
    <3> HIDE DEF file, env
    <3> QED BY <2>1, EffectiveIsOverFile
  <2> QED BY <2>2 DEF EnvironmentOverFile, ConfigInv, VariablesWin, FileIsKept, DisabledStays,
             RetrievalIsOfFile
<1> QED BY <1>1, ConfigInvariant, PTL

-----------------------------------------------------------------------------
(* The types.                                                              *)

\* What the other invariants leave of the types.
TypeInv ==
  /\ process \in {"running", "exited", "failed", "crashed", "unbound"}
  /\ notifier \in {"none", "commands", "configuration"}
  /\ began \in Phase \union {"none"}
  /\ groups \in [Key -> Groups]
  /\ changes \in 0..MaxChanges
  /\ request \in [Device -> Payload \union {NoPayload}]
  /\ \A d \in Device : step[d] = "group" => request[d] \in Payload
  /\ step \in [Device -> {"none", "group", "done"}]
  /\ transport \in [Device -> Text]
  /\ polling \in [Device -> {"unset", "yes", "no"}]
  /\ returned \in [Device -> Text \X {"unset", "yes", "no"}]
  /\ steady \subseteq Device

\* The configuration has the types of a file, before setConfig and after it.
LEMMA ConfigTyped ==
  ASSUME ConfigInv
  PROVE  FileTyped(config) /\ DefaultTransport(config) \in Text
<1>1. FileTyped(scenario.file) /\ EnvTyped(scenario.env)
  BY LifecycleAssumption DEF ConfigInv, FileTyped, EnvTyped
<1>2. config = scenario.file \/ config = Effective(scenario.file, scenario.env)
  BY DEF ConfigInv
<1>3. FileTyped(config)
  BY <1>1, <1>2, EffectiveTyped
<1>4. Truthy(config, "root", "defaultTransport") => Has(config, "root", "defaultTransport")
  BY Zenon DEF Truthy
<1>5. Has(config, "root", "defaultTransport") => config["root"]["defaultTransport"] \in Text
  BY <1>3 DEF Has, FileTyped
<1> QED BY <1>3, <1>4, <1>5, LifecycleAssumption DEF DefaultTransport

\* The handlers of devices keep the types.
LEMMA DeviceTyped ==
  ASSUME ConfigInv, TypeInv, NEW d \in Device,
         GroupFound(d) \/ \E payload \in scenario.wanted : Provision(d, payload)
  PROVE  TypeInv'
<1>1. ASSUME NEW payload \in scenario.wanted, Provision(d, payload) PROVE TypeInv'
  <2>1. payload \in Payload
    BY ProvisioningAssumption DEF ConfigInv
  <2>2. payload.transport \in Text
    <3>1. payload.transport \in Binding \union {"none"}
      BY <2>1 DEF Payload
    <3> QED BY <3>1, LifecycleAssumption
  <2>3. /\ request' = [request EXCEPT ![d] = payload]
        /\ step' = [step EXCEPT ![d] = "group"]
        /\ transport' = [transport EXCEPT ![d] = payload.transport]
        /\ steady' = steady \union {d}
        /\ UNCHANGED <<process, notifier, began, groups, changes, polling, returned>>
    BY <1>1 DEF Provision, lifecycle, starting, stopping
  <2>4. /\ request' \in [Device -> Payload \union {NoPayload}]
        /\ \A e \in Device : step'[e] = "group" => request'[e] \in Payload
    BY <2>1, <2>3 DEF TypeInv
  <2>5. step' \in [Device -> {"none", "group", "done"}] /\ transport' \in [Device -> Text]
    BY <2>2, <2>3 DEF TypeInv
  <2> QED BY <2>3, <2>4, <2>5 DEF TypeInv
<1>2. CASE GroupFound(d)
  <2> DEFINE to(group) == IF transport[d] # "none" THEN transport[d]
                          ELSE IF group.transport # "none" THEN group.transport
                          ELSE DefaultTransport(config)
  <2>1. PICK group : /\ group \in {groups[LookupKey(d)], NoGroup}
                     /\ transport' = [transport EXCEPT ![d] = to(group)]
                     /\ polling' = [polling EXCEPT ![d] = PollingOf(d, to(group), group)]
                     /\ steady' = IF group = groups[LookupKey(d)] THEN steady ELSE steady \ {d}
    BY <1>2 DEF GroupFound
  <2>2. /\ step' = [step EXCEPT ![d] = "done"]
        /\ returned' = [returned EXCEPT ![d] = <<transport'[d], polling'[d]>>]
        /\ UNCHANGED <<process, notifier, began, groups, changes, request>>
    BY <1>2 DEF GroupFound, Result, lifecycle, starting, stopping
  <2>3. group.transport \in Text
    <3>1. LookupKey(d) \in Key
      BY <1>2 DEF GroupFound, TypeInv, LookupKey, Payload
    <3>2. groups[LookupKey(d)] \in Group
      BY <3>1, ProvisioningAssumption DEF TypeInv
    <3>3. NoGroup \in Group
      BY DEF NoGroup, Group
    <3>4. group.transport \in Binding \union {"none"}
      BY <2>1, <3>2, <3>3 DEF Group
    <3> QED BY <3>4, LifecycleAssumption
  <2>4. to(group) \in Text
    BY <2>3, ConfigTyped DEF TypeInv
  <2>5. PollingOf(d, to(group), group) \in {"unset", "yes", "no"}
    BY DEF TypeInv, PollingOf
  <2> HIDE DEF to
  <2>6. transport' \in [Device -> Text] /\ polling' \in [Device -> {"unset", "yes", "no"}]
    BY <2>1, <2>4, <2>5 DEF TypeInv
  <2>7. returned' \in [Device -> Text \X {"unset", "yes", "no"}]
    BY <2>2, <2>6 DEF TypeInv
  <2> QED BY <2>1, <2>2, <2>6, <2>7 DEF TypeInv
<1> QED BY <1>1, <1>2

LEMMA TypeInvariant == Spec => []TypeInv
<1>1. Init => TypeInv
  <2> SUFFICES ASSUME Init PROVE TypeInv
    OBVIOUS
  <2>1. groups \in [Key -> Groups] /\ 0 \in 0..MaxChanges
    <3>1. scenario \in Scenario /\ groups \in scenario.groups
      BY DEF Init, LifecycleInit
    <3> QED BY <3>1, ProvisioningAssumption
  <2>2. "none" \in Text /\ <<"none", "unset">> \in Text \X {"unset", "yes", "no"}
    BY LifecycleAssumption
  <2> QED BY <2>1, <2>2 DEF Init, LifecycleInit, TypeInv
<1>2. AgentInv /\ ConfigInv /\ TypeInv /\ [Next]_vars => TypeInv'
  <2> SUFFICES ASSUME AgentInv, ConfigInv, TypeInv, [Next]_vars PROVE TypeInv'
    OBVIOUS
  <2>1. CASE LifecycleNext /\ UNCHANGED <<groups, changes, devices>>
    <3>1. UNCHANGED <<groups, changes, request, step, transport, polling, returned, steady>>
      BY <2>1 DEF devices
    <3>2. /\ process' \in {"running", "exited", "failed", "crashed", "unbound"}
          /\ notifier' \in {"none", "commands", "configuration"}
          /\ began' \in Phase \union {"none"}
      BY <2>1 DEF TypeInv, AgentInv, LifecycleNext, SetConfig, Activated, ActivateFails, SetReady, Started,
         ListenFails, Stopped, StopBindings, ResetMiddlewares, Deactivate, starting, stopping
    <3> QED BY <3>1, <3>2 DEF TypeInv
  <2>2. ASSUME NEW d \in Device, GroupFound(d) \/ \E payload \in scenario.wanted : Provision(d, payload)
        PROVE  TypeInv'
    BY <2>2, DeviceTyped
  <2>3. ASSUME NEW k \in Key, GroupChanges(k) PROVE TypeInv'
    <3>1. /\ UNCHANGED <<process, notifier, began, request, step, transport, polling, returned>>
          /\ changes < MaxChanges /\ changes' = changes + 1
          /\ steady' \subseteq steady
          /\ \E group \in Groups : groups' = [groups EXCEPT ![k] = group]
      BY <2>3 DEF GroupChanges, lifecycle, starting, stopping
    <3>2. changes' \in 0..MaxChanges
      BY <3>1, ProvisioningAssumption DEF TypeInv
    <3>3. groups' \in [Key -> Groups]
      BY <3>1 DEF TypeInv
    <3> QED BY <3>1, <3>2, <3>3 DEF TypeInv
  <2>4. CASE UNCHANGED vars
    BY <2>4 DEF vars, devices, lifecycle, starting, stopping, TypeInv
  <2> QED BY <2>1, <2>2, <2>3, <2>4 DEF Next
<1> QED BY <1>1, <1>2, AgentInvariant, ConfigInvariant, PTL DEF Spec

\* The types of the agent and of its devices, for every configuration: that a stop waits
\* for bindings only in its first step, and that the configuration never has another
\* section, are what is not obvious of them.
THEOREM TypeCorrect == Spec => []TypeOK
<1>1. AgentInv /\ ConfigInv /\ TypeInv => TypeOK
  <2> SUFFICES ASSUME AgentInv, ConfigInv, TypeInv PROVE TypeOK
    OBVIOUS
  <2>1. LifecycleTypeOK
    <3>1. DOMAIN config \subseteq Section
      BY ConfigTyped DEF FileTyped
    <3> QED BY <3>1 DEF LifecycleTypeOK, AgentInv, ConfigInv, TypeInv, LoadedInv, StopInv
  <2> QED BY <2>1 DEF TypeOK, TypeInv
<1> QED BY <1>1, AgentInvariant, ConfigInvariant, TypeInvariant, PTL
=============================================================================
