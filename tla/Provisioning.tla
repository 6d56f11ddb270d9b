---------------------------- MODULE Provisioning ----------------------------
(***************************************************************************)
(* The provisioning and the updating of devices, in the agent of           *)
(* Lifecycle.  The handlers of iotagent-json call those of every binding   *)
(* in a series, all with the same object: AMQP, ARGO and MQTT give it back *)
(* as it is, and HTTP looks up the group of its API key and fills in the   *)
(* transport and polling.  What the agent gives back to the library is the *)
(* first result of the series, that of AMQP.                               *)
(*                                                                         *)
(* Groups are changed by their owners meanwhile.  The registry is external. *)
(***************************************************************************)
EXTENDS Lifecycle

CONSTANTS
  Device,       \* requests to provision or update a device
  Key,          \* API keys
  Groups,       \* what the group of a key may be
  MaxChanges    \* bound on the changes of groups

\* key: the API key of the payload; old: the one the device had, of an update.
Payload == [update : BOOLEAN, transport : Binding \union {"none"}, endpoint : BOOLEAN,
            key : Key, old : Key]

\* A key without a group has no transport and no endpoint.
Group == [transport : Binding \union {"none"}, endpoint : BOOLEAN]

ASSUME ProvisioningAssumption ==
  /\ Groups \subseteq Group
  /\ \A s \in Scenario : s.wanted \subseteq Payload /\ s.groups \subseteq [Key -> Groups]
  /\ MaxChanges \in Nat

VARIABLES
  groups,     \* the group of each key
  changes,    \* how often a group was changed
  request,    \* per device: its payload
  step,       \* per device: what its handler is doing
  transport,  \* the transport of the object the handlers share
  polling,    \* its polling
  returned,   \* per device: the transport and polling the library got back
  steady      \* history: the devices whose group has not changed, nor failed to be found

devices == <<request, step, transport, polling, returned, steady>>
vars == <<lifecycle, groups, changes, devices>>

NoPayload == [update |-> FALSE, transport |-> "none"]

TypeOK ==
  /\ LifecycleTypeOK
  /\ groups \in [Key -> Groups]
  /\ changes \in 0..MaxChanges
  /\ request \in [Device -> Payload \union {NoPayload}]
  /\ step \in [Device -> {"none", "group", "done"}]
  /\ transport \in [Device -> Text]
  /\ polling \in [Device -> {"unset", "yes", "no"}]
  /\ returned \in [Device -> Text \X {"unset", "yes", "no"}]
  /\ steady \subseteq Device

Init ==
  /\ LifecycleInit
  /\ groups \in scenario.groups
  /\ changes = 0
  /\ request = [d \in Device |-> NoPayload]
  /\ step = [d \in Device |-> "none"]
  /\ transport = [d \in Device |-> "none"]
  /\ polling = [d \in Device |-> "unset"]
  /\ returned = [d \in Device |-> <<"none", "unset">>]
  /\ steady = {}

-----------------------------------------------------------------------------
\* The key HTTP looks the group up by: that of the payload, or, for an update, that
\* the device had.
LookupKey(d) == IF request[d].update THEN request[d].old ELSE request[d].key

\* deviceProvisioningHandler and deviceUpdatingHandler, up to the look-up of HTTP.
\* They are registered with the library when the bindings are loaded.
Provision(d, payload) ==
  /\ process = "running"
  /\ Loaded
  /\ step[d] = "none"
  /\ step' = [step EXCEPT ![d] = "group"]
  /\ request' = [request EXCEPT ![d] = payload]
  /\ transport' = [transport EXCEPT ![d] = payload.transport]
  /\ steady' = steady \union {d}
  /\ UNCHANGED <<lifecycle, groups, changes, polling, returned>>

NoGroup == [transport |-> "none", endpoint |-> FALSE]

\* setPollingAndDefaultTransport, the part about polling.
PollingOf(d, to, group) ==
  IF to # "HTTP" THEN polling[d]
  ELSE IF request[d].endpoint \/ group.endpoint THEN "no" ELSE "yes"

\* A wrong Result: the first result is what AMQP was given.
ResultOfAmqp(d) == <<transport[d], polling[d]>>

\* devices[0]: the object HTTP has filled in since.
Result(d) == <<transport'[d], polling'[d]>>

\* The callback of getConfigurationSilently, the handler of MQTT after it, and the
\* end of the series.  An error counts as no group.
GroupFound(d) ==
  /\ process = "running"
  /\ step[d] = "group"
  /\ \E group \in {groups[LookupKey(d)], NoGroup} :
       LET to == IF transport[d] # "none" THEN transport[d]
                 ELSE IF group.transport # "none" THEN group.transport
                 ELSE DefaultTransport(config)
       IN  /\ transport' = [transport EXCEPT ![d] = to]
           /\ polling' = [polling EXCEPT ![d] = PollingOf(d, to, group)]
           /\ steady' = IF group = groups[LookupKey(d)] THEN steady ELSE steady \ {d}
  /\ step' = [step EXCEPT ![d] = "done"]
  /\ returned' = [returned EXCEPT ![d] = Result(d)]
  /\ UNCHANGED <<lifecycle, groups, changes, request>>

\* The owner of a group changes it, which no device that is there already learns of.
GroupChanges(k) ==
  /\ process = "running"
  /\ changes < MaxChanges
  /\ changes' = changes + 1
  /\ \E group \in Groups \ {groups[k]} : groups' = [groups EXCEPT ![k] = group]
  /\ steady' = {d \in steady : k \notin {request[d].key, LookupKey(d)}}
  /\ UNCHANGED <<lifecycle, request, step, transport, polling, returned>>

Next ==
  \/ LifecycleNext /\ UNCHANGED <<groups, changes, devices>>
  \/ \E d \in Device : GroupFound(d) \/ \E payload \in scenario.wanted : Provision(d, payload)
  \/ \E k \in Key : GroupChanges(k)

Spec == Init /\ [][Next]_vars

FairSpec == Spec /\ LifecycleFairness

-----------------------------------------------------------------------------
\* A device of HTTP is given back to be polled exactly if neither it nor its group has
\* an endpoint, and with the transport its commands will take, as long as its group
\* stays what it was and an update does not give it another key: HTTP asks for the
\* group of the old one.  (deviceProvisioningHandler, deviceUpdatingHandler,
\* setPollingAndDefaultTransport)
PollingAgrees ==
  \A d \in steady :
    LET group == groups[request[d].key]
    IN  step[d] = "done" /\ (request[d].update => request[d].old = request[d].key) =>
          /\ returned[d][1] = "HTTP" =>
               (returned[d][2] = "yes" <=> ~ (request[d].endpoint \/ group.endpoint))
          /\ returned[d][1] =
               IF request[d].transport # "none" THEN request[d].transport
               ELSE IF group.transport # "none" THEN group.transport
               ELSE DefaultTransport(config)
=============================================================================
