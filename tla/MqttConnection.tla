--------------------------- MODULE MqttConnection ---------------------------
(***************************************************************************)
(* The connection of the MQTT binding with its broker: start,              *)
(* createConnection and the handlers it attaches to each mqtt.js client,   *)
(* the subscriptions, and stop.                                            *)
(*                                                                         *)
(* mqtt.js is external.  What the binding relies on: mqtt.connect returns  *)
(* a client at once and connects it later; a client that loses or fails a  *)
(* connection emits 'close' and tries again by itself (the 'reconnect'     *)
(* event the binding logs) until end is called on it; a client keeps its   *)
(* subscriptions over its own reconnections; the callback of end and the   *)
(* last 'close' of the client come in either order.                        *)
(*                                                                         *)
(* Every createConnection makes a new client, and the handlers of all of   *)
(* them act on the variable mqttClient, the newest one.  Clients are       *)
(* numbered as they are made; 0 stands for undefined or null.              *)
(***************************************************************************)
EXTENDS Naturals

CONSTANTS
  Retries,      \* config.mqtt.retries, or its default
  MaxClients,   \* bound on the clients made
  MaxFaults     \* bound on lost or failed connections and failed subscriptions

ASSUME MqttConnectionAssumption ==
  /\ Retries \in Nat
  /\ MaxClients \in Nat \ {0}
  /\ MaxFaults \in Nat

VARIABLES
  client,       \* the state of each client
  mqttClient,
  mqttConn,
  numRetried,
  timers,       \* timers set by 'close' handlers to call createConnection
  subscribing,  \* clients with a subscribe not yet answered
  subscribed,   \* clients that have the topics of the agent
  refused,      \* clients whose last subscribe was answered with an error
  process,      \* the life of the binding
  unended,      \* history: a client was closed that end had not been called on
  faults

retrying == <<numRetried, timers>>
topics   == <<subscribing, subscribed, refused>>
vars == <<client, mqttClient, mqttConn, retrying, topics, process, unended, faults>>

Client == 1..MaxClients

\* A client that is down is trying to connect; one that is ending will emit 'close'
\* and nothing more.
ClientState == {"none", "down", "up", "ending", "closed"}

\* "idle" before start; "off" without a connection; "crashed" after a TypeError.
Process == {"idle", "off", "running", "stopping", "stopped", "crashed"}

TypeOK ==
  /\ client \in [Client -> ClientState]
  /\ mqttClient \in 0..MaxClients
  /\ mqttConn \in 0..MaxClients
  /\ numRetried \in Nat \ {0}
  /\ timers \in Nat
  /\ subscribing \in SUBSET Client
  /\ subscribed \in SUBSET Client
  /\ refused \in SUBSET Client
  /\ process \in Process
  /\ unended \in {"no", "yes"}
  /\ faults \in Nat

\* numRetried counts from one, and a wrong FirstTry from zero.
FromZero == 0

FirstTry == 1

Init ==
  /\ client = [i \in Client |-> "none"]
  /\ mqttClient = 0
  /\ mqttConn = 0
  /\ numRetried = FirstTry
  /\ timers = 0
  /\ subscribing = {}
  /\ subscribed = {}
  /\ refused = {}
  /\ process = "idle"
  /\ unended = "no"
  /\ faults = 0

Fault == faults < MaxFaults /\ faults' = faults + 1

-----------------------------------------------------------------------------
\* createConnection: a new client takes the place of the one before, which is left
\* as it is.
CreateConnection ==
  /\ mqttClient < MaxClients
  /\ mqttClient' = mqttClient + 1
  /\ mqttConn' = mqttClient + 1
  /\ client' = [client EXCEPT ![mqttClient + 1] = "down"]

\* start calls back at once, connected or not.
Start ==
  /\ process = "idle"
  /\ \/ process' = "running" /\ CreateConnection
     \/ process' = "off" /\ UNCHANGED <<client, mqttClient, mqttConn>>
  /\ UNCHANGED <<retrying, topics, unended, faults>>

TimerFires ==
  /\ process # "crashed"
  /\ timers > 0
  /\ timers' = timers - 1
  /\ CreateConnection
  /\ UNCHANGED <<numRetried, topics, process, unended, faults>>

\* A wrong Resubscribe: the topics are sent only for the first client.
ResubscribeOnce == subscribing \union ({1} \intersect {mqttClient})

\* recreateSubscriptions subscribes mqttClient, whichever client called it.
Resubscribe == subscribing \union {mqttClient}

\* The 'connect' handler.
Connect(i) ==
  /\ process # "crashed"
  /\ client[i] = "down"
  /\ client' = [client EXCEPT ![i] = "up"]
  /\ subscribing' = Resubscribe
  /\ numRetried' = FirstTry
  /\ UNCHANGED <<mqttClient, mqttConn, timers, subscribed, refused, process, unended, faults>>

\* The answer to a subscribe: success needs the connection; an error is
\* logged, raises an alarm, and is not retried.
SubscribeAnswered(i) ==
  /\ process # "crashed"
  /\ i \in subscribing
  /\ subscribing' = subscribing \ {i}
  /\ \/ /\ client[i] = "up"
        /\ subscribed' = subscribed \union {i}
        /\ refused' = refused \ {i}
        /\ UNCHANGED faults
     \/ /\ Fault
        /\ refused' = refused \union {i}
        /\ UNCHANGED subscribed
  /\ UNCHANGED <<client, mqttClient, mqttConn, retrying, process, unended>>

\* end: the client emits one more 'close' and does not connect again.
Ended(i) == [client EXCEPT ![i] = IF @ \in {"down", "up"} THEN "ending" ELSE @]

\* The 'error' handler ends mqttClient, whichever client failed.
EndOnError == Ended(mqttClient)

\* A wrong Error: the 'error' handler sets a timer too.
ErrorRetries(i) ==
  /\ process # "crashed"
  /\ client[i] \in {"down", "up"}
  /\ Fault
  /\ client' = EndOnError
  /\ timers' = timers + 1
  /\ UNCHANGED <<mqttClient, mqttConn, numRetried, topics, process, unended>>

\* A connection of client i fails.
Error(i) ==
  /\ process # "crashed"
  /\ client[i] \in {"down", "up"}
  /\ Fault
  /\ client' = EndOnError
  /\ UNCHANGED <<mqttClient, mqttConn, retrying, topics, process, unended>>

\* A wrong MayRetry: one retry fewer.
MayRetryStrict == numRetried < Retries

MayRetry == numRetried <= Retries

\* The 'close' handler: with mqttConn null the connection was closed on purpose;
\* otherwise a new connection if mqttClient is not connected and retries are left.
OnClose ==
  IF mqttConn # 0 /\ client'[mqttClient] # "up" /\ MayRetry
  THEN numRetried' = numRetried + 1 /\ timers' = timers + 1
  ELSE UNCHANGED retrying

\* The connection of a client the binding has not ended is lost, or an attempt of
\* it fails without an 'error'; the client will try again.
Lose(i) ==
  /\ process # "crashed"
  /\ client[i] \in {"down", "up"}
  /\ Fault
  /\ client' = [client EXCEPT ![i] = "down"]
  /\ OnClose
  /\ unended' = "yes"
  /\ UNCHANGED <<mqttClient, mqttConn, topics, process>>

\* The last 'close' of a client that has been ended.
Close(i) ==
  /\ process # "crashed"
  /\ client[i] = "ending"
  /\ client' = [client EXCEPT ![i] = "closed"]
  /\ OnClose
  /\ UNCHANGED <<mqttClient, mqttConn, topics, process, unended, faults>>

\* stop unsubscribes and ends mqttClient; without one, reading its end is a TypeError.
Stop ==
  \/ /\ process = "running"
     /\ process' = "stopping"
     /\ subscribed' = subscribed \ {mqttClient}
     /\ client' = Ended(mqttClient)
     /\ UNCHANGED <<mqttClient, mqttConn, retrying, subscribing, refused, unended, faults>>
  \/ /\ process = "off"
     /\ process' = "crashed"
     /\ UNCHANGED <<client, mqttClient, mqttConn, retrying, topics, unended, faults>>

\* The callback of end clears mqttConn and calls the callback of stop.
EndCallback ==
  /\ process = "stopping"
  /\ process' = "stopped"
  /\ mqttConn' = 0
  /\ UNCHANGED <<client, mqttClient, retrying, topics, unended, faults>>

Next ==
  \/ Start
  \/ TimerFires
  \/ \E i \in Client : Connect(i) \/ SubscribeAnswered(i) \/ Error(i) \/ Lose(i) \/ Close(i)
  \/ Stop
  \/ EndCallback

Spec == Init /\ [][Next]_vars

\* Timers fire, ended clients close, and once the faults are over a client that tries
\* to connect does and a subscribe is answered.  Nothing forces a stop.
Fairness ==
  /\ WF_vars(TimerFires)
  /\ WF_vars(EndCallback)
  /\ \A i \in Client : WF_vars(Connect(i)) /\ WF_vars(SubscribeAnswered(i)) /\ WF_vars(Close(i))

FairSpec == Spec /\ Fairness

-----------------------------------------------------------------------------
Active == {i \in Client : client[i] \in {"down", "up"}}

\* As long as every connection that closed had been ended, there is at most one client
\* that is connected or trying to be: clients pile up, each with the agent's topics,
\* only by 'close' events of clients that also reconnect by themselves.  ('error' and
\* 'close' handlers, createConnection)
OneClientIfEnded == unended = "no" => \A i, j \in Active : i = j

\* While the binding runs, a connected mqttClient has its topics or is waiting for
\* them, unless its last subscribe was refused; the clients that were there before it
\* never take its turn.  ('connect' handler, recreateSubscriptions)
ConnectedListens ==
  process = "running" /\ mqttClient # 0 /\ client[mqttClient] = "up"
    => mqttClient \in subscribed \union subscribing \union refused

\* The binding comes back after an outage, unless its retries are used up, it is
\* stopped, or the bound on clients is reached.  ('close' handler, TimerFires)
Recovers ==
  process = "running" ~>
    \/ mqttClient # 0 /\ client[mqttClient] = "up"
    \/ process # "running"
    \/ numRetried > Retries
    \/ mqttClient = MaxClients

\* What usermanual.md says of stop, and the comment of the 'close' handler of mqttConn:
\* once stop has called back, the binding makes no connection.
StopReleases == [][process = "stopped" => mqttClient' = mqttClient]_vars
=============================================================================
