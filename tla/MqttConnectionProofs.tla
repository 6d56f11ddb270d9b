------------------------ MODULE MqttConnectionProofs ------------------------
(***************************************************************************)
(* The clients of the MQTT binding, for every number of retries, of        *)
(* clients and of faults.                                                  *)
(***************************************************************************)
EXTENDS MqttConnection, TLAPS

USE MqttConnectionAssumption

\* A client exists once mqttClient has reached its number.
Made == \A i \in Client : client[i] # "none" => mqttClient \in Client /\ i <= mqttClient

\* end changes only a client that is trying to connect or connected.
LEMMA EndedState ==
  ASSUME client \in [Client -> ClientState], NEW j
  PROVE  /\ Ended(j) \in [Client -> ClientState]
         /\ \A i \in Client : i # j => Ended(j)[i] = client[i]
         /\ j \in Client => Ended(j)[j] \notin {"down", "up"}
         /\ \A i \in Client : Ended(j)[i] = "none" <=> client[i] = "none"
BY DEF Ended, ClientState

\* The types hold in every state, and no client appears out of order.
LEMMA TypeInvariant == Spec => [](TypeOK /\ Made)
<1>1. Init => TypeOK /\ Made
  BY DEF Init, TypeOK, Made, Client, ClientState, Process, FirstTry
<1>2. TypeOK /\ Made /\ [Next]_vars => TypeOK' /\ Made'
  <2> SUFFICES ASSUME TypeOK, Made, [Next]_vars PROVE TypeOK' /\ Made'
    OBVIOUS
  <2> USE DEF TypeOK, Made, Fault, retrying, topics
  <2>1. CASE Start
    BY <2>1 DEF Start, CreateConnection, Client, ClientState, Process
  <2>2. CASE TimerFires
    BY <2>2 DEF TimerFires, CreateConnection, Client, ClientState
  <2>3. ASSUME NEW i \in Client, Connect(i) PROVE TypeOK' /\ Made'
    <3>1. mqttClient \in Client
      BY <2>3 DEF Connect
    <3>2. subscribing' \in SUBSET Client
      BY <2>3, <3>1 DEF Connect, Resubscribe
    <3>3. client' \in [Client -> ClientState] /\ Made'
      BY <2>3, <3>1 DEF Connect, ClientState
    <3>4. numRetried' \in Nat \ {0}
      BY <2>3 DEF Connect, FirstTry
    <3> QED
      BY <2>3, <3>2, <3>3, <3>4 DEF Connect
  <2>4. ASSUME NEW i \in Client, SubscribeAnswered(i) PROVE TypeOK' /\ Made'
    BY <2>4 DEF SubscribeAnswered
  <2>5. ASSUME NEW i \in Client, Error(i) PROVE TypeOK' /\ Made'
    <3>1. client' = Ended(mqttClient)
      BY <2>5 DEF Error, EndOnError
    <3>2. client' \in [Client -> ClientState] /\ Made'
      BY <2>5, <3>1, EndedState DEF Error
    <3> QED
      BY <2>5, <3>2 DEF Error
  <2>6. ASSUME NEW i \in Client, Lose(i) PROVE TypeOK' /\ Made'
    <3>1. client' \in [Client -> ClientState] /\ Made'
      BY <2>6 DEF Lose, ClientState
    <3>2. numRetried' \in Nat \ {0} /\ timers' \in Nat
      BY <2>6 DEF Lose, OnClose
    <3> QED
      BY <2>6, <3>1, <3>2 DEF Lose
  <2>7. ASSUME NEW i \in Client, Close(i) PROVE TypeOK' /\ Made'
    <3>1. client' \in [Client -> ClientState] /\ Made'
      BY <2>7 DEF Close, ClientState
    <3>2. numRetried' \in Nat \ {0} /\ timers' \in Nat
      BY <2>7 DEF Close, OnClose
    <3> QED
      BY <2>7, <3>1, <3>2 DEF Close
  <2>8. CASE Stop
    <3>1. client' = client \/ client' = Ended(mqttClient)
      BY <2>8 DEF Stop
    <3>2. client' \in [Client -> ClientState] /\ Made'
      BY <2>8, <3>1, EndedState DEF Stop
    <3> QED
      BY <2>8, <3>2 DEF Stop, Process
  <2>9. CASE EndCallback
    BY <2>9 DEF EndCallback, Process
  <2>10. CASE UNCHANGED vars
    BY <2>10 DEF vars
  <2> QED
    BY <2>1, <2>2, <2>3, <2>4, <2>5, <2>6, <2>7, <2>8, <2>9, <2>10 DEF Next
<1> QED
  BY <1>1, <1>2, PTL DEF Spec

\* Every variable keeps its type.
THEOREM TypeCorrect == Spec => []TypeOK
BY TypeInvariant, PTL

-----------------------------------------------------------------------------
\* The strengthening of OneClientIfEnded: while every closed client had been ended,
\* the clients before mqttClient are closed, and a timer is pending only when
\* mqttClient is closed as well.
Succession ==
  unended = "no" =>
    /\ \A i \in Client : i < mqttClient => client[i] = "closed"
    /\ timers \in {0, 1}
    /\ timers = 1 => mqttClient \in Client /\ client[mqttClient] = "closed"
    /\ process = "idle" => mqttClient = 0 /\ timers = 0

\* Succession is an invariant: only the last 'close' of mqttClient sets a timer.
LEMMA SuccessionInvariant == Spec => []Succession
<1>1. Init => Succession
  BY DEF Init, Succession, Client
<1>2. TypeOK /\ Made /\ Succession /\ [Next]_vars => Succession'
  <2> SUFFICES ASSUME TypeOK, Made, Succession, [Next]_vars, unended' = "no"
               PROVE  Succession'
    BY DEF Succession
  <2> USE DEF TypeOK, Made, Succession, Client, retrying, topics
  <2>1. CASE Start
    BY <2>1 DEF Start, CreateConnection
  <2>2. CASE TimerFires
    BY <2>2 DEF TimerFires, CreateConnection
  <2>3. ASSUME NEW i \in Client, Connect(i) PROVE Succession'
    BY <2>3 DEF Connect
  <2>4. ASSUME NEW i \in Client, SubscribeAnswered(i) PROVE Succession'
    BY <2>4 DEF SubscribeAnswered
  <2>5. ASSUME NEW i \in Client, Error(i) PROVE Succession'
    <3>1. client' = Ended(mqttClient) /\ client[i] \in {"down", "up"}
      BY <2>5 DEF Error, EndOnError
    <3>2. i = mqttClient
      BY <2>5, <3>1 DEF Error
    <3> QED
      BY <2>5, <3>1, <3>2, EndedState DEF Error
  <2>6. ASSUME NEW i \in Client, Lose(i) PROVE Succession'
    BY <2>6 DEF Lose
  <2>7. ASSUME NEW i \in Client, Close(i) PROVE Succession'
    <3>1. unended = "no" /\ client[i] = "ending"
      BY <2>7 DEF Close
    <3>2. i = mqttClient /\ timers = 0
      BY <3>1
    <3>3. timers' \in {0, 1}
      BY <2>7, <3>2 DEF Close, OnClose
    <3>4. client' = [client EXCEPT ![mqttClient] = "closed"] /\ UNCHANGED <<mqttClient, process>>
      BY <2>7, <3>2 DEF Close
    <3>5. process # "idle"
      BY <3>1, <3>2
    <3> QED
      BY <3>1, <3>2, <3>3, <3>4, <3>5
  <2>8. CASE Stop
    <3>1. UNCHANGED <<mqttClient, timers, unended>> /\ process' # "idle"
      BY <2>8 DEF Stop
    <3>2. client' = client \/ client' = Ended(mqttClient)
      BY <2>8 DEF Stop
    <3>3. \A i \in Client : client[i] = "closed" => client'[i] = "closed"
      BY <3>2 DEF Ended
    <3> QED
      BY <3>1, <3>3
  <2>9. CASE EndCallback
    BY <2>9 DEF EndCallback
  <2>10. CASE UNCHANGED vars
    BY <2>10 DEF vars
  <2> QED
    BY <2>1, <2>2, <2>3, <2>4, <2>5, <2>6, <2>7, <2>8, <2>9, <2>10 DEF Next
<1> QED
  BY <1>1, <1>2, TypeInvariant, PTL DEF Spec

\* As long as every connection that closed had been ended, at most one client is
\* connected or trying to be.  ('error' and 'close' handlers, createConnection)
THEOREM AtMostOneClient == Spec => []OneClientIfEnded
<1>1. TypeOK /\ Made /\ Succession => OneClientIfEnded
  BY DEF TypeOK, Made, Succession, OneClientIfEnded, Active, Client
<1> QED
  BY <1>1, TypeInvariant, SuccessionInvariant, PTL

-----------------------------------------------------------------------------
\* While the binding runs, a connected mqttClient has its topics, waits for them, or
\* was refused them.  ('connect' handler, recreateSubscriptions)
THEOREM ConnectedHasTopics == Spec => []ConnectedListens
<1>1. Init => ConnectedListens
  BY DEF Init, ConnectedListens
<1>2. TypeOK /\ Made /\ ConnectedListens /\ [Next]_vars => ConnectedListens'
  <2> SUFFICES ASSUME TypeOK, ConnectedListens, [Next]_vars PROVE ConnectedListens'
    OBVIOUS
  <2> USE DEF TypeOK, ConnectedListens, retrying, topics
  <2>1. CASE Start
    BY <2>1 DEF Start, CreateConnection, Client
  <2>2. CASE TimerFires
    BY <2>2 DEF TimerFires, CreateConnection, Client
  <2>3. ASSUME NEW i \in Client, Connect(i) PROVE ConnectedListens'
    BY <2>3 DEF Connect, Resubscribe
  <2>4. ASSUME NEW i \in Client, SubscribeAnswered(i) PROVE ConnectedListens'
    BY <2>4 DEF SubscribeAnswered
  <2>5. ASSUME NEW i \in Client, Error(i) PROVE ConnectedListens'
    <3>1. client'[mqttClient] = "up" /\ mqttClient # 0 => client[mqttClient] = "up"
      BY <2>5 DEF Error, EndOnError, Ended, Client
    <3> QED
      BY <2>5, <3>1 DEF Error
  <2>6. ASSUME NEW i \in Client, Lose(i) PROVE ConnectedListens'
    BY <2>6 DEF Lose, Client
  <2>7. ASSUME NEW i \in Client, Close(i) PROVE ConnectedListens'
    BY <2>7 DEF Close, Client
  <2>8. CASE Stop
    BY <2>8 DEF Stop
  <2>9. CASE EndCallback
    BY <2>9 DEF EndCallback
  <2>10. CASE UNCHANGED vars
    BY <2>10 DEF vars
  <2> QED
    BY <2>1, <2>2, <2>3, <2>4, <2>5, <2>6, <2>7, <2>8, <2>9, <2>10 DEF Next
<1> QED
  BY <1>1, <1>2, TypeInvariant, PTL DEF Spec
=============================================================================
