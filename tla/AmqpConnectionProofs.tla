------------------------ MODULE AmqpConnectionProofs ------------------------
(***************************************************************************)
(* What the AMQP binding keeps to for every number of retries and however  *)
(* often the broker drops the connection.                                  *)
(***************************************************************************)
EXTENDS AmqpConnection, TLAPS

USE AmqpConnectionAssumption

\* Init establishes the types, and every action keeps them.
THEOREM TypeCorrect == Spec => []TypeOK
<1>1. Init => TypeOK
  BY DEF Init, TypeOK, Setup, Kind
<1>2. TypeOK /\ [Next]_vars => TypeOK'
  <2> SUFFICES ASSUME TypeOK, [Next]_vars PROVE TypeOK'
    OBVIOUS
  <2> USE DEF TypeOK, Setup, Kind, dialling, channels, links
  <2>1. CASE Start
    BY <2>1 DEF Start, CreateConnection
  <2>2. ASSUME NEW k \in Kind, TimerFires(k) PROVE TypeOK'
    BY <2>2 DEF TimerFires, CreateConnection
  <2>3. ASSUME NEW k \in Kind, ConnectFails(k) PROVE TypeOK'
    BY <2>3 DEF ConnectFails, Retry, GiveUp
  <2>4. ASSUME NEW k \in Kind, ConnectSucceeds(k) PROVE TypeOK'
    BY <2>4 DEF ConnectSucceeds
  <2>5. CASE CreateChannel
    BY <2>5 DEF CreateChannel, SetupConn
  <2>6. CASE CreateListener
    BY <2>6 DEF CreateListener
  <2>7. ASSUME NEW c \in live, Closed(c) PROVE TypeOK'
    BY <2>7 DEF Closed, OnClose, Retry
  <2>8. CASE Stop
    BY <2>8 DEF Stop
  <2>9. CASE UNCHANGED vars
    BY <2>9 DEF vars
  <2> QED
    BY <2>1, <2>2, <2>3, <2>4, <2>5, <2>6, <2>7, <2>8, <2>9 DEF Next
<1> QED
  BY <1>1, <1>2, PTL DEF Spec

-----------------------------------------------------------------------------
\* The strengthening of OneConnection: what is up is amqpConn, or stop is closing it.
DialInv ==
  /\ TypeOK
  /\ OneConnection
  /\ \A c \in live : c = amqpConn \/ (amqpConn = 0 /\ c \in closing)
  /\ closing # {} => amqpConn = 0
  /\ setup = "idle" => Outstanding = 0 /\ live = {} /\ process = "up"

\* DialInv is an invariant: a timer is set only when an attempt has just failed or a
\* connection has just been closed, and there is never more than one of these.
LEMMA DialInvariant == Spec => []DialInv
<1>1. Init => DialInv
  BY DEF Init, DialInv, TypeOK, Setup, Kind, OneConnection, Outstanding
<1>2. TypeOK' /\ DialInv /\ [Next]_vars => DialInv'
  <2> SUFFICES ASSUME TypeOK', DialInv, [Next]_vars PROVE DialInv'
    OBVIOUS
  <2> USE DEF DialInv, TypeOK, Setup, Kind, OneConnection, Outstanding, dialling, channels, links
  <2>1. CASE Start
    BY <2>1 DEF Start, CreateConnection
  <2>2. ASSUME NEW k \in Kind, TimerFires(k) PROVE DialInv'
    BY <2>2 DEF TimerFires, CreateConnection
  <2>3. ASSUME NEW k \in Kind, ConnectFails(k) PROVE DialInv'
    BY <2>3 DEF ConnectFails, Retry, GiveUp
  <2>4. ASSUME NEW k \in Kind, ConnectSucceeds(k) PROVE DialInv'
    <3>1. live = {} /\ closing = {} /\ Outstanding = 1
      BY <2>4 DEF ConnectSucceeds
    <3>2. live' = {amqpConn'} /\ closing' = {} /\ setup' # "idle"
      BY <2>4, <3>1 DEF ConnectSucceeds
    <3>3. Outstanding' = 0
      BY <2>4, <3>1 DEF ConnectSucceeds
    <3> QED
      BY <3>2, <3>3
  <2>5. CASE CreateChannel
    BY <2>5 DEF CreateChannel
  <2>6. CASE CreateListener
    BY <2>6 DEF CreateListener
  <2>7. ASSUME NEW c \in live, Closed(c) PROVE DialInv'
    BY <2>7 DEF Closed, OnClose, Retry
  <2>8. CASE Stop
    BY <2>8 DEF Stop
  <2>9. CASE UNCHANGED vars
    BY <2>9 DEF vars
  <2> QED
    BY <2>1, <2>2, <2>3, <2>4, <2>5, <2>6, <2>7, <2>8, <2>9 DEF Next
<1> QED
  BY <1>1, <1>2, TypeCorrect, PTL DEF Spec

\* The binding never dials twice at a time, never dials while it is connected and
\* never has two connections.  (createConnection, the 'close' handler, stop)
THEOREM AtMostOneConnection == Spec => []OneConnection
<1>1. DialInv => OneConnection
  BY DEF DialInv
<1> QED
  BY <1>1, DialInvariant, PTL

\* The early return of createConnection, taken when isConnecting holds, is never
\* taken: no timer is pending while an attempt is in progress.
GuardIdle == attempts["first"] + attempts["again"] > 0 => \A k \in Kind : timers[k] = 0

\* GuardIdle follows from there being one timer or attempt at a time.
THEOREM ConnectingGuardIdle == Spec => []GuardIdle
<1>1. DialInv => GuardIdle
  BY DEF DialInv, TypeOK, Kind, OneConnection, Outstanding, GuardIdle
<1> QED
  BY <1>1, DialInvariant, PTL

\* The strengthening of GivesUpLast: the flag is set during an attempt only, what is up
\* is amqpConn, and with nothing up or under way no retry is left.
GiveUpInv ==
  process = "up" =>
    /\ isConnecting = "yes" => attempts["first"] + attempts["again"] > 0
    /\ live # {} => amqpConn # 0
    /\ setup \notin {"idle", "off"} /\ live = {} /\ Outstanding = 0 => ~ MayRetry
    /\ setup \in {"idle", "off"} => live = {} /\ Outstanding = 0

\* GiveUpInv is an invariant: an attempt that fails and a connection that ends leave a
\* timer behind while retries are left.
LEMMA GiveUpInvariant == Spec => []GiveUpInv
<1>1. Init => GiveUpInv
  BY DEF Init, GiveUpInv, Outstanding, Kind
<1>2. DialInv /\ TypeOK' /\ GiveUpInv /\ [Next]_vars => GiveUpInv'
  <2> SUFFICES ASSUME DialInv, TypeOK', GiveUpInv, [Next]_vars, process' = "up"
               PROVE  GiveUpInv'
    BY DEF GiveUpInv
  <2> USE DEF GiveUpInv, DialInv, TypeOK, Kind, Outstanding, MayRetry, dialling, channels, links
  <2>1. CASE Start
    BY <2>1 DEF Start, CreateConnection, OneConnection
  <2>2. ASSUME NEW k \in Kind, TimerFires(k) PROVE GiveUpInv'
    BY <2>2 DEF TimerFires, CreateConnection, OneConnection
  <2>3. ASSUME NEW k \in Kind, ConnectFails(k) PROVE GiveUpInv'
    BY <2>3 DEF ConnectFails, Retry, GiveUp, OneConnection
  <2>4. ASSUME NEW k \in Kind, ConnectSucceeds(k) PROVE GiveUpInv'
    BY <2>4 DEF ConnectSucceeds, OneConnection
  <2>5. CASE CreateChannel
    BY <2>5 DEF CreateChannel
  <2>6. CASE CreateListener
    BY <2>6 DEF CreateListener
  <2>7. ASSUME NEW c \in live, Closed(c) PROVE GiveUpInv'
    BY <2>7 DEF Closed, OnClose, Retry, OneConnection, Setup
  <2>8. CASE Stop
    BY <2>8 DEF Stop
  <2>9. CASE UNCHANGED vars
    BY <2>9 DEF vars
  <2> QED
    BY <2>1, <2>2, <2>3, <2>4, <2>5, <2>6, <2>7, <2>8, <2>9 DEF Next
<1> QED
  BY <1>1, <1>2, TypeCorrect, DialInvariant, PTL DEF Spec

\* The binding gives up only after it has set Retries timers.
\* (createConnection, the 'close' handler)
THEOREM GiveUpIsLast == Spec => []GivesUpLast
<1>1. TypeOK /\ GiveUpInv => GivesUpLast
  BY DEF TypeOK, GiveUpInv, GivesUpLast, MayRetry
<1> QED
  BY <1>1, TypeCorrect, GiveUpInvariant, PTL

\* After a stop that leaves no timer and no attempt, nothing dials again.  (stop)
THEOREM StopIsFinal == Spec => StaysClosed
<1>1. DialInv /\ [Next]_vars
        => [process = "stopped" /\ amqpConn = 0 /\ Outstanding = 0 => Outstanding' = 0]_vars
  <2> SUFFICES ASSUME DialInv, Next, process = "stopped", amqpConn = 0, Outstanding = 0
               PROVE  Outstanding' = 0
    OBVIOUS
  <2>1. timers = [k \in Kind |-> 0] /\ attempts = [k \in Kind |-> 0]
    BY DEF DialInv, TypeOK, Outstanding, Kind
  <2>2. UNCHANGED <<timers, attempts>>
    BY <2>1 DEF DialInv, TypeOK, Next, dialling, Start, TimerFires, ConnectFails,
       ConnectSucceeds, CreateChannel, CreateListener, Closed, OnClose, Stop
  <2> QED
    BY <2>2 DEF Outstanding
<1> QED
  BY <1>1, DialInvariant, PTL DEF Spec, StaysClosed

-----------------------------------------------------------------------------
\* The strengthening of ConsumersCurrent: the queues are consumed on a connection that
\* is up, and the channel they are asserted on is that of the waterfall.
ListenInv ==
  /\ setup = "queues" => amqpChannel = SetupConn
  /\ consuming \subseteq live

\* ListenInv is an invariant: a connection that ends takes its consumers with it.
LEMMA ListenInvariant == Spec => []ListenInv
<1>1. Init => ListenInv
  BY DEF Init, ListenInv
<1>2. TypeOK /\ ListenInv /\ [Next]_vars => ListenInv'
  <2> SUFFICES ASSUME TypeOK, ListenInv, [Next]_vars PROVE ListenInv'
    OBVIOUS
  <2> USE DEF ListenInv, dialling, channels, links
  <2>1. CASE Start
    BY <2>1 DEF Start
  <2>2. ASSUME NEW k \in Kind, TimerFires(k) PROVE ListenInv'
    BY <2>2 DEF TimerFires
  <2>3. ASSUME NEW k \in Kind, ConnectFails(k) PROVE ListenInv'
    BY <2>3 DEF ConnectFails, Retry, GiveUp
  <2>4. ASSUME NEW k \in Kind, ConnectSucceeds(k) PROVE ListenInv'
    BY <2>4 DEF ConnectSucceeds
  <2>5. CASE CreateChannel
    BY <2>5 DEF CreateChannel
  <2>6. CASE CreateListener
    BY <2>6 DEF CreateListener
  <2>7. ASSUME NEW c \in live, Closed(c) PROVE ListenInv'
    BY <2>7 DEF Closed
  <2>8. CASE Stop
    BY <2>8 DEF Stop
  <2>9. CASE UNCHANGED vars
    BY <2>9 DEF vars
  <2> QED
    BY <2>1, <2>2, <2>3, <2>4, <2>5, <2>6, <2>7, <2>8, <2>9 DEF Next
<1> QED
  BY <1>1, <1>2, TypeCorrect, PTL DEF Spec

\* The consumers are on the current connection, or on the one stop is closing.
\* (createListener, the 'close' handler, stop)
THEOREM ConsumersAreCurrent == Spec => []ConsumersCurrent
<1>1. DialInv /\ ListenInv => ConsumersCurrent
  BY DEF DialInv, ListenInv, ConsumersCurrent
<1> QED
  BY <1>1, DialInvariant, ListenInvariant, PTL
=============================================================================
