--------------------------- MODULE AmqpConnection ---------------------------
(***************************************************************************)
(* The connection of the AMQP binding with its broker: start, the retries  *)
(* of createConnection, the set-up of the channel and of the consumers,    *)
(* the reconnection from the 'close' handler, and stop.                    *)
(*                                                                         *)
(* The broker and amqplib are external: a connection attempt may fail, and *)
(* a connection may be dropped at any time, up to the bounds below.        *)
(*                                                                         *)
(* createConnection receives the callback of async.waterfall when it is    *)
(* called by the waterfall or by a timer of a failed attempt, and none     *)
(* when the 'close' handler sets the timer.  A pending timer or attempt is *)
(* therefore "first" (it carries the callback) or "again" (it does not).   *)
(* Connections are numbered in the order they are opened; 0 stands for the *)
(* null or undefined amqpConn and amqpChannel.                             *)
(***************************************************************************)
EXTENDS Naturals

CONSTANT Retries    \* config.amqp.retries, or its default

ASSUME AmqpConnectionAssumption == Retries \in Nat

VARIABLES
  setup,         \* the step of the waterfall of start
  isConnecting,  \* a flag of the code, "no" or "yes"
  numRetried,
  timers,        \* timers set to call createConnection, per kind
  attempts,      \* calls of amqp.connect not yet answered, per kind
  opened,        \* connections opened so far
  live,          \* connections the broker has not closed
  closing,       \* live connections stop has asked to close
  amqpConn,
  amqpChannel,   \* the connection amqpChannel belongs to
  consuming,     \* connections with the consumers of both queues
  process        \* "up", "stopped" once stop has been called, or "crashed"

dialling == <<isConnecting, numRetried, timers, attempts>>
channels == <<setup, amqpChannel, consuming>>
links    == <<opened, live, closing, amqpConn>>
vars == <<dialling, channels, links, process>>

Kind  == {"first", "again"}
Setup == {"idle", "off", "connecting", "channel", "queues", "listening", "error"}

TypeOK ==
  /\ setup \in Setup
  /\ isConnecting \in {"no", "yes"}
  /\ numRetried \in Nat
  /\ timers \in [Kind -> Nat]
  /\ attempts \in [Kind -> Nat]
  /\ opened \in Nat
  /\ live \in SUBSET (1..opened)
  /\ closing \in SUBSET live
  /\ amqpConn \in 0..opened
  /\ amqpChannel \in 0..opened
  /\ consuming \in SUBSET (0..opened)
  /\ process \in {"up", "stopped", "crashed"}

Init ==
  /\ setup = "idle"
  /\ isConnecting = "no"
  /\ numRetried = 0
  /\ timers = [k \in Kind |-> 0]
  /\ attempts = [k \in Kind |-> 0]
  /\ opened = 0
  /\ live = {}
  /\ closing = {}
  /\ amqpConn = 0
  /\ amqpChannel = 0
  /\ consuming = {}
  /\ process = "up"

-----------------------------------------------------------------------------
(* createConnection.                                                       *)

\* The call itself: nothing while another attempt is in progress.
CreateConnection(k) ==
  IF isConnecting = "yes"
  THEN UNCHANGED <<isConnecting, attempts>>
  ELSE /\ isConnecting' = "yes"
       /\ attempts' = [attempts EXCEPT ![k] = @ + 1]

\* A binding that is not configured, or disabled, calls back without a connection.
Start ==
  /\ process # "crashed"
  /\ setup = "idle"
  /\ \/ setup' = "connecting" /\ CreateConnection("first")
     \/ setup' = "off" /\ UNCHANGED <<isConnecting, attempts>>
  /\ UNCHANGED <<numRetried, timers, amqpChannel, consuming, links, process>>

TimerFires(k) ==
  /\ process # "crashed"
  /\ timers[k] > 0
  /\ timers' = [timers EXCEPT ![k] = @ - 1]
  /\ CreateConnection(k)
  /\ UNCHANGED <<numRetried, channels, links, process>>

MayRetry == numRetried <= Retries

\* Wrong versions of Retry: two timers are set; the count goes the wrong way.
RetryTwice(k) ==
  /\ MayRetry
  /\ numRetried' = numRetried + 1
  /\ timers' = [timers EXCEPT ![k] = @ + 2]

RetryCountsDown(k) ==
  /\ MayRetry
  /\ numRetried' = numRetried - 1
  /\ timers' = [timers EXCEPT ![k] = @ + 1]

\* One more timer for createConnection, while retries are left.
Retry(k) ==
  /\ MayRetry
  /\ numRetried' = numRetried + 1
  /\ timers' = [timers EXCEPT ![k] = @ + 1]

\* A wrong GiveUp: the waterfall is not told.
GiveUpSilently(k) == UNCHANGED <<setup, process>>

\* callback(err): the waterfall goes on to the callback of start.  A reconnection
\* has no callback to call, and the TypeError ends the process.
GiveUp(k) ==
  IF k = "first" THEN setup' = "error" /\ UNCHANGED process
                 ELSE process' = "crashed" /\ UNCHANGED setup

ConnectFails(k) ==
  /\ process # "crashed"
  /\ attempts[k] > 0
  /\ attempts' = [attempts EXCEPT ![k] = @ - 1]
  /\ isConnecting' = "no"
  /\ \/ Retry(k) /\ UNCHANGED <<setup, process>>
     \/ ~ MayRetry /\ GiveUp(k) /\ UNCHANGED <<numRetried, timers>>
  /\ UNCHANGED <<amqpChannel, consuming, links>>

\* The new connection becomes amqpConn, and the waterfall goes on, if there is a
\* callback, to createChannel.
ConnectSucceeds(k) ==
  /\ process # "crashed"
  /\ attempts[k] > 0
  /\ attempts' = [attempts EXCEPT ![k] = @ - 1]
  /\ isConnecting' = "no"
  /\ opened' = opened + 1
  /\ live' = live \union {opened'}
  /\ amqpConn' = opened'
  /\ setup' = IF k = "first" THEN "channel" ELSE setup
  /\ UNCHANGED <<numRetried, timers, closing, amqpChannel, consuming, process>>

-----------------------------------------------------------------------------
(* The rest of the waterfall, on the connection it has opened.             *)

\* The waterfall has one connection, the first one: only the waterfall's own
\* attempts come before it.
SetupConn == 1

\* createChannel succeeds and assertExchange and assertQueue are sent, or it fails.
CreateChannel ==
  /\ process # "crashed"
  /\ setup = "channel"
  /\ SetupConn \in live
  /\ \/ setup' = "queues" /\ amqpChannel' = SetupConn
     \/ setup' = "error" /\ UNCHANGED amqpChannel
  /\ UNCHANGED <<dialling, consuming, links, process>>

\* Both queues have been asserted: createListener binds and consumes them.
CreateListener ==
  /\ process # "crashed"
  /\ setup = "queues"
  /\ SetupConn \in live
  /\ setup' = "listening"
  /\ consuming' = consuming \union {amqpChannel}
  /\ UNCHANGED <<dialling, amqpChannel, links, process>>

-----------------------------------------------------------------------------
(* The end of a connection.                                                *)

\* Wrong versions of OnClose: it does not look at amqpConn; it leaves a connection that
\* ends during the waterfall to the waterfall, which has no retry of its own.
OnCloseAlways ==
  IF MayRetry THEN Retry("again") ELSE UNCHANGED <<numRetried, timers>>

OnCloseListening ==
  IF amqpConn # 0 /\ MayRetry /\ setup = "listening" THEN Retry("again")
  ELSE UNCHANGED <<numRetried, timers>>

\* The 'close' handler: with amqpConn null the connection was closed on purpose;
\* otherwise a reconnection, while retries are left.
OnClose ==
  IF amqpConn # 0 /\ MayRetry THEN Retry("again") ELSE UNCHANGED <<numRetried, timers>>

\* The connection ends, by the broker or because stop asked for it.  Whatever the
\* waterfall awaits on it is answered with an error.
Closed(c) ==
  /\ process # "crashed"
  /\ c \in live
  /\ live' = live \ {c}
  /\ closing' = closing \ {c}
  /\ consuming' = consuming \ {c}
  /\ setup' = IF setup \in {"channel", "queues"} /\ c = SetupConn THEN "error" ELSE setup
  /\ OnClose
  /\ UNCHANGED <<isConnecting, attempts, opened, amqpConn, amqpChannel, process>>

\* A wrong Stop: amqpConn is cleared and never closed.
StopKeepsOpen ==
  /\ process # "crashed"
  /\ setup # "idle"
  /\ process' = "stopped"
  /\ amqpConn' = 0
  /\ UNCHANGED <<dialling, channels, opened, live, closing>>

\* stop closes amqpConn, clears it, and calls back at once.
Stop ==
  /\ process # "crashed"
  /\ setup # "idle"
  /\ process' = "stopped"
  /\ closing' = closing \union (live \intersect {amqpConn})
  /\ amqpConn' = 0
  /\ UNCHANGED <<dialling, channels, opened, live>>

-----------------------------------------------------------------------------
Next ==
  \/ Start
  \/ \E k \in Kind : TimerFires(k) \/ ConnectFails(k) \/ ConnectSucceeds(k)
  \/ CreateChannel
  \/ CreateListener
  \/ \E c \in live : Closed(c)
  \/ Stop

Spec == Init /\ [][Next]_vars

\* Timers fire, and amqplib answers every call it is given: WF on the answer, not on
\* its success, so that the broker may stay down.
Fairness ==
  /\ WF_vars(Start)
  /\ \A k \in Kind : WF_vars(TimerFires(k)) /\ WF_vars(ConnectFails(k) \/ ConnectSucceeds(k))
  /\ WF_vars(CreateChannel)
  /\ WF_vars(CreateListener)

FairSpec == Spec /\ Fairness

-----------------------------------------------------------------------------
Outstanding == timers["first"] + timers["again"] + attempts["first"] + attempts["again"]

\* The binding dials or is connected, never both, and never twice: there is at most
\* one timer or attempt, none while a connection is up, and at most one connection,
\* so two brokers' connections never consume the same queues.  (createConnection,
\* the 'close' handler, stop)
OneConnection ==
  /\ Outstanding <= 1
  /\ Outstanding = 1 => live = {}
  /\ \A c, d \in live : c = d

\* Until stop, a binding that is configured stays without a connection, and without an
\* attempt or a timer to get one, only after it has set at least Retries timers: no
\* failure of an attempt, no end of a connection during the waterfall and none after
\* it makes the binding give up before that.  The timers are those of the whole life
\* of the process, which no success resets.  (createConnection, the 'close' handler)
GivesUpLast ==
  setup \notin {"idle", "off"} /\ process = "up" /\ live = {} /\ Outstanding = 0 =>
    numRetried >= Retries

\* The consumers that exist are on the current connection or on one being closed.
ConsumersCurrent == \A c \in consuming : c \in live /\ (c = amqpConn \/ c \in closing)

\* A stop that leaves no timer and no attempt outstanding is final: the 'close' event
\* of the connection it closes never dials again.  (stop, and the amqpConn test of the
\* 'close' handler; a timer or an attempt outstanding at stop does open a connection.)
StaysClosed == [][process = "stopped" /\ amqpConn = 0 /\ Outstanding = 0 => Outstanding' = 0]_vars

\* start always calls back, with or without a broker: startTransportBindings waits
\* for the callback of every binding.  (the waterfall, ConnectFails)
StartCompletes == setup = "connecting" ~> setup \in {"listening", "error"}

\* The binding consumes its queues whenever it is connected, as usermanual.md
\* describes it: until stop, a connection that stays up gets its consumers.
ConnectedListens ==
  (setup = "listening" /\ amqpConn \in live /\ process = "up")
    ~> (amqpConn \in consuming \/ amqpConn \notin live \/ process # "up")
=============================================================================
