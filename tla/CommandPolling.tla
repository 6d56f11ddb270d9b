--------------------------- MODULE CommandPolling ---------------------------
(***************************************************************************)
(* The commands of one HTTP device that has no endpoint: the Context       *)
(* Broker notifies them, the agent stores them in the command registry of  *)
(* iotagent-node-lib, the device polls them with getCmd=1 and posts their  *)
(* results to .../commands.                                                *)
(*                                                                         *)
(* Every call to the library is asynchronous, so each handler is split     *)
(* where the code hands a callback to the library: what runs between two   *)
(* such calls is one action.  The registry (a MongoDB collection) and the  *)
(* attribute <name>_status of the entity in the Context Broker are         *)
(* external; they keep their contents when the agent restarts.             *)
(***************************************************************************)
EXTENDS Naturals

CONSTANTS
  Command,      \* command executions requested for the device
  Name,         \* names of the commands of the device
  NameOf,       \* the name of each command
  Blank,        \* commands whose value is empty once trimmed
  Poll,         \* polling requests that may be in progress at a time
  RemovesAll,   \* does removeCommand drop every entry of a name, or the oldest?
  MaxFaults     \* bound on failed calls, lost replies and restarts

ASSUME CommandPollingAssumption ==
  /\ NameOf \in [Command -> Name]
  /\ Blank \subseteq Command
  /\ RemovesAll \in BOOLEAN
  /\ MaxFaults \in Nat

VARIABLES
  note,       \* per command: how far notificationHandler has come with it
  queue,      \* commands in the registry
  stamp,      \* order in which the registry received them
  clock,      \* the next stamp
  status,     \* per name: attribute <name>_status in the Context Broker
  poll,       \* per polling request: "idle", "reading" or "updating"
  marking,    \* per polling request: DELIVERED updates not yet answered
  cleaning,   \* per polling request: removals not yet answered
  inbox,      \* commands the device has received and not yet executed
  reporting,  \* results posted by the device and not yet written
  listed,     \* history: commands some reply was computed from
  replied,    \* history: commands whose value some reply carried
  faults

registry == <<queue, stamp, clock>>
polling  == <<poll, marking, cleaning>>
device   == <<inbox, reporting>>
history  == <<listed, replied>>
vars == <<note, registry, status, polling, device, history, faults>>

NoteStage == {"new", "effects", "storing", "stored", "failed"}
Status    == {"UNKNOWN", "PENDING", "DELIVERED", "OK"}

TypeOK ==
  /\ note \in [Command -> NoteStage]
  /\ queue \in SUBSET Command
  /\ stamp \in [Command -> Nat]
  /\ clock \in Nat
  /\ status \in [Name -> Status]
  /\ poll \in [Poll -> {"idle", "reading", "updating"}]
  /\ marking \in [Poll -> SUBSET Command]
  /\ cleaning \in [Poll -> SUBSET Command]
  /\ inbox \in SUBSET Command
  /\ reporting \in SUBSET Command
  /\ listed \in SUBSET Command
  /\ replied \in SUBSET Command
  /\ faults \in Nat

Init ==
  /\ note = [c \in Command |-> "new"]
  /\ queue = {}
  /\ stamp = [c \in Command |-> 0]
  /\ clock = 0
  /\ status = [n \in Name |-> "UNKNOWN"]
  /\ poll = [p \in Poll |-> "idle"]
  /\ marking = [p \in Poll |-> {}]
  /\ cleaning = [p \in Poll |-> {}]
  /\ inbox = {}
  /\ reporting = {}
  /\ listed = {}
  /\ replied = {}
  /\ faults = 0

\* One more call fails, or one more message is lost.
Fault == faults < MaxFaults /\ faults' = faults + 1

-----------------------------------------------------------------------------
(* The notification of a command: notificationHandler.                     *)

\* The handler looks for the apikey (an error there ends it) and asks the
\* library for the side effects of the command.
Notify(c) ==
  /\ note[c] = "new"
  /\ \/ note' = [note EXCEPT ![c] = "effects"] /\ UNCHANGED faults
     \/ note' = [note EXCEPT ![c] = "failed"] /\ Fault
  /\ UNCHANGED <<registry, status, polling, device, history>>

\* A wrong SideEffects, for the mutant runs: the write is not awaited.
SideEffectsNotAwaited(c) ==
  /\ note[c] \in {"effects", "storing", "stored"}
  /\ note' = [note EXCEPT ![c] = IF @ = "effects" THEN "storing" ELSE @]
  /\ status' = [status EXCEPT ![NameOf[c]] = "PENDING"]
  /\ UNCHANGED <<faults, registry, polling, device, history>>

\* executeUpdateSideEffects writes PENDING; its callback ignores the outcome,
\* finds no endpoint and calls storePollNotifications.
SideEffects(c) ==
  /\ note[c] = "effects"
  /\ note' = [note EXCEPT ![c] = "storing"]
  /\ \/ status' = [status EXCEPT ![NameOf[c]] = "PENDING"] /\ UNCHANGED faults
     \/ UNCHANGED status /\ Fault
  /\ UNCHANGED <<registry, polling, device, history>>

\* A wrong AddCommand: an entry takes the place of those of its name.
AddCommandReplaces(c) ==
  /\ queue' = {d \in queue : NameOf[d] # NameOf[c]} \union {c}
  /\ stamp' = [stamp EXCEPT ![c] = clock]
  /\ clock' = clock + 1

\* The entry reaches the registry, behind those already there.
AddCommand(c) ==
  /\ queue' = queue \union {c}
  /\ stamp' = [stamp EXCEPT ![c] = clock]
  /\ clock' = clock + 1

\* addCommand of storePollNotifications.
Store(c) ==
  /\ note[c] = "storing"
  /\ \/ /\ note' = [note EXCEPT ![c] = "stored"]
        /\ AddCommand(c)
        /\ UNCHANGED faults
     \/ /\ note' = [note EXCEPT ![c] = "failed"]
        /\ Fault
        /\ UNCHANGED registry
  /\ UNCHANGED <<status, polling, device, history>>

-----------------------------------------------------------------------------
(* A request of the device with getCmd=1: returnCommands.                  *)

StartPoll(p) ==
  /\ poll[p] = "idle"
  /\ poll' = [poll EXCEPT ![p] = "reading"]
  /\ UNCHANGED <<note, registry, status, marking, cleaning, device, history, faults>>

\* A wrong ReplyBody: a value must come strictly after itself.
ReplyBodyStrict(list) ==
  {c \in list \ Blank :
     \A d \in list \ Blank : NameOf[d] = NameOf[c] => stamp[d] < stamp[c]}

\* parseCommand drops blank values and concatCommand keeps, for each name, the
\* last of those that remain.
ReplyBody(list) ==
  {c \in list \ Blank :
     \A d \in list \ Blank : NameOf[d] = NameOf[c] => stamp[d] <= stamp[c]}

\* The commands updateCommandStatus updates, and those it removes: the whole list.
\* Wrong versions: nothing is updated; only what the reply carried is removed.
UpdatesNothing(list) == {}

RemovesReplied(list) == ReplyBody(list)

ToUpdate(list) == list

ToRemove(list) == list

\* The registry answers with the list of the device.  The reply leaves with its
\* body, and nextTick starts the DELIVERED updates and the removals of the whole
\* list in parallel.  The reply may be lost on its way to the device.
Reply(p) ==
  /\ poll[p] = "reading"
  /\ queue # {}
  /\ poll' = [poll EXCEPT ![p] = "updating"]
  /\ marking' = [marking EXCEPT ![p] = ToUpdate(queue)]
  /\ cleaning' = [cleaning EXCEPT ![p] = ToRemove(queue)]
  /\ listed' = listed \union queue
  /\ replied' = replied \union ReplyBody(queue)
  /\ \/ inbox' = inbox \union ReplyBody(queue) /\ UNCHANGED faults
     \/ UNCHANGED inbox /\ Fault
  /\ UNCHANGED <<note, registry, status, reporting>>

\* An empty list, or an error of the registry, is answered with {}.
EmptyReply(p) ==
  /\ poll[p] = "reading"
  /\ \/ queue = {} /\ UNCHANGED faults
     \/ queue # {} /\ Fault
  /\ poll' = [poll EXCEPT ![p] = "idle"]
  /\ UNCHANGED <<note, registry, status, marking, cleaning, device, history>>

\* setCommandResult of createCommandUpdate is answered.
MarkDelivered(p, c) ==
  /\ c \in marking[p]
  /\ marking' = [marking EXCEPT ![p] = @ \ {c}]
  /\ \/ status' = [status EXCEPT ![NameOf[c]] = "DELIVERED"] /\ UNCHANGED faults
     \/ UNCHANGED status /\ Fault
  /\ UNCHANGED <<note, registry, poll, cleaning, device, history>>

\* A wrong RemovedBy: the condition of the removal has no name.
RemovedByDevice(n) == queue

\* What removeCommand takes out of the registry: it is given a name.
RemovedBy(n) ==
  LET sameName == {d \in queue : NameOf[d] = n}
  IN  IF RemovesAll THEN sameName
      ELSE {d \in sameName : \A e \in sameName : stamp[d] <= stamp[e]}

\* removeCommand of cleanCommand is answered.
RemoveCommand(p, c) ==
  /\ c \in cleaning[p]
  /\ cleaning' = [cleaning EXCEPT ![p] = @ \ {c}]
  /\ \/ queue' = queue \ RemovedBy(NameOf[c]) /\ UNCHANGED faults
     \/ UNCHANGED queue /\ Fault
  /\ UNCHANGED <<note, stamp, clock, status, poll, marking, device, history>>

\* The callback of async.parallel only logs.
EndPoll(p) ==
  /\ poll[p] = "updating"
  /\ marking[p] = {}
  /\ cleaning[p] = {}
  /\ poll' = [poll EXCEPT ![p] = "idle"]
  /\ UNCHANGED <<note, registry, status, marking, cleaning, device, history, faults>>

-----------------------------------------------------------------------------
(* The device, and its result: handleIncomingMeasure of a command result.  *)

PostResult(c) ==
  /\ c \in inbox
  /\ inbox' = inbox \ {c}
  /\ reporting' = reporting \union {c}
  /\ UNCHANGED <<note, registry, status, polling, history, faults>>

\* COMMAND_STATUS_COMPLETED, and what a misspelt constant would write.
Misspelt == "undefined"

Completed == "OK"

\* setCommandResult with the status OK is answered.
WriteResult(c) ==
  /\ c \in reporting
  /\ reporting' = reporting \ {c}
  /\ \/ status' = [status EXCEPT ![NameOf[c]] = Completed] /\ UNCHANGED faults
     \/ UNCHANGED status /\ Fault
  /\ UNCHANGED <<note, registry, polling, inbox, history>>

-----------------------------------------------------------------------------
\* The process ends and starts again: every handler in progress is gone, the
\* registry and the Context Broker are not.
Restart ==
  /\ Fault
  /\ note' = [c \in Command |->
                IF note[c] \in {"effects", "storing"} THEN "failed" ELSE note[c]]
  /\ poll' = [p \in Poll |-> "idle"]
  /\ marking' = [p \in Poll |-> {}]
  /\ cleaning' = [p \in Poll |-> {}]
  /\ reporting' = {}
  /\ UNCHANGED <<registry, status, inbox, history>>

Next ==
  \/ \E c \in Command :
       \/ Notify(c) \/ SideEffects(c) \/ Store(c)
       \/ PostResult(c) \/ WriteResult(c)
       \/ \E p \in Poll : MarkDelivered(p, c) \/ RemoveCommand(p, c)
  \/ \E p \in Poll : StartPoll(p) \/ Reply(p) \/ EmptyReply(p) \/ EndPoll(p)
  \/ Restart

Spec == Init /\ [][Next]_vars

\* Every call the agent makes is answered, and the device keeps polling.  The
\* device need not answer a command, and nothing forces a notification.
Fairness ==
  /\ \A c \in Command :
       /\ WF_vars(SideEffects(c))
       /\ WF_vars(Store(c))
       /\ WF_vars(WriteResult(c))
  /\ \A p \in Poll :
       /\ WF_vars(StartPoll(p))
       /\ WF_vars(Reply(p) \/ EmptyReply(p))
       /\ WF_vars(EndPoll(p))
       /\ \A c \in Command : WF_vars(MarkDelivered(p, c)) /\ WF_vars(RemoveCommand(p, c))

FairSpec == Spec /\ Fairness

-----------------------------------------------------------------------------
DistinctNames == \A c, d \in Command : NameOf[c] = NameOf[d] => c = d

Stored == {c \in Command : note[c] = "stored"}

\* A stored command leaves the registry only for a poll that listed a command of
\* its name: removals and concurrent polls never reach the commands of a name no
\* reply was computed from.  (returnCommands, cleanCommand)
NameCovered ==
  \A c \in Stored : c \in queue \/ \E d \in listed : NameOf[d] = NameOf[c]

\* A stored command with a value is still in the registry, or a reply has carried
\* it or a later value of its name.  With one command of each name this holds
\* whatever polls overlap, calls fail and restarts happen; with two of one name it
\* does not: see the run polling_lost.  (returnCommands)
NoCommandLost ==
  \A c \in Stored \ Blank :
    \/ c \in queue
    \/ \E d \in replied : NameOf[d] = NameOf[c] /\ stamp[c] <= stamp[d]

\* The PENDING written when a command is notified never lands on a later state of
\* that command: the command is not stored before the write has been answered.
\* (notificationHandler: executeUpdateSideEffects before storePollNotifications)
PendingNeverReturns ==
  [][\A n \in Name : status[n] \in {"DELIVERED", "OK"} => status'[n] # "PENDING"]_vars

\* While nothing has failed, a command whose reply is out and whose DELIVERED
\* updates have been answered is no longer shown as PENDING.  (updateCommandStatus)
SettledNotPending ==
  \A c \in listed :
    faults = 0 /\ (\A p \in Poll : c \notin marking[p])
      => status[NameOf[c]] \in {"DELIVERED", "OK"}

\* Every stored command with a value is eventually in a reply.
EventuallyReplied == \A c \in Command \ Blank : note[c] = "stored" ~> c \in replied

\* Every stored command eventually leaves the registry, also when a removal fails
\* or the agent restarts between the reply and the removals.
EventuallyRemoved == \A c \in Command : note[c] = "stored" ~> c \notin queue

\* The agent implements the abstract mailbox for the commands that have a value.
Mailbox == INSTANCE CommandMailbox WITH
  Command   <- Command \ Blank,
  accepted  <- Stored \ Blank,
  pending   <- queue \ Blank,
  delivered <- replied

ImplementsMailbox == Mailbox!MailboxSpec
=============================================================================
