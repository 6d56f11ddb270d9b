------------------------ MODULE CommandPollingProofs ------------------------
(***************************************************************************)
(* What CommandPolling guarantees for every set of commands, names and     *)
(* polls and any number of faults.  CommandPolling is checked by TLC on    *)
(* small instances; here the same definitions are proved.                  *)
(***************************************************************************)
EXTENDS CommandPolling, TLAPS

USE CommandPollingAssumption

\* Init establishes the types, and every action keeps them.
THEOREM TypeCorrect == Spec => []TypeOK
<1>1. Init => TypeOK
  BY DEF Init, TypeOK, NoteStage, Status
<1>2. TypeOK /\ [Next]_vars => TypeOK'
  <2> SUFFICES ASSUME TypeOK, [Next]_vars PROVE TypeOK'
    OBVIOUS
  <2> USE DEF TypeOK, NoteStage, Status, Fault, registry, polling, device, history
  <2>1. ASSUME NEW c \in Command, Notify(c) PROVE TypeOK'
    BY <2>1 DEF Notify
  <2>2. ASSUME NEW c \in Command, SideEffects(c) PROVE TypeOK'
    BY <2>2 DEF SideEffects
  <2>3. ASSUME NEW c \in Command, Store(c) PROVE TypeOK'
    BY <2>3 DEF Store, AddCommand
  <2>4. ASSUME NEW c \in Command, PostResult(c) PROVE TypeOK'
    BY <2>4 DEF PostResult
  <2>5. ASSUME NEW c \in Command, WriteResult(c) PROVE TypeOK'
    BY <2>5 DEF WriteResult, Completed
  <2>6. ASSUME NEW c \in Command, NEW p \in Poll, MarkDelivered(p, c) PROVE TypeOK'
    BY <2>6 DEF MarkDelivered
  <2>7. ASSUME NEW c \in Command, NEW p \in Poll, RemoveCommand(p, c) PROVE TypeOK'
    BY <2>7 DEF RemoveCommand
  <2>8. ASSUME NEW p \in Poll, StartPoll(p) PROVE TypeOK'
    BY <2>8 DEF StartPoll
  <2>9. ASSUME NEW p \in Poll, Reply(p) PROVE TypeOK'
    BY <2>9 DEF Reply, ReplyBody, ToUpdate, ToRemove
  <2>10. ASSUME NEW p \in Poll, EmptyReply(p) PROVE TypeOK'
    BY <2>10 DEF EmptyReply
  <2>11. ASSUME NEW p \in Poll, EndPoll(p) PROVE TypeOK'
    BY <2>11 DEF EndPoll
  <2>12. CASE Restart
    BY <2>12 DEF Restart
  <2>13. CASE UNCHANGED vars
    BY <2>13 DEF vars
  <2> QED
    BY <2>1, <2>2, <2>3, <2>4, <2>5, <2>6, <2>7, <2>8, <2>9, <2>10, <2>11, <2>12, <2>13 DEF Next
<1> QED
  BY <1>1, <1>2, PTL DEF Spec

-----------------------------------------------------------------------------
\* What is in the registry, in a reply or in the hands of a poll or of the device
\* has been stored, and a poll removes only what it has listed.
Provenance ==
  /\ queue \subseteq Stored
  /\ listed \subseteq Stored
  /\ replied \subseteq listed
  /\ inbox \subseteq replied
  /\ reporting \subseteq replied
  /\ \A p \in Poll : marking[p] \subseteq listed /\ cleaning[p] \subseteq listed

\* The inductive strengthening of NameCovered.
PollInv == TypeOK /\ Provenance /\ NameCovered

\* The invariant on which the rest of the module builds: nothing disappears from
\* the registry unless a reply was computed from a command of its name.
LEMMA PollInvariant == Spec => []PollInv
<1>1. Init => PollInv
  BY DEF Init, PollInv, TypeOK, NoteStage, Status, Provenance, NameCovered, Stored
<1>2. TypeOK' /\ PollInv /\ [Next]_vars => PollInv'
  <2> SUFFICES ASSUME TypeOK', PollInv, [Next]_vars PROVE Provenance' /\ NameCovered'
    BY DEF PollInv
  <2> USE DEF PollInv, TypeOK, Provenance, NameCovered, Stored, registry, polling, device, history
  <2>1. ASSUME NEW c \in Command, Notify(c) PROVE Provenance' /\ NameCovered'
    BY <2>1 DEF Notify
  <2>2. ASSUME NEW c \in Command, SideEffects(c) PROVE Provenance' /\ NameCovered'
    BY <2>2 DEF SideEffects
  <2>3. ASSUME NEW c \in Command, Store(c) PROVE Provenance' /\ NameCovered'
    BY <2>3 DEF Store, AddCommand
  <2>4. ASSUME NEW c \in Command, PostResult(c) PROVE Provenance' /\ NameCovered'
    BY <2>4 DEF PostResult
  <2>5. ASSUME NEW c \in Command, WriteResult(c) PROVE Provenance' /\ NameCovered'
    BY <2>5 DEF WriteResult
  <2>6. ASSUME NEW c \in Command, NEW p \in Poll, MarkDelivered(p, c)
        PROVE Provenance' /\ NameCovered'
    BY <2>6 DEF MarkDelivered
  <2>7. ASSUME NEW c \in Command, NEW p \in Poll, RemoveCommand(p, c)
        PROVE Provenance' /\ NameCovered'
    <3>1. RemovedBy(NameOf[c]) \subseteq {d \in queue : NameOf[d] = NameOf[c]}
      BY DEF RemovedBy
    <3>2. c \in listed
      BY <2>7 DEF RemoveCommand
    <3>3. queue' = queue \ RemovedBy(NameOf[c]) \/ queue' = queue
      BY <2>7 DEF RemoveCommand
    <3>4. UNCHANGED <<note, marking, device, history>>
      BY <2>7 DEF RemoveCommand
    <3>5. cleaning' = [cleaning EXCEPT ![p] = @ \ {c}]
      BY <2>7 DEF RemoveCommand
    <3>6. Provenance'
      BY <3>3, <3>4, <3>5
    <3>7. NameCovered'
      BY <3>1, <3>2, <3>3, <3>4
    <3> QED
      BY <3>6, <3>7
  <2>8. ASSUME NEW p \in Poll, StartPoll(p) PROVE Provenance' /\ NameCovered'
    BY <2>8 DEF StartPoll
  <2>9. ASSUME NEW p \in Poll, Reply(p) PROVE Provenance' /\ NameCovered'
    <3>1. ReplyBody(queue) \subseteq queue
      BY DEF ReplyBody
    <3>2. /\ listed' = listed \union queue
          /\ replied' = replied \union ReplyBody(queue)
          /\ inbox' = inbox \union ReplyBody(queue) \/ inbox' = inbox
          /\ marking' = [marking EXCEPT ![p] = queue]
          /\ cleaning' = [cleaning EXCEPT ![p] = queue]
          /\ UNCHANGED <<note, queue, reporting>>
      BY <2>9 DEF Reply, ToUpdate, ToRemove
    <3>3. Provenance'
      BY <3>1, <3>2
    <3>4. NameCovered'
      BY <3>2
    <3> QED
      BY <3>3, <3>4
  <2>10. ASSUME NEW p \in Poll, EmptyReply(p) PROVE Provenance' /\ NameCovered'
    BY <2>10 DEF EmptyReply
  <2>11. ASSUME NEW p \in Poll, EndPoll(p) PROVE Provenance' /\ NameCovered'
    BY <2>11 DEF EndPoll
  <2>12. CASE Restart
    BY <2>12 DEF Restart
  <2>13. CASE UNCHANGED vars
    BY <2>13 DEF vars
  <2> QED
    BY <2>1, <2>2, <2>3, <2>4, <2>5, <2>6, <2>7, <2>8, <2>9, <2>10, <2>11, <2>12, <2>13 DEF Next
<1> QED
  BY <1>1, <1>2, TypeCorrect, PTL DEF Spec

\* A removal, which is given only a name, never reaches the commands of a name
\* that no reply was computed from.  (returnCommands, cleanCommand)
THEOREM NamesAreCovered == Spec => []NameCovered
<1>1. PollInv => NameCovered
  BY DEF PollInv
<1> QED
  BY <1>1, PollInvariant, PTL

-----------------------------------------------------------------------------
(* From here on the commands of the device have distinct names.            *)

\* Then a reply carries everything that has a value in its list.
LEMMA ReplyIsWholeList ==
  ASSUME DistinctNames, stamp \in [Command -> Nat], NEW list \in SUBSET Command
  PROVE  ReplyBody(list) = list \ Blank
BY DEF DistinctNames, ReplyBody

\* ... and a removal takes out at most the command it is meant for.
LEMMA RemovesOnlyItsCommand ==
  ASSUME DistinctNames, TypeOK, NEW c \in Command
  PROVE  RemovedBy(NameOf[c]) = queue \intersect {c}
BY DEF DistinctNames, TypeOK, RemovedBy

\* Whatever has been listed and has a value has been replied.
ListedIsReplied == listed \ Blank \subseteq replied

\* ListedIsReplied is an invariant: a reply lists and carries the same commands.
LEMMA ListedReplied == ASSUME DistinctNames PROVE Spec => []ListedIsReplied
<1>1. Init => ListedIsReplied
  BY DEF Init, ListedIsReplied
<1>2. TypeOK /\ ListedIsReplied /\ [Next]_vars => ListedIsReplied'
  <2> SUFFICES ASSUME TypeOK, ListedIsReplied, [Next]_vars PROVE ListedIsReplied'
    OBVIOUS
  <2>1. ASSUME NEW p \in Poll, Reply(p) PROVE ListedIsReplied'
    <3>1. ReplyBody(queue) = queue \ Blank
      BY ReplyIsWholeList DEF TypeOK
    <3> QED
      BY <2>1, <3>1 DEF Reply, ListedIsReplied
  <2>2. CASE ~ \E p \in Poll : Reply(p)
    BY <2>2 DEF ListedIsReplied, Next, vars, history, Notify, SideEffects, Store, PostResult,
       WriteResult, MarkDelivered, RemoveCommand, StartPoll, EmptyReply, EndPoll, Restart
  <2> QED
    BY <2>1, <2>2
<1> QED
  BY <1>1, <1>2, TypeCorrect, PTL DEF Spec

\* No command with a value is lost between the registry and the replies, whatever
\* polls overlap, calls fail and restarts happen.  (returnCommands)
THEOREM NothingIsLost == ASSUME DistinctNames PROVE Spec => []NoCommandLost
<1>1. PollInv /\ ListedIsReplied => NoCommandLost
  <2> SUFFICES ASSUME PollInv, ListedIsReplied, NEW c \in Stored \ Blank, c \notin queue
               PROVE  \E d \in replied : NameOf[d] = NameOf[c] /\ stamp[c] <= stamp[d]
    BY DEF NoCommandLost
  <2>1. c \in listed
    BY DEF PollInv, TypeOK, NameCovered, DistinctNames, Stored
  <2>2. c \in replied
    BY <2>1 DEF ListedIsReplied
  <2>3. stamp[c] <= stamp[c]
    BY DEF PollInv, TypeOK, Stored
  <2> QED
    BY <2>2, <2>3
<1> QED
  BY <1>1, PollInvariant, ListedReplied, PTL

-----------------------------------------------------------------------------
\* A status past PENDING belongs to a command that has been stored.
StatusInv ==
  \A n \in Name : status[n] \in {"DELIVERED", "OK"} => \E c \in Stored : NameOf[c] = n

\* StatusInv is an invariant: only commands that were listed are marked or answered.
LEMMA StatusInvariant == Spec => []StatusInv
<1>1. Init => StatusInv
  BY DEF Init, StatusInv
<1>2. PollInv /\ StatusInv /\ [Next]_vars => StatusInv'
  <2> SUFFICES ASSUME PollInv, StatusInv, [Next]_vars PROVE StatusInv'
    OBVIOUS
  <2> USE DEF PollInv, TypeOK, Provenance, StatusInv, Stored
  <2>1. ASSUME NEW c \in Command, Notify(c) PROVE StatusInv'
    BY <2>1 DEF Notify
  <2>2. ASSUME NEW c \in Command, SideEffects(c) PROVE StatusInv'
    BY <2>2 DEF SideEffects
  <2>3. ASSUME NEW c \in Command, Store(c) PROVE StatusInv'
    BY <2>3 DEF Store
  <2>4. ASSUME NEW c \in Command, WriteResult(c) PROVE StatusInv'
    BY <2>4 DEF WriteResult
  <2>5. ASSUME NEW c \in Command, NEW p \in Poll, MarkDelivered(p, c) PROVE StatusInv'
    BY <2>5 DEF MarkDelivered
  <2>6. CASE Restart
    BY <2>6 DEF Restart
  <2>7. CASE UNCHANGED <<note, status>>
    BY <2>7
  <2> QED
    BY <2>1, <2>2, <2>3, <2>4, <2>5, <2>6, <2>7 DEF Next, vars,
       PostResult, RemoveCommand, StartPoll, Reply, EmptyReply, EndPoll
<1> QED
  BY <1>1, <1>2, PollInvariant, PTL DEF Spec

\* PENDING is written before the command can be polled, so it never overwrites
\* what the poll or the device reported.  (notificationHandler)
THEOREM PendingIsFirst == ASSUME DistinctNames PROVE Spec => PendingNeverReturns
<1> DEFINE Step == \A n \in Name : status[n] \in {"DELIVERED", "OK"} => status'[n] # "PENDING"
<1>1. PollInv /\ StatusInv /\ [Next]_vars => [Step]_vars
  <2> SUFFICES ASSUME PollInv, StatusInv, Next PROVE Step
    OBVIOUS
  <2> USE DEF PollInv, TypeOK, Status
  <2>1. ASSUME NEW c \in Command, SideEffects(c) PROVE Step
    BY <2>1 DEF SideEffects, StatusInv, Stored, DistinctNames
  <2>2. ASSUME NEW c \in Command, WriteResult(c) PROVE Step
    BY <2>2 DEF WriteResult, Completed
  <2>3. ASSUME NEW c \in Command, NEW p \in Poll, MarkDelivered(p, c) PROVE Step
    BY <2>3 DEF MarkDelivered
  <2>4. CASE UNCHANGED status
    BY <2>4
  <2> QED
    BY <2>1, <2>2, <2>3, <2>4 DEF Next, Notify, Store, PostResult, RemoveCommand,
       StartPoll, Reply, EmptyReply, EndPoll, Restart
<1> QED
  BY <1>1, PollInvariant, StatusInvariant, PTL DEF Spec, PendingNeverReturns

-----------------------------------------------------------------------------
\* The agent keeps the promise of the abstract mailbox: what it accepted stays
\* until it has been delivered at least once.
THEOREM PollingImplementsMailbox ==
  ASSUME DistinctNames PROVE Spec => ImplementsMailbox
<1>1. Init => Mailbox!MailboxInit
  BY DEF Init, Mailbox!MailboxInit, Stored
<1>2. PollInv /\ ListedIsReplied /\ [Next]_vars
        => [Mailbox!MailboxNext]_(Mailbox!mailboxVars)
  <2> SUFFICES ASSUME PollInv, ListedIsReplied, [Next]_vars
               PROVE  Mailbox!MailboxNext \/ UNCHANGED Mailbox!mailboxVars
    OBVIOUS
  <2> USE DEF PollInv, TypeOK, Provenance, Stored, Mailbox!MailboxNext, Mailbox!mailboxVars
  <2>1. ASSUME NEW c \in Command, Store(c)
        PROVE  Mailbox!MailboxNext \/ UNCHANGED Mailbox!mailboxVars
    <3>1. /\ note[c] = "storing"
          /\ UNCHANGED replied
          /\ \/ note' = [note EXCEPT ![c] = "stored"] /\ queue' = queue \union {c}
             \/ note' = [note EXCEPT ![c] = "failed"] /\ UNCHANGED queue
      BY <2>1 DEF Store, AddCommand, registry, history
    <3>2. CASE c \in Blank \/ (UNCHANGED queue /\ note' = [note EXCEPT ![c] = "failed"])
      BY <3>1, <3>2
    <3>3. CASE c \notin Blank /\ note' = [note EXCEPT ![c] = "stored"] /\ queue' = queue \union {c}
      <4>1. Mailbox!Accept(c)
        BY <3>1, <3>3 DEF Mailbox!Accept
      <4> QED
        BY <4>1, <3>3
    <3> QED
      BY <3>1, <3>2, <3>3
  <2>2. ASSUME NEW p \in Poll, Reply(p)
        PROVE  Mailbox!MailboxNext \/ UNCHANGED Mailbox!mailboxVars
    <3>1. /\ replied' = replied \union (queue \ Blank)
          /\ UNCHANGED <<note, queue>>
      BY <2>2, ReplyIsWholeList DEF Reply, registry
    <3>2. CASE queue \ Blank = {}
      BY <3>1, <3>2
    <3>3. CASE queue \ Blank # {}
      BY <3>1, <3>3 DEF Mailbox!Deliver
    <3> QED
      BY <3>2, <3>3
  <2>3. ASSUME NEW c \in Command, NEW p \in Poll, RemoveCommand(p, c)
        PROVE  Mailbox!MailboxNext \/ UNCHANGED Mailbox!mailboxVars
    <3>1. /\ c \in listed
          /\ UNCHANGED <<note, replied>>
          /\ queue' = queue \ {c} \/ UNCHANGED queue
      BY <2>3, RemovesOnlyItsCommand DEF RemoveCommand, history
    <3>2. CASE c \notin queue \ Blank \/ UNCHANGED queue
      BY <3>1, <3>2
    <3>3. CASE c \in queue \ Blank /\ queue' = queue \ {c}
      <4>1. Mailbox!Forget(c)
        BY <3>1, <3>3 DEF Mailbox!Forget, ListedIsReplied
      <4> QED
        BY <4>1, <3>3
    <3> QED
      BY <3>1, <3>2, <3>3
  <2>4. CASE UNCHANGED <<Stored, queue, replied>>
    BY <2>4
  <2>5. ASSUME NEW c \in Command, Notify(c) \/ SideEffects(c)
        PROVE  UNCHANGED <<Stored, queue, replied>>
    BY <2>5 DEF Notify, SideEffects, registry, history
  <2>6. CASE Restart
    BY <2>4, <2>6 DEF Restart, registry, history
  <2> QED
    BY <2>1, <2>2, <2>3, <2>4, <2>5, <2>6 DEF Next, vars, registry, history, PostResult,
       WriteResult, MarkDelivered, StartPoll, EmptyReply, EndPoll
<1> QED
  BY <1>1, <1>2, PollInvariant, ListedReplied, PTL DEF Spec, ImplementsMailbox, Mailbox!MailboxSpec

-----------------------------------------------------------------------------
\* Only a poll that has replied has updates outstanding, so that the next list of a
\* poll replaces nothing.
LEMMA MarkingOfReplies == Spec => [](\A p \in Poll : poll[p] # "updating" => marking[p] = {})
<1> DEFINE Inv == \A p \in Poll : poll[p] # "updating" => marking[p] = {}
<1>1. Init => Inv
  BY DEF Init
<1>2. TypeOK /\ Inv /\ [Next]_vars => Inv'
  <2> SUFFICES ASSUME TypeOK, Inv, [Next]_vars PROVE Inv'
    OBVIOUS
  <2> USE DEF TypeOK
  <2>1. ASSUME NEW p \in Poll, StartPoll(p) \/ EmptyReply(p) PROVE Inv'
    BY <2>1 DEF StartPoll, EmptyReply
  <2>2. ASSUME NEW p \in Poll, Reply(p) PROVE Inv'
    BY <2>2 DEF Reply
  <2>3. ASSUME NEW p \in Poll, EndPoll(p) PROVE Inv'
    BY <2>3 DEF EndPoll
  <2>4. ASSUME NEW c \in Command, NEW p \in Poll, MarkDelivered(p, c) PROVE Inv'
    BY <2>4 DEF MarkDelivered
  <2>5. CASE Restart
    BY <2>5 DEF Restart
  <2>6. CASE UNCHANGED <<poll, marking>>
    BY <2>6
  <2> QED
    BY <2>1, <2>2, <2>3, <2>4, <2>5, <2>6 DEF Next, vars, polling, Notify, SideEffects, Store,
       PostResult, WriteResult, RemoveCommand
<1> QED
  BY <1>1, <1>2, TypeCorrect, PTL DEF Spec

\* While nothing has failed, a command whose updates have been answered is no longer
\* PENDING.  (updateCommandStatus)
THEOREM SettledIsMarked == ASSUME DistinctNames PROVE Spec => []SettledNotPending
<1> DEFINE Marks == \A p \in Poll : poll[p] # "updating" => marking[p] = {}
<1>1. Init => SettledNotPending
  BY DEF Init, SettledNotPending
<1>2. PollInv /\ Marks /\ SettledNotPending /\ [Next]_vars => SettledNotPending'
  <2> SUFFICES ASSUME PollInv, Marks, SettledNotPending, [Next]_vars,
                      NEW d \in listed', faults' = 0, \A p \in Poll : d \notin marking'[p]
               PROVE  status'[NameOf[d]] \in {"DELIVERED", "OK"}
    BY DEF SettledNotPending
  <2> USE DEF PollInv, TypeOK, Fault
  <2>1. ASSUME NEW p \in Poll, Reply(p) PROVE status'[NameOf[d]] \in {"DELIVERED", "OK"}
    <3>1. /\ marking[p] = {}
          /\ marking' = [marking EXCEPT ![p] = queue]
          /\ listed' = listed \union queue
          /\ UNCHANGED status
          /\ faults = 0
      BY <2>1 DEF Reply, ToUpdate
    <3>2. d \in listed /\ \A q \in Poll : d \notin marking[q]
      BY <3>1
    <3> QED
      BY <3>1, <3>2 DEF SettledNotPending
  <2>2. ASSUME NEW c \in Command, NEW p \in Poll, MarkDelivered(p, c)
        PROVE  status'[NameOf[d]] \in {"DELIVERED", "OK"}
    <3>1. /\ marking' = [marking EXCEPT ![p] = @ \ {c}]
          /\ status' = [status EXCEPT ![NameOf[c]] = "DELIVERED"]
          /\ UNCHANGED listed
          /\ faults = 0
      BY <2>2 DEF MarkDelivered, history
    <3>2. CASE d = c
      BY <3>1, <3>2
    <3>3. CASE d # c
      <4>1. \A q \in Poll : d \notin marking[q]
        BY <3>1, <3>3
      <4>2. d \in Command /\ status[NameOf[d]] \in {"DELIVERED", "OK"}
        BY <3>1, <4>1 DEF SettledNotPending
      <4> QED
        BY <3>1, <4>2
    <3> QED
      BY <3>2, <3>3
  <2>3. ASSUME NEW c \in Command, SideEffects(c)
        PROVE  status'[NameOf[d]] \in {"DELIVERED", "OK"}
    <3>1. /\ note[c] = "effects"
          /\ status' = [status EXCEPT ![NameOf[c]] = "PENDING"]
          /\ UNCHANGED <<marking, listed>>
          /\ faults = 0
      BY <2>3 DEF SideEffects, history, polling
    <3>2. d # c /\ d \in Command
      BY <3>1 DEF Provenance, Stored
    <3>3. NameOf[d] # NameOf[c]
      BY <3>2 DEF DistinctNames
    <3>4. status[NameOf[d]] \in {"DELIVERED", "OK"}
      BY <3>1 DEF SettledNotPending
    <3> QED
      BY <3>1, <3>2, <3>3, <3>4
  <2>4. ASSUME NEW c \in Command, WriteResult(c)
        PROVE  status'[NameOf[d]] \in {"DELIVERED", "OK"}
    <3>1. /\ status' = [status EXCEPT ![NameOf[c]] = "OK"]
          /\ UNCHANGED <<marking, listed>>
          /\ faults = 0
      BY <2>4 DEF WriteResult, Completed, history, polling
    <3>2. status[NameOf[d]] \in {"DELIVERED", "OK"} /\ d \in Command
      BY <3>1 DEF SettledNotPending
    <3> QED
      BY <3>1, <3>2
  <2>5. CASE UNCHANGED <<marking, listed, status>> /\ faults' \in {faults, faults + 1}
    BY <2>5 DEF SettledNotPending
  <2>6. faults' = 0 => ~ Restart
    BY DEF Restart
  <2> QED
    BY <2>1, <2>2, <2>3, <2>4, <2>5, <2>6 DEF Next, vars, history, polling, Notify, Store,
       PostResult, RemoveCommand, StartPoll, EmptyReply, EndPoll
<1> QED
  BY <1>1, <1>2, PollInvariant, MarkingOfReplies, PTL DEF Spec
=============================================================================
