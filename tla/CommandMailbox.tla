--------------------------- MODULE CommandMailbox ---------------------------
(***************************************************************************)
(* What the store of commands of a polling device promises, with nothing   *)
(* of how the agent does it: a command that has been accepted stays        *)
(* pending until it has been handed to the device at least once, and it    *)
(* may be handed over more than once.  CommandPolling is shown to          *)
(* implement this module when the commands of a device have distinct names.*)
(***************************************************************************)
CONSTANT Command

VARIABLES accepted,     \* commands the agent has stored
          pending,      \* accepted commands it still keeps
          delivered     \* accepted commands some reply has carried

mailboxVars == <<accepted, pending, delivered>>

MailboxInit ==
  /\ accepted = {}
  /\ pending = {}
  /\ delivered = {}

Accept(c) ==
  /\ c \notin accepted
  /\ accepted' = accepted \union {c}
  /\ pending' = pending \union {c}
  /\ UNCHANGED delivered

\* One reply carries everything that is pending.
Deliver ==
  /\ pending # {}
  /\ delivered' = delivered \union pending
  /\ UNCHANGED <<accepted, pending>>

Forget(c) ==
  /\ c \in pending \intersect delivered
  /\ pending' = pending \ {c}
  /\ UNCHANGED <<accepted, delivered>>

MailboxNext ==
  \/ \E c \in Command : Accept(c) \/ Forget(c)
  \/ Deliver

MailboxSpec == MailboxInit /\ [][MailboxNext]_mailboxVars
=============================================================================
