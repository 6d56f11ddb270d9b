---------------------------- MODULE CommandSeries ----------------------------
(***************************************************************************)
(* What the handling of push commands promises for each request, with      *)
(* nothing of how the agent does it: the endpoint of the device performs   *)
(* the commands of a request one after the other, each at most once, and   *)
(* the request gets one verdict, which is final.  It is "done" exactly when *)
(* every command was performed, "refused" at any time before, and "stored" *)
(* only before there is anything to perform.  An exception loses a request *)
(* and ends the agent, so that nothing is performed and no verdict given   *)
(* after it.  CommandDispatch is shown to implement this module.           *)
(***************************************************************************)
EXTENDS Naturals

CONSTANT Request

VARIABLES
  series,      \* per request: the commands the endpoint has to perform, by number
  performed,   \* the commands it has performed
  verdict      \* per request: its verdict, or "open"

seriesVars == <<series, performed, verdict>>

SeriesInit ==
  /\ series = [r \in Request |-> {}]
  /\ performed = {}
  /\ verdict = [r \in Request |-> "open"]

Open(r) == verdict[r] = "open" /\ \A s \in Request : verdict[s] # "lost"

Gets(r, v) == verdict' = [verdict EXCEPT ![r] = v]

\* The commands of r become known, possibly none.
Begin(r) ==
  /\ Open(r)
  /\ series[r] = {}
  /\ series' \in [Request -> SUBSET Nat]
  /\ \A s \in Request \ {r} : series'[s] = series[s]
  /\ Gets(r, "lost") \/ Gets(r, IF series'[r] = {} THEN "done" ELSE "open")
  /\ UNCHANGED performed

\* The next command of r is performed.
Perform(r) ==
  /\ Open(r)
  /\ \E k \in series[r] :
       /\ <<r, k>> \notin performed
       /\ \A l \in series[r] : l < k => <<r, l>> \in performed
       /\ performed' = performed \union {<<r, k>>}
  /\ \/ Gets(r, "lost")
     \/ Gets(r, IF \A l \in series[r] : <<r, l>> \in performed' THEN "done" ELSE "open")
  /\ UNCHANGED series

Refuse(r) ==
  /\ Open(r)
  /\ Gets(r, "refused")
  /\ UNCHANGED <<series, performed>>

Store(r) ==
  /\ Open(r)
  /\ series[r] = {}
  /\ Gets(r, "stored")
  /\ UNCHANGED <<series, performed>>

SeriesNext == \E r \in Request : Begin(r) \/ Perform(r) \/ Refuse(r) \/ Store(r)

SeriesSpec == SeriesInit /\ [][SeriesNext]_seriesVars
=============================================================================
