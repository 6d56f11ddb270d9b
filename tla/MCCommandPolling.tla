-------------------------- MODULE MCCommandPolling --------------------------
(* Instances of CommandPolling for TLC. *)
EXTENDS CommandPolling, TLC

CONSTANTS c1, c2, n1, n2, p1, p2

TwoCommands == {c1, c2}
TwoNames    == {n1, n2}
TwoPolls    == {p1, p2}
NoBlank     == {}
SecondBlank == {c2}

EachItsName  == (c1 :> n1) @@ (c2 :> n2)
SharedName   == (c1 :> n1) @@ (c2 :> n1)

=============================================================================
