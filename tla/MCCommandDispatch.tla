------------------------- MODULE MCCommandDispatch -------------------------
EXTENDS CommandDispatch, TLC

CONSTANTS u, n

\* An update of two commands and a notification of one, for the same device.
BothOrigins == (u :> "context") @@ (n :> "notification")
BothSizes == (u :> 2) @@ (n :> 1)
=============================================================================
