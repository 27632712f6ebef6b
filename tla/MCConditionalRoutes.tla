------------------------- MODULE MCConditionalRoutes -------------------------
(* ConditionalRoutes for TLC: the bounds are given in the configurations.   *)
EXTENDS ConditionalRoutes
=============================================================================
