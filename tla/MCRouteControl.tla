--------------------------- MODULE MCRouteControl ---------------------------
(* RouteControl for TLC: the bound is given in the configurations.          *)
EXTENDS RouteControl
=============================================================================
