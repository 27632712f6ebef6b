------------------------------ MODULE MCSession ------------------------------
(* Session for TLC: the bounds are given in the configurations.             *)
EXTENDS Session
=============================================================================
