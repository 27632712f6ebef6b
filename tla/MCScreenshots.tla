---------------------------- MODULE MCScreenshots ----------------------------
(* Screenshots for TLC, with two threads that encode at a time. *)
EXTENDS Screenshots
=============================================================================
