----------------------------- MODULE MCFillRoute -----------------------------
(* FillRoute for TLC.  With three waypoints at most and fuel at the second, *)
(* a fill route can be too short to stop at, end there, or go on after it.  *)
EXTENDS FillRoute

CONSTANTS f1, f2
=============================================================================
