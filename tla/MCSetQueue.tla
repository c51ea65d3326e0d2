----------------------------- MODULE MCSetQueue -----------------------------
(***************************************************************************)
(* Instances of SetQueue for TLC.  The threads a and b both push and take  *)
(* in the runs with several pushers and takers.                            *)
(***************************************************************************)
EXTENDS SetQueue

CONSTANTS a, b
=============================================================================
