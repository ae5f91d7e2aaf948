------------------------------ MODULE MCRecommit ------------------------------
(***************************************************************************)
(* The constants of worker.go in units of 20 ms; a user's interval below   *)
(* the minimum, at it, inside the range and above the maximum.             *)
(***************************************************************************)
EXTENDS Recommit

MCIntervals == {10, 50, 150, 900}
=============================================================================
