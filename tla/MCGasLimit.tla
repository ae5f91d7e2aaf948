----------------------------- MODULE MCGasLimit -----------------------------
(***************************************************************************)
(* Small values with the proportions of params: the smaller target is a    *)
(* little more than five times the divisor, and the range is several steps *)
(* wide.  The operator's values lie below, inside and above the range.     *)
(***************************************************************************)
EXTENDS GasLimit

MCTargets == {10, 24, 27, 40}
=============================================================================
