-------------------------- MODULE MCProcessClaims --------------------------
(* Instances of ProcessClaims small enough for TLC.  The servers differ in   *)
(* nothing, so permuting them maps behaviours to behaviours.                 *)
EXTENDS ProcessClaims, TLC

AnyServer == Permutations(Process)
=============================================================================
