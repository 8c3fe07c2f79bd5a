----------------------------- MODULE MC_Handler -----------------------------
(***************************************************************************)
(* Handler with the symmetry of its connections, for the run that checks   *)
(* only safety: Init gives every connection every role, and no action      *)
(* tells one connection from another.                                      *)
(***************************************************************************)
EXTENDS Handler, TLC

ConnSymmetry == Permutations(Conns)
=============================================================================
