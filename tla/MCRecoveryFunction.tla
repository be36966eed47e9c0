------------------------- MODULE MCRecoveryFunction -------------------------
(***************************************************************************)
(* Instances of RecoveryFunction for TLC.  The member paths of a flow are  *)
(* interchangeable; flows share nothing, so one flow shows what many do.   *)
(***************************************************************************)
EXTENDS RecoveryFunction, TLC

PathSymmetry == Permutations(Paths)
=============================================================================
