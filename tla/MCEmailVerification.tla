------------------------- MODULE MCEmailVerification -------------------------
(***************************************************************************)
(* Instances of EmailVerification for TLC.                                 *)
(***************************************************************************)
EXTENDS EmailVerification, TLC

MCSymmetry == Permutations(Worker) \cup Permutations(Email)
=============================================================================
