---------------------------- MODULE MCAccessTokens ----------------------------
(***************************************************************************)
(* Instances of AccessTokens for TLC.                                      *)
(***************************************************************************)
EXTENDS AccessTokens, TLC

MCSymmetry == Permutations(Worker)
===============================================================================
