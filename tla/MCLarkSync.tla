----------------------------- MODULE MCLarkSync -----------------------------
(***************************************************************************)
(* Instances of LarkSync for TLC.                                          *)
(***************************************************************************)
EXTENDS LarkSync, TLC

MCSymmetry == Permutations(Worker) \cup Permutations(Record) \cup Permutations(Value)
=============================================================================
