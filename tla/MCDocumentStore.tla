--------------------------- MODULE MCDocumentStore ---------------------------
(***************************************************************************)
(* Instances of DocumentStore for TLC.                                     *)
(***************************************************************************)
EXTENDS DocumentStore, TLC

MCSymmetry == Permutations(Worker) \cup Permutations(Key)

\* A type with limit 1 and one with limit 3.
MCTypes == {"contract", "site_survey"}
=============================================================================
