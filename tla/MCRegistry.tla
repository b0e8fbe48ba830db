------------------------------ MODULE MCRegistry ------------------------------
(***************************************************************************)
(* Instances of Registry for TLC.                                          *)
(***************************************************************************)
EXTENDS Registry, TLC

MCSymmetry ==
  Permutations(AdminWorker) \cup Permutations(MemberWorker) \cup Permutations(Project)
    \cup Permutations(Name) \cup Permutations(User \ {Founder})
    \cup Permutations(Company \ {Home})
=============================================================================
