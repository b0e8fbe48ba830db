----------------------------- MODULE MCPipeline -----------------------------
(***************************************************************************)
(* Instances of Pipeline for TLC.  Workers and document ids are model      *)
(* values; symmetry is declared only in the runs without liveness.         *)
(***************************************************************************)
EXTENDS Pipeline, TLC

MCSymmetry == Permutations(Worker) \cup Permutations(DocId)

\* One document of each gate on the way to a closed project.
MCGates == {"quotation_support", "tor_support", "contract", "closing"}
\* The gates of a project owned by a dealer, and a document that is no gate.
MCDealerGates == {"quotation_support", "quotation_dealer", "tor_support", "tor_dealer", "site_survey"}
\* One gate and one document that moves nothing: for the runs with overlapping
\* requests, where manual status changes reach every status anyway.
MCOneGate == {"quotation_dealer", "site_survey"}
MCAllStatuses == Status
=============================================================================
