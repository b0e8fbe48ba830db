------------------------- MODULE MCAppointmentMirror -------------------------
(***************************************************************************)
(* Instances of AppointmentMirror for TLC.                                 *)
(***************************************************************************)
EXTENDS AppointmentMirror, TLC

MCSymmetry == Permutations(Worker) \cup Permutations(Id)
=============================================================================
