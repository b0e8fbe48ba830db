--------------------------- MODULE MCAppointments ---------------------------
(***************************************************************************)
(* Instances of Appointments for TLC.                                      *)
(***************************************************************************)
EXTENDS Appointments, TLC

MCSymmetry == Permutations(Worker) \cup Permutations(Id)
=============================================================================
