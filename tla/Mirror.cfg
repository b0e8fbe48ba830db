SPECIFICATION MirrorSpec
CONSTANTS
  Worker = {w1}
  Id = {i1, i2, i3}
  Time = {1, 2}
  maxAppointmentsPerType = 2
  Features = {"pull", "faults"}
SYMMETRY MCSymmetry
INVARIANTS MirrorTypeOK UntouchedSurvive SameAppointments
PROPERTIES  EchoChangesNothing
