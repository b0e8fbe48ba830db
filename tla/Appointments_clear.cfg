SPECIFICATION Spec
CONSTANTS
  Worker = {w1}
  Id = {i1, i2, i3}
  Time = {1, 2}
  maxAppointmentsPerType = 2
  Features = {"lark"}
SYMMETRY MCSymmetry
PROPERTIES ClearedDisappear
CHECK_DEADLOCK FALSE
