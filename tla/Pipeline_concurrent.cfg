SPECIFICATION Spec
CONSTANTS
  Worker = {w1, w2}
  DocId = {d1}
  DocTypes <- MCOneGate
  Requested <- MCAllStatuses
  Features = {"appointments", "faults", "blind"}
SYMMETRY MCSymmetry
INVARIANTS ActiveHasTimer RejectHasReason
