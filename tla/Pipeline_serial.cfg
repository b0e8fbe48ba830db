SPECIFICATION Spec
CONSTANTS
  Worker = {w1}
  DocId = {d1, d2, d3, d4}
  DocTypes <- MCGates
  Requested <- MCAllStatuses
  Features = {"appointments"}
INVARIANTS TypeOK LogMatchesStatus
PROPERTIES DocumentsBackStatus ClosedIsFinal ImplementsLifecycle
