SPECIFICATION FairSpec
CONSTANTS
  Worker = {w1, w2}
  Key = {k1, k2, k3, k4}
  DocTypes <- MCTypes
  Features = {"companies", "faults"}
INVARIANTS TypeOK LimitsHold
PROPERTIES ImplementsShelf RowBringsFile EveryRequestEnds
CHECK_DEADLOCK FALSE
