SPECIFICATION FairSpec
CONSTANTS
  Worker = {w1, w2}
  DocId = {d1}
  DocTypes <- MCOneGate
  Requested = {"register", "closed"}
  Features = {"appointments", "lark"}
PROPERTIES OverdueIsSettled
