SPECIFICATION Spec
CONSTANTS
  Worker = {w1, w2}
  Record = {r1, r2, r3}
  Value = {a}
  Features = {"pull", "lark", "faults"}
SYMMETRY MCSymmetry
INVARIANTS KnownRecordExists
PROPERTIES StaysLinked
CHECK_DEADLOCK FALSE
