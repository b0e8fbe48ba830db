SPECIFICATION Spec
CONSTANTS
  Worker = {w1}
  Record = {r1, r2}
  Value = {a, b, c}
  Features = {"pull", "faults"}
INVARIANTS TypeOK OneRecord 
CHECK_DEADLOCK FALSE
