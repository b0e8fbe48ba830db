SPECIFICATION Spec
CONSTANTS
  Worker = {w1}
  Email = {a, b}
  MaxSends = 3
  MaxAttempts = 2
  Features = {"line"}
SYMMETRY MCSymmetry
INVARIANTS LatestMailVerifies
