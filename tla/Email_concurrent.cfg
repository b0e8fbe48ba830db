SPECIFICATION FairSpec
CONSTANTS
  Worker = {w1, w2}
  Email = {a, b}
  MaxSends = 2
  MaxAttempts = 2
  Features = {"faults"}
INVARIANTS TypeOK VerifiedMeansConfirmed AttemptsBounded
PROPERTIES EveryRequestEnds
