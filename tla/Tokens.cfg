SPECIFICATION FairSpec
CONSTANTS
  Worker = {w1, w2}
  LarkLife = {3,5}
  LineLife = {4}
  Size = {1}
  Features = {}
  MaxTime = 6
INVARIANTS TypeOK UsedTokenIsValid
PROPERTIES AskedOnlyWhenStale EveryCallEnds
