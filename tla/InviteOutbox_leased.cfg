SPECIFICATION Spec
CONSTANTS
  r1 = r1 r2 = r2 r3 = r3 w1 = w1 w2 = w2
  Rows = {r1, r2}
  Workers = {w1, w2}
  Limit = 2
  LeaseTime = 8
  CallTime = 1
  MarkTime = 1
  BackoffBase = 1
  BackoffCap = 3
  MaxAttempts = 2
  Never = 99
  Anonymous = {}
  Crashes = 1
SYMMETRY Symmetry
CHECK_DEADLOCK FALSE
INVARIANTS TypeOK ClaimsDisjoint
PROPERTIES ImplementsLedger
