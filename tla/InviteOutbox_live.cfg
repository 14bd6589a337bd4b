SPECIFICATION LiveSpec
CONSTANTS
  r1 = r1 r2 = r2 r3 = r3 w1 = w1 w2 = w2
  Rows = {r1, r2}
  Workers = {w1}
  Limit = 2
  LeaseTime = 3
  CallTime = 1
  MarkTime = 1
  BackoffBase = 1
  BackoffCap = 3
  MaxAttempts = 2
  Never = 99
  Anonymous = {r2}
  Crashes = 1
CHECK_DEADLOCK FALSE
INVARIANTS SentMeansTagged RunsAddUp
PROPERTIES Settles ImplementsLedger
