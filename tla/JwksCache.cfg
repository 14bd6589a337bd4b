SPECIFICATION Spec
CONSTANTS
  Keys = {k1, k2}
  First = k1
  Requests = {r1, r2}
  TTL = 2
  Grace = 1
  FetchTime = 1
  Long = 4
SYMMETRY Symmetry
CHECK_DEADLOCK FALSE
INVARIANT TypeOK
PROPERTIES WithdrawnKeyDies OneRefetchSuffices OutageIsBridged
