SPECIFICATION Spec
CONSTANTS
  Users = {u1, u2}
  Sessions = {s1, s2}
  Ids = {1, 2, 3}
  acme = acme
  long = long
  Names = {acme, long}
  Typed <- MCTyped
  Longest = {long}
  Limit = 1
  Joins = 1
  Operator = operator
  Nobody = nobody
SYMMETRY Symmetry
CHECK_DEADLOCK FALSE
INVARIANTS TypeOK OneWorkspaceEach SlugsUnique
PROPERTY WalkListsAll
