SPECIFICATION Spec
CONSTANTS
  Scopes = {c1}
  Perms = {p}
  Granted = {p}
  Sessions = {s1, s2}
  TTL = 1
  ReadTime = 1
  Long = 3
  Most = 1
  Window = 2
  ArmTime = 1
  Many = 3
SYMMETRY Symmetry
CHECK_DEADLOCK FALSE
INVARIANTS TypeOK TwiceInAWindow
PROPERTIES MeShowsRecent RefusalsEnd
