SPECIFICATION Spec
CONSTANTS
  Invites = {p1, p2, t1}
  Platform = {p1, p2}
  AuthIds = {u1, u2}
  Sessions = {s1, s2}
  NoInvite = NoInvite
  NoUser = NoUser
  NoToken = NoToken
  Faults = 1
SYMMETRY Symmetry
CHECK_DEADLOCK FALSE
INVARIANTS TypeOK OnePending ProvisionedAreAlive UsedOnce
PROPERTY ImplementsLedger
