SPECIFICATION Spec
CONSTANTS
  Invites = {p1}
  Platform = {p1}
  AuthIds = {u1, u2}
  Sessions = {s1, s2}
  NoInvite = NoInvite
  NoUser = NoUser
  NoToken = NoToken
  Faults = 0
SYMMETRY Symmetry
CHECK_DEADLOCK FALSE
PROPERTY RevokeSparesLiveAccounts
