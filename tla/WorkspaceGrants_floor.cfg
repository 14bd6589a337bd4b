SPECIFICATION Spec
CONSTANTS
  a = a b = b c = c s1 = s1 s2 = s2 owner = owner admin = admin reader = reader none = none
  Users = {a, b}
  Founder = a
  CoOwners = {}
  Sessions = {s1, s2}
  Ids = {1, 2}
  FirstId = 1
  Roles = {owner, admin}
  EnumRoles = {owner, admin}
  OwnerRole = owner
  RolePerms <- MCRolePerms
  ScanOrder <- MCScanOrder
  UserOrder <- MCUserOrder
  Manage = "manage"
  NoRole = none
  Deletable = {b}
  Targets = {a, b}
  Ops = {"grant", "revoke", "accept"}
SYMMETRY Symmetry
INVARIANTS TypeOK OwnerFloor UniqueGrants FloorInv
PROPERTY ImplementsRegistry
