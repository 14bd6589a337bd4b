SPECIFICATION Spec
CONSTANTS
  root = root adam = adam new = new super = super admin = admin deputy = deputy
  Users = {root, adam, new}
  Root = root
  Admins = {adam}
  Sessions = {s1, s2}
  Ids = {1, 2}
  Super = super
  Admin = admin
  Custom = {deputy}
  RolePerms <- MCRolePerms
  Manage = "manage"
  Rare = "roles"
  Nobody = nobody
  FirstGrants <- MCFirstGrants
  Grantees = {adam}
  Offered = {super}
  Newcomers = {new}
  Ops = {"grant", "revoke", "provision", "accept", "boot", "bootstrap"}
SYMMETRY Symmetry
CHECK_DEADLOCK FALSE
INVARIANTS TypeOK OneSuperAdmin RowsHaveAccounts
PROPERTIES ProvisionIsWhole NoEscalation
