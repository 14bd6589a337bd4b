-------------------------- MODULE MCPlatformGrants --------------------------
(* The run of PlatformGrants: a super admin, an admin whose only grant at    *)
(* first is a custom role without the permission that is watched (a boot     *)
(* adds the grant of the enum, which carries it), and a person who is not    *)
(* staff yet.                                                                *)
EXTENDS PlatformGrants, TLC

CONSTANTS root, adam, new, super, admin, deputy

MCRolePerms == [r \in Roles |-> IF r = deputy THEN {"manage"} ELSE {"manage", "roles"}]
MCFirstGrants ==
  {[id |-> 1, user |-> root, role |-> super],
   [id |-> 1, user |-> adam, role |-> deputy]}

Symmetry == Permutations(Sessions)
=============================================================================
