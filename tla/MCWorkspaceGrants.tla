------------------------- MODULE MCWorkspaceGrants -------------------------
(* Model values and bounds for checking WorkspaceGrants with TLC. *)
EXTENDS WorkspaceGrants, TLC

CONSTANTS a, b, c, s1, s2, owner, admin, reader, none

MCRolePerms == [r \in Roles |->
  CASE r = owner -> {"manage", "roles"} [] r = admin -> {"manage"} [] OTHER -> {}]

MCScanOrder == [r \in Roles |-> IF r = owner THEN 2 ELSE IF r = admin THEN 1 ELSE 0]

MCUserOrder == [u \in Users |-> IF u = a THEN 0 ELSE IF u = b THEN 1 ELSE 2]

(* Users no constant tells apart, and the sessions, are interchangeable. *)
Symmetry ==
  Permutations(Sessions) \cup Permutations(Users \ ({Founder} \cup CoOwners \cup Deletable))
=============================================================================
