-------------------------- MODULE MCRoleDefinitions --------------------------
(* The run of RoleDefinitions: an owner who holds every permission and a     *)
(* delegate who holds one; custom roles that ask for one key.                *)
EXTENDS RoleDefinitions, TLC

CONSTANTS a, b, p, q

OwnerAndDelegate == [x \in Actors |-> IF x = a THEN {p, q} ELSE {q}]
MCCatalogue == [r \in System |-> {p, q}]
MCKeyOf == [r \in Custom |-> "key"]

Symmetry == Permutations(Sessions) \cup Permutations(Custom)
=============================================================================
