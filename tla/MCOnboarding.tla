---------------------------- MODULE MCOnboarding ----------------------------
(* The run of Onboarding: users, and sessions, are interchangeable. *)
EXTENDS Onboarding, TLC

CONSTANTS acme, long

MCTyped == {<<acme, 2>>, <<long, 1>>}

Symmetry == Permutations(Sessions) \cup Permutations(Users)
=============================================================================
