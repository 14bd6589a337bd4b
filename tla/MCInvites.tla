------------------------------ MODULE MCInvites ------------------------------
(* The runs of Invites: requests, invites and auth ids are interchangeable   *)
(* among themselves, invites within their kind.                              *)
EXTENDS Invites, TLC

Symmetry ==
  Permutations(Sessions) \cup Permutations(AuthIds)
    \cup Permutations(Platform) \cup Permutations(Invites \ Platform)
=============================================================================
