------------------------------- MODULE MCValkey -------------------------------
(* The run of Valkey: sessions are interchangeable. *)
EXTENDS Valkey, TLC

Symmetry == Permutations(Sessions)
=============================================================================
