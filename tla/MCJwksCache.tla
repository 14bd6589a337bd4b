----------------------------- MODULE MCJwksCache -----------------------------
(* The run of JwksCache: requests are interchangeable. *)
EXTENDS JwksCache, TLC

Symmetry == Permutations(Requests)
=============================================================================
