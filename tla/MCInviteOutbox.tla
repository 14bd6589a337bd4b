--------------------------- MODULE MCInviteOutbox ---------------------------
(* Model values and bounds for checking InviteOutbox with TLC. *)
EXTENDS InviteOutbox, TLC

CONSTANTS r1, r2, r3, w1, w2

(* Workers are interchangeable; so are rows, but for those in Anonymous. *)
Symmetry == Permutations(Workers) \cup Permutations(Rows \ Anonymous)
=============================================================================
