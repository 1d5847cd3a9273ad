--------------------------- MODULE MCSessionTurns ---------------------------
(* Small instances of SessionTurns. The turns are alike, so are the steers. *)
EXTENDS SessionTurns, TLC

Symmetry == Permutations(Turn)
=============================================================================
