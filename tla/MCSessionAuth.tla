--------------------------- MODULE MCSessionAuth ----------------------------
(* SessionAuth on small instances. *)
EXTENDS SessionAuth, TLC

CONSTANTS j1, j2, j3, h1, h2

Symmetry == Permutations(Jtis) \cup Permutations(Slots)
=============================================================================
