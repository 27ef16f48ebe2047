---------------------------- MODULE MCTargetList ----------------------------
(* TargetList on small instances. *)
EXTENDS TargetList, TLC

CONSTANTS r1, r2, s1, e1

\* An official without an id, one with an id, and the id twice.
SomeFiles == {<<NoExt>>, <<e1>>, <<e1, e1>>}

Symmetry == Permutations(Requests)
=============================================================================
