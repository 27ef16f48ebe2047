----------------------------- MODULE MCCallFlow -----------------------------
(* CallFlow on small instances. *)
EXTENDS CallFlow, TLC

CONSTANTS c1, c2, h1, h2

\* One disturbance to a session: a handler is lost, or a request re-sent early.
OneDisturbance == spent.late + spent.faults <= 1

Symmetry == Permutations(Slots) \cup Permutations(Calls)
=============================================================================
