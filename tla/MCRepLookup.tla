---------------------------- MODULE MCRepLookup -----------------------------
(* RepLookup on small instances. *)
EXTENDS RepLookup

CONSTANTS c1, c2, q1, q2, w1, w2

\* One federal rep and one state rep whose number is no US line.
MCReps == {"senator", "delegate"}
MCLevelOf == [r \in MCReps |-> IF r = "senator" THEN "federal" ELSE "state"]
MCLevelSets == {{"federal"}, {"federal", "state"}}
=============================================================================
