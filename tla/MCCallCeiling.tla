--------------------------- MODULE MCCallCeiling ----------------------------
(* CallCeiling on small instances. *)
EXTENDS CallCeiling

CONSTANTS s1, s2, s3, s4
=============================================================================
