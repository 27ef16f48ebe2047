-------------------------- MODULE MCCampaignAudio ---------------------------
(* CampaignAudio on small instances. *)
EXTENDS CampaignAudio, TLC

CONSTANTS r1, r2, r3, r4

Symmetry == Permutations(Requests)
=============================================================================
