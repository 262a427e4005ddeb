---------------------------- MODULE MCEngagement ----------------------------
(* Instances of Engagement for TLC. *)
EXTENDS Engagement
CONSTANTS r1, r2, r3, a1, a2
=============================================================================
