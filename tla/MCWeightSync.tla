---------------------------- MODULE MCWeightSync ----------------------------
(* Model values for checking WeightSync with TLC.                          *)
EXTENDS WeightSync

CONSTANTS c1, c2, v1, v2, v0, r1

=============================================================================
