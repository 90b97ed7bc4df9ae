---------------------------- MODULE MCLocalJSONL ----------------------------
(* Model values for checking LocalJSONL with TLC.                          *)
EXTENDS LocalJSONL

CONSTANTS s1, s2, s3

\* Three steps: one that fits in the buffer of three units, one that overflows
\* it and one longer than two of it.
MCSize == s1 :> 1 @@ s2 :> 4 @@ s3 :> 7

=============================================================================
