------------------------- MODULE MCRolloutLifecycle -------------------------
(* Model values and symmetry for checking RolloutLifecycle with TLC.       *)
EXTENDS RolloutLifecycle, TLC

\* Callers are interchangeable; used only where no liveness is checked.
CallerSymmetry == Permutations(Callers)

=============================================================================
