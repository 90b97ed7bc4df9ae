CONSTANTS
  Callers = {c1, c2}
  c1 = c1
  c2 = c2
  Provider = "docker"
  ProviderFaults = TRUE
  SyncVerify = TRUE
  HasVerify = TRUE
  Timeout = 1
  PauseHorizon = 0
  MaxDuration = 2
SPECIFICATION Spec
SYMMETRY CallerSymmetry
INVARIANTS SyncRewardVisible FinalStatusStays
CHECK_DEADLOCK FALSE
