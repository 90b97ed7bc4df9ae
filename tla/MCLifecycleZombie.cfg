CONSTANTS
  Callers = {c1, c2}
  c1 = c1
  c2 = c2
  Provider = "docker"
  ProviderFaults = FALSE
  SyncVerify = FALSE
  HasVerify = TRUE
  Timeout = 1
  PauseHorizon = 1
  MaxDuration = 4
SPECIFICATION Spec
SYMMETRY CallerSymmetry
PROPERTIES FinishedNotReopened
CHECK_DEADLOCK FALSE
