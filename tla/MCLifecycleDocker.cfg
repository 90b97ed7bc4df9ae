CONSTANTS
  Callers = {c1, c2}
  c1 = c1
  c2 = c2
  Provider = "docker"
  ProviderFaults = FALSE
  SyncVerify = FALSE
  HasVerify = TRUE
  Timeout = 2
  PauseHorizon = 2
  MaxDuration = 9
SPECIFICATION FairSpec
INVARIANTS TypeOK TerminalIsQuiescent NoWorkOnDestroyedSandbox NoLostWakeup PauseDisarmsTimer DeadlineExcludesPauses StatusMatchesSandbox NoPhantomPause
PROPERTIES EventuallyDestroyed
CHECK_DEADLOCK FALSE
