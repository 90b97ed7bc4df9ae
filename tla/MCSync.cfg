CONSTANTS
  Callers = {c1, c2}
  c1 = c1
  c2 = c2
  Versions = {v1, v2}
  v1 = v1
  v2 = v2
  NoVersion = v0
  v0 = v0
  Rollouts = {r1}
  r1 = r1
  Backend = "sglang"
SPECIFICATION FairSpec
INVARIANTS TypeOK RestingInSync OnlyLoadedVersions
PROPERTIES RefitWhilePaused EventuallyAnswered
CHECK_DEADLOCK FALSE
