CONSTANTS
  s1 = s1
  s2 = s2
  s3 = s3
  Steps = {s1, s2, s3}
  Size <- MCSize
  FlushBytes = 3
  Readers = {r1, r2}
  r1 = r1
  r2 = r2
SPECIFICATION FairSpec
INVARIANTS TypeOK SettledSurvives ClosedHoldsNothing
PROPERTIES ImplementsStepLog
PROPERTIES EventuallyOnDisk
CHECK_DEADLOCK FALSE
