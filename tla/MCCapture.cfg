CONSTANTS
  Requests = {r1,r2}
  r1 = r1
  r2 = r2
  BudgetLimit = 2
  MaxUse = 2
SPECIFICATION FairSpec
INVARIANTS TypeOK UsageMatchesTrajectory OvershootBounded ConversationOrder
PROPERTIES RepliesCaptured
CHECK_DEADLOCK FALSE
