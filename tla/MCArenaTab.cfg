CONSTANTS
  d1 = d1
  d2 = d2
  None = None
  Duels <- MCDuels
  Finished <- MCFinished
  Slots <- MCSlots
  Outcomes <- MCOutcomes
  MaxFaults = 1
SPECIFICATION Spec
INVARIANTS
  TypeOK
  OneDuelOnStage
  BannerMatchesScores
  StageShowsTheEnd
CHECK_DEADLOCK FALSE
