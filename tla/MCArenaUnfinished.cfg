CONSTANTS
  d1 = d1
  d2 = d2
  None = None
  Duels <- MCDuels
  Finished <- MCFinished
  Slots <- MCSlots
  Outcomes <- MCOutcomes
  MaxFaults = 0
SPECIFICATION Spec
INVARIANTS
  StageShowsEveryEnd
CHECK_DEADLOCK FALSE
