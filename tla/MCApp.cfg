CONSTANTS
  p1 = p1
  p2 = p2
  None = None
  Slots <- MCSlots
  Steps <- MCSteps
  Bank <- MCBank
  MaxRecords = 2
  MaxBreaks = 1
  MaxDuels = 1
SPECIFICATION AppSpec
INVARIANTS
  CurveComplete
  
  OnePointPerStep
  ListNotOlderThanTab
PROPERTIES
  BusyEnds
CHECK_DEADLOCK FALSE
