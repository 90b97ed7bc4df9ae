CONSTANTS
  p1 = p1
  p2 = p2
  None = None
  Slots <- MCSlots
  Steps <- MCSteps
  Bank <- MCBank
  MaxRecords = 0
  MaxBreaks = 0
  MaxDuels = 1
SPECIFICATION AppSpec
PROPERTIES
  TrajectoryIsShown
CHECK_DEADLOCK FALSE
