CONSTANTS
  d1 = d1
  d2 = d2
  None = None
  Duels <- MCDuels
  Finished <- MCFinished
  ListSlots <- MCListSlots
  Slots <- MCSlots
  Outcomes <- MCOutcomes
  MaxFaults = 1
SPECIFICATION Spec
INVARIANTS
  OneDuelInArena
PROPERTIES
  EventuallyCurrent
CHECK_DEADLOCK FALSE
