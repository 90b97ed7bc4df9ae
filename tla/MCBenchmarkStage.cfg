CONSTANTS
  None = None
  Agents <- MCAgents
  Problems <- MCProblems
  Benchmarks <- MCBenchmarks
  Slots <- MCSlots
  Concurrency = 1
  MaxTwists = 1
SPECIFICATION Spec
INVARIANTS
  
  LogIsComplete
PROPERTIES
  ReleasedOnlyWhenOver
CHECK_DEADLOCK FALSE
