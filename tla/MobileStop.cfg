SPECIFICATION Spec
CONSTANTS
  App <- OneThread
  MaxRuns = 2
  MaxCalls = 1
INVARIANT StopStops
CHECK_DEADLOCK FALSE
