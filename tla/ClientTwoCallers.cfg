SPECIFICATION AllSpec
CONSTANTS
  Callers <- TwoCallers
  Handlers <- OneHandler
  MaxCallbacks = 2
  MaxBreaks = 0
  Samples = 3
  Latencies = {0, 1, 3}
  Args <- SomeArgs
  App <- TwoThreads
  MaxRuns = 0
  MaxCalls = 0
PROPERTY ReconnectRecovers
CHECK_DEADLOCK FALSE
