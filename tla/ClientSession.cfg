SPECIFICATION AllSpec
CONSTANTS
  Callers <- OneCaller
  Handlers <- TwoHandlers
  MaxCallbacks = 3
  MaxBreaks = 2
  Samples = 3
  Latencies = {0, 1, 3}
  Args <- SomeArgs
  App <- TwoThreads
  MaxRuns = 2
  MaxCalls = 4
INVARIANT AllTypeOK
INVARIANT OpenIsFed
INVARIANT ProbeAnswersAreTrue
INVARIANT AtMostOneClient
INVARIANT AnswersAreTrue
PROPERTY ReconnectRecovers
PROPERTY ProbeEnds
PROPERTY StopEnds
CHECK_DEADLOCK FALSE
