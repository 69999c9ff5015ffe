SPECIFICATION FairSpec
CONSTANTS
  Callers <- OneCaller
  Provider = "provider"
  EarlyCallers <- NoCaller
  MaxCallbacks = 1
  MaxBreaks = 0
  Held = {}
PROPERTY RunReturns
CHECK_DEADLOCK FALSE
