SPECIFICATION AllSpec
CONSTANTS
  Callers <- TwoCallers
  Provider = "provider"
  EarlyCallers <- NoCaller
  MaxCallbacks = 2
  MaxBreaks = 1
  Held = {1}
  Workers <- OneWorker
  MaxReconnects = 1
  QueueCap = 1
  MaxSessions = 3
  MaxFailures = 2
INVARIANT TypeOK
INVARIANT LiveIsInstalled
INVARIANT ReinstallsAreCaused
INVARIANT PeerTypeOK
INVARIANT SupersededIsDown
INVARIANT ReconnectsAreCaused
PROPERTY ServeRecovers
PROPERTY StopsUnlessRevived
PROPERTY FailureIsNoticed
PROPERTY CloseEnds
CHECK_DEADLOCK FALSE
