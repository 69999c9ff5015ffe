SPECIFICATION Spec
CONSTANTS
  Count = 3
  Capacity = 2
  HighWater = 1
  Large = {2}
  Kinds = {"jazz"}
  Workers = 1
  Answer = 1
  Frames <- TwoOneThree
  Short = {2}
  FirstSeq = 65534
  Scripts <- SomeScripts
INVARIANT EachSendArrives
CHECK_DEADLOCK FALSE
