SPECIFICATION Spec
CONSTANTS
  Count = 3
  Capacity = 2
  HighWater = 1
  Large = {}
  Kinds = {"telemost"}
  Workers = 2
  Answer = 1
  Frames <- TwoOneThree
  Short = {2}
  FirstSeq = 65534
  Scripts <- SomeScripts
INVARIANT ReadInOrder
CHECK_DEADLOCK FALSE
