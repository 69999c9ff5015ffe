SPECIFICATION Spec
CONSTANTS
  Count = 3
  Capacity = 2
  HighWater = 1
  Large = {2}
  Kinds = {"jazz", "wbstream", "telemost"}
  Workers = 1
  Answer = 1
  Frames <- TwoOneThree
  Short = {2}
  FirstSeq = 65534
  Scripts <- SomeScripts
INVARIANT TypeOK
INVARIANT ReadInOrder
INVARIANT ErrorsAreCaused
INVARIANT FramesAreWhole
INVARIANT TunnelIsTransparent
PROPERTY WriteReturns
PROPERTY ReaderEnds
PROPERTY CloseEnds
PROPERTY TunnelEnds
CHECK_DEADLOCK FALSE
