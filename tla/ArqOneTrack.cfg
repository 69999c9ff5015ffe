SPECIFICATION FairSpec
CONSTANTS
  MaxAttempts = 2
  OutCap = 2
  AckCap = 1
  DeliveredCap = 1
  NTracks = 1
  NetCap = 2
  MayDamage = TRUE
  MayClose = {"server"}
  MayRetrack = {}
  Fragments <- ShortLongShort
  MsgLimit <- ClientSendsThree
  MaxRestarts <- NoRestarts
INVARIANT TypeOK
INVARIANT AckedIsHanded
INVARIANT HandedInOrder
INVARIANT FramesSurviveCodec
PROPERTY ImplementsOrderedDelivery
PROPERTY ReaderReturns
CHECK_DEADLOCK FALSE
