SPECIFICATION FairSpec
CONSTANTS
  MaxAttempts = 2
  OutCap = 1
  AckCap = 1
  DeliveredCap = 1
  NTracks = 2
  NetCap = 1
  MayDamage = FALSE
  MayClose = {"client"}
  MayRetrack = {"client"}
  Fragments <- TwoShort
  MsgLimit <- ClientSendsTwo
  MaxRestarts <- ClientRestarts
INVARIANT AckedIsAccepted
PROPERTY SendReturns
CHECK_DEADLOCK FALSE
