SPECIFICATION Spec
CONSTANTS
  Readers <- OneReaderEach
  NetCap = 2
  MaxEchoes <- Never
  MsgLimit <- ClientTwice
  MaxRestarts <- Never
  MaxReconnects <- ClientOnce
  MayClose = {}
INVARIANT AckedIsHanded
CHECK_DEADLOCK FALSE
