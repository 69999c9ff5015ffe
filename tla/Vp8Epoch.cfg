SPECIFICATION Spec
CONSTANTS
  Readers <- TwoAtClient
  NetCap = 1
  MaxEchoes <- ClientOnce
  MsgLimit <- ServerOnce
  MaxRestarts <- ServerOnce
  MaxReconnects <- OnceEach
  MayClose = {"client"}
INVARIANT TypeOK
INVARIANT OneResetPerChange
INVARIANT ChangesAreCaused
INVARIANT KcpComesBack
CHECK_DEADLOCK FALSE
