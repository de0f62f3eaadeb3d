SPECIFICATION Spec
CONSTANTS
  Setups <- MCSetups
  ErrChCap = 4
  MaxBusy = 2
  MaxEdits = 3
INVARIANTS
  SocketsReleased
  StoreOutlivesWriters
  FailuresReported
  NoSignalLost
PROPERTY
  ShutdownCompletes
