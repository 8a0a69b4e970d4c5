CONSTANTS
  c1 = c1
  c2 = c2
  Conn <- MCOneConn
  Poller = "poll"
  HighWater = 2
  IoIsBase = FALSE
  UserOps <- MCCloseOps
  ForeignOps <- MCSend
  MayDestroy = FALSE
  MaxOps = 3
  MaxIn = 1
SPECIFICATION FairSpec
CHECK_DEADLOCK FALSE
INVARIANTS
  CallbacksPaired
  FreedDisconnected
  RemovedDisabled
PROPERTIES
  ClosesOpenConnection
  GoneIsFreed
