CONSTANTS
  c1 = c1
  c2 = c2
  Conn <- MCOneConn
  Poller = "epoll"
  HighWater = 2
  IoIsBase = TRUE
  UserOps <- MCShutdown
  ForeignOps <- MCNone
  MayDestroy = TRUE
  MaxOps = 1
  MaxIn = 1
SPECIFICATION Spec
CHECK_DEADLOCK FALSE
INVARIANTS
  FreedDisconnected
