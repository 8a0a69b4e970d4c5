CONSTANTS
  c1 = c1
  c2 = c2
  Conn <- MCTwoConns
  Poller = "epoll"
  HighWater = 2
  IoIsBase = TRUE
  UserOps <- MCNoForce
  ForeignOps <- MCNone
  MayDestroy = TRUE
  MaxOps = 2
  MaxIn = 1
SPECIFICATION Spec
CHECK_DEADLOCK FALSE
INVARIANTS
  RemovalFindsConnection
  FreedUnregistered
  OutputKept
  ShutdownNotForgotten
