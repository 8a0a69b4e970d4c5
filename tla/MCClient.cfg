CONSTANTS
  Conn <- MCSockets
  Poller = "epoll"
  HighWater = 2
  Retry = TRUE
  InitDelay = 1
  MaxDelay = 3
  MaxCalls = 3
  MaxFaults = 2
SPECIFICATION FairSpec
CHECK_DEADLOCK FALSE
INVARIANTS
  AssertionsHold
  SocketsConserved
PROPERTIES
  EventuallyConnected
  DestroyedIsReleased
