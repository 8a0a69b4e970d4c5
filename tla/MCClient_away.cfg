CONSTANTS
  Conn <- MCSockets
  Poller = "epoll"
  HighWater = 2
  Retry = TRUE
  InitDelay = 1
  MaxDelay = 3
  MaxCalls = 2
  MaxFaults = 1
SPECIFICATION AwaySpec
CHECK_DEADLOCK FALSE
INVARIANTS
  CalledBackAlive
