CONSTANTS
  BufferSize = 2
  DropAbove = 2
  RollSize = 2
  CheckEvery = 3
  FlushInterval = 1
  Day = 3
  MaxRecords = 5
  MaxTime = 4
SPECIFICATION FairSpec
CHECK_DEADLOCK FALSE
INVARIANTS
  LogConserved
  BuffersSuffice
  DayRolled
PROPERTIES
  EventuallyFlushed
