CONSTANTS
  Delays <- MCDelays
  CallbackDelays <- MCDelays
  Intervals <- MCOne
  MaxTimers = 3
  MaxTime = 4
SPECIFICATION FairSpec
INVARIANTS
  IteratorsValid
  TimerFdArmed
  CancelFinal
  IndexAgrees
PROPERTIES
  OneShotOnce
  EventuallyRun
CHECK_DEADLOCK FALSE
