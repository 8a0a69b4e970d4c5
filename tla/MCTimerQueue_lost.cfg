CONSTANTS
  Delays <- MCLater
  CallbackDelays <- MCDelays
  Intervals <- MCOne
  MaxTimers = 3
  MaxTime = 5
SPECIFICATION Spec
PROPERTIES
  CancelSizes
CHECK_DEADLOCK FALSE
