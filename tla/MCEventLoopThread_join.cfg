CONSTANTS
  lt = lt
  ow = ow
  t1 = t1
  f1 = f1
  f2 = f2
  f3 = f3
  Thread <- MCThread
  LoopThread = lt
  Functor <- MCFunctor
  Owner = ow
  Quitter <- MCThread
  MaxQuit = 1
  Settled = FALSE
SPECIFICATION FairThreadSpec
CHECK_DEADLOCK FALSE
PROPERTIES
  DtorReturns
