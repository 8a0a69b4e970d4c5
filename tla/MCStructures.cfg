CONSTANTS
  init_size = 3
  pre_append_size = 2
  ExtraSize = 2
  MaxStore = 8
  MaxChunk = 3
  Streams <- MCStreams
  Channel <- MCChannels
  Fd <- MCFd
  Bounds <- MCBounds
  Threads = 2
  MaxItems = 5
  w1 = w1
  w2 = w2
  p1 = p1
  p2 = p2
  ow = ow
  NoAgent = NoAgent
  Agent <- MCAgent
  Worker <- MCWorker
  Producer <- MCProducer
  Owner = ow
  Cond <- MCCond
  MaxQueueSize = 1
  MaxTasks = 3
  MaxSpurious = 1
SPECIFICATION AllSpec
CHECK_DEADLOCK FALSE
INVARIANTS
  BufferHoldsBytes
  RequestsConserved
  PollerAgrees
  QueueDelivers
  NoIdleWorker
  NoIdlePlace
PROPERTIES
  EveryTaskRuns
  StopReturns
