CONSTANTS
  Producers = {p1, p2, p3}
  Lens <- UpToFull
  MaxMsgs = 1
  AsyncSafe = TRUE
  BufferSize = 3
  Threshold = 2
  LinearGrowth = 1
  IntSpan = 1024
  MaxCapacity = 4
SPECIFICATION Spec
INVARIANTS
  TypeOK
  NoSleepOnWork
  NoStrandedProducer
  StopFlushesAll
PROPERTIES
  EveryPushReturns
  StopReturns
  ImplementsChannel
