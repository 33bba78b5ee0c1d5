CONSTANTS
  Producers = {p1, p2}
  Lens <- UpToFull
  MaxMsgs = 2
  AsyncSafe = FALSE
  BufferSize = 3
  Threshold = 9
  LinearGrowth = 3
  IntSpan = 1024
  MaxCapacity = 400
SPECIFICATION Spec
INVARIANT
  NoOverrun
PROPERTIES
  ImplementsChannel
