CONSTANTS
  f = f
  g = g
  c1 = c1
  c2 = c2
  None = None
  Mixed = Mixed
  Torn = Torn
  Names <- TwoNames
  Contents = {c1, c2}
  KeyOf <- Distinct
  TmpOf <- Apart
  UploadIds = {u1}
  ChunkCount = 2
  ShapeOf <- OwnShape
  Faults <- AllButStartup
SPECIFICATION Spec
INVARIANTS
  TypeOK
  DurableUploads
  RowMatchesFile
  CacheCoherent
  NoTornFile
PROPERTIES
  NoOverwrite
  ChunksKeptUntilStored
  ImplementsStore
