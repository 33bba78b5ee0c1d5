CONSTANTS
  f = f
  c1 = c1
  c2 = c2
  p1 = p1
  p2 = p2
  None = None
  Mixed = Mixed
  Torn = Torn
  Names = {f}
  Target = f
  Contents = {c1, c2}
  KeyOf <- OneName
  TmpOf <- TmpApart
  UploadIds = {u1, u2}
  ChunkCount = 2
  ShapeOf <- SameShape
  Faults = {}
  Pages = {p1, p2}
  Selections <- SameOrOther
  Attempts = 2
  Concurrency = 2
  MaxFaults = 0
SPECIFICATION ClientSpec
INVARIANT
  OwnChunksOnly
