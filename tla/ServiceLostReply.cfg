CONSTANTS
  f = f
  g = g
  c1 = c1
  c2 = c2
  None = None
  Mixed = Mixed
  Torn = Torn
  Names <- OneName
  Contents = {c1}
  KeyOf <- Distinct
  TmpOf <- Apart
  UploadIds = {}
  ChunkCount = 2
  ShapeOf <- SameShape
  Faults <- OnlyLostReply
SPECIFICATION Spec
INVARIANT
  RowMatchesFile
