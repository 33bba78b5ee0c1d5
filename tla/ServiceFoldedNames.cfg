CONSTANTS
  f = f
  g = g
  c1 = c1
  c2 = c2
  None = None
  Mixed = Mixed
  Torn = Torn
  Names <- TwoNames
  Contents = {c1, c2}
  KeyOf <- SameFolded
  TmpOf <- Apart
  UploadIds = {}
  ChunkCount = 2
  ShapeOf <- SameShape
  Faults <- NoFaults
SPECIFICATION Spec
PROPERTY
  DeletesNamedFile
