CONSTANTS
  Lens <- OneOrOversize
  MaxSize = 2
  MaxCount = 2
  MaxAge = 1
  DayLength = 2
  MaxClock = 2
  MaxSeq = 4
  MaxStarts = 2
  Closed = Closed
SPECIFICATION Spec
INVARIANTS
  TypeOK
  FileSizeBounded
  OneDayPerFile
  CountBounded
PROPERTIES
  RemovesOldOnly
