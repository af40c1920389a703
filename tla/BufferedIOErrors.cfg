SPECIFICATION Spec
CONSTANTS
  SectorSize = 2
  BufferSize = 4
  ReadBufferSize = 4
  HeaderSize = 1
  MaxData = 2
  FileCap = 12
  MaxWrites = 3
  IOErrors = TRUE
INVARIANTS LogIntact ReadRightUnlessStale
PROPERTIES CommittedImmutable
