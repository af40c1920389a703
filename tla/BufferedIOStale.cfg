SPECIFICATION Spec
CONSTANTS
  SectorSize = 2
  BufferSize = 6
  ReadBufferSize = 6
  HeaderSize = 1
  MaxData = 3
  FileCap = 18
  MaxWrites = 4
  IOErrors = FALSE
INVARIANTS ReadReturnsWritten
