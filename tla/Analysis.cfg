SPECIFICATION Spec
CONSTANTS
  NumBlocks = 2
  BlockCells = 4
  SectorCells = 2
  CountedSector = 4
  Contents <- MCContents
  Uniform = {0}
  Files <- MCFiles
  MaxRecords = 3
  MaxTime = 3
INVARIANTS ExportExact NewestPrinted SearchRight
