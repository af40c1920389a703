SPECIFICATION Spec
CONSTANTS
  NumBlocks = 2
  SectorsPerBlock = 2
  SectorCells = 2
  HeaderCells = 1
  BufferCells = 6
  FirstOffset = 4
  Values = {1}
  Extent <- MCExtent
  MaxSecs = 2
  MaxRequests = 3
  MaxTime = 0
  ClockStepsBack = FALSE
INVARIANTS LogSound HistoryRecorded ReadReturnsWritten
PROPERTIES ImplementsLog ImplementsHistory
