SPECIFICATION TTSpec
CONSTANTS
  NumBlocks = 2
  SectorsPerBlock = 2
  SectorCells = 2
  HeaderCells = 1
  BufferCells = 6
  FirstOffset = 4
  Values = {1}
  Extent <- MCExtent
  MaxSecs = 2
  MaxRequests = 2
  MaxTime = 1
  ClockStepsBack = FALSE
INVARIANTS ViewCorrect FaultOnlyInRace RestoredStateExisted
PROPERTIES ViewStable
