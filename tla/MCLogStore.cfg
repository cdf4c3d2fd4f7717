CONSTANTS
  small = small
  large = large
  Value = {small, large}
  MaxOffset = 7
  Width <- MCWidth
  MaxStoreBytes = 30
  MaxIndexBytes = 40
  InitialOffset = 1
  TrailingLogs = 1
  MaxBatch = 2
SPECIFICATION StoreSpec
INVARIANTS
  StoreInv
  GetLogReturnsEntry
  RangeIsReadable
  CompactionIsComplete
