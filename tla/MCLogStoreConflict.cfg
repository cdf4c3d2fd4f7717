CONSTANTS
  small = small
  large = large
  Value = {small, large}
  MaxOffset = 6
  Width <- MCWidth
  MaxStoreBytes = 30
  MaxIndexBytes = 40
  InitialOffset = 1
  TrailingLogs = 1
  MaxBatch = 2
SPECIFICATION ConflictSpec
INVARIANTS
  GetLogReturnsEntry
