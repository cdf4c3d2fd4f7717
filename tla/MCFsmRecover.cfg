CONSTANTS
  small = small
  large = large
  Value = {small, large}
  MaxOffset = 5
  Width <- MCWidth
  MaxStoreBytes = 40
  MaxIndexBytes = 40
  InitialOffset = 0
SPECIFICATION RecoverSpec
CHECK_DEADLOCK FALSE
INVARIANTS
  LogIsApplied
