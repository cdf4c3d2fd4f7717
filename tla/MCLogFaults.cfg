CONSTANTS
  small = small
  large = large
  Value = {small, large}
  MaxOffset = 4
  Width <- MCWidth
  MaxStoreBytes = 40
  MaxIndexBytes = 40
  MaxBytes = 37
  MaxFaults = 2
  InitialOffset = 0
SPECIFICATION FaultSpec
INVARIANTS
  FaultInv
  AckedOffsetsUnique
PROPERTIES
  AckedEntriesSurvive
  DurableRecordsStay
