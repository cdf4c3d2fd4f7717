CONSTANTS
  small = small
  large = large
  Value = {small, large}
  MaxOffset = 6
  Width <- MCWidth
  MaxStoreBytes = 26
  MaxIndexBytes = 30
  InitialOffset = 0
SPECIFICATION Spec
INVARIANTS
  Inv
  SegmentsTile
  IndexLeadsToRecord
  ReaderStreamIsTheLog
  AppendNeverFails
PROPERTIES
  SealedSegmentsAreFrozen
  ImplementsCommitLog
