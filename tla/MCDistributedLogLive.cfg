CONSTANTS
  n1 = n1
  n2 = n2
  n3 = n3
  Node = {n1, n2, n3}
  Nobody = Nobody
  a = a
  b = b
  Value = {a}
  MaxEntries = 3
  MaxCalls = 3
  MaxStops = 1
SPECIFICATION FairSpec
PROPERTIES
  AckedIsReplicated
  CallsReturn
CHECK_DEADLOCK FALSE
