CONSTANTS
  n1 = n1
  n2 = n2
  n3 = n3
  Node = {n1, n2, n3}
  Nobody = Nobody
  a = a
  b = b
  Value = {a, b}
  MaxEntries = 3
  MaxCalls = 2
  MaxStops = 1
SYMMETRY NodeSymmetry
SPECIFICATION Spec
INVARIANTS
  Inv
  LogsAgree
  AckedOffsetNamesRecord
CHECK_DEADLOCK FALSE
