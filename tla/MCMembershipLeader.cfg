CONSTANTS
  m1 = m1
  m2 = m2
  m3 = m3
  x = x
  y = y
  z = z
  w = w
  Node = {m1, m2, m3}
  Addr = {x, y, z}
  Nobody = Nobody
  Bootstrap = m1
  BootstrapAddr = x
  MaxChanges = 3
SPECIFICATION LeaveSpec
PROPERTIES
  LeaversAreRemoved
CHECK_DEADLOCK FALSE
