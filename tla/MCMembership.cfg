CONSTANTS
  m1 = m1
  m2 = m2
  m3 = m3
  x = x
  y = y
  z = z
  w = w
  Node = {m1, m2, m3}
  Addr = {x, y, z, w}
  Nobody = Nobody
  Bootstrap = m1
  BootstrapAddr = x
  MaxChanges = 5
SPECIFICATION Spec
INVARIANTS
  Inv
  ConfigFollowsMembers
PROPERTIES
  HandlerCatchesUp
CHECK_DEADLOCK FALSE
