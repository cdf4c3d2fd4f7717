CONSTANTS
  s1 = s1
  s2 = s2
  s3 = s3
  Servers <- MCServers
  Nobody = Nobody
  Target = s1
  Cycle = 6
  MaxLosses = 1
SPECIFICATION Spec
INVARIANTS
  Inv
  ProduceGoesToListedLeader
  ConsumeIsServed
PROPERTIES
  FailoverIsNoticed
