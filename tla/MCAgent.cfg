CONSTANTS
  c1 = c1
  c2 = c2
  Client = {c1, c2}
  Others = others
  Allowed <- MCAllowed
  Calls <- MCCalls
  MaxRequests = 2
  MaxRecords = 2
  Bootstrap = TRUE
SPECIFICATION AgentSpec
CHECK_DEADLOCK FALSE
INVARIANTS
  StreamFollowsLog
  AnswersNameRecords
  OneInDoubt
  NilMeansClosed
  NoHandlerOnClosedLog
  ShutdownFindsItsParts
  PeerReachesRaft
  BootstrapNodeLeads
PROPERTIES
  TailIsDelivered
  HangsOnlyOnStreams
