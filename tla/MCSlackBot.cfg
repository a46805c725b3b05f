CONSTANTS
  d1 = d1
  d2 = d2
  d3 = d3
  t1 = t1
  t2 = t2
  s1 = s1
  s2 = s2
  r1 = r1
  None = None
  Deliveries <- ThreeDeliveries
  Threads <- TwoThreads
  Scopes <- OneScope
  Requests <- OneRequest
  MaxTurns = 2
  MaxSteps = 1
SPECIFICATION FairSlackSpec
CHECK_DEADLOCK FALSE
INVARIANTS
  SlackTypeOK
  CoherentHistory
PROPERTIES
  Answered
  UninstallTakesEffect
