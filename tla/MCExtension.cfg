CONSTANTS
  m1 = m1
  f1 = f1
  f2 = f2
  j1 = j1
  j2 = j2
  None = None
  Messages <- OneMessage
  Flows <- TwoFlows
  Jobs <- TwoJobs
  MaxTriggers = 2
  MaxFaults = 2
SPECIFICATION FairExtensionSpec
CHECK_DEADLOCK FALSE
INVARIANTS
  PrimingHeld
  WritesExcused
PROPERTIES
  MessageKept
  PrimingEnds
  MessageSurvives
