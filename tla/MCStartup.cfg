CONSTANTS
  u1 = u1
  None = None
  Accounts <- OneAccount
  MaxDeaths = 1
SPECIFICATION StartSpec
CHECK_DEADLOCK FALSE
INVARIANT ServesWholeSchema
PROPERTIES
  EventuallyServes
