CONSTANTS
  u1 = u1
  c1 = c1
  c2 = c2
  s1 = s1
  r1 = r1
  r2 = r2
  None = None
  Users <- OneUser
  Customers <- TwoCustomers
  Subscriptions <- OneSubscription
  Requests <- TwoRequests
  Offered <- ProOnly
  MaxFaults = 1
SPECIFICATION FairBillingSpec
CHECK_DEADLOCK FALSE
INVARIANTS
  AccountsInOrder
  PlanIsEarned
PROPERTIES
  PaidIsServed
