CONSTANTS
  u1 = u1
  u2 = u2
  u3 = u3
  o1 = o1
  o2 = o2
  t1 = t1
  t2 = t2
  None = None
  Users <- TwoUsers
  Orgs <- TwoOrgs
  Teams <- OneTeam
  MaxSeats = 2
  Crashes = FALSE
SPECIFICATION OrgSpec
SYMMETRY Symmetry
CHECK_DEADLOCK FALSE
PROPERTY RemovedByOwnOrg
