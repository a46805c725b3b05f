CONSTANTS
  u1 = u1
  u2 = u2
  u3 = u3
  o1 = o1
  o2 = o2
  t1 = t1
  t2 = t2
  None = None
  Users <- ThreeUsers
  Orgs <- TwoOrgs
  Teams <- TwoTeams
  MaxSeats = 2
  Crashes = TRUE
SPECIFICATION OrgSpec
SYMMETRY Symmetry
CHECK_DEADLOCK FALSE
INVARIANTS
  OwnerIsCreator
  SeatLimit
  OrgRefsExist
PROPERTIES
  JoinsTeamOfOwnOrg
