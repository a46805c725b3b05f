CONSTANTS
  u1 = u1
  u2 = u2
  u3 = u3
  o1 = o1
  o2 = o2
  t1 = t1
  t2 = t2
  m1 = m1
  m2 = m2
  m3 = m3
  None = None
  Users <- TwoUsers
  Orgs <- OneOrg
  Teams <- OneTeam
  MemoryIds <- ThreeMemories
  MaxSeats = 2
  Crashes = TRUE
SPECIFICATION Spec
SYMMETRY Symmetry
INVARIANTS
  OneLevelThreads
  ScopesExist
PROPERTIES
  NoForeignPurge
  OnlyAuthorTrashes
  ThreadMembership
