CONSTANTS
  u1 = u1
  u2 = u2
  o1 = o1
  o2 = o2
  t1 = t1
  m1 = m1
  m2 = m2
  None = None
  Users <- TwoUsers
  Orgs <- TwoOrgs
  Teams <- OneTeam
  MemoryIds <- TwoMemories
  MaxSeats = 2
  Crashes = FALSE
SPECIFICATION Spec
SYMMETRY Symmetry
CONSTRAINT FewInvites
INVARIANTS
  ReadersEntitled
  
PROPERTIES
  FoundCanBeOpened
  ReadersChangeByConsent
