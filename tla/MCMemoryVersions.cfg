CONSTANTS
  u1 = u1
  u2 = u2
  o1 = o1
  t1 = t1
  m1 = m1
  m2 = m2
  x1 = x1
  x2 = x2
  None = None
  Users <- TwoUsers
  Orgs <- OneOrg
  Teams <- OneTeam
  MemoryIds <- TwoMemories
  Texts <- TwoTexts
  MaxSeats = 2
  MaxVersions = 2
  Crashes = TRUE
SPECIFICATION VersionedSpec
SYMMETRY Symmetry
CONSTRAINT PlainMembership
INVARIANTS
  VersionsTypeOK
  VersionsContiguous
  ReadersAreEditors
PROPERTIES
  HistoryKept
