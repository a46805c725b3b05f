CONSTANTS
  c1 = c1
  c2 = c2
  u1 = u1
  r1 = r1
  r2 = r2
  s1 = s1
  s2 = s2
  s3 = s3
  s4 = s4
  s5 = s5
  s6 = s6
  None = None
  Clients <- TwoClients
  Users <- OneUser
  Requests <- TwoRequests
  Secrets <- SixSecrets
  Crashes = TRUE
SPECIFICATION OAuthSpec
SYMMETRY Symmetry
CHECK_DEADLOCK FALSE
INVARIANTS
  OAuthTypeOK
  OneCredential
  BoundToApproval
PROPERTIES
  RefinesGrants
