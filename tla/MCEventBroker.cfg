CONSTANTS
  u1 = u1
  u2 = u2
  o1 = o1
  c1 = c1
  c2 = c2
  e1 = e1
  None = None
  Users <- TwoUsers
  Orgs <- OneOrg
  Clients <- TwoClients
  Events <- OneEvent
SPECIFICATION FairBrokerSpec
CHECK_DEADLOCK FALSE
INVARIANTS
  StreamsInOrder
  ChannelsExact
PROPERTIES
  ImplementsFeed
  Forgotten
  ShutdownDrains
