SPECIFICATION FairSpec
CONSTANTS
  Drivers = {"Session", "Machine"}
  MidCall = {"Machine"}
  MaxTokens = 3
  PendingLifetime = 3
  RequestTimeout = 2
  CommunicationLifetime = 2
  Late = FALSE
  MaxFaults = 1
  MaxSessions = 2
  MaxTime = 7
CHECK_DEADLOCK FALSE
INVARIANTS PairingSurvives DriverKnowsWhenGone
PROPERTIES ConnectionsAreAuthorised Reconnects
