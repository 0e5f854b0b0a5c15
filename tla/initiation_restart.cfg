SPECIFICATION Spec
CONSTANTS
  Drivers = {"Machine"}
  MidCall = {}
  MaxTokens = 4
  PendingLifetime = 2
  RequestTimeout = 2
  CommunicationLifetime = 2
  Late = FALSE
  MaxFaults = 1
  MaxSessions = 1
  MaxTime = 10
CHECK_DEADLOCK FALSE
INVARIANT NotPairedMeansGone
