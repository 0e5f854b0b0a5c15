SPECIFICATION FairSpec
CONSTANTS
  Nodes = {"n1", "n2", "n3"}
  Clients = {"gateway", "stranger"}
  Asks <- ThreeAndOne
  MAX_WAITING = 2
  MAX_PER_POLL = 2
  LONG_POLL_HOLD = 1
  LONG_POLL_TIMEOUT = 2
  Hosts = {"h1"}
  MaxRequests = 2
  MaxActions = 3
  MaxHangUps = 1
INVARIANTS SleepersAreWoken EachActionOnceInOrder
PROPERTIES QueuedActionsArrive
