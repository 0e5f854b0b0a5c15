SPECIFICATION Spec
CONSTANTS
  PING_INTERVAL = 3
  AckTimeout = 2
  Loop = {"run", "step"}
  MaxTime = 6
  MaxQueued = 3
  Offsets = {0, 3, 6}
  StartTime = 3
  MaxSetBack = 3
CHECK_DEADLOCK FALSE
INVARIANTS PingsInTime DeadlinesKeepTime LastWordsAreSent
