SPECIFICATION Spec
CONSTANTS
  Absent = Absent
  NotFinite = NotFinite
  Unit = 2
  MaxTracked = 2
  Horizon = 2
  SkewTolerance = 1
  Messages <- AllMessages
  Described <- TheDescriptions
  InitialDetails <- TheDetails
  Profile = "V1_0_0"
  MaxScheduled = 1
  MaxTime = 1
INVARIANTS AcceptedResolves BlockedAsExplained KnownIsDescribed EnvelopeAsAllowed WindowsAreExact TooShortMeansUnschedulable ExplainedAsDescribed
