SPECIFICATION FairSpec
CONSTANTS
  Negotiation = "Handshake"
  Offered <- BothVersions
  Supported <- PrefersNew
  Details = {"storage"}
  InitialDetails = "storage"
  Available <- OnlyStorage
  OutOfOrder <- CemCloses
  PolicyAnswers <- NoPolicy
  ContentKinds = {}
  Frames = {"NoArg", "Oversized"}
  GivesUp = {"RM", "CEM"}
  MaxMinted <- Mint33
  MaxCopies = 0
  RmKinds = {"PowerMeasurement"}
  CemKinds = {}
  CemSelections = {"FRBC"}
  OverlapsSelections = FALSE
INVARIANTS AwaitedSelectionIsPending
PROPERTIES HandshakeEnds ClosePropagates EverySendEnds
