SPECIFICATION Spec
CONSTANTS
  Negotiation = "PreNegotiated"
  Offered <- BothVersions
  Supported <- PrefersNew
  Details = {"storage", "meter"}
  InitialDetails = "storage"
  Available <- StorageOrMeter
  OutOfOrder <- CemCloses
  PolicyAnswers <- NoPolicy
  ContentKinds = {}
  Frames = {"NoArg"}
  GivesUp = {}
  MaxMinted <- Mint33
  MaxCopies = 1
  RmKinds = {"FrbcStorageStatus"}
  CemKinds = {"FrbcInstruction"}
  CemSelections = {"FRBC", "NO_SELECTION"}
  OverlapsSelections = FALSE
INVARIANTS FollowsResource PublicationsInPlace OnlyRacingInstructionsOutOfPlace
