SPECIFICATION Spec
CONSTANTS
  Negotiation = "Handshake"
  Offered <- OnlyBeta
  Supported <- PrefersNew
  Details = {"storage"}
  InitialDetails = "storage"
  Available <- OnlyStorage
  OutOfOrder <- CemCloses
  PolicyAnswers <- RmPolicy
  ContentKinds = {"PowerMeasurement"}
  Frames = {"NoArg"}
  GivesUp = {}
  MaxMinted <- Mint33
  MaxCopies = 1
  RmKinds = {"PowerMeasurement"}
  CemKinds = {"FrbcInstruction"}
  CemSelections = {"FRBC", "NO_SELECTION"}
  OverlapsSelections = FALSE
INVARIANTS TypeOK VersionAgreement NoForgottenAck ReasonsAreTrue
PROPERTIES ClosedIsFinal
