SPECIFICATION Spec
CONSTANTS
  Types = {"FRBC", "OMBC"}
  Descriptions = {"f1", "f2", "o1"}
  TypeOf <- TwoAndOne
  MaxScheduled = 2
  MaxTime = 2
INVARIANT RevokedStaysGone
PROPERTIES ReplacementSurvivesRevoke EvictionKeepsTheSoonest
