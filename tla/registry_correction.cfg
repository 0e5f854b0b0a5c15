SPECIFICATION Spec
CONSTANTS
  Types = {"FRBC", "OMBC"}
  Descriptions = {"f1", "f2", "f3", "o1"}
  TypeOf <- ThreeAndOne
  MaxScheduled = 2
  MaxTime = 3
INVARIANTS QueueHoldsTheCorrection
