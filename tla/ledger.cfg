SPECIFICATION Spec
CONSTANTS
  MaxAnswered = 2
  AckTimeout = 2
  MaxSent = 2
  Inbound = {"a", "b"}
  MaxAnswers = 4
  MaxTime = 4
  MaxSteps = 1
PROPERTIES ImplementsSendOutcome OncePerWindow
\* The peer may fall silent: the bounds are the only thing that ends a run.
CHECK_DEADLOCK FALSE
