SPECIFICATION Spec
CONSTANTS
  c1 = c1
  c2 = c2
  Clients = {c1, c2}
  Roles = {"Cem", "Rm"}
  Places = {"Lan"}
  Homes = {"Lan"}
  Budget = 3
  Delay = 1
  RequestTimeout = 2
  MaxOpenings = 2
  MaxRuns = 2
  MaxAttempts = 2
  MaxFaults = 1
  MaxTime = 5
INVARIANTS RouterAgrees PairingsAreMutual OpeningUsedOnce LastManagerOnly FailureReleases
PROPERTY AnswersAreSpaced
SYMMETRY Symmetry
CHECK_DEADLOCK FALSE
