CONSTANTS
  Workers = {w1, w2}
  NRows = 3
  CollectedAt <- Captures
  Eligibility = 1
  HotWindow = 2
  LeaseTtl = 1
  PageSize = 2
  MaxRounds = 2
  MaxClock = 1
  MaxRuns = 2
SYMMETRY Symmetry
SPECIFICATION Spec
INVARIANT CohortArchived
CHECK_DEADLOCK FALSE
