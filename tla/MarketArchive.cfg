CONSTANTS
  Workers = {w1, w2}
  NRows = 3
  CollectedAt <- Captures
  Eligibility = 1
  HotWindow = 2
  LeaseTtl = 1
  PageSize = 2
  MaxRounds = 2
  MaxClock = 1
  MaxRuns = 3
SYMMETRY Symmetry
SPECIFICATION Spec
INVARIANTS TypeOK LeaseExcludes PassedIsArchived CheckpointVerifies
PROPERTIES CursorAdvances
CHECK_DEADLOCK FALSE
