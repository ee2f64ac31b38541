CONSTANTS
  Isolates = {i1, i2}
  Forecasts = {f1, f2}
  Scores = {s1, s2}
  None = None
  Cold = Cold
  Opening = 2
  Recurring = {}
  MaxJobs = 3
  MaxFaults = 1
SPECIFICATION Spec
INVARIANTS TypeOK FormCountsOnce FinalsOnlyWhenOver GradingOkDurable
PROPERTY KeepsRecord
CHECK_DEADLOCK FALSE
SYMMETRY Symmetry
