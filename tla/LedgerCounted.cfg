CONSTANTS
  Isolates = {i1}
  Forecasts = {f1}
  Scores = {s1}
  None = None
  Cold = Cold
  Opening = 2
  Recurring = {}
  MaxJobs = 1
  MaxFaults = 1
SPECIFICATION Spec
INVARIANT CachedHarvestCounted
CHECK_DEADLOCK FALSE
