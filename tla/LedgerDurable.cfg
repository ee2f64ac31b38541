CONSTANTS
  Isolates = {i1}
  Forecasts = {f1}
  Scores = {s1}
  None = None
  Cold = Cold
  Opening = 2
  Recurring = {}
  MaxJobs = 3
  MaxFaults = 2
SPECIFICATION Spec
INVARIANT CachedHarvestDurable
CHECK_DEADLOCK FALSE
