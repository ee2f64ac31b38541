CONSTANTS
  Isolates = {i1}
  Forecasts = {f1}
  Scores = {s1}
  None = None
  Cold = Cold
  Opening = 2
  Recurring = {}
  MaxJobs = 2
  MaxFaults = 0
SPECIFICATION Spec
INVARIANT PostponedUngraded
CHECK_DEADLOCK FALSE
