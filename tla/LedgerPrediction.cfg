CONSTANTS
  Isolates = {i1, i2}
  Forecasts = {f1}
  Scores = {s1}
  None = None
  Cold = Cold
  Opening = 2
  Recurring = {}
  MaxJobs = 3
  MaxFaults = 0
SPECIFICATION Spec
INVARIANT PredictionKeepsFinal
CHECK_DEADLOCK FALSE
