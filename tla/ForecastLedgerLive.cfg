CONSTANTS
  Isolates = {i1, i2}
  Forecasts = {f1}
  Scores = {s1}
  None = None
  Cold = Cold
  Opening = 1
  Recurring = {"settle"}
  MaxJobs = 2
  MaxFaults = 1
SPECIFICATION FairSpec
INVARIANT CheckpointTimely
PROPERTY Settles
