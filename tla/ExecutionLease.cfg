CONSTANTS
  Callers = {"c1"}
  Ids = {"i1", "i2"}
  Slots = {k1, k2}
  Sizes <- MCSizes
  MaxPart = 2
  Jobs <- MCJobs
  Inspection = "inspect"
  Units <- MCUnits
  Attempts = "attempts"
  CodeCap <- MCCodeCap
  Policies <- AcrossCycles
  Costs <- MCCosts
  Skew <- MCSkew
  Stop = 10
  MaxCount = 3
  MaxCountAllocated = 4
  Freshness = 4
  LeaseTime = 2
  MaxLease = 3
  AllocationCap = 3
  AllocationFloor = 6
  AllocationTime = 4
  AllocationUnitCap <- MCAllocationUnitCap
  MaxTime = 3
SPECIFICATION CallSpec
INVARIANTS CycleOverrun AllocationHonoured TakenCovered
SYMMETRY Symmetry
