CONSTANTS
  Callers = {"c1", "c2"}
  Ids = {"i1", "i2"}
  Jobs <- MCJobs
  Inspection = "inspect"
  Units <- MCUnits
  Attempts = "attempts"
  CodeCap <- MCCodeCap
  Policies <- WithinCycle
  Costs <- MCCosts
  Skew <- MCSkew
  Stop = 10
  MaxCount = 3
  MaxCountAllocated = 4
  Freshness = 4
  LeaseTime = 2
  MaxLease = 3
  AllocationCap = 3
  AllocationFloor = 6
  AllocationTime = 4
  AllocationUnitCap <- MCAllocationUnitCap
  MaxTime = 4
SPECIFICATION Spec
INVARIANTS TypeOK WorkedOnce SpendingCovered WithinBudget LedgerBacked AccountCeilings InspectedOnce LeaseBounded
PROPERTY KeepsPromise
