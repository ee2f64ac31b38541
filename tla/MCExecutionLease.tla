--------------------------- MODULE MCExecutionLease ---------------------------
(* One worker whose jobs make two calls at once, over two billing cycles: a job *)
(* that fetches twice, one that reads and writes R2, and the inspection.        *)
EXTENDS ExecutionLease, TLC

MCJobs == {"collect", "publish", "inspect"}
MCUnits == {"requests", "responseBytes", "r2Reads", "r2Writes", "r2Bytes", "attempts"}
MCCodeCap == [collect |-> [requests |-> 2, responseBytes |-> 2],
              publish |-> [r2Reads |-> 1, r2Writes |-> 1, r2Bytes |-> 2],
              inspect |-> [attempts |-> 1]]
MCCosts == {Asking(kind, n) : kind \in Kinds, n \in Sizes}
           \union {Bytes(kind, n) : kind \in {"fetch", "get"}, n \in Sizes \union 1..MaxPart}
MCSkew == [c1 |-> 0]
MCAllocationUnitCap == [requests |-> 4]
MCSizes == {1}

Terms ==
  [collect |-> [cost |-> 2, overhead |-> 0, maxUnits |-> [requests |-> 2, responseBytes |-> 1]],
   publish |-> [cost |-> 3, overhead |-> 0, maxUnits |-> [r2Reads |-> 1, r2Writes |-> 1, r2Bytes |-> 2]]]
UnitCeilings == [requests |-> 4, responseBytes |-> 2, r2Reads |-> 1, r2Writes |-> 1, r2Bytes |-> 2]
\* Evidence from late in the first cycle, which outlives it ...
Late ==
  [enabled |-> TRUE, startMs |-> 0, endMs |-> 1, measuredAtMs |-> 0, expiresAtMs |-> 4,
   committed |-> 6, unitCeilings |-> [requests |-> 2, responseBytes |-> 1],
   jobs |-> [collect |-> Terms.collect], allocation |-> NoAllocation]
\* ... and the next cycle, which runs on a fixed allocation.
NextCycle ==
  [Late EXCEPT !.startMs = 1, !.endMs = 5, !.measuredAtMs = 1, !.expiresAtMs = 5,
               !.unitCeilings = UnitCeilings, !.jobs = Terms,
               !.allocation = [authorized |-> TRUE, observed |-> 6, maxReserved |-> 3]]
AcrossCycles == {Late, NextCycle}
Symmetry == Permutations(Slots)
=============================================================================
