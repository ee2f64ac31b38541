--------------------------- MODULE MCAccountBudget ---------------------------
(* A small account: two workers (one whose clock is behind), two reservation  *)
(* ids, three certified jobs and one that is not, and the policies an operator *)
(* deploys over a billing cycle.                                               *)
EXTENDS AccountBudget

MCJobs == {"stream", "relay", "inspect", "legacy"}
MCUnits == {"requests", "attempts"}
MCCodeCap == [stream |-> [requests |-> 3], relay |-> [requests |-> 1],
              inspect |-> [requests |-> 0, attempts |-> 1]]
MCCosts == {[requests |-> 1, attempts |-> 0], [requests |-> 0, attempts |-> 1]}
MCSkew == [c1 |-> 0, c2 |-> -2]
MCAllocationUnitCap == [requests |-> 4]

Terms ==
  [stream  |-> [cost |-> 2, overhead |-> 0, maxUnits |-> [requests |-> 2]],
   relay   |-> [cost |-> 3, overhead |-> 0, maxUnits |-> [requests |-> 1]],
   inspect |-> [cost |-> 1, overhead |-> 1, maxUnits |-> [requests |-> 0, attempts |-> 1]],
   legacy  |-> [cost |-> 1, overhead |-> 0, maxUnits |-> [requests |-> 1]]]

\* Evidence measured at the start of the cycle; six of ten dollars already billed.
Measured ==
  [enabled |-> TRUE, startMs |-> 0, endMs |-> 4, measuredAtMs |-> 0, expiresAtMs |-> 3,
   committed |-> 6, jobs |-> Terms, unitCeilings |-> [requests |-> 3, attempts |-> 1],
   allocation |-> NoAllocation]
\* Measured again: more is billed, a ceiling is raised, and the terms of the
\* inspection leave its one attempt out, which the code does not accept.
Remeasured ==
  [Measured EXCEPT !.measuredAtMs = 1, !.expiresAtMs = 4, !.committed = 7,
                   !.unitCeilings = [requests |-> 4, attempts |-> 1],
                   !.jobs = [Terms EXCEPT !.inspect.maxUnits = [requests |-> 0]]]
Paused == [Measured EXCEPT !.enabled = FALSE]
\* Within one cycle: jobs of every kind, evidence renewed, a pause.
WithinCycle == {Measured, Remeasured, Paused}
=============================================================================
