---------------------------- MODULE AccountBudget ----------------------------
(***************************************************************************)
(* The account-wide admission ledger of services/account-budget: one       *)
(* durable object per Cloudflare account (worker.mjs) reserves worst-case  *)
(* dollars and units for a job before it runs (admission.mjs), and the     *)
(* caller spends against a lease opened from the grant (jobScope.mjs,      *)
(* execution.mjs).  Callers crash, replies get lost, the policy is         *)
(* redeployed under running jobs, and callers' clocks are skewed.          *)
(***************************************************************************)
EXTENDS Integers, FiniteSets, FiniteSetsExt, Functions

CONSTANTS
  Callers,           \* workers that ask for admission
  Ids,               \* reservation ids that callers use
  Jobs,              \* job names that callers ask for
  Inspection,        \* PINNED_INSPECTION_JOB
  Units,             \* metered units
  Attempts,          \* the unit inspectionAttempts
  CodeCap,           \* units of CERTIFIED_EXECUTION_JOBS, for the certified jobs
  Policies,          \* values FBIS_ACCOUNT_BUDGET_POLICY is deployed with
  Costs,             \* what one call of spend may charge, a count for every unit
  Skew,              \* a caller's clock minus the coordinator's
  Stop,              \* STOP_MICRO_USD
  MaxCount,          \* reservations of one period (10_000)
  MaxCountAllocated, \* the same under a cycle allocation (150_000)
  Freshness,         \* how old cost evidence may be (900_000 ms)
  LeaseTime,         \* life of a grant (110_000 ms)
  MaxLease,          \* longest lease a caller opens (120_000 ms)
  AllocationCap, AllocationFloor, AllocationTime, AllocationUnitCap,
  MaxTime            \* bound on the clock

VARIABLES
  policy,       \* the policy deployed now
  now,          \* Date.now() of the coordinator
  ledger,       \* period -> reserved dollars, reservations, reserved units
  reservations, \* period -> id -> what was put under its reservation key
  caller,       \* where each caller is in its request, and its lease
  begun,        \* observed: <<period, id>> for which a lease was opened
  spent         \* observed: period -> id -> units charged to its lease

vars == <<policy, now, ledger, reservations, caller, begun, spent>>

Certified == DOMAIN CodeCap
Period(p) == <<p.startMs, p.endMs>>
Periods == {Period(p) : p \in Policies}
Zero == [u \in Units |-> 0]
Amount(f, u) == IF u \in DOMAIN f THEN f[u] ELSE 0
Least(a, b) == IF a <= b THEN a ELSE b

\* A count for some of the units, as maxUnits and unitCeilings are.
IsUnits(f) == DOMAIN f \subseteq Units /\ f \in [DOMAIN f -> Nat]
IsTerms(t) ==
  /\ t \in [cost : Nat, overhead : Nat, maxUnits : {t.maxUnits}]
  /\ IsUnits(t.maxUnits)
NoAllocation == [authorized |-> FALSE, observed |-> 0, maxReserved |-> 0]
IsPolicy(p) ==
  /\ p \in [enabled : BOOLEAN, startMs : Nat, endMs : Nat, measuredAtMs : Nat,
            expiresAtMs : Nat, committed : Nat, jobs : {p.jobs},
            unitCeilings : {p.unitCeilings},
            allocation : [authorized : BOOLEAN, observed : Nat, maxReserved : Nat]]
  /\ DOMAIN p.jobs \subseteq Jobs /\ \A j \in DOMAIN p.jobs : IsTerms(p.jobs[j])
  /\ IsUnits(p.unitCeilings)

ASSUME ConstantsOK ==
  /\ Policies # {} /\ \A p \in Policies : IsPolicy(p)
  /\ Ids # {}
  /\ Inspection \in Jobs /\ Attempts \in Units
  /\ Certified \subseteq Jobs /\ \A j \in Certified : IsUnits(CodeCap[j])
  /\ Inspection \in Certified => Amount(CodeCap[Inspection], Attempts) = 1
  /\ Costs \subseteq [Units -> Nat]
  /\ Skew \in [Callers -> Int]
  /\ {Stop, MaxCount, MaxCountAllocated, Freshness, LeaseTime, MaxLease,
      AllocationCap, AllocationFloor, AllocationTime, MaxTime} \subseteq Nat
  /\ IsUnits(AllocationUnitCap)

\* Ids match /^[a-zA-Z0-9_-]{1,80}$/, and a policy is the text of one environment
\* variable, whose length is bounded: there are finitely many of both.
ASSUME FinitelyMany == IsFiniteSet(Ids) /\ IsFiniteSet(Policies)

-----------------------------------------------------------------------------
(* Which requests a policy admits *)

\* validCycleAllocation: an owner-approved fixed slice of the cycle.
ValidCycleAllocation(p, t) ==
  LET a == p.allocation IN
  /\ a.authorized
  /\ a.observed <= p.committed
  /\ a.maxReserved \in 1..AllocationCap
  /\ p.committed >= AllocationFloor /\ p.committed + a.maxReserved <= Stop
  /\ p.expiresAtMs = p.endMs /\ p.endMs - p.measuredAtMs <= AllocationTime
  /\ p.startMs <= p.measuredAtMs /\ p.measuredAtMs <= t /\ t < p.endMs
  /\ \A u \in DOMAIN AllocationUnitCap :
        u \in DOMAIN p.unitCeilings /\ p.unitCeilings[u] <= AllocationUnitCap[u]

\* Mutant: the cycle's end is not looked at.
EvidenceFreshPastCycle(p, t) ==
  /\ p.startMs <= t
  /\ p.measuredAtMs <= t /\ t < p.expiresAtMs
  /\ \/ ValidCycleAllocation(p, t)
     \/ t - p.measuredAtMs <= Freshness /\ p.expiresAtMs - p.measuredAtMs <= Freshness

EvidenceFresh(p, t) ==
  /\ p.startMs <= t /\ t < p.endMs
  /\ p.measuredAtMs <= t /\ t < p.expiresAtMs
  /\ \/ ValidCycleAllocation(p, t)
     \/ t - p.measuredAtMs <= Freshness /\ p.expiresAtMs - p.measuredAtMs <= Freshness

\* Mutant: the inspection's units need not be exactly those of the code.
PolicyCertifiesAtMost(p, job) ==
  /\ job \in Certified /\ job \in DOMAIN p.jobs
  /\ DOMAIN p.jobs[job].maxUnits # {}
  /\ \A u \in DOMAIN p.jobs[job].maxUnits :
       u \in DOMAIN CodeCap[job] /\ p.jobs[job].maxUnits[u] <= CodeCap[job][u]

\* executionPolicyError returns null: the code certifies the job and the policy
\* asks for no more than the code's ceilings; the inspection asks for exactly them.
PolicyCertifies(p, job) ==
  /\ job \in Certified /\ job \in DOMAIN p.jobs
  /\ LET maxUnits == p.jobs[job].maxUnits IN
     /\ DOMAIN maxUnits # {}
     /\ \A u \in DOMAIN maxUnits : u \in DOMAIN CodeCap[job] /\ maxUnits[u] <= CodeCap[job][u]
     /\ job = Inspection => /\ p.jobs[job].overhead >= 1
                            /\ Attempts \in DOMAIN p.unitCeilings /\ p.unitCeilings[Attempts] = 1
                            /\ maxUnits = CodeCap[job]

JobCost(p, job) ==
  p.jobs[job].cost + IF job = Inspection THEN p.jobs[job].overhead ELSE 0

LedgerHasRoom(p, t) ==
  ledger[Period(p)].count < IF ValidCycleAllocation(p, t) THEN MaxCountAllocated ELSE MaxCount

\* Mutant: an id is a duplicate only while a worker is running under it.
NotDuplicateRunning(p, id) ==
  ~\E c \in Callers : caller[c].pc = "running" /\ caller[c].id = id /\ caller[c].period = Period(p)
NotDuplicate(p, id) == ~reservations[Period(p)][id].taken

\* Mutant: each job alone is held against the allocation.
WithinAllocationAlone(p, job, t) ==
  ValidCycleAllocation(p, t) => JobCost(p, job) <= p.allocation.maxReserved
WithinAllocation(p, job, t) ==
  ValidCycleAllocation(p, t) =>
    ledger[Period(p)].reserved + JobCost(p, job) <= p.allocation.maxReserved

\* Mutant: what is already billed is left out.
WithinStopUnbilled(p, job) == ledger[Period(p)].reserved + JobCost(p, job) <= Stop
WithinStop(p, job) ==
  p.committed + ledger[Period(p)].reserved + JobCost(p, job) <= Stop

\* Mutant: each job alone is held against the ceilings.
WithinCeilingsAlone(p, job) ==
  \A u \in DOMAIN p.jobs[job].maxUnits :
    u \in DOMAIN p.unitCeilings /\ p.jobs[job].maxUnits[u] <= p.unitCeilings[u]
WithinCeilings(p, job) ==
  \A u \in DOMAIN p.jobs[job].maxUnits :
    /\ u \in DOMAIN p.unitCeilings
    /\ ledger[Period(p)].units[u] + p.jobs[job].maxUnits[u] <= p.unitCeilings[u]

\* AccountBudget.reserve and reserveJob, every condition under which it grants.
Admits(p, job, id, t) ==
  /\ p.enabled
  /\ PolicyCertifies(p, job)
  /\ EvidenceFresh(p, t)
  /\ p.jobs[job].cost >= 1
  /\ LedgerHasRoom(p, t)
  /\ NotDuplicate(p, id)
  /\ WithinAllocation(p, job, t)
  /\ WithinStop(p, job)
  /\ WithinCeilings(p, job)

-----------------------------------------------------------------------------
(* State *)

NoReservation == [taken |-> FALSE, job |-> Inspection, charge |-> 0, bounds |-> Zero]
Idle == [pc |-> "idle", job |-> Inspection, id |-> CHOOSE i \in Ids : TRUE,
         period |-> CHOOSE P \in Periods : TRUE, expiresAtMs |-> 0,
         limits |-> Zero, used |-> Zero, closed |-> FALSE, openedAt |-> 0]

Init ==
  /\ policy \in Policies
  /\ now = 0
  /\ ledger = [P \in Periods |-> [reserved |-> 0, count |-> 0, units |-> Zero]]
  /\ reservations = [P \in Periods |-> [i \in Ids |-> NoReservation]]
  /\ caller = [c \in Callers |-> Idle]
  /\ begun = {}
  /\ spent = [P \in Periods |-> [i \in Ids |-> Zero]]

\* requireJobAdmission: a worker calls the coordinator's reserve.
Request(c, job, id) ==
  /\ caller[c].pc = "idle"
  /\ caller' = [caller EXCEPT ![c] = [Idle EXCEPT !.pc = "sent", !.job = job, !.id = id]]
  /\ UNCHANGED <<policy, now, ledger, reservations, begun, spent>>

\* What reserveJob returns with a grant, and the limits jobScope derives from it.
LeaseLimits(p, job) ==
  [u \in Units |-> Least(Amount(CodeCap[job], u), Amount(p.jobs[job].maxUnits, u))]
GrantExpiry(p, t) == Least(p.expiresAtMs, t + LeaseTime)

\* Mutants: units kept only for the job at hand; units replaced instead of added.
ChargedSparse(entry, p, job) ==
  [reserved |-> entry.reserved + JobCost(p, job), count |-> entry.count + 1,
   units |-> [u \in DOMAIN p.jobs[job].maxUnits |-> entry.units[u] + p.jobs[job].maxUnits[u]]]
ChargedReplacing(entry, p, job) ==
  [reserved |-> entry.reserved + JobCost(p, job), count |-> entry.count + 1,
   units |-> [u \in Units |-> Amount(p.jobs[job].maxUnits, u)]]
\* The transaction: the new ledger entry ...
Charged(entry, p, job) ==
  [reserved |-> entry.reserved + JobCost(p, job),
   count |-> entry.count + 1,
   units |-> [u \in Units |-> entry.units[u] + Amount(p.jobs[job].maxUnits, u)]]
\* ... and the reservation, which nothing refunds (charge and bounds are observed).
Reservation(p, job) ==
  [taken |-> TRUE, job |-> job, charge |-> JobCost(p, job),
   bounds |-> [u \in Units |-> Amount(p.jobs[job].maxUnits, u)]]

Commit(p, job, id) ==
  /\ ledger' = [ledger EXCEPT ![Period(p)] = Charged(@, p, job)]
  /\ reservations' = [reservations EXCEPT ![Period(p)][id] = Reservation(p, job)]

\* reserveJob grants and its reply reaches the caller ...
Grant(c) ==
  LET r == caller[c] IN
  /\ r.pc = "sent"
  /\ Admits(policy, r.job, r.id, now)
  /\ Commit(policy, r.job, r.id)
  /\ caller' = [caller EXCEPT ![c] =
        [r EXCEPT !.pc = "granted", !.period = Period(policy),
                  !.expiresAtMs = GrantExpiry(policy, now),
                  !.limits = LeaseLimits(policy, r.job)]]
  /\ UNCHANGED <<policy, now, begun, spent>>

\* ... or it commits but the caller died or the call broke: the reservation stays.
GrantLost(c) ==
  LET r == caller[c] IN
  /\ r.pc = "sent"
  /\ Admits(policy, r.job, r.id, now)
  /\ Commit(policy, r.job, r.id)
  /\ caller' = [caller EXCEPT ![c] = Idle]
  /\ UNCHANGED <<policy, now, begun, spent>>

\* reserveJob refuses, the call fails before its transaction commits, or the
\* inspection's transaction is retried and throws: nothing is written.
Refuse(c) ==
  /\ caller[c].pc = "sent"
  /\ caller' = [caller EXCEPT ![c] = Idle]
  /\ UNCHANGED <<policy, now, ledger, reservations, begun, spent>>

-----------------------------------------------------------------------------
(* The caller's lease *)

Clock(c) == now + Skew[c]

\* createExecutionLease accepts a grant that is still live and not too long.
\* Mutant: any grant that is still live opens a lease, however long.
LeaseOpensAnyLength(c) == caller[c].expiresAtMs > Clock(c)
LeaseOpens(c) ==
  /\ caller[c].expiresAtMs > Clock(c)
  /\ caller[c].expiresAtMs - Clock(c) <= MaxLease

OpenLease(c) ==
  /\ caller[c].pc = "granted"
  /\ LeaseOpens(c)
  /\ caller' = [caller EXCEPT ![c].pc = "running", ![c].openedAt = now]
  /\ begun' = begun \union {<<caller[c].period, caller[c].id>>}
  /\ UNCHANGED <<policy, now, ledger, reservations, spent>>

Live(c) == ~caller[c].closed /\ Clock(c) < caller[c].expiresAtMs
\* Mutant: each charge alone is held against the limits.
FitsAlone(c, cost) == \A u \in Units : cost[u] <= caller[c].limits[u]
Fits(c, cost) == \A u \in Units : caller[c].used[u] + cost[u] <= caller[c].limits[u]
Add(f, g) == [u \in Units |-> f[u] + g[u]]

Spend(c, cost) ==
  /\ caller[c].pc = "running" /\ Live(c) /\ Fits(c, cost)
  /\ caller' = [caller EXCEPT ![c].used = Add(@, cost)]
  /\ spent' = [spent EXCEPT ![caller[c].period][caller[c].id] = Add(@, cost)]
  /\ UNCHANGED <<policy, now, ledger, reservations, begun>>

\* Past its expiry, over a limit, or when a wrapper objects, the lease is closed for good.
LeaseStops(c) ==
  /\ caller[c].pc = "running"
  /\ caller' = [caller EXCEPT ![c].closed = TRUE]
  /\ UNCHANGED <<policy, now, ledger, reservations, begun, spent>>

\* Mutant: a job that ends gives its dollars back.
EndRefunds(c) ==
  /\ caller[c].pc \in {"granted", "running"}
  /\ ledger' = [ledger EXCEPT ![caller[c].period].reserved =
                  @ - reservations[caller[c].period][caller[c].id].charge]
  /\ caller' = [caller EXCEPT ![c] = Idle]
  /\ UNCHANGED <<policy, now, reservations, begun, spent>>

\* The job returns, throws (also from createExecutionLease) or its worker dies.
End(c) ==
  /\ caller[c].pc \in {"granted", "running"}
  /\ caller' = [caller EXCEPT ![c] = Idle]
  /\ UNCHANGED <<policy, now, ledger, reservations, begun, spent>>

Redeploy(p) ==
  /\ policy' = p
  /\ UNCHANGED <<now, ledger, reservations, caller, begun, spent>>

Tick ==
  /\ now < MaxTime
  /\ now' = now + 1
  /\ UNCHANGED <<policy, ledger, reservations, caller, begun, spent>>

Next ==
  \/ \E c \in Callers :
       \/ \E job \in Jobs, id \in Ids : Request(c, job, id)
       \/ Grant(c) \/ GrantLost(c) \/ Refuse(c)
       \/ OpenLease(c) \/ LeaseStops(c) \/ End(c)
       \/ \E cost \in Costs : Spend(c, cost)
  \/ \E p \in Policies : Redeploy(p)
  \/ Tick

Spec == Init /\ [][Next]_vars
-----------------------------------------------------------------------------
(* Properties *)

TypeOK ==
  /\ policy \in Policies
  /\ now \in 0..MaxTime
  /\ ledger \in [Periods -> [reserved : Nat, count : Nat, units : [Units -> Nat]]]
  /\ reservations \in [Periods -> [Ids ->
        [taken : BOOLEAN, job : Jobs, charge : Nat, bounds : [Units -> Nat]]]]
  /\ caller \in [Callers ->
        [pc : {"idle", "sent", "granted", "running"}, job : Jobs, id : Ids, period : Periods,
         expiresAtMs : Nat, limits : [Units -> Nat], used : [Units -> Nat],
         closed : BOOLEAN, openedAt : Nat]]
  /\ begun \in SUBSET (Periods \X Ids)
  /\ spent \in [Periods -> [Ids -> [Units -> Nat]]]

Holds(c) == caller[c].pc \in {"granted", "running"}
Key(c) == <<caller[c].period, caller[c].id>>

\* A reservation is worked at most once: no two workers hold a grant for the same
\* id of a period, and a grant not opened yet was never opened before, whatever
\* was retried, lost or restarted (the DUPLICATE_JOB check and the transaction).
WorkedOnce ==
  /\ \A c, d \in Callers : c # d /\ Holds(c) /\ Holds(d) => Key(c) # Key(d)
  /\ \A c \in Callers : caller[c].pc = "granted" => Key(c) \notin begun

\* What a job charged in all is covered by the units its reservation took from
\* the account, for every reservation id, even after crashes and retries.
SpendingCovered ==
  \A P \in Periods, i \in Ids, u \in Units : spent[P][i][u] <= reservations[P][i].bounds[u]

\* Dollars reserved in a period, added to any billing measurement the policy was
\* ever deployed with for it, never passed STOP_MICRO_USD at the smallest of them.
Committed(P) == {p.committed : p \in {q \in Policies : Period(q) = P}}
WithinBudget ==
  \A P \in Periods : \E base \in Committed(P) :
    ledger[P].reserved > 0 => base + ledger[P].reserved <= Stop

Held(P) == {i \in Ids : reservations[P][i].taken}

\* The two keys a reservation writes agree: the period's totals are exactly the
\* sum over the ids it holds, so nothing is lost, refunded or counted twice.
LedgerBacked ==
  \A P \in Periods :
    LET charge == [i \in Ids |-> reservations[P][i].charge]
        bound(u) == [i \in Ids |-> reservations[P][i].bounds[u]] IN
    /\ ledger[P].reserved = SumFunctionOnSet(charge, Held(P))
    /\ ledger[P].count = Cardinality(Held(P))
    /\ \A u \in Units : ledger[P].units[u] = SumFunctionOnSet(bound(u), Held(P))

\* All the work of a period together stays within the largest unit ceiling the
\* account was given for it, across jobs, workers and redeployed policies.
Ceilings(P, u) == {Amount(p.unitCeilings, u) : p \in {q \in Policies : Period(q) = P}}
AccountCeilings ==
  \A P \in Periods, u \in Units :
    SumFunctionOnSet([i \in Ids |-> spent[P][i][u]], Ids) <= Max(Ceilings(P, u))

\* The pinned inspection is admitted at most once in a period, even under another
\* reservation id: its exact units and the ceiling of one attempt see to that.
InspectedOnce ==
  \A P \in Periods :
    Cardinality({i \in Ids : reservations[P][i].taken /\ reservations[P][i].job = Inspection}) <= 1

\* A lease can be spent for less than MaxLease of real time after it was opened,
\* however the worker's clock is set: a pause takes effect within that time.
LeaseBounded ==
  \A c \in Callers : caller[c].pc = "running" /\ Live(c) => now - caller[c].openedAt < MaxLease

\* Work charged to a billing cycle runs less than LeaseTime past the end of the
\* cycle, by its worker's clock: evidence may outlive the cycle, admission does not.
CycleOverrun ==
  \A c \in Callers : Holds(c) /\ Live(c) => Clock(c) < caller[c].period[2] + LeaseTime

\* In a cycle that runs on fixed allocations alone, all reservations together stay
\* within the largest of them.
AllocatedOnly(P) ==
  \A p \in Policies : Period(p) = P /\ p.enabled =>
    \A t \in p.startMs..p.endMs : EvidenceFresh(p, t) => ValidCycleAllocation(p, t)
AllocationHonoured ==
  \A P \in Periods : AllocatedOnly(P) =>
    ledger[P].reserved <= Max({p.allocation.maxReserved : p \in {q \in Policies : Period(q) = P}})

\* What the account is promised: charges are final and capped, work starts only
\* once it is charged and only once per charge, and stays within the charge.
Promise == INSTANCE BudgetPromise WITH
  total <- [P \in Periods |-> ledger[P].reserved],
  charged <- {k \in Periods \X Ids : reservations[k[1]][k[2]].taken},
  bound <- [P \in Periods |-> [i \in Ids |-> reservations[P][i].bounds]],
  started <- begun,
  used <- spent
KeepsPromise == Promise!Spec
=============================================================================
