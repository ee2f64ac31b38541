------------------------- MODULE AccountBudgetProofs -------------------------
(* Proofs about AccountBudget, for any policies, jobs, workers and clocks. *)
EXTENDS AccountBudget, SumLemmas, TLAPS

CallerType ==
  [pc : {"idle", "sent", "granted", "running"}, job : Jobs, id : Ids, period : Periods,
   expiresAtMs : Nat, limits : [Units -> Nat], used : [Units -> Nat],
   closed : BOOLEAN, openedAt : Nat]

\* An amount taken from a map of units is a natural number.
LEMMA AmountType ==
  ASSUME NEW f, IsUnits(f), NEW u
  PROVE  Amount(f, u) \in Nat
  BY DEF IsUnits, Amount

\* What the assumptions say of one policy.
LEMMA PolicyType ==
  ASSUME NEW p \in Policies
  PROVE  /\ p.expiresAtMs \in Nat /\ p.endMs \in Nat /\ p.startMs \in Nat /\ p.committed \in Nat
         /\ Period(p) \in Periods /\ Period(p)[2] = p.endMs
         /\ \A j \in DOMAIN p.jobs :
              /\ j \in Jobs /\ p.jobs[j].cost \in Nat /\ p.jobs[j].overhead \in Nat
              /\ IsUnits(p.jobs[j].maxUnits)
  <1>1. IsPolicy(p)
    BY ConstantsOK
  <1>2. \A j \in DOMAIN p.jobs : IsTerms(p.jobs[j])
    BY <1>1 DEF IsPolicy
  <1>3. QED
    BY <1>1, <1>2 DEF IsPolicy, IsTerms, Period, Periods

\* A caller that is idle is well-typed.
LEMMA IdleType == Idle \in CallerType
  <1>1. (CHOOSE i \in Ids : TRUE) \in Ids /\ (CHOOSE P \in Periods : TRUE) \in Periods
    BY ConstantsOK DEF Periods
  <1>2. Zero \in [Units -> Nat]
    BY DEF Zero
  <1>3. QED
    BY <1>1, <1>2, ConstantsOK DEF Idle, CallerType

\* What a commit writes is well-typed.
LEMMA CommitType ==
  ASSUME TypeOK, NEW p \in Policies, NEW job \in Jobs, NEW id \in Ids, NEW t \in Nat,
         job \in Certified, job \in DOMAIN p.jobs
  PROVE  /\ JobCost(p, job) \in Nat
         /\ Charged(ledger[Period(p)], p, job) \in [reserved : Nat, count : Nat, units : [Units -> Nat]]
         /\ Reservation(p, job) \in [taken : BOOLEAN, job : Jobs, charge : Nat, bounds : [Units -> Nat]]
         /\ LeaseLimits(p, job) \in [Units -> Nat]
         /\ GrantExpiry(p, t) \in Nat
  <1>1. IsUnits(CodeCap[job]) /\ LeaseTime \in Nat
    BY ConstantsOK
  <1>2. /\ Period(p) \in Periods /\ p.expiresAtMs \in Nat /\ IsUnits(p.jobs[job].maxUnits)
        /\ p.jobs[job].cost \in Nat /\ p.jobs[job].overhead \in Nat
    BY PolicyType
  <1>3. JobCost(p, job) \in Nat
    BY <1>2 DEF JobCost
  <1>4. [u \in Units |-> Amount(p.jobs[job].maxUnits, u)] \in [Units -> Nat]
    BY <1>2, AmountType
  <1>5. ledger[Period(p)] \in [reserved : Nat, count : Nat, units : [Units -> Nat]]
    BY <1>2 DEF TypeOK
  <1>6. [u \in Units |-> ledger[Period(p)].units[u] + Amount(p.jobs[job].maxUnits, u)] \in [Units -> Nat]
    BY <1>2, <1>5, AmountType
  <1>7. LeaseLimits(p, job) \in [Units -> Nat]
    BY <1>1, <1>2, AmountType DEF LeaseLimits, Least
  <1>8. GrantExpiry(p, t) \in Nat
    BY <1>1, <1>2 DEF GrantExpiry, Least
  <1>9. QED
    BY <1>3, <1>4, <1>5, <1>6, <1>7, <1>8 DEF Charged, Reservation

-----------------------------------------------------------------------------
(* Types *)

LEMMA InitType == Init => TypeOK
  <1>1. Zero \in [Units -> Nat] /\ 0 \in 0..MaxTime /\ Inspection \in Jobs
    BY ConstantsOK DEF Zero
  <1>2. NoReservation \in [taken : BOOLEAN, job : Jobs, charge : Nat, bounds : [Units -> Nat]]
    BY <1>1 DEF NoReservation
  <1>3. QED
    BY <1>1, <1>2, IdleType DEF Init, TypeOK, CallerType

\* Both outcomes of a granted reservation: what is written, and what the caller gets.
LEMMA GrantType ==
  ASSUME TypeOK, NEW c \in Callers, Grant(c) \/ GrantLost(c)
  PROVE  TypeOK'
  <1> DEFINE r == caller[c]
             g == [r EXCEPT !.pc = "granted", !.period = Period(policy),
                            !.expiresAtMs = GrantExpiry(policy, now),
                            !.limits = LeaseLimits(policy, r.job)]
  <1>1. policy \in Policies /\ r \in CallerType /\ r.job \in Jobs /\ r.id \in Ids /\ now \in Nat
    BY ConstantsOK DEF TypeOK, CallerType
  <1>2. r.job \in Certified /\ r.job \in DOMAIN policy.jobs
    BY DEF Grant, GrantLost, Admits, PolicyCertifies
  <1>3. /\ Charged(ledger[Period(policy)], policy, r.job)
             \in [reserved : Nat, count : Nat, units : [Units -> Nat]]
        /\ Reservation(policy, r.job)
             \in [taken : BOOLEAN, job : Jobs, charge : Nat, bounds : [Units -> Nat]]
        /\ LeaseLimits(policy, r.job) \in [Units -> Nat]
        /\ GrantExpiry(policy, now) \in Nat
    BY <1>1, <1>2, CommitType
  <1>4. Period(policy) \in Periods
    BY <1>1, PolicyType
  <1>5. g \in CallerType
    BY <1>1, <1>3, <1>4 DEF CallerType
  <1>6. caller' \in [Callers -> CallerType]
    <2>1. caller \in [Callers -> CallerType]
      BY DEF TypeOK, CallerType
    <2>2. caller' = [caller EXCEPT ![c] = g] \/ caller' = [caller EXCEPT ![c] = Idle]
      BY DEF Grant, GrantLost
    <2>3. QED
      BY <1>5, <2>1, <2>2, IdleType
  <1>7. Commit(policy, r.job, r.id) /\ UNCHANGED <<policy, now, begun, spent>>
    BY DEF Grant, GrantLost
  <1>8. /\ ledger' \in [Periods -> [reserved : Nat, count : Nat, units : [Units -> Nat]]]
        /\ reservations' \in [Periods -> [Ids ->
              [taken : BOOLEAN, job : Jobs, charge : Nat, bounds : [Units -> Nat]]]]
    BY <1>1, <1>3, <1>4, <1>7 DEF Commit, TypeOK
  <1>9. QED
    BY <1>6, <1>7, <1>8 DEF TypeOK, CallerType

LEMMA SpendType ==
  ASSUME TypeOK, NEW c \in Callers, NEW cost \in Costs, Spend(c, cost)
  PROVE  TypeOK'
  <1>1. cost \in [Units -> Nat]
    BY ConstantsOK
  <1>2. caller[c] \in CallerType /\ caller[c].period \in Periods /\ caller[c].id \in Ids
    BY DEF TypeOK, CallerType
  <1>3. /\ Add(caller[c].used, cost) \in [Units -> Nat]
        /\ Add(spent[caller[c].period][caller[c].id], cost) \in [Units -> Nat]
    BY <1>1, <1>2 DEF Add, CallerType, TypeOK
  <1>4. caller' \in [Callers -> CallerType]
    BY <1>2, <1>3 DEF Spend, TypeOK, CallerType
  <1>5. spent' \in [Periods -> [Ids -> [Units -> Nat]]]
    BY <1>2, <1>3 DEF Spend, TypeOK
  <1>6. UNCHANGED <<policy, now, ledger, reservations, begun>>
    BY DEF Spend
  <1>7. QED
    BY <1>4, <1>5, <1>6 DEF TypeOK, CallerType

LEMMA NextType == TypeOK /\ [Next]_vars => TypeOK'
  <1> SUFFICES ASSUME TypeOK, [Next]_vars
               PROVE  TypeOK'
    OBVIOUS
  <1>1. ASSUME NEW c \in Callers, NEW job \in Jobs, NEW id \in Ids, Request(c, job, id)
        PROVE  TypeOK'
    <2>1. [Idle EXCEPT !.pc = "sent", !.job = job, !.id = id] \in CallerType
      BY IdleType DEF CallerType
    <2>2. caller' \in [Callers -> CallerType]
      BY <1>1, <2>1 DEF Request, TypeOK, CallerType
    <2>3. UNCHANGED <<policy, now, ledger, reservations, begun, spent>>
      BY <1>1 DEF Request
    <2>4. QED
      BY <2>2, <2>3 DEF TypeOK, CallerType
  <1>2. ASSUME NEW c \in Callers, Grant(c) \/ GrantLost(c)
        PROVE  TypeOK'
    BY <1>2, GrantType
  <1>3. ASSUME NEW c \in Callers, Refuse(c) \/ End(c)
        PROVE  TypeOK'
    <2>1. caller' \in [Callers -> CallerType]
      BY <1>3, IdleType DEF Refuse, End, TypeOK, CallerType
    <2>2. UNCHANGED <<policy, now, ledger, reservations, begun, spent>>
      BY <1>3 DEF Refuse, End
    <2>3. QED
      BY <2>1, <2>2 DEF TypeOK, CallerType
  <1>4. ASSUME NEW c \in Callers, OpenLease(c)
        PROVE  TypeOK'
    <2>1. now \in Nat
      BY ConstantsOK DEF TypeOK
    <2>2. <<caller[c].period, caller[c].id>> \in Periods \X Ids
      BY DEF TypeOK, CallerType
    <2>3. caller' \in [Callers -> CallerType]
      <3>1. caller \in [Callers -> CallerType]
        BY DEF TypeOK, CallerType
      <3>2. [caller[c] EXCEPT !.pc = "running", !.openedAt = now] \in CallerType
        BY <2>1, <3>1 DEF CallerType
      <3>3. caller' = [caller EXCEPT ![c] = [caller[c] EXCEPT !.pc = "running", !.openedAt = now]]
        BY <1>4, <3>1 DEF OpenLease, CallerType
      <3>4. QED
        BY <3>1, <3>2, <3>3
    <2>4. begun' \in SUBSET (Periods \X Ids) /\ UNCHANGED <<policy, now, ledger, reservations, spent>>
      BY <1>4, <2>2 DEF OpenLease, TypeOK
    <2>5. QED
      BY <2>3, <2>4 DEF TypeOK, CallerType
  <1>5. ASSUME NEW c \in Callers, NEW cost \in Costs, Spend(c, cost)
        PROVE  TypeOK'
    BY <1>5, SpendType
  <1>6. ASSUME NEW c \in Callers, LeaseStops(c)
        PROVE  TypeOK'
    <2>1. caller \in [Callers -> CallerType]
      BY DEF TypeOK, CallerType
    <2>2. [caller[c] EXCEPT !.closed = TRUE] \in CallerType
      BY <2>1 DEF CallerType
    <2>3. caller' \in [Callers -> CallerType]
      BY <1>6, <2>1, <2>2 DEF LeaseStops
    <2>4. UNCHANGED <<policy, now, ledger, reservations, begun, spent>>
      BY <1>6 DEF LeaseStops
    <2>5. QED
      BY <2>3, <2>4 DEF TypeOK, CallerType
  <1>7. ASSUME NEW p \in Policies, Redeploy(p)
        PROVE  TypeOK'
    BY <1>7 DEF Redeploy, TypeOK
  <1>8. CASE Tick
    BY <1>8, ConstantsOK DEF Tick, TypeOK
  <1>9. CASE UNCHANGED vars
    BY <1>9 DEF vars, TypeOK
  <1>10. QED
    BY <1>1, <1>2, <1>3, <1>4, <1>5, <1>6, <1>7, <1>8, <1>9 DEF Next

\* Every variable keeps its type, whatever the account, the jobs and the workers are.
THEOREM TypeCorrect == Spec => []TypeOK
  BY InitType, NextType, PTL DEF Spec

-----------------------------------------------------------------------------
(* The inductive invariant: what ties a worker's grant to its reservation *)

\* A grant is backed by a reservation that covers its limits; what its lease used
\* is what was charged under its id; and its times are bounded.
Backed(c) ==
  LET r == caller[c]  res == reservations[r.period][r.id] IN
  Holds(c) =>
    /\ res.taken
    /\ \A u \in Units : r.used[u] = spent[r.period][r.id][u] /\ r.used[u] <= r.limits[u]
                        /\ r.limits[u] <= res.bounds[u]
    /\ r.pc = "granted" => Key(c) \notin begun
    /\ r.pc = "running" => Key(c) \in begun /\ r.expiresAtMs - (r.openedAt + Skew[c]) <= MaxLease
    /\ r.expiresAtMs < r.period[2] + LeaseTime

\* A caller without a grant has used nothing.
Unused(c) == ~Holds(c) => \A u \in Units : caller[c].used[u] = 0

Disjoint == \A c, d \in Callers : c # d /\ Holds(c) /\ Holds(d) => Key(c) # Key(d)

\* An id that is not reserved was never worked.
Untouched ==
  \A P \in Periods, i \in Ids : ~reservations[P][i].taken =>
    <<P, i>> \notin begun /\ \A u \in Units : spent[P][i][u] = 0

IInv ==
  /\ TypeOK
  /\ \A c \in Callers : Backed(c) /\ Unused(c)
  /\ Disjoint
  /\ Untouched
  /\ SpendingCovered

LEMMA InitInv == Init => IInv
  <1> SUFFICES ASSUME Init PROVE IInv
    OBVIOUS
  <1>1. TypeOK
    BY InitType
  <1>2. \A c \in Callers : ~Holds(c) /\ caller[c].used = Zero
    BY DEF Init, Idle, Holds
  <1>3. \A P \in Periods, i \in Ids :
          ~reservations[P][i].taken /\ reservations[P][i].bounds = Zero /\ spent[P][i] = Zero
    BY DEF Init, NoReservation
  <1>4. begun = {}
    BY DEF Init
  <1>5. \A u \in Units : Zero[u] = 0
    BY DEF Zero
  <1>6. \A c \in Callers : Backed(c) /\ Unused(c)
    BY <1>2, <1>5 DEF Backed, Unused
  <1>7. Disjoint
    BY <1>2 DEF Disjoint
  <1>8. Untouched
    BY <1>3, <1>4, <1>5 DEF Untouched
  <1>9. SpendingCovered
    BY <1>3, <1>5 DEF SpendingCovered
  <1>10. QED
    BY <1>1, <1>6, <1>7, <1>8, <1>9 DEF IInv

\* A caller that does not move stays backed if nothing happens under its own id.
LEMMA StaysBacked ==
  ASSUME IInv, NEW d \in Callers, caller'[d] = caller[d],
         Holds(d) => /\ reservations'[caller[d].period][caller[d].id]
                          = reservations[caller[d].period][caller[d].id]
                     /\ spent'[caller[d].period][caller[d].id] = spent[caller[d].period][caller[d].id]
                     /\ Key(d) \in begun' <=> Key(d) \in begun
  PROVE  (Holds(d)' <=> Holds(d)) /\ Key(d)' = Key(d) /\ Backed(d)' /\ Unused(d)'
  <1>1. (Holds(d)' <=> Holds(d)) /\ Key(d)' = Key(d)
    BY DEF Holds, Key
  <1>2. Backed(d) /\ Unused(d)
    BY DEF IInv
  <1>3. Unused(d)'
    BY <1>1, <1>2 DEF Unused
  <1>4. CASE ~Holds(d)
    BY <1>1, <1>3, <1>4 DEF Backed
  <1>5. CASE Holds(d)
    <2> DEFINE r == caller[d]  res == reservations[r.period][r.id]
    <2>1. /\ caller'[d] = r /\ reservations'[r.period][r.id] = res
          /\ spent'[r.period][r.id] = spent[r.period][r.id]
          /\ Key(d)' = Key(d) /\ (Key(d) \in begun' <=> Key(d) \in begun)
      BY <1>1, <1>5
    <2>2. /\ res.taken
          /\ \A u \in Units : r.used[u] = spent[r.period][r.id][u] /\ r.used[u] <= r.limits[u]
                              /\ r.limits[u] <= res.bounds[u]
          /\ r.pc = "granted" => Key(d) \notin begun
          /\ r.pc = "running" => Key(d) \in begun /\ r.expiresAtMs - (r.openedAt + Skew[d]) <= MaxLease
          /\ r.expiresAtMs < r.period[2] + LeaseTime
      BY <1>2, <1>5 DEF Backed
    <2> HIDE DEF r, res
    <2>3. Backed(d)'
      BY <2>1, <2>2 DEF Backed
    <2>4. QED
      BY <1>1, <1>3, <2>3
  <1>6. QED
    BY <1>4, <1>5

\* A caller that keeps its record, or drops it, stays backed while the ledger and
\* the leases of others do not change.
LEMMA KeepInv ==
  ASSUME IInv, TypeOK', UNCHANGED <<reservations, begun, spent>>,
         \A c \in Callers :
           \/ caller'[c] = caller[c]
           \/ /\ caller'[c].pc \notin {"granted", "running"}
              /\ \A u \in Units : caller'[c].used[u] = 0
  PROVE  IInv'
  <1>1. \A c \in Callers : Backed(c)' /\ Unused(c)'
    BY DEF IInv, Backed, Unused, Holds, Key
  <1>2. Disjoint'
    BY DEF IInv, Disjoint, Holds, Key
  <1>3. Untouched' /\ SpendingCovered'
    BY DEF IInv, Untouched, SpendingCovered
  <1>4. QED
    BY <1>1, <1>2, <1>3 DEF IInv

\* What a commit does to the reservations: the id of the request is taken, with
\* bounds that cover the limits of the lease, and no other id changes.
LEMMA CommitEffect ==
  ASSUME IInv, NEW c \in Callers, Grant(c) \/ GrantLost(c)
  PROVE  LET P == Period(policy)  i == caller[c].id IN
         /\ P \in Periods /\ i \in Ids
         /\ ~reservations[P][i].taken
         /\ reservations'[P][i].taken
         /\ \A u \in Units : LeaseLimits(policy, caller[c].job)[u] <= reservations'[P][i].bounds[u]
         /\ \A Q \in Periods, j \in Ids : <<Q, j>> # <<P, i>> => reservations'[Q][j] = reservations[Q][j]
  <1> DEFINE P == Period(policy)
             i == caller[c].id
             job == caller[c].job
  <1>1. P \in Periods /\ i \in Ids /\ job \in Certified /\ job \in DOMAIN policy.jobs
    BY PolicyType DEF IInv, TypeOK, Grant, GrantLost, Admits, PolicyCertifies
  <1>2. /\ ~reservations[P][i].taken
        /\ reservations' = [reservations EXCEPT ![P][i] = Reservation(policy, job)]
    BY DEF Grant, GrantLost, Admits, NotDuplicate, Commit
  <1>3. /\ reservations'[P][i] = Reservation(policy, job)
        /\ \A Q \in Periods, j \in Ids : <<Q, j>> # <<P, i>> => reservations'[Q][j] = reservations[Q][j]
    BY <1>1, <1>2 DEF IInv, TypeOK
  <1>4. IsUnits(CodeCap[job]) /\ IsUnits(policy.jobs[job].maxUnits)
    BY <1>1, ConstantsOK, PolicyType DEF IInv, TypeOK
  <1>5. \A u \in Units : LeaseLimits(policy, job)[u] <= Reservation(policy, job).bounds[u]
    BY <1>4, AmountType DEF LeaseLimits, Reservation, Least
  <1>6. Reservation(policy, job).taken
    BY DEF Reservation
  <1>7. QED
    BY <1>1, <1>2, <1>3, <1>5, <1>6

\* A grant, whether or not its reply arrives, keeps the invariant: its id was free.
LEMMA GrantInv ==
  ASSUME IInv, TypeOK', NEW c \in Callers, Grant(c) \/ GrantLost(c)
  PROVE  IInv'
  <1> DEFINE P == Period(policy)
             i == caller[c].id
             k == <<P, i>>
  <1>1. /\ P \in Periods /\ i \in Ids
        /\ ~reservations[P][i].taken
        /\ reservations'[P][i].taken
        /\ \A u \in Units : LeaseLimits(policy, caller[c].job)[u] <= reservations'[P][i].bounds[u]
        /\ \A Q \in Periods, j \in Ids : <<Q, j>> # <<P, i>> => reservations'[Q][j] = reservations[Q][j]
    BY CommitEffect
  <1>2. caller[c].pc = "sent" /\ UNCHANGED <<policy, now, begun, spent>>
    BY DEF Grant, GrantLost
  <1>3. \A d \in Callers : Holds(d) => Key(d) # k /\ caller[d].period \in Periods /\ caller[d].id \in Ids
    BY <1>1 DEF IInv, Backed, Key, TypeOK
  <1>4. \A d \in Callers \ {c} : caller'[d] = caller[d]
    BY DEF Grant, GrantLost, IInv, TypeOK
  <1>5. \A d \in Callers \ {c} : (Holds(d)' <=> Holds(d)) /\ Key(d)' = Key(d) /\ Backed(d)' /\ Unused(d)'
    <2> SUFFICES ASSUME NEW d \in Callers \ {c}
                 PROVE  (Holds(d)' <=> Holds(d)) /\ Key(d)' = Key(d) /\ Backed(d)' /\ Unused(d)'
      OBVIOUS
    <2>1. Holds(d) => reservations'[caller[d].period][caller[d].id]
                        = reservations[caller[d].period][caller[d].id]
      BY <1>1, <1>3 DEF Key
    <2>2. QED
      BY <1>2, <1>4, <2>1, StaysBacked
  <1>6. /\ Holds(c)' => Key(c)' = k
        /\ Backed(c)' /\ Unused(c)'
    <2>1. CASE GrantLost(c)
      <3>1. caller'[c] = Idle
        BY <2>1 DEF GrantLost, IInv, TypeOK
      <3>2. QED
        BY <3>1 DEF Backed, Unused, Holds, Idle, Zero
    <2>2. CASE Grant(c)
      <3>1. /\ caller'[c].pc = "granted" /\ caller'[c].id = i /\ caller'[c].period = P
            /\ caller'[c].expiresAtMs = GrantExpiry(policy, now)
            /\ caller'[c].limits = LeaseLimits(policy, caller[c].job)
            /\ caller'[c].used = caller[c].used
        BY <2>2 DEF Grant, IInv, TypeOK
      <3>2. \A u \in Units : caller[c].used[u] = 0 /\ spent[P][i][u] = 0
        BY <1>1, <1>2 DEF IInv, Unused, Untouched, Holds
      <3>3. k \notin begun
        BY <1>1 DEF IInv, Untouched
      <3>4. GrantExpiry(policy, now) < P[2] + LeaseTime
        <4>1. now < policy.endMs /\ now \in Nat /\ LeaseTime \in Nat
          BY <2>2, ConstantsOK DEF Grant, Admits, EvidenceFresh, IInv, TypeOK
        <4>2. P[2] = policy.endMs /\ policy.endMs \in Nat /\ policy.expiresAtMs \in Nat
          BY PolicyType DEF IInv, TypeOK
        <4>3. QED
          BY <4>1, <4>2 DEF GrantExpiry, Least
      <3>5. \A u \in Units : caller'[c].limits[u] \in Nat
        BY DEF TypeOK
      <3>6. QED
        BY <1>1, <1>2, <3>1, <3>2, <3>3, <3>4, <3>5 DEF Backed, Unused, Holds, Key
    <2>3. QED
      BY <2>1, <2>2
  <1>7. Disjoint'
    BY <1>3, <1>5, <1>6 DEF IInv, Disjoint
  <1>8. Untouched'
    BY <1>1, <1>2 DEF IInv, Untouched
  <1>9. SpendingCovered'
    <2>1. \A u \in Units : spent[P][i][u] = 0
      BY <1>1 DEF IInv, Untouched
    <2>2. reservations'[P][i] \in [taken : BOOLEAN, job : Jobs, charge : Nat, bounds : [Units -> Nat]]
      BY <1>1 DEF TypeOK
    <2>3. \A u \in Units : reservations'[P][i].bounds[u] \in Nat
      BY <2>2
    <2>4. \A u \in Units : spent'[P][i][u] <= reservations'[P][i].bounds[u]
      BY <1>2, <2>1, <2>3
    <2>5. QED
      BY <1>1, <1>2, <2>4 DEF IInv, SpendingCovered
  <1>10. QED
    BY <1>5, <1>6, <1>7, <1>8, <1>9 DEF IInv

\* Opening a lease keeps the invariant: the grant was never opened, and no other
\* worker holds a grant for the same id.
LEMMA OpenInv ==
  ASSUME IInv, TypeOK', NEW c \in Callers, OpenLease(c)
  PROVE  IInv'
  <1>1. /\ caller[c].pc = "granted" /\ Holds(c) /\ LeaseOpens(c)
        /\ caller'[c] = [caller[c] EXCEPT !.pc = "running", !.openedAt = now]
        /\ \A d \in Callers \ {c} : caller'[d] = caller[d]
        /\ begun' = begun \union {Key(c)}
        /\ UNCHANGED <<policy, now, ledger, reservations, spent>>
    BY DEF OpenLease, Holds, Key, IInv, TypeOK
  <1>2. caller[c] \in CallerType
    BY DEF IInv, TypeOK, CallerType
  <1>3. /\ caller'[c].pc = "running" /\ caller'[c].openedAt = now
        /\ caller'[c].id = caller[c].id /\ caller'[c].period = caller[c].period
        /\ caller'[c].expiresAtMs = caller[c].expiresAtMs
        /\ caller'[c].used = caller[c].used /\ caller'[c].limits = caller[c].limits
    BY <1>1, <1>2 DEF CallerType
  <1>4. \A d \in Callers : (Holds(d)' <=> Holds(d)) /\ Key(d)' = Key(d)
    BY <1>1, <1>3 DEF Holds, Key
  <1>5. Backed(c)'
    <2>1. caller[c].expiresAtMs - (now + Skew[c]) <= MaxLease
      BY <1>1 DEF LeaseOpens, Clock
    <2>2. caller'[c].expiresAtMs - (caller'[c].openedAt + Skew[c]) <= MaxLease
      BY <1>3, <2>1
    <2>3. Key(c)' \in begun'
      BY <1>1, <1>3 DEF Key
    <2>4. Backed(c)
      BY DEF IInv
    <2>5. /\ reservations'[caller[c].period][caller[c].id].taken
          /\ caller[c].expiresAtMs < caller[c].period[2] + LeaseTime
          /\ \A u \in Units : /\ caller[c].used[u] = spent[caller[c].period][caller[c].id][u]
                              /\ caller[c].used[u] <= caller[c].limits[u]
                              /\ caller[c].limits[u] <= reservations[caller[c].period][caller[c].id].bounds[u]
      BY <1>1, <2>4 DEF Backed
    <2>6. /\ reservations' = reservations /\ spent' = spent
          /\ Units' = Units
      BY <1>1
    <2>7. /\ reservations'[caller'[c].period][caller'[c].id].taken
          /\ caller'[c].expiresAtMs < caller'[c].period[2] + LeaseTime
      BY <1>3, <2>5
    <2>8. \A u \in Units :
            /\ caller'[c].used[u] = spent'[caller'[c].period][caller'[c].id][u]
            /\ caller'[c].used[u] <= caller'[c].limits[u]
            /\ caller'[c].limits[u] <= reservations'[caller'[c].period][caller'[c].id].bounds[u]
      BY <1>3, <2>5, <2>6
    <2>9. caller'[c].pc # "granted"
      BY <1>3
    <2>10. QED
      BY <2>2, <2>3, <2>7, <2>8, <2>9 DEF Backed
  <1>6. \A d \in Callers \ {c} : Holds(d) => Key(d) # Key(c)
    BY <1>1 DEF IInv, Disjoint
  <1>7. \A d \in Callers \ {c} : Backed(d)'
    <2> SUFFICES ASSUME NEW d \in Callers \ {c}
                 PROVE  Backed(d)'
      OBVIOUS
    <2>1. Holds(d) => (Key(d) \in begun' <=> Key(d) \in begun)
      BY <1>1, <1>6
    <2>2. QED
      BY <1>1, <2>1, StaysBacked
  <1>8. \A d \in Callers : Unused(d)'
    BY <1>1, <1>4 DEF IInv, Unused
  <1>9. Disjoint'
    BY <1>4 DEF IInv, Disjoint
  <1>10. Untouched'
    <2>1. reservations[Key(c)[1]][Key(c)[2]].taken
      BY <1>1 DEF IInv, Backed, Key
    <2>2. QED
      BY <1>1, <2>1 DEF IInv, Untouched, Key
  <1>11. SpendingCovered'
    BY <1>1 DEF IInv, SpendingCovered
  <1>12. QED
    BY <1>5, <1>7, <1>8, <1>9, <1>10, <1>11 DEF IInv

\* A charge keeps the invariant: what the lease used stays what was charged under
\* its id, within the limits and so within the reservation.
LEMMA SpendInv ==
  ASSUME IInv, TypeOK', NEW c \in Callers, NEW cost \in Costs, Spend(c, cost)
  PROVE  IInv'
  <1> DEFINE P == caller[c].period
             i == caller[c].id
  <1>1. caller[c] \in CallerType /\ P \in Periods /\ i \in Ids /\ cost \in [Units -> Nat]
    BY ConstantsOK DEF IInv, TypeOK, CallerType
  <1>2. /\ caller[c].pc = "running" /\ Holds(c) /\ Fits(c, cost)
        /\ caller'[c] = [caller[c] EXCEPT !.used = Add(caller[c].used, cost)]
        /\ \A d \in Callers \ {c} : caller'[d] = caller[d]
        /\ UNCHANGED <<policy, now, ledger, reservations, begun>>
    BY DEF Spend, Holds, IInv, TypeOK
  <1>3. /\ spent'[P][i] = Add(spent[P][i], cost)
        /\ \A Q \in Periods, j \in Ids : <<Q, j>> # <<P, i>> => spent'[Q][j] = spent[Q][j]
    BY <1>1 DEF Spend, IInv, TypeOK
  <1>4. /\ caller'[c].pc = "running" /\ caller'[c].openedAt = caller[c].openedAt
        /\ caller'[c].id = i /\ caller'[c].period = P
        /\ caller'[c].expiresAtMs = caller[c].expiresAtMs
        /\ caller'[c].limits = caller[c].limits
        /\ caller'[c].used = Add(caller[c].used, cost)
    BY <1>1, <1>2 DEF CallerType
  <1>5. \A d \in Callers : (Holds(d)' <=> Holds(d)) /\ Key(d)' = Key(d)
    BY <1>2, <1>4 DEF Holds, Key
  <1>6. \A u \in Units :
          /\ caller'[c].used[u] = spent'[P][i][u]
          /\ caller'[c].used[u] <= caller'[c].limits[u]
    <2>1. \A u \in Units : caller[c].used[u] = spent[P][i][u]
      BY <1>2 DEF IInv, Backed
    <2>2. QED
      BY <1>2, <1>3, <1>4, <2>1 DEF Add, Fits
  <1>7. Backed(c)'
    <2>1. Backed(c)
      BY DEF IInv
    <2>2. /\ reservations'[P][i].taken /\ Key(c)' \in begun'
          /\ caller'[c].expiresAtMs - (caller'[c].openedAt + Skew[c]) <= MaxLease
          /\ caller'[c].expiresAtMs < P[2] + LeaseTime
          /\ \A u \in Units : caller'[c].limits[u] <= reservations'[P][i].bounds[u]
      BY <1>2, <1>4, <1>5, <2>1 DEF Backed
    <2>3. QED
      BY <1>4, <1>6, <2>2 DEF Backed
  <1>8. \A d \in Callers \ {c} : Holds(d) =>
          /\ caller[d].period \in Periods /\ caller[d].id \in Ids
          /\ <<caller[d].period, caller[d].id>> # <<P, i>>
    BY <1>2 DEF IInv, Disjoint, Key, TypeOK
  <1>9. \A d \in Callers \ {c} : Backed(d)'
    <2> SUFFICES ASSUME NEW d \in Callers \ {c}
                 PROVE  Backed(d)'
      OBVIOUS
    <2>1. Holds(d) => spent'[caller[d].period][caller[d].id] = spent[caller[d].period][caller[d].id]
      BY <1>3, <1>8
    <2>2. QED
      BY <1>2, <2>1, StaysBacked
  <1>10. \A d \in Callers : Unused(d)'
    BY <1>2, <1>5 DEF IInv, Unused
  <1>11. Disjoint'
    BY <1>5 DEF IInv, Disjoint
  <1>12. reservations[P][i].taken
    BY <1>2 DEF IInv, Backed
  <1>13. Untouched'
    BY <1>2, <1>3, <1>12 DEF IInv, Untouched
  <1>14. SpendingCovered'
    <2>1. reservations[P][i] \in [taken : BOOLEAN, job : Jobs, charge : Nat, bounds : [Units -> Nat]]
      BY <1>1 DEF IInv, TypeOK
    <2>2. \A u \in Units : /\ caller[c].limits[u] <= reservations[P][i].bounds[u]
                          /\ caller[c].limits[u] \in Nat /\ reservations[P][i].bounds[u] \in Nat
      BY <1>1, <1>2, <2>1 DEF IInv, Backed, CallerType
    <2>3. \A u \in Units : spent'[P][i][u] \in Nat /\ spent'[P][i][u] <= caller[c].limits[u]
      BY <1>1, <1>4, <1>6 DEF TypeOK
    <2>4. \A u \in Units : spent'[P][i][u] <= reservations'[P][i].bounds[u]
      BY <1>2, <2>2, <2>3
    <2>5. QED
      BY <1>2, <1>3, <2>4 DEF IInv, SpendingCovered
  <1>15. QED
    BY <1>7, <1>9, <1>10, <1>11, <1>13, <1>14 DEF IInv

LEMMA NextInv == IInv /\ [Next]_vars => IInv'
  <1> SUFFICES ASSUME IInv, [Next]_vars
               PROVE  IInv'
    OBVIOUS
  <1>1. TypeOK'
    BY NextType DEF IInv
  <1>2. ASSUME NEW c \in Callers, Grant(c) \/ GrantLost(c)
        PROVE  IInv'
    BY <1>1, <1>2, GrantInv
  <1>3. ASSUME NEW c \in Callers, OpenLease(c)
        PROVE  IInv'
    BY <1>1, <1>3, OpenInv
  <1>4. ASSUME NEW c \in Callers, NEW cost \in Costs, Spend(c, cost)
        PROVE  IInv'
    BY <1>1, <1>4, SpendInv
  <1>5. ASSUME NEW c \in Callers, NEW job \in Jobs, NEW id \in Ids, Request(c, job, id)
        PROVE  IInv'
    <2>1. caller'[c] = [Idle EXCEPT !.pc = "sent", !.job = job, !.id = id]
      BY <1>5 DEF Request, IInv, TypeOK
    <2>2. caller'[c].pc = "sent" /\ caller'[c].used = Zero
      BY <2>1 DEF Idle
    <2>3. \A d \in Callers \ {c} : caller'[d] = caller[d]
      BY <1>5 DEF Request, IInv, TypeOK
    <2>4. UNCHANGED <<reservations, begun, spent>>
      BY <1>5 DEF Request
    <2>5. QED
      BY <1>1, <2>2, <2>3, <2>4, KeepInv DEF Zero
  <1>6. ASSUME NEW c \in Callers, Refuse(c) \/ End(c)
        PROVE  IInv'
    <2>1. caller'[c] = Idle
      BY <1>6 DEF Refuse, End, IInv, TypeOK
    <2>2. caller'[c].pc = "idle" /\ caller'[c].used = Zero
      BY <2>1 DEF Idle
    <2>3. \A d \in Callers \ {c} : caller'[d] = caller[d]
      BY <1>6 DEF Refuse, End, IInv, TypeOK
    <2>4. UNCHANGED <<reservations, begun, spent>>
      BY <1>6 DEF Refuse, End
    <2>5. QED
      BY <1>1, <2>2, <2>3, <2>4, KeepInv DEF Zero
  <1>7. ASSUME NEW c \in Callers, LeaseStops(c)
        PROVE  IInv'
    <2>1. /\ caller[c] \in CallerType
          /\ caller'[c] = [caller[c] EXCEPT !.closed = TRUE]
          /\ \A d \in Callers \ {c} : caller'[d] = caller[d]
          /\ UNCHANGED <<reservations, begun, spent>>
      BY <1>7 DEF LeaseStops, IInv, TypeOK, CallerType
    <2>2. /\ caller'[c].pc = caller[c].pc /\ caller'[c].id = caller[c].id
          /\ caller'[c].period = caller[c].period /\ caller'[c].used = caller[c].used
          /\ caller'[c].limits = caller[c].limits /\ caller'[c].openedAt = caller[c].openedAt
          /\ caller'[c].expiresAtMs = caller[c].expiresAtMs
      BY <2>1 DEF CallerType
    <2>3. \A d \in Callers : (Holds(d)' <=> Holds(d)) /\ Key(d)' = Key(d)
      BY <2>1, <2>2 DEF Holds, Key
    <2>4. Backed(c)' /\ Unused(c)'
      BY <2>1, <2>2, <2>3 DEF IInv, Backed, Unused
    <2>5. \A d \in Callers \ {c} : Backed(d)' /\ Unused(d)'
      BY <2>1, <2>3 DEF IInv, Backed, Unused
    <2>6. Disjoint'
      BY <2>3 DEF IInv, Disjoint
    <2>7. Untouched' /\ SpendingCovered'
      BY <2>1 DEF IInv, Untouched, SpendingCovered
    <2>8. QED
      BY <1>1, <2>4, <2>5, <2>6, <2>7 DEF IInv
  <1>8. ASSUME UNCHANGED <<reservations, caller, begun, spent>>
        PROVE  IInv'
    BY <1>1, <1>8, KeepInv
  <1>9. CASE Tick \/ (\E p \in Policies : Redeploy(p)) \/ UNCHANGED vars
    BY <1>8, <1>9 DEF Tick, Redeploy, vars
  <1>10. QED
    BY <1>2, <1>3, <1>4, <1>5, <1>6, <1>7, <1>9 DEF Next

\* The inductive invariant holds in every reachable state.
THEOREM Invariance == Spec => []IInv
  BY InitInv, NextInv, PTL DEF Spec

-----------------------------------------------------------------------------
(* What follows from it *)

\* No reservation is worked twice, whatever is lost, retried or restarted.
THEOREM ReservationsWorkedOnce == Spec => []WorkedOnce
  <1>1. IInv => WorkedOnce
    BY DEF IInv, Disjoint, Backed, WorkedOnce, Holds
  <1>2. QED
    BY <1>1, Invariance, PTL

\* Everything charged under an id is covered by its reservation.
THEOREM AllSpendingCovered == Spec => []SpendingCovered
  <1>1. IInv => SpendingCovered
    BY DEF IInv
  <1>2. QED
    BY <1>1, Invariance, PTL

\* A lease stops within MaxLease of real time, for any skew of any worker's clock.
THEOREM LeasesBounded == Spec => []LeaseBounded
  <1>1. ASSUME IInv, NEW c \in Callers, caller[c].pc = "running", Live(c)
        PROVE  now - caller[c].openedAt < MaxLease
    <2>1. /\ now \in Int /\ Skew[c] \in Int /\ MaxLease \in Int
          /\ caller[c].openedAt \in Int /\ caller[c].expiresAtMs \in Int
      BY <1>1, ConstantsOK DEF IInv, TypeOK
    <2>2. caller[c].expiresAtMs - (caller[c].openedAt + Skew[c]) <= MaxLease
      BY <1>1 DEF IInv, Backed, Holds
    <2>3. now + Skew[c] < caller[c].expiresAtMs
      BY <1>1 DEF Live, Clock
    <2>4. QED
      BY <2>1, <2>2, <2>3
  <1>2. IInv => LeaseBounded
    BY <1>1 DEF LeaseBounded
  <1>3. QED
    BY <1>2, Invariance, PTL

\* Work charged to a billing cycle stops within LeaseTime of the cycle's end.
THEOREM CycleOverrunBounded == Spec => []CycleOverrun
  <1>1. ASSUME IInv, NEW c \in Callers, Holds(c), Live(c)
        PROVE  Clock(c) < caller[c].period[2] + LeaseTime
    <2>1. /\ Clock(c) \in Int /\ LeaseTime \in Int
          /\ caller[c].period \in Periods /\ caller[c].expiresAtMs \in Int
      BY <1>1, ConstantsOK DEF IInv, TypeOK, Clock
    <2>2. caller[c].period[2] \in Int
      BY <2>1, PolicyType DEF Periods, Period
    <2>3. caller[c].expiresAtMs < caller[c].period[2] + LeaseTime
      BY <1>1 DEF IInv, Backed
    <2>4. Clock(c) < caller[c].expiresAtMs
      BY <1>1 DEF Live
    <2>5. QED
      BY <2>1, <2>2, <2>3, <2>4
  <1>2. IInv => CycleOverrun
    BY <1>1 DEF CycleOverrun
  <1>3. QED
    BY <1>2, Invariance, PTL

\* Reserved dollars on top of a measured bill never pass STOP_MICRO_USD.
THEOREM BudgetKept == Spec => []WithinBudget
  <1>1. Init => WithinBudget
    <2>1. \A P \in Periods : Committed(P) # {}
      BY DEF Periods, Committed
    <2>2. QED
      BY <2>1 DEF Init, WithinBudget
  <1>2. ASSUME TypeOK, WithinBudget, [Next]_vars
        PROVE  WithinBudget'
    <2>1. ASSUME NEW c \in Callers, Grant(c) \/ GrantLost(c)
          PROVE  WithinBudget'
      <3> DEFINE P == Period(policy)
                 job == caller[c].job
      <3>1. P \in Periods /\ policy.committed \in Committed(P)
        BY <1>2, PolicyType DEF TypeOK, Committed
      <3>2. policy.committed + ledger[P].reserved + JobCost(policy, job) <= Stop
        BY <2>1 DEF Grant, GrantLost, Admits, WithinStop
      <3>3. ledger' = [ledger EXCEPT ![P] = Charged(ledger[P], policy, job)]
        BY <2>1 DEF Grant, GrantLost, Commit
      <3>4. /\ ledger'[P].reserved = ledger[P].reserved + JobCost(policy, job)
            /\ \A Q \in Periods \ {P} : ledger'[Q] = ledger[Q]
        BY <1>2, <3>1, <3>3 DEF TypeOK, Charged
      <3>5. /\ policy.committed \in Nat /\ ledger[P].reserved \in Nat /\ JobCost(policy, job) \in Nat
        <4>1. job \in Jobs /\ job \in Certified /\ job \in DOMAIN policy.jobs /\ policy \in Policies
          BY <1>2, <2>1 DEF TypeOK, Grant, GrantLost, Admits, PolicyCertifies
        <4>2. QED
          BY <1>2, <3>1, <4>1, PolicyType DEF TypeOK, JobCost
      <3>6. policy.committed + ledger'[P].reserved <= Stop
        BY <3>2, <3>4, <3>5
      <3>7. \A Q \in Periods \ {P} : \E base \in Committed(Q) :
              ledger'[Q].reserved > 0 => base + ledger'[Q].reserved <= Stop
        BY <1>2, <3>4 DEF WithinBudget
      <3>8. QED
        BY <3>1, <3>6, <3>7 DEF WithinBudget, Committed
    <2>2. ASSUME UNCHANGED ledger
          PROVE  WithinBudget'
      BY <1>2, <2>2 DEF WithinBudget, Committed
    <2>3. QED
      BY <1>2, <2>1, <2>2
      DEF Next, Request, Refuse, OpenLease, End, Spend, LeaseStops, Redeploy, Tick, vars
  <1>3. QED
    BY <1>1, <1>2, TypeCorrect, PTL DEF Spec

-----------------------------------------------------------------------------
(* The books of a period: its totals, its ids and the policies that admitted them *)

\* In every unit the total is within the ceiling of some policy of the period.
Capped ==
  \A P \in Periods, u \in Units : \E p \in Policies :
    Period(p) = P /\ ledger[P].units[u] <= Amount(p.unitCeilings, u)

\* An inspection that is charged used up the one attempt of its period.
AttemptUsed ==
  \A P \in Periods :
    /\ \A i \in Held(P) :
         reservations[P][i].job = Inspection => ledger[P].units[Attempts] >= 1
    /\ \A i, j \in Held(P) :
         reservations[P][i].job = Inspection /\ reservations[P][j].job = Inspection => i = j

\* A cycle that runs on allocations alone is within that of some policy.
Allocated ==
  \A P \in Periods : AllocatedOnly(P) => \E p \in Policies :
    Period(p) = P /\ ledger[P].reserved <= p.allocation.maxReserved

Books == LedgerBacked /\ Capped /\ AttemptUsed /\ Allocated

\* What the assumptions say of a policy's ceilings and allocation.
LEMMA CeilingType ==
  ASSUME NEW p \in Policies
  PROVE  /\ \A u \in Units : Amount(p.unitCeilings, u) \in Nat
         /\ p.allocation.maxReserved \in Nat
  <1>1. IsPolicy(p)
    BY ConstantsOK
  <1>2. IsUnits(p.unitCeilings)
    BY <1>1 DEF IsPolicy
  <1>3. p.allocation \in [authorized : BOOLEAN, observed : Nat, maxReserved : Nat]
    BY <1>1 DEF IsPolicy
  <1>4. QED
    BY <1>2, <1>3, AmountType

\* The ids of a period are finitely many.
LEMMA HeldFinite == \A P \in Periods : IsFiniteSet(Held(P))
  BY FinitelyMany, FS_Subset DEF Held

LEMMA InitBooks == Init => Books
  <1> SUFFICES ASSUME Init PROVE Books
    OBVIOUS
  <1>1. \A P \in Periods : /\ ledger[P].reserved = 0 /\ ledger[P].count = 0
                           /\ \A u \in Units : ledger[P].units[u] = 0
                           /\ Held(P) = {}
    BY DEF Init, NoReservation, Held, Zero
  <1>2. \A P \in Periods : \E p \in Policies : Period(p) = P
    BY DEF Periods
  <1>3. LedgerBacked
    <2>1. \A f : SumFunctionOnSet(f, {}) = 0
      BY FS_EmptySet, SumUnfolds
    <2>2. QED
      BY <1>1, <2>1, FS_EmptySet DEF LedgerBacked
  <1>4. Capped
    BY <1>1, <1>2, CeilingType DEF Capped
  <1>5. AttemptUsed
    BY <1>1 DEF AttemptUsed
  <1>6. Allocated
    BY <1>1, <1>2, CeilingType DEF Allocated
  <1>7. QED
    BY <1>3, <1>4, <1>5, <1>6 DEF Books

\* A new id adds its value to the sum of a period, the values of the others staying.
LEMMA BookAdded ==
  ASSUME NEW S, IsFiniteSet(S), NEW x, x \notin S, NEW f, NEW g,
         \A y \in S : f[y] \in Nat /\ g[y] = f[y], g[x] \in Nat
  PROVE  SumFunctionOnSet(g, S \union {x}) = SumFunctionOnSet(f, S) + g[x]
  <1>1. SumFunctionOnSet(g, S) = SumFunctionOnSet(f, S)
    BY SumSame
  <1>2. SumFunctionOnSet(g, S \union {x}) = g[x] + SumFunctionOnSet(g, S)
    BY SumAdd
  <1>3. SumFunctionOnSet(f, S) \in Nat
    BY SumType
  <1>4. QED
    BY <1>1, <1>2, <1>3

\* What a grant does to the books: one id more, charged to the totals of its period.
LEMMA GrantEffect ==
  ASSUME IInv, NEW c \in Callers, Grant(c) \/ GrantLost(c),
         NEW P, P = Period(policy), NEW i, i = caller[c].id, NEW job, job = caller[c].job
  PROVE  /\ P \in Periods /\ i \in Ids /\ i \notin Held(P)
         /\ policy \in Policies /\ Admits(policy, job, i, now)
         /\ job \in Certified /\ job \in Jobs /\ job \in DOMAIN policy.jobs
         /\ Held(P)' = Held(P) \union {i}
         /\ reservations'[P][i] = Reservation(policy, job)
         /\ ledger'[P] = Charged(ledger[P], policy, job)
         /\ \A j \in Held(P) : reservations'[P][j] = reservations[P][j]
         /\ \A Q \in Periods \ {P} :
              ledger'[Q] = ledger[Q] /\ reservations'[Q] = reservations[Q] /\ Held(Q)' = Held(Q)
  <1>1. /\ P \in Periods /\ i \in Ids /\ policy \in Policies /\ Admits(policy, job, i, now)
        /\ job \in Certified /\ job \in Jobs /\ job \in DOMAIN policy.jobs
        /\ ~reservations[P][i].taken
    BY PolicyType DEF Grant, GrantLost, IInv, TypeOK, Admits, PolicyCertifies, NotDuplicate
  <1>2. /\ reservations' = [reservations EXCEPT ![P][i] = Reservation(policy, job)]
        /\ ledger' = [ledger EXCEPT ![P] = Charged(ledger[P], policy, job)]
    BY DEF Grant, GrantLost, Commit
  <1>3. /\ reservations'[P][i] = Reservation(policy, job)
        /\ \A j \in Ids \ {i} : reservations'[P][j] = reservations[P][j]
        /\ \A Q \in Periods \ {P} : reservations'[Q] = reservations[Q]
        /\ ledger'[P] = Charged(ledger[P], policy, job)
        /\ \A Q \in Periods \ {P} : ledger'[Q] = ledger[Q]
    BY <1>1, <1>2 DEF IInv, TypeOK
  <1>4. reservations'[P][i].taken
    BY <1>3 DEF Reservation
  <1>5. i \notin Held(P) /\ Held(P)' = Held(P) \union {i}
    BY <1>1, <1>3, <1>4 DEF Held
  <1>6. \A Q \in Periods \ {P} : Held(Q)' = Held(Q)
    BY <1>3 DEF Held
  <1>7. QED
    BY <1>1, <1>3, <1>5, <1>6 DEF Held

\* The totals stay the sums over the ids.
LEMMA GrantBacked ==
  ASSUME IInv, TypeOK', LedgerBacked, NEW c \in Callers, Grant(c) \/ GrantLost(c)
  PROVE  LedgerBacked'
  <1>1. PICK P, i, job : P = Period(policy) /\ i = caller[c].id /\ job = caller[c].job
    OBVIOUS
  <1>2. /\ P \in Periods /\ i \in Ids /\ i \notin Held(P) /\ policy \in Policies
        /\ job \in Certified /\ job \in Jobs /\ job \in DOMAIN policy.jobs
        /\ Held(P)' = Held(P) \union {i}
        /\ reservations'[P][i] = Reservation(policy, job)
        /\ ledger'[P] = Charged(ledger[P], policy, job)
        /\ \A j \in Held(P) : reservations'[P][j] = reservations[P][j]
        /\ \A Q \in Periods \ {P} :
             ledger'[Q] = ledger[Q] /\ reservations'[Q] = reservations[Q] /\ Held(Q)' = Held(Q)
    BY <1>1, GrantEffect
  <1>3. PICK S : S = Held(P) /\ IsFiniteSet(S) /\ S \subseteq Ids
    BY <1>2, HeldFinite DEF Held
  <1>4. /\ \A j \in Ids : reservations[P][j].charge \in Nat
        /\ \A j \in Ids, u \in Units : reservations[P][j].bounds[u] \in Nat
        /\ \A j \in Ids : reservations'[P][j].charge \in Nat
        /\ \A j \in Ids, u \in Units : reservations'[P][j].bounds[u] \in Nat
    <2> DEFINE Entry == [taken : BOOLEAN, job : Jobs, charge : Nat, bounds : [Units -> Nat]]
    <2>1. \A j \in Ids : reservations[P][j] \in Entry /\ reservations'[P][j] \in Entry
      BY <1>2 DEF IInv, TypeOK
    <2>2. \A r \in Entry : r.charge \in Nat /\ \A u \in Units : r.bounds[u] \in Nat
      OBVIOUS
    <2> HIDE DEF Entry
    <2>3. QED
      BY <2>1, <2>2
  <1>5. PICK f, g : f = [j \in Ids |-> reservations[P][j].charge]
                    /\ g = [j \in Ids |-> reservations'[P][j].charge]
    OBVIOUS
  <1>6. SumFunctionOnSet(g, S \union {i}) = SumFunctionOnSet(f, S) + g[i]
    <2>1. \A y \in S : f[y] \in Nat /\ g[y] = f[y]
      BY <1>2, <1>3, <1>4, <1>5
    <2>2. g[i] \in Nat /\ i \notin S /\ IsFiniteSet(S)
      BY <1>2, <1>3, <1>4, <1>5
    <2>3. QED
      BY <2>1, <2>2, BookAdded
  <1>7. ledger'[P].reserved = SumFunctionOnSet(g, S \union {i})
    <2>1. ledger[P].reserved = SumFunctionOnSet(f, S)
      BY <1>2, <1>3, <1>5 DEF LedgerBacked
    <2>2. ledger'[P].reserved = ledger[P].reserved + JobCost(policy, job)
      BY <1>2 DEF Charged
    <2>3. g[i] = JobCost(policy, job)
      BY <1>2, <1>5 DEF Reservation
    <2>4. QED
      BY <1>6, <2>1, <2>2, <2>3
  <1>8. ledger'[P].count = Cardinality(S \union {i})
    <2>1. ledger[P].count = Cardinality(S)
      BY <1>2, <1>3 DEF LedgerBacked
    <2>2. ledger'[P].count = ledger[P].count + 1
      BY <1>2 DEF Charged
    <2>3. QED
      BY <1>2, <1>3, <2>1, <2>2, FS_AddElement
  <1>9. ASSUME NEW u \in Units
        PROVE  ledger'[P].units[u]
                 = SumFunctionOnSet([j \in Ids |-> reservations'[P][j].bounds[u]], S \union {i})
    <2>1. PICK a, b : a = [j \in Ids |-> reservations[P][j].bounds[u]]
                      /\ b = [j \in Ids |-> reservations'[P][j].bounds[u]]
      OBVIOUS
    <2>2. SumFunctionOnSet(b, S \union {i}) = SumFunctionOnSet(a, S) + b[i]
      <3>1. \A y \in S : a[y] \in Nat /\ b[y] = a[y]
        BY <1>2, <1>3, <1>4, <2>1
      <3>2. b[i] \in Nat /\ i \notin S /\ IsFiniteSet(S)
        BY <1>2, <1>3, <1>4, <2>1
      <3>3. QED
        BY <3>1, <3>2, BookAdded
    <2>3. ledger[P].units[u] = SumFunctionOnSet(a, S)
      BY <1>2, <1>3, <2>1 DEF LedgerBacked
    <2>4. ledger'[P].units[u] = ledger[P].units[u] + Amount(policy.jobs[job].maxUnits, u)
      BY <1>2 DEF Charged
    <2>5. b[i] = Amount(policy.jobs[job].maxUnits, u)
      BY <1>2, <2>1 DEF Reservation
    <2>6. QED
      BY <2>1, <2>2, <2>3, <2>4, <2>5
  <1>10. Held(P)' = S \union {i}
    BY <1>2, <1>3
  <1>11. ASSUME NEW Q \in Periods
         PROVE  /\ ledger'[Q].reserved
                     = SumFunctionOnSet([j \in Ids |-> reservations'[Q][j].charge], Held(Q)')
                /\ ledger'[Q].count = Cardinality(Held(Q)')
                /\ \A u \in Units : ledger'[Q].units[u]
                     = SumFunctionOnSet([j \in Ids |-> reservations'[Q][j].bounds[u]], Held(Q)')
    <2>1. CASE Q = P
      BY <1>5, <1>7, <1>8, <1>9, <1>10, <2>1
    <2>2. CASE Q # P
      <3>1. ledger'[Q] = ledger[Q] /\ reservations'[Q] = reservations[Q] /\ Held(Q)' = Held(Q)
        BY <1>2, <2>2
      <3>2. QED
        BY <3>1 DEF LedgerBacked
    <2>3. QED
      BY <2>1, <2>2
  <1>12. QED
    BY <1>11 DEF LedgerBacked

\* The totals stay within the ceiling of a policy, a job's units being held against
\* what the period used so far.
LEMMA GrantCapped ==
  ASSUME IInv, Capped, NEW c \in Callers, Grant(c) \/ GrantLost(c)
  PROVE  Capped'
  <1>1. PICK P, i, job : P = Period(policy) /\ i = caller[c].id /\ job = caller[c].job
    OBVIOUS
  <1>2. /\ P \in Periods /\ policy \in Policies /\ Admits(policy, job, i, now)
        /\ ledger'[P] = Charged(ledger[P], policy, job)
        /\ \A Q \in Periods \ {P} : ledger'[Q] = ledger[Q]
    BY <1>1, GrantEffect
  <1>3. \A u \in Units : ledger'[P].units[u] = ledger[P].units[u] + Amount(policy.jobs[job].maxUnits, u)
    BY <1>2 DEF Charged
  <1>4. \A u \in Units : ledger[P].units[u] \in Nat
    BY <1>2 DEF IInv, TypeOK
  <1>5. ASSUME NEW u \in Units
        PROVE  \E p \in Policies : Period(p) = P /\ ledger'[P].units[u] <= Amount(p.unitCeilings, u)
    <2>1. CASE u \in DOMAIN policy.jobs[job].maxUnits
      <3>1. /\ u \in DOMAIN policy.unitCeilings
            /\ ledger[P].units[u] + policy.jobs[job].maxUnits[u] <= policy.unitCeilings[u]
        BY <1>1, <1>2, <2>1 DEF Admits, WithinCeilings
      <3>2. ledger'[P].units[u] <= Amount(policy.unitCeilings, u)
        BY <1>3, <2>1, <3>1 DEF Amount
      <3>3. QED
        BY <1>1, <1>2, <3>2
    <2>2. CASE u \notin DOMAIN policy.jobs[job].maxUnits
      <3>1. ledger'[P].units[u] = ledger[P].units[u]
        BY <1>3, <1>4, <2>2 DEF Amount
      <3>2. QED
        BY <1>2, <3>1 DEF Capped
    <2>3. QED
      BY <2>1, <2>2
  <1>6. \A Q \in Periods \ {P}, u \in Units : \E p \in Policies :
          Period(p) = Q /\ ledger'[Q].units[u] <= Amount(p.unitCeilings, u)
    BY <1>2 DEF Capped
  <1>7. QED
    BY <1>5, <1>6 DEF Capped

\* The inspection is granted only when the one attempt of the period is unused.
LEMMA GrantAttempt ==
  ASSUME IInv, AttemptUsed, NEW c \in Callers, Grant(c) \/ GrantLost(c)
  PROVE  AttemptUsed'
  <1>1. PICK P, i, job : P = Period(policy) /\ i = caller[c].id /\ job = caller[c].job
    OBVIOUS
  <1>2. /\ P \in Periods /\ policy \in Policies /\ Admits(policy, job, i, now)
        /\ job \in DOMAIN policy.jobs /\ job \in Certified
        /\ Held(P)' = Held(P) \union {i}
        /\ reservations'[P][i] = Reservation(policy, job)
        /\ ledger'[P] = Charged(ledger[P], policy, job)
        /\ \A j \in Held(P) : reservations'[P][j] = reservations[P][j]
        /\ \A Q \in Periods \ {P} :
             ledger'[Q] = ledger[Q] /\ reservations'[Q] = reservations[Q] /\ Held(Q)' = Held(Q)
    BY <1>1, GrantEffect
  <1>3. PICK before, after : before = ledger[P].units[Attempts] /\ after = ledger'[P].units[Attempts]
    OBVIOUS
  <1>4. PICK n : n = Amount(policy.jobs[job].maxUnits, Attempts)
    OBVIOUS
  <1>5. before \in Nat /\ n \in Nat /\ after = before + n
    <2>1. Attempts \in Units /\ IsUnits(policy.jobs[job].maxUnits)
      BY <1>2, ConstantsOK, PolicyType
    <2>2. after = before + n
      BY <1>2, <1>3, <1>4, <2>1 DEF Charged
    <2>3. before \in Nat /\ n \in Nat
      BY <1>2, <1>3, <1>4, <2>1, AmountType DEF IInv, TypeOK
    <2>4. QED
      BY <2>2, <2>3
  <1>6. ASSUME job = Inspection
        PROVE  before = 0 /\ after >= 1
    <2>1. /\ policy.jobs[job].maxUnits = CodeCap[job]
          /\ Attempts \in DOMAIN policy.unitCeilings /\ policy.unitCeilings[Attempts] = 1
      BY <1>2, <1>6 DEF Admits, PolicyCertifies
    <2>2. n = 1 /\ Attempts \in DOMAIN policy.jobs[job].maxUnits
      BY <1>2, <1>4, <1>6, <2>1, ConstantsOK DEF Amount
    <2>3. policy.jobs[job].maxUnits[Attempts] = 1
      BY <1>4, <2>2 DEF Amount
    <2>4. before + 1 <= 1
      BY <1>1, <1>2, <1>3, <2>1, <2>2, <2>3 DEF Admits, WithinCeilings
    <2>5. QED
      BY <1>5, <2>2, <2>4
  <1>7. reservations'[P][i].job = job
    BY <1>2 DEF Reservation
  <1>8. ASSUME NEW j \in Held(P), reservations[P][j].job = Inspection
        PROVE  before >= 1
    BY <1>2, <1>3, <1>8 DEF AttemptUsed
  <1>9. \A j \in Held(P)' : reservations'[P][j].job = Inspection => after >= 1
    <2> SUFFICES ASSUME NEW j \in Held(P)', reservations'[P][j].job = Inspection
                 PROVE  after >= 1
      OBVIOUS
    <2>1. CASE j = i
      BY <1>6, <1>7, <2>1
    <2>2. CASE j # i
      <3>1. j \in Held(P) /\ reservations[P][j].job = Inspection
        BY <1>2, <2>2
      <3>2. QED
        BY <1>5, <1>8, <3>1
    <2>3. QED
      BY <2>1, <2>2
  <1>10. \A j, k \in Held(P)' :
           reservations'[P][j].job = Inspection /\ reservations'[P][k].job = Inspection => j = k
    <2>1. ASSUME job = Inspection
          PROVE  \A j \in Held(P) : reservations[P][j].job # Inspection
      BY <1>6, <1>8, <2>1
    <2>2. \A j, k \in Held(P) :
            reservations[P][j].job = Inspection /\ reservations[P][k].job = Inspection => j = k
      BY <1>2 DEF AttemptUsed
    <2>3. QED
      BY <1>2, <1>7, <2>1, <2>2
  <1>11. ASSUME NEW Q \in Periods
         PROVE  /\ \A j \in Held(Q)' :
                     reservations'[Q][j].job = Inspection => ledger'[Q].units[Attempts] >= 1
                /\ \A j, k \in Held(Q)' :
                     reservations'[Q][j].job = Inspection /\ reservations'[Q][k].job = Inspection => j = k
    <2>1. CASE Q = P
      BY <1>3, <1>9, <1>10, <2>1
    <2>2. CASE Q # P
      <3>1. ledger'[Q] = ledger[Q] /\ reservations'[Q] = reservations[Q] /\ Held(Q)' = Held(Q)
        BY <1>2, <2>2
      <3>2. QED
        BY <3>1 DEF AttemptUsed
    <2>3. QED
      BY <2>1, <2>2
  <1>12. QED
    BY <1>11 DEF AttemptUsed

\* Where every admission is under an allocation, the total is within the last one.
LEMMA GrantAllocated ==
  ASSUME IInv, Allocated, NEW c \in Callers, Grant(c) \/ GrantLost(c)
  PROVE  Allocated'
  <1>1. PICK P, i, job : P = Period(policy) /\ i = caller[c].id /\ job = caller[c].job
    OBVIOUS
  <1>2. /\ P \in Periods /\ policy \in Policies /\ Admits(policy, job, i, now)
        /\ ledger'[P] = Charged(ledger[P], policy, job)
        /\ \A Q \in Periods \ {P} : ledger'[Q] = ledger[Q]
    BY <1>1, GrantEffect
  <1>3. ASSUME AllocatedOnly(P)
        PROVE  ledger'[P].reserved <= policy.allocation.maxReserved
    <2>1. now \in policy.startMs..policy.endMs
      <3>1. now \in Int /\ policy.startMs \in Int /\ policy.endMs \in Int
        BY <1>2, PolicyType, ConstantsOK DEF IInv, TypeOK
      <3>2. policy.startMs <= now /\ now < policy.endMs
        BY <1>2 DEF Admits, EvidenceFresh
      <3>3. QED
        BY <3>1, <3>2
    <2>2. policy.enabled /\ EvidenceFresh(policy, now)
      BY <1>2 DEF Admits
    <2>3. ValidCycleAllocation(policy, now)
      BY <1>1, <1>2, <1>3, <2>1, <2>2 DEF AllocatedOnly
    <2>4. QED
      BY <1>1, <1>2, <2>3 DEF Admits, WithinAllocation, Charged
  <1>4. \A Q \in Periods \ {P} : AllocatedOnly(Q) => \E p \in Policies :
          Period(p) = Q /\ ledger'[Q].reserved <= p.allocation.maxReserved
    BY <1>2 DEF Allocated
  <1>5. \A Q : AllocatedOnly(Q)' <=> AllocatedOnly(Q)
    BY DEF AllocatedOnly
  <1>6. QED
    BY <1>1, <1>2, <1>3, <1>4, <1>5 DEF Allocated

\* The books only change with a grant.
LEMMA NextBooks == IInv /\ TypeOK' /\ Books /\ [Next]_vars => Books'
  <1> SUFFICES ASSUME IInv, TypeOK', Books, [Next]_vars
               PROVE  Books'
    OBVIOUS
  <1>1. ASSUME NEW c \in Callers, Grant(c) \/ GrantLost(c)
        PROVE  Books'
    BY <1>1, GrantBacked, GrantCapped, GrantAttempt, GrantAllocated DEF Books
  <1>2. ASSUME UNCHANGED <<ledger, reservations>>
        PROVE  Books'
    <2>1. \A P \in Periods : Held(P)' = Held(P)
      BY <1>2 DEF Held
    <2>2. LedgerBacked'
      BY <1>2, <2>1 DEF Books, LedgerBacked
    <2>3. Capped' /\ AttemptUsed'
      BY <1>2, <2>1 DEF Books, Capped, AttemptUsed
    <2>4. Allocated'
      BY <1>2 DEF Books, Allocated, AllocatedOnly
    <2>5. QED
      BY <2>2, <2>3, <2>4 DEF Books
  <1>3. QED
    BY <1>1, <1>2 DEF Next, Request, Refuse, OpenLease, End, Spend, LeaseStops, Redeploy, Tick, vars

\* The books of every period hold in every reachable state.
THEOREM BooksInvariance == Spec => [](IInv /\ Books)
  <1>1. IInv /\ Books /\ [Next]_vars => (IInv /\ Books)'
    BY NextInv, NextBooks DEF IInv
  <1>2. QED
    BY <1>1, InitInv, InitBooks, PTL DEF Spec

\* The totals of a period are the sums over the reservations it holds.
THEOREM TotalsBacked == Spec => []LedgerBacked
  <1>1. Books => LedgerBacked
    BY DEF Books
  <1>2. QED
    BY <1>1, BooksInvariance, PTL

\* At most one inspection is admitted in a period.
THEOREM OneInspection == Spec => []InspectedOnce
  <1>1. ASSUME AttemptUsed, NEW P \in Periods
        PROVE  Cardinality({i \in Ids : reservations[P][i].taken /\ reservations[P][i].job = Inspection}) <= 1
    <2> DEFINE inspections == {i \in Ids : reservations[P][i].taken /\ reservations[P][i].job = Inspection}
    <2>1. \A i, j \in inspections : i = j
      BY <1>1 DEF AttemptUsed, Held
    <2> HIDE DEF inspections
    <2>2. CASE inspections = {}
      <3>1. Cardinality(inspections) = 0
        BY <2>2, FS_EmptySet
      <3>2. QED
        BY <3>1 DEF inspections
    <2>3. CASE inspections # {}
      <3>1. PICK i : inspections = {i}
        BY <2>1, <2>3
      <3>2. Cardinality(inspections) = 1
        BY <3>1, FS_Singleton
      <3>3. QED
        BY <3>2 DEF inspections
    <2>4. QED
      BY <2>2, <2>3
  <1>2. Books => InspectedOnce
    BY <1>1 DEF Books, InspectedOnce
  <1>3. QED
    BY <1>2, BooksInvariance, PTL

\* The largest value over a finite set is one of the values, and bounds them all.
LEMMA LargestValue ==
  ASSUME NEW S, IsFiniteSet(S), NEW f, \A x \in S : f[x] \in Nat
  PROVE  \A x \in S : f[x] <= Max({f[y] : y \in S}) /\ Max({f[y] : y \in S}) \in Nat
  <1> DEFINE T == {s \in SUBSET S : s # {} => \E x \in s : \A y \in s : f[y] <= f[x]}
  <1>1. ASSUME NEW s \in SUBSET S, \A t \in SUBSET s : t # s => t \in T
        PROVE  s \in T
    <2> SUFFICES ASSUME s # {} PROVE \E x \in s : \A y \in s : f[y] <= f[x]
      OBVIOUS
    <2>1. PICK z \in s : TRUE
      OBVIOUS
    <2>2. \A x \in s : f[x] \in Nat
      OBVIOUS
    <2>3. CASE s \ {z} = {}
      BY <2>1, <2>2, <2>3
    <2>4. CASE s \ {z} # {}
      <3>1. PICK x \in s \ {z} : \A y \in s \ {z} : f[y] <= f[x]
        <4>1. s \ {z} \in SUBSET s /\ s \ {z} # s
          BY <2>1
        <4>2. s \ {z} \in T
          BY <1>1, <4>1
        <4>3. QED
          BY <2>4, <4>2
      <3>2. CASE f[z] <= f[x]
        BY <2>1, <3>1, <3>2
      <3>3. CASE f[x] <= f[z]
        <4>1. \A y \in s : f[y] <= f[z]
          BY <2>1, <2>2, <3>1, <3>3
        <4>2. QED
          BY <2>1, <4>1
      <3>4. QED
        BY <2>1, <2>2, <3>1, <3>2, <3>3
    <2>5. QED
      BY <2>3, <2>4
  <1> HIDE DEF T
  <1>2. S \in T
    BY <1>1, SubsetInduction
  <1>3. S # {} => \E x \in S : \A y \in S : f[y] <= f[x]
    BY <1>2 DEF T
  <1> DEFINE V == {f[y] : y \in S}
  <1>4. ASSUME NEW x \in S
        PROVE  f[x] <= Max(V) /\ Max(V) \in Nat
    <2>1. \E m \in V : \A v \in V : m >= v
      BY <1>3
    <2>2. Max(V) \in V /\ \A v \in V : Max(V) >= v
      BY <2>1 DEF Max
    <2>3. f[x] \in V /\ f[x] \in Nat /\ Max(V) \in Nat
      BY <2>2
    <2> HIDE DEF V
    <2>4. QED
      BY <2>2, <2>3
  <1>5. QED
    BY <1>4

\* All the work of a period together is within the largest unit ceiling it was given.
THEOREM CeilingsHonoured == Spec => []AccountCeilings
  <1>1. ASSUME IInv, Books, NEW P \in Periods, NEW u \in Units
        PROVE  SumFunctionOnSet([i \in Ids |-> spent[P][i][u]], Ids) <= Max(Ceilings(P, u))
    <2>1. PICK work, bound, S : /\ work = [i \in Ids |-> spent[P][i][u]]
                                /\ bound = [i \in Ids |-> reservations[P][i].bounds[u]]
                                /\ S = Held(P)
      OBVIOUS
    <2>2. IsFiniteSet(Ids) /\ IsFiniteSet(S) /\ S \subseteq Ids
      BY <2>1, FinitelyMany, HeldFinite DEF Held
    <2>3. \A i \in Ids : work[i] \in Nat /\ bound[i] \in Nat /\ work[i] <= bound[i]
      <3>1. \A i \in Ids : reservations[P][i] \in
              [taken : BOOLEAN, job : Jobs, charge : Nat, bounds : [Units -> Nat]]
        BY <1>1 DEF IInv, TypeOK
      <3>2. \A i \in Ids : work[i] \in Nat /\ bound[i] \in Nat
        BY <1>1, <2>1, <3>1 DEF IInv, TypeOK
      <3>3. \A i \in Ids : work[i] <= bound[i]
        BY <1>1, <2>1 DEF IInv, SpendingCovered
      <3>4. QED
        BY <3>2, <3>3
    <2>4. \A i \in Ids \ S : work[i] = 0
      BY <1>1, <2>1 DEF IInv, Untouched, Held
    <2>5. SumFunctionOnSet(work, Ids) = SumFunctionOnSet(work, S)
      BY <2>2, <2>3, <2>4, SumOfRest
    <2>6. SumFunctionOnSet(work, S) <= SumFunctionOnSet(bound, S)
      BY <2>2, <2>3, SumMonotone
    <2>7. SumFunctionOnSet(bound, S) = ledger[P].units[u]
      BY <1>1, <2>1 DEF Books, LedgerBacked
    <2>8. PICK p \in Policies : Period(p) = P /\ ledger[P].units[u] <= Amount(p.unitCeilings, u)
      BY <1>1 DEF Books, Capped
    <2>9. Amount(p.unitCeilings, u) <= Max(Ceilings(P, u)) /\ Max(Ceilings(P, u)) \in Nat
      <3> DEFINE R == {q \in Policies : Period(q) = P}
                 f == [q \in Policies |-> Amount(q.unitCeilings, u)]
      <3>1. IsFiniteSet(R) /\ p \in R
        BY <2>8, FinitelyMany, FS_Subset
      <3>2. \A q \in R : f[q] \in Nat
        BY CeilingType
      <3>3. Ceilings(P, u) = {f[q] : q \in R}
        BY DEF Ceilings
      <3>4. f[p] = Amount(p.unitCeilings, u)
        OBVIOUS
      <3> HIDE DEF R, f
      <3>5. f[p] <= Max({f[q] : q \in R}) /\ Max({f[q] : q \in R}) \in Nat
        BY <3>1, <3>2, LargestValue
      <3>6. QED
        BY <3>3, <3>4, <3>5
    <2>10. PICK a, b, d, e : /\ a = SumFunctionOnSet(work, S) /\ b = SumFunctionOnSet(bound, S)
                             /\ d = Amount(p.unitCeilings, u) /\ e = Max(Ceilings(P, u))
      OBVIOUS
    <2>11. a \in Nat /\ b \in Nat /\ d \in Nat /\ e \in Nat
      <3>1. \A i \in S : work[i] \in Nat /\ bound[i] \in Nat
        BY <2>2, <2>3
      <3>2. a \in Nat /\ b \in Nat
        BY <2>2, <2>10, <3>1, SumType
      <3>3. QED
        BY <2>9, <2>10, <3>2, CeilingType
    <2>12. a <= b /\ b <= d /\ d <= e
      BY <2>6, <2>7, <2>8, <2>9, <2>10
    <2>13. a <= e
      BY <2>11, <2>12
    <2>14. QED
      BY <2>1, <2>5, <2>10, <2>13
  <1>2. IInv /\ Books => AccountCeilings
    BY <1>1 DEF AccountCeilings
  <1>3. QED
    BY <1>2, BooksInvariance, PTL

\* A cycle that runs on allocations alone stays within the largest of them.
THEOREM AllocationsHonoured == Spec => []AllocationHonoured
  <1>1. ASSUME IInv, Books, NEW P \in Periods, AllocatedOnly(P)
        PROVE  ledger[P].reserved
                 <= Max({p.allocation.maxReserved : p \in {q \in Policies : Period(q) = P}})
    <2> DEFINE R == {q \in Policies : Period(q) = P}
               f == [q \in Policies |-> q.allocation.maxReserved]
    <2>1. PICK p \in Policies : Period(p) = P /\ ledger[P].reserved <= p.allocation.maxReserved
      BY <1>1 DEF Books, Allocated
    <2>2. IsFiniteSet(R) /\ p \in R
      BY <2>1, FinitelyMany, FS_Subset
    <2>3. \A q \in R : f[q] \in Nat
      BY CeilingType
    <2>4. {q.allocation.maxReserved : q \in R} = {f[q] : q \in R} /\ f[p] = p.allocation.maxReserved
      OBVIOUS
    <2>5. \A q \in R : f[q] <= Max({f[x] : x \in R}) /\ Max({f[x] : x \in R}) \in Nat
      <3> HIDE DEF R, f
      <3>1. QED
        BY <2>2, <2>3, LargestValue
    <2>6. PICK a, b, m : a = ledger[P].reserved /\ b = f[p] /\ m = Max({f[x] : x \in R})
      OBVIOUS
    <2>7. a \in Nat /\ b \in Nat /\ m \in Nat /\ a <= b /\ b <= m
      BY <1>1, <2>1, <2>2, <2>3, <2>4, <2>5, <2>6 DEF IInv, TypeOK
    <2>8. a <= m
      BY <2>7
    <2>9. QED
      BY <2>4, <2>6, <2>8
  <1>2. IInv /\ Books => AllocationHonoured
    BY <1>1 DEF AllocationHonoured
  <1>3. QED
    BY <1>2, BooksInvariance, PTL

-----------------------------------------------------------------------------
(* The ledger implements its promise *)

LEMMA PromiseInit == Init => Promise!Init
  <1> SUFFICES ASSUME Init PROVE Promise!Init
    OBVIOUS
  <1>1. \A P \in Periods, i \in Ids : ~reservations[P][i].taken /\ reservations[P][i].bounds = Zero
    BY DEF Init, NoReservation
  <1>2. Promise!None = Zero
    BY DEF Promise!None, Zero
  <1>3. [P \in Periods |-> ledger[P].reserved] = [P \in Periods |-> 0]
    BY DEF Init
  <1>4. {k \in Periods \X Ids : reservations[k[1]][k[2]].taken} = {}
    BY <1>1
  <1>5. [P \in Periods |-> [i \in Ids |-> reservations[P][i].bounds]]
          = [P \in Periods |-> [i \in Ids |-> Zero]]
    BY <1>1
  <1>6. begun = {} /\ spent = [P \in Periods |-> [i \in Ids |-> Zero]]
    BY DEF Init
  <1>7. QED
    BY <1>2, <1>3, <1>4, <1>5, <1>6 DEF Promise!Init

\* A grant is a charge, whether or not its reply arrives.
LEMMA GrantCharges ==
  ASSUME IInv, TypeOK', NEW c \in Callers, Grant(c) \/ GrantLost(c),
         NEW P \in Periods, NEW i \in Ids, P = Period(policy), i = caller[c].id
  PROVE  Promise!Charge(P, i)
  <1> DEFINE job == caller[c].job
             total == [Q \in Periods |-> ledger[Q].reserved]
             charged == {k \in Periods \X Ids : reservations[k[1]][k[2]].taken}
             bound == [Q \in Periods |-> [j \in Ids |-> reservations[Q][j].bounds]]
  <1>1. /\ P \in Periods /\ i \in Ids
        /\ ~reservations[P][i].taken
        /\ reservations'[P][i].taken
        /\ \A Q \in Periods, j \in Ids : <<Q, j>> # <<P, i>> => reservations'[Q][j] = reservations[Q][j]
    BY CommitEffect
  <1>2. <<P, i>> \notin charged
    BY <1>1
  <1>3. charged' = charged \union {<<P, i>>}
    <2>1. \A k \in Periods \X Ids : k # <<P, i>> => reservations'[k[1]][k[2]] = reservations[k[1]][k[2]]
      BY <1>1
    <2>2. \A k \in Periods \X Ids : k \in charged' <=> k \in charged \union {<<P, i>>}
      BY <1>1, <2>1
    <2>3. QED
      BY <1>1, <2>2
  <1>4. policy \in Policies /\ job \in Jobs /\ job \in Certified /\ job \in DOMAIN policy.jobs
    BY DEF IInv, TypeOK, Grant, GrantLost, Admits, PolicyCertifies
  <1>5. /\ policy.committed \in Nat /\ ledger[P].reserved \in Nat
        /\ JobCost(policy, job) \in Nat /\ JobCost(policy, job) >= 1
        /\ ledger[P].reserved + JobCost(policy, job) \in (ledger[P].reserved + 1)..Stop
    <2>1. /\ policy.committed \in Nat /\ policy.jobs[job].cost \in Nat /\ policy.jobs[job].overhead \in Nat
          /\ ledger[P].reserved \in Nat /\ Stop \in Nat
      BY <1>1, <1>4, PolicyType, ConstantsOK DEF IInv, TypeOK
    <2>2. /\ policy.jobs[job].cost >= 1
          /\ policy.committed + ledger[P].reserved + JobCost(policy, job) <= Stop
      BY DEF Grant, GrantLost, Admits, WithinStop
    <2>3. JobCost(policy, job) \in Nat /\ JobCost(policy, job) >= 1
      BY <2>1, <2>2 DEF JobCost
    <2>4. QED
      BY <2>1, <2>2, <2>3
  <1>6. /\ ledger'[P].reserved = ledger[P].reserved + JobCost(policy, job)
        /\ \A Q \in Periods \ {P} : ledger'[Q] = ledger[Q]
    <2>1. ledger' = [ledger EXCEPT ![P] = Charged(ledger[P], policy, job)]
      BY DEF Grant, GrantLost, Commit
    <2>2. QED
      BY <1>1, <2>1 DEF IInv, TypeOK, Charged
  <1>7. total'[P] \in (total[P] + 1)..Stop /\ total' = [total EXCEPT ![P] = total'[P]]
    BY <1>1, <1>5, <1>6
  <1>8. bound'[P][i] \in [Units -> Nat]
    <2>1. reservations'[P][i] \in [taken : BOOLEAN, job : Jobs, charge : Nat, bounds : [Units -> Nat]]
      BY <1>1 DEF TypeOK
    <2>2. QED
      BY <1>1, <2>1
  <1>9. bound' = [bound EXCEPT ![P][i] = bound'[P][i]]
    <2>1. \A Q \in Periods, j \in Ids : <<Q, j>> # <<P, i>> => bound'[Q][j] = bound[Q][j]
      BY <1>1
    <2>2. \A Q \in Periods \ {P} : bound'[Q] = bound[Q]
      BY <2>1
    <2>3. \A j \in Ids : bound'[P][j] = [bound[P] EXCEPT ![i] = bound'[P][i]][j]
      BY <1>1, <2>1
    <2>4. bound'[P] = [bound[P] EXCEPT ![i] = bound'[P][i]]
      BY <1>1, <2>3
    <2>5. \A Q \in Periods : bound'[Q] = [bound EXCEPT ![P][i] = bound'[P][i]][Q]
      BY <1>1, <2>2, <2>4
    <2>6. QED
      BY <2>5
  <1>10. UNCHANGED <<begun, spent>>
    BY DEF Grant, GrantLost
  <1>11. QED
    BY <1>2, <1>3, <1>7, <1>8, <1>9, <1>10 DEF Promise!Charge, Promise!Sets

\* Opening a lease starts the work of a charged id.
LEMMA OpenStarts ==
  ASSUME IInv, NEW c \in Callers, OpenLease(c)
  PROVE  Promise!Start(caller[c].period, caller[c].id)
  <1>1. /\ caller[c].period \in Periods /\ caller[c].id \in Ids
        /\ reservations[caller[c].period][caller[c].id].taken
        /\ Key(c) \notin begun
    BY DEF OpenLease, IInv, Backed, Holds, TypeOK
  <1>2. begun' = begun \union {Key(c)} /\ UNCHANGED <<ledger, reservations, spent>>
    BY DEF OpenLease, Key
  <1>3. QED
    BY <1>1, <1>2 DEF Promise!Start, Key

\* A charge to a lease is use within the id's charge.
LEMMA SpendUses ==
  ASSUME IInv, IInv', NEW c \in Callers, NEW cost \in Costs, Spend(c, cost)
  PROVE  Promise!Use(caller[c].period, caller[c].id)
  <1> DEFINE P == caller[c].period
             i == caller[c].id
             bound == [Q \in Periods |-> [j \in Ids |-> reservations[Q][j].bounds]]
  <1>1. P \in Periods /\ i \in Ids /\ <<P, i>> \in begun /\ cost \in [Units -> Nat]
    BY ConstantsOK DEF Spend, IInv, Backed, Holds, Key, TypeOK
  <1>2. /\ spent' = [spent EXCEPT ![P][i] = spent'[P][i]]
        /\ spent'[P][i] = Add(spent[P][i], cost)
    BY <1>1 DEF Spend, IInv, TypeOK
  <1>3. spent[P][i] \in [Units -> Nat] /\ spent'[P][i] \in [Units -> Nat]
    BY <1>1 DEF IInv, TypeOK
  <1>4. \A u \in Units : spent[P][i][u] <= spent'[P][i][u]
    <2> SUFFICES ASSUME NEW u \in Units
                 PROVE  spent[P][i][u] <= spent'[P][i][u]
      OBVIOUS
    <2>1. spent'[P][i][u] = spent[P][i][u] + cost[u]
      BY <1>2 DEF Add
    <2>2. spent[P][i][u] \in Nat /\ cost[u] \in Nat
      BY <1>1, <1>3
    <2> HIDE DEF P, i
    <2>3. QED
      BY <2>1, <2>2
  <1>5. UNCHANGED <<ledger, reservations, begun>>
    BY DEF Spend
  <1>6. \A u \in Units : spent'[P][i][u] <= bound[P][i][u]
    <2>1. SpendingCovered'
      BY DEF IInv
    <2>2. QED
      BY <1>1, <1>5, <2>1 DEF SpendingCovered
  <1>7. QED
    BY <1>1, <1>2, <1>3, <1>4, <1>5, <1>6 DEF Promise!Use, Promise!Sets

\* The admission ledger and its leases implement the abstract promise.
THEOREM PromiseKept == Spec => KeepsPromise
  <1>1. ASSUME IInv, IInv', [Next]_vars
        PROVE  [Promise!Next]_(Promise!vars)
    <2>1. ASSUME NEW c \in Callers, Grant(c) \/ GrantLost(c)
          PROVE  Promise!Next
      <3>1. Period(policy) \in Periods /\ caller[c].id \in Ids
        BY <1>1, PolicyType DEF IInv, TypeOK
      <3>2. PICK P \in Periods, i \in Ids : P = Period(policy) /\ i = caller[c].id
        BY <3>1
      <3>3. Promise!Charge(P, i)
        BY <1>1, <2>1, <3>2, GrantCharges DEF IInv
      <3>4. QED
        BY <3>3 DEF Promise!Next
    <2>2. ASSUME NEW c \in Callers, OpenLease(c)
          PROVE  Promise!Next
      <3>1. caller[c].period \in Periods /\ caller[c].id \in Ids
        BY <1>1 DEF IInv, TypeOK
      <3>2. Promise!Start(caller[c].period, caller[c].id)
        BY <1>1, <2>2, OpenStarts
      <3>3. QED
        BY <3>1, <3>2 DEF Promise!Next
    <2>3. ASSUME NEW c \in Callers, NEW cost \in Costs, Spend(c, cost)
          PROVE  Promise!Next
      <3>1. caller[c].period \in Periods /\ caller[c].id \in Ids
        BY <1>1 DEF IInv, TypeOK
      <3>2. Promise!Use(caller[c].period, caller[c].id)
        BY <1>1, <2>3, SpendUses
      <3>3. QED
        BY <3>1, <3>2 DEF Promise!Next
    <2>4. ASSUME UNCHANGED <<ledger, reservations, begun, spent>>
          PROVE  UNCHANGED (Promise!vars)
      BY <2>4 DEF Promise!vars
    <2>5. QED
      BY <1>1, <2>1, <2>2, <2>3, <2>4
      DEF Next, Request, Refuse, End, LeaseStops, Redeploy, Tick, vars
  <1>2. QED
    BY <1>1, PromiseInit, Invariance, PTL DEF Spec, KeepsPromise, Promise!Spec
=============================================================================
