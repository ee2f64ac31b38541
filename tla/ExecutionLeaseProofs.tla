-------------------------- MODULE ExecutionLeaseProofs --------------------------
(* The calls of a job keep the account's rules and stay within its reservation, *)
(* for any number of calls, any parts and any policies, workers and clocks.      *)
EXTENDS ExecutionLease, AccountBudgetProofs, FiniteSetTheorems

LEMMA CostsTyped ==
  ASSUME NEW cost \in Costs
  PROVE  cost \in [Units -> Nat]
BY ConstantsOK

\* Every step of a call, of the worker's end and of the account is a step of
\* AccountBudget, or leaves it as it is.
LEMMA CallsAreBudgeted == [CallNext]_<<vars, callVars>> => [Next]_vars
<1>1. ASSUME NEW c \in Callers, Calls(c) PROVE [Next]_vars
  <2>1. PICK k \in Slots :
          \/ \E kind \in Kinds, n \in Sizes : Ask(c, k, kind, n)
          \/ Answered(c, k) \/ Responds(c, k) \/ FindsUnsized(c, k)
          \/ \E size \in Sizes : Finds(c, k, size)
          \/ Pull(c, k) \/ BodyEnds(c, k)
          \/ \E n \in 1..MaxPart : ResponsePart(c, k, n) \/ ObjectPart(c, k, n)
    BY <1>1 DEF Calls
  <2>2. ASSUME NEW cost \in Costs, Spend(c, cost) PROVE Next BY <2>2 DEF Next
  <2>3. LeaseStops(c) => Next BY DEF Next
  <2>4. ASSUME NEW kind \in Kinds, NEW n \in Sizes, Ask(c, k, kind, n) PROVE Next
    <3>1. Asking(kind, n) \in Costs BY LeaseConstants
    <3> QED BY <2>2, <2>3, <2>4, <3>1 DEF Ask, SpendStops
  <2>5. ASSUME NEW size \in Sizes, Finds(c, k, size) PROVE Next
    <3>1. Bytes("get", size) \in Costs BY LeaseConstants DEF Kinds
    <3> QED BY <2>2, <2>3, <2>5, <3>1 DEF Finds, SpendStops
  <2>6. ASSUME NEW n \in 1..MaxPart, ResponsePart(c, k, n) PROVE Next
    <3>1. Bytes("fetch", n) \in Costs BY LeaseConstants DEF Kinds
    <3> QED BY <2>2, <2>3, <2>6, <3>1 DEF ResponsePart, SpendStops
  <2>7. ASSUME NEW n \in 1..MaxPart, ObjectPart(c, k, n) PROVE [Next]_vars
    BY <2>3, <2>7 DEF ObjectPart
  <2>8. Answered(c, k) \/ Responds(c, k) \/ FindsUnsized(c, k) \/ Pull(c, k) \/ BodyEnds(c, k)
          => [Next]_vars
    BY <2>3 DEF Answered, Responds, FindsUnsized, Pull, BodyEnds
  <2> QED BY <2>1, <2>4, <2>5, <2>6, <2>7, <2>8
<1>2. ASSUME NEW c \in Callers, Rejects(c) \/ Over(c) PROVE Next
  BY <1>2 DEF Rejects, Over, Next
<1>3. Account => Next BY DEF Account, Next
<1> QED BY <1>1, <1>2, <1>3 DEF CallNext

\* A job's calls charge and stop the lease in no other way than AccountBudget lets a
\* worker do: what it proves of reservations and leases holds of jobs with calls.
THEOREM CallsKeepBudget == CallSpec => Spec
<1>1. CallInit => Init BY DEF CallInit
<1> QED BY <1>1, CallsAreBudgeted, PTL DEF CallSpec, Spec

\* So with any number of calls under way the work of a cycle stops in time, an
\* allocation bounds its cycle, and the units worked in a period keep to its ceilings.
THEOREM CallsBounded == CallSpec => [](CycleOverrun /\ AllocationHonoured /\ AccountCeilings)
BY CallsKeepBudget, CycleOverrunBounded, AllocationsHonoured, CeilingsHonoured, PTL
-----------------------------------------------------------------------------
(* What the providers serve *)

Reading(c) == {k \in Slots : call[c][k].pc = "reading"}
\* What the parts may amount to that calls other than those of R have no longer to await.
Rest(R) == (Cardinality(Slots) - Cardinality(R)) * MaxPart
\* What was served beyond the charges of an open lease: nothing.  Of a stopped one: a part
\* for each call that no longer awaits one.
Beyond(c, u) == IF caller[c].closed = TRUE /\ u \in OnReceipt THEN Rest(Reading(c)) ELSE 0
ServedAt(c, u) ==
  taken[caller[c].period][caller[c].id][u] <= spent[caller[c].period][caller[c].id][u] + Beyond(c, u)
Served(c) == caller[c].pc = "running" => \A u \in Units : ServedAt(c, u)
CallType == [pc : {"none", "asked", "body", "reading"}, kind : Kinds, size : Nat, received : Nat]
CallTyped ==
  /\ call \in [Callers -> [Slots -> CallType]]
  /\ taken \in [Periods -> [Ids -> [Units -> Nat]]]
Unserved == \A P \in Periods, i \in Ids : <<P, i>> \notin begun => \A u \in Units : taken[P][i][u] = 0
Within == \A P \in Periods, i \in Ids, u \in Units : taken[P][i][u] <= spent[P][i][u] + Overdraft(u)
LInv == IInv /\ CallTyped /\ Unserved /\ Within /\ \A c \in Callers : Served(c)

LEMMA Product ==
  ASSUME NEW a \in Nat, NEW b \in Nat, NEW m \in Nat
  PROVE  /\ a * m \in Nat /\ (a + 1) * m = a * m + m
         /\ a <= b => a * m <= b * m
<1>1. a * m \in Nat /\ (a + 1) * m = a * m + m OBVIOUS
<1>2. ASSUME a <= b PROVE a * m <= b * m
  <2>1. PICK d \in Nat : b = a + d BY <1>2
  <2>2. b * m = a * m + d * m BY <2>1
  <2>3. d * m \in Nat /\ a * m \in Nat OBVIOUS
  <2> QED BY <2>2, <2>3
<1> QED BY <1>1, <1>2

\* What calls no longer await is never more than a part for each of them ...
LEMMA RestBounds ==
  \A R \in SUBSET Slots : Rest(R) \in Nat /\ Rest(R) <= Cardinality(Slots) * MaxPart
<1> SUFFICES ASSUME NEW R \in SUBSET Slots
             PROVE  Rest(R) \in Nat /\ Rest(R) <= Cardinality(Slots) * MaxPart
  OBVIOUS
<1>1. /\ MaxPart \in Nat /\ Cardinality(R) <= Cardinality(Slots)
      /\ Cardinality(Slots) \in Nat /\ Cardinality(R) \in Nat
  BY LeaseConstants, FS_Subset, FS_CardinalityType
<1>2. PICK a : a = Cardinality(Slots) - Cardinality(R) OBVIOUS
<1>3. PICK b : b = Cardinality(Slots) OBVIOUS
<1>4. a \in Nat /\ b \in Nat /\ a <= b BY <1>1, <1>2, <1>3
<1>5. a * MaxPart \in Nat /\ a * MaxPart <= b * MaxPart BY <1>1, <1>4, Product
<1> QED BY <1>2, <1>3, <1>5 DEF Rest

\* ... and grows by a part when a call ceases to await one.
LEMMA RestGrows ==
  \A R \in SUBSET Slots : \A S \in SUBSET R :
    Rest(R) <= Rest(S) /\ \A k \in R \ S : Rest(R) + MaxPart <= Rest(S)
<1> SUFFICES ASSUME NEW R \in SUBSET Slots, NEW S \in SUBSET R
             PROVE  Rest(R) <= Rest(S) /\ \A k \in R \ S : Rest(R) + MaxPart <= Rest(S)
  OBVIOUS
<1>1. IsFiniteSet(Slots) /\ MaxPart \in Nat BY LeaseConstants
<1>2. IsFiniteSet(R) BY <1>1, FS_Subset
<1>3. /\ Cardinality(S) <= Cardinality(R) /\ Cardinality(R) <= Cardinality(Slots)
      /\ Cardinality(Slots) \in Nat /\ Cardinality(R) \in Nat /\ Cardinality(S) \in Nat
  BY <1>1, <1>2, FS_Subset, FS_CardinalityType
<1>4. PICK a : a = Cardinality(Slots) - Cardinality(R) OBVIOUS
<1>5. PICK b : b = Cardinality(Slots) - Cardinality(S) OBVIOUS
<1>6. a \in Nat /\ b \in Nat /\ a <= b BY <1>3, <1>4, <1>5
<1>7. Rest(R) = a * MaxPart /\ Rest(S) = b * MaxPart BY <1>4, <1>5 DEF Rest
<1>8. a * MaxPart <= b * MaxPart BY <1>1, <1>6, Product
<1>9. ASSUME NEW k \in R \ S PROVE a * MaxPart + MaxPart <= b * MaxPart
  <2>1. IsFiniteSet(R \ {k}) /\ Cardinality(R \ {k}) = Cardinality(R) - 1
    BY <1>2, FS_RemoveElement
  <2>2. Cardinality(S) <= Cardinality(R \ {k}) BY <2>1, FS_Subset
  <2>3. a + 1 \in Nat /\ a + 1 <= b BY <1>3, <1>4, <1>5, <1>6, <2>1, <2>2
  <2>4. (a + 1) * MaxPart <= b * MaxPart BY <1>1, <1>6, <2>3, Product
  <2>5. (a + 1) * MaxPart = a * MaxPart + MaxPart BY <1>1, <1>6, Product
  <2> QED BY <2>4, <2>5
<1> QED BY <1>7, <1>8, <1>9

LEMMA BeyondBounds ==
  \A c \in Callers, u \in Units : /\ Beyond(c, u) \in Nat /\ Beyond(c, u) <= Overdraft(u)
                                  /\ Beyond(c, u)' \in Nat /\ Beyond(c, u)' <= Overdraft(u)
<1> SUFFICES ASSUME NEW c \in Callers, NEW u \in Units
             PROVE  /\ Beyond(c, u) \in Nat /\ Beyond(c, u) <= Overdraft(u)
                    /\ Beyond(c, u)' \in Nat /\ Beyond(c, u)' <= Overdraft(u)
  OBVIOUS
<1>1. Reading(c) \in SUBSET Slots /\ Reading(c)' \in SUBSET Slots BY DEF Reading
<1>2. Overdraft(u) = IF u \in OnReceipt THEN Cardinality(Slots) * MaxPart ELSE 0 BY DEF Overdraft
<1>3. PICK w \in Nat : w = Cardinality(Slots) * MaxPart
  BY LeaseConstants, FS_CardinalityType, Product
<1>4. /\ Rest(Reading(c)) \in Nat /\ Rest(Reading(c)) <= w
      /\ Rest(Reading(c)') \in Nat /\ Rest(Reading(c)') <= w
  BY <1>1, <1>3, RestBounds
<1>5. Rest(Reading(c))' = Rest(Reading(c)') BY DEF Rest
<1>6. Beyond(c, u) \in Nat /\ Beyond(c, u) <= Overdraft(u) BY <1>2, <1>3, <1>4 DEF Beyond
<1>7. Beyond(c, u)' \in Nat /\ Beyond(c, u)' <= Overdraft(u) BY <1>2, <1>3, <1>4, <1>5 DEF Beyond
<1> QED BY <1>6, <1>7

\* A worker's step keeps the invariant if it touches only what is served and charged under
\* its own reservation, and keeps the one within the other.
LEMMA OwnStep ==
  ASSUME LInv, IInv', CallTyped', NEW c \in Callers, begun' = begun,
         caller[c].pc = "running", caller'[c].period = caller[c].period,
         caller'[c].id = caller[c].id,
         \A d \in Callers \ {c} : caller'[d] = caller[d] /\ call'[d] = call[d],
         \A P \in Periods, i \in Ids : <<P, i>> # Key(c) =>
            taken'[P][i] = taken[P][i] /\ spent'[P][i] = spent[P][i],
         \A u \in Units : ServedAt(c, u)'
  PROVE  LInv'
<1>1. /\ Key(c) \in begun
      /\ \A d \in Callers \ {c} : caller[d].pc = "running" => Key(d) # Key(c)
  BY DEF LInv, IInv, Backed, Disjoint, Holds
<1>2. \A d \in Callers : caller[d].period \in Periods /\ caller[d].id \in Ids
  BY DEF LInv, IInv, TypeOK
<1>3. ASSUME NEW d \in Callers \ {c}, caller[d].pc = "running", NEW u \in Units
      PROVE  ServedAt(d, u)'
  <2>1. PICK P \in Periods, i \in Ids : P = caller[d].period /\ i = caller[d].id BY <1>2
  <2>2. /\ taken'[P][i] = taken[P][i] /\ spent'[P][i] = spent[P][i]
        /\ caller'[d].period = P /\ caller'[d].id = i
    BY <1>1, <1>3, <2>1 DEF Key
  <2>3. Reading(d)' = Reading(d) BY DEF Reading
  <2>4. Beyond(d, u)' = Beyond(d, u) BY <2>3 DEF Beyond
  <2>5. ServedAt(d, u) BY <1>3 DEF LInv, Served
  <2> QED BY <2>1, <2>2, <2>4, <2>5 DEF ServedAt
<1>4. \A d \in Callers : Served(d)'
  <2>1. Served(c)' BY DEF Served
  <2>2. \A d \in Callers \ {c} : Served(d)' BY <1>3 DEF Served
  <2> QED BY <2>1, <2>2
<1>5. Unserved'
  <2> SUFFICES ASSUME NEW P \in Periods, NEW i \in Ids, <<P, i>> \notin begun, NEW u \in Units
               PROVE  taken'[P][i][u] = 0
    BY DEF Unserved
  <2> QED BY <1>1 DEF LInv, Unserved
<1>6. Within'
  <2> SUFFICES ASSUME NEW P \in Periods, NEW i \in Ids, NEW u \in Units
               PROVE  taken'[P][i][u] <= spent'[P][i][u] + Overdraft(u)
    BY DEF Within
  <2>1. CASE <<P, i>> # Key(c) BY <2>1 DEF LInv, Within
  <2>2. CASE <<P, i>> = Key(c)
    <3>1. taken'[P][i][u] <= spent'[P][i][u] + Beyond(c, u)' BY <2>2 DEF ServedAt, Key
    <3>2. Beyond(c, u)' \in Nat /\ Beyond(c, u)' <= Overdraft(u) BY BeyondBounds
    <3>3. Overdraft(u) \in Nat
      BY RestBounds, LeaseConstants, FS_CardinalityType, Product DEF Overdraft
    <3>4. taken'[P][i][u] \in Nat /\ spent'[P][i][u] \in Nat BY DEF IInv, TypeOK, CallTyped
    <3> QED BY <3>1, <3>2, <3>3, <3>4
  <2> QED BY <2>1, <2>2
<1> QED BY <1>4, <1>5, <1>6 DEF LInv

LEMMA GoesEffect ==
  ASSUME CallTyped, NEW c \in Callers, NEW k \in Slots, NEW next \in CallType, Goes(c, k, next)
  PROVE  /\ call' \in [Callers -> [Slots -> CallType]]
         /\ \A d \in Callers \ {c} : call'[d] = call[d]
         /\ call'[c] = [call[c] EXCEPT ![k] = next] /\ call[c] \in [Slots -> CallType]
         /\ next.pc # "reading" => Reading(c)' \in SUBSET Reading(c) /\ k \notin Reading(c)'
<1>1. call \in [Callers -> [Slots -> CallType]] BY DEF CallTyped
<1>2. call[c] \in [Slots -> CallType] BY <1>1
<1>3. call' = [call EXCEPT ![c] = [call[c] EXCEPT ![k] = next]] BY DEF Goes
<1>4. /\ call' \in [Callers -> [Slots -> CallType]]
      /\ \A d \in Callers \ {c} : call'[d] = call[d]
      /\ call'[c] = [call[c] EXCEPT ![k] = next]
  BY <1>1, <1>2, <1>3
<1>5. ASSUME next.pc # "reading" PROVE Reading(c)' \in SUBSET Reading(c) /\ k \notin Reading(c)'
  BY <1>2, <1>4, <1>5 DEF Reading
<1> QED BY <1>2, <1>4, <1>5

LEMMA TakenEffect ==
  ASSUME CallTyped, IInv, NEW c \in Callers, NEW cost \in [Units -> Nat], Taken(c, cost)
  PROVE  /\ taken' \in [Periods -> [Ids -> [Units -> Nat]]]
         /\ \A P \in Periods, i \in Ids : <<P, i>> # Key(c) => taken'[P][i] = taken[P][i]
         /\ \A u \in Units : taken'[caller[c].period][caller[c].id][u]
                               = taken[caller[c].period][caller[c].id][u] + cost[u]
<1>1. PICK P \in Periods, i \in Ids : P = caller[c].period /\ i = caller[c].id
  BY DEF IInv, TypeOK
<1>2. taken \in [Periods -> [Ids -> [Units -> Nat]]] BY DEF CallTyped
<1>3. PICK new : new = Add(taken[P][i], cost) OBVIOUS
<1>4. new \in [Units -> Nat] /\ \A u \in Units : new[u] = taken[P][i][u] + cost[u]
  BY <1>2, <1>3 DEF Add
<1>5. taken' = [taken EXCEPT ![P][i] = new] BY <1>1, <1>3 DEF Taken
<1>6. taken' \in [Periods -> [Ids -> [Units -> Nat]]] BY <1>2, <1>4, <1>5
<1>7. ASSUME NEW Q \in Periods, NEW j \in Ids, <<Q, j>> # <<P, i>> PROVE taken'[Q][j] = taken[Q][j]
  BY <1>2, <1>5, <1>7
<1>8. taken'[P][i] = new BY <1>2, <1>5
<1> QED BY <1>1, <1>4, <1>6, <1>7, <1>8 DEF Key

LEMMA SpendEffect ==
  ASSUME IInv, NEW c \in Callers, NEW cost \in Costs, Spend(c, cost)
  PROVE  /\ caller[c].pc = "running" /\ caller[c].closed # TRUE /\ begun' = begun
         /\ caller'[c].period = caller[c].period /\ caller'[c].id = caller[c].id
         /\ \A d \in Callers \ {c} : caller'[d] = caller[d]
         /\ \A P \in Periods, i \in Ids : <<P, i>> # Key(c) => spent'[P][i] = spent[P][i]
         /\ \A u \in Units : spent'[caller[c].period][caller[c].id][u]
                               = spent[caller[c].period][caller[c].id][u] + cost[u]
<1>1. PICK P \in Periods, i \in Ids : P = caller[c].period /\ i = caller[c].id
  BY DEF IInv, TypeOK
<1>2. spent \in [Periods -> [Ids -> [Units -> Nat]]] BY DEF IInv, TypeOK
<1>3. PICK new : new = Add(spent[P][i], cost) OBVIOUS
<1>4. \A u \in Units : new[u] = spent[P][i][u] + cost[u] BY <1>3 DEF Add
<1>5. spent' = [spent EXCEPT ![P][i] = new] BY <1>1, <1>3 DEF Spend
<1>6. ASSUME NEW Q \in Periods, NEW j \in Ids, <<Q, j>> # <<P, i>> PROVE spent'[Q][j] = spent[Q][j]
  BY <1>2, <1>5, <1>6
<1>7. spent'[P][i] = new BY <1>2, <1>5
<1>8. caller[c].pc = "running" /\ ~caller[c].closed /\ begun' = begun BY DEF Spend, Live
<1>9. PICK sum : sum = Add(caller[c].used, cost) OBVIOUS
<1>10. caller' = [caller EXCEPT ![c].used = sum] BY <1>9 DEF Spend
<1>11. caller \in [Callers -> CallerType] BY DEF IInv, TypeOK, CallerType
<1>12. /\ caller'[c].period = caller[c].period /\ caller'[c].id = caller[c].id
       /\ \A d \in Callers \ {c} : caller'[d] = caller[d]
  BY <1>10, <1>11 DEF CallerType
<1>13. caller[c].closed # TRUE BY <1>8
<1>14. /\ \A Q \in Periods, j \in Ids : <<Q, j>> # Key(c) => spent'[Q][j] = spent[Q][j]
       /\ \A u \in Units : spent'[caller[c].period][caller[c].id][u]
                             = spent[caller[c].period][caller[c].id][u] + cost[u]
  BY <1>1, <1>4, <1>6, <1>7 DEF Key
<1> QED BY <1>8, <1>12, <1>13, <1>14

\* Served and charged together: a request that is issued, an object, a part of a response.
LEMMA ChargedStep ==
  ASSUME LInv, IInv', NEW c \in Callers, NEW k \in Slots, NEW cost \in Costs,
         NEW next \in CallType, Spend(c, cost), Taken(c, cost), Goes(c, k, next)
  PROVE  LInv'
<1>1. IInv /\ CallTyped /\ cost \in [Units -> Nat] BY CostsTyped DEF LInv
<1>2. PICK P \in Periods, i \in Ids : P = caller[c].period /\ i = caller[c].id
  BY <1>1 DEF IInv, TypeOK
<1>3. /\ caller[c].pc = "running" /\ caller[c].closed # TRUE /\ begun' = begun
      /\ caller'[c].period = P /\ caller'[c].id = i
      /\ \A d \in Callers \ {c} : caller'[d] = caller[d]
  BY <1>1, <1>2, SpendEffect
<1>4. \A u \in Units : ServedAt(c, u)'
  <2> SUFFICES ASSUME NEW u \in Units PROVE ServedAt(c, u)' OBVIOUS
  <2>1. taken[P][i][u] <= spent[P][i][u]
    <3>1. Beyond(c, u) = 0 BY <1>3 DEF Beyond
    <3>2. ServedAt(c, u) BY <1>3 DEF LInv, Served
    <3>3. spent[P][i][u] \in Nat BY <1>1 DEF IInv, TypeOK
    <3> QED BY <1>2, <3>1, <3>2, <3>3 DEF ServedAt
  <2>2. /\ taken'[P][i][u] = taken[P][i][u] + cost[u]
        /\ spent'[P][i][u] = spent[P][i][u] + cost[u]
    BY <1>1, <1>2, TakenEffect, SpendEffect
  <2>3. /\ taken[P][i][u] \in Nat /\ spent[P][i][u] \in Nat /\ cost[u] \in Nat
        /\ Beyond(c, u)' \in Nat
    BY <1>1, BeyondBounds DEF IInv, TypeOK, CallTyped
  <2>4. taken'[P][i][u] <= spent'[P][i][u] + Beyond(c, u)' BY <2>1, <2>2, <2>3
  <2> QED BY <1>3, <2>4 DEF ServedAt
<1>5. CallTyped' BY <1>1, GoesEffect, TakenEffect DEF CallTyped
<1>6. \A Q \in Periods, j \in Ids : <<Q, j>> # Key(c) =>
        taken'[Q][j] = taken[Q][j] /\ spent'[Q][j] = spent[Q][j]
  BY <1>1, TakenEffect, SpendEffect
<1>7. \A d \in Callers \ {c} : call'[d] = call[d] BY <1>1, GoesEffect
<1> QED BY <1>2, <1>3, <1>4, <1>5, <1>6, <1>7, OwnStep

LEMMA StopsEffect ==
  ASSUME IInv, NEW c \in Callers, LeaseStops(c)
  PROVE  /\ caller[c].pc = "running" /\ begun' = begun /\ spent' = spent
         /\ caller'[c].period = caller[c].period /\ caller'[c].id = caller[c].id
         /\ caller'[c].closed = TRUE
         /\ \A d \in Callers \ {c} : caller'[d] = caller[d]
BY DEF IInv, TypeOK, LeaseStops

\* The lease stops and nothing more is served: no slack is lost.
LEMMA StoppedStep ==
  ASSUME LInv, IInv', NEW c \in Callers, LeaseStops(c), taken' = taken, CallTyped',
         \A d \in Callers \ {c} : call'[d] = call[d], Reading(c)' \in SUBSET Reading(c)
  PROVE  LInv'
<1>1. IInv /\ CallTyped BY DEF LInv
<1>2. PICK P \in Periods, i \in Ids : P = caller[c].period /\ i = caller[c].id
  BY <1>1 DEF IInv, TypeOK
<1>0. /\ caller[c].pc = "running" /\ begun' = begun /\ spent' = spent
      /\ caller'[c].period = caller[c].period /\ caller'[c].id = caller[c].id
      /\ caller'[c].closed = TRUE
      /\ \A d \in Callers \ {c} : caller'[d] = caller[d]
  BY <1>1, StopsEffect
<1>3. \A u \in Units : ServedAt(c, u)'
  <2> SUFFICES ASSUME NEW u \in Units PROVE ServedAt(c, u)' OBVIOUS
  <2>1. Beyond(c, u) <= Beyond(c, u)'
    <3>1. Reading(c) \in SUBSET Slots BY DEF Reading
    <3>2. Rest(Reading(c)) <= Rest(Reading(c)') BY <3>1, RestGrows
    <3>3. Rest(Reading(c))' = Rest(Reading(c)') BY DEF Rest
    <3>4. Rest(Reading(c)') \in Nat
      BY <3>1, RestBounds
    <3> QED BY <1>0, <3>2, <3>3, <3>4 DEF Beyond
  <2>2. taken[P][i][u] <= spent[P][i][u] + Beyond(c, u)
    BY <1>0, <1>2 DEF LInv, Served, ServedAt
  <2>3. /\ taken[P][i][u] \in Nat /\ spent[P][i][u] \in Nat
        /\ Beyond(c, u) \in Nat /\ Beyond(c, u)' \in Nat
    BY <1>1, BeyondBounds DEF IInv, TypeOK, CallTyped
  <2>4. taken'[P][i][u] <= spent'[P][i][u] + Beyond(c, u)' BY <1>0, <2>1, <2>2, <2>3
  <2> QED BY <1>0, <1>2, <2>4 DEF ServedAt
<1> QED BY <1>0, <1>3, OwnStep

\* A part that came when the lease does not bear it is the last one of its call.
LEMMA PartLost ==
  ASSUME LInv, IInv', NEW c \in Callers, NEW k \in Slots, NEW cost \in Costs,
         call[c][k].pc = "reading", LeaseStops(c), Taken(c, cost), Ends(c, k),
         \A u \in Units : cost[u] <= IF u \in OnReceipt THEN MaxPart ELSE 0
  PROVE  LInv'
<1>1. IInv /\ CallTyped /\ cost \in [Units -> Nat] /\ NoCall \in CallType /\ MaxPart \in Nat
  BY CostsTyped, LeaseConstants DEF LInv, NoCall, CallType, Kinds
<1>2. PICK P \in Periods, i \in Ids : P = caller[c].period /\ i = caller[c].id
  BY <1>1 DEF IInv, TypeOK
<1>3. /\ call' \in [Callers -> [Slots -> CallType]]
      /\ \A d \in Callers \ {c} : call'[d] = call[d]
      /\ Reading(c)' \in SUBSET Reading(c) /\ k \notin Reading(c)'
  <2>1. NoCall.pc # "reading" BY DEF NoCall
  <2> QED BY <1>1, <2>1, GoesEffect DEF Ends
<1>0. /\ caller[c].pc = "running" /\ begun' = begun /\ spent' = spent
      /\ caller'[c].period = caller[c].period /\ caller'[c].id = caller[c].id
      /\ caller'[c].closed = TRUE
      /\ \A d \in Callers \ {c} : caller'[d] = caller[d]
  BY <1>1, StopsEffect
<1>4. \A u \in Units : ServedAt(c, u)'
  <2> SUFFICES ASSUME NEW u \in Units PROVE ServedAt(c, u)' OBVIOUS
  <2>1. Beyond(c, u) + cost[u] <= Beyond(c, u)'
    <3>1. Reading(c) \in SUBSET Slots /\ k \in Reading(c) BY DEF Reading
    <3>2. Rest(Reading(c)) + MaxPart <= Rest(Reading(c)') BY <1>3, <3>1, RestGrows
    <3>3. Rest(Reading(c))' = Rest(Reading(c)') BY DEF Rest
    <3>4. Rest(Reading(c)') \in Nat /\ Rest(Reading(c)) \in Nat BY <1>3, <3>1, RestBounds
    <3>5. cost[u] \in Nat BY <1>1
    <3>6. caller'[c].closed = TRUE BY <1>0
    <3>7. CASE u \in OnReceipt
      <4>1. Beyond(c, u)' = Rest(Reading(c)') /\ Beyond(c, u) <= Rest(Reading(c))
            /\ Beyond(c, u) \in Nat
        BY <3>3, <3>4, <3>6, <3>7 DEF Beyond
      <4> QED BY <1>1, <3>2, <3>4, <3>5, <3>7, <4>1
    <3>8. CASE u \notin OnReceipt BY <1>1, <3>5, <3>8 DEF Beyond
    <3> QED BY <3>7, <3>8
  <2>2. taken[P][i][u] <= spent[P][i][u] + Beyond(c, u)
    BY <1>0, <1>2 DEF LInv, Served, ServedAt
  <2>3. taken'[P][i][u] = taken[P][i][u] + cost[u] /\ spent' = spent
    BY <1>0, <1>1, <1>2, TakenEffect
  <2>4. /\ taken[P][i][u] \in Nat /\ spent[P][i][u] \in Nat /\ cost[u] \in Nat
        /\ Beyond(c, u) \in Nat /\ Beyond(c, u)' \in Nat
    BY <1>1, BeyondBounds DEF IInv, TypeOK, CallTyped
  <2>5. taken'[P][i][u] <= spent'[P][i][u] + Beyond(c, u)' BY <2>1, <2>2, <2>3, <2>4
  <2> QED BY <1>0, <1>2, <2>5 DEF ServedAt
<1>5. CallTyped' BY <1>1, <1>3, TakenEffect DEF CallTyped
<1>6. \A Q \in Periods, j \in Ids : <<Q, j>> # Key(c) =>
        taken'[Q][j] = taken[Q][j] /\ spent'[Q][j] = spent[Q][j]
  BY <1>0, <1>1, TakenEffect
<1> QED BY <1>0, <1>3, <1>4, <1>5, <1>6, OwnStep

\* A call that moves on while the lease is left alone: it begins to wait for a part only
\* while the lease is open.
LEMMA MovedStep ==
  ASSUME LInv, NEW c \in Callers, NEW k \in Slots, NEW next \in CallType,
         caller[c].pc = "running", UNCHANGED <<vars, taken>>, Goes(c, k, next),
         next.pc # "reading" \/ caller[c].closed # TRUE
  PROVE  LInv'
<1>1. IInv /\ CallTyped BY DEF LInv
<1>2. /\ caller' = caller /\ spent' = spent /\ begun' = begun /\ taken' = taken
      /\ UNCHANGED vars
  BY DEF vars
<1>3. IInv' BY <1>1, <1>2, NextInv
<1>4. \A u \in Units : ServedAt(c, u)'
  <2> SUFFICES ASSUME NEW u \in Units PROVE ServedAt(c, u)' OBVIOUS
  <2>1. Beyond(c, u) <= Beyond(c, u)'
    <3>1. CASE caller[c].closed # TRUE
      <4>1. Beyond(c, u) = 0 /\ Beyond(c, u)' = 0 BY <1>2, <3>1 DEF Beyond
      <4> QED BY <4>1
    <3>2. CASE next.pc # "reading"
      <4>1. Reading(c) \in SUBSET Slots /\ Reading(c)' \in SUBSET Reading(c)
        BY <1>1, <3>2, GoesEffect DEF Reading
      <4>2. Rest(Reading(c)) <= Rest(Reading(c)') BY <4>1, RestGrows
      <4>3. Rest(Reading(c))' = Rest(Reading(c)') BY DEF Rest
      <4> QED BY <1>2, <4>2, <4>3 DEF Beyond
    <3> QED BY <3>1, <3>2
  <2>2. caller[c].period \in Periods /\ caller[c].id \in Ids BY <1>1 DEF IInv, TypeOK
  <2>3. /\ taken[caller[c].period][caller[c].id][u] \in Nat
        /\ spent[caller[c].period][caller[c].id][u] \in Nat
        /\ Beyond(c, u) \in Nat /\ Beyond(c, u)' \in Nat
    BY <1>1, <2>2, BeyondBounds DEF IInv, TypeOK, CallTyped
  <2>4. ServedAt(c, u) BY DEF LInv, Served
  <2> QED BY <1>2, <2>1, <2>3, <2>4 DEF ServedAt
<1>5. CallTyped' BY <1>1, <1>2, GoesEffect DEF CallTyped
<1> QED BY <1>1, <1>2, <1>3, <1>4, <1>5, GoesEffect, OwnStep

LEMMA BytesBounded ==
  ASSUME NEW kind \in Kinds, NEW n \in 1..MaxPart, NEW u \in Units
  PROVE  Bytes(kind, n)[u] <= IF u \in OnReceipt THEN MaxPart ELSE 0
<1>1. MaxPart \in Nat /\ n \in Nat /\ n <= MaxPart BY LeaseConstants
<1>2. CASE kind = "fetch"
  <2>1. Bytes(kind, n) = Cost([responseBytes |-> n]) BY <1>2 DEF Bytes
  <2> QED BY <1>1, <2>1 DEF Cost, Amount, OnReceipt
<1>3. CASE kind # "fetch"
  <2>1. Bytes(kind, n) = Cost([r2Bytes |-> n]) BY <1>3 DEF Bytes
  <2> QED BY <1>1, <2>1 DEF Cost, Amount, OnReceipt
<1> QED BY <1>2, <1>3

\* What a call may become is a call.
LEMMA CallTypes ==
  ASSUME CallTyped, NEW c \in Callers, NEW k \in Slots
  PROVE  /\ NoCall \in CallType /\ NoCall.pc = "none"
         /\ \A kind \in Kinds : [NoCall EXCEPT !.pc = "asked", !.kind = kind] \in CallType
         /\ \A kind \in Kinds : [NoCall EXCEPT !.pc = "asked", !.kind = kind].pc = "asked"
         /\ \A pc \in {"body", "reading"} : [call[c][k] EXCEPT !.pc = pc] \in CallType
         /\ \A n \in Nat : [call[c][k] EXCEPT !.pc = "body", !.size = n] \in CallType
         /\ \A n \in Nat : [call[c][k] EXCEPT !.pc = "body", !.received = n] \in CallType
         /\ [call[c][k] EXCEPT !.pc = "body"].pc = "body"
         /\ \A n \in Nat : [call[c][k] EXCEPT !.pc = "body", !.received = n].pc = "body"
         /\ call[c][k].received \in Nat
<1>1. call[c][k] \in CallType BY DEF CallTyped
<1>2. NoCall \in CallType /\ NoCall.pc = "none" BY DEF NoCall, CallType, Kinds
<1>3. \A kind \in Kinds : /\ [NoCall EXCEPT !.pc = "asked", !.kind = kind] \in CallType
                          /\ [NoCall EXCEPT !.pc = "asked", !.kind = kind].pc = "asked"
  BY DEF NoCall, CallType, Kinds
<1>4. \A pc \in {"body", "reading"} : [call[c][k] EXCEPT !.pc = pc] \in CallType
  BY <1>1 DEF CallType
<1>5. \A n \in Nat : [call[c][k] EXCEPT !.pc = "body", !.size = n] \in CallType
  BY <1>1 DEF CallType
<1>6. \A n \in Nat : /\ [call[c][k] EXCEPT !.pc = "body", !.received = n] \in CallType
                     /\ [call[c][k] EXCEPT !.pc = "body", !.received = n].pc = "body"
  BY <1>1 DEF CallType
<1>7. [call[c][k] EXCEPT !.pc = "body"].pc = "body" /\ call[c][k].received \in Nat
  BY <1>1 DEF CallType
<1> QED BY <1>2, <1>3, <1>4, <1>5, <1>6, <1>7

LEMMA StopKeeps ==
  ASSUME LInv, IInv', NEW c \in Callers, LeaseStops(c), taken' = taken,
         call' = call \/ \E k \in Slots : Ends(c, k)
  PROVE  LInv'
<1>1. CallTyped BY DEF LInv
<1>2. CASE call' = call BY <1>1, <1>2, StoppedStep DEF CallTyped, Reading
<1>3. CASE \E k \in Slots : Ends(c, k)
  <2>1. PICK k \in Slots : Goes(c, k, NoCall) BY <1>3 DEF Ends
  <2>2. NoCall \in CallType /\ NoCall.pc # "reading" BY <1>1, CallTypes
  <2>3. /\ call' \in [Callers -> [Slots -> CallType]]
        /\ \A d \in Callers \ {c} : call'[d] = call[d]
        /\ Reading(c)' \in SUBSET Reading(c)
    BY <1>1, <2>1, <2>2, GoesEffect
  <2>4. CallTyped' BY <1>1, <2>3 DEF CallTyped
  <2> QED BY <2>3, <2>4, StoppedStep
<1> QED BY <1>2, <1>3

LEMMA CallsInv ==
  ASSUME LInv, IInv', NEW c \in Callers, NEW k \in Slots,
         \/ \E kind \in Kinds, n \in Sizes : Ask(c, k, kind, n)
         \/ Answered(c, k) \/ Responds(c, k) \/ FindsUnsized(c, k)
         \/ \E size \in Sizes : Finds(c, k, size)
         \/ Pull(c, k) \/ BodyEnds(c, k)
         \/ \E n \in 1..MaxPart : ResponsePart(c, k, n) \/ ObjectPart(c, k, n)
  PROVE  LInv'
<1>1. CallTyped BY DEF LInv
<1>2. /\ \A n \in Sizes : n \in Nat
      /\ \A n \in 1..MaxPart : n \in Nat
  BY LeaseConstants
<1>3. ASSUME NEW kind \in Kinds, NEW n \in Sizes, Ask(c, k, kind, n) PROVE LInv'
  <2>1. PICK cost \in Costs : cost = Asking(kind, n) BY LeaseConstants
  <2>2. CASE Spend(c, cost) /\ Taken(c, cost)
             /\ Goes(c, k, [NoCall EXCEPT !.pc = "asked", !.kind = kind])
    BY <1>1, <2>2, CallTypes, ChargedStep
  <2>3. CASE LeaseStops(c) /\ UNCHANGED callVars BY <2>3, StopKeeps DEF callVars
  <2> QED BY <1>3, <2>1, <2>2, <2>3 DEF Ask, SpendStops
<1>4. ASSUME Answered(c, k) PROVE LInv'
  <2>1. NoCall \in CallType /\ NoCall.pc # "reading" BY <1>1, CallTypes
  <2> QED BY <1>4, <2>1, MovedStep DEF Answered, Ends, At
<1>5. ASSUME Responds(c, k) PROVE LInv'
  <2>1. CASE UNCHANGED vars /\ Goes(c, k, [call[c][k] EXCEPT !.pc = "body"])
    <3>1. PICK next \in CallType : next = [call[c][k] EXCEPT !.pc = "body"] BY <1>1, CallTypes
    <3>2. next.pc # "reading" BY <1>1, <3>1, CallTypes
    <3> QED BY <1>5, <2>1, <3>1, <3>2, MovedStep DEF Responds, At
  <2>2. CASE LeaseStops(c) /\ Ends(c, k) BY <1>5, <2>2, StopKeeps DEF Responds
  <2> QED BY <1>5, <2>1, <2>2 DEF Responds
<1>6. ASSUME FindsUnsized(c, k) PROVE LInv' BY <1>6, StopKeeps DEF FindsUnsized
<1>7. ASSUME NEW size \in Sizes, Finds(c, k, size) PROVE LInv'
  <2>1. PICK cost \in Costs : cost = Bytes("get", size) BY LeaseConstants DEF Kinds
  <2>2. CASE Spend(c, cost) /\ Taken(c, cost)
             /\ Goes(c, k, [call[c][k] EXCEPT !.pc = "body", !.size = size])
    <3>1. PICK next \in CallType : next = [call[c][k] EXCEPT !.pc = "body", !.size = size]
      BY <1>1, <1>2, CallTypes
    <3> QED BY <2>2, <3>1, ChargedStep
  <2>3. CASE LeaseStops(c) /\ Ends(c, k) /\ UNCHANGED taken BY <2>3, StopKeeps
  <2> QED BY <1>7, <2>1, <2>2, <2>3 DEF Finds, SpendStops
<1>8. ASSUME Pull(c, k) PROVE LInv'
  <2>1. CASE Live(c) /\ UNCHANGED vars /\ Goes(c, k, [call[c][k] EXCEPT !.pc = "reading"])
    <3>1. PICK next \in CallType : next = [call[c][k] EXCEPT !.pc = "reading"]
      BY <1>1, CallTypes
    <3>2. ~caller[c].closed BY <2>1 DEF Live
    <3>3. caller[c].closed # TRUE BY <3>2
    <3> QED BY <1>8, <2>1, <3>1, <3>3, MovedStep DEF Pull, At
  <2>2. CASE LeaseStops(c) /\ Ends(c, k) BY <1>8, <2>2, StopKeeps DEF Pull
  <2> QED BY <1>8, <2>1, <2>2 DEF Pull
<1>9. ASSUME BodyEnds(c, k) PROVE LInv'
  <2>1. CASE UNCHANGED vars
    <3>1. NoCall \in CallType /\ NoCall.pc # "reading" BY <1>1, CallTypes
    <3> QED BY <1>9, <2>1, <3>1, MovedStep DEF BodyEnds, Ends
  <2>2. CASE LeaseStops(c) BY <1>9, <2>2, StopKeeps DEF BodyEnds
  <2> QED BY <1>9, <2>1, <2>2 DEF BodyEnds
<1>10. ASSUME NEW n \in 1..MaxPart, ResponsePart(c, k, n) PROVE LInv'
  <2>1. PICK cost \in Costs : cost = Bytes("fetch", n) BY LeaseConstants DEF Kinds
  <2>2. CASE Spend(c, cost) /\ Goes(c, k, [call[c][k] EXCEPT !.pc = "body"])
    <3>1. PICK next \in CallType : next = [call[c][k] EXCEPT !.pc = "body"] BY <1>1, CallTypes
    <3> QED BY <1>10, <2>1, <2>2, <3>1, ChargedStep DEF ResponsePart
  <2>3. CASE LeaseStops(c) /\ Ends(c, k)
    <3>1. \A u \in Units : cost[u] <= IF u \in OnReceipt THEN MaxPart ELSE 0
      BY <2>1, BytesBounded DEF Kinds
    <3> QED BY <1>10, <2>1, <2>3, <3>1, PartLost DEF ResponsePart, At
  <2> QED BY <1>10, <2>1, <2>2, <2>3 DEF ResponsePart, SpendStops
<1>11. ASSUME NEW n \in 1..MaxPart, ObjectPart(c, k, n) PROVE LInv'
  <2>1. PICK got : got = call[c][k].received + n OBVIOUS
  <2>2. got \in Nat
    <3>1. n \in Nat BY <1>2
    <3>2. call[c][k].received \in Nat BY <1>1, CallTypes
    <3> QED BY <2>1, <3>1, <3>2
  <2>3. CASE UNCHANGED <<vars, taken>> /\ Goes(c, k, [call[c][k] EXCEPT !.pc = "body", !.received = got])
    <3>1. PICK next \in CallType : next = [call[c][k] EXCEPT !.pc = "body", !.received = got]
      BY <1>1, <2>2, CallTypes
    <3>2. next.pc # "reading" BY <1>1, <2>2, <3>1, CallTypes
    <3> QED BY <1>11, <2>3, <3>1, <3>2, MovedStep DEF ObjectPart, At
  <2>4. CASE LeaseStops(c) /\ Taken(c, Bytes("get", n)) /\ Ends(c, k)
    <3>1. PICK cost \in Costs : cost = Bytes("get", n) BY LeaseConstants DEF Kinds
    <3>2. \A u \in Units : cost[u] <= IF u \in OnReceipt THEN MaxPart ELSE 0
      BY <3>1, BytesBounded DEF Kinds
    <3> QED BY <1>11, <2>4, <3>1, <3>2, PartLost DEF ObjectPart, At
  <2> QED BY <1>11, <2>1, <2>3, <2>4 DEF ObjectPart
<1> QED BY <1>3, <1>4, <1>5, <1>6, <1>7, <1>8, <1>9, <1>10, <1>11

\* What leaves every running lease, what is served and what is charged alone.
LEMMA QuietStep ==
  ASSUME LInv, IInv', CallTyped', UNCHANGED <<begun, spent, taken>>,
         \A d \in Callers : caller'[d].pc = "running" => caller'[d] = caller[d] /\ call'[d] = call[d]
  PROVE  LInv'
<1>1. ASSUME NEW d \in Callers, caller'[d].pc = "running" PROVE Served(d)'
  <2>1. caller[d].pc = "running" /\ Reading(d)' = Reading(d) BY <1>1 DEF Reading
  <2>2. \A u \in Units : Beyond(d, u)' = Beyond(d, u) BY <1>1, <2>1 DEF Beyond
  <2>3. \A u \in Units : ServedAt(d, u) BY <2>1 DEF LInv, Served
  <2> QED BY <1>1, <2>2, <2>3 DEF Served, ServedAt
<1>2. \A d \in Callers : Served(d)' BY <1>1 DEF Served
<1>3. Unserved' /\ Within' BY DEF LInv, Unserved, Within
<1> QED BY <1>2, <1>3 DEF LInv

LEMMA OverInv ==
  ASSUME LInv, IInv', NEW c \in Callers, Over(c)
  PROVE  LInv'
<1>1. IInv /\ CallTyped BY DEF LInv
<1>2. caller \in [Callers -> CallerType] BY <1>1 DEF IInv, TypeOK, CallerType
<1>3. PICK none : none = [k \in Slots |-> NoCall] OBVIOUS
<1>4. none \in [Slots -> CallType] BY <1>3 DEF NoCall, CallType, Kinds
<1>5. call \in [Callers -> [Slots -> CallType]] /\ call' = [call EXCEPT ![c] = none]
  BY <1>1, <1>3 DEF CallTyped, Over
<1>6. /\ call' \in [Callers -> [Slots -> CallType]]
      /\ \A d \in Callers \ {c} : call'[d] = call[d]
  BY <1>4, <1>5
<1>7. /\ caller' = [caller EXCEPT ![c] = Idle] /\ UNCHANGED <<begun, spent, taken>>
  BY DEF Over, End
<1>8. Idle.pc = "idle" BY DEF Idle
<1>9. /\ caller'[c].pc # "running"
      /\ \A d \in Callers \ {c} : caller'[d] = caller[d]
  BY <1>2, <1>7, <1>8
<1>10. CallTyped' BY <1>1, <1>6, <1>7 DEF CallTyped
<1> QED BY <1>6, <1>7, <1>9, <1>10, QuietStep

\* A lease that is opened has been served nothing: its reservation was never worked.
LEMMA OpenLeaseInv ==
  ASSUME LInv, IInv', NEW c \in Callers, OpenLease(c), UNCHANGED callVars
  PROVE  LInv'
<1>1. IInv /\ CallTyped BY DEF LInv
<1>2. caller \in [Callers -> CallerType] /\ now \in Nat
  BY <1>1, ConstantsOK DEF IInv, TypeOK, CallerType
<1>3. /\ caller' = [caller EXCEPT ![c].pc = "running", ![c].openedAt = now]
      /\ begun' = begun \union {Key(c)} /\ UNCHANGED <<spent, call, taken>>
  BY DEF OpenLease, Key, callVars
<1>4. /\ caller'[c].period = caller[c].period /\ caller'[c].id = caller[c].id
      /\ \A d \in Callers \ {c} : caller'[d] = caller[d]
  BY <1>2, <1>3 DEF CallerType
<1>5. Key(c) \notin begun BY <1>1 DEF IInv, Backed, Holds, OpenLease
<1>6. PICK P \in Periods, i \in Ids : P = caller[c].period /\ i = caller[c].id
  BY <1>1 DEF IInv, TypeOK
<1>7. ASSUME NEW u \in Units PROVE ServedAt(c, u)'
  <2>1. taken[P][i][u] = 0 BY <1>5, <1>6 DEF LInv, Unserved, Key
  <2>2. spent[P][i][u] \in Nat /\ Beyond(c, u)' \in Nat
    BY <1>1, BeyondBounds DEF IInv, TypeOK
  <2> QED BY <1>3, <1>4, <1>6, <2>1, <2>2 DEF ServedAt
<1>8. ASSUME NEW d \in Callers \ {c}, caller'[d].pc = "running" PROVE Served(d)'
  <2>1. /\ caller[d].pc = "running" /\ Reading(d)' = Reading(d) /\ caller'[d] = caller[d]
    BY <1>3, <1>4, <1>8 DEF Reading
  <2>2. \A u \in Units : Beyond(d, u)' = Beyond(d, u) BY <2>1 DEF Beyond
  <2>3. \A u \in Units : ServedAt(d, u) BY <2>1 DEF LInv, Served
  <2> QED BY <1>3, <2>1, <2>2, <2>3 DEF Served, ServedAt
<1>9. \A d \in Callers : Served(d)' BY <1>7, <1>8 DEF Served
<1>10. CallTyped' /\ Unserved' /\ Within'
  BY <1>1, <1>3 DEF LInv, CallTyped, Unserved, Within
<1> QED BY <1>9, <1>10 DEF LInv

LEMMA AccountInv ==
  ASSUME LInv, IInv', Account, UNCHANGED callVars
  PROVE  LInv'
<1>1. IInv /\ CallTyped /\ CallTyped'
  BY DEF LInv, CallTyped, callVars
<1>2. caller \in [Callers -> CallerType] BY <1>1 DEF IInv, TypeOK, CallerType
<1>3. UNCHANGED <<call, taken>> BY DEF callVars
<1>4. Idle.pc = "idle" BY DEF Idle
<1>5. ASSUME NEW c \in Callers, NEW new, new.pc # "running", caller' = [caller EXCEPT ![c] = new],
             UNCHANGED <<begun, spent>>
      PROVE  LInv'
  <2>1. /\ caller'[c].pc # "running"
        /\ \A d \in Callers \ {c} : caller'[d] = caller[d]
    BY <1>2, <1>5
  <2> QED BY <1>1, <1>3, <1>5, <2>1, QuietStep
<1>6. ASSUME NEW c \in Callers, NEW job \in Jobs, NEW id \in Ids, Request(c, job, id) PROVE LInv'
  <2>1. PICK new : new = [Idle EXCEPT !.pc = "sent", !.job = job, !.id = id] OBVIOUS
  <2>2. new.pc = "sent" BY <2>1 DEF Idle
  <2> QED BY <1>5, <1>6, <2>1, <2>2 DEF Request
<1>7. ASSUME NEW c \in Callers, Grant(c) PROVE LInv'
  <2>1. PICK r : r = caller[c] /\ r \in CallerType BY <1>2
  <2>2. PICK new : new = [r EXCEPT !.pc = "granted", !.period = Period(policy),
                                   !.expiresAtMs = GrantExpiry(policy, now),
                                   !.limits = LeaseLimits(policy, r.job)]
    OBVIOUS
  <2>3. new.pc = "granted" BY <2>1, <2>2 DEF CallerType
  <2>4. caller' = [caller EXCEPT ![c] = new] /\ UNCHANGED <<begun, spent>>
    BY <1>7, <2>1, <2>2 DEF Grant
  <2> QED BY <1>5, <2>3, <2>4
<1>8. ASSUME NEW c \in Callers, GrantLost(c) \/ Refuse(c) PROVE LInv'
  BY <1>4, <1>5, <1>8 DEF GrantLost, Refuse
<1>9. ASSUME NEW c \in Callers, OpenLease(c) PROVE LInv' BY <1>9, OpenLeaseInv
<1>10. ASSUME (\E p \in Policies : Redeploy(p)) \/ Tick PROVE LInv'
  <2>1. UNCHANGED <<caller, begun, spent>> BY <1>10 DEF Redeploy, Tick
  <2> QED BY <1>1, <1>3, <2>1, QuietStep
<1> QED BY <1>6, <1>7, <1>8, <1>9, <1>10 DEF Account

LEMMA InitServed == CallInit => LInv
<1> SUFFICES ASSUME CallInit PROVE LInv OBVIOUS
<1>1. IInv BY InitInv DEF CallInit
<1>2. NoCall \in CallType BY DEF NoCall, CallType, Kinds
<1>3. CallTyped BY <1>2 DEF CallInit, CallTyped, Zero
<1>4. \A P \in Periods, i \in Ids, u \in Units : taken[P][i][u] = 0 BY DEF CallInit, Zero
<1>5. \A u \in Units : Overdraft(u) \in Nat
  BY RestBounds, LeaseConstants, FS_CardinalityType, Product DEF Overdraft
<1>6. \A P \in Periods, i \in Ids, u \in Units : spent[P][i][u] \in Nat BY <1>1 DEF IInv, TypeOK
<1>7. Unserved /\ Within BY <1>4, <1>5, <1>6 DEF Unserved, Within
<1>8. \A c \in Callers : Served(c) BY DEF CallInit, Init, Idle, Served
<1> QED BY <1>1, <1>3, <1>7, <1>8 DEF LInv

LEMMA NextServed == LInv /\ [CallNext]_<<vars, callVars>> => LInv'
<1> SUFFICES ASSUME LInv, [CallNext]_<<vars, callVars>> PROVE LInv' OBVIOUS
<1>1. IInv' BY CallsAreBudgeted, NextInv DEF LInv
<1>2. CASE UNCHANGED <<vars, callVars>>
  <2>1. CallTyped' BY <1>2 DEF LInv, CallTyped, callVars
  <2> QED BY <1>1, <1>2, <2>1, QuietStep DEF vars, callVars
<1>3. ASSUME NEW c \in Callers, Calls(c) PROVE LInv' BY <1>1, <1>3, CallsInv DEF Calls
<1>4. ASSUME NEW c \in Callers, Rejects(c) PROVE LInv'
  BY <1>1, <1>4, StopKeeps DEF Rejects, callVars
<1>5. ASSUME NEW c \in Callers, Over(c) PROVE LInv' BY <1>1, <1>5, OverInv
<1>6. CASE Account /\ UNCHANGED callVars BY <1>1, <1>6, AccountInv
<1> QED BY <1>2, <1>3, <1>4, <1>5, <1>6 DEF CallNext

\* What the providers serve a job is covered by its reservation, but for one part of each
\* call that was under way when the lease stopped: however many calls are under way at
\* once, whatever the providers send and wherever the worker dies.
THEOREM ServedWithinReservation == CallSpec => []TakenCovered
<1>1. LInv => TakenCovered
  <2> SUFFICES ASSUME LInv, NEW P \in Periods, NEW i \in Ids, NEW u \in Units
               PROVE  taken[P][i][u] <= reservations[P][i].bounds[u] + Overdraft(u)
    BY DEF TakenCovered
  <2>1. taken[P][i][u] <= spent[P][i][u] + Overdraft(u) BY DEF LInv, Within
  <2>2. spent[P][i][u] <= reservations[P][i].bounds[u] BY DEF LInv, IInv, SpendingCovered
  <2>3. /\ taken[P][i][u] \in Nat /\ spent[P][i][u] \in Nat
        /\ reservations[P][i].bounds[u] \in Nat
    BY DEF LInv, CallTyped, IInv, TypeOK
  <2>4. Overdraft(u) \in Nat
    BY RestBounds, LeaseConstants, FS_CardinalityType, Product DEF Overdraft
  <2> QED BY <2>1, <2>2, <2>3, <2>4
<1> QED BY <1>1, InitServed, NextServed, PTL DEF CallSpec
=============================================================================
