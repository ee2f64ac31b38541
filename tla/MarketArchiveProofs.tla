-------------------------- MODULE MarketArchiveProofs --------------------------
(* Type correctness, the lease and the cursor of the market archive, and that  *)
(* what the cursor has passed is archived, for any callers, rows and bounds.    *)
EXTENDS MarketArchive, FiniteSetTheorems, WellFoundedInduction, TLAPS

LEMMA Sizes ==
  /\ NRows \in Nat /\ Eligibility \in Nat /\ MaxClock \in Nat /\ MaxRuns \in Nat
  /\ LeaseTtl \in Nat \ {0} /\ PageSize \in Nat \ {0} /\ MaxRounds \in Nat \ {0}
BY ArchiveConstants DEF ArchiveConstants

LEMMA RowsAreNumbers == \A r \in Rows : r \in Nat /\ r \in Int /\ r > 0 /\ NRows - r \in Nat
BY Sizes DEF Rows
-----------------------------------------------------------------------------
(* Rows and pages *)

LEMMA LeastNatural ==
  ASSUME NEW S, S \subseteq Nat, S # {}
  PROVE  \E m \in S : \A n \in S : m <= n
<1> DEFINE R == OpToRel(<, Nat)
<1>1. \A m, n \in Nat : m < n => <<m, n>> \in R BY DEF OpToRel
<1>2. IsWellFoundedOn(R, Nat) BY NatLessThanWellFounded
<1> HIDE DEF R
<1>3. PICK m \in S : \A n \in S : ~(<<n, m>> \in R) BY <1>2, WFMin
<1>4. \A n \in S : ~(n < m) BY <1>1, <1>3
<1> QED BY <1>4

LEMMA FirstRow ==
  ASSUME NEW S, S \subseteq Rows, S # {}
  PROVE  Min(S) \in S /\ \A r \in S : Min(S) <= r
<1>1. S \subseteq Nat BY RowsAreNumbers
<1>2. PICK m \in S : \A n \in S : m <= n BY <1>1, LeastNatural
<1> QED BY <1>2 DEF Min

LEMMA LastRow ==
  ASSUME NEW S, S \subseteq Rows, S # {}
  PROVE  Max(S) \in S /\ \A r \in S : r <= Max(S)
<1> DEFINE T == {NRows - r : r \in S}
<1>1. T \subseteq Nat /\ T # {}
  <2>1. \A r \in S : NRows - r \in Nat BY RowsAreNumbers
  <2> QED BY <2>1
<1>2. PICK m \in T : \A n \in T : m <= n BY <1>1, LeastNatural
<1>3. PICK l \in S : m = NRows - l OBVIOUS
<1>4. \A r \in S : l >= r
  <2> TAKE r \in S
  <2>1. NRows - r \in T OBVIOUS
  <2>2. NRows - l <= NRows - r BY <1>2, <1>3, <2>1
  <2>3. r \in Int /\ l \in Int /\ NRows \in Int BY RowsAreNumbers, Sizes
  <2> QED BY <2>2, <2>3
<1>5. Max(S) \in S /\ \A r \in S : Max(S) >= r BY <1>4 DEF Max
<1>6. Max(S) \in Rows /\ \A r \in S : r \in Rows BY <1>5
<1>7. Max(S) \in Int /\ \A r \in S : r \in Int BY <1>6, RowsAreNumbers
<1> QED BY <1>5, <1>7

LEMMA RowsFinite ==
  ASSUME NEW S, S \subseteq Rows
  PROVE  IsFiniteSet(S) /\ Cardinality(S) \in Nat
<1>1. IsFiniteSet(1..NRows) BY Sizes, FS_Interval
<1>2. IsFiniteSet(S) BY <1>1, FS_Subset DEF Rows
<1> QED BY <1>2, FS_CardinalityType

\* The page query returns an initial part of what is due, of at most PageSize rows.
First(D) == {r \in D : Cardinality({q \in D : q <= r}) <= PageSize}
LEMMA PageIsInitial ==
  ASSUME NEW D, D \subseteq Rows
  PROVE  /\ First(D) \subseteq D
         /\ \A r \in D, q \in First(D) : r <= q => r \in First(D)
         /\ First(D) # {} => Cardinality(First(D)) \in 1..PageSize
<1> DEFINE Upto(r) == {q \in D : q <= r}
<1>1. First(D) \subseteq D BY DEF First
<1>2. ASSUME NEW r \in D, NEW q \in First(D), r <= q PROVE r \in First(D)
  <2>1. Upto(r) \subseteq Upto(q)
    <3>1. r \in Int /\ q \in Int /\ \A x \in D : x \in Int
      <4>1. r \in Rows /\ q \in Rows /\ D \subseteq Rows BY <1>1
      <4> QED BY <4>1, RowsAreNumbers
    <3>2. ASSUME NEW x \in D, x <= r PROVE x <= q BY <1>2, <3>1, <3>2
    <3> QED BY <3>2
  <2>2. Upto(q) \subseteq Rows /\ Upto(r) \subseteq Rows OBVIOUS
  <2>3. Cardinality(Upto(r)) <= Cardinality(Upto(q)) BY <2>1, <2>2, RowsFinite, FS_Subset
  <2>4. Cardinality(Upto(q)) <= PageSize BY DEF First
  <2>5. Cardinality(Upto(r)) \in Nat /\ Cardinality(Upto(q)) \in Nat BY <2>2, RowsFinite
  <2>6. Cardinality(Upto(r)) <= PageSize BY <2>3, <2>4, <2>5, Sizes
  <2> QED BY <2>6 DEF First
<1>3. ASSUME First(D) # {} PROVE Cardinality(First(D)) \in 1..PageSize
  <2>1. First(D) \subseteq Rows BY <1>1
  <2> DEFINE l == Max(First(D))
  <2>2. l \in First(D) /\ \A r \in First(D) : r <= l BY <2>1, <1>3, LastRow
  <2> HIDE DEF l
  <2>3. First(D) \subseteq Upto(l) BY <1>1, <2>2
  <2>4. Upto(l) \subseteq Rows OBVIOUS
  <2>5. Cardinality(First(D)) <= Cardinality(Upto(l)) BY <2>3, <2>4, RowsFinite, FS_Subset
  <2>6. Cardinality(Upto(l)) <= PageSize BY <2>2 DEF First
  <2>7. Cardinality(First(D)) # 0 BY <2>1, <1>3, RowsFinite, FS_EmptySet
  <2>8. Cardinality(First(D)) \in Nat /\ Cardinality(Upto(l)) \in Nat BY <2>1, <2>4, RowsFinite
  <2> QED BY <2>5, <2>6, <2>7, <2>8, Sizes
<1> QED BY <1>1, <1>2, <1>3
-----------------------------------------------------------------------------
(* Types *)

\* What a run does to itself alone.
LEMMA OneRun ==
  ASSUME NEW w \in Workers, run \in [Workers -> Runs], NEW change, Goes(w, change)
  PROVE  /\ change \in Runs => run' \in [Workers -> Runs]
         /\ run'[w] = change
         /\ \A v \in Workers \ {w} : run'[v] = run[v]
BY DEF Goes

LEMMA Resting ==
  Nowhere \in Runs /\ \A w : run[w] \in Runs => Leaving(w) \in Runs
<1>1. NoLease \in Leases BY Sizes DEF NoLease, Leases
<1>2. ASSUME NEW pc \in {"idle", "acquire", "release"}, NEW now \in 0..MaxClock
      PROVE  Bare(pc, now) \in Runs
  BY <1>1, Sizes DEF Bare, Runs
<1>3. Nowhere \in Runs BY <1>2, Sizes DEF Nowhere
<1>4. ASSUME NEW w, run[w] \in Runs PROVE Leaving(w) \in Runs
  <2>1. run[w].now \in 0..MaxClock BY <1>4 DEF Runs
  <2> QED BY <1>2, <2>1 DEF Leaving
<1> QED BY <1>3, <1>4

LEMMA PageTyped ==
  ASSUME TypeOK, NEW w \in Workers
  PROVE  /\ Page(w) \subseteq Due(w) /\ Due(w) \subseteq Rows
         /\ \A r \in Due(w), q \in Page(w) : r <= q => r \in Page(w)
         /\ Page(w) # {} => Key(w) \in Keys
<1>1. Due(w) \subseteq Rows BY DEF Due, TypeOK
<1>2. PICK D : D = Due(w) OBVIOUS
<1>3. Page(w) = First(D) BY <1>2 DEF Page, First
<1>4. /\ First(D) \subseteq D
      /\ \A r \in D, q \in First(D) : r <= q => r \in First(D)
      /\ First(D) # {} => Cardinality(First(D)) \in 1..PageSize
  BY <1>1, <1>2, PageIsInitial
<1>5. ASSUME Page(w) # {} PROVE Key(w) \in Keys
  <2>1. PICK P : P = Page(w) OBVIOUS
  <2>2. P \subseteq Rows /\ P # {} BY <1>1, <1>2, <1>3, <1>4, <1>5, <2>1
  <2>3. Min(P) \in Rows BY <2>2, FirstRow
  <2>4. Cardinality(P) \in 1..PageSize BY <1>3, <1>4, <1>5, <2>1
  <2>5. run[w].round \in 1..MaxRounds BY DEF TypeOK, Runs
  <2>6. Key(w) = [first |-> Min(P), count |-> Cardinality(P), round |-> run[w].round]
    BY <2>1 DEF Key
  <2> QED BY <2>3, <2>4, <2>5, <2>6 DEF Keys
<1> QED BY <1>1, <1>2, <1>3, <1>4, <1>5

\* A run that has a page has what it needs to name and to store it.
Paged(w) == run[w].pc \in {"object", "manifest", "orphan", "readback", "advance"}
Sent(w) == run[w].pc \in {"manifest", "readback", "advance"}
HasPage(w) ==
  Paged(w) => /\ run[w].page # {} /\ run[w].key \in Keys
              /\ Sent(w) => run[w].key \in DOMAIN objects
              /\ run[w].pc \in {"readback", "advance"} => run[w].key \in DOMAIN manifests
StoreTyped ==
  /\ DOMAIN objects \subseteq Keys /\ DOMAIN manifests \subseteq Keys
  /\ \A k \in DOMAIN objects : objects[k] \in Bodies
  /\ \A k \in DOMAIN manifests : manifests[k] \in Bodies
TInv == TypeOK /\ \A w \in Workers : HasPage(w)

\* A step of one run is typed when what it writes is.
LEMMA StepTyped ==
  ASSUME TInv, NEW w \in Workers, NEW change \in Runs, Goes(w, change), UNCHANGED <<clock, data>>,
         lease' \in Leases, checkpoint' \in Evidence, StoreTyped',
         DOMAIN objects \subseteq DOMAIN objects', DOMAIN manifests \subseteq DOMAIN manifests',
         begun' \in 0..MaxRuns, exposed' \in BOOLEAN, restarted' \in BOOLEAN, HasPage(w)'
  PROVE  TInv'
<1>1. run \in [Workers -> Runs] BY DEF TInv, TypeOK
<1>2. run' \in [Workers -> Runs] /\ \A v \in Workers \ {w} : run'[v] = run[v] BY <1>1, OneRun
<1>3. TypeOK' BY <1>2 DEF TInv, TypeOK, StoreTyped, data
<1>4. ASSUME NEW v \in Workers \ {w} PROVE HasPage(v)'
  <2>1. run'[v] = run[v] /\ HasPage(v) BY <1>2 DEF TInv
  <2> QED BY <2>1 DEF HasPage, Paged, Sent
<1> QED BY <1>3, <1>4 DEF TInv

LEMMA BodyTyped == ASSUME TypeOK, NEW w \in Workers PROVE Body(w) \in Bodies
<1>1. run[w].page \in SUBSET Rows /\ run[w].now \in 0..MaxClock BY DEF TypeOK, Runs
<1> QED BY <1>1 DEF Body, Bodies

\* A put of the object, failed or not, stores the body under its key or nothing at all.
PutAs(w, pc) ==
  /\ Goes(w, [run[w] EXCEPT !.pc = pc])
  /\ DOMAIN objects \subseteq DOMAIN objects' /\ DOMAIN objects' \subseteq DOMAIN objects \union {run[w].key}
  /\ \A k \in DOMAIN objects' : \/ k = run[w].key /\ objects'[k] = Body(w)
                                \/ k \in DOMAIN objects /\ objects'[k] = objects[k]
  /\ \A k \in DOMAIN objects : k # run[w].key => objects'[k] = objects[k]
  /\ pc = "manifest" => run[w].key \in DOMAIN objects' /\ objects'[run[w].key] = Body(w)
LEMMA ObjectPut ==
  ASSUME NEW w \in Workers, PutObject(w)
  PROVE  \E pc \in {"manifest", "orphan"} : PutAs(w, pc)
<1>1. CASE objects' = objects /\ Goes(w, [run[w] EXCEPT !.pc = "orphan"])
  BY <1>1 DEF PutAs
<1>2. ASSUME NEW pc \in {"manifest", "orphan"}, objects' = Stored(objects, run[w].key, Body(w)),
             Goes(w, [run[w] EXCEPT !.pc = pc])
      PROVE  PutAs(w, pc)
  BY <1>2 DEF PutAs, Stored
<1> QED BY <1>1, <1>2 DEF PutObject

THEOREM TypeInvariant == Spec => []TInv
<1>1. Init => TInv
  <2> SUFFICES ASSUME Init PROVE TInv OBVIOUS
  <2>1. lease \in Leases BY Sizes DEF Init, NoLease, Leases
  <2>2. checkpoint \in Evidence BY Sizes DEF Init, NoBody, Evidence, Bodies
  <2>3. DOMAIN objects = {} /\ DOMAIN manifests = {} BY DEF Init
  <2>4. run \in [Workers -> Runs] /\ \A w \in Workers : run[w] = Nowhere
    BY Resting DEF Init
  <2>5. \A w \in Workers : HasPage(w)
    <3>1. Nowhere.pc = "idle" BY DEF Nowhere, Bare
    <3> QED BY <2>4, <3>1 DEF HasPage, Paged, Sent
  <2>6. clock \in 0..MaxClock /\ late \subseteq rows /\ rows \subseteq Rows /\ begun \in 0..MaxRuns
    BY Sizes DEF Init
  <2> QED BY <2>1, <2>2, <2>3, <2>4, <2>5, <2>6 DEF TInv, TypeOK, Init
<1>2. TInv /\ [Next]_vars => TInv'
  <2> SUFFICES ASSUME TInv, [Next]_vars PROVE TInv' OBVIOUS
  <2>0. /\ TypeOK /\ StoreTyped /\ lease \in Leases /\ checkpoint \in Evidence
        /\ clock \in 0..MaxClock /\ begun \in 0..MaxRuns /\ exposed \in BOOLEAN
        /\ restarted \in BOOLEAN /\ \A v \in Workers : run[v] \in Runs /\ HasPage(v)
    BY DEF TInv, TypeOK, StoreTyped
  <2>1. ASSUME NEW w \in Workers, Start(w) PROVE TInv'
    <3> DEFINE change == [Bare("acquire", clock) EXCEPT !.read = lease]
    <3>1. change \in Runs /\ change.pc = "acquire" BY <2>0, Sizes DEF Bare, Runs
    <3>2. run'[w] = change BY <2>0, <2>1 DEF Start, Goes, TInv, TypeOK
    <3>3. HasPage(w)' BY <3>1, <3>2 DEF HasPage, Paged, Sent
    <3>4. begun' \in 0..MaxRuns BY <2>0, <2>1, Sizes DEF Start
    <3> QED BY <2>0, <2>1, <3>1, <3>3, <3>4, StepTyped DEF Start, store, seen, StoreTyped
  <2>2. ASSUME NEW w \in Workers, TakeLease(w) PROVE TInv'
    <3> DEFINE change == [run[w] EXCEPT !.pc = "checkpoint", !.read = NoLease]
    <3>1. run[w] \in Runs /\ NoLease \in Leases BY <2>0, Sizes DEF NoLease, Leases
    <3>2. change \in Runs /\ change.pc = "checkpoint" BY <3>1 DEF Runs
    <3>3. run'[w] = change BY <2>2 DEF TakeLease, Goes, TInv, TypeOK
    <3>4. HasPage(w)' BY <3>2, <3>3 DEF HasPage, Paged, Sent
    <3>5. run[w].now \in 0..MaxClock BY <3>1 DEF Runs
    <3>6. lease' \in Leases BY <2>2, <3>5, Sizes DEF TakeLease, Leases
    <3>7. exposed' \in BOOLEAN BY <2>0, <2>2 DEF TakeLease
    <3> QED BY <2>0, <2>2, <3>2, <3>4, <3>6, <3>7, StepTyped DEF TakeLease, store, StoreTyped
  <2>3. ASSUME NEW w \in Workers, ReadHolder(w) PROVE TInv'
    <3> DEFINE change == IF lease.owner = run[w].now THEN [run[w] EXCEPT !.pc = "free"] ELSE Nowhere
    <3>1. run[w] \in Runs BY <2>0
    <3>2. [run[w] EXCEPT !.pc = "free"] \in Runs /\ [run[w] EXCEPT !.pc = "free"].pc = "free"
      BY <3>1 DEF Runs
    <3>3. Nowhere \in Runs /\ Nowhere.pc = "idle" BY Resting DEF Nowhere, Bare
    <3>4. change \in Runs /\ change.pc \in {"free", "idle"} BY <3>2, <3>3
    <3>5. run'[w] = change BY <2>3 DEF ReadHolder, Goes, TInv, TypeOK
    <3>6. HasPage(w)' BY <3>4, <3>5 DEF HasPage, Paged, Sent
    <3> QED BY <2>0, <2>3, <3>4, <3>6, StepTyped DEF ReadHolder, store, seen, StoreTyped
  <2>4. ASSUME NEW w \in Workers, FreeLease(w) PROVE TInv'
    <3>1. Nowhere \in Runs /\ Nowhere.pc = "idle" BY Resting DEF Nowhere, Bare
    <3>2. run'[w] = Nowhere BY <2>4 DEF FreeLease, Goes, TInv, TypeOK
    <3>3. HasPage(w)' BY <3>1, <3>2 DEF HasPage, Paged, Sent
    <3>4. lease' \in Leases BY <2>0, <2>4, Sizes DEF FreeLease, Leases
    <3> QED BY <2>0, <2>4, <3>1, <3>3, <3>4, StepTyped DEF FreeLease, store, seen, StoreTyped
  <2>5. ASSUME NEW w \in Workers, ReadCheckpoint(w) PROVE TInv'
    <3>1. PICK cursor \in {checkpoint.cursor, 0} :
            /\ Goes(w, [run[w] EXCEPT !.pc = "page", !.cursor = cursor])
            /\ restarted' = (restarted \/ cursor # checkpoint.cursor)
      BY <2>5 DEF ReadCheckpoint
    <3> DEFINE change == [run[w] EXCEPT !.pc = "page", !.cursor = cursor]
    <3>2. cursor \in Rows \union {0} BY <2>0 DEF Evidence
    <3>3. run[w] \in Runs BY <2>0
    <3>4. change \in Runs /\ change.pc = "page" BY <3>2, <3>3 DEF Runs
    <3>5. run'[w] = change BY <3>1 DEF Goes, TInv, TypeOK
    <3>6. HasPage(w)' BY <3>4, <3>5 DEF HasPage, Paged, Sent
    <3> QED BY <2>0, <2>5, <3>1, <3>4, <3>6, StepTyped DEF ReadCheckpoint, store, StoreTyped
  <2>6. ASSUME NEW w \in Workers, ReadPage(w) PROVE TInv'
    <3>1. CASE Page(w) = {}
      <4>1. Goes(w, Leaving(w)) BY <2>6, <3>1 DEF ReadPage
      <4>2. Leaving(w) \in Runs /\ Leaving(w).pc = "release" BY <2>0, Resting DEF Leaving, Bare
      <4>3. HasPage(w)' BY <4>1, <4>2 DEF Goes, HasPage, Paged, Sent, TInv, TypeOK
      <4> QED BY <2>0, <2>6, <4>1, <4>2, <4>3, StepTyped DEF ReadPage, store, seen, StoreTyped
    <3>2. CASE Page(w) # {}
      <4> DEFINE change == [run[w] EXCEPT !.pc = "object", !.page = Page(w), !.key = Key(w)]
      <4>1. Goes(w, change) BY <2>6, <3>2 DEF ReadPage
      <4>2. Page(w) \subseteq Rows /\ Key(w) \in Keys BY <2>0, <3>2, PageTyped
      <4>3. run[w] \in Runs BY <2>0
      <4>4. change \in Runs /\ change.pc = "object" /\ change.page = Page(w) /\ change.key = Key(w)
        BY <4>2, <4>3 DEF Runs
      <4>5. run'[w] = change BY <4>1 DEF Goes, TInv, TypeOK
      <4>6. HasPage(w)' BY <3>2, <4>2, <4>4, <4>5 DEF HasPage, Paged, Sent
      <4> QED BY <2>0, <2>6, <4>1, <4>4, <4>6, StepTyped DEF ReadPage, store, seen, StoreTyped
    <3> QED BY <3>1, <3>2
  <2>7. ASSUME NEW w \in Workers, PutObject(w) PROVE TInv'
    <3>1. run[w] \in Runs /\ HasPage(w) /\ run[w].pc = "object" BY <2>0, <2>7 DEF PutObject, At
    <3>2. run[w].key \in Keys /\ run[w].page # {} BY <3>1 DEF HasPage, Paged
    <3>3. PICK pc \in {"manifest", "orphan"} : PutAs(w, pc) BY <2>7, ObjectPut
    <3> DEFINE change == [run[w] EXCEPT !.pc = pc]
    <3>4. change \in Runs /\ change.pc = pc /\ change.key = run[w].key /\ change.page = run[w].page
      BY <3>1 DEF Runs
    <3>5. run'[w] = change BY <3>3 DEF PutAs, Goes, TInv, TypeOK
    <3>6. StoreTyped'
      <4>1. DOMAIN objects' \subseteq Keys BY <2>0, <3>2, <3>3 DEF PutAs, StoreTyped
      <4>2. \A k \in DOMAIN objects' : objects'[k] \in Bodies
        BY <2>0, <3>3, BodyTyped DEF PutAs, StoreTyped
      <4> QED BY <2>0, <2>7, <4>1, <4>2 DEF PutObject, StoreTyped
    <3>7. HasPage(w)' BY <3>2, <3>3, <3>4, <3>5 DEF HasPage, Paged, Sent, PutAs
    <3> QED BY <2>0, <2>7, <3>3, <3>4, <3>6, <3>7, StepTyped DEF PutObject, PutAs, seen
  <2>8. ASSUME NEW w \in Workers, PutManifest(w) PROVE TInv'
    <3>1. run[w] \in Runs /\ HasPage(w) /\ run[w].pc \in {"manifest", "orphan"}
      BY <2>0, <2>8 DEF PutManifest, At
    <3>2. run[w].key \in Keys /\ run[w].page # {} /\ (Sent(w) => run[w].key \in DOMAIN objects)
      BY <3>1 DEF HasPage, Paged
    <3>3. /\ DOMAIN manifests' = DOMAIN manifests \union {run[w].key} /\ manifests'[run[w].key] = Body(w)
          /\ \A j \in DOMAIN manifests : j # run[w].key => manifests'[j] = manifests[j]
      BY <2>8 DEF PutManifest, Stored
    <3>4. StoreTyped' BY <2>0, <2>8, <3>2, <3>3, BodyTyped DEF PutManifest, StoreTyped
    <3>5. objects' = objects BY <2>8 DEF PutManifest
    <3>6. CASE At(w, "orphan")
      <4>1. Goes(w, Leaving(w)) BY <2>8, <3>6 DEF PutManifest
      <4>2. Leaving(w) \in Runs /\ Leaving(w).pc = "release" BY <2>0, Resting DEF Leaving, Bare
      <4>3. HasPage(w)' BY <4>1, <4>2 DEF Goes, HasPage, Paged, Sent, TInv, TypeOK
      <4> QED BY <2>0, <2>8, <3>3, <3>4, <3>5, <4>1, <4>2, <4>3, StepTyped DEF PutManifest, seen
    <3>7. CASE ~At(w, "orphan")
      <4> DEFINE change == [run[w] EXCEPT !.pc = "readback"]
      <4>1. Goes(w, change) /\ Sent(w) BY <2>8, <3>7 DEF PutManifest, At, Sent
      <4>2. change \in Runs /\ change.pc = "readback" /\ change.key = run[w].key
            /\ change.page = run[w].page
        BY <3>1 DEF Runs
      <4>3. run'[w] = change BY <4>1 DEF Goes, TInv, TypeOK
      <4>4. HasPage(w)' BY <3>2, <3>3, <3>5, <4>1, <4>2, <4>3 DEF HasPage, Paged, Sent
      <4> QED BY <2>0, <2>8, <3>3, <3>4, <3>5, <4>1, <4>2, <4>4, StepTyped DEF PutManifest, seen
    <3> QED BY <3>6, <3>7
  <2>9. ASSUME NEW w \in Workers, Readback(w) PROVE TInv'
    <3>0. run[w] \in Runs /\ HasPage(w) /\ run[w].pc = "readback" BY <2>0, <2>9 DEF Readback, At
    <3>1. CASE Goes(w, [run[w] EXCEPT !.pc = "advance"])
      <4> DEFINE change == [run[w] EXCEPT !.pc = "advance"]
      <4>1. change \in Runs /\ change.pc = "advance" /\ change.key = run[w].key /\ change.page = run[w].page
        BY <3>0 DEF Runs
      <4>2. run'[w] = change BY <3>1 DEF Goes, TInv, TypeOK
      <4>3. HasPage(w)' BY <2>9, <3>0, <4>1, <4>2 DEF HasPage, Paged, Sent, Readback, store
      <4> QED BY <2>0, <2>9, <3>1, <4>1, <4>3, StepTyped DEF Readback, store, seen, StoreTyped
    <3>2. CASE Goes(w, Leaving(w))
      <4>1. Leaving(w) \in Runs /\ Leaving(w).pc = "release" BY <2>0, Resting DEF Leaving, Bare
      <4>2. HasPage(w)' BY <3>2, <4>1 DEF Goes, HasPage, Paged, Sent, TInv, TypeOK
      <4> QED BY <2>0, <2>9, <3>2, <4>1, <4>2, StepTyped DEF Readback, store, seen, StoreTyped
    <3> QED BY <2>9, <3>1, <3>2 DEF Readback
  <2>10. ASSUME NEW w \in Workers, Advance(w) PROVE TInv'
    <3>0. run[w] \in Runs /\ HasPage(w) /\ run[w].pc = "advance" BY <2>0, <2>10 DEF Advance, At
    <3>1. run[w].page # {} /\ run[w].page \subseteq Rows /\ run[w].key \in Keys
      BY <3>0 DEF HasPage, Paged, Sent, Runs
    <3>2. PICK cursor \in Rows : cursor = Max(run[w].page) BY <3>1, LastRow
    <3>3. checkpoint' \in Evidence
      BY <2>0, <2>10, <3>1, <3>2, BodyTyped DEF Advance, Evidence
    <3>4. CASE LastPage(w)
      <4>1. Goes(w, Leaving(w)) BY <2>10, <3>4 DEF Advance
      <4>2. Leaving(w) \in Runs /\ Leaving(w).pc = "release" BY <2>0, Resting DEF Leaving, Bare
      <4>3. HasPage(w)' BY <4>1, <4>2 DEF Goes, HasPage, Paged, Sent, TInv, TypeOK
      <4> QED BY <2>0, <2>10, <3>3, <4>1, <4>2, <4>3, StepTyped DEF Advance, store, seen, StoreTyped
    <3>5. CASE ~LastPage(w)
      <4> DEFINE change == [run[w] EXCEPT !.pc = "page", !.cursor = cursor, !.round = @ + 1,
                                          !.page = {}, !.key = NoKey]
      <4>1. Goes(w, change) BY <2>10, <3>2, <3>5 DEF Advance
      <4>2. run[w].round \in 1..MaxRounds /\ run[w].round # MaxRounds BY <3>0, <3>5 DEF Runs, LastPage
      <4>3. run[w].round + 1 \in 1..MaxRounds BY <4>2, Sizes
      <4>4. change \in Runs /\ change.pc = "page" BY <3>0, <3>2, <4>3 DEF Runs
      <4>5. run'[w] = change BY <4>1 DEF Goes, TInv, TypeOK
      <4>6. HasPage(w)' BY <4>4, <4>5 DEF HasPage, Paged, Sent
      <4> QED BY <2>0, <2>10, <3>3, <4>1, <4>4, <4>6, StepTyped DEF Advance, store, seen, StoreTyped
    <3> QED BY <3>4, <3>5
  <2>11. ASSUME NEW w \in Workers, Fail(w) PROVE TInv'
    <3>1. Leaving(w) \in Runs /\ Leaving(w).pc = "release" BY <2>0, Resting DEF Leaving, Bare
    <3>2. HasPage(w)' BY <2>11, <3>1 DEF Fail, Goes, HasPage, Paged, Sent, TInv, TypeOK
    <3> QED BY <2>0, <2>11, <3>1, <3>2, StepTyped DEF Fail, store, seen, StoreTyped
  <2>12. ASSUME NEW w \in Workers, Gone(w) PROVE TInv'
    <3>1. Nowhere \in Runs /\ Nowhere.pc = "idle" BY Resting DEF Nowhere, Bare
    <3>2. HasPage(w)' BY <2>12, <3>1 DEF Gone, Goes, HasPage, Paged, Sent, TInv, TypeOK
    <3> QED BY <2>0, <2>12, <3>1, <3>2, StepTyped DEF Gone, store, seen, StoreTyped
  <2>13. ASSUME NEW r \in Rows, Insert(r) PROVE TInv'
    <3>1. late' \subseteq rows' /\ rows' \subseteq Rows BY <2>13 DEF Insert, TInv, TypeOK
    <3>2. TypeOK' BY <2>13, <3>1 DEF Insert, TInv, TypeOK, store, seen
    <3>3. \A w \in Workers : HasPage(w)' BY <2>0, <2>13 DEF Insert, HasPage, Paged, Sent, store
    <3> QED BY <3>2, <3>3 DEF TInv
  <2>14. ASSUME Tick PROVE TInv'
    <3>1. clock' \in 0..MaxClock BY <2>0, <2>14, Sizes DEF Tick
    <3>2. exposed' \in BOOLEAN BY <2>0, <2>14 DEF Tick
    <3>3. TypeOK' BY <2>14, <3>1, <3>2 DEF Tick, TInv, TypeOK, store, data
    <3>4. \A w \in Workers : HasPage(w)' BY <2>0, <2>14 DEF Tick, HasPage, Paged, Sent, store
    <3> QED BY <3>3, <3>4 DEF TInv
  <2>15. CASE UNCHANGED vars
    BY <2>15 DEF TInv, TypeOK, HasPage, Paged, Sent, vars, data, store, seen
  <2> QED BY <2>1, <2>2, <2>3, <2>4, <2>5, <2>6, <2>7, <2>8, <2>9, <2>10, <2>11, <2>12, <2>13,
             <2>14, <2>15 DEF Next
<1> QED BY <1>1, <1>2, PTL DEF Spec

\* Every variable has its type.
THEOREM TypesKept == Spec => []TypeOK
<1>1. TInv => TypeOK BY DEF TInv
<1> QED BY <1>1, TypeInvariant, PTL
-----------------------------------------------------------------------------
(* The lease *)

\* Who is about to take the lease has read one that had ended; and unless somebody
\* wrote over another's lease or outlived it, the lease of who is at work is the one
\* in force, so that nobody can have read it as ended.
Fresh(w) ==
  /\ run[w].now <= clock
  /\ At(w, "acquire") => run[w].read.expires <= clock
Holds(w) ==
  Active(w) => /\ lease.owner = run[w].now /\ lease.expires = run[w].now + LeaseTtl
               /\ clock < lease.expires
LInv ==
  /\ \A w \in Workers : Fresh(w)
  /\ exposed \/ /\ \A w \in Workers : Holds(w)
                /\ \A w, v \in Workers : Active(w) /\ Active(v) => w = v

\* A step of a run that leaves the lease alone, and starts no work, keeps all of it.
LEMMA LeaseFrame ==
  ASSUME TInv, LInv, NEW w \in Workers, NEW change, Goes(w, change), UNCHANGED <<clock, lease, exposed>>,
         \/ change.pc = "idle" /\ change.now = 0
         \/ change.pc # "acquire" /\ change.now = run[w].now /\ Active(w)
  PROVE  LInv'
<1>0. /\ run'[w] = change /\ clock \in Nat
      /\ \A v \in Workers \ {w} : run'[v] = run[v]
  BY Sizes DEF Goes, TInv, TypeOK
<1>1. ASSUME NEW v \in Workers PROVE Fresh(v)'
  <2>1. CASE v = w BY <1>0, <2>1 DEF LInv, Fresh, At
  <2>2. CASE v # w BY <1>0, <2>2 DEF LInv, Fresh, At
  <2> QED BY <2>1, <2>2
<1>2. ASSUME NEW v \in Workers, Active(v)' PROVE Active(v) /\ run'[v].now = run[v].now
  <2>1. CASE v = w BY <1>0, <1>2, <2>1 DEF Active
  <2>2. CASE v # w BY <1>0, <1>2, <2>2 DEF Active
  <2> QED BY <2>1, <2>2
<1>3. ASSUME ~exposed', NEW v \in Workers PROVE Holds(v)'
  BY <1>2, <1>3 DEF LInv, Holds
<1>4. ASSUME ~exposed', NEW u \in Workers, NEW v \in Workers, Active(u)', Active(v)' PROVE u = v
  BY <1>2, <1>4 DEF LInv
<1> QED BY <1>1, <1>3, <1>4 DEF LInv

LEMMA LeaseStep == TInv /\ LInv /\ [Next]_vars => LInv'
<1> SUFFICES ASSUME TInv, LInv, [Next]_vars PROVE LInv' OBVIOUS
<1>0. /\ clock \in Nat /\ lease \in Leases /\ run \in [Workers -> Runs] /\ LeaseTtl \in Nat \ {0}
      /\ \A v \in Workers : run[v] \in Runs /\ run[v].now \in Nat
  BY Sizes DEF TInv, TypeOK, Runs
<1>1. ASSUME NEW w \in Workers, Start(w) PROVE LInv'
  <2> DEFINE change == [Bare("acquire", clock) EXCEPT !.read = lease]
  <2>1. change.pc = "acquire" /\ change.now = clock /\ change.read = lease BY DEF Bare
  <2>2. run'[w] = change /\ \A v \in Workers \ {w} : run'[v] = run[v]
    BY <1>0, <1>1 DEF Start, Goes
  <2>3. lease' = lease /\ clock' = clock /\ exposed' = exposed BY <1>1 DEF Start, seen
  <2>4. lease.expires <= clock BY <1>0, <1>1 DEF Start, Held, Leases
  <2> HIDE DEF change
  <2>5. ASSUME NEW v \in Workers PROVE Fresh(v)'
    <3>1. CASE v = w BY <1>0, <2>1, <2>2, <2>3, <2>4, <3>1 DEF Fresh, At
    <3>2. CASE v # w BY <2>2, <2>3, <3>2 DEF LInv, Fresh, At
    <3> QED BY <3>1, <3>2
  <2>6. ASSUME NEW v \in Workers, Active(v)' PROVE v # w /\ Active(v) /\ run'[v] = run[v]
    BY <2>1, <2>2, <2>6 DEF Active
  <2>7. ASSUME ~exposed', NEW v \in Workers PROVE Holds(v)' BY <2>3, <2>6, <2>7 DEF LInv, Holds
  <2> QED BY <2>3, <2>5, <2>6, <2>7 DEF LInv
<1>2. ASSUME NEW w \in Workers, TakeLease(w) PROVE LInv'
  <2> DEFINE change == [run[w] EXCEPT !.pc = "checkpoint", !.read = NoLease]
  <2>1. change.pc = "checkpoint" /\ change.now = run[w].now BY <1>0 DEF Runs
  <2>2. run'[w] = change /\ \A v \in Workers \ {w} : run'[v] = run[v]
    BY <1>0, <1>2 DEF TakeLease, Goes
  <2>3. clock' = clock /\ lease' = [owner |-> run[w].now, expires |-> run[w].now + LeaseTtl]
    BY <1>2 DEF TakeLease
  <2> HIDE DEF change
  <2>4. ASSUME NEW v \in Workers PROVE Fresh(v)'
    <3>1. CASE v = w BY <2>1, <2>2, <2>3, <3>1 DEF LInv, Fresh, At
    <3>2. CASE v # w BY <2>2, <2>3, <3>2 DEF LInv, Fresh, At
    <3> QED BY <3>1, <3>2
  <2>5. ASSUME ~exposed' PROVE (\A v \in Workers : Holds(v)') /\ \A v \in Workers : Active(v)' => v = w
    <3>1. ~exposed /\ lease = run[w].read /\ ~(run[w].now + LeaseTtl <= clock)
      BY <1>2, <2>5 DEF TakeLease, Expired
    <3>2. lease.expires <= clock BY <1>2, <3>1 DEF TakeLease, LInv, Fresh
    <3>3. \A v \in Workers : ~Active(v) BY <1>0, <3>1, <3>2 DEF LInv, Holds, Leases
    <3>4. \A v \in Workers : Active(v)' => v = w BY <2>2, <3>3 DEF Active
    <3>5. Holds(w)' BY <1>0, <2>1, <2>2, <2>3, <3>1 DEF Holds
    <3>6. ASSUME NEW v \in Workers PROVE Holds(v)' BY <3>4, <3>5 DEF Holds
    <3> QED BY <3>4, <3>6
  <2> QED BY <2>4, <2>5 DEF LInv
<1>3. ASSUME NEW w \in Workers, ReadHolder(w) PROVE LInv'
  <2> DEFINE change == IF lease.owner = run[w].now THEN [run[w] EXCEPT !.pc = "free"] ELSE Nowhere
  <2>1. Goes(w, change) /\ Active(w) BY <1>3 DEF ReadHolder, Active, At
  <2>2. \/ change.pc = "free" /\ change.now = run[w].now
        \/ change.pc = "idle" /\ change.now = 0
    <3>1. [run[w] EXCEPT !.pc = "free"].pc = "free" /\ [run[w] EXCEPT !.pc = "free"].now = run[w].now
      BY <1>0 DEF Runs
    <3> QED BY <3>1 DEF Nowhere, Bare
  <2>3. UNCHANGED <<clock, lease, exposed>> BY <1>3 DEF ReadHolder, seen
  <2> HIDE DEF change
  <2>4. CASE change.pc = "free" /\ change.now = run[w].now BY <2>1, <2>3, <2>4, LeaseFrame
  <2>5. CASE change.pc = "idle" /\ change.now = 0 BY <2>1, <2>3, <2>5, LeaseFrame
  <2> QED BY <2>2, <2>4, <2>5
<1>4. ASSUME NEW w \in Workers, FreeLease(w) PROVE LInv'
  <2>1. Active(w) /\ clock' = clock /\ exposed' = exposed BY <1>4 DEF FreeLease, Active, At, seen
  <2>2. run'[w] = Nowhere /\ (\A v \in Workers \ {w} : run'[v] = run[v])
    BY <1>0, <1>4 DEF FreeLease, Goes
  <2>3. Nowhere.pc = "idle" /\ Nowhere.now = 0 BY DEF Nowhere, Bare
  <2>4. ASSUME NEW v \in Workers PROVE Fresh(v)'
    <3>1. CASE v = w BY <1>0, <2>1, <2>2, <2>3, <3>1 DEF Fresh, At
    <3>2. CASE v # w BY <2>1, <2>2, <3>2 DEF LInv, Fresh, At
    <3> QED BY <3>1, <3>2
  <2>5. ASSUME ~exposed', NEW v \in Workers PROVE ~Active(v)'
    <3>1. CASE v = w BY <2>2, <2>3, <3>1 DEF Active
    <3>2. CASE v # w BY <2>1, <2>2, <2>5, <3>2 DEF LInv, Active
    <3> QED BY <3>1, <3>2
  <2> QED BY <2>4, <2>5 DEF LInv, Holds
<1>5. ASSUME NEW w \in Workers, ReadCheckpoint(w) PROVE LInv'
  <2>1. PICK cursor : Goes(w, [run[w] EXCEPT !.pc = "page", !.cursor = cursor])
    BY <1>5 DEF ReadCheckpoint
  <2>2. [run[w] EXCEPT !.pc = "page", !.cursor = cursor].pc = "page"
    /\ [run[w] EXCEPT !.pc = "page", !.cursor = cursor].now = run[w].now
    BY <1>0 DEF Runs
  <2>3. Active(w) BY <1>5 DEF ReadCheckpoint, Active, At
  <2> QED BY <1>5, <2>1, <2>2, <2>3, LeaseFrame DEF ReadCheckpoint
<1>6. ASSUME NEW w \in Workers, NEW change, Goes(w, change), UNCHANGED <<clock, lease, exposed>>, Active(w),
             change.now = run[w].now, change.pc # "acquire"
      PROVE  LInv'
  BY <1>6, LeaseFrame
<1>7. \A w : Leaving(w).now = run[w].now /\ Leaving(w).pc = "release" BY DEF Leaving, Bare
<1>8. ASSUME NEW w \in Workers, ReadPage(w) PROVE LInv'
  <2> DEFINE change == [run[w] EXCEPT !.pc = "object", !.page = Page(w), !.key = Key(w)]
  <2>1. change.now = run[w].now /\ change.pc = "object" BY <1>0 DEF Runs
  <2>2. Goes(w, change) \/ Goes(w, Leaving(w)) BY <1>8 DEF ReadPage
  <2> HIDE DEF change
  <2> QED BY <1>6, <1>7, <1>8, <2>1, <2>2 DEF ReadPage, Active, At, seen
<1>9. ASSUME NEW w \in Workers, PutObject(w) \/ PutManifest(w) \/ Readback(w) PROVE LInv'
  <2>1. PICK pc \in {"manifest", "orphan", "readback", "advance"} :
          Goes(w, [run[w] EXCEPT !.pc = pc]) \/ Goes(w, Leaving(w))
    BY <1>9 DEF PutObject, PutManifest, Readback
  <2>2. [run[w] EXCEPT !.pc = pc].now = run[w].now /\ [run[w] EXCEPT !.pc = pc].pc = pc
    BY <1>0 DEF Runs
  <2>3. UNCHANGED <<clock, lease, exposed>> /\ Active(w)
    BY <1>9 DEF PutObject, PutManifest, Readback, Active, At, seen
  <2> QED BY <1>6, <1>7, <2>1, <2>2, <2>3
<1>10. ASSUME NEW w \in Workers, Advance(w) PROVE LInv'
  <2>1. PICK cursor : cursor = Max(run[w].page) OBVIOUS
  <2> DEFINE change == [run[w] EXCEPT !.pc = "page", !.cursor = cursor, !.round = @ + 1,
                                      !.page = {}, !.key = NoKey]
  <2>2. change.now = run[w].now /\ change.pc = "page" BY <1>0 DEF Runs
  <2>3. Goes(w, change) \/ Goes(w, Leaving(w)) BY <1>10, <2>1 DEF Advance
  <2> HIDE DEF change
  <2> QED BY <1>6, <1>7, <1>10, <2>2, <2>3 DEF Advance, Active, At, seen
<1>11. ASSUME NEW w \in Workers, Fail(w) PROVE LInv'
  BY <1>6, <1>7, <1>11 DEF Fail, seen
<1>12. ASSUME NEW w \in Workers, Gone(w) PROVE LInv'
  <2>1. Nowhere.pc = "idle" /\ Nowhere.now = 0 BY DEF Nowhere, Bare
  <2>2. Goes(w, Nowhere) /\ UNCHANGED <<clock, lease, exposed>> BY <1>12 DEF Gone, seen
  <2> QED BY <2>1, <2>2, LeaseFrame
<1>13. ASSUME NEW r \in Rows, Insert(r) PROVE LInv'
  BY <1>13 DEF Insert, LInv, Fresh, Holds, Active, At, seen
<1>14. ASSUME Tick PROVE LInv'
  <2>1. clock' = clock + 1 /\ run' = run /\ lease' = lease BY <1>14 DEF Tick
  <2>2. ASSUME NEW v \in Workers PROVE Fresh(v)'
    <3>1. At(v, "acquire") => run[v].read.expires \in Nat BY <1>0 DEF Runs, Leases
    <3> QED BY <1>0, <2>1, <3>1 DEF LInv, Fresh, At
  <2>3. ASSUME ~exposed', NEW v \in Workers PROVE Holds(v)'
    <3>1. ~exposed /\ (Active(v) => ~(run[v].now + LeaseTtl <= clock'))
      BY <1>14, <2>3 DEF Tick, Expired
    <3> QED BY <1>0, <2>1, <3>1 DEF LInv, Holds, Active
  <2> QED BY <1>14, <2>1, <2>2, <2>3 DEF Tick, LInv, Active
<1>15. CASE UNCHANGED vars
  BY <1>15 DEF LInv, Fresh, Holds, Active, At, vars, seen
<1> QED BY <1>1, <1>2, <1>3, <1>4, <1>5, <1>8, <1>9, <1>10, <1>11, <1>12, <1>13, <1>14, <1>15 DEF Next

LEMMA LeaseInit == Init => LInv
<1> SUFFICES ASSUME Init PROVE LInv OBVIOUS
<1>1. \A w \in Workers : run[w] = Nowhere BY DEF Init
<1>2. Nowhere.pc = "idle" /\ Nowhere.now = 0 /\ clock = 0 BY DEF Nowhere, Bare, Init
<1> QED BY <1>1, <1>2 DEF LInv, Fresh, Holds, Active, At

\* The lease keeps runs apart as long as none outlives it and no two read it before
\* either has written it.
THEOREM LeaseKeepsApart == Spec => []LeaseExcludes
<1>1. LInv => LeaseExcludes BY DEF LInv, LeaseExcludes
<1>2. Spec => []LInv
  <2>1. TInv /\ LInv /\ [Next]_vars => LInv' BY LeaseStep
  <2> QED BY <2>1, LeaseInit, TypeInvariant, PTL DEF Spec
<1> QED BY <1>1, <1>2, PTL
-----------------------------------------------------------------------------
(* Batches *)

OnTime == rows \ late
Settled(r) == CollectedAt[r] + Eligibility < clock

\* A batch is an unbroken part of the rows that came on time, from its first row on,
\* and all of it is past the eligibility cutoff.
Batch(S, k) ==
  /\ S \subseteq rows /\ k.first \in S /\ k.count = Cardinality(S)
  /\ \A r \in S : k.first <= r /\ Settled(r)
  /\ \A r \in OnTime, q \in S : k.first <= r /\ r <= q => r \in S
\* A page starts right after the cursor of its run.
Follows(S, c) ==
  /\ \A r \in S : c < r
  /\ \A r \in OnTime, q \in S : c < r /\ r <= q => r \in S
Cursor(c) == c # 0 => Settled(c)
MRun(w) ==
  /\ Cursor(run[w].cursor)
  /\ Paged(w) => Batch(run[w].page, run[w].key) /\ Follows(run[w].page, run[w].cursor)
MInv ==
  /\ \A k \in DOMAIN objects : Batch(objects[k].rows, k)
  /\ Cursor(checkpoint.cursor)
  /\ \A w \in Workers : MRun(w)

\* A row that comes on time sorts after every row that is settled.
LEMMA NewRowsSortLast ==
  ASSUME TInv, NEW r \in Rows, Insert(r), NEW q \in Rows, Settled(q)
  PROVE  /\ OnTime' = OnTime \/ (OnTime' = OnTime \union {r} /\ q < r)
         /\ Settled(q)'
<1>0. clock \in Int /\ Eligibility \in Int /\ \A x \in Rows : CollectedAt[x] \in Int /\ x \in Int
  BY Sizes, RowsAreNumbers, ArchiveConstants DEF ArchiveConstants, TInv, TypeOK
<1>1. clock' = clock /\ rows' = rows \union {r} /\ r \notin rows /\ late \subseteq rows
  BY DEF Insert, TInv, TypeOK
<1>2. CASE CollectedAt[r] + Eligibility < clock
  <2>1. late' = late \union {r} BY <1>2 DEF Insert
  <2> QED BY <1>1, <2>1 DEF OnTime, Settled
<1>3. CASE ~(CollectedAt[r] + Eligibility < clock)
  <2>1. late' = late BY <1>3 DEF Insert
  <2>2. OnTime' = OnTime \union {r} BY <1>1, <2>1 DEF OnTime
  <2>3. CollectedAt[q] < CollectedAt[r] BY <1>0, <1>3 DEF Settled
  <2>4. ~(r < q) BY <1>0, <2>3, ArchiveConstants DEF ArchiveConstants
  <2>5. q < r BY <1>0, <2>3, <2>4
  <2> QED BY <1>1, <2>2, <2>5 DEF Settled
<1> QED BY <1>2, <1>3

LEMMA BatchKept ==
  ASSUME TInv, NEW S, NEW k, Batch(S, k), Tick \/ \E r \in Rows : Insert(r)
  PROVE  Batch(S, k)'
<1>0. /\ S \subseteq Rows /\ clock \in Int /\ Eligibility \in Int
      /\ \A x \in Rows : CollectedAt[x] \in Int /\ x \in Int
  BY Sizes, RowsAreNumbers, ArchiveConstants DEF ArchiveConstants, TInv, TypeOK, Batch
<1>1. CASE Tick
  <2>1. clock' = clock + 1 /\ rows' = rows /\ late' = late BY <1>1 DEF Tick, data
  <2> QED BY <1>0, <2>1 DEF Batch, OnTime, Settled
<1>2. ASSUME NEW r \in Rows, Insert(r) PROVE Batch(S, k)'
  <2>1. \A q \in S : /\ OnTime' = OnTime \/ (OnTime' = OnTime \union {r} /\ q < r)
                     /\ Settled(q)'
    BY <1>0, <1>2, NewRowsSortLast DEF Batch
  <2>2. rows \subseteq rows' BY <1>2 DEF Insert
  <2>3. ASSUME NEW x \in OnTime', NEW q \in S, k.first <= x, x <= q PROVE x \in S
    <3>1. x \in OnTime BY <1>0, <1>2, <2>1, <2>3
    <3> QED BY <2>3, <3>1 DEF Batch
  <2> QED BY <2>1, <2>2, <2>3 DEF Batch
<1> QED BY <1>1, <1>2

LEMMA FollowsKept ==
  ASSUME TInv, NEW S, NEW k, NEW c, Batch(S, k), Follows(S, c), Tick \/ \E r \in Rows : Insert(r)
  PROVE  Follows(S, c)'
<1>0. S \subseteq Rows /\ \A x \in Rows : x \in Int BY RowsAreNumbers DEF TInv, TypeOK, Batch
<1>1. CASE Tick
  <2>1. rows' = rows /\ late' = late BY <1>1 DEF Tick, data
  <2> QED BY <2>1 DEF Follows, OnTime
<1>2. ASSUME NEW r \in Rows, Insert(r) PROVE Follows(S, c)'
  <2>1. \A q \in S : OnTime' = OnTime \/ (OnTime' = OnTime \union {r} /\ q < r)
    BY <1>0, <1>2, NewRowsSortLast DEF Batch
  <2>2. ASSUME NEW x \in OnTime', NEW q \in S, c < x, x <= q PROVE x \in S
    <3>1. x \in OnTime BY <1>0, <1>2, <2>1, <2>2
    <3> QED BY <2>2, <3>1 DEF Follows
  <2> QED BY <2>2 DEF Follows
<1> QED BY <1>1, <1>2

\* The page that a run reads is a batch that follows its cursor.
LEMMA PageIsBatch ==
  ASSUME TInv, LInv, NEW w \in Workers, Page(w) # {}
  PROVE  Batch(Page(w), Key(w)) /\ Follows(Page(w), run[w].cursor)
<1>0. /\ Page(w) \subseteq Due(w) /\ Due(w) \subseteq Rows
      /\ \A r \in Due(w), q \in Page(w) : r <= q => r \in Page(w)
  BY PageTyped DEF TInv
<1>1. PICK P : P = Page(w) OBVIOUS
<1>2. P \subseteq Rows /\ P # {} BY <1>0, <1>1
<1>3. Min(P) \in P /\ \A r \in P : Min(P) <= r BY <1>2, FirstRow
<1>4. Key(w).first = Min(P) /\ Key(w).count = Cardinality(P) BY <1>1 DEF Key
<1>5. PICK n : n = run[w].now OBVIOUS
<1>6. PICK c : c = run[w].cursor OBVIOUS
<1>7. /\ n \in Int /\ clock \in Int /\ n <= clock /\ c \in Int /\ Eligibility \in Int
      /\ \A x \in Rows : CollectedAt[x] \in Int /\ x \in Int
  BY <1>5, <1>6, Sizes, RowsAreNumbers, ArchiveConstants
  DEF ArchiveConstants, TInv, TypeOK, Runs, LInv, Fresh
<1>8. \A r \in Due(w) : r \in rows /\ CollectedAt[r] + Eligibility < n /\ c < r
  BY <1>0, <1>5, <1>6, <1>7 DEF Due
<1>9. \A r \in rows : CollectedAt[r] + Eligibility < n /\ c < r => r \in Due(w)
  BY <1>5, <1>6, <1>7 DEF Due, TInv, TypeOK
<1>10. \A r \in P : Settled(r) /\ c < r /\ r \in rows BY <1>0, <1>1, <1>2, <1>7, <1>8 DEF Settled
<1>11. ASSUME NEW r \in rows, NEW q \in P, c < r, r <= q PROVE r \in P
  <2>1. r \in Rows /\ q \in Rows BY <1>2 DEF TInv, TypeOK
  <2>2. CollectedAt[r] <= CollectedAt[q]
    <3>1. r = q \/ r < q BY <1>7, <1>11, <2>1
    <3> QED BY <1>7, <2>1, <3>1, ArchiveConstants DEF ArchiveConstants
  <2>3. CollectedAt[q] + Eligibility < n BY <1>0, <1>1, <1>8
  <2>4. CollectedAt[r] + Eligibility < n BY <1>7, <2>1, <2>2, <2>3
  <2> QED BY <1>0, <1>1, <1>9, <1>11, <2>4
<1>12. ASSUME NEW r \in rows, NEW q \in P, Min(P) <= r, r <= q PROVE r \in P
  <2>1. c < Min(P) /\ Min(P) \in Rows /\ r \in Rows BY <1>2, <1>3, <1>10 DEF TInv, TypeOK
  <2>2. c < r BY <1>7, <1>12, <2>1
  <2> QED BY <1>11, <1>12, <2>2
<1>13. OnTime \subseteq rows BY DEF OnTime
<1>14. Batch(P, Key(w)) BY <1>3, <1>4, <1>10, <1>12, <1>13 DEF Batch
<1>15. Follows(P, c) BY <1>10, <1>11, <1>13 DEF Follows
<1> QED BY <1>1, <1>6, <1>14, <1>15
-----------------------------------------------------------------------------
(* What the cursor has passed *)

Working(w) == At(w, "page") \/ Paged(w)
\* As long as runs are orderly, who works continues where the checkpoint is, nobody
\* else touches what it has put, and the checkpoint names a batch that is there.
ORun(w) ==
  /\ Working(w) => run[w].cursor = checkpoint.cursor
  /\ Sent(w) => objects[run[w].key] = Body(w)
  /\ run[w].pc \in {"readback", "advance"} => manifests[run[w].key] = Body(w)
OMark ==
  checkpoint.cursor # 0 =>
    LET k == checkpoint.key IN
    /\ k \in DOMAIN objects /\ objects[k] = checkpoint.body
    /\ k \in DOMAIN manifests /\ manifests[k] = checkpoint.body
    /\ k.first <= checkpoint.cursor
OInv == Orderly => OMark /\ \A w \in Workers : ORun(w)

\* Every cursor, durable or of a run, has only archived rows behind it.
Safe(c) == \A r \in OnTime : r <= c => Archived(r)
KRun(w) ==
  /\ Working(w) => Safe(run[w].cursor)
  /\ Sent(w) => \A r \in run[w].page \intersect OnTime : Archived(r)
KInv == Orderly \/ late = {} => Safe(checkpoint.cursor) /\ \A w \in Workers : KRun(w)

NInv == MInv /\ OInv /\ KInv

LEMMA RunFrame ==
  ASSUME TInv, NInv, NEW w \in Workers, NEW change, Goes(w, change),
         UNCHANGED <<clock, data, store, checkpoint>>, Orderly' => Orderly,
         MRun(w)', Orderly' => ORun(w)', Orderly' \/ late = {} => KRun(w)'
  PROVE  NInv'
<1>1. \A v \in Workers \ {w} : run'[v] = run[v] BY DEF Goes, TInv, TypeOK
<1>2. ASSUME NEW v \in Workers \ {w}
      PROVE  /\ MRun(v) => MRun(v)'
             /\ ORun(v) => ORun(v)'
             /\ KRun(v) => KRun(v)'
  <2>1. run'[v] = run[v] BY <1>1
  <2>2. MRun(v) => MRun(v)'
    BY <2>1 DEF MRun, Cursor, Settled, Batch, Follows, OnTime, Paged, data
  <2>3. ORun(v) => ORun(v)' BY <2>1 DEF ORun, Working, Paged, Sent, At, Body, store
  <2>4. KRun(v) => KRun(v)'
    BY <2>1 DEF KRun, Safe, Archived, OnTime, Working, Paged, Sent, At, store, data
  <2> QED BY <2>2, <2>3, <2>4
<1>3. MInv'
  <2>1. \A k \in DOMAIN objects' : Batch(objects[k].rows, k)'
    BY DEF NInv, MInv, Batch, OnTime, Settled, store, data
  <2>2. Cursor(checkpoint.cursor)' BY DEF NInv, MInv, Cursor, Settled
  <2> QED BY <1>2, <2>1, <2>2 DEF NInv, MInv
<1>4. OInv'
  <2>1. OMark => OMark' BY DEF OMark, store
  <2> QED BY <1>2, <2>1 DEF NInv, OInv
<1>5. KInv'
  <2>1. Safe(checkpoint.cursor) => Safe(checkpoint.cursor)' BY DEF Safe, Archived, OnTime, store, data
  <2>2. late' = late BY DEF data
  <2> QED BY <1>2, <2>1, <2>2 DEF NInv, KInv
<1> QED BY <1>3, <1>4, <1>5 DEF NInv

\* A run that has no page yet has nothing to keep but its cursor.
LEMMA IdleFrame ==
  ASSUME TInv, NInv, NEW w \in Workers, NEW change, Goes(w, change),
         UNCHANGED <<clock, data, store, checkpoint>>, Orderly' => Orderly,
         change.pc \in {"idle", "acquire", "checkpoint", "release", "free"},
         change.cursor \in {0, run[w].cursor}
  PROVE  NInv'
<1>1. run'[w] = change BY DEF Goes, TInv, TypeOK
<1>2. ~Paged(w)' /\ ~Sent(w)' /\ ~Working(w)' BY <1>1 DEF Paged, Sent, Working, At
<1>3. MRun(w)' BY <1>1, <1>2 DEF MRun, Cursor, Settled, NInv, MInv
<1>4. ORun(w)' BY <1>1, <1>2 DEF ORun, Sent
<1>5. KRun(w)' BY <1>2 DEF KRun
<1> QED BY <1>3, <1>4, <1>5, RunFrame

\* Where no row came late, two batches of one key are the same rows.
LEMMA BatchSame ==
  ASSUME TInv, late = {}, NEW S, NEW P, NEW k, Batch(S, k), Batch(P, k)
  PROVE  S = P
<1>1. /\ S \subseteq Rows /\ S # {} /\ P \subseteq Rows /\ P # {} /\ OnTime = rows
      /\ S \subseteq rows /\ P \subseteq rows
  BY DEF Batch, TInv, TypeOK, OnTime
<1>2. ASSUME NEW A, NEW B, A \subseteq Rows, B \subseteq Rows, A # {}, B # {}, Batch(A, k), Batch(B, k),
             Max(A) <= Max(B)
      PROVE  A = B
  <2>1. Max(A) \in A /\ (\A x \in A : x <= Max(A)) /\ Max(B) \in B BY <1>2, LastRow
  <2>2. ASSUME NEW x \in A PROVE x \in B
    <3>1. x \in Int /\ Max(A) \in Int /\ Max(B) \in Int
      <4>1. x \in Rows /\ Max(A) \in Rows /\ Max(B) \in Rows BY <1>2, <2>1
      <4> QED BY <4>1, RowsAreNumbers
    <3>2. x <= Max(A) BY <2>1
    <3>3. x <= Max(B) BY <1>2, <3>1, <3>2
    <3>4. x \in OnTime /\ k.first <= x BY <1>1, <1>2 DEF Batch
    <3> QED BY <1>2, <2>1, <3>3, <3>4 DEF Batch
  <2>3. Cardinality(A) = Cardinality(B) BY <1>2 DEF Batch
  <2>4. A \subseteq B BY <2>2
  <2>5. IsFiniteSet(B) BY <1>2, RowsFinite
  <2> QED BY <2>3, <2>4, <2>5, FS_Subset
<1>3. Max(S) \in Int /\ Max(P) \in Int
  <2>1. Max(S) \in Rows /\ Max(P) \in Rows BY <1>1, LastRow
  <2> QED BY <2>1, RowsAreNumbers
<1>4. Max(S) <= Max(P) \/ Max(P) <= Max(S) BY <1>3
<1>5. CASE Max(S) <= Max(P) BY <1>1, <1>2, <1>5
<1>6. CASE Max(P) <= Max(S) BY <1>1, <1>2, <1>6
<1> QED BY <1>4, <1>5, <1>6

\* A run that is orderly and works is the only one, and its page lies past the checkpoint.
LEMMA Alone ==
  ASSUME TInv, LInv, NInv, Orderly, NEW w \in Workers, Working(w)
  PROVE  /\ \A v \in Workers \ {w} : ~Working(v) /\ ~Sent(v) /\ ~Paged(v)
         /\ run[w].cursor = checkpoint.cursor
         /\ Paged(w) => run[w].key.first > checkpoint.cursor
<1>1. \A v \in Workers : Working(v) \/ Sent(v) \/ Paged(v) => Active(v)
  BY DEF Working, Sent, Paged, Active, At
<1>2. \A v \in Workers : Active(v) => v = w BY <1>1 DEF LInv, Orderly
<1>3. run[w].cursor = checkpoint.cursor BY DEF NInv, OInv, ORun
<1>4. ASSUME Paged(w) PROVE run[w].key.first > checkpoint.cursor
  <2>1. Batch(run[w].page, run[w].key) /\ Follows(run[w].page, run[w].cursor)
    BY <1>4 DEF NInv, MInv, MRun
  <2>2. run[w].key.first \in run[w].page /\ run[w].cursor < run[w].key.first
    BY <2>1 DEF Batch, Follows
  <2>3. run[w].key.first \in Rows /\ run[w].cursor \in Rows \union {0}
    BY <2>2 DEF TInv, TypeOK, Runs
  <2>4. run[w].key.first \in Int /\ run[w].cursor \in Int BY <2>3, RowsAreNumbers
  <2> QED BY <1>3, <2>2, <2>4
<1> QED BY <1>1, <1>2, <1>3, <1>4

\* Storing a batch under a key that is taken loses no archived row that matters.
LEMMA KeepsArchived ==
  ASSUME TInv, LInv, NInv, NEW w \in Workers, At(w, "object"), NEW pc, PutAs(w, pc),
         NEW r \in OnTime, Archived(r),
         late = {} \/ (Orderly /\ r <= checkpoint.cursor)
  PROVE  Archived(r)'
<1>1. PICK k \in DOMAIN objects : r \in objects[k].rows BY DEF Archived
<1>2. k \in DOMAIN objects' BY DEF PutAs
<1>3. CASE objects'[k] = objects[k] BY <1>1, <1>2, <1>3 DEF Archived
<1>4. CASE objects'[k] # objects[k]
  <2>1. k = run[w].key /\ objects'[k] = Body(w) BY <1>2, <1>4 DEF PutAs
  <2>2. Working(w) /\ Paged(w) BY DEF At, Working, Paged
  <2>3. Batch(objects[k].rows, k) /\ Batch(run[w].page, k) BY <2>1, <2>2 DEF NInv, MInv, MRun
  <2>4. CASE late = {}
    <3>1. objects[k].rows = run[w].page BY <2>3, <2>4, BatchSame
    <3> QED BY <1>1, <1>2, <2>1, <3>1 DEF Archived, Body
  <2>5. CASE Orderly /\ r <= checkpoint.cursor
    <3>1. run[w].key.first > checkpoint.cursor BY <2>2, <2>5, Alone
    <3>2. k.first <= r BY <1>1, <2>3 DEF Batch
    <3>3. k.first \in Rows /\ r \in Rows /\ checkpoint.cursor \in Rows \union {0}
      BY <2>3 DEF Batch, TInv, TypeOK, OnTime, Evidence
    <3>4. k.first \in Int /\ r \in Int /\ checkpoint.cursor \in Int BY <3>3, RowsAreNumbers
    <3> QED BY <2>1, <2>5, <3>1, <3>2, <3>4
  <2> QED BY <2>4, <2>5
<1> QED BY <1>3, <1>4

LEMMA PutObjectKeeps ==
  ASSUME TInv, LInv, NInv, NEW w \in Workers, PutObject(w)
  PROVE  NInv'
<1>1. PICK pc \in {"manifest", "orphan"} : PutAs(w, pc) BY ObjectPut
<1>2. At(w, "object") /\ UNCHANGED <<clock, data, checkpoint, manifests, seen>> BY DEF PutObject
<1>3. Working(w) /\ Paged(w) BY <1>2 DEF At, Working, Paged
<1>4. /\ run'[w].pc = pc /\ run'[w].page = run[w].page /\ run'[w].key = run[w].key
      /\ run'[w].cursor = run[w].cursor /\ run'[w].now = run[w].now
      /\ \A v \in Workers \ {w} : run'[v] = run[v]
  <2>1. run[w] \in Runs /\ run \in [Workers -> Runs] BY DEF TInv, TypeOK
  <2> DEFINE change == [run[w] EXCEPT !.pc = pc]
  <2>2. /\ change.pc = pc /\ change.page = run[w].page /\ change.key = run[w].key
        /\ change.cursor = run[w].cursor /\ change.now = run[w].now
    BY <2>1 DEF Runs
  <2>3. run'[w] = change /\ \A v \in Workers \ {w} : run'[v] = run[v] BY <1>1, <2>1 DEF PutAs, Goes
  <2> QED BY <2>2, <2>3
<1>5. \A S, k : Batch(S, k) => Batch(S, k)' BY <1>2 DEF Batch, Settled, OnTime, data
<1>6. \A S, c : Follows(S, c) => Follows(S, c)' BY <1>2 DEF Follows, OnTime, data
<1>7. \A c : Cursor(c) => Cursor(c)' BY <1>2 DEF Cursor, Settled, data
<1>8. MInv'
  <2>1. ASSUME NEW k \in DOMAIN objects' PROVE Batch(objects[k].rows, k)'
    <3>0. PICK S : S = objects'[k].rows OBVIOUS
    <3>1. Batch(S, k)
      <4>1. CASE k = run[w].key /\ objects'[k] = Body(w)
        BY <1>3, <3>0, <4>1 DEF NInv, MInv, MRun, Body
      <4>2. CASE k \in DOMAIN objects /\ objects'[k] = objects[k] BY <3>0, <4>2 DEF NInv, MInv
      <4> QED BY <1>1, <4>1, <4>2 DEF PutAs
    <3>2. Batch(S, k)' BY <1>5, <3>1
    <3> QED BY <3>0, <3>2 DEF Batch
  <2>2. Cursor(checkpoint.cursor)' BY <1>2, <1>7 DEF NInv, MInv
  <2>3. ASSUME NEW v \in Workers PROVE MRun(v)'
    <3>1. MRun(v) BY DEF NInv, MInv
    <3>2. CASE v = w BY <1>3, <1>4, <1>5, <1>6, <1>7, <3>1, <3>2 DEF MRun
    <3>3. CASE v # w
      <4>1. run'[v] = run[v] BY <1>4, <3>3
      <4> QED BY <1>5, <1>6, <1>7, <3>1, <4>1 DEF MRun, Paged
    <3> QED BY <3>2, <3>3
  <2> QED BY <2>1, <2>2, <2>3 DEF MInv
<1>9. OInv'
  <2> SUFFICES ASSUME Orderly' PROVE (OMark /\ \A v \in Workers : ORun(v))' BY DEF OInv
  <2>1. Orderly BY <1>2 DEF Orderly, seen
  <2>2. /\ \A v \in Workers \ {w} : ~Working(v) /\ ~Sent(v) /\ ~Paged(v)
        /\ run[w].cursor = checkpoint.cursor /\ run[w].key.first > checkpoint.cursor
    BY <1>3, <2>1, Alone
  <2>3. OMark'
    <3>1. OMark BY <2>1 DEF NInv, OInv
    <3>2. SUFFICES ASSUME checkpoint.cursor # 0
          PROVE  checkpoint.key \in DOMAIN objects' /\ objects'[checkpoint.key] = checkpoint.body
      BY <1>2, <3>1 DEF OMark
    <3>3. checkpoint.key \in DOMAIN objects /\ checkpoint.key.first <= checkpoint.cursor
      BY <3>1, <3>2 DEF OMark
    <3>4. checkpoint.key.first \in Int /\ checkpoint.cursor \in Int
      <4>1. checkpoint.key.first \in Rows /\ checkpoint.cursor \in Rows \union {0}
        BY <3>3 DEF TInv, TypeOK, Keys, Evidence
      <4> QED BY <4>1, RowsAreNumbers
    <3>5. checkpoint.key # run[w].key BY <2>2, <3>3, <3>4
    <3> QED BY <1>1, <3>1, <3>2, <3>3, <3>5 DEF PutAs, OMark
  <2>4. ORun(w)' BY <1>1, <1>2, <1>4, <2>2 DEF ORun, Sent, PutAs, Body
  <2>5. ASSUME NEW v \in Workers \ {w} PROVE ORun(v)'
    <3>1. run'[v] = run[v] BY <1>4
    <3> QED BY <2>2, <3>1 DEF ORun, Working, Sent, Paged, At
  <2> QED BY <2>3, <2>4, <2>5
<1>10. KInv'
  <2> SUFFICES ASSUME Orderly \/ late = {}
               PROVE  (Safe(checkpoint.cursor) /\ \A v \in Workers : KRun(v))'
    BY <1>2 DEF KInv, Orderly, seen, data
  <2>1. Safe(checkpoint.cursor) /\ (\A v \in Workers : KRun(v)) BY DEF NInv, KInv
  <2>2. OnTime' = OnTime /\ checkpoint' = checkpoint BY <1>2 DEF OnTime, data
  <2>3. ASSUME NEW r \in OnTime, r <= checkpoint.cursor PROVE Archived(r)'
    BY <1>1, <1>2, <2>1, <2>3, KeepsArchived DEF Safe
  <2>4. Safe(checkpoint.cursor)' BY <2>2, <2>3 DEF Safe
  <2>5. Safe(run[w].cursor)'
    <3>1. CASE Orderly
      <4>1. run[w].cursor = checkpoint.cursor BY <1>3, <3>1, Alone
      <4> QED BY <1>4, <2>2, <2>3, <4>1 DEF Safe
    <3>2. CASE late = {}
      <4>1. \A r \in OnTime : r <= run[w].cursor => Archived(r) BY <1>3, <2>1 DEF KRun, Safe
      <4>2. \A r \in OnTime : Archived(r) => Archived(r)' BY <1>1, <1>2, <3>2, KeepsArchived
      <4>3. PICK c : c = run[w].cursor OBVIOUS
      <4> QED BY <1>4, <2>2, <4>1, <4>2, <4>3 DEF Safe
    <3> QED BY <3>1, <3>2
  <2>6. KRun(w)'
    <3>1. run'[w].cursor = run[w].cursor BY <1>4
    <3>2. Working(w)' => Safe(run[w].cursor)' BY <1>4, <2>5 DEF Safe
    <3>3. ASSUME Sent(w)', NEW r \in run[w].page PROVE Archived(r)'
      <4>1. pc = "manifest" BY <1>4, <3>3 DEF Sent
      <4> QED BY <1>1, <3>3, <4>1 DEF PutAs, Archived, Body
    <3> QED BY <1>4, <3>2, <3>3 DEF KRun
  <2>7. ASSUME NEW v \in Workers \ {w} PROVE KRun(v)'
    <3>1. run'[v] = run[v] BY <1>4
    <3>2. CASE Orderly
      <4>1. ~Working(v) /\ ~Sent(v) BY <1>3, <3>2, Alone
      <4> QED BY <3>1, <4>1 DEF KRun, Working, Sent, Paged, At
    <3>3. CASE late = {}
      <4>1. \A r \in OnTime : Archived(r) => Archived(r)' BY <1>1, <1>2, <3>3, KeepsArchived
      <4>2. KRun(v) BY <2>1
      <4> QED BY <2>2, <3>1, <4>1, <4>2 DEF KRun, Safe, Working, Sent, Paged, At
    <3> QED BY <3>2, <3>3
  <2> QED BY <2>4, <2>6, <2>7
<1> QED BY <1>8, <1>9, <1>10 DEF NInv

LEMMA PutManifestKeeps ==
  ASSUME TInv, LInv, NInv, NEW w \in Workers, PutManifest(w)
  PROVE  NInv'
<1>1. /\ Paged(w) /\ Working(w) /\ UNCHANGED <<clock, data, checkpoint, objects, seen>>
      /\ manifests' = Stored(manifests, run[w].key, Body(w))
  BY DEF PutManifest, At, Working, Paged
<1>2. /\ run[w].key \in DOMAIN manifests' /\ manifests'[run[w].key] = Body(w)
      /\ \A k \in DOMAIN manifests : k \in DOMAIN manifests' /\ (k # run[w].key => manifests'[k] = manifests[k])
  BY <1>1 DEF Stored
<1>3. /\ \/ run'[w].pc = "release" /\ run'[w].cursor = 0
         \/ /\ At(w, "manifest") /\ run'[w].pc = "readback" /\ run'[w].page = run[w].page
            /\ run'[w].key = run[w].key /\ run'[w].cursor = run[w].cursor /\ run'[w].now = run[w].now
      /\ \A v \in Workers \ {w} : run'[v] = run[v]
  <2>1. run[w] \in Runs /\ run \in [Workers -> Runs] BY DEF TInv, TypeOK
  <2>2. Leaving(w).pc = "release" /\ Leaving(w).cursor = 0 BY DEF Leaving, Bare
  <2> DEFINE change == [run[w] EXCEPT !.pc = "readback"]
  <2>3. /\ change.pc = "readback" /\ change.page = run[w].page /\ change.key = run[w].key
        /\ change.cursor = run[w].cursor /\ change.now = run[w].now
    BY <2>1 DEF Runs
  <2>4. CASE At(w, "orphan")
    <3>1. Goes(w, Leaving(w)) BY <2>4 DEF PutManifest
    <3> QED BY <2>1, <2>2, <3>1 DEF Goes
  <2>5. CASE ~At(w, "orphan")
    <3>1. Goes(w, change) /\ At(w, "manifest") BY <2>5 DEF PutManifest
    <3> HIDE DEF change
    <3> QED BY <2>1, <2>3, <3>1 DEF Goes
  <2> QED BY <2>4, <2>5
<1>4. \A S, k : Batch(S, k) => Batch(S, k)' BY <1>1 DEF Batch, Settled, OnTime, data
<1>5. \A S, c : Follows(S, c) => Follows(S, c)' BY <1>1 DEF Follows, OnTime, data
<1>6. \A c : Cursor(c) => Cursor(c)' BY <1>1 DEF Cursor, Settled, data
<1>7. \A r : Archived(r)' <=> Archived(r) BY <1>1 DEF Archived
<1>8. MInv'
  <2>1. \A k \in DOMAIN objects' : Batch(objects[k].rows, k)'
    BY <1>1 DEF NInv, MInv, Batch, OnTime, Settled, data
  <2>2. Cursor(checkpoint.cursor)' BY <1>1, <1>6 DEF NInv, MInv
  <2>3. ASSUME NEW v \in Workers PROVE MRun(v)'
    <3>1. MRun(v) BY DEF NInv, MInv
    <3>2. CASE v = w
      <4>1. CASE run'[w].pc = "release" /\ run'[w].cursor = 0 BY <3>2, <4>1 DEF MRun, Paged, Cursor
      <4>2. CASE run'[w].page = run[w].page /\ run'[w].key = run[w].key /\ run'[w].cursor = run[w].cursor
        BY <1>1, <1>4, <1>5, <1>6, <3>1, <3>2, <4>2 DEF MRun
      <4> QED BY <1>3, <4>1, <4>2
    <3>3. CASE v # w
      <4>1. run'[v] = run[v] BY <1>3, <3>3
      <4> QED BY <1>4, <1>5, <1>6, <3>1, <4>1 DEF MRun, Paged
    <3> QED BY <3>2, <3>3
  <2> QED BY <2>1, <2>2, <2>3 DEF MInv
<1>9. OInv'
  <2> SUFFICES ASSUME Orderly' PROVE (OMark /\ \A v \in Workers : ORun(v))' BY DEF OInv
  <2>1. Orderly BY <1>1 DEF Orderly, seen
  <2>2. /\ \A v \in Workers \ {w} : ~Working(v) /\ ~Sent(v) /\ ~Paged(v)
        /\ run[w].cursor = checkpoint.cursor /\ run[w].key.first > checkpoint.cursor
    BY <1>1, <2>1, Alone
  <2>3. OMark'
    <3>1. OMark BY <2>1 DEF NInv, OInv
    <3>2. SUFFICES ASSUME checkpoint.cursor # 0
          PROVE  checkpoint.key \in DOMAIN manifests' /\ manifests'[checkpoint.key] = checkpoint.body
      BY <1>1, <3>1 DEF OMark
    <3>3. checkpoint.key \in DOMAIN manifests /\ checkpoint.key.first <= checkpoint.cursor
      BY <3>1, <3>2 DEF OMark
    <3>4. checkpoint.key.first \in Int /\ checkpoint.cursor \in Int
      <4>1. checkpoint.key.first \in Rows /\ checkpoint.cursor \in Rows \union {0}
        BY <3>3 DEF TInv, TypeOK, Keys, Evidence
      <4> QED BY <4>1, RowsAreNumbers
    <3>5. checkpoint.key # run[w].key BY <2>2, <3>3, <3>4
    <3> QED BY <1>2, <3>1, <3>2, <3>3, <3>5 DEF OMark
  <2>4. ORun(w)'
    <3>1. CASE run'[w].pc = "release" BY <3>1 DEF ORun, Working, Paged, Sent, At
    <3>2. CASE At(w, "manifest") /\ run'[w].pc = "readback" /\ run'[w].page = run[w].page
               /\ run'[w].key = run[w].key /\ run'[w].cursor = run[w].cursor /\ run'[w].now = run[w].now
      <4>1. objects[run[w].key] = Body(w) BY <2>1, <3>2 DEF NInv, OInv, ORun, Sent, At
      <4> QED BY <1>1, <1>2, <2>2, <3>2, <4>1 DEF ORun, Body
    <3> QED BY <1>3, <3>1, <3>2
  <2>5. ASSUME NEW v \in Workers \ {w} PROVE ORun(v)'
    <3>1. run'[v] = run[v] BY <1>3
    <3> QED BY <2>2, <3>1 DEF ORun, Working, Sent, Paged, At
  <2> QED BY <2>3, <2>4, <2>5
<1>10. KInv'
  <2> SUFFICES ASSUME Orderly \/ late = {}
               PROVE  (Safe(checkpoint.cursor) /\ \A v \in Workers : KRun(v))'
    BY <1>1 DEF KInv, Orderly, seen, data
  <2>1. Safe(checkpoint.cursor) /\ (\A v \in Workers : KRun(v)) BY DEF NInv, KInv
  <2>2. OnTime' = OnTime /\ checkpoint' = checkpoint BY <1>1 DEF OnTime, data
  <2>3. Safe(checkpoint.cursor)' BY <1>7, <2>1, <2>2 DEF Safe
  <2>4. ASSUME NEW v \in Workers PROVE KRun(v)'
    <3>1. CASE run'[v] = run[v]
      BY <1>7, <2>1, <2>2, <3>1 DEF KRun, Safe, Working, Sent, Paged, At
    <3>2. CASE run'[v].pc = "release" BY <3>2 DEF KRun, Working, Sent, Paged, At
    <3>3. CASE v = w /\ At(w, "manifest") /\ run'[w].page = run[w].page /\ run'[w].cursor = run[w].cursor
      <4>1. Sent(w) BY <3>3 DEF Sent, At
      <4> QED BY <1>1, <1>7, <2>1, <2>2, <3>3, <4>1 DEF KRun, Safe
    <3> QED BY <1>3, <3>1, <3>2, <3>3
  <2> QED BY <2>3, <2>4
<1> QED BY <1>8, <1>9, <1>10 DEF NInv

LEMMA AdvanceKeeps ==
  ASSUME TInv, LInv, NInv, NEW w \in Workers, Advance(w)
  PROVE  NInv'
<1>1. Paged(w) /\ Sent(w) /\ Working(w) /\ UNCHANGED <<clock, data, store, seen>>
  BY DEF Advance, At, Working, Paged, Sent
<1>2. PICK c : c = Max(run[w].page) OBVIOUS
<1>3. checkpoint' = [cursor |-> c, key |-> run[w].key, body |-> Body(w)] BY <1>2 DEF Advance
<1>4. /\ \/ run'[w].pc = "release" /\ run'[w].cursor = 0
         \/ run'[w].pc = "page" /\ run'[w].cursor = c
      /\ \A v \in Workers \ {w} : run'[v] = run[v]
  <2>1. run[w] \in Runs /\ run \in [Workers -> Runs] BY DEF TInv, TypeOK
  <2>2. Leaving(w).pc = "release" /\ Leaving(w).cursor = 0 BY DEF Leaving, Bare
  <2> DEFINE change == [run[w] EXCEPT !.pc = "page", !.cursor = c, !.round = @ + 1,
                                      !.page = {}, !.key = NoKey]
  <2>3. change.pc = "page" /\ change.cursor = c BY <2>1 DEF Runs
  <2>4. Goes(w, change) \/ Goes(w, Leaving(w)) BY <1>2 DEF Advance
  <2> HIDE DEF change
  <2> QED BY <2>1, <2>2, <2>3, <2>4 DEF Goes
<1>5. /\ run[w].page \subseteq Rows /\ run[w].page # {} /\ run[w].key \in DOMAIN objects
      /\ run[w].key \in DOMAIN manifests
  BY <1>1 DEF TInv, TypeOK, Runs, HasPage, Advance, At
<1>6. c \in run[w].page /\ (\A r \in run[w].page : r <= c) /\ c \in Rows BY <1>2, <1>5, LastRow
<1>7. Batch(run[w].page, run[w].key) /\ Follows(run[w].page, run[w].cursor)
  BY <1>1 DEF NInv, MInv, MRun
<1>8. MInv'
  <2>1. \A k \in DOMAIN objects' : Batch(objects[k].rows, k)'
    BY <1>1 DEF NInv, MInv, Batch, OnTime, Settled, store, data
  <2>2. Settled(c)' BY <1>1, <1>6, <1>7 DEF Batch, Settled
  <2>3. Cursor(checkpoint.cursor)' BY <1>3, <2>2 DEF Cursor, Settled
  <2>4. MRun(w)' BY <1>4, <2>2 DEF MRun, Cursor, Settled, Paged
  <2>5. ASSUME NEW v \in Workers \ {w} PROVE MRun(v)'
    <3>1. run'[v] = run[v] BY <1>4
    <3>2. MRun(v) BY DEF NInv, MInv
    <3> QED BY <1>1, <3>1, <3>2 DEF MRun, Cursor, Settled, Batch, Follows, OnTime, Paged, data
  <2> QED BY <2>1, <2>3, <2>4, <2>5 DEF MInv
<1>9. OInv'
  <2> SUFFICES ASSUME Orderly' PROVE (OMark /\ \A v \in Workers : ORun(v))' BY DEF OInv
  <2>1. Orderly BY <1>1 DEF Orderly, seen
  <2>2. ORun(w) /\ \A v \in Workers \ {w} : ~Working(v) /\ ~Sent(v) /\ ~Paged(v)
    BY <1>1, <2>1, Alone DEF NInv, OInv
  <2>3. objects[run[w].key] = Body(w) /\ manifests[run[w].key] = Body(w)
    BY <1>1, <2>2 DEF ORun, Advance, At
  <2>4. run[w].key.first <= c BY <1>6, <1>7 DEF Batch
  <2>5. OMark' BY <1>1, <1>3, <1>5, <2>3, <2>4 DEF OMark, store
  <2>6. ORun(w)' BY <1>3, <1>4 DEF ORun, Working, Sent, Paged, At
  <2>7. ASSUME NEW v \in Workers \ {w} PROVE ORun(v)'
    <3>1. run'[v] = run[v] BY <1>4
    <3> QED BY <2>2, <3>1 DEF ORun, Working, Sent, Paged, At
  <2> QED BY <2>5, <2>6, <2>7
<1>10. KInv'
  <2> SUFFICES ASSUME Orderly \/ late = {}
               PROVE  (Safe(checkpoint.cursor) /\ \A v \in Workers : KRun(v))'
    BY <1>1 DEF KInv, Orderly, seen, data
  <2>1. \A v \in Workers : KRun(v) BY DEF NInv, KInv
  <2>2. OnTime' = OnTime /\ \A r : Archived(r)' <=> Archived(r)
    BY <1>1 DEF OnTime, Archived, data, store
  <2>3. ASSUME NEW r \in OnTime, r <= c PROVE Archived(r)
    <3>1. CASE r <= run[w].cursor BY <1>1, <2>1, <3>1 DEF KRun, Safe
    <3>2. CASE ~(r <= run[w].cursor)
      <4>1. r \in Rows /\ run[w].cursor \in Rows \union {0} BY DEF OnTime, TInv, TypeOK, Runs
      <4>2. run[w].cursor < r BY <3>2, <4>1, RowsAreNumbers
      <4>3. r \in run[w].page BY <1>6, <1>7, <2>3, <4>2 DEF Follows
      <4> QED BY <1>1, <2>1, <4>3 DEF KRun
    <3> QED BY <3>1, <3>2
  <2>4. Safe(checkpoint.cursor)' BY <1>3, <2>2, <2>3 DEF Safe
  <2>5. KRun(w)' BY <1>4, <2>2, <2>3 DEF KRun, Safe, Working, Sent, Paged, At
  <2>6. ASSUME NEW v \in Workers \ {w} PROVE KRun(v)'
    <3>1. run'[v] = run[v] BY <1>4
    <3> QED BY <2>1, <2>2, <3>1 DEF KRun, Safe, Working, Sent, Paged, At
  <2> QED BY <2>4, <2>5, <2>6
<1> QED BY <1>8, <1>9, <1>10 DEF NInv

\* A row that comes, and time that passes, leave what the cursors have passed alone.
LEMMA WorldKeeps ==
  ASSUME TInv, NInv, Tick \/ \E r \in Rows : Insert(r)
  PROVE  NInv'
<1>1. UNCHANGED <<checkpoint, store, run, restarted>> /\ (exposed => exposed') /\ late \subseteq late'
  <2>1. CASE Tick
    <3>1. UNCHANGED <<checkpoint, store, run, restarted, late>> BY <2>1 DEF Tick, data
    <3>2. exposed => exposed' BY <2>1 DEF Tick
    <3> QED BY <3>1, <3>2
  <2>2. ASSUME NEW r \in Rows, Insert(r)
        PROVE  UNCHANGED <<checkpoint, store, run, restarted, exposed>> /\ late \subseteq late'
    BY <2>2 DEF Insert, seen
  <2> QED BY <2>1, <2>2
<1>2. \A w \in Workers : run[w].cursor \in Rows \union {0} BY DEF TInv, TypeOK, Runs
<1>3. checkpoint.cursor \in Rows \union {0} BY DEF TInv, TypeOK, Evidence
<1>4. ASSUME NEW c \in Rows \union {0}, Cursor(c)
      PROVE  Cursor(c)' /\ \A r \in OnTime' : r <= c => r \in OnTime
  <2>1. CASE c = 0
    <3>1. OnTime' \subseteq Rows BY DEF Tick, Insert, data, OnTime, TInv, TypeOK
    <3> QED BY <2>1, <3>1, RowsAreNumbers DEF Cursor
  <2>2. CASE c # 0 /\ Tick
    <3>1. clock' = clock + 1 /\ OnTime' = OnTime BY <2>2 DEF Tick, data, OnTime
    <3>2. CollectedAt[c] \in Int /\ clock \in Int /\ Eligibility \in Int
      BY <2>2, ArchiveConstants, Sizes DEF ArchiveConstants, TInv, TypeOK
    <3> QED BY <1>4, <3>1, <3>2 DEF Cursor, Settled
  <2>3. ASSUME c # 0, NEW r \in Rows, Insert(r) PROVE Cursor(c)' /\ \A q \in OnTime' : q <= c => q \in OnTime
    <3>1. c \in Rows /\ Settled(c) BY <1>4, <2>3 DEF Cursor
    <3>2. /\ OnTime' = OnTime \/ (OnTime' = OnTime \union {r} /\ c < r)
          /\ Settled(c)'
      BY <2>3, <3>1, NewRowsSortLast
    <3>3. c \in Int /\ r \in Int BY <3>1, RowsAreNumbers
    <3> QED BY <3>2, <3>3 DEF Cursor
  <2> QED BY <2>1, <2>2, <2>3
<1>5. MInv'
  <2>1. ASSUME NEW k \in DOMAIN objects' PROVE Batch(objects[k].rows, k)'
    <3>1. PICK S : S = objects[k].rows OBVIOUS
    <3>2. objects' = objects BY <1>1 DEF store
    <3>3. Batch(S, k) BY <3>1, <3>2 DEF NInv, MInv
    <3>4. Batch(S, k)' BY <3>3, BatchKept
    <3> QED BY <3>1, <3>2, <3>4 DEF Batch
  <2>2. Cursor(checkpoint.cursor)' BY <1>1, <1>3, <1>4 DEF NInv, MInv, Cursor, Settled
  <2>3. ASSUME NEW w \in Workers PROVE MRun(w)'
    <3>1. MRun(w) /\ run'[w] = run[w] BY <1>1 DEF NInv, MInv
    <3>2. PICK c : c = run[w].cursor OBVIOUS
    <3>3. Cursor(c)' BY <1>2, <1>4, <3>1, <3>2 DEF MRun
    <3>4. ASSUME Paged(w) PROVE Batch(run[w].page, run[w].key)' /\ Follows(run[w].page, run[w].cursor)'
      <4>1. PICK S : S = run[w].page OBVIOUS
      <4>2. PICK k : k = run[w].key OBVIOUS
      <4>3. Batch(S, k) /\ Follows(S, c) BY <3>1, <3>2, <3>4, <4>1, <4>2 DEF MRun
      <4>4. Batch(S, k)' /\ Follows(S, c)' BY <4>3, BatchKept, FollowsKept
      <4> QED BY <3>1, <3>2, <4>1, <4>2, <4>4 DEF Batch, Follows
    <3> QED BY <3>1, <3>2, <3>3, <3>4 DEF MRun, Paged, Cursor, Settled
  <2> QED BY <2>1, <2>2, <2>3 DEF MInv
<1>6. OInv'
  <2> SUFFICES ASSUME Orderly' PROVE (OMark /\ \A w \in Workers : ORun(w))' BY DEF OInv
  <2>1. Orderly BY <1>1 DEF Orderly
  <2>2. OMark /\ \A w \in Workers : ORun(w) BY <2>1 DEF NInv, OInv
  <2> QED BY <1>1, <2>2 DEF OMark, ORun, Working, Paged, Sent, At, Body, store
<1>7. KInv'
  <2> SUFFICES ASSUME (Orderly \/ late = {})'
               PROVE  (Safe(checkpoint.cursor) /\ \A w \in Workers : KRun(w))'
    BY DEF KInv
  <2>1. Orderly \/ late = {} BY <1>1 DEF Orderly
  <2>2. Safe(checkpoint.cursor) /\ (\A w \in Workers : KRun(w)) BY <2>1 DEF NInv, KInv
  <2>3. \A r : Archived(r)' <=> Archived(r) BY <1>1 DEF Archived, store
  <2>4. ASSUME NEW c \in Rows \union {0}, Cursor(c), Safe(c)
        PROVE  \A r \in OnTime' : r <= c => Archived(r)'
    BY <1>4, <2>3, <2>4 DEF Safe
  <2>5. Safe(checkpoint.cursor)' BY <1>1, <1>3, <2>2, <2>4 DEF Safe, NInv, MInv
  <2>6. ASSUME NEW w \in Workers PROVE KRun(w)'
    <3>1. run'[w] = run[w] /\ KRun(w) /\ Cursor(run[w].cursor) BY <1>1, <2>2 DEF NInv, MInv, MRun
    <3>2. PICK c \in Rows \union {0} : c = run[w].cursor BY <1>2
    <3>3. Working(w) => \A r \in OnTime' : r <= c => Archived(r)' BY <2>4, <3>1, <3>2 DEF KRun
    <3>4. ASSUME Sent(w), NEW r \in run[w].page \intersect OnTime' PROVE Archived(r)'
      <4>1. run[w].page \subseteq rows BY <3>4 DEF NInv, MInv, MRun, Paged, Sent, Batch
      <4>2. r \in OnTime BY <1>1, <3>4, <4>1 DEF OnTime
      <4> QED BY <2>3, <3>1, <3>4, <4>2 DEF KRun
    <3> QED BY <3>1, <3>2, <3>3, <3>4 DEF KRun, Safe, Working, Paged, Sent, At
  <2> QED BY <2>5, <2>6
<1> QED BY <1>5, <1>6, <1>7 DEF NInv

LEMMA PassedStep == TInv /\ LInv /\ NInv /\ [Next]_vars => NInv'
<1> SUFFICES ASSUME TInv, LInv, NInv, [Next]_vars PROVE NInv' OBVIOUS
<1>0. run \in [Workers -> Runs] /\ \A v \in Workers : run[v] \in Runs BY DEF TInv, TypeOK
<1>1. ASSUME NEW w \in Workers, Start(w) PROVE NInv'
  <2> DEFINE change == [Bare("acquire", clock) EXCEPT !.read = lease]
  <2>1. change.pc = "acquire" /\ change.cursor = 0 BY DEF Bare
  <2>2. Goes(w, change) /\ UNCHANGED <<clock, data, store, checkpoint>> /\ (Orderly' => Orderly)
    BY <1>1 DEF Start, Orderly, seen
  <2> HIDE DEF change
  <2> QED BY <2>1, <2>2, IdleFrame
<1>2. ASSUME NEW w \in Workers, TakeLease(w) PROVE NInv'
  <2> DEFINE change == [run[w] EXCEPT !.pc = "checkpoint", !.read = NoLease]
  <2>1. change.pc = "checkpoint" /\ change.cursor = run[w].cursor BY <1>0 DEF Runs
  <2>2. Goes(w, change) /\ UNCHANGED <<clock, data, store, checkpoint>> BY <1>2 DEF TakeLease
  <2>3. Orderly' => Orderly BY <1>2 DEF TakeLease, Orderly
  <2> HIDE DEF change
  <2> QED BY <2>1, <2>2, <2>3, IdleFrame
<1>3. ASSUME NEW w \in Workers, ReadHolder(w) PROVE NInv'
  <2> DEFINE change == [run[w] EXCEPT !.pc = "free"]
  <2>1. change.pc = "free" /\ change.cursor = run[w].cursor BY <1>0 DEF Runs
  <2>2. Nowhere.pc = "idle" /\ Nowhere.cursor = 0 BY DEF Nowhere, Bare
  <2>3. Goes(w, change) \/ Goes(w, Nowhere) BY <1>3 DEF ReadHolder
  <2>4. UNCHANGED <<clock, data, store, checkpoint>> /\ (Orderly' => Orderly)
    BY <1>3 DEF ReadHolder, Orderly, seen
  <2> HIDE DEF change
  <2> QED BY <2>1, <2>2, <2>3, <2>4, IdleFrame
<1>4. ASSUME NEW w \in Workers, FreeLease(w) \/ Gone(w) PROVE NInv'
  <2>1. Nowhere.pc = "idle" /\ Nowhere.cursor = 0 BY DEF Nowhere, Bare
  <2>2. Goes(w, Nowhere) /\ UNCHANGED <<clock, data, store, checkpoint>> /\ (Orderly' => Orderly)
    BY <1>4 DEF FreeLease, Gone, Orderly, seen
  <2> QED BY <2>1, <2>2, IdleFrame
<1>5. ASSUME NEW w \in Workers, ReadCheckpoint(w) PROVE NInv'
  <2>1. PICK c \in {checkpoint.cursor, 0} :
          /\ Goes(w, [run[w] EXCEPT !.pc = "page", !.cursor = c])
          /\ restarted' = (restarted \/ c # checkpoint.cursor)
    BY <1>5 DEF ReadCheckpoint
  <2> DEFINE change == [run[w] EXCEPT !.pc = "page", !.cursor = c]
  <2>2. change.pc = "page" /\ change.cursor = c BY <1>0 DEF Runs
  <2>3. Goes(w, change) BY <2>1
  <2>4. run'[w] = change BY <1>0, <2>3 DEF Goes
  <2>5. UNCHANGED <<clock, data, store, checkpoint>> /\ exposed' = exposed BY <1>5 DEF ReadCheckpoint
  <2> HIDE DEF change
  <2>6. /\ Orderly' => Orderly
        /\ Orderly' => c = checkpoint.cursor
    BY <2>1, <2>5 DEF Orderly
  <2>7. ~Paged(w)' /\ ~Sent(w)' BY <2>2, <2>4 DEF Paged, Sent
  <2>8. MRun(w)' BY <2>1, <2>2, <2>4, <2>5, <2>7 DEF MRun, Cursor, Settled, NInv, MInv
  <2>9. Orderly' => ORun(w)' BY <2>2, <2>4, <2>5, <2>6, <2>7 DEF ORun, Sent
  <2>10. ASSUME Orderly' \/ late = {} PROVE KRun(w)'
    <3>1. Safe(checkpoint.cursor) BY <2>6, <2>10 DEF NInv, KInv
    <3>2. Safe(0)
      <4>1. \A r \in OnTime : r \in Rows BY DEF OnTime, TInv, TypeOK
      <4> QED BY <4>1, RowsAreNumbers DEF Safe
    <3>3. \A r \in OnTime : r <= c => Archived(r) BY <2>1, <3>1, <3>2 DEF Safe
    <3>4. OnTime' = OnTime /\ \A r : Archived(r)' <=> Archived(r)
      BY <2>5 DEF OnTime, Archived, data, store
    <3>5. Safe(run[w].cursor)' BY <2>2, <2>4, <3>3, <3>4 DEF Safe
    <3> QED BY <2>7, <3>5 DEF KRun
  <2> QED BY <2>3, <2>5, <2>6, <2>8, <2>9, <2>10, RunFrame
<1>6. \A w : Leaving(w).pc = "release" /\ Leaving(w).cursor = 0 BY DEF Leaving, Bare
<1>7. ASSUME NEW w \in Workers, ReadPage(w) PROVE NInv'
  <2>0. UNCHANGED <<clock, data, store, checkpoint>> /\ (Orderly' => Orderly) /\ At(w, "page")
    BY <1>7 DEF ReadPage, Orderly, seen
  <2>1. CASE Page(w) = {}
    <3>1. Goes(w, Leaving(w)) BY <1>7, <2>1 DEF ReadPage
    <3> QED BY <1>6, <2>0, <3>1, IdleFrame
  <2>2. CASE Page(w) # {}
    <3>1. PICK P : P = Page(w) OBVIOUS
    <3>2. PICK k : k = Key(w) OBVIOUS
    <3>3. PICK c : c = run[w].cursor OBVIOUS
    <3> DEFINE change == [run[w] EXCEPT !.pc = "object", !.page = P, !.key = k]
    <3>4. Goes(w, change) BY <1>7, <2>2, <3>1, <3>2 DEF ReadPage
    <3>5. change.pc = "object" /\ change.page = P /\ change.key = k /\ change.cursor = c
      BY <1>0, <3>3 DEF Runs
    <3>6. run'[w] = change BY <1>0, <3>4 DEF Goes
    <3> HIDE DEF change
    <3>7. Batch(P, k) /\ Follows(P, c) BY <2>2, <3>1, <3>2, <3>3, PageIsBatch
    <3>8. MRun(w)'
      <4>1. Batch(P, k)' /\ Follows(P, c)' BY <2>0, <3>7 DEF Batch, Follows, Settled, OnTime, data
      <4>2. Cursor(c)' BY <2>0, <3>3 DEF NInv, MInv, MRun, Cursor, Settled
      <4> QED BY <3>5, <3>6, <4>1, <4>2 DEF MRun, Batch, Follows, Cursor, Settled
    <3>9. Working(w) /\ ~Sent(w)' BY <2>0, <3>5, <3>6 DEF Working, Sent
    <3>10. Orderly' => ORun(w)'
      BY <2>0, <3>3, <3>5, <3>6, <3>9 DEF ORun, Sent, NInv, OInv
    <3>11. ASSUME Orderly' \/ late = {} PROVE KRun(w)'
      <4>1. Safe(run[w].cursor) BY <2>0, <3>9, <3>11 DEF NInv, KInv, KRun
      <4> QED BY <2>0, <3>3, <3>5, <3>6, <3>9, <4>1 DEF KRun, Safe, OnTime, Archived, data, store
    <3> QED BY <2>0, <3>4, <3>8, <3>10, <3>11, RunFrame
  <2> QED BY <2>1, <2>2
<1>8. ASSUME NEW w \in Workers, Readback(w) PROVE NInv'
  <2>0. UNCHANGED <<clock, data, store, checkpoint>> /\ (Orderly' => Orderly) /\ At(w, "readback")
    BY <1>8 DEF Readback, Orderly, seen
  <2>1. CASE Goes(w, Leaving(w)) BY <1>6, <2>0, <2>1, IdleFrame
  <2>2. CASE Goes(w, [run[w] EXCEPT !.pc = "advance"])
    <3> DEFINE change == [run[w] EXCEPT !.pc = "advance"]
    <3>1. /\ change.pc = "advance" /\ change.page = run[w].page /\ change.key = run[w].key
          /\ change.cursor = run[w].cursor /\ change.now = run[w].now
      BY <1>0 DEF Runs
    <3>2. run'[w] = change BY <1>0, <2>2 DEF Goes
    <3> HIDE DEF change
    <3>3. Paged(w) /\ Sent(w) /\ Working(w) BY <2>0 DEF Paged, Sent, Working, At
    <3>4. MRun(w)'
      BY <2>0, <3>1, <3>2, <3>3 DEF NInv, MInv, MRun, Batch, Follows, Cursor, Settled, OnTime, data
    <3>5. Orderly' => ORun(w)'
      BY <2>0, <3>1, <3>2, <3>3 DEF NInv, OInv, ORun, Body, At, store
    <3>6. Orderly' \/ late = {} => KRun(w)'
      BY <2>0, <3>1, <3>2, <3>3 DEF NInv, KInv, KRun, Safe, OnTime, Archived, data, store
    <3> QED BY <2>0, <2>2, <3>4, <3>5, <3>6, RunFrame
  <2> QED BY <1>8, <2>1, <2>2 DEF Readback
<1>9. ASSUME NEW w \in Workers, Fail(w) PROVE NInv'
  <2>1. Goes(w, Leaving(w)) /\ UNCHANGED <<clock, data, store, checkpoint>> /\ (Orderly' => Orderly)
    BY <1>9 DEF Fail, Orderly, seen
  <2> QED BY <1>6, <2>1, IdleFrame
<1>10. CASE UNCHANGED vars
  <2>1. MInv'
    BY <1>10 DEF NInv, MInv, MRun, Batch, Follows, Cursor, Settled, OnTime, Paged, vars, data, store
  <2>2. OInv' BY <1>10 DEF NInv, OInv, Orderly, OMark, ORun, Working, Paged, Sent, At, Body, vars, store, seen
  <2>3. KInv'
    BY <1>10 DEF NInv, KInv, Orderly, KRun, Safe, Archived, OnTime, Working, Paged, Sent, At, vars, data,
                 store, seen
  <2> QED BY <2>1, <2>2, <2>3 DEF NInv
<1> QED
  BY <1>1, <1>2, <1>3, <1>4, <1>5, <1>7, <1>8, <1>9, <1>10, PutObjectKeeps, PutManifestKeeps,
     AdvanceKeeps, WorldKeeps DEF Next

LEMMA PassedInit == Init => NInv
<1> SUFFICES ASSUME Init PROVE NInv OBVIOUS
<1>1. \A w \in Workers : run[w] = Nowhere BY DEF Init
<1>2. Nowhere.pc = "idle" /\ Nowhere.cursor = 0 BY DEF Nowhere, Bare
<1>3. checkpoint.cursor = 0 /\ DOMAIN objects = {} /\ rows \subseteq Rows BY DEF Init
<1>4. \A w \in Workers : ~Working(w) /\ ~Sent(w) /\ ~Paged(w) BY <1>1, <1>2 DEF Working, Sent, Paged, At
<1>5. MInv BY <1>1, <1>2, <1>3, <1>4 DEF MInv, MRun, Cursor
<1>6. OInv BY <1>3, <1>4 DEF OInv, OMark, ORun, Sent
<1>7. Safe(checkpoint.cursor) BY <1>3, RowsAreNumbers DEF Safe, OnTime
<1>8. KInv BY <1>4, <1>7 DEF KInv, KRun
<1> QED BY <1>5, <1>6, <1>8 DEF NInv

LEMMA PassedInvariant == Spec => [](TInv /\ LInv /\ NInv)
<1>1. TInv /\ LInv /\ [Next]_vars => LInv' BY LeaseStep
<1>2. TInv /\ LInv /\ NInv /\ [Next]_vars => NInv' BY PassedStep
<1> QED BY <1>1, <1>2, LeaseInit, PassedInit, TypeInvariant, PTL DEF Spec

\* Whatever the cursor has passed in time is in R2, under any interleaving of runs as long
\* as no row comes late, and with late rows as long as the runs keep apart and go on.
THEOREM PassedStaysArchived == Spec => []PassedIsArchived
<1>1. TInv /\ NInv => PassedIsArchived
  BY DEF NInv, KInv, Safe, PassedIsArchived, Passed, OnTime
<1> QED BY <1>1, PassedInvariant, PTL

\* The object that the checkpoint names and its manifest are what the checkpoint says.
THEOREM EvidenceStays == Spec => []CheckpointVerifies
<1>1. TInv /\ NInv => CheckpointVerifies
  <2> SUFFICES ASSUME NInv, Orderly, checkpoint.cursor > 0, TInv
               PROVE  LET k == checkpoint.key IN
                      k \in DOMAIN manifests /\ objects[k] = checkpoint.body /\ manifests[k] = checkpoint.body
    BY DEF CheckpointVerifies
  <2>1. checkpoint.cursor # 0 OBVIOUS
  <2> QED BY <2>1 DEF NInv, OInv, OMark
<1> QED BY <1>1, PassedInvariant, PTL

\* Orderly runs never move the cursor back.
THEOREM CursorOnlyAdvances == Spec => CursorAdvances
<1> DEFINE Forward == Orderly' => checkpoint'.cursor >= checkpoint.cursor
<1>1. TInv /\ LInv /\ NInv /\ [Next]_vars => [Forward]_vars
  <2> SUFFICES ASSUME TInv, LInv, NInv, [Next]_vars, Orderly'
               PROVE  checkpoint'.cursor >= checkpoint.cursor
    OBVIOUS
  <2>1. ASSUME NEW w \in Workers, Advance(w) PROVE checkpoint'.cursor >= checkpoint.cursor
    <3>1. Paged(w) /\ Working(w) /\ Orderly /\ checkpoint'.cursor = Max(run[w].page)
      BY <2>1 DEF Advance, At, Paged, Working, Orderly, seen
    <3>2. run[w].page \subseteq Rows /\ run[w].page # {} BY <3>1 DEF TInv, TypeOK, Runs, HasPage
    <3>3. PICK c : c = Max(run[w].page) OBVIOUS
    <3>4. c \in run[w].page /\ c \in Rows BY <3>2, <3>3, LastRow
    <3>5. run[w].cursor < c /\ run[w].cursor = checkpoint.cursor
      BY <3>1, <3>4, Alone DEF NInv, MInv, MRun, Follows
    <3>6. c \in Int /\ checkpoint.cursor \in Int
      <4>1. checkpoint.cursor \in Rows \union {0} BY DEF TInv, TypeOK, Evidence
      <4> QED BY <3>4, <4>1, RowsAreNumbers
    <3> QED BY <3>1, <3>3, <3>5, <3>6
  <2>2. CASE checkpoint' = checkpoint
    <3>1. checkpoint.cursor \in Rows \union {0} BY DEF TInv, TypeOK, Evidence
    <3> QED BY <2>2, <3>1, RowsAreNumbers
  <2>3. checkpoint' = checkpoint \/ \E w \in Workers : Advance(w)
    BY DEF Next, vars, Start, TakeLease, ReadHolder, FreeLease, ReadCheckpoint, ReadPage, PutObject,
           PutManifest, Readback, Fail, Gone, Insert, Tick
  <2> QED BY <2>1, <2>2, <2>3
<1> QED BY <1>1, PassedInvariant, PTL DEF Spec, CursorAdvances
=============================================================================
