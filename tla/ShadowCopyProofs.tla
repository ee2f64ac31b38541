--------------------------- MODULE ShadowCopyProofs ---------------------------
(* Type correctness of the shadow copy, what a parity receipt means and what a *)
(* replay that ends has covered, for any callers, rows, pages and bounds.      *)
EXTENDS ShadowCopy, FiniteSetTheorems, WellFoundedInduction, TLAPS

LEMMA Sizes ==
  /\ NRows \in Nat /\ MaxWrites \in Nat /\ MaxFaults \in Nat
  /\ PageSize \in Nat \ {0} /\ MaxPages \in Nat \ {0} /\ BatchSize \in Nat \ {0}
BY CopyConstants DEF CopyConstants

LEMMA RowsAreNumbers == \A r \in Rows : r \in Nat /\ r \in Int /\ r > 0 /\ r \in 0..NRows
BY Sizes DEF Rows
-----------------------------------------------------------------------------
(* Numbers and pages *)

LEMMA LeastOf ==
  ASSUME NEW S, S \subseteq Nat, S # {}
  PROVE  \E m \in S : \A n \in S : m <= n
<1> DEFINE R == OpToRel(<, Nat)
<1>1. \A m, n \in Nat : m < n => <<m, n>> \in R BY DEF OpToRel
<1>2. IsWellFoundedOn(R, Nat) BY NatLessThanWellFounded
<1> HIDE DEF R
<1>3. PICK m \in S : \A n \in S : ~(<<n, m>> \in R) BY <1>2, WFMin
<1>4. \A n \in S : ~(n < m) BY <1>1, <1>3
<1> QED BY <1>4

LEMMA GreatestOf ==
  ASSUME NEW k \in Nat, NEW S, S \subseteq 0..k, S # {}
  PROVE  Max(S) \in S /\ \A n \in S : n <= Max(S)
<1> DEFINE T == {k - n : n \in S}
<1>1. T \subseteq Nat /\ T # {}
  <2>1. ASSUME NEW n \in S PROVE k - n \in Nat OBVIOUS
  <2> QED BY <2>1
<1>2. PICK m \in T : \A n \in T : m <= n BY <1>1, LeastOf
<1>3. PICK l \in S : m = k - l OBVIOUS
<1>4. ASSUME NEW n \in S PROVE l >= n
  <2>1. k - n \in T OBVIOUS
  <2>2. k - l <= k - n BY <1>2, <1>3, <2>1
  <2>3. l \in Nat /\ n \in Nat OBVIOUS
  <2> QED BY <2>2, <2>3
<1>5. Max(S) \in S /\ \A n \in S : Max(S) >= n BY <1>4 DEF Max
<1>6. \A n \in S : n \in Nat OBVIOUS
<1> QED BY <1>5, <1>6

LEMMA RowsFinite ==
  ASSUME NEW S, S \subseteq Rows
  PROVE  IsFiniteSet(S) /\ Cardinality(S) \in Nat
<1>1. IsFiniteSet(1..NRows) BY Sizes, FS_Interval
<1>2. IsFiniteSet(S) BY <1>1, FS_Subset DEF Rows
<1> QED BY <1>2, FS_CardinalityType

\* The first k rows of a set are an initial part of it, and all of it if they are fewer.
LEMMA FirstIsInitial ==
  ASSUME NEW S, S \subseteq Rows, NEW k \in Nat \ {0}
  PROVE  /\ First(S, k) \subseteq S
         /\ \A r \in S, q \in First(S, k) : r <= q => r \in First(S, k)
         /\ S # {} => First(S, k) # {}
         /\ Cardinality(First(S, k)) < k => First(S, k) = S
<1> DEFINE Upto(r) == {q \in S : q <= r}
           F == First(S, k)
<1>0. \A r \in S : r \in Nat /\ Upto(r) \subseteq Rows BY RowsAreNumbers
<1>1. F \subseteq S /\ \A r \in S : r \in F <=> Cardinality(Upto(r)) <= k BY DEF First
<1> HIDE DEF F
<1>2. ASSUME NEW r \in S, NEW q \in F, r <= q PROVE r \in F
  <2>0. q \in S BY <1>1
  <2>1. Upto(r) \subseteq Upto(q)
    <3>1. ASSUME NEW x \in S, x <= r PROVE x <= q BY <1>0, <1>2, <2>0, <3>1
    <3> QED BY <3>1
  <2>2. Cardinality(Upto(r)) <= Cardinality(Upto(q)) BY <1>0, <2>0, <2>1, RowsFinite, FS_Subset
  <2>3. Cardinality(Upto(r)) \in Nat /\ Cardinality(Upto(q)) \in Nat BY <1>0, <2>0, RowsFinite
  <2> QED BY <1>1, <2>0, <2>2, <2>3
\* The least row beyond F would be the row after all of F.
<1>3. ASSUME NEW m \in S, m \notin F, \A n \in S : n \notin F => m <= n
      PROVE  Upto(m) = F \union {m} /\ Cardinality(Upto(m)) = Cardinality(F) + 1
  <2>1. ASSUME NEW q \in Upto(m), q # m PROVE q \in F
    <3>1. q \in S /\ q <= m BY <2>1
    <3>2. q \notin F => m <= q BY <1>3, <3>1
    <3>3. q \in Nat /\ m \in Nat BY <1>0, <3>1
    <3> QED BY <2>1, <3>1, <3>2, <3>3
  <2>2. ASSUME NEW q \in F PROVE q \in Upto(m)
    <3>1. q \in S /\ q \in Nat /\ m \in Nat BY <1>0, <1>1
    <3>2. ~(m <= q) BY <1>2, <1>3
    <3> QED BY <3>1, <3>2
  <2>3. Upto(m) = F \union {m} BY <1>0, <2>1, <2>2
  <2>4. IsFiniteSet(F) BY <1>1, RowsFinite
  <2> QED BY <1>3, <2>3, <2>4, FS_AddElement
<1>4. ASSUME F # S
      PROVE  \E m \in S : m \notin F /\ \A n \in S : n \notin F => m <= n
  <2>1. S \ F # {} /\ S \ F \subseteq Nat BY <1>0, <1>1, <1>4
  <2>2. PICK m \in S \ F : \A n \in S \ F : m <= n BY <2>1, LeastOf
  <2> QED BY <2>2
<1>5. ASSUME S # {} PROVE F # {}
  <2>1. SUFFICES ASSUME F = {} PROVE FALSE OBVIOUS
  <2>2. PICK m \in S : m \notin F /\ \A n \in S : n \notin F => m <= n BY <1>4, <1>5, <2>1
  <2>3. Cardinality(Upto(m)) = Cardinality(F) + 1 BY <1>3, <2>2
  <2>4. Cardinality(F) = 0 BY <2>1, FS_EmptySet
  <2>5. Cardinality(Upto(m)) <= k BY <2>3, <2>4
  <2> QED BY <1>1, <2>2, <2>5
<1>6. ASSUME Cardinality(F) < k PROVE F = S
  <2>1. SUFFICES ASSUME F # S PROVE FALSE OBVIOUS
  <2>2. PICK m \in S : m \notin F /\ \A n \in S : n \notin F => m <= n BY <1>4, <2>1
  <2>3. Cardinality(Upto(m)) = Cardinality(F) + 1 BY <1>3, <2>2
  <2>4. Cardinality(F) \in Nat BY <1>1, RowsFinite
  <2>5. Cardinality(Upto(m)) <= k BY <1>6, <2>3, <2>4
  <2> QED BY <1>1, <2>2, <2>5
<1> QED BY <1>1, <1>2, <1>5, <1>6 DEF F

LEMMA TableFacts ==
  ASSUME NEW table \in Tables
  PROVE  /\ Held(table) \subseteq Rows /\ Cardinality(Held(table)) \in Nat
         /\ Latest(table) \in Stamps /\ \A r \in Rows : table[r] <= Latest(table)
<1>1. Held(table) \subseteq Rows BY DEF Held
<1> DEFINE S == {table[r] : r \in Rows} \union {0}
<1>2. S \subseteq 0..MaxWrites /\ S # {} BY Sizes DEF Tables, Stamps
<1>3. Max(S) \in S /\ \A n \in S : n <= Max(S) BY <1>2, Sizes, GreatestOf
<1> QED BY <1>1, <1>2, <1>3, RowsFinite DEF Latest, Stamps
-----------------------------------------------------------------------------
(* Types *)

\* What the fields of a pass say to each other.
Sound(j) ==
  /\ j.pc \in {"idle", "rewind", "mark"} => j.cursor = 0
  /\ j.pc \in {"idle", "marker", "count", "fresh", "rewind", "mark"} => j.pages = 0
  /\ j.pc = "page" => j.pages < MaxPages
  /\ j.pc = "put" => /\ j.pages < MaxPages /\ Held(j.page) # {}
                     /\ j.end = "more" => j.pages + 1 < MaxPages
  /\ j.pc \in {"finish", "clear"} => j.page = Empty
  /\ j.pc = "clear" => j.end = "exhausted"
TInv == TypeOK /\ \A w \in Callers : Sound(job[w])

LEMMA AtRest == Empty \in Tables /\ Held(Empty) = {} /\ Idle \in Jobs /\ Sound(Idle)
<1>1. Empty \in Tables /\ Held(Empty) = {} BY Sizes DEF Empty, Tables, Stamps, Held
<1>2. Idle \in Jobs BY <1>1, Sizes DEF Idle, Jobs, Numbers
<1>3. Sound(Idle) BY DEF Idle, Sound
<1> QED BY <1>1, <1>2, <1>3

LEMMA OneJob ==
  ASSUME TypeOK, NEW w \in Callers, NEW change, Goes(w, change)
  PROVE  /\ change \in Jobs => job' \in [Callers -> Jobs]
         /\ job'[w] = change /\ \A v \in Callers \ {w} : job'[v] = job[v]
BY DEF Goes, TypeOK

LEMMA FaultTyped ==
  ASSUME TypeOK, NEW bad \in BOOLEAN, Faulty(bad) \/ UNCHANGED faults
  PROVE  faults' \in 0..MaxFaults
BY Sizes DEF Faulty, TypeOK

\* When a pass or a check begins alone nothing that is observed changes.
LEMMA Beginning ==
  ASSUME TypeOK, Begins
  PROVE  /\ overlapped' \in BOOLEAN /\ kept' \in BOOLEAN /\ due' \in Tables /\ receipt' \subseteq Rows
         /\ ~overlapped' => ~Running /\ UNCHANGED seen
         /\ UNCHANGED due \/ due' = Empty
<1>1. CASE Running
  <2>1. overlapped' = TRUE /\ kept' = FALSE /\ due' = Empty /\ receipt' = {} BY <1>1 DEF Begins
  <2> QED BY <2>1, AtRest
<1>2. CASE ~Running
  <2>1. UNCHANGED seen BY <1>2 DEF Begins
  <2> QED BY <1>2, <2>1 DEF seen, TypeOK
<1> QED BY <1>1, <1>2

Observed ==
  overlapped \in BOOLEAN /\ kept \in BOOLEAN /\ due \in Tables /\ receipt \subseteq Rows
MetaTyped == cursor \in Rows \union {0} /\ replay \in BOOLEAN

LEMMA StepTyped ==
  ASSUME TInv, NEW w \in Callers, NEW change \in Jobs, Goes(w, change), Sound(change),
         UNCHANGED primary, shard' \in Tables, MetaTyped', Observed', faults' \in 0..MaxFaults,
         UNCHANGED audit
  PROVE  TInv'
<1>1. TypeOK /\ \A v \in Callers : Sound(job[v]) BY DEF TInv
<1>2. /\ job' \in [Callers -> Jobs] /\ job'[w] = change
      /\ \A v \in Callers \ {w} : job'[v] = job[v]
  BY <1>1, OneJob
<1>3. TypeOK' BY <1>1, <1>2 DEF TypeOK, MetaTyped, Observed
<1>4. ASSUME NEW v \in Callers PROVE Sound(job'[v])
  <2>1. CASE v = w BY <1>2, <2>1
  <2>2. CASE v # w BY <1>1, <1>2, <2>2
  <2> QED BY <2>1, <2>2
<1>5. \A v \in Callers : Sound(job[v])' BY <1>4 DEF Sound, Held, Empty
<1> QED BY <1>3, <1>5 DEF TInv

LEMMA PlannedTyped ==
  ASSUME NEW j \in Jobs, j.pc \in {"count", "fresh"}, Sound(j)
  PROVE  /\ Planned(j) \in Jobs /\ Sound(Planned(j))
         /\ Planned(j).pc \in {j.pc, "fresh", "rewind", "page"}
         /\ Planned(j).cursor \in {j.cursor, 0} /\ Planned(j).page = j.page
<1>0. j.pages = 0 BY DEF Sound
<1>1. CASE Unread \in {j.n, j.m} BY <1>1 DEF Planned
<1> DEFINE known == [j EXCEPT !.n = Unread, !.m = Unread]
<1>2. /\ known \in Jobs /\ known.cursor = j.cursor /\ known.pages = 0 /\ known.page = j.page
  BY <1>0 DEF Jobs, Numbers
<1> HIDE DEF known
<1>3. ASSUME Unread \notin {j.n, j.m}
      PROVE  \/ Planned(j) = [known EXCEPT !.pc = "rewind", !.cursor = 0, !.replay = TRUE]
             \/ \E pc \in {"fresh", "page"} : Planned(j) = [known EXCEPT !.pc = pc]
  BY <1>3 DEF Planned, known
<1>4. CASE Planned(j) = [known EXCEPT !.pc = "rewind", !.cursor = 0, !.replay = TRUE]
  <2>1. /\ Planned(j) \in Jobs /\ Planned(j).pc = "rewind" /\ Planned(j).cursor = 0
        /\ Planned(j).pages = 0 /\ Planned(j).page = j.page
    BY <1>2, <1>4 DEF Jobs
  <2> QED BY <2>1 DEF Sound
<1>5. ASSUME NEW pc \in {"fresh", "page"}, Planned(j) = [known EXCEPT !.pc = pc]
      PROVE  /\ Planned(j) \in Jobs /\ Planned(j).pc = pc /\ Planned(j).cursor = j.cursor
             /\ Planned(j).pages = 0 /\ Planned(j).page = j.page
  BY <1>2, <1>5 DEF Jobs
<1>6. ASSUME NEW pc \in {"fresh", "page"}, Planned(j) = [known EXCEPT !.pc = pc]
      PROVE  Sound(Planned(j))
  BY <1>5, <1>6, Sizes DEF Sound
<1> QED BY <1>1, <1>3, <1>4, <1>5, <1>6

\* What the page query returns, and what the pass makes of it.
LEMMA PageFacts ==
  ASSUME TypeOK, NEW w \in Callers
  PROVE  /\ Page(w) \subseteq Held(primary) /\ Page(w) \subseteq Rows
         /\ \A r \in Held(primary), q \in Page(w) :
              r > job[w].cursor /\ r <= q => r \in Page(w)
         /\ End(w) = "exhausted" =>
              \A r \in Held(primary) : r > job[w].cursor => r \in Page(w)
         /\ End(w) \in {"more", "cut", "exhausted"}
         /\ End(w) = "more" => job[w].pages + 1 # MaxPages
<1>1. PICK D : D = {r \in Held(primary) : r > job[w].cursor} OBVIOUS
<1>2. D \subseteq Rows /\ D \subseteq Held(primary) BY <1>1 DEF Held
<1>3. Page(w) = First(D, PageSize) BY <1>1 DEF Page
<1>4. /\ First(D, PageSize) \subseteq D
      /\ \A r \in D, q \in First(D, PageSize) : r <= q => r \in First(D, PageSize)
      /\ Cardinality(First(D, PageSize)) < PageSize => First(D, PageSize) = D
  BY <1>2, Sizes, FirstIsInitial
<1>5. /\ End(w) \in {"more", "cut", "exhausted"}
      /\ End(w) = "more" => job[w].pages + 1 # MaxPages
      /\ End(w) = "exhausted" => Cardinality(Page(w)) < PageSize
  BY DEF End
<1> QED BY <1>1, <1>2, <1>3, <1>4, <1>5

PageRead(w) == [r \in Rows |-> IF r \in Page(w) THEN primary[r] ELSE 0]
LEMMA ReadFacts ==
  ASSUME TInv, NEW w \in Callers, ReadPage(w)
  PROVE  /\ PageRead(w) \in Tables /\ Held(PageRead(w)) = Page(w)
         /\ \E change \in Jobs :
              /\ Goes(w, change) /\ Sound(change)
              /\ change.pc \in {"put", "finish"} /\ change.cursor = job[w].cursor
              /\ change.page = PageRead(w) /\ change.end = End(w)
<1>1. TypeOK /\ job[w] \in Jobs /\ Sound(job[w]) /\ job[w].pc = "page"
  BY DEF TInv, TypeOK, ReadPage, At
<1>2. /\ Page(w) \subseteq Held(primary) /\ Page(w) \subseteq Rows
      /\ End(w) \in {"more", "cut", "exhausted"}
      /\ End(w) = "more" => job[w].pages + 1 # MaxPages
  BY <1>1, PageFacts
<1>3. \A r \in Rows : primary[r] \in Stamps /\ (r \in Page(w) => primary[r] > 0)
  BY <1>1, <1>2 DEF TypeOK, Tables, Held
<1>4. PageRead(w) \in Tables BY <1>3, Sizes DEF PageRead, Tables, Stamps
<1>5. Held(PageRead(w)) = Page(w)
  <2>1. \A r \in Rows : PageRead(w)[r] > 0 <=> r \in Page(w) BY <1>3 DEF PageRead
  <2> QED BY <1>2, <2>1 DEF Held
<1>6. PICK pc : pc = IF Page(w) = {} THEN "finish" ELSE "put" OBVIOUS
<1>7. PICK table : table = PageRead(w) OBVIOUS
<1>8. PICK e : e = End(w) OBVIOUS
<1> DEFINE change == [job[w] EXCEPT !.pc = pc, !.page = table, !.end = e]
<1>9. Goes(w, change) BY <1>6, <1>7, <1>8 DEF ReadPage, PageRead
<1>10. /\ change \in Jobs /\ change.pc = pc /\ change.cursor = job[w].cursor
       /\ change.page = table /\ change.end = e /\ change.pages = job[w].pages
  BY <1>1, <1>2, <1>4, <1>6, <1>7, <1>8 DEF Jobs
<1>11. Sound(change)
  <2>1. job[w].pages < MaxPages /\ job[w].pages \in Nat BY <1>1 DEF Sound, Jobs
  <2>2. Page(w) = {} => table = Empty BY <1>7 DEF PageRead, Empty
  <2>3. Held(table) = Page(w) BY <1>5, <1>7
  <2> QED BY <1>2, <1>6, <1>8, <1>10, <2>1, <2>2, <2>3, Sizes DEF Sound
<1> QED BY <1>4, <1>5, <1>6, <1>7, <1>8, <1>9, <1>10, <1>11

\* A write puts the first rows of the page, in order, and with the last ones moves the cursor.
Rest(w) == [r \in Rows |-> IF r \in Batch(w) THEN 0 ELSE job[w].page[r]]
LEMMA PutFacts ==
  ASSUME TInv, NEW w \in Callers, Put(w)
  PROVE  /\ Batch(w) \subseteq Held(job[w].page) /\ Batch(w) \subseteq Rows
         /\ shard' = [r \in Rows |-> IF r \in Batch(w) THEN job[w].page[r] ELSE shard[r]]
         /\ shard' \in Tables /\ Rest(w) \in Tables
         /\ \E change \in Jobs :
              /\ Goes(w, change) /\ Sound(change)
              /\ change.page = Rest(w) /\ change.end = job[w].end
              /\ \/ change.pc = "put" /\ change.cursor = job[w].cursor
                 \/ /\ change.pc \in {"page", "finish"} /\ Held(job[w].page) = Batch(w)
                    /\ change.pc = "page" => job[w].end = "more"
                    /\ change.cursor \in Batch(w)
                    /\ \A r \in Batch(w) : r <= change.cursor
<1>1. TypeOK /\ job[w] \in Jobs /\ Sound(job[w]) /\ job[w].pc = "put"
  BY DEF TInv, TypeOK, Put, At
<1>2. PICK P : P = job[w].page OBVIOUS
<1>3. P \in Tables /\ Held(P) \subseteq Rows /\ Held(P) # {} BY <1>1, <1>2 DEF Jobs, Sound, Held
<1>4. PICK B : B = Batch(w) OBVIOUS
<1>5. B = First(Held(P), BatchSize) BY <1>2, <1>4 DEF Batch
<1>6. B \subseteq Held(P) /\ B # {} BY <1>3, <1>5, Sizes, FirstIsInitial
<1>7. PICK rest : rest = [r \in Rows |-> IF r \in B THEN 0 ELSE P[r]] OBVIOUS
<1>8. rest = Rest(w) BY <1>2, <1>4, <1>7 DEF Rest
<1>9. rest \in Tables BY <1>3, <1>7, Sizes DEF Tables, Stamps
<1>10. shard' = [r \in Rows |-> IF r \in B THEN P[r] ELSE shard[r]] BY <1>2, <1>4 DEF Put
<1>11. shard' \in Tables BY <1>1, <1>3, <1>10 DEF TypeOK, Tables
<1>12. PICK m : m = Max(B) OBVIOUS
<1>13. m \in B /\ \A r \in B : r <= m
  <2>1. B \subseteq 0..NRows BY <1>3, <1>6, RowsAreNumbers
  <2> QED BY <1>6, <1>12, <2>1, Sizes, GreatestOf
<1>14. Goes(w, IF rest # Empty THEN [job[w] EXCEPT !.page = rest]
               ELSE [job[w] EXCEPT !.pc = IF job[w].end = "more" THEN "page" ELSE "finish",
                                   !.page = rest, !.cursor = m, !.pages = @ + 1])
  BY <1>4, <1>8, <1>12 DEF Put, Rest
<1>15. job[w].pages \in Nat /\ job[w].pages < MaxPages BY <1>1 DEF Sound, Jobs
<1>16. /\ Batch(w) \subseteq Held(job[w].page) /\ Batch(w) \subseteq Rows
       /\ shard' = [r \in Rows |-> IF r \in Batch(w) THEN job[w].page[r] ELSE shard[r]]
       /\ shard' \in Tables /\ Rest(w) \in Tables
  BY <1>2, <1>3, <1>4, <1>6, <1>8, <1>9, <1>10, <1>11
<1>17. CASE rest # Empty
  <2> DEFINE change == [job[w] EXCEPT !.page = rest]
  <2>1. /\ change \in Jobs /\ change.pc = "put" /\ change.cursor = job[w].cursor
        /\ change.page = rest /\ change.end = job[w].end /\ change.pages = job[w].pages
    BY <1>1, <1>9 DEF Jobs
  <2>2. Held(rest) # {}
    <3>1. PICK r \in Rows : rest[r] # 0 BY <1>7, <1>17 DEF Empty
    <3>2. rest[r] > 0 BY <1>9, <3>1, Sizes DEF Tables, Stamps
    <3> QED BY <3>2 DEF Held
  <2>3. Sound(change) BY <1>1, <2>1, <2>2 DEF Sound
  <2>4. Goes(w, change) BY <1>14, <1>17
  <2>5. change.page = Rest(w) BY <1>8, <2>1
  <2> HIDE DEF change
  <2> QED BY <1>16, <2>1, <2>3, <2>4, <2>5
<1>18. CASE rest = Empty
  <2>1. PICK pc : pc = IF job[w].end = "more" THEN "page" ELSE "finish" OBVIOUS
  <2> DEFINE change == [job[w] EXCEPT !.pc = pc, !.page = rest, !.cursor = m, !.pages = @ + 1]
  <2>2. m \in Rows /\ job[w].pages + 1 \in 0..MaxPages BY <1>3, <1>6, <1>13, <1>15, Sizes
  <2>3. /\ change \in Jobs /\ change.pc = pc /\ change.cursor = m
        /\ change.page = rest /\ change.end = job[w].end /\ change.pages = job[w].pages + 1
    BY <1>1, <1>9, <2>1, <2>2 DEF Jobs
  <2>4. Sound(change) BY <1>1, <1>18, <2>1, <2>3 DEF Sound
  <2>5. Goes(w, change) BY <1>14, <1>18, <2>1
  <2>6. Held(P) = B
    <3>1. ASSUME NEW r \in Held(P) PROVE r \in B
      <4>1. r \in Rows /\ P[r] > 0 BY <3>1 DEF Held
      <4>2. Empty[r] = 0 BY <4>1 DEF Empty
      <4> QED BY <1>7, <1>18, <4>1, <4>2
    <3> QED BY <1>6, <3>1
  <2>7. change.pc = "page" => job[w].end = "more" BY <2>1, <2>3
  <2>8. change.pc \in {"page", "finish"} BY <2>1, <2>3
  <2>9. Held(job[w].page) = Batch(w) /\ change.cursor \in Batch(w) /\ change.page = Rest(w)
    BY <1>2, <1>4, <1>8, <1>13, <2>3, <2>6
  <2>10. \A r \in Batch(w) : r <= change.cursor BY <1>4, <1>13, <2>3
  <2>11. change \in Jobs /\ change.end = job[w].end BY <2>3
  <2> HIDE DEF change
  <2> QED BY <1>16, <2>4, <2>5, <2>7, <2>8, <2>9, <2>10, <2>11
<1> QED BY <1>17, <1>18

\* The planning steps read two numbers and decide; what they do is Planned's.
LEMMA NumberFacts ==
  ASSUME TInv, NEW w \in Callers, ReadPrimary(w) \/ ReadShard(w)
  PROVE  /\ job[w].pc \in {"count", "fresh"} /\ UNCHANGED <<tables, meta, audit, seen>>
         /\ faults' \in 0..MaxFaults
         /\ \E change \in Jobs :
              /\ Goes(w, change) /\ Sound(change)
              /\ change.pc \in {"count", "fresh", "rewind", "page"}
              /\ change.cursor \in {job[w].cursor, 0} /\ change.page = job[w].page
<1>1. TypeOK /\ job[w] \in Jobs /\ Sound(job[w]) /\ primary \in Tables /\ shard \in Tables
  BY DEF TInv, TypeOK
<1>2. job[w].pc \in {"count", "fresh"} BY DEF ReadPrimary, ReadShard, At
<1>3. ASSUME NEW table \in Tables PROVE Number(w, table) \in Numbers
  <2>1. Latest(table) \in Nat /\ Cardinality(Held(table)) \in Nat
    BY TableFacts, Sizes DEF Stamps
  <2> QED BY <2>1 DEF Number, Numbers
<1>4. ASSUME NEW n \in Numbers
      PROVE  /\ [job[w] EXCEPT !.n = n] \in Jobs /\ Sound([job[w] EXCEPT !.n = n])
             /\ [job[w] EXCEPT !.n = n].pc = job[w].pc
             /\ [job[w] EXCEPT !.n = n].cursor = job[w].cursor
             /\ [job[w] EXCEPT !.n = n].page = job[w].page
  BY <1>1, <1>2 DEF Jobs, Sound
<1>5. ASSUME NEW m \in Numbers
      PROVE  /\ [job[w] EXCEPT !.m = m] \in Jobs /\ Sound([job[w] EXCEPT !.m = m])
             /\ [job[w] EXCEPT !.m = m].pc = job[w].pc
             /\ [job[w] EXCEPT !.m = m].cursor = job[w].cursor
             /\ [job[w] EXCEPT !.m = m].page = job[w].page
  BY <1>1, <1>2 DEF Jobs, Sound
<1>6. PICK known \in Jobs :
        /\ Goes(w, Planned(known)) /\ Sound(known) /\ known.pc = job[w].pc
        /\ known.cursor = job[w].cursor /\ known.page = job[w].page
  <2>1. Null \in Numbers BY DEF Numbers
  <2>2. PICK n, m : n = Number(w, primary) /\ m = Number(w, shard) OBVIOUS
  <2>3. n \in Numbers /\ m \in Numbers BY <1>1, <1>3, <2>2
  <2>4. \/ \E x \in {n, Null} : Goes(w, Planned([job[w] EXCEPT !.n = x]))
        \/ \E x \in {m, Null} : Goes(w, Planned([job[w] EXCEPT !.m = x]))
    BY <2>2 DEF ReadPrimary, ReadShard
  <2> QED BY <1>4, <1>5, <2>1, <2>3, <2>4
<1>7. PICK change : change = Planned(known) OBVIOUS
<1>8. /\ change \in Jobs /\ Sound(change) /\ change.pc \in {known.pc, "fresh", "rewind", "page"}
      /\ change.cursor \in {known.cursor, 0} /\ change.page = known.page
  BY <1>2, <1>6, <1>7, PlannedTyped
<1>9. faults' \in 0..MaxFaults BY <1>1, FaultTyped DEF ReadPrimary, ReadShard
<1>10. UNCHANGED <<tables, meta, audit, seen>> BY DEF ReadPrimary, ReadShard
<1> QED BY <1>2, <1>6, <1>7, <1>8, <1>9, <1>10

THEOREM TypeInvariant == Spec => []TInv
<1>1. Init => TInv
  <2> SUFFICES ASSUME Init PROVE TInv OBVIOUS
  <2>1. job \in [Callers -> Jobs] /\ \A w \in Callers : Sound(job[w]) BY AtRest DEF Init
  <2>2. audit \in [open : BOOLEAN, n : Nat \union {Null}, rows : SUBSET Rows] BY DEF Init, NoAudit
  <2>3. primary \in Tables /\ shard \in Tables /\ due \in Tables BY AtRest DEF Init
  <2>4. faults \in 0..MaxFaults BY Sizes DEF Init
  <2>5. cursor \in Rows \union {0} /\ replay \in BOOLEAN BY DEF Init
  <2>6. overlapped \in BOOLEAN /\ kept \in BOOLEAN /\ receipt \subseteq Rows BY DEF Init
  <2> QED BY <2>1, <2>2, <2>3, <2>4, <2>5, <2>6 DEF TInv, TypeOK
<1>2. TInv /\ [Next]_vars => TInv'
  <2> SUFFICES ASSUME TInv, [Next]_vars PROVE TInv' OBVIOUS
  <2>0. /\ TypeOK /\ MetaTyped /\ Observed /\ primary \in Tables /\ shard \in Tables
        /\ faults \in 0..MaxFaults /\ \A v \in Callers : job[v] \in Jobs /\ Sound(job[v])
    BY DEF TInv, TypeOK, MetaTyped, Observed
  <2>1. ASSUME NEW w \in Callers, Start(w) PROVE TInv'
    <3>1. PICK c \in {cursor, 0} :
            Faulty(c # cursor) /\ Goes(w, [Idle EXCEPT !.pc = "marker", !.cursor = c])
      BY <2>1 DEF Start
    <3> DEFINE change == [Idle EXCEPT !.pc = "marker", !.cursor = c]
    <3>2. c \in Rows \union {0} BY <2>0 DEF MetaTyped
    <3>3. change \in Jobs /\ change.pc = "marker" /\ change.pages = 0
      BY <3>2, AtRest DEF Idle, Jobs
    <3>4. Sound(change) BY <3>3 DEF Sound
    <3>5. faults' \in 0..MaxFaults BY <2>0, <3>1, FaultTyped
    <3>6. Observed' BY <2>0, <2>1, Beginning DEF Start, Observed
    <3> QED BY <2>0, <2>1, <3>1, <3>3, <3>4, <3>5, <3>6, StepTyped
        DEF Start, tables, meta, MetaTyped
  <2>2. ASSUME NEW w \in Callers, Rescan(w) PROVE TInv'
    <3> DEFINE change == [Idle EXCEPT !.pc = "page"]
    <3>1. change \in Jobs /\ change.pc = "page" /\ change.pages = 0 BY AtRest DEF Idle, Jobs
    <3>2. Sound(change) BY <3>1, Sizes DEF Sound
    <3>3. faults' \in 0..MaxFaults BY <2>0, <2>2, FaultTyped DEF Rescan
    <3>4. Observed' BY <2>0, <2>2, Beginning DEF Rescan, Observed
    <3> QED BY <2>0, <2>2, <3>1, <3>2, <3>3, <3>4, StepTyped DEF Rescan, tables, meta, MetaTyped
  <2>3. ASSUME NEW w \in Callers, ReadMarker(w) PROVE TInv'
    <3>1. PICK b \in {replay, FALSE} :
            Faulty(b # replay) /\ Goes(w, [job[w] EXCEPT !.pc = "count", !.replay = b])
      BY <2>3 DEF ReadMarker
    <3> DEFINE change == [job[w] EXCEPT !.pc = "count", !.replay = b]
    <3>2. b \in BOOLEAN BY <2>0 DEF MetaTyped
    <3>3. job[w] \in Jobs /\ Sound(job[w]) /\ job[w].pc = "marker" BY <2>0, <2>3 DEF ReadMarker, At
    <3>4. change \in Jobs /\ change.pc = "count" /\ change.pages = job[w].pages
      BY <3>2, <3>3 DEF Jobs
    <3>5. Sound(change) BY <3>3, <3>4 DEF Sound
    <3>6. faults' \in 0..MaxFaults BY <2>0, <3>1, FaultTyped
    <3> QED BY <2>0, <2>3, <3>1, <3>4, <3>5, <3>6, StepTyped
        DEF ReadMarker, tables, meta, seen, MetaTyped, Observed
  <2>4. ASSUME NEW w \in Callers, ReadPrimary(w) \/ ReadShard(w) PROVE TInv'
    <3>1. PICK change \in Jobs : Goes(w, change) /\ Sound(change) BY <2>4, NumberFacts
    <3>2. faults' \in 0..MaxFaults /\ UNCHANGED <<tables, meta, audit, seen>>
      BY <2>4, NumberFacts
    <3> QED BY <2>0, <3>1, <3>2, StepTyped DEF tables, meta, seen, MetaTyped, Observed
  <2>5. ASSUME NEW w \in Callers, Rewind(w) PROVE TInv'
    <3>1. PICK c \in {cursor, 0} :
            cursor' = c /\ Faulty(c # 0) /\ kept' = (~overlapped /\ c # 0)
      BY <2>5 DEF Rewind
    <3> DEFINE change == [job[w] EXCEPT !.pc = "mark"]
    <3>2. job[w] \in Jobs /\ Sound(job[w]) /\ job[w].pc = "rewind" BY <2>0, <2>5 DEF Rewind, At
    <3>3. /\ change \in Jobs /\ change.pc = "mark" /\ change.cursor = job[w].cursor
          /\ change.pages = job[w].pages
      BY <3>2 DEF Jobs
    <3>4. Sound(change) BY <3>2, <3>3 DEF Sound
    <3>5. faults' \in 0..MaxFaults BY <2>0, <3>1, FaultTyped
    <3>6. MetaTyped' BY <2>0, <2>5, <3>1 DEF Rewind, MetaTyped
    <3>7. Observed' BY <2>0, <2>5, <3>1 DEF Rewind, Observed
    <3> QED BY <2>0, <2>5, <3>3, <3>4, <3>5, <3>6, <3>7, StepTyped DEF Rewind, tables
  <2>6. ASSUME NEW w \in Callers, Mark(w) PROVE TInv'
    <3>1. PICK b \in {replay, TRUE} : replay' = b /\ Faulty(~b) BY <2>6 DEF Mark
    <3> DEFINE change == [job[w] EXCEPT !.pc = "page"]
    <3>2. job[w] \in Jobs /\ Sound(job[w]) /\ job[w].pc = "mark" BY <2>0, <2>6 DEF Mark, At
    <3>3. change \in Jobs /\ change.pc = "page" /\ change.pages = job[w].pages BY <3>2 DEF Jobs
    <3>4. Sound(change) BY <3>2, <3>3, Sizes DEF Sound
    <3>5. b \in BOOLEAN BY <2>0 DEF MetaTyped
    <3>6. faults' \in 0..MaxFaults BY <2>0, <3>1, <3>5, FaultTyped
    <3> QED BY <2>0, <2>6, <3>1, <3>3, <3>4, <3>5, <3>6, StepTyped
        DEF Mark, tables, seen, MetaTyped, Observed
  <2>7. ASSUME NEW w \in Callers, ReadPage(w) PROVE TInv'
    <3>1. PICK change \in Jobs : Goes(w, change) /\ Sound(change) BY <2>7, ReadFacts
    <3> QED BY <2>0, <2>7, <3>1, StepTyped DEF ReadPage, tables, meta, seen, MetaTyped, Observed
  <2>8. ASSUME NEW w \in Callers, Put(w) PROVE TInv'
    <3>1. PICK change \in Jobs : Goes(w, change) /\ Sound(change) BY <2>8, PutFacts
    <3>2. shard' \in Tables BY <2>8, PutFacts
    <3> QED BY <2>0, <2>8, <3>1, <3>2, StepTyped DEF Put, meta, seen, MetaTyped, Observed
  <2>9. ASSUME NEW w \in Callers, Finish(w) PROVE TInv'
    <3>1. job[w] \in Jobs /\ Sound(job[w]) /\ job[w].pc = "finish" BY <2>0, <2>9 DEF Finish, At
    <3>2. job[w].cursor \in Rows \union {0} BY <3>1 DEF Jobs
    <3>3. MetaTyped' BY <2>0, <2>9, <3>2 DEF Finish, MetaTyped
    <3>4. faults' \in 0..MaxFaults BY <2>0, <2>9, FaultTyped DEF Finish
    <3>5. CASE job[w].replay /\ job[w].end = "exhausted"
      <4> DEFINE change == [job[w] EXCEPT !.pc = "clear"]
      <4>1. /\ change \in Jobs /\ change.pc = "clear" /\ change.page = job[w].page
            /\ change.end = job[w].end
        BY <3>1 DEF Jobs
      <4>2. Sound(change) BY <3>1, <3>5, <4>1 DEF Sound
      <4>3. Goes(w, change) BY <2>9, <3>5 DEF Finish
      <4> QED BY <2>0, <2>9, <3>3, <3>4, <4>1, <4>2, <4>3, StepTyped
          DEF Finish, tables, seen, Observed
    <3>6. CASE ~(job[w].replay /\ job[w].end = "exhausted")
      <4>1. Goes(w, Idle) BY <2>9, <3>6 DEF Finish
      <4> QED BY <2>0, <2>9, <3>3, <3>4, <4>1, AtRest, StepTyped DEF Finish, tables, seen, Observed
    <3> QED BY <3>5, <3>6
  <2>10. ASSUME NEW w \in Callers, Clear(w) PROVE TInv'
    <3>1. PICK b \in {replay, FALSE} :
            replay' = b /\ Faulty(b) /\ due' = IF b THEN due ELSE Empty
      BY <2>10 DEF Clear
    <3>2. b \in BOOLEAN BY <2>0 DEF MetaTyped
    <3>3. faults' \in 0..MaxFaults BY <2>0, <3>1, <3>2, FaultTyped
    <3>4. Observed' BY <2>0, <2>10, <3>1, AtRest DEF Clear, Observed
    <3>5. MetaTyped' BY <2>0, <2>10, <3>1, <3>2 DEF Clear, MetaTyped
    <3>6. Goes(w, Idle) BY <2>10 DEF Clear
    <3> QED BY <2>0, <2>10, <3>3, <3>4, <3>5, <3>6, AtRest, StepTyped DEF Clear, tables
  <2>11. ASSUME NEW w \in Callers, Stop(w) PROVE TInv'
    <3>1. faults' \in 0..MaxFaults BY <2>0, <2>11, FaultTyped DEF Stop
    <3>2. Goes(w, Idle) BY <2>11 DEF Stop
    <3> QED BY <2>0, <2>11, <3>1, <3>2, AtRest, StepTyped
        DEF Stop, tables, meta, seen, MetaTyped, Observed
  <2>12. ASSUME CountPrimary PROVE TInv'
    <3>1. PICK n \in {Cardinality(Held(primary)), Null} :
            Faulty(n = Null) /\ audit' = [open |-> TRUE, n |-> n, rows |-> Held(primary)]
      BY <2>12 DEF CountPrimary
    <3>2. Cardinality(Held(primary)) \in Nat /\ Held(primary) \subseteq Rows
      BY <2>0, TableFacts
    <3>3. audit' \in [open : BOOLEAN, n : Nat \union {Null}, rows : SUBSET Rows] BY <3>1, <3>2
    <3>4. faults' \in 0..MaxFaults BY <2>0, <3>1, FaultTyped
    <3>5. Observed' BY <2>0, <2>12, Beginning DEF CountPrimary, Observed
    <3>6. TypeOK' BY <2>0, <2>12, <3>3, <3>4, <3>5 DEF CountPrimary, tables, meta, TypeOK, Observed
    <3> QED BY <2>0, <2>12, <3>6 DEF CountPrimary, TInv, Sound, Held, Empty
  <2>13. ASSUME CountShard PROVE TInv'
    <3>1. PICK m \in {Cardinality(Held(shard)), Null} :
            /\ Faulty(m = Null)
            /\ receipt' = IF Matches(audit.n, m) /\ ~overlapped THEN audit.rows ELSE receipt
      BY <2>13 DEF CountShard
    <3>2. receipt' \subseteq Rows BY <2>0, <3>1 DEF TypeOK
    <3>3. audit' \in [open : BOOLEAN, n : Nat \union {Null}, rows : SUBSET Rows]
      BY <2>13 DEF CountShard, NoAudit
    <3>4. faults' \in 0..MaxFaults BY <2>0, <3>1, FaultTyped
    <3>5. TypeOK' BY <2>0, <2>13, <3>2, <3>3, <3>4 DEF CountShard, tables, meta, TypeOK
    <3> QED BY <2>0, <2>13, <3>5 DEF CountShard, TInv, Sound, Held, Empty
  <2>14. ASSUME NEW r \in Rows, Write(r) PROVE TInv'
    <3>1. Latest(primary) + 1 \in Stamps
      <4>1. Latest(primary) \in Stamps BY <2>0, TableFacts
      <4> QED BY <2>14, <4>1, Sizes DEF Write, Stamps
    <3>2. primary' \in Tables BY <2>0, <2>14, <3>1 DEF Write, Tables
    <3>3. TypeOK' BY <2>0, <2>14, <3>2 DEF Write, meta, seen, TypeOK
    <3> QED BY <2>0, <2>14, <3>3 DEF Write, TInv, Sound, Held, Empty
  <2>15. CASE UNCHANGED vars
    BY <2>0, <2>15 DEF vars, tables, meta, seen, TInv, TypeOK, Sound, Held, Empty
  <2> QED BY <2>1, <2>2, <2>3, <2>4, <2>5, <2>6, <2>7, <2>8, <2>9, <2>10, <2>11, <2>12, <2>13,
             <2>14, <2>15 DEF Next, Copy
<1> QED BY <1>1, <1>2, PTL DEF Spec

\* The state is typed, whatever fails, overlaps or is written (TypeOK).
THEOREM TypesKept == Spec => []TypeOK
<1>1. TInv => TypeOK BY DEF TInv
<1> QED BY <1>1, TypeInvariant, PTL
-----------------------------------------------------------------------------
(* Copies are never newer than the primary, and passes that are alone *)

Below(table) == \A r \in Rows : table[r] <= primary[r]
BelowAll == Below(shard) /\ Below(due) /\ \A w \in Callers : Below(job[w].page)
Alone ==
  ~overlapped => /\ \A w, v \in Callers : ~At(w, "idle") /\ ~At(v, "idle") => w = v
                 /\ audit.open => \A w \in Callers : At(w, "idle")

LEMMA EmptyBelow == TypeOK => Below(Empty)
BY Sizes DEF Below, Empty, TypeOK, Tables, Stamps

\* A step of one pass keeps copies below the primary if what it writes is below.
LEMMA StepBelow ==
  ASSUME TypeOK, BelowAll, NEW w \in Callers, NEW change, Goes(w, change), UNCHANGED primary,
         Below(change.page), Below(shard)', Below(due)'
  PROVE  BelowAll'
<1>1. job'[w] = change /\ \A v \in Callers \ {w} : job'[v] = job[v] BY OneJob
<1>2. ASSUME NEW v \in Callers, NEW r \in Rows PROVE job'[v].page[r] <= primary'[r]
  <2>1. CASE v = w BY <1>1, <2>1 DEF Below
  <2>2. CASE v # w BY <1>1, <2>2 DEF Below, BelowAll
  <2> QED BY <2>1, <2>2
<1> QED BY <1>2 DEF Below, BelowAll

LEMMA KeepsBelow == TInv /\ BelowAll /\ [Next]_vars => BelowAll'
<1> SUFFICES ASSUME TInv, BelowAll, [Next]_vars PROVE BelowAll' OBVIOUS
<1>0. /\ TypeOK /\ Below(Empty) /\ Below(Idle.page) /\ \A v \in Callers : Below(job[v].page)
      /\ Below(shard) /\ Below(due)
  BY EmptyBelow DEF TInv, Idle, BelowAll
\* Most steps leave the page, the copies and the observed primary as they are, or drop them.
<1>1. ASSUME NEW w \in Callers, NEW change, Goes(w, change), UNCHANGED <<primary, shard>>,
             change.page = job[w].page \/ change.page = Empty, UNCHANGED due \/ due' = Empty
      PROVE  BelowAll'
  <2>1. Below(shard)' BY <1>0, <1>1 DEF Below
  <2>2. Below(due)' BY <1>0, <1>1 DEF Below
  <2>3. Below(change.page) BY <1>0, <1>1
  <2> QED BY <1>0, <1>1, <2>1, <2>2, <2>3, StepBelow
<1>2. ASSUME NEW w \in Callers, Start(w) \/ Rescan(w) PROVE BelowAll'
  <2>1. UNCHANGED due \/ due' = Empty BY <1>0, <1>2, Beginning DEF Start, Rescan
  <2>2. PICK c, pc : Goes(w, [Idle EXCEPT !.pc = pc, !.cursor = c])
                     \/ Goes(w, [Idle EXCEPT !.pc = pc])
    BY <1>2 DEF Start, Rescan
  <2>3. /\ [Idle EXCEPT !.pc = pc, !.cursor = c].page = Empty
        /\ [Idle EXCEPT !.pc = pc].page = Empty
    BY DEF Idle
  <2> QED BY <1>1, <1>2, <2>1, <2>2, <2>3 DEF Start, Rescan, tables
<1>3. ASSUME NEW w \in Callers, ReadMarker(w) \/ Mark(w) PROVE BelowAll'
  <2>1. job[w] \in Jobs BY <1>0 DEF TypeOK
  <2>2. PICK b, pc : Goes(w, [job[w] EXCEPT !.pc = pc, !.replay = b])
                     \/ Goes(w, [job[w] EXCEPT !.pc = pc])
    BY <1>3 DEF ReadMarker, Mark
  <2>3. /\ [job[w] EXCEPT !.pc = pc, !.replay = b].page = job[w].page
        /\ [job[w] EXCEPT !.pc = pc].page = job[w].page
    BY <2>1 DEF Jobs
  <2> QED BY <1>1, <1>3, <2>2, <2>3 DEF ReadMarker, Mark, tables, seen
<1>4. ASSUME NEW w \in Callers, ReadPrimary(w) \/ ReadShard(w) PROVE BelowAll'
  <2>1. PICK change \in Jobs : Goes(w, change) /\ change.page = job[w].page
    BY <1>4, NumberFacts
  <2>2. UNCHANGED <<tables, seen>> BY <1>4, NumberFacts
  <2> QED BY <1>1, <2>1, <2>2 DEF tables, seen
<1>5. ASSUME NEW w \in Callers, Rewind(w) PROVE BelowAll'
  <2> DEFINE change == [job[w] EXCEPT !.pc = "mark"]
  <2>1. job[w] \in Jobs BY <1>0 DEF TypeOK
  <2>2. change.page = job[w].page BY <2>1 DEF Jobs
  <2>3. Goes(w, change) /\ UNCHANGED <<primary, shard>> BY <1>5 DEF Rewind, tables
  <2>4. due' = primary \/ due' = due BY <1>5 DEF Rewind
  <2>5. \A r \in Rows : primary[r] <= primary[r]
    BY <1>0, Sizes DEF TypeOK, Tables, Stamps
  <2>6. Below(due)' BY <1>0, <2>3, <2>4, <2>5 DEF Below
  <2>7. Below(shard)' BY <1>0, <2>3 DEF Below
  <2> QED BY <1>0, <2>2, <2>3, <2>6, <2>7, StepBelow
<1>6. ASSUME NEW w \in Callers, ReadPage(w) PROVE BelowAll'
  <2>1. PICK change \in Jobs : Goes(w, change) /\ change.page = PageRead(w)
    BY <1>6, ReadFacts
  <2>2. UNCHANGED <<tables, due>> BY <1>6 DEF ReadPage, seen
  <2>3. Below(PageRead(w))
    BY <1>0, Sizes DEF PageRead, Below, TypeOK, Tables, Stamps
  <2>4. Below(shard)' /\ Below(due)' BY <1>0, <2>2 DEF Below, tables
  <2> QED BY <1>0, <2>1, <2>2, <2>3, <2>4, StepBelow DEF tables
<1>7. ASSUME NEW w \in Callers, Put(w) PROVE BelowAll'
  <2>1. PICK change \in Jobs : Goes(w, change) /\ change.page = Rest(w)
    BY <1>7, PutFacts
  <2>2. shard' = [r \in Rows |-> IF r \in Batch(w) THEN job[w].page[r] ELSE shard[r]]
    BY <1>7, PutFacts
  <2>3. UNCHANGED <<primary, due>> BY <1>7 DEF Put, seen
  <2>4. Below(shard)' BY <1>0, <2>2, <2>3 DEF Below
  <2>5. Below(due)' BY <1>0, <2>3 DEF Below
  <2>6. Below(Rest(w))
    <3>1. ASSUME NEW r \in Rows PROVE Rest(w)[r] <= primary[r]
      <4>1. Rest(w)[r] = job[w].page[r] \/ Rest(w)[r] = 0 BY DEF Rest
      <4>2. job[w].page[r] <= primary[r] /\ Empty[r] <= primary[r] /\ Empty[r] = 0
        BY <1>0 DEF Below, Empty
      <4> QED BY <4>1, <4>2
    <3> QED BY <3>1 DEF Below
  <2> QED BY <1>0, <2>1, <2>3, <2>4, <2>5, <2>6, StepBelow
<1>8. ASSUME NEW w \in Callers, Finish(w) \/ Clear(w) \/ Stop(w) PROVE BelowAll'
  <2>1. job[w] \in Jobs BY <1>0 DEF TypeOK
  <2>2. Goes(w, Idle) \/ Goes(w, [job[w] EXCEPT !.pc = "clear"])
    BY <1>8 DEF Finish, Clear, Stop
  <2>3. [job[w] EXCEPT !.pc = "clear"].page = job[w].page BY <2>1 DEF Jobs
  <2>4. UNCHANGED tables /\ (UNCHANGED due \/ due' = Empty)
    BY <1>8 DEF Finish, Clear, Stop, seen
  <2>5. Idle.page = Empty BY DEF Idle
  <2> QED BY <1>1, <2>2, <2>3, <2>4, <2>5 DEF tables
<1>9. ASSUME CountPrimary \/ CountShard PROVE BelowAll'
  <2>1. UNCHANGED due \/ due' = Empty
    BY <1>0, <1>9, Beginning DEF CountPrimary, CountShard
  <2>2. UNCHANGED <<tables, job>> BY <1>9 DEF CountPrimary, CountShard
  <2> QED BY <1>0, <2>1, <2>2 DEF Below, BelowAll, tables
<1>10. ASSUME NEW r \in Rows, Write(r) PROVE BelowAll'
  <2>1. UNCHANGED <<shard, due, job>> BY <1>10 DEF Write, seen
  <2>2. \A q \in Rows : primary[q] \in Nat /\ primary[q] <= Latest(primary)
    BY <1>0, TableFacts, Sizes DEF TypeOK, Tables, Stamps
  <2>3. Latest(primary) \in Nat BY <1>0, TableFacts, Sizes DEF TypeOK, Stamps
  <2>4. \A q \in Rows : primary[q] <= primary'[q]
    BY <1>0, <1>10, <2>2, <2>3 DEF Write, TypeOK, Tables
  <2>5. \A q \in Rows : primary'[q] \in Nat BY <1>0, <1>10, <2>2, <2>3 DEF Write, TypeOK, Tables
  <2>6. ASSUME NEW table \in Tables, Below(table) PROVE \A q \in Rows : table[q] <= primary'[q]
    <3>1. \A q \in Rows : table[q] \in Nat BY Sizes DEF Tables, Stamps
    <3> QED BY <2>2, <2>4, <2>5, <2>6, <3>1 DEF Below
  <2>7. shard \in Tables /\ due \in Tables /\ \A v \in Callers : job[v].page \in Tables
    BY <1>0 DEF TypeOK, Jobs
  <2>8. \A q \in Rows : shard[q] <= primary'[q] /\ due[q] <= primary'[q] BY <1>0, <2>6, <2>7
  <2>9. \A v \in Callers, q \in Rows : job[v].page[q] <= primary'[q] BY <1>0, <2>6, <2>7
  <2> QED BY <2>1, <2>8, <2>9 DEF Below, BelowAll
<1>11. CASE UNCHANGED vars BY <1>0, <1>11 DEF vars, tables, seen, Below, BelowAll
<1> QED BY <1>2, <1>3, <1>4, <1>5, <1>6, <1>7, <1>8, <1>9, <1>10, <1>11 DEF Next, Copy

LEMMA StepAlone ==
  ASSUME TypeOK, Alone, NEW w \in Callers, NEW change, ~At(w, "idle"), Goes(w, change),
         UNCHANGED <<audit, overlapped>>
  PROVE  Alone'
<1>1. \A v \in Callers \ {w} : job'[v] = job[v] BY OneJob
<1>2. ASSUME ~overlapped
      PROVE  ~audit.open /\ \A v \in Callers \ {w} : At(v, "idle")
  BY <1>2 DEF Alone
<1>3. \A v \in Callers \ {w} : At(v, "idle") => At(v, "idle")' BY <1>1 DEF At
<1> QED BY <1>2, <1>3 DEF Alone

LEMMA KeepsAlone == TInv /\ Alone /\ [Next]_vars => Alone'
<1> SUFFICES ASSUME TInv, Alone, [Next]_vars PROVE Alone' OBVIOUS
<1>0. TypeOK BY DEF TInv
<1>1. ASSUME NEW w \in Callers, Start(w) \/ Rescan(w) PROVE Alone'
  <2>1. ~overlapped' => ~Running BY <1>0, <1>1, Beginning DEF Start, Rescan
  <2>2. UNCHANGED audit BY <1>1 DEF Start, Rescan
  <2>3. \A v \in Callers \ {w} : job'[v] = job[v] BY <1>0, <1>1, OneJob DEF Start, Rescan
  <2>4. ASSUME ~Running
        PROVE  ~audit.open /\ \A v \in Callers \ {w} : At(v, "idle")'
    BY <2>3, <2>4 DEF Running, At
  <2> QED BY <2>1, <2>2, <2>4 DEF Alone
<1>2. ASSUME NEW w \in Callers,
             \/ ReadMarker(w) \/ Rewind(w) \/ Mark(w) \/ ReadPage(w)
             \/ Put(w) \/ Finish(w) \/ Clear(w) \/ Stop(w)
      PROVE  Alone'
  <2>1. ~At(w, "idle")
    BY <1>2 DEF ReadMarker, Rewind, Mark, ReadPage, Put, Finish, Clear, Stop, At
  <2>2. UNCHANGED <<audit, overlapped>>
    BY <1>2 DEF ReadMarker, Rewind, Mark, ReadPage, Put, Finish, Clear, Stop, seen
  <2>3. \E change : Goes(w, change)
    BY <1>2 DEF ReadMarker, Rewind, Mark, ReadPage, Put, Finish, Clear, Stop
  <2> QED BY <1>0, <2>1, <2>2, <2>3, StepAlone
<1>3. ASSUME NEW w \in Callers, ReadPrimary(w) \/ ReadShard(w) PROVE Alone'
  <2>1. PICK change \in Jobs : Goes(w, change) BY <1>3, NumberFacts
  <2>2. job[w].pc \in {"count", "fresh"} /\ UNCHANGED <<audit, overlapped>>
    BY <1>3, NumberFacts DEF seen
  <2> QED BY <1>0, <2>1, <2>2, StepAlone DEF At
<1>4. CASE CountPrimary
  <2>1. ~overlapped' => ~Running BY <1>0, <1>4, Beginning DEF CountPrimary
  <2>2. UNCHANGED job BY <1>4 DEF CountPrimary
  <2> QED BY <2>1, <2>2 DEF Alone, Running, At
<1>5. CASE CountShard
  <2>1. UNCHANGED <<job, overlapped>> /\ audit'.open = FALSE BY <1>5 DEF CountShard, NoAudit
  <2> QED BY <2>1 DEF Alone, At
<1>6. CASE UNCHANGED vars \/ \E r \in Rows : Write(r)
  <2>1. UNCHANGED <<job, audit, overlapped>> BY <1>6 DEF Write, vars, seen
  <2> QED BY <2>1 DEF Alone, At
<1> QED BY <1>1, <1>2, <1>3, <1>4, <1>5, <1>6 DEF Next, Copy
-----------------------------------------------------------------------------
(* Parity *)

\* While a check that is alone is open nothing is copied; what it counted is still there.
Counted ==
  ~overlapped =>
    /\ receipt \subseteq Held(shard)
    /\ audit.open => Held(shard) \subseteq audit.rows /\ audit.n \in {Cardinality(audit.rows), Null}

LEMMA StillCounted ==
  ASSUME Counted, UNCHANGED <<shard, audit, overlapped, receipt>> \/ UNCHANGED <<shard, audit, seen>>
  PROVE  Counted'
<1>1. Held(shard)' = Held(shard) BY DEF Held
<1> QED BY <1>1 DEF Counted, seen

LEMMA KeepsCounted == TInv /\ BelowAll /\ Alone /\ Counted /\ [Next]_vars => Counted'
<1> SUFFICES ASSUME TInv, BelowAll, Alone, Counted, [Next]_vars PROVE Counted' OBVIOUS
<1>0. TypeOK BY DEF TInv
<1>1. ASSUME NEW w \in Callers, Start(w) \/ Rescan(w) PROVE Counted'
  <2>1. ~overlapped' => UNCHANGED seen BY <1>0, <1>1, Beginning DEF Start, Rescan
  <2>2. UNCHANGED <<shard, audit>> BY <1>1 DEF Start, Rescan, tables
  <2>3. CASE overlapped' BY <2>3 DEF Counted
  <2> QED BY <2>1, <2>2, <2>3, StillCounted
<1>2. ASSUME NEW w \in Callers, ReadPrimary(w) \/ ReadShard(w) PROVE Counted'
  <2>1. UNCHANGED <<tables, audit, seen>> BY <1>2, NumberFacts
  <2> QED BY <2>1, StillCounted DEF tables
<1>3. ASSUME NEW w \in Callers,
             \/ ReadMarker(w) \/ Rewind(w) \/ Mark(w) \/ ReadPage(w)
             \/ Finish(w) \/ Clear(w) \/ Stop(w)
      PROVE  Counted'
  <2>1. UNCHANGED <<shard, audit, overlapped, receipt>>
    BY <1>3 DEF ReadMarker, Rewind, Mark, ReadPage, Finish, Clear, Stop, seen, tables
  <2> QED BY <2>1, StillCounted
<1>4. ASSUME NEW w \in Callers, Put(w) PROVE Counted'
  <2>1. ~overlapped => ~audit.open BY <1>4 DEF Put, Alone, At
  <2>2. UNCHANGED <<audit, overlapped, receipt>> BY <1>4 DEF Put, seen
  <2>3. /\ shard' = [r \in Rows |-> IF r \in Batch(w) THEN job[w].page[r] ELSE shard[r]]
        /\ Batch(w) \subseteq Held(job[w].page)
    BY <1>4, PutFacts
  <2>4. \A r \in Rows : shard[r] > 0 => shard'[r] > 0 BY <2>3 DEF Held
  <2>5. Held(shard) \subseteq Held(shard') BY <2>4 DEF Held
  <2> QED BY <2>1, <2>2, <2>5 DEF Counted, Held
<1>5. CASE CountPrimary
  <2>1. ~overlapped' => UNCHANGED seen BY <1>0, <1>5, Beginning DEF CountPrimary
  <2>2. UNCHANGED shard BY <1>5 DEF CountPrimary, tables
  <2>3. Held(shard) \subseteq Held(primary)
    <3>1. \A r \in Rows : shard[r] <= primary[r] /\ shard[r] \in Nat /\ primary[r] \in Nat
      BY <1>0, Sizes DEF BelowAll, Below, TypeOK, Tables, Stamps
    <3> QED BY <3>1 DEF Held
  <2>4. PICK n \in {Cardinality(Held(primary)), Null} :
          audit' = [open |-> TRUE, n |-> n, rows |-> Held(primary)]
    BY <1>5 DEF CountPrimary
  <2>5. audit'.n = n /\ audit'.rows = Held(primary) BY <2>4
  <2>6. Held(shard)' = Held(shard) BY <2>2 DEF Held
  <2> QED BY <2>1, <2>3, <2>5, <2>6 DEF Counted, seen
<1>6. CASE CountShard
  <2>1. PICK m \in {Cardinality(Held(shard)), Null} :
          receipt' = IF Matches(audit.n, m) /\ ~overlapped THEN audit.rows ELSE receipt
    BY <1>6 DEF CountShard
  <2>2. UNCHANGED <<shard, overlapped>> /\ audit.open /\ audit'.open = FALSE
    BY <1>6 DEF CountShard, NoAudit, tables
  <2>3. ASSUME ~overlapped, Matches(audit.n, m) PROVE audit.rows \subseteq Held(shard)
    <3>1. audit.n = m /\ m = Cardinality(Held(shard)) /\ audit.n = Cardinality(audit.rows)
      BY <2>1, <2>2, <2>3 DEF Matches, Counted
    <3>2. Held(shard) \subseteq audit.rows /\ audit.rows \subseteq Rows
      BY <1>0, <2>2, <2>3 DEF Counted, TypeOK
    <3>3. PICK H, R : H = Held(shard) /\ R = audit.rows OBVIOUS
    <3>4. H \subseteq R /\ R \subseteq Rows /\ Cardinality(H) = Cardinality(R) BY <3>1, <3>2, <3>3
    <3>5. H = R BY <3>4, RowsFinite, FS_Subset
    <3> QED BY <3>3, <3>5
  <2>4. Held(shard)' = Held(shard) BY <2>2 DEF Held
  <2> QED BY <2>1, <2>2, <2>3, <2>4 DEF Counted
<1>7. CASE UNCHANGED vars \/ \E r \in Rows : Write(r)
  <2>1. UNCHANGED <<shard, audit, seen>> BY <1>7 DEF Write, vars, tables
  <2> QED BY <2>1, StillCounted
<1> QED BY <1>1, <1>2, <1>3, <1>4, <1>5, <1>6, <1>7 DEF Next, Copy

\* Passes that do not overlap are alone, and what a check counted is copied.
THEOREM AloneInvariant == Spec => [](BelowAll /\ Alone /\ Counted)
<1>1. Init => BelowAll /\ Alone /\ Counted
  <2> SUFFICES ASSUME Init PROVE BelowAll /\ Alone /\ Counted OBVIOUS
  <2>1. Below(Empty) BY Sizes DEF Init, Below, Empty
  <2>2. BelowAll BY <2>1 DEF Init, BelowAll, Idle
  <2>3. Alone BY DEF Init, Alone, At, NoAudit, Idle
  <2>4. Counted BY DEF Init, Counted, NoAudit
  <2> QED BY <2>2, <2>3, <2>4
<1>2. TInv /\ (BelowAll /\ Alone /\ Counted) /\ [Next]_vars => (BelowAll /\ Alone /\ Counted)'
  BY KeepsBelow, KeepsAlone, KeepsCounted
<1> QED BY <1>1, <1>2, TypeInvariant, PTL DEF Spec

\* A parity check that was alone and found equal counts has counted rows that are all
\* copied (ParityIsWhole).
THEOREM ParityMeansWhole == Spec => []ParityIsWhole
<1>1. Counted => ParityIsWhole BY DEF Counted, ParityIsWhole
<1> QED BY <1>1, AloneInvariant, PTL
-----------------------------------------------------------------------------
(* Replays *)

\* The rows up to k have what the primary had when the replay began.
Covered(k) == \A r \in Rows : r <= k => shard[r] >= due[r]
\* So have, or will have, the rows up to the last of the page that is being written; all
\* rows if the page was the last one.
Paged(j) ==
  j.pc \in {"put", "finish", "clear"} =>
    \A r \in Rows :
      /\ j.page[r] > 0 => j.page[r] >= due[r]
      /\ (j.end = "exhausted" \/ \E q \in Held(j.page) : r <= q) =>
           (j.page[r] >= due[r] \/ shard[r] >= due[r])
Good(j) == Covered(j.cursor) /\ Paged(j)
RInv == ~overlapped /\ ~kept => Covered(cursor) /\ \A w \in Callers : Good(job[w])

LEMMA NothingCovered ==
  /\ Covered(0)
  /\ \A j : j.cursor = 0 /\ j.pc \notin {"put", "finish", "clear"} => Good(j)
<1>1. Covered(0) BY RowsAreNumbers DEF Covered
<1> QED BY <1>1 DEF Good, Paged

\* A row that was covered stays so when no copy gets older.
LEMMA GoodStays ==
  ASSUME UNCHANGED due, \A r \in Rows : shard[r] >= due[r] => shard'[r] >= due[r]
  PROVE  /\ \A k : Covered(k) => Covered(k)'
         /\ \A j : Good(j) => Good(j)'
<1>1. ASSUME NEW k, Covered(k) PROVE Covered(k)'
  BY <1>1 DEF Covered
<1>2. ASSUME NEW j, Paged(j) PROVE Paged(j)'
  BY <1>2 DEF Paged, Held
<1> QED BY <1>1, <1>2 DEF Good

LEMMA StepCovered ==
  ASSUME TypeOK, RInv, NEW w \in Callers, NEW change, Goes(w, change),
         UNCHANGED <<shard, due>>, ~overlapped' /\ ~kept' => ~overlapped /\ ~kept,
         cursor' \in {cursor, job[w].cursor},
         Good(job[w]) /\ Covered(cursor) => Good(change)
  PROVE  RInv'
<1> SUFFICES ASSUME ~overlapped', ~kept'
             PROVE  Covered(cursor)' /\ \A v \in Callers : Good(job[v])'
  BY DEF RInv
<1>1. Covered(cursor) /\ \A v \in Callers : Good(job[v]) BY DEF RInv
<1>2. /\ \A k : Covered(k) => Covered(k)'
      /\ \A j : Good(j) => Good(j)'
  BY GoodStays
<1>3. job'[w] = change /\ \A v \in Callers \ {w} : job'[v] = job[v] BY OneJob
<1>4. Covered(cursor)'
  <2>1. PICK k : k = cursor' OBVIOUS
  <2>2. Covered(k) BY <1>1, <2>1 DEF Good
  <2>3. Covered(k)' BY <1>2, <2>2
  <2> QED BY <2>1, <2>3 DEF Covered
<1>5. ASSUME NEW v \in Callers PROVE Good(job[v])'
  <2>1. PICK j : j = job'[v] OBVIOUS
  <2>2. Good(j)
    <3>1. CASE v = w BY <1>1, <1>3, <2>1, <3>1
    <3>2. CASE v # w BY <1>1, <1>3, <2>1, <3>2
    <3> QED BY <3>1, <3>2
  <2>3. Good(j)' BY <1>2, <2>2
  <2> QED BY <2>1, <2>3 DEF Good, Covered, Paged, Held
<1> QED BY <1>4, <1>5

\* Nothing is due any more.
LEMMA NothingDue == ASSUME TypeOK', due' = Empty PROVE RInv'
<1>1. \A r \in Rows : shard'[r] >= due'[r] BY Sizes DEF TypeOK, Tables, Stamps, Empty
<1>2. \A w \in Callers, r \in Rows : job'[w].page[r] >= due'[r]
  BY Sizes DEF TypeOK, Jobs, Tables, Stamps, Empty
<1> QED BY <1>1, <1>2 DEF RInv, Good, Covered, Paged

\* A replay that begins has everything before it; it is the only pass there is.
LEMMA RewindCovers ==
  ASSUME TInv, Alone, NEW w \in Callers, Rewind(w)
  PROVE  RInv'
<1> SUFFICES ASSUME ~overlapped', ~kept'
             PROVE  Covered(cursor)' /\ \A v \in Callers : Good(job[v])'
  BY DEF RInv
<1>0. TypeOK /\ \A v \in Callers : job[v] \in Jobs /\ Sound(job[v]) BY DEF TInv, TypeOK
<1>1. ~overlapped /\ job[w].pc = "rewind" BY DEF Rewind, At
<1>2. cursor' = 0 BY <1>1 DEF Rewind
<1>3. PICK change : change = [job[w] EXCEPT !.pc = "mark"] OBVIOUS
<1>4. change.pc = "mark" /\ change.cursor = 0
  <2>1. job[w].cursor = 0 BY <1>0, <1>1 DEF Sound
  <2> QED BY <1>0, <1>3, <2>1 DEF Jobs
<1>5. job'[w] = change /\ \A v \in Callers \ {w} : job'[v] = job[v]
  BY <1>0, <1>3, OneJob DEF Rewind
<1>6. ASSUME NEW v \in Callers
      PROVE  job'[v].cursor = 0 /\ job'[v].pc \in {"idle", "mark"}
  <2>1. CASE v = w BY <1>4, <1>5, <2>1
  <2>2. CASE v # w
    <3>1. job[v].pc = "idle" BY <1>1, <2>2 DEF Alone, At
    <3>2. job[v].cursor = 0 BY <1>0, <3>1 DEF Sound
    <3> QED BY <1>5, <2>2, <3>1, <3>2
  <2> QED BY <2>1, <2>2
<1>7. Covered(cursor)' BY <1>2, RowsAreNumbers DEF Covered
<1>8. ASSUME NEW v \in Callers PROVE Good(job[v])'
  <2>1. job'[v].cursor = 0 /\ job'[v].pc \notin {"put", "finish", "clear"} BY <1>6
  <2>2. \A r \in Rows : ~(r <= 0) BY RowsAreNumbers
  <2> QED BY <2>1, <2>2 DEF Good, Covered, Paged
<1> QED BY <1>7, <1>8

\* A page has all rows the primary holds from the cursor to its last row.
LEMMA ReadCovers ==
  ASSUME TInv, BelowAll, RInv, NEW w \in Callers, ReadPage(w)
  PROVE  RInv'
<1>0. TypeOK /\ primary \in Tables /\ due \in Tables BY DEF TInv, TypeOK
<1>1. /\ PageRead(w) \in Tables /\ Held(PageRead(w)) = Page(w)
      /\ \E change \in Jobs :
           /\ Goes(w, change) /\ Sound(change)
           /\ change.pc \in {"put", "finish"} /\ change.cursor = job[w].cursor
           /\ change.page = PageRead(w) /\ change.end = End(w)
  BY ReadFacts
<1>2. PICK change \in Jobs :
           /\ Goes(w, change) /\ change.cursor = job[w].cursor
           /\ change.page = PageRead(w) /\ change.end = End(w)
  BY <1>1
<1>3. /\ \A r \in Held(primary), q \in Page(w) :
           r > job[w].cursor /\ r <= q => r \in Page(w)
      /\ End(w) = "exhausted" =>
           \A r \in Held(primary) : r > job[w].cursor => r \in Page(w)
  BY <1>0, PageFacts
<1>4. \A r \in Rows : primary[r] \in Nat /\ due[r] \in Nat /\ due[r] <= primary[r]
  BY <1>0, Sizes DEF BelowAll, Below, Tables, Stamps
<1>5. ASSUME NEW r \in Rows, r \in Page(w) \/ r \notin Held(primary)
      PROVE  PageRead(w)[r] >= due[r]
  <2>1. CASE r \in Page(w) BY <1>4, <2>1 DEF PageRead
  <2>2. CASE r \notin Page(w)
    <3>1. primary[r] = 0 BY <1>4, <1>5, <2>2 DEF Held
    <3>2. due[r] = 0 BY <1>4, <3>1
    <3>3. PageRead(w)[r] = 0 BY <2>2 DEF PageRead
    <3> QED BY <3>2, <3>3
  <2> QED BY <2>1, <2>2
<1>6. ASSUME Good(job[w]) PROVE Good(change)
  <2>1. Covered(job[w].cursor) BY <1>6 DEF Good
  <2>2. ASSUME NEW r \in Rows, PageRead(w)[r] > 0 PROVE PageRead(w)[r] >= due[r]
    <3>1. r \in Page(w) BY <1>1, <2>2 DEF Held
    <3> QED BY <1>5, <3>1
  <2>3. ASSUME NEW r \in Rows, End(w) = "exhausted" \/ \E q \in Page(w) : r <= q
        PROVE  PageRead(w)[r] >= due[r] \/ shard[r] >= due[r]
    <3>1. CASE r <= job[w].cursor BY <2>1, <3>1 DEF Covered
    <3>2. CASE r > job[w].cursor
      <4>1. r \in Page(w) \/ r \notin Held(primary) BY <1>3, <2>3, <3>2
      <4> QED BY <1>5, <4>1
    <3>3. r \in Nat /\ job[w].cursor \in Nat BY <1>0, RowsAreNumbers DEF TypeOK, Jobs
    <3> QED BY <3>1, <3>2, <3>3
  <2>4. Paged(change) BY <1>1, <1>2, <2>2, <2>3 DEF Paged
  <2> QED BY <1>2, <2>1, <2>4 DEF Good
<1>7. /\ UNCHANGED <<shard, due>> /\ cursor' = cursor
      /\ overlapped' = overlapped /\ kept' = kept
  BY DEF ReadPage, tables, meta, seen
<1> QED BY <1>0, <1>2, <1>6, <1>7, StepCovered

\* What a page brings was due or is newer, and moves the cursor only when it is all there.
LEMMA PutCovers ==
  ASSUME TInv, RInv, NEW w \in Callers, Put(w)
  PROVE  RInv'
<1> SUFFICES ASSUME ~overlapped', ~kept'
             PROVE  Covered(cursor)' /\ \A v \in Callers : Good(job[v])'
  BY DEF RInv
<1>0. /\ TypeOK /\ due \in Tables /\ shard \in Tables /\ job[w] \in Jobs
      /\ job[w].page \in Tables /\ job[w].pc = "put"
  BY DEF TInv, TypeOK, Jobs, Put, At
<1>1. UNCHANGED <<cursor, due, overlapped, kept>> BY DEF Put, meta, seen
<1>2. Covered(cursor) /\ \A v \in Callers : Good(job[v]) BY <1>1 DEF RInv
<1>3. /\ Batch(w) \subseteq Held(job[w].page) /\ Batch(w) \subseteq Rows
      /\ shard' = [r \in Rows |-> IF r \in Batch(w) THEN job[w].page[r] ELSE shard[r]]
  BY PutFacts
<1>4. PICK change \in Jobs :
        /\ Goes(w, change) /\ change.page = Rest(w) /\ change.end = job[w].end
        /\ \/ change.cursor = job[w].cursor
           \/ /\ Held(job[w].page) = Batch(w) /\ change.cursor \in Batch(w)
  BY PutFacts
<1>5. PICK P, B : P = job[w].page /\ B = Batch(w) OBVIOUS
<1>6. /\ \A r \in Rows : shard[r] \in Nat /\ due[r] \in Nat /\ P[r] \in Nat
      /\ B \subseteq Held(P) /\ B \subseteq Rows
      /\ \A r \in Rows : shard'[r] = IF r \in B THEN P[r] ELSE shard[r]
  BY <1>0, <1>3, <1>5, Sizes DEF Tables, Stamps
<1>7. /\ \A r \in Rows : P[r] > 0 => P[r] >= due[r]
      /\ \A r \in Rows : (job[w].end = "exhausted" \/ \E q \in Held(P) : r <= q) =>
                            (P[r] >= due[r] \/ shard[r] >= due[r])
      /\ Covered(job[w].cursor)
  BY <1>0, <1>2, <1>5 DEF Good, Paged
<1>8. \A r \in B : shard'[r] >= due[r] BY <1>6, <1>7 DEF Held
<1>9. \A r \in Rows : shard[r] >= due[r] => shard'[r] >= due[r] BY <1>6, <1>8
<1>10. /\ \A k : Covered(k) => Covered(k)'
       /\ \A j : Good(j) => Good(j)'
  BY <1>1, <1>9, GoodStays
<1>11. Covered(change.cursor)'
  <2>1. CASE change.cursor = job[w].cursor BY <1>7, <1>10, <2>1
  <2>2. CASE Held(P) = B /\ change.cursor \in B
    <3>1. ASSUME NEW r \in Rows, r <= change.cursor PROVE shard'[r] >= due[r]
      <4>1. P[r] >= due[r] \/ shard[r] >= due[r] BY <1>7, <2>2, <3>1
      <4>2. CASE r \in B BY <1>8, <4>2
      <4>3. CASE r \notin B
        <5>1. P[r] = 0 BY <1>6, <2>2, <4>3 DEF Held
        <5>2. shard[r] >= due[r] BY <1>6, <4>1, <5>1
        <5> QED BY <1>9, <5>2
      <4> QED BY <4>2, <4>3
    <3> QED BY <1>1, <3>1 DEF Covered
  <2> QED BY <1>4, <1>5, <2>1, <2>2
<1>12. Paged(change)'
  <2>1. PICK T : T = Rest(w) OBVIOUS
  <2>2. \A r \in Rows : T[r] = IF r \in B THEN 0 ELSE P[r] BY <1>5, <2>1 DEF Rest
  <2>3. Held(T) \subseteq Held(P) BY <1>6, <2>2 DEF Held
  <2>4. \A r \in Rows : T[r] > 0 => T[r] >= due[r] BY <1>7, <2>2
  <2>5. ASSUME NEW r \in Rows, job[w].end = "exhausted" \/ \E q \in Held(T) : r <= q
        PROVE  T[r] >= due[r] \/ shard'[r] >= due[r]
    <3>1. P[r] >= due[r] \/ shard[r] >= due[r] BY <1>7, <2>3, <2>5
    <3>2. CASE r \in B BY <1>8, <3>2
    <3>3. CASE r \notin B BY <1>6, <2>2, <3>1, <3>3
    <3> QED BY <3>2, <3>3
  <2>6. change.page = T /\ change.end = job[w].end BY <1>4, <2>1
  <2>7. \A r \in Rows : due'[r] = due[r] BY <1>1
  <2>8. PICK e : e = change.end OBVIOUS
  <2>9. ASSUME NEW r \in Rows
        PROVE  /\ T[r] > 0 => T[r] >= due'[r]
               /\ (e = "exhausted" \/ \E q \in Held(T) : r <= q) =>
                    (T[r] >= due'[r] \/ shard'[r] >= due'[r])
    BY <2>4, <2>5, <2>6, <2>7, <2>8
  <2> QED BY <2>6, <2>8, <2>9 DEF Paged, Held
<1>13. job'[w] = change /\ \A v \in Callers \ {w} : job'[v] = job[v] BY <1>0, <1>4, OneJob
<1>14. Covered(cursor)'
  <2>1. PICK k : k = cursor OBVIOUS
  <2>2. Covered(k)' BY <1>2, <1>10, <2>1
  <2> QED BY <1>1, <2>1, <2>2 DEF Covered
<1>15. ASSUME NEW v \in Callers PROVE Good(job[v])'
  <2>1. PICK j : j = job'[v] OBVIOUS
  <2>2. Good(j)'
    <3>1. CASE v = w BY <1>11, <1>12, <1>13, <2>1, <3>1 DEF Good
    <3>2. CASE v # w BY <1>2, <1>10, <1>13, <2>1, <3>2
    <3> QED BY <3>1, <3>2
  <2> QED BY <2>1, <2>2 DEF Good, Covered, Paged, Held
<1> QED BY <1>14, <1>15

LEMMA KeepsCovered == TInv /\ BelowAll /\ Alone /\ RInv /\ [Next]_vars /\ TInv' => RInv'
<1> SUFFICES ASSUME TInv, BelowAll, Alone, RInv, [Next]_vars, TInv' PROVE RInv' OBVIOUS
<1>0. /\ TypeOK /\ TypeOK' /\ \A v \in Callers : job[v] \in Jobs /\ Sound(job[v])
  BY DEF TInv, TypeOK
\* Steps of a pass that copy nothing.
<1>1. ASSUME NEW w \in Callers, NEW change, Goes(w, change), UNCHANGED <<shard, seen, cursor>>,
             change.pc \notin {"put", "finish", "clear"},
             change.cursor \in {cursor, job[w].cursor, 0}
      PROVE  RInv'
  <2>1. Good(job[w]) /\ Covered(cursor) => Good(change)
    BY <1>1, NothingCovered DEF Good, Paged
  <2> QED BY <1>0, <1>1, <2>1, StepCovered DEF seen
<1>2. ASSUME NEW w \in Callers, Start(w) \/ Rescan(w) PROVE RInv'
  <2>1. ~overlapped' => UNCHANGED seen BY <1>0, <1>2, Beginning DEF Start, Rescan
  <2>2. CASE overlapped' BY <2>2 DEF RInv
  <2>3. CASE ~overlapped'
    <3>1. PICK c \in {cursor, 0}, pc \in {"marker", "page"} :
            \/ Goes(w, [Idle EXCEPT !.pc = pc, !.cursor = c])
            \/ Goes(w, [Idle EXCEPT !.pc = pc])
      BY <1>2 DEF Start, Rescan
    <3>2. /\ [Idle EXCEPT !.pc = pc, !.cursor = c].cursor = c
          /\ [Idle EXCEPT !.pc = pc, !.cursor = c].pc = pc
          /\ [Idle EXCEPT !.pc = pc].cursor = 0 /\ [Idle EXCEPT !.pc = pc].pc = pc
      BY DEF Idle
    <3>3. UNCHANGED <<shard, cursor>> BY <1>2 DEF Start, Rescan, tables, meta
    <3> QED BY <1>1, <2>1, <2>3, <3>1, <3>2, <3>3
  <2> QED BY <2>2, <2>3
<1>3. ASSUME NEW w \in Callers, ReadMarker(w) \/ Mark(w) PROVE RInv'
  <2>1. UNCHANGED <<shard, seen, cursor>> BY <1>3 DEF ReadMarker, Mark, tables, meta
  <2>2. CASE ReadMarker(w)
    <3>1. PICK b : Goes(w, [job[w] EXCEPT !.pc = "count", !.replay = b])
      BY <2>2 DEF ReadMarker
    <3>2. /\ [job[w] EXCEPT !.pc = "count", !.replay = b].cursor = job[w].cursor
          /\ [job[w] EXCEPT !.pc = "count", !.replay = b].pc = "count"
      BY <1>0 DEF Jobs
    <3> QED BY <1>1, <2>1, <3>1, <3>2
  <2>3. CASE Mark(w)
    <3>1. Goes(w, [job[w] EXCEPT !.pc = "page"]) BY <2>3 DEF Mark
    <3>2. /\ [job[w] EXCEPT !.pc = "page"].cursor = job[w].cursor
          /\ [job[w] EXCEPT !.pc = "page"].pc = "page"
      BY <1>0 DEF Jobs
    <3> QED BY <1>1, <2>1, <3>1, <3>2
  <2> QED BY <1>3, <2>2, <2>3
<1>4. ASSUME NEW w \in Callers, ReadPrimary(w) \/ ReadShard(w) PROVE RInv'
  <2>1. PICK change \in Jobs :
          /\ Goes(w, change) /\ change.pc \in {"count", "fresh", "rewind", "page"}
          /\ change.cursor \in {job[w].cursor, 0}
    BY <1>4, NumberFacts
  <2>2. UNCHANGED <<tables, meta, seen>> BY <1>4, NumberFacts
  <2> QED BY <1>1, <2>1, <2>2 DEF tables, meta
<1>5. ASSUME NEW w \in Callers, Rewind(w) PROVE RInv' BY <1>5, RewindCovers
<1>6. ASSUME NEW w \in Callers, ReadPage(w) PROVE RInv' BY <1>6, ReadCovers
<1>7. ASSUME NEW w \in Callers, Put(w) PROVE RInv' BY <1>7, PutCovers
<1>8. ASSUME NEW w \in Callers, Finish(w) PROVE RInv'
  <2>1. /\ job[w].pc = "finish" /\ cursor' \in {cursor, job[w].cursor}
        /\ UNCHANGED <<shard, seen>>
    BY <1>8 DEF Finish, At, tables
  <2> DEFINE clear == [job[w] EXCEPT !.pc = "clear"]
  <2>2. Goes(w, Idle) \/ Goes(w, clear) BY <1>8 DEF Finish
  <2>3. Good(Idle)
    <3>1. Idle.cursor = 0 /\ Idle.pc = "idle" BY DEF Idle
    <3> QED BY <3>1, NothingCovered
  <2>4. /\ clear.pc = "clear" /\ clear.cursor = job[w].cursor
        /\ clear.page = job[w].page /\ clear.end = job[w].end
    BY <1>0 DEF Jobs
  <2> HIDE DEF clear
  <2>5. Good(job[w]) => Good(clear) BY <2>1, <2>4 DEF Good, Paged
  <2> QED BY <1>0, <2>1, <2>2, <2>3, <2>5, StepCovered DEF seen
<1>9. ASSUME NEW w \in Callers, Clear(w) \/ Stop(w) PROVE RInv'
  <2>1. CASE due' = Empty BY <1>0, <2>1, NothingDue
  <2>2. CASE UNCHANGED due
    <3>1. Good(Idle)
      <4>1. Idle.cursor = 0 /\ Idle.pc = "idle" BY DEF Idle
      <4> QED BY <4>1, NothingCovered
    <3>2. /\ Goes(w, Idle) /\ UNCHANGED <<shard, cursor, overlapped, kept>>
      BY <1>9 DEF Clear, Stop, tables, meta, seen
    <3> QED BY <1>0, <2>2, <3>1, <3>2, StepCovered
  <2> QED BY <1>9, <2>1, <2>2 DEF Clear, Stop, seen
<1>10. ASSUME UNCHANGED <<shard, cursor, job>>, ~overlapped' => UNCHANGED seen PROVE RInv'
  <2>1. CASE overlapped' BY <2>1 DEF RInv
  <2>2. CASE ~overlapped'
    <3>1. UNCHANGED <<shard, cursor, job, due, overlapped, kept>> BY <1>10, <2>2 DEF seen
    <3> QED BY <3>1 DEF RInv, Good, Covered, Paged, Held
  <2> QED BY <2>1, <2>2
<1>11. CASE CountPrimary
  <2>1. ~overlapped' => UNCHANGED seen BY <1>0, <1>11, Beginning DEF CountPrimary
  <2>2. UNCHANGED <<shard, cursor, job>> BY <1>11 DEF CountPrimary, tables, meta
  <2> QED BY <1>10, <2>1, <2>2
<1>12. CASE CountShard
  <2>1. UNCHANGED <<shard, cursor, job, due, overlapped, kept>>
    BY <1>12 DEF CountShard, tables, meta
  <2> QED BY <2>1 DEF RInv, Good, Covered, Paged, Held
<1>13. CASE UNCHANGED vars \/ \E r \in Rows : Write(r)
  <2>1. UNCHANGED <<shard, cursor, job, seen>> BY <1>13 DEF Write, vars, tables, meta
  <2> QED BY <1>10, <2>1
<1> QED BY <1>2, <1>3, <1>4, <1>5, <1>6, <1>7, <1>8, <1>9, <1>11, <1>12, <1>13
        DEF Next, Copy

THEOREM CoveredInvariant == Spec => []RInv
<1>1. Init => RInv
  <2> SUFFICES ASSUME Init PROVE RInv OBVIOUS
  <2>1. cursor = 0 /\ \A w \in Callers : job[w].cursor = 0 /\ job[w].pc = "idle"
    BY DEF Init, Idle
  <2> QED BY <2>1, NothingCovered DEF RInv
<1>2. TInv /\ (BelowAll /\ Alone /\ Counted) /\ RInv /\ [Next]_vars /\ TInv' => RInv'
  BY KeepsCovered
<1> QED BY <1>1, <1>2, TypeInvariant, AloneInvariant, PTL DEF Spec

\* A replay ends only when everything the primary had when it began is copied, or something
\* newer, if passes did not overlap and its cursor was reset (ReplayCovers).
THEOREM ReplaysCover == Spec => ReplayCovers
<1> DEFINE Ends ==
      replay /\ ~replay' /\ ~overlapped /\ ~kept => \A r \in Rows : shard[r] >= due[r]
<1>1. TInv /\ RInv /\ [Next]_vars => Ends
  <2> SUFFICES ASSUME TInv, RInv, [Next]_vars, replay, ~replay', ~overlapped, ~kept,
                      NEW r \in Rows
               PROVE  shard[r] >= due[r]
    OBVIOUS
  <2>1. PICK w \in Callers : Clear(w)
    <3>1. \A w \in Callers :
            /\ Start(w) \/ Rescan(w) \/ ReadMarker(w) \/ Rewind(w) \/ ReadPage(w) \/ Put(w)
               \/ Finish(w) \/ Stop(w) => UNCHANGED replay
            /\ ReadPrimary(w) \/ ReadShard(w) => UNCHANGED replay
            /\ Mark(w) => replay' \in {replay, TRUE}
      BY DEF Start, Rescan, ReadMarker, Rewind, ReadPage, Put, Finish, Stop, ReadPrimary,
             ReadShard, Mark, meta
    <3>2. CountPrimary \/ CountShard \/ UNCHANGED vars \/ (\E q \in Rows : Write(q))
          => UNCHANGED replay
      BY DEF CountPrimary, CountShard, Write, vars, meta
    <3> QED BY <3>1, <3>2 DEF Next, Copy
  <2>2. /\ job[w].pc = "clear" /\ job[w].page = Empty /\ job[w].end = "exhausted"
    BY <2>1 DEF Clear, At, TInv, Sound
  <2>3. Empty[r] >= due[r] \/ shard[r] >= due[r] BY <2>2 DEF RInv, Good, Paged
  <2>4. Empty[r] = 0 /\ shard[r] \in Nat /\ due[r] \in Nat
    BY Sizes DEF Empty, TInv, TypeOK, Tables, Stamps
  <2> QED BY <2>3, <2>4
<1> HIDE DEF Ends
<1>2. [][Ends]_vars <=> ReplayCovers BY DEF Ends, ReplayCovers
<1> QED BY <1>1, <1>2, TypeInvariant, CoveredInvariant, PTL DEF Spec
=============================================================================
