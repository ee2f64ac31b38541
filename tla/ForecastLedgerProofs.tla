------------------------- MODULE ForecastLedgerProofs -------------------------
(* Types, times, finals, form counts, the append-only record and reported   *)
(* gradings of the forecast ledger, for any isolates, forecasts, scores,    *)
(* jobs and faults.                                                         *)
EXTENDS ForecastLedger, SequenceTheorems, TLAPS

Statuses == {"scheduled", "live", "completed", "postponed"}
Fails == {"ignored", "dropped", "reported"}
OfRow == {"insert", "grade"}
OfGame == {"gradeSnapshots", "gradePredictions", "excludeSnapshots", "excludePredictions"}
OfForm == {"mark", "home", "away"}
Statement ==
  [op : {"replace"}, forecast : Forecasts, final : Finals, fails : Fails]
  \union [op : {"insert"}, cp : Checkpoints, frozen : Frozen, final : Finals, fails : Fails]
  \union [op : {"grade"}, cp : Checkpoints, final : Finals, fails : Fails]
  \union [op : OfGame, final : Finals, force : BOOLEAN, fails : Fails]
  \union [op : OfForm, fails : Fails]
Chain == Seq(Statement) \ {<<>>}

\* What a cache may hold: a ledger with the game's row was first seen some time.
Seen == {row \in Row : row.cps["FIRST_AVAILABLE"] # None}
Ledger == Seen \union {None, Cold}
Slate == [status : Statuses, score : Finals]
Board == [status : Statuses, score : Finals, forecast : Forecasts]
Job == [kind : {"collect", "harvest", "settle", "desk"},
        phase : {"built", "loaded", "writing", "grading", "form", "desk"},
        slate : Slate \union Board \union {None}, row : Ledger,
        wrote : SUBSET Checkpoints, chains : SUBSET Chain, ok : BOOLEAN]

\* Who reads its slate has one.
Slated(j) ==
  /\ j.kind = "collect" => j.slate \in Board
  /\ j.kind \in {"harvest", "settle"} /\ j.phase \in {"writing", "grading"} => j.slate \in Slate
JobTyped(i) == job[i] # None => job[i] \in Job /\ Slated(job[i])
TInv ==
  /\ TypeOK
  /\ memory \in [Isolates -> Ledger] /\ edge \in Ledger
  /\ job = [i \in Isolates |-> job[i]]
  /\ \A i \in Isolates : JobTyped(i)
-----------------------------------------------------------------------------
(* Rows, statements and chains have their types *)

LEMMA RowTyped ==
  ASSUME NEW x \in Ledger, HasRow(x)
  PROVE  x \in Seen /\ x \in Row /\ "FIRST_AVAILABLE" \in Filled(x)
BY DEF Ledger, HasRow, Seen, Filled, Checkpoints

LEMMA NewRow ==
  ASSUME TypeOK, NEW f \in Forecasts
  PROVE  /\ FreezeNew(f) \in Seen
         /\ \A c \in Checkpoints : FreezeNew(f).cps[c] # None => FreezeNew(f).cps[c].at = now
         /\ FreezeNew(f).final = None
         /\ Filled(FreezeNew(f)) = {"FIRST_AVAILABLE", ClassifyCheckpoint}
<1>1. now \in 1..Kickoff BY LedgerAssumption DEF LedgerAssumption, TypeOK, Kickoff
<1>2. [forecast |-> f, at |-> now] \in Frozen BY <1>1 DEF Frozen
<1>3. [forecast |-> f, at |-> now] # None BY <1>2, NullIsNoRecord DEF NullIsNoRecord
<1>4. ClassifyCheckpoint \in Checkpoints BY DEF ClassifyCheckpoint, Checkpoints
<1>5. FreezeNew(f) \in Row BY <1>2 DEF FreezeNew, Row, Finals
<1>6. \A c \in Checkpoints : FreezeNew(f).cps[c] = IF c \in {"FIRST_AVAILABLE", ClassifyCheckpoint}
                                                   THEN [forecast |-> f, at |-> now] ELSE None
  BY DEF FreezeNew
<1>7. FreezeNew(f).final = None BY DEF FreezeNew
<1> QED BY <1>3, <1>4, <1>5, <1>6, <1>7 DEF Seen, Filled, Checkpoints

LEMMA CanonicalIsFilled ==
  ASSUME NEW cps \in [Checkpoints -> Frozen \union {None}], cps["FIRST_AVAILABLE"] # None
  PROVE  PickCanonical(cps) \in Checkpoints /\ cps[PickCanonical(cps)] # None
<1> DEFINE Best(c) == /\ cps[c] # None
                      /\ \A d \in Checkpoints : cps[d] # None => CheckpointRank[d] <= CheckpointRank[c]
<1>1. CheckpointRank["FIRST_AVAILABLE"] = 0 /\ CheckpointRank["EARLY"] = 1 /\ CheckpointRank["CLOSE"] = 5
  BY DEF CheckpointRank, Checkpoints
<1>2. \E c \in Checkpoints : Best(c)
  <2>1. CASE cps["CLOSE"] # None BY <2>1, <1>1 DEF Checkpoints
  <2>2. CASE cps["CLOSE"] = None /\ cps["EARLY"] # None BY <2>2, <1>1 DEF Checkpoints
  <2>3. CASE cps["CLOSE"] = None /\ cps["EARLY"] = None BY <2>3, <1>1 DEF Checkpoints
  <2> QED BY <2>1, <2>2, <2>3
<1>3. PickCanonical(cps) = CHOOSE c \in Checkpoints : Best(c) BY DEF PickCanonical
<1> HIDE DEF Best
<1>4. PickCanonical(cps) \in Checkpoints /\ Best(PickCanonical(cps)) BY <1>2, <1>3
<1> QED BY <1>4 DEF Best

LEMMA RowAgain ==
  ASSUME TypeOK, NEW row \in Seen, NEW f \in Forecasts
  PROVE  /\ Refreeze(row, f) \in Seen
         /\ \A c \in Checkpoints :
              /\ row.cps[c] # None => Refreeze(row, f).cps[c] = row.cps[c]
              /\ row.cps[c] = None /\ Refreeze(row, f).cps[c] # None =>
                   c = ClassifyCheckpoint /\ Refreeze(row, f).cps[c].at = now
         /\ Refreeze(row, f).final = row.final
<1>1. now \in 1..Kickoff BY LedgerAssumption DEF LedgerAssumption, TypeOK, Kickoff
<1> DEFINE cps == IF row.cps[ClassifyCheckpoint] # None THEN row.cps
                  ELSE [row.cps EXCEPT ![ClassifyCheckpoint] = [forecast |-> f, at |-> now]]
           entry == [forecast |-> f, at |-> now]
<1>2. entry \in Frozen /\ entry # None /\ entry.at = now
  BY <1>1, NullIsNoRecord DEF Frozen, NullIsNoRecord
<1>3. row \in Row /\ row.cps["FIRST_AVAILABLE"] # None BY DEF Seen
<1>4. /\ row.cps \in [Checkpoints -> Frozen \union {None}]
      /\ row.final \in Finals /\ row.off \in SUBSET Checkpoints
  BY <1>3 DEF Row
<1>5. cps \in [Checkpoints -> Frozen \union {None}] BY <1>2, <1>4
<1>6. \A c \in Checkpoints : /\ row.cps[c] # None => cps[c] = row.cps[c]
                             /\ row.cps[c] = None /\ cps[c] # None => c = ClassifyCheckpoint /\ cps[c] = entry
  BY <1>4
<1>7. cps["FIRST_AVAILABLE"] # None BY <1>3, <1>6 DEF Checkpoints
<1>8. Refreeze(row, f) = [cps |-> cps, forecast |-> cps[PickCanonical(cps)].forecast, final |-> row.final,
                         off |-> row.off]
  <2>1. Refreeze(row, f) = [row EXCEPT !.cps = cps, !.forecast = cps[PickCanonical(cps)].forecast]
    BY DEF Refreeze
  <2> HIDE DEF cps, entry
  <2> QED BY <1>3, <2>1 DEF Row
<1> HIDE DEF cps, entry
<1>9. cps[PickCanonical(cps)] \in Frozen BY <1>5, <1>7, CanonicalIsFilled
<1>10. cps[PickCanonical(cps)].forecast \in Forecasts BY <1>9 DEF Frozen
<1>11. Refreeze(row, f) \in Row BY <1>4, <1>5, <1>8, <1>10 DEF Row
<1>12. Refreeze(row, f).cps = cps /\ Refreeze(row, f).final = row.final BY <1>8
<1>13. Refreeze(row, f) \in Seen BY <1>7, <1>11, <1>12 DEF Seen
<1> HIDE DEF Refreeze
<1>14. \A c \in Checkpoints :
         /\ row.cps[c] # None => Refreeze(row, f).cps[c] = row.cps[c]
         /\ row.cps[c] = None /\ Refreeze(row, f).cps[c] # None =>
              c = ClassifyCheckpoint /\ Refreeze(row, f).cps[c].at = now
  BY <1>2, <1>6, <1>12
<1> QED BY <1>12, <1>13, <1>14

LEMMA RowGraded ==
  ASSUME NEW row \in Seen, NEW slate \in Slate \union Board
  PROVE  /\ ApplyFinal(row, slate) \in Seen
         /\ ApplyFinal(row, slate).cps = row.cps
         /\ Filled(ApplyFinal(row, slate)) = Filled(row)
         /\ ApplyFinal(row, slate).final = IF slate.status = "completed" THEN slate.score ELSE row.final
<1>1. row \in Row /\ row.cps["FIRST_AVAILABLE"] # None BY DEF Seen
<1>2. slate.score \in Finals BY DEF Slate, Board
<1>3. CASE slate.status = "completed"
  <2>1. ApplyFinal(row, slate) = [cps |-> row.cps, forecast |-> row.forecast, final |-> slate.score,
                                  off |-> row.off]
    BY <1>1, <1>3 DEF ApplyFinal, Row
  <2>2. ApplyFinal(row, slate) \in Row BY <1>1, <1>2, <2>1 DEF Row
  <2> QED BY <1>1, <1>3, <2>1, <2>2 DEF Seen, Filled
<1>4. CASE slate.status = "postponed"
  <2>1. PICK off : off = Filled(row) OBVIOUS
  <2>2. off \in SUBSET Checkpoints BY <2>1 DEF Filled
  <2>3. ApplyFinal(row, slate) = [cps |-> row.cps, forecast |-> row.forecast, final |-> row.final,
                                  off |-> off]
    BY <1>1, <1>4, <2>1 DEF ApplyFinal, Row
  <2>4. ApplyFinal(row, slate) \in Row BY <1>1, <2>2, <2>3 DEF Row
  <2> QED BY <1>1, <1>4, <2>3, <2>4 DEF Seen, Filled
<1>5. CASE slate.status \notin {"completed", "postponed"} BY <1>1, <1>5 DEF ApplyFinal
<1> QED BY <1>3, <1>4, <1>5

LEMMA StatementsTyped ==
  ASSUME NEW row \in Seen, NEW c \in Filled(row), NEW fails \in Fails
  PROVE  /\ Replace(row, fails) \in Statement
         /\ Insert(row, c, fails) \in Statement
         /\ Grade(row, c, fails) \in Statement
<1>1. row \in Row /\ c \in Checkpoints /\ row.cps[c] # None BY DEF Seen, Filled
<1>2. row.forecast \in Forecasts /\ row.final \in Finals /\ row.cps[c] \in Frozen BY <1>1 DEF Row
<1>3. Replace(row, fails) \in Statement BY <1>2 DEF Replace, Statement
<1>4. Insert(row, c, fails) \in Statement BY <1>1, <1>2 DEF Insert, Statement
<1>5. Grade(row, c, fails) \in Statement BY <1>1, <1>2 DEF Grade, Statement
<1> QED BY <1>3, <1>4, <1>5

LEMMA ShortChains ==
  \A a, b, c \in Statement : <<a>> \in Chain /\ <<a, b>> \in Chain /\ <<a, b, c>> \in Chain
BY DEF Chain

LEMMA PersistTyped ==
  ASSUME NEW row \in Seen
  PROVE  PersistRow(row) \subseteq Chain
<1>1. ASSUME NEW c \in Filled(row) PROVE PersistCheckpoint(row, c) \in Chain
  BY StatementsTyped, ShortChains DEF PersistCheckpoint, Fails
<1>2. "FIRST_AVAILABLE" \in Filled(row) BY DEF Seen, Filled, Checkpoints
<1>3. <<Replace(row, "reported")>> \in Chain BY <1>2, StatementsTyped, ShortChains DEF Fails
<1> QED BY <1>1, <1>3 DEF PersistRow

LEMMA GameChainsTyped ==
  ASSUME NEW fails \in Fails
  PROVE  /\ \A final \in Finals, force \in BOOLEAN : GradeSnapshotsForGame(final, force, fails) \in Chain
         /\ \A force \in BOOLEAN : ExcludeSnapshotsForGame(force) \in Chain
         /\ ApplyFinalToForm(fails) \in Chain
<1>1. \A op \in OfGame, final \in Finals, force \in BOOLEAN, f \in Fails :
        OnGame(op, final, force, f) \in Statement
  BY DEF OnGame, Statement
<1>2. \A op \in OfForm, f \in Fails : OnForm(op, f) \in Statement BY DEF OnForm, Statement
<1>3. None \in Finals BY DEF Finals
<1> QED BY <1>1, <1>2, <1>3, ShortChains
        DEF GradeSnapshotsForGame, ExcludeSnapshotsForGame, ApplyFinalToForm, OfGame, OfForm, Fails

LEMMA ChainParts ==
  ASSUME NEW chain \in Chain
  PROVE  /\ Head(chain) \in Statement /\ Head(chain) = chain[1] /\ 1 \in DOMAIN chain
         /\ Tail(chain) \in Chain \union {<<>>}
         /\ \A n \in DOMAIN Tail(chain) : n + 1 \in DOMAIN chain /\ Tail(chain)[n] = chain[n + 1]
         /\ Len(chain) \in Nat /\ DOMAIN chain = 1..Len(chain) /\ Len(Tail(chain)) = Len(chain) - 1
         /\ DOMAIN Tail(chain) = 1..(Len(chain) - 1)
<1>1. chain \in Seq(Statement) /\ chain # <<>> BY DEF Chain
<1> QED BY <1>1, HeadTailProperties DEF Chain
-----------------------------------------------------------------------------
(* What a step does to the job of its isolate *)

LEMMA JobIs ==
  ASSUME NEW kind, NEW phase, NEW slate, NEW row, NEW wrote, NEW chains, NEW ok,
         NEW j \in [kind : {kind}, phase : {phase}, slate : {slate}, row : {row}, wrote : {wrote},
                    chains : {chains}, ok : {ok}]
  PROVE  j = [kind |-> kind, phase |-> phase, slate |-> slate, row |-> row, wrote |-> wrote,
              chains |-> chains, ok |-> ok]
OBVIOUS

With(j, chains, ok) ==
  [kind |-> j.kind, phase |-> j.phase, slate |-> j.slate, row |-> j.row, wrote |-> j.wrote,
   chains |-> chains, ok |-> ok]
RunGoes(i, chain, rest, ok) ==
  job' = [job EXCEPT ![i] = With(job[i], Awaiting(job[i].chains, chain, rest), ok)]

LEMMA Moved ==
  ASSUME TInv, NEW i \in Isolates, NEW j, j # None => j \in Job /\ Slated(j),
         job' = [job EXCEPT ![i] = j]
  PROVE  /\ job' = [k \in Isolates |-> job'[k]]
         /\ \A k \in Isolates : JobTyped(k)'
         /\ job'[i] = j /\ \A k \in Isolates \ {i} : job'[k] = job[k]
<1>1. job = [k \in Isolates |-> job[k]] BY DEF TInv
<1>2. job'[i] = j /\ \A k \in Isolates \ {i} : job'[k] = job[k] BY <1>1
<1>3. \A k \in Isolates : JobTyped(k)' BY <1>2 DEF TInv, JobTyped, Slated
<1>4. job' = [k \in Isolates |-> job'[k]] BY <1>1
<1> QED BY <1>2, <1>3, <1>4

LEMMA AwaitMoves ==
  ASSUME TInv, NEW i \in Isolates, job[i] # None, NEW phase, NEW chains, Await(i, phase, chains)
  PROVE  job' = [job EXCEPT ![i] = [kind |-> job[i].kind, phase |-> phase, slate |-> job[i].slate,
                                    row |-> job[i].row, wrote |-> job[i].wrote,
                                    chains |-> chains, ok |-> job[i].ok]]
<1>1. job[i] \in Job BY DEF TInv, JobTyped
<1>2. PICK j : j = job[i] OBVIOUS
<1>3. [j EXCEPT !.phase = phase, !.chains = chains] =
        [kind |-> j.kind, phase |-> phase, slate |-> j.slate, row |-> j.row, wrote |-> j.wrote,
         chains |-> chains, ok |-> j.ok]
  <2>1. [j EXCEPT !.phase = phase, !.chains = chains] \in
          [kind : {j.kind}, phase : {phase}, slate : {j.slate}, row : {j.row},
           wrote : {j.wrote}, chains : {chains}, ok : {j.ok}]
    BY <1>1, <1>2 DEF Job
  <2> QED BY <2>1, JobIs
<1>4. job' = [job EXCEPT ![i] = [j EXCEPT !.phase = phase, !.chains = chains]]
  BY <1>2 DEF Await, TInv
<1> QED BY <1>2, <1>3, <1>4

LEMMA WritesMoves ==
  ASSUME TInv, NEW i \in Isolates, job[i] # None, NEW row, NEW wrote, NEW chains,
         Writes(i, row, wrote, chains)
  PROVE  job' = [job EXCEPT ![i] = [kind |-> job[i].kind, phase |-> "writing", slate |-> job[i].slate,
                                    row |-> row, wrote |-> wrote, chains |-> chains,
                                    ok |-> job[i].ok]]
<1>1. job[i] \in Job BY DEF TInv, JobTyped
<1>2. PICK j : j = job[i] OBVIOUS
<1>3. [j EXCEPT !.phase = "writing", !.row = row, !.wrote = wrote, !.chains = chains] =
        [kind |-> j.kind, phase |-> "writing", slate |-> j.slate, row |-> row, wrote |-> wrote,
         chains |-> chains, ok |-> j.ok]
  <2>1. [j EXCEPT !.phase = "writing", !.row = row, !.wrote = wrote, !.chains = chains] \in
          [kind : {j.kind}, phase : {"writing"}, slate : {j.slate}, row : {row},
           wrote : {wrote}, chains : {chains}, ok : {j.ok}]
    BY <1>1, <1>2 DEF Job
  <2> QED BY <2>1, JobIs
<1>4. job' = [job EXCEPT ![i] = [j EXCEPT !.phase = "writing", !.row = row, !.wrote = wrote,
                                          !.chains = chains]]
  BY <1>2 DEF Writes, TInv
<1> QED BY <1>2, <1>3, <1>4

Grades(i, slate, row, wrote, chains) ==
  job' = [job EXCEPT ![i].phase = "writing", ![i].slate = slate, ![i].row = row,
                     ![i].wrote = wrote, ![i].chains = chains]
LEMMA RowMoves ==
  ASSUME TInv, NEW i \in Isolates, job[i] # None, NEW slate, NEW row, NEW wrote, NEW chains,
         Grades(i, slate, row, wrote, chains)
  PROVE  job' = [job EXCEPT ![i] = [kind |-> job[i].kind, phase |-> "writing", slate |-> slate,
                                    row |-> row, wrote |-> wrote, chains |-> chains,
                                    ok |-> job[i].ok]]
<1>1. job[i] \in Job BY DEF TInv, JobTyped
<1>2. PICK j : j = job[i] OBVIOUS
<1>3. [j EXCEPT !.phase = "writing", !.slate = slate, !.row = row, !.wrote = wrote,
                !.chains = chains] =
        [kind |-> j.kind, phase |-> "writing", slate |-> slate, row |-> row, wrote |-> wrote,
         chains |-> chains, ok |-> j.ok]
  <2>1. [j EXCEPT !.phase = "writing", !.slate = slate, !.row = row, !.wrote = wrote,
                  !.chains = chains] \in
          [kind : {j.kind}, phase : {"writing"}, slate : {slate}, row : {row}, wrote : {wrote},
           chains : {chains}, ok : {j.ok}]
    BY <1>1, <1>2 DEF Job
  <2> QED BY <2>1, JobIs
<1>4. job' = [job EXCEPT ![i] = [j EXCEPT !.phase = "writing", !.slate = slate, !.row = row,
                                          !.wrote = wrote, !.chains = chains]]
  BY <1>2 DEF Grades, TInv
<1> QED BY <1>2, <1>3, <1>4

LEMMA ChainsMove ==
  ASSUME TInv, NEW i \in Isolates, job[i] # None, NEW chain, NEW rest, NEW ok,
         job' = [job EXCEPT ![i].chains = Awaiting(@, chain, rest), ![i].ok = ok]
  PROVE  RunGoes(i, chain, rest, ok)
<1>1. job[i] \in Job BY DEF TInv, JobTyped
<1>2. PICK j : j = job[i] OBVIOUS
<1>3. PICK chains : chains = Awaiting(job[i].chains, chain, rest) OBVIOUS
<1>4. [j EXCEPT !.chains = chains, !.ok = ok] = With(j, chains, ok)
  <2>1. [j EXCEPT !.chains = chains, !.ok = ok] \in
          [kind : {j.kind}, phase : {j.phase}, slate : {j.slate}, row : {j.row},
           wrote : {j.wrote}, chains : {chains}, ok : {ok}]
    BY <1>1, <1>2 DEF Job
  <2> QED BY <2>1, JobIs DEF With
<1>5. job' = [job EXCEPT ![i] = [j EXCEPT !.chains = chains, !.ok = ok]]
  BY <1>2, <1>3 DEF TInv
<1> QED BY <1>2, <1>3, <1>4, <1>5 DEF RunGoes

\* Whether the job still believes its writes after a statement failed.
Unharmed(i, chain) == job[i].ok /\ Head(chain).fails # "reported"

LEMMA RunMoves ==
  ASSUME TInv, NEW i \in Isolates, job[i] # None, NEW chain
  PROVE  /\ Run(i, chain) => RunGoes(i, chain, Rest(chain), job[i].ok)
         /\ RunFails(i, chain) => RunGoes(i, chain, RestAfterFailure(chain), Unharmed(i, chain))
<1>1. ASSUME Run(i, chain) PROVE RunGoes(i, chain, Rest(chain), job[i].ok)
  <2>1. PICK rest : rest = Rest(chain) OBVIOUS
  <2>2. PICK j : j = job[i] OBVIOUS
  <2>3. PICK chains : chains = Awaiting(job[i].chains, chain, rest) OBVIOUS
  <2>4. [j EXCEPT !.chains = chains] \in
          [kind : {j.kind}, phase : {j.phase}, slate : {j.slate}, row : {j.row},
           wrote : {j.wrote}, chains : {chains}, ok : {j.ok}]
    BY <2>2 DEF TInv, JobTyped, Job
  <2>5. [j EXCEPT !.chains = chains] = With(j, chains, j.ok) BY <2>4, JobIs DEF With
  <2>6. job' = [job EXCEPT ![i] = [j EXCEPT !.chains = chains]]
    BY <1>1, <2>1, <2>2, <2>3 DEF Run, TInv
  <2> QED BY <2>1, <2>2, <2>3, <2>5, <2>6 DEF RunGoes
<1>2. ASSUME RunFails(i, chain)
      PROVE  RunGoes(i, chain, RestAfterFailure(chain), Unharmed(i, chain))
  <2>1. PICK rest : rest = RestAfterFailure(chain) OBVIOUS
  <2>2. job' = [job EXCEPT ![i].chains = Awaiting(@, chain, rest), ![i].ok = Unharmed(i, chain)]
    BY <1>2, <2>1 DEF RunFails, Unharmed, TInv
  <2> QED BY <2>1, <2>2, ChainsMove
<1> QED BY <1>1, <1>2
-----------------------------------------------------------------------------
(* Types *)

TablesTyped ==
  /\ snapshots \in [Checkpoints -> Snapshot \union {None}]
  /\ prediction \in [forecast : Forecasts, final : Finals, excluded : BOOLEAN] \union {None}
  /\ form \in [marked : BOOLEAN, home : Nat, away : Nat]

LEMMA FormCounts ==
  ASSUME form \in [marked : BOOLEAN, home : Nat, away : Nat], NEW s, CountForm(s)
  PROVE  /\ form' \in [marked : BOOLEAN, home : Nat, away : Nat]
         /\ s.op \in OfForm
         /\ s.op = "mark" => form'.marked = TRUE /\ form'.home = form.home /\ form'.away = form.away
         /\ s.op = "home" => form'.marked = form.marked /\ form'.home = form.home + 1
                             /\ form'.away = form.away
         /\ s.op = "away" => form'.marked = form.marked /\ form'.home = form.home
                             /\ form'.away = form.away + 1
<1>1. s.op \in OfForm BY DEF CountForm, OfForm
<1>2. CASE s.op = "mark"
  <2>1. form' = [form EXCEPT !.marked = TRUE] BY <1>2 DEF CountForm
  <2>2. form' \in [marked : BOOLEAN, home : Nat, away : Nat] BY <2>1
  <2>3. /\ form'.marked = TRUE /\ form'.home = form.home
        /\ form'.away = form.away
    BY <2>1
  <2> QED BY <1>1, <1>2, <2>2, <2>3
<1>3. CASE s.op = "home"
  <2>1. form' = [form EXCEPT !.home = @ + 1] BY <1>3 DEF CountForm
  <2>2. form' \in [marked : BOOLEAN, home : Nat, away : Nat] BY <2>1
  <2>3. /\ form'.marked = form.marked /\ form'.home = form.home + 1
        /\ form'.away = form.away
    BY <2>1
  <2> QED BY <1>1, <1>3, <2>2, <2>3
<1>4. CASE s.op = "away"
  <2>1. form' = [form EXCEPT !.away = @ + 1] BY <1>4 DEF CountForm
  <2>2. form' \in [marked : BOOLEAN, home : Nat, away : Nat] BY <2>1
  <2>3. /\ form'.marked = form.marked /\ form'.home = form.home
        /\ form'.away = form.away + 1
    BY <2>1
  <2> QED BY <1>1, <1>4, <2>2, <2>3
<1> QED BY <1>1, <1>2, <1>3, <1>4 DEF OfForm

LEMMA ExecuteTyped ==
  ASSUME TablesTyped, NEW s \in Statement, Execute(s)
  PROVE  TablesTyped'
<1> DEFINE P == [forecast : Forecasts, final : Finals, excluded : BOOLEAN]
<1>0. \A old \in Finals, final \in Finals : Coalesce(old, final) \in Finals BY DEF Coalesce
<1>1. CASE ReplacePrediction(s)
  <2>1. s.op = "replace" BY <1>1 DEF ReplacePrediction
  <2>2. s.forecast \in Forecasts /\ s.final \in Finals BY <2>1 DEF Statement, OfGame, OfForm
  <2>3. prediction' \in P BY <1>1, <2>2 DEF ReplacePrediction
  <2> QED BY <1>1, <2>3 DEF ReplacePrediction, TablesTyped
<1>2. CASE InsertSnapshot(s)
  <2>1. s.op = "insert" BY <1>2 DEF InsertSnapshot
  <2>2. s.cp \in Checkpoints /\ s.frozen \in Frozen /\ s.final \in Finals
    BY <2>1 DEF Statement, OfGame, OfForm
  <2>3. [forecast |-> s.frozen.forecast, at |-> s.frozen.at, final |-> s.final, excluded |-> FALSE]
          \in Snapshot
    BY <2>2 DEF Frozen, Snapshot
  <2>4. Inserted(s) \in [Checkpoints -> Snapshot \union {None}] BY <2>3 DEF Inserted, TablesTyped
  <2> QED BY <1>2, <2>4 DEF InsertSnapshot, TablesTyped
<1>3. CASE GradeSnapshot(s)
  <2>1. s.op = "grade" BY <1>3 DEF GradeSnapshot
  <2>2. s.cp \in Checkpoints /\ s.final \in Finals BY <2>1 DEF Statement, OfGame, OfForm
  <2>3. ASSUME snapshots[s.cp] # None
        PROVE  [snapshots[s.cp] EXCEPT !.final = Coalesce(@, s.final)] \in Snapshot
    <3>1. snapshots[s.cp] \in Snapshot BY <2>2, <2>3 DEF TablesTyped
    <3> QED BY <1>0, <2>2, <3>1 DEF Snapshot
  <2>4. snapshots' \in [Checkpoints -> Snapshot \union {None}]
    BY <1>3, <2>2, <2>3 DEF GradeSnapshot, TablesTyped
  <2> QED BY <1>3, <2>4 DEF GradeSnapshot, TablesTyped
<1>4. CASE GradeSnapshots(s)
  <2>1. s.op = "gradeSnapshots" BY <1>4 DEF GradeSnapshots
  <2>2. s.final \in Finals BY <2>1 DEF Statement, OfGame, OfForm
  <2>3. ASSUME NEW c \in Checkpoints, snapshots[c] # None
        PROVE  [snapshots[c] EXCEPT !.final = Settled(@, s)] \in Snapshot
    <3>1. snapshots[c] \in Snapshot BY <2>3 DEF TablesTyped
    <3>2. Settled(snapshots[c].final, s) \in Finals BY <1>0, <2>2, <3>1 DEF Settled, Snapshot
    <3> QED BY <3>1, <3>2 DEF Snapshot
  <2>4. snapshots' \in [Checkpoints -> Snapshot \union {None}]
    BY <1>4, <2>3 DEF GradeSnapshots
  <2> QED BY <1>4, <2>4 DEF GradeSnapshots, TablesTyped
<1>5. CASE GradePredictions(s)
  <2>1. s.op = "gradePredictions" BY <1>5 DEF GradePredictions
  <2>2. s.final \in Finals BY <2>1 DEF Statement, OfGame, OfForm
  <2>3. ASSUME prediction # None PROVE [prediction EXCEPT !.final = Settled(@, s)] \in P
    <3>1. prediction \in P BY <2>3 DEF TablesTyped
    <3>2. Settled(prediction.final, s) \in Finals BY <1>0, <2>2, <3>1 DEF Settled
    <3> QED BY <3>1, <3>2
  <2>4. prediction' \in P \union {None} BY <1>5, <2>3 DEF GradePredictions
  <2> QED BY <1>5, <2>4 DEF GradePredictions, TablesTyped
<1>6. CASE ExcludeSnapshots(s)
  <2>1. ASSUME NEW c \in Checkpoints, snapshots[c] # None
        PROVE  [snapshots[c] EXCEPT !.excluded = TRUE] \in Snapshot
    <3>1. snapshots[c] \in Snapshot BY <2>1 DEF TablesTyped
    <3> QED BY <3>1 DEF Snapshot
  <2>2. snapshots' \in [Checkpoints -> Snapshot \union {None}]
    BY <1>6, <2>1 DEF ExcludeSnapshots, Excludes, TablesTyped
  <2> QED BY <1>6, <2>2 DEF ExcludeSnapshots, TablesTyped
<1>7. CASE ExcludePredictions(s)
  <2>1. ASSUME prediction # None PROVE [prediction EXCEPT !.excluded = TRUE] \in P
    <3>1. prediction \in P BY <2>1 DEF TablesTyped
    <3> QED BY <3>1
  <2>2. prediction' \in P \union {None}
    BY <1>7, <2>1 DEF ExcludePredictions, Excludes, TablesTyped
  <2> QED BY <1>7, <2>2 DEF ExcludePredictions, TablesTyped
<1>8. CASE CountForm(s)
  <2>1. form' \in [marked : BOOLEAN, home : Nat, away : Nat]
    BY <1>8, FormCounts DEF TablesTyped
  <2> QED BY <1>8, <2>1 DEF CountForm, TablesTyped
<1> QED BY <1>1, <1>2, <1>3, <1>4, <1>5, <1>6, <1>7, <1>8 DEF Execute

LEMMA SlatesTyped ==
  ASSUME TypeOK PROVE feed \in Slate
BY DEF TypeOK, Slate, Statuses

LEMMA LoadTyped ==
  ASSUME TInv, NEW i \in Isolates
  PROVE  /\ Load(i) \in Ledger
         /\ HasRow(Load(i)) => Load(i) \in Seen
         /\ \A row \in Ledger : Remember(i, row) => memory' \in [Isolates -> Ledger]
<1>1. Load(i) \in Ledger BY DEF Load, TInv
<1>2. HasRow(Load(i)) => Load(i) \in Seen BY <1>1, RowTyped
<1>3. ASSUME NEW row \in Ledger, Remember(i, row) PROVE memory' \in [Isolates -> Ledger]
  BY <1>3 DEF Remember, TInv, Ledger
<1> QED BY <1>1, <1>2, <1>3

New(kind, phase, slate, row, chains) ==
  [kind |-> kind, phase |-> phase, slate |-> slate, row |-> row, wrote |-> {},
   chains |-> chains, ok |-> TRUE]
LEMMA BeginMoves ==
  ASSUME TInv, NEW i \in Isolates, NEW kind, NEW phase, NEW slate, NEW row, NEW chains,
         Begin(i, kind, phase, slate, row, chains),
         New(kind, phase, slate, row, chains) \in Job, Slated(New(kind, phase, slate, row, chains))
  PROVE  /\ jobs' \in 0..MaxJobs
         /\ job' = [k \in Isolates |-> job'[k]]
         /\ \A k \in Isolates : JobTyped(k)'
         /\ \A k \in Isolates \ {i} : job'[k] = job[k]
         /\ job[i] = None
         /\ job'[i] = New(kind, phase, slate, row, chains)
<1>1. PICK j : j = New(kind, phase, slate, row, chains) OBVIOUS
<1>2. job' = [job EXCEPT ![i] = j] BY <1>1 DEF Begin, New
<1>3. jobs' \in 0..MaxJobs BY LedgerAssumption DEF LedgerAssumption, Begin, TInv, TypeOK
<1>4. job[i] = None BY DEF Begin
<1>5. /\ job' = [k \in Isolates |-> job'[k]]
      /\ \A k \in Isolates : JobTyped(k)'
      /\ job'[i] = j /\ \A k \in Isolates \ {i} : job'[k] = job[k]
  BY <1>1, <1>2, Moved
<1> QED BY <1>1, <1>3, <1>4, <1>5

LEMMA RestIsPart ==
  ASSUME NEW chain \in Chain
  PROVE  Rest(chain) \in {<<>>, Tail(chain)} /\ RestAfterFailure(chain) \in {<<>>, Tail(chain)}
BY DEF Rest, RestAfterFailure

LEMMA AwaitingTyped ==
  ASSUME NEW chains \in SUBSET Chain, NEW chain \in chains, NEW rest \in {<<>>, Tail(chain)}
  PROVE  Awaiting(chains, chain, rest) \in SUBSET Chain
BY ChainParts DEF Awaiting

LEMMA RunTyped ==
  ASSUME TInv, NEW i \in Isolates, job[i] # None, NEW chain \in job[i].chains,
         Run(i, chain) \/ RunFails(i, chain)
  PROVE  /\ TablesTyped'
         /\ job' = [k \in Isolates |-> job'[k]]
         /\ \A k \in Isolates : JobTyped(k)'
         /\ \A k \in Isolates \ {i} : job'[k] = job[k]
         /\ \E rest \in {<<>>, Tail(chain)}, ok \in BOOLEAN :
              RunGoes(i, chain, rest, ok)
              /\ job'[i] = With(job[i], Awaiting(job[i].chains, chain, rest), ok)
<1>1. PICK j : j = job[i] OBVIOUS
<1>2. j \in Job /\ Slated(j) /\ j # None BY <1>1 DEF TInv, JobTyped
<1>3. j.chains \in SUBSET Chain /\ j.ok \in BOOLEAN BY <1>2 DEF Job
<1>4. chain \in Chain /\ chain \in j.chains BY <1>1, <1>3
<1>5. \E rest \in {<<>>, Tail(chain)}, ok \in BOOLEAN : RunGoes(i, chain, rest, ok)
  <2>1. job[i].ok \in BOOLEAN /\ Unharmed(i, chain) \in BOOLEAN BY <1>1, <1>3 DEF Unharmed
  <2>2. CASE Run(i, chain) BY <2>1, <2>2, <1>4, RunMoves, RestIsPart
  <2>3. CASE RunFails(i, chain) BY <2>1, <2>3, <1>4, RunMoves, RestIsPart
  <2> QED BY <2>2, <2>3
<1>6. PICK rest \in {<<>>, Tail(chain)}, ok \in BOOLEAN : RunGoes(i, chain, rest, ok) BY <1>5
<1>7. PICK chains : chains = Awaiting(j.chains, chain, rest) OBVIOUS
<1>8. chains \in SUBSET Chain BY <1>3, <1>4, <1>7, AwaitingTyped
<1>9. PICK k : k = With(j, chains, ok) OBVIOUS
<1>10. k \in Job /\ Slated(k) BY <1>2, <1>8, <1>9 DEF With, Job, Slated
<1>11. job' = [job EXCEPT ![i] = k] BY <1>1, <1>6, <1>7, <1>9 DEF RunGoes
<1>12. /\ job' = [n \in Isolates |-> job'[n]] /\ \A n \in Isolates : JobTyped(n)'
       /\ \A n \in Isolates \ {i} : job'[n] = job[n]
       /\ job'[i] = k
  BY <1>10, <1>11, Moved
<1>13. TablesTyped'
  <2>1. TablesTyped BY DEF TInv, TypeOK, TablesTyped
  <2>2. Head(chain) \in Statement BY <1>4, ChainParts
  <2>3. UNCHANGED tables \/ Execute(Head(chain)) BY DEF Run, RunFails
  <2>4. CASE UNCHANGED tables BY <2>1, <2>4 DEF TablesTyped, tables
  <2> QED BY <2>1, <2>2, <2>3, <2>4, ExecuteTyped
<1> QED BY <1>1, <1>6, <1>7, <1>9, <1>12, <1>13

\* Collections.
LEMMA CollectTyped ==
  ASSUME TInv, NEW i \in Isolates, Collect(i)
  PROVE  /\ job' = [k \in Isolates |-> job'[k]] /\ \A k \in Isolates : JobTyped(k)'
         /\ memory' \in [Isolates -> Ledger] /\ edge' \in Ledger
<1>1. PICK j : j = job[i] OBVIOUS
<1>2. ASSUME j # None PROVE j \in Job /\ Slated(j) BY <1>1, <1>2 DEF TInv, JobTyped
<1>3. memory \in [Isolates -> Ledger] /\ edge \in Ledger BY DEF TInv
<1>4. ASSUME NEW row \in Seen, NEW wrote \in SUBSET Checkpoints, NEW chains \in SUBSET Chain,
             j # None, Writes(i, row, wrote, chains), Remember(i, row), UNCHANGED edge
      PROVE  /\ job' = [k \in Isolates |-> job'[k]] /\ \A k \in Isolates : JobTyped(k)'
             /\ memory' \in [Isolates -> Ledger] /\ edge' \in Ledger
  <2> DEFINE w == [kind |-> j.kind, phase |-> "writing", slate |-> j.slate,
                   row |-> row, wrote |-> wrote, chains |-> chains, ok |-> j.ok]
  <2>0. row \in Ledger BY DEF Ledger
  <2>1. job' = [job EXCEPT ![i] = w] BY <1>1, <1>4, WritesMoves
  <2>2. w \in Job BY <1>2, <1>4, <2>0 DEF Job
  <2>3. j.kind = "collect" => Slated(w) BY <1>2, <1>4 DEF Slated
  <2>4. ASSUME j.kind # "collect" PROVE FALSE
    BY <1>1, <2>4 DEF Collect, FreezeFirst, FreezeAgain, FreezeFinal, FreezeNothing, FinishCollect, In
  <2>5. Slated(w) BY <2>3, <2>4
  <2> HIDE DEF w
  <2>6. job' = [k \in Isolates |-> job'[k]] /\ \A k \in Isolates : JobTyped(k)'
    BY <2>1, <2>2, <2>5, Moved
  <2>7. memory' \in [Isolates -> Ledger] BY <1>4, <2>0, LoadTyped
  <2> QED BY <1>3, <1>4, <2>6, <2>7
<1>5. ASSUME job' = [job EXCEPT ![i] = None]
      PROVE  job' = [k \in Isolates |-> job'[k]] /\ \A k \in Isolates : JobTyped(k)'
  BY <1>5, Moved
<1>6. TypeOK BY DEF TInv
<1>7. ASSUME In(i, {"collect"}, "built") PROVE j # None /\ j.slate \in Board
  BY <1>1, <1>2, <1>7 DEF In, Slated
<1>8. CASE FreezeFirst(i)
  <2>1. In(i, {"collect"}, "built") BY <1>8 DEF FreezeFirst
  <2>2. PICK row : row = FreezeNew(j.slate.forecast) OBVIOUS
  <2>3. j.slate.forecast \in Forecasts BY <1>7, <2>1 DEF Board
  <2>4. /\ row \in Seen /\ Filled(row) = {"FIRST_AVAILABLE", ClassifyCheckpoint}
    BY <1>6, <2>2, <2>3, NewRow
  <2>5. Filled(row) \in SUBSET Checkpoints BY DEF Filled
  <2>6. {<<Replace(row, "ignored"), Insert(row, "FIRST_AVAILABLE", "ignored"),
           Insert(row, ClassifyCheckpoint, "ignored")>>} \in SUBSET Chain
    <3>1. Replace(row, "ignored") \in Statement BY <2>4, StatementsTyped DEF Fails
    <3>2. Insert(row, "FIRST_AVAILABLE", "ignored") \in Statement
      BY <2>4, StatementsTyped DEF Fails
    <3>3. Insert(row, ClassifyCheckpoint, "ignored") \in Statement
      BY <2>4, StatementsTyped DEF Fails
    <3> QED BY <3>1, <3>2, <3>3, ShortChains
  <2>7. /\ Writes(i, row, Filled(row),
                  {<<Replace(row, "ignored"), Insert(row, "FIRST_AVAILABLE", "ignored"),
                     Insert(row, ClassifyCheckpoint, "ignored")>>})
        /\ Remember(i, row) /\ UNCHANGED edge
    BY <1>1, <1>8, <2>2 DEF FreezeFirst
  <2> QED BY <1>4, <1>7, <2>1, <2>4, <2>5, <2>6, <2>7
<1>9. CASE FreezeAgain(i)
  <2>1. In(i, {"collect"}, "built") /\ HasRow(Load(i)) BY <1>9 DEF FreezeAgain
  <2>2. PICK old : old = Load(i) OBVIOUS
  <2>3. old \in Seen BY <2>1, <2>2, LoadTyped
  <2>4. PICK row : row = Refreeze(old, j.slate.forecast) OBVIOUS
  <2>5. j.slate.forecast \in Forecasts BY <1>7, <2>1 DEF Board
  <2>6. row \in Seen BY <1>6, <2>3, <2>4, <2>5, RowAgain
  <2>7. PICK new : new = Filled(row) \ Filled(old) OBVIOUS
  <2>8. new \in SUBSET Checkpoints BY <2>7 DEF Filled
  <2>9. PICK bare : bare = [row EXCEPT !.final = None] OBVIOUS
  <2>10. bare \in Seen /\ Filled(bare) = Filled(row)
    BY <2>6, <2>9 DEF Seen, Row, Finals, Filled
  <2>11. PICK chains : chains = {<<Insert(bare, c, "ignored")>> : c \in new}
                     \union (IF row.forecast = old.forecast THEN {} ELSE {<<Replace(row, "reported")>>})
    OBVIOUS
  <2>12. chains \in SUBSET Chain
    <3>1. \A c \in new : <<Insert(bare, c, "ignored")>> \in Chain
      BY <2>7, <2>10, StatementsTyped, ShortChains DEF Fails
    <3>2. <<Replace(row, "reported")>> \in Chain
      <4>1. "FIRST_AVAILABLE" \in Filled(row) BY <2>6 DEF Seen, Filled, Checkpoints
      <4> QED BY <2>6, <4>1, StatementsTyped, ShortChains DEF Fails
    <3> QED BY <2>11, <3>1, <3>2
  <2>13. Writes(i, row, new, chains) /\ Remember(i, row) /\ UNCHANGED edge
    BY <1>1, <1>9, <2>2, <2>4, <2>7, <2>9, <2>11 DEF FreezeAgain
  <2> QED BY <1>4, <1>7, <2>1, <2>6, <2>8, <2>12, <2>13
<1>10. CASE FreezeFinal(i)
  <2>1. In(i, {"collect"}, "built") /\ HasRow(Load(i)) BY <1>10 DEF FreezeFinal
  <2>2. PICK old : old = Load(i) OBVIOUS
  <2>3. old \in Seen BY <2>1, <2>2, LoadTyped
  <2>4. PICK row : row = ApplyFinal(old, j.slate) OBVIOUS
  <2>5. row \in Seen BY <1>7, <2>1, <2>3, <2>4, RowGraded
  <2>6. Filled(row) \in SUBSET Checkpoints BY DEF Filled
  <2>7. PersistRow(row) \in SUBSET Chain BY <2>5, PersistTyped
  <2>8. Writes(i, row, Filled(row), PersistRow(row)) /\ Remember(i, row) /\ UNCHANGED edge
    BY <1>1, <1>10, <2>2, <2>4 DEF FreezeFinal
  <2> QED BY <1>4, <1>7, <2>1, <2>5, <2>6, <2>7, <2>8
<1>11. CASE FreezeNothing(i)
  <2>1. job' = [job EXCEPT ![i] = None] /\ memory' = [memory EXCEPT ![i] = Load(i)] /\ edge' = edge
    BY <1>11 DEF FreezeNothing
  <2>2. memory' \in [Isolates -> Ledger] BY <1>3, <2>1, LoadTyped
  <2> QED BY <1>3, <1>5, <2>1, <2>2
<1>12. CASE FinishCollect(i)
  <2>1. j # None BY <1>1, <1>12 DEF FinishCollect, In
  <2>2. j.row \in Ledger BY <1>2, <2>1 DEF Job
  <2>3. CASE j.wrote # {}
    <3>1. Save(i) BY <1>1, <1>12, <2>3 DEF FinishCollect
    <3>2. memory' \in [Isolates -> Ledger] /\ edge' \in Ledger
      BY <1>1, <1>3, <2>2, <3>1 DEF Save, Ledger
    <3> QED BY <1>5, <3>1, <3>2 DEF Save
  <2>4. CASE j.wrote = {} BY <1>1, <1>3, <1>5, <1>12, <2>4 DEF FinishCollect
  <2> QED BY <2>3, <2>4
<1> QED BY <1>8, <1>9, <1>10, <1>11, <1>12 DEF Collect

\* Harvests and settlements.
LEMMA HarvestTyped ==
  ASSUME TInv, NEW i \in Isolates, Harvest(i)
  PROVE  /\ job' = [k \in Isolates |-> job'[k]] /\ \A k \in Isolates : JobTyped(k)'
         /\ memory' \in [Isolates -> Ledger] /\ edge' \in Ledger
<1>1. PICK j : j = job[i] OBVIOUS
<1>2. ASSUME j # None PROVE j \in Job /\ Slated(j) BY <1>1, <1>2 DEF TInv, JobTyped
<1>3. memory \in [Isolates -> Ledger] /\ edge \in Ledger /\ feed \in Slate /\ TypeOK
  BY SlatesTyped DEF TInv
<1>4. ASSUME NEW phase \in {"grading", "form"}, NEW chains \in SUBSET Chain, j # None,
             j.phase \in {"writing", "grading"}, j.kind \in {"harvest", "settle"},
             Await(i, phase, chains)
      PROVE  job' = [k \in Isolates |-> job'[k]] /\ \A k \in Isolates : JobTyped(k)'
  <2> DEFINE w == [kind |-> j.kind, phase |-> phase, slate |-> j.slate, row |-> j.row,
                   wrote |-> j.wrote, chains |-> chains, ok |-> j.ok]
  <2>1. job' = [job EXCEPT ![i] = w] BY <1>1, <1>4, AwaitMoves
  <2>2. w \in Job BY <1>2, <1>4 DEF Job
  <2>3. Slated(w) BY <1>2, <1>4 DEF Slated
  <2> HIDE DEF w
  <2> QED BY <2>1, <2>2, <2>3, Moved
<1>5. CASE HarvestRow(i)
  <2>0. j # None /\ j.kind = "harvest" BY <1>1, <1>5 DEF HarvestRow, In
  <2>1. PICK old : old = j.row OBVIOUS
  <2>2. old \in Ledger BY <1>2, <2>0, <2>1 DEF Job
  <2>3. Ungraded(old) => old \in Seen BY <2>2, RowTyped DEF Ungraded
  <2>4. PICK row : row = IF Ungraded(old) THEN ApplyFinal(old, feed) ELSE old OBVIOUS
  <2>5. Ungraded(old) => row \in Seen BY <1>3, <2>3, <2>4, RowGraded
  <2>6. row \in Ledger BY <2>2, <2>4, <2>5 DEF Ledger
  <2>7. PICK wrote : wrote = IF Ungraded(old) THEN Filled(row) ELSE {} OBVIOUS
  <2>8. PICK chains :
          chains = IF ~Ungraded(old) THEN {}
                   ELSE PersistRow(row) \union
                        (IF row.final = None THEN {}
                         ELSE {GradeSnapshotsForGame(row.final, FALSE, "reported"),
                               ApplyFinalToForm("reported")})
    OBVIOUS
  <2>9. chains \in SUBSET Chain
    <3>1. CASE ~Ungraded(old) BY <2>8, <3>1
    <3>2. CASE Ungraded(old)
      <4>1. PersistRow(row) \subseteq Chain BY <2>5, <3>2, PersistTyped
      <4>2. row.final \in Finals BY <2>5, <3>2 DEF Seen, Row
      <4>3. GradeSnapshotsForGame(row.final, FALSE, "reported") \in Chain
        BY <4>2, GameChainsTyped DEF Fails
      <4>4. ApplyFinalToForm("reported") \in Chain BY GameChainsTyped DEF Fails
      <4> QED BY <2>8, <3>2, <4>1, <4>3, <4>4
    <3> QED BY <3>1, <3>2
  <2>10. wrote \in SUBSET Checkpoints BY <2>7 DEF Filled
  <2>18. PICK slate : slate = feed OBVIOUS
  <2> DEFINE w == [kind |-> j.kind, phase |-> "writing", slate |-> slate, row |-> row,
                   wrote |-> wrote, chains |-> chains, ok |-> j.ok]
  <2>11. Grades(i, slate, row, wrote, chains)
    BY <1>1, <1>5, <2>1, <2>4, <2>7, <2>8, <2>18 DEF HarvestRow, Grades
  <2>12. job' = [job EXCEPT ![i] = w]
    <3> QED BY <1>1, <2>0, <2>11, RowMoves
  <2>13. w \in Job BY <1>2, <1>3, <2>0, <2>6, <2>9, <2>10, <2>18 DEF Job
  <2>14. Slated(w) BY <1>3, <2>0, <2>18 DEF Slated
  <2>15. Remember(i, row) /\ edge' = edge BY <1>1, <1>5, <2>1, <2>4 DEF HarvestRow
  <2> HIDE DEF w
  <2>16. job' = [k \in Isolates |-> job'[k]] /\ \A k \in Isolates : JobTyped(k)'
    BY <2>12, <2>13, <2>14, Moved
  <2>17. memory' \in [Isolates -> Ledger] BY <2>6, <2>15, LoadTyped
  <2> QED BY <1>3, <2>15, <2>16, <2>17
<1>6. CASE GradePopulation(i)
  <2>1. j # None /\ j.kind \in {"harvest", "settle"} /\ j.phase = "writing"
    BY <1>1, <1>6 DEF GradePopulation, In
  <2>2. PICK chains : chains = IF LacksFinal /\ Over(j.slate)
                               THEN {GradeSnapshotsForGame(j.slate.score, FALSE, "dropped")} ELSE {}
    OBVIOUS
  <2>3. j.slate.score \in Finals BY <1>2, <2>1 DEF Slated, Slate
  <2>4. GradeSnapshotsForGame(j.slate.score, FALSE, "dropped") \in Chain
    BY <2>3, GameChainsTyped DEF Fails
  <2>5. chains \in SUBSET Chain BY <2>2, <2>4
  <2>6. Await(i, "grading", chains) /\ memory' = memory /\ edge' = edge
    BY <1>1, <1>6, <2>2 DEF GradePopulation, caches
  <2> QED BY <1>3, <1>4, <2>1, <2>5, <2>6
<1>7. CASE ApplyScoreboardForm(i)
  <2>1. j # None /\ j.kind = "harvest" /\ j.phase = "grading"
    BY <1>1, <1>7 DEF ApplyScoreboardForm, In
  <2>2. PICK chains :
          chains = IF Over(j.slate) THEN {ApplyFinalToForm("dropped")} ELSE {}
    OBVIOUS
  <2>3. ApplyFinalToForm("dropped") \in Chain BY GameChainsTyped DEF Fails
  <2>4. chains \in SUBSET Chain BY <2>2, <2>3
  <2>5. Await(i, "form", chains) /\ memory' = memory /\ edge' = edge
    BY <1>1, <1>7, <2>2 DEF ApplyScoreboardForm, caches
  <2> QED BY <1>3, <1>4, <2>1, <2>4, <2>5
<1>8. CASE FinishHarvest(i)
  <2>1. j # None /\ Save(i) BY <1>1, <1>8 DEF FinishHarvest, In
  <2>2. j.row \in Ledger BY <1>2, <2>1 DEF Job
  <2>3. memory' \in [Isolates -> Ledger] /\ edge' \in Ledger
    BY <1>1, <1>3, <2>1, <2>2 DEF Save, Ledger
  <2>4. job' = [job EXCEPT ![i] = None] BY <2>1 DEF Save
  <2> QED BY <2>3, <2>4, Moved
<1> QED BY <1>5, <1>6, <1>7, <1>8 DEF Harvest

\* What the world and the operator start or cut off.
LEMMA OthersTyped ==
  ASSUME TInv, NEW i \in Isolates,
         \/ BuildSlate(i) \/ StartHarvest(i) \/ StartSettle(i) \/ DeskGrades(i) \/ DeskExcludes(i)
         \/ FetchFails(i) \/ Finish(i) \/ Die(i)
  PROVE  /\ job' = [k \in Isolates |-> job'[k]] /\ \A k \in Isolates : JobTyped(k)'
         /\ memory' \in [Isolates -> Ledger] /\ edge' \in Ledger /\ jobs' \in 0..MaxJobs
<1>1. /\ memory \in [Isolates -> Ledger] /\ edge \in Ledger /\ jobs \in 0..MaxJobs
      /\ None \in Ledger /\ Cold \in Ledger
  BY DEF TInv, TypeOK, Ledger
<1>2. PICK slate : slate = feed OBVIOUS
<1>3. slate \in Slate BY <1>2, SlatesTyped DEF TInv
<1>4. CASE BuildSlate(i)
  <2>1. PICK f \in Forecasts :
          Begin(i, "collect", "built",
                [status |-> slate.status, score |-> slate.score, forecast |-> f], None, {})
    BY <1>2, <1>4 DEF BuildSlate
  <2>2. PICK board : board = [status |-> slate.status, score |-> slate.score, forecast |-> f] OBVIOUS
  <2>3. board \in Board BY <1>3, <2>2 DEF Slate, Board
  <2>4. Begin(i, "collect", "built", board, None, {}) BY <2>1, <2>2
  <2>5. New("collect", "built", board, None, {}) \in Job
        /\ Slated(New("collect", "built", board, None, {}))
    BY <1>1, <2>3 DEF New, Job, Slated
  <2> QED BY <1>1, <1>4, <2>4, <2>5, BeginMoves DEF BuildSlate, caches
<1>5. CASE StartHarvest(i)
  <2>1. PICK row : row = Load(i) OBVIOUS
  <2>2. row \in Ledger BY <2>1, LoadTyped
  <2>3. Begin(i, "harvest", "loaded", None, row, {}) BY <1>5, <2>1 DEF StartHarvest
  <2>4. memory' = [memory EXCEPT ![i] = row] /\ edge' = edge BY <1>5, <2>1 DEF StartHarvest
  <2>5. memory' \in [Isolates -> Ledger] BY <1>1, <2>2, <2>4
  <2>7. New("harvest", "loaded", None, row, {}) \in Job
        /\ Slated(New("harvest", "loaded", None, row, {}))
    BY <2>2 DEF New, Job, Slated
  <2>6. /\ job' = [k \in Isolates |-> job'[k]] /\ \A k \in Isolates : JobTyped(k)'
        /\ jobs' \in 0..MaxJobs
    BY <2>3, <2>7, BeginMoves
  <2> QED BY <1>1, <2>4, <2>5, <2>6
<1>6. CASE StartSettle(i)
  <2>1. Begin(i, "settle", "writing", slate, None, {}) BY <1>2, <1>6 DEF StartSettle
  <2>2. New("settle", "writing", slate, None, {}) \in Job
        /\ Slated(New("settle", "writing", slate, None, {}))
    BY <1>1, <1>3 DEF New, Job, Slated
  <2> QED BY <1>1, <1>6, <2>1, <2>2, BeginMoves DEF StartSettle, caches
<1>7. CASE DeskGrades(i)
  <2>1. PICK score \in Scores, force \in BOOLEAN :
          Begin(i, "desk", "desk", None, None, {GradeSnapshotsForGame(score, force, "reported")})
    BY <1>7 DEF DeskGrades
  <2>2. GradeSnapshotsForGame(score, force, "reported") \in Chain
    BY GameChainsTyped DEF Fails, Finals
  <2>3. PICK chains : chains = {GradeSnapshotsForGame(score, force, "reported")} OBVIOUS
  <2>4. New("desk", "desk", None, None, chains) \in Job
        /\ Slated(New("desk", "desk", None, None, chains))
    BY <1>1, <2>2, <2>3 DEF New, Job, Slated
  <2>5. Begin(i, "desk", "desk", None, None, chains) BY <2>1, <2>3
  <2> QED BY <1>1, <1>7, <2>4, <2>5, BeginMoves DEF DeskGrades, caches
<1>8. CASE DeskExcludes(i)
  <2>1. PICK force \in BOOLEAN :
          Begin(i, "desk", "desk", None, None, {ExcludeSnapshotsForGame(force)})
    BY <1>8 DEF DeskExcludes
  <2>2. ExcludeSnapshotsForGame(force) \in Chain BY GameChainsTyped DEF Fails
  <2>3. PICK chains : chains = {ExcludeSnapshotsForGame(force)} OBVIOUS
  <2>4. New("desk", "desk", None, None, chains) \in Job
        /\ Slated(New("desk", "desk", None, None, chains))
    BY <1>1, <2>2, <2>3 DEF New, Job, Slated
  <2>5. Begin(i, "desk", "desk", None, None, chains) BY <2>1, <2>3
  <2> QED BY <1>1, <1>8, <2>4, <2>5, BeginMoves DEF DeskExcludes, caches
<1>9. CASE FetchFails(i)
  <2>1. PICK j : j = job[i] OBVIOUS
  <2>2. j # None /\ j \in Job /\ Slated(j) /\ j.kind = "harvest" /\ j.chains = {}
    BY <1>9, <2>1 DEF FetchFails, In, TInv, JobTyped
  <2>3. job' = [job EXCEPT ![i].phase = "form"] BY <1>9 DEF FetchFails
  <2>4. Await(i, "form", {})
    <3>1. job = [k \in Isolates |-> job[k]] BY DEF TInv
    <3>2. job' = [job EXCEPT ![i] = [j EXCEPT !.phase = "form"]] BY <2>1, <2>3, <3>1
    <3>3. [j EXCEPT !.phase = "form"] \in
            [kind : {j.kind}, phase : {"form"}, slate : {j.slate}, row : {j.row},
             wrote : {j.wrote}, chains : {{}}, ok : {j.ok}]
      BY <2>2 DEF Job
    <3>4. [j EXCEPT !.phase = "form", !.chains = {}] \in
            [kind : {j.kind}, phase : {"form"}, slate : {j.slate}, row : {j.row},
             wrote : {j.wrote}, chains : {{}}, ok : {j.ok}]
      BY <2>2 DEF Job
    <3>5. [j EXCEPT !.phase = "form"] = [j EXCEPT !.phase = "form", !.chains = {}]
      BY <3>3, <3>4, JobIs
    <3> QED BY <2>1, <3>1, <3>2, <3>5 DEF Await
  <2> DEFINE w == [kind |-> j.kind, phase |-> "form", slate |-> j.slate, row |-> j.row,
                   wrote |-> j.wrote, chains |-> {}, ok |-> j.ok]
  <2>5. job' = [job EXCEPT ![i] = w] BY <2>1, <2>2, <2>4, AwaitMoves
  <2>6. w \in Job BY <2>2 DEF Job
  <2>7. Slated(w) BY <2>2 DEF Slated
  <2> HIDE DEF w
  <2>8. job' = [k \in Isolates |-> job'[k]] /\ \A k \in Isolates : JobTyped(k)'
    BY <2>5, <2>6, <2>7, Moved
  <2> QED BY <1>1, <1>9, <2>8 DEF FetchFails, caches
<1>10. CASE Finish(i)
  <2>1. job' = [job EXCEPT ![i] = None] BY <1>10 DEF Finish
  <2> QED BY <1>1, <1>10, <2>1, Moved DEF Finish, caches
<1>11. CASE Die(i)
  <2>1. job' = [job EXCEPT ![i] = None] BY <1>11 DEF Die
  <2>2. memory' \in [Isolates -> Ledger] BY <1>1, <1>11 DEF Die
  <2> QED BY <1>1, <1>11, <2>1, <2>2, Moved DEF Die
<1> QED BY <1>4, <1>5, <1>6, <1>7, <1>8, <1>9, <1>10, <1>11

LEMMA Worlds ==
  ASSUME TInv, Tick \/ GoLive \/ Complete \/ CallOff \/ MakeUp \/ Restate \/ Evict
  PROVE  /\ now' \in Opening..Kickoff /\ feed' \in Slate /\ faults' \in 0..MaxFaults
         /\ memory' \in [Isolates -> Ledger] /\ edge' \in Ledger
         /\ UNCHANGED <<tables, job, jobs>>
<1>1. /\ now \in Opening..Kickoff /\ feed \in Slate /\ faults \in 0..MaxFaults
      /\ memory \in [Isolates -> Ledger] /\ edge \in Ledger /\ Cold \in Ledger
      /\ Opening \in Nat /\ MaxFaults \in Nat
  BY SlatesTyped, LedgerAssumption DEF LedgerAssumption, TInv, TypeOK, Ledger
<1>2. CASE Tick
  <2>1. now' = now + 1 /\ now < Kickoff BY <1>2 DEF Tick
  <2>2. now' \in Opening..Kickoff BY <1>1, <2>1 DEF Kickoff
  <2> QED BY <1>1, <1>2, <2>2 DEF Tick, caches
<1>3. CASE GoLive
  <2>1. feed' \in Slate BY <1>3 DEF GoLive, Slate, Statuses, Finals
  <2> QED BY <1>1, <1>3, <2>1 DEF GoLive, caches
<1>4. CASE Complete
  <2>1. feed' \in Slate BY <1>4 DEF Complete, Slate, Statuses, Finals
  <2> QED BY <1>1, <1>4, <2>1 DEF Complete, caches
<1>7. CASE CallOff
  <2>1. feed' \in Slate BY <1>7 DEF CallOff, Slate, Statuses, Finals
  <2> QED BY <1>1, <1>7, <2>1 DEF CallOff, caches
<1>8. CASE MakeUp
  <2>1. feed' \in Slate BY <1>8 DEF MakeUp, Slate, Statuses, Finals
  <2>2. faults' \in 0..MaxFaults BY <1>1, <1>8 DEF MakeUp
  <2> QED BY <1>1, <1>8, <2>1, <2>2 DEF MakeUp, caches
<1>5. CASE Restate
  <2>1. feed' \in Slate BY <1>1, <1>5 DEF Restate, Slate, Statuses, Finals
  <2>2. faults' \in 0..MaxFaults BY <1>1, <1>5 DEF Restate
  <2> QED BY <1>1, <1>5, <2>1, <2>2 DEF Restate, caches
<1>6. CASE Evict
  <2>1. faults' \in 0..MaxFaults BY <1>1, <1>6 DEF Evict
  <2>2. memory' \in [Isolates -> Ledger] /\ edge' \in Ledger BY <1>1, <1>6 DEF Evict
  <2> QED BY <1>1, <1>6, <2>1, <2>2 DEF Evict
<1> QED BY <1>2, <1>3, <1>4, <1>5, <1>6, <1>7, <1>8

\* What steps of a kind leave alone.
JobStep(i) ==
  \/ BuildSlate(i) \/ StartHarvest(i) \/ StartSettle(i) \/ DeskGrades(i) \/ DeskExcludes(i)
  \/ FetchFails(i) \/ Finish(i) \/ Die(i)
Going(i) == JobStep(i) \/ Collect(i) \/ Harvest(i)

LEMMA GoingFrame ==
  ASSUME NEW i, Going(i)
  PROVE  UNCHANGED <<tables, now, feed>>
<1>1. CASE JobStep(i)
  BY <1>1 DEF JobStep, BuildSlate, StartHarvest, StartSettle, DeskGrades, DeskExcludes, FetchFails,
              Finish, Die, world
<1>2. CASE Collect(i)
  BY <1>2 DEF Collect, FreezeFirst, FreezeAgain, FreezeFinal, FreezeNothing, FinishCollect, world
<1>3. CASE Harvest(i)
  BY <1>3 DEF Harvest, HarvestRow, GradePopulation, ApplyScoreboardForm, FinishHarvest, world
<1> QED BY <1>1, <1>2, <1>3 DEF Going

LEMMA FaultsCount ==
  ASSUME faults \in 0..MaxFaults, faults < MaxFaults, faults' = faults + 1
  PROVE  faults' \in 0..MaxFaults
BY LedgerAssumption DEF LedgerAssumption

LEMMA CountersTyped ==
  ASSUME TInv, NEW i \in Isolates, Going(i)
  PROVE  faults' \in 0..MaxFaults /\ jobs' \in 0..MaxJobs
<1>0. faults \in 0..MaxFaults /\ jobs \in 0..MaxJobs BY DEF TInv, TypeOK
<1>1. CASE JobStep(i)
  <2>1. jobs' \in 0..MaxJobs BY <1>1, OthersTyped DEF JobStep
  <2>2. faults' = faults \/ (faults < MaxFaults /\ faults' = faults + 1)
    BY <1>1 DEF JobStep, BuildSlate, StartHarvest, StartSettle, DeskGrades, DeskExcludes, FetchFails,
                Finish, Die, world
  <2> QED BY <1>0, <2>1, <2>2, FaultsCount
<1>2. CASE Collect(i)
  <2>1. UNCHANGED <<faults, jobs>>
    BY <1>2 DEF Collect, FreezeFirst, FreezeAgain, FreezeFinal, FreezeNothing, FinishCollect, world
  <2> QED BY <1>0, <2>1
<1>3. CASE Harvest(i)
  <2>1. UNCHANGED <<faults, jobs>>
    BY <1>3 DEF Harvest, HarvestRow, GradePopulation, ApplyScoreboardForm, FinishHarvest, world
  <2> QED BY <1>0, <2>1
<1> QED BY <1>1, <1>2, <1>3 DEF Going

\* A step of the ledger is a step of a job, a statement, a step of the world or nothing.
LEMMA Steps ==
  ASSUME [Next]_vars
  PROVE  \/ \E i \in Isolates : Going(i)
         \/ \E i \in Isolates : job[i] # None /\ \E chain \in job[i].chains :
                                                   Run(i, chain) \/ RunFails(i, chain)
         \/ Tick \/ GoLive \/ Complete \/ CallOff \/ MakeUp \/ Restate \/ Evict
         \/ UNCHANGED vars
BY DEF Next, Going, JobStep, Running, Failing

LEMMA TypesFrom ==
  ASSUME TInv,
         now' \in Opening..Kickoff, feed' \in Slate, faults' \in 0..MaxFaults, jobs' \in 0..MaxJobs,
         TablesTyped', memory' \in [Isolates -> Ledger], edge' \in Ledger,
         job' = [k \in Isolates |-> job'[k]], \A k \in Isolates : JobTyped(k)'
  PROVE  TInv'
<1>1. \A x \in Ledger : HasRow(x) => x \in Row BY RowTyped
<1>2. \A i \in Isolates : memory'[i] \in Ledger OBVIOUS
<1>3. \A i \in Isolates : HasRow(memory'[i]) => memory'[i] \in Row BY <1>1, <1>2
<1>4. HasRow(edge') => edge' \in Row BY <1>1
<1>5. feed' \in [status : {"scheduled", "live", "completed", "postponed"}, score : Finals]
  BY DEF Slate, Statuses
<1>6. TypeOK' BY <1>3, <1>4, <1>5 DEF TypeOK, TablesTyped, HasRow
<1> QED BY <1>6 DEF TInv

LEMMA TypeStep == TInv /\ [Next]_vars => TInv'
<1> SUFFICES ASSUME TInv, [Next]_vars PROVE TInv' OBVIOUS
<1>1. /\ now \in Opening..Kickoff /\ feed \in Slate /\ faults \in 0..MaxFaults /\ jobs \in 0..MaxJobs
      /\ TablesTyped /\ memory \in [Isolates -> Ledger] /\ edge \in Ledger
      /\ job = [k \in Isolates |-> job[k]] /\ \A k \in Isolates : JobTyped(k)
  BY SlatesTyped DEF TInv, TypeOK, TablesTyped
<1>2. ASSUME NEW i \in Isolates, Going(i) PROVE TInv'
  <2>1. now' \in Opening..Kickoff /\ feed' \in Slate /\ TablesTyped'
    BY <1>1, <1>2, GoingFrame DEF TablesTyped, tables
  <2>2. faults' \in 0..MaxFaults /\ jobs' \in 0..MaxJobs BY <1>2, CountersTyped
  <2>3. /\ memory' \in [Isolates -> Ledger] /\ edge' \in Ledger
        /\ job' = [k \in Isolates |-> job'[k]] /\ \A k \in Isolates : JobTyped(k)'
    <3>1. CASE JobStep(i) BY <3>1, OthersTyped DEF JobStep
    <3>2. CASE Collect(i) BY <3>2, CollectTyped
    <3>3. CASE Harvest(i) BY <3>3, HarvestTyped
    <3> QED BY <1>2, <3>1, <3>2, <3>3 DEF Going
  <2> QED BY <2>1, <2>2, <2>3, TypesFrom
<1>3. ASSUME NEW i \in Isolates, job[i] # None, NEW chain \in job[i].chains,
             Run(i, chain) \/ RunFails(i, chain)
      PROVE  TInv'
  <2>1. /\ TablesTyped' /\ job' = [k \in Isolates |-> job'[k]] /\ \A k \in Isolates : JobTyped(k)'
    BY <1>3, RunTyped
  <2>2. UNCHANGED <<caches, now, feed, jobs>>
        /\ (faults' = faults \/ (faults < MaxFaults /\ faults' = faults + 1))
    BY <1>3 DEF Run, RunFails, world
  <2>3. faults' \in 0..MaxFaults BY <1>1, <2>2, FaultsCount
  <2>4. /\ now' \in Opening..Kickoff /\ feed' \in Slate /\ jobs' \in 0..MaxJobs
        /\ memory' \in [Isolates -> Ledger] /\ edge' \in Ledger
    BY <1>1, <2>2 DEF caches
  <2> QED BY <2>1, <2>3, <2>4, TypesFrom
<1>4. CASE Tick \/ GoLive \/ Complete \/ CallOff \/ MakeUp \/ Restate \/ Evict
  <2>1. /\ now' \in Opening..Kickoff /\ feed' \in Slate /\ faults' \in 0..MaxFaults
        /\ memory' \in [Isolates -> Ledger] /\ edge' \in Ledger
        /\ UNCHANGED <<tables, job, jobs>>
    BY <1>4, Worlds
  <2>2. TablesTyped' /\ jobs' \in 0..MaxJobs BY <1>1, <2>1 DEF TablesTyped, tables
  <2>3. job' = [k \in Isolates |-> job'[k]] /\ \A k \in Isolates : JobTyped(k)'
    BY <1>1, <2>1 DEF JobTyped
  <2> QED BY <2>1, <2>2, <2>3, TypesFrom
<1>5. CASE UNCHANGED vars
  BY <1>5 DEF TInv, TypeOK, JobTyped, vars
<1> QED BY <1>2, <1>3, <1>4, <1>5, Steps

LEMMA TypeInit == Init => TInv
<1> SUFFICES ASSUME Init PROVE TInv OBVIOUS
<1>1. now \in Opening..Kickoff /\ faults \in 0..MaxFaults /\ jobs \in 0..MaxJobs
  BY LedgerAssumption DEF LedgerAssumption, Init, Kickoff
<1>2. feed \in [status : {"scheduled", "live", "completed", "postponed"}, score : Finals] BY DEF Init, Finals
<1>3. /\ memory \in [Isolates -> Ledger] /\ edge \in Ledger
      /\ (\A i \in Isolates : ~HasRow(memory[i])) /\ ~HasRow(edge)
  BY DEF Init, Ledger, HasRow
<1>4. TablesTyped BY DEF Init, TablesTyped
<1>5. TypeOK BY <1>1, <1>2, <1>3, <1>4 DEF TypeOK, TablesTyped
<1>6. job = [i \in Isolates |-> job[i]] /\ \A i \in Isolates : JobTyped(i)
  BY DEF Init, JobTyped
<1> QED BY <1>3, <1>5, <1>6 DEF TInv

LEMMA TypeInvariant == Spec => []TInv
BY TypeInit, TypeStep, PTL DEF Spec

\* Every variable keeps its type: ledgers, jobs and their statements, tables and counters.
THEOREM LedgerTyped == Spec => []TypeOK
<1>1. TInv => TypeOK BY DEF TInv
<1> QED BY <1>1, TypeInvariant, PTL
-----------------------------------------------------------------------------
(* What rows, statements and jobs say is so *)

\* A ledger has a final only of a game that was played, a statement brings one only of a
\* game that is over, and a time belongs to its checkpoint.
Played(final) == final # None => feed.status = "completed"
Ended(final) == final # None => Over(feed)
Timely(c, at) == (c = "EARLY" => at = 1) /\ (c = "CLOSE" => at >= 2)
HonestRow(row) ==
  /\ Played(row.final)
  /\ \A c \in Checkpoints : row.cps[c] # None => Timely(c, row.cps[c].at)
HonestLedger(x) == HasRow(x) => HonestRow(x)
HonestSlate(slate) ==
  /\ slate.status = "completed" => feed.status = "completed"
  /\ Over(slate) => Over(feed) /\ slate.score # None
HonestStatement(s) ==
  /\ s.op \notin OfForm => Ended(s.final)
  /\ s.op = "insert" => Timely(s.cp, s.frozen.at)
  /\ s.op = "gradeSnapshots" => s.final # None

\* Only at the head of a chain are a game's snapshots graded or its form marked, and who
\* counts one team counts the other next.
Plain(chain, from) ==
  \A n \in DOMAIN chain : n >= from => chain[n].op \notin OfForm \union {"gradeSnapshots"}
Shaped(chain) ==
  \/ Plain(chain, 1)
  \/ chain[1].op = "gradeSnapshots" /\ Plain(chain, 2)
  \/ /\ Len(chain) = 3 /\ chain[1].op = "mark" /\ chain[1].fails # "ignored"
     /\ chain[2].op = "home" /\ chain[3].op = "away"
  \/ Len(chain) = 2 /\ chain[1].op = "home" /\ chain[2].op = "away"
  \/ Len(chain) = 1 /\ chain[1].op = "away"
Unforced(chain) == \A n \in DOMAIN chain : chain[n].op = "gradeSnapshots" => ~chain[n].force
HonestChain(chain) == Shaped(chain) /\ \A n \in DOMAIN chain : HonestStatement(chain[n])

HasSlate(j) ==
  j.kind = "collect" \/ (j.kind \in {"harvest", "settle"} /\ j.phase \in {"writing", "grading"})
HonestJob(j) ==
  /\ HonestLedger(j.row)
  /\ HasSlate(j) => HonestSlate(j.slate)
  /\ \A chain \in j.chains : HonestChain(chain) /\ (j.kind # "desk" => Unforced(chain))
  /\ j.kind = "desk" => \A a, b \in j.chains : a = b
HonestTables ==
  /\ \A c \in Checkpoints :
       snapshots[c] # None => Ended(snapshots[c].final) /\ Timely(c, snapshots[c].at)
  /\ prediction # None => Ended(prediction.final)
HonestCaches == HonestLedger(edge) /\ \A i \in Isolates : HonestLedger(memory[i])
HonestJobs == \A i \in Isolates : job[i] # None => HonestJob(job[i])
HInv == HonestSlate(feed) /\ HonestTables /\ HonestCaches /\ HonestJobs

LEMMA NewHonest ==
  ASSUME TypeOK, NEW f \in Forecasts PROVE HonestRow(FreezeNew(f))
<1>1. now \in 1..Kickoff BY LedgerAssumption DEF LedgerAssumption, TypeOK, Kickoff
<1>2. Timely(ClassifyCheckpoint, now) BY <1>1 DEF Timely, ClassifyCheckpoint, Kickoff
<1>3. ASSUME NEW c \in Checkpoints, FreezeNew(f).cps[c] # None PROVE Timely(c, FreezeNew(f).cps[c].at)
  <2>1. FreezeNew(f).cps[c].at = now BY <1>3, NewRow
  <2>2. c \in Filled(FreezeNew(f)) BY <1>3 DEF Filled
  <2>3. c = "FIRST_AVAILABLE" \/ c = ClassifyCheckpoint BY <2>2, NewRow
  <2>4. CASE c = "FIRST_AVAILABLE" BY <2>4 DEF Timely
  <2>5. CASE c = ClassifyCheckpoint BY <1>2, <2>1, <2>5
  <2> QED BY <2>3, <2>4, <2>5
<1>4. FreezeNew(f).final = None BY NewRow
<1> QED BY <1>3, <1>4 DEF HonestRow, Played

LEMMA AgainHonest ==
  ASSUME TypeOK, NEW row \in Seen, HonestRow(row), NEW f \in Forecasts
  PROVE  HonestRow(Refreeze(row, f))
<1>1. now \in 1..Kickoff BY LedgerAssumption DEF LedgerAssumption, TypeOK, Kickoff
<1>2. Timely(ClassifyCheckpoint, now) BY <1>1 DEF Timely, ClassifyCheckpoint, Kickoff
<1>3. PICK new : new = Refreeze(row, f) OBVIOUS
<1>4. ASSUME NEW c \in Checkpoints, new.cps[c] # None PROVE Timely(c, new.cps[c].at)
  <2>1. CASE row.cps[c] # None
    <3>1. new.cps[c] = row.cps[c] BY <1>3, <2>1, RowAgain
    <3> QED BY <2>1, <3>1 DEF HonestRow
  <2>2. CASE row.cps[c] = None
    <3>1. c = ClassifyCheckpoint /\ new.cps[c].at = now BY <1>3, <1>4, <2>2, RowAgain
    <3> QED BY <1>2, <3>1
  <2> QED BY <2>1, <2>2
<1>5. new.final = row.final BY <1>3, RowAgain
<1> QED BY <1>3, <1>4, <1>5 DEF HonestRow

LEMMA GradedHonest ==
  ASSUME NEW row \in Seen, HonestRow(row), NEW slate \in Slate \union Board, HonestSlate(slate)
  PROVE  HonestRow(ApplyFinal(row, slate))
<1>1. PICK new : new = ApplyFinal(row, slate) OBVIOUS
<1>2. new.cps = row.cps /\ new.final = IF slate.status = "completed" THEN slate.score ELSE row.final
  BY <1>1, RowGraded
<1> QED BY <1>1, <1>2 DEF HonestRow, HonestSlate, Played, Over

\* Chains of a row's statements alone.
RowStatement(s) == s.op \in {"replace"} \union OfRow /\ HonestStatement(s)
RowChain(chain) == \A n \in DOMAIN chain : RowStatement(chain[n])
LEMMA StatementsHonest ==
  ASSUME NEW row \in Seen, HonestRow(row), NEW c \in Filled(row), NEW fails
  PROVE  /\ RowStatement(Replace(row, fails))
         /\ RowStatement(Insert(row, c, fails))
         /\ RowStatement(Grade(row, c, fails))
BY DEF RowStatement, OfRow, HonestStatement, Replace, Insert, Grade, HonestRow, Played, Ended, Over,
       Filled, OfForm

LEMMA RowChainsHonest ==
  ASSUME NEW chain, RowChain(chain)
  PROVE  HonestChain(chain) /\ Unforced(chain)
BY DEF RowChain, RowStatement, HonestChain, Shaped, Plain, Unforced, OfRow, OfForm

LEMMA ShortHonest ==
  /\ \A a : RowStatement(a) => RowChain(<<a>>)
  /\ \A a, b : RowStatement(a) /\ RowStatement(b) => RowChain(<<a, b>>)
  /\ \A a, b, c : RowStatement(a) /\ RowStatement(b) /\ RowStatement(c) => RowChain(<<a, b, c>>)
BY DEF RowChain

LEMMA PersistHonest ==
  ASSUME NEW row \in Seen, HonestRow(row)
  PROVE  \A chain \in PersistRow(row) : HonestChain(chain) /\ Unforced(chain)
<1>1. ASSUME NEW c \in Filled(row) PROVE RowChain(PersistCheckpoint(row, c))
  BY StatementsHonest, ShortHonest DEF PersistCheckpoint
<1>2. RowChain(<<Replace(row, "reported")>>)
  <2>1. "FIRST_AVAILABLE" \in Filled(row) BY DEF Seen, Filled, Checkpoints
  <2> QED BY <2>1, StatementsHonest, ShortHonest
<1>3. \A chain \in PersistRow(row) : RowChain(chain) BY <1>1, <1>2 DEF PersistRow
<1> QED BY <1>3, RowChainsHonest

LEMMA GameHonest ==
  ASSUME NEW fails \in Fails
  PROVE  /\ \A final, force : final # None /\ Ended(final) =>
              HonestChain(GradeSnapshotsForGame(final, force, fails))
         /\ \A final : Unforced(GradeSnapshotsForGame(final, FALSE, fails))
         /\ \A force : HonestChain(ExcludeSnapshotsForGame(force))
         /\ fails # "ignored" => HonestChain(ApplyFinalToForm(fails)) /\ Unforced(ApplyFinalToForm(fails))
<1>1. ASSUME NEW final, NEW force, final # None, Ended(final)
      PROVE  HonestChain(GradeSnapshotsForGame(final, force, fails))
  BY <1>1 DEF HonestChain, Shaped, Plain, HonestStatement, GradeSnapshotsForGame, OnGame, OfForm
<1>2. \A final : Unforced(GradeSnapshotsForGame(final, FALSE, fails))
  BY DEF Unforced, GradeSnapshotsForGame, OnGame
<1>3. \A force : HonestChain(ExcludeSnapshotsForGame(force))
  BY DEF HonestChain, Shaped, Plain, HonestStatement, Ended, ExcludeSnapshotsForGame, OnGame, OfForm
<1>4. ASSUME fails # "ignored"
      PROVE  HonestChain(ApplyFinalToForm(fails)) /\ Unforced(ApplyFinalToForm(fails))
  BY <1>4 DEF HonestChain, Shaped, Plain, HonestStatement, Unforced, ApplyFinalToForm, OnForm, OfForm
<1> QED BY <1>1, <1>2, <1>3, <1>4

LEMMA TailHonest ==
  ASSUME NEW chain \in Chain, HonestChain(chain)
  PROVE  /\ HonestStatement(Head(chain))
         /\ Tail(chain) # <<>> => HonestChain(Tail(chain))
         /\ Unforced(chain) => Unforced(Tail(chain))
<1>1. HonestStatement(Head(chain)) BY ChainParts DEF HonestChain
<1>2. \A n \in DOMAIN Tail(chain) : HonestStatement(Tail(chain)[n]) BY ChainParts DEF HonestChain
<1>3. Unforced(chain) => Unforced(Tail(chain)) BY ChainParts DEF Unforced
<1>4. PICK t : t = Tail(chain) OBVIOUS
<1>5. PICK len \in Nat : len = Len(chain) BY ChainParts
<1>6. /\ DOMAIN chain = 1..len /\ DOMAIN t = 1..(len - 1) /\ Len(t) = len - 1
      /\ \A n \in DOMAIN t : t[n] = chain[n + 1]
  BY <1>4, <1>5, ChainParts
<1>7. ASSUME t # <<>> PROVE Shaped(t)
  <2>1. CASE Plain(chain, 1) \/ (chain[1].op = "gradeSnapshots" /\ Plain(chain, 2))
    <3>1. Plain(t, 1) BY <1>6, <2>1 DEF Plain
    <3> QED BY <3>1 DEF Shaped
  <2>2. CASE /\ len = 3 /\ chain[1].op = "mark" /\ chain[2].op = "home" /\ chain[3].op = "away"
    BY <1>6, <2>2 DEF Shaped
  <2>3. CASE len = 2 /\ chain[1].op = "home" /\ chain[2].op = "away"
    BY <1>6, <2>3 DEF Shaped
  <2>4. CASE len = 1 /\ chain[1].op = "away"
    <3>1. t = <<>>
      <4>1. t \in Chain \union {<<>>} BY <1>4, ChainParts
      <4>2. t \in Seq(Statement) BY <1>7, <4>1 DEF Chain
      <4>3. Len(t) = 0 BY <1>6, <2>4
      <4> QED BY <4>2, <4>3
    <3> QED BY <1>7, <3>1
  <2> QED BY <1>5, <2>1, <2>2, <2>3, <2>4 DEF HonestChain, Shaped
<1> QED BY <1>1, <1>2, <1>3, <1>4, <1>7 DEF HonestChain

LEMMA SnapshotsHonest ==
  ASSUME TablesTyped, HonestTables, NEW s \in Statement, HonestStatement(s), Execute(s), feed' = feed
  PROVE  \A c \in Checkpoints : snapshots'[c] # None =>
           Ended(snapshots'[c].final) /\ Timely(c, snapshots'[c].at)
<1>1. SUFFICES ASSUME NEW c \in Checkpoints, snapshots'[c] # None
               PROVE  Ended(snapshots'[c].final) /\ Timely(c, snapshots'[c].at)
  OBVIOUS
<1>2. ASSUME snapshots'[c] = snapshots[c]
      PROVE  Ended(snapshots'[c].final) /\ Timely(c, snapshots'[c].at)
  BY <1>1, <1>2 DEF HonestTables
<1>3. ASSUME snapshots[c] # None
      PROVE  snapshots[c] \in Snapshot /\ Ended(snapshots[c].final) /\ Timely(c, snapshots[c].at)
  BY <1>3 DEF TablesTyped, HonestTables
<1>4. CASE UNCHANGED snapshots BY <1>2, <1>4
<1>5. CASE InsertSnapshot(s)
  <2>1. s.op = "insert" BY <1>5 DEF InsertSnapshot
  <2>2. s.cp \in Checkpoints BY <2>1 DEF Statement, OfGame, OfForm
  <2>3. Ended(s.final) /\ Timely(s.cp, s.frozen.at) BY <2>1 DEF HonestStatement, OfForm
  <2>4. CASE snapshots[s.cp] # None \/ c # s.cp
    <3>1. snapshots'[c] = snapshots[c] BY <1>5, <2>2, <2>4 DEF InsertSnapshot, Inserted, TablesTyped
    <3> QED BY <1>2, <3>1
  <2>5. CASE snapshots[s.cp] = None /\ c = s.cp
    <3>1. snapshots'[c] = [forecast |-> s.frozen.forecast, at |-> s.frozen.at, final |-> s.final,
                           excluded |-> FALSE]
      BY <1>5, <2>2, <2>5 DEF InsertSnapshot, Inserted, TablesTyped
    <3> QED BY <2>3, <2>5, <3>1
  <2> QED BY <2>4, <2>5
<1>6. CASE GradeSnapshot(s)
  <2>1. s.op = "grade" BY <1>6 DEF GradeSnapshot
  <2>2. s.cp \in Checkpoints BY <2>1 DEF Statement, OfGame, OfForm
  <2>3. Ended(s.final) BY <2>1 DEF HonestStatement, OfForm
  <2>4. CASE snapshots[s.cp] = None \/ c # s.cp
    <3>1. snapshots'[c] = snapshots[c] BY <1>6, <2>2, <2>4 DEF GradeSnapshot, TablesTyped
    <3> QED BY <1>2, <3>1
  <2>5. CASE snapshots[s.cp] # None /\ c = s.cp
    <3>1. snapshots'[c] = [snapshots[c] EXCEPT !.final = Coalesce(snapshots[c].final, s.final)]
      BY <1>6, <2>2, <2>5 DEF GradeSnapshot, TablesTyped
    <3>2. snapshots'[c].final = Coalesce(snapshots[c].final, s.final)
          /\ snapshots'[c].at = snapshots[c].at
      BY <1>3, <2>5, <3>1 DEF Snapshot
    <3> QED BY <1>3, <2>3, <2>5, <3>2 DEF Ended, Coalesce
  <2> QED BY <2>4, <2>5
<1>7. CASE GradeSnapshots(s)
  <2>1. s.op = "gradeSnapshots" BY <1>7 DEF GradeSnapshots
  <2>2. Ended(s.final) BY <2>1 DEF HonestStatement, OfForm
  <2>3. snapshots'[c] = IF snapshots[c] = None THEN None
                        ELSE [snapshots[c] EXCEPT !.final = Settled(snapshots[c].final, s)]
    BY <1>7 DEF GradeSnapshots
  <2>4. snapshots[c] # None BY <1>1, <2>3
  <2>5. snapshots'[c].final = Settled(snapshots[c].final, s) /\ snapshots'[c].at = snapshots[c].at
    BY <1>3, <2>3, <2>4 DEF Snapshot
  <2> QED BY <1>3, <2>2, <2>4, <2>5 DEF Ended, Settled, Coalesce
<1>8. CASE ExcludeSnapshots(s)
  <2>1. snapshots'[c] = IF Excludes(snapshots[c], s) THEN [snapshots[c] EXCEPT !.excluded = TRUE]
                        ELSE snapshots[c]
    BY <1>8 DEF ExcludeSnapshots
  <2>2. CASE ~Excludes(snapshots[c], s) BY <1>2, <2>1, <2>2
  <2>3. CASE Excludes(snapshots[c], s)
    <3>1. snapshots[c] # None BY <2>3 DEF Excludes
    <3>2. snapshots'[c].final = snapshots[c].final /\ snapshots'[c].at = snapshots[c].at
      BY <1>3, <2>1, <2>3, <3>1 DEF Snapshot
    <3> QED BY <1>3, <3>1, <3>2
  <2> QED BY <2>2, <2>3
<1>9. \/ UNCHANGED snapshots \/ InsertSnapshot(s) \/ GradeSnapshot(s)
      \/ GradeSnapshots(s) \/ ExcludeSnapshots(s)
  BY DEF Execute, ReplacePrediction, GradePredictions, ExcludePredictions, CountForm
<1> QED BY <1>4, <1>5, <1>6, <1>7, <1>8, <1>9

LEMMA PredictionHonest ==
  ASSUME TablesTyped, HonestTables, NEW s \in Statement, HonestStatement(s), Execute(s)
  PROVE  prediction' # None => Ended(prediction'.final)
<1>1. SUFFICES ASSUME prediction' # None PROVE Ended(prediction'.final)
  OBVIOUS
<1>2. ASSUME prediction # None
      PROVE  /\ prediction \in [forecast : Forecasts, final : Finals, excluded : BOOLEAN]
             /\ Ended(prediction.final)
  BY <1>2 DEF TablesTyped, HonestTables
<1>3. CASE UNCHANGED prediction BY <1>1, <1>2, <1>3
<1>4. CASE ReplacePrediction(s)
  <2>1. Ended(s.final) BY <1>4 DEF ReplacePrediction, HonestStatement, OfForm
  <2>2. prediction'.final = s.final BY <1>4 DEF ReplacePrediction
  <2> QED BY <2>1, <2>2
<1>5. CASE GradePredictions(s)
  <2>1. Ended(s.final) BY <1>5 DEF GradePredictions, HonestStatement, OfForm
  <2>2. prediction # None BY <1>1, <1>5 DEF GradePredictions
  <2>3. prediction' = [prediction EXCEPT !.final = Settled(prediction.final, s)]
    BY <1>5, <2>2 DEF GradePredictions
  <2>4. prediction'.final = Settled(prediction.final, s) BY <1>2, <2>2, <2>3
  <2> QED BY <1>2, <2>1, <2>2, <2>4 DEF Ended, Settled, Coalesce
<1>6. CASE ExcludePredictions(s)
  <2>1. CASE ~Excludes(prediction, s) BY <1>1, <1>2, <1>6, <2>1 DEF ExcludePredictions
  <2>2. CASE Excludes(prediction, s)
    <3>1. prediction # None BY <2>2 DEF Excludes
    <3>2. prediction'.final = prediction.final BY <1>2, <1>6, <2>2, <3>1 DEF ExcludePredictions
    <3> QED BY <1>2, <3>1, <3>2
  <2> QED BY <2>1, <2>2
<1>7. \/ UNCHANGED prediction \/ ReplacePrediction(s) \/ GradePredictions(s)
      \/ ExcludePredictions(s)
  BY DEF Execute, InsertSnapshot, GradeSnapshot, GradeSnapshots, ExcludeSnapshots, CountForm
<1> QED BY <1>3, <1>4, <1>5, <1>6, <1>7

LEMMA ExecuteHonest ==
  ASSUME TablesTyped, HonestTables, NEW s \in Statement, HonestStatement(s), Execute(s), feed' = feed
  PROVE  HonestTables'
<1>1. \A c \in Checkpoints : snapshots'[c] # None =>
        Ended(snapshots'[c].final) /\ Timely(c, snapshots'[c].at)
  BY SnapshotsHonest
<1>2. prediction' # None => Ended(prediction'.final) BY PredictionHonest
<1> QED BY <1>1, <1>2 DEF HonestTables, Ended, Over, Timely

LEMMA HonestStays ==
  ASSUME feed.status = "completed" => feed'.status = "completed",
         Over(feed) => Over(feed')
  PROVE  /\ \A x : HonestLedger(x) => HonestLedger(x)'
         /\ \A slate : HonestSlate(slate) => HonestSlate(slate)'
         /\ \A j : HonestJob(j) => HonestJob(j)'
         /\ \A final : Ended(final) => Ended(final)'
<1>1. \A final : (Ended(final) => Ended(final)') /\ (Played(final) => Played(final)')
  BY DEF Ended, Played, Over
<1>2. \A x : HonestLedger(x) => HonestLedger(x)'
  BY <1>1 DEF HonestLedger, HonestRow, HasRow, Timely
<1>3. \A slate : HonestSlate(slate) => HonestSlate(slate)' BY DEF HonestSlate, Over
<1>4. \A chain : HonestChain(chain) => HonestChain(chain)'
  <2>1. \A s : HonestStatement(s) => HonestStatement(s)' BY <1>1 DEF HonestStatement, Timely, OfForm
  <2>2. \A chain : Shaped(chain) => Shaped(chain)' BY DEF Shaped, Plain, OfForm
  <2> QED BY <2>1, <2>2 DEF HonestChain
<1>5. ASSUME NEW j, HonestJob(j) PROVE HonestJob(j)'
  BY <1>2, <1>3, <1>4, <1>5 DEF HonestJob, HasSlate, Unforced
<1> QED BY <1>1, <1>2, <1>3, <1>5

LEMMA HonestOn ==
  ASSUME HInv, NEW i \in Isolates, NEW w, w # None => HonestJob(w), NEW x, HonestLedger(x),
         feed' = feed, HonestTables', job'[i] = w, \A k \in Isolates \ {i} : job'[k] = job[k],
         edge' \in {edge, x, None, Cold},
         \A k \in Isolates : memory'[k] \in {memory[k], edge, x, None, Cold}
  PROVE  HInv'
<1>1. feed' = feed OBVIOUS
<1>2. HonestLedger(None) /\ HonestLedger(Cold) BY DEF HonestLedger, HasRow
<1>3. HonestLedger(edge)' BY <1>1, <1>2 DEF HInv, HonestCaches, HonestLedger, HasRow, HonestRow, Played, Timely
<1>4. ASSUME NEW k \in Isolates PROVE HonestLedger(memory[k])'
  <2>1. PICK m : m = memory'[k] OBVIOUS
  <2>2. HonestLedger(m) BY <1>2, <2>1 DEF HInv, HonestCaches
  <2>3. HonestLedger(m)' BY <1>1, <2>2, HonestStays
  <2> QED BY <2>1, <2>3
<1>6. HonestSlate(feed)' BY <1>1 DEF HInv, HonestSlate, Over
<1>7. ASSUME NEW k \in Isolates, job'[k] # None PROVE HonestJob(job[k])'
  <2>1. PICK m : m = job'[k] OBVIOUS
  <2>2. HonestJob(m) BY <1>7, <2>1 DEF HInv, HonestJobs
  <2>3. HonestJob(m)' BY <1>1, <2>2, HonestStays
  <2> QED BY <2>1, <2>3
<1> QED BY <1>3, <1>4, <1>6, <1>7 DEF HInv, HonestCaches, HonestJobs

LEMMA HonestFrom ==
  ASSUME HInv, NEW i \in Isolates, NEW w, w # None => HonestJob(w), NEW x, HonestLedger(x),
         UNCHANGED <<tables, feed>>, job'[i] = w, \A k \in Isolates \ {i} : job'[k] = job[k],
         edge' \in {edge, x, None, Cold},
         \A k \in Isolates : memory'[k] \in {memory[k], edge, x, None, Cold}
  PROVE  HInv'
<1>1. feed' = feed /\ snapshots' = snapshots /\ prediction' = prediction BY DEF tables
<1>2. HonestTables' BY <1>1 DEF HInv, HonestTables, Ended, Over, Timely
<1> QED BY <1>1, <1>2, HonestOn

LEMMA Remembers ==
  ASSUME TInv, NEW i \in Isolates, NEW row, Remember(i, row)
  PROVE  \A k \in Isolates : memory'[k] \in {memory[k], edge, row, None, Cold}
BY DEF Remember, TInv

LEMMA Others ==
  ASSUME TInv, NEW i \in Isolates, NEW j, job' = [job EXCEPT ![i] = j]
  PROVE  job'[i] = j /\ \A k \in Isolates \ {i} : job'[k] = job[k]
<1>1. job = [k \in Isolates |-> job[k]] BY DEF TInv
<1> QED BY <1>1

LEMMA LoadHonest ==
  ASSUME TInv, HInv, NEW i \in Isolates
  PROVE  HonestLedger(Load(i)) /\ (HasRow(Load(i)) => Load(i) \in Seen /\ HonestRow(Load(i)))
<1>1. HonestLedger(Load(i)) BY DEF Load, HInv, HonestCaches
<1> QED BY <1>1, LoadTyped DEF HonestLedger

LEMMA CollectHonest ==
  ASSUME TInv, HInv, NEW i \in Isolates, Collect(i)
  PROVE  HInv'
<1>0. UNCHANGED <<tables, feed>> BY GoingFrame DEF Going
<1>1. PICK j : j = job[i] OBVIOUS
<1>2. ASSUME j # None PROVE j \in Job /\ Slated(j) /\ HonestJob(j)
  BY <1>1, <1>2 DEF TInv, JobTyped, HInv, HonestJobs
<1>3. TypeOK BY DEF TInv
<1>4. HonestLedger(None) BY DEF HonestLedger, HasRow
<1>5. ASSUME NEW row, HonestLedger(row), NEW wrote, NEW chains, j # None, j.kind = "collect",
             \A chain \in chains : HonestChain(chain) /\ Unforced(chain),
             Writes(i, row, wrote, chains), Remember(i, row), UNCHANGED edge
      PROVE  HInv'
  <2> DEFINE w == [kind |-> j.kind, phase |-> "writing", slate |-> j.slate,
                   row |-> row, wrote |-> wrote, chains |-> chains, ok |-> j.ok]
  <2>1. job' = [job EXCEPT ![i] = w] BY <1>1, <1>5, WritesMoves
  <2>2. HonestJob(w) BY <1>2, <1>5 DEF HonestJob, HasSlate
  <2> HIDE DEF w
  <2>3. job'[i] = w /\ \A k \in Isolates \ {i} : job'[k] = job[k] BY <2>1, Others
  <2>4. \A k \in Isolates : memory'[k] \in {memory[k], edge, row, None, Cold} BY <1>5, Remembers
  <2> QED BY <1>0, <1>5, <2>2, <2>3, <2>4, HonestFrom
<1>6. ASSUME In(i, {"collect"}, "built")
      PROVE  j # None /\ j.kind = "collect" /\ j.slate \in Board /\ HonestSlate(j.slate)
  BY <1>1, <1>2, <1>6 DEF In, Slated, HonestJob, HasSlate
<1>7. CASE FreezeFirst(i)
  <2>1. In(i, {"collect"}, "built") BY <1>7 DEF FreezeFirst
  <2>2. PICK row : row = FreezeNew(j.slate.forecast) OBVIOUS
  <2>3. j.slate.forecast \in Forecasts BY <1>6, <2>1 DEF Board
  <2>4. /\ row \in Seen /\ Filled(row) = {"FIRST_AVAILABLE", ClassifyCheckpoint} /\ HonestRow(row)
    BY <1>3, <2>2, <2>3, NewRow, NewHonest
  <2>5. PICK chain : chain = <<Replace(row, "ignored"), Insert(row, "FIRST_AVAILABLE", "ignored"),
                               Insert(row, ClassifyCheckpoint, "ignored")>>
    OBVIOUS
  <2>6. RowChain(chain)
    <3>1. RowStatement(Replace(row, "ignored")) BY <2>4, StatementsHonest
    <3>2. RowStatement(Insert(row, "FIRST_AVAILABLE", "ignored")) BY <2>4, StatementsHonest
    <3>3. RowStatement(Insert(row, ClassifyCheckpoint, "ignored")) BY <2>4, StatementsHonest
    <3> QED BY <2>5, <3>1, <3>2, <3>3, ShortHonest
  <2>7. Writes(i, row, Filled(row), {chain}) /\ Remember(i, row) /\ UNCHANGED edge
    BY <1>1, <1>7, <2>2, <2>5 DEF FreezeFirst
  <2>8. \A c \in {chain} : HonestChain(c) /\ Unforced(c) BY <2>6, RowChainsHonest
  <2>9. HonestLedger(row) BY <2>4 DEF HonestLedger
  <2> QED BY <1>5, <1>6, <2>1, <2>7, <2>8, <2>9
<1>8. CASE FreezeAgain(i)
  <2>1. In(i, {"collect"}, "built") /\ HasRow(Load(i)) BY <1>8 DEF FreezeAgain
  <2>2. PICK old : old = Load(i) OBVIOUS
  <2>3. old \in Seen /\ HonestRow(old) BY <2>1, <2>2, LoadHonest
  <2>4. PICK row : row = Refreeze(old, j.slate.forecast) OBVIOUS
  <2>5. j.slate.forecast \in Forecasts BY <1>6, <2>1 DEF Board
  <2>6. row \in Seen /\ HonestRow(row) BY <1>3, <2>3, <2>4, <2>5, RowAgain, AgainHonest
  <2>7. PICK new : new = Filled(row) \ Filled(old) OBVIOUS
  <2>9. PICK bare : bare = [row EXCEPT !.final = None] OBVIOUS
  <2>10. bare \in Seen /\ Filled(bare) = Filled(row) /\ bare.cps = row.cps /\ bare.final = None
    BY <2>6, <2>9 DEF Seen, Row, Finals, Filled
  <2>11. HonestRow(bare) BY <2>6, <2>10 DEF HonestRow, Played
  <2>12. PICK chains : chains = {<<Insert(bare, c, "ignored")>> : c \in new}
                     \union (IF row.forecast = old.forecast THEN {} ELSE {<<Replace(row, "reported")>>})
    OBVIOUS
  <2>13. \A chain \in chains : RowChain(chain)
    <3>1. \A c \in new : RowChain(<<Insert(bare, c, "ignored")>>)
      BY <2>7, <2>10, <2>11, StatementsHonest, ShortHonest
    <3>2. RowChain(<<Replace(row, "reported")>>)
      <4>1. "FIRST_AVAILABLE" \in Filled(row) BY <2>6 DEF Seen, Filled, Checkpoints
      <4> QED BY <2>6, <4>1, StatementsHonest, ShortHonest
    <3> QED BY <2>12, <3>1, <3>2
  <2>14. \A chain \in chains : HonestChain(chain) /\ Unforced(chain) BY <2>13, RowChainsHonest
  <2>15. Writes(i, row, new, chains) /\ Remember(i, row) /\ UNCHANGED edge
    BY <1>1, <1>8, <2>2, <2>4, <2>7, <2>9, <2>12 DEF FreezeAgain
  <2>16. HonestLedger(row) BY <2>6 DEF HonestLedger
  <2> QED BY <1>5, <1>6, <2>1, <2>14, <2>15, <2>16
<1>9. CASE FreezeFinal(i)
  <2>1. In(i, {"collect"}, "built") /\ HasRow(Load(i)) BY <1>9 DEF FreezeFinal
  <2>2. PICK old : old = Load(i) OBVIOUS
  <2>3. old \in Seen /\ HonestRow(old) BY <2>1, <2>2, LoadHonest
  <2>4. PICK row : row = ApplyFinal(old, j.slate) OBVIOUS
  <2>5. row \in Seen /\ HonestRow(row) BY <1>6, <2>1, <2>3, <2>4, RowGraded, GradedHonest
  <2>6. \A chain \in PersistRow(row) : HonestChain(chain) /\ Unforced(chain)
    BY <2>5, PersistHonest
  <2>7. Writes(i, row, Filled(row), PersistRow(row)) /\ Remember(i, row) /\ UNCHANGED edge
    BY <1>1, <1>9, <2>2, <2>4 DEF FreezeFinal
  <2>8. HonestLedger(row) BY <2>5 DEF HonestLedger
  <2> QED BY <1>5, <1>6, <2>1, <2>6, <2>7, <2>8
<1>10. CASE FreezeNothing(i)
  <2>1. job' = [job EXCEPT ![i] = None] /\ memory' = [memory EXCEPT ![i] = Load(i)] /\ edge' = edge
    BY <1>10 DEF FreezeNothing
  <2>2. job'[i] = None /\ \A k \in Isolates \ {i} : job'[k] = job[k] BY <2>1, Others
  <2>3. \A k \in Isolates : memory'[k] \in {memory[k], edge, None, Cold}
    BY <2>1 DEF Load, TInv
  <2>4. edge' = edge BY <2>1
  <2> QED BY <1>0, <1>4, <2>2, <2>3, <2>4, HonestFrom
<1>11. CASE FinishCollect(i)
  <2>1. j # None BY <1>1, <1>11 DEF FinishCollect, In
  <2>2. PICK row : row = j.row OBVIOUS
  <2>3. HonestLedger(row) BY <1>2, <2>1, <2>2 DEF HonestJob
  <2>4. job' = [job EXCEPT ![i] = None] BY <1>11 DEF FinishCollect, Save
  <2>5. /\ edge' \in {edge, row, None, Cold}
        /\ \A k \in Isolates : memory'[k] \in {memory[k], edge, row, None, Cold}
    BY <1>1, <1>11, <2>2 DEF FinishCollect, Save, TInv
  <2>6. job'[i] = None /\ \A k \in Isolates \ {i} : job'[k] = job[k] BY <2>4, Others
  <2> QED BY <1>0, <2>3, <2>5, <2>6, HonestFrom
<1> QED BY <1>7, <1>8, <1>9, <1>10, <1>11 DEF Collect

LEMMA HarvestHonest ==
  ASSUME TInv, HInv, NEW i \in Isolates, Harvest(i)
  PROVE  HInv'
<1>0. UNCHANGED <<tables, feed>> BY GoingFrame DEF Going
<1>1. PICK j : j = job[i] OBVIOUS
<1>2. ASSUME j # None PROVE j \in Job /\ Slated(j) /\ HonestJob(j)
  BY <1>1, <1>2 DEF TInv, JobTyped, HInv, HonestJobs
<1>3. PICK slate : slate = feed OBVIOUS
<1>4. slate \in Slate /\ HonestSlate(slate) BY <1>3, SlatesTyped DEF TInv, HInv
<1>5. HonestLedger(None) BY DEF HonestLedger, HasRow
<1>6. ASSUME NEW phase \in {"grading", "form"}, NEW chains, j # None,
             j.phase \in {"writing", "grading"}, j.kind \in {"harvest", "settle"},
             \A chain \in chains : HonestChain(chain) /\ Unforced(chain),
             Await(i, phase, chains), UNCHANGED caches
      PROVE  HInv'
  <2> DEFINE w == [kind |-> j.kind, phase |-> phase, slate |-> j.slate, row |-> j.row,
                   wrote |-> j.wrote, chains |-> chains, ok |-> j.ok]
  <2>1. job' = [job EXCEPT ![i] = w] BY <1>1, <1>6, AwaitMoves
  <2>2. HonestJob(w) BY <1>2, <1>6 DEF HonestJob, HasSlate
  <2> HIDE DEF w
  <2>3. job'[i] = w /\ \A k \in Isolates \ {i} : job'[k] = job[k] BY <2>1, Others
  <2>4. memory' = memory /\ edge' = edge BY <1>6 DEF caches
  <2> QED BY <1>0, <1>5, <2>2, <2>3, <2>4, HonestFrom
<1>7. CASE HarvestRow(i)
  <2>0. j # None /\ j.kind = "harvest" BY <1>1, <1>7 DEF HarvestRow, In
  <2>1. PICK old : old = j.row OBVIOUS
  <2>2. old \in Ledger /\ HonestLedger(old) BY <1>2, <2>0, <2>1 DEF Job, HonestJob
  <2>3. Ungraded(old) => old \in Seen /\ HonestRow(old)
    BY <2>2, RowTyped DEF Ungraded, HonestLedger
  <2>4. PICK row : row = IF Ungraded(old) THEN ApplyFinal(old, slate) ELSE old OBVIOUS
  <2>5. Ungraded(old) => row \in Seen /\ HonestRow(row)
    BY <1>4, <2>3, <2>4, RowGraded, GradedHonest
  <2>6. HonestLedger(row) BY <2>2, <2>4, <2>5 DEF HonestLedger
  <2>7. PICK wrote : wrote = IF Ungraded(old) THEN Filled(row) ELSE {} OBVIOUS
  <2>8. PICK chains :
          chains = IF ~Ungraded(old) THEN {}
                   ELSE PersistRow(row) \union
                        (IF row.final = None THEN {}
                         ELSE {GradeSnapshotsForGame(row.final, FALSE, "reported"),
                               ApplyFinalToForm("reported")})
    OBVIOUS
  <2>9. \A chain \in chains : HonestChain(chain) /\ Unforced(chain)
    <3>1. CASE ~Ungraded(old) BY <2>8, <3>1
    <3>2. CASE Ungraded(old)
      <4>1. \A chain \in PersistRow(row) : HonestChain(chain) /\ Unforced(chain)
        BY <2>5, <3>2, PersistHonest
      <4>2. PICK final : final = row.final OBVIOUS
      <4>3. Ended(final) BY <2>5, <3>2, <4>2 DEF HonestRow, Played, Ended, Over
      <4>4. final # None => HonestChain(GradeSnapshotsForGame(final, FALSE, "reported"))
                            /\ Unforced(GradeSnapshotsForGame(final, FALSE, "reported"))
        BY <4>3, GameHonest DEF Fails
      <4>5. HonestChain(ApplyFinalToForm("reported")) /\ Unforced(ApplyFinalToForm("reported"))
        BY GameHonest DEF Fails
      <4> QED BY <2>8, <3>2, <4>1, <4>2, <4>4, <4>5
    <3> QED BY <3>1, <3>2
  <2> DEFINE w == [kind |-> j.kind, phase |-> "writing", slate |-> slate, row |-> row,
                   wrote |-> wrote, chains |-> chains, ok |-> j.ok]
  <2>10. Grades(i, slate, row, wrote, chains)
    BY <1>1, <1>3, <1>7, <2>1, <2>4, <2>7, <2>8 DEF HarvestRow, Grades
  <2>11. job' = [job EXCEPT ![i] = w] BY <1>1, <2>0, <2>10, RowMoves
  <2>12. HonestJob(w) BY <1>4, <2>0, <2>6, <2>9 DEF HonestJob
  <2>13. Remember(i, row) /\ edge' = edge BY <1>1, <1>3, <1>7, <2>1, <2>4 DEF HarvestRow
  <2> HIDE DEF w
  <2>14. job'[i] = w /\ \A k \in Isolates \ {i} : job'[k] = job[k] BY <2>11, Others
  <2>15. \A k \in Isolates : memory'[k] \in {memory[k], edge, row, None, Cold}
    BY <2>13, Remembers
  <2> QED BY <1>0, <2>6, <2>12, <2>13, <2>14, <2>15, HonestFrom
<1>8. CASE GradePopulation(i)
  <2>1. j # None /\ j.kind \in {"harvest", "settle"} /\ j.phase = "writing"
    BY <1>1, <1>8 DEF GradePopulation, In
  <2>2. PICK chains : chains = IF LacksFinal /\ Over(j.slate)
                               THEN {GradeSnapshotsForGame(j.slate.score, FALSE, "dropped")} ELSE {}
    OBVIOUS
  <2>3. HonestSlate(j.slate) BY <1>2, <2>1 DEF HonestJob, HasSlate
  <2>4. PICK score : score = j.slate.score OBVIOUS
  <2>5. Over(j.slate) => score # None /\ Ended(score) BY <2>3, <2>4 DEF HonestSlate, Ended
  <2>6. Over(j.slate) =>
          HonestChain(GradeSnapshotsForGame(score, FALSE, "dropped"))
          /\ Unforced(GradeSnapshotsForGame(score, FALSE, "dropped"))
    BY <2>5, GameHonest DEF Fails
  <2>7. \A chain \in chains : HonestChain(chain) /\ Unforced(chain) BY <2>2, <2>4, <2>6
  <2>8. Await(i, "grading", chains) /\ UNCHANGED caches BY <1>1, <1>8, <2>2 DEF GradePopulation
  <2> QED BY <1>6, <2>1, <2>7, <2>8
<1>9. CASE ApplyScoreboardForm(i)
  <2>1. j # None /\ j.kind = "harvest" /\ j.phase = "grading"
    BY <1>1, <1>9 DEF ApplyScoreboardForm, In
  <2>2. PICK chains :
          chains = IF Over(j.slate) THEN {ApplyFinalToForm("dropped")} ELSE {}
    OBVIOUS
  <2>3. HonestChain(ApplyFinalToForm("dropped")) /\ Unforced(ApplyFinalToForm("dropped"))
    BY GameHonest DEF Fails
  <2>4. \A chain \in chains : HonestChain(chain) /\ Unforced(chain) BY <2>2, <2>3
  <2>5. Await(i, "form", chains) /\ UNCHANGED caches BY <1>1, <1>9, <2>2 DEF ApplyScoreboardForm
  <2> QED BY <1>6, <2>1, <2>4, <2>5
<1>10. CASE FinishHarvest(i)
  <2>1. j # None /\ Save(i) BY <1>1, <1>10 DEF FinishHarvest, In
  <2>2. PICK row : row = j.row OBVIOUS
  <2>3. HonestLedger(row) BY <1>2, <2>1, <2>2 DEF HonestJob
  <2>4. job' = [job EXCEPT ![i] = None] BY <2>1 DEF Save
  <2>5. /\ edge' \in {edge, row, None, Cold}
        /\ \A k \in Isolates : memory'[k] \in {memory[k], edge, row, None, Cold}
    BY <1>1, <2>1, <2>2 DEF Save, TInv
  <2>6. job'[i] = None /\ \A k \in Isolates \ {i} : job'[k] = job[k] BY <2>4, Others
  <2> QED BY <1>0, <2>3, <2>5, <2>6, HonestFrom
<1> QED BY <1>7, <1>8, <1>9, <1>10 DEF Harvest

LEMMA OthersHonest ==
  ASSUME TInv, HInv, NEW i \in Isolates, JobStep(i)
  PROVE  HInv'
<1>0. UNCHANGED <<tables, feed>> BY GoingFrame DEF Going
<1>1. PICK slate : slate = feed OBVIOUS
<1>2. slate \in Slate /\ HonestSlate(slate) BY <1>1, SlatesTyped DEF TInv, HInv
<1>3. HonestLedger(None) BY DEF HonestLedger, HasRow
<1>4. ASSUME NEW kind, NEW phase, NEW s, NEW row, NEW chains,
             Begin(i, kind, phase, s, row, chains), HonestJob(New(kind, phase, s, row, chains)),
             edge' = edge, \A k \in Isolates : memory'[k] \in {memory[k], edge, None, Cold}
      PROVE  HInv'
  <2>1. PICK j : j = New(kind, phase, s, row, chains) OBVIOUS
  <2>2. job' = [job EXCEPT ![i] = j] BY <1>4, <2>1 DEF Begin, New
  <2>3. job'[i] = j /\ \A k \in Isolates \ {i} : job'[k] = job[k] BY <2>2, Others
  <2>4. HonestJob(j) BY <1>4, <2>1
  <2> QED BY <1>0, <1>3, <1>4, <2>3, <2>4, HonestFrom
<1>5. CASE BuildSlate(i)
  <2>1. PICK f \in Forecasts :
          Begin(i, "collect", "built",
                [status |-> slate.status, score |-> slate.score, forecast |-> f], None, {})
    BY <1>1, <1>5 DEF BuildSlate
  <2>2. PICK board : board = [status |-> slate.status, score |-> slate.score, forecast |-> f] OBVIOUS
  <2>3. HonestSlate(board) BY <1>2, <2>2 DEF HonestSlate, Over
  <2>4. Begin(i, "collect", "built", board, None, {}) BY <2>1, <2>2
  <2>5. HonestJob(New("collect", "built", board, None, {}))
    BY <1>3, <2>3 DEF HonestJob, HasSlate, New
  <2>6. edge' = edge /\ memory' = memory BY <1>5 DEF BuildSlate, caches
  <2> QED BY <1>4, <2>4, <2>5, <2>6
<1>6. CASE StartHarvest(i)
  <2>1. PICK row : row = Load(i) OBVIOUS
  <2>2. HonestLedger(row) BY <2>1, LoadHonest
  <2>3. Begin(i, "harvest", "loaded", None, row, {}) BY <1>6, <2>1 DEF StartHarvest
  <2>4. HonestJob(New("harvest", "loaded", None, row, {}))
    BY <2>2 DEF HonestJob, HasSlate, New
  <2>5. edge' = edge /\ \A k \in Isolates : memory'[k] \in {memory[k], edge, None, Cold}
    BY <1>6 DEF StartHarvest, Load, TInv
  <2> QED BY <1>4, <2>3, <2>4, <2>5
<1>7. CASE StartSettle(i)
  <2>1. Begin(i, "settle", "writing", slate, None, {}) BY <1>1, <1>7 DEF StartSettle
  <2>2. HonestJob(New("settle", "writing", slate, None, {}))
    BY <1>2, <1>3 DEF HonestJob, HasSlate, New
  <2>3. edge' = edge /\ memory' = memory BY <1>7 DEF StartSettle, caches
  <2> QED BY <1>4, <2>1, <2>2, <2>3
<1>8. CASE DeskGrades(i)
  <2>1. PICK score \in Scores, force \in BOOLEAN :
          Begin(i, "desk", "desk", None, None, {GradeSnapshotsForGame(score, force, "reported")})
    BY <1>8 DEF DeskGrades
  <2>2. score # None /\ Ended(score)
    BY <1>8, LedgerAssumption DEF LedgerAssumption, DeskGrades, Ended, Over
  <2>3. HonestChain(GradeSnapshotsForGame(score, force, "reported"))
    BY <2>2, GameHonest DEF Fails
  <2>4. PICK chains : chains = {GradeSnapshotsForGame(score, force, "reported")} OBVIOUS
  <2>5. HonestJob(New("desk", "desk", None, None, chains))
    BY <1>3, <2>3, <2>4 DEF HonestJob, HasSlate, New
  <2>6. Begin(i, "desk", "desk", None, None, chains) BY <2>1, <2>4
  <2>7. edge' = edge /\ memory' = memory BY <1>8 DEF DeskGrades, caches
  <2> QED BY <1>4, <2>5, <2>6, <2>7
<1>9. CASE DeskExcludes(i)
  <2>1. PICK force \in BOOLEAN :
          Begin(i, "desk", "desk", None, None, {ExcludeSnapshotsForGame(force)})
    BY <1>9 DEF DeskExcludes
  <2>2. HonestChain(ExcludeSnapshotsForGame(force)) BY GameHonest DEF Fails
  <2>3. PICK chains : chains = {ExcludeSnapshotsForGame(force)} OBVIOUS
  <2>4. HonestJob(New("desk", "desk", None, None, chains))
    BY <1>3, <2>2, <2>3 DEF HonestJob, HasSlate, New
  <2>5. Begin(i, "desk", "desk", None, None, chains) BY <2>1, <2>3
  <2>6. edge' = edge /\ memory' = memory BY <1>9 DEF DeskExcludes, caches
  <2> QED BY <1>4, <2>4, <2>5, <2>6
<1>10. CASE FetchFails(i)
  <2>1. PICK j : j = job[i] OBVIOUS
  <2>2. j # None /\ j \in Job /\ HonestJob(j) /\ j.kind = "harvest"
    BY <1>10, <2>1 DEF FetchFails, In, TInv, JobTyped, HInv, HonestJobs
  <2>3. PICK w : w = [j EXCEPT !.phase = "form"] OBVIOUS
  <2>4. w.kind = j.kind /\ w.phase = "form" /\ w.row = j.row /\ w.chains = j.chains
    BY <2>2, <2>3 DEF Job
  <2>5. HonestJob(w) BY <2>2, <2>4 DEF HonestJob, HasSlate
  <2>6. job' = [job EXCEPT ![i] = w] BY <1>10, <2>1, <2>3 DEF FetchFails, TInv
  <2>7. job'[i] = w /\ \A k \in Isolates \ {i} : job'[k] = job[k] BY <2>6, Others
  <2>8. edge' = edge /\ memory' = memory BY <1>10 DEF FetchFails, caches
  <2> QED BY <1>0, <1>3, <2>5, <2>7, <2>8, HonestFrom
<1>11. CASE Finish(i) \/ Die(i)
  <2>1. job' = [job EXCEPT ![i] = None] BY <1>11 DEF Finish, Die
  <2>2. job'[i] = None /\ \A k \in Isolates \ {i} : job'[k] = job[k] BY <2>1, Others
  <2>3. edge' = edge /\ \A k \in Isolates : memory'[k] \in {memory[k], edge, None, Cold}
    BY <1>11 DEF Finish, Die, caches, TInv
  <2> QED BY <1>0, <1>3, <2>2, <2>3, HonestFrom
<1> QED BY <1>5, <1>6, <1>7, <1>8, <1>9, <1>10, <1>11 DEF JobStep

LEMMA RunHonest ==
  ASSUME TInv, HInv, NEW i \in Isolates, job[i] # None, NEW chain \in job[i].chains,
         Run(i, chain) \/ RunFails(i, chain)
  PROVE  HInv'
<1>1. PICK j : j = job[i] OBVIOUS
<1>2. j # None /\ j \in Job /\ HonestJob(j) BY <1>1 DEF TInv, JobTyped, HInv, HonestJobs
<1>3. chain \in Chain /\ chain \in j.chains BY <1>1, <1>2 DEF Job
<1>4. HonestChain(chain) /\ (j.kind # "desk" => Unforced(chain)) BY <1>2, <1>3 DEF HonestJob
<1>5. PICK rest \in {<<>>, Tail(chain)}, ok \in BOOLEAN :
        job'[i] = With(j, Awaiting(j.chains, chain, rest), ok)
  BY <1>1, RunTyped
<1>6. PICK w : w = With(j, Awaiting(j.chains, chain, rest), ok) OBVIOUS
<1>7. /\ w.kind = j.kind /\ w.phase = j.phase /\ w.slate = j.slate /\ w.row = j.row
      /\ w.chains = Awaiting(j.chains, chain, rest)
  BY <1>6 DEF With
<1>8. ASSUME NEW c \in w.chains PROVE HonestChain(c) /\ (w.kind # "desk" => Unforced(c))
  <2>1. CASE c \in j.chains BY <1>2, <1>7, <2>1 DEF HonestJob
  <2>2. CASE c \notin j.chains
    <3>1. c = rest /\ rest # <<>> BY <1>7, <2>2 DEF Awaiting
    <3>2. c = Tail(chain) BY <3>1
    <3> QED BY <1>3, <1>4, <1>7, <3>1, <3>2, TailHonest
  <2> QED BY <2>1, <2>2
<1>16. w.kind = "desk" => \A a, b \in w.chains : a = b
  BY <1>2, <1>3, <1>7 DEF HonestJob, Awaiting
<1>9. HonestJob(w) BY <1>2, <1>7, <1>8, <1>16 DEF HonestJob, HasSlate
<1>10. UNCHANGED <<caches, feed>> BY DEF Run, RunFails, world
<1>11. HonestTables'
  <2>1. TablesTyped /\ HonestTables BY DEF TInv, TypeOK, TablesTyped, HInv
  <2>2. Head(chain) \in Statement /\ HonestStatement(Head(chain))
    BY <1>3, <1>4, ChainParts, TailHonest
  <2>3. UNCHANGED tables \/ Execute(Head(chain)) BY DEF Run, RunFails
  <2>4. CASE UNCHANGED tables BY <1>10, <2>1, <2>4 DEF HonestTables, tables, Ended, Over, Timely
  <2> QED BY <1>10, <2>1, <2>2, <2>3, <2>4, ExecuteHonest
<1>12. \A k \in Isolates \ {i} : job'[k] = job[k] BY RunTyped
<1>13. edge' = edge /\ memory' = memory BY <1>10 DEF caches
<1>14. HonestLedger(None) BY DEF HonestLedger, HasRow
<1>15. job'[i] = w BY <1>5, <1>6
<1> QED BY <1>9, <1>10, <1>11, <1>12, <1>13, <1>14, <1>15, HonestOn

LEMMA WorldHonest ==
  ASSUME TInv, HInv, Tick \/ GoLive \/ Complete \/ CallOff \/ MakeUp \/ Restate \/ Evict
  PROVE  HInv'
<1>1. (feed.status = "completed" => feed'.status = "completed") /\ (Over(feed) => Over(feed'))
  BY DEF Tick, GoLive, Complete, CallOff, MakeUp, Restate, Evict, TInv, TypeOK, Over
<1>2. HonestSlate(feed)'
  BY LedgerAssumption
  DEF LedgerAssumption, Tick, GoLive, Complete, CallOff, MakeUp, Restate, Evict, HInv, HonestSlate, Over, TInv, TypeOK
<1>3. UNCHANGED <<tables, job, jobs>> BY Worlds
<1>4. HonestTables' BY <1>1, <1>3 DEF HInv, HonestTables, tables, Ended, Over, Timely
<1>5. HonestJobs'
  <2> SUFFICES ASSUME NEW k \in Isolates, job'[k] # None PROVE HonestJob(job[k])'
    BY DEF HonestJobs
  <2>1. PICK m : m = job[k] OBVIOUS
  <2>2. HonestJob(m) BY <1>3, <2>1 DEF HInv, HonestJobs
  <2>3. HonestJob(m)' BY <1>1, <2>2, HonestStays
  <2> QED BY <1>3, <2>1, <2>3
<1>6. HonestLedger(Cold) BY DEF HonestLedger, HasRow
<1>7. edge' \in {edge, Cold} /\ \A k \in Isolates : memory'[k] \in {memory[k], Cold}
  BY DEF Tick, GoLive, Complete, CallOff, MakeUp, Restate, Evict, caches, TInv
<1>8. HonestLedger(edge)'
  <2>1. PICK m : m = edge' OBVIOUS
  <2>2. HonestLedger(m) BY <1>6, <1>7, <2>1 DEF HInv, HonestCaches
  <2>3. HonestLedger(m)' BY <1>1, <2>2, HonestStays
  <2> QED BY <2>1, <2>3
<1>9. ASSUME NEW k \in Isolates PROVE HonestLedger(memory[k])'
  <2>1. PICK m : m = memory'[k] OBVIOUS
  <2>2. HonestLedger(m) BY <1>6, <1>7, <2>1 DEF HInv, HonestCaches
  <2>3. HonestLedger(m)' BY <1>1, <2>2, HonestStays
  <2> QED BY <2>1, <2>3
<1> QED BY <1>2, <1>4, <1>5, <1>8, <1>9 DEF HInv, HonestCaches

LEMMA HonestStep == TInv /\ HInv /\ [Next]_vars => HInv'
<1> SUFFICES ASSUME TInv, HInv, [Next]_vars PROVE HInv' OBVIOUS
<1>1. ASSUME NEW i \in Isolates, Going(i) PROVE HInv'
  BY <1>1, CollectHonest, HarvestHonest, OthersHonest DEF Going
<1>2. CASE UNCHANGED vars
  BY <1>2 DEF HInv, HonestTables, HonestCaches, HonestJobs, HonestSlate, HonestLedger, HonestJob,
              HonestRow, HonestChain, HonestStatement, Played, Ended, Over, Timely, HasRow, vars
<1> QED BY <1>1, <1>2, RunHonest, WorldHonest, Steps

LEMMA HonestInit == Init => HInv
<1> SUFFICES ASSUME Init PROVE HInv OBVIOUS
<1>1. HonestSlate(feed) BY DEF Init, HonestSlate, Over
<1>2. HonestTables BY DEF Init, HonestTables
<1>3. HonestCaches BY DEF Init, HonestCaches, HonestLedger, HasRow
<1>4. HonestJobs BY DEF Init, HonestJobs
<1> QED BY <1>1, <1>2, <1>3, <1>4 DEF HInv

LEMMA HonestInvariant == Spec => [](TInv /\ HInv)
<1>1. Init => TInv /\ HInv BY TypeInit, HonestInit
<1>2. TInv /\ HInv /\ [Next]_vars => (TInv /\ HInv)' BY TypeStep, HonestStep
<1> QED BY <1>1, <1>2, PTL DEF Spec

\* No ledger has a final of a game that was not played, and no table one of a game that the
\* scoreboard never called over: not through a slow job, a cached row or a slate read long ago.
THEOREM FinalsWait == Spec => []FinalsOnlyWhenOver
<1>1. ASSUME HInv PROVE FinalsOnlyWhenOver
  <2>1. \A x : HonestLedger(x) /\ Graded(x) => feed.status = "completed"
    BY DEF HonestLedger, HonestRow, Played, Graded
  <2>2. ASSUME NEW x \in {edge} \union {memory[i] : i \in Isolates} PROVE HonestLedger(x)
    BY <1>1 DEF HInv, HonestCaches
  <2>3. \A x \in {prediction} \union {snapshots[c] : c \in Checkpoints} : Graded(x) => Over(feed)
    BY <1>1 DEF HInv, HonestTables, Ended, Graded, HasRow
  <2> QED BY <2>1, <2>2, <2>3 DEF FinalsOnlyWhenOver
<1> QED BY <1>1, HonestInvariant, PTL

\* The time of a snapshot belongs to its checkpoint, however late it is written.
THEOREM TimesBelong == Spec => []CheckpointTimely
<1>1. HInv => CheckpointTimely BY DEF HInv, HonestTables, Timely, CheckpointTimely
<1> QED BY <1>1, HonestInvariant, PTL
-----------------------------------------------------------------------------
(* Form: the marker hands out one token, a chain that counts *)

Awaited(i) == IF job[i] = None THEN {} ELSE job[i].chains
Token(chain) == chain[1].op \in {"home", "away"}
FormKept ==
  /\ form.home <= 1 /\ form.away <= 1
  /\ form.marked = FALSE => form.home = 0 /\ form.away = 0
FormOf(chain) ==
  /\ Token(chain) => form.marked = TRUE
  /\ chain[1].op = "home" => form.home = 0 /\ form.away = 0
  /\ chain[1].op = "away" => form.away = 0
FInv ==
  /\ FormKept
  /\ \A i \in Isolates : \A a \in Awaited(i) : FormOf(a)
  /\ \A i, k \in Isolates : \A a \in Awaited(i), b \in Awaited(k) :
       Token(a) /\ Token(b) => i = k /\ a = b

LEMMA PersistHeads ==
  \A row : \A chain \in PersistRow(row) : chain[1].op \in {"replace", "insert"}
<1>1. \A row, c : PersistCheckpoint(row, c)[1].op = "insert"
  BY DEF PersistCheckpoint, Insert
<1>2. \A row : <<Replace(row, "reported")>>[1].op = "replace" BY DEF Replace
<1> QED BY <1>1, <1>2 DEF PersistRow

\* No job but one that marks a form starts to count.
LEMMA GoingTokens ==
  ASSUME TInv, NEW i \in Isolates, Going(i)
  PROVE  /\ \A chain \in Awaited(i)' : chain \in Awaited(i) \/ ~Token(chain)
         /\ \A k \in Isolates \ {i} : job'[k] = job[k]
<1>1. PICK j : j = job[i] OBVIOUS
<1>2. ASSUME j # None PROVE j \in Job BY <1>1, <1>2 DEF TInv, JobTyped
<1>3. ASSUME NEW row, NEW wrote, NEW chains, j # None, \A chain \in chains : ~Token(chain),
             Writes(i, row, wrote, chains)
      PROVE  /\ \A chain \in Awaited(i)' : ~Token(chain)
             /\ \A k \in Isolates \ {i} : job'[k] = job[k]
  <2> DEFINE w == [kind |-> j.kind, phase |-> "writing", slate |-> j.slate,
                   row |-> row, wrote |-> wrote, chains |-> chains, ok |-> j.ok]
  <2>1. job' = [job EXCEPT ![i] = w] BY <1>1, <1>3, WritesMoves
  <2>2. w.chains = chains OBVIOUS
  <2> HIDE DEF w
  <2>3. job'[i] = w /\ \A k \in Isolates \ {i} : job'[k] = job[k] BY <2>1, Others
  <2> QED BY <1>3, <2>2, <2>3 DEF Awaited
<1>4. ASSUME NEW phase, NEW chains, j # None, \A chain \in chains : ~Token(chain),
             Await(i, phase, chains)
      PROVE  /\ \A chain \in Awaited(i)' : ~Token(chain)
             /\ \A k \in Isolates \ {i} : job'[k] = job[k]
  <2> DEFINE w == [kind |-> j.kind, phase |-> phase, slate |-> j.slate, row |-> j.row,
                   wrote |-> j.wrote, chains |-> chains, ok |-> j.ok]
  <2>1. job' = [job EXCEPT ![i] = w] BY <1>1, <1>4, AwaitMoves
  <2>2. w.chains = chains OBVIOUS
  <2> HIDE DEF w
  <2>3. job'[i] = w /\ \A k \in Isolates \ {i} : job'[k] = job[k] BY <2>1, Others
  <2> QED BY <1>4, <2>2, <2>3 DEF Awaited
<1>5. ASSUME NEW kind, NEW phase, NEW slate, NEW row, NEW chains,
             \A chain \in chains : ~Token(chain), Begin(i, kind, phase, slate, row, chains)
      PROVE  /\ \A chain \in Awaited(i)' : ~Token(chain)
             /\ \A k \in Isolates \ {i} : job'[k] = job[k]
  <2>1. PICK w : w = New(kind, phase, slate, row, chains) OBVIOUS
  <2>2. job' = [job EXCEPT ![i] = w] /\ w.chains = chains BY <1>5, <2>1 DEF Begin, New
  <2>3. job'[i] = w /\ \A k \in Isolates \ {i} : job'[k] = job[k] BY <2>2, Others
  <2> QED BY <1>5, <2>2, <2>3 DEF Awaited
<1>6. ASSUME job' = [job EXCEPT ![i] = None]
      PROVE  Awaited(i)' = {} /\ \A k \in Isolates \ {i} : job'[k] = job[k]
  BY <1>6, Others DEF Awaited
<1>7. \A row, a, b, c, f : ~Token(<<Replace(row, f)>>) /\ ~Token(<<Replace(row, f), a, b>>)
                           /\ ~Token(<<Insert(row, c, f)>>)
  BY DEF Token, Replace, Insert
<1>8. \A row : \A chain \in PersistRow(row) : ~Token(chain) BY PersistHeads DEF Token
<1>9. \A final, force, f : /\ ~Token(GradeSnapshotsForGame(final, force, f))
                           /\ ~Token(ExcludeSnapshotsForGame(force)) /\ ~Token(ApplyFinalToForm(f))
  BY DEF Token, GradeSnapshotsForGame, ExcludeSnapshotsForGame, ApplyFinalToForm, OnGame, OnForm
<1>10. CASE Collect(i)
  <2>1. CASE FreezeFirst(i)
    <3>1. j # None BY <1>1, <2>1 DEF FreezeFirst, In
    <3>2. PICK row : row = FreezeNew(job[i].slate.forecast) OBVIOUS
    <3>3. Writes(i, row, Filled(row),
                 {<<Replace(row, "ignored"), Insert(row, "FIRST_AVAILABLE", "ignored"),
                    Insert(row, ClassifyCheckpoint, "ignored")>>})
      BY <2>1, <3>2 DEF FreezeFirst
    <3> QED BY <1>3, <1>7, <3>1, <3>3
  <2>2. CASE FreezeAgain(i)
    <3>1. j # None BY <1>1, <2>2 DEF FreezeAgain, In
    <3>4. PICK old : old = Load(i) OBVIOUS
    <3>5. PICK row : row = Refreeze(old, job[i].slate.forecast) OBVIOUS
    <3>6. PICK new : new = Filled(row) \ Filled(old) OBVIOUS
    <3>7. PICK bare : bare = [row EXCEPT !.final = None] OBVIOUS
    <3>8. PICK chains : chains = {<<Insert(bare, c, "ignored")>> : c \in new}
                   \union (IF row.forecast = old.forecast THEN {} ELSE {<<Replace(row, "reported")>>})
      OBVIOUS
    <3>2. Writes(i, row, new, chains)
      BY <2>2, <3>4, <3>5, <3>6, <3>7, <3>8 DEF FreezeAgain
    <3>3. \A chain \in chains : ~Token(chain) BY <1>7, <3>8
    <3> QED BY <1>3, <3>1, <3>2, <3>3
  <2>3. CASE FreezeFinal(i)
    <3>1. j # None BY <1>1, <2>3 DEF FreezeFinal, In
    <3>2. PICK row : row = ApplyFinal(Load(i), job[i].slate) OBVIOUS
    <3>3. Writes(i, row, Filled(row), PersistRow(row)) BY <2>3, <3>2 DEF FreezeFinal
    <3> QED BY <1>3, <1>8, <3>1, <3>3
  <2>4. CASE FreezeNothing(i) BY <1>6, <2>4 DEF FreezeNothing
  <2>5. CASE FinishCollect(i) BY <1>6, <2>5 DEF FinishCollect, Save
  <2> QED BY <1>10, <2>1, <2>2, <2>3, <2>4, <2>5 DEF Collect
<1>11. CASE Harvest(i)
  <2>1. CASE HarvestRow(i)
    <3>1. j # None BY <1>1, <2>1 DEF HarvestRow, In
    <3>2. PICK old : old = job[i].row OBVIOUS
    <3>3. PICK slate : slate = feed OBVIOUS
    <3>4. PICK row : row = IF Ungraded(old) THEN ApplyFinal(old, slate) ELSE old OBVIOUS
    <3>5. PICK wrote : wrote = IF Ungraded(old) THEN Filled(row) ELSE {} OBVIOUS
    <3>6. PICK chains :
            chains = IF ~Ungraded(old) THEN {}
                     ELSE PersistRow(row) \union
                          (IF row.final = None THEN {}
                           ELSE {GradeSnapshotsForGame(row.final, FALSE, "reported"),
                                 ApplyFinalToForm("reported")})
      OBVIOUS
    <3>7. \A chain \in chains : ~Token(chain) BY <1>8, <1>9, <3>6
    <3>8. Grades(i, slate, row, wrote, chains)
      BY <2>1, <3>2, <3>3, <3>4, <3>5, <3>6 DEF HarvestRow, Grades
    <3> DEFINE w == [kind |-> j.kind, phase |-> "writing", slate |-> slate, row |-> row,
                     wrote |-> wrote, chains |-> chains, ok |-> j.ok]
    <3>9. job' = [job EXCEPT ![i] = w] BY <1>1, <3>1, <3>8, RowMoves
    <3>10. w.chains = chains OBVIOUS
    <3> HIDE DEF w
    <3>11. job'[i] = w /\ \A k \in Isolates \ {i} : job'[k] = job[k] BY <3>9, Others
    <3> QED BY <3>7, <3>10, <3>11 DEF Awaited
  <2>2. CASE GradePopulation(i)
    <3>1. j # None BY <1>1, <2>2 DEF GradePopulation, In
    <3>2. PICK score : score = job[i].slate.score OBVIOUS
    <3>3. PICK chains : chains = IF LacksFinal /\ Over(job[i].slate)
                                 THEN {GradeSnapshotsForGame(score, FALSE, "dropped")} ELSE {}
      OBVIOUS
    <3>4. \A chain \in chains : ~Token(chain) BY <1>9, <3>3
    <3>5. Await(i, "grading", chains) BY <2>2, <3>2, <3>3 DEF GradePopulation
    <3> QED BY <1>4, <3>1, <3>4, <3>5
  <2>3. CASE ApplyScoreboardForm(i)
    <3>1. j # None BY <1>1, <2>3 DEF ApplyScoreboardForm, In
    <3>2. PICK chains : chains = IF Over(job[i].slate)
                                 THEN {ApplyFinalToForm("dropped")} ELSE {}
      OBVIOUS
    <3>3. \A chain \in chains : ~Token(chain) BY <1>9, <3>2
    <3>4. Await(i, "form", chains) BY <2>3, <3>2 DEF ApplyScoreboardForm
    <3> QED BY <1>4, <3>1, <3>3, <3>4
  <2>4. CASE FinishHarvest(i) BY <1>6, <2>4 DEF FinishHarvest, Save
  <2> QED BY <1>11, <2>1, <2>2, <2>3, <2>4 DEF Harvest
<1>12. CASE JobStep(i)
  <2>1. CASE BuildSlate(i) BY <1>5, <2>1 DEF BuildSlate
  <2>2. CASE StartHarvest(i)
    <3>1. PICK row : row = Load(i) OBVIOUS
    <3>2. Begin(i, "harvest", "loaded", None, row, {}) BY <2>2, <3>1 DEF StartHarvest
    <3> QED BY <1>5, <3>2
  <2>3. CASE StartSettle(i)
    <3>1. PICK slate : slate = feed OBVIOUS
    <3>2. Begin(i, "settle", "writing", slate, None, {}) BY <2>3, <3>1 DEF StartSettle
    <3> QED BY <1>5, <3>2
  <2>4. CASE DeskGrades(i) BY <1>5, <1>9, <2>4 DEF DeskGrades
  <2>5. CASE DeskExcludes(i) BY <1>5, <1>9, <2>5 DEF DeskExcludes
  <2>6. CASE FetchFails(i)
    <3>1. j # None /\ j \in Job BY <1>1, <1>2, <2>6 DEF FetchFails, In
    <3>2. PICK w : w = [j EXCEPT !.phase = "form"] OBVIOUS
    <3>3. w.chains = j.chains BY <3>1, <3>2 DEF Job
    <3>4. job' = [job EXCEPT ![i] = w] BY <1>1, <2>6, <3>2 DEF FetchFails, TInv
    <3>5. job'[i] = w /\ \A k \in Isolates \ {i} : job'[k] = job[k] BY <3>4, Others
    <3> QED BY <1>1, <3>1, <3>3, <3>5 DEF Awaited
  <2>7. CASE Finish(i) \/ Die(i) BY <1>6, <2>7 DEF Finish, Die
  <2> QED BY <1>12, <2>1, <2>2, <2>3, <2>4, <2>5, <2>6, <2>7 DEF JobStep
<1> QED BY <1>10, <1>11, <1>12 DEF Going

\* What is left of a chain once its first statement ran, or failed.
LEMMA RestOfForm ==
  ASSUME NEW chain \in Chain, HonestChain(chain), NEW rest \in {<<>>, Tail(chain)}, rest # <<>>
  PROVE  /\ rest[1] = chain[2]
         /\ Token(rest) =>
              \/ (chain[1].op = "mark" /\ rest[1].op = "home" /\ chain[1].fails # "ignored")
              \/ (chain[1].op = "home" /\ rest[1].op = "away")
<1>1. rest = Tail(chain) OBVIOUS
<1>2. rest \in Chain BY <1>1, ChainParts
<1>3. 1 \in DOMAIN rest BY <1>2, ChainParts
<1>4. 2 \in DOMAIN chain /\ rest[1] = chain[2]
  <2>1. 1 + 1 \in DOMAIN chain /\ rest[1] = chain[1 + 1] BY <1>1, <1>3, ChainParts
  <2> QED BY <2>1
<1>5. CASE Plain(chain, 1) \/ (chain[1].op = "gradeSnapshots" /\ Plain(chain, 2))
  <2>1. chain[2].op \notin OfForm BY <1>4, <1>5 DEF Plain
  <2> QED BY <1>4, <2>1 DEF Token, OfForm
<1>6. CASE Len(chain) = 1
  <2>1. DOMAIN chain = 1..1 BY <1>6, ChainParts
  <2> QED BY <1>4, <2>1
<1> QED BY <1>4, <1>5, <1>6 DEF HonestChain, Shaped, Token

LEMMA RunAwaits ==
  ASSUME TInv, NEW i \in Isolates, job[i] # None, NEW chain \in job[i].chains,
         Run(i, chain) \/ RunFails(i, chain)
  PROVE  \E rest \in {<<>>, Tail(chain)} :
           /\ \A c \in Awaited(i)' : c \in Awaited(i) \ {chain} \/ (c = rest /\ rest # <<>>)
           /\ \/ Run(i, chain) /\ rest = Rest(chain)
              \/ RunFails(i, chain) /\ rest = RestAfterFailure(chain)
<1>0. chain \in Chain BY DEF TInv, JobTyped, Job
<1>1. ASSUME NEW rest, NEW ok, RunGoes(i, chain, rest, ok)
      PROVE  \A c \in Awaited(i)' : c \in Awaited(i) \ {chain} \/ (c = rest /\ rest # <<>>)
  <2>1. PICK j : j = job[i] OBVIOUS
  <2>2. PICK w : w = With(j, Awaiting(j.chains, chain, rest), ok) OBVIOUS
  <2>3. job' = [job EXCEPT ![i] = w] BY <1>1, <2>1, <2>2 DEF RunGoes
  <2>4. job'[i] = w BY <2>3, Others
  <2>5. w.chains = Awaiting(j.chains, chain, rest) BY <2>2 DEF With
  <2> QED BY <2>1, <2>4, <2>5 DEF Awaited, Awaiting
<1>2. CASE Run(i, chain)
  <2>1. PICK rest : rest = Rest(chain) OBVIOUS
  <2>2. PICK ok : ok = job[i].ok OBVIOUS
  <2>3. RunGoes(i, chain, rest, ok) BY <1>2, <2>1, <2>2, RunMoves
  <2>4. rest \in {<<>>, Tail(chain)} BY <1>0, <2>1, RestIsPart
  <2> QED BY <1>1, <1>2, <2>1, <2>3, <2>4
<1>3. CASE RunFails(i, chain)
  <2>1. PICK rest : rest = RestAfterFailure(chain) OBVIOUS
  <2>2. PICK ok : ok = Unharmed(i, chain) OBVIOUS
  <2>3. RunGoes(i, chain, rest, ok) BY <1>3, <2>1, <2>2, RunMoves
  <2>4. rest \in {<<>>, Tail(chain)} BY <1>0, <2>1, RestIsPart
  <2> QED BY <1>1, <1>3, <2>1, <2>3, <2>4
<1> QED BY <1>2, <1>3

LEMMA RunForm ==
  ASSUME TInv, HInv, FInv, NEW i \in Isolates, job[i] # None, NEW chain \in job[i].chains,
         Run(i, chain) \/ RunFails(i, chain)
  PROVE  FInv'
<1>1. chain \in Chain /\ HonestChain(chain) /\ chain \in Awaited(i)
  BY DEF TInv, JobTyped, Job, HInv, HonestJobs, HonestJob, Awaited
<1>2. Head(chain) = chain[1] BY <1>1, ChainParts
<1>3. PICK rest \in {<<>>, Tail(chain)} :
        /\ \A c \in Awaited(i)' : c \in Awaited(i) \ {chain} \/ (c = rest /\ rest # <<>>)
        /\ \/ Run(i, chain) /\ rest = Rest(chain)
           \/ RunFails(i, chain) /\ rest = RestAfterFailure(chain)
  BY RunAwaits
<1>4. \A k \in Isolates \ {i} : Awaited(k)' = Awaited(k)
  <2>1. \A k \in Isolates \ {i} : job'[k] = job[k] BY RunTyped
  <2> QED BY <2>1 DEF Awaited
<1>5. form \in [marked : BOOLEAN, home : Nat, away : Nat] /\ form' \in [marked : BOOLEAN, home : Nat, away : Nat]
  BY RunTyped DEF TInv, TypeOK, TablesTyped
<1>6. form' = form \/ CountForm(chain[1])
  <2>1. UNCHANGED tables \/ Execute(Head(chain)) BY DEF Run, RunFails
  <2> QED BY <1>2, <2>1 DEF tables, Execute, ReplacePrediction, InsertSnapshot, GradeSnapshot,
             GradeSnapshots, GradePredictions, ExcludeSnapshots, ExcludePredictions
<1>7. ASSUME NEW k \in Isolates, NEW c \in Awaited(k)', Token(c)
      PROVE  \/ c \in Awaited(k) /\ (k = i => c # chain)
             \/ k = i /\ c = rest /\ rest # <<>>
  BY <1>3, <1>4, <1>7
<1>8. ASSUME rest # <<>>, Token(rest)
      PROVE  \/ (chain[1].op = "mark" /\ rest[1].op = "home" /\ chain[1].fails # "ignored")
             \/ (chain[1].op = "home" /\ rest[1].op = "away")
  BY <1>1, <1>8, RestOfForm
<1>9. CASE ~(rest # <<>> /\ Token(rest)) /\ form'.home = form.home /\ form'.away = form.away
           /\ (form.marked = TRUE => form'.marked = TRUE)
  <2>1. \A k \in Isolates : \A c \in Awaited(k)' : Token(c) => c \in Awaited(k) BY <1>7, <1>9
  <2>2. FormKept' BY <1>5, <1>9 DEF FInv, FormKept
  <2>3. \A k \in Isolates : \A c \in Awaited(k)' : FormOf(c)'
    BY <1>9, <2>1 DEF FInv, FormOf, Token
  <2> QED BY <2>1, <2>2, <2>3 DEF FInv, Token
<1>10. CASE chain[1].op \notin OfForm
  <2>1. form' = form BY <1>6, <1>10, FormCounts, <1>5
  <2>2. ~(rest # <<>> /\ Token(rest)) BY <1>8, <1>10 DEF OfForm
  <2> QED BY <1>9, <2>1, <2>2
<1>11. CASE chain[1].op = "mark"
  <2>1. form'.home = form.home /\ form'.away = form.away /\ (form'.marked = TRUE \/ form' = form)
    BY <1>5, <1>6, <1>11, FormCounts
  <2>2. CASE rest = <<>> BY <1>9, <2>1, <2>2
  <2>3. CASE rest # <<>> /\ ~Token(rest) BY <1>9, <2>1, <2>3
  <2>4. CASE rest # <<>> /\ Token(rest)
    <3>1. rest[1].op = "home" /\ chain[1].fails # "ignored" BY <1>8, <1>11, <2>4
    <3>2. Run(i, chain) /\ rest = Rest(chain)
      BY <1>2, <1>3, <2>4, <3>1 DEF RestAfterFailure
    <3>3. form.marked = FALSE BY <1>2, <1>5, <1>11, <2>4, <3>2 DEF Rest
    <3>4. form.home = 0 /\ form.away = 0 BY <3>3 DEF FInv, FormKept
    <3>5. \A k \in Isolates : \A c \in Awaited(k) : ~Token(c)
      BY <3>3 DEF FInv, FormOf
    <3>6. \A k \in Isolates : \A c \in Awaited(k)' : Token(c) => k = i /\ c = rest
      BY <1>7, <3>5
    <3>7. form'.marked = TRUE
      <4>1. Execute(chain[1]) BY <1>2, <3>2 DEF Run
      <4>2. CountForm(chain[1])
        BY <1>11, <4>1 DEF Execute, ReplacePrediction, InsertSnapshot, GradeSnapshot,
           GradeSnapshots, GradePredictions, ExcludeSnapshots, ExcludePredictions
      <4> QED BY <1>5, <1>11, <4>2, FormCounts
    <3>8. FormKept' BY <2>1, <3>4, <3>7 DEF FormKept
    <3>9. FormOf(rest)' BY <2>1, <3>1, <3>4, <3>7 DEF FormOf
    <3>10. \A c : ~Token(c) => FormOf(c)' BY DEF FormOf, Token
    <3> QED BY <3>6, <3>8, <3>9, <3>10 DEF FInv, Token
  <2> QED BY <2>2, <2>3, <2>4
<1>12. CASE chain[1].op \in {"home", "away"}
  <2>1. Token(chain) BY <1>12 DEF Token
  <2>2. /\ form.marked = TRUE /\ form.away = 0
        /\ chain[1].op = "home" => form.home = 0
        /\ form.home <= 1
    BY <1>1, <1>12, <2>1 DEF FInv, FormOf, FormKept
  <2>3. \A k \in Isolates : \A c \in Awaited(k)' : Token(c) => k = i /\ c = rest /\ rest # <<>>
    <3>1. \A k \in Isolates : \A c \in Awaited(k) : Token(c) => k = i /\ c = chain
      BY <1>1, <2>1 DEF FInv
    <3> QED BY <1>7, <3>1
  <2>4. form'.marked = TRUE
        /\ (chain[1].op = "home" => form'.home \in {0, 1} /\ form'.away = 0)
        /\ (chain[1].op = "away" => form'.home = form.home /\ form'.away \in {0, 1})
    <3>1. CASE form' = form BY <1>5, <2>2, <3>1
    <3>2. CASE CountForm(chain[1])
      <4>1. PICK s : s = chain[1] OBVIOUS
      <4>2. /\ s.op = "home" => form'.marked = form.marked /\ form'.home = form.home + 1
                                /\ form'.away = form.away
            /\ s.op = "away" => form'.marked = form.marked /\ form'.home = form.home
                                /\ form'.away = form.away + 1
        BY <1>5, <3>2, <4>1, FormCounts
      <4> QED BY <1>12, <2>2, <4>1, <4>2
    <3> QED BY <1>6, <3>1, <3>2
  <2>5. form'.home \in Nat /\ form'.away \in Nat /\ form.home \in Nat BY <1>5
  <2>6. FormKept' BY <1>12, <2>2, <2>4, <2>5 DEF FormKept
  <2>7. ASSUME rest # <<>>, Token(rest) PROVE FormOf(rest)'
    <3>1. chain[1].op = "home" /\ rest[1].op = "away" BY <1>8, <1>12, <2>7
    <3> QED BY <2>4, <3>1 DEF FormOf
  <2>8. \A c : ~Token(c) => FormOf(c)' BY DEF FormOf, Token
  <2> QED BY <2>3, <2>6, <2>7, <2>8 DEF FInv, Token
<1> QED BY <1>10, <1>11, <1>12 DEF OfForm

LEMMA FormStep == TInv /\ HInv /\ FInv /\ [Next]_vars => FInv'
<1> SUFFICES ASSUME TInv, HInv, FInv, [Next]_vars PROVE FInv' OBVIOUS
<1>1. ASSUME NEW i \in Isolates, Going(i) PROVE FInv'
  <2>1. form' = form BY <1>1, GoingFrame DEF tables
  <2>2. \A k \in Isolates : \A c \in Awaited(k)' : Token(c) => c \in Awaited(k)
    BY <1>1, GoingTokens DEF Awaited
  <2>3. FormKept' BY <2>1 DEF FInv, FormKept
  <2>4. \A k \in Isolates : \A c \in Awaited(k)' : FormOf(c)'
    BY <2>1, <2>2 DEF FInv, FormOf, Token
  <2> QED BY <2>2, <2>3, <2>4 DEF FInv, Token
<1>2. CASE UNCHANGED <<form, job>>
  BY <1>2 DEF FInv, FormKept, FormOf, Token, Awaited
<1>3. CASE Tick \/ GoLive \/ Complete \/ CallOff \/ MakeUp \/ Restate \/ Evict
  BY <1>2, <1>3, Worlds DEF tables
<1>4. CASE UNCHANGED vars BY <1>2, <1>4 DEF vars
<1> QED BY <1>1, <1>3, <1>4, RunForm, Steps

LEMMA FormInit == Init => FInv
BY DEF Init, FInv, FormKept, Awaited

\* However many jobs mark the game and however many answers are lost, each team's form
\* counts it at most once.
THEOREM CountedAtMostOnce == Spec => []FormCountsOnce
<1>1. Init => TInv /\ HInv /\ FInv BY TypeInit, HonestInit, FormInit
<1>2. TInv /\ HInv /\ FInv /\ [Next]_vars => (TInv /\ HInv /\ FInv)'
  BY TypeStep, HonestStep, FormStep
<1>3. FInv => FormCountsOnce BY DEF FInv, FormKept, FormCountsOnce
<1> QED BY <1>1, <1>2, <1>3, PTL DEF Spec
-----------------------------------------------------------------------------
(* The table keeps its promise *)

\* The corrections under way are those at the head of the desk's chains.
Ordered(k, final) ==
  /\ job[k] # None /\ job[k].kind = "desk"
  /\ \E chain \in job[k].chains :
       chain[1].op = "gradeSnapshots" /\ chain[1].force /\ chain[1].final = final

LEMMA ShapedAtHead ==
  ASSUME NEW chain \in Chain, Shaped(chain), NEW n \in DOMAIN chain, chain[n].op = "gradeSnapshots"
  PROVE  n = 1
<1>1. PICK len \in Nat : len = Len(chain) BY ChainParts
<1>2. DOMAIN chain = 1..len BY <1>1, ChainParts
<1>3. CASE Plain(chain, 1) BY <1>2, <1>3 DEF Plain
<1>4. CASE Plain(chain, 2) BY <1>2, <1>4 DEF Plain
<1>5. CASE len \in 1..3 /\ \A m \in 1..len : chain[m].op \in OfForm BY <1>2, <1>5 DEF OfForm
<1>6. CASE /\ len = 3 /\ chain[1].op = "mark" /\ chain[2].op = "home" /\ chain[3].op = "away"
  BY <1>5, <1>6 DEF OfForm
<1>7. CASE len = 2 /\ chain[1].op = "home" /\ chain[2].op = "away" BY <1>5, <1>7 DEF OfForm
<1>8. CASE len = 1 /\ chain[1].op = "away" BY <1>5, <1>8 DEF OfForm
<1> QED BY <1>1, <1>3, <1>4, <1>6, <1>7, <1>8 DEF Shaped

LEMMA DeskChains ==
  ASSUME NEW j \in Job, HonestJob(j), NEW final
  PROVE  (\E s \in UNION {{chain[n] : n \in DOMAIN chain} : chain \in j.chains} :
             s.op = "gradeSnapshots" /\ s.force /\ s.final = final)
         <=> (\E chain \in j.chains :
                chain[1].op = "gradeSnapshots" /\ chain[1].force /\ chain[1].final = final)
<1>1. \A chain \in j.chains : chain \in Chain /\ HonestChain(chain) /\ 1 \in DOMAIN chain
  BY ChainParts DEF Job, HonestJob
<1>2. ASSUME NEW chain \in j.chains, NEW n \in DOMAIN chain, chain[n].op = "gradeSnapshots"
      PROVE  n = 1
  BY <1>1, <1>2, ShapedAtHead DEF HonestChain
<1> QED BY <1>1, <1>2

LEMMA CorrectionsAre ==
  ASSUME NEW i \in Isolates, TInv, HInv, TInv', HInv'
  PROVE  /\ \A final : final \in Corrections <=> \E k \in Isolates : Ordered(k, final)
         /\ \A final : final \in Corrections' <=> \E k \in Isolates : Ordered(k, final)'
<1>1. ASSUME NEW final
      PROVE  final \in Corrections <=> \E k \in Isolates : Ordered(k, final)
  <2>1. final \in Corrections <=>
          \E k \in Isolates : /\ job[k] # None /\ job[k].kind = "desk"
                              /\ \E s \in Pending(k) : s.op = "gradeSnapshots" /\ s.force /\ s.final = final
    BY DEF Corrections
  <2>2. ASSUME NEW k \in Isolates, job[k] # None
        PROVE  (\E s \in Pending(k) : s.op = "gradeSnapshots" /\ s.force /\ s.final = final)
               <=> \E chain \in job[k].chains :
                     chain[1].op = "gradeSnapshots" /\ chain[1].force /\ chain[1].final = final
    <3>1. PICK j : j = job[k] OBVIOUS
    <3>2. j \in Job /\ HonestJob(j) BY <2>2, <3>1 DEF TInv, JobTyped, HInv, HonestJobs
    <3>3. Pending(k) = UNION {{chain[n] : n \in DOMAIN chain} : chain \in j.chains}
      BY <2>2, <3>1 DEF Pending
    <3> QED BY <3>1, <3>2, <3>3, DeskChains
  <2> QED BY <2>1, <2>2 DEF Ordered
<1>2. ASSUME NEW final
      PROVE  final \in Corrections' <=> \E k \in Isolates : Ordered(k, final)'
  <2>1. final \in Corrections' <=>
          \E k \in Isolates : /\ job'[k] # None /\ job'[k].kind = "desk"
                              /\ \E s \in Pending(k)' : s.op = "gradeSnapshots" /\ s.force /\ s.final = final
    BY DEF Corrections
  <2>2. ASSUME NEW k \in Isolates, job'[k] # None
        PROVE  (\E s \in Pending(k)' : s.op = "gradeSnapshots" /\ s.force /\ s.final = final)
               <=> \E chain \in job'[k].chains :
                     chain[1].op = "gradeSnapshots" /\ chain[1].force /\ chain[1].final = final
    <3>1. PICK j : j = job'[k] OBVIOUS
    <3>2. j \in Job BY <2>2, <3>1 DEF TInv, JobTyped
    <3>3. Pending(k)' = UNION {{chain[n] : n \in DOMAIN chain} : chain \in j.chains}
      BY <2>2, <3>1 DEF Pending
    <3>4. \A chain \in j.chains : chain \in Chain /\ 1 \in DOMAIN chain
      BY <3>2, ChainParts DEF Job
    <3>5. ASSUME NEW chain \in j.chains, NEW n \in DOMAIN chain, chain[n].op = "gradeSnapshots"
          PROVE  n = 1
      <4>1. Shaped(chain)
        BY <2>2, <3>1 DEF HInv, HonestJobs, HonestJob, HonestChain, Shaped, Plain, OfForm
      <4> QED BY <3>4, <3>5, <4>1, ShapedAtHead
    <3> QED BY <3>1, <3>3, <3>4, <3>5
  <2> QED BY <2>1, <2>2 DEF Ordered
<1> QED BY <1>1, <1>2

\* Only a correction's own statement takes it off the list.
LEMMA CorrectionsKept ==
  ASSUME TInv, HInv, TInv', HInv', NEW i \in Isolates, job[i] # None, NEW chain \in job[i].chains,
         Run(i, chain) \/ RunFails(i, chain), ~(chain[1].op = "gradeSnapshots" /\ chain[1].force)
  PROVE  Corrections' = Corrections
<1>1. PICK j : j = job[i] OBVIOUS
<1>2. j \in Job /\ HonestJob(j) BY <1>1 DEF TInv, JobTyped, HInv, HonestJobs
<1>3. chain \in Chain /\ HonestChain(chain) BY <1>1, <1>2 DEF Job, HonestJob
<1>4. PICK rest \in {<<>>, Tail(chain)}, ok \in BOOLEAN :
        job'[i] = With(j, Awaiting(j.chains, chain, rest), ok)
  BY <1>1, RunTyped
<1>5. job'[i].kind = j.kind /\ job'[i].chains = Awaiting(j.chains, chain, rest)
  BY <1>4 DEF With
<1>6. rest # <<>> => rest[1].op # "gradeSnapshots"
  <2>1. SUFFICES ASSUME rest # <<>>, rest[1].op = "gradeSnapshots" PROVE FALSE OBVIOUS
  <2>2. rest = Tail(chain) BY <2>1
  <2>3. rest \in Chain BY <1>3, <2>1, <2>2, ChainParts
  <2>4. 1 \in DOMAIN rest BY <2>3, ChainParts
  <2>5. 1 + 1 \in DOMAIN chain /\ rest[1] = chain[1 + 1] BY <1>3, <2>2, <2>4, ChainParts
  <2>6. 1 + 1 = 1 BY <1>3, <2>1, <2>5, ShapedAtHead DEF HonestChain
  <2> QED BY <2>6
<1>7. \A k \in Isolates \ {i} : job'[k] = job[k] BY RunTyped
<1>8. \A final : ~Ordered(i, final)
  BY <1>1, <1>2 DEF Ordered, HonestJob
<1>9. \A final : ~Ordered(i, final)'
  <2> SUFFICES ASSUME j.kind = "desk" PROVE \A final : ~Ordered(i, final)'
    BY <1>5 DEF Ordered
  <2>1. j.chains = {chain} BY <1>1, <1>2 DEF HonestJob
  <2>2. \A c \in job'[i].chains : c = rest /\ rest # <<>> BY <1>5, <2>1 DEF Awaiting
  <2> QED BY <1>6, <2>2 DEF Ordered
<1>10. \A k \in Isolates : \A final : Ordered(k, final)' <=> Ordered(k, final)
  BY <1>7, <1>8, <1>9 DEF Ordered
<1>11. \A final : final \in Corrections' <=> final \in Corrections
  BY <1>10, CorrectionsAre
<1> QED BY <1>11

\* A statement changes the table only as the record allows.
LEMMA StatementKeeps ==
  ASSUME TablesTyped, NEW s \in Statement, HonestStatement(s), Execute(s),
         s.op = "gradeSnapshots" /\ s.force => s.final \in Corrections,
         ~(s.op = "gradeSnapshots" /\ s.force) => Corrections' = Corrections
  PROVE  Record!Next
<1>0. DOMAIN snapshots = Checkpoints
      /\ \A c \in Checkpoints : snapshots[c] # None => snapshots[c] \in Snapshot
  BY DEF TablesTyped
<1>1. CASE UNCHANGED snapshots BY <1>1 DEF Record!Next, Record!Order
<1>2. CASE InsertSnapshot(s)
  <2>1. s.op = "insert" BY <1>2 DEF InsertSnapshot
  <2>2. PICK c \in Checkpoints : c = s.cp BY <2>1 DEF Statement, OfGame, OfForm
  <2>3. CASE snapshots[c] # None BY <1>1, <1>2, <2>2, <2>3 DEF InsertSnapshot, Inserted
  <2>4. CASE snapshots[c] = None
    <3>1. PICK row : row = [forecast |-> s.frozen.forecast, at |-> s.frozen.at, final |-> s.final,
                            excluded |-> FALSE]
      OBVIOUS
    <3>2. snapshots' = [snapshots EXCEPT ![c] = row]
      BY <1>2, <2>2, <2>4, <3>1 DEF InsertSnapshot, Inserted
    <3>3. snapshots'[c] = row BY <1>0, <3>2
    <3>4. row.excluded = FALSE BY <3>1
    <3>5. s.frozen \in Frozen /\ s.final \in Finals BY <2>1 DEF Statement, OfGame, OfForm
    <3>6. row \in Snapshot BY <3>1, <3>5 DEF Frozen, Snapshot
    <3>7. row # None BY <3>6, NullIsNoRecord DEF NullIsNoRecord
    <3>8. Record!Freeze(c, snapshots'[c])
      BY <2>1, <2>4, <3>2, <3>3, <3>4, <3>7 DEF Record!Freeze
    <3> QED BY <3>8 DEF Record!Next
  <2> QED BY <2>3, <2>4
<1>3. CASE GradeSnapshot(s)
  <2>1. s.op = "grade" BY <1>3 DEF GradeSnapshot
  <2>2. PICK c \in Checkpoints : c = s.cp BY <2>1 DEF Statement, OfGame, OfForm
  <2>3. CASE snapshots[c] = None BY <1>1, <1>3, <2>2, <2>3 DEF GradeSnapshot
  <2>4. CASE snapshots[c] # None
    <3>1. PICK f : f = Coalesce(snapshots[c].final, s.final) OBVIOUS
    <3>2. snapshots' = [snapshots EXCEPT ![c] = [snapshots[c] EXCEPT !.final = f]]
      BY <1>0, <1>3, <2>2, <2>4, <3>1 DEF GradeSnapshot
    <3>3. CASE snapshots[c].final # None
      <4>1. f = snapshots[c].final BY <3>1, <3>3 DEF Coalesce
      <4>2. [snapshots[c] EXCEPT !.final = f] = snapshots[c] BY <1>0, <2>4, <4>1 DEF Snapshot
      <4>3. snapshots' = snapshots BY <1>0, <3>2, <4>2 DEF TablesTyped
      <4> QED BY <1>1, <4>3
    <3>4. CASE snapshots[c].final = None
      <4>1. snapshots'[c].final = f
        <5>1. snapshots'[c] = [snapshots[c] EXCEPT !.final = f] BY <1>0, <3>2
        <5> QED BY <1>0, <2>4, <5>1 DEF Snapshot
      <4>2. snapshots' = [d \in Checkpoints |-> IF d \in {c} THEN [snapshots[d] EXCEPT !.final = f]
                                                ELSE snapshots[d]]
        BY <1>0, <3>2 DEF TablesTyped
      <4>3. Record!Attach({c}, snapshots'[c].final)
        BY <2>1, <2>4, <3>4, <4>1, <4>2 DEF Record!Attach
      <4>4. {c} \in SUBSET Checkpoints /\ c \in {c} OBVIOUS
      <4> QED BY <4>3, <4>4 DEF Record!Next
    <3> QED BY <3>3, <3>4
  <2> QED BY <2>3, <2>4
<1>4. CASE GradeSnapshots(s)
  <2>1. s.op = "gradeSnapshots" BY <1>4 DEF GradeSnapshots
  <2>2. snapshots' = [c \in Checkpoints |-> IF snapshots[c] = None THEN None
                        ELSE [snapshots[c] EXCEPT !.final = Settled(snapshots[c].final, s)]]
    BY <1>4 DEF GradeSnapshots
  <2>3. PICK f : f = s.final OBVIOUS
  <2>4. CASE s.force
    <3>1. snapshots' = [c \in Checkpoints |-> IF snapshots[c] = None THEN None
                                              ELSE [snapshots[c] EXCEPT !.final = f]]
      BY <2>2, <2>3, <2>4 DEF Settled
    <3>2. f \in Corrections BY <2>1, <2>3, <2>4
    <3>3. Record!Correct(f) BY <3>1, <3>2 DEF Record!Correct
    <3> QED BY <3>2, <3>3 DEF Record!Next
  <2>5. CASE ~s.force
    <3>1. PICK graded \in SUBSET Checkpoints :
            graded = {c \in Checkpoints : snapshots[c] # None /\ snapshots[c].final = None}
      OBVIOUS
    <3>2. \A c \in Checkpoints : snapshots'[c] = IF c \in graded THEN [snapshots[c] EXCEPT !.final = f]
                                                 ELSE snapshots[c]
      <4> TAKE c \in Checkpoints
      <4>1. CASE snapshots[c] = None BY <2>2, <3>1, <4>1
      <4>2. CASE snapshots[c] # None /\ snapshots[c].final = None
        <5>1. Settled(snapshots[c].final, s) = f BY <2>3, <2>5, <4>2 DEF Settled, Coalesce
        <5> QED BY <2>2, <3>1, <4>2, <5>1
      <4>3. CASE snapshots[c] # None /\ snapshots[c].final # None
        <5>1. Settled(snapshots[c].final, s) = snapshots[c].final BY <2>5, <4>3 DEF Settled, Coalesce
        <5>2. [snapshots[c] EXCEPT !.final = snapshots[c].final] = snapshots[c]
          BY <1>0, <4>3 DEF Snapshot
        <5> QED BY <2>2, <3>1, <4>3, <5>1, <5>2
      <4> QED BY <4>1, <4>2, <4>3
    <3>3. snapshots' = [c \in Checkpoints |-> IF c \in graded THEN [snapshots[c] EXCEPT !.final = f]
                                              ELSE snapshots[c]]
      BY <2>2, <3>2
    <3>4. CASE graded = {}
      <4>1. snapshots' = snapshots BY <3>3, <3>4 DEF TablesTyped
      <4> QED BY <1>1, <4>1
    <3>5. CASE graded # {}
      <4>1. PICK c \in graded : TRUE BY <3>5
      <4>2. c \in Checkpoints /\ snapshots[c] # None BY <3>1, <4>1
      <4>3. snapshots'[c].final = f
        <5>1. snapshots'[c] = [snapshots[c] EXCEPT !.final = f] BY <3>2, <4>1, <4>2
        <5> QED BY <1>0, <4>2, <5>1 DEF Snapshot
      <4>4. Record!Attach(graded, snapshots'[c].final)
        BY <2>1, <2>5, <3>1, <3>3, <4>3 DEF Record!Attach
      <4> QED BY <4>1, <4>4 DEF Record!Next
    <3> QED BY <3>4, <3>5
  <2> QED BY <2>4, <2>5
<1>5. CASE ExcludeSnapshots(s)
  <2>1. s.op = "excludeSnapshots" BY <1>5 DEF ExcludeSnapshots
  <2>2. PICK gone \in SUBSET Checkpoints : gone = {c \in Checkpoints : Excludes(snapshots[c], s)}
    OBVIOUS
  <2>3. snapshots' = [c \in Checkpoints |-> IF c \in gone THEN [snapshots[c] EXCEPT !.excluded = TRUE]
                                            ELSE snapshots[c]]
    BY <1>5, <2>2 DEF ExcludeSnapshots
  <2>4. \A c \in gone : snapshots[c] # None BY <2>2 DEF Excludes
  <2>5. Record!Exclude(gone) BY <2>1, <2>3, <2>4 DEF Record!Exclude
  <2> QED BY <2>5 DEF Record!Next
<1>6. \/ UNCHANGED snapshots \/ InsertSnapshot(s) \/ GradeSnapshot(s)
      \/ GradeSnapshots(s) \/ ExcludeSnapshots(s)
  BY DEF Execute, ReplacePrediction, GradePredictions, ExcludePredictions, CountForm
<1> QED BY <1>1, <1>2, <1>3, <1>4, <1>5, <1>6

LEMMA RecordStep ==
  ASSUME TInv, HInv, TInv', HInv', [Next]_vars
  PROVE  [Record!Next]_(Record!vars)
<1>1. ASSUME UNCHANGED snapshots PROVE Record!Next BY <1>1 DEF Record!Next, Record!Order
<1>2. ASSUME NEW i \in Isolates, Going(i) PROVE Record!Next
  BY <1>1, <1>2, GoingFrame DEF tables
<1>3. CASE Tick \/ GoLive \/ Complete \/ CallOff \/ MakeUp \/ Restate \/ Evict BY <1>1, <1>3, Worlds DEF tables
<1>4. CASE UNCHANGED vars BY <1>1, <1>4 DEF vars
<1>5. ASSUME NEW i \in Isolates, job[i] # None, NEW chain \in job[i].chains,
             Run(i, chain) \/ RunFails(i, chain)
      PROVE  Record!Next
  <2>1. PICK j : j = job[i] OBVIOUS
  <2>2. j \in Job /\ HonestJob(j) BY <1>5, <2>1 DEF TInv, JobTyped, HInv, HonestJobs
  <2>3. chain \in Chain /\ HonestChain(chain) BY <1>5, <2>1, <2>2 DEF Job, HonestJob
  <2>4. Head(chain) = chain[1] /\ 1 \in DOMAIN chain /\ chain[1] \in Statement
        /\ HonestStatement(chain[1])
    BY <2>3, ChainParts, TailHonest
  <2>5. CASE UNCHANGED tables BY <1>1, <2>5 DEF tables
  <2>6. CASE Execute(chain[1])
    <3>1. TablesTyped BY DEF TInv, TypeOK, TablesTyped
    <3>2. chain[1].op = "gradeSnapshots" /\ chain[1].force => chain[1].final \in Corrections
      <4> SUFFICES ASSUME chain[1].op = "gradeSnapshots", chain[1].force
                   PROVE  chain[1].final \in Corrections
        OBVIOUS
      <4>1. j.kind = "desk" BY <1>5, <2>1, <2>2, <2>4 DEF HonestJob, Unforced
      <4>2. Ordered(i, chain[1].final) BY <1>5, <2>1, <4>1 DEF Ordered
      <4> QED BY <4>2, CorrectionsAre
    <3>3. ~(chain[1].op = "gradeSnapshots" /\ chain[1].force) => Corrections' = Corrections
      BY <1>5, CorrectionsKept
    <3>4. PICK s : s = chain[1] OBVIOUS
    <3> QED BY <2>4, <2>6, <3>1, <3>2, <3>3, <3>4, StatementKeeps
  <2>7. UNCHANGED tables \/ Execute(chain[1]) BY <1>5, <2>4 DEF Run, RunFails
  <2> QED BY <2>5, <2>6, <2>7
<1> QED BY <1>2, <1>3, <1>4, <1>5, Steps

LEMMA RecordInit == Init => Record!Init
<1> SUFFICES ASSUME Init PROVE Record!Init OBVIOUS
<1>1. snapshots = [c \in Checkpoints |-> None] BY DEF Init
<1>2. Corrections = {} BY DEF Init, Corrections
<1> QED BY <1>1, <1>2 DEF Record!Init

\* The ledger implements the append-only record: forecasts stay, finals are appended, they
\* change only by a correction of the desk, and exclusions are for good.
THEOREM RecordKept == Spec => KeepsRecord
<1>1. TInv /\ HInv /\ (TInv /\ HInv)' /\ [Next]_vars => [Record!Next]_(Record!vars)
  BY RecordStep
<1> QED BY <1>1, RecordInit, HonestInvariant, PTL DEF Spec, KeepsRecord, Record!Spec
-----------------------------------------------------------------------------
(* A job that reports its writes good has its checkpoints in the table *)

\* A checkpoint a job wrote is in the table, or the chain that brings it there still runs.
Underway(table, row, c, chains) ==
  table[c] # None \/ PersistCheckpoint(row, c) \in chains
Due(j) ==
  /\ j.kind \in {"harvest", "collect"} /\ j.phase = "writing" /\ j.ok = TRUE
  /\ j.kind = "harvest" \/ Over(j.slate)
GInv ==
  \A i \in Isolates : job[i] # None /\ Due(job[i]) =>
    \A c \in job[i].wrote : Underway(snapshots, job[i].row, c, job[i].chains)

\* A snapshot stays.
LEMMA SnapshotsStay ==
  ASSUME TablesTyped, NEW s \in Statement, Execute(s), NEW c \in Checkpoints, snapshots[c] # None
  PROVE  snapshots'[c] # None
<1>1. snapshots[c] \in Snapshot /\ None \notin Snapshot
  BY NullIsNoRecord DEF TablesTyped, NullIsNoRecord
<1>2. ASSUME NEW f \in Finals, snapshots'[c] = [snapshots[c] EXCEPT !.final = f]
      PROVE  snapshots'[c] # None
  <2>1. snapshots'[c] \in Snapshot BY <1>1, <1>2 DEF Snapshot
  <2> QED BY <1>1, <2>1
<1>3. \A old, new \in Finals : Coalesce(old, new) \in Finals BY DEF Coalesce
<1>4. CASE UNCHANGED snapshots BY <1>4
<1>5. CASE InsertSnapshot(s)
  <2>1. s.cp \in Checkpoints BY <1>5 DEF InsertSnapshot, Statement, OfGame, OfForm
  <2> QED BY <1>5, <2>1 DEF InsertSnapshot, Inserted, TablesTyped
<1>6. CASE GradeSnapshot(s)
  <2>1. s.op = "grade" BY <1>6 DEF GradeSnapshot
  <2>2. s.cp \in Checkpoints /\ s.final \in Finals BY <2>1 DEF Statement, OfGame, OfForm
  <2>3. CASE c # s.cp BY <1>6, <2>2, <2>3 DEF GradeSnapshot, TablesTyped
  <2>4. CASE c = s.cp
    <3>1. PICK f : f = Coalesce(snapshots[c].final, s.final) OBVIOUS
    <3>2. snapshots'[c] = [snapshots[c] EXCEPT !.final = f]
      BY <1>6, <2>2, <2>4, <3>1 DEF GradeSnapshot, TablesTyped
    <3>3. f \in Finals BY <1>1, <1>3, <2>2, <3>1 DEF Snapshot
    <3> QED BY <1>2, <3>2, <3>3
  <2> QED BY <2>3, <2>4
<1>7. CASE GradeSnapshots(s)
  <2>1. s.op = "gradeSnapshots" BY <1>7 DEF GradeSnapshots
  <2>2. s.final \in Finals BY <2>1 DEF Statement, OfGame, OfForm
  <2>3. PICK f : f = Settled(snapshots[c].final, s) OBVIOUS
  <2>4. snapshots'[c] = [snapshots[c] EXCEPT !.final = f] BY <1>7, <2>3 DEF GradeSnapshots
  <2>5. f \in Finals BY <1>1, <1>3, <2>2, <2>3 DEF Settled, Snapshot
  <2> QED BY <1>2, <2>4, <2>5
<1>8. CASE ExcludeSnapshots(s)
  <2>1. snapshots'[c] = IF Excludes(snapshots[c], s) THEN [snapshots[c] EXCEPT !.excluded = TRUE]
                        ELSE snapshots[c]
    BY <1>8 DEF ExcludeSnapshots
  <2>2. [snapshots[c] EXCEPT !.excluded = TRUE] \in Snapshot BY <1>1 DEF Snapshot
  <2> QED BY <1>1, <2>1, <2>2
<1>9. \/ UNCHANGED snapshots \/ InsertSnapshot(s) \/ GradeSnapshot(s)
      \/ GradeSnapshots(s) \/ ExcludeSnapshots(s)
  BY DEF Execute, ReplacePrediction, GradePredictions, ExcludePredictions, CountForm
<1> QED BY <1>4, <1>5, <1>6, <1>7, <1>8, <1>9

LEMMA InsertArrives ==
  ASSUME TablesTyped, NEW s \in Statement, Execute(s), s.op = "insert", NEW c \in Checkpoints,
         s.cp = c
  PROVE  snapshots'[c] # None
<1>1. InsertSnapshot(s)
  BY DEF Execute, ReplacePrediction, GradeSnapshot, GradeSnapshots, GradePredictions,
         ExcludeSnapshots, ExcludePredictions, CountForm
<1>2. CASE snapshots[c] # None BY <1>1, <1>2 DEF InsertSnapshot, Inserted
<1>3. CASE snapshots[c] = None
  <2>1. snapshots'[c] = [forecast |-> s.frozen.forecast, at |-> s.frozen.at, final |-> s.final,
                         excluded |-> FALSE]
    BY <1>1, <1>3 DEF InsertSnapshot, Inserted, TablesTyped
  <2>2. s.frozen \in Frozen /\ s.final \in Finals BY DEF Statement, OfGame, OfForm
  <2>3. snapshots'[c] \in Snapshot BY <2>1, <2>2 DEF Frozen, Snapshot
  <2> QED BY <2>3, NullIsNoRecord DEF NullIsNoRecord
<1> QED BY <1>2, <1>3

\* What the chain of a checkpoint starts with.
LEMMA PersistStarts ==
  ASSUME NEW row, NEW c
  PROVE  PersistCheckpoint(row, c)[1] = Insert(row, c, "reported")
BY DEF PersistCheckpoint

\* What a statement leaves of the way a checkpoint takes to the table.
LEMMA RunBrings ==
  ASSUME TInv, NEW i \in Isolates, job[i] # None, NEW chain \in job[i].chains,
         Run(i, chain) \/ RunFails(i, chain), job'[i].ok = TRUE,
         NEW c \in Checkpoints, Underway(snapshots, job[i].row, c, job[i].chains)
  PROVE  Underway(snapshots', job[i].row, c, job'[i].chains)
<1>1. PICK j : j = job[i] OBVIOUS
<1>2. PICK row : row = job[i].row OBVIOUS
<1>3. j \in Job BY <1>1 DEF TInv, JobTyped
<1>4. chain \in Chain /\ chain \in j.chains BY <1>1, <1>3 DEF Job
<1>5. PICK s : s = chain[1] OBVIOUS
<1>6. Head(chain) = s /\ s \in Statement BY <1>4, <1>5, ChainParts
<1>7. TablesTyped BY DEF TInv, TypeOK, TablesTyped
<1>8. PICK rest, ok :
        /\ job'[i] = With(j, Awaiting(j.chains, chain, rest), ok)
        /\ \/ Run(i, chain) /\ rest = Rest(chain) /\ ok = job[i].ok
           \/ RunFails(i, chain) /\ rest = RestAfterFailure(chain) /\ ok = Unharmed(i, chain)
  <2>1. ASSUME NEW rest, NEW ok, RunGoes(i, chain, rest, ok)
        PROVE  job'[i] = With(j, Awaiting(j.chains, chain, rest), ok)
    <3>1. PICK w : w = With(j, Awaiting(j.chains, chain, rest), ok) OBVIOUS
    <3>2. job' = [job EXCEPT ![i] = w] BY <1>1, <2>1, <3>1 DEF RunGoes
    <3> QED BY <3>1, <3>2, Others
  <2>2. CASE Run(i, chain)
    <3>1. PICK rest : rest = Rest(chain) OBVIOUS
    <3>2. PICK ok : ok = job[i].ok OBVIOUS
    <3>3. RunGoes(i, chain, rest, ok) BY <2>2, <3>1, <3>2, RunMoves
    <3> QED BY <2>1, <2>2, <3>1, <3>2, <3>3
  <2>3. CASE RunFails(i, chain)
    <3>1. PICK rest : rest = RestAfterFailure(chain) OBVIOUS
    <3>2. PICK ok : ok = Unharmed(i, chain) OBVIOUS
    <3>3. RunGoes(i, chain, rest, ok) BY <2>3, <3>1, <3>2, RunMoves
    <3> QED BY <2>1, <2>3, <3>1, <3>2, <3>3
  <2> QED BY <2>2, <2>3
<1>9. job'[i].chains = Awaiting(j.chains, chain, rest) /\ ok = TRUE BY <1>8 DEF With
<1>10. s.fails = "reported" => Run(i, chain) BY <1>6, <1>8, <1>9 DEF Unharmed
<1>11. CASE snapshots[c] # None
  <2>1. UNCHANGED tables \/ Execute(s) BY <1>6 DEF Run, RunFails
  <2>2. CASE UNCHANGED tables BY <1>11, <2>2 DEF Underway, tables
  <2> QED BY <1>6, <1>7, <1>11, <2>1, <2>2, SnapshotsStay DEF Underway
<1>12. CASE PersistCheckpoint(row, c) \in j.chains /\ PersistCheckpoint(row, c) # chain
  BY <1>2, <1>9, <1>12 DEF Underway, Awaiting
<1>13. CASE PersistCheckpoint(row, c) = chain
  <2>1. s = Insert(row, c, "reported") BY <1>5, <1>13, PersistStarts
  <2>2. s.op = "insert" /\ s.cp = c /\ s.fails = "reported" BY <2>1 DEF Insert
  <2>3. Execute(s) BY <1>6, <1>10, <2>2 DEF Run
  <2> QED BY <1>6, <1>7, <2>2, <2>3, InsertArrives DEF Underway
<1> QED BY <1>1, <1>2, <1>11, <1>12, <1>13 DEF Underway

\* Who begins to grade a row has a chain for every checkpoint of it.
LEMMA GoingGrades ==
  ASSUME TInv, NEW i \in Isolates, Going(i), job'[i] # None, Due(job'[i])
  PROVE  \A c \in job'[i].wrote : PersistCheckpoint(job'[i].row, c) \in job'[i].chains
<1>1. PICK j : j = job[i] OBVIOUS
<1>2. PICK w : w = job'[i] OBVIOUS
<1>3. w # None /\ Due(w) BY <1>2
<1>4. ASSUME NEW row, NEW wrote, NEW chains, j # None, Writes(i, row, wrote, chains)
      PROVE  w.kind = j.kind /\ w.slate = j.slate /\ w.row = row /\ w.wrote = wrote /\ w.chains = chains
  <2> DEFINE v == [kind |-> j.kind, phase |-> "writing", slate |-> j.slate,
                   row |-> row, wrote |-> wrote, chains |-> chains, ok |-> j.ok]
  <2>1. job' = [job EXCEPT ![i] = v] BY <1>1, <1>4, WritesMoves
  <2>2. v.kind = j.kind /\ v.slate = j.slate /\ v.row = row /\ v.wrote = wrote /\ v.chains = chains
    OBVIOUS
  <2> HIDE DEF v
  <2> QED BY <1>2, <2>1, <2>2, Others
<1>5. ASSUME NEW phase, NEW chains, j # None, Await(i, phase, chains)
      PROVE  w.phase = phase
  <2> DEFINE v == [kind |-> j.kind, phase |-> phase, slate |-> j.slate, row |-> j.row,
                   wrote |-> j.wrote, chains |-> chains, ok |-> j.ok]
  <2>1. job' = [job EXCEPT ![i] = v] BY <1>1, <1>5, AwaitMoves
  <2>2. v.phase = phase OBVIOUS
  <2> HIDE DEF v
  <2> QED BY <1>2, <2>1, <2>2, Others
<1>6. ASSUME NEW kind, NEW phase, NEW slate, NEW row, NEW chains, Begin(i, kind, phase, slate, row, chains)
      PROVE  w.kind = kind /\ w.phase = phase
  <2>1. PICK v : v = New(kind, phase, slate, row, chains) OBVIOUS
  <2>2. job' = [job EXCEPT ![i] = v] /\ v.kind = kind /\ v.phase = phase
    BY <1>6, <2>1 DEF Begin, New
  <2> QED BY <1>2, <2>2, Others
<1>7. job' # [job EXCEPT ![i] = None] BY <1>2, <1>3, Others
<1>8. \A row : \A c \in Filled(row) : PersistCheckpoint(row, c) \in PersistRow(row)
  BY DEF PersistRow
<1>9. CASE Collect(i)
  <2>1. CASE FreezeFirst(i)
    <3>1. j # None /\ j.kind = "collect" /\ j.slate.status = "scheduled"
      BY <1>1, <2>1 DEF FreezeFirst, In
    <3>2. PICK row : row = FreezeNew(job[i].slate.forecast) OBVIOUS
    <3>3. Writes(i, row, Filled(row),
                 {<<Replace(row, "ignored"), Insert(row, "FIRST_AVAILABLE", "ignored"),
                    Insert(row, ClassifyCheckpoint, "ignored")>>})
      BY <2>1, <3>2 DEF FreezeFirst
    <3>4. w.kind = "collect" /\ w.slate.status = "scheduled" BY <1>4, <3>1, <3>3
    <3> QED BY <1>3, <3>4 DEF Due, Over
  <2>2. CASE FreezeAgain(i)
    <3>1. j # None /\ j.kind = "collect" /\ j.slate.status = "scheduled"
      BY <1>1, <2>2 DEF FreezeAgain, In
    <3>2. \E row, wrote, chains : Writes(i, row, wrote, chains) BY <2>2 DEF FreezeAgain
    <3>3. w.kind = "collect" /\ w.slate.status = "scheduled" BY <1>4, <3>1, <3>2
    <3> QED BY <1>3, <3>3 DEF Due, Over
  <2>3. CASE FreezeFinal(i)
    <3>1. j # None BY <1>1, <2>3 DEF FreezeFinal, In
    <3>2. PICK row : row = ApplyFinal(Load(i), job[i].slate) OBVIOUS
    <3>3. Writes(i, row, Filled(row), PersistRow(row)) BY <2>3, <3>2 DEF FreezeFinal
    <3>4. w.row = row /\ w.wrote = Filled(row) /\ w.chains = PersistRow(row) BY <1>4, <3>1, <3>3
    <3> QED BY <1>2, <1>8, <3>4
  <2>4. CASE FreezeNothing(i) BY <1>7, <2>4 DEF FreezeNothing
  <2>5. CASE FinishCollect(i) BY <1>7, <2>5 DEF FinishCollect, Save
  <2> QED BY <1>9, <2>1, <2>2, <2>3, <2>4, <2>5 DEF Collect
<1>10. CASE Harvest(i)
  <2>1. CASE HarvestRow(i)
    <3>1. j # None BY <1>1, <2>1 DEF HarvestRow, In
    <3>2. PICK old : old = job[i].row OBVIOUS
    <3>3. PICK slate : slate = feed OBVIOUS
    <3>4. PICK row : row = IF Ungraded(old) THEN ApplyFinal(old, slate) ELSE old OBVIOUS
    <3>5. PICK wrote : wrote = IF Ungraded(old) THEN Filled(row) ELSE {} OBVIOUS
    <3>6. PICK chains :
            chains = IF ~Ungraded(old) THEN {}
                     ELSE PersistRow(row) \union
                          (IF row.final = None THEN {}
                           ELSE {GradeSnapshotsForGame(row.final, FALSE, "reported"),
                                 ApplyFinalToForm("reported")})
      OBVIOUS
    <3>7. Grades(i, slate, row, wrote, chains)
      BY <2>1, <3>2, <3>3, <3>4, <3>5, <3>6 DEF HarvestRow, Grades
    <3> DEFINE v == [kind |-> j.kind, phase |-> "writing", slate |-> slate, row |-> row,
                     wrote |-> wrote, chains |-> chains, ok |-> j.ok]
    <3>8. job' = [job EXCEPT ![i] = v] BY <1>1, <3>1, <3>7, RowMoves
    <3>9. v.row = row /\ v.wrote = wrote /\ v.chains = chains OBVIOUS
    <3> HIDE DEF v
    <3>10. w = v BY <1>2, <3>8, Others
    <3>11. \A c \in wrote : PersistCheckpoint(row, c) \in chains BY <1>8, <3>5, <3>6
    <3> QED BY <1>2, <3>9, <3>10, <3>11
  <2>2. CASE GradePopulation(i)
    <3>1. j # None BY <1>1, <2>2 DEF GradePopulation, In
    <3>2. \E chains : Await(i, "grading", chains) BY <2>2 DEF GradePopulation
    <3> QED BY <1>3, <1>5, <3>1, <3>2 DEF Due
  <2>3. CASE ApplyScoreboardForm(i)
    <3>1. j # None BY <1>1, <2>3 DEF ApplyScoreboardForm, In
    <3>2. \E chains : Await(i, "form", chains) BY <2>3 DEF ApplyScoreboardForm
    <3> QED BY <1>3, <1>5, <3>1, <3>2 DEF Due
  <2>4. CASE FinishHarvest(i) BY <1>7, <2>4 DEF FinishHarvest, Save
  <2> QED BY <1>10, <2>1, <2>2, <2>3, <2>4 DEF Harvest
<1>11. CASE JobStep(i)
  <2>1. ASSUME NEW kind, NEW phase, kind \notin {"harvest", "collect"} \/ phase # "writing",
               \E slate, row, chains : Begin(i, kind, phase, slate, row, chains)
        PROVE  FALSE
    <3>1. w.kind = kind /\ w.phase = phase BY <1>6, <2>1
    <3> QED BY <1>3, <2>1, <3>1 DEF Due
  <2>2. CASE BuildSlate(i)
    <3>1. \E slate, row, chains : Begin(i, "collect", "built", slate, row, chains)
      BY <2>2 DEF BuildSlate
    <3> QED BY <2>1, <3>1
  <2>3. CASE StartHarvest(i)
    <3>1. \E slate, row, chains : Begin(i, "harvest", "loaded", slate, row, chains)
      BY <2>3 DEF StartHarvest
    <3> QED BY <2>1, <3>1
  <2>4. CASE StartSettle(i)
    <3>1. \E slate, row, chains : Begin(i, "settle", "writing", slate, row, chains)
      BY <2>4 DEF StartSettle
    <3> QED BY <2>1, <3>1
  <2>5. CASE DeskGrades(i) \/ DeskExcludes(i)
    <3>1. \E slate, row, chains : Begin(i, "desk", "desk", slate, row, chains)
      BY <2>5 DEF DeskGrades, DeskExcludes
    <3> QED BY <2>1, <3>1
  <2>6. CASE FetchFails(i)
    <3>1. j # None BY <1>1, <2>6 DEF FetchFails, In
    <3>2. j \in Job BY <1>1, <3>1 DEF TInv, JobTyped
    <3>3. PICK v : v = [j EXCEPT !.phase = "form"] OBVIOUS
    <3>4. v.phase = "form" BY <3>2, <3>3 DEF Job
    <3>5. job' = [job EXCEPT ![i] = v] BY <1>1, <2>6, <3>3 DEF FetchFails, TInv
    <3>6. w.phase = "form" BY <1>2, <3>4, <3>5, Others
    <3> QED BY <1>3, <3>6 DEF Due
  <2>7. CASE Finish(i) \/ Die(i) BY <1>7, <2>7 DEF Finish, Die
  <2> QED BY <1>11, <2>2, <2>3, <2>4, <2>5, <2>6, <2>7 DEF JobStep
<1> QED BY <1>9, <1>10, <1>11 DEF Going

LEMMA GradingStep == TInv /\ HInv /\ GInv /\ [Next]_vars => GInv'
<1> SUFFICES ASSUME TInv, HInv, GInv, [Next]_vars PROVE GInv' OBVIOUS
<1>1. ASSUME NEW i \in Isolates, Going(i) PROVE GInv'
  <2>1. snapshots' = snapshots BY <1>1, GoingFrame DEF tables
  <2>2. \A k \in Isolates \ {i} : job'[k] = job[k] BY <1>1, GoingTokens
  <2>3. \A k \in Isolates \ {i} : job'[k] # None /\ Due(job'[k]) =>
          \A c \in job'[k].wrote : Underway(snapshots', job'[k].row, c, job'[k].chains)
    BY <2>1, <2>2 DEF GInv
  <2>4. job'[i] # None /\ Due(job'[i]) =>
          \A c \in job'[i].wrote : Underway(snapshots', job'[i].row, c, job'[i].chains)
    BY <1>1, GoingGrades DEF Underway
  <2> QED BY <2>3, <2>4 DEF GInv, Due, Over, Underway, PersistCheckpoint
<1>2. CASE UNCHANGED <<snapshots, job>>
  BY <1>2 DEF GInv, Due, Over, Underway
<1>3. CASE Tick \/ GoLive \/ Complete \/ CallOff \/ MakeUp \/ Restate \/ Evict
  BY <1>2, <1>3, Worlds DEF tables
<1>4. CASE UNCHANGED vars BY <1>2, <1>4 DEF vars
<1>5. ASSUME NEW i \in Isolates, job[i] # None, NEW chain \in job[i].chains,
             Run(i, chain) \/ RunFails(i, chain)
      PROVE  GInv'
  <2>1. \A k \in Isolates \ {i} : job'[k] = job[k] BY <1>5, RunTyped
  <2>2. PICK j : j = job[i] OBVIOUS
  <2>3. j \in Job BY <1>5, <2>2 DEF TInv, JobTyped
  <2>4. PICK chains, ok : job'[i] = With(j, chains, ok) BY <1>5, <2>2, RunTyped
  <2>5. /\ job'[i].kind = j.kind /\ job'[i].phase = j.phase /\ job'[i].slate = j.slate
        /\ job'[i].row = j.row /\ job'[i].wrote = j.wrote
    BY <2>4 DEF With
  <2>6. ASSUME job'[i].ok = TRUE PROVE j.ok = TRUE
    <3>1. PICK rest, ok2 : /\ RunGoes(i, chain, rest, ok2)
                           /\ ok2 = job[i].ok \/ ok2 = Unharmed(i, chain)
      BY <1>5, RunMoves
    <3>2. PICK w : w = With(j, Awaiting(j.chains, chain, rest), ok2) OBVIOUS
    <3>3. job' = [job EXCEPT ![i] = w] BY <2>2, <3>1, <3>2 DEF RunGoes
    <3>4. job'[i] = w BY <3>3, Others
    <3>5. ok2 = TRUE BY <2>6, <3>2, <3>4 DEF With
    <3> QED BY <2>2, <2>3, <3>1, <3>5 DEF Unharmed, Job
  <2>7. job'[i] # None /\ Due(job'[i]) =>
          \A c \in job'[i].wrote : Underway(snapshots', job'[i].row, c, job'[i].chains)
    <3> SUFFICES ASSUME Due(job'[i]), NEW c \in job'[i].wrote
                 PROVE  Underway(snapshots', job'[i].row, c, job'[i].chains)
      OBVIOUS
    <3>1. job'[i].ok = TRUE BY DEF Due
    <3>2. Due(j) BY <2>5, <2>6, <3>1 DEF Due
    <3>3. c \in Checkpoints /\ c \in j.wrote BY <2>3, <2>5 DEF Job
    <3>4. Underway(snapshots, job[i].row, c, job[i].chains) BY <1>5, <2>2, <3>2, <3>3 DEF GInv
    <3>5. Underway(snapshots', job[i].row, c, job'[i].chains) BY <1>5, <3>1, <3>3, <3>4, RunBrings
    <3> QED BY <2>2, <2>5, <3>5
  <2>8. ASSUME NEW k \in Isolates \ {i}, job'[k] # None, Due(job'[k]), NEW c \in job'[k].wrote
        PROVE  Underway(snapshots', job'[k].row, c, job'[k].chains)
    <3>1. job'[k] = job[k] BY <2>1
    <3>2. PICK w : w = job[k] OBVIOUS
    <3>3. Underway(snapshots, w.row, c, w.chains) BY <2>8, <3>1, <3>2 DEF GInv
    <3>4. w \in Job BY <2>8, <3>1, <3>2 DEF TInv, JobTyped
    <3>5. c \in Checkpoints BY <2>8, <3>1, <3>2, <3>4 DEF Job
    <3>6. snapshots[c] # None => snapshots'[c] # None
      <4>1. chain \in Chain BY <1>5, <2>2, <2>3 DEF Job
      <4>2. PICK s : s = Head(chain) OBVIOUS
      <4>3. s \in Statement BY <4>1, <4>2, ChainParts
      <4>4. UNCHANGED tables \/ Execute(s) BY <1>5, <4>2 DEF Run, RunFails
      <4>5. CASE UNCHANGED tables BY <4>5 DEF tables
      <4>6. TablesTyped BY DEF TInv, TypeOK, TablesTyped
      <4> QED BY <3>5, <4>3, <4>4, <4>5, <4>6, SnapshotsStay
    <3>7. Underway(snapshots', w.row, c, w.chains) BY <3>3, <3>6 DEF Underway
    <3> QED BY <3>1, <3>2, <3>7
  <2> QED BY <2>7, <2>8 DEF GInv, Due, Over, Underway, PersistCheckpoint
<1> QED BY <1>1, <1>3, <1>4, <1>5, Steps

LEMMA GradingDone == TInv /\ GInv => GradingOkDurable
<1> SUFFICES ASSUME TInv, GInv, NEW i \in Isolates, In(i, {"harvest", "collect"}, "writing"),
                    job[i].ok, job[i].kind = "harvest" \/ Over(job[i].slate),
                    NEW c \in job[i].wrote
             PROVE  snapshots[c] # None
  BY DEF GradingOkDurable
<1>1. PICK j : j = job[i] OBVIOUS
<1>2. j # None /\ j \in Job /\ j.chains = {} BY <1>1 DEF In, TInv, JobTyped
<1>3. j.ok = TRUE BY <1>1, <1>2 DEF Job
<1>4. Due(j) BY <1>1, <1>3 DEF In, Due
<1>5. Underway(snapshots, j.row, c, j.chains) BY <1>1, <1>2, <1>4 DEF GInv
<1> QED BY <1>1, <1>2, <1>5 DEF Underway

LEMMA GradingInit == Init => GInv
BY DEF Init, GInv

\* A harvest, or a collection that meets the end of the game, calls its writes good only if
\* every checkpoint it wrote is in the table, whatever other jobs do meanwhile.
THEOREM GradingDurable == Spec => []GradingOkDurable
<1>1. TInv /\ HInv /\ GInv /\ [Next]_vars => GInv' BY GradingStep
<1> QED BY <1>1, GradingInit, GradingDone, HonestInvariant, PTL DEF Spec
=============================================================================
