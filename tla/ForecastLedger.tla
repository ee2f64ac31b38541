---------------------------- MODULE ForecastLedger ----------------------------
(***************************************************************************)
(* The forecast ledger of one game (functions/lib/projLedger.js and        *)
(* functions/lib/store.js): collections freeze forecasts before kickoff,   *)
(* harvests attach the final, settlement and the operator's desk grade,    *)
(* correct and exclude.  The jobs keep a working ledger in the memory of   *)
(* their isolate and in the edge cache, and write three tables of D1:      *)
(* prediction_snapshots, predictions and team_form.  Every D1 statement is *)
(* an atomic step of its own; the statements of one job run concurrently,  *)
(* in chains, and any of them may fail or go unanswered.                   *)
(***************************************************************************)
EXTENDS Naturals, Sequences, FiniteSets

CONSTANTS Isolates,     \* Worker isolates, each with its module memory
          Forecasts,    \* what the models may project for the game
          Scores,       \* final scores the game may be given
          None,         \* NULL, no job, a ledger without the game
          Cold,         \* no ledger cached
          Opening,      \* the time of the first collection
          Recurring,    \* kinds of jobs that are started for ever, without a bound
          MaxJobs, MaxFaults   \* bounds on jobs, and on faults of every kind

ASSUME LedgerAssumption ==
  /\ None # Cold /\ None \notin Forecasts \union Scores
  /\ Opening \in {1, 2} /\ Recurring \subseteq {"settle"}
  /\ MaxJobs \in Nat /\ MaxFaults \in Nat

VARIABLES now,         \* 1 early, 2 within 45 minutes of kickoff, 3 after kickoff
          feed,        \* the scoreboard: [status, score]
          memory,      \* the ledger in an isolate's memory: Cold, None (without the game) or a row
          edge,        \* the ledger in the Cache API
          harvested,   \* the cached harvest report
          job,         \* the job an isolate runs
          jobs,        \* jobs started so far
          faults,      \* faults so far
          snapshots,   \* prediction_snapshots, by checkpoint
          prediction,  \* the game's row of predictions
          form         \* team_form_games and team_form: [marked, home, away]

tables == <<snapshots, prediction, form>>
caches == <<memory, edge, harvested>>
world == <<now, feed, faults>>
vars == <<now, feed, memory, edge, harvested, job, jobs, faults, snapshots, prediction, form>>
-----------------------------------------------------------------------------
(* Rows *)

Kickoff == 3
Checkpoints == {"FIRST_AVAILABLE", "EARLY", "CLOSE"}
CheckpointRank == [c \in Checkpoints |->
                     CASE c = "FIRST_AVAILABLE" -> 0 [] c = "EARLY" -> 1 [] c = "CLOSE" -> 5]
ClassifyCheckpoint == IF now >= 2 THEN "CLOSE" ELSE "EARLY"

Frozen == [forecast : Forecasts, at : 1..Kickoff]
Finals == Scores \union {None}
\* A row of the working ledger: what each checkpoint froze, the canonical forecast, the final,
\* and the checkpoints marked as called off; the others stay OPEN, as they were frozen.
Row == [cps : [Checkpoints -> Frozen \union {None}], forecast : Forecasts, final : Finals,
        off : SUBSET Checkpoints]
Snapshot == [forecast : Forecasts, at : 1..Kickoff, final : Finals, excluded : BOOLEAN]
ASSUME NullIsNoRecord == None \notin Frozen \union Snapshot

HasRow(ledger) == ledger \notin {Cold, None}
Filled(row) == {c \in Checkpoints : row.cps[c] # None}
Coalesce(a, b) == IF a # None THEN a ELSE b

\* The checkpoint of highest rank is the canonical one.
PickCanonical(cps) ==
  CHOOSE c \in Checkpoints :
    /\ cps[c] # None
    /\ \A d \in Checkpoints : cps[d] # None => CheckpointRank[d] <= CheckpointRank[c]

\* Mutant: the row keeps no canonical forecast.
FreezeNewUnnamed(forecast) ==
  [cps |-> [c \in Checkpoints |-> IF c \in {"FIRST_AVAILABLE", ClassifyCheckpoint}
                                  THEN [forecast |-> forecast, at |-> now] ELSE None],
   forecast |-> None, final |-> None, off |-> {}]
FreezeNew(forecast) ==
  [cps |-> [c \in Checkpoints |-> IF c \in {"FIRST_AVAILABLE", ClassifyCheckpoint}
                                  THEN [forecast |-> forecast, at |-> now] ELSE None],
   forecast |-> forecast, final |-> None, off |-> {}]

\* A later sighting fills the current checkpoint if it is still empty.
Refreeze(row, forecast) ==
  LET cps == IF row.cps[ClassifyCheckpoint] # None THEN row.cps
             ELSE [row.cps EXCEPT ![ClassifyCheckpoint] = [forecast |-> forecast, at |-> now]]
  IN [row EXCEPT !.cps = cps, !.forecast = cps[PickCanonical(cps)].forecast]

\* The completed flag of a slate: a game that was called off is over, too, with a score.
Over(slate) == slate.status \in {"completed", "postponed"}

\* Mutant: the flag is all that is looked at.
ApplyFinalFlag(row, slate) ==
  IF Over(slate) THEN [row EXCEPT !.final = slate.score] ELSE row
\* A game that was called off gives its row no final, only its status.
ApplyFinal(row, slate) ==
  CASE slate.status = "completed" -> [row EXCEPT !.final = slate.score]
    [] slate.status = "postponed" -> [row EXCEPT !.off = Filled(row)]
    [] OTHER -> row
-----------------------------------------------------------------------------
(* Statements, and the chains of them a job awaits *)

\* What the failure of a statement does: "ignored", the chain goes on and the job does
\* not know; "dropped", the chain stops; "reported", it stops and the job reports failure.
Replace(row, fails) ==
  [op |-> "replace", forecast |-> row.forecast, final |-> row.final, fails |-> fails]
\* Mutant: a snapshot is stamped when it is written.
InsertStamped(row, c, fails) ==
  [op |-> "insert", cp |-> c, frozen |-> [row.cps[c] EXCEPT !.at = now], final |-> row.final,
   fails |-> fails]
Insert(row, c, fails) ==
  [op |-> "insert", cp |-> c, frozen |-> row.cps[c], final |-> row.final, fails |-> fails]
Grade(row, c, fails) == [op |-> "grade", cp |-> c, final |-> row.final, fails |-> fails]
OnGame(op, final, force, fails) == [op |-> op, final |-> final, force |-> force, fails |-> fails]
OnForm(op, fails) == [op |-> op, fails |-> fails]

\* A checkpoint that is OPEN is not graded, even if its row has a final by now.
PersistCheckpoint(row, c) ==
  IF c \in row.off THEN <<Insert(row, c, "reported"), Grade(row, c, "reported")>>
  ELSE <<Insert(row, c, "reported")>>
\* Mutant: of the checkpoints only the canonical one is written.
PersistRowCanonical(row) ==
  {<<Replace(row, "reported")>>, PersistCheckpoint(row, PickCanonical(row.cps))}
PersistRow(row) ==
  {<<Replace(row, "reported")>>} \union {PersistCheckpoint(row, c) : c \in Filled(row)}
GradeSnapshotsForGame(final, force, fails) ==
  <<OnGame("gradeSnapshots", final, force, fails), OnGame("gradePredictions", final, force, fails)>>
ExcludeSnapshotsForGame(force) ==
  <<OnGame("excludeSnapshots", None, force, "reported"),
    OnGame("excludePredictions", None, force, "reported")>>
ApplyFinalToForm(fails) ==
  <<OnForm("mark", fails), OnForm("home", "ignored"), OnForm("away", "ignored")>>
-----------------------------------------------------------------------------
(* What a statement does to the tables *)

ReplacePrediction(s) ==
  /\ s.op = "replace"
  /\ prediction' = [forecast |-> s.forecast, final |-> s.final, excluded |-> FALSE]
  /\ UNCHANGED <<snapshots, form>>

\* Mutant: INSERT OR REPLACE.
InsertedOver(s) ==
  [snapshots EXCEPT ![s.cp] = [forecast |-> s.frozen.forecast, at |-> s.frozen.at,
                               final |-> s.final, excluded |-> FALSE]]
Inserted(s) ==
  IF snapshots[s.cp] # None THEN snapshots
  ELSE [snapshots EXCEPT ![s.cp] = [forecast |-> s.frozen.forecast, at |-> s.frozen.at,
                                    final |-> s.final, excluded |-> FALSE]]
\* An insert that meets another forecast succeeds like one that meets its own: the conflict
\* is only reported of a row without a status, and every row has one.
InsertSnapshot(s) ==
  /\ s.op = "insert" /\ snapshots' = Inserted(s)
  /\ UNCHANGED <<prediction, form>>

GradeSnapshot(s) ==
  /\ s.op = "grade"
  /\ snapshots' = IF snapshots[s.cp] = None THEN snapshots
                  ELSE [snapshots EXCEPT ![s.cp].final = Coalesce(@, s.final)]
  /\ UNCHANGED <<prediction, form>>

Settled(old, s) == IF s.force THEN s.final ELSE Coalesce(old, s.final)
GradeSnapshots(s) ==
  /\ s.op = "gradeSnapshots"
  /\ snapshots' = [c \in Checkpoints |-> IF snapshots[c] = None THEN None
                                         ELSE [snapshots[c] EXCEPT !.final = Settled(@, s)]]
  /\ UNCHANGED <<prediction, form>>
GradePredictions(s) ==
  /\ s.op = "gradePredictions"
  /\ prediction' = IF prediction = None THEN None ELSE [prediction EXCEPT !.final = Settled(@, s)]
  /\ UNCHANGED <<snapshots, form>>

Excludes(row, s) == row # None /\ (s.force \/ row.final = None)
ExcludeSnapshots(s) ==
  /\ s.op = "excludeSnapshots"
  /\ snapshots' = [c \in Checkpoints |-> IF Excludes(snapshots[c], s)
                                         THEN [snapshots[c] EXCEPT !.excluded = TRUE]
                                         ELSE snapshots[c]]
  /\ UNCHANGED <<prediction, form>>
ExcludePredictions(s) ==
  /\ s.op = "excludePredictions"
  /\ prediction' = IF Excludes(prediction, s) THEN [prediction EXCEPT !.excluded = TRUE] ELSE prediction
  /\ UNCHANGED <<snapshots, form>>

CountForm(s) ==
  /\ s.op \in {"mark", "home", "away"}
  /\ form' = CASE s.op = "mark" -> [form EXCEPT !.marked = TRUE]
               [] s.op = "home" -> [form EXCEPT !.home = @ + 1]
               [] s.op = "away" -> [form EXCEPT !.away = @ + 1]
  /\ UNCHANGED <<snapshots, prediction>>

Execute(s) ==
  \/ ReplacePrediction(s) \/ InsertSnapshot(s) \/ GradeSnapshot(s)
  \/ GradeSnapshots(s) \/ GradePredictions(s)
  \/ ExcludeSnapshots(s) \/ ExcludePredictions(s) \/ CountForm(s)

\* Mutant: the marker does not stop the counts.
RestUnmarked(chain) == Tail(chain)
\* Once its marker is there, a game's form counts are skipped.
Rest(chain) ==
  IF Head(chain).op = "mark" /\ form.marked THEN <<>> ELSE Tail(chain)
RestAfterFailure(chain) ==
  IF Head(chain).fails = "ignored" THEN Tail(chain) ELSE <<>>
Awaiting(chains, chain, rest) ==
  (chains \ {chain}) \union (IF rest = <<>> THEN {} ELSE {rest})

\* A statement runs, and the next one of its chain is awaited.
Run(i, chain) ==
  /\ Execute(Head(chain))
  /\ job' = [job EXCEPT ![i].chains = Awaiting(@, chain, Rest(chain))]
  /\ UNCHANGED <<caches, world, jobs>>
\* D1 rejects a statement, or the answer of one it executed is lost.
RunFails(i, chain) ==
  /\ faults < MaxFaults /\ faults' = faults + 1
  /\ UNCHANGED tables \/ Execute(Head(chain))
  /\ job' = [job EXCEPT ![i].chains = Awaiting(@, chain, RestAfterFailure(chain)),
                        ![i].ok = @ /\ Head(chain).fails # "reported"]
  /\ UNCHANGED <<caches, now, feed, jobs>>
-----------------------------------------------------------------------------
(* Jobs *)

Begin(i, kind, phase, slate, row, chains) ==
  /\ job[i] = None
  /\ \/ kind \in Recurring /\ UNCHANGED jobs
     \/ kind \notin Recurring /\ jobs < MaxJobs /\ jobs' = jobs + 1
  /\ job' = [job EXCEPT ![i] = [kind |-> kind, phase |-> phase, slate |-> slate, row |-> row,
                                wrote |-> {}, chains |-> chains, ok |-> TRUE]]
In(i, kinds, phase) ==
  job[i] # None /\ job[i].kind \in kinds /\ job[i].phase = phase /\ job[i].chains = {}
Await(i, phase, chains) ==
  job' = [job EXCEPT ![i].phase = phase, ![i].chains = chains]
Writes(i, row, wrote, chains) ==
  job' = [job EXCEPT ![i].phase = "writing", ![i].row = row, ![i].wrote = wrote, ![i].chains = chains]

\* loadLedger: the memory of the isolate comes before the edge cache.
Load(i) == IF memory[i] # Cold THEN memory[i] ELSE edge
\* A ledger that came out of a cache is the object the memory holds: changing it shows at once.
Remember(i, row) == memory' = [memory EXCEPT ![i] = IF Load(i) = Cold THEN Cold ELSE row]

\* collectBoards builds a slate: what the scoreboard says now, and a forecast.
BuildSlate(i) ==
  /\ \E f \in Forecasts :
       Begin(i, "collect", "built", [status |-> feed.status, score |-> feed.score, forecast |-> f], None, {})
  /\ UNCHANGED <<tables, caches, world>>

\* freezeSlate: a game not yet in the ledger is frozen; nobody looks at the results.
FreezeFirst(i) ==
  /\ In(i, {"collect"}, "built")
  /\ ~HasRow(Load(i)) /\ job[i].slate.status = "scheduled"
  /\ LET row == FreezeNew(job[i].slate.forecast) IN
       /\ Writes(i, row, Filled(row),
                 {<<Replace(row, "ignored"), Insert(row, "FIRST_AVAILABLE", "ignored"),
                    Insert(row, ClassifyCheckpoint, "ignored")>>})
       /\ Remember(i, row)
  /\ UNCHANGED <<tables, world, edge, harvested, jobs>>

\* freezeSlate: a known game is frozen at the checkpoints it has not reached before.
FreezeAgain(i) ==
  /\ In(i, {"collect"}, "built")
  /\ HasRow(Load(i)) /\ job[i].slate.status = "scheduled"
  /\ LET old == Load(i)
         row == Refreeze(old, job[i].slate.forecast)
         new == Filled(row) \ Filled(old)
     IN /\ Writes(i, row, new,
                  {<<Insert([row EXCEPT !.final = None], c, "ignored")>> : c \in new}
                  \union (IF row.forecast = old.forecast THEN {} ELSE {<<Replace(row, "reported")>>}))
        /\ Remember(i, row)
  /\ UNCHANGED <<tables, world, edge, harvested, jobs>>

\* freezeSlate: a slate that shows the game over grades its row, or marks it as called off.
FreezeFinal(i) ==
  /\ In(i, {"collect"}, "built")
  /\ HasRow(Load(i)) /\ Load(i).final = None /\ Over(job[i].slate)
  /\ LET row == ApplyFinal(Load(i), job[i].slate) IN
       /\ Writes(i, row, Filled(row), PersistRow(row))
       /\ Remember(i, row)
  /\ UNCHANGED <<tables, world, edge, harvested, jobs>>

\* freezeSlate: a game under way, one already graded and one never frozen are left alone.
FreezeNothing(i) ==
  /\ In(i, {"collect"}, "built")
  /\ \/ job[i].slate.status = "live"
     \/ Over(job[i].slate) /\ (HasRow(Load(i)) => Load(i).final # None)
  /\ job' = [job EXCEPT ![i] = None]
  /\ memory' = [memory EXCEPT ![i] = Load(i)]
  /\ UNCHANGED <<tables, world, edge, harvested, jobs>>

Save(i) ==
  LET kept == IF job[i].row = Cold THEN None ELSE job[i].row IN
  /\ memory' = [memory EXCEPT ![i] = kept] /\ edge' = kept
  /\ job' = [job EXCEPT ![i] = None]

\* A collection that wrote something saves its ledger, whether or not the writes succeeded.
FinishCollect(i) ==
  /\ In(i, {"collect"}, "writing")
  /\ IF job[i].wrote # {} THEN Save(i)
     ELSE job' = [job EXCEPT ![i] = None] /\ UNCHANGED <<memory, edge>>
  /\ UNCHANGED <<tables, world, harvested, jobs>>

\* harvestSport loads the ledger first and then asks the scoreboard.  loadLedger returns
\* no savedAt, so that a cached report is never found to belong to the ledger.
LoadedSavedAt == None
Replays == harvested # None /\ harvested.ledgerSavedAt = LoadedSavedAt
StartHarvest(i) ==
  /\ ~Replays
  /\ Begin(i, "harvest", "loaded", None, Load(i), {})
  /\ memory' = [memory EXCEPT ![i] = Load(i)]
  /\ UNCHANGED <<tables, world, edge, harvested>>

\* The scoreboard answers: a row without a final is written again, with it or without.
Ungraded(row) == HasRow(row) /\ row.final = None
HarvestRow(i) ==
  /\ In(i, {"harvest"}, "loaded")
  /\ LET old == job[i].row
         row == IF Ungraded(old) THEN ApplyFinal(old, feed) ELSE old
         chains == IF ~Ungraded(old) THEN {}
                   ELSE PersistRow(row) \union
                        (IF row.final = None THEN {}
                         ELSE {GradeSnapshotsForGame(row.final, FALSE, "reported"),
                               ApplyFinalToForm("reported")})
     IN /\ job' = [job EXCEPT ![i].phase = "writing", ![i].slate = feed, ![i].row = row,
                              ![i].wrote = IF Ungraded(old) THEN Filled(row) ELSE {},
                              ![i].chains = chains]
        /\ Remember(i, row)
  /\ UNCHANGED <<tables, world, edge, harvested, jobs>>

\* The scoreboard does not answer, and the job goes on without a slate.
FetchFails(i) ==
  /\ In(i, {"harvest"}, "loaded")
  /\ faults < MaxFaults /\ faults' = faults + 1
  /\ job' = [job EXCEPT ![i].phase = "form"]
  /\ UNCHANGED <<tables, caches, now, feed, jobs>>

\* harvestSport with settleOnly, or finals pushed to final-grade.
StartSettle(i) ==
  /\ Begin(i, "settle", "writing", feed, None, {})
  /\ UNCHANGED <<tables, caches, world>>

\* gradeSnapshotPopulationAgainstFinals: if any snapshot of the game has no final yet, the
\* game is graded, by the completed flag alone.  What fails here no job reports.
\* Mutant: a game that has a final on one snapshot is settled.
LacksFinalAll == \A c \in Checkpoints : snapshots[c] # None => snapshots[c].final = None
LacksFinal == \E c \in Checkpoints : snapshots[c] # None /\ snapshots[c].final = None
GradePopulation(i) ==
  /\ In(i, {"harvest", "settle"}, "writing")
  /\ Await(i, "grading", IF LacksFinal /\ Over(job[i].slate)
                         THEN {GradeSnapshotsForGame(job[i].slate.score, FALSE, "dropped")} ELSE {})
  /\ UNCHANGED <<tables, caches, world, jobs>>

\* applyScoreboardForm looks at the completed flag alone, too.
ApplyScoreboardForm(i) ==
  /\ In(i, {"harvest"}, "grading")
  /\ Await(i, "form", IF Over(job[i].slate) THEN {ApplyFinalToForm("dropped")} ELSE {})
  /\ UNCHANGED <<tables, caches, world, jobs>>

\* A harvest saves its ledger even if writes failed; only a good report is cached.  Having
\* no slate is a failure only for a game that has started and awaits its final.
AwaitingFinal(row) == Ungraded(row) /\ now = Kickoff
Good(j) == j.ok /\ ~(j.slate = None /\ AwaitingFinal(j.row))
FinishHarvest(i) ==
  /\ In(i, {"harvest"}, "form")
  /\ Save(i)
  /\ harvested' = IF Good(job[i]) THEN [slate |-> job[i].slate, ledgerSavedAt |-> "written"] ELSE harvested
  /\ UNCHANGED <<tables, world, jobs>>

\* The operator grades, corrects or excludes the game at final-grade.
DeskGrades(i) ==
  /\ feed.status = "completed"
  /\ \E score \in Scores, force \in BOOLEAN :
       Begin(i, "desk", "desk", None, None, {GradeSnapshotsForGame(score, force, "reported")})
  /\ UNCHANGED <<tables, caches, world>>
DeskExcludes(i) ==
  /\ \E force \in BOOLEAN : Begin(i, "desk", "desk", None, None, {ExcludeSnapshotsForGame(force)})
  /\ UNCHANGED <<tables, caches, world>>
Finish(i) ==
  /\ In(i, {"settle"}, "grading") \/ In(i, {"desk"}, "desk")
  /\ job' = [job EXCEPT ![i] = None]
  /\ UNCHANGED <<tables, caches, world, jobs>>
-----------------------------------------------------------------------------
(* The world *)

Tick == now < Kickoff /\ now' = now + 1 /\ UNCHANGED <<tables, caches, job, jobs, feed, faults>>

\* The scoreboard follows the game, with a delay, and may restate a result.
GoLive ==
  /\ now = Kickoff /\ feed.status = "scheduled"
  /\ \E score \in Scores : feed' = [status |-> "live", score |-> score]
  /\ UNCHANGED <<tables, caches, job, jobs, now, faults>>
Complete ==
  /\ now = Kickoff /\ ~Over(feed)
  /\ \E score \in Scores : feed' = [status |-> "completed", score |-> score]
  /\ UNCHANGED <<tables, caches, job, jobs, now, faults>>
\* A game is postponed, cancelled or suspended for good; the scoreboard shows a score, 0-0
\* as a rule.  It may be made up the same day and then has its result.
CallOff ==
  /\ ~Over(feed)
  /\ \E score \in Scores : feed' = [status |-> "postponed", score |-> score]
  /\ UNCHANGED <<tables, caches, job, jobs, now, faults>>
MakeUp ==
  /\ now = Kickoff /\ feed.status = "postponed" /\ faults < MaxFaults /\ faults' = faults + 1
  /\ \E score \in Scores : feed' = [status |-> "completed", score |-> score]
  /\ UNCHANGED <<tables, caches, job, jobs, now>>
Restate ==
  /\ feed.status = "completed" /\ faults < MaxFaults /\ faults' = faults + 1
  /\ \E score \in Scores \ {feed.score} : feed' = [feed EXCEPT !.score = score]
  /\ UNCHANGED <<tables, caches, job, jobs, now>>

\* A job is cut off by the platform; its isolate may be gone with it.
Die(i) ==
  /\ job[i] # None /\ faults < MaxFaults /\ faults' = faults + 1
  /\ job' = [job EXCEPT ![i] = None]
  /\ memory' \in {memory, [memory EXCEPT ![i] = Cold]}
  /\ UNCHANGED <<tables, edge, harvested, jobs, now, feed>>
\* An isolate is recycled, or the edge cache drops the ledger.
Evict ==
  /\ faults < MaxFaults /\ faults' = faults + 1
  /\ \/ edge # Cold /\ edge' = Cold /\ UNCHANGED memory
     \/ /\ \E i \in Isolates : job[i] = None /\ memory[i] # Cold /\ memory' = [memory EXCEPT ![i] = Cold]
        /\ UNCHANGED edge
  /\ UNCHANGED <<tables, harvested, job, jobs, now, feed>>
-----------------------------------------------------------------------------
Init ==
  /\ now = Opening /\ feed = [status |-> "scheduled", score |-> None]
  /\ memory = [i \in Isolates |-> Cold] /\ edge = Cold /\ harvested = None
  /\ job = [i \in Isolates |-> None] /\ jobs = 0 /\ faults = 0
  /\ snapshots = [c \in Checkpoints |-> None] /\ prediction = None
  /\ form = [marked |-> FALSE, home |-> 0, away |-> 0]

Running(i) == job[i] # None /\ \E chain \in job[i].chains : Run(i, chain)
Failing(i) == job[i] # None /\ \E chain \in job[i].chains : RunFails(i, chain)
Collect(i) ==
  FreezeFirst(i) \/ FreezeAgain(i) \/ FreezeFinal(i) \/ FreezeNothing(i) \/ FinishCollect(i)
Harvest(i) ==
  HarvestRow(i) \/ GradePopulation(i) \/ ApplyScoreboardForm(i) \/ FinishHarvest(i)

Next ==
  \/ \E i \in Isolates :
       \/ BuildSlate(i) \/ Collect(i)
       \/ StartHarvest(i) \/ Harvest(i) \/ FetchFails(i)
       \/ StartSettle(i) \/ DeskGrades(i) \/ DeskExcludes(i) \/ Finish(i)
       \/ Running(i) \/ Failing(i) \/ Die(i)
  \/ Tick \/ GoLive \/ Complete \/ CallOff \/ MakeUp \/ Restate \/ Evict

Spec == Init /\ [][Next]_vars

\* Time passes, games end, a job that runs goes on, and settlement comes again and again.
FairSpec ==
  /\ Spec
  /\ WF_vars(Tick) /\ WF_vars(Complete)
  /\ \A i \in Isolates : /\ WF_vars(Running(i))
                         /\ WF_vars(Collect(i) \/ Harvest(i) \/ Finish(i))
                         /\ WF_vars(StartSettle(i))
-----------------------------------------------------------------------------
\* Every variable has its type; in the counts of form lies that no final is folded in twice.
TypeOK ==
  /\ now \in Opening..Kickoff /\ faults \in 0..MaxFaults /\ jobs \in 0..MaxJobs
  /\ feed \in [status : {"scheduled", "live", "completed", "postponed"}, score : Finals]
  /\ \A i \in Isolates : HasRow(memory[i]) => memory[i] \in Row
  /\ HasRow(edge) => edge \in Row
  /\ snapshots \in [Checkpoints -> Snapshot \union {None}]
  /\ prediction \in [forecast : Forecasts, final : Finals, excluded : BOOLEAN] \union {None}
  /\ form \in [marked : BOOLEAN, home : Nat, away : Nat]

\* Each team's form counts the game at most once, however many harvests overlap and
\* however often an answer is lost.
FormCountsOnce == form.home <= 1 /\ form.away <= 1

\* The working ledger has a final only of a game that was played, and the tables only of one
\* that the scoreboard calls over, whatever a slow job still writes.  That a game which was
\* called off is over, too, is what PostponedUngraded is about.
Graded(row) == HasRow(row) /\ row.final # None
FinalsOnlyWhenOver ==
  /\ \A ledger \in {edge} \union {memory[i] : i \in Isolates} :
       Graded(ledger) => feed.status = "completed"
  /\ \A row \in {prediction} \union {snapshots[c] : c \in Checkpoints} : Graded(row) => Over(feed)

\* A snapshot says when its forecast was frozen, not when it reached the table: what a
\* retry or a harvest writes much later keeps a time that belongs to its checkpoint.
CheckpointTimely ==
  \A c \in Checkpoints : snapshots[c] # None =>
    /\ c = "EARLY" => snapshots[c].at = 1
    /\ c = "CLOSE" => snapshots[c].at >= 2

\* A job that writes a row with what the scoreboard says of it, a harvest or a collection
\* that meets the end of the game, reports its writes good only if every checkpoint it wrote
\* is in the table.  Its final need not be there: an insert that finds a snapshot attaches
\* nothing to it while its checkpoint is OPEN, and only the sweep does (Settles).
GradingOkDurable ==
  \A i \in Isolates :
    /\ In(i, {"harvest", "collect"}, "writing") /\ job[i].ok
    /\ job[i].kind = "harvest" \/ Over(job[i].slate)
    => \A c \in job[i].wrote : snapshots[c] # None

\* Finals of the desk's corrections that still await their statement.
Pending(i) == IF job[i] = None THEN {}
              ELSE UNION {{chain[n] : n \in DOMAIN chain} : chain \in job[i].chains}
Corrections ==
  UNION {{s.final : s \in {t \in Pending(i) : t.op = "gradeSnapshots" /\ t.force}} :
           i \in {k \in Isolates : job[k] # None /\ job[k].kind = "desk"}}
Record == INSTANCE AppendOnlyLedger WITH rows <- snapshots, ordered <- Corrections
\* The table of snapshots keeps the promise of an append-only record: frozen forecasts stay,
\* a final once attached changes only by a correction of the desk, exclusions are for good.
KeepsRecord == Record!Spec

\* Once settlement recurs, every snapshot of a game that is over gets a final in the end,
\* whatever statements failed and however late a snapshot was written.
Settles ==
  <>[](\A c \in Checkpoints : snapshots[c] # None => snapshots[c].final # None)
-----------------------------------------------------------------------------
(* What the repository says of the program and the code does not keep *)

Quiet == \A i \in Isolates : job[i] = None
CachedFinal ==
  harvested # None /\ harvested.slate # None /\ harvested.slate.status = "completed"

\* "Does not grade postponements as 0-0": no snapshot has a final of a game that was not
\* played, although the scoreboard calls it over.
PostponedUngraded ==
  \A c \in Checkpoints : Graded(snapshots[c]) => feed.status = "completed"

\* "A successful cached harvest is already durable": it has counted its final for both teams.
CachedHarvestCounted == Quiet /\ CachedFinal => form.home = 1 /\ form.away = 1

\* "Durable persistence before advancing to the next work unit": behind a good report of
\* a final, a row that the saved ledger calls final has its checkpoints in the table.
CachedHarvestDurable ==
  Quiet /\ CachedFinal /\ HasRow(edge) /\ edge.final # None =>
    \A c \in Filled(edge) : snapshots[c] # None

\* "Contention protection": once nobody runs, a row that the saved ledger
\* calls final has its final in the table of predictions.
PredictionKeepsFinal ==
  Quiet /\ HasRow(edge) /\ edge.final # None => prediction # None /\ prediction.final # None
=============================================================================
