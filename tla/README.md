# FBIS: a verification project

FBIS collects public sports data, publishes forecasts, freezes them before
kickoff, attaches the results and learns from both. It runs as Cloudflare
Workers and Pages functions over D1 (SQLite), R2 (objects), the Cache API and
Durable Objects. Nothing in it runs alone: scheduled jobs, HTTP routes and
operators work on the same rows at the same time, in isolates that come and go,
under a bill that must not be exceeded.

This directory holds TLA+ models of the protocols whose mistakes would be the
hardest to see and to repair: who may spend money, who may write the archive,
what becomes of a forecast, what of the market history is safe in R2, and
whether the copy of a database is one. `src/` in what follows is the repository.

Contents: [1 Inventory](#1-inventory) - [2 Modules](#2-modules) -
[3 The models and the code](#3-the-models-and-the-code) -
[4 Runs](#4-runs) - [5 Fairness](#5-fairness) - [6 Proofs](#6-proofs) -
[7 Where code and documents disagree](#7-where-code-and-documents-disagree) -
[8 What is left out](#8-what-is-left-out) - [9 Plan](#9-plan)

## 1 Inventory

| Component | State | Operations | Hard behaviour | Correct when |
|---|---|---|---|---|
| Account budget (`services/account-budget`) | per billing period: reserved dollars, count, units; one key per reservation; a lease in the worker's memory | `reserve`, `createExecutionLease`, `spend` | lost replies, retries, dead workers, redeployed policies, skewed clocks, cycle boundaries | the stop is never passed; a reservation is worked once and covers what its work uses; a lease ends on its own |
| Archive serializer (`services/archive/archiveSerialization.mjs`) | a lock, a ledger of operations, their count | `serializeArchive`: claim, run, complete, mark uncertain | crash between two transactions; a transaction that commits without an answer | one writer; no operation id is run twice; a failure never gives the lock away |
| Archive run (`unifiedArchiveCaller`, `knownKeyArchive`, `driveArchiveSink`) | objects in R2, files in a Drive folder, requests counted | HEAD, GET, list, upload, read back, restore | the folder has no create-if-absent, uploads land late, sources are overwritten | one file per name; a receipt is true; only what the plan describes is uploaded |
| Forecast ledger (`functions/lib/projLedger.js`, `store.js`) | a working ledger in memory and in the edge cache; D1 tables `prediction_snapshots`, `predictions`, `team_form` | `freezeSlate`, `harvestSport` (full or `settleOnly`), `final-grade` | overlapping jobs, statements that fail or go unanswered, stale memory, lost caches | a frozen forecast stays; a final is attached once; form counts it once; a good report is true; everything is graded in the end |
| Tickets and strategies (`projLedger.js`, `store.js`) | executed bets, strategy recommendations | grading against the ledger's finals | a final corrected after settlement | a ticket agrees with its game's final |
| Polymarket US stream (`boundedWorker`, `boundedSession`) | a flag in memory, a reservation per minute slot | `run(slot)` | the flag is lost with the object | one session per slot |
| Collectors (Kalshi, Polymarket REST, tennis, rosters) | none of their own | reserve, fetch, write once | caps of the lease | no work without a lease |
| Soccer queue (`soccer-pitchapi-queue-*`) | leased work items | claim, complete, enqueue successor | expired leases, completion by id alone, two statements | every page is fetched; no item is completed for another worker |
| Market history archive (`marketHistoryVerifiedArchive.js`, `marketHistoryRetentionRehearsal.js`) | a lease row and a cursor row in D1, batches and manifests in R2 | acquire, read page, put batch and manifest, read back, advance, release; propose a cohort | read-then-write lease, late rows, unreadable checkpoints, overwritten batches, death between three writes | what the cursor has passed is in R2 |
| Sport shadow copy (`sportWorkingCopy.js`) | a table in two databases, a cursor and a replay marker beside the copy | plan a pass, copy pages, finish, verify parity | rows written behind the cursor or in place, marker writes that are lost, passes cut short or overlapping, counts at two times | every row arrives; a replay covers what it owes; parity means whole |
| Action collector lease (`actionApifyDurableState.js`) | a run lease, a circuit breaker, the month's spend | acquire, finish | read-then-write lease | one run, bounded spend |
| Market observations, orchestration, learning, models, ESPN tools, pages, scripts | tables and generated evidence | upserts, HTTP calls, numerical work | little protocol of their own | - |

How they interact. Every job that costs money calls the **account budget** first
and spends a lease. The **archive run** works inside a claim of the **serializer**.
The orchestrator's schedules and operators start jobs of the **forecast ledger**;
form, tickets, strategies and learning read what it graded.
`PROJECT.json` lists every component with its sources and its status, and every
hazard found, at its line, with the properties that cover it.

## 2 Modules

    BudgetPromise <--refines-- AccountBudget  <- MCAccountBudget     AccountBudgetProofs <- SumLemmas
                                  ^ extends, refines
                               ExecutionLease <- MCExecutionLease    ExecutionLeaseProofs
    SingleWriter  <--refines-- ArchiveSerialization                   ArchiveProofs
                                  ^ extends
                               ArchiveRun     <- MCArchiveRun        ArchiveRunProofs
    AppendOnlyLedger <-refines- ForecastLedger <- MCForecastLedger    ForecastLedgerProofs
                               MarketArchive  <- MCMarketArchive     MarketArchiveProofs
                               ShadowCopy     <- MCShadowCopy        ShadowCopyProofs

The left column is abstract: a page each, without workers, messages, clocks or
caches, saying what a component promises (refinement mappings are in the modules
of the middle column, as `Promise` and `Record`). The middle column follows the code. An
`MC` module gives constants values for TLC; a `Proofs` module holds theorems.
A definition that begins with `\* Mutant:` is never part of a specification: it
is its neighbour with a plausible mistake, and TLC refutes a property once it
takes its neighbour's place, which shows that the run can see that mistake.

## 3 The models and the code

### AccountBudget

One action per step of the exchange. `Request` is the call to the coordinator;
`Grant` is the transaction of `reserveJob` with every condition of `Admits`, in
the names of the code; `GrantLost` is the same transaction when the reply finds
nobody. `Refuse` needs no reason, because a call may fail before its transaction
whatever the policy says; it writes nothing. `OpenLease`, `Spend` and
`LeaseStops` are `createExecutionLease`, its `spend` and its `stop`; `End` is the end of the
job in whatever way. `Redeploy` puts another value into
`FBIS_ACCOUNT_BUDGET_POLICY`, at any time.

Here costs are charged in any amount, at any time while the job runs, and a lease
stops at any time; which calls do so is `ExecutionLease`. Milliseconds and micro-dollars become small numbers. A worker's clock differs from the
coordinator's by a constant. The transaction is atomic and serializable, as
Durable Object storage is. `begun`, `spent` and a reservation's `charge` and
`bounds` only observe.

### ExecutionLease

The wrappers of `execution.mjs` over one lease of AccountBudget. `call[c][k]` is a
call under way; a job may have one in every slot. `Ask` charges and issues a call of
any kind, or stops the lease; `Answered`, `Responds`, `Finds` and `FindsUnsized` are
its answer; `Pull`, `ResponsePart`, `ObjectPart` and `BodyEnds` are `boundedBody`.
The `head` of R2 is a `get` that is answered without a body; `list` and `delete`
charge once and have no body, like `put`. `Rejects` is a wrapper, or `executionEnv`,
that does not approve of what it is asked: any such check may fail at any time.
`Over` ends the calls with their worker. The wrapper of D1 is left out,
because no certified job has a unit of it: its first charge stops the lease
(`Rejects`).

`taken` observes what the providers served at most: a request when it is issued, an
object in full when its body is handed on, a part when it came, whether or not the
lease bore it. That is where charging on receipt differs from charging in advance,
and what `TakenCovered` bounds.

### ArchiveSerialization and ArchiveRun

`CommitClaim` is the first transaction with all it checks; `ClaimUnanswered`
commits it for a host that never learns. `Complete` and `CompleteUnanswered`
are the second transaction, `MarkUncertain` the catch block's. `Gone` is a host
that stops, or a catch block with nothing to mark.

`ArchiveRun` fills in the work between claim and completion: `HeadObject` for all
keys, then `GetObject` for all, then per file `List`, `Post`, `Answered` and
`Readback`, then `Restore` of the manifest and every object. The host fails
wherever a check of the code does (`Fails`, through `Leaves`); the positive
checks are the guards. `Land` and `Lose` decide the fate of an upload when they
like, also after its host is gone. A version of an object is `Sound` or later;
a file is intact or damaged; its name is its content, as in the code.

Assumed: Drive lists a file once it has stored it, and nobody trashes files in
the archive folder. Production admits no archive job today (none is in
`CERTIFIED_EXECUTION_JOBS`); the composition is that of the offline tests.

### ForecastLedger

One game. `job[i]` is the job an isolate runs, with the slate it fetched, the
row it writes and `chains`: the statements it has yet to await. `Promise.all` in
the code is a set of chains; a sequence of awaits is one chain. `Run` executes
the head of any chain; `RunFails` lets D1 reject it, or execute it and lose the
answer. What a failure does is on the statement (`fails`), because in the code
it differs: `tallyPersist` sees the result, or only the last result of a closure,
or nobody looks at it.

- collection: `BuildSlate`, then one of `FreezeFirst`, `FreezeAgain`,
  `FreezeFinal`, `FreezeNothing`, then `FinishCollect`;
- harvest: `StartHarvest` loads the ledger, `HarvestRow` gets the scoreboard and
  writes, `GradePopulation` sweeps the snapshots, `ApplyScoreboardForm` applies
  the final to the teams again, `FinishHarvest` saves and reports;
- settlement: `StartSettle`, `GradePopulation`, `Finish`;
- the desk: `DeskGrades`, `DeskExcludes`, `Finish`.

Between two steps of a job anything may happen. `memory` is the module's memory,
`edge` the Cache API; a ledger that was cached is one object, so that a job's
change shows at once (`Remember`), and `saveLedger` writes both (`Save`).

The scoreboard calls a game over (`Over`) when it was played and when it was postponed,
cancelled or suspended: every ESPN event in state `post` has the completed flag, and a
score (`CallOff`; `MakeUp`, if it is played later that day after all). `ApplyFinal` tells
the two apart by the wording of the status: a game that was called off gives its row no
final and marks its checkpoints (`off`). The sweep and the form look at the flag alone
(section 7). The checkpoints of a row stay OPEN otherwise, also under a final, and
`gradeSnapshot` passes over what is OPEN (`store.js:604`), so the grade that follows an
insert only runs for marked checkpoints (`PersistCheckpoint`): a harvest grades by
`GradeSnapshotsForGame`, and after a collection that met the final only the sweep does.
An insert that meets another forecast succeeds: `persistSnapshot` reports such a conflict
only of a row without a status, and none is.

Simplified: one game and one model version; an isolate runs one job at a time,
and the jobs that share a ledger object there follow one another; three of the six
checkpoints; one edge cache for all isolates, without expiry except `Evict`; the
desk grades a game only when it was played.

### MarketArchive

One action per await of `archiveAndVerifyColdMarketHistory`. `Start` reads the
lease and takes the time once, as `now` and `runId`; `TakeLease` is the upsert,
which asks nothing of the row it replaces; `ReadHolder` and `FreeLease` are the two
statements of the release. `ReadCheckpoint` also stands for `resetCheckpoint`,
`resume: false` and a read that failed and is taken for no checkpoint. `ReadPage`,
`PutObject`, `PutManifest`, `Readback` and `Advance` are a round; a put that
reports failure may have taken effect, and the code puts the manifest of a batch
even if the batch failed (`orphan`). `Fail` is an exception, after which `finally`
releases; `Gone` is a worker that dies.

Rows are numbered in the order of `(collected_at, id)`, so the keyset cursor is a
number. A batch's key is its first row, its size and its round, as in the code; the
day of the run, which is in the key too, would only tell more batches apart. A
body's hash is the body. `late`, `exposed` and `restarted` observe: a row inserted
after it was eligible, a lease written over one that its writer had not read or
outlived by its run, a run that began from the first row.

### ShadowCopy

One table of one sport. `Start`, `ReadMarker`, `ReadPrimary`, `ReadShard`, `Rewind`
and `Mark` are `beginSportWorkingCopy`; the two numbers of a `Promise.all` are read
in either order, and `Planned` decides once both are there. `ReadPage` and `Put`
are the page loop, whose rows are written one statement (games) or 40 (predictions)
at a time (`BatchSize`); `Finish` and `Clear` are the two writes of
`finishSportWorkingCopy`. A row is a timestamp, and stands for its content: the one
the primary gave it last. `Tracked` tells the tables of NHL and NBA, which have a
freshness column in the plan, from the others. A meta write that is swallowed and a
meta read that fails both count against `MaxFaults`, as do a count that fails, a
pass that stops and `resume: false` (`Rescan`). `CountPrimary` and `CountShard` are
the two counts of the parity check. `overlapped`, `kept`, `due` and `receipt`
observe.

## 4 Runs

| Run | Instance | Shows |
|---|---|---|
| `budget` | 2 workers (one clock 2 behind), 2 ids, 4 jobs, 2 units, 3 policies of one cycle, time 0..4 | no double work, no unpaid work, no overrun of dollars or units, one inspection, bounded leases; `KeepsPromise` |
| `budget_cycles` | 1 worker with 2 calls at once, 2 ids, 3 jobs, 6 units, 2 policies over two cycles, time 0..3 | work of the old cycle ends in time; a fixed allocation bounds the new one; what is served stays within the reservation but for a part of each call |
| `archive_run` | 2 hosts, 3 operations of 4 ids, 2 plans that share an object, the real cap of 24 requests, any damaged files to begin with | exclusive, unrepeated work, consistent lock and ledger, final outcomes, `SingleWriting`; no duplicates, true receipts, only planned uploads, and a plan never runs into the cap |
| `ledger` | 2 isolates, 2 forecasts, 2 scores, 3 jobs of any kind, 1 fault, from the closing window on | form once, finals only of games that are over (in a ledger, that were played), honest reports; `KeepsRecord` |
| `ledger_live` | 2 isolates, 2 jobs and any number of settlements, 1 fault, from the early window on | every snapshot of a game that is over is graded in the end; times belong to their checkpoints |
| `postponed_graded` | 1 isolate, 2 jobs, no fault | section 7 |
| `cached_counted` | 1 isolate, 1 job, 1 fault | section 7 |
| `cached_durable` | 1 isolate, 3 jobs, 2 faults | section 7 |
| `prediction_final` | 2 isolates, 3 jobs, no fault | section 7 |
| `market_archive` | 2 callers, 3 runs of up to 2 pages of 2, 3 rows of which one is due later, a lease of 1 and time 0..1 | runs kept apart, what the cursor passed archived, evidence that verifies, a cursor that only advances |
| `retirement_cohort` | the same | section 7 |
| `shadow_copy` | 2 callers, passes of one page of one row, 2 ids, 2 writes, 1 fault | whole parity, covering replays, and every row arrives |

Why these bounds are enough to be interesting. *Budget*: two workers and two ids
give every way a retry can collide (same id, other id, same job, other job); the
ceilings are such that two reservations of `stream` do not fit and one of each
kind does; time is long enough for evidence and a lease to expire, and the
second worker's clock lies behind by a lease's length. `MaxCount` of 3 is never
reached with two ids; the proofs do not depend on it. *Calls*: two slots are one call
that stops the lease and one that is under way then; parts of up to two bytes against
limits of one and two are borne, borne once and not borne; the bound of `TakenCovered`
is exact (with one byte less the run finds a counterexample). *Archive*: three operations
are one to fail, one to be kept out and one to be tried again; a folder may begin
with damaged files under any set of names, which stands for every earlier
history. One plan is a single object, the limit of the unified caller, the other
has two, the limit of the known-key archive. *Ledger*: an anomaly of
overlapping jobs needs two, and one more finds out what they left behind;
`MaxFaults` counts a rejected or unanswered statement, a lost cache, a dead job,
a failed fetch, a restated score and a game that is made up together, so one of them at
the worst moment is explored in full; a game may be called off at any time without
counting. `FinalsOnlyWhenOver` needs the scoreboard to have a score while the game is
`live` or `postponed`. Settlements are not counted in `ledger_live` (`Recurring`). The two ledger
runs are disjoint on purpose: opening in the early window doubles the
checkpoints, and liveness allows no symmetry. *Market archive*: three runs are one
to leave something behind, one that overlaps and one that finds both; two pages of
two rows over three observations give full pages, short pages and a row that is
late to either; a lease of one tick expires under a run. *Shadow copy*: with pages
of one row and passes of one page, a replay of two rows takes three passes, so
everything can happen between its pages; either id can be late to the other; two
writes are an insert and a rewrite, or two inserts. With two faults the same
properties hold (run once, 1.1 million states).

Deadlock is checked in both budget runs, in the archive run and in the shadow copy (time
may stand still, but redeploying, overwriting or another pass never stops). In the
ledger jobs are bounded, and in the market archive the model's clock and runs end:
there a state without successor is the end of the bound.

## 5 Fairness

`ForecastLedger` (`FairSpec`) and `ShadowCopy` (`Spec`) have a liveness property;
all fairness is weak. In `ForecastLedger`:

- `Tick`, `Complete`: time passes, a game ends and the scoreboard says so, unless it was
  called off, which nothing forces (`CallOff`, `MakeUp`);
- `Running`, `Collect \/ Harvest \/ Finish`: a job that the platform runs makes
  progress. It may still be cut off (`Die`), within the bound on faults;
- `StartSettle`: settlement recurs. The repository has a schedule that settles
  every hour (`.github/paused-workflows/hourly-bet-settlement.yml`) and a recovery
  that settles the hours it missed (`workers/prospective-pipeline-recovery.mjs:72`).
  At this commit both are paused (the directory's name; `crons = []` in
  `wrangler.orchestrator.toml`): `Settles` is what their operation brings, and
  without them nothing of the kind is promised.

Nothing is assumed of collections, harvests or the desk: they may never come.
`Settles` needs settlement because a checkpoint can reach the table without a
final after its game was graded; dropping the recurrence refutes it.

In `ShadowCopy` one condition: `WF_vars(\E w \in Callers : Copy(w))`, some pass goes
on. The sync is scheduled every twenty minutes
(`.github/paused-workflows/sport-delta-sync-recurring.yml`, paused at this commit
like the others) and asks again for what remains; a pass may stop, as a fault, and
which of two passes goes on is not promised. `RowsArrive` says that rows arrive, not
that their latest content does (section 7).

## 6 Proofs

TLAPS checks these theorems for every value of the constants that the named
assumptions allow: `ConstantsOK` and `LeaseConstants` (types, non-empty sets, that
the code grants the inspection one attempt, that `Costs` has what calls charge),
`SerialConstants`, `PlansOK`, `LedgerAssumption`, `ArchiveConstants` and
`CopyConstants` (types and bounds), and `NullIsNoRecord` (no row's NULL is a value).
Two say more of the code. `FinitelyMany`: ids and policies are finitely many, because
an id matches `/^[a-zA-Z0-9_-]{1,80}$/` and a policy is the text of an environment
variable; the sums over ids need it. `PlansFit`: six requests for each file of a plan
and three for the folders are within the cap, which the limits of the code give (two
objects and a manifest, `knownKeyArchive.mjs:6`, against 24 requests,
`driveArchiveSink.mjs:4`: 21). TLC evaluates both in its runs.

**AccountBudgetProofs.** `TypeCorrect`, `ReservationsWorkedOnce`,
`AllSpendingCovered`, `LeasesBounded`, `CycleOverrunBounded`, `BudgetKept`,
`TotalsBacked`, `OneInspection`, `CeilingsHonoured`, `AllocationsHonoured`,
`PromiseKept`. `WorkedOnce` and `SpendingCovered` are not inductive: a worker
could hold a grant whose reservation is not there, or whose limits exceed what
was reserved. `IInv` adds that a grant in someone's hands belongs to a
reservation that is taken, that its limits lie within the reservation's bounds,
that what its lease has used is all that was ever spent under its id, that an id
not reserved was never worked, and that its expiry is bounded by its cycle and
its opening.
Each action then disturbs a few conjuncts and has a step for each. `BudgetKept`
takes the least bill ever deployed for a period as its base, since a policy may be
replaced by one that was measured earlier: that is what the code guarantees, and
no more.
The period's ledger is `Books`, on top of `IInv`: the totals are the sums over the ids
that hold a reservation in the period (`LedgerBacked`); in every unit the total is within
a ceiling that was deployed (`Capped`); an inspection uses up the one attempt there is
(`AttemptUsed`); a cycle on allocations alone is within one of them (`Allocated`). Only a
grant disturbs it. The guards of an admission see the stored totals; they bound the work
of a period because the totals are the sums of the bounds, and each bound covers what is
spent under its id (`SpendingCovered`).

**SumLemmas.** What the community modules' `SumFunctionOnSet`, a fold, comes to over a
finite set: it unfolds by one index, is a number, grows by an added index and shrinks by
a removed one, and depends only on the values in the set. The fold's defining
`CHOOSE` is met by a function on the subsets, whose existence is shown by induction
over a set of sets (`SubsetInduction`): the library's induction rules take an operator,
which the provers cannot be given.

**ExecutionLeaseProofs.** `CallsKeepBudget`: a step of a job with calls is a step of
AccountBudget or leaves it alone, so all that is proved above holds of such jobs.
`ServedWithinReservation`: `TakenCovered` is not inductive, because a lease that has
stopped may have calls under way whose parts are still to come. `LInv` says what was
served beyond the charges so far: nothing while the lease is open, and afterwards a
part for every call that no longer awaits one (`Beyond`). A call begins to await a
part only while the lease is open, so the calls that do never grow again, and each
that ceases to do so brings one part at most (`RestGrows`). The bound then follows
from `SpendingCovered`, for any number of slots. `CallsBounded` carries the bounds of
cycles, allocations and ceilings over.

**ArchiveProofs.** `WritersExclusive`, `LedgerMatched`, `WorkRunsOnce`,
`OutcomesStay`, `SerializerKeepsPromise`. `SerialInv` adds that a host in a call
works on an id of its own, recorded with its intent, and that an id not recorded
was never run. Of a host that failed it says nothing about the lock: its operation
may be completed and the lock be free or another's, which is the case that the
check in the catch block (`Owns`) is for.

**ArchiveRunProofs.** `FolderHasNoDuplicates`, `UploadsStayCovered`, `RunTypes`,
`ReceiptsTrue`, `OnlyPlannedUploads`, `RequestsAlwaysSuffice`, `RunsAreSerialized`.
`RunInv` ties every upload under way to the operation that holds the lock (`UploadsCovered`),
says that there is one at most, and only between `Post` and its answer while its
host works (`Single`, `Alone`), that its name is free until it lands (`Missing`),
and that the name a host is about to upload is still missing. The serializer's
theorems enter through `SerialInv`, because every step of a run is a step of the
serializer or none (`RunSerial`), which also makes the whole operation an implementation
of the serializer and of SingleWriter.
`Planned` says how far each run is. `OnPlan`: its downloads are the versions its plan
expects, what it saved are the first files of the plan, each the only one of its name,
and what it has sent is bounded by where it is (`Spendable`: four requests for each file
passed, then two for each restored). `Stored`: the files it saved are there, those it
read back are intact. A receipt is given by a host whose run is done, when all files
have been read back, and stays true because no action takes a file away or changes one
(`FilesKept`). That `Answered` takes position 1 needs `NoDuplicateFiles`, and that the
file it was told of is there needs the types of uploads (`UploadsTyped`): neither half
of the invariant is inductive alone. The bound on requests is reached.

**ForecastLedgerProofs.** `LedgerTyped`, `FinalsWait`, `TimesBelong`,
`CountedAtMostOnce`, `RecordKept`, `GradingDurable`, for any number of isolates, jobs, faults, forecasts
and scores. `TInv` is the types, with the shape of every chain a job awaits. `HInv`
says that whatever carries a result or a time is honest, rows, slates, statements and
caches alike. A row of a ledger has a final only of a game that was played (`Played`), a
statement or a table only of one that is over (`Ended`), since the sweep takes the score
of a game that was called off; and a time belongs to its checkpoint. So a stale row or a
late statement can do no harm. `HInv` also fixes the shapes of chains and that only the
desk corrects. `FInv` is about the marker of
`team_form`: a chain that counts a team is a token, there is one at most among all
jobs, it exists only once the marker is in, and the team it is about to count has not
been counted. `RecordKept` is the refinement of AppendOnlyLedger, where a correction
is the abstract action and every other statement adds or leaves alone.
`GradingDurable` needs `GInv`: every checkpoint of a job that writes a row at the end of
its game and still calls its writes good is in the table, or the chain that brings it
there is awaited. It is inductive because no statement of any job removes a snapshot
(`SnapshotsStay`), and because those inserts report what stops them.

**MarketArchiveProofs.** `TypesKept`, `LeaseKeepsApart`, `PassedStaysArchived`,
`EvidenceStays`, `CursorOnlyAdvances`, under `ArchiveConstants` (captures ordered
like rows, positive lease, page and rounds). `TInv` adds to the types that a page is
the run's own, past its cursor and eligible at its time. `LInv` bounds what a lease
can be while a run that is not exposed holds it: it is that run's, and has not
expired; runs that read it free cannot both have done so. `NInv` has three parts:
what any body under way or stored contains (`MInv`: a page whose rows are exactly the
rows on time between its first and its last, whoever wrote it, so that one batch
written over another of the same key loses nothing but late rows); that as long as
runs are orderly, who works goes on from the checkpoint, nobody else has touched what
it put, and the checkpoint names a batch that is there (`OInv`); and that behind every
cursor, the checkpoint's and each run's, the rows on time are archived (`KInv`).

**ShadowCopyProofs.** `TypesKept`, `ParityMeansWhole`, `ReplaysCover`, under
`CopyConstants`, so for any number of rows and any page, batch and pass size. `TInv`
says what the fields of a pass say to each other (`Sound`). `BelowAll`: no copy, no
page under way and nothing that is due is newer than the primary. `Alone`: while no
overlap was observed there is one pass or one check. From these `Counted`: what is
copied is a subset of what an open check has counted, so that equal numbers are
equal sets. `RInv` carries a replay: the rows up to the stored cursor and up to the
pass's own have what was due (`Covered`), the page under way brings the rest up to
its last row, and if it was the last page, all rows (`Paged`). That is inductive
because a page is an initial part of the rows past the cursor (`FirstIsInitial`) and
the cursor moves only when the whole page is there (`PutFacts`).

Every safety property of the passing runs has a theorem. Only model-checked: `Settles`
and `RowsArrive`, since liveness under fairness and `ENABLED` are out of the prover's
reach. Induction over data is too, except for the sums, which SumLemmas derives from
the well-foundedness of the finite subsets. No module declares a RECURSIVE operator;
sums are folds.

## 7 Where code and documents disagree

Each has a run that finds a counterexample; `PROJECT.json` quotes the sentence.

1. `postponed_graded`: a game that was called off gets a final in its snapshots.
   `applyFinal` (`projLedger.js:593`) gives it none, and `test/research.test.js:636` says
   why: "does not grade postponements as 0-0". But the sweep takes its finals by the
   completed flag (`projLedger.js:674`), which `slateEngineCore.js:292` sets for every
   event in state `post`; so does the form. No fault is needed, and COALESCE keeps the
   score if the game is made up.
2. `cached_counted`: the marker that keeps a game's form from being counted twice
   goes in first, and a count that then fails is neither reported nor repeated
   (`store.js:1401`), although the harvest is cached as durable.
3. `cached_durable`: the working ledger gets the final before the tables do
   (`projLedger.js:2361`) and is saved in any case. A harvest that stops halfway
   leaves a row nobody will write again, and the next one reports good. That the insert
   of a collection may fail in silence has a cause of its own: the closure at
   `projLedger.js:1414` returns the result of its last write.
4. `prediction_final`: `INSERT OR REPLACE` (`store.js:206`) writes a whole row
   that was loaded earlier, so that one of two overlapping jobs erases the final
   of the other. No fault is needed. Snapshots, which learning reads, keep theirs.
   The standard asks for "contention protection for shared queues"
   (`docs/FBIS-MODEL-SYSTEM-STANDARD.md:315`); this table is shared and has none.
5. `retirement_cohort`: the rehearsal proposes "a bounded retirement cohort that is
   fully archived past the hot window" (`marketHistoryRetentionRehearsal.js:39`) by
   the cursor alone, and a row inserted behind the cursor is in it although no object
   holds it. The count of late arrivals is disabled
   (`marketHistoryVerifiedArchive.js:736`); the rehearsal itself deletes nothing.

Observations without a run: a new game whose snapshot D1 rejected is reported good by its
collection, although `test/pipeline.test.js:791` says that it "fails required writes when
D1 rejects snapshots" (the test rejects all of them, and the tally of `persistGame` saves
it); `persistSnapshot` neither grades a checkpoint nor reports a conflict unless its
status says so, which for an OPEN one it never does; `loadLedger` returns no `savedAt`, so that the
branch at `projLedger.js:2304` that should replay a cached harvest is dead;
only the cached ledger decides whether a game is seen for the first time, so that
a lost cache after a rejected insert makes a later forecast FIRST_AVAILABLE; and a
row rewritten behind the cursor of a replay keeps its old content in the copy if a
row ahead of it is rewritten later, since the latest timestamps are then equal
(`sportWorkingCopy.js:301`). In the market archive two runs may hold the lease at once,
since it is read and then written (`marketHistoryVerifiedArchive.js:186`), and one may set
the cursor back: `LeaseExcludes`, `CheckpointVerifies` and `CursorAdvances` leave those
runs out by their hypotheses, and `PassedIsArchived` holds of them while no row is late.
`ParityIsWhole` leaves out a pass of the copy between the two counts.

## 8 What is left out

- *Budget*: the wrapper of D1, the checks of what a call may name, the sessions that
  spend a lease over a socket (`boundedSession.mjs`, `marketSession.mjs`).
- *Archive*: byte caps, plans in batch format, the manifest inspection (its single
  admission is in AccountBudget), the admission and expiry of the archive's lease.
- *Ledger*: the `games` table, odds snapshots, challengers, daily metrics, the
  retry queue, `promotePredictionFinalsToSnapshots` and the kickoff guard of CFB,
  fallbacks for old schemas, several games in one ledger. A retention by date that
  drops old games from the working ledger is not reached within one game.
  Of games called off: the MLB adapter (`slateEngineCore.js:1196`) does not call a
  postponed game completed, so that it looks scheduled; an ESPN game suspended in state
  `in` looks live; a game made up on another day is another event; and the `graded_at`
  that a marked checkpoint gets without a score is not modelled.
- *Market archive*: `archivedTotal`, dry runs, the scope checks of a run that finds
  nothing, the limit and the protected rows of the rehearsal, `retentionGate.js`.
- *Shadow copy*: the prefix tables with their own plan, the exact pages of CBB, the
  shared NBA ledgers, column healing, nullable columns kept by COALESCE, the keys of
  published rows, rounds of `syncSportWorkingDelta`, the cutover to sport mode.
- Numerical models, learning, pages, scripts and data: their difficulty is not in
  the order of steps.
- Stream, tickets, action lease and soccer queue: section 9.

## 9 Plan

Done, most at stake first: account budget and its leases, archive, forecast ledger,
market history archive, sport shadow copy. Next:

1. `StreamSlots`: a session per minute over ExecutionLease, with an object that
   restarts and sockets that charge per message.
2. `TicketSettlement` on top of ForecastLedger: bets graded from finals that the
   desk may correct; the CFB kickoff guard and the promotion of predictions.
3. `ActionLease`: the D1 lease, breaker and month-to-date spend of the collector.
4. `SoccerQueue`: claim, complete, fail and enqueue as separate statements, leases
   that expire under a worker; against an abstract chain of pages in which every
   page is fetched, and none is credited to another worker's attempt. Last, since
   `wrangler.soccer-backfill.toml` calls the sport retired.
