----------------------------- MODULE MarketArchive -----------------------------
(***************************************************************************)
(* The archive of the market history (marketHistoryVerifiedArchive): runs  *)
(* of a cron and of an operator copy the observations past their           *)
(* eligibility from D1 into R2, page after page, and advance a durable     *)
(* cursor.  A soft lease keeps them apart; it is read and then written,    *)
(* expires under a slow run, and is read and then given back.  Rows may    *)
(* arrive late, the checkpoint may be unreadable or reset, and a run may   *)
(* die anywhere.  The retirement rehearsal reads rows by the same cursor.  *)
(***************************************************************************)
EXTENDS Integers, FiniteSets, FiniteSetsExt

CONSTANTS
  Workers,     \* callers of archiveAndVerifyColdMarketHistory
  NRows,       \* observations there may be
  CollectedAt, \* row -> collected_at
  Eligibility, \* eligibilityMs
  HotWindow,   \* MARKET_HISTORY_HOT_WINDOW_MS
  LeaseTtl,    \* ARCHIVE_LEASE_TTL_MS
  PageSize,    \* LIMIT of the page query
  MaxRounds,   \* pages of one run
  MaxClock,    \* bound of the model's clock
  MaxRuns      \* bound of the model's runs

VARIABLES
  clock,      \* Date.now()
  rows,       \* normalized_market_observations
  lease,      \* the checkpoint table's lease row: owner and expiry
  checkpoint, \* its cursor row: cursor, object key and content hash
  objects,    \* R2: batch key -> body
  manifests,  \* R2: batch key -> the content hash in its manifest
  run,        \* where the run of each worker is
  begun,      \* runs begun, for the bound
  late,       \* observed: rows that came in after they were eligible
  exposed,    \* observed: a lease was written over another than the one that was read,
              \* or a run was at work when its lease had expired
  restarted   \* observed: a run started over from the first row

data == <<rows, late>>
store == <<objects, manifests>>
seen == <<exposed, restarted>>
vars == <<clock, data, lease, checkpoint, store, run, begun, seen>>

\* Observations, by their place in the order of (collected_at, id).
Rows == 1..NRows

ASSUME ArchiveConstants ==
  /\ CollectedAt \in [Rows -> Int]
  /\ \A r, q \in Rows : r < q => CollectedAt[r] <= CollectedAt[q]
  /\ {NRows, Eligibility, HotWindow, MaxClock, MaxRuns} \subseteq Nat
  /\ {LeaseTtl, PageSize, MaxRounds} \subseteq Nat \ {0}

\* A body is its rows and its archivedAt; its hash tells any two bodies apart.
Bodies == [rows : SUBSET Rows, at : 0..MaxClock]
\* batchId; the calendar day in a key only tells more batches apart and is left out.
Keys == [first : Rows, count : 1..PageSize, round : 1..MaxRounds]
NoBody == [rows |-> {}, at |-> 0]
NoKey == [first |-> 0, count |-> 0, round |-> 0]
NoLease == [owner |-> 0, expires |-> 0]
Bare(pc, now) == [pc |-> pc, now |-> now, read |-> NoLease, cursor |-> 0, round |-> 1,
                  page |-> {}, key |-> NoKey]
Nowhere == Bare("idle", 0)

Init ==
  /\ clock = 0 /\ late = {}
  /\ rows \in SUBSET {r \in Rows : CollectedAt[r] <= clock}
  /\ lease = NoLease
  /\ checkpoint = [cursor |-> 0, key |-> NoKey, body |-> NoBody]
  /\ objects = [k \in {} |-> NoBody] /\ manifests = [k \in {} |-> NoBody]
  /\ run = [w \in Workers |-> Nowhere] /\ begun = 0
  /\ exposed = FALSE /\ restarted = FALSE

At(w, pc) == run[w].pc = pc
Goes(w, change) == run' = [run EXCEPT ![w] = change]
\* Between the lease's acquisition and the end of its release.
Active(w) == run[w].pc \notin {"idle", "acquire"}
Leaving(w) == Bare("release", run[w].now)
-----------------------------------------------------------------------------
(* The lease *)

\* Mutant: a lease in its last tick may be taken over.
HeldBarely == lease.expires > clock + 1
Held == lease.expires > clock
\* The run takes its time and reads the lease; one that is held ends it here.
Start(w) ==
  /\ At(w, "idle") /\ begun < MaxRuns /\ ~Held
  /\ begun' = begun + 1
  /\ Goes(w, [Bare("acquire", clock) EXCEPT !.read = lease])
  /\ UNCHANGED <<clock, data, lease, checkpoint, store, seen>>

\* The upsert asks nothing of the row that it replaces.
Expired(w, t) == run[w].now + LeaseTtl <= t
\* Mutant: a term that is not a number is none.
TakeLeaseTermless(w) ==
  /\ At(w, "acquire")
  /\ lease' = [owner |-> run[w].now, expires |-> run[w].now]
  /\ exposed' = (exposed \/ lease # run[w].read \/ Expired(w, clock))
  /\ Goes(w, [run[w] EXCEPT !.pc = "checkpoint", !.read = NoLease])
  /\ UNCHANGED <<begun, clock, data, checkpoint, store, restarted>>
\* Mutant: the term counts from its end.
TakeLeaseTwice(w) ==
  /\ At(w, "acquire")
  /\ lease' = [owner |-> run[w].now, expires |-> run[w].now + LeaseTtl + LeaseTtl]
  /\ exposed' = (exposed \/ lease # run[w].read \/ Expired(w, clock))
  /\ Goes(w, [run[w] EXCEPT !.pc = "checkpoint", !.read = NoLease])
  /\ UNCHANGED <<begun, clock, data, checkpoint, store, restarted>>
TakeLease(w) ==
  /\ At(w, "acquire")
  /\ lease' = [owner |-> run[w].now, expires |-> run[w].now + LeaseTtl]
  /\ exposed' = (exposed \/ lease # run[w].read \/ Expired(w, clock))
  /\ Goes(w, [run[w] EXCEPT !.pc = "checkpoint", !.read = NoLease])
  /\ UNCHANGED <<begun, clock, data, checkpoint, store, restarted>>

\* releaseArchiveLease reads the holder ...
ReadHolder(w) ==
  /\ At(w, "release")
  /\ Goes(w, IF lease.owner = run[w].now THEN [run[w] EXCEPT !.pc = "free"] ELSE Nowhere)
  /\ UNCHANGED <<begun, clock, data, lease, checkpoint, store, seen>>

\* ... and then ends whatever lease is there.
FreeLease(w) ==
  /\ At(w, "free")
  /\ lease' = [lease EXCEPT !.expires = 0]
  /\ Goes(w, Nowhere)
  /\ UNCHANGED <<begun, clock, data, checkpoint, store, seen>>
-----------------------------------------------------------------------------
(* A run under the lease *)

\* readCheckpoint takes a failed read for an empty checkpoint; resetCheckpoint
\* and resume = false start over as well.
ReadCheckpoint(w) ==
  /\ At(w, "checkpoint")
  /\ \E cursor \in {checkpoint.cursor, 0} :
       /\ Goes(w, [run[w] EXCEPT !.pc = "page", !.cursor = cursor])
       /\ restarted' = (restarted \/ cursor # checkpoint.cursor)
  /\ UNCHANGED <<begun, clock, data, lease, checkpoint, store, exposed>>

\* Mutant: the row at the cursor is read again.
DueAtCursor(w) ==
  {r \in rows : CollectedAt[r] + Eligibility < run[w].now /\ r >= run[w].cursor}
\* archivePageSql: the first PageSize rows past the cursor and before the cutoff.
Due(w) == {r \in rows : CollectedAt[r] + Eligibility < run[w].now /\ r > run[w].cursor}
Page(w) == {r \in Due(w) : Cardinality({q \in Due(w) : q <= r}) <= PageSize}
\* Mutant: a batch is named by its first row alone.
KeyUncounted(w) == [first |-> Min(Page(w)), count |-> 1, round |-> run[w].round]
Key(w) == [first |-> Min(Page(w)), count |-> Cardinality(Page(w)), round |-> run[w].round]

ReadPage(w) ==
  /\ At(w, "page")
  /\ Goes(w, IF Page(w) = {} THEN Leaving(w)
             ELSE [run[w] EXCEPT !.pc = "object", !.page = Page(w), !.key = Key(w)])
  /\ UNCHANGED <<begun, clock, data, lease, checkpoint, store, seen>>

Body(w) == [rows |-> run[w].page, at |-> run[w].now]
Stored(f, k, body) == [j \in DOMAIN f \union {k} |-> IF j = k THEN body ELSE f[j]]

\* A put that fails, before or after it took effect, does not keep the manifest
\* from being put; the run ends after that.
PutObject(w) ==
  /\ At(w, "object")
  /\ \/ /\ objects' = Stored(objects, run[w].key, Body(w))
        /\ Goes(w, [run[w] EXCEPT !.pc = "manifest"])
     \/ /\ objects' \in {objects, Stored(objects, run[w].key, Body(w))}
        /\ Goes(w, [run[w] EXCEPT !.pc = "orphan"])
  /\ UNCHANGED <<begun, clock, data, lease, checkpoint, manifests, seen>>

PutManifest(w) ==
  /\ At(w, "manifest") \/ At(w, "orphan")
  /\ manifests' = Stored(manifests, run[w].key, Body(w))
  /\ Goes(w, IF At(w, "orphan") THEN Leaving(w) ELSE [run[w] EXCEPT !.pc = "readback"])
  /\ UNCHANGED <<begun, clock, data, lease, checkpoint, objects, seen>>

\* The stored body must have the hash of the one that was put, when verifyReadback is set.
Readback(w) ==
  /\ At(w, "readback")
  /\ \/ Goes(w, [run[w] EXCEPT !.pc = "advance"])
     \/ objects[run[w].key] # Body(w) /\ Goes(w, Leaving(w))
  /\ UNCHANGED <<begun, clock, data, lease, checkpoint, store, seen>>

\* A short page was the last one, and so is the last round's.
LastPage(w) == Cardinality(run[w].page) < PageSize \/ run[w].round = MaxRounds
Advance(w) ==
  LET cursor == Max(run[w].page) IN
  /\ At(w, "advance")
  /\ checkpoint' = [cursor |-> cursor, key |-> run[w].key, body |-> Body(w)]
  /\ Goes(w, IF LastPage(w) THEN Leaving(w)
             ELSE [run[w] EXCEPT !.pc = "page", !.cursor = cursor, !.round = @ + 1,
                                 !.page = {}, !.key = NoKey])
  /\ UNCHANGED <<begun, clock, data, lease, store, seen>>

\* A query or the manifest's put fails, before or after it took effect: finally
\* releases the lease.
Fail(w) ==
  /\ Active(w) /\ run[w].pc \notin {"object", "release", "free"}
  /\ Goes(w, Leaving(w))
  /\ UNCHANGED <<begun, clock, data, lease, checkpoint, store, seen>>

\* The worker is gone, or the lease's own queries fail: nobody releases anything.
Gone(w) ==
  /\ ~At(w, "idle")
  /\ Goes(w, Nowhere)
  /\ UNCHANGED <<begun, clock, data, lease, checkpoint, store, seen>>
-----------------------------------------------------------------------------
(* The world around it *)

\* persistNormalizedMarketObservation stores a row at its capture or later.
Insert(r) ==
  /\ r \notin rows /\ CollectedAt[r] <= clock
  /\ rows' = rows \union {r}
  /\ late' = IF CollectedAt[r] + Eligibility < clock THEN late \union {r} ELSE late
  /\ UNCHANGED <<clock, lease, checkpoint, store, run, begun, seen>>

Tick ==
  /\ clock < MaxClock
  /\ clock' = clock + 1
  /\ exposed' = (exposed \/ \E w \in Workers : Active(w) /\ Expired(w, clock'))
  /\ UNCHANGED <<data, lease, checkpoint, store, run, begun, restarted>>

Next ==
  \/ \E w \in Workers :
       \/ Start(w) \/ TakeLease(w) \/ ReadHolder(w) \/ FreeLease(w)
       \/ ReadCheckpoint(w) \/ ReadPage(w) \/ PutObject(w) \/ PutManifest(w)
       \/ Readback(w) \/ Advance(w) \/ Fail(w) \/ Gone(w)
  \/ \E r \in Rows : Insert(r)
  \/ Tick

Spec == Init /\ [][Next]_vars
-----------------------------------------------------------------------------
(* Properties *)

Leases == [owner : 0..MaxClock, expires : 0..MaxClock + LeaseTtl]
Evidence == [cursor : Rows \union {0}, key : Keys \union {NoKey}, body : Bodies]
Runs == [pc : {"idle", "acquire", "checkpoint", "page", "object", "manifest", "orphan",
               "readback", "advance", "release", "free"},
         now : 0..MaxClock, read : Leases, cursor : Rows \union {0}, round : 1..MaxRounds,
         page : SUBSET Rows, key : Keys \union {NoKey}]
TypeOK ==
  /\ clock \in 0..MaxClock /\ late \subseteq rows /\ rows \subseteq Rows
  /\ lease \in Leases /\ checkpoint \in Evidence
  /\ DOMAIN objects \subseteq Keys /\ DOMAIN manifests \subseteq Keys
  /\ \A k \in DOMAIN objects : objects[k] \in Bodies
  /\ \A k \in DOMAIN manifests : manifests[k] \in Bodies
  /\ run \in [Workers -> Runs]
  /\ begun \in 0..MaxRuns /\ exposed \in BOOLEAN /\ restarted \in BOOLEAN

\* The lease keeps runs apart for as long as nobody outlives it and no two of them
\* read it before either wrote it, whoever crashes or releases.
LeaseExcludes ==
  exposed \/ \A w, v \in Workers : Active(w) /\ Active(v) => w = v

Archived(r) == \E k \in DOMAIN objects : r \in objects[k].rows
Passed == {r \in rows : r <= checkpoint.cursor}
Orderly == ~exposed /\ ~restarted

\* What the cursor has passed is in R2 whatever writers race, die, lose their lease or
\* start over, as long as no row comes late; and late rows or not, when the runs kept apart.
PassedIsArchived ==
  Orderly \/ late = {} => \A r \in Passed \ late : Archived(r)

\* The evidence an idle run checks is there: the object that the checkpoint names has the
\* hash that the checkpoint and the object's manifest give.
CheckpointVerifies ==
  Orderly /\ checkpoint.cursor > 0 =>
    LET k == checkpoint.key IN
    k \in DOMAIN manifests /\ objects[k] = checkpoint.body /\ manifests[k] = checkpoint.body

\* The cursor goes back only when runs overlap or one starts over.
CursorAdvances == [][Orderly' => checkpoint'.cursor >= checkpoint.cursor]_vars

\* rehearseMarketHistoryRetirement: rows past the hot window and behind the cursor.
Cohort == {r \in Passed : CollectedAt[r] + HotWindow < clock}
CohortArchived == \A r \in Cohort : Archived(r)
=============================================================================
