------------------------------ MODULE ShadowCopy ------------------------------
(***************************************************************************)
(* The shadow copy of one working table of a sport from the primary        *)
(* database into the database of that sport (sportWorkingCopy).  A pass    *)
(* copies pages of rows past a cursor; rows written behind the cursor are  *)
(* found by counting, rows rewritten in place by their latest timestamp,   *)
(* and either starts a replay from the first row that goes on over several *)
(* passes.  The cursor and the replay's marker are kept in the sport's     *)
(* database by writes that may be lost without notice; passes are cut      *)
(* short, overlap and are retried; the parity check counts both tables.    *)
(***************************************************************************)
EXTENDS Integers, FiniteSets, FiniteSetsExt

CONSTANTS
  Callers,   \* callers of copySportWorkingTables
  NRows,     \* ids there may be
  Tracked,   \* whether the table has a freshness column
  PageSize,  \* LIMIT of a page query
  MaxPages,  \* pages of one pass
  BatchSize, \* statements of one write: 1 for games, 40 in a D1 batch
  MaxWrites, \* bound of the model's writes to the primary
  MaxFaults  \* bound of the model's lost calls, stopped passes and rescans

VARIABLES
  primary,    \* the primary's table: id -> timestamp of its last write, 0 if absent
  shard,      \* the sport's table: id -> timestamp of the content it has
  cursor,     \* meta row copy_cursor_<table>
  replay,     \* meta row copy_replay_active_<table>
  job,        \* where the pass of each caller is
  audit,      \* a parity check between its two counts
  faults,     \* calls lost, passes stopped and rescans, for the bound
  overlapped, \* observed: two of the passes and checks ran at once; and until then,
  kept,       \*   whether a replay went on from the old cursor, its reset being lost,
  due,        \*   the primary when the replay under way began,
  receipt     \*   the ids counted by the last parity check that matched

tables == <<primary, shard>>
meta == <<cursor, replay>>
seen == <<overlapped, kept, due, receipt>>
vars == <<tables, meta, job, audit, faults, seen>>

\* Ids, by their order.
Rows == 1..NRows

ASSUME CopyConstants ==
  /\ {NRows, MaxWrites, MaxFaults} \subseteq Nat
  /\ {PageSize, MaxPages, BatchSize} \subseteq Nat \ {0}
  /\ Tracked \in BOOLEAN

Stamps == 0..MaxWrites
Empty == [r \in Rows |-> 0]
Held(table) == {r \in Rows : table[r] > 0}
Latest(table) == Max({table[r] : r \in Rows} \union {0})
\* A number that was not read yet, and null.
Unread == -2
Null == -1
Idle == [pc |-> "idle", cursor |-> 0, replay |-> FALSE, n |-> Unread, m |-> Unread,
         page |-> Empty, pages |-> 0, end |-> "more"]
NoAudit == [open |-> FALSE, n |-> 0, rows |-> {}]

Init ==
  /\ primary = Empty /\ shard = Empty
  /\ cursor = 0 /\ replay = FALSE
  /\ job = [w \in Callers |-> Idle]
  /\ audit = NoAudit /\ receipt = {} /\ faults = 0
  /\ overlapped = FALSE /\ kept = FALSE /\ due = Empty

At(w, pc) == job[w].pc = pc
Goes(w, change) == job' = [job EXCEPT ![w] = change]
Faulty(bad) == IF bad THEN faults < MaxFaults /\ faults' = faults + 1 ELSE UNCHANGED faults
Running == audit.open \/ \E w \in Callers : ~At(w, "idle")
\* A pass or a check begins: what is observed ends when it is not alone.
Begins ==
  IF Running THEN overlapped' = TRUE /\ kept' = FALSE /\ due' = Empty /\ receipt' = {}
  ELSE UNCHANGED seen
-----------------------------------------------------------------------------
(* The plan of a pass: beginSportWorkingCopy *)

\* A meta row that cannot be read is taken for one that is not there.
Start(w) ==
  /\ At(w, "idle")
  /\ \E c \in {cursor, 0} :
       /\ Faulty(c # cursor)
       /\ Goes(w, [Idle EXCEPT !.pc = "marker", !.cursor = c])
  /\ Begins
  /\ UNCHANGED <<tables, meta, audit>>

\* resume = false: from the first row, whatever the meta rows say.
Rescan(w) ==
  /\ At(w, "idle") /\ Faulty(TRUE)
  /\ Goes(w, [Idle EXCEPT !.pc = "page"])
  /\ Begins
  /\ UNCHANGED <<tables, meta, audit>>

ReadMarker(w) ==
  /\ At(w, "marker")
  /\ \E b \in {replay, FALSE} :
       /\ Faulty(b # replay)
       /\ Goes(w, [job[w] EXCEPT !.pc = "count", !.replay = b])
  /\ UNCHANGED <<tables, meta, audit, seen>>

\* Mutant: a replay under way starts over.
BehindAlways(j) == j.m # Null /\ j.n > j.m
\* Fewer rows than the primary's, or an older latest row.
Behind(j) == ~j.replay /\ j.m # Null /\ j.n > j.m
\* Equal counts say nothing of rows rewritten in place.
Alike(j) == j.pc = "count" /\ Tracked /\ ~j.replay /\ j.n = j.m
\* planSportShadowCursorRecovery and the freshness check, when both numbers are known.
Planned(j) ==
  IF Unread \in {j.n, j.m} THEN j
  ELSE LET known == [j EXCEPT !.n = Unread, !.m = Unread] IN
       IF Behind(j) THEN [known EXCEPT !.pc = "rewind", !.cursor = 0, !.replay = TRUE]
       ELSE IF Alike(j) THEN [known EXCEPT !.pc = "fresh"]
       ELSE [known EXCEPT !.pc = "page"]

\* COUNT(*), which is null when it fails, or the latest timestamp; in either order.
Number(w, table) == IF At(w, "count") THEN Cardinality(Held(table)) ELSE Latest(table)
ReadPrimary(w) ==
  /\ At(w, "count") \/ At(w, "fresh")
  /\ job[w].n = Unread
  /\ \/ UNCHANGED faults /\ Goes(w, Planned([job[w] EXCEPT !.n = Number(w, primary)]))
     \/ At(w, "count") /\ Faulty(TRUE) /\ Goes(w, Planned([job[w] EXCEPT !.n = Null]))
  /\ UNCHANGED <<tables, meta, audit, seen>>
ReadShard(w) ==
  /\ At(w, "count") \/ At(w, "fresh")
  /\ job[w].m = Unread
  /\ \/ UNCHANGED faults /\ Goes(w, Planned([job[w] EXCEPT !.m = Number(w, shard)]))
     \/ At(w, "count") /\ Faulty(TRUE) /\ Goes(w, Planned([job[w] EXCEPT !.m = Null]))
  /\ UNCHANGED <<tables, meta, audit, seen>>

\* Both markers go in before anything is copied; metaSet swallows what fails.
Rewind(w) ==
  /\ At(w, "rewind")
  /\ Goes(w, [job[w] EXCEPT !.pc = "mark"])
  /\ due' = IF overlapped THEN due ELSE primary
  /\ \E c \in {cursor, 0} :
       cursor' = c /\ Faulty(c # 0) /\ kept' = (~overlapped /\ c # 0)
  /\ UNCHANGED <<tables, replay, audit, overlapped, receipt>>
Mark(w) ==
  /\ At(w, "mark")
  /\ Goes(w, [job[w] EXCEPT !.pc = "page"])
  /\ \E b \in {replay, TRUE} : replay' = b /\ Faulty(~b)
  /\ UNCHANGED <<tables, cursor, audit, seen>>
-----------------------------------------------------------------------------
(* The pages of a pass: copyGamesPaged, copyPredictionsPaged *)

First(S, k) == {r \in S : Cardinality({q \in S : q <= r}) <= k}
Page(w) == First({r \in Held(primary) : r > job[w].cursor}, PageSize)
\* Mutant: a pass that was cut has come to the end.
EndCut(w) ==
  IF Cardinality(Page(w)) < PageSize \/ job[w].pages + 1 = MaxPages THEN "exhausted" ELSE "more"
\* Mutant: one page more than a pass may have.
EndLate(w) ==
  IF Cardinality(Page(w)) < PageSize THEN "exhausted"
  ELSE IF job[w].pages = MaxPages THEN "cut" ELSE "more"
\* An empty page and a short one were the last; a full one may end the pass.
End(w) ==
  IF Cardinality(Page(w)) < PageSize THEN "exhausted"
  ELSE IF job[w].pages + 1 = MaxPages THEN "cut" ELSE "more"

ReadPage(w) ==
  /\ At(w, "page")
  /\ Goes(w, [job[w] EXCEPT !.pc = IF Page(w) = {} THEN "finish" ELSE "put",
                            !.page = [r \in Rows |-> IF r \in Page(w) THEN primary[r] ELSE 0],
                            !.end = End(w)])
  /\ UNCHANGED <<tables, meta, audit, faults, seen>>

\* The cursor moves when all of the page is there.
Batch(w) == First(Held(job[w].page), BatchSize)
Put(w) ==
  LET rest == [r \in Rows |-> IF r \in Batch(w) THEN 0 ELSE job[w].page[r]] IN
  /\ At(w, "put")
  /\ shard' = [r \in Rows |-> IF r \in Batch(w) THEN job[w].page[r] ELSE shard[r]]
  /\ Goes(w, IF rest # Empty THEN [job[w] EXCEPT !.page = rest]
             ELSE [job[w] EXCEPT !.pc = IF job[w].end = "more" THEN "page" ELSE "finish",
                                 !.page = rest, !.cursor = Max(Batch(w)), !.pages = @ + 1])
  /\ UNCHANGED <<primary, meta, audit, faults, seen>>

\* finishSportWorkingCopy: the cursor, and the end of a replay that came to the last row.
Finish(w) ==
  /\ At(w, "finish")
  /\ \/ job[w].cursor = 0 /\ UNCHANGED <<cursor, faults>>
     \/ /\ job[w].cursor > 0
        /\ \E c \in {cursor, job[w].cursor} : cursor' = c /\ Faulty(c # job[w].cursor)
  /\ Goes(w, IF job[w].replay /\ job[w].end = "exhausted" THEN [job[w] EXCEPT !.pc = "clear"]
             ELSE Idle)
  /\ UNCHANGED <<tables, replay, audit, seen>>
Clear(w) ==
  /\ At(w, "clear")
  /\ Goes(w, Idle)
  /\ \E b \in {replay, FALSE} :
       /\ replay' = b /\ Faulty(b)
       /\ due' = IF b THEN due ELSE Empty
  /\ UNCHANGED <<tables, cursor, audit, overlapped, kept, receipt>>

\* A query throws, or the function is stopped: what was written stays.
Stop(w) ==
  /\ ~At(w, "idle") /\ Faulty(TRUE)
  /\ Goes(w, Idle)
  /\ UNCHANGED <<tables, meta, audit, seen>>
-----------------------------------------------------------------------------
(* verifySportWorkingParity and the writers of the primary *)

CountPrimary ==
  /\ ~audit.open
  /\ \E n \in {Cardinality(Held(primary)), Null} :
       /\ Faulty(n = Null)
       /\ audit' = [open |-> TRUE, n |-> n, rows |-> Held(primary)]
  /\ Begins
  /\ UNCHANGED <<tables, meta, job>>

\* Mutant: a count that fails is 0.
MatchesZero(n, m) == LET known(x) == IF x = Null THEN 0 ELSE x IN known(n) = known(m)
\* A count that failed equals nothing, another that failed included.
Matches(n, m) == n # Null /\ m # Null /\ n = m
CountShard ==
  /\ audit.open /\ audit' = NoAudit
  /\ \E m \in {Cardinality(Held(shard)), Null} :
       /\ Faulty(m = Null)
       /\ receipt' = IF Matches(audit.n, m) /\ ~overlapped THEN audit.rows ELSE receipt
  /\ UNCHANGED <<tables, meta, job, overlapped, kept, due>>

\* A row is inserted, anywhere in the order of ids, or rewritten in place.
Write(r) ==
  /\ Latest(primary) < MaxWrites
  /\ primary' = [primary EXCEPT ![r] = Latest(primary) + 1]
  /\ UNCHANGED <<shard, meta, job, audit, faults, seen>>

Copy(w) ==
  \/ Start(w) \/ ReadMarker(w) \/ ReadPrimary(w) \/ ReadShard(w) \/ Rewind(w) \/ Mark(w)
  \/ ReadPage(w) \/ Put(w) \/ Finish(w) \/ Clear(w)
Next ==
  \/ \E w \in Callers : Copy(w) \/ Rescan(w) \/ Stop(w)
  \/ CountPrimary \/ CountShard
  \/ \E r \in Rows : Write(r)

\* The sync is scheduled again and again, and a request goes on unless it stops.
Spec == Init /\ [][Next]_vars /\ WF_vars(\E w \in Callers : Copy(w))
-----------------------------------------------------------------------------
(* Properties *)

Tables == [Rows -> Stamps]
Numbers == Nat \union {Unread, Null}
Jobs == [pc : {"idle", "marker", "count", "fresh", "rewind", "mark", "page", "put",
               "finish", "clear"},
         cursor : Rows \union {0}, replay : BOOLEAN, n : Numbers, m : Numbers,
         page : Tables, pages : 0..MaxPages, end : {"more", "cut", "exhausted"}]
TypeOK ==
  /\ primary \in Tables /\ shard \in Tables /\ due \in Tables
  /\ cursor \in Rows \union {0} /\ replay \in BOOLEAN
  /\ job \in [Callers -> Jobs]
  /\ audit \in [open : BOOLEAN, n : Nat \union {Null}, rows : SUBSET Rows]
  /\ receipt \subseteq Rows /\ faults \in 0..MaxFaults
  /\ overlapped \in BOOLEAN /\ kept \in BOOLEAN

\* Equal counts mean that every row counted has a copy, if nothing else ran meanwhile:
\* parity is checked by numbers alone, of two tables and at two times.
ParityIsWhole == ~overlapped => receipt \subseteq Held(shard)

\* A replay ends only when what the primary had when it began is copied, or something newer,
\* over however many passes, stopped or not, over a marker that is lost, misread or left
\* behind and rescans in between, if passes did not overlap and the cursor was reset.
ReplayCovers ==
  [][replay /\ ~replay' /\ ~overlapped /\ ~kept => \A r \in Rows : shard[r] >= due[r]]_vars

\* However late a row is written, whichever calls are lost, whatever overlaps: every row
\* of the primary gets a copy.
RowsArrive == <>[](Held(primary) \subseteq Held(shard))
=============================================================================
