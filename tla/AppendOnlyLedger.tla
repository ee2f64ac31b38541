--------------------------- MODULE AppendOnlyLedger ---------------------------
(***************************************************************************)
(* What prediction_snapshots promises of one game: a row is frozen once    *)
(* and its forecast stays; finals are appended to rows that have none; a   *)
(* final changes only by a correction that was ordered; an exclusion is    *)
(* for good.                                                               *)
(***************************************************************************)
CONSTANTS Checkpoints, None
VARIABLES rows,      \* checkpoint -> None or [forecast, at, final, excluded]
          ordered    \* finals of the corrections that are under way

vars == <<rows, ordered>>

Init == rows = [c \in Checkpoints |-> None] /\ ordered = {}

Order == UNCHANGED rows
Freeze(c, row) ==
  /\ rows[c] = None /\ row # None /\ ~row.excluded
  /\ rows' = [rows EXCEPT ![c] = row]
  /\ UNCHANGED ordered
Attach(graded, final) ==
  /\ \A c \in graded : rows[c] # None /\ rows[c].final = None
  /\ rows' = [c \in Checkpoints |-> IF c \in graded THEN [rows[c] EXCEPT !.final = final] ELSE rows[c]]
  /\ UNCHANGED ordered
Correct(final) ==
  /\ final \in ordered
  /\ rows' = [c \in Checkpoints |-> IF rows[c] = None THEN None ELSE [rows[c] EXCEPT !.final = final]]
Exclude(gone) ==
  /\ \A c \in gone : rows[c] # None
  /\ rows' = [c \in Checkpoints |-> IF c \in gone THEN [rows[c] EXCEPT !.excluded = TRUE] ELSE rows[c]]
  /\ UNCHANGED ordered

Next ==
  \/ Order
  \/ \E c \in Checkpoints : Freeze(c, rows'[c])
  \/ \E graded \in SUBSET Checkpoints : \E c \in graded : Attach(graded, rows'[c].final)
  \/ \E final \in ordered : Correct(final)
  \/ \E gone \in SUBSET Checkpoints : Exclude(gone)
Spec == Init /\ [][Next]_vars
=============================================================================
