---------------------------- MODULE BudgetPromise ----------------------------
(***************************************************************************)
(* What the account budget promises its owner, without policies, clocks,   *)
(* messages or workers: in each billing period, work identified by an id   *)
(* is charged once and for good against a dollar cap, starts after its     *)
(* charge and at most once, and uses no more units than it was charged.    *)
(***************************************************************************)
EXTENDS Integers

CONSTANTS Periods, Ids, Units, Stop
VARIABLES
  total,   \* period -> dollars charged
  charged, \* the <<period, id>> that are charged
  bound,   \* period -> id -> units charged
  started, \* the <<period, id>> whose work started
  used     \* period -> id -> units used

vars == <<total, charged, bound, started, used>>
None == [u \in Units |-> 0]

Init ==
  /\ total = [P \in Periods |-> 0]
  /\ charged = {} /\ started = {}
  /\ bound = [P \in Periods |-> [i \in Ids |-> None]]
  /\ used = [P \in Periods |-> [i \in Ids |-> None]]

\* g changes f only for id i of period P, to units g[P][i].
Sets(f, g, P, i) == g[P][i] \in [Units -> Nat] /\ g = [f EXCEPT ![P][i] = g[P][i]]

Charge(P, i) ==
  /\ <<P, i>> \notin charged
  /\ charged' = charged \union {<<P, i>>}
  /\ total'[P] \in (total[P] + 1)..Stop
  /\ total' = [total EXCEPT ![P] = total'[P]]
  /\ Sets(bound, bound', P, i)
  /\ UNCHANGED <<started, used>>

Start(P, i) ==
  /\ <<P, i>> \in charged \ started
  /\ started' = started \union {<<P, i>>}
  /\ UNCHANGED <<total, charged, bound, used>>

Use(P, i) ==
  /\ <<P, i>> \in started
  /\ Sets(used, used', P, i)
  /\ \A u \in Units : used[P][i][u] <= used'[P][i][u] /\ used'[P][i][u] <= bound[P][i][u]
  /\ UNCHANGED <<total, charged, bound, started>>

Next == \E P \in Periods, i \in Ids : Charge(P, i) \/ Start(P, i) \/ Use(P, i)

Spec == Init /\ [][Next]_vars
=============================================================================
