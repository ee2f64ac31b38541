---------------------------- MODULE SingleWriter -----------------------------
(***************************************************************************)
(* What the archive serializer promises: one writer at a time, every       *)
(* operation id used once, and the right to write passed on only by an     *)
(* operation that finished; one that did not keeps it for good.            *)
(***************************************************************************)
CONSTANT Ids
VARIABLES holder, used, finished

vars == <<holder, used, finished>>

Init == holder = {} /\ used = {} /\ finished = {}

Acquire(id) ==
  /\ holder = {} /\ id \notin used
  /\ holder' = {id} /\ used' = used \union {id}
  /\ UNCHANGED finished

Finish(id) ==
  /\ holder = {id}
  /\ holder' = {} /\ finished' = finished \union {id}
  /\ UNCHANGED used

Next == \E id \in Ids : Acquire(id) \/ Finish(id)
Spec == Init /\ [][Next]_vars
=============================================================================
