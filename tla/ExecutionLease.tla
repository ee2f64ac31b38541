---------------------------- MODULE ExecutionLease ----------------------------
(***************************************************************************)
(* What a job does with its lease (services/account-budget/execution.mjs): *)
(* the wrappers of its environment charge the lease and call a provider,   *)
(* many at once.  A call is charged before it is issued; the bytes of a    *)
(* response are charged as they come, those of an R2 object when its size  *)
(* is known.  Between two steps of a call the clock runs, other calls      *)
(* charge or stop the lease, and the worker may die.                       *)
(***************************************************************************)
EXTENDS AccountBudget

CONSTANTS Slots,    \* calls a job has under way at once
          Sizes,    \* sizes of R2 objects and of uploads
          MaxPart   \* bytes of the largest part a body comes in

VARIABLES call,     \* caller -> slot -> the call under way
          taken     \* observed: period -> id -> units the providers served at most; an
                    \* object counts in full once its body is handed on

callVars == <<call, taken>>

\* R2's head is a get that is answered without a body; list and delete, like put, are
\* charged when they are issued and have no body.
Kinds == {"fetch", "get", "put"}
\* pc: none, asked (issued, no answer), body (open), reading (a part awaited)
NoCall == [pc |-> "none", kind |-> "get", size |-> 0, received |-> 0]
Cost(f) == [u \in Units |-> Amount(f, u)]
Asking(kind, n) ==
  Cost(CASE kind = "fetch" -> [requests |-> 1]
         [] kind = "get" -> [r2Reads |-> 1]
         [] kind = "put" -> [r2Writes |-> 1, r2Bytes |-> n])
Bytes(kind, n) == Cost(IF kind = "fetch" THEN [responseBytes |-> n] ELSE [r2Bytes |-> n])

ASSUME LeaseConstants ==
  /\ Sizes \subseteq Nat /\ MaxPart \in Nat /\ IsFiniteSet(Slots)
  /\ \A kind \in Kinds, n \in Sizes : Asking(kind, n) \in Costs
  /\ \A kind \in Kinds, n \in Sizes \union 1..MaxPart : Bytes(kind, n) \in Costs

\* A charge the lease does not bear stops it.
SpendStops(c, cost) == ~(Live(c) /\ Fits(c, cost)) /\ LeaseStops(c)
Taken(c, cost) == taken' = [taken EXCEPT ![caller[c].period][caller[c].id] = Add(@, cost)]
Goes(c, k, next) == call' = [call EXCEPT ![c][k] = next]
Ends(c, k) == Goes(c, k, NoCall)
At(c, k, pc) == caller[c].pc = "running" /\ call[c][k].pc = pc

\* Mutant: the call is issued first.
AskUncharged(c, k, kind, n) ==
  LET cost == Asking(kind, n) IN
  /\ At(c, k, "none")
  /\ Spend(c, cost) \/ SpendStops(c, cost)
  /\ Taken(c, cost)
  /\ Goes(c, k, [NoCall EXCEPT !.pc = "asked", !.kind = kind])
\* A wrapper is called: it charges the lease and issues the call, or throws.
Ask(c, k, kind, n) ==
  LET cost == Asking(kind, n) IN
  /\ At(c, k, "none")
  /\ \/ /\ Spend(c, cost) /\ Taken(c, cost)
        /\ Goes(c, k, [NoCall EXCEPT !.pc = "asked", !.kind = kind])
     \/ SpendStops(c, cost) /\ UNCHANGED callVars

\* A wrapper, or executionEnv, does not approve of what it is asked.
Rejects(c) == LeaseStops(c) /\ UNCHANGED callVars

\* An answer without a body, a provider's error, and what R2 put and head return.
Answered(c, k) ==
  /\ At(c, k, "asked") /\ Ends(c, k)
  /\ UNCHANGED <<vars, taken>>

\* fetch: the response is handed on if the lease still lives and it is no stream.
Responds(c, k) ==
  /\ At(c, k, "asked") /\ call[c][k].kind = "fetch"
  /\ \/ /\ Live(c) /\ UNCHANGED vars
        /\ Goes(c, k, [call[c][k] EXCEPT !.pc = "body"])
     \/ LeaseStops(c) /\ Ends(c, k)
  /\ UNCHANGED taken

\* R2 get: the size of the object is charged before its body is handed on.
Finds(c, k, size) ==
  /\ At(c, k, "asked") /\ call[c][k].kind = "get"
  /\ \/ /\ Spend(c, Bytes("get", size)) /\ Taken(c, Bytes("get", size))
        /\ Goes(c, k, [call[c][k] EXCEPT !.pc = "body", !.size = size])
     \/ SpendStops(c, Bytes("get", size)) /\ Ends(c, k) /\ UNCHANGED taken
\* An object without a size is not read.
FindsUnsized(c, k) ==
  /\ At(c, k, "asked") /\ call[c][k].kind = "get"
  /\ LeaseStops(c) /\ Ends(c, k) /\ UNCHANGED taken

\* boundedBody: the reader asks for a part only while the lease lives.
Pull(c, k) ==
  /\ At(c, k, "body")
  /\ \/ /\ Live(c) /\ UNCHANGED vars
        /\ Goes(c, k, [call[c][k] EXCEPT !.pc = "reading"])
     \/ ~Live(c) /\ LeaseStops(c) /\ Ends(c, k)
  /\ UNCHANGED taken

\* A part of a response came: it is charged, or the lease stops and the body is cancelled.
ResponsePart(c, k, n) ==
  /\ At(c, k, "reading") /\ call[c][k].kind = "fetch"
  /\ Taken(c, Bytes("fetch", n))
  /\ \/ /\ Spend(c, Bytes("fetch", n))
        /\ Goes(c, k, [call[c][k] EXCEPT !.pc = "body"])
     \/ SpendStops(c, Bytes("fetch", n)) /\ Ends(c, k)

\* A part of an object came: its body must not be longer than the size that was charged.
ObjectPart(c, k, n) ==
  LET received == call[c][k].received + n IN
  /\ At(c, k, "reading") /\ call[c][k].kind = "get"
  /\ \/ /\ Live(c) /\ received <= call[c][k].size /\ UNCHANGED <<vars, taken>>
        /\ Goes(c, k, [call[c][k] EXCEPT !.pc = "body", !.received = received])
     \/ /\ ~(Live(c) /\ received <= call[c][k].size)
        /\ LeaseStops(c) /\ Taken(c, Bytes("get", n)) /\ Ends(c, k)

\* The body is at its end, fails or is cancelled by the job.
BodyEnds(c, k) ==
  /\ caller[c].pc = "running" /\ call[c][k].pc \in {"body", "reading"}
  /\ Ends(c, k) /\ UNCHANGED taken
  /\ \/ UNCHANGED vars
     \/ ~Live(c) /\ LeaseStops(c)

Calls(c) ==
  \E k \in Slots :
    \/ \E kind \in Kinds, n \in Sizes : Ask(c, k, kind, n)
    \/ Answered(c, k) \/ Responds(c, k) \/ FindsUnsized(c, k)
    \/ \E size \in Sizes : Finds(c, k, size)
    \/ Pull(c, k) \/ BodyEnds(c, k)
    \/ \E n \in 1..MaxPart : ResponsePart(c, k, n) \/ ObjectPart(c, k, n)

\* The calls of a job end with its worker.
Over(c) == End(c) /\ call' = [call EXCEPT ![c] = [k \in Slots |-> NoCall]] /\ UNCHANGED taken

Account ==
  \/ \E c \in Callers : \/ \E job \in Jobs, id \in Ids : Request(c, job, id)
                        \/ Grant(c) \/ GrantLost(c) \/ Refuse(c) \/ OpenLease(c)
  \/ \E p \in Policies : Redeploy(p)
  \/ Tick

CallInit ==
  /\ Init
  /\ call = [c \in Callers |-> [k \in Slots |-> NoCall]]
  /\ taken = [P \in Periods |-> [i \in Ids |-> Zero]]
CallNext ==
  \/ \E c \in Callers : Calls(c) \/ Rejects(c) \/ Over(c)
  \/ Account /\ UNCHANGED callVars
CallSpec == CallInit /\ [][CallNext]_<<vars, callVars>>
-----------------------------------------------------------------------------
\* The providers never serve a reservation more than it holds, except for the parts that
\* were under way when the lease stopped: one for each call (boundedBody, executionR2).
OnReceipt == {"responseBytes", "r2Bytes"}
Overdraft(u) == IF u \in OnReceipt THEN Cardinality(Slots) * MaxPart ELSE 0
TakenCovered ==
  \A P \in Periods, i \in Ids, u \in Units :
    taken[P][i][u] <= reservations[P][i].bounds[u] + Overdraft(u)
=============================================================================
