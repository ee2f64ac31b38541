------------------------- MODULE ArchiveSerialization -------------------------
(***************************************************************************)
(* The archive's single-writer primitive (archiveSerialization.mjs): a     *)
(* durable claim, external work outside any transaction, a completion that *)
(* needs a verified receipt, and a lock that no failure ever releases.     *)
(* Hosts crash anywhere; a storage transaction may fail, or commit without *)
(* its caller learning of it.                                              *)
(***************************************************************************)
EXTENDS Integers, FiniteSets

CONSTANTS
  Hosts,        \* workers that call serializeArchive
  Ids,          \* operation ids
  Intents,      \* intentSha256: plan and destination of an operation
  MaxOperations \* MAX_ARCHIVE_OPERATIONS

VARIABLES
  active,    \* ACTIVE: the lock, phase "free" when it is null
  operation, \* PREFIX + id: the ledger of operations, phase "none" when absent
  count,     \* COUNT
  host,      \* where each call of serializeArchive is
  runs       \* observed: how often the work of an operation was started

serialVars == <<active, operation, count, host, runs>>

ASSUME SerialConstants == MaxOperations \in Nat /\ Ids # {} /\ Intents # {}

Someone == CHOOSE id \in Ids : TRUE
Something == CHOOSE n \in Intents : TRUE
Free == [id |-> Someone, intent |-> Something, phase |-> "free"]
NoOperation == [phase |-> "none", intent |-> Something]
Away == [pc |-> "idle", id |-> Someone, intent |-> Something]

SerialInit ==
  /\ active = Free
  /\ operation = [id \in Ids |-> NoOperation]
  /\ count = 0
  /\ host = [h \in Hosts |-> Away]
  /\ runs = [id \in Ids |-> 0]

\* Mutants: only an unresolved operation is a replay; only a running writer is busy.
NotReplayOfUnresolved(id) == operation[id].phase \notin {"running", "uncertain"}
NobodyRunning == active.phase # "running"
NotReplay(id) == operation[id].phase = "none"
NobodyWriting == active.phase = "free"

Recorded(id, intent) ==
  /\ operation' = [operation EXCEPT ![id] = [phase |-> "running", intent |-> intent]]
  /\ active' = [id |-> id, intent |-> intent, phase |-> "running"]
  /\ count' = count + 1

\* Mutant: the lock is kept for one plan and destination, not for the account.
CommitClaimPerIntent(id, intent) ==
  /\ NotReplay(id) /\ (NobodyWriting \/ active.intent # intent) /\ count < MaxOperations
  /\ Recorded(id, intent)
\* Mutant: the ledger may outgrow its limit by one.
CommitClaimPastLimit(id, intent) ==
  /\ NotReplay(id) /\ NobodyWriting /\ count <= MaxOperations
  /\ Recorded(id, intent)
\* The claim: replay, lock and ledger size are checked and written in one transaction.
CommitClaim(id, intent) ==
  /\ NotReplay(id) /\ NobodyWriting /\ count < MaxOperations
  /\ Recorded(id, intent)

Claim(h, id, intent) ==
  /\ host[h].pc = "idle"
  /\ CommitClaim(id, intent)
  /\ host' = [host EXCEPT ![h] = [pc |-> "running", id |-> id, intent |-> intent]]
  /\ runs' = [runs EXCEPT ![id] = @ + 1]

\* The claim commits but its caller is gone, or sees the transaction fail: the
\* work is never started and the lock stays.
ClaimUnanswered(h, id, intent) ==
  /\ host[h].pc = "idle"
  /\ CommitClaim(id, intent)
  /\ UNCHANGED <<host, runs>>

\* run() returns a verified receipt and the clock did not go back ...
RunReturns(h) ==
  /\ host[h].pc = "running"
  /\ host' = [host EXCEPT ![h].pc = "finishing"]
  /\ UNCHANGED <<active, operation, count, runs>>

\* ... or the work, the receipt, the clock or the completion's transaction fails.
Fails(h) ==
  /\ host[h].pc \in {"running", "finishing"}
  /\ host' = [host EXCEPT ![h].pc = "failed"]
  /\ UNCHANGED <<active, operation, count, runs>>

\* What both later transactions check: the lock and the ledger still name this call.
\* Mutant: only the intent recorded for the operation is compared.
OwnsIntent(h) == operation[host[h].id].intent = host[h].intent
Owns(h) ==
  /\ active.phase # "free" /\ active.id = host[h].id /\ active.intent = host[h].intent
  /\ operation[host[h].id].phase = "running"

CommitCompletion(h) ==
  /\ Owns(h) /\ active.phase = "running" /\ operation[host[h].id].intent = host[h].intent
  /\ operation' = [operation EXCEPT ![host[h].id].phase = "completed"]
  /\ active' = Free

\* serializeArchive returns the result ...
Complete(h) ==
  /\ host[h].pc = "finishing"
  /\ CommitCompletion(h)
  /\ host' = [host EXCEPT ![h] = Away]
  /\ UNCHANGED <<count, runs>>

\* ... or the completion commits and its transaction still throws: catch runs.
CompleteUnanswered(h) ==
  /\ host[h].pc = "finishing"
  /\ CommitCompletion(h)
  /\ host' = [host EXCEPT ![h].pc = "failed"]
  /\ UNCHANGED <<count, runs>>

\* Mutant: a failure gives the lock back.
MarkUncertainUnlocking(h) ==
  /\ host[h].pc = "failed"
  /\ Owns(h)
  /\ operation' = [operation EXCEPT ![host[h].id].phase = "uncertain"]
  /\ active' = Free
  /\ host' = [host EXCEPT ![h] = Away]
  /\ UNCHANGED <<count, runs>>

\* The catch block: the operation and the lock become uncertain; nothing is released.
MarkUncertain(h) ==
  /\ host[h].pc = "failed"
  /\ Owns(h)
  /\ operation' = [operation EXCEPT ![host[h].id].phase = "uncertain"]
  /\ active' = [id |-> host[h].id, intent |-> operation[host[h].id].intent,
                phase |-> "uncertain"]
  /\ host' = [host EXCEPT ![h] = Away]
  /\ UNCHANGED <<count, runs>>

\* The host dies, or the catch block's transaction fails or has nothing to mark:
\* nothing is written.
Gone(h) ==
  /\ host[h].pc # "idle"
  /\ host' = [host EXCEPT ![h] = Away]
  /\ UNCHANGED <<active, operation, count, runs>>

SerialNext ==
  \E h \in Hosts :
    \/ \E id \in Ids, intent \in Intents : Claim(h, id, intent) \/ ClaimUnanswered(h, id, intent)
    \/ RunReturns(h) \/ Fails(h)
    \/ Complete(h) \/ CompleteUnanswered(h)
    \/ MarkUncertain(h) \/ Gone(h)

SerialSpec == SerialInit /\ [][SerialNext]_serialVars
-----------------------------------------------------------------------------
SerialTypeOK ==
  /\ active \in [id : Ids, intent : Intents, phase : {"free", "running", "uncertain"}]
  /\ operation \in [Ids ->
        [phase : {"none", "running", "uncertain", "completed"}, intent : Intents]]
  /\ count \in 0..MaxOperations
  /\ host \in [Hosts ->
        [pc : {"idle", "running", "finishing", "failed"}, id : Ids, intent : Intents]]
  /\ runs \in [Ids -> Nat]

\* External archive work is exclusive: from its claim until it completes or fails, no
\* other host works, and the durable lock names this one.  (A catch block may run later,
\* after a completion that went unanswered, when the lock is free or another's.)
Working(h) == host[h].pc \in {"running", "finishing"}
OneWriter ==
  /\ \A h, k \in Hosts : Working(h) /\ Working(k) => h = k
  /\ \A h \in Hosts : Working(h) => active = [id |-> host[h].id, intent |-> host[h].intent,
                                             phase |-> "running"]

\* The lock and the ledger of operations never disagree, although they are written
\* under different keys and by a catch block that may run after the completion: an
\* operation is unresolved exactly when the lock is its own, in the same phase.
LockMatchesLedger ==
  /\ \A id \in Ids : operation[id].phase \in {"running", "uncertain"} <=>
                       active.phase # "free" /\ active.id = id
  /\ active.phase # "free" =>
       operation[active.id] = [phase |-> active.phase, intent |-> active.intent]
  /\ count = Cardinality({id \in Ids : operation[id].phase # "none"})

\* Work is never repeated under an operation id, in whatever way it ended.
RunsOnce == \A id \in Ids : runs[id] <= 1

\* What an operation came to is final: completed and uncertain records stay, and
\* the lock is released only by the completion of the operation that holds it.
FinalStep ==
  /\ \A id \in Ids : operation[id].phase \in {"completed", "uncertain"} =>
                       operation'[id] = operation[id]
  /\ active.phase # "free" /\ active' # active =>
       \/ active' = [active EXCEPT !.phase = "uncertain"] /\ active.phase = "running"
       \/ active' = Free /\ operation'[active.id].phase = "completed"
OutcomesFinal == [][FinalStep]_serialVars

\* The serializer implements the single-writer promise.
Promise == INSTANCE SingleWriter WITH
  holder <- IF active.phase = "free" THEN {} ELSE {active.id},
  used <- {id \in Ids : operation[id].phase # "none"},
  finished <- {id \in Ids : operation[id].phase = "completed"}
SingleWriting == Promise!Spec
=============================================================================
