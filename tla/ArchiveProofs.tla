---------------------------- MODULE ArchiveProofs ----------------------------
(* Proofs about ArchiveSerialization, for any hosts, operations and intents. *)
EXTENDS ArchiveSerialization, FiniteSetTheorems, TLAPS

Claimed == {id \in Ids : operation[id].phase # "none"}

\* A host in a call works on an operation of its own that the ledger holds.
HostOK(h) ==
  host[h].pc # "idle" =>
    /\ operation[host[h].id].phase # "none"
    /\ operation[host[h].id].intent = host[h].intent
    /\ \A k \in Hosts \ {h} : host[k].pc # "idle" => host[k].id # host[h].id
LockOK(h) ==
  Working(h) => active = [id |-> host[h].id, intent |-> host[h].intent, phase |-> "running"]
RunsOK(id) == runs[id] <= 1 /\ (operation[id].phase = "none" => runs[id] = 0)

SerialInv ==
  /\ SerialTypeOK
  /\ IsFiniteSet(Claimed)
  /\ LockMatchesLedger
  /\ \A h \in Hosts : HostOK(h) /\ LockOK(h)
  /\ \A id \in Ids : RunsOK(id)

LEMMA ChosenType == Someone \in Ids /\ Something \in Intents
  BY SerialConstants DEF Someone, Something

LEMMA SerialInitInv == SerialInit => SerialInv
  <1> SUFFICES ASSUME SerialInit PROVE SerialInv
    OBVIOUS
  <1>1. SerialTypeOK
    BY ChosenType, SerialConstants DEF SerialInit, SerialTypeOK, Free, NoOperation, Away
  <1>2. Claimed = {}
    BY DEF SerialInit, Claimed, NoOperation
  <1>3. IsFiniteSet(Claimed) /\ Cardinality(Claimed) = 0
    BY <1>2, FS_EmptySet
  <1>4. LockMatchesLedger
    BY <1>3 DEF SerialInit, LockMatchesLedger, Claimed, NoOperation, Free
  <1>5. \A h \in Hosts : HostOK(h) /\ LockOK(h)
    BY DEF SerialInit, HostOK, LockOK, Working, Away
  <1>6. \A id \in Ids : RunsOK(id)
    BY DEF SerialInit, RunsOK
  <1>7. QED
    BY <1>1, <1>3, <1>4, <1>5, <1>6 DEF SerialInv

\* A committed claim was of a free lock and a fresh id, and takes both.
LEMMA ClaimEffect ==
  ASSUME SerialInv, NEW id \in Ids, NEW intent \in Intents, CommitClaim(id, intent)
  PROVE  /\ operation[id].phase = "none" /\ active.phase = "free"
         /\ operation'[id] = [phase |-> "running", intent |-> intent]
         /\ \A i \in Ids \ {id} : operation'[i] = operation[i]
         /\ active' = [id |-> id, intent |-> intent, phase |-> "running"]
         /\ count' \in 0..MaxOperations
         /\ operation' \in [Ids ->
               [phase : {"none", "running", "uncertain", "completed"}, intent : Intents]]
         /\ IsFiniteSet(Claimed)' /\ LockMatchesLedger'
  <1>1. /\ operation[id].phase = "none" /\ active.phase = "free" /\ count < MaxOperations
        /\ operation' = [operation EXCEPT ![id] = [phase |-> "running", intent |-> intent]]
        /\ active' = [id |-> id, intent |-> intent, phase |-> "running"]
        /\ count' = count + 1
    BY DEF CommitClaim, Recorded, NotReplay, NobodyWriting
  <1>2. /\ operation'[id] = [phase |-> "running", intent |-> intent]
        /\ \A i \in Ids \ {id} : operation'[i] = operation[i]
        /\ operation' \in [Ids ->
              [phase : {"none", "running", "uncertain", "completed"}, intent : Intents]]
    BY <1>1 DEF SerialInv, SerialTypeOK
  <1>3. id \notin Claimed /\ Claimed' = Claimed \union {id}
    BY <1>1, <1>2 DEF Claimed
  <1>4. /\ IsFiniteSet(Claimed)' /\ Cardinality(Claimed') = Cardinality(Claimed) + 1
    BY <1>3, FS_AddElement DEF SerialInv
  <1>5. count = Cardinality(Claimed) /\ \A i \in Ids : operation[i].phase \notin {"running", "uncertain"}
    BY <1>1 DEF SerialInv, LockMatchesLedger, Claimed
  <1>6. count' = Cardinality(Claimed')
    BY <1>1, <1>4, <1>5
  <1>7. \A i \in Ids : operation'[i].phase \in {"running", "uncertain"} <=>
                         active'.phase # "free" /\ active'.id = i
    BY <1>1, <1>2, <1>5
  <1>8. operation'[active'.id] = [phase |-> active'.phase, intent |-> active'.intent]
    BY <1>1, <1>2
  <1>9. LockMatchesLedger'
    BY <1>6, <1>7, <1>8 DEF LockMatchesLedger, Claimed
  <1>10. count' \in 0..MaxOperations
    BY <1>1, SerialConstants DEF SerialInv, SerialTypeOK
  <1>11. QED
    BY <1>1, <1>2, <1>4, <1>9, <1>10

\* A committed completion was of the host's own running operation, and frees the lock.
LEMMA CompletionEffect ==
  ASSUME SerialInv, NEW h \in Hosts, CommitCompletion(h), UNCHANGED count
  PROVE  /\ host[h].id \in Ids
         /\ operation[host[h].id].phase = "running" /\ active.phase = "running"
         /\ active.id = host[h].id
         /\ operation'[host[h].id] = [operation[host[h].id] EXCEPT !.phase = "completed"]
         /\ \A i \in Ids \ {host[h].id} : operation'[i] = operation[i]
         /\ active' = Free
         /\ operation' \in [Ids ->
               [phase : {"none", "running", "uncertain", "completed"}, intent : Intents]]
         /\ Claimed' = Claimed /\ LockMatchesLedger'
  <1> DEFINE id == host[h].id
  <1>1. /\ id \in Ids /\ operation[id].phase = "running" /\ active.phase = "running" /\ active.id = id
        /\ operation' = [operation EXCEPT ![id].phase = "completed"]
        /\ active' = Free
    BY DEF CommitCompletion, Owns, SerialInv, SerialTypeOK
  <1>2. /\ operation'[id] = [operation[id] EXCEPT !.phase = "completed"]
        /\ \A i \in Ids \ {id} : operation'[i] = operation[i]
        /\ operation' \in [Ids ->
              [phase : {"none", "running", "uncertain", "completed"}, intent : Intents]]
    BY <1>1 DEF SerialInv, SerialTypeOK
  <1>3. operation[id] \in [phase : {"none", "running", "uncertain", "completed"}, intent : Intents]
    BY <1>1 DEF SerialInv, SerialTypeOK
  <1>4. operation'[id].phase = "completed"
    BY <1>2, <1>3
  <1>5. Claimed' = Claimed
    BY <1>1, <1>2, <1>4 DEF Claimed
  <1>6. \A i \in Ids : operation'[i].phase \notin {"running", "uncertain"}
    BY <1>1, <1>2, <1>4 DEF SerialInv, LockMatchesLedger
  <1>7. active'.phase = "free"
    BY <1>1 DEF Free
  <1>8. count' = Cardinality(Claimed')
    BY <1>5 DEF SerialInv, LockMatchesLedger, Claimed
  <1>9. LockMatchesLedger'
    BY <1>6, <1>7, <1>8 DEF LockMatchesLedger, Claimed
  <1>10. QED
    BY <1>1, <1>2, <1>5, <1>9

\* Marking its operation uncertain, a host changes the phase of lock and ledger only.
LEMMA UncertainEffect ==
  ASSUME SerialInv, NEW h \in Hosts, MarkUncertain(h)
  PROVE  /\ host[h].id \in Ids
         /\ operation[host[h].id].phase = "running" /\ active.phase = "running"
         /\ active.id = host[h].id
         /\ operation'[host[h].id] = [operation[host[h].id] EXCEPT !.phase = "uncertain"]
         /\ \A i \in Ids \ {host[h].id} : operation'[i] = operation[i]
         /\ active' = [active EXCEPT !.phase = "uncertain"]
         /\ operation' \in [Ids ->
               [phase : {"none", "running", "uncertain", "completed"}, intent : Intents]]
         /\ Claimed' = Claimed /\ LockMatchesLedger'
  <1> DEFINE id == host[h].id
  <1>1. /\ id \in Ids /\ operation[id].phase = "running" /\ active.phase # "free" /\ active.id = id
        /\ operation' = [operation EXCEPT ![id].phase = "uncertain"]
        /\ active' = [id |-> id, intent |-> operation[id].intent, phase |-> "uncertain"]
        /\ UNCHANGED count
    BY DEF MarkUncertain, Owns, SerialInv, SerialTypeOK
  <1>2. operation[id] = [phase |-> active.phase, intent |-> active.intent]
    BY <1>1 DEF SerialInv, LockMatchesLedger
  <1>3. active.phase = "running" /\ active' = [active EXCEPT !.phase = "uncertain"]
    BY <1>1, <1>2 DEF SerialInv, SerialTypeOK
  <1>4. /\ operation'[id] = [operation[id] EXCEPT !.phase = "uncertain"]
        /\ \A i \in Ids \ {id} : operation'[i] = operation[i]
        /\ operation' \in [Ids ->
              [phase : {"none", "running", "uncertain", "completed"}, intent : Intents]]
    BY <1>1 DEF SerialInv, SerialTypeOK
  <1>5. operation'[id] = [phase |-> "uncertain", intent |-> operation[id].intent]
    BY <1>2, <1>4
  <1>6. Claimed' = Claimed
    BY <1>1, <1>4, <1>5 DEF Claimed
  <1>7. \A i \in Ids : operation'[i].phase \in {"running", "uncertain"} <=>
                         active'.phase # "free" /\ active'.id = i
    BY <1>1, <1>4, <1>5 DEF SerialInv, LockMatchesLedger
  <1>8. operation'[active'.id] = [phase |-> active'.phase, intent |-> active'.intent]
    BY <1>1, <1>5
  <1>9. count' = Cardinality(Claimed')
    BY <1>1, <1>6 DEF SerialInv, LockMatchesLedger, Claimed
  <1>10. LockMatchesLedger'
    BY <1>7, <1>8, <1>9 DEF LockMatchesLedger, Claimed
  <1>11. QED
    BY <1>1, <1>3, <1>4, <1>6, <1>10

\* Every step of every host keeps the invariant.
LEMMA SerialNextInv == SerialInv /\ [SerialNext]_serialVars => SerialInv'
  <1> SUFFICES ASSUME SerialInv, [SerialNext]_serialVars
               PROVE  SerialInv'
    OBVIOUS
  <1> USE DEF Working
  <1>1. ASSUME NEW h \in Hosts, NEW id \in Ids, NEW intent \in Intents, Claim(h, id, intent)
        PROVE  SerialInv'
    <2>1. /\ operation[id].phase = "none" /\ active.phase = "free"
          /\ operation'[id] = [phase |-> "running", intent |-> intent]
          /\ \A i \in Ids \ {id} : operation'[i] = operation[i]
          /\ active' = [id |-> id, intent |-> intent, phase |-> "running"]
          /\ count' \in 0..MaxOperations
          /\ operation' \in [Ids ->
                [phase : {"none", "running", "uncertain", "completed"}, intent : Intents]]
          /\ IsFiniteSet(Claimed)' /\ LockMatchesLedger'
      BY <1>1, ClaimEffect DEF Claim
    <2>2. /\ host'[h] = [pc |-> "running", id |-> id, intent |-> intent]
          /\ \A k \in Hosts \ {h} : host'[k] = host[k]
          /\ runs'[id] = runs[id] + 1 /\ \A i \in Ids \ {id} : runs'[i] = runs[i]
      BY <1>1 DEF Claim, SerialInv, SerialTypeOK
    <2>3. SerialTypeOK'
      <3>1. host' \in [Hosts ->
              [pc : {"idle", "running", "finishing", "failed"}, id : Ids, intent : Intents]]
        BY <1>1 DEF Claim, SerialInv, SerialTypeOK
      <3>2. runs' \in [Ids -> Nat]
        BY <1>1 DEF Claim, SerialInv, SerialTypeOK
      <3>3. QED
        BY <2>1, <3>1, <3>2 DEF SerialTypeOK
    <2>4. \A k \in Hosts : host[k].pc # "idle" => host[k].id # id /\ host[k].id \in Ids
      BY <2>1 DEF SerialInv, SerialTypeOK, HostOK
    <2>5. \A k \in Hosts : ~Working(k)
      BY <2>1 DEF SerialInv, LockOK
    <2>6. \A k \in Hosts : HostOK(k)'
      BY <2>1, <2>2, <2>4 DEF SerialInv, HostOK
    <2>7. \A k \in Hosts : LockOK(k)'
      BY <2>1, <2>2, <2>5 DEF LockOK
    <2>8. \A i \in Ids : RunsOK(i)'
      BY <2>1, <2>2 DEF SerialInv, RunsOK
    <2>9. QED
      BY <2>1, <2>3, <2>6, <2>7, <2>8 DEF SerialInv
  <1>2. ASSUME NEW h \in Hosts, NEW id \in Ids, NEW intent \in Intents, ClaimUnanswered(h, id, intent)
        PROVE  SerialInv'
    <2>1. /\ operation[id].phase = "none" /\ active.phase = "free"
          /\ operation'[id] = [phase |-> "running", intent |-> intent]
          /\ \A i \in Ids \ {id} : operation'[i] = operation[i]
          /\ active' = [id |-> id, intent |-> intent, phase |-> "running"]
          /\ count' \in 0..MaxOperations
          /\ operation' \in [Ids ->
                [phase : {"none", "running", "uncertain", "completed"}, intent : Intents]]
          /\ IsFiniteSet(Claimed)' /\ LockMatchesLedger'
      BY <1>2, ClaimEffect DEF ClaimUnanswered
    <2>2. UNCHANGED <<host, runs>>
      BY <1>2 DEF ClaimUnanswered
    <2>3. SerialTypeOK'
      BY <2>1, <2>2 DEF SerialInv, SerialTypeOK
    <2>4. \A k \in Hosts : host[k].pc # "idle" => host[k].id # id /\ host[k].id \in Ids
      BY <2>1 DEF SerialInv, SerialTypeOK, HostOK
    <2>5. \A k \in Hosts : ~Working(k)
      BY <2>1 DEF SerialInv, LockOK
    <2>6. \A k \in Hosts : HostOK(k)'
      BY <2>1, <2>2, <2>4 DEF SerialInv, HostOK
    <2>7. \A k \in Hosts : LockOK(k)'
      BY <2>2, <2>5 DEF LockOK
    <2>8. \A i \in Ids : RunsOK(i)'
      BY <2>1, <2>2 DEF SerialInv, RunsOK
    <2>9. QED
      BY <2>1, <2>3, <2>6, <2>7, <2>8 DEF SerialInv
  <1>3. ASSUME NEW h \in Hosts, Complete(h) \/ CompleteUnanswered(h)
        PROVE  SerialInv'
    <2> DEFINE id == host[h].id
    <2>1. CommitCompletion(h) /\ UNCHANGED <<count, runs>> /\ host[h].pc = "finishing"
      BY <1>3 DEF Complete, CompleteUnanswered
    <2>2. /\ id \in Ids /\ operation[id].phase = "running" /\ active.phase = "running" /\ active.id = id
          /\ operation'[id] = [operation[id] EXCEPT !.phase = "completed"]
          /\ \A i \in Ids \ {id} : operation'[i] = operation[i]
          /\ active' = Free
          /\ operation' \in [Ids ->
                [phase : {"none", "running", "uncertain", "completed"}, intent : Intents]]
          /\ Claimed' = Claimed /\ LockMatchesLedger'
      BY <2>1, CompletionEffect
    <2>3. /\ host'[h] \in {Away, [host[h] EXCEPT !.pc = "failed"]}
          /\ \A k \in Hosts \ {h} : host'[k] = host[k]
          /\ host' \in [Hosts ->
                [pc : {"idle", "running", "finishing", "failed"}, id : Ids, intent : Intents]]
      BY <1>3, ChosenType DEF Complete, CompleteUnanswered, Away, SerialInv, SerialTypeOK
    <2>4. host[h] \in [pc : {"idle", "running", "finishing", "failed"}, id : Ids, intent : Intents]
      BY DEF SerialInv, SerialTypeOK
    <2>5. ~Working(h)' /\ (host'[h].pc # "idle" => host'[h].id = id /\ host'[h].intent = host[h].intent)
      BY <2>3, <2>4 DEF Away
    <2>6. \A k \in Hosts \ {h} : host[k].pc # "idle" => host[k].id # id /\ host[k].id \in Ids
      BY <2>1 DEF SerialInv, SerialTypeOK, HostOK
    <2>7. operation'[id].phase = "completed" /\ operation'[id].intent = operation[id].intent
      <3>1. operation[id] \in [phase : {"none", "running", "uncertain", "completed"}, intent : Intents]
        BY <2>2 DEF SerialInv, SerialTypeOK
      <3>2. QED
        BY <2>2, <3>1
    <2>8. SerialTypeOK'
      BY <2>1, <2>2, <2>3, ChosenType DEF SerialInv, SerialTypeOK, Free
    <2>9. \A k \in Hosts : HostOK(k)'
      <3>1. HostOK(h)'
        BY <2>1, <2>3, <2>5, <2>6, <2>7 DEF SerialInv, HostOK
      <3>2. ASSUME NEW k \in Hosts \ {h}
            PROVE  HostOK(k)'
        <4>1. HostOK(k)
          BY DEF SerialInv
        <4>2. host[k].pc # "idle" => operation'[host[k].id] = operation[host[k].id]
          BY <2>2, <2>6
        <4>3. host'[k] = host[k] /\ (host[k].pc # "idle" => host[k].id # id)
          BY <2>3, <2>6
        <4>4. QED
          BY <2>3, <2>5, <4>1, <4>2, <4>3 DEF HostOK
      <3>3. QED
        BY <3>1, <3>2
    <2>10. \A k \in Hosts : ~Working(k)'
      <3>1. \A k \in Hosts \ {h} : Working(k) => active.id = host[k].id
        BY DEF SerialInv, LockOK
      <3>2. QED
        BY <2>2, <2>3, <2>5, <2>6, <3>1
    <2>11. \A k \in Hosts : LockOK(k)'
      BY <2>10 DEF LockOK
    <2>12. \A i \in Ids : RunsOK(i)'
      BY <2>1, <2>2, <2>7 DEF SerialInv, RunsOK
    <2>13. QED
      BY <2>2, <2>8, <2>9, <2>11, <2>12 DEF SerialInv
  <1>4. ASSUME NEW h \in Hosts, MarkUncertain(h)
        PROVE  SerialInv'
    <2> DEFINE id == host[h].id
    <2>1. host[h].pc = "failed" /\ host' = [host EXCEPT ![h] = Away] /\ UNCHANGED <<count, runs>>
      BY <1>4 DEF MarkUncertain
    <2>2. /\ id \in Ids /\ operation[id].phase = "running" /\ active.phase = "running" /\ active.id = id
          /\ operation'[id] = [operation[id] EXCEPT !.phase = "uncertain"]
          /\ \A i \in Ids \ {id} : operation'[i] = operation[i]
          /\ active' = [active EXCEPT !.phase = "uncertain"]
          /\ operation' \in [Ids ->
                [phase : {"none", "running", "uncertain", "completed"}, intent : Intents]]
          /\ Claimed' = Claimed /\ LockMatchesLedger'
      BY <1>4, UncertainEffect
    <2>3. host'[h] = Away /\ \A k \in Hosts \ {h} : host'[k] = host[k]
      BY <2>1 DEF SerialInv, SerialTypeOK
    <2>4. \A k \in Hosts \ {h} : host[k].pc # "idle" => host[k].id # id /\ host[k].id \in Ids
      BY <2>1 DEF SerialInv, SerialTypeOK, HostOK
    <2>5. operation'[id].phase = "uncertain"
      <3>1. operation[id] \in [phase : {"none", "running", "uncertain", "completed"}, intent : Intents]
        BY <2>2 DEF SerialInv, SerialTypeOK
      <3>2. QED
        BY <2>2, <3>1
    <2>6. SerialTypeOK'
      BY <2>1, <2>2, ChosenType DEF SerialInv, SerialTypeOK, Away
    <2>7. \A k \in Hosts : HostOK(k)'
      BY <2>2, <2>3, <2>4 DEF SerialInv, HostOK, Away
    <2>8. \A k \in Hosts : ~Working(k)'
      <3>1. \A k \in Hosts \ {h} : Working(k) => active.id = host[k].id
        BY DEF SerialInv, LockOK
      <3>2. QED
        BY <2>2, <2>3, <2>4, <3>1 DEF Away
    <2>9. \A k \in Hosts : LockOK(k)'
      BY <2>8 DEF LockOK
    <2>10. \A i \in Ids : RunsOK(i)'
      BY <2>1, <2>2, <2>5 DEF SerialInv, RunsOK
    <2>11. QED
      BY <2>2, <2>6, <2>7, <2>9, <2>10 DEF SerialInv
  <1>5. ASSUME NEW h \in Hosts, RunReturns(h) \/ Fails(h) \/ Gone(h)
        PROVE  SerialInv'
    <2>1. UNCHANGED <<active, operation, count, runs>>
      BY <1>5 DEF RunReturns, Fails, Gone
    <2>2. host[h] \in [pc : {"idle", "running", "finishing", "failed"}, id : Ids, intent : Intents]
      BY DEF SerialInv, SerialTypeOK
    <2>3. /\ host'[h] \in {Away, [host[h] EXCEPT !.pc = "finishing"], [host[h] EXCEPT !.pc = "failed"]}
          /\ \A k \in Hosts \ {h} : host'[k] = host[k]
          /\ host' \in [Hosts ->
                [pc : {"idle", "running", "finishing", "failed"}, id : Ids, intent : Intents]]
      <3>1. host \in [Hosts ->
                [pc : {"idle", "running", "finishing", "failed"}, id : Ids, intent : Intents]]
        BY DEF SerialInv, SerialTypeOK
      <3>2. PICK r \in {Away, [host[h] EXCEPT !.pc = "finishing"], [host[h] EXCEPT !.pc = "failed"]} :
                   host' = [host EXCEPT ![h] = r]
        <4>1. \/ host' = [host EXCEPT ![h].pc = "finishing"]
              \/ host' = [host EXCEPT ![h].pc = "failed"]
              \/ host' = [host EXCEPT ![h] = Away]
          BY <1>5 DEF RunReturns, Fails, Gone
        <4>2. QED
          BY <3>1, <4>1
      <3>3. r \in [pc : {"idle", "running", "finishing", "failed"}, id : Ids, intent : Intents]
        BY <2>2, ChosenType DEF Away
      <3>4. QED
        BY <3>1, <3>2, <3>3
    <2>4. /\ host'[h].pc # "idle" => /\ host[h].pc # "idle"
                                     /\ host'[h].id = host[h].id /\ host'[h].intent = host[h].intent
          /\ Working(h)' => Working(h)
      <3>1. host'[h] = Away \/ host[h].pc \in {"running", "finishing"}
        BY <1>5, <2>3 DEF RunReturns, Fails, Gone, Away, SerialInv, SerialTypeOK
      <3>2. CASE host'[h] = Away
        BY <3>2 DEF Away, Working
      <3>3. CASE host[h].pc \in {"running", "finishing"} /\ host'[h] # Away
        <4>1. \/ host'[h] = [host[h] EXCEPT !.pc = "finishing"]
              \/ host'[h] = [host[h] EXCEPT !.pc = "failed"]
          BY <2>3, <3>3
        <4>2. host'[h].id = host[h].id /\ host'[h].intent = host[h].intent
          BY <2>2, <4>1
        <4>3. QED
          BY <3>3, <4>2 DEF Working
      <3>4. QED
        BY <3>1, <3>2, <3>3
    <2>5. SerialTypeOK'
      BY <2>1, <2>3 DEF SerialInv, SerialTypeOK
    <2>6. \A k \in Hosts : HostOK(k)' /\ LockOK(k)'
      BY <2>1, <2>3, <2>4 DEF SerialInv, HostOK, LockOK
    <2>7. QED
      BY <2>1, <2>5, <2>6 DEF SerialInv, LockMatchesLedger, Claimed, RunsOK
  <1>6. CASE UNCHANGED serialVars
    BY <1>6 DEF serialVars, SerialInv, SerialTypeOK, Claimed, LockMatchesLedger, HostOK, LockOK, RunsOK
  <1>7. QED
    BY <1>1, <1>2, <1>3, <1>4, <1>5, <1>6 DEF SerialNext

\* The inductive invariant holds in every reachable state.
THEOREM SerialInvariance == SerialSpec => []SerialInv
  BY SerialInitInv, SerialNextInv, PTL DEF SerialSpec

\* Archive work is exclusive, and the durable lock names the one that does it.
THEOREM WritersExclusive == SerialSpec => []OneWriter
  <1>1. SerialInv => OneWriter
    BY DEF SerialInv, HostOK, LockOK, OneWriter, Working
  <1>2. QED
    BY <1>1, SerialInvariance, PTL

\* Lock, ledger and count agree in every reachable state.
THEOREM LedgerMatched == SerialSpec => []LockMatchesLedger
  <1>1. SerialInv => LockMatchesLedger
    BY DEF SerialInv
  <1>2. QED
    BY <1>1, SerialInvariance, PTL

\* No operation id is ever worked twice.
THEOREM WorkRunsOnce == SerialSpec => []RunsOnce
  <1>1. SerialInv => RunsOnce
    BY DEF SerialInv, RunsOK, RunsOnce
  <1>2. QED
    BY <1>1, SerialInvariance, PTL

\* Outcomes are final and only a completion releases the lock.
THEOREM OutcomesStay == SerialSpec => OutcomesFinal
  <1>1. ASSUME SerialInv, [SerialNext]_serialVars
        PROVE  [FinalStep]_serialVars
    <2>1. ASSUME NEW h \in Hosts, NEW id \in Ids, NEW intent \in Intents, CommitClaim(id, intent)
          PROVE  FinalStep
      <3>1. /\ operation[id].phase = "none" /\ active.phase = "free"
            /\ \A i \in Ids \ {id} : operation'[i] = operation[i]
        BY <1>1, <2>1, ClaimEffect
      <3>2. QED
        BY <3>1 DEF FinalStep
    <2>2. ASSUME NEW h \in Hosts, Complete(h) \/ CompleteUnanswered(h)
          PROVE  FinalStep
      <3>1. CommitCompletion(h) /\ UNCHANGED count
        BY <2>2 DEF Complete, CompleteUnanswered
      <3>2. /\ host[h].id \in Ids
            /\ operation[host[h].id].phase = "running" /\ active.id = host[h].id /\ active' = Free
            /\ operation'[host[h].id] = [operation[host[h].id] EXCEPT !.phase = "completed"]
            /\ \A i \in Ids \ {host[h].id} : operation'[i] = operation[i]
        BY <1>1, <3>1, CompletionEffect
      <3>3. operation[host[h].id] \in
              [phase : {"none", "running", "uncertain", "completed"}, intent : Intents]
        BY <1>1, <3>2 DEF SerialInv, SerialTypeOK
      <3>4. QED
        BY <3>2, <3>3 DEF FinalStep
    <2>3. ASSUME NEW h \in Hosts, MarkUncertain(h)
          PROVE  FinalStep
      <3>1. /\ operation[host[h].id].phase = "running" /\ active.phase = "running"
            /\ active' = [active EXCEPT !.phase = "uncertain"]
            /\ \A i \in Ids \ {host[h].id} : operation'[i] = operation[i]
        BY <1>1, <2>3, UncertainEffect
      <3>2. QED
        BY <3>1 DEF FinalStep
    <2>4. ASSUME UNCHANGED <<active, operation>>
          PROVE  FinalStep
      BY <2>4 DEF FinalStep
    <2>5. QED
      BY <1>1, <2>1, <2>2, <2>3, <2>4
      DEF SerialNext, Claim, ClaimUnanswered, RunReturns, Fails, Gone, serialVars
  <1>2. QED
    BY <1>1, SerialInvariance, PTL DEF SerialSpec, OutcomesFinal

-----------------------------------------------------------------------------
(* The serializer implements its promise *)

THEOREM SerializerKeepsPromise == SerialSpec => SingleWriting
  <1> DEFINE finished == {id \in Ids : operation[id].phase = "completed"}
             holder == IF active.phase = "free" THEN {} ELSE {active.id}
  <1>1. SerialInit => Promise!Init
    BY DEF SerialInit, Promise!Init, Free, NoOperation
  <1>2. ASSUME SerialInv, [SerialNext]_serialVars
        PROVE  [Promise!Next]_(Promise!vars)
    <2>1. ASSUME NEW id \in Ids, NEW intent \in Intents, CommitClaim(id, intent)
          PROVE  Promise!Next
      <3>1. /\ operation[id].phase = "none" /\ active.phase = "free"
            /\ operation'[id] = [phase |-> "running", intent |-> intent]
            /\ \A i \in Ids \ {id} : operation'[i] = operation[i]
            /\ active' = [id |-> id, intent |-> intent, phase |-> "running"]
        BY <1>2, <2>1, ClaimEffect
      <3>2. holder = {} /\ holder' = {id}
        BY <3>1
      <3>3. id \notin Claimed /\ Claimed' = Claimed \union {id}
        BY <3>1 DEF Claimed
      <3>4. finished' = finished
        BY <3>1
      <3>5. Promise!Acquire(id)
        BY <3>2, <3>3, <3>4 DEF Promise!Acquire, Claimed
      <3>6. QED
        BY <3>5 DEF Promise!Next
    <2>2. ASSUME NEW h \in Hosts, NEW id \in Ids, id = host[h].id, Complete(h) \/ CompleteUnanswered(h)
          PROVE  Promise!Next
      <3>1. CommitCompletion(h) /\ UNCHANGED count
        BY <2>2 DEF Complete, CompleteUnanswered
      <3>2. /\ operation[id].phase = "running" /\ active.phase = "running"
            /\ active.id = id /\ active' = Free /\ Claimed' = Claimed
            /\ operation'[id] = [operation[id] EXCEPT !.phase = "completed"]
            /\ \A i \in Ids \ {id} : operation'[i] = operation[i]
        BY <1>2, <2>2, <3>1, CompletionEffect
      <3>3. operation[id] \in [phase : {"none", "running", "uncertain", "completed"}, intent : Intents]
        BY <1>2 DEF SerialInv, SerialTypeOK
      <3>4. holder = {id} /\ holder' = {}
        BY <3>2 DEF Free
      <3>5. finished' = finished \union {id}
        BY <3>2, <3>3
      <3>6. Promise!Finish(id)
        BY <3>2, <3>4, <3>5 DEF Promise!Finish, Claimed
      <3>7. QED
        BY <3>6 DEF Promise!Next
    <2>3. ASSUME NEW h \in Hosts, MarkUncertain(h)
          PROVE  UNCHANGED (Promise!vars)
      <3>1. /\ host[h].id \in Ids /\ operation[host[h].id].phase = "running" /\ active.phase = "running"
            /\ active' = [active EXCEPT !.phase = "uncertain"] /\ Claimed' = Claimed
            /\ operation'[host[h].id] = [operation[host[h].id] EXCEPT !.phase = "uncertain"]
            /\ \A i \in Ids \ {host[h].id} : operation'[i] = operation[i]
        BY <1>2, <2>3, UncertainEffect
      <3>2. active \in [id : Ids, intent : Intents, phase : {"free", "running", "uncertain"}]
        BY <1>2 DEF SerialInv, SerialTypeOK
      <3>3. operation[host[h].id] \in
              [phase : {"none", "running", "uncertain", "completed"}, intent : Intents]
        BY <1>2, <3>1 DEF SerialInv, SerialTypeOK
      <3>4. holder' = holder
        BY <3>1, <3>2
      <3>5. finished' = finished
        BY <3>1, <3>3
      <3>6. QED
        BY <3>1, <3>4, <3>5 DEF Promise!vars, Claimed
    <2>4. ASSUME UNCHANGED <<active, operation>>
          PROVE  UNCHANGED (Promise!vars)
      BY <2>4 DEF Promise!vars
    <2>5. \A h \in Hosts : host[h].id \in Ids
      BY <1>2 DEF SerialInv, SerialTypeOK
    <2>6. QED
      BY <1>2, <2>1, <2>2, <2>3, <2>4, <2>5
      DEF SerialNext, Claim, ClaimUnanswered, RunReturns, Fails, Gone, serialVars
  <1>3. QED
    BY <1>1, <1>2, SerialInvariance, PTL DEF SerialSpec, SingleWriting, Promise!Spec
=============================================================================
