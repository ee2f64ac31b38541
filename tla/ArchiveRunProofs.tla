--------------------------- MODULE ArchiveRunProofs ---------------------------
(* Proofs about ArchiveRun, for any hosts, operations and plans: the folder gets   *)
(* no duplicates (RunInv); every run stays on its plan, so that receipts are true  *)
(* and requests suffice (Planned); and every run is serialized.                    *)
EXTENDS ArchiveRun, ArchiveProofs, SequenceTheorems

JobShape(r) ==
  r \in [step : Steps, n : {r.n}, etags : {r.etags}, got : {r.got}, saved : {r.saved},
         requests : {r.requests}, scoped : {r.scoped}]

\* While a host works, the only upload under way is its own, and only between Post
\* and its answer; before Post, the name it listed as missing still is.
Alone(h) ==
  Working(h) =>
    /\ job[h].step # "posted" \/ host[h].pc = "finishing" => flight = {}
    /\ At(h, "post") => Len(files[File(h, job[h].n)]) = 0

\* At most one upload is under way, for a name the folder does not hold until it lands.
Single == \A f, g \in flight : f = g
Missing == \A f \in flight : f.name \in Names /\ f.landed = 0 => Len(files[f.name]) = 0

UploadShape(f) == f \in [id : {f.id}, name : {f.name}, landed : {f.landed}]

RunInv ==
  /\ SerialInv
  /\ files \in [Names -> Seq(BOOLEAN)]
  /\ job = [h \in Hosts |-> job[h]] /\ \A h \in Hosts : JobShape(job[h])
  /\ \A f \in flight : UploadShape(f)
  /\ \A h \in Hosts : Alone(h)
  /\ UploadsCovered /\ Single /\ Missing
  /\ NoDuplicateFiles

LEMMA RunInitInv == Init => RunInv
  <1> SUFFICES ASSUME Init PROVE RunInv
    OBVIOUS
  <1>1. SerialInv
    BY SerialInitInv DEF Init
  <1>2. PICK damaged \in SUBSET Names :
          files = [f \in Names |-> IF f \in damaged THEN <<FALSE>> ELSE <<>>]
    BY DEF Init
  <1>3. <<FALSE>> \in Seq(BOOLEAN) /\ <<>> \in Seq(BOOLEAN)
    OBVIOUS
  <1>4. Len(<<FALSE>>) = 1 /\ Len(<<>>) = 0
    OBVIOUS
  <1>5. files \in [Names -> Seq(BOOLEAN)]
    BY <1>2, <1>3
  <1>6. \A f \in Names : Len(files[f]) \in Nat /\ Len(files[f]) <= 1
    BY <1>2, <1>4
  <1>7. NoDuplicateFiles
    BY <1>6 DEF NoDuplicateFiles
  <1>8. \A h \in Hosts : job[h] = Fresh /\ ~Working(h)
    BY DEF Init, SerialInit, Away, Working
  <1>9. JobShape(Fresh)
    BY DEF Fresh, JobShape, Steps
  <1>10. flight = {} /\ job = [h \in Hosts |-> job[h]]
    BY DEF Init
  <1>11. QED
    BY <1>1, <1>5, <1>7, <1>8, <1>9, <1>10 DEF RunInv, Alone, UploadsCovered, Single, Missing

\* Every step of a run is a step of the serializer, or none.
LEMMA RunSerial == [Next]_vars => [SerialNext]_serialVars
  BY DEF Next, vars, Start, Returns, Leaves, Land, Lose, Overwrite, HeadObject, GetObject,
         List, Post, Answered, Readback, Restore, SerialNext

LEMMA GoesEffect ==
  ASSUME RunInv, NEW h \in Hosts, NEW r, Goes(h, r)
  PROVE  job'[h] = r /\ job' = [k \in Hosts |-> job'[k]]
         /\ \A k \in Hosts \ {h} : job'[k] = job[k]
  BY DEF RunInv, Goes

\* Only one host works.
LEMMA OnlyWriter ==
  ASSUME SerialInv, NEW h \in Hosts, Working(h)
  PROVE  /\ \A k \in Hosts \ {h} : ~Working(k)
         /\ active.id = host[h].id /\ active.phase = "running"
  BY DEF SerialInv, HostOK, LockOK, Working

\* The steps of a host that touch neither the folder nor the uploads.
LEMMA QuietStep ==
  ASSUME RunInv, NEW h \in Hosts,
         HeadObject(h) \/ GetObject(h) \/ List(h) \/ Readback(h) \/ Restore(h)
  PROVE  /\ UNCHANGED <<serialVars, files, flight>>
         /\ job' = [k \in Hosts |-> job'[k]]
         /\ \A k \in Hosts : JobShape(job'[k])
         /\ \A k \in Hosts : Alone(k)'
  <1>1. UNCHANGED <<serialVars, files, flight>>
    BY DEF HeadObject, GetObject, List, Readback, Restore
  <1>2. host[h].pc = "running" /\ job[h].step \in {"head", "get", "list", "readback", "restore"}
    BY DEF HeadObject, GetObject, List, Readback, Restore, At
  <1>3. JobShape(job[h])
    BY DEF RunInv
  <1>4. flight = {}
    BY <1>2 DEF RunInv, Alone, Working
  <1>5. /\ job' = [k \in Hosts |-> job'[k]] /\ \A k \in Hosts \ {h} : job'[k] = job[k]
    BY DEF RunInv, HeadObject, GetObject, List, Readback, Restore, Goes
  <1>6. /\ JobShape(job'[h])
        /\ job'[h].step # "posted"
        /\ job'[h].step = "post" => List(h) /\ job'[h].n = job[h].n /\ job'[h].got = job[h].got
                                   /\ Len(files[File(h, job[h].n)]) = 0
    <2> DEFINE key == Keyed(h)[job[h].n]
               found == Len(files[File(h, job[h].n)])
    <2>1. CASE HeadObject(h)
      <3> DEFINE last == job[h].n = Len(Keyed(h))
                 r == [job[h] EXCEPT !.etags = Append(job[h].etags, source[key]),
                                     !.step = IF last THEN "get" ELSE "head",
                                     !.n = IF last THEN 1 ELSE job[h].n + 1]
      <3>1. job'[h] = r
        BY <2>1 DEF RunInv, HeadObject, Goes
      <3>2. JobShape(r) /\ r.step \in {"head", "get"}
        BY <1>3 DEF JobShape, Steps
      <3>3. QED
        BY <3>1, <3>2
    <2>2. CASE GetObject(h)
      <3> DEFINE last == job[h].n = Len(Keyed(h))
                 r == [job[h] EXCEPT !.got = Append(job[h].got, source[key]),
                                     !.step = IF last THEN "list" ELSE "get",
                                     !.n = IF last THEN 1 ELSE job[h].n + 1]
      <3>1. job'[h] = r
        BY <2>2 DEF RunInv, GetObject, Goes
      <3>2. JobShape(r) /\ r.step \in {"get", "list"}
        BY <1>3 DEF JobShape, Steps
      <3>3. QED
        BY <3>1, <3>2
    <2>3. CASE List(h)
      <3> DEFINE r == [job[h] EXCEPT !.step = IF found = 1 THEN "readback" ELSE "post",
                                     !.saved = IF found = 1 THEN Append(job[h].saved, 1) ELSE job[h].saved,
                                     !.scoped = TRUE, !.requests = Counted(h)]
      <3>1. job'[h] = r /\ found \in {0, 1}
        BY <2>3 DEF RunInv, List, Goes
      <3>2. /\ JobShape(r) /\ r.step \in {"readback", "post"}
            /\ r.step = "post" => found # 1 /\ r.n = job[h].n /\ r.got = job[h].got
        BY <1>3 DEF JobShape, Steps
      <3>3. QED
        BY <2>3, <3>1, <3>2
    <2>4. CASE Readback(h)
      <3> DEFINE last == job[h].n = Len(Keyed(h)) + 1
                 r == [job[h] EXCEPT !.step = IF last THEN "restore" ELSE "list",
                                     !.n = IF last THEN job[h].n ELSE job[h].n + 1,
                                     !.requests = Counted(h)]
      <3>1. job'[h] = r
        BY <2>4 DEF RunInv, Readback, Goes
      <3>2. JobShape(r) /\ r.step \in {"restore", "list"}
        BY <1>3 DEF JobShape, Steps
      <3>3. QED
        BY <3>1, <3>2
    <2>5. CASE Restore(h)
      <3> DEFINE last == job[h].n = 1
                 r == [job[h] EXCEPT !.step = IF last THEN "done" ELSE "restore",
                                     !.n = job[h].n - 1, !.requests = Counted(h)]
      <3>1. job'[h] = r
        BY <2>5 DEF RunInv, Restore, Goes
      <3>2. JobShape(r) /\ r.step \in {"restore", "done"}
        BY <1>3 DEF JobShape, Steps
      <3>3. QED
        BY <3>1, <3>2
    <2>6. QED
      BY <2>1, <2>2, <2>3, <2>4, <2>5
  <1>7. \A k \in Hosts : JobShape(job'[k])
    BY <1>5, <1>6 DEF RunInv
  <1>8. \A k \in Hosts \ {h} : ~Working(k)'
    BY <1>1, <1>2, OnlyWriter DEF RunInv, Working, serialVars
  <1>9. Alone(h)'
    BY <1>1, <1>4, <1>6 DEF Alone, At, File, Keyed, serialVars
  <1>10. QED
    BY <1>1, <1>5, <1>7, <1>8, <1>9 DEF Alone

LEMMA RunNextInv == RunInv /\ [Next]_vars => RunInv'
  <1> SUFFICES ASSUME RunInv, [Next]_vars
               PROVE  RunInv'
    OBVIOUS
  <1>1. SerialInv'
    BY RunSerial, SerialNextInv DEF RunInv
  <1>2. ASSUME NEW h \in Hosts,
               HeadObject(h) \/ GetObject(h) \/ List(h) \/ Readback(h) \/ Restore(h)
        PROVE  RunInv'
    BY <1>1, <1>2, QuietStep
    DEF RunInv, UploadsCovered, Single, Missing, NoDuplicateFiles, serialVars
  <1>3. ASSUME NEW h \in Hosts, Post(h)
        PROVE  RunInv'
    <2> DEFINE F == File(h, job[h].n)
               item == [id |-> host[h].id, name |-> F, landed |-> 0]
               r == [job[h] EXCEPT !.step = "posted", !.requests = Counted(h)]
    <2>1. /\ At(h, "post") /\ Goes(h, r) /\ flight' = flight \union {item}
          /\ UNCHANGED <<serialVars, files>>
      BY <1>3 DEF Post
    <2>2. Working(h) /\ flight = {} /\ Len(files[F]) = 0
      BY <2>1 DEF RunInv, Alone, At, Working
    <2>3. /\ job'[h] = r /\ job' = [k \in Hosts |-> job'[k]]
          /\ \A k \in Hosts \ {h} : job'[k] = job[k]
      BY <2>1, GoesEffect
    <2>4. JobShape(r) /\ r.step = "posted"
      BY DEF RunInv, JobShape, Steps
    <2>5. flight' = {item} /\ UploadShape(item) /\ item.id = host[h].id /\ item.name = F /\ item.landed = 0
      BY <2>1, <2>2 DEF UploadShape
    <2>6. active.id = host[h].id /\ active.phase = "running" /\ \A k \in Hosts \ {h} : ~Working(k)'
      BY <2>1, <2>2, OnlyWriter DEF RunInv, Working, serialVars
    <2>7. Alone(h)' /\ \A k \in Hosts \ {h} : Alone(k)'
      BY <2>1, <2>3, <2>4, <2>6 DEF Alone, At, serialVars
    <2>8. UploadsCovered' /\ Single' /\ Missing'
      BY <2>1, <2>2, <2>5, <2>6 DEF UploadsCovered, Single, Missing, serialVars
    <2>9. \A k \in Hosts : JobShape(job'[k])
      BY <2>3, <2>4 DEF RunInv
    <2>10. QED
      BY <1>1, <2>1, <2>3, <2>5, <2>7, <2>8, <2>9 DEF RunInv, NoDuplicateFiles
  <1>4. ASSUME NEW h \in Hosts, Answered(h)
        PROVE  RunInv'
    <2>1. PICK f \in flight :
            /\ flight' = flight \ {f}
            /\ Goes(h, [job[h] EXCEPT !.step = "readback", !.saved = Append(job[h].saved, f.landed)])
      BY <1>4 DEF Answered
    <2> DEFINE r == [job[h] EXCEPT !.step = "readback", !.saved = Append(job[h].saved, f.landed)]
    <2>2. flight' = {}
      BY <2>1 DEF RunInv, Single
    <2>3. At(h, "posted") /\ UNCHANGED <<serialVars, files>>
      BY <1>4 DEF Answered
    <2>4. /\ job'[h] = r /\ job' = [k \in Hosts |-> job'[k]]
          /\ \A k \in Hosts \ {h} : job'[k] = job[k]
      BY <2>1, GoesEffect
    <2>5. JobShape(r) /\ r.step = "readback"
      BY DEF RunInv, JobShape, Steps
    <2>6. \A k \in Hosts \ {h} : ~Working(k)'
      BY <2>3, OnlyWriter DEF RunInv, At, Working, serialVars
    <2>7. \A k \in Hosts : Alone(k)'
      BY <2>2, <2>4, <2>5, <2>6 DEF Alone, At
    <2>8. \A k \in Hosts : JobShape(job'[k])
      BY <2>4, <2>5 DEF RunInv
    <2>9. QED
      BY <1>1, <2>2, <2>3, <2>4, <2>7, <2>8
      DEF RunInv, UploadsCovered, Single, Missing, NoDuplicateFiles
  <1>5. ASSUME NEW h \in Hosts, NEW id \in Ids, NEW intent \in Intents, Start(h, id, intent)
        PROVE  RunInv'
    <2>1. /\ Goes(h, Fresh) /\ UNCHANGED <<source, files, flight>> /\ active.phase = "free"
          /\ \A k \in Hosts \ {h} : host'[k] = host[k]
      BY <1>5 DEF Start, Claim, CommitClaim, NobodyWriting, RunInv, SerialInv, SerialTypeOK
    <2>2. flight = {}
      BY <2>1 DEF RunInv, UploadsCovered
    <2>3. /\ job'[h] = Fresh /\ job' = [k \in Hosts |-> job'[k]]
          /\ \A k \in Hosts \ {h} : job'[k] = job[k]
      BY <2>1, GoesEffect
    <2>4. JobShape(Fresh) /\ Fresh.step = "head"
      BY DEF JobShape, Fresh, Steps
    <2>5. \A k \in Hosts : ~Working(k)
      BY <2>1 DEF RunInv, SerialInv, LockOK
    <2>6. \A k \in Hosts \ {h} : ~Working(k)'
      BY <2>1, <2>5 DEF Working
    <2>7. \A k \in Hosts : Alone(k)'
      BY <2>1, <2>2, <2>3, <2>4, <2>6 DEF Alone, At
    <2>8. \A k \in Hosts : JobShape(job'[k])
      BY <2>3, <2>4 DEF RunInv
    <2>9. QED
      BY <1>1, <2>1, <2>2, <2>3, <2>7, <2>8
      DEF RunInv, UploadsCovered, Single, Missing, NoDuplicateFiles
  <1>6. ASSUME NEW h \in Hosts, NEW id \in Ids, NEW intent \in Intents,
               ClaimUnanswered(h, id, intent), UNCHANGED runVars
        PROVE  RunInv'
    <2>1. active.phase = "free" /\ UNCHANGED <<host, files, flight, job>>
      BY <1>6 DEF ClaimUnanswered, CommitClaim, NobodyWriting, runVars
    <2>2. flight = {}
      BY <2>1 DEF RunInv, UploadsCovered
    <2>3. QED
      BY <1>1, <2>1, <2>2
      DEF RunInv, Alone, At, Working, File, Keyed, UploadsCovered, Single, Missing, NoDuplicateFiles
  <1>7. ASSUME NEW h \in Hosts, Returns(h)
        PROVE  RunInv'
    <2>1. /\ host[h].pc = "running" /\ job[h].step = "done"
          /\ UNCHANGED <<active, files, flight, job>>
          /\ \A k \in Hosts \ {h} : host'[k] = host[k]
      BY <1>7 DEF Returns, RunReturns, runVars, RunInv, SerialInv, SerialTypeOK
    <2>2. host'[h].pc = "finishing"
      <3>1. host[h] \in [pc : {"idle", "running", "finishing", "failed"}, id : Ids, intent : Intents]
        BY DEF RunInv, SerialInv, SerialTypeOK
      <3>2. host'[h] = [host[h] EXCEPT !.pc = "finishing"]
        BY <1>7 DEF Returns, RunReturns, RunInv, SerialInv, SerialTypeOK
      <3>3. QED
        BY <3>1, <3>2
    <2>3. flight = {}
      BY <2>1 DEF RunInv, Alone, Working
    <2>4. \A k \in Hosts : Alone(k)'
      BY <2>1, <2>2, <2>3 DEF RunInv, Alone, At, Working, File, Keyed
    <2>5. QED
      BY <1>1, <2>1, <2>3, <2>4 DEF RunInv, UploadsCovered, Single, Missing, NoDuplicateFiles
  <1>8. ASSUME NEW h \in Hosts, Leaves(h)
        PROVE  RunInv'
    <2>1. Goes(h, Fresh) /\ UNCHANGED <<source, files, flight>>
      BY <1>8 DEF Leaves
    <2>2. /\ job'[h] = Fresh /\ job' = [k \in Hosts |-> job'[k]]
          /\ \A k \in Hosts \ {h} : job'[k] = job[k]
      BY <2>1, GoesEffect
    <2>3. host[h] \in [pc : {"idle", "running", "finishing", "failed"}, id : Ids, intent : Intents]
      BY DEF RunInv, SerialInv, SerialTypeOK
    <2>4. /\ host'[h] \in {Away, [host[h] EXCEPT !.pc = "failed"]}
          /\ \A k \in Hosts \ {h} : host'[k] = host[k]
      BY <1>8
      DEF Leaves, Fails, Complete, CompleteUnanswered, MarkUncertain, Gone, RunInv, SerialInv, SerialTypeOK
    <2>5. ~Working(h)'
      BY <2>3, <2>4 DEF Working, Away
    <2>6. \A k \in Hosts : Alone(k)'
      BY <2>1, <2>2, <2>4, <2>5 DEF RunInv, Alone, At, Working, File, Keyed
    <2>7. UploadsCovered'
      <3>1. CASE Fails(h) \/ Gone(h)
        BY <2>1, <3>1 DEF RunInv, UploadsCovered, Fails, Gone
      <3>2. CASE MarkUncertain(h)
        <4>1. active.phase = "running" /\ active' = [active EXCEPT !.phase = "uncertain"]
          BY <3>2, UncertainEffect DEF RunInv
        <4>2. active'.phase = "uncertain" /\ active'.id = active.id
          BY <4>1 DEF RunInv, SerialInv, SerialTypeOK
        <4>3. QED
          BY <2>1, <4>2 DEF RunInv, UploadsCovered
      <3>3. CASE Complete(h) \/ CompleteUnanswered(h)
        <4>1. flight = {}
          BY <3>3 DEF RunInv, Alone, Working, Complete, CompleteUnanswered
        <4>2. QED
          BY <2>1, <4>1 DEF UploadsCovered
      <3>4. QED
        BY <1>8, <3>1, <3>2, <3>3 DEF Leaves
    <2>8. \A k \in Hosts : JobShape(job'[k])
      BY <2>2 DEF RunInv, JobShape, Fresh, Steps
    <2>9. QED
      BY <1>1, <2>1, <2>2, <2>6, <2>7, <2>8 DEF RunInv, Single, Missing, NoDuplicateFiles
  <1>9. ASSUME NEW f \in flight, Land(f)
        PROVE  RunInv'
    <2> DEFINE g == [f EXCEPT !.landed = Len(files'[f.name])]
    <2>1. /\ f.landed = 0 /\ files' = [files EXCEPT ![f.name] = Append(files[f.name], TRUE)]
          /\ flight' = (flight \ {f}) \union {g}
          /\ UNCHANGED <<serialVars, source, job>>
      BY <1>9 DEF Land
    <2>2. flight = {f} /\ flight' = {g}
      BY <2>1 DEF RunInv, Single
    <2>3. UploadShape(g) /\ g.id = f.id /\ g.name = f.name /\ g.landed = Len(files'[f.name])
      BY DEF RunInv, UploadShape
    <2>4. files' \in [Names -> Seq(BOOLEAN)]
      <3>1. \A s \in Seq(BOOLEAN) : Append(s, TRUE) \in Seq(BOOLEAN)
        BY AppendProperties
      <3>2. f.name \in Names => Append(files[f.name], TRUE) \in Seq(BOOLEAN)
        BY <3>1 DEF RunInv
      <3>3. QED
        BY <2>1, <3>2 DEF RunInv
    <2>5. ASSUME f.name \in Names
          PROVE  Len(files'[f.name]) = 1
      <3> DEFINE s == files[f.name]
      <3>1. s \in Seq(BOOLEAN) /\ Len(s) = 0
        BY <2>1, <2>5 DEF RunInv, Missing
      <3>2. files'[f.name] = Append(s, TRUE)
        BY <2>1, <2>5 DEF RunInv
      <3>3. Len(Append(s, TRUE)) = Len(s) + 1
        BY <3>1, AppendProperties
      <3>4. QED
        BY <3>1, <3>2, <3>3
    <2>6. \A name \in Names \ {f.name} : files'[name] = files[name]
      BY <2>1 DEF RunInv
    <2>7. NoDuplicateFiles'
      <3>1. \A name \in Names : Len(files'[name]) = 1 \/ Len(files'[name]) = Len(files[name])
        BY <2>5, <2>6
      <3>2. \A name \in Names : Len(files[name]) <= 1
        BY DEF RunInv, NoDuplicateFiles
      <3>3. \A name \in Names : Len(files'[name]) <= 1
        <4>1. \A name \in Names : Len(files'[name]) \in Nat
          BY <2>4
        <4>2. QED
          BY <3>1, <3>2, <4>1
      <3>4. QED
        BY <3>3 DEF NoDuplicateFiles
    <2>8. UploadsCovered' /\ Single' /\ Missing'
      BY <2>1, <2>2, <2>3, <2>5 DEF RunInv, UploadsCovered, Single, Missing, serialVars
    <2>9. \A k \in Hosts : Alone(k)'
      BY <2>1, <2>2 DEF RunInv, Alone, At, Working, serialVars
    <2>10. QED
      BY <1>1, <2>1, <2>2, <2>3, <2>4, <2>7, <2>8, <2>9 DEF RunInv
  <1>10. ASSUME NEW f \in flight, Lose(f)
         PROVE  RunInv'
    <2>1. flight' = {} /\ UNCHANGED <<serialVars, files, job>>
      BY <1>10 DEF Lose, RunInv, Single
    <2>2. QED
      BY <1>1, <2>1
      DEF RunInv, Alone, At, Working, File, Keyed, UploadsCovered, Single, Missing, NoDuplicateFiles, serialVars
  <1>11. ASSUME UNCHANGED <<serialVars, files, flight, job>>
         PROVE  RunInv'
    BY <1>1, <1>11
    DEF RunInv, Alone, At, Working, File, Keyed, UploadsCovered, Single, Missing, NoDuplicateFiles, serialVars
  <1>12. QED
    BY <1>2, <1>3, <1>4, <1>5, <1>6, <1>7, <1>8, <1>9, <1>10, <1>11
    DEF Next, Overwrite, vars, runVars

\* No two files of one name ever reach the folder, for any hosts, operations and plans.
THEOREM FolderHasNoDuplicates == Spec => []NoDuplicateFiles
  <1>1. RunInv => NoDuplicateFiles
    BY DEF RunInv
  <1>2. QED
    BY <1>1, RunInitInv, RunNextInv, PTL DEF Spec

\* An upload under way is always covered by its operation's lock.
THEOREM UploadsStayCovered == Spec => []UploadsCovered
  <1>1. RunInv => UploadsCovered
    BY DEF RunInv
  <1>2. QED
    BY <1>1, RunInitInv, RunNextInv, PTL DEF Spec
-----------------------------------------------------------------------------
(* How far a run is: what it downloaded, saved, read back and spent *)

JobType == [step : Steps, n : Nat, etags : Seq(Versions), got : Seq(Versions), saved : Seq(Nat),
            requests : Nat, scoped : BOOLEAN]

\* File n of a run whose downloads are the objects that the plan expects.
Wanted(intent, n) == IF n <= Len(Plan[intent]) THEN Object(Plan[intent][n], Sound) ELSE Manifest(intent)

\* What the requests of a run may have come to: six for each file (a listing, an upload
\* and two readbacks of two), and three that look up the folders.
Spendable(r, total) ==
  CASE r.step \in {"head", "get"} -> 0
    [] r.step = "list" -> 4 * (r.n - 1) + (IF r.scoped THEN 3 ELSE 0)
    [] r.step = "post" -> 4 * r.n
    [] r.step \in {"posted", "readback"} -> 4 * r.n + 1
    [] r.step \in {"restore", "done"} -> 4 * total + 3 + 2 * (total - r.n)

\* How many files of a run are saved, in the order of their numbers.
SavedBy(r, total) ==
  CASE r.step \in {"head", "get"} -> 0
    [] r.step \in {"list", "post", "posted"} -> r.n - 1
    [] r.step = "readback" -> r.n
    [] r.step \in {"restore", "done"} -> total

\* How many of them were read back.
ReadBy(r, total) ==
  CASE r.step \in {"head", "get"} -> 0
    [] r.step \in {"list", "post", "posted", "readback"} -> r.n - 1
    [] r.step \in {"restore", "done"} -> total

\* A run's record is that of a run of its plan.
OnPlan(intent, r) ==
  LET L == Len(Plan[intent]) IN
  /\ r.n \in (IF r.step = "done" THEN {0} ELSE IF r.step \in {"head", "get"} THEN 1..L ELSE 1..(L + 1))
  /\ Len(r.got) = IF r.step = "head" THEN 0 ELSE IF r.step = "get" THEN r.n - 1 ELSE L
  /\ Len(r.saved) = SavedBy(r, L + 1)
  /\ \A m \in 1..Len(r.got) : r.got[m] = Sound
  /\ \A m \in 1..Len(r.saved) : r.saved[m] = 1
  /\ r.step \in {"post", "posted", "readback"} => r.scoped = TRUE
  /\ r.requests <= Spendable(r, L + 1)

Intact(f) == files[f] # <<>> /\ files[f][1] = TRUE

\* What a run saved is in the folder, and what it read back is intact.
Stored(intent, r) ==
  LET K == Len(Plan[intent]) + 1 IN
  /\ \A m \in 1..SavedBy(r, K) : files[Wanted(intent, m)] # <<>>
  /\ \A m \in 1..ReadBy(r, K) : Intact(Wanted(intent, m))

Progress(h) ==
  /\ ~Working(h) => job[h] = Fresh
  /\ Working(h) => OnPlan(host[h].intent, job[h]) /\ Stored(host[h].intent, job[h])
  /\ host[h].pc = "finishing" => job[h].step = "done"

UploadsTyped == \A f \in flight : f.id \in Ids /\ f.name \in Names /\ f.landed \in 0..Len(files[f.name])

Planned ==
  /\ source \in [Keys -> Versions] /\ job \in [Hosts -> JobType] /\ UploadsTyped
  /\ \A h \in Hosts : Progress(h)
  /\ ReceiptTrue

RInv == RunInv /\ Planned

\* A sequence of one value only stays one when that value is appended.
LEMMA AppendSame ==
  ASSUME NEW S, NEW s \in Seq(S), NEW e \in S, \A m \in 1..Len(s) : s[m] = e
  PROVE  /\ Append(s, e) \in Seq(S) /\ Len(Append(s, e)) = Len(s) + 1
         /\ \A m \in 1..(Len(s) + 1) : Append(s, e)[m] = e
  <1>1. Append(s, e) \in Seq(S) /\ Len(Append(s, e)) = Len(s) + 1
    BY AppendProperties
  <1>2. \A m \in 1..Len(s) : Append(s, e)[m] = s[m]
    BY AppendProperties
  <1>3. Append(s, e)[Len(s) + 1] = e
    BY AppendProperties
  <1>4. Len(s) \in Nat
    OBVIOUS
  <1>5. \A m \in 1..(Len(s) + 1) : m \in 1..Len(s) \/ m = Len(s) + 1
    BY <1>4
  <1>6. QED
    BY <1>1, <1>2, <1>3, <1>5

\* Plans have objects, each file of a run has a name, and fits its request cap.
LEMMA PlanFacts ==
  ASSUME NEW n \in Intents
  PROVE  /\ Len(Plan[n]) \in Nat /\ Len(Plan[n]) > 0
         /\ \A m \in 1..Len(Plan[n]) : Plan[n][m] \in Keys
         /\ \A m \in 1..(Len(Plan[n]) + 1) : Wanted(n, m) \in Names
         /\ RequestCap \in Nat /\ 6 * (Len(Plan[n]) + 1) + 3 <= RequestCap
  <1>1. Plan[n] \in Seq(Keys) /\ Len(Plan[n]) > 0 /\ RequestCap \in Nat
    BY PlansOK
  <1>2. Len(Plan[n]) \in Nat /\ \A m \in 1..Len(Plan[n]) : Plan[n][m] \in Keys
    BY <1>1
  <1>3. \A m \in 1..(Len(Plan[n]) + 1) : m <= Len(Plan[n]) => Object(Plan[n][m], Sound) \in Names
    BY <1>2 DEF Names, Versions
  <1>4. Manifest(n) \in Names
    BY DEF Names
  <1>5. \A m \in 1..(Len(Plan[n]) + 1) : Wanted(n, m) \in Names
    BY <1>3, <1>4 DEF Wanted
  <1>6. QED
    BY <1>1, <1>2, <1>5, PlansFit

\* What the bounds come to at each step.
LEMMA Bounds ==
  ASSUME NEW r \in JobType, NEW k \in Nat
  PROVE  /\ r.step \in {"head", "get"} => Spendable(r, k) = 0 /\ SavedBy(r, k) = 0 /\ ReadBy(r, k) = 0
         /\ r.step = "list" => Spendable(r, k) = 4 * (r.n - 1) + (IF r.scoped THEN 3 ELSE 0)
         /\ r.step = "post" => Spendable(r, k) = 4 * r.n
         /\ r.step \in {"posted", "readback"} => Spendable(r, k) = 4 * r.n + 1
         /\ r.step \in {"list", "post", "posted"} => SavedBy(r, k) = r.n - 1
         /\ r.step = "readback" => SavedBy(r, k) = r.n
         /\ r.step \in {"list", "post", "posted", "readback"} => ReadBy(r, k) = r.n - 1
         /\ r.step \in {"restore", "done"} =>
              Spendable(r, k) = 4 * k + 3 + 2 * (k - r.n) /\ SavedBy(r, k) = k /\ ReadBy(r, k) = k
  <1>1. r.n \in Nat
    BY DEF JobType
  <1>2. QED
    BY <1>1 DEF Spendable, SavedBy, ReadBy

LEMMA FreshOnPlan ==
  ASSUME NEW n \in Intents
  PROVE  Fresh \in JobType /\ OnPlan(n, Fresh)
  <1>1. <<>> \in Seq(Versions) /\ <<>> \in Seq(Nat) /\ Len(<<>>) = 0
    OBVIOUS
  <1>2. Fresh \in JobType
    <2> DEFINE none == <<>>
    <2>1. none \in Seq(Versions) /\ none \in Seq(Nat) /\ Fresh.etags = none /\ Fresh.got = none
      BY <1>1 DEF Fresh
    <2> HIDE DEF none
    <2>2. Fresh = [step |-> "head", n |-> 1, etags |-> none, got |-> none, saved |-> none,
                   requests |-> 0, scoped |-> FALSE]
      BY DEF Fresh, none
    <2>3. QED
      BY <2>1, <2>2 DEF JobType, Steps
  <1>3. /\ Fresh.step = "head" /\ Fresh.n = 1 /\ Fresh.got = <<>> /\ Fresh.saved = <<>>
        /\ Fresh.requests = 0
    BY DEF Fresh
  <1>4. OnPlan(n, Fresh)
    BY <1>1, <1>3, PlanFacts DEF OnPlan, SavedBy, Spendable
  <1>5. QED
    BY <1>2, <1>4

-----------------------------------------------------------------------------
(* Each step of a run keeps its record on the plan *)

LEMMA HeadOnPlan ==
  ASSUME NEW n \in Intents, NEW r \in JobType, OnPlan(n, r), r.step = "head",
         NEW q \in JobType, q.got = r.got, q.saved = r.saved, q.requests = r.requests,
         IF r.n = Len(Plan[n]) THEN q.step = "get" /\ q.n = 1 ELSE q.step = "head" /\ q.n = r.n + 1
  PROVE  OnPlan(n, q)
  <1>1. Len(Plan[n]) \in Nat /\ Len(Plan[n]) > 0 /\ r.n \in Nat
    BY PlanFacts DEF JobType
  <1>2. /\ r.n \in 1..Len(Plan[n]) /\ Len(r.got) = 0 /\ Len(r.saved) = 0 /\ r.requests <= 0
        /\ \A m \in 1..Len(r.got) : r.got[m] = Sound
        /\ \A m \in 1..Len(r.saved) : r.saved[m] = 1
    BY DEF OnPlan, SavedBy, Spendable
  <1>3. QED
    BY <1>1, <1>2 DEF OnPlan, SavedBy, Spendable

LEMMA GetOnPlan ==
  ASSUME NEW n \in Intents, NEW r \in JobType, OnPlan(n, r), r.step = "get",
         NEW q \in JobType, q.got = Append(r.got, Sound), q.saved = r.saved, q.requests = r.requests,
         IF r.n = Len(Plan[n]) THEN q.step = "list" /\ q.n = 1 ELSE q.step = "get" /\ q.n = r.n + 1
  PROVE  OnPlan(n, q)
  <1>1. Len(Plan[n]) \in Nat /\ Len(Plan[n]) > 0 /\ r.n \in Nat /\ r.got \in Seq(Versions)
        /\ Sound \in Versions
    BY PlanFacts DEF JobType, Versions
  <1>2. /\ r.n \in 1..Len(Plan[n]) /\ Len(r.got) = r.n - 1 /\ Len(r.saved) = 0 /\ r.requests <= 0
        /\ \A m \in 1..Len(r.got) : r.got[m] = Sound
        /\ \A m \in 1..Len(r.saved) : r.saved[m] = 1
    BY DEF OnPlan, SavedBy, Spendable
  <1>3. Len(q.got) = r.n /\ \A m \in 1..Len(q.got) : q.got[m] = Sound
    <2>1. Len(q.got) = Len(r.got) + 1 /\ \A m \in 1..(Len(r.got) + 1) : q.got[m] = Sound
      BY <1>1, <1>2, AppendSame
    <2>2. QED
      BY <1>1, <1>2, <2>1
  <1>4. CASE r.n = Len(Plan[n])
    BY <1>1, <1>2, <1>3, <1>4 DEF OnPlan, SavedBy, Spendable, JobType
  <1>5. CASE r.n # Len(Plan[n])
    <2>1. q.step = "get" /\ q.n = r.n + 1
      BY <1>5
    <2>2. q.n \in 1..Len(Plan[n]) /\ Len(q.got) = q.n - 1
      BY <1>1, <1>2, <1>3, <1>5, <2>1
    <2>3. SavedBy(q, Len(Plan[n]) + 1) = 0 /\ Spendable(q, Len(Plan[n]) + 1) = 0
      BY <2>1 DEF SavedBy, Spendable
    <2>4. QED
      BY <1>2, <1>3, <2>1, <2>2, <2>3 DEF OnPlan
  <1>6. QED
    BY <1>4, <1>5

LEMMA ListOnPlan ==
  ASSUME NEW n \in Intents, NEW r \in JobType, OnPlan(n, r), r.step = "list",
         NEW q \in JobType, q.n = r.n, q.got = r.got, q.scoped = TRUE,
         q.requests = r.requests + (IF r.scoped THEN 1 ELSE 4),
         \/ q.step = "readback" /\ q.saved = Append(r.saved, 1)
         \/ q.step = "post" /\ q.saved = r.saved
  PROVE  OnPlan(n, q)
  <1>1. Len(Plan[n]) \in Nat /\ r.n \in Nat /\ r.saved \in Seq(Nat) /\ r.requests \in Nat
        /\ r.scoped \in BOOLEAN
    BY PlanFacts DEF JobType
  <1>2. /\ r.n \in 1..(Len(Plan[n]) + 1) /\ Len(r.got) = Len(Plan[n]) /\ Len(r.saved) = r.n - 1
        /\ r.requests <= 4 * (r.n - 1) + (IF r.scoped THEN 3 ELSE 0)
        /\ \A m \in 1..Len(r.got) : r.got[m] = Sound
        /\ \A m \in 1..Len(r.saved) : r.saved[m] = 1
    BY DEF OnPlan, SavedBy, Spendable
  <1>3. q.requests <= 4 * r.n
    <2>1. CASE r.scoped
      BY <1>1, <1>2, <2>1
    <2>2. CASE ~r.scoped
      BY <1>1, <1>2, <2>2
    <2>3. QED
      BY <2>1, <2>2
  <1>4. CASE q.step = "readback"
    <2>1. q.saved = Append(r.saved, 1) /\ 1 \in Nat
      <3>1. q.step # "post"
        BY <1>4
      <3>2. QED
        BY <3>1
    <2>5. /\ Len(q.saved) = Len(r.saved) + 1
          /\ \A m \in 1..(Len(r.saved) + 1) : q.saved[m] = 1
      BY <1>1, <1>2, <2>1, AppendSame
    <2>2. Len(q.saved) = r.n /\ \A m \in 1..Len(q.saved) : q.saved[m] = 1
      BY <1>1, <1>2, <2>5
    <2>3. q.requests <= 4 * r.n + 1
      BY <1>1, <1>3 DEF JobType
    <2>4. QED
      BY <1>1, <1>2, <1>4, <2>2, <2>3 DEF OnPlan, SavedBy, Spendable
  <1>5. CASE q.step = "post"
    BY <1>1, <1>2, <1>3, <1>5 DEF OnPlan, SavedBy, Spendable
  <1>6. QED
    BY <1>4, <1>5

LEMMA PostOnPlan ==
  ASSUME NEW n \in Intents, NEW r \in JobType, OnPlan(n, r), r.step = "post",
         NEW q \in JobType, q.n = r.n, q.got = r.got, q.saved = r.saved, q.step = "posted",
         q.scoped = r.scoped, q.requests = r.requests + 1
  PROVE  OnPlan(n, q)
  <1>1. Len(Plan[n]) \in Nat /\ r.n \in Nat /\ r.requests \in Nat
    BY PlanFacts DEF JobType
  <1>2. /\ r.n \in 1..(Len(Plan[n]) + 1) /\ Len(r.got) = Len(Plan[n]) /\ Len(r.saved) = r.n - 1
        /\ r.requests <= 4 * r.n /\ r.scoped = TRUE
        /\ \A m \in 1..Len(r.got) : r.got[m] = Sound
        /\ \A m \in 1..Len(r.saved) : r.saved[m] = 1
    BY DEF OnPlan, SavedBy, Spendable
  <1>3. q.requests <= 4 * r.n + 1
    BY <1>1, <1>2
  <1>4. QED
    BY <1>1, <1>2, <1>3 DEF OnPlan, SavedBy, Spendable

LEMMA AnswerOnPlan ==
  ASSUME NEW n \in Intents, NEW r \in JobType, OnPlan(n, r), r.step = "posted",
         NEW q \in JobType, q.n = r.n, q.got = r.got, q.saved = Append(r.saved, 1), q.step = "readback",
         q.scoped = r.scoped, q.requests = r.requests
  PROVE  OnPlan(n, q)
  <1>1. Len(Plan[n]) \in Nat /\ r.n \in Nat /\ r.saved \in Seq(Nat)
    BY PlanFacts DEF JobType
  <1>2. /\ r.n \in 1..(Len(Plan[n]) + 1) /\ Len(r.got) = Len(Plan[n]) /\ Len(r.saved) = r.n - 1
        /\ r.requests <= 4 * r.n + 1 /\ r.scoped = TRUE
        /\ \A m \in 1..Len(r.got) : r.got[m] = Sound
        /\ \A m \in 1..Len(r.saved) : r.saved[m] = 1
    BY DEF OnPlan, SavedBy, Spendable
  <1>3. /\ Len(q.saved) = Len(r.saved) + 1
        /\ \A m \in 1..(Len(r.saved) + 1) : q.saved[m] = 1
    BY <1>1, <1>2, AppendSame
  <1>4. Len(q.saved) = r.n /\ \A m \in 1..Len(q.saved) : q.saved[m] = 1
    BY <1>1, <1>2, <1>3
  <1>5. QED
    BY <1>1, <1>2, <1>4 DEF OnPlan, SavedBy, Spendable

LEMMA ReadbackOnPlan ==
  ASSUME NEW n \in Intents, NEW r \in JobType, OnPlan(n, r), r.step = "readback",
         NEW q \in JobType, q.got = r.got, q.saved = r.saved, q.scoped = r.scoped,
         q.requests = r.requests + 2,
         IF r.n = Len(Plan[n]) + 1 THEN q.step = "restore" /\ q.n = r.n
                                   ELSE q.step = "list" /\ q.n = r.n + 1
  PROVE  OnPlan(n, q)
  <1>1. PICK K \in Nat : K = Len(Plan[n]) + 1
    BY PlanFacts
  <1>2. r.n \in Nat /\ r.requests \in Nat /\ q.n \in Nat /\ Len(Plan[n]) \in Nat
    BY PlanFacts DEF JobType
  <1>3. /\ r.n \in 1..K /\ Len(r.got) = Len(Plan[n]) /\ Len(r.saved) = SavedBy(r, K)
        /\ r.requests <= Spendable(r, K) /\ r.scoped = TRUE
        /\ \A m \in 1..Len(r.got) : r.got[m] = Sound
        /\ \A m \in 1..Len(r.saved) : r.saved[m] = 1
    BY <1>1 DEF OnPlan
  <1>4. Len(r.saved) = r.n /\ r.requests <= 4 * r.n + 1
    <2>1. SavedBy(r, K) = r.n /\ Spendable(r, K) = 4 * r.n + 1
      BY Bounds
    <2>2. QED
      BY <1>3, <2>1
  <1>5. q.requests <= 4 * r.n + 3
    BY <1>2, <1>4
  <1>6. CASE r.n = K
    <2>1. q.step = "restore" /\ q.n = K
      BY <1>1, <1>6
    <2>2. Spendable(q, K) = 4 * K + 3 + 2 * (K - q.n) /\ SavedBy(q, K) = K
      BY <2>1, Bounds
    <2>3. q.requests <= Spendable(q, K) /\ Len(q.saved) = SavedBy(q, K)
      BY <1>2, <1>4, <1>5, <1>6, <2>1, <2>2
    <2>4. QED
      BY <1>1, <1>3, <2>1, <2>3 DEF OnPlan
  <1>7. CASE r.n # K
    <2>1. q.step = "list" /\ q.n = r.n + 1 /\ q.scoped = TRUE
      BY <1>1, <1>3, <1>7
    <2>2. Spendable(q, K) = 4 * (q.n - 1) + 3 /\ SavedBy(q, K) = q.n - 1
      BY <2>1, Bounds
    <2>3. q.requests <= Spendable(q, K) /\ Len(q.saved) = SavedBy(q, K) /\ q.n \in 1..K
      <3>1. q.requests <= 4 * (q.n - 1) + 3 /\ Len(q.saved) = q.n - 1
        BY <1>2, <1>4, <1>5, <2>1
      <3>2. q.n \in 1..K
        BY <1>2, <1>3, <1>7, <2>1
      <3>3. QED
        BY <2>2, <3>1, <3>2
    <2>4. QED
      BY <1>1, <1>3, <2>1, <2>3 DEF OnPlan
  <1>8. QED
    BY <1>6, <1>7

LEMMA RestoreOnPlan ==
  ASSUME NEW n \in Intents, NEW r \in JobType, OnPlan(n, r), r.step = "restore",
         NEW q \in JobType, q.n = r.n - 1, q.got = r.got, q.saved = r.saved,
         q.requests = r.requests + 2, q.step = IF r.n = 1 THEN "done" ELSE "restore"
  PROVE  OnPlan(n, q)
  <1>1. PICK K \in Nat : K = Len(Plan[n]) + 1
    BY PlanFacts
  <1>2. r.n \in Nat /\ r.requests \in Nat /\ q.n \in Nat /\ q.requests \in Nat
    BY DEF JobType
  <1>3. /\ r.n \in 1..K /\ Len(r.got) = Len(Plan[n]) /\ Len(r.saved) = SavedBy(r, K)
        /\ r.requests <= Spendable(r, K)
        /\ \A m \in 1..Len(r.got) : r.got[m] = Sound
        /\ \A m \in 1..Len(r.saved) : r.saved[m] = 1
    BY <1>1 DEF OnPlan
  <1>4. Len(r.saved) = K /\ r.requests <= 4 * K + 3 + 2 * (K - r.n)
    <2>1. SavedBy(r, K) = K /\ Spendable(r, K) = 4 * K + 3 + 2 * (K - r.n)
      BY Bounds
    <2>2. QED
      BY <1>3, <2>1
  <1>5. q.step \in {"restore", "done"} /\ (q.step = "done" => r.n = 1) /\ (q.step = "restore" => r.n # 1)
    OBVIOUS
  <1>6. Spendable(q, K) = 4 * K + 3 + 2 * (K - q.n) /\ SavedBy(q, K) = K
    BY <1>5, Bounds
  <1>7. q.requests <= Spendable(q, K) /\ Len(q.saved) = SavedBy(q, K)
    <2>1. PICK a \in Nat, b \in Nat : a = r.n /\ b = r.requests
      BY <1>2
    <2>2. a >= 1 /\ b <= 4 * K + 3 + 2 * (K - a) /\ q.n = a - 1 /\ q.requests = b + 2
      BY <1>3, <1>4, <2>1
    <2>3. b + 2 <= 4 * K + 3 + 2 * (K - (a - 1))
      BY <2>2
    <2>4. QED
      BY <1>4, <1>6, <2>2, <2>3
  <1>8. q.n \in (IF q.step = "done" THEN {0} ELSE 1..K)
    BY <1>2, <1>3, <1>5
  <1>9. CASE q.step = "done"
    BY <1>1, <1>3, <1>7, <1>8, <1>9 DEF OnPlan
  <1>10. CASE q.step = "restore"
    BY <1>1, <1>3, <1>7, <1>8, <1>10 DEF OnPlan
  <1>11. QED
    BY <1>5, <1>9, <1>10

\* A run on its plan can always pay for its next step.
LEMMA OnPlanAffords ==
  ASSUME NEW h \in Hosts, job[h] \in JobType, NEW n \in Intents, OnPlan(n, job[h])
  PROVE  job[h].requests <= RequestCap /\ WithinRequests(h)
  <1>1. PICK r \in JobType : r = job[h]
    OBVIOUS
  <1>2. r.step \in Steps
    BY DEF JobType
  <1>3. PICK K \in Nat : K = Len(Plan[n]) + 1
    BY PlanFacts
  <1>4. PICK a \in Nat, b \in Nat, cap \in Nat :
          a = r.n /\ b = r.requests /\ cap = RequestCap /\ 6 * K + 3 <= cap
    BY <1>3, PlanFacts DEF JobType
  <1>5. b <= Spendable(r, K) /\ (r.step = "done" => a = 0) /\ (r.step # "done" => 1 <= a /\ a <= K)
    <2>1. Len(Plan[n]) \in Nat
      BY PlanFacts
    <2>2. QED
      BY <1>1, <1>3, <1>4, <2>1 DEF OnPlan
  <1>6. SUFFICES b + Requests(h) <= cap /\ b <= cap
    BY <1>1, <1>4 DEF WithinRequests
  <1>7. CASE r.step \in {"head", "get"}
    <2>1. Requests(h) = 0 /\ Spendable(r, K) = 0
      BY <1>1, <1>7, Bounds DEF Requests
    <2>2. QED
      BY <1>4, <1>5, <2>1
  <1>8. CASE r.step = "list"
    <2>1. Spendable(r, K) = 4 * (r.n - 1) + (IF r.scoped THEN 3 ELSE 0)
      BY <1>8, Bounds
    <2>2. Requests(h) = IF r.scoped THEN 1 ELSE 4
      BY <1>1, <1>8 DEF Requests, Scoped
    <2>3. CASE r.scoped
      BY <1>4, <1>5, <1>8, <2>1, <2>2, <2>3
    <2>4. CASE ~r.scoped
      BY <1>4, <1>5, <1>8, <2>1, <2>2, <2>4
    <2>5. QED
      BY <2>3, <2>4
  <1>9. CASE r.step = "post"
    <2>1. Requests(h) = 1 /\ Spendable(r, K) = 4 * a
      BY <1>1, <1>4, <1>9, Bounds DEF Requests
    <2>2. QED
      BY <1>4, <1>5, <1>9, <2>1
  <1>10. CASE r.step \in {"posted", "readback"}
    <2>1. Requests(h) \in {0, 2} /\ Spendable(r, K) = 4 * a + 1
      BY <1>1, <1>4, <1>10, Bounds DEF Requests
    <2>2. PICK c \in {0, 2} : c = Requests(h)
      BY <2>1
    <2>3. b + c <= cap /\ b <= cap
      BY <1>4, <1>5, <1>10, <2>1
    <2>4. QED
      BY <2>2, <2>3
  <1>11. CASE r.step = "restore"
    <2>1. Requests(h) = 2 /\ Spendable(r, K) = 4 * K + 3 + 2 * (K - a)
      BY <1>1, <1>4, <1>11, Bounds DEF Requests
    <2>2. QED
      BY <1>4, <1>5, <1>11, <2>1
  <1>12. CASE r.step = "done"
    <2>1. Requests(h) = 0 /\ Spendable(r, K) = 4 * K + 3 + 2 * (K - a)
      BY <1>1, <1>4, <1>12, Bounds DEF Requests
    <2>2. QED
      BY <1>4, <1>5, <1>12, <2>1
  <1>13. QED
    BY <1>2, <1>7, <1>8, <1>9, <1>10, <1>11, <1>12 DEF Steps

-----------------------------------------------------------------------------
(* The whole of Planned *)

\* Once a run is past its downloads, the file it is at is one its plan describes.
LEMMA FileIsWanted ==
  ASSUME NEW h \in Hosts, NEW n \in Intents, n = host[h].intent, OnPlan(n, job[h]),
         job[h].step \notin {"head", "get"}, NEW m \in 1..(Len(Plan[n]) + 1)
  PROVE  File(h, m) = Wanted(n, m) /\ Wanted(n, m) \in Names
  <1>1. PICK L \in Nat : L = Len(Plan[n])
    BY PlanFacts
  <1>2. Len(job[h].got) = L /\ \A i \in 1..Len(job[h].got) : job[h].got[i] = Sound
    BY <1>1 DEF OnPlan
  <1>3. m \in Nat /\ (m <= L => job[h].got[m] = Sound)
    BY <1>1, <1>2
  <1>4. File(h, m) = Wanted(n, m)
    BY <1>1, <1>3 DEF File, Keyed, Wanted
  <1>5. QED
    BY <1>4, PlanFacts

\* The bounds are numbers at every step of a run on its plan.
LEMMA CountsTyped ==
  ASSUME NEW n \in Intents, NEW r \in JobType, OnPlan(n, r), NEW K \in Nat, K = Len(Plan[n]) + 1
  PROVE  SavedBy(r, K) \in Nat /\ ReadBy(r, K) \in Nat
  <1>1. r.n \in Nat /\ r.step \in Steps /\ Len(Plan[n]) \in Nat
    BY PlanFacts DEF JobType
  <1>2. r.step \in {"list", "post", "posted", "readback"} => r.n >= 1
    BY <1>1 DEF OnPlan
  <1>3. CASE r.step \in {"list", "post", "posted", "readback"}
    <2>1. SavedBy(r, K) \in {r.n - 1, r.n} /\ ReadBy(r, K) = r.n - 1
      BY <1>3, Bounds
    <2>2. r.n - 1 \in Nat
      BY <1>1, <1>2, <1>3
    <2>3. QED
      BY <1>1, <2>1, <2>2
  <1>4. CASE r.step \in {"head", "get"}
    BY <1>4, Bounds
  <1>5. CASE r.step \in {"restore", "done"}
    BY <1>5, Bounds
  <1>6. QED
    BY <1>1, <1>3, <1>4, <1>5 DEF Steps

\* A step that saves or reads back at most one more file keeps the rest of them.
LEMMA StoredGrows ==
  ASSUME NEW n \in Intents, NEW r \in JobType, OnPlan(n, r), Stored(n, r),
         NEW q \in JobType, NEW K \in Nat, K = Len(Plan[n]) + 1,
         \/ SavedBy(q, K) = SavedBy(r, K)
         \/ SavedBy(q, K) = SavedBy(r, K) + 1 /\ files[Wanted(n, SavedBy(r, K) + 1)] # <<>>,
         \/ ReadBy(q, K) = ReadBy(r, K)
         \/ ReadBy(q, K) = ReadBy(r, K) + 1 /\ Intact(Wanted(n, ReadBy(r, K) + 1))
  PROVE  Stored(n, q)
  <1>1. PICK a \in Nat, b \in Nat : a = SavedBy(r, K) /\ b = ReadBy(r, K)
    BY CountsTyped
  <1>2. /\ \A m \in 1..a : files[Wanted(n, m)] # <<>>
        /\ \A m \in 1..b : Intact(Wanted(n, m))
    BY <1>1 DEF Stored
  <1>3. \A m \in 1..(a + 1) : m \in 1..a \/ m = a + 1
    OBVIOUS
  <1>4. \A m \in 1..(b + 1) : m \in 1..b \/ m = b + 1
    OBVIOUS
  <1>5. \A m \in 1..SavedBy(q, K) : files[Wanted(n, m)] # <<>>
    <2>1. CASE SavedBy(q, K) = a
      BY <1>2, <2>1
    <2>2. CASE SavedBy(q, K) = a + 1 /\ files[Wanted(n, a + 1)] # <<>>
      BY <1>2, <1>3, <2>2
    <2>3. QED
      BY <1>1, <2>1, <2>2
  <1>6. \A m \in 1..ReadBy(q, K) : Intact(Wanted(n, m))
    <2>1. CASE ReadBy(q, K) = b
      BY <1>2, <2>1
    <2>2. CASE ReadBy(q, K) = b + 1 /\ Intact(Wanted(n, b + 1))
      BY <1>2, <1>4, <2>2
    <2>3. QED
      BY <1>1, <2>1, <2>2
  <1>7. QED
    BY <1>5, <1>6 DEF Stored

\* A step of a running host that leaves the folder alone.
LEMMA RunnerStep ==
  ASSUME RInv, NEW h \in Hosts, host[h].pc = "running", NEW q \in JobType, Goes(h, q),
         UNCHANGED <<serialVars, source, files>>, UploadsTyped',
         OnPlan(host[h].intent, q), Stored(host[h].intent, q)
  PROVE  Planned'
  <1>1. /\ job'[h] = q /\ job' = [k \in Hosts |-> job'[k]]
        /\ \A k \in Hosts \ {h} : job'[k] = job[k]
    BY GoesEffect DEF RInv
  <1>2. job' \in [Hosts -> JobType]
    <2>1. \A k \in Hosts : job'[k] \in JobType
      BY <1>1 DEF RInv, Planned
    <2>2. QED
      BY <1>1, <2>1
  <1>3. Progress(h)'
    BY <1>1 DEF Progress, Stored, Intact, serialVars, Working
  <1>4. ASSUME NEW k \in Hosts \ {h}
        PROVE  Progress(k)'
    <2>1. Progress(k) /\ job'[k] = job[k]
      BY <1>1 DEF RInv, Planned
    <2>2. QED
      BY <2>1 DEF Progress, Stored, Intact, serialVars, Working
  <1>5. ReceiptTrue'
    BY DEF RInv, Planned, ReceiptTrue, serialVars
  <1>6. QED
    BY <1>2, <1>3, <1>4, <1>5 DEF RInv, Planned

\* What a running host starts from.
LEMMA Runner ==
  ASSUME RInv, NEW h \in Hosts, host[h].pc = "running"
  PROVE  /\ job[h] \in JobType /\ host[h].intent \in Intents
         /\ OnPlan(host[h].intent, job[h]) /\ Stored(host[h].intent, job[h])
  BY DEF RInv, RunInv, SerialInv, SerialTypeOK, Planned, Progress, Working

\* What a host has sent and what its step may send are numbers.
LEMMA CountedType ==
  ASSUME NEW h \in Hosts, NEW r \in JobType, r = job[h]
  PROVE  /\ Counted(h) \in Nat
         /\ r.step = "list" => Counted(h) = r.requests + (IF r.scoped THEN 1 ELSE 4)
         /\ r.step = "post" => Counted(h) = r.requests + 1
         /\ r.step \in {"readback", "restore"} => Counted(h) = r.requests + 2
  <1>1. r.requests \in Nat /\ r.step \in Steps
    BY DEF JobType
  <1>2. CASE r.step = "list"
    <2>1. Requests(h) = IF r.scoped THEN 1 ELSE 4
      BY <1>2 DEF Requests, Scoped
    <2>2. QED
      BY <1>1, <1>2, <2>1 DEF Counted
  <1>3. CASE r.step = "post"
    <2>1. Requests(h) = 1
      BY <1>3 DEF Requests
    <2>2. QED
      BY <1>1, <1>3, <2>1 DEF Counted
  <1>4. CASE r.step \in {"readback", "restore"}
    <2>1. Requests(h) = 2
      BY <1>4 DEF Requests
    <2>2. QED
      BY <1>1, <1>4, <2>1 DEF Counted
  <1>5. CASE r.step \in {"head", "get", "posted", "done"}
    <2>1. Requests(h) = 0
      BY <1>5 DEF Requests
    <2>2. QED
      BY <1>1, <1>5, <2>1 DEF Counted
  <1>6. QED
    BY <1>1, <1>2, <1>3, <1>4, <1>5 DEF Steps

\* The steps of a running host keep Planned.
LEMMA HeadObjectKeeps ==
  ASSUME RInv, NEW h \in Hosts, HeadObject(h)
  PROVE  Planned'
  <1>1. PICK n \in Intents, r \in JobType :
          /\ n = host[h].intent /\ r = job[h] /\ r.step = "head" /\ host[h].pc = "running"
          /\ OnPlan(n, r) /\ Stored(n, r)
    BY Runner DEF HeadObject, At
  <1>2. PICK K \in Nat : K = Len(Plan[n]) + 1
    BY PlanFacts
  <1>3. PICK e \in Seq(Versions), s \in Steps, k \in Nat :
          /\ e = Append(r.etags, source[Plan[n][r.n]])
          /\ s = IF r.n = Len(Plan[n]) THEN "get" ELSE "head"
          /\ k = IF r.n = Len(Plan[n]) THEN 1 ELSE r.n + 1
    <2>1. r.n \in 1..Len(Plan[n]) /\ r.n \in Nat /\ r.etags \in Seq(Versions)
      BY <1>1 DEF OnPlan, JobType
    <2>2. source[Plan[n][r.n]] \in Versions
      BY <2>1, PlanFacts DEF RInv, Planned
    <2>3. Append(r.etags, source[Plan[n][r.n]]) \in Seq(Versions)
      BY <2>1, <2>2, AppendProperties
    <2>4. PICK e \in Seq(Versions) : e = Append(r.etags, source[Plan[n][r.n]])
      BY <2>3
    <2>5. CASE r.n = Len(Plan[n])
      BY <2>4, <2>5 DEF Steps
    <2>6. CASE r.n # Len(Plan[n])
      <3>1. r.n + 1 \in Nat
        BY <2>1
      <3>2. QED
        BY <2>4, <2>6, <3>1 DEF Steps
    <2>7. QED
      BY <2>5, <2>6
  <1>4. Goes(h, [r EXCEPT !.etags = e, !.step = s, !.n = k]) /\ UNCHANGED <<serialVars, source, files, flight>>
    BY <1>1, <1>3 DEF HeadObject, Keyed
  <1>5. PICK q \in JobType :
          /\ q = [r EXCEPT !.etags = e, !.step = s, !.n = k]
          /\ q.step = s /\ q.n = k /\ q.got = r.got /\ q.saved = r.saved /\ q.requests = r.requests
    <2> DEFINE q == [r EXCEPT !.etags = e, !.step = s, !.n = k]
    <2>1. q \in JobType
      BY DEF JobType
    <2>2. q.step = s /\ q.n = k /\ q.got = r.got /\ q.saved = r.saved /\ q.requests = r.requests
      BY DEF JobType
    <2>3. QED
      BY <2>1, <2>2
  <1>6. IF r.n = Len(Plan[n]) THEN q.step = "get" /\ q.n = 1 ELSE q.step = "head" /\ q.n = r.n + 1
    BY <1>3, <1>5
  <1>7. OnPlan(n, q) /\ q.step \in {"get", "head"}
    BY <1>1, <1>5, <1>6, HeadOnPlan
  <1>8. SavedBy(q, K) = SavedBy(r, K) /\ ReadBy(q, K) = ReadBy(r, K)
    BY <1>1, <1>7, Bounds
  <1>9. Stored(n, q)
    BY <1>1, <1>2, <1>8, StoredGrows
  <1>10. UploadsTyped'
    BY <1>4 DEF RInv, Planned, UploadsTyped
  <1>11. Goes(h, q)
    BY <1>4, <1>5
  <1>12. QED
    BY <1>1, <1>4, <1>7, <1>9, <1>10, <1>11, RunnerStep

LEMMA GetObjectKeeps ==
  ASSUME RInv, NEW h \in Hosts, GetObject(h)
  PROVE  Planned'
  <1>1. PICK n \in Intents, r \in JobType :
          /\ n = host[h].intent /\ r = job[h] /\ r.step = "get" /\ host[h].pc = "running"
          /\ OnPlan(n, r) /\ Stored(n, r)
    BY Runner DEF GetObject, At
  <1>2. PICK K \in Nat : K = Len(Plan[n]) + 1
    BY PlanFacts
  <1>3. PICK g \in Seq(Versions), s \in Steps, k \in Nat :
          /\ g = Append(r.got, Sound)
          /\ s = IF r.n = Len(Plan[n]) THEN "list" ELSE "get"
          /\ k = IF r.n = Len(Plan[n]) THEN 1 ELSE r.n + 1
    <2>1. r.n \in Nat /\ r.got \in Seq(Versions) /\ Sound \in Versions
      BY DEF JobType, Versions
    <2>2. Append(r.got, Sound) \in Seq(Versions)
      BY <2>1, AppendProperties
    <2>3. PICK g \in Seq(Versions) : g = Append(r.got, Sound)
      BY <2>2
    <2>4. CASE r.n = Len(Plan[n])
      BY <2>3, <2>4 DEF Steps
    <2>5. CASE r.n # Len(Plan[n])
      <3>1. r.n + 1 \in Nat
        BY <2>1
      <3>2. QED
        BY <2>3, <2>5, <3>1 DEF Steps
    <2>6. QED
      BY <2>4, <2>5
  <1>4. Goes(h, [r EXCEPT !.got = g, !.step = s, !.n = k]) /\ UNCHANGED <<serialVars, source, files, flight>>
    <2>1. source[Plan[n][r.n]] = Sound
      BY <1>1 DEF GetObject, Downloaded, Keyed
    <2>2. QED
      BY <1>1, <1>3, <2>1 DEF GetObject, Keyed
  <1>5. PICK q \in JobType :
          /\ q = [r EXCEPT !.got = g, !.step = s, !.n = k]
          /\ q.step = s /\ q.n = k /\ q.got = g /\ q.saved = r.saved /\ q.requests = r.requests
    <2> DEFINE q == [r EXCEPT !.got = g, !.step = s, !.n = k]
    <2>1. q \in JobType
      BY DEF JobType
    <2>2. q.step = s /\ q.n = k /\ q.got = g /\ q.saved = r.saved /\ q.requests = r.requests
      BY DEF JobType
    <2>3. QED
      BY <2>1, <2>2
  <1>6. IF r.n = Len(Plan[n]) THEN q.step = "list" /\ q.n = 1 ELSE q.step = "get" /\ q.n = r.n + 1
    BY <1>3, <1>5
  <1>7. OnPlan(n, q)
    <2>1. q.got = Append(r.got, Sound) /\ q.saved = r.saved /\ q.requests = r.requests
      BY <1>3, <1>5
    <2>2. QED
      BY <1>1, <1>6, <2>1, GetOnPlan
  <1>8. SavedBy(q, K) = SavedBy(r, K) /\ ReadBy(q, K) = ReadBy(r, K)
    <2>1. SavedBy(r, K) = 0 /\ ReadBy(r, K) = 0
      BY <1>1, Bounds
    <2>2. CASE r.n = Len(Plan[n])
      <3>1. q.step = "list" /\ q.n = 1
        BY <1>6, <2>2
      <3>2. SavedBy(q, K) = q.n - 1 /\ ReadBy(q, K) = q.n - 1
        BY <3>1, Bounds
      <3>3. QED
        BY <2>1, <3>1, <3>2
    <2>3. CASE r.n # Len(Plan[n])
      <3>1. q.step = "get"
        BY <1>6, <2>3
      <3>2. SavedBy(q, K) = 0 /\ ReadBy(q, K) = 0
        BY <3>1, Bounds
      <3>3. QED
        BY <2>1, <3>2
    <2>4. QED
      BY <2>2, <2>3
  <1>9. Stored(n, q)
    BY <1>1, <1>2, <1>8, StoredGrows
  <1>10. UploadsTyped'
    BY <1>4 DEF RInv, Planned, UploadsTyped
  <1>11. Goes(h, q)
    BY <1>4, <1>5
  <1>12. QED
    BY <1>1, <1>4, <1>7, <1>9, <1>10, <1>11, RunnerStep

LEMMA ListKeeps ==
  ASSUME RInv, NEW h \in Hosts, List(h)
  PROVE  Planned'
  <1>1. PICK n \in Intents, r \in JobType :
          /\ n = host[h].intent /\ r = job[h] /\ r.step = "list" /\ host[h].pc = "running"
          /\ OnPlan(n, r) /\ Stored(n, r)
    BY Runner DEF List, At
  <1>2. PICK K \in Nat : K = Len(Plan[n]) + 1
    BY PlanFacts
  <1> DEFINE found == Len(files[File(h, r.n)])
  <1>3. PICK s \in Steps, v \in Seq(Nat), c \in Nat :
          /\ s = IF found = 1 THEN "readback" ELSE "post"
          /\ v = IF found = 1 THEN Append(r.saved, 1) ELSE r.saved
          /\ c = Counted(h) /\ c = r.requests + (IF r.scoped THEN 1 ELSE 4)
    <2>1. r.saved \in Seq(Nat) /\ 1 \in Nat
      BY DEF JobType
    <2>2. Append(r.saved, 1) \in Seq(Nat)
      BY <2>1, AppendProperties
    <2>3. QED
      BY <1>1, <2>1, <2>2, CountedType DEF Steps
  <1>4. Goes(h, [r EXCEPT !.step = s, !.saved = v, !.scoped = TRUE, !.requests = c])
        /\ UNCHANGED <<serialVars, source, files, flight>>
    BY <1>1, <1>3 DEF List
  <1>5. PICK q \in JobType :
          /\ q = [r EXCEPT !.step = s, !.saved = v, !.scoped = TRUE, !.requests = c]
          /\ q.step = s /\ q.n = r.n /\ q.got = r.got /\ q.saved = v /\ q.requests = c /\ q.scoped = TRUE
    <2> DEFINE q == [r EXCEPT !.step = s, !.saved = v, !.scoped = TRUE, !.requests = c]
    <2>1. q \in JobType
      BY DEF JobType
    <2>2. q.step = s /\ q.n = r.n /\ q.got = r.got /\ q.saved = v /\ q.requests = c /\ q.scoped = TRUE
      BY DEF JobType
    <2>3. QED
      BY <2>1, <2>2
  <1>6. \/ q.step = "readback" /\ q.saved = Append(r.saved, 1) /\ found = 1
        \/ q.step = "post" /\ q.saved = r.saved
    BY <1>3, <1>5
  <1>7. OnPlan(n, q)
    <2>1. q.requests = r.requests + (IF r.scoped THEN 1 ELSE 4)
      BY <1>3, <1>5
    <2>2. \/ q.step = "readback" /\ q.saved = Append(r.saved, 1)
          \/ q.step = "post" /\ q.saved = r.saved
      BY <1>6
    <2> HIDE DEF found
    <2>3. QED
      BY <1>1, <1>5, <2>1, <2>2, ListOnPlan
  <1>8. ReadBy(q, K) = ReadBy(r, K) /\ SavedBy(r, K) = r.n - 1
    <2>1. ReadBy(r, K) = r.n - 1 /\ SavedBy(r, K) = r.n - 1
      BY <1>1, Bounds
    <2>2. q.step \in {"readback", "post"}
      BY <1>6
    <2>3. ReadBy(q, K) = q.n - 1
      BY <2>2, Bounds
    <2>4. QED
      BY <1>5, <2>1, <2>3
  <1>9. Stored(n, q)
    <2>1. CASE q.step = "post"
      <3>1. SavedBy(q, K) = q.n - 1
        BY <2>1, Bounds
      <3>2. SavedBy(q, K) = SavedBy(r, K)
        BY <1>5, <1>8, <3>1
      <3>3. QED
        BY <1>1, <1>2, <1>8, <3>2, StoredGrows
    <2>2. CASE q.step = "readback"
      <3>1. SavedBy(q, K) = q.n
        BY <2>2, Bounds
      <3>2. SavedBy(r, K) + 1 = r.n /\ SavedBy(q, K) = SavedBy(r, K) + 1
        <4>1. r.n \in Nat
          BY DEF JobType
        <4>2. (r.n - 1) + 1 = r.n
          BY <4>1
        <4>3. QED
          BY <1>5, <1>8, <3>1, <4>2
      <3>3. files[Wanted(n, r.n)] # <<>>
        <4>1. r.n \in 1..(Len(Plan[n]) + 1)
          BY <1>1 DEF OnPlan
        <4>2. File(h, r.n) = Wanted(n, r.n)
          BY <1>1, <4>1, FileIsWanted
        <4>3. found = 1
          BY <1>6, <2>2
        <4>4. Len(<<>>) = 0
          OBVIOUS
        <4>5. Len(files[Wanted(n, r.n)]) # Len(<<>>)
          BY <4>2, <4>3, <4>4
        <4>6. QED
          BY <4>5
      <3>4. files[Wanted(n, SavedBy(r, K) + 1)] # <<>>
        BY <3>2, <3>3
      <3>5. QED
        BY <1>1, <1>2, <1>8, <3>2, <3>4, StoredGrows
    <2>3. QED
      BY <1>6, <2>1, <2>2
  <1>10. UploadsTyped'
    BY <1>4 DEF RInv, Planned, UploadsTyped
  <1>11. Goes(h, q)
    BY <1>4, <1>5
  <1>12. QED
    BY <1>1, <1>4, <1>7, <1>9, <1>10, <1>11, RunnerStep

LEMMA PostKeeps ==
  ASSUME RInv, NEW h \in Hosts, Post(h)
  PROVE  Planned'
  <1>1. PICK n \in Intents, r \in JobType :
          /\ n = host[h].intent /\ r = job[h] /\ r.step = "post" /\ host[h].pc = "running"
          /\ OnPlan(n, r) /\ Stored(n, r)
    BY Runner DEF Post, At
  <1>2. PICK K \in Nat : K = Len(Plan[n]) + 1
    BY PlanFacts
  <1>3. PICK c \in Nat : c = Counted(h) /\ c = r.requests + 1
    BY <1>1, CountedType
  <1>4. /\ Goes(h, [r EXCEPT !.step = "posted", !.requests = c])
        /\ flight' = flight \union {[id |-> host[h].id, name |-> File(h, r.n), landed |-> 0]}
        /\ UNCHANGED <<serialVars, source, files>>
    BY <1>1, <1>3 DEF Post
  <1>5. PICK q \in JobType :
          /\ q = [r EXCEPT !.step = "posted", !.requests = c]
          /\ q.step = "posted" /\ q.n = r.n /\ q.got = r.got /\ q.saved = r.saved /\ q.requests = c /\ q.scoped = r.scoped
    <2> DEFINE q == [r EXCEPT !.step = "posted", !.requests = c]
    <2>1. q \in JobType
      BY DEF JobType, Steps
    <2>2. q.step = "posted" /\ q.n = r.n /\ q.got = r.got /\ q.saved = r.saved /\ q.requests = c /\ q.scoped = r.scoped
      BY DEF JobType
    <2>3. QED
      BY <2>1, <2>2
  <1>6. OnPlan(n, q)
    <2>1. q.requests = r.requests + 1
      BY <1>3, <1>5
    <2>2. QED
      BY <1>1, <1>5, <2>1, PostOnPlan
  <1>7. SavedBy(q, K) = SavedBy(r, K) /\ ReadBy(q, K) = ReadBy(r, K)
    <2>1. SavedBy(r, K) = r.n - 1 /\ ReadBy(r, K) = r.n - 1
      BY <1>1, Bounds
    <2>2. SavedBy(q, K) = q.n - 1 /\ ReadBy(q, K) = q.n - 1
      BY <1>5, Bounds
    <2>3. QED
      BY <1>5, <2>1, <2>2
  <1>8. Stored(n, q)
    BY <1>1, <1>2, <1>7, StoredGrows
  <1>9. UploadsTyped'
    <2>1. r.n \in 1..(Len(Plan[n]) + 1)
      BY <1>1 DEF OnPlan
    <2>2. File(h, r.n) \in Names
      BY <1>1, <2>1, FileIsWanted
    <2>3. host[h].id \in Ids
      BY DEF RInv, RunInv, SerialInv, SerialTypeOK
    <2>4. 0 \in 0..Len(files[File(h, r.n)])
      <3>1. Len(files[File(h, r.n)]) \in Nat
        BY <2>2 DEF RInv, RunInv
      <3>2. QED
        BY <3>1
    <2>5. QED
      BY <1>4, <2>2, <2>3, <2>4 DEF RInv, Planned, UploadsTyped
  <1>10. Goes(h, q)
    BY <1>4, <1>5
  <1>11. QED
    BY <1>1, <1>4, <1>6, <1>8, <1>9, <1>10, RunnerStep

LEMMA AnsweredKeeps ==
  ASSUME RInv, NEW h \in Hosts, Answered(h)
  PROVE  Planned'
  <1>1. PICK n \in Intents, r \in JobType :
          /\ n = host[h].intent /\ r = job[h] /\ r.step = "posted" /\ host[h].pc = "running"
          /\ OnPlan(n, r) /\ Stored(n, r)
    BY Runner DEF Answered, At
  <1>2. PICK K \in Nat : K = Len(Plan[n]) + 1
    BY PlanFacts
  <1>3. PICK f \in flight :
          /\ f.name = File(h, r.n) /\ f.landed > 0 /\ flight' = flight \ {f}
          /\ Goes(h, [r EXCEPT !.step = "readback", !.saved = Append(r.saved, f.landed)])
    BY <1>1 DEF Answered
  <1> DEFINE name == Wanted(n, r.n)
  <1>4. f.name = name /\ name \in Names
    <2>1. r.n \in 1..(Len(Plan[n]) + 1)
      BY <1>1 DEF OnPlan
    <2>2. QED
      BY <1>1, <1>3, <2>1, FileIsWanted
  <1>5. f.landed = 1 /\ files[name] # <<>>
    <2>1. f.landed \in 0..Len(files[name])
      BY <1>4 DEF RInv, Planned, UploadsTyped
    <2>2. Len(files[name]) \in Nat /\ Len(files[name]) <= 1
      BY <1>4 DEF RInv, RunInv, NoDuplicateFiles
    <2>3. f.landed = 1 /\ Len(files[name]) = 1
      <3>1. PICK l \in Nat : l = Len(files[name])
        BY <2>2
      <3>2. f.landed \in 0..l /\ l <= 1
        BY <2>1, <2>2, <3>1
      <3>3. f.landed = 1 /\ l = 1
        BY <1>3, <3>2
      <3>4. QED
        BY <3>1, <3>3
    <2>4. Len(<<>>) = 0
      OBVIOUS
    <2>5. Len(files[name]) # Len(<<>>)
      BY <2>3, <2>4
    <2>6. QED
      BY <2>3, <2>5
  <1>6. PICK v \in Seq(Nat) : v = Append(r.saved, 1)
    <2>1. r.saved \in Seq(Nat) /\ 1 \in Nat
      BY DEF JobType
    <2>2. QED
      BY <2>1, AppendProperties
  <1>7. /\ Goes(h, [r EXCEPT !.step = "readback", !.saved = v])
        /\ UNCHANGED <<serialVars, source, files>>
    BY <1>3, <1>5, <1>6 DEF Answered
  <1>8. PICK q \in JobType :
          /\ q = [r EXCEPT !.step = "readback", !.saved = v]
          /\ q.step = "readback" /\ q.n = r.n /\ q.got = r.got /\ q.saved = v /\ q.requests = r.requests /\ q.scoped = r.scoped
    <2> DEFINE q == [r EXCEPT !.step = "readback", !.saved = v]
    <2>1. q \in JobType
      BY DEF JobType, Steps
    <2>2. q.step = "readback" /\ q.n = r.n /\ q.got = r.got /\ q.saved = v /\ q.requests = r.requests /\ q.scoped = r.scoped
      BY DEF JobType
    <2>3. QED
      BY <2>1, <2>2
  <1>9. OnPlan(n, q)
    <2>1. q.saved = Append(r.saved, 1)
      BY <1>8, <1>6
    <2>2. QED
      BY <1>1, <1>8, <2>1, AnswerOnPlan
  <1>10. SavedBy(q, K) = SavedBy(r, K) + 1 /\ ReadBy(q, K) = ReadBy(r, K) /\ SavedBy(r, K) + 1 = r.n
    <2>1. SavedBy(r, K) = r.n - 1 /\ ReadBy(r, K) = r.n - 1
      BY <1>1, Bounds
    <2>2. SavedBy(q, K) = q.n /\ ReadBy(q, K) = q.n - 1
      BY <1>8, Bounds
    <2>3. r.n \in Nat
      BY DEF JobType
    <2>4. (r.n - 1) + 1 = r.n
      BY <2>3
    <2>5. QED
      BY <1>8, <2>1, <2>2, <2>4
  <1>11. Stored(n, q)
    <2>1. files[Wanted(n, SavedBy(r, K) + 1)] # <<>>
      BY <1>10, <1>5
    <2>2. QED
      BY <1>1, <1>2, <1>10, <2>1, StoredGrows
  <1>12. UploadsTyped'
    BY <1>3, <1>7 DEF RInv, Planned, UploadsTyped
  <1>13. Goes(h, q)
    BY <1>7, <1>8
  <1>14. QED
    BY <1>1, <1>7, <1>9, <1>11, <1>12, <1>13, RunnerStep

LEMMA ReadbackKeeps ==
  ASSUME RInv, NEW h \in Hosts, Readback(h)
  PROVE  Planned'
  <1>1. PICK n \in Intents, r \in JobType :
          /\ n = host[h].intent /\ r = job[h] /\ r.step = "readback" /\ host[h].pc = "running"
          /\ OnPlan(n, r) /\ Stored(n, r)
    BY Runner DEF Readback, At
  <1>2. PICK K \in Nat : K = Len(Plan[n]) + 1
    BY PlanFacts
  <1>3. PICK s \in Steps, k \in Nat, c \in Nat :
          /\ s = IF r.n = Len(Plan[n]) + 1 THEN "restore" ELSE "list"
          /\ k = IF r.n = Len(Plan[n]) + 1 THEN r.n ELSE r.n + 1
          /\ c = Counted(h) /\ c = r.requests + 2
    <2>1. r.n \in Nat /\ r.n + 1 \in Nat
      BY DEF JobType
    <2>2. PICK c \in Nat : c = Counted(h) /\ c = r.requests + 2
      BY <1>1, CountedType
    <2>3. CASE r.n = Len(Plan[n]) + 1
      BY <2>1, <2>2, <2>3 DEF Steps
    <2>4. CASE r.n # Len(Plan[n]) + 1
      BY <2>1, <2>2, <2>4 DEF Steps
    <2>5. QED
      BY <2>3, <2>4
  <1>4. /\ Goes(h, [r EXCEPT !.step = s, !.n = k, !.requests = c])
        /\ UNCHANGED <<serialVars, source, files, flight>>
    BY <1>1, <1>3 DEF Readback, Keyed
  <1>5. PICK q \in JobType :
          /\ q = [r EXCEPT !.step = s, !.n = k, !.requests = c]
          /\ q.step = s /\ q.n = k /\ q.got = r.got /\ q.saved = r.saved /\ q.requests = c /\ q.scoped = r.scoped
    <2> DEFINE q == [r EXCEPT !.step = s, !.n = k, !.requests = c]
    <2>1. q \in JobType
      BY DEF JobType, Steps
    <2>2. q.step = s /\ q.n = k /\ q.got = r.got /\ q.saved = r.saved /\ q.requests = c /\ q.scoped = r.scoped
      BY DEF JobType
    <2>3. QED
      BY <2>1, <2>2
  <1>6. /\ IF r.n = Len(Plan[n]) + 1 THEN q.step = "restore" /\ q.n = r.n ELSE q.step = "list" /\ q.n = r.n + 1
        /\ q.requests = r.requests + 2
    BY <1>3, <1>5
  <1>7. OnPlan(n, q)
    BY <1>1, <1>5, <1>6, ReadbackOnPlan
  <1>8. PICK a \in Nat : a = r.n /\ a \in 1..K /\ SavedBy(r, K) = a /\ ReadBy(r, K) = a - 1
    <2>1. SavedBy(r, K) = r.n /\ ReadBy(r, K) = r.n - 1
      BY <1>1, Bounds
    <2>2. r.n \in 1..K /\ r.n \in Nat
      BY <1>1, <1>2 DEF OnPlan, JobType
    <2>3. QED
      BY <2>1, <2>2
  <1>9. SavedBy(q, K) = SavedBy(r, K) /\ ReadBy(q, K) = ReadBy(r, K) + 1 /\ ReadBy(r, K) + 1 = a
    <2>1. a - 1 + 1 = a /\ a + 1 - 1 = a
      OBVIOUS
    <2>2. CASE a = K
      <3>1. q.step = "restore"
        BY <1>2, <1>6, <1>8, <2>2
      <3>2. SavedBy(q, K) = K /\ ReadBy(q, K) = K
        BY <3>1, Bounds
      <3>3. QED
        BY <1>8, <2>1, <2>2, <3>2
    <2>3. CASE a # K
      <3>1. q.step = "list" /\ q.n = a + 1
        BY <1>2, <1>6, <1>8, <2>3
      <3>2. SavedBy(q, K) = q.n - 1 /\ ReadBy(q, K) = q.n - 1
        BY <3>1, Bounds
      <3>3. QED
        BY <1>8, <2>1, <3>1, <3>2
    <2>4. QED
      BY <2>2, <2>3
  <1>10. Intact(Wanted(n, a))
    <2>1. PICK w \in Names : w = Wanted(n, a) /\ w = File(h, a)
      BY <1>1, <1>2, <1>8, FileIsWanted
    <2>2. a \in 1..a /\ Len(r.saved) = a
      BY <1>1, <1>2, <1>8 DEF OnPlan
    <2>3. r.saved[a] = 1
      BY <1>1, <2>2 DEF OnPlan
    <2>4. files[w] # <<>>
      BY <1>1, <1>2, <1>8, <2>1, <2>2 DEF Stored
    <2>5. files[w][1]
      BY <1>1, <1>8, <2>1, <2>3 DEF Readback, ReadKnown
    <2>6. files[w][1] \in BOOLEAN
      <3>1. files[w] \in Seq(BOOLEAN)
        BY DEF RInv, RunInv
      <3>2. 1 \in 1..Len(files[w])
        BY <2>4, <3>1
      <3>3. QED
        BY <3>1, <3>2
    <2>7. files[w][1] = TRUE
      BY <2>5, <2>6
    <2>8. QED
      BY <2>1, <2>4, <2>7 DEF Intact
  <1>11. Stored(n, q)
    <2>1. Intact(Wanted(n, ReadBy(r, K) + 1))
      BY <1>9, <1>10
    <2>2. QED
      BY <1>1, <1>2, <1>9, <2>1, StoredGrows
  <1>12. UploadsTyped'
    BY <1>4 DEF RInv, Planned, UploadsTyped
  <1>13. Goes(h, q)
    BY <1>4, <1>5
  <1>14. QED
    BY <1>1, <1>4, <1>7, <1>11, <1>12, <1>13, RunnerStep

LEMMA RestoreKeeps ==
  ASSUME RInv, NEW h \in Hosts, Restore(h)
  PROVE  Planned'
  <1>1. PICK n \in Intents, r \in JobType :
          /\ n = host[h].intent /\ r = job[h] /\ r.step = "restore" /\ host[h].pc = "running"
          /\ OnPlan(n, r) /\ Stored(n, r)
    BY Runner DEF Restore, At
  <1>2. PICK K \in Nat : K = Len(Plan[n]) + 1
    BY PlanFacts
  <1>3. PICK s \in Steps, k \in Nat, c \in Nat :
          s = (IF r.n = 1 THEN "done" ELSE "restore") /\ k = r.n - 1 /\ c = Counted(h) /\ c = r.requests + 2
    <2>1. r.n - 1 \in Nat
      <3>1. r.n \in 1..K
        BY <1>1, <1>2 DEF OnPlan
      <3>2. QED
        BY <3>1
    <2>2. PICK c \in Nat : c = Counted(h) /\ c = r.requests + 2
      BY <1>1, CountedType
    <2>3. CASE r.n = 1
      BY <2>1, <2>2, <2>3 DEF Steps
    <2>4. CASE r.n # 1
      BY <2>1, <2>2, <2>4 DEF Steps
    <2>5. QED
      BY <2>3, <2>4
  <1>4. /\ Goes(h, [r EXCEPT !.step = s, !.n = k, !.requests = c])
        /\ UNCHANGED <<serialVars, source, files, flight>>
    BY <1>1, <1>3 DEF Restore
  <1>5. PICK q \in JobType :
          /\ q = [r EXCEPT !.step = s, !.n = k, !.requests = c]
          /\ q.step = s /\ q.n = k /\ q.got = r.got /\ q.saved = r.saved /\ q.requests = c /\ q.scoped = r.scoped
    <2> DEFINE q == [r EXCEPT !.step = s, !.n = k, !.requests = c]
    <2>1. q \in JobType
      BY DEF JobType, Steps
    <2>2. q.step = s /\ q.n = k /\ q.got = r.got /\ q.saved = r.saved /\ q.requests = c /\ q.scoped = r.scoped
      BY DEF JobType
    <2>3. QED
      BY <2>1, <2>2
  <1>6. q.step = (IF r.n = 1 THEN "done" ELSE "restore") /\ q.n = r.n - 1 /\ q.requests = r.requests + 2
    BY <1>3, <1>5
  <1>7. OnPlan(n, q)
    BY <1>1, <1>5, <1>6, RestoreOnPlan
  <1>8. SavedBy(q, K) = SavedBy(r, K) /\ ReadBy(q, K) = ReadBy(r, K)
    <2>1. SavedBy(r, K) = K /\ ReadBy(r, K) = K
      BY <1>1, Bounds
    <2>2. q.step \in {"restore", "done"}
      BY <1>6
    <2>3. SavedBy(q, K) = K /\ ReadBy(q, K) = K
      BY <2>2, Bounds
    <2>4. QED
      BY <2>1, <2>3
  <1>9. Stored(n, q)
    BY <1>1, <1>2, <1>8, StoredGrows
  <1>10. UploadsTyped'
    BY <1>4 DEF RInv, Planned, UploadsTyped
  <1>11. Goes(h, q)
    BY <1>4, <1>5
  <1>12. QED
    BY <1>1, <1>4, <1>7, <1>9, <1>10, <1>11, RunnerStep

\* A host starts its work with nothing done and ends it with nothing left.
LEMMA FreshStored ==
  ASSUME NEW n \in Intents
  PROVE  Stored(n, Fresh)
  <1>1. PICK K \in Nat : K = Len(Plan[n]) + 1
    BY PlanFacts
  <1>2. Fresh.step = "head" /\ Fresh \in JobType
    BY FreshOnPlan DEF Fresh
  <1>3. SavedBy(Fresh, K) = 0 /\ ReadBy(Fresh, K) = 0
    BY <1>2, Bounds
  <1>4. QED
    BY <1>1, <1>3 DEF Stored

\* Only Claim, the completion and the catch block write an operation's record; a record
\* that becomes "completed" is that of a finishing host and its intent.
LEMMA RecordsWritten ==
  ASSUME RInv, [SerialNext]_serialVars, NEW id \in Ids, operation'[id].phase = "completed"
  PROVE  \/ operation[id].phase = "completed" /\ operation'[id].intent = operation[id].intent
         \/ \E h \in Hosts : host[h].pc = "finishing" /\ operation'[id].intent = host[h].intent
  <1>1. SerialInv
    BY DEF RInv, RunInv
  <1>2. CASE operation' = operation
    BY <1>2
  <1>3. ASSUME NEW h \in Hosts, NEW i \in Ids, NEW intent \in Intents, CommitClaim(i, intent)
        PROVE  operation[id].phase = "completed" /\ operation'[id].intent = operation[id].intent
    <2>1. /\ operation'[i] = [phase |-> "running", intent |-> intent]
          /\ \A j \in Ids \ {i} : operation'[j] = operation[j]
      BY <1>1, <1>3, ClaimEffect
    <2>2. i # id
      BY <2>1
    <2>3. QED
      BY <2>1, <2>2
  <1>4. ASSUME NEW h \in Hosts, Complete(h) \/ CompleteUnanswered(h)
        PROVE  \/ operation[id].phase = "completed" /\ operation'[id].intent = operation[id].intent
               \/ host[h].pc = "finishing" /\ operation'[id].intent = host[h].intent
    <2>1. CommitCompletion(h) /\ UNCHANGED count /\ host[h].pc = "finishing"
      BY <1>4 DEF Complete, CompleteUnanswered
    <2>2. PICK j \in Ids : j = host[h].id
      BY <1>1 DEF SerialInv, SerialTypeOK
    <2>3. /\ operation'[j] = [operation[j] EXCEPT !.phase = "completed"]
          /\ \A i \in Ids \ {j} : operation'[i] = operation[i]
      BY <1>1, <2>1, <2>2, CompletionEffect
    <2>4. operation[j].intent = host[h].intent
      BY <2>1, <2>2 DEF CommitCompletion
    <2>5. operation[j] \in [phase : {"none", "running", "uncertain", "completed"}, intent : Intents]
      BY <1>1 DEF SerialInv, SerialTypeOK
    <2>6. operation'[j].intent = operation[j].intent
      BY <2>3, <2>5
    <2>7. QED
      BY <2>1, <2>3, <2>4, <2>6
  <1>5. ASSUME NEW h \in Hosts, MarkUncertain(h)
        PROVE  operation[id].phase = "completed" /\ operation'[id].intent = operation[id].intent
    <2>1. PICK j \in Ids : j = host[h].id
      BY <1>1 DEF SerialInv, SerialTypeOK
    <2>2. /\ operation'[j] = [operation[j] EXCEPT !.phase = "uncertain"]
          /\ \A i \in Ids \ {j} : operation'[i] = operation[i]
      BY <1>1, <1>5, <2>1, UncertainEffect
    <2>3. operation[j] \in [phase : {"none", "running", "uncertain", "completed"}, intent : Intents]
      BY <1>1 DEF SerialInv, SerialTypeOK
    <2>4. operation'[j].phase = "uncertain"
      BY <2>2, <2>3
    <2>5. QED
      BY <2>2, <2>4
  <1>6. QED
    BY <1>2, <1>3, <1>4, <1>5
    DEF SerialNext, serialVars, Claim, ClaimUnanswered, RunReturns, Fails, Gone

\* A receipt is true when it is given, and stays true as long as the folder keeps its files.
LEMMA ReceiptsKept ==
  ASSUME RInv, [SerialNext]_serialVars,
         \A f \in Names : Intact(f) => Intact(f)'
  PROVE  ReceiptTrue'
  <1>1. SUFFICES ASSUME NEW id \in Ids, operation'[id].phase = "completed",
                        NEW n \in Intents, n = operation'[id].intent,
                        NEW f \in {Manifest(n)} \union {Object(k, Sound) : k \in Range(Plan[n])}
                 PROVE  files'[f] # <<>> /\ files'[f][1]
    <2>1. SerialInv'
      BY SerialNextInv DEF RInv, RunInv
    <2>2. \A id \in Ids : operation'[id].intent \in Intents
      BY <2>1 DEF SerialInv, SerialTypeOK
    <2>3. QED
      BY <1>1, <2>2 DEF ReceiptTrue
  <1>2. PICK L \in Nat : L = Len(Plan[n]) /\ Plan[n] \in Seq(Keys)
    BY PlanFacts, PlansOK
  <1>3. PICK m \in 1..(L + 1) : f = Wanted(n, m)
    <2>1. CASE f = Manifest(n)
      <3>1. L + 1 \in 1..(L + 1) /\ ~(L + 1 <= L)
        OBVIOUS
      <3>2. f = Wanted(n, L + 1)
        BY <1>2, <2>1, <3>1 DEF Wanted
      <3>3. QED
        BY <3>1, <3>2
    <2>2. CASE f \in {Object(k, Sound) : k \in Range(Plan[n])}
      <3>1. PICK m \in 1..L : f = Object(Plan[n][m], Sound)
        BY <1>2, <2>2 DEF Range
      <3>2. m \in 1..(L + 1) /\ m <= L
        OBVIOUS
      <3>3. f = Wanted(n, m)
        BY <1>2, <3>1, <3>2 DEF Wanted
      <3>4. QED
        BY <3>2, <3>3
    <2>3. QED
      BY <2>1, <2>2
  <1>4. f \in Names
    BY <1>2, <1>3, PlanFacts
  <1>5. Intact(f)
    <2>1. CASE operation[id].phase = "completed" /\ n = operation[id].intent
      <3>1. files[f] # <<>> /\ files[f][1]
        BY <2>1 DEF RInv, Planned, ReceiptTrue
      <3>2. files[f][1] \in BOOLEAN
        <4>1. files[f] \in Seq(BOOLEAN)
          BY <1>4 DEF RInv, RunInv
        <4>2. 1 \in 1..Len(files[f])
          BY <3>1, <4>1
        <4>3. QED
          BY <4>1, <4>2
      <3>3. files[f][1] = TRUE
        BY <3>1, <3>2
      <3>4. QED
        BY <3>1, <3>3 DEF Intact
    <2>2. ASSUME NEW h \in Hosts, host[h].pc = "finishing", n = host[h].intent
          PROVE  Intact(f)
      <3>1. job[h].step = "done" /\ Stored(n, job[h]) /\ job[h] \in JobType
        BY <2>2 DEF RInv, Planned, Progress, Working
      <3>2. PICK K \in Nat : K = L + 1
        OBVIOUS
      <3>3. ReadBy(job[h], K) = K
        <4>1. PICK r \in JobType : r = job[h]
          BY <3>1
        <4>2. ReadBy(r, K) = K
          BY <3>1, <4>1, Bounds
        <4>3. QED
          BY <4>1, <4>2
      <3>4. QED
        BY <1>2, <1>3, <3>1, <3>2, <3>3 DEF Stored
    <2>3. QED
      BY <1>1, <2>1, <2>2, RecordsWritten
  <1>6. QED
    BY <1>4, <1>5 DEF Intact

\* A host that does not move keeps its progress while the folder only grows.
FilesKept == \A f \in Names : (files[f] # <<>> => files'[f] # <<>>) /\ (Intact(f) => Intact(f)')

LEMMA ProgressKept ==
  ASSUME RInv, NEW h \in Hosts, host'[h] = host[h], job'[h] = job[h], FilesKept
  PROVE  Progress(h)'
  <1>1. Progress(h)
    BY DEF RInv, Planned
  <1>2. ASSUME Working(h)
        PROVE  Stored(host[h].intent, job[h])'
    <2>1. PICK n \in Intents, r \in JobType : n = host[h].intent /\ r = job[h]
      BY DEF RInv, RunInv, SerialInv, SerialTypeOK, Planned
    <2>2. PICK K \in Nat : K = Len(Plan[n]) + 1
      BY PlanFacts
    <2>3. OnPlan(n, r) /\ Stored(n, r)
      BY <1>1, <1>2, <2>1 DEF Progress
    <2>4. SavedBy(r, K) \in 0..K /\ ReadBy(r, K) \in 0..K
      <3>1. r.n \in Nat /\ r.step \in Steps /\ Len(Plan[n]) \in Nat
        BY PlanFacts DEF JobType
      <3>2. r.step \in {"list", "post", "posted", "readback"} => r.n \in 1..K
        BY <2>2, <2>3, <3>1 DEF OnPlan
      <3>3. CASE r.step \in {"list", "post", "posted", "readback"}
        <4>1. SavedBy(r, K) \in {r.n - 1, r.n} /\ ReadBy(r, K) = r.n - 1
          BY <3>3, Bounds
        <4>2. r.n - 1 \in 0..K /\ r.n \in 0..K
          BY <3>2, <3>3
        <4>3. QED
          BY <4>1, <4>2
      <3>4. CASE r.step \in {"head", "get"}
        <4>1. SavedBy(r, K) = 0 /\ ReadBy(r, K) = 0
          BY <3>4, Bounds
        <4>2. QED
          BY <4>1
      <3>5. CASE r.step \in {"restore", "done"}
        <4>1. SavedBy(r, K) = K /\ ReadBy(r, K) = K
          BY <3>5, Bounds
        <4>2. QED
          BY <4>1
      <3>6. QED
        BY <3>1, <3>3, <3>4, <3>5 DEF Steps
    <2>5. PICK a \in 0..K, b \in 0..K : a = SavedBy(r, K) /\ b = ReadBy(r, K)
      BY <2>4
    <2>6. \A m \in 1..K : Wanted(n, m) \in Names
      BY <2>2, PlanFacts
    <2>7. \A m \in 1..a : m \in 1..K
      OBVIOUS
    <2>8. \A m \in 1..b : m \in 1..K
      OBVIOUS
    <2>9. \A m \in 1..a : files'[Wanted(n, m)] # <<>>
      BY <2>2, <2>3, <2>5, <2>6, <2>7 DEF FilesKept, Stored
    <2>10. \A m \in 1..b : Intact(Wanted(n, m))'
      <3> SUFFICES ASSUME NEW m \in 1..b PROVE Intact(Wanted(n, m))'
        OBVIOUS
      <3>1. PICK w \in Names : w = Wanted(n, m)
        BY <2>6, <2>8
      <3>2. Intact(w)
        BY <2>2, <2>3, <2>5, <3>1 DEF Stored
      <3>3. Intact(w)'
        BY <3>2 DEF FilesKept
      <3>4. QED
        BY <3>1, <3>3 DEF Intact
    <2>11. n = host'[h].intent /\ r = job'[h]
      BY <2>1
    <2>12. QED
      BY <2>2, <2>5, <2>9, <2>10, <2>11 DEF Stored, Intact
  <1>3. QED
    BY <1>1, <1>2 DEF Progress, Working

\* A step that leaves folder, uploads and source as they are.
LEMMA HostStep ==
  ASSUME RInv, [SerialNext]_serialVars, UNCHANGED <<source, files, flight>>,
         NEW h \in Hosts, job' = [k \in Hosts |-> job'[k]], job'[h] \in JobType, Progress(h)',
         \A k \in Hosts \ {h} : host'[k] = host[k] /\ job'[k] = job[k]
  PROVE  Planned'
  <1>1. FilesKept
    BY DEF FilesKept, Intact
  <1>2. \A k \in Hosts : Progress(k)'
    BY <1>1, ProgressKept
  <1>3. ReceiptTrue'
    BY <1>1, ReceiptsKept DEF FilesKept
  <1>4. \A k \in Hosts : job'[k] \in JobType
    BY DEF RInv, Planned
  <1>5. job' \in [Hosts -> JobType]
    BY <1>4
  <1>6. QED
    BY <1>2, <1>3, <1>5 DEF RInv, Planned, UploadsTyped

LEMMA StartKeeps ==
  ASSUME RInv, [SerialNext]_serialVars, NEW h \in Hosts, NEW id \in Ids, NEW intent \in Intents,
         Start(h, id, intent)
  PROVE  Planned'
  <1>1. /\ Goes(h, Fresh) /\ UNCHANGED <<source, files, flight>>
        /\ host'[h] = [pc |-> "running", id |-> id, intent |-> intent]
        /\ \A k \in Hosts \ {h} : host'[k] = host[k]
    BY DEF Start, Claim, RInv, RunInv, SerialInv, SerialTypeOK
  <1>2. /\ job'[h] = Fresh /\ job' = [k \in Hosts |-> job'[k]]
        /\ \A k \in Hosts \ {h} : job'[k] = job[k]
    BY <1>1, GoesEffect DEF RInv
  <1>3. host'[h].intent = intent /\ host'[h].pc = "running"
    BY <1>1
  <1>4. Progress(h)'
    <2>1. OnPlan(intent, Fresh) /\ Stored(intent, Fresh)
      BY FreshOnPlan, FreshStored
    <2>2. Stored(intent, Fresh)'
      BY <1>1, <2>1 DEF Stored, Intact
    <2>3. QED
      BY <1>2, <1>3, <2>1, <2>2 DEF Progress, Stored, Working
  <1>5. job'[h] \in JobType
    BY <1>2, FreshOnPlan
  <1>6. QED
    BY <1>1, <1>2, <1>4, <1>5, HostStep

LEMMA ReturnsKeeps ==
  ASSUME RInv, [SerialNext]_serialVars, NEW h \in Hosts, Returns(h)
  PROVE  Planned'
  <1>1. /\ host[h].pc = "running" /\ job[h].step = "done" /\ UNCHANGED <<source, files, flight, job>>
        /\ host'[h] = [host[h] EXCEPT !.pc = "finishing"]
        /\ \A k \in Hosts \ {h} : host'[k] = host[k]
    BY DEF Returns, RunReturns, runVars, RInv, RunInv, SerialInv, SerialTypeOK
  <1>2. host[h] \in [pc : {"idle", "running", "finishing", "failed"}, id : Ids, intent : Intents]
    BY DEF RInv, RunInv, SerialInv, SerialTypeOK
  <1>3. host'[h].pc = "finishing" /\ host'[h].intent = host[h].intent
    BY <1>1, <1>2
  <1>4. OnPlan(host[h].intent, job[h]) /\ Stored(host[h].intent, job[h])
    BY <1>1, Runner
  <1>5. Progress(h)'
    BY <1>1, <1>3, <1>4 DEF Progress, Stored, Intact, Working
  <1>6. job' = [k \in Hosts |-> job'[k]] /\ job'[h] \in JobType
    BY <1>1 DEF RInv, Planned
  <1>7. QED
    BY <1>1, <1>5, <1>6, HostStep

LEMMA LeavesKeeps ==
  ASSUME RInv, [SerialNext]_serialVars, NEW h \in Hosts, Leaves(h)
  PROVE  Planned'
  <1>1. Goes(h, Fresh) /\ UNCHANGED <<source, files, flight>>
    BY DEF Leaves
  <1>2. /\ job'[h] = Fresh /\ job' = [k \in Hosts |-> job'[k]]
        /\ \A k \in Hosts \ {h} : job'[k] = job[k]
    BY <1>1, GoesEffect DEF RInv
  <1>3. host[h] \in [pc : {"idle", "running", "finishing", "failed"}, id : Ids, intent : Intents]
    BY DEF RInv, RunInv, SerialInv, SerialTypeOK
  <1>4. /\ host'[h] \in {Away, [host[h] EXCEPT !.pc = "failed"]}
        /\ \A k \in Hosts \ {h} : host'[k] = host[k]
    BY DEF Leaves, Fails, Complete, CompleteUnanswered, MarkUncertain, Gone,
           RInv, RunInv, SerialInv, SerialTypeOK
  <1>5. host'[h].pc \in {"idle", "failed"}
    BY <1>3, <1>4 DEF Away
  <1>6. Progress(h)'
    BY <1>2, <1>5 DEF Progress, Working
  <1>7. job'[h] \in JobType
    <2>1. PICK n : n \in Intents
      BY SerialConstants
    <2>2. QED
      BY <1>2, <2>1, FreshOnPlan
  <1>8. QED
    BY <1>1, <1>2, <1>4, <1>6, <1>7, HostStep

LEMMA LandKeeps ==
  ASSUME RInv, [SerialNext]_serialVars, NEW f \in flight, Land(f)
  PROVE  Planned'
  <1> DEFINE g == [f EXCEPT !.landed = Len(files'[f.name])]
  <1>1. /\ f.landed = 0 /\ files' = [files EXCEPT ![f.name] = Append(files[f.name], TRUE)]
        /\ flight' = (flight \ {f}) \union {g}
        /\ UNCHANGED <<serialVars, source, job>>
    BY DEF Land
  <1>2. flight' = {g} /\ f.name \in Names /\ f.id \in Ids
    BY <1>1 DEF RInv, RunInv, Single, Planned, UploadsTyped
  <1>3. g.id = f.id /\ g.name = f.name /\ g.landed = Len(files'[f.name])
    BY DEF RInv, RunInv, UploadShape
  <1>4. PICK s \in Seq(BOOLEAN), t \in Seq(BOOLEAN) :
          s = files[f.name] /\ t = Append(s, TRUE) /\ t = files'[f.name]
    <2>1. files[f.name] \in Seq(BOOLEAN)
      BY <1>2 DEF RInv, RunInv
    <2>2. Append(files[f.name], TRUE) \in Seq(BOOLEAN)
      BY <2>1, AppendProperties
    <2>3. files'[f.name] = Append(files[f.name], TRUE)
      BY <1>1, <1>2 DEF RInv, RunInv
    <2>4. QED
      BY <2>1, <2>2, <2>3
  <1>5. Len(s) = 0 /\ Len(t) = 1
    <2>1. Len(s) = 0
      BY <1>1, <1>2, <1>4 DEF RInv, RunInv, Missing
    <2>2. QED
      BY <1>4, <2>1, AppendProperties
  <1>6. s = <<>>
    BY <1>5
  <1>7. t # <<>>
    <2>1. Len(<<>>) = 0 /\ Len(t) # 0
      BY <1>5
    <2>2. QED
      BY <2>1
  <1>8. \A name \in Names \ {f.name} : files'[name] = files[name]
    BY <1>1 DEF RInv, RunInv
  <1>9. FilesKept
    BY <1>4, <1>6, <1>7, <1>8 DEF FilesKept, Intact
  <1>10. \A k \in Hosts : Progress(k)'
    BY <1>1, <1>9, ProgressKept DEF serialVars
  <1>11. ReceiptTrue'
    BY <1>9, ReceiptsKept DEF FilesKept
  <1>12. UploadsTyped'
    <2>1. g.landed \in 0..Len(files'[g.name])
      <3>1. Len(files'[f.name]) = 1
        BY <1>4, <1>5
      <3>2. g.landed = 1 /\ Len(files'[g.name]) = 1
        BY <1>3, <3>1
      <3> HIDE DEF g
      <3>3. QED
        BY <3>2
    <2>2. QED
      BY <1>2, <1>3, <2>1 DEF UploadsTyped
  <1>13. QED
    BY <1>1, <1>10, <1>11, <1>12 DEF RInv, Planned

LEMMA PlannedInit == Init => Planned
  <1> SUFFICES ASSUME Init PROVE Planned
    OBVIOUS
  <1>1. RunInv
    BY RunInitInv
  <1>2. PICK n : n \in Intents
    BY SerialConstants
  <1>3. source \in [Keys -> Versions] /\ flight = {} /\ job = [h \in Hosts |-> Fresh]
    BY DEF Init
  <1>4. job \in [Hosts -> JobType]
    BY <1>2, <1>3, FreshOnPlan
  <1>5. \A h \in Hosts : Progress(h)
    BY <1>3 DEF Init, SerialInit, Away, Progress, Working
  <1>6. ReceiptTrue
    BY DEF Init, SerialInit, NoOperation, ReceiptTrue
  <1>7. QED
    BY <1>3, <1>4, <1>5, <1>6 DEF Planned, UploadsTyped

LEMMA PlannedNext == RInv /\ [Next]_vars => Planned'
  <1> SUFFICES ASSUME RInv, [Next]_vars
               PROVE  Planned'
    OBVIOUS
  <1>1. [SerialNext]_serialVars
    BY RunSerial
  <1>2. ASSUME NEW h \in Hosts,
               HeadObject(h) \/ GetObject(h) \/ List(h) \/ Post(h) \/ Answered(h) \/ Readback(h) \/ Restore(h)
        PROVE  Planned'
    BY <1>2, HeadObjectKeeps, GetObjectKeeps, ListKeeps, PostKeeps, AnsweredKeeps, ReadbackKeeps, RestoreKeeps
  <1>3. ASSUME NEW h \in Hosts, NEW id \in Ids, NEW intent \in Intents, Start(h, id, intent)
        PROVE  Planned'
    BY <1>1, <1>3, StartKeeps
  <1>4. ASSUME NEW h \in Hosts, Returns(h) \/ Leaves(h)
        PROVE  Planned'
    BY <1>1, <1>4, ReturnsKeeps, LeavesKeeps
  <1>5. ASSUME NEW f \in flight, Land(f)
        PROVE  Planned'
    BY <1>1, <1>5, LandKeeps
  <1>6. ASSUME UNCHANGED <<host, files, job>>, source' \in [Keys -> Versions], UploadsTyped'
        PROVE  Planned'
    <2>1. FilesKept
      BY <1>6 DEF FilesKept, Intact
    <2>2. \A k \in Hosts : Progress(k)'
      BY <1>6, <2>1, ProgressKept
    <2>3. ReceiptTrue'
      BY <1>1, <2>1, ReceiptsKept DEF FilesKept
    <2>4. QED
      BY <1>6, <2>2, <2>3 DEF RInv, Planned
  <1>7. ASSUME NEW h \in Hosts, NEW id \in Ids, NEW intent \in Intents,
               ClaimUnanswered(h, id, intent), UNCHANGED runVars
        PROVE  Planned'
    <2>1. UNCHANGED <<host, source, files, flight, job>>
      BY <1>7 DEF ClaimUnanswered, runVars
    <2>2. QED
      BY <1>6, <2>1 DEF RInv, Planned, UploadsTyped
  <1>8. ASSUME NEW f \in flight, Lose(f)
        PROVE  Planned'
    <2>1. UNCHANGED <<host, source, files, job>> /\ flight' = flight \ {f}
      BY <1>8 DEF Lose, serialVars
    <2>2. QED
      BY <1>6, <2>1 DEF RInv, Planned, UploadsTyped
  <1>9. ASSUME NEW k \in Keys, Overwrite(k)
        PROVE  Planned'
    <2>1. UNCHANGED <<host, files, flight, job>>
      BY <1>9 DEF Overwrite, serialVars
    <2>2. source' \in [Keys -> Versions]
      BY <1>9 DEF Overwrite, RInv, Planned
    <2>3. QED
      BY <1>6, <2>1, <2>2 DEF RInv, Planned, UploadsTyped
  <1>10. CASE UNCHANGED vars
    <2>1. UNCHANGED <<host, source, files, flight, job>>
      BY <1>10 DEF vars, serialVars, runVars
    <2>2. QED
      BY <1>6, <2>1 DEF RInv, Planned, UploadsTyped
  <1>11. QED
    BY <1>2, <1>3, <1>4, <1>5, <1>7, <1>8, <1>9, <1>10 DEF Next

\* Every run is on its plan and every receipt true, in every reachable state.
THEOREM RunInvariance == Spec => []RInv
  <1>1. Init => RInv
    BY RunInitInv, PlannedInit DEF RInv
  <1>2. RInv /\ [Next]_vars => RInv'
    BY RunNextInv, PlannedNext DEF RInv
  <1>3. QED
    BY <1>1, <1>2, PTL DEF Spec

\* A completed operation's manifest and objects are in the folder, intact, whatever was
\* lost, repeated, late or overwritten meanwhile.
THEOREM ReceiptsTrue == Spec => []ReceiptTrue
  <1>1. RInv => ReceiptTrue
    BY DEF RInv, Planned
  <1>2. QED
    BY <1>1, RunInvariance, PTL

\* Only what the plan describes is uploaded, although the source is checked and
\* downloaded at different times.
THEOREM OnlyPlannedUploads == Spec => []UploadsPlanned
  <1>1. RInv => UploadsPlanned
    <2> SUFFICES ASSUME RInv, NEW h \in Hosts, At(h, "posted")
                 PROVE  File(h, job[h].n).version = Sound
      BY DEF UploadsPlanned
    <2>1. PICK n \in Intents, r \in JobType :
            n = host[h].intent /\ r = job[h] /\ r.step = "posted" /\ OnPlan(n, r)
      BY Runner DEF At
    <2>2. r.n \in 1..(Len(Plan[n]) + 1)
      BY <2>1 DEF OnPlan
    <2>3. File(h, r.n) = Wanted(n, r.n)
      BY <2>1, <2>2, FileIsWanted
    <2>4. QED
      BY <2>1, <2>3 DEF Wanted, Object, Manifest
  <1>2. QED
    BY <1>1, RunInvariance, PTL

\* A run whose plan is accepted never runs out of requests half-way.
THEOREM RequestsAlwaysSuffice == Spec => []RequestsSuffice
  <1>1. RInv => RequestsSuffice
    <2> SUFFICES ASSUME RInv, NEW h \in Hosts, host[h].pc = "running"
                 PROVE  WithinRequests(h)
      BY DEF RequestsSuffice
    <2>1. PICK n \in Intents : n = host[h].intent /\ OnPlan(n, job[h]) /\ job[h] \in JobType
      BY Runner
    <2>2. QED
      BY <2>1, OnPlanAffords
  <1>2. QED
    BY <1>1, RunInvariance, PTL

\* Every variable keeps its type; no run counts more requests than the cap.
THEOREM RunTypes == Spec => []TypeOK
  <1>1. RInv => TypeOK
    <2> SUFFICES ASSUME RInv PROVE TypeOK
      OBVIOUS
    <2>1. SerialTypeOK /\ source \in [Keys -> Versions] /\ UploadsTyped /\ files \in [Names -> Seq(BOOLEAN)]
      BY DEF RInv, RunInv, SerialInv, Planned
    <2>2. ASSUME NEW h \in Hosts
          PROVE  job[h].step \in Steps /\ job[h].requests \in 0..RequestCap /\ job[h].n \in 0..(Len(Keyed(h)) + 1)
      <3>1. PICK n \in Intents, r \in JobType : n = host[h].intent /\ r = job[h]
        BY DEF RInv, RunInv, SerialInv, SerialTypeOK, Planned
      <3>2. OnPlan(n, r)
        BY <3>1, FreshOnPlan DEF RInv, Planned, Progress
      <3>3. r.requests <= RequestCap /\ r.requests \in Nat /\ r.step \in Steps
        BY <3>1, <3>2, OnPlanAffords DEF JobType
      <3>4. r.n \in 0..(Len(Plan[n]) + 1)
        <4>1. PICK L \in Nat : L = Len(Plan[n])
          BY PlanFacts
        <4>2. r.n \in {0} \union (1..L) \union (1..(L + 1))
          BY <3>2, <4>1 DEF OnPlan
        <4>3. r.n \in 0..(L + 1)
          BY <4>2
        <4>4. QED
          BY <4>1, <4>3
      <3>5. r.requests \in 0..RequestCap
        BY <3>3, PlansOK, PlanFacts
      <3>6. QED
        BY <3>1, <3>3, <3>4, <3>5 DEF Keyed
    <2>3. QED
      BY <2>1, <2>2 DEF TypeOK, UploadsTyped
  <1>2. QED
    BY <1>1, RunInvariance, PTL

\* The whole operation implements the serializer, and so the single-writer promise:
\* nothing a run does with R2 or Drive adds a way to take or release the lock.
THEOREM RunsAreSerialized == Spec => SerialSpec /\ SingleWriting /\ OutcomesFinal
  <1>1. Init => SerialInit
    BY DEF Init
  <1>2. Spec => SerialSpec
    BY <1>1, RunSerial, PTL DEF Spec, SerialSpec
  <1>3. QED
    BY <1>2, SerializerKeepsPromise, OutcomesStay

=============================================================================
