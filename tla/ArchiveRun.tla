------------------------------ MODULE ArchiveRun ------------------------------
(***************************************************************************)
(* The whole archive operation (serializedArchiveCaller, unifiedArchive-   *)
(* Caller, knownKeyArchive, driveArchiveSink): under the single-writer     *)
(* lock a host checks its source objects in R2, copies them into a Drive   *)
(* folder under content-addressed names, then a manifest, and reads all of *)
(* it back.  The folder offers no atomic create: an upload whose answer is *)
(* lost may still land later, after its host failed or died.               *)
(***************************************************************************)
EXTENDS ArchiveSerialization, Sequences, Functions

CONSTANTS
  Plan,       \* intent -> the keys of the objects to archive
  Keys,       \* keys of the source bucket
  RequestCap  \* DRIVE_LIMITS.requests

VARIABLES
  source, \* key -> version of the object now in R2
  files,  \* name -> for each file of that name in the folder, is it intact
  flight, \* uploads sent and not answered yet, with their position once landed
  job     \* where each host is in archiveKnownKeys and saveImmutable

runVars == <<source, files, flight, job>>
vars == <<serialVars, runVars>>

ASSUME PlansOK == /\ \A n \in Intents : Plan[n] \in Seq(Keys) /\ Len(Plan[n]) > 0
                  /\ RequestCap \in Nat

\* LIMITS.objects and DRIVE_LIMITS.requests: a listing, an upload and two readbacks of
\* two requests for each object of the largest plan and its manifest, and three for the
\* folders, are no more than the sink may send (21 of 24).
ASSUME PlansFit == \A n \in Intents : 6 * (Len(Plan[n]) + 1) + 3 <= RequestCap

\* The version whose size, hash and records the plan expects, and a later one.
Sound == "sound"
Versions == {Sound, "later"}

Object(k, v) == [kind |-> "object", of |-> k, version |-> v]
Manifest(n) == [kind |-> "manifest", of |-> n, version |-> Sound]
Names == {Object(k, v) : k \in Keys, v \in Versions} \union {Manifest(n) : n \in Intents}

Fresh == [step |-> "head", n |-> 1, etags |-> <<>>, got |-> <<>>, saved |-> <<>>,
          requests |-> 0, scoped |-> FALSE]

\* The folder may already hold a damaged file under any name.
Init ==
  /\ SerialInit
  /\ source \in [Keys -> Versions]
  /\ \E damaged \in SUBSET Names : files = [f \in Names |-> IF f \in damaged THEN <<FALSE>> ELSE <<>>]
  /\ flight = {}
  /\ job = [h \in Hosts |-> Fresh]

-----------------------------------------------------------------------------
(* What a host does between its claim and its receipt *)

Keyed(h) == Plan[host[h].intent]
At(h, step) == host[h].pc = "running" /\ job[h].step = step
Goes(h, change) == job' = [job EXCEPT ![h] = change]
\* The file being saved or read: the objects in the order of their keys, then the manifest.
File(h, n) ==
  IF n <= Len(Keyed(h)) THEN Object(Keyed(h)[n], job[h].got[n]) ELSE Manifest(host[h].intent)

\* All metadata must pass before any object is downloaded.
HeadObject(h) ==
  LET last == job[h].n = Len(Keyed(h)) IN
  /\ At(h, "head")
  /\ Goes(h, [job[h] EXCEPT !.etags = Append(@, source[Keyed(h)[job[h].n]]),
                            !.step = IF last THEN "get" ELSE "head",
                            !.n = IF last THEN 1 ELSE @ + 1])
  /\ UNCHANGED <<serialVars, source, files, flight>>

\* Mutant: the object that is downloaded is not held against the plan's hash.
DownloadedUnhashed(h, v) == v = job[h].etags[job[h].n]
\* The conditional GET returned the version that HEAD saw, and its bytes have the
\* hash that the plan expects.
Downloaded(h, v) == v = job[h].etags[job[h].n] /\ v = Sound

GetObject(h) ==
  LET last == job[h].n = Len(Keyed(h))
      v == source[Keyed(h)[job[h].n]] IN
  /\ At(h, "get")
  /\ Downloaded(h, v)
  /\ Goes(h, [job[h] EXCEPT !.got = Append(@, v),
                            !.step = IF last THEN "list" ELSE "get",
                            !.n = IF last THEN 1 ELSE @ + 1])
  /\ UNCHANGED <<serialVars, source, files, flight>>

\* Mutant: the three folders are looked up again for every file.
ScopedEachTime(h) == FALSE
Scoped(h) == job[h].scoped
\* Requests of the next step, each of which the sink counts before it sends it.
Requests(h) ==
  CASE job[h].step = "list" -> IF Scoped(h) THEN 1 ELSE 4
    [] job[h].step = "post" -> 1
    [] job[h].step \in {"readback", "restore"} -> 2
    [] OTHER -> 0
WithinRequests(h) == job[h].requests + Requests(h) <= RequestCap
Counted(h) == job[h].requests + Requests(h)

\* saveImmutable lists the name: a file found is reused, several stop the sink.
List(h) ==
  LET found == Len(files[File(h, job[h].n)]) IN
  /\ At(h, "list") /\ WithinRequests(h)
  /\ found \in {0, 1}
  /\ Goes(h, [job[h] EXCEPT !.step = IF found = 1 THEN "readback" ELSE "post",
                            !.saved = IF found = 1 THEN Append(@, 1) ELSE @,
                            !.scoped = TRUE, !.requests = Counted(h)])
  /\ UNCHANGED <<serialVars, source, files, flight>>

Post(h) ==
  /\ At(h, "post") /\ WithinRequests(h)
  /\ flight' = flight \union {[id |-> host[h].id, name |-> File(h, job[h].n), landed |-> 0]}
  /\ Goes(h, [job[h] EXCEPT !.step = "posted", !.requests = Counted(h)])
  /\ UNCHANGED <<serialVars, source, files>>

Answered(h) ==
  /\ At(h, "posted")
  /\ \E f \in flight :
       /\ f.id = host[h].id /\ f.name = File(h, job[h].n) /\ f.landed > 0
       /\ flight' = flight \ {f}
       /\ Goes(h, [job[h] EXCEPT !.step = "readback", !.saved = Append(@, f.landed)])
  /\ UNCHANGED <<serialVars, source, files>>

\* Mutant: what was sent or listed is taken for what is stored.
ReadKnownCached(h, n) == job[h].saved[n] \in DOMAIN files[File(h, n)]
\* readKnown and the comparison of its bytes with what is expected.
ReadKnown(h, n) == files[File(h, n)][job[h].saved[n]]

Readback(h) ==
  LET last == job[h].n = Len(Keyed(h)) + 1 IN
  /\ At(h, "readback") /\ WithinRequests(h)
  /\ ReadKnown(h, job[h].n)
  /\ Goes(h, [job[h] EXCEPT !.step = IF last THEN "restore" ELSE "list",
                            !.n = IF last THEN @ ELSE @ + 1, !.requests = Counted(h)])
  /\ UNCHANGED <<serialVars, source, files, flight>>

\* The independent restore: the manifest again, then every object it names.
Restore(h) ==
  LET last == job[h].n = 1 IN
  /\ At(h, "restore") /\ WithinRequests(h)
  /\ ReadKnown(h, job[h].n)
  /\ Goes(h, [job[h] EXCEPT !.step = IF last THEN "done" ELSE "restore",
                            !.n = @ - 1, !.requests = Counted(h)])
  /\ UNCHANGED <<serialVars, source, files, flight>>

-----------------------------------------------------------------------------
(* The serializer around it, and the world outside *)

Start(h, id, intent) ==
  /\ Claim(h, id, intent)
  /\ Goes(h, Fresh)
  /\ UNCHANGED <<source, files, flight>>

\* Mutant: the run reports success once its last upload is sent.
ReturnsOnceSent(h) ==
  /\ RunReturns(h) /\ job[h].step \in {"posted", "done"} /\ job[h].n \in {0, Len(Keyed(h)) + 1}
  /\ UNCHANGED runVars
Returns(h) == RunReturns(h) /\ job[h].step = "done" /\ UNCHANGED runVars

Leaves(h) ==
  /\ Fails(h) \/ Complete(h) \/ CompleteUnanswered(h) \/ MarkUncertain(h) \/ Gone(h)
  /\ Goes(h, Fresh)
  /\ UNCHANGED <<source, files, flight>>

\* Drive stores an upload, even one whose host is gone; its answer may be lost later.
Land(f) ==
  /\ f.landed = 0
  /\ files' = [files EXCEPT ![f.name] = Append(@, TRUE)]
  /\ flight' = (flight \ {f}) \union {[f EXCEPT !.landed = Len(files'[f.name])]}
  /\ UNCHANGED <<serialVars, source, job>>

\* An upload never arrives, or its answer is lost: the host runs into its timeout.
Lose(f) ==
  /\ flight' = flight \ {f}
  /\ UNCHANGED <<serialVars, source, files, job>>

\* Another worker writes the source object.
Overwrite(k) ==
  /\ \E v \in Versions \ {source[k]} : source' = [source EXCEPT ![k] = v]
  /\ UNCHANGED <<serialVars, files, flight, job>>

Next ==
  \/ \E h \in Hosts :
       \/ \E id \in Ids, intent \in Intents :
            \/ Start(h, id, intent)
            \/ ClaimUnanswered(h, id, intent) /\ UNCHANGED runVars
       \/ HeadObject(h) \/ GetObject(h) \/ List(h) \/ Post(h) \/ Answered(h) \/ Readback(h) \/ Restore(h)
       \/ Returns(h) \/ Leaves(h)
  \/ \E f \in flight : Land(f) \/ Lose(f)
  \/ \E k \in Keys : Overwrite(k)

Spec == Init /\ [][Next]_vars
-----------------------------------------------------------------------------
Steps == {"head", "get", "list", "post", "posted", "readback", "restore", "done"}
TypeOK ==
  /\ SerialTypeOK
  /\ source \in [Keys -> Versions]
  /\ DOMAIN files = Names /\ \A f \in Names : files[f] \in Seq(BOOLEAN)
  /\ \A f \in flight : f.id \in Ids /\ f.name \in Names /\ f.landed \in 0..Len(files[f.name])
  /\ \A h \in Hosts : job[h].step \in Steps /\ job[h].requests \in 0..RequestCap
                         /\ job[h].n \in 0..(Len(Keyed(h)) + 1)

\* The folder never holds two files of one name, although listing and creating are
\* not atomic and a lost upload may land at any time after.
NoDuplicateFiles == \A f \in Names : Len(files[f]) <= 1

\* An upload still under way belongs to the operation that holds the lock, so that
\* nobody can have listed the folder without it and rely on that.
UploadsCovered ==
  \A f \in flight : active.phase # "free" /\ active.id = f.id

\* A completed operation's receipt is true: its manifest and every object the plan
\* names are in the folder, intact and of the version the plan expects.
ReceiptTrue ==
  \A id \in Ids : operation[id].phase = "completed" =>
    LET n == operation[id].intent IN
    \A f \in {Manifest(n)} \union {Object(k, Sound) : k \in Range(Plan[n])} :
      files[f] # <<>> /\ files[f][1]

\* Nothing but what a plan describes is ever uploaded, whatever happens to the
\* source between the check of its metadata and its download.
UploadsPlanned ==
  \A h \in Hosts : At(h, "posted") => File(h, job[h].n).version = Sound

\* A run never starts a step that its request cap cannot cover: the plans that
\* are accepted fit the cap, so that it stops no sound run half-way.
RequestsSuffice == \A h \in Hosts : host[h].pc = "running" => WithinRequests(h)
=============================================================================
