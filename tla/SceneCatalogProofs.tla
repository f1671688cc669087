------------------------- MODULE SceneCatalogProofs -------------------------
(***************************************************************************)
(* What is proved of SceneCatalog for every set of scenes and runs, every  *)
(* batch and every bound on attempts, errors and lost workers.             *)
(*                                                                         *)
(* RecordsInv holds for any clients: it says which records of validation   *)
(* and profile runs a pipeline run may still write to.  CatalogInv needs   *)
(* clients that execute one run after another.  Then only the run that was *)
(* begun last is at work, and what it has read, of the version, the files  *)
(* and the scene rows, still is as it was.                                 *)
(***************************************************************************)
EXTENDS SceneCatalog, FiniteSetTheorems, TLAPS

-----------------------------------------------------------------------------
(* The inductive invariants *)

RunRow == [task : Tasks, pc : Points \cup AtRest, attempt : 0..MaxAttempts,
           written : SUBSET Scenes, seen : [Scenes -> Contents \cup {None}],
           listed : SUBSET Scenes, copy : VersionRow]

Behind(t) == IF t = "validate" THEN {"profile", "index", "manifest"} ELSE {"index", "manifest"}

\* Only a run that was executed is at work.
Counted == \A p \in Runs : Working(p) => run[p].attempt \in 1..MaxAttempts

\* The record of an attempt is new until the attempt starts it.
NewUntilStarted(p) ==
    \A t \in Recorded, n \in 1..MaxAttempts :
        records[<<t, p, n>>].status # None =>
            \/ n < run[p].attempt
            \/ /\ n = run[p].attempt
               /\ \/ run[p].task \in Behind(t)
                  \/ run[p].task = t /\ run[p].pc # "begin"

\* A job at work on a record finds it as it left it.
OpenRecordRuns(p) == RecordOpen(p) => records[RecordOf(p)].status = "RUNNING"

\* RunningRecordHasJob, of one run.
RunningHasJob(p) ==
    \A t \in Recorded, n \in 1..MaxAttempts :
        records[<<t, p, n>>].status = "RUNNING" =>
            \/ run[p].task = t /\ run[p].attempt = n /\ RecordOpen(p)
            \/ crashes > 0 \/ faults > 1

RecordsOK(p) == NewUntilStarted(p) /\ OpenRecordRuns(p) /\ RunningHasJob(p)

RecordsInv == TypeOK /\ Counted /\ \A p \in Runs : RecordsOK(p)

\* Only the run begun last is at work.
OneAtWork == \A p \in Runs : Working(p) => latest = p

\* The copy of the version that a run will write back is not stale.
HasCopy(p) ==
    \/ run[p].task = "ingest" /\ run[p].pc \in {"lock", "write"}
    \/ run[p].task \in Recorded /\ run[p].pc = "commit"
    \/ run[p].task = "manifest" /\ run[p].pc = "publish"
CopiesAreFresh == \A p \in Runs : HasCopy(p) => run[p].copy = version

\* Tasks that a run has behind it when it stands at task t, or is done with
\* the one before it.
Past(p, t, after) == At(p, {t}, "done") \/ run[p].task \in after

Ingested(p) == Past(p, "ingest", Tasks \ {"ingest"})
HasRegistered(p) == Past(p, "register", Tasks \ {"ingest", "register"})
HasSeen(p) == run[p].task \in Recorded /\ run[p].pc \in {"cache", "commit", "done"}
Validated(p) == run[p].task \in {"profile", "index", "manifest"}
Indexed(p) == Past(p, "index", {"manifest"})
HasListed(p) == run[p].task \in {"index", "manifest"} /\ run[p].pc \in {"write", "version", "publish"}

\* What the run begun last has done to the scenes of its batch stands.
BatchStands(p) ==
    /\ run[p].task = "ingest" => \A s \in run[p].written : files[s] \in Contents
    /\ Ingested(p) => \A s \in Batch[p] : files[s] \in Contents
    /\ HasRegistered(p) => \A s \in Batch[p] : scenes[s].status # None /\ scenes[s].content = files[s]
    /\ HasSeen(p) => \A s \in Batch[p] : run[p].seen[s] = files[s]
    /\ At(p, {"validate"}, "done") => \A s \in Batch[p] : checked[s] = run[p].seen[s]
    /\ Validated(p) => \A s \in Batch[p] : scenes[s].content = "good" /\ checked[s] = "good"

\* And so does what it has derived from all scene rows; in the meantime the
\* version is not READY.
FilesStand(p) ==
    /\ Ingested(p) => run[p].task = "manifest" \/ version.status # "READY"
    /\ HasListed(p) => run[p].listed = Registered
    /\ Indexed(p) => index = Registered
    /\ run[p].task = "manifest" /\ run[p].pc \in {"version", "publish"} => manifest = Registered

LatestStands ==
    \A p \in Runs : latest = p /\ run[p].pc # "idle" => BatchStands(p) /\ FilesStand(p)

IdleIsNew == \A p \in Runs : run[p].pc = "idle" => run[p].task = "ingest" /\ run[p].written = {}

CatalogInv ==
    /\ RecordsInv
    /\ OneAtWork /\ CopiesAreFresh /\ LatestStands /\ IdleIsNew
    /\ ReadyIsComplete /\ ValidatedAsRegistered /\ CacheIsOfItsRun
    /\ manifest \subseteq Registered
-----------------------------------------------------------------------------
(* Types *)

\* A flush yields a row of the version, and if the row has not changed since
\* it was read, the changed row itself (what save does with a fresh copy).
LEMMA FlushWrites ==
    ASSUME version \in VersionRow, NEW read \in VersionRow, NEW changed \in VersionRow
    PROVE  /\ Flush(read, changed) \in VersionRow
           /\ read = version => Flush(read, changed) = changed
  <1>1. DOMAIN version = {"status", "count", "validation", "block", "profile"}
    BY DEF VersionRow
  <1>2. DOMAIN changed = {"status", "count", "validation", "block", "profile"}
    BY DEF VersionRow
  <1>3. Flush(read, changed) = [status |-> Flush(read, changed).status,
                                count |-> Flush(read, changed).count,
                                validation |-> Flush(read, changed).validation,
                                block |-> Flush(read, changed).block,
                                profile |-> Flush(read, changed).profile]
    BY <1>1 DEF Flush
  <1>4. Flush(read, changed) \in VersionRow
    BY <1>1, <1>3 DEF Flush, VersionRow
  <1>5. ASSUME read = version PROVE Flush(read, changed) = changed
    BY <1>1, <1>2, <1>5 DEF Flush, VersionRow
  <1> QED BY <1>4, <1>5

\* The count of scenes of a version is a number.
LEMMA ScenesAreCounted ==
    ASSUME NEW S \in SUBSET Scenes
    PROVE  Cardinality(S) \in Nat
  BY CatalogAssumption, FS_Subset, FS_CardinalityType

\* A run that goes to another point keeps its attempt and nothing else.
LEMMA GotoForm ==
    ASSUME TypeOK, NEW p \in Runs, NEW task \in Tasks, NEW pc \in Points \cup AtRest,
           Goto(p, task, pc)
    PROVE  /\ run' \in [Runs -> RunRow]
           /\ run'[p].task = task /\ run'[p].pc = pc /\ run'[p].attempt = run[p].attempt
           /\ run'[p].written = {}
           /\ \A q \in Runs \ {p} : run'[q] = run[q]
  <1>1. run \in [Runs -> RunRow]
    BY DEF TypeOK, RunRow
  <1>2. NewVersion \in VersionRow
    BY DEF NewVersion, VersionRow, VersionStatus
  <1>3. NewRun \in RunRow
    BY <1>2, CatalogAssumption DEF NewRun, RunRow, Tasks, Points, AtRest, Contents
  <1>4. run[p].attempt \in 0..MaxAttempts
    BY <1>1 DEF RunRow
  <1>5. [Reset(run[p]) EXCEPT !.task = task, !.pc = pc] \in RunRow
    BY <1>3, <1>4 DEF Reset, RunRow
  <1>6. run' = [run EXCEPT ![p] = [Reset(run[p]) EXCEPT !.task = task, !.pc = pc]]
    BY DEF Goto
  <1>7. run'[p] = [Reset(run[p]) EXCEPT !.task = task, !.pc = pc]
    BY <1>1, <1>6
  <1> QED BY <1>1, <1>5, <1>6, <1>7 DEF Reset, NewRun, RunRow

\* The record that a run works on is one of the version's records.
LEMMA RecordExists ==
    ASSUME TypeOK, Counted, NEW p \in Runs, Working(p), run[p].task \in Recorded
    PROVE  RecordOf(p) \in RecordIds
  BY DEF Counted, RecordOf, RecordIds, Recorded

\* The parts of a run's row have their types.
LEMMA RowTypes ==
    ASSUME TypeOK, NEW p \in Runs
    PROVE  /\ run[p] \in RunRow
           /\ run[p].task \in Tasks /\ run[p].pc \in Points \cup AtRest
           /\ run[p].attempt \in 0..MaxAttempts
           /\ run[p].written \in SUBSET Scenes /\ run[p].listed \in SUBSET Scenes
           /\ run[p].seen \in [Scenes -> Contents \cup {None}]
           /\ run[p].copy \in VersionRow
           /\ Batch[p] \in SUBSET Scenes
  BY CatalogAssumption DEF TypeOK, RunRow

\* A run stays well typed when its handler moves on, alone or with what it has read.
LEMMA RunMoves ==
    ASSUME run \in [Runs -> RunRow], NEW p \in Runs, NEW pc \in Points,
           run' = [run EXCEPT ![p] = [run[p] EXCEPT !.pc = pc]]
    PROVE  run' \in [Runs -> RunRow]
  <1>1. run[p] \in RunRow
    OBVIOUS
  <1>2. [run[p] EXCEPT !.pc = pc] \in RunRow
    BY <1>1 DEF RunRow
  <1> QED BY <1>2

LEMMA RunReads ==
    ASSUME run \in [Runs -> RunRow], NEW p \in Runs, NEW pc \in Points, NEW row \in VersionRow,
           run' = [run EXCEPT ![p] = [run[p] EXCEPT !.pc = pc, !.copy = row]]
    PROVE  run' \in [Runs -> RunRow]
  <1>1. run[p] \in RunRow
    OBVIOUS
  <1>2. [run[p] EXCEPT !.pc = pc, !.copy = row] \in RunRow
    BY <1>1 DEF RunRow
  <1> QED BY <1>2

\* Execute and the steps up to the registration of the scenes.
LEMMA IngestTypes ==
    ASSUME TypeOK, NEW p \in Runs,
           \/ Execute(p) \/ GetVersionToIngest(p) \/ BeginIngest(p)
           \/ \E s \in Scenes : WriteSceneManifest(p, s)
           \/ CommitIngest(p) \/ RegisterScenes(p)
    PROVE  TypeOK'
  <1>1. run \in [Runs -> RunRow] /\ version \in VersionRow
    BY DEF TypeOK, RunRow
  <1>2. CASE Execute(p)
    <2>1. run' = [run EXCEPT ![p] = [run[p] EXCEPT !.pc = "begin", !.attempt = run[p].attempt + 1]]
      BY <1>1, <1>2 DEF Execute
    <2>2. run[p].attempt + 1 \in 0..MaxAttempts
      BY <1>2, RowTypes, CatalogAssumption DEF Execute
    <2>3. run' \in [Runs -> RunRow]
      <3>1. run[p] \in RunRow
        BY <1>1
      <3>2. [run[p] EXCEPT !.pc = "begin", !.attempt = run[p].attempt + 1] \in RunRow
        BY <2>2, <3>1 DEF RunRow, Points
      <3> QED BY <1>1, <2>1, <3>2
    <2> QED BY <1>2, <2>3 DEF Execute, TypeOK, RunRow
  <1>3. CASE GetVersionToIngest(p)
    <2>1. run' = [run EXCEPT ![p] = [run[p] EXCEPT !.pc = "lock", !.copy = version]]
      BY <1>1, <1>3 DEF GetVersionToIngest
    <2>2. run' \in [Runs -> RunRow]
      BY <1>1, <2>1, RunReads DEF Points
    <2> QED BY <1>3, <2>2 DEF GetVersionToIngest, TypeOK, RunRow
  <1>4. CASE BeginIngest(p)
    <2>1. run' \in [Runs -> RunRow]
      <3>1. run' = [run EXCEPT ![p] = [run[p] EXCEPT !.pc = "write"]]
        BY <1>1, <1>4 DEF BeginIngest
      <3> QED BY <1>1, <3>1, RunMoves DEF Points
    <2> QED BY <1>4, <2>1 DEF BeginIngest, TypeOK, RunRow
  <1>5. ASSUME NEW s \in Scenes, WriteSceneManifest(p, s) PROVE TypeOK'
    <2>1. run' \in [Runs -> RunRow]
      <3>1. run' = [run EXCEPT ![p] = [run[p] EXCEPT !.written = run[p].written \cup {s}]]
        BY <1>1, <1>5 DEF WriteSceneManifest
      <3>2. run[p] \in RunRow
        BY <1>1
      <3>3. [run[p] EXCEPT !.written = run[p].written \cup {s}] \in RunRow
        BY <3>2 DEF RunRow
      <3> QED BY <1>1, <3>1, <3>3
    <2>2. files' \in [Scenes -> Contents \cup {None}]
      BY <1>5 DEF WriteSceneManifest, TypeOK
    <2> QED BY <1>5, <2>1, <2>2 DEF WriteSceneManifest, TypeOK, RunRow
  <1>6. CASE CommitIngest(p)
    <2>1. run' \in [Runs -> RunRow]
      <3>1. run' = [run EXCEPT ![p] = [run[p] EXCEPT !.pc = "done"]]
        BY <1>1, <1>6 DEF CommitIngest
      <3> QED BY <1>1, <3>1, RunMoves DEF Points
    <2>2. Cardinality(Batch[p]) \in Nat /\ run[p].copy \in VersionRow
      BY RowTypes, ScenesAreCounted
    <2>3. version' \in VersionRow
      BY <1>6, <2>2 DEF CommitIngest, VersionRow, VersionStatus
    <2> QED BY <1>6, <2>1, <2>3 DEF CommitIngest, TypeOK, RunRow
  <1>7. CASE RegisterScenes(p)
    <2>1. run' \in [Runs -> RunRow]
      <3>1. run' = [run EXCEPT ![p] = [run[p] EXCEPT !.pc = "done"]]
        BY <1>1, <1>7 DEF RegisterScenes
      <3> QED BY <1>1, <3>1, RunMoves DEF Points
    <2>2. scenes' \in [Scenes -> SceneRow]
      BY <1>7 DEF RegisterScenes, TypeOK, SceneRow, SceneStatus
    <2> QED BY <1>7, <2>1, <2>2 DEF RegisterScenes, TypeOK, RunRow
  <1> QED BY <1>2, <1>3, <1>4, <1>5, <1>6, <1>7

\* validate_scene and profile_scene.
LEMMA RecordTypes ==
    ASSUME TypeOK, Counted, NEW p \in Runs,
           StartRecord(p) \/ LoadScenes(p) \/ ReadVersion(p) \/ CommitRecord(p)
    PROVE  TypeOK'
  <1>1. run \in [Runs -> RunRow] /\ version \in VersionRow
    BY DEF TypeOK, RunRow
  <1>2. RecordOf(p) \in RecordIds
    BY RecordExists DEF StartRecord, LoadScenes, ReadVersion, CommitRecord, At, Working, Points
  <1>3. CASE StartRecord(p)
    <2>1. run' \in [Runs -> RunRow]
      <3>1. run' = [run EXCEPT ![p] = [run[p] EXCEPT !.pc = "check"]]
        BY <1>1, <1>3 DEF StartRecord
      <3> QED BY <1>1, <3>1, RunMoves DEF Points
    <2>2. records' \in [RecordIds -> Record]
      BY <1>2, <1>3 DEF StartRecord, TypeOK, Record, RecordStatus
    <2> QED BY <1>3, <2>1, <2>2 DEF StartRecord, TypeOK, RunRow
  <1>4. CASE LoadScenes(p)
    <2>1. PICK found \in [Scenes -> Contents \cup {None}] :
              found = [s \in Scenes |-> IF s \in Batch[p] THEN files[s] ELSE None]
      BY DEF TypeOK
    <2>2. run' = [run EXCEPT ![p] = [run[p] EXCEPT !.pc = "cache", !.seen = found]]
      BY <1>1, <1>4, <2>1 DEF LoadScenes
    <2>3. run' \in [Runs -> RunRow]
      <3>1. run[p] \in RunRow
        BY <1>1
      <3>2. [run[p] EXCEPT !.pc = "cache", !.seen = found] \in RunRow
        BY <3>1 DEF RunRow, Points
      <3> QED BY <1>1, <2>2, <3>2
    <2> QED BY <1>4, <2>3 DEF LoadScenes, TypeOK, RunRow
  <1>5. CASE ReadVersion(p)
    <2>1. run' = [run EXCEPT ![p] = [run[p] EXCEPT !.pc = "commit", !.copy = version]]
      BY <1>1, <1>5 DEF ReadVersion
    <2>2. run' \in [Runs -> RunRow]
      BY <1>1, <2>1, RunReads DEF Points
    <2> QED BY <1>5, <2>2 DEF ReadVersion, TypeOK, RunRow
  <1>6. CASE CommitRecord(p)
    <2>1. run' \in [Runs -> RunRow]
      <3>1. run' = [run EXCEPT ![p] = [run[p] EXCEPT !.pc = "done"]]
        BY <1>1, <1>6 DEF CommitRecord
      <3> QED BY <1>1, <3>1, RunMoves DEF Points
    <2>2. ShouldBlock(p) \in BOOLEAN
      BY DEF ShouldBlock
    <2>3. run[p].copy \in VersionRow
      BY RowTypes
    <2>4. Cached(p) \in VersionRow
      BY <1>2, <2>2, <2>3 DEF Cached, VersionRow
    <2>5. version' \in VersionRow
      BY <1>1, <1>6, <2>3, <2>4, FlushWrites DEF CommitRecord
    <2>6. records' \in [RecordIds -> Record]
      BY <1>2, <1>6, <2>2 DEF CommitRecord, TypeOK, Record, RecordStatus
    <2>7. ASSUME NEW s \in Scenes
          PROVE  [scenes[s] EXCEPT !.status = StatusAfter(p, s)] \in SceneRow
      <3>1. scenes[s] \in SceneRow
        BY DEF TypeOK
      <3>2. StatusAfter(p, s) \in SceneStatus
        BY DEF StatusAfter, SceneStatus
      <3> QED BY <3>1, <3>2 DEF SceneRow
    <2>8. scenes' \in [Scenes -> SceneRow]
      BY <1>6, <2>7 DEF CommitRecord, TypeOK
    <2>9. checked' \in [Scenes -> Contents \cup {None}]
      BY <1>6, RowTypes DEF CommitRecord, TypeOK
    <2> QED BY <1>6, <2>1, <2>5, <2>6, <2>8, <2>9 DEF CommitRecord, TypeOK, RunRow
  <1> QED BY <1>3, <1>4, <1>5, <1>6

\* The files derived from the scene rows, and the step between two tasks.
LEMMA PublishTypes ==
    ASSUME TypeOK, NEW p \in Runs,
           \/ ListScenes(p) \/ WriteSceneIndex(p) \/ WriteDatasetManifest(p)
           \/ GetVersion(p) \/ SaveVersion(p) \/ RecordTask(p)
    PROVE  TypeOK'
  <1>1. run \in [Runs -> RunRow] /\ version \in VersionRow
    BY DEF TypeOK, RunRow
  <1>2. CASE ListScenes(p)
    <2>1. Registered \in SUBSET Scenes
      BY DEF Registered
    <2>2. run' = [run EXCEPT ![p] = [run[p] EXCEPT !.pc = "write", !.listed = Registered]]
      BY <1>1, <1>2 DEF ListScenes
    <2>3. run' \in [Runs -> RunRow]
      <3>1. run[p] \in RunRow
        BY <1>1
      <3>2. [run[p] EXCEPT !.pc = "write", !.listed = Registered] \in RunRow
        BY <2>1, <3>1 DEF RunRow, Points
      <3> QED BY <1>1, <2>2, <3>2
    <2> QED BY <1>2, <2>3 DEF ListScenes, TypeOK, RunRow
  <1>3. CASE WriteSceneIndex(p)
    <2>1. run' \in [Runs -> RunRow]
      <3>1. run' = [run EXCEPT ![p] = [run[p] EXCEPT !.pc = "done"]]
        BY <1>1, <1>3 DEF WriteSceneIndex
      <3> QED BY <1>1, <3>1, RunMoves DEF Points
    <2>2. index' \subseteq Scenes
      BY <1>3, RowTypes DEF WriteSceneIndex
    <2> QED BY <1>3, <2>1, <2>2 DEF WriteSceneIndex, TypeOK, RunRow
  <1>4. CASE WriteDatasetManifest(p)
    <2>1. run' \in [Runs -> RunRow]
      <3>1. run' = [run EXCEPT ![p] = [run[p] EXCEPT !.pc = "version"]]
        BY <1>1, <1>4 DEF WriteDatasetManifest
      <3> QED BY <1>1, <3>1, RunMoves DEF Points
    <2>2. manifest' \subseteq Scenes
      BY <1>4, RowTypes DEF WriteDatasetManifest
    <2> QED BY <1>4, <2>1, <2>2 DEF WriteDatasetManifest, TypeOK, RunRow
  <1>5. CASE GetVersion(p)
    <2>1. run' = [run EXCEPT ![p] = [run[p] EXCEPT !.pc = "publish", !.copy = version]]
      BY <1>1, <1>5 DEF GetVersion
    <2>2. run' \in [Runs -> RunRow]
      BY <1>1, <2>1, RunReads DEF Points
    <2> QED BY <1>5, <2>2 DEF GetVersion, TypeOK, RunRow
  <1>6. CASE SaveVersion(p)
    <2>1. run' = [run EXCEPT ![p] = [run[p] EXCEPT !.pc = "done"]]
      BY <1>1, <1>6 DEF SaveVersion
    <2>2. run' \in [Runs -> RunRow]
      BY <1>1, <2>1, RunMoves DEF Points
    <2>3. Cardinality(run[p].listed) \in Nat /\ run[p].copy \in VersionRow
      BY RowTypes, ScenesAreCounted
    <2>4. version' \in VersionRow
      BY <1>6, <2>3 DEF SaveVersion, VersionRow, VersionStatus
    <2> QED BY <1>6, <2>2, <2>4 DEF SaveVersion, TypeOK, RunRow
  <1>7. CASE RecordTask(p)
    <2>1. PICK task \in Tasks, pc \in Points \cup AtRest : Goto(p, task, pc)
      BY <1>7, RowTypes DEF RecordTask, Rest, NextTask, Tasks, Points, AtRest
    <2>2. run' \in [Runs -> RunRow]
      BY <2>1, GotoForm
    <2> QED BY <1>7, <2>2 DEF RecordTask, TypeOK, RunRow
  <1> QED BY <1>2, <1>3, <1>4, <1>5, <1>6, <1>7

\* The failures keep the types.
LEMMA FailureTypes ==
    ASSUME TypeOK, Counted, NEW p \in Runs,
           JobFails(p) \/ JobFailsTwice(p) \/ WorkerLost(p)
    PROVE  TypeOK'
  <1>1. PICK pc \in {"failed", "orphaned"} : Goto(p, run[p].task, pc)
    BY DEF JobFails, JobFailsTwice, WorkerLost, Rest
  <1>2. run' \in [Runs -> RunRow]
    BY <1>1, GotoForm, RowTypes DEF AtRest
  <1>3. holder' \in Runs \cup {None}
    BY DEF JobFails, JobFailsTwice, WorkerLost, Release, TypeOK
  <1>4. records' \in [RecordIds -> Record]
    <2>1. CASE JobFails(p) /\ RecordOpen(p)
      <3>1. RecordOf(p) \in RecordIds
        BY <2>1, RecordExists DEF JobFails, RecordOpen
      <3> QED BY <2>1, <3>1 DEF JobFails, TypeOK, Record, RecordStatus
    <2>2. CASE ~(JobFails(p) /\ RecordOpen(p))
      BY <2>2 DEF JobFails, JobFailsTwice, WorkerLost, TypeOK
    <2> QED BY <2>1, <2>2
  <1>5. faults' \in Nat /\ crashes' \in Nat
    BY DEF JobFails, JobFailsTwice, WorkerLost, TypeOK
  <1> QED BY <1>2, <1>3, <1>4, <1>5 DEF JobFails, JobFailsTwice, WorkerLost, TypeOK, RunRow

\* Every step keeps the types.
LEMMA NextTypes ==
    ASSUME TypeOK, Counted, Next
    PROVE  TypeOK'
  BY IngestTypes, RecordTypes, PublishTypes, FailureTypes DEF Next, RunStep

-----------------------------------------------------------------------------
(* How a step moves a run *)

\* No step of one run moves another.
LEMMA OneRunMoves ==
    ASSUME TypeOK, NEW p \in Runs,
           \/ Execute(p) \/ RunStep(p) \/ JobFails(p) \/ JobFailsTwice(p) \/ WorkerLost(p)
    PROVE  \A q \in Runs \ {p} : run'[q] = run[q]
  <1>1. run \in [Runs -> RunRow]
    BY DEF TypeOK, RunRow
  <1>2. CASE \E task, pc : Goto(p, task, pc)
    BY <1>1, <1>2 DEF Goto
  <1>3. CASE Execute(p)
    BY <1>1, <1>3 DEF Execute
  <1>4. CASE \/ GetVersionToIngest(p) \/ BeginIngest(p)
             \/ (\E s \in Scenes : WriteSceneManifest(p, s)) \/ CommitIngest(p)
             \/ RegisterScenes(p)
    BY <1>1, <1>4 DEF GetVersionToIngest, BeginIngest, WriteSceneManifest, CommitIngest, RegisterScenes
  <1>5. CASE StartRecord(p) \/ LoadScenes(p) \/ ReadVersion(p)
    BY <1>1, <1>5 DEF StartRecord, LoadScenes, ReadVersion
  <1>6. CASE CommitRecord(p)
    <2>1. run' = [run EXCEPT ![p].pc = "done"]
      BY <1>6 DEF CommitRecord
    <2> QED BY <1>1, <2>1
  <1>7. CASE \/ ListScenes(p) \/ WriteSceneIndex(p) \/ WriteDatasetManifest(p)
             \/ GetVersion(p) \/ SaveVersion(p)
    BY <1>1, <1>7 DEF ListScenes, WriteSceneIndex, WriteDatasetManifest, GetVersion, SaveVersion
  <1>8. CASE RecordTask(p)
    BY <1>2, <1>8 DEF RecordTask, Rest
  <1>9. CASE JobFails(p) \/ JobFailsTwice(p) \/ WorkerLost(p)
    BY <1>2, <1>9 DEF JobFails, JobFailsTwice, WorkerLost, Rest
  <1> QED BY <1>3, <1>4, <1>5, <1>6, <1>7, <1>8, <1>9 DEF RunStep

\* Where each step takes its run, and what the run has read by then.
LEMMA Moves ==
    ASSUME TypeOK, NEW p \in Runs
    PROVE  /\ Execute(p) => run'[p] = [run[p] EXCEPT !.pc = "begin", !.attempt = run[p].attempt + 1]
           /\ GetVersionToIngest(p) => run'[p] = [run[p] EXCEPT !.pc = "lock", !.copy = version]
           /\ BeginIngest(p) => run'[p] = [run[p] EXCEPT !.pc = "write"]
           /\ \A s \in Scenes : WriteSceneManifest(p, s) =>
                  run'[p] = [run[p] EXCEPT !.written = run[p].written \cup {s}]
           /\ \/ CommitIngest(p) \/ RegisterScenes(p) \/ CommitRecord(p)
              \/ WriteSceneIndex(p) \/ SaveVersion(p)
              => run'[p] = [run[p] EXCEPT !.pc = "done"]
           /\ StartRecord(p) => run'[p] = [run[p] EXCEPT !.pc = "check"]
           /\ LoadScenes(p) =>
                  run'[p] = [run[p] EXCEPT
                      !.pc = "cache",
                      !.seen = [s \in Scenes |-> IF s \in Batch[p] THEN files[s] ELSE None]]
           /\ ReadVersion(p) => run'[p] = [run[p] EXCEPT !.pc = "commit", !.copy = version]
           /\ ListScenes(p) => run'[p] = [run[p] EXCEPT !.pc = "write", !.listed = Registered]
           /\ WriteDatasetManifest(p) => run'[p] = [run[p] EXCEPT !.pc = "version"]
           /\ GetVersion(p) => run'[p] = [run[p] EXCEPT !.pc = "publish", !.copy = version]
  <1>1. run \in [Runs -> RunRow]
    BY DEF TypeOK, RunRow
  <1>2. Execute(p) => run'[p] = [run[p] EXCEPT !.pc = "begin", !.attempt = run[p].attempt + 1]
    BY <1>1 DEF Execute
  <1>3. GetVersionToIngest(p) => run'[p] = [run[p] EXCEPT !.pc = "lock", !.copy = version]
    BY <1>1 DEF GetVersionToIngest
  <1>4. BeginIngest(p) => run'[p] = [run[p] EXCEPT !.pc = "write"]
    BY <1>1 DEF BeginIngest
  <1>5. \A s \in Scenes : WriteSceneManifest(p, s) =>
            run'[p] = [run[p] EXCEPT !.written = run[p].written \cup {s}]
    BY <1>1 DEF WriteSceneManifest
  <1>6. ASSUME \/ CommitIngest(p) \/ RegisterScenes(p) \/ CommitRecord(p)
               \/ WriteSceneIndex(p) \/ SaveVersion(p)
        PROVE  run'[p] = [run[p] EXCEPT !.pc = "done"]
    <2>1. run' = [run EXCEPT ![p].pc = "done"]
      BY <1>6 DEF CommitIngest, RegisterScenes, CommitRecord, WriteSceneIndex, SaveVersion
    <2> QED BY <1>1, <2>1
  <1>7. StartRecord(p) => run'[p] = [run[p] EXCEPT !.pc = "check"]
    BY <1>1 DEF StartRecord
  <1>8. LoadScenes(p) =>
            run'[p] = [run[p] EXCEPT
                !.pc = "cache",
                !.seen = [s \in Scenes |-> IF s \in Batch[p] THEN files[s] ELSE None]]
    BY <1>1 DEF LoadScenes
  <1>9. ReadVersion(p) => run'[p] = [run[p] EXCEPT !.pc = "commit", !.copy = version]
    BY <1>1 DEF ReadVersion
  <1>10. ListScenes(p) => run'[p] = [run[p] EXCEPT !.pc = "write", !.listed = Registered]
    BY <1>1 DEF ListScenes
  <1>11. WriteDatasetManifest(p) => run'[p] = [run[p] EXCEPT !.pc = "version"]
    BY <1>1 DEF WriteDatasetManifest
  <1>12. GetVersion(p) => run'[p] = [run[p] EXCEPT !.pc = "publish", !.copy = version]
    BY <1>1 DEF GetVersion
  <1> QED BY <1>2, <1>3, <1>4, <1>5, <1>6, <1>7, <1>8, <1>9, <1>10, <1>11, <1>12

\* Within a task a run keeps the task and its attempt.
LEMMA TaskSteps ==
    ASSUME TypeOK, NEW p \in Runs, RunStep(p), ~RecordTask(p)
    PROVE  /\ run'[p].task = run[p].task /\ run'[p].attempt = run[p].attempt
           /\ run'[p].pc \in Points \ {"begin"}
  <1>1. run[p] \in RunRow
    BY RowTypes
  <1>2. CASE GetVersionToIngest(p)
    <2>1. run'[p] = [run[p] EXCEPT !.pc = "lock", !.copy = version]
      BY <1>2, Moves
    <2> QED BY <1>1, <2>1 DEF RunRow, Points
  <1>3. CASE BeginIngest(p)
    <2>1. run'[p] = [run[p] EXCEPT !.pc = "write"]
      BY <1>3, Moves
    <2> QED BY <1>1, <2>1 DEF RunRow, Points
  <1>4. ASSUME NEW s \in Scenes, WriteSceneManifest(p, s)
        PROVE  /\ run'[p].task = run[p].task /\ run'[p].attempt = run[p].attempt
               /\ run'[p].pc = "write"
    <2>1. run'[p] = [run[p] EXCEPT !.written = run[p].written \cup {s}]
      BY <1>4, Moves
    <2>2. run[p].pc = "write"
      BY <1>4 DEF WriteSceneManifest, At
    <2> QED BY <1>1, <2>1, <2>2 DEF RunRow
  <1>5. CASE CommitIngest(p) \/ RegisterScenes(p) \/ CommitRecord(p) \/ WriteSceneIndex(p) \/ SaveVersion(p)
    <2>1. run'[p] = [run[p] EXCEPT !.pc = "done"]
      BY <1>5, Moves
    <2> QED BY <1>1, <2>1 DEF RunRow, Points
  <1>6. CASE StartRecord(p)
    <2>1. run'[p] = [run[p] EXCEPT !.pc = "check"]
      BY <1>6, Moves
    <2> QED BY <1>1, <2>1 DEF RunRow, Points
  <1>7. CASE LoadScenes(p)
    <2>1. PICK found : run'[p] = [run[p] EXCEPT !.pc = "cache", !.seen = found]
      BY <1>7, Moves
    <2> QED BY <1>1, <2>1 DEF RunRow, Points
  <1>8. CASE ReadVersion(p)
    <2>1. run'[p] = [run[p] EXCEPT !.pc = "commit", !.copy = version]
      BY <1>8, Moves
    <2> QED BY <1>1, <2>1 DEF RunRow, Points
  <1>9. CASE ListScenes(p)
    <2>1. run'[p] = [run[p] EXCEPT !.pc = "write", !.listed = Registered]
      BY <1>9, Moves
    <2> QED BY <1>1, <2>1 DEF RunRow, Points
  <1>10. CASE WriteDatasetManifest(p)
    <2>1. run'[p] = [run[p] EXCEPT !.pc = "version"]
      BY <1>10, Moves
    <2> QED BY <1>1, <2>1 DEF RunRow, Points
  <1>11. CASE GetVersion(p)
    <2>1. run'[p] = [run[p] EXCEPT !.pc = "publish", !.copy = version]
      BY <1>11, Moves
    <2> QED BY <1>1, <2>1 DEF RunRow, Points
  <1> QED BY <1>2, <1>3, <1>4, <1>5, <1>6, <1>7, <1>8, <1>9, <1>10, <1>11 DEF RunStep, Points

\* After a task the run is blocked by the quality rule, has succeeded, or
\* begins the next task; its attempt goes on.
LEMMA TaskMoves ==
    ASSUME TypeOK, NEW p \in Runs, RecordTask(p)
    PROVE  /\ run'[p].attempt = run[p].attempt /\ run'[p].written = {}
           /\ \/ /\ run[p].task = "validate" /\ ShouldBlock(p)
                 /\ run'[p].task = "validate" /\ run'[p].pc = "blocked"
              \/ /\ run[p].task = "manifest"
                 /\ run'[p].task = "manifest" /\ run'[p].pc = "succeeded"
              \/ /\ run[p].task # "manifest" /\ ~(run[p].task = "validate" /\ ShouldBlock(p))
                 /\ run'[p].task = NextTask(p) /\ run'[p].pc = "begin"
  <1>1. CASE run[p].task = "validate" /\ ShouldBlock(p)
    <2>1. Goto(p, "validate", "blocked")
      BY <1>1 DEF RecordTask, Rest
    <2> QED BY <1>1, <2>1, GotoForm DEF Tasks, AtRest
  <1>2. CASE run[p].task = "manifest"
    <2>1. Goto(p, "manifest", "succeeded")
      BY <1>2 DEF RecordTask, Rest
    <2> QED BY <1>2, <2>1, GotoForm DEF Tasks, AtRest
  <1>3. CASE run[p].task # "manifest" /\ ~(run[p].task = "validate" /\ ShouldBlock(p))
    <2>1. Goto(p, NextTask(p), "begin")
      BY <1>3 DEF RecordTask
    <2>2. NextTask(p) \in Tasks
      BY <1>3, RowTypes DEF NextTask, Tasks
    <2> QED BY <1>3, <2>1, <2>2, GotoForm DEF Points
  <1> QED BY <1>1, <1>2, <1>3

\* A run that fails or is lost keeps its task and its attempt.
LEMMA FailureMoves ==
    ASSUME TypeOK, NEW p \in Runs, JobFails(p) \/ JobFailsTwice(p) \/ WorkerLost(p)
    PROVE  /\ run'[p].task = run[p].task /\ run'[p].attempt = run[p].attempt
           /\ run'[p].pc \in {"failed", "orphaned"} /\ run'[p].written = {}
  <1>1. PICK pc \in {"failed", "orphaned"} : Goto(p, run[p].task, pc)
    BY DEF JobFails, JobFailsTwice, WorkerLost, Rest
  <1> QED BY <1>1, GotoForm, RowTypes DEF AtRest

-----------------------------------------------------------------------------
(* The run records, with any clients *)

\* A working run keeps an attempt that is counted: its record has an id.
LEMMA CountedStays ==
    ASSUME TypeOK, Counted, NEW p \in Runs,
           \/ Execute(p) \/ RunStep(p) \/ JobFails(p) \/ JobFailsTwice(p) \/ WorkerLost(p)
    PROVE  Counted'
  <1>1. \A q \in Runs \ {p} : run'[q] = run[q]
    BY OneRunMoves
  <1>2. run[p] \in RunRow
    BY RowTypes
  <1>3. Working(p)' => run'[p].attempt \in 1..MaxAttempts
    <2>1. CASE Execute(p)
      <3>1. run'[p].attempt = run[p].attempt + 1
        BY <1>2, <2>1, Moves DEF RunRow
      <3> QED BY <2>1, <3>1, RowTypes, CatalogAssumption DEF Execute
    <2>2. CASE RunStep(p) /\ ~RecordTask(p)
      <3>1. run'[p].attempt = run[p].attempt
        BY <2>2, TaskSteps
      <3>2. Working(p)
        BY <2>2 DEF RunStep, GetVersionToIngest, BeginIngest, WriteSceneManifest, CommitIngest,
           RegisterScenes, StartRecord, LoadScenes, ReadVersion, CommitRecord, ListScenes,
           WriteSceneIndex, WriteDatasetManifest, GetVersion, SaveVersion, At, Working, Points
      <3> QED BY <3>1, <3>2 DEF Counted
    <2>3. CASE RecordTask(p)
      BY <2>3, TaskMoves DEF RecordTask, Counted, Working, Points
    <2>4. CASE JobFails(p) \/ JobFailsTwice(p) \/ WorkerLost(p)
      BY <2>4, FailureMoves DEF Working, Points
    <2> QED BY <2>1, <2>2, <2>3, <2>4
  <1> QED BY <1>1, <1>3 DEF Counted, Working

\* A step of a run writes to the record of its own attempt only, and errors
\* and crashes are never forgotten.
LEMMA OneRecordMoves ==
    ASSUME TypeOK, Counted, NEW p \in Runs,
           \/ Execute(p) \/ RunStep(p) \/ JobFails(p) \/ JobFailsTwice(p) \/ WorkerLost(p)
    PROVE  /\ \A r \in RecordIds : r # RecordOf(p) => records'[r] = records[r]
           /\ faults' \in Nat /\ faults' >= faults /\ crashes' \in Nat /\ crashes' >= crashes
  <1>1. records \in [RecordIds -> Record] /\ faults \in Nat /\ crashes \in Nat
    BY DEF TypeOK
  <1>2. CASE Execute(p)
    BY <1>1, <1>2 DEF Execute
  <1>3. CASE \/ GetVersionToIngest(p) \/ BeginIngest(p)
             \/ (\E s \in Scenes : WriteSceneManifest(p, s)) \/ CommitIngest(p)
             \/ RegisterScenes(p)
    BY <1>1, <1>3 DEF GetVersionToIngest, BeginIngest, WriteSceneManifest, CommitIngest, RegisterScenes
  <1>4. CASE StartRecord(p) \/ LoadScenes(p) \/ ReadVersion(p)
    BY <1>1, <1>4 DEF StartRecord, LoadScenes, ReadVersion
  <1>5. CASE CommitRecord(p)
    <2>1. PICK rec : records' = [records EXCEPT ![RecordOf(p)] = rec]
      BY <1>5 DEF CommitRecord
    <2> QED BY <1>1, <1>5, <2>1 DEF CommitRecord
  <1>6. CASE \/ ListScenes(p) \/ WriteSceneIndex(p) \/ WriteDatasetManifest(p)
             \/ GetVersion(p) \/ SaveVersion(p) \/ RecordTask(p)
    BY <1>1, <1>6 DEF ListScenes, WriteSceneIndex, WriteDatasetManifest, GetVersion, SaveVersion, RecordTask
  <1>7. CASE JobFails(p)
    BY <1>1, <1>7 DEF JobFails
  <1>8. CASE JobFailsTwice(p) \/ WorkerLost(p)
    BY <1>1, <1>8 DEF JobFailsTwice, WorkerLost
  <1> QED BY <1>2, <1>3, <1>4, <1>5, <1>6, <1>7, <1>8 DEF RunStep

\* The records of other runs.
LEMMA OtherRecords ==
    ASSUME TypeOK, Counted, NEW p \in Runs, NEW q \in Runs \ {p}, RecordsOK(q),
           \/ Execute(p) \/ RunStep(p) \/ JobFails(p) \/ JobFailsTwice(p) \/ WorkerLost(p)
    PROVE  RecordsOK(q)'
  <1>1. run'[q] = run[q]
    BY OneRunMoves
  <1>2. \A t \in Recorded, n \in 1..MaxAttempts : records'[<<t, q, n>>] = records[<<t, q, n>>]
    BY OneRecordMoves DEF RecordIds, Recorded, RecordOf
  <1>3. faults' \in Nat /\ faults' >= faults /\ crashes' \in Nat /\ crashes' >= crashes
    BY OneRecordMoves
  <1>4. faults \in Nat /\ crashes \in Nat
    BY DEF TypeOK
  <1>5. NewUntilStarted(q)'
    BY <1>1, <1>2 DEF RecordsOK, NewUntilStarted
  <1>6. OpenRecordRuns(q)'
    <2>1. ASSUME RecordOpen(q) PROVE records'[RecordOf(q)].status = "RUNNING"
      <3>1. run[q].attempt \in 1..MaxAttempts
        BY <2>1 DEF Counted, Working, RecordOpen, Points
      <3>2. records'[RecordOf(q)] = records[RecordOf(q)]
        BY <1>2, <2>1, <3>1 DEF RecordOf, RecordOpen
      <3> QED BY <2>1, <3>2 DEF RecordsOK, OpenRecordRuns
    <2> QED BY <1>1, <2>1 DEF OpenRecordRuns, RecordOpen, RecordOf
  <1>7. RunningHasJob(q)'
    BY <1>1, <1>2, <1>3, <1>4 DEF RecordsOK, RunningHasJob, RecordOpen
  <1> QED BY <1>5, <1>6, <1>7 DEF RecordsOK

\* A step that writes no record and is not at work on one.
LEMMA QuietStep ==
    ASSUME TypeOK, NEW p \in Runs, RecordsOK(p), ~RecordOpen(p),
           \A t \in Recorded, n \in 1..MaxAttempts :
               records'[<<t, p, n>>] = records[<<t, p, n>>],
           faults' >= faults, faults' \in Nat, crashes' >= crashes, crashes' \in Nat,
           ~RecordOpen(p)',
           NewUntilStarted(p)'
    PROVE  RecordsOK(p)'
  <1>1. OpenRecordRuns(p)'
    BY DEF OpenRecordRuns
  <1>2. RunningHasJob(p)'
    BY DEF RecordsOK, RunningHasJob, TypeOK
  <1> QED BY <1>1, <1>2 DEF RecordsOK

\* Its own record, as validate_scene and profile_scene go on.
LEMMA RecordSteps ==
    ASSUME TypeOK, Counted, NEW p \in Runs, RecordsOK(p),
           StartRecord(p) \/ LoadScenes(p) \/ ReadVersion(p) \/ CommitRecord(p)
    PROVE  RecordsOK(p)'
  <1>1. records \in [RecordIds -> Record]
    BY DEF TypeOK
  <1>2. /\ run'[p].task = run[p].task /\ run'[p].attempt = run[p].attempt
        /\ run'[p].pc \in Points \ {"begin"}
    <2>1. RunStep(p) /\ ~RecordTask(p)
      BY DEF RunStep, StartRecord, LoadScenes, ReadVersion, CommitRecord, RecordTask, At
    <2> QED BY <2>1, TaskSteps
  <1>3. run[p].task \in Recorded /\ Working(p)
    BY DEF StartRecord, LoadScenes, ReadVersion, CommitRecord, At, Working, Points
  <1>4. RecordOf(p) \in RecordIds /\ RecordOf(p)' = RecordOf(p)
    BY <1>2, <1>3, RecordExists DEF RecordOf
  <1>5. \A t \in Recorded, n \in 1..MaxAttempts : <<t, p, n>> \in RecordIds
    BY DEF RecordIds, Recorded
  <1>6. \A t \in Recorded, n \in 1..MaxAttempts :
            <<t, p, n>> # RecordOf(p) => records'[<<t, p, n>>] = records[<<t, p, n>>]
    <2>1. RunStep(p)
      BY DEF RunStep
    <2> QED BY <1>5, <2>1, OneRecordMoves
  <1>7. NewUntilStarted(p)'
    <2> SUFFICES ASSUME NEW t \in Recorded, NEW n \in 1..MaxAttempts,
                        records'[<<t, p, n>>].status # None
                 PROVE  \/ n < run[p].attempt
                        \/ /\ n = run[p].attempt
                           /\ run[p].task \in Behind(t) \/ run[p].task = t
      BY <1>2 DEF NewUntilStarted, Points
    <2>1. CASE <<t, p, n>> = RecordOf(p)
      BY <2>1 DEF RecordOf
    <2>2. CASE <<t, p, n>> # RecordOf(p)
      BY <1>6, <2>2 DEF RecordsOK, NewUntilStarted
    <2> QED BY <2>1, <2>2
  <1>8. CASE StartRecord(p)
    <2>1. records'[RecordOf(p)].status = "RUNNING"
      BY <1>1, <1>4, <1>8 DEF StartRecord
    <2>2. run'[p].pc = "check"
      <3>1. run'[p] = [run[p] EXCEPT !.pc = "check"]
        BY <1>8, Moves
      <3> QED BY <3>1, RowTypes DEF RunRow
    <2>3. OpenRecordRuns(p)'
      BY <1>4, <2>1 DEF OpenRecordRuns
    <2>4. RunningHasJob(p)'
      <3> SUFFICES ASSUME NEW t \in Recorded, NEW n \in 1..MaxAttempts,
                          records'[<<t, p, n>>].status = "RUNNING",
                          <<t, p, n>> # RecordOf(p)
                   PROVE  crashes > 0 \/ faults > 1
        BY <1>2, <1>3, <1>8, <2>2 DEF RunningHasJob, RecordOpen, RecordOf, StartRecord
      <3>1. ~RecordOpen(p)
        BY <1>8 DEF StartRecord, RecordOpen, At
      <3> QED BY <1>6, <3>1 DEF RecordsOK, RunningHasJob
    <2> QED BY <1>7, <2>3, <2>4 DEF RecordsOK
  <1>9. CASE LoadScenes(p) \/ ReadVersion(p)
    <2>1. records' = records /\ crashes' = crashes /\ faults' = faults
      BY <1>9 DEF LoadScenes, ReadVersion
    <2>2. RecordOpen(p)
      BY <1>9 DEF LoadScenes, ReadVersion, RecordOpen, At
    <2>3. run'[p].pc \in {"cache", "commit"}
      <3>1. CASE LoadScenes(p)
        <4>1. PICK found : run'[p] = [run[p] EXCEPT !.pc = "cache", !.seen = found]
          BY <3>1, Moves
        <4> QED BY <4>1, RowTypes DEF RunRow
      <3>2. CASE ReadVersion(p)
        <4>1. run'[p] = [run[p] EXCEPT !.pc = "commit", !.copy = version]
          BY <3>2, Moves
        <4> QED BY <4>1, RowTypes DEF RunRow
      <3> QED BY <1>9, <3>1, <3>2
    <2>4. RecordOpen(p)'
      BY <1>2, <1>3, <2>3 DEF RecordOpen
    <2>5. OpenRecordRuns(p)'
      BY <1>4, <2>1, <2>2 DEF RecordsOK, OpenRecordRuns
    <2>6. RunningHasJob(p)'
      BY <1>2, <2>1, <2>4 DEF RecordsOK, RunningHasJob
    <2> QED BY <1>7, <2>5, <2>6 DEF RecordsOK
  <1>10. CASE CommitRecord(p)
    <2>1. PICK b : records' = [records EXCEPT ![RecordOf(p)] = [status |-> "SUCCEEDED", block |-> b]]
      BY <1>10 DEF CommitRecord
    <2>2. records'[RecordOf(p)].status = "SUCCEEDED"
      BY <1>1, <1>4, <2>1
    <2>3. run'[p].pc = "done"
      <3>1. run'[p] = [run[p] EXCEPT !.pc = "done"]
        BY <1>10, Moves
      <3> QED BY <3>1, RowTypes DEF RunRow
    <2>4. OpenRecordRuns(p)'
      BY <2>3 DEF OpenRecordRuns, RecordOpen
    <2>5. RunningHasJob(p)'
      <3> SUFFICES ASSUME NEW t \in Recorded, NEW n \in 1..MaxAttempts,
                          records'[<<t, p, n>>].status = "RUNNING"
                   PROVE  crashes > 0 \/ faults > 1
        BY <1>10 DEF RunningHasJob, CommitRecord
      <3>1. <<t, p, n>> # RecordOf(p)
        BY <2>2
      <3> QED BY <1>6, <3>1 DEF RecordsOK, RunningHasJob, RecordOf
    <2> QED BY <1>7, <2>4, <2>5 DEF RecordsOK
  <1> QED BY <1>8, <1>9, <1>10

\* Its own record, while a job fails or its worker is lost.
LEMMA FailureRecords ==
    ASSUME TypeOK, Counted, NEW p \in Runs, RecordsOK(p),
           JobFails(p) \/ JobFailsTwice(p) \/ WorkerLost(p)
    PROVE  RecordsOK(p)'
  <1>1. records \in [RecordIds -> Record] /\ faults \in Nat /\ crashes \in Nat
    BY DEF TypeOK
  <1>2. /\ run'[p].task = run[p].task /\ run'[p].attempt = run[p].attempt
        /\ run'[p].pc \in {"failed", "orphaned"}
    BY FailureMoves
  <1>3. \A t \in Recorded, n \in 1..MaxAttempts :
            /\ <<t, p, n>> \in RecordIds
            /\ <<t, p, n>> # RecordOf(p) => records'[<<t, p, n>>] = records[<<t, p, n>>]
    BY OneRecordMoves DEF RecordIds, Recorded
  <1>4. OpenRecordRuns(p)'
    BY <1>2 DEF OpenRecordRuns, RecordOpen
  <1>5. CASE RecordOpen(p)
    <2>1. run[p].task \in Recorded /\ run[p].pc # "begin"
      BY <1>5 DEF RecordOpen
    <2>2. NewUntilStarted(p)'
      <3> SUFFICES ASSUME NEW t \in Recorded, NEW n \in 1..MaxAttempts,
                          records'[<<t, p, n>>].status # None
                   PROVE  \/ n < run[p].attempt
                          \/ /\ n = run[p].attempt
                             /\ run[p].task \in Behind(t) \/ run[p].task = t
        BY <1>2 DEF NewUntilStarted
      <3>1. CASE <<t, p, n>> = RecordOf(p)
        BY <3>1 DEF RecordOf
      <3>2. CASE <<t, p, n>> # RecordOf(p)
        BY <1>3, <3>2 DEF RecordsOK, NewUntilStarted
      <3> QED BY <3>1, <3>2
    <2>3. RunningHasJob(p)'
      <3>1. CASE JobFails(p)
        <4>1. records' = [records EXCEPT ![RecordOf(p)].status = "FAILED"]
          BY <1>5, <3>1 DEF JobFails
        <4>2. RecordOf(p) \in RecordIds => records'[RecordOf(p)].status = "FAILED"
          BY <1>1, <4>1 DEF Record
        <4>3. faults' >= faults /\ crashes' = crashes
          BY <1>1, <3>1 DEF JobFails
        <4> SUFFICES ASSUME NEW t \in Recorded, NEW n \in 1..MaxAttempts,
                            records'[<<t, p, n>>].status = "RUNNING"
                     PROVE  crashes > 0 \/ faults > 1
          BY <1>1, <3>1, <4>3 DEF RunningHasJob, JobFails
        <4>4. <<t, p, n>> # RecordOf(p)
          BY <1>3, <4>2
        <4> QED BY <1>3, <4>4 DEF RecordsOK, RunningHasJob, RecordOf
      <3>2. CASE JobFailsTwice(p)
        BY <1>1, <3>2 DEF JobFailsTwice, RunningHasJob
      <3>3. CASE WorkerLost(p)
        BY <1>1, <3>3 DEF WorkerLost, RunningHasJob
      <3> QED BY <3>1, <3>2, <3>3
    <2> QED BY <1>4, <2>2, <2>3 DEF RecordsOK
  <1>6. CASE ~RecordOpen(p)
    <2>1. records' = records
      BY <1>6 DEF JobFails, JobFailsTwice, WorkerLost
    <2>2. NewUntilStarted(p)'
      BY <1>2, <2>1 DEF RecordsOK, NewUntilStarted
    <2>3. ~RecordOpen(p)'
      BY <1>2 DEF RecordOpen
    <2> QED BY <1>6, <2>1, <2>2, <2>3, OneRecordMoves, QuietStep
  <1> QED BY <1>5, <1>6

\* Its own record, in all other steps.
LEMMA OtherSteps ==
    ASSUME TypeOK, Counted, NEW p \in Runs, RecordsOK(p),
           Execute(p) \/ RunStep(p),
           ~(StartRecord(p) \/ LoadScenes(p) \/ ReadVersion(p) \/ CommitRecord(p))
    PROVE  RecordsOK(p)'
  <1>1. run[p] \in RunRow
    BY RowTypes
  <1>2. faults' \in Nat /\ faults' >= faults /\ crashes' \in Nat /\ crashes' >= crashes
    BY OneRecordMoves
  <1>3. records' = records
    BY DEF RunStep, Execute, GetVersionToIngest, BeginIngest, WriteSceneManifest, CommitIngest,
       RegisterScenes, ListScenes, WriteSceneIndex, WriteDatasetManifest, GetVersion, SaveVersion,
       RecordTask
  <1>4. CASE Execute(p)
    <2>1. /\ run'[p].task = run[p].task /\ run'[p].pc = "begin"
          /\ run'[p].attempt = run[p].attempt + 1
      <3>1. run'[p] = [run[p] EXCEPT !.pc = "begin", !.attempt = run[p].attempt + 1]
        BY <1>4, Moves
      <3> QED BY <1>1, <3>1 DEF RunRow
    <2>2. ~RecordOpen(p) /\ ~RecordOpen(p)'
      BY <1>4, <2>1 DEF Execute, RecordOpen
    <2>3. run[p].attempt \in Nat
      BY RowTypes, CatalogAssumption
    <2>4. NewUntilStarted(p)'
      BY <1>3, <2>1, <2>3 DEF RecordsOK, NewUntilStarted
    <2> QED BY <1>2, <1>3, <2>2, <2>4, QuietStep
  <1>5. CASE RecordTask(p)
    <2>1. run[p].pc = "done" /\ run'[p].attempt = run[p].attempt
      BY <1>5, TaskMoves DEF RecordTask
    <2>2. ~RecordOpen(p) /\ ~RecordOpen(p)'
      BY <1>5, <2>1, TaskMoves DEF RecordOpen
    <2>3. \A t \in Recorded : run[p].task \in Behind(t) \/ run[p].task = t
              => \/ run'[p].task \in Behind(t)
                 \/ run'[p].task = t /\ run'[p].pc # "begin"
      BY <1>5, TaskMoves DEF Behind, NextTask, Recorded
    <2>4. NewUntilStarted(p)'
      BY <1>3, <2>1, <2>3 DEF RecordsOK, NewUntilStarted
    <2> QED BY <1>2, <1>3, <2>2, <2>4, QuietStep
  <1>6. CASE RunStep(p) /\ ~RecordTask(p)
    <2>1. /\ run'[p].task = run[p].task /\ run'[p].attempt = run[p].attempt
          /\ run'[p].pc \in Points \ {"begin"}
      BY <1>6, TaskSteps
    <2>2. run[p].task \notin Recorded
      BY <1>6 DEF RunStep, GetVersionToIngest, BeginIngest, WriteSceneManifest, CommitIngest,
         RegisterScenes, ListScenes, WriteSceneIndex, WriteDatasetManifest, GetVersion,
         SaveVersion, At, Recorded
    <2>3. NewUntilStarted(p)'
      BY <1>3, <2>1, <2>2 DEF RecordsOK, NewUntilStarted
    <2>4. ~RecordOpen(p) /\ ~RecordOpen(p)'
      BY <2>1, <2>2 DEF RecordOpen
    <2> QED BY <1>2, <1>3, <2>3, <2>4, QuietStep
  <1> QED BY <1>4, <1>5, <1>6

\* A step of one run keeps the invariant of the run records, for all runs.
LEMMA RecordsStep ==
    ASSUME RecordsInv, NEW p \in Runs,
           \/ Execute(p) \/ RunStep(p) \/ JobFails(p) \/ JobFailsTwice(p) \/ WorkerLost(p)
    PROVE  RecordsInv'
  <1> USE DEF RecordsInv
  <1>1. TypeOK'
    BY NextTypes DEF Next
  <1>2. Counted'
    BY CountedStays
  <1>3. \A q \in Runs \ {p} : RecordsOK(q)'
    BY OtherRecords
  <1>4. RecordsOK(p)'
    BY RecordSteps, FailureRecords, OtherSteps
  <1> QED BY <1>1, <1>2, <1>3, <1>4

\* The invariant of the run records, whatever the clients do.
LEMMA RecordsInvariant == Spec => []RecordsInv
  <1>1. Init => RecordsInv
    <2> SUFFICES ASSUME Init PROVE RecordsInv
      OBVIOUS
    <2>1. TypeOK
      <3>1. NewVersion \in VersionRow
        BY DEF NewVersion, VersionRow, VersionStatus
      <3>2. NewRun \in RunRow
        BY <3>1, CatalogAssumption DEF NewRun, RunRow, Tasks, Points, AtRest, Contents
      <3>3. NewScene \in SceneRow /\ NewRecord \in Record
        BY DEF NewScene, SceneRow, SceneStatus, NewRecord, Record, RecordStatus
      <3> QED BY <3>1, <3>2, <3>3 DEF Init, TypeOK, RunRow
    <2>2. \A p \in Runs : run[p].pc = "idle"
      BY DEF Init, NewRun
    <2>3. \A r \in RecordIds : records[r].status = None
      BY DEF Init, NewRecord
    <2>4. \A p \in Runs, t \in Recorded, n \in 1..MaxAttempts : <<t, p, n>> \in RecordIds
      BY DEF RecordIds, Recorded
    <2>5. ASSUME NEW p \in Runs PROVE RecordsOK(p)
      BY <2>2, <2>3, <2>4 DEF RecordsOK, NewUntilStarted, OpenRecordRuns, RecordOpen,
         RunningHasJob, None
    <2> QED BY <2>1, <2>2, <2>5 DEF RecordsInv, Counted, Working, Points
  <1>2. RecordsInv /\ [Next]_vars => RecordsInv'
    <2> SUFFICES ASSUME RecordsInv, [Next]_vars PROVE RecordsInv'
      OBVIOUS
    <2>1. CASE Next
      BY <2>1, RecordsStep DEF Next
    <2>2. CASE UNCHANGED vars
      <3>1. ASSUME NEW p \in Runs PROVE RecordsOK(p)'
        BY <2>2 DEF vars, RecordsInv, RecordsOK, NewUntilStarted, OpenRecordRuns, RecordOpen,
           RecordOf, RunningHasJob
      <3> QED BY <2>2, <3>1 DEF vars, RecordsInv, TypeOK, Counted, Working
    <2> QED BY <2>1, <2>2
  <1> QED BY <1>1, <1>2, PTL DEF Spec

\* Every row, file, record and lock of the catalog keeps its type.
THEOREM CatalogTypeCorrect == Spec => []TypeOK
  <1>1. RecordsInv => TypeOK
    BY DEF RecordsInv
  <1> QED BY <1>1, RecordsInvariant, PTL

\* A record says RUNNING with no job at work on it only if a worker was lost,
\* or the save of a failure failed: RunRecordHandler.run closes every other,
\* however runs interleave, fail and are executed again.
THEOREM RunningRecordsHaveJobs == Spec => []RunningRecordHasJob
  <1>1. RecordsInv => RunningRecordHasJob
    BY DEF RecordsInv, RecordsOK, RunningHasJob, RunningRecordHasJob
  <1> QED BY <1>1, RecordsInvariant, PTL

\* A run record that is finished is not written again.
LEMMA FinishedIsKept ==
    ASSUME RecordsInv, NEW p \in Runs, NEW r \in RecordIds,
           records[r].status \in {"SUCCEEDED", "FAILED"},
           \/ Execute(p) \/ RunStep(p) \/ JobFails(p) \/ JobFailsTwice(p) \/ WorkerLost(p)
    PROVE  records'[r] = records[r]
  <1> USE DEF RecordsInv
  <1>1. CASE r # RecordOf(p)
    BY <1>1, OneRecordMoves
  <1>2. CASE r = RecordOf(p) /\ RecordOpen(p)
    BY <1>2 DEF RecordsOK, OpenRecordRuns
  <1>3. CASE r = RecordOf(p) /\ ~RecordOpen(p)
    <2>1. ~StartRecord(p)
      <3> SUFFICES ASSUME StartRecord(p) PROVE FALSE
        OBVIOUS
      <3>1. run[p].task \in Recorded /\ run[p].pc = "begin" /\ Working(p)
        BY DEF StartRecord, At, Working, Points
      <3>2. run[p].attempt \in 1..MaxAttempts
        BY <3>1 DEF Counted
      <3>3. records[<<run[p].task, p, run[p].attempt>>].status # None
        BY <1>3 DEF RecordOf, None
      <3>4. run[p].task \notin Behind(run[p].task)
        BY <3>1 DEF Behind, Recorded
      <3> QED BY <3>1, <3>2, <3>3, <3>4, CatalogAssumption DEF RecordsOK, NewUntilStarted
    <2>2. ~CommitRecord(p)
      BY <1>3 DEF CommitRecord, RecordOpen, At
    <2> QED BY <1>3, <2>1, <2>2 DEF Execute, RunStep, JobFails, JobFailsTwice, WorkerLost,
            GetVersionToIngest, BeginIngest, WriteSceneManifest, CommitIngest, RegisterScenes,
            LoadScenes, ReadVersion, ListScenes, WriteSceneIndex, WriteDatasetManifest,
            GetVersion, SaveVersion, RecordTask
  <1> QED BY <1>1, <1>2, <1>3

\* Once a record says how its job ended it is never written again: each
\* attempt of a task has a record of its own, whatever clients do.
THEOREM FinishedRecordsStay ==
    Spec => [][\A r \in RecordIds :
                   records[r].status \in {"SUCCEEDED", "FAILED"} => records'[r] = records[r]]_vars
  <1>1. RecordsInv /\ [Next]_vars =>
            [\A r \in RecordIds :
                 records[r].status \in {"SUCCEEDED", "FAILED"} => records'[r] = records[r]]_vars
    BY FinishedIsKept DEF Next
  <1> QED BY <1>1, RecordsInvariant, PTL DEF Spec

-----------------------------------------------------------------------------
(* One run at a time *)

Derived == <<files, scenes, checked, version, index, manifest>>

\* It is enough to look at the run that takes a step: it is the latest, and
\* no other is at work.
LEMMA OneIsEnough ==
    ASSUME CatalogInv, NEW p \in Runs,
           \/ Execute(p) \/ RunStep(p) \/ JobFails(p) \/ JobFailsTwice(p) \/ WorkerLost(p),
           latest' = p, \A q \in Runs \ {p} : ~Working(q),
           run'[p].pc # "idle",
           HasCopy(p)' => run'[p].copy = version',
           BatchStands(p)', FilesStand(p)'
    PROVE  OneAtWork' /\ CopiesAreFresh' /\ LatestStands' /\ IdleIsNew'
  <1>1. \A q \in Runs \ {p} : run'[q] = run[q]
    BY OneRunMoves DEF CatalogInv, RecordsInv
  <1>2. \A q \in Runs \ {p} : ~Working(q)' /\ ~HasCopy(q)'
    BY <1>1 DEF Working, HasCopy, Points
  <1>3. OneAtWork' /\ CopiesAreFresh'
    BY <1>2 DEF OneAtWork, CopiesAreFresh
  <1>4. LatestStands'
    BY DEF LatestStands
  <1>5. IdleIsNew'
    BY <1>1 DEF CatalogInv, IdleIsNew
  <1> QED BY <1>3, <1>4, <1>5

\* A run at work is the latest, and the others are not at work.
LEMMA WorkerIsLatest ==
    ASSUME CatalogInv, NEW p \in Runs, Working(p)
    PROVE  /\ latest = p /\ \A q \in Runs \ {p} : ~Working(q)
           /\ run[p].pc # "idle" /\ BatchStands(p) /\ FilesStand(p)
  <1>1. latest = p /\ \A q \in Runs \ {p} : ~Working(q)
    BY DEF CatalogInv, OneAtWork
  <1>2. run[p].pc # "idle"
    BY DEF Working, Points
  <1> QED BY <1>1, <1>2 DEF CatalogInv, LatestStands

\* What a run has done still stands when it begins, stops or goes on reading.
LEMMA StandsUnread ==
    ASSUME NEW p \in Runs, BatchStands(p), FilesStand(p), UNCHANGED Derived,
           run'[p].task = run[p].task,
           \/ run'[p].pc \in {"begin", "lock", "check"} \cup AtRest
           \/ run'[p].task = "ingest" /\ run'[p].pc = "write",
           run'[p].written \in {run[p].written, {}}
    PROVE  BatchStands(p)' /\ FilesStand(p)'
  <1>1. /\ files' = files /\ scenes' = scenes /\ checked' = checked
        /\ version' = version /\ index' = index /\ manifest' = manifest
    BY DEF Derived
  <1>2. /\ run'[p].pc # "done"
        /\ ~HasSeen(p)' /\ ~HasListed(p)'
        /\ run'[p].pc \notin {"version", "publish"}
    BY DEF HasSeen, HasListed, AtRest, Recorded
  <1>3. BatchStands(p)'
    BY <1>1, <1>2 DEF BatchStands, Ingested, HasRegistered, Validated, Past, At
  <1>4. FilesStand(p)'
    BY <1>1, <1>2 DEF FilesStand, Ingested, Indexed, Past, At, Registered
  <1> QED BY <1>3, <1>4

\* The cached verdict stays that of its run as long as it names the same runs.
LEMMA CacheKept ==
    ASSUME RecordsInv, CacheIsOfItsRun, NEW p \in Runs,
           \/ Execute(p) \/ RunStep(p) \/ JobFails(p) \/ JobFailsTwice(p) \/ WorkerLost(p),
           version'.validation = version.validation, version'.block = version.block,
           version'.profile = version.profile
    PROVE  CacheIsOfItsRun'
  <1>1. version.validation \in RecordIds \cup {NoRecord} /\ version.profile \in RecordIds \cup {NoRecord}
    BY DEF RecordsInv, TypeOK, VersionRow
  <1>2. \A r \in RecordIds : records[r].status = "SUCCEEDED" => records'[r] = records[r]
    BY FinishedIsKept
  <1>3. ASSUME version.validation # NoRecord
        PROVE  records'[version.validation] = [status |-> "SUCCEEDED", block |-> version.block]
    BY <1>1, <1>2, <1>3 DEF CacheIsOfItsRun
  <1>4. version.profile # NoRecord => records'[version.profile].status = "SUCCEEDED"
    BY <1>1, <1>2 DEF CacheIsOfItsRun
  <1> QED BY <1>3, <1>4 DEF CacheIsOfItsRun

\* What holds of the catalog as a whole, while nothing but records changes.
LEMMA CatalogKept ==
    ASSUME CatalogInv, UNCHANGED Derived, NEW p \in Runs,
           \/ Execute(p) \/ RunStep(p) \/ JobFails(p) \/ JobFailsTwice(p) \/ WorkerLost(p)
    PROVE  /\ ReadyIsComplete' /\ ValidatedAsRegistered' /\ CacheIsOfItsRun'
           /\ manifest' \subseteq Registered'
  <1>1. /\ files' = files /\ scenes' = scenes /\ checked' = checked
        /\ version' = version /\ index' = index /\ manifest' = manifest
    BY DEF Derived
  <1>2. CacheIsOfItsRun'
    BY <1>1, CacheKept DEF CatalogInv
  <1> QED BY <1>1, <1>2 DEF CatalogInv, ReadyIsComplete, ValidatedAsRegistered, Registered

\* A disciplined client's execute keeps the invariant of the catalogue.
LEMMA ExecuteKeeps ==
    ASSUME CatalogInv, DisciplinedClient, NEW p \in Runs, Execute(p)
    PROVE  CatalogInv'
  <1>1. run[p] \in RunRow
    BY RowTypes DEF CatalogInv, RecordsInv
  <1>2. run'[p] = [run[p] EXCEPT !.pc = "begin", !.attempt = run[p].attempt + 1]
    BY Moves DEF CatalogInv, RecordsInv
  <1>3. /\ run'[p].task = run[p].task /\ run'[p].pc = "begin"
        /\ run'[p].written = run[p].written
    BY <1>1, <1>2 DEF RunRow
  <1>4. UNCHANGED Derived
    BY DEF Execute, Derived
  <1>5. latest' = p /\ \A q \in Runs : ~Working(q)
    BY DEF Execute
  <1>6. BatchStands(p)' /\ FilesStand(p)'
    <2>1. CASE run[p].pc = "idle"
      <3>1. run'[p].task = "ingest" /\ run'[p].written = {}
        BY <1>3, <2>1 DEF CatalogInv, IdleIsNew
      <3> QED BY <1>3, <3>1 DEF BatchStands, FilesStand, Ingested, HasRegistered, HasSeen,
                 Validated, Indexed, HasListed, Past, At, Recorded, Tasks
    <2>2. CASE run[p].pc # "idle"
      <3>1. BatchStands(p) /\ FilesStand(p)
        BY <2>2 DEF Execute, CatalogInv, LatestStands
      <3> QED BY <1>3, <1>4, <3>1, StandsUnread
    <2> QED BY <2>1, <2>2
  <1>7. OneAtWork' /\ CopiesAreFresh' /\ LatestStands' /\ IdleIsNew'
    BY <1>3, <1>5, <1>6, OneIsEnough DEF HasCopy
  <1>8. /\ ReadyIsComplete' /\ ValidatedAsRegistered' /\ CacheIsOfItsRun'
        /\ manifest' \subseteq Registered'
    BY <1>4, CatalogKept
  <1>9. RecordsInv'
    BY RecordsStep DEF CatalogInv
  <1> QED BY <1>7, <1>8, <1>9 DEF CatalogInv

\* Steps that only take the run on, or end its work.
LEMMA RestKeeps ==
    ASSUME CatalogInv, NEW p \in Runs,
           \/ GetVersionToIngest(p) \/ BeginIngest(p) \/ StartRecord(p)
           \/ JobFails(p) \/ JobFailsTwice(p) \/ WorkerLost(p)
    PROVE  CatalogInv'
  <1>1. run[p] \in RunRow
    BY RowTypes DEF CatalogInv, RecordsInv
  <1>2. Working(p)
    BY DEF GetVersionToIngest, BeginIngest, StartRecord, JobFails, JobFailsTwice, WorkerLost,
       RecordOpen, Working, At, Points
  <1>3. UNCHANGED Derived /\ latest' = latest
    BY DEF GetVersionToIngest, BeginIngest, StartRecord, JobFails, JobFailsTwice, WorkerLost, Derived
  <1>4. /\ run'[p].task = run[p].task
        /\ run'[p].written \in {run[p].written, {}}
        /\ \/ GetVersionToIngest(p) /\ run'[p].pc = "lock" /\ run'[p].copy = version
           \/ BeginIngest(p) /\ run'[p].pc = "write" /\ run'[p].copy = run[p].copy
           \/ run'[p].pc \in {"check", "failed", "orphaned"}
    <2>1. CASE GetVersionToIngest(p)
      <3>1. run'[p] = [run[p] EXCEPT !.pc = "lock", !.copy = version]
        BY <2>1, Moves DEF CatalogInv, RecordsInv
      <3> QED BY <1>1, <2>1, <3>1 DEF RunRow
    <2>2. CASE BeginIngest(p)
      <3>1. run'[p] = [run[p] EXCEPT !.pc = "write"]
        BY <2>2, Moves DEF CatalogInv, RecordsInv
      <3> QED BY <1>1, <2>2, <3>1 DEF RunRow
    <2>3. CASE StartRecord(p)
      <3>1. run'[p] = [run[p] EXCEPT !.pc = "check"]
        BY <2>3, Moves DEF CatalogInv, RecordsInv
      <3> QED BY <1>1, <2>3, <3>1 DEF RunRow
    <2>4. CASE JobFails(p) \/ JobFailsTwice(p) \/ WorkerLost(p)
      BY <2>4, FailureMoves DEF CatalogInv, RecordsInv
    <2> QED BY <2>1, <2>2, <2>3, <2>4
  <1>5. /\ latest = p /\ \A q \in Runs \ {p} : ~Working(q)
        /\ BatchStands(p) /\ FilesStand(p)
    BY <1>2, WorkerIsLatest
  <1>6. BatchStands(p)' /\ FilesStand(p)'
    <2>1. \/ run'[p].pc \in {"lock", "check"} \cup AtRest
          \/ run'[p].task = "ingest" /\ run'[p].pc = "write"
      BY <1>4 DEF BeginIngest, At, AtRest
    <2> QED BY <1>3, <1>4, <1>5, <2>1, StandsUnread
  <1>7. HasCopy(p)' => run'[p].copy = version'
    <2>1. version' = version
      BY <1>3 DEF Derived
    <2>2. CASE GetVersionToIngest(p) /\ run'[p].copy = version
      BY <2>1, <2>2
    <2>3. CASE BeginIngest(p) /\ run'[p].copy = run[p].copy
      <3>1. HasCopy(p)
        BY <2>3 DEF BeginIngest, HasCopy, At
      <3> QED BY <2>1, <2>3, <3>1 DEF CatalogInv, CopiesAreFresh
    <2>4. CASE run'[p].pc \in {"check", "failed", "orphaned"}
      BY <2>4 DEF HasCopy
    <2> QED BY <1>4, <2>2, <2>3, <2>4
  <1>8. run'[p].pc # "idle"
    BY <1>4
  <1>9. \/ RunStep(p) \/ JobFails(p) \/ JobFailsTwice(p) \/ WorkerLost(p)
    BY DEF RunStep
  <1>10. OneAtWork' /\ CopiesAreFresh' /\ LatestStands' /\ IdleIsNew'
    BY <1>3, <1>5, <1>6, <1>7, <1>8, <1>9, OneIsEnough
  <1>11. /\ ReadyIsComplete' /\ ValidatedAsRegistered' /\ CacheIsOfItsRun'
         /\ manifest' \subseteq Registered'
    BY <1>3, <1>9, CatalogKept
  <1>12. RecordsInv'
    BY <1>9, RecordsStep DEF CatalogInv
  <1> QED BY <1>10, <1>11, <1>12 DEF CatalogInv

\* Steps that read what a later step makes use of.
LEMMA ReadKeeps ==
    ASSUME CatalogInv, NEW p \in Runs,
           LoadScenes(p) \/ ReadVersion(p) \/ ListScenes(p) \/ GetVersion(p)
    PROVE  CatalogInv'
  <1>1. run[p] \in RunRow /\ Batch[p] \in SUBSET Scenes
    BY RowTypes DEF CatalogInv, RecordsInv
  <1>2. Working(p)
    BY DEF LoadScenes, ReadVersion, ListScenes, GetVersion, Working, At, Points
  <1>3. UNCHANGED Derived /\ latest' = latest
    BY DEF LoadScenes, ReadVersion, ListScenes, GetVersion, Derived
  <1>4. /\ files' = files /\ scenes' = scenes /\ checked' = checked
        /\ version' = version /\ index' = index /\ manifest' = manifest
    BY <1>3 DEF Derived
  <1>5. Registered' = Registered
    BY <1>4 DEF Registered
  <1>6. /\ latest = p /\ \A q \in Runs \ {p} : ~Working(q)
        /\ BatchStands(p) /\ FilesStand(p)
    BY <1>2, WorkerIsLatest
  <1>7. /\ run'[p].pc \in {"cache", "commit", "write", "publish"}
        /\ HasCopy(p)' => run'[p].copy = version'
        /\ BatchStands(p)' /\ FilesStand(p)'
    <2>1. CASE LoadScenes(p)
      <3>1. run'[p] = [run[p] EXCEPT
                !.pc = "cache",
                !.seen = [s \in Scenes |-> IF s \in Batch[p] THEN files[s] ELSE None]]
        BY <2>1, Moves DEF CatalogInv, RecordsInv
      <3>2. /\ run'[p].task = run[p].task /\ run'[p].pc = "cache"
            /\ \A s \in Batch[p] : run'[p].seen[s] = files[s]
        BY <1>1, <3>1 DEF RunRow
      <3>3. run[p].task \in Recorded /\ run[p].pc = "check"
        BY <2>1 DEF LoadScenes, At
      <3> QED BY <1>4, <1>5, <1>6, <3>2, <3>3 DEF HasCopy, BatchStands, FilesStand, Ingested,
                 HasRegistered, HasSeen, Validated, Indexed, HasListed, Past, At, Recorded
    <2>2. CASE ReadVersion(p)
      <3>1. run'[p] = [run[p] EXCEPT !.pc = "commit", !.copy = version]
        BY <2>2, Moves DEF CatalogInv, RecordsInv
      <3>2. /\ run'[p].task = run[p].task /\ run'[p].pc = "commit"
            /\ run'[p].copy = version /\ run'[p].seen = run[p].seen
        BY <1>1, <3>1 DEF RunRow
      <3>3. run[p].task \in Recorded /\ run[p].pc = "cache"
        BY <2>2 DEF ReadVersion, At
      <3> QED BY <1>4, <1>5, <1>6, <3>2, <3>3 DEF HasCopy, BatchStands, FilesStand, Ingested,
                 HasRegistered, HasSeen, Validated, Indexed, HasListed, Past, At, Recorded
    <2>3. CASE ListScenes(p)
      <3>1. run'[p] = [run[p] EXCEPT !.pc = "write", !.listed = Registered]
        BY <2>3, Moves DEF CatalogInv, RecordsInv
      <3>2. /\ run'[p].task = run[p].task /\ run'[p].pc = "write" /\ run'[p].listed = Registered
        BY <1>1, <3>1 DEF RunRow
      <3>3. run[p].task \in {"index", "manifest"} /\ run[p].pc = "begin"
        BY <2>3 DEF ListScenes, At
      <3> QED BY <1>4, <1>5, <1>6, <3>2, <3>3 DEF HasCopy, BatchStands, FilesStand, Ingested,
                 HasRegistered, HasSeen, Validated, Indexed, HasListed, Past, At, Recorded
    <2>4. CASE GetVersion(p)
      <3>1. run'[p] = [run[p] EXCEPT !.pc = "publish", !.copy = version]
        BY <2>4, Moves DEF CatalogInv, RecordsInv
      <3>2. /\ run'[p].task = run[p].task /\ run'[p].pc = "publish"
            /\ run'[p].copy = version /\ run'[p].listed = run[p].listed
        BY <1>1, <3>1 DEF RunRow
      <3>3. run[p].task = "manifest" /\ run[p].pc = "version"
        BY <2>4 DEF GetVersion, At
      <3> QED BY <1>4, <1>5, <1>6, <3>2, <3>3 DEF HasCopy, BatchStands, FilesStand, Ingested,
                 HasRegistered, HasSeen, Validated, Indexed, HasListed, Past, At, Recorded
    <2> QED BY <2>1, <2>2, <2>3, <2>4
  <1>8. RunStep(p)
    BY DEF RunStep
  <1>9. OneAtWork' /\ CopiesAreFresh' /\ LatestStands' /\ IdleIsNew'
    BY <1>3, <1>6, <1>7, <1>8, OneIsEnough
  <1>10. /\ ReadyIsComplete' /\ ValidatedAsRegistered' /\ CacheIsOfItsRun'
         /\ manifest' \subseteq Registered'
    BY <1>3, <1>8, CatalogKept
  <1>11. RecordsInv'
    BY <1>8, RecordsStep DEF CatalogInv
  <1> QED BY <1>9, <1>10, <1>11 DEF CatalogInv

\* Between two tasks what the one has done becomes what the next relies on.
LEMMA RecordTaskKeeps ==
    ASSUME CatalogInv, NEW p \in Runs, RecordTask(p)
    PROVE  CatalogInv'
  <1>1. run[p] \in RunRow /\ Batch[p] \in SUBSET Scenes
    BY RowTypes DEF CatalogInv, RecordsInv
  <1>2. Working(p) /\ run[p].pc = "done"
    BY DEF RecordTask, Working, Points
  <1>3. UNCHANGED Derived /\ latest' = latest
    BY DEF RecordTask, Derived
  <1>4. /\ files' = files /\ scenes' = scenes /\ checked' = checked
        /\ version' = version /\ index' = index /\ manifest' = manifest
    BY <1>3 DEF Derived
  <1>5. Registered' = Registered
    BY <1>4 DEF Registered
  <1>6. /\ latest = p /\ \A q \in Runs \ {p} : ~Working(q)
        /\ BatchStands(p) /\ FilesStand(p)
    BY <1>2, WorkerIsLatest
  <1>7. BatchStands(p)' /\ FilesStand(p)'
    <2>1. CASE run'[p].task = run[p].task /\ run'[p].pc \in {"blocked", "succeeded"}
      <3>1. run'[p].written = {}
        BY TaskMoves DEF CatalogInv, RecordsInv
      <3> QED BY <1>3, <1>6, <2>1, <3>1, StandsUnread DEF AtRest
    <2>2. CASE /\ run[p].task # "manifest" /\ ~(run[p].task = "validate" /\ ShouldBlock(p))
               /\ run'[p].task = NextTask(p) /\ run'[p].pc = "begin"
      <3>1. ASSUME run[p].task = "validate", NEW s \in Batch[p]
            PROVE  scenes[s].content = "good" /\ checked[s] = "good"
        <4>1. run[p].seen[s] = files[s] /\ checked[s] = run[p].seen[s]
              /\ scenes[s].content = files[s] /\ files[s] \in Contents
          BY <1>2, <1>6, <3>1 DEF BatchStands, HasSeen, HasRegistered, Ingested, Past, At,
             Recorded, Tasks
        <4>2. run[p].seen[s] # "bad"
          BY <2>2, <3>1 DEF ShouldBlock
        <4> QED BY <4>1, <4>2 DEF Contents
      <3>2. Validated(p)' => \A s \in Batch[p] : scenes[s].content = "good" /\ checked[s] = "good"
        BY <1>1, <1>6, <2>2, <3>1 DEF Validated, BatchStands, NextTask, RunRow, Tasks
      <3>3. /\ run'[p].task # "ingest" /\ run'[p].pc = "begin"
            /\ Ingested(p)
            /\ HasRegistered(p)' => HasRegistered(p)
            /\ Indexed(p)' => Indexed(p)
        BY <1>1, <1>2, <2>2 DEF NextTask, RunRow, Tasks, Ingested, HasRegistered, Indexed, Past, At
      <3>4. BatchStands(p)'
        BY <1>4, <1>6, <3>2, <3>3 DEF BatchStands, HasSeen, At
      <3>5. FilesStand(p)'
        BY <1>4, <1>5, <1>6, <2>2, <3>3 DEF FilesStand, HasListed
      <3> QED BY <3>4, <3>5
    <2> QED BY <2>1, <2>2, TaskMoves DEF CatalogInv, RecordsInv
  <1>8. run'[p].pc \in {"begin", "blocked", "succeeded"}
    BY TaskMoves DEF CatalogInv, RecordsInv
  <1>9. RunStep(p)
    BY DEF RunStep
  <1>10. OneAtWork' /\ CopiesAreFresh' /\ LatestStands' /\ IdleIsNew'
    BY <1>3, <1>6, <1>7, <1>8, <1>9, OneIsEnough DEF HasCopy
  <1>11. /\ ReadyIsComplete' /\ ValidatedAsRegistered' /\ CacheIsOfItsRun'
         /\ manifest' \subseteq Registered'
    BY <1>3, <1>9, CatalogKept
  <1>12. RecordsInv'
    BY <1>9, RecordsStep DEF CatalogInv
  <1> QED BY <1>10, <1>11, <1>12 DEF CatalogInv

\* The steps of an ingest that write a manifest or commit the version.
LEMMA IngestKeeps ==
    ASSUME CatalogInv, NEW p \in Runs,
           (\E s \in Scenes : WriteSceneManifest(p, s)) \/ CommitIngest(p)
    PROVE  CatalogInv'
  <1>1. run[p] \in RunRow /\ version \in VersionRow /\ files \in [Scenes -> Contents \cup {None}]
    BY RowTypes DEF CatalogInv, RecordsInv, TypeOK
  <1>2. run[p].task = "ingest" /\ run[p].pc = "write" /\ Working(p) /\ HasCopy(p)
    BY DEF WriteSceneManifest, CommitIngest, Working, HasCopy, At, Points
  <1>3. /\ latest = p /\ \A q \in Runs \ {p} : ~Working(q)
        /\ BatchStands(p) /\ FilesStand(p)
    BY <1>2, WorkerIsLatest
  <1>4. run[p].copy = version
    BY <1>2 DEF CatalogInv, CopiesAreFresh
  <1>5. /\ latest' = latest /\ UNCHANGED <<scenes, checked, index, manifest>>
        /\ Registered' = Registered
    BY DEF WriteSceneManifest, CommitIngest, Registered
  <1>6. RunStep(p)
    BY DEF RunStep
  <1>7. ASSUME NEW s \in Scenes, WriteSceneManifest(p, s)
        PROVE  /\ run'[p].pc = "write" /\ version' = version
               /\ HasCopy(p)' => run'[p].copy = version'
               /\ BatchStands(p)' /\ FilesStand(p)'
    <2>1. run'[p] = [run[p] EXCEPT !.written = run[p].written \cup {s}]
      BY <1>7, Moves DEF CatalogInv, RecordsInv
    <2>2. /\ run'[p].task = "ingest" /\ run'[p].pc = "write" /\ run'[p].copy = run[p].copy
          /\ run'[p].written = run[p].written \cup {s}
      BY <1>1, <1>2, <2>1 DEF RunRow
    <2>3. version' = version
      BY <1>7 DEF WriteSceneManifest
    <2>4. PICK c \in Contents : files' = [files EXCEPT ![s] = c]
      BY <1>7 DEF WriteSceneManifest
    <2>5. \A x \in run'[p].written : files'[x] \in Contents
      BY <1>1, <1>2, <1>3, <2>2, <2>4 DEF BatchStands, RunRow
    <2>6. BatchStands(p)' /\ FilesStand(p)'
      BY <2>2, <2>5 DEF BatchStands, FilesStand, Ingested, HasRegistered, HasSeen, Validated,
         Indexed, HasListed, Past, At, Recorded, Tasks
    <2> QED BY <1>4, <2>2, <2>3, <2>6
  <1>8. ASSUME CommitIngest(p)
        PROVE  /\ run'[p].pc = "done"
               /\ version'.status = "INGESTED" /\ version'.validation = version.validation
               /\ version'.block = version.block /\ version'.profile = version.profile
               /\ HasCopy(p)' => run'[p].copy = version'
               /\ BatchStands(p)' /\ FilesStand(p)'
    <2>1. run'[p] = [run[p] EXCEPT !.pc = "done"]
      BY <1>8, Moves DEF CatalogInv, RecordsInv
    <2>2. /\ run'[p].task = "ingest" /\ run'[p].pc = "done"
          /\ run'[p].written = run[p].written
      BY <1>1, <1>2, <2>1 DEF RunRow
    <2>3. /\ version'.status = "INGESTED" /\ version'.validation = version.validation
          /\ version'.block = version.block /\ version'.profile = version.profile
      BY <1>1, <1>4, <1>8 DEF CommitIngest, VersionRow
    <2>4. run[p].written = Batch[p] /\ files' = files
      BY <1>8 DEF CommitIngest
    <2>5. BatchStands(p)'
      BY <1>2, <1>3, <2>2, <2>4 DEF BatchStands, HasRegistered, HasSeen, Validated, Past, At, Recorded, Tasks
    <2>6. FilesStand(p)'
      BY <2>2, <2>3 DEF FilesStand, Indexed, HasListed, Past, At
    <2> QED BY <2>2, <2>3, <2>5, <2>6 DEF HasCopy
  <1>9. OneAtWork' /\ CopiesAreFresh' /\ LatestStands' /\ IdleIsNew'
    BY <1>3, <1>5, <1>6, <1>7, <1>8, OneIsEnough
  <1>10. ReadyIsComplete'
    BY <1>5, <1>7, <1>8 DEF CatalogInv, ReadyIsComplete
  <1>11. CacheIsOfItsRun'
    BY <1>6, <1>7, <1>8, CacheKept DEF CatalogInv
  <1>12. ValidatedAsRegistered' /\ manifest' \subseteq Registered'
    BY <1>5 DEF CatalogInv, ValidatedAsRegistered
  <1>13. RecordsInv'
    BY <1>6, RecordsStep DEF CatalogInv
  <1> QED BY <1>9, <1>10, <1>11, <1>12, <1>13 DEF CatalogInv

\* Registering scenes keeps it, and no scene is taken out of the catalogue.
LEMMA RegisterKeeps ==
    ASSUME CatalogInv, NEW p \in Runs, RegisterScenes(p)
    PROVE  CatalogInv' /\ Registered \subseteq Registered'
  <1>1. run[p] \in RunRow /\ Batch[p] \in SUBSET Scenes
    BY RowTypes DEF CatalogInv, RecordsInv
  <1>2. run[p].task = "register" /\ run[p].pc = "begin" /\ Working(p) /\ Ingested(p)
    BY DEF RegisterScenes, Working, Ingested, Past, At, Points, Tasks
  <1>3. /\ latest = p /\ \A q \in Runs \ {p} : ~Working(q)
        /\ BatchStands(p) /\ FilesStand(p)
    BY <1>2, WorkerIsLatest
  <1>4. /\ latest' = latest /\ UNCHANGED <<files, checked, version, index, manifest>>
    BY DEF RegisterScenes
  <1>5. ASSUME NEW s \in Scenes
        PROVE  /\ s \notin Batch[p] => scenes'[s] = scenes[s]
               /\ s \in Batch[p] => scenes'[s].status = "BUILT" /\ scenes'[s].content = files[s]
    <2>1. s \notin Batch[p] => scenes'[s] = scenes[s]
      BY DEF RegisterScenes
    <2>2. s \in Batch[p] => scenes'[s] = [status |-> "BUILT", content |-> files[s]]
      BY DEF RegisterScenes
    <2> QED BY <2>1, <2>2
  <1>6. Registered \subseteq Registered'
    BY <1>5 DEF Registered, None
  <1>7. RunStep(p)
    BY DEF RunStep
  <1>8. run'[p].task = "register" /\ run'[p].pc = "done"
    <2>1. run'[p] = [run[p] EXCEPT !.pc = "done"]
      BY Moves DEF CatalogInv, RecordsInv
    <2> QED BY <1>1, <1>2, <2>1 DEF RunRow
  <1>9. version.status # "READY"
    BY <1>2, <1>3 DEF FilesStand
  <1>10. BatchStands(p)'
    <2>1. \A s \in Batch[p] : scenes'[s].status # None /\ scenes'[s].content = files[s]
      BY <1>1, <1>5 DEF None
    <2> QED BY <1>2, <1>3, <1>4, <1>8, <2>1 DEF BatchStands, HasSeen, Validated, At, Recorded
  <1>11. FilesStand(p)'
    BY <1>4, <1>8, <1>9 DEF FilesStand, HasListed, Indexed, Past, At
  <1>12. OneAtWork' /\ CopiesAreFresh' /\ LatestStands' /\ IdleIsNew'
    BY <1>3, <1>4, <1>7, <1>8, <1>10, <1>11, OneIsEnough DEF HasCopy, Recorded
  <1>13. ReadyIsComplete'
    BY <1>4, <1>9 DEF ReadyIsComplete
  <1>14. ValidatedAsRegistered'
    BY <1>4, <1>5 DEF CatalogInv, ValidatedAsRegistered
  <1>15. CacheIsOfItsRun'
    BY <1>4, <1>7, CacheKept DEF CatalogInv
  <1>16. manifest' \subseteq Registered'
    BY <1>4, <1>6 DEF CatalogInv
  <1>17. RecordsInv'
    BY <1>7, RecordsStep DEF CatalogInv
  <1> QED BY <1>6, <1>12, <1>13, <1>14, <1>15, <1>16, <1>17 DEF CatalogInv

\* One commit for the rows, the verdict and the record: the verdict is about
\* the manifests as they were registered.
LEMMA CommitKeeps ==
    ASSUME CatalogInv, NEW p \in Runs, CommitRecord(p)
    PROVE  CatalogInv' /\ Registered' = Registered
  <1>1. /\ run[p] \in RunRow /\ Batch[p] \in SUBSET Scenes /\ version \in VersionRow
        /\ scenes \in [Scenes -> SceneRow] /\ records \in [RecordIds -> Record]
    BY RowTypes DEF CatalogInv, RecordsInv, TypeOK
  <1>2. /\ run[p].task \in Recorded /\ run[p].pc = "commit" /\ Working(p) /\ HasCopy(p)
        /\ HasSeen(p) /\ HasRegistered(p) /\ Ingested(p) /\ RecordOpen(p)
    BY DEF CommitRecord, Working, HasCopy, HasSeen, HasRegistered, Ingested, RecordOpen, Past, At,
       Points, Tasks, Recorded
  <1>3. /\ latest = p /\ \A q \in Runs \ {p} : ~Working(q)
        /\ BatchStands(p) /\ FilesStand(p)
    BY <1>2, WorkerIsLatest
  <1>4. run[p].copy = version
    BY <1>2 DEF CatalogInv, CopiesAreFresh
  <1>5. RecordOf(p) \in RecordIds
    BY <1>2, RecordExists DEF CatalogInv, RecordsInv
  <1>6. RunStep(p) /\ latest' = latest /\ UNCHANGED <<files, index, manifest>>
    BY DEF RunStep, CommitRecord
  <1>7. run'[p].task = run[p].task /\ run'[p].pc = "done" /\ run'[p].seen = run[p].seen
    <2>1. run'[p] = [run[p] EXCEPT !.pc = "done"]
      BY Moves DEF CatalogInv, RecordsInv
    <2> QED BY <1>1, <2>1 DEF RunRow
  <1>8. \A s \in Batch[p] : /\ run[p].seen[s] = files[s] /\ files[s] \in Contents
                            /\ scenes[s].content = files[s] /\ scenes[s].status # None
    BY <1>2, <1>3 DEF BatchStands
  <1>9. ASSUME NEW s \in Scenes
        PROVE  /\ s \notin Batch[p] => scenes'[s] = scenes[s]
               /\ s \in Batch[p] => /\ scenes'[s].status = StatusAfter(p, s)
                                    /\ scenes'[s].content = scenes[s].content
    <2>1. s \notin Batch[p] => scenes'[s] = scenes[s]
      BY DEF CommitRecord
    <2>2. s \in Batch[p] => scenes'[s] = [scenes[s] EXCEPT !.status = StatusAfter(p, s)]
      BY DEF CommitRecord
    <2> QED BY <1>1, <2>1, <2>2 DEF SceneRow
  <1>10. \A s \in Scenes : StatusAfter(p, s) # None
    BY DEF StatusAfter, None
  <1>11. Registered' = Registered
    BY <1>1, <1>8, <1>9, <1>10 DEF Registered
  <1>12. version' = Cached(p) /\ Cached(p) \in VersionRow
    <2>1. ShouldBlock(p) \in BOOLEAN
      BY DEF ShouldBlock
    <2>2. Cached(p) \in VersionRow
      BY <1>1, <1>4, <1>5, <2>1 DEF Cached, VersionRow
    <2>3. version' = Flush(run[p].copy, Cached(p))
      BY DEF CommitRecord
    <2> QED BY <1>1, <1>4, <2>2, <2>3, FlushWrites
  <1>13. version'.status = version.status /\ version'.count = version.count
    BY <1>1, <1>4, <1>12 DEF Cached, VersionRow
  <1>14. \A s \in Scenes : checked'[s] = IF run[p].task # "profile" /\ s \in Batch[p]
                                         THEN run[p].seen[s] ELSE checked[s]
    BY <1>6 DEF CommitRecord
  <1>15. BatchStands(p)'
    <2>1. HasRegistered(p)' =>
              \A s \in Batch[p] : scenes'[s].status # None /\ scenes'[s].content = files'[s]
      BY <1>1, <1>6, <1>8, <1>9, <1>10
    <2>2. HasSeen(p)' => \A s \in Batch[p] : run'[p].seen[s] = files'[s]
      BY <1>6, <1>7, <1>8
    <2>3. At(p, {"validate"}, "done")' => \A s \in Batch[p] : checked'[s] = run'[p].seen[s]
      BY <1>1, <1>7, <1>14 DEF At
    <2>4. Validated(p)' => \A s \in Batch[p] : scenes'[s].content = "good" /\ checked'[s] = "good"
      <3> SUFFICES ASSUME Validated(p)', NEW s \in Batch[p]
                   PROVE  scenes'[s].content = "good" /\ checked'[s] = "good"
        OBVIOUS
      <3>1. run[p].task = "profile" /\ Validated(p)
        BY <1>2, <1>7 DEF Validated, Recorded
      <3> QED BY <1>1, <1>3, <1>9, <1>14, <3>1 DEF BatchStands
    <2> QED BY <1>2, <1>6, <1>7, <1>8, <2>1, <2>2, <2>3, <2>4 DEF BatchStands, Recorded
  <1>16. FilesStand(p)'
    <2>1. version.status # "READY"
      BY <1>2, <1>3 DEF FilesStand, Recorded
    <2> QED BY <1>2, <1>7, <1>13, <2>1 DEF FilesStand, HasListed, Indexed, Past, At, Recorded
  <1>17. OneAtWork' /\ CopiesAreFresh' /\ LatestStands' /\ IdleIsNew'
    BY <1>2, <1>3, <1>6, <1>7, <1>15, <1>16, OneIsEnough DEF HasCopy, Recorded
  <1>18. ReadyIsComplete' /\ manifest' \subseteq Registered'
    BY <1>6, <1>11, <1>13 DEF CatalogInv, ReadyIsComplete
  <1>19. ValidatedAsRegistered'
    <2> SUFFICES ASSUME NEW s \in Scenes, scenes'[s].status \in {"VALIDATED", "PROFILED"}
                 PROVE  scenes'[s].content = "good" /\ checked'[s] = "good"
      BY DEF ValidatedAsRegistered
    <2>1. CASE s \notin Batch[p]
      BY <1>9, <1>14, <2>1 DEF CatalogInv, ValidatedAsRegistered
    <2>2. CASE s \in Batch[p] /\ run[p].task = "profile"
      <3>1. Validated(p)
        BY <2>2 DEF Validated
      <3> QED BY <1>3, <1>9, <1>14, <2>2, <3>1 DEF BatchStands
    <2>3. CASE s \in Batch[p] /\ run[p].task # "profile"
      <3>1. run[p].seen[s] # "bad"
        BY <1>9, <2>3 DEF StatusAfter
      <3>2. run[p].seen[s] = "good"
        BY <1>8, <2>3, <3>1 DEF Contents
      <3> QED BY <1>8, <1>9, <1>14, <2>3, <3>2
    <2> QED BY <2>1, <2>2, <2>3
  <1>20. CacheIsOfItsRun'
    <2>1. records'[RecordOf(p)] = [status |-> "SUCCEEDED",
                                   block |-> run[p].task = "validate" /\ ShouldBlock(p)]
      BY <1>1, <1>5 DEF CommitRecord
    <2>2. \A r \in RecordIds : records[r].status = "SUCCEEDED" => records'[r] = records[r]
      BY <1>6, FinishedIsKept DEF CatalogInv
    <2>3. CASE run[p].task = "validate"
      <3>1. /\ version'.validation = RecordOf(p) /\ version'.block = ShouldBlock(p)
            /\ version'.profile = version.profile
        BY <1>1, <1>4, <1>12, <2>3 DEF Cached, VersionRow
      <3>2. records'[version'.validation] = [status |-> "SUCCEEDED", block |-> version'.block]
        <4>1. records'[RecordOf(p)] = [status |-> "SUCCEEDED", block |-> ShouldBlock(p)]
          <5>1. (run[p].task = "validate" /\ ShouldBlock(p)) = ShouldBlock(p)
            BY <2>3 DEF ShouldBlock
          <5> QED BY <2>1, <5>1
        <4> QED BY <3>1, <4>1
      <3>3. version'.profile # NoRecord => records'[version'.profile].status = "SUCCEEDED"
        BY <1>1, <2>2, <3>1 DEF VersionRow, CatalogInv, CacheIsOfItsRun
      <3> QED BY <3>2, <3>3 DEF CacheIsOfItsRun
    <2>4. CASE run[p].task = "profile"
      <3>1. /\ version'.profile = RecordOf(p) /\ version'.block = version.block
            /\ version'.validation = version.validation
        BY <1>1, <1>4, <1>12, <2>4 DEF Cached, VersionRow
      <3>2. version.validation # NoRecord =>
                records'[version.validation] = [status |-> "SUCCEEDED", block |-> version.block]
        <4> SUFFICES ASSUME version.validation # NoRecord
                     PROVE  records'[version.validation] = [status |-> "SUCCEEDED", block |-> version.block]
          OBVIOUS
        <4>1. version.validation \in RecordIds
          BY <1>1 DEF VersionRow
        <4> QED BY <2>2, <4>1 DEF CatalogInv, CacheIsOfItsRun
      <3>3. records'[RecordOf(p)].status = "SUCCEEDED"
        BY <2>1
      <3> QED BY <3>1, <3>2, <3>3 DEF CacheIsOfItsRun
    <2> QED BY <1>2, <2>3, <2>4 DEF Recorded
  <1>21. RecordsInv'
    BY <1>6, RecordsStep DEF CatalogInv
  <1> QED BY <1>11, <1>17, <1>18, <1>19, <1>20, <1>21 DEF CatalogInv

\* The scene index and the dataset manifest are written, and the version
\* becomes READY.
LEMMA PublishKeeps ==
    ASSUME CatalogInv, NEW p \in Runs,
           WriteSceneIndex(p) \/ WriteDatasetManifest(p) \/ SaveVersion(p)
    PROVE  CatalogInv' /\ Registered' = Registered /\ manifest \subseteq manifest'
  <1>1. run[p] \in RunRow /\ version \in VersionRow
    BY RowTypes DEF CatalogInv, RecordsInv, TypeOK
  <1>2. Working(p) /\ Ingested(p) /\ HasListed(p)
    BY DEF WriteSceneIndex, WriteDatasetManifest, SaveVersion, Working, Ingested, HasListed, Past,
       At, Points, Tasks
  <1>3. /\ latest = p /\ \A q \in Runs \ {p} : ~Working(q)
        /\ BatchStands(p) /\ FilesStand(p)
    BY <1>2, WorkerIsLatest
  <1>4. /\ RunStep(p) /\ latest' = latest /\ UNCHANGED <<files, scenes, checked>>
        /\ Registered' = Registered
    BY DEF RunStep, WriteSceneIndex, WriteDatasetManifest, SaveVersion, Registered
  <1>5. run[p].listed = Registered
    BY <1>2, <1>3 DEF FilesStand
  <1>6. /\ run'[p].task = run[p].task /\ run'[p].listed = run[p].listed
        /\ run'[p].pc \in {"done", "version"}
        /\ WriteDatasetManifest(p) => run'[p].pc = "version"
        /\ WriteSceneIndex(p) \/ SaveVersion(p) => run'[p].pc = "done"
    <2>1. ASSUME WriteDatasetManifest(p)
          PROVE  /\ run'[p].task = run[p].task /\ run'[p].listed = run[p].listed
                 /\ run'[p].pc = "version"
      <3>1. run'[p] = [run[p] EXCEPT !.pc = "version"]
        BY <2>1, Moves DEF CatalogInv, RecordsInv
      <3> QED BY <1>1, <3>1 DEF RunRow
    <2>2. ASSUME WriteSceneIndex(p) \/ SaveVersion(p)
          PROVE  /\ run'[p].task = run[p].task /\ run'[p].listed = run[p].listed
                 /\ run'[p].pc = "done"
      <3>1. run'[p] = [run[p] EXCEPT !.pc = "done"]
        BY <2>2, Moves DEF CatalogInv, RecordsInv
      <3> QED BY <1>1, <3>1 DEF RunRow
    <2>3. ~(WriteDatasetManifest(p) /\ (WriteSceneIndex(p) \/ SaveVersion(p)))
      BY DEF WriteDatasetManifest, WriteSceneIndex, SaveVersion, At
    <2> QED BY <2>1, <2>2, <2>3
  <1>7. BatchStands(p)'
    BY <1>3, <1>4, <1>6 DEF BatchStands, Ingested, HasRegistered, HasSeen, Validated, Past, At,
       Recorded, Tasks, WriteSceneIndex, WriteDatasetManifest, SaveVersion
  <1>8. /\ version'.validation = version.validation /\ version'.block = version.block
        /\ version'.profile = version.profile
        /\ FilesStand(p)' /\ ReadyIsComplete'
        /\ manifest \subseteq manifest' /\ manifest' \subseteq Registered
    <2>1. CASE WriteSceneIndex(p)
      <3>1. run[p].task = "index" /\ version' = version /\ manifest' = manifest /\ index' = Registered
        BY <1>5, <2>1 DEF WriteSceneIndex, At
      <3>2. version.status # "READY"
        BY <1>2, <1>3, <3>1 DEF FilesStand
      <3>3. FilesStand(p)' /\ ReadyIsComplete'
        BY <1>4, <1>6, <2>1, <3>1, <3>2 DEF FilesStand, HasListed, Indexed, Past, At, ReadyIsComplete
      <3> QED BY <3>1, <3>3 DEF CatalogInv
    <2>2. CASE WriteDatasetManifest(p)
      <3>1. run[p].task = "manifest" /\ version' = version /\ manifest' = Registered /\ index' = index
        BY <1>5, <2>2 DEF WriteDatasetManifest, At
      <3>2. index = Registered
        BY <1>3, <3>1 DEF FilesStand, Indexed, Past
      <3>3. FilesStand(p)' /\ ReadyIsComplete'
        BY <1>4, <1>5, <1>6, <2>2, <3>1, <3>2
           DEF FilesStand, HasListed, Indexed, Past, At, CatalogInv, ReadyIsComplete
      <3> QED BY <3>1, <3>3 DEF CatalogInv
    <2>3. CASE SaveVersion(p)
      <3>1. /\ run[p].task = "manifest" /\ run[p].pc = "publish"
            /\ manifest' = manifest /\ index' = index
            /\ version' = [run[p].copy EXCEPT !.status = "READY", !.count = Cardinality(Registered)]
        BY <1>5, <2>3 DEF SaveVersion, At
      <3>2. run[p].copy = version
        BY <3>1 DEF CatalogInv, CopiesAreFresh, HasCopy
      <3>3. /\ version'.validation = version.validation /\ version'.block = version.block
            /\ version'.profile = version.profile /\ version'.count = Cardinality(Registered)
        BY <1>1, <3>1, <3>2 DEF VersionRow
      <3>4. index = Registered /\ manifest = Registered
        BY <1>3, <3>1 DEF FilesStand, Indexed, Past
      <3>5. FilesStand(p)' /\ ReadyIsComplete'
        BY <1>4, <1>6, <2>3, <3>1, <3>3, <3>4 DEF FilesStand, HasListed, Indexed, ReadyIsComplete
      <3> QED BY <3>1, <3>3, <3>4, <3>5
    <2> QED BY <2>1, <2>2, <2>3
  <1>9. OneAtWork' /\ CopiesAreFresh' /\ LatestStands' /\ IdleIsNew'
    BY <1>3, <1>4, <1>6, <1>7, <1>8, OneIsEnough DEF HasCopy
  <1>10. CacheIsOfItsRun'
    BY <1>4, <1>8, CacheKept DEF CatalogInv
  <1>11. ValidatedAsRegistered'
    BY <1>4 DEF CatalogInv, ValidatedAsRegistered
  <1>12. RecordsInv'
    BY <1>4, RecordsStep DEF CatalogInv
  <1> QED BY <1>4, <1>8, <1>9, <1>10, <1>11, <1>12 DEF CatalogInv

-----------------------------------------------------------------------------
(* The theorems, for clients that execute one run after another *)

\* Every step keeps it, and neither scenes nor manifest entries are lost.
LEMMA CatalogStep ==
    ASSUME CatalogInv, DisciplinedClient, Next
    PROVE  CatalogInv' /\ Registered \subseteq Registered' /\ manifest \subseteq manifest'
  <1>1. PICK p \in Runs :
            \/ Execute(p) \/ RunStep(p) \/ JobFails(p) \/ JobFailsTwice(p) \/ WorkerLost(p)
    BY DEF Next
  <1>2. CASE Execute(p)
    BY <1>2, ExecuteKeeps DEF Execute, Registered
  <1>3. CASE \/ GetVersionToIngest(p) \/ BeginIngest(p) \/ StartRecord(p)
             \/ JobFails(p) \/ JobFailsTwice(p) \/ WorkerLost(p)
    BY <1>3, RestKeeps DEF GetVersionToIngest, BeginIngest, StartRecord, JobFails, JobFailsTwice,
       WorkerLost, Registered
  <1>4. CASE LoadScenes(p) \/ ReadVersion(p) \/ ListScenes(p) \/ GetVersion(p)
    BY <1>4, ReadKeeps DEF LoadScenes, ReadVersion, ListScenes, GetVersion, Registered
  <1>5. CASE RecordTask(p)
    BY <1>5, RecordTaskKeeps DEF RecordTask, Registered
  <1>6. CASE (\E s \in Scenes : WriteSceneManifest(p, s)) \/ CommitIngest(p)
    BY <1>6, IngestKeeps DEF WriteSceneManifest, CommitIngest, Registered
  <1>7. CASE RegisterScenes(p)
    BY <1>7, RegisterKeeps DEF RegisterScenes
  <1>8. CASE CommitRecord(p)
    BY <1>8, CommitKeeps DEF CommitRecord
  <1>9. CASE WriteSceneIndex(p) \/ WriteDatasetManifest(p) \/ SaveVersion(p)
    BY <1>9, PublishKeeps
  <1> QED BY <1>1, <1>2, <1>3, <1>4, <1>5, <1>6, <1>7, <1>8, <1>9 DEF RunStep

\* The catalogue starts with it.
LEMMA CatalogInit ==
    ASSUME Init, RecordsInv
    PROVE  CatalogInv
  <1>1. \A p \in Runs : /\ run[p].pc = "idle" /\ run[p].task = "ingest"
                        /\ run[p].written = {}
    BY DEF Init, NewRun
  <1>2. OneAtWork /\ CopiesAreFresh /\ LatestStands /\ IdleIsNew
    BY <1>1 DEF OneAtWork, CopiesAreFresh, LatestStands, IdleIsNew, Working, HasCopy, Points
  <1>3. /\ version.status = "REGISTERED" /\ version.validation = NoRecord
        /\ version.profile = NoRecord
    BY DEF Init, NewVersion
  <1>4. \A s \in Scenes : scenes[s].status = None
    BY DEF Init, NewScene
  <1>5. ReadyIsComplete /\ CacheIsOfItsRun
    BY <1>3 DEF ReadyIsComplete, CacheIsOfItsRun
  <1>6. ValidatedAsRegistered
    BY <1>4 DEF ValidatedAsRegistered, None
  <1>7. manifest \subseteq Registered
    BY DEF Init
  <1> QED BY <1>2, <1>5, <1>6, <1>7 DEF CatalogInv

\* It depends on the variables alone.
LEMMA CatalogStutter ==
    ASSUME CatalogInv, UNCHANGED vars
    PROVE  CatalogInv'
  <1>1. RecordsInv'
    <2>1. ASSUME NEW p \in Runs PROVE RecordsOK(p)'
      BY DEF vars, CatalogInv, RecordsInv, RecordsOK, NewUntilStarted, OpenRecordRuns,
         RecordOpen, RecordOf, RunningHasJob
    <2> QED BY <2>1 DEF vars, CatalogInv, RecordsInv, TypeOK, Counted, Working
  <1>2. OneAtWork' /\ CopiesAreFresh' /\ IdleIsNew'
    BY DEF vars, CatalogInv, OneAtWork, CopiesAreFresh, IdleIsNew, Working, HasCopy
  <1>3. LatestStands'
    <2>1. ASSUME NEW p \in Runs PROVE BatchStands(p) /\ FilesStand(p) => BatchStands(p)' /\ FilesStand(p)'
      BY DEF vars, BatchStands, FilesStand, Ingested, HasRegistered, HasSeen, Validated, Indexed,
         HasListed, Past, At, Registered
    <2> QED BY <2>1 DEF vars, CatalogInv, LatestStands
  <1>4. /\ ReadyIsComplete' /\ ValidatedAsRegistered' /\ CacheIsOfItsRun'
        /\ manifest' \subseteq Registered'
    BY DEF vars, CatalogInv, ReadyIsComplete, ValidatedAsRegistered, CacheIsOfItsRun, Registered
  <1> QED BY <1>1, <1>2, <1>3, <1>4 DEF CatalogInv

\* The invariant of the catalogue, for disciplined clients.
LEMMA CatalogInvariant ==
    ASSUME DisciplinedClient
    PROVE  Spec => []CatalogInv
  <1>1. Init /\ RecordsInv => CatalogInv
    BY CatalogInit
  <1>2. CatalogInv /\ [Next]_vars => CatalogInv'
    BY CatalogStep, CatalogStutter
  <1> QED BY <1>1, <1>2, RecordsInvariant, PTL DEF Spec

\* A READY version is complete: its manifest, its index and its count are of
\* all registered scenes, whatever failed, was blocked or was lost before
\* (build_dataset_manifest's comment on partial inputs).
THEOREM ReadyVersionsAreComplete ==
    ASSUME DisciplinedClient
    PROVE  Spec => []ReadyIsComplete
  <1>1. CatalogInv => ReadyIsComplete
    BY DEF CatalogInv
  <1> QED BY <1>1, CatalogInvariant, PTL

\* A scene that counts as validated has the row, and had the manifest, that
\* validate_scene found good, also after its manifest was replaced.
THEOREM VerdictsAreAsRegistered ==
    ASSUME DisciplinedClient
    PROVE  Spec => []ValidatedAsRegistered
  <1>1. CatalogInv => ValidatedAsRegistered
    BY DEF CatalogInv
  <1> QED BY <1>1, CatalogInvariant, PTL

\* The verdict cached in the version is that of the run record it names.
THEOREM CachesAreOfTheirRuns ==
    ASSUME DisciplinedClient
    PROVE  Spec => []CacheIsOfItsRun
  <1>1. CatalogInv => CacheIsOfItsRun
    BY DEF CatalogInv
  <1> QED BY <1>1, CatalogInvariant, PTL

\* No scene vanishes from the dataset manifest; with runs that overlap one
\* may, as the run catalog_vanish shows.
THEOREM ScenesDoNotVanish ==
    ASSUME DisciplinedClient
    PROVE  Spec => NoSceneVanishes
  <1>1. CatalogInv /\ [Next]_vars => [manifest \subseteq manifest']_vars
    BY CatalogStep DEF vars
  <1> QED BY <1>1, CatalogInvariant, PTL DEF Spec, NoSceneVanishes
=============================================================================
