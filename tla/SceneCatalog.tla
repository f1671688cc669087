---------------------------- MODULE SceneCatalog ----------------------------
(***************************************************************************)
(* What the ingestion pipelines do to one dataset version: the manifests   *)
(* of its scenes in the artifact store, the scene rows, the row of the     *)
(* version, the records of validation and profile runs, and the two files  *)
(* derived from the scene rows, the scene index and the dataset manifest.  *)
(*                                                                         *)
(* A run executes ingest_scenes (or build_scenes, which treats the version *)
(* alike), register_scene, validate_scene, profile_scene,                  *)
(* build_scene_index and build_dataset_manifest, in that order.  Runs are  *)
(* the pipeline runs of PipelineExecution, one worker each: here a run     *)
(* only fails, is blocked or lost, and is executed again from the task at  *)
(* which it stopped.                                                       *)
(*                                                                         *)
(* Files are written at once, and stay when the transaction around them is *)
(* rolled back.  One action is one file, one commit, or one read of which  *)
(* a later commit makes use.  The transactions are READ COMMITTED.         *)
(***************************************************************************)
EXTENDS Naturals, FiniteSets

CONSTANTS
    Scenes,           \* scene ids
    Runs,             \* pipeline runs on the version
    Batch,            \* Batch[p]: the scenes that run p ingests
    Profiled,         \* runs with parameters for the optional profile_scene
    MaxAttempts,      \* bound on the executions of each run
    MaxFaults,        \* bound on the number of errors raised
    MaxCrashes,       \* bound on the number of workers lost
    DisciplinedClient \* TRUE: runs are executed one after another, and a run
                      \* is not executed again once a later one has begun

ASSUME CatalogAssumption ==
    /\ IsFiniteSet(Scenes)
    /\ Batch \in [Runs -> (SUBSET Scenes) \ {{}}]
    /\ Profiled \subseteq Runs
    /\ MaxAttempts \in Nat /\ MaxFaults \in Nat /\ MaxCrashes \in Nat
    /\ DisciplinedClient \in BOOLEAN

VARIABLES
    files,    \* per scene: what its manifest in the artifact store holds
    scenes,   \* per scene: its row
    checked,  \* per scene: what its latest validation run has found in the manifest
    version,  \* the row of the dataset version
    index,    \* the scenes in scene_index.json
    manifest, \* the scenes in dataset.json
    records,  \* the records of validation and profile runs
    run,      \* per pipeline run: where it stands
    holder,   \* who has the row of the version locked
    latest,   \* the run that was begun last
    faults, crashes

vars == <<files, scenes, checked, version, index, manifest, records, run, holder, latest,
          faults, crashes>>

-----------------------------------------------------------------------------
(* Data *)

None == "none"

\* A scene manifest passes the validator, or has issues that block.
Contents == {"good", "bad"}

SceneStatus == {None, "BUILT", "VALIDATED", "PROFILED", "FAILED"}
SceneRow == [status : SceneStatus, content : Contents \cup {None}]
NewScene == [status |-> None, content |-> None]

\* The job of an attempt of a task has one run record.
RecordIds == {"validate", "profile"} \X Runs \X (1..MaxAttempts)
RecordStatus == {None, "RUNNING", "SUCCEEDED", "FAILED"}
Record == [status : RecordStatus, block : BOOLEAN]
NewRecord == [status |-> None, block |-> FALSE]

\* INGESTING is never committed: it is replaced in the same transaction.
VersionStatus == {"REGISTERED", "INGESTED", "READY"}
NoRecord == <<>>
VersionRow == [status : VersionStatus, count : Nat,
               validation : RecordIds \cup {NoRecord}, block : BOOLEAN,
               profile : RecordIds \cup {NoRecord}]
NewVersion == [status |-> "REGISTERED", count |-> 0, validation |-> NoRecord,
               block |-> FALSE, profile |-> NoRecord]

\* The flush of a changed row writes the columns that differ from what was read.
Flush(read, changed) ==
    [c \in DOMAIN version |-> IF changed[c] # read[c] THEN changed[c] ELSE version[c]]

Registered == {s \in Scenes : scenes[s].status # None}

-----------------------------------------------------------------------------
(* Where a run stands: at a point of a task, or not at work *)

Tasks == {"ingest", "register", "validate", "profile", "index", "manifest"}
Points == {"begin", "lock", "write", "check", "cache", "commit", "version", "publish", "done"}
AtRest == {"idle", "failed", "blocked", "orphaned", "succeeded"}

NewRun == [task |-> "ingest", pc |-> "idle", attempt |-> 0, written |-> {},
           seen |-> [s \in Scenes |-> None], listed |-> {}, copy |-> NewVersion]

Working(p) == run[p].pc \in Points
At(p, tasks, pc) == run[p].task \in tasks /\ run[p].pc = pc

\* What a handler has read is gone once its job is over.
Reset(rn) == [NewRun EXCEPT !.attempt = rn.attempt]
Goto(p, task, pc) == run' = [run EXCEPT ![p] = [Reset(@) EXCEPT !.task = task, !.pc = pc]]
Rest(p, pc) == Goto(p, run[p].task, pc)

Unlocked == holder = None
RecordOf(p) == <<run[p].task, p, run[p].attempt>>

\* execute: a new run, or one that failed or was blocked, from where it stopped.
Execute(p) ==
    /\ run[p].pc \in {"idle", "failed", "blocked"}
    /\ run[p].attempt < MaxAttempts
    /\ DisciplinedClient => /\ \A q \in Runs : ~Working(q)
                            /\ run[p].pc # "idle" => latest = p
    /\ run' = [run EXCEPT ![p].pc = "begin", ![p].attempt = @ + 1]
    /\ latest' = IF run[p].pc = "idle" THEN p ELSE latest
    /\ UNCHANGED <<files, scenes, checked, version, index, manifest, records, holder, faults, crashes>>

-----------------------------------------------------------------------------
(* ingest_scenes, build_scenes *)

GetVersionToIngest(p) ==
    /\ At(p, {"ingest"}, "begin")
    /\ run' = [run EXCEPT ![p].pc = "lock", ![p].copy = version]
    /\ UNCHANGED <<files, scenes, checked, version, index, manifest, records, holder, latest,
                   faults, crashes>>

\* The copy is saved as INGESTING over the row, which stays locked.
BeginIngest(p) ==
    /\ At(p, {"ingest"}, "lock")
    /\ Unlocked
    /\ holder' = p
    /\ run' = [run EXCEPT ![p].pc = "write"]
    /\ UNCHANGED <<files, scenes, checked, version, index, manifest, records, latest, faults, crashes>>

WriteSceneManifest(p, s) ==
    /\ At(p, {"ingest"}, "write")
    /\ s \in Batch[p] \ run[p].written
    /\ \E c \in Contents : files' = [files EXCEPT ![s] = c]
    /\ run' = [run EXCEPT ![p].written = @ \cup {s}]
    /\ UNCHANGED <<scenes, checked, version, index, manifest, records, holder, latest, faults, crashes>>

\* Variant: a version that is READY stays so.
CommitIngestKeepsReady(p) ==
    /\ At(p, {"ingest"}, "write")
    /\ run[p].written = Batch[p]
    /\ version' = [run[p].copy EXCEPT !.count = Cardinality(Batch[p]),
                                      !.status = IF @ = "READY" THEN @ ELSE "INGESTED"]
    /\ holder' = None
    /\ run' = [run EXCEPT ![p].pc = "done"]
    /\ UNCHANGED <<files, scenes, checked, index, manifest, records, latest, faults, crashes>>

CommitIngest(p) ==
    /\ At(p, {"ingest"}, "write")
    /\ run[p].written = Batch[p]
    /\ version' = [run[p].copy EXCEPT !.count = Cardinality(Batch[p]), !.status = "INGESTED"]
    /\ holder' = None
    /\ run' = [run EXCEPT ![p].pc = "done"]
    /\ UNCHANGED <<files, scenes, checked, index, manifest, records, latest, faults, crashes>>

-----------------------------------------------------------------------------
(* register_scene *)

\* Variant: the row of a known scene keeps its status.
RegisterScenesKeepStatus(p) ==
    /\ At(p, {"register"}, "begin")
    /\ scenes' = [s \in Scenes |->
          IF s \notin Batch[p] THEN scenes[s]
          ELSE [status |-> IF scenes[s].status = None THEN "BUILT" ELSE scenes[s].status,
                content |-> files[s]]]
    /\ run' = [run EXCEPT ![p].pc = "done"]
    /\ UNCHANGED <<files, checked, version, index, manifest, records, holder, latest, faults, crashes>>

\* Both built-in pipelines set replace_existing: every row is written anew.
RegisterScenes(p) ==
    /\ At(p, {"register"}, "begin")
    /\ scenes' = [s \in Scenes |->
          IF s \notin Batch[p] THEN scenes[s] ELSE [status |-> "BUILT", content |-> files[s]]]
    /\ run' = [run EXCEPT ![p].pc = "done"]
    /\ UNCHANGED <<files, checked, version, index, manifest, records, holder, latest, faults, crashes>>

-----------------------------------------------------------------------------
(* validate_scene, profile_scene: handlers with a run record *)

Recorded == {"validate", "profile"}

StartRecord(p) ==
    /\ At(p, Recorded, "begin")
    /\ records' = [records EXCEPT ![RecordOf(p)] = [status |-> "RUNNING", block |-> FALSE]]
    /\ run' = [run EXCEPT ![p].pc = "check"]
    /\ UNCHANGED <<files, scenes, checked, version, index, manifest, holder, latest, faults, crashes>>

LoadScenes(p) ==
    /\ At(p, Recorded, "check")
    /\ run' = [run EXCEPT ![p].pc = "cache",
                          ![p].seen = [s \in Scenes |-> IF s \in Batch[p] THEN files[s] ELSE None]]
    /\ UNCHANGED <<files, scenes, checked, version, index, manifest, records, holder, latest,
                   faults, crashes>>

\* update_quality_cache reads the row of the version ...
ReadVersion(p) ==
    /\ At(p, Recorded, "cache")
    /\ run' = [run EXCEPT ![p].pc = "commit", ![p].copy = version]
    /\ UNCHANGED <<files, scenes, checked, version, index, manifest, records, holder, latest,
                   faults, crashes>>

ShouldBlock(p) == \E s \in Batch[p] : run[p].seen[s] = "bad"

\* Variant: a false should_block_pipeline counts as not given.
CachedWithoutFalse(p) ==
    IF run[p].task = "profile" THEN [run[p].copy EXCEPT !.profile = RecordOf(p)]
    ELSE [run[p].copy EXCEPT !.validation = RecordOf(p), !.block = @ \/ ShouldBlock(p)]

\* ... and sets the columns it has values for.
Cached(p) ==
    IF run[p].task = "profile" THEN [run[p].copy EXCEPT !.profile = RecordOf(p)]
    ELSE [run[p].copy EXCEPT !.validation = RecordOf(p), !.block = ShouldBlock(p)]

StatusAfter(p, s) ==
    IF run[p].task = "profile" THEN "PROFILED"
    ELSE IF run[p].seen[s] = "bad" THEN "FAILED" ELSE "VALIDATED"

\* One commit for the scenes, their run rows, the cache and the record.
CommitRecord(p) ==
    /\ At(p, Recorded, "commit")
    /\ Unlocked
    /\ scenes' = [s \in Scenes |->
          IF s \in Batch[p] THEN [scenes[s] EXCEPT !.status = StatusAfter(p, s)] ELSE scenes[s]]
    /\ checked' = IF run[p].task = "profile" THEN checked
                  ELSE [s \in Scenes |-> IF s \in Batch[p] THEN run[p].seen[s] ELSE checked[s]]
    /\ version' = Flush(run[p].copy, Cached(p))
    /\ records' = [records EXCEPT ![RecordOf(p)] =
          [status |-> "SUCCEEDED", block |-> run[p].task = "validate" /\ ShouldBlock(p)]]
    /\ run' = [run EXCEPT ![p].pc = "done"]
    /\ UNCHANGED <<files, index, manifest, holder, latest, faults, crashes>>

-----------------------------------------------------------------------------
(* build_scene_index, build_dataset_manifest *)

\* Variant: only the scenes of the batch are listed.
ListBatchOnly(p) ==
    /\ At(p, {"index", "manifest"}, "begin")
    /\ run' = [run EXCEPT ![p].pc = "write", ![p].listed = Registered \cap Batch[p]]
    /\ UNCHANGED <<files, scenes, checked, version, index, manifest, records, holder, latest,
                   faults, crashes>>

\* All scene rows of the version are listed, and their manifests loaded.
ListScenes(p) ==
    /\ At(p, {"index", "manifest"}, "begin")
    /\ run' = [run EXCEPT ![p].pc = "write", ![p].listed = Registered]
    /\ UNCHANGED <<files, scenes, checked, version, index, manifest, records, holder, latest,
                   faults, crashes>>

WriteSceneIndex(p) ==
    /\ At(p, {"index"}, "write")
    /\ index' = run[p].listed
    /\ run' = [run EXCEPT ![p].pc = "done"]
    /\ UNCHANGED <<files, scenes, checked, version, manifest, records, holder, latest, faults, crashes>>

WriteDatasetManifest(p) ==
    /\ At(p, {"manifest"}, "write")
    /\ manifest' = run[p].listed
    /\ run' = [run EXCEPT ![p].pc = "version"]
    /\ UNCHANGED <<files, scenes, checked, version, index, records, holder, latest, faults, crashes>>

GetVersion(p) ==
    /\ At(p, {"manifest"}, "version")
    /\ run' = [run EXCEPT ![p].pc = "publish", ![p].copy = version]
    /\ UNCHANGED <<files, scenes, checked, version, index, manifest, records, holder, latest,
                   faults, crashes>>

\* save_version writes every column of the copy over the row.
SaveVersion(p) ==
    /\ At(p, {"manifest"}, "publish")
    /\ Unlocked
    /\ version' = [run[p].copy EXCEPT !.status = "READY", !.count = Cardinality(run[p].listed)]
    /\ run' = [run EXCEPT ![p].pc = "done"]
    /\ UNCHANGED <<files, scenes, checked, index, manifest, records, holder, latest, faults, crashes>>

-----------------------------------------------------------------------------
(* Between tasks *)

NextTask(p) ==
    CASE run[p].task = "ingest" -> "register"
      [] run[p].task = "register" -> "validate"
      [] run[p].task = "validate" -> IF p \in Profiled THEN "profile" ELSE "index"
      [] run[p].task = "profile" -> "index"
      [] run[p].task = "index" -> "manifest"

\* What the job has committed stands; its task is recorded after that, and
\* the quality rule of validate_scene may block the run.
RecordTask(p) ==
    /\ run[p].pc = "done"
    /\ CASE run[p].task = "validate" /\ ShouldBlock(p) -> Rest(p, "blocked")
         [] run[p].task = "manifest" -> Rest(p, "succeeded")
         [] OTHER -> Goto(p, NextTask(p), "begin")
    /\ UNCHANGED <<files, scenes, checked, version, index, manifest, records, holder, latest,
                   faults, crashes>>

-----------------------------------------------------------------------------
(* Errors and crashes *)

Release(p) == holder' = IF holder = p THEN None ELSE holder
RecordOpen(p) == run[p].task \in Recorded /\ run[p].pc \in {"check", "cache", "commit"}

\* Variant: the record is left as it is.
JobFailsNoRecord(p) ==
    /\ Working(p)
    /\ faults < MaxFaults
    /\ faults' = faults + 1
    /\ Release(p)
    /\ Rest(p, "failed")
    /\ UNCHANGED <<files, scenes, checked, version, index, manifest, records, latest, crashes>>

\* The transaction is rolled back, a started record is saved as FAILED, and
\* the job, its task and the run fail.
JobFails(p) ==
    /\ Working(p)
    /\ faults < MaxFaults
    /\ faults' = faults + 1
    /\ records' = IF RecordOpen(p) THEN [records EXCEPT ![RecordOf(p)].status = "FAILED"]
                  ELSE records
    /\ Release(p)
    /\ Rest(p, "failed")
    /\ UNCHANGED <<files, scenes, checked, version, index, manifest, latest, crashes>>

\* That save fails, too.
JobFailsTwice(p) ==
    /\ RecordOpen(p)
    /\ faults + 1 < MaxFaults
    /\ faults' = faults + 2
    /\ Rest(p, "failed")
    /\ UNCHANGED <<files, scenes, checked, version, index, manifest, records, holder, latest, crashes>>

\* A run that loses its worker stays RUNNING, and is never executed again.
WorkerLost(p) ==
    /\ Working(p)
    /\ crashes < MaxCrashes
    /\ crashes' = crashes + 1
    /\ Release(p)
    /\ Rest(p, "orphaned")
    /\ UNCHANGED <<files, scenes, checked, version, index, manifest, records, latest, faults>>

-----------------------------------------------------------------------------
Init ==
    /\ files = [s \in Scenes |-> None]
    /\ scenes = [s \in Scenes |-> NewScene]
    /\ checked = [s \in Scenes |-> None]
    /\ version = NewVersion
    /\ index = {} /\ manifest = {}
    /\ records = [r \in RecordIds |-> NewRecord]
    /\ run = [p \in Runs |-> NewRun]
    /\ holder = None /\ latest = None
    /\ faults = 0 /\ crashes = 0

RunStep(p) ==
    \/ GetVersionToIngest(p) \/ BeginIngest(p)
    \/ (\E s \in Scenes : WriteSceneManifest(p, s)) \/ CommitIngest(p)
    \/ RegisterScenes(p)
    \/ StartRecord(p) \/ LoadScenes(p) \/ ReadVersion(p) \/ CommitRecord(p)
    \/ ListScenes(p) \/ WriteSceneIndex(p)
    \/ WriteDatasetManifest(p) \/ GetVersion(p) \/ SaveVersion(p)
    \/ RecordTask(p)

Next ==
    \E p \in Runs : \/ Execute(p) \/ RunStep(p)
                    \/ JobFails(p) \/ JobFailsTwice(p) \/ WorkerLost(p)

Spec == Init /\ [][Next]_vars
-----------------------------------------------------------------------------
(* Properties *)

TypeOK ==
    /\ files \in [Scenes -> Contents \cup {None}]
    /\ scenes \in [Scenes -> SceneRow]
    /\ checked \in [Scenes -> Contents \cup {None}]
    /\ version \in VersionRow
    /\ index \subseteq Scenes /\ manifest \subseteq Scenes
    /\ records \in [RecordIds -> Record]
    /\ run \in [Runs -> [task : Tasks, pc : Points \cup AtRest, attempt : 0..MaxAttempts,
                         written : SUBSET Scenes, seen : [Scenes -> Contents \cup {None}],
                         listed : SUBSET Scenes, copy : VersionRow]]
    /\ holder \in Runs \cup {None} /\ latest \in Runs \cup {None}
    /\ faults \in Nat /\ crashes \in Nat

\* A record stays RUNNING without its job at work on it only if a worker was
\* lost, or the save of the failure failed in its turn (RunRecordHandler.run).
RunningRecordHasJob ==
    \A p \in Runs, t \in Recorded, n \in 1..MaxAttempts :
        records[<<t, p, n>>].status = "RUNNING" =>
            \/ run[p].task = t /\ run[p].attempt = n /\ RecordOpen(p)
            \/ crashes > 0 \/ faults > 1

\* Detection jobs accept a READY version only: then the manifest they read
\* names every registered scene, as do the index and the version's count, also
\* after failed, blocked and lost runs (build_dataset_manifest's comment).
ReadyIsComplete ==
    version.status = "READY" =>
        /\ manifest = Registered /\ index = Registered
        /\ version.count = Cardinality(Registered)

\* "previously registered scenes ... vanish from the manifest" is what
\* build_dataset_manifest guards against.
NoSceneVanishes == [][manifest \subseteq manifest']_vars

\* A scene that counts as validated was so as it is registered: an ingest
\* that replaces its manifest, and fails or not, leaves no old verdict on a
\* new row (register_scene, validate_scene, compute_scene_readiness).
ValidatedAsRegistered ==
    \A s \in Scenes :
        scenes[s].status \in {"VALIDATED", "PROFILED"} =>
            scenes[s].content = "good" /\ checked[s] = "good"

\* The cached verdict is that of the run it names, whose record SUCCEEDED
\* (update_quality_cache leaves out what is None, and only that).
CacheIsOfItsRun ==
    /\ version.validation # NoRecord =>
          records[version.validation] = [status |-> "SUCCEEDED", block |-> version.block]
    /\ version.profile # NoRecord => records[version.profile].status = "SUCCEEDED"
=============================================================================
