----------------------------- MODULE SceneViews -----------------------------
(***************************************************************************)
(* What the jobs register_scene, validate_scene and profile_scene leave in *)
(* the database, and what the API's quality endpoints make of it           *)
(* (app/domains/scenes, app/domains/datasets).                             *)
(*                                                                         *)
(* db holds [rows, runs, cache] of one dataset version.  Rows and runs are *)
(* in the order in which they were created; cache is what the version      *)
(* remembers of its last validation and profile.                           *)
(*                                                                         *)
(*   row     [id, status, annotations, groundTruth, samples, channels]     *)
(*   run     the columns of a record of a scene's run, [id, type, scene,   *)
(*           report, summary]; what has no column of its own is in summary *)
(*   event   [op, job, ids, annotations, scenes]: one job registers,       *)
(*           validates or profiles the manifests of scenes; a scene of a   *)
(*           validation is [id, errors, warnings], or None if its manifest *)
(*           is not found                                                  *)
(***************************************************************************)
EXTENDS Lists, Integers, Sequences, FiniteSets, SequencesExt

CONSTANT None

SceneLimit == 10000   \* the scenes of a version that its quality looks at

\* Jobs, each executed once, on lists of scenes that have ids, in a validation
\* each once, so that no run record replaces another; counts are not negative.
ValidEvents(events) ==
  /\ events \in Seq(Elements(events))
  /\ \A i, j \in DOMAIN events :
       /\ {events[i].op, events[j].op} \subseteq {"validate", "profile"}
       /\ events[i].job = events[j].job
       => i = j
  /\ \A e \in Elements(events) :
       \/ e.op \in {"register", "profile"} /\ e.ids \in Seq(Elements(e.ids)) /\ None \notin Elements(e.ids)
          /\ (e.op = "register" => e.annotations \in Nat)
       \/ /\ e.op = "validate" /\ e.scenes \in Seq(Elements(e.scenes))
          /\ \A i, j \in DOMAIN e.scenes :
               None \notin {e.scenes[i], e.scenes[j]} /\ e.scenes[i].id = e.scenes[j].id => i = j
          /\ \A s \in Elements(e.scenes) \ {None} :
               s.id # None /\ s.errors \in Nat /\ s.warnings \in Nat

NoCache == [validation |-> None, status |-> None, block |-> None, profile |-> None]
NewDb == [rows |-> <<>>, runs |-> <<>>, cache |-> NoCache]

Newest(s) == [i \in DOMAIN s |-> s[Len(s) + 1 - i]]
IdsOf(rows) == {r.id : r \in Elements(rows)}
RowOf(db, s) == CHOOSE r \in Elements(db.rows) : r.id = s
-----------------------------------------------------------------------------
(* Rows and records *)

\* A row that exists keeps its place: created_at is not written again.
UpsertScene(db, row) ==
  IF row.id \in IdsOf(db.rows)
  THEN [db EXCEPT !.rows = Mapped(@, LAMBDA r : IF r.id = row.id THEN row ELSE r)]
  ELSE [db EXCEPT !.rows = Append(@, row)]

\* A scene that has no row gets none.
SetStatus(db, s, status) ==
  [db EXCEPT !.rows = Mapped(@, LAMBDA r : IF r.id = s THEN [r EXCEPT !.status = status] ELSE r)]

CreateRun(db, type, job, s, report, summary) ==
  [db EXCEPT !.runs = Append(@, [id |-> <<type, job, s>>, type |-> type, scene |-> s,
                                 report |-> report, summary |-> summary])]

\* The record of a row: its fields are the columns and what the summary holds.
RunRecord(run) ==
  Overlaid([id |-> run.id, type |-> run.type, scene |-> run.scene, report |-> run.report], run.summary)

\* repository.list: the newest first.
ListRuns(db, type, s, limit) ==
  Prefix(Mapped(Filter(Newest(db.runs), LAMBDA r : r.type = type /\ r.scene = s), RunRecord), limit)

ListScenes(db, limit) == Prefix(Newest(db.rows), limit)

\* list_latest_by_dataset_version: per scene, the first of the newest.
LatestRuns(db, type) ==
  FirstBy(Mapped(Filter(Newest(db.runs), LAMBDA r : r.type = type /\ r.scene # None), RunRecord),
          LAMBDA r : r.scene)

\* update_quality_cache: what is not given stays.
UpdateCache(db, values) == [db EXCEPT !.cache = Overlaid(@, values)]
-----------------------------------------------------------------------------
(* The jobs *)

\* Variant: a scene that is registered again keeps its status.
RegisterKeepsStatus(db, event) ==
  FoldLeft(LAMBDA d, s :
             UpsertScene(d, [id |-> s, status |-> IF s \in IdsOf(d.rows) THEN RowOf(d, s).status ELSE "built",
                             annotations |-> event.annotations, groundTruth |-> event.annotations > 0,
                             samples |-> 1, channels |-> {}]),
           db, event.ids)

\* register_scene, which replaces what is there.
RegisterScene(db, event, s) ==
  UpsertScene(db, [id |-> s, status |-> "built", annotations |-> event.annotations,
                   groundTruth |-> event.annotations > 0, samples |-> 1, channels |-> {}])

Register(db, event) == FoldLeft(LAMBDA d, s : RegisterScene(d, event, s), db, event.ids)

Verdict(errors, warnings) ==
  CASE errors > 0 -> "failed" [] errors = 0 /\ warnings > 0 -> "warning" [] OTHER -> "ready"

\* validate_scene, one scene: its report, its record, the status of its row.
ValidateScene(db, job, scene) ==
  IF scene = None THEN db
  ELSE SetStatus(CreateRun(db, "validation", job, scene.id, <<job, scene.id>>,
                           [verdict |-> Verdict(scene.errors, scene.warnings), block |-> scene.errors > 0,
                            errors |-> scene.errors, warnings |-> scene.warnings]),
                 scene.id, IF scene.errors > 0 THEN "failed" ELSE "validated")

\* A manifest that is not found is an error of the job.
Totals(event) ==
  [errors   |-> SumOf(event.scenes, LAMBDA s : IF s = None THEN 1 ELSE s.errors),
   warnings |-> SumOf(event.scenes, LAMBDA s : IF s = None THEN 0 ELSE s.warnings)]

\* A job without manifests fails the validation and leaves the cache alone.
ValidateNothing(db, job) ==
  CreateRun(db, "validation", job, None, None,
            [verdict |-> "failed", block |-> TRUE, errors |-> 1, warnings |-> 0])

\* The record of the job itself, of no scene, is created before those of the
\* scenes.
Validate(db, event) ==
  LET total   == Totals(event)
      summary == [verdict |-> Verdict(total.errors, total.warnings), block |-> total.errors > 0,
                  errors |-> total.errors, warnings |-> total.warnings]
      begun   == CreateRun(db, "validation", event.job, None, event.job, summary)
      checked == FoldLeft(LAMBDA d, s : ValidateScene(d, event.job, s), begun, event.scenes)
  IN IF event.scenes = <<>> THEN ValidateNothing(db, event.job)
     ELSE UpdateCache(checked, [validation |-> event.job, status |-> summary.verdict, block |-> summary.block])

ProfileScene(db, job, s) ==
  SetStatus(CreateRun(db, "profile", job, s, <<job, s>>, [channels |-> {}]), s, "profiled")

Profile(db, event) ==
  LET begun    == CreateRun(db, "profile", event.job, None, event.job, [channels |-> {}])
      profiled == FoldLeft(LAMBDA d, s : ProfileScene(d, event.job, s), begun, event.ids)
  IN UpdateCache(profiled, [profile |-> event.job])

Handle(db, e) ==
  CASE e.op = "register" -> Register(db, e)
    [] e.op = "validate" -> Validate(db, e)
    [] e.op = "profile"  -> Profile(db, e)

After(events) == FoldLeft(Handle, NewDb, events)
-----------------------------------------------------------------------------
(* app/domains/scenes: one scene *)

NoRun == <<>>   \* what is looked up where there is no run: no record has no field

IsValidated(row) == row.status \in {"validated", "profiled"}
Blocks(run) == run.block \/ run.verdict \in {"failed", "error"}

Readiness(row, validation) ==
  CASE ~IsValidated(row) \/ validation = NoRun -> "unknown"
    [] OTHER -> IF Blocks(validation) THEN "blocked"
                ELSE IF validation.verdict \in {"warning", "ready"} THEN validation.verdict ELSE "unknown"

ExclusionReasons(row, validation) ==
  {reason \in {"scene_not_ready", "validation_missing", "validation_blocked", "missing_ground_truth"} :
     CASE reason = "scene_not_ready"      -> ~IsValidated(row)
       [] reason = "validation_missing"   -> validation = NoRun
       [] reason = "validation_blocked"   -> validation # NoRun /\ Blocks(validation)
       [] reason = "missing_ground_truth" -> ~row.groundTruth \/ row.annotations <= 0}

\* Of the runs the response shows the id, the verdict and the report.
RunSummary(run) == IF run = NoRun THEN None ELSE [id |-> run.id, report |-> run.report]

Quality(row, validation, profile) ==
  [id |-> row.id, samples |-> row.samples, annotations |-> row.annotations, groundTruth |-> row.groundTruth,
   readiness |-> Readiness(row, validation), reasons |-> ExclusionReasons(row, validation),
   selectable |-> ExclusionReasons(row, validation) = {},
   validation |-> RunSummary(validation), profile |-> RunSummary(profile),
   channels |-> IF profile = NoRun THEN {} ELSE profile.channels]

\* GET /scenes/{id}/quality: the latest run of each type by the scene's id.
SceneQuality(db, s) ==
  LET Latest(type) == LET runs == ListRuns(db, type, s, 1) IN IF runs = <<>> THEN NoRun ELSE runs[1]
  IN Quality(RowOf(db, s), Latest("validation"), Latest("profile"))
-----------------------------------------------------------------------------
(* app/domains/datasets: all scenes of a version *)

\* Three queries: the scenes, and the latest runs of each type.
AllQuality(db) ==
  LET validations == LatestRuns(db, "validation")
      profiles    == LatestRuns(db, "profile")
      Of(latest, s) == IF s \in DOMAIN latest THEN latest[s] ELSE NoRun
  IN Mapped(ListScenes(db, SceneLimit), LAMBDA row :
       Quality(row, Of(validations, row.id), Of(profiles, row.id)))

Aggregate(all) ==
  LET Ready(r) == CountIn(all, LAMBDA q : q.readiness = r)
  IN [scenes |-> Len(all), ready |-> Ready("ready"), warning |-> Ready("warning"),
      blocked |-> Ready("blocked"), unknown |-> Ready("unknown"),
      selectable |-> CountIn(all, LAMBDA q : q.selectable),
      excluded |-> CountIn(all, LAMBDA q : ~q.selectable),
      groundTruth |-> CountIn(all, LAMBDA q : q.groundTruth),
      annotated |-> CountIn(all, LAMBDA q : q.annotations > 0),
      samples |-> SumOf(all, LAMBDA q : q.samples),
      annotations |-> SumOf(all, LAMBDA q : q.annotations),
      reasons |-> [r \in UNION {q.reasons : q \in Elements(all)} |-> CountIn(all, LAMBDA q : r \in q.reasons)],
      channels |-> UNION {q.channels : q \in Elements(all)}]

VersionReadiness(sum) ==
  CASE sum.scenes = 0 \/ sum.unknown = sum.scenes -> "unknown"
    [] OTHER -> IF sum.selectable = 0 THEN "blocked"
                ELSE IF sum.warning + sum.blocked + sum.unknown + sum.excluded > 0 THEN "warning"
                ELSE "ready"

\* GET .../versions/{version}/quality, and the page with its scenes.
VersionQuality(db) ==
  LET sum == Aggregate(AllQuality(db))
  IN [readiness |-> VersionReadiness(sum), summary |-> sum, hasGroundTruth |-> sum.groundTruth > 0]

QualityPage(db, limit, offset) ==
  LET all == AllQuality(db)
  IN [count |-> Len(all), summary |-> Aggregate(all),
      scenes |-> SubSeq(all, offset + 1, IF offset + limit < Len(all) THEN offset + limit ELSE Len(all))]
=============================================================================
