----------------------------- MODULE Ingestion -----------------------------
(***************************************************************************)
(* The two routes from a nuScenes source to scenes: ingest_scenes writes   *)
(* scene manifests from the source's samples, build_scenes first makes a   *)
(* raw log of it and then builds scenes from the log                       *)
(* (sceneops_worker/datasets/ingestion, jobs/dataset).                     *)
(*                                                                         *)
(*   source      [scenes, calibrations, poses]                             *)
(*   its scene   [name, samples]    sample [ts, data, annotations]         *)
(*   its data    a function from channels to [id, ts, calibration, pose,   *)
(*               size]                                                     *)
(*   calibrations: id -> [sensor, intrinsic]; poses: id -> ts              *)
(***************************************************************************)
EXTENDS SceneQuality

CONSTANTS
  TargetChannelsOfIngest,   \* CAM_FRONT and LIDAR_TOP
  CameraChannels            \* the channels whose names begin with CAM

DataOf(sample) == Mapped(SortedSet(DOMAIN sample.data), LAMBDA ch : [ch |-> ch] @@ sample.data[ch])
-----------------------------------------------------------------------------
(* ingest_scenes *)

\* A frame, with its references taken from the source.
IngestFrame(d) ==
  [id |-> d.id, ts |-> d.ts, ch |-> d.ch, camera |-> d.ch \in CameraChannels,
   calibration |-> d.calibration, pose |-> d.pose,
   image |-> IF d.ch \in CameraChannels THEN d.size ELSE None]

CalibrationRecord(source, d) ==
  [id |-> d.calibration, sensor |-> source.calibrations[d.calibration].sensor, ch |-> d.ch,
   intrinsic |-> source.calibrations[d.calibration].intrinsic]

PoseRecord(source, d) == [id |-> d.pose, ts |-> source.poses[d.pose]]

Targets(sample) == Filter(DataOf(sample), LAMBDA d : d.ch \in TargetChannelsOfIngest)

IngestSample(sample, index) ==
  [index |-> index, ts |-> sample.ts, frames |-> Mapped(Targets(sample), IngestFrame),
   annotations |-> sample.annotations]

\* build_scene_manifest: one sample per sample of the source, the frames of
\* the target channels, the registries of what they name.
IngestScene(source, scene) ==
  LET samples == [i \in DOMAIN scene.samples |-> IngestSample(scene.samples[i], i - 1)]
      used == Flattened(scene.samples, Targets)
      calibrations == LastBy(Mapped(used, LAMBDA d : CalibrationRecord(source, d)), LAMBDA c : c.id)
      poses == LastBy(Mapped(used, LAMBDA d : PoseRecord(source, d)), LAMBDA p : p.id)
      annotations == SumOf(samples, LAMBDA s : Len(s.annotations))
  IN [id |-> <<scene.name>>, samples |-> samples,
      calibrations |-> Mapped(SortedSet(DOMAIN calibrations), LAMBDA i : calibrations[i]),
      poses |-> Mapped(SortedSet(DOMAIN poses), LAMBDA i : poses[i]),
      sampleCount |-> Len(samples), frameCount |-> Len(used),
      annotations |-> annotations, groundTruth |-> annotations > 0,
      channels |-> SortedSet({d.ch : d \in Elements(used)})]

\* The job: the scenes asked for, at most max of them.
IngestScenes(source, names, max) ==
  LET wanted == Filter(source.scenes, LAMBDA s : names = {} \/ s.name \in names)
  IN Mapped(AtMost(wanted, max), LAMBDA s : IngestScene(source, s))
-----------------------------------------------------------------------------
(* build_scenes: the raw log, and the scenes built from it *)

\* NuScenesRawLogMocker.build_raw_log: every channel of every sample becomes a
\* frame; of a calibration, or pose, met again the first record stays.
RawLog(source, maxSequences) ==
  LET taken == IF maxSequences \in {None, 0} THEN source.scenes ELSE Prefix(source.scenes, maxSequences)
      data  == Flattened(taken, LAMBDA s : Flattened(s.samples, LAMBDA x :
                 Mapped(DataOf(x), LAMBDA d : [seq |-> s.name] @@ d)))
      Frame(d) == [id |-> d.id, ts |-> d.ts, ch |-> d.ch, seq |-> d.seq,
                   sensor |-> source.calibrations[d.calibration].sensor,
                   camera |-> d.ch \in CameraChannels, size |-> d.size]
      First(s, Id(_)) == Filter([i \in DOMAIN s |-> [at |-> i, of |-> s[i]]],
                           LAMBDA x : \A j \in 1..(x.at - 1) : Id(s[j]) # Id(x.of))
  IN [frames |-> Mapped(data, Frame),
      calibrations |-> Mapped(First(data, LAMBDA d : d.calibration),
                              LAMBDA x : CalibrationRecord(source, x.of)),
      poses |-> Mapped(First(data, LAMBDA d : d.pose), LAMBDA x : PoseRecord(source, x.of))]

\* The manifest that is written beside the frames.
RawLogManifest(raw) ==
  [frameCount |-> Len(raw.frames), channels |-> SortedSet({f.ch : f \in Elements(raw.frames)})]

\* A log that the parameters name, or one made of the source.
RawInputs(source, given, maxSequences) == IF given # None THEN given ELSE RawLog(source, maxSequences)

\* BuildScenesJobHandler.build_job_params: the dataset's required channels are
\* asked of the samples unless the parameters already name some.
WithRequiredChannels(sampling, required) ==
  IF required # {} /\ sampling.required = {} THEN [sampling EXCEPT !.required = required] ELSE sampling

\* The job's result.
ResultOf(raw, built) ==
  [scenes |-> built.scenes, raised |-> built.raised, report |-> built.report,
   sceneCount |-> Len(built.scenes), sampleCount |-> built.samples, frameCount |-> built.frames,
   observationCount |-> Len(raw.frames), channels |-> RawLogManifest(raw).channels]

BuildScenesResult(source, given, segmentation, sampling, log, maxSequences, maxScenes) ==
  LET raw == RawInputs(source, given, maxSequences)
  IN ResultOf(raw, Build(raw, segmentation, sampling, log, maxScenes))
=============================================================================
