------------------------- MODULE DetectionInference -------------------------
(***************************************************************************)
(* The inference of detections over a dataset: the choice of scenes and    *)
(* samples, the three backends (mock, ONNX runtime, GroundingDINO with the *)
(* lifting of its boxes to 3D), the prediction files and the manifest of   *)
(* the run (sceneops_worker/inference/detection, jobs/inference).          *)
(*                                                                         *)
(*   scene      of a dataset manifest: [id, file, annotations, groundTruth,*)
(*              source, samples, calibrations, poses]                      *)
(*   sample     [id, annotations, frames]  frames as SceneBuilding's       *)
(*   annotation [id, category, at]                                         *)
(*   detection  of the inference server: [category, at, points, readable]  *)
(*              at and points: what the lidar file has behind the box      *)
(*   prediction [id, category, at, status]                                 *)
(***************************************************************************)
EXTENDS SceneQuality

CONSTANTS
  SupportedCategories,
  CameraChannel,          \* the camera of the job's parameters
  LidarChannel            \* LIDAR_TOP

MinFrustumPoints == 3
Origin == 0               \* where a prediction that is not lifted is put
-----------------------------------------------------------------------------
(* The samples of a run *)

\* iter_samples: what the mock and ONNX backends take, whatever scenes were
\* selected; the number is looked at after a sample is given.
AllSamples(dataset, max) ==
  LET present == Filter(dataset, LAMBDA s : s.file)
      samples == Flattened(present, LAMBDA s : Mapped(s.samples, LAMBDA x : [scene |-> s, sample |-> x]))
  IN AtMost(samples, IF max = 0 THEN 1 ELSE max)

\* The frame of a channel; of two frames of one channel the last.
FrameOf(sample, ch) ==
  LET byChannel == LastBy(sample.frames, LAMBDA f : f.ch)
  IN IF ch \in DOMAIN byChannel THEN byChannel[ch] ELSE None

\* DetectionSampleSelector.select, what the GroundingDINO backend takes; the
\* request names no scene that the dataset does not have.
UnknownScenes(dataset, cfg) == cfg.scenes # None /\ ~(cfg.scenes \subseteq {s.id : s \in Elements(dataset)})

SelectedSamples(dataset, cfg) ==
  LET asked == Filter(dataset, LAMBDA s : cfg.scenes = None \/ s.id \in cfg.scenes)
      taken == Filter(AtMost(asked, cfg.maxScenes), LAMBDA s : s.file)
      OfScene(s) ==
        Mapped(Filter(s.samples, LAMBDA x : FrameOf(x, CameraChannel) # None),
               LAMBDA x : [scene |-> s, sample |-> x, camera |-> FrameOf(x, CameraChannel),
                           lidar |-> IF cfg.lift THEN FrameOf(x, LidarChannel) ELSE None])
  IN AtMost(Flattened(taken, OfScene), cfg.maxSamples)
-----------------------------------------------------------------------------
(* Predictions of one sample *)

\* The mock keeps some of the annotations, shifts them, and may add one.
MockPredictions(sample, luck) ==
  LET supported == Filter(sample.annotations, LAMBDA a : a.category \in SupportedCategories /\ a.id \in luck.kept)
  IN Mapped(supported, LAMBDA a : [id |-> a.id, category |-> a.category, at |-> a.at + luck.shift,
                                   status |-> "not_applicable"])
     \o (IF sample.id \in luck.extra
         THEN <<[id |-> None, category |-> "car", at |-> luck.where, status |-> "not_applicable"]>>
         ELSE <<>>)

\* The ONNX backend asks an annotation for attributes that it does not have.
OnnxRaises(samples) == \E s \in Elements(samples) : s.sample.annotations # <<>>

\* frustum_lift looks into the lidar file only with all of these.
Liftable(s) ==
  /\ ResolvedCalibration(s.camera, s.scene) # None
  /\ ResolvedCalibration(s.lidar, s.scene) # None
  /\ HasPoseRecord(s.camera, s.scene)
  /\ HasIntrinsic(s.camera, s.scene)
  /\ HasImageSize(s.camera)

\* None, an exception or a box in space: what becomes of one detection.
LiftStatus(s, detection) ==
  IF s.lidar = None \/ ~Liftable(s) THEN "not_applicable"
  ELSE IF ~detection.readable THEN "failed"
  ELSE IF detection.points < MinFrustumPoints THEN "not_applicable" ELSE "succeeded"

DinoPredictions(s, detections) ==
  [i \in DOMAIN detections |->
     LET status == LiftStatus(s, detections[i])
     IN [id |-> i, category |-> detections[i].category, status |-> status,
         at |-> IF status = "succeeded" THEN detections[i].at ELSE Origin]]
-----------------------------------------------------------------------------
(* The files of a run *)

\* One file per sample id, written in order: a later sample of the same id
\* replaces the predictions, and both shards name the one file.
Shards(predicted) ==
  LET file == LastBy(predicted, LAMBDA p : p.sample.id)
  IN Mapped(predicted, LAMBDA p :
       [scene |-> p.scene.id, sample |-> p.sample.id, payload |-> p.sample.id,
        count |-> Len(p.predictions),
        predictions |-> Mapped(file[p.sample.id].predictions, LAMBDA q :
          [id |-> q.id, category |-> q.category, at |-> q.at, failed |-> q.status = "failed"])])

\* predictions/manifest.json
PredictionManifest(predicted) ==
  LET WithStatus(status) ==
        SumOf(predicted, LAMBDA p : CountIn(p.predictions, LAMBDA q : q.status = status))
      all == SumOf(predicted, LAMBDA p : Len(p.predictions))
  IN [sceneCount |-> Cardinality({p.scene.id : p \in Elements(predicted)}),
      sampleCount |-> Len(predicted), requestCount |-> Len(predicted),
      predictionCount |-> all, evaluableCount |-> all - WithStatus("failed"),
      succeededCount |-> WithStatus("succeeded"), failedCount |-> WithStatus("failed"),
      notApplicableCount |-> WithStatus("not_applicable"),
      shards |-> Shards(predicted)]

Raised == [raised |-> TRUE]
Inferred(predicted) == [raised |-> FALSE, manifest |-> PredictionManifest(predicted)]

MockRun(dataset, cfg, luck) ==
  Inferred(Mapped(AllSamples(dataset, cfg.maxSamples), LAMBDA s :
    [scene |-> s.scene, sample |-> s.sample, predictions |-> MockPredictions(s.sample, luck)]))

OnnxRun(dataset, cfg) ==
  LET samples == AllSamples(dataset, cfg.maxSamples)
  IN IF cfg.model # "local" \/ OnnxRaises(samples) THEN Raised
     ELSE Inferred(Mapped(samples, LAMBDA s :
            [scene |-> s.scene, sample |-> s.sample, predictions |-> <<>>]))

\* An answer of the inference server is a list of detections; an error (None)
\* ends the run.
DinoRun(dataset, cfg, answers) ==
  LET samples == SelectedSamples(dataset, cfg)
  IN IF \/ cfg.endpoint = None \/ cfg.rawRoot = None
        \/ UnknownScenes(dataset, cfg)
        \/ \E s \in Elements(samples) : answers[s.sample.id] = None
     THEN Raised
     ELSE Inferred(Mapped(samples, LAMBDA s :
            [scene |-> s.scene, sample |-> s.sample,
             predictions |-> DinoPredictions(s, answers[s.sample.id])]))
-----------------------------------------------------------------------------
(* predict_detection *)

\* _prepare_execution: model and dataset version fit the request.
CanPredict(params, model, version) ==
  /\ model # None
  /\ model.backend = params.backend
  /\ version # None
  /\ version.status = "READY"
  /\ version.manifest
  /\ params.backend = "grounding_dino" => model.endpoint # None
  /\ params.backend = "onnx_runtime" => model.uri # None

\* The scenes of the request as the backend gets them: those that
\* select_detection_scenes has selected.
InferenceConfig(params, model, version, dataset) ==
  [scenes |-> Elements(SelectScenes(dataset, params.selection).selected), maxScenes |-> None,
   maxSamples |-> params.maxSamples, lift |-> params.lift,
   endpoint |-> model.endpoint, model |-> model.uri, rawRoot |-> version.rawRoot]

Predict(params, model, version, dataset, world) ==
  LET cfg == InferenceConfig(params, model, version, dataset)
  IN IF ~CanPredict(params, model, version) THEN Raised
     ELSE CASE params.backend = "mock"           -> MockRun(dataset, cfg, world.luck)
            [] params.backend = "onnx_runtime"   -> OnnxRun(dataset, cfg)
            [] params.backend = "grounding_dino" -> DinoRun(dataset, cfg, world.answers)

\* The SUCCEEDED record, and the job's result, of a run that did not raise.
InferenceRow(run) ==
  [samples |-> run.manifest.sampleCount, predictions |-> run.manifest.predictionCount]

PredictResult(run) ==
  [scenes |-> run.manifest.sceneCount, samples |-> run.manifest.sampleCount,
   requests |-> run.manifest.requestCount, predictions |-> run.manifest.predictionCount,
   evaluable |-> run.manifest.evaluableCount, succeeded |-> run.manifest.succeededCount,
   failed |-> run.manifest.failedCount]
=============================================================================
