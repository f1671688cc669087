---------------------------- MODULE SceneQuality ----------------------------
(***************************************************************************)
(* What is said of a scene once it is built: the validator's verdict, the  *)
(* profiler's numbers and the choice of scenes for a detection evaluation  *)
(* (sceneops_worker/scenes/validation, profiling and selection).           *)
(*                                                                         *)
(* Manifests are those of SceneBuilding; a scene of a dataset manifest is  *)
(* here [id, file, annotations, samples, groundTruth, source], file = the  *)
(* manifest file exists.                                                   *)
(***************************************************************************)
EXTENDS SceneBuilding

\* The calibration record of a frame in its scene's registry, or None.
ResolvedCalibration(f, manifest) ==
  LET byId == LastBy(manifest.calibrations, LAMBDA c : c.id)
  IN IF f.calibration # None /\ f.calibration \in DOMAIN byId THEN byId[f.calibration] ELSE None

HasPoseRecord(f, manifest) == \E p \in Elements(manifest.poses) : f.pose # None /\ p.id = f.pose
HasIntrinsic(f, manifest) ==
  ResolvedCalibration(f, manifest) # None /\ ResolvedCalibration(f, manifest).intrinsic
HasImageSize(f) == f.image = "full"
-----------------------------------------------------------------------------
(* SceneManifestValidator.validate *)

Issue(type, ch, blocking) == [type |-> type, ch |-> ch, blocking |-> blocking]

\* The warnings about one frame.
FrameIssues(f, manifest) ==
  {Issue(t, f.ch, FALSE) : t \in
    (IF f.calibration = None THEN {"missing_calibrated_sensor_ref"}
     ELSE IF ResolvedCalibration(f, manifest) = None THEN {"missing_calibrated_sensor_record"}
     ELSE {})
    \union
    (IF f.pose = None THEN {"missing_ego_pose_ref"}
     ELSE IF ~HasPoseRecord(f, manifest) THEN {"missing_ego_pose_record"} ELSE {})
    \union (IF f.camera /\ ~HasIntrinsic(f, manifest) THEN {"missing_camera_intrinsic"} ELSE {})
    \union (IF f.camera /\ ~HasImageSize(f) THEN {"missing_image_size"} ELSE {})}

\* required: the channels the dataset asks for; perSample: check each sample
\* too; blockSamples: and let a missing channel of a sample block.
SceneIssues(manifest, required, perSample, blockSamples) ==
  (IF manifest.sampleCount = 0 THEN {Issue("empty_scene", None, TRUE)} ELSE {})
  \union {Issue("missing_channel", ch, TRUE) : ch \in required \ Elements(manifest.channels)}
  \union (IF perSample
          THEN {Issue("sample_missing_channel", ch, blockSamples) : ch \in
                 {c \in required : \E s \in Elements(manifest.samples) :
                    c \notin {f.ch : f \in Elements(s.frames)}}}
          ELSE {})
  \union UNION {FrameIssues(f, manifest) : f \in Elements(SceneFrames(manifest.samples))}

\* Variant: a warning fails the scene, too.
VerdictOfAny(issues) == IF issues # {} THEN "failed" ELSE "ready"

Verdict(issues) == IF \E i \in issues : i.blocking THEN "failed" ELSE "ready"
-----------------------------------------------------------------------------
(* SceneManifestProfiler.profile: a coverage is <<resolved, total>> of the   *)
(* frames of a channel.                                                      *)

Profile(manifest) ==
  LET frames  == SceneFrames(manifest.samples)
      all     == {f.ch : f \in Elements(frames)}
      cameras == {f.ch : f \in {g \in Elements(frames) : g.camera}}
      Coverage(channels, Has(_)) ==
        [ch \in channels |-> <<CountIn(frames, LAMBDA f : f.ch = ch /\ Has(f)),
                               CountIn(frames, LAMBDA f : f.ch = ch)>>]
  IN [samples |-> manifest.sampleCount, frames |-> manifest.frameCount,
      calibration |-> Coverage(all, LAMBDA f : ResolvedCalibration(f, manifest) # None),
      pose        |-> Coverage(all, LAMBDA f : HasPoseRecord(f, manifest)),
      intrinsic   |-> Coverage(cameras, LAMBDA f : f.camera /\ HasIntrinsic(f, manifest)),
      imageSize   |-> Coverage(cameras, LAMBDA f : f.camera /\ HasImageSize(f))]
-----------------------------------------------------------------------------
(* select_detection_scenes *)

\* Why a scene is not evaluated, or None.
SkipReason(scene, selection) ==
  LET hasTruth == scene.groundTruth \/ scene.annotations > 0
      least    == IF selection.minAnnotations \in {None, 0} THEN 1 ELSE selection.minAnnotations
  IN IF selection.scenes # {} /\ scene.id \notin selection.scenes THEN "not_in_requested_scene_ids"
     ELSE IF ~scene.file THEN "scene_manifest_not_found"
     ELSE IF selection.mode # "ground_truth_only" THEN None
     ELSE IF ~hasTruth \/ scene.annotations < least THEN "scene_has_no_ground_truth"
     ELSE IF selection.sources # {} /\ scene.source \notin selection.sources
          THEN "ground_truth_source_not_allowed" ELSE None

\* The loop ends at the first scene that fills the selection: the rest is
\* neither selected nor skipped nor counted.
SelectScenes(scenes, selection) ==
  LET Take(acc, scene) ==
        LET reason == SkipReason(scene, selection)
        IN IF acc.full THEN acc
           ELSE IF reason # None THEN [acc EXCEPT !.total = @ + 1, !.skipped = Append(@, scene.id)]
           ELSE [acc EXCEPT !.total = @ + 1, !.selected = Append(@, scene.id),
                            !.annotations = @ + scene.annotations,
                            !.full = selection.max # None /\ Len(acc.selected) + 1 >= selection.max]
  IN FoldLeft(Take, [selected |-> <<>>, skipped |-> <<>>, total |-> 0, annotations |-> 0, full |-> FALSE],
              scenes)
=============================================================================
