--------------------------- MODULE SceneBuilding ---------------------------
(***************************************************************************)
(* From the frames of a raw log to scenes: segmentation, choice of the     *)
(* samples' anchors, association of frames to samples, calibrations and    *)
(* ego poses, the scene manifests and the build report                     *)
(* (sceneops_worker/scenes/building).                                      *)
(*                                                                         *)
(*   frame       [id, ts, ch, seq, sensor, camera, size]                   *)
(*   calibration [id, sensor, ch, intrinsic]                               *)
(*   pose        [id, ts]                                                  *)
(*   segment     [id, start, end, frames]      frames: a list of ids       *)
(*   anchor      [index, ts, frame, ch]                                    *)
(*   sample      [index, ts, anchor, frames, missing]                      *)
(*                                                                         *)
(* Times are microseconds, the configurations' times milliseconds; names   *)
(* that the code sorts (sequence ids, channels, ids of calibrations and    *)
(* poses) are integers.                                                    *)
(***************************************************************************)
EXTENDS Lists, Integers, Sequences, FiniteSets, SequencesExt

CONSTANTS
  None,          \* Python's None
  SafeKey(_)     \* a group key with "/" and " " replaced by "_"

Us(ms) == ms * 1000
FrameTime(f) == f.ts
FrameId(f) == f.id
-----------------------------------------------------------------------------
(* Segmentation *)

\* What pydantic accepts as a SceneSegmentationConfig.
ValidSegmentation(cfg) ==
  /\ cfg.minCount >= 1
  /\ cfg.minDuration # None => cfg.minDuration >= 0
  /\ cfg.maxDuration # None => cfg.maxDuration > 0
  /\ cfg.minDuration # None /\ cfg.maxDuration # None => cfg.minDuration <= cfg.maxDuration
  /\ cfg.maxCount # None => cfg.maxCount >= 1
  /\ cfg.strategy = "gap_based" => cfg.maxGap # None /\ cfg.maxGap > 0
  /\ cfg.strategy = "fixed_window" =>
       /\ cfg.window # None /\ cfg.window > 0
       /\ cfg.stride # None => cfg.stride > 0

DropsFrame(f, cfg) == cfg.respectSequence /\ f.seq = None /\ cfg.missingSequence = "drop"

\* The group of a frame: one group of the whole log, or one per sequence.
GroupKey(f, cfg, log) ==
  IF ~cfg.respectSequence THEN log
  ELSE IF f.seq = None THEN cfg.defaultSequence ELSE f.seq

\* Frames and a configuration as their schemas have them; the id of a frame is its
\* place, and no two sequences have ids that differ only in "/", " " and "_",
\* for those would share the ids of their segments.
ValidLog(frames, cfg, log) ==
  /\ frames \in Seq(Elements(frames))
  /\ \A i \in DOMAIN frames :
       frames[i].id = i /\ frames[i].ts \in Int /\ frames[i].seq \in Int \union {None}
  /\ cfg.strategy \in {"sequence", "gap_based", "fixed_window"}
  /\ cfg.minCount \in Int /\ cfg.defaultSequence \in Int
  /\ {cfg.minDuration, cfg.maxDuration, cfg.maxCount, cfg.maxGap, cfg.window, cfg.stride}
       \subseteq Int \union {None}
  /\ \A f, g \in Elements(frames) :
       SafeKey(GroupKey(f, cfg, log)) = SafeKey(GroupKey(g, cfg, log))
       => GroupKey(f, cfg, log) = GroupKey(g, cfg, log)

Groups(frames, cfg, log) ==
  LET kept == Filter(frames, LAMBDA f : ~DropsFrame(f, cfg))
  IN [k \in {GroupKey(f, cfg, log) : f \in Elements(kept)} |->
        StableSort(Filter(kept, LAMBDA f : GroupKey(f, cfg, log) = k), FrameTime)]

\* A list cut before each element that Cuts says does not fit the chunk so far.
Chunked(frames, Cuts(_, _)) ==
  LET Add(chunks, f) ==
        IF chunks = <<>> \/ Cuts(Last(chunks), f) THEN Append(chunks, <<f>>)
        ELSE ReplaceAt(chunks, Len(chunks), Append(Last(chunks), f))
  IN FoldLeft(Add, <<>>, frames)

SplitByGap(frames, cfg) ==
  Chunked(frames, LAMBDA chunk, f : f.ts - Last(chunk).ts > Us(cfg.maxGap))

\* Windows of the given duration, one every stride: they overlap when the
\* stride is shorter, and leave frames out when it is longer.
SplitByWindow(frames, cfg) ==
  LET start  == frames[1].ts
      stride == Us(IF cfg.stride = None THEN cfg.window ELSE cfg.stride)
      Opens(k) == start + (k - 1) * stride
      InWindow(k) == Filter(frames, LAMBDA f : Opens(k) <= f.ts /\ f.ts < Opens(k) + Us(cfg.window))
      windows == [k \in 1..((Last(frames).ts - start) \div stride + 1) |-> InWindow(k)]
  IN Filter(windows, LAMBDA chunk : chunk # <<>>)

SplitByLimits(frames, cfg) ==
  Chunked(frames, LAMBDA chunk, f :
    \/ cfg.maxCount # None /\ Len(chunk) + 1 > cfg.maxCount
    \/ cfg.maxDuration # None /\ f.ts - chunk[1].ts > Us(cfg.maxDuration))

PassesFilters(chunk, cfg) ==
  /\ Len(chunk) >= cfg.minCount
  /\ cfg.minDuration # None => Last(chunk).ts - chunk[1].ts >= Us(cfg.minDuration)

\* Variant: the segments of a group are not told apart.
SegmentIdOfGroup(log, key, strategy, index) ==
  IF strategy = "sequence" THEN <<key>> ELSE <<log, SafeKey(key), strategy>>

\* The sequence id itself for the first segment of a sequence.
SegmentId(log, key, strategy, index) ==
  IF strategy = "sequence" /\ index = 0 THEN <<key>>
  ELSE <<log, SafeKey(key), strategy, index>>

MakeSegment(id, chunk) ==
  [id |-> id, start |-> chunk[1].ts, end |-> Last(chunk).ts, frames |-> Mapped(chunk, FrameId)]

\* The chunks of one group that pass the filters, cut by strategy and limits.
GroupChunks(group, cfg) ==
  LET candidates == CASE cfg.strategy = "sequence"     -> <<group>>
                      [] cfg.strategy = "gap_based"    -> SplitByGap(group, cfg)
                      [] cfg.strategy = "fixed_window" -> SplitByWindow(group, cfg)
  IN Filter(Flattened(candidates, LAMBDA chunk : SplitByLimits(chunk, cfg)),
            LAMBDA chunk : PassesFilters(chunk, cfg))

Segments(frames, cfg, log) ==
  LET groups == Groups(frames, cfg, log)
      OfGroup(key) ==
        LET chunks == GroupChunks(groups[key], cfg)
        IN [i \in DOMAIN chunks |-> MakeSegment(SegmentId(log, key, cfg.strategy, i - 1), chunks[i])]
  IN StableSort(Flattened(SortedSet(DOMAIN groups), OfGroup), LAMBDA s : s.start)
-----------------------------------------------------------------------------
(* Anchors of the samples *)

\* What pydantic accepts as a SampleGroupingConfig.
ValidSampling(cfg) ==
  /\ cfg.everyNth >= 1
  /\ cfg.maxSamples # None => cfg.maxSamples >= 1
  /\ cfg.tolerance >= 0
  /\ cfg.poseTolerance >= 0
  /\ cfg.strategy = "fixed_interval" => cfg.interval # None /\ cfg.interval > 0

\* A log and configurations as their schemas have them; the list of required
\* channels names none twice.
ValidBuild(ctx, segmentation, cfg, log) ==
  /\ ValidSegmentation(segmentation) /\ ValidSampling(cfg)
  /\ ValidLog(ctx.frames, segmentation, log)
  /\ \A f \in Elements(ctx.frames) : f.ch \in Int
  /\ cfg.required \in SUBSET Int /\ IsFiniteSet(cfg.required)
  /\ cfg.strategy \in {"anchor_channel", "fixed_interval"}
  /\ cfg.association \in {"nearest", "previous", "next"}
  /\ {cfg.anchorChannel, cfg.everyNth, cfg.tolerance} \subseteq Int
  /\ {cfg.interval, cfg.maxSamples, cfg.minGap} \subseteq Int \union {None}

\* One anchor per frame of the anchor channel, or per frame when it has none.
ChannelAnchors(frames, cfg) ==
  LET ofChannel == Filter(frames, LAMBDA f : f.ch = cfg.anchorChannel)
  IN Mapped(IF ofChannel = <<>> THEN frames ELSE ofChannel,
            LAMBDA f : [ts |-> f.ts, frame |-> f.id, ch |-> f.ch])

\* One anchor per interval from the first frame to the last, without a frame.
IntervalAnchors(frames, cfg) ==
  [k \in 1..((Last(frames).ts - frames[1].ts) \div Us(cfg.interval) + 1) |->
     [ts |-> frames[1].ts + (k - 1) * Us(cfg.interval), frame |-> None, ch |-> None]]

EveryNth(anchors, n) == [k \in 1..((Len(anchors) + n - 1) \div n) |-> anchors[(k - 1) * n + 1]]

\* Greedy: an anchor is kept when it is far enough from the last one kept.
MinGap(anchors, cfg) ==
  LET Keep(kept, a) == IF kept = <<>> \/ a.ts - Last(kept).ts >= Us(cfg.minGap)
                       THEN Append(kept, a) ELSE kept
  IN IF cfg.minGap = None THEN anchors ELSE FoldLeft(Keep, <<>>, anchors)

AtMost(list, n) == IF n = None THEN list ELSE Prefix(list, n)

Anchors(frames, cfg) ==
  IF frames = <<>> THEN <<>>
  ELSE LET all == IF cfg.strategy = "anchor_channel" THEN ChannelAnchors(frames, cfg)
                  ELSE IntervalAnchors(frames, cfg)
           chosen == AtMost(MinGap(EveryNth(all, cfg.everyNth), cfg), cfg.maxSamples)
       IN [k \in DOMAIN chosen |-> [index |-> k - 1, ts |-> chosen[k].ts, frame |-> chosen[k].frame,
                                     ch |-> chosen[k].ch]]
-----------------------------------------------------------------------------
(* Association of frames to samples *)

Distance(a, b) == IF a < b THEN b - a ELSE a - b

TargetChannels(frames, cfg) ==
  SortedSet(IF cfg.required # {} THEN cfg.required ELSE {f.ch : f \in Elements(frames)})

\* Variant: the nearest frame, however far.
SelectFarFrame(candidates, ts, cfg) ==
  IF candidates = <<>> THEN None ELSE FirstMin(candidates, LAMBDA f : Distance(f.ts, ts))

\* The frame of one channel for a moment, or None when none is near enough:
\* nearest, or the nearest that is not later, or not earlier; the first of
\* equals.
SelectFrame(candidates, ts, cfg) ==
  LET allowed == CASE cfg.association = "nearest"  -> candidates
                   [] cfg.association = "previous" -> Filter(candidates, LAMBDA f : f.ts <= ts)
                   [] cfg.association = "next"     -> Filter(candidates, LAMBDA f : f.ts >= ts)
      best == FirstMin(allowed, LAMBDA f : Distance(f.ts, ts))
  IN IF allowed = <<>> THEN None
     ELSE IF Distance(best.ts, ts) > Us(cfg.tolerance) THEN None ELSE best

\* One anchor's sample; used are the frames earlier samples took.
AssociateAnchor(frames, anchor, used, cfg) ==
  LET Channel(acc, ch) ==
        LET candidates == StableSort(Filter(frames, LAMBDA f :
              f.ch = ch /\ (cfg.allowReuse \/ f.id \notin acc.used)), FrameTime)
            f == SelectFrame(candidates, anchor.ts, cfg)
        IN IF f = None THEN [acc EXCEPT !.missing = Append(@, ch)]
           ELSE [acc EXCEPT !.frames = Append(@, f), !.used = @ \union {f.id}]
  IN FoldLeft(Channel, [used |-> used, frames |-> <<>>, missing |-> <<>>],
              TargetChannels(frames, cfg))

Associate(frames, anchors, cfg) ==
  LET Sample(acc, anchor) ==
        LET one == AssociateAnchor(frames, anchor, acc.used, cfg)
        IN [used |-> one.used,
            samples |-> Append(acc.samples,
              [index |-> anchor.index, ts |-> anchor.ts, anchor |-> anchor,
               frames |-> StableSort(StableSort(one.frames, LAMBDA f : f.ch), FrameTime),
               missing |-> one.missing])]
  IN IF frames = <<>> THEN <<>>
     ELSE FoldLeft(Sample, [used |-> {}, samples |-> <<>>], anchors).samples

KeptSamples(samples, cfg) ==
  Filter(samples, LAMBDA s : /\ cfg.dropEmpty => s.frames # <<>>
                             /\ cfg.dropMissing => s.missing = <<>>)
-----------------------------------------------------------------------------
(* Calibrations and ego poses of a frame *)

\* The first record of a sensor, or channel, counts.
CalibrationsBySensor(calibrations) ==
  FirstBy(Filter(calibrations, LAMBDA c : c.sensor # None), LAMBDA c : c.sensor)
CalibrationsByChannel(calibrations) ==
  FirstBy(Filter(calibrations, LAMBDA c : c.ch # None), LAMBDA c : c.ch)

\* By sensor, else by channel.
CalibrationOf(f, calibrations) ==
  LET bySensor  == CalibrationsBySensor(calibrations)
      byChannel == CalibrationsByChannel(calibrations)
  IN IF f.sensor # None /\ f.sensor \in DOMAIN bySensor THEN bySensor[f.sensor].id
     ELSE IF f.ch \in DOMAIN byChannel THEN byChannel[f.ch].id ELSE None

SortedPoses(poses) == StableSort(Filter(poses, LAMBDA p : p.ts # None), LAMBDA p : p.ts)

\* Of the first pose that is not earlier and the one before it the nearer one,
\* the later on a tie.
NearestPose(ts, poses, tolerance) ==
  LET sorted == SortedPoses(poses)
      idx    == CountIn(sorted, LAMBDA p : p.ts < ts)
      around == (IF idx < Len(sorted) THEN <<sorted[idx + 1]>> ELSE <<>>)
                \o (IF idx > 0 THEN <<sorted[idx]>> ELSE <<>>)
      best   == FirstMin(around, LAMBDA p : Distance(p.ts, ts))
  IN IF around = <<>> \/ Distance(best.ts, ts) > Us(tolerance) THEN None ELSE best.id

PoseOf(ts, poses, cfg) ==
  LET exact == Filter(SortedPoses(poses), LAMBDA p : p.ts = ts)
  IN IF cfg.pose = "nearest" THEN NearestPose(ts, poses, cfg.poseTolerance)
     ELSE IF exact = <<>> THEN None ELSE exact[1].id

\* Image metadata: only a camera's frame that has any of it.
ImageOf(f) == IF f.camera /\ f.size # "none" THEN f.size ELSE None
-----------------------------------------------------------------------------
(* The manifest of a scene *)

SceneFrame(f, ctx, cfg) ==
  [id |-> f.id, ts |-> f.ts, ch |-> f.ch, camera |-> f.camera,
   calibration |-> CalibrationOf(f, ctx.calibrations),
   pose |-> PoseOf(f.ts, ctx.poses, cfg),
   image |-> ImageOf(f)]

\* A frame whose calibration or pose may not be missing ends the whole build.
FrameRaises(f, ctx, cfg) ==
  \/ cfg.pose = "interpolate"
  \/ ~cfg.allowNoCalibration /\ CalibrationOf(f, ctx.calibrations) = None
  \/ ~cfg.allowNoPose /\ PoseOf(f.ts, ctx.poses, cfg) = None

BuildSample(sample, ctx, cfg) ==
  [index |-> sample.index, ts |-> sample.ts, anchor |-> sample.anchor, missing |-> sample.missing,
   frames |-> Mapped(sample.frames, LAMBDA f : SceneFrame(f, ctx, cfg))]

\* context.frames_for_ids: ids without a frame are skipped; of two frames with
\* one id the last is meant.
FramesForIds(ids, frames) ==
  LET byId == LastBy(frames, FrameId)
  IN StableSort(Mapped(Filter(ids, LAMBDA i : i \in DOMAIN byId), LAMBDA i : byId[i]), FrameTime)

EmptyReport ==
  [before |-> 0, after |-> 0, dropped |-> 0, warned |-> 0, withMissing |-> 0,
   missing |-> <<>>, associated |-> 0,
   framesNoCal |-> 0, framesNoPose |-> 0, samplesNoCal |-> 0, samplesNoPose |-> 0]

\* SampleGroupingReport.from_associated_samples.
ReportOf(samples, keptIndexes) ==
  LET kept == Filter(samples, LAMBDA s : s.index \in keptIndexes)
      withMissing == CountIn(samples, LAMBDA s : s.missing # <<>>)
  IN [EmptyReport EXCEPT
        !.before = Len(samples), !.after = Len(kept), !.dropped = Len(samples) - Len(kept),
        !.warned = withMissing, !.withMissing = withMissing,
        !.missing = [ch \in UNION {Elements(s.missing) : s \in Elements(samples)} |->
                       CountIn(samples, LAMBDA s : ch \in Elements(s.missing))],
        !.associated = SumOf(kept, LAMBDA s : Len(s.frames))]

\* _attach_resolution_stats and add_resolution_stats.
WithResolutionStats(report, samples) ==
  LET NoCal(f) == f.calibration = None
      NoPose(f) == f.pose = None
  IN [report EXCEPT
        !.framesNoCal   = @ + SumOf(samples, LAMBDA s : CountIn(s.frames, NoCal)),
        !.framesNoPose  = @ + SumOf(samples, LAMBDA s : CountIn(s.frames, NoPose)),
        !.samplesNoCal  = @ + CountIn(samples, LAMBDA s : CountIn(s.frames, NoCal) > 0),
        !.samplesNoPose = @ + CountIn(samples, LAMBDA s : CountIn(s.frames, NoPose) > 0)]

\* Variant: the missing channels of the last scene only.
MergeReportsOfLast(r, s) == [k \in DOMAIN r |-> IF k = "missing" THEN s.missing ELSE r[k] + s[k]]

MergeReports(r, s) ==
  [k \in DOMAIN r |->
     IF k = "missing"
     THEN [ch \in DOMAIN r.missing \union DOMAIN s.missing |->
             (IF ch \in DOMAIN r.missing THEN r.missing[ch] ELSE 0)
             + (IF ch \in DOMAIN s.missing THEN s.missing[ch] ELSE 0)]
     ELSE r[k] + s[k]]

\* The records of a registry that the scene's frames name, in the order of ids.
UsedRecords(records, used) ==
  LET byId == LastBy(records, LAMBDA r : r.id)
  IN Mapped(SortedSet(used \intersect DOMAIN byId), LAMBDA i : byId[i])

SceneFrames(samples) == Flattened(samples, LAMBDA s : s.frames)

\* The manifest of the samples of a segment, whose frames are used.
Manifest(segment, ctx, samples, used) ==
  [id |-> segment.id, samples |-> samples,
   calibrations |-> UsedRecords(ctx.calibrations, {f.calibration : f \in used} \ {None}),
   poses |-> UsedRecords(ctx.poses, {f.pose : f \in used} \ {None}),
   sampleCount |-> Len(samples),
   frameCount |-> SumOf(samples, LAMBDA s : Len(s.frames)),
   channels |-> SortedSet({f.ch : f \in used}),
   start |-> segment.start, end |-> segment.end]

Assembled(segment, ctx, associated, samples) ==
  [report |-> WithResolutionStats(ReportOf(associated, {s.index : s \in Elements(samples)}), samples),
   manifest |-> Manifest(segment, ctx, samples, Elements(SceneFrames(samples)))]

\* SceneAssembler.build_scene of the associated samples: manifest and report, or
\* None for an exception.
Assemble(segment, ctx, cfg, associated) ==
  LET kept == KeptSamples(associated, cfg)
  IN IF \E s \in Elements(kept) : \E f \in Elements(s.frames) : FrameRaises(f, ctx, cfg) THEN None
     ELSE Assembled(segment, ctx, associated, Mapped(kept, LAMBDA s : BuildSample(s, ctx, cfg)))

BuildScene(segment, ctx, cfg) ==
  LET frames == FramesForIds(segment.frames, ctx.frames)
  IN Assemble(segment, ctx, cfg, Associate(frames, Anchors(frames, cfg), cfg))

\* One turn of the loop: scenes without samples count in the report only;
\* enough scenes, or an exception, end the loop.
AddScene(acc, segment, built, maxScenes) ==
  IF built = None THEN [acc EXCEPT !.raised = TRUE]
  ELSE LET report == MergeReports(acc.report, built.report)
       IN IF built.manifest.sampleCount = 0 THEN [acc EXCEPT !.report = report]
          ELSE [acc EXCEPT !.report = report,
                           !.segments = Append(@, segment),
                           !.scenes = Append(@, built.manifest),
                           !.samples = @ + built.manifest.sampleCount,
                           !.frames = @ + built.manifest.frameCount,
                           !.stop = maxScenes \notin {None, 0} /\ Len(acc.scenes) + 1 >= maxScenes]

\* SceneBuilder.build.
Build(ctx, segmentation, sampling, log, maxScenes) ==
  LET Scene(acc, segment) ==
        IF acc.stop \/ acc.raised THEN acc
        ELSE AddScene(acc, segment, BuildScene(segment, ctx, sampling), maxScenes)
  IN FoldLeft(Scene,
              [report |-> EmptyReport, segments |-> <<>>, scenes |-> <<>>,
               samples |-> 0, frames |-> 0, stop |-> FALSE, raised |-> FALSE],
              Segments(ctx.frames, segmentation, log))
=============================================================================
