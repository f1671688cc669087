--------------------------- MODULE EvaluationViews ---------------------------
(***************************************************************************)
(* What is kept of an evaluation (evaluation.json, the run's row, the      *)
(* job's result) and how the API ranks the rows (app/views/leaderboards).  *)
(*                                                                         *)
(* A value of a metric is a pair <<n, d>> with d > 0; a count c is         *)
(* <<c, 1>>.  Names, URIs and the lists of scene ids are left out.         *)
(***************************************************************************)
EXTENDS DetectionEvaluation

\* evaluation.json, of an evaluation that did not raise; a skipped one has
\* neither counts nor metrics.
EvaluationManifest(e) ==
  IF e.status = "skipped"
  THEN [status |-> "skipped", samples |-> None, predictions |-> None, evaluable |-> None,
        failed |-> None, truth |-> None, primary |-> None, metrics |-> <<>>]
  ELSE [status |-> "succeeded", samples |-> Len(e.evaluated), predictions |-> e.total.predictions,
        evaluable |-> e.metrics.evaluable, failed |-> e.total.failed, truth |-> e.metrics.truth,
        primary |-> e.metrics.precision,
        metrics |-> [precision |-> e.metrics.precision, recall |-> e.metrics.recall,
                     mean_center_distance_error |-> e.metrics.error]]

\* _extract_evaluation_counts
Counts(manifest) ==
  [k \in {"samples", "predictions", "evaluable", "failed", "truth"} |->
     IF manifest[k] = None THEN 0 ELSE manifest[k]]

\* _build_evaluation_summary
EvaluationSummary(manifest) ==
  [status |-> manifest.status, skipped |-> manifest.status = "skipped",
   counts |-> [k \in {"predictions", "evaluable", "failed", "truth"} |-> Counts(manifest)[k]],
   primary |-> manifest.primary]

\* The SUCCEEDED record; that nothing was evaluated only the summary says.
EvaluationRow(manifest) ==
  [counts |-> [k \in {"samples", "predictions", "truth"} |-> Counts(manifest)[k]],
   primary |-> manifest.primary, metrics |-> manifest.metrics, summary |-> EvaluationSummary(manifest)]

EvaluationResult(manifest) ==
  [counts |-> Counts(manifest), primary |-> manifest.primary, metrics |-> manifest.metrics,
   summary |-> EvaluationSummary(manifest)]
-----------------------------------------------------------------------------
(* LeaderboardService *)

\* The rows in the order of their creation; the page has the newest first.
ListEvaluations(rows, limit, offset) ==
  LET newest == [i \in DOMAIN rows |-> rows[Len(rows) + 1 - i]]
  IN SubSeq(newest, offset + 1, IF offset + limit < Len(rows) THEN offset + limit ELSE Len(rows))

\* A metric of the run, or else a count of its summary; a value that is 0 is
\* as good as none.
ExtractMetric(row, metric) ==
  LET value == IF metric \in DOMAIN row.metrics THEN row.metrics[metric] ELSE <<0, 1>>
      count == IF metric \in DOMAIN row.summary.counts THEN <<row.summary.counts[metric], 1>> ELSE None
  IN IF value[1] # 0 THEN value ELSE count

Less(x, y) == x[1] * y[2] < y[1] * x[2]

\* The sort of one page, stable: entries without a value come last.
Leaderboard(rows, metric, order, limit, offset) ==
  LET entries == Mapped(ListEvaluations(rows, limit, offset), LAMBDA row :
                   [row |-> row, value |-> ExtractMetric(row, metric)])
      Before(x, y) == \/ x.value # None /\ y.value = None
                      \/ /\ x.value # None /\ y.value # None
                         /\ IF order = "asc" THEN Less(x.value, y.value) ELSE Less(y.value, x.value)
  IN StableSort(entries, LAMBDA y : CountIn(entries, LAMBDA x : Before(x, y)))
=============================================================================
