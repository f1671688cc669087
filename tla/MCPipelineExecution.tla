------------------------ MODULE MCPipelineExecution ------------------------
(***************************************************************************)
(* PipelineExecution on small pipelines, cut from the built-in ones: a     *)
(* task, the gated task that validates its output, and a last task that    *)
(* needs both; in the longer one an optional report comes before the last. *)
(***************************************************************************)
EXTENDS PipelineExecution, TLC

GatedSingle == <<{}>>
GatedPair == <<{}, {1}>>
GatedFirst == <<{}, {1}, {1, 2}>>
GatedChain == <<{}, {1}, {2}, {1, 2, 3}>>

Symmetry == Permutations(Requests) \cup Permutations(Runners)
=============================================================================
