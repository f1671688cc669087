--------------------------- MODULE MCSceneCatalog ---------------------------
(***************************************************************************)
(* SceneCatalog for runs whose batches overlap in one scene.               *)
(***************************************************************************)
EXTENDS SceneCatalog

CONSTANTS p1, p2, p3, s1, s2, s3

OverlappingBatches == [p \in Runs |-> IF p = p1 THEN {s1, s2} ELSE {s2, s3}]
SingleBatches == [p \in Runs |-> IF p = p1 THEN {s1} ELSE {s2}]
=============================================================================
