--------------------------- MODULE MCJobLifecycle ---------------------------
(***************************************************************************)
(* JobLifecycle on small instances.  Requests are interchangeable, and so  *)
(* are the slots of the worker pool: safety runs take both symmetries.     *)
(***************************************************************************)
EXTENDS JobLifecycle, TLC

Symmetry == Permutations(Requests) \cup Permutations(Workers)
=============================================================================
