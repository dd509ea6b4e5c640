--------------------------- MODULE MCJobPipeline ---------------------------
(***************************************************************************)
(* JobPipeline on small instances.  Workers are interchangeable: nothing   *)
(* in the specification tells one from another.  The run that checks       *)
(* liveness uses no symmetry.                                              *)
(***************************************************************************)
EXTENDS JobPipeline, TLC

WorkerSymmetry == Permutations(Workers)
=============================================================================
