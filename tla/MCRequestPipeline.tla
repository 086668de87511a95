-------------------------- MODULE MCRequestPipeline --------------------------
(* Instances of RequestPipeline for TLC.  No symmetry: the run checks liveness. *)
EXTENDS RequestPipeline
=============================================================================
