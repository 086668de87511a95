-------------------------- MODULE MCNativeTiering --------------------------
(* Instances of NativeTiering.  No symmetry: a run checks liveness.         *)
EXTENDS NativeTiering
=============================================================================
