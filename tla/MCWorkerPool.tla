---------------------------- MODULE MCWorkerPool ----------------------------
(* Two workers and four requests: more requests than workers, so callers  *)
(* queue, workers are reused, and both workers can be lost.                *)
EXTENDS WorkerPool
=============================================================================
