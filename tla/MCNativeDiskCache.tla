------------------------- MODULE MCNativeDiskCache -------------------------
(***************************************************************************)
(* NativeDiskCache for TLC: every process reads and writes.                *)
(***************************************************************************)
EXTENDS NativeDiskCache

MCMode == [p \in Processes |-> "readwrite"]
=============================================================================
