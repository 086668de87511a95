--------------------------- MODULE MCIncludeCache ---------------------------
(***************************************************************************)
(* Three calls of two workers, one change of a file.  Files are checked on *)
(* every call, some or all are immutable, or they are checked once per     *)
(* interval.                                                               *)
(***************************************************************************)
EXTENDS IncludeCache

MCModes ==
  [windowed : {FALSE}, root : {{}, {"main"}, Files}, clears : {1}] \cup
  [windowed : {TRUE}, root : {{}}, clears : {0}]
=============================================================================
