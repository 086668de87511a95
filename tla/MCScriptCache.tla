--------------------------- MODULE MCScriptCache ---------------------------
(* An instance of ScriptCache.  Requests and files are interchangeable, but *)
(* a liveness property is checked, so no symmetry is declared.              *)
EXTENDS ScriptCache
=============================================================================
