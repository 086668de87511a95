--------------------------- MODULE MCCodeManager ---------------------------
(* One function with optimized code and two variants of its generic code,   *)
(* as for callers before and after a declaration.  Any two pieces of code   *)
(* reach the limit of two.                                                  *)
EXTENDS CodeManager

MCKeys == {"before", "after", "optimized"}
MCRoot == [k \in MCKeys |-> "f"]
MCEntries == [k \in MCKeys |-> {"f"}]
MCTier == [k \in MCKeys |-> IF k = "optimized" THEN "optimizing" ELSE "generic"]
MCMode == [k \in MCKeys |-> IF k = "optimized" THEN "quality" ELSE "fast"]
MCSize == [k \in MCKeys |-> IF k = "optimized" THEN 2 ELSE 1]
=============================================================================
