--------------------------- MODULE MCWebSessions ---------------------------
(* Concurrent requests over one id a client made up and two generated ones, *)
(* in a store with room for two sessions: every request may come with or    *)
(* without a cookie, and the third session evicts.                          *)
EXTENDS WebSessions

Symmetry == Permutations(Requests) \cup Permutations(FreshIds)
=============================================================================
