------------------------ MODULE MCNativeCompileCache ------------------------
(* Three request threads and the background optimizer, four keys.          *)
EXTENDS NativeCompileCache

Symmetry == Permutations(Threads \ Background) \cup Permutations(Keys)
=============================================================================
