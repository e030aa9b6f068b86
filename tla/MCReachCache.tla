---------------------------- MODULE MCReachCache ----------------------------
(* Small instances of ReachCache.                                            *)
EXTENDS ReachCache, TLC

Symmetry == Permutations(Writer) \cup Permutations(Reader) \cup Permutations(List)
=============================================================================
