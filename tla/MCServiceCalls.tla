--------------------------- MODULE MCServiceCalls ---------------------------
(* Small instances of ServiceCalls.                                          *)
EXTENDS ServiceCalls, TLC

Symmetry == Permutations(Task) \cup Permutations(Lock)
=============================================================================
