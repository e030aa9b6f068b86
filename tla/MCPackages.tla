----------------------------- MODULE MCPackages -----------------------------
(* Small instances of Packages.                                             *)
EXTENDS Packages, TLC
Symmetry == Permutations(Worker)
=============================================================================
