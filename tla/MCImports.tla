----------------------------- MODULE MCImports ------------------------------
(* Small instances of Imports.                                              *)
EXTENDS Imports, TLC

CONSTANTS s1, s2, a1, a2

Symmetry == Permutations(Slots) \cup Permutations(Accounts)
=============================================================================
