---------------------------- MODULE MCProposals -----------------------------
(* Small instances of Proposals.                                            *)
EXTENDS Proposals, TLC

CONSTANTS s1, s2, s3, p1, p2, e1

Symmetry == Permutations(Slots) \cup Permutations(Props)
=============================================================================
