------------------------------ MODULE MCPools -------------------------------
(* Small instances of Pools.                                                *)
EXTENDS Pools, TLC

CONSTANTS s1, s2, p1, p2

(* A rule that fills up to 1, and one that takes all of the income.         *)
FillAndPercent == {[kind |-> "fill", amount |-> 1, own |-> TRUE],
                   [kind |-> "percent", amount |-> 0, own |-> TRUE]}

(* Bound: overlapping requests are of one day and meet one transaction.     *)
SmallWhenOverlapping == overlap => today = 0 /\ Len(shadow) <= 1

Symmetry == Permutations(Slots)
=============================================================================
