-------------------------- MODULE MCReconciliation --------------------------
(* Small instances of Reconciliation.  Every line and transaction is worth  *)
(* one, so each line is a candidate for each transaction.                   *)
EXTENDS Reconciliation, TLC

CONSTANTS s1, s2, l1, t1, t2

UnitWorth     == [x \in Lines \cup Tx |-> 1]
AllCandidates == Lines \X Tx
OneSpan       == {Tx}

Symmetry == Permutations(Slots)
=============================================================================
