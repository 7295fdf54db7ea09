------------------------------ MODULE MCLedger ------------------------------
(* Small instances of SerialLedger.  Slots and names are each              *)
(* interchangeable: nothing orders them, and no liveness is checked.        *)
EXTENDS SerialLedger, TLC

CONSTANTS r1, r2, p1, d1, redacted

Symmetry ==
    Permutations(Slots) \cup Permutations(Periods) \cup Permutations(Names)
=============================================================================
