------------------------------ MODULE MCAiGate ------------------------------
(* Small instances of AiGate.                                               *)
EXTENDS AiGate, TLC

CONSTANTS c1, c2, w1, u1

=============================================================================
