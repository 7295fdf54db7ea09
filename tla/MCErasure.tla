----------------------------- MODULE MCErasure ------------------------------
(* Small instances of Erasure.                                              *)
EXTENDS Erasure, TLC

CONSTANTS h1, h2, c1, r1, r2
=============================================================================
