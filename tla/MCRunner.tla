------------------------------ MODULE MCRunner ------------------------------
(* A small instance of Runner: a recurring job b with a handler, and a      *)
(* one-shot job u of a kind nobody registered.                              *)
EXTENDS Runner, TLC

CONSTANTS b, u

OccursBU   == [j \in Jobs |-> IF j = b THEN {0, 2} ELSE {0}]
BackoffOne == <<1>>
=============================================================================
