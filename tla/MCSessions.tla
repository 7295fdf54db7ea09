----------------------------- MODULE MCSessions -----------------------------
(* A small instance of Sessions.  Nothing orders the ids of a set, and no   *)
(* liveness is checked: the sets are interchangeable in themselves.         *)
EXTENDS Sessions, TLC

(* Bound: overlapping commands meet one challenge, and go no further once   *)
(* every session id has been given out.                                     *)
SmallWhenOverlapping ==
    overlap => /\ \E j \in Challenges : challenge[j] = "free"
               /\ \E n \in SessionIds : Fresh(n)

Symmetry ==
    Permutations(Clients) \cup Permutations(SessionIds) \cup Permutations(Challenges)
    \cup Permutations(Codes) \cup Permutations(Secrets)
=============================================================================
