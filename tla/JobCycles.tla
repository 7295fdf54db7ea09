----------------------------- MODULE JobCycles ------------------------------
(***************************************************************************)
(* What the scheduler promises of a job, without saying how: a job is      *)
(* armed for an instant (a cycle), succeeds at most once for it, and is    *)
(* then rearmed for a later one or retired for good (ADR-0002 section 3    *)
(* and Neutral 3).  A fault may make one success happen again, no more.    *)
(***************************************************************************)
EXTENDS Naturals

CONSTANT Jobs

VARIABLES
    status,   \* "absent", "armed" or "retired"
    cycle,    \* the instant the job is armed for
    settled,  \* the <<job, cycle>> pairs that have succeeded
    repeats,  \* how many successes repeated an earlier one
    faulty    \* how many faults there have been

cycleVars == <<status, cycle, settled, repeats, faulty>>

(* j's cycle becomes an instant that its rule chooses; other jobs keep theirs. *)
MoveCycle(j) ==
    /\ cycle' \in [Jobs -> Nat]
    /\ \A k \in Jobs \ {j} : cycle'[k] = cycle[k]

CyclesInit ==
    /\ status = [j \in Jobs |-> "absent"]
    /\ cycle = [j \in Jobs |-> 0]
    /\ settled = {}
    /\ repeats = 0
    /\ faulty = 0

Arm(j) ==
    /\ status[j] = "absent"
    /\ status' = [status EXCEPT ![j] = "armed"]
    /\ MoveCycle(j)
    /\ UNCHANGED <<settled, repeats, faulty>>

(* The job succeeds for its cycle; a second time only on a fault's account. *)
Settle(j) ==
    /\ status[j] # "absent"
    /\ settled' = settled \cup {<<j, cycle[j]>>}
    /\ \/ <<j, cycle[j]>> \notin settled /\ UNCHANGED repeats
       \/ <<j, cycle[j]>> \in settled /\ repeats < faulty /\ repeats' = repeats + 1
    /\ UNCHANGED <<status, cycle, faulty>>

Rearm(j) ==
    /\ status[j] # "absent"
    /\ MoveCycle(j) /\ cycle'[j] > cycle[j]
    /\ UNCHANGED <<status, settled, repeats, faulty>>

Retire(j) ==
    /\ status[j] = "armed"
    /\ status' = [status EXCEPT ![j] = "retired"]
    /\ UNCHANGED <<cycle, settled, repeats, faulty>>

Fail ==
    /\ faulty' = faulty + 1
    /\ UNCHANGED <<status, cycle, settled, repeats>>

CyclesNext ==
    \/ \E j \in Jobs : Arm(j) \/ Settle(j) \/ Rearm(j) \/ Retire(j)
    \/ Fail

CyclesSpec == CyclesInit /\ [][CyclesNext]_cycleVars
=============================================================================
