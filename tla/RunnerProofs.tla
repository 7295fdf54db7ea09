---------------------------- MODULE RunnerProofs ----------------------------
(***************************************************************************)
(* Theorems about Runner for every set of jobs, every series, every        *)
(* backoff table and every number of faults.                               *)
(***************************************************************************)
EXTENDS Runner, FiniteSetTheorems, TLAPS

(* The coroutine is inside one dispatch: the last row of runs is its own. *)
InFlight == pc \in {"started", "returned", "raised", "completed"}

(* What the dispatch in progress knows of its row. *)
DispatchInv ==
    InFlight => /\ Len(runs) > 0
                /\ runs[this].job = cur
                /\ cur \notin due

TypeInv == TypeOK /\ DispatchInv

-----------------------------------------------------------------------------

(* The rows counted as prior failures are finitely many. *)
LEMMA FailedRunsFinite ==
    ASSUME TypeOK, NEW j \in Jobs
    PROVE  Cardinality(FailedRuns(j)) \in Nat
<1>1. DOMAIN runs = 1 .. Len(runs) /\ Len(runs) \in Nat
  BY DEF TypeOK
<1>2. IsFiniteSet(DOMAIN runs)
  BY <1>1, FS_Interval
<1>3. FailedRuns(j) \subseteq DOMAIN runs
  BY DEF FailedRuns
<1> QED
  BY <1>2, <1>3, FS_Subset, FS_CardinalityType

(* Replacing an element of a sequence keeps the others and the length. *)
LEMMA ReplaceInSeq ==
    ASSUME NEW S, NEW q \in Seq(S), NEW i \in DOMAIN q, NEW e \in S
    PROVE  /\ [q EXCEPT ![i] = e] \in Seq(S)
           /\ Len([q EXCEPT ![i] = e]) = Len(q)
           /\ DOMAIN [q EXCEPT ![i] = e] = DOMAIN q
OBVIOUS

(* Appending an element leaves the others in place. *)
LEMMA AppendToSeq ==
    ASSUME NEW S, NEW q \in Seq(S), NEW e \in S
    PROVE  /\ Append(q, e) \in Seq(S)
           /\ Len(q) \in Nat
           /\ Len(Append(q, e)) = Len(q) + 1
           /\ DOMAIN Append(q, e) = DOMAIN q \cup {Len(q) + 1}
           /\ Len(q) + 1 \notin DOMAIN q
           /\ Append(q, e)[Len(q) + 1] = e
           /\ \A i \in DOMAIN q : i < Len(q) + 1 /\ Append(q, e)[i] = q[i]
OBVIOUS

(* The fields of a row. *)
LEMMA RowTypes ==
    ASSUME TypeOK
    PROVE  \A i \in DOMAIN runs :
              runs[i] \in Run /\ runs[i].job \in Jobs /\ runs[i].cycle \in Nat
<1>1. \A i \in DOMAIN runs : runs[i] \in Run BY DEF TypeOK
<1> QED BY <1>1 DEF Run

(* A row as Mark leaves it. *)
Marked(i, s, r) == [runs[i] EXCEPT !.status = s, !.retry = r, !.ended = now]

(* Updating a row in place keeps every other row and the length. *)
LEMMA MarkRow ==
    ASSUME TypeOK, NEW i \in DOMAIN runs, NEW s \in Status, NEW r \in Nat,
           Mark(i, s, r)
    PROVE  /\ runs' \in Seq(Run)
           /\ Len(runs') = Len(runs)
           /\ DOMAIN runs' = DOMAIN runs
           /\ runs'[i] = Marked(i, s, r)
           /\ \A k \in DOMAIN runs : k # i => runs'[k] = runs[k]
<1> DEFINE e == Marked(i, s, r)
<1>1. runs \in Seq(Run) BY DEF TypeOK
<1>2. runs[i] \in Run BY <1>1
<1>3. e \in Run BY <1>2 DEF Run, TypeOK, Marked
<1>4. runs' = [runs EXCEPT ![i] = e] BY DEF Mark, Marked
<1> HIDE DEF e
<1>5. /\ runs' \in Seq(Run)
      /\ Len(runs') = Len(runs)
      /\ DOMAIN runs' = DOMAIN runs
  BY <1>1, <1>3, <1>4, ReplaceInSeq
<1>6. runs'[i] = e /\ \A k \in DOMAIN runs : k # i => runs'[k] = runs[k]
  BY <1>1, <1>4
<1> QED BY <1>5, <1>6 DEF e

(* _advance_after_success deactivates the job or moves it past doneAt. *)
LEMMA AdvanceEffect ==
    ASSUME TypeOK, AdvanceAfterSuccess
    PROVE  /\ \/ row' = [row EXCEPT ![cur] = "inactive"] /\ nextRun' = nextRun
              \/ /\ row' = row
                 /\ \E t \in Nat : t > doneAt /\ nextRun' = [nextRun EXCEPT ![cur] = t]
           /\ nextRun' \in [Jobs -> Nat]
           /\ row' \in [Jobs -> {"absent", "active", "inactive", "erased"}]
<1>1. Occurs[cur] \subseteq Nat BY RunnerAssumption DEF TypeOK
<1>2. CASE cur \in OneShot \/ Later(cur, doneAt) = {}
  BY <1>2 DEF AdvanceAfterSuccess, TypeOK
<1>3. CASE ~ (cur \in OneShot \/ Later(cur, doneAt) = {})
  <2>1. PICK o \in Later(cur, doneAt) : nextRun' = [nextRun EXCEPT ![cur] = o]
    BY <1>3 DEF AdvanceAfterSuccess
  <2>2. o \in Nat /\ o > doneAt BY <1>1, <2>1 DEF Later
  <2> QED BY <1>3, <2>1, <2>2 DEF AdvanceAfterSuccess, TypeOK
<1> QED BY <1>2, <1>3

(* _on_failure dead-letters and deactivates, or reschedules past now. *)
LEMMA FailureEffect ==
    ASSUME TypeOK, OnFailure
    PROVE  LET n == Cardinality(FailedRuns(cur)) IN
           /\ n \in Nat
           /\ \/ /\ n >= MaxRetries /\ Mark(this, "dead_letter", n)
                 /\ row' = [row EXCEPT ![cur] = "inactive"] /\ nextRun' = nextRun
              \/ /\ n < MaxRetries /\ Mark(this, "failed", n)
                 /\ row' = row
                 /\ \E t \in Nat : t > now /\ nextRun' = [nextRun EXCEPT ![cur] = t]
           /\ nextRun' \in [Jobs -> Nat]
           /\ row' \in [Jobs -> {"absent", "active", "inactive", "erased"}]
<1> DEFINE n == Cardinality(FailedRuns(cur))
           t == now + Backoff[n + 1]
<1>1. n \in Nat BY FailedRunsFinite DEF TypeOK
<1>2. MaxRetries \in Nat BY RunnerAssumption DEF MaxRetries
<1>3. CASE n >= MaxRetries
  BY <1>1, <1>3 DEF OnFailure, PriorFailures, TypeOK
<1>4. CASE ~ (n >= MaxRetries)
  <2>1. n + 1 \in DOMAIN Backoff
    BY <1>1, <1>2, <1>4, RunnerAssumption DEF MaxRetries
  <2>2. t \in Nat /\ t > now
    BY <2>1, RunnerAssumption DEF TypeOK
  <2>3. /\ Mark(this, "failed", n) /\ row' = row
        /\ nextRun' = [nextRun EXCEPT ![cur] = t]
    BY <1>4 DEF OnFailure, PriorFailures
  <2>4. n < MaxRetries BY <1>1, <1>2, <1>4
  <2> HIDE DEF n, t
  <2>5. nextRun' \in [Jobs -> Nat] BY <2>2, <2>3 DEF TypeOK
  <2> QED BY <1>1, <2>2, <2>3, <2>4, <2>5 DEF TypeOK, n
<1> QED BY <1>3, <1>4

LEMMA InitTypeInv == Init => TypeInv
<1> SUFFICES ASSUME Init PROVE TypeInv
  OBVIOUS
<1>1. runs \in Seq(Run) BY DEF Init
<1> QED
  BY <1>1, RunnerAssumption DEF Init, TypeInv, TypeOK, DispatchInv, InFlight, Pc

LEMMA NextTypeInv == TypeInv /\ [Next]_vars => TypeInv'
<1> SUFFICES ASSUME TypeInv, [Next]_vars PROVE TypeInv'
  OBVIOUS
<1> USE RunnerAssumption DEF TypeInv, TypeOK, DispatchInv, InFlight, Pc,
        tableVars, pollVars, this
<1>1. CASE Tick BY <1>1 DEF Tick
<1>2. ASSUME NEW j \in Jobs, Schedule(j) PROVE TypeInv' BY <1>2 DEF Schedule, IsFirst
<1>3. ASSUME NEW j \in Jobs, Cancel(j) PROVE TypeInv' BY <1>3 DEF Cancel
<1>4. ASSUME NEW j \in Jobs, Erase(j) PROVE TypeInv' BY <1>4 DEF Erase
<1>5. CASE Wake BY <1>5 DEF Wake
<1>6. CASE RunDue BY <1>6 DEF RunDue
<1>7. CASE RequestShutdown BY <1>7 DEF RequestShutdown
<1>8. CASE Stop BY <1>8 DEF Stop
<1>9. CASE FetchDue BY <1>9 DEF FetchDue, IsDue
<1>10. CASE EndBatch BY <1>10 DEF EndBatch
<1>11. ASSUME NEW j \in Jobs, DispatchUnhandled(j) PROVE TypeInv'
  BY <1>11 DEF DispatchUnhandled
<1>12. ASSUME NEW j \in Jobs, RecordStart(j) PROVE TypeInv'
  <2> DEFINE r == [job |-> j, cycle |-> nextRun[j], status |-> "running",
                   retry |-> 0, ended |-> 0, effect |-> FALSE]
  <2>1. r \in Run BY DEF Run, Status
  <2>2. runs \in Seq(Run) /\ runs' = Append(runs, r)
    BY <1>12 DEF RecordStart
  <2>3. /\ runs' \in Seq(Run) /\ Len(runs') = Len(runs) + 1
        /\ runs'[Len(runs')] = r
    <3> HIDE DEF r
    <3> QED BY <2>1, <2>2
  <2>4. runs'[Len(runs')].job = j BY <2>3
  <2> QED BY <1>12, <2>3, <2>4 DEF RecordStart
<1>13. ASSUME NEW e \in BOOLEAN, HandlerReturns(e) PROVE TypeInv'
  <2> DEFINE r == [runs[this] EXCEPT !.effect = e]
  <2>1. runs \in Seq(Run) /\ this \in DOMAIN runs /\ runs[this] \in Run
    BY <1>13 DEF HandlerReturns
  <2>2. r \in Run /\ r.job = runs[this].job BY <2>1 DEF Run
  <2>3. runs' = [runs EXCEPT ![this] = r] BY <1>13 DEF HandlerReturns
  <2>4. runs' \in Seq(Run) /\ Len(runs') = Len(runs) /\ runs'[this] = r
    <3> HIDE DEF r
    <3> QED BY <2>1, <2>2, <2>3, ReplaceInSeq
  <2> QED BY <1>13, <2>2, <2>4 DEF HandlerReturns
<1>14. CASE HandlerRaises BY <1>14 DEF HandlerRaises
<1>15. CASE RecordCompletion
  <2>1. this \in DOMAIN runs BY <1>15 DEF RecordCompletion
  <2>2. /\ runs' \in Seq(Run) /\ Len(runs') = Len(runs)
        /\ runs'[this] = Marked(this, "success", 0)
    BY <1>15, <2>1, MarkRow DEF RecordCompletion, Status
  <2>3. runs[this] \in Run BY <2>1
  <2>4. runs'[Len(runs')].job = cur BY <1>15, <2>2, <2>3 DEF RecordCompletion, Run, Marked
  <2> QED BY <1>15, <2>2, <2>4 DEF RecordCompletion
<1>16. CASE AdvanceAfterSuccess
  <2>1. nextRun' \in [Jobs -> Nat] /\ row' \in [Jobs -> {"absent", "active", "inactive", "erased"}]
    BY <1>16, AdvanceEffect
  <2>2. lastRun' \in [Jobs -> Nat] BY <1>16 DEF AdvanceAfterSuccess
  <2> QED BY <1>16, <2>1, <2>2 DEF AdvanceAfterSuccess
<1>17. CASE OnFailure
  <2>1. this \in DOMAIN runs BY <1>17 DEF OnFailure
  <2>2. PICK s \in {"failed", "dead_letter"}, r \in Nat : Mark(this, s, r)
    BY <1>17, FailureEffect
  <2>3. runs' \in Seq(Run)
    BY <2>1, <2>2, MarkRow DEF Status
  <2>4. nextRun' \in [Jobs -> Nat] /\ row' \in [Jobs -> {"absent", "active", "inactive", "erased"}]
    BY <1>17, FailureEffect
  <2> QED BY <1>17, <2>3, <2>4 DEF OnFailure
<1>18. CASE RowGone BY <1>18 DEF RowGone, PollFailed
<1>19. CASE DatabaseError BY <1>19 DEF DatabaseError, PollFailed
<1>20. CASE Crash
  <2>1. fired' \in BOOLEAN /\ shutdown' \in BOOLEAN BY <1>20, Zenon DEF Crash
  <2>2. faults' \in Nat BY <1>20 DEF Crash
  <2>3. pc' = "poll" /\ caller' = "loop" /\ due' = {} /\ doneAt' = 0
    BY <1>20 DEF Crash
  <2>4. UNCHANGED <<now, tableVars, cur>> BY <1>20 DEF Crash
  <2> QED BY <2>1, <2>2, <2>3, <2>4
<1>21. CASE UNCHANGED vars BY <1>21 DEF vars
<1> QED
  BY <1>1, <1>2, <1>3, <1>4, <1>5, <1>6, <1>7, <1>8, <1>9, <1>10, <1>11,
     <1>12, <1>13, <1>14, <1>15, <1>16, <1>17, <1>18, <1>19, <1>20, <1>21
     DEF Next, RunOnce

(* Every reachable state of the runner is well-typed. *)
THEOREM TypeCorrect == Spec => []TypeOK
BY InitTypeInv, NextTypeInv, PTL DEF Spec, TypeInv

-----------------------------------------------------------------------------
(***************************************************************************)
(* At most one fire per cycle, and dead letters are final.                 *)
(*                                                                         *)
(* A fired row (a committed effect or a SUCCESS) is either behind the      *)
(* job's next_run_at, or its job cannot be picked up again: it is in no    *)
(* snapshot, and it is inactive or the dispatch that will advance it is    *)
(* still running.  A fault breaks exactly this, hence the guard.           *)
(***************************************************************************)
Fired(i) == runs[i].status = "success" \/ runs[i].effect = TRUE

(* Rows belong to scheduled jobs and are never ahead of them. *)
HistoryInv ==
    \A i \in DOMAIN runs :
        /\ row[runs[i].job] # "absent"
        /\ runs[i].cycle <= nextRun[runs[i].job]

(* What was due when fetched is still due when dispatched. *)
ClockInv ==
    /\ \A j \in due : nextRun[j] <= now /\ row[j] # "absent"
    /\ InFlight => nextRun[cur] <= now /\ row[cur] # "absent"
    /\ pc = "completed" => nextRun[cur] <= doneAt
    /\ doneAt <= now

(* The row of the dispatch in progress. *)
FlightInv ==
    /\ pc \in {"started", "returned", "raised"} =>
          runs[this].status = "running" /\ runs[this].cycle = nextRun[cur]
    /\ pc \in {"started", "raised"} => runs[this].effect = FALSE

Behind(i) == runs[i].cycle < nextRun[runs[i].job]

Closed(i) ==
    /\ runs[i].job \notin due
    /\ pc \in {"started", "raised"} => runs[i].job # cur
    /\ pc \in {"returned", "completed"} /\ runs[i].job = cur => i = this
    /\ \/ row[runs[i].job] # "active"
       \/ pc \in {"returned", "completed"} /\ runs[i].job = cur

SettledInv ==
    faults = 0 => \A i \in DOMAIN runs : Fired(i) => Behind(i) \/ Closed(i)

OneFirePerCycle ==
    faults = 0 =>
        \A i, k \in DOMAIN runs :
            i # k /\ Fired(i) /\ Fired(k) /\ runs[i].job = runs[k].job =>
                runs[i].cycle # runs[k].cycle

DeadInv ==
    \A i \in DOMAIN runs :
        runs[i].status = "dead_letter" =>
            /\ row[runs[i].job] # "active"
            /\ runs[i].job \notin due
            /\ InFlight => runs[i].job # cur
            /\ \A k \in DOMAIN runs : k > i => runs[k].job # runs[i].job

CycleInv ==
    TypeInv /\ HistoryInv /\ ClockInv /\ FlightInv /\ SettledInv
            /\ OneFirePerCycle /\ DeadInv

LEMMA InitCycleInv == Init => CycleInv
<1> SUFFICES ASSUME Init PROVE CycleInv
  OBVIOUS
<1>1. TypeInv BY InitTypeInv
<1>2. runs = <<>> /\ DOMAIN runs = {} BY DEF Init
<1> QED
  BY <1>1, <1>2 DEF Init, CycleInv, HistoryInv, ClockInv, FlightInv, InFlight,
                    SettledInv, OneFirePerCycle, DeadInv

(* An absent job has no run and is in no snapshot. *)
LEMMA ScheduleCycleInv ==
    ASSUME CycleInv, TypeInv', NEW j \in Jobs, Schedule(j)
    PROVE  CycleInv'
<1>1. /\ TypeOK /\ HistoryInv /\ ClockInv /\ FlightInv /\ SettledInv
      /\ OneFirePerCycle /\ DeadInv
  BY DEF CycleInv, TypeInv
<1>2. \A i \in DOMAIN runs : runs[i].job \in Jobs /\ runs[i].job # j
  BY <1>1, RowTypes DEF HistoryInv, Schedule
<1>3. /\ \A k \in Jobs \ {j} : nextRun'[k] = nextRun[k] /\ row'[k] = row[k]
      /\ cur \in Jobs /\ due \subseteq Jobs
  BY <1>1 DEF Schedule, TypeOK
<1>4. j \notin due /\ (InFlight => cur # j)
  BY <1>1 DEF ClockInv, Schedule
<1>5. UNCHANGED <<now, runs, pc, due, cur, doneAt, faults>>
  BY DEF Schedule, pollVars
<1>6. HistoryInv' BY <1>1, <1>2, <1>3, <1>5 DEF HistoryInv
<1>7. ClockInv' BY <1>1, <1>3, <1>4, <1>5 DEF ClockInv, InFlight
<1>8. FlightInv' BY <1>1, <1>3, <1>4, <1>5 DEF FlightInv, InFlight, this
<1>9. SettledInv'
  BY <1>1, <1>2, <1>3, <1>5 DEF SettledInv, Fired, Behind, Closed, this
<1>10. OneFirePerCycle' BY <1>1, <1>5 DEF OneFirePerCycle, Fired
<1>11. DeadInv' BY <1>1, <1>2, <1>3, <1>5 DEF DeadInv, InFlight
<1> QED BY <1>6, <1>7, <1>8, <1>9, <1>10, <1>11 DEF CycleInv

(* The new row is for a job of the snapshot: none of its rows is dead, and  *)
(* all its fired rows are behind next_run_at.                               *)
LEMMA StartCycleInv ==
    ASSUME CycleInv, TypeInv', NEW j \in Jobs, RecordStart(j)
    PROVE  CycleInv'
<1> DEFINE n == Len(runs) + 1
           r == [job |-> j, cycle |-> nextRun[j], status |-> "running",
                 retry |-> 0, ended |-> 0, effect |-> FALSE]
<1>1. /\ TypeOK /\ HistoryInv /\ ClockInv /\ FlightInv /\ SettledInv
      /\ OneFirePerCycle /\ DeadInv
  BY DEF CycleInv, TypeInv
<1>2. runs \in Seq(Run) /\ r \in Run
  BY <1>1 DEF TypeOK, Run, Status
<1>3. runs' = Append(runs, r) BY DEF RecordStart
<1> HIDE DEF r
<1>4. /\ Len(runs') = n /\ n \in Nat /\ DOMAIN runs' = DOMAIN runs \cup {n}
      /\ n \notin DOMAIN runs
      /\ \A i \in DOMAIN runs : i < n /\ runs'[i] = runs[i]
      /\ runs'[n] = r
  BY <1>2, <1>3, AppendToSeq
<1>5. /\ runs'[n].job = j /\ runs'[n].cycle = nextRun[j]
      /\ runs'[n].status = "running" /\ runs'[n].effect = FALSE
  BY <1>4 DEF r
<1>6. /\ UNCHANGED <<now, row, nextRun, doneAt, faults>>
      /\ pc = "batch" /\ pc' = "started" /\ cur' = j /\ j \in due /\ due' = due \ {j}
  BY DEF RecordStart
<1> HIDE DEF n
<1>7. nextRun[j] \in Nat /\ nextRun[j] <= now /\ row[j] # "absent"
  BY <1>1, <1>6 DEF ClockInv, TypeOK
<1>8. HistoryInv'
  <2> SUFFICES ASSUME NEW i \in DOMAIN runs'
               PROVE  /\ row'[runs'[i].job] # "absent"
                      /\ runs'[i].cycle <= nextRun'[runs'[i].job]
    BY DEF HistoryInv
  <2>1. CASE i = n BY <1>5, <1>6, <1>7, <2>1
  <2>2. CASE i \in DOMAIN runs BY <1>1, <1>4, <1>6, <2>2 DEF HistoryInv
  <2> QED BY <1>4, <2>1, <2>2
<1>9. ClockInv' BY <1>1, <1>6, <1>7 DEF ClockInv, InFlight
<1>10. FlightInv' BY <1>4, <1>5, <1>6 DEF FlightInv, this
<1>11. SettledInv'
  <2> SUFFICES ASSUME faults = 0, NEW i \in DOMAIN runs', Fired(i)'
               PROVE  Behind(i)' \/ Closed(i)'
    BY <1>6 DEF SettledInv
  <2>1. i \in DOMAIN runs /\ runs'[i] = runs[i] /\ Fired(i)
    BY <1>4, <1>5 DEF Fired
  <2> QED BY <1>1, <1>6, <2>1 DEF SettledInv, Behind, Closed
<1>12. OneFirePerCycle'
  <2>1. ASSUME NEW i \in DOMAIN runs', Fired(i)'
        PROVE  i \in DOMAIN runs /\ runs'[i] = runs[i] /\ Fired(i)
    BY <1>4, <1>5, <2>1 DEF Fired
  <2> QED BY <1>1, <1>6, <2>1 DEF OneFirePerCycle
<1>13. DeadInv'
  <2> SUFFICES ASSUME NEW i \in DOMAIN runs', runs'[i].status = "dead_letter"
               PROVE  /\ row'[runs'[i].job] # "active" /\ runs'[i].job \notin due'
                      /\ runs'[i].job # cur'
                      /\ \A k \in DOMAIN runs' : k > i => runs'[k].job # runs'[i].job
    BY DEF DeadInv
  <2>1. i \in DOMAIN runs /\ runs'[i] = runs[i] BY <1>4, <1>5
  <2> QED BY <1>1, <1>4, <1>5, <1>6, <2>1 DEF DeadInv
<1> QED BY <1>8, <1>9, <1>10, <1>11, <1>12, <1>13 DEF CycleInv

(* An update of the row in flight that keeps its job and its cycle keeps    *)
(* fired rows of one job in different cycles: the others are behind.        *)
LEMMA UpdateOneFire ==
    ASSUME CycleInv, pc \in {"started", "returned", "raised"},
           faults' = faults, DOMAIN runs' = DOMAIN runs,
           \A i \in DOMAIN runs : i # this => runs'[i] = runs[i],
           runs'[this].job = runs[this].job, runs'[this].cycle = runs[this].cycle
    PROVE  /\ \A i \in DOMAIN runs :
                 /\ runs'[i].job = runs[i].job /\ runs'[i].cycle = runs[i].cycle
                 /\ i # this => (Fired(i)' <=> Fired(i))
           /\ faults = 0 =>
                 \A i \in DOMAIN runs :
                    Fired(i) /\ i # this /\ runs[i].job = cur =>
                        runs[i].cycle < nextRun[cur]
           /\ OneFirePerCycle'
<1>1. TypeOK /\ DispatchInv /\ FlightInv /\ SettledInv /\ OneFirePerCycle
  BY DEF CycleInv, TypeInv
<1>2. runs[this].job = cur /\ runs[this].cycle = nextRun[cur] /\ nextRun[cur] \in Nat
  BY <1>1 DEF DispatchInv, FlightInv, InFlight, TypeOK
<1>3. \A i \in DOMAIN runs :
         /\ runs'[i].job = runs[i].job /\ runs'[i].cycle = runs[i].cycle
         /\ i # this => (Fired(i)' <=> Fired(i))
  BY DEF Fired
<1>4. faults = 0 =>
         \A i \in DOMAIN runs :
            Fired(i) /\ i # this /\ runs[i].job = cur =>
                runs[i].cycle < nextRun[cur]
  BY <1>1 DEF SettledInv, Behind, Closed
<1>5. OneFirePerCycle'
  <2> SUFFICES ASSUME faults = 0, NEW i \in DOMAIN runs, NEW k \in DOMAIN runs,
                      i # k, Fired(i)', Fired(k)', runs[i].job = runs[k].job
               PROVE  runs[i].cycle # runs[k].cycle
    BY <1>3 DEF OneFirePerCycle
  <2>1. runs[i].cycle \in Nat /\ runs[k].cycle \in Nat BY <1>1, RowTypes
  <2>2. CASE i = this BY <1>2, <1>3, <1>4, <2>1, <2>2
  <2>3. CASE k = this BY <1>2, <1>3, <1>4, <2>1, <2>3
  <2>4. CASE i # this /\ k # this BY <1>1, <1>3, <2>4 DEF OneFirePerCycle
  <2> QED BY <2>2, <2>3, <2>4
<1> QED BY <1>3, <1>4, <1>5

(* The handler's commit marks the row in flight. *)
LEMMA ReturnCycleInv ==
    ASSUME CycleInv, TypeInv', NEW e \in BOOLEAN, HandlerReturns(e)
    PROVE  CycleInv'
<1> DEFINE r == [runs[this] EXCEPT !.effect = e]
<1>1. /\ TypeOK /\ DispatchInv /\ HistoryInv /\ ClockInv /\ FlightInv
      /\ SettledInv /\ DeadInv
  BY DEF CycleInv, TypeInv
<1>2. /\ UNCHANGED <<now, row, nextRun, due, cur, doneAt, faults>>
      /\ pc = "started" /\ pc' = "returned"
  BY DEF HandlerReturns
<1>3. /\ runs \in Seq(Run) /\ this \in DOMAIN runs /\ runs[this].job = cur
      /\ cur \notin due
  BY <1>1, <1>2 DEF TypeOK, DispatchInv, InFlight, this
<1>4. runs[this] \in Run BY <1>1, <1>3, RowTypes
<1>5. /\ r \in Run /\ r.job = runs[this].job /\ r.cycle = runs[this].cycle
      /\ r.status = runs[this].status
  BY <1>4 DEF Run
<1>6. runs' = [runs EXCEPT ![this] = r] BY DEF HandlerReturns
<1> HIDE DEF r
<1>7. /\ DOMAIN runs' = DOMAIN runs /\ Len(runs') = Len(runs) /\ runs'[this] = r
      /\ \A i \in DOMAIN runs : i # this => runs'[i] = runs[i]
  BY <1>3, <1>5, <1>6, ReplaceInSeq
<1>8. /\ \A i \in DOMAIN runs :
            /\ runs'[i].job = runs[i].job /\ runs'[i].cycle = runs[i].cycle
            /\ i # this => (Fired(i)' <=> Fired(i))
      /\ faults = 0 =>
            \A i \in DOMAIN runs :
               Fired(i) /\ i # this /\ runs[i].job = cur =>
                   runs[i].cycle < nextRun[cur]
      /\ OneFirePerCycle'
  BY <1>2, <1>5, <1>7, UpdateOneFire
<1>9. \A i \in DOMAIN runs : runs'[i].status = runs[i].status
  BY <1>5, <1>7
<1>10. HistoryInv' BY <1>1, <1>2, <1>7, <1>8 DEF HistoryInv
<1>11. ClockInv' BY <1>1, <1>2 DEF ClockInv, InFlight
<1>12. FlightInv' BY <1>1, <1>2, <1>3, <1>7, <1>8, <1>9 DEF FlightInv, this
<1>13. SettledInv'
  <2> SUFFICES ASSUME faults = 0, NEW i \in DOMAIN runs, Fired(i)'
               PROVE  Behind(i)' \/ Closed(i)'
    BY <1>2, <1>7 DEF SettledInv
  <2>1. CASE i = this BY <1>2, <1>3, <1>7, <1>8, <2>1 DEF Closed, this
  <2>2. CASE i # this
    BY <1>1, <1>2, <1>7, <1>8, <2>2 DEF SettledInv, Behind, Closed, this
  <2> QED BY <2>1, <2>2
<1>14. DeadInv' BY <1>1, <1>2, <1>7, <1>8, <1>9 DEF DeadInv, InFlight
<1> QED BY <1>8, <1>10, <1>11, <1>12, <1>13, <1>14 DEF CycleInv

(* The row in flight becomes a success of the current cycle. *)
LEMMA CompletionCycleInv ==
    ASSUME CycleInv, TypeInv', RecordCompletion
    PROVE  CycleInv'
<1>1. /\ TypeOK /\ DispatchInv /\ HistoryInv /\ ClockInv /\ FlightInv
      /\ SettledInv /\ DeadInv
  BY DEF CycleInv, TypeInv
<1>2. /\ UNCHANGED <<now, row, nextRun, due, cur, faults>>
      /\ pc = "returned" /\ pc' = "completed" /\ doneAt' = now
      /\ Mark(this, "success", 0)
  BY DEF RecordCompletion
<1>3. /\ this \in DOMAIN runs /\ runs[this].job = cur /\ cur \notin due
      /\ now \in Nat
  BY <1>1, <1>2 DEF TypeOK, DispatchInv, InFlight, this
<1>4. /\ DOMAIN runs' = DOMAIN runs /\ Len(runs') = Len(runs)
      /\ runs'[this] = Marked(this, "success", 0)
      /\ \A i \in DOMAIN runs : i # this => runs'[i] = runs[i]
  BY <1>1, <1>2, <1>3, MarkRow DEF Status
<1>5. /\ runs'[this].job = runs[this].job /\ runs'[this].cycle = runs[this].cycle
      /\ runs'[this].status = "success"
  BY <1>1, <1>3, <1>4, RowTypes DEF Run, Marked
<1>6. /\ \A i \in DOMAIN runs :
            /\ runs'[i].job = runs[i].job /\ runs'[i].cycle = runs[i].cycle
            /\ i # this => (Fired(i)' <=> Fired(i))
      /\ faults = 0 =>
            \A i \in DOMAIN runs :
               Fired(i) /\ i # this /\ runs[i].job = cur =>
                   runs[i].cycle < nextRun[cur]
      /\ OneFirePerCycle'
  BY <1>2, <1>4, <1>5, UpdateOneFire
<1>7. HistoryInv' BY <1>1, <1>2, <1>4, <1>6 DEF HistoryInv
<1>8. ClockInv' BY <1>1, <1>2, <1>3 DEF ClockInv, InFlight
<1>9. FlightInv' BY <1>2 DEF FlightInv
<1>10. SettledInv'
  <2> SUFFICES ASSUME faults = 0, NEW i \in DOMAIN runs, Fired(i)'
               PROVE  Behind(i)' \/ Closed(i)'
    BY <1>2, <1>4 DEF SettledInv
  <2>1. CASE i = this BY <1>2, <1>3, <1>4, <1>6, <2>1 DEF Closed, this
  <2>2. CASE i # this
    BY <1>1, <1>2, <1>4, <1>6, <2>2 DEF SettledInv, Behind, Closed, this
  <2> QED BY <2>1, <2>2
<1>11. DeadInv'
  <2>1. \A i \in DOMAIN runs : runs'[i].status = "dead_letter" =>
                                 runs[i].status = "dead_letter"
    BY <1>4, <1>5
  <2> QED BY <1>1, <1>2, <1>4, <1>6, <2>1 DEF DeadInv, InFlight
<1> QED BY <1>6, <1>7, <1>8, <1>9, <1>10, <1>11 DEF CycleInv

(* The job moves past doneAt, hence past every cycle it fired for, or is    *)
(* deactivated.                                                             *)
LEMMA AdvanceCycleInv ==
    ASSUME CycleInv, TypeInv', AdvanceAfterSuccess
    PROVE  CycleInv'
<1>1. /\ TypeOK /\ DispatchInv /\ HistoryInv /\ ClockInv /\ FlightInv
      /\ SettledInv /\ OneFirePerCycle /\ DeadInv
  BY DEF CycleInv, TypeInv
<1>2. /\ UNCHANGED <<now, runs, due, cur, faults>> /\ pc = "completed"
      /\ pc' = "batch" /\ doneAt' = 0
  BY DEF AdvanceAfterSuccess
<1>3. /\ cur \in Jobs /\ cur \notin due /\ now \in Nat /\ doneAt \in Nat
      /\ due \subseteq Jobs /\ row[cur] # "absent"
      /\ nextRun[cur] <= doneAt /\ nextRun \in [Jobs -> Nat]
      /\ DOMAIN row = Jobs
  BY <1>1, <1>2 DEF TypeOK, DispatchInv, InFlight, ClockInv
<1>4. \A j \in Jobs : j # cur => nextRun'[j] = nextRun[j] /\ row'[j] = row[j]
  BY <1>1, <1>3, AdvanceEffect DEF TypeOK
<1>5. \/ row'[cur] = "inactive" /\ nextRun'[cur] = nextRun[cur]
      \/ nextRun'[cur] > doneAt /\ nextRun'[cur] \in Nat /\ row'[cur] = row[cur]
  BY <1>1, <1>3, AdvanceEffect DEF TypeOK
<1>6. \A i \in DOMAIN runs : runs[i].job \in Jobs /\ runs[i].cycle \in Nat
  BY <1>1, RowTypes
<1>7. HistoryInv' BY <1>1, <1>2, <1>3, <1>4, <1>5, <1>6 DEF HistoryInv
<1>8. ClockInv' BY <1>1, <1>2, <1>3, <1>4 DEF ClockInv, InFlight
<1>9. FlightInv' BY <1>2 DEF FlightInv
<1>10. SettledInv'
  <2> SUFFICES ASSUME faults = 0, NEW i \in DOMAIN runs, Fired(i)
               PROVE  Behind(i)' \/ Closed(i)'
    BY <1>2 DEF SettledInv, Fired
  <2>1. CASE runs[i].job = cur
    <3>1. runs[i].cycle <= nextRun[cur] BY <1>1, <2>1 DEF HistoryInv
    <3>2. CASE row'[cur] = "inactive"
      BY <1>2, <1>3, <2>1, <3>2 DEF Closed
    <3>3. CASE nextRun'[cur] > doneAt /\ nextRun'[cur] \in Nat
      BY <1>2, <1>3, <1>6, <2>1, <3>1, <3>3 DEF Behind
    <3> QED BY <1>5, <3>2, <3>3
  <2>2. CASE runs[i].job # cur
    BY <1>1, <1>2, <1>4, <1>6, <2>2 DEF SettledInv, Behind, Closed
  <2> QED BY <2>1, <2>2
<1>11. OneFirePerCycle' BY <1>1, <1>2 DEF OneFirePerCycle, Fired
<1>12. DeadInv' BY <1>1, <1>2, <1>4, <1>6 DEF DeadInv, InFlight
<1> QED BY <1>7, <1>8, <1>9, <1>10, <1>11, <1>12 DEF CycleInv

(* A failed dispatch moves its job past now, or dead-letters it: its row is *)
(* then the last one of a job that is inactive and in no snapshot.          *)
LEMMA FailureCycleInv ==
    ASSUME CycleInv, TypeInv', OnFailure
    PROVE  CycleInv'
<1>1. /\ TypeOK /\ DispatchInv /\ HistoryInv /\ ClockInv /\ FlightInv
      /\ SettledInv /\ DeadInv
  BY DEF CycleInv, TypeInv
<1>2. /\ UNCHANGED <<now, due, cur, doneAt, faults>>
      /\ pc = "raised" /\ pc' = "batch"
  BY DEF OnFailure
<1>3. /\ cur \in Jobs /\ cur \notin due /\ now \in Nat
      /\ due \subseteq Jobs /\ row[cur] # "absent"
      /\ nextRun[cur] <= now /\ nextRun \in [Jobs -> Nat]
      /\ this \in DOMAIN runs /\ runs[this].job = cur /\ this = Len(runs)
      /\ \A k \in DOMAIN runs : k <= this
  BY <1>1, <1>2 DEF TypeOK, DispatchInv, InFlight, ClockInv, this
<1>4. PICK n \in Nat :
         \/ /\ Mark(this, "dead_letter", n) /\ row'[cur] = "inactive"
            /\ nextRun'[cur] = nextRun[cur]
         \/ /\ Mark(this, "failed", n) /\ row' = row
            /\ nextRun'[cur] > now /\ nextRun'[cur] \in Nat
  BY <1>1, <1>3, FailureEffect DEF TypeOK
<1>5. \A j \in Jobs : j # cur => nextRun'[j] = nextRun[j] /\ row'[j] = row[j]
  BY <1>1, <1>3, FailureEffect DEF TypeOK
<1>6. PICK s \in {"dead_letter", "failed"} :
         /\ Mark(this, s, n)
         /\ s = "dead_letter" => row'[cur] = "inactive"
         /\ row'[cur] # "absent"
         /\ row[cur] # "active" => row'[cur] # "active"
  BY <1>3, <1>4
<1>7. /\ DOMAIN runs' = DOMAIN runs
      /\ runs'[this] = Marked(this, s, n)
      /\ \A i \in DOMAIN runs : i # this => runs'[i] = runs[i]
  <2>1. s \in Status BY DEF Status
  <2>2. Mark(this, s, n) BY <1>6
  <2>3. this \in DOMAIN runs /\ n \in Nat BY <1>3
  <2> QED BY <1>1, <2>1, <2>2, <2>3, MarkRow
<1>8. /\ runs'[this].job = runs[this].job /\ runs'[this].cycle = runs[this].cycle
      /\ runs'[this].status = s /\ runs'[this].effect = runs[this].effect
  BY <1>1, <1>3, <1>7, RowTypes DEF Run, Marked
<1>9. /\ \A i \in DOMAIN runs :
            /\ runs'[i].job = runs[i].job /\ runs'[i].cycle = runs[i].cycle
            /\ i # this => (Fired(i)' <=> Fired(i))
      /\ faults = 0 =>
            \A i \in DOMAIN runs :
               Fired(i) /\ i # this /\ runs[i].job = cur =>
                   runs[i].cycle < nextRun[cur]
      /\ OneFirePerCycle'
  BY <1>2, <1>7, <1>8, UpdateOneFire
<1>10. runs'[this].status # "success" /\ runs'[this].effect = FALSE
  BY <1>1, <1>2, <1>8 DEF FlightInv
<1>11. \A i \in DOMAIN runs : runs[i].job \in Jobs /\ runs[i].cycle \in Nat
  BY <1>1, RowTypes
<1>12. nextRun'[cur] \in Nat /\ nextRun'[cur] >= nextRun[cur]
  BY <1>3, <1>4
<1>13. HistoryInv'
  <2> SUFFICES ASSUME NEW i \in DOMAIN runs
               PROVE  /\ row'[runs[i].job] # "absent"
                      /\ runs[i].cycle <= nextRun'[runs[i].job]
    BY <1>7, <1>9 DEF HistoryInv
  <2>1. runs[i].cycle <= nextRun[runs[i].job] BY <1>1 DEF HistoryInv
  <2>2. CASE runs[i].job = cur BY <1>3, <1>6, <1>11, <1>12, <2>1, <2>2
  <2>3. CASE runs[i].job # cur BY <1>1, <1>5, <1>11, <2>1, <2>3 DEF HistoryInv
  <2> QED BY <2>2, <2>3
<1>14. ClockInv' BY <1>1, <1>2, <1>3, <1>5 DEF ClockInv, InFlight
<1>15. FlightInv' BY <1>2 DEF FlightInv
<1>16. SettledInv'
  <2> SUFFICES ASSUME faults = 0, NEW i \in DOMAIN runs, i # this, Fired(i)
               PROVE  Behind(i)' \/ Closed(i)'
    BY <1>2, <1>7, <1>9, <1>10 DEF SettledInv, Fired
  <2>1. CASE runs[i].job = cur
    BY <1>3, <1>9, <1>11, <1>12, <2>1 DEF Behind
  <2>2. CASE runs[i].job # cur
    BY <1>1, <1>2, <1>5, <1>9, <1>11, <2>2 DEF SettledInv, Behind, Closed
  <2> QED BY <2>1, <2>2
<1>17. DeadInv'
  <2> SUFFICES ASSUME NEW i \in DOMAIN runs, runs'[i].status = "dead_letter"
               PROVE  /\ row'[runs[i].job] # "active" /\ runs[i].job \notin due
                      /\ \A k \in DOMAIN runs : k > i => runs[k].job # runs[i].job
    BY <1>2, <1>7, <1>9 DEF DeadInv, InFlight
  <2>1. CASE i = this
    BY <1>3, <1>6, <1>8, <2>1
  <2>2. CASE i # this
    BY <1>1, <1>2, <1>3, <1>5, <1>6, <1>7, <1>11, <2>2 DEF DeadInv, InFlight
  <2> QED BY <2>1, <2>2
<1> QED BY <1>9, <1>13, <1>14, <1>15, <1>16, <1>17 DEF CycleInv

(* Every other step leaves the rows alone or is covered by a lemma above. *)
LEMMA NextCycleInv == CycleInv /\ [Next]_vars => CycleInv'
<1> SUFFICES ASSUME CycleInv, [Next]_vars PROVE CycleInv'
  OBVIOUS
<1>0. TypeInv' BY NextTypeInv DEF CycleInv
<1> USE <1>0, RunnerAssumption DEF CycleInv, TypeInv, TypeOK, DispatchInv, InFlight,
        tableVars, pollVars, this, HistoryInv, ClockInv, FlightInv, SettledInv,
        OneFirePerCycle, DeadInv, Fired, Behind, Closed
<1>1. CASE Tick BY <1>1 DEF Tick
<1>2. ASSUME NEW j \in Jobs, Schedule(j) PROVE CycleInv'
  BY <1>2, ScheduleCycleInv
<1>3. ASSUME NEW j \in Jobs, Cancel(j) PROVE CycleInv' BY <1>3 DEF Cancel
<1>4. ASSUME NEW j \in Jobs, Erase(j) PROVE CycleInv' BY <1>4 DEF Erase, Present
<1>5. CASE Wake BY <1>5 DEF Wake
<1>6. CASE RunDue BY <1>6 DEF RunDue
<1>7. CASE RequestShutdown BY <1>7 DEF RequestShutdown
<1>8. CASE Stop BY <1>8 DEF Stop
<1>9. CASE FetchDue BY <1>9 DEF FetchDue, IsDue
<1>10. CASE EndBatch BY <1>10 DEF EndBatch
<1>11. ASSUME NEW j \in Jobs, DispatchUnhandled(j) PROVE CycleInv'
  BY <1>11 DEF DispatchUnhandled
<1>12. ASSUME NEW j \in Jobs, RecordStart(j) PROVE CycleInv'
  BY <1>12, StartCycleInv
<1>13. ASSUME NEW e \in BOOLEAN, HandlerReturns(e) PROVE CycleInv'
  BY <1>13, ReturnCycleInv
<1>14. CASE HandlerRaises BY <1>14 DEF HandlerRaises
<1>15. CASE RecordCompletion BY <1>15, CompletionCycleInv
<1>16. CASE AdvanceAfterSuccess BY <1>16, AdvanceCycleInv
<1>17. CASE OnFailure BY <1>17, FailureCycleInv
<1>18. CASE RowGone BY <1>18 DEF RowGone, PollFailed
<1>19. CASE DatabaseError BY <1>19 DEF DatabaseError, PollFailed
<1>20. CASE Crash BY <1>20 DEF Crash
<1>21. CASE UNCHANGED vars BY <1>21 DEF vars
<1> QED
  BY <1>1, <1>2, <1>3, <1>4, <1>5, <1>6, <1>7, <1>8, <1>9, <1>10, <1>11,
     <1>12, <1>13, <1>14, <1>15, <1>16, <1>17, <1>18, <1>19, <1>20, <1>21
     DEF Next, RunOnce

(* ADR-0002, Neutral 3, as long as nothing fails between two commits: with  *)
(* no crash and no database exception so far, no two rows of a job fired    *)
(* for the same next_run_at, whatever cancels, erasures, shutdowns, forced  *)
(* polls and clock ticks came between them.                                 *)
THEOREM FireOncePerCycle == Spec => []OneFirePerCycle
BY InitCycleInv, NextCycleInv, PTL DEF Spec, CycleInv

(* Hence the two invariants of the runs, for a scheduler that never fails. *)
LEMMA FaultsBounded == Spec => [](TypeOK /\ faults <= MaxFaults)
<1>1. Init => faults <= MaxFaults BY RunnerAssumption DEF Init
<1>2. TypeOK /\ faults <= MaxFaults /\ [Next]_vars => (faults <= MaxFaults)'
  <2> SUFFICES ASSUME TypeOK, faults <= MaxFaults, [Next]_vars
               PROVE faults' <= MaxFaults
    OBVIOUS
  <2>1. faults' = faults \/ (faults < MaxFaults /\ faults' = faults + 1)
    BY DEF Next, RunOnce, vars, Tick, Schedule, Cancel, Erase, Wake, RunDue,
           RequestShutdown, Stop, FetchDue, EndBatch, DispatchUnhandled,
           RecordStart, HandlerReturns, HandlerRaises, RecordCompletion,
           AdvanceAfterSuccess, OnFailure, RowGone, DatabaseError, Crash
  <2> QED BY <2>1, RunnerAssumption DEF TypeOK
<1> QED BY <1>1, <1>2, TypeCorrect, PTL DEF Spec

(* A scheduler that never fails records one SUCCESS per cycle, and its      *)
(* handlers commit one effect per cycle.                                    *)
THEOREM SuccessOncePerCycle ==
    ASSUME MaxFaults = 0
    PROVE  Spec => [](OneSuccessPerCycle /\ OneEffectPerCycle)
<1>1. TypeOK /\ faults <= MaxFaults /\ OneFirePerCycle
      => OneSuccessPerCycle /\ OneEffectPerCycle
  <2> SUFFICES ASSUME TypeOK, faults = 0, OneFirePerCycle
               PROVE  OneSuccessPerCycle /\ OneEffectPerCycle
    BY DEF TypeOK
  <2> QED BY DEF OneFirePerCycle, Fired, OneSuccessPerCycle, OneEffectPerCycle
<1> QED BY <1>1, FaultsBounded, FireOncePerCycle, PTL

(* A dead letter deactivates its job for good: no run of the job follows,   *)
(* with any number of crashes and database exceptions.                      *)
THEOREM DeadLettersFinal == Spec => []DeadLetterIsFinal
<1>1. CycleInv => DeadLetterIsFinal BY DEF CycleInv, DeadInv, DeadLetterIsFinal
<1> QED BY <1>1, InitCycleInv, NextCycleInv, PTL DEF Spec

(* A cancelled job is never fetched nor reactivated. *)
THEOREM CancelsFinal == Spec => CancelIsFinal
<1>1. TypeInv /\ [Next]_vars =>
         [\A j \in Jobs : row[j] = "inactive" =>
               /\ row'[j] # "active"
               /\ j \in due' => j \in due]_vars
  <2> SUFFICES ASSUME TypeInv, [Next]_vars, NEW j \in Jobs, row[j] = "inactive"
               PROVE  row'[j] # "active" /\ (j \in due' => j \in due)
    OBVIOUS
  <2>1. CASE FetchDue BY <2>1 DEF FetchDue, IsDue, tableVars
  <2>2. CASE AdvanceAfterSuccess
    BY <2>2, AdvanceEffect DEF AdvanceAfterSuccess, TypeInv, TypeOK
  <2>3. CASE OnFailure BY <2>3, FailureEffect DEF OnFailure, TypeInv, TypeOK
  <2>4. CASE \E k \in Jobs : Schedule(k) \/ Cancel(k) \/ Erase(k)
    BY <2>4 DEF Schedule, Cancel, Erase, TypeInv, TypeOK, pollVars
  <2> QED
    BY <2>1, <2>2, <2>3, <2>4
    DEF Next, RunOnce, vars, Tick, Wake, RunDue, RequestShutdown, Stop, EndBatch,
        DispatchUnhandled, RecordStart, HandlerReturns, HandlerRaises,
        RecordCompletion, RowGone, PollFailed, DatabaseError, Crash,
        tableVars, pollVars
<1> QED BY <1>1, InitTypeInv, NextTypeInv, PTL DEF Spec, CancelIsFinal

LEMMA NextMovesForward ==
    CycleInv /\ [Next]_vars =>
         [\A j \in Jobs :
               nextRun'[j] # nextRun[j] /\ row[j] # "absent" =>
                  /\ nextRun'[j] > nextRun[j]
                  /\ j = cur /\ nextRun'[j] > doneAt]_vars
<1> SUFFICES ASSUME CycleInv, [Next]_vars, NEW j \in Jobs,
                    nextRun'[j] # nextRun[j], row[j] # "absent"
             PROVE  /\ nextRun'[j] > nextRun[j]
                    /\ j = cur /\ nextRun'[j] > doneAt
  OBVIOUS
<1> USE DEF CycleInv, TypeInv
<1>1. CASE AdvanceAfterSuccess
  BY <1>1, AdvanceEffect DEF AdvanceAfterSuccess, TypeOK, ClockInv
<1>2. CASE OnFailure
  BY <1>2, FailureEffect DEF OnFailure, TypeOK, ClockInv, InFlight
<1>3. CASE \E k \in Jobs : Schedule(k) \/ Cancel(k) \/ Erase(k)
  BY <1>3 DEF Schedule, Cancel, Erase, TypeOK
<1>4. CASE UNCHANGED nextRun BY <1>4
<1> QED
  BY <1>1, <1>2, <1>3, <1>4
  DEF Next, RunOnce, vars, Tick, Wake, RunDue, RequestShutdown, Stop, FetchDue,
      EndBatch, DispatchUnhandled, RecordStart, HandlerReturns, HandlerRaises,
      RecordCompletion, RowGone, PollFailed, DatabaseError, Crash, tableVars

(* Retries and recurrences only move a job's next_run_at forward. *)
THEOREM SchedulesMoveForward == Spec => ScheduleMovesForward
BY NextMovesForward, InitCycleInv, NextCycleInv, PTL DEF Spec, ScheduleMovesForward
-----------------------------------------------------------------------------
(***************************************************************************)
(* Retries wait.  The instant a failed row puts its retry at is at most     *)
(* the next_run_at of its job, which only moves forward, and a row is made  *)
(* for the next_run_at of its job.                                          *)
(***************************************************************************)
RetryAt(i) == runs[i].ended + Backoff[runs[i].retry + 1]

Waited(i) ==
    /\ RetryAt(i) \in Nat
    /\ RetryAt(i) <= nextRun[runs[i].job]
    /\ \A k \in DOMAIN runs :
          i < k /\ runs[i].job = runs[k].job => runs[k].cycle >= RetryAt(i)

WaitInv == \A i \in DOMAIN runs : runs[i].status = "failed" => Waited(i)

(* A row that was there keeps its job and its cycle; a new one is for the   *)
(* instant its job is due; a row that fails is the last.                    *)
KeptRow(k)    == k \in DOMAIN runs /\ runs'[k].job = runs[k].job /\ runs'[k].cycle = runs[k].cycle
FreshRow(k)   == runs'[k].cycle = nextRun[runs'[k].job]
SameRow(i)    == i \in DOMAIN runs /\ runs'[i] = runs[i]
JustFailed(i) ==
    /\ RetryAt(i)' \in Nat /\ RetryAt(i)' <= nextRun'[runs'[i].job]
    /\ \A k \in DOMAIN runs' : k <= i

RowsMove ==
    /\ \A k \in DOMAIN runs' : KeptRow(k) \/ FreshRow(k)
    /\ \A i \in DOMAIN runs' : runs'[i].status = "failed" => SameRow(i) \/ JustFailed(i)

LEMMA FailureMovesRows ==
    ASSUME CycleInv, TypeInv', OnFailure
    PROVE  RowsMove
<1>1. TypeOK /\ DispatchInv /\ pc = "raised" BY DEF CycleInv, TypeInv, OnFailure
<1>2. /\ cur \in Jobs /\ this \in DOMAIN runs /\ runs[this].job = cur
      /\ DOMAIN runs = 1 .. this /\ this \in Nat /\ now \in Nat
  BY <1>1 DEF TypeOK, DispatchInv, InFlight, this
<1>3. PICK n \in Nat : n = Cardinality(FailedRuns(cur)) BY <1>1, <1>2, FailedRunsFinite
<1>4. \/ /\ n >= MaxRetries /\ Mark(this, "dead_letter", n)
      \/ /\ n < MaxRetries /\ Mark(this, "failed", n)
         /\ nextRun' = [nextRun EXCEPT ![cur] = now + Backoff[n + 1]]
  <2>1. MaxRetries \in Nat BY RunnerAssumption DEF MaxRetries
  <2> QED BY <1>3, <2>1 DEF OnFailure, PriorFailures
<1>5. PICK s \in {"failed", "dead_letter"} :
         /\ Mark(this, s, n)
         /\ s = "failed" => /\ n < MaxRetries
                            /\ nextRun' = [nextRun EXCEPT ![cur] = now + Backoff[n + 1]]
  BY <1>4
<1>6. /\ DOMAIN runs' = DOMAIN runs
      /\ runs'[this] = Marked(this, s, n)
      /\ \A i \in DOMAIN runs : i # this => runs'[i] = runs[i]
  <2>1. s \in Status BY DEF Status
  <2>2. Mark(this, s, n) BY <1>5
  <2>3. this \in DOMAIN runs /\ n \in Nat BY <1>2
  <2> QED BY <1>1, <2>1, <2>2, <2>3, MarkRow
<1>7. /\ runs'[this].job = cur /\ runs'[this].cycle = runs[this].cycle
      /\ runs'[this].status = s /\ runs'[this].retry = n /\ runs'[this].ended = now
  BY <1>1, <1>2, <1>6, RowTypes DEF Run, Marked
<1>8. \A k \in DOMAIN runs' : KeptRow(k) BY <1>2, <1>6, <1>7 DEF KeptRow
<1>9. ASSUME s = "failed" PROVE JustFailed(this)
  <2>1. n + 1 \in DOMAIN Backoff /\ Backoff[n + 1] \in Nat
    BY <1>5, <1>9, RunnerAssumption DEF MaxRetries
  <2>2. RetryAt(this)' = now + Backoff[n + 1]
    BY <1>1, <1>6, <1>7 DEF RetryAt, this, TypeOK, OnFailure, Mark
  <2>3. nextRun'[cur] = now + Backoff[n + 1] BY <1>1, <1>2, <1>5, <1>9 DEF TypeOK
  <2> QED BY <1>2, <1>6, <1>7, <2>1, <2>2, <2>3 DEF JustFailed
<1> QED BY <1>6, <1>7, <1>8, <1>9 DEF RowsMove, SameRow

LEMMA NextMovesRows == CycleInv /\ [Next]_vars => RowsMove
<1> SUFFICES ASSUME CycleInv, [Next]_vars PROVE RowsMove
  OBVIOUS
<1>0. TypeInv' BY NextTypeInv DEF CycleInv
<1>1. TypeOK /\ DispatchInv /\ FlightInv BY DEF CycleInv, TypeInv
<1>2. CASE UNCHANGED runs BY <1>2 DEF RowsMove, KeptRow, SameRow
<1>3. ASSUME NEW j \in Jobs, RecordStart(j) PROVE RowsMove
  <2> DEFINE r == [job |-> j, cycle |-> nextRun[j], status |-> "running",
                   retry |-> 0, ended |-> 0, effect |-> FALSE]
  <2>1. runs \in Seq(Run) /\ r \in Run /\ runs' = Append(runs, r)
    BY <1>1, <1>3 DEF TypeOK, Run, Status, RecordStart
  <2>2. r.status = "running" /\ r.cycle = nextRun[r.job] OBVIOUS
  <2> HIDE DEF r
  <2>3. /\ \A i \in DOMAIN runs : runs'[i] = runs[i]
        /\ \A i \in DOMAIN runs' : i \in DOMAIN runs \/ runs'[i] = r
    BY <2>1, AppendToSeq
  <2> QED BY <2>2, <2>3 DEF RowsMove, KeptRow, FreshRow, SameRow
<1>4. ASSUME NEW e \in BOOLEAN, HandlerReturns(e) PROVE RowsMove
  <2>1. this \in DOMAIN runs /\ runs[this].status = "running" /\ runs[this] \in Run
        /\ runs' = [runs EXCEPT ![this] = [runs[this] EXCEPT !.effect = e]]
    BY <1>1, <1>4 DEF HandlerReturns, DispatchInv, FlightInv, InFlight, TypeOK, this
  <2>2. PICK r \in Run : /\ r = [runs[this] EXCEPT !.effect = e]
                         /\ r.status = "running" /\ r.job = runs[this].job
                         /\ r.cycle = runs[this].cycle
    BY <2>1 DEF Run
  <2>3. DOMAIN runs' = DOMAIN runs /\ runs'[this] = r
        /\ \A i \in DOMAIN runs : i # this => runs'[i] = runs[i]
    BY <1>1, <2>1, <2>2 DEF TypeOK
  <2> QED BY <2>1, <2>2, <2>3 DEF RowsMove, KeptRow, SameRow
<1>5. CASE RecordCompletion
  <2>1. this \in DOMAIN runs /\ Mark(this, "success", 0)
    BY <1>1, <1>5 DEF RecordCompletion, DispatchInv, InFlight, TypeOK, this
  <2>2. /\ DOMAIN runs' = DOMAIN runs
        /\ runs'[this] = Marked(this, "success", 0)
        /\ \A i \in DOMAIN runs : i # this => runs'[i] = runs[i]
    BY <1>1, <2>1, MarkRow DEF Status
  <2>3. runs'[this].status = "success" /\ runs'[this].job = runs[this].job
        /\ runs'[this].cycle = runs[this].cycle
    BY <1>1, <2>1, <2>2, RowTypes DEF Run, Marked
  <2> QED BY <2>1, <2>2, <2>3 DEF RowsMove, KeptRow, SameRow
<1>6. CASE OnFailure BY <1>0, <1>6, FailureMovesRows
<1> QED
  BY <1>2, <1>3, <1>4, <1>5, <1>6
  DEF Next, RunOnce, vars, Tick, Schedule, Cancel, Erase, Wake, RunDue,
      RequestShutdown, Stop, FetchDue, EndBatch, DispatchUnhandled, HandlerRaises,
      AdvanceAfterSuccess, RowGone, PollFailed, DatabaseError, Crash, tableVars

LEMMA NextWaitInv == CycleInv /\ WaitInv /\ [Next]_vars => WaitInv'
<1> SUFFICES ASSUME CycleInv, WaitInv, [Next]_vars,
                    NEW i \in DOMAIN runs', runs'[i].status = "failed"
             PROVE  Waited(i)'
  BY DEF WaitInv
<1>1. RowsMove BY NextMovesRows
<1>2. TypeOK /\ HistoryInv /\ TypeOK' BY NextTypeInv DEF CycleInv, TypeInv
<1>3. \A k \in DOMAIN runs' : runs'[k].job \in Jobs /\ runs'[k].cycle \in Nat
  <2>1. \A k \in DOMAIN runs' : runs'[k] \in Run BY <1>2 DEF TypeOK
  <2> QED BY <2>1 DEF Run
<1>4. CASE JustFailed(i)
  <2>1. runs' \in Seq(Run) BY <1>2 DEF TypeOK
  <2>2. \A k \in DOMAIN runs' : k \in Nat BY <2>1
  <2>3. \A k \in DOMAIN runs' : k <= i BY <1>4 DEF JustFailed
  <2>4. \A k \in DOMAIN runs' : ~(i < k) BY <2>2, <2>3
  <2> QED BY <1>4, <2>4 DEF JustFailed, Waited
<1>5. CASE SameRow(i)
  <2>1. /\ i \in DOMAIN runs /\ runs'[i] = runs[i] /\ Waited(i)
        /\ RetryAt(i)' = RetryAt(i) /\ RetryAt(i) \in Nat
    BY <1>5 DEF SameRow, WaitInv, Waited, RetryAt
  <2>2. runs[i].job \in Jobs /\ row[runs[i].job] # "absent"
    BY <1>2, <1>3, <2>1 DEF HistoryInv
  <2>3. PICK j \in Jobs : j = runs[i].job BY <2>2
  <2>4. nextRun \in [Jobs -> Nat] /\ nextRun' \in [Jobs -> Nat] BY <1>2 DEF TypeOK
  <2>5. nextRun[j] \in Nat /\ nextRun'[j] \in Nat BY <2>4
  <2>6. nextRun'[j] = nextRun[j] \/ nextRun'[j] > nextRun[j]
    BY <2>2, <2>3, NextMovesForward DEF vars, tableVars
  <2>7. nextRun'[j] >= nextRun[j] BY <2>5, <2>6
  <2>8. RetryAt(i) <= nextRun[j] BY <2>1, <2>3 DEF Waited
  <2>9. RetryAt(i) <= nextRun[runs[i].job] /\ RetryAt(i) <= nextRun'[runs[i].job]
    BY <2>1, <2>3, <2>5, <2>7, <2>8
  <2>10. ASSUME NEW k \in DOMAIN runs', i < k, runs'[i].job = runs'[k].job
        PROVE  runs'[k].cycle >= RetryAt(i)
    <3>1. CASE KeptRow(k) BY <2>1, <2>10, <3>1 DEF KeptRow, Waited
    <3>2. CASE FreshRow(k)
      <4>1. runs'[k].cycle = nextRun[runs[i].job] BY <2>1, <2>10, <3>2 DEF FreshRow
      <4> QED BY <1>2, <2>1, <2>2, <2>9, <4>1 DEF TypeOK
    <3> QED BY <1>1, <3>1, <3>2 DEF RowsMove
  <2> QED BY <2>1, <2>9, <2>10 DEF Waited
<1> QED BY <1>1, <1>4, <1>5 DEF RowsMove

(* A failed run is not followed by another of its job before its backoff    *)
(* has passed, nor a dead letter by any, for every backoff table and any    *)
(* number of faults.                                                        *)
THEOREM RetriesDoWait == Spec => []RetriesWait
<1>1. Init => WaitInv
  <2>1. Init => DOMAIN runs = {} BY DEF Init
  <2> QED BY <2>1 DEF WaitInv
<1>2. CycleInv /\ WaitInv => RetriesWait
  <2> SUFFICES ASSUME CycleInv, WaitInv, NEW i \in DOMAIN runs, NEW k \in DOMAIN runs,
                      i < k, runs[i].job = runs[k].job
               PROVE  /\ runs[i].status # "dead_letter"
                      /\ runs[i].status = "failed" => runs[k].cycle >= RetryAt(i)
    BY DEF RetriesWait, RetryAt
  <2>1. i \in Nat /\ k \in Nat /\ k > i BY DEF CycleInv, TypeInv, TypeOK
  <2>2. runs[i].status # "dead_letter" BY <2>1 DEF CycleInv, DeadInv
  <2> QED BY <2>2 DEF WaitInv, Waited
<1> QED BY <1>1, <1>2, NextWaitInv, InitCycleInv, NextCycleInv, PTL DEF Spec

-----------------------------------------------------------------------------
(***************************************************************************)
(* The retry ladder as the code climbs it, over the whole life of a job    *)
(* (its comment says "since the last success", the enum "third failure").  *)
(* _on_failure counts the FAILED rows of the job, the row it is about to mark being the last one and still RUNNING, so that   *)
(* the count is the number of FAILED rows before it.  What keeps the       *)
(* DEAD_LETTER row on the top rung is that the count never passes          *)
(* MAX_RETRIES.                                                            *)
(***************************************************************************)
Judged(i) == runs[i].status \in {"failed", "dead_letter"}

Rungs == \A j \in Jobs : Cardinality(FailedRuns(j)) <= MaxRetries

LadderInv == RetryLadder /\ Rungs

(* RetryLadder, row by row. *)
Before(i) == {k \in FailedRuns(runs[i].job) : k < i}

OnRung(i) ==
    /\ runs[i].retry = Cardinality(Before(i))
    /\ runs[i].status = "dead_letter" <=> runs[i].retry = MaxRetries

LEMMA LadderByRungs ==
    /\ RetryLadder <=> \A i \in DOMAIN runs : Judged(i) => OnRung(i)
    /\ RetryLadder' <=> \A i \in DOMAIN runs' : Judged(i)' => OnRung(i)'
BY DEF RetryLadder, Judged, OnRung, Before

(* A step that judges no row leaves the ladder as it was. *)
LEMMA LadderUndisturbed ==
    ASSUME LadderInv, DOMAIN runs \subseteq DOMAIN runs',
           \A i \in DOMAIN runs : Judged(i) => runs'[i] = runs[i],
           \A i \in DOMAIN runs' : Judged(i)' => i \in DOMAIN runs /\ Judged(i)
    PROVE  LadderInv'
<1>1. ASSUME NEW j PROVE FailedRuns(j)' = FailedRuns(j)
  BY DEF FailedRuns, Judged
<1>2. RetryLadder'
  <2> SUFFICES ASSUME NEW i \in DOMAIN runs', Judged(i)' PROVE OnRung(i)'
    BY LadderByRungs
  <2>1. i \in DOMAIN runs /\ Judged(i) /\ runs'[i] = runs[i] OBVIOUS
  <2>2. Before(i)' = Before(i) BY <1>1, <2>1 DEF Before, FailedRuns
  <2>3. OnRung(i) BY <2>1, LadderByRungs DEF LadderInv
  <2> QED BY <2>1, <2>2, <2>3 DEF OnRung
<1>3. Rungs' BY <1>1 DEF LadderInv, Rungs
<1> QED BY <1>2, <1>3 DEF LadderInv

(* The new rung: the row in flight is the last, so its predecessors are all *)
(* the FAILED rows of the job.                                              *)
LEMMA LadderClimbed ==
    ASSUME CycleInv, LadderInv, OnFailure
    PROVE  LadderInv'
<1>1. TypeOK /\ DispatchInv /\ FlightInv BY DEF CycleInv, TypeInv
<1>2. /\ cur \in Jobs /\ this \in DOMAIN runs /\ runs[this].job = cur
      /\ runs[this].status = "running" /\ this = Len(runs)
      /\ \A k \in DOMAIN runs : k <= this /\ k \in Nat
  BY <1>1 DEF OnFailure, TypeOK, DispatchInv, FlightInv, InFlight, this
<1>3. PICK n \in Nat : n = Cardinality(FailedRuns(cur))
  BY <1>1, <1>2, FailedRunsFinite
<1>4. n <= MaxRetries /\ MaxRetries \in Nat
  BY <1>2, <1>3, RunnerAssumption DEF LadderInv, Rungs, MaxRetries
<1>5. PICK s \in {"failed", "dead_letter"} :
         /\ Mark(this, s, n)
         /\ s = "dead_letter" => n = MaxRetries
         /\ s = "failed" => n < MaxRetries
  BY <1>1, <1>3, <1>4, FailureEffect
<1>6. /\ DOMAIN runs' = DOMAIN runs
      /\ runs'[this] = Marked(this, s, n)
      /\ \A k \in DOMAIN runs : k # this => runs'[k] = runs[k]
  <2>1. s \in Status BY DEF Status
  <2>2. Mark(this, s, n) BY <1>5
  <2>3. this \in DOMAIN runs /\ n \in Nat BY <1>2
  <2> QED BY <1>1, <2>1, <2>2, <2>3, MarkRow
<1>7. /\ runs'[this].status = s /\ runs'[this].retry = n
      /\ runs'[this].job = cur
  BY <1>1, <1>2, <1>6, RowTypes DEF Run, Marked
<1>8. ASSUME NEW j
      PROVE  FailedRuns(j)' = FailedRuns(j) \cup
                (IF s = "failed" /\ j = cur THEN {this} ELSE {})
  <2>1. \A k : k \in FailedRuns(j) <=>
                 k \in DOMAIN runs /\ runs[k].job = j /\ runs[k].status = "failed"
    BY DEF FailedRuns
  <2>2. \A k : k \in FailedRuns(j)' <=>
                 k \in DOMAIN runs' /\ runs'[k].job = j /\ runs'[k].status = "failed"
    BY DEF FailedRuns
  <2>3. \A k \in DOMAIN runs : k # this => runs'[k] = runs[k] BY <1>6
  <2>4. DOMAIN runs' = DOMAIN runs BY <1>6
  <2>5. runs'[this].status = s /\ runs'[this].job = cur BY <1>7
  <2> HIDE DEF FailedRuns
  <2>6. \A k : k \in FailedRuns(j)' <=>
                  k \in FailedRuns(j) \/ (k = this /\ s = "failed" /\ j = cur)
    BY <1>2, <2>1, <2>2, <2>3, <2>4, <2>5
  <2> QED BY <2>6
<1>9. ASSUME NEW j, j # cur PROVE FailedRuns(j)' = FailedRuns(j)
  BY <1>8, <1>9
<1>10. this \notin FailedRuns(cur) /\ \A k \in FailedRuns(cur) : k < this
  BY <1>2 DEF FailedRuns
<1>11. RetryLadder'
  <2> SUFFICES ASSUME NEW i \in DOMAIN runs', Judged(i)' PROVE OnRung(i)'
    BY LadderByRungs
  <2>1. CASE i = this
    <3>1. Before(i)' = FailedRuns(cur)
      <4>1. Before(i)' = {k \in DOMAIN runs' : /\ runs'[k].job = cur
                                               /\ runs'[k].status = "failed"
                                               /\ k < this}
        BY <1>7, <2>1 DEF Before, FailedRuns
      <4>2. \A k : k \in Before(i)' <=> k \in FailedRuns(cur)
        BY <1>2, <1>6, <4>1 DEF FailedRuns
      <4> QED BY <4>2
    <3>2. OnRung(i)' <=> /\ n = Cardinality(FailedRuns(cur))
                         /\ s = "dead_letter" <=> n = MaxRetries
      BY <1>7, <2>1, <3>1 DEF OnRung
    <3> QED BY <1>3, <1>4, <1>5, <3>2
  <2>2. CASE i # this
    <3>1. i \in DOMAIN runs /\ runs'[i] = runs[i] /\ Judged(i) /\ i < this
      BY <1>2, <1>6, <2>2 DEF Judged
    <3>2. Before(i)' = Before(i)
      <4>1. Before(i)' = {k \in DOMAIN runs' : /\ runs'[k].job = runs[i].job
                                               /\ runs'[k].status = "failed"
                                               /\ k < i}
        BY <3>1 DEF Before, FailedRuns
      <4>2. \A k : k \in Before(i)' <=> k \in Before(i)
        BY <1>2, <1>6, <3>1, <4>1 DEF Before, FailedRuns
      <4> QED BY <4>2
    <3>3. OnRung(i) BY <3>1, LadderByRungs DEF LadderInv
    <3> QED BY <3>1, <3>2, <3>3 DEF OnRung
  <2> QED BY <2>1, <2>2
<1>12. Rungs'
  <2>1. IsFiniteSet(FailedRuns(cur))
    <3>1. IsFiniteSet(1 .. Len(runs))
      BY <1>1, FS_Interval DEF TypeOK
    <3>2. FailedRuns(cur) \subseteq 1 .. Len(runs)
      BY <1>1 DEF FailedRuns, TypeOK
    <3> QED BY <3>1, <3>2, FS_Subset
  <2>2. Cardinality(FailedRuns(cur) \cup {this}) = n + 1
    BY <1>3, <1>10, <2>1, FS_AddElement
  <2>3. CASE s = "failed"
    <3>1. PICK c \in Jobs : c = cur BY <1>2
    <3>2. ASSUME NEW j \in Jobs PROVE Cardinality(FailedRuns(j)') <= MaxRetries
      <4>1. CASE j = c
        <5>1. FailedRuns(c)' = FailedRuns(cur) \cup {this} BY <1>8, <2>3, <3>1
        <5> QED BY <1>4, <1>5, <2>2, <2>3, <4>1, <5>1
      <4>2. CASE j # c
        BY <1>9, <3>1, <4>2 DEF LadderInv, Rungs
      <4> QED BY <4>1, <4>2
    <3> QED BY <3>2 DEF Rungs, MaxRetries
  <2>4. CASE s = "dead_letter"
    <3>1. ASSUME NEW j PROVE FailedRuns(j)' = FailedRuns(j) BY <1>8, <2>4
    <3> QED BY <3>1 DEF LadderInv, Rungs, MaxRetries
  <2> QED BY <2>3, <2>4
<1> QED BY <1>11, <1>12 DEF LadderInv

(* Every step but _on_failure judges nothing. *)
LEMMA NextLadderInv == CycleInv /\ LadderInv /\ [Next]_vars => LadderInv'
<1> SUFFICES ASSUME CycleInv, LadderInv, [Next]_vars PROVE LadderInv'
  OBVIOUS
<1>1. TypeOK /\ DispatchInv /\ FlightInv BY DEF CycleInv, TypeInv
<1>2. CASE UNCHANGED runs BY <1>2, LadderUndisturbed DEF Judged
<1>3. ASSUME NEW j \in Jobs, RecordStart(j) PROVE LadderInv'
  <2> DEFINE r == [job |-> j, cycle |-> nextRun[j], status |-> "running",
                   retry |-> 0, ended |-> 0, effect |-> FALSE]
  <2>1. runs \in Seq(Run) /\ r \in Run /\ runs' = Append(runs, r)
    BY <1>1, <1>3 DEF TypeOK, Run, Status, RecordStart
  <2>2. r.status = "running" OBVIOUS
  <2> HIDE DEF r
  <2>3. /\ DOMAIN runs \subseteq DOMAIN runs'
        /\ \A i \in DOMAIN runs : runs'[i] = runs[i]
        /\ \A i \in DOMAIN runs' : i \in DOMAIN runs \/ runs'[i] = r
    BY <2>1, AppendToSeq
  <2> QED BY <2>2, <2>3, LadderUndisturbed DEF Judged
<1>4. CASE RecordCompletion \/ \E e \in BOOLEAN : HandlerReturns(e)
  <2>1. this \in DOMAIN runs /\ runs[this].status = "running" /\ runs[this] \in Run
    BY <1>1, <1>4 DEF RecordCompletion, HandlerReturns, DispatchInv, FlightInv,
                      InFlight, TypeOK, this
  <2>2. PICK r \in Run : runs' = [runs EXCEPT ![this] = r]
                          /\ r.status \in {"running", "success"}
    <3>1. CASE RecordCompletion
      <4>1. Marked(this, "success", 0) \in Run
        BY <1>1, <2>1 DEF Run, Status, Marked, TypeOK
      <4>2. Marked(this, "success", 0).status = "success"
        BY <2>1 DEF Run, Marked
      <4>3. runs' = [runs EXCEPT ![this] =
                        Marked(this, "success", 0)]
        BY <3>1 DEF RecordCompletion, Mark, Marked
      <4> QED BY <4>1, <4>2, <4>3
    <3>2. ASSUME NEW e \in BOOLEAN, HandlerReturns(e)
          PROVE  \E r \in Run : /\ runs' = [runs EXCEPT ![this] = r]
                                /\ r.status \in {"running", "success"}
      <4>1. /\ [runs[this] EXCEPT !.effect = e] \in Run
            /\ [runs[this] EXCEPT !.effect = e].status = "running"
        BY <2>1 DEF Run
      <4> QED BY <3>2, <4>1 DEF HandlerReturns
    <3> QED BY <1>4, <3>1, <3>2
  <2>3. /\ DOMAIN runs' = DOMAIN runs
        /\ runs'[this] = r
        /\ \A i \in DOMAIN runs : i # this => runs'[i] = runs[i]
    BY <1>1, <2>1, <2>2 DEF TypeOK
  <2> QED BY <2>1, <2>2, <2>3, LadderUndisturbed DEF Judged
<1>5. CASE OnFailure BY <1>5, LadderClimbed
<1> QED
  BY <1>2, <1>3, <1>4, <1>5
  DEF Next, RunOnce, vars, Tick, Schedule, Cancel, Erase, Wake, RunDue,
      RequestShutdown, Stop, FetchDue, EndBatch, DispatchUnhandled, HandlerRaises,
      AdvanceAfterSuccess, RowGone, PollFailed, DatabaseError, Crash, tableVars

(* The n-th FAILED row of a job carries retry_count n-1, there are at most  *)
(* MAX_RETRIES of them, and the DEAD_LETTER row carries MAX_RETRIES, for    *)
(* every backoff table and any number of faults.                            *)
THEOREM LadderHolds == Spec => []RetryLadder
<1>1. Init => LadderInv
  <2> SUFFICES ASSUME Init PROVE LadderInv
    OBVIOUS
  <2>1. DOMAIN runs = {} BY DEF Init
  <2>2. \A j : FailedRuns(j) = {} BY <2>1 DEF FailedRuns
  <2>3. 0 <= MaxRetries BY RunnerAssumption DEF MaxRetries
  <2> QED BY <2>1, <2>2, <2>3, FS_EmptySet DEF LadderInv, RetryLadder, Rungs
<1> QED BY <1>1, NextLadderInv, InitCycleInv, NextCycleInv, PTL DEF Spec, LadderInv
-----------------------------------------------------------------------------
(***************************************************************************)
(* The runner implements JobCycles.                                        *)
(*                                                                         *)
(* A job is exposed when one of its SUCCESS rows carries the next_run_at   *)
(* it may still fire for: then it can succeed for that instant again.      *)
(* Only a fault between _record_completion and _advance_after_success      *)
(* exposes a job, and the repetition it allows ends the exposure: hence    *)
(* repetitions and exposed jobs together never outnumber the faults.       *)
(***************************************************************************)
Firing(j) ==
    \/ j \in due
    \/ pc \in {"started", "returned", "raised"} /\ cur = j
    \/ row[j] = "active" /\ ~ (pc = "completed" /\ cur = j)

Exposed ==
    {j \in Jobs : /\ Firing(j)
                  /\ \E i \in Successes : runs[i].job = j /\ runs[i].cycle = nextRun[j]}

ExposureInv == Cardinality(Repeated) + Cardinality(Exposed) <= faults

(* A sequence of rows has finitely many successes and exposed jobs. *)
LEMMA SuccessesFinite ==
    ASSUME TypeOK
    PROVE  IsFiniteSet(Successes) /\ IsFiniteSet(Repeated) /\ IsFiniteSet(Exposed)
<1>1. IsFiniteSet(1 .. Len(runs)) BY FS_Interval DEF TypeOK
<1>2. Successes \subseteq 1 .. Len(runs) BY DEF Successes, TypeOK
<1>3. IsFiniteSet(Successes) BY <1>1, <1>2, FS_Subset
<1>4. IsFiniteSet(Repeated)
  <2>1. Repeated \subseteq Successes BY DEF Repeated
  <2> QED BY <1>3, <2>1, FS_Subset
<1>5. IsFiniteSet(Exposed)
  <2> DEFINE owners == {runs[i].job : i \in Successes}
             f == [i \in Successes |-> runs[i].job]
  <2>1. f \in Surjection(Successes, owners) BY Zenon DEF Surjection
  <2>2. IsFiniteSet(owners)
    <3> HIDE DEF f, owners
    <3> QED BY <1>3, <2>1, FS_Surjection
  <2>3. Exposed \subseteq owners BY DEF Exposed
  <2> QED BY <2>2, <2>3, FS_Subset
<1> QED BY <1>3, <1>4, <1>5

(* A step that records no success: the successes and what they repeat stay. *)
SuccessesKept ==
    /\ Successes' = Successes
    /\ Fires' = Fires
    /\ Repeated' = Repeated
    /\ \A i \in Successes : runs'[i].job = runs[i].job /\ runs'[i].cycle = runs[i].cycle

LEMMA KeepSuccesses ==
    ASSUME DOMAIN runs \subseteq DOMAIN runs',
           \A i \in DOMAIN runs : runs[i].status = "success" =>
               /\ runs'[i].status = "success" /\ runs'[i].job = runs[i].job
               /\ runs'[i].cycle = runs[i].cycle,
           \A i \in DOMAIN runs' : runs'[i].status = "success" =>
               i \in DOMAIN runs /\ runs[i].status = "success"
    PROVE  SuccessesKept
<1>1. Successes' = Successes BY DEF Successes
<1>2. \A i \in Successes :
         /\ runs'[i].job = runs[i].job /\ runs'[i].cycle = runs[i].cycle
  BY DEF Successes
<1>3. Successes' = {i \in DOMAIN runs' : runs'[i].status = "success"}
  BY DEF Successes
<1>4. Fires' = Fires
  <2>1. Fires' = {<<runs'[i].job, runs'[i].cycle>> : i \in Successes'}
    BY DEF Fires, Fire
  <2> QED BY <1>1, <1>2, <2>1 DEF Fires, Fire
<1>5. Repeated' = Repeated
  <2>1. Repeated' = {i \in Successes' : \E k \in Successes' : k < i /\
                       <<runs'[k].job, runs'[k].cycle>> = <<runs'[i].job, runs'[i].cycle>>}
    BY DEF Repeated, Fire
  <2>2. Repeated = {i \in Successes : \E k \in Successes : k < i /\
                       <<runs[k].job, runs[k].cycle>> = <<runs[i].job, runs[i].cycle>>}
    BY DEF Repeated, Fire
  <2> HIDE DEF Successes
  <2>3. \A i : i \in Repeated' <=> i \in Repeated BY <1>1, <1>2, <2>1, <2>2
  <2> QED BY <2>3
<1> QED BY <1>1, <1>2, <1>4, <1>5 DEF SuccessesKept

(* Only _record_completion writes a SUCCESS. *)
LEMMA OnlyCompletionSucceeds ==
    ASSUME CycleInv, [Next]_vars, ~ RecordCompletion
    PROVE  SuccessesKept
<1>1. TypeOK /\ DispatchInv /\ FlightInv BY DEF CycleInv, TypeInv
<1>2. CASE UNCHANGED runs BY <1>2, KeepSuccesses
<1>3. ASSUME NEW j \in Jobs, RecordStart(j) PROVE SuccessesKept
  <2> DEFINE r == [job |-> j, cycle |-> nextRun[j], status |-> "running",
                   retry |-> 0, ended |-> 0, effect |-> FALSE]
  <2>1. runs \in Seq(Run) /\ r \in Run /\ runs' = Append(runs, r)
    BY <1>1, <1>3 DEF TypeOK, Run, Status, RecordStart
  <2>2. r.status = "running" OBVIOUS
  <2> HIDE DEF r
  <2>3. /\ DOMAIN runs \subseteq DOMAIN runs'
        /\ \A i \in DOMAIN runs : runs'[i] = runs[i]
        /\ \A i \in DOMAIN runs' : i \in DOMAIN runs \/ runs'[i] = r
    BY <2>1, AppendToSeq
  <2> QED BY <2>2, <2>3, KeepSuccesses
<1>4. CASE OnFailure \/ \E e \in BOOLEAN : HandlerReturns(e)
  <2>1. this \in DOMAIN runs /\ runs[this].status = "running" /\ runs[this] \in Run
    BY <1>1, <1>4 DEF OnFailure, HandlerReturns, DispatchInv, FlightInv,
                      InFlight, TypeOK, this
  <2>2. /\ DOMAIN runs' = DOMAIN runs
        /\ runs'[this].status # "success"
        /\ \A i \in DOMAIN runs : i # this => runs'[i] = runs[i]
    <3>1. CASE OnFailure
      <4>1. PICK s \in {"failed", "dead_letter"}, n \in Nat : Mark(this, s, n)
        BY <1>1, <3>1, FailureEffect
      <4>2. s \in Status /\ n \in Nat /\ this \in DOMAIN runs BY <2>1 DEF Status
      <4> HIDE DEF this
      <4>3. /\ DOMAIN runs' = DOMAIN runs
            /\ runs'[this] = Marked(this, s, n)
            /\ \A i \in DOMAIN runs : i # this => runs'[i] = runs[i]
        BY <1>1, <4>1, <4>2, MarkRow
      <4>4. runs'[this].status = s BY <2>1, <4>3 DEF Run, Marked
      <4> QED BY <4>3, <4>4
    <3>2. ASSUME NEW e \in BOOLEAN, HandlerReturns(e)
          PROVE  /\ DOMAIN runs' = DOMAIN runs
                 /\ runs'[this].status # "success"
                 /\ \A i \in DOMAIN runs : i # this => runs'[i] = runs[i]
      <4>1. /\ [runs[this] EXCEPT !.effect = e] \in Run
            /\ [runs[this] EXCEPT !.effect = e].status = "running"
        BY <2>1 DEF Run
      <4>2. PICK q \in Run : q.status = "running" /\ runs' = [runs EXCEPT ![this] = q]
        BY <3>2, <4>1 DEF HandlerReturns
      <4> QED BY <1>1, <2>1, <4>2 DEF TypeOK
    <3> QED BY <1>4, <3>1, <3>2
  <2> QED BY <2>1, <2>2, KeepSuccesses
<1> QED
  BY <1>2, <1>3, <1>4
  DEF Next, RunOnce, vars, Tick, Schedule, Cancel, Erase, Wake, RunDue,
      RequestShutdown, Stop, FetchDue, EndBatch, DispatchUnhandled, HandlerRaises,
      AdvanceAfterSuccess, RowGone, PollFailed, DatabaseError, Crash, tableVars

(* The row in flight, the last of the sequence, becomes a success of the    *)
(* current cycle; it repeats another one exactly when its job was exposed.  *)
LEMMA CompletionSucceeds ==
    ASSUME CycleInv, RecordCompletion
    PROVE  /\ cur \in Jobs
           /\ Fires' =
                 Fires \cup {<<cur, nextRun[cur]>>}
           /\ <<cur, nextRun[cur]>> \in Fires <=> cur \in Exposed
           /\ this \notin Repeated
           /\ Repeated' = Repeated \cup (IF cur \in Exposed THEN {this} ELSE {})
           /\ Exposed' = Exposed \ {cur}
<1>1. TypeOK /\ DispatchInv /\ FlightInv BY DEF CycleInv, TypeInv
<1>2. /\ cur \in Jobs /\ this \in DOMAIN runs /\ runs[this].job = cur
      /\ runs[this].status = "running" /\ runs[this].cycle = nextRun[cur]
      /\ \A k \in DOMAIN runs : k <= this /\ k \in Nat
      /\ pc = "returned" /\ pc' = "completed" /\ cur \notin due
      /\ UNCHANGED <<due, cur, row, nextRun>>
  BY <1>1 DEF RecordCompletion, TypeOK, DispatchInv, FlightInv, InFlight, this
<1>3. /\ DOMAIN runs' = DOMAIN runs
      /\ runs'[this] = Marked(this, "success", 0)
      /\ \A k \in DOMAIN runs : k # this => runs'[k] = runs[k]
  <2>1. Mark(this, "success", 0) BY DEF RecordCompletion
  <2> QED BY <1>1, <1>2, <2>1, MarkRow DEF Status
<1>4. /\ runs'[this].status = "success" /\ runs'[this].job = cur
      /\ runs'[this].cycle = nextRun[cur]
  BY <1>1, <1>2, <1>3, RowTypes DEF Run, Marked
<1>5. this \notin Successes /\ Successes \subseteq DOMAIN runs BY <1>2 DEF Successes
<1>6. Successes' = Successes \cup {this}
  <2>1. \A k : k \in Successes' <=> k \in Successes \/ k = this
    BY <1>2, <1>3, <1>4 DEF Successes
  <2> QED BY <2>1
<1>7. /\ \A i \in Successes : runs'[i] = runs[i] /\ i < this
      /\ \A i \in Successes : runs[i].job \in Jobs
  BY <1>1, <1>2, <1>3, <1>5, RowTypes
<1>8. Fires' =
         Fires \cup {<<cur, nextRun[cur]>>}
  <2>1. Fires' = {<<runs'[i].job, runs'[i].cycle>> : i \in Successes'}
    BY DEF Fires, Fire
  <2> HIDE DEF Successes
  <2> QED BY <1>4, <1>6, <1>7, <2>1 DEF Fires, Fire
<1>9. cur \in Exposed <=> \E i \in Successes : runs[i].job = cur /\ runs[i].cycle = nextRun[cur]
  BY <1>2 DEF Exposed, Firing
<1>10. <<cur, nextRun[cur]>> \in Fires <=> cur \in Exposed
  BY <1>9 DEF Fires, Fire
<1>11. this \notin Repeated BY <1>5 DEF Repeated
<1>12. Repeated' = Repeated \cup (IF cur \in Exposed THEN {this} ELSE {})
  <2>1. Repeated' = {i \in Successes' : \E k \in Successes' : k < i /\
                       <<runs'[k].job, runs'[k].cycle>> = <<runs'[i].job, runs'[i].cycle>>}
    BY DEF Repeated, Fire
  <2>2. Repeated = {i \in Successes : \E k \in Successes : k < i /\
                       <<runs[k].job, runs[k].cycle>> = <<runs[i].job, runs[i].cycle>>}
    BY DEF Repeated, Fire
  <2>3. ASSUME NEW i \in Successes PROVE i \in Repeated' <=> i \in Repeated
    <3>1. i < this /\ i \in Nat /\ this \in Nat /\ ~ (this < i)
      BY <1>2, <1>5, <1>7
    <3> HIDE DEF this
    <3> QED BY <1>6, <1>7, <2>1, <2>2, <3>1
  <2>4. this \in Repeated' <=> cur \in Exposed
    <3>1. ~ (this < this) BY <1>2
    <3> HIDE DEF this
    <3>2. this \in Repeated' <=> \E k \in Successes : 
              <<runs[k].job, runs[k].cycle>> = <<cur, nextRun[cur]>>
      BY <1>4, <1>6, <1>7, <2>1, <3>1
    <3> QED BY <1>9, <3>2
  <2>5. \A i : i \in Repeated' => i \in Successes \/ i = this BY <1>6, <2>1
  <2>6. \A i : i \in Repeated => i \in Successes BY <2>2
  <2> QED BY <2>3, <2>4, <2>5, <2>6
<1>13. Exposed' = Exposed \ {cur}
  <2>1. Exposed' = {j \in Jobs :
            /\ \/ j \in due \/ (row[j] = "active" /\ cur # j)
            /\ \E i \in Successes' : runs'[i].job = j /\ runs'[i].cycle = nextRun[j]}
    BY <1>2 DEF Exposed, Firing
  <2>2. Exposed = {j \in Jobs :
            /\ \/ j \in due \/ cur = j \/ row[j] = "active"
            /\ \E i \in Successes : runs[i].job = j /\ runs[i].cycle = nextRun[j]}
    BY <1>2 DEF Exposed, Firing
  <2> HIDE DEF Successes, this
  <2>3. ASSUME NEW j PROVE j \in Exposed' <=> j \in Exposed /\ j # cur
    BY <1>2, <1>4, <1>6, <1>7, <2>1, <2>2
  <2> QED BY <2>3
<1> QED BY <1>2, <1>8, <1>10, <1>11, <1>12, <1>13

(* Without a fault no step but _record_completion touches the successes, and *)
(* none exposes a job: a new next_run_at is past every cycle of the job.    *)
LEMMA ExposedShrinks ==
    ASSUME CycleInv, [Next]_vars, ~ RecordCompletion, ~ DatabaseError, ~ Crash
    PROVE  Exposed' \subseteq Exposed
<1>1. /\ TypeOK /\ DispatchInv /\ HistoryInv /\ ClockInv BY DEF CycleInv, TypeInv
<1>2. SuccessesKept BY OnlyCompletionSucceeds
<1>3. \A i \in Successes : /\ runs[i].job \in Jobs /\ runs[i].cycle \in Nat
                           /\ row[runs[i].job] # "absent"
                           /\ runs[i].cycle <= nextRun[runs[i].job]
  BY <1>1, RowTypes DEF Successes, HistoryInv
<1> SUFFICES ASSUME NEW j \in Jobs, Firing(j)',
                    NEW i \in Successes, runs[i].job = j, runs[i].cycle = nextRun'[j]
             PROVE  Firing(j) /\ nextRun'[j] = nextRun[j]
  BY <1>2 DEF SuccessesKept, Exposed
<1>4. row[j] # "absent" /\ nextRun[j] \in Nat /\ ~ (nextRun'[j] > nextRun[j])
  BY <1>1, <1>3 DEF TypeOK
<1>5. CASE \E k \in Jobs : Schedule(k) \/ Cancel(k) \/ Erase(k)
  BY <1>1, <1>4, <1>5 DEF Schedule, Cancel, Erase, Firing, TypeOK, pollVars
<1>6. CASE AdvanceAfterSuccess
  BY <1>1, <1>4, <1>6, AdvanceEffect
  DEF AdvanceAfterSuccess, Firing, TypeOK, ClockInv, DispatchInv, InFlight
<1>7. CASE OnFailure
  BY <1>1, <1>4, <1>7, FailureEffect
  DEF OnFailure, Firing, TypeOK, ClockInv, DispatchInv, InFlight
<1>8. CASE RowGone
  BY <1>1, <1>8 DEF RowGone, PollFailed, Firing, tableVars
<1>9. CASE FetchDue BY <1>9 DEF FetchDue, IsDue, Firing, tableVars
<1> QED
  BY <1>1, <1>5, <1>6, <1>7, <1>8, <1>9
  DEF Next, RunOnce, vars, Tick, Wake, RunDue, RequestShutdown, Stop, EndBatch,
      DispatchUnhandled, RecordStart, HandlerReturns, HandlerRaises, Firing,
      tableVars, pollVars, TypeOK

(* A fault exposes at most the job whose success was not followed by its    *)
(* advance.                                                                 *)
LEMMA FaultExposesOne ==
    ASSUME CycleInv, DatabaseError \/ Crash
    PROVE  Exposed' \subseteq Exposed \cup {cur}
<1>1. /\ TypeOK /\ DispatchInv BY DEF CycleInv, TypeInv
<1>2. SuccessesKept BY OnlyCompletionSucceeds DEF Next, RecordCompletion, DatabaseError, Crash, PollFailed
<1>3. UNCHANGED <<row, nextRun, cur>> /\ due' = {} /\ pc' \in {"poll", "sleeping"}
  BY DEF DatabaseError, Crash, PollFailed, tableVars
<1> SUFFICES ASSUME NEW j \in Jobs, Firing(j)', j # cur,
                    NEW i \in Successes, runs[i].job = j, runs[i].cycle = nextRun[j]
             PROVE  Firing(j)
  BY <1>2, <1>3 DEF SuccessesKept, Exposed
<1> QED BY <1>3 DEF Firing

LEMMA InitExposure == Init => ExposureInv
<1> SUFFICES ASSUME Init PROVE ExposureInv
  OBVIOUS
<1>1. Successes = {} BY DEF Init, Successes
<1>2. Repeated = {} /\ Exposed = {} BY <1>1 DEF Repeated, Exposed
<1> QED BY <1>2, FS_EmptySet DEF Init, ExposureInv

LEMMA NextExposure == CycleInv /\ ExposureInv /\ [Next]_vars => ExposureInv'
<1> SUFFICES ASSUME CycleInv, ExposureInv, [Next]_vars PROVE ExposureInv'
  OBVIOUS
<1>1. TypeOK BY DEF CycleInv, TypeInv
<1>2. PICK n \in Nat, e \in Nat : /\ n = Cardinality(Repeated)
                                  /\ e = Cardinality(Exposed) /\ n + e <= faults
  BY <1>1, SuccessesFinite, FS_CardinalityType DEF ExposureInv
<1>3. faults \in Nat BY <1>1 DEF TypeOK
<1>4. IsFiniteSet(Repeated) /\ IsFiniteSet(Exposed) BY <1>1, SuccessesFinite
<1>5. CASE RecordCompletion
  <2>1. faults' = faults BY <1>5 DEF RecordCompletion
  <2>2. CASE cur \in Exposed
    <3>1. Cardinality(Repeated') = n + 1
      BY <1>2, <1>4, <1>5, <2>2, CompletionSucceeds, FS_AddElement
    <3>2. Cardinality(Exposed') = e - 1
      BY <1>2, <1>4, <1>5, <2>2, CompletionSucceeds, FS_RemoveElement
    <3> QED BY <1>2, <1>3, <2>1, <3>1, <3>2 DEF ExposureInv
  <2>3. CASE cur \notin Exposed
    <3>1. Repeated' = Repeated /\ Exposed' = Exposed
      BY <1>5, <2>3, CompletionSucceeds
    <3> QED BY <1>2, <2>1, <3>1 DEF ExposureInv
  <2> QED BY <2>2, <2>3
<1>6. CASE DatabaseError \/ Crash
  <2>1. Repeated' = Repeated
    BY <1>6, OnlyCompletionSucceeds
    DEF SuccessesKept, RecordCompletion, DatabaseError, Crash, PollFailed
  <2>2. faults' = faults + 1 BY <1>6 DEF DatabaseError, Crash
  <2>3. Exposed' \subseteq Exposed \cup {cur} BY <1>6, FaultExposesOne
  <2>4. IsFiniteSet(Exposed \cup {cur}) /\ Cardinality(Exposed \cup {cur}) <= e + 1
    <3>1. /\ IsFiniteSet(Exposed \cup {cur})
          /\ Cardinality(Exposed \cup {cur}) = IF cur \in Exposed THEN e ELSE e + 1
      BY <1>2, <1>4, FS_AddElement, Zenon
    <3> QED BY <1>2, <3>1
  <2>5. PICK d \in Nat : d = Cardinality(Exposed') /\ d <= e + 1
    <3>1. IsFiniteSet(Exposed') /\ Cardinality(Exposed') <= Cardinality(Exposed \cup {cur})
      BY <2>3, <2>4, FS_Subset
    <3>2. Cardinality(Exposed') \in Nat /\ Cardinality(Exposed \cup {cur}) \in Nat
      BY <2>4, <3>1, FS_CardinalityType
    <3> QED BY <2>4, <3>1, <3>2
  <2> QED BY <1>2, <1>3, <2>1, <2>2, <2>5 DEF ExposureInv
<1>7. CASE ~ RecordCompletion /\ ~ DatabaseError /\ ~ Crash
  <2>1. Repeated' = Repeated BY <1>7, OnlyCompletionSucceeds DEF SuccessesKept
  <2>2. faults' = faults
    BY <1>7 DEF Next, RunOnce, vars, Tick, Schedule, Cancel, Erase, Wake, RunDue,
                RequestShutdown, Stop, FetchDue, EndBatch, DispatchUnhandled,
                RecordStart, HandlerReturns, HandlerRaises, AdvanceAfterSuccess,
                OnFailure, RowGone
  <2>3. PICK d \in Nat : d = Cardinality(Exposed') /\ d <= e
    <3>1. Exposed' \subseteq Exposed BY <1>7, ExposedShrinks
    <3>2. IsFiniteSet(Exposed') /\ Cardinality(Exposed') <= Cardinality(Exposed)
      BY <1>4, <3>1, FS_Subset
    <3> QED BY <1>2, <3>2, FS_CardinalityType
  <2> QED BY <1>2, <1>3, <2>1, <2>2, <2>3 DEF ExposureInv
<1> QED BY <1>5, <1>6, <1>7

(* Every commit of the runner is a step of JobCycles, or none of its        *)
(* business.                                                                *)
LEMMA StandingOf ==
    ASSUME TypeOK
    PROVE  /\ DOMAIN Standing = Jobs
           /\ \A j \in Jobs : /\ Standing[j] = "absent" <=> row[j] = "absent"
                              /\ Standing[j] = "armed" <=> row[j] = "active"
                              /\ Standing[j] = "retired" <=> row[j] \in {"inactive", "erased"}
BY DEF Standing, TypeOK

(* Rows that change among the inactive and the erased leave the standing;   *)
(* an active row that leaves retires its job.                               *)
LEMMA StandingChange ==
    ASSUME TypeOK, NEW j \in Jobs, row[j] # "absent",
           NEW s \in {"inactive", "erased"}, row' = [row EXCEPT ![j] = s]
    PROVE  /\ row[j] = "active" => Standing' = [Standing EXCEPT ![j] = "retired"]
           /\ row[j] # "active" => Standing' = Standing
<1>1. row'[j] = s /\ \A k \in Jobs : k # j => row'[k] = row[k] BY DEF TypeOK
<1>2. \A k \in Jobs : k # j => Standing'[k] = Standing[k] BY <1>1 DEF Standing
<1>3. Standing'[j] = "retired" BY <1>1 DEF Standing
<1>4. row[j] # "active" => Standing[j] = "retired" BY DEF Standing, TypeOK
<1>5. Standing = [k \in Jobs |-> Standing[k]] /\ Standing' = [k \in Jobs |-> Standing'[k]]
  BY DEF Standing
<1> HIDE DEF Standing
<1> QED BY <1>2, <1>3, <1>4, <1>5

LEMMA NextCycles ==
    CycleInv /\ ExposureInv /\ ExposureInv' /\ [Next]_vars
    => [Cycles!CyclesNext]_(Cycles!cycleVars)
<1> SUFFICES ASSUME CycleInv, ExposureInv, ExposureInv', [Next]_vars
             PROVE  [Cycles!CyclesNext]_(Cycles!cycleVars)
  OBVIOUS
<1>1. TypeOK /\ DispatchInv /\ HistoryInv /\ ClockInv BY DEF CycleInv, TypeInv
<1>2. ~ RecordCompletion => UNCHANGED <<Fires, Cardinality(Repeated)>>
  BY OnlyCompletionSucceeds DEF SuccessesKept
<1>3. CASE UNCHANGED <<row, nextRun, faults>> /\ ~ RecordCompletion
  <2>1. Standing' = Standing BY <1>3 DEF Standing
  <2> QED BY <1>2, <1>3, <2>1 DEF Cycles!cycleVars
<1>4. ASSUME NEW j \in Jobs, Schedule(j)
      PROVE  Cycles!Arm(j) /\ UNCHANGED <<Fires, Cardinality(Repeated), faults>>
  <2>1. UNCHANGED <<runs, faults>> /\ row[j] = "absent" /\ row' = [row EXCEPT ![j] = "active"]
    BY <1>4 DEF Schedule
  <2>2. UNCHANGED <<Fires, Cardinality(Repeated)>>
    BY <2>1 DEF Fires, Fire, Successes, Repeated
  <2>3. nextRun' \in [Jobs -> Nat] /\ \A k \in Jobs \ {j} : nextRun'[k] = nextRun[k]
    BY <1>1, <1>4, RunnerAssumption DEF Schedule, IsFirst, TypeOK
  <2>4. Standing[j] = "absent" BY <2>1 DEF Standing
  <2>5. Standing' = [Standing EXCEPT ![j] = "armed"]
    <3>1. row'[j] = "active" /\ \A k \in Jobs : k # j => row'[k] = row[k]
      BY <1>1, <2>1 DEF TypeOK
    <3>2. \A k \in Jobs : k # j => Standing'[k] = Standing[k] BY <3>1 DEF Standing
    <3>3. Standing'[j] = "armed" BY <3>1 DEF Standing
    <3>4. Standing = [k \in Jobs |-> Standing[k]] /\ Standing' = [k \in Jobs |-> Standing'[k]]
      BY DEF Standing
    <3> HIDE DEF Standing
    <3> QED BY <3>2, <3>3, <3>4
  <2> QED BY <2>1, <2>2, <2>3, <2>4, <2>5 DEF Cycles!Arm, Cycles!MoveCycle
<1>5. ASSUME NEW j \in Jobs, Cancel(j) \/ Erase(j) PROVE [Cycles!CyclesNext]_(Cycles!cycleVars)
  <2>1. PICK s \in {"inactive", "erased"} : row[j] # "absent" /\ row' = [row EXCEPT ![j] = s]
    BY <1>5 DEF Cancel, Erase, Present
  <2>2. UNCHANGED <<nextRun, faults>> /\ ~ RecordCompletion
    BY <1>5 DEF Cancel, Erase, pollVars, RecordCompletion, TypeOK
  <2>3. CASE row[j] = "active"
    <3>1. Standing[j] = "armed" BY <2>3 DEF Standing
    <3>2. Cycles!Retire(j) BY <1>1, <1>2, <2>1, <2>2, <2>3, <3>1, StandingChange DEF Cycles!Retire
    <3> QED BY <3>2 DEF Cycles!CyclesNext
  <2>4. CASE row[j] # "active"
    BY <1>1, <1>2, <2>1, <2>2, <2>4, StandingChange DEF Cycles!cycleVars
  <2> QED BY <2>3, <2>4
<1>6. CASE RecordCompletion
  <2>1. cur \in Jobs /\ Standing[cur] # "absent"
    BY <1>1, <1>6, StandingOf DEF RecordCompletion, TypeOK, ClockInv, InFlight
  <2>2. UNCHANGED <<row, nextRun, faults>> BY <1>6 DEF RecordCompletion
  <2>3. Standing' = Standing BY <2>2 DEF Standing
  <2>4. Fires' = Fires \cup {<<cur, nextRun[cur]>>} BY <1>6, CompletionSucceeds
  <2>5. CASE cur \in Exposed
    <3>1. <<cur, nextRun[cur]>> \in Fires BY <1>6, <2>5, CompletionSucceeds
    <3>2. PICK n \in Nat : n = Cardinality(Repeated)
      BY <1>1, SuccessesFinite, FS_CardinalityType
    <3>3. Cardinality(Repeated') = n + 1
      BY <1>1, <1>6, <2>5, <3>2, CompletionSucceeds, SuccessesFinite, FS_AddElement
    <3>4. Cardinality(Exposed') \in Nat
      <4>1. IsFiniteSet(Exposed) BY <1>1, SuccessesFinite
      <4> QED BY <1>6, <4>1, CompletionSucceeds, FS_RemoveElement, FS_CardinalityType
    <3>5. n < faults
      BY <1>1, <2>2, <3>2, <3>3, <3>4 DEF ExposureInv, TypeOK
    <3> QED BY <2>1, <2>2, <2>3, <2>4, <3>1, <3>2, <3>3, <3>5
            DEF Cycles!CyclesNext, Cycles!Settle
  <2>6. CASE cur \notin Exposed
    <3>1. <<cur, nextRun[cur]>> \notin Fires /\ Repeated' = Repeated
      BY <1>6, <2>6, CompletionSucceeds
    <3> QED BY <2>1, <2>2, <2>3, <2>4, <3>1 DEF Cycles!CyclesNext, Cycles!Settle
  <2> QED BY <2>5, <2>6
<1>7. CASE AdvanceAfterSuccess \/ OnFailure
  <2>1. /\ cur \in Jobs /\ row[cur] # "absent" /\ UNCHANGED faults
        /\ nextRun[cur] <= now /\ (AdvanceAfterSuccess => nextRun[cur] <= doneAt)
        /\ now \in Nat /\ doneAt \in Nat /\ ~ RecordCompletion
    BY <1>1, <1>7 DEF AdvanceAfterSuccess, OnFailure, TypeOK, ClockInv, InFlight, RecordCompletion
  <2>2. \/ row' = [row EXCEPT ![cur] = "inactive"] /\ nextRun' = nextRun
        \/ /\ row' = row /\ nextRun' \in [Jobs -> Nat]
           /\ nextRun'[cur] > nextRun[cur]
           /\ \A k \in Jobs \ {cur} : nextRun'[k] = nextRun[k]
    BY <1>1, <1>7, <2>1, AdvanceEffect, FailureEffect DEF TypeOK
  <2>3. CASE row' = [row EXCEPT ![cur] = "inactive"] /\ nextRun' = nextRun
    <3>1. CASE row[cur] = "active"
      <4>1. Standing[cur] = "armed" BY <2>1, <3>1 DEF Standing
      <4>2. Standing' = [Standing EXCEPT ![cur] = "retired"]
        BY <1>1, <2>1, <2>3, <3>1, StandingChange
      <4> QED BY <1>2, <2>1, <2>3, <4>1, <4>2 DEF Cycles!CyclesNext, Cycles!Retire
    <3>2. CASE row[cur] # "active"
      <4>1. Standing' = Standing BY <1>1, <2>1, <2>3, <3>2, StandingChange
      <4> QED BY <1>2, <2>1, <2>3, <4>1 DEF Cycles!cycleVars
    <3> QED BY <3>1, <3>2
  <2>4. CASE /\ row' = row /\ nextRun' \in [Jobs -> Nat]
             /\ nextRun'[cur] > nextRun[cur]
             /\ \A k \in Jobs \ {cur} : nextRun'[k] = nextRun[k]
    <3>1. Standing' = Standing BY <2>4 DEF Standing
    <3>2. Standing[cur] # "absent" BY <1>1, <2>1, StandingOf
    <3> QED BY <1>2, <2>1, <2>4, <3>1, <3>2
            DEF Cycles!CyclesNext, Cycles!Rearm, Cycles!MoveCycle
  <2> QED BY <2>2, <2>3, <2>4
<1>8. CASE DatabaseError \/ Crash
  <2>1. UNCHANGED <<row, nextRun>> /\ faults' = faults + 1 /\ ~ RecordCompletion
    BY <1>8 DEF DatabaseError, Crash, PollFailed, tableVars, RecordCompletion
  <2>2. Standing' = Standing BY <2>1 DEF Standing
  <2> QED BY <1>2, <2>1, <2>2 DEF Cycles!CyclesNext, Cycles!Fail
<1>9. CASE UNCHANGED <<row, nextRun, faults>>
  BY <1>3, <1>6, <1>9
<1> QED
  BY <1>4, <1>5, <1>6, <1>7, <1>8, <1>9
  DEF Next, RunOnce, vars, Tick, Wake, RunDue, RequestShutdown, Stop, FetchDue,
      EndBatch, DispatchUnhandled, RecordStart, HandlerReturns, HandlerRaises,
      RowGone, PollFailed, tableVars, Cycles!CyclesNext

(* The runner implements JobCycles: a job succeeds once for an instant, and  *)
(* each crash or database exception lets at most one success be repeated,   *)
(* for every set of jobs, every series and any number of faults.            *)
THEOREM RunnerImplementsJobCycles == Spec => ImplementsJobCycles
<1>1. Init => Cycles!CyclesInit
  <2> SUFFICES ASSUME Init PROVE Cycles!CyclesInit
    OBVIOUS
  <2>1. Successes = {} BY DEF Init, Successes
  <2>2. Fires = {} /\ Repeated = {} BY <2>1 DEF Fires, Repeated
  <2>3. Standing = [j \in Jobs |-> "absent"] BY DEF Init, Standing
  <2> QED BY <2>2, <2>3, FS_EmptySet DEF Init, Cycles!CyclesInit
<1> QED
  BY <1>1, NextCycles, InitExposure, NextExposure, InitCycleInv, NextCycleInv, PTL
  DEF Spec, ImplementsJobCycles, Cycles!CyclesSpec
=============================================================================
