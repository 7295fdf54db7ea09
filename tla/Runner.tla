------------------------------- MODULE Runner -------------------------------
(***************************************************************************)
(* The in-process scheduler of tulip-storage (runner/runner.py, ADR-0002). *)
(*                                                                         *)
(* One asyncio task polls scheduled_jobs, dispatches every due row to the  *)
(* handler registered for its kind, and records each fire in               *)
(* scheduled_job_runs.  Every commit of a fire is a step of its own, so    *)
(* that requests running in the thread pool (schedule, cancel, household   *)
(* erasure), the clock, a crash, or an exception of the database fall      *)
(* between any two of them.                                                *)
(*                                                                         *)
(* The event loop is a resource: while pc is not "sleeping" the polling    *)
(* task holds it, because neither run_once nor a registered handler        *)
(* suspends; Runner.stop and POST /v1/scheduled-jobs/run-due are           *)
(* coroutines of the same loop and can only run while it is free.          *)
(***************************************************************************)
EXTENDS Naturals, Sequences, FiniteSets

CONSTANTS
    Jobs,        \* the ids that scheduled_jobs rows may get
    OneShot,     \* those inserted by schedule_one: rrule IS NULL
    Handled,     \* those whose kind has a registered handler
    Occurs,      \* Occurs[j]: the instants of j's series (fire_at if one-shot)
    Backoff,     \* RETRY_BACKOFF, a sequence of delays
    MaxTime,     \* bound: the clock stops here
    MaxFaults,   \* bound: crashes and database exceptions together
    MaxOrphans   \* bound: the count of no-handler rows saturates here

MaxRetries == Len(Backoff)

ASSUME RunnerAssumption ==
    /\ OneShot \subseteq Jobs
    /\ Handled \subseteq Jobs
    /\ Occurs \in [Jobs -> SUBSET Nat]
    /\ Backoff \in Seq(Nat \ {0})
    /\ MaxTime \in Nat
    /\ MaxFaults \in Nat
    /\ MaxOrphans \in Nat

VARIABLES
    now,        \* the injected clock
    row,        \* row[j]: "absent", "active", "inactive" (is_active) or "erased"
    nextRun,    \* scheduled_jobs.next_run_at
    lastRun,    \* scheduled_jobs.last_run_at, 0 for NULL
    runs,       \* scheduled_job_runs of handled jobs, in insertion order
    orphanRuns, \* how many no-handler rows each job has (saturating)
    pc,         \* where the polling coroutine stands
    caller,     \* "loop" (the task) or "run_due" (the admin endpoint)
    due,        \* the detached snapshot not dispatched yet
    fired,      \* len(due) > 0 at the last fetch
    cur,        \* the job being dispatched: the one of the last row of runs
    doneAt,     \* completed_at, a local of the dispatch; 0 outside of one
    shutdown,   \* the process was asked to stop
    faults      \* crashes and database exceptions so far

tableVars == <<row, nextRun, lastRun, runs, orphanRuns>>
pollVars  == <<pc, caller, due, fired, cur, doneAt>>
vars      == <<now, tableVars, pollVars, shutdown, faults>>

Status == {"running", "success", "failed", "dead_letter"}
Pc     == {"sleeping", "poll", "batch", "started", "returned", "raised",
           "completed", "exited"}

(* One row of scheduled_job_runs; ended is its completed_at, 0 for NULL.    *)
(* cycle (the next_run_at the row was fired for) and effect (the handler    *)
(* committed its own work) are history.                                     *)
Run == [job : Jobs, cycle : Nat, status : Status, retry : Nat, ended : Nat,
        effect : BOOLEAN]

TypeOK ==
    /\ now \in Nat
    /\ row \in [Jobs -> {"absent", "active", "inactive", "erased"}]
    /\ nextRun \in [Jobs -> Nat]
    /\ lastRun \in [Jobs -> Nat]
    /\ runs \in Seq(Run)
    /\ orphanRuns \in [Jobs -> Nat]
    /\ pc \in Pc
    /\ caller \in {"loop", "run_due"}
    /\ due \in SUBSET Jobs
    /\ fired \in BOOLEAN
    /\ cur \in Jobs
    /\ doneAt \in Nat
    /\ shutdown \in BOOLEAN
    /\ faults \in Nat

-----------------------------------------------------------------------------

(* The occurrences of j's series strictly after t (rule.after). *)
LaterOrNow(j, t) == {o \in Occurs[j] : o >= t}    \* mutant: rule.after(inc=True)
Later(j, t) == {o \in Occurs[j] : o > t}

IsFirst(o, S) == o \in S /\ \A p \in S : o <= p

FailedRuns(j) == {i \in DOMAIN runs : runs[i].job = j /\ runs[i].status = "failed"}

(* The count _on_failure takes: all the FAILED rows the job ever had.       *)
PriorFailures(j) == Cardinality(FailedRuns(j))

(* The query of _fetch_due. *)
IsDue(j) == row[j] = "active" /\ nextRun[j] <= now

(* The run row the coroutine is working on. *)
this == Len(runs)

Mark(i, status, retry) ==
    runs' = [runs EXCEPT ![i] = [@ EXCEPT !.status = status, !.retry = retry,
                                          !.ended = now]]

Present(j) == row[j] \in {"active", "inactive"}

-----------------------------------------------------------------------------

Init ==
    /\ now = 0
    /\ row = [j \in Jobs |-> "absent"]
    /\ nextRun = [j \in Jobs |-> 0]
    /\ lastRun = [j \in Jobs |-> 0]
    /\ runs = <<>>
    /\ orphanRuns = [j \in Jobs |-> 0]
    /\ pc = "poll"
    /\ caller = "loop"
    /\ due = {}
    /\ fired = FALSE
    /\ cur \in Jobs
    /\ doneAt = 0
    /\ shutdown = FALSE
    /\ faults = 0

Tick ==
    /\ now < MaxTime
    /\ now' = now + 1
    /\ UNCHANGED <<tableVars, pollVars, shutdown, faults>>

-----------------------------------------------------------------------------
(* Requests of the thread pool; each is one transaction.                    *)

(* schedule_one and schedule_recurring: the first occurrence is the first   *)
(* next_run_at; a series with no occurrence is refused.                     *)
Schedule(j) ==
    /\ row[j] = "absent"
    /\ \E o \in Occurs[j] :
          /\ IsFirst(o, Occurs[j])
          /\ nextRun' = [nextRun EXCEPT ![j] = o]
    /\ row' = [row EXCEPT ![j] = "active"]
    /\ UNCHANGED <<now, lastRun, runs, orphanRuns, pollVars, shutdown, faults>>

Cancel(j) ==
    /\ row[j] = "active"
    /\ row' = [row EXCEPT ![j] = "inactive"]
    /\ UNCHANGED <<now, nextRun, lastRun, runs, orphanRuns, pollVars, shutdown,
                   faults>>

(* The household is erased: the foreign keys cascade to the job and its     *)
(* runs.  The rows of an erased job stay in runs as history only.           *)
Erase(j) ==
    /\ Present(j)
    /\ row' = [row EXCEPT ![j] = "erased"]
    /\ UNCHANGED <<now, nextRun, lastRun, runs, orphanRuns, pollVars, shutdown,
                   faults>>

-----------------------------------------------------------------------------
(* Coroutines that take the event loop when the polling task sleeps.        *)

(* wait_for(stop_event.wait(), poll_interval) times out. *)
Wake ==
    /\ pc = "sleeping"
    /\ pc' = "poll" /\ caller' = "loop"
    /\ UNCHANGED <<now, tableVars, due, fired, cur, doneAt, shutdown, faults>>

(* POST /v1/scheduled-jobs/run-due awaits run_once itself. *)
RunDue ==
    /\ pc = "sleeping"
    /\ pc' = "poll" /\ caller' = "run_due"
    /\ UNCHANGED <<now, tableVars, due, fired, cur, doneAt, shutdown, faults>>

RequestShutdown ==
    /\ ~shutdown /\ pc # "exited"
    /\ shutdown' = TRUE
    /\ UNCHANGED <<now, tableVars, pollVars, faults>>

(* stop(): sets the event, and the sleeping loop sees it and returns. *)
Stop ==
    /\ pc = "sleeping" /\ shutdown
    /\ pc' = "exited"
    /\ UNCHANGED <<now, tableVars, caller, due, fired, cur, doneAt, shutdown,
                   faults>>

-----------------------------------------------------------------------------
(* run_once.                                                                *)

FetchDue ==
    /\ pc = "poll"
    /\ due' = {j \in Jobs : IsDue(j)}
    /\ fired' = (due' # {})
    /\ pc' = "batch"
    /\ UNCHANGED <<now, tableVars, caller, cur, doneAt, shutdown, faults>>

(* The batch is done: run_due returns to its client; the loop polls again   *)
(* at once if anything was dispatched, and sleeps otherwise.                *)
EndBatchBusy ==    \* mutant: the loop polls again even after an empty batch
    /\ pc = "batch" /\ due = {}
    /\ pc' = IF caller = "loop" THEN "poll" ELSE "sleeping"
    /\ UNCHANGED <<now, tableVars, caller, due, fired, cur, doneAt, shutdown,
                   faults>>
EndBatch ==
    /\ pc = "batch" /\ due = {}
    /\ pc' = IF caller = "loop" /\ fired THEN "poll" ELSE "sleeping"
    /\ UNCHANGED <<now, tableVars, caller, due, fired, cur, doneAt, shutdown,
                   faults>>

(* _dispatch without a handler: a FAILED row, and next_run_at stays put. *)
DispatchUnhandled(j) ==
    /\ pc = "batch" /\ j \in due /\ j \notin Handled
    /\ row[j] # "erased"
    /\ orphanRuns' = [orphanRuns EXCEPT ![j] =
                         IF @ < MaxOrphans THEN @ + 1 ELSE @]
    /\ due' = due \ {j}
    /\ UNCHANGED <<now, row, nextRun, lastRun, runs, pc, caller, fired, cur,
                   doneAt, shutdown, faults>>

RecordStart(j) ==
    /\ pc = "batch" /\ j \in due /\ j \in Handled
    /\ row[j] # "erased"
    /\ runs' = Append(runs, [job |-> j, cycle |-> nextRun[j],
                             status |-> "running", retry |-> 0,
                             ended |-> 0, effect |-> FALSE])
    /\ cur' = j
    /\ due' = due \ {j}
    /\ pc' = "started"
    /\ UNCHANGED <<now, row, nextRun, lastRun, orphanRuns, caller, fired,
                   doneAt, shutdown, faults>>

(* The handler returns, having committed its work or found nothing to do. *)
HandlerReturns(effect) ==
    /\ pc = "started"
    /\ effect => row[cur] # "erased"
    /\ runs' = [runs EXCEPT ![this] = [@ EXCEPT !.effect = effect]]
    /\ pc' = "returned"
    /\ UNCHANGED <<now, row, nextRun, lastRun, orphanRuns, caller, due, fired,
                   cur, doneAt, shutdown, faults>>

HandlerRaises ==
    /\ pc = "started"
    /\ pc' = "raised"
    /\ UNCHANGED <<now, tableVars, caller, due, fired, cur, doneAt, shutdown,
                   faults>>

RecordCompletion ==
    /\ pc = "returned" /\ row[cur] # "erased"
    /\ doneAt' = now
    /\ Mark(this, "success", 0)
    /\ pc' = "completed"
    /\ UNCHANGED <<now, row, nextRun, lastRun, orphanRuns, caller, due, fired,
                   cur, shutdown, faults>>

(* A one-shot job and an exhausted series are deactivated. *)
AdvanceAfterSuccess ==
    /\ pc = "completed" /\ row[cur] # "erased"
    /\ lastRun' = [lastRun EXCEPT ![cur] = doneAt]
    /\ IF cur \in OneShot \/ Later(cur, doneAt) = {}
         THEN /\ row' = [row EXCEPT ![cur] = "inactive"]
              /\ UNCHANGED nextRun
         ELSE /\ \E o \in Later(cur, doneAt) :
                    /\ IsFirst(o, Later(cur, doneAt))
                    /\ nextRun' = [nextRun EXCEPT ![cur] = o]
              /\ UNCHANGED row
    /\ doneAt' = 0
    /\ pc' = "batch"
    /\ UNCHANGED <<now, runs, orphanRuns, caller, due, fired, cur, shutdown,
                   faults>>

OnFailureStillActive ==    \* mutant: the dead letter leaves is_active as it is
    /\ pc = "raised" /\ row[cur] # "erased"
    /\ LET retryCount == PriorFailures(cur) IN
         IF retryCount >= MaxRetries
           THEN Mark(this, "dead_letter", retryCount) /\ UNCHANGED nextRun
           ELSE /\ Mark(this, "failed", retryCount)
                /\ nextRun' = [nextRun EXCEPT ![cur] = now + Backoff[retryCount + 1]]
    /\ pc' = "batch"
    /\ UNCHANGED <<now, row, lastRun, orphanRuns, caller, due, fired, cur, doneAt,
                   shutdown, faults>>
OnFailure ==
    /\ pc = "raised" /\ row[cur] # "erased"
    /\ LET retryCount == PriorFailures(cur) IN
         IF retryCount >= MaxRetries
           THEN /\ Mark(this, "dead_letter", retryCount)
                /\ row' = [row EXCEPT ![cur] = "inactive"]
                /\ UNCHANGED nextRun
           ELSE /\ Mark(this, "failed", retryCount)
                /\ nextRun' = [nextRun EXCEPT ![cur] = now + Backoff[retryCount + 1]]
                /\ UNCHANGED row
    /\ pc' = "batch"
    /\ UNCHANGED <<now, lastRun, orphanRuns, caller, due, fired, cur, doneAt,
                   shutdown, faults>>

-----------------------------------------------------------------------------
(* What ends a poll early.                                                  *)

(* An exception leaves run_once: the rest of the batch is dropped, and the  *)
(* loop logs poll_failed and sleeps (run_due answers 500).                  *)
PollEndsTask ==    \* mutant: _loop does not catch
    /\ pc' = "exited"
    /\ due' = {} /\ doneAt' = 0
    /\ UNCHANGED <<now, tableVars, caller, fired, cur, shutdown>>
PollFailed ==
    /\ pc' = "sleeping"
    /\ due' = {} /\ doneAt' = 0
    /\ UNCHANGED <<now, tableVars, caller, fired, cur, shutdown>>

(* The row a step works on was erased: its insert violates the foreign key, *)
(* or scalar_one() finds nothing.                                           *)
RowGone ==
    /\ \/ pc = "batch" /\ \E j \in due : row[j] = "erased"
       \/ pc \in {"returned", "raised", "completed"} /\ row[cur] = "erased"
    /\ PollFailed
    /\ UNCHANGED faults

(* The database refuses a statement (locked past its timeout, disk full). *)
DatabaseError ==
    /\ faults < MaxFaults
    /\ \/ pc \in {"poll", "returned", "raised", "completed"}
       \/ pc = "batch" /\ due # {}
    /\ PollFailed
    /\ faults' = faults + 1

(* The process dies and is started again: only the tables survive. *)
Crash ==
    /\ faults < MaxFaults /\ pc # "exited"
    /\ pc' = "poll" /\ caller' = "loop"
    /\ due' = {} /\ fired' = FALSE /\ doneAt' = 0 /\ shutdown' = FALSE
    /\ faults' = faults + 1
    /\ UNCHANGED <<now, tableVars, cur>>

-----------------------------------------------------------------------------

(* The steps the polling coroutine takes while it holds the event loop. *)
RunOnce ==
    \/ FetchDue \/ EndBatch
    \/ \E j \in Jobs : DispatchUnhandled(j) \/ RecordStart(j)
    \/ \E effect \in BOOLEAN : HandlerReturns(effect)
    \/ HandlerRaises
    \/ RecordCompletion \/ AdvanceAfterSuccess \/ OnFailure
    \/ RowGone

Next ==
    \/ Tick
    \/ \E j \in Jobs : Schedule(j) \/ Cancel(j) \/ Erase(j)
    \/ Wake \/ RunDue \/ RequestShutdown \/ Stop
    \/ RunOnce
    \/ DatabaseError \/ Crash

Spec == Init /\ [][Next]_vars

(* The event loop runs what is ready: the coroutine that holds it goes on,  *)
(* the poll timer fires, and a ready stop() gets its turn as soon as the    *)
(* loop is free (the ready queue is first-in first-out, hence strong).      *)
FairSpec ==
    /\ Spec
    /\ WF_vars(RunOnce)
    /\ WF_vars(Wake)
    /\ SF_vars(Stop)

-----------------------------------------------------------------------------
(* Safety.                                                                  *)

(* ADR-0002 section 7: a failed run is retried no sooner than the backoff   *)
(* of its retry_count after it ended, and no run follows a dead letter,     *)
(* whatever polls, crashes and stale snapshots come between.                *)
RetriesWait ==
    \A i, k \in DOMAIN runs :
        i < k /\ runs[i].job = runs[k].job =>
            /\ runs[i].status # "dead_letter"
            /\ runs[i].status = "failed" =>
                   runs[k].cycle >= runs[i].ended + Backoff[runs[i].retry + 1]

(* The ladder as _on_failure climbs it: the n-th FAILED row in the life of  *)
(* a job carries retry_count n-1, and the failure after MAX_RETRIES of them *)
(* is the DEAD_LETTER row.  The comment of the count says "since the last   *)
(* success", and the enum "third failure": neither is what it does.         *)
RetryLadder ==
    \A i \in DOMAIN runs :
        LET before == {k \in FailedRuns(runs[i].job) : k < i} IN
        runs[i].status \in {"failed", "dead_letter"} =>
            /\ runs[i].retry = Cardinality(before)
            /\ runs[i].status = "dead_letter" <=> runs[i].retry = MaxRetries

(* A dead-lettered job is deactivated in the same commit and is never       *)
(* fired again (no run of it follows), although its row may still sit in a  *)
(* poll's detached snapshot when that commit happens.                       *)
DeadLetterIsFinal ==
    \A i \in DOMAIN runs :
        runs[i].status = "dead_letter" =>
            /\ row[runs[i].job] # "active"
            /\ \A k \in DOMAIN runs : k > i => runs[k].job # runs[i].job

(* ADR-0002, Neutral 3: at most one successful fire per next_run_at.  It    *)
(* rests on _record_completion and _advance_after_success both committing.  *)
OneSuccessPerCycle ==
    \A i, k \in DOMAIN runs :
        /\ i # k
        /\ runs[i].status = "success" /\ runs[k].status = "success"
        => <<runs[i].job, runs[i].cycle>> # <<runs[k].job, runs[k].cycle>>

(* The same for the handler's own commit, which precedes both: what a user  *)
(* sees (an envelope refilled twice) is this one.                           *)
OneEffectPerCycle ==
    \A i, k \in DOMAIN runs :
        /\ i # k
        /\ runs[i].effect /\ runs[k].effect
        => <<runs[i].job, runs[i].cycle>> # <<runs[k].job, runs[k].cycle>>

-----------------------------------------------------------------------------
(* Action properties.                                                       *)

(* cancel: once a job is inactive no poll picks it up again; only a         *)
(* snapshot taken before may still fire it, and nothing reactivates it.     *)
CancelIsFinal ==
    [][\A j \in Jobs :
          row[j] = "inactive" => /\ row'[j] # "active"
                                 /\ j \in due' => j \in due]_vars

(* Every commit that reschedules a job moves next_run_at forward, past the  *)
(* instant of the fire: retries and recurrences never replay the past.      *)
ScheduleMovesForward ==
    [][\A j \in Jobs :
          nextRun'[j] # nextRun[j] /\ row[j] # "absent" =>
              /\ nextRun'[j] > nextRun[j]
              /\ j = cur /\ nextRun'[j] > doneAt]_vars

-----------------------------------------------------------------------------
(* Refinement.                                                              *)

(* The runner implements JobCycles: no interleaving of cancels, erasures,   *)
(* shutdowns and ticks settles a cycle twice, and each crash or database    *)
(* exception lets at most one settled cycle be settled again.               *)
Successes == {i \in DOMAIN runs : runs[i].status = "success"}
Fire(i)   == <<runs[i].job, runs[i].cycle>>
Fires     == {Fire(i) : i \in Successes}
Repeated  == {i \in Successes : \E k \in Successes : k < i /\ Fire(k) = Fire(i)}
Standing  == [j \in Jobs |-> CASE row[j] = "absent" -> "absent"
                             [] row[j] = "active" -> "armed"
                             [] OTHER -> "retired"]

Cycles == INSTANCE JobCycles WITH
    status <- Standing, cycle <- nextRun, settled <- Fires,
    repeats <- Cardinality(Repeated), faulty <- faults

ImplementsJobCycles == Cycles!CyclesSpec

-----------------------------------------------------------------------------
(* Liveness.                                                                *)

(* A job that is due is eventually dispatched (which moves it forward or    *)
(* deactivates it), cancelled or erased; faults only delay it.              *)
DueJobsAreServed ==
    \A j \in Handled :
        (row[j] = "active" /\ nextRun[j] <= now /\ ~shutdown) ~>
            (row[j] # "active" \/ nextRun[j] > now \/ shutdown)

(* stop() gets its turn and the polling task ends, unless a job that no     *)
(* handler serves is due: then every poll finds it again.                   *)
OrphanDue == \E j \in Jobs \ Handled : IsDue(j)

StopDrainsUnlessOrphaned ==
    (shutdown /\ ~OrphanDue) ~> (pc = "exited" \/ ~shutdown \/ OrphanDue)

=============================================================================
