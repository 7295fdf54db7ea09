------------------------------- MODULE Pools --------------------------------
(***************************************************************************)
(* The pools of the shadow ledger in one currency: envelopes and sinking    *)
(* funds, the money that moves between them (inflow, transfer, refill,      *)
(* paired spend), the refill schedule of an envelope and the handler that   *)
(* serves it.                                                               *)
(*                                                                         *)
(* A request reads, then commits once; creating or cancelling a schedule    *)
(* commits twice, the job in the runner's session and then the audit row in *)
(* the request's own.  Fires are coroutines that never suspend, so two of   *)
(* them never overlap.  A fire commits its shadow transaction and later, in *)
(* another session, the job's last_run_at.                                  *)
(***************************************************************************)
EXTENDS Integers, Sequences, FiniteSetsExt, SequencesExt

CONSTANTS
    Slots,         \* requests in flight at the same time
    Envelopes, Funds,   \* ids of the two kinds of user pools
    Rules,         \* the refill rules a body may hold
    Amounts,
    Moves,         \* the reasons of the transactions that callers post
    Lookback,      \* FIRST_FIRE_INFLOW_LOOKBACK, in days
    MaxDay, MaxShadow   \* bounds: days, shadow transactions

VARIABLES
    pool,       \* pool[p]: the row of allocation_pools with its refill rule
    system,     \* rows of each system pool of the currency
    shadow,     \* posted shadow transactions, in the order of their commits
    job,        \* job[e]: the scheduled_jobs row of the envelope
    audit,      \* audit[e]: the actions audited about that row
    today,
    counted,    \* history: the transactions the last served fire of e saw
    req,        \* req[s]: what the request in slot s has read, or Idle
    overlap,    \* history: two requests have been in flight at once
    lost        \* history: a request died before its last commit

vars == <<pool, system, shadow, job, audit, today, counted, req, overlap, lost>>

Idle   == [op |-> "idle"]
Pools  == Envelopes \cup Funds
Never  == MaxDay + 1
NoRule == [kind |-> "none", amount |-> 0, own |-> TRUE]
Days   == 0 .. MaxDay

(* own: the currency of the amount is the currency of the envelope.         *)
Rule == [kind : {"none", "fixed", "fill", "percent"}, amount : Nat, own : BOOLEAN]

ASSUME PoolsAssumption ==
    /\ MaxDay \in Nat /\ MaxShadow \in Nat /\ Lookback \in Nat
    /\ Amounts \subseteq Nat \ {0} /\ Rules \subseteq Rule
    /\ Moves \subseteq {"inflow", "transfer", "refill", "spend"}
    /\ Pools \cap {"inflow", "unallocated", "spent"} = {}

Sides == Pools \cup {"inflow", "unallocated", "spent"}

(* Of an inflow, day is the date the caller gave and on that of its commit; *)
(* the other dates play no part here and are 0.                             *)
Shadow == [reason : {"inflow", "transfer", "refill", "auto", "spend"},
           from : Sides, to : Sides, amount : Nat, day : Days, on : Days]

Request ==
    {Idle}
    \cup [op : {"post"}, tx : Shadow, made : BOOLEAN]
    \cup [op : {"update"}, pool : Pools, rule : Rule, saw : Rule]
    \cup [op : {"schedule", "scheduled", "cancel", "cancelled"}, pool : Pools]
    \cup [op : {"fire"}, pool : Pools, live : BOOLEAN, rule : Rule, saw : Int,
          income : SUBSET (1 .. MaxShadow), upto : 0 .. MaxShadow, made : BOOLEAN]
    \cup [op : {"fired"}, pool : Pools, upto : 0 .. MaxShadow]

(* Of the system pools there is one of each, whichever requests found none. *)
TypeOK ==
    /\ pool \in [Pools -> [state : {"absent", "active", "inactive"},
                           name : {"given", "redacted"}, rule : Rule]]
    /\ system \in 0 .. 1
    /\ shadow \in Seq(Shadow) /\ Len(shadow) <= MaxShadow
    /\ job \in [Pools -> [state : {"none", "active", "cancelled", "dead"},
                          last : Days \cup {Never}]]
    /\ audit \in [Pools -> SUBSET {"create", "cancel"}]
    /\ today \in Days
    /\ counted \in [Pools -> 0 .. MaxShadow]
    /\ req \in [Slots -> Request]
    /\ overlap \in BOOLEAN /\ lost \in BOOLEAN

Init ==
    /\ pool = [p \in Pools |-> [state |-> "absent", name |-> "given", rule |-> NoRule]]
    /\ system = 0
    /\ shadow = <<>>
    /\ job = [p \in Pools |-> [state |-> "none", last |-> Never]]
    /\ audit = [p \in Pools |-> {}]
    /\ today = 0
    /\ counted = [p \in Pools |-> 0]
    /\ req = [s \in Slots |-> Idle]
    /\ overlap = FALSE /\ lost = FALSE

-----------------------------------------------------------------------------
(* The shadow ledger.                                                       *)

Effect(t, p) == (IF t.to = p THEN t.amount ELSE 0) - (IF t.from = p THEN t.amount ELSE 0)

(* balance_for_pool, without as_of.                                         *)
BalanceIn(txs, p) == SumFunction([i \in DOMAIN txs |-> Effect(txs[i], p)])
Balance(p)        == BalanceIn(shadow, p)

Active(p) == pool[p].state = "active"
Exists(p) == pool[p].state # "absent"
Live(t)   == \A p \in {t.from, t.to} \cap Pools : Active(p)

(* post_shadow_transaction: one that is POSTED already is returned as it    *)
(* is, and every caller builds it POSTED.                                   *)
PostShadow(status, t) == status = "posted" \/ Live(t)

Tx(reason, from, to, a, d) ==
    [reason |-> reason, from |-> from, to |-> to, amount |-> a, day |-> d, on |-> 0]

(* get_or_create_system_pools: a request that saw none inserts its own, and *)
(* the unique index fails the second to do so, with all it wrote.           *)
MaterialisedAgain(made) ==            \* mutant: no unique index
    IF made THEN system' = system + 1 ELSE UNCHANGED system
Materialised(made) ==
    IF made THEN system = 0 /\ system' = 1 ELSE UNCHANGED system

-----------------------------------------------------------------------------
(* Requests.                                                                *)

Meets(s) == \E u \in Slots \ {s} : req[u] # Idle
Busy     == \E u \in Slots : req[u] # Idle

Begin(s, r) ==
    /\ req[s] = Idle
    /\ req' = [req EXCEPT ![s] = r]
    /\ overlap' = (overlap \/ Meets(s))
    /\ UNCHANGED <<pool, system, shadow, job, audit, today, counted, lost>>

To(s, r) == req' = [req EXCEPT ![s] = r] /\ UNCHANGED overlap

BeginPost(s, t) ==
    /\ Len(shadow) < MaxShadow /\ t.reason \in Moves
    /\ Begin(s, [op |-> "post", tx |-> t, made |-> t.reason # "transfer" /\ system = 0])

(* Only rows whose effects do not depend on what was read are one step.     *)
AtOnce(p, row) ==
    /\ pool' = [pool EXCEPT ![p] = row]
    /\ overlap' = (overlap \/ Busy)
    /\ UNCHANGED <<system, shadow, job, audit, today, counted, req, lost>>

New(rule) == [state |-> "active", name |-> "given", rule |-> rule]

CreateEnvelope(e) ==
    ~Exists(e) /\ \E r \in Rules \cup {NoRule} : AtOnce(e, New(r))
CreateSinkingFund(f) == ~Exists(f) /\ AtOnce(f, New(NoRule))

Deactivate(p) == AtOnce(p, [pool[p] EXCEPT !.state = "inactive"])
DeactivateEnvelope(e)    == Exists(e) /\ Deactivate(e)
DeactivateSinkingFund(f) == Exists(f) /\ Deactivate(f)

Redact(p) == AtOnce(p, [pool[p] EXCEPT !.name = "redacted"])
RedactEnvelope(e)    == pool[e].state = "inactive" /\ Redact(e)
RedactSinkingFund(f) == pool[f].state = "inactive" /\ Redact(f)

(* PATCH with a name, of an inactive pool too.                              *)
Rename(p) == AtOnce(p, [pool[p] EXCEPT !.name = "given"])
UpdateEnvelope(e)    == Exists(e) /\ Rename(e)
UpdateSinkingFund(f) == Exists(f) /\ Rename(f)

(* PATCH with a rule: neither activity nor the rule's currency is looked at. *)
BeginUpdate(s, p) ==
    /\ Exists(p)
    /\ \E r \in Rules : Begin(s, [op |-> "update", pool |-> p, rule |-> r,
                                  saw |-> pool[p].rule])

BeginTransferAny(s, p, q) ==          \* mutant: the destination is not looked at
    /\ p # q /\ Active(p) /\ Exists(q)
    /\ \E a \in Amounts : BeginPost(s, Tx("transfer", p, q, a, 0))
BeginTransfer(s, p, q) ==
    /\ p # q /\ Active(p) /\ Active(q)
    /\ \E a \in Amounts : BeginPost(s, Tx("transfer", p, q, a, 0))

BeginInflow(s) ==
    \E a \in Amounts, d \in Days : BeginPost(s, Tx("inflow", "inflow", "unallocated", a, d))

(* The refill of a user.                                                    *)
BeginRefill(s, e) ==
    /\ Exists(e)
    /\ \E a \in Amounts : BeginPost(s, Tx("refill", "unallocated", e, a, 0))

(* The shadow of a transaction with an expense posting tagged with a pool.  *)
BeginSpend(s, e) ==
    /\ Active(e)
    /\ \E a \in Amounts : BeginPost(s, Tx("spend", e, "spent", a, 0))

CommitPost(s) ==
    /\ req[s].op = "post"
    /\ Len(shadow) < MaxShadow
    /\ PostShadow("posted", req[s].tx)
    /\ Materialised(req[s].made)
    /\ shadow' = Append(shadow, [req[s].tx EXCEPT
                   !.on = IF req[s].tx.reason = "inflow" THEN today ELSE 0])
    /\ To(s, Idle)
    /\ UNCHANGED <<pool, job, audit, today, counted, lost>>

CommitUpdate(s) ==
    /\ req[s].op = "update"
    /\ pool' = IF req[s].rule = req[s].saw THEN pool
               ELSE [pool EXCEPT ![req[s].pool].rule = req[s].rule]
    /\ To(s, Idle)
    /\ UNCHANGED <<system, shadow, job, audit, today, counted, lost>>

(* A refusal, an error, a lock that is not granted, or the death of the     *)
(* process before the next commit.                                          *)
Abort(s) ==
    /\ req[s] # Idle
    /\ lost' = (lost \/ req[s].op \in {"scheduled", "cancelled", "fired"})
    /\ To(s, Idle)
    /\ UNCHANGED <<pool, system, shadow, job, audit, today, counted>>

-----------------------------------------------------------------------------
(* The refill schedule of an envelope.                                      *)

BeginSchedule(s, e) ==
    /\ Exists(e) /\ pool[e].rule # NoRule
    /\ Begin(s, [op |-> "schedule", pool |-> e])

BeginCancel(s, e) ==
    /\ Exists(e) /\ job[e].state = "active"
    /\ Begin(s, [op |-> "cancel", pool |-> e])

SetJob(e, state) ==
    /\ job' = [job EXCEPT ![e].state = state]
    /\ UNCHANGED <<pool, system, shadow, audit, today, counted, lost>>

CommitSchedule(s) ==
    /\ req[s].op = "schedule" /\ job[req[s].pool].state = "none"
    /\ SetJob(req[s].pool, "active")
    /\ To(s, [op |-> "scheduled", pool |-> req[s].pool])

(* 409 refill_schedule.already_exists: the key of the row is never cleared. *)
RefuseSchedule(s) ==
    /\ req[s].op = "schedule" /\ job[req[s].pool].state # "none"
    /\ To(s, Idle)
    /\ UNCHANGED <<pool, system, shadow, job, audit, today, counted, lost>>

CommitCancelForgotten(s) ==           \* mutant: the job is not written
    /\ req[s].op = "cancel"
    /\ SetJob(req[s].pool, job[req[s].pool].state)
    /\ To(s, [op |-> "cancelled", pool |-> req[s].pool])
CommitCancel(s) ==
    /\ req[s].op = "cancel"
    /\ SetJob(req[s].pool, "cancelled")
    /\ To(s, [op |-> "cancelled", pool |-> req[s].pool])

CommitAudit(s) ==
    /\ req[s].op \in {"scheduled", "cancelled"}
    /\ audit' = [audit EXCEPT ![req[s].pool] =
                    @ \cup {IF req[s].op = "scheduled" THEN "create" ELSE "cancel"}]
    /\ To(s, Idle)
    /\ UNCHANGED <<pool, system, shadow, job, today, counted, lost>>

-----------------------------------------------------------------------------
(* The envelope_refill handler.                                             *)

(* _inflow_window_start, and inflow_since of its date.                      *)
SinceAfter(e) ==                      \* mutant: the day of the last run is left out
    IF job[e].last = Never THEN today - Lookback ELSE job[e].last + 1
Since(e) == IF job[e].last = Never THEN today - Lookback ELSE job[e].last

Inflows(e) == {i \in DOMAIN shadow : shadow[i].reason = "inflow" /\ shadow[i].day >= Since(e)}

BeginFire(s, e) ==
    /\ job[e].state = "active"
    /\ \A u \in Slots : req[u].op \notin {"fire", "fired"}
    /\ Begin(s, [op |-> "fire", pool |-> e, live |-> Active(e), rule |-> pool[e].rule,
                 saw |-> Balance(e), income |-> Inflows(e), upto |-> Len(shadow),
                 made |-> system = 0])

Total(income) == SumFunction([i \in income |-> shadow[i].amount])

(* evaluate_refill_rule; a percentage rule takes all of the income.         *)
RefillAmountFixed(rule, balance, income) ==   \* mutant: what is there is not subtracted
    IF rule.kind = "percent" THEN Total(income)
    ELSE rule.amount
RefillAmount(rule, balance, income) ==
    CASE rule.kind = "fixed" -> rule.amount
      [] rule.kind = "fill" -> Max({0, rule.amount - balance})
      [] rule.kind = "percent" -> Total(income)
      [] OTHER -> 0

(* A rule whose amount is in another currency: CurrencyMismatchError.       *)
Fails(r) == r.live /\ ~r.rule.own

Fired(r) == [op |-> "fired", pool |-> r.pool, upto |-> r.upto]

(* Creating the system pools takes the write lock before the balance is     *)
(* read.                                                                    *)
CommitFire(s) ==
    /\ req[s].op = "fire" /\ ~Fails(req[s])
    /\ LET r == req[s]
           seen == IF r.made THEN Balance(r.pool) ELSE r.saw
           a == IF r.live THEN RefillAmount(r.rule, seen, r.income) ELSE 0
       IN /\ IF r.live /\ r.rule # NoRule THEN Materialised(r.made) ELSE UNCHANGED system
          /\ IF a = 0 THEN UNCHANGED shadow
             ELSE /\ Len(shadow) < MaxShadow
                  /\ shadow' = Append(shadow, Tx("auto", "unallocated", r.pool, a, 0))
          /\ To(s, Fired(r))
    /\ UNCHANGED <<pool, job, audit, today, counted, lost>>

(* _on_failure: retried later, or the dead letter of the job.               *)
FailFire(s) ==
    /\ req[s].op = "fire"
    /\ Fails(req[s]) \/ (req[s].live /\ req[s].made /\ system # 0)
    /\ LET now == job[req[s].pool].state
       IN \E state \in {now, IF now = "active" THEN "dead" ELSE now} : SetJob(req[s].pool, state)
    /\ To(s, Idle)

(* _advance_after_success: last_run_at is the time of completion.           *)
Advance(s) ==
    /\ req[s].op = "fired"
    /\ job' = [job EXCEPT ![req[s].pool].last = today]
    /\ counted' = [counted EXCEPT ![req[s].pool] = req[s].upto]
    /\ To(s, Idle)
    /\ UNCHANGED <<pool, system, shadow, audit, today, lost>>

Tick ==
    /\ today < MaxDay
    /\ today' = today + 1
    /\ UNCHANGED <<pool, system, shadow, job, audit, counted, req, overlap, lost>>

Next ==
    \/ \E e \in Envelopes : \/ CreateEnvelope(e) \/ DeactivateEnvelope(e)
                            \/ RedactEnvelope(e) \/ UpdateEnvelope(e)
    \/ \E f \in Funds : \/ CreateSinkingFund(f) \/ DeactivateSinkingFund(f)
                        \/ RedactSinkingFund(f) \/ UpdateSinkingFund(f)
    \/ \E s \in Slots :
          \/ \E e \in Envelopes :
                \/ BeginUpdate(s, e) \/ BeginRefill(s, e) \/ BeginSchedule(s, e)
                \/ BeginCancel(s, e) \/ BeginFire(s, e)
          \/ \E p \in Pools : BeginSpend(s, p) \/ \E q \in Pools : BeginTransfer(s, p, q)
          \/ BeginInflow(s)
          \/ CommitPost(s) \/ CommitUpdate(s) \/ Abort(s)
          \/ CommitSchedule(s) \/ RefuseSchedule(s) \/ CommitCancel(s) \/ CommitAudit(s)
          \/ CommitFire(s) \/ FailFire(s) \/ Advance(s)
    \/ Tick

Spec == Init /\ [][Next]_vars
-----------------------------------------------------------------------------
(* Properties.                                                              *)

Posted(t) == Len(shadow') > Len(shadow) /\ Last(shadow') = t

(* transactions.py: "All four run before any DB write"; transfers and fires *)
(* look at is_active too.  Of requests served one at a time, only a user's  *)
(* refill reaches a deactivated pool.                                       *)
MovesBetweenLivePools ==
    [][\A i \in DOMAIN shadow' :
          (Posted(shadow'[i]) /\ ~overlap /\ shadow'[i].reason # "refill")
             => Live(shadow'[i])]_vars

(* FILL_TO_AMOUNT: whatever spends, transfers and refills came before, a    *)
(* fire that posts leaves the envelope at its target, not above, unless     *)
(* another request was served meanwhile.                                    *)
FillStopsAtTarget ==
    [][\A s \in Slots :
          (req[s].op = "fire" /\ shadow' # shadow /\ req'[s] # req[s] /\ ~overlap
              /\ req[s].rule.kind = "fill")
             => BalanceIn(shadow', req[s].pool) = req[s].rule.amount]_vars

(* The window of a fire starts on the day of the last one: a fire counts    *)
(* every inflow committed since that one and not backdated, or, the first   *)
(* time, every inflow of the lookback.                                      *)
InflowsAreCounted ==
    [][\A s \in Slots :
          (req[s] = Idle /\ req'[s].op = "fire" /\ ~overlap) =>
             \A i \in DOMAIN shadow :
                (/\ shadow[i].reason = "inflow" /\ i > counted[req'[s].pool]
                 /\ shadow[i].day >= shadow[i].on
                 /\ job[req'[s].pool].last = Never => shadow[i].day >= today - Lookback)
                   => i \in req'[s].income]_vars

(* Every audited creation or cancellation of a schedule took place, and     *)
(* unless a request died between its two commits, or is between them, every *)
(* one that took place is audited.                                          *)
SchedulesAreAudited ==
    \A e \in Pools :
        /\ "create" \in audit[e] => job[e].state # "none"
        /\ "cancel" \in audit[e] => job[e].state = "cancelled"
        /\ (~lost /\ \A s \in Slots : req[s].op \notin {"scheduled", "cancelled"}) =>
              /\ job[e].state # "none" => "create" \in audit[e]
              /\ job[e].state = "cancelled" => "cancel" \in audit[e]
=============================================================================
