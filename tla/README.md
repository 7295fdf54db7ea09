# Tulip: TLA+ models of an accounting server

Tulip is a household accounting server: a FastAPI application over SQLite, a
double-entry ledger with an envelope ("shadow") ledger beside it, statement
imports, bank reconciliation, and an in-process scheduler. This directory models
the parts of it whose correctness depends on the order in which things happen,
checks them with TLC on small instances, and proves the main facts about them
with TLAPS for every instance.

Paths below are relative to `src/packages/`: `storage/` is
`tulip-storage/src/tulip_storage/`, `api/` is `tulip-api/src/tulip_api/`, `core/`
is `tulip-core/src/tulip_core/`, `ai/` is `tulip-ai/src/tulip_ai/`.

## 1. How the program runs

One uvicorn worker, one process.

* **Thread pool.** Endpoints written as `def` (all of `/v1/transactions`,
  periods, envelopes, most of reconciliation) run in a pool of threads, one
  SQLAlchemy session each (`api/deps.py`, `get_session`). Nothing orders them.
* **Event loop.** Endpoints written as `async def` (imports apply and promote,
  auto-match, manual and paper match, proposals approve, run-due) and the
  scheduler's polling task share one asyncio loop. A coroutine that never
  suspends keeps the loop.
* **SQLite.** The driver opens a transaction at the first write of a session, so
  the reads a request makes before that are each of their own instant, and the
  writes of a request are one atomic commit. Writers exclude each other, they do
  not re-validate what they read. Sessions keep the rows they loaded
  (`expire_on_commit=False`, identity map): a second `SELECT` of the same row in
  the same session returns the object first loaded.
* **Failure.** A request that raises, or a process that dies, loses what it had
  not committed. The scheduler commits several times per job, so it can lose the
  second half of one.

## 2. Inventory

| Component | State | Operations | What is hard |
|---|---|---|---|
| Scheduler (`storage/runner/runner.py`) | `scheduled_jobs`, `scheduled_job_runs`, the polling task, the detached batch | schedule, cancel, poll, dispatch, retry, dead-letter, run-due, stop | four commits per fire, crashes between them, a snapshot older than the rows, a loop that must keep yielding |
| Handlers (`storage/runner/handlers/`) | what they delete or write | one callback per kind | at-most-once effects |
| Main ledger (`api/routers/transactions.py`, `storage/repositories/transaction.py`, `core/accounting/engine.py`) | `transactions`, `postings` | create, void, replace, PATCH, rectify, DELETE | check-then-act on stale rows, multi-row commits, chains of reversals |
| Periods (`api/routers/periods.py`) | open or soft-closed | close, reopen | a close between a gate and a commit |
| Shadow ledger (`core/allocation/engine.py`, `storage/repositories/shadow_transaction.py`) | `shadow_transactions`, `shadow_postings` | pair, void, balance | must follow the main ledger through voids and replacements |
| Pools, envelopes, sinking funds (`api/routers/pools.py`, `envelopes.py`, `sinking_funds.py`, `_pool_helpers.py`) | `allocation_pools` | transfer, inflow, refill, deactivate, redact, lazy system pools | look-up-then-create, deactivation against use |
| Refill schedules (`api/routers/refill_schedules.py`, `envelope_refill.py`) | a job per envelope | create, cancel, fire | two sessions per request, idempotency keys of cancelled rows, income windows |
| Reconciliation (`api/routers/reconciliations.py`, `api/services/reconciliation_match.py`) | `reconciliations`, `reconciliation_matches`, pointers on lines and transactions | start, auto-match, manual/paper match, reject, carry forward, complete, revert | one open reconciliation per account, a completion that sums what others are changing |
| Imports (`api/routers/imports.py`, `api/services/import_apply.py`) | batches, statement lines | upload, exclude, apply, promote, discard, delete | reads that are old at the first write, two batches sharing a draft |
| AI gate (`ai/cost.py`, `policy.py`, `audit.py`, the capabilities) | `ai_invocations`, the write lock | gate, call, record | a lock held over an await, waited for on the loop its holder needs |
| Proposals (`api/routers/proposals.py`) | `pending_proposals` | create, suggest, approve, reject, delete | double decisions, audit rows of stale reads |
| Accounts (`api/routers/accounts.py`, `storage/repositories/account.py`) | a tree of rows, placeholders, codes | create, create_parents, PATCH, deactivate, redact | a walk over parents that may form a loop, get-or-create without a constraint, placeholders against postings in flight |
| Sessions and MFA (`api/routers/auth.py`; the token store of the CLI, `tokens.py`, `http.py`) | `sessions`, challenges, recovery codes, one stored refresh token | login, refresh, logout, enrol, verify, regenerate, change password | rotation by several processes, lost answers, single use |
| Users, erasure (`api/routers/users.py`, `households.py`) | everything | request and confirm erasure, redact | cascades under running work, triggers dropped and recreated |
| Attachments (`storage/repositories/attachment.py`) | rows, and files shared by content hash | upload, collect, sweep | no transaction covers rows and files |
| Audit log (`storage/audit_log_helpers.py`) | `audit_log`, its two append-only triggers | append, bracketed deletion and redaction, pages | a trigger is dropped in one commit and recreated in another, which may fail; brackets overlap; pages by offset under appends |
| Reports (`tulip-reports`, `api/routers/reports.py`) and journal files (`pta.py`) | none of their own | trial balance, balance sheet, statements, export, import | several SELECTs, each of its own instant; account paths that must read back |
| Notifications, tags, CSV profiles | one table each | single-row edits | written in the commit of the operation they belong to |
| Parsers, TUI, the rest of the CLI, admin and health endpoints | none of their own | read, format | not a matter of ordering on the server |

Interactions: the API calls the repositories inside one session; void and replace
write both ledgers in one commit; imports write the main ledger around the period
gate and make accounts; run-due and the lifespan drive the scheduler; the scheduler
calls handlers, which open their own sessions; a refill posts to the shadow ledger;
erasing a household deletes jobs and runs while they are being served; reports read
what all of these commit.

What makes each correct, beyond its types: *scheduler* - at most one success and one
effect per cycle, retries that wait and are bounded in number, dead letters and
cancellations that stay, due jobs that are served, a stop that drains; *ledger* - a
voiding has exactly one reversal of it, posted rows do not change, replacements do
not stand beside what they replace, closed periods receive nothing; *shadow ledger*
- it counts exactly what the ledger counts; *pools and refills* - money moves
between live pools, a fill stops at its target, a fire counts every inflow since the
last, schedules and their audit rows agree; *reconciliation* - a completed one
balances, marks and pointers name what is there, the inbox offers what can be
matched; *imports* - a line is in the ledger at most once, and a batch is not
deleted from under its transactions; *AI gate* - the lock never leaks, the recorded
spend exceeds the cap by a bounded amount, every call ends; *proposals* - executed
once, decisions and audit trail agree with effects; *accounts* - the chart is a
forest, placeholders take no postings, get-or-create makes nothing twice; *sessions*
- one live session per login, single use of challenges and codes, a store that
follows rotation; *erasure and attachments* - rows keep their bytes, orphans go, the
audit log is append-only again afterwards; *reports* - totals that balance but for
what is not shown and for rounding, periods that count what is in them, files that
read back, pages that miss nothing.

## 3. The modules

| Module | What it is |
|---|---|
| `Runner` | the scheduler, one action per commit or scheduling point |
| `JobCycles` | what the scheduler promises of a job, abstractly: armed for an instant, rearmed later or retired; which of its instants are settled, and how often one was settled again. A fault may make one success happen again |
| `Ledger` | transactions, periods, pairing with shadow transactions; a request is its reads, its period gate and its commit |
| `SerialLedger` | `Ledger` with a history of overlaps, and what it promises of requests served one at a time |
| `Books` | the same ledger with each request one indivisible step |
| `Pools` | envelopes, sinking funds and system pools, the moves between them, refill schedules and the refill handler |
| `Reconciliation` | reconciling one account against one batch or a paper statement |
| `Imports` | batches, lines and the drafts made from them |
| `AiGate` | the pre-call gate and the capabilities around it, over SQLite's one write lock |
| `Proposals` | proposals for a budget, and the PATCH that writes the same budget |
| `Accounts` | the tree of accounts, the accounts made on the way to others, placeholders |
| `Sessions` | refresh tokens, the second factor, the token store of the command line |
| `Erasure` | attachments as rows and files, the erasure of households, the collector, the append-only triggers and all that lift them |
| `Reports` | reports, journal files and the pages of the audit log, read while others write |
| `RunnerProofs`, `LedgerProofs`, `ReconciliationProofs`, `AccountsProofs`, `SessionsProofs` | theorems about the module in the name; `RunnerProofs` and `LedgerProofs` also the refinements of `JobCycles` and `Books` |
| `PoolsProofs` | theorems about `Pools` and about `Reports`, with the lemmas on sums that both need |
| `AiGateProofs` | theorems about `AiGate` and about `Proposals` |
| `ErasureProofs` | theorems about `Erasure` and about `Imports` |
| `MC...` | small instances: `MCRunner` of a recurring job `b` and a job `u` of a kind nobody registered, the others of the module in the name (`MCLedger` of `SerialLedger`) |

`Ledger`, `Pools`, `Reconciliation`, `Imports`, `Proposals`, `Sessions` and
`Accounts` share one form: slots, a request as what it has read, one commit (two
where the code has two). They do not compose into one state: each is about other
columns of the tables they share, and what one needs of another's rows is in it
(Ledger's `Import` is what Imports' `Land` does to the ledger; Reconciliation's
`DeleteDraft` and Imports' `CommitDiscard` are Ledger's `CommitDelete` as seen from
there; Pools' `BeginSpend` is Ledger's `BeginCreate`; Runner's `Erase` is Erasure's
`CommitErase`; the writers of Reports are commits of Ledger, Imports and Accounts).
Where two components have a name in common and one module proves about both,
`Proposals` prefixes it with `Pr`, `Imports` with `Im` and `Reports` with `Rp`; they
share no variable.

`PROJECT.json` maps every definition to the lines it models. In a module, an
operator whose comment begins with "mutant" is the definition below it with a
plausible bug; nothing uses it, and substituting it must break the property
`PROJECT.json` names.


### Runner

`row`, `nextRun`, `lastRun`, `runs` are the two tables. `orphanRuns` counts the
FAILED rows of jobs without a handler. `pc`, `caller`, `due`, `fired`, `cur`,
`doneAt` are the locals of `_loop`, `run_once` and `_dispatch`. `now` is the
injected clock. In a row of `runs`, `cycle` (the `next_run_at` it was fired for)
and `effect` (the handler's own commit happened) are history; `ended` is
`completed_at`.

| Code | Action |
|---|---|
| `schedule_one`, `schedule_recurring` | `Schedule` |
| `cancel` | `Cancel` |
| cascade of a household's erasure | `Erase` |
| `_fetch_due` | `FetchDue` |
| `_dispatch` without a handler, `_record_outcome` | `DispatchUnhandled` |
| `_record_start`; the handler; `_record_completion`; `_advance_after_success`; `_on_failure` | `RecordStart`; `HandlerReturns`/`HandlerRaises`; `RecordCompletion`; `AdvanceAfterSuccess`; `OnFailure` |
| `_loop` after a batch, its `except`, its timer | `EndBatch`, `PollFailed` (in `RowGone`, `DatabaseError`), `Wake` |
| `POST /v1/scheduled-jobs/run-due` | `RunDue` |
| lifespan shutdown, `stop` | `RequestShutdown`, `Stop` |
| process death and restart | `Crash` |

The polling coroutine does not suspend between `FetchDue` and the end of its batch
(no registered handler awaits anything), so run-due and `stop` can only run when
`pc = "sleeping"`. Cancels, schedules and erasures come from threads and fall
anywhere. `schedule_one` and `schedule_recurring` are one action: a one-shot job is
a series of one instant. An RRULE is the set of its occurrences (`Occurs`). The
10 second timeout of `stop` is not modelled: it is a timer of the same loop, and it
cancels a task that a suspended coroutine would let it cancel.

### Ledger

A row of `tx` is a transaction with its pairing: `status`, the period it is dated
in, its description, whether its postings are sign-flipped, whether an expense
posting names the pool, the status of its shadow transaction, the link
`voidedBy`. `reverses`, `replaces` and `origin` are history. `req[s]` is what the
request in slot `s` has read.

| Code | Actions |
|---|---|
| `POST /v1/transactions` | `BeginCreate`, `CheckPeriod`, `CommitCreate` |
| `/void` | `BeginVoid`, `CheckPeriod`, `CommitVoid` |
| `/replace` | `BeginReplace`, `CheckPeriod`, `CommitReplace` |
| `PATCH` | `BeginPatch`, `MergePostings`, `CommitPatch` |
| `PATCH /description` | `BeginRectify`, `CommitRectify` |
| `DELETE` | `BeginDelete`, `CommitDelete` |
| imports apply/promote, QIF pairs, PTA import | `Import` |
| period close, reopen; envelope deactivation | `ClosePeriod`, `ReopenPeriod`, `DeactivatePool` |
| any refusal, exception or lost process | `Abort` |

Abstracted: amounts (every entry balances; an unbalanced one is refused, an
`Abort`), accounts, tags, references and notes (they travel with the description),
the audit row (same commit), the household (there is one), more than one pool, the
creation of system pools, a date outside every period (refused). A description is
the name a user typed and the number of times `Reversal of ...:` was put before
it, which is all that `rectify_posted` looks at. An entry's shadow transaction is
a field of the entry, because ADR-0001 pairs them one to one. POSTED and
RECONCILED are one status: no handler modelled here tells them apart.

The important decision is that the re-checks inside `persist_reversal`,
`update_pending`, `delete_pending` and `rectify_posted` are *not* guards of the
commits: they read the identity map of the session, hence what the request read
first, and the UPDATEs that follow have no condition. What a commit does check is
what the database checks: the row still exists (`CommitPatch`, `CommitDelete`).

### Reconciliation

`rec`, `matches`, `pointer`, `mark`, `carried` are the status of `reconciliations`,
the rows of `reconciliation_matches`, and the three columns that point back:
`statement_lines.reconciliation_match_id`, `transactions.reconciliation_id` and
`carried_forward_from_reconciliation_id`. An action `Begin...` is a request up to
its last read, `Commit...` its writes. `BeginComplete`, `Weigh`, `ListMatched` and
`CommitComplete` are the three reads and the commit of `complete`. The endpoints
that insert matches are coroutines that never suspend, so they exclude each other
(`BeginOnLoop`). Neither the pointer nor `reject_match` is backed by a check or a
foreign key on the pointer, and the model has none. Abstracted: one account and
currency, the matcher's dates and scores (`Candidates`), amounts as small integers.

### Imports

`batch`, `excluded`, `promoted`, `tx` are the status of a batch, `is_excluded`,
`promoted_transaction_id`, and what is kept of a transaction: its status, the lines
it was made from and `imported_from_id`. `Applicable` is what `apply_batch` takes;
`PairTransfers` is `pair_transfers`, with reciprocal legs at equal positions. The
foreign key of `imported_from_id` is the guard of `CommitDelete`.

### AiGate

`loop` is the coroutine that runs, `lock` the holder of SQLite's write lock, `call`
the coroutines. A call is at the gate, in a chat (the only place where it
suspends), at its audit row, or, for an import, at the write of the line. Waiting
for the lock blocks the loop: it is the absence of any other step of a coroutine,
until `Timeout`. `spent` and `fallback` are the costs of the committed rows of the
month, of the policy's provider and of the fallback; `check_cost_cap` sums both,
`check_rate_limit` sums `used`; `Slide` and `NewMonth` are the two windows moving.
Costs of rows not yet committed are in `call[c].cost` and `.extra`, of answers
without a row in `owes`. What a fallback costs is whatever the provider reports
(`Costs`): only convention makes it free.

| Code | `kind` | Its row and its cost |
|---|---|---|
| `POST /v1/ai/categorize-proposals` | `propose` | written to the request's session, which nobody commits: rolled back, and charged nowhere |
| imports apply and promote | `apply` | written to the request's session, committed with the import or lost with it |
| proposals/suggest, forecast | `suggest` | a session of its own |
| `POST /v1/ai/ask` | `ask` | a session of its own for each of two chats, with one gate |

So `RecordedOverspendIsBounded` is about the records, and says nothing of what is
paid: that has no bound, since a `propose` leaves nothing for the next gate to sum.

### Erasure

`rows` and `bytes` are the table and the files of attachments, joined by nothing
but the hash. An upload is a read, a truncation, a write and an insert; an erasure
is its reads, the commit that drops the trigger and cascades, the commit that
recreates it, and for each blob a look and an unlink. `spoiled` marks the two
windows in which the code can lose bytes: a write torn by a crash or a full disk,
and an upload between the look and the unlink of an erasure.

| Code | Actions |
|---|---|
| `audit_log_deletion_allowed` around the retention handlers | `BeginPrune`, `EndPrune`, `FailPrune` |
| the same, asked for by `POST /v1/admin/audit-prune` | `AskPrune`, `EndAskedPrune` |
| the same, around the cascade of an erasure | `CommitErase`, `RestoreTrigger` |
| `audit_log_pii_redaction_allowed` in `DELETE /v1/users/{id}` | `DeleteUser`, `CommitDeleteUser`, `FailDeleteUser` |

`DROP TRIGGER` comes before any DML of its session and is committed at once
(`Lift`). The DML opens a transaction, and what ends that transaction decides. If it
commits, the trigger is there again (`PutBack`); an erasure commits first and
creates the trigger after, which may fail by itself. If the DML or the commit
raises, the `CREATE TRIGGER` of the `finally` is rolled back with the rest
(`LeaveAsItIs`), and so it is when it finds the trigger there, put back by a bracket
that overlapped. `lost` names the triggers that a crash or a failed bracket has left
lifted; the next bracket that ends well puts them back. The rows that a redaction
clears are not kept.

### Proposals

`proposal`, `budget`, `audited` are the row, `envelopes.budget_amount` and the
"after" of the last audit row about it; `executed` is history. `Sets` is SQLAlchemy's
unit of work, which sends no UPDATE for a value equal to the one it loaded.


### Pools

`pool`, `system`, `shadow`, `job`, `audit`, `today` are the user's and the system's
rows of `allocation_pools`, the `shadow_transactions`, each envelope's job of kind
`envelope_refill`, the audit rows about it, and the day. `req[s]` is what a request
or a fire has read. `counted`, `overlap`, `lost` are history.

| Code | Actions |
|---|---|
| create, PATCH, deactivate, redact an envelope or a sinking fund | `CreateEnvelope` and its like, `AtOnce`; PATCH of the rule: `BeginUpdate`, `CommitUpdate` |
| transfer; inflow; refill; an expense that names a pool | `BeginTransfer`, `BeginInflow`, `BeginRefill`, `BeginSpend`; `CommitPost` |
| `POST` of a schedule | `BeginSchedule`, `CommitSchedule` or `RefuseSchedule`, `CommitAudit` |
| `DELETE` of a schedule | `BeginCancel`, `CommitCancel`, `CommitAudit` |
| the `envelope_refill` handler | `BeginFire`, `CommitFire`, `FailFire`; `Advance` sets `last_run_at` |
| a lost process, a refusal; midnight | `Abort`; `Tick` |

The scheduler writes a schedule in a session of its own, so its audit row is a
second commit. The handler is modelled although `create_app` does not register
it: `Runner` shows what becomes of its jobs then. Abstracted: one currency (that a
rule has another one is a flag), a percentage rule takes all of the income,
visibility is a refusal, and only inflows keep their date.

### Accounts

`account` is the table: parent, name, code, placeholder (`hold`) and active flags,
and whose postings a row has, those of a caller that looks at the placeholder flag
(`checked`) or of one that does not (`unchecked`, the category side of an import).
`by` says who made a row. `met` and `crossed` are history: the kinds of commits
made while a request was in flight, and those that met one they depend on.

| Code | Actions |
|---|---|
| `POST /v1/accounts` | `BeginCreate`, `CommitCreate` |
| the same with `create_parents`, by name or by code | `BeginWalkNamePath`, `CommitWalkNamePath`; `BeginWalkCodePath`, `CommitWalkCodePath` |
| `PATCH` | `BeginUpdate`, `CommitUpdate` |
| `DELETE`; redaction | `Deactivate`; `Redact` |
| `POST /v1/transactions`; imports; `DELETE` of a draft | `BeginPost`, `CommitPost`; `BeginImport`, `CommitImport`; `DeleteDraft` |

The reads of a request are one instant. Type, currency, visibility and role are
refusals. A loop over parents that would never end leaves its request `walking`.
A post names one account. The row seeded at registration, whose name has a colon,
is in `Init`.

### Sessions

`session`, `challenge`, `code` are the tables, `secret` and `enrolled` the user's
two columns, `store` the one token the processes of the command line share,
`cmd[c]` what a command has in hand. `ended`, `proven`, `redeemed`, `spent`,
`overlap`, `lost` are history.

| Code | Actions |
|---|---|
| `http.py` before a request whose access token is about to expire, `POST /v1/auth/refresh` | `SendRefresh`, `ReadRefresh`, `CommitRefresh`, `Save`, `LoseAnswer`, `FailRequest`, `ClearStore` |
| login, logout, change of password | `BeginLogin`, `CommitLogin`; `SendLogout`, `ReadLogout`, `CommitLogout`; `BeginChange`, `CommitChange` |
| enroll, verify, regenerate | `BeginEnroll`, `CommitEnroll`; `BeginVerify`, `CommitVerify`; `BeginRegenerate`, `CommitRegenerate` |
| the second step of a login, by code or by recovery code | `Challenge`, `BeginMfa`, `RejectMfa`, `CommitRecover` |
| clocks; `session_retention` | `Expire`; `Prune` |

A password or a code is right or wrong; one recovery code stands for the eight
of a set; redeeming a challenge and reading it are one step; `Prune` runs when no
command does (its age limit is days). Any error status clears the store, as a
refusal does. `last_totp_step` and the audit rows are not kept, and a refusal by
`mfa_policy` changes nothing.

### Reports

`account`, `book`, `log` are what writers commit, `file` the last journal a client
exported, `report` what the one reader has collected, or its answer. The session
begins no transaction before it writes, so each SELECT is a step of its own,
except that the chart is read with the beginning. One reader is enough since readers
write nothing. The JSON and the HTML branch of an endpoint read the same. Amounts
are multiples of a part of the unit of reports: `Quantize` rounds half to even, as
the code does with each account before it adds (`Subtotal`, `Debits`, `Credits`).
The endpoint of the trial balance rounds to the minor unit of the currency and the
other reports to 0.01; with one currency that is one `Unit`. A statement and a cash
flow go through the rows of their first SELECT only (`Gone`), so what the second has
of another account is dropped; a cash flow that starts on the first date there is
reads that date twice (`PriorDay`). The names and codes of accounts are kept as the
parts between colons, since `ImportKeepsNames` is about those. A `report` is under
way, answered, the pages of the audit log, or none (`Report`).

## 4. The runs

| Run | Instance | States | Shows |
|---|---|---|---|
| `runner_faults` | a recurring job b and a job u of an unknown kind; clock 0..2; one retry; one fault; fair | 510,205 | retries that wait and dead letters that stay dead, due jobs served, stop drains unless an unhandled job is due; implements `JobCycles`, where a fault makes at most one success happen again |
| `ledger` | two slots, a period, a name, three rows | 1,367,583 | links, pairings, replacements and immutability under stale reads; serially, pool spend equals ledger spend, closed periods receive nothing, and the requests implement `Books` |
| `reconciliation` | two slots, two reconciliations, two matching requests, a line, a draft, a posted transaction | 2,637,000 | marks backed; serially, live pointers, an inbox that can be matched, balanced completions |
| `imports` | two slots, two accounts, two lines a file, two batches, two transactions | 2,545,343 | lines agree with the ledger; serially, an apply leaves nothing behind |
| `ai_gate` | two calls, one writer, one user, cap 1, cost up to 1, fallbacks up to 1 in all; fair | 53,790 | what is recorded passes the cap by a bounded amount; every request ends |
| `erasure` | two households sharing one content, two requests that lift a trigger, one fault; fair | 398,900 | rows have their bytes, the triggers are there but inside brackets and after faults, orphans are collected |
| `proposals` | three slots, two proposals, an envelope | 560,012 | executed once; serially, decisions and audit agree with effects |
| `pools` | two slots, an envelope, a sinking fund, two rules, two days, two shadow transactions | 2,217,365 | schedules and audit rows agree; serially, money moves between live pools, a fill stops at its target, no inflow falls between two windows |
| `accounts` | two slots, three accounts | 467,670 | the chart is a forest, placeholders take no postings of callers that look, walks reuse rows |
| `sessions` | two clients, three sessions, two challenges, codes and secrets | 296,864 | serially, one live session per login, an enrolled secret was proven, codes are spent once, the store follows rotation |
| `reports` | four accounts, three entries in half units, two days, three commits | 174,042 | totals balance up to what is not shown and to rounding, periods count what is in them, files keep names, pages miss nothing |
| `reports_totals` | the same | violation | `DebitsEqualCredits`: `trial_balance.py:9-11` has the totals row show equal debits and credits; with the account "bank" closed while it holds an entry, the administrator's trial balance shows debits 0 and credits 2 half units |

A run lists the properties that say something about the code. Type correctness is
proved for every module and was an invariant of each run while it was being written;
the same is true of the proved properties of section 5 that no run lists (the
ladder, cancels and schedules of `Runner`, the lock of `AiGate`, challenges of
`Sessions`).

**Bounds.** `MaxTime` stops the clock, `MaxFaults` bounds crashes and database
exceptions, `MaxOrphans` saturates a counter no guard reads, `Backoff` is one delay
instead of the code's three, `MaxTx`, `MaxShadow`, `MaxAccounts` are numbers of
rows, `MaxDay` stops a calendar, `MaxCommits` bounds what happens beside a reader.
`MaxFallback` bounds what fallbacks cost in a month, whose sum no property bounds.
They are enough for the interesting cases: with one retry the ladder has all its
rungs (first failure, last retry, dead letter, and a success anywhere between); two
occurrences give a next cycle and an exhausted series; two jobs give a batch with a
stale rest; one fault falls between any two commits, and a second adds only
repetitions of the first. Three rows hold a source, its reversal and either the
replacement, a second reversal or the reversal of the reversal, the shapes the
properties distinguish. Two slots are two racing requests; every race found needs
two. Two reconciliations are what an unchecked start and a revert need; two inserts
give a line two matches. Two batches of two lines each hold a transfer pair, a leg
and a forced re-import. In `ai_gate` two calls and a writer are a holder and two
that wait, and two chats are an `ask` or an apply of two lines. Two households share
a blob; two brackets of requests, one of the loop and two of erasures overlap, and
one fault tears a write, fails a bracket or ends the process. Three slots in
`proposals` are an approval, a rejection and the deletion that follows it. In
`pools` an inflow and what it feeds are two shadow transactions, and two days are a
window and the next. Three accounts are a parent, a child and what is made beside
them; `Small` and `FewInFlight` bound the sum of rows, postings and flags (to four,
to three where requests start or have crossed), so that each kind is explored to its
bound. Three sessions are a login, its rotation and another login. Where a run
checks mostly what is claimed of requests that do not overlap, its constraint
`SmallWhenOverlapping` keeps the behaviours after an overlap short: those of `pools`
stay on one day and end with one transaction, those of `sessions` meet one challenge
and end when every id is given out. In `reports` one commit of each kind falls
before, between and after the reads, a page holds one row, and an entry of three
half units is one that rounding changes. The proofs do away with the bounds for the
properties they cover. Slots, periods, names, calls, households and proposals are
interchangeable, hence the symmetry sets of the MC modules, except where a run
checks liveness. Deadlock is off where ids are used up or a process has stopped, and
on otherwise.

**Fairness** (`FairSpec`). `WF(RunOnce)`: the coroutine that holds the loop goes
on; its statements end, the handlers do not wait for anything. `WF(Wake)`: the poll
timer fires. `SF(Stop)`: a ready `stop()` gets its turn when the loop is free again
and again, since asyncio's ready queue is first-in first-out and one task cannot
overtake another for ever. Nothing is assumed of clients, the clock or faults.
*AiGate*: `WF(Run)`, the running coroutine goes on, if only by the busy timeout;
`SF(Answer)`, the provider's client has a timeout and answers are served in order;
weak fairness of a writing thread. *Erasure*: the loop ends what it began; ages
pass; `SF(BeginGc)`, which rests on the installer seeding the `attachment_gc` job
and on `Runner`'s `DueJobsAreServed`; clients, erasures and faults get none. The
other modules claim no liveness and state no fairness.

## 5. The proofs

Every theorem holds for every value of the constants that satisfies the module's
assumption (`RunnerAssumption`, `LedgerAssumption`, and so on): any number of jobs,
rules, requests, rows, households, calls, accounts, clients, any amounts and any
number of faults.

| Theorem | States |
|---|---|
| `TypeCorrect` (`LedgerTypeCorrect`, `SessionsTypeCorrect`, `ImportsTyped`, `ProposalsTyped`, `ReportsTyped`) | the type invariants |
| `RunnerProofs!FireOncePerCycle` | while no fault has occurred, two fires of a job are of different cycles |
| `SuccessOncePerCycle` | hence, if no faults can occur, one success and one effect per cycle |
| `DeadLettersFinal`, `CancelsFinal`, `SchedulesMoveForward` | finality and monotonicity, with any number of faults |
| `RetriesDoWait` | `RetriesWait`, for any backoff and any number of faults |
| `LadderHolds` | `RetryLadder`, the ladder as the code climbs it over the life of a job, which is not the one its comments state (section 6); for any number of faults |
| `RunnerImplementsJobCycles` | `ImplementsJobCycles`: each job is a `JobCycles` job, and successes repeat at most once per fault |
| `LedgerProofs!VoidLinks`, `ShadowsFollow`, `PostedImmutable`, `ReplacementsBacked` | the four ledger properties under any interleaving of requests |
| `ClosedPeriodsKept`, `PoolSpendMatches`, `SerialLedgerImplementsBooks` | the three properties of requests served one at a time, the last a refinement |
| `PoolsProofs!SchedulesAudited` | `SchedulesAreAudited` under any interleaving |
| `LiveMoves`, `FillStops`, `InflowsCounted` | the three action properties of moves and fires |
| `ReportsBalance`, `StatementsCount`, `ImportsKeepNames`, `PagesAreWhole` | the four properties of reports, journal files and pages, with any writers between their reads |
| `ReconciliationProofs!MarksBacked` | `MarksAreBacked` under any interleaving |
| `PointersLive`, `InboxMatchable`, `CompletionsBalance` | the three properties of requests served one at a time |
| `AccountsProofs!ChartStaysForest`, `PlaceholdersHold`, `WalksReuse` | the three properties of the chart, of all but the requests that met |
| `SessionsProofs!ChallengesOnce` | a challenge lets one login go on, under any interleaving |
| `OneLivePerLogin`, `EnrolledSecretProven`, `CodesSpentOnce`, `StoreFollows` | the four properties of commands run one at a time |
| `AiGateProofs!LockAccounted`, `HeldWithinCap`, `OverspendBounded` | the safety properties of the gate; the last two (`HeldCallIsWithinCap`, `RecordedOverspendIsBounded`) of what is recorded |
| `ExecutedOnce`, `DecisionsAgree` | both properties of proposals |
| `ErasureProofs!LogProtected`, `RowsKeepTheirBytes` | the triggers and the bytes, with any number of crashes, failures and overlapping brackets |
| `LinesAgree`, `AppliesLeaveNothing` | both properties of imports |

*Runner.* That a cycle succeeds once is not inductive: nothing in it stops a job
that has succeeded for its present cycle from being picked up again. `CycleInv` adds
what does. `HistoryInv`: no row is of a cycle later than the job's `next_run_at`.
`ClockInv`: what is in the batch or in flight is due, so advancing past the
completion time is advancing past the cycle. `FlightInv`: the row being worked on is
the last one and of the job's present cycle. `SettledInv`, the heart: while no fault
has occurred, a row that succeeded or took effect is either behind its job's
`next_run_at`, or its job is in no batch and is inactive or is the very one whose
advance is still to come. `DeadInv` says of a dead letter that its job is inactive,
in no batch, not in flight, and has no later run. `RetriesWait` compares a row with
a later one, and what lies between them is the job's `next_run_at`: `WaitInv` says
that the instant a failed row puts its retry at is at most that, which only moves
forward (`SchedulesMoveForward`), and that a row is made for that instant. That
nothing follows a dead letter is `DeadInv`. `RetryLadder` numbers a row by the
failures before it and says of a dead letter that it is on the top rung; `Rungs`,
that a job never has more failures than rungs, is what makes the next row fit. The
refinement maps a job to the instant it is armed for and its rows to settled cycles.
Its difficulty is that a fault lets a success happen again, but only one:
`ExposureInv` counts the repetitions so far together with the jobs that are
*exposed* (succeeded for their cycle and not advanced) and bounds the sum by the
number of faults; a fault is what exposes a job, a repetition uses the exposure up.

*Ledger.* The properties are not inductive because a commit acts on what was read
earlier. `SourceInv` says how little of that can have changed: a request in flight
to void, replace or rectify has a source that is still in the ledger with the sign
it was read with; a PATCH or DELETE has one that is not posted. `LinkInv` ties
`voidedBy` and `reverses` together. With `TypeOK` and `ShadowFollowsMain` they form
`VoidInv`. Each kind of commit has one effect lemma (`InsertEffect`, `VoidEffect`,
`RenameEffect`, `DraftEffect`) that gives the next `LinkInv`, `ShadowFollowsMain`
and the immutability of posted rows together, which is what `SourceInv` of every
other request then follows from. `BackedInv` adds that a replacement stands right
behind the reversal it was written with, which turns the comparison of cardinalities
in `ReplacementsAreBacked` into an injection. The serial properties and the
refinement of `Books` rest on `CalmInv`: while no two requests have overlapped, at
most one is in flight and what it read is what the tables say, so its commit is the
indivisible step of `Books` with the same arguments and its reads are stutters.

*Pools.* `SchedulesAudited` is inductive with `AuditInv`, which says of a request
between its two commits that the row it will audit is the way it left it. `CalmInv`
is again that a lone request has read what is still so. `FillStops` needs that
posting an amount to a pool adds it to the balance: a balance is a sum over the
shadow transactions, and `MapThenFoldSet` is a recursive function behind a CHOOSE.
That this function exists and unfolds is proved by induction over the size of the
set, with a set of numbers in place of the operator that the library's induction
theorem takes (`Induction`); `SumGrows` is what is used of it. `InflowsCounted`
rests on `Windows`: the inflows that the last served fire has not seen were
committed on its day or later, and the window of the next fire starts on that day.

*Reports.* The invariant is small (`ReportInv`): the rows of the books and of the
file are finite in number, those of the books balance one by one, and no two rows
that no import made are the same part of one entry (`OneEach`); what a report has
read as posted is still in the books (`LaterInv`). The work is in sums. A total is a
sum over accounts of sums over rows; `RowsOrColumns` exchanges the two, and from it
`TotalOverAccounts` and `TotalOverRows` say that totals add up over disjoint sets of
either. Then `ReportsBalance` is that balanced rows total zero over all accounts
((`EvenTotal`), and `StatementsCount` that the rows before the period cancel out of
the two reads, except those written in between. What is shown is rounded by account:
`QuantizeIsNear` bounds one rounding, `SumIsWithin` a sum of rounded amounts by the
number of those that are no whole units, `DebitsLessCredits` and `SubtotalsAdd` turn
the columns and sections of a report into one such sum. that the rows before the
period cancel out of the two reads, except those written in between.
`ImportsKeepNames` needs that a copy is the sum of its row over the accounts
resolved to each account (`SumOfFibres`), that copies of two rows are two
(`SumRelabelled`; this is where `OneEach` of the file is used), and that a readable
path resolves to a namesake (`ResolvedToNamesakes`). `PagesAreWhole` is not about
sums: a row not read yet never has a rank before the offset, since new rows push the
others back (`PagesInv`), and a page that is short is the last one, because ranks
leave no gap (`RanksLeaveNoGap`).

*Accounts.* A step has one of five forms (`Forms`): a request begins (`Starts`),
rows or postings are added (`Adds`), a PATCH commits, one row is tidied up
(`Tidies`), nothing changes; the proofs go by form instead of by action. The
functions of the walks are recursive; `Iterate` shows that they exist and unfold.
That walks up the chart end is about paths of any length. `Forest` says it without
paths: no nonempty set of accounts has all its parents within itself. From it a
pigeonhole argument gives that a walk of as many steps as there are accounts has
arrived; the converse direction is never needed. A PATCH in flight has seen a set
closed under parents, with its new parent and without its own row (`Above`); it
stays such a set unless another move meets it, and that is what keeps `Forest` at
its commit. `HoldInv` and `WalkInv` say the same of placeholders (whoever is about
to post has seen no flag, whoever is about to set the flag has seen no posting) and
of walks (what a walker found missing is still missing).

*Reconciliation.* `MarksAreBacked` needs only `MatchesBacked`, the two foreign keys
of a match. The serial properties rest on `SerialInv`: while no two requests have
met, at most one is in flight (`Alone`), and what it has read is still the case
(`Fresh`: the sum it took, the pointer it saw, the lines it will clear). The sums
are never expanded: that complete compares the sum of the right sets is what is
proved, not arithmetic.

*Imports.* `LinesAgreeWithLedger` is inductive with `PromoteInv`, that one promote
or apply is in flight at a time (they run on the event loop) and its lines are not
promoted yet, and `DeleteInv`, that the drafts a deletion is about to remove are
still made from the batch it read. `AppliesLeaveNothing` adds `ApplyInv`: an apply
alone holds exactly the applicable lines.

*Sessions.* `Shape` says that the rows that commands and the store hold have been
given out and know their login, and `Serially` that the only command under way finds
the row it has read still open. `FactorsInv` follows a secret from enrolment to its
proof and a set of codes to its withdrawal, `StoreInv` the one token of the store
through an answer that is on its way.

*AiGate.* Each action of a call has one effect lemma (`AllowEffect` to
`AnswerEffect`), and the invariants are shown for the effects. `LockInv` says who
may hold the lock and who does; `HeldWithinCap` follows since nobody commits a cost
while another call chats under the lock (`SpendsAlone`). For `OverspendBounded`,
which like the other is about what is recorded, a
call holds as many tokens as answers it may still charge with no gate in between
(`Units`, two at most). An answer takes one away, and only a gate that finds the
spend within the cap gives new ones; so spend plus `MaxCost` times the number of
tokens stays below the bound (`SpendInv`).

*Erasure.* The trigger property is inductive as it stands (`ProtectedStep`): who ends
a bracket puts the trigger back or leaves a mark in `lost`, and while brackets
overlap each that is still open is the excuse of its own trigger. `RowsHaveTheirBytes`
needs `BytesInv`: an upload past its write has the bytes (`UploadInv`); a content
that an erasure is about to unlink has neither a row nor an upload past its write,
unless it is known to be spoiled (`MeetInv`); a collection has read every row there
is, since nothing inserts one while it runs (`GcInv`).

*Proposals.* An approval in flight stands for an execution to come: `ExecInv` says
there is one at most (it is a coroutine) and that its row has not been executed.

Only model-checked: the liveness properties `DueJobsAreServed`,
`StopDrainsUnlessOrphaned`, `EveryRequestEnds` and `OrphansAreCollected`, since
liveness under fairness is beyond the prover. Every other property of a run is a
theorem.

## 6. What holds only when requests do not overlap, and other divergences

The properties named `Serially...` fail when requests overlap: the code has no
lock, version or conditional UPDATE that would make them hold. PATCH has the same
shape: fields omitted from the body are written back as they were read
(`MergePostings`, `CommitPatch`). In the other modules a property of this kind says
so in its own text: the history variable `overlap` (or `crossed`, in `Accounts`)
records that two requests have been in flight at once, and the property claims
nothing after that. Everything else is claimed of every interleaving.

Where documentation and code part, read while modelling and not shown by a run.

Scheduler, ledger, AI:

* ADR-0002:143 promises at most one success per cycle; a crash between
  `runner.py:340` and `347` fires the cycle again (`ImplementsJobCycles` counts it).
* The comment at `runner.py:442` counts failures "since the last success"; the
  query (443-453) counts the FAILED rows of the job's whole life, so three failures
  far apart use up the retries of a recurring job. `RetryLadder`, a theorem and not
  a property of a run, is the ladder of the code.
* `scheduled_job.py:44` ("third failure") and ADR-0002:107 ("After the third failure,
  the runner writes a row with `status="dead_letter"`") retire a job at the third
  failure; the code, its tests and ADR-0002:280 ("3 retries") allow three FAILED
  rows and retire it at the fourth failure. `RetriesWait`, which the run checks, is
  what both tellings have in common.
* A `stop` that "waits for it to drain" does not end while a job of an unregistered
  kind is due, and `create_app` registers no `envelope_refill` handler; hence
  `StopDrainsUnlessOrphaned`.
* "source is already voided": two racing voids, or a void and a replace, write two
  reversals.
* `engine.py:5-6` calls `post_transaction` the single chokepoint; imports post
  around it, into closed periods too.
* `transactions.py:337` says pool balances auto-correct; voiding a reversal puts
  the expense back and leaves its shadow transaction voided.
* `transactions.py:913-915` says the old description does not survive a
  rectification; a void in flight writes it into its reversal.
* The comment of the cost cap says two concurrent callers "can't both observe
  `spent < cap` and both commit"; two calls that chat without the lock do. Hence a
  bound and not the cap in `RecordedOverspendIsBounded`.
* `ai.py:623-626` has `categorize-proposals` honour the cost cap and the rate limit
  "exactly the same way the import-apply flow does", and `categorize.py:183-187` has
  the existing cost-cap accounting pick its rows up. The handler passes the request's
  session, so `use_session_or_make_one` does not commit, nobody else does, and
  `get_session` closes it: rows and costs are rolled back, the spend of this route is
  never charged, and no cap bounds it.
* Other costs that are paid and not charged: those of an import that fails, and of a
  row that finds the database locked. A cost charged to the fallback is not enforced
  to be zero (`policy.py:172`, `adapters.py:131`), and nothing stops a fallback at the
  cap.
* ADR-0005:300 limits calls per user "across all capabilities"; rows of categorize
  name no user and are not counted. ADR-0005:342 wants a row for every call; the
  row of a refused suggestion, and those of an import that fails, are lost.

Audit log:

* `audit_log_helpers.py:21-23` "guarantees the trigger is recreated even on
  exception", and `households.py:189-193` and `audit_retention.py:181-185` repeat it.
  It is not, when it is the DML or the commit that raises: the `DROP` was committed
  by itself, and the `CREATE` of the `finally` is in the transaction that is rolled
  back (or raises in turn, when the database is locked or the trigger is there). So
  is it after a crash. `AuditLogIsProtected` says `lost` of such a trigger.
* Two brackets that overlap: the first to end creates the trigger, the `DELETE` or
  `UPDATE` of the other is then refused by it, and its `CREATE` raises.

Pools and accounts:

* A user's refill reaches a deactivated envelope: `_pool_helpers.py:169` builds the
  row POSTED, and the check of `core/allocation/engine.py` that its docstring
  promises returns at once for such a row (line 257).
* `envelope_refill.py:12-14` sums the inflows since the last run; line 172 takes the
  day of that run, so an inflow of the same day may be counted by two fires.
* `refill_schedules.py:280-283` says that a schedule may be created again after a
  cancel; the key of the cancelled row conflicts for ever.
* `refill_engine.py:48-50` expects the rule in the envelope's currency; nothing
  enforces it, and the fire fails.
* `create_parents` is called idempotent (near `accounts.py:362`); a name that two
  siblings share gets a fresh row at every call, and a row is reused without a look
  at its type, currency, visibility or active flag.
* `accounts.py` (near 826) calls an erasure final; a PATCH of the inactive account
  sets its name and notes again.
* A PATCH that makes a parent private leaves its shared children as they are. The
  category side of an import posts to placeholders. `get_by_code` raises where two
  rows have one code.

Reconciliation and imports:

* `reconciliations.py:498` says a rejection returns the transaction to the
  unmatched pool; of a completed reconciliation it deletes the match and leaves the
  transaction marked.
* `storage/repositories/transaction.py:510-513` says only POSTED rows are matched;
  `manual_match` accepts a PENDING one.
* After a forced upload of the same file the duplicate check of the next one finds
  two batches and fails with a 500 in place of a 409.

Reports and journal files:

* `trial_balance.py:8-11`, `routers/reports.py:3-7` and `balance_sheet.py:5-7` have
  the two sides equal. They are not when an inactive account holds something
  (`reports_totals`), to a member who does not see an account, when an account is
  opened between the two SELECTs, or when amounts are finer than a cent, since each
  account is rounded by itself; `TotalsBalance` states the difference.
* `balance_sheet.py:7` writes assets = liabilities + equity + retained earnings. The
  sections of liabilities and equity keep the sign of the ledger (a credit is
  negative), and nothing computes the difference of the sides: the equation holds of
  the shown numbers as assets + liabilities + equity = retained earnings.
* The trial balance endpoint rounds to the minor unit of the currency, the HTML data
  and the other reports to 0.01 whatever the currency.
* An income statement and a cash flow go through the accounts of the first SELECT: an
  account whose first row, dated before the period, is written between the two reads
  is left out of them. A cash flow from the first date there is leaves that date out
  (`cash_flow.py:77`), an income statement does not.
* A statement whose start is after its end plus one day gives the negative of what
  lies between. An entry dated before the period and posted between the two reads is
  subtracted (`late` in `StatementCountsItsPeriod`).
* The comment at `export.py:27-29` leaves a voided pair out; the voided original is
  left out and its reversal is kept.
* An export by a member drops postings to private accounts, so the file need not
  balance and its import is refused.
* `import_apply.py:70-71` says an export can be imported again; the account seeded
  at registration is written as a path that the import does not resolve, and
  accounts of one type and name become one (`PathsAreReadable`, `Namesakes`).
* A PTA import writes no audit row.

Clients (not modelled):

* The CLI's `edit` sends postings without their pool and memo, and a replace drops
  reference and tags. Its look at the status "up front" does not see a voided row,
  which stays posted or reconciled.
* A second `recategorize --include-posted` undoes the first, because it replaces the
  reversals too; its errors are collected and it exits with 0.
* The QIF path leaves the accounts it made behind when the upload fails. The
  GnuCash import calls re-runs idempotent; a child whose parent failed is made at
  the root, again at every run.
* The TUI's edit modal shows postings, and its action sends only the other fields;
  its prefill writes 100 as `1E+2`, which its parser refuses; it offers a void of a
  pending row, which the server refuses.

Backup and restore (not modelled):

* A file that vanishes between listing and `lstat` ends a backup with an error, not
  a `BackupError`, and leaves at `--out` an archive that reads as a shorter, complete
  one, which the check of RECOVERY.md:336 accepts.
* A restore over the database of a crashed server leaves its `-journal` beside the
  restored file. A restore deletes no files. A snapshot taken inside a bracket of
  the audit log restores without the trigger. The documents name flags of
  `tulip restore` that do not exist.

## 7. What could follow

What a redaction of a user clears; the blob of AI settings, read, changed and written
back whole; `Desk`, the clients that act on what they saw (edit, recategorize, the
TUI's modals); `Backups`, an archive taken of files and tables that move; the intake
that makes accounts before the batch it is for. `Reports` does not cover the
envelope, sinking-fund and reconciliation reports and the balance of one account,
which read twice in the same way.

## 8. Not modelled, and why

*Parsers* (OFX, QIF, CSV), rendering and *custom queries* are sequential text
processing, tested against fixtures. The *command line* and the *TUI*, apart from
the token store, print the answer of a request and keep no state; their longer
commands are sequences of requests that the modules model one by one. *Tags, CSV
profiles, notifications* and *household settings* are edits of one row that no
property here depends on. The *balance triggers* and money arithmetic are left out
of `Ledger` because its properties do not depend on amounts. *Backup and restore*
run while the server is stopped, or copy what SQLite's own snapshot gives them.
Encryption, logging and roles do not change the order of anything modelled. Two
processes on one database are not supported by the program. Failures of the disk
beyond a refused statement are not considered.
