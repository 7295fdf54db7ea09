------------------------------- MODULE AiGate -------------------------------
(***************************************************************************)
(* The pre-call gate of tulip-ai (enforce_pre_call) and the capabilities    *)
(* that go through it, over SQLite's single write lock.                     *)
(*                                                                         *)
(* A capability call is a coroutine of the one event loop: it runs alone    *)
(* from one await to the next, and awaits nothing but the provider.  To     *)
(* wait for the write lock blocks the thread it runs on, the whole loop     *)
(* with it, for five seconds at most ("database is locked").  Requests of   *)
(* the thread pool want the lock too.                                       *)
(*                                                                         *)
(*   propose     POST /v1/ai/categorize-proposals: gate, chat and row in    *)
(*               the session of the request, which nothing commits          *)
(*   apply       apply and promote of imports: the same for each line, in   *)
(*               the session of the request, which commits at the end       *)
(*   suggest     proposals/suggest (and forecast): the session of the gate  *)
(*               is closed before the chat, the row has one of its own      *)
(*   ask         POST /v1/ai/ask: like suggest, and a second chat follows   *)
(***************************************************************************)
EXTENDS Naturals, FiniteSets

CONSTANTS
    Calls,      \* capability calls in flight at the same time
    Writers,    \* requests of the thread pool that write
    Users,
    Cap,        \* monthly_cost_cap_usd
    Limit,      \* rate_limit_per_hour
    MaxCost,    \* bound: cost of one answer
    MaxFallback,\* bound: what fallbacks may cost in a month
    MaxLines,   \* bound: lines of one apply
    Nobody

ASSUME AiGateAssumption ==
    /\ IsFiniteSet(Calls) /\ Calls \cap Writers = {}
    /\ Nobody \notin Calls \cup Writers
    /\ Cap \in Nat /\ Limit \in Nat \ {0}
    /\ MaxCost \in Nat /\ MaxFallback \in Nat /\ MaxLines \in Nat \ {0}

VARIABLES
    spent,      \* cost of the billable rows committed this month: of calls
                \* to the provider of the policy
    fallback,   \* and of calls to the fallback provider
    used,       \* used[u]: rows of the last hour with actor_user_id = u;
                \* Limit stands for any number from Limit on
    lock,       \* who holds the write lock, or Nobody
    loop,       \* the coroutine that runs, or Nobody
    call,       \* call[c]: the capability call in slot c, or Idle
    writer      \* writer[w]: "idle", "waits" for the lock or "writes"

vars == <<spent, fallback, used, lock, loop, call, writer>>

Kinds    == {"propose", "apply", "suggest", "ask"}
Locking  == {"propose", "apply"}        \* keep the gate's session over the chat
Idle     == [step |-> "idle"]

(* left: chats to come, the present one included; degraded: the gate took   *)
(* the fallback; cost, extra: of the rows written and not committed, of the *)
(* provider and of the fallback; owes: of the answer to record, good unless *)
(* it is a provider_error or declined.                                      *)
Call == [kind : Kinds, user : Users, step : {"gate", "chat", "audit", "promote"},
         left : Nat, degraded : BOOLEAN, cost : Nat, extra : Nat, owes : Nat,
         good : BOOLEAN]

TypeOK ==
    /\ spent \in Nat /\ fallback \in Nat
    /\ used \in [Users -> 0 .. Limit]
    /\ lock \in Calls \cup Writers \cup {Nobody}
    /\ loop \in Calls \cup {Nobody}
    /\ call \in [Calls -> Call \cup {Idle}]
    /\ writer \in [Writers -> {"idle", "waits", "writes"}]

Init ==
    /\ spent = 0 /\ fallback = 0
    /\ used = [u \in Users |-> 0]
    /\ lock = Nobody /\ loop = Nobody
    /\ call = [c \in Calls |-> Idle]
    /\ writer = [w \in Writers |-> "idle"]

-----------------------------------------------------------------------------

Chats(kind) == IF kind = "ask" THEN {2} ELSE
               IF kind = "apply" THEN 1 .. MaxLines ELSE {1}

Counted(u) == [used EXCEPT ![u] = IF @ < Limit THEN @ + 1 ELSE Limit]

(* The call ends: its session is closed, which releases the lock. *)
Ends(c) ==
    /\ call' = [call EXCEPT ![c] = Idle]
    /\ lock' = IF lock = c THEN Nobody ELSE lock
    /\ loop' = Nobody

(* The call goes on to a step: it suspends in "chat" and runs on otherwise. *)
GoesOn(c, r) ==
    /\ call' = [call EXCEPT ![c] = r]
    /\ loop' = IF r.step = "chat" THEN Nobody ELSE c

(* resolve_policy: a policy that disables the capability, or a missing API  *)
(* key, leaves a row and makes no call; an import goes on with its fallback.*)
FirstSteps(kind) == {"gate", IF kind = "apply" THEN "promote" ELSE "audit"}

Start(c, kind, u) ==
    /\ loop = Nobody /\ call[c] = Idle
    /\ \E n \in Chats(kind), step \in FirstSteps(kind) :
          GoesOn(c, [kind |-> kind, user |-> u, step |-> step, left |-> n,
                     degraded |-> FALSE, cost |-> 0, extra |-> 0, owes |-> 0,
                     good |-> FALSE])
    /\ UNCHANGED <<spent, fallback, used, lock, writer>>

-----------------------------------------------------------------------------
(* enforce_pre_call, under the lock.                                        *)

AtGate(c) == loop = c /\ call[c].step = "gate" /\ lock \in {Nobody, c}

(* check_rate_limit, check_cost_cap: the next call is estimated at 0, and a *)
(* session sees its own rows, whichever provider they name.                 *)
RateLimited(c) == used[call[c].user] >= Limit
OverCap(c)     == spent + fallback + call[c].cost + call[c].extra > Cap

(* At the cap, cost_cap_behaviour and fallback_provider decide. *)
AllowAtCap(c) ==                      \* mutant: the cap does not change provider
    /\ AtGate(c) /\ ~RateLimited(c)
    /\ GoesOn(c, [call[c] EXCEPT !.step = "chat", !.degraded = FALSE])
    /\ lock' = IF call[c].kind \in Locking THEN c ELSE Nobody
    /\ UNCHANGED <<spent, fallback, used, writer>>
Allow(c) ==
    /\ AtGate(c) /\ ~RateLimited(c)
    /\ GoesOn(c, [call[c] EXCEPT !.step = "chat", !.degraded = OverCap(c)])
    /\ lock' = IF call[c].kind \in Locking THEN c ELSE Nobody
    /\ UNCHANGED <<spent, fallback, used, writer>>

(* ask commits the row of the refusal in the session of the gate; propose    *)
(* writes it to the session of the request, and it goes with it.  An import *)
(* goes on, with the lock.  suggest opens a second session for the row      *)
(* while the first still holds the lock.                                    *)
Refuse(c) ==
    /\ AtGate(c) /\ (RateLimited(c) \/ OverCap(c))
    /\ CASE call[c].kind = "ask"     -> used' = Counted(call[c].user) /\ Ends(c)
         [] call[c].kind = "propose" -> UNCHANGED used /\ Ends(c)
         [] call[c].kind = "apply"   -> /\ GoesOn(c, [call[c] EXCEPT !.step = "promote"])
                                        /\ lock' = c
                                        /\ UNCHANGED used
         [] call[c].kind = "suggest" -> /\ GoesOn(c, [call[c] EXCEPT !.step = "audit"])
                                        /\ lock' = c
                                        /\ UNCHANGED used
    /\ UNCHANGED <<spent, fallback, writer>>

(* What litellm prices an answer at: nothing makes a fallback free. *)
Costs(c) == {k \in 0 .. MaxCost : k = 0 \/ ~call[c].degraded
                                  \/ fallback + call[c].extra + k <= MaxFallback}

(* adapter.chat returns or raises.  propose writes its row, whatever the    *)
(* outcome, and returns its candidates; then get_session closes the session *)
(* of the request, the row is rolled back, and the cost is charged nowhere. *)
Answer(c) ==
    /\ loop = Nobody /\ call[c].step = "chat"
    /\ \E k \in Costs(c), good \in BOOLEAN :
          CASE call[c].kind = "propose" -> Ends(c)
            [] call[c].kind = "apply" ->
                 /\ IF call[c].degraded
                      THEN GoesOn(c, [call[c] EXCEPT !.step = "promote", !.extra = @ + k])
                      ELSE GoesOn(c, [call[c] EXCEPT !.step = "promote", !.cost = @ + k])
                 /\ UNCHANGED lock
            [] OTHER ->
                 /\ GoesOn(c, [call[c] EXCEPT !.step = "audit", !.owes = k,
                                              !.good = good])
                 /\ UNCHANGED lock
    /\ UNCHANGED <<spent, fallback, used, writer>>

(* _audit: one row, in a session of its own.  A declined propose writes its *)
(* row to the session of the request, which takes the lock for a moment and *)
(* leaves nothing.  A good first answer of ask is followed by the second    *)
(* chat, which no gate precedes.                                            *)
Record(c) ==
    /\ loop = c /\ call[c].step = "audit" /\ lock = Nobody
    /\ IF call[c].degraded
         THEN fallback' = fallback + call[c].owes /\ UNCHANGED spent
         ELSE spent' = spent + call[c].owes /\ UNCHANGED fallback
    /\ used' = IF call[c].kind \in Locking THEN used ELSE Counted(call[c].user)
    /\ IF call[c].good /\ call[c].left > 1
         THEN /\ GoesOn(c, [call[c] EXCEPT !.step = "chat", !.left = @ - 1, !.owes = 0])
              /\ UNCHANGED lock
         ELSE Ends(c)
    /\ UNCHANGED writer

(* An import writes the transaction of the line, then takes the next line   *)
(* or commits; or something fails and the rows of the calls are rolled back.*)
Promote(c) ==
    /\ loop = c /\ call[c].step = "promote" /\ lock \in {Nobody, c}
    /\ \/ /\ call[c].left > 1
          /\ GoesOn(c, [call[c] EXCEPT !.step = "gate", !.left = @ - 1])
          /\ lock' = c
          /\ UNCHANGED <<spent, fallback>>
       \/ /\ call[c].left = 1
          /\ spent' = spent + call[c].cost
          /\ fallback' = fallback + call[c].extra
          /\ Ends(c)
       \/ Ends(c) /\ UNCHANGED <<spent, fallback>>
    /\ UNCHANGED <<used, writer>>

(* "database is locked": the categorizer swallows it, and the import that   *)
(* called it goes on to write; for every other call it is the end.          *)
TimeoutNever(c) == FALSE /\ UNCHANGED vars    \* mutant: no busy timeout
Timeout(c) ==
    /\ loop = c
    /\ \/ call[c].step = "audit" /\ lock # Nobody
       \/ call[c].step \in {"gate", "promote"} /\ lock \notin {Nobody, c}
    /\ IF call[c].kind = "apply" /\ call[c].step = "gate"
         THEN /\ GoesOn(c, [call[c] EXCEPT !.step = "promote"])
              /\ UNCHANGED lock
         ELSE Ends(c)
    /\ UNCHANGED <<spent, fallback, used, writer>>

-----------------------------------------------------------------------------
(* The thread pool and the clock.                                           *)

Wait(w) ==
    /\ writer[w] = "idle"
    /\ writer' = [writer EXCEPT ![w] = "waits"]
    /\ UNCHANGED <<spent, fallback, used, lock, loop, call>>

(* The lock comes within five seconds, or the request fails. *)
Resume(w) ==
    /\ writer[w] = "waits"
    /\ IF lock = Nobody
         THEN lock' = w /\ writer' = [writer EXCEPT ![w] = "writes"]
         ELSE UNCHANGED lock /\ writer' = [writer EXCEPT ![w] = "idle"]
    /\ UNCHANGED <<spent, fallback, used, loop, call>>

Commit(w) ==
    /\ writer[w] = "writes"
    /\ lock' = Nobody
    /\ writer' = [writer EXCEPT ![w] = "idle"]
    /\ UNCHANGED <<spent, fallback, used, loop, call>>

(* Rows leave the hour, or the month: those not committed yet as well. *)
Slide(u) ==
    /\ \E n \in 0 .. used[u] : used' = [used EXCEPT ![u] = n]
    /\ UNCHANGED <<spent, fallback, lock, loop, call, writer>>

NewMonth ==
    /\ spent' = 0 /\ fallback' = 0
    /\ call' = [c \in Calls |-> IF call[c] = Idle THEN Idle
                                ELSE [call[c] EXCEPT !.cost = 0, !.extra = 0]]
    /\ UNCHANGED <<used, lock, loop, writer>>

Run(c) == Allow(c) \/ Refuse(c) \/ Record(c) \/ Promote(c) \/ Timeout(c)

Next ==
    \/ \E c \in Calls : \/ \E kind \in Kinds, u \in Users : Start(c, kind, u)
                        \/ Run(c) \/ Answer(c)
    \/ \E w \in Writers : Wait(w) \/ Resume(w) \/ Commit(w)
    \/ \E u \in Users : Slide(u)
    \/ NewMonth

(* The loop runs its ready coroutine, which the busy timeout lets go on; it *)
(* serves answers in order of arrival, so each is served if the loop is     *)
(* free again and again; the provider's client has a timeout; a thread      *)
(* commits or fails.                                                        *)
Fairness ==
    /\ \A c \in Calls : WF_vars(Run(c)) /\ SF_vars(Answer(c))
    /\ \A w \in Writers : WF_vars(Resume(w)) /\ WF_vars(Commit(w))

Spec == Init /\ [][Next]_vars /\ Fairness

-----------------------------------------------------------------------------
(* Properties.                                                              *)

(* _acquire_household_gate_lock: "callers MUST commit (or rollback) ...     *)
(* otherwise the lock leaks": the lock is held by a writer at work, by the  *)
(* running coroutine, or over a chat by the two capabilities that keep the  *)
(* session; and nothing is written without it.                              *)
LockIsAccountedFor ==
    /\ \A w \in Writers : lock = w <=> writer[w] = "writes"
    /\ \A c \in Calls :
          /\ lock = c => \/ loop = c
                         \/ call[c].step = "chat" /\ call[c].kind \in Locking
          /\ call[c] # Idle /\ lock # c => call[c].cost = 0 /\ call[c].extra = 0

(* What the lock buys: over a chat that keeps it, what is recorded for the  *)
(* month is within the cap as when the gate looked, whatever else is in     *)
(* flight.                                                                  *)
HeldCallIsWithinCap ==
    \A c \in Calls :
        call[c].step = "chat" /\ call[c].kind \in Locking /\ ~call[c].degraded =>
            spent + fallback + call[c].cost + call[c].extra <= Cap

(* What it does not buy: each call in flight may take what is recorded of   *)
(* the provider past the cap, by one answer, or two for ask, and no more.   *)
(* The bound is on the records: what propose costs, or an import that fails,*)
(* or a row that meets a locked database, is paid and not recorded; and it  *)
(* is on the provider of the policy, for past the cap the fallback goes on  *)
(* at whatever it costs.                                                    *)
RecordedOverspendIsBounded ==
    spent <= Cap + 2 * Cardinality(Calls) * MaxCost

(* Every call and every writing thread is answered, though a coroutine that *)
(* waits for the lock stops the loop that its holder needs to go on.        *)
EveryRequestEnds ==
    /\ \A c \in Calls : call[c] # Idle ~> call[c] = Idle
    /\ \A w \in Writers : writer[w] # "idle" ~> writer[w] = "idle"

=============================================================================
