------------------------------- MODULE Ledger -------------------------------
(***************************************************************************)
(* The main ledger behind /v1/transactions and /v1/periods of tulip-api,    *)
(* with the paired shadow transactions of ADR-0001.                         *)
(*                                                                         *)
(* The endpoints are plain functions: they run in the thread pool, one      *)
(* session each, and SQLite opens a transaction only at the first write of  *)
(* a session.  So a request is a few reads, each of the state of its own    *)
(* instant, and then one atomic commit of everything it writes; the commit  *)
(* uses what was read, and the re-checks of the repository see the rows of  *)
(* the session's identity map, not the table's.                             *)
(***************************************************************************)
EXTENDS Integers, FiniteSets

CONSTANTS
    Slots,      \* threads that can be serving a request at the same time
    Periods,    \* accounting periods; a date is the period it falls in
    Names,      \* descriptions users type
    Redacted,   \* the text [redacted]
    MaxTx       \* bound: rows ever inserted into transactions

Tx   == 1 .. MaxTx     \* ids, in insertion order
NoTx == 0

ASSUME LedgerAssumption ==
    /\ MaxTx \in Nat
    /\ Redacted \notin Names

VARIABLES
    tx,          \* tx[t]: the row t of transactions, with its shadow pairing
    period,      \* period[p]: "open" or "soft_closed"
    poolActive,  \* is_active of the one pool postings are tagged with
    req          \* req[s]: what the request in slot s has read, or Idle

vars == <<tx, period, poolActive, req>>

(* A description typed by a user has depth 0; "Reversal of <d>: <reason>"   *)
(* is one deeper than d and still names what d named.                       *)
Desc == [name : Names \cup {Redacted}, depth : Nat]

(* status: POSTED and RECONCILED are "posted", no handler here tells them   *)
(* apart.  flipped: the sign of the postings.  tagged: an expense posting   *)
(* carries pool_id.  shadow: the status of the paired shadow transaction.   *)
(* replaces and origin are history.                                         *)
Row == [status : {"absent", "pending", "posted", "deleted"},
        date : Periods, desc : Desc, flipped : BOOLEAN, tagged : BOOLEAN,
        shadow : {"none", "posted", "voided"},
        voidedBy : Tx \cup {NoTx}, reverses : Tx \cup {NoTx},
        replaces : Tx \cup {NoTx}, origin : {"api", "import"}]

Idle == [op |-> "idle"]

Request ==
    {Idle}
    \cup [op : {"create"}, step : {"read", "gated"},
          date : Periods, tagged : BOOLEAN, name : Names]
    \cup [op : {"void"}, step : {"read", "gated"}, src : Tx, seen : Row,
          on : Periods]
    \cup [op : {"replace"}, step : {"read", "gated"}, src : Tx, seen : Row,
          on : Periods, date : Periods, tagged : BOOLEAN, name : Names]
    \cup [op : {"patch"}, step : {"read", "merged"}, src : Tx,
          given : SUBSET {"date", "postings"}, date : Periods,
          tagged : BOOLEAN]
    \cup [op : {"rectify"}, src : Tx, seen : Row, name : Names]
    \cup [op : {"delete"}, src : Tx]

TypeOK ==
    /\ tx \in [Tx -> Row]
    /\ period \in [Periods -> {"open", "soft_closed"}]
    /\ poolActive \in BOOLEAN
    /\ req \in [Slots -> Request]

-----------------------------------------------------------------------------

InLedger(t) == tx[t].status = "posted"
Voided(t)   == tx[t].voidedBy # NoTx

VoidableByStatus(t) == InLedger(t)    \* mutant: voided_by is not looked at
Voidable(t) == InLedger(t) /\ ~Voided(t)

EditableUnvoided(t) ==                \* mutant: POSTED rows are let through
    tx[t].status \in {"pending", "posted"} /\ ~Voided(t)
Editable(t) == tx[t].status = "pending"

Exists(t) == tx[t].status \in {"pending", "posted"}
Fresh(t)  == \A u \in Tx : tx[u].status = "absent" <=> u >= t

Typed(name) == [name |-> name, depth |-> 0]
Wrap(desc)  == [desc EXCEPT !.depth = @ + 1]

(* build_reversal: the same postings, sign-flipped, pool_id included. *)
Duplicate(src, seen, on) ==           \* mutant: the amounts are not negated
    [status |-> "posted", date |-> on, desc |-> Wrap(seen.desc),
     flipped |-> seen.flipped, tagged |-> seen.tagged, shadow |-> "none",
     voidedBy |-> NoTx, reverses |-> src, replaces |-> NoTx, origin |-> "api"]
Reversal(src, seen, on) ==
    [status |-> "posted", date |-> on, desc |-> Wrap(seen.desc),
     flipped |-> ~seen.flipped, tagged |-> seen.tagged, shadow |-> "none",
     voidedBy |-> NoTx, reverses |-> src, replaces |-> NoTx, origin |-> "api"]

(* A user's entry; derive_paired_shadow_tx pairs it if it is tagged. *)
Entry(date, tagged, name, replaces) ==
    [status |-> "posted", date |-> date, desc |-> Typed(name),
     flipped |-> FALSE, tagged |-> tagged,
     shadow |-> IF tagged THEN "posted" ELSE "none",
     voidedBy |-> NoTx, reverses |-> NoTx, replaces |-> replaces,
     origin |-> "api"]

(* A row a statement line is promoted to. *)
Imported(date, status, name) ==
    [Entry(date, FALSE, name, NoTx) EXCEPT !.status = status, !.origin = "import"]

(* What a void does to its source: the link, and ShadowTransaction.void. *)
LinkedRow(row, r) == [row EXCEPT !.voidedBy = r]    \* mutant: the shadow is left
VoidedRow(row, r) ==
    [row EXCEPT !.voidedBy = r,
                !.shadow = IF @ = "posted" THEN "voided" ELSE @]

Init ==
    /\ \E p \in Periods, n \in Names :
          tx = [t \in Tx |-> [Imported(p, "absent", n) EXCEPT !.origin = "api"]]
    /\ period = [p \in Periods |-> "open"]
    /\ poolActive = TRUE
    /\ req = [s \in Slots |-> Idle]

-----------------------------------------------------------------------------
(* The reads of a request.                                                  *)

Begin(s, r) ==
    /\ req[s] = Idle
    /\ req' = [req EXCEPT ![s] = r]
    /\ UNCHANGED <<tx, period, poolActive>>

(* The pool of a tagged posting must be active. *)
BeginCreate(s) ==
    \E date \in Periods, tagged \in BOOLEAN, name \in Names :
        /\ tagged => poolActive
        /\ Begin(s, [op |-> "create", step |-> "read", date |-> date,
                     tagged |-> tagged, name |-> name])

(* The source must be in the ledger and not voided yet. *)
BeginVoid(s, t) ==
    /\ Voidable(t)
    /\ \E on \in Periods :
          Begin(s, [op |-> "void", step |-> "read", src |-> t, seen |-> tx[t],
                    on |-> on])

BeginReplace(s, t) ==
    /\ Voidable(t)
    /\ \E on, date \in Periods, tagged \in BOOLEAN, name \in Names :
          /\ tagged => poolActive
          /\ Begin(s, [op |-> "replace", step |-> "read", src |-> t,
                       seen |-> tx[t], on |-> on, date |-> date,
                       tagged |-> tagged, name |-> name])

(* post_transaction against the periods as they are now. *)
DatesOfEntries(r) ==                  \* mutant: reversals are not gated
    IF r.op = "void" THEN {} ELSE {r.date}
Dates(r) ==
    CASE r.op = "create"  -> {r.date}
      [] r.op = "void"    -> {r.on}
      [] r.op = "replace" -> {r.on, r.date}

CheckPeriod(s) ==
    /\ req[s].op \in {"create", "void", "replace"} /\ req[s].step = "read"
    /\ \A d \in Dates(req[s]) : period[d] = "open"
    /\ req' = [req EXCEPT ![s] = [@ EXCEPT !.step = "gated"]]
    /\ UNCHANGED <<tx, period, poolActive>>

(* PATCH merges the header at once: date stands for every header field. *)
BeginPatch(s, t) ==
    /\ Editable(t)
    /\ \E given \in SUBSET {"date", "postings"} :
       \E date \in IF "date" \in given THEN Periods ELSE {tx[t].date} :
       \E tagged \in IF "postings" \in given THEN BOOLEAN ELSE {FALSE} :
          Begin(s, [op |-> "patch", step |-> "read", src |-> t,
                    given |-> given, date |-> date, tagged |-> tagged])

(* list_postings, when the body has none. *)
MergePostings(s) ==
    /\ req[s].op = "patch" /\ req[s].step = "read"
    /\ req' = [req EXCEPT ![s] =
                  [@ EXCEPT !.step = "merged",
                            !.tagged = IF "postings" \in req[s].given
                                         THEN req[s].tagged
                                         ELSE tx[req[s].src].tagged]]
    /\ UNCHANGED <<tx, period, poolActive>>

BeginRectify(s, t) ==
    /\ InLedger(t)
    /\ \E name \in Names :
          Begin(s, [op |-> "rectify", src |-> t, seen |-> tx[t], name |-> name])

BeginDelete(s, t) ==
    /\ Editable(t)
    /\ Begin(s, [op |-> "delete", src |-> t])

(* A refusal, an exception, a dropped connection or the death of the        *)
(* process before the commit: the session is rolled back.                   *)
Abort(s) ==
    /\ req[s] # Idle
    /\ req' = [req EXCEPT ![s] = Idle]
    /\ UNCHANGED <<tx, period, poolActive>>

-----------------------------------------------------------------------------
(* The commits.                                                             *)

Commit(s, rows) ==
    /\ tx' = rows
    /\ req' = [req EXCEPT ![s] = Idle]
    /\ UNCHANGED <<period, poolActive>>

CommitCreate(s) ==
    /\ req[s].op = "create" /\ req[s].step = "gated"
    /\ \E n \in Tx :
          /\ Fresh(n)
          /\ Commit(s, [tx EXCEPT ![n] = Entry(req[s].date, req[s].tagged,
                                               req[s].name, NoTx)])

CommitVoid(s) ==
    /\ req[s].op = "void" /\ req[s].step = "gated"
    /\ \E r \in Tx :
          /\ Fresh(r)
          /\ Commit(s, [tx EXCEPT
                ![r] = Reversal(req[s].src, req[s].seen, req[s].on),
                ![req[s].src] = VoidedRow(@, r)])

CommitReplacement(s) ==               \* mutant: the void is left for later
    /\ req[s].op = "replace" /\ req[s].step = "gated"
    /\ \E n \in Tx :
          /\ Fresh(n)
          /\ Commit(s, [tx EXCEPT ![n] = Entry(req[s].date, req[s].tagged,
                                               req[s].name, req[s].src)])
CommitReplace(s) ==
    /\ req[s].op = "replace" /\ req[s].step = "gated"
    /\ \E r \in Tx :
          /\ Fresh(r) /\ r + 1 \in Tx
          /\ Commit(s, [tx EXCEPT
                ![r] = Reversal(req[s].src, req[s].seen, req[s].on),
                ![r + 1] = Entry(req[s].date, req[s].tagged, req[s].name,
                                 req[s].src),
                ![req[s].src] = VoidedRow(@, r)])

(* update_pending; the row may have been deleted since it was read, and     *)
(* then the repository finds nothing and the request fails.                 *)
CommitPatch(s) ==
    /\ req[s].op = "patch" /\ req[s].step = "merged"
    /\ Exists(req[s].src)
    /\ Commit(s, [tx EXCEPT ![req[s].src] =
                     [@ EXCEPT !.date = req[s].date, !.tagged = req[s].tagged]])

(* rectify_posted: the link to the reversal is the one read, and so is the  *)
(* old description that the reversal must still wrap to be redacted.        *)
StillWraps(r, seen) == tx[r].desc = Wrap(seen.desc)

CommitRectify(s) ==
    /\ req[s].op = "rectify"
    /\ LET t == req[s].src
           r == req[s].seen.voidedBy
           renamed == [tx EXCEPT ![t] = [@ EXCEPT !.desc = Typed(req[s].name)]]
       IN Commit(s, IF r # NoTx /\ StillWraps(r, req[s].seen)
                      THEN [renamed EXCEPT ![r] =
                               [@ EXCEPT !.desc = Wrap(Typed(Redacted))]]
                      ELSE renamed)

(* delete_pending; a second delete of the same row finds nothing. *)
CommitDelete(s) ==
    /\ req[s].op = "delete"
    /\ Exists(req[s].src)
    /\ Commit(s, [tx EXCEPT ![req[s].src] = [@ EXCEPT !.status = "deleted"]])

-----------------------------------------------------------------------------
(* Requests whose reads do not matter: one step each.                       *)

(* imports apply: save_balanced with the status of the statement line. *)
Import(s) ==
    /\ req[s] = Idle
    /\ \E n \in Tx, date \in Periods, name \in Names,
          status \in {"pending", "posted"} :
          /\ Fresh(n)
          /\ tx' = [tx EXCEPT ![n] = Imported(date, status, name)]
    /\ UNCHANGED <<period, poolActive, req>>

ClosePeriod(s, p) ==
    /\ req[s] = Idle /\ period[p] = "open"
    /\ period' = [period EXCEPT ![p] = "soft_closed"]
    /\ UNCHANGED <<tx, poolActive, req>>

ReopenPeriod(s, p) ==
    /\ req[s] = Idle /\ period[p] = "soft_closed"
    /\ period' = [period EXCEPT ![p] = "open"]
    /\ UNCHANGED <<tx, poolActive, req>>

DeactivatePool(s) ==
    /\ req[s] = Idle /\ poolActive
    /\ poolActive' = FALSE
    /\ UNCHANGED <<tx, period, req>>

Next ==
    \E s \in Slots :
        \/ BeginCreate(s) \/ CheckPeriod(s) \/ MergePostings(s) \/ Abort(s)
        \/ \E t \in Tx : \/ BeginVoid(s, t) \/ BeginReplace(s, t)
                         \/ BeginPatch(s, t) \/ BeginRectify(s, t)
                         \/ BeginDelete(s, t)
        \/ CommitCreate(s) \/ CommitVoid(s) \/ CommitReplace(s)
        \/ CommitPatch(s) \/ CommitRectify(s) \/ CommitDelete(s)
        \/ Import(s) \/ DeactivatePool(s)
        \/ \E p \in Periods : ClosePeriod(s, p) \/ ReopenPeriod(s, p)

Spec == Init /\ [][Next]_vars

-----------------------------------------------------------------------------
(* What holds however requests interleave.                                  *)

Reversals(t) == {r \in Tx : InLedger(r) /\ tx[r].reverses = t}

(* persist_reversal: the reversal and the link to it are written by one     *)
(* commit, so a ledger row is linked exactly when a reversal of it exists,  *)
(* and the linked one is a reversal of that very row, of opposite sign.     *)
VoidLinkIsReversal ==
    \A t \in Tx :
        /\ Voided(t) <=> Reversals(t) # {}
        /\ Voided(t) => /\ InLedger(t)
                        /\ tx[t].voidedBy \in Reversals(t)
                        /\ tx[tx[t].voidedBy].flipped # tx[t].flipped

(* void_transaction and replace_transaction: the paired shadow transaction  *)
(* of a tagged entry counts in the pool exactly while the entry is not      *)
(* voided, even when two requests void it, or a request aborts half-way.    *)
ShadowFollowsMain ==
    \A t \in Tx :
        /\ tx[t].shadow = "posted" => InLedger(t) /\ ~Voided(t)
        /\ tx[t].shadow = "voided" => Voided(t)
        /\ InLedger(t) /\ tx[t].tagged /\ tx[t].reverses = NoTx =>
              tx[t].shadow # "none"

(* replace_transaction: "Both writes commit together or roll back together" *)
(* - no replacement is ever seen beside a source that still counts, and a   *)
(* source keeps one replacement per reversal at most.                       *)
Replacements(t) == {c \in Tx : InLedger(c) /\ tx[c].replaces = t}

ReplacementsAreBacked ==
    \A t \in Tx :
        Cardinality(Replacements(t)) <= Cardinality(Reversals(t))

(* A row in the ledger is immutable but for its description and its voiding *)
(* (PATCH and DELETE are for PENDING rows, and both check a status that was *)
(* read before), and a voiding is never taken back.                         *)
PostedIsImmutable ==
    [][\A t \in Tx :
          InLedger(t) =>
              /\ tx'[t] = [tx[t] EXCEPT !.desc = tx'[t].desc,
                                        !.voidedBy = tx'[t].voidedBy,
                                        !.shadow = tx'[t].shadow]
              /\ Voided(t) => tx'[t].voidedBy # NoTx
              /\ tx[t].shadow = "voided" => tx'[t].shadow = "voided"]_vars

=============================================================================
