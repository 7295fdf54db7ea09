------------------------------ MODULE Imports -------------------------------
(***************************************************************************)
(* Statement imports of tulip-api, /v1/imports: batches, their lines, and   *)
(* the transactions the lines are promoted to.                              *)
(*                                                                         *)
(* apply and promote are coroutines.  They suspend only at the AI provider, *)
(* after enforce_pre_call has taken the write lock, and keep it until they  *)
(* commit: a second coroutine that wants to write fails with "database is   *)
(* locked".  So no two of them overlap; the threads that exclude a line,    *)
(* delete a batch or delete a draft can commit between the reads of one and *)
(* its first write.                                                         *)
(*                                                                         *)
(* Im is the prefix of names that other components have too.                *)
(***************************************************************************)
EXTENDS Naturals, FiniteSets

CONSTANTS
    Slots,      \* requests in flight at the same time
    Accounts,   \* bank accounts the one file is imported into
    Positions,  \* the lines of the file, per account
    MaxBatch,   \* bound: batches ever created
    MaxTx       \* bound: transactions ever created from lines

Batch == 1 .. MaxBatch
Tx    == 1 .. MaxTx
NoTx  == 0
Line  == Batch \X Positions     \* a line of a batch; l[1] is its batch

ASSUME ImportsAssumption == MaxBatch \in Nat \ {0} /\ MaxTx \in Nat

VARIABLES
    batch,      \* batch[b]: status and account of the row of import_batches
    excluded,   \* the lines with is_excluded
    promoted,   \* promoted[l]: promoted_transaction_id of line l
    tx,         \* tx[t]: status, lines it was made from, imported_from_id
    req,        \* req[s]: what the request in slot s has read, or Idle
    overlap     \* history: two requests have been in flight at once

imRows == <<batch, excluded, promoted, tx>>
imVars == <<batch, excluded, promoted, tx, req, overlap>>

ImIdle == [op |-> "idle"]

Request ==
    {ImIdle}
    \cup [op : {"promote"}, batch : Batch, lines : SUBSET Line,
          applies : BOOLEAN]
    \cup [op : {"exclude"}, line : Line, to : BOOLEAN]
    \cup [op : {"delete"}, batch : Batch]
    \cup [op : {"discard"}, tx : Tx]

ImTypeOK ==
    /\ batch \in [Batch -> [status : {"absent", "parsed", "applied", "deleted"},
                            account : Accounts]]
    /\ excluded \subseteq Line
    /\ promoted \in [Line -> Tx \cup {NoTx}]
    /\ tx \in [Tx -> [status : {"absent", "pending", "posted", "deleted"},
                      lines : SUBSET Line, from : Batch]]
    /\ req \in [Slots -> Request]
    /\ overlap \in BOOLEAN

-----------------------------------------------------------------------------

Exists(b)  == batch[b].status \in {"parsed", "applied"}
LinesOf(b) == {b} \X Positions
Live(t)    == tx[t].status \in {"pending", "posted"}

FreshBatches(bs) ==
    /\ \A b \in bs : batch[b].status = "absent"
    /\ \A b \in Batch \ bs, c \in bs : b < c <=> batch[b].status # "absent"
FreshTxs(ts) ==
    /\ \A t \in ts : tx[t].status = "absent"
    /\ \A t \in Tx \ ts, u \in ts : t < u <=> tx[t].status # "absent"

ImInit ==
    /\ \E a \in Accounts :
          batch = [b \in Batch |-> [status |-> "absent", account |-> a]]
    /\ excluded = {}
    /\ promoted = [l \in Line |-> NoTx]
    /\ tx = [t \in Tx |-> [status |-> "absent", lines |-> {}, from |-> 1]]
    /\ req = [s \in Slots |-> ImIdle]
    /\ overlap = FALSE

-----------------------------------------------------------------------------

Meets(s) == \E u \in Slots \ {s} : req[u] # ImIdle

Begin(s, r) ==
    /\ req[s] = ImIdle
    /\ req' = [req EXCEPT ![s] = r]
    /\ overlap' = (overlap \/ Meets(s))
    /\ UNCHANGED imRows

(* A coroutine starts its reads when no other one is running. *)
BeginOnLoop(s, r) ==
    /\ \A u \in Slots : req[u].op # "promote"
    /\ Begin(s, r)

(* apply_batch: every line neither excluded nor promoted. *)
ApplicableWithPromoted(b) == LinesOf(b) \ excluded    \* mutant: promoted again
ApplicableFirst(b) ==                 \* mutant: the first line alone
    {l \in LinesOf(b) : l \notin excluded /\ promoted[l] = NoTx
        /\ \A k \in LinesOf(b) : k \notin excluded => k[2] >= l[2]}
Applicable(b) == {l \in LinesOf(b) : l \notin excluded /\ promoted[l] = NoTx}

BeginApply(s, b) ==
    /\ batch[b].status = "parsed"
    /\ BeginOnLoop(s, [op |-> "promote", batch |-> b, lines |-> Applicable(b),
                       applies |-> TRUE])

(* promote_line: the status of the batch is not looked at. *)
BeginPromote(s, l) ==
    /\ Exists(l[1]) /\ l \notin excluded /\ promoted[l] = NoTx
    /\ BeginOnLoop(s, [op |-> "promote", batch |-> l[1], lines |-> {l},
                       applies |-> FALSE])

BeginExclude(s, l) ==
    /\ Exists(l[1]) /\ promoted[l] = NoTx
    /\ Begin(s, [op |-> "exclude", line |-> l, to |-> l \notin excluded])

BeginDelete(s, b) ==
    /\ Exists(b) /\ \A l \in LinesOf(b) : promoted[l] = NoTx
    /\ Begin(s, [op |-> "delete", batch |-> b])

(* DELETE /v1/transactions of a draft made by an import. *)
BeginDiscard(s, t) ==
    /\ tx[t].status = "pending"
    /\ Begin(s, [op |-> "discard", tx |-> t])

Abort(s) ==
    /\ req[s] # ImIdle
    /\ req' = [req EXCEPT ![s] = ImIdle]
    /\ UNCHANGED <<imRows, overlap>>

-----------------------------------------------------------------------------

Done(s) == req' = [req EXCEPT ![s] = ImIdle] /\ UNCHANGED overlap

(* New transactions, one for each group of lines: ids in order of insertion.*)
(* The lines point to the transaction made from them.                       *)
Land(groups, from, statuses) ==
    \E id \in [groups -> Tx] :
        /\ \A g, h \in groups : id[g] = id[h] => g = h
        /\ FreshTxs({id[g] : g \in groups})
        /\ \E status \in [groups -> statuses] :
              tx' = [t \in Tx |->
                        IF \E g \in groups : id[g] = t
                          THEN LET g == CHOOSE g \in groups : id[g] = t IN
                               [status |-> status[g], lines |-> g, from |-> from[g]]
                          ELSE tx[t]]
        /\ promoted' = [l \in Line |->
                           IF \E g \in groups : l \in g
                             THEN id[CHOOSE g \in groups : l \in g]
                             ELSE promoted[l]]

(* promote_statement_line for each line, then mark_applied if it is an      *)
(* apply, in one commit.  Nothing is read again; the rows must be there.    *)
CommitPromote(s) ==
    /\ req[s].op = "promote" /\ Exists(req[s].batch)
    /\ LET groups == {{l} : l \in req[s].lines}
       IN Land(groups, [g \in groups |-> req[s].batch], {"pending", "posted"})
    /\ batch' = IF req[s].applies
                  THEN [batch EXCEPT ![req[s].batch].status = "applied"]
                  ELSE batch
    /\ Done(s)
    /\ UNCHANGED excluded

CommitExclude(s) ==
    /\ req[s].op = "exclude" /\ Exists(req[s].line[1])
    /\ excluded' = IF req[s].to THEN excluded \cup {req[s].line}
                                ELSE excluded \ {req[s].line}
    /\ Done(s)
    /\ UNCHANGED <<batch, promoted, tx>>

(* The lines go with the batch; the foreign key of transactions protects a  *)
(* batch that a live transaction says it was imported from.                 *)
CommitDelete(s) ==
    /\ req[s].op = "delete"
    /\ \A t \in Tx : Live(t) => tx[t].from # req[s].batch
    /\ batch' = [batch EXCEPT ![req[s].batch].status = "deleted"]
    /\ excluded' = excluded \ LinesOf(req[s].batch)
    /\ promoted' = [l \in Line |->
                       IF l[1] = req[s].batch THEN NoTx ELSE promoted[l]]
    /\ Done(s)
    /\ UNCHANGED tx

(* delete_pending un-promotes every line of the draft, whoever's it is. *)
CommitDiscard(s) ==
    /\ req[s].op = "discard" /\ Live(req[s].tx)
    /\ tx' = [tx EXCEPT ![req[s].tx].status = "deleted"]
    /\ promoted' = [l \in Line |->
                       IF promoted[l] = req[s].tx THEN NoTx ELSE promoted[l]]
    /\ Done(s)
    /\ UNCHANGED <<batch, excluded>>

-----------------------------------------------------------------------------
(* Uploads: coroutines whose checks and writes do not suspend.              *)

Uploadable(a) == \A b \in Batch : Exists(b) => batch[b].account # a

(* ImportBatchRepository.create and the bulk_insert of the lines. *)
Parsed(a) == [status |-> "parsed", account |-> a]

(* create_import; force, for admins, skips the duplicate check. *)
UploadFile(s, a, force) ==
    /\ req[s] = ImIdle
    /\ force \/ Uploadable(a)
    /\ \E b \in Batch :
          /\ FreshBatches({b})
          /\ batch' = [batch EXCEPT ![b] = Parsed(a)]
    /\ overlap' = (overlap \/ Meets(s))
    /\ UNCHANGED <<excluded, promoted, tx, req>>

(* pair_transfers: reciprocal legs (the same position here) make a pair, a  *)
(* leg without its other half stays alone.                                  *)
PairTransfers(b, pairs, legs) ==
    {{<<b, i>>, <<b + 1, i>>} : i \in pairs} \cup {{l} : l \in legs}

(* A QIF file of two accounts: one batch each, and one draft for each pair, *)
(* which both lines point to, and for each leg.                             *)
UploadMultiAccount(s, a, c) ==
    /\ req[s] = ImIdle
    /\ a # c /\ Uploadable(a) /\ Uploadable(c)
    /\ \E b \in Batch :
       \E pairs \in SUBSET Positions :
       \E legs \in SUBSET ({b, b + 1} \X (Positions \ pairs)) :
          /\ b + 1 \in Batch /\ FreshBatches({b, b + 1})
          /\ batch' = [batch EXCEPT ![b] = Parsed(a), ![b + 1] = Parsed(c)]
          /\ LET groups == PairTransfers(b, pairs, legs)
             IN \E from \in [groups -> {b, b + 1}] :
                   /\ \A g \in groups : \E l \in g : from[g] = l[1]
                   /\ Land(groups, from, {"pending"})
    /\ overlap' = (overlap \/ Meets(s))
    /\ UNCHANGED <<excluded, req>>

ImNext ==
    \E s \in Slots :
        \/ \E b \in Batch : BeginApply(s, b) \/ BeginDelete(s, b)
        \/ \E l \in Line : BeginPromote(s, l) \/ BeginExclude(s, l)
        \/ \E t \in Tx : BeginDiscard(s, t)
        \/ CommitPromote(s) \/ CommitExclude(s) \/ CommitDelete(s)
        \/ CommitDiscard(s) \/ Abort(s)
        \/ \E a \in Accounts, force \in BOOLEAN : UploadFile(s, a, force)
        \/ \E a, c \in Accounts : UploadMultiAccount(s, a, c)

ImSpec == ImInit /\ [][ImNext]_imVars

-----------------------------------------------------------------------------
(* What holds however requests interleave.                                  *)

(* A line points to a transaction exactly while that transaction exists and *)
(* was made from the line: no statement line counts twice in the ledger,    *)
(* none stays stuck to a draft that is gone, and no batch is deleted from   *)
(* under a transaction of its own, a transfer over two batches included.    *)
LinesAgreeWithLedger ==
    /\ \A l \in Line, t \in Tx : promoted[l] = t <=> Live(t) /\ l \in tx[t].lines
    /\ \A t \in Tx : Live(t) => Exists(tx[t].from) /\ \A l \in tx[t].lines : Exists(l[1])

-----------------------------------------------------------------------------
(* What holds of requests served one at a time, and not otherwise.          *)

(* apply leaves no line behind: once the batch is APPLIED, which is for     *)
(* ever, every line of it is in the ledger or excluded.                     *)
ApplyLeavesNothing ==
    [][\A b \in Batch :
          /\ batch[b].status = "applied" => batch'[b].status # "parsed"
          /\ batch[b].status = "parsed" /\ batch'[b].status = "applied"
                /\ ~overlap =>
                   \A l \in LinesOf(b) : l \in excluded' \/ promoted'[l] # NoTx]_imVars

=============================================================================
