---------------------------- MODULE SerialLedger -----------------------------
(***************************************************************************)
(* Ledger with a history variable that tells the behaviours in which no     *)
(* request overlaps another from the rest, and what the former promise.     *)
(* None of it holds when requests overlap.                                  *)
(***************************************************************************)
EXTENDS Ledger

VARIABLE overlap    \* history: a step was taken while another request was in flight

serialVars == <<vars, overlap>>

Meets == \E s \in Slots : req[s] # Idle /\ req'[s] = req[s]

HistoryInit == Init /\ overlap = FALSE

HistoryNext == Next /\ overlap' = (overlap \/ Meets)

HistorySpec == HistoryInit /\ [][HistoryNext]_serialVars

-----------------------------------------------------------------------------

(* ARCHITECTURE.md section 4.2: "Postings to closed periods are rejected at *)
(* the API layer".  Imports are a case of their own: promote_statement_line  *)
(* saves through save_balanced, without the gate of post_transaction.       *)
Joins(t) == ~InLedger(t) /\ tx'[t].status = "posted"

SeriallyClosedPeriodsReceiveNothing ==
    [][overlap' \/ \A t \in Tx : Joins(t) /\ tx'[t].origin = "api" =>
                                 period[tx'[t].date] = "open"]_serialVars

(* What an envelope shows as spent is what the ledger says was spent on it. *)
(* Voiding a reversal is left out: a reversal has no shadow transaction, so *)
(* that restores the expense in the ledger and leaves its pool as it was.   *)
Spent    == {t \in Tx : InLedger(t) /\ tx[t].tagged /\ ~tx[t].flipped}
Returned == {t \in Tx : InLedger(t) /\ tx[t].tagged /\ tx[t].flipped}

PostedShadows == {t \in Tx : tx[t].shadow = "posted"}

ReversalVoided == \E t \in Tx : Voided(t) /\ tx[t].reverses # NoTx

SeriallyPoolSpendMatchesLedger ==
    \/ overlap \/ ReversalVoided
    \/ Cardinality(Spent) - Cardinality(Returned) = Cardinality(PostedShadows)

(* A request served alone implements the indivisible step of Books. *)
StateOf(t) ==
    CASE tx[t].status = "absent"  -> "absent"
      [] tx[t].status = "pending" -> "draft"
      [] tx[t].status = "deleted" -> "discarded"
      [] tx[t].status = "posted" /\ Voided(t)  -> "voided"
      [] tx[t].status = "posted" /\ ~Voided(t) -> "posted"

States      == [t \in Tx |-> StateOf(t)]
Dated       == [t \in Tx |-> tx[t].date]
OpenPeriods == {p \in Periods : period[p] = "open"}
Undone      == {u \in Tx \X Tx : InLedger(u[2]) /\ tx[u[2]].reverses = u[1]}

Atomic == INSTANCE Books WITH
    state <- States, filed <- Dated, open <- OpenPeriods, undone <- Undone

SeriallyImplementsBooks ==
    Atomic!Init /\ [][overlap' \/ Atomic!Next \/ UNCHANGED Atomic!bookVars]_serialVars

=============================================================================
