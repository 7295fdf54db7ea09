--------------------------- MODULE Reconciliation ---------------------------
(***************************************************************************)
(* Reconciling one bank account of tulip-api against the lines of one       *)
(* import batch, or against a paper statement: /v1/reconciliations.         *)
(*                                                                         *)
(* The three endpoints that create matches are coroutines: they run on the  *)
(* event loop, never suspend, and so never meet each other.  All others run *)
(* in the thread pool, and meet each other and the coroutine.  As in        *)
(* Ledger, a request is a few reads and then one commit that takes the      *)
(* write lock; rows it updates through the ORM must still be there, bulk    *)
(* statements do what their WHERE says, and foreign keys are enforced.      *)
(***************************************************************************)
EXTENDS Integers, FiniteSets, FiniteSetsExt

CONSTANTS
    Slots,       \* requests in flight at the same time
    Lines,       \* statement lines of the batch
    Tx,          \* transactions with a posting on the account
    Drafts,      \* those of them that are PENDING; the others are POSTED
    Worth,       \* amount of a line, or of the posting on the account
    Candidates,  \* <<line, tx>> of equal amount, dated within three days
    Spans,       \* statement periods, each the transactions dated in it
    Nets,        \* ending minus starting balance of the statements
    NoLine,      \* statement_line_id of a match against paper
    NoMatch,     \* a line's reconciliation_match_id when it is NULL
    MaxRec,      \* bound: reconciliations ever opened
    MaxInserts   \* bound: requests that inserted matches

Rec   == 1 .. MaxRec
NoRec == 0

ASSUME ReconciliationAssumption ==
    /\ MaxRec \in Nat /\ MaxInserts \in Nat
    /\ Worth \in [Lines \cup Tx -> Int]
    /\ Candidates \subseteq {p \in Lines \X Tx : Worth[p[1]] = Worth[p[2]]}
    /\ Spans \subseteq SUBSET Tx /\ Drafts \subseteq Tx
    /\ Nets \subseteq Int
    /\ NoLine \notin Lines

VARIABLES
    rec,       \* rec[r]: the row r of reconciliations
    matches,   \* the rows of reconciliation_matches
    pointer,   \* pointer[l]: the match statement_lines.reconciliation_match_id
               \* of line l names
    gone,      \* drafts that were deleted
    mark,      \* mark[t]: transactions.reconciliation_id
    carried,   \* carried[t]: transactions.carried_forward_from_...
    inserts,   \* history: how many requests inserted matches
    req,       \* req[s]: what the request in slot s has read, or Idle
    overlap    \* history: two requests have been in flight at once

rows == <<rec, matches, pointer, gone, mark, carried, inserts>>
vars == <<rec, matches, pointer, gone, mark, carried, inserts, req, overlap>>

(* A match: no tells apart matches of the same pair inserted by different   *)
(* requests, as the id does.                                                *)
Match == [rec : Rec, line : Lines \cup {NoLine}, tx : Tx, no : 1 .. MaxInserts]

Row == [status : {"absent", "in_progress", "complete", "deleted"},
        paper : BOOLEAN, span : Spans, net : Nets]

Idle == [op |-> "idle"]

Request ==
    {Idle}
    \cup [op : {"create"}, paper : BOOLEAN, span : Spans, net : Nets]
    \cup [op : {"match"}, rec : Rec, pairs : SUBSET ((Lines \cup {NoLine}) \X Tx)]
    \cup [op : {"reject"}, match : Match, seen : Match \cup {NoMatch}]
    \cup [op : {"complete"}, step : {"summed", "weighed", "listed"}, rec : Rec,
          summed : SUBSET Match, txs : SUBSET Tx]
    \cup [op : {"carry"}, rec : Rec, txs : SUBSET Tx]
    \cup [op : {"uncarry"}, tx : Tx]
    \cup [op : {"revert"}, rec : Rec, lines : SUBSET Lines]

TypeOK ==
    /\ rec \in [Rec -> Row]
    /\ matches \subseteq Match
    /\ pointer \in [Lines -> Match \cup {NoMatch}]
    /\ gone \subseteq Drafts
    /\ mark \in [Tx -> Rec \cup {NoRec}]
    /\ carried \in [Tx -> Rec \cup {NoRec}]
    /\ inserts \in 0 .. MaxInserts
    /\ req \in [Slots -> Request]
    /\ overlap \in BOOLEAN

-----------------------------------------------------------------------------

Exists(r)  == rec[r].status \in {"in_progress", "complete"}
Open(r)    == rec[r].status = "in_progress"
MatchesOf(r) == {m \in matches : m.rec = r}
TxsOf(r)     == {m.tx : m \in MatchesOf(r)}
LinesOf(r)   == {m.line : m \in MatchesOf(r)} \ {NoLine}

(* match_amount: the line's, or the bank posting's when there is no line. *)
Amount(m) == IF m.line = NoLine THEN Worth[m.tx] ELSE Worth[m.line]

SumOfMatches(ms) == MapThenSumSet(Amount, ms)
SumOfTxs(ts)     == MapThenSumSet(LAMBDA t : Worth[t], ts)

MatchedNet(r)      == SumOfMatches(MatchesOf(r))
CarryForwardNet(r) == SumOfTxs({t \in Tx : carried[t] = r})

Init ==
    /\ \E span \in Spans, net \in Nets :
          rec = [r \in Rec |-> [status |-> "absent", paper |-> FALSE,
                                span |-> span, net |-> net]]
    /\ matches = {}
    /\ pointer = [l \in Lines |-> NoMatch]
    /\ gone = {}
    /\ mark = [t \in Tx |-> NoRec]
    /\ carried = [t \in Tx |-> NoRec]
    /\ inserts = 0
    /\ req = [s \in Slots |-> Idle]
    /\ overlap = FALSE

-----------------------------------------------------------------------------
(* The reads of a request.                                                  *)

Meets(s) == \E u \in Slots \ {s} : req[u] # Idle

InFlight(s, r) ==
    /\ req' = [req EXCEPT ![s] = r]
    /\ overlap' = (overlap \/ Meets(s))
    /\ UNCHANGED rows

Begin(s, r) == req[s] = Idle /\ InFlight(s, r)

(* A coroutine that creates matches starts when no other one is running. *)
BeginOnLoop(s, r) ==
    /\ \A u \in Slots : req[u].op # "match"
    /\ Begin(s, r)

BeginCreate(s) ==
    /\ \A r \in Rec : ~Open(r)
    /\ \E paper \in BOOLEAN, span \in Spans, net \in Nets :
          Begin(s, [op |-> "create", paper |-> paper, span |-> span, net |-> net])

(* auto_match: every candidate pair of a line that is not excluded (shown)  *)
(* and a posted transaction of the period that no reconciliation has        *)
(* marked; a line may get several matches.                                  *)
AutoPairs(r, shown) ==
    {p \in Candidates : /\ p[1] \in shown
                        /\ p[2] \in rec[r].span
                        /\ p[2] \notin Drafts
                        /\ mark[p[2]] = NoRec}

BeginAutoMatch(s, r) ==
    /\ Open(r) /\ ~rec[r].paper /\ MatchesOf(r) = {}
    /\ \E shown \in SUBSET Lines :
          /\ AutoPairs(r, shown) # {}    \* else nothing is written
          /\ BeginOnLoop(s, [op |-> "match", rec |-> r, pairs |-> AutoPairs(r, shown)])

(* manual_match: neither the status of the transaction, nor its date, nor   *)
(* its amount, nor another reconciliation's mark is looked at.              *)
BeginManualMatch(s, r) ==
    /\ Open(r) /\ ~rec[r].paper
    /\ \E l \in Lines, t \in Tx \ gone :
          /\ pointer[l] = NoMatch
          /\ BeginOnLoop(s, [op |-> "match", rec |-> r, pairs |-> {<<l, t>>}])

BeginPaperMatch(s, r) ==
    /\ Open(r) /\ rec[r].paper
    /\ \E t \in rec[r].span \ (TxsOf(r) \cup gone) :
          BeginOnLoop(s, [op |-> "match", rec |-> r, pairs |-> {<<NoLine, t>>}])

(* get_reconciliation: the lines without a match here, but for those that a *)
(* completed reconciliation has matched.                                    *)
InboxLinesUnfiltered(r) == Lines \ LinesOf(r)   \* mutant: completed ones too
InboxLines(r) ==
    {l \in Lines \ LinesOf(r) :
        pointer[l] \in matches => rec[pointer[l].rec].status # "complete"}

(* reject_match does not look at the status of the reconciliation. *)
BeginReject(s, m) ==
    Begin(s, [op |-> "reject", match |-> m,
              seen |-> IF m.line = NoLine THEN NoMatch ELSE pointer[m.line]])

(* complete reads the matches, then the carry-forwards, then the matches.   *)
BeginComplete(s, r) ==
    /\ Open(r)
    /\ Begin(s, [op |-> "complete", step |-> "summed", rec |-> r,
                 summed |-> MatchesOf(r), txs |-> {}])

WeighWithoutCarry(s) ==               \* mutant: carry-forwards are not counted
    /\ req[s].op = "complete" /\ req[s].step = "summed"
    /\ rec[req[s].rec].net = SumOfMatches(req[s].summed)
    /\ InFlight(s, [req[s] EXCEPT !.step = "weighed"])
Weigh(s) ==
    /\ req[s].op = "complete" /\ req[s].step = "summed"
    /\ rec[req[s].rec].net =
          SumOfMatches(req[s].summed) + CarryForwardNet(req[s].rec)
    /\ InFlight(s, [req[s] EXCEPT !.step = "weighed"])

ListMatched(s) ==
    /\ req[s].op = "complete" /\ req[s].step = "weighed"
    /\ InFlight(s, [req[s] EXCEPT !.step = "listed", !.txs = TxsOf(req[s].rec)])

(* A pointer another reconciliation set is overwritten. *)
BeginCarryForward(s, r) ==
    /\ Open(r)
    /\ \E txs \in (SUBSET (rec[r].span \ gone)) \ {{}} :
          Begin(s, [op |-> "carry", rec |-> r, txs |-> txs])

(* Any open reconciliation will do, whichever one carried t. *)
BeginRemoveCarryForward(s, r, t) ==
    /\ Open(r) /\ t \notin gone
    /\ Begin(s, [op |-> "uncarry", tx |-> t])

BeginRevert(s, r) ==
    /\ Exists(r)
    /\ Begin(s, [op |-> "revert", rec |-> r, lines |-> LinesOf(r)])

Abort(s) ==
    /\ req[s] # Idle
    /\ req' = [req EXCEPT ![s] = Idle]
    /\ UNCHANGED <<rows, overlap>>

-----------------------------------------------------------------------------
(* The commits.                                                             *)

Done(s) == req' = [req EXCEPT ![s] = Idle] /\ UNCHANGED overlap

CommitCreate(s) ==
    /\ req[s].op = "create"
    /\ \E r \in Rec :
          /\ \A q \in Rec : rec[q].status = "absent" <=> q >= r
          /\ rec' = [rec EXCEPT ![r] =
                        [status |-> "in_progress", paper |-> req[s].paper,
                         span |-> req[s].span, net |-> req[s].net]]
    /\ Done(s)
    /\ UNCHANGED <<matches, pointer, gone, mark, carried, inserts>>

(* ReconciliationMatchRepository.create, once a pair: a line points to the  *)
(* last of its matches that is inserted.  The foreign keys want the         *)
(* reconciliation and the transactions to be there still; nothing wants     *)
(* the reconciliation to be open still.                                     *)
InsertedBy(s) ==
    {[rec |-> req[s].rec, line |-> p[1], tx |-> p[2], no |-> inserts + 1] :
        p \in req[s].pairs}

CommitMatches(s) ==
    /\ req[s].op = "match" /\ inserts < MaxInserts
    /\ Exists(req[s].rec)
    /\ \A p \in req[s].pairs : p[2] \notin gone
    /\ matches' = matches \cup InsertedBy(s)
    /\ inserts' = inserts + 1
    /\ \E last \in [{p[1] : p \in req[s].pairs} -> InsertedBy(s)] :
          /\ \A l \in DOMAIN last : last[l].line = l
          /\ pointer' = [l \in Lines |->
                            IF l \in DOMAIN last THEN last[l] ELSE pointer[l]]
    /\ Done(s)
    /\ UNCHANGED <<rec, gone, mark, carried>>

(* reject: the pointer is cleared, whatever it points to; the DELETE finds  *)
(* the match or does not.                                                   *)
CommitRejectMatchOnly(s) ==           \* mutant: the line keeps its pointer
    /\ req[s].op = "reject"
    /\ matches' = matches \ {req[s].match}
    /\ Done(s)
    /\ UNCHANGED <<rec, pointer, gone, mark, carried, inserts>>
CommitReject(s) ==
    /\ req[s].op = "reject"
    /\ matches' = matches \ {req[s].match}
    /\ pointer' = [l \in Lines |->
                      IF l = req[s].match.line /\ req[s].seen # NoMatch
                        THEN NoMatch ELSE pointer[l]]
    /\ Done(s)
    /\ UNCHANGED <<rec, gone, mark, carried, inserts>>

(* ReconciliationRepository.complete: the UPDATE of a row that a revert     *)
(* deleted fails.                                                           *)
CommitCompleteStillOpen(s) ==         \* mutant: the status is not written
    /\ req[s].op = "complete" /\ req[s].step = "listed"
    /\ Exists(req[s].rec)
    /\ mark' = [t \in Tx |-> IF t \in req[s].txs \ gone
                             THEN req[s].rec ELSE mark[t]]
    /\ Done(s)
    /\ UNCHANGED <<rec, matches, pointer, gone, carried, inserts>>
CommitComplete(s) ==
    /\ req[s].op = "complete" /\ req[s].step = "listed"
    /\ Exists(req[s].rec)
    /\ rec' = [rec EXCEPT ![req[s].rec].status = "complete"]
    /\ mark' = [t \in Tx |-> IF t \in req[s].txs \ gone
                             THEN req[s].rec ELSE mark[t]]
    /\ Done(s)
    /\ UNCHANGED <<matches, pointer, gone, carried, inserts>>

CommitCarryForward(s) ==
    /\ req[s].op = "carry" /\ Exists(req[s].rec)
    /\ carried' = [t \in Tx |-> IF t \in req[s].txs \ gone
                                  THEN req[s].rec ELSE carried[t]]
    /\ Done(s)
    /\ UNCHANGED <<rec, matches, pointer, gone, mark, inserts>>

CommitRemoveCarryForward(s) ==
    /\ req[s].op = "uncarry"
    /\ carried' = [carried EXCEPT ![req[s].tx] = NoRec]
    /\ Done(s)
    /\ UNCHANGED <<rec, matches, pointer, gone, mark, inserts>>

(* revert: the lines are those of the matches it read; marks, carries and,  *)
(* by cascade, matches are those of the moment of the commit.               *)
CommitRevert(s) ==
    /\ req[s].op = "revert"
    /\ pointer' = [l \in Lines |->
                      IF l \in req[s].lines THEN NoMatch ELSE pointer[l]]
    /\ mark' = [t \in Tx |-> IF mark[t] = req[s].rec THEN NoRec ELSE mark[t]]
    /\ carried' = [t \in Tx |->
                      IF carried[t] = req[s].rec THEN NoRec ELSE carried[t]]
    /\ matches' = matches \ MatchesOf(req[s].rec)
    /\ rec' = [rec EXCEPT ![req[s].rec].status = "deleted"]
    /\ Done(s)
    /\ UNCHANGED <<gone, inserts>>

(* DELETE /v1/transactions of a draft: refused by the foreign key while a   *)
(* match names it.                                                          *)
DeleteDraft(s, t) ==
    /\ req[s] = Idle
    /\ t \in Drafts \ gone /\ \A m \in matches : m.tx # t
    /\ gone' = gone \cup {t}
    /\ mark' = [mark EXCEPT ![t] = NoRec]
    /\ carried' = [carried EXCEPT ![t] = NoRec]
    /\ overlap' = (overlap \/ Meets(s))
    /\ UNCHANGED <<rec, matches, pointer, inserts, req>>

Next ==
    \E s \in Slots :
        \/ BeginCreate(s) \/ Weigh(s) \/ ListMatched(s) \/ Abort(s)
        \/ \E r \in Rec : \/ BeginAutoMatch(s, r) \/ BeginManualMatch(s, r)
                          \/ BeginPaperMatch(s, r) \/ BeginComplete(s, r)
                          \/ BeginCarryForward(s, r) \/ BeginRevert(s, r)
                          \/ \E t \in Tx : BeginRemoveCarryForward(s, r, t)
        \/ \E m \in matches : BeginReject(s, m)
        \/ CommitCreate(s) \/ CommitMatches(s) \/ CommitReject(s)
        \/ CommitComplete(s) \/ CommitCarryForward(s)
        \/ CommitRemoveCarryForward(s) \/ CommitRevert(s)
        \/ \E t \in Tx : DeleteDraft(s, t)

Spec == Init /\ [][Next]_vars

-----------------------------------------------------------------------------
(* What holds however requests interleave.                                  *)

(* transactions.reconciliation_id and carried_forward_from_... never name a *)
(* reconciliation that a revert took away, and the first never one that is  *)
(* still open: complete and revert race for them and each checks a status   *)
(* it read before.                                                          *)
MarksAreBacked ==
    \A t \in Tx :
        /\ mark[t] # NoRec => rec[mark[t]].status = "complete"
        /\ carried[t] # NoRec => Exists(carried[t])

-----------------------------------------------------------------------------
(* What holds of requests served one at a time, and not otherwise.          *)

(* A line never points to a match that is gone or is another line's: no     *)
(* foreign key backs the pointer, reject, revert and create keep it by hand,*)
(* over a line with several matches too.                                    *)
PointersAreLive ==
    overlap \/ \A l \in Lines :
                  pointer[l] # NoMatch =>
                      pointer[l] \in matches /\ pointer[l].line = l

(* The inbox of an open reconciliation lists a line as unmatched only if a  *)
(* manual match of it is accepted: the lines another open one has matched   *)
(* are kept out by reconciliation.account_already_in_progress alone.        *)
InboxLinesCanBeMatched ==
    overlap \/ \A r \in Rec : Open(r) /\ ~rec[r].paper =>
                  \A l \in InboxLines(r) : pointer[l] = NoMatch

(* complete: "Validate strict balance": what is completed balances, with    *)
(* the matches and the carry-forwards of that moment, and marks exactly the *)
(* matched transactions.                                                    *)
CompletionBalances ==
    [][\A r \in Rec :
          Open(r) /\ rec'[r].status = "complete" /\ ~overlap =>
              /\ rec[r].net = MatchedNet(r) + CarryForwardNet(r)
              /\ \A t \in TxsOf(r) : mark'[t] = r]_vars

=============================================================================
