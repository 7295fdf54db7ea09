------------------------ MODULE ReconciliationProofs ------------------------
(***************************************************************************)
(* Proofs about Reconciliation, for every number of requests, lines,        *)
(* transactions and reconciliations, and every amount.                      *)
(***************************************************************************)
EXTENDS Reconciliation, TLAPS

(* The fields a request of each kind carries. *)
LEMMA RequestFields ==
    ASSUME NEW q \in Request
    PROVE  /\ q.op = "create" => /\ q.paper \in BOOLEAN /\ q.span \in Spans
                                 /\ q.net \in Nets
           /\ q.op = "match" => /\ q.rec \in Rec
                                /\ q.pairs \in SUBSET ((Lines \cup {NoLine}) \X Tx)
           /\ q.op = "reject" => q.match \in Match /\ q.seen \in Match \cup {NoMatch}
           /\ q.op = "complete" => /\ q.rec \in Rec /\ q.summed \in SUBSET Match
                                   /\ q.txs \in SUBSET Tx
                                   /\ q.step \in {"summed", "weighed", "listed"}
           /\ q.op = "carry" => q.rec \in Rec /\ q.txs \in SUBSET Tx
           /\ q.op = "uncarry" => q.tx \in Tx
           /\ q.op = "revert" => q.rec \in Rec /\ q.lines \in SUBSET Lines
           /\ q.op = "idle" <=> q = Idle
BY DEF Request, Idle

LEMMA MatchFields ==
    ASSUME NEW m \in Match
    PROVE  /\ m.rec \in Rec /\ m.line \in Lines \cup {NoLine} /\ m.tx \in Tx
           /\ m.no \in 1 .. MaxInserts
BY DEF Match

LEMMA RecIds == Rec \subseteq Nat /\ NoRec \notin Rec
BY ReconciliationAssumption DEF Rec, NoRec

LEMMA CandidatePairs == Candidates \subseteq Lines \X Tx
BY ReconciliationAssumption

-----------------------------------------------------------------------------
(* Types.                                                                   *)

LEMMA TypeInit == Init => TypeOK
<1> SUFFICES ASSUME Init PROVE TypeOK
    OBVIOUS
<1>1. PICK span \in Spans, net \in Nets :
         rec = [r \in Rec |-> [status |-> "absent", paper |-> FALSE,
                               span |-> span, net |-> net]]
    BY DEF Init
<1>2. rec \in [Rec -> Row]
    BY <1>1 DEF Row
<1>3. /\ mark \in [Tx -> Rec \cup {NoRec}] /\ carried \in [Tx -> Rec \cup {NoRec}]
      /\ pointer \in [Lines -> Match \cup {NoMatch}]
    BY DEF Init
<1>4. req \in [Slots -> Request]
    BY DEF Init, Request
<1>5. inserts \in 0 .. MaxInserts
    BY ReconciliationAssumption DEF Init
<1> QED BY <1>2, <1>3, <1>4, <1>5 DEF Init, TypeOK

(* Taking a request of the right type in flight keeps the types. *)
LEMMA InFlightTypes ==
    ASSUME TypeOK, NEW s \in Slots, NEW q \in Request, InFlight(s, q)
    PROVE  TypeOK'
BY DEF InFlight, TypeOK, rows, Meets

LEMMA DoneTypes ==
    ASSUME TypeOK, NEW s \in Slots, Done(s)
    PROVE  req' \in [Slots -> Request] /\ overlap' \in BOOLEAN
BY DEF Done, TypeOK, Request

LEMMA ReadTypes ==
    ASSUME TypeOK, NEW s \in Slots,
           \/ BeginCreate(s) \/ Weigh(s) \/ ListMatched(s)
           \/ \E m \in matches : BeginReject(s, m)
    PROVE  TypeOK'
<1> USE DEF Begin
<1>1. req[s] \in Request
    BY DEF TypeOK
<1>2. ASSUME NEW paper \in BOOLEAN, NEW span \in Spans, NEW net \in Nets,
             Begin(s, [op |-> "create", paper |-> paper, span |-> span, net |-> net])
      PROVE  TypeOK'
  <2>1. [op |-> "create", paper |-> paper, span |-> span, net |-> net] \in Request
      BY DEF Request
  <2> QED BY <1>2, <2>1, InFlightTypes
<1>3. CASE Weigh(s)
  <2>1. [req[s] EXCEPT !.step = "weighed"] \in Request
      BY <1>1, <1>3 DEF Weigh, Request, Idle
  <2> QED BY <1>3, <2>1, InFlightTypes DEF Weigh
<1>4. CASE ListMatched(s)
  <2>1. TxsOf(req[s].rec) \in SUBSET Tx
      BY MatchFields DEF TxsOf, MatchesOf, TypeOK
  <2>2. [req[s] EXCEPT !.step = "listed", !.txs = TxsOf(req[s].rec)] \in Request
      BY <1>1, <1>4, <2>1 DEF ListMatched, Request, Idle
  <2> QED BY <1>4, <2>2, InFlightTypes DEF ListMatched
<1>5. ASSUME NEW m \in matches, BeginReject(s, m) PROVE TypeOK'
  <2> DEFINE q == [op |-> "reject", match |-> m,
                   seen |-> IF m.line = NoLine THEN NoMatch ELSE pointer[m.line]]
  <2>1. m \in Match
      BY DEF TypeOK
  <2>2. (IF m.line = NoLine THEN NoMatch ELSE pointer[m.line]) \in Match \cup {NoMatch}
      BY <2>1, MatchFields DEF TypeOK
  <2>3. q \in Request
      BY <2>1, <2>2 DEF Request
  <2>4. InFlight(s, q)
      BY <1>5 DEF BeginReject
  <2> HIDE DEF q
  <2> QED BY <2>3, <2>4, InFlightTypes
<1> QED BY <1>2, <1>3, <1>4, <1>5 DEF BeginCreate

LEMMA BeginTypes ==
    ASSUME TypeOK, NEW s \in Slots, NEW r \in Rec,
           \/ BeginAutoMatch(s, r) \/ BeginManualMatch(s, r)
           \/ BeginPaperMatch(s, r) \/ BeginComplete(s, r)
           \/ BeginCarryForward(s, r) \/ BeginRevert(s, r)
           \/ \E t \in Tx : BeginRemoveCarryForward(s, r, t)
    PROVE  TypeOK'
<1> USE DEF Begin, BeginOnLoop
<1>0. rec[r].span \in SUBSET Tx
    BY ReconciliationAssumption DEF TypeOK, Row
<1>1. ASSUME NEW shown \in SUBSET Lines,
             InFlight(s, [op |-> "match", rec |-> r, pairs |-> AutoPairs(r, shown)])
      PROVE  TypeOK'
  <2>1. AutoPairs(r, shown) \in SUBSET ((Lines \cup {NoLine}) \X Tx)
      BY CandidatePairs DEF AutoPairs
  <2>2. [op |-> "match", rec |-> r, pairs |-> AutoPairs(r, shown)] \in Request
      BY <2>1 DEF Request
  <2> QED BY <1>1, <2>2, InFlightTypes
<1>2. ASSUME NEW l \in Lines \cup {NoLine}, NEW t \in Tx,
             InFlight(s, [op |-> "match", rec |-> r, pairs |-> {<<l, t>>}])
      PROVE  TypeOK'
  <2>1. [op |-> "match", rec |-> r, pairs |-> {<<l, t>>}] \in Request
      BY DEF Request
  <2> QED BY <1>2, <2>1, InFlightTypes
<1>3. CASE BeginComplete(s, r)
  <2>1. MatchesOf(r) \in SUBSET Match
      BY DEF MatchesOf, TypeOK
  <2>2. [op |-> "complete", step |-> "summed", rec |-> r,
         summed |-> MatchesOf(r), txs |-> {}] \in Request
      BY <2>1 DEF Request
  <2> QED BY <1>3, <2>2, InFlightTypes DEF BeginComplete
<1>4. ASSUME NEW txs \in SUBSET Tx,
             InFlight(s, [op |-> "carry", rec |-> r, txs |-> txs])
      PROVE  TypeOK'
  <2>1. [op |-> "carry", rec |-> r, txs |-> txs] \in Request
      BY DEF Request
  <2> QED BY <1>4, <2>1, InFlightTypes
<1>5. ASSUME NEW t \in Tx, BeginRemoveCarryForward(s, r, t) PROVE TypeOK'
  <2>1. [op |-> "uncarry", tx |-> t] \in Request
      BY DEF Request
  <2> QED BY <1>5, <2>1, InFlightTypes DEF BeginRemoveCarryForward
<1>6. CASE BeginRevert(s, r)
  <2>1. LinesOf(r) \in SUBSET Lines
      BY MatchFields DEF LinesOf, MatchesOf, TypeOK
  <2>2. [op |-> "revert", rec |-> r, lines |-> LinesOf(r)] \in Request
      BY <2>1 DEF Request
  <2> QED BY <1>6, <2>2, InFlightTypes DEF BeginRevert
<1>7. CASE BeginAutoMatch(s, r)
    BY <1>1, <1>7 DEF BeginAutoMatch
<1>8. CASE BeginManualMatch(s, r)
    BY <1>2, <1>8 DEF BeginManualMatch
<1>9. CASE BeginPaperMatch(s, r)
    BY <1>0, <1>2, <1>9 DEF BeginPaperMatch
<1>10. CASE BeginCarryForward(s, r)
    BY <1>0, <1>4, <1>10 DEF BeginCarryForward
<1> QED BY <1>3, <1>5, <1>6, <1>7, <1>8, <1>9, <1>10

LEMMA CommitTypes ==
    ASSUME TypeOK, NEW s \in Slots,
           \/ CommitCreate(s) \/ CommitMatches(s) \/ CommitReject(s)
           \/ CommitComplete(s) \/ CommitCarryForward(s)
           \/ CommitRemoveCarryForward(s) \/ CommitRevert(s)
    PROVE  TypeOK'
<1>1. req[s] \in Request
    BY DEF TypeOK
<1>2. CASE CommitCreate(s)
    BY <1>1, <1>2, RequestFields, DoneTypes DEF CommitCreate, TypeOK, Row
<1>3. CASE CommitMatches(s)
  <2>1. req[s].rec \in Rec /\ req[s].pairs \in SUBSET ((Lines \cup {NoLine}) \X Tx)
      BY <1>1, <1>3, RequestFields DEF CommitMatches
  <2>2. inserts + 1 \in 1 .. MaxInserts
      BY <1>3, ReconciliationAssumption DEF CommitMatches, TypeOK
  <2>3. InsertedBy(s) \in SUBSET Match
      BY <2>1, <2>2 DEF InsertedBy, Match
  <2>4. pointer' \in [Lines -> Match \cup {NoMatch}]
      BY <1>3, <2>3 DEF CommitMatches, TypeOK
  <2>5. inserts' \in 0 .. MaxInserts
      BY <1>3, <2>2 DEF CommitMatches
  <2> QED BY <1>3, <2>3, <2>4, <2>5, DoneTypes DEF CommitMatches, TypeOK
<1>4. CASE CommitReject(s)
    BY <1>4, DoneTypes DEF CommitReject, TypeOK
<1>5. CASE CommitComplete(s)
  <2>1. rec' \in [Rec -> Row]
      BY <1>5 DEF CommitComplete, TypeOK, Row
  <2>2. mark' \in [Tx -> Rec \cup {NoRec}]
      BY <1>1, <1>5, RequestFields DEF CommitComplete, TypeOK
  <2> QED BY <1>5, <2>1, <2>2, DoneTypes DEF CommitComplete, TypeOK
<1>6. CASE CommitCarryForward(s)
    BY <1>1, <1>6, RequestFields, DoneTypes DEF CommitCarryForward, TypeOK
<1>7. CASE CommitRemoveCarryForward(s)
    BY <1>7, DoneTypes DEF CommitRemoveCarryForward, TypeOK
<1>8. CASE CommitRevert(s)
  <2>0. rec' = [rec EXCEPT ![req[s].rec].status = "deleted"]
      BY <1>8 DEF CommitRevert
  <2>1. rec' \in [Rec -> Row]
      BY <2>0 DEF TypeOK, Row
  <2>2. /\ mark' \in [Tx -> Rec \cup {NoRec}] /\ carried' \in [Tx -> Rec \cup {NoRec}]
        /\ pointer' \in [Lines -> Match \cup {NoMatch}]
      BY <1>8 DEF CommitRevert, TypeOK
  <2> QED BY <1>8, <2>1, <2>2, DoneTypes DEF CommitRevert, TypeOK
<1> QED BY <1>2, <1>3, <1>4, <1>5, <1>6, <1>7, <1>8

LEMMA OtherTypes ==
    ASSUME TypeOK, NEW s \in Slots, Abort(s) \/ \E t \in Tx : DeleteDraft(s, t)
    PROVE  TypeOK'
<1>1. CASE Abort(s)
    BY <1>1 DEF Abort, TypeOK, rows, Request
<1>2. ASSUME NEW t \in Tx, DeleteDraft(s, t) PROVE TypeOK'
    BY <1>2 DEF DeleteDraft, TypeOK, Meets
<1> QED BY <1>1, <1>2

LEMMA TypeStep == TypeOK /\ [Next]_vars => TypeOK'
<1> SUFFICES ASSUME TypeOK, [Next]_vars PROVE TypeOK'
    OBVIOUS
<1>1. CASE UNCHANGED vars
    BY <1>1 DEF TypeOK, vars
<1>2. CASE Next
    BY <1>2, ReadTypes, BeginTypes, CommitTypes, OtherTypes DEF Next
<1> QED BY <1>1, <1>2

(* Every reachable state has the types of the declarations. *)
THEOREM TypeCorrect == Spec => []TypeOK
BY TypeInit, TypeStep, PTL DEF Spec

-----------------------------------------------------------------------------
(* What holds however requests interleave.                                  *)

(* The foreign keys of a match: its reconciliation and its transaction are  *)
(* there.                                                                   *)
MatchesBacked ==
    \A m \in matches : Exists(m.rec) /\ m.tx \notin gone

BackInv == MarksAreBacked /\ MatchesBacked

(* Steps that take or drop a request, and leave the rows alone. *)
LEMMA BackKept ==
    ASSUME BackInv, UNCHANGED rows
    PROVE  BackInv'
BY DEF BackInv, MarksAreBacked, MatchesBacked, Exists, rows

LEMMA ReadsKeepRows ==
    ASSUME NEW s \in Slots,
           \/ BeginCreate(s) \/ Weigh(s) \/ ListMatched(s) \/ Abort(s)
           \/ \E m \in matches : BeginReject(s, m)
           \/ \E r \in Rec :
                 \/ BeginAutoMatch(s, r) \/ BeginManualMatch(s, r)
                 \/ BeginPaperMatch(s, r) \/ BeginComplete(s, r)
                 \/ BeginCarryForward(s, r) \/ BeginRevert(s, r)
                 \/ \E t \in Tx : BeginRemoveCarryForward(s, r, t)
    PROVE  UNCHANGED rows
<1> USE DEF InFlight
<1>1. CASE BeginCreate(s) \/ Weigh(s) \/ ListMatched(s) \/ Abort(s)
    BY <1>1 DEF BeginCreate, Weigh, ListMatched, Abort, Begin
<1>2. ASSUME NEW m \in matches, BeginReject(s, m) PROVE UNCHANGED rows
    BY <1>2 DEF BeginReject, Begin
<1>3. ASSUME NEW r \in Rec,
             \/ BeginAutoMatch(s, r) \/ BeginManualMatch(s, r) \/ BeginPaperMatch(s, r)
      PROVE  UNCHANGED rows
    BY <1>3 DEF BeginAutoMatch, BeginManualMatch, BeginPaperMatch, BeginOnLoop, Begin
<1>4. ASSUME NEW r \in Rec,
             \/ BeginComplete(s, r) \/ BeginCarryForward(s, r) \/ BeginRevert(s, r)
             \/ \E t \in Tx : BeginRemoveCarryForward(s, r, t)
      PROVE  UNCHANGED rows
    BY <1>4 DEF BeginComplete, BeginCarryForward, BeginRevert, BeginRemoveCarryForward,
                Begin
<1> QED BY <1>1, <1>2, <1>3, <1>4

LEMMA CommitsBack ==
    ASSUME TypeOK, BackInv, NEW s \in Slots,
           \/ CommitCreate(s) \/ CommitMatches(s) \/ CommitReject(s)
           \/ CommitComplete(s) \/ CommitCarryForward(s)
           \/ CommitRemoveCarryForward(s) \/ CommitRevert(s)
           \/ \E t \in Tx : DeleteDraft(s, t)
    PROVE  BackInv'
<1> USE DEF BackInv, MarksAreBacked, MatchesBacked, Exists
<1>0. /\ req[s] \in Request
      /\ \A m \in matches : m.rec \in Rec /\ m.tx \in Tx
      /\ \A r \in Rec : rec[r] \in Row
    BY MatchFields DEF TypeOK
<1>1. CASE CommitCreate(s)
  <2>1. PICK r \in Rec :
           /\ rec[r].status = "absent"
           /\ \A q \in Rec \ {r} : rec'[q] = rec[q]
      BY <1>1, RecIds DEF CommitCreate, TypeOK
  <2>2. UNCHANGED <<matches, gone, mark, carried>>
      BY <1>1 DEF CommitCreate
  <2> QED BY <1>0, <2>1, <2>2 DEF TypeOK
<1>2. CASE CommitMatches(s)
  <2>1. \A m \in InsertedBy(s) : /\ m.rec = req[s].rec
                                 /\ \E p \in req[s].pairs : m.tx = p[2]
      BY DEF InsertedBy
  <2> QED BY <1>2, <2>1 DEF CommitMatches
<1>3. CASE CommitReject(s)
    BY <1>3 DEF CommitReject
<1>4. CASE CommitComplete(s)
  <2>1. req[s].rec \in Rec
      BY <1>0, <1>4, RequestFields DEF CommitComplete
  <2>2. PICK r \in Rec : r = req[s].rec
      BY <2>1
  <2>3. /\ \A q \in Rec \ {r} : rec'[q] = rec[q]
        /\ rec'[r].status = "complete"
        /\ \A t \in Tx : mark'[t] \in {r, mark[t]}
        /\ UNCHANGED <<matches, gone, carried>>
      BY <1>0, <1>4, <2>2 DEF CommitComplete, TypeOK, Row
  <2> QED BY <1>0, <2>3 DEF TypeOK
<1>5. CASE CommitCarryForward(s)
    BY <1>5 DEF CommitCarryForward
<1>6. CASE CommitRemoveCarryForward(s)
    BY <1>6 DEF CommitRemoveCarryForward, TypeOK
<1>7. CASE CommitRevert(s)
  <2>1. PICK r \in Rec : r = req[s].rec
      BY <1>0, <1>7, RequestFields DEF CommitRevert
  <2>2. /\ \A q \in Rec \ {r} : rec'[q] = rec[q]
        /\ \A t \in Tx : /\ mark'[t] # r /\ mark'[t] \in {NoRec, mark[t]}
                         /\ carried'[t] # r /\ carried'[t] \in {NoRec, carried[t]}
        /\ \A m \in matches' : m \in matches /\ m.rec # r
        /\ gone' = gone
      BY <1>7, <2>1, RecIds DEF CommitRevert, MatchesOf, TypeOK
  <2> QED BY <1>0, <2>2 DEF TypeOK
<1>8. ASSUME NEW t \in Tx, DeleteDraft(s, t) PROVE BackInv'
    BY <1>8 DEF DeleteDraft, TypeOK
<1> QED BY <1>1, <1>2, <1>3, <1>4, <1>5, <1>6, <1>7, <1>8

LEMMA BackStep == TypeOK /\ BackInv /\ [Next]_vars => BackInv'
<1> SUFFICES ASSUME TypeOK, BackInv, [Next]_vars PROVE BackInv'
    OBVIOUS
<1>1. CASE UNCHANGED vars
    BY <1>1, BackKept DEF vars, rows
<1>2. CASE Next
    BY <1>2, BackKept, ReadsKeepRows, CommitsBack DEF Next
<1> QED BY <1>1, <1>2

LEMMA BackInit == Init => BackInv
BY DEF Init, BackInv, MarksAreBacked, MatchesBacked

(* However completes and reverts race, a transaction is never marked as     *)
(* reconciled by a reconciliation that is open or gone, nor carried forward *)
(* by one that is gone.                                                     *)
THEOREM MarksBacked == Spec => []MarksAreBacked
BY BackInit, TypeInit, TypeStep, BackStep, PTL DEF Spec, BackInv

-----------------------------------------------------------------------------
(* What holds of requests served one at a time.                             *)

(* While no two requests have met, the one in flight, if any, has read what *)
(* is still the case; that is what the checks of the code rest on.          *)
Alone == \A s, u \in Slots : req[s] # Idle /\ req[u] # Idle => s = u

OneOpen == \A q, r \in Rec : Open(q) /\ Open(r) => q = r

LivePointers ==
    \A l \in Lines : pointer[l] # NoMatch => /\ pointer[l] \in matches
                                           /\ pointer[l].line = l

Balanced(r) == rec[r].net = MatchedNet(r) + CarryForwardNet(r)

FreshCreate == \A s \in Slots : req[s].op = "create" => \A r \in Rec : ~Open(r)
FreshReject ==
    \A s \in Slots : req[s].op = "reject" =>
        \A l \in Lines : l = req[s].match.line => req[s].seen = pointer[l]
FreshComplete ==
    \A s \in Slots : req[s].op = "complete" =>
        \E r \in Rec :
            /\ r = req[s].rec /\ Open(r) /\ req[s].summed = MatchesOf(r)
            /\ req[s].step \in {"weighed", "listed"} => Balanced(r)
            /\ req[s].step = "listed" => req[s].txs = TxsOf(r)
FreshRevert ==
    \A s \in Slots : req[s].op = "revert" =>
        \E r \in Rec : r = req[s].rec /\ req[s].lines = LinesOf(r)

Fresh == FreshCreate /\ FreshReject /\ FreshComplete /\ FreshRevert

SerialInv == overlap \/ (Alone /\ OneOpen /\ LivePointers /\ Fresh)

LEMMA SerialInit == Init => SerialInv
<1> SUFFICES ASSUME Init PROVE Alone /\ OneOpen /\ LivePointers /\ Fresh
    BY DEF SerialInv
<1>1. /\ \A s \in Slots : req[s] = Idle
      /\ \A r \in Rec : rec[r].status = "absent"
      /\ \A l \in Lines : pointer[l] = NoMatch
    BY DEF Init
<1> QED BY <1>1
    DEF Alone, OneOpen, LivePointers, Fresh, FreshCreate, FreshReject, FreshComplete,
        FreshRevert, Open, Idle

(* A request that is taken in flight, or reads on, meets no other.          *)
LEMMA InFlightAlone ==
    ASSUME TypeOK, SerialInv, NEW s \in Slots, NEW q, InFlight(s, q), ~overlap'
    PROVE  /\ ~overlap /\ UNCHANGED rows
           /\ req'[s] = q /\ \A u \in Slots \ {s} : req'[u] = Idle
           /\ Alone' /\ OneOpen' /\ LivePointers'
<1>1. /\ ~overlap /\ UNCHANGED rows
      /\ req'[s] = q /\ \A u \in Slots \ {s} : req'[u] = Idle
    BY DEF InFlight, Meets, TypeOK
<1> QED BY <1>1 DEF SerialInv, Alone, OneOpen, LivePointers, Open, rows

(* ... and what it has read is fresh if that holds of its own reads.        *)
LEMMA FreshAlone ==
    ASSUME NEW s \in Slots, NEW q,
           req'[s] = q, \A u \in Slots \ {s} : req'[u] = Idle,
           UNCHANGED rows,
           q.op = "create" => \A r \in Rec : ~Open(r),
           q.op = "reject" => \A l \in Lines : l = q.match.line => q.seen = pointer[l],
           q.op = "complete" =>
              \E r \in Rec :
                 /\ r = q.rec /\ Open(r) /\ q.summed = MatchesOf(r)
                 /\ q.step \in {"weighed", "listed"} => Balanced(r)
                 /\ q.step = "listed" => q.txs = TxsOf(r),
           q.op = "revert" => \E r \in Rec : r = q.rec /\ q.lines = LinesOf(r)
    PROVE  Fresh'
<1>1. \A r : /\ Open(r)' = Open(r) /\ MatchesOf(r)' = MatchesOf(r)
             /\ TxsOf(r)' = TxsOf(r) /\ LinesOf(r)' = LinesOf(r)
    BY DEF Open, MatchesOf, TxsOf, LinesOf, rows
<1>2. \A r : Balanced(r)' = Balanced(r)
    BY DEF Balanced, MatchedNet, CarryForwardNet, MatchesOf, rows
<1>3. \A u \in Slots : req'[u].op # "idle" => u = s
    BY DEF Idle
<1>4. FreshCreate'
    BY <1>1, <1>3 DEF FreshCreate
<1>5. FreshReject'
    BY <1>3 DEF FreshReject, rows
<1>6. FreshComplete'
    BY <1>1, <1>2, <1>3 DEF FreshComplete
<1>7. FreshRevert'
    BY <1>1, <1>3 DEF FreshRevert
<1> QED BY <1>4, <1>5, <1>6, <1>7 DEF Fresh

LEMMA ReadsSerial ==
    ASSUME TypeOK, SerialInv, NEW s \in Slots,
           \/ BeginCreate(s) \/ Weigh(s) \/ ListMatched(s)
           \/ \E m \in matches : BeginReject(s, m)
    PROVE  SerialInv'
<1> SUFFICES ASSUME ~overlap' PROVE SerialInv'
    BY DEF SerialInv
<1>1. ASSUME NEW q, InFlight(s, q), Fresh' PROVE SerialInv'
    BY <1>1, InFlightAlone DEF SerialInv
<1>2. CASE BeginCreate(s)
  <2>1. PICK q : InFlight(s, q) /\ q.op = "create" /\ \A r \in Rec : ~Open(r)
      BY <1>2 DEF BeginCreate, Begin
  <2>2. Fresh'
      BY <2>1, InFlightAlone, FreshAlone
  <2> QED BY <1>1, <2>1, <2>2
<1>3. CASE Weigh(s)
  <2>1. PICK q : q = [req[s] EXCEPT !.step = "weighed"]
      OBVIOUS
  <2>2. InFlight(s, q) /\ req[s].op = "complete"
      BY <1>3, <2>1 DEF Weigh
  <2>3. /\ q.op = "complete" /\ q.rec = req[s].rec /\ q.summed = req[s].summed
        /\ q.step = "weighed"
      BY <2>1, <2>2, RequestFields DEF TypeOK, Request, Idle
  <2>4. ~overlap
      BY <2>2, InFlightAlone
  <2>5. PICK r \in Rec : r = req[s].rec /\ Open(r) /\ req[s].summed = MatchesOf(r)
      BY <2>2, <2>4 DEF SerialInv, Fresh, FreshComplete
  <2>6. Balanced(r)
      BY <1>3, <2>5 DEF Weigh, Balanced, MatchedNet
  <2>7. Fresh'
      BY <2>2, <2>3, <2>5, <2>6, InFlightAlone, FreshAlone
  <2> QED BY <1>1, <2>2, <2>7
<1>4. CASE ListMatched(s)
  <2>1. PICK q : q = [req[s] EXCEPT !.step = "listed", !.txs = TxsOf(req[s].rec)]
      OBVIOUS
  <2>2. InFlight(s, q) /\ req[s].op = "complete" /\ req[s].step = "weighed"
      BY <1>4, <2>1 DEF ListMatched
  <2>3. /\ q.op = "complete" /\ q.rec = req[s].rec /\ q.summed = req[s].summed
        /\ q.step = "listed" /\ q.txs = TxsOf(req[s].rec)
      BY <2>1, <2>2, RequestFields DEF TypeOK, Request, Idle
  <2>4. ~overlap
      BY <2>2, InFlightAlone
  <2>5. PICK r \in Rec : /\ r = req[s].rec /\ Open(r) /\ req[s].summed = MatchesOf(r)
                         /\ Balanced(r)
      BY <2>2, <2>4 DEF SerialInv, Fresh, FreshComplete
  <2>6. q.txs = TxsOf(r)
      BY <2>3, <2>5
  <2>7. Fresh'
      BY <2>2, <2>3, <2>5, <2>6, InFlightAlone, FreshAlone
  <2> QED BY <1>1, <2>2, <2>7
<1>5. ASSUME NEW m \in matches, BeginReject(s, m) PROVE SerialInv'
  <2>1. PICK q : q = [op |-> "reject", match |-> m,
                      seen |-> IF m.line = NoLine THEN NoMatch ELSE pointer[m.line]]
      OBVIOUS
  <2>2. InFlight(s, q)
      BY <1>5, <2>1 DEF BeginReject, Begin
  <2>3. q.op = "reject" /\ \A l \in Lines : l = q.match.line => q.seen = pointer[l]
      BY <2>1, ReconciliationAssumption
  <2>4. Fresh'
      BY <2>2, <2>3, InFlightAlone, FreshAlone
  <2> QED BY <1>1, <2>2, <2>4
<1> QED BY <1>2, <1>3, <1>4, <1>5

LEMMA BeginSerial ==
    ASSUME TypeOK, SerialInv, NEW s \in Slots, NEW r \in Rec,
           \/ BeginAutoMatch(s, r) \/ BeginManualMatch(s, r)
           \/ BeginPaperMatch(s, r) \/ BeginComplete(s, r)
           \/ BeginCarryForward(s, r) \/ BeginRevert(s, r)
           \/ \E t \in Tx : BeginRemoveCarryForward(s, r, t)
    PROVE  SerialInv'
<1> SUFFICES ASSUME ~overlap' PROVE SerialInv'
    BY DEF SerialInv
<1> USE DEF Begin, BeginOnLoop
<1>1. ASSUME NEW q, InFlight(s, q), Fresh' PROVE SerialInv'
    BY <1>1, InFlightAlone DEF SerialInv
<1>2. CASE BeginComplete(s, r)
  <2>1. PICK q : q = [op |-> "complete", step |-> "summed", rec |-> r,
                      summed |-> MatchesOf(r), txs |-> {}]
      OBVIOUS
  <2>2. InFlight(s, q) /\ Open(r)
      BY <1>2, <2>1 DEF BeginComplete
  <2>3. q.op = "complete" /\ q.step = "summed" /\ q.rec = r /\ q.summed = MatchesOf(r)
      BY <2>1
  <2>4. Fresh'
      BY <2>2, <2>3, InFlightAlone, FreshAlone
  <2> QED BY <1>1, <2>2, <2>4
<1>3. CASE BeginRevert(s, r)
  <2>1. PICK q : q = [op |-> "revert", rec |-> r, lines |-> LinesOf(r)]
      OBVIOUS
  <2>2. InFlight(s, q)
      BY <1>3, <2>1 DEF BeginRevert
  <2>3. q.op = "revert" /\ q.rec = r /\ q.lines = LinesOf(r)
      BY <2>1
  <2>4. Fresh'
      BY <2>2, <2>3, InFlightAlone, FreshAlone
  <2> QED BY <1>1, <2>2, <2>4
<1>4. ASSUME NEW q, InFlight(s, q), q.op \in {"match", "carry", "uncarry"}
      PROVE  SerialInv'
  <2>1. Fresh'
      BY <1>4, InFlightAlone, FreshAlone
  <2> QED BY <1>1, <1>4, <2>1
<1>5. CASE BeginAutoMatch(s, r) \/ BeginManualMatch(s, r) \/ BeginPaperMatch(s, r)
  <2>1. \E pairs : InFlight(s, [op |-> "match", rec |-> r, pairs |-> pairs])
      BY <1>5 DEF BeginAutoMatch, BeginManualMatch, BeginPaperMatch
  <2> QED BY <1>4, <2>1
<1>6. CASE BeginCarryForward(s, r)
  <2>1. \E txs : InFlight(s, [op |-> "carry", rec |-> r, txs |-> txs])
      BY <1>6 DEF BeginCarryForward
  <2> QED BY <1>4, <2>1
<1>7. ASSUME NEW t \in Tx, BeginRemoveCarryForward(s, r, t) PROVE SerialInv'
    BY <1>4, <1>7 DEF BeginRemoveCarryForward
<1> QED BY <1>2, <1>3, <1>5, <1>6, <1>7

(* When no request is left in flight, the rows are all that is left to show.*)
LEMMA RestSerial ==
    ASSUME \A u \in Slots : req'[u] = Idle, OneOpen', LivePointers'
    PROVE  SerialInv'
BY DEF SerialInv, Alone, Fresh, FreshCreate, FreshReject, FreshComplete, FreshRevert,
       Idle

(* A request that met no other leaves none in flight when it is done.       *)
LEMMA DoneAlone ==
    ASSUME TypeOK, SerialInv, NEW s \in Slots, req[s] # Idle, Done(s), ~overlap'
    PROVE  /\ ~overlap /\ OneOpen /\ LivePointers /\ Fresh
           /\ \A u \in Slots : req'[u] = Idle
BY DEF Done, SerialInv, Alone, TypeOK

LEMMA CommitsSerial ==
    ASSUME TypeOK, BackInv, SerialInv, NEW s \in Slots,
           \/ CommitCreate(s) \/ CommitMatches(s) \/ CommitReject(s)
           \/ CommitComplete(s) \/ CommitCarryForward(s)
           \/ CommitRemoveCarryForward(s) \/ CommitRevert(s)
    PROVE  SerialInv'
<1> SUFFICES ASSUME ~overlap' PROVE OneOpen' /\ LivePointers'
  <2>1. Done(s) /\ req[s] # Idle
      BY DEF CommitCreate, CommitMatches, CommitReject, CommitComplete,
             CommitCarryForward, CommitRemoveCarryForward, CommitRevert, Idle
  <2> QED BY <2>1, DoneAlone, RestSerial DEF SerialInv
<1>0. req[s] \in Request
    BY DEF TypeOK
<1>1. CASE CommitCreate(s)
  <2>1. FreshCreate /\ LivePointers
      BY <1>1, DoneAlone DEF CommitCreate, Idle, Fresh
  <2>2. PICK r \in Rec : \A q \in Rec \ {r} : rec'[q] = rec[q]
      BY <1>1 DEF CommitCreate, TypeOK
  <2>3. OneOpen'
      BY <1>1, <2>1, <2>2 DEF CommitCreate, FreshCreate, OneOpen, Open
  <2> QED BY <1>1, <2>1, <2>3 DEF CommitCreate, LivePointers
<1>2. CASE CommitMatches(s)
  <2>1. OneOpen /\ LivePointers
      BY <1>2, DoneAlone DEF CommitMatches, Idle
  <2>2. PICK last \in [{p[1] : p \in req[s].pairs} -> InsertedBy(s)] :
           /\ \A l \in DOMAIN last : last[l].line = l
           /\ pointer' = [l \in Lines |->
                             IF l \in DOMAIN last THEN last[l] ELSE pointer[l]]
      BY <1>2 DEF CommitMatches
  <2>3. \A l \in Lines : pointer'[l] # NoMatch =>
           \/ pointer'[l] = pointer[l]
           \/ pointer'[l] \in InsertedBy(s) /\ pointer'[l].line = l
      BY <2>2
  <2>4. rec' = rec /\ matches' = matches \cup InsertedBy(s)
      BY <1>2 DEF CommitMatches
  <2> QED BY <2>1, <2>3, <2>4 DEF OneOpen, Open, LivePointers
<1>3. CASE CommitReject(s)
  <2>1. OneOpen /\ LivePointers /\ FreshReject
      BY <1>3, DoneAlone DEF CommitReject, Idle, Fresh
  <2>2. \A l \in Lines : pointer'[l] # NoMatch =>
           pointer'[l] = pointer[l] /\ l # req[s].match.line
      BY <1>3, <2>1 DEF CommitReject, FreshReject
  <2>3. rec' = rec /\ matches' = matches \ {req[s].match}
      BY <1>3 DEF CommitReject
  <2> QED BY <2>1, <2>2, <2>3 DEF OneOpen, Open, LivePointers
<1>4. CASE CommitComplete(s)
  <2>1. OneOpen /\ LivePointers
      BY <1>4, DoneAlone DEF CommitComplete, Idle
  <2>2. \A r \in Rec : Open(r)' => Open(r)
      BY <1>4 DEF CommitComplete, Open, TypeOK, Row
  <2> QED BY <1>4, <2>1, <2>2 DEF CommitComplete, OneOpen, LivePointers
<1>5. CASE CommitCarryForward(s) \/ CommitRemoveCarryForward(s)
  <2>1. OneOpen /\ LivePointers
      BY <1>5, DoneAlone DEF CommitCarryForward, CommitRemoveCarryForward, Idle
  <2> QED BY <1>5, <2>1
      DEF CommitCarryForward, CommitRemoveCarryForward, OneOpen, Open, LivePointers
<1>6. CASE CommitRevert(s)
  <2>1. OneOpen /\ LivePointers /\ FreshRevert
      BY <1>6, DoneAlone DEF CommitRevert, Idle, Fresh
  <2>2. PICK r \in Rec : r = req[s].rec /\ req[s].lines = LinesOf(r)
      BY <1>6, <2>1 DEF CommitRevert, FreshRevert
  <2>3. \A q \in Rec : Open(q)' => Open(q)
      BY <1>6 DEF CommitRevert, Open, TypeOK, Row
  <2>4. \A l \in Lines : pointer'[l] # NoMatch =>
           pointer'[l] = pointer[l] /\ l \notin LinesOf(r)
      BY <1>6, <2>2 DEF CommitRevert
  <2>5. matches' = matches \ MatchesOf(r)
      BY <1>6, <2>2 DEF CommitRevert
  <2>6. \A l \in Lines, m \in matches : m.line = l /\ l \notin LinesOf(r) => m \in matches'
      BY <2>5, ReconciliationAssumption DEF LinesOf
  <2> QED BY <2>1, <2>3, <2>4, <2>6 DEF OneOpen, LivePointers
<1> QED BY <1>1, <1>2, <1>3, <1>4, <1>5, <1>6

LEMMA OtherSerial ==
    ASSUME TypeOK, SerialInv, NEW s \in Slots, Abort(s) \/ \E t \in Tx : DeleteDraft(s, t)
    PROVE  SerialInv'
<1> SUFFICES ASSUME ~overlap' PROVE SerialInv'
    BY DEF SerialInv
<1>1. CASE Abort(s)
  <2>1. \A u \in Slots : req'[u] = Idle
      BY <1>1 DEF Abort, SerialInv, Alone, TypeOK
  <2>2. OneOpen' /\ LivePointers'
      BY <1>1 DEF Abort, SerialInv, OneOpen, LivePointers, Open, rows
  <2> QED BY <2>1, <2>2, RestSerial
<1>2. ASSUME NEW t \in Tx, DeleteDraft(s, t) PROVE SerialInv'
  <2>1. \A u \in Slots : req'[u] = Idle
      BY <1>2 DEF DeleteDraft, Meets
  <2>2. OneOpen' /\ LivePointers'
      BY <1>2 DEF DeleteDraft, SerialInv, OneOpen, LivePointers, Open
  <2> QED BY <2>1, <2>2, RestSerial
<1> QED BY <1>1, <1>2

LEMMA SerialStep == TypeOK /\ BackInv /\ SerialInv /\ [Next]_vars => SerialInv'
<1> SUFFICES ASSUME TypeOK, BackInv, SerialInv, [Next]_vars PROVE SerialInv'
    OBVIOUS
<1>1. CASE UNCHANGED vars
  <2>1. /\ \A r : /\ Open(r)' = Open(r) /\ MatchesOf(r)' = MatchesOf(r)
                  /\ TxsOf(r)' = TxsOf(r) /\ LinesOf(r)' = LinesOf(r)
        /\ \A r : Balanced(r)' = Balanced(r)
      BY <1>1 DEF Open, MatchesOf, TxsOf, LinesOf, Balanced, MatchedNet,
                  CarryForwardNet, vars
  <2> QED BY <1>1, <2>1
      DEF SerialInv, Alone, OneOpen, LivePointers, Fresh, FreshCreate, FreshReject,
          FreshComplete, FreshRevert, vars
<1>2. CASE Next
    BY <1>2, ReadsSerial, BeginSerial, CommitsSerial, OtherSerial DEF Next
<1> QED BY <1>1, <1>2

(* Of requests served one at a time, no line points to a match that is gone *)
(* or is another line's.                                                    *)
THEOREM PointersLive == Spec => []PointersAreLive
<1>1. SerialInv => PointersAreLive
    BY DEF SerialInv, LivePointers, PointersAreLive
<1> QED BY <1>1, TypeInit, BackInit, SerialInit, TypeStep, BackStep, SerialStep, PTL
        DEF Spec

LEMMA InboxOfSerial == TypeOK /\ BackInv /\ SerialInv => InboxLinesCanBeMatched
<1> SUFFICES ASSUME TypeOK, BackInv, SerialInv, ~overlap,
                    NEW r \in Rec, Open(r), NEW l \in InboxLines(r),
                    pointer[l] # NoMatch
             PROVE  FALSE
    BY DEF InboxLinesCanBeMatched
<1>1. l \in Lines /\ l \notin LinesOf(r)
    BY DEF InboxLines
<1>2. PICK m \in matches : m = pointer[l] /\ m.line = l
    BY <1>1 DEF SerialInv, LivePointers
<1>3. m.rec \in Rec /\ Exists(m.rec)
    BY MatchFields DEF TypeOK, BackInv, MatchesBacked
<1>4. rec[m.rec].status # "complete"
    BY <1>2 DEF InboxLines
<1>5. m.rec = r
    BY <1>3, <1>4 DEF Exists, Open, SerialInv, OneOpen
<1>6. m.line \in LinesOf(r)
    BY <1>1, <1>2, <1>5, ReconciliationAssumption DEF LinesOf, MatchesOf
<1> QED BY <1>1, <1>2, <1>6

(* Of requests served one at a time, every line that the inbox of an open   *)
(* reconciliation offers is accepted by a manual match.                     *)
THEOREM InboxMatchable == Spec => []InboxLinesCanBeMatched
BY InboxOfSerial, TypeInit, BackInit, SerialInit, TypeStep, BackStep, SerialStep, PTL
DEF Spec

LEMMA CompletionStep ==
    ASSUME TypeOK, BackInv, SerialInv, Next, NEW r \in Rec,
           Open(r), rec'[r].status = "complete", ~overlap
    PROVE  /\ rec[r].net = MatchedNet(r) + CarryForwardNet(r)
           /\ \A t \in TxsOf(r) : mark'[t] = r
<1>1. PICK s \in Slots : CommitComplete(s) /\ r = req[s].rec
  <2>1. rec' # rec
      BY DEF Open
  <2>2. PICK s \in Slots : \/ CommitCreate(s) \/ CommitComplete(s) \/ CommitRevert(s)
    <3>1. ASSUME NEW s \in Slots, NEW t \in Tx, DeleteDraft(s, t) PROVE rec' = rec
        BY <3>1 DEF DeleteDraft
    <3>2. ASSUME NEW s \in Slots,
                 \/ CommitMatches(s) \/ CommitReject(s)
                 \/ CommitCarryForward(s) \/ CommitRemoveCarryForward(s)
          PROVE  rec' = rec
        BY <3>2 DEF CommitMatches, CommitReject, CommitCarryForward,
                    CommitRemoveCarryForward
    <3> QED BY <2>1, <3>1, <3>2, ReadsKeepRows DEF Next, rows
  <2>3. CASE CommitCreate(s)
      BY <2>3 DEF CommitCreate, Open, TypeOK
  <2>4. CASE CommitRevert(s)
      BY <2>4 DEF CommitRevert, Open, TypeOK, Row
  <2>5. CASE CommitComplete(s)
      BY <2>5 DEF CommitComplete, Open, TypeOK, Row
  <2> QED BY <2>2, <2>3, <2>4, <2>5
<1>2. FreshComplete
    BY DEF SerialInv, Fresh
<1>3. Balanced(r) /\ req[s].txs = TxsOf(r)
    BY <1>1, <1>2 DEF CommitComplete, FreshComplete
<1>4. \A t \in TxsOf(r) : t \in Tx /\ t \notin gone
    BY MatchFields DEF TxsOf, MatchesOf, TypeOK, BackInv, MatchesBacked
<1> QED BY <1>1, <1>3, <1>4 DEF Balanced, CommitComplete

(* Of requests served one at a time, complete lets through only what        *)
(* balances at that moment, and marks every transaction that is matched.    *)
THEOREM CompletionsBalance == Spec => CompletionBalances
<1>1. TypeOK /\ BackInv /\ SerialInv /\ [Next]_vars =>
        [\A r \in Rec :
            Open(r) /\ rec'[r].status = "complete" /\ ~overlap =>
                /\ rec[r].net = MatchedNet(r) + CarryForwardNet(r)
                /\ \A t \in TxsOf(r) : mark'[t] = r]_vars
    BY CompletionStep
<1> QED BY <1>1, TypeInit, BackInit, SerialInit, TypeStep, BackStep, SerialStep, PTL
        DEF Spec, CompletionBalances

=============================================================================
