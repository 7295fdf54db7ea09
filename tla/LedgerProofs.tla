---------------------------- MODULE LedgerProofs -----------------------------
(***************************************************************************)
(* Proofs about Ledger, for every number of threads, periods, descriptions  *)
(* and rows.                                                                *)
(***************************************************************************)
EXTENDS SerialLedger, FiniteSetTheorems, TLAPS

(* The fields a request of each kind carries. *)
LEMMA RequestFields ==
    ASSUME NEW r \in Request
    PROVE  /\ r.op \in {"create", "replace"} =>
                 r.date \in Periods /\ r.tagged \in BOOLEAN /\ r.name \in Names
           /\ r.op \in {"void", "replace"} =>
                 r.src \in Tx /\ r.seen \in Row /\ r.on \in Periods
           /\ r.op = "patch" =>
                 r.src \in Tx /\ r.date \in Periods /\ r.tagged \in BOOLEAN
           /\ r.op = "rectify" => r.src \in Tx /\ r.seen \in Row /\ r.name \in Names
           /\ r.op = "delete" => r.src \in Tx
BY DEF Request, Idle

(* Requests whose step is moved on keep their shape. *)
LEMMA StepTyped ==
    ASSUME NEW r \in Request
    PROVE  /\ r.op \in {"create", "void", "replace"} =>
                 [r EXCEPT !.step = "gated"] \in Request
           /\ r.op = "patch" => \A b \in BOOLEAN :
                 [r EXCEPT !.step = "merged", !.tagged = b] \in Request
BY DEF Request, Idle

LEMMA StepKeeps ==
    ASSUME NEW r \in Request
    PROVE  /\ r.op \in {"create", "void", "replace"} =>
                 [r EXCEPT !.step = "gated"].op = r.op
           /\ r.op \in {"void", "replace"} =>
                 /\ [r EXCEPT !.step = "gated"].src = r.src
                 /\ [r EXCEPT !.step = "gated"].seen = r.seen
           /\ r.op = "patch" => \A b :
                 /\ [r EXCEPT !.step = "merged", !.tagged = b].op = r.op
                 /\ [r EXCEPT !.step = "merged", !.tagged = b].src = r.src
BY DEF Request, Idle

(* The rows the commits write. *)
LEMMA EntryTyped ==
    ASSUME NEW d \in Periods, NEW b \in BOOLEAN, NEW n \in Names,
           NEW t \in Tx \cup {NoTx}
    PROVE  Entry(d, b, n, t) \in Row
<1>1. Typed(n) \in Desc BY DEF Typed, Desc
<1> QED BY <1>1 DEF Entry, Row

LEMMA ReversalTyped ==
    ASSUME NEW t \in Tx, NEW seen \in Row, NEW d \in Periods
    PROVE  Reversal(t, seen, d) \in Row
<1>1. Wrap(seen.desc) \in Desc BY DEF Wrap, Row, Desc
<1> QED BY <1>1 DEF Reversal, Row

LEMMA VoidedRowTyped ==
    ASSUME NEW row \in Row, NEW r \in Tx
    PROVE  VoidedRow(row, r) \in Row
BY DEF VoidedRow, Row

LEMMA ImportedTyped ==
    ASSUME NEW d \in Periods, NEW n \in Names,
           NEW st \in {"absent", "pending", "posted"}
    PROVE  Imported(d, st, n) \in Row
<1>1. Entry(d, FALSE, n, NoTx) \in Row BY EntryTyped
<1> QED BY <1>1 DEF Imported, Row

-----------------------------------------------------------------------------
(* Type correctness.                                                        *)

LEMMA InitTypeOK == Init => TypeOK
<1> SUFFICES ASSUME Init PROVE TypeOK OBVIOUS
<1>1. PICK p \in Periods, n \in Names :
         tx = [t \in Tx |-> [Imported(p, "absent", n) EXCEPT !.origin = "api"]]
  BY DEF Init
<1>2. [Imported(p, "absent", n) EXCEPT !.origin = "api"] \in Row
  <2>1. Imported(p, "absent", n) \in Row BY ImportedTyped
  <2> QED BY <2>1 DEF Row
<1>3. tx \in [Tx -> Row] BY <1>1, <1>2
<1> QED BY <1>3 DEF Init, TypeOK, Request

(* A read stores a request of its kind, and writes nothing. *)
LEMMA BeginTypeOK ==
    ASSUME TypeOK, NEW s \in Slots, NEW t \in Tx,
           \/ BeginCreate(s) \/ BeginVoid(s, t) \/ BeginReplace(s, t)
           \/ BeginPatch(s, t) \/ BeginRectify(s, t) \/ BeginDelete(s, t)
    PROVE  TypeOK'
<1>1. \E r \in Request : Begin(s, r)
  <2>1. CASE BeginCreate(s) BY <2>1 DEF BeginCreate, Request
  <2>2. CASE BeginVoid(s, t) BY <2>2 DEF BeginVoid, Request, TypeOK
  <2>3. CASE BeginReplace(s, t) BY <2>3 DEF BeginReplace, Request, TypeOK
  <2>4. CASE BeginPatch(s, t)
    <3>1. tx[t].date \in Periods BY DEF TypeOK, Row
    <3> QED BY <2>4, <3>1 DEF BeginPatch, Request
  <2>5. CASE BeginRectify(s, t) BY <2>5 DEF BeginRectify, Request, TypeOK
  <2>6. CASE BeginDelete(s, t) BY <2>6 DEF BeginDelete, Request
  <2> QED BY <2>1, <2>2, <2>3, <2>4, <2>5, <2>6
<1> QED BY <1>1 DEF Begin, TypeOK

LEMMA CommitTypeOK ==
    ASSUME TypeOK, NEW s \in Slots, NEW rows \in [Tx -> Row], Commit(s, rows)
    PROVE  TypeOK'
BY DEF TypeOK, Commit, Request

LEMMA NextTypeOK == TypeOK /\ [Next]_vars => TypeOK'
<1> SUFFICES ASSUME TypeOK, [Next]_vars PROVE TypeOK' OBVIOUS
<1>1. CASE UNCHANGED vars BY <1>1 DEF vars, TypeOK
<1>2. ASSUME NEW s \in Slots, NEW t \in Tx,
             \/ BeginVoid(s, t) \/ BeginReplace(s, t) \/ BeginPatch(s, t)
             \/ BeginRectify(s, t) \/ BeginDelete(s, t)
      PROVE  TypeOK'
  BY <1>2, BeginTypeOK
<1>3. ASSUME NEW s \in Slots, BeginCreate(s) PROVE TypeOK'
  <2>1. \E r \in Request : Begin(s, r) BY <1>3 DEF BeginCreate, Request
  <2> QED BY <2>1 DEF Begin, TypeOK
<1>4. ASSUME NEW s \in Slots, CheckPeriod(s) \/ MergePostings(s) PROVE TypeOK'
  <2>1. req[s] \in Request BY DEF TypeOK
  <2>2. CASE CheckPeriod(s)
    <3>1. [req[s] EXCEPT !.step = "gated"] \in Request
      BY <2>1, <2>2, StepTyped DEF CheckPeriod
    <3> QED BY <2>2, <3>1 DEF CheckPeriod, TypeOK
  <2>3. CASE MergePostings(s)
    <3> DEFINE b == IF "postings" \in req[s].given THEN req[s].tagged
                      ELSE tx[req[s].src].tagged
    <3>1. b \in BOOLEAN
      BY <2>1, <2>3, RequestFields DEF MergePostings, TypeOK, Row
    <3>2. [req[s] EXCEPT !.step = "merged", !.tagged = b] \in Request
      BY <2>1, <2>3, <3>1, StepTyped DEF MergePostings
    <3>3. req' = [req EXCEPT ![s] = [req[s] EXCEPT !.step = "merged", !.tagged = b]]
      BY <2>3, Zenon DEF MergePostings
    <3> QED BY <2>3, <3>2, <3>3 DEF MergePostings, TypeOK
  <2> QED BY <1>4, <2>2, <2>3
<1>5. ASSUME NEW s \in Slots, Abort(s) PROVE TypeOK'
  BY <1>5 DEF Abort, TypeOK, Request
<1>6. ASSUME NEW s \in Slots, CommitCreate(s) PROVE TypeOK'
  <2>1. PICK n \in Tx : Commit(s, [tx EXCEPT ![n] =
                           Entry(req[s].date, req[s].tagged, req[s].name, NoTx)])
    BY <1>6 DEF CommitCreate
  <2>2. Entry(req[s].date, req[s].tagged, req[s].name, NoTx) \in Row
    BY <1>6, RequestFields, EntryTyped DEF CommitCreate, TypeOK
  <2> QED BY <2>1, <2>2, CommitTypeOK DEF TypeOK
<1>7. ASSUME NEW s \in Slots, CommitVoid(s) PROVE TypeOK'
  <2> DEFINE q == req[s]
  <2>1. PICK r \in Tx : Commit(s, [tx EXCEPT ![r] = Reversal(q.src, q.seen, q.on),
                                             ![q.src] = VoidedRow(@, r)])
    BY <1>7 DEF CommitVoid
  <2>2. q.src \in Tx /\ q.seen \in Row /\ q.on \in Periods
    BY <1>7, RequestFields DEF CommitVoid, TypeOK
  <2>3. Reversal(q.src, q.seen, q.on) \in Row BY <2>2, ReversalTyped
  <2>4. \A row \in Row : VoidedRow(row, r) \in Row BY VoidedRowTyped
  <2> QED BY <2>1, <2>2, <2>3, <2>4, CommitTypeOK DEF TypeOK
<1>8. ASSUME NEW s \in Slots, CommitReplace(s) PROVE TypeOK'
  <2> DEFINE q == req[s]
  <2>1. PICK r \in Tx :
           /\ r + 1 \in Tx
           /\ Commit(s, [tx EXCEPT ![r] = Reversal(q.src, q.seen, q.on),
                                   ![r + 1] = Entry(q.date, q.tagged, q.name, q.src),
                                   ![q.src] = VoidedRow(@, r)])
    BY <1>8 DEF CommitReplace
  <2>2. /\ q.src \in Tx /\ q.seen \in Row /\ q.on \in Periods
        /\ q.date \in Periods /\ q.tagged \in BOOLEAN /\ q.name \in Names
    BY <1>8, RequestFields DEF CommitReplace, TypeOK
  <2>3. Reversal(q.src, q.seen, q.on) \in Row BY <2>2, ReversalTyped
  <2>4. \A row \in Row : VoidedRow(row, r) \in Row BY VoidedRowTyped
  <2>5. Entry(q.date, q.tagged, q.name, q.src) \in Row BY <2>2, EntryTyped
  <2> QED BY <2>1, <2>2, <2>3, <2>4, <2>5, CommitTypeOK DEF TypeOK
<1>9. ASSUME NEW s \in Slots, CommitPatch(s) PROVE TypeOK'
  <2> DEFINE q == req[s]
             row == [tx[q.src] EXCEPT !.date = q.date, !.tagged = q.tagged]
  <2>1. q.src \in Tx /\ q.date \in Periods /\ q.tagged \in BOOLEAN
    BY <1>9, RequestFields DEF CommitPatch, TypeOK
  <2>2. \A x \in Row : [x EXCEPT !.date = q.date, !.tagged = q.tagged] \in Row
    BY <2>1 DEF Row
  <2>3. row \in Row BY <2>1, <2>2 DEF TypeOK
  <2>4. Commit(s, [tx EXCEPT ![q.src] = row])
    BY <1>9, <2>1 DEF CommitPatch, TypeOK
  <2> QED BY <2>1, <2>3, <2>4, CommitTypeOK DEF TypeOK
<1>10. ASSUME NEW s \in Slots, CommitRectify(s) PROVE TypeOK'
  <2> DEFINE t == req[s].src
             r == req[s].seen.voidedBy
             renamed == [tx EXCEPT ![t] = [@ EXCEPT !.desc = Typed(req[s].name)]]
             redacted == [renamed EXCEPT ![r] = [@ EXCEPT !.desc = Wrap(Typed(Redacted))]]
  <2>1. t \in Tx /\ req[s].name \in Names
    BY <1>10, RequestFields DEF CommitRectify, TypeOK
  <2>2. Typed(req[s].name) \in Desc /\ Wrap(Typed(Redacted)) \in Desc
    BY <2>1 DEF Typed, Wrap, Desc
  <2>3. \A row \in Row, d \in Desc : [row EXCEPT !.desc = d] \in Row BY DEF Row
  <2>4. renamed \in [Tx -> Row] BY <2>1, <2>2, <2>3 DEF TypeOK
  <2>5. redacted \in [Tx -> Row] BY <2>4, <2>2, <2>3
  <2>6. Commit(s, redacted) \/ Commit(s, renamed) BY <1>10 DEF CommitRectify
  <2> QED BY <2>4, <2>5, <2>6, CommitTypeOK
<1>11. ASSUME NEW s \in Slots, CommitDelete(s) PROVE TypeOK'
  <2> DEFINE row == [tx[req[s].src] EXCEPT !.status = "deleted"]
  <2>1. req[s].src \in Tx BY <1>11, RequestFields DEF CommitDelete, TypeOK
  <2>2. row \in Row BY <2>1 DEF TypeOK, Row
  <2>3. Commit(s, [tx EXCEPT ![req[s].src] = row])
    BY <1>11, <2>1 DEF CommitDelete, TypeOK
  <2> QED BY <2>2, <2>3, CommitTypeOK DEF TypeOK
<1>12. ASSUME NEW s \in Slots, Import(s) PROVE TypeOK'
  <2>1. PICK n \in Tx, d \in Periods, name \in Names, st \in {"pending", "posted"} :
           tx' = [tx EXCEPT ![n] = Imported(d, st, name)]
    BY <1>12 DEF Import
  <2>2. Imported(d, st, name) \in Row BY ImportedTyped
  <2> QED BY <1>12, <2>1, <2>2 DEF Import, TypeOK
<1>13. ASSUME NEW s \in Slots, NEW p \in Periods,
              ClosePeriod(s, p) \/ ReopenPeriod(s, p) \/ DeactivatePool(s)
       PROVE  TypeOK'
  BY <1>13 DEF ClosePeriod, ReopenPeriod, DeactivatePool, TypeOK
<1>14. ASSUME NEW s \in Slots, DeactivatePool(s) PROVE TypeOK'
  BY <1>14 DEF DeactivatePool, TypeOK
<1> QED
  BY <1>1, <1>2, <1>3, <1>4, <1>5, <1>6, <1>7, <1>8, <1>9, <1>10, <1>11, <1>12,
     <1>13, <1>14 DEF Next

(* Every row, period and request in flight is well formed: in particular    *)
(* what a request read stays a row of the table's type.                     *)
THEOREM LedgerTypeCorrect == Spec => []TypeOK
BY InitTypeOK, NextTypeOK, PTL DEF Spec

-----------------------------------------------------------------------------
(* The inductive invariant of the voiding machinery.                        *)

(* A request knows of its source only what no commit can change any more:   *)
(* that a row is in the ledger, with its sign, or that it is a draft or a   *)
(* deleted one.  Whether the source is voided is not among these facts.     *)
SourceInv ==
    \A s \in Slots :
        /\ req[s].op \in {"void", "replace"} =>
              /\ InLedger(req[s].src)
              /\ req[s].seen.flipped = tx[req[s].src].flipped
        /\ req[s].op = "rectify" => InLedger(req[s].src)
        /\ req[s].op \in {"patch", "delete"} =>
              tx[req[s].src].status \in {"pending", "deleted"}

LinkInv ==
    \A t \in Tx :
        /\ InLedger(t) /\ tx[t].reverses # NoTx =>
              InLedger(tx[t].reverses) /\ Voided(tx[t].reverses)
        /\ Voided(t) =>
              /\ InLedger(t)
              /\ InLedger(tx[t].voidedBy)
              /\ tx[tx[t].voidedBy].reverses = t
              /\ tx[tx[t].voidedBy].flipped # tx[t].flipped

VoidInv == TypeOK /\ SourceInv /\ LinkInv /\ ShadowFollowsMain

(* The body of PostedIsImmutable, and what it leaves unsaid of the others. *)
Immutable ==
    \A t \in Tx :
        InLedger(t) =>
            /\ tx'[t] = [tx[t] EXCEPT !.desc = tx'[t].desc,
                                      !.voidedBy = tx'[t].voidedBy,
                                      !.shadow = tx'[t].shadow]
            /\ Voided(t) => tx'[t].voidedBy # NoTx
            /\ tx[t].shadow = "voided" => tx'[t].shadow = "voided"

StaysOut ==
    \A t \in Tx : tx[t].status \in {"pending", "deleted"} =>
                      tx'[t].status \in {"pending", "deleted"}

LEMMA NoTxNotInTx == NoTx \notin Tx
BY DEF NoTx, Tx

(* A row of the ledger stays there with its sign. *)
LEMMA ImmutableKeeps ==
    ASSUME TypeOK, Immutable, NEW t \in Tx, InLedger(t)
    PROVE  tx'[t].status = "posted" /\ tx'[t].flipped = tx[t].flipped
<1> DEFINE y == [tx[t] EXCEPT !.desc = tx'[t].desc, !.voidedBy = tx'[t].voidedBy,
                              !.shadow = tx'[t].shadow]
<1>1. tx[t] \in Row BY DEF TypeOK
<1>2. y.status = tx[t].status /\ y.flipped = tx[t].flipped BY <1>1 DEF Row
<1>3. tx'[t] = y BY DEF Immutable
<1>4. tx'[t].status = tx[t].status /\ tx'[t].flipped = tx[t].flipped
  <2> HIDE DEF y
  <2> QED BY <1>2, <1>3
<1> QED BY <1>4 DEF InLedger

LEMMA SourcesKept ==
    ASSUME TypeOK, SourceInv, Immutable, StaysOut,
           NEW s \in Slots, req' = [req EXCEPT ![s] = Idle] \/ req' = req
    PROVE  SourceInv'
<1> SUFFICES ASSUME NEW z \in Slots, req'[z] # Idle
             PROVE  /\ req'[z].op \in {"void", "replace"} =>
                          /\ InLedger(req[z].src)'
                          /\ req'[z].seen.flipped = tx'[req'[z].src].flipped
                    /\ req'[z].op = "rectify" => InLedger(req[z].src)'
                    /\ req'[z].op \in {"patch", "delete"} =>
                          tx'[req'[z].src].status \in {"pending", "deleted"}
  BY DEF SourceInv, Idle
<1>1. req'[z] = req[z] BY DEF TypeOK
<1>2. req[z] \in Request BY DEF TypeOK
<1>3. CASE req[z].op \in {"void", "replace"}
  BY <1>1, <1>2, <1>3, RequestFields, ImmutableKeeps DEF SourceInv, InLedger
<1>4. CASE req[z].op = "rectify"
  BY <1>1, <1>2, <1>4, RequestFields, ImmutableKeeps DEF SourceInv, InLedger
<1>5. CASE req[z].op \in {"patch", "delete"}
  BY <1>1, <1>2, <1>5, RequestFields DEF SourceInv, StaysOut
<1> QED BY <1>1, <1>3, <1>4, <1>5

(* A new row of no reversal. *)
LEMMA InsertEffect ==
    ASSUME TypeOK, LinkInv, ShadowFollowsMain, TypeOK',
           NEW n \in Tx, tx[n].status = "absent",
           NEW row \in Row, tx' = [tx EXCEPT ![n] = row],
           row.reverses = NoTx, row.voidedBy = NoTx, row.shadow # "voided",
           row.shadow = "posted" => row.status = "posted",
           row.status = "posted" /\ row.tagged => row.shadow # "none"
    PROVE  LinkInv' /\ ShadowFollowsMain' /\ Immutable /\ StaysOut
<1>1. tx'[n] = row /\ \A t \in Tx \ {n} : tx'[t] = tx[t] BY DEF TypeOK
<1>2. LinkInv'
  <2> SUFFICES ASSUME NEW t \in Tx
               PROVE  /\ InLedger(t)' /\ tx'[t].reverses # NoTx =>
                            InLedger(tx[t].reverses)' /\ Voided(tx[t].reverses)'
                      /\ Voided(t)' =>
                            /\ InLedger(t)'
                            /\ InLedger(tx[t].voidedBy)'
                            /\ tx'[tx'[t].voidedBy].reverses = t
                            /\ tx'[tx'[t].voidedBy].flipped # tx'[t].flipped
    BY DEF LinkInv
  <2>1. CASE t = n BY <2>1, <1>1 DEF Voided, InLedger
  <2>2. CASE t # n
    <3>1. tx[t] \in Row BY DEF TypeOK
    <3>2. tx[t].reverses \in Tx \cup {NoTx} /\ tx[t].voidedBy \in Tx \cup {NoTx}
      BY <3>1 DEF Row
    <3> QED BY <2>2, <1>1, <3>2 DEF Voided, InLedger, LinkInv
  <2> QED BY <2>1, <2>2
<1>3. ShadowFollowsMain' BY <1>1 DEF ShadowFollowsMain, InLedger, Voided
<1>4. Immutable
  <2>1. \A x \in Row : x = [x EXCEPT !.desc = x.desc, !.voidedBy = x.voidedBy,
                                     !.shadow = x.shadow]
    BY DEF Row
  <2> QED BY <1>1, <2>1 DEF Immutable, InLedger, TypeOK, Voided
<1>5. StaysOut BY <1>1 DEF StaysOut
<1> QED BY <1>2, <1>3, <1>4, <1>5

(* A reversal of src, perhaps with a replacement of it beside. *)
LEMMA VoidEffect ==
    ASSUME TypeOK, LinkInv, ShadowFollowsMain, TypeOK',
           NEW src \in Tx, InLedger(src), NEW r \in Tx, tx[r].status = "absent",
           NEW seen \in Row, seen.flipped = tx[src].flipped, NEW on,
           tx'[r] = Reversal(src, seen, on), tx'[src] = VoidedRow(tx[src], r),
           \A t \in Tx \ {r, src} : tx'[t] # tx[t] =>
              /\ tx[t].status = "absent" /\ tx'[t].status = "posted"
              /\ tx'[t].reverses = NoTx /\ tx'[t].voidedBy = NoTx
              /\ tx'[t].shadow = IF tx'[t].tagged THEN "posted" ELSE "none"
    PROVE  LinkInv' /\ ShadowFollowsMain' /\ Immutable /\ StaysOut
<1>0. r # src BY DEF InLedger
<1>1. /\ tx'[r].status = "posted" /\ tx'[r].reverses = src
      /\ tx'[r].voidedBy = NoTx /\ tx'[r].shadow = "none"
      /\ tx'[r].flipped = ~tx[src].flipped
  BY DEF Reversal
<1>2. /\ tx'[src] = [tx[src] EXCEPT !.voidedBy = r, !.shadow = tx'[src].shadow]
      /\ tx'[src].status = "posted" /\ tx'[src].voidedBy = r
      /\ tx'[src].reverses = tx[src].reverses
      /\ tx'[src].flipped = tx[src].flipped /\ tx'[src].tagged = tx[src].tagged
      /\ tx'[src].shadow = IF tx[src].shadow = "posted" THEN "voided"
                                                        ELSE tx[src].shadow
  BY DEF VoidedRow, TypeOK, Row, InLedger
<1>3. \A t \in Tx \ {r, src} : tx'[t] # tx[t] =>
          /\ tx[t].status = "absent" /\ tx'[t].status = "posted"
          /\ tx'[t].reverses = NoTx /\ tx'[t].voidedBy = NoTx
          /\ tx'[t].shadow = IF tx'[t].tagged THEN "posted" ELSE "none"
  OBVIOUS
<1>4. NoTx \notin Tx BY NoTxNotInTx
<1>5. \A t \in Tx : tx[t].reverses \in Tx \cup {NoTx} /\ tx[t].voidedBy \in Tx \cup {NoTx}
  BY DEF TypeOK, Row
<1>6. \A t \in Tx : tx[t].flipped \in BOOLEAN /\ tx'[t].flipped \in BOOLEAN
  BY DEF TypeOK, Row
<1>7. LinkInv'
  <2> SUFFICES ASSUME NEW t \in Tx
               PROVE  /\ InLedger(t)' /\ tx'[t].reverses # NoTx =>
                            InLedger(tx[t].reverses)' /\ Voided(tx[t].reverses)'
                      /\ Voided(t)' =>
                            /\ InLedger(t)'
                            /\ InLedger(tx[t].voidedBy)'
                            /\ tx'[tx'[t].voidedBy].reverses = t
                            /\ tx'[tx'[t].voidedBy].flipped # tx'[t].flipped
    BY DEF LinkInv
  <2>0. \A u \in Tx : InLedger(u) => InLedger(u)' /\ (Voided(u) => Voided(u)')
    BY <1>1, <1>2, <1>3, <1>4 DEF InLedger, Voided
  <2>1. CASE t = r
    BY <2>1, <1>0, <1>1, <1>2, <1>4 DEF Voided, InLedger
  <2>2. CASE t = src
    <3>1. InLedger(t)' /\ tx'[t].reverses # NoTx =>
             InLedger(tx[t].reverses)' /\ Voided(tx[t].reverses)'
      BY <2>0, <2>2, <1>2, <1>5 DEF LinkInv, InLedger, Voided
    <3>2. tx'[r].flipped # tx'[src].flipped BY <1>1, <1>2, <1>6
    <3> QED BY <2>2, <3>1, <3>2, <1>1, <1>2 DEF Voided, InLedger
  <2>3. CASE t \notin {r, src} /\ tx'[t] # tx[t]
    BY <2>3, <1>3 DEF Voided, InLedger
  <2>4. CASE t \notin {r, src} /\ tx'[t] = tx[t]
    <3>1. InLedger(t)' /\ tx'[t].reverses # NoTx =>
             InLedger(tx[t].reverses)' /\ Voided(tx[t].reverses)'
      BY <2>0, <2>4, <1>5 DEF LinkInv, InLedger, Voided
    <3>2. ASSUME Voided(t)
          PROVE  /\ tx[t].voidedBy \in Tx /\ InLedger(tx[t].voidedBy)
                 /\ tx'[tx[t].voidedBy].reverses = tx[tx[t].voidedBy].reverses
                 /\ tx'[tx[t].voidedBy].flipped = tx[tx[t].voidedBy].flipped
      <4> DEFINE v == tx[t].voidedBy
      <4>1. v \in Tx /\ InLedger(v) BY <3>2, <1>5 DEF LinkInv, Voided
      <4>2. v # r BY <4>1 DEF InLedger
      <4>3. v # src => tx'[v] = tx[v] BY <4>1, <4>2, <1>3 DEF InLedger
      <4> QED BY <4>1, <4>2, <4>3, <1>2
    <3> QED BY <2>0, <2>4, <3>1, <3>2 DEF Voided, InLedger, LinkInv
  <2> QED BY <2>1, <2>2, <2>3, <2>4
<1>8. ShadowFollowsMain'
  <2> SUFFICES ASSUME NEW t \in Tx
               PROVE  /\ tx'[t].shadow = "posted" => InLedger(t)' /\ ~Voided(t)'
                      /\ tx'[t].shadow = "voided" => Voided(t)'
                      /\ InLedger(t)' /\ tx'[t].tagged /\ tx'[t].reverses = NoTx =>
                            tx'[t].shadow # "none"
    BY DEF ShadowFollowsMain
  <2>1. CASE t = r BY <2>1, <1>1, <1>4 DEF Voided, InLedger
  <2>2. CASE t = src
    BY <2>2, <1>2, <1>4 DEF Voided, InLedger, ShadowFollowsMain
  <2>3. CASE t \notin {r, src} /\ tx'[t] # tx[t]
    BY <2>3, <1>3 DEF Voided, InLedger
  <2>4. CASE t \notin {r, src} /\ tx'[t] = tx[t]
    BY <2>4 DEF Voided, InLedger, ShadowFollowsMain
  <2> QED BY <2>1, <2>2, <2>3, <2>4
<1>9. Immutable
  <2>1. \A x \in Row : /\ x = [x EXCEPT !.desc = x.desc, !.voidedBy = x.voidedBy,
                                        !.shadow = x.shadow]
                       /\ \A y : \A z : [x EXCEPT !.voidedBy = y, !.shadow = z]
                                = [x EXCEPT !.desc = x.desc, !.voidedBy = y, !.shadow = z]
    BY DEF Row
  <2>2. tx'[src].desc = tx[src].desc BY <1>2 DEF TypeOK, Row
  <2>3. tx'[src] = [tx[src] EXCEPT !.desc = tx'[src].desc,
                                   !.voidedBy = tx'[src].voidedBy,
                                   !.shadow = tx'[src].shadow]
    BY <2>1, <2>2, <1>2 DEF TypeOK
  <2>4. ASSUME NEW t \in Tx, InLedger(t), t # src PROVE tx'[t] = tx[t]
    BY <2>4, <1>3 DEF InLedger
  <2>5. \A t \in Tx : tx[t] = [tx[t] EXCEPT !.desc = tx[t].desc,
                                            !.voidedBy = tx[t].voidedBy,
                                            !.shadow = tx[t].shadow]
    BY <2>1 DEF TypeOK
  <2>6. SUFFICES ASSUME NEW t \in Tx, InLedger(t)
                 PROVE  /\ tx'[t] = [tx[t] EXCEPT !.desc = tx'[t].desc,
                                                  !.voidedBy = tx'[t].voidedBy,
                                                  !.shadow = tx'[t].shadow]
                        /\ Voided(t) => tx'[t].voidedBy # NoTx
                        /\ tx[t].shadow = "voided" => tx'[t].shadow = "voided"
    BY DEF Immutable
  <2>7. CASE t = src BY <2>3, <2>7, <1>2, <1>4 DEF Voided
  <2>8. CASE t # src
    <3>1. tx'[t] = tx[t] BY <2>4, <2>6, <2>8
    <3> QED BY <2>5, <3>1 DEF Voided
  <2> QED BY <2>7, <2>8
<1>10. StaysOut BY <1>2, <1>3 DEF StaysOut, InLedger
<1> QED BY <1>7, <1>8, <1>9, <1>10

(* Descriptions are nobody's business here. *)
LEMMA RenameEffect ==
    ASSUME TypeOK, LinkInv, ShadowFollowsMain,
           \A t \in Tx : \E d : tx'[t] = [tx[t] EXCEPT !.desc = d]
    PROVE  LinkInv' /\ ShadowFollowsMain' /\ Immutable /\ StaysOut
<1>1. ASSUME NEW t \in Tx
      PROVE  /\ tx'[t].status = tx[t].status /\ tx'[t].flipped = tx[t].flipped
             /\ tx'[t].tagged = tx[t].tagged /\ tx'[t].shadow = tx[t].shadow
             /\ tx'[t].reverses = tx[t].reverses
             /\ tx'[t].voidedBy = tx[t].voidedBy
             /\ tx'[t] = [tx[t] EXCEPT !.desc = tx'[t].desc,
                                       !.voidedBy = tx'[t].voidedBy,
                                       !.shadow = tx'[t].shadow]
  <2>1. tx[t] \in Row BY DEF TypeOK
  <2>2. PICK d : tx'[t] = [tx[t] EXCEPT !.desc = d] OBVIOUS
  <2> QED BY <2>1, <2>2 DEF Row
<1>2. \A t \in Tx : tx[t].reverses \in Tx \cup {NoTx} /\ tx[t].voidedBy \in Tx \cup {NoTx}
  BY DEF TypeOK, Row
<1>7. \A t \in Tx : (InLedger(t)' <=> InLedger(t)) /\ (Voided(t)' <=> Voided(t))
  BY <1>1 DEF InLedger, Voided
<1>3. LinkInv'
  <2> SUFFICES ASSUME NEW t \in Tx
               PROVE  /\ InLedger(t)' /\ tx'[t].reverses # NoTx =>
                            InLedger(tx[t].reverses)' /\ Voided(tx[t].reverses)'
                      /\ Voided(t)' =>
                            /\ InLedger(t)'
                            /\ InLedger(tx[t].voidedBy)'
                            /\ tx'[tx'[t].voidedBy].reverses = t
                            /\ tx'[tx'[t].voidedBy].flipped # tx'[t].flipped
    BY DEF LinkInv
  <2>1. tx'[t].reverses = tx[t].reverses /\ tx'[t].voidedBy = tx[t].voidedBy
    BY <1>1
  <2>2. ASSUME InLedger(t), tx[t].reverses # NoTx
        PROVE  /\ tx[t].reverses \in Tx
               /\ tx'[tx[t].reverses].status = "posted"
               /\ tx'[tx[t].reverses].voidedBy # NoTx
    <3>1. tx[t].reverses \in Tx BY <2>2, <1>2
    <3>2. tx[tx[t].reverses].status = "posted" /\ tx[tx[t].reverses].voidedBy # NoTx
      BY <2>2 DEF LinkInv, InLedger, Voided
    <3>3. /\ tx'[tx[t].reverses].status = tx[tx[t].reverses].status
          /\ tx'[tx[t].reverses].voidedBy = tx[tx[t].reverses].voidedBy
      BY <3>1, <1>1
    <3> QED BY <3>1, <3>2, <3>3
  <2>3. ASSUME Voided(t)
        PROVE  /\ tx[t].voidedBy \in Tx
               /\ tx'[tx[t].voidedBy].status = "posted"
               /\ tx'[tx[t].voidedBy].reverses = t
               /\ tx'[tx[t].voidedBy].flipped # tx'[t].flipped
    <3>1. tx[t].voidedBy \in Tx BY <2>3, <1>2 DEF Voided
    <3>2. /\ tx[tx[t].voidedBy].status = "posted"
          /\ tx[tx[t].voidedBy].reverses = t
          /\ tx[tx[t].voidedBy].flipped # tx[t].flipped
      BY <2>3 DEF LinkInv, InLedger
    <3> QED BY <3>1, <3>2, <1>1
  <2> QED BY <2>1, <2>2, <2>3, <1>7 DEF LinkInv, InLedger, Voided
<1>4. ShadowFollowsMain'
  <2> SUFFICES ASSUME NEW t \in Tx
               PROVE  /\ tx'[t].shadow = "posted" => InLedger(t)' /\ ~Voided(t)'
                      /\ tx'[t].shadow = "voided" => Voided(t)'
                      /\ InLedger(t)' /\ tx'[t].tagged /\ tx'[t].reverses = NoTx =>
                            tx'[t].shadow # "none"
    BY DEF ShadowFollowsMain
  <2>1. /\ tx'[t].shadow = tx[t].shadow /\ tx'[t].tagged = tx[t].tagged
        /\ tx'[t].reverses = tx[t].reverses
    BY <1>1
  <2> QED BY <2>1, <1>7 DEF ShadowFollowsMain
<1>5. Immutable
  <2> SUFFICES ASSUME NEW t \in Tx
               PROVE  /\ tx'[t] = [tx[t] EXCEPT !.desc = tx'[t].desc,
                                                !.voidedBy = tx'[t].voidedBy,
                                                !.shadow = tx'[t].shadow]
                      /\ Voided(t) => tx'[t].voidedBy # NoTx
                      /\ tx[t].shadow = "voided" => tx'[t].shadow = "voided"
    BY DEF Immutable
  <2> QED BY <1>1 DEF Voided
<1>6. StaysOut BY <1>1 DEF StaysOut
<1> QED BY <1>3, <1>4, <1>5, <1>6

(* A draft is edited or deleted: nothing in the ledger refers to it. *)
LEMMA DraftEffect ==
    ASSUME TypeOK, LinkInv, ShadowFollowsMain,
           NEW src \in Tx, tx[src].status = "pending",
           \A t \in Tx \ {src} : tx'[t] = tx[t],
           tx'[src].status \in {"pending", "deleted"},
           tx'[src].voidedBy = tx[src].voidedBy,
           tx'[src].shadow = tx[src].shadow
    PROVE  LinkInv' /\ ShadowFollowsMain' /\ Immutable /\ StaysOut
<1>1. \A t \in Tx : InLedger(t)' <=> InLedger(t) BY DEF InLedger
<1>2. \A t \in Tx : Voided(t)' <=> Voided(t) BY DEF Voided
<1>3. \A t \in Tx : InLedger(t) => tx'[t] = tx[t] BY DEF InLedger
<1>4. \A t \in Tx : tx[t].reverses \in Tx \cup {NoTx} /\ tx[t].voidedBy \in Tx \cup {NoTx}
  BY DEF TypeOK, Row
<1>5. LinkInv'
  <2> SUFFICES ASSUME NEW t \in Tx, InLedger(t) \/ Voided(t)
               PROVE  /\ InLedger(t)' /\ tx'[t].reverses # NoTx =>
                            InLedger(tx[t].reverses)' /\ Voided(tx[t].reverses)'
                      /\ Voided(t)' =>
                            /\ InLedger(t)'
                            /\ InLedger(tx[t].voidedBy)'
                            /\ tx'[tx'[t].voidedBy].reverses = t
                            /\ tx'[tx'[t].voidedBy].flipped # tx'[t].flipped
    BY <1>1, <1>2 DEF LinkInv
  <2>1. InLedger(t) /\ tx'[t] = tx[t] BY <1>3 DEF LinkInv
  <2>2. tx[t].reverses # NoTx =>
           /\ tx[t].reverses \in Tx
           /\ InLedger(tx[t].reverses) /\ Voided(tx[t].reverses)
    BY <2>1, <1>4 DEF LinkInv
  <2>3. Voided(t) =>
           /\ tx[t].voidedBy \in Tx /\ InLedger(tx[t].voidedBy)
           /\ tx'[tx[t].voidedBy] = tx[tx[t].voidedBy]
    BY <1>3, <1>4 DEF LinkInv, Voided
  <2>4. tx[t].reverses # NoTx =>
           InLedger(tx[t].reverses)' /\ Voided(tx[t].reverses)'
    BY <2>1, <2>2, <1>3 DEF InLedger, Voided
  <2> QED BY <2>1, <2>3, <2>4 DEF LinkInv, Voided, InLedger
<1>6. ShadowFollowsMain'
  <2> SUFFICES ASSUME NEW t \in Tx
               PROVE  /\ tx'[t].shadow = "posted" => InLedger(t)' /\ ~Voided(t)'
                      /\ tx'[t].shadow = "voided" => Voided(t)'
                      /\ InLedger(t)' /\ tx'[t].tagged /\ tx'[t].reverses = NoTx =>
                            tx'[t].shadow # "none"
    BY DEF ShadowFollowsMain
  <2>1. tx'[t].shadow = tx[t].shadow OBVIOUS
  <2> QED BY <2>1, <1>1, <1>2, <1>3 DEF ShadowFollowsMain
<1>7. Immutable
  <2>1. \A t \in Tx : tx[t] = [tx[t] EXCEPT !.desc = tx[t].desc,
                                            !.voidedBy = tx[t].voidedBy,
                                            !.shadow = tx[t].shadow]
    BY DEF TypeOK, Row
  <2> QED BY <2>1, <1>3 DEF Immutable, Voided
<1>8. StaysOut BY DEF StaysOut
<1> QED BY <1>5, <1>6, <1>7, <1>8

-----------------------------------------------------------------------------
(* One commit after the other.                                              *)

LEMMA InitVoidInv == Init => VoidInv
<1> SUFFICES ASSUME Init PROVE VoidInv OBVIOUS
<1>1. \A t \in Tx : /\ tx[t].status = "absent" /\ tx[t].voidedBy = NoTx
                    /\ tx[t].shadow = "none"
  <2>1. PICK p \in Periods, n \in Names :
           tx = [t \in Tx |-> [Imported(p, "absent", n) EXCEPT !.origin = "api"]]
    BY DEF Init
  <2> QED BY <2>1 DEF Imported, Entry
<1>2. LinkInv /\ ShadowFollowsMain
  BY <1>1 DEF LinkInv, ShadowFollowsMain, InLedger, Voided
<1>3. SourceInv BY DEF Init, SourceInv, Idle
<1> QED BY <1>2, <1>3, InitTypeOK DEF VoidInv

(* A step that leaves the tables alone. *)
LEMMA NoCommit ==
    ASSUME VoidInv, tx' = tx
    PROVE  LinkInv' /\ ShadowFollowsMain' /\ Immutable /\ StaysOut
<1>1. \A t \in Tx : tx[t] = [tx[t] EXCEPT !.desc = tx[t].desc,
                                          !.voidedBy = tx[t].voidedBy,
                                          !.shadow = tx[t].shadow]
  BY DEF VoidInv, TypeOK, Row
<1>2. LinkInv' BY DEF VoidInv, LinkInv, InLedger, Voided
<1>3. ShadowFollowsMain' BY DEF VoidInv, ShadowFollowsMain, InLedger, Voided
<1>4. Immutable BY <1>1 DEF Immutable, Voided
<1>5. StaysOut BY DEF StaysOut
<1> QED BY <1>2, <1>3, <1>4, <1>5

(* A read stores a fact about the source that is true now. *)
LEMMA BeginKeepsSources ==
    ASSUME VoidInv, NEW s \in Slots, NEW r, Begin(s, r),
           r.op \in {"void", "replace"} =>
              InLedger(r.src) /\ r.seen.flipped = tx[r.src].flipped,
           r.op = "rectify" => InLedger(r.src),
           r.op \in {"patch", "delete"} => tx[r.src].status = "pending"
    PROVE  SourceInv'
<1>1. tx' = tx /\ req'[s] = r /\ \A z \in Slots \ {s} : req'[z] = req[z]
  BY DEF Begin, VoidInv, TypeOK
<1> QED BY <1>1 DEF VoidInv, SourceInv, InLedger

LEMMA ReadVoidInv ==
    ASSUME VoidInv, TypeOK', NEW s \in Slots,
           \/ BeginCreate(s) \/ CheckPeriod(s) \/ MergePostings(s)
           \/ \E t \in Tx : \/ BeginVoid(s, t) \/ BeginReplace(s, t)
                            \/ BeginPatch(s, t) \/ BeginRectify(s, t)
                            \/ BeginDelete(s, t)
    PROVE  VoidInv' /\ Immutable
<1>1. tx' = tx
  BY DEF BeginCreate, CheckPeriod, MergePostings, BeginVoid, BeginReplace,
         BeginPatch, BeginRectify, BeginDelete, Begin
<1>2. SourceInv'
  <2>1. CASE BeginCreate(s)
    <3>1. PICK date \in Periods, tagged \in BOOLEAN, name \in Names :
             Begin(s, [op |-> "create", step |-> "read", date |-> date,
                       tagged |-> tagged, name |-> name])
      BY <2>1 DEF BeginCreate
    <3> QED BY <3>1, BeginKeepsSources
  <2>2. ASSUME NEW t \in Tx, BeginVoid(s, t) PROVE SourceInv'
    <3>1. PICK on \in Periods :
             Begin(s, [op |-> "void", step |-> "read", src |-> t,
                       seen |-> tx[t], on |-> on])
      BY <2>2 DEF BeginVoid
    <3>2. InLedger(t) BY <2>2 DEF BeginVoid, Voidable
    <3> QED BY <3>1, <3>2, BeginKeepsSources
  <2>3. ASSUME NEW t \in Tx, BeginReplace(s, t) PROVE SourceInv'
    <3>1. PICK on \in Periods, date \in Periods, tagged \in BOOLEAN, name \in Names :
             Begin(s, [op |-> "replace", step |-> "read", src |-> t,
                       seen |-> tx[t], on |-> on, date |-> date,
                       tagged |-> tagged, name |-> name])
      BY <2>3 DEF BeginReplace
    <3>2. InLedger(t) BY <2>3 DEF BeginReplace, Voidable
    <3> QED BY <3>1, <3>2, BeginKeepsSources
  <2>4. ASSUME NEW t \in Tx, BeginPatch(s, t) PROVE SourceInv'
    <3>1. PICK given \in SUBSET {"date", "postings"} : \E date : \E tagged :
             Begin(s, [op |-> "patch", step |-> "read", src |-> t,
                       given |-> given, date |-> date, tagged |-> tagged])
      BY <2>4 DEF BeginPatch
    <3>2. tx[t].status = "pending" BY <2>4 DEF BeginPatch, Editable
    <3> QED BY <3>1, <3>2, BeginKeepsSources
  <2>5. ASSUME NEW t \in Tx, BeginRectify(s, t) PROVE SourceInv'
    <3>1. PICK name \in Names :
             Begin(s, [op |-> "rectify", src |-> t, seen |-> tx[t], name |-> name])
      BY <2>5 DEF BeginRectify
    <3>2. InLedger(t) BY <2>5 DEF BeginRectify
    <3> QED BY <3>1, <3>2, BeginKeepsSources
  <2>6. ASSUME NEW t \in Tx, BeginDelete(s, t) PROVE SourceInv'
    <3>1. Begin(s, [op |-> "delete", src |-> t]) BY <2>6 DEF BeginDelete
    <3>2. tx[t].status = "pending" BY <2>6 DEF BeginDelete, Editable
    <3> QED BY <3>1, <3>2, BeginKeepsSources
  <2>7. CASE CheckPeriod(s) \/ MergePostings(s)
    <3>1. \A z \in Slots : /\ req'[z].op = req[z].op
                           /\ req[z].op \in {"void", "replace", "rectify", "patch", "delete"} =>
                                 req'[z].src = req[z].src
                           /\ req[z].op \in {"void", "replace"} =>
                                 req'[z].seen = req[z].seen
      <4>1. req[s] \in Request BY DEF VoidInv, TypeOK
      <4>2. CASE CheckPeriod(s)
        BY <4>1, <4>2, StepKeeps DEF CheckPeriod, VoidInv, TypeOK
      <4>3. CASE MergePostings(s)
        <5> DEFINE b == IF "postings" \in req[s].given THEN req[s].tagged
                          ELSE tx[req[s].src].tagged
        <5>1. req'[s] = [req[s] EXCEPT !.step = "merged", !.tagged = b]
          BY <4>3 DEF MergePostings, VoidInv, TypeOK
        <5>2. \A z \in Slots \ {s} : req'[z] = req[z]
          BY <4>3 DEF MergePostings, VoidInv, TypeOK
        <5>3. req[s].op = "patch" BY <4>3 DEF MergePostings
        <5>4. req'[s].op = req[s].op /\ req'[s].src = req[s].src
          <6> HIDE DEF b
          <6> QED BY <4>1, <5>1, <5>3, StepKeeps
        <5> HIDE DEF b
        <5>5. ASSUME NEW z \in Slots
              PROVE  /\ req'[z].op = req[z].op
                     /\ req[z].op \in {"void", "replace", "rectify", "patch", "delete"} =>
                           req'[z].src = req[z].src
                     /\ req[z].op \in {"void", "replace"} =>
                           req'[z].seen = req[z].seen
          <6>1. CASE z = s BY <6>1, <5>3, <5>4
          <6>2. CASE z # s BY <6>2, <5>2
          <6> QED BY <6>1, <6>2
        <5> QED BY <5>5
      <4> QED BY <2>7, <4>2, <4>3
    <3> QED BY <1>1, <3>1 DEF VoidInv, SourceInv, InLedger
  <2> QED BY <2>1, <2>2, <2>3, <2>4, <2>5, <2>6, <2>7
<1> QED BY <1>1, <1>2, NoCommit DEF VoidInv

(* What the commits have in common: one row each, and the request is over. *)
LEMMA CommitVoidInv ==
    ASSUME VoidInv, TypeOK', NEW s \in Slots, NEW rows, Commit(s, rows),
           LinkInv', ShadowFollowsMain', Immutable, StaysOut
    PROVE  VoidInv' /\ Immutable
<1>1. req' = [req EXCEPT ![s] = Idle] BY DEF Commit
<1>2. SourceInv' BY <1>1, SourcesKept DEF VoidInv
<1> QED BY <1>2 DEF VoidInv

LEMMA CreateVoidInv ==
    ASSUME VoidInv, TypeOK', NEW s \in Slots, CommitCreate(s)
    PROVE  VoidInv' /\ Immutable
<1> DEFINE row == Entry(req[s].date, req[s].tagged, req[s].name, NoTx)
<1>1. PICK n \in Tx : Fresh(n) /\ Commit(s, [tx EXCEPT ![n] = row])
  BY DEF CommitCreate
<1>2. req[s].op = "create" /\ req[s] \in Request
  BY DEF CommitCreate, VoidInv, TypeOK
<1>3. row \in Row BY <1>2, RequestFields, EntryTyped
<1>4. /\ row.reverses = NoTx /\ row.voidedBy = NoTx /\ row.status = "posted"
      /\ row.shadow = IF row.tagged THEN "posted" ELSE "none"
  BY DEF Entry
<1>5. tx[n].status = "absent" BY <1>1 DEF Fresh, Tx
<1>6. tx' = [tx EXCEPT ![n] = row] BY <1>1 DEF Commit
<1> HIDE DEF row
<1>7. row.shadow # "voided" /\ (row.tagged => row.shadow # "none") BY <1>4
<1>8. LinkInv' /\ ShadowFollowsMain' /\ Immutable /\ StaysOut
  BY <1>3, <1>4, <1>5, <1>6, <1>7, InsertEffect DEF VoidInv
<1> QED BY <1>1, <1>8, CommitVoidInv

LEMMA ImportVoidInv ==
    ASSUME VoidInv, TypeOK', NEW s \in Slots, Import(s)
    PROVE  VoidInv' /\ Immutable
<1>1. PICK n \in Tx, d \in Periods, name \in Names, st \in {"pending", "posted"} :
         Fresh(n) /\ tx' = [tx EXCEPT ![n] = Imported(d, st, name)]
  BY DEF Import
<1> DEFINE row == Imported(d, st, name)
<1>2. row \in Row BY ImportedTyped
<1>3. /\ row.reverses = NoTx /\ row.voidedBy = NoTx
      /\ row.shadow = "none" /\ row.tagged = FALSE
  BY DEF Imported, Entry
<1>4. tx[n].status = "absent" /\ tx' = [tx EXCEPT ![n] = row]
  BY <1>1 DEF Fresh, Tx
<1> HIDE DEF row
<1>5. LinkInv' /\ ShadowFollowsMain' /\ Immutable /\ StaysOut
  BY <1>2, <1>3, <1>4, InsertEffect DEF VoidInv
<1>6. req' = req BY DEF Import
<1>7. SourceInv' BY <1>5, <1>6, SourcesKept DEF VoidInv
<1> QED BY <1>5, <1>7 DEF VoidInv

LEMMA VoidVoidInv ==
    ASSUME VoidInv, TypeOK', NEW s \in Slots, CommitVoid(s)
    PROVE  VoidInv' /\ Immutable
<1> DEFINE src == req[s].src
<1>1. PICK r \in Tx :
         /\ Fresh(r)
         /\ Commit(s, [tx EXCEPT ![r] = Reversal(src, req[s].seen, req[s].on),
                                 ![src] = VoidedRow(@, r)])
  BY DEF CommitVoid
<1>2. req[s].op = "void" /\ req[s] \in Request BY DEF CommitVoid, VoidInv, TypeOK
<1>3. src \in Tx /\ req[s].seen \in Row BY <1>2, RequestFields
<1>4. InLedger(src) /\ req[s].seen.flipped = tx[src].flipped
  BY <1>2 DEF VoidInv, SourceInv
<1>5. tx[r].status = "absent" BY <1>1 DEF Fresh, Tx
<1>10. r # src BY <1>4, <1>5 DEF InLedger
<1>6. /\ tx'[r] = Reversal(src, req[s].seen, req[s].on)
      /\ tx'[src] = VoidedRow(tx[src], r)
      /\ \A t \in Tx \ {r, src} : tx'[t] = tx[t]
  BY <1>1, <1>3, <1>10 DEF Commit, VoidInv, TypeOK
<1> HIDE DEF src
<1>7. LinkInv' /\ ShadowFollowsMain' /\ Immutable /\ StaysOut
  BY <1>3, <1>4, <1>5, <1>6, VoidEffect DEF VoidInv
<1> QED BY <1>1, <1>7, CommitVoidInv

LEMMA ReplaceVoidInv ==
    ASSUME VoidInv, TypeOK', NEW s \in Slots, CommitReplace(s)
    PROVE  VoidInv' /\ Immutable
<1> DEFINE src == req[s].src
           new == Entry(req[s].date, req[s].tagged, req[s].name, src)
<1>1. PICK r \in Tx :
         /\ Fresh(r) /\ r + 1 \in Tx
         /\ Commit(s, [tx EXCEPT ![r] = Reversal(src, req[s].seen, req[s].on),
                                 ![r + 1] = new,
                                 ![src] = VoidedRow(@, r)])
  BY DEF CommitReplace
<1>2. req[s].op = "replace" /\ req[s] \in Request
  BY DEF CommitReplace, VoidInv, TypeOK
<1>3. src \in Tx /\ req[s].seen \in Row /\ req[s].tagged \in BOOLEAN
  BY <1>2, RequestFields
<1>4. InLedger(src) /\ req[s].seen.flipped = tx[src].flipped
  BY <1>2 DEF VoidInv, SourceInv
<1>5. r \in Int /\ r + 1 \in Tx BY <1>1 DEF Tx
<1>6. tx[r].status = "absent" /\ tx[r + 1].status = "absent"
  BY <1>1, <1>5 DEF Fresh
<1>7. r # src /\ r + 1 # src /\ r # r + 1 BY <1>4, <1>5, <1>6 DEF InLedger
<1>8. /\ tx'[r] = Reversal(src, req[s].seen, req[s].on)
      /\ tx'[src] = VoidedRow(tx[src], r)
      /\ tx'[r + 1] = new
      /\ \A t \in Tx \ {r, r + 1, src} : tx'[t] = tx[t]
  <2> HIDE DEF new
  <2> QED BY <1>1, <1>3, <1>5, <1>7 DEF Commit, VoidInv, TypeOK
<1>9. /\ new.status = "posted" /\ new.reverses = NoTx /\ new.voidedBy = NoTx
      /\ new.shadow = IF new.tagged THEN "posted" ELSE "none"
  BY DEF Entry
<1> HIDE DEF src, new
<1>10. \A t \in Tx \ {r, src} : tx'[t] # tx[t] =>
          /\ tx[t].status = "absent" /\ tx'[t].status = "posted"
          /\ tx'[t].reverses = NoTx /\ tx'[t].voidedBy = NoTx
          /\ tx'[t].shadow = IF tx'[t].tagged THEN "posted" ELSE "none"
  BY <1>6, <1>8, <1>9
<1>11. LinkInv' /\ ShadowFollowsMain' /\ Immutable /\ StaysOut
  BY <1>3, <1>4, <1>6, <1>8, <1>10, VoidEffect DEF VoidInv
<1> QED BY <1>1, <1>11, CommitVoidInv

LEMMA PatchVoidInv ==
    ASSUME VoidInv, TypeOK', NEW s \in Slots, CommitPatch(s)
    PROVE  VoidInv' /\ Immutable
<1> DEFINE src == req[s].src
           row == [tx[src] EXCEPT !.date = req[s].date, !.tagged = req[s].tagged]
<1>1. Exists(src) /\ Commit(s, [tx EXCEPT ![src] = row]) BY DEF CommitPatch
<1>2. req[s].op = "patch" /\ req[s] \in Request
  BY DEF CommitPatch, VoidInv, TypeOK
<1>3. src \in Tx BY <1>2, RequestFields
<1>4. tx[src].status = "pending"
  BY <1>1, <1>2 DEF Exists, VoidInv, SourceInv
<1>5. tx[src] \in Row BY <1>3 DEF VoidInv, TypeOK
<1>6. /\ row.status = tx[src].status /\ row.voidedBy = tx[src].voidedBy
      /\ row.shadow = tx[src].shadow
  BY <1>5 DEF Row
<1>7. tx' = [tx EXCEPT ![src] = row] BY <1>1 DEF Commit
<1> HIDE DEF src, row
<1>8. tx'[src] = row /\ \A t \in Tx \ {src} : tx'[t] = tx[t]
  BY <1>3, <1>7 DEF VoidInv, TypeOK
<1>9. LinkInv' /\ ShadowFollowsMain' /\ Immutable /\ StaysOut
  BY <1>3, <1>4, <1>6, <1>8, DraftEffect DEF VoidInv
<1> QED BY <1>1, <1>9, CommitVoidInv

LEMMA DeleteVoidInv ==
    ASSUME VoidInv, TypeOK', NEW s \in Slots, CommitDelete(s)
    PROVE  VoidInv' /\ Immutable
<1> DEFINE src == req[s].src
           row == [tx[src] EXCEPT !.status = "deleted"]
<1>1. Exists(src) /\ Commit(s, [tx EXCEPT ![src] = row]) BY DEF CommitDelete
<1>2. req[s].op = "delete" /\ req[s] \in Request
  BY DEF CommitDelete, VoidInv, TypeOK
<1>3. src \in Tx BY <1>2, RequestFields
<1>4. tx[src].status = "pending"
  BY <1>1, <1>2 DEF Exists, VoidInv, SourceInv
<1>5. tx[src] \in Row BY <1>3 DEF VoidInv, TypeOK
<1>6. /\ row.status = "deleted" /\ row.voidedBy = tx[src].voidedBy
      /\ row.shadow = tx[src].shadow
  BY <1>5 DEF Row
<1>7. tx' = [tx EXCEPT ![src] = row] BY <1>1 DEF Commit
<1> HIDE DEF src, row
<1>8. tx'[src] = row /\ \A t \in Tx \ {src} : tx'[t] = tx[t]
  BY <1>3, <1>7 DEF VoidInv, TypeOK
<1>9. LinkInv' /\ ShadowFollowsMain' /\ Immutable /\ StaysOut
  BY <1>3, <1>4, <1>6, <1>8, DraftEffect DEF VoidInv
<1> QED BY <1>1, <1>9, CommitVoidInv

LEMMA RectifyVoidInv ==
    ASSUME VoidInv, TypeOK', NEW s \in Slots, CommitRectify(s)
    PROVE  VoidInv' /\ Immutable
<1> DEFINE t == req[s].src
           r == req[s].seen.voidedBy
           renamed == [tx EXCEPT ![t] = [@ EXCEPT !.desc = Typed(req[s].name)]]
           both == [renamed EXCEPT ![r] = [@ EXCEPT !.desc = Wrap(Typed(Redacted))]]
<1>1. \/ r # NoTx /\ Commit(s, both)
      \/ Commit(s, renamed)
  BY DEF CommitRectify
<1>2. req[s].op = "rectify" /\ req[s] \in Request
  BY DEF CommitRectify, VoidInv, TypeOK
<1>3. t \in Tx /\ r \in Tx \cup {NoTx} BY <1>2, RequestFields DEF Row
<1>4. tx \in [Tx -> Row] BY DEF VoidInv, TypeOK
<1>5. \A x \in Row : /\ \E d : x = [x EXCEPT !.desc = d]
                     /\ \A c : \A d : [[x EXCEPT !.desc = c] EXCEPT !.desc = d]
                                     = [x EXCEPT !.desc = d]
  <2>1. \A x \in Row : x = [x EXCEPT !.desc = x.desc] BY DEF Row
  <2> QED BY <2>1 DEF Row
<1>6. \A u \in Tx : \E d : renamed[u] = [tx[u] EXCEPT !.desc = d]
  BY <1>3, <1>4, <1>5
<1>7. ASSUME r \in Tx, NEW u \in Tx PROVE \E d : both[u] = [tx[u] EXCEPT !.desc = d]
  <2> DEFINE c == Typed(req[s].name)
             e == Wrap(Typed(Redacted))
  <2>1. both[u] = IF u = r THEN [renamed[u] EXCEPT !.desc = e] ELSE renamed[u]
    BY <1>3, <1>4, <1>7
  <2>3. tx[u] \in Row BY <1>4
  <2>4. renamed[u] = IF u = t THEN [tx[u] EXCEPT !.desc = c] ELSE tx[u]
    BY <1>3, <1>4
  <2> HIDE DEF both, renamed, c, e
  <2>5. CASE u = r /\ u = t
    <3>1. both[u] = [[tx[u] EXCEPT !.desc = c] EXCEPT !.desc = e]
      BY <2>1, <2>4, <2>5
    <3>2. [[tx[u] EXCEPT !.desc = c] EXCEPT !.desc = e] = [tx[u] EXCEPT !.desc = e]
      BY <2>3, <1>5
    <3> QED BY <3>1, <3>2
  <2>6. CASE u # r BY <2>1, <2>6, <1>6
  <2>7. CASE u = r /\ u # t BY <2>1, <2>3, <2>4, <2>7
  <2> QED BY <2>5, <2>6, <2>7
<1>11. tx' = renamed \/ (r \in Tx /\ tx' = both) BY <1>1, <1>3 DEF Commit
<1>8. \A u \in Tx : \E d : tx'[u] = [tx[u] EXCEPT !.desc = d]
  <2> HIDE DEF both, renamed, r
  <2> QED BY <1>6, <1>7, <1>11
<1>9. LinkInv' /\ ShadowFollowsMain' /\ Immutable /\ StaysOut
  BY <1>8, RenameEffect DEF VoidInv
<1> QED BY <1>1, <1>9, CommitVoidInv

(* A step of any request, or of the periods and the pool. *)
LEMMA NextVoidInv == VoidInv /\ [Next]_vars => VoidInv' /\ Immutable
<1> SUFFICES ASSUME VoidInv, [Next]_vars PROVE VoidInv' /\ Immutable OBVIOUS
<1>1. TypeOK' BY NextTypeOK DEF VoidInv
<1>2. CASE UNCHANGED vars
  <2>1. tx' = tx /\ req' = req BY <1>2 DEF vars
  <2>2. SourceInv' BY <2>1 DEF VoidInv, SourceInv, InLedger
  <2> QED BY <1>1, <2>1, <2>2, NoCommit DEF VoidInv
<1>3. ASSUME NEW s \in Slots,
             \/ Abort(s) \/ DeactivatePool(s)
             \/ \E p \in Periods : ClosePeriod(s, p) \/ ReopenPeriod(s, p)
      PROVE  VoidInv' /\ Immutable
  <2>1. tx' = tx /\ (req' = [req EXCEPT ![s] = Idle] \/ req' = req)
    BY <1>3 DEF Abort, DeactivatePool, ClosePeriod, ReopenPeriod
  <2>2. LinkInv' /\ ShadowFollowsMain' /\ Immutable /\ StaysOut BY <2>1, NoCommit
  <2>3. SourceInv' BY <2>1, <2>2, SourcesKept DEF VoidInv
  <2> QED BY <1>1, <2>2, <2>3 DEF VoidInv
<1>4. ASSUME NEW s \in Slots,
             \/ BeginCreate(s) \/ CheckPeriod(s) \/ MergePostings(s)
             \/ \E t \in Tx : \/ BeginVoid(s, t) \/ BeginReplace(s, t)
                              \/ BeginPatch(s, t) \/ BeginRectify(s, t)
                              \/ BeginDelete(s, t)
      PROVE  VoidInv' /\ Immutable
  BY <1>1, <1>4, ReadVoidInv
<1>5. ASSUME NEW s \in Slots, CommitCreate(s) PROVE VoidInv' /\ Immutable
  BY <1>1, <1>5, CreateVoidInv
<1>6. ASSUME NEW s \in Slots, CommitVoid(s) PROVE VoidInv' /\ Immutable
  BY <1>1, <1>6, VoidVoidInv
<1>7. ASSUME NEW s \in Slots, CommitReplace(s) PROVE VoidInv' /\ Immutable
  BY <1>1, <1>7, ReplaceVoidInv
<1>8. ASSUME NEW s \in Slots, CommitPatch(s) PROVE VoidInv' /\ Immutable
  BY <1>1, <1>8, PatchVoidInv
<1>9. ASSUME NEW s \in Slots, CommitRectify(s) PROVE VoidInv' /\ Immutable
  BY <1>1, <1>9, RectifyVoidInv
<1>10. ASSUME NEW s \in Slots, CommitDelete(s) PROVE VoidInv' /\ Immutable
  BY <1>1, <1>10, DeleteVoidInv
<1>11. ASSUME NEW s \in Slots, Import(s) PROVE VoidInv' /\ Immutable
  BY <1>1, <1>11, ImportVoidInv
<1> QED
  BY <1>2, <1>3, <1>4, <1>5, <1>6, <1>7, <1>8, <1>9, <1>10, <1>11 DEF Next

LEMMA VoidInvHolds == Spec => []VoidInv
<1>1. Init => VoidInv BY InitVoidInv
<1>2. VoidInv /\ [Next]_vars => VoidInv' BY NextVoidInv
<1> QED BY <1>1, <1>2, PTL DEF Spec

(* However many requests race, a row is linked exactly when a reversal of   *)
(* it is in the ledger, and the link names such a reversal, of opposite     *)
(* sign.                                                                    *)
THEOREM VoidLinks == Spec => []VoidLinkIsReversal
<1>1. VoidInv => VoidLinkIsReversal
  <2> SUFFICES ASSUME VoidInv, NEW t \in Tx
               PROVE  /\ Voided(t) <=> Reversals(t) # {}
                      /\ Voided(t) =>
                            /\ InLedger(t)
                            /\ tx[t].voidedBy \in Reversals(t)
                            /\ tx[tx[t].voidedBy].flipped # tx[t].flipped
    BY DEF VoidLinkIsReversal
  <2>1. tx[t].voidedBy \in Tx \cup {NoTx} BY DEF VoidInv, TypeOK, Row
  <2>2. Voided(t) => /\ InLedger(t)
                     /\ tx[t].voidedBy \in Reversals(t)
                     /\ tx[tx[t].voidedBy].flipped # tx[t].flipped
    BY <2>1 DEF VoidInv, LinkInv, Reversals, Voided
  <2>3. ASSUME NEW r \in Tx, r \in Reversals(t) PROVE Voided(t)
    BY <2>3, NoTxNotInTx DEF VoidInv, LinkInv, Reversals
  <2> QED BY <2>2, <2>3 DEF Reversals
<1> QED BY <1>1, VoidInvHolds, PTL

(* The shadow of a tagged entry counts in its pool exactly while the entry  *)
(* is not voided, however many requests race.                               *)
THEOREM ShadowsFollow == Spec => []ShadowFollowsMain
<1>1. VoidInv => ShadowFollowsMain BY DEF VoidInv
<1> QED BY <1>1, VoidInvHolds, PTL

(* A row in the ledger changes nothing but its description, its link and    *)
(* its shadow, and is never un-voided: the status PATCH and DELETE read     *)
(* before their write cannot have become POSTED since.                      *)
THEOREM PostedImmutable == Spec => PostedIsImmutable
<1> DEFINE A == \A t \in Tx :
          InLedger(t) =>
              /\ tx'[t] = [tx[t] EXCEPT !.desc = tx'[t].desc,
                                        !.voidedBy = tx'[t].voidedBy,
                                        !.shadow = tx'[t].shadow]
              /\ Voided(t) => tx'[t].voidedBy # NoTx
              /\ tx[t].shadow = "voided" => tx'[t].shadow = "voided"
<1>1. VoidInv /\ [Next]_vars => [A]_vars
  <2>1. Immutable <=> A BY DEF Immutable
  <2> HIDE DEF A
  <2> QED BY <2>1, NextVoidInv
<1>2. PostedIsImmutable <=> [][A]_vars BY DEF PostedIsImmutable
<1> HIDE DEF A
<1> QED BY <1>1, <1>2, VoidInvHolds, PTL DEF Spec

-----------------------------------------------------------------------------
(* A replacement stands right behind the reversal it was written with.      *)

BackedInv ==
    \A c \in Tx : InLedger(c) /\ tx[c].replaces # NoTx =>
        c - 1 \in Tx /\ InLedger(c - 1) /\ tx[c - 1].reverses = tx[c].replaces

(* A replacement that joins the ledger does so in this way. *)
JoinsBacked ==
    \A c \in Tx : ~InLedger(c) /\ tx'[c].status = "posted" =>
        \/ tx'[c].replaces = NoTx
        \/ /\ c - 1 \in Tx /\ tx'[c - 1].status = "posted"
           /\ tx'[c - 1].reverses = tx'[c].replaces

(* A row of the ledger keeps every field but the description, the link and  *)
(* the shadow.                                                              *)
LEMMA FieldsKept ==
    ASSUME TypeOK, Immutable, NEW t \in Tx, InLedger(t)
    PROVE  /\ tx'[t].status = "posted" /\ tx'[t].flipped = tx[t].flipped
           /\ tx'[t].reverses = tx[t].reverses /\ tx'[t].replaces = tx[t].replaces
           /\ tx'[t].tagged = tx[t].tagged /\ tx'[t].date = tx[t].date
           /\ tx'[t].origin = tx[t].origin
<1> DEFINE y == [tx[t] EXCEPT !.desc = tx'[t].desc, !.voidedBy = tx'[t].voidedBy,
                              !.shadow = tx'[t].shadow]
<1>1. tx[t] \in Row BY DEF TypeOK
<1>2. /\ y.status = tx[t].status /\ y.flipped = tx[t].flipped
      /\ y.reverses = tx[t].reverses /\ y.replaces = tx[t].replaces
      /\ y.tagged = tx[t].tagged /\ y.date = tx[t].date /\ y.origin = tx[t].origin
  BY <1>1 DEF Row
<1>3. tx'[t] = y BY DEF Immutable
<1> HIDE DEF y
<1> QED BY <1>2, <1>3 DEF InLedger

LEMMA BackedByJoining ==
    ASSUME TypeOK, BackedInv, Immutable, JoinsBacked
    PROVE  BackedInv'
<1> SUFFICES ASSUME NEW c \in Tx, tx'[c].status = "posted", tx'[c].replaces # NoTx
             PROVE  /\ c - 1 \in Tx /\ tx'[c - 1].status = "posted"
                    /\ tx'[c - 1].reverses = tx'[c].replaces
  BY DEF BackedInv, InLedger
<1>1. CASE InLedger(c)
  <2>1. tx'[c].replaces = tx[c].replaces BY <1>1, FieldsKept
  <2>2. c - 1 \in Tx /\ InLedger(c - 1) /\ tx[c - 1].reverses = tx[c].replaces
    BY <1>1, <2>1 DEF BackedInv
  <2>3. PICK b \in Tx : b = c - 1 BY <2>2
  <2>4. tx'[b].status = "posted" /\ tx'[b].reverses = tx[b].reverses
    BY <2>2, <2>3, FieldsKept
  <2> QED BY <2>1, <2>2, <2>3, <2>4
<1>2. CASE ~InLedger(c) BY <1>2 DEF JoinsBacked
<1> QED BY <1>1, <1>2

(* What each commit writes, row by row. *)
LEMMA CreateRows ==
    ASSUME VoidInv, NEW s \in Slots, CommitCreate(s)
    PROVE  \E n \in Tx :
              /\ tx[n].status = "absent"
              /\ tx'[n] = Entry(req[s].date, req[s].tagged, req[s].name, NoTx)
              /\ \A t \in Tx \ {n} : tx'[t] = tx[t]
<1> DEFINE row == Entry(req[s].date, req[s].tagged, req[s].name, NoTx)
<1>1. PICK n \in Tx : Fresh(n) /\ Commit(s, [tx EXCEPT ![n] = row])
  BY DEF CommitCreate
<1>2. tx[n].status = "absent" BY <1>1 DEF Fresh, Tx
<1> HIDE DEF row
<1>3. tx'[n] = row /\ \A t \in Tx \ {n} : tx'[t] = tx[t]
  BY <1>1 DEF Commit, VoidInv, TypeOK
<1> QED BY <1>2, <1>3 DEF row

LEMMA ImportRows ==
    ASSUME VoidInv, NEW s \in Slots, Import(s)
    PROVE  \E n \in Tx, d \in Periods, name \in Names, st \in {"pending", "posted"} :
              /\ tx[n].status = "absent"
              /\ tx'[n] = Imported(d, st, name)
              /\ \A t \in Tx \ {n} : tx'[t] = tx[t]
<1>1. PICK n \in Tx, d \in Periods, name \in Names, st \in {"pending", "posted"} :
         Fresh(n) /\ tx' = [tx EXCEPT ![n] = Imported(d, st, name)]
  BY DEF Import
<1>2. tx[n].status = "absent" BY <1>1 DEF Fresh, Tx
<1>3. tx'[n] = Imported(d, st, name) /\ \A t \in Tx \ {n} : tx'[t] = tx[t]
  BY <1>1 DEF VoidInv, TypeOK
<1> QED BY <1>2, <1>3

LEMMA VoidRows ==
    ASSUME VoidInv, NEW s \in Slots, CommitVoid(s)
    PROVE  /\ req[s].src \in Tx /\ InLedger(req[s].src)
           /\ req[s].seen \in Row /\ req[s].on \in Periods
           /\ \E r \in Tx :
                 /\ tx[r].status = "absent" /\ r # req[s].src
                 /\ tx'[r] = Reversal(req[s].src, req[s].seen, req[s].on)
                 /\ tx'[req[s].src] = VoidedRow(tx[req[s].src], r)
                 /\ \A t \in Tx \ {r, req[s].src} : tx'[t] = tx[t]
<1> DEFINE src == req[s].src
<1>1. PICK r \in Tx :
         /\ Fresh(r)
         /\ Commit(s, [tx EXCEPT ![r] = Reversal(src, req[s].seen, req[s].on),
                                 ![src] = VoidedRow(@, r)])
  BY DEF CommitVoid
<1>2. req[s].op = "void" /\ req[s] \in Request BY DEF CommitVoid, VoidInv, TypeOK
<1>3. src \in Tx /\ req[s].seen \in Row /\ req[s].on \in Periods
  BY <1>2, RequestFields
<1>4. InLedger(src) BY <1>2 DEF VoidInv, SourceInv
<1>5. tx[r].status = "absent" BY <1>1 DEF Fresh, Tx
<1>6. r # src BY <1>4, <1>5 DEF InLedger
<1>7. /\ tx'[r] = Reversal(src, req[s].seen, req[s].on)
      /\ tx'[src] = VoidedRow(tx[src], r)
      /\ \A t \in Tx \ {r, src} : tx'[t] = tx[t]
  BY <1>1, <1>3, <1>6 DEF Commit, VoidInv, TypeOK
<1> QED BY <1>3, <1>4, <1>5, <1>6, <1>7

LEMMA ReplaceRows ==
    ASSUME VoidInv, NEW s \in Slots, CommitReplace(s)
    PROVE  /\ req[s].src \in Tx /\ InLedger(req[s].src) /\ req[s].seen \in Row
           /\ req[s].on \in Periods /\ req[s].date \in Periods
           /\ req[s].tagged \in BOOLEAN
           /\ \E r \in Tx :
                 /\ r + 1 \in Tx /\ r # r + 1 /\ (r + 1) - 1 = r
                 /\ tx[r].status = "absent" /\ tx[r + 1].status = "absent"
                 /\ r # req[s].src /\ r + 1 # req[s].src
                 /\ tx'[r] = Reversal(req[s].src, req[s].seen, req[s].on)
                 /\ tx'[req[s].src] = VoidedRow(tx[req[s].src], r)
                 /\ tx'[r + 1] = Entry(req[s].date, req[s].tagged, req[s].name,
                                       req[s].src)
                 /\ \A t \in Tx \ {r, r + 1, req[s].src} : tx'[t] = tx[t]
<1> DEFINE src == req[s].src
           new == Entry(req[s].date, req[s].tagged, req[s].name, src)
<1>1. PICK r \in Tx :
         /\ Fresh(r) /\ r + 1 \in Tx
         /\ Commit(s, [tx EXCEPT ![r] = Reversal(src, req[s].seen, req[s].on),
                                 ![r + 1] = new,
                                 ![src] = VoidedRow(@, r)])
  BY DEF CommitReplace
<1>2. req[s].op = "replace" /\ req[s] \in Request
  BY DEF CommitReplace, VoidInv, TypeOK
<1>3. /\ src \in Tx /\ req[s].seen \in Row /\ req[s].tagged \in BOOLEAN
      /\ req[s].on \in Periods /\ req[s].date \in Periods
  BY <1>2, RequestFields
<1>4. InLedger(src) BY <1>2 DEF VoidInv, SourceInv
<1>5. r \in Int /\ r + 1 \in Tx BY <1>1 DEF Tx
<1>6. tx[r].status = "absent" /\ tx[r + 1].status = "absent"
  BY <1>1, <1>5 DEF Fresh
<1>7. r # src /\ r + 1 # src /\ r # r + 1 /\ (r + 1) - 1 = r
  BY <1>4, <1>5, <1>6 DEF InLedger
<1>8. /\ tx'[r] = Reversal(src, req[s].seen, req[s].on)
      /\ tx'[src] = VoidedRow(tx[src], r)
      /\ tx'[r + 1] = new
      /\ \A t \in Tx \ {r, r + 1, src} : tx'[t] = tx[t]
  <2> HIDE DEF new
  <2> QED BY <1>1, <1>3, <1>5, <1>7 DEF Commit, VoidInv, TypeOK
<1> QED BY <1>3, <1>4, <1>5, <1>6, <1>7, <1>8

(* PATCH and DELETE work on a draft; a rectification renames. *)
LEMMA PatchRows ==
    ASSUME VoidInv, NEW s \in Slots, CommitPatch(s)
    PROVE  /\ req[s].src \in Tx /\ tx[req[s].src].status = "pending"
           /\ req[s].date \in Periods
           /\ tx'[req[s].src] = [tx[req[s].src] EXCEPT !.date = req[s].date,
                                                       !.tagged = req[s].tagged]
           /\ \A t \in Tx \ {req[s].src} : tx'[t] = tx[t]
<1> DEFINE src == req[s].src
           row == [tx[src] EXCEPT !.date = req[s].date, !.tagged = req[s].tagged]
<1>1. Exists(src) /\ Commit(s, [tx EXCEPT ![src] = row]) BY DEF CommitPatch
<1>2. req[s].op = "patch" /\ req[s] \in Request
  BY DEF CommitPatch, VoidInv, TypeOK
<1>3. src \in Tx /\ req[s].date \in Periods BY <1>2, RequestFields
<1>4. tx[src].status = "pending"
  BY <1>1, <1>2 DEF Exists, VoidInv, SourceInv
<1> HIDE DEF row
<1>5. tx'[src] = row /\ \A t \in Tx \ {src} : tx'[t] = tx[t]
  BY <1>1, <1>3 DEF Commit, VoidInv, TypeOK
<1> QED BY <1>3, <1>4, <1>5 DEF row

LEMMA DeleteRows ==
    ASSUME VoidInv, NEW s \in Slots, CommitDelete(s)
    PROVE  /\ req[s].src \in Tx /\ tx[req[s].src].status = "pending"
           /\ tx'[req[s].src] = [tx[req[s].src] EXCEPT !.status = "deleted"]
           /\ \A t \in Tx \ {req[s].src} : tx'[t] = tx[t]
<1> DEFINE src == req[s].src
           row == [tx[src] EXCEPT !.status = "deleted"]
<1>1. Exists(src) /\ Commit(s, [tx EXCEPT ![src] = row]) BY DEF CommitDelete
<1>2. req[s].op = "delete" /\ req[s] \in Request
  BY DEF CommitDelete, VoidInv, TypeOK
<1>3. src \in Tx BY <1>2, RequestFields
<1>4. tx[src].status = "pending"
  BY <1>1, <1>2 DEF Exists, VoidInv, SourceInv
<1> HIDE DEF row
<1>5. tx'[src] = row /\ \A t \in Tx \ {src} : tx'[t] = tx[t]
  BY <1>1, <1>3 DEF Commit, VoidInv, TypeOK
<1> QED BY <1>3, <1>4, <1>5 DEF row

LEMMA RectifyRows ==
    ASSUME VoidInv, NEW s \in Slots, CommitRectify(s), NEW t \in Tx
    PROVE  /\ tx'[t].status = tx[t].status /\ tx'[t].date = tx[t].date
           /\ tx'[t].flipped = tx[t].flipped /\ tx'[t].tagged = tx[t].tagged
           /\ tx'[t].shadow = tx[t].shadow /\ tx'[t].voidedBy = tx[t].voidedBy
           /\ tx'[t].reverses = tx[t].reverses /\ tx'[t].replaces = tx[t].replaces
           /\ tx'[t].origin = tx[t].origin
<1> DEFINE q == req[s].src
           r == req[s].seen.voidedBy
           c == Typed(req[s].name)
           e == Wrap(Typed(Redacted))
           renamed == [tx EXCEPT ![q] = [@ EXCEPT !.desc = c]]
           both == [renamed EXCEPT ![r] = [@ EXCEPT !.desc = e]]
<1>1. \/ r # NoTx /\ Commit(s, both)
      \/ Commit(s, renamed)
  BY DEF CommitRectify
<1>2. req[s].op = "rectify" /\ req[s] \in Request
  BY DEF CommitRectify, VoidInv, TypeOK
<1>3. q \in Tx /\ r \in Tx \cup {NoTx} BY <1>2, RequestFields DEF Row
<1>4. tx \in [Tx -> Row] /\ tx[t] \in Row BY DEF VoidInv, TypeOK
<1>5. tx' = renamed \/ (r \in Tx /\ tx' = both) BY <1>1, <1>3 DEF Commit
<1> HIDE DEF c, e, r, q
<1>6. renamed[t] = IF t = q THEN [tx[t] EXCEPT !.desc = c] ELSE tx[t]
  BY <1>4
<1>7. r \in Tx => both[t] = IF t = r THEN [renamed[t] EXCEPT !.desc = e] ELSE renamed[t]
  BY <1>4
<1> HIDE DEF renamed, both
<1>8. \/ tx'[t] = tx[t]
      \/ \E d : tx'[t] = [tx[t] EXCEPT !.desc = d]
      \/ \E d, f : tx'[t] = [[tx[t] EXCEPT !.desc = d] EXCEPT !.desc = f]
  BY <1>5, <1>6, <1>7
<1> QED BY <1>4, <1>8 DEF Row

(* The steps that write no row. *)
LEMMA OtherRows ==
    ASSUME NEW s \in Slots,
           \/ Abort(s) \/ DeactivatePool(s)
           \/ \E p \in Periods : ClosePeriod(s, p) \/ ReopenPeriod(s, p)
           \/ BeginCreate(s) \/ CheckPeriod(s) \/ MergePostings(s)
           \/ \E t \in Tx : \/ BeginVoid(s, t) \/ BeginReplace(s, t)
                            \/ BeginPatch(s, t) \/ BeginRectify(s, t)
                            \/ BeginDelete(s, t)
    PROVE  tx' = tx
BY DEF Abort, DeactivatePool, ClosePeriod, ReopenPeriod, BeginCreate, CheckPeriod,
       MergePostings, BeginVoid, BeginReplace, BeginPatch, BeginRectify, BeginDelete, Begin

LEMMA JoinsAreBacked == VoidInv /\ [Next]_vars => JoinsBacked
<1> SUFFICES ASSUME VoidInv, [Next]_vars, NEW c \in Tx, ~InLedger(c),
                    tx'[c].status = "posted"
             PROVE  \/ tx'[c].replaces = NoTx
                    \/ /\ c - 1 \in Tx /\ tx'[c - 1].status = "posted"
                       /\ tx'[c - 1].reverses = tx'[c].replaces
  BY DEF JoinsBacked
<1>0. tx'[c] # tx[c] BY DEF InLedger
<1>1. CASE UNCHANGED vars BY <1>0, <1>1 DEF vars
<1>2. ASSUME NEW s \in Slots, CommitCreate(s) PROVE tx'[c].replaces = NoTx
  <2>1. PICK n \in Tx :
           /\ tx'[n] = Entry(req[s].date, req[s].tagged, req[s].name, NoTx)
           /\ \A t \in Tx \ {n} : tx'[t] = tx[t]
    BY <1>2, CreateRows
  <2>2. c = n BY <1>0, <2>1
  <2> QED BY <2>1, <2>2 DEF Entry
<1>3. ASSUME NEW s \in Slots, Import(s) PROVE tx'[c].replaces = NoTx
  <2>1. PICK n \in Tx, d \in Periods, name \in Names, st \in {"pending", "posted"} :
           /\ tx'[n] = Imported(d, st, name)
           /\ \A t \in Tx \ {n} : tx'[t] = tx[t]
    BY <1>3, ImportRows
  <2>2. c = n BY <1>0, <2>1
  <2> QED BY <2>1, <2>2 DEF Imported, Entry
<1>4. ASSUME NEW s \in Slots, CommitVoid(s) PROVE tx'[c].replaces = NoTx
  <2>1. PICK r \in Tx :
           /\ tx'[r] = Reversal(req[s].src, req[s].seen, req[s].on)
           /\ \A t \in Tx \ {r, req[s].src} : tx'[t] = tx[t]
    BY <1>4, VoidRows
  <2>2. c = r BY <1>0, <1>4, <2>1, VoidRows
  <2> QED BY <2>1, <2>2 DEF Reversal
<1>5. ASSUME NEW s \in Slots, CommitReplace(s)
      PROVE  \/ tx'[c].replaces = NoTx
             \/ /\ c - 1 \in Tx /\ tx'[c - 1].status = "posted"
                /\ tx'[c - 1].reverses = tx'[c].replaces
  <2>1. PICK r \in Tx :
           /\ r + 1 \in Tx /\ (r + 1) - 1 = r
           /\ tx'[r] = Reversal(req[s].src, req[s].seen, req[s].on)
           /\ tx'[r + 1] = Entry(req[s].date, req[s].tagged, req[s].name, req[s].src)
           /\ \A t \in Tx \ {r, r + 1, req[s].src} : tx'[t] = tx[t]
    BY <1>5, ReplaceRows
  <2>2. c \in {r, r + 1} BY <1>0, <1>5, <2>1, ReplaceRows
  <2>3. CASE c = r BY <2>1, <2>3 DEF Reversal
  <2>4. CASE c = r + 1 BY <2>1, <2>4 DEF Reversal, Entry
  <2> QED BY <2>2, <2>3, <2>4
<1>6. ASSUME NEW s \in Slots, CommitPatch(s) \/ CommitDelete(s) \/ CommitRectify(s)
      PROVE  FALSE
  <2>1. CASE CommitPatch(s)
    <3>1. c = req[s].src /\ tx[c] \in Row /\ tx[c].status = "pending"
      BY <1>0, <2>1, PatchRows DEF VoidInv, TypeOK
    <3>2. tx'[c].status = tx[c].status BY <2>1, <3>1, PatchRows DEF Row
    <3> QED BY <3>1, <3>2
  <2>2. CASE CommitDelete(s)
    <3>1. c = req[s].src /\ tx[c] \in Row BY <1>0, <2>2, DeleteRows DEF VoidInv, TypeOK
    <3>2. tx'[c].status = "deleted" BY <2>2, <3>1, DeleteRows DEF Row
    <3> QED BY <3>2
  <2>3. CASE CommitRectify(s) BY <2>3, RectifyRows DEF InLedger
  <2> QED BY <1>6, <2>1, <2>2, <2>3
<1> QED
  BY <1>0, <1>1, <1>2, <1>3, <1>4, <1>5, <1>6, OtherRows DEF Next

LEMMA BackedInvHolds == Spec => [](VoidInv /\ BackedInv)
<1>1. Init => BackedInv
  <2> SUFFICES ASSUME Init PROVE \A c \in Tx : ~InLedger(c) BY DEF BackedInv
  <2>1. PICK p \in Periods, n \in Names :
           tx = [t \in Tx |-> [Imported(p, "absent", n) EXCEPT !.origin = "api"]]
    BY DEF Init
  <2> QED BY <2>1 DEF Imported, Entry, InLedger
<1>2. VoidInv /\ BackedInv /\ [Next]_vars => BackedInv'
  BY NextVoidInv, JoinsAreBacked, BackedByJoining DEF VoidInv
<1> QED BY <1>1, <1>2, VoidInvHolds, PTL DEF Spec

(* However many requests race, a source never has more replacements in the  *)
(* ledger than it has reversals: each was committed with one of its own.    *)
THEOREM ReplacementsBacked == Spec => []ReplacementsAreBacked
<1>1. VoidInv /\ BackedInv => ReplacementsAreBacked
  <2> SUFFICES ASSUME BackedInv, NEW t \in Tx
               PROVE  Cardinality(Replacements(t)) <= Cardinality(Reversals(t))
    BY DEF ReplacementsAreBacked
  <2> DEFINE S == Replacements(t)
             R == Reversals(t)
             f == [c \in S |-> c - 1]
  <2>1. \A c \in S : c \in Int /\ c - 1 \in R
    BY NoTxNotInTx DEF BackedInv, Replacements, Reversals, Tx
  <2>2. f \in Injection(S, R)
    <3>1. f \in [S -> R] BY <2>1
    <3>2. ASSUME NEW a \in S, NEW b \in S, f[a] = f[b] PROVE a = b
      BY <2>1, <3>2
    <3> HIDE DEF f, S, R
    <3> QED BY <3>1, <3>2 DEF Injection, IsInjective
  <2>3. IsFiniteSet(R)
    <3>1. IsFiniteSet(Tx) BY LedgerAssumption, FS_Interval DEF Tx
    <3>2. R \in SUBSET Tx BY DEF Reversals
    <3> QED BY <3>1, <3>2, FS_Subset
  <2> HIDE DEF f, S, R
  <2>4. Cardinality(S) <= Cardinality(R) BY <2>2, <2>3, FS_Injection
  <2> QED BY <2>4 DEF S, R
<1> QED BY <1>1, BackedInvHolds, PTL

-----------------------------------------------------------------------------
(* Requests served one at a time.                                           *)

(* What a request has read is still so. *)
Knows(r) ==
    /\ r.op \in {"void", "replace"} => Voidable(r.src) /\ r.seen = tx[r.src]
    /\ r.op \in {"create", "void", "replace"} /\ r.step = "gated" =>
          \A d \in Dates(r) : period[d] = "open"
    /\ r.op \in {"patch", "delete"} => tx[r.src].status = "pending"

OneAtATime == \A s, z \in Slots : req[s] # Idle /\ req[z] # Idle => s = z

(* An entry spends, a reversal gives back what its source spent, and a      *)
(* source has one reversal, the one it is linked to.                        *)
Kept ==
    \A t \in Tx :
        /\ InLedger(t) /\ tx[t].reverses = NoTx => ~tx[t].flipped
        /\ tx[t].shadow = "posted" => tx[t].reverses = NoTx /\ tx[t].tagged
        /\ InLedger(t) /\ tx[t].reverses # NoTx =>
              /\ tx[t].tagged = tx[tx[t].reverses].tagged
              /\ tx[tx[t].reverses].voidedBy = t

Calm == OneAtATime /\ (\A s \in Slots : Knows(req[s])) /\ Kept

CalmInv == overlap \/ Calm

(* What one slot does. *)
Acts(s) ==
    \/ BeginCreate(s) \/ CheckPeriod(s) \/ MergePostings(s) \/ Abort(s)
    \/ \E t \in Tx : \/ BeginVoid(s, t) \/ BeginReplace(s, t)
                     \/ BeginPatch(s, t) \/ BeginRectify(s, t)
                     \/ BeginDelete(s, t)
    \/ CommitCreate(s) \/ CommitVoid(s) \/ CommitReplace(s)
    \/ CommitPatch(s) \/ CommitRectify(s) \/ CommitDelete(s)
    \/ Import(s) \/ DeactivatePool(s)
    \/ \E p \in Periods : ClosePeriod(s, p) \/ ReopenPeriod(s, p)

LEMMA NextActs == Next <=> \E s \in Slots : Acts(s)
BY DEF Next, Acts

(* Only the request of that slot moves. *)
LEMMA ActsAlone ==
    ASSUME TypeOK, NEW s \in Slots, Acts(s)
    PROVE  \A z \in Slots \ {s} : req'[z] = req[z]
<1>1. CASE \/ CommitCreate(s) \/ CommitVoid(s) \/ CommitReplace(s)
           \/ CommitPatch(s) \/ CommitRectify(s) \/ CommitDelete(s)
  <2>1. req' = [req EXCEPT ![s] = Idle]
    BY <1>1, Zenon DEF CommitCreate, CommitVoid, CommitReplace, CommitPatch,
       CommitRectify, CommitDelete, Commit
  <2> QED BY <2>1 DEF TypeOK
<1>2. CASE \/ Import(s) \/ DeactivatePool(s)
           \/ \E p \in Periods : ClosePeriod(s, p) \/ ReopenPeriod(s, p)
  BY <1>2 DEF Import, DeactivatePool, ClosePeriod, ReopenPeriod
<1>3. CASE \/ BeginCreate(s)
           \/ \E t \in Tx : \/ BeginVoid(s, t) \/ BeginReplace(s, t)
                            \/ BeginPatch(s, t) \/ BeginRectify(s, t)
                            \/ BeginDelete(s, t)
  <2>1. \E r : req' = [req EXCEPT ![s] = r]
    BY <1>3, Zenon DEF BeginCreate, BeginVoid, BeginReplace, BeginPatch,
       BeginRectify, BeginDelete, Begin
  <2> QED BY <2>1 DEF TypeOK
<1>4. CASE CheckPeriod(s) \/ MergePostings(s) \/ Abort(s)
  <2>1. \E r : req' = [req EXCEPT ![s] = r]
    BY <1>4, Zenon DEF CheckPeriod, MergePostings, Abort
  <2> QED BY <2>1 DEF TypeOK
<1> QED BY <1>1, <1>2, <1>3, <1>4 DEF Acts

(* So when nothing is met, nothing else is under way. *)
LEMMA OthersIdle ==
    ASSUME TypeOK, ~Meets, NEW s \in Slots, Acts(s)
    PROVE  \A z \in Slots \ {s} : req[z] = Idle /\ req'[z] = Idle
BY ActsAlone DEF Meets

(* The commits end the request; the one-step requests find and leave all    *)
(* slots idle.                                                              *)
LEMMA EndsIdle ==
    ASSUME TypeOK, ~Meets, NEW s \in Slots, Acts(s),
           \/ Abort(s)
           \/ CommitCreate(s) \/ CommitVoid(s) \/ CommitReplace(s)
           \/ CommitPatch(s) \/ CommitRectify(s) \/ CommitDelete(s)
           \/ Import(s) \/ DeactivatePool(s)
           \/ \E p \in Periods : ClosePeriod(s, p) \/ ReopenPeriod(s, p)
    PROVE  \A z \in Slots : req'[z] = Idle
<1>1. req'[s] = Idle
  <2>1. CASE \/ Abort(s)
             \/ CommitCreate(s) \/ CommitVoid(s) \/ CommitReplace(s)
             \/ CommitPatch(s) \/ CommitRectify(s) \/ CommitDelete(s)
    <3>1. req' = [req EXCEPT ![s] = Idle]
      BY <2>1, Zenon DEF Abort, CommitCreate, CommitVoid, CommitReplace, CommitPatch,
         CommitRectify, CommitDelete, Commit
    <3> QED BY <3>1 DEF TypeOK
  <2>2. CASE \/ Import(s) \/ DeactivatePool(s)
             \/ \E p \in Periods : ClosePeriod(s, p) \/ ReopenPeriod(s, p)
    BY <2>2 DEF Import, DeactivatePool, ClosePeriod, ReopenPeriod
  <2> QED BY <2>1, <2>2
<1> QED BY <1>1, OthersIdle

LEMMA IdleKnows ==
    ASSUME \A z \in Slots : req'[z] = Idle
    PROVE  OneAtATime' /\ \A z \in Slots : Knows(req[z])'
<1>1. Idle.op = "idle" BY DEF Idle
<1> QED BY <1>1 DEF OneAtATime, Knows

LEMMA ReadKnows ==
    ASSUME TypeOK, ~Meets, NEW s \in Slots, Acts(s), Knows(req[s])'
    PROVE  OneAtATime' /\ \A z \in Slots : Knows(req[z])'
<1>1. Idle.op = "idle" BY DEF Idle
<1>2. \A z \in Slots \ {s} : req'[z] = Idle BY OthersIdle
<1> QED BY <1>1, <1>2 DEF OneAtATime, Knows

(* The reads. *)
LEMMA BeginsKnow ==
    ASSUME TypeOK, NEW s \in Slots,
           \/ BeginCreate(s)
           \/ \E t \in Tx : \/ BeginVoid(s, t) \/ BeginReplace(s, t)
                            \/ BeginPatch(s, t) \/ BeginRectify(s, t)
                            \/ BeginDelete(s, t)
    PROVE  Knows(req[s])'
<1>1. ASSUME NEW r, Begin(s, r),
             r.op \in {"void", "replace"} =>
                Voidable(r.src) /\ r.seen = tx[r.src] /\ r.step = "read",
             r.op = "create" => r.step = "read",
             r.op \in {"patch", "delete"} => tx[r.src].status = "pending"
      PROVE  Knows(req[s])'
  <2>1. req'[s] = r /\ tx' = tx BY <1>1 DEF Begin, TypeOK
  <2> QED BY <1>1, <2>1 DEF Knows, Voidable, InLedger, Voided
<1>2. CASE BeginCreate(s)
  <2>1. PICK date \in Periods, tagged \in BOOLEAN, name \in Names :
           Begin(s, [op |-> "create", step |-> "read", date |-> date,
                     tagged |-> tagged, name |-> name])
    BY <1>2 DEF BeginCreate
  <2> QED BY <1>1, <2>1
<1>3. ASSUME NEW t \in Tx, BeginVoid(s, t) PROVE Knows(req[s])'
  <2>1. PICK on \in Periods :
           Begin(s, [op |-> "void", step |-> "read", src |-> t,
                     seen |-> tx[t], on |-> on])
    BY <1>3 DEF BeginVoid
  <2>2. Voidable(t) BY <1>3 DEF BeginVoid
  <2> QED BY <1>1, <2>1, <2>2
<1>4. ASSUME NEW t \in Tx, BeginReplace(s, t) PROVE Knows(req[s])'
  <2>1. PICK on \in Periods, date \in Periods, tagged \in BOOLEAN, name \in Names :
           Begin(s, [op |-> "replace", step |-> "read", src |-> t,
                     seen |-> tx[t], on |-> on, date |-> date,
                     tagged |-> tagged, name |-> name])
    BY <1>4 DEF BeginReplace
  <2>2. Voidable(t) BY <1>4 DEF BeginReplace
  <2> QED BY <1>1, <2>1, <2>2
<1>5. ASSUME NEW t \in Tx, BeginPatch(s, t) PROVE Knows(req[s])'
  <2>1. PICK given \in SUBSET {"date", "postings"} : \E date : \E tagged :
           Begin(s, [op |-> "patch", step |-> "read", src |-> t,
                     given |-> given, date |-> date, tagged |-> tagged])
    BY <1>5 DEF BeginPatch
  <2>2. tx[t].status = "pending" BY <1>5 DEF BeginPatch, Editable
  <2> QED BY <1>1, <2>1, <2>2
<1>6. ASSUME NEW t \in Tx, BeginRectify(s, t) PROVE Knows(req[s])'
  <2>1. PICK name \in Names :
           Begin(s, [op |-> "rectify", src |-> t, seen |-> tx[t], name |-> name])
    BY <1>6 DEF BeginRectify
  <2> QED BY <1>1, <2>1
<1>7. ASSUME NEW t \in Tx, BeginDelete(s, t) PROVE Knows(req[s])'
  <2>1. Begin(s, [op |-> "delete", src |-> t]) BY <1>7 DEF BeginDelete
  <2>2. tx[t].status = "pending" BY <1>7 DEF BeginDelete, Editable
  <2> QED BY <1>1, <2>1, <2>2
<1> QED BY <1>2, <1>3, <1>4, <1>5, <1>6, <1>7

LEMMA GatedDates ==
    ASSUME NEW r \in Request, r.op \in {"create", "void", "replace"}
    PROVE  /\ Dates([r EXCEPT !.step = "gated"]) = Dates(r)
           /\ r.op = "create" => Dates(r) = {r.date}
           /\ r.op = "void" => Dates(r) = {r.on}
           /\ r.op = "replace" => Dates(r) = {r.on, r.date}
BY DEF Request, Idle, Dates

LEMMA LaterReadsKnow ==
    ASSUME TypeOK, NEW s \in Slots, CheckPeriod(s) \/ MergePostings(s), Knows(req[s])
    PROVE  Knows(req[s])'
<1>1. req[s] \in Request BY DEF TypeOK
<1>2. tx' = tx /\ period' = period BY DEF CheckPeriod, MergePostings
<1>3. CASE CheckPeriod(s)
  <2> DEFINE g == [req[s] EXCEPT !.step = "gated"]
  <2>1. req[s].op \in {"create", "void", "replace"} BY <1>3 DEF CheckPeriod
  <2>2. req'[s] = g BY <1>3 DEF CheckPeriod, TypeOK
  <2>3. /\ g.op = req[s].op
        /\ g.op \in {"void", "replace"} => g.src = req[s].src /\ g.seen = req[s].seen
        /\ Dates(g) = Dates(req[s])
    BY <1>1, <2>1, StepKeeps, GatedDates
  <2>4. \A d \in Dates(req[s]) : period[d] = "open" BY <1>3 DEF CheckPeriod
  <2> HIDE DEF g
  <2>6. /\ g.op \in {"void", "replace"} => Voidable(g.src) /\ g.seen = tx[g.src]
        /\ \A d \in Dates(g) : period[d] = "open"
    BY <2>3, <2>4 DEF Knows
  <2>7. \A d \in Dates(req'[s]) : period'[d] = "open" BY <1>2, <2>2, <2>6
  <2> QED BY <1>2, <2>1, <2>2, <2>3, <2>6, <2>7 DEF Knows, Voidable, InLedger, Voided, Dates
<1>4. CASE MergePostings(s)
  <2> DEFINE b == IF "postings" \in req[s].given THEN req[s].tagged
                    ELSE tx[req[s].src].tagged
  <2>1. req[s].op = "patch" BY <1>4 DEF MergePostings
  <2>2. req'[s] = [req[s] EXCEPT !.step = "merged", !.tagged = b]
    BY <1>4 DEF MergePostings, TypeOK
  <2> HIDE DEF b
  <2>3. req'[s].op = req[s].op /\ req'[s].src = req[s].src
    BY <1>1, <2>1, <2>2, StepKeeps
  <2> QED BY <1>2, <2>1, <2>3 DEF Knows
<1> QED BY <1>3, <1>4

LEMMA CalmKnows ==
    ASSUME TypeOK, Calm, ~Meets, NEW s \in Slots, Acts(s)
    PROVE  OneAtATime' /\ \A z \in Slots : Knows(req[z])'
<1>1. CASE \/ BeginCreate(s)
           \/ \E t \in Tx : \/ BeginVoid(s, t) \/ BeginReplace(s, t)
                            \/ BeginPatch(s, t) \/ BeginRectify(s, t)
                            \/ BeginDelete(s, t)
  BY <1>1, BeginsKnow, ReadKnows
<1>2. CASE CheckPeriod(s) \/ MergePostings(s)
  BY <1>2, LaterReadsKnow, ReadKnows DEF Calm
<1>3. CASE \/ Abort(s)
           \/ CommitCreate(s) \/ CommitVoid(s) \/ CommitReplace(s)
           \/ CommitPatch(s) \/ CommitRectify(s) \/ CommitDelete(s)
           \/ Import(s) \/ DeactivatePool(s)
           \/ \E p \in Periods : ClosePeriod(s, p) \/ ReopenPeriod(s, p)
  BY <1>3, EndsIdle, IdleKnows
<1> QED BY <1>1, <1>2, <1>3 DEF Acts

(* A commit that inserts a row. *)
LEMMA InsertKept ==
    ASSUME VoidInv, Kept, NEW n \in Tx, tx[n].status = "absent",
           \A t \in Tx \ {n} : tx'[t] = tx[t],
           tx'[n].reverses = NoTx, ~tx'[n].flipped,
           tx'[n].shadow = "posted" => tx'[n].tagged
    PROVE  Kept'
<1> SUFFICES ASSUME NEW t \in Tx
             PROVE  /\ tx'[t].status = "posted" /\ tx'[t].reverses = NoTx => ~tx'[t].flipped
                    /\ tx'[t].shadow = "posted" => tx'[t].reverses = NoTx /\ tx'[t].tagged
                    /\ tx'[t].status = "posted" /\ tx'[t].reverses # NoTx =>
                          /\ tx'[t].tagged = tx'[tx'[t].reverses].tagged
                          /\ tx'[tx'[t].reverses].voidedBy = t
  BY DEF Kept, InLedger
<1>1. CASE t = n BY <1>1
<1>2. CASE t # n
  <2>1. tx'[t] = tx[t] BY <1>2
  <2>2. ASSUME InLedger(t), tx[t].reverses # NoTx
        PROVE  tx'[tx[t].reverses] = tx[tx[t].reverses]
    <3>1. tx[t].reverses \in Tx BY <2>2 DEF VoidInv, TypeOK, Row
    <3>2. tx[tx[t].reverses].status = "posted"
      BY <2>2 DEF VoidInv, LinkInv, InLedger
    <3> QED BY <3>1, <3>2
  <2> QED BY <2>1, <2>2 DEF Kept, InLedger
<1> QED BY <1>1, <1>2

(* A commit that voids a source nobody has voided. *)
LEMMA VoidKept ==
    ASSUME VoidInv, Kept, NEW src \in Tx, Voidable(src),
           NEW r \in Tx, tx[r].status = "absent",
           NEW on, tx'[r] = Reversal(src, tx[src], on),
           tx'[src] = VoidedRow(tx[src], r),
           \A t \in Tx \ {r, src} : tx'[t] # tx[t] =>
              /\ tx[t].status = "absent" /\ tx'[t].reverses = NoTx /\ ~tx'[t].flipped
              /\ tx'[t].shadow = "posted" => tx'[t].tagged
    PROVE  Kept'
<1>0. InLedger(src) /\ ~Voided(src) /\ tx[src] \in Row /\ r # src
  BY DEF Voidable, VoidInv, TypeOK, InLedger
<1>1. /\ tx'[r].status = "posted" /\ tx'[r].reverses = src
      /\ tx'[r].shadow = "none" /\ tx'[r].tagged = tx[src].tagged
  BY DEF Reversal
<1>2. /\ tx'[src].status = "posted" /\ tx'[src].voidedBy = r
      /\ tx'[src].reverses = tx[src].reverses /\ tx'[src].tagged = tx[src].tagged
      /\ tx'[src].flipped = tx[src].flipped /\ tx'[src].shadow # "posted"
  BY <1>0 DEF VoidedRow, Row, InLedger
<1>3. NoTx \notin Tx BY NoTxNotInTx
<1>4. \A u \in Tx : InLedger(u) /\ u # src => tx'[u] = tx[u]
  BY DEF InLedger
<1>5. ASSUME NEW t \in Tx, InLedger(t), tx[t].reverses # NoTx
      PROVE  /\ tx[t].reverses \in Tx \ {src} /\ InLedger(tx[t].reverses)
             /\ tx'[tx[t].reverses] = tx[tx[t].reverses]
  <2>1. tx[t].reverses \in Tx BY <1>5 DEF VoidInv, TypeOK, Row
  <2>2. InLedger(tx[t].reverses) /\ Voided(tx[t].reverses)
    BY <1>5 DEF VoidInv, LinkInv
  <2>3. tx[t].reverses # src BY <1>0, <2>2
  <2> QED BY <1>4, <2>1, <2>2, <2>3
<1> SUFFICES ASSUME NEW t \in Tx
             PROVE  /\ tx'[t].status = "posted" /\ tx'[t].reverses = NoTx => ~tx'[t].flipped
                    /\ tx'[t].shadow = "posted" => tx'[t].reverses = NoTx /\ tx'[t].tagged
                    /\ tx'[t].status = "posted" /\ tx'[t].reverses # NoTx =>
                          /\ tx'[t].tagged = tx'[tx'[t].reverses].tagged
                          /\ tx'[tx'[t].reverses].voidedBy = t
  BY DEF Kept, InLedger
<1>6. CASE t = r BY <1>1, <1>2, <1>3, <1>6
<1>7. CASE t = src
  BY <1>0, <1>2, <1>5, <1>7 DEF Kept, InLedger
<1>8. CASE t \notin {r, src} /\ tx'[t] = tx[t]
  BY <1>5, <1>8 DEF Kept, InLedger
<1>9. CASE t \notin {r, src} /\ tx'[t] # tx[t] BY <1>9
<1> QED BY <1>6, <1>7, <1>8, <1>9

(* A commit that touches no row of the ledger, or only descriptions. *)
LEMMA SameKept ==
    ASSUME VoidInv, Kept,
           \A t \in Tx : /\ tx'[t].status = "posted" <=> InLedger(t)
                         /\ tx'[t].shadow = tx[t].shadow
                         /\ InLedger(t) =>
                              /\ tx'[t].flipped = tx[t].flipped
                              /\ tx'[t].tagged = tx[t].tagged
                              /\ tx'[t].reverses = tx[t].reverses
                              /\ tx'[t].voidedBy = tx[t].voidedBy
    PROVE  Kept'
<1> SUFFICES ASSUME NEW t \in Tx, InLedger(t) \/ tx[t].shadow = "posted"
             PROVE  /\ tx'[t].status = "posted" /\ tx'[t].reverses = NoTx => ~tx'[t].flipped
                    /\ tx'[t].shadow = "posted" => tx'[t].reverses = NoTx /\ tx'[t].tagged
                    /\ tx'[t].status = "posted" /\ tx'[t].reverses # NoTx =>
                          /\ tx'[t].tagged = tx'[tx'[t].reverses].tagged
                          /\ tx'[tx'[t].reverses].voidedBy = t
  BY DEF Kept, InLedger
<1>1. InLedger(t) BY DEF VoidInv, ShadowFollowsMain
<1>2. ASSUME tx[t].reverses # NoTx
      PROVE  tx[t].reverses \in Tx /\ InLedger(tx[t].reverses)
  BY <1>1, <1>2 DEF VoidInv, TypeOK, Row, LinkInv
<1> QED BY <1>1, <1>2 DEF Kept, InLedger

LEMMA CalmKept ==
    ASSUME VoidInv, Calm, NEW s \in Slots, Acts(s)
    PROVE  Kept'
<1>0. Kept /\ Knows(req[s]) BY DEF Calm
<1>1. CASE CommitCreate(s)
  <2>1. PICK n \in Tx :
           /\ tx[n].status = "absent"
           /\ tx'[n] = Entry(req[s].date, req[s].tagged, req[s].name, NoTx)
           /\ \A t \in Tx \ {n} : tx'[t] = tx[t]
    BY <1>1, CreateRows
  <2>2. /\ tx'[n].reverses = NoTx /\ ~tx'[n].flipped
        /\ tx'[n].shadow = "posted" => tx'[n].tagged
    BY <2>1 DEF Entry
  <2> QED BY <1>0, <2>1, <2>2, InsertKept
<1>2. CASE Import(s)
  <2>1. PICK n \in Tx, d \in Periods, name \in Names, st \in {"pending", "posted"} :
           /\ tx[n].status = "absent"
           /\ tx'[n] = Imported(d, st, name)
           /\ \A t \in Tx \ {n} : tx'[t] = tx[t]
    BY <1>2, ImportRows
  <2>2. tx'[n].reverses = NoTx /\ ~tx'[n].flipped /\ tx'[n].shadow = "none"
    BY <2>1 DEF Entry, Imported
  <2> QED BY <1>0, <2>1, <2>2, InsertKept
<1>3. CASE CommitVoid(s)
  <2>1. Voidable(req[s].src) /\ req[s].seen = tx[req[s].src]
    BY <1>0, <1>3 DEF Knows, CommitVoid
  <2>2. PICK r \in Tx :
           /\ tx[r].status = "absent"
           /\ tx'[r] = Reversal(req[s].src, req[s].seen, req[s].on)
           /\ tx'[req[s].src] = VoidedRow(tx[req[s].src], r)
           /\ \A t \in Tx \ {r, req[s].src} : tx'[t] = tx[t]
    BY <1>3, VoidRows
  <2>3. PICK src \in Tx : src = req[s].src BY <1>3, VoidRows
  <2> QED BY <1>0, <2>1, <2>2, <2>3, VoidKept
<1>4. CASE CommitReplace(s)
  <2>1. Voidable(req[s].src) /\ req[s].seen = tx[req[s].src]
    BY <1>0, <1>4 DEF Knows, CommitReplace
  <2>2. PICK r \in Tx :
           /\ r + 1 \in Tx
           /\ tx[r].status = "absent" /\ tx[r + 1].status = "absent"
           /\ tx'[r] = Reversal(req[s].src, req[s].seen, req[s].on)
           /\ tx'[req[s].src] = VoidedRow(tx[req[s].src], r)
           /\ tx'[r + 1] = Entry(req[s].date, req[s].tagged, req[s].name, req[s].src)
           /\ \A t \in Tx \ {r, r + 1, req[s].src} : tx'[t] = tx[t]
    BY <1>4, ReplaceRows
  <2>3. PICK src \in Tx : src = req[s].src BY <1>4, ReplaceRows
  <2>4. /\ tx'[r + 1].reverses = NoTx /\ ~tx'[r + 1].flipped
        /\ tx'[r + 1].shadow = "posted" => tx'[r + 1].tagged
    BY <2>2 DEF Entry
  <2>5. \A t \in Tx \ {r, src} : tx'[t] # tx[t] =>
              /\ tx[t].status = "absent" /\ tx'[t].reverses = NoTx /\ ~tx'[t].flipped
              /\ tx'[t].shadow = "posted" => tx'[t].tagged
    BY <2>2, <2>3, <2>4
  <2> QED BY <1>0, <2>1, <2>2, <2>3, <2>5, VoidKept
<1>5. CASE CommitPatch(s)
  <2>1. tx[req[s].src] \in Row /\ tx[req[s].src].status = "pending"
    BY <1>5, PatchRows DEF VoidInv, TypeOK
  <2>2. /\ tx'[req[s].src].status = "pending"
        /\ tx'[req[s].src].shadow = tx[req[s].src].shadow
    BY <1>5, <2>1, PatchRows DEF Row
  <2> QED BY <1>0, <1>5, <2>1, <2>2, PatchRows, SameKept DEF InLedger
<1>6. CASE CommitDelete(s)
  <2>1. tx[req[s].src] \in Row /\ tx[req[s].src].status = "pending"
    BY <1>6, DeleteRows DEF VoidInv, TypeOK
  <2>2. /\ tx'[req[s].src].status = "deleted"
        /\ tx'[req[s].src].shadow = tx[req[s].src].shadow
    BY <1>6, <2>1, DeleteRows DEF Row
  <2> QED BY <1>0, <1>6, <2>1, <2>2, DeleteRows, SameKept DEF InLedger
<1>7. CASE CommitRectify(s)
  BY <1>0, <1>7, RectifyRows, SameKept DEF InLedger
<1>8. CASE tx' = tx BY <1>0, <1>8, SameKept DEF InLedger
<1> QED
  BY <1>1, <1>2, <1>3, <1>4, <1>5, <1>6, <1>7, <1>8, OtherRows DEF Acts

LEMMA SerialIsLedger == HistorySpec => Spec
<1>1. HistoryInit => Init BY DEF HistoryInit
<1>2. [HistoryNext]_serialVars => [Next]_vars
  BY DEF HistoryNext, serialVars, vars
<1> QED BY <1>1, <1>2, PTL DEF HistorySpec, Spec

LEMMA CalmStep == VoidInv /\ CalmInv /\ [HistoryNext]_serialVars => CalmInv'
<1> SUFFICES ASSUME VoidInv, CalmInv, [HistoryNext]_serialVars, ~overlap' PROVE Calm'
  BY DEF CalmInv
<1>1. CASE UNCHANGED serialVars
  BY <1>1 DEF serialVars, vars, CalmInv, Calm, OneAtATime, Knows, Kept, Voidable,
     InLedger, Voided, Dates
<1>2. CASE HistoryNext
  <2>1. ~overlap /\ ~Meets /\ Next BY <1>2 DEF HistoryNext
  <2>2. PICK s \in Slots : Acts(s) BY <2>1, NextActs
  <2>3. Calm /\ TypeOK BY <2>1 DEF CalmInv, VoidInv
  <2>4. OneAtATime' /\ \A z \in Slots : Knows(req[z])'
    BY <2>1, <2>2, <2>3, CalmKnows
  <2>5. Kept' BY <2>2, <2>3, CalmKept
  <2> QED BY <2>4, <2>5 DEF Calm
<1> QED BY <1>1, <1>2

LEMMA CalmInit == HistoryInit => CalmInv
<1> SUFFICES ASSUME Init PROVE Calm BY DEF HistoryInit, CalmInv
<1>1. \A t \in Tx : tx[t].status = "absent" /\ tx[t].shadow = "none"
  <2>1. PICK p \in Periods, n \in Names :
           tx = [t \in Tx |-> [Imported(p, "absent", n) EXCEPT !.origin = "api"]]
    BY DEF Init
  <2> QED BY <2>1 DEF Imported, Entry
<1>2. \A s \in Slots : req[s] = Idle BY DEF Init
<1>3. Idle.op = "idle" BY DEF Idle
<1> QED BY <1>1, <1>2, <1>3 DEF Calm, OneAtATime, Knows, Kept, InLedger

LEMMA CalmHolds == HistorySpec => [](VoidInv /\ CalmInv)
<1>1. HistorySpec => []VoidInv BY SerialIsLedger, VoidInvHolds, PTL
<1> QED BY <1>1, CalmInit, CalmStep, PTL DEF HistorySpec

(* Served one at a time, requests post nothing into a period that is closed *)
(* at that moment; only imports do.                                         *)
THEOREM ClosedPeriodsKept == HistorySpec => SeriallyClosedPeriodsReceiveNothing
<1> DEFINE A == overlap' \/ \A t \in Tx : Joins(t) /\ tx'[t].origin = "api" =>
                                          period[tx'[t].date] = "open"
<1>1. VoidInv /\ CalmInv /\ [HistoryNext]_serialVars => [A]_serialVars
  <2> SUFFICES ASSUME VoidInv, CalmInv, HistoryNext, ~overlap',
                      NEW c \in Tx, Joins(c), tx'[c].origin = "api"
               PROVE  period[tx'[c].date] = "open"
    OBVIOUS
  <2>1. Calm /\ Next BY DEF HistoryNext, CalmInv
  <2>2. PICK s \in Slots : Acts(s) BY <2>1, NextActs
  <2>3. ~InLedger(c) /\ tx'[c].status = "posted" /\ tx'[c] # tx[c] BY DEF Joins, InLedger
  <2>4. Knows(req[s]) /\ req[s] \in Request /\ tx[c] \in Row
    BY <2>1 DEF Calm, VoidInv, TypeOK
  <2>5. CASE CommitCreate(s)
    <3>1. PICK n \in Tx :
             /\ tx'[n] = Entry(req[s].date, req[s].tagged, req[s].name, NoTx)
             /\ \A t \in Tx \ {n} : tx'[t] = tx[t]
      BY <2>5, CreateRows
    <3>2. tx'[c].date = req[s].date BY <2>3, <3>1 DEF Entry
    <3>3. Dates(req[s]) = {req[s].date} BY <2>4, <2>5, GatedDates DEF CommitCreate
    <3> QED BY <2>4, <2>5, <3>2, <3>3 DEF Knows, CommitCreate
  <2>6. CASE Import(s)
    <3>1. PICK n \in Tx, d \in Periods, name \in Names, st \in {"pending", "posted"} :
             /\ tx'[n] = Imported(d, st, name)
             /\ \A t \in Tx \ {n} : tx'[t] = tx[t]
      BY <2>6, ImportRows
    <3> QED BY <2>3, <3>1 DEF Imported, Entry
  <2>7. CASE CommitVoid(s)
    <3>1. PICK r \in Tx :
             /\ tx'[r] = Reversal(req[s].src, req[s].seen, req[s].on)
             /\ \A t \in Tx \ {r, req[s].src} : tx'[t] = tx[t]
      BY <2>7, VoidRows
    <3>2. c = r BY <2>3, <2>7, <3>1, VoidRows
    <3>3. tx'[c].date = req[s].on BY <3>1, <3>2 DEF Reversal
    <3>4. Dates(req[s]) = {req[s].on} BY <2>4, <2>7, GatedDates DEF CommitVoid
    <3> QED BY <2>4, <2>7, <3>3, <3>4 DEF Knows, CommitVoid
  <2>8. CASE CommitReplace(s)
    <3>1. PICK r \in Tx :
             /\ r + 1 \in Tx
             /\ tx'[r] = Reversal(req[s].src, req[s].seen, req[s].on)
             /\ tx'[r + 1] = Entry(req[s].date, req[s].tagged, req[s].name, req[s].src)
             /\ \A t \in Tx \ {r, r + 1, req[s].src} : tx'[t] = tx[t]
      BY <2>8, ReplaceRows
    <3>2. c \in {r, r + 1} BY <2>3, <2>8, <3>1, ReplaceRows
    <3>3. tx'[c].date \in {req[s].on, req[s].date}
      BY <3>1, <3>2 DEF Reversal, Entry
    <3>4. Dates(req[s]) = {req[s].on, req[s].date}
      BY <2>4, <2>8, GatedDates DEF CommitReplace
    <3> QED BY <2>4, <2>8, <3>3, <3>4 DEF Knows, CommitReplace
  <2>9. CASE CommitPatch(s)
    <3>1. c = req[s].src /\ tx[c].status = "pending" BY <2>3, <2>9, PatchRows
    <3>2. tx'[c].status = tx[c].status BY <2>4, <2>9, <3>1, PatchRows DEF Row
    <3> QED BY <2>3, <3>1, <3>2
  <2>10. CASE CommitDelete(s)
    <3>1. c = req[s].src BY <2>3, <2>10, DeleteRows
    <3>2. tx'[c].status = "deleted" BY <2>4, <2>10, <3>1, DeleteRows DEF Row
    <3> QED BY <2>3, <3>2
  <2>11. CASE CommitRectify(s) BY <2>3, <2>11, RectifyRows DEF InLedger
  <2> QED
    BY <2>2, <2>3, <2>5, <2>6, <2>7, <2>8, <2>9, <2>10, <2>11, OtherRows DEF Acts
<1>2. SeriallyClosedPeriodsReceiveNothing <=> [][A]_serialVars
  BY DEF SeriallyClosedPeriodsReceiveNothing
<1> HIDE DEF A
<1> QED BY <1>1, <1>2, CalmHolds, PTL DEF HistorySpec

(* Served one at a time, requests leave in the pool what the ledger says    *)
(* was spent from it: the shadows that count are the entries that were not  *)
(* voided, and the reversals are matched with the entries that were.        *)
THEOREM PoolSpendMatches == HistorySpec => []SeriallyPoolSpendMatchesLedger
<1>1. VoidInv /\ CalmInv => SeriallyPoolSpendMatchesLedger
  <2> SUFFICES ASSUME VoidInv, Kept, ~ReversalVoided
               PROVE  Cardinality(Spent) - Cardinality(Returned)
                         = Cardinality(PostedShadows)
    BY DEF CalmInv, Calm, SeriallyPoolSpendMatchesLedger
  <2> DEFINE V == {t \in Tx : InLedger(t) /\ tx[t].tagged /\ Voided(t)}
             f == [r \in Returned |-> tx[r].reverses]
  <2>0. \A t \in Tx : tx[t] \in Row BY DEF VoidInv, TypeOK
  <2>1. NoTx \notin Tx BY NoTxNotInTx
  <2>2. \A t \in Tx : /\ tx[t].reverses \in Tx \cup {NoTx}
                      /\ tx[t].voidedBy \in Tx \cup {NoTx}
                      /\ tx[t].flipped \in BOOLEAN /\ tx[t].tagged \in BOOLEAN
    BY <2>0 DEF Row
  <2>3. ASSUME NEW t \in Tx, InLedger(t), tx[t].reverses # NoTx
        PROVE  /\ tx[t].reverses \in V <=> tx[t].tagged
               /\ tx[t].flipped /\ tx[t].reverses \in Tx
               /\ tx[tx[t].reverses].voidedBy = t
    <3> DEFINE u == tx[t].reverses
    <3>1. u \in Tx /\ InLedger(u) /\ Voided(u) BY <2>2, <2>3 DEF VoidInv, LinkInv
    <3>2. tx[u].reverses = NoTx BY <3>1 DEF ReversalVoided
    <3>3. ~tx[u].flipped BY <3>1, <3>2 DEF Kept
    <3>4. tx[t].tagged = tx[u].tagged /\ tx[u].voidedBy = t BY <2>3 DEF Kept
    <3>5. tx[t].flipped # tx[u].flipped BY <3>1, <3>4 DEF VoidInv, LinkInv
    <3>6. tx[t].flipped BY <2>2, <3>1, <3>3, <3>5
    <3> QED BY <3>1, <3>4, <3>6
  <2>4. Spent = PostedShadows \cup V
    <3>1. ASSUME NEW t \in Spent PROVE t \in PostedShadows \cup V
      <4>1. t \in Tx /\ InLedger(t) /\ tx[t].tagged /\ ~tx[t].flipped BY DEF Spent
      <4>2. tx[t].reverses = NoTx BY <2>3, <4>1
      <4>3. ~Voided(t) => tx[t].shadow = "posted"
        BY <2>0, <4>1, <4>2 DEF VoidInv, ShadowFollowsMain, Row
      <4> QED BY <4>1, <4>3 DEF PostedShadows
    <3>2. ASSUME NEW t \in PostedShadows PROVE t \in Spent
      BY DEF PostedShadows, Kept, VoidInv, ShadowFollowsMain, Spent
    <3>3. ASSUME NEW t \in V PROVE t \in Spent
      BY DEF Kept, ReversalVoided, Spent
    <3> QED BY <3>1, <3>2, <3>3
  <2>5. PostedShadows \cap V = {}
    BY DEF PostedShadows, VoidInv, ShadowFollowsMain
  <2>6. f \in Bijection(Returned, V)
    <3>1. ASSUME NEW r \in Returned
          PROVE  f[r] \in V /\ f[r] = tx[r].reverses /\ tx[f[r]].voidedBy = r
      <4>1. r \in Tx /\ InLedger(r) /\ tx[r].tagged /\ tx[r].flipped BY DEF Returned
      <4>2. tx[r].reverses # NoTx BY <4>1 DEF Kept
      <4> QED BY <2>3, <4>1, <4>2
    <3>2. ASSUME NEW v \in V PROVE \E r \in Returned : f[r] = v
      <4> DEFINE r == tx[v].voidedBy
      <4>1. r \in Tx /\ InLedger(r) /\ tx[r].reverses = v
        BY <2>2 DEF VoidInv, LinkInv, Voided
      <4>2. tx[r].reverses # NoTx BY <2>1, <4>1
      <4>3. tx[r].tagged /\ tx[r].flipped BY <2>3, <4>1, <4>2
      <4>4. r \in Returned BY <4>1, <4>3 DEF Returned
      <4> QED BY <4>1, <4>4
    <3>3. f \in [Returned -> V] BY <3>1
    <3>4. \A a, b \in Returned : f[a] = f[b] => a = b BY <3>1
    <3> HIDE DEF f, V
    <3>5. f \in Injection(Returned, V) BY <3>3, <3>4 DEF Injection, IsInjective
    <3>6. f \in Surjection(Returned, V) BY <3>2, <3>3, Zenon DEF Surjection
    <3> QED BY <3>5, <3>6 DEF Bijection
  <2>7. IsFiniteSet(Returned) /\ IsFiniteSet(PostedShadows) /\ IsFiniteSet(V)
    <3>1. IsFiniteSet(Tx) BY LedgerAssumption, FS_Interval DEF Tx
    <3>2. Returned \in SUBSET Tx /\ PostedShadows \in SUBSET Tx /\ V \in SUBSET Tx
      BY DEF Returned, PostedShadows
    <3> HIDE DEF V
    <3> QED BY <3>1, <3>2, FS_Subset
  <2> HIDE DEF f, V
  <2>8. Cardinality(V) = Cardinality(Returned)
    BY <2>6, <2>7, FS_Bijection DEF ExistsBijection
  <2>9. Cardinality(Spent) = Cardinality(PostedShadows) + Cardinality(V)
    <3>1. Cardinality(PostedShadows \cup V)
             = Cardinality(PostedShadows) + Cardinality(V) - Cardinality({})
      BY <2>5, <2>7, FS_Union
    <3>2. Cardinality({}) = 0 BY FS_EmptySet
    <3>3. Cardinality(PostedShadows) \in Nat /\ Cardinality(V) \in Nat
      BY <2>7, FS_CardinalityType
    <3> QED BY <2>4, <3>1, <3>2, <3>3
  <2> QED BY <2>7, <2>8, <2>9, FS_CardinalityType
<1> QED BY <1>1, CalmHolds, PTL

-----------------------------------------------------------------------------
(* The refinement of Books.                                                 *)

LEMMA StateIs ==
    ASSUME NEW t \in Tx
    PROVE  /\ tx[t].status = "absent"  => StateOf(t) = "absent"
           /\ tx[t].status = "pending" => StateOf(t) = "draft"
           /\ tx[t].status = "deleted" => StateOf(t) = "discarded"
           /\ tx[t].status = "posted" /\ Voided(t)  => StateOf(t) = "voided"
           /\ tx[t].status = "posted" /\ ~Voided(t) => StateOf(t) = "posted"
BY DEF StateOf

LEMMA StateIsNext ==
    ASSUME NEW t \in Tx
    PROVE  /\ tx'[t].status = "absent"  => States'[t] = "absent"
           /\ tx'[t].status = "pending" => States'[t] = "draft"
           /\ tx'[t].status = "deleted" => States'[t] = "discarded"
           /\ tx'[t].status = "posted" /\ tx'[t].voidedBy # NoTx => States'[t] = "voided"
           /\ tx'[t].status = "posted" /\ tx'[t].voidedBy = NoTx => States'[t] = "posted"
BY DEF StateOf, States, Voided

(* A row whose status, date and voiding stay keeps its place in the books.  *)
LEMMA SameState ==
    ASSUME TypeOK, NEW t \in Tx, tx'[t].status = tx[t].status,
           tx'[t].voidedBy = tx[t].voidedBy, tx'[t].date = tx[t].date
    PROVE  States'[t] = States[t] /\ Dated'[t] = Dated[t]
<1>1. tx[t].status \in {"absent", "pending", "posted", "deleted"}
  BY DEF TypeOK, Row
<1>2. States[t] = StateOf(t) BY DEF States
<1>3. States'[t] = States[t]
  BY <1>1, <1>2, StateIs, StateIsNext DEF Voided
<1>4. Dated'[t] = Dated[t] BY DEF Dated
<1> QED BY <1>3, <1>4

(* The pairs <<t, r>> of Undone are settled row by row. *)
LEMMA UndoneSame ==
    ASSUME \A r \in Tx : /\ tx'[r].status = "posted" <=> InLedger(r)
                         /\ InLedger(r) => tx'[r].reverses = tx[r].reverses
    PROVE  Undone' = Undone
BY DEF Undone, InLedger

LEMMA BooksUnchanged ==
    ASSUME TypeOK, period' = period,
           \A t \in Tx : /\ tx'[t].status = tx[t].status
                         /\ tx'[t].voidedBy = tx[t].voidedBy
                         /\ tx'[t].date = tx[t].date
                         /\ tx'[t].reverses = tx[t].reverses
    PROVE  UNCHANGED Atomic!bookVars
<1>1. Undone' = Undone BY UndoneSame DEF InLedger
<1>2. OpenPeriods' = OpenPeriods BY DEF OpenPeriods
<1>3. \A t \in Tx : States'[t] = States[t] /\ Dated'[t] = Dated[t] BY SameState
<1>4. States' = States /\ Dated' = Dated
  BY <1>3 DEF States, Dated
<1> QED BY <1>1, <1>2, <1>4 DEF Atomic!bookVars

LEMMA BooksInsert ==
    ASSUME TypeOK, period' = period, NEW n \in Tx, tx[n].status = "absent",
           \A t \in Tx \ {n} : tx'[t] = tx[t],
           NEW s \in {"draft", "posted"},
           s = "draft" => tx'[n].status = "pending",
           s = "posted" => tx'[n].status = "posted" /\ tx'[n].voidedBy = NoTx,
           tx'[n].reverses = NoTx
    PROVE  /\ States[n] = "absent"
           /\ States' = [States EXCEPT ![n] = s]
           /\ Dated' = [Dated EXCEPT ![n] = tx'[n].date]
           /\ OpenPeriods' = OpenPeriods /\ Undone' = Undone
<1>1. States[n] = "absent" BY StateIs DEF States
<1>2. States'[n] = s BY StateIsNext
<1>3. \A t \in Tx \ {n} : States'[t] = States[t] /\ Dated'[t] = Dated[t]
  BY SameState
<1>4. Undone' = Undone
  BY NoTxNotInTx DEF Undone, InLedger
<1>5. OpenPeriods' = OpenPeriods BY DEF OpenPeriods
<1>6. States' = [States EXCEPT ![n] = s] BY <1>2, <1>3 DEF States
<1>7. Dated' = [Dated EXCEPT ![n] = tx'[n].date] BY <1>3 DEF Dated
<1> QED BY <1>1, <1>4, <1>5, <1>6, <1>7

(* A voiding adds one pair, of the source and its reversal. *)
LEMMA UndoneAdds ==
    ASSUME TypeOK, NEW src \in Tx, NEW r \in Tx, ~InLedger(r),
           tx'[r].status = "posted", tx'[r].reverses = src,
           \A t \in Tx \ {r} :
              /\ tx'[t].reverses # NoTx => (tx'[t].status = "posted" <=> InLedger(t))
              /\ InLedger(t) => tx'[t].reverses = tx[t].reverses
                                /\ tx'[t].status = "posted"
    PROVE  Undone' = Undone \cup {<<src, r>>}
<1>1. \A t, u \in Tx : <<t, u>> \in Undone' <=> tx'[u].status = "posted" /\ tx'[u].reverses = t
  BY DEF Undone, InLedger
<1>2. \A t, u \in Tx : <<t, u>> \in Undone <=> tx[u].status = "posted" /\ tx[u].reverses = t
  BY DEF Undone, InLedger
<1>3. ASSUME NEW t \in Tx, NEW u \in Tx
      PROVE  <<t, u>> \in Undone' <=> <<t, u>> \in Undone \/ <<t, u>> = <<src, r>>
  <2>1. t # NoTx BY NoTxNotInTx
  <2>2. CASE u = r
    <3>1. <<t, u>> \in Undone' <=> t = src BY <1>1, <2>2
    <3>2. <<t, u>> \notin Undone BY <1>2, <2>2 DEF InLedger
    <3> QED BY <2>2, <3>1, <3>2
  <2>3. CASE u # r
    <3>1. tx'[u].status = "posted" /\ tx'[u].reverses = t <=>
             tx[u].status = "posted" /\ tx[u].reverses = t
      BY <2>1, <2>3 DEF InLedger
    <3> QED BY <1>1, <1>2, <2>3, <3>1
  <2> QED BY <2>2, <2>3
<1>4. Undone' \subseteq Tx \X Tx /\ Undone \subseteq Tx \X Tx BY DEF Undone
<1> QED BY <1>3, <1>4

LEMMA SerialBooks ==
    ASSUME VoidInv, Calm, NEW s \in Slots, Acts(s)
    PROVE  Atomic!Next \/ UNCHANGED Atomic!bookVars
<1>0. Knows(req[s]) /\ req[s] \in Request /\ TypeOK
  BY DEF Calm, VoidInv, TypeOK
<1>a. \A d \in Periods : period[d] = "open" => d \in OpenPeriods BY DEF OpenPeriods
<1>1. CASE CommitCreate(s)
  <2>1. PICK n \in Tx :
           /\ tx[n].status = "absent"
           /\ tx'[n] = Entry(req[s].date, req[s].tagged, req[s].name, NoTx)
           /\ \A t \in Tx \ {n} : tx'[t] = tx[t]
    BY <1>1, CreateRows
  <2>2. /\ tx'[n].status = "posted" /\ tx'[n].voidedBy = NoTx
        /\ tx'[n].reverses = NoTx /\ tx'[n].date = req[s].date
    BY <2>1 DEF Entry
  <2>3. req[s].date \in Periods /\ period[req[s].date] = "open"
    BY <1>0, <1>1, GatedDates, RequestFields DEF Knows, CommitCreate
  <2>4. period' = period BY <1>1 DEF CommitCreate, Commit
  <2>5. /\ States[n] = "absent"
        /\ States' = [States EXCEPT ![n] = "posted"]
        /\ Dated' = [Dated EXCEPT ![n] = req[s].date]
        /\ OpenPeriods' = OpenPeriods /\ Undone' = Undone
    BY <1>0, <2>1, <2>2, <2>4, BooksInsert
  <2>6. Atomic!Post(n, req[s].date)
    BY <1>a, <2>3, <2>5 DEF Atomic!Post
  <2> QED BY <2>3, <2>6 DEF Atomic!Next
<1>2. CASE Import(s)
  <2>1. PICK n \in Tx, d \in Periods, name \in Names, st \in {"pending", "posted"} :
           /\ tx[n].status = "absent"
           /\ tx'[n] = Imported(d, st, name)
           /\ \A t \in Tx \ {n} : tx'[t] = tx[t]
    BY <1>2, ImportRows
  <2>2. /\ tx'[n].status = st /\ tx'[n].voidedBy = NoTx
        /\ tx'[n].reverses = NoTx /\ tx'[n].date = d
    BY <2>1 DEF Imported, Entry
  <2>3. PICK as \in {"draft", "posted"} : (as = "draft" <=> st = "pending")
    OBVIOUS
  <2>4. period' = period BY <1>2 DEF Import
  <2>5. /\ States[n] = "absent"
        /\ States' = [States EXCEPT ![n] = as]
        /\ Dated' = [Dated EXCEPT ![n] = d]
        /\ OpenPeriods' = OpenPeriods /\ Undone' = Undone
    BY <1>0, <2>1, <2>2, <2>3, <2>4, BooksInsert
  <2>6. Atomic!Import(n, d, as) BY <2>5 DEF Atomic!Import
  <2> QED BY <2>6 DEF Atomic!Next
<1>3. CASE CommitVoid(s)
  <2>1. PICK src \in Tx : src = req[s].src BY <1>3, VoidRows
  <2>2. PICK r \in Tx :
           /\ tx[r].status = "absent" /\ r # src
           /\ tx'[r] = Reversal(src, req[s].seen, req[s].on)
           /\ tx'[src] = VoidedRow(tx[src], r)
           /\ \A t \in Tx \ {r, src} : tx'[t] = tx[t]
    BY <1>3, <2>1, VoidRows
  <2>3. Voidable(src) /\ tx[src] \in Row BY <1>0, <1>3, <2>1 DEF Knows, CommitVoid, TypeOK
  <2>4. /\ tx'[r].status = "posted" /\ tx'[r].voidedBy = NoTx
        /\ tx'[r].reverses = src /\ tx'[r].date = req[s].on
    BY <2>2 DEF Reversal
  <2>5. /\ tx'[src].status = "posted" /\ tx'[src].voidedBy = r
        /\ tx'[src].reverses = tx[src].reverses /\ tx'[src].date = tx[src].date
    BY <2>2, <2>3 DEF VoidedRow, Row, Voidable, InLedger
  <2>6. req[s].on \in Periods /\ period[req[s].on] = "open"
    BY <1>0, <1>3, GatedDates, RequestFields DEF Knows, CommitVoid
  <2>7. OpenPeriods' = OpenPeriods BY <1>3 DEF CommitVoid, Commit, OpenPeriods
  <2>8. Undone' = Undone \cup {<<src, r>>}
    <3>1. \A t \in Tx \ {r} :
              /\ tx'[t].reverses # NoTx => (tx'[t].status = "posted" <=> InLedger(t))
              /\ InLedger(t) => tx'[t].reverses = tx[t].reverses
                                /\ tx'[t].status = "posted"
      BY <2>2, <2>3, <2>5 DEF InLedger, Voidable
    <3> QED BY <1>0, <2>2, <2>4, <3>1, UndoneAdds DEF InLedger
  <2>9. /\ States[src] = "posted" /\ States[r] = "absent"
        /\ States'[src] = "voided" /\ States'[r] = "posted"
        /\ \A t \in Tx \ {r, src} : States'[t] = States[t]
    <3>1. States[src] = "posted" /\ States[r] = "absent"
      BY <2>2, <2>3, StateIs DEF States, Voidable, InLedger
    <3>2. r # NoTx BY NoTxNotInTx
    <3>3. States'[src] = "voided" /\ States'[r] = "posted"
      BY <2>4, <2>5, <3>2, StateIsNext
    <3> QED BY <1>0, <2>2, <3>1, <3>3, SameState
  <2>10. Dated'[r] = req[s].on /\ \A t \in Tx \ {r} : Dated'[t] = Dated[t]
    BY <2>2, <2>4, <2>5 DEF Dated
  <2>11. States' = [States EXCEPT ![src] = "voided", ![r] = "posted"]
    BY <2>2, <2>9 DEF States
  <2>12. Dated' = [Dated EXCEPT ![r] = req[s].on]
    BY <2>10 DEF Dated
  <2>13. Atomic!Void(src, r, req[s].on)
    BY <1>a, <2>6, <2>7, <2>8, <2>9, <2>11, <2>12 DEF Atomic!Void
  <2> QED BY <2>6, <2>13 DEF Atomic!Next
<1>4. CASE CommitReplace(s)
  <2>1. PICK src \in Tx : src = req[s].src BY <1>4, ReplaceRows
  <2>2. PICK r \in Tx, c \in Tx :
           /\ c = r + 1 /\ r # c /\ r # src /\ c # src
           /\ tx[r].status = "absent" /\ tx[c].status = "absent"
           /\ tx'[r] = Reversal(src, req[s].seen, req[s].on)
           /\ tx'[src] = VoidedRow(tx[src], r)
           /\ tx'[c] = Entry(req[s].date, req[s].tagged, req[s].name, src)
           /\ \A t \in Tx \ {r, c, src} : tx'[t] = tx[t]
    BY <1>4, <2>1, ReplaceRows
  <2>3. Voidable(src) /\ tx[src] \in Row
    BY <1>0, <1>4, <2>1 DEF Knows, CommitReplace, TypeOK
  <2>4. /\ tx'[r].status = "posted" /\ tx'[r].voidedBy = NoTx
        /\ tx'[r].reverses = src /\ tx'[r].date = req[s].on
    BY <2>2 DEF Reversal
  <2>5. /\ tx'[src].status = "posted" /\ tx'[src].voidedBy = r
        /\ tx'[src].reverses = tx[src].reverses /\ tx'[src].date = tx[src].date
    BY <2>2, <2>3 DEF VoidedRow, Row, Voidable, InLedger
  <2>e. /\ tx'[c].status = "posted" /\ tx'[c].voidedBy = NoTx
        /\ tx'[c].reverses = NoTx /\ tx'[c].date = req[s].date
    BY <2>2 DEF Entry
  <2>6. /\ req[s].on \in Periods /\ period[req[s].on] = "open"
        /\ req[s].date \in Periods /\ period[req[s].date] = "open"
    BY <1>0, <1>4, GatedDates, RequestFields DEF Knows, CommitReplace
  <2>7. OpenPeriods' = OpenPeriods BY <1>4 DEF CommitReplace, Commit, OpenPeriods
  <2>8. Undone' = Undone \cup {<<src, r>>}
    <3>1. \A t \in Tx \ {r} :
              /\ tx'[t].reverses # NoTx => (tx'[t].status = "posted" <=> InLedger(t))
              /\ InLedger(t) => tx'[t].reverses = tx[t].reverses
                                /\ tx'[t].status = "posted"
      BY <2>2, <2>3, <2>5, <2>e DEF InLedger, Voidable
    <3> QED BY <1>0, <2>2, <2>4, <3>1, UndoneAdds DEF InLedger
  <2>9. /\ States[src] = "posted" /\ States[r] = "absent" /\ States[c] = "absent"
        /\ States'[src] = "voided" /\ States'[r] = "posted" /\ States'[c] = "posted"
        /\ \A t \in Tx \ {r, c, src} : States'[t] = States[t]
    <3>1. States[src] = "posted" /\ States[r] = "absent" /\ States[c] = "absent"
      BY <2>2, <2>3, StateIs DEF States, Voidable, InLedger
    <3>2. r # NoTx BY NoTxNotInTx
    <3>3. States'[src] = "voided" /\ States'[r] = "posted" /\ States'[c] = "posted"
      BY <2>4, <2>5, <2>e, <3>2, StateIsNext
    <3> QED BY <1>0, <2>2, <3>1, <3>3, SameState
  <2>10. /\ Dated'[r] = req[s].on /\ Dated'[c] = req[s].date
         /\ \A t \in Tx \ {r, c} : Dated'[t] = Dated[t]
    BY <2>2, <2>4, <2>5, <2>e DEF Dated
  <2>11. States' = [States EXCEPT ![src] = "voided", ![r] = "posted", ![c] = "posted"]
    BY <2>2, <2>9 DEF States
  <2>12. Dated' = [Dated EXCEPT ![r] = req[s].on, ![c] = req[s].date]
    BY <2>2, <2>10 DEF Dated
  <2>13. Atomic!Replace(src, r, req[s].on, c, req[s].date)
    BY <1>a, <2>2, <2>6, <2>7, <2>8, <2>9, <2>11, <2>12 DEF Atomic!Replace
  <2> QED BY <2>6, <2>13 DEF Atomic!Next
<1>5. CASE CommitPatch(s)
  <2>1. PICK src \in Tx : src = req[s].src BY <1>5, PatchRows
  <2>2. /\ tx[src].status = "pending" /\ req[s].date \in Periods /\ tx[src] \in Row
        /\ tx'[src] = [tx[src] EXCEPT !.date = req[s].date, !.tagged = req[s].tagged]
        /\ \A t \in Tx \ {src} : tx'[t] = tx[t]
    BY <1>0, <1>5, <2>1, PatchRows DEF TypeOK
  <2>3. tx'[src].status = "pending" /\ tx'[src].date = req[s].date
    BY <2>2 DEF Row
  <2>4. OpenPeriods' = OpenPeriods BY <1>5 DEF CommitPatch, Commit, OpenPeriods
  <2>5. Undone' = Undone BY <2>2, <2>3, UndoneSame DEF InLedger
  <2>6. States[src] = "draft" /\ States'[src] = "draft"
    BY <2>2, <2>3, StateIs, StateIsNext DEF States
  <2>7. \A t \in Tx \ {src} : States'[t] = States[t] /\ Dated'[t] = Dated[t]
    BY <1>0, <2>2, SameState
  <2>8. States' = States BY <2>6, <2>7 DEF States
  <2>9. Dated'[src] = req[s].date BY <2>3 DEF Dated
  <2>10. Dated' = [Dated EXCEPT ![src] = req[s].date] BY <2>7, <2>9 DEF Dated
  <2>11. Atomic!Redate(src, req[s].date)
    BY <2>4, <2>5, <2>6, <2>8, <2>10 DEF Atomic!Redate
  <2> QED BY <2>2, <2>11 DEF Atomic!Next
<1>6. CASE CommitDelete(s)
  <2>1. PICK src \in Tx : src = req[s].src BY <1>6, DeleteRows
  <2>2. /\ tx[src].status = "pending" /\ tx[src] \in Row
        /\ tx'[src] = [tx[src] EXCEPT !.status = "deleted"]
        /\ \A t \in Tx \ {src} : tx'[t] = tx[t]
    BY <1>0, <1>6, <2>1, DeleteRows DEF TypeOK
  <2>3. tx'[src].status = "deleted" /\ tx'[src].date = tx[src].date
    BY <2>2 DEF Row
  <2>4. OpenPeriods' = OpenPeriods BY <1>6 DEF CommitDelete, Commit, OpenPeriods
  <2>5. Undone' = Undone BY <2>2, <2>3, UndoneSame DEF InLedger
  <2>6. States[src] = "draft" /\ States'[src] = "discarded"
    BY <2>2, <2>3, StateIs, StateIsNext DEF States
  <2>7. \A t \in Tx \ {src} : States'[t] = States[t] BY <1>0, <2>2, SameState
  <2>8. States' = [States EXCEPT ![src] = "discarded"] BY <2>6, <2>7 DEF States
  <2>9. Dated' = Dated BY <2>2, <2>3 DEF Dated
  <2>10. Atomic!Discard(src)
    BY <2>4, <2>5, <2>6, <2>8, <2>9 DEF Atomic!Discard
  <2>p. \E p \in Periods : TRUE BY <2>2 DEF Row
  <2> QED BY <2>p, <2>10 DEF Atomic!Next
<1>7. CASE CommitRectify(s)
  <2>1. period' = period BY <1>7 DEF CommitRectify, Commit
  <2> QED BY <1>0, <1>7, <2>1, RectifyRows, BooksUnchanged
<1>8. CASE \E p \in Periods : ClosePeriod(s, p) \/ ReopenPeriod(s, p)
  <2>1. tx' = tx BY <1>8 DEF ClosePeriod, ReopenPeriod
  <2>2. States' = States /\ Dated' = Dated /\ Undone' = Undone
    BY <2>1 DEF States, StateOf, Voided, Dated, Undone, InLedger
  <2>3. OpenPeriods' \in SUBSET Periods BY DEF OpenPeriods
  <2> QED BY <2>2, <2>3 DEF Atomic!Next, Atomic!SetPeriods
<1>9. CASE tx' = tx /\ period' = period BY <1>0, <1>9, BooksUnchanged
<1>10. \/ BeginCreate(s) \/ CheckPeriod(s) \/ MergePostings(s) \/ Abort(s)
       \/ DeactivatePool(s)
       \/ \E t \in Tx : \/ BeginVoid(s, t) \/ BeginReplace(s, t)
                        \/ BeginPatch(s, t) \/ BeginRectify(s, t)
                        \/ BeginDelete(s, t)
       => tx' = tx /\ period' = period
  BY DEF Abort, DeactivatePool, BeginCreate, CheckPeriod, MergePostings, BeginVoid,
     BeginReplace, BeginPatch, BeginRectify, BeginDelete, Begin
<1> QED
  BY <1>1, <1>2, <1>3, <1>4, <1>5, <1>6, <1>7, <1>8, <1>9, <1>10 DEF Acts

(* Served one at a time, the requests are the indivisible steps of Books:   *)
(* no row is voided twice, nothing is posted into a closed period except by *)
(* an import, and only drafts move or vanish.                               *)
THEOREM SerialLedgerImplementsBooks == HistorySpec => SeriallyImplementsBooks
<1> DEFINE A == overlap' \/ Atomic!Next \/ UNCHANGED Atomic!bookVars
<1>1. HistoryInit => Atomic!Init
  <2> SUFFICES ASSUME Init PROVE Atomic!Init BY DEF HistoryInit
  <2>1. \A t \in Tx : tx[t].status = "absent" /\ tx[t].date \in Periods
    <3>1. PICK p \in Periods, n \in Names :
             tx = [t \in Tx |-> [Imported(p, "absent", n) EXCEPT !.origin = "api"]]
      BY DEF Init
    <3> QED BY <3>1 DEF Imported, Entry
  <2>2. States = [t \in Tx |-> "absent"] BY <2>1, StateIs DEF States
  <2>3. Dated \in [Tx -> Periods] BY <2>1 DEF Dated
  <2>4. OpenPeriods = Periods BY DEF Init, OpenPeriods
  <2>5. Undone = {} BY <2>1 DEF Undone, InLedger
  <2> QED BY <2>2, <2>3, <2>4, <2>5 DEF Atomic!Init
<1>2. VoidInv /\ CalmInv /\ [HistoryNext]_serialVars => [A]_serialVars
  <2> SUFFICES ASSUME VoidInv, CalmInv, HistoryNext, ~overlap'
               PROVE  Atomic!Next \/ UNCHANGED Atomic!bookVars
    OBVIOUS
  <2>1. Calm /\ Next BY DEF HistoryNext, CalmInv
  <2>2. PICK s \in Slots : Acts(s) BY <2>1, NextActs
  <2> QED BY <2>1, <2>2, SerialBooks
<1>3. SeriallyImplementsBooks <=> Atomic!Init /\ [][A]_serialVars
  BY DEF SeriallyImplementsBooks
<1> HIDE DEF A
<1> QED BY <1>1, <1>2, <1>3, CalmHolds, PTL DEF HistorySpec
=============================================================================
