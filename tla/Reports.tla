------------------------------ MODULE Reports ------------------------------
(***************************************************************************)
(* The reports of one household, its journal files and the pages of its     *)
(* audit log, read while others write.                                      *)
(*                                                                         *)
(* The session begins no transaction before it writes, so every SELECT of a *)
(* report is of an instant of its own: the chart, then the balances, then   *)
(* for a period the balances before it.  The writers are the commits of     *)
(* Ledger, Imports and Accounts; their own races are the matter of those    *)
(* modules.  One currency, whose amounts may be finer than its unit: a      *)
(* report rounds what it has of each account, and adds up after that.       *)
(***************************************************************************)
EXTENDS Integers, Sequences, FiniteSets, Functions

CONSTANTS
    Accounts,      \* accounts that exist or may be opened
    Type,          \* Type[a]: asset, liability, equity, income or expense
    Code, Name,    \* the parts between colons; Code[a] = <<>> if it has none
    Private,       \* accounts that a member does not see
    Entries,       \* transactions that may be entered
    Chart,         \* accounts there are from the start
    Plan,          \* Plan[e]: the day and the postings of entry e
    Dates,         \* days, the first one is 1
    Unit,          \* the unit of reports (a cent), of which amounts are parts
    PageSize,      \* rows on a page of the audit log
    MaxCommits     \* bound: commits of the writers

VARIABLES
    account,    \* account[a]: "absent", "open" or "closed" (inactive)
    book,       \* the transactions with their postings
    file,       \* the journal a client has exported, or nothing
    report,     \* what the request of the reader has read, or its answer
    log,        \* rows of the audit log, numbered as they are stamped
    commits     \* how many rows the audit log ever had

RpVars == <<account, book, file, report, log, commits>>

Types    == {"asset", "liability", "equity", "income", "expense"}
Postings == [Accounts -> Int]
NoReport == [step |-> "done", kind |-> "none"]

ASSUME ReportsAssumption ==
    /\ Type \in [Accounts -> Types] /\ Private \subseteq Accounts /\ Chart \subseteq Accounts
    /\ Code \in [Accounts -> Seq(STRING)] /\ Name \in [Accounts -> Seq(STRING)]
    /\ IsFiniteSet(Accounts) /\ IsFiniteSet(Dates) /\ Dates = 1 .. Cardinality(Dates)
    /\ \A e \in Entries :
          /\ Plan[e].day \in Dates /\ Plan[e].legs \in Postings
          /\ SumFunction(Plan[e].legs) = 0
    /\ Unit \in Nat \ {0} /\ PageSize \in Nat \ {0} /\ MaxCommits \in Nat

(* part: an entry or its reversal; copy: made by an import of a journal.    *)
Row == [of : Entries, part : {"entry", "reversal"}, copy : BOOLEAN, day : Dates,
        status : {"pending", "posted"}, legs : Postings]

(* A report that is under way, one that is answered, and the pages of the   *)
(* audit log.                                                               *)
Report ==
    [kind : {"trial", "what-if", "sheet", "statement", "flow", "export"},
     step : {"chart", "later"}, by : {"admin", "member"}, start : Dates, end : Dates,
     chart : SUBSET Accounts, later : SUBSET Row]
    \cup [kind : {"trial", "what-if"}, step : {"done"}, debits : Int, credits : Int]
    \cup [kind : {"sheet"}, step : {"done"}, assets : Int, liabilities : Int, equity : Int,
          retained : Int]
    \cup [kind : {"statement"}, step : {"done"}, revenue : Int, expenses : Int]
    \cup [kind : {"flow"}, step : {"done"}, net : Int]
    \cup [kind : {"audit"}, step : {"page", "done"}, offset : Nat, seen : SUBSET Nat,
          first : SUBSET Nat, swept : BOOLEAN]
    \cup {NoReport}

RpTypeOK ==
    /\ account \in [Accounts -> {"absent", "open", "closed"}]
    /\ book \subseteq Row /\ file \subseteq Row /\ report \in Report
    /\ commits \in 0 .. MaxCommits /\ log \subseteq 1 .. commits

Entered(e, status) == [of |-> e, part |-> "entry", copy |-> FALSE, day |-> Plan[e].day,
                       status |-> status, legs |-> Plan[e].legs]
Reversal(e, day) == [of |-> e, part |-> "reversal", copy |-> FALSE, day |-> day,
                     status |-> "posted", legs |-> [a \in Accounts |-> -Plan[e].legs[a]]]

Known     == {a \in Accounts : account[a] # "absent"}
Unused(e) == \A r \in book : r.of # e
Postable(e) == \A a \in Accounts : Plan[e].legs[a] # 0 => a \in Known
Voided(r) == \E v \in book : v.of = r.of /\ v.part = "reversal" /\ r.part = "entry"
                             /\ ~v.copy /\ ~r.copy

RpInit ==
    /\ account = [a \in Accounts |-> IF a \in Chart THEN "open" ELSE "absent"]
    /\ book = {} /\ file = {} /\ report = NoReport /\ log = {} /\ commits = 0

-----------------------------------------------------------------------------
(* The writers.  Each commit leaves a row in the audit log.                 *)

Audited ==
    /\ commits < MaxCommits
    /\ commits' = commits + 1
    /\ log' = log \cup {commits + 1}
    /\ UNCHANGED report

Write(rows) == Audited /\ book' = rows /\ UNCHANGED <<account, file>>

(* A line of a statement lands pending, a transaction of a user posted.     *)
Enter(e, status) == Unused(e) /\ Postable(e) /\ Write(book \cup {Entered(e, status)})

(* A reconciliation that completes takes its pending matches into the books.*)
Confirm(r) ==
    /\ r.status = "pending"
    /\ Write((book \ {r}) \cup {[r EXCEPT !.status = "posted"]})

Discard(r) == r.status = "pending" /\ Write(book \ {r})

Voidable(r) == r \in book /\ r.status = "posted" /\ r.part = "entry" /\ ~r.copy /\ ~Voided(r)

Void(r, day) == Voidable(r) /\ Write(book \cup {Reversal(r.of, day)})

Replace(r, day, e) ==
    /\ Voidable(r) /\ Unused(e) /\ Postable(e)
    /\ Write(book \cup {Reversal(r.of, day), Entered(e, "posted")})

SetAccount(a, state) ==
    /\ Audited /\ account' = [account EXCEPT ![a] = state] /\ UNCHANGED <<book, file>>

Open(a)  == account[a] = "absent" /\ SetAccount(a, "open")
Close(a) == account[a] = "open"   /\ SetAccount(a, "closed")    \* whatever it holds

(* Retention deletes what is past the age of its tier, and leaves a row.    *)
Sweep(old) ==
    /\ old # {} /\ old \subseteq log /\ commits < MaxCommits
    /\ commits' = commits + 1
    /\ log' = (log \ old) \cup {commits + 1}
    /\ report' = IF report.step = "page" THEN [report EXCEPT !.swept = TRUE] ELSE report
    /\ UNCHANGED <<account, book, file>>

-----------------------------------------------------------------------------
(* What the repositories return.                                            *)

BalanceOf(rows, a) == SumFunction([r \in rows |-> r.legs[a]])
TotalOf(rows, A)   == SumFunction([a \in A |-> BalanceOf(rows, a)])

(* To the nearest unit, and to an even one from half-way.                   *)
Quantize(x) ==
    LET rest == x % Unit
    IN  IF 2 * rest < Unit \/ (2 * rest = Unit /\ (x - rest) % (2 * Unit) = 0)
          THEN x - rest
          ELSE x - rest + Unit

Quantized(f) == [a \in DOMAIN f |-> Quantize(f[a])]
Balances(rows, A) == [a \in A |-> BalanceOf(rows, a)]
Subtotal(rows, A) == SumFunction(Quantized(Balances(rows, A)))

Counted(pending) == IF pending THEN {"posted", "pending"} ELSE {"posted"}
TrialBalance(day, pending) ==
    {r \in book : r.day <= day /\ r.status \in Counted(pending)}
Listed(start, end) ==
    {r \in book : r.status = "posted" /\ ~Voided(r) /\ r.day \in start .. end}

Visible(by) == IF by = "admin" THEN Accounts ELSE Accounts \ Private
Shown(q, types) == {a \in q.chart \cap Visible(q.by) : Type[a] \in types}

-----------------------------------------------------------------------------
(* A report: the endpoint, then the SELECTs of its build function.          *)

Read(q) == report' = q /\ UNCHANGED <<account, book, file, log, commits>>

(* The first SELECT is list_active; the export takes closed accounts too.    *)
BeginReport(kind, by, start, end) ==
    /\ report.step = "done"
    /\ Read([kind |-> kind, step |-> "chart", by |-> by, start |-> start, end |-> end,
             chart |-> IF kind = "export" THEN Known ELSE {a \in Accounts : account[a] = "open"},
             later |-> {}])

BeginTrial     == \E day \in Dates, by \in {"admin", "member"}, kind \in {"trial", "what-if"} :
                     BeginReport(kind, by, 1, day)
BeginSheet     == \E day \in Dates, by \in {"admin", "member"} : BeginReport("sheet", by, 1, day)
BeginStatement == \E start, end \in Dates, by \in {"admin", "member"} :
                     BeginReport("statement", by, start, end)
BeginCashFlow  == \E start, end \in Dates, by \in {"admin", "member"} :
                     BeginReport("flow", by, start, end)
BeginExport    == \E start, end \in Dates, by \in {"admin", "member"} :
                     BeginReport("export", by, start, end)

(* Every account shown is a debit or a credit by the sign of its balance.   *)
Debits(q)  == SumFunction([a \in DOMAIN q |-> IF q[a] > 0 THEN q[a] ELSE 0])
Credits(q) == SumFunction([a \in DOMAIN q |-> IF q[a] < 0 THEN -q[a] ELSE 0])

ReadTrial ==
    /\ report.step = "chart" /\ report.kind \in {"trial", "what-if"}
    /\ LET rows == TrialBalance(report.end, report.kind = "what-if")
           q    == Quantized(Balances(rows, Shown(report, Types)))
       IN  Read([kind |-> report.kind, step |-> "done",
                 debits |-> Debits(q), credits |-> Credits(q)])

(* Income and expense are both a credit less a debit in retained earnings.  *)
RetainedUnsigned(rows, q) ==              \* mutant: expenses add to the earnings
    Subtotal(rows, Shown(q, {"expense"})) - Subtotal(rows, Shown(q, {"income"}))
Retained(rows, q) == -Subtotal(rows, Shown(q, {"income", "expense"}))

ReadSheet ==
    /\ report.step = "chart" /\ report.kind = "sheet"
    /\ LET rows     == TrialBalance(report.end, FALSE)
           of(type) == Subtotal(rows, Shown(report, {type}))
       IN  Read([kind |-> "sheet", step |-> "done",
                 assets |-> of("asset"), liabilities |-> of("liability"),
                 equity |-> of("equity"), retained |-> Retained(rows, report)])

ReadLater ==
    /\ report.step = "chart" /\ report.kind \in {"statement", "flow"}
    /\ Read([report EXCEPT !.step = "later", !.later = TrialBalance(report.end, FALSE)])

(* The balances before the period are read after those at its end; a cash   *)
(* flow from the first date there is takes those of that date.              *)
PriorDayIsStart(q) == q.start             \* mutant: one day late
PriorDay(q) == IF q.kind = "flow" /\ q.start = 1 THEN 1 ELSE q.start - 1

(* Only the accounts with a posting by the end of the period are gone       *)
(* through, whatever the second SELECT has of others.                       *)
Gone(q, types) == {a \in Shown(q, types) : \E r \in q.later : r.legs[a] # 0}
Change(q, a)   == BalanceOf(q.later, a) - BalanceOf(TrialBalance(PriorDay(q), FALSE), a)

ReadStatement ==
    /\ report.step = "later" /\ report.kind = "statement"
    /\ Read([kind |-> "statement", step |-> "done",
             revenue |-> SumFunction(Quantized([a \in Gone(report, {"income"}) |->
                                                   -Change(report, a)])),
             expenses |-> SumFunction(Quantized([a \in Gone(report, {"expense"}) |->
                                                   Change(report, a)]))])

ReadCashFlow ==
    /\ report.step = "later" /\ report.kind = "flow"
    /\ Read([kind |-> "flow", step |-> "done",
             net |-> SumFunction(Quantized([a \in Gone(report, {"asset"}) |->
                                               Change(report, a)]))])

-----------------------------------------------------------------------------
(* Journal files.  A posting that is written names its account by type,     *)
(* code and name; one on an account unknown or private is left out, and a   *)
(* transaction that has no other is left out with it.                       *)

Written(r, q) == {a \in q.chart \cap Visible(q.by) : r.legs[a] # 0}

Export ==
    /\ report.step = "chart" /\ report.kind = "export"
    /\ LET rows == {r \in Listed(report.start, report.end) : Written(r, report) # {}}
       IN  file' = {[r EXCEPT !.legs = [a \in Accounts |->
                        IF a \in Written(r, report) THEN r.legs[a] ELSE 0]] : r \in rows}
    /\ report' = NoReport
    /\ UNCHANGED <<account, book, log, commits>>

(* The path of a: what follows its type, up to a colon and after it.        *)
Path(a)    == Code[a] \o Name[a]
AsCode(a)  == <<Head(Path(a))>>
AsName(a)  == IF Len(Path(a)) = 1 THEN Path(a) ELSE Tail(Path(a))

(* Where a posting on a may land: by code first, if the type agrees, then   *)
(* by type and name.  Of several accounts the last one listed is taken.     *)
ByNameAlone(a) == {b \in Known : Name[b] = AsName(a)}    \* mutant: any type
ByName(a) == {b \in Known : Type[b] = Type[a] /\ Name[b] = AsName(a)}
Resolved(a) ==
    LET coded == {b \in Known : Code[b] = AsCode(a)}
    IN  {b \in coded : Type[b] = Type[a]}
        \cup (IF coded # {} /\ \A b \in coded : Type[b] = Type[a] THEN {} ELSE ByName(a))

Balanced(r) == SumFunction(r.legs) = 0
Named       == {a \in Accounts : \E r \in file : r.legs[a] # 0}

(* The rows of the file with every account resolved, pending.               *)
Copies(to) ==
    {[r EXCEPT !.copy = TRUE, !.status = "pending",
               !.legs = [b \in Accounts |->
                   SumFunction([a \in {m \in Named : to[m] = b} |-> r.legs[a]])]] : r \in file}

(* All of the file or nothing.  Bound: one import, of a file of entries.    *)
Import ==
    /\ file # {}
    /\ \A r \in book \cup file : ~r.copy
    /\ \A r \in file : Balanced(r)
    /\ \E to \in [Named -> Known] :
          /\ \A a \in Named : to[a] \in Resolved(a)
          /\ book' = book \cup Copies(to)
    /\ UNCHANGED <<account, file, report, log, commits>>

-----------------------------------------------------------------------------
(* The audit log, newest first, a page for each request.                    *)

BeginAudit ==
    /\ report.step = "done"
    /\ Read([kind |-> "audit", step |-> "page", offset |-> 0, seen |-> {}, first |-> log,
             swept |-> FALSE])

PageOneOn(offset) ==                      \* mutant: the offset counts from one
    {s \in log : Cardinality({t \in log : t > s}) \in offset + 1 .. offset + PageSize}
PageAt(offset) ==
    {s \in log : Cardinality({t \in log : t > s}) \in offset .. offset + PageSize - 1}

ReadPage ==
    /\ report.step = "page"
    /\ LET page == PageAt(report.offset)
       IN  Read([report EXCEPT !.seen = @ \cup page, !.offset = @ + PageSize,
                    !.step = IF Cardinality(page) < PageSize THEN "done" ELSE "page"])

RpNext ==
    \/ \E e \in Entries, status \in {"pending", "posted"} : Enter(e, status)
    \/ \E r \in book : Confirm(r) \/ Discard(r)
    \/ \E r \in book, day \in Dates : Void(r, day) \/ \E e \in Entries : Replace(r, day, e)
    \/ \E a \in Accounts : Open(a) \/ Close(a)
    \/ \E old \in SUBSET log : Sweep(old)
    \/ BeginTrial \/ BeginSheet \/ BeginStatement \/ BeginCashFlow \/ BeginExport \/ BeginAudit
    \/ ReadTrial \/ ReadSheet \/ ReadLater \/ ReadStatement \/ ReadCashFlow
    \/ Export \/ Import \/ ReadPage

RpSpec == RpInit /\ [][RpNext]_RpVars

-----------------------------------------------------------------------------
(* What a reader may rely on.                                               *)

Ends(kinds) == report.kind \in kinds /\ report.step # "done" /\ report'.step = "done"

(* A report is off the exact total by half a unit at most for each of the   *)
(* amounts f it adds up that is no whole number of units.                   *)
Slack(f) == SumFunction([a \in DOMAIN f |-> IF f[a] % Unit = 0 THEN 0 ELSE Unit])
IsWithin(shown, exact, f) == 2 * (shown - exact) \in -Slack(f) .. Slack(f)

(* The debits and credits of a trial balance, and the two sides of a        *)
(* balance sheet, differ by what the accounts that are not shown hold       *)
(* (closed ones, private ones, and those opened while it was read) and by   *)
(* the rounding of those shown, and by nothing else.                        *)
TotalsBalance ==
    [][Ends({"trial", "what-if", "sheet"}) =>
          LET rows == TrialBalance(report.end, report.kind = "what-if")
              A    == Shown(report, Types)
              over == IF report.kind = "sheet"
                        THEN report'.assets + report'.liabilities + report'.equity
                             - report'.retained
                        ELSE report'.debits - report'.credits
          IN  IsWithin(over, -TotalOf(rows, Accounts \ A), Balances(rows, A))]_RpVars

(* The totals row of a trial balance shows equal debits and credits, to an  *)
(* administrator, who may see every account.  (The code does not keep this.)*)
DebitsEqualCredits ==
    [][Ends({"trial"}) /\ report.by = "admin" => report'.debits = report'.credits]_RpVars

(* An income statement and a cash flow count, of the accounts with postings *)
(* when the balances at the end of the period were read, what was entered   *)
(* in the period by then, less what was entered before the period between   *)
(* that and the second reading, rounded by account; and nothing else.  (A   *)
(* cash flow from the first date there is leaves that date out.)            *)
StatementCountsItsPeriod ==
    [][Ends({"statement", "flow"}) /\ report.start <= report.end
          /\ (report.kind = "flow" => report.start > 1) =>
          LET inside == {r \in report.later : r.day >= report.start}
              late   == {r \in book \ report.later :
                            r.status = "posted" /\ r.day < report.start}
              known(type)  == {a \in Shown(report, {type}) :
                                  \E r \in report.later : r.legs[a] # 0}
              due(a)       == BalanceOf(inside, a) - BalanceOf(late, a)
              is(shown, f) == IsWithin(shown, SumFunction(f), f)
          IN  IF report.kind = "flow"
                THEN is(report'.net, [a \in known("asset") |-> due(a)])
                ELSE /\ is(report'.revenue, [a \in known("income") |-> -due(a)])
                     /\ is(report'.expenses, [a \in known("expense") |-> due(a)])]_RpVars

(* If codes and names have no colon and no two accounts share a code, what  *)
(* an import makes of a journal adds up, over all accounts of one type and  *)
(* name, to what the file says of them.                                     *)
PathsAreReadable ==
    \A a \in Named, b \in Known :
        /\ Len(Code[a]) <= 1 /\ Len(Name[a]) = 1 /\ Code[b] # Name[a]
        /\ a # b => Code[a] # Code[b] \/ Code[a] = <<>>
Namesakes(a) == {b \in Accounts : Type[b] = Type[a] /\ Name[b] = Name[a]}
ImportKeepsNames ==
    [][LET made == {r \in book' \ book : r.copy /\ r.status = "pending"}
       IN  made # {} /\ PathsAreReadable =>
              \A a \in Accounts : TotalOf(made, Namesakes(a)) = TotalOf(file, Namesakes(a))]_RpVars

(* A reader that turns the pages of the audit log to the end has seen every *)
(* row that was there when it began, unless rows were deleted meanwhile.    *)
PagesMissNothing ==
    [][Ends({"audit"}) /\ ~report.swept => report.first \subseteq report'.seen]_RpVars
=============================================================================
