------------------------------ MODULE Accounts ------------------------------
(***************************************************************************)
(* The chart of accounts of one household: a tree that any PATCH may bend,  *)
(* accounts that are made on the way to others (create_parents) or because  *)
(* an import needs one (Imbalance), and placeholders that take no postings. *)
(*                                                                         *)
(* A request reads, then commits once.  Type, currency, visibility and role *)
(* only refuse requests, and a request that is refused changes nothing.  Of *)
(* an account's postings there is who wrote them: a caller that looked      *)
(* whether it is a placeholder, or one that did not.                        *)
(***************************************************************************)
EXTENDS Integers, Sequences, FiniteSets, Functions, SequencesExt

CONSTANTS
    Slots,         \* requests in flight at the same time
    NamePath,      \* the path of names that create_parents is given
    CodePath,      \* the same for codes, each element a whole prefix
    Imbalance,     \* the code of the account imports fall back to
    Bodies,        \* what POST may ask for, besides a parent
    Patches,       \* what PATCH may ask for, besides a parent
    MaxAccounts    \* bound: rows of accounts

VARIABLES
    account,    \* the rows, in the order of their commits; an id is an index
    req,        \* req[s]: what the request in slot s has read, or Idle
    met,        \* history: the kinds of commits made while s was in flight
    crossed     \* history: the kinds of commits that met one they depend on

vars == <<account, req, met, crossed>>

Idle  == [op |-> "idle"]
None  == 0                        \* NULL, as a parent
Ids   == 1 .. MaxAccounts
Names == Range(NamePath) \cup {"other", "redacted"}
Codes == Range(CodePath) \cup {Imbalance, "Imbalance:Unknown", "none"}
Kinds == {"move", "hold", "post", "make"}

(* hold: is_placeholder.  by: who gave the row its place and its code; a    *)
(* walker that found nothing there ("name", "code") or too much ("twin").   *)
Account == [parent : Ids \cup {None}, name : Names, code : Codes, active : BOOLEAN,
            hold : BOOLEAN, posted : SUBSET {"checked", "unchecked"},
            by : {"user", "name", "code", "twin"}]

Fields == {"parent", "name", "code", "hold"}

ASSUME AccountsAssumption ==
    /\ MaxAccounts \in Nat \ {0}
    /\ NamePath \in Seq(Names) /\ CodePath \in Seq(Codes)
    /\ Bodies \subseteq [name : Names, code : Codes, hold : BOOLEAN]
    /\ \A change \in Patches : \A f \in DOMAIN change :
          \/ f = "name" /\ change[f] \in Names
          \/ f = "code" /\ change[f] \in Codes
          \/ f = "hold" /\ change[f] \in BOOLEAN

Request ==
    {Idle, [op |-> "walking"]}
    \cup [op : {"create"}, row : Account]
    \cup [op : {"nameWalk"}, parent : Ids \cup {None}, depth : Nat, twin : BOOLEAN]
    \cup [op : {"codeWalk"}, parent : Ids \cup {None}, depth : Nat]
    \cup [op : {"patch"}, id : Ids, to : Account, fields : SUBSET Fields]
    \cup [op : {"post"}, id : Ids]
    \cup [op : {"import"}, bank : Ids, category : Ids \cup {None}]

TypeOK ==
    /\ account \in Seq(Account) /\ Len(account) <= MaxAccounts
    /\ \A i \in DOMAIN account : account[i].parent \in DOMAIN account \cup {None}
    /\ req \in [Slots -> Request]
    /\ met \in [Slots -> SUBSET Kinds] /\ crossed \in SUBSET Kinds

Row(parent, name, code, hold, by) ==
    [parent |-> parent, name |-> name, code |-> code, active |-> TRUE,
     hold |-> hold, posted |-> {}, by |-> by]

(* The chart that the registration of the household leaves.                 *)
Init ==
    /\ account = <<Row(None, "other", "Imbalance:Unknown", FALSE, "user")>>
    /\ req = [s \in Slots |-> Idle]
    /\ met = [s \in Slots |-> {}]
    /\ crossed = {}

-----------------------------------------------------------------------------
(* Look-ups.                                                                *)

(* The walk up the chart from i, one hop for each row: it ends at None, or  *)
(* it has been somewhere twice and goes round for ever.                     *)
Hop(i) ==
    LET hop[n \in 0 .. Len(account)] ==
          IF n = 0 THEN i
          ELSE IF hop[n - 1] = None THEN None ELSE account[hop[n - 1]].parent
    IN  hop

Endless(i) == Hop(i)[Len(account)] # None
MeetsItself(child, parent) == child = parent    \* mutant: only the parent itself
Meets(child, parent)       == child \in Range(Hop(parent))

(* get_by_parent_and_name and get_by_code: inactive rows count.             *)
Spot(parent, name) ==
    {i \in DOMAIN account : account[i].parent = parent /\ account[i].name = name}

CodedInActive(rows, code) ==          \* mutant: only active rows
    {i \in DOMAIN rows : rows[i].code = code /\ rows[i].active}
CodedIn(rows, code) == {i \in DOMAIN rows : rows[i].code = code}
Coded(code)         == CodedIn(account, code)

TheOnly(S) == CHOOSE i \in S : TRUE

(* How far down NamePath each look-up finds one row, and which.  A name     *)
(* that two siblings share is not followed.                                 *)
NameAt ==
    LET at[k \in 0 .. Len(NamePath)] ==
          IF k = 0 THEN {None}
          ELSE LET here == IF at[k - 1] = {} THEN {} ELSE Spot(TheOnly(at[k - 1]), NamePath[k])
               IN  IF Cardinality(here) = 1 THEN here ELSE {}
    IN  at

NameDepth == CHOOSE k \in DOMAIN NameAt :
                NameAt[k] # {} /\ \A l \in DOMAIN NameAt : NameAt[l] # {} => l <= k

(* Codes are looked up one by one, each in the whole chart.                 *)
CodeDepth == CHOOSE k \in 0 .. Len(CodePath) :
                /\ \A l \in 1 .. k : Coded(CodePath[l]) # {}
                /\ k < Len(CodePath) => Coded(CodePath[k + 1]) = {}

-----------------------------------------------------------------------------
(* Requests.                                                                *)

Begin(s, r) ==
    /\ req[s] = Idle
    /\ req' = [req EXCEPT ![s] = r]
    /\ met' = [met EXCEPT ![s] = {}]
    /\ UNCHANGED <<account, crossed>>

(* What a check read, that a commit of this kind has changed since.         *)
Upsets(kind) == CASE kind = "hold" -> {"post"} [] kind = "post" -> {"hold"}
                  [] OTHER -> {kind}

Commit(s, rows, kinds) ==
    /\ account' = rows
    /\ req' = [req EXCEPT ![s] = Idle]
    /\ met' = [u \in Slots |-> IF u = s \/ req[u] = Idle THEN {} ELSE met[u] \cup kinds]
    /\ crossed' = crossed \cup {k \in kinds : Upsets(k) \cap met[s] # {}}

(* A request whose effect does not depend on what it read is one step.      *)
AtOnce(i, row) ==
    /\ account' = [account EXCEPT ![i] = row]
    /\ UNCHANGED <<req, met, crossed>>

BeginCreate(s) ==
    \E b \in Bodies, p \in DOMAIN account \cup {None} :
        /\ p # None => account[p].active
        /\ Begin(s, [op |-> "create", row |-> Row(p, b.name, b.code, b.hold, "user")])

CommitCreate(s) ==
    /\ req[s].op = "create"
    /\ Len(account) < MaxAccounts
    /\ Commit(s, Append(account, req[s].row), {})

(* create_parents with a path of names: rows that are there are taken as    *)
(* they are, and the rest is a chain of new rows.                           *)
BeginWalkNamePath(s) ==
    LET k == NameDepth IN
    /\ k < Len(NamePath)
    /\ LET p == TheOnly(NameAt[k]) IN
       Begin(s, [op |-> "nameWalk", parent |-> p, depth |-> k,
                 twin |-> Spot(p, NamePath[k + 1]) # {}])

NameChain(r) ==
    [n \in 1 .. Len(NamePath) - r.depth |->
        Row(IF n = 1 THEN r.parent ELSE Len(account) + n - 1, NamePath[r.depth + n],
            "none", FALSE, IF n = 1 /\ r.twin THEN "twin" ELSE "name")]

CommitWalkNamePath(s) ==
    /\ req[s].op = "nameWalk"
    /\ Len(account) + Len(NamePath) - req[s].depth <= MaxAccounts
    /\ Commit(s, account \o NameChain(req[s]), {"make"})

(* With a path of codes: the look-ups that follow the first new row are     *)
(* made under the write lock.  A code that two rows have is an error.       *)
BeginWalkCodePath(s) ==
    LET k == CodeDepth IN
    /\ k < Len(CodePath)
    /\ \A l \in 1 .. k : Cardinality(Coded(CodePath[l])) = 1
    /\ Begin(s, [op |-> "codeWalk", depth |-> k,
                 parent |-> IF k = 0 THEN None ELSE TheOnly(Coded(CodePath[k]))])

Made(done, code) == [rows |-> Append(done.rows, Row(done.parent, "other", code, FALSE, "code")),
                     parent |-> Len(done.rows) + 1]

CodeChain(r) ==
    LET first == r.depth + 1
        done[l \in first .. Len(CodePath)] ==
          IF l = first THEN Made([rows |-> account, parent |-> r.parent], CodePath[l])
          ELSE LET here == CodedIn(done[l - 1].rows, CodePath[l]) IN
               IF here = {} THEN Made(done[l - 1], CodePath[l])
                            ELSE [done[l - 1] EXCEPT !.parent = TheOnly(here)]
    IN  done[Len(CodePath)].rows

CommitWalkCodePath(s) ==
    /\ req[s].op = "codeWalk"
    /\ \A l \in req[s].depth + 2 .. Len(CodePath) : Cardinality(Coded(CodePath[l])) <= 1
    /\ Len(CodeChain(req[s])) <= MaxAccounts
    /\ Commit(s, CodeChain(req[s]), {"make"})

(* PATCH, of an inactive account too.  The flush writes the columns that    *)
(* differ from what was read.                                               *)
Patched(row, change, p) ==
    [f \in DOMAIN row |-> CASE f = "parent" /\ p # None -> p
                             [] f \in DOMAIN change     -> change[f]
                             [] OTHER                   -> row[f]]

BeginPatch(s, i, to) ==
    LET fields == {f \in Fields : to[f] # account[i][f]} IN
    /\ fields # {}
    /\ to.hold /\ ~account[i].hold => account[i].posted = {}
    /\ Begin(s, [op |-> "patch", id |-> i, to |-> to, fields |-> fields])

BeginUpdate(s) ==
    \E i \in DOMAIN account, change \in Patches, p \in DOMAIN account \cup {None} :
        /\ p # None => account[p].active /\ ~Meets(i, p)
        /\ IF p # None /\ Endless(p)
             THEN Begin(s, [op |-> "walking"])
             ELSE BeginPatch(s, i, Patched(account[i], change, p))

Settled(row, r) ==
    [f \in DOMAIN row |->
        IF f \in r.fields THEN r.to[f]
        ELSE IF f = "by" /\ r.fields \cap {"parent", "name", "code"} # {} THEN "user"
        ELSE row[f]]

CommitUpdate(s) ==
    LET r == req[s] IN
    /\ r.op = "patch"
    /\ Commit(s, [account EXCEPT ![r.id] = Settled(@, r)],
              {k \in {"move"} : "parent" \in r.fields}
              \cup {k \in {"hold"} : "hold" \in r.fields /\ r.to.hold})

Deactivate == \E i \in DOMAIN account :
    account[i].active /\ AtOnce(i, [account[i] EXCEPT !.active = FALSE])

Redact == \E i \in DOMAIN account :
    ~account[i].active /\ AtOnce(i, [account[i] EXCEPT !.name = "redacted", !.by = "user"])

-----------------------------------------------------------------------------
(* Postings.                                                                *)

(* POST, PATCH and replace of a transaction; inactive accounts take them.   *)
BeginPost(s) ==
    \E i \in DOMAIN account : ~account[i].hold /\ Begin(s, [op |-> "post", id |-> i])

Posted(rows, i, how) == [rows EXCEPT ![i].posted = @ \cup {how}]

CommitPost(s) ==
    /\ req[s].op = "post"
    /\ Commit(s, Posted(account, req[s].id, "checked"), {"post"})

(* An import looks at the bank account of its batch; the other side is what *)
(* the categorizer or a split names, by code or by name, or Imbalance.      *)
Nameable(i) == account[i].active \/ (account[i].code # "none" /\ Coded(account[i].code) = {i})

BeginImportUnlooked(s) ==             \* mutant: the bank account is not looked at
    \E i \in DOMAIN account, c \in DOMAIN account \cup {None} :
        /\ IF c = None THEN Coded(Imbalance) = {} ELSE Nameable(c)
        /\ Begin(s, [op |-> "import", bank |-> i, category |-> c])
BeginImport(s) ==
    \E i \in DOMAIN account, c \in DOMAIN account \cup {None} :
        /\ ~account[i].hold
        /\ IF c = None THEN Coded(Imbalance) = {} ELSE Nameable(c)
        /\ Begin(s, [op |-> "import", bank |-> i, category |-> c])

CommitImport(s) ==
    LET r    == req[s]
        made == r.category = None
        rows == IF made THEN Append(account, Row(None, "other", Imbalance, FALSE, "code"))
                        ELSE account
        to   == IF made THEN Len(rows) ELSE r.category
    IN
    /\ r.op = "import"
    /\ Len(rows) <= MaxAccounts
    /\ Commit(s, Posted(Posted(rows, r.bank, "checked"), to, "unchecked"),
              {"post"} \cup {k \in {"make"} : made})

(* Deleting a draft takes its postings; those of others may be left.        *)
DeleteDraft == \E i \in DOMAIN account : \E how \in account[i].posted :
    AtOnce(i, [account[i] EXCEPT !.posted = @ \ {how}])

-----------------------------------------------------------------------------
Next ==
    \/ \E s \in Slots :
         \/ BeginCreate(s) \/ CommitCreate(s)
         \/ BeginWalkNamePath(s) \/ CommitWalkNamePath(s)
         \/ BeginWalkCodePath(s) \/ CommitWalkCodePath(s)
         \/ BeginUpdate(s) \/ CommitUpdate(s)
         \/ BeginPost(s) \/ CommitPost(s)
         \/ BeginImport(s) \/ CommitImport(s)
    \/ Deactivate \/ Redact \/ DeleteDraft

Spec == Init /\ [][Next]_vars

-----------------------------------------------------------------------------
(* Properties.                                                              *)

(* parent_account_id never closes a loop, and so no PATCH walks up the      *)
(* chart for ever (_validate_parent has no other end), unless two accounts  *)
(* were moved at the same time: the walk sees the chart of its own read.    *)
ChartIsForest ==
    "move" \notin crossed =>
        /\ \A i \in DOMAIN account : ~Endless(i)
        /\ \A s \in Slots : req[s].op # "walking"

(* A placeholder has no posting by a caller that looks for placeholders,    *)
(* through flips, drafts that come and go, moves and imports, unless a flip *)
(* and a posting were in flight together.                                   *)
PlaceholdersTakeNoPostings ==
    {"hold", "post"} \cap crossed = {} =>
        \A i \in DOMAIN account : account[i].hold => "checked" \notin account[i].posted

(* "Idempotent": of the rows that walkers and imports made because there    *)
(* was none, no two stand in one place or bear one code, whatever was       *)
(* renamed, moved, deactivated or redacted between, unless two of them      *)
(* looked at the same time.                                                 *)
WalksReuseRows ==
    "make" \notin crossed =>
        \A i, k \in DOMAIN account :
            i # k /\ account[i].by = account[k].by =>
                /\ account[i].by = "name" =>
                     <<account[i].parent, account[i].name>> # <<account[k].parent, account[k].name>>
                /\ account[i].by = "code" => account[i].code # account[k].code
=============================================================================
