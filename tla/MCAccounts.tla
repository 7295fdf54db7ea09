----------------------------- MODULE MCAccounts -----------------------------
(* Small instances of Accounts: three accounts and two requests.            *)
EXTENDS Accounts, TLC

CONSTANTS s1, s2

RootAndLeaf == <<"root", "leaf">>
TwoCodes    == <<"c", "cd">>
PlainOrHold == {[name |-> "root", code |-> "none", hold |-> FALSE]}
Changes     == {<<>>, [hold |-> TRUE], [name |-> "leaf"]}

Postings == {p \in (DOMAIN account) \X {"checked", "unchecked"} : p[2] \in account[p[1]].posted}
Holding  == {i \in DOMAIN account : account[i].hold}
Inactive == {i \in DOMAIN account : ~account[i].active}
Redacted == {i \in DOMAIN account : account[i].name = "redacted"}

(* Bounds: accounts, postings, placeholders, inactive and redacted accounts *)
(* add up to four; requests begin where they add up to three, and to two    *)
(* when another is in flight; once two have crossed, all stays within three. *)
Size  == Len(account) + Cardinality(Postings) + Cardinality(Holding)
           + Cardinality(Inactive) + Cardinality(Redacted)
Small == Size <= (IF crossed # {} THEN 3 ELSE 4)

InFlight == Cardinality({s \in Slots : req[s] # Idle})
FewInFlight == InFlight' > InFlight => Size + InFlight <= 3

Symmetry == Permutations(Slots)
=============================================================================
