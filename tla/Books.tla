------------------------------- MODULE Books --------------------------------
(***************************************************************************)
(* What POST, void, replace, PATCH, DELETE and the period endpoints promise *)
(* of the main ledger, each request being one indivisible step: a posted    *)
(* transaction is voided at most once, by a reversal of its own, nothing is *)
(* posted into a closed period except by an import, and only a draft may be *)
(* moved or discarded.                                                      *)
(***************************************************************************)
EXTENDS Naturals

CONSTANTS Tx, Periods

VARIABLES
    state,    \* state[t]: "absent", "draft", "posted", "voided", "discarded"
    filed,    \* filed[t]: the period t is dated in
    open,     \* the open periods
    undone    \* the pairs <<t, r>> such that r was posted to void t

Init ==
    /\ state = [t \in Tx |-> "absent"]
    /\ filed \in [Tx -> Periods]
    /\ open = Periods
    /\ undone = {}

Post(t, p) ==
    /\ state[t] = "absent" /\ p \in open
    /\ state' = [state EXCEPT ![t] = "posted"]
    /\ filed' = [filed EXCEPT ![t] = p]
    /\ UNCHANGED <<open, undone>>

(* An import files a statement line where the bank dated it. *)
Import(t, p, as) ==
    /\ state[t] = "absent" /\ as \in {"draft", "posted"}
    /\ state' = [state EXCEPT ![t] = as]
    /\ filed' = [filed EXCEPT ![t] = p]
    /\ UNCHANGED <<open, undone>>

Void(t, r, p) ==
    /\ state[t] = "posted" /\ state[r] = "absent" /\ p \in open
    /\ state' = [state EXCEPT ![t] = "voided", ![r] = "posted"]
    /\ filed' = [filed EXCEPT ![r] = p]
    /\ undone' = undone \cup {<<t, r>>}
    /\ UNCHANGED open

Replace(t, r, p, c, q) ==
    /\ state[t] = "posted" /\ state[r] = "absent" /\ state[c] = "absent"
    /\ r # c /\ {p, q} \subseteq open
    /\ state' = [state EXCEPT ![t] = "voided", ![r] = "posted", ![c] = "posted"]
    /\ filed' = [filed EXCEPT ![r] = p, ![c] = q]
    /\ undone' = undone \cup {<<t, r>>}
    /\ UNCHANGED open

Redate(t, p) ==
    /\ state[t] = "draft"
    /\ filed' = [filed EXCEPT ![t] = p]
    /\ UNCHANGED <<state, open, undone>>

Discard(t) ==
    /\ state[t] = "draft"
    /\ state' = [state EXCEPT ![t] = "discarded"]
    /\ UNCHANGED <<filed, open, undone>>

SetPeriods == open' \in SUBSET Periods /\ UNCHANGED <<state, filed, undone>>

Next ==
    \/ \E t \in Tx, p \in Periods :
          \/ Post(t, p) \/ Redate(t, p) \/ Discard(t)
          \/ Import(t, p, "draft") \/ Import(t, p, "posted")
    \/ \E t, r \in Tx, p \in Periods : Void(t, r, p)
    \/ \E t, r, c \in Tx, p, q \in Periods : Replace(t, r, p, c, q)
    \/ SetPeriods

bookVars == <<state, filed, open, undone>>

BooksSpec == Init /\ [][Next]_bookVars
=============================================================================
