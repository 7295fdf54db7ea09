------------------------------ MODULE Proposals ------------------------------
(***************************************************************************)
(* Proposals to change the budget of an envelope (/v1/proposals), written   *)
(* by a user or by the AI, decided by a user; and the PATCH of an envelope, *)
(* which writes the same column.                                            *)
(*                                                                         *)
(* approve is a coroutine that never suspends: two of them never overlap.   *)
(* reject, delete and PATCH run in the thread pool and meet it and each     *)
(* other.  A request acts on the row it has read: mark_decided looks at the *)
(* row of its own session, not at the table.  An UPDATE or DELETE of a row  *)
(* that is gone fails, and rolls everything back.                           *)
(*                                                                         *)
(* Pr is the prefix of names that every component has.                      *)
(***************************************************************************)
EXTENDS Naturals, FiniteSets

CONSTANTS
    Slots,         \* requests in flight at the same time
    Props,         \* ids of pending_proposals
    Envelopes,
    Nowhere,       \* the target of a payload that names no envelope
    Amounts,
    Unset,         \* budget_amount is NULL
    NoAudit        \* no audit row names the budget of the envelope yet

ASSUME ProposalsAssumption ==
    Nowhere \notin Envelopes /\ Unset \notin Amounts /\ NoAudit \notin Amounts \cup {Unset}

VARIABLES
    proposal,   \* proposal[p]: the row, with its payload
    budget,     \* budget[e]: envelopes.budget_amount
    audited,    \* audited[e]: the "after" of the last audit row about it
    executed,   \* history: how often the change of p was executed
    req,        \* req[s]: what the request in slot s has read, or Idle
    overlap     \* history: two requests have been in flight at once

rows == <<proposal, budget, audited, executed>>
prVars == <<proposal, budget, audited, executed, req, overlap>>

PrIdle   == [op |-> "idle"]
Budget == Amounts \cup {Unset}

Row == [status : {"absent", "pending", "approved", "rejected", "deleted"},
        envelope : Envelopes \cup {Nowhere}, amount : Amounts]

(* sets: what the PATCH writes, Unset if it leaves the budget alone; then   *)
(* its audit row says what it has read.                                     *)
Request ==
    {PrIdle}
    \cup [op : {"approve"}, prop : Props, saw : Budget]
    \cup [op : {"reject"}, prop : Props, was : {"pending", "rejected"}]
    \cup [op : {"delete"}, prop : Props]
    \cup [op : {"update"}, envelope : Envelopes, sets : Budget, saw : Budget]

PrTypeOK ==
    /\ proposal \in [Props -> Row]
    /\ budget \in [Envelopes -> Budget]
    /\ audited \in [Envelopes -> Budget \cup {NoAudit}]
    /\ executed \in [Props -> Nat]
    /\ req \in [Slots -> Request]
    /\ overlap \in BOOLEAN

PrInit ==
    /\ \E a \in Amounts :
          proposal = [p \in Props |-> [status |-> "absent", envelope |-> Nowhere,
                                       amount |-> a]]
    /\ budget = [e \in Envelopes |-> Unset]
    /\ audited = [e \in Envelopes |-> NoAudit]
    /\ executed = [p \in Props |-> 0]
    /\ req = [s \in Slots |-> PrIdle]
    /\ overlap = FALSE

-----------------------------------------------------------------------------

Status(p) == proposal[p].status
Exists(p) == Status(p) \in {"pending", "approved", "rejected"}
Meets(s)  == \E u \in Slots \ {s} : req[u] # PrIdle

Begin(s, r) ==
    /\ req[s] = PrIdle
    /\ req' = [req EXCEPT ![s] = r]
    /\ overlap' = (overlap \/ Meets(s))
    /\ UNCHANGED rows

(* create_proposal, or suggest_envelope_budget after the AI's answer. *)
Create(s, p) ==
    /\ req[s] = PrIdle
    /\ Status(p) = "absent"
    /\ \E e \in Envelopes \cup {Nowhere}, a \in Amounts :
          proposal' = [proposal EXCEPT ![p] =
                          [status |-> "pending", envelope |-> e, amount |-> a]]
    /\ overlap' = (overlap \/ Meets(s))
    /\ UNCHANGED <<budget, audited, executed, req>>

BeginApproveRejected(s, p) ==         \* mutant: a rejection may be reconsidered
    /\ Status(p) \in {"pending", "rejected"} /\ proposal[p].envelope # Nowhere
    /\ \A u \in Slots : req[u].op # "approve"
    /\ Begin(s, [op |-> "approve", prop |-> p, saw |-> budget[proposal[p].envelope]])
BeginApprove(s, p) ==
    /\ Status(p) = "pending" /\ proposal[p].envelope # Nowhere
    /\ \A u \in Slots : req[u].op # "approve"
    /\ Begin(s, [op |-> "approve", prop |-> p, saw |-> budget[proposal[p].envelope]])

BeginReject(s, p) ==
    /\ Status(p) \in {"pending", "rejected"}
    /\ Begin(s, [op |-> "reject", prop |-> p, was |-> Status(p)])

BeginDeleteDecided(s, p) ==           \* mutant: approved ones may go as well
    /\ Status(p) \in {"approved", "rejected"}
    /\ Begin(s, [op |-> "delete", prop |-> p])
BeginDelete(s, p) ==
    /\ Status(p) = "rejected"
    /\ Begin(s, [op |-> "delete", prop |-> p])

BeginUpdate(s, e) ==
    \E x \in Budget :
        Begin(s, [op |-> "update", envelope |-> e, sets |-> x, saw |-> budget[e]])

Abort(s) ==
    /\ req[s] # PrIdle
    /\ req' = [req EXCEPT ![s] = PrIdle]
    /\ UNCHANGED <<rows, overlap>>

-----------------------------------------------------------------------------

Done(s) == req' = [req EXCEPT ![s] = PrIdle] /\ UNCHANGED overlap

(* The session sends no UPDATE of a column set to what it has read. *)
Sets(e, saw, x) == budget' = IF x = saw THEN budget ELSE [budget EXCEPT ![e] = x]

Decides(p, status) == proposal' = [proposal EXCEPT ![p].status = status]

(* The executor writes the envelope and its audit row, mark_decided the     *)
(* status, in one commit.                                                   *)
CommitApprove(s) ==
    /\ req[s].op = "approve" /\ Exists(req[s].prop)
    /\ LET p == proposal[req[s].prop]
       IN /\ Sets(p.envelope, req[s].saw, p.amount)
          /\ audited' = [audited EXCEPT ![p.envelope] = p.amount]
    /\ executed' = [executed EXCEPT ![req[s].prop] = @ + 1]
    /\ Decides(req[s].prop, "approved")
    /\ Done(s)

(* A second rejection writes nothing but an audit row. *)
CommitReject(s) ==
    /\ req[s].op = "reject"
    /\ IF req[s].was = "pending"
         THEN Exists(req[s].prop) /\ Decides(req[s].prop, "rejected")
         ELSE UNCHANGED proposal
    /\ Done(s)
    /\ UNCHANGED <<budget, audited, executed>>

CommitDelete(s) ==
    /\ req[s].op = "delete" /\ Exists(req[s].prop)
    /\ Decides(req[s].prop, "deleted")
    /\ Done(s)
    /\ UNCHANGED <<budget, audited, executed>>

CommitUpdate(s) ==
    /\ req[s].op = "update"
    /\ LET x == IF req[s].sets = Unset THEN req[s].saw ELSE req[s].sets
       IN /\ Sets(req[s].envelope, req[s].saw, x)
          /\ audited' = [audited EXCEPT ![req[s].envelope] = x]
    /\ Done(s)
    /\ UNCHANGED <<proposal, executed>>

PrNext ==
    \E s \in Slots :
        \/ \E p \in Props : \/ Create(s, p) \/ BeginApprove(s, p)
                            \/ BeginReject(s, p) \/ BeginDelete(s, p)
        \/ \E e \in Envelopes : BeginUpdate(s, e)
        \/ CommitApprove(s) \/ CommitReject(s) \/ CommitDelete(s)
        \/ CommitUpdate(s) \/ Abort(s)

PrSpec == PrInit /\ [][PrNext]_prVars

-----------------------------------------------------------------------------
(* Properties.                                                              *)

(* However requests interleave, a proposal's change is executed once at     *)
(* most, and one that reads approved has been executed: a rejection or a    *)
(* deletion that commits late may hide an approval, never repeat it.        *)
ExecutedAtMostOnce ==
    \A p \in Props : executed[p] <= 1 /\ (Status(p) = "approved" => executed[p] = 1)

(* mark_decided: "proposals decide once"; delete_proposal: "Approved        *)
(* proposals stay (audit-chain integrity)".  Of requests served one at a    *)
(* time: what was executed stays approved, and the audit trail ends with    *)
(* the budget the envelope has, whoever wrote it last.                      *)
DecisionsMatchEffects ==
    overlap \/ /\ \A p \in Props : executed[p] > 0 => Status(p) = "approved"
               /\ \A e \in Envelopes : audited[e] \in {budget[e], NoAudit}

=============================================================================
