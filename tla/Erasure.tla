------------------------------- MODULE Erasure -------------------------------
(***************************************************************************)
(* Attachments of tulip-api, and what takes them away: the erasure of a     *)
(* household, and the attachment_gc handler.                                *)
(*                                                                         *)
(* A blob is a file named by the hash of its content, which the rows of     *)
(* several households may share; no transaction covers both.  Uploads and   *)
(* the handlers of the runner run on the event loop and do not suspend      *)
(* while they write, so they exclude each other; an erasure runs in the     *)
(* thread pool beside them.  The process may crash between any two steps.   *)
(*                                                                         *)
(* audit_log is append-only by two triggers.  An erasure, the retention     *)
(* handlers and POST /v1/admin/audit-prune lift the one against deletions   *)
(* (audit_log_deletion_allowed), DELETE /v1/users/{id} the one against      *)
(* updates (audit_log_pii_redaction_allowed).  SQLite commits a DROP or     *)
(* CREATE TRIGGER by itself, unless a DML statement has begun a transaction *)
(* before it.                                                               *)
(***************************************************************************)
EXTENDS Naturals, FiniteSets

CONSTANTS
    Households,
    Contents,     \* content hashes
    Requests,     \* audit-prunes and deletions of users in flight
    MaxFaults     \* bound: crashes, exceptions of the files and the database

ASSUME ErasureAssumption == MaxFaults \in Nat

VARIABLES
    alive,      \* the rows of households
    token,      \* those with a pending_household_erasures row not expired
    rows,       \* attachments: <<household, content_hash>>, a unique index
    bytes,      \* bytes[c]: what is in the file of c
    old,        \* the files whose mtime is an hour ago or more
    trigger,    \* those of the triggers of audit_log that are there
    upload,     \* the upload that runs on the loop, or Idle
    gc,         \* the collection that runs on the loop, or Idle
    pruning,    \* a retention handler runs on the loop
    erase,      \* erase[h]: the erasure of household h in flight, or Idle
    bracket,    \* bracket[r]: the bracket that request r has open, or Idle
    faults,
    spoiled,    \* history: contents a torn write, or an upload that meets an
                \* erasure, may have damaged
    lost        \* history: triggers that a crash, or a bracket that failed, has
                \* left lifted, and none has put back since

loopVars == <<upload, gc, pruning>>
poolVars == <<erase, bracket>>
history  == <<faults, spoiled, lost>>
vars     == <<alive, token, rows, bytes, old, trigger, loopVars, poolVars, history>>

Idle == [step |-> "idle"]

Triggers == {"no_delete", "no_update"}

Upload  == [step : {"read", "write", "insert"}, by : Households, content : Contents]
Gc      == [step : {"walk"}, referenced : SUBSET Contents, left : SUBSET Contents]
Erasing == [step : {"read", "bracket", "sweep"}, left : SUBSET Contents]
           \cup [step : {"unlink"}, left : SUBSET Contents, blob : Contents]
Bracket == [step : {"prune"}] \cup [step : {"redact"}, of : Households]

TypeOK ==
    /\ alive \subseteq Households /\ token \subseteq alive
    /\ rows \subseteq alive \X Contents
    /\ bytes \in [Contents -> {"none", "torn", "whole"}]
    /\ old \subseteq {c \in Contents : bytes[c] # "none"}
    /\ trigger \subseteq Triggers
    /\ upload \in Upload \cup {Idle}
    /\ gc \in Gc \cup {Idle}
    /\ pruning \in BOOLEAN
    /\ erase \in [Households -> Erasing \cup {Idle}]
    /\ bracket \in [Requests -> Bracket \cup {Idle}]
    /\ faults \in 0 .. MaxFaults
    /\ spoiled \subseteq Contents
    /\ lost \subseteq Triggers \ trigger

Init ==
    /\ alive = Households /\ token = {}
    /\ rows = {}
    /\ bytes = [c \in Contents |-> "none"] /\ old = {}
    /\ trigger = Triggers
    /\ upload = Idle /\ gc = Idle /\ pruning = FALSE
    /\ erase = [h \in Households |-> Idle]
    /\ bracket = [r \in Requests |-> Idle]
    /\ faults = 0 /\ spoiled = {} /\ lost = {}

-----------------------------------------------------------------------------

LoopIsFree == upload = Idle /\ gc = Idle /\ ~pruning
IsUsed(c)  == \E h \in Households : <<h, c>> \in rows
OnDisk     == {c \in Contents : bytes[c] # "none"}
Uploading(c) == upload # Idle /\ upload.content = c

(* h's erasure has looked for the rows of c, or is about to unlink it. *)
Sweeps(h, c) == erase[h].step = "unlink" /\ erase[h].blob = c

-----------------------------------------------------------------------------
(* Uploads: find_by_hash, the write of the file, the insert.                *)

BeginUpload(h, c) ==
    /\ LoopIsFree
    /\ h \in alive /\ <<h, c>> \notin rows    \* else the row is used again
    /\ upload' = [step |-> "read", by |-> h, content |-> c]
    /\ UNCHANGED <<alive, token, rows, bytes, old, trigger, gc, pruning, poolVars, history>>

(* write_bytes truncates the file that is there, whoever's it is. *)
StartWrite ==
    /\ upload.step = "read"
    /\ upload' = [upload EXCEPT !.step = "write"]
    /\ bytes' = [bytes EXCEPT ![upload.content] = "torn"]
    /\ old' = old \ {upload.content}
    /\ spoiled' = spoiled \cup {c \in {upload.content} : \E h \in Households : Sweeps(h, c)}
    /\ UNCHANGED <<alive, token, rows, trigger, gc, pruning, poolVars, faults, lost>>

EndWrite ==
    /\ upload.step = "write"
    /\ upload' = [upload EXCEPT !.step = "insert"]
    /\ bytes' = [bytes EXCEPT ![upload.content] = "whole"]
    /\ UNCHANGED <<alive, token, rows, old, trigger, gc, pruning, poolVars, history>>

(* The foreign key wants the household to be there still. *)
CommitUpload ==
    /\ upload.step = "insert" /\ upload.by \in alive
    /\ rows' = rows \cup {<<upload.by, upload.content>>}
    /\ upload' = Idle
    /\ UNCHANGED <<alive, token, bytes, old, trigger, gc, pruning, poolVars, history>>

(* The household is gone, or the disk is full: a file may be left behind. *)
FailUpload ==
    /\ upload # Idle
    /\ \/ upload.step = "insert" /\ upload.by \notin alive
             /\ UNCHANGED <<faults, spoiled>>
       \/ /\ faults < MaxFaults /\ faults' = faults + 1
          /\ spoiled' = IF upload.step = "write"
                          THEN spoiled \cup {upload.content} ELSE spoiled
    /\ upload' = Idle
    /\ UNCHANGED <<alive, token, rows, bytes, old, trigger, gc, pruning, poolVars, lost>>

-----------------------------------------------------------------------------
(* run_attachment_gc: the hashes of all rows, then file by file.            *)

BeginGcOfOne ==                       \* mutant: the rows of one household
    /\ LoopIsFree
    /\ \E h \in Households :
          gc' = [step |-> "walk", referenced |-> {c \in Contents : <<h, c>> \in rows},
                 left |-> OnDisk]
    /\ UNCHANGED <<alive, token, rows, bytes, old, trigger, upload, pruning, poolVars, history>>
BeginGc ==
    /\ LoopIsFree
    /\ gc' = [step |-> "walk", referenced |-> {c \in Contents : IsUsed(c)},
              left |-> OnDisk]
    /\ UNCHANGED <<alive, token, rows, bytes, old, trigger, upload, pruning, poolVars, history>>

CollectableYoung(c) ==                 \* mutant: the age is compared the other way
    c \notin gc.referenced /\ c \notin old
Collectable(c) == c \notin gc.referenced /\ c \in old

Visit(c) ==
    /\ gc # Idle /\ c \in gc.left
    /\ gc' = [gc EXCEPT !.left = @ \ {c}]
    /\ bytes' = IF Collectable(c) THEN [bytes EXCEPT ![c] = "none"] ELSE bytes
    /\ old' = IF Collectable(c) THEN old \ {c} ELSE old
    /\ UNCHANGED <<alive, token, rows, trigger, upload, pruning, poolVars, history>>

EndGc ==
    /\ gc # Idle /\ gc.left = {}
    /\ gc' = Idle
    /\ UNCHANGED <<alive, token, rows, bytes, old, trigger, upload, pruning, poolVars, history>>

-----------------------------------------------------------------------------
(* The brackets of audit_log.  DROP TRIGGER comes before any DML and stands *)
(* at once; the DML begins a transaction, which the commit ends.            *)

Lift(t)   == trigger' = trigger \ {t} /\ UNCHANGED lost
PutBack(t) == trigger' = trigger \cup {t} /\ lost' = lost \ {t}

(* The CREATE TRIGGER of the finally runs in the transaction of the DML that*)
(* raised, and is rolled back with it; or it raises itself.                 *)
LeaveAsItIs(t) == UNCHANGED trigger /\ lost' = lost \cup ({t} \ trigger)

DatabaseError == faults < MaxFaults /\ faults' = faults + 1

(* audit_retention and session_retention. *)
BeginPrune ==
    /\ LoopIsFree
    /\ pruning' = TRUE /\ Lift("no_delete")
    /\ UNCHANGED <<alive, token, rows, bytes, old, upload, gc, poolVars, faults, spoiled>>

(* After the commit CREATE TRIGGER stands at once; it raises if another     *)
(* bracket has put the trigger back, and there it is.                       *)
EndPruneUnrestored ==                 \* mutant: an exception skips the CREATE
    /\ pruning /\ pruning' = FALSE
    /\ UNCHANGED <<alive, token, rows, bytes, old, trigger, upload, gc, poolVars, history>>
EndPrune ==
    /\ pruning /\ pruning' = FALSE
    /\ PutBack("no_delete")
    /\ UNCHANGED <<alive, token, rows, bytes, old, upload, gc, poolVars, faults, spoiled>>

FailPrune ==
    /\ pruning /\ pruning' = FALSE
    /\ DatabaseError /\ LeaveAsItIs("no_delete")
    /\ UNCHANGED <<alive, token, rows, bytes, old, upload, gc, poolVars, spoiled>>

(* POST /v1/admin/audit-prune, and DELETE /v1/users/{id} of a user of h. *)
Open(r, b) ==
    /\ bracket[r] = Idle
    /\ bracket' = [bracket EXCEPT ![r] = b]
    /\ UNCHANGED <<alive, token, rows, bytes, old, loopVars, erase, faults, spoiled>>
Close(r) ==
    /\ bracket' = [bracket EXCEPT ![r] = Idle]
    /\ UNCHANGED <<alive, token, rows, bytes, old, loopVars, erase, spoiled>>

AskPrune(r) == Open(r, [step |-> "prune"]) /\ Lift("no_delete")
DeleteUser(r, h) ==
    /\ h \in alive
    /\ Open(r, [step |-> "redact", of |-> h]) /\ Lift("no_update")

EndAskedPrune(r) ==
    /\ bracket[r].step = "prune" /\ Close(r)
    /\ \/ PutBack("no_delete") /\ UNCHANGED faults
       \/ DatabaseError /\ LeaveAsItIs("no_delete")

(* The UPDATE, the CREATE, the tombstone and the DELETE of the user are one *)
(* transaction.  It fails on a trigger that another bracket has put back,   *)
(* and on the foreign key of the tombstone of a household that is erased.   *)
CommitDeleteUser(r) ==
    /\ bracket[r].step = "redact" /\ bracket[r].of \in alive
    /\ "no_update" \notin trigger
    /\ PutBack("no_update") /\ Close(r)
    /\ UNCHANGED faults

FailDeleteUser(r) ==
    /\ bracket[r].step = "redact"
    /\ \/ DatabaseError
       \/ "no_update" \in trigger /\ UNCHANGED faults
       \/ bracket[r].of \notin alive /\ UNCHANGED faults
    /\ LeaveAsItIs("no_update") /\ Close(r)

-----------------------------------------------------------------------------
(* erase_household, after request_erasure.                                  *)

RequestErasure(h) ==
    /\ h \in alive \ token
    /\ token' = token \cup {h}
    /\ UNCHANGED <<alive, rows, bytes, old, trigger, loopVars, poolVars, history>>

Expire(h) ==
    /\ h \in token
    /\ token' = token \ {h}
    /\ UNCHANGED <<alive, rows, bytes, old, trigger, loopVars, poolVars, history>>

Erasure(h, r) == erase' = [erase EXCEPT ![h] = r] /\ UNCHANGED bracket

(* The hashes are those of the rows before the DELETE. *)
BeginErase(h) ==
    /\ h \in token /\ erase[h] = Idle
    /\ Erasure(h, [step |-> "read", left |-> {c \in Contents : <<h, c>> \in rows}])
    /\ UNCHANGED <<alive, token, rows, bytes, old, trigger, loopVars, history>>

(* The tombstone, DROP TRIGGER and the cascade of the DELETE, in one commit.*)
CommitErase(h) ==
    /\ erase[h].step = "read" /\ h \in alive
    /\ alive' = alive \ {h} /\ token' = token \ {h}
    /\ rows' = {r \in rows : r[1] # h}
    /\ Lift("no_delete")
    /\ Erasure(h, [erase[h] EXCEPT !.step = "bracket"])
    /\ UNCHANGED <<bytes, old, loopVars, faults, spoiled>>

(* The end of the bracket: CREATE TRIGGER raises, and the request fails     *)
(* before its sweep, if the trigger is there, or the database is locked.    *)
RestoreTrigger(h) ==
    /\ erase[h].step = "bracket"
    /\ \/ /\ "no_delete" \notin trigger
          /\ PutBack("no_delete")
          /\ Erasure(h, [erase[h] EXCEPT !.step = "sweep"])
          /\ UNCHANGED faults
       \/ /\ \/ "no_delete" \in trigger /\ UNCHANGED faults
             \/ DatabaseError
          /\ LeaveAsItIs("no_delete")
          /\ Erasure(h, Idle)
    /\ UNCHANGED <<alive, token, rows, bytes, old, loopVars, spoiled>>

(* An upload in flight, of a content nobody else has, is the one to lose.   *)
Look(h, c) ==
    /\ erase[h].step = "sweep" /\ c \in erase[h].left
    /\ IF IsUsed(c)
         THEN /\ Erasure(h, [erase[h] EXCEPT !.left = @ \ {c}])
              /\ UNCHANGED spoiled
         ELSE /\ Erasure(h, [step |-> "unlink", left |-> erase[h].left \ {c}, blob |-> c])
              /\ spoiled' = IF Uploading(c) THEN spoiled \cup {c} ELSE spoiled
    /\ UNCHANGED <<alive, token, rows, bytes, old, trigger, loopVars, faults, lost>>

Unlink(h) ==
    /\ erase[h].step = "unlink"
    /\ bytes' = [bytes EXCEPT ![erase[h].blob] = "none"]
    /\ old' = old \ {erase[h].blob}
    /\ Erasure(h, [step |-> "sweep", left |-> erase[h].left])
    /\ UNCHANGED <<alive, token, rows, trigger, loopVars, history>>

(* The answer; or an exception before the commit.                           *)
EndErase(h) ==
    /\ erase[h].step = "read" \/ (erase[h].step = "sweep" /\ erase[h].left = {})
    /\ Erasure(h, Idle)
    /\ UNCHANGED <<alive, token, rows, bytes, old, trigger, loopVars, history>>

-----------------------------------------------------------------------------

(* An hour passes; no request lasts one. *)
Age(c) ==
    /\ c \in OnDisk \ old /\ ~Uploading(c)
    /\ old' = old \cup {c}
    /\ UNCHANGED <<alive, token, rows, bytes, trigger, loopVars, poolVars, history>>

Crash ==
    /\ faults < MaxFaults /\ faults' = faults + 1
    /\ upload' = Idle /\ gc' = Idle /\ pruning' = FALSE
    /\ erase' = [h \in Households |-> Idle]
    /\ bracket' = [r \in Requests |-> Idle]
    /\ spoiled' = IF upload.step = "write"
                    THEN spoiled \cup {upload.content} ELSE spoiled
    /\ lost' = Triggers \ trigger
    /\ UNCHANGED <<alive, token, rows, bytes, old, trigger>>

Walk == EndGc \/ \E c \in Contents : Visit(c)
Sweep(h) == Unlink(h) \/ \E c \in Contents : Look(h, c)

Next ==
    \/ \E h \in Households, c \in Contents : BeginUpload(h, c)
    \/ StartWrite \/ EndWrite \/ CommitUpload \/ FailUpload
    \/ BeginGc \/ Walk \/ BeginPrune \/ EndPrune \/ FailPrune
    \/ \E r \in Requests :
          \/ AskPrune(r) \/ EndAskedPrune(r)
          \/ CommitDeleteUser(r) \/ FailDeleteUser(r)
          \/ \E h \in Households : DeleteUser(r, h)
    \/ \E h \in Households :
          \/ RequestErasure(h) \/ Expire(h)
          \/ BeginErase(h) \/ CommitErase(h) \/ RestoreTrigger(h)
          \/ Sweep(h) \/ EndErase(h)
    \/ \E c \in Contents : Age(c)
    \/ Crash

(* The loop runs what it has begun; the job of attachment_gc is seeded and  *)
(* due again and again, and served then (Runner); files grow old.           *)
Fairness ==
    /\ WF_vars(StartWrite) /\ WF_vars(EndWrite) /\ WF_vars(CommitUpload \/ FailUpload)
    /\ WF_vars(EndPrune \/ FailPrune) /\ WF_vars(Walk) /\ SF_vars(BeginGc)
    /\ \A c \in Contents : WF_vars(Age(c))

Spec == Init /\ [][Next]_vars /\ Fairness

-----------------------------------------------------------------------------
(* Properties.                                                              *)

(* A row has its file, whole: neither the collector, nor the erasure of     *)
(* another household that has the same content, nor a crash takes the bytes *)
(* of a live row, except where a write was torn, or an upload fell between  *)
(* the look and the unlink of an erasure.                                   *)
RowsHaveTheirBytes ==
    \A r \in rows :
        \/ bytes[r[2]] = "whole"
        \/ r[2] \in spoiled
        \/ Uploading(r[2]) /\ upload.step = "write"

(* audit_log is append-only but for those that may delete or redact, while  *)
(* they do, however their brackets overlap.  A trigger that is missing      *)
(* otherwise is one that a crash, or a bracket whose transaction failed,    *)
(* has left lifted, and the next bracket that ends puts it back.            *)
AuditLogIsProtected ==
    /\ \/ "no_delete" \in trigger \cup lost \/ pruning
       \/ \E h \in Households : erase[h].step = "bracket"
       \/ \E r \in Requests : bracket[r].step = "prune"
    /\ \/ "no_update" \in trigger \cup lost
       \/ \E r \in Requests : bracket[r].step = "redact"

(* What no row refers to any more is taken from the disk in the end, though *)
(* an erasure or an upload stopped half-way.                                *)
OrphansAreCollected ==
    \A c \in Contents :
        c \in OnDisk /\ ~IsUsed(c) ~> c \notin OnDisk \/ IsUsed(c)

=============================================================================
