--------------------------- MODULE ErasureProofs ----------------------------
(***************************************************************************)
(* Proofs about uploads: the files that stay and go (Erasure), for every    *)
(* number of households, contents and faults, and, in the second part, what *)
(* becomes of the statement lines in them (Imports), for every number of    *)
(* requests, accounts, lines, batches and transactions.  The two have no    *)
(* variable in common.  Fairness plays no part in the proofs.               *)
(***************************************************************************)
EXTENDS Erasure, Imports, TLAPS

(* What an upload and an erasure in flight carry. *)
LEMMA UploadFields ==
    ASSUME upload \in Upload \cup {Idle}
    PROVE  /\ upload # Idle <=> upload \in Upload
           /\ upload \in Upload => /\ upload.by \in Households
                                   /\ upload.content \in Contents
                                   /\ upload.step \in {"read", "write", "insert"}
           /\ upload.step \in {"read", "write", "insert"} => upload \in Upload
BY DEF Upload, Idle

LEMMA EraseFields ==
    ASSUME NEW r \in Erasing \cup {Idle}
    PROVE  /\ r = Idle <=> r.step = "idle"
           /\ r # Idle => r.left \in SUBSET Contents
           /\ r.step = "unlink" => r.blob \in Contents
           /\ r.step \in {"idle", "read", "bracket", "sweep", "unlink"}
BY DEF Erasing, Idle

LEMMA BracketFields ==
    ASSUME NEW q \in Bracket \cup {Idle}
    PROVE  /\ q = Idle <=> q.step = "idle"
           /\ q.step \in {"idle", "prune", "redact"}
           /\ q.step = "redact" => q.of \in Households
BY DEF Bracket, Idle

LEMMA GcFields ==
    ASSUME gc \in Gc \cup {Idle}, gc # Idle
    PROVE  /\ gc \in Gc
           /\ gc.left \in SUBSET Contents /\ gc.referenced \in SUBSET Contents
BY DEF Gc

-----------------------------------------------------------------------------
(* Types.                                                                   *)

LEMMA TypeInit == Init => TypeOK
<1> SUFFICES ASSUME Init PROVE TypeOK
    OBVIOUS
<1>1. /\ bytes \in [Contents -> {"none", "torn", "whole"}]
      /\ erase \in [Households -> Erasing \cup {Idle}]
    BY DEF Init
<1>2. /\ upload \in Upload \cup {Idle} /\ gc \in Gc \cup {Idle}
      /\ faults \in 0 .. MaxFaults /\ bracket \in [Requests -> Bracket \cup {Idle}]
    BY ErasureAssumption DEF Init
<1>3. rows \subseteq alive \X Contents
    BY DEF Init
<1> QED BY <1>1, <1>2, <1>3 DEF Init, TypeOK

LEMMA UploadTypes ==
    ASSUME TypeOK,
           \/ \E h \in Households, c \in Contents : BeginUpload(h, c)
           \/ StartWrite \/ EndWrite \/ CommitUpload \/ FailUpload
    PROVE  TypeOK'
<1>1. ASSUME NEW h \in Households, NEW c \in Contents, BeginUpload(h, c) PROVE TypeOK'
    BY <1>1 DEF BeginUpload, TypeOK, Upload, history, poolVars
<1>2. CASE StartWrite
    BY <1>2, UploadFields DEF StartWrite, TypeOK, Upload, poolVars
<1>3. CASE EndWrite
    BY <1>3, UploadFields DEF EndWrite, TypeOK, Upload, history, poolVars
<1>4. CASE CommitUpload
    BY <1>4, UploadFields DEF CommitUpload, TypeOK, history, poolVars
<1>5. CASE FailUpload
    BY <1>5, UploadFields, ErasureAssumption DEF FailUpload, TypeOK, poolVars
<1> QED BY <1>1, <1>2, <1>3, <1>4, <1>5

LEMMA LoopTypes ==
    ASSUME TypeOK, BeginGc \/ Walk \/ BeginPrune \/ EndPrune \/ FailPrune
    PROVE  TypeOK'
<1> USE DEF Lift, PutBack, LeaveAsItIs, DatabaseError, Triggers
<1>1. CASE BeginGc
    BY <1>1 DEF BeginGc, TypeOK, Gc, OnDisk, history, poolVars
<1>2. CASE EndGc
    BY <1>2 DEF EndGc, TypeOK, history, poolVars
<1>3. ASSUME NEW c \in Contents, Visit(c) PROVE TypeOK'
    BY <1>3, GcFields DEF Visit, TypeOK, Gc, history, poolVars
<1>4. CASE BeginPrune
    BY <1>4 DEF BeginPrune, TypeOK, history, poolVars
<1>5. CASE EndPrune
    BY <1>5 DEF EndPrune, TypeOK, history, poolVars
<1>6. CASE FailPrune
  <2>1. faults' \in 0 .. MaxFaults /\ lost' \subseteq Triggers \ trigger'
      BY <1>6, ErasureAssumption DEF FailPrune, TypeOK
  <2>2. /\ UNCHANGED <<alive, token, rows, bytes, old, trigger, upload, gc>>
        /\ UNCHANGED <<erase, bracket, spoiled>> /\ pruning' = FALSE
      BY <1>6 DEF FailPrune, poolVars
  <2> QED BY <2>1, <2>2 DEF TypeOK
<1> QED BY <1>1, <1>2, <1>3, <1>4, <1>5, <1>6 DEF Walk

(* A step of a request that lifts a trigger. *)
RequestSteps(r) ==
    \/ AskPrune(r) \/ EndAskedPrune(r) \/ CommitDeleteUser(r) \/ FailDeleteUser(r)
    \/ \E h \in Households : DeleteUser(r, h)

LEMMA RequestTypes ==
    ASSUME TypeOK, NEW r \in Requests, RequestSteps(r)
    PROVE  TypeOK'
<1> USE DEF Lift, PutBack, LeaveAsItIs, DatabaseError
<1>1. UNCHANGED <<alive, token, rows, bytes, old, upload, gc, pruning, erase, spoiled>>
    BY DEF RequestSteps, AskPrune, EndAskedPrune, CommitDeleteUser, FailDeleteUser,
           DeleteUser, Open, Close, loopVars
<1>2. bracket' \in [Requests -> Bracket \cup {Idle}]
  <2>1. CASE \/ AskPrune(r) \/ \E h \in Households : DeleteUser(r, h)
      BY <2>1 DEF AskPrune, DeleteUser, Open, TypeOK, Bracket
  <2>2. CASE \/ EndAskedPrune(r) \/ CommitDeleteUser(r) \/ FailDeleteUser(r)
      BY <2>2 DEF EndAskedPrune, CommitDeleteUser, FailDeleteUser, Close, TypeOK
  <2> QED BY <2>1, <2>2 DEF RequestSteps
<1>3. trigger' \subseteq Triggers /\ lost' \subseteq Triggers \ trigger'
  <2>1. CASE \/ AskPrune(r) \/ \E h \in Households : DeleteUser(r, h)
      BY <2>1 DEF AskPrune, DeleteUser, TypeOK
  <2>2. CASE EndAskedPrune(r)
      BY <2>2 DEF EndAskedPrune, TypeOK, Triggers
  <2>3. CASE CommitDeleteUser(r) \/ FailDeleteUser(r)
      BY <2>3 DEF CommitDeleteUser, FailDeleteUser, TypeOK, Triggers
  <2> QED BY <2>1, <2>2, <2>3 DEF RequestSteps
<1>4. faults' \in 0 .. MaxFaults
    BY ErasureAssumption
    DEF RequestSteps, AskPrune, EndAskedPrune, CommitDeleteUser, FailDeleteUser,
        DeleteUser, Open, TypeOK
<1> QED BY <1>1, <1>2, <1>3, <1>4 DEF TypeOK

LEMMA EraseTypes ==
    ASSUME TypeOK, NEW h \in Households,
           \/ RequestErasure(h) \/ Expire(h)
           \/ BeginErase(h) \/ CommitErase(h) \/ RestoreTrigger(h)
           \/ Sweep(h) \/ EndErase(h)
    PROVE  TypeOK'
<1> USE DEF Erasure, Lift, PutBack, LeaveAsItIs, DatabaseError, Triggers
<1>1. erase[h] \in Erasing \cup {Idle}
    BY DEF TypeOK
<1>2. CASE RequestErasure(h) \/ Expire(h)
    BY <1>2 DEF RequestErasure, Expire, TypeOK, loopVars, history, poolVars
<1>3. CASE BeginErase(h)
    BY <1>3 DEF BeginErase, TypeOK, loopVars, history, poolVars, Erasing
<1>4. CASE CommitErase(h)
    BY <1>1, <1>4, EraseFields DEF CommitErase, TypeOK, loopVars, history, poolVars, Erasing
<1>5. CASE RestoreTrigger(h)
    BY <1>1, <1>5, EraseFields, ErasureAssumption DEF RestoreTrigger, TypeOK, loopVars, history, poolVars, Erasing
<1>6. CASE Unlink(h)
    BY <1>1, <1>6, EraseFields DEF Unlink, TypeOK, loopVars, history, poolVars, Erasing
<1>7. ASSUME NEW c \in Contents, Look(h, c) PROVE TypeOK'
    BY <1>1, <1>7, EraseFields DEF Look, TypeOK, loopVars, Erasing, poolVars
<1>8. CASE EndErase(h)
    BY <1>8 DEF EndErase, TypeOK, loopVars, history, poolVars
<1> QED BY <1>2, <1>3, <1>4, <1>5, <1>6, <1>7, <1>8 DEF Sweep

LEMMA WorldTypes ==
    ASSUME TypeOK, (\E c \in Contents : Age(c)) \/ Crash
    PROVE  TypeOK'
<1>1. ASSUME NEW c \in Contents, Age(c) PROVE TypeOK'
    BY <1>1 DEF Age, TypeOK, OnDisk, loopVars, history, poolVars
<1>2. CASE Crash
  <2>1. /\ erase' \in [Households -> Erasing \cup {Idle}]
        /\ bracket' \in [Requests -> Bracket \cup {Idle}]
      BY <1>2 DEF Crash
  <2>2. spoiled' \subseteq Contents /\ faults' \in 0 .. MaxFaults
      BY <1>2, UploadFields, ErasureAssumption DEF Crash, TypeOK
  <2>3. /\ upload' = Idle /\ gc' = Idle /\ pruning' = FALSE /\ lost' = Triggers \ trigger
        /\ UNCHANGED <<alive, token, rows, bytes, old, trigger>>
      BY <1>2 DEF Crash, TypeOK
  <2> QED BY <2>1, <2>2, <2>3 DEF TypeOK
<1> QED BY <1>1, <1>2

LEMMA TypeStep == TypeOK /\ [Next]_vars => TypeOK'
<1> SUFFICES ASSUME TypeOK, [Next]_vars PROVE TypeOK'
    OBVIOUS
<1>1. CASE UNCHANGED vars
    BY <1>1 DEF TypeOK, vars, loopVars, history, poolVars
<1>2. CASE Next
    BY <1>2, UploadTypes, LoopTypes, RequestTypes, EraseTypes, WorldTypes
    DEF Next, RequestSteps
<1> QED BY <1>1, <1>2

(* Every reachable state has the types of the declarations. *)
THEOREM TypeCorrect == Spec => []TypeOK
BY TypeInit, TypeStep, PTL DEF Spec

-----------------------------------------------------------------------------
(* The trigger of audit_log.                                                *)

(* While a trigger is missing a bracket of its own is open, or it is one of *)
(* the lost: AuditLogIsProtected is inductive.                              *)
LEMMA ProtectedStep ==
    TypeOK /\ AuditLogIsProtected /\ [Next]_vars => AuditLogIsProtected'
<1> SUFFICES ASSUME TypeOK, AuditLogIsProtected, [Next]_vars
             PROVE  AuditLogIsProtected'
    OBVIOUS
<1> USE DEF AuditLogIsProtected, Lift, PutBack, LeaveAsItIs
<1>1. ASSUME UNCHANGED <<trigger, lost, pruning, erase, bracket>>
      PROVE  AuditLogIsProtected'
    BY <1>1
<1>2. CASE \/ UNCHANGED vars
           \/ \E h \in Households, c \in Contents : BeginUpload(h, c)
           \/ StartWrite \/ EndWrite \/ CommitUpload \/ FailUpload
           \/ BeginGc \/ Walk \/ \E c \in Contents : Age(c)
    BY <1>1, <1>2
    DEF vars, loopVars, history, poolVars, BeginUpload, StartWrite, EndWrite,
        CommitUpload, FailUpload, BeginGc, Walk, EndGc, Visit, Age
<1>3. CASE BeginPrune \/ EndPrune \/ FailPrune
    BY <1>3 DEF BeginPrune, EndPrune, FailPrune, poolVars
<1>4. ASSUME NEW h \in Households, RequestErasure(h) \/ Expire(h)
      PROVE  AuditLogIsProtected'
    BY <1>1, <1>4 DEF RequestErasure, Expire, loopVars, history, poolVars
<1>5. ASSUME NEW h \in Households, BeginErase(h) \/ EndErase(h) \/ Sweep(h)
      PROVE  AuditLogIsProtected'
  <2>1. /\ UNCHANGED <<trigger, lost, pruning, bracket>>
        /\ erase[h].step # "bracket"
        /\ \A g \in Households \ {h} : erase'[g] = erase[g]
      BY <1>5 DEF BeginErase, EndErase, Sweep, Unlink, Look, Erasure, Idle,
                  loopVars, history, TypeOK
  <2> QED BY <2>1
<1>6. ASSUME NEW h \in Households, CommitErase(h) \/ RestoreTrigger(h)
      PROVE  AuditLogIsProtected'
  <2>1. CASE CommitErase(h)
    <3>1. erase'[h].step = "bracket"
        BY <2>1, EraseFields DEF CommitErase, Erasure, TypeOK, Erasing, Idle
    <3>2. UNCHANGED bracket /\ trigger' \cup lost' = (trigger \ {"no_delete"}) \cup lost
        BY <2>1 DEF CommitErase, Erasure
    <3> QED BY <3>1, <3>2
  <2>2. CASE RestoreTrigger(h)
    <3>1. /\ UNCHANGED bracket
          /\ "no_delete" \in trigger' \cup lost'
          /\ "no_update" \in trigger \cup lost => "no_update" \in trigger' \cup lost'
        BY <2>2 DEF RestoreTrigger, Erasure
    <3> QED BY <3>1
  <2> QED BY <1>6, <2>1, <2>2
<1>7. ASSUME NEW r \in Requests, RequestSteps(r) PROVE AuditLogIsProtected'
  <2> USE DEF Open, Close, loopVars
  <2>1. /\ UNCHANGED <<pruning, erase>>
        /\ \A q \in Requests \ {r} : bracket'[q] = bracket[q]
      BY <1>7 DEF RequestSteps, AskPrune, EndAskedPrune, CommitDeleteUser,
                  FailDeleteUser, DeleteUser, TypeOK
  <2>2. CASE AskPrune(r)
    <3>1. /\ bracket'[r].step = "prune" /\ bracket[r].step = "idle"
          /\ trigger' \cup lost' = (trigger \ {"no_delete"}) \cup lost
        BY <2>2 DEF AskPrune, TypeOK, Idle
    <3> QED BY <2>1, <3>1
  <2>3. ASSUME NEW h \in Households, DeleteUser(r, h) PROVE AuditLogIsProtected'
    <3>1. /\ bracket'[r].step = "redact" /\ bracket[r].step = "idle"
          /\ trigger' \cup lost' = (trigger \ {"no_update"}) \cup lost
        BY <2>3 DEF DeleteUser, TypeOK, Idle
    <3> QED BY <2>1, <3>1
  <2>4. CASE EndAskedPrune(r)
    <3>1. /\ bracket[r].step = "prune"
          /\ "no_delete" \in trigger' \cup lost'
          /\ "no_update" \in trigger \cup lost => "no_update" \in trigger' \cup lost'
        BY <2>4 DEF EndAskedPrune
    <3> QED BY <2>1, <3>1
  <2>5. CASE CommitDeleteUser(r) \/ FailDeleteUser(r)
    <3>1. /\ bracket[r].step = "redact"
          /\ "no_update" \in trigger' \cup lost'
          /\ "no_delete" \in trigger \cup lost => "no_delete" \in trigger' \cup lost'
        BY <2>5 DEF CommitDeleteUser, FailDeleteUser
    <3> QED BY <2>1, <3>1
  <2> QED BY <1>7, <2>2, <2>3, <2>4, <2>5 DEF RequestSteps
<1>8. CASE Crash
    BY <1>8 DEF Crash, TypeOK, Triggers
<1> QED BY <1>2, <1>3, <1>4, <1>5, <1>6, <1>7, <1>8 DEF Next, RequestSteps

(* audit_log is append-only but while a bracket of those that may delete or *)
(* redact is open, however the brackets overlap, unless a crash or a bracket*)
(* that failed left a trigger lifted and no bracket has ended since.        *)
THEOREM LogProtected == Spec => []AuditLogIsProtected
<1>1. Init => AuditLogIsProtected
    BY DEF Init, AuditLogIsProtected, Triggers
<1> QED BY <1>1, TypeInit, TypeStep, ProtectedStep, PTL DEF Spec

-----------------------------------------------------------------------------
(* The bytes of live rows.                                                  *)

Present(c) == \/ bytes[c] = "whole" \/ c \in spoiled
              \/ Uploading(c) /\ upload.step = "write"

(* What the writers of bytes rely on: an upload past its write has them;    *)
(* where an upload, or a row, meets an erasure about to unlink, the content *)
(* is known to be spoiled; and a collection has read every row there is.    *)
UploadInv ==
    upload.step = "insert" => bytes[upload.content] = "whole"
                              \/ upload.content \in spoiled
MeetInv ==
    \A h \in Households, c \in Contents :
        Sweeps(h, c) => /\ Uploading(c) /\ upload.step \in {"write", "insert"}
                             => c \in spoiled
                        /\ IsUsed(c) => c \in spoiled
GcInv ==
    gc # Idle => /\ upload = Idle
                 /\ \A c \in Contents : IsUsed(c) => c \in gc.referenced
BytesInv ==
    /\ \A c \in Contents : IsUsed(c) => Present(c)
    /\ UploadInv /\ MeetInv /\ GcInv

LEMMA BytesOfRows == TypeOK /\ BytesInv => RowsHaveTheirBytes
<1> SUFFICES ASSUME TypeOK, BytesInv, NEW r \in rows PROVE Present(r[2])
    BY DEF RowsHaveTheirBytes, Present
<1>1. PICK h \in Households, c \in Contents : r = <<h, c>>
    BY DEF TypeOK
<1>2. r[2] = c /\ IsUsed(c)
    BY <1>1 DEF IsUsed
<1> QED BY <1>2 DEF BytesInv

(* What a step that leaves the rows or the sweeps alone leaves alone. *)
LEMMA Frames ==
    /\ rows' = rows => \A c : IsUsed(c)' = IsUsed(c)
    /\ erase' = erase => \A h, c : Sweeps(h, c)' = Sweeps(h, c)
    /\ upload' = upload => \A c : Uploading(c)' = Uploading(c)
BY DEF IsUsed, Sweeps, Uploading

LEMMA UploadBytes ==
    ASSUME TypeOK, BytesInv,
           \/ \E h \in Households, c \in Contents : BeginUpload(h, c)
           \/ StartWrite \/ EndWrite \/ CommitUpload \/ FailUpload
    PROVE  BytesInv'
<1> USE DEF BytesInv, UploadInv, MeetInv, GcInv, Present
<1>1. ASSUME NEW h \in Households, NEW c \in Contents, BeginUpload(h, c) PROVE BytesInv'
    BY <1>1, Frames DEF BeginUpload, LoopIsFree, Uploading, history, poolVars
<1>2. CASE StartWrite
  <2>1. /\ upload \in Upload /\ upload.content \in Contents /\ gc = Idle
        /\ gc' = gc /\ upload' # Idle /\ upload'.step = "write"
        /\ upload'.content = upload.content
        /\ bytes' = [bytes EXCEPT ![upload.content] = "torn"]
        /\ spoiled' = spoiled \cup
                         {c \in {upload.content} : \E h \in Households : Sweeps(h, c)}
        /\ rows' = rows /\ erase' = erase
      BY <1>2, UploadFields DEF StartWrite, TypeOK, Upload, Idle, poolVars
  <2>2. \A c \in Contents : (IsUsed(c) => Present(c))'
      BY <2>1, Frames DEF Uploading, TypeOK
  <2>3. MeetInv'
      BY <2>1, Frames DEF Uploading
  <2> QED BY <2>1, <2>2, <2>3
<1>3. CASE EndWrite
  <2>1. /\ upload \in Upload /\ upload.content \in Contents /\ upload.step = "write"
        /\ gc' = gc /\ upload # Idle /\ upload' # Idle /\ upload'.step = "insert"
        /\ upload'.content = upload.content
        /\ bytes' = [bytes EXCEPT ![upload.content] = "whole"]
        /\ spoiled' = spoiled
        /\ rows' = rows /\ erase' = erase
      BY <1>3, UploadFields DEF EndWrite, TypeOK, Upload, Idle, history, poolVars
  <2>2. \A c \in Contents : (IsUsed(c) => Present(c))'
      BY <2>1, Frames DEF Uploading, TypeOK
  <2>3. MeetInv'
      BY <2>1, Frames DEF Uploading
  <2>4. UploadInv'
      BY <2>1 DEF TypeOK
  <2> QED BY <2>1, <2>2, <2>3, <2>4
<1>4. CASE CommitUpload
  <2>1. /\ upload \in Upload /\ upload.content \in Contents /\ upload.step = "insert"
        /\ gc = Idle /\ gc' = gc /\ upload # Idle /\ upload' = Idle
        /\ bytes' = bytes /\ spoiled' = spoiled /\ erase' = erase
        /\ rows' = rows \cup {<<upload.by, upload.content>>}
      BY <1>4, UploadFields DEF CommitUpload, TypeOK, Idle, history, poolVars
  <2>2. \A c \in Contents : IsUsed(c)' => IsUsed(c) \/ c = upload.content
      BY <2>1 DEF IsUsed
  <2>3. \A c \in Contents : (IsUsed(c) => Present(c))'
      BY <2>1, <2>2 DEF Uploading
  <2>4. MeetInv'
      BY <2>1, <2>2, Frames DEF Uploading
  <2> QED BY <2>1, <2>3, <2>4 DEF Idle
<1>5. CASE FailUpload
  <2>1. /\ upload \in Upload /\ gc = Idle /\ gc' = gc /\ upload' = Idle
        /\ bytes' = bytes /\ spoiled \subseteq spoiled'
        /\ upload.step = "write" => upload.content \in spoiled'
        /\ rows' = rows /\ erase' = erase
      BY <1>5, UploadFields DEF FailUpload, TypeOK, poolVars
  <2>2. \A c \in Contents : (IsUsed(c) => Present(c))'
      BY <2>1, Frames DEF Uploading
  <2>3. MeetInv'
      BY <2>1, Frames DEF Uploading
  <2> QED BY <2>1, <2>2, <2>3 DEF Idle
<1> QED BY <1>1, <1>2, <1>3, <1>4, <1>5

LEMMA LoopBytes ==
    ASSUME TypeOK, BytesInv, BeginGc \/ Walk \/ BeginPrune \/ EndPrune \/ FailPrune
    PROVE  BytesInv'
<1> USE DEF BytesInv, UploadInv, MeetInv, GcInv, Present
<1>1. CASE BeginGc
    BY <1>1, Frames DEF BeginGc, LoopIsFree, history, poolVars
<1>2. CASE EndGc \/ BeginPrune \/ EndPrune \/ FailPrune
    BY <1>2, Frames DEF EndGc, BeginPrune, EndPrune, FailPrune, history, poolVars
<1>3. ASSUME NEW c \in Contents, Visit(c) PROVE BytesInv'
  <2>1. /\ gc # Idle /\ upload = Idle /\ upload' = upload
        /\ gc'.referenced = gc.referenced
        /\ IsUsed(c) => bytes' = bytes
        /\ \A d \in Contents \ {c} : bytes'[d] = bytes[d]
        /\ UNCHANGED <<rows, erase, spoiled>>
      BY <1>3, GcFields DEF Visit, Collectable, TypeOK, Gc, history, poolVars
  <2>2. \A d \in Contents : (IsUsed(d) => Present(d))'
      BY <2>1, Frames DEF Uploading
  <2> QED BY <2>1, <2>2, Frames DEF Idle
<1> QED BY <1>1, <1>2, <1>3 DEF Walk

LEMMA RequestBytes ==
    ASSUME TypeOK, BytesInv, NEW r \in Requests, RequestSteps(r)
    PROVE  BytesInv'
<1>1. UNCHANGED <<rows, bytes, upload, gc, erase, spoiled>>
    BY DEF RequestSteps, AskPrune, EndAskedPrune, CommitDeleteUser, FailDeleteUser,
           DeleteUser, Open, Close, loopVars
<1> QED BY <1>1, Frames DEF BytesInv, UploadInv, MeetInv, GcInv, Present

LEMMA EraseBytes ==
    ASSUME TypeOK, BytesInv, NEW h \in Households,
           \/ RequestErasure(h) \/ Expire(h)
           \/ BeginErase(h) \/ CommitErase(h) \/ RestoreTrigger(h)
           \/ Sweep(h) \/ EndErase(h)
    PROVE  BytesInv'
<1> USE DEF BytesInv, UploadInv, MeetInv, GcInv, Present
<1>1. CASE RequestErasure(h) \/ Expire(h)
    BY <1>1, Frames DEF RequestErasure, Expire, loopVars, history, poolVars
<1>2. CASE BeginErase(h) \/ RestoreTrigger(h) \/ EndErase(h)
  <2>1. /\ UNCHANGED <<rows, bytes, upload, gc, spoiled>>
        /\ \A g \in Households, c \in Contents : Sweeps(g, c)' => Sweeps(g, c)
      BY <1>2, EraseFields
      DEF BeginErase, RestoreTrigger, EndErase, Erasure, Sweeps, Erasing, Idle,
          loopVars, history, poolVars, TypeOK
  <2> QED BY <2>1, Frames
<1>3. CASE CommitErase(h)
  <2>1. /\ UNCHANGED <<bytes, upload, gc, spoiled>> /\ rows' \subseteq rows
      BY <1>3 DEF CommitErase, loopVars, history, poolVars
  <2>2. \A c \in Contents : IsUsed(c)' => IsUsed(c)
      BY <2>1 DEF IsUsed
  <2>3. \A g \in Households, c \in Contents : Sweeps(g, c)' => Sweeps(g, c)
      BY <1>3, EraseFields DEF CommitErase, Erasure, Sweeps, Erasing, TypeOK
  <2> QED BY <2>1, <2>2, <2>3, Frames
<1>4. CASE Unlink(h)
  <2>1. PICK c \in Contents : Sweeps(h, c)
      BY <1>4, EraseFields DEF Unlink, Sweeps, TypeOK
  <2>2. /\ UNCHANGED <<rows, upload, gc, spoiled>>
        /\ \A d \in Contents \ {c} : bytes'[d] = bytes[d]
        /\ \A g \in Households, d \in Contents : Sweeps(g, d)' => Sweeps(g, d)
      BY <1>4, <2>1 DEF Unlink, Erasure, Sweeps, loopVars, history, poolVars, TypeOK
  <2>3. \A d \in Contents : (IsUsed(d) => Present(d))'
      BY <2>1, <2>2, Frames DEF Uploading
  <2>4. UploadInv'
      BY <2>1, <2>2, UploadFields DEF Uploading, TypeOK, Idle
  <2> QED BY <2>2, <2>3, <2>4, Frames
<1>5. ASSUME NEW c \in Contents, Look(h, c) PROVE BytesInv'
  <2>1. /\ UNCHANGED <<rows, bytes, upload, gc>>
        /\ spoiled \subseteq spoiled'
        /\ ~IsUsed(c) /\ Uploading(c) => c \in spoiled'
      BY <1>5 DEF Look, loopVars
  <2>2. \A g \in Households, d \in Contents :
           Sweeps(g, d)' => Sweeps(g, d) \/ (d = c /\ ~IsUsed(c))
      BY <1>5, EraseFields DEF Look, Erasure, Sweeps, Erasing, TypeOK
  <2>3. MeetInv'
      BY <2>1, <2>2, Frames
  <2> QED BY <2>1, <2>3, Frames
<1>6. CASE EndErase(h)
    BY <1>2, <1>6
<1> QED BY <1>1, <1>2, <1>3, <1>4, <1>5 DEF Sweep

LEMMA WorldBytes ==
    ASSUME TypeOK, BytesInv, (\E c \in Contents : Age(c)) \/ Crash
    PROVE  BytesInv'
<1> USE DEF BytesInv, UploadInv, MeetInv, GcInv, Present
<1>1. CASE \E c \in Contents : Age(c)
    BY <1>1, Frames DEF Age, loopVars, history, poolVars
<1>2. CASE Crash
  <2>1. /\ upload' = Idle /\ gc' = Idle /\ UNCHANGED <<rows, bytes>>
        /\ spoiled \subseteq spoiled'
        /\ upload.step = "write" => upload.content \in spoiled'
        /\ \A h \in Households, c \in Contents : ~Sweeps(h, c)'
      BY <1>2 DEF Crash, Sweeps, Idle
  <2>2. \A c \in Contents : (IsUsed(c) => Present(c))'
      BY <2>1, Frames DEF Uploading
  <2> QED BY <2>1, <2>2 DEF Idle
<1> QED BY <1>1, <1>2

LEMMA BytesStep == TypeOK /\ BytesInv /\ [Next]_vars => BytesInv'
<1> SUFFICES ASSUME TypeOK, BytesInv, [Next]_vars PROVE BytesInv'
    OBVIOUS
<1>1. CASE UNCHANGED vars
    BY <1>1, Frames
    DEF vars, loopVars, history, poolVars, BytesInv, UploadInv, MeetInv, GcInv, Present
<1>2. CASE Next
    BY <1>2, UploadBytes, LoopBytes, RequestBytes, EraseBytes, WorldBytes
    DEF Next, RequestSteps
<1> QED BY <1>1, <1>2

(* Whatever erasures, collections, failures and crashes are in flight, the  *)
(* file of a live row is there and whole, except where a write was torn or  *)
(* an upload met the unlink of an erasure.                                  *)
THEOREM RowsKeepTheirBytes == Spec => []RowsHaveTheirBytes
<1>1. Init => BytesInv
    BY DEF Init, BytesInv, UploadInv, MeetInv, GcInv, IsUsed, Sweeps, Idle
<1> QED BY <1>1, TypeInit, TypeStep, BytesStep, BytesOfRows, PTL DEF Spec

-----------------------------------------------------------------------------
(* Imports.                                                                 *)


(* The fields a request of each kind carries. *)
LEMMA RequestFields ==
    ASSUME NEW r \in Request
    PROVE  /\ r.op = "promote" => /\ r.batch \in Batch /\ r.lines \in SUBSET Line
                                  /\ r.applies \in BOOLEAN
           /\ r.op = "exclude" => r.line \in Line /\ r.to \in BOOLEAN
           /\ r.op = "delete"  => r.batch \in Batch
           /\ r.op = "discard" => r.tx \in Tx
           /\ r.op = "idle" <=> r = ImIdle
BY DEF Request, ImIdle

LEMMA LinesOfBatch ==
    ASSUME NEW b \in Batch
    PROVE  /\ LinesOf(b) \subseteq Line
           /\ \A l \in Line : l \in LinesOf(b) <=> l[1] = b
           /\ \A l \in Line : l[1] \in Batch
BY DEF LinesOf, Line

LEMMA NoTxIsNone == NoTx \notin Tx
BY DEF NoTx, Tx

-----------------------------------------------------------------------------
(* What Land does, with one name for the new ids.                           *)

Landed(groups, from, statuses, id) ==
    /\ id \in [groups -> Tx]
    /\ \A g, h \in groups : id[g] = id[h] => g = h
    /\ \A g \in groups :
          /\ tx[id[g]].status = "absent"
          /\ tx'[id[g]].status \in statuses
          /\ tx'[id[g]].lines = g /\ tx'[id[g]].from = from[g]
          /\ \A l \in g : promoted'[l] = id[g]
    /\ \A t \in Tx : (\A g \in groups : id[g] # t) => tx'[t] = tx[t]
    /\ \A l \in Line : (\A g \in groups : l \notin g) => promoted'[l] = promoted[l]
    /\ promoted' \in [Line -> Tx \cup {NoTx}]
    /\ tx' \in [Tx -> [status : {"absent", "pending", "posted", "deleted"},
                       lines : SUBSET Line, from : Batch]]

LEMMA LandEffect ==
    ASSUME ImTypeOK, NEW groups \in SUBSET SUBSET Line, NEW from \in [groups -> Batch],
           NEW statuses \in SUBSET {"pending", "posted"},
           \A g, h \in groups : \A l \in g : l \in h => g = h,
           Land(groups, from, statuses)
    PROVE  \E id : Landed(groups, from, statuses, id)
<1>1. PICK id \in [groups -> Tx] :
         /\ \A g, h \in groups : id[g] = id[h] => g = h
         /\ FreshTxs({id[g] : g \in groups})
         /\ \E status \in [groups -> statuses] :
               tx' = [t \in Tx |->
                         IF \E g \in groups : id[g] = t
                           THEN LET g == CHOOSE g \in groups : id[g] = t IN
                                [status |-> status[g], lines |-> g, from |-> from[g]]
                           ELSE tx[t]]
         /\ promoted' = [l \in Line |->
                            IF \E g \in groups : l \in g
                              THEN id[CHOOSE g \in groups : l \in g]
                              ELSE promoted[l]]
    BY DEF Land
<1>2. PICK status \in [groups -> statuses] :
         tx' = [t \in Tx |->
                   IF \E g \in groups : id[g] = t
                     THEN LET g == CHOOSE g \in groups : id[g] = t IN
                          [status |-> status[g], lines |-> g, from |-> from[g]]
                     ELSE tx[t]]
    BY <1>1
<1>3. ASSUME NEW g \in groups
      PROVE  /\ (CHOOSE h \in groups : id[h] = id[g]) = g
             /\ \A l \in g : (CHOOSE h \in groups : l \in h) = g
  <2>1. \E h \in groups : id[h] = id[g]
      OBVIOUS
  <2>2. (CHOOSE h \in groups : id[h] = id[g]) = g
      BY <1>1, <2>1
  <2>3. ASSUME NEW l \in g PROVE (CHOOSE h \in groups : l \in h) = g
    <3>1. (CHOOSE h \in groups : l \in h) \in groups
          /\ l \in (CHOOSE h \in groups : l \in h)
        OBVIOUS
    <3> QED BY <3>1
  <2> QED BY <2>2, <2>3
<1>4. ASSUME NEW g \in groups
      PROVE  /\ tx[id[g]].status = "absent"
             /\ tx'[id[g]] = [status |-> status[g], lines |-> g, from |-> from[g]]
             /\ \A l \in g : promoted'[l] = id[g]
  <2>1. id[g] \in Tx /\ id[g] \in {id[h] : h \in groups}
      OBVIOUS
  <2>2. tx[id[g]].status = "absent"
      BY <1>1, <2>1 DEF FreshTxs
  <2>3. tx'[id[g]] = [status |-> status[g], lines |-> g, from |-> from[g]]
      BY <1>2, <1>3, <2>1
  <2>4. \A l \in g : promoted'[l] = id[g]
      BY <1>1, <1>3
  <2> QED BY <2>2, <2>3, <2>4
<1>5. promoted' \in [Line -> Tx \cup {NoTx}]
  <2>1. ASSUME NEW l \in Line, \E g \in groups : l \in g
        PROVE  id[CHOOSE g \in groups : l \in g] \in Tx
    <3>1. (CHOOSE g \in groups : l \in g) \in groups
        BY <2>1
    <3> QED BY <3>1
  <2> QED BY <1>1, <2>1 DEF ImTypeOK
<1>6. \A t \in Tx : (\A g \in groups : id[g] # t) => tx'[t] = tx[t]
    BY <1>2
<1>7. tx' \in [Tx -> [status : {"absent", "pending", "posted", "deleted"},
                      lines : SUBSET Line, from : Batch]]
  <2>1. ASSUME NEW t \in Tx
        PROVE  tx'[t] \in [status : {"absent", "pending", "posted", "deleted"},
                           lines : SUBSET Line, from : Batch]
    <3>1. CASE \E g \in groups : id[g] = t
      <4>1. PICK g \in groups : id[g] = t
          BY <3>1
      <4>2. status[g] \in {"absent", "pending", "posted", "deleted"}
          OBVIOUS
      <4>3. tx'[t] = [status |-> status[g], lines |-> g, from |-> from[g]]
          BY <1>4, <4>1
      <4> QED BY <4>2, <4>3
    <3>2. CASE \A g \in groups : id[g] # t
      <4>1. tx'[t] = tx[t]
          BY <1>6, <3>2
      <4> QED BY <4>1 DEF ImTypeOK
    <3> QED BY <3>1, <3>2
  <2>2. tx' = [t \in Tx |-> tx'[t]]
      BY <1>2
  <2> QED BY <2>1, <2>2
<1>8. \A l \in Line : (\A g \in groups : l \notin g) => promoted'[l] = promoted[l]
    BY <1>1
<1>9. \A g \in groups :
          /\ tx[id[g]].status = "absent"
          /\ tx'[id[g]].status \in statuses
          /\ tx'[id[g]].lines = g /\ tx'[id[g]].from = from[g]
          /\ \A l \in g : promoted'[l] = id[g]
  <2>1. ASSUME NEW g \in groups
        PROVE  /\ tx'[id[g]].status \in statuses
               /\ tx'[id[g]].lines = g /\ tx'[id[g]].from = from[g]
    <3>1. status[g] \in statuses
        OBVIOUS
    <3>2. tx'[id[g]] = [status |-> status[g], lines |-> g, from |-> from[g]]
        BY <1>4
    <3> QED BY <3>1, <3>2
  <2> QED BY <1>4, <2>1
<1>10. Landed(groups, from, statuses, id)
    BY <1>1, <1>5, <1>6, <1>7, <1>8, <1>9 DEF Landed
<1> QED BY <1>10

(* The groups of a promote and of a two-account upload are disjoint. *)
LEMMA Singletons ==
    ASSUME NEW lines \in SUBSET Line
    PROVE  /\ {{l} : l \in lines} \in SUBSET SUBSET Line
           /\ \A g, h \in {{l} : l \in lines} : \A l \in g : l \in h => g = h
OBVIOUS

LEMMA PairsAndLegs ==
    ASSUME NEW b \in Batch, b + 1 \in Batch, NEW pairs \in SUBSET Positions,
           NEW legs \in SUBSET ({b, b + 1} \X (Positions \ pairs))
    PROVE  /\ PairTransfers(b, pairs, legs) \in SUBSET SUBSET Line
           /\ \A g, h \in PairTransfers(b, pairs, legs) :
                 \A l \in g : l \in h => g = h
           /\ \A g \in PairTransfers(b, pairs, legs) :
                 \A l \in g : l[1] \in {b, b + 1}
<1>1. \A i \in pairs : <<b, i>> \in Line /\ <<b + 1, i>> \in Line
    BY DEF Line
<1>2. b # b + 1
    BY DEF Batch
<1>3. \A l \in legs : l \in Line /\ l[1] \in {b, b + 1} /\ l[2] \notin pairs
    BY DEF Line
<1> DEFINE Pair(i) == {<<b, i>>, <<b + 1, i>>}
<1>4. \A g \in PairTransfers(b, pairs, legs) :
         (\E i \in pairs : g = Pair(i)) \/ (\E l \in legs : g = {l})
    BY DEF PairTransfers
<1>5. ASSUME NEW i \in pairs, NEW l \in Pair(i)
      PROVE  l \in Line /\ l[1] \in {b, b + 1} /\ l[2] = i
  <2>1. CASE l = <<b, i>>
      BY <1>1, <2>1
  <2>2. CASE l = <<b + 1, i>>
      BY <1>1, <2>2
  <2> QED BY <2>1, <2>2
<1> HIDE DEF Pair
<1>6. ASSUME NEW g \in PairTransfers(b, pairs, legs)
      PROVE  \A l \in g : l \in Line /\ l[1] \in {b, b + 1}
    BY <1>3, <1>4, <1>5
<1>7. ASSUME NEW g \in PairTransfers(b, pairs, legs),
             NEW h \in PairTransfers(b, pairs, legs), NEW l \in g, l \in h
      PROVE  g = h
  <2>1. CASE \E i \in pairs : g = Pair(i)
      BY <1>3, <1>4, <1>5, <1>7, <2>1
  <2>2. CASE \E k \in legs : g = {k}
      BY <1>3, <1>4, <1>5, <1>7, <2>2
  <2> QED BY <1>4, <2>1, <2>2
<1> QED BY <1>6, <1>7

-----------------------------------------------------------------------------
(* Types.                                                                   *)

LEMMA ImTypeInit == ImInit => ImTypeOK
<1> SUFFICES ASSUME ImInit PROVE ImTypeOK
    OBVIOUS
<1>1. 1 \in Batch
    BY ImportsAssumption DEF Batch
<1>2. batch \in [Batch -> [status : {"absent", "parsed", "applied", "deleted"},
                            account : Accounts]]
    BY DEF ImInit
<1>3. tx \in [Tx -> [status : {"absent", "pending", "posted", "deleted"},
                      lines : SUBSET Line, from : Batch]]
    BY <1>1 DEF ImInit
<1> QED BY <1>2, <1>3 DEF ImInit, ImTypeOK, Request

LEMMA PromoteTyped ==
    ASSUME ImTypeOK, NEW s \in Slots, CommitPromote(s)
    PROVE  LET groups == {{l} : l \in req[s].lines}
           IN /\ req[s] \in Request /\ req[s].batch \in Batch
              /\ req[s].lines \in SUBSET Line
              /\ \E id : Landed(groups, [g \in groups |-> req[s].batch],
                                {"pending", "posted"}, id)
<1> DEFINE groups == {{l} : l \in req[s].lines}
<1>1. req[s] \in Request /\ req[s].batch \in Batch /\ req[s].lines \in SUBSET Line
    BY RequestFields DEF CommitPromote, ImTypeOK
<1>2. /\ groups \in SUBSET SUBSET Line
      /\ \A g, h \in groups : \A l \in g : l \in h => g = h
    BY <1>1, Singletons
<1>3. [g \in groups |-> req[s].batch] \in [groups -> Batch]
    BY <1>1
<1>4. Land(groups, [g \in groups |-> req[s].batch], {"pending", "posted"})
    BY DEF CommitPromote
<1> HIDE DEF groups
<1>5. \E id : Landed(groups, [g \in groups |-> req[s].batch], {"pending", "posted"}, id)
    BY <1>2, <1>3, <1>4, LandEffect
<1> QED BY <1>1, <1>5 DEF groups

(* An upload of a two-account file, likewise. *)
Uploads(b, a, c, groups, from, id) ==
    /\ b + 1 \in Batch /\ FreshBatches({b, b + 1})
    /\ batch' = [batch EXCEPT ![b] = Parsed(a), ![b + 1] = Parsed(c)]
    /\ from \in [groups -> {b, b + 1}]
    /\ \A g, h \in groups : \A l \in g : l \in h => g = h
    /\ \A g \in groups : \A l \in g : l[1] \in {b, b + 1}
    /\ Landed(groups, from, {"pending"}, id)

LEMMA UploadTyped ==
    ASSUME ImTypeOK, NEW s \in Slots, NEW a \in Accounts, NEW c \in Accounts,
           UploadMultiAccount(s, a, c)
    PROVE  \E b \in Batch : \E groups \in SUBSET SUBSET Line : \E from, id :
              Uploads(b, a, c, groups, from, id)
<1> DEFINE Lands(b, pairs, legs) ==
              /\ b + 1 \in Batch /\ FreshBatches({b, b + 1})
              /\ batch' = [batch EXCEPT ![b] = Parsed(a), ![b + 1] = Parsed(c)]
              /\ \E from \in [PairTransfers(b, pairs, legs) -> {b, b + 1}] :
                    Land(PairTransfers(b, pairs, legs), from, {"pending"})
<1>0. PICK b \in Batch : \E pairs \in SUBSET Positions :
         \E legs \in SUBSET ({b, b + 1} \X (Positions \ pairs)) : Lands(b, pairs, legs)
    BY Zenon DEF UploadMultiAccount
<1>01. PICK pairs \in SUBSET Positions :
         \E legs \in SUBSET ({b, b + 1} \X (Positions \ pairs)) : Lands(b, pairs, legs)
    BY <1>0, Zenon
<1>1. PICK legs \in SUBSET ({b, b + 1} \X (Positions \ pairs)) : Lands(b, pairs, legs)
    BY <1>01, Zenon
<1>2. PICK from \in [PairTransfers(b, pairs, legs) -> {b, b + 1}] :
         Land(PairTransfers(b, pairs, legs), from, {"pending"})
    BY <1>1
<1>3. PICK groups : groups = PairTransfers(b, pairs, legs)
    OBVIOUS
<1>4. /\ groups \in SUBSET SUBSET Line
      /\ \A g, h \in groups : \A l \in g : l \in h => g = h
      /\ \A g \in groups : \A l \in g : l[1] \in {b, b + 1}
    BY <1>1, <1>3, PairsAndLegs
<1>5. from \in [groups -> Batch]
    BY <1>1, <1>2, <1>3
<1>6. PICK id : Landed(groups, from, {"pending"}, id)
    BY <1>2, <1>3, <1>4, <1>5, LandEffect
<1>7. Uploads(b, a, c, groups, from, id)
    BY <1>1, <1>2, <1>3, <1>4, <1>6 DEF Uploads
<1> QED BY <1>4, <1>7, Zenon

LEMMA ImTypeStep == ImTypeOK /\ [ImNext]_imVars => ImTypeOK'
<1> SUFFICES ASSUME ImTypeOK, [ImNext]_imVars PROVE ImTypeOK'
    OBVIOUS
<1>1. ASSUME NEW s \in Slots, NEW r \in Request, Begin(s, r) PROVE ImTypeOK'
    BY <1>1 DEF Begin, imRows, ImTypeOK, Meets
<1>2. ASSUME NEW s \in Slots, NEW b \in Batch, BeginApply(s, b) PROVE ImTypeOK'
  <2>1. [op |-> "promote", batch |-> b, lines |-> Applicable(b),
         applies |-> TRUE] \in Request
      BY LinesOfBatch DEF Applicable, Request
  <2> QED BY <1>1, <1>2, <2>1 DEF BeginApply, BeginOnLoop
<1>3. ASSUME NEW s \in Slots, NEW l \in Line, BeginPromote(s, l) PROVE ImTypeOK'
  <2>1. [op |-> "promote", batch |-> l[1], lines |-> {l}, applies |-> FALSE] \in Request
      BY DEF Line, Request
  <2> QED BY <1>1, <1>3, <2>1 DEF BeginPromote, BeginOnLoop
<1>4. ASSUME NEW s \in Slots, NEW l \in Line, BeginExclude(s, l) PROVE ImTypeOK'
  <2>1. [op |-> "exclude", line |-> l, to |-> l \notin excluded] \in Request
      BY DEF Request
  <2> QED BY <1>1, <1>4, <2>1 DEF BeginExclude
<1>5. ASSUME NEW s \in Slots, NEW b \in Batch, BeginDelete(s, b) PROVE ImTypeOK'
  <2>1. [op |-> "delete", batch |-> b] \in Request
      BY DEF Request
  <2> QED BY <1>1, <1>5, <2>1 DEF BeginDelete
<1>6. ASSUME NEW s \in Slots, NEW t \in Tx, BeginDiscard(s, t) PROVE ImTypeOK'
  <2>1. [op |-> "discard", tx |-> t] \in Request
      BY DEF Request
  <2> QED BY <1>1, <1>6, <2>1 DEF BeginDiscard
<1>7. ASSUME NEW s \in Slots, CommitPromote(s) PROVE ImTypeOK'
  <2>1. req[s].batch \in Batch
      BY <1>7, PromoteTyped
  <2>2. promoted' \in [Line -> Tx \cup {NoTx}] /\
        tx' \in [Tx -> [status : {"absent", "pending", "posted", "deleted"},
                        lines : SUBSET Line, from : Batch]]
      BY <1>7, PromoteTyped DEF Landed
  <2>3. batch' \in [Batch -> [status : {"absent", "parsed", "applied", "deleted"},
                              account : Accounts]]
      BY <1>7, <2>1 DEF CommitPromote, ImTypeOK
  <2> QED BY <1>7, <2>2, <2>3 DEF CommitPromote, Done, ImTypeOK, Request
<1>8. ASSUME NEW s \in Slots, CommitExclude(s) PROVE ImTypeOK'
  <2>1. req[s].line \in Line
      BY <1>8, RequestFields DEF CommitExclude, ImTypeOK
  <2> QED BY <1>8, <2>1 DEF CommitExclude, Done, ImTypeOK, Request
<1>9. ASSUME NEW s \in Slots, CommitDelete(s) PROVE ImTypeOK'
    BY <1>9 DEF CommitDelete, Done, ImTypeOK, Request
<1>10. ASSUME NEW s \in Slots, CommitDiscard(s) PROVE ImTypeOK'
    BY <1>10 DEF CommitDiscard, Done, ImTypeOK, Request
<1>11. ASSUME NEW s \in Slots, Abort(s) PROVE ImTypeOK'
    BY <1>11 DEF Abort, imRows, ImTypeOK, Request
<1>12. ASSUME NEW s \in Slots, NEW a \in Accounts, NEW force \in BOOLEAN,
              UploadFile(s, a, force) PROVE ImTypeOK'
    BY <1>12 DEF UploadFile, Parsed, Meets, ImTypeOK
<1>13. ASSUME NEW s \in Slots, NEW a \in Accounts, NEW c \in Accounts,
              UploadMultiAccount(s, a, c) PROVE ImTypeOK'
  <2>1. /\ promoted' \in [Line -> Tx \cup {NoTx}]
        /\ tx' \in [Tx -> [status : {"absent", "pending", "posted", "deleted"},
                           lines : SUBSET Line, from : Batch]]
        /\ batch' \in [Batch -> [status : {"absent", "parsed", "applied", "deleted"},
                                 account : Accounts]]
    <3>1. PICK b, groups, from, id : b \in Batch /\ Uploads(b, a, c, groups, from, id)
        BY <1>13, UploadTyped, Zenon
    <3> QED BY <3>1 DEF Uploads, Landed, Parsed, ImTypeOK
  <2> QED BY <1>13, <2>1 DEF UploadMultiAccount, Meets, ImTypeOK
<1>14. CASE UNCHANGED imVars
    BY <1>14 DEF imVars, ImTypeOK
<1> QED BY <1>2, <1>3, <1>4, <1>5, <1>6, <1>7, <1>8, <1>9, <1>10, <1>11, <1>12,
           <1>13, <1>14 DEF ImNext

(* Every reachable state is well typed. *)
THEOREM ImportsTyped == ImSpec => []ImTypeOK
<1> QED BY ImTypeInit, ImTypeStep, PTL DEF ImSpec

-----------------------------------------------------------------------------
(* LinesAgreeWithLedger.  What a request in flight relies on: the lines a   *)
(* promote has read are still without a transaction, as promotes do not     *)
(* overlap; those of a batch about to be deleted can meanwhile have got one *)
(* only from a promote of that very batch, which the foreign key then sees. *)

PromoteInv ==
    /\ \A s, u \in Slots : req[s].op = "promote" /\ req[u].op = "promote" => s = u
    /\ \A s \in Slots : req[s].op = "promote" =>
          /\ batch[req[s].batch].status # "absent"
          /\ \A l \in req[s].lines : l[1] = req[s].batch /\ promoted[l] = NoTx

DeleteInv ==
    \A s \in Slots : req[s].op = "delete" =>
        /\ batch[req[s].batch].status # "absent"
        /\ \A l \in LinesOf(req[s].batch) :
              promoted[l] # NoTx => tx[promoted[l]].from = req[s].batch

LinkInv == LinesAgreeWithLedger /\ PromoteInv /\ DeleteInv

(* The agreement, one transaction at a time. *)
Agrees(t) ==
    /\ \A l \in Line : promoted[l] = t <=> Live(t) /\ l \in tx[t].lines
    /\ Live(t) => Exists(tx[t].from) /\ \A l \in tx[t].lines : Exists(l[1])

LEMMA AgreesEach == LinesAgreeWithLedger <=> \A t \in Tx : Agrees(t)
BY DEF LinesAgreeWithLedger, Agrees

LEMMA LinkInit == ImInit => LinkInv
<1> SUFFICES ASSUME ImInit PROVE LinkInv
    OBVIOUS
<1>1. LinesAgreeWithLedger
    BY NoTxIsNone DEF ImInit, LinesAgreeWithLedger, Live
<1> QED BY <1>1 DEF ImInit, LinkInv, PromoteInv, DeleteInv, ImIdle

(* New transactions for lines that had none keep the agreement. *)
LEMMA LandAgrees ==
    ASSUME ImTypeOK, LinesAgreeWithLedger,
           NEW groups \in SUBSET SUBSET Line, NEW from \in [groups -> Batch],
           NEW statuses \in SUBSET {"pending", "posted"}, NEW id,
           Landed(groups, from, statuses, id),
           \A g \in groups : \A l \in g : promoted[l] = NoTx,
           \A b \in Batch : Exists(b) => Exists(b)',
           \A g \in groups : Exists(from[g])' /\ \A l \in g : Exists(l[1])'
    PROVE  LinesAgreeWithLedger'
<1>1. ASSUME NEW t \in Tx, NEW g \in groups, id[g] = t
      PROVE  /\ Live(t)' /\ tx'[t].lines = g /\ tx'[t].from = from[g]
             /\ \A l \in Line : promoted'[l] = t <=> l \in g
  <2>1. Live(t)' /\ tx'[t].lines = g /\ tx'[t].from = from[g] /\ ~Live(t)
      BY <1>1 DEF Landed, Live
  <2>2. ASSUME NEW l \in Line, promoted'[l] = t PROVE l \in g
    <3>1. CASE \E h \in groups : l \in h
        BY <1>1, <2>2, <3>1 DEF Landed
    <3>2. CASE \A h \in groups : l \notin h
      <4>1. promoted[l] = t
          BY <2>2, <3>2 DEF Landed
      <4> QED BY <2>1, <4>1 DEF LinesAgreeWithLedger
    <3> QED BY <3>1, <3>2
  <2>3. ASSUME NEW l \in g PROVE promoted'[l] = t
      BY <1>1 DEF Landed
  <2> QED BY <2>1, <2>2, <2>3
<1>2. ASSUME NEW t \in Tx, \A g \in groups : id[g] # t
      PROVE  /\ tx'[t] = tx[t] /\ (Live(t)' <=> Live(t))
             /\ \A l \in Line : promoted'[l] = t <=> promoted[l] = t
  <2>1. tx'[t] = tx[t]
      BY <1>2 DEF Landed
  <2>2. ASSUME NEW l \in Line PROVE promoted'[l] = t <=> promoted[l] = t
    <3>1. CASE \E h \in groups : l \in h
      <4>1. PICK h \in groups : l \in h
          BY <3>1
      <4>2. promoted'[l] = id[h] /\ promoted[l] = NoTx
          BY <4>1 DEF Landed
      <4> QED BY <1>2, <4>2, NoTxIsNone
    <3>2. CASE \A h \in groups : l \notin h
        BY <3>2 DEF Landed
    <3> QED BY <3>1, <3>2
  <2> QED BY <2>1, <2>2 DEF Live
<1>3. ASSUME NEW t \in Tx PROVE Agrees(t)'
  <2>1. CASE \E g \in groups : id[g] = t
    <3>1. PICK g \in groups : id[g] = t
        BY <2>1
    <3>2. /\ Live(t)' /\ tx'[t].lines = g /\ tx'[t].from = from[g]
          /\ \A l \in Line : promoted'[l] = t <=> l \in g
        BY <1>1, <3>1
    <3>3. Exists(from[g])' /\ \A l \in g : Exists(l[1])'
        OBVIOUS
    <3>4. Exists(tx[t].from)'
        BY <3>2, <3>3 DEF Exists
    <3> QED BY <3>2, <3>3, <3>4 DEF Agrees
  <2>2. CASE \A g \in groups : id[g] # t
    <3>1. Agrees(t)
        BY AgreesEach
    <3>2. Live(t) => /\ tx[t].from \in Batch
                     /\ \A l \in tx[t].lines : l \in Line /\ l[1] \in Batch
        BY LinesOfBatch DEF ImTypeOK
    <3>3. Live(t) => /\ Exists(tx[t].from)'
                     /\ \A l \in tx[t].lines : Exists(l[1])'
      <4>1. tx'[t] = tx[t]
          BY <1>2, <2>2
      <4>2. ASSUME Live(t) PROVE Exists(tx[t].from)'
        <5>1. PICK b \in Batch : b = tx[t].from
            BY <3>2, <4>2
        <5>2. Exists(b)'
            BY <3>1, <4>2, <5>1 DEF Agrees
        <5> QED BY <4>1, <5>1, <5>2 DEF Exists
      <4>3. ASSUME Live(t), NEW l \in tx[t].lines PROVE Exists(l[1])'
          BY <3>1, <3>2, <4>3 DEF Agrees
      <4> QED BY <4>2, <4>3
    <3>4. tx'[t] = tx[t] /\ (Live(t)' <=> Live(t))
        BY <1>2, <2>2
    <3>5. \A l \in Line : promoted'[l] = t <=> promoted[l] = t
        BY <1>2, <2>2
    <3> QED BY <3>1, <3>3, <3>4, <3>5 DEF Agrees
  <2> QED BY <2>1, <2>2
<1>4. (\A t \in Tx : Agrees(t))' => LinesAgreeWithLedger'
    BY DEF LinesAgreeWithLedger, Agrees
<1> QED BY <1>3, <1>4

(* A line with a transaction: of which one, and that its batch is there. *)
LEMMA PromotedLine ==
    ASSUME ImTypeOK, LinesAgreeWithLedger, NEW l \in Line, promoted[l] # NoTx
    PROVE  /\ promoted[l] \in Tx /\ Live(promoted[l]) /\ l \in tx[promoted[l]].lines
           /\ Exists(l[1])
BY DEF ImTypeOK, LinesAgreeWithLedger

(* The batches that were there are still there; the new ones were not. *)
LEMMA FreshBatch ==
    ASSUME ImTypeOK, NEW bs \in SUBSET Batch, FreshBatches(bs),
           \A b \in Batch \ bs : batch'[b] = batch[b],
           \A b \in bs : batch'[b].status = "parsed"
    PROVE  /\ \A b \in bs : batch[b].status = "absent"
           /\ \A b \in bs : Exists(b)'
           /\ \A b \in Batch : Exists(b) => Exists(b)'
           /\ \A b \in Batch : batch[b].status # "absent" => batch'[b] = batch[b]
BY DEF FreshBatches, Exists

(* Steps that leave the rows alone, and put no promote or delete in flight. *)
LEMMA LinkKept ==
    ASSUME ImTypeOK, LinkInv, UNCHANGED <<batch, promoted, tx>>,
           \A s \in Slots : req'[s].op \in {"promote", "delete"} => req'[s] = req[s]
    PROVE  LinkInv'
<1>1. LinesAgreeWithLedger'
    BY DEF LinkInv, LinesAgreeWithLedger, Live, Exists
<1>2. PromoteInv'
    BY DEF LinkInv, PromoteInv
<1>3. DeleteInv'
    BY DEF LinkInv, DeleteInv, LinesOf
<1> QED BY <1>1, <1>2, <1>3 DEF LinkInv

LEMMA LinkBegin ==
    ASSUME ImTypeOK, LinkInv, NEW s \in Slots, NEW r, Begin(s, r),
           r.op = "promote" =>
              /\ \A u \in Slots : req[u].op # "promote"
              /\ batch[r.batch].status # "absent"
              /\ \A l \in r.lines : l[1] = r.batch /\ promoted[l] = NoTx,
           r.op = "delete" =>
              /\ batch[r.batch].status # "absent"
              /\ \A l \in LinesOf(r.batch) : promoted[l] = NoTx
    PROVE  LinkInv'
<1>1. /\ UNCHANGED <<batch, promoted, tx>>
      /\ req'[s] = r /\ \A u \in Slots \ {s} : req'[u] = req[u]
    BY DEF Begin, imRows, ImTypeOK
<1>2. LinesAgreeWithLedger'
    BY <1>1 DEF LinkInv, LinesAgreeWithLedger, Live, Exists
<1>3. PromoteInv'
    BY <1>1 DEF LinkInv, PromoteInv
<1>4. DeleteInv'
    BY <1>1 DEF LinkInv, DeleteInv, LinesOf
<1> QED BY <1>2, <1>3, <1>4 DEF LinkInv

LEMMA PromoteLinks ==
    ASSUME ImTypeOK, LinkInv, NEW s \in Slots, CommitPromote(s)
    PROVE  LinkInv'
<1>1. PICK b \in Batch, lines \in SUBSET Line : b = req[s].batch /\ lines = req[s].lines
    BY PromoteTyped
<1>2. PICK groups : groups = {{l} : l \in lines}
    OBVIOUS
<1>3. PICK id : Landed(groups, [g \in groups |-> b], {"pending", "posted"}, id)
    BY <1>1, <1>2, PromoteTyped
<1>4. groups \in SUBSET SUBSET Line /\ \A l \in lines : {l} \in groups
    BY <1>1, <1>2
<1>5. \A l \in lines : l[1] = b /\ promoted[l] = NoTx
    BY <1>1 DEF CommitPromote, LinkInv, PromoteInv
<1>6. /\ \A c \in Batch : batch'[c].status # "absent" <=> batch[c].status # "absent"
      /\ \A c \in Batch : Exists(c) => Exists(c)'
      /\ Exists(b)'
    BY <1>1 DEF CommitPromote, ImTypeOK, Exists
<1>7. LinesAgreeWithLedger'
  <2>1. /\ \A g \in groups : \A l \in g : promoted[l] = NoTx
        /\ \A g \in groups : \A l \in g : Exists(l[1])'
      BY <1>2, <1>5, <1>6
  <2>2. PICK from : from = [g \in groups |-> b]
      OBVIOUS
  <2>3. from \in [groups -> Batch] /\ \A g \in groups : Exists(from[g])'
      BY <1>6, <2>2
  <2>4. Landed(groups, from, {"pending", "posted"}, id)
      BY <1>3, <2>2
  <2> QED BY <1>4, <1>6, <2>1, <2>3, <2>4, LandAgrees DEF LinkInv
<1>8. /\ \A u \in Slots : req'[u].op # "promote"
      /\ \A u \in Slots : req'[u].op = "delete" => req'[u] = req[u]
    BY DEF CommitPromote, Done, ImIdle, LinkInv, PromoteInv, ImTypeOK
<1>9. DeleteInv'
  <2> SUFFICES ASSUME NEW u \in Slots, req'[u].op = "delete"
               PROVE  /\ batch'[req[u].batch].status # "absent"
                      /\ \A l \in LinesOf(req[u].batch) :
                            promoted'[l] # NoTx => tx'[promoted'[l]].from = req[u].batch
      BY <1>8 DEF DeleteInv, LinesOf
  <2>1. PICK d \in Batch : d = req[u].batch /\ req[u].op = "delete"
      BY <1>8, RequestFields DEF ImTypeOK
  <2>2. batch[d].status # "absent" /\ \A l \in LinesOf(d) :
           promoted[l] # NoTx => tx[promoted[l]].from = d
      BY <2>1 DEF LinkInv, DeleteInv
  <2>3. ASSUME NEW l \in LinesOf(d), promoted'[l] # NoTx
        PROVE  tx'[promoted'[l]].from = d
    <3>1. l \in Line /\ l[1] = d
        BY LinesOfBatch
    <3>2. CASE l \in lines
      <4>1. d = b /\ {l} \in groups
          BY <1>4, <1>5, <3>1, <3>2
      <4>2. promoted'[l] = id[{l}] /\ tx'[id[{l}]].from = b
          BY <1>3, <4>1 DEF Landed
      <4> QED BY <4>1, <4>2
    <3>3. CASE l \notin lines
      <4>0. \A g \in groups : l \notin g
          BY <1>2, <3>3
      <4>1. promoted'[l] = promoted[l]
          BY <1>3, <3>1, <4>0 DEF Landed
      <4>2. promoted[l] \in Tx /\ Live(promoted[l])
          BY <2>3, <3>1, <4>1, PromotedLine DEF LinkInv
      <4>3. tx'[promoted[l]] = tx[promoted[l]]
          BY <1>3, <4>2 DEF Landed, Live
      <4> QED BY <2>2, <2>3, <4>1, <4>3
    <3> QED BY <3>2, <3>3
  <2> QED BY <1>6, <2>1, <2>2, <2>3
<1> QED BY <1>7, <1>8, <1>9 DEF LinkInv, PromoteInv

LEMMA DeleteLinks ==
    ASSUME ImTypeOK, LinkInv, NEW s \in Slots, CommitDelete(s)
    PROVE  LinkInv'
<1>1. PICK b \in Batch : b = req[s].batch
    BY RequestFields DEF CommitDelete, ImTypeOK
<1>2. \A t \in Tx : Live(t) => tx[t].from # b
    BY <1>1 DEF CommitDelete
<1>3. ASSUME NEW l \in LinesOf(b) PROVE promoted[l] = NoTx
  <2> SUFFICES ASSUME promoted[l] # NoTx PROVE FALSE
      OBVIOUS
  <2>1. tx[promoted[l]].from = b
      BY <1>1 DEF CommitDelete, LinkInv, DeleteInv
  <2>2. promoted[l] \in Tx /\ Live(promoted[l])
      BY LinesOfBatch, PromotedLine DEF LinkInv
  <2> QED BY <1>2, <2>1, <2>2
<1>4. /\ promoted' = promoted /\ tx' = tx
      /\ \A c \in Batch : c # b => batch'[c] = batch[c]
      /\ batch'[b].status = "deleted"
  <2>1. \A l \in Line : promoted'[l] = promoted[l]
      BY <1>1, <1>3, LinesOfBatch DEF CommitDelete
  <2>2. promoted' = [l \in Line |-> promoted'[l]] /\ promoted = [l \in Line |-> promoted[l]]
      BY DEF CommitDelete, ImTypeOK
  <2>3. promoted' = promoted
      BY <2>1, <2>2
  <2> QED BY <1>1, <2>3 DEF CommitDelete, ImTypeOK
<1>5. LinesAgreeWithLedger'
  <2> SUFFICES ASSUME NEW t \in Tx PROVE Agrees(t)'
      BY DEF LinesAgreeWithLedger, Agrees
  <2>1. Agrees(t)
      BY AgreesEach DEF LinkInv
  <2>2. ASSUME Live(t), NEW l \in tx[t].lines PROVE Exists(l[1])'
    <3>1. l \in Line /\ promoted[l] = t
        BY <2>1, <2>2 DEF Agrees, ImTypeOK
    <3>2. l[1] \in Batch /\ l[1] # b
        BY <1>3, <3>1, LinesOfBatch, NoTxIsNone
    <3> QED BY <1>4, <2>1, <2>2, <3>2 DEF Agrees, Exists
  <2>3. ASSUME Live(t) PROVE Exists(tx[t].from)'
      BY <1>2, <1>4, <2>1, <2>3 DEF Agrees, Exists, ImTypeOK
  <2> QED BY <1>4, <2>1, <2>2, <2>3 DEF Agrees, Live
<1>6. \A u \in Slots : req'[u].op \in {"promote", "delete"} => req'[u] = req[u]
    BY DEF CommitDelete, Done, ImIdle, ImTypeOK
<1>7. \A c \in Batch : batch[c].status # "absent" => batch'[c].status # "absent"
    BY <1>4
<1>8. PromoteInv'
    BY <1>4, <1>6, <1>7, RequestFields DEF LinkInv, PromoteInv, ImTypeOK
<1>9. DeleteInv'
    BY <1>4, <1>6, <1>7, RequestFields DEF LinkInv, DeleteInv, LinesOf, ImTypeOK
<1> QED BY <1>5, <1>8, <1>9 DEF LinkInv

LEMMA DiscardLinks ==
    ASSUME ImTypeOK, LinkInv, NEW s \in Slots, CommitDiscard(s)
    PROVE  LinkInv'
<1>1. PICK t \in Tx : t = req[s].tx
    BY RequestFields DEF CommitDiscard, ImTypeOK
<1>2. /\ tx' = [tx EXCEPT ![t].status = "deleted"]
      /\ \A l \in Line : promoted'[l] = IF promoted[l] = t THEN NoTx ELSE promoted[l]
      /\ batch' = batch
    BY <1>1 DEF CommitDiscard
<1>3. /\ ~Live(t)' /\ \A x \in Tx : x # t => tx'[x] = tx[x]
      /\ \A x \in Tx : tx'[x].from = tx[x].from
    BY <1>2 DEF Live, ImTypeOK
<1>4. LinesAgreeWithLedger'
  <2> SUFFICES ASSUME NEW x \in Tx PROVE Agrees(x)'
      BY DEF LinesAgreeWithLedger, Agrees
  <2>1. CASE x = t
      BY <1>2, <1>3, <2>1, NoTxIsNone DEF Agrees
  <2>2. CASE x # t
    <3>1. Agrees(x)
        BY AgreesEach DEF LinkInv
    <3>2. \A l \in Line : promoted'[l] = x <=> promoted[l] = x
        BY <1>2, <2>2, NoTxIsNone
    <3> QED BY <1>2, <1>3, <2>2, <3>1, <3>2 DEF Agrees, Live, Exists
  <2> QED BY <2>1, <2>2
<1>5. \A u \in Slots : req'[u].op \in {"promote", "delete"} => req'[u] = req[u]
    BY DEF CommitDiscard, Done, ImIdle, ImTypeOK
<1>6. PromoteInv'
    BY <1>2, <1>5, RequestFields DEF LinkInv, PromoteInv, ImTypeOK
<1>7. DeleteInv'
    BY <1>2, <1>3, <1>5, RequestFields, LinesOfBatch DEF LinkInv, DeleteInv, LinesOf, ImTypeOK
<1> QED BY <1>4, <1>6, <1>7 DEF LinkInv

LEMMA UploadLinks ==
    ASSUME ImTypeOK, LinkInv, NEW s \in Slots, NEW a \in Accounts,
           NEW force \in BOOLEAN, UploadFile(s, a, force)
    PROVE  LinkInv'
<1>1. PICK b \in Batch : FreshBatches({b}) /\ batch' = [batch EXCEPT ![b] = Parsed(a)]
    BY DEF UploadFile
<1>2. /\ \A c \in Batch : Exists(c) => Exists(c)'
      /\ \A c \in Batch : batch[c].status # "absent" => batch'[c] = batch[c]
    BY <1>1, FreshBatch DEF Parsed, ImTypeOK
<1>3. UNCHANGED <<excluded, promoted, tx, req>>
    BY DEF UploadFile
<1>4. LinesAgreeWithLedger'
    BY <1>2, <1>3, LinesOfBatch DEF LinkInv, LinesAgreeWithLedger, Live, ImTypeOK
<1>5. PromoteInv'
    BY <1>2, <1>3, RequestFields DEF LinkInv, PromoteInv, ImTypeOK
<1>6. DeleteInv'
    BY <1>2, <1>3, RequestFields DEF LinkInv, DeleteInv, LinesOf, ImTypeOK
<1> QED BY <1>4, <1>5, <1>6 DEF LinkInv

LEMMA MultiUploadLinks ==
    ASSUME ImTypeOK, LinkInv, NEW s \in Slots, NEW a \in Accounts, NEW c \in Accounts,
           UploadMultiAccount(s, a, c)
    PROVE  LinkInv'
<1>1. PICK b \in Batch, groups \in SUBSET SUBSET Line :
         \E from, id : Uploads(b, a, c, groups, from, id)
    BY UploadTyped, Zenon
<1>2. PICK from, id : Uploads(b, a, c, groups, from, id)
    BY <1>1, Zenon
<1>3. /\ from \in [groups -> Batch]
      /\ \A g \in groups : from[g] \in {b, b + 1} /\ \A l \in g : l[1] \in {b, b + 1}
      /\ Landed(groups, from, {"pending"}, id)
    BY <1>2 DEF Uploads
<1>4. /\ \A d \in {b, b + 1} : batch[d].status = "absent" /\ Exists(d)'
      /\ \A d \in Batch : Exists(d) => Exists(d)'
      /\ \A d \in Batch : batch[d].status # "absent" => batch'[d] = batch[d]
  <2>1. /\ b + 1 \in Batch /\ b # b + 1 /\ FreshBatches({b, b + 1})
        /\ batch' = [batch EXCEPT ![b] = Parsed(a), ![b + 1] = Parsed(c)]
      BY <1>2 DEF Uploads, Batch
  <2>2. /\ \A d \in Batch \ {b, b + 1} : batch'[d] = batch[d]
        /\ \A d \in {b, b + 1} : batch'[d].status = "parsed"
      BY <2>1 DEF Parsed, ImTypeOK
  <2>3. PICK bs \in SUBSET Batch : bs = {b, b + 1}
      BY <2>1
  <2>4. /\ FreshBatches(bs)
        /\ \A d \in Batch \ bs : batch'[d] = batch[d]
        /\ \A d \in bs : batch'[d].status = "parsed"
      BY <2>1, <2>2, <2>3, Zenon
  <2>5. /\ \A d \in bs : batch[d].status = "absent" /\ Exists(d)'
        /\ \A d \in Batch : Exists(d) => Exists(d)'
        /\ \A d \in Batch : batch[d].status # "absent" => batch'[d] = batch[d]
      BY <2>4, FreshBatch
  <2> QED BY <2>3, <2>5, Zenon
<1>5. \A g \in groups : \A l \in g : promoted[l] = NoTx
  <2> SUFFICES ASSUME NEW g \in groups, NEW l \in g, promoted[l] # NoTx PROVE FALSE
      OBVIOUS
  <2>1. Exists(l[1])
      BY PromotedLine DEF LinkInv
  <2> QED BY <1>3, <1>4, <2>1 DEF Exists
<1>6. LinesAgreeWithLedger'
    BY <1>3, <1>4, <1>5, LandAgrees DEF LinkInv
<1>7. req' = req
    BY DEF UploadMultiAccount
<1>8. ASSUME NEW l \in Line, batch[l[1]].status # "absent"
      PROVE  promoted'[l] = promoted[l]
    BY <1>3, <1>4, <1>8 DEF Landed
<1>9. PromoteInv'
  <2> SUFFICES ASSUME NEW u \in Slots, req[u].op = "promote"
               PROVE  /\ batch'[req[u].batch].status # "absent"
                      /\ \A l \in req[u].lines : l[1] = req[u].batch /\ promoted'[l] = NoTx
      BY <1>7 DEF LinkInv, PromoteInv
  <2>1. req[u].batch \in Batch /\ req[u].lines \in SUBSET Line
      BY RequestFields DEF ImTypeOK
  <2>2. /\ batch[req[u].batch].status # "absent"
        /\ \A l \in req[u].lines : l[1] = req[u].batch /\ promoted[l] = NoTx
      BY DEF LinkInv, PromoteInv
  <2> QED BY <1>4, <1>8, <2>1, <2>2
<1>10. DeleteInv'
  <2> SUFFICES ASSUME NEW u \in Slots, req[u].op = "delete"
               PROVE  /\ batch'[req[u].batch].status # "absent"
                      /\ \A l \in LinesOf(req[u].batch) :
                            promoted'[l] # NoTx => tx'[promoted'[l]].from = req[u].batch
      BY <1>7 DEF DeleteInv, LinesOf
  <2>1. PICK d \in Batch : d = req[u].batch
      BY RequestFields DEF ImTypeOK
  <2>2. /\ batch[d].status # "absent"
        /\ \A l \in LinesOf(d) : promoted[l] # NoTx => tx[promoted[l]].from = d
      BY <2>1 DEF LinkInv, DeleteInv
  <2>3. ASSUME NEW l \in LinesOf(d), promoted'[l] # NoTx
        PROVE  tx'[promoted'[l]].from = d
    <3>1. l \in Line /\ promoted'[l] = promoted[l]
        BY <1>8, <2>2, LinesOfBatch
    <3>2. promoted[l] \in Tx /\ Live(promoted[l])
        BY <2>3, <3>1, PromotedLine DEF LinkInv
    <3>3. tx'[promoted[l]] = tx[promoted[l]]
        BY <1>3, <3>2 DEF Landed, Live
    <3> QED BY <2>2, <2>3, <3>1, <3>3
  <2> QED BY <1>4, <2>1, <2>2, <2>3
<1> QED BY <1>6, <1>9, <1>10 DEF LinkInv

LEMMA LinkStep == ImTypeOK /\ LinkInv /\ [ImNext]_imVars => LinkInv'
<1> SUFFICES ASSUME ImTypeOK, LinkInv, [ImNext]_imVars PROVE LinkInv'
    OBVIOUS
<1>1. ASSUME NEW s \in Slots, NEW b \in Batch, BeginApply(s, b) PROVE LinkInv'
  <2>1. \A l \in Applicable(b) : l[1] = b /\ promoted[l] = NoTx
      BY LinesOfBatch DEF Applicable
  <2> QED BY <1>1, <2>1, LinkBegin DEF BeginApply, BeginOnLoop
<1>2. ASSUME NEW s \in Slots, NEW l \in Line, BeginPromote(s, l) PROVE LinkInv'
    BY <1>2, LinkBegin DEF BeginPromote, BeginOnLoop, Exists
<1>3. ASSUME NEW s \in Slots, NEW l \in Line, BeginExclude(s, l) PROVE LinkInv'
    BY <1>3, LinkBegin DEF BeginExclude
<1>4. ASSUME NEW s \in Slots, NEW b \in Batch, BeginDelete(s, b) PROVE LinkInv'
    BY <1>4, LinkBegin DEF BeginDelete, Exists
<1>5. ASSUME NEW s \in Slots, NEW t \in Tx, BeginDiscard(s, t) PROVE LinkInv'
    BY <1>5, LinkBegin DEF BeginDiscard
<1>6. ASSUME NEW s \in Slots, CommitExclude(s) PROVE LinkInv'
    BY <1>6, LinkKept DEF CommitExclude, Done, ImIdle, ImTypeOK
<1>7. ASSUME NEW s \in Slots, Abort(s) PROVE LinkInv'
    BY <1>7, LinkKept DEF Abort, imRows, ImIdle, ImTypeOK
<1>8. CASE UNCHANGED imVars
    BY <1>8, LinkKept DEF imVars
<1> QED BY <1>1, <1>2, <1>3, <1>4, <1>5, <1>6, <1>7, <1>8, PromoteLinks, DeleteLinks,
           DiscardLinks, UploadLinks, MultiUploadLinks DEF ImNext

(* However applies, promotes, deletions and uploads interleave, a line      *)
(* names a transaction exactly while that transaction exists and was made   *)
(* from it, and no batch goes away under a transaction of its lines.        *)
THEOREM LinesAgree == ImSpec => []LinesAgreeWithLedger
<1>1. ImTypeOK /\ LinkInv /\ [ImNext]_imVars => ImTypeOK' /\ LinkInv'
    BY ImTypeStep, LinkStep
<1>2. LinkInv => LinesAgreeWithLedger
    BY DEF LinkInv
<1> QED BY ImTypeInit, LinkInit, <1>1, <1>2, PTL DEF ImSpec

-----------------------------------------------------------------------------
(* ApplyLeavesNothing.  Until two requests have met, an apply in flight is  *)
(* alone and holds every line that is neither excluded nor promoted.        *)

ApplyInv ==
    ~overlap => \A s \in Slots :
        /\ req[s] # ImIdle => \A u \in Slots \ {s} : req[u] = ImIdle
        /\ req[s].op = "promote" /\ req[s].applies =>
              req[s].lines = Applicable(req[s].batch)

LEMMA ApplyInit == ImInit => ApplyInv
BY DEF ImInit, ApplyInv, ImIdle

LEMMA ApplyStep == ImTypeOK /\ ApplyInv /\ [ImNext]_imVars => ApplyInv'
<1> SUFFICES ASSUME ImTypeOK, ApplyInv, [ImNext]_imVars, ~overlap' PROVE ApplyInv'
    BY DEF ApplyInv
<1>1. ASSUME NEW s \in Slots, NEW r, Begin(s, r),
             r.op = "promote" /\ r.applies => r.lines = Applicable(r.batch)
      PROVE  ApplyInv'
  <2>1. /\ req'[s] = r /\ \A u \in Slots \ {s} : req'[u] = ImIdle
        /\ UNCHANGED <<excluded, promoted>>
      BY <1>1 DEF Begin, imRows, Meets, ImTypeOK
  <2> QED BY <1>1, <2>1 DEF ApplyInv, Applicable, LinesOf, ImIdle
<1>2. ASSUME NEW s \in Slots, req[s] # ImIdle, Done(s) PROVE ApplyInv'
  <2>1. \A u \in Slots : req'[u] = ImIdle
      BY <1>2 DEF Done, ApplyInv, ImTypeOK
  <2> QED BY <2>1 DEF ApplyInv, ImIdle
<1>3. ASSUME NEW s \in Slots, UNCHANGED req, overlap' = (overlap \/ Meets(s)), req[s] = ImIdle
      PROVE  ApplyInv'
  <2>1. \A u \in Slots : req[u] = ImIdle
      BY <1>3 DEF Meets
  <2>2. \A u \in Slots : req'[u] = ImIdle
      BY <1>3, <2>1
  <2> QED BY <2>2 DEF ApplyInv, ImIdle
<1>4. ASSUME NEW s \in Slots, NEW b \in Batch, BeginApply(s, b) PROVE ApplyInv'
    BY <1>1, <1>4 DEF BeginApply, BeginOnLoop
<1>5. ASSUME NEW s \in Slots, NEW l \in Line, BeginPromote(s, l) PROVE ApplyInv'
    BY <1>1, <1>5 DEF BeginPromote, BeginOnLoop
<1>6. ASSUME NEW s \in Slots, NEW l \in Line, BeginExclude(s, l) PROVE ApplyInv'
    BY <1>1, <1>6 DEF BeginExclude
<1>7. ASSUME NEW s \in Slots, NEW b \in Batch, BeginDelete(s, b) PROVE ApplyInv'
    BY <1>1, <1>7 DEF BeginDelete
<1>8. ASSUME NEW s \in Slots, NEW t \in Tx, BeginDiscard(s, t) PROVE ApplyInv'
    BY <1>1, <1>8 DEF BeginDiscard
<1>9. ASSUME NEW s \in Slots, \/ CommitPromote(s) \/ CommitExclude(s) \/ CommitDelete(s)
                              \/ CommitDiscard(s) \/ Abort(s)
      PROVE  ApplyInv'
    BY <1>2, <1>9 DEF CommitPromote, CommitExclude, CommitDelete, CommitDiscard, Abort,
                      Done, ImIdle
<1>10. ASSUME NEW s \in Slots, NEW a \in Accounts, NEW force \in BOOLEAN, UploadFile(s, a, force)
       PROVE  ApplyInv'
    BY <1>3, <1>10 DEF UploadFile
<1>11. ASSUME NEW s \in Slots, NEW a \in Accounts, NEW c \in Accounts,
              UploadMultiAccount(s, a, c)
       PROVE  ApplyInv'
    BY <1>3, <1>11 DEF UploadMultiAccount
<1>12. CASE UNCHANGED imVars
    BY <1>12 DEF imVars, ApplyInv, Applicable, LinesOf
<1> QED BY <1>4, <1>5, <1>6, <1>7, <1>8, <1>9, <1>10, <1>11, <1>12 DEF ImNext

(* An apply of requests that do not meet puts every line of its batch in    *)
(* the ledger or finds it excluded, and its batch stays applied.            *)
THEOREM AppliesLeaveNothing == ImSpec => ApplyLeavesNothing
<1> DEFINE Left ==
      \A b \in Batch :
          /\ batch[b].status = "applied" => batch'[b].status # "parsed"
          /\ batch[b].status = "parsed" /\ batch'[b].status = "applied"
                /\ ~overlap =>
                   \A l \in LinesOf(b) : l \in excluded' \/ promoted'[l] # NoTx
<1>1. ImTypeOK /\ ApplyInv /\ [ImNext]_imVars => [Left]_imVars
  <2> SUFFICES ASSUME ImTypeOK, ApplyInv, ImNext PROVE Left
      OBVIOUS
  <2>1. ASSUME UNCHANGED batch PROVE Left
      BY <2>1
  <2>2. ASSUME NEW s \in Slots, NEW r, Begin(s, r) PROVE Left
      BY <2>1, <2>2 DEF Begin, imRows
  <2>3. ASSUME NEW s \in Slots, CommitPromote(s) PROVE Left
    <3>1. PICK b \in Batch, lines \in SUBSET Line :
             b = req[s].batch /\ lines = req[s].lines
        BY <2>3, PromoteTyped
    <3>2. PICK groups : groups = {{l} : l \in lines}
        OBVIOUS
    <3>3. PICK id : Landed(groups, [g \in groups |-> b], {"pending", "posted"}, id)
        BY <2>3, <3>1, <3>2, PromoteTyped
    <3>4. ASSUME NEW l \in lines PROVE promoted'[l] # NoTx
      <4>1. {l} \in groups
          BY <3>2
      <4>2. promoted'[l] = id[{l}] /\ id[{l}] \in Tx
          BY <3>3, <4>1 DEF Landed
      <4> QED BY <4>2, NoTxIsNone
    <3>5. ASSUME NEW l \in Line, promoted[l] # NoTx PROVE promoted'[l] # NoTx
      <4>1. CASE l \in lines
          BY <3>4, <4>1
      <4>2. CASE l \notin lines
        <5>1. \A g \in groups : l \notin g
            BY <3>2, <4>2
        <5> QED BY <3>3, <3>5, <5>1 DEF Landed
      <4> QED BY <4>1, <4>2
    <3>6. ASSUME ~overlap, req[s].applies, NEW l \in LinesOf(b)
          PROVE  l \in excluded' \/ promoted'[l] # NoTx
      <4>1. lines = Applicable(b)
          BY <2>3, <3>1, <3>6 DEF CommitPromote, ApplyInv
      <4>2. l \in Line /\ excluded' = excluded
          BY <2>3, LinesOfBatch DEF CommitPromote
      <4> QED BY <3>4, <3>5, <4>1, <4>2 DEF Applicable
    <3>7. /\ \A c \in Batch : c # b => batch'[c] = batch[c]
          /\ batch'[b].status \in {batch[b].status, "applied"}
          /\ req[s].applies \/ batch' = batch
        BY <2>3, <3>1 DEF CommitPromote, ImTypeOK
    <3> QED BY <3>6, <3>7
  <2>4. ASSUME NEW s \in Slots, CommitDelete(s) PROVE Left
      BY <2>4 DEF CommitDelete, ImTypeOK
  <2>5. ASSUME NEW s \in Slots, NEW a \in Accounts, NEW force \in BOOLEAN,
               UploadFile(s, a, force)
        PROVE  Left
      BY <2>5 DEF UploadFile, FreshBatches, Parsed, ImTypeOK
  <2>6. ASSUME NEW s \in Slots, NEW a \in Accounts, NEW c \in Accounts,
               UploadMultiAccount(s, a, c)
        PROVE  Left
    <3>1. PICK b, groups, from, id : b \in Batch /\ Uploads(b, a, c, groups, from, id)
        BY <2>6, UploadTyped, Zenon
    <3> QED BY <3>1 DEF Uploads, FreshBatches, Parsed, ImTypeOK
  <2>7. ASSUME NEW s \in Slots, CommitExclude(s) \/ CommitDiscard(s) \/ Abort(s) PROVE Left
      BY <2>1, <2>7 DEF CommitExclude, CommitDiscard, Abort, imRows
  <2> HIDE DEF Left
  <2> QED BY <2>2, <2>3, <2>4, <2>5, <2>6, <2>7
          DEF ImNext, BeginApply, BeginPromote, BeginOnLoop, BeginExclude, BeginDelete,
              BeginDiscard
<1>2. ImTypeOK /\ ApplyInv /\ [ImNext]_imVars => ImTypeOK' /\ ApplyInv'
    BY ImTypeStep, ApplyStep
<1>3. ApplyLeavesNothing <=> [][Left]_imVars
    BY DEF ApplyLeavesNothing
<1> QED BY ImTypeInit, ApplyInit, <1>1, <1>2, <1>3, PTL DEF ImSpec
=============================================================================
