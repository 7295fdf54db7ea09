--------------------------- MODULE SessionsProofs ---------------------------
(***************************************************************************)
(* Proofs about Sessions, for every number of clients, sessions,            *)
(* challenges, codes and secrets.                                           *)
(***************************************************************************)
EXTENDS Sessions, TLAPS

HasToken(r) == r.op \in {"refresh", "logout", "answered"}

(* The fields a command of each kind carries. *)
LEMMA CommandFields ==
    ASSUME NEW r \in Command
    PROVE  /\ HasToken(r) => r.token \in SessionIds /\ "token" \in DOMAIN r /\ r # Idle
           /\ r.op = "recover" => r.code \in Codes
           /\ r.op = "verify" => r.secret \in Secrets
           /\ r.op = "idle" <=> r = Idle
BY DEF Command, Idle, HasToken

LEMMA CommandsAre ==
    /\ Idle \in Command
    /\ \A n \in SessionIds, s \in {"sent", "read", "clear"}, o \in {"refresh", "logout"} :
          [op |-> o, step |-> s, token |-> n] \in Command
    /\ \A o \in {"login", "change", "enroll", "regenerate"} : [op |-> o] \in Command
    /\ \A k \in Codes : [op |-> "recover", code |-> k] \in Command
    /\ \A x \in Secrets : [op |-> "verify", secret |-> x] \in Command
    /\ \A n \in SessionIds : [op |-> "answered", token |-> n] \in Command
BY DEF Command

(* Setting the step of a request leaves its kind and its token. *)
LEMMA StepSet ==
    ASSUME NEW r \in Command, r.op \in {"refresh", "logout"},
           NEW s \in {"sent", "read", "clear"}
    PROVE  LET q == [r EXCEPT !.step = s] IN
           /\ q \in Command
           /\ q.op = r.op /\ q.step = s /\ q.token = r.token
<1>1. r \in [op : {"refresh", "logout"}, step : {"sent", "read", "clear"}, token : SessionIds]
    BY DEF Command, Idle
<1> QED BY <1>1 DEF Command

LEMMA GoesOnTyped ==
    ASSUME TypeOK, NEW c \in Clients, NEW r \in Command, GoesOn(c, r)
    PROVE  cmd' \in [Clients -> Command] /\ overlap' \in BOOLEAN /\ lost' \in BOOLEAN
BY DEF GoesOn, TypeOK

LEMMA StartsTyped ==
    ASSUME TypeOK, NEW c \in Clients, NEW r \in Command, Starts(c, r)
    PROVE  cmd' \in [Clients -> Command] /\ overlap' \in BOOLEAN /\ lost' \in BOOLEAN
BY DEF Starts, TypeOK, Meets

-----------------------------------------------------------------------------
(* The strengthening.  Rows that are not free know their login, and what a  *)
(* command or the store holds is such a row; of commands that run one at a  *)
(* time, a request that has read its row finds it open when it commits.     *)

Taken(n) == session[n] # Free
Reading(c) == cmd[c].op \in {"refresh", "logout"} /\ cmd[c].step = "read"

LoginsTaken == \A n \in SessionIds :
    Taken(n) => session[n].login \in SessionIds /\ Taken(session[n].login)
HeldTaken   == \A c \in Clients : HasToken(cmd[c]) => Taken(cmd[c].token)
StoreTaken  == store # None => Taken(store)
EndedTaken  == \A n \in ended : Taken(n)

OneAtATime == \A c, d \in Clients : cmd[c] # Idle /\ cmd[d] # Idle => c = d
ReadOpen   == \A c \in Clients : Reading(c) => Open(cmd[c].token)
OneOpen    == \A m, n \in SessionIds :
    Open(m) => /\ session[m].login \notin ended
               /\ Open(n) /\ session[m].login = session[n].login => m = n

Shape == TypeOK /\ LoginsTaken /\ HeldTaken /\ StoreTaken /\ EndedTaken
Serially == overlap \/ (OneAtATime /\ ReadOpen /\ OneOpen)
IInv == Shape /\ Serially

(* A row that is open is taken. *)
LEMMA OpenIsTaken == \A n : Open(n) => Taken(n)
BY DEF Open, Taken, Free

(* Rows that keep their logins and stay taken or free. *)
RowsKept == \A n \in SessionIds :
    session'[n].login = session[n].login /\ (Taken(n)' <=> Taken(n))

LEMMA ShapeKept ==
    ASSUME Shape, TypeOK', RowsKept,
           \A n \in ended' : n \in ended \/ Taken(n),
           store' # None => store' = store
              \/ \E c \in Clients : HasToken(cmd[c]) /\ store' = cmd[c].token,
           \A c \in Clients : HasToken(cmd'[c]) =>
              \/ HasToken(cmd[c]) /\ cmd'[c].token = cmd[c].token
              \/ store # None /\ cmd'[c].token = store
    PROVE  Shape'
<1>1. LoginsTaken'
  <2>1. ASSUME NEW n \in SessionIds, Taken(n)'
        PROVE  session'[n].login \in SessionIds /\ session'[session'[n].login] # Free
    <3>1. Taken(n)
        BY <2>1 DEF RowsKept
    <3>2. session[n].login \in SessionIds /\ Taken(session[n].login)
        BY <3>1 DEF Shape, LoginsTaken
    <3> QED BY <3>2 DEF RowsKept, Taken
  <2> QED BY <2>1 DEF LoginsTaken, Taken
<1>2. \A c \in Clients : HasToken(cmd[c]) => cmd[c].token \in SessionIds
    BY CommandFields DEF Shape, TypeOK
<1>3. HeldTaken'
  <2>1. ASSUME NEW c \in Clients, HasToken(cmd'[c])
        PROVE  cmd'[c].token \in SessionIds /\ Taken(cmd'[c].token)
      BY <2>1, <1>2 DEF Shape, HeldTaken, StoreTaken, TypeOK
  <2> QED BY <2>1 DEF HeldTaken, RowsKept, Taken, HasToken
<1>4. StoreTaken'
  <2>1. ASSUME store' # None PROVE store' \in SessionIds /\ Taken(store')
      BY <2>1, <1>2 DEF Shape, HeldTaken, StoreTaken, TypeOK
  <2> QED BY <2>1 DEF StoreTaken, RowsKept, Taken
<1>5. EndedTaken'
  <2>1. ASSUME NEW n \in ended' PROVE n \in SessionIds /\ Taken(n)
      BY <2>1 DEF Shape, EndedTaken, TypeOK
  <2> QED BY <2>1 DEF EndedTaken, RowsKept, Taken
<1> QED BY <1>1, <1>3, <1>4, <1>5 DEF Shape

(* A row is issued, to the client that gets the answer. *)
LEMMA ShapeIssued ==
    ASSUME Shape, TypeOK', NEW n \in SessionIds, Fresh(n),
           NEW rows, NEW l \in SessionIds, l = n \/ Taken(l),
           rows \in [SessionIds -> Row],
           \A m \in SessionIds : /\ rows[m].login = session[m].login
                                 /\ (rows[m] = Free) <=> ~Taken(m),
           session' = Issued(rows, n, l), UNCHANGED <<ended, store>>,
           NEW c \in Clients, cmd' = [cmd EXCEPT ![c] = [op |-> "answered", token |-> n]]
    PROVE  Shape'
<1>1. \A m \in SessionIds : Taken(m)' <=> (m = n \/ Taken(m))
    BY DEF Issued, Taken, Free, Row
<1>2. LoginsTaken'
  <2>1. ASSUME NEW m \in SessionIds, Taken(m)'
        PROVE  session'[m].login \in SessionIds /\ session'[session'[m].login] # Free
    <3>1. CASE m = n
      <4>1. session'[m].login = l
          BY <3>1 DEF Issued
      <4> QED BY <4>1, <1>1 DEF Taken, Shape, TypeOK
    <3>2. CASE m # n
      <4>1. session'[m].login = session[m].login
          BY <3>2 DEF Issued
      <4>2. session[m].login \in SessionIds /\ Taken(session[m].login)
          BY <3>2, <2>1, <1>1 DEF Shape, LoginsTaken
      <4> QED BY <4>1, <4>2, <1>1 DEF Taken
    <3> QED BY <3>1, <3>2
  <2> QED BY <2>1 DEF LoginsTaken, Taken
<1>3. HeldTaken'
  <2>1. ASSUME NEW d \in Clients, HasToken(cmd'[d])
        PROVE  cmd'[d].token \in SessionIds
               /\ (cmd'[d].token = n \/ Taken(cmd'[d].token))
    <3>1. CASE d = c
        BY <3>1 DEF Shape, TypeOK
    <3>2. CASE d # c
        BY <3>2, <2>1, CommandFields DEF Shape, TypeOK, HeldTaken
    <3> QED BY <3>1, <3>2
  <2> QED BY <2>1, <1>1 DEF HeldTaken, Taken, HasToken
<1>4. StoreTaken' /\ EndedTaken'
    BY <1>1 DEF Shape, TypeOK, StoreTaken, EndedTaken, Taken
<1> QED BY <1>2, <1>3, <1>4 DEF Shape

-----------------------------------------------------------------------------
(* Types.                                                                   *)

LEMMA TypeInit == Init => TypeOK
<1> SUFFICES ASSUME Init PROVE TypeOK
    OBVIOUS
<1>1. Free \in Row
    BY DEF Free, Row
<1>2. cmd \in [Clients -> Command]
    BY CommandsAre DEF Init
<1>3. session \in [SessionIds -> Row]
    BY <1>1 DEF Init
<1> QED BY <1>2, <1>3 DEF Init, TypeOK

(* What a begun command that changes nothing else leaves typed. *)
LEMMA BegunTyped ==
    ASSUME TypeOK, NEW c \in Clients, NEW r \in Command, Starts(c, r),
           UNCHANGED <<tokens, store, factors, trials>>
    PROVE  TypeOK'
BY StartsTyped DEF TypeOK, tokens, factors, trials

LEMMA WentOnTyped ==
    ASSUME TypeOK, NEW c \in Clients, NEW r \in Command, GoesOn(c, r),
           UNCHANGED <<tokens, factors, trials>>, store' \in SessionIds \cup {None}
    PROVE  TypeOK'
BY GoesOnTyped DEF TypeOK, tokens, factors, trials

LEMMA RotatedTyped ==
    ASSUME TypeOK, NEW n \in SessionIds
    PROVE  /\ Rotated(n) \in [SessionIds -> Row]
           /\ \A m \in SessionIds : /\ Rotated(n)[m].login = session[m].login
                                    /\ m # n => Rotated(n)[m] = session[m]
           /\ Rotated(n)[n].status = "revoked"
BY DEF TypeOK, Rotated, Row

LEMMA IssuedTyped ==
    ASSUME NEW rows \in [SessionIds -> Row], NEW n \in SessionIds, NEW l \in SessionIds
    PROVE  Issued(rows, n, l) \in [SessionIds -> Row]
BY DEF Issued, Row

LEMMA TypeStep == Shape /\ [Next]_vars => TypeOK'
<1> SUFFICES ASSUME Shape, [Next]_vars PROVE TypeOK'
    OBVIOUS
<1> USE DEF Shape
<1>1. ASSUME NEW c \in Clients, SendRefresh(c) PROVE TypeOK'
    BY <1>1, BegunTyped, CommandsAre DEF SendRefresh, TypeOK
<1>2. ASSUME NEW c \in Clients, ReadRefresh(c) PROVE TypeOK'
  <2>1. \A s \in {"read", "clear"} : [cmd[c] EXCEPT !.step = s] \in Command
      BY <1>2, StepSet DEF ReadRefresh, TypeOK
  <2> QED BY <1>2, <2>1, WentOnTyped DEF ReadRefresh, TypeOK
<1>3. ASSUME NEW c \in Clients, CommitRefresh(c) PROVE TypeOK'
  <2>1. PICK n \in SessionIds :
           /\ session' = Issued(Rotated(cmd[c].token), n, session[cmd[c].token].login)
           /\ GoesOn(c, [op |-> "answered", token |-> n])
      BY <1>3 DEF CommitRefresh
  <2>2. cmd[c].token \in SessionIds /\ HasToken(cmd[c])
      BY <1>3, CommandFields DEF CommitRefresh, TypeOK, HasToken
  <2>3. session[cmd[c].token].login \in SessionIds
      BY <2>2 DEF HeldTaken, LoginsTaken
  <2>4. session' \in [SessionIds -> Row]
      BY <2>1, <2>2, <2>3, RotatedTyped, IssuedTyped
  <2>5. cmd' \in [Clients -> Command] /\ overlap' \in BOOLEAN /\ lost' \in BOOLEAN
      BY <2>1, CommandsAre, GoesOnTyped
  <2> QED BY <1>3, <2>4, <2>5 DEF CommitRefresh, TypeOK, factors, trials
<1>4. ASSUME NEW c \in Clients, BeginLogin(c) PROVE TypeOK'
    BY <1>4, BegunTyped, CommandsAre DEF BeginLogin
<1>5. ASSUME NEW c \in Clients, OpensSession(c)
      PROVE  /\ session' \in [SessionIds -> Row]
             /\ cmd' \in [Clients -> Command] /\ overlap' \in BOOLEAN /\ lost' \in BOOLEAN
  <2>1. PICK n \in SessionIds : /\ session' = Issued(session, n, n)
                                /\ GoesOn(c, [op |-> "answered", token |-> n])
      BY <1>5 DEF OpensSession
  <2> QED BY <2>1, CommandsAre, GoesOnTyped, IssuedTyped DEF TypeOK
<1>6. ASSUME NEW c \in Clients, CommitLogin(c) PROVE TypeOK'
    BY <1>5, <1>6 DEF CommitLogin, TypeOK, factors, trials
<1>7. ASSUME NEW c \in Clients, Save(c) PROVE TypeOK'
    BY <1>7, CommandFields, CommandsAre, WentOnTyped DEF Save, Ends, TypeOK, HasToken
<1>8. ASSUME NEW c \in Clients, LoseAnswer(c) PROVE TypeOK'
    BY <1>8, CommandsAre DEF LoseAnswer, TypeOK, tokens, factors, trials
<1>9. ASSUME NEW c \in Clients, SendLogout(c) PROVE TypeOK'
    BY <1>9, BegunTyped, CommandsAre DEF SendLogout, TypeOK
<1>10. ASSUME NEW c \in Clients, FailRequest(c) PROVE TypeOK'
  <2>1. [cmd[c] EXCEPT !.step = "clear"] \in Command
      BY <1>10, StepSet DEF FailRequest, TypeOK
  <2> QED BY <1>10, <2>1, WentOnTyped DEF FailRequest, TypeOK
<1>11. ASSUME NEW c \in Clients, ReadLogout(c) PROVE TypeOK'
  <2>1. \A s \in {"read", "clear"} : [cmd[c] EXCEPT !.step = s] \in Command
      BY <1>11, StepSet DEF ReadLogout, TypeOK
  <2> QED BY <1>11, <2>1, WentOnTyped DEF ReadLogout, TypeOK
<1>12. ASSUME NEW c \in Clients, CommitLogout(c) PROVE TypeOK'
  <2>1. [cmd[c] EXCEPT !.step = "clear"] \in Command
      BY <1>12, StepSet DEF CommitLogout, TypeOK
  <2>2. cmd' \in [Clients -> Command] /\ overlap' \in BOOLEAN /\ lost' \in BOOLEAN
      BY <1>12, <2>1, GoesOnTyped DEF CommitLogout
  <2>3. cmd[c].token \in SessionIds /\ HasToken(cmd[c])
      BY <1>12, CommandFields DEF CommitLogout, TypeOK, HasToken
  <2>4. session[cmd[c].token].login \in SessionIds
      BY <2>3 DEF HeldTaken, LoginsTaken
  <2>5. session' \in [SessionIds -> Row] /\ ended' \in SUBSET SessionIds
      BY <1>12, <2>3, <2>4, RotatedTyped DEF CommitLogout, TypeOK
  <2> QED BY <1>12, <2>2, <2>5 DEF CommitLogout, TypeOK, factors, trials
<1>13. ASSUME NEW c \in Clients, ClearStore(c) PROVE TypeOK'
    BY <1>13, CommandsAre, WentOnTyped DEF ClearStore, Ends
<1>14. ASSUME NEW c \in Clients, BeginChange(c) PROVE TypeOK'
    BY <1>14, BegunTyped, CommandsAre DEF BeginChange
<1>15. ASSUME NEW c \in Clients, CommitChange(c) PROVE TypeOK'
  <2>1. cmd' \in [Clients -> Command] /\ overlap' \in BOOLEAN /\ lost' \in BOOLEAN
      BY <1>15, CommandsAre, GoesOnTyped DEF CommitChange, Ends
  <2>2. session' \in [SessionIds -> Row]
      BY <1>15 DEF CommitChange, TypeOK, Row
  <2>3. \A n \in SessionIds : Open(n) => session[n].login \in SessionIds
      BY OpenIsTaken DEF LoginsTaken
  <2> QED BY <1>15, <2>1, <2>2, <2>3 DEF CommitChange, TypeOK, factors, trials
<1>16. ASSUME NEW c \in Clients, BeginEnroll(c) PROVE TypeOK'
    BY <1>16, BegunTyped, CommandsAre DEF BeginEnroll
<1>17. ASSUME NEW c \in Clients, CommitEnroll(c) PROVE TypeOK'
  <2>1. cmd' \in [Clients -> Command] /\ overlap' \in BOOLEAN /\ lost' \in BOOLEAN
      BY <1>17, CommandsAre, GoesOnTyped DEF CommitEnroll, Ends
  <2> QED BY <1>17, <2>1 DEF CommitEnroll, TypeOK, tokens, trials
<1>18. ASSUME NEW c \in Clients, BeginVerify(c) PROVE TypeOK'
    BY <1>18, BegunTyped, CommandsAre DEF BeginVerify, TypeOK
<1>19. ASSUME NEW rows \in [Codes -> {"free", "unused", "used", "gone"}],
             code' \in Minted(rows)
       PROVE code' \in [Codes -> {"free", "unused", "used", "gone"}]
    BY <1>19 DEF Minted
<1>20. ASSUME NEW c \in Clients, CommitVerify(c) PROVE TypeOK'
  <2>1. cmd' \in [Clients -> Command] /\ overlap' \in BOOLEAN /\ lost' \in BOOLEAN
      BY <1>20, CommandsAre, GoesOnTyped DEF CommitVerify, Ends
  <2>2. cmd[c].secret \in Secrets
      BY <1>20, CommandFields DEF CommitVerify, TypeOK
  <2> QED BY <1>19, <1>20, <2>1, <2>2 DEF CommitVerify, TypeOK, tokens, trials
<1>21. ASSUME NEW c \in Clients, BeginRegenerate(c) PROVE TypeOK'
    BY <1>21, BegunTyped, CommandsAre DEF BeginRegenerate
<1>22. ASSUME NEW c \in Clients, CommitRegenerate(c) PROVE TypeOK'
  <2>1. cmd' \in [Clients -> Command] /\ overlap' \in BOOLEAN /\ lost' \in BOOLEAN
      BY <1>22, CommandsAre, GoesOnTyped DEF CommitRegenerate, Ends
  <2>2. Withdrawn(code) \in [Codes -> {"free", "unused", "used", "gone"}]
      BY DEF Withdrawn
  <2> QED BY <1>19, <1>22, <2>1, <2>2 DEF CommitRegenerate, TypeOK, tokens, trials
<1>23. ASSUME NEW j \in Challenges, Redeems(j)
       PROVE  /\ challenge' \in [Challenges -> {"free", "issued", "used"}]
              /\ redeemed' \in [Challenges -> Nat]
    BY <1>23 DEF Redeems, TypeOK
<1>24. ASSUME NEW c \in Clients, BeginMfa(c) PROVE TypeOK'
  <2>1. \E r \in Command : Starts(c, r)
      BY <1>24, CommandsAre DEF BeginMfa
  <2>2. cmd' \in [Clients -> Command] /\ overlap' \in BOOLEAN /\ lost' \in BOOLEAN
      BY <2>1, StartsTyped
  <2> QED BY <1>23, <1>24, <2>2 DEF BeginMfa, TypeOK, tokens, factors
<1>25. ASSUME NEW c \in Clients, CommitRecover(c) PROVE TypeOK'
    BY <1>5, <1>25, CommandFields DEF CommitRecover, TypeOK
<1>26. ASSUME NEW j \in Challenges, Challenge(j) PROVE TypeOK'
    BY <1>26 DEF Challenge, TypeOK, tokens, factors
<1>27. ASSUME RejectMfa PROVE TypeOK'
    BY <1>23, <1>27 DEF RejectMfa, TypeOK, tokens, factors
<1>28. ASSUME NEW n \in SessionIds, Expire(n) PROVE TypeOK'
    BY <1>28 DEF Expire, TypeOK, Row, factors, trials
<1>29. ASSUME Prune PROVE TypeOK'
    BY <1>29 DEF Prune, TypeOK, Row, trials
<1>30. CASE UNCHANGED vars
    BY <1>30 DEF vars, tokens, factors, trials, TypeOK
<1> QED
    BY <1>1, <1>2, <1>3, <1>4, <1>6, <1>7, <1>8, <1>9, <1>10, <1>11, <1>12, <1>13, <1>14,
       <1>15, <1>16, <1>17, <1>18, <1>20, <1>21, <1>22, <1>24, <1>25, <1>26, <1>27, <1>28,
       <1>29, <1>30 DEF Next

-----------------------------------------------------------------------------
(* The strengthening is inductive.                                          *)

LEMMA ShapeInit == Init => IInv
<1> SUFFICES ASSUME Init PROVE IInv
    OBVIOUS
<1>1. \A n \in SessionIds : ~Taken(n) /\ ~Open(n)
    BY DEF Init, Taken, Open, Free
<1>2. \A c \in Clients : cmd[c] = Idle /\ ~HasToken(cmd[c]) /\ ~Reading(c)
    BY DEF Init, Idle, HasToken, Reading
<1>3. Shape
    BY <1>1, <1>2, TypeInit DEF Shape, LoginsTaken, HeldTaken, StoreTaken, EndedTaken, Init
<1>4. Serially
    BY <1>1, <1>2 DEF Serially, OneAtATime, ReadOpen, OneOpen, Init
<1> QED BY <1>3, <1>4 DEF IInv

(* A command that begins or goes on holds no token but the store's or its   *)
(* own.                                                                     *)
LEMMA BegunShape ==
    ASSUME Shape, TypeOK', NEW c \in Clients, NEW r, Starts(c, r),
           HasToken(r) => store # None /\ r.token = store, UNCHANGED <<tokens, store>>
    PROVE  Shape'
<1>1. RowsKept
    BY DEF RowsKept, tokens, Taken
<1>2. \A d \in Clients : HasToken(cmd'[d]) =>
         \/ HasToken(cmd[d]) /\ cmd'[d].token = cmd[d].token
         \/ store # None /\ cmd'[d].token = store
    BY DEF Starts, Shape, TypeOK
<1> QED BY <1>1, <1>2, ShapeKept DEF tokens

LEMMA WentOnShape ==
    ASSUME Shape, TypeOK', NEW c \in Clients, NEW r,
           cmd' = [cmd EXCEPT ![c] = r], RowsKept,
           HasToken(r) => HasToken(cmd[c]) /\ r.token = cmd[c].token,
           \A n \in ended' : n \in ended \/ Taken(n),
           store' # None => store' = store \/ (HasToken(cmd[c]) /\ store' = cmd[c].token)
    PROVE  Shape'
<1>1. \A d \in Clients : HasToken(cmd'[d]) => HasToken(cmd[d]) /\ cmd'[d].token = cmd[d].token
    BY DEF Shape, TypeOK
<1> QED BY <1>1, ShapeKept

LEMMA IdleHasNoToken == ~HasToken(Idle) /\ \A o \in {"login", "change", "enroll", "regenerate"} : ~HasToken([op |-> o])
BY DEF HasToken, Idle

LEMMA SameRows == ASSUME session' = session PROVE RowsKept
BY DEF RowsKept, Taken

LEMMA WentOnSameShape ==
    ASSUME Shape, TypeOK', NEW c \in Clients, NEW r,
           cmd' = [cmd EXCEPT ![c] = r], UNCHANGED tokens, store' \in {store, None},
           HasToken(r) => HasToken(cmd[c]) /\ r.token = cmd[c].token
    PROVE  Shape'
<1>1. RowsKept /\ ended' = ended
    BY SameRows DEF tokens
<1> QED BY <1>1, WentOnShape

LEMMA StepSetShape ==
    ASSUME Shape, TypeOK', NEW c \in Clients, NEW s \in {"sent", "read", "clear"},
           cmd[c].op \in {"refresh", "logout"},
           cmd' = [cmd EXCEPT ![c] = [cmd[c] EXCEPT !.step = s]], RowsKept, store' = store,
           \A n \in ended' : n \in ended \/ Taken(n)
    PROVE  Shape'
<1> DEFINE r == [cmd[c] EXCEPT !.step = s]
<1>1. HasToken(cmd[c]) /\ r.token = cmd[c].token
    BY StepSet DEF Shape, TypeOK, HasToken
<1>2. cmd' = [cmd EXCEPT ![c] = r]
    OBVIOUS
<1> HIDE DEF r
<1> QED BY <1>1, <1>2, WentOnShape

LEMMA RotatedRows ==
    ASSUME Shape, NEW n \in SessionIds, Taken(n)
    PROVE  \A m \in SessionIds : /\ Rotated(n)[m].login = session[m].login
                                 /\ Rotated(n)[m] = Free <=> ~Taken(m)
<1>1. \A m \in SessionIds : m = n => Rotated(n)[m].status = "revoked"
    BY RotatedTyped DEF Shape
<1> QED BY <1>1, RotatedTyped DEF Taken, Free, Shape

LEMMA ShapeStep == Shape /\ [Next]_vars => Shape'
<1> SUFFICES ASSUME Shape, [Next]_vars PROVE Shape'
    OBVIOUS
<1>t. TypeOK /\ TypeOK'
    BY TypeStep DEF Shape
<1>1. ASSUME NEW c \in Clients, SendRefresh(c) PROVE Shape'
    BY <1>t, <1>1, BegunShape DEF SendRefresh
<1>2. ASSUME NEW c \in Clients, ReadRefresh(c) PROVE Shape'
  <2>1. PICK s \in {"read", "clear"} : cmd' = [cmd EXCEPT ![c] = [cmd[c] EXCEPT !.step = s]]
      BY <1>2 DEF ReadRefresh, GoesOn
  <2> QED BY <1>t, <1>2, <2>1, SameRows, StepSetShape DEF ReadRefresh, tokens
<1>3. ASSUME NEW c \in Clients, CommitRefresh(c) PROVE Shape'
  <2>1. PICK n \in SessionIds :
           /\ Fresh(n)
           /\ session' = Issued(Rotated(cmd[c].token), n, session[cmd[c].token].login)
           /\ GoesOn(c, [op |-> "answered", token |-> n])
      BY <1>3 DEF CommitRefresh
  <2>2. cmd[c].token \in SessionIds /\ HasToken(cmd[c])
      BY <1>t, <1>3, CommandFields DEF CommitRefresh, TypeOK, HasToken
  <2>3. Taken(cmd[c].token)
      BY <2>2 DEF Shape, HeldTaken
  <2>4. session[cmd[c].token].login \in SessionIds /\ Taken(session[cmd[c].token].login)
      BY <2>2, <2>3 DEF Shape, LoginsTaken
  <2>5. Rotated(cmd[c].token) \in [SessionIds -> Row]
      BY <1>t, <2>2, RotatedTyped
  <2> DEFINE rows == Rotated(cmd[c].token)
             l == session[cmd[c].token].login
  <2>6. /\ rows \in [SessionIds -> Row]
        /\ \A m \in SessionIds : /\ rows[m].login = session[m].login
                                 /\ rows[m] = Free <=> ~Taken(m)
      BY <2>2, <2>3, <2>5, RotatedRows
  <2>7. l \in SessionIds /\ Taken(l)
      BY <2>4
  <2>8. /\ session' = Issued(rows, n, l)
        /\ cmd' = [cmd EXCEPT ![c] = [op |-> "answered", token |-> n]]
        /\ UNCHANGED <<ended, store>>
      BY <1>3, <2>1 DEF CommitRefresh, GoesOn
  <2> HIDE DEF rows, l
  <2> QED BY <1>t, <2>1, <2>6, <2>7, <2>8, ShapeIssued
<1>4. ASSUME NEW c \in Clients, BeginLogin(c) PROVE Shape'
    BY <1>t, <1>4, BegunShape, IdleHasNoToken DEF BeginLogin
<1>5. ASSUME NEW c \in Clients, OpensSession(c), UNCHANGED <<ended, store>> PROVE Shape'
  <2>1. PICK n \in SessionIds : /\ Fresh(n) /\ session' = Issued(session, n, n)
                                /\ GoesOn(c, [op |-> "answered", token |-> n])
      BY <1>5 DEF OpensSession
  <2>2. \A m \in SessionIds : session[m] = Free <=> ~Taken(m)
      BY DEF Taken
  <2> QED BY <1>t, <1>5, <2>1, <2>2, ShapeIssued DEF GoesOn, TypeOK
<1>6. ASSUME NEW c \in Clients, CommitLogin(c) PROVE Shape'
    BY <1>5, <1>6 DEF CommitLogin
<1>7. ASSUME NEW c \in Clients, Save(c) PROVE Shape'
  <2>1. HasToken(cmd[c])
      BY <1>7 DEF Save, HasToken
  <2> QED BY <1>t, <1>7, <2>1, SameRows, IdleHasNoToken, WentOnShape
          DEF Save, Ends, GoesOn, tokens
<1>8. ASSUME NEW c \in Clients, LoseAnswer(c) PROVE Shape'
  <2>1. cmd' = [cmd EXCEPT ![c] = Idle] /\ UNCHANGED <<tokens, store>>
      BY <1>8 DEF LoseAnswer
  <2> QED BY <1>t, <2>1, IdleHasNoToken, WentOnSameShape
<1>9. ASSUME NEW c \in Clients, SendLogout(c) PROVE Shape'
    BY <1>t, <1>9, BegunShape DEF SendLogout
<1>10. ASSUME NEW c \in Clients, FailRequest(c) PROVE Shape'
    BY <1>t, <1>10, SameRows, StepSetShape DEF FailRequest, GoesOn, tokens
<1>11. ASSUME NEW c \in Clients, ReadLogout(c) PROVE Shape'
  <2>1. PICK s \in {"read", "clear"} : cmd' = [cmd EXCEPT ![c] = [cmd[c] EXCEPT !.step = s]]
      BY <1>11 DEF ReadLogout, GoesOn
  <2> QED BY <1>t, <1>11, <2>1, SameRows, StepSetShape DEF ReadLogout, tokens
<1>12. ASSUME NEW c \in Clients, CommitLogout(c) PROVE Shape'
  <2>1. cmd[c].token \in SessionIds /\ HasToken(cmd[c])
      BY <1>t, <1>12, CommandFields DEF CommitLogout, TypeOK, HasToken
  <2>2. Taken(cmd[c].token)
      BY <2>1 DEF Shape, HeldTaken
  <2>3. RowsKept
      BY <1>12, <2>1, <2>2, RotatedRows DEF CommitLogout, RowsKept, Taken
  <2>4. Taken(session[cmd[c].token].login)
      BY <2>1, <2>2 DEF Shape, LoginsTaken
  <2> QED BY <1>t, <1>12, <2>3, <2>4, StepSetShape DEF CommitLogout, GoesOn
<1>13. ASSUME NEW c \in Clients, ClearStore(c) PROVE Shape'
    BY <1>t, <1>13, SameRows, IdleHasNoToken, WentOnShape DEF ClearStore, Ends, GoesOn, tokens
<1>14. ASSUME NEW c \in Clients, BeginChange(c) PROVE Shape'
    BY <1>t, <1>14, BegunShape, IdleHasNoToken DEF BeginChange
<1>15. ASSUME NEW c \in Clients, CommitChange(c) PROVE Shape'
  <2>1. \A n \in SessionIds : Open(n) =>
           session'[n].login = session[n].login /\ session'[n].status = "revoked"
      BY <1>t, <1>15 DEF CommitChange, TypeOK, Row
  <2>2. \A n \in SessionIds : ~Open(n) => session'[n] = session[n]
      BY <1>t, <1>15 DEF CommitChange
  <2>3. RowsKept
      BY <2>1, <2>2, OpenIsTaken DEF RowsKept, Taken, Free
  <2>4. \A n \in SessionIds : Open(n) => Taken(session[n].login)
      BY OpenIsTaken DEF Shape, LoginsTaken
  <2>5. \A n \in ended' : n \in ended \/ Taken(n)
      BY <1>15, <2>4 DEF CommitChange
  <2>6. cmd' = [cmd EXCEPT ![c] = Idle] /\ store' = store
      BY <1>15 DEF CommitChange, Ends, GoesOn
  <2> QED BY <1>t, <2>3, <2>5, <2>6, IdleHasNoToken, WentOnShape
<1>16. ASSUME NEW c \in Clients, BeginEnroll(c) PROVE Shape'
    BY <1>t, <1>16, BegunShape, IdleHasNoToken DEF BeginEnroll
<1>17. ASSUME NEW c \in Clients,
              CommitEnroll(c) \/ CommitVerify(c) \/ CommitRegenerate(c)
       PROVE Shape'
  <2>1. cmd' = [cmd EXCEPT ![c] = Idle] /\ UNCHANGED <<tokens, store>>
      BY <1>17 DEF CommitEnroll, CommitVerify, CommitRegenerate, Ends, GoesOn
  <2> QED BY <1>t, <2>1, IdleHasNoToken, WentOnSameShape
<1>18. ASSUME NEW c \in Clients, BeginVerify(c) PROVE Shape'
    BY <1>t, <1>18, BegunShape DEF BeginVerify, HasToken
<1>21. ASSUME NEW c \in Clients, BeginRegenerate(c) PROVE Shape'
    BY <1>t, <1>21, BegunShape, IdleHasNoToken DEF BeginRegenerate
<1>24. ASSUME NEW c \in Clients, BeginMfa(c) PROVE Shape'
  <2>1. \E r : Starts(c, r) /\ ~HasToken(r)
    <3>1. CASE Starts(c, [op |-> "login"])
        BY <3>1, IdleHasNoToken
    <3>2. ASSUME NEW k \in Codes, Starts(c, [op |-> "recover", code |-> k])
          PROVE  \E r : Starts(c, r) /\ ~HasToken(r)
      <4>1. ~HasToken([op |-> "recover", code |-> k])
          BY DEF HasToken
      <4> QED BY <3>2, <4>1
    <3> QED BY <1>24, <3>1, <3>2 DEF BeginMfa
  <2>2. UNCHANGED <<tokens, store>>
      BY <1>24 DEF BeginMfa
  <2> QED BY <1>t, <2>1, <2>2, BegunShape
<1>25. ASSUME NEW c \in Clients, CommitRecover(c) PROVE Shape'
    BY <1>5, <1>25 DEF CommitRecover
<1>26. ASSUME UNCHANGED <<tokens, store, cmd>> PROVE Shape'
    BY <1>t, <1>26, SameRows, ShapeKept DEF tokens
<1>27. ASSUME NEW j \in Challenges, Challenge(j) PROVE Shape'
    BY <1>26, <1>27 DEF Challenge
<1>28. ASSUME RejectMfa PROVE Shape'
    BY <1>26, <1>28 DEF RejectMfa
<1>29. ASSUME RowsKept, UNCHANGED <<ended, store, cmd>> PROVE Shape'
    BY <1>t, <1>29, ShapeKept
<1>30. ASSUME NEW n \in SessionIds, Expire(n) PROVE Shape'
  <2>1. RowsKept
      BY <1>t, <1>30 DEF Expire, RowsKept, Taken, Free, TypeOK, Row
  <2> QED BY <1>29, <1>30, <2>1 DEF Expire
<1>31. ASSUME Prune PROVE Shape'
  <2>1. PICK rows \in SUBSET {n \in SessionIds : Prunable(n)} :
           session' = [n \in SessionIds |->
                          IF n \in rows THEN [session[n] EXCEPT !.status = "gone"]
                                        ELSE session[n]]
      BY <1>31 DEF Prune
  <2>2. RowsKept
      BY <1>t, <2>1 DEF Prunable, RowsKept, Taken, Free, TypeOK, Row
  <2> QED BY <1>29, <1>31, <2>2 DEF Prune
<1>32. CASE UNCHANGED vars
    BY <1>26, <1>32 DEF vars
<1> QED
    BY <1>1, <1>2, <1>3, <1>4, <1>6, <1>7, <1>8, <1>9, <1>10, <1>11, <1>12, <1>13, <1>14,
       <1>15, <1>16, <1>17, <1>18, <1>21, <1>24, <1>25, <1>27, <1>28, <1>30, <1>31, <1>32
       DEF Next

-----------------------------------------------------------------------------
(* Commands that run one at a time.                                         *)

LEMMA OpenKept ==
    ASSUME OneOpen, RowsKept, UNCHANGED ended,
           \A n \in SessionIds : Open(n)' => Open(n)
    PROVE  OneOpen'
BY DEF OneOpen, RowsKept, Open

LEMMA SameOpen == ASSUME OneOpen, UNCHANGED tokens PROVE OneOpen'
BY DEF OneOpen, Open, tokens

(* A command that begins meets none, and has read nothing. *)
LEMMA BegunSerially ==
    ASSUME IInv, NEW c \in Clients, NEW r, Starts(c, r),
           ~(r.op \in {"refresh", "logout"} /\ r.step = "read"), UNCHANGED tokens
    PROVE  Serially'
<1> SUFFICES ASSUME ~overlap' PROVE OneAtATime' /\ ReadOpen' /\ OneOpen'
    BY DEF Serially
<1>1. ~overlap /\ cmd[c] = Idle /\ \A d \in Clients : d # c => cmd[d] = Idle
    BY DEF Starts, Meets
<1>2. cmd' = [cmd EXCEPT ![c] = r] /\ cmd \in [Clients -> Command]
    BY DEF Starts, IInv, Shape, TypeOK
<1>3. OneAtATime'
    BY <1>1, <1>2 DEF OneAtATime
<1>4. \A d \in Clients : ~Reading(d)'
    BY <1>1, <1>2 DEF Reading, Idle
<1>5. OneOpen'
    BY <1>1, SameOpen DEF IInv, Serially
<1> QED BY <1>3, <1>4, <1>5 DEF ReadOpen

(* A command goes on, alone. *)
LEMMA WentOnSerially ==
    ASSUME IInv, NEW c \in Clients, NEW r, cmd[c] # Idle, cmd' = [cmd EXCEPT ![c] = r],
           overlap' = overlap,
           ~overlap => OneOpen',
           ~overlap /\ r.op \in {"refresh", "logout"} /\ r.step = "read" => Open(r.token)'
    PROVE  Serially'
<1> SUFFICES ASSUME ~overlap PROVE OneAtATime' /\ ReadOpen' /\ OneOpen'
    BY DEF Serially
<1>1. \A d \in Clients : d # c => cmd[d] = Idle
    BY DEF IInv, Serially, OneAtATime
<1>2. cmd \in [Clients -> Command]
    BY DEF IInv, Shape, TypeOK
<1>3. OneAtATime'
    BY <1>1, <1>2 DEF OneAtATime
<1>4. ASSUME NEW d \in Clients, Reading(d)' PROVE Open(cmd[d].token)'
  <2>1. d = c
      BY <1>1, <1>2, <1>4 DEF Reading, Idle
  <2>2. cmd'[d] = r
      BY <1>2, <2>1
  <2> QED BY <1>4, <2>2 DEF Reading, Open
<1> QED BY <1>3, <1>4 DEF ReadOpen

LEMMA BusyIs ==
    ASSUME NEW c, cmd[c].op \in {"refresh", "logout", "answered", "login", "change",
                                 "enroll", "verify", "regenerate", "recover"}
    PROVE  cmd[c] # Idle
BY DEF Idle

(* A login opens a row that no login had. *)
LEMMA OpensOneOpen ==
    ASSUME Shape, OneOpen, NEW n \in SessionIds, Fresh(n), session' = Issued(session, n, n),
           UNCHANGED ended
    PROVE  OneOpen'
<1>1. n \notin ended
    BY DEF Shape, EndedTaken, Fresh, Taken
<1>2. \A m \in SessionIds : Open(m) => session[m].login # n
    BY OpenIsTaken DEF Shape, LoginsTaken, Fresh, Taken
<1>3. \A m \in SessionIds : m # n => session'[m] = session[m]
    BY DEF Issued, Shape, TypeOK
<1>4. session'[n].login = n
    BY DEF Issued, Shape, TypeOK
<1> QED BY <1>1, <1>2, <1>3, <1>4 DEF OneOpen, Open

(* Rotation closes the row it reads and opens the next one of its login. *)
LEMMA RotatesOneOpen ==
    ASSUME Shape, OneOpen, NEW n \in SessionIds, Fresh(n),
           NEW t \in SessionIds, Open(t),
           session' = Issued(Rotated(t), n, session[t].login), UNCHANGED ended
    PROVE  OneOpen'
<1>1. Rotated(t) \in [SessionIds -> Row] /\ TypeOK
    BY RotatedTyped DEF Shape
<1>2. session'[n].login = session[t].login
    BY <1>1 DEF Issued
<1>3. \A m \in SessionIds : m # n /\ m # t => session'[m] = session[m]
    BY <1>1, RotatedTyped DEF Issued
<1>4. n # t
    BY OpenIsTaken DEF Fresh, Taken
<1>5. ~Open(t)'
    BY <1>1, <1>4, RotatedTyped DEF Issued, Open
<1> QED BY <1>2, <1>3, <1>5 DEF OneOpen, Open

LEMMA SeriallyStep == IInv /\ [Next]_vars => Serially'
<1> SUFFICES ASSUME IInv, [Next]_vars PROVE Serially'
    OBVIOUS
<1>t. TypeOK /\ Shape
    BY DEF IInv, Shape
<1>s. ~overlap => OneAtATime /\ ReadOpen /\ OneOpen
    BY DEF IInv, Serially
<1>a. ASSUME NEW c \in Clients, NEW r, cmd[c] # Idle, cmd' = [cmd EXCEPT ![c] = r],
             ~(r.op \in {"refresh", "logout"} /\ r.step = "read"), UNCHANGED <<tokens, overlap>>
      PROVE  Serially'
    BY <1>a, <1>s, SameOpen, WentOnSerially
<1>b. ASSUME UNCHANGED <<cmd, overlap>>, OneOpen => OneOpen',
             \A n \in SessionIds : Open(n) /\ n \in Held => Open(n)'
      PROVE  Serially'
  <2> SUFFICES ASSUME ~overlap PROVE OneAtATime' /\ ReadOpen' /\ OneOpen'
      BY <1>b DEF Serially
  <2>1. \A c \in Clients : Reading(c) => cmd[c].token \in Held /\ cmd[c].token \in SessionIds
      BY <1>t, CommandFields DEF Reading, Held, TypeOK, HasToken
  <2>2. ReadOpen'
    <3>1. ASSUME NEW c \in Clients, Reading(c) PROVE Open(cmd[c].token)'
        BY <1>s, <1>b, <2>1, <3>1 DEF ReadOpen, Open
    <3> QED BY <1>b, <3>1 DEF ReadOpen, Reading
  <2> QED BY <1>s, <1>b, <2>2 DEF OneAtATime
<1>1. ASSUME NEW c \in Clients, SendRefresh(c) PROVE Serially'
    BY <1>1, BegunSerially DEF SendRefresh
<1>2. ASSUME NEW c \in Clients, ReadRefresh(c) PROVE Serially'
  <2>1. cmd[c] \in Command /\ cmd[c].op = "refresh" /\ cmd[c] # Idle
      BY <1>t, <1>2, BusyIs DEF ReadRefresh, TypeOK
  <2>2. PICK s \in {"read", "clear"} :
           /\ cmd' = [cmd EXCEPT ![c] = [cmd[c] EXCEPT !.step = s]]
           /\ s = "read" => Refreshable(cmd[c].token)
      BY <1>2 DEF ReadRefresh, GoesOn
  <2>r. PICK r : r = [cmd[c] EXCEPT !.step = s]
      OBVIOUS
  <2>3. r.step = s /\ r.token = cmd[c].token
      BY <2>1, <2>r, StepSet
  <2>4. UNCHANGED <<tokens, overlap>>
      BY <1>2 DEF ReadRefresh, GoesOn
  <2>5. s = "read" => Open(r.token)'
      BY <2>2, <2>3, <2>4 DEF Refreshable, Open, tokens
  <2>6. cmd' = [cmd EXCEPT ![c] = r]
      BY <2>2, <2>r
  <2> QED BY <1>s, <2>1, <2>3, <2>4, <2>5, <2>6, SameOpen, WentOnSerially
<1>3. ASSUME NEW c \in Clients, CommitRefresh(c) PROVE Serially'
  <2>1. PICK n \in SessionIds :
           /\ Fresh(n)
           /\ session' = Issued(Rotated(cmd[c].token), n, session[cmd[c].token].login)
           /\ GoesOn(c, [op |-> "answered", token |-> n])
      BY <1>3 DEF CommitRefresh
  <2>2. cmd[c].token \in SessionIds /\ cmd[c] # Idle
      BY <1>t, <1>3, CommandFields DEF CommitRefresh, TypeOK, HasToken
  <2>3. ~overlap => Open(cmd[c].token)
      BY <1>s, <1>3 DEF ReadOpen, Reading, CommitRefresh
  <2>4. ~overlap => OneOpen'
      BY <1>s, <1>t, <1>3, <2>1, <2>2, <2>3, RotatesOneOpen DEF CommitRefresh
  <2> QED BY <2>1, <2>2, <2>4, WentOnSerially DEF GoesOn
<1>4. ASSUME NEW c \in Clients, BeginLogin(c) PROVE Serially'
    BY <1>4, BegunSerially DEF BeginLogin
<1>5. ASSUME NEW c \in Clients, cmd[c] # Idle, OpensSession(c), UNCHANGED ended PROVE Serially'
  <2>1. PICK n \in SessionIds : /\ Fresh(n) /\ session' = Issued(session, n, n)
                                /\ GoesOn(c, [op |-> "answered", token |-> n])
      BY <1>5 DEF OpensSession
  <2>2. ~overlap => OneOpen'
      BY <1>s, <1>t, <1>5, <2>1, OpensOneOpen
  <2> QED BY <1>5, <2>1, <2>2, WentOnSerially DEF GoesOn
<1>6. ASSUME NEW c \in Clients, CommitLogin(c) PROVE Serially'
    BY <1>5, <1>6, BusyIs DEF CommitLogin
<1>7. ASSUME NEW c \in Clients, cmd[c] # Idle, cmd' = [cmd EXCEPT ![c] = Idle],
             UNCHANGED <<tokens, overlap>>
      PROVE  Serially'
    BY <1>a, <1>7 DEF Idle
<1>8. ASSUME NEW c \in Clients,
             Save(c) \/ LoseAnswer(c) \/ ClearStore(c) \/ CommitEnroll(c) \/ CommitVerify(c)
             \/ CommitRegenerate(c)
      PROVE  Serially'
  <2>1. cmd[c] # Idle
      BY <1>8, BusyIs DEF Save, LoseAnswer, ClearStore, CommitEnroll, CommitVerify,
         CommitRegenerate
  <2>2. cmd' = [cmd EXCEPT ![c] = Idle] /\ UNCHANGED <<tokens, overlap>>
      BY <1>8 DEF Save, LoseAnswer, ClearStore, CommitEnroll, CommitVerify,
         CommitRegenerate, Ends, GoesOn
  <2> QED BY <1>7, <2>1, <2>2
<1>9. ASSUME NEW c \in Clients, SendLogout(c) PROVE Serially'
    BY <1>9, BegunSerially DEF SendLogout
<1>10. ASSUME NEW c \in Clients, FailRequest(c) PROVE Serially'
  <2>1. cmd[c] \in Command /\ cmd[c].op \in {"refresh", "logout"} /\ cmd[c] # Idle
      BY <1>t, <1>10, BusyIs DEF FailRequest, TypeOK
  <2> DEFINE r == [cmd[c] EXCEPT !.step = "clear"]
  <2>2. r.step # "read"
      BY <2>1, StepSet
  <2>3. cmd' = [cmd EXCEPT ![c] = r] /\ UNCHANGED <<tokens, overlap>>
      BY <1>10 DEF FailRequest, GoesOn
  <2> HIDE DEF r
  <2> QED BY <1>a, <2>1, <2>2, <2>3
<1>11. ASSUME NEW c \in Clients, ReadLogout(c) PROVE Serially'
  <2>1. cmd[c] \in Command /\ cmd[c].op = "logout" /\ cmd[c] # Idle
      BY <1>t, <1>11, BusyIs DEF ReadLogout, TypeOK
  <2>2. PICK s \in {"read", "clear"} :
           /\ cmd' = [cmd EXCEPT ![c] = [cmd[c] EXCEPT !.step = s]]
           /\ s = "read" => session[cmd[c].token].status \in {"live", "expired"}
      BY <1>11 DEF ReadLogout, GoesOn
  <2>r. PICK r : r = [cmd[c] EXCEPT !.step = s]
      OBVIOUS
  <2>3. r.step = s /\ r.token = cmd[c].token
      BY <2>1, <2>r, StepSet
  <2>4. UNCHANGED <<tokens, overlap>>
      BY <1>11 DEF ReadLogout, GoesOn
  <2>5. s = "read" => Open(r.token)'
      BY <2>2, <2>3, <2>4 DEF Open, tokens
  <2>6. cmd' = [cmd EXCEPT ![c] = r]
      BY <2>2, <2>r
  <2> QED BY <1>s, <2>1, <2>3, <2>4, <2>5, <2>6, SameOpen, WentOnSerially
<1>12. ASSUME NEW c \in Clients, CommitLogout(c) PROVE Serially'
  <2>1. cmd[c] \in Command /\ cmd[c].op = "logout" /\ cmd[c] # Idle
      BY <1>t, <1>12, BusyIs DEF CommitLogout, TypeOK
  <2>r. PICK r, t : r = [cmd[c] EXCEPT !.step = "clear"] /\ t = cmd[c].token
      OBVIOUS
  <2>2. r.step # "read" /\ t \in SessionIds
      BY <2>1, <2>r, StepSet, CommandFields DEF HasToken
  <2>3. /\ cmd' = [cmd EXCEPT ![c] = r] /\ UNCHANGED overlap
        /\ session' = Rotated(t) /\ ended' = ended \cup {session[t].login}
      BY <1>12, <2>r DEF CommitLogout, GoesOn
  <2>4. ~overlap => Open(t)
      BY <1>s, <1>12, <2>r DEF ReadOpen, Reading, CommitLogout
  <2>5. ~overlap => OneOpen'
    <3>1. /\ \A m \in SessionIds : m # t => session'[m] = session[m]
          /\ ~Open(t)'
        BY <1>t, <2>2, <2>3, RotatedTyped DEF Open
    <3> QED BY <1>s, <2>2, <2>3, <2>4, <3>1 DEF OneOpen, Open
  <2> QED BY <2>1, <2>2, <2>3, <2>5, WentOnSerially
<1>14. ASSUME NEW c \in Clients, BeginChange(c) PROVE Serially'
    BY <1>14, BegunSerially DEF BeginChange
<1>15. ASSUME NEW c \in Clients, CommitChange(c) PROVE Serially'
  <2>1. \A n \in SessionIds : ~Open(n)'
      BY <1>t, <1>15 DEF CommitChange, Open, TypeOK, Row
  <2>2. OneOpen'
      BY <2>1 DEF OneOpen
  <2>3. cmd[c] # Idle /\ cmd' = [cmd EXCEPT ![c] = Idle] /\ UNCHANGED overlap
      BY <1>15, BusyIs DEF CommitChange, Ends, GoesOn
  <2>4. Idle.op \notin {"refresh", "logout"}
      BY DEF Idle
  <2> QED BY <2>2, <2>3, <2>4, WentOnSerially
<1>16. ASSUME NEW c \in Clients, BeginEnroll(c) PROVE Serially'
    BY <1>16, BegunSerially DEF BeginEnroll
<1>18. ASSUME NEW c \in Clients, BeginVerify(c) PROVE Serially'
    BY <1>18, BegunSerially DEF BeginVerify
<1>21. ASSUME NEW c \in Clients, BeginRegenerate(c) PROVE Serially'
    BY <1>21, BegunSerially DEF BeginRegenerate
<1>24. ASSUME NEW c \in Clients, BeginMfa(c) PROVE Serially'
  <2>1. UNCHANGED tokens
      BY <1>24 DEF BeginMfa
  <2>2. CASE Starts(c, [op |-> "login"])
      BY <2>1, <2>2, BegunSerially
  <2>3. ASSUME NEW k \in Codes, Starts(c, [op |-> "recover", code |-> k]) PROVE Serially'
    <3>1. [op |-> "recover", code |-> k].op \notin {"refresh", "logout"}
        OBVIOUS
    <3> QED BY <2>1, <2>3, <3>1, BegunSerially
  <2> QED BY <1>24, <2>2, <2>3 DEF BeginMfa
<1>25. ASSUME NEW c \in Clients, CommitRecover(c) PROVE Serially'
    BY <1>5, <1>25, BusyIs DEF CommitRecover
<1>26. ASSUME UNCHANGED <<tokens, cmd, overlap>> PROVE Serially'
  <2>1. \A n \in SessionIds : Open(n) => Open(n)'
      BY <1>26 DEF Open, tokens
  <2> QED BY <1>b, <1>26, <2>1, SameOpen
<1>27. ASSUME NEW j \in Challenges, Challenge(j) PROVE Serially'
    BY <1>26, <1>27 DEF Challenge
<1>28. ASSUME RejectMfa PROVE Serially'
    BY <1>26, <1>28 DEF RejectMfa
<1>30. ASSUME NEW n \in SessionIds, Expire(n) PROVE Serially'
  <2>1. RowsKept /\ \A m \in SessionIds : Open(m)' <=> Open(m)
      BY <1>t, <1>30 DEF Expire, RowsKept, Taken, Free, TypeOK, Row, Open
  <2> QED BY <1>b, <1>30, <2>1, OpenKept DEF Expire
<1>31. ASSUME Prune PROVE Serially'
  <2>1. PICK rows \in SUBSET {n \in SessionIds : Prunable(n)} :
           session' = [n \in SessionIds |->
                          IF n \in rows THEN [session[n] EXCEPT !.status = "gone"]
                                        ELSE session[n]]
      BY <1>31 DEF Prune
  <2>2. RowsKept /\ \A m \in SessionIds : Open(m)' <=> Open(m)
      BY <1>t, <2>1 DEF Prunable, RowsKept, Taken, Free, TypeOK, Row, Open
  <2> QED BY <1>b, <1>31, <2>2, OpenKept DEF Prune
<1>32. CASE UNCHANGED vars
    BY <1>26, <1>32 DEF vars
<1> QED
    BY <1>1, <1>2, <1>3, <1>4, <1>6, <1>8, <1>9, <1>10, <1>11, <1>12, <1>14, <1>15, <1>16,
       <1>18, <1>21, <1>24, <1>25, <1>27, <1>28, <1>30, <1>31, <1>32 DEF Next

-----------------------------------------------------------------------------
(* The theorems.                                                            *)

LEMMA IInvStep == IInv /\ [Next]_vars => IInv'
BY ShapeStep, SeriallyStep DEF IInv

(* The strengthening holds in every state. *)
THEOREM IInvHolds == Spec => []IInv
BY ShapeInit, IInvStep, PTL DEF Spec

(* Every variable keeps its type, rows of sessions know the login they      *)
(* continue, and what a command or the store holds is a row.                *)
THEOREM SessionsTypeCorrect == Spec => []TypeOK
<1>1. IInv => TypeOK
    BY DEF IInv, Shape
<1> QED BY <1>1, IInvHolds, PTL

(* Of commands that run one at a time, rotation keeps one live session per  *)
(* login, and a logout or a new password leaves a login none.               *)
THEOREM OneLivePerLogin == Spec => []SeriallyOneLivePerLogin
<1>1. IInv => SeriallyOneLivePerLogin
    BY DEF IInv, Serially, OneOpen, SeriallyOneLivePerLogin, Live, Open
<1> QED BY <1>1, IInvHolds, PTL

(* A challenge is redeemed when it becomes used, and never again. *)
Redeemed == TypeOK /\ \A j \in Challenges :
    redeemed[j] = IF challenge[j] = "used" THEN 1 ELSE 0

LEMMA RedeemedStep == Redeemed /\ TypeOK' /\ [Next]_vars => Redeemed'
<1> SUFFICES ASSUME Redeemed, TypeOK', [Next]_vars PROVE Redeemed'
    OBVIOUS
<1>1. ASSUME UNCHANGED <<challenge, redeemed>> PROVE Redeemed'
    BY <1>1 DEF Redeemed
<1>2. ASSUME NEW j \in Challenges, Redeems(j) PROVE Redeemed'
    BY <1>2 DEF Redeems, Redeemable, Redeemed, TypeOK
<1>3. ASSUME NEW j \in Challenges, Challenge(j) PROVE Redeemed'
    BY <1>3 DEF Challenge, Redeemed, TypeOK
<1>4. ASSUME NEW c \in Clients, BeginMfa(c) PROVE Redeemed'
    BY <1>2, <1>4 DEF BeginMfa
<1>5. ASSUME RejectMfa PROVE Redeemed'
    BY <1>2, <1>5 DEF RejectMfa
<1>6. ASSUME NEW c \in Clients,
             \/ SendRefresh(c) \/ ReadRefresh(c) \/ CommitRefresh(c)
             \/ BeginLogin(c) \/ CommitLogin(c) \/ Save(c) \/ LoseAnswer(c)
             \/ SendLogout(c) \/ FailRequest(c) \/ ReadLogout(c) \/ CommitLogout(c)
             \/ ClearStore(c) \/ BeginChange(c) \/ CommitChange(c)
             \/ BeginEnroll(c) \/ CommitEnroll(c) \/ BeginVerify(c) \/ CommitVerify(c)
             \/ BeginRegenerate(c) \/ CommitRegenerate(c) \/ CommitRecover(c)
      PROVE  UNCHANGED <<challenge, redeemed>>
    BY <1>6 DEF SendRefresh, ReadRefresh, CommitRefresh, BeginLogin, CommitLogin, Save,
       LoseAnswer, SendLogout, FailRequest, ReadLogout, CommitLogout, ClearStore, BeginChange,
       CommitChange, BeginEnroll, CommitEnroll, BeginVerify, CommitVerify, BeginRegenerate,
       CommitRegenerate, CommitRecover, trials
<1>7. ASSUME NEW n \in SessionIds, Expire(n) PROVE Redeemed'
    BY <1>1, <1>7 DEF Expire, trials
<1>8. ASSUME Prune PROVE Redeemed'
    BY <1>1, <1>8 DEF Prune, trials
<1>9. CASE UNCHANGED vars
    BY <1>1, <1>9 DEF vars, trials
<1> QED BY <1>1, <1>3, <1>4, <1>5, <1>6, <1>7, <1>8, <1>9 DEF Next

(* A challenge lets at most one login go on, however often and however      *)
(* concurrently its answer is sent.                                         *)
THEOREM ChallengesOnce == Spec => []ChallengesAreRedeemedOnce
<1>1. Init => Redeemed
    BY TypeInit DEF Init, Redeemed
<1>2. Redeemed => ChallengesAreRedeemedOnce
    BY DEF Redeemed, ChallengesAreRedeemedOnce
<1> QED BY <1>1, <1>2, RedeemedStep, SessionsTypeCorrect, PTL DEF Spec
-----------------------------------------------------------------------------
(***************************************************************************)
(* The second factor, of commands that run one at a time.  What a command  *)
(* of it has read still holds when it commits: an enrollment and a         *)
(* verification of an inactive factor, the latter of the secret that is    *)
(* pending, and a recovery code that is unused.                            *)
(***************************************************************************)
FactorsKept ==
    /\ enrolled => secret \in proven
    /\ ~ enrolled => \A k \in Codes : code[k] = "free"
    /\ \A k, m \in Codes : {code[k], code[m]} \subseteq {"unused", "used"} => k = m
    /\ \A k \in Codes : spent[k] <= IF code[k] \in {"free", "unused"} THEN 0 ELSE 1
    /\ \A c \in Clients :
          /\ cmd[c].op = "enroll" => ~ enrolled
          /\ cmd[c].op = "verify" => ~ enrolled /\ secret = cmd[c].secret
          /\ cmd[c].op \in {"recover", "regenerate"} => enrolled
          /\ cmd[c].op = "recover" => code[cmd[c].code] = "unused"

FactorsInv == overlap \/ FactorsKept

OfFactor(r) == r.op \in {"enroll", "verify", "recover", "regenerate"}

(* A step of the sessions, or of a command that goes on or ends. *)
LEMMA FactorsSame ==
    ASSUME FactorsKept, UNCHANGED <<factors, spent>>,
           \A c \in Clients : OfFactor(cmd'[c]) => cmd'[c] = cmd[c]
    PROVE  FactorsKept'
BY DEF FactorsKept, factors, OfFactor

(* A command of the second factor begins alone. *)
LEMMA FactorsBegun ==
    ASSUME TypeOK, FactorsKept, NEW c \in Clients, NEW r, Starts(c, r), ~ overlap',
           UNCHANGED <<factors, spent>>,
           r.op = "enroll" => ~ enrolled,
           r.op = "verify" => ~ enrolled /\ secret = r.secret,
           r.op \in {"recover", "regenerate"} => enrolled,
           r.op = "recover" => code[r.code] = "unused"
    PROVE  FactorsKept'
<1>1. cmd' = [cmd EXCEPT ![c] = r] /\ cmd \in [Clients -> Command]
    BY DEF Starts, TypeOK
<1>2. \A d \in Clients : cmd'[d] = r \/ cmd'[d] = cmd[d]
    BY <1>1
<1> QED BY <1>2 DEF FactorsKept, factors

LEMMA FactorsStep == IInv /\ FactorsInv /\ [Next]_vars => FactorsInv'
<1> SUFFICES ASSUME IInv, FactorsInv, [Next]_vars, ~ overlap' PROVE FactorsKept'
    BY DEF FactorsInv
<1>1. ~ overlap
    BY DEF Next, vars, SendRefresh, ReadRefresh, CommitRefresh, BeginLogin, CommitLogin,
       Save, LoseAnswer, SendLogout, FailRequest, ReadLogout, CommitLogout, ClearStore,
       BeginChange, CommitChange, BeginEnroll, CommitEnroll, BeginVerify, CommitVerify,
       BeginRegenerate, CommitRegenerate, BeginMfa, CommitRecover, Challenge, RejectMfa,
       Expire, Prune, OpensSession, Starts, GoesOn, Ends
<1>2. TypeOK /\ FactorsKept /\ OneAtATime
    BY <1>1 DEF IInv, Shape, Serially, FactorsInv
<1>i. Idle.op \in {"idle", "answered"} /\ ~ OfFactor(Idle)
    BY DEF Idle, OfFactor
<1>3. ASSUME NEW c \in Clients, \A d \in Clients \ {c} : cmd'[d] = cmd[d],
             ~ OfFactor(cmd'[c]), UNCHANGED <<factors, spent>>
      PROVE  FactorsKept'
    BY <1>2, <1>3, FactorsSame
<1>4. ASSUME NEW c \in Clients,
             SendRefresh(c) \/ BeginLogin(c) \/ SendLogout(c) \/ BeginChange(c)
      PROVE  FactorsKept'
  <2>1. /\ \A d \in Clients \ {c} : cmd'[d] = cmd[d]
        /\ ~ OfFactor(cmd'[c])
      BY <1>2, <1>4 DEF SendRefresh, BeginLogin, SendLogout, BeginChange, Starts, OfFactor,
         TypeOK
  <2>2. UNCHANGED <<factors, spent>>
      BY <1>4 DEF SendRefresh, BeginLogin, SendLogout, BeginChange, trials
  <2> QED BY <1>3, <2>1, <2>2
<1>5. ASSUME NEW c \in Clients,
             ReadRefresh(c) \/ FailRequest(c) \/ ReadLogout(c) \/ CommitLogout(c)
      PROVE  FactorsKept'
  <2>1. cmd[c].op \in {"refresh", "logout"} /\ cmd[c] \in Command
      BY <1>2, <1>5 DEF ReadRefresh, FailRequest, ReadLogout, CommitLogout, TypeOK
  <2>2. PICK s \in {"read", "clear"} : cmd' = [cmd EXCEPT ![c] = [cmd[c] EXCEPT !.step = s]]
      BY <1>5 DEF ReadRefresh, FailRequest, ReadLogout, CommitLogout, GoesOn
  <2>3. ~ OfFactor([cmd[c] EXCEPT !.step = s])
      BY <2>1, StepSet DEF OfFactor
  <2>4. UNCHANGED <<factors, spent>>
      BY <1>5 DEF ReadRefresh, FailRequest, ReadLogout, CommitLogout, trials
  <2> QED BY <1>2, <1>3, <2>2, <2>3, <2>4 DEF TypeOK
<1>6. ASSUME NEW c \in Clients, OpensSession(c) \/ CommitRefresh(c)
      PROVE  /\ \A d \in Clients \ {c} : cmd'[d] = cmd[d]
             /\ cmd'[c].op = "answered"
    BY <1>2, <1>6 DEF OpensSession, CommitRefresh, GoesOn, TypeOK
<1>7. ASSUME NEW c \in Clients, CommitRefresh(c) \/ CommitLogin(c) PROVE FactorsKept'
  <2>1. UNCHANGED <<factors, spent>>
      BY <1>7 DEF CommitRefresh, CommitLogin, trials
  <2>2. ~ OfFactor(cmd'[c])
      BY <1>6, <1>7 DEF CommitLogin, OfFactor
  <2> QED BY <1>3, <1>6, <1>7, <2>1, <2>2 DEF CommitLogin
<1>8. ASSUME NEW c \in Clients,
             Save(c) \/ LoseAnswer(c) \/ ClearStore(c) \/ CommitChange(c)
      PROVE  FactorsKept'
  <2>1. cmd' = [cmd EXCEPT ![c] = Idle] /\ UNCHANGED <<factors, spent>>
      BY <1>8 DEF Save, LoseAnswer, ClearStore, CommitChange, Ends, GoesOn, trials
  <2> QED BY <1>2, <1>3, <1>i, <2>1 DEF TypeOK
<1>22. ASSUME NEW c \in Clients, BeginRegenerate(c) PROVE FactorsKept'
    BY <1>2, <1>22, FactorsBegun DEF BeginRegenerate, trials
<1>9. ASSUME NEW c \in Clients, BeginEnroll(c) PROVE FactorsKept'
    BY <1>2, <1>9, FactorsBegun DEF BeginEnroll, trials
<1>10. ASSUME NEW c \in Clients, CommitEnroll(c) PROVE FactorsKept'
  <2>1. cmd' = [cmd EXCEPT ![c] = Idle] /\ cmd[c] # Idle /\ ~ enrolled
      BY <1>2, <1>10, BusyIs DEF CommitEnroll, Ends, GoesOn, FactorsKept
  <2>2. \A d \in Clients : ~ OfFactor(cmd'[d])
      BY <1>2, <1>i, <2>1 DEF OneAtATime, TypeOK
  <2>3. UNCHANGED <<enrolled, proven, code, spent>>
      BY <1>10 DEF CommitEnroll, trials
  <2> QED BY <1>2, <2>1, <2>2, <2>3 DEF FactorsKept, OfFactor
<1>11. ASSUME NEW c \in Clients, BeginVerify(c) PROVE FactorsKept'
  <2>1. PICK r : r = [op |-> "verify", secret |-> secret] /\ Starts(c, r)
      BY <1>11 DEF BeginVerify
  <2> QED BY <1>2, <1>11, <2>1, FactorsBegun DEF BeginVerify, trials
<1>12. ASSUME NEW c \in Clients, CommitVerify(c) PROVE FactorsKept'
  <2>1. /\ cmd' = [cmd EXCEPT ![c] = Idle] /\ cmd[c] # Idle
        /\ ~ enrolled /\ secret = cmd[c].secret
      BY <1>2, <1>12, BusyIs DEF CommitVerify, Ends, GoesOn, FactorsKept
  <2>2. \A d \in Clients : ~ OfFactor(cmd'[d])
      BY <1>2, <1>i, <2>1 DEF OneAtATime, TypeOK
  <2>3. /\ enrolled' = TRUE /\ proven' = proven \cup {cmd[c].secret}
        /\ UNCHANGED <<secret, spent>> /\ code' \in Minted(code)
      BY <1>12 DEF CommitVerify, trials
  <2>4. PICK k \in Codes : code' = [code EXCEPT ![k] = "unused"]
      BY <2>3 DEF Minted
  <2>5. \A m \in Codes : code[m] = "free" /\ spent[m] <= 0
      BY <1>2, <2>1 DEF FactorsKept
  <2>6. \A m \in Codes : code'[m] = IF m = k THEN "unused" ELSE "free"
      BY <1>2, <2>4, <2>5 DEF TypeOK
  <2> QED BY <2>1, <2>2, <2>3, <2>5, <2>6 DEF FactorsKept, OfFactor
<1>13. ASSUME NEW c \in Clients, CommitRegenerate(c) PROVE FactorsKept'
  <2>1. /\ cmd' = [cmd EXCEPT ![c] = Idle] /\ cmd[c] # Idle
        /\ UNCHANGED <<secret, enrolled, proven, spent>>
        /\ code' \in Minted(Withdrawn(code))
      BY <1>13, BusyIs DEF CommitRegenerate, Ends, GoesOn, trials
  <2>2. \A d \in Clients : ~ OfFactor(cmd'[d])
      BY <1>2, <1>i, <2>1 DEF OneAtATime, TypeOK
  <2>w. /\ Withdrawn(code) \in [Codes -> {"free", "gone"}]
        /\ \A m \in Codes : Withdrawn(code)[m] = "free" => code[m] = "free"
      BY DEF Withdrawn
  <2>3. PICK w \in [Codes -> {"free", "gone"}] :
            w = Withdrawn(code) /\ \A m \in Codes : w[m] = "free" => code[m] = "free"
      BY <2>w
  <2>4. PICK k \in Codes : code' = [w EXCEPT ![k] = "unused"] /\ w[k] = "free"
      BY <2>1, <2>3 DEF Minted
  <2>5. \A m \in Codes : code'[m] = IF m = k THEN "unused" ELSE w[m]
      BY <2>3, <2>4
  <2>6. \A m \in Codes : spent[m] <= IF code'[m] \in {"free", "unused"} THEN 0 ELSE 1
    <3> SUFFICES ASSUME NEW m \in Codes
                 PROVE  spent[m] <= IF code'[m] \in {"free", "unused"} THEN 0 ELSE 1
        OBVIOUS
    <3>1. spent[m] \in Nat /\ spent[m] <= IF code[m] \in {"free", "unused"} THEN 0 ELSE 1
        BY <1>2 DEF FactorsKept, TypeOK
    <3>2. code'[m] \in {"free", "unused"} => code[m] = "free"
        BY <2>3, <2>4, <2>5
    <3> QED BY <3>1, <3>2
  <2>7. ~ enrolled => \A m \in Codes : code'[m] = "free"
    <3>1. enrolled
        BY <1>2, <2>1, <1>13 DEF FactorsKept, CommitRegenerate
    <3> QED BY <3>1
  <2>8. \A m, n \in Codes : {code'[m], code'[n]} \subseteq {"unused", "used"} => m = n
      BY <2>3, <2>5
  <2> QED BY <1>2, <2>1, <2>2, <2>6, <2>7, <2>8 DEF FactorsKept, OfFactor
<1>14. ASSUME NEW c \in Clients, BeginMfa(c) PROVE FactorsKept'
  <2>1. UNCHANGED <<factors, spent>> /\ enrolled
      BY <1>14 DEF BeginMfa
  <2>2. CASE Starts(c, [op |-> "login"])
      BY <1>2, <2>1, <2>2, FactorsBegun
  <2>3. ASSUME NEW k \in Codes, code[k] = "unused", Starts(c, [op |-> "recover", code |-> k])
        PROVE  FactorsKept'
    <3>1. PICK r : r = [op |-> "recover", code |-> k] /\ Starts(c, r)
        BY <2>3
    <3> QED BY <1>2, <2>1, <2>3, <3>1, FactorsBegun
  <2> QED BY <1>14, <2>2, <2>3 DEF BeginMfa
<1>15. ASSUME NEW c \in Clients, CommitRecover(c) PROVE FactorsKept'
  <2>1. cmd[c] # Idle
      BY <1>15, BusyIs DEF CommitRecover
  <2>2. \A d \in Clients : ~ OfFactor(cmd'[d])
      BY <1>2, <1>6, <1>15, <1>i, <2>1 DEF CommitRecover, OneAtATime, OfFactor
  <2>3. PICK k \in Codes : k = cmd[c].code
      BY <1>2, <1>15, CommandFields DEF CommitRecover, TypeOK
  <2>4. enrolled /\ code[k] = "unused"
      BY <1>2, <1>15, <2>3 DEF CommitRecover, FactorsKept
  <2>5. /\ code' = [code EXCEPT ![k] = "used"] /\ spent' = [spent EXCEPT ![k] = @ + 1]
        /\ UNCHANGED <<secret, enrolled, proven>>
      BY <1>15, <2>3 DEF CommitRecover
  <2>6. \A m \in Codes : m # k => code'[m] = code[m] /\ spent'[m] = spent[m]
      BY <1>2, <2>5 DEF TypeOK
  <2>7. code'[k] = "used" /\ spent'[k] <= 1
    <3>1. spent[k] \in Nat /\ spent[k] <= 0
        BY <1>2, <2>4 DEF FactorsKept, TypeOK
    <3> QED BY <1>2, <2>5, <3>1 DEF TypeOK
  <2>8. \A m \in Codes : spent'[m] <= IF code'[m] \in {"free", "unused"} THEN 0 ELSE 1
      BY <1>2, <2>6, <2>7 DEF FactorsKept
  <2>9. \A m, n \in Codes : {code'[m], code'[n]} \subseteq {"unused", "used"} => m = n
      BY <1>2, <2>4, <2>6, <2>7 DEF FactorsKept
  <2> QED BY <1>2, <2>2, <2>4, <2>5, <2>8, <2>9 DEF FactorsKept, OfFactor
<1>16. ASSUME Prune PROVE FactorsKept'
  <2>1. \A c \in Clients : ~ OfFactor(cmd'[c])
      BY <1>16, <1>i DEF Prune
  <2>2. UNCHANGED <<secret, enrolled, proven, spent>>
      BY <1>16 DEF Prune, trials
  <2>3. \A k \in Codes : code'[k] = code[k] \/ (code[k] = "used" /\ code'[k] = "gone")
      BY <1>16 DEF Prune
  <2>4. \A k \in Codes : spent[k] <= IF code'[k] \in {"free", "unused"} THEN 0 ELSE 1
      BY <1>2, <2>3 DEF FactorsKept
  <2>5. \A k, m \in Codes : {code'[k], code'[m]} \subseteq {"unused", "used"} => k = m
      BY <1>2, <2>3 DEF FactorsKept
  <2>6. ~ enrolled => \A k \in Codes : code'[k] = "free"
      BY <1>2, <2>3 DEF FactorsKept
  <2> QED BY <1>2, <2>1, <2>2, <2>4, <2>5, <2>6 DEF FactorsKept, OfFactor
<1>17. ASSUME UNCHANGED <<cmd, factors, spent>> PROVE FactorsKept'
    BY <1>2, <1>17, FactorsSame
<1>18. ASSUME NEW j \in Challenges, Challenge(j) PROVE FactorsKept'
    BY <1>17, <1>18 DEF Challenge
<1>19. ASSUME RejectMfa PROVE FactorsKept'
    BY <1>17, <1>19 DEF RejectMfa
<1>20. ASSUME NEW n \in SessionIds, Expire(n) PROVE FactorsKept'
    BY <1>17, <1>20 DEF Expire, trials
<1>21. CASE UNCHANGED vars
    BY <1>17, <1>21 DEF vars, trials
<1> QED
    BY <1>4, <1>5, <1>7, <1>8, <1>9, <1>10, <1>11, <1>12, <1>13, <1>14, <1>15, <1>16, <1>18,
       <1>19, <1>20, <1>21, <1>22 DEF Next

LEMMA FactorsInit == Init => FactorsInv
BY DEF Init, FactorsInv, FactorsKept, Idle

(* An active second factor is one whose secret the user has shown to hold,  *)
(* however many secrets were enrolled before it.                            *)
THEOREM EnrolledSecretProven == Spec => []SeriallyEnrolledSecretIsProven
<1>1. FactorsInv => SeriallyEnrolledSecretIsProven
    BY DEF FactorsInv, FactorsKept, SeriallyEnrolledSecretIsProven
<1> QED BY <1>1, FactorsInit, FactorsStep, IInvHolds, PTL DEF Spec

(* One set of recovery codes at a time, each of which pays for one login,   *)
(* over any number of sets.                                                 *)
THEOREM CodesSpentOnce == Spec => []SeriallyCodesAreSpentOnce
<1>1. TypeOK /\ FactorsInv => SeriallyCodesAreSpentOnce
  <2> SUFFICES ASSUME TypeOK, FactorsKept
               PROVE  \A k \in Codes : spent[k] <= 1
      BY DEF FactorsInv, FactorsKept, SeriallyCodesAreSpentOnce
  <2> QED BY DEF TypeOK, FactorsKept
<1> QED BY <1>1, FactorsInit, FactorsStep, IInvHolds, SessionsTypeCorrect, PTL DEF Spec
-----------------------------------------------------------------------------
(***************************************************************************)
(* The token store.  A token is good while its row is open, or when its    *)
(* login was ended; the token of an answer on its way is good, and when    *)
(* there is none the token of the store is.  Only rotation makes a token   *)
(* worse, and then the answer carries the next one.                        *)
(***************************************************************************)
Good(n) == Open(n) \/ session[n].login \in ended

StoreKept ==
    /\ \A c \in Clients : cmd[c].op = "answered" => Good(cmd[c].token)
    /\ (\A c \in Clients : cmd[c].op # "answered") => store = None \/ Good(store)

StoreInv == overlap \/ lost \/ StoreKept

(* No step but the rotation of a token itself makes it worse. *)
LEMMA GoodStays ==
    ASSUME IInv, [Next]_vars, NEW n \in SessionIds, Taken(n), Good(n),
           \A c \in Clients : CommitRefresh(c) => cmd[c].token # n
    PROVE  Good(n)'
<1>1. TypeOK
    BY DEF IInv, Shape
<1>2. CASE UNCHANGED tokens
    BY <1>2 DEF Good, Open, tokens
<1>3. ASSUME NEW c \in Clients, CommitRefresh(c) PROVE Good(n)'
  <2>1. PICK m \in SessionIds :
           /\ Fresh(m) /\ session' = Issued(Rotated(cmd[c].token), m, session[cmd[c].token].login)
           /\ ended' = ended
      BY <1>3 DEF CommitRefresh
  <2>2. cmd[c].token \in SessionIds /\ cmd[c].token # n /\ m # n
      BY <1>1, <1>3, <2>1, CommandFields DEF CommitRefresh, TypeOK, HasToken, Fresh, Taken
  <2>3. session'[n] = session[n]
      BY <1>1, <2>1, <2>2, RotatedTyped DEF Issued
  <2> QED BY <2>1, <2>3 DEF Good, Open
<1>4. ASSUME NEW c \in Clients, CommitLogin(c) \/ CommitRecover(c) PROVE Good(n)'
  <2>1. PICK m \in SessionIds : Fresh(m) /\ session' = Issued(session, m, m) /\ ended' = ended
      BY <1>4 DEF CommitLogin, CommitRecover, OpensSession
  <2>2. session'[n] = session[n]
      BY <1>1, <2>1 DEF Issued, Fresh, Taken, TypeOK
  <2> QED BY <2>1, <2>2 DEF Good, Open
<1>5. ASSUME NEW c \in Clients, CommitLogout(c) PROVE Good(n)'
  <2>1. PICK t \in SessionIds : /\ session' = Rotated(t)
                                /\ ended' = ended \cup {session[t].login}
      BY <1>1, <1>5, CommandFields DEF CommitLogout, TypeOK, HasToken
  <2> QED BY <1>1, <2>1, RotatedTyped DEF Good, Open
<1>6. ASSUME NEW c \in Clients, CommitChange(c) PROVE Good(n)'
  <2>1. session'[n].login = session[n].login
      BY <1>1, <1>6 DEF CommitChange, TypeOK, Row
  <2>2. Open(n) => session[n].login \in ended'
      BY <1>6 DEF CommitChange
  <2>3. ended \subseteq ended'
      BY <1>6 DEF CommitChange
  <2> QED BY <2>1, <2>2, <2>3 DEF Good
<1>7. ASSUME NEW m \in SessionIds, Expire(m) PROVE Good(n)'
  <2>1. /\ session'[n].login = session[n].login
        /\ Open(n) => Open(n)'
        /\ ended' = ended
      BY <1>1, <1>7 DEF Expire, Open, TypeOK, Row
  <2> QED BY <2>1 DEF Good
<1>8. ASSUME Prune PROVE Good(n)'
  <2>1. /\ session'[n].login = session[n].login
        /\ Open(n) => Open(n)'
        /\ ended' = ended
      BY <1>1, <1>8 DEF Prune, Prunable, Open, TypeOK, Row
  <2> QED BY <2>1 DEF Good
<1> QED
    BY <1>2, <1>3, <1>4, <1>5, <1>6, <1>7, <1>8
    DEF Next, vars, SendRefresh, ReadRefresh, BeginLogin, Save, LoseAnswer, SendLogout,
        FailRequest, ReadLogout, ClearStore, BeginChange, BeginEnroll, CommitEnroll,
        BeginVerify, CommitVerify, BeginRegenerate, CommitRegenerate, BeginMfa, Challenge,
        RejectMfa

(* A command that is not answered, before and after the step.               *)
LEMMA StoreSame ==
    ASSUME IInv, StoreKept, [Next]_vars, store' \in {store, None},
           \A c \in Clients : ~ CommitRefresh(c),
           \A c \in Clients : cmd'[c].op = "answered" <=> cmd[c].op = "answered",
           \A c \in Clients : cmd'[c].op = "answered" => cmd'[c] = cmd[c]
    PROVE  StoreKept'
<1>1. \A c \in Clients : HasToken(cmd[c]) => cmd[c].token \in SessionIds /\ Taken(cmd[c].token)
    BY CommandFields DEF IInv, Shape, HeldTaken, TypeOK
<1>2. store # None => store \in SessionIds /\ Taken(store)
    BY DEF IInv, Shape, StoreTaken, TypeOK
<1>3. ASSUME NEW n \in SessionIds, Taken(n), Good(n) PROVE Good(n)'
    BY <1>3, GoodStays
<1>4. ASSUME NEW c \in Clients, cmd'[c].op = "answered" PROVE Good(cmd[c].token)'
  <2>1. PICK n \in SessionIds : n = cmd[c].token /\ Taken(n) /\ Good(n)
      BY <1>1, <1>4 DEF StoreKept, HasToken
  <2>2. Good(n)'
      BY <1>3, <2>1
  <2>3. cmd'[c].token = n
      BY <1>4, <2>1
  <2> QED BY <2>2, <2>3 DEF Good, Open
<1>5. ASSUME \A c \in Clients : cmd'[c].op # "answered", store' # None
      PROVE  Good(store)'
  <2>1. PICK n \in SessionIds : n = store /\ Taken(n) /\ Good(n)
      BY <1>2, <1>5, SessionsAssumption DEF StoreKept
  <2>2. Good(n)'
      BY <1>3, <2>1
  <2>3. store' = n
      BY <1>5, <2>1
  <2> QED BY <2>2, <2>3 DEF Good, Open
<1> QED BY <1>4, <1>5 DEF StoreKept

(* An answer that is new carries a row that has just been opened.           *)
LEMMA StoreAnswered ==
    ASSUME TypeOK, OneAtATime, NEW c \in Clients, cmd[c] # Idle,
           NEW rows, rows \in [SessionIds -> Row],
           NEW n \in SessionIds, NEW l, session' = Issued(rows, n, l),
           cmd' = [cmd EXCEPT ![c] = [op |-> "answered", token |-> n]]
    PROVE  StoreKept'
<1>1. cmd'[c].op = "answered" /\ cmd'[c].token = n
    BY DEF TypeOK
<1>2. \A d \in Clients : d # c => cmd'[d] = Idle
    BY DEF OneAtATime, TypeOK
<1>3. session'[n].status = "live"
    BY DEF Issued
<1>4. ASSUME NEW d \in Clients, cmd'[d].op = "answered" PROVE Good(cmd[d].token)'
  <2>1. cmd'[d].token = n
      BY <1>1, <1>2, <1>4 DEF Idle
  <2> QED BY <1>3, <2>1 DEF Good, Open
<1> QED BY <1>1, <1>4 DEF StoreKept

LEMMA StoreStep == IInv /\ StoreInv /\ [Next]_vars => StoreInv'
<1> SUFFICES ASSUME IInv, StoreInv, [Next]_vars, ~ overlap', ~ lost' PROVE StoreKept'
    BY DEF StoreInv
<1>h. ~ overlap
    BY DEF Next, vars, SendRefresh, ReadRefresh, CommitRefresh, BeginLogin, CommitLogin,
       Save, LoseAnswer, SendLogout, FailRequest, ReadLogout, CommitLogout, ClearStore,
       BeginChange, CommitChange, BeginEnroll, CommitEnroll, BeginVerify, CommitVerify,
       BeginRegenerate, CommitRegenerate, BeginMfa, CommitRecover, Challenge, RejectMfa,
       Expire, Prune, OpensSession, Starts, GoesOn, Ends
<1>l. (\A c \in Clients : ~ LoseAnswer(c)) => lost' = lost
    BY DEF Next, vars, SendRefresh, ReadRefresh, CommitRefresh, BeginLogin, CommitLogin,
       Save, SendLogout, FailRequest, ReadLogout, CommitLogout, ClearStore,
       BeginChange, CommitChange, BeginEnroll, CommitEnroll, BeginVerify, CommitVerify,
       BeginRegenerate, CommitRegenerate, BeginMfa, CommitRecover, Challenge, RejectMfa,
       Expire, Prune, OpensSession, Starts, GoesOn, Ends
<1>a. \A c \in Clients : LoseAnswer(c) => ~ lost
    BY DEF LoseAnswer
<1>1. ~ overlap /\ ~ lost
    BY <1>h, <1>l, <1>a
<1>2. TypeOK /\ Shape /\ StoreKept /\ OneAtATime
    BY <1>1 DEF IInv, Shape, Serially, StoreInv
<1>i. Idle.op # "answered"
    BY DEF Idle
<1>3. ASSUME NEW c \in Clients, CommitRefresh(c) PROVE StoreKept'
  <2>1. PICK n \in SessionIds :
           /\ session' = Issued(Rotated(cmd[c].token), n, session[cmd[c].token].login)
           /\ cmd' = [cmd EXCEPT ![c] = [op |-> "answered", token |-> n]]
      BY <1>3 DEF CommitRefresh, GoesOn
  <2>2. cmd[c].token \in SessionIds /\ cmd[c] # Idle
      BY <1>2, <1>3, CommandFields, BusyIs DEF CommitRefresh, TypeOK, HasToken
  <2>3. PICK rows : rows = Rotated(cmd[c].token) /\ rows \in [SessionIds -> Row]
      BY <1>2, <2>2, RotatedTyped
  <2> QED BY <1>2, <2>1, <2>2, <2>3, StoreAnswered
<1>4. ASSUME NEW c \in Clients, CommitLogin(c) \/ CommitRecover(c) PROVE StoreKept'
  <2>1. PICK n \in SessionIds :
           /\ session' = Issued(session, n, n)
           /\ cmd' = [cmd EXCEPT ![c] = [op |-> "answered", token |-> n]]
      BY <1>4 DEF CommitLogin, CommitRecover, OpensSession, GoesOn
  <2>2. cmd[c] # Idle
      BY <1>4, BusyIs DEF CommitLogin, CommitRecover
  <2>3. session \in [SessionIds -> Row]
      BY <1>2 DEF TypeOK
  <2> QED BY <1>2, <2>1, <2>2, <2>3, StoreAnswered
<1>5. ASSUME NEW c \in Clients, Save(c) PROVE StoreKept'
  <2>1. cmd[c].op = "answered" /\ cmd[c] # Idle
      BY <1>5, BusyIs DEF Save
  <2>2. store' = cmd[c].token /\ cmd' = [cmd EXCEPT ![c] = Idle] /\ UNCHANGED tokens
      BY <1>5 DEF Save, Ends, GoesOn
  <2>3. Good(cmd[c].token)
      BY <1>2, <2>1 DEF StoreKept
  <2>4. Good(store)'
      BY <2>2, <2>3 DEF Good, Open, tokens
  <2>5. \A d \in Clients : cmd'[d].op # "answered"
      BY <1>2, <1>i, <2>1, <2>2 DEF OneAtATime, TypeOK
  <2> QED BY <2>4, <2>5 DEF StoreKept
<1>6. ASSUME \A c \in Clients : cmd'[c].op = "answered" <=> cmd[c].op = "answered",
             \A c \in Clients : cmd'[c].op = "answered" => cmd'[c] = cmd[c],
             store' \in {store, None}, \A c \in Clients : ~ CommitRefresh(c)
      PROVE  StoreKept'
    BY <1>2, <1>6, StoreSame
<1>7. ASSUME NEW c \in Clients, cmd[c].op # "answered", cmd'[c].op # "answered",
             \A d \in Clients \ {c} : cmd'[d] = cmd[d], store' \in {store, None}
      PROVE  StoreKept'
  <2>1. (\A d \in Clients : ~ CommitRefresh(d)) => StoreKept'
      BY <1>6, <1>7
  <2> QED BY <1>3, <2>1
<1>8. ASSUME NEW c \in Clients,
             \/ SendRefresh(c) \/ BeginLogin(c) \/ SendLogout(c) \/ BeginChange(c)
             \/ BeginEnroll(c) \/ BeginVerify(c) \/ BeginRegenerate(c) \/ BeginMfa(c)
      PROVE  StoreKept'
  <2>1. cmd[c] = Idle /\ store' = store /\ \A d \in Clients \ {c} : cmd'[d] = cmd[d]
      BY <1>2, <1>8 DEF SendRefresh, BeginLogin, SendLogout, BeginChange, BeginEnroll,
         BeginVerify, BeginRegenerate, BeginMfa, Starts, TypeOK
  <2>2. cmd'[c].op # "answered"
      BY <1>2, <1>8 DEF SendRefresh, BeginLogin, SendLogout, BeginChange, BeginEnroll,
         BeginVerify, BeginRegenerate, BeginMfa, Starts, TypeOK
  <2> QED BY <1>7, <1>i, <2>1, <2>2
<1>9. ASSUME NEW c \in Clients,
             ReadRefresh(c) \/ FailRequest(c) \/ ReadLogout(c) \/ CommitLogout(c)
      PROVE  StoreKept'
  <2>1. cmd[c].op \in {"refresh", "logout"} /\ cmd[c] \in Command
      BY <1>2, <1>9 DEF ReadRefresh, FailRequest, ReadLogout, CommitLogout, TypeOK
  <2>2. PICK s \in {"read", "clear"} : cmd' = [cmd EXCEPT ![c] = [cmd[c] EXCEPT !.step = s]]
      BY <1>9 DEF ReadRefresh, FailRequest, ReadLogout, CommitLogout, GoesOn
  <2>3. [cmd[c] EXCEPT !.step = s].op # "answered"
      BY <2>1, StepSet
  <2>4. store' = store
      BY <1>9 DEF ReadRefresh, FailRequest, ReadLogout, CommitLogout
  <2>5. cmd'[c].op # "answered" /\ \A d \in Clients \ {c} : cmd'[d] = cmd[d]
      BY <1>2, <2>2, <2>3 DEF TypeOK
  <2> QED BY <1>7, <2>1, <2>4, <2>5
<1>10. ASSUME NEW c \in Clients,
              \/ LoseAnswer(c) \/ ClearStore(c) \/ CommitChange(c) \/ CommitEnroll(c)
              \/ CommitVerify(c) \/ CommitRegenerate(c)
       PROVE  StoreKept'
  <2>1. cmd' = [cmd EXCEPT ![c] = Idle] /\ store' \in {store, None}
      BY <1>10 DEF LoseAnswer, ClearStore, CommitChange, CommitEnroll, CommitVerify,
         CommitRegenerate, Ends, GoesOn
  <2>2. cmd[c].op # "answered"
      BY <1>10 DEF LoseAnswer, ClearStore, CommitChange, CommitEnroll, CommitVerify,
         CommitRegenerate
  <2>3. cmd'[c].op # "answered" /\ \A d \in Clients \ {c} : cmd'[d] = cmd[d]
      BY <1>2, <1>i, <2>1 DEF TypeOK
  <2> QED BY <1>7, <2>1, <2>2, <2>3
<1>11. ASSUME UNCHANGED <<cmd, store>> PROVE StoreKept'
  <2>1. (\A d \in Clients : ~ CommitRefresh(d)) => StoreKept'
      BY <1>6, <1>11
  <2> QED BY <1>3, <2>1
<1>12. ASSUME \/ \E j \in Challenges : Challenge(j)
              \/ RejectMfa \/ Prune \/ (\E n \in SessionIds : Expire(n))
              \/ UNCHANGED vars
       PROVE  StoreKept'
  <2>1. UNCHANGED <<cmd, store>>
      BY <1>12 DEF Challenge, RejectMfa, Prune, Expire, vars
  <2> QED BY <1>11, <2>1
<1> QED
    BY <1>3, <1>4, <1>5, <1>8, <1>9, <1>10, <1>12 DEF Next

(* Between commands that run one at a time the store never holds a token    *)
(* that was rotated away, unless an answer was lost on its way, whatever    *)
(* requests failed, sessions expired or rows were pruned.                   *)
THEOREM StoreFollows == Spec => []SeriallyStoreFollowsRotation
<1>1. Init => StoreInv
    BY DEF Init, StoreInv, StoreKept, Idle
<1>2. StoreInv => SeriallyStoreFollowsRotation
  <2> SUFFICES ASSUME StoreKept, \A c \in Clients : cmd[c] = Idle, store # None
               PROVE  Open(store) \/ session[store].login \in ended
      BY DEF StoreInv, SeriallyStoreFollowsRotation, Open
  <2> QED BY DEF StoreKept, Good, Idle
<1> QED BY <1>1, <1>2, StoreStep, IInvHolds, PTL DEF Spec
=============================================================================
