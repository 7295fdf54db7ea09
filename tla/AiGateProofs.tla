---------------------------- MODULE AiGateProofs ----------------------------
(***************************************************************************)
(* Proofs about what the AI may spend (AiGate), for every number of calls,  *)
(* writers and users, every cap and every cost, and, in the second part,    *)
(* about the changes that it and users propose (Proposals), for every       *)
(* number of requests, proposals, envelopes and amounts.  The two have no   *)
(* variable in common.  Fairness plays no part in the proofs.               *)
(***************************************************************************)
EXTENDS AiGate, Proposals, FiniteSetTheorems, TLAPS

LEMMA CallFields ==
    ASSUME NEW r \in Call \cup {Idle}
    PROVE  /\ r = Idle <=> r.step = "idle"
           /\ r # Idle => r \in Call
           /\ r \in Call => /\ r.kind \in Kinds /\ r.user \in Users /\ r.left \in Nat
                            /\ r.step \in {"gate", "chat", "audit", "promote"}
                            /\ r.degraded \in BOOLEAN /\ r.good \in BOOLEAN
                            /\ r.cost \in Nat /\ r.extra \in Nat /\ r.owes \in Nat
BY DEF Call, Idle

LEMMA Names ==
    /\ Nobody \notin Calls /\ Nobody \notin Writers
    /\ \A c \in Calls, w \in Writers : c # w
BY AiGateAssumption

(* How a call changes from one step to the next. *)
LEMMA CallSteps ==
    ASSUME NEW r \in Call
    PROVE  /\ \A d \in BOOLEAN : [r EXCEPT !.step = "chat", !.degraded = d] \in Call
           /\ [r EXCEPT !.step = "promote"] \in Call
           /\ [r EXCEPT !.step = "audit"] \in Call
           /\ \A k \in Nat : /\ [r EXCEPT !.step = "promote", !.cost = @ + k] \in Call
                             /\ [r EXCEPT !.step = "promote", !.extra = @ + k] \in Call
           /\ \A k \in Nat, g \in BOOLEAN :
                 [r EXCEPT !.step = "audit", !.owes = k, !.good = g] \in Call
           /\ r.left > 1 =>
                 /\ [r EXCEPT !.step = "gate", !.left = @ - 1] \in Call
                 /\ [r EXCEPT !.step = "chat", !.left = @ - 1, !.owes = 0] \in Call
           /\ [r EXCEPT !.cost = 0, !.extra = 0] \in Call
<1> USE DEF Call
<1>1. ASSUME NEW d \in BOOLEAN PROVE [r EXCEPT !.step = "chat", !.degraded = d] \in Call
  <2>1. PICK q : q = [r EXCEPT !.step = "chat"]
      OBVIOUS
  <2>2. q \in Call
      BY <2>1
  <2>3. [q EXCEPT !.degraded = d] \in Call
      BY <2>2
  <2>4. [r EXCEPT !.step = "chat", !.degraded = d] = [q EXCEPT !.degraded = d]
      BY <2>1
  <2> QED BY <2>3, <2>4
<1>2. [r EXCEPT !.step = "promote"] \in Call /\ [r EXCEPT !.step = "audit"] \in Call
    OBVIOUS
<1>3. ASSUME NEW k \in Nat
      PROVE  /\ [r EXCEPT !.step = "promote", !.cost = @ + k] \in Call
             /\ [r EXCEPT !.step = "promote", !.extra = @ + k] \in Call
  <2>1. PICK x \in Nat, y \in Nat : x = r.cost + k /\ y = r.extra + k
      OBVIOUS
  <2>2. /\ [r EXCEPT !.step = "promote", !.cost = x] \in Call
        /\ [r EXCEPT !.step = "promote", !.extra = y] \in Call
      OBVIOUS
  <2> QED BY <2>1, <2>2
<1>4. ASSUME NEW k \in Nat, NEW g \in BOOLEAN
      PROVE  [r EXCEPT !.step = "audit", !.owes = k, !.good = g] \in Call
    OBVIOUS
<1>5. ASSUME r.left > 1
      PROVE  /\ [r EXCEPT !.step = "gate", !.left = @ - 1] \in Call
             /\ [r EXCEPT !.step = "chat", !.left = @ - 1, !.owes = 0] \in Call
  <2>1. r.left - 1 \in Nat
      BY <1>5
  <2> QED BY <2>1
<1>6. [r EXCEPT !.cost = 0, !.extra = 0] \in Call
    OBVIOUS
<1> QED BY <1>1, <1>2, <1>3, <1>4, <1>5, <1>6

LEMMA GoesOnTypes ==
    ASSUME TypeOK, NEW c \in Calls, NEW r \in Call, GoesOn(c, r)
    PROVE  call' \in [Calls -> Call \cup {Idle}] /\ loop' \in Calls \cup {Nobody}
BY DEF GoesOn, TypeOK

LEMMA EndsTypes ==
    ASSUME TypeOK, NEW c \in Calls, Ends(c)
    PROVE  /\ call' \in [Calls -> Call \cup {Idle}] /\ loop' \in Calls \cup {Nobody}
           /\ lock' \in Calls \cup Writers \cup {Nobody}
BY DEF Ends, TypeOK

-----------------------------------------------------------------------------
(* Types.                                                                   *)

LEMMA TypeInit == Init => TypeOK
BY AiGateAssumption DEF Init, TypeOK

LEMMA CountedTypes ==
    ASSUME TypeOK, NEW u \in Users
    PROVE  Counted(u) \in [Users -> 0 .. Limit]
BY AiGateAssumption DEF Counted, TypeOK

LEMMA FirstChats ==
    ASSUME NEW kind \in Kinds, NEW n \in Chats(kind)
    PROVE  n \in Nat \ {0} /\ (kind # "apply" => n \in 1 .. 2)
BY AiGateAssumption DEF Chats, Kinds

LEMMA StartTypes ==
    ASSUME TypeOK, NEW c \in Calls, NEW kind \in Kinds, NEW u \in Users, Start(c, kind, u)
    PROVE  TypeOK'
<1>1. PICK n \in Chats(kind), step \in FirstSteps(kind) :
         GoesOn(c, [kind |-> kind, user |-> u, step |-> step, left |-> n,
                    degraded |-> FALSE, cost |-> 0, extra |-> 0, owes |-> 0, good |-> FALSE])
    BY DEF Start
<1>2. [kind |-> kind, user |-> u, step |-> step, left |-> n,
       degraded |-> FALSE, cost |-> 0, extra |-> 0, owes |-> 0, good |-> FALSE] \in Call
    BY FirstChats DEF Call, FirstSteps
<1>3. call' \in [Calls -> Call \cup {Idle}] /\ loop' \in Calls \cup {Nobody}
    BY <1>1, <1>2, GoesOnTypes
<1> QED BY <1>3 DEF Start, TypeOK

(* What comes of an answer that costs k. *)
Answers(c, k, good) ==
    /\ k <= MaxCost
    /\ \/ call[c].kind = "propose" /\ Ends(c)
       \/ /\ call[c].kind = "apply" /\ ~call[c].degraded
          /\ GoesOn(c, [call[c] EXCEPT !.step = "promote", !.cost = @ + k])
          /\ UNCHANGED lock
       \/ /\ call[c].kind = "apply" /\ call[c].degraded
          /\ GoesOn(c, [call[c] EXCEPT !.step = "promote", !.extra = @ + k])
          /\ UNCHANGED lock
       \/ /\ call[c].kind \notin Locking
          /\ GoesOn(c, [call[c] EXCEPT !.step = "audit", !.owes = k, !.good = good])
          /\ UNCHANGED lock

LEMMA AnswerOutcome ==
    ASSUME NEW c \in Calls, Answer(c)
    PROVE  \E k \in Nat, good \in BOOLEAN : Answers(c, k, good)
<1>1. PICK k \in Costs(c), good \in BOOLEAN :
         CASE call[c].kind = "propose" -> Ends(c)
           [] call[c].kind = "apply" ->
                /\ IF call[c].degraded
                     THEN GoesOn(c, [call[c] EXCEPT !.step = "promote", !.extra = @ + k])
                     ELSE GoesOn(c, [call[c] EXCEPT !.step = "promote", !.cost = @ + k])
                /\ UNCHANGED lock
           [] OTHER ->
                /\ GoesOn(c, [call[c] EXCEPT !.step = "audit", !.owes = k, !.good = good])
                /\ UNCHANGED lock
    BY DEF Answer
<1>2. k \in Nat /\ k <= MaxCost
    BY AiGateAssumption DEF Costs
<1>3. CASE call[c].kind = "propose"
    BY <1>1, <1>2, <1>3 DEF Answers
<1>4. CASE call[c].kind = "apply"
    BY <1>1, <1>2, <1>4 DEF Answers
<1>5. CASE call[c].kind \notin {"propose", "apply"}
    BY <1>1, <1>2, <1>5 DEF Answers, Locking
<1> QED BY <1>3, <1>4, <1>5

LEMMA RunTypes ==
    ASSUME TypeOK, NEW c \in Calls, Run(c) \/ Answer(c)
    PROVE  TypeOK'
<1>0. call[c] \in Call \cup {Idle}
    BY DEF TypeOK
<1>1. CASE Allow(c)
  <2>1. call[c] \in Call
      BY <1>0, <1>1, CallFields DEF Allow, AtGate
  <2>2. PICK d \in BOOLEAN : GoesOn(c, [call[c] EXCEPT !.step = "chat", !.degraded = d])
    <3>1. OverCap(c) \in BOOLEAN
        BY DEF OverCap
    <3>2. GoesOn(c, [call[c] EXCEPT !.step = "chat", !.degraded = OverCap(c)])
        BY <1>1 DEF Allow
    <3> QED BY <3>1, <3>2, Zenon
  <2>3. call' \in [Calls -> Call \cup {Idle}] /\ loop' \in Calls \cup {Nobody}
      BY <2>1, <2>2, CallSteps, GoesOnTypes
  <2> QED BY <1>1, <2>3 DEF Allow, TypeOK
<1>2. CASE Refuse(c)
  <2>1. call[c] \in Call /\ call[c].user \in Users
      BY <1>0, <1>2, CallFields DEF Refuse, AtGate
  <2>2. CASE Ends(c) /\ used' \in {used, Counted(call[c].user)}
      BY <1>2, <2>1, <2>2, EndsTypes, CountedTypes DEF Refuse, TypeOK
  <2>3. ASSUME NEW step \in {"promote", "audit"},
               GoesOn(c, [call[c] EXCEPT !.step = step]), lock' = c, used' = used
        PROVE  TypeOK'
    <3>1. call' \in [Calls -> Call \cup {Idle}] /\ loop' \in Calls \cup {Nobody}
        BY <2>1, <2>3, CallSteps, GoesOnTypes
    <3> QED BY <1>2, <2>3, <3>1 DEF Refuse, TypeOK
  <2>4. call[c].kind \in Kinds
      BY <1>0, <2>1, CallFields
  <2> QED BY <1>2, <2>2, <2>3, <2>4 DEF Refuse, Kinds
<1>3. CASE Record(c)
  <2>1. call[c] \in Call /\ call[c].user \in Users /\ call[c].owes \in Nat
      BY <1>0, <1>3, CallFields DEF Record
  <2>2. /\ call' \in [Calls -> Call \cup {Idle}] /\ loop' \in Calls \cup {Nobody}
        /\ lock' \in Calls \cup Writers \cup {Nobody}
      BY <1>3, <2>1, CallSteps, GoesOnTypes, EndsTypes DEF Record, TypeOK
  <2> QED BY <1>3, <2>1, <2>2, CountedTypes DEF Record, TypeOK
<1>4. CASE Promote(c)
  <2>1. call[c] \in Call /\ call[c].cost \in Nat /\ call[c].extra \in Nat
      BY <1>0, <1>4, CallFields DEF Promote
  <2>2. /\ call' \in [Calls -> Call \cup {Idle}] /\ loop' \in Calls \cup {Nobody}
        /\ lock' \in Calls \cup Writers \cup {Nobody}
      BY <1>4, <2>1, CallSteps, GoesOnTypes, EndsTypes DEF Promote, TypeOK
  <2> QED BY <1>4, <2>1, <2>2 DEF Promote, TypeOK
<1>5. CASE Timeout(c)
  <2>1. call[c].step = "gate" => call[c] \in Call
      BY <1>0, CallFields
  <2>2. /\ call' \in [Calls -> Call \cup {Idle}] /\ loop' \in Calls \cup {Nobody}
        /\ lock' \in Calls \cup Writers \cup {Nobody}
      BY <1>5, <2>1, CallSteps, GoesOnTypes, EndsTypes DEF Timeout, TypeOK
  <2> QED BY <1>5, <2>2 DEF Timeout, TypeOK
<1>6. CASE Answer(c)
  <2>1. call[c] \in Call
      BY <1>0, <1>6, CallFields DEF Answer
  <2>2. PICK k \in Nat, good \in BOOLEAN : Answers(c, k, good)
      BY <1>6, AnswerOutcome, Zenon
  <2>3. /\ call' \in [Calls -> Call \cup {Idle}] /\ loop' \in Calls \cup {Nobody}
        /\ lock' \in Calls \cup Writers \cup {Nobody}
    <3>1. CASE Ends(c)
        BY <3>1, EndsTypes DEF TypeOK
    <3>2. ASSUME NEW q \in Call, GoesOn(c, q), UNCHANGED lock
          PROVE  /\ call' \in [Calls -> Call \cup {Idle}] /\ loop' \in Calls \cup {Nobody}
                 /\ lock' \in Calls \cup Writers \cup {Nobody}
        BY <3>2, GoesOnTypes DEF TypeOK
    <3> QED BY <2>1, <2>2, <3>1, <3>2, CallSteps DEF Answers
  <2> QED BY <1>6, <2>3 DEF Answer, TypeOK
<1> QED BY <1>1, <1>2, <1>3, <1>4, <1>5, <1>6 DEF Run

LEMMA OtherTypes ==
    ASSUME TypeOK,
           \/ \E w \in Writers : Wait(w) \/ Resume(w) \/ Commit(w)
           \/ \E u \in Users : Slide(u)
           \/ NewMonth
    PROVE  TypeOK'
<1>1. ASSUME NEW w \in Writers, Wait(w) \/ Resume(w) \/ Commit(w) PROVE TypeOK'
    BY <1>1 DEF Wait, Resume, Commit, TypeOK
<1>2. ASSUME NEW u \in Users, Slide(u) PROVE TypeOK'
  <2>1. PICK n \in 0 .. used[u] : used' = [used EXCEPT ![u] = n]
      BY <1>2 DEF Slide
  <2>2. used' \in [Users -> 0 .. Limit]
      BY <2>1, AiGateAssumption DEF TypeOK
  <2> QED BY <1>2, <2>2 DEF Slide, TypeOK
<1>3. CASE NewMonth
  <2>1. \A c \in Calls :
           call[c] # Idle => [call[c] EXCEPT !.cost = 0, !.extra = 0] \in Call
      BY CallSteps, CallFields DEF TypeOK
  <2>2. call' \in [Calls -> Call \cup {Idle}]
      BY <1>3, <2>1 DEF NewMonth
  <2> QED BY <1>3, <2>2 DEF NewMonth, TypeOK
<1> QED BY <1>1, <1>2, <1>3

LEMMA TypeStep == TypeOK /\ [Next]_vars => TypeOK'
<1> SUFFICES ASSUME TypeOK, [Next]_vars PROVE TypeOK'
    OBVIOUS
<1>1. CASE UNCHANGED vars
    BY <1>1 DEF TypeOK, vars
<1>2. CASE Next
    BY <1>2, StartTypes, RunTypes, OtherTypes DEF Next
<1> QED BY <1>1, <1>2

(* Every reachable state has the types of the declarations. *)
THEOREM TypeCorrect == Spec => []TypeOK
BY TypeInit, TypeStep, PTL DEF Spec

-----------------------------------------------------------------------------
(* What a call may look like at its steps.                                  *)

CallOK(r) ==
    /\ r.left \in Nat \ {0} /\ (r.kind # "apply" => r.left \in 1 .. 2)
    /\ r.kind \in Locking => r.owes = 0 /\ ~r.good
    /\ r.step = "gate" => r.owes = 0 /\ ~r.good
    /\ r.step = "promote" => r.kind = "apply"
    /\ r.kind # "apply" => r.cost = 0 /\ r.extra = 0
    /\ r.owes <= MaxCost

CallInv == \A c \in Calls : call[c] # Idle => CallOK(call[c])

(* What each action of a call makes of it: new is Idle or the record it     *)
(* goes on with.                                                            *)
LEMMA MovesTo ==
    ASSUME TypeOK, NEW c \in Calls, NEW q, GoesOn(c, q)
    PROVE  /\ call'[c] = q /\ \A d \in Calls \ {c} : call'[d] = call[d]
           /\ loop' = IF q.step = "chat" THEN Nobody ELSE c
BY DEF GoesOn, TypeOK

LEMMA MovesToIdle ==
    ASSUME TypeOK, NEW c \in Calls, Ends(c)
    PROVE  /\ call'[c] = Idle /\ \A d \in Calls \ {c} : call'[d] = call[d]
           /\ loop' = Nobody /\ lock' = IF lock = c THEN Nobody ELSE lock
BY DEF Ends, TypeOK

(* Allow, Refuse, Record, Promote, Timeout and Answer, by their effect.     *)
Started(c, q) ==
    /\ loop = Nobody /\ call[c] = Idle
    /\ q \in Call /\ CallOK(q) /\ q.step # "chat"
    /\ q.cost = 0 /\ q.extra = 0 /\ q.owes = 0 /\ ~q.good
    /\ GoesOn(c, q) /\ UNCHANGED <<spent, fallback, lock, writer>>

LEMMA StartEffect ==
    ASSUME TypeOK, NEW c \in Calls, NEW kind \in Kinds, NEW u \in Users, Start(c, kind, u)
    PROVE  \E q : Started(c, q)
<1>1. PICK n \in Chats(kind), step \in FirstSteps(kind) :
         GoesOn(c, [kind |-> kind, user |-> u, step |-> step, left |-> n,
                    degraded |-> FALSE, cost |-> 0, extra |-> 0, owes |-> 0, good |-> FALSE])
    BY DEF Start
<1>2. PICK q : q = [kind |-> kind, user |-> u, step |-> step, left |-> n,
                    degraded |-> FALSE, cost |-> 0, extra |-> 0, owes |-> 0, good |-> FALSE]
    OBVIOUS
<1>3. step \in {"gate", "audit", "promote"} /\ (step = "promote" => kind = "apply")
    BY DEF FirstSteps
<1>4. q \in Call
    BY <1>2, <1>3, FirstChats DEF Call
<1>5. /\ q.kind = kind /\ q.step = step /\ q.left = n /\ q.degraded = FALSE
      /\ q.cost = 0 /\ q.extra = 0 /\ q.owes = 0 /\ q.good = FALSE
    BY <1>2
<1>6. CallOK(q)
    BY <1>3, <1>5, FirstChats, AiGateAssumption DEF CallOK
<1> QED BY <1>1, <1>2, <1>3, <1>4, <1>5, <1>6 DEF Started, Start

(* The call of c is running in a step, or answered, and goes on with q.     *)
Moved(c, q) ==
    /\ call[c] \in Call /\ q \in Call /\ CallOK(q) /\ q.kind = call[c].kind
    /\ GoesOn(c, q) /\ UNCHANGED writer
Stopped(c) == call[c] \in Call /\ Ends(c) /\ UNCHANGED writer

Allowed(c, q) ==
    /\ Moved(c, q) /\ loop = c /\ lock \in {Nobody, c} /\ call[c].step = "gate"
    /\ q.step = "chat" /\ q.cost = call[c].cost /\ q.extra = call[c].extra
    /\ q.degraded \/ spent + fallback + q.cost + q.extra <= Cap
    /\ lock' = (IF q.kind \in Locking THEN c ELSE Nobody)
    /\ UNCHANGED <<spent, fallback>>

LEMMA AllowEffect ==
    ASSUME TypeOK, CallInv, NEW c \in Calls, Allow(c)
    PROVE  \E q : Allowed(c, q)
<1>1. call[c] \in Call /\ call[c] # Idle /\ CallOK(call[c]) /\ call[c].step = "gate"
    BY CallFields DEF Allow, AtGate, TypeOK, CallInv
<1>2. PICK d \in BOOLEAN : d = OverCap(c)
  <2>1. OverCap(c) \in BOOLEAN
      BY DEF OverCap
  <2> QED BY <2>1, Zenon
<1>3. PICK q : q = [call[c] EXCEPT !.step = "chat", !.degraded = d]
    OBVIOUS
<1>4. q \in Call
    BY <1>1, <1>3, CallSteps
<1>5. /\ q.kind = call[c].kind /\ q.step = "chat" /\ q.left = call[c].left
      /\ q.degraded = d /\ q.cost = call[c].cost /\ q.extra = call[c].extra
      /\ q.owes = call[c].owes /\ q.good = call[c].good
    BY <1>1, <1>3 DEF Call
<1>6. CallOK(q)
    BY <1>1, <1>5 DEF CallOK
<1>7. q.degraded \/ spent + fallback + q.cost + q.extra <= Cap
  <2>1. /\ q.cost \in Nat /\ q.extra \in Nat /\ spent \in Nat /\ fallback \in Nat
        /\ Cap \in Nat
      BY <1>4, CallFields, AiGateAssumption DEF TypeOK
  <2>2. ASSUME ~d PROVE spent + fallback + q.cost + q.extra <= Cap
    <3>1. ~OverCap(c)
        BY <1>2, <2>2, Zenon
    <3> QED BY <1>5, <2>1, <3>1 DEF OverCap
  <2> QED BY <1>5, <2>2
<1>8. GoesOn(c, q) /\ lock' = (IF q.kind \in Locking THEN c ELSE Nobody)
    BY <1>2, <1>3, <1>5, Zenon DEF Allow
<1> QED BY <1>1, <1>4, <1>5, <1>6, <1>7, <1>8 DEF Allow, AtGate, Allowed, Moved

Refused(c) ==
    /\ loop = c /\ lock \in {Nobody, c} /\ UNCHANGED <<spent, fallback>>
    /\ \/ Stopped(c)
       \/ \E q : /\ Moved(c, q) /\ lock' = c /\ q.step \in {"promote", "audit"}
                 /\ q.cost = call[c].cost /\ q.extra = call[c].extra
                 /\ q.owes = 0 /\ ~q.good

LEMMA RefuseEffect ==
    ASSUME TypeOK, CallInv, NEW c \in Calls, Refuse(c)
    PROVE  Refused(c)
<1>1. call[c] \in Call /\ call[c] # Idle /\ CallOK(call[c]) /\ call[c].step = "gate"
    BY CallFields DEF Refuse, AtGate, TypeOK, CallInv
<1>2. loop = c /\ lock \in {Nobody, c} /\ UNCHANGED <<spent, fallback, writer>>
    BY DEF Refuse, AtGate
<1>3. ASSUME NEW step \in {"promote", "audit"}, lock' = c,
             step = "promote" => call[c].kind = "apply",
             GoesOn(c, [call[c] EXCEPT !.step = step])
      PROVE  Refused(c)
  <2>1. PICK q : q = [call[c] EXCEPT !.step = step]
      OBVIOUS
  <2>2. q \in Call
      BY <1>1, <2>1, CallSteps
  <2>3. /\ q.kind = call[c].kind /\ q.step = step /\ q.left = call[c].left
        /\ q.degraded = call[c].degraded /\ q.cost = call[c].cost
        /\ q.extra = call[c].extra /\ q.owes = call[c].owes /\ q.good = call[c].good
      BY <1>1, <2>1 DEF Call
  <2>4. CallOK(q)
      BY <1>1, <1>3, <2>3 DEF CallOK
  <2>5. GoesOn(c, q)
      BY <1>3, <2>1
  <2>6. q.owes = 0 /\ ~q.good
      BY <1>1, <2>3 DEF CallOK
  <2> QED BY <1>1, <1>2, <1>3, <2>2, <2>3, <2>4, <2>5, <2>6 DEF Refused, Moved
<1>4. CASE Ends(c)
    BY <1>1, <1>2, <1>4 DEF Refused, Stopped
<1>5. call[c].kind \in Kinds
    BY <1>1, CallFields
<1>6. \/ Ends(c)
      \/ /\ call[c].kind = "apply" /\ lock' = c
         /\ GoesOn(c, [call[c] EXCEPT !.step = "promote"])
      \/ lock' = c /\ GoesOn(c, [call[c] EXCEPT !.step = "audit"])
    BY <1>5 DEF Refuse, Kinds
<1> QED BY <1>3, <1>4, <1>6

Recorded(c) ==
    /\ loop = c /\ lock = Nobody /\ call[c].step = "audit"
    /\ IF call[c].degraded THEN spent' = spent ELSE spent' = spent + call[c].owes
    /\ \/ Stopped(c)
       \/ \E q : /\ Moved(c, q) /\ lock' = lock /\ call[c].good /\ call[c].left > 1
                 /\ q.step = "chat" /\ q.kind \notin Locking
                 /\ q.left = call[c].left - 1 /\ q.cost = call[c].cost
                 /\ q.extra = call[c].extra /\ q.degraded = call[c].degraded

LEMMA RecordEffect ==
    ASSUME TypeOK, CallInv, NEW c \in Calls, Record(c)
    PROVE  Recorded(c)
<1>1. call[c] \in Call /\ call[c] # Idle /\ CallOK(call[c]) /\ call[c].step = "audit"
    BY CallFields DEF Record, TypeOK, CallInv
<1>2. /\ loop = c /\ lock = Nobody /\ UNCHANGED writer
      /\ IF call[c].degraded THEN spent' = spent ELSE spent' = spent + call[c].owes
    BY DEF Record
<1>3. CASE Ends(c)
    BY <1>1, <1>2, <1>3 DEF Recorded, Stopped
<1>4. ASSUME call[c].good, call[c].left > 1, lock' = lock,
             GoesOn(c, [call[c] EXCEPT !.step = "chat", !.left = @ - 1, !.owes = 0])
      PROVE  Recorded(c)
  <2>1. PICK q : q = [call[c] EXCEPT !.step = "chat", !.left = @ - 1, !.owes = 0]
      OBVIOUS
  <2>2. q \in Call
      BY <1>1, <1>4, <2>1, CallSteps
  <2>3. /\ q.kind = call[c].kind /\ q.step = "chat" /\ q.left = call[c].left - 1
        /\ q.degraded = call[c].degraded /\ q.cost = call[c].cost
        /\ q.extra = call[c].extra /\ q.owes = 0 /\ q.good = call[c].good
      BY <1>1, <2>1 DEF Call
  <2>4. CallOK(q) /\ q.kind \notin Locking
      BY <1>1, <1>4, <2>3, AiGateAssumption DEF CallOK
  <2>5. GoesOn(c, q)
      BY <1>4, <2>1
  <2>6. Moved(c, q)
      BY <1>1, <1>2, <2>2, <2>3, <2>4, <2>5 DEF Moved
  <2> QED BY <1>1, <1>2, <1>4, <2>3, <2>4, <2>6 DEF Recorded
<1> QED BY <1>3, <1>4 DEF Record

Promoted(c) ==
    /\ loop = c /\ lock \in {Nobody, c}
    /\ \/ Stopped(c) /\ spent' \in {spent, spent + call[c].cost}
       \/ \E q : /\ Moved(c, q) /\ lock' = c /\ UNCHANGED <<spent, fallback>>
                 /\ q.step = "gate" /\ q.cost = call[c].cost /\ q.extra = call[c].extra

LEMMA PromoteEffect ==
    ASSUME TypeOK, CallInv, NEW c \in Calls, Promote(c)
    PROVE  Promoted(c)
<1>1. call[c] \in Call /\ call[c] # Idle /\ CallOK(call[c]) /\ call[c].step = "promote"
    BY CallFields DEF Promote, TypeOK, CallInv
<1>2. /\ loop = c /\ lock \in {Nobody, c} /\ UNCHANGED writer
    BY DEF Promote
<1>3. CASE Ends(c) /\ spent' \in {spent, spent + call[c].cost}
    BY <1>1, <1>2, <1>3 DEF Promoted, Stopped
<1>4. ASSUME call[c].left > 1, lock' = c, UNCHANGED <<spent, fallback>>,
             GoesOn(c, [call[c] EXCEPT !.step = "gate", !.left = @ - 1])
      PROVE  Promoted(c)
  <2>1. PICK q : q = [call[c] EXCEPT !.step = "gate", !.left = @ - 1]
      OBVIOUS
  <2>2. q \in Call
      BY <1>1, <1>4, <2>1, CallSteps
  <2>3. /\ q.kind = call[c].kind /\ q.step = "gate" /\ q.left = call[c].left - 1
        /\ q.degraded = call[c].degraded /\ q.cost = call[c].cost
        /\ q.extra = call[c].extra /\ q.owes = call[c].owes /\ q.good = call[c].good
      BY <1>1, <2>1 DEF Call
  <2>4. CallOK(q)
      BY <1>1, <1>4, <2>3 DEF CallOK, Locking
  <2>5. GoesOn(c, q)
      BY <1>4, <2>1
  <2>6. Moved(c, q)
      BY <1>1, <1>2, <2>2, <2>3, <2>4, <2>5 DEF Moved
  <2> QED BY <1>2, <1>4, <2>3, <2>6 DEF Promoted
<1> QED BY <1>3, <1>4 DEF Promote

TimedOut(c) ==
    /\ loop = c /\ UNCHANGED <<spent, fallback>>
    /\ \/ Stopped(c)
       \/ \E q : /\ Moved(c, q) /\ lock' = lock /\ lock \notin {Nobody, c}
                 /\ q.step = "promote" /\ q.cost = call[c].cost /\ q.extra = call[c].extra

LEMMA TimeoutEffect ==
    ASSUME TypeOK, CallInv, NEW c \in Calls, Timeout(c)
    PROVE  TimedOut(c)
<1>1. call[c] \in Call /\ call[c] # Idle /\ CallOK(call[c])
    BY CallFields DEF Timeout, TypeOK, CallInv
<1>2. loop = c /\ UNCHANGED <<spent, fallback, writer>>
    BY DEF Timeout
<1>3. CASE Ends(c)
    BY <1>1, <1>2, <1>3 DEF TimedOut, Stopped
<1>4. ASSUME call[c].kind = "apply", call[c].step = "gate", lock' = lock,
             lock \notin {Nobody, c}, GoesOn(c, [call[c] EXCEPT !.step = "promote"])
      PROVE  TimedOut(c)
  <2>1. PICK q : q = [call[c] EXCEPT !.step = "promote"]
      OBVIOUS
  <2>2. q \in Call
      BY <1>1, <2>1, CallSteps
  <2>3. /\ q.kind = call[c].kind /\ q.step = "promote" /\ q.left = call[c].left
        /\ q.degraded = call[c].degraded /\ q.cost = call[c].cost
        /\ q.extra = call[c].extra /\ q.owes = call[c].owes /\ q.good = call[c].good
      BY <1>1, <2>1 DEF Call
  <2>4. CallOK(q)
      BY <1>1, <1>4, <2>3 DEF CallOK
  <2>5. GoesOn(c, q)
      BY <1>4, <2>1
  <2>6. Moved(c, q)
      BY <1>1, <1>2, <2>2, <2>3, <2>4, <2>5 DEF Moved
  <2> QED BY <1>2, <1>4, <2>3, <2>6 DEF TimedOut
<1> QED BY <1>3, <1>4 DEF Timeout

Answered(c) ==
    /\ loop = Nobody /\ call[c].step = "chat" /\ UNCHANGED <<spent, fallback>>
    /\ \E k \in Nat :
          /\ k <= MaxCost
          /\ \/ Stopped(c)
             \/ \E q : /\ Moved(c, q) /\ q.kind = "apply" /\ q.step = "promote"
                       /\ IF call[c].degraded THEN q.cost = call[c].cost
                                              ELSE q.cost = call[c].cost + k
                       /\ UNCHANGED lock
             \/ \E q : /\ Moved(c, q) /\ q.kind \notin Locking /\ q.step = "audit"
                       /\ q.left = call[c].left /\ q.degraded = call[c].degraded
                       /\ q.cost = call[c].cost /\ q.extra = call[c].extra /\ q.owes = k
                       /\ UNCHANGED lock

LEMMA AnswerEffect ==
    ASSUME TypeOK, CallInv, NEW c \in Calls, Answer(c)
    PROVE  Answered(c)
<1>1. call[c] \in Call /\ call[c] # Idle /\ CallOK(call[c])
    BY CallFields DEF Answer, TypeOK, CallInv
<1>2. /\ loop = Nobody /\ call[c].step = "chat"
      /\ UNCHANGED <<spent, fallback, writer>>
    BY DEF Answer
<1>3. PICK k \in Nat, good \in BOOLEAN : Answers(c, k, good)
    BY AnswerOutcome, Zenon
<1>4. k <= MaxCost
    BY <1>3 DEF Answers
<1>5. CASE Ends(c)
    BY <1>1, <1>2, <1>4, <1>5 DEF Answered, Stopped
<1>6. ASSUME call[c].kind = "apply", UNCHANGED lock, ~call[c].degraded,
             GoesOn(c, [call[c] EXCEPT !.step = "promote", !.cost = @ + k])
      PROVE  Answered(c)
  <2>1. PICK q : q = [call[c] EXCEPT !.step = "promote", !.cost = @ + k]
      OBVIOUS
  <2>2. q \in Call
      BY <1>1, <2>1, CallSteps
  <2>3. /\ q.kind = call[c].kind /\ q.step = "promote" /\ q.left = call[c].left
        /\ q.degraded = call[c].degraded /\ q.cost = call[c].cost + k
        /\ q.extra = call[c].extra /\ q.owes = call[c].owes /\ q.good = call[c].good
      BY <1>1, <2>1 DEF Call
  <2>4. CallOK(q)
      BY <1>1, <1>6, <2>3 DEF CallOK
  <2>5. GoesOn(c, q)
      BY <1>6, <2>1
  <2>6. Moved(c, q)
      BY <1>1, <1>2, <2>2, <2>3, <2>4, <2>5 DEF Moved
  <2> QED BY <1>2, <1>4, <1>6, <2>3, <2>6 DEF Answered
<1>7. ASSUME call[c].kind = "apply", UNCHANGED lock, call[c].degraded,
             GoesOn(c, [call[c] EXCEPT !.step = "promote", !.extra = @ + k])
      PROVE  Answered(c)
  <2>1. PICK q : q = [call[c] EXCEPT !.step = "promote", !.extra = @ + k]
      OBVIOUS
  <2>2. q \in Call
      BY <1>1, <2>1, CallSteps
  <2>3. /\ q.kind = call[c].kind /\ q.step = "promote" /\ q.left = call[c].left
        /\ q.degraded = call[c].degraded /\ q.cost = call[c].cost
        /\ q.owes = call[c].owes /\ q.good = call[c].good
      BY <1>1, <2>1 DEF Call
  <2>4. CallOK(q)
      BY <1>1, <1>7, <2>3 DEF CallOK
  <2>5. GoesOn(c, q)
      BY <1>7, <2>1
  <2>6. Moved(c, q)
      BY <1>1, <1>2, <2>2, <2>3, <2>4, <2>5 DEF Moved
  <2> QED BY <1>2, <1>4, <1>7, <2>3, <2>6 DEF Answered
<1>8. ASSUME call[c].kind \notin Locking, UNCHANGED lock,
             GoesOn(c, [call[c] EXCEPT !.step = "audit", !.owes = k, !.good = good])
      PROVE  Answered(c)
  <2>1. PICK q : q = [call[c] EXCEPT !.step = "audit", !.owes = k, !.good = good]
      OBVIOUS
  <2>2. q \in Call
      BY <1>1, <2>1, CallSteps
  <2>3. /\ q.kind = call[c].kind /\ q.step = "audit" /\ q.left = call[c].left
        /\ q.degraded = call[c].degraded /\ q.cost = call[c].cost
        /\ q.extra = call[c].extra /\ q.owes = k /\ q.good = good
      BY <1>1, <2>1 DEF Call
  <2>4. CallOK(q)
      BY <1>1, <1>4, <1>8, <2>3 DEF CallOK
  <2>5. GoesOn(c, q)
      BY <1>8, <2>1
  <2>6. Moved(c, q)
      BY <1>1, <1>2, <2>2, <2>3, <2>4, <2>5 DEF Moved
  <2> QED BY <1>2, <1>4, <1>8, <2>3, <2>6 DEF Answered
<1> QED BY <1>3, <1>5, <1>6, <1>7, <1>8 DEF Answers

(* Every step of a call is one of these; the rest of Next leaves the calls  *)
(* alone, or only forgets their costs.                                      *)
Step(c) ==
    \/ (\E q : Started(c, q)) \/ (\E q : Allowed(c, q))
    \/ Refused(c) \/ Recorded(c) \/ Promoted(c) \/ TimedOut(c) \/ Answered(c)

LEMMA StepEffect ==
    ASSUME TypeOK, CallInv, Next
    PROVE  \/ \E c \in Calls : Step(c)
           \/ NewMonth
           \/ \E w \in Writers : Wait(w) \/ Resume(w) \/ Commit(w)
           \/ \E u \in Users : Slide(u)
<1>1. ASSUME NEW c \in Calls, NEW kind \in Kinds, NEW u \in Users, Start(c, kind, u)
      PROVE  Step(c)
    BY <1>1, StartEffect DEF Step
<1>2. ASSUME NEW c \in Calls, Run(c) \/ Answer(c)
      PROVE  Step(c)
    BY <1>2, AllowEffect, RefuseEffect, RecordEffect, PromoteEffect, TimeoutEffect,
       AnswerEffect DEF Run, Step
<1> QED BY <1>1, <1>2 DEF Next

(* Where the call of c is after its step: the others stay where they are.   *)
LEMMA StepMoves ==
    ASSUME TypeOK, NEW c \in Calls, Step(c)
    PROVE  /\ \A d \in Calls \ {c} : call'[d] = call[d]
           /\ call'[c] = Idle \/ (call'[c] \in Call /\ CallOK(call'[c]))
           /\ loop \in {Nobody, c}
           /\ loop' = IF call'[c] # Idle /\ call'[c].step # "chat" THEN c ELSE Nobody
           /\ UNCHANGED writer
<1>1. ASSUME NEW q, Moved(c, q) \/ Started(c, q), q # Idle
      PROVE  /\ \A d \in Calls \ {c} : call'[d] = call[d]
             /\ call'[c] \in Call /\ CallOK(call'[c]) /\ UNCHANGED writer
             /\ loop' = IF call'[c] # Idle /\ call'[c].step # "chat" THEN c ELSE Nobody
    BY <1>1, MovesTo DEF Moved, Started
<1>2. \A q \in Call : q # Idle
    BY DEF Call, Idle
<1>3. CASE Stopped(c)
    BY <1>3, MovesToIdle DEF Stopped, Step, Refused, Recorded, Promoted, TimedOut, Answered, Started, Allowed
<1>4. loop \in {Nobody, c}
    BY DEF Step, Started, Allowed, Refused, Recorded, Promoted, TimedOut, Answered
<1>5. Stopped(c) \/ \E q : q \in Call /\ (Moved(c, q) \/ Started(c, q))
    BY DEF Step, Started, Allowed, Refused, Recorded, Promoted, TimedOut, Answered, Moved
<1> QED BY <1>1, <1>2, <1>3, <1>4, <1>5

LEMMA CallStep == TypeOK /\ CallInv /\ [Next]_vars => CallInv'
<1> SUFFICES ASSUME TypeOK, CallInv, [Next]_vars PROVE CallInv'
    OBVIOUS
<1> USE DEF CallInv
<1>1. ASSUME call' = call PROVE CallInv'
    BY <1>1
<1>2. ASSUME NEW c \in Calls, Step(c) PROVE CallInv'
    BY <1>2, StepMoves
<1>3. CASE NewMonth
  <2>1. ASSUME NEW c \in Calls, call'[c] # Idle PROVE CallOK(call'[c])
    <3>1. call[c] # Idle /\ call[c] \in Call /\ CallOK(call[c])
        BY <1>3, <2>1, CallFields DEF NewMonth, TypeOK
    <3>2. PICK q : q = [call[c] EXCEPT !.cost = 0, !.extra = 0]
        OBVIOUS
    <3>3. /\ q.kind = call[c].kind /\ q.step = call[c].step /\ q.left = call[c].left
          /\ q.degraded = call[c].degraded /\ q.cost = 0 /\ q.extra = 0
          /\ q.owes = call[c].owes /\ q.good = call[c].good
        BY <3>1, <3>2 DEF Call
    <3>4. CallOK(q)
        BY <3>1, <3>3 DEF CallOK
    <3>5. call'[c] = q
        BY <1>3, <3>1, <3>2 DEF NewMonth
    <3> QED BY <3>4, <3>5
  <2> QED BY <2>1
<1>4. ASSUME NEW w \in Writers, Wait(w) \/ Resume(w) \/ Commit(w) PROVE call' = call
    BY <1>4 DEF Wait, Resume, Commit
<1>5. ASSUME NEW u \in Users, Slide(u) PROVE call' = call
    BY <1>5 DEF Slide
<1>6. CASE UNCHANGED vars
    BY <1>6 DEF vars
<1> QED BY <1>1, <1>2, <1>3, <1>4, <1>5, <1>6, StepEffect

LEMMA CallInit == Init => CallInv
BY DEF Init, CallInv

-----------------------------------------------------------------------------
(* The write lock.                                                          *)

(* Who may hold it, and the two that do hold it: a writer at work, and a    *)
(* chat of a capability that keeps its session.                             *)
WriterInv == \A w \in Writers : lock = w <=> writer[w] = "writes"
ChatInv   == \A c \in Calls :
                call[c] # Idle /\ call[c].step = "chat" /\ call[c].kind \in Locking
                => lock = c
CostInv   == \A c \in Calls :
                call[c] # Idle /\ lock # c => call[c].cost = 0 /\ call[c].extra = 0
LoopInv   == \A c \in Calls : loop = c <=> call[c] # Idle /\ call[c].step # "chat"
HoldInv   == \A c \in Calls : lock = c =>
                \/ loop = c
                \/ call[c] # Idle /\ call[c].step = "chat" /\ call[c].kind \in Locking
LockInv   == WriterInv /\ ChatInv /\ CostInv /\ LoopInv /\ HoldInv

LEMMA LockInit == Init => LockInv
BY Names DEF Init, LockInv, WriterInv, ChatInv, CostInv, LoopInv, HoldInv, Idle

(* A step of c keeps all that if it takes the lock from nobody else, and    *)
(* leaves it with c just when c has use for it.                             *)
LEMMA LockMoves ==
    ASSUME TypeOK, LockInv, NEW c \in Calls, Step(c),
           lock' = lock \/ (lock \in {Nobody, c} /\ lock' \in {Nobody, c}),
           call'[c] # Idle => /\ call'[c].step = "chat" =>
                                   /\ call'[c].kind \in Locking => lock' = c
                                   /\ lock' = c => call'[c].kind \in Locking
                              /\ lock' # c => call'[c].cost = 0 /\ call'[c].extra = 0,
           call'[c] = Idle => lock' # c
    PROVE  LockInv'
<1> USE StepMoves, Names
<1>1. WriterInv'
    BY DEF LockInv, WriterInv
<1>2. ChatInv'
    BY DEF LockInv, ChatInv, TypeOK
<1>3. CostInv'
    BY DEF LockInv, CostInv
<1>4. LoopInv'
    BY DEF LockInv, LoopInv
<1>5. HoldInv'
    BY DEF LockInv, HoldInv
<1> QED BY <1>1, <1>2, <1>3, <1>4, <1>5 DEF LockInv

LEMMA StepLock ==
    ASSUME TypeOK, CallInv, LockInv, NEW c \in Calls, Step(c)
    PROVE  LockInv'
<1>1. CASE Stopped(c)
    BY <1>1, LockMoves, MovesToIdle, Names DEF Stopped
<1>2. ASSUME NEW q, Started(c, q) PROVE LockInv'
  <2>1. call'[c] = q /\ q # Idle /\ q.step # "chat" /\ lock' = lock
        /\ q.cost = 0 /\ q.extra = 0
      BY <1>2, MovesTo, CallFields DEF Started, Idle
  <2> QED BY <2>1, LockMoves
<1>3. ASSUME NEW q, Allowed(c, q) PROVE LockInv'
  <2>1. /\ call'[c] = q /\ q # Idle /\ q.step = "chat" /\ CallOK(q)
        /\ lock \in {Nobody, c} /\ lock' = IF q.kind \in Locking THEN c ELSE Nobody
      BY <1>3, MovesTo, CallFields DEF Allowed, Moved, Idle
  <2>2. q.kind \notin Locking => q.cost = 0 /\ q.extra = 0
      BY <2>1 DEF CallOK, Locking
  <2> QED BY <2>1, <2>2, LockMoves, Names
<1>4. ASSUME NEW q, Moved(c, q), lock' = c, lock \in {Nobody, c}, q.step # "chat"
      PROVE  LockInv'
  <2>1. call'[c] = q /\ q # Idle
      BY <1>4, MovesTo, CallFields DEF Moved, Idle
  <2> QED BY <1>4, <2>1, LockMoves
<1>5. ASSUME NEW q, Moved(c, q), lock' = lock, lock # c, q.cost = call[c].cost,
             q.extra = call[c].extra, q.step = "chat" => q.kind \notin Locking
      PROVE  LockInv'
  <2>1. call'[c] = q /\ q # Idle /\ call[c] # Idle
      BY <1>5, MovesTo, CallFields DEF Moved, Idle
  <2>2. q.cost = 0 /\ q.extra = 0
      BY <1>5, <2>1 DEF LockInv, CostInv
  <2> QED BY <1>5, <2>1, <2>2, LockMoves
<1>6. ASSUME NEW q, Moved(c, q), lock' = lock, lock = c, q.step # "chat"
      PROVE  LockInv'
  <2>1. call'[c] = q /\ q # Idle
      BY <1>6, MovesTo, CallFields DEF Moved, Idle
  <2> QED BY <1>6, <2>1, LockMoves
<1>7. CASE Refused(c)
    BY <1>1, <1>4, <1>7 DEF Refused
<1>8. CASE Recorded(c)
    BY <1>1, <1>5, <1>8, Names DEF Recorded
<1>9. CASE Promoted(c)
    BY <1>1, <1>4, <1>9 DEF Promoted
<1>10. CASE TimedOut(c)
    BY <1>1, <1>5, <1>10 DEF TimedOut
<1>11. CASE Answered(c)
  <2>1. call[c].kind = "apply" /\ call[c] # Idle => lock = c
      BY <1>11 DEF Answered, LockInv, ChatInv, Locking
  <2>2. ASSUME NEW q, Moved(c, q), q.kind = "apply", q.step = "promote",
               UNCHANGED lock
        PROVE  LockInv'
    <3>1. call[c] # Idle /\ call[c].kind = "apply"
        BY <2>2, CallFields DEF Moved
    <3> QED BY <1>6, <2>1, <2>2, <3>1
  <2>3. ASSUME NEW q, Moved(c, q), q.step = "audit", q.cost = call[c].cost,
               q.extra = call[c].extra, UNCHANGED lock
        PROVE  LockInv'
      BY <1>5, <1>6, <2>3
  <2> QED BY <1>1, <1>11, <2>2, <2>3 DEF Answered
<1> QED BY <1>2, <1>3, <1>7, <1>8, <1>9, <1>10, <1>11 DEF Step

LEMMA LockStep == TypeOK /\ CallInv /\ LockInv /\ [Next]_vars => LockInv'
<1> SUFFICES ASSUME TypeOK, CallInv, LockInv, [Next]_vars PROVE LockInv'
    OBVIOUS
<1> USE DEF LockInv, WriterInv, ChatInv, CostInv, LoopInv, HoldInv
<1>1. ASSUME NEW c \in Calls, Step(c) PROVE LockInv'
    BY <1>1, StepLock
<1>2. ASSUME NEW w \in Writers, Wait(w) PROVE LockInv'
    BY <1>2 DEF Wait, TypeOK
<1>3. ASSUME NEW w \in Writers, Resume(w) PROVE LockInv'
  <2>1. CASE lock = Nobody
      BY <1>3, <2>1, Names DEF Resume, TypeOK
  <2>2. CASE lock # Nobody
      BY <1>3, <2>2 DEF Resume, TypeOK
  <2> QED BY <2>1, <2>2
<1>4. ASSUME NEW w \in Writers, Commit(w) PROVE LockInv'
    BY <1>4, Names DEF Commit, TypeOK
<1>5. ASSUME NEW u \in Users, Slide(u) PROVE LockInv'
    BY <1>5 DEF Slide
<1>6. CASE NewMonth
  <2>1. \A c \in Calls :
           /\ call'[c] = Idle <=> call[c] = Idle
           /\ call[c] # Idle => /\ call'[c].step = call[c].step /\ call'[c].cost = 0
                                /\ call'[c].extra = 0 /\ call'[c].kind = call[c].kind
    <3> SUFFICES ASSUME NEW c \in Calls, call[c] # Idle
                 PROVE  /\ call'[c] # Idle /\ call'[c].step = call[c].step
                        /\ call'[c].cost = 0 /\ call'[c].extra = 0
                        /\ call'[c].kind = call[c].kind
        BY <1>6 DEF NewMonth
    <3>1. call[c] \in Call /\ call'[c] = [call[c] EXCEPT !.cost = 0, !.extra = 0]
        BY <1>6, CallFields DEF NewMonth, TypeOK
    <3> QED BY <3>1 DEF Call, Idle
  <2>2. UNCHANGED <<lock, loop, writer>>
      BY <1>6 DEF NewMonth
  <2> QED BY <2>1, <2>2
<1>7. CASE UNCHANGED vars
    BY <1>7 DEF vars
<1> QED BY <1>1, <1>2, <1>3, <1>4, <1>5, <1>6, <1>7, StepEffect

(* The write lock never leaks: it is with a writer at work, with the        *)
(* coroutine that runs, or with a chat of a capability that keeps it, and   *)
(* rows that are not committed belong to its holder.                        *)
THEOREM LockAccounted == Spec => []LockIsAccountedFor
<1>1. LockInv => LockIsAccountedFor
  <2> SUFFICES ASSUME LockInv PROVE LockIsAccountedFor
      OBVIOUS
  <2> QED BY DEF LockInv, WriterInv, HoldInv, CostInv, LockIsAccountedFor
<1> QED BY <1>1, TypeInit, CallInit, LockInit, TypeStep, CallStep, LockStep, PTL
        DEF Spec

-----------------------------------------------------------------------------
(* The cap, of a call that keeps the lock over its chat.                    *)

Total(c) == spent + fallback + call[c].cost + call[c].extra

HeldInv ==
    \A c \in Calls :
        /\ call[c] # Idle /\ call[c].step = "chat"
        /\ call[c].kind \in Locking /\ ~call[c].degraded
        => Total(c) <= Cap

(* Nothing is committed while another call chats under the lock: what is    *)
(* spent is spent by the holder, or by a call that finds nobody.            *)
LEMMA SpendsAlone ==
    ASSUME NEW c \in Calls, Step(c), spent' # spent \/ fallback' # fallback
    PROVE  lock \in {Nobody, c}
<1>1. CASE Recorded(c) \/ Promoted(c)
    BY <1>1 DEF Recorded, Promoted
<1> QED BY <1>1 DEF Step, Started, Allowed, Refused, TimedOut, Answered

LEMMA StepHeld ==
    ASSUME TypeOK, CallInv, LockInv, HeldInv, NEW c \in Calls, Step(c)
    PROVE  HeldInv'
<1>1. ASSUME NEW d \in Calls \ {c}, call'[d] # Idle, call'[d].step = "chat",
             call'[d].kind \in Locking, ~call'[d].degraded
      PROVE  Total(d)' <= Cap
  <2>1. call'[d] = call[d]
      BY StepMoves
  <2>2. lock = d
      BY <1>1, <2>1 DEF LockInv, ChatInv
  <2>3. spent' = spent /\ fallback' = fallback
      BY <2>2, SpendsAlone, Names
  <2> QED BY <1>1, <2>1, <2>3 DEF HeldInv, Total
<1>2. ASSUME call'[c] # Idle, call'[c].step = "chat",
             call'[c].kind \in Locking, ~call'[c].degraded
      PROVE  Total(c)' <= Cap
  <2>1. ASSUME NEW q, Moved(c, q) \/ Started(c, q) PROVE call'[c] = q
      BY <2>1, MovesTo DEF Moved, Started
  <2>2. ~Stopped(c)
      BY <1>2, MovesToIdle DEF Stopped
  <2>3. PICK q : Allowed(c, q)
    <3>1. ASSUME NEW q, Moved(c, q) \/ Started(c, q),
                 q.step # "chat" \/ q.kind \notin Locking
          PROVE  FALSE
        BY <1>2, <2>1, <3>1
    <3> QED BY <2>2, <3>1 DEF Step, Started, Refused, Recorded, Promoted, TimedOut, Answered
  <2> QED BY <1>2, <2>1, <2>3 DEF Allowed, Total
<1> QED BY <1>1, <1>2 DEF HeldInv

(* What the rest of Next does to the calls and to the spend. *)
LEMMA RestEffect ==
    ASSUME TypeOK,
           \/ NewMonth \/ UNCHANGED vars
           \/ \E w \in Writers : Wait(w) \/ Resume(w) \/ Commit(w)
           \/ \E u \in Users : Slide(u)
    PROVE  /\ spent' \in Nat /\ spent' <= spent
           /\ fallback' \in Nat /\ fallback' <= fallback
           /\ \A c \in Calls :
                 /\ call'[c] = Idle <=> call[c] = Idle
                 /\ call[c] # Idle =>
                      /\ call'[c].step = call[c].step /\ call'[c].kind = call[c].kind
                      /\ call'[c].left = call[c].left /\ call'[c].owes = call[c].owes
                      /\ call'[c].good = call[c].good
                      /\ call'[c].degraded = call[c].degraded
                      /\ call'[c].cost \in Nat /\ call'[c].cost <= call[c].cost
                      /\ call'[c].extra \in Nat /\ call'[c].extra <= call[c].extra
<1>1. ASSUME call' = call, spent' = spent, fallback' = fallback
      PROVE  /\ spent' \in Nat /\ spent' <= spent
             /\ fallback' \in Nat /\ fallback' <= fallback
             /\ \A c \in Calls :
                   /\ call'[c] = Idle <=> call[c] = Idle
                   /\ call[c] # Idle => /\ call'[c] = call[c] /\ call'[c].cost \in Nat
                                        /\ call'[c].extra \in Nat
    BY <1>1, CallFields DEF TypeOK
<1>2. CASE NewMonth
  <2>1. spent \in Nat /\ fallback \in Nat
      BY DEF TypeOK
  <2>2. spent' = 0 /\ fallback' = 0
      BY <1>2 DEF NewMonth
  <2>3. spent' \in Nat /\ spent' <= spent /\ fallback' \in Nat /\ fallback' <= fallback
      BY <2>1, <2>2
  <2>4. ASSUME NEW c \in Calls
        PROVE  /\ call'[c] = Idle <=> call[c] = Idle
               /\ call[c] # Idle =>
                      /\ call'[c].step = call[c].step /\ call'[c].kind = call[c].kind
                      /\ call'[c].left = call[c].left /\ call'[c].owes = call[c].owes
                      /\ call'[c].good = call[c].good
                      /\ call'[c].degraded = call[c].degraded
                      /\ call'[c].cost \in Nat /\ call'[c].cost <= call[c].cost
                      /\ call'[c].extra \in Nat /\ call'[c].extra <= call[c].extra
    <3>1. CASE call[c] = Idle
        BY <1>2, <3>1 DEF NewMonth
    <3>2. CASE call[c] # Idle
      <4>1. PICK q : q = [call[c] EXCEPT !.cost = 0, !.extra = 0]
          OBVIOUS
      <4>2. call[c] \in Call /\ call'[c] = q
          BY <1>2, <3>2, <4>1, CallFields DEF NewMonth, TypeOK
      <4>3. q \in Call
          BY <4>1, <4>2, CallSteps
      <4>4. /\ q.kind = call[c].kind /\ q.step = call[c].step /\ q.left = call[c].left
            /\ q.degraded = call[c].degraded /\ q.cost = 0 /\ q.extra = 0
            /\ q.owes = call[c].owes /\ q.good = call[c].good
          BY <4>1, <4>2 DEF Call
      <4> QED BY <3>2, <4>2, <4>3, <4>4, CallFields
    <3> QED BY <3>1, <3>2
  <2> QED BY <2>3, <2>4
<1>3. ASSUME NEW w \in Writers, Wait(w) \/ Resume(w) \/ Commit(w)
      PROVE  call' = call /\ spent' = spent /\ fallback' = fallback
    BY <1>3 DEF Wait, Resume, Commit
<1>4. ASSUME NEW u \in Users, Slide(u)
      PROVE  call' = call /\ spent' = spent /\ fallback' = fallback
    BY <1>4 DEF Slide
<1>5. CASE UNCHANGED vars
    BY <1>1, <1>5, CallFields DEF vars, TypeOK
<1>6. CASE call' = call /\ spent' = spent /\ fallback' = fallback
    BY <1>1, <1>6, CallFields DEF TypeOK
<1> QED BY <1>2, <1>3, <1>4, <1>5, <1>6

LEMMA HeldStep == TypeOK /\ CallInv /\ LockInv /\ HeldInv /\ [Next]_vars => HeldInv'
<1> SUFFICES ASSUME TypeOK, CallInv, LockInv, HeldInv, [Next]_vars PROVE HeldInv'
    OBVIOUS
<1>1. CASE \E c \in Calls : Step(c)
    BY <1>1, StepHeld
<1>2. CASE \/ NewMonth \/ UNCHANGED vars
           \/ \E w \in Writers : Wait(w) \/ Resume(w) \/ Commit(w)
           \/ \E u \in Users : Slide(u)
  <2>1. ASSUME NEW c \in Calls, call'[c] # Idle, call'[c].step = "chat",
               call'[c].kind \in Locking, ~call'[c].degraded
        PROVE  Total(c)' <= Cap
    <3>1. /\ call[c] # Idle /\ call[c].step = "chat" /\ call[c].kind \in Locking
          /\ ~call[c].degraded
          /\ spent' \in Nat /\ spent' <= spent /\ fallback' \in Nat /\ fallback' <= fallback
          /\ call'[c].cost \in Nat /\ call'[c].cost <= call[c].cost
          /\ call'[c].extra \in Nat /\ call'[c].extra <= call[c].extra
        BY <1>2, <2>1, RestEffect
    <3>2. spent + fallback + call[c].cost + call[c].extra <= Cap
        BY <3>1 DEF HeldInv, Total
    <3>3. /\ spent \in Nat /\ fallback \in Nat /\ Cap \in Nat
          /\ call[c].cost \in Nat /\ call[c].extra \in Nat
        BY <3>1, CallFields, AiGateAssumption DEF TypeOK
    <3> QED BY <3>1, <3>2, <3>3 DEF Total
  <2> QED BY <2>1 DEF HeldInv
<1> QED BY <1>1, <1>2, StepEffect

(* Over a chat that keeps the lock what is recorded for the month, with     *)
(* what its own session has written, stays within the cap that the gate     *)
(* compared.                                                                *)
THEOREM HeldWithinCap == Spec => []HeldCallIsWithinCap
<1>1. TypeOK /\ HeldInv => HeldCallIsWithinCap
    BY CallFields DEF HeldInv, Total, HeldCallIsWithinCap, TypeOK
<1>2. Init => HeldInv
    BY DEF Init, HeldInv
<1> QED BY <1>1, <1>2, TypeInit, CallInit, LockInit, TypeStep, CallStep, LockStep,
           HeldStep, PTL DEF Spec

-----------------------------------------------------------------------------
(* The cap, of all calls.                                                   *)

(* How many answers a call may still charge without a gate in between.      *)
Owed(r)  == IF r.owes > 0 THEN 1 ELSE 0
Chats2(r) == IF r.good THEN r.left - 1 ELSE 0
Units(r) ==
    IF r = Idle \/ r.degraded THEN 0
    ELSE IF r.step = "chat" THEN IF r.kind = "apply" THEN 1 ELSE r.left
    ELSE IF r.step = "audit" THEN Owed(r) + Chats2(r)
    ELSE 0

(* Counted one by one: the i-th charge of c. *)
Tokens(f) == {p \in Calls \X (1 .. 2) : p[2] <= Units(f[p[1]])}
Count(f)  == Cardinality(Tokens(f))

LEMMA UnitsBound ==
    ASSUME NEW r \in Call \cup {Idle}, r # Idle => CallOK(r)
    PROVE  Units(r) \in 0 .. 2
<1>1. CASE r = Idle
    BY <1>1 DEF Units
<1>2. CASE r # Idle
  <2>1. /\ CallOK(r) /\ r.kind \in Kinds /\ r.left \in Nat /\ r.owes \in Nat
        /\ r.good \in BOOLEAN
      BY <1>2, CallFields
  <2>2. Owed(r) \in 0 .. 1
      BY DEF Owed
  <2>3. Chats2(r) \in 0 .. 1
    <3>1. CASE r.good
      <4>1. r.left \in 1 .. 2
          BY <2>1, <3>1 DEF CallOK, Locking
      <4> QED BY <3>1, <4>1 DEF Chats2
    <3>2. CASE ~r.good
        BY <3>2 DEF Chats2
    <3> QED BY <3>1, <3>2
  <2>4. (IF r.kind = "apply" THEN 1 ELSE r.left) \in 0 .. 2
      BY <2>1 DEF CallOK
  <2>5. Owed(r) + Chats2(r) \in 0 .. 2
      BY <2>2, <2>3
  <2> QED BY <2>4, <2>5 DEF Units
<1> QED BY <1>1, <1>2

LEMMA TokensFinite ==
    ASSUME NEW f
    PROVE  /\ IsFiniteSet(Tokens(f)) /\ Count(f) \in Nat
           /\ Cardinality(Calls) \in Nat /\ Count(f) <= 2 * Cardinality(Calls)
<1>1. IsFiniteSet(1 .. 2) /\ Cardinality(1 .. 2) = 2
  <2>1. PICK i \in Int, j \in Int : i = 1 /\ j = 2
      OBVIOUS
  <2>2. IsFiniteSet(i .. j) /\ Cardinality(i .. j) = IF i > j THEN 0 ELSE j - i + 1
      BY FS_Interval, Zenon
  <2> QED BY <2>1, <2>2
<1>2. IsFiniteSet(Calls) /\ Cardinality(Calls) \in Nat
    BY AiGateAssumption, FS_CardinalityType
<1>3. /\ IsFiniteSet(Calls \X (1 .. 2))
      /\ Cardinality(Calls \X (1 .. 2)) = Cardinality(Calls) * Cardinality(1 .. 2)
    BY <1>1, <1>2, FS_Product
<1>4. Tokens(f) \subseteq Calls \X (1 .. 2)
    BY DEF Tokens
<1>5. /\ IsFiniteSet(Tokens(f))
      /\ Cardinality(Tokens(f)) <= Cardinality(Calls \X (1 .. 2))
    BY <1>3, <1>4, FS_Subset
<1>6. Count(f) \in Nat
    BY <1>5, FS_CardinalityType DEF Count
<1> QED BY <1>1, <1>2, <1>3, <1>5, <1>6 DEF Count

LEMMA CountKeeps ==
    ASSUME NEW f, NEW g, \A d \in Calls : Units(f[d]) \in 0 .. 2 /\ Units(g[d]) \in 0 .. 2,
           \A d \in Calls : Units(g[d]) <= Units(f[d])
    PROVE  Count(g) <= Count(f)
<1>1. Tokens(g) \subseteq Tokens(f)
  <2> SUFFICES ASSUME NEW d \in Calls, NEW i \in 1 .. 2, i <= Units(g[d])
               PROVE  i <= Units(f[d])
      BY DEF Tokens
  <2>1. Units(f[d]) \in 0 .. 2 /\ Units(g[d]) \in 0 .. 2 /\ Units(g[d]) <= Units(f[d])
      OBVIOUS
  <2> QED BY <2>1
<1> QED BY <1>1, TokensFinite, FS_Subset DEF Count

LEMMA CountDrops ==
    ASSUME NEW f, NEW g, \A d \in Calls : Units(f[d]) \in 0 .. 2 /\ Units(g[d]) \in 0 .. 2,
           \A d \in Calls : Units(g[d]) <= Units(f[d]),
           NEW c \in Calls, Units(g[c]) < Units(f[c])
    PROVE  Count(g) + 1 <= Count(f)
<1>1. Count(g) <= Count(f)
    BY CountKeeps
<1>2. Tokens(g) \subseteq Tokens(f)
  <2> SUFFICES ASSUME NEW d \in Calls, NEW i \in 1 .. 2, i <= Units(g[d])
               PROVE  i <= Units(f[d])
      BY DEF Tokens
  <2>1. Units(f[d]) \in 0 .. 2 /\ Units(g[d]) \in 0 .. 2 /\ Units(g[d]) <= Units(f[d])
      OBVIOUS
  <2> QED BY <2>1
<1>3. Tokens(g) # Tokens(f)
  <2>1. PICK i \in 1 .. 2 : i = Units(f[c])
    <3>1. Units(f[c]) \in 0 .. 2 /\ Units(g[c]) \in 0 .. 2
        OBVIOUS
    <3> QED BY <3>1
  <2>2. ~(i <= Units(g[c]))
    <3>1. Units(f[c]) \in 0 .. 2 /\ Units(g[c]) \in 0 .. 2
        OBVIOUS
    <3> QED BY <2>1, <3>1
  <2>3. <<c, i>> \in Tokens(f) /\ <<c, i>> \notin Tokens(g)
      BY <2>1, <2>2 DEF Tokens
  <2> QED BY <2>3
<1>4. Count(g) # Count(f)
    BY <1>2, <1>3, TokensFinite, FS_Subset DEF Count
<1> QED BY <1>1, <1>4, TokensFinite

(* A spend of x is within the bound when n more answers may be charged.     *)
Within(x, n) == x + n * MaxCost <= Cap + (2 * Cardinality(Calls)) * MaxCost

LEMMA Products ==
    ASSUME NEW m \in Nat, NEW n \in Nat
    PROVE  /\ m * MaxCost \in Nat /\ n * MaxCost \in Nat
           /\ m <= n => m * MaxCost <= n * MaxCost
           /\ m + 1 <= n => m * MaxCost + MaxCost <= n * MaxCost
<1>0. MaxCost \in Nat
    BY AiGateAssumption
<1>1. m * MaxCost \in Nat /\ n * MaxCost \in Nat
    BY <1>0
<1>2. ASSUME m <= n PROVE m * MaxCost <= n * MaxCost
  <2>1. PICK e \in Nat : n = m + e
    <3>1. n - m \in Nat /\ n = m + (n - m)
        BY <1>2
    <3> QED BY <3>1
  <2>2. n * MaxCost = m * MaxCost + e * MaxCost
      BY <1>0, <2>1
  <2>3. e * MaxCost \in Nat
      BY <1>0
  <2> QED BY <1>1, <2>2, <2>3
<1>3. ASSUME m + 1 <= n PROVE m * MaxCost + MaxCost <= n * MaxCost
  <2>1. PICK e \in Nat : n = m + 1 + e
    <3>1. n - (m + 1) \in Nat /\ n = m + 1 + (n - (m + 1))
        BY <1>3
    <3> QED BY <3>1
  <2>2. n * MaxCost = m * MaxCost + MaxCost + e * MaxCost
      BY <1>0, <2>1
  <2>3. e * MaxCost \in Nat
      BY <1>0
  <2> QED BY <1>0, <1>1, <2>2, <2>3
<1> QED BY <1>1, <1>2, <1>3

LEMMA WithinKept ==
    ASSUME NEW x \in Nat, NEW y \in Nat, NEW m \in Nat, NEW n \in Nat, Within(x, n),
           \/ y <= x /\ m <= n
           \/ y <= x + MaxCost /\ m + 1 <= n
    PROVE  Within(y, m)
<1>1. MaxCost \in Nat /\ Cap \in Nat
    BY AiGateAssumption
<1>2. PICK b \in Int : b = Cap + (2 * Cardinality(Calls)) * MaxCost
    BY <1>1, TokensFinite
<1>3. PICK i \in Nat, j \in Nat :
         /\ i = m * MaxCost /\ j = n * MaxCost
         /\ m <= n => i <= j
         /\ m + 1 <= n => i + MaxCost <= j
    BY Products
<1>4. x + j <= b
    BY <1>2, <1>3 DEF Within
<1>5. y + i <= b
    BY <1>1, <1>3, <1>4
<1> QED BY <1>2, <1>3, <1>5 DEF Within

LEMMA WithinCap ==
    ASSUME NEW x \in Nat, x <= Cap, NEW f
    PROVE  Within(x, Count(f))
<1>1. PICK n \in Nat, k \in Nat : n = Count(f) /\ k = 2 * Cardinality(Calls) /\ n <= k
    BY TokensFinite
<1>2. n * MaxCost <= k * MaxCost /\ n * MaxCost \in Nat /\ k * MaxCost \in Nat
    BY <1>1, Products
<1>3. x + n * MaxCost <= Cap + k * MaxCost
    BY <1>2, AiGateAssumption
<1> QED BY <1>1, <1>3 DEF Within

SpendInv ==
    /\ Within(spent, Count(call))
    /\ \A c \in Calls : call[c] # Idle => Within(spent + call[c].cost, Count(call))

LEMMA CallsUnits ==
    ASSUME TypeOK, CallInv
    PROVE  \A d \in Calls : Units(call[d]) \in 0 .. 2
BY UnitsBound DEF TypeOK, CallInv

(* Steps of c that spend no more than it had written, or what an answer     *)
(* costs for a charge less to come, keep the bound.                         *)
LEMMA SpendMoves ==
    ASSUME TypeOK, CallInv, LockInv, SpendInv, TypeOK', CallInv', NEW c \in Calls, Step(c),
           NEW base \in Nat, base = spent \/ (call[c] # Idle /\ base = spent + call[c].cost),
           NEW k \in Nat, k <= MaxCost,
           Units(call'[c]) <= Units(call[c]), k > 0 => Units(call'[c]) < Units(call[c]),
           spent' <= base + k,
           call'[c] # Idle => spent' + call'[c].cost <= base + k
    PROVE  SpendInv'
<1>1. PICK f, g : f = call /\ g = call'
    OBVIOUS
<1>2. \A d \in Calls : /\ Units(f[d]) \in 0 .. 2 /\ Units(g[d]) \in 0 .. 2
                       /\ Units(g[d]) <= Units(f[d])
  <2>1. \A d \in Calls : Units(f[d]) \in 0 .. 2
      BY <1>1, CallsUnits
  <2>2. \A d \in Calls : Units(g[d]) \in 0 .. 2
    <3>1. \A d \in Calls : /\ g[d] \in Call \cup {Idle}
                           /\ g[d] # Idle => CallOK(g[d])
        BY <1>1 DEF TypeOK, CallInv
    <3> QED BY <3>1, UnitsBound
  <2>3. Units(g[c]) <= Units(f[c])
      BY <1>1
  <2>4. ASSUME NEW d \in Calls \ {c} PROVE Units(g[d]) <= Units(f[d])
    <3>1. g[d] = f[d] /\ Units(f[d]) \in 0 .. 2
        BY <1>1, <2>1, StepMoves
    <3>2. Units(g[d]) = Units(f[d])
        BY <3>1
    <3> QED BY <3>1, <3>2
  <2> QED BY <2>1, <2>2, <2>3, <2>4
<1>3. PICK n \in Nat, m \in Nat :
         /\ n = Count(f) /\ m = Count(g)
         /\ m <= n /\ (k > 0 => m + 1 <= n)
  <2>1. Count(f) \in Nat /\ Count(g) \in Nat
      BY TokensFinite
  <2>2. Count(g) <= Count(f)
      BY <1>2, CountKeeps
  <2>3. k > 0 => Count(g) + 1 <= Count(f)
    <3> SUFFICES ASSUME k > 0 PROVE Count(g) + 1 <= Count(f)
        OBVIOUS
    <3>1. Units(g[c]) < Units(f[c])
        BY <1>1
    <3> QED BY <1>2, <3>1, CountDrops
  <2> QED BY <2>1, <2>2, <2>3
<1>4. /\ spent \in Nat /\ spent' \in Nat /\ MaxCost \in Nat
      /\ \A d \in Calls : /\ call[d] # Idle => call[d].cost \in Nat
                          /\ call'[d] # Idle => call'[d].cost \in Nat
    BY CallFields, AiGateAssumption DEF TypeOK
<1>5. Within(base, n)
    BY <1>1, <1>3 DEF SpendInv
<1>6. ASSUME NEW y \in Nat, y <= base + k PROVE Within(y, m)
  <2>1. \/ y <= base /\ m <= n
        \/ y <= base + MaxCost /\ m + 1 <= n
      BY <1>3, <1>4, <1>6
  <2> QED BY <1>5, <2>1, WithinKept
<1>7. Within(spent', m)
    BY <1>4, <1>6
<1>8. ASSUME NEW d \in Calls, call'[d] # Idle PROVE Within(spent' + call'[d].cost, m)
  <2>1. CASE d = c
      BY <1>4, <1>6, <1>8, <2>1
  <2>2. CASE d # c
    <3>1. call'[d] = call[d] /\ call[d] # Idle
        BY <1>8, <2>2, StepMoves
    <3>2. CASE spent' = spent
      <4>1. Within(spent + call[d].cost, n)
          BY <1>1, <1>3, <3>1 DEF SpendInv
      <4>2. spent + call[d].cost \in Nat
          BY <1>4, <3>1
      <4>3. Within(spent + call[d].cost, m)
        <5>1. PICK y \in Nat : y = spent + call[d].cost
            BY <4>2
        <5>2. Within(y, n) /\ y <= y
            BY <4>1, <5>1
        <5>3. Within(y, m)
            BY <1>3, <5>2, WithinKept
        <5> QED BY <5>1, <5>3
      <4> QED BY <3>1, <3>2, <4>3
    <3>3. CASE spent' # spent
      <4>1. lock # d
          BY <2>2, <3>3, SpendsAlone, Names
      <4>2. call[d].cost = 0
          BY <3>1, <4>1 DEF LockInv, CostInv
      <4>3. call'[d].cost = 0
          BY <3>1, <4>2
      <4>4. PICK y \in Nat : y = spent'
          BY <1>4
      <4>5. y + 0 = y
          OBVIOUS
      <4> QED BY <1>7, <4>3, <4>4, <4>5
    <3> QED BY <3>2, <3>3
  <2> QED BY <2>1, <2>2
<1>9. m = Count(call')
    BY <1>1, <1>3
<1> QED BY <1>7, <1>8, <1>9 DEF SpendInv

(* A call that has just passed the gate under the cap starts the count anew.*)
LEMMA SpendAllowed ==
    ASSUME TypeOK, CallInv, LockInv, SpendInv, TypeOK', NEW c \in Calls, Step(c),
           spent' = spent, lock \in {Nobody, c},
           call'[c] # Idle, spent' + call'[c].cost <= Cap
    PROVE  SpendInv'
<1>1. PICK g : g = call'
    OBVIOUS
<1>2. /\ spent' \in Nat /\ Cap \in Nat
      /\ \A d \in Calls : call'[d] # Idle => call'[d].cost \in Nat
    BY CallFields, AiGateAssumption DEF TypeOK
<1>3. ASSUME NEW y \in Nat, y <= Cap PROVE Within(y, Count(g))
    BY <1>3, WithinCap
<1>4. spent' <= Cap
    BY <1>2
<1>5. ASSUME NEW d \in Calls, call'[d] # Idle
      PROVE  spent' + call'[d].cost \in Nat /\ spent' + call'[d].cost <= Cap
  <2>1. CASE d = c
      BY <1>2, <2>1
  <2>2. CASE d # c
    <3>1. call'[d] = call[d] /\ call[d] # Idle /\ lock # d
        BY <1>5, <2>2, StepMoves, Names
    <3>2. call'[d].cost = 0
        BY <3>1 DEF LockInv, CostInv
    <3> QED BY <1>2, <1>4, <3>2
  <2> QED BY <2>1, <2>2
<1>6. Within(spent', Count(g))
    BY <1>2, <1>3, <1>4
<1>7. \A d \in Calls : call'[d] # Idle => Within(spent' + call'[d].cost, Count(g))
    BY <1>3, <1>5
<1> QED BY <1>1, <1>6, <1>7 DEF SpendInv

(* What a call may charge, step by step. *)
LEMMA UnitsOf ==
    ASSUME NEW r \in Call, CallOK(r)
    PROVE  /\ r # Idle /\ Units(Idle) = 0
           /\ r.degraded => Units(r) = 0
           /\ r.step \in {"gate", "promote"} => Units(r) = 0
           /\ r.step = "chat" /\ ~r.degraded =>
                 Units(r) = IF r.kind = "apply" THEN 1 ELSE r.left
           /\ r.step = "audit" /\ ~r.degraded => Units(r) = Owed(r) + Chats2(r)
BY CallFields DEF Units

LEMMA StepSpend ==
    ASSUME TypeOK, CallInv, LockInv, SpendInv, TypeOK', CallInv', NEW c \in Calls, Step(c)
    PROVE  SpendInv'
<1>0. /\ spent \in Nat /\ spent' \in Nat /\ MaxCost \in Nat
      /\ Units(call[c]) \in 0 .. 2
      /\ \A r \in Call : r.cost \in Nat /\ r.owes \in Nat /\ r.left \in Nat /\ r # Idle
      /\ call[c] \in Call => CallOK(call[c])
    BY CallsUnits, CallFields, AiGateAssumption DEF TypeOK, CallInv, Call, Idle
<1>1. Units(Idle) = 0
    BY DEF Units
<1>2. ASSUME call'[c] = Idle, call[c] \in Call, spent' \in {spent, spent + call[c].cost}
      PROVE  SpendInv'
    BY <1>0, <1>1, <1>2, SpendMoves
<1>3. ASSUME call'[c] \in Call, spent' = spent, Units(call'[c]) <= Units(call[c]),
             IF call[c] = Idle THEN call'[c].cost = 0 ELSE call'[c].cost = call[c].cost
      PROVE  SpendInv'
  <2>1. CASE call[c] = Idle
      BY <1>0, <1>3, <2>1, SpendMoves
  <2>2. CASE call[c] # Idle
    <3>1. call[c] \in Call
        BY <2>2, CallFields DEF TypeOK
    <3>2. PICK base \in Nat : base = spent + call[c].cost
        BY <1>0, <3>1
    <3>3. /\ spent' <= base + 0 /\ spent' + call'[c].cost <= base + 0
        BY <1>0, <1>3, <2>2, <3>1, <3>2
    <3> QED BY <1>0, <1>3, <2>2, <3>2, <3>3, SpendMoves
  <2> QED BY <2>1, <2>2
<1>4. CASE Stopped(c) /\ spent' \in {spent, spent + call[c].cost}
    BY <1>2, <1>4, MovesToIdle DEF Stopped
<1>5. ASSUME NEW q, Started(c, q) PROVE SpendInv'
  <2>1. call'[c] = q /\ q \in Call /\ CallOK(q) /\ call[c] = Idle /\ spent' = spent
      BY <1>5, MovesTo DEF Started
  <2>2. q.step \in {"gate", "audit", "promote"} /\ q.cost = 0
      BY <1>5, CallFields DEF Started
  <2>3. Units(q) = 0
      BY <1>5, <2>1, <2>2 DEF Started, Units, Owed, Chats2
  <2> QED BY <1>1, <1>3, <2>1, <2>2, <2>3
<1>6. ASSUME NEW q, Allowed(c, q) PROVE SpendInv'
  <2>1. /\ call'[c] = q /\ q \in Call /\ CallOK(q) /\ call[c] \in Call
        /\ spent' = spent /\ q.cost = call[c].cost /\ call[c] # Idle
      BY <1>0, <1>6, MovesTo DEF Allowed, Moved
  <2>2. CASE q.degraded
    <3>1. Units(q) = 0
        BY <2>1, <2>2, UnitsOf
    <3> QED BY <1>0, <1>3, <2>1, <3>1
  <2>3. CASE spent + fallback + q.cost + q.extra <= Cap
    <3>1. /\ spent \in Nat /\ fallback \in Nat /\ Cap \in Nat
          /\ q.cost \in Nat /\ q.extra \in Nat
        BY <2>1, CallFields, AiGateAssumption DEF TypeOK
    <3>2. spent + q.cost <= Cap
        BY <2>3, <3>1
    <3> QED BY <1>0, <1>6, <2>1, <3>2, SpendAllowed DEF Allowed
  <2> QED BY <1>6, <2>2, <2>3 DEF Allowed
<1>7. ASSUME NEW q, Moved(c, q), spent' = spent, q.cost = call[c].cost,
             Units(q) = 0
      PROVE  SpendInv'
  <2>1. call'[c] = q /\ q \in Call /\ call[c] # Idle
      BY <1>0, <1>7, MovesTo DEF Moved
  <2> QED BY <1>0, <1>3, <1>7, <2>1
<1>8. CASE Refused(c)
  <2>1. ASSUME NEW q, Moved(c, q), q.step \in {"promote", "audit"}, q.owes = 0, ~q.good
        PROVE  Units(q) = 0
      BY <2>1 DEF Units, Owed, Chats2
  <2> QED BY <1>4, <1>7, <1>8, <2>1 DEF Refused
<1>9. CASE Promoted(c)
  <2>1. ASSUME NEW q, Moved(c, q), q.step = "gate" PROVE Units(q) = 0
      BY <2>1, UnitsOf DEF Moved
  <2> QED BY <1>4, <1>7, <1>9, <2>1 DEF Promoted
<1>10. CASE TimedOut(c)
  <2>1. ASSUME NEW q, Moved(c, q), q.step = "promote" PROVE Units(q) = 0
      BY <2>1, UnitsOf DEF Moved
  <2> QED BY <1>4, <1>7, <1>10, <2>1 DEF TimedOut
<1>11. CASE Recorded(c)
  <2>1. /\ call[c] \in Call /\ call[c] # Idle /\ CallOK(call[c]) /\ call[c].step = "audit"
        /\ IF call[c].degraded THEN spent' = spent ELSE spent' = spent + call[c].owes
      BY <1>0, <1>11 DEF Recorded, Stopped, Moved
  <2>2. PICK k \in Nat : /\ IF call[c].degraded THEN k = 0 ELSE k = call[c].owes
                         /\ k <= MaxCost /\ spent' = spent + k
      BY <1>0, <2>1 DEF CallOK
  <2>3. call[c].degraded => k = 0
      BY <2>2
  <2>4. CASE Stopped(c)
    <3>1. call'[c] = Idle
        BY <2>4, MovesToIdle DEF Stopped
    <3>2. k > 0 => Units(call[c]) > 0
      <4> SUFFICES ASSUME k > 0 PROVE Units(call[c]) > 0
          OBVIOUS
      <4>1. Units(call[c]) = Owed(call[c]) + Chats2(call[c])
          BY <2>1, <2>2, <2>3, UnitsOf
      <4>2. Owed(call[c]) = 1
          BY <2>2 DEF Owed
      <4>3. Chats2(call[c]) \in Nat
        <5>1. call[c].good => call[c].left - 1 \in Nat
            BY <2>1 DEF CallOK
        <5> QED BY <5>1 DEF Chats2
      <4> QED BY <4>1, <4>2, <4>3
    <3>3. Units(call'[c]) <= Units(call[c]) /\ (k > 0 => Units(call'[c]) < Units(call[c]))
        BY <1>0, <1>1, <3>1, <3>2
    <3> QED BY <1>0, <2>1, <2>2, <3>1, <3>3, SpendMoves
  <2>5. ASSUME NEW q, Moved(c, q), call[c].good, call[c].left > 1, q.step = "chat",
               q.kind \notin Locking, q.left = call[c].left - 1, q.cost = call[c].cost,
               q.degraded = call[c].degraded
        PROVE  SpendInv'
    <3>1. call'[c] = q /\ q \in Call /\ CallOK(q) /\ q # Idle
        BY <1>0, <2>5, MovesTo DEF Moved
    <3>2. Units(q) <= Units(call[c]) /\ (k > 0 => Units(q) < Units(call[c]))
      <4>1. CASE q.degraded
          BY <1>0, <2>1, <2>3, <2>5, <3>1, <4>1, UnitsOf
      <4>2. CASE ~q.degraded
        <5>1. Units(q) = call[c].left - 1
            BY <2>5, <3>1, <4>2, UnitsOf DEF Locking
        <5>2. Units(call[c]) = Owed(call[c]) + (call[c].left - 1)
            BY <2>1, <2>5, <4>2, UnitsOf DEF Chats2
        <5>3. Owed(call[c]) \in {0, 1} /\ (k > 0 => Owed(call[c]) = 1)
            BY <2>2 DEF Owed
        <5>4. call[c].left - 1 \in Nat
            BY <1>0, <2>1, <2>5
        <5> QED BY <5>1, <5>2, <5>3, <5>4
      <4> QED BY <4>1, <4>2
    <3>3. q.cost = 0
        BY <2>5, <3>1 DEF CallOK, Locking
    <3>4. spent' <= spent + k /\ spent' + q.cost <= spent + k
        BY <1>0, <2>1, <2>2, <3>3
    <3> QED BY <1>0, <2>2, <3>1, <3>2, <3>4, SpendMoves
  <2> QED BY <1>11, <2>4, <2>5 DEF Recorded
<1>12. CASE Answered(c)
  <2>1. /\ call[c] \in Call /\ call[c] # Idle /\ CallOK(call[c]) /\ call[c].step = "chat"
      BY <1>0, <1>12 DEF Answered, Stopped, Moved
  <2>2. PICK k \in Nat :
          /\ k <= MaxCost
          /\ \/ Stopped(c)
             \/ \E q : /\ Moved(c, q) /\ q.kind = "apply" /\ q.step = "promote"
                       /\ IF call[c].degraded THEN q.cost = call[c].cost
                                              ELSE q.cost = call[c].cost + k
                       /\ UNCHANGED lock
             \/ \E q : /\ Moved(c, q) /\ q.kind \notin Locking /\ q.step = "audit"
                       /\ q.left = call[c].left /\ q.degraded = call[c].degraded
                       /\ q.cost = call[c].cost /\ q.extra = call[c].extra /\ q.owes = k
                       /\ UNCHANGED lock
      BY <1>12 DEF Answered
  <2>0. spent' = spent
      BY <1>12 DEF Answered
  <2>3. /\ call[c].degraded => Units(call[c]) = 0
        /\ ~call[c].degraded =>
              Units(call[c]) = IF call[c].kind = "apply" THEN 1 ELSE call[c].left
        /\ call[c].left \in Nat \ {0}
      BY <2>1, UnitsOf DEF CallOK
  <2>4. ~call[c].degraded => Units(call[c]) > 0
      BY <2>3
  <2>5. CASE Stopped(c)
      BY <1>4, <2>0, <2>5
  <2>6. ASSUME NEW q, Moved(c, q), q.kind = "apply", q.step = "promote",
               IF call[c].degraded THEN q.cost = call[c].cost
                                   ELSE q.cost = call[c].cost + k
        PROVE  SpendInv'
    <3>1. call'[c] = q /\ q \in Call /\ CallOK(q) /\ q # Idle
        BY <1>0, <2>6, MovesTo DEF Moved
    <3>2. Units(q) = 0
        BY <2>6, <3>1, UnitsOf
    <3>3. PICK base \in Nat : base = spent + call[c].cost
        BY <1>0, <2>1
    <3>4. PICK n \in Nat : /\ n <= MaxCost /\ (call[c].degraded => n = 0)
                           /\ q.cost = call[c].cost + n
        BY <1>0, <2>1, <2>2, <2>6
    <3>5. spent' <= base + n /\ spent' + q.cost <= base + n
        BY <1>0, <2>0, <2>1, <3>1, <3>3, <3>4
    <3>6. Units(q) <= Units(call[c]) /\ (n > 0 => Units(q) < Units(call[c]))
        BY <1>0, <2>4, <3>2, <3>4
    <3> QED BY <2>1, <3>1, <3>3, <3>4, <3>5, <3>6, SpendMoves
  <2>7. ASSUME NEW q, Moved(c, q), q.kind \notin Locking, q.step = "audit",
               q.left = call[c].left, q.degraded = call[c].degraded,
               q.cost = call[c].cost
        PROVE  SpendInv'
    <3>1. /\ call'[c] = q /\ q \in Call /\ CallOK(q) /\ q # Idle
          /\ q.kind = call[c].kind
        BY <1>0, <2>7, MovesTo DEF Moved
    <3>2. Units(q) <= Units(call[c])
      <4>1. CASE q.degraded
          BY <1>0, <2>7, <3>1, <4>1, UnitsOf
      <4>2. CASE ~q.degraded
        <5>1. Units(q) = Owed(q) + Chats2(q)
            BY <2>7, <3>1, <4>2, UnitsOf
        <5>2. Units(call[c]) = call[c].left
            BY <2>3, <2>7, <3>1, <4>2 DEF Locking
        <5>3. Owed(q) \in {0, 1} /\ Chats2(q) \in {0, call[c].left - 1}
            BY <2>7 DEF Owed, Chats2
        <5> QED BY <2>3, <5>1, <5>2, <5>3
      <4> QED BY <4>1, <4>2
    <3> QED BY <1>3, <2>0, <2>1, <2>7, <3>1, <3>2
  <2> QED BY <2>2, <2>5, <2>6, <2>7
<1> QED BY <1>5, <1>6, <1>8, <1>9, <1>10, <1>11, <1>12 DEF Step

LEMMA RestSpend ==
    ASSUME TypeOK, CallInv, SpendInv, TypeOK', CallInv',
           \/ NewMonth \/ UNCHANGED vars
           \/ \E w \in Writers : Wait(w) \/ Resume(w) \/ Commit(w)
           \/ \E u \in Users : Slide(u)
    PROVE  SpendInv'
<1>1. PICK f, g : f = call /\ g = call'
    OBVIOUS
<1>2. \A d \in Calls : Units(g[d]) = Units(f[d])
    BY <1>1, RestEffect DEF Units, Owed, Chats2
<1>3. \A d \in Calls : Units(f[d]) \in 0 .. 2
    BY <1>1, CallsUnits
<1>4. \A d \in Calls : /\ Units(g[d]) \in 0 .. 2 /\ Units(g[d]) <= Units(f[d])
    BY <1>2, <1>3
<1>5. PICK n \in Nat, m \in Nat : n = Count(f) /\ m = Count(g) /\ m <= n
    BY <1>3, <1>4, CountKeeps, TokensFinite
<1>6. ASSUME NEW x \in Nat, NEW y \in Nat, y <= x, Within(x, n) PROVE Within(y, m)
    BY <1>5, <1>6, WithinKept
<1>7. Within(spent', m)
  <2>1. spent \in Nat /\ spent' \in Nat /\ spent' <= spent
      BY RestEffect DEF TypeOK
  <2>2. Within(spent, n)
      BY <1>1, <1>5 DEF SpendInv
  <2> QED BY <1>6, <2>1, <2>2
<1>8. ASSUME NEW d \in Calls, call'[d] # Idle PROVE Within(spent' + call'[d].cost, m)
  <2>1. /\ call[d] # Idle /\ call[d].cost \in Nat /\ spent \in Nat /\ spent' \in Nat
        /\ spent' <= spent /\ call'[d].cost \in Nat /\ call'[d].cost <= call[d].cost
      BY <1>8, RestEffect, CallFields DEF TypeOK
  <2>2. PICK x \in Nat, y \in Nat :
           x = spent + call[d].cost /\ y = spent' + call'[d].cost /\ y <= x
      BY <2>1
  <2>3. Within(x, n)
      BY <1>1, <1>5, <2>1, <2>2 DEF SpendInv
  <2> QED BY <1>6, <2>2, <2>3
<1> QED BY <1>1, <1>5, <1>7, <1>8 DEF SpendInv

LEMMA SpendStep ==
    TypeOK /\ CallInv /\ LockInv /\ SpendInv /\ [Next]_vars => SpendInv'
<1> SUFFICES ASSUME TypeOK, CallInv, LockInv, SpendInv, [Next]_vars PROVE SpendInv'
    OBVIOUS
<1>1. TypeOK' /\ CallInv'
    BY TypeStep, CallStep
<1> QED BY <1>1, StepSpend, RestSpend, StepEffect

LEMMA SpendInit == Init => SpendInv
<1> SUFFICES ASSUME Init PROVE SpendInv
    OBVIOUS
<1>1. PICK f : f = call
    OBVIOUS
<1>2. spent = 0 /\ \A c \in Calls : call[c] = Idle
    BY DEF Init
<1>3. PICK x \in Nat : x = spent /\ x <= Cap
    BY <1>2, AiGateAssumption
<1>4. Within(x, Count(f))
    BY <1>3, WithinCap
<1> QED BY <1>1, <1>2, <1>3, <1>4 DEF SpendInv

LEMMA BoundOfSpend == TypeOK /\ SpendInv => RecordedOverspendIsBounded
<1> SUFFICES ASSUME TypeOK, SpendInv PROVE RecordedOverspendIsBounded
    OBVIOUS
<1>0. PICK f : f = call
    OBVIOUS
<1>1. PICK n \in Nat : n = Count(f)
    BY TokensFinite
<1>2. spent + n * MaxCost <= Cap + (2 * Cardinality(Calls)) * MaxCost
    BY <1>0, <1>1 DEF SpendInv, Within
<1>3. n * MaxCost \in Nat
    BY Products
<1>4. PICK b \in Int : b = Cap + (2 * Cardinality(Calls)) * MaxCost
    BY TokensFinite, AiGateAssumption
<1>5. spent <= b
    BY <1>2, <1>3, <1>4 DEF TypeOK
<1> QED BY <1>4, <1>5 DEF RecordedOverspendIsBounded

(* However many calls are past the gate at once, what the month records of  *)
(* the provider exceeds the cap by no more than two answers for each.       *)
THEOREM OverspendBounded == Spec => []RecordedOverspendIsBounded
BY TypeInit, CallInit, LockInit, SpendInit, TypeStep, CallStep, LockStep, SpendStep,
   BoundOfSpend, PTL DEF Spec

-----------------------------------------------------------------------------
(* Proposals.                                                               *)


(* The fields a request of each kind carries. *)
LEMMA DecisionFields ==
    ASSUME NEW r \in Request
    PROVE  /\ r.op = "approve" => r.prop \in Props /\ r.saw \in Budget
           /\ r.op = "reject"  => r.prop \in Props /\ r.was \in {"pending", "rejected"}
           /\ r.op = "delete"  => r.prop \in Props
           /\ r.op = "update"  => r.envelope \in Envelopes /\ r.sets \in Budget
                                  /\ r.saw \in Budget
           /\ r.op = "idle" <=> r = PrIdle
BY DEF Request, PrIdle

(* A decision changes the status of one row and nothing else of it. *)
LEMMA DecidesEffect ==
    ASSUME proposal \in [Props -> Row], NEW p \in Props,
           NEW status \in {"approved", "rejected", "deleted"}, Decides(p, status)
    PROVE  /\ proposal' \in [Props -> Row]
           /\ Status(p)' = status
           /\ \A q \in Props : q # p => Status(q)' = Status(q)
BY DEF Decides, Row, Status

LEMMA SetsTyped ==
    ASSUME budget \in [Envelopes -> Budget], NEW e, NEW saw, NEW x \in Budget,
           Sets(e, saw, x)
    PROVE  budget' \in [Envelopes -> Budget]
BY DEF Sets

-----------------------------------------------------------------------------
(* Types.                                                                   *)

LEMMA PrTypeInit == PrInit => PrTypeOK
<1> SUFFICES ASSUME PrInit PROVE PrTypeOK
    OBVIOUS
<1>1. PICK a \in Amounts :
         proposal = [p \in Props |-> [status |-> "absent", envelope |-> Nowhere,
                                      amount |-> a]]
    BY DEF PrInit
<1>2. [status |-> "absent", envelope |-> Nowhere, amount |-> a] \in Row
    BY DEF Row
<1> QED BY <1>1, <1>2 DEF PrInit, PrTypeOK, Budget, Request

LEMMA PrTypeStep == PrTypeOK /\ [PrNext]_prVars => PrTypeOK'
<1> SUFFICES ASSUME PrTypeOK, [PrNext]_prVars PROVE PrTypeOK'
    OBVIOUS
<1>1. ASSUME NEW s \in Slots, NEW r \in Request, Begin(s, r) PROVE PrTypeOK'
    BY <1>1 DEF Begin, rows, PrTypeOK, Meets
<1>2. ASSUME NEW s \in Slots, NEW p \in Props, Create(s, p) PROVE PrTypeOK'
  <2>1. PICK e \in Envelopes \cup {Nowhere}, a \in Amounts :
           proposal' = [proposal EXCEPT ![p] =
                           [status |-> "pending", envelope |-> e, amount |-> a]]
      BY <1>2 DEF Create
  <2>2. [status |-> "pending", envelope |-> e, amount |-> a] \in Row
      BY DEF Row
  <2> QED BY <1>2, <2>1, <2>2 DEF Create, PrTypeOK, Meets
<1>3. ASSUME NEW s \in Slots, NEW p \in Props, BeginApprove(s, p) PROVE PrTypeOK'
  <2>1. proposal[p].envelope \in Envelopes
      BY <1>3 DEF BeginApprove, PrTypeOK, Row
  <2>2. [op |-> "approve", prop |-> p, saw |-> budget[proposal[p].envelope]] \in Request
      BY <2>1 DEF PrTypeOK, Request
  <2> QED BY <1>1, <1>3, <2>2 DEF BeginApprove
<1>4. ASSUME NEW s \in Slots, NEW p \in Props, BeginReject(s, p) PROVE PrTypeOK'
  <2>1. [op |-> "reject", prop |-> p, was |-> Status(p)] \in Request
      BY <1>4 DEF BeginReject, Request
  <2> QED BY <1>1, <1>4, <2>1 DEF BeginReject
<1>5. ASSUME NEW s \in Slots, NEW p \in Props, BeginDelete(s, p) PROVE PrTypeOK'
  <2>1. [op |-> "delete", prop |-> p] \in Request
      BY DEF Request
  <2> QED BY <1>1, <1>5, <2>1 DEF BeginDelete
<1>6. ASSUME NEW s \in Slots, NEW e \in Envelopes, BeginUpdate(s, e) PROVE PrTypeOK'
  <2>1. \A x \in Budget :
           [op |-> "update", envelope |-> e, sets |-> x, saw |-> budget[e]] \in Request
      BY DEF PrTypeOK, Request
  <2> QED BY <1>1, <1>6, <2>1 DEF BeginUpdate
<1>7. ASSUME NEW s \in Slots, CommitApprove(s) PROVE PrTypeOK'
  <2>1. PICK p \in Props : p = req[s].prop
      BY <1>7, DecisionFields DEF CommitApprove, PrTypeOK
  <2>2. proposal[p].amount \in Budget
      BY <2>1 DEF PrTypeOK, Row, Budget
  <2>3. proposal' \in [Props -> Row]
      BY <1>7, <2>1, DecidesEffect DEF CommitApprove, PrTypeOK
  <2>4. budget' \in [Envelopes -> Budget]
      BY <1>7, <2>1, <2>2, SetsTyped DEF CommitApprove, PrTypeOK
  <2>5. audited' \in [Envelopes -> Budget \cup {NoAudit}]
      BY <1>7, <2>1, <2>2 DEF CommitApprove, PrTypeOK
  <2>6. executed' \in [Props -> Nat]
      BY <1>7, <2>1 DEF CommitApprove, PrTypeOK
  <2>7. req' \in [Slots -> Request] /\ overlap' \in BOOLEAN
      BY <1>7 DEF CommitApprove, Done, PrTypeOK, Request
  <2> QED BY <2>3, <2>4, <2>5, <2>6, <2>7 DEF PrTypeOK
<1>8. ASSUME NEW s \in Slots, CommitReject(s) PROVE PrTypeOK'
  <2>1. PICK p \in Props : p = req[s].prop
      BY <1>8, DecisionFields DEF CommitReject, PrTypeOK
  <2>2. proposal' \in [Props -> Row]
      BY <1>8, <2>1, DecidesEffect DEF CommitReject, PrTypeOK
  <2> QED BY <1>8, <2>2 DEF CommitReject, Done, PrTypeOK, Request
<1>9. ASSUME NEW s \in Slots, CommitDelete(s) PROVE PrTypeOK'
  <2>1. PICK p \in Props : p = req[s].prop
      BY <1>9, DecisionFields DEF CommitDelete, PrTypeOK
  <2>2. proposal' \in [Props -> Row]
      BY <1>9, <2>1, DecidesEffect DEF CommitDelete, PrTypeOK
  <2> QED BY <1>9, <2>2 DEF CommitDelete, Done, PrTypeOK, Request
<1>10. ASSUME NEW s \in Slots, CommitUpdate(s) PROVE PrTypeOK'
  <2> DEFINE x == IF req[s].sets = Unset THEN req[s].saw ELSE req[s].sets
  <2>1. x \in Budget
      BY <1>10, DecisionFields DEF CommitUpdate, PrTypeOK
  <2>2. budget' \in [Envelopes -> Budget]
      BY <1>10, <2>1, SetsTyped DEF CommitUpdate, PrTypeOK
  <2>3. audited' \in [Envelopes -> Budget \cup {NoAudit}]
      BY <1>10, <2>1 DEF CommitUpdate, PrTypeOK
  <2> QED BY <1>10, <2>2, <2>3 DEF CommitUpdate, Done, PrTypeOK, Request
<1>11. ASSUME NEW s \in Slots, Abort(s) PROVE PrTypeOK'
    BY <1>11 DEF Abort, rows, PrTypeOK, Request
<1>12. CASE UNCHANGED prVars
    BY <1>12 DEF prVars, PrTypeOK
<1> QED BY <1>2, <1>3, <1>4, <1>5, <1>6, <1>7, <1>8, <1>9, <1>10, <1>11, <1>12 DEF PrNext

(* Every reachable state is well typed. *)
THEOREM ProposalsTyped == PrSpec => []PrTypeOK
<1> QED BY PrTypeInit, PrTypeStep, PTL DEF PrSpec

-----------------------------------------------------------------------------
(* ExecutedAtMostOnce.  An approval in flight stands for an execution yet   *)
(* to come: there is one at most, and nothing was executed for its row; nor *)
(* for a row that may still get one.                                        *)

OneApproval ==
    \A s, u \in Slots : req[s].op = "approve" /\ req[u].op = "approve" => s = u

NotYetExecuted ==
    /\ \A p \in Props : Status(p) \in {"absent", "pending"} => executed[p] = 0
    /\ \A s \in Slots : req[s].op = "approve" => executed[req[s].prop] = 0

ExecInv == OneApproval /\ NotYetExecuted /\ ExecutedAtMostOnce

LEMMA ExecInit == PrInit => ExecInv
BY DEF PrInit, ExecInv, OneApproval, NotYetExecuted, ExecutedAtMostOnce, Status, PrIdle

(* A step that puts no approval in flight, executes nothing and brings no   *)
(* row to a status that promises something of its execution.                *)
LEMMA ExecKept ==
    ASSUME PrTypeOK, ExecInv, UNCHANGED executed,
           \A s \in Slots : req'[s].op = "approve" => req'[s] = req[s],
           \A p \in Props : Status(p)' \in {"absent", "pending", "approved"} =>
                               \/ Status(p)' = Status(p)
                               \/ Status(p) = "absent" /\ Status(p)' = "pending"
    PROVE  ExecInv'
<1>1. OneApproval'
    BY DEF ExecInv, OneApproval
<1>2. NotYetExecuted'
    BY DEF ExecInv, NotYetExecuted
<1>3. ExecutedAtMostOnce'
    BY DEF ExecInv, ExecutedAtMostOnce
<1> QED BY <1>1, <1>2, <1>3 DEF ExecInv

LEMMA ExecStep == PrTypeOK /\ ExecInv /\ [PrNext]_prVars => ExecInv'
<1> SUFFICES ASSUME PrTypeOK, ExecInv, [PrNext]_prVars PROVE ExecInv'
    OBVIOUS
<1> USE DEF PrTypeOK
<1>1. ASSUME NEW s \in Slots, NEW r, r.op # "approve", Begin(s, r) PROVE ExecInv'
    BY <1>1, ExecKept DEF Begin, rows, Status
<1>2. ASSUME NEW s \in Slots, NEW p \in Props, Create(s, p) PROVE ExecInv'
  <2>1. /\ Status(p) = "absent" /\ Status(p)' = "pending"
        /\ \A q \in Props : q # p => Status(q)' = Status(q)
      BY <1>2 DEF Create, Status
  <2> QED BY <1>2, <2>1, ExecKept DEF Create
<1>3. ASSUME NEW s \in Slots, NEW p \in Props, BeginApprove(s, p) PROVE ExecInv'
  <2>1. /\ req' = [req EXCEPT ![s] = [op |-> "approve", prop |-> p,
                                      saw |-> budget[proposal[p].envelope]]]
        /\ UNCHANGED <<proposal, executed>>
        /\ Status(p) = "pending"
        /\ \A u \in Slots : req[u].op # "approve"
      BY <1>3 DEF BeginApprove, Begin, rows
  <2>2. OneApproval'
      BY <2>1 DEF OneApproval
  <2>3. NotYetExecuted'
      BY <2>1 DEF ExecInv, NotYetExecuted, Status
  <2>4. ExecutedAtMostOnce'
      BY <2>1 DEF ExecInv, ExecutedAtMostOnce, Status
  <2> QED BY <2>2, <2>3, <2>4 DEF ExecInv
<1>4. ASSUME NEW s \in Slots, NEW p \in Props, BeginReject(s, p) PROVE ExecInv'
    BY <1>1, <1>4 DEF BeginReject
<1>5. ASSUME NEW s \in Slots, NEW p \in Props, BeginDelete(s, p) PROVE ExecInv'
    BY <1>1, <1>5 DEF BeginDelete
<1>6. ASSUME NEW s \in Slots, NEW e \in Envelopes, BeginUpdate(s, e) PROVE ExecInv'
    BY <1>1, <1>6 DEF BeginUpdate
<1>7. ASSUME NEW s \in Slots, CommitApprove(s) PROVE ExecInv'
  <2>1. PICK p \in Props :
           p = req[s].prop /\ req[s].op = "approve" /\ executed[p] = 0
      BY <1>7, DecisionFields DEF CommitApprove, ExecInv, NotYetExecuted
  <2>2. /\ Status(p)' = "approved"
        /\ \A q \in Props : q # p => Status(q)' = Status(q)
      BY <1>7, <2>1, DecidesEffect DEF CommitApprove
  <2>3. executed' = [executed EXCEPT ![p] = 1]
      BY <1>7, <2>1 DEF CommitApprove
  <2>4. \A u \in Slots : req'[u].op # "approve"
      BY <1>7, <2>1 DEF CommitApprove, Done, PrIdle, ExecInv, OneApproval
  <2>5. OneApproval' /\ NotYetExecuted'
      BY <2>1, <2>2, <2>3, <2>4 DEF OneApproval, NotYetExecuted, ExecInv
  <2>6. ExecutedAtMostOnce'
      BY <2>1, <2>2, <2>3 DEF ExecutedAtMostOnce, ExecInv
  <2> QED BY <2>5, <2>6 DEF ExecInv
<1>8. ASSUME NEW s \in Slots, CommitReject(s) PROVE ExecInv'
  <2>1. PICK p \in Props : p = req[s].prop
      BY <1>8, DecisionFields DEF CommitReject
  <2>2. \A q \in Props : Status(q)' \in {Status(q), "rejected"}
      BY <1>8, <2>1, DecidesEffect DEF CommitReject, Status
  <2> QED BY <1>8, <2>2, ExecKept DEF CommitReject, Done, PrIdle
<1>9. ASSUME NEW s \in Slots, CommitDelete(s) PROVE ExecInv'
  <2>1. PICK p \in Props : p = req[s].prop
      BY <1>9, DecisionFields DEF CommitDelete
  <2>2. \A q \in Props : Status(q)' \in {Status(q), "deleted"}
      BY <1>9, <2>1, DecidesEffect DEF CommitDelete
  <2> QED BY <1>9, <2>2, ExecKept DEF CommitDelete, Done, PrIdle
<1>10. ASSUME NEW s \in Slots, CommitUpdate(s) PROVE ExecInv'
    BY <1>10, ExecKept DEF CommitUpdate, Done, PrIdle, Status
<1>11. ASSUME NEW s \in Slots, Abort(s) PROVE ExecInv'
    BY <1>11, ExecKept DEF Abort, rows, PrIdle, Status
<1>12. CASE UNCHANGED prVars
    BY <1>12, ExecKept DEF prVars, Status
<1> QED BY <1>2, <1>3, <1>4, <1>5, <1>6, <1>7, <1>8, <1>9, <1>10, <1>11, <1>12 DEF PrNext

(* approve never executes a proposal twice, however decisions, deletions    *)
(* and other approvals interleave with it, and what reads approved has been *)
(* executed.                                                                *)
THEOREM ExecutedOnce == PrSpec => []ExecutedAtMostOnce
<1>1. PrTypeOK /\ ExecInv /\ [PrNext]_prVars => PrTypeOK' /\ ExecInv'
    BY PrTypeStep, ExecStep
<1>2. ExecInv => ExecutedAtMostOnce
    BY DEF ExecInv
<1> QED BY PrTypeInit, ExecInit, <1>1, <1>2, PTL DEF PrSpec

-----------------------------------------------------------------------------
(* DecisionsMatchEffects.  Until two requests have met, the one in flight   *)
(* is alone and what it has read is what is there.                          *)

Current(r) ==
    /\ r.op = "approve" => /\ Status(r.prop) = "pending"
                           /\ proposal[r.prop].envelope \in Envelopes
                           /\ r.saw = budget[proposal[r.prop].envelope]
    /\ r.op = "reject"  => r.was = Status(r.prop)
    /\ r.op = "delete"  => Status(r.prop) = "rejected"
    /\ r.op = "update"  => r.saw = budget[r.envelope]

Alone ==
    ~overlap => \A s \in Slots :
        req[s] # PrIdle => Current(req[s]) /\ \A u \in Slots \ {s} : req[u] = PrIdle

SerialInv == Alone /\ DecisionsMatchEffects

LEMMA SerialInit == PrInit => SerialInv
BY DEF PrInit, SerialInv, Alone, DecisionsMatchEffects

(* The commit of a request that was alone leaves nothing in flight. *)
LEMMA DoneAlone ==
    ASSUME PrTypeOK, Alone, NEW s \in Slots, req[s] # PrIdle, Done(s)
    PROVE  Alone'
<1>1. CASE overlap
    BY <1>1 DEF Done, Alone
<1>2. CASE ~overlap
  <2>1. \A u \in Slots : req'[u] = PrIdle
      BY <1>2 DEF Done, Alone, PrTypeOK
  <2> QED BY <2>1 DEF Alone
<1> QED BY <1>1, <1>2

(* A request that begins while nothing is in flight has read what is there. *)
LEMMA BeginAlone ==
    ASSUME PrTypeOK, SerialInv, NEW s \in Slots, NEW r, Current(r), Begin(s, r)
    PROVE  SerialInv'
<1>1. Alone'
  <2>1. CASE overlap'
      BY <2>1 DEF Alone
  <2>2. CASE ~overlap'
    <3>1. /\ \A u \in Slots \ {s} : req'[u] = PrIdle
          /\ req'[s] = r
        BY <2>2 DEF Begin, Meets, PrTypeOK
    <3>2. Current(r)' <=> Current(r)
        BY DEF Begin, rows, Current, Status
    <3> QED BY <3>1, <3>2 DEF Alone
  <2> QED BY <2>1, <2>2
<1>2. DecisionsMatchEffects'
    BY DEF SerialInv, DecisionsMatchEffects, Begin, rows, Status
<1> QED BY <1>1, <1>2 DEF SerialInv

LEMMA SerialStep == PrTypeOK /\ ExecInv /\ SerialInv /\ [PrNext]_prVars => SerialInv'
<1> SUFFICES ASSUME PrTypeOK, ExecInv, SerialInv, [PrNext]_prVars PROVE SerialInv'
    OBVIOUS
<1>1. ASSUME NEW s \in Slots, NEW p \in Props, Create(s, p) PROVE SerialInv'
  <2>1. Status(p) = "absent" /\ \A q \in Props : q # p => Status(q)' = Status(q)
      BY <1>1 DEF Create, Status, PrTypeOK
  <2>2. DecisionsMatchEffects'
      BY <1>1, <2>1 DEF Create, SerialInv, DecisionsMatchEffects, ExecInv, NotYetExecuted
  <2>3. Alone'
    <3>1. CASE overlap'
        BY <3>1 DEF Alone
    <3>2. CASE ~overlap'
        BY <1>1, <3>2 DEF Create, Meets, Alone
    <3> QED BY <3>1, <3>2
  <2> QED BY <2>2, <2>3 DEF SerialInv
<1>2. ASSUME NEW s \in Slots, NEW p \in Props, BeginApprove(s, p) PROVE SerialInv'
  <2>1. Current([op |-> "approve", prop |-> p, saw |-> budget[proposal[p].envelope]])
      BY <1>2 DEF BeginApprove, Current, PrTypeOK, Row
  <2> QED BY <1>2, <2>1, BeginAlone DEF BeginApprove
<1>3. ASSUME NEW s \in Slots, NEW p \in Props, BeginReject(s, p) PROVE SerialInv'
    BY <1>3, BeginAlone DEF BeginReject, Current
<1>4. ASSUME NEW s \in Slots, NEW p \in Props, BeginDelete(s, p) PROVE SerialInv'
    BY <1>4, BeginAlone DEF BeginDelete, Current
<1>5. ASSUME NEW s \in Slots, NEW e \in Envelopes, BeginUpdate(s, e) PROVE SerialInv'
    BY <1>5, BeginAlone DEF BeginUpdate, Current
<1>6. ASSUME NEW s \in Slots, CommitApprove(s) PROVE SerialInv'
  <2>1. Alone'
      BY <1>6, DoneAlone DEF CommitApprove, SerialInv, PrIdle
  <2>2. ASSUME ~overlap' PROVE DecisionsMatchEffects'
    <3>1. PICK p \in Props : p = req[s].prop
        BY <1>6, DecisionFields DEF CommitApprove, PrTypeOK
    <3>2. Current(req[s])
        BY <1>6, <2>2 DEF CommitApprove, Done, SerialInv, Alone, PrIdle
    <3>3. PICK e \in Envelopes : e = proposal[p].envelope /\ req[s].saw = budget[e]
        BY <1>6, <3>1, <3>2 DEF CommitApprove, Current
    <3>4. /\ Status(p)' = "approved"
          /\ \A q \in Props : q # p => Status(q)' = Status(q)
        BY <1>6, <3>1, DecidesEffect DEF CommitApprove, PrTypeOK
    <3>5. /\ budget'[e] = proposal[p].amount /\ audited'[e] = proposal[p].amount
          /\ \A d \in Envelopes : d # e => budget'[d] = budget[d] /\ audited'[d] = audited[d]
        BY <1>6, <3>1, <3>3 DEF CommitApprove, Sets, PrTypeOK
    <3>6. \A q \in Props : q # p => executed'[q] = executed[q]
        BY <1>6, <3>1 DEF CommitApprove, PrTypeOK
    <3> QED BY <1>6, <2>2, <3>4, <3>5, <3>6
            DEF CommitApprove, Done, SerialInv, DecisionsMatchEffects
  <2> QED BY <2>1, <2>2 DEF SerialInv, DecisionsMatchEffects
<1>7. ASSUME NEW s \in Slots, CommitReject(s) PROVE SerialInv'
  <2>1. Alone'
      BY <1>7, DoneAlone DEF CommitReject, SerialInv, PrIdle
  <2>2. ASSUME ~overlap' PROVE DecisionsMatchEffects'
    <3>1. PICK p \in Props : p = req[s].prop
        BY <1>7, DecisionFields DEF CommitReject, PrTypeOK
    <3>2. Status(p) = req[s].was
        BY <1>7, <2>2, <3>1 DEF CommitReject, Done, SerialInv, Alone, Current, PrIdle
    <3>3. \/ UNCHANGED proposal
          \/ /\ Status(p) = "pending"
             /\ \A q \in Props : q # p => Status(q)' = Status(q)
        BY <1>7, <3>1, <3>2, DecidesEffect DEF CommitReject, PrTypeOK
    <3> QED BY <1>7, <2>2, <3>3
            DEF CommitReject, Done, SerialInv, DecisionsMatchEffects, ExecInv,
                NotYetExecuted, Status
  <2> QED BY <2>1, <2>2 DEF SerialInv, DecisionsMatchEffects
<1>8. ASSUME NEW s \in Slots, CommitDelete(s) PROVE SerialInv'
  <2>1. Alone'
      BY <1>8, DoneAlone DEF CommitDelete, SerialInv, PrIdle
  <2>2. ASSUME ~overlap' PROVE DecisionsMatchEffects'
    <3>1. PICK p \in Props : p = req[s].prop
        BY <1>8, DecisionFields DEF CommitDelete, PrTypeOK
    <3>2. Status(p) = "rejected"
        BY <1>8, <2>2, <3>1 DEF CommitDelete, Done, SerialInv, Alone, Current, PrIdle
    <3>3. \A q \in Props : q # p => Status(q)' = Status(q)
        BY <1>8, <3>1, DecidesEffect DEF CommitDelete, PrTypeOK
    <3>4. ~(executed[p] > 0)
        BY <1>8, <2>2, <3>2 DEF CommitDelete, Done, SerialInv, DecisionsMatchEffects
    <3> QED BY <1>8, <2>2, <3>3, <3>4
            DEF CommitDelete, Done, SerialInv, DecisionsMatchEffects
  <2> QED BY <2>1, <2>2 DEF SerialInv, DecisionsMatchEffects
<1>9. ASSUME NEW s \in Slots, CommitUpdate(s) PROVE SerialInv'
  <2>1. Alone'
      BY <1>9, DoneAlone DEF CommitUpdate, SerialInv, PrIdle
  <2>2. ASSUME ~overlap' PROVE DecisionsMatchEffects'
    <3>1. PICK e \in Envelopes : e = req[s].envelope
        BY <1>9, DecisionFields DEF CommitUpdate, PrTypeOK
    <3>2. req[s].saw = budget[e]
        BY <1>9, <2>2, <3>1 DEF CommitUpdate, Done, SerialInv, Alone, Current, PrIdle
    <3>3. /\ audited'[e] = budget'[e]
          /\ \A d \in Envelopes : d # e => budget'[d] = budget[d] /\ audited'[d] = audited[d]
        BY <1>9, <3>1, <3>2 DEF CommitUpdate, Sets, PrTypeOK
    <3> QED BY <1>9, <2>2, <3>3
            DEF CommitUpdate, Done, SerialInv, DecisionsMatchEffects, Status
  <2> QED BY <2>1, <2>2 DEF SerialInv, DecisionsMatchEffects
<1>10. ASSUME NEW s \in Slots, Abort(s) PROVE SerialInv'
  <2>1. Alone'
      BY <1>10, DoneAlone DEF Abort, Done, SerialInv
  <2> QED BY <1>10, <2>1 DEF Abort, rows, SerialInv, DecisionsMatchEffects, Status
<1>11. CASE UNCHANGED prVars
    BY <1>11 DEF prVars, SerialInv, Alone, Current, DecisionsMatchEffects, Status
<1> QED BY <1>1, <1>2, <1>3, <1>4, <1>5, <1>6, <1>7, <1>8, <1>9, <1>10, <1>11 DEF PrNext

(* As long as requests do not meet, proposals decide once, approved ones    *)
(* stay, and the audit trail ends with the budget of the envelope.          *)
THEOREM DecisionsAgree == PrSpec => []DecisionsMatchEffects
<1>1. PrTypeOK /\ ExecInv /\ SerialInv /\ [PrNext]_prVars => PrTypeOK' /\ ExecInv' /\ SerialInv'
    BY PrTypeStep, ExecStep, SerialStep
<1>2. SerialInv => DecisionsMatchEffects
    BY DEF SerialInv
<1> QED BY PrTypeInit, ExecInit, SerialInit, <1>1, <1>2, PTL DEF PrSpec
=============================================================================
