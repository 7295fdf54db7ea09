----------------------------- MODULE PoolsProofs -----------------------------
(***************************************************************************)
(* Proofs about Pools, for every number of requests, pools, rules, amounts, *)
(* days and transactions, and about Reports, for every chart, plan of       *)
(* entries, number of rows and size of a page.  Both are about sums over    *)
(* the rows of the books, and share the lemmas on sums.                     *)
(***************************************************************************)
EXTENDS Pools, Reports, FiniteSetTheorems, SequenceTheorems, WellFoundedInduction,
        NaturalsInduction, TLAPS

-----------------------------------------------------------------------------
(* Induction: the library's theorems take an operator, a set does as well.  *)

Below == {d \in Nat \X Nat : d[1] < d[2]}

LEMMA BelowIsWellFounded == IsWellFoundedOn(Below, Nat)
BY NatLessThanWellFounded DEF OpToRel, Below

(* A set that contains zero, and with each number the next, is all of Nat.  *)
LEMMA Induction ==
    ASSUME NEW Holds \in SUBSET Nat, 0 \in Holds, \A n \in Holds : n + 1 \in Holds
    PROVE  Holds = Nat
<1> DEFINE T == Nat \ Holds
<1> SUFFICES ASSUME T # {} PROVE FALSE
    OBVIOUS
<1>1. T \in SUBSET Nat
    OBVIOUS
<1> HIDE DEF T
<1>2. PICK x \in T : \A y \in T : ~(<<y, x>> \in Below)
    BY <1>1, BelowIsWellFounded, WFMin, Zenon
<1>3. \A y \in T : ~(y < x)
    BY <1>1, <1>2 DEF Below
<1> USE DEF T
<1>4. x # 0 /\ x - 1 \in Nat
    OBVIOUS
<1>5. x - 1 \in Holds
    BY <1>3, <1>4
<1>6. x - 1 + 1 \in Holds
    BY <1>5
<1> QED BY <1>6

-----------------------------------------------------------------------------
(* Sums.                                                                    *)

Pick(s) == CHOOSE x \in s : TRUE

(* The recursion behind SumFunction: what it says of one function that it   *)
(* defines, and that function.                                              *)
Step(f, it, s)  == IF s = {} THEN 0 ELSE f[Pick(s)] + it[s \ {Pick(s)}]
Steps(f)        == CHOOSE it : it = [s \in SUBSET (DOMAIN f) |-> Step(f, it, s)]

LEMMA SumIsSteps == ASSUME NEW f PROVE SumFunction(f) = Steps(f)[DOMAIN f]
BY DEF SumFunction, SumFunctionOnSet, FoldFunctionOnSet, MapThenFoldSet, Steps, Step, Pick

LEMMA PickIn == ASSUME NEW s, s # {} PROVE Pick(s) \in s
BY DEF Pick

(* Subsets of a finite set, one element less.                               *)
LEMMA Less ==
    ASSUME NEW s, IsFiniteSet(s), NEW x \in s
    PROVE  /\ IsFiniteSet(s \ {x}) /\ Cardinality(s) \in Nat /\ Cardinality(s \ {x}) \in Nat
           /\ Cardinality(s \ {x}) = Cardinality(s) - 1
BY FS_RemoveElement, FS_CardinalityType

UpTo(S, n) == {s \in SUBSET S : Cardinality(s) <= n}

(* There is a function with these steps.                                    *)
LEMMA StepsExist ==
    ASSUME NEW f, IsFiniteSet(DOMAIN f)
    PROVE  \E it : it = [s \in SUBSET (DOMAIN f) |-> Step(f, it, s)]
<1> DEFINE S == DOMAIN f
           Holds == {n \in Nat : \E g : g = [s \in UpTo(S, n) |-> Step(f, g, s)]}
<1>0. \A s \in SUBSET S : IsFiniteSet(s) /\ Cardinality(s) \in Nat
    BY FS_Subset, FS_CardinalityType
<1>1. 0 \in Holds
  <2> DEFINE g == [s \in UpTo(S, 0) |-> 0]
  <2>1. \A s \in UpTo(S, 0) : s = {}
      BY <1>0, FS_EmptySet DEF UpTo
  <2>2. g = [s \in UpTo(S, 0) |-> Step(f, g, s)]
      BY <2>1 DEF Step
  <2> QED BY <2>2
<1>2. ASSUME NEW n \in Holds PROVE n + 1 \in Holds
  <2>1. PICK g : g = [s \in UpTo(S, n) |-> Step(f, g, s)]
      OBVIOUS
  <2> DEFINE h == [s \in UpTo(S, n + 1) |-> Step(f, g, s)]
  <2>2. ASSUME NEW s \in UpTo(S, n + 1) PROVE Step(f, g, s) = Step(f, h, s)
    <3>1. CASE s = {}
        BY <3>1 DEF Step
    <3>2. CASE s # {}
      <4> DEFINE t == s \ {Pick(s)}
      <4>1. t \in UpTo(S, n) /\ t \in UpTo(S, n + 1)
          BY <1>0, <3>2, PickIn, Less DEF UpTo
      <4>2. g[t] = Step(f, g, t)
          BY <2>1, <4>1
      <4>3. h[t] = Step(f, g, t)
          BY <4>1
      <4> QED BY <3>2, <4>2, <4>3 DEF Step
    <3> QED BY <3>1, <3>2
  <2>3. h = [s \in UpTo(S, n + 1) |-> Step(f, h, s)]
      BY <2>2
  <2> HIDE DEF h
  <2>4. \E k : k = [s \in UpTo(S, n + 1) |-> Step(f, k, s)]
      BY <2>3
  <2> QED BY <2>4
<1> HIDE DEF Holds
<1>3. Holds = Nat
  <2>1. Holds \in SUBSET Nat
      BY DEF Holds
  <2> QED BY <1>1, <1>2, <2>1, Induction
<1>4. PICK g : g = [s \in UpTo(S, Cardinality(S)) |-> Step(f, g, s)]
    BY <1>0, <1>3 DEF Holds
<1>5. UpTo(S, Cardinality(S)) = SUBSET S
    BY FS_Subset DEF UpTo
<1> QED BY <1>4, <1>5

LEMMA StepsUnfold ==
    ASSUME NEW f, IsFiniteSet(DOMAIN f)
    PROVE  \A s \in SUBSET (DOMAIN f) : Steps(f)[s] = Step(f, Steps(f), s)
<1> DEFINE it == Steps(f)
<1>1. it = [s \in SUBSET (DOMAIN f) |-> Step(f, it, s)]
    BY StepsExist DEF Steps
<1> HIDE DEF it
<1>2. \A s \in SUBSET (DOMAIN f) : it[s] = Step(f, it, s)
    BY <1>1
<1> QED BY <1>2 DEF it

(* What holds of the empty set, and of a set when it holds of the set       *)
(* without some element, holds of every finite set: by induction on the     *)
(* cardinality.  Good is the set of the subsets it holds of.                *)
LEMMA BySize ==
    ASSUME NEW S, IsFiniteSet(S), NEW Good \in SUBSET (SUBSET S),
           {} \in Good,
           \A s \in SUBSET S :
              s # {} /\ (\A t \in SUBSET S : Cardinality(t) = Cardinality(s) - 1 => t \in Good)
                 => s \in Good
    PROVE  Good = SUBSET S
<1> DEFINE Holds == {n \in Nat : \A s \in SUBSET S : Cardinality(s) = n => s \in Good}
<1>0. \A s \in SUBSET S : IsFiniteSet(s) /\ Cardinality(s) \in Nat /\ (Cardinality(s) = 0 <=> s = {})
    BY FS_Subset, FS_CardinalityType, FS_EmptySet
<1>1. 0 \in Holds
    BY <1>0
<1>2. ASSUME NEW n \in Holds PROVE n + 1 \in Holds
  <2>1. ASSUME NEW s \in SUBSET S, Cardinality(s) = n + 1 PROVE s \in Good
    <3>1. s # {}
        BY <1>0, <2>1
    <3>2. Cardinality(s) - 1 = n
        BY <2>1
    <3>3. \A t \in SUBSET S : Cardinality(t) = Cardinality(s) - 1 => t \in Good
        BY <3>2
    <3> QED BY <3>1, <3>3
  <2> QED BY <2>1
<1> HIDE DEF Holds
<1>3. Holds = Nat
  <2>1. Holds \in SUBSET Nat
      BY DEF Holds
  <2> QED BY <1>1, <1>2, <2>1, Induction
<1> QED BY <1>0, <1>3 DEF Holds

(* Sums of integers are integers, and of naturals naturals.                 *)
LEMMA StepsTyped ==
    ASSUME NEW f, IsFiniteSet(DOMAIN f), NEW V, V \in {Int, Nat},
           \A x \in DOMAIN f : f[x] \in V
    PROVE  \A s \in SUBSET (DOMAIN f) : Steps(f)[s] \in V
<1> DEFINE S == DOMAIN f
           Good == {s \in SUBSET S : Steps(f)[s] \in V}
<1>1. {} \in Good
  <2>1. {} \in SUBSET (DOMAIN f)
      OBVIOUS
  <2>2. Steps(f)[{}] = 0
      BY <2>1, StepsUnfold DEF Step
  <2> QED BY <2>2
<1>2. ASSUME NEW s \in SUBSET S, s # {},
             \A t \in SUBSET S : Cardinality(t) = Cardinality(s) - 1 => t \in Good
      PROVE  s \in Good
  <2> DEFINE t == s \ {Pick(s)}
  <2>1. Pick(s) \in s /\ t \in Good
      BY <1>2, PickIn, Less, FS_Subset
  <2>2. Steps(f)[s] = f[Pick(s)] + Steps(f)[t]
      BY <1>2, StepsUnfold DEF Step
  <2> QED BY <2>1, <2>2
<1> HIDE DEF Good
<1>3. Good = SUBSET S
  <2>1. Good \in SUBSET (SUBSET S)
      BY DEF Good
  <2> QED BY <1>1, <1>2, <2>1, BySize
<1> QED BY <1>3 DEF Good

(* Functions that agree on a set have the same sum over it.                 *)
LEMMA StepsAgree ==
    ASSUME NEW f, NEW g, IsFiniteSet(DOMAIN f), IsFiniteSet(DOMAIN g),
           DOMAIN f \subseteq DOMAIN g, \A x \in DOMAIN f : f[x] = g[x]
    PROVE  \A s \in SUBSET (DOMAIN f) : Steps(f)[s] = Steps(g)[s]
<1> DEFINE S == DOMAIN f
           Good == {s \in SUBSET S : Steps(f)[s] = Steps(g)[s]}
<1>1. {} \in Good
    BY StepsUnfold DEF Step
<1>2. ASSUME NEW s \in SUBSET S, s # {},
             \A t \in SUBSET S : Cardinality(t) = Cardinality(s) - 1 => t \in Good
      PROVE  s \in Good
  <2> DEFINE t == s \ {Pick(s)}
  <2>1. Pick(s) \in s /\ t \in Good
      BY <1>2, PickIn, Less, FS_Subset
  <2>2. Steps(f)[s] = f[Pick(s)] + Steps(f)[t]
      BY <1>2, StepsUnfold DEF Step
  <2>3. Steps(g)[s] = g[Pick(s)] + Steps(g)[t]
      BY <1>2, StepsUnfold DEF Step
  <2> QED BY <2>1, <2>2, <2>3
<1> HIDE DEF Good
<1>3. Good = SUBSET S
  <2>1. Good \in SUBSET (SUBSET S)
      BY DEF Good
  <2> QED BY <1>1, <1>2, <2>1, BySize
<1> QED BY <1>3 DEF Good

(* Any element may be taken out first.                                      *)
LEMMA StepsTakeOut ==
    ASSUME NEW f, IsFiniteSet(DOMAIN f), \A x \in DOMAIN f : f[x] \in Int
    PROVE  \A s \in SUBSET (DOMAIN f) : \A x \in s :
              Steps(f)[s] = f[x] + Steps(f)[s \ {x}]
<1> DEFINE S == DOMAIN f
           Good == {s \in SUBSET S : \A x \in s : Steps(f)[s] = f[x] + Steps(f)[s \ {x}]}
<1>1. {} \in Good
    OBVIOUS
<1>2. ASSUME NEW s \in SUBSET S, s # {},
             \A t \in SUBSET S : Cardinality(t) = Cardinality(s) - 1 => t \in Good,
             NEW x \in s
      PROVE  Steps(f)[s] = f[x] + Steps(f)[s \ {x}]
  <2> DEFINE y == Pick(s)
  <2>1. y \in s /\ s \ {y} \in Good /\ s \ {x} \in Good
      BY <1>2, PickIn, Less, FS_Subset
  <2>2. Steps(f)[s] = f[y] + Steps(f)[s \ {y}]
      BY <1>2, StepsUnfold DEF Step
  <2>3. CASE x = y
      BY <2>2, <2>3
  <2>4. CASE x # y
    <3>1. Steps(f)[s \ {y}] = f[x] + Steps(f)[(s \ {y}) \ {x}]
        BY <2>1, <2>4
    <3>2. Steps(f)[s \ {x}] = f[y] + Steps(f)[(s \ {x}) \ {y}]
        BY <2>1, <2>4
    <3>3. (s \ {y}) \ {x} = (s \ {x}) \ {y}
        OBVIOUS
    <3>4. f[x] \in Int /\ f[y] \in Int /\ Steps(f)[(s \ {x}) \ {y}] \in Int
        BY <2>1, StepsTyped
    <3> DEFINE rest == Steps(f)[(s \ {x}) \ {y}]
    <3>5. Steps(f)[s] = f[y] + (f[x] + rest)
        BY <2>2, <3>1, <3>3
    <3>6. f[x] + Steps(f)[s \ {x}] = f[x] + (f[y] + rest)
        BY <3>2
    <3>7. f[y] + (f[x] + rest) = f[x] + (f[y] + rest)
      <4> HIDE DEF y, rest
      <4> QED BY <3>4 DEF rest
    <3> QED BY <3>5, <3>6, <3>7
  <2> QED BY <2>3, <2>4
<1>3. \A s \in SUBSET S :
         s # {} /\ (\A t \in SUBSET S : Cardinality(t) = Cardinality(s) - 1 => t \in Good)
            => s \in Good
    BY <1>2
<1> HIDE DEF Good
<1>4. Good = SUBSET S
  <2>1. Good \in SUBSET (SUBSET S)
      BY DEF Good
  <2> QED BY <1>1, <1>3, <2>1, BySize
<1> QED BY <1>4 DEF Good

(* The two facts about SumFunction that the rest uses.                      *)
LEMMA SumTyped ==
    ASSUME NEW f, IsFiniteSet(DOMAIN f), NEW V, V \in {Int, Nat},
           \A x \in DOMAIN f : f[x] \in V
    PROVE  SumFunction(f) \in V
BY SumIsSteps, StepsTyped

LEMMA SumGrows ==
    ASSUME NEW f, NEW g, NEW x, IsFiniteSet(DOMAIN f), x \notin DOMAIN f,
           DOMAIN g = DOMAIN f \cup {x},
           \A y \in DOMAIN f : f[y] = g[y], \A y \in DOMAIN g : g[y] \in Int
    PROVE  SumFunction(g) = SumFunction(f) + g[x]
<1>1. IsFiniteSet(DOMAIN g)
    BY FS_AddElement
<1>2. Steps(g)[DOMAIN g] = g[x] + Steps(g)[DOMAIN g \ {x}]
    BY <1>1, StepsTakeOut
<1>3. DOMAIN g \ {x} = DOMAIN f
    OBVIOUS
<1>4. Steps(g)[DOMAIN f] = Steps(f)[DOMAIN f]
    BY <1>1, StepsAgree
<1>5. Steps(f)[DOMAIN f] \in Int
  <2>1. \A y \in DOMAIN f : f[y] \in Int
      OBVIOUS
  <2> QED BY <2>1, StepsTyped
<1> QED BY <1>2, <1>3, <1>4, <1>5, SumIsSteps

-----------------------------------------------------------------------------
(* Balances.                                                                *)

LEMMA EffectTyped == ASSUME NEW t \in Shadow, NEW p PROVE Effect(t, p) \in Int
BY DEF Effect, Shadow

LEMMA BalanceTyped ==
    ASSUME NEW txs \in Seq(Shadow), NEW p PROVE BalanceIn(txs, p) \in Int
<1> DEFINE f == [i \in DOMAIN txs |-> Effect(txs[i], p)]
<1>1. DOMAIN f = 1 .. Len(txs) /\ IsFiniteSet(DOMAIN f)
    BY FS_Interval
<1>2. \A i \in DOMAIN f : f[i] \in Int
    BY EffectTyped
<1> HIDE DEF f
<1>3. SumFunction(f) \in Int
    BY <1>1, <1>2, SumTyped
<1> QED BY <1>3 DEF BalanceIn, f

(* A transaction that is posted adds its effect to every balance.           *)
LEMMA BalanceGrows ==
    ASSUME NEW txs \in Seq(Shadow), NEW t \in Shadow, NEW p
    PROVE  BalanceIn(Append(txs, t), p) = BalanceIn(txs, p) + Effect(t, p)
<1> DEFINE more == Append(txs, t)
           f == [i \in DOMAIN txs |-> Effect(txs[i], p)]
           g == [i \in DOMAIN more |-> Effect(more[i], p)]
           x == Len(txs) + 1
<1>1. /\ more \in Seq(Shadow) /\ DOMAIN txs = 1 .. Len(txs) /\ DOMAIN more = 1 .. x
      /\ more[x] = t /\ \A i \in DOMAIN txs : more[i] = txs[i]
    OBVIOUS
<1>2. IsFiniteSet(DOMAIN f) /\ x \notin DOMAIN f /\ DOMAIN g = DOMAIN f \cup {x}
  <2>1. Len(txs) \in Nat /\ IsFiniteSet(1 .. Len(txs))
      BY FS_Interval
  <2>2. x \notin 1 .. Len(txs) /\ 1 .. x = 1 .. Len(txs) \cup {x}
      BY <2>1
  <2>3. DOMAIN f = 1 .. Len(txs) /\ DOMAIN g = 1 .. x
      BY <1>1
  <2> HIDE DEF f, g, x
  <2> QED BY <2>1, <2>2, <2>3
<1>3. \A y \in DOMAIN f : f[y] = g[y]
    BY <1>1
<1>4. \A y \in DOMAIN g : g[y] \in Int
    BY <1>1, EffectTyped
<1>5. g[x] = Effect(t, p)
    BY <1>1
<1> HIDE DEF f, g
<1>6. SumFunction(g) = SumFunction(f) + g[x]
    BY <1>2, <1>3, <1>4, SumGrows
<1> QED BY <1>5, <1>6 DEF BalanceIn, f, g

-----------------------------------------------------------------------------
(* Types.                                                                   *)

(* What a fire has read is still in the ledger, which only grows.           *)
FiresSawTheLedger ==
    \A s \in Slots :
        /\ req[s].op = "fire" => req[s].income \subseteq DOMAIN shadow
        /\ req[s].op \in {"fire", "fired"} => req[s].upto <= Len(shadow)

Typed == TypeOK /\ FiresSawTheLedger

(* The fields a request of each kind carries. *)
LEMMA RequestFields ==
    ASSUME NEW r \in Request
    PROVE  /\ r.op = "post" => r.tx \in Shadow /\ r.made \in BOOLEAN
           /\ r.op = "update" => r.pool \in Pools /\ r.rule \in Rule /\ r.saw \in Rule
           /\ r.op \in {"schedule", "scheduled", "cancel", "cancelled"} => r.pool \in Pools
           /\ r.op = "fire" => /\ r.pool \in Pools /\ r.live \in BOOLEAN /\ r.rule \in Rule
                               /\ r.saw \in Int /\ r.income \subseteq 1 .. MaxShadow
                               /\ r.upto \in 0 .. MaxShadow /\ r.made \in BOOLEAN
           /\ r.op = "fired" => r.pool \in Pools /\ r.upto \in 0 .. MaxShadow
           /\ r.op = "idle" <=> r = Idle
           /\ r.op \in {"idle", "post", "update", "schedule", "scheduled", "cancel",
                        "cancelled", "fire", "fired"}
BY DEF Request, Idle

(* The slot a request ends in, or goes on in, is the only one that changes. *)
LEMMA ToSlot ==
    ASSUME TypeOK, FiresSawTheLedger, NEW s \in Slots, NEW r \in Request, To(s, r),
           r.op = "fire" => r.income \subseteq DOMAIN shadow',
           r.op \in {"fire", "fired"} => r.upto <= Len(shadow'),
           shadow' \in Seq(Shadow), Len(shadow) <= Len(shadow')
    PROVE  req' \in [Slots -> Request] /\ overlap' \in BOOLEAN /\ FiresSawTheLedger'
<1>1. req' = [req EXCEPT ![s] = r] /\ overlap' = overlap
    BY DEF To
<1>2. shadow \in Seq(Shadow) /\ req \in [Slots -> Request] /\ overlap \in BOOLEAN
    BY DEF TypeOK
<1>3. DOMAIN shadow \subseteq DOMAIN shadow'
    BY <1>2
<1>4. ASSUME NEW u \in Slots
      PROVE  /\ req'[u].op = "fire" => req'[u].income \subseteq DOMAIN shadow'
             /\ req'[u].op \in {"fire", "fired"} => req'[u].upto <= Len(shadow')
  <2>1. CASE u = s
      BY <1>1, <1>2, <2>1
  <2>2. CASE u # s
    <3>1. req'[u] = req[u] /\ req[u] \in Request
        BY <1>1, <1>2, <2>2
    <3>2. req[u].op \in {"fire", "fired"} => req[u].upto <= Len(shadow')
      <4>1. req[u].op \in {"fire", "fired"} => req[u].upto <= Len(shadow) /\ req[u].upto \in Int
          BY <3>1, RequestFields DEF FiresSawTheLedger
      <4> QED BY <1>2, <4>1
    <3>3. req[u].op = "fire" => req[u].income \subseteq DOMAIN shadow'
        BY <1>3 DEF FiresSawTheLedger
    <3> QED BY <3>1, <3>2, <3>3
  <2> QED BY <2>1, <2>2
<1> QED BY <1>1, <1>2, <1>4 DEF FiresSawTheLedger

LEMMA BeginTyped ==
    ASSUME Typed, NEW s \in Slots, NEW r \in Request, Begin(s, r),
           r.op = "fire" => r.income \subseteq DOMAIN shadow,
           r.op \in {"fire", "fired"} => r.upto <= Len(shadow)
    PROVE  Typed'
<1>1. req' \in [Slots -> Request] /\ overlap' \in BOOLEAN
    BY DEF Begin, Typed, TypeOK, Meets
<1>2. FiresSawTheLedger'
    BY DEF Begin, Typed, TypeOK, FiresSawTheLedger
<1> QED BY <1>1, <1>2 DEF Begin, Typed, TypeOK

LEMMA TxTyped ==
    ASSUME NEW reason \in {"inflow", "transfer", "refill", "auto", "spend"},
           NEW from \in Sides, NEW to \in Sides, NEW a \in Nat, NEW d \in Days
    PROVE  Tx(reason, from, to, a, d) \in Shadow
BY PoolsAssumption DEF Tx, Shadow, Days

LEMMA TypeInit == Init => Typed
<1> SUFFICES ASSUME Init PROVE Typed
    OBVIOUS
<1>1. NoRule \in Rule
    BY DEF NoRule, Rule
<1>2. shadow = <<>> /\ shadow \in Seq(Shadow) /\ Len(shadow) = 0
    BY DEF Init
<1>3. FiresSawTheLedger
    BY DEF Init, FiresSawTheLedger, Idle
<1>4. req \in [Slots -> Request]
    BY DEF Init, Request
<1>5. pool \in [Pools -> [state : {"absent", "active", "inactive"},
                         name : {"given", "redacted"}, rule : Rule]]
    BY <1>1 DEF Init
<1>6. /\ job \in [Pools -> [state : {"none", "active", "cancelled", "dead"},
                            last : Days \cup {Never}]]
      /\ audit \in [Pools -> SUBSET {"create", "cancel"}]
    BY DEF Init
<1>7. system \in 0 .. 1 /\ today \in Days /\ counted \in [Pools -> 0 .. MaxShadow]
      /\ Len(shadow) <= MaxShadow
    BY <1>2, PoolsAssumption DEF Init, Days
<1> QED BY <1>2, <1>3, <1>4, <1>5, <1>6, <1>7 DEF Init, Typed, TypeOK

(* Rows written at once.                                                    *)
PoolRow == [state : {"absent", "active", "inactive"}, name : {"given", "redacted"}, rule : Rule]

LEMMA AtOnceTyped ==
    ASSUME Typed, NEW p \in Pools, NEW row \in PoolRow, AtOnce(p, row) PROVE Typed'
<1>1. pool' \in [Pools -> PoolRow] /\ overlap' \in BOOLEAN
    BY DEF AtOnce, Typed, TypeOK, PoolRow, Busy
<1> QED BY <1>1 DEF AtOnce, Typed, TypeOK, PoolRow, FiresSawTheLedger

LEMMA RowTypes ==
    ASSUME Typed, NEW p \in Pools
    PROVE  /\ CreateEnvelope(p) => Typed'
           /\ CreateSinkingFund(p) => Typed'
           /\ DeactivateEnvelope(p) \/ DeactivateSinkingFund(p) => Typed'
           /\ RedactEnvelope(p) \/ RedactSinkingFund(p) => Typed'
           /\ UpdateEnvelope(p) \/ UpdateSinkingFund(p) => Typed'
<1>1. pool[p] \in PoolRow
    BY DEF Typed, TypeOK, PoolRow
<1>2. \A r \in Rules \cup {NoRule} : New(r) \in PoolRow
  <2>1. NoRule \in Rule
      BY DEF NoRule, Rule
  <2>2. \A r \in Rule : New(r) \in PoolRow
      BY DEF New, PoolRow
  <2> QED BY <2>1, <2>2, PoolsAssumption
<1>3. /\ [pool[p] EXCEPT !.state = "inactive"] \in PoolRow
      /\ [pool[p] EXCEPT !.name = "redacted"] \in PoolRow
      /\ [pool[p] EXCEPT !.name = "given"] \in PoolRow
    BY <1>1 DEF PoolRow
<1>4. CreateEnvelope(p) => Typed'
    BY <1>2, AtOnceTyped DEF CreateEnvelope
<1>5. CreateSinkingFund(p) => Typed'
    BY <1>2, AtOnceTyped DEF CreateSinkingFund
<1>6. DeactivateEnvelope(p) \/ DeactivateSinkingFund(p) => Typed'
    BY <1>3, AtOnceTyped DEF DeactivateEnvelope, DeactivateSinkingFund, Deactivate
<1>7. RedactEnvelope(p) \/ RedactSinkingFund(p) => Typed'
    BY <1>3, AtOnceTyped DEF RedactEnvelope, RedactSinkingFund, Redact
<1>8. UpdateEnvelope(p) \/ UpdateSinkingFund(p) => Typed'
    BY <1>3, AtOnceTyped DEF UpdateEnvelope, UpdateSinkingFund, Rename
<1> QED BY <1>4, <1>5, <1>6, <1>7, <1>8

(* Requests that begin.                                                     *)
LEMMA BeginPostTyped ==
    ASSUME Typed, NEW s \in Slots, NEW t \in Shadow, BeginPost(s, t) PROVE Typed'
<1> DEFINE r == [op |-> "post", tx |-> t, made |-> t.reason # "transfer" /\ system = 0]
<1>1. r \in Request /\ r.op = "post" /\ Begin(s, r)
    BY DEF BeginPost, Request
<1> QED BY <1>1, BeginTyped

LEMMA PostTypes ==
    ASSUME Typed, NEW s \in Slots
    PROVE  /\ \A p, q \in Pools : BeginTransfer(s, p, q) => Typed'
           /\ BeginInflow(s) => Typed'
           /\ \A p \in Pools : BeginRefill(s, p) \/ BeginSpend(s, p) => Typed'
<1> USE PoolsAssumption DEF Sides, Days
<1>1. ASSUME NEW p \in Pools, NEW q \in Pools, BeginTransfer(s, p, q) PROVE Typed'
    BY <1>1, TxTyped, BeginPostTyped DEF BeginTransfer
<1>2. ASSUME BeginInflow(s) PROVE Typed'
    BY <1>2, TxTyped, BeginPostTyped DEF BeginInflow
<1>3. ASSUME NEW p \in Pools, BeginRefill(s, p) PROVE Typed'
    BY <1>3, TxTyped, BeginPostTyped DEF BeginRefill
<1>4. ASSUME NEW p \in Pools, BeginSpend(s, p) PROVE Typed'
    BY <1>4, TxTyped, BeginPostTyped DEF BeginSpend
<1> QED BY <1>1, <1>2, <1>3, <1>4

LEMMA BeginTypes ==
    ASSUME Typed, NEW s \in Slots, NEW e \in Pools
    PROVE  /\ BeginUpdate(s, e) => Typed'
           /\ BeginSchedule(s, e) => Typed'
           /\ BeginCancel(s, e) => Typed'
           /\ BeginFire(s, e) => Typed'
<1>1. ASSUME BeginUpdate(s, e) PROVE Typed'
  <2>1. PICK r \in Rules : Begin(s, [op |-> "update", pool |-> e, rule |-> r,
                                     saw |-> pool[e].rule])
      BY <1>1 DEF BeginUpdate
  <2>2. [op |-> "update", pool |-> e, rule |-> r, saw |-> pool[e].rule] \in Request
      BY PoolsAssumption DEF Request, Typed, TypeOK
  <2> QED BY <2>1, <2>2, BeginTyped
<1>2. ASSUME BeginSchedule(s, e) PROVE Typed'
  <2>1. [op |-> "schedule", pool |-> e] \in Request
      BY DEF Request
  <2> QED BY <1>2, <2>1, BeginTyped DEF BeginSchedule
<1>3. ASSUME BeginCancel(s, e) PROVE Typed'
  <2>1. [op |-> "cancel", pool |-> e] \in Request
      BY DEF Request
  <2> QED BY <1>3, <2>1, BeginTyped DEF BeginCancel
<1>4. ASSUME BeginFire(s, e) PROVE Typed'
  <2> DEFINE r == [op |-> "fire", pool |-> e, live |-> Active(e), rule |-> pool[e].rule,
                   saw |-> Balance(e), income |-> Inflows(e), upto |-> Len(shadow),
                   made |-> system = 0]
  <2>1. shadow \in Seq(Shadow) /\ Len(shadow) <= MaxShadow /\ DOMAIN shadow = 1 .. Len(shadow)
      BY DEF Typed, TypeOK
  <2>2. Inflows(e) \subseteq DOMAIN shadow /\ Inflows(e) \subseteq 1 .. MaxShadow
      BY <2>1, PoolsAssumption DEF Inflows
  <2>3. Len(shadow) \in 0 .. MaxShadow
      BY <2>1, PoolsAssumption
  <2>4. Balance(e) \in Int
      BY <2>1, BalanceTyped DEF Balance
  <2>5. pool[e].rule \in Rule
      BY DEF Typed, TypeOK
  <2>6. r \in Request
      BY <2>2, <2>3, <2>4, <2>5 DEF Request, Active
  <2>7. Begin(s, r)
      BY <1>4 DEF BeginFire
  <2> QED BY <2>1, <2>2, <2>6, <2>7, BeginTyped
<1> QED BY <1>1, <1>2, <1>3, <1>4

(* Requests that commit or end.                                             *)
IdleFields == Idle \in Request /\ Idle.op = "idle"

LEMMA IdleIsARequest == IdleFields
BY DEF IdleFields, Idle, Request

(* A step that leaves the ledger alone and takes its request elsewhere.     *)
LEMMA MovedOn ==
    ASSUME Typed, NEW s \in Slots, NEW r \in Request, To(s, r), shadow' = shadow,
           r.op \in {"idle", "scheduled", "cancelled"}
    PROVE  req' \in [Slots -> Request] /\ overlap' \in BOOLEAN /\ FiresSawTheLedger'
<1>1. shadow' \in Seq(Shadow) /\ Len(shadow) <= Len(shadow')
    BY DEF Typed, TypeOK
<1>2. r.op # "fire" /\ r.op \notin {"fire", "fired"}
    OBVIOUS
<1> QED BY <1>1, <1>2, ToSlot DEF Typed

LEMMA SetJobTyped ==
    ASSUME TypeOK, NEW e \in Pools, NEW state \in {"none", "active", "cancelled", "dead"},
           SetJob(e, state)
    PROVE  /\ job' \in [Pools -> [state : {"none", "active", "cancelled", "dead"},
                                  last : Days \cup {Never}]]
           /\ UNCHANGED <<pool, system, shadow, audit, today, counted, lost>>
BY DEF SetJob, TypeOK

LEMMA CommitTypes ==
    ASSUME Typed, NEW s \in Slots
    PROVE  /\ CommitUpdate(s) \/ Abort(s) => Typed'
           /\ CommitSchedule(s) \/ RefuseSchedule(s) \/ CommitCancel(s) => Typed'
           /\ CommitAudit(s) \/ FailFire(s) \/ Advance(s) => Typed'
<1> USE IdleIsARequest DEF IdleFields
<1>0. req[s] \in Request
    BY DEF Typed, TypeOK
<1>1. ASSUME CommitUpdate(s) PROVE Typed'
  <2>1. req[s].pool \in Pools /\ req[s].rule \in Rule
      BY <1>0, <1>1, RequestFields DEF CommitUpdate
  <2>2. pool' \in [Pools -> PoolRow]
      BY <1>1, <2>1 DEF CommitUpdate, Typed, TypeOK, PoolRow
  <2>3. req' \in [Slots -> Request] /\ overlap' \in BOOLEAN /\ FiresSawTheLedger'
      BY <1>1, MovedOn DEF CommitUpdate
  <2> QED BY <1>1, <2>2, <2>3 DEF CommitUpdate, Typed, TypeOK, PoolRow
<1>2. ASSUME Abort(s) PROVE Typed'
  <2>1. req' \in [Slots -> Request] /\ overlap' \in BOOLEAN /\ FiresSawTheLedger'
      BY <1>2, MovedOn DEF Abort
  <2> QED BY <1>2, <2>1 DEF Abort, Typed, TypeOK
<1>3. ASSUME CommitSchedule(s) PROVE Typed'
  <2>1. req[s].pool \in Pools /\ [op |-> "scheduled", pool |-> req[s].pool] \in Request
      BY <1>0, <1>3, RequestFields DEF CommitSchedule, Request
  <2>2. SetJob(req[s].pool, "active") /\ To(s, [op |-> "scheduled", pool |-> req[s].pool])
      BY <1>3 DEF CommitSchedule
  <2>3. shadow' = shadow
      BY <2>2 DEF SetJob
  <2>4. req' \in [Slots -> Request] /\ overlap' \in BOOLEAN /\ FiresSawTheLedger'
      BY <2>1, <2>2, <2>3, MovedOn
  <2> QED BY <2>1, <2>2, <2>4, SetJobTyped DEF Typed, TypeOK
<1>4. ASSUME RefuseSchedule(s) PROVE Typed'
  <2>1. req' \in [Slots -> Request] /\ overlap' \in BOOLEAN /\ FiresSawTheLedger'
      BY <1>4, MovedOn DEF RefuseSchedule
  <2> QED BY <1>4, <2>1 DEF RefuseSchedule, Typed, TypeOK
<1>5. ASSUME CommitCancel(s) PROVE Typed'
  <2>1. req[s].pool \in Pools /\ [op |-> "cancelled", pool |-> req[s].pool] \in Request
      BY <1>0, <1>5, RequestFields DEF CommitCancel, Request
  <2>2. SetJob(req[s].pool, "cancelled") /\ To(s, [op |-> "cancelled", pool |-> req[s].pool])
      BY <1>5 DEF CommitCancel
  <2>3. shadow' = shadow
      BY <2>2 DEF SetJob
  <2>4. req' \in [Slots -> Request] /\ overlap' \in BOOLEAN /\ FiresSawTheLedger'
      BY <2>1, <2>2, <2>3, MovedOn
  <2> QED BY <2>1, <2>2, <2>4, SetJobTyped DEF Typed, TypeOK
<1>6. ASSUME CommitAudit(s) PROVE Typed'
  <2>1. req[s].pool \in Pools
      BY <1>0, <1>6, RequestFields DEF CommitAudit
  <2>2. audit' \in [Pools -> SUBSET {"create", "cancel"}]
      BY <1>6, <2>1 DEF CommitAudit, Typed, TypeOK
  <2>3. req' \in [Slots -> Request] /\ overlap' \in BOOLEAN /\ FiresSawTheLedger'
      BY <1>6, MovedOn DEF CommitAudit
  <2> QED BY <1>6, <2>2, <2>3 DEF CommitAudit, Typed, TypeOK
<1>7. ASSUME FailFire(s) PROVE Typed'
  <2>1. req[s].pool \in Pools
      BY <1>0, <1>7, RequestFields DEF FailFire
  <2>2. job[req[s].pool].state \in {"none", "active", "cancelled", "dead"}
      BY <2>1 DEF Typed, TypeOK
  <2>3. \E state \in {"none", "active", "cancelled", "dead"} : SetJob(req[s].pool, state)
      BY <1>7, <2>2 DEF FailFire
  <2>4. shadow' = shadow
      BY <2>3 DEF SetJob
  <2>5. req' \in [Slots -> Request] /\ overlap' \in BOOLEAN /\ FiresSawTheLedger'
      BY <1>7, <2>4, MovedOn DEF FailFire
  <2> QED BY <2>1, <2>3, <2>5, SetJobTyped DEF Typed, TypeOK
<1>8. ASSUME Advance(s) PROVE Typed'
  <2>1. req[s].pool \in Pools /\ req[s].upto \in 0 .. MaxShadow
      BY <1>0, <1>8, RequestFields DEF Advance
  <2>2. /\ job' \in [Pools -> [state : {"none", "active", "cancelled", "dead"},
                               last : Days \cup {Never}]]
        /\ counted' \in [Pools -> 0 .. MaxShadow]
      BY <1>8, <2>1 DEF Advance, Typed, TypeOK
  <2>3. req' \in [Slots -> Request] /\ overlap' \in BOOLEAN /\ FiresSawTheLedger'
      BY <1>8, MovedOn DEF Advance
  <2> QED BY <1>8, <2>2, <2>3 DEF Advance, Typed, TypeOK
<1> QED BY <1>1, <1>2, <1>3, <1>4, <1>5, <1>6, <1>7, <1>8

(* The ledger takes one more transaction.                                   *)
LEMMA Appended ==
    ASSUME TypeOK, NEW t \in Shadow, Len(shadow) < MaxShadow, shadow' = Append(shadow, t)
    PROVE  /\ shadow' \in Seq(Shadow) /\ Len(shadow') = Len(shadow) + 1
           /\ Len(shadow) \in Nat /\ Len(shadow) <= Len(shadow') /\ Len(shadow') <= MaxShadow
           /\ DOMAIN shadow' = DOMAIN shadow \cup {Len(shadow')}
           /\ Len(shadow') \notin DOMAIN shadow
           /\ shadow'[Len(shadow')] = t
           /\ \A i \in DOMAIN shadow : shadow'[i] = shadow[i]
<1>1. shadow \in Seq(Shadow) /\ Len(shadow) \in Nat /\ DOMAIN shadow = 1 .. Len(shadow)
    BY DEF TypeOK
<1>2. shadow' \in Seq(Shadow) /\ Len(shadow') = Len(shadow) + 1 /\ DOMAIN shadow' = 1 .. Len(shadow')
    BY <1>1
<1>3. 1 .. Len(shadow) + 1 = 1 .. Len(shadow) \cup {Len(shadow) + 1}
    BY <1>1
<1>4. shadow'[Len(shadow')] = t /\ \A i \in DOMAIN shadow : shadow'[i] = shadow[i]
    BY <1>1, <1>2
<1> QED BY <1>1, <1>2, <1>3, <1>4, PoolsAssumption

LEMMA SystemTyped ==
    ASSUME TypeOK, NEW made, Materialised(made) \/ UNCHANGED system PROVE system' \in 0 .. 1
BY DEF Materialised, TypeOK

LEMMA PosterTypes == ASSUME Typed, NEW s \in Slots, CommitPost(s) PROVE Typed'
<1> DEFINE t == [req[s].tx EXCEPT !.on = IF req[s].tx.reason = "inflow" THEN today ELSE 0]
<1>1. req[s].tx \in Shadow
    BY RequestFields DEF CommitPost, Typed, TypeOK
<1>2. t \in Shadow
  <2>1. (IF req[s].tx.reason = "inflow" THEN today ELSE 0) \in Days
      BY PoolsAssumption DEF Days, Typed, TypeOK
  <2> QED BY <1>1, <2>1 DEF Shadow
<1>3. Len(shadow) < MaxShadow /\ shadow' = Append(shadow, t)
    BY DEF CommitPost
<1> HIDE DEF t
<1>4. shadow' \in Seq(Shadow) /\ Len(shadow') <= MaxShadow /\ Len(shadow) <= Len(shadow')
    BY <1>2, <1>3, Appended DEF Typed
<1>5. req' \in [Slots -> Request] /\ overlap' \in BOOLEAN /\ FiresSawTheLedger'
    BY <1>4, ToSlot, IdleIsARequest DEF IdleFields, CommitPost, Typed
<1>6. system' \in 0 .. 1
    BY SystemTyped DEF CommitPost, Typed
<1> QED BY <1>4, <1>5, <1>6 DEF CommitPost, Typed, TypeOK

LEMMA MaxOfTwo == ASSUME NEW a \in Int PROVE Max({0, a}) = IF a > 0 THEN a ELSE 0
<1>1. Max({0, a}) = CHOOSE x \in {0, a} : \A y \in {0, a} : x >= y
    BY DEF Max
<1>2. \E x \in {0, a} : \A y \in {0, a} : x >= y
    OBVIOUS
<1> QED BY <1>1, <1>2

LEMMA AmountTyped ==
    ASSUME TypeOK, NEW rule \in Rule, NEW balance \in Int, NEW income \in SUBSET (DOMAIN shadow)
    PROVE  RefillAmount(rule, balance, income) \in Nat
<1>1. Total(income) \in Nat
  <2> DEFINE f == [i \in income |-> shadow[i].amount]
  <2>1. shadow \in Seq(Shadow) /\ DOMAIN shadow = 1 .. Len(shadow) /\ IsFiniteSet(1 .. Len(shadow))
      BY FS_Interval DEF TypeOK
  <2>2. IsFiniteSet(DOMAIN f)
      BY <2>1, FS_Subset
  <2>3. \A i \in DOMAIN shadow : shadow[i] \in Shadow
      BY <2>1
  <2>4. \A i \in DOMAIN f : f[i] \in Nat
      BY <2>3 DEF Shadow
  <2> HIDE DEF f
  <2>5. SumFunction(f) \in Nat
      BY <2>2, <2>4, SumTyped
  <2> QED BY <2>5 DEF Total, f
<1>2. rule.amount \in Nat /\ rule.kind \in {"none", "fixed", "fill", "percent"}
    BY DEF Rule
<1>3. Max({0, rule.amount - balance}) \in Nat
    BY <1>2, MaxOfTwo
<1> QED BY <1>1, <1>2, <1>3 DEF RefillAmount

(* What a fire has read of its balance when it computes its amount.         *)
Seen(s) == IF req[s].made THEN Balance(req[s].pool) ELSE req[s].saw
Due(s)  == IF req[s].live THEN RefillAmount(req[s].rule, Seen(s), req[s].income) ELSE 0
AutoRefill(s) == Tx("auto", "unallocated", req[s].pool, Due(s), 0)

LEMMA FireEffect ==
    ASSUME Typed, NEW s \in Slots, CommitFire(s)
    PROVE  /\ req[s].op = "fire" /\ req[s].pool \in Pools /\ Due(s) \in Nat
           /\ To(s, Fired(req[s])) /\ UNCHANGED <<pool, job, audit, today, counted, lost>>
           /\ \/ shadow' = shadow /\ Due(s) = 0
              \/ Len(shadow) < MaxShadow /\ shadow' = Append(shadow, AutoRefill(s)) /\ Due(s) # 0
           /\ AutoRefill(s) \in Shadow
           /\ \E made \in BOOLEAN : Materialised(made) \/ UNCHANGED system
<1>1. req[s].op = "fire" /\ req[s] \in Request
    BY DEF CommitFire, Typed, TypeOK
<1>2. /\ req[s].pool \in Pools /\ req[s].rule \in Rule /\ req[s].saw \in Int
      /\ req[s].made \in BOOLEAN /\ req[s].income \in SUBSET (DOMAIN shadow)
    BY <1>1, RequestFields DEF Typed, FiresSawTheLedger
<1>3. Seen(s) \in Int
    BY <1>2, BalanceTyped DEF Seen, Balance, Typed, TypeOK
<1>4. Due(s) \in Nat
    BY <1>2, <1>3, AmountTyped DEF Due, Typed
<1>5. AutoRefill(s) \in Shadow
    BY <1>2, <1>4, TxTyped, PoolsAssumption DEF AutoRefill, Sides, Days
<1>6. /\ To(s, Fired(req[s])) /\ UNCHANGED <<pool, job, audit, today, counted, lost>>
      /\ \/ shadow' = shadow /\ Due(s) = 0
         \/ Len(shadow) < MaxShadow /\ shadow' = Append(shadow, AutoRefill(s)) /\ Due(s) # 0
    BY DEF CommitFire, Seen, Due, AutoRefill
<1>7. Materialised(req[s].made) \/ UNCHANGED system
    BY DEF CommitFire
<1> QED BY <1>1, <1>2, <1>4, <1>5, <1>6, <1>7

LEMMA FireTypes == ASSUME Typed, NEW s \in Slots, CommitFire(s) PROVE Typed'
<1>1. shadow' \in Seq(Shadow) /\ Len(shadow') <= MaxShadow /\ Len(shadow) <= Len(shadow')
    BY FireEffect, Appended DEF Typed, TypeOK
<1>2. Fired(req[s]) \in Request /\ Fired(req[s]).op = "fired"
    BY FireEffect, RequestFields DEF Fired, Request, Typed, TypeOK
<1>3. Fired(req[s]).upto <= Len(shadow')
  <2>0. req[s].op = "fire" /\ req[s] \in Request
      BY FireEffect DEF Typed, TypeOK
  <2>1. req[s].upto \in Int /\ req[s].upto <= Len(shadow)
      BY <2>0, RequestFields DEF Typed, FiresSawTheLedger
  <2>2. Len(shadow) \in Int /\ Len(shadow') \in Int
      BY <1>1 DEF Typed, TypeOK
  <2> QED BY <1>1, <2>1, <2>2 DEF Fired
<1>4. req' \in [Slots -> Request] /\ overlap' \in BOOLEAN /\ FiresSawTheLedger'
    BY <1>1, <1>2, <1>3, FireEffect, ToSlot DEF Typed
<1>5. system' \in 0 .. 1
    BY FireEffect, SystemTyped DEF Typed, TypeOK
<1> QED BY <1>1, <1>4, <1>5, FireEffect DEF Typed, TypeOK

LEMMA TypeStep == Typed /\ [Next]_vars => Typed'
<1> SUFFICES ASSUME Typed, [Next]_vars PROVE Typed'
    OBVIOUS
<1>1. CASE \E e \in Envelopes : \/ CreateEnvelope(e) \/ DeactivateEnvelope(e)
                                \/ RedactEnvelope(e) \/ UpdateEnvelope(e)
    BY <1>1, RowTypes DEF Pools
<1>2. CASE \E f \in Funds : \/ CreateSinkingFund(f) \/ DeactivateSinkingFund(f)
                            \/ RedactSinkingFund(f) \/ UpdateSinkingFund(f)
    BY <1>2, RowTypes DEF Pools
<1>3. ASSUME NEW s \in Slots, NEW e \in Envelopes,
             \/ BeginUpdate(s, e) \/ BeginRefill(s, e) \/ BeginSchedule(s, e)
             \/ BeginCancel(s, e) \/ BeginFire(s, e)
      PROVE  Typed'
    BY <1>3, BeginTypes, PostTypes DEF Pools
<1>4. ASSUME NEW s \in Slots, NEW p \in Pools,
             BeginSpend(s, p) \/ \E q \in Pools : BeginTransfer(s, p, q)
      PROVE  Typed'
    BY <1>4, PostTypes
<1>5. ASSUME NEW s \in Slots,
             \/ BeginInflow(s) \/ CommitPost(s) \/ CommitUpdate(s) \/ Abort(s)
             \/ CommitSchedule(s) \/ RefuseSchedule(s) \/ CommitCancel(s) \/ CommitAudit(s)
             \/ CommitFire(s) \/ FailFire(s) \/ Advance(s)
      PROVE  Typed'
    BY <1>5, PostTypes, PosterTypes, CommitTypes, FireTypes
<1>6. CASE Tick
    BY <1>6, PoolsAssumption DEF Tick, Typed, TypeOK, FiresSawTheLedger, Days
<1>7. CASE UNCHANGED vars
    BY <1>7 DEF vars, Typed, TypeOK, FiresSawTheLedger
<1> QED BY <1>1, <1>2, <1>3, <1>4, <1>5, <1>6, <1>7 DEF Next

(* Every reachable state is well typed, and there is at most one row of each *)
(* system pool, whichever requests found none.                              *)
THEOREM TypeCorrect == Spec => []TypeOK
<1>1. Typed => TypeOK
    BY DEF Typed
<1> QED BY <1>1, TypeInit, TypeStep, PTL DEF Spec

-----------------------------------------------------------------------------
(* The audit trail of schedules.                                            *)

Pending(op, e) == \E s \in Slots : req[s].op = op /\ req[s].pool = e

(* What is missing in the trail is still to be written by a request in      *)
(* flight, unless one was lost; and no request takes a row back to where it *)
(* was not yet created or not yet cancelled.                                *)
AuditInv ==
    /\ \A e \in Pools :
          /\ "create" \in audit[e] => job[e].state # "none"
          /\ "cancel" \in audit[e] => job[e].state = "cancelled"
          /\ ~lost /\ job[e].state # "none" => "create" \in audit[e] \/ Pending("scheduled", e)
          /\ ~lost /\ job[e].state = "cancelled" => "cancel" \in audit[e] \/ Pending("cancelled", e)
    /\ \A s \in Slots :
          /\ req[s].op \in {"scheduled", "cancel"} => job[req[s].pool].state # "none"
          /\ req[s].op = "cancelled" => job[req[s].pool].state = "cancelled"

LEMMA AuditInit == Init => AuditInv
BY DEF Init, AuditInv, Idle

(* A request moves on and neither a row nor the trail changes.              *)
LEMMA AuditQuiet ==
    ASSUME Typed, AuditInv, NEW s \in Slots, \A u \in Slots \ {s} : req'[u] = req[u],
           \A e \in Pools : job'[e].state = job[e].state, UNCHANGED <<audit, lost>>,
           req[s].op \notin {"scheduled", "cancelled"},
           req'[s].op \notin {"scheduled", "cancelled"},
           req'[s].op = "cancel" => req'[s].pool \in Pools /\ job[req'[s].pool].state # "none"
    PROVE  AuditInv'
<1>0. req \in [Slots -> Request]
    BY DEF Typed, TypeOK
<1>1. \A op \in {"scheduled", "cancelled"}, e \in Pools : Pending(op, e) => Pending(op, e)'
    BY <1>0 DEF Pending
<1>2. ASSUME NEW u \in Slots
      PROVE  /\ req'[u].op \in {"scheduled", "cancel"} => job'[req'[u].pool].state # "none"
             /\ req'[u].op = "cancelled" => job'[req'[u].pool].state = "cancelled"
  <2>1. CASE u = s
      BY <2>1
  <2>2. CASE u # s
    <3>1. req'[u] = req[u] /\ req[u] \in Request
        BY <1>0, <2>2
    <3>2. req[u].op \in {"scheduled", "cancel", "cancelled"} => req[u].pool \in Pools
        BY <3>1, RequestFields
    <3> QED BY <3>1, <3>2 DEF AuditInv
  <2> QED BY <2>1, <2>2
<1> QED BY <1>1, <1>2 DEF AuditInv

(* A row or its trail changes as the request in s about it moves on.        *)
LEMMA AuditChange ==
    ASSUME Typed, AuditInv, NEW s \in Slots, NEW p \in Pools, req[s].pool = p,
           \A u \in Slots \ {s} : req'[u] = req[u],
           \A e \in Pools \ {p} : job'[e] = job[e] /\ audit'[e] = audit[e],
           lost' = lost,
           job[p].state # "none" => job'[p].state # "none",
           job[p].state = "cancelled" => job'[p].state = "cancelled",
           "create" \in audit'[p] => job'[p].state # "none",
           "cancel" \in audit'[p] => job'[p].state = "cancelled",
           ~lost /\ job'[p].state # "none" => "create" \in audit'[p] \/ Pending("scheduled", p)',
           ~lost /\ job'[p].state = "cancelled" => "cancel" \in audit'[p] \/ Pending("cancelled", p)',
           req'[s].op \in {"scheduled", "cancel"} => job'[req'[s].pool].state # "none",
           req'[s].op = "cancelled" => job'[req'[s].pool].state = "cancelled"
    PROVE  AuditInv'
<1>0. req \in [Slots -> Request]
    BY DEF Typed, TypeOK
<1>1. \A op \in {"scheduled", "cancelled"}, e \in Pools \ {p} : Pending(op, e) => Pending(op, e)'
    BY <1>0 DEF Pending
<1>2. ASSUME NEW u \in Slots
      PROVE  /\ req'[u].op \in {"scheduled", "cancel"} => job'[req'[u].pool].state # "none"
             /\ req'[u].op = "cancelled" => job'[req'[u].pool].state = "cancelled"
  <2>1. CASE u = s
      BY <2>1
  <2>2. CASE u # s
    <3>1. req'[u] = req[u] /\ req[u] \in Request
        BY <1>0, <2>2
    <3>2. req[u].op \in {"scheduled", "cancel", "cancelled"} => req[u].pool \in Pools
        BY <3>1, RequestFields
    <3>3. /\ req[u].op \in {"scheduled", "cancel"} => job[req[u].pool].state # "none"
          /\ req[u].op = "cancelled" => job[req[u].pool].state = "cancelled"
        BY DEF AuditInv
    <3>4. CASE req[u].pool = p
        BY <3>1, <3>3, <3>4
    <3>5. CASE req[u].pool # p
      <4>1. req[u].op \in {"scheduled", "cancel", "cancelled"} => job'[req[u].pool] = job[req[u].pool]
          BY <3>2, <3>5
      <4> QED BY <3>1, <3>3, <4>1
    <3> QED BY <3>4, <3>5
  <2> QED BY <2>1, <2>2
<1>3. ASSUME NEW e \in Pools
      PROVE  /\ "create" \in audit'[e] => job'[e].state # "none"
             /\ "cancel" \in audit'[e] => job'[e].state = "cancelled"
             /\ ~lost' /\ job'[e].state # "none" =>
                   "create" \in audit'[e] \/ Pending("scheduled", e)'
             /\ ~lost' /\ job'[e].state = "cancelled" =>
                   "cancel" \in audit'[e] \/ Pending("cancelled", e)'
  <2>1. CASE e = p
      BY <2>1
  <2>2. CASE e # p
    <3>1. job'[e] = job[e] /\ audit'[e] = audit[e]
        BY <2>2
    <3> QED BY <1>1, <2>2, <3>1 DEF AuditInv
  <2> QED BY <2>1, <2>2
<1> QED BY <1>2, <1>3 DEF AuditInv

(* What the request in s had to write to the trail of p it has written, or  *)
(* it still has to.                                                         *)
LEMMA AuditHere ==
    ASSUME Typed, NEW s \in Slots, NEW p \in Pools,
           \A u \in Slots \ {s} : req'[u] = req[u],
           \A act \in {"create", "cancel"} : act \in audit[p] => act \in audit'[p],
           req[s].op = "scheduled" => "create" \in audit'[p],
           req[s].op = "cancelled" => "cancel" \in audit'[p]
    PROVE  /\ "create" \in audit[p] \/ Pending("scheduled", p) =>
                 "create" \in audit'[p] \/ Pending("scheduled", p)'
           /\ "cancel" \in audit[p] \/ Pending("cancelled", p) =>
                 "cancel" \in audit'[p] \/ Pending("cancelled", p)'
BY DEF Pending

LEMMA AuditCommits ==
    ASSUME Typed, AuditInv, NEW s \in Slots
    PROVE  /\ CommitSchedule(s) => AuditInv'
           /\ CommitCancel(s) => AuditInv'
           /\ CommitAudit(s) => AuditInv'
           /\ FailFire(s) => AuditInv'
           /\ Abort(s) => AuditInv'
<1>0. /\ req \in [Slots -> Request] /\ req[s] \in Request
      /\ job \in [Pools -> [state : {"none", "active", "cancelled", "dead"},
                            last : Days \cup {Never}]]
      /\ audit \in [Pools -> SUBSET {"create", "cancel"}]
    BY DEF Typed, TypeOK
<1>a. ASSUME NEW r, To(s, r) PROVE req'[s] = r /\ \A u \in Slots \ {s} : req'[u] = req[u]
    BY <1>0, <1>a DEF To
<1>b. ASSUME NEW p \in Pools, NEW state, SetJob(p, state)
      PROVE  /\ job'[p].state = state /\ \A e \in Pools \ {p} : job'[e] = job[e]
             /\ UNCHANGED <<audit, lost>>
    BY <1>0, <1>b DEF SetJob
<1>1. ASSUME CommitSchedule(s) PROVE AuditInv'
  <2>1. PICK p \in Pools : p = req[s].pool
      BY <1>0, <1>1, RequestFields DEF CommitSchedule
  <2>2. /\ req[s].op = "schedule" /\ job[p].state = "none" /\ SetJob(p, "active")
        /\ To(s, [op |-> "scheduled", pool |-> p])
      BY <1>1, <2>1 DEF CommitSchedule
  <2>3. req'[s].op = "scheduled" /\ req'[s].pool = p /\ \A u \in Slots \ {s} : req'[u] = req[u]
      BY <1>a, <2>2
  <2>4. /\ job'[p].state = "active" /\ \A e \in Pools \ {p} : job'[e] = job[e]
        /\ UNCHANGED <<audit, lost>>
      BY <1>b, <2>2
  <2>5. Pending("scheduled", p)'
      BY <2>3 DEF Pending
  <2>6. "create" \notin audit'[p] /\ "cancel" \notin audit'[p]
      BY <2>2, <2>4 DEF AuditInv
  <2> QED BY <2>1, <2>2, <2>3, <2>4, <2>5, <2>6, AuditChange
<1>2. ASSUME CommitCancel(s) PROVE AuditInv'
  <2>1. PICK p \in Pools : p = req[s].pool
      BY <1>0, <1>2, RequestFields DEF CommitCancel
  <2>2. /\ req[s].op = "cancel" /\ job[p].state # "none" /\ SetJob(p, "cancelled")
        /\ To(s, [op |-> "cancelled", pool |-> p])
      BY <1>2, <2>1 DEF CommitCancel, AuditInv
  <2>3. req'[s].op = "cancelled" /\ req'[s].pool = p /\ \A u \in Slots \ {s} : req'[u] = req[u]
      BY <1>a, <2>2
  <2>4. /\ job'[p].state = "cancelled" /\ \A e \in Pools \ {p} : job'[e] = job[e]
        /\ UNCHANGED <<audit, lost>>
      BY <1>b, <2>2
  <2>5. Pending("cancelled", p)'
      BY <2>3 DEF Pending
  <2>6. "create" \in audit[p] \/ Pending("scheduled", p) =>
           "create" \in audit'[p] \/ Pending("scheduled", p)'
      BY <2>2, <2>3, <2>4, AuditHere
  <2>7. ~lost => "create" \in audit'[p] \/ Pending("scheduled", p)'
      BY <2>2, <2>6 DEF AuditInv
  <2> QED BY <2>1, <2>2, <2>3, <2>4, <2>5, <2>7, AuditChange
<1>3. ASSUME CommitAudit(s) PROVE AuditInv'
  <2> DEFINE act == IF req[s].op = "scheduled" THEN "create" ELSE "cancel"
  <2>1. PICK p \in Pools : p = req[s].pool
      BY <1>0, <1>3, RequestFields DEF CommitAudit
  <2>2. /\ req[s].op \in {"scheduled", "cancelled"} /\ To(s, Idle) /\ UNCHANGED <<job, lost>>
        /\ audit' = [audit EXCEPT ![p] = @ \cup {act}]
      BY <1>3, <2>1 DEF CommitAudit
  <2>3. req'[s] = Idle /\ \A u \in Slots \ {s} : req'[u] = req[u]
      BY <1>a, <2>2
  <2>4. audit'[p] = audit[p] \cup {act} /\ \A e \in Pools \ {p} : audit'[e] = audit[e]
      BY <1>0, <2>2
  <2>5. /\ "create" \in audit[p] \/ Pending("scheduled", p) =>
              "create" \in audit'[p] \/ Pending("scheduled", p)'
        /\ "cancel" \in audit[p] \/ Pending("cancelled", p) =>
              "cancel" \in audit'[p] \/ Pending("cancelled", p)'
      BY <2>2, <2>3, <2>4, AuditHere
  <2>6. /\ "create" \in audit'[p] => job[p].state # "none"
        /\ "cancel" \in audit'[p] => job[p].state = "cancelled"
      BY <2>1, <2>2, <2>4 DEF AuditInv
  <2>7. /\ ~lost /\ job[p].state # "none" => "create" \in audit'[p] \/ Pending("scheduled", p)'
        /\ ~lost /\ job[p].state = "cancelled" => "cancel" \in audit'[p] \/ Pending("cancelled", p)'
      BY <2>5 DEF AuditInv
  <2>8. req'[s].op = "idle"
      BY <2>3 DEF Idle
  <2> HIDE DEF act
  <2> QED BY <2>1, <2>2, <2>3, <2>4, <2>6, <2>7, <2>8, AuditChange
<1>4. ASSUME FailFire(s) PROVE AuditInv'
  <2>1. PICK p \in Pools : p = req[s].pool
      BY <1>0, <1>4, RequestFields DEF FailFire
  <2>2. req[s].op = "fire" /\ To(s, Idle)
      BY <1>4 DEF FailFire
  <2>3. PICK state : /\ state = job[p].state \/ (job[p].state = "active" /\ state = "dead")
                     /\ SetJob(p, state)
      BY <1>4, <2>1 DEF FailFire
  <2>4. req'[s].op = "idle" /\ \A u \in Slots \ {s} : req'[u] = req[u]
      BY <1>a, <2>2 DEF Idle
  <2>5. /\ job'[p].state = state /\ \A e \in Pools \ {p} : job'[e] = job[e]
        /\ UNCHANGED <<audit, lost>>
      BY <1>b, <2>3
  <2>6. /\ "create" \in audit[p] \/ Pending("scheduled", p) =>
              "create" \in audit'[p] \/ Pending("scheduled", p)'
        /\ "cancel" \in audit[p] \/ Pending("cancelled", p) =>
              "cancel" \in audit'[p] \/ Pending("cancelled", p)'
      BY <2>2, <2>4, <2>5, AuditHere
  <2>7. /\ "create" \in audit[p] => job'[p].state # "none"
        /\ "cancel" \in audit[p] => job'[p].state = "cancelled"
      BY <2>3, <2>5 DEF AuditInv
  <2>8. /\ ~lost /\ job'[p].state # "none" => "create" \in audit'[p] \/ Pending("scheduled", p)'
        /\ ~lost /\ job'[p].state = "cancelled" => "cancel" \in audit'[p] \/ Pending("cancelled", p)'
      BY <2>3, <2>5, <2>6 DEF AuditInv
  <2> QED BY <2>1, <2>3, <2>4, <2>5, <2>7, <2>8, AuditChange
<1>5. ASSUME Abort(s) PROVE AuditInv'
  <2>1. To(s, Idle) /\ UNCHANGED <<job, audit>>
        /\ lost' = (lost \/ req[s].op \in {"scheduled", "cancelled", "fired"})
      BY <1>5 DEF Abort
  <2>2. req'[s].op = "idle" /\ \A u \in Slots \ {s} : req'[u] = req[u]
      BY <1>a, <2>1 DEF Idle
  <2>3. CASE req[s].op \notin {"scheduled", "cancelled"} /\ lost' = lost
      BY <2>1, <2>2, <2>3, AuditQuiet
  <2>4. CASE lost'
    <3>1. \A u \in Slots : req'[u].op = "idle" \/ req'[u] = req[u]
        BY <2>2
    <3> QED BY <2>1, <2>4, <3>1 DEF AuditInv
  <2>5. lost \in BOOLEAN /\ lost' \in BOOLEAN
      BY <2>1 DEF Typed, TypeOK
  <2>6. lost' \/ (lost' = lost /\ req[s].op \notin {"scheduled", "cancelled"})
      BY <2>1, <2>5
  <2> QED BY <2>3, <2>4, <2>6
<1> QED BY <1>1, <1>2, <1>3, <1>4, <1>5

(* The other steps of a request.                                            *)
LEMMA AuditBegins ==
    ASSUME Typed, AuditInv, NEW s \in Slots, NEW r, Begin(s, r),
           r.op \notin {"scheduled", "cancelled"},
           r.op = "cancel" => r.pool \in Pools /\ job[r.pool].state # "none"
    PROVE  AuditInv'
<1>1. /\ req'[s] = r /\ \A u \in Slots \ {s} : req'[u] = req[u]
      /\ req[s].op = "idle" /\ UNCHANGED <<job, audit, lost>>
    BY DEF Begin, Typed, TypeOK, Idle
<1> QED BY <1>1, AuditQuiet

LEMMA AuditMoves ==
    ASSUME Typed, AuditInv, NEW s \in Slots, NEW r, To(s, r), r.op \in {"idle", "fired"},
           \A e \in Pools : job'[e].state = job[e].state, UNCHANGED <<audit, lost>>,
           req[s].op \notin {"scheduled", "cancelled"}
    PROVE  AuditInv'
<1>1. req'[s] = r /\ \A u \in Slots \ {s} : req'[u] = req[u]
    BY DEF To, Typed, TypeOK
<1> QED BY <1>1, AuditQuiet

LEMMA AuditStep == Typed /\ AuditInv /\ [Next]_vars => AuditInv'
<1> SUFFICES ASSUME Typed, AuditInv, [Next]_vars PROVE AuditInv'
    OBVIOUS
<1>0. ASSUME UNCHANGED <<job, audit, req, lost>> PROVE AuditInv'
    BY <1>0 DEF AuditInv, Pending
<1>1. CASE \E e \in Envelopes : \/ CreateEnvelope(e) \/ DeactivateEnvelope(e)
                                \/ RedactEnvelope(e) \/ UpdateEnvelope(e)
    BY <1>0, <1>1 DEF CreateEnvelope, DeactivateEnvelope, RedactEnvelope, UpdateEnvelope,
                      Deactivate, Redact, Rename, AtOnce
<1>2. CASE \E f \in Funds : \/ CreateSinkingFund(f) \/ DeactivateSinkingFund(f)
                            \/ RedactSinkingFund(f) \/ UpdateSinkingFund(f)
    BY <1>0, <1>2 DEF CreateSinkingFund, DeactivateSinkingFund, RedactSinkingFund,
                      UpdateSinkingFund, Deactivate, Redact, Rename, AtOnce
<1>3. ASSUME NEW s \in Slots, NEW t, BeginPost(s, t) PROVE AuditInv'
    BY <1>3, AuditBegins DEF BeginPost
<1>4. ASSUME NEW s \in Slots, NEW e \in Pools,
             BeginUpdate(s, e) \/ BeginSchedule(s, e) \/ BeginCancel(s, e) \/ BeginFire(s, e)
      PROVE  AuditInv'
  <2>1. CASE BeginUpdate(s, e)
      BY <2>1, AuditBegins DEF BeginUpdate
  <2>2. CASE BeginSchedule(s, e)
      BY <2>2, AuditBegins DEF BeginSchedule
  <2>3. CASE BeginCancel(s, e)
      BY <2>3, AuditBegins DEF BeginCancel
  <2>4. CASE BeginFire(s, e)
      BY <2>4, AuditBegins DEF BeginFire
  <2> QED BY <1>4, <2>1, <2>2, <2>3, <2>4
<1>5. ASSUME NEW s \in Slots, CommitPost(s) \/ CommitUpdate(s) \/ RefuseSchedule(s)
      PROVE  AuditInv'
    BY <1>5, AuditMoves DEF CommitPost, CommitUpdate, RefuseSchedule, Idle
<1>6. ASSUME NEW s \in Slots, CommitFire(s) PROVE AuditInv'
    BY <1>6, AuditMoves DEF CommitFire, Fired
<1>7. ASSUME NEW s \in Slots, Advance(s) PROVE AuditInv'
  <2>1. \A e \in Pools : job'[e].state = job[e].state
      BY <1>7 DEF Advance, Typed, TypeOK
  <2>2. To(s, Idle) /\ req[s].op = "fired" /\ UNCHANGED <<audit, lost>>
      BY <1>7 DEF Advance
  <2> QED BY <2>1, <2>2, AuditMoves DEF Idle
<1>8. ASSUME NEW s \in Slots,
             \/ Abort(s) \/ CommitSchedule(s) \/ CommitCancel(s) \/ CommitAudit(s) \/ FailFire(s)
      PROVE  AuditInv'
    BY <1>8, AuditCommits
<1>9. CASE Tick
    BY <1>0, <1>9 DEF Tick
<1>10. CASE UNCHANGED vars
    BY <1>0, <1>10 DEF vars
<1>11. ASSUME NEW s \in Slots,
              \/ BeginInflow(s) \/ \E e \in Envelopes : BeginRefill(s, e)
              \/ \E p \in Pools : BeginSpend(s, p) \/ \E q \in Pools : BeginTransfer(s, p, q)
       PROVE  AuditInv'
    BY <1>3, <1>11 DEF BeginInflow, BeginRefill, BeginSpend, BeginTransfer
<1> QED BY <1>1, <1>2, <1>4, <1>5, <1>6, <1>7, <1>8, <1>9, <1>10, <1>11 DEF Next, Pools

(* Between the two commits of a request, or after one of them was lost, the *)
(* trail of a schedule may lack its last entry; else it says what the rows  *)
(* say, for any number of requests.                                         *)
THEOREM SchedulesAudited == Spec => []SchedulesAreAudited
<1>1. AuditInv => SchedulesAreAudited
    BY DEF AuditInv, SchedulesAreAudited, Pending
<1> QED BY <1>1, TypeInit, TypeStep, AuditInit, AuditStep, PTL DEF Spec

-----------------------------------------------------------------------------
(* Requests served one at a time.                                           *)

Inflow(t) == t.reason = "inflow"

(* Of requests that never overlap, what the one in flight has read is what  *)
(* there is, and the inflows that the last served fire of a pool has not    *)
(* seen were committed since that fire's day.                               *)
OneAtATime == \A s, u \in Slots : req[s] # Idle /\ req[u] # Idle => s = u

Fresh(s) ==
    /\ req[s].op = "post" /\ req[s].tx.reason # "refill" => Live(req[s].tx)
    /\ req[s].op = "fire" => /\ req[s].live => Active(req[s].pool)
                             /\ req[s].saw = Balance(req[s].pool)
                             /\ req[s].upto = Len(shadow)
    /\ req[s].op = "fired" => \A i \in DOMAIN shadow : i > req[s].upto => ~Inflow(shadow[i])

Windows ==
    \A p \in Pools, i \in DOMAIN shadow :
        job[p].last # Never /\ i > counted[p] /\ Inflow(shadow[i]) =>
           shadow[i].on >= job[p].last

Calm == OneAtATime /\ (\A s \in Slots : Fresh(s)) /\ Windows

RunsArePast == \A p \in Pools : job[p].last # Never => job[p].last <= today

CalmInv == RunsArePast /\ (overlap \/ Calm)

LEMMA CalmInit == Init => CalmInv
BY DEF Init, CalmInv, RunsArePast, Calm, OneAtATime, Fresh, Windows, Idle

LEMMA IdleIsFresh == ASSUME NEW s, req[s] = Idle PROVE Fresh(s)
BY DEF Fresh, Idle

(* A row is written at once: no other request is in flight.                 *)
LEMMA CalmAtOnce ==
    ASSUME Typed, CalmInv, NEW p, NEW row, AtOnce(p, row) PROVE CalmInv'
<1>1. UNCHANGED <<shadow, job, counted, req, today>> /\ overlap' = (overlap \/ Busy)
    BY DEF AtOnce
<1>2. RunsArePast'
    BY <1>1 DEF CalmInv, RunsArePast
<1>3. ASSUME ~overlap' PROVE Calm'
  <2>1. ~overlap /\ \A u \in Slots : req'[u] = Idle
      BY <1>1, <1>3 DEF Busy
  <2>2. \A u \in Slots : Fresh(u)'
      BY <2>1, IdleIsFresh DEF Fresh, Idle
  <2> QED BY <1>1, <2>1, <2>2 DEF Calm, CalmInv, OneAtATime, Windows
<1> QED BY <1>2, <1>3 DEF CalmInv

(* A request begins: the others are idle, unless there is an overlap.       *)
LEMMA CalmBegins ==
    ASSUME Typed, CalmInv, NEW s \in Slots, NEW r, Begin(s, r),
           r.op \in {"post", "update", "schedule", "cancel", "fire"},
           r.op = "post" /\ r.tx.reason # "refill" => Live(r.tx),
           r.op = "fire" => /\ r.live => Active(r.pool)
                            /\ r.saw = Balance(r.pool)
                            /\ r.upto = Len(shadow)
    PROVE  CalmInv'
<1>1. /\ UNCHANGED <<pool, shadow, job, counted, today>> /\ overlap' = (overlap \/ Meets(s))
      /\ req'[s] = r /\ \A u \in Slots \ {s} : req'[u] = req[u]
    BY DEF Begin, Typed, TypeOK
<1>2. RunsArePast'
    BY <1>1 DEF CalmInv, RunsArePast
<1>3. ASSUME ~overlap' PROVE Calm'
  <2>1. ~overlap /\ \A u \in Slots \ {s} : req'[u] = Idle
      BY <1>1, <1>3 DEF Meets
  <2>2. \A u \in Slots \ {s} : Fresh(u)'
      BY <2>1 DEF Fresh, Idle
  <2>3. Fresh(s)'
      BY <1>1 DEF Fresh, Live, Active, Balance, BalanceIn
  <2>4. Windows'
      BY <1>1, <2>1 DEF CalmInv, Calm, Windows
  <2>5. OneAtATime'
      BY <2>1 DEF OneAtATime
  <2> QED BY <2>2, <2>3, <2>4, <2>5 DEF Calm
<1> QED BY <1>2, <1>3 DEF CalmInv

(* The request in flight moves on: it was the only one.                     *)
LEMMA CalmMoves ==
    ASSUME Typed, CalmInv, NEW s \in Slots, NEW r, req[s] # Idle, To(s, r),
           r.op \in {"idle", "scheduled", "cancelled", "fired"},
           RunsArePast', ~overlap => Windows',
           ~overlap /\ r.op = "fired" =>
              \A i \in DOMAIN shadow' : i > r.upto => ~Inflow(shadow'[i])
    PROVE  CalmInv'
<1>1. overlap' = overlap /\ req'[s] = r /\ \A u \in Slots \ {s} : req'[u] = req[u]
    BY DEF To, Typed, TypeOK
<1>2. ASSUME ~overlap' PROVE Calm'
  <2>1. \A u \in Slots \ {s} : req'[u] = Idle
      BY <1>1, <1>2 DEF CalmInv, Calm, OneAtATime
  <2>2. \A u \in Slots \ {s} : Fresh(u)'
      BY <2>1 DEF Fresh, Idle
  <2>3. Fresh(s)'
      BY <1>1, <1>2 DEF Fresh, Inflow
  <2>4. OneAtATime'
      BY <2>1 DEF OneAtATime
  <2> QED BY <1>1, <1>2, <2>2, <2>3, <2>4 DEF Calm
<1> QED BY <1>2 DEF CalmInv

LEMMA CalmStays ==
    ASSUME Typed, CalmInv, NEW s \in Slots, NEW r, req[s] # Idle, To(s, r),
           r.op \in {"idle", "scheduled", "cancelled"},
           \A p \in Pools : job'[p].last = job[p].last, UNCHANGED <<shadow, counted, today>>
    PROVE  CalmInv'
<1>1. RunsArePast'
    BY DEF CalmInv, RunsArePast
<1>2. ~overlap => Windows'
    BY DEF CalmInv, Calm, Windows
<1> QED BY <1>1, <1>2, CalmMoves

(* A transaction is posted: an inflow of today, or none.                    *)
LEMMA WindowsGrow ==
    ASSUME Typed, RunsArePast, Windows, NEW t \in Shadow, Len(shadow) < MaxShadow,
           shadow' = Append(shadow, t), Inflow(t) => t.on = today,
           UNCHANGED <<job, counted, today>>
    PROVE  Windows'
<1> DEFINE n == Len(shadow')
<1>1. /\ DOMAIN shadow' = DOMAIN shadow \cup {n} /\ shadow'[n] = t
      /\ \A i \in DOMAIN shadow : shadow'[i] = shadow[i]
    BY Appended DEF Typed
<1>2. today \in Nat /\ \A p \in Pools : job[p].last \in Days \cup {Never}
    BY PoolsAssumption DEF Typed, TypeOK, Days
<1>3. ASSUME NEW p \in Pools, NEW i \in DOMAIN shadow', job[p].last # Never,
             i > counted[p], Inflow(shadow'[i])
      PROVE  shadow'[i].on >= job[p].last
  <2>1. CASE i \in DOMAIN shadow
      BY <1>1, <1>3, <2>1 DEF Windows
  <2>2. CASE i = n
    <3>1. shadow'[i].on = today
        BY <1>1, <1>3, <2>2
    <3>2. job[p].last <= today /\ job[p].last \in Int
        BY <1>2, <1>3, PoolsAssumption DEF RunsArePast, Days
    <3> QED BY <1>2, <3>1, <3>2
  <2> QED BY <1>1, <2>1, <2>2
<1> QED BY <1>3 DEF Windows

LEMMA CalmPost == ASSUME Typed, CalmInv, NEW s \in Slots, CommitPost(s) PROVE CalmInv'
<1> DEFINE t == [req[s].tx EXCEPT !.on = IF req[s].tx.reason = "inflow" THEN today ELSE 0]
<1>1. req[s].tx \in Shadow /\ req[s] # Idle
    BY RequestFields DEF CommitPost, Typed, TypeOK, Idle
<1>2. t \in Shadow /\ (Inflow(t) => t.on = today)
  <2>1. (IF req[s].tx.reason = "inflow" THEN today ELSE 0) \in Days
      BY PoolsAssumption DEF Days, Typed, TypeOK
  <2> QED BY <1>1, <2>1 DEF Shadow, Inflow
<1>3. Len(shadow) < MaxShadow /\ shadow' = Append(shadow, t)
    BY DEF CommitPost
<1>4. UNCHANGED <<job, counted, today>> /\ To(s, Idle)
    BY DEF CommitPost
<1> HIDE DEF t
<1>5. ~overlap => Windows'
    BY <1>2, <1>3, <1>4, WindowsGrow DEF CalmInv, Calm
<1>6. RunsArePast'
    BY <1>4 DEF CalmInv, RunsArePast
<1> QED BY <1>1, <1>4, <1>5, <1>6, CalmMoves DEF Idle

LEMMA CalmFire == ASSUME Typed, CalmInv, NEW s \in Slots, CommitFire(s) PROVE CalmInv'
<1>1. /\ req[s].op = "fire" /\ req[s] # Idle /\ To(s, Fired(req[s]))
      /\ UNCHANGED <<job, counted, today>>
    BY FireEffect DEF Idle
<1>2. \/ shadow' = shadow
      \/ Len(shadow) < MaxShadow /\ shadow' = Append(shadow, AutoRefill(s))
    BY FireEffect
<1>3. AutoRefill(s) \in Shadow /\ ~Inflow(AutoRefill(s))
    BY FireEffect DEF AutoRefill, Tx, Inflow
<1>4. ~overlap => Windows'
  <2>1. CASE shadow' = shadow
      BY <1>1, <2>1 DEF CalmInv, Calm, Windows
  <2>2. CASE Len(shadow) < MaxShadow /\ shadow' = Append(shadow, AutoRefill(s))
      BY <1>1, <1>3, <2>2, WindowsGrow DEF CalmInv, Calm
  <2> QED BY <1>2, <2>1, <2>2
<1>5. RunsArePast'
    BY <1>1 DEF CalmInv, RunsArePast
<1>6. ASSUME ~overlap, NEW i \in DOMAIN shadow', i > req[s].upto PROVE ~Inflow(shadow'[i])
  <2>1. req[s].upto = Len(shadow) /\ shadow \in Seq(Shadow)
      BY <1>1, <1>6 DEF CalmInv, Calm, Fresh, Typed, TypeOK
  <2>2. CASE shadow' = shadow
      BY <1>6, <2>1, <2>2
  <2>3. CASE Len(shadow) < MaxShadow /\ shadow' = Append(shadow, AutoRefill(s))
    <3>1. DOMAIN shadow = 1 .. Len(shadow) /\ Len(shadow) \in Nat
        BY <2>1
    <3>2. i \notin DOMAIN shadow
        BY <1>6, <2>1, <3>1
    <3>3. shadow'[i] = AutoRefill(s)
        BY <1>3, <2>3, <3>2, Appended DEF Typed
    <3> QED BY <1>3, <3>3
  <2> QED BY <1>2, <2>2, <2>3
<1>7. Fired(req[s]).op = "fired" /\ Fired(req[s]).upto = req[s].upto
    BY DEF Fired
<1> QED BY <1>1, <1>4, <1>5, <1>6, <1>7, CalmMoves

LEMMA CalmAdvance == ASSUME Typed, CalmInv, NEW s \in Slots, Advance(s) PROVE CalmInv'
<1>1. PICK e \in Pools : e = req[s].pool
    BY RequestFields DEF Advance, Typed, TypeOK
<1>2. /\ req[s].op = "fired" /\ req[s] # Idle /\ To(s, Idle) /\ UNCHANGED <<shadow, today>>
      /\ job' = [job EXCEPT ![e].last = today] /\ counted' = [counted EXCEPT ![e] = req[s].upto]
    BY <1>1 DEF Advance, Idle
<1>3. /\ job'[e].last = today /\ counted'[e] = req[s].upto
      /\ \A p \in Pools \ {e} : job'[p] = job[p] /\ counted'[p] = counted[p]
    BY <1>2 DEF Typed, TypeOK
<1>4. RunsArePast'
  <2>1. today <= today
      BY PoolsAssumption DEF Typed, TypeOK, Days
  <2> QED BY <1>2, <1>3, <2>1 DEF CalmInv, RunsArePast
<1>5. ASSUME ~overlap PROVE Windows'
  <2>1. \A i \in DOMAIN shadow : i > req[s].upto => ~Inflow(shadow[i])
      BY <1>2, <1>5 DEF CalmInv, Calm, Fresh
  <2>2. Windows
      BY <1>5 DEF CalmInv, Calm
  <2>3. ASSUME NEW p \in Pools, NEW i \in DOMAIN shadow, job'[p].last # Never,
               i > counted'[p], Inflow(shadow[i])
        PROVE  shadow[i].on >= job'[p].last
    <3>1. CASE p = e
        BY <1>3, <2>1, <2>3, <3>1
    <3>2. CASE p # e
        BY <1>3, <2>2, <2>3, <3>2 DEF Windows
    <3> QED BY <3>1, <3>2
  <2> QED BY <1>2, <2>3 DEF Windows, Inflow
<1> QED BY <1>2, <1>4, <1>5, CalmMoves DEF Idle

LEMMA CalmCommits ==
    ASSUME Typed, CalmInv, NEW s \in Slots,
           \/ CommitUpdate(s) \/ Abort(s) \/ CommitSchedule(s) \/ RefuseSchedule(s)
           \/ CommitCancel(s) \/ CommitAudit(s) \/ FailFire(s)
    PROVE  CalmInv'
<1>0. \A e, state : SetJob(e, state) =>
           (\A p \in Pools : job'[p].last = job[p].last) /\ UNCHANGED <<shadow, counted, today>>
    BY DEF SetJob, Typed, TypeOK
<1>1. CASE CommitUpdate(s) \/ Abort(s) \/ RefuseSchedule(s) \/ CommitAudit(s)
  <2>1. /\ req[s] # Idle /\ To(s, Idle) /\ UNCHANGED <<job, shadow, counted, today>>
      BY <1>1 DEF CommitUpdate, Abort, RefuseSchedule, CommitAudit, Idle
  <2> QED BY <2>1, CalmStays DEF Idle
<1>2. CASE CommitSchedule(s)
  <2>1. req[s] # Idle /\ To(s, [op |-> "scheduled", pool |-> req[s].pool])
      BY <1>2 DEF CommitSchedule, Idle
  <2> QED BY <1>0, <1>2, <2>1, CalmStays DEF CommitSchedule
<1>3. CASE CommitCancel(s)
  <2>1. req[s] # Idle /\ To(s, [op |-> "cancelled", pool |-> req[s].pool])
      BY <1>3 DEF CommitCancel, Idle
  <2> QED BY <1>0, <1>3, <2>1, CalmStays DEF CommitCancel
<1>4. CASE FailFire(s)
  <2>1. req[s] # Idle /\ To(s, Idle) /\ \E state : SetJob(req[s].pool, state)
      BY <1>4 DEF FailFire, Idle
  <2> QED BY <1>0, <2>1, CalmStays DEF Idle
<1> QED BY <1>1, <1>2, <1>3, <1>4

(* Every transaction that a caller asks for moves money between live pools  *)
(* when it is asked for, but for a user's refill.                           *)
LEMMA CalmPosters ==
    ASSUME Typed, CalmInv, NEW s \in Slots
    PROVE  /\ BeginInflow(s) => CalmInv'
           /\ \A p \in Pools : BeginRefill(s, p) \/ BeginSpend(s, p) => CalmInv'
           /\ \A p, q \in Pools : BeginTransfer(s, p, q) => CalmInv'
<1>0. ASSUME NEW t, BeginPost(s, t), t.reason # "refill" => Live(t) PROVE CalmInv'
    BY <1>0, CalmBegins DEF BeginPost
<1>1. ASSUME BeginInflow(s) PROVE CalmInv'
    BY <1>0, <1>1, PoolsAssumption DEF BeginInflow, Tx, Live
<1>2. ASSUME NEW p \in Pools, BeginRefill(s, p) PROVE CalmInv'
    BY <1>0, <1>2 DEF BeginRefill, Tx
<1>3. ASSUME NEW p \in Pools, BeginSpend(s, p) PROVE CalmInv'
    BY <1>0, <1>3, PoolsAssumption DEF BeginSpend, Tx, Live
<1>4. ASSUME NEW p \in Pools, NEW q \in Pools, BeginTransfer(s, p, q) PROVE CalmInv'
    BY <1>0, <1>4, PoolsAssumption DEF BeginTransfer, Tx, Live
<1> QED BY <1>1, <1>2, <1>3, <1>4

LEMMA CalmStep == Typed /\ CalmInv /\ [Next]_vars => CalmInv'
<1> SUFFICES ASSUME Typed, CalmInv, [Next]_vars PROVE CalmInv'
    OBVIOUS
<1>1. CASE \E e \in Envelopes : \/ CreateEnvelope(e) \/ DeactivateEnvelope(e)
                                \/ RedactEnvelope(e) \/ UpdateEnvelope(e)
    BY <1>1, CalmAtOnce DEF CreateEnvelope, DeactivateEnvelope, RedactEnvelope,
                            UpdateEnvelope, Deactivate, Redact, Rename
<1>2. CASE \E f \in Funds : \/ CreateSinkingFund(f) \/ DeactivateSinkingFund(f)
                            \/ RedactSinkingFund(f) \/ UpdateSinkingFund(f)
    BY <1>2, CalmAtOnce DEF CreateSinkingFund, DeactivateSinkingFund, RedactSinkingFund,
                            UpdateSinkingFund, Deactivate, Redact, Rename
<1>3. ASSUME NEW s \in Slots, NEW e \in Pools,
             BeginUpdate(s, e) \/ BeginSchedule(s, e) \/ BeginCancel(s, e) \/ BeginFire(s, e)
      PROVE  CalmInv'
  <2>1. CASE BeginUpdate(s, e)
      BY <2>1, CalmBegins DEF BeginUpdate
  <2>2. CASE BeginSchedule(s, e)
      BY <2>2, CalmBegins DEF BeginSchedule
  <2>3. CASE BeginCancel(s, e)
      BY <2>3, CalmBegins DEF BeginCancel
  <2>4. CASE BeginFire(s, e)
      BY <2>4, CalmBegins DEF BeginFire
  <2> QED BY <1>3, <2>1, <2>2, <2>3, <2>4
<1>4. ASSUME NEW s \in Slots,
             \/ BeginInflow(s) \/ \E e \in Pools : BeginRefill(s, e)
             \/ \E p \in Pools : BeginSpend(s, p) \/ \E q \in Pools : BeginTransfer(s, p, q)
      PROVE  CalmInv'
    BY <1>4, CalmPosters
<1>5. ASSUME NEW s \in Slots, CommitPost(s) \/ CommitFire(s) \/ Advance(s) PROVE CalmInv'
    BY <1>5, CalmPost, CalmFire, CalmAdvance
<1>6. ASSUME NEW s \in Slots,
             \/ CommitUpdate(s) \/ Abort(s) \/ CommitSchedule(s) \/ RefuseSchedule(s)
             \/ CommitCancel(s) \/ CommitAudit(s) \/ FailFire(s)
      PROVE  CalmInv'
    BY <1>6, CalmCommits
<1>7. CASE Tick
  <2>1. UNCHANGED <<pool, shadow, job, counted, req, overlap>> /\ today' = today + 1
      BY <1>7 DEF Tick
  <2>2. RunsArePast'
    <3>1. \A p \in Pools : job[p].last # Never => job[p].last \in Int
        BY PoolsAssumption DEF Typed, TypeOK, Days
    <3>2. today \in Int
        BY PoolsAssumption DEF Typed, TypeOK, Days
    <3>3. RunsArePast
        BY DEF CalmInv
    <3> QED BY <2>1, <3>1, <3>2, <3>3 DEF RunsArePast
  <2>3. Calm => Calm'
      BY <2>1 DEF Calm, OneAtATime, Fresh, Windows, Live, Active, Balance, BalanceIn
  <2> QED BY <2>1, <2>2, <2>3 DEF CalmInv
<1>8. CASE UNCHANGED vars
    BY <1>8 DEF vars, CalmInv, RunsArePast, Calm, OneAtATime, Fresh, Windows, Live, Active,
                Balance, BalanceIn
<1> QED BY <1>1, <1>2, <1>3, <1>4, <1>5, <1>6, <1>7, <1>8 DEF Next, Pools

Invs == Typed /\ AuditInv /\ CalmInv

THEOREM InvsHold == Spec => []Invs
<1>1. Init => Invs
    BY TypeInit, AuditInit, CalmInit DEF Invs
<1>2. Invs /\ [Next]_vars => Invs'
    BY TypeStep, AuditStep, CalmStep DEF Invs
<1> QED BY <1>1, <1>2, PTL DEF Spec

-----------------------------------------------------------------------------
(* What a step may do.                                                      *)

(* Which steps make the ledger longer.                                      *)
LEMMA WhoPosts ==
    ASSUME [Next]_vars, shadow' # shadow
    PROVE  \E s \in Slots : CommitPost(s) \/ CommitFire(s)
<1>1. CASE \E e \in Envelopes : \/ CreateEnvelope(e) \/ DeactivateEnvelope(e)
                                \/ RedactEnvelope(e) \/ UpdateEnvelope(e)
    BY <1>1 DEF CreateEnvelope, DeactivateEnvelope, RedactEnvelope, UpdateEnvelope,
                Deactivate, Redact, Rename, AtOnce
<1>2. CASE \E f \in Funds : \/ CreateSinkingFund(f) \/ DeactivateSinkingFund(f)
                            \/ RedactSinkingFund(f) \/ UpdateSinkingFund(f)
    BY <1>2 DEF CreateSinkingFund, DeactivateSinkingFund, RedactSinkingFund,
                UpdateSinkingFund, Deactivate, Redact, Rename, AtOnce
<1>3. ASSUME NEW s \in Slots, NEW e \in Envelopes,
             \/ BeginUpdate(s, e) \/ BeginRefill(s, e) \/ BeginSchedule(s, e)
             \/ BeginCancel(s, e) \/ BeginFire(s, e)
      PROVE  FALSE
    BY <1>3 DEF BeginUpdate, BeginRefill, BeginSchedule, BeginCancel, BeginFire, BeginPost, Begin
<1>4. ASSUME NEW s \in Slots, NEW p \in Pools,
             BeginSpend(s, p) \/ \E q \in Pools : BeginTransfer(s, p, q)
      PROVE  FALSE
    BY <1>4 DEF BeginSpend, BeginTransfer, BeginPost, Begin
<1>5. ASSUME NEW s \in Slots,
             \/ BeginInflow(s) \/ CommitUpdate(s) \/ Abort(s)
             \/ CommitSchedule(s) \/ RefuseSchedule(s) \/ CommitCancel(s) \/ CommitAudit(s)
             \/ FailFire(s) \/ Advance(s)
      PROVE  FALSE
    BY <1>5 DEF BeginInflow, BeginPost, Begin, CommitUpdate, Abort, CommitSchedule,
                RefuseSchedule, CommitCancel, CommitAudit, FailFire, Advance, SetJob
<1>6. CASE Tick
    BY <1>6 DEF Tick
<1>7. CASE UNCHANGED vars
    BY <1>7 DEF vars
<1> QED BY <1>1, <1>2, <1>3, <1>4, <1>5, <1>6, <1>7 DEF Next

(* What a step posts unless an overlap came before is between pools that    *)
(* are live at that moment, but for a user's refill.                        *)
LEMMA PostsAreLive ==
    ASSUME Invs, [Next]_vars, NEW i \in DOMAIN shadow', Posted(shadow'[i]), ~overlap,
           shadow'[i].reason # "refill"
    PROVE  Live(shadow'[i])
<1> DEFINE new == shadow'[i]
<1>0. Len(shadow') > Len(shadow) /\ shadow'[Len(shadow')] = new
    BY DEF Posted, Last
<1>1. PICK s \in Slots : CommitPost(s) \/ CommitFire(s)
  <2>1. shadow' # shadow
      BY <1>0 DEF Invs, Typed, TypeOK
  <2> QED BY <2>1, WhoPosts
<1>2. Typed /\ TypeOK /\ Fresh(s)
    BY DEF Invs, CalmInv, Calm, Typed
<1>3. CASE CommitPost(s)
  <2> DEFINE t == [req[s].tx EXCEPT !.on = IF req[s].tx.reason = "inflow" THEN today ELSE 0]
  <2>1. req[s].op = "post" /\ req[s].tx \in Shadow
      BY <1>2, <1>3, RequestFields DEF CommitPost, TypeOK
  <2>2. Len(shadow) < MaxShadow /\ shadow' = Append(shadow, t)
      BY <1>3 DEF CommitPost
  <2>3. t \in Shadow
    <3>1. (IF req[s].tx.reason = "inflow" THEN today ELSE 0) \in Days
        BY <1>2, PoolsAssumption DEF Days, TypeOK
    <3> QED BY <2>1, <3>1 DEF Shadow
  <2>4. t.reason = req[s].tx.reason /\ t.from = req[s].tx.from /\ t.to = req[s].tx.to
      BY <2>1 DEF Shadow
  <2> HIDE DEF t
  <2>5. new = t
      BY <1>0, <1>2, <2>2, <2>3, Appended
  <2> QED BY <1>2, <2>1, <2>4, <2>5 DEF Fresh, Live
<1>4. CASE CommitFire(s)
  <2>1. /\ req[s].op = "fire" /\ req[s].pool \in Pools /\ AutoRefill(s) \in Shadow
        /\ \/ shadow' = shadow
           \/ Len(shadow) < MaxShadow /\ shadow' = Append(shadow, AutoRefill(s)) /\ Due(s) # 0
      BY <1>2, <1>4, FireEffect
  <2>2. Len(shadow) < MaxShadow /\ shadow' = Append(shadow, AutoRefill(s)) /\ Due(s) # 0
      BY <1>0, <1>2, <2>1 DEF TypeOK
  <2>3. new = AutoRefill(s)
      BY <1>0, <1>2, <2>1, <2>2, Appended
  <2>4. Active(req[s].pool)
      BY <1>2, <2>1, <2>2 DEF Due, Fresh
  <2> QED BY <2>3, <2>4, PoolsAssumption DEF AutoRefill, Tx, Live
<1> QED BY <1>1, <1>3, <1>4

(* transactions.py, "All four run before any DB write": of requests served  *)
(* one at a time, only a user's refill moves money of a deactivated pool.   *)
THEOREM LiveMoves == Spec => MovesBetweenLivePools
<1> DEFINE A == \A i \in DOMAIN shadow' :
                   (Posted(shadow'[i]) /\ ~overlap /\ shadow'[i].reason # "refill")
                      => Live(shadow'[i])
<1>1. Invs /\ [Next]_vars => [A]_vars
    BY PostsAreLive
<1>2. MovesBetweenLivePools <=> [][A]_vars
    BY DEF MovesBetweenLivePools
<1> HIDE DEF A
<1> QED BY <1>1, <1>2, InvsHold, PTL DEF Spec

(* A fire that posts fills the envelope up.                                 *)
LEMMA FillsUp ==
    ASSUME Invs, [Next]_vars, NEW s \in Slots, req[s].op = "fire", shadow' # shadow,
           req'[s] # req[s], ~overlap, req[s].rule.kind = "fill"
    PROVE  BalanceIn(shadow', req[s].pool) = req[s].rule.amount
<1>0. Typed /\ TypeOK /\ Fresh(s) /\ OneAtATime
    BY DEF Invs, CalmInv, Calm, Typed
<1>1. CommitFire(s)
  <2>1. PICK u \in Slots : CommitPost(u) \/ CommitFire(u)
      BY WhoPosts
  <2>2. req[u] # Idle /\ req[s] # Idle
      BY <2>1 DEF CommitPost, CommitFire, Idle
  <2>3. u = s
      BY <1>0, <2>2 DEF OneAtATime
  <2> QED BY <2>1, <2>3 DEF CommitPost
<1>2. PICK p \in Pools : p = req[s].pool
    BY <1>0, <1>1, FireEffect
<1>3. AutoRefill(s) \in Shadow /\ Due(s) # 0 /\ Due(s) \in Nat /\ shadow' = Append(shadow, AutoRefill(s))
    BY <1>0, <1>1, FireEffect
<1>4. shadow \in Seq(Shadow) /\ Balance(p) \in Int
    BY <1>0, BalanceTyped DEF TypeOK, Balance
<1>5. req[s].rule.amount \in Nat /\ req[s].saw = Balance(p) /\ req[s].live
  <2>1. req[s] \in Request
      BY <1>0 DEF TypeOK
  <2> QED BY <1>0, <1>2, <1>3, <2>1, RequestFields DEF Fresh, Due, Rule
<1>6. Seen(s) = Balance(p)
    BY <1>2, <1>5 DEF Seen
<1>7. Due(s) = Max({0, req[s].rule.amount - Balance(p)})
    BY <1>5, <1>6 DEF Due, RefillAmount
<1>8. Due(s) = req[s].rule.amount - Balance(p)
  <2>1. req[s].rule.amount - Balance(p) \in Int
      BY <1>4, <1>5
  <2> QED BY <1>3, <1>7, <2>1, MaxOfTwo
<1>9. Effect(AutoRefill(s), p) = Due(s)
    BY <1>2, <1>3, PoolsAssumption DEF Effect, AutoRefill, Tx
<1>10. BalanceIn(shadow', p) = Balance(p) + Due(s)
    BY <1>3, <1>4, <1>9, BalanceGrows DEF Balance
<1> QED BY <1>2, <1>4, <1>5, <1>8, <1>10

(* FILL_TO_AMOUNT: whatever spends, transfers and refills came before, a    *)
(* fire that posts leaves the envelope at its target, unless requests have  *)
(* overlapped.                                                              *)
THEOREM FillStops == Spec => FillStopsAtTarget
<1> DEFINE A == \A s \in Slots :
                   (req[s].op = "fire" /\ shadow' # shadow /\ req'[s] # req[s] /\ ~overlap
                       /\ req[s].rule.kind = "fill")
                      => BalanceIn(shadow', req[s].pool) = req[s].rule.amount
<1>1. Invs /\ [Next]_vars => [A]_vars
    BY FillsUp
<1>2. FillStopsAtTarget <=> [][A]_vars
    BY DEF FillStopsAtTarget
<1> HIDE DEF A
<1> QED BY <1>1, <1>2, InvsHold, PTL DEF Spec

-----------------------------------------------------------------------------
(* The income of a fire.                                                    *)

LEMMA WhoFires ==
    ASSUME Invs, [Next]_vars, NEW s \in Slots, req[s] = Idle, req'[s].op = "fire"
    PROVE  \E e \in Pools : /\ req'[s].pool = e /\ req'[s].income = Inflows(e)
<1>0. req \in [Slots -> Request]
    BY DEF Invs, Typed, TypeOK
<1>1. CASE \E e \in Envelopes : \/ CreateEnvelope(e) \/ DeactivateEnvelope(e)
                                \/ RedactEnvelope(e) \/ UpdateEnvelope(e)
    BY <1>1 DEF CreateEnvelope, DeactivateEnvelope, RedactEnvelope, UpdateEnvelope,
                Deactivate, Redact, Rename, AtOnce, Idle
<1>2. CASE \E f \in Funds : \/ CreateSinkingFund(f) \/ DeactivateSinkingFund(f)
                            \/ RedactSinkingFund(f) \/ UpdateSinkingFund(f)
    BY <1>2 DEF CreateSinkingFund, DeactivateSinkingFund, RedactSinkingFund,
                UpdateSinkingFund, Deactivate, Redact, Rename, AtOnce, Idle
<1>a. ASSUME NEW u \in Slots, NEW r, Begin(u, r), r.op # "fire" PROVE FALSE
    BY <1>0, <1>a DEF Begin, Idle
<1>b. ASSUME NEW u \in Slots, NEW r, To(u, r), r.op # "fire" PROVE FALSE
    BY <1>0, <1>b DEF To, Idle
<1>3. ASSUME NEW u \in Slots, NEW e \in Envelopes,
             BeginUpdate(u, e) \/ BeginRefill(u, e) \/ BeginSchedule(u, e) \/ BeginCancel(u, e)
      PROVE  FALSE
    BY <1>a, <1>3 DEF BeginUpdate, BeginRefill, BeginSchedule, BeginCancel, BeginPost
<1>4. ASSUME NEW u \in Slots, NEW p \in Pools,
             BeginSpend(u, p) \/ \E q \in Pools : BeginTransfer(u, p, q)
      PROVE  FALSE
    BY <1>a, <1>4 DEF BeginSpend, BeginTransfer, BeginPost
<1>5. ASSUME NEW u \in Slots,
             \/ BeginInflow(u) \/ CommitPost(u) \/ CommitUpdate(u) \/ Abort(u)
             \/ CommitSchedule(u) \/ RefuseSchedule(u) \/ CommitCancel(u) \/ CommitAudit(u)
             \/ CommitFire(u) \/ FailFire(u) \/ Advance(u)
      PROVE  FALSE
  <2>1. CASE BeginInflow(u)
      BY <1>a, <2>1 DEF BeginInflow, BeginPost
  <2>2. CASE CommitPost(u) \/ CommitUpdate(u) \/ Abort(u) \/ RefuseSchedule(u) \/ CommitAudit(u)
             \/ FailFire(u) \/ Advance(u)
      BY <1>b, <2>2 DEF CommitPost, CommitUpdate, Abort, RefuseSchedule, CommitAudit,
                        FailFire, Advance, Idle
  <2>3. CASE CommitSchedule(u)
      BY <1>b, <2>3 DEF CommitSchedule
  <2>4. CASE CommitCancel(u)
      BY <1>b, <2>4 DEF CommitCancel
  <2>5. CASE CommitFire(u)
      BY <1>b, <2>5 DEF CommitFire, Fired
  <2> QED BY <1>5, <2>1, <2>2, <2>3, <2>4, <2>5
<1>6. ASSUME NEW u \in Slots, NEW e \in Envelopes, BeginFire(u, e)
      PROVE  req'[s].pool = e /\ req'[s].income = Inflows(e)
  <2> DEFINE r == [op |-> "fire", pool |-> e, live |-> Active(e), rule |-> pool[e].rule,
                   saw |-> Balance(e), income |-> Inflows(e), upto |-> Len(shadow),
                   made |-> system = 0]
  <2>1. req' = [req EXCEPT ![u] = r]
      BY <1>6 DEF BeginFire, Begin
  <2>2. u = s
      BY <1>0, <2>1 DEF Idle
  <2>3. req'[s] = r
      BY <1>0, <2>1, <2>2
  <2> QED BY <2>3
<1>7. CASE Tick \/ UNCHANGED vars
    BY <1>7 DEF Tick, vars, Idle
<1> QED BY <1>1, <1>2, <1>3, <1>4, <1>5, <1>6, <1>7 DEF Next, Pools

LEMMA FireCounts ==
    ASSUME Invs, [Next]_vars, NEW s \in Slots, req[s] = Idle, req'[s].op = "fire", ~overlap,
           NEW i \in DOMAIN shadow, shadow[i].reason = "inflow", i > counted[req'[s].pool],
           shadow[i].day >= shadow[i].on,
           job[req'[s].pool].last = Never => shadow[i].day >= today - Lookback
    PROVE  i \in req'[s].income
<1>1. PICK e \in Pools : req'[s].pool = e /\ req'[s].income = Inflows(e)
    BY WhoFires
<1>2. Windows
    BY DEF Invs, CalmInv, Calm
<1>3. shadow[i].day >= Since(e)
  <2>1. CASE job[e].last = Never
      BY <1>1, <2>1 DEF Since
  <2>2. CASE job[e].last # Never
    <3>1. shadow[i].on >= job[e].last
        BY <1>1, <1>2, <2>2 DEF Windows, Inflow
    <3>2. shadow[i].day \in Int /\ shadow[i].on \in Int /\ job[e].last \in Int
      <4>1. shadow[i] \in Shadow /\ job[e].last \in Days
          BY <2>2 DEF Invs, Typed, TypeOK
      <4> QED BY <4>1, PoolsAssumption DEF Shadow, Days
    <3> QED BY <2>2, <3>1, <3>2 DEF Since
  <2> QED BY <2>1, <2>2
<1> QED BY <1>1, <1>3 DEF Inflows

(* The window of a fire starts on the day of the last one: of requests      *)
(* served one at a time, a fire counts every inflow committed since that    *)
(* one and not backdated, or, the first time, every inflow of the lookback. *)
THEOREM InflowsCounted == Spec => InflowsAreCounted
<1> DEFINE A == \A s \in Slots :
                   (req[s] = Idle /\ req'[s].op = "fire" /\ ~overlap) =>
                      \A i \in DOMAIN shadow :
                         (/\ shadow[i].reason = "inflow" /\ i > counted[req'[s].pool]
                          /\ shadow[i].day >= shadow[i].on
                          /\ job[req'[s].pool].last = Never => shadow[i].day >= today - Lookback)
                            => i \in req'[s].income
<1>1. Invs /\ [Next]_vars => [A]_vars
    BY FireCounts
<1>2. InflowsAreCounted <=> [][A]_vars
    BY DEF InflowsAreCounted
<1> HIDE DEF A
<1> QED BY <1>1, <1>2, InvsHold, PTL DEF Spec

-----------------------------------------------------------------------------
(* More of sums: of nothing, of two functions, of a part, of pairs.         *)

LEMMA StepsTake ==
    ASSUME NEW f, IsFiniteSet(DOMAIN f)
    PROVE  /\ Steps(f)[{}] = 0
           /\ \A s \in SUBSET (DOMAIN f) :
                 s # {} => Steps(f)[s] = f[Pick(s)] + Steps(f)[s \ {Pick(s)}]
<1>1. {} \in SUBSET (DOMAIN f)
    OBVIOUS
<1>2. Steps(f)[{}] = 0
    BY <1>1, StepsUnfold DEF Step
<1> QED BY <1>2, StepsUnfold DEF Step

LEMMA SumOfNothing == ASSUME NEW f, DOMAIN f = {} PROVE SumFunction(f) = 0
<1>1. IsFiniteSet(DOMAIN f) /\ {} \in SUBSET (DOMAIN f)
    BY FS_EmptySet
<1> QED BY <1>1, SumIsSteps, StepsTake

LEMMA SumAdds ==
    ASSUME NEW S, IsFiniteSet(S), NEW f \in [S -> Int], NEW g \in [S -> Int],
           NEW h, h = [x \in S |-> f[x] + g[x]]
    PROVE  SumFunction(h) = SumFunction(f) + SumFunction(g)
<1> DEFINE Good == {s \in SUBSET S : Steps(h)[s] = Steps(f)[s] + Steps(g)[s]}
<1>0. DOMAIN f = S /\ DOMAIN g = S /\ DOMAIN h = S /\ h \in [S -> Int]
    OBVIOUS
<1>1. {} \in Good
    BY <1>0, StepsTake
<1>2. ASSUME NEW s \in SUBSET S, s # {},
             \A t \in SUBSET S : Cardinality(t) = Cardinality(s) - 1 => t \in Good
      PROVE  s \in Good
  <2> DEFINE t == s \ {Pick(s)}
  <2>1. Pick(s) \in s /\ t \in Good
      BY <1>2, PickIn, Less, FS_Subset
  <2>2. /\ Steps(f)[s] = f[Pick(s)] + Steps(f)[t] /\ Steps(g)[s] = g[Pick(s)] + Steps(g)[t]
        /\ Steps(h)[s] = h[Pick(s)] + Steps(h)[t]
      BY <1>0, <1>2, StepsTake
  <2>3. Steps(f)[t] \in Int /\ Steps(g)[t] \in Int
      BY <1>0, <2>1, StepsTyped
  <2>4. h[Pick(s)] = f[Pick(s)] + g[Pick(s)] /\ f[Pick(s)] \in Int /\ g[Pick(s)] \in Int
      BY <2>1
  <2> QED BY <2>1, <2>2, <2>3, <2>4
<1> HIDE DEF Good
<1>3. Good = SUBSET S
  <2>1. Good \in SUBSET (SUBSET S)
      BY DEF Good
  <2> QED BY <1>1, <1>2, <2>1, BySize
<1> QED BY <1>0, <1>3, SumIsSteps DEF Good

LEMMA SumOfPart ==
    ASSUME NEW S, IsFiniteSet(S), NEW f \in [S -> Int], NEW A \in SUBSET S,
           NEW part, DOMAIN part = A, \A x \in A : part[x] = f[x],
           NEW padded, DOMAIN padded = S,
           \A x \in S : padded[x] = IF x \in A THEN f[x] ELSE 0
    PROVE  SumFunction(part) = SumFunction(padded)
<1> DEFINE Good == {s \in SUBSET S : Steps(padded)[s] = Steps(f)[s \cap A]}
<1>0. /\ DOMAIN f = S /\ DOMAIN part = A /\ DOMAIN padded = S
      /\ (\A x \in S : padded[x] \in Int /\ f[x] \in Int) /\ IsFiniteSet(A)
    BY FS_Subset
<1>1. {} \in Good
    BY <1>0, StepsTake
<1>2. ASSUME NEW s \in SUBSET S, s # {},
             \A t \in SUBSET S : Cardinality(t) = Cardinality(s) - 1 => t \in Good
      PROVE  s \in Good
  <2> DEFINE x == Pick(s)
             t == s \ {x}
  <2>1. x \in s /\ t \in Good
      BY <1>2, PickIn, Less, FS_Subset
  <2>2. Steps(padded)[s] = padded[x] + Steps(padded)[t]
      BY <1>0, <1>2, StepsTake
  <2>3. Steps(f)[t \cap A] \in Int /\ f[x] \in Int
      BY <1>0, <2>1, StepsTyped
  <2> HIDE DEF x
  <2>4. CASE x \in A
    <3>1. x \in s \cap A /\ (s \cap A) \ {x} = t \cap A
        BY <2>1, <2>4
    <3>2. Steps(f)[s \cap A] = f[x] + Steps(f)[t \cap A]
        BY <1>0, <3>1, StepsTakeOut
    <3> QED BY <2>1, <2>2, <2>4, <3>2
  <2>5. CASE x \notin A
    <3>1. s \cap A = t \cap A /\ padded[x] = 0 /\ padded[x] \in Int
        BY <2>1, <2>5
    <3>2. Steps(padded)[t] = Steps(f)[s \cap A] /\ Steps(padded)[t] \in Int
        BY <2>1, <2>3, <3>1
    <3>3. \A n \in Int : 0 + n = n
        OBVIOUS
    <3>4. Steps(padded)[s] = Steps(f)[s \cap A]
        BY <2>2, <3>1, <3>2, <3>3
    <3> QED BY <3>4
  <2> QED BY <2>4, <2>5
<1> HIDE DEF Good
<1>3. Good = SUBSET S
  <2>1. Good \in SUBSET (SUBSET S)
      BY DEF Good
  <2> QED BY <1>1, <1>2, <2>1, BySize
<1>4. Steps(padded)[S] = Steps(f)[A]
  <2>1. S \cap A = A
      OBVIOUS
  <2> QED BY <1>3, <2>1 DEF Good
<1>5. Steps(part)[A] = Steps(f)[A]
    BY <1>0, StepsAgree
<1> QED BY <1>0, <1>4, <1>5, SumIsSteps

IsPart(g, f, A) == DOMAIN g = A /\ \A x \in A : g[x] = f[x]

LEMMA SumSplits ==
    ASSUME NEW S, IsFiniteSet(S), NEW f \in [S -> Int],
           NEW A \in SUBSET S, NEW B \in SUBSET S, A \cup B = S, A \cap B = {},
           NEW g, IsPart(g, f, A), NEW h, IsPart(h, f, B)
    PROVE  SumFunction(f) = SumFunction(g) + SumFunction(h)
<1> DEFINE p == [x \in S |-> IF x \in A THEN f[x] ELSE 0]
           q == [x \in S |-> IF x \in B THEN f[x] ELSE 0]
<1>1. p \in [S -> Int] /\ q \in [S -> Int] /\ f = [x \in S |-> p[x] + q[x]]
    OBVIOUS
<1> HIDE DEF p, q
<1>2. SumFunction(f) = SumFunction(p) + SumFunction(q)
    BY <1>1, SumAdds
<1>3. SumFunction(g) = SumFunction(p) /\ SumFunction(h) = SumFunction(q)
    BY SumOfPart DEF p, q, IsPart
<1> QED BY <1>2, <1>3

(* Sums over the cells of a table, column by column or row by row.          *)
ByColumn(m, R, A) == SumFunction([a \in A |-> SumFunction([r \in R |-> m[r][a]])])
ByRow(m, R, A)    == SumFunction([r \in R |-> SumFunction([a \in A |-> m[r][a]])])

LEMMA OnlyZero == \A n \in Int : n = n + n => n = 0
OBVIOUS

LEMMA RowsOrColumns ==
    ASSUME NEW R, IsFiniteSet(R), NEW A, IsFiniteSet(A),
           NEW m, \A r \in R, a \in A : m[r][a] \in Int
    PROVE  ByColumn(m, R, A) = ByRow(m, R, A) /\ ByRow(m, R, A) \in Int
<1> DEFINE col(s) == [a \in A |-> SumFunction([r \in s |-> m[r][a]])]
           row(r) == [a \in A |-> m[r][a]]
           rows(s) == [r \in s |-> SumFunction(row(r))]
           Good == {s \in SUBSET R : SumFunction(col(s)) = SumFunction(rows(s))}
<1>0. \A s \in SUBSET R : /\ col(s) \in [A -> Int] /\ rows(s) \in [s -> Int] /\ IsFiniteSet(s)
                          /\ \A r \in R : row(r) \in [A -> Int]
  <2> TAKE s \in SUBSET R
  <2>1. IsFiniteSet(s)
      BY FS_Subset
  <2>2. ASSUME NEW a \in A PROVE SumFunction([r \in s |-> m[r][a]]) \in Int
    <3> DEFINE f == [r \in s |-> m[r][a]]
    <3>1. DOMAIN f = s /\ \A r \in s : f[r] \in Int
        OBVIOUS
    <3> HIDE DEF f
    <3>2. SumFunction(f) \in Int
        BY <2>1, <3>1, SumTyped
    <3> QED BY <3>2 DEF f
  <2>3. \A r \in R : row(r) \in [A -> Int]
      OBVIOUS
  <2>4. ASSUME NEW r \in s PROVE SumFunction(row(r)) \in Int
    <3>1. DOMAIN row(r) = A /\ \A a \in A : row(r)[a] \in Int
        BY <2>3
    <3> HIDE DEF row
    <3> QED BY <3>1, SumTyped
  <2> QED BY <2>1, <2>2, <2>3, <2>4
<1>1. {} \in Good
  <2> DEFINE zero == [a \in A |-> 0]
  <2>1. SumFunction(zero) = 0
    <3>1. zero = [a \in A |-> zero[a] + zero[a]] /\ zero \in [A -> Int]
        OBVIOUS
    <3> HIDE DEF zero
    <3>2. SumFunction(zero) = SumFunction(zero) + SumFunction(zero)
        BY <3>1, SumAdds
    <3>3. DOMAIN zero = A /\ \A a \in A : zero[a] \in Int
        BY <3>1
    <3>4. SumFunction(zero) \in Int
        BY <3>3, SumTyped
    <3> QED BY <3>2, <3>4, OnlyZero
  <2>2. ASSUME NEW a \in A PROVE SumFunction([r \in {} |-> m[r][a]]) = 0
    <3> DEFINE f == [r \in {} |-> m[r][a]]
    <3>1. DOMAIN f = {}
        OBVIOUS
    <3> HIDE DEF f
    <3>2. SumFunction(f) = 0
        BY <3>1, SumOfNothing
    <3> QED BY <3>2 DEF f
  <2>3. col({}) = zero
      BY <2>2
  <2>4. DOMAIN rows({}) = {}
      OBVIOUS
  <2> HIDE DEF rows, col, zero
  <2>5. SumFunction(rows({})) = 0
      BY <2>4, SumOfNothing
  <2> QED BY <2>1, <2>3, <2>5
<1>2. ASSUME NEW s \in SUBSET R, s # {},
             \A t \in SUBSET R : Cardinality(t) = Cardinality(s) - 1 => t \in Good
      PROVE  s \in Good
  <2> DEFINE x == Pick(s)
             t == s \ {x}
  <2>1. x \in s /\ t \in Good /\ IsFiniteSet(t)
      BY <1>2, PickIn, Less, FS_Subset
  <2> HIDE DEF x
  <2>2. SumFunction(rows(s)) = SumFunction(rows(t)) + SumFunction(row(x))
    <3>1. /\ IsFiniteSet(DOMAIN rows(t)) /\ x \notin DOMAIN rows(t)
          /\ DOMAIN rows(s) = DOMAIN rows(t) \cup {x}
          /\ \A y \in DOMAIN rows(t) : rows(t)[y] = rows(s)[y]
          /\ rows(s)[x] = SumFunction(row(x))
        BY <2>1
    <3>2. \A y \in DOMAIN rows(s) : rows(s)[y] \in Int
        BY <1>0
    <3> HIDE DEF rows, row, t
    <3> QED BY <3>1, <3>2, SumGrows
  <2>3. ASSUME NEW a \in A
        PROVE  SumFunction([r \in s |-> m[r][a]]) = SumFunction([r \in t |-> m[r][a]]) + m[x][a]
    <3> DEFINE f == [r \in t |-> m[r][a]]
               g == [r \in s |-> m[r][a]]
    <3>1. /\ IsFiniteSet(DOMAIN f) /\ x \notin DOMAIN f /\ DOMAIN g = DOMAIN f \cup {x}
          /\ \A y \in DOMAIN f : f[y] = g[y]
          /\ \A y \in DOMAIN g : g[y] \in Int
          /\ g[x] = m[x][a]
        BY <2>1
    <3> HIDE DEF f, g
    <3>2. SumFunction(g) = SumFunction(f) + g[x]
        BY <3>1, SumGrows
    <3> QED BY <3>1, <3>2 DEF f, g
  <2>4. col(s) = [a \in A |-> col(t)[a] + row(x)[a]]
      BY <2>3
  <2>5. col(t) \in [A -> Int] /\ row(x) \in [A -> Int]
      BY <1>0, <2>1
  <2> HIDE DEF col, row, t
  <2>6. SumFunction(col(s)) = SumFunction(col(t)) + SumFunction(row(x))
      BY <2>4, <2>5, SumAdds
  <2> QED BY <2>1, <2>2, <2>6
<1>3. Good = SUBSET R
  <2>1. Good \in SUBSET (SUBSET R)
      OBVIOUS
  <2> HIDE DEF Good
  <2> QED BY <1>1, <1>2, <2>1, BySize
<1>4. SumFunction(col(R)) = SumFunction(rows(R))
    BY <1>3
<1>5. SumFunction(rows(R)) \in Int
  <2>1. DOMAIN rows(R) = R /\ \A r \in R : rows(R)[r] \in Int
      BY <1>0
  <2> HIDE DEF rows
  <2> QED BY <2>1, SumTyped
<1> QED BY <1>4, <1>5 DEF ByColumn, ByRow

(* A sum over a set may be taken over another that is mapped onto it one to *)
(* one.                                                                     *)
Relabels(h, S, f, g) ==
    /\ \A x, y \in S : h[x] = h[y] => x = y
    /\ DOMAIN f = {h[x] : x \in S} /\ \A x \in S : f[h[x]] \in Int
    /\ g = [x \in S |-> f[h[x]]]

LEMMA SumRelabelled ==
    ASSUME NEW S, IsFiniteSet(S), NEW h, NEW f, NEW g, Relabels(h, S, f, g)
    PROVE  SumFunction(f) = SumFunction(g)
<1> USE DEF Relabels
<1> DEFINE Img(s) == {h[x] : x \in s}
           Good == {s \in SUBSET S : Steps(f)[Img(s)] = Steps(g)[s]}
<1>0. /\ IsFiniteSet(DOMAIN f) /\ DOMAIN g = S /\ \A y \in DOMAIN f : f[y] \in Int
      /\ \A x \in S : g[x] = f[h[x]]
      /\ \A s \in SUBSET S : Img(s) \in SUBSET (DOMAIN f)
  <2>1. IsFiniteSet({h[x] : x \in S})
    <3> DEFINE k == [x \in S |-> h[x]]
               T == {h[x] : x \in S}
    <3>1. k \in [S -> T] /\ {k[x] : x \in S} = T
        OBVIOUS
    <3> HIDE DEF k, T
    <3>2. k \in Surjection(S, T)
        BY <3>1 DEF Surjection
    <3>3. IsFiniteSet(T)
        BY <3>2, FS_Surjection
    <3> QED BY <3>3 DEF T
  <2> QED BY <2>1
<1>1. {} \in Good
  <2>1. Img({}) = {} /\ IsFiniteSet(DOMAIN g)
      BY <1>0
  <2> HIDE DEF Img
  <2> QED BY <1>0, <2>1, StepsTake
<1>2. ASSUME NEW s \in SUBSET S, s # {},
             \A t \in SUBSET S : Cardinality(t) = Cardinality(s) - 1 => t \in Good
      PROVE  s \in Good
  <2> DEFINE x == Pick(s)
             t == s \ {x}
  <2>1. x \in s /\ t \in Good
      BY <1>2, PickIn, Less, FS_Subset
  <2>2. Steps(g)[s] = g[x] + Steps(g)[t]
      BY <1>0, <1>2, StepsTake
  <2> HIDE DEF x
  <2>3. h[x] \in Img(s) /\ Img(s) \ {h[x]} = Img(t) /\ Img(s) \in SUBSET (DOMAIN f)
      BY <1>0, <2>1
  <2> HIDE DEF Img
  <2>4. Steps(f)[Img(s)] = f[h[x]] + Steps(f)[Img(t)]
    <3> DEFINE y == h[x]
               V == Img(s)
    <3>1. V \in SUBSET (DOMAIN f) /\ y \in V /\ V \ {y} = Img(t)
        BY <2>3
    <3>2. IsFiniteSet(DOMAIN f) /\ \A z \in DOMAIN f : f[z] \in Int
        BY <1>0
    <3> HIDE DEF y, V
    <3>3. Steps(f)[V] = f[y] + Steps(f)[V \ {y}]
        BY <3>1, <3>2, StepsTakeOut
    <3> QED BY <3>1, <3>3 DEF y, V
  <2> QED BY <1>0, <2>1, <2>2, <2>4
<1>3. Good = SUBSET S
  <2>1. Good \in SUBSET (SUBSET S)
      OBVIOUS
  <2> HIDE DEF Good
  <2> QED BY <1>1, <1>2, <2>1, BySize
<1>4. Steps(f)[Img(S)] = Steps(g)[S]
    BY <1>3
<1> QED BY <1>0, <1>4, SumIsSteps

(* The sum of the sums over the fibres of a map is the sum over their union.*)
ByFibre(S, B, to, f)    ==
    SumFunction([b \in B |-> SumFunction([x \in {y \in S : to[y] = b} |-> f[x]])])
OverFibres(S, B, to, f) == SumFunction([x \in {y \in S : to[y] \in B} |-> f[x]])

LEMMA SumOfFibres ==
    ASSUME NEW S, IsFiniteSet(S), NEW B, IsFiniteSet(B), NEW to, NEW f,
           \A x \in S : f[x] \in Int
    PROVE  ByFibre(S, B, to, f) = OverFibres(S, B, to, f)
<1> DEFINE g == [x \in S |-> f[x]]
           m == [x \in S |-> [b \in B |-> IF to[x] = b THEN g[x] ELSE 0]]
           U == {y \in S : to[y] \in B}
           padded == [x \in S |-> IF x \in U THEN g[x] ELSE 0]
           all == [x \in U |-> f[x]]
           fibres == [b \in B |-> SumFunction([x \in {y \in S : to[y] = b} |-> f[x]])]
<1>0. g \in [S -> Int] /\ \A x \in S, b \in B : m[x][b] \in Int
    OBVIOUS
<1>1. SumFunction(all) = SumFunction(padded)
  <2>1. /\ DOMAIN all = U /\ (\A x \in U : all[x] = g[x]) /\ U \in SUBSET S
        /\ DOMAIN padded = S /\ \A x \in S : padded[x] = IF x \in U THEN g[x] ELSE 0
      OBVIOUS
  <2>2. g \in [S -> Int]
      BY <1>0
  <2> HIDE DEF U, g, padded, m, all, fibres
  <2> QED BY <2>1, <2>2, SumOfPart
<1>2. ASSUME NEW b \in B
      PROVE  SumFunction([x \in {y \in S : to[y] = b} |-> f[x]])
                = SumFunction([x \in S |-> m[x][b]])
  <2> DEFINE A == {y \in S : to[y] = b}
             p == [x \in A |-> f[x]]
             q == [x \in S |-> m[x][b]]
  <2>1. /\ DOMAIN p = A /\ (\A x \in A : p[x] = g[x]) /\ A \in SUBSET S
        /\ DOMAIN q = S /\ \A x \in S : q[x] = IF x \in A THEN g[x] ELSE 0
      OBVIOUS
  <2> HIDE DEF p, q, A, g
  <2>2. SumFunction(p) = SumFunction(q)
      BY <1>0, <2>1, SumOfPart
  <2> QED BY <2>2 DEF p, q, A
<1>3. fibres = [b \in B |-> SumFunction([x \in S |-> m[x][b]])]
    BY <1>2
<1>4. ASSUME NEW x \in S PROVE SumFunction([b \in B |-> m[x][b]]) = padded[x]
  <2> DEFINE v == [b \in B |-> m[x][b]]
             w == [b \in B |-> g[x]]
             T == {to[x]} \cap B
             u == [b \in T |-> w[b]]
  <2>1. /\ DOMAIN v = B /\ \A b \in B : v[b] = IF b \in T THEN w[b] ELSE 0
        /\ w \in [B -> Int] /\ T \in SUBSET B
      OBVIOUS
  <2>2. SumFunction(u) = padded[x]
    <3>1. CASE to[x] \in B
      <4> DEFINE e == [b \in {} |-> 0]
      <4>1. /\ IsFiniteSet(DOMAIN e) /\ to[x] \notin DOMAIN e /\ DOMAIN u = DOMAIN e \cup {to[x]}
            /\ DOMAIN e = {} /\ \A y \in DOMAIN e : e[y] = u[y]
            /\ \A y \in DOMAIN u : u[y] \in Int
            /\ u[to[x]] = g[x] /\ padded[x] = g[x] /\ g[x] \in Int
          BY <1>0, <3>1, FS_EmptySet
      <4> HIDE DEF e, u, padded, g
      <4>2. SumFunction(u) = SumFunction(e) + u[to[x]]
          BY <4>1, SumGrows
      <4>3. SumFunction(e) = 0
          BY <4>1, SumOfNothing
      <4> QED BY <4>1, <4>2, <4>3
    <3>2. CASE to[x] \notin B
      <4>1. DOMAIN u = {} /\ padded[x] = 0
          BY <3>2
      <4> HIDE DEF u, padded
      <4> QED BY <4>1, SumOfNothing
    <3> QED BY <3>1, <3>2
  <2>3. DOMAIN u = T /\ \A b \in T : u[b] = w[b]
      OBVIOUS
  <2> HIDE DEF u, v, w, T, padded, m, g
  <2>4. SumFunction(u) = SumFunction(v)
      BY <2>1, <2>3, SumOfPart
  <2> QED BY <2>2, <2>4 DEF v
<1>5. padded = [x \in S |-> SumFunction([b \in B |-> m[x][b]])]
    BY <1>4
<1>7. ByFibre(S, B, to, f) = SumFunction(fibres) /\ OverFibres(S, B, to, f) = SumFunction(all)
    BY DEF ByFibre, OverFibres
<1> HIDE DEF m, padded, all, fibres
<1>6. ByColumn(m, S, B) = ByRow(m, S, B)
    BY <1>0, RowsOrColumns
<1> QED BY <1>1, <1>3, <1>5, <1>6, <1>7 DEF ByColumn, ByRow

-----------------------------------------------------------------------------
(* Totals of the books.                                                     *)

Rows(rows) == IsFiniteSet(rows) /\ rows \subseteq Row
Even(rows) == \A r \in rows : SumFunction(r.legs) = 0

LegsOf(rows) == [r \in rows |-> r.legs]

LEMMA RowLegs == \A r \in Row : r.legs \in [Accounts -> Int]
BY DEF Row, Postings

LEMMA FiniteAccounts == \A A \in SUBSET Accounts : IsFiniteSet(A)
BY FS_Subset, ReportsAssumption DEF ReportsAssumption

LEMMA TotalIsByRow ==
    ASSUME NEW rows, Rows(rows), NEW A \in SUBSET Accounts
    PROVE  /\ TotalOf(rows, A) = ByRow(LegsOf(rows), rows, A)
           /\ TotalOf(rows, A) \in Int
<1> DEFINE m == LegsOf(rows)
<1>1. IsFiniteSet(rows) /\ IsFiniteSet(A)
    BY FiniteAccounts DEF Rows
<1>2. \A r \in rows : m[r] = r.legs /\ r.legs \in [Accounts -> Int]
    BY RowLegs DEF Rows, LegsOf
<1>3. TotalOf(rows, A) = ByColumn(m, rows, A)
  <2>1. ASSUME NEW a \in A PROVE BalanceOf(rows, a) = SumFunction([r \in rows |-> m[r][a]])
    <3>1. [r \in rows |-> r.legs[a]] = [r \in rows |-> m[r][a]]
        BY <1>2
    <3> QED BY <3>1 DEF BalanceOf
  <2>2. [a \in A |-> BalanceOf(rows, a)] = [a \in A |-> SumFunction([r \in rows |-> m[r][a]])]
      BY <2>1
  <2> HIDE DEF m
  <2> QED BY <2>2 DEF TotalOf, ByColumn
<1>4. \A r \in rows, a \in A : m[r][a] \in Int
    BY <1>2
<1> HIDE DEF m
<1> QED BY <1>1, <1>3, <1>4, RowsOrColumns DEF m

(* Balances are integers; totals add up over accounts and over rows.        *)
LEMMA BalancesTyped ==
    ASSUME NEW rows, Rows(rows), NEW a \in Accounts
    PROVE  BalanceOf(rows, a) \in Int
<1> DEFINE f == [r \in rows |-> r.legs[a]]
<1>1. IsFiniteSet(DOMAIN f) /\ \A r \in DOMAIN f : f[r] \in Int
    BY RowLegs DEF Rows
<1> HIDE DEF f
<1>2. SumFunction(f) \in Int
    BY <1>1, SumTyped
<1> QED BY <1>2 DEF f, BalanceOf

LEMMA TotalOverAccounts ==
    ASSUME NEW rows, Rows(rows), NEW A \in SUBSET Accounts, NEW B \in SUBSET Accounts,
           A \cap B = {}
    PROVE  TotalOf(rows, A \cup B) = TotalOf(rows, A) + TotalOf(rows, B)
<1> DEFINE S == A \cup B
           f == [a \in S |-> BalanceOf(rows, a)]
           g == [a \in A |-> f[a]]
           h == [a \in B |-> f[a]]
<1>1. f \in [S -> Int] /\ IsFiniteSet(S) /\ A \in SUBSET S /\ B \in SUBSET S
    BY BalancesTyped, FiniteAccounts
<1>2. /\ TotalOf(rows, S) = SumFunction(f)
      /\ TotalOf(rows, A) = SumFunction(g) /\ TotalOf(rows, B) = SumFunction(h)
  <2>1. [a \in A |-> BalanceOf(rows, a)] = g /\ [a \in B |-> BalanceOf(rows, a)] = h
      OBVIOUS
  <2> HIDE DEF g, h
  <2> QED BY <2>1 DEF TotalOf
<1>3. A \cup B = S
    OBVIOUS
<1>5. IsPart(g, f, A) /\ IsPart(h, f, B)
    BY DEF IsPart
<1> HIDE DEF f, g, h, S
<1>4. SumFunction(f) = SumFunction(g) + SumFunction(h)
    BY <1>1, <1>3, <1>5, SumSplits
<1> QED BY <1>2, <1>3, <1>4 DEF S

LEMMA BalanceOverRows ==
    ASSUME NEW U, NEW V, Rows(U), Rows(V), U \cap V = {}, NEW a \in Accounts
    PROVE  BalanceOf(U \cup V, a) = BalanceOf(U, a) + BalanceOf(V, a)
<1> DEFINE W == U \cup V
           f == [r \in W |-> r.legs[a]]
           g == [r \in U |-> f[r]]
           h == [r \in V |-> f[r]]
<1>1. Rows(W) /\ IsFiniteSet(W)
    BY FS_Union DEF Rows
<1>2. f \in [W -> Int]
    BY <1>1, RowLegs DEF Rows
<1>3. BalanceOf(W, a) = SumFunction(f) /\ BalanceOf(U, a) = SumFunction(g) /\ BalanceOf(V, a) = SumFunction(h)
  <2>1. [r \in U |-> r.legs[a]] = g /\ [r \in V |-> r.legs[a]] = h
      OBVIOUS
  <2> HIDE DEF g, h
  <2> QED BY <2>1 DEF BalanceOf
<1>4. U \in SUBSET W /\ V \in SUBSET W /\ U \cup V = W
    OBVIOUS
<1>5. IsPart(g, f, U) /\ IsPart(h, f, V)
    BY DEF IsPart
<1> HIDE DEF f, g, h, W
<1>6. SumFunction(f) = SumFunction(g) + SumFunction(h)
    BY <1>1, <1>2, <1>4, <1>5, SumSplits
<1> QED BY <1>3, <1>6 DEF W

LEMMA TotalOverRows ==
    ASSUME NEW U, NEW V, Rows(U), Rows(V), U \cap V = {}, NEW A \in SUBSET Accounts
    PROVE  TotalOf(U \cup V, A) = TotalOf(U, A) + TotalOf(V, A)
<1> DEFINE W == U \cup V
           u == [a \in A |-> BalanceOf(U, a)]
           v == [a \in A |-> BalanceOf(V, a)]
           w == [a \in A |-> BalanceOf(W, a)]
<1>1. IsFiniteSet(A)
    BY FiniteAccounts
<1>2. u \in [A -> Int] /\ v \in [A -> Int]
    BY BalancesTyped
<1>3. w = [a \in A |-> u[a] + v[a]]
    BY BalanceOverRows
<1>4. TotalOf(U, A) = SumFunction(u) /\ TotalOf(V, A) = SumFunction(v) /\ TotalOf(W, A) = SumFunction(w)
    BY DEF TotalOf
<1> HIDE DEF u, v, w, W
<1>5. SumFunction(w) = SumFunction(u) + SumFunction(v)
    BY <1>1, <1>2, <1>3, SumAdds
<1> QED BY <1>4, <1>5 DEF W

(* The total of balanced rows over all accounts is zero.                    *)
LEMMA EvenTotal ==
    ASSUME NEW rows, Rows(rows), Even(rows)
    PROVE  TotalOf(rows, Accounts) = 0
<1> DEFINE f == [r \in rows |-> SumFunction([a \in Accounts |-> LegsOf(rows)[r][a]])]
<1>1. ASSUME NEW r \in rows PROVE f[r] = 0
  <2>1. LegsOf(rows)[r] = r.legs /\ r.legs \in [Accounts -> Int]
      BY RowLegs DEF Rows, LegsOf
  <2>2. [a \in Accounts |-> LegsOf(rows)[r][a]] = r.legs
      BY <2>1
  <2> QED BY <2>2 DEF Even
<1>2. TotalOf(rows, Accounts) = SumFunction(f)
    BY TotalIsByRow DEF ByRow
<1>3. DOMAIN f = rows /\ IsFiniteSet(rows) /\ f \in [rows -> Int] /\ f = [r \in rows |-> f[r] + f[r]]
    BY <1>1 DEF Rows
<1> HIDE DEF f
<1>4. SumFunction(f) = SumFunction(f) + SumFunction(f)
    BY <1>3, SumAdds
<1>5. SumFunction(f) \in Int
    BY <1>3, SumTyped
<1> QED BY <1>2, <1>4, <1>5, OnlyZero

-----------------------------------------------------------------------------
(* Rounded sums.  Rounding each amount takes a sum off by half a unit at    *)
(* most for each amount that is no whole number of units.                   *)

LEMMA UnitIs == Unit \in Int /\ Unit > 0
BY ReportsAssumption DEF ReportsAssumption

LEMMA RestIs == ASSUME NEW x \in Int PROVE x % Unit \in 0 .. Unit - 1
BY UnitIs

LEMMA Nearest ==
    \A x, r, u, q \in Int :
        /\ 0 <= r /\ r < u
        /\ (q = x - r /\ 2 * r <= u) \/ (q = x - r + u /\ 2 * r >= u)
        => 2 * (q - x) <= u /\ -u <= 2 * (q - x)
OBVIOUS

Half(x) == IF x % Unit = 0 THEN 0 ELSE Unit

LEMMA QuantizeIsNear ==
    ASSUME NEW x \in Int
    PROVE  /\ Quantize(x) \in Int /\ Half(x) \in Nat
           /\ -Half(x) <= 2 * (Quantize(x) - x) /\ 2 * (Quantize(x) - x) <= Half(x)
<1> DEFINE r == x % Unit
           even == (x - r) % (2 * Unit) = 0
<1>1. r \in Int /\ 0 <= r /\ r < Unit /\ Unit \in Int
    BY RestIs, UnitIs
<1>2. Quantize(x) = IF 2 * r < Unit \/ (2 * r = Unit /\ even) THEN x - r ELSE x - r + Unit
    BY DEF Quantize
<1>3. Half(x) = IF r = 0 THEN 0 ELSE Unit
    BY DEF Half
<1> HIDE DEF r, even
<1>4. \/ Quantize(x) = x - r /\ 2 * r <= Unit
      \/ Quantize(x) = x - r + Unit /\ 2 * r >= Unit
    BY <1>1, <1>2
<1>5. Quantize(x) \in Int
    BY <1>1, <1>4
<1>6. CASE r = 0
  <2>1. Quantize(x) = x
      BY <1>1, <1>2, <1>6
  <2> QED BY <1>3, <1>6, <2>1
<1>7. CASE r # 0
  <2>1. 2 * (Quantize(x) - x) <= Unit /\ -Unit <= 2 * (Quantize(x) - x)
      BY <1>1, <1>4, <1>5, Nearest
  <2> QED BY <1>1, <1>3, <1>5, <1>7, <2>1
<1> QED BY <1>6, <1>7

LEMMA SumIsWithin ==
    ASSUME NEW S, IsFiniteSet(S), NEW f \in [S -> Int]
    PROVE  /\ SumFunction(Quantized(f)) \in Int /\ SumFunction(f) \in Int
           /\ Slack(f) \in Int
           /\ IsWithin(SumFunction(Quantized(f)), SumFunction(f), f)
<1> DEFINE q == [x \in S |-> Quantize(f[x])]
           k == [x \in S |-> Half(f[x])]
           d == [x \in S |-> q[x] - f[x]]
           e == [x \in S |-> d[x] + d[x]]
           up == [x \in S |-> k[x] - e[x]]
           down == [x \in S |-> k[x] + e[x]]
<1>1. Quantized(f) = q /\ Slack(f) = SumFunction(k)
  <2>1. DOMAIN f = S
      OBVIOUS
  <2> QED BY <2>1 DEF Quantized, Slack, Half
<1>2. /\ q \in [S -> Int] /\ k \in [S -> Int] /\ d \in [S -> Int] /\ e \in [S -> Int]
      /\ \A x \in S : k[x] - e[x] \in Nat /\ k[x] + e[x] \in Nat
  <2>1. ASSUME NEW x \in S
        PROVE  /\ q[x] \in Int /\ k[x] \in Int /\ d[x] \in Int /\ e[x] \in Int
               /\ k[x] - e[x] \in Nat /\ k[x] + e[x] \in Nat
    <3>1. f[x] \in Int
        OBVIOUS
    <3>2. /\ q[x] \in Int /\ k[x] \in Nat /\ d[x] = q[x] - f[x] /\ e[x] = d[x] + d[x]
          /\ -k[x] <= 2 * (q[x] - f[x]) /\ 2 * (q[x] - f[x]) <= k[x]
        BY <3>1, QuantizeIsNear
    <3> HIDE DEF q, k, d, e
    <3> QED BY <3>1, <3>2
  <2> QED BY <2>1
<1>3. \A x \in S : f[x] + d[x] = q[x] /\ e[x] + up[x] = k[x]
  <2>1. ASSUME NEW x \in S PROVE f[x] + d[x] = q[x] /\ e[x] + up[x] = k[x]
    <3>1. /\ f[x] \in Int /\ q[x] \in Int /\ e[x] \in Int /\ k[x] \in Int
          /\ d[x] = q[x] - f[x] /\ up[x] = k[x] - e[x]
        BY <1>2
    <3> HIDE DEF q, k, d, e, up
    <3> QED BY <3>1
  <2> QED BY <2>1
<1>4. /\ q = [x \in S |-> f[x] + d[x]] /\ k = [x \in S |-> e[x] + up[x]]
      /\ up \in [S -> Int]
  <2>1. q \in [S -> Int] /\ k \in [S -> Int] /\ up \in [S -> Int]
      BY <1>2
  <2> HIDE DEF q, k, d, e, up
  <2> QED BY <1>3, <2>1
<1>5. \A x \in S : up[x] \in Nat /\ down[x] \in Nat
    BY <1>2
<1>6. /\ e = [x \in S |-> d[x] + d[x]] /\ down = [x \in S |-> k[x] + e[x]]
      /\ DOMAIN f = S /\ DOMAIN q = S /\ DOMAIN up = S /\ DOMAIN down = S
      /\ DOMAIN d = S /\ DOMAIN k = S
    OBVIOUS
<1> HIDE DEF q, k, d, e, up, down
<1>7. /\ SumFunction(q) = SumFunction(f) + SumFunction(d)
      /\ SumFunction(e) = SumFunction(d) + SumFunction(d)
      /\ SumFunction(k) = SumFunction(e) + SumFunction(up)
      /\ SumFunction(down) = SumFunction(k) + SumFunction(e)
  <2>1. SumFunction(q) = SumFunction(f) + SumFunction(d)
      BY <1>2, <1>4, SumAdds
  <2>2. SumFunction(e) = SumFunction(d) + SumFunction(d)
      BY <1>2, <1>6, SumAdds
  <2>3. SumFunction(k) = SumFunction(e) + SumFunction(up)
      BY <1>2, <1>4, SumAdds
  <2>4. SumFunction(down) = SumFunction(k) + SumFunction(e)
      BY <1>2, <1>6, SumAdds
  <2> QED BY <2>1, <2>2, <2>3, <2>4
<1>8. SumFunction(up) \in Nat /\ SumFunction(down) \in Nat
    BY <1>5, <1>6, SumTyped
<1>9. SumFunction(f) \in Int /\ SumFunction(q) \in Int /\ SumFunction(d) \in Int
      /\ SumFunction(k) \in Int
    BY <1>2, <1>6, SumTyped
<1>10. \A n, m, x, b, u, w \in Int :
          /\ n = m + x /\ u >= 0 /\ w >= 0 /\ b = (x + x) + u /\ w = b + (x + x)
          => 2 * (n - m) \in -b .. b
    OBVIOUS
<1>11. 2 * (SumFunction(q) - SumFunction(f)) \in -SumFunction(k) .. SumFunction(k)
    BY <1>7, <1>8, <1>9, <1>10
<1> QED BY <1>1, <1>9, <1>11 DEF IsWithin

LEMMA BalancesAre ==
    ASSUME NEW rows, Rows(rows), NEW A \in SUBSET Accounts
    PROVE  /\ Balances(rows, A) \in [A -> Int] /\ IsFiniteSet(A)
           /\ Quantized(Balances(rows, A)) \in [A -> Int]
           /\ Subtotal(rows, A) \in Int /\ SumFunction(Balances(rows, A)) = TotalOf(rows, A)
<1>1. Balances(rows, A) \in [A -> Int] /\ IsFiniteSet(A)
    BY BalancesTyped, FiniteAccounts DEF Balances
<1>2. Quantized(Balances(rows, A)) \in [A -> Int]
    BY <1>1, QuantizeIsNear DEF Quantized
<1>3. Subtotal(rows, A) \in Int
    BY <1>1, SumIsWithin DEF Subtotal
<1> QED BY <1>1, <1>2, <1>3 DEF Balances, TotalOf

LEMMA SubtotalsAdd ==
    ASSUME NEW rows, Rows(rows), NEW A \in SUBSET Accounts, NEW B \in SUBSET Accounts,
           A \cap B = {}
    PROVE  Subtotal(rows, A \cup B) = Subtotal(rows, A) + Subtotal(rows, B)
<1> DEFINE S == A \cup B
           f == Quantized(Balances(rows, S))
           g == Quantized(Balances(rows, A))
           h == Quantized(Balances(rows, B))
<1>1. f \in [S -> Int] /\ IsFiniteSet(S) /\ A \in SUBSET S /\ B \in SUBSET S
    BY BalancesAre
<1>2. IsPart(g, f, A) /\ IsPart(h, f, B)
    BY DEF IsPart, Quantized, Balances
<1>3. A \cup B = S
    OBVIOUS
<1>4. /\ Subtotal(rows, S) = SumFunction(f)
      /\ Subtotal(rows, A) = SumFunction(g) /\ Subtotal(rows, B) = SumFunction(h)
    BY DEF Subtotal
<1> HIDE DEF f, g, h, S
<1>5. SumFunction(f) = SumFunction(g) + SumFunction(h)
    BY <1>1, <1>2, <1>3, SumSplits
<1> QED BY <1>4, <1>5 DEF S

LEMMA DebitsLessCredits ==
    ASSUME NEW S, IsFiniteSet(S), NEW q \in [S -> Int]
    PROVE  /\ Debits(q) \in Int /\ Credits(q) \in Int
           /\ Debits(q) - Credits(q) = SumFunction(q)
<1> DEFINE p == [a \in S |-> IF q[a] > 0 THEN q[a] ELSE 0]
           n == [a \in S |-> IF q[a] < 0 THEN -q[a] ELSE 0]
<1>1. DOMAIN q = S /\ p \in [S -> Int] /\ n \in [S -> Int]
    OBVIOUS
<1>2. p = [a \in S |-> q[a] + n[a]]
    OBVIOUS
<1>3. Debits(q) = SumFunction(p) /\ Credits(q) = SumFunction(n)
    BY <1>1 DEF Debits, Credits
<1> HIDE DEF p, n
<1>4. SumFunction(p) = SumFunction(q) + SumFunction(n)
    BY <1>1, <1>2, SumAdds
<1>5. SumFunction(p) \in Int /\ SumFunction(q) \in Int /\ SumFunction(n) \in Int
    BY <1>1, SumTyped
<1> QED BY <1>3, <1>4, <1>5

-----------------------------------------------------------------------------
(* The books: finite, balanced row by row, one row for each part of an      *)
(* entry that no import made.                                               *)

OneEach(rows) ==
    \A r, v \in rows : ~r.copy /\ ~v.copy /\ r.of = v.of /\ r.part = v.part => r = v

BooksInv == Rows(book) /\ Rows(file) /\ Even(book) /\ OneEach(book) /\ OneEach(file)

(* A report that has read the end of its period still finds it in the books.*)
LaterInv ==
    report.step = "later" =>
        report.later \subseteq book /\ \A r \in report.later : r.status = "posted"

(* What is posted stays. *)
PostedStay == \A r \in book : r.status = "posted" => r \in book'

LEMMA EnteredRow ==
    ASSUME NEW e \in Entries, NEW status \in {"pending", "posted"}
    PROVE  /\ Entered(e, status) \in Row /\ SumFunction(Entered(e, status).legs) = 0
           /\ ~Entered(e, status).copy /\ Entered(e, status).of = e
           /\ Entered(e, status).part = "entry"
BY ReportsAssumption DEF ReportsAssumption, Entered, Row

LEMMA ReversalRow ==
    ASSUME NEW e \in Entries, NEW day \in Dates
    PROVE  /\ Reversal(e, day) \in Row /\ SumFunction(Reversal(e, day).legs) = 0
           /\ ~Reversal(e, day).copy /\ Reversal(e, day).of = e
           /\ Reversal(e, day).part = "reversal"
<1> DEFINE f == Plan[e].legs
           g == [a \in Accounts |-> -f[a]]
           z == [a \in Accounts |-> f[a] + g[a]]
<1>1. f \in [Accounts -> Int] /\ SumFunction(f) = 0 /\ IsFiniteSet(Accounts)
    BY ReportsAssumption DEF ReportsAssumption, Postings
<1>2. g \in [Accounts -> Int]
    BY <1>1
<1>3. \A a \in Accounts : z[a] = 0
    BY <1>1
<1>4. DOMAIN z = Accounts /\ z \in [Accounts -> Int] /\ z = [a \in Accounts |-> z[a] + z[a]]
    BY <1>3
<1>5. Reversal(e, day) = [of |-> e, part |-> "reversal", copy |-> FALSE, day |-> day,
                          status |-> "posted", legs |-> g]
    BY DEF Reversal
<1> DEFINE zz == z
<1>6. SumFunction(z) = SumFunction(f) + SumFunction(g)
  <2> HIDE DEF g
  <2> QED BY <1>1, <1>2, SumAdds
<1> HIDE DEF f, g, z
<1>7. SumFunction(z) = SumFunction(z) + SumFunction(z) /\ SumFunction(z) \in Int
    BY <1>1, <1>4, SumAdds, SumTyped
<1>8. DOMAIN g = Accounts /\ \A a \in Accounts : g[a] \in Int
    BY <1>2
<1>9. SumFunction(g) \in Int
    BY <1>1, <1>8, SumTyped
<1>10. SumFunction(g) = 0
  <2>1. SumFunction(z) = 0
      BY <1>7, OnlyZero
  <2>2. \A n \in Int : 0 = 0 + n => n = 0
      OBVIOUS
  <2>3. 0 = 0 + SumFunction(g)
      BY <1>1, <1>6, <2>1
  <2> QED BY <1>9, <2>2, <2>3
<1> QED BY <1>2, <1>5, <1>10 DEF Row, Postings

(* A part outside of which a function is zero.                              *)
LEMMA SumOfSupport ==
    ASSUME NEW S, IsFiniteSet(S), NEW f \in [S -> Int], NEW A \in SUBSET S,
           \A x \in S \ A : f[x] = 0, NEW g, IsPart(g, f, A)
    PROVE  SumFunction(g) = SumFunction(f)
<1>1. DOMAIN f = S /\ \A x \in S : f[x] = IF x \in A THEN f[x] ELSE 0
    OBVIOUS
<1> QED BY <1>1, SumOfPart DEF IsPart

-----------------------------------------------------------------------------
(* The rows that an import makes.                                           *)

CopyOf(r, to) ==
    [r EXCEPT !.copy = TRUE, !.status = "pending",
              !.legs = [b \in Accounts |->
                  SumFunction([a \in {m \in Named : to[m] = b} |-> r.legs[a]])]]

LEMMA CopiesAre == ASSUME NEW to PROVE Copies(to) = {CopyOf(r, to) : r \in file}
BY DEF Copies, CopyOf

LEMMA NamedFinite == Named \in SUBSET Accounts /\ IsFiniteSet(Named)
BY FiniteAccounts DEF Named

(* The legs of a copy over some accounts are those of the row over the      *)
(* accounts that are resolved to them.                                      *)
LEMMA CopyRow ==
    ASSUME BooksInv, NEW to, NEW r \in file, NEW c, c = CopyOf(r, to)
    PROVE  /\ c \in Row /\ c.copy /\ c.status = "pending" /\ c.of = r.of /\ c.part = r.part
           /\ \A N \in SUBSET Accounts :
                 SumFunction([b \in N |-> c.legs[b]]) = OverFibres(Named, N, to, r.legs)
<1>1. r \in Row /\ r.legs \in [Accounts -> Int]
    BY RowLegs DEF BooksInv, Rows
<1> DEFINE legs == [b \in Accounts |->
                      SumFunction([a \in {m \in Named : to[m] = b} |-> r.legs[a]])]
<1>2. ASSUME NEW b \in Accounts PROVE legs[b] \in Int
  <2> DEFINE D == {m \in Named : to[m] = b}
             f == [a \in D |-> r.legs[a]]
  <2>1. DOMAIN f = D /\ IsFiniteSet(D) /\ \A a \in D : f[a] \in Int
      BY <1>1, NamedFinite, FS_Subset
  <2> HIDE DEF f
  <2>2. SumFunction(f) \in Int
      BY <2>1, SumTyped
  <2> QED BY <2>2 DEF f
<1>3. legs \in [Accounts -> Int]
    BY <1>2
<1>4. ASSUME NEW N \in SUBSET Accounts
      PROVE  SumFunction([b \in N |-> legs[b]]) = OverFibres(Named, N, to, r.legs)
  <2>1. \A x \in Named : r.legs[x] \in Int
      BY <1>1, NamedFinite
  <2>2. ByFibre(Named, N, to, r.legs) = OverFibres(Named, N, to, r.legs)
      BY <2>1, NamedFinite, FiniteAccounts, SumOfFibres
  <2>3. SumFunction([b \in N |-> legs[b]]) = ByFibre(Named, N, to, r.legs)
    <3> DEFINE u == [b \in N |-> legs[b]]
               v == [b \in N |-> SumFunction([x \in {y \in Named : to[y] = b} |-> r.legs[x]])]
    <3>1. u = v
        OBVIOUS
    <3> QED BY <3>1 DEF ByFibre
  <2> QED BY <2>2, <2>3
<1>5. c = [r EXCEPT !.copy = TRUE, !.status = "pending", !.legs = legs]
    BY DEF CopyOf
<1> HIDE DEF legs
<1>6. /\ c \in Row /\ c.copy /\ c.status = "pending" /\ c.of = r.of /\ c.part = r.part
      /\ c.legs = legs
    BY <1>1, <1>3, <1>5 DEF Row, Postings
<1> QED BY <1>4, <1>6

LEMMA CopyEven ==
    ASSUME BooksInv, NEW to \in [Named -> Known], NEW r \in file, Balanced(r)
    PROVE  SumFunction(CopyOf(r, to).legs) = 0
<1> DEFINE c == CopyOf(r, to)
           part == [x \in {y \in Named : to[y] \in Accounts} |-> r.legs[x]]
<1>1. c.legs \in [Accounts -> Int] /\ r.legs \in [Accounts -> Int]
    BY CopyRow, RowLegs DEF BooksInv, Rows
<1>2. SumFunction(c.legs) = OverFibres(Named, Accounts, to, r.legs)
  <2>1. [b \in Accounts |-> c.legs[b]] = c.legs
      BY <1>1
  <2>2. SumFunction([b \in Accounts |-> c.legs[b]]) = OverFibres(Named, Accounts, to, r.legs)
      BY CopyRow
  <2> QED BY <2>1, <2>2
<1>3. OverFibres(Named, Accounts, to, r.legs) = SumFunction(part)
    BY DEF OverFibres
<1>4. {y \in Named : to[y] \in Accounts} = Named
    BY DEF Known
<1>5. IsPart(part, r.legs, Named)
    BY <1>4 DEF IsPart
<1>6. \A x \in Accounts \ Named : r.legs[x] = 0
    BY DEF Named
<1> HIDE DEF part
<1>7. SumFunction(part) = SumFunction(r.legs)
    BY <1>1, <1>5, <1>6, NamedFinite, FiniteAccounts, SumOfSupport
<1> QED BY <1>2, <1>3, <1>7 DEF Balanced

LEMMA FiniteImage ==
    ASSUME NEW S, IsFiniteSet(S), NEW h, DOMAIN h = S
    PROVE  IsFiniteSet({h[x] : x \in S})
<1> DEFINE k == [x \in S |-> h[x]]
           T == {h[x] : x \in S}
<1>1. k \in [S -> T] /\ {k[x] : x \in S} = T
    OBVIOUS
<1> HIDE DEF k, T
<1>2. k \in Surjection(S, T)
    BY <1>1 DEF Surjection
<1>3. IsFiniteSet(T)
    BY <1>2, FS_Surjection
<1> QED BY <1>3 DEF T

LEMMA CopiesFit ==
    ASSUME BooksInv, NEW to \in [Named -> Known], \A r \in file : Balanced(r)
    PROVE  Rows(Copies(to)) /\ Even(Copies(to)) /\ \A c \in Copies(to) : c.copy
<1> DEFINE h == [r \in file |-> CopyOf(r, to)]
<1>1. Copies(to) = {h[r] : r \in file} /\ DOMAIN h = file
    BY CopiesAre
<1>2. IsFiniteSet(Copies(to))
  <2> HIDE DEF h
  <2> QED BY <1>1, FiniteImage DEF BooksInv, Rows
<1>3. \A r \in file : CopyOf(r, to) \in Row /\ CopyOf(r, to).copy
    BY CopyRow
<1> QED BY <1>2, <1>3, CopiesAre, CopyEven DEF Rows, Even

-----------------------------------------------------------------------------
(* What a step does to the books.                                           *)

(* Rows that join the books. *)
Joins(new) == book' = book \cup new /\ Rows(new) /\ Even(new)

LEMMA JoinedBooks ==
    ASSUME BooksInv, NEW new, Joins(new), OneEach(book \cup new)
    PROVE  Rows(book') /\ Even(book') /\ OneEach(book') /\ PostedStay
BY FS_Union DEF Joins, BooksInv, Rows, Even, OneEach, PostedStay

BookKept == Rows(book') /\ Even(book') /\ OneEach(book') /\ PostedStay

LEMMA EnterKeeps ==
    ASSUME BooksInv, NEW e \in Entries, NEW status \in {"pending", "posted"}, Enter(e, status)
    PROVE  BookKept
<1> DEFINE n == Entered(e, status)
           new == {n}
<1>0. /\ n \in Row /\ SumFunction(n.legs) = 0 /\ ~n.copy /\ n.of = e
      /\ book' = book \cup new /\ Unused(e)
    BY EnteredRow DEF Enter, Write
<1> HIDE DEF n
<1>1. Joins(new)
    BY <1>0, FS_Singleton DEF Joins, Rows, Even
<1>2. OneEach(book \cup new)
    BY <1>0 DEF Unused, BooksInv, OneEach
<1> QED BY <1>1, <1>2, JoinedBooks DEF BookKept

LEMMA VoidKeeps ==
    ASSUME BooksInv, NEW r \in book, NEW day \in Dates, Void(r, day)
    PROVE  BookKept
<1> DEFINE new == {Reversal(r.of, day)}
<1>0. r.of \in Entries
    BY DEF BooksInv, Rows, Row
<1>1. Joins(new)
    BY <1>0, ReversalRow, FS_Singleton DEF Void, Write, Joins, Rows, Even
<1>2. OneEach(book \cup new)
    BY <1>0, ReversalRow DEF Void, Voidable, Voided, BooksInv, OneEach
<1> QED BY <1>1, <1>2, JoinedBooks DEF BookKept

LEMMA ReplaceKeeps ==
    ASSUME BooksInv, NEW r \in book, NEW day \in Dates, NEW e \in Entries, Replace(r, day, e)
    PROVE  BookKept
<1> DEFINE v == Reversal(r.of, day)
           n == Entered(e, "posted")
           new == {v, n}
<1>0. r.of \in Entries
    BY DEF BooksInv, Rows, Row
<1>1. /\ v \in Row /\ SumFunction(v.legs) = 0 /\ ~v.copy /\ v.of = r.of /\ v.part = "reversal"
      /\ n \in Row /\ SumFunction(n.legs) = 0 /\ ~n.copy /\ n.of = e /\ n.part = "entry"
    BY <1>0, ReversalRow, EnteredRow
<1>2. book' = book \cup new /\ Unused(e) /\ Voidable(r)
    BY DEF Replace, Write
<1> HIDE DEF v, n
<1>3. Joins(new)
  <2>1. IsFiniteSet({v}) /\ IsFiniteSet({n}) /\ new = {v} \cup {n}
      BY FS_Singleton
  <2>2. IsFiniteSet(new)
      BY <2>1, FS_Union
  <2> QED BY <1>1, <1>2, <2>2 DEF Joins, Rows, Even
<1>4. OneEach(book \cup new)
    BY <1>1, <1>2 DEF Unused, Voidable, Voided, BooksInv, OneEach
<1> QED BY <1>3, <1>4, JoinedBooks DEF BookKept

LEMMA ConfirmKeeps ==
    ASSUME BooksInv, NEW r \in book, Confirm(r)
    PROVE  BookKept
<1> DEFINE p == [r EXCEPT !.status = "posted"]
<1>1. /\ book' = (book \ {r}) \cup {p} /\ r.status = "pending" /\ r \in Row
      /\ SumFunction(r.legs) = 0
    BY DEF Confirm, Write, BooksInv, Rows, Even
<1>2. p \in Row /\ p.legs = r.legs /\ p.of = r.of /\ p.part = r.part /\ p.copy = r.copy
    BY <1>1 DEF Row
<1> HIDE DEF p
<1>3. Rows(book')
  <2>1. IsFiniteSet(book \ {r}) /\ IsFiniteSet({p})
      BY FS_Singleton, FS_Subset DEF BooksInv, Rows
  <2>2. IsFiniteSet(book')
      BY <1>1, <2>1, FS_Union
  <2> QED BY <1>1, <1>2, <2>2 DEF BooksInv, Rows
<1>4. Even(book')
    BY <1>1, <1>2 DEF BooksInv, Even
<1>5. OneEach(book')
    BY <1>1, <1>2 DEF BooksInv, OneEach
<1>6. PostedStay
    BY <1>1 DEF PostedStay
<1> QED BY <1>3, <1>4, <1>5, <1>6 DEF BookKept

LEMMA DiscardKeeps ==
    ASSUME BooksInv, NEW r \in book, Discard(r)
    PROVE  BookKept
<1>1. book' = book \ {r} /\ r.status = "pending"
    BY DEF Discard, Write
<1>2. IsFiniteSet(book')
    BY <1>1, FS_Subset DEF BooksInv, Rows
<1> QED BY <1>1, <1>2 DEF BookKept, BooksInv, Rows, Even, OneEach, PostedStay

LEMMA ImportKeeps ==
    ASSUME BooksInv, Import
    PROVE  BookKept
<1>1. PICK to \in [Named -> Known] : book' = book \cup Copies(to)
    BY DEF Import
<1>2. Joins(Copies(to)) /\ \A c \in Copies(to) : c.copy
    BY <1>1, CopiesFit DEF Import, Joins
<1>3. OneEach(book \cup Copies(to))
    BY <1>2 DEF OneEach, BooksInv
<1> QED BY <1>2, <1>3, JoinedBooks DEF BookKept

(* The file holds rows of the books with some of their legs.                *)
LEMMA ExportKeeps ==
    ASSUME BooksInv, Export
    PROVE  Rows(file') /\ OneEach(file')
<1> DEFINE rows == {r \in Listed(report.start, report.end) : Written(r, report) # {}}
           Cut(r) == [r EXCEPT !.legs = [a \in Accounts |->
                         IF a \in Written(r, report) THEN r.legs[a] ELSE 0]]
           h == [r \in rows |-> Cut(r)]
<1>1. file' = {h[r] : r \in rows} /\ DOMAIN h = rows
    BY DEF Export
<1>2. rows \in SUBSET book /\ IsFiniteSet(rows)
    BY FS_Subset DEF Listed, BooksInv, Rows
<1>3. ASSUME NEW r \in rows
      PROVE  h[r] \in Row /\ h[r].copy = r.copy /\ h[r].of = r.of /\ h[r].part = r.part
  <2>1. r \in Row /\ r.legs \in [Accounts -> Int]
      BY <1>2, RowLegs DEF BooksInv, Rows
  <2> DEFINE legs == [a \in Accounts |-> IF a \in Written(r, report) THEN r.legs[a] ELSE 0]
  <2>2. legs \in [Accounts -> Int]
      BY <2>1
  <2>3. h[r] = [r EXCEPT !.legs = legs]
      OBVIOUS
  <2> HIDE DEF h, legs
  <2> QED BY <2>1, <2>2, <2>3 DEF Row, Postings
<1> HIDE DEF h, rows
<1>4. IsFiniteSet(file')
    BY <1>1, <1>2, FiniteImage
<1>5. Rows(file')
    BY <1>1, <1>3, <1>4 DEF Rows
<1>6. OneEach(file')
    BY <1>1, <1>2, <1>3 DEF OneEach, BooksInv
<1> QED BY <1>5, <1>6

-----------------------------------------------------------------------------
(* Types, and the invariant behind the reports.                             *)

Begins ==
    \/ BeginTrial \/ BeginSheet \/ BeginStatement \/ BeginCashFlow \/ BeginExport

Answers == ReadTrial \/ ReadSheet \/ ReadStatement \/ ReadCashFlow

Writes ==
    \/ \E e \in Entries, status \in {"pending", "posted"} : Enter(e, status)
    \/ \E r \in book : Confirm(r) \/ Discard(r)
    \/ \E r \in book, day \in Dates : Void(r, day) \/ \E e \in Entries : Replace(r, day, e)

Settings == \E a \in Accounts : Open(a) \/ Close(a)

LEMMA NextIs ==
    RpNext <=> \/ Writes \/ Settings \/ (\E old \in SUBSET log : Sweep(old))
               \/ Begins \/ BeginAudit \/ Answers \/ ReadLater \/ Export \/ Import \/ ReadPage
BY DEF RpNext, Writes, Settings, Begins, Answers

LEMMA WritesAre ==
    ASSUME BooksInv, Writes
    PROVE  BookKept /\ Audited /\ UNCHANGED <<account, file>>
<1>1. BookKept
    BY EnterKeeps, ConfirmKeeps, DiscardKeeps, VoidKeeps, ReplaceKeeps DEF Writes
<1>2. Audited /\ UNCHANGED <<account, file>>
    BY DEF Writes, Enter, Confirm, Discard, Void, Replace, Write
<1> QED BY <1>1, <1>2

LEMMA BeginsAre ==
    ASSUME RpTypeOK, Begins
    PROVE  /\ report.step = "done" /\ report'.step = "chart" /\ report' \in Report
           /\ UNCHANGED <<account, book, file, log, commits>>
<1>1. PICK kind \in {"trial", "what-if", "sheet", "statement", "flow", "export"},
           by \in {"admin", "member"}, start \in Dates \cup {1}, end \in Dates :
         BeginReport(kind, by, start, end)
    BY DEF Begins, BeginTrial, BeginSheet, BeginStatement, BeginCashFlow, BeginExport
<1>2. start \in Dates
  <2>1. Dates = 1 .. Cardinality(Dates) /\ Cardinality(Dates) \in Nat
      BY ReportsAssumption, FS_CardinalityType DEF ReportsAssumption
  <2>2. end \in 1 .. Cardinality(Dates)
      BY <2>1
  <2> QED BY <2>1, <2>2
<1>3. Known \in SUBSET Accounts /\ {a \in Accounts : account[a] = "open"} \in SUBSET Accounts
    BY DEF Known
<1> QED BY <1>1, <1>2, <1>3 DEF BeginReport, Read, Report

(* A report that is under way. *)
LEMMA UnderWay ==
    ASSUME RpTypeOK, report.step \in {"chart", "later"}
    PROVE  /\ report \in [kind : {"trial", "what-if", "sheet", "statement", "flow", "export"},
                          step : {"chart", "later"}, by : {"admin", "member"},
                          start : Dates, end : Dates,
                          chart : SUBSET Accounts, later : SUBSET Row]
           /\ \A types : Shown(report, types) \in SUBSET Accounts
BY DEF RpTypeOK, Report, NoReport, Shown

LEMMA TrialRows ==
    ASSUME BooksInv, NEW day, NEW pending
    PROVE  Rows(TrialBalance(day, pending)) /\ Even(TrialBalance(day, pending))
BY FS_Subset DEF BooksInv, Rows, Even, TrialBalance

LEMMA LaterRows == ASSUME BooksInv, LaterInv, report.step = "later" PROVE Rows(report.later)
BY FS_Subset DEF BooksInv, Rows, LaterInv

LEMMA TotalsAreIntegers ==
    ASSUME NEW rows, Rows(rows), NEW A \in SUBSET Accounts PROVE TotalOf(rows, A) \in Int
BY TotalIsByRow

LEMMA PostedRows ==
    ASSUME BooksInv, NEW day
    PROVE  Rows(TrialBalance(day, FALSE)) /\ Even(TrialBalance(day, FALSE))
BY FS_Subset DEF BooksInv, Rows, Even, TrialBalance

(* What a report adds up is integers, and it is answered with them.         *)
LEMMA ShownSubtotals ==
    ASSUME RpTypeOK, BooksInv, report.step \in {"chart", "later"}, NEW day, NEW types
    PROVE  Subtotal(TrialBalance(day, FALSE), Shown(report, types)) \in Int
<1>1. Rows(TrialBalance(day, FALSE)) /\ Shown(report, types) \in SUBSET Accounts
    BY PostedRows, UnderWay
<1> QED BY <1>1, BalancesAre

LEMMA ChangesTyped ==
    ASSUME RpTypeOK, BooksInv, LaterInv, report.step = "later", NEW types
    PROVE  /\ Gone(report, types) \in SUBSET Accounts
           /\ \A a \in Gone(report, types) : Change(report, a) \in Int /\ -Change(report, a) \in Int
<1>1. Gone(report, types) \in SUBSET Accounts
    BY UnderWay DEF Gone
<1>2. ASSUME NEW a \in Gone(report, types)
      PROVE  Change(report, a) \in Int /\ -Change(report, a) \in Int
  <2> DEFINE x == BalanceOf(report.later, a)
             y == BalanceOf(TrialBalance(PriorDay(report), FALSE), a)
  <2>1. x \in Int /\ y \in Int
      BY <1>1, <1>2, LaterRows, PostedRows, BalancesTyped
  <2>2. Change(report, a) = x - y
      BY DEF Change
  <2> HIDE DEF x, y
  <2> QED BY <2>1, <2>2
<1> QED BY <1>1, <1>2

(* The sum of the rounded changes of the accounts of a type.                *)
LEMMA RoundedChanges ==
    ASSUME RpTypeOK, BooksInv, LaterInv, report.step = "later", NEW types
    PROVE  /\ SumFunction(Quantized([a \in Gone(report, types) |-> Change(report, a)])) \in Int
           /\ SumFunction(Quantized([a \in Gone(report, types) |-> -Change(report, a)])) \in Int
<1> DEFINE S == Gone(report, types)
           f == [a \in S |-> Change(report, a)]
           g == [a \in S |-> -Change(report, a)]
<1>1. IsFiniteSet(S) /\ f \in [S -> Int] /\ g \in [S -> Int]
    BY ChangesTyped, FiniteAccounts
<1> HIDE DEF S, f, g
<1>2. SumFunction(Quantized(f)) \in Int /\ SumFunction(Quantized(g)) \in Int
    BY <1>1, SumIsWithin
<1> QED BY <1>2 DEF S, f, g

LEMMA AnswersAre ==
    ASSUME RpTypeOK, BooksInv, LaterInv, Answers
    PROVE  /\ report'.step = "done" /\ report' \in Report
           /\ UNCHANGED <<account, book, file, log, commits>>
<1>1. CASE ReadTrial
  <2> DEFINE rows == TrialBalance(report.end, report.kind = "what-if")
             q == Quantized(Balances(rows, Shown(report, Types)))
             x == Debits(q)
             y == Credits(q)
  <2>1. x \in Int /\ y \in Int
    <3>1. Rows(rows) /\ Shown(report, Types) \in SUBSET Accounts
        BY <1>1, TrialRows, UnderWay DEF ReadTrial
    <3> HIDE DEF rows
    <3>2. q \in [Shown(report, Types) -> Int] /\ IsFiniteSet(Shown(report, Types))
        BY <3>1, BalancesAre
    <3> HIDE DEF q
    <3> QED BY <3>2, DebitsLessCredits
  <2>2. /\ report' = [kind |-> report.kind, step |-> "done", debits |-> x, credits |-> y]
        /\ report.kind \in {"trial", "what-if"} /\ UNCHANGED <<account, book, file, log, commits>>
      BY <1>1 DEF ReadTrial, Read
  <2> HIDE DEF x, y
  <2> QED BY <2>1, <2>2 DEF Report
<1>2. CASE ReadSheet
  <2> DEFINE of(types) == Subtotal(TrialBalance(report.end, FALSE), Shown(report, types))
             w == of({"asset"})
             x == of({"liability"})
             y == of({"equity"})
             z == of({"income", "expense"})
  <2>1. w \in Int /\ x \in Int /\ y \in Int /\ z \in Int
      BY <1>2, ShownSubtotals DEF ReadSheet
  <2>2. /\ report' = [kind |-> "sheet", step |-> "done", assets |-> w, liabilities |-> x,
                      equity |-> y, retained |-> -z]
        /\ UNCHANGED <<account, book, file, log, commits>>
      BY <1>2 DEF ReadSheet, Read, Retained
  <2> HIDE DEF w, x, y, z
  <2>3. -z \in Int
      BY <2>1
  <2> QED BY <2>1, <2>2, <2>3 DEF Report
<1>3. CASE ReadStatement
  <2> DEFINE x == SumFunction(Quantized([a \in Gone(report, {"income"}) |-> -Change(report, a)]))
             y == SumFunction(Quantized([a \in Gone(report, {"expense"}) |-> Change(report, a)]))
  <2>1. x \in Int /\ y \in Int
      BY <1>3, RoundedChanges DEF ReadStatement
  <2>2. /\ report' = [kind |-> "statement", step |-> "done", revenue |-> x, expenses |-> y]
        /\ UNCHANGED <<account, book, file, log, commits>>
      BY <1>3 DEF ReadStatement, Read
  <2> HIDE DEF x, y
  <2> QED BY <2>1, <2>2 DEF Report
<1>4. CASE ReadCashFlow
  <2> DEFINE x == SumFunction(Quantized([a \in Gone(report, {"asset"}) |-> Change(report, a)]))
  <2>1. x \in Int
      BY <1>4, RoundedChanges DEF ReadCashFlow
  <2>2. /\ report' = [kind |-> "flow", step |-> "done", net |-> x]
        /\ UNCHANGED <<account, book, file, log, commits>>
      BY <1>4 DEF ReadCashFlow, Read
  <2> HIDE DEF x
  <2> QED BY <2>1, <2>2 DEF Report
<1> QED BY <1>1, <1>2, <1>3, <1>4 DEF Answers

LEMMA LaterIs ==
    ASSUME RpTypeOK, ReadLater
    PROVE  /\ report.step = "chart" /\ report' \in Report /\ report'.step = "later"
           /\ report'.later = TrialBalance(report.end, FALSE)
           /\ UNCHANGED <<account, book, file, log, commits>>
<1>1. report.step = "chart" /\ UNCHANGED <<account, book, file, log, commits>>
    BY DEF ReadLater, Read
<1>2. TrialBalance(report.end, FALSE) \in SUBSET Row
    BY DEF RpTypeOK, TrialBalance
<1> QED BY <1>1, <1>2, UnderWay DEF ReadLater, Read, Report

LEMMA PageIs ==
    ASSUME RpTypeOK, ReadPage
    PROVE  /\ report.step = "page" /\ report' \in Report /\ report'.step \in {"page", "done"}
           /\ report.kind = "audit"
           /\ UNCHANGED <<account, book, file, log, commits>>
<1>1. report.step = "page" /\ UNCHANGED <<account, book, file, log, commits>>
    BY DEF ReadPage, Read
<1>2. report \in [kind : {"audit"}, step : {"page", "done"}, offset : Nat, seen : SUBSET Nat,
                  first : SUBSET Nat, swept : BOOLEAN]
    BY <1>1 DEF RpTypeOK, Report, NoReport
<1>3. PageAt(report.offset) \in SUBSET Nat /\ report.offset + PageSize \in Nat
  <2>1. PageAt(report.offset) \in SUBSET log /\ log \in SUBSET Nat
      BY DEF RpTypeOK, PageAt
  <2>2. report.offset \in Nat /\ PageSize \in Nat
      BY <1>2, ReportsAssumption DEF ReportsAssumption
  <2>3. report.offset + PageSize \in Nat
      BY <2>2
  <2> QED BY <2>1, <2>3
<1> DEFINE page == PageAt(report.offset)
           step == IF Cardinality(page) < PageSize THEN "done" ELSE "page"
<1>4. report' = [report EXCEPT !.seen = report.seen \cup page,
                               !.offset = report.offset + PageSize, !.step = step]
    BY DEF ReadPage, Read
<1>5. step \in {"page", "done"}
    OBVIOUS
<1> HIDE DEF page, step
<1>6. report' \in Report /\ report'.step \in {"page", "done"}
    BY <1>2, <1>3, <1>4, <1>5 DEF Report, page
<1> QED BY <1>1, <1>2, <1>6

ReportInv == RpTypeOK /\ BooksInv /\ LaterInv

LEMMA ReportInvInit == RpInit => ReportInv
<1> SUFFICES ASSUME RpInit PROVE ReportInv
    OBVIOUS
<1>1. RpTypeOK
    BY ReportsAssumption DEF RpInit, RpTypeOK, ReportsAssumption, Report
<1>2. BooksInv
    BY FS_EmptySet DEF RpInit, BooksInv, Rows, Even, OneEach
<1>3. LaterInv
    BY DEF RpInit, LaterInv, NoReport
<1> QED BY <1>1, <1>2, <1>3 DEF ReportInv

LEMMA LogGrows ==
    ASSUME RpTypeOK, Audited
    PROVE  commits' \in 0 .. MaxCommits /\ log' \subseteq 1 .. commits' /\ report' = report
BY ReportsAssumption DEF RpTypeOK, Audited, ReportsAssumption

LEMMA SweepIs ==
    ASSUME RpTypeOK, NEW old \in SUBSET log, Sweep(old)
    PROVE  /\ commits' \in 0 .. MaxCommits /\ log' \subseteq 1 .. commits'
           /\ report' \in Report /\ UNCHANGED <<account, book, file>>
           /\ report'.step = report.step
           /\ report.step # "page" => report' = report
           /\ report.step = "page" => report'.swept
<1>1. commits' \in 0 .. MaxCommits /\ log' \subseteq 1 .. commits' /\ UNCHANGED <<account, book, file>>
    BY ReportsAssumption DEF RpTypeOK, Sweep, ReportsAssumption
<1>2. CASE report.step # "page"
    BY <1>1, <1>2 DEF Sweep, RpTypeOK
<1>3. CASE report.step = "page"
  <2>1. report \in [kind : {"audit"}, step : {"page", "done"}, offset : Nat, seen : SUBSET Nat,
                    first : SUBSET Nat, swept : BOOLEAN]
      BY <1>3 DEF RpTypeOK, Report, NoReport
  <2>2. report' = [report EXCEPT !.swept = TRUE]
      BY <1>3 DEF Sweep
  <2> QED BY <1>1, <1>3, <2>1, <2>2 DEF Report
<1> QED BY <1>2, <1>3

LEMMA AuditIs ==
    ASSUME RpTypeOK, BeginAudit
    PROVE  /\ report' \in Report /\ report'.step = "page" /\ report'.kind = "audit"
           /\ report'.offset = 0 /\ report'.first = log
           /\ report.step = "done" /\ UNCHANGED <<account, book, file, log, commits>>
<1>1. log \in SUBSET Nat
    BY DEF RpTypeOK
<1> QED BY <1>1 DEF BeginAudit, Read, Report

LEMMA SettingsAre ==
    ASSUME RpTypeOK, Settings
    PROVE  /\ Audited /\ UNCHANGED <<book, file>>
           /\ account' \in [Accounts -> {"absent", "open", "closed"}]
BY DEF RpTypeOK, Settings, Open, Close, SetAccount

LEMMA ReportInvStep == ReportInv /\ [RpNext]_RpVars => ReportInv'
<1> SUFFICES ASSUME RpTypeOK, BooksInv, LaterInv, [RpNext]_RpVars
             PROVE  RpTypeOK' /\ BooksInv' /\ LaterInv'
    BY DEF ReportInv
<1>0. book \subseteq Row /\ file \subseteq Row
    BY DEF RpTypeOK
<1>1. CASE Writes
    BY <1>1, WritesAre, LogGrows DEF RpTypeOK, BooksInv, LaterInv, BookKept, PostedStay, Rows
<1>2. CASE Settings
    BY <1>2, SettingsAre, LogGrows DEF RpTypeOK, BooksInv, LaterInv
<1>3. CASE \E old \in SUBSET log : Sweep(old)
  <2>1. PICK old \in SUBSET log : Sweep(old)
      BY <1>3
  <2> QED BY <2>1, SweepIs DEF RpTypeOK, BooksInv, LaterInv
<1>4. CASE Begins
    BY <1>4, BeginsAre DEF RpTypeOK, BooksInv, LaterInv
<1>5. CASE BeginAudit
    BY <1>5, AuditIs DEF RpTypeOK, BooksInv, LaterInv
<1>6. CASE Answers
    BY <1>6, AnswersAre DEF RpTypeOK, BooksInv, LaterInv
<1>7. CASE ReadLater
  <2>1. \A r \in TrialBalance(report.end, FALSE) : r \in book /\ r.status = "posted"
      BY DEF TrialBalance, Counted
  <2> QED BY <1>7, <2>1, LaterIs DEF RpTypeOK, BooksInv, LaterInv
<1>8. CASE Export
    BY <1>8, ExportKeeps DEF Export, RpTypeOK, BooksInv, LaterInv, Report, Rows, NoReport
<1>9. CASE Import
    BY <1>9, ImportKeeps DEF Import, RpTypeOK, BooksInv, LaterInv, BookKept, PostedStay, Rows
<1>10. CASE ReadPage
    BY <1>10, PageIs DEF RpTypeOK, BooksInv, LaterInv
<1>11. CASE UNCHANGED RpVars
    BY <1>11 DEF RpVars, RpTypeOK, BooksInv, LaterInv
<1> QED BY <1>1, <1>2, <1>3, <1>4, <1>5, <1>6, <1>7, <1>8, <1>9, <1>10, <1>11, NextIs

(* The type invariant of Reports. *)
THEOREM ReportsTyped == RpSpec => []RpTypeOK
<1>1. RpSpec => []ReportInv
    BY ReportInvInit, ReportInvStep, PTL DEF RpSpec
<1>2. ReportInv => RpTypeOK
    BY DEF ReportInv
<1> QED BY <1>1, <1>2, PTL

-----------------------------------------------------------------------------
(* The steps that end a report.                                             *)

LEMMA EndsBy ==
    ASSUME ReportInv, [RpNext]_RpVars, NEW kinds, Ends(kinds)
    PROVE  Answers \/ (ReadPage /\ report.kind = "audit") \/ (Export /\ report.kind = "export")
<1>0. RpTypeOK /\ BooksInv /\ LaterInv
    BY DEF ReportInv
<1>1. CASE Writes
    BY <1>0, <1>1, WritesAre DEF Audited, Ends
<1>2. CASE Settings
    BY <1>0, <1>2, SettingsAre DEF Audited, Ends
<1>3. CASE \E old \in SUBSET log : Sweep(old)
    BY <1>0, <1>3, SweepIs DEF Ends
<1>4. CASE Begins \/ BeginAudit
    BY <1>0, <1>4, BeginsAre, AuditIs DEF Ends
<1>5. CASE ReadLater
    BY <1>0, <1>5, LaterIs DEF Ends
<1>6. CASE Import \/ UNCHANGED RpVars
    BY <1>6 DEF Import, Ends, RpVars
<1>7. CASE ReadPage
    BY <1>0, <1>7, PageIs
<1>8. CASE Export
    BY <1>8 DEF Export
<1> QED BY <1>1, <1>2, <1>3, <1>4, <1>5, <1>6, <1>7, <1>8, NextIs

-----------------------------------------------------------------------------
(* A report balances against what it does not show.                         *)

LEMMA Opposite == \A n, m \in Int : n + m = 0 => n = -m
OBVIOUS

LEMMA ShownAndNot ==
    ASSUME NEW rows, Rows(rows), Even(rows), NEW A \in SUBSET Accounts
    PROVE  TotalOf(rows, A) = -TotalOf(rows, Accounts \ A)
<1> DEFINE B == Accounts \ A
<1>1. TotalOf(rows, A) \in Int /\ TotalOf(rows, B) \in Int
    BY TotalsAreIntegers
<1>2. A \cup B = Accounts /\ A \cap B = {} /\ B \in SUBSET Accounts
    OBVIOUS
<1> HIDE DEF B
<1>3. TotalOf(rows, A) + TotalOf(rows, B) = 0
    BY <1>2, TotalOverAccounts, EvenTotal
<1>4. TotalOf(rows, A) = -TotalOf(rows, B)
    BY <1>1, <1>3, Opposite
<1> QED BY <1>4 DEF B

(* The rounded balances of what is shown come near what is not.             *)
LEMMA RoundedShown ==
    ASSUME NEW rows, Rows(rows), Even(rows), NEW A \in SUBSET Accounts
    PROVE  IsWithin(Subtotal(rows, A), -TotalOf(rows, Accounts \ A), Balances(rows, A))
<1>1. TotalOf(rows, A) = -TotalOf(rows, Accounts \ A)
    BY ShownAndNot
<1>2. Balances(rows, A) \in [A -> Int] /\ IsFiniteSet(A)
      /\ SumFunction(Balances(rows, A)) = TotalOf(rows, A)
    BY BalancesAre
<1>3. IsWithin(SumFunction(Quantized(Balances(rows, A))), SumFunction(Balances(rows, A)),
               Balances(rows, A))
    BY <1>2, SumIsWithin
<1>4. IsWithin(Subtotal(rows, A), TotalOf(rows, A), Balances(rows, A))
    BY <1>2, <1>3 DEF Subtotal
<1> QED BY <1>1, <1>4

LEMMA TrialBalances ==
    ASSUME ReportInv, ReadTrial
    PROVE  IsWithin(report'.debits - report'.credits,
                    -TotalOf(TrialBalance(report.end, report.kind = "what-if"),
                             Accounts \ Shown(report, Types)),
                    Balances(TrialBalance(report.end, report.kind = "what-if"),
                             Shown(report, Types)))
<1> DEFINE rows == TrialBalance(report.end, report.kind = "what-if")
           A == Shown(report, Types)
           q == Quantized(Balances(rows, A))
<1>1. Rows(rows) /\ Even(rows) /\ A \in SUBSET Accounts
    BY TrialRows, UnderWay DEF ReportInv, ReadTrial
<1>2. report'.debits = Debits(q) /\ report'.credits = Credits(q)
    BY DEF ReadTrial, Read
<1> HIDE DEF rows, A
<1>3. q \in [A -> Int] /\ IsFiniteSet(A)
    BY <1>1, BalancesAre
<1>4. SumFunction(q) = Subtotal(rows, A)
    BY DEF Subtotal
<1> HIDE DEF q
<1>5. report'.debits - report'.credits = Subtotal(rows, A)
    BY <1>2, <1>3, <1>4, DebitsLessCredits
<1>6. IsWithin(report'.debits - report'.credits, -TotalOf(rows, Accounts \ A), Balances(rows, A))
    BY <1>1, <1>5, RoundedShown
<1> QED BY <1>6 DEF rows, A

LEMMA SheetBalances ==
    ASSUME ReportInv, ReadSheet
    PROVE  IsWithin(report'.assets + report'.liabilities + report'.equity - report'.retained,
                    -TotalOf(TrialBalance(report.end, FALSE), Accounts \ Shown(report, Types)),
                    Balances(TrialBalance(report.end, FALSE), Shown(report, Types)))
<1> DEFINE rows == TrialBalance(report.end, FALSE)
           A == Shown(report, {"asset"})
           B == Shown(report, {"liability"})
           C == Shown(report, {"equity"})
           D == Shown(report, {"income", "expense"})
           all == Shown(report, Types)
<1>1. /\ Rows(rows) /\ Even(rows)
      /\ A \in SUBSET Accounts /\ B \in SUBSET Accounts /\ C \in SUBSET Accounts
      /\ D \in SUBSET Accounts /\ all \in SUBSET Accounts
    BY PostedRows, UnderWay DEF ReportInv, ReadSheet
<1>2. /\ ((A \cup B) \cup C) \cup D = all /\ A \cap B = {} /\ (A \cup B) \cap C = {}
      /\ ((A \cup B) \cup C) \cap D = {}
    BY DEF Types, Shown
<1>3. /\ report'.assets = Subtotal(rows, A) /\ report'.liabilities = Subtotal(rows, B)
      /\ report'.equity = Subtotal(rows, C) /\ report'.retained = -Subtotal(rows, D)
    BY DEF ReadSheet, Retained, Read
<1> HIDE DEF rows, A, B, C, D, all
<1>4. /\ Subtotal(rows, A) \in Int /\ Subtotal(rows, B) \in Int
      /\ Subtotal(rows, C) \in Int /\ Subtotal(rows, D) \in Int
    BY <1>1, BalancesAre
<1>5. /\ Subtotal(rows, A \cup B) = Subtotal(rows, A) + Subtotal(rows, B)
      /\ Subtotal(rows, (A \cup B) \cup C) = Subtotal(rows, A \cup B) + Subtotal(rows, C)
      /\ Subtotal(rows, ((A \cup B) \cup C) \cup D)
            = Subtotal(rows, (A \cup B) \cup C) + Subtotal(rows, D)
  <2>1. A \cup B \in SUBSET Accounts /\ (A \cup B) \cup C \in SUBSET Accounts
      BY <1>1
  <2>2. Subtotal(rows, A \cup B) = Subtotal(rows, A) + Subtotal(rows, B)
      BY <1>1, <1>2, SubtotalsAdd
  <2>3. Subtotal(rows, (A \cup B) \cup C) = Subtotal(rows, A \cup B) + Subtotal(rows, C)
      BY <1>1, <1>2, <2>1, SubtotalsAdd
  <2>4. Subtotal(rows, ((A \cup B) \cup C) \cup D)
            = Subtotal(rows, (A \cup B) \cup C) + Subtotal(rows, D)
      BY <1>1, <1>2, <2>1, SubtotalsAdd
  <2> QED BY <2>2, <2>3, <2>4
<1>6. Subtotal(rows, all) = ((Subtotal(rows, A) + Subtotal(rows, B)) + Subtotal(rows, C))
                              + Subtotal(rows, D)
    BY <1>2, <1>5
<1>7. report'.assets + report'.liabilities + report'.equity - report'.retained
         = Subtotal(rows, all)
  <2>1. \A w, x, y, z \in Int : w + x + y - (-z) = ((w + x) + y) + z
      OBVIOUS
  <2>2. Subtotal(rows, A) + Subtotal(rows, B) + Subtotal(rows, C) - (-Subtotal(rows, D))
           = Subtotal(rows, all)
      BY <1>4, <1>6, <2>1
  <2> QED BY <1>3, <2>2
<1>8. IsWithin(report'.assets + report'.liabilities + report'.equity - report'.retained,
               -TotalOf(rows, Accounts \ all), Balances(rows, all))
    BY <1>1, <1>7, RoundedShown
<1> QED BY <1>8 DEF rows, all

(* The two sides of a trial balance and of a balance sheet differ by what   *)
(* is held in accounts that are not shown, and by half a unit at most for   *)
(* each account shown whose balance is rounded.                             *)
THEOREM ReportsBalance == RpSpec => TotalsBalance
<1> DEFINE A == Ends({"trial", "what-if", "sheet"}) =>
                LET rows == TrialBalance(report.end, report.kind = "what-if")
                    A    == Shown(report, Types)
                    over == IF report.kind = "sheet"
                              THEN report'.assets + report'.liabilities + report'.equity
                                   - report'.retained
                              ELSE report'.debits - report'.credits
                IN  IsWithin(over, -TotalOf(rows, Accounts \ A), Balances(rows, A))
<1>1. RpSpec => []ReportInv
    BY ReportInvInit, ReportInvStep, PTL DEF RpSpec
<1>2. ReportInv /\ [RpNext]_RpVars => [A]_RpVars
  <2> SUFFICES ASSUME ReportInv, [RpNext]_RpVars, Ends({"trial", "what-if", "sheet"}) PROVE A
      OBVIOUS
  <2>1. report.kind \in {"trial", "what-if", "sheet"}
      BY DEF Ends
  <2>2. ReadTrial \/ ReadSheet
      BY <2>1, EndsBy DEF Answers, ReadStatement, ReadCashFlow
  <2>3. CASE ReadTrial
    <3>1. report.kind # "sheet"
        BY <2>3 DEF ReadTrial
    <3> QED BY <2>3, <3>1, TrialBalances
  <2>4. CASE ReadSheet
    <3>1. /\ TrialBalance(report.end, report.kind = "what-if") = TrialBalance(report.end, FALSE)
          /\ report.kind = "sheet"
        BY <2>4 DEF ReadSheet, TrialBalance, Counted
    <3> QED BY <2>4, <3>1, SheetBalances
  <2> QED BY <2>2, <2>3, <2>4
<1>3. TotalsBalance <=> [][A]_RpVars
    BY DEF TotalsBalance
<1> HIDE DEF A
<1> QED BY <1>1, <1>2, <1>3, PTL DEF RpSpec

-----------------------------------------------------------------------------
(* A statement counts its period.                                           *)

Inside == {r \in report.later : r.day >= report.start}
Late   == {r \in book \ report.later : r.status = "posted" /\ r.day < report.start}
Early  == {r \in report.later : r.day < report.start}

LEMMA DayIsNat == \A d \in Dates : d \in Nat
<1>1. Dates = 1 .. Cardinality(Dates) /\ Cardinality(Dates) \in Nat
    BY ReportsAssumption, FS_CardinalityType DEF ReportsAssumption
<1> QED BY <1>1

LEMMA PeriodRows ==
    ASSUME RpTypeOK, BooksInv, LaterInv, report.step = "later",
           report.kind = "flow" => report.start > 1
    PROVE  /\ Rows(Inside) /\ Rows(Late) /\ Rows(Early)
           /\ report.later = Inside \cup Early /\ Inside \cap Early = {}
           /\ TrialBalance(PriorDay(report), FALSE) = Early \cup Late
           /\ Early \cap Late = {}
<1>1. report.start \in Nat /\ \A r \in book : r.day \in Nat
    BY UnderWay, DayIsNat DEF RpTypeOK, Row
<1>2. report.later \in SUBSET book /\ \A r \in report.later : r.status = "posted"
    BY DEF LaterInv
<1>3. Inside \in SUBSET book /\ Late \in SUBSET book /\ Early \in SUBSET book
    BY <1>2 DEF Inside, Late, Early
<1>4. Rows(Inside) /\ Rows(Late) /\ Rows(Early)
    BY <1>3, FS_Subset DEF BooksInv, Rows
<1>5. report.later = Inside \cup Early /\ Inside \cap Early = {}
    BY <1>1, <1>2 DEF Inside, Early
<1>6. TrialBalance(PriorDay(report), FALSE)
         = {r \in book : r.day < report.start /\ r.status = "posted"}
  <2>1. PriorDay(report) = report.start - 1
      BY <1>1 DEF PriorDay
  <2> QED BY <1>1, <2>1 DEF TrialBalance, Counted
<1>7. {r \in book : r.day < report.start /\ r.status = "posted"} = Early \cup Late
    BY <1>2 DEF Early, Late
<1>8. Early \cap Late = {}
    BY DEF Early, Late
<1> QED BY <1>4, <1>5, <1>6, <1>7, <1>8

LEMMA Regroup == \A i, e, l \in Int : (i + e) - (e + l) = i - l
OBVIOUS

LEMMA PeriodChange ==
    ASSUME RpTypeOK, BooksInv, LaterInv, report.step = "later",
           report.kind = "flow" => report.start > 1, NEW a \in Accounts
    PROVE  Change(report, a) = BalanceOf(Inside, a) - BalanceOf(Late, a)
<1> DEFINE before == TrialBalance(PriorDay(report), FALSE)
<1>1. Change(report, a) = BalanceOf(report.later, a) - BalanceOf(before, a)
    BY DEF Change
<1>2. /\ Rows(Inside) /\ Rows(Late) /\ Rows(Early)
      /\ report.later = Inside \cup Early /\ Inside \cap Early = {}
      /\ before = Early \cup Late /\ Early \cap Late = {}
    BY PeriodRows
<1> HIDE DEF before
<1>3. BalanceOf(report.later, a) = BalanceOf(Inside, a) + BalanceOf(Early, a)
  <2>1. BalanceOf(Inside \cup Early, a) = BalanceOf(Inside, a) + BalanceOf(Early, a)
      BY <1>2, BalanceOverRows
  <2> QED BY <1>2, <2>1
<1>4. BalanceOf(before, a) = BalanceOf(Early, a) + BalanceOf(Late, a)
  <2>1. BalanceOf(Early \cup Late, a) = BalanceOf(Early, a) + BalanceOf(Late, a)
      BY <1>2, BalanceOverRows
  <2> QED BY <1>2, <2>1
<1>5. BalanceOf(Inside, a) \in Int /\ BalanceOf(Early, a) \in Int /\ BalanceOf(Late, a) \in Int
    BY <1>2, BalancesTyped
<1> QED BY <1>1, <1>3, <1>4, <1>5, Regroup

(* The accounts with postings by the end of the period, and what each       *)
(* counts.                                                                  *)
GoneFor(type) == {a \in Shown(report, {type}) : \E r \in report.later : r.legs[a] # 0}
Counts(a) == BalanceOf(Inside, a) - BalanceOf(Late, a)

LEMMA ChangesCount ==
    ASSUME RpTypeOK, BooksInv, LaterInv, report.step = "later",
           report.kind = "flow" => report.start > 1, NEW type,
           NEW f, NEW g, f = [a \in Gone(report, {type}) |-> Change(report, a)],
           g = [a \in Gone(report, {type}) |-> -Change(report, a)]
    PROVE  /\ f = [a \in GoneFor(type) |-> Counts(a)]
           /\ g = [a \in GoneFor(type) |-> -Counts(a)]
           /\ IsWithin(SumFunction(Quantized(f)), SumFunction(f), f)
           /\ IsWithin(SumFunction(Quantized(g)), SumFunction(g), g)
<1> DEFINE S == Gone(report, {type})
<1>1. S \in SUBSET Accounts /\ IsFiniteSet(S) /\ S = GoneFor(type)
    BY ChangesTyped, FiniteAccounts DEF Gone, GoneFor
<1>2. \A a \in S : Change(report, a) = Counts(a)
    BY <1>1, PeriodChange DEF Counts
<1>3. f \in [S -> Int] /\ g \in [S -> Int]
    BY ChangesTyped
<1>4. f = [a \in S |-> Counts(a)] /\ g = [a \in S |-> -Counts(a)]
    BY <1>2
<1> HIDE DEF S
<1>5. /\ IsWithin(SumFunction(Quantized(f)), SumFunction(f), f)
      /\ IsWithin(SumFunction(Quantized(g)), SumFunction(g), g)
    BY <1>1, <1>3, SumIsWithin
<1> QED BY <1>1, <1>4, <1>5

(* An income statement and a cash flow count, by account, the rows of their *)
(* period that were there when its end was read, less what was written      *)
(* before the period in between, but for the accounts that had no row at    *)
(* the end, and half a unit at most for each that is rounded.               *)
THEOREM StatementsCount == RpSpec => StatementCountsItsPeriod
<1> DEFINE A ==
      Ends({"statement", "flow"}) /\ report.start <= report.end
          /\ (report.kind = "flow" => report.start > 1) =>
          LET inside == {r \in report.later : r.day >= report.start}
              late   == {r \in book \ report.later :
                            r.status = "posted" /\ r.day < report.start}
              known(type)  == {a \in Shown(report, {type}) :
                                  \E r \in report.later : r.legs[a] # 0}
              due(a)       == BalanceOf(inside, a) - BalanceOf(late, a)
              is(shown, f) == IsWithin(shown, SumFunction(f), f)
          IN  IF report.kind = "flow"
                THEN is(report'.net, [a \in known("asset") |-> due(a)])
                ELSE /\ is(report'.revenue, [a \in known("income") |-> -due(a)])
                     /\ is(report'.expenses, [a \in known("expense") |-> due(a)])
<1>1. RpSpec => []ReportInv
    BY ReportInvInit, ReportInvStep, PTL DEF RpSpec
<1>2. ReportInv /\ [RpNext]_RpVars => [A]_RpVars
  <2> SUFFICES ASSUME ReportInv, [RpNext]_RpVars, Ends({"statement", "flow"}),
                      report.kind = "flow" => report.start > 1
               PROVE  A
      OBVIOUS
  <2>0. RpTypeOK /\ BooksInv /\ LaterInv
      BY DEF ReportInv
  <2>1. ReadStatement \/ ReadCashFlow
      BY EndsBy DEF Ends, Answers, ReadTrial, ReadSheet
  <2>2. CASE ReadStatement
    <3>1. PICK g : g = [a \in Gone(report, {"income"}) |-> -Change(report, a)]
        OBVIOUS
    <3>2. PICK f : f = [a \in Gone(report, {"expense"}) |-> Change(report, a)]
        OBVIOUS
    <3>3. /\ report'.revenue = SumFunction(Quantized(g))
          /\ report'.expenses = SumFunction(Quantized(f))
          /\ report.kind = "statement" /\ report.step = "later"
        BY <2>2, <3>1, <3>2 DEF ReadStatement, Read
    <3>4. g = [a \in GoneFor("income") |-> -Counts(a)] /\ IsWithin(report'.revenue, SumFunction(g), g)
        BY <2>0, <3>1, <3>3, ChangesCount
    <3>5. f = [a \in GoneFor("expense") |-> Counts(a)] /\ IsWithin(report'.expenses, SumFunction(f), f)
        BY <2>0, <3>2, <3>3, ChangesCount
    <3> QED BY <3>3, <3>4, <3>5 DEF GoneFor, Counts, Inside, Late
  <2>3. CASE ReadCashFlow
    <3>1. PICK f : f = [a \in Gone(report, {"asset"}) |-> Change(report, a)]
        OBVIOUS
    <3>2. /\ report'.net = SumFunction(Quantized(f))
          /\ report.kind = "flow" /\ report.step = "later"
        BY <2>3, <3>1 DEF ReadCashFlow, Read
    <3>3. f = [a \in GoneFor("asset") |-> Counts(a)] /\ IsWithin(report'.net, SumFunction(f), f)
        BY <2>0, <3>1, <3>2, ChangesCount
    <3> QED BY <3>2, <3>3 DEF GoneFor, Counts, Inside, Late
  <2> QED BY <2>1, <2>2, <2>3
<1>3. StatementCountsItsPeriod <=> [][A]_RpVars
    BY DEF StatementCountsItsPeriod
<1> HIDE DEF A
<1> QED BY <1>1, <1>2, <1>3, PTL DEF RpSpec

-----------------------------------------------------------------------------
(* An import of a journal keeps what is held under a name.                  *)

LEMMA OneWord == \A n \in Seq(STRING) : Len(n) = 1 => <<Head(n)>> = n
OBVIOUS

LEMMA PathOfName == \A n \in Seq(STRING) : <<>> \o n = n
OBVIOUS

LEMMA PathOfBoth ==
    ASSUME NEW c \in Seq(STRING), NEW n \in Seq(STRING), Len(c) = 1, Len(n) = 1
    PROVE  Len(c \o n) = 2 /\ <<Head(c \o n)>> = c /\ Tail(c \o n) = n
<1> DEFINE p == c \o n
<1>1. /\ p \in Seq(STRING) /\ Len(p) = 2
      /\ \A i \in 1 .. 2 : p[i] = IF i <= 1 THEN c[i] ELSE n[i - 1]
    BY ConcatProperties
<1> HIDE DEF p
<1>2. p[1] = c[1] /\ p[2] = n[1] /\ p # <<>>
  <2>1. 1 \in 1 .. 2 /\ 2 \in 1 .. 2 /\ 1 <= 1 /\ ~(2 <= 1) /\ 2 - 1 = 1
      OBVIOUS
  <2>2. p # <<>>
    <3>1. Len(<<>>) = 0
        BY EmptySeq
    <3>2. 2 # 0
        OBVIOUS
    <3> QED BY <1>1, <3>1, <3>2
  <2> QED BY <1>1, <2>1, <2>2
<1>3. Head(p) = c[1] /\ Len(<<c[1]>>) = 1
    BY <1>2
<1>4. <<c[1]>> = c
    BY OneWord
<1>5. Tail(p) \in Seq(STRING) /\ Len(Tail(p)) = 1 /\ Tail(p)[1] = n[1]
    BY <1>1, <1>2, HeadTailProperties
<1>6. Tail(p) = n
  <2> DEFINE t == Tail(p)
  <2>1. t \in Seq(STRING) /\ Len(t) = Len(n)
      BY <1>5
  <2>3. \A i \in 1 .. Len(t) : i = 1
    <3>1. Len(t) = 1 /\ \A i \in 1 .. 1 : i = 1
        BY <1>5
    <3> QED BY <3>1
  <2>4. t[1] = n[1]
      BY <1>5
  <2> HIDE DEF t
  <2>2. t = n
      BY <2>1, <2>3, <2>4, SeqEqual
  <2> QED BY <2>2 DEF t
<1>7. <<Head(p)>> = c
    BY <1>3, <1>4
<1> QED BY <1>1, <1>6, <1>7 DEF p

LEMMA NoWord ==
    ASSUME NEW n \in Seq(STRING), Len(n) <= 1
    PROVE  /\ n = <<>> \/ Len(n) = 1
           /\ Len(n) = 1 => n # <<>>
<1>1. n # <<>> => Len(n) \in Nat \ {0}
    BY EmptySeq
<1>2. Len(<<>>) = 0
    BY EmptySeq
<1>3. Len(n) = 1 => n # <<>>
    BY <1>2
<1>4. n # <<>> => Len(n) = 1
  <2>1. \A k \in Nat \ {0} : k <= 1 => k = 1
      OBVIOUS
  <2> QED BY <1>1, <2>1
<1> QED BY <1>3, <1>4

(* Where paths are readable, a posting lands on a namesake of its account.  *)
LEMMA ResolvedToNamesakes ==
    ASSUME PathsAreReadable, NEW a \in Named, NEW b \in Resolved(a)
    PROVE  b \in Known /\ Type[b] = Type[a] /\ Name[b] = Name[a]
<1>1. b \in Known
    BY DEF Resolved, ByName
<1>2. /\ Code[a] \in Seq(STRING) /\ Name[a] \in Seq(STRING)
      /\ Len(Code[a]) <= 1 /\ Len(Name[a]) = 1
    BY <1>1, NamedFinite, ReportsAssumption DEF ReportsAssumption, PathsAreReadable
<1>3. \A k \in Known : /\ Code[k] # Name[a]
                       /\ a # k => Code[a] # Code[k] \/ Code[a] = <<>>
    BY DEF PathsAreReadable
<1>4. CASE Code[a] = <<>>
  <2>1. AsCode(a) = Name[a] /\ AsName(a) = Name[a]
      BY <1>2, <1>4, OneWord, PathOfName DEF AsCode, AsName, Path
  <2> QED BY <1>1, <1>3, <2>1 DEF Resolved, ByName
<1>5. CASE Len(Code[a]) = 1
  <2>1. AsCode(a) = Code[a] /\ AsName(a) = Name[a]
    <3>1. Len(Path(a)) = 2 /\ <<Head(Path(a))>> = Code[a] /\ Tail(Path(a)) = Name[a]
        BY <1>2, <1>5, PathOfBoth DEF Path
    <3> QED BY <3>1 DEF AsCode, AsName
  <2>2. Code[a] # <<>>
      BY <1>2, <1>5, NoWord
  <2>3. \A k \in Known : Code[k] = AsCode(a) => k = a
      BY <1>3, <2>1, <2>2
  <2> QED BY <1>1, <2>1, <2>3 DEF Resolved, ByName
<1> QED BY <1>2, <1>4, <1>5, NoWord

(* Over the accounts of a name, the legs of a copy are those of its row.    *)
LEMMA CopyKeepsNames ==
    ASSUME BooksInv, NEW to \in [Named -> Known], NEW N \in SUBSET Accounts,
           \A y \in Named : to[y] \in N <=> y \in N,
           NEW r \in file, NEW c, c = CopyOf(r, to)
    PROVE  SumFunction([b \in N |-> c.legs[b]]) = SumFunction([b \in N |-> r.legs[b]])
<1> DEFINE P == {y \in Named : to[y] \in N}
           part == [x \in P |-> r.legs[x]]
           whole == [b \in N |-> r.legs[b]]
<1>1. SumFunction([b \in N |-> c.legs[b]]) = SumFunction(part)
    BY CopyRow DEF OverFibres
<1>2. r.legs \in [Accounts -> Int] /\ P \in SUBSET N /\ IsFiniteSet(N)
    BY RowLegs, FiniteAccounts DEF BooksInv, Rows
<1>3. whole \in [N -> Int]
    BY <1>2
<1>4. \A x \in N \ P : whole[x] = 0
    BY <1>2 DEF Named
<1>5. IsPart(part, whole, P)
    BY <1>2 DEF IsPart
<1> HIDE DEF P, part, whole
<1>6. SumFunction(part) = SumFunction(whole)
    BY <1>2, <1>3, <1>4, <1>5, SumOfSupport
<1> QED BY <1>1, <1>6 DEF whole

LEMMA CopiesKeepNames ==
    ASSUME BooksInv, NEW to \in [Named -> Known], NEW N \in SUBSET Accounts,
           \A y \in Named : to[y] \in N <=> y \in N,
           \A r \in file : ~r.copy, Rows(Copies(to))
    PROVE  TotalOf(Copies(to), N) = TotalOf(file, N)
<1> DEFINE made == Copies(to)
           h == [r \in file |-> CopyOf(r, to)]
           f == [c \in made |-> SumFunction([b \in N |-> LegsOf(made)[c][b]])]
           g == [r \in file |-> SumFunction([b \in N |-> LegsOf(file)[r][b]])]
<1>1. made = {h[r] : r \in file} /\ IsFiniteSet(file)
    BY CopiesAre DEF BooksInv, Rows
<1>2. \A x, y \in file : h[x] = h[y] => x = y
    BY CopyRow DEF BooksInv, OneEach
<1>3. TotalOf(made, N) = SumFunction(f) /\ TotalOf(file, N) = SumFunction(g)
    BY TotalIsByRow DEF ByRow, BooksInv
<1>4. ASSUME NEW c \in made PROVE f[c] \in Int
  <2> DEFINE v == [b \in N |-> LegsOf(made)[c][b]]
  <2>1. DOMAIN v = N /\ IsFiniteSet(N) /\ \A b \in N : v[b] \in Int
      BY RowLegs, FiniteAccounts DEF LegsOf, Rows
  <2> HIDE DEF v
  <2>2. SumFunction(v) \in Int
      BY <2>1, SumTyped
  <2> QED BY <2>2 DEF v
<1>5. ASSUME NEW r \in file PROVE f[h[r]] = g[r]
  <2> DEFINE c == CopyOf(r, to)
  <2>1. h[r] = c /\ c \in made
      BY <1>1
  <2>2. LegsOf(made)[c] = c.legs /\ LegsOf(file)[r] = r.legs
      BY <2>1 DEF LegsOf
  <2>3. SumFunction([b \in N |-> c.legs[b]]) = SumFunction([b \in N |-> r.legs[b]])
      BY CopyKeepsNames
  <2> HIDE DEF c, made
  <2> QED BY <2>1, <2>2, <2>3
<1>6. DOMAIN f = {h[r] : r \in file} /\ \A r \in file : f[h[r]] \in Int
    BY <1>1, <1>4
<1>7. Relabels(h, file, f, g)
    BY <1>2, <1>5, <1>6 DEF Relabels
<1> HIDE DEF f, g, h, made
<1>8. SumFunction(f) = SumFunction(g)
    BY <1>1, <1>7, SumRelabelled
<1> QED BY <1>3, <1>8 DEF made

Made == {r \in book' \ book : r.copy /\ r.status = "pending"}

(* Only an import makes pending copies. *)
LEMMA MadeByImport == ASSUME ReportInv, [RpNext]_RpVars, Made # {} PROVE Import
<1>0. RpTypeOK /\ BooksInv /\ LaterInv
    BY DEF ReportInv
<1>1. CASE Writes
  <2>1. \A r \in book' \ book : ~r.copy \/ r.status = "posted"
    <3>1. CASE \E e \in Entries, status \in {"pending", "posted"} : Enter(e, status)
        BY <3>1 DEF Enter, Write, Entered
    <3>2. CASE \E r \in book : Confirm(r) \/ Discard(r)
      <4>1. PICK r \in book : Confirm(r) \/ Discard(r)
          BY <3>2
      <4>2. r \in Row
          BY <1>0 DEF RpTypeOK
      <4>3. [r EXCEPT !.status = "posted"].status = "posted"
          BY <4>2 DEF Row
      <4> QED BY <4>1, <4>3 DEF Confirm, Discard, Write
    <3>3. CASE \E r \in book, day \in Dates : Void(r, day) \/ \E e \in Entries : Replace(r, day, e)
        BY <3>3 DEF Void, Replace, Write, Entered, Reversal
    <3> QED BY <1>1, <3>1, <3>2, <3>3 DEF Writes
  <2>2. \A r \in Made : r \in book' \ book /\ r.copy /\ r.status # "posted"
      BY DEF Made
  <2> QED BY <2>1, <2>2
<1>2. CASE book' = book
    BY <1>2 DEF Made
<1>3. CASE ~Writes /\ ~Import
  <2>1. book' = book
      BY <1>0, <1>3, NextIs, SettingsAre, SweepIs, BeginsAre, AuditIs, AnswersAre, LaterIs,
         PageIs DEF Export, RpVars
  <2> QED BY <1>2, <2>1
<1> QED BY <1>1, <1>3

(* What an import makes adds up, name by name, to what the file says.       *)
THEOREM ImportsKeepNames == RpSpec => ImportKeepsNames
<1> DEFINE A == LET made == {r \in book' \ book : r.copy /\ r.status = "pending"}
                IN  made # {} /\ PathsAreReadable =>
                       \A a \in Accounts : TotalOf(made, Namesakes(a)) = TotalOf(file, Namesakes(a))
<1>1. RpSpec => []ReportInv
    BY ReportInvInit, ReportInvStep, PTL DEF RpSpec
<1>2. ReportInv /\ [RpNext]_RpVars => [A]_RpVars
  <2> SUFFICES ASSUME ReportInv, [RpNext]_RpVars, Made # {}, PathsAreReadable,
                      NEW a \in Accounts
               PROVE  TotalOf(Made, Namesakes(a)) = TotalOf(file, Namesakes(a))
      BY DEF Made
  <2>0. BooksInv /\ Import
      BY MadeByImport DEF ReportInv
  <2>1. PICK to \in [Named -> Known] :
           (\A x \in Named : to[x] \in Resolved(x)) /\ book' = book \cup Copies(to)
      BY <2>0 DEF Import
  <2>2. Rows(Copies(to)) /\ \A c \in Copies(to) : c.copy /\ c.status = "pending"
    <3>1. Rows(Copies(to)) /\ \A c \in Copies(to) : c.copy
        BY <2>0, CopiesFit DEF Import
    <3>2. \A r \in file : CopyOf(r, to).status = "pending"
        BY <2>0, CopyRow
    <3> QED BY <3>1, <3>2, CopiesAre
  <2>3. Made = Copies(to)
      BY <2>0, <2>1, <2>2 DEF Import, Made
  <2>4. \A y \in Named : to[y] \in Namesakes(a) <=> y \in Namesakes(a)
      BY <2>1, ResolvedToNamesakes, NamedFinite DEF Namesakes, Known
  <2>5. Namesakes(a) \in SUBSET Accounts /\ \A r \in file : ~r.copy
      BY <2>0 DEF Namesakes, Import
  <2>6. TotalOf(Copies(to), Namesakes(a)) = TotalOf(file, Namesakes(a))
      BY <2>0, <2>2, <2>4, <2>5, CopiesKeepNames
  <2> QED BY <2>3, <2>6
<1>3. ImportKeepsNames <=> [][A]_RpVars
    BY DEF ImportKeepsNames
<1> HIDE DEF A
<1> QED BY <1>1, <1>2, <1>3, PTL DEF RpSpec

-----------------------------------------------------------------------------
(* The ranks of a finite set of numbers, counted from its greatest, leave   *)
(* no gap.                                                                  *)

Rank(L, x) == Cardinality({t \in L : t > x})

LEMMA RankIsNat ==
    ASSUME NEW L, IsFiniteSet(L), NEW x
    PROVE  Rank(L, x) \in Nat /\ IsFiniteSet({t \in L : t > x})
<1>1. {t \in L : t > x} \in SUBSET L
    OBVIOUS
<1>2. IsFiniteSet({t \in L : t > x})
    BY <1>1, FS_Subset
<1> QED BY <1>2, FS_CardinalityType DEF Rank

(* Good holds of {} and of a set if of every set that has one element less. *)
GrowsFrom(S, Good) ==
    /\ Good \in SUBSET (SUBSET S) /\ {} \in Good
    /\ \A s \in SUBSET S :
          s # {} /\ (\A t \in SUBSET S : Cardinality(t) = Cardinality(s) - 1 => t \in Good)
             => s \in Good

LEMMA GrowsToAll ==
    ASSUME NEW S, IsFiniteSet(S), NEW Good, GrowsFrom(S, Good) PROVE Good = SUBSET S
BY BySize DEF GrowsFrom

Least(s, m) == m \in s /\ \A x \in s : m <= x

LEMMA LeastExists ==
    ASSUME NEW L \in SUBSET Nat, IsFiniteSet(L), NEW u \in SUBSET L, u # {}
    PROVE  \E m : Least(u, m)
<1> DEFINE Good == {s \in SUBSET L : s = {} \/ \E m : Least(s, m)}
<1>1. Good \in SUBSET (SUBSET L) /\ {} \in Good
    OBVIOUS
<1>2. ASSUME NEW s \in SUBSET L, s # {},
             \A t \in SUBSET L : Cardinality(t) = Cardinality(s) - 1 => t \in Good
      PROVE  s \in Good
  <2> DEFINE x == Pick(s)
             t == s \ {x}
  <2>1. x \in s /\ t \in Good
      BY <1>2, PickIn, Less, FS_Subset
  <2> HIDE DEF x
  <2>2. CASE t = {}
    <3>1. Least(s, x)
        BY <2>1, <2>2 DEF Least
    <3> QED BY <3>1
  <2>3. CASE t # {}
    <3>1. PICK m : Least(t, m)
        BY <2>1, <2>3
    <3>2. CASE m <= x
      <4>1. Least(s, m)
          BY <2>1, <3>1, <3>2 DEF Least
      <4> QED BY <4>1
    <3>3. CASE ~(m <= x)
      <4>1. Least(s, x)
          BY <2>1, <3>1, <3>3 DEF Least
      <4> QED BY <4>1
    <3> QED BY <3>2, <3>3
  <2> QED BY <2>2, <2>3
<1> HIDE DEF Good
<1>3. GrowsFrom(L, Good)
    BY <1>1, <1>2 DEF GrowsFrom
<1>4. Good = SUBSET L
    BY <1>3, GrowsToAll
<1> QED BY <1>4 DEF Good

NoGap(s) == \A k \in 0 .. Cardinality(s) - 1 : \E x \in s : Rank(s, x) = k

LEMMA RanksLeaveNoGap ==
    ASSUME NEW L \in SUBSET Nat, IsFiniteSet(L)
    PROVE  NoGap(L)
<1> DEFINE Good == {s \in SUBSET L : NoGap(s)}
<1>1. Good \in SUBSET (SUBSET L)
    OBVIOUS
<1>2. {} \in Good
    BY FS_EmptySet DEF NoGap
<1>3. ASSUME NEW s \in SUBSET L, s # {},
             \A t \in SUBSET L : Cardinality(t) = Cardinality(s) - 1 => t \in Good
      PROVE  s \in Good
  <2>1. PICK m : Least(s, m)
      BY <1>3, LeastExists
  <2> DEFINE t == s \ {m}
  <2>2. m \in s /\ \A x \in s : x \in Nat /\ m <= x
      BY <2>1 DEF Least
  <2>3. /\ IsFiniteSet(t) /\ Cardinality(s) \in Nat /\ Cardinality(t) = Cardinality(s) - 1
        /\ Cardinality(t) \in Nat
      BY <2>2, Less, FS_Subset
  <2>4. NoGap(t)
      BY <1>3, <2>3
  <2>5. Rank(s, m) = Cardinality(t)
    <3>1. \A y \in s : y > m <=> y # m
        BY <2>2
    <3>2. {y \in s : y > m} = t
        BY <3>1
    <3> QED BY <3>2 DEF Rank
  <2>6. ASSUME NEW x \in t PROVE Rank(s, x) = Rank(t, x)
    <3>1. x \in s /\ m <= x /\ x \in Nat /\ m \in Nat
        BY <2>2
    <3>2. ~(m > x)
        BY <3>1
    <3>3. {y \in s : y > x} = {y \in t : y > x}
        BY <3>2
    <3> QED BY <3>3 DEF Rank
  <2>7. ASSUME NEW k \in 0 .. Cardinality(s) - 1 PROVE \E x \in s : Rank(s, x) = k
    <3>1. CASE k = Cardinality(t)
        BY <2>2, <2>5, <3>1
    <3>2. CASE k # Cardinality(t)
      <4>1. k \in 0 .. Cardinality(t) - 1
          BY <2>3, <3>2
      <4>2. PICK x \in t : Rank(t, x) = k
          BY <2>4, <4>1 DEF NoGap
      <4> QED BY <2>6, <4>2
    <3> QED BY <3>1, <3>2
  <2> QED BY <2>7 DEF NoGap
<1> HIDE DEF Good
<1>4. GrowsFrom(L, Good)
    BY <1>1, <1>2, <1>3 DEF GrowsFrom
<1>5. Good = SUBSET L
    BY <1>4, GrowsToAll
<1> QED BY <1>5 DEF Good

LEMMA PageIsWhole ==
    ASSUME NEW L \in SUBSET Nat, IsFiniteSet(L), NEW o \in Nat, NEW n \in Nat \ {0},
           NEW s \in L, Rank(L, s) >= o + n
    PROVE  Cardinality({x \in L : Rank(L, x) \in o .. o + n - 1}) >= n
<1> DEFINE page == {x \in L : Rank(L, x) \in o .. o + n - 1}
           R == o .. o + n - 1
           f == [x \in page |-> Rank(L, x)]
<1>1. Cardinality(L) \in Nat /\ Rank(L, s) \in Nat /\ Rank(L, s) <= Cardinality(L)
  <2>1. {t \in L : t > s} \in SUBSET L
      OBVIOUS
  <2> QED BY <2>1, RankIsNat, FS_Subset, FS_CardinalityType DEF Rank
<1>2. \A k \in R : k \in 0 .. Cardinality(L) - 1
    BY <1>1
<1>3. \A k \in R : \E x \in page : Rank(L, x) = k
    BY <1>2, RanksLeaveNoGap DEF NoGap
<1>4. f \in Surjection(page, R)
    BY <1>3 DEF Surjection
<1>5. IsFiniteSet(page)
    BY FS_Subset
<1>6. Cardinality(R) = n
  <2>1. o \in Int /\ o + n - 1 \in Int /\ ~(o > o + n - 1) /\ (o + n - 1) - o + 1 = n
      OBVIOUS
  <2> QED BY <2>1, FS_Interval
<1> HIDE DEF page, R, f
<1>7. Cardinality(R) <= Cardinality(page)
    BY <1>4, <1>5, FS_Surjection
<1>8. Cardinality(page) \in Nat
    BY <1>5, FS_CardinalityType
<1> QED BY <1>6, <1>7, <1>8 DEF page

-----------------------------------------------------------------------------
(* The pages of the audit log.                                              *)

(* What was there at the start is still there, and what was not read yet is *)
(* behind the offset: rows that came since push it back, never forward.     *)
PagesInv ==
    report.step = "page" /\ ~report.swept =>
        /\ report.first \subseteq log
        /\ \A s \in report.first : s \in report.seen \/ Rank(log, s) >= report.offset

LEMMA LogIsFinite == ASSUME RpTypeOK PROVE log \in SUBSET Nat /\ IsFiniteSet(log)
<1>1. commits \in Nat /\ log \in SUBSET (1 .. commits)
    BY ReportsAssumption DEF RpTypeOK, ReportsAssumption
<1>2. IsFiniteSet(1 .. commits)
    BY <1>1, FS_Interval
<1>3. IsFiniteSet(log)
    BY <1>1, <1>2, FS_Subset
<1> QED BY <1>1, <1>3

LEMMA PageTyped ==
    ASSUME RpTypeOK, report.step = "page"
    PROVE  report \in [kind : {"audit"}, step : {"page", "done"}, offset : Nat, seen : SUBSET Nat,
                       first : SUBSET Nat, swept : BOOLEAN]
BY DEF RpTypeOK, Report, NoReport

(* A row that comes in has no rank above another. *)
LEMMA RankGrows ==
    ASSUME NEW L, NEW M, L \subseteq M, IsFiniteSet(M), NEW x, NEW o \in Nat, Rank(L, x) >= o
    PROVE  Rank(M, x) >= o
<1>1. IsFiniteSet(L)
    BY FS_Subset
<1>2. {t \in L : t > x} \in SUBSET {t \in M : t > x}
    OBVIOUS
<1>3. Rank(L, x) <= Rank(M, x)
    BY <1>2, RankIsNat, FS_Subset DEF Rank
<1>4. Rank(L, x) \in Nat /\ Rank(M, x) \in Nat
    BY <1>1, RankIsNat
<1> QED BY <1>3, <1>4

LEMMA PagesKeptByAudited == ASSUME RpTypeOK, RpTypeOK', PagesInv, Audited PROVE PagesInv'
<1>1. report' = report /\ log \subseteq log'
    BY DEF Audited
<1>2. IsFiniteSet(log')
  <2>1. commits' \in Nat /\ log' \in SUBSET (1 .. commits')
      BY ReportsAssumption DEF RpTypeOK, ReportsAssumption
  <2>2. IsFiniteSet(1 .. commits')
      BY <2>1, FS_Interval
  <2> QED BY <2>1, <2>2, FS_Subset
<1>3. ASSUME report.step = "page", ~report.swept, NEW s \in report.first
      PROVE  s \in log /\ (s \in report.seen \/ Rank(log', s) >= report.offset)
  <2>1. report.offset \in Nat
      BY <1>3, PageTyped
  <2> QED BY <1>1, <1>2, <1>3, <2>1, RankGrows DEF PagesInv
<1> QED BY <1>1, <1>3 DEF PagesInv

(* A row that a page leaves unread is behind it.                            *)
LEMMA Unread ==
    ASSUME RpTypeOK, PagesInv, ReadPage, ~report.swept, NEW s \in report.first,
           s \notin report'.seen
    PROVE  s \in log /\ Rank(log, s) >= report.offset + PageSize
<1>1. report.step = "page" /\ report.offset \in Nat /\ PageSize \in Nat \ {0}
    BY PageTyped, ReportsAssumption DEF ReadPage, ReportsAssumption
<1>2. report'.seen = report.seen \cup PageAt(report.offset)
    BY <1>1, PageTyped DEF ReadPage, Read
<1>3. s \in log /\ Rank(log, s) >= report.offset /\ Rank(log, s) \in Nat
    BY <1>1, <1>2, LogIsFinite, RankIsNat DEF PagesInv
<1>4. Rank(log, s) \notin report.offset .. report.offset + PageSize - 1
    BY <1>2, <1>3 DEF PageAt, Rank
<1> QED BY <1>1, <1>3, <1>4

LEMMA PagesKeptByPage == ASSUME RpTypeOK, PagesInv, ReadPage PROVE PagesInv'
<1> SUFFICES ASSUME ~report'.swept PROVE PagesInv'
    BY DEF PagesInv
<1>1. report.step = "page" /\ log' = log
    BY DEF ReadPage, Read
<1>2. /\ report'.first = report.first /\ report'.offset = report.offset + PageSize
      /\ report'.swept = report.swept
    BY <1>1, PageTyped DEF ReadPage, Read
<1>3. \A s \in report.first : s \in report'.seen \/ Rank(log, s) >= report.offset + PageSize
    BY <1>2, Unread
<1> QED BY <1>1, <1>2, <1>3 DEF PagesInv

LEMMA PagesInvStep ==
    ReportInv /\ ReportInv' /\ PagesInv /\ [RpNext]_RpVars => PagesInv'
<1> SUFFICES ASSUME ReportInv, ReportInv', PagesInv, [RpNext]_RpVars PROVE PagesInv'
    OBVIOUS
<1>0. RpTypeOK /\ RpTypeOK' /\ BooksInv /\ LaterInv
    BY DEF ReportInv
<1>1. CASE Writes
    BY <1>0, <1>1, WritesAre, PagesKeptByAudited
<1>2. CASE Settings
    BY <1>0, <1>2, SettingsAre, PagesKeptByAudited
<1>3. CASE \E old \in SUBSET log : Sweep(old)
    BY <1>0, <1>3, SweepIs DEF PagesInv
<1>4. CASE Begins \/ Answers
    BY <1>0, <1>4, BeginsAre, AnswersAre DEF PagesInv
<1>5. CASE BeginAudit
  <2>1. report'.first = log /\ report'.offset = 0 /\ log' = log
      BY <1>0, <1>5, AuditIs
  <2>2. \A s \in log : Rank(log, s) \in Nat
      BY <1>0, LogIsFinite, RankIsNat
  <2> QED BY <2>1, <2>2 DEF PagesInv
<1>6. CASE ReadLater
    BY <1>0, <1>6, LaterIs DEF PagesInv
<1>7. CASE Export
    BY <1>7 DEF Export, PagesInv, NoReport
<1>8. CASE Import \/ UNCHANGED RpVars
    BY <1>8 DEF Import, RpVars, PagesInv
<1>9. CASE ReadPage
    BY <1>0, <1>9, PagesKeptByPage
<1> QED BY <1>1, <1>2, <1>3, <1>4, <1>5, <1>6, <1>7, <1>8, <1>9, NextIs

(* A reader that turns the pages to the end has seen every row that was     *)
(* there when it began, unless rows were deleted meanwhile.                 *)
THEOREM PagesAreWhole == RpSpec => PagesMissNothing
<1> DEFINE A == Ends({"audit"}) /\ ~report.swept => report.first \subseteq report'.seen
           Inv == ReportInv /\ PagesInv
<1>1. RpInit => Inv
    BY ReportInvInit DEF RpInit, PagesInv, NoReport
<1>2. Inv /\ [RpNext]_RpVars => Inv'
    BY ReportInvStep, PagesInvStep
<1>3. Inv /\ [RpNext]_RpVars => [A]_RpVars
  <2> SUFFICES ASSUME ReportInv, PagesInv, [RpNext]_RpVars, Ends({"audit"}), ~report.swept,
                      NEW s \in report.first, s \notin report'.seen
               PROVE  FALSE
      OBVIOUS
  <2>0. RpTypeOK
      BY DEF ReportInv
  <2>1. ReadPage /\ report'.step = "done"
      BY EndsBy DEF Ends, Answers, ReadTrial, ReadSheet, ReadStatement, ReadCashFlow
  <2>2. report.step = "page" /\ report.offset \in Nat /\ PageSize \in Nat \ {0}
      BY <2>0, <2>1, PageTyped, ReportsAssumption DEF ReadPage, ReportsAssumption
  <2> DEFINE page == PageAt(report.offset)
  <2>3. Cardinality(page) < PageSize
      BY <2>0, <2>1, <2>2, PageTyped DEF ReadPage, Read
  <2>4. s \in log /\ Rank(log, s) >= report.offset + PageSize
      BY <2>0, <2>1, Unread
  <2>5. Cardinality({x \in log : Rank(log, x) \in report.offset .. report.offset + PageSize - 1})
           >= PageSize
      BY <2>0, <2>2, <2>4, LogIsFinite, PageIsWhole
  <2>6. page = {x \in log : Rank(log, x) \in report.offset .. report.offset + PageSize - 1}
      BY DEF PageAt, Rank
  <2>7. Cardinality(page) \in Nat
      BY <2>0, <2>6, LogIsFinite, FS_Subset, FS_CardinalityType
  <2> HIDE DEF page
  <2> QED BY <2>2, <2>3, <2>5, <2>6, <2>7
<1>4. PagesMissNothing <=> [][A]_RpVars
    BY DEF PagesMissNothing
<1> HIDE DEF A, Inv
<1> QED BY <1>1, <1>2, <1>3, <1>4, PTL DEF RpSpec
=============================================================================
