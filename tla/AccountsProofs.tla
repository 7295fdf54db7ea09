--------------------------- MODULE AccountsProofs ----------------------------
(***************************************************************************)
(* Proofs about Accounts, for every number of requests and accounts, and    *)
(* whatever paths, bodies and patches callers send.                         *)
(***************************************************************************)
EXTENDS Accounts, FiniteSetTheorems, WellFoundedInduction, NaturalsInduction, TLAPS

-----------------------------------------------------------------------------
(* Induction: the library's theorems take an operator, a set does as well.  *)

Below == {d \in Nat \X Nat : d[1] < d[2]}

LEMMA BelowIsWellFounded == IsWellFoundedOn(Below, Nat)
BY NatLessThanWellFounded DEF OpToRel, Below

LEMMA Least ==
    ASSUME NEW T \in SUBSET Nat, T # {}
    PROVE  \E x \in T : \A y \in T : x <= y
<1>1. PICK x \in T : \A y \in T : ~(<<y, x>> \in Below)
    BY BelowIsWellFounded, WFMin, Zenon
<1>2. \A y \in T : ~(y < x)
    BY <1>1 DEF Below
<1>3. \A y \in T : x <= y
    BY <1>2
<1> QED BY <1>3

(* What holds of zero, and with each number of the next, up to m.           *)
LEMMA InductionUpTo ==
    ASSUME NEW m \in Nat, NEW Good \in SUBSET (0 .. m), 0 \in Good,
           \A n \in Good : n < m => n + 1 \in Good
    PROVE  Good = 0 .. m
<1> DEFINE T == {n \in Nat : n <= m /\ n \notin Good}
<1> SUFFICES ASSUME T # {} PROVE FALSE
  <2>1. T = {} => \A n \in 0 .. m : n \in Good
      OBVIOUS
  <2> QED BY <2>1
<1>1. T \in SUBSET Nat
    OBVIOUS
<1> HIDE DEF T
<1>2. PICK x \in T : \A y \in T : x <= y
    BY <1>1, Least
<1> USE DEF T
<1>3. x # 0 /\ x - 1 \in Nat /\ x - 1 < m
    OBVIOUS
<1>4. x - 1 \in Good
    BY <1>2, <1>3
<1>5. x - 1 + 1 \in Good
    BY <1>3, <1>4
<1> QED BY <1>5

(* A number in every nonempty subset of 0 .. m is the largest.              *)
LEMMA Greatest ==
    ASSUME NEW m \in Nat, NEW S \in SUBSET (0 .. m), S # {}
    PROVE  \E k \in S : \A l \in S : l <= k
<1> DEFINE T == {m - k : k \in S}
<1>1. T \in SUBSET Nat /\ T # {}
  <2>1. \A k \in S : m - k \in Nat
      OBVIOUS
  <2> QED BY <2>1
<1>2. PICK x \in T : \A y \in T : x <= y
  <2> HIDE DEF T
  <2> QED BY <1>1, Least
<1>3. PICK k \in S : x = m - k
    OBVIOUS
<1>4. \A l \in S : m - k <= m - l
    BY <1>2, <1>3
<1>5. \A l \in S : l <= k
    BY <1>4
<1> QED BY <1>5

(* f starts at x and goes on as F says, m times: there is such a function.  *)
Iterates(f, m, V, x, F) ==
    f \in [0 .. m -> V] /\ f[0] = x /\ \A n \in 1 .. m : f[n] = F[n][f[n - 1]]

LEMMA Iterate ==
    ASSUME NEW m \in Nat, NEW V, NEW x \in V, NEW F \in [Nat -> [V -> V]]
    PROVE  \E f : Iterates(f, m, V, x, F)
<1> USE DEF Iterates
<1> DEFINE Good == {n \in 0 .. m : \E f \in [0 .. n -> V] :
                       f[0] = x /\ \A k \in 1 .. n : f[k] = F[k][f[k - 1]]}
<1>1. 0 \in Good
  <2> DEFINE f == [k \in 0 .. 0 |-> x]
  <2>1. f \in [0 .. 0 -> V] /\ f[0] = x
      OBVIOUS
  <2> HIDE DEF f
  <2>2. \E h \in [0 .. 0 -> V] : h[0] = x /\ \A k \in 1 .. 0 : h[k] = F[k][h[k - 1]]
      BY <2>1
  <2> QED BY <2>2
<1>2. ASSUME NEW n \in Good, n < m PROVE n + 1 \in Good
  <2>1. PICK f \in [0 .. n -> V] : f[0] = x /\ \A k \in 1 .. n : f[k] = F[k][f[k - 1]]
      OBVIOUS
  <2> DEFINE g == [k \in 0 .. n + 1 |-> IF k = n + 1 THEN F[n + 1][f[n]] ELSE f[k]]
  <2>2. n \in Nat /\ f[n] \in V /\ F[n + 1][f[n]] \in V
      OBVIOUS
  <2>3. g \in [0 .. n + 1 -> V] /\ g[0] = x
      BY <2>1, <2>2
  <2>4. ASSUME NEW k \in 1 .. n + 1 PROVE g[k] = F[k][g[k - 1]]
    <3>1. CASE k = n + 1
      <4>1. k - 1 = n /\ n \in 0 .. n + 1 /\ n # n + 1 /\ k \in 0 .. n + 1
          BY <2>2, <3>1
      <4>2. g[n] = f[n] /\ g[k] = F[n + 1][f[n]]
          BY <3>1, <4>1
      <4> QED BY <3>1, <4>1, <4>2
    <3>2. CASE k # n + 1
      <4>1. /\ k \in 1 .. n /\ k - 1 \in 0 .. n + 1 /\ k - 1 # n + 1
            /\ k \in 0 .. n + 1
          BY <2>2, <3>2
      <4>2. g[k] = f[k] /\ g[k - 1] = f[k - 1]
          BY <3>2, <4>1
      <4> QED BY <2>1, <4>1, <4>2
    <3> QED BY <3>1, <3>2
  <2> HIDE DEF g
  <2>5. \E h \in [0 .. n + 1 -> V] :
           h[0] = x /\ \A k \in 1 .. n + 1 : h[k] = F[k][h[k - 1]]
      BY <2>3, <2>4
  <2>6. n + 1 \in 0 .. m
      BY <1>2
  <2> QED BY <2>5, <2>6
<1> HIDE DEF Good
<1>3. Good = 0 .. m
  <2>1. Good \in SUBSET (0 .. m)
      BY DEF Good
  <2> QED BY <1>1, <1>2, <2>1, InductionUpTo
<1>4. m \in Good
    BY <1>3
<1> QED BY <1>4 DEF Good

(* What is in V at zero, and with each number at the next, is in V.         *)
LEMMA StaysIn ==
    ASSUME NEW m \in Nat, NEW V, NEW f, f[0] \in V,
           \A n \in 1 .. m : f[n - 1] \in V => f[n] \in V
    PROVE  \A n \in 0 .. m : f[n] \in V
<1> DEFINE Good == {n \in 0 .. m : f[n] \in V}
<1>1. Good \in SUBSET (0 .. m) /\ 0 \in Good
    OBVIOUS
<1>2. ASSUME NEW n \in Good, n < m PROVE n + 1 \in Good
  <2>1. n + 1 \in 1 .. m /\ n + 1 - 1 = n
      BY <1>2
  <2> QED BY <1>2, <2>1
<1> HIDE DEF Good
<1>3. Good = 0 .. m
    BY <1>1, <1>2, InductionUpTo
<1> QED BY <1>3 DEF Good

-----------------------------------------------------------------------------
(* Rows.                                                                    *)

Here == DOMAIN account \cup {None}
Cols == {"parent", "name", "code", "active", "hold", "posted", "by"}

LEMMA RowFields ==
    ASSUME NEW row \in Account
    PROVE  /\ row = [f \in Cols |-> row[f]] /\ DOMAIN row = Cols
           /\ row.parent \in Ids \cup {None} /\ row.name \in Names /\ row.code \in Codes
           /\ row.active \in BOOLEAN /\ row.hold \in BOOLEAN
           /\ row.posted \in SUBSET {"checked", "unchecked"}
           /\ row.by \in {"user", "name", "code", "twin"}
BY DEF Account, Cols

LEMMA IsRow ==
    ASSUME NEW row, row = [f \in Cols |-> row[f]],
           row.parent \in Ids \cup {None}, row.name \in Names, row.code \in Codes,
           row.active \in BOOLEAN, row.hold \in BOOLEAN,
           row.posted \in SUBSET {"checked", "unchecked"},
           row.by \in {"user", "name", "code", "twin"}
    PROVE  row \in Account
<1> DEFINE q == [parent |-> row.parent, name |-> row.name, code |-> row.code,
                 active |-> row.active, hold |-> row.hold, posted |-> row.posted,
                 by |-> row.by]
<1>1. row = q
    BY DEF Cols
<1>2. q \in Account
    BY DEF Account
<1> QED BY <1>1, <1>2

(* A row as it is read, and what a PATCH makes of it.                       *)
LEMMA PatchedFields ==
    ASSUME NEW row \in Account, NEW change \in Patches, NEW p \in Ids \cup {None}
    PROVE  LET q == Patched(row, change, p) IN
           q \in Account /\ q.parent = IF p = None THEN row.parent ELSE p
<1> DEFINE q == Patched(row, change, p)
<1> USE RowFields, AccountsAssumption DEF Patched
<1>1. q = [f \in Cols |-> q[f]]
    OBVIOUS
<1>2. /\ q.parent = IF p = None THEN row.parent ELSE p
      /\ q.name = IF "name" \in DOMAIN change THEN change["name"] ELSE row.name
      /\ q.code = IF "code" \in DOMAIN change THEN change["code"] ELSE row.code
      /\ q.hold = IF "hold" \in DOMAIN change THEN change["hold"] ELSE row.hold
      /\ q.active = row.active /\ q.posted = row.posted /\ q.by = row.by
    BY DEF Cols
<1>3. /\ "name" \in DOMAIN change => change["name"] \in Names
      /\ "code" \in DOMAIN change => change["code"] \in Codes
      /\ "hold" \in DOMAIN change => change["hold"] \in BOOLEAN
    OBVIOUS
<1> HIDE DEF q
<1>4. q \in Account
    BY <1>1, <1>2, <1>3, IsRow
<1> QED BY <1>2, <1>4 DEF q

LEMMA SettledFields ==
    ASSUME NEW row \in Account, NEW r, r.to \in Account, r.fields \in SUBSET Fields
    PROVE  LET q == Settled(row, r) IN
           /\ q \in Account
           /\ q.parent = IF "parent" \in r.fields THEN r.to.parent ELSE row.parent
           /\ q.hold = IF "hold" \in r.fields THEN r.to.hold ELSE row.hold
           /\ q.posted = row.posted
           /\ \/ q.by = "user"
              \/ q.by = row.by /\ q.parent = row.parent /\ q.name = row.name
                 /\ q.code = row.code
<1> DEFINE q == Settled(row, r)
<1> USE RowFields DEF Settled
<1>1. q = [f \in Cols |-> q[f]]
    OBVIOUS
<1>2. /\ q.parent = IF "parent" \in r.fields THEN r.to.parent ELSE row.parent
      /\ q.name = IF "name" \in r.fields THEN r.to.name ELSE row.name
      /\ q.code = IF "code" \in r.fields THEN r.to.code ELSE row.code
      /\ q.hold = IF "hold" \in r.fields THEN r.to.hold ELSE row.hold
      /\ q.active = row.active /\ q.posted = row.posted
      /\ q.by = IF r.fields \cap {"parent", "name", "code"} # {} THEN "user" ELSE row.by
    BY DEF Cols, Fields
<1> HIDE DEF q
<1>3. q \in Account
  <2>1. q.by \in {"user", "name", "code", "twin"}
      BY <1>2
  <2> QED BY <1>1, <1>2, <2>1, IsRow
<1>4. \/ q.by = "user"
      \/ q.by = row.by /\ q.parent = row.parent /\ q.name = row.name /\ q.code = row.code
    BY <1>2
<1> QED BY <1>2, <1>3, <1>4 DEF q

-----------------------------------------------------------------------------
(* The walk up the chart.                                                   *)

(* What look-ups need of the chart. *)
Chart == /\ account \in Seq(Account)
         /\ \A i \in DOMAIN account : account[i].parent \in Here

LEMMA ChartOfTypes == TypeOK => Chart
BY DEF TypeOK, Chart, Here

LEMMA HopFacts ==
    ASSUME Chart, NEW i \in Here
    PROVE  /\ Hop(i) \in [0 .. Len(account) -> Here]
           /\ Hop(i)[0] = i
           /\ \A n \in 1 .. Len(account) :
                 Hop(i)[n] = IF Hop(i)[n - 1] = None THEN None
                                                     ELSE account[Hop(i)[n - 1]].parent
<1> DEFINE m == Len(account)
           F == [n \in Nat |-> [j \in Here |-> IF j = None THEN None ELSE account[j].parent]]
           hop == Hop(i)
<1>1. m \in Nat /\ DOMAIN account = 1 .. m
    BY DEF Chart
<1>2. F \in [Nat -> [Here -> Here]]
    BY DEF Chart, Here
<1>3. PICK f : Iterates(f, m, Here, i, F)
  <2>1. i \in Here
      OBVIOUS
  <2> HIDE DEF m, F
  <2> QED BY <1>1, <1>2, <2>1, Iterate
<1>5. \A n \in 0 .. m : f[n] = IF n = 0 THEN i
                                ELSE IF f[n - 1] = None THEN None
                                                        ELSE account[f[n - 1]].parent
  <2>1. ASSUME NEW n \in 1 .. m
        PROVE  F[n][f[n - 1]] = IF f[n - 1] = None THEN None ELSE account[f[n - 1]].parent
    <3>1. n \in Nat /\ n - 1 \in 0 .. m
        BY <1>1
    <3>2. f[n - 1] \in Here
        BY <1>3, <3>1 DEF Iterates
    <3> QED BY <3>1, <3>2
  <2> HIDE DEF F
  <2> QED BY <1>1, <1>3, <2>1 DEF Iterates
<1>6. \E g : g = [n \in 0 .. m |-> IF n = 0 THEN i
                                   ELSE IF g[n - 1] = None THEN None
                                                           ELSE account[g[n - 1]].parent]
  <2>1. f = [n \in 0 .. m |-> IF n = 0 THEN i
                               ELSE IF f[n - 1] = None THEN None
                                                       ELSE account[f[n - 1]].parent]
      BY <1>3, <1>5 DEF Iterates
  <2> QED BY <2>1
<1>7. hop = [n \in 0 .. m |-> IF n = 0 THEN i
                              ELSE IF hop[n - 1] = None THEN None
                                                        ELSE account[hop[n - 1]].parent]
    BY <1>6 DEF Hop
<1> HIDE DEF hop
<1>8. hop[0] = i
    BY <1>1, <1>7
<1>9. \A n \in 1 .. m : hop[n] = IF hop[n - 1] = None THEN None
                                                      ELSE account[hop[n - 1]].parent
    BY <1>7
<1>10. \A n \in 1 .. m : hop[n - 1] \in Here => hop[n] \in Here
    BY <1>9 DEF Chart, Here
<1> HIDE DEF m
<1>11. \A n \in 0 .. m : hop[n] \in Here
    BY <1>1, <1>8, <1>10, StaysIn
<1>12. hop \in [0 .. m -> Here]
    BY <1>7, <1>11
<1> QED BY <1>8, <1>9, <1>12 DEF hop, m

(* No set of accounts has all its parents in itself: the chart is a forest. *)
Forest(rows) == \A S \in SUBSET (DOMAIN rows) :
                   S # {} => \E i \in S : rows[i].parent \notin S

(* Where that is so, a walk of as many hops as there are accounts ends.     *)
LEMMA ForestEnds ==
    ASSUME Chart, Forest(account), NEW i \in Here
    PROVE  ~Endless(i)
<1> DEFINE m == Len(account)
           hop == Hop(i)
<1> SUFFICES ASSUME hop[m] # None PROVE FALSE
    BY DEF Endless
<1>1. m \in Nat /\ DOMAIN account = 1 .. m
    BY DEF Chart
<1>2. /\ hop \in [0 .. m -> Here]
      /\ \A n \in 1 .. m : hop[n] = IF hop[n - 1] = None THEN None
                                                         ELSE account[hop[n - 1]].parent
    BY HopFacts
<1> HIDE DEF hop, m
<1>3. \A n \in 0 .. m : hop[n] # None
  <2> DEFINE back == [n \in 0 .. m |-> hop[m - n]]
             V == {x \in Here : x # None}
  <2>1. back[0] \in V
      BY <1>1, <1>2
  <2>2. ASSUME NEW n \in 1 .. m, back[n - 1] \in V PROVE back[n] \in V
    <3>1. /\ m - n \in 0 .. m /\ m - (n - 1) \in 1 .. m /\ m - (n - 1) - 1 = m - n
          /\ n - 1 \in 0 .. m /\ n \in 0 .. m
        BY <1>1
    <3>2. hop[m - (n - 1)] # None
        BY <2>2, <3>1
    <3>3. hop[m - n] # None
        BY <1>2, <3>1, <3>2
    <3> QED BY <1>2, <3>1, <3>3
  <2> HIDE DEF back, V
  <2>3. \A n \in 0 .. m : back[n] \in V
      BY <1>1, <2>1, <2>2, StaysIn
  <2>4. \A n \in 0 .. m : m - n \in 0 .. m /\ m - (m - n) = n
      BY <1>1
  <2>5. \A n \in 0 .. m : back[m - n] = hop[n]
      BY <2>4 DEF back
  <2> QED BY <2>3, <2>4, <2>5 DEF V
<1>4. hop \in [0 .. m -> 1 .. m]
    BY <1>1, <1>2, <1>3 DEF Here
<1>5. \E a, b \in 0 .. m : a # b /\ hop[a] = hop[b]
  <2>1. /\ IsFiniteSet(0 .. m) /\ Cardinality(0 .. m) = m - 0 + 1
        /\ IsFiniteSet(1 .. m) /\ Cardinality(1 .. m) = m - 1 + 1
      BY <1>1, FS_Interval
  <2>2. Cardinality(1 .. m) < Cardinality(0 .. m)
      BY <1>1, <2>1
  <2> QED BY <1>4, <2>1, <2>2, FS_PigeonHole
<1>6. PICK a \in 0 .. m, b \in 0 .. m : a < b /\ hop[a] = hop[b]
    BY <1>1, <1>5
<1> DEFINE S == {hop[n] : n \in a .. b - 1}
<1>7. S \in SUBSET (DOMAIN account) /\ S # {}
  <2>1. \A n \in a .. b - 1 : n \in 0 .. m
      BY <1>1, <1>6
  <2>2. a \in a .. b - 1
      BY <1>1, <1>6
  <2> QED BY <1>1, <1>4, <2>1, <2>2
<1>8. \A n \in a .. b - 1 : account[hop[n]].parent \in S
  <2> SUFFICES ASSUME NEW n \in a .. b - 1 PROVE account[hop[n]].parent \in S
      OBVIOUS
  <2>1. n + 1 \in 1 .. m /\ n + 1 - 1 = n /\ n \in 0 .. m
      BY <1>1, <1>6
  <2>2. hop[n + 1] = account[hop[n]].parent
      BY <1>2, <1>3, <2>1
  <2>3. CASE n = b - 1
    <3>1. n + 1 = b /\ a \in a .. b - 1
        BY <1>1, <1>6, <2>3
    <3> QED BY <1>6, <2>2, <3>1
  <2>4. CASE n # b - 1
    <3>1. n + 1 \in a .. b - 1
        BY <1>1, <1>6, <2>4
    <3> QED BY <2>2, <3>1
  <2> QED BY <2>3, <2>4
<1>9. \A j \in S : account[j].parent \in S
    BY <1>8
<1> HIDE DEF S
<1> QED BY <1>7, <1>9 DEF Forest

(* What a walk from p passes, up to its end, is closed under parents.       *)
Closed(rows, U) == \A j \in U : rows[j].parent \in U \cup {None}

LEMMA WalkIsClosed ==
    ASSUME Chart, NEW p \in DOMAIN account, ~Endless(p), NEW i, ~Meets(i, p)
    PROVE  \E U \in SUBSET (DOMAIN account) : Closed(account, U) /\ p \in U /\ i \notin U
<1> DEFINE m == Len(account)
           hop == Hop(p)
           U == {hop[n] : n \in 0 .. m} \ {None}
<1>1. m \in Nat /\ DOMAIN account = 1 .. m
    BY DEF Chart
<1>2. /\ hop \in [0 .. m -> Here] /\ hop[0] = p
      /\ \A n \in 1 .. m : hop[n] = IF hop[n - 1] = None THEN None
                                                         ELSE account[hop[n - 1]].parent
  <2>1. p \in Here
      BY DEF Here
  <2> QED BY <2>1, HopFacts
<1>3. hop[m] = None
    BY DEF Endless
<1>4. \A n \in 0 .. m : hop[n] # i
  <2>1. Range(hop) = {hop[n] : n \in 0 .. m}
      BY <1>2 DEF Range
  <2> QED BY <2>1 DEF Meets
<1> HIDE DEF hop, m
<1>5. U \in SUBSET (DOMAIN account)
    BY <1>2 DEF Here
<1>6. p \in U /\ i \notin U
  <2>1. 0 \in 0 .. m /\ p # None
      BY <1>1 DEF None
  <2> QED BY <1>2, <1>4, <2>1
<1>7. Closed(account, U)
  <2> SUFFICES ASSUME NEW n \in 0 .. m, hop[n] # None
               PROVE  account[hop[n]].parent \in U \cup {None}
      BY DEF Closed
  <2>1. n # m
      BY <1>3
  <2>2. n + 1 \in 1 .. m /\ n + 1 \in 0 .. m /\ n + 1 - 1 = n
      BY <1>1, <2>1
  <2>3. hop[n + 1] = account[hop[n]].parent
      BY <1>2, <2>2
  <2> QED BY <2>2, <2>3
<1> HIDE DEF U
<1> QED BY <1>5, <1>6, <1>7

-----------------------------------------------------------------------------
(* The look-ups of create_parents.                                          *)

LEMMA NameFacts ==
    ASSUME Chart
    PROVE  /\ NameDepth \in 0 .. Len(NamePath)
           /\ TheOnly(NameAt[NameDepth]) \in Here
<1> DEFINE m == Len(NamePath)
           V == SUBSET Here
           Found(S, n) == IF S = {} THEN {} ELSE Spot(TheOnly(S), NamePath[n])
           Single(S) == IF Cardinality(S) = 1 THEN S ELSE {}
           F == [n \in Nat |-> [S \in V |-> Single(Found(S, n))]]
           at == NameAt
<1>1. m \in Nat
    BY AccountsAssumption
<1>2. F \in [Nat -> [V -> V]]
  <2>1. \A n \in Nat : \A S \in V : Single(Found(S, n)) \in V
      BY DEF Spot, Here
  <2> HIDE DEF V, Single, Found
  <2> QED BY <2>1
<1>3. PICK f : Iterates(f, m, V, {None}, F)
  <2>1. {None} \in V
      BY DEF Here
  <2> HIDE DEF m, F, V
  <2> QED BY <1>1, <1>2, <2>1, Iterate
<1>4. \A n \in 0 .. m : f[n] = IF n = 0 THEN {None} ELSE Single(Found(f[n - 1], n))
  <2>1. ASSUME NEW n \in 1 .. m PROVE F[n][f[n - 1]] = Single(Found(f[n - 1], n))
    <3>1. n \in Nat /\ n - 1 \in 0 .. m
        BY <1>1
    <3>2. f[n - 1] \in V
      <4> HIDE DEF F, V
      <4> QED BY <1>3, <3>1 DEF Iterates
    <3> HIDE DEF V, Single, Found
    <3> QED BY <3>1, <3>2
  <2> HIDE DEF F, V, Single, Found
  <2> QED BY <1>1, <1>3, <2>1 DEF Iterates
<1>5. at = [n \in 0 .. m |-> IF n = 0 THEN {None} ELSE Single(Found(at[n - 1], n))]
  <2>1. f = [n \in 0 .. m |-> IF n = 0 THEN {None} ELSE Single(Found(f[n - 1], n))]
    <3> HIDE DEF F, V, Single, Found
    <3> QED BY <1>3, <1>4 DEF Iterates
  <2>2. \E g : g = [n \in 0 .. m |-> IF n = 0 THEN {None} ELSE Single(Found(g[n - 1], n))]
    <3> HIDE DEF Single, Found
    <3> QED BY <2>1
  <2> QED BY <2>2 DEF NameAt
<1> HIDE DEF at
<1>6. at[0] = {None} /\ DOMAIN at = 0 .. m
    BY <1>1, <1>5
<1>7. \A n \in 0 .. m : at[n] \in V
  <2>1. \A n \in 1 .. m : at[n - 1] \in V => at[n] \in V
    <3>1. ASSUME NEW n \in 1 .. m PROVE at[n] = Single(Found(at[n - 1], n))
      <4>1. n \in 0 .. m /\ n # 0
          BY <1>1
      <4> HIDE DEF Single, Found
      <4> QED BY <1>5, <4>1
    <3>2. \A S, n : Single(Found(S, n)) \in V
        BY DEF Spot, Here
    <3> HIDE DEF Single, Found
    <3> QED BY <3>1, <3>2
  <2>2. at[0] \in V
      BY <1>6 DEF Here
  <2> HIDE DEF V, m
  <2> QED BY <1>1, <2>1, <2>2, StaysIn
<1>8. \E k \in 0 .. m : at[k] # {} /\ \A l \in 0 .. m : at[l] # {} => l <= k
  <2> DEFINE S == {k \in 0 .. m : at[k] # {}}
  <2>1. S \in SUBSET (0 .. m) /\ S # {}
      BY <1>1, <1>6
  <2> HIDE DEF S
  <2>2. \E k \in S : \A l \in S : l <= k
      BY <1>1, <2>1, Greatest
  <2> QED BY <2>2 DEF S
<1>9. NameDepth \in 0 .. m /\ at[NameDepth] # {}
  <2>1. NameDepth = CHOOSE k \in 0 .. m :
                       at[k] # {} /\ \A l \in 0 .. m : at[l] # {} => l <= k
      BY <1>6 DEF NameDepth, at
  <2> QED BY <1>8, <2>1
<1>10. TheOnly(at[NameDepth]) \in at[NameDepth]
    BY <1>9 DEF TheOnly
<1> QED BY <1>7, <1>9, <1>10 DEF at

LEMMA CodeFacts ==
    /\ CodeDepth \in 0 .. Len(CodePath)
    /\ \A l \in 1 .. CodeDepth : Coded(CodePath[l]) # {}
    /\ CodeDepth < Len(CodePath) => Coded(CodePath[CodeDepth + 1]) = {}
<1> DEFINE m == Len(CodePath)
           Ends(k) == k = m \/ Coded(CodePath[k + 1]) = {}
           T == {k \in Nat : k <= m /\ Ends(k)}
<1>1. m \in Nat
    BY AccountsAssumption
<1>2. T \in SUBSET Nat /\ T # {}
  <2>1. m \in T
    BY <1>1
  <2> QED BY <2>1
<1>3. PICK k \in T : \A l \in T : k <= l
  <2> HIDE DEF T
  <2> QED BY <1>2, Least
<1>4. k \in 0 .. m /\ (k < m => Coded(CodePath[k + 1]) = {})
    BY <1>1
<1>5. \A l \in 1 .. k : Coded(CodePath[l]) # {}
  <2> SUFFICES ASSUME NEW l \in 1 .. k, Coded(CodePath[l]) = {} PROVE FALSE
      OBVIOUS
  <2>1. l - 1 \in Nat /\ l - 1 <= m /\ l - 1 + 1 = l /\ l - 1 < k
      BY <1>1, <1>4
  <2>2. l - 1 \in T
      BY <2>1
  <2> HIDE DEF T
  <2> QED BY <1>3, <1>4, <2>1, <2>2
<1> QED BY <1>4, <1>5 DEF CodeDepth

-----------------------------------------------------------------------------
(* Rows that are added.                                                     *)

(* A row whose parent may be beyond the bound on accounts.                  *)
Wide == [parent : Nat, name : Names, code : Codes, active : BOOLEAN,
         hold : BOOLEAN, posted : SUBSET {"checked", "unchecked"},
         by : {"user", "name", "code", "twin"}]

(* rows is the chart with rows added, each below one that was there first.  *)
Grown(rows) ==
    /\ rows \in Seq(Wide) /\ Len(account) <= Len(rows)
    /\ \A i \in DOMAIN account : rows[i] = account[i]
    /\ \A i \in DOMAIN rows \ DOMAIN account : rows[i].parent < i /\ rows[i].posted = {}

(* What WalksReuseRows says of the chart.                                   *)
Reuse(rows) ==
    \A i, k \in DOMAIN rows :
        i # k /\ rows[i].by = rows[k].by =>
            /\ rows[i].by = "name" =>
                 <<rows[i].parent, rows[i].name>> # <<rows[k].parent, rows[k].name>>
            /\ rows[i].by = "code" => rows[i].code # rows[k].code

LEMMA PathNames ==
    /\ Len(NamePath) \in Nat /\ \A n \in 1 .. Len(NamePath) : NamePath[n] \in Names
    /\ Len(CodePath) \in Nat /\ \A n \in 1 .. Len(CodePath) : CodePath[n] \in Codes
    /\ "other" \in Names /\ "none" \in Codes /\ Imbalance \in Codes
BY AccountsAssumption DEF Names, Codes

LEMMA AccountIsWide ==
    ASSUME NEW row \in Account
    PROVE  row \in Wide
BY AccountsAssumption DEF Account, Wide, Ids, None

LEMMA GrownNot ==
    ASSUME Chart
    PROVE  Grown(account)
<1>1. \A i \in DOMAIN account : account[i] \in Account
    BY DEF Chart
<1>2. account \in Seq(Wide)
    BY <1>1, AccountIsWide DEF Chart
<1> QED BY <1>2 DEF Grown, Chart

LEMMA GrownAppend ==
    ASSUME Chart, NEW rows, Grown(rows), NEW row \in Wide, row.parent <= Len(rows),
           row.posted = {}
    PROVE  Grown(Append(rows, row))
<1> DEFINE more == Append(rows, row)
<1>1. /\ rows \in Seq(Wide) /\ Len(rows) \in Nat /\ DOMAIN rows = 1 .. Len(rows)
      /\ Len(account) \in Nat /\ DOMAIN account = 1 .. Len(account)
      /\ Len(account) <= Len(rows)
    BY DEF Grown, Chart
<1>2. more \in Seq(Wide) /\ Len(more) = Len(rows) + 1 /\ DOMAIN more = 1 .. Len(rows) + 1
    BY <1>1
<1>3. more[Len(rows) + 1] = row /\ \A i \in DOMAIN rows : more[i] = rows[i]
    BY <1>1
<1> HIDE DEF more
<1>4. \A i \in DOMAIN account : more[i] = account[i]
    BY <1>1, <1>3 DEF Grown
<1>5. ASSUME NEW i \in DOMAIN more \ DOMAIN account
      PROVE  more[i].parent < i /\ more[i].posted = {}
  <2>1. CASE i = Len(rows) + 1
    <3>1. row.parent \in Nat
        BY DEF Wide
    <3> QED BY <1>1, <1>3, <2>1, <3>1
  <2>2. CASE i # Len(rows) + 1
    <3>1. i \in DOMAIN rows \ DOMAIN account
        BY <1>1, <1>2, <2>2
    <3> QED BY <1>3, <3>1 DEF Grown
  <2> QED BY <2>1, <2>2
<1> QED BY <1>1, <1>2, <1>4, <1>5 DEF Grown, more

LEMMA ReuseAppend ==
    ASSUME NEW rows \in Seq(Wide), NEW row \in Wide, Reuse(rows),
           row.by = "code" => \A i \in CodedIn(rows, row.code) : rows[i].by # "code",
           row.by # "name"
    PROVE  Reuse(Append(rows, row))
<1> DEFINE more == Append(rows, row)
<1>1. DOMAIN rows = 1 .. Len(rows) /\ Len(rows) \in Nat
    OBVIOUS
<1>2. DOMAIN more = 1 .. Len(rows) + 1
    BY <1>1
<1>3. more[Len(rows) + 1] = row /\ \A i \in DOMAIN rows : more[i] = rows[i]
    BY <1>1
<1> HIDE DEF more
<1> SUFFICES ASSUME NEW i \in DOMAIN more, NEW k \in DOMAIN more, i # k,
                    more[i].by = more[k].by
             PROVE  /\ more[i].by = "name" =>
                         <<more[i].parent, more[i].name>> # <<more[k].parent, more[k].name>>
                    /\ more[i].by = "code" => more[i].code # more[k].code
    BY DEF Reuse, more
<1>4. CASE i \in DOMAIN rows /\ k \in DOMAIN rows
    BY <1>3, <1>4 DEF Reuse
<1>5. CASE i = Len(rows) + 1
  <2>1. k \in DOMAIN rows /\ more[k] = rows[k] /\ more[i] = row
      BY <1>1, <1>2, <1>3, <1>5
  <2> QED BY <2>1 DEF CodedIn
<1>6. CASE k = Len(rows) + 1
  <2>1. i \in DOMAIN rows /\ more[i] = rows[i] /\ more[k] = row
      BY <1>1, <1>2, <1>3, <1>6
  <2> QED BY <2>1 DEF CodedIn
<1> QED BY <1>1, <1>2, <1>4, <1>5, <1>6

(* Rows that are added within the bound.                                    *)
LEMMA GrownTyped ==
    ASSUME Chart, NEW rows, Grown(rows), Len(rows) <= MaxAccounts
    PROVE  /\ rows \in Seq(Account)
           /\ \A i \in DOMAIN rows : rows[i].parent \in DOMAIN rows \cup {None}
           /\ DOMAIN account \in SUBSET (DOMAIN rows)
<1>1. /\ rows \in Seq(Wide) /\ Len(rows) \in Nat /\ DOMAIN rows = 1 .. Len(rows)
      /\ Len(account) \in Nat /\ DOMAIN account = 1 .. Len(account)
      /\ Len(account) <= Len(rows) /\ MaxAccounts \in Nat
    BY AccountsAssumption DEF Grown, Chart
<1>2. ASSUME NEW i \in DOMAIN rows
      PROVE  rows[i].parent \in DOMAIN rows \cup {None} /\ rows[i] \in Account
  <2>1. CASE i \in DOMAIN account
    <3>1. rows[i] = account[i]
        BY <2>1 DEF Grown
    <3> QED BY <1>1, <2>1, <3>1 DEF Chart, Here
  <2>2. CASE i \notin DOMAIN account
    <3>1. rows[i] \in Wide /\ rows[i].parent < i
        BY <1>1, <2>2 DEF Grown
    <3>2. rows[i].parent \in Nat
        BY <3>1 DEF Wide
    <3>3. rows[i].parent \in DOMAIN rows \cup {None} /\ rows[i].parent \in Ids \cup {None}
        BY <1>1, <3>1, <3>2 DEF None, Ids
    <3> QED BY <3>1, <3>3 DEF Wide, Account
  <2> QED BY <2>1, <2>2
<1> QED BY <1>1, <1>2

(* The chain of a path of names.                                            *)
LEMMA NameChainGrown ==
    ASSUME Chart, NEW r, r.depth \in 0 .. Len(NamePath) - 1, r.parent \in Here,
           r.twin \in BOOLEAN
    PROVE  /\ Grown(account \o NameChain(r))
           /\ Len(account \o NameChain(r)) = Len(account) + Len(NamePath) - r.depth
           /\ Reuse(account)
              /\ (~r.twin => \A i \in Spot(r.parent, NamePath[r.depth + 1]) :
                                account[i].by # "name")
              => Reuse(account \o NameChain(r))
<1> DEFINE L == Len(account)
           c == Len(NamePath) - r.depth
           chain == NameChain(r)
           rows == account \o chain
<1>1. /\ L \in Nat /\ DOMAIN account = 1 .. L /\ account \in Seq(Wide)
      /\ \A i \in 1 .. L : account[i].parent \in 0 .. L /\ account[i] \in Wide
  <2>1. account \in Seq(Wide)
      BY GrownNot DEF Grown
  <2> QED BY <2>1 DEF Chart, Here, None
<1>2. c \in Nat /\ 1 <= c /\ r.parent \in 0 .. L
    BY <1>1, PathNames DEF Here, None
<1>3. ASSUME NEW n \in 1 .. c
      PROVE  /\ chain[n] \in Wide /\ chain[n].posted = {}
             /\ chain[n].name = NamePath[r.depth + n]
             /\ chain[n].parent = IF n = 1 THEN r.parent ELSE L + n - 1
             /\ chain[n].by = IF n = 1 /\ r.twin THEN "twin" ELSE "name"
  <2> DEFINE p == IF n = 1 THEN r.parent ELSE L + n - 1
             by == IF n = 1 /\ r.twin THEN "twin" ELSE "name"
  <2>1. p \in Nat /\ by \in {"user", "name", "code", "twin"}
      BY <1>1, <1>2
  <2>2. r.depth + n \in 1 .. Len(NamePath)
      BY PathNames
  <2>3. chain[n] = Row(p, NamePath[r.depth + n], "none", FALSE, by)
      BY DEF NameChain
  <2>4. NamePath[r.depth + n] \in Names /\ "none" \in Codes
      BY <2>2, PathNames
  <2> HIDE DEF p, by, chain
  <2>5. /\ chain[n] \in Wide /\ chain[n].posted = {} /\ chain[n].by = by
        /\ chain[n].name = NamePath[r.depth + n] /\ chain[n].parent = p
      BY <2>1, <2>3, <2>4 DEF Row, Wide
  <2> QED BY <2>5 DEF p, by
<1>4. chain \in Seq(Wide) /\ Len(chain) = c
  <2>1. chain = [n \in 1 .. c |-> chain[n]]
      BY DEF NameChain
  <2> HIDE DEF chain, c
  <2> QED BY <1>2, <1>3, <2>1
<1>5. /\ rows \in Seq(Wide) /\ Len(rows) = L + c /\ DOMAIN rows = 1 .. L + c
      /\ \A i \in 1 .. L : rows[i] = account[i]
      /\ \A i \in L + 1 .. L + c : rows[i] = chain[i - L] /\ i - L \in 1 .. c
  <2> HIDE DEF chain, c, L
  <2>1. rows \in Seq(Wide) /\ Len(rows) = L + c /\ DOMAIN rows = 1 .. L + c
      BY <1>1, <1>2, <1>4 DEF L
  <2> QED BY <1>1, <1>2, <1>4, <2>1 DEF L
<1> HIDE DEF chain, c, rows
<1>6. \A i \in L + 1 .. L + c :
         /\ rows[i].posted = {}
         /\ rows[i].parent = IF i = L + 1 THEN r.parent ELSE i - 1
         /\ rows[i].by = IF i = L + 1 /\ r.twin THEN "twin" ELSE "name"
         /\ i = L + 1 => rows[i].name = NamePath[r.depth + 1]
    BY <1>1, <1>2, <1>3, <1>5
<1>7. Grown(rows)
  <2>1. \A i \in DOMAIN rows \ DOMAIN account : rows[i].parent < i /\ rows[i].posted = {}
      BY <1>1, <1>2, <1>5, <1>6
  <2> QED BY <1>1, <1>2, <1>5, <2>1 DEF Grown
<1>8. ASSUME Reuse(account),
             ~r.twin => \A i \in Spot(r.parent, NamePath[r.depth + 1]) :
                           account[i].by # "name"
      PROVE  Reuse(rows)
  <2>1. ASSUME NEW i \in 1 .. L, NEW k \in L + 1 .. L + c, rows[i].by = rows[k].by
        PROVE  /\ rows[i].by # "code"
               /\ rows[i].by = "name" =>
                    <<rows[i].parent, rows[i].name>> # <<rows[k].parent, rows[k].name>>
    <3>1. CASE k = L + 1
        BY <1>1, <1>5, <1>6, <1>8, <2>1, <3>1 DEF Spot
    <3>2. CASE k # L + 1
      <4>0. rows[k].by = "name" /\ rows[k].parent = k - 1
          BY <1>6, <3>2
      <4>1. rows[k].by = "name" /\ rows[k].parent = k - 1 /\ k - 1 > L
        <5> HIDE DEF L
        <5> QED BY <1>1, <1>2, <3>2, <4>0
      <4>2. rows[i].parent \in 0 .. L
          BY <1>1, <1>5
      <4>3. rows[i].parent # rows[k].parent
          BY <1>1, <4>1, <4>2
      <4> QED BY <2>1, <4>1, <4>3
    <3> QED BY <3>1, <3>2
  <2>2. ASSUME NEW i \in L + 1 .. L + c, NEW k \in L + 1 .. L + c, i # k
        PROVE  rows[i].by # "code" /\ rows[i].parent # rows[k].parent
      BY <1>1, <1>2, <1>6, <2>2
  <2>3. ASSUME NEW i \in 1 .. L, NEW k \in 1 .. L, i # k, rows[i].by = rows[k].by
        PROVE  /\ rows[i].by = "name" =>
                    <<rows[i].parent, rows[i].name>> # <<rows[k].parent, rows[k].name>>
               /\ rows[i].by = "code" => rows[i].code # rows[k].code
      BY <1>1, <1>5, <1>8, <2>3 DEF Reuse
  <2>4. \A i \in DOMAIN rows : i \in 1 .. L \/ i \in L + 1 .. L + c
      BY <1>1, <1>2, <1>5
  <2> QED BY <2>1, <2>2, <2>3, <2>4 DEF Reuse
<1>9. Len(rows) = L + (Len(NamePath) - r.depth)
    BY <1>5 DEF c
<1>10. Len(rows) = Len(account) + Len(NamePath) - r.depth
    BY <1>1, <1>9, PathNames
<1> QED BY <1>7, <1>8, <1>10 DEF rows, chain

(* The chain of a path of codes, and what one more code makes of it.        *)
Look(d, code) == IF CodedIn(d.rows, code) = {} THEN Made(d, code)
                 ELSE [d EXCEPT !.parent = TheOnly(CodedIn(d.rows, code))]

Chain(r) ==
    CHOOSE done : done = [l \in r.depth + 1 .. Len(CodePath) |->
        IF l = r.depth + 1 THEN Made([rows |-> account, parent |-> r.parent], CodePath[l])
                           ELSE Look(done[l - 1], CodePath[l])]

LEMMA ChainIs ==
    ASSUME NEW r
    PROVE  CodeChain(r) = Chain(r)[Len(CodePath)].rows
BY DEF CodeChain, Chain, Look

(* If fresh, no two rows stand for one code.                                *)
Walked(fresh) ==
    {d \in [rows : Seq(Wide), parent : Nat] :
        Grown(d.rows) /\ d.parent \in DOMAIN d.rows /\ (fresh => Reuse(d.rows))}

LEMMA MadeWalked ==
    ASSUME Chart, NEW fresh \in BOOLEAN, NEW rows, NEW p, NEW code \in Codes, Grown(rows),
           p \in 0 .. Len(rows),
           fresh => Reuse(rows) /\ \A i \in CodedIn(rows, code) : rows[i].by # "code"
    PROVE  Made([rows |-> rows, parent |-> p], code) \in Walked(fresh)
<1> DEFINE row == Row(p, "other", code, FALSE, "code")
           more == Append(rows, row)
<1>1. rows \in Seq(Wide) /\ Len(rows) \in Nat /\ p \in Nat
    BY DEF Grown
<1>2. row \in Wide /\ row.parent = p /\ row.posted = {} /\ row.by = "code" /\ row.code = code
    BY <1>1, PathNames DEF Row, Wide
<1> HIDE DEF row
<1>3. Grown(more)
    BY <1>1, <1>2, GrownAppend
<1>4. fresh => Reuse(more)
    BY <1>1, <1>2, ReuseAppend
<1>5. more \in Seq(Wide) /\ Len(more) = Len(rows) + 1 /\ Len(rows) + 1 \in DOMAIN more
    BY <1>1, <1>2
<1>6. Made([rows |-> rows, parent |-> p], code) = [rows |-> more, parent |-> Len(rows) + 1]
    BY DEF Made, row
<1> HIDE DEF more
<1> QED BY <1>1, <1>3, <1>4, <1>5, <1>6 DEF Walked

LEMMA LookWalked ==
    ASSUME Chart, NEW fresh \in BOOLEAN, NEW d \in Walked(fresh), NEW code \in Codes
    PROVE  Look(d, code) \in Walked(fresh)
<1>1. /\ d = [rows |-> d.rows, parent |-> d.parent]
      /\ d.rows \in Seq(Wide) /\ Grown(d.rows) /\ d.parent \in DOMAIN d.rows
      /\ fresh => Reuse(d.rows)
    BY DEF Walked
<1>2. CASE CodedIn(d.rows, code) = {}
  <2>1. PICK rows, p : rows = d.rows /\ p = d.parent
      OBVIOUS
  <2>2. Made([rows |-> rows, parent |-> p], code) \in Walked(fresh)
    <3>1. p \in 0 .. Len(rows) /\ CodedIn(rows, code) = {} /\ Grown(rows)
        BY <1>1, <1>2, <2>1
    <3> QED BY <1>1, <2>1, <3>1, MadeWalked
  <2> QED BY <1>1, <1>2, <2>1, <2>2 DEF Look
<1>3. CASE CodedIn(d.rows, code) # {}
  <2>1. PICK i : i = TheOnly(CodedIn(d.rows, code))
      OBVIOUS
  <2>2. i \in DOMAIN d.rows /\ i \in Nat
      BY <1>1, <1>3, <2>1 DEF TheOnly, CodedIn
  <2>3. Look(d, code) = [rows |-> d.rows, parent |-> i]
      BY <1>1, <1>3, <2>1 DEF Look
  <2> QED BY <1>1, <2>2, <2>3 DEF Walked
<1> QED BY <1>2, <1>3

LEMMA CodeChainGrown ==
    ASSUME Chart, NEW r, r.depth \in 0 .. Len(CodePath) - 1, r.parent \in Here
    PROVE  /\ Grown(CodeChain(r))
           /\ Reuse(account)
              /\ (\A i \in Coded(CodePath[r.depth + 1]) : account[i].by # "code")
              => Reuse(CodeChain(r))
<1> DEFINE first == r.depth + 1
           m == Len(CodePath) - first
           fresh == Reuse(account) /\ \A i \in Coded(CodePath[first]) : account[i].by # "code"
           V == Walked(fresh)
           x == Made([rows |-> account, parent |-> r.parent], CodePath[first])
           F == [n \in Nat |-> [d \in V |-> IF n \in 1 .. m THEN Look(d, CodePath[first + n])
                                                          ELSE d]]
           done == Chain(r)
<1>0. first \in 1 .. Len(CodePath) /\ Len(CodePath) \in Nat
    BY PathNames
<1> HIDE DEF first
<1>1. m \in Nat /\ first \in Nat /\ Len(CodePath) = first + m
    BY <1>0
<1> HIDE DEF m
<1>a. \A n \in 0 .. m : first + n \in first .. Len(CodePath) /\ CodePath[first + n] \in Codes
    BY <1>0, <1>1, PathNames
<1>b. \A l \in first .. Len(CodePath) :
         /\ l - first \in 0 .. m
         /\ l # first => /\ l - first \in 1 .. m /\ first + (l - first) = l
                         /\ l - 1 \in first .. Len(CodePath)
                         /\ l - 1 - first = l - first - 1
    BY <1>0, <1>1
<1>2. x \in V
  <2>1. PICK code \in Codes : code = CodePath[first]
      BY <1>0, PathNames
  <2>2. r.parent \in 0 .. Len(account)
      BY DEF Chart, Here, None
  <2>3. PICK p : p = r.parent
      OBVIOUS
  <2>4. Grown(account)
      BY GrownNot
  <2>5. PICK fr \in BOOLEAN : fr = fresh
      OBVIOUS
  <2>6. fr => Reuse(account) /\ \A i \in CodedIn(account, code) : account[i].by # "code"
      BY <2>1, <2>5 DEF Coded
  <2> HIDE DEF fresh
  <2>7. Made([rows |-> account, parent |-> p], code) \in Walked(fr)
      BY <2>2, <2>3, <2>4, <2>6, MadeWalked
  <2> QED BY <2>1, <2>3, <2>5, <2>7
<1>3. \A d \in V : \A code \in Codes : Look(d, code) \in V
  <2>1. fresh \in BOOLEAN
      OBVIOUS
  <2> HIDE DEF fresh
  <2> QED BY <2>1, LookWalked
<1> HIDE DEF V, x, fresh
<1>4. F \in [Nat -> [V -> V]]
  <2>1. \A n \in 1 .. m : CodePath[first + n] \in Codes
      BY <1>1, <1>a
  <2> QED BY <1>3, <2>1
<1>5. PICK f : Iterates(f, m, V, x, F)
  <2> HIDE DEF m, F
  <2> QED BY <1>1, <1>2, <1>4, Iterate
<1>6. \A n \in 1 .. m : f[n] = Look(f[n - 1], CodePath[first + n])
  <2> SUFFICES ASSUME NEW n \in 1 .. m
               PROVE  f[n] = Look(f[n - 1], CodePath[first + n])
      OBVIOUS
  <2>1. n \in Nat /\ n - 1 \in 0 .. m
      BY <1>1
  <2>2. f[n - 1] \in V /\ f[n] = F[n][f[n - 1]]
    <3> HIDE DEF F
    <3> QED BY <1>5, <2>1 DEF Iterates
  <2>3. F[n][f[n - 1]] = Look(f[n - 1], CodePath[first + n])
      BY <2>1, <2>2
  <2> QED BY <2>2, <2>3
<1>7. done = [l \in first .. Len(CodePath) |->
                 IF l = first THEN Made([rows |-> account, parent |-> r.parent], CodePath[l])
                              ELSE Look(done[l - 1], CodePath[l])]
  <2> DEFINE g == [l \in first .. Len(CodePath) |-> f[l - first]]
  <2>1. ASSUME NEW l \in first .. Len(CodePath)
        PROVE  g[l] = IF l = first
                        THEN Made([rows |-> account, parent |-> r.parent], CodePath[l])
                        ELSE Look(g[l - 1], CodePath[l])
    <3>1. CASE l = first
      <4>1. g[l] = f[0]
          BY <1>0, <1>1, <3>1
      <4> HIDE DEF g
      <4> QED BY <1>5, <3>1, <4>1 DEF Iterates, x
    <3>2. CASE l # first
      <4>1. g[l] = f[l - first] /\ g[l - 1] = f[l - first - 1]
          BY <1>b, <3>2
      <4>2. l - first \in 1 .. m /\ first + (l - first) = l
          BY <1>b, <3>2
      <4> HIDE DEF g
      <4> QED BY <1>6, <3>2, <4>1, <4>2
    <3> QED BY <3>1, <3>2
  <2>2. g = [l \in first .. Len(CodePath) |->
                IF l = first THEN Made([rows |-> account, parent |-> r.parent], CodePath[l])
                             ELSE Look(g[l - 1], CodePath[l])]
      BY <2>1
  <2> HIDE DEF g
  <2>3. \E h : h = [l \in first .. Len(CodePath) |->
                IF l = first THEN Made([rows |-> account, parent |-> r.parent], CodePath[l])
                             ELSE Look(h[l - 1], CodePath[l])]
      BY <2>2
  <2> QED BY <2>3 DEF Chain, first
<1> HIDE DEF done
<1>8. \A n \in 0 .. m : done[first + n] \in V
  <2> DEFINE d == [n \in 0 .. m |-> done[first + n]]
  <2>1. d[0] \in V
    <3>1. d[0] = done[first] /\ first \in first .. Len(CodePath)
        BY <1>0, <1>1
    <3> HIDE DEF d
    <3> QED BY <1>2, <1>7, <3>1 DEF x
  <2>2. ASSUME NEW n \in 1 .. m, d[n - 1] \in V PROVE d[n] \in V
    <3>1. /\ first + n \in first .. Len(CodePath) /\ first + n # first
          /\ first + n - 1 = first + (n - 1) /\ n \in 0 .. m /\ n - 1 \in 0 .. m
          /\ CodePath[first + n] \in Codes
        BY <1>1, <1>a
    <3>2. PICK l \in first .. Len(CodePath) :
             l = first + n /\ l # first /\ l - 1 = first + (n - 1)
        BY <1>1, <3>1
    <3>4. done[l] = Look(done[l - 1], CodePath[l])
        BY <1>7, <3>2
    <3>3. d[n] = done[l] /\ d[n - 1] = done[l - 1] /\ CodePath[l] \in Codes
        BY <3>1, <3>2
    <3> QED BY <1>3, <2>2, <3>3, <3>4
  <2> HIDE DEF d
  <2>3. \A n \in 0 .. m : d[n] \in V
      BY <1>1, <2>1, <2>2, StaysIn
  <2> QED BY <2>3 DEF d
<1>9. done[Len(CodePath)] \in V
    BY <1>1, <1>8
<1>10. Grown(done[Len(CodePath)].rows) /\ (fresh => Reuse(done[Len(CodePath)].rows))
    BY <1>9 DEF V, Walked
<1> QED BY <1>10, ChainIs DEF done, fresh, first

-----------------------------------------------------------------------------
(* Types.  What a request names is there for as long as it is in flight.    *)

Refers(r) ==
    /\ r.op = "create" => r.row \in Account /\ r.row.parent \in Here /\ r.row.posted = {}
                          /\ r.row.by = "user"
    /\ r.op = "nameWalk" => r.parent \in Here /\ r.depth \in 0 .. Len(NamePath) - 1
                            /\ r.twin \in BOOLEAN
    /\ r.op = "codeWalk" => r.parent \in Here /\ r.depth \in 0 .. Len(CodePath) - 1
    /\ r.op = "patch" => r.id \in DOMAIN account /\ r.to \in Account
                         /\ r.to.parent \in Here /\ r.fields \in SUBSET Fields
    /\ r.op = "post" => r.id \in DOMAIN account
    /\ r.op = "import" => r.bank \in DOMAIN account /\ r.category \in Here

Typed == TypeOK /\ \A s \in Slots : Refers(req[s])

LEMMA TypedInit == Init => Typed
<1> SUFFICES ASSUME Init PROVE Typed
    OBVIOUS
<1> DEFINE row == Row(None, "other", "Imbalance:Unknown", FALSE, "user")
<1>1. row \in Account /\ row.parent = None
    BY DEF Row, Account, Names, Codes, Ids, None
<1> HIDE DEF row
<1>2. /\ account = <<row>> /\ Len(account) = 1 /\ DOMAIN account = {1}
      /\ account \in Seq(Account) /\ account[1] = row
  <2>1. account = <<row>>
      BY DEF Init, row
  <2> QED BY <1>1, <2>1
<1>3. Len(account) <= MaxAccounts
    BY <1>2, AccountsAssumption
<1>4. /\ req \in [Slots -> Request]
      /\ met \in [Slots -> SUBSET Kinds] /\ crossed \in SUBSET Kinds
    BY DEF Init, Request
<1>5. \A s \in Slots : Refers(req[s])
    BY DEF Init, Idle, Refers
<1> QED BY <1>1, <1>2, <1>3, <1>4, <1>5 DEF Typed, TypeOK

LEMMA TypedBegin ==
    ASSUME Typed, NEW s \in Slots, NEW r \in Request, Refers(r), Begin(s, r)
    PROVE  Typed'
<1>1. TypeOK'
    BY DEF Typed, TypeOK, Begin
<1>2. ASSUME NEW u \in Slots PROVE Refers(req[u])'
  <2>1. req'[u] = r \/ req'[u] = req[u]
      BY DEF Begin, Typed, TypeOK
  <2> QED BY <2>1 DEF Begin, Typed, Refers, Here
<1> QED BY <1>1, <1>2 DEF Typed

LEMMA TypedCommit ==
    ASSUME Typed, NEW s \in Slots, NEW rows \in Seq(Account), NEW kinds \in SUBSET Kinds,
           Len(rows) <= MaxAccounts, DOMAIN account \in SUBSET (DOMAIN rows),
           \A i \in DOMAIN rows : rows[i].parent \in DOMAIN rows \cup {None},
           Commit(s, rows, kinds)
    PROVE  Typed'
<1>1. TypeOK'
  <2>1. account' = rows
      BY DEF Commit
  <2>2. req' \in [Slots -> Request]
      BY DEF Commit, Typed, TypeOK, Request
  <2>3. met' \in [Slots -> SUBSET Kinds]
      BY DEF Commit, Typed, TypeOK
  <2>4. crossed' \in SUBSET Kinds
      BY DEF Commit, Typed, TypeOK
  <2> QED BY <2>1, <2>2, <2>3, <2>4 DEF TypeOK
<1>2. ASSUME NEW u \in Slots PROVE Refers(req[u])'
  <2>1. req'[u] = Idle \/ req'[u] = req[u]
      BY DEF Commit, Typed, TypeOK
  <2>2. account' = rows /\ Refers(req[u])
      BY DEF Commit, Typed
  <2>3. CASE req'[u] = Idle
      BY <2>3 DEF Idle, Refers
  <2>4. CASE req'[u] = req[u]
      BY <2>2, <2>4 DEF Refers, Here
  <2> QED BY <2>1, <2>3, <2>4
<1> QED BY <1>1, <1>2 DEF Typed

LEMMA TypedAtOnce ==
    ASSUME Typed, NEW i \in DOMAIN account, NEW row \in Account,
           row.parent = account[i].parent, AtOnce(i, row)
    PROVE  Typed'
<1>1. /\ account' \in Seq(Account) /\ Len(account') = Len(account)
      /\ DOMAIN account' = DOMAIN account
      /\ \A k \in DOMAIN account : account'[k] = IF k = i THEN row ELSE account[k]
    BY DEF AtOnce, Typed, TypeOK
<1>2. TypeOK'
    BY <1>1 DEF Typed, TypeOK, AtOnce
<1>3. \A u \in Slots : Refers(req[u])'
    BY <1>1 DEF Typed, Refers, Here, AtOnce
<1> QED BY <1>2, <1>3 DEF Typed

(* What the requests that begin carry.                                      *)
LEMMA CreateRow ==
    ASSUME Typed, NEW p \in Here, NEW b \in Bodies
    PROVE  LET r == [op |-> "create", row |-> Row(p, b.name, b.code, b.hold, "user")]
           IN  r \in Request /\ Refers(r)
<1> DEFINE row == Row(p, b.name, b.code, b.hold, "user")
<1>1. b.name \in Names /\ b.code \in Codes /\ b.hold \in BOOLEAN
    BY AccountsAssumption
<1>2. p \in Ids \cup {None}
    BY AccountsAssumption DEF Typed, TypeOK, Here, Ids
<1>3. row \in Account /\ row.parent = p /\ row.posted = {} /\ row.by = "user"
    BY <1>1, <1>2 DEF Row, Account
<1> HIDE DEF row
<1> QED BY <1>3 DEF Request, Refers, row

LEMMA IdsHere == TypeOK => Here \in SUBSET (Ids \cup {None})
BY AccountsAssumption DEF TypeOK, Here, Ids

LEMMA PatchFields ==
    ASSUME Typed, NEW i \in DOMAIN account, NEW change \in Patches, NEW p \in Here
    PROVE  LET to == Patched(account[i], change, p)
               r  == [op |-> "patch", id |-> i, to |-> to,
                      fields |-> {f \in Fields : to[f] # account[i][f]}]
           IN  /\ r \in Request /\ Refers(r)
               /\ "parent" \in r.fields => p # None /\ to.parent = p
<1> DEFINE to == Patched(account[i], change, p)
           fields == {f \in Fields : to[f] # account[i][f]}
           r == [op |-> "patch", id |-> i, to |-> to, fields |-> fields]
<1>1. account[i] \in Account /\ account[i].parent \in Here /\ p \in Ids \cup {None}
      /\ i \in Ids
    BY IdsHere DEF Typed, TypeOK, Here, None
<1>2. to \in Account /\ to.parent = IF p = None THEN account[i].parent ELSE p
    BY <1>1, PatchedFields
<1> HIDE DEF to
<1>3. fields \in SUBSET Fields /\ ("parent" \in fields => p # None)
    BY <1>1, <1>2
<1> HIDE DEF fields
<1>4. r \in Request /\ Refers(r)
    BY <1>1, <1>2, <1>3 DEF Request, Refers
<1>5. "parent" \in r.fields => p # None /\ to.parent = p
    BY <1>2, <1>3
<1> QED BY <1>4, <1>5 DEF to, fields

-----------------------------------------------------------------------------
(* The forms a step can have.                                               *)

(* What a request has read that makes it safe, as long as no commit of the  *)
(* kind it depends on has come between.                                     *)
Fresh(r) ==
    /\ r.op = "nameWalk" /\ ~r.twin =>
         \A i \in Spot(r.parent, NamePath[r.depth + 1]) : account[i].by # "name"
    /\ r.op = "codeWalk" => \A i \in Coded(CodePath[r.depth + 1]) : account[i].by # "code"
    /\ r.op = "import" /\ r.category = None =>
         \A i \in Coded(Imbalance) : account[i].by # "code"

Target(r) == IF r.op = "post" THEN r.id ELSE r.bank

Sees(r) ==
    /\ r.op = "walking" => \E p \in DOMAIN account : Endless(p)
    /\ r.op = "patch" /\ "parent" \in r.fields =>
         r.to.parent \in DOMAIN account /\ ~Endless(r.to.parent) /\ ~Meets(r.id, r.to.parent)
    /\ r.op = "patch" /\ "hold" \in r.fields /\ r.to.hold => account[r.id].posted = {}
    /\ r.op \in {"post", "import"} => ~account[Target(r)].hold
    /\ Fresh(r)

Starts(s) == \E r \in Request : Refers(r) /\ Sees(r) /\ Begin(s, r)

(* Rows that differ in their postings only.                                 *)
Alike(rows, base) ==
    /\ DOMAIN rows = DOMAIN base
    /\ \A i \in DOMAIN base :
          /\ rows[i].parent = base[i].parent /\ rows[i].name = base[i].name
          /\ rows[i].code = base[i].code /\ rows[i].by = base[i].by
          /\ rows[i].hold = base[i].hold

(* A commit that adds rows, postings, or both.                              *)
AddsRows(s, base, rows, kinds) ==
    /\ Commit(s, rows, kinds) /\ kinds \in SUBSET {"make", "post"}
    /\ Grown(base) /\ Alike(rows, base) /\ rows \in Seq(Account) /\ Len(rows) <= MaxAccounts
    /\ \A i \in DOMAIN rows : "checked" \in rows[i].posted /\ "checked" \notin base[i].posted =>
          "post" \in kinds /\ req[s].op \in {"post", "import"} /\ i = Target(req[s])
    /\ Reuse(account) /\ Fresh(req[s]) => Reuse(base)
    /\ "make" \notin kinds => (Reuse(account) => Reuse(base))
    /\ "make" \notin kinds => \A i \in DOMAIN base \ DOMAIN account : base[i].by = "user"

Adds(s) == \E base, rows, kinds : AddsRows(s, base, rows, kinds)

Tidies ==
    \E i \in DOMAIN account : \E row \in Account :
        /\ AtOnce(i, row)
        /\ row.parent = account[i].parent /\ row.hold = account[i].hold
        /\ row.posted \in SUBSET account[i].posted
        /\ \/ row.by = "user"
           \/ row.by = account[i].by /\ row.name = account[i].name /\ row.code = account[i].code

LEMMA BeginsStart ==
    ASSUME Typed, NEW s \in Slots,
           \/ BeginCreate(s) \/ BeginWalkNamePath(s) \/ BeginWalkCodePath(s)
           \/ BeginUpdate(s) \/ BeginPost(s) \/ BeginImport(s)
    PROVE  Starts(s)
<1>0. Chart /\ Here \in SUBSET (Ids \cup {None})
    BY ChartOfTypes, IdsHere DEF Typed
<1>1. CASE BeginCreate(s)
  <2>1. PICK b \in Bodies, p \in Here :
           Begin(s, [op |-> "create", row |-> Row(p, b.name, b.code, b.hold, "user")])
      BY <1>1 DEF BeginCreate, Here
  <2> DEFINE r == [op |-> "create", row |-> Row(p, b.name, b.code, b.hold, "user")]
  <2>2. r \in Request /\ Refers(r)
      BY CreateRow
  <2>3. Sees(r)
      BY DEF Sees, Fresh
  <2> HIDE DEF r
  <2>4. Begin(s, r)
      BY <2>1 DEF r
  <2> QED BY <2>2, <2>3, <2>4 DEF Starts
<1>2. CASE BeginWalkNamePath(s)
  <2>1. PICK k, p : k = NameDepth /\ p = TheOnly(NameAt[k])
      OBVIOUS
  <2>2. k \in 0 .. Len(NamePath) - 1 /\ p \in Here /\ k \in Nat
    <3>1. k \in 0 .. Len(NamePath) /\ p \in Here
        BY <1>0, <2>1, NameFacts
    <3>2. k < Len(NamePath)
        BY <1>2, <2>1 DEF BeginWalkNamePath
    <3> QED BY <3>1, <3>2, PathNames
  <2> DEFINE r == [op |-> "nameWalk", parent |-> p, depth |-> k,
                   twin |-> Spot(p, NamePath[k + 1]) # {}]
  <2>3. r \in Request
      BY <1>0, <2>2 DEF Request
  <2>4. Refers(r)
      BY <2>2 DEF Refers
  <2>5. Sees(r)
      BY DEF Sees, Fresh
  <2>6. Begin(s, r)
      BY <1>2, <2>1 DEF BeginWalkNamePath
  <2> HIDE DEF r
  <2> QED BY <2>3, <2>4, <2>5, <2>6 DEF Starts
<1>3. CASE BeginWalkCodePath(s)
  <2>1. PICK k : k = CodeDepth
      OBVIOUS
  <2>2. PICK p : p = IF k = 0 THEN None ELSE TheOnly(Coded(CodePath[k]))
      OBVIOUS
  <2>3. k \in 0 .. Len(CodePath) - 1 /\ k \in Nat /\ Coded(CodePath[k + 1]) = {}
    <3>1. k \in 0 .. Len(CodePath) /\ (k < Len(CodePath) => Coded(CodePath[k + 1]) = {})
        BY <2>1, CodeFacts
    <3>2. k < Len(CodePath)
        BY <1>3, <2>1 DEF BeginWalkCodePath
    <3> QED BY <3>1, <3>2, PathNames
  <2>4. p \in Here
    <3>1. CASE k = 0
        BY <2>2, <3>1 DEF Here
    <3>2. CASE k # 0
      <4>1. k \in 1 .. CodeDepth
          BY <2>1, <2>3, <3>2
      <4>2. Coded(CodePath[k]) # {}
          BY <2>1, <4>1, CodeFacts
      <4> QED BY <2>2, <3>2, <4>2 DEF TheOnly, Coded, CodedIn, Here
    <3> QED BY <3>1, <3>2
  <2> DEFINE r == [op |-> "codeWalk", depth |-> k, parent |-> p]
  <2>5. r \in Request
      BY <1>0, <2>3, <2>4 DEF Request
  <2>6. Refers(r)
      BY <2>3, <2>4 DEF Refers
  <2>7. Sees(r)
      BY <2>3 DEF Sees, Fresh
  <2>8. Begin(s, r)
      BY <1>3, <2>1, <2>2 DEF BeginWalkCodePath
  <2> HIDE DEF r
  <2> QED BY <2>5, <2>6, <2>7, <2>8 DEF Starts
<1>4. CASE BeginUpdate(s)
  <2>1. PICK i \in DOMAIN account, change \in Patches, p \in Here :
           /\ p # None => ~Meets(i, p)
           /\ IF p # None /\ Endless(p)
                THEN Begin(s, [op |-> "walking"])
                ELSE BeginPatch(s, i, Patched(account[i], change, p))
      BY <1>4 DEF BeginUpdate, Here
  <2>2. CASE p # None /\ Endless(p)
    <3> DEFINE r == [op |-> "walking"]
    <3>1. r \in Request /\ Refers(r)
        BY DEF Request, Refers
    <3>2. Sees(r)
        BY <2>2 DEF Sees, Fresh, Here
    <3>3. Begin(s, r)
        BY <2>1, <2>2
    <3> HIDE DEF r
    <3> QED BY <3>1, <3>2, <3>3 DEF Starts
  <2>3. CASE ~(p # None /\ Endless(p))
    <3> DEFINE to == Patched(account[i], change, p)
               fields == {f \in Fields : to[f] # account[i][f]}
               r == [op |-> "patch", id |-> i, to |-> to, fields |-> fields]
    <3>1. r \in Request /\ Refers(r) /\ ("parent" \in r.fields => p # None /\ to.parent = p)
        BY PatchFields
    <3> HIDE DEF to
    <3>2. (to.hold /\ ~account[i].hold => account[i].posted = {}) /\ Begin(s, r)
        BY <2>1, <2>3 DEF BeginPatch, to
    <3>3. "hold" \in fields => to.hold # account[i].hold
        OBVIOUS
    <3>4. to.hold \in BOOLEAN /\ account[i].hold \in BOOLEAN
      <4>1. to \in Account /\ account[i] \in Account
          BY <3>1, <1>0 DEF Refers, Chart
      <4> QED BY <4>1 DEF Account
    <3> HIDE DEF fields
    <3>5. Sees(r)
        BY <2>1, <2>3, <3>1, <3>2, <3>3, <3>4 DEF Sees, Fresh, Here
    <3> HIDE DEF r
    <3> QED BY <3>1, <3>2, <3>5 DEF Starts
  <2> QED BY <2>2, <2>3
<1>5. CASE BeginPost(s)
  <2>1. PICK i \in DOMAIN account : ~account[i].hold /\ Begin(s, [op |-> "post", id |-> i])
      BY <1>5 DEF BeginPost
  <2> DEFINE r == [op |-> "post", id |-> i]
  <2>2. r \in Request /\ Refers(r)
    <3>1. i \in Ids
        BY <1>0 DEF Here, Chart, None
    <3> QED BY <3>1 DEF Request, Refers
  <2>3. Sees(r) /\ Begin(s, r)
      BY <2>1 DEF Sees, Fresh, Target
  <2> HIDE DEF r
  <2> QED BY <2>2, <2>3 DEF Starts
<1>6. CASE BeginImport(s)
  <2>1. PICK i \in DOMAIN account, c \in Here :
           /\ ~account[i].hold
           /\ c = None => Coded(Imbalance) = {}
           /\ Begin(s, [op |-> "import", bank |-> i, category |-> c])
      BY <1>6 DEF BeginImport, Here
  <2> DEFINE r == [op |-> "import", bank |-> i, category |-> c]
  <2>2. r \in Request /\ Refers(r)
    <3>1. i \in Ids
        BY <1>0 DEF Here, Chart, None
    <3> QED BY <1>0, <3>1 DEF Request, Refers
  <2>3. Sees(r) /\ Begin(s, r)
      BY <2>1 DEF Sees, Fresh, Target
  <2> HIDE DEF r
  <2> QED BY <2>2, <2>3 DEF Starts
<1> QED BY <1>1, <1>2, <1>3, <1>4, <1>5, <1>6

(* more is rows with postings on one account.                               *)
Posts(more, rows, i, how) ==
    /\ more \in Seq(Account) /\ Len(more) = Len(rows) /\ Alike(more, rows)
    /\ \A k \in DOMAIN rows :
          more[k].posted = IF k = i THEN rows[k].posted \cup {how} ELSE rows[k].posted

LEMMA PostedFacts ==
    ASSUME NEW rows \in Seq(Account), NEW i \in DOMAIN rows,
           NEW how \in {"checked", "unchecked"}, NEW more, more = Posted(rows, i, how)
    PROVE  Posts(more, rows, i, how)
<1> DEFINE row == [rows[i] EXCEPT !.posted = @ \cup {how}]
<1>1. \A k \in DOMAIN rows : rows[k] \in Account
    OBVIOUS
<1>2. /\ row \in Account /\ row.posted = rows[i].posted \cup {how}
      /\ row.parent = rows[i].parent /\ row.name = rows[i].name
      /\ row.code = rows[i].code /\ row.by = rows[i].by /\ row.hold = rows[i].hold
    BY <1>1 DEF Account
<1>3. more = [rows EXCEPT ![i] = row]
    BY DEF Posted
<1> HIDE DEF row
<1>4. /\ more \in Seq(Account) /\ Len(more) = Len(rows) /\ DOMAIN more = DOMAIN rows
      /\ \A k \in DOMAIN rows : more[k] = IF k = i THEN row ELSE rows[k]
    BY <1>2, <1>3
<1> QED BY <1>2, <1>4 DEF Alike, Posts

(* A commit that adds one row, of a user or of nobody's code.               *)
LEMMA GrownOne ==
    ASSUME Chart, NEW row \in Account, row.parent \in Here, row.posted = {},
           Len(account) + 1 <= MaxAccounts
    PROVE  LET base == Append(account, row) IN
           /\ Grown(base) /\ base \in Seq(Account) /\ Len(base) = Len(account) + 1
           /\ row.by = "user" => /\ Reuse(account) => Reuse(base)
                                 /\ \A i \in DOMAIN base \ DOMAIN account : base[i].by = "user"
           /\ row.by = "code" /\ Reuse(account)
              /\ (\A i \in Coded(row.code) : account[i].by # "code") => Reuse(base)
<1> DEFINE base == Append(account, row)
<1>1. Grown(account) /\ row \in Wide /\ account \in Seq(Wide)
    BY GrownNot, AccountIsWide DEF Grown
<1>2. row.parent <= Len(account)
    BY DEF Here, None, Chart
<1>3. Grown(base)
    BY <1>1, <1>2, GrownAppend
<1>4. base \in Seq(Account) /\ Len(base) = Len(account) + 1
    BY DEF Chart
<1>5. ASSUME row.by = "user"
      PROVE  /\ Reuse(account) => Reuse(base)
             /\ \A i \in DOMAIN base \ DOMAIN account : base[i].by = "user"
  <2>1. Reuse(account) => Reuse(base)
      BY <1>1, <1>5, ReuseAppend
  <2>2. \A i \in DOMAIN base \ DOMAIN account : base[i] = row
      BY DEF Chart
  <2> QED BY <1>5, <2>1, <2>2
<1>6. row.by = "code" /\ Reuse(account)
      /\ (\A i \in Coded(row.code) : account[i].by # "code") => Reuse(base)
    BY <1>1, ReuseAppend DEF Coded
<1> QED BY <1>3, <1>4, <1>5, <1>6

LEMMA AlikeSelf == ASSUME NEW rows PROVE Alike(rows, rows)
BY DEF Alike

LEMMA CommitsAdd ==
    ASSUME Typed, NEW s \in Slots,
           \/ CommitCreate(s) \/ CommitWalkNamePath(s) \/ CommitWalkCodePath(s)
           \/ CommitPost(s) \/ CommitImport(s)
    PROVE  Adds(s)
<1>0. Chart /\ Refers(req[s]) /\ Len(account) <= MaxAccounts /\ MaxAccounts \in Nat
      /\ Len(account) \in Nat
    BY ChartOfTypes, AccountsAssumption DEF Typed, TypeOK
<1>1. CASE CommitCreate(s)
  <2>1. PICK row : row = req[s].row
      OBVIOUS
  <2>2. /\ row \in Account /\ row.parent \in Here /\ row.posted = {} /\ row.by = "user"
        /\ Len(account) + 1 <= MaxAccounts
        /\ Commit(s, Append(account, row), {})
      BY <1>0, <1>1, <2>1 DEF CommitCreate, Refers
  <2>3. PICK base : base = Append(account, row)
      OBVIOUS
  <2>4. /\ Grown(base) /\ base \in Seq(Account) /\ Len(base) = Len(account) + 1
        /\ Reuse(account) => Reuse(base)
        /\ \A i \in DOMAIN base \ DOMAIN account : base[i].by = "user"
      BY <1>0, <2>2, <2>3, GrownOne
  <2>5. AddsRows(s, base, base, {})
      BY <2>2, <2>3, <2>4, AlikeSelf DEF AddsRows
  <2> QED BY <2>5 DEF Adds
<1>2. CASE CommitWalkNamePath(s)
  <2>1. PICK r : r = req[s]
      OBVIOUS
  <2>2. /\ r.parent \in Here /\ r.depth \in 0 .. Len(NamePath) - 1 /\ r.twin \in BOOLEAN
        /\ r.op = "nameWalk"
      BY <1>0, <1>2, <2>1 DEF CommitWalkNamePath, Refers
  <2>3. PICK base : base = account \o NameChain(r)
      OBVIOUS
  <2>4. /\ Grown(base) /\ Len(base) = Len(account) + Len(NamePath) - r.depth
        /\ Reuse(account) /\ Fresh(r) => Reuse(base)
      BY <1>0, <2>2, <2>3, NameChainGrown DEF Fresh
  <2>5. Len(base) <= MaxAccounts /\ Commit(s, base, {"make"})
    <3>3. Len(account) + Len(NamePath) - r.depth <= MaxAccounts
        BY <1>2, <2>1 DEF CommitWalkNamePath
    <3>4. Commit(s, base, {"make"})
        BY <1>2, <2>1, <2>3 DEF CommitWalkNamePath
    <3> QED BY <2>4, <3>3, <3>4
  <2>6. base \in Seq(Account)
      BY <1>0, <2>4, <2>5, GrownTyped
  <2>7. AddsRows(s, base, base, {"make"})
      BY <2>1, <2>4, <2>5, <2>6, AlikeSelf DEF AddsRows
  <2> QED BY <2>7 DEF Adds
<1>3. CASE CommitWalkCodePath(s)
  <2>1. PICK r : r = req[s]
      OBVIOUS
  <2>2. r.parent \in Here /\ r.depth \in 0 .. Len(CodePath) - 1 /\ r.op = "codeWalk"
      BY <1>0, <1>3, <2>1 DEF CommitWalkCodePath, Refers
  <2>3. PICK base : base = CodeChain(r)
      OBVIOUS
  <2>4. /\ Grown(base)
        /\ Reuse(account) /\ Fresh(r) => Reuse(base)
      BY <1>0, <2>2, <2>3, CodeChainGrown DEF Fresh
  <2>5. Len(base) <= MaxAccounts /\ Commit(s, base, {"make"})
      BY <1>3, <2>1, <2>3 DEF CommitWalkCodePath
  <2>6. base \in Seq(Account)
      BY <1>0, <2>4, <2>5, GrownTyped
  <2>7. AddsRows(s, base, base, {"make"})
      BY <2>1, <2>4, <2>5, <2>6, AlikeSelf DEF AddsRows
  <2> QED BY <2>7 DEF Adds
<1>4. CASE CommitPost(s)
  <2>1. PICK i : i = req[s].id
      OBVIOUS
  <2>2. /\ i \in DOMAIN account /\ req[s].op = "post" /\ Target(req[s]) = i
        /\ Commit(s, Posted(account, i, "checked"), {"post"})
      BY <1>0, <1>4, <2>1 DEF CommitPost, Refers, Target
  <2>3. PICK rows : rows = Posted(account, i, "checked")
      OBVIOUS
  <2>4. /\ rows \in Seq(Account) /\ Len(rows) = Len(account) /\ Alike(rows, account)
        /\ \A k \in DOMAIN account :
              rows[k].posted = IF k = i THEN account[k].posted \cup {"checked"}
                                        ELSE account[k].posted
    <3>1. account \in Seq(Account) /\ i \in DOMAIN account
        BY <1>0, <2>2 DEF Chart
    <3>2. PICK a : a = account
        OBVIOUS
    <3>3. a \in Seq(Account) /\ i \in DOMAIN a /\ rows = Posted(a, i, "checked")
        BY <2>3, <3>1, <3>2
    <3>4. /\ rows \in Seq(Account) /\ Len(rows) = Len(a) /\ Alike(rows, a)
          /\ \A k \in DOMAIN a :
                rows[k].posted = IF k = i THEN a[k].posted \cup {"checked"} ELSE a[k].posted
      <4>1. Posts(rows, a, i, "checked")
          BY <3>3, PostedFacts
      <4> QED BY <4>1 DEF Posts
    <3> QED BY <3>2, <3>4
  <2>5. Grown(account)
      BY <1>0, GrownNot
  <2>6. AddsRows(s, account, rows, {"post"})
    <3>1. DOMAIN rows = DOMAIN account
        BY <2>4 DEF Alike
    <3> QED BY <1>0, <2>2, <2>3, <2>4, <2>5, <3>1 DEF AddsRows
  <2> QED BY <2>6 DEF Adds
<1>5. CASE CommitImport(s)
  <2>1. PICK r : r = req[s]
      OBVIOUS
  <2>2. r.bank \in DOMAIN account /\ r.category \in Here /\ r.op = "import"
        /\ Target(r) = r.bank
      BY <1>0, <1>5, <2>1 DEF CommitImport, Refers, Target
  <2>3. PICK base, to, kinds :
           /\ base = IF r.category = None
                       THEN Append(account, Row(None, "other", Imbalance, FALSE, "code"))
                       ELSE account
           /\ to = IF r.category = None THEN Len(base) ELSE r.category
           /\ kinds = {"post"} \cup {k \in {"make"} : r.category = None}
      OBVIOUS
  <2>4. /\ Len(base) <= MaxAccounts
        /\ Commit(s, Posted(Posted(base, r.bank, "checked"), to, "unchecked"), kinds)
      BY <1>5, <2>1, <2>3 DEF CommitImport
  <2>5. /\ Grown(base) /\ base \in Seq(Account) /\ to \in DOMAIN base
        /\ r.bank \in DOMAIN base
        /\ Reuse(account) /\ Fresh(r) => Reuse(base)
        /\ "make" \notin kinds => base = account
    <3>1. CASE r.category = None
      <4>1. PICK row : row = Row(None, "other", Imbalance, FALSE, "code")
          OBVIOUS
      <4>2. row \in Account /\ row.parent \in Here /\ row.posted = {} /\ row.by = "code"
            /\ row.code = Imbalance
          BY <4>1, PathNames DEF Row, Account, Here
      <4>3. base = Append(account, row)
          BY <2>3, <3>1, <4>1
      <4>4. Len(account) + 1 <= MaxAccounts
        <5>1. Len(base) = Len(account) + 1
            BY <1>0, <4>2, <4>3 DEF Chart
        <5> QED BY <2>4, <5>1
      <4>5. /\ Grown(base) /\ base \in Seq(Account) /\ Len(base) = Len(account) + 1
            /\ Reuse(account) /\ Fresh(r) => Reuse(base)
          BY <1>0, <2>2, <3>1, <4>2, <4>3, <4>4, GrownOne DEF Fresh
      <4>6. to \in DOMAIN base /\ r.bank \in DOMAIN base
          BY <1>0, <2>2, <2>3, <3>1, <4>5 DEF Chart
      <4> QED BY <2>3, <3>1, <4>5, <4>6
    <3>2. CASE r.category # None
      <4>1. base = account /\ to = r.category
          BY <2>3, <3>2
      <4> QED BY <1>0, <2>2, <3>2, <4>1, GrownNot DEF Here, Chart
    <3> QED BY <3>1, <3>2
  <2>6. PICK mid : mid = Posted(base, r.bank, "checked")
      OBVIOUS
  <2>7. /\ mid \in Seq(Account) /\ Len(mid) = Len(base) /\ Alike(mid, base)
        /\ \A k \in DOMAIN base :
              mid[k].posted = IF k = r.bank THEN base[k].posted \cup {"checked"}
                                            ELSE base[k].posted
    <3>1. Posts(mid, base, r.bank, "checked")
        BY <2>5, <2>6, PostedFacts
    <3> QED BY <3>1 DEF Posts
  <2>8. PICK rows : rows = Posted(mid, to, "unchecked")
      OBVIOUS
  <2>9. /\ rows \in Seq(Account) /\ Len(rows) = Len(mid) /\ Alike(rows, mid)
        /\ \A k \in DOMAIN mid :
              rows[k].posted = IF k = to THEN mid[k].posted \cup {"unchecked"}
                                         ELSE mid[k].posted
    <3>1. to \in DOMAIN mid /\ mid \in Seq(Account)
        BY <2>5, <2>7 DEF Alike
    <3>2. Posts(rows, mid, to, "unchecked")
        BY <2>8, <3>1, PostedFacts
    <3> QED BY <3>2 DEF Posts
  <2>10. Alike(rows, base)
      BY <2>7, <2>9 DEF Alike
  <2>11. \A i \in DOMAIN rows : "checked" \in rows[i].posted /\ "checked" \notin base[i].posted
            => i = r.bank
    <3>1. DOMAIN rows = DOMAIN base /\ DOMAIN mid = DOMAIN base
        BY <2>7, <2>10 DEF Alike
    <3>2. ASSUME NEW i \in DOMAIN base, "checked" \in rows[i].posted,
                 "checked" \notin base[i].posted
          PROVE  i = r.bank
      <4>1. "checked" \in mid[i].posted
        <5>1. rows[i].posted = IF i = to THEN mid[i].posted \cup {"unchecked"}
                                         ELSE mid[i].posted
            BY <2>9, <3>1, <3>2
        <5> QED BY <3>2, <5>1
      <4> QED BY <2>7, <3>2, <4>1
    <3> QED BY <3>1, <3>2
  <2>12. kinds \in SUBSET {"make", "post"} /\ "post" \in kinds
      BY <2>3
  <2>13. Commit(s, rows, kinds)
      BY <2>4, <2>6, <2>8
  <2>14. Len(rows) <= MaxAccounts
      BY <2>4, <2>7, <2>9
  <2>15. AddsRows(s, base, rows, kinds)
    <3>1. "make" \notin kinds =>
             (Reuse(account) => Reuse(base))
             /\ \A i \in DOMAIN base \ DOMAIN account : base[i].by = "user"
        BY <2>5
    <3> QED BY <2>1, <2>2, <2>5, <2>9, <2>10, <2>11, <2>12, <2>13, <2>14, <3>1 DEF AddsRows
  <2> QED BY <2>15 DEF Adds
<1> QED BY <1>1, <1>2, <1>3, <1>4, <1>5

LEMMA TidiesWell ==
    ASSUME Typed, Deactivate \/ Redact \/ DeleteDraft
    PROVE  Tidies
<1>0. \A i \in DOMAIN account : account[i] \in Account
    BY DEF Typed, TypeOK
<1>1. CASE Deactivate
  <2>1. PICK i \in DOMAIN account : AtOnce(i, [account[i] EXCEPT !.active = FALSE])
      BY <1>1 DEF Deactivate
  <2>2. PICK row : row = [account[i] EXCEPT !.active = FALSE]
      OBVIOUS
  <2>3. /\ row \in Account
        /\ row.parent = account[i].parent /\ row.hold = account[i].hold
        /\ row.posted = account[i].posted
        /\ row.by = account[i].by /\ row.name = account[i].name /\ row.code = account[i].code
      BY <1>0, <2>2 DEF Account
  <2> QED BY <2>1, <2>2, <2>3 DEF Tidies
<1>2. CASE Redact
  <2>1. PICK i \in DOMAIN account :
           AtOnce(i, [account[i] EXCEPT !.name = "redacted", !.by = "user"])
      BY <1>2 DEF Redact
  <2>2. PICK row : row = [account[i] EXCEPT !.name = "redacted", !.by = "user"]
      OBVIOUS
  <2>3. /\ row \in Account
        /\ row.parent = account[i].parent /\ row.hold = account[i].hold
        /\ row.posted = account[i].posted /\ row.by = "user"
      BY <1>0, <2>2 DEF Account, Names
  <2> QED BY <2>1, <2>2, <2>3 DEF Tidies
<1>3. CASE DeleteDraft
  <2>1. PICK i \in DOMAIN account : \E how \in account[i].posted :
           AtOnce(i, [account[i] EXCEPT !.posted = @ \ {how}])
      BY <1>3 DEF DeleteDraft
  <2>4. PICK how : AtOnce(i, [account[i] EXCEPT !.posted = @ \ {how}])
      BY <2>1
  <2>2. PICK row : row = [account[i] EXCEPT !.posted = @ \ {how}]
      OBVIOUS
  <2>3. /\ row \in Account
        /\ row.parent = account[i].parent /\ row.hold = account[i].hold
        /\ row.posted \in SUBSET account[i].posted
        /\ row.by = account[i].by /\ row.name = account[i].name /\ row.code = account[i].code
      BY <1>0, <2>2 DEF Account
  <2> QED BY <2>4, <2>2, <2>3 DEF Tidies
<1> QED BY <1>1, <1>2, <1>3

LEMMA Forms ==
    ASSUME Typed, [Next]_vars
    PROVE  \/ UNCHANGED vars
           \/ Tidies
           \/ \E s \in Slots : Starts(s) \/ Adds(s) \/ CommitUpdate(s)
<1>1. CASE UNCHANGED vars
    BY <1>1
<1>2. CASE Deactivate \/ Redact \/ DeleteDraft
    BY <1>2, TidiesWell
<1>3. ASSUME NEW s \in Slots,
             \/ BeginCreate(s) \/ CommitCreate(s)
             \/ BeginWalkNamePath(s) \/ CommitWalkNamePath(s)
             \/ BeginWalkCodePath(s) \/ CommitWalkCodePath(s)
             \/ BeginUpdate(s) \/ CommitUpdate(s)
             \/ BeginPost(s) \/ CommitPost(s)
             \/ BeginImport(s) \/ CommitImport(s)
      PROVE  Starts(s) \/ Adds(s) \/ CommitUpdate(s)
    BY <1>3, BeginsStart, CommitsAdd
<1> QED BY <1>1, <1>2, <1>3 DEF Next

-----------------------------------------------------------------------------
(* What commits do to the chart and to the other requests.                  *)

LEMMA AddedRows ==
    ASSUME Chart, NEW s, NEW base, NEW rows, NEW kinds, AddsRows(s, base, rows, kinds)
    PROVE  /\ Len(rows) = Len(base) /\ Len(base) <= MaxAccounts
           /\ \A i \in DOMAIN rows : rows[i].parent \in DOMAIN rows \cup {None}
           /\ DOMAIN account \in SUBSET (DOMAIN rows)
           /\ kinds \in SUBSET Kinds
<1>1. /\ Grown(base) /\ Alike(rows, base) /\ rows \in Seq(Account) /\ Len(rows) <= MaxAccounts
      /\ kinds \in SUBSET {"make", "post"}
    BY DEF AddsRows
<1>2. Len(rows) = Len(base)
    BY <1>1 DEF Alike, Grown
<1>3. /\ base \in Seq(Account)
      /\ \A i \in DOMAIN base : base[i].parent \in DOMAIN base \cup {None}
      /\ DOMAIN account \in SUBSET (DOMAIN base)
    BY <1>1, <1>2, GrownTyped
<1> QED BY <1>1, <1>2, <1>3 DEF Alike, Kinds

(* The rows that a PATCH leaves, and the kinds of its commit.               *)
LEMMA UpdatedRows ==
    ASSUME Typed, NEW s \in Slots, CommitUpdate(s)
    PROVE  LET r == req[s] IN
           \E rows \in Seq(Account), kinds \in SUBSET {"move", "hold"} :
              /\ Commit(s, rows, kinds)
              /\ r.op = "patch" /\ r.id \in DOMAIN account /\ Len(rows) = Len(account)
              /\ DOMAIN rows = DOMAIN account
              /\ \A i \in DOMAIN account \ {r.id} : rows[i] = account[i]
              /\ rows[r.id].parent = IF "parent" \in r.fields THEN r.to.parent
                                                              ELSE account[r.id].parent
              /\ rows[r.id].hold = IF "hold" \in r.fields THEN r.to.hold
                                                          ELSE account[r.id].hold
              /\ rows[r.id].posted = account[r.id].posted
              /\ \/ rows[r.id].by = "user"
                 \/ rows[r.id].by = account[r.id].by
                    /\ rows[r.id].parent = account[r.id].parent
                    /\ rows[r.id].name = account[r.id].name
                    /\ rows[r.id].code = account[r.id].code
              /\ "move" \in kinds <=> "parent" \in r.fields
              /\ "hold" \in kinds <=> "hold" \in r.fields /\ r.to.hold
<1>1. PICK r : r = req[s]
    OBVIOUS
<1>2. /\ r.op = "patch" /\ r.id \in DOMAIN account /\ r.to \in Account
      /\ r.fields \in SUBSET Fields
    BY <1>1 DEF CommitUpdate, Typed, Refers
<1>3. PICK old, q : old = account[r.id] /\ q = Settled(old, r)
    OBVIOUS
<1>4. old \in Account
    BY <1>2, <1>3 DEF Typed, TypeOK
<1>5. /\ q \in Account
      /\ q.parent = IF "parent" \in r.fields THEN r.to.parent ELSE old.parent
      /\ q.hold = IF "hold" \in r.fields THEN r.to.hold ELSE old.hold
      /\ q.posted = old.posted
      /\ \/ q.by = "user"
         \/ q.by = old.by /\ q.parent = old.parent /\ q.name = old.name /\ q.code = old.code
    BY <1>2, <1>3, <1>4, SettledFields
<1>6. PICK rows, kinds :
         /\ rows = [account EXCEPT ![r.id] = q]
         /\ kinds = {k \in {"move"} : "parent" \in r.fields}
                    \cup {k \in {"hold"} : "hold" \in r.fields /\ r.to.hold}
    OBVIOUS
<1>7. Commit(s, rows, kinds)
    BY <1>1, <1>3, <1>6 DEF CommitUpdate
<1>8. /\ rows \in Seq(Account) /\ Len(rows) = Len(account) /\ DOMAIN rows = DOMAIN account
      /\ \A i \in DOMAIN account \ {r.id} : rows[i] = account[i]
      /\ rows[r.id] = q
    BY <1>2, <1>5, <1>6 DEF Typed, TypeOK
<1>9. /\ kinds \in SUBSET {"move", "hold"}
      /\ "move" \in kinds <=> "parent" \in r.fields
    BY <1>6
<1>10. "hold" \in kinds <=> "hold" \in r.fields /\ r.to.hold
    BY <1>6
<1> QED BY <1>1, <1>2, <1>3, <1>5, <1>7, <1>8, <1>9, <1>10

LEMMA TypedStep ==
    ASSUME Typed, [Next]_vars
    PROVE  Typed'
<1>0. Chart
    BY ChartOfTypes DEF Typed
<1>1. CASE UNCHANGED vars
    BY <1>1 DEF vars, Typed, TypeOK, Refers, Here
<1>2. CASE Tidies
    BY <1>2, TypedAtOnce DEF Tidies
<1>3. ASSUME NEW s \in Slots, Starts(s) PROVE Typed'
    BY <1>3, TypedBegin DEF Starts
<1>4. ASSUME NEW s \in Slots, Adds(s) PROVE Typed'
  <2>1. PICK base, rows, kinds : AddsRows(s, base, rows, kinds)
      BY <1>4 DEF Adds
  <2>2. /\ \A i \in DOMAIN rows : rows[i].parent \in DOMAIN rows \cup {None}
        /\ DOMAIN account \in SUBSET (DOMAIN rows) /\ kinds \in SUBSET Kinds
      BY <1>0, <2>1, AddedRows
  <2>3. Commit(s, rows, kinds) /\ rows \in Seq(Account) /\ Len(rows) <= MaxAccounts
      BY <2>1 DEF AddsRows
  <2> QED BY <2>2, <2>3, TypedCommit
<1>5. ASSUME NEW s \in Slots, CommitUpdate(s) PROVE Typed'
  <2>1. PICK r : r = req[s]
      OBVIOUS
  <2>2. PICK rows \in Seq(Account), kinds \in SUBSET {"move", "hold"} :
           /\ Commit(s, rows, kinds)
           /\ r.op = "patch" /\ r.id \in DOMAIN account /\ Len(rows) = Len(account)
           /\ DOMAIN rows = DOMAIN account
           /\ \A i \in DOMAIN account \ {r.id} : rows[i] = account[i]
           /\ rows[r.id].parent = IF "parent" \in r.fields THEN r.to.parent
                                                           ELSE account[r.id].parent
      BY <1>5, <2>1, UpdatedRows
  <2>3. r.to.parent \in Here
      BY <2>1, <2>2 DEF Typed, Refers
  <2>4. \A i \in DOMAIN rows : rows[i].parent \in DOMAIN rows \cup {None}
      BY <1>0, <2>2, <2>3 DEF Chart, Here
  <2>5. Len(rows) <= MaxAccounts /\ kinds \in SUBSET Kinds
      BY <2>2 DEF Typed, TypeOK, Kinds
  <2> QED BY <2>2, <2>4, <2>5, TypedCommit
<1> QED BY <1>1, <1>2, <1>3, <1>4, <1>5, Forms

(* What is in flight, and what it has met.                                  *)
LEMMA CommitFacts ==
    ASSUME Typed, NEW s \in Slots, NEW rows, NEW kinds, Commit(s, rows, kinds)
    PROVE  /\ account' = rows
           /\ req'[s] = Idle /\ \A u \in Slots \ {s} : req'[u] = req[u]
           /\ \A u \in Slots \ {s} : req[u] # Idle => met'[u] = met[u] \cup kinds
           /\ \A k \in crossed : k \in crossed'
           /\ \A k \in kinds : k \notin crossed' => Upsets(k) \cap met[s] = {}
BY DEF Commit, Typed, TypeOK

LEMMA UpsetsAre ==
    /\ Upsets("hold") = {"post"} /\ Upsets("post") = {"hold"}
    /\ Upsets("move") = {"move"} /\ Upsets("make") = {"make"}
BY DEF Upsets

LEMMA BeginFacts ==
    ASSUME Typed, NEW s \in Slots, NEW r, Begin(s, r)
    PROVE  /\ account' = account /\ crossed' = crossed
           /\ req'[s] = r /\ met'[s] = {}
           /\ \A u \in Slots \ {s} : req'[u] = req[u] /\ met'[u] = met[u]
BY DEF Begin, Typed, TypeOK

LEMMA TidyFacts ==
    ASSUME Typed, Tidies
    PROVE  \E i \in DOMAIN account, row \in Account :
              /\ account' = [account EXCEPT ![i] = row]
              /\ DOMAIN account' = DOMAIN account
              /\ account'[i] = row /\ \A k \in DOMAIN account \ {i} : account'[k] = account[k]
              /\ req' = req /\ met' = met /\ crossed' = crossed
              /\ row.parent = account[i].parent /\ row.hold = account[i].hold
              /\ row.posted \in SUBSET account[i].posted
              /\ \/ row.by = "user"
                 \/ row.by = account[i].by /\ row.name = account[i].name
                    /\ row.code = account[i].code
<1>1. PICK i \in DOMAIN account : \E row \in Account :
         /\ AtOnce(i, row)
         /\ row.parent = account[i].parent /\ row.hold = account[i].hold
         /\ row.posted \in SUBSET account[i].posted
         /\ \/ row.by = "user"
            \/ row.by = account[i].by /\ row.name = account[i].name
               /\ row.code = account[i].code
    BY DEF Tidies
<1>2. PICK row \in Account :
         /\ AtOnce(i, row)
         /\ row.parent = account[i].parent /\ row.hold = account[i].hold
         /\ row.posted \in SUBSET account[i].posted
         /\ \/ row.by = "user"
            \/ row.by = account[i].by /\ row.name = account[i].name
               /\ row.code = account[i].code
    BY <1>1
<1>3. /\ account' = [account EXCEPT ![i] = row]
      /\ DOMAIN account' = DOMAIN account
      /\ account'[i] = row /\ \A k \in DOMAIN account \ {i} : account'[k] = account[k]
      /\ req' = req /\ met' = met /\ crossed' = crossed
    BY <1>2 DEF AtOnce, Typed, TypeOK
<1> QED BY <1>2, <1>3

(* Requests and their accounts have the types that TypeOK gives, and what a *)
(* request names is there for as long as it is in flight.                   *)
THEOREM TypeCorrect == Spec => []TypeOK
<1>1. Init => Typed
    BY TypedInit
<1>2. Typed /\ [Next]_vars => Typed'
    BY TypedStep
<1>3. Typed => TypeOK
    BY DEF Typed
<1> QED BY <1>1, <1>2, <1>3, PTL DEF Spec

-----------------------------------------------------------------------------
(* The chart stays a forest.                                                *)

(* A step that leaves the parents of the rows it finds, and puts new rows   *)
(* below rows that were there before them.                                  *)
KeepsParents(rows) ==
    /\ DOMAIN account \in SUBSET (DOMAIN rows) /\ DOMAIN rows \in SUBSET (Nat \ {0})
    /\ \A i \in DOMAIN account : rows[i].parent = account[i].parent
    /\ \A i \in DOMAIN rows \ DOMAIN account : rows[i].parent < i

LEMMA ForestKept ==
    ASSUME Chart, Forest(account), NEW rows, KeepsParents(rows)
    PROVE  Forest(rows)
<1> SUFFICES ASSUME NEW S \in SUBSET (DOMAIN rows), S # {}
             PROVE  \E i \in S : rows[i].parent \notin S
    BY DEF Forest
<1>1. CASE S \cap DOMAIN account # {}
  <2>1. PICK T : T = S \cap DOMAIN account
      OBVIOUS
  <2>2. PICK i \in T : account[i].parent \notin T
      BY <1>1, <2>1 DEF Forest
  <2>3. rows[i].parent = account[i].parent /\ account[i].parent \in Here
      BY <2>1, <2>2 DEF KeepsParents, Chart
  <2>4. None \notin S
      BY DEF KeepsParents, None
  <2> QED BY <2>1, <2>2, <2>3, <2>4 DEF Here
<1>2. CASE S \cap DOMAIN account = {}
  <2>1. S \in SUBSET Nat
      BY DEF KeepsParents
  <2>2. PICK i \in S : \A k \in S : i <= k
      BY <2>1, Least
  <2>3. rows[i].parent < i
      BY <1>2 DEF KeepsParents
  <2>4. ~(i <= rows[i].parent) \/ rows[i].parent \notin Nat
      BY <2>1, <2>3
  <2> QED BY <2>1, <2>2, <2>4
<1> QED BY <1>1, <1>2

(* A move to a parent whose own ancestors do not include the row.           *)
LEMMA ForestMoved ==
    ASSUME Chart, Forest(account), NEW rows, NEW id \in DOMAIN account, NEW p,
           DOMAIN rows = DOMAIN account,
           \A i \in DOMAIN account \ {id} : rows[i].parent = account[i].parent,
           rows[id].parent = p,
           NEW U \in SUBSET (DOMAIN account), Closed(account, U), p \in U, id \notin U
    PROVE  Forest(rows)
<1> SUFFICES ASSUME NEW S \in SUBSET (DOMAIN account), S # {},
                    \A i \in S : rows[i].parent \in S
             PROVE  FALSE
    BY DEF Forest
<1>0. None \notin S
    BY DEF Chart, None
<1>1. CASE S \cap U # {}
  <2>1. PICK T : T = S \cap U
      OBVIOUS
  <2>2. PICK i \in T : account[i].parent \notin T
      BY <1>1, <2>1 DEF Forest
  <2>3. rows[i].parent = account[i].parent /\ account[i].parent \in U \cup {None}
      BY <2>1, <2>2 DEF Closed
  <2> QED BY <1>0, <2>1, <2>2, <2>3
<1>2. CASE S \cap U = {}
  <2>1. id \notin S
      BY <1>2
  <2>2. PICK i \in S : account[i].parent \notin S
      BY DEF Forest
  <2> QED BY <2>1, <2>2
<1> QED BY <1>1, <1>2

(* What a PATCH in flight has seen of its new parent.                       *)
Above(rows, r) ==
    r.op = "patch" /\ "parent" \in r.fields =>
        \E U \in SUBSET (DOMAIN rows) : Closed(rows, U) /\ r.to.parent \in U /\ r.id \notin U

LEMMA AboveKept ==
    ASSUME NEW rows, KeepsParents(rows), NEW r, Above(account, r)
    PROVE  Above(rows, r)
<1> SUFFICES ASSUME r.op = "patch", "parent" \in r.fields
             PROVE  \E U \in SUBSET (DOMAIN rows) :
                       Closed(rows, U) /\ r.to.parent \in U /\ r.id \notin U
    BY DEF Above
<1>1. PICK U \in SUBSET (DOMAIN account) :
         Closed(account, U) /\ r.to.parent \in U /\ r.id \notin U
    BY DEF Above
<1>2. U \in SUBSET (DOMAIN rows)
    BY DEF KeepsParents
<1>3. Closed(rows, U)
    BY <1>1 DEF Closed, KeepsParents
<1> QED BY <1>1, <1>2, <1>3

ForestInv ==
    "move" \notin crossed =>
        /\ Forest(account)
        /\ \A s \in Slots : /\ req[s].op # "walking"
                            /\ "move" \notin met[s] => Above(account, req[s])

(* A step that keeps the parents, ends requests and adds to what they met.  *)
LEMMA ForestInvKept ==
    ASSUME Typed, ForestInv, NEW rows, KeepsParents(rows), account' = rows,
           \A k \in crossed : k \in crossed',
           \A u \in Slots : \/ req'[u] = Idle
                            \/ req'[u] = req[u] /\ \A k \in met[u] : k \in met'[u]
    PROVE  ForestInv'
<1> SUFFICES ASSUME "move" \notin crossed'
             PROVE  /\ Forest(rows)
                    /\ \A u \in Slots : /\ req'[u].op # "walking"
                                        /\ "move" \notin met'[u] => Above(rows, req'[u])
    BY DEF ForestInv, Forest, Above, Closed
<1>0. "move" \notin crossed /\ Chart
    BY ChartOfTypes DEF Typed
<1>1. Forest(rows)
    BY <1>0, ForestKept DEF ForestInv
<1>2. ASSUME NEW u \in Slots
      PROVE  /\ req'[u].op # "walking"
             /\ "move" \notin met'[u] => Above(rows, req'[u])
  <2>1. CASE req'[u] = Idle
      BY <2>1 DEF Idle, Above
  <2>2. CASE req'[u] = req[u] /\ \A k \in met[u] : k \in met'[u]
    <3>1. PICK r : r = req[u]
        OBVIOUS
    <3>2. r.op # "walking" /\ ("move" \notin met[u] => Above(account, r))
        BY <1>0, <3>1 DEF ForestInv
    <3> QED BY <2>2, <3>1, <3>2, AboveKept
  <2> QED BY <2>1, <2>2
<1> QED BY <1>1, <1>2

LEMMA ForestInvStep ==
    ASSUME Typed, ForestInv, [Next]_vars
    PROVE  ForestInv'
<1>0. Chart
    BY ChartOfTypes DEF Typed
<1>a. KeepsParents(account)
    BY <1>0 DEF Chart, KeepsParents
<1>1. CASE UNCHANGED vars
    BY <1>1 DEF vars, ForestInv, Forest, Above, Closed
<1>2. CASE Tidies
  <2>1. PICK i \in DOMAIN account, row \in Account :
              /\ account' = [account EXCEPT ![i] = row]
              /\ DOMAIN account' = DOMAIN account
              /\ account'[i] = row /\ \A k \in DOMAIN account \ {i} : account'[k] = account[k]
              /\ req' = req /\ met' = met /\ crossed' = crossed
              /\ row.parent = account[i].parent
      BY <1>2, TidyFacts
  <2>2. PICK rows : rows = account'
      OBVIOUS
  <2>3. KeepsParents(rows)
      BY <1>0, <2>1, <2>2 DEF Chart, KeepsParents
  <2> QED BY <2>1, <2>2, <2>3, ForestInvKept
<1>3. ASSUME NEW s \in Slots, Starts(s) PROVE ForestInv'
  <2>1. PICK r \in Request : Refers(r) /\ Sees(r) /\ Begin(s, r)
      BY <1>3 DEF Starts
  <2>2. /\ account' = account /\ crossed' = crossed
        /\ req'[s] = r /\ met'[s] = {}
        /\ \A u \in Slots \ {s} : req'[u] = req[u] /\ met'[u] = met[u]
      BY <2>1, BeginFacts
  <2>3. ASSUME Forest(account) PROVE r.op # "walking" /\ Above(account, r)
    <3>1. r.op # "walking"
      <4>1. \A p \in DOMAIN account : ~Endless(p)
          BY <1>0, <2>3, ForestEnds DEF Here
      <4> QED BY <2>1, <4>1 DEF Sees
    <3>2. ASSUME r.op = "patch", "parent" \in r.fields
          PROVE  \E U \in SUBSET (DOMAIN account) :
                    Closed(account, U) /\ r.to.parent \in U /\ r.id \notin U
      <4>1. PICK p, i : p = r.to.parent /\ i = r.id
          OBVIOUS
      <4>2. p \in DOMAIN account /\ ~Endless(p) /\ ~Meets(i, p)
          BY <2>1, <3>2, <4>1 DEF Sees
      <4> QED BY <1>0, <4>1, <4>2, WalkIsClosed
    <3> QED BY <3>1, <3>2 DEF Above
  <2> SUFFICES ASSUME "move" \notin crossed
               PROVE  /\ Forest(account)
                      /\ \A u \in Slots : /\ req'[u].op # "walking"
                                          /\ "move" \notin met'[u] => Above(account, req'[u])
      BY <2>2 DEF ForestInv, Forest, Above, Closed
  <2> QED BY <2>2, <2>3 DEF ForestInv
<1>4. ASSUME NEW s \in Slots, Adds(s) PROVE ForestInv'
  <2>1. PICK base, rows, kinds : AddsRows(s, base, rows, kinds)
      BY <1>4 DEF Adds
  <2>2. KeepsParents(rows)
    <3>1. /\ Grown(base) /\ Alike(rows, base) /\ rows \in Seq(Account)
        BY <2>1 DEF AddsRows
    <3>2. DOMAIN account \in SUBSET (DOMAIN rows)
        BY <1>0, <2>1, AddedRows
    <3> QED BY <3>1, <3>2 DEF KeepsParents, Grown, Alike
  <2>3. Commit(s, rows, kinds)
      BY <2>1 DEF AddsRows
  <2>4. /\ account' = rows
        /\ req'[s] = Idle /\ \A u \in Slots \ {s} : req'[u] = req[u]
        /\ \A u \in Slots \ {s} : req[u] # Idle => met'[u] = met[u] \cup kinds
        /\ \A k \in crossed : k \in crossed'
      BY <2>3, CommitFacts
  <2> QED BY <2>2, <2>4, ForestInvKept
<1>5. ASSUME NEW s \in Slots, CommitUpdate(s) PROVE ForestInv'
  <2>1. PICK r : r = req[s]
      OBVIOUS
  <2>2. PICK rows \in Seq(Account), kinds \in SUBSET {"move", "hold"} :
           /\ Commit(s, rows, kinds)
           /\ r.op = "patch" /\ r.id \in DOMAIN account
           /\ DOMAIN rows = DOMAIN account
           /\ \A i \in DOMAIN account \ {r.id} : rows[i] = account[i]
           /\ rows[r.id].parent = IF "parent" \in r.fields THEN r.to.parent
                                                           ELSE account[r.id].parent
           /\ "move" \in kinds <=> "parent" \in r.fields
      BY <1>5, <2>1, UpdatedRows
  <2>3. /\ account' = rows
        /\ req'[s] = Idle /\ \A u \in Slots \ {s} : req'[u] = req[u]
        /\ \A u \in Slots \ {s} : req[u] # Idle => met'[u] = met[u] \cup kinds
        /\ \A k \in crossed : k \in crossed'
        /\ \A k \in kinds : k \notin crossed' => Upsets(k) \cap met[s] = {}
      BY <2>2, CommitFacts
  <2>4. CASE "parent" \notin r.fields
    <3>1. KeepsParents(rows)
        BY <1>0, <2>2, <2>4 DEF KeepsParents, Chart
    <3> QED BY <2>3, <3>1, ForestInvKept
  <2>5. CASE "parent" \in r.fields
    <3> SUFFICES ASSUME "move" \notin crossed'
                 PROVE  /\ Forest(rows)
                        /\ \A u \in Slots : /\ req'[u].op # "walking"
                                            /\ "move" \notin met'[u] => Above(rows, req'[u])
        BY <2>3 DEF ForestInv, Forest, Above, Closed
    <3>1. "move" \in kinds /\ "move" \notin crossed /\ "move" \notin met[s]
        BY <2>2, <2>3, <2>5, UpsetsAre
    <3>2. Forest(account) /\ Above(account, r)
        BY <2>1, <3>1 DEF ForestInv
    <3>3. PICK U \in SUBSET (DOMAIN account) :
             Closed(account, U) /\ r.to.parent \in U /\ r.id \notin U
        BY <2>2, <2>5, <3>2 DEF Above
    <3>4. PICK i, p : i = r.id /\ p = r.to.parent
        OBVIOUS
    <3>5. Forest(rows)
      <4>1. /\ i \in DOMAIN account /\ rows[i].parent = p
            /\ \A k \in DOMAIN account \ {i} : rows[k].parent = account[k].parent
            /\ p \in U /\ i \notin U /\ Closed(account, U)
          BY <2>2, <2>5, <3>3, <3>4
      <4> QED BY <1>0, <2>2, <3>2, <4>1, ForestMoved
    <3>6. ASSUME NEW u \in Slots
          PROVE  /\ req'[u].op # "walking"
                 /\ "move" \notin met'[u] => Above(rows, req'[u])
      <4>1. CASE u = s \/ req[u] = Idle
        <5>1. req'[u] = Idle
            BY <2>3, <4>1
        <5> QED BY <5>1 DEF Idle, Above
      <4>2. CASE u # s /\ req[u] # Idle
          BY <2>3, <3>1, <4>2 DEF ForestInv
      <4> QED BY <4>1, <4>2
    <3> QED BY <3>5, <3>6
  <2> QED BY <2>4, <2>5
<1> QED BY <1>1, <1>2, <1>3, <1>4, <1>5, Forms

LEMMA ForestInvInit == Init => ForestInv
<1> SUFFICES ASSUME Init PROVE ForestInv
    OBVIOUS
<1>1. PICK row : row = Row(None, "other", "Imbalance:Unknown", FALSE, "user")
    OBVIOUS
<1>2. account = <<row>> /\ row.parent = None
    BY <1>1 DEF Init, Row
<1>3. Forest(account)
  <2>1. DOMAIN account = {1} /\ account[1].parent = 0
      BY <1>2 DEF None
  <2> QED BY <2>1 DEF Forest
<1>4. \A s \in Slots : req[s].op # "walking" /\ Above(account, req[s])
    BY DEF Init, Idle, Above
<1> QED BY <1>3, <1>4 DEF ForestInv

(* parent_account_id never closes a loop, and no PATCH walks up the chart   *)
(* for ever, unless two accounts were moved at the same time: of how many   *)
(* accounts there are, and how deep, nothing is assumed.                    *)
THEOREM ChartStaysForest == Spec => []ChartIsForest
<1>1. Init => Typed /\ ForestInv
    BY TypedInit, ForestInvInit
<1>2. Typed /\ ForestInv /\ [Next]_vars => Typed' /\ ForestInv'
    BY TypedStep, ForestInvStep
<1>3. Typed /\ ForestInv => ChartIsForest
  <2> SUFFICES ASSUME Typed, ForestInv, "move" \notin crossed
               PROVE  /\ \A i \in DOMAIN account : ~Endless(i)
                      /\ \A s \in Slots : req[s].op # "walking"
      BY DEF ChartIsForest
  <2>1. Chart /\ Forest(account)
      BY ChartOfTypes DEF Typed, ForestInv
  <2> QED BY <2>1, ForestEnds DEF ForestInv, Here
<1> QED BY <1>1, <1>2, <1>3, PTL DEF Spec

-----------------------------------------------------------------------------
(* Placeholders.                                                            *)

(* What a posting, and a flip that makes a placeholder, have seen.          *)
MayPost(rows, r) ==
    r.op \in {"post", "import"} => Target(r) \in DOMAIN rows /\ ~rows[Target(r)].hold
MayFlip(rows, r) ==
    r.op = "patch" /\ "hold" \in r.fields /\ r.to.hold =>
        r.id \in DOMAIN rows /\ "checked" \notin rows[r.id].posted
Holds(rows) == \A i \in DOMAIN rows : rows[i].hold => "checked" \notin rows[i].posted

HoldInv ==
    {"hold", "post"} \cap crossed = {} =>
        /\ Holds(account)
        /\ \A s \in Slots : /\ "hold" \notin met[s] => MayPost(account, req[s])
                            /\ "post" \notin met[s] => MayFlip(account, req[s])

(* No row of the chart becomes a placeholder, or gets a posting; and the    *)
(* rows that are added have none.                                           *)
NewHoldNone(rows) == \A i \in DOMAIN account : rows[i].hold => account[i].hold
NewPostNone(rows) ==
    \A i \in DOMAIN account : "checked" \in rows[i].posted => "checked" \in account[i].posted
NewRowsEmpty(rows) ==
    /\ DOMAIN account \in SUBSET (DOMAIN rows)
    /\ \A i \in DOMAIN rows \ DOMAIN account : "checked" \notin rows[i].posted

LEMMA HoldInvKept ==
    ASSUME Typed, HoldInv, NEW rows, account' = rows, NewRowsEmpty(rows),
           \A k \in crossed : k \in crossed',
           \A u \in Slots :
              \/ req'[u] = Idle
              \/ /\ req'[u] = req[u] /\ \A k \in met[u] : k \in met'[u]
                 /\ NewHoldNone(rows) \/ "hold" \in met'[u]
                 /\ NewPostNone(rows) \/ "post" \in met'[u],
           {"hold", "post"} \cap crossed' = {} => Holds(rows)
    PROVE  HoldInv'
<1> SUFFICES ASSUME {"hold", "post"} \cap crossed' = {}
             PROVE  /\ Holds(rows)
                    /\ \A u \in Slots : /\ "hold" \notin met'[u] => MayPost(rows, req'[u])
                                        /\ "post" \notin met'[u] => MayFlip(rows, req'[u])
    BY DEF HoldInv, Holds, MayPost, MayFlip, Target
<1>0. {"hold", "post"} \cap crossed = {}
    OBVIOUS
<1>1. ASSUME NEW u \in Slots
      PROVE  /\ "hold" \notin met'[u] => MayPost(rows, req'[u])
             /\ "post" \notin met'[u] => MayFlip(rows, req'[u])
  <2>1. CASE req'[u] = Idle
      BY <2>1 DEF Idle, MayPost, MayFlip
  <2>2. CASE /\ req'[u] = req[u] /\ \A k \in met[u] : k \in met'[u]
             /\ NewHoldNone(rows) \/ "hold" \in met'[u]
             /\ NewPostNone(rows) \/ "post" \in met'[u]
    <3>1. PICK r : r = req[u]
        OBVIOUS
    <3>2. /\ "hold" \notin met[u] => MayPost(account, r)
          /\ "post" \notin met[u] => MayFlip(account, r)
        BY <1>0, <3>1 DEF HoldInv
    <3>3. ASSUME "hold" \notin met'[u] PROVE MayPost(rows, r)
        BY <2>2, <3>2, <3>3 DEF MayPost, NewHoldNone, NewRowsEmpty
    <3>4. ASSUME "post" \notin met'[u] PROVE MayFlip(rows, r)
        BY <2>2, <3>2, <3>4 DEF MayFlip, NewPostNone, NewRowsEmpty
    <3> QED BY <2>2, <3>1, <3>3, <3>4
  <2> QED BY <2>1, <2>2
<1> QED BY <1>1

LEMMA HoldInvStep ==
    ASSUME Typed, HoldInv, [Next]_vars
    PROVE  HoldInv'
<1>0. Chart
    BY ChartOfTypes DEF Typed
<1>1. CASE UNCHANGED vars
    BY <1>1 DEF vars, HoldInv, Holds, MayPost, MayFlip, Target
<1>2. CASE Tidies
  <2>1. PICK i \in DOMAIN account, row \in Account :
              /\ account' = [account EXCEPT ![i] = row]
              /\ DOMAIN account' = DOMAIN account
              /\ account'[i] = row /\ \A k \in DOMAIN account \ {i} : account'[k] = account[k]
              /\ req' = req /\ met' = met /\ crossed' = crossed
              /\ row.hold = account[i].hold
              /\ row.posted \in SUBSET account[i].posted
      BY <1>2, TidyFacts
  <2>2. PICK rows : rows = account'
      OBVIOUS
  <2>3. NewHoldNone(rows) /\ NewPostNone(rows) /\ NewRowsEmpty(rows)
      BY <2>1, <2>2 DEF NewHoldNone, NewPostNone, NewRowsEmpty
  <2>4. Holds(account) => Holds(rows)
      BY <2>1, <2>2, <2>3 DEF Holds, NewHoldNone, NewPostNone
  <2>5. {"hold", "post"} \cap crossed' = {} => Holds(rows)
      BY <2>1, <2>4 DEF HoldInv
  <2> QED BY <2>1, <2>2, <2>3, <2>5, HoldInvKept
<1>3. ASSUME NEW s \in Slots, Starts(s) PROVE HoldInv'
  <2>1. PICK r \in Request : Refers(r) /\ Sees(r) /\ Begin(s, r)
      BY <1>3 DEF Starts
  <2>2. /\ account' = account /\ crossed' = crossed
        /\ req'[s] = r /\ met'[s] = {}
        /\ \A u \in Slots \ {s} : req'[u] = req[u] /\ met'[u] = met[u]
      BY <2>1, BeginFacts
  <2>3. MayPost(account, r)
      BY <2>1 DEF MayPost, Sees, Refers, Target
  <2>4. MayFlip(account, r)
      BY <2>1 DEF MayFlip, Sees, Refers
  <2> SUFFICES ASSUME {"hold", "post"} \cap crossed = {}
               PROVE  /\ Holds(account)
                      /\ \A u \in Slots :
                            /\ "hold" \notin met'[u] => MayPost(account, req'[u])
                            /\ "post" \notin met'[u] => MayFlip(account, req'[u])
      BY <2>2 DEF HoldInv, Holds, MayPost, MayFlip, Target
  <2> QED BY <2>2, <2>3, <2>4 DEF HoldInv
<1>4. ASSUME NEW s \in Slots, Adds(s) PROVE HoldInv'
  <2>1. PICK base, rows, kinds : AddsRows(s, base, rows, kinds)
      BY <1>4 DEF Adds
  <2>2. /\ Commit(s, rows, kinds) /\ Grown(base) /\ Alike(rows, base)
        /\ \A i \in DOMAIN rows :
              "checked" \in rows[i].posted /\ "checked" \notin base[i].posted =>
                 "post" \in kinds /\ req[s].op \in {"post", "import"} /\ i = Target(req[s])
      BY <2>1 DEF AddsRows
  <2>3. /\ account' = rows
        /\ req'[s] = Idle /\ \A u \in Slots \ {s} : req'[u] = req[u]
        /\ \A u \in Slots \ {s} : req[u] # Idle => met'[u] = met[u] \cup kinds
        /\ \A k \in crossed : k \in crossed'
        /\ \A k \in kinds : k \notin crossed' => Upsets(k) \cap met[s] = {}
      BY <2>2, CommitFacts
  <2>4. /\ DOMAIN account \in SUBSET (DOMAIN rows) /\ DOMAIN rows = DOMAIN base
        /\ \A i \in DOMAIN account : base[i] = account[i]
        /\ \A i \in DOMAIN rows : rows[i].hold = base[i].hold
        /\ \A i \in DOMAIN rows \ DOMAIN account : base[i].posted = {}
    <3>1. DOMAIN account \in SUBSET (DOMAIN rows)
        BY <1>0, <2>1, AddedRows
    <3> QED BY <2>2, <3>1 DEF Grown, Alike
  <2>5. req[s].op \in {"post", "import"} => Target(req[s]) \in DOMAIN account
      BY DEF Typed, Refers, Target
  <2>6. NewHoldNone(rows) /\ NewRowsEmpty(rows)
      BY <2>2, <2>4, <2>5 DEF NewHoldNone, NewRowsEmpty
  <2>7. "post" \notin kinds => NewPostNone(rows)
      BY <2>2, <2>4 DEF NewPostNone
  <2>8. ASSUME {"hold", "post"} \cap crossed' = {} PROVE Holds(rows)
    <3> SUFFICES ASSUME NEW i \in DOMAIN rows, rows[i].hold, "checked" \in rows[i].posted
                 PROVE  FALSE
        BY DEF Holds
    <3>1. i \in DOMAIN account /\ account[i].hold
        BY <2>4, <2>6 DEF NewHoldNone, NewRowsEmpty
    <3>2. Holds(account)
        BY <2>3, <2>8 DEF HoldInv
    <3>3. "checked" \notin base[i].posted
        BY <2>4, <3>1, <3>2 DEF Holds
    <3>4. "post" \in kinds /\ req[s].op \in {"post", "import"} /\ i = Target(req[s])
        BY <2>2, <3>3
    <3>5. "hold" \notin met[s]
        BY <2>3, <2>8, <3>4, UpsetsAre
    <3>6. MayPost(account, req[s])
        BY <2>3, <2>8, <3>5 DEF HoldInv
    <3> QED BY <3>1, <3>4, <3>6 DEF MayPost
  <2>9. ASSUME NEW u \in Slots
        PROVE  \/ req'[u] = Idle
               \/ /\ req'[u] = req[u] /\ \A k \in met[u] : k \in met'[u]
                  /\ NewHoldNone(rows) \/ "hold" \in met'[u]
                  /\ NewPostNone(rows) \/ "post" \in met'[u]
      BY <2>3, <2>6, <2>7
  <2> QED BY <2>3, <2>6, <2>8, <2>9, HoldInvKept
<1>5. ASSUME NEW s \in Slots, CommitUpdate(s) PROVE HoldInv'
  <2>1. PICK r : r = req[s]
      OBVIOUS
  <2>2. PICK rows \in Seq(Account), kinds \in SUBSET {"move", "hold"} :
           /\ Commit(s, rows, kinds)
           /\ r.op = "patch" /\ r.id \in DOMAIN account
           /\ DOMAIN rows = DOMAIN account
           /\ \A i \in DOMAIN account \ {r.id} : rows[i] = account[i]
           /\ rows[r.id].hold = IF "hold" \in r.fields THEN r.to.hold
                                                       ELSE account[r.id].hold
           /\ rows[r.id].posted = account[r.id].posted
           /\ "hold" \in kinds <=> "hold" \in r.fields /\ r.to.hold
      BY <1>5, <2>1, UpdatedRows
  <2>3. /\ account' = rows
        /\ req'[s] = Idle /\ \A u \in Slots \ {s} : req'[u] = req[u]
        /\ \A u \in Slots \ {s} : req[u] # Idle => met'[u] = met[u] \cup kinds
        /\ \A k \in crossed : k \in crossed'
        /\ \A k \in kinds : k \notin crossed' => Upsets(k) \cap met[s] = {}
      BY <2>2, CommitFacts
  <2>4. NewPostNone(rows) /\ NewRowsEmpty(rows)
      BY <2>2 DEF NewPostNone, NewRowsEmpty
  <2>5. "hold" \notin kinds => NewHoldNone(rows)
      BY <2>2 DEF NewHoldNone
  <2>6. ASSUME {"hold", "post"} \cap crossed' = {} PROVE Holds(rows)
    <3>1. Holds(account)
        BY <2>3, <2>6 DEF HoldInv
    <3>2. CASE "hold" \notin kinds
        BY <2>2, <2>4, <2>5, <3>1, <3>2 DEF Holds, NewHoldNone, NewPostNone
    <3>3. CASE "hold" \in kinds
      <4>1. "post" \notin met[s]
          BY <2>3, <2>6, <3>3, UpsetsAre
      <4>2. MayFlip(account, r)
          BY <2>1, <2>3, <2>6, <4>1 DEF HoldInv
      <4>3. "checked" \notin account[r.id].posted
          BY <2>2, <3>3, <4>2 DEF MayFlip
      <4> QED BY <2>2, <3>1, <4>3 DEF Holds
    <3> QED BY <3>2, <3>3
  <2>7. ASSUME NEW u \in Slots
        PROVE  \/ req'[u] = Idle
               \/ /\ req'[u] = req[u] /\ \A k \in met[u] : k \in met'[u]
                  /\ NewHoldNone(rows) \/ "hold" \in met'[u]
                  /\ NewPostNone(rows) \/ "post" \in met'[u]
      BY <2>3, <2>4, <2>5
  <2> QED BY <2>3, <2>4, <2>6, <2>7, HoldInvKept
<1> QED BY <1>1, <1>2, <1>3, <1>4, <1>5, Forms

LEMMA HoldInvInit == Init => HoldInv
<1> SUFFICES ASSUME Init PROVE HoldInv
    OBVIOUS
<1>1. PICK row : row = Row(None, "other", "Imbalance:Unknown", FALSE, "user")
    OBVIOUS
<1>2. account = <<row>> /\ row.posted = {}
    BY <1>1 DEF Init, Row
<1>3. DOMAIN account = {1} /\ account[1].posted = {}
    BY <1>2
<1>4. \A s \in Slots : MayPost(account, req[s]) /\ MayFlip(account, req[s])
    BY DEF Init, Idle, MayPost, MayFlip
<1> QED BY <1>3, <1>4 DEF HoldInv, Holds

(* A placeholder has no posting by a caller that looks for placeholders,    *)
(* unless a flip and a posting were in flight together.                     *)
THEOREM PlaceholdersHold == Spec => []PlaceholdersTakeNoPostings
<1>1. Init => Typed /\ HoldInv
    BY TypedInit, HoldInvInit
<1>2. Typed /\ HoldInv /\ [Next]_vars => Typed' /\ HoldInv'
    BY TypedStep, HoldInvStep
<1>3. HoldInv => PlaceholdersTakeNoPostings
    BY DEF HoldInv, Holds, PlaceholdersTakeNoPostings
<1> QED BY <1>1, <1>2, <1>3, PTL DEF Spec

-----------------------------------------------------------------------------
(* Rows that walkers and imports make.                                      *)

FreshIn(rows, r) ==
    /\ r.op = "nameWalk" /\ ~r.twin =>
         \A i \in DOMAIN rows :
            rows[i].parent = r.parent /\ rows[i].name = NamePath[r.depth + 1] =>
               rows[i].by # "name"
    /\ r.op = "codeWalk" =>
         \A i \in DOMAIN rows : rows[i].code = CodePath[r.depth + 1] => rows[i].by # "code"
    /\ r.op = "import" /\ r.category = None =>
         \A i \in DOMAIN rows : rows[i].code = Imbalance => rows[i].by # "code"

LEMMA FreshIs == ASSUME NEW r PROVE Fresh(r) <=> FreshIn(account, r)
BY DEF Fresh, FreshIn, Spot, Coded, CodedIn

WalkInv ==
    "make" \notin crossed =>
        /\ Reuse(account)
        /\ \A s \in Slots : "make" \notin met[s] => FreshIn(account, req[s])

(* Every row was there, and stands where it stood, or a user put it there.  *)
ByUsers(rows) ==
    \A i \in DOMAIN rows :
        \/ rows[i].by = "user"
        \/ /\ i \in DOMAIN account /\ rows[i].by = account[i].by
           /\ rows[i].parent = account[i].parent /\ rows[i].name = account[i].name
           /\ rows[i].code = account[i].code

LEMMA ReuseKept ==
    ASSUME NEW rows, ByUsers(rows), Reuse(account)
    PROVE  Reuse(rows)
<1> SUFFICES ASSUME NEW i \in DOMAIN rows, NEW k \in DOMAIN rows, i # k,
                    rows[i].by = rows[k].by, rows[i].by # "user"
             PROVE  /\ rows[i].by = "name" =>
                         <<rows[i].parent, rows[i].name>> # <<rows[k].parent, rows[k].name>>
                    /\ rows[i].by = "code" => rows[i].code # rows[k].code
    BY DEF Reuse
<1> QED BY DEF Reuse, ByUsers

LEMMA FreshKept ==
    ASSUME NEW rows, ByUsers(rows), NEW r, FreshIn(account, r)
    PROVE  FreshIn(rows, r)
BY DEF FreshIn, ByUsers

(* A step of users' rows only, or one that every request in flight meets.   *)
LEMMA WalkInvKept ==
    ASSUME Typed, WalkInv, NEW rows, account' = rows,
           \A k \in crossed : k \in crossed',
           \A u \in Slots :
              \/ req'[u] = Idle
              \/ /\ req'[u] = req[u] /\ \A k \in met[u] : k \in met'[u]
                 /\ ByUsers(rows) \/ "make" \in met'[u],
           "make" \notin crossed' => Reuse(rows)
    PROVE  WalkInv'
<1> SUFFICES ASSUME "make" \notin crossed'
             PROVE  /\ Reuse(rows)
                    /\ \A u \in Slots : "make" \notin met'[u] => FreshIn(rows, req'[u])
    BY DEF WalkInv, Reuse, FreshIn
<1>1. ASSUME NEW u \in Slots, "make" \notin met'[u] PROVE FreshIn(rows, req'[u])
  <2>1. CASE req'[u] = Idle
      BY <2>1 DEF Idle, FreshIn
  <2>2. CASE /\ req'[u] = req[u] /\ \A k \in met[u] : k \in met'[u]
             /\ ByUsers(rows) \/ "make" \in met'[u]
    <3>1. PICK r : r = req[u]
        OBVIOUS
    <3>2. FreshIn(account, r) /\ ByUsers(rows)
        BY <1>1, <2>2, <3>1 DEF WalkInv
    <3> QED BY <2>2, <3>1, <3>2, FreshKept
  <2> QED BY <1>1, <2>1, <2>2
<1> QED BY <1>1

LEMMA WalkInvStep ==
    ASSUME Typed, WalkInv, [Next]_vars
    PROVE  WalkInv'
<1>0. Chart
    BY ChartOfTypes DEF Typed
<1>1. CASE UNCHANGED vars
    BY <1>1 DEF vars, WalkInv, Reuse, FreshIn
<1>2. CASE Tidies
  <2>1. PICK i \in DOMAIN account, row \in Account :
              /\ account' = [account EXCEPT ![i] = row]
              /\ DOMAIN account' = DOMAIN account
              /\ account'[i] = row /\ \A k \in DOMAIN account \ {i} : account'[k] = account[k]
              /\ req' = req /\ met' = met /\ crossed' = crossed
              /\ row.parent = account[i].parent
              /\ \/ row.by = "user"
                 \/ row.by = account[i].by /\ row.name = account[i].name
                    /\ row.code = account[i].code
      BY <1>2, TidyFacts
  <2>2. PICK rows : rows = account'
      OBVIOUS
  <2>3. ByUsers(rows)
      BY <2>1, <2>2 DEF ByUsers
  <2>4. "make" \notin crossed' => Reuse(rows)
      BY <2>1, <2>3, ReuseKept DEF WalkInv
  <2> QED BY <2>1, <2>2, <2>3, <2>4, WalkInvKept
<1>3. ASSUME NEW s \in Slots, Starts(s) PROVE WalkInv'
  <2>1. PICK r \in Request : Refers(r) /\ Sees(r) /\ Begin(s, r)
      BY <1>3 DEF Starts
  <2>2. /\ account' = account /\ crossed' = crossed
        /\ req'[s] = r /\ met'[s] = {}
        /\ \A u \in Slots \ {s} : req'[u] = req[u] /\ met'[u] = met[u]
      BY <2>1, BeginFacts
  <2>3. FreshIn(account, r)
      BY <2>1, FreshIs DEF Sees
  <2> SUFFICES ASSUME "make" \notin crossed
               PROVE  /\ Reuse(account)
                      /\ \A u \in Slots : "make" \notin met'[u] => FreshIn(account, req'[u])
      BY <2>2 DEF WalkInv, Reuse, FreshIn
  <2> QED BY <2>2, <2>3 DEF WalkInv
<1>4. ASSUME NEW s \in Slots, Adds(s) PROVE WalkInv'
  <2>1. PICK base, rows, kinds : AddsRows(s, base, rows, kinds)
      BY <1>4 DEF Adds
  <2>2. /\ Commit(s, rows, kinds) /\ Grown(base) /\ Alike(rows, base)
        /\ Reuse(account) /\ Fresh(req[s]) => Reuse(base)
        /\ "make" \notin kinds => (Reuse(account) => Reuse(base))
        /\ "make" \notin kinds => \A i \in DOMAIN base \ DOMAIN account : base[i].by = "user"
      BY <2>1 DEF AddsRows
  <2>3. /\ account' = rows
        /\ req'[s] = Idle /\ \A u \in Slots \ {s} : req'[u] = req[u]
        /\ \A u \in Slots \ {s} : req[u] # Idle => met'[u] = met[u] \cup kinds
        /\ \A k \in crossed : k \in crossed'
        /\ \A k \in kinds : k \notin crossed' => Upsets(k) \cap met[s] = {}
      BY <2>2, CommitFacts
  <2>4. "make" \notin kinds => ByUsers(rows)
      BY <2>2 DEF ByUsers, Alike, Grown
  <2>5. ASSUME "make" \notin crossed' PROVE Reuse(rows)
    <3>1. Reuse(account)
        BY <2>3, <2>5 DEF WalkInv
    <3>2. Reuse(base)
      <4>1. CASE "make" \notin kinds
          BY <2>2, <3>1, <4>1
      <4>2. CASE "make" \in kinds
        <5>1. "make" \notin met[s] /\ "make" \notin crossed
            BY <2>3, <2>5, <4>2, UpsetsAre
        <5>2. FreshIn(account, req[s])
            BY <5>1 DEF WalkInv
        <5>3. Fresh(req[s])
          <6>1. PICK r : r = req[s]
              OBVIOUS
          <6>2. Fresh(r)
              BY <5>2, <6>1, FreshIs
          <6> QED BY <6>1, <6>2
        <5> QED BY <2>2, <3>1, <5>3
      <4> QED BY <4>1, <4>2
    <3> QED BY <2>2, <3>2 DEF Reuse, Alike
  <2>6. ASSUME NEW u \in Slots
        PROVE  \/ req'[u] = Idle
               \/ /\ req'[u] = req[u] /\ \A k \in met[u] : k \in met'[u]
                  /\ ByUsers(rows) \/ "make" \in met'[u]
      BY <2>3, <2>4
  <2> QED BY <2>3, <2>5, <2>6, WalkInvKept
<1>5. ASSUME NEW s \in Slots, CommitUpdate(s) PROVE WalkInv'
  <2>1. PICK r : r = req[s]
      OBVIOUS
  <2>2. PICK rows \in Seq(Account), kinds \in SUBSET {"move", "hold"} :
           /\ Commit(s, rows, kinds)
           /\ r.id \in DOMAIN account
           /\ DOMAIN rows = DOMAIN account
           /\ \A i \in DOMAIN account \ {r.id} : rows[i] = account[i]
           /\ \/ rows[r.id].by = "user"
              \/ rows[r.id].by = account[r.id].by
                 /\ rows[r.id].parent = account[r.id].parent
                 /\ rows[r.id].name = account[r.id].name
                 /\ rows[r.id].code = account[r.id].code
      BY <1>5, <2>1, UpdatedRows
  <2>3. /\ account' = rows
        /\ req'[s] = Idle /\ \A u \in Slots \ {s} : req'[u] = req[u]
        /\ \A u \in Slots \ {s} : req[u] # Idle => met'[u] = met[u] \cup kinds
        /\ \A k \in crossed : k \in crossed'
      BY <2>2, CommitFacts
  <2>4. ByUsers(rows)
      BY <2>2 DEF ByUsers
  <2>5. "make" \notin crossed' => Reuse(rows)
      BY <2>3, <2>4, ReuseKept DEF WalkInv
  <2>6. ASSUME NEW u \in Slots
        PROVE  \/ req'[u] = Idle
               \/ /\ req'[u] = req[u] /\ \A k \in met[u] : k \in met'[u]
                  /\ ByUsers(rows) \/ "make" \in met'[u]
      BY <2>3, <2>4
  <2> QED BY <2>3, <2>5, <2>6, WalkInvKept
<1> QED BY <1>1, <1>2, <1>3, <1>4, <1>5, Forms

LEMMA WalkInvInit == Init => WalkInv
<1> SUFFICES ASSUME Init PROVE WalkInv
    OBVIOUS
<1>1. DOMAIN account = {1}
    BY DEF Init
<1>2. \A s \in Slots : FreshIn(account, req[s])
    BY DEF Init, Idle, FreshIn
<1> QED BY <1>1, <1>2 DEF WalkInv, Reuse

(* Of the rows that walkers and imports made because there was none, no two *)
(* stand in one place or bear one code, unless two of them looked at the    *)
(* same time: for paths of any length, with names and codes that repeat.    *)
THEOREM WalksReuse == Spec => []WalksReuseRows
<1>1. Init => Typed /\ WalkInv
    BY TypedInit, WalkInvInit
<1>2. Typed /\ WalkInv /\ [Next]_vars => Typed' /\ WalkInv'
    BY TypedStep, WalkInvStep
<1>3. WalkInv => WalksReuseRows
    BY DEF WalkInv, Reuse, WalksReuseRows
<1> QED BY <1>1, <1>2, <1>3, PTL DEF Spec
=============================================================================
