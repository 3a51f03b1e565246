------------------------ MODULE PrivateContextProofs ------------------------
(***************************************************************************)
(* Theorems about a Private Context run and the source collection in it,   *)
(* for every set of repositories and files, every listing, every ceiling   *)
(* and any number of rechecks.                                             *)
(*                                                                         *)
(* They rest on what the operators of the model compute for every input:   *)
(* a total is a sum (TotalAppend), a sorted set is a strictly rising       *)
(* sequence of all its elements (Ranking), and the order in which files    *)
(* are offered lets the repositories take turns (TurnsAreFair).            *)
(***************************************************************************)
EXTENDS PrivateContext, FiniteSetTheorems, FunctionTheorems, SequenceTheorems, TLAPS

-----------------------------------------------------------------------------
(* Natural numbers *)

LEMMA LeastNatural ==
  ASSUME NEW S \in SUBSET Nat, S # {}
  PROVE  \E m \in S : \A n \in S : m <= n
  <1> DEFINE R == OpToRel(<, Nat)
  <1>1. IsWellFoundedOn(R, Nat)  BY NatLessThanWellFounded
  <1>2. \A x, y \in Nat : x < y => <<x, y>> \in R  BY DEF OpToRel
  <1> HIDE DEF R
  <1>3. PICK m \in S : \A n \in S : <<n, m>> \notin R  BY <1>1, WFMin
  <1>4. ASSUME NEW n \in S PROVE m <= n
    <2>1. n \in Nat /\ m \in Nat /\ <<n, m>> \notin R  BY <1>3
    <2>2. ~(n < m)  BY <1>2, <2>1
    <2> QED BY <2>1, <2>2
  <1> QED BY <1>4

\* Induction, for a set of numbers.
LEMMA SetInduction ==
  ASSUME NEW S, 0 \in S, \A n \in Nat : n \in S => n + 1 \in S
  PROVE  Nat \subseteq S
  <1> SUFFICES ASSUME Nat \ S # {} PROVE FALSE  OBVIOUS
  <1>1. PICK m \in Nat \ S : \A n \in Nat \ S : m <= n  BY LeastNatural
  <1>2. m - 1 \in Nat /\ m - 1 \notin S  BY <1>1
  <1> QED BY <1>1, <1>2

-----------------------------------------------------------------------------
(* Totals *)

\* g adds the elements of f at the places of a set, the last one first.
Adds(g, f, n) ==
    g = [s \in SUBSET (1 .. n) |->
            IF s = {} THEN 0 ELSE g[s \ {Max(s)}] + f[Max(s)]]

LEMMA MaxUpTo ==
  ASSUME NEW n \in Nat, NEW s \in SUBSET (1 .. n + 1), n + 1 \in s
  PROVE  Max(s) = n + 1
  <1>1. \A y \in s : n + 1 >= y  OBVIOUS
  <1>2. Max(s) \in s /\ \A y \in s : Max(s) >= y  BY <1>1, Zenon DEF Max
  <1>3. Max(s) >= n + 1 /\ Max(s) \in 1 .. n + 1  BY <1>2
  <1> QED BY <1>3

\* The same set has a largest element.
LEMMA MaxExists ==
  ASSUME NEW n \in Nat, NEW s \in SUBSET (1 .. n), s # {}
  PROVE  Max(s) \in s
  <1> DEFINE U == {u \in Nat : \A y \in s : y <= u}
  <1>1. n \in U  OBVIOUS
  <1>2. PICK m \in U : \A u \in U : m <= u  BY <1>1, LeastNatural
  <1>3. m \in s
    <2> SUFFICES ASSUME m \notin s PROVE FALSE  OBVIOUS
    <2>1. PICK y \in s : TRUE  OBVIOUS
    <2>2. \A z \in s : z <= m - 1  BY <1>2
    <2>3. m - 1 \in Nat  BY <2>1, <2>2
    <2>4. m - 1 \in U  BY <2>2, <2>3
    <2> QED BY <2>4, <1>2
  <1>4. \A y \in s : m >= y  BY <1>2
  <1> HIDE DEF U
  <1> QED BY <1>3, <1>4, Zenon DEF Max

LEMMA AddsExists ==
  ASSUME NEW f, NEW n \in Nat
  PROVE  \E g : Adds(g, f, n)
  <1> DEFINE K == {k \in Nat : \E g : Adds(g, f, k)}
  <1>1. 0 \in K
    <2> DEFINE g == [s \in SUBSET (1 .. 0) |-> 0]
    <2>1. \A s \in SUBSET (1 .. 0) : s = {}  OBVIOUS
    <2>2. g = [s \in SUBSET (1 .. 0) |->
                 IF s = {} THEN 0 ELSE g[s \ {Max(s)}] + f[Max(s)]]  BY <2>1
    <2> HIDE DEF g
    <2> QED BY <2>2 DEF Adds
  <1>2. ASSUME NEW k \in Nat, k \in K PROVE k + 1 \in K
    <2>1. PICK g : Adds(g, f, k)  BY <1>2
    <2> DEFINE h == [s \in SUBSET (1 .. k + 1) |->
                       IF k + 1 \in s THEN g[s \ {k + 1}] + f[k + 1] ELSE g[s]]
    <2>2. ASSUME NEW s \in SUBSET (1 .. k + 1)
          PROVE  h[s] = IF s = {} THEN 0 ELSE h[s \ {Max(s)}] + f[Max(s)]
      <3>1. CASE k + 1 \in s
        <4>1. Max(s) = k + 1  BY <3>1, MaxUpTo
        <4>2. s \ {k + 1} \in SUBSET (1 .. k + 1) /\ k + 1 \notin s \ {k + 1}  OBVIOUS
        <4>3. h[s \ {k + 1}] = g[s \ {k + 1}]  BY <4>2
        <4>4. h[s] = g[s \ {k + 1}] + f[k + 1]  BY <3>1
        <4>5. s # {}  BY <3>1
        <4> HIDE DEF h
        <4> QED BY <4>1, <4>3, <4>4, <4>5
      <3>2. CASE k + 1 \notin s
        <4>1. s \in SUBSET (1 .. k)  BY <3>2
        <4>2. g[s] = IF s = {} THEN 0 ELSE g[s \ {Max(s)}] + f[Max(s)]
          BY <2>1, <4>1 DEF Adds
        <4>3. h[s] = g[s]  BY <3>2
        <4>4. s \ {Max(s)} \in SUBSET (1 .. k + 1) /\ k + 1 \notin s \ {Max(s)}  BY <3>2
        <4>5. h[s \ {Max(s)}] = g[s \ {Max(s)}]  BY <4>4
        <4> HIDE DEF h
        <4> QED BY <4>2, <4>3, <4>5
      <3> QED BY <3>1, <3>2
    <2>3. h = [s \in SUBSET (1 .. k + 1) |->
                 IF s = {} THEN 0 ELSE h[s \ {Max(s)}] + f[Max(s)]]
      <3> HIDE DEF h
      <3>1. h = [s \in SUBSET (1 .. k + 1) |-> h[s]]  BY DEF h
      <3> QED BY <2>2, <3>1, Zenon
    <2> HIDE DEF h
    <2>4. Adds(h, f, k + 1)  BY <2>3 DEF Adds
    <2> QED BY <2>4
  <1> HIDE DEF K
  <1>3. Nat \subseteq K  BY <1>1, <1>2, SetInduction
  <1> QED BY <1>3 DEF K

LEMMA AddsStep ==
  ASSUME NEW f, NEW n \in Nat, NEW g, Adds(g, f, n), NEW k \in Nat, k < n
  PROVE  g[1 .. k + 1] = g[1 .. k] + f[k + 1]
  <1>1. 1 .. k + 1 \in SUBSET (1 .. n) /\ 1 .. k + 1 # {} /\ k + 1 \in 1 .. k + 1  OBVIOUS
  <1>2. Max(1 .. k + 1) = k + 1  BY MaxUpTo
  <1>3. (1 .. k + 1) \ {k + 1} = 1 .. k  OBVIOUS
  <1>4. g[1 .. k + 1] = g[(1 .. k + 1) \ {Max(1 .. k + 1)}] + f[Max(1 .. k + 1)]
    BY <1>1 DEF Adds
  <1> QED BY <1>2, <1>3, <1>4

LEMMA AddsEmpty ==
  ASSUME NEW f, NEW n \in Nat, NEW g, Adds(g, f, n)
  PROVE  g[1 .. 0] = 0
  <1>1. 1 .. 0 \in SUBSET (1 .. n) /\ 1 .. 0 = {}  OBVIOUS
  <1> QED BY <1>1 DEF Adds

\* A total is what any such g gives for all the places.
LEMMA TotalIsAdded ==
  ASSUME NEW s \in Seq(Nat)
  PROVE  \E g : Adds(g, s, Len(s)) /\ TotalOf(s) = g[1 .. Len(s)]
  <1>1. Len(s) \in Nat /\ DOMAIN s = 1 .. Len(s)  BY LenProperties
  <1>2. TotalOf(s) =
          (CHOOSE g : g = [t \in SUBSET (DOMAIN s) |->
             IF t = {} THEN 0 ELSE g[t \ {Max(t)}] + s[Max(t)]])[DOMAIN s]
    BY DEF TotalOf, FoldLeft, MapThenFoldSet
  <1>3. TotalOf(s) = (CHOOSE g : Adds(g, s, Len(s)))[1 .. Len(s)]
    BY <1>1, <1>2 DEF Adds
  <1>4. Adds(CHOOSE g : Adds(g, s, Len(s)), s, Len(s))  BY <1>1, AddsExists
  <1> QED BY <1>3, <1>4

LEMMA AddsInNat ==
  ASSUME NEW s \in Seq(Nat), NEW g, Adds(g, s, Len(s))
  PROVE  \A k \in 0 .. Len(s) : g[1 .. k] \in Nat
  <1> DEFINE K == {k \in Nat : k <= Len(s) => g[1 .. k] \in Nat}
  <1>0. Len(s) \in Nat  BY LenProperties
  <1>1. 0 \in K
    <2>1. g[1 .. 0] = 0  BY <1>0, AddsEmpty
    <2> QED BY <2>1
  <1>2. ASSUME NEW k \in Nat, k \in K PROVE k + 1 \in K
    <2> SUFFICES ASSUME k + 1 <= Len(s) PROVE g[1 .. k + 1] \in Nat  OBVIOUS
    <2>1. g[1 .. k + 1] = g[1 .. k] + s[k + 1]  BY <1>0, AddsStep
    <2>2. g[1 .. k] \in Nat  BY <1>2, <1>0
    <2>3. s[k + 1] \in Nat  BY <1>0, ElementOfSeq
    <2> QED BY <2>1, <2>2, <2>3
  <1> HIDE DEF K
  <1>3. Nat \subseteq K  BY <1>1, <1>2, SetInduction
  <1> QED BY <1>0, <1>3 DEF K

LEMMA TotalInNat ==
  ASSUME NEW s \in Seq(Nat)
  PROVE  TotalOf(s) \in Nat
  <1>1. PICK g : Adds(g, s, Len(s)) /\ TotalOf(s) = g[1 .. Len(s)]  BY TotalIsAdded
  <1>2. Len(s) \in 0 .. Len(s)
    <2>1. Len(s) \in Nat  BY LenProperties
    <2> QED BY <2>1
  <1> QED BY <1>1, <1>2, AddsInNat

LEMMA TotalEmpty == TotalOf(<<>>) = 0
  <1>1. <<>> \in Seq(Nat) /\ Len(<<>>) = 0  BY EmptySeq
  <1>2. PICK g : Adds(g, <<>>, 0) /\ TotalOf(<<>>) = g[1 .. 0]  BY <1>1, TotalIsAdded
  <1> QED BY <1>2, AddsEmpty

LEMMA TotalAppend ==
  ASSUME NEW s \in Seq(Nat), NEW x \in Nat
  PROVE  TotalOf(Append(s, x)) = TotalOf(s) + x
  <1> DEFINE t == Append(s, x)
             n == Len(s)
  <1>1. n \in Nat /\ t \in Seq(Nat) /\ Len(t) = n + 1 /\ t[n + 1] = x
        /\ \A i \in 1 .. n : t[i] = s[i]
    BY LenProperties, AppendProperties
  <1>2. PICK g : Adds(g, s, n) /\ TotalOf(s) = g[1 .. n]  BY TotalIsAdded
  <1>3. PICK h : Adds(h, t, n + 1) /\ TotalOf(t) = h[1 .. n + 1]  BY <1>1, TotalIsAdded
  <1> DEFINE K == {k \in Nat : k <= n => h[1 .. k] = g[1 .. k]}
  <1> HIDE DEF t, n
  <1>4. 0 \in K
    <2>1. g[1 .. 0] = 0 /\ h[1 .. 0] = 0  BY <1>1, <1>2, <1>3, AddsEmpty
    <2> QED BY <2>1
  <1>5. ASSUME NEW k \in Nat, k \in K PROVE k + 1 \in K
    <2> SUFFICES ASSUME k + 1 <= n PROVE h[1 .. k + 1] = g[1 .. k + 1]  OBVIOUS
    <2>1. g[1 .. k + 1] = g[1 .. k] + s[k + 1]  BY <1>1, <1>2, AddsStep
    <2>2. h[1 .. k + 1] = h[1 .. k] + t[k + 1]  BY <1>1, <1>3, AddsStep
    <2>3. h[1 .. k] = g[1 .. k] /\ t[k + 1] = s[k + 1]  BY <1>1, <1>5
    <2> QED BY <2>1, <2>2, <2>3
  <1>6. h[1 .. n] = g[1 .. n]
    <2> HIDE DEF K
    <2>1. Nat \subseteq K  BY <1>4, <1>5, SetInduction
    <2> QED BY <2>1, <1>1 DEF K
  <1>7. h[1 .. n + 1] = h[1 .. n] + t[n + 1]  BY <1>1, <1>3, AddsStep
  <1>8. g[1 .. n] \in Nat  BY <1>2, TotalInNat
  <1>9. TotalOf(t) = TotalOf(s) + x  BY <1>1, <1>2, <1>3, <1>6, <1>7, <1>8
  <1> QED BY <1>9 DEF t
-----------------------------------------------------------------------------
(* Sorted sets *)

StrictOrder(R, S) ==
    /\ \A x \in S : <<x, x>> \notin R
    /\ \A x, y, z \in S : <<x, y>> \in R /\ <<y, z>> \in R => <<x, z>> \in R
    /\ \A x, y \in S : x # y => <<x, y>> \in R \/ <<y, x>> \in R

\* f lists the elements of S, each once, in the order R.
Lists(f, S, R) ==
    /\ Cardinality(S) \in Nat
    /\ f \in [1 .. Cardinality(S) -> S]
    /\ \A x \in S : \E n \in 1 .. Cardinality(S) : f[n] = x
    /\ \A m, n \in 1 .. Cardinality(S) : m < n => <<f[m], f[n]>> \in R

\* The place of an element is one more than the number of those before it.
LEMMA Ranking ==
  ASSUME NEW S, IsFiniteSet(S), NEW R, StrictOrder(R, S), NEW f,
         f = [n \in 1 .. Cardinality(S) |->
                CHOOSE x \in S : 1 + Cardinality({y \in S : <<y, x>> \in R}) = n]
  PROVE  Lists(f, S, R)
  <1> DEFINE N == Cardinality(S)
             below(x) == {y \in S : <<y, x>> \in R}
             place == [x \in S |-> 1 + Cardinality(below(x))]
  <1>1. N \in Nat  BY FS_CardinalityType
  <1>2. \A x \in S : IsFiniteSet(below(x)) /\ Cardinality(below(x)) \in Nat
    <2> SUFFICES ASSUME NEW x \in S
                 PROVE  IsFiniteSet(below(x)) /\ Cardinality(below(x)) \in Nat
      OBVIOUS
    <2>1. below(x) \in SUBSET S  OBVIOUS
    <2> HIDE DEF below
    <2>2. IsFiniteSet(below(x))  BY <2>1, FS_Subset
    <2> QED BY <2>2, FS_CardinalityType
  <1>3. ASSUME NEW x \in S, NEW y \in S, <<x, y>> \in R
        PROVE  Cardinality(below(x)) < Cardinality(below(y))
    <2>1. x \notin below(x) /\ below(x) \cup {x} \in SUBSET below(y)
      BY <1>3, Zenon DEF StrictOrder
    <2> HIDE DEF below
    <2>2. Cardinality(below(x) \cup {x}) = Cardinality(below(x)) + 1
      BY <1>2, <2>1, FS_AddElement
    <2>3. Cardinality(below(x) \cup {x}) <= Cardinality(below(y))
      BY <1>2, <2>1, FS_Subset
    <2> QED BY <1>2, <2>2, <2>3
  <1>4. \A x \in S : Cardinality(below(x)) < N
    <2> SUFFICES ASSUME NEW x \in S PROVE Cardinality(below(x)) < N  OBVIOUS
    <2>1. below(x) \in SUBSET (S \ {x})  BY DEF StrictOrder
    <2>2. IsFiniteSet(S \ {x}) /\ Cardinality(S \ {x}) = N - 1  BY FS_RemoveElement
    <2> HIDE DEF below
    <2>3. Cardinality(below(x)) <= Cardinality(S \ {x})  BY <2>1, <2>2, FS_Subset
    <2> QED BY <1>1, <1>2, <2>2, <2>3
  <1> HIDE DEF N, below
  <1>5. \A x \in S : place[x] = 1 + Cardinality(below(x)) /\ place[x] \in 1 .. N
    BY <1>1, <1>2, <1>4
  <1>6. place \in [S -> 1 .. N]  BY <1>5
  <1> HIDE DEF place
  <1>7. \A x, y \in S : <<x, y>> \in R => place[x] < place[y]  BY <1>2, <1>3, <1>5
  <1>8. \A x, y \in S : place[x] = place[y] => x = y
    <2> SUFFICES ASSUME NEW x \in S, NEW y \in S, place[x] = place[y], x # y PROVE FALSE
      OBVIOUS
    <2>1. place[x] < place[y] \/ place[y] < place[x]  BY <1>7 DEF StrictOrder
    <2>2. place[x] \in Nat /\ place[y] \in Nat  BY <1>5, <1>1
    <2> QED BY <2>1, <2>2
  <1>9. place \in Injection(S, 1 .. N)  BY <1>6, <1>8, Fun_IsInj
  <1>10. IsFiniteSet(1 .. N) /\ Cardinality(1 .. N) = N  BY <1>1, FS_Interval
  <1>11. place \in Surjection(S, 1 .. N)  BY <1>9, <1>10, FS_Injection DEF N
  <1>12. \A n \in 1 .. N : \E x \in S : place[x] = n  BY <1>11, Fun_SurjectionProperties
  <1>13. \A n \in 1 .. N : f[n] \in S /\ place[f[n]] = n
    <2> SUFFICES ASSUME NEW n \in 1 .. N PROVE f[n] \in S /\ place[f[n]] = n
      OBVIOUS
    <2>1. f[n] = CHOOSE x \in S : 1 + Cardinality(below(x)) = n  BY DEF N, below
    <2>2. PICK x \in S : 1 + Cardinality(below(x)) = n  BY <1>12, <1>5
    <2>3. f[n] \in S /\ 1 + Cardinality(below(f[n])) = n  BY <2>1, <2>2
    <2> QED BY <2>3, <1>5
  <1>14. f \in [1 .. N -> S]  BY <1>13 DEF N
  <1>15. \A x \in S : f[place[x]] = x /\ place[x] \in 1 .. N
    <2> SUFFICES ASSUME NEW x \in S PROVE f[place[x]] = x /\ place[x] \in 1 .. N
      OBVIOUS
    <2>1. place[x] \in 1 .. N  BY <1>5
    <2>2. f[place[x]] \in S /\ place[f[place[x]]] = place[x]  BY <1>13, <2>1, Zenon
    <2>3. f[place[x]] = x  BY <1>8, <2>2, Zenon
    <2> QED BY <2>1, <2>3
  <1>16. \A x \in S : \E n \in 1 .. N : f[n] = x  BY <1>15
  <1>17. \A m, n \in 1 .. N : m < n => <<f[m], f[n]>> \in R
    <2> SUFFICES ASSUME NEW m \in 1 .. N, NEW n \in 1 .. N, m < n,
                        <<f[m], f[n]>> \notin R
                 PROVE  FALSE
      OBVIOUS
    <2>1. f[m] \in S /\ f[n] \in S /\ place[f[m]] = m /\ place[f[n]] = n  BY <1>13
    <2>2. f[m] # f[n]  BY <2>1, <1>1
    <2>3. <<f[n], f[m]>> \in R  BY <2>1, <2>2 DEF StrictOrder
    <2>4. n < m  BY <1>7, <2>1, <2>3
    <2> QED BY <2>4, <1>1
  <1> QED BY <1>1, <1>14, <1>16, <1>17 DEF Lists, N

\* A list of S holds each of its elements in one place.
LEMMA ListsOnce ==
  ASSUME NEW S, NEW R, StrictOrder(R, S), NEW f, Lists(f, S, R),
         NEW m \in 1 .. Cardinality(S), NEW n \in 1 .. Cardinality(S), f[m] = f[n]
  PROVE  m = n
  <1>1. f[m] \in S /\ Cardinality(S) \in Nat  BY DEF Lists
  <1>2. <<f[m], f[m]>> \notin R  BY <1>1 DEF StrictOrder
  <1>3. ~(m < n) /\ ~(n < m)  BY <1>2, Zenon DEF Lists
  <1> QED BY <1>1, <1>3

\* And in a place that the order tells.
LEMMA ListsInOrder ==
  ASSUME NEW S, NEW R, StrictOrder(R, S), NEW f, Lists(f, S, R),
         NEW m \in 1 .. Cardinality(S), NEW n \in 1 .. Cardinality(S),
         <<f[m], f[n]>> \in R
  PROVE  m < n
  <1>1. f[m] \in S /\ f[n] \in S /\ Cardinality(S) \in Nat  BY DEF Lists
  <1>2. <<f[m], f[m]>> \notin R /\ <<f[n], f[m]>> \notin R
    BY <1>1, Zenon DEF StrictOrder
  <1>3. m # n  BY <1>2
  <1>4. ~(n < m)  BY <1>2, Zenon DEF Lists
  <1> QED BY <1>1, <1>3, <1>4

\* Numbers.
Less == {p \in Nat \X Nat : p[1] < p[2]}

LEMMA LessOrders == ASSUME NEW S \in SUBSET Nat PROVE StrictOrder(Less, S)
  <1>1. \A x, y \in Nat : <<x, y>> \in Less <=> x < y  BY DEF Less
  <1>2. \A x \in S : <<x, x>> \notin Less  BY <1>1
  <1>3. \A x, y, z \in S : <<x, y>> \in Less /\ <<y, z>> \in Less => <<x, z>> \in Less
    BY <1>1
  <1>4. \A x, y \in S : x # y => <<x, y>> \in Less \/ <<y, x>> \in Less  BY <1>1
  <1> QED BY <1>2, <1>3, <1>4 DEF StrictOrder

LEMMA AscendingLists ==
  ASSUME NEW S \in SUBSET Nat, IsFiniteSet(S)
  PROVE  Lists(Ascending(S), S, Less)
  <1>1. \A x \in S : {y \in S : y < x} = {y \in S : <<y, x>> \in Less}  BY DEF Less
  <1>2. Ascending(S) = [n \in 1 .. Cardinality(S) |->
                          CHOOSE x \in S : 1 + Cardinality({y \in S : y < x}) = n]
    BY DEF Ascending, Sorted
  <1>3. \A n : (CHOOSE x \in S : 1 + Cardinality({y \in S : y < x}) = n)
             = CHOOSE x \in S : 1 + Cardinality({y \in S : <<y, x>> \in Less}) = n
    BY <1>1, Zenon
  <1>4. Ascending(S) = [n \in 1 .. Cardinality(S) |->
                CHOOSE x \in S : 1 + Cardinality({y \in S : <<y, x>> \in Less}) = n]
    BY <1>2, <1>3, Zenon
  <1> QED BY <1>4, LessOrders, Ranking

\* Pairs, read from the left.
Earlier == {p \in (Nat \X Nat) \X (Nat \X Nat) :
               \/ p[1][1] < p[2][1]
               \/ p[1][1] = p[2][1] /\ p[1][2] < p[2][2]}

LEMMA EarlierOrders == ASSUME NEW S \in SUBSET (Nat \X Nat) PROVE StrictOrder(Earlier, S)
  <1>1. \A x, y \in S : x \in Nat \X Nat /\ y \in Nat \X Nat /\
          (<<x, y>> \in Earlier <=> x[1] < y[1] \/ (x[1] = y[1] /\ x[2] < y[2]))
    BY DEF Earlier
  <1>2. \A x \in S : <<x, x>> \notin Earlier  BY <1>1
  <1>3. \A x, y, z \in S :
          <<x, y>> \in Earlier /\ <<y, z>> \in Earlier => <<x, z>> \in Earlier
    BY <1>1
  <1>4. \A x, y \in S : x # y => <<x, y>> \in Earlier \/ <<y, x>> \in Earlier
    <2> SUFFICES ASSUME NEW x \in S, NEW y \in S,
                        <<x, y>> \notin Earlier, <<y, x>> \notin Earlier
                 PROVE  x = y
      OBVIOUS
    <2>1. x[1] = y[1] /\ x[2] = y[2]  BY <1>1
    <2> QED BY <1>1, <2>1
  <1> QED BY <1>2, <1>3, <1>4 DEF StrictOrder

LEMMA LexicalPairs ==
  ASSUME NEW x \in Nat \X Nat, NEW y \in Nat \X Nat
  PROVE  Lexical(x, y) <=> <<x, y>> \in Earlier
  <1>1. DOMAIN x = {1, 2}  OBVIOUS
  <1>2. Lexical(x, y) <=> \/ x[1] < y[1] /\ \A j \in 1 .. 0 : x[j] = y[j]
                          \/ x[2] < y[2] /\ \A j \in 1 .. 1 : x[j] = y[j]
    BY <1>1 DEF Lexical
  <1>3. Lexical(x, y) <=> x[1] < y[1] \/ (x[2] < y[2] /\ x[1] = y[1])  BY <1>2
  <1>4. <<x, y>> \in Earlier <=> x[1] < y[1] \/ (x[1] = y[1] /\ x[2] < y[2])
    BY DEF Earlier
  <1> QED BY <1>3, <1>4

LEMMA SortedPairs ==
  ASSUME NEW S \in SUBSET (Nat \X Nat), IsFiniteSet(S)
  PROVE  Lists(Sorted(S, Lexical), S, Earlier)
  <1>1. \A x \in S : {y \in S : Lexical(y, x)} = {y \in S : <<y, x>> \in Earlier}
    BY LexicalPairs
  <1>2. Sorted(S, Lexical) = [n \in 1 .. Cardinality(S) |->
                          CHOOSE x \in S : 1 + Cardinality({y \in S : Lexical(y, x)}) = n]
    BY DEF Sorted
  <1>3. \A n : (CHOOSE x \in S : 1 + Cardinality({y \in S : Lexical(y, x)}) = n)
             = CHOOSE x \in S : 1 + Cardinality({y \in S : <<y, x>> \in Earlier}) = n
    BY <1>1, Zenon
  <1>4. Sorted(S, Lexical) = [n \in 1 .. Cardinality(S) |->
                CHOOSE x \in S : 1 + Cardinality({y \in S : <<y, x>> \in Earlier}) = n]
    BY <1>2, <1>3, Zenon
  <1> QED BY <1>4, EarlierOrders, Ranking
-----------------------------------------------------------------------------
(* The files of one repository *)

Round(f) == Cardinality({g \in BetterRanked(f) : LaneOf(g) = LaneOf(f)})

KeyOf(f) == <<Round(f)>> \o LaneOf(f)

Ahead(r) == {p \in Kept(r) \X Kept(r) : Lexical(KeyOf(p[1]), KeyOf(p[2]))}

LEMMA BlobTypes ==
  \A f \in Blobs : /\ f.repo \in Repos /\ f.lane \in Nat /\ f.rank \in Nat
                   /\ f.test \in BOOLEAN /\ f.bytes \in Nat
  BY QualityAssumption

LEMMA RoundInNat ==
  ASSUME NEW f \in Blobs
  PROVE  /\ IsFiniteSet({g \in BetterRanked(f) : LaneOf(g) = LaneOf(f)})
         /\ Round(f) \in Nat
  <1> DEFINE B == {g \in BetterRanked(f) : LaneOf(g) = LaneOf(f)}
  <1>1. B \in SUBSET Blobs  BY DEF BetterRanked
  <1>2. Round(f) = Cardinality(B)  BY DEF Round
  <1> HIDE DEF B
  <1>3. IsFiniteSet(B)  BY <1>1, FS_Subset, QualityAssumption
  <1>4. Cardinality(B) \in Nat  BY <1>3, FS_CardinalityType
  <1> QED BY <1>2, <1>3, <1>4 DEF B

\* A file of the same lane with a better rank has an earlier round.
LEMMA RoundsDiffer ==
  ASSUME NEW f \in Blobs, NEW g \in Blobs, f.repo = g.repo, LaneOf(f) = LaneOf(g),
         f.rank < g.rank
  PROVE  Round(f) < Round(g)
  <1> DEFINE B(h) == {x \in BetterRanked(h) : LaneOf(x) = LaneOf(h)}
  <1>1. f.test = g.test  BY BlobTypes DEF LaneOf
  <1>2. f \notin B(f)  BY BlobTypes DEF BetterRanked
  <1>3. B(f) \cup {f} \in SUBSET B(g)
    <2>1. f \in B(g)  BY <1>1 DEF BetterRanked
    <2>2. ASSUME NEW x \in B(f) PROVE x \in B(g)
      <3>1. x \in Blobs /\ x.repo = g.repo /\ x.test = g.test /\ LaneOf(x) = LaneOf(g)
        BY <1>1 DEF BetterRanked
      <3>2. x.rank < f.rank  BY DEF BetterRanked
      <3>3. x.rank < g.rank  BY <3>1, <3>2, BlobTypes
      <3> QED BY <3>1, <3>3 DEF BetterRanked
    <2> HIDE DEF B
    <2> QED BY <2>1, <2>2
  <1>4. IsFiniteSet(B(f)) /\ IsFiniteSet(B(g))  BY RoundInNat
  <1>5. Round(f) = Cardinality(B(f)) /\ Round(g) = Cardinality(B(g))  BY DEF Round
  <1> HIDE DEF B
  <1>6. Cardinality(B(f) \cup {f}) = Cardinality(B(f)) + 1  BY <1>2, <1>4, FS_AddElement
  <1>7. Cardinality(B(f) \cup {f}) <= Cardinality(B(g))  BY <1>3, <1>4, FS_Subset
  <1>8. Round(f) \in Nat /\ Round(g) \in Nat  BY RoundInNat
  <1> QED BY <1>5, <1>6, <1>7, <1>8

LEMMA PrefixedPair ==
  ASSUME NEW x \in Nat, NEW y \in Nat, NEW z \in Nat
  PROVE  <<x>> \o <<y, z>> = <<x, y, z>>
  <1>1. <<x>> \in Seq(Nat) /\ <<y, z>> \in Seq(Nat) /\ <<x, y, z>> \in Seq(Nat)  OBVIOUS
  <1>2. Len(<<x>>) = 1 /\ Len(<<y, z>>) = 2 /\ Len(<<x, y, z>>) = 3  OBVIOUS
  <1> DEFINE s == <<x>> \o <<y, z>>
  <1>3. /\ s \in Seq(Nat) /\ Len(s) = 3
        /\ \A i \in 1 .. 3 : s[i] = IF i <= 1 THEN <<x>>[i] ELSE <<y, z>>[i - 1]
    BY <1>1, <1>2, ConcatProperties
  <1> HIDE DEF s
  <1>4. \A i \in 1 .. 3 : s[i] = <<x, y, z>>[i]
    <2>1. s[1] = x /\ s[2] = y /\ s[3] = z  BY <1>3
    <2> QED BY <2>1
  <1>5. s = <<x, y, z>>  BY <1>1, <1>2, <1>3, <1>4, SeqEqual
  <1> QED BY <1>5 DEF s

LEMMA KeyParts ==
  ASSUME NEW f \in Blobs
  PROVE  /\ KeyOf(f) = <<Round(f), IF f.test THEN 1 ELSE 0, f.lane>>
         /\ KeyOf(f) \in Nat \X Nat \X Nat
  <1>1. Round(f) \in Nat /\ f.lane \in Nat  BY RoundInNat, BlobTypes
  <1>2. (IF f.test THEN 1 ELSE 0) \in Nat  OBVIOUS
  <1>3. KeyOf(f) = <<Round(f), IF f.test THEN 1 ELSE 0, f.lane>>
    BY <1>1, <1>2, PrefixedPair DEF KeyOf, LaneOf
  <1> QED BY <1>1, <1>2, <1>3

LEMMA KeysDiffer ==
  ASSUME NEW f \in Blobs, NEW g \in Blobs, f.repo = g.repo, KeyOf(f) = KeyOf(g)
  PROVE  f = g
  <1>1. Round(f) = Round(g) /\ LaneOf(f) = LaneOf(g)  BY KeyParts DEF LaneOf
  <1>2. f.test = g.test  BY <1>1, BlobTypes DEF LaneOf
  <1>3. ~(f.rank < g.rank) /\ ~(g.rank < f.rank)
    <2>1. Round(f) \in Nat /\ Round(g) \in Nat  BY RoundInNat
    <2>2. f.rank < g.rank => Round(f) < Round(g)  BY <1>1, RoundsDiffer
    <2>3. g.rank < f.rank => Round(g) < Round(f)  BY <1>1, RoundsDiffer
    <2> QED BY <1>1, <2>1, <2>2, <2>3
  <1>4. f.rank = g.rank  BY <1>3, BlobTypes
  <1> QED BY <1>2, <1>4, QualityAssumption

LEMMA LexicalTriples ==
  ASSUME NEW x \in Nat \X Nat \X Nat, NEW y \in Nat \X Nat \X Nat
  PROVE  Lexical(x, y) <=> \/ x[1] < y[1]
                           \/ x[1] = y[1] /\ x[2] < y[2]
                           \/ x[1] = y[1] /\ x[2] = y[2] /\ x[3] < y[3]
  <1>1. DOMAIN x = {1, 2, 3}  OBVIOUS
  <1>2. Lexical(x, y) <=> \/ x[1] < y[1] /\ \A j \in 1 .. 0 : x[j] = y[j]
                          \/ x[2] < y[2] /\ \A j \in 1 .. 1 : x[j] = y[j]
                          \/ x[3] < y[3] /\ \A j \in 1 .. 2 : x[j] = y[j]
    BY <1>1 DEF Lexical
  <1>3. (\A j \in 1 .. 2 : x[j] = y[j]) <=> x[1] = y[1] /\ x[2] = y[2]  OBVIOUS
  <1> QED BY <1>2, <1>3

LEMMA AheadOrders == ASSUME NEW r \in Repos PROVE StrictOrder(Ahead(r), Kept(r))
  <1>1. \A x \in Kept(r) : x \in Blobs /\ x.repo = r  BY DEF Kept
  <1>2. \A x, y \in Kept(r) : <<x, y>> \in Ahead(r) <=> Lexical(KeyOf(x), KeyOf(y))
    BY DEF Ahead
  <1>3. \A x \in Kept(r) : KeyOf(x) \in Nat \X Nat \X Nat  BY <1>1, KeyParts
  <1>4. \A x \in Kept(r) : <<x, x>> \notin Ahead(r)  BY <1>2, <1>3, LexicalTriples
  <1>5. \A x, y, z \in Kept(r) :
          <<x, y>> \in Ahead(r) /\ <<y, z>> \in Ahead(r) => <<x, z>> \in Ahead(r)
    <2> SUFFICES ASSUME NEW x \in Kept(r), NEW y \in Kept(r), NEW z \in Kept(r),
                        Lexical(KeyOf(x), KeyOf(y)), Lexical(KeyOf(y), KeyOf(z))
                 PROVE  Lexical(KeyOf(x), KeyOf(z))
      BY <1>2
    <2> QED BY <1>3, LexicalTriples
  <1>6. \A x, y \in Kept(r) : x # y => <<x, y>> \in Ahead(r) \/ <<y, x>> \in Ahead(r)
    <2> SUFFICES ASSUME NEW x \in Kept(r), NEW y \in Kept(r),
                        ~Lexical(KeyOf(x), KeyOf(y)), ~Lexical(KeyOf(y), KeyOf(x))
                 PROVE  x = y
      BY <1>2
    <2>1. KeyOf(x)[1] = KeyOf(y)[1] /\ KeyOf(x)[2] = KeyOf(y)[2]
          /\ KeyOf(x)[3] = KeyOf(y)[3]
      BY <1>3, LexicalTriples
    <2>2. KeyOf(x) = KeyOf(y)  BY <1>3, <2>1
    <2> QED BY <1>1, <2>2, KeysDiffer
  <1> QED BY <1>4, <1>5, <1>6 DEF StrictOrder

LEMMA KeptFinite ==
  ASSUME NEW r \in Repos
  PROVE  IsFiniteSet(Kept(r)) /\ Cardinality(Kept(r)) <= Cardinality(Blobs)
  <1>1. Kept(r) \in SUBSET Blobs  BY DEF Kept
  <1> QED BY <1>1, FS_Subset, QualityAssumption

LEMMA StratifiedLists ==
  ASSUME NEW r \in Repos
  PROVE  Lists(Stratified[r], Kept(r), Ahead(r))
  <1> DEFINE S == Kept(r)
  <1>1. \A x \in S : {y \in S : Lexical(KeyOf(y), KeyOf(x))} = {y \in S : <<y, x>> \in Ahead(r)}
    BY DEF Ahead
  <1>2. Stratified[r] = [n \in 1 .. Cardinality(S) |->
              CHOOSE x \in S : 1 + Cardinality({y \in S : Lexical(KeyOf(y), KeyOf(x))}) = n]
    BY DEF Stratified, Sorted, KeyOf, Round
  <1> HIDE DEF S
  <1>3. \A n : (CHOOSE x \in S : 1 + Cardinality({y \in S : Lexical(KeyOf(y), KeyOf(x))}) = n)
             = CHOOSE x \in S : 1 + Cardinality({y \in S : <<y, x>> \in Ahead(r)}) = n
    BY <1>1, Zenon
  <1>4. Stratified[r] = [n \in 1 .. Cardinality(S) |->
                CHOOSE x \in S : 1 + Cardinality({y \in S : <<y, x>> \in Ahead(r)}) = n]
    BY <1>2, <1>3, Zenon
  <1>5. StrictOrder(Ahead(r), S) /\ IsFiniteSet(S)  BY AheadOrders, KeptFinite DEF S
  <1>6. Lists(Stratified[r], S, Ahead(r))  BY <1>4, <1>5, Ranking
  <1> QED BY <1>6 DEF S

LEMMA FunctionIsSeq ==
  ASSUME NEW S, NEW n \in Nat, NEW f \in [1 .. n -> S]
  PROVE  f \in Seq(S) /\ Len(f) = n /\ DOMAIN f = 1 .. n
  <1>1. f \in Seq(S)  BY SeqDef
  <1>2. DOMAIN f = 1 .. n  OBVIOUS
  <1>3. Len(f) \in Nat /\ DOMAIN f = 1 .. Len(f)  BY <1>1, LenProperties
  <1> QED BY <1>1, <1>2, <1>3

LEMMA StratifiedIsSeq ==
  ASSUME NEW r \in Repos
  PROVE  /\ Len(Stratified[r]) = Cardinality(Kept(r))
         /\ Len(Stratified[r]) \in Nat /\ Len(Stratified[r]) <= Cardinality(Blobs)
         /\ \A k \in 1 .. Len(Stratified[r]) :
              Stratified[r][k] \in Blobs /\ Stratified[r][k].repo = r
  <1>1. Cardinality(Kept(r)) \in Nat
        /\ Stratified[r] \in [1 .. Cardinality(Kept(r)) -> Kept(r)]
    BY StratifiedLists DEF Lists
  <1>2. Len(Stratified[r]) = Cardinality(Kept(r))  BY <1>1, FunctionIsSeq
  <1>3. \A k \in 1 .. Len(Stratified[r]) : Stratified[r][k] \in Kept(r)  BY <1>1, <1>2
  <1>4. \A x \in Kept(r) : x \in Blobs /\ x.repo = r  BY DEF Kept
  <1>5. \A k \in 1 .. Len(Stratified[r]) :
          Stratified[r][k] \in Blobs /\ Stratified[r][k].repo = r
    BY <1>3, <1>4, Zenon
  <1> QED BY <1>1, <1>2, <1>5, KeptFinite
-----------------------------------------------------------------------------
(* The repositories take turns *)

TurnsOf(rs) == {t \in (1 .. Cardinality(Blobs)) \X DOMAIN rs :
                   t[1] <= Len(Stratified[rs[t[2]]])}

TurnOrder(rs) == Sorted(TurnsOf(rs), Lexical)

Injective(rs) == \A i, j \in DOMAIN rs : i # j => rs[i] # rs[j]

LEMMA TurnsFinite ==
  ASSUME NEW rs \in Seq(Repos)
  PROVE  /\ TurnsOf(rs) \in SUBSET (Nat \X Nat)
         /\ IsFiniteSet(TurnsOf(rs)) /\ Cardinality(TurnsOf(rs)) \in Nat
  <1> DEFINE A == 1 .. Cardinality(Blobs)
             B == DOMAIN rs
  <1>1. Cardinality(Blobs) \in Nat  BY FS_CardinalityType, QualityAssumption
  <1>2. Len(rs) \in Nat /\ B = 1 .. Len(rs)  BY LenProperties
  <1>3. IsFiniteSet(A) /\ IsFiniteSet(B)  BY <1>1, <1>2, FS_Interval
  <1>4. TurnsOf(rs) \in SUBSET (A \X B)  BY DEF TurnsOf
  <1>5. A \X B \in SUBSET (Nat \X Nat)  BY <1>2
  <1> HIDE DEF A, B
  <1>6. IsFiniteSet(A \X B)  BY <1>3, FS_Product
  <1>7. IsFiniteSet(TurnsOf(rs))  BY <1>4, <1>6, FS_Subset
  <1> QED BY <1>4, <1>5, <1>7, FS_CardinalityType, Zenon

\* What is offered: the first turns, up to the limit.
LEMMA OfferedFiles ==
  ASSUME NEW rs \in Seq(Repos)
  PROVE  /\ Lists(TurnOrder(rs), TurnsOf(rs), Earlier)
         /\ OpportunityOrder(rs) \in Seq(Blobs)
         /\ Len(OpportunityOrder(rs)) \in Nat
         /\ Len(OpportunityOrder(rs)) <= Cardinality(TurnsOf(rs))
         /\ Len(OpportunityOrder(rs)) <= MaxFiles
         /\ \/ Len(OpportunityOrder(rs)) = Cardinality(TurnsOf(rs))
            \/ Len(OpportunityOrder(rs)) = MaxFiles
         /\ \A n \in 1 .. Len(OpportunityOrder(rs)) :
              /\ TurnOrder(rs)[n] \in TurnsOf(rs)
              /\ OpportunityOrder(rs)[n].repo = rs[TurnOrder(rs)[n][2]]
  <1> DEFINE order == TurnOrder(rs)
             N == Cardinality(TurnsOf(rs))
             L == IF N < MaxFiles THEN N ELSE MaxFiles
  <1>1. Lists(order, TurnsOf(rs), Earlier)  BY TurnsFinite, SortedPairs DEF TurnOrder
  <1>2. N \in Nat /\ order \in [1 .. N -> TurnsOf(rs)]  BY <1>1 DEF Lists
  <1>3. Len(order) = N  BY <1>2, FunctionIsSeq
  <1>4. MaxFiles \in Nat  BY QualityAssumption
  <1>5. L \in Nat /\ L <= N /\ L <= MaxFiles /\ (L = N \/ L = MaxFiles)  BY <1>2, <1>4
  <1>6. OpportunityOrder(rs) = [n \in 1 .. L |-> Stratified[rs[order[n][2]]][order[n][1]]]
    BY <1>3 DEF OpportunityOrder, TurnOrder, TurnsOf
  <1> HIDE DEF order, N, L
  <1>7. ASSUME NEW n \in 1 .. L
        PROVE  /\ order[n] \in TurnsOf(rs)
               /\ Stratified[rs[order[n][2]]][order[n][1]] \in Blobs
               /\ Stratified[rs[order[n][2]]][order[n][1]].repo = rs[order[n][2]]
    <2>1. order[n] \in TurnsOf(rs)  BY <1>2, <1>5
    <2>2. order[n][1] \in Nat \ {0} /\ order[n][2] \in DOMAIN rs
          /\ order[n][1] <= Len(Stratified[rs[order[n][2]]])
      BY <2>1 DEF TurnsOf
    <2>3. rs[order[n][2]] \in Repos  BY <2>2, LenProperties, ElementOfSeq
    <2>4. Len(Stratified[rs[order[n][2]]]) \in Nat  BY <2>3, StratifiedIsSeq
    <2>5. order[n][1] \in 1 .. Len(Stratified[rs[order[n][2]]])  BY <2>2, <2>4
    <2> QED BY <2>1, <2>3, <2>5, StratifiedIsSeq
  <1> DEFINE offer(n) == Stratified[rs[order[n][2]]][order[n][1]]
  <1> HIDE DEF offer
  <1>8. OpportunityOrder(rs) = [n \in 1 .. L |-> offer(n)]  BY <1>6 DEF offer
  <1>9. \A n \in 1 .. L : offer(n) \in Blobs /\ offer(n).repo = rs[order[n][2]]
                          /\ order[n] \in TurnsOf(rs)
    BY <1>7 DEF offer
  <1>10. OpportunityOrder(rs) \in [1 .. L -> Blobs]  BY <1>8, <1>9
  <1>11. OpportunityOrder(rs) \in Seq(Blobs) /\ Len(OpportunityOrder(rs)) = L
    BY <1>5, <1>10, FunctionIsSeq
  <1>12. \A n \in 1 .. L : OpportunityOrder(rs)[n] = offer(n)  BY <1>8
  <1> QED BY <1>1, <1>5, <1>9, <1>11, <1>12 DEF order, N

\* A set of positive numbers without gaps counts from one.
LEMMA NoGaps ==
  ASSUME NEW m \in Nat, NEW D \in SUBSET (1 .. m),
         \A x \in D : \A y \in 1 .. x : y \in D
  PROVE  Cardinality(D) \in Nat /\ Cardinality(D) <= m /\ D = 1 .. Cardinality(D)
  <1> DEFINE Out == {x \in Nat : x # 0 /\ x \notin D}
  <1>1. m + 1 \in Out  OBVIOUS
  <1>2. PICK c \in Out : \A x \in Out : c <= x  BY <1>1, LeastNatural
  <1>3. c \in Nat \ {0} /\ c \notin D /\ c <= m + 1  BY <1>1, <1>2
  <1>4. \A x \in Nat \ {0} : x < c => x \in D  BY <1>2
  <1>5. \A x \in D : x < c  BY <1>3
  <1>6. D = 1 .. c - 1
    <2>1. \A x \in D : x \in 1 .. c - 1  BY <1>3, <1>5
    <2>2. \A x \in 1 .. c - 1 : x \in D  BY <1>3, <1>4
    <2> QED BY <2>1, <2>2
  <1>7. Cardinality(1 .. c - 1) = c - 1  BY <1>3, FS_Interval
  <1> QED BY <1>3, <1>6, <1>7

\* The first turns of a repository are offered, as many as it has files there.
LEMMA TakenTurns ==
  ASSUME NEW rs \in Seq(Repos), Injective(rs), NEW i \in DOMAIN rs,
         NEW D, D = {n \in 1 .. Len(OpportunityOrder(rs)) :
                        OpportunityOrder(rs)[n].repo = rs[i]}
  PROVE  /\ IsFiniteSet(D)
         /\ Cardinality(D) \in Nat /\ Cardinality(D) <= Len(Stratified[rs[i]])
         /\ \A k \in Nat \ {0} :
              k <= Cardinality(D) <=>
                 \E n \in 1 .. Len(OpportunityOrder(rs)) : TurnOrder(rs)[n] = <<k, i>>
  <1> DEFINE order == TurnOrder(rs)
             L == Len(OpportunityOrder(rs))
             T == TurnsOf(rs)
             N == Cardinality(T)
             m == Len(Stratified[rs[i]])
             A == {k \in 1 .. m : \E n \in 1 .. L : order[n] = <<k, i>>}
             f == [n \in D |-> order[n][1]]
  <1>1. Lists(order, T, Earlier) /\ L \in Nat /\ L <= N
        /\ \A n \in 1 .. L : /\ order[n] \in T
                             /\ OpportunityOrder(rs)[n].repo = rs[order[n][2]]
    BY OfferedFiles
  <1>2. N \in Nat /\ T \in SUBSET (Nat \X Nat)  BY TurnsFinite
  <1>3. StrictOrder(Earlier, T)  BY <1>2, EarlierOrders
  <1>4. rs[i] \in Repos  BY LenProperties, ElementOfSeq
  <1>5. m \in Nat /\ m <= Cardinality(Blobs) /\ Cardinality(Blobs) \in Nat
    BY <1>4, StratifiedIsSeq, FS_CardinalityType, QualityAssumption
  <1>6. \A n \in 1 .. L : /\ order[n] = <<order[n][1], order[n][2]>>
                          /\ order[n][1] \in Nat \ {0} /\ order[n][2] \in DOMAIN rs
                          /\ order[n][1] <= Len(Stratified[rs[order[n][2]]])
    BY <1>1 DEF TurnsOf
  <1>7. \A n \in D : n \in 1 .. L /\ order[n][2] = i  BY <1>1, <1>6 DEF Injective
  <1>8. \A n \in 1 .. L : order[n][2] = i => n \in D  BY <1>1
  <1>9. \A k \in 1 .. m : <<k, i>> \in T  BY <1>5 DEF TurnsOf
  <1> HIDE DEF order, T, N, m, L
  <1>10. f \in [D -> A]
    <2>1. ASSUME NEW n \in D PROVE order[n][1] \in A
      <3>1. n \in 1 .. L /\ order[n][2] = i  BY <1>7
      <3>2. order[n] = <<order[n][1], i>> /\ order[n][1] \in Nat \ {0}
            /\ order[n][1] <= Len(Stratified[rs[i]])
        BY <1>6, <3>1
      <3>3. order[n][1] \in 1 .. m  BY <3>2, <1>5 DEF m
      <3> QED BY <3>1, <3>2, <3>3
    <2> QED BY <2>1
  <1>11. \A a, b \in D : f[a] = f[b] => a = b
    <2> SUFFICES ASSUME NEW a \in D, NEW b \in D, f[a] = f[b] PROVE a = b
      OBVIOUS
    <2>1. a \in 1 .. L /\ b \in 1 .. L /\ order[a] = order[b]  BY <1>6, <1>7
    <2>2. a \in 1 .. N /\ b \in 1 .. N  BY <2>1, <1>1, <1>2
    <2> QED BY <1>1, <1>3, <2>1, <2>2, ListsOnce DEF N
  <1>12. \A k \in A : \E n \in D : f[n] = k
    <2> SUFFICES ASSUME NEW k \in A PROVE \E n \in D : f[n] = k
      OBVIOUS
    <2>1. PICK n \in 1 .. L : order[n] = <<k, i>>  OBVIOUS
    <2>2. order[n][1] = k /\ order[n][2] = i  BY <2>1
    <2>3. n \in D  BY <1>8, <2>2
    <2> QED BY <2>2, <2>3
  <1>13. \A x \in A : \A y \in 1 .. x : y \in A
    <2> SUFFICES ASSUME NEW x \in A, NEW y \in 1 .. x PROVE y \in A
      OBVIOUS
    <2>1. x \in Nat /\ y \in Nat /\ y <= x /\ y \in 1 .. m  BY <1>5
    <2>2. PICK n \in 1 .. L : order[n] = <<x, i>>  OBVIOUS
    <2>3. <<y, i>> \in T  BY <1>9, <2>1
    <2>4. PICK k \in 1 .. N : order[k] = <<y, i>>  BY <1>1, <2>3 DEF Lists, N
    <2>5. CASE x = y  BY <2>5
    <2>6. CASE x # y
      <3>1. y < x  BY <2>1, <2>6
      <3>2. <<<<y, i>>, <<x, i>>>> \in Earlier
        <4>1. i \in Nat  BY LenProperties
        <4> QED BY <2>1, <3>1, <4>1 DEF Earlier
      <3>3. n \in 1 .. N  BY <1>1, <1>2, <2>2
      <3>4. k < n  BY <1>1, <1>3, <2>2, <2>4, <3>2, <3>3, ListsInOrder DEF N
      <3>5. k \in 1 .. L  BY <1>1, <1>2, <3>4
      <3> QED BY <2>1, <2>4, <3>5
    <2> QED BY <2>5, <2>6
  <1>14. A \in SUBSET (1 .. m)  OBVIOUS
  <1>15. \A k \in Nat \ {0} : (\E n \in 1 .. L : order[n] = <<k, i>>) => k \in A
    <2> SUFFICES ASSUME NEW k \in Nat \ {0}, NEW n \in 1 .. L, order[n] = <<k, i>>
                 PROVE  k \in A
      OBVIOUS
    <2>1. order[n][1] = k /\ order[n][2] = i  OBVIOUS
    <2>2. k <= Len(Stratified[rs[i]])  BY <1>6, <2>1
    <2>3. k \in 1 .. m  BY <2>2, <1>5 DEF m
    <2> QED BY <2>3
  <1>16. \A k \in A : \E n \in 1 .. L : order[n] = <<k, i>>  OBVIOUS
  <1> HIDE DEF f, A
  <1>17. Cardinality(A) \in Nat /\ Cardinality(A) <= m /\ A = 1 .. Cardinality(A)
    BY <1>5, <1>13, <1>14, NoGaps
  <1>18. IsFiniteSet(A)  BY <1>17, FS_Interval
  <1>19. f \in Injection(D, A) /\ f \in Surjection(D, A)
    BY <1>10, <1>11, <1>12, Fun_IsInj, Fun_IsSurj
  <1>20. IsFiniteSet(D) /\ Cardinality(D) = Cardinality(A)
    BY <1>18, <1>19, FS_Injection
  <1>21. \A k \in Nat \ {0} : k <= Cardinality(D) <=> k \in A
    BY <1>17, <1>20
  <1> QED BY <1>15, <1>16, <1>17, <1>20, <1>21 DEF order, L, m

\* No repository is two files ahead of one that has more to offer.
LEMMA TurnsAreFair ==
  ASSUME NEW rs \in Seq(Repos), Injective(rs), NEW i \in DOMAIN rs, NEW j \in DOMAIN rs,
         NEW C, C = {n \in 1 .. Len(OpportunityOrder(rs)) :
                        OpportunityOrder(rs)[n].repo = rs[i]},
         NEW D, D = {n \in 1 .. Len(OpportunityOrder(rs)) :
                        OpportunityOrder(rs)[n].repo = rs[j]},
         Cardinality(D) < Len(Stratified[rs[j]])
  PROVE  Cardinality(C) <= Cardinality(D) + 1
  <1> DEFINE order == TurnOrder(rs)
             L == Len(OpportunityOrder(rs))
             T == TurnsOf(rs)
             N == Cardinality(T)
             k == Cardinality(D) + 1
  <1>1. Lists(order, T, Earlier) /\ L \in Nat /\ L <= N  BY OfferedFiles
  <1>2. N \in Nat /\ T \in SUBSET (Nat \X Nat)  BY TurnsFinite
  <1>3. StrictOrder(Earlier, T)  BY <1>2, EarlierOrders
  <1>4. Cardinality(C) \in Nat /\ k \in Nat \ {0}
    <2>1. Cardinality(C) \in Nat  BY TakenTurns
    <2>2. Cardinality(D) \in Nat  BY TakenTurns
    <2> QED BY <2>1, <2>2
  <1> SUFFICES ASSUME k + 1 <= Cardinality(C) PROVE FALSE  BY <1>4
  <1>5. PICK n \in 1 .. L : order[n] = <<k + 1, i>>
    <2>1. \A q \in Nat \ {0} :
            q <= Cardinality(C) <=> \E n \in 1 .. L : order[n] = <<q, i>>
      BY TakenTurns
    <2>2. k + 1 \in Nat \ {0}  BY <1>4
    <2> HIDE DEF k, order, L
    <2> QED BY <2>1, <2>2
  <1>6. rs[j] \in Repos  BY LenProperties, ElementOfSeq
  <1>7. <<k, j>> \in T
    <2>1. Len(Stratified[rs[j]]) \in Nat /\ Len(Stratified[rs[j]]) <= Cardinality(Blobs)
          /\ Cardinality(Blobs) \in Nat
      BY <1>6, StratifiedIsSeq, FS_CardinalityType, QualityAssumption
    <2>2. k <= Len(Stratified[rs[j]])  BY <1>4, <2>1, TakenTurns
    <2>3. k \in 1 .. Cardinality(Blobs)  BY <1>4, <2>1, <2>2
    <2> HIDE DEF k
    <2> QED BY <2>2, <2>3 DEF TurnsOf
  <1>8. PICK p \in 1 .. N : order[p] = <<k, j>>  BY <1>1, <1>7 DEF Lists
  <1>9. <<<<k, j>>, <<k + 1, i>>>> \in Earlier
    <2>1. i \in Nat /\ j \in Nat  BY LenProperties
    <2>2. k < k + 1 /\ k \in Nat /\ k + 1 \in Nat  BY <1>4
    <2> HIDE DEF k
    <2> QED BY <2>1, <2>2 DEF Earlier
  <1>10. n \in 1 .. N  BY <1>1, <1>2
  <1>11. p < n
    <2> HIDE DEF order, k, T
    <2> QED BY <1>1, <1>3, <1>5, <1>8, <1>9, <1>10, ListsInOrder
  <1>12. p \in 1 .. L  BY <1>1, <1>2, <1>11
  <1>13. k <= Cardinality(D)
    <2> HIDE DEF k
    <2> QED BY <1>4, <1>8, <1>12, TakenTurns
  <1>14. Cardinality(D) \in Nat  BY TakenTurns
  <1> QED BY <1>13, <1>14
-----------------------------------------------------------------------------
(* Files read and limitations told *)

Read == [blob : Blobs, status : {"not-checked", "attributed", "not-attributed"}]

LossCodes == {"unavailable", "revision-drift", "oversized", "non-text", "source-budget"}

Limits == [code : LossCodes \cup {"attribution-budget"}, files : Nat]

CountOf(l) == IF l.code = "attribution-budget" THEN 0 ELSE l.files

ToldBy(ls) == TotalOf([n \in DOMAIN ls |-> CountOf(ls[n])])

LEMMA SizesOf ==
  ASSUME NEW fs \in Seq(Read)
  PROVE  /\ [n \in DOMAIN fs |-> fs[n].blob.bytes] \in Seq(Nat)
         /\ Len([n \in DOMAIN fs |-> fs[n].blob.bytes]) = Len(fs)
  <1>1. Len(fs) \in Nat /\ DOMAIN fs = 1 .. Len(fs)  BY LenProperties
  <1>2. \A n \in 1 .. Len(fs) : fs[n].blob.bytes \in Nat
    <2> SUFFICES ASSUME NEW n \in 1 .. Len(fs) PROVE fs[n].blob.bytes \in Nat  OBVIOUS
    <2>1. fs[n] \in Read  BY ElementOfSeq
    <2> QED BY <2>1, BlobTypes DEF Read
  <1>3. [n \in DOMAIN fs |-> fs[n].blob.bytes] \in [1 .. Len(fs) -> Nat]  BY <1>1, <1>2
  <1> QED BY <1>1, <1>3, FunctionIsSeq

LEMMA BytesInNat == ASSUME NEW fs \in Seq(Read) PROVE BytesOf(fs) \in Nat
  BY SizesOf, TotalInNat DEF BytesOf

LEMMA BytesEmpty == BytesOf(<<>>) = 0
  <1>1. [n \in DOMAIN <<>> |-> <<>>[n].blob.bytes] = <<>>
    <2> DEFINE s == [n \in DOMAIN <<>> |-> <<>>[n].blob.bytes]
    <2>1. <<>> \in Seq(Read)  BY EmptySeq
    <2>2. s \in Seq(Nat) /\ Len(s) = 0  BY <2>1, SizesOf, EmptySeq
    <2> HIDE DEF s
    <2>3. s = <<>>  BY <2>2
    <2> QED BY <2>3 DEF s
  <1> QED BY <1>1, TotalEmpty DEF BytesOf

LEMMA BytesAppend ==
  ASSUME NEW fs \in Seq(Read), NEW x \in Read
  PROVE  BytesOf(Append(fs, x)) = BytesOf(fs) + x.blob.bytes
  <1> DEFINE sizes(s) == [n \in DOMAIN s |-> s[n].blob.bytes]
             t == Append(fs, x)
  <1>1. t \in Seq(Read) /\ Len(t) = Len(fs) + 1 /\ t[Len(fs) + 1] = x
        /\ \A i \in 1 .. Len(fs) : t[i] = fs[i]
    BY AppendProperties
  <1>2. Len(fs) \in Nat /\ DOMAIN fs = 1 .. Len(fs) /\ DOMAIN t = 1 .. Len(fs) + 1
    BY <1>1, LenProperties
  <1>3. sizes(fs) \in Seq(Nat) /\ Len(sizes(fs)) = Len(fs)  BY SizesOf
  <1>4. sizes(t) \in Seq(Nat) /\ Len(sizes(t)) = Len(fs) + 1  BY <1>1, SizesOf
  <1>5. x.blob.bytes \in Nat  BY BlobTypes DEF Read
  <1>6. /\ Append(sizes(fs), x.blob.bytes) \in Seq(Nat)
        /\ Len(Append(sizes(fs), x.blob.bytes)) = Len(fs) + 1
        /\ Append(sizes(fs), x.blob.bytes)[Len(fs) + 1] = x.blob.bytes
        /\ \A i \in 1 .. Len(fs) : Append(sizes(fs), x.blob.bytes)[i] = sizes(fs)[i]
    BY <1>3, <1>5, AppendProperties
  <1>7. \A i \in 1 .. Len(fs) + 1 : sizes(t)[i] = t[i].blob.bytes  BY <1>2
  <1>8. \A i \in 1 .. Len(fs) : sizes(fs)[i] = fs[i].blob.bytes  BY <1>2
  <1> HIDE DEF sizes, t
  <1>9. \A i \in 1 .. Len(fs) + 1 : sizes(t)[i] = Append(sizes(fs), x.blob.bytes)[i]
    BY <1>1, <1>2, <1>6, <1>7, <1>8
  <1>10. sizes(t) = Append(sizes(fs), x.blob.bytes)  BY <1>4, <1>6, <1>9, SeqEqual
  <1>11. TotalOf(sizes(t)) = TotalOf(sizes(fs)) + x.blob.bytes
    BY <1>3, <1>5, <1>10, TotalAppend
  <1> QED BY <1>11 DEF sizes, t, BytesOf

\* Who wrote a file does not change its size.
LEMMA StatusOnly ==
  ASSUME NEW fs \in Seq(Read), NEW k \in 1 .. Len(fs),
         NEW s \in {"attributed", "not-attributed"}
  PROVE  /\ [fs EXCEPT ![k].status = s] \in Seq(Read)
         /\ Len([fs EXCEPT ![k].status = s]) = Len(fs)
         /\ BytesOf([fs EXCEPT ![k].status = s]) = BytesOf(fs)
  <1> DEFINE x == [fs[k] EXCEPT !.status = s]
             t == [fs EXCEPT ![k] = x]
  <1>1. [fs EXCEPT ![k].status = s] = t  OBVIOUS
  <1>2. fs[k] \in Read  BY ElementOfSeq
  <1>3. x \in Read /\ x.blob = fs[k].blob  BY <1>2 DEF Read
  <1> HIDE DEF x
  <1>4. t \in Seq(Read) /\ Len(t) = Len(fs)
        /\ \A j \in 1 .. Len(fs) : t[j] = IF j = k THEN x ELSE fs[j]
    BY <1>3, ExceptSeq
  <1> HIDE DEF t
  <1>5. DOMAIN fs = 1 .. Len(fs) /\ DOMAIN t = 1 .. Len(fs)  BY <1>4, LenProperties
  <1>6. \A j \in 1 .. Len(fs) : t[j].blob = fs[j].blob  BY <1>3, <1>4
  <1>7. [n \in DOMAIN t |-> t[n].blob.bytes] = [n \in DOMAIN fs |-> fs[n].blob.bytes]
    BY <1>5, <1>6
  <1> QED BY <1>1, <1>4, <1>7 DEF BytesOf

LEMMA CountsOf ==
  ASSUME NEW ls \in Seq(Limits)
  PROVE  /\ [n \in DOMAIN ls |-> CountOf(ls[n])] \in Seq(Nat)
         /\ Len([n \in DOMAIN ls |-> CountOf(ls[n])]) = Len(ls)
  <1>1. Len(ls) \in Nat /\ DOMAIN ls = 1 .. Len(ls)  BY LenProperties
  <1>2. \A n \in 1 .. Len(ls) : CountOf(ls[n]) \in Nat
    <2> SUFFICES ASSUME NEW n \in 1 .. Len(ls) PROVE CountOf(ls[n]) \in Nat  OBVIOUS
    <2>1. ls[n] \in Limits  BY ElementOfSeq
    <2> QED BY <2>1 DEF Limits, CountOf
  <1>3. [n \in DOMAIN ls |-> CountOf(ls[n])] \in [1 .. Len(ls) -> Nat]  BY <1>1, <1>2
  <1> QED BY <1>1, <1>3, FunctionIsSeq

LEMMA ToldInNat == ASSUME NEW ls \in Seq(Limits) PROVE ToldBy(ls) \in Nat
  BY CountsOf, TotalInNat DEF ToldBy

LEMMA ToldEmpty == ToldBy(<<>>) = 0
  <1>1. [n \in DOMAIN <<>> |-> CountOf(<<>>[n])] = <<>>
    <2> DEFINE s == [n \in DOMAIN <<>> |-> CountOf(<<>>[n])]
    <2>1. <<>> \in Seq(Limits)  BY EmptySeq
    <2>2. s \in Seq(Nat) /\ Len(s) = 0  BY <2>1, CountsOf, EmptySeq
    <2> HIDE DEF s
    <2>3. s = <<>>  BY <2>2
    <2> QED BY <2>3 DEF s
  <1> QED BY <1>1, TotalEmpty DEF ToldBy

LEMMA ToldAppend ==
  ASSUME NEW ls \in Seq(Limits), NEW x \in Limits
  PROVE  ToldBy(Append(ls, x)) = ToldBy(ls) + CountOf(x)
  <1> DEFINE counts(s) == [n \in DOMAIN s |-> CountOf(s[n])]
             t == Append(ls, x)
  <1>1. t \in Seq(Limits) /\ Len(t) = Len(ls) + 1 /\ t[Len(ls) + 1] = x
        /\ \A i \in 1 .. Len(ls) : t[i] = ls[i]
    BY AppendProperties
  <1>2. Len(ls) \in Nat /\ DOMAIN ls = 1 .. Len(ls) /\ DOMAIN t = 1 .. Len(ls) + 1
    BY <1>1, LenProperties
  <1>3. counts(ls) \in Seq(Nat) /\ Len(counts(ls)) = Len(ls)  BY CountsOf
  <1>4. counts(t) \in Seq(Nat) /\ Len(counts(t)) = Len(ls) + 1  BY <1>1, CountsOf
  <1>5. CountOf(x) \in Nat  BY DEF Limits, CountOf
  <1>6. /\ Append(counts(ls), CountOf(x)) \in Seq(Nat)
        /\ Len(Append(counts(ls), CountOf(x))) = Len(ls) + 1
        /\ Append(counts(ls), CountOf(x))[Len(ls) + 1] = CountOf(x)
        /\ \A i \in 1 .. Len(ls) : Append(counts(ls), CountOf(x))[i] = counts(ls)[i]
    BY <1>3, <1>5, AppendProperties
  <1>7. \A i \in 1 .. Len(ls) + 1 : counts(t)[i] = CountOf(t[i])  BY <1>2
  <1>8. \A i \in 1 .. Len(ls) : counts(ls)[i] = CountOf(ls[i])  BY <1>2
  <1> HIDE DEF counts, t
  <1>9. \A i \in 1 .. Len(ls) + 1 : counts(t)[i] = Append(counts(ls), CountOf(x))[i]
    BY <1>1, <1>2, <1>6, <1>7, <1>8
  <1>10. counts(t) = Append(counts(ls), CountOf(x))  BY <1>4, <1>6, <1>9, SeqEqual
  <1>11. TotalOf(counts(t)) = TotalOf(counts(ls)) + CountOf(x)
    BY <1>3, <1>5, <1>10, TotalAppend
  <1> QED BY <1>11 DEF counts, t, ToldBy

LEMMA TotalToldBy == TotalTold = ToldBy(limitations)
  BY DEF TotalTold, ToldBy, CountOf

\* The selected files are among those offered.
Places == {n \in DOMAIN offered : offered[n].repo \in confirmed}

LEMMA SelectedFiles ==
  ASSUME offered \in Seq(Blobs)
  PROVE  /\ IsFiniteSet(Places)
         /\ Len(Selected) = Cardinality(Places) /\ Len(Selected) \in Nat
         /\ Len(Selected) <= Len(offered)
         /\ \A n \in 1 .. Len(Selected) : Selected[n] \in Blobs
  <1> DEFINE N == Cardinality(Places)
             p == Ascending(Places)
  <1>1. Len(offered) \in Nat /\ DOMAIN offered = 1 .. Len(offered)  BY LenProperties
  <1>2. Places \in SUBSET (1 .. Len(offered))  BY <1>1 DEF Places
  <1>3. IsFiniteSet(1 .. Len(offered)) /\ Cardinality(1 .. Len(offered)) = Len(offered)
    BY <1>1, FS_Interval
  <1>4. IsFiniteSet(Places) /\ N <= Len(offered)  BY <1>2, <1>3, FS_Subset
  <1>5. Places \in SUBSET Nat  BY <1>2
  <1>6. N \in Nat /\ p \in [1 .. N -> Places]  BY <1>4, <1>5, AscendingLists DEF Lists
  <1>7. Selected = [n \in 1 .. N |-> offered[p[n]]]  BY <1>6 DEF Selected, Places
  <1> HIDE DEF p, N
  <1>8. \A n \in 1 .. N : offered[p[n]] \in Blobs
    <2> SUFFICES ASSUME NEW n \in 1 .. N PROVE offered[p[n]] \in Blobs  OBVIOUS
    <2>1. p[n] \in 1 .. Len(offered)  BY <1>2, <1>6
    <2> QED BY <2>1, ElementOfSeq
  <1>9. Selected \in [1 .. N -> Blobs]  BY <1>7, <1>8
  <1>10. Len(Selected) = N /\ Selected \in Seq(Blobs)  BY <1>6, <1>9, FunctionIsSeq
  <1>11. \A n \in 1 .. Len(Selected) : Selected[n] \in Blobs  BY <1>9, <1>10
  <1> QED BY <1>4, <1>6, <1>10, <1>11 DEF N
-----------------------------------------------------------------------------
(* The token *)

\* While the command holds no token, the lease is closed.
Leased ==
    pc \in {"authorize", "public", "ended"} \/ (pc = "collect" /\ ~bounded)
        => lease = Closed

LEMMA LeasedStep == Leased /\ [PrivateNext]_vars => Leased'
  <1> SUFFICES ASSUME Leased, [PrivateNext]_vars PROVE Leased'  OBVIOUS
  <1> USE DEF Leased
  <1>1. CASE Authorize  BY <1>1, Zenon DEF Authorize, qualityVars
  <1>2. CASE StartRun  BY <1>2, Zenon DEF StartRun
  <1>3. CASE Returned  BY <1>3, Zenon DEF Returned
  <1>4. CASE AskUser  BY <1>4, Zenon DEF AskUser, Return
  <1>5. CASE AskInstallations  BY <1>5, Zenon DEF AskInstallations, Return
  <1>6. CASE ListPage  BY <1>6, Zenon DEF ListPage
  <1>7. CASE Consider  BY <1>7, Zenon DEF Consider
  <1>8. CASE AskRevision  BY <1>8, Zenon DEF AskRevision, SkipRepository
  <1>9. CASE AskTree  BY <1>9, Zenon DEF AskTree, SkipRepository
  <1>10. CASE AskReleases  BY <1>10, Zenon DEF AskReleases
  <1>11. CASE StartCollection
    <2>1. pc' = "collect" /\ bounded' = TRUE  BY <1>11 DEF StartCollection, BeginQuality
    <2> QED BY <2>1, Zenon
  <1>12. CASE StartPublic  BY <1>12, Zenon DEF StartPublic
  <1>13. CASE Collect
    <2>1. UNCHANGED <<pc, lease>>  BY <1>13 DEF Collect
    <2>2. UNCHANGED bounded
      BY <1>13, Zenon DEF Collect, CollectStep, ConfirmRevision, EndRevisions, ReadBlob,
         EndBlobs, Attribute, CloseCollection
    <2> QED BY <2>1, <2>2, Zenon
  <1>14. CASE FinishPrivate  BY <1>14, Zenon DEF FinishPrivate, Return
  <1>15. CASE FinishPublic  BY <1>15, Zenon DEF FinishPublic
  <1>16. CASE Answer  BY <1>16, Zenon DEF Answer
  <1>17. CASE UNCHANGED vars  BY <1>17, Zenon DEF vars, qualityVars, privateVars
  <1> QED BY <1>1, <1>2, <1>3, <1>4, <1>5, <1>6, <1>7, <1>8, <1>9, <1>10, <1>11, <1>12,
             <1>13, <1>14, <1>15, <1>16, <1>17 DEF PrivateNext, Step

\* When the command has ended, whatever was answered, refused or thrown on the
\* way, the lease holds no token (use's finally and dispose, cli.ts).
THEOREM TokenIsGone == PrivateSpec => []TokenGone
  <1>1. PrivateInit => Leased  BY DEF PrivateInit, Leased, Closed
  <1>2. Leased => TokenGone  BY DEF Leased, TokenGone, Closed
  <1> QED BY <1>1, <1>2, LeasedStep, PTL DEF PrivateSpec

-----------------------------------------------------------------------------
(* Types and ceilings *)

Clients == [source : Nat, attribution : Nat]

Wires == [total : Nat, repo : [Repos -> Nat]]

Counters ==
    /\ caps \in Clients /\ used \in Clients
    /\ used.source <= caps.source /\ used.attribution <= caps.attribution

Wired ==
    /\ wire \in Wires /\ wire.total <= MaxRequests
    /\ \A r \in Repos : wire.repo[r] <= MaxPerRepository

Sampled ==
    /\ sample \in Seq(Repos) /\ Injective(sample) /\ Len(sample) <= MaxSampled
    /\ offered = OpportunityOrder(sample)
    /\ confirmed \in SUBSET ToSet(sample)

Gathered ==
    /\ at \in Nat \ {0}
    /\ files \in Seq(Read) /\ Len(files) <= MaxFiles /\ BytesOf(files) <= MaxTotalBytes
    /\ limitations \in Seq(Limits)

Surveyed ==
    /\ page \in [installation : Nat \ {0}, number : Nat \ {0}]
    /\ found \in SUBSET Repos
    /\ considered \in Seq(Repos) /\ inspected \in Seq(Repos) /\ turn \in Nat \ {0}
    /\ pc \in {"tree", "releases"} => Looking

PrivateInv == Counters /\ Wired /\ Sampled /\ Gathered /\ Surveyed

LEMMA AskCounts ==
  ASSUME Counters, Wired, NEW client \in {"source", "attribution"}, NEW r \in Repos,
         NEW answered, Ask(client, r, answered), caps' = caps
  PROVE  Counters' /\ Wired'
  <1>1. used[client] \in Nat /\ caps[client] \in Nat /\ used[client] < caps[client]
    BY DEF Counters, Clients, Ask, CanSpend
  <1>2. used' = [used EXCEPT ![client] = used[client] + 1]  BY DEF Ask
  <1>3. Counters'
    <2>1. used' \in Clients  BY <1>1, <1>2 DEF Counters, Clients
    <2>2. used'.source <= caps.source /\ used'.attribution <= caps.attribution
      BY <1>1, <1>2 DEF Counters, Clients
    <2> QED BY <2>1, <2>2 DEF Counters
  <1>4. CASE wire' = wire  BY <1>3, <1>4 DEF Wired
  <1>5. CASE Fits(r) /\ wire' = Count(r)
    <2>1. wire.total < MaxRequests /\ wire.repo[r] < MaxPerRepository  BY <1>5 DEF Fits
    <2>2. wire.total \in Nat /\ wire.repo \in [Repos -> Nat]  BY DEF Wired, Wires
    <2>3. wire' = [total |-> wire.total + 1,
                   repo |-> [wire.repo EXCEPT ![r] = wire.repo[r] + 1]]
      BY <1>5 DEF Count
    <2>4. wire' \in Wires /\ wire'.total <= MaxRequests
      BY <2>1, <2>2, <2>3, QualityAssumption DEF Wires
    <2>5. \A s \in Repos : wire'.repo[s] <= MaxPerRepository
      BY <2>1, <2>2, <2>3, QualityAssumption DEF Wired
    <2> QED BY <1>3, <2>4, <2>5 DEF Wired
  <1> QED BY <1>4, <1>5 DEF Ask

LEMMA RequestCounts ==
  ASSUME Wired, NEW r \in Repos \cup {0}, NEW answered, Request(r, answered)
  PROVE  Wired'
  <1> DEFINE fits == wire.total < MaxRequests /\ (r # 0 => wire.repo[r] < MaxPerRepository)
  <1>1. wire' = IF ~fits THEN wire
                ELSE IF r = 0 THEN [wire EXCEPT !.total = @ + 1] ELSE Count(r)
    BY DEF Request
  <1>2. wire.total \in Nat /\ wire.repo \in [Repos -> Nat]
        /\ wire = [total |-> wire.total, repo |-> wire.repo]
    BY DEF Wired, Wires
  <1>3. CASE wire' = wire  BY <1>3 DEF Wired
  <1>4. CASE fits /\ r = 0 /\ wire' = [wire EXCEPT !.total = @ + 1]
    <2>1. wire' = [total |-> wire.total + 1, repo |-> wire.repo]  BY <1>2, <1>4
    <2>2. wire' \in Wires /\ wire'.total <= MaxRequests /\ wire'.repo = wire.repo
      BY <1>2, <1>4, <2>1, QualityAssumption DEF Wires
    <2> QED BY <2>2 DEF Wired
  <1>5. CASE fits /\ r # 0 /\ wire' = Count(r)
    <2>1. r \in Repos /\ wire.total < MaxRequests /\ wire.repo[r] < MaxPerRepository
      BY <1>5
    <2>2. wire' = [total |-> wire.total + 1,
                   repo |-> [wire.repo EXCEPT ![r] = wire.repo[r] + 1]]
      BY <1>5 DEF Count
    <2>3. wire' \in Wires /\ wire'.total <= MaxRequests
      BY <2>1, <2>2, <1>2, QualityAssumption DEF Wires
    <2>4. \A s \in Repos : wire'.repo[s] <= MaxPerRepository
      BY <2>1, <2>2, <1>2, QualityAssumption DEF Wired
    <2> QED BY <2>3, <2>4 DEF Wired
  <1> HIDE DEF fits
  <1> QED BY <1>1, <1>3, <1>4, <1>5

LEMMA NothingSpent ==
  ASSUME Counters, Wired, caps' = caps, Quiet
  PROVE  Counters' /\ Wired'
  BY DEF Counters, Wired, Quiet

\* A repository sampled, a file selected and a file read name repositories.
LEMMA SampledRepos ==
  ASSUME Sampled
  PROVE  /\ offered \in Seq(Blobs) /\ Len(offered) \in Nat /\ Len(offered) <= MaxFiles
         /\ \A i \in 1 .. Len(sample) : sample[i] \in Repos
         /\ \A n \in 1 .. Len(Selected) : Selected[n] \in Blobs
         /\ Len(Selected) \in Nat /\ Len(Selected) <= Len(offered)
  <1>1. sample \in Seq(Repos)  BY DEF Sampled
  <1>2. offered \in Seq(Blobs) /\ Len(offered) \in Nat /\ Len(offered) <= MaxFiles
    BY <1>1, OfferedFiles DEF Sampled
  <1>3. \A i \in 1 .. Len(sample) : sample[i] \in Repos  BY <1>1, ElementOfSeq
  <1> QED BY <1>2, <1>3, SelectedFiles

LEMMA OfferedNothing == OpportunityOrder(<<>>) = <<>>
  <1>1. <<>> \in Seq(Repos)  BY EmptySeq
  <1>2. TurnsOf(<<>>) = {}  BY DEF TurnsOf
  <1>3. Cardinality({}) = 0  BY FS_EmptySet
  <1>4. OpportunityOrder(<<>>) \in Seq(Blobs) /\ Len(OpportunityOrder(<<>>)) \in Nat
        /\ Len(OpportunityOrder(<<>>)) <= 0
    BY <1>1, <1>2, <1>3, OfferedFiles
  <1> QED BY <1>4

LEMMA PrivateInitInv == PrivateInit => PrivateInv
  <1> SUFFICES ASSUME PrivateInit PROVE PrivateInv  OBVIOUS
  <1> USE DEF PrivateInit, QualityInit
  <1>1. Counters  BY DEF Counters, Clients
  <1>2. Wired  BY QualityAssumption DEF Wired, Wires
  <1>3. Sampled
    <2>1. sample = <<>> /\ offered = <<>> /\ confirmed = {}  OBVIOUS
    <2>2. <<>> \in Seq(Repos) /\ Len(<<>>) = 0  BY EmptySeq
    <2>3. Injective(<<>>)  BY DEF Injective
    <2>4. 0 <= MaxSampled  BY QualityAssumption
    <2> QED BY <2>1, <2>2, <2>3, <2>4, OfferedNothing DEF Sampled
  <1>4. Gathered
    <2>1. at = 1 /\ files = <<>> /\ limitations = <<>>  OBVIOUS
    <2>2. <<>> \in Seq(Read) /\ <<>> \in Seq(Limits) /\ Len(<<>>) = 0  BY EmptySeq
    <2>3. 0 <= MaxFiles /\ 0 <= MaxTotalBytes  BY QualityAssumption
    <2> QED BY <2>1, <2>2, <2>3, BytesEmpty DEF Gathered
  <1>5. Surveyed
    <2>1. page = [installation |-> 1, number |-> 1] /\ found = {} /\ considered = <<>>
          /\ inspected = <<>> /\ turn = 1 /\ pc \in {"authorize", "public"}
      OBVIOUS
    <2>2. <<>> \in Seq(Repos)  BY EmptySeq
    <2> QED BY <2>1, <2>2 DEF Surveyed
  <1> QED BY <1>1, <1>2, <1>3, <1>4, <1>5 DEF PrivateInv

LEMMA LimitTyped ==
  ASSUME Gathered, NEW code \in LossCodes \cup {"attribution-budget"}, NEW n \in Nat,
         Limit(code, n)
  PROVE  limitations' \in Seq(Limits)
  <1>1. [code |-> code, files |-> n] \in Limits  BY DEF Limits
  <1> QED BY <1>1, AppendProperties DEF Limit, Gathered

\* A collection begins with the caps of the plan and what the sample offers.
LEMMA BeginTyped ==
  ASSUME NEW rs, rs \in SetToSeqs(ToSet(inspected) \intersect Pushed) \/ rs \in SetToSeqs(Pushed),
         NEW cap \in PublicCaps \union {PrivateCaps}, NEW private,
         BeginQuality(rs, cap, private)
  PROVE  Counters' /\ Sampled' /\ Gathered'
  <1>1. rs \in Seq(Repos) /\ Injective(rs)
    <2>1. PICK S \in SUBSET Pushed : rs \in SetToSeqs(S)
      <3>1. ToSet(inspected) \intersect Pushed \in SUBSET Pushed  OBVIOUS
      <3> QED BY <3>1
    <2>2. IsFiniteSet(Pushed) /\ Pushed \in SUBSET Repos  BY PrivateAssumption, FS_Subset
    <2>3. IsFiniteSet(S)  BY <2>2, FS_Subset
    <2>4. Cardinality(S) \in Nat  BY <2>3, FS_CardinalityType
    <2>5. rs \in [1 .. Cardinality(S) -> S]
          /\ \A i, j \in 1 .. Cardinality(S) : i # j => rs[i] # rs[j]
      BY <2>1 DEF SetToSeqs
    <2>6. rs \in Seq(S) /\ DOMAIN rs = 1 .. Cardinality(S)  BY <2>4, <2>5, FunctionIsSeq
    <2>7. rs \in Seq(Repos)  BY <2>2, <2>6, SeqMonotonic
    <2> QED BY <2>5, <2>6, <2>7 DEF Injective
  <1> DEFINE m == IF Len(rs) < MaxSampled THEN Len(rs) ELSE MaxSampled
  <1>2. Len(rs) \in Nat /\ MaxSampled \in Nat  BY <1>1, LenProperties, QualityAssumption
  <1>3. m \in Nat /\ m <= Len(rs) /\ m <= MaxSampled  BY <1>2
  <1>4. sample' = SubSeq(rs, 1, m)  BY DEF BeginQuality
  <1> HIDE DEF m
  <1>5. \A i \in 1 .. m : rs[i] \in Repos  BY <1>1, <1>2, <1>3, ElementOfSeq
  <1>6. /\ sample' \in Seq(Repos) /\ Len(sample') = m
        /\ \A i \in 1 .. m : sample'[i] = rs[i]
    <2>1. SubSeq(rs, 1, m) \in Seq(Repos)
          /\ Len(SubSeq(rs, 1, m)) = (IF 1 <= m THEN m - 1 + 1 ELSE 0)
          /\ \A i \in 1 .. m - 1 + 1 : SubSeq(rs, 1, m)[i] = rs[1 + i - 1]
      BY <1>3, <1>5, SubSeqProperties
    <2> QED BY <1>3, <1>4, <2>1
  <1>7. Injective(sample')
    <2>1. DOMAIN sample' = 1 .. m /\ DOMAIN rs = 1 .. Len(rs)  BY <1>1, <1>6, LenProperties
    <2> QED BY <1>1, <1>2, <1>3, <1>6, <2>1 DEF Injective
  <1>8. Sampled'
    <2>1. offered' = OpportunityOrder(sample') /\ confirmed' = {}  BY DEF BeginQuality
    <2> QED BY <1>3, <1>6, <1>7, <2>1 DEF Sampled
  <1>9. Counters'
    <2>1. caps' = cap /\ used' = [source |-> 0, attribution |-> 0]  BY DEF BeginQuality
    <2>2. cap \in Clients  BY PrivateAssumption DEF Clients
    <2> QED BY <2>1, <2>2 DEF Counters, Clients
  <1>10. Gathered'
    <2>1. at' = 1 /\ files' = <<>> /\ limitations' = <<>>  BY DEF BeginQuality
    <2>2. <<>> \in Seq(Read) /\ <<>> \in Seq(Limits) /\ Len(<<>>) = 0  BY EmptySeq
    <2>3. 0 <= MaxFiles /\ 0 <= MaxTotalBytes  BY QualityAssumption
    <2> QED BY <2>1, <2>2, <2>3, BytesEmpty DEF Gathered
  <1> QED BY <1>8, <1>9, <1>10

LEMMA ConfirmTyped ==
  ASSUME Counters, Wired, Sampled, Gathered, ConfirmRevision
  PROVE  Counters' /\ Wired' /\ Sampled' /\ Gathered'
  <1> DEFINE r == sample[at]
  <1>1. at \in 1 .. Len(sample) /\ r \in Repos
    <2>1. Len(sample) \in Nat  BY LenProperties DEF Sampled
    <2>2. at \in 1 .. Len(sample)  BY <2>1 DEF ConfirmRevision, Gathered
    <2> QED BY <2>2, SampledRepos
  <1>2. UNCHANGED <<caps, sample, offered, files>> /\ at' = at + 1
    BY DEF ConfirmRevision
  <1>3. PICK answered \in BOOLEAN : Ask("source", r, answered)
    BY Zenon DEF ConfirmRevision
  <1>4. Counters' /\ Wired'  BY <1>1, <1>2, <1>3, AskCounts
  <1>5. confirmed' \in SUBSET ToSet(sample)
    <2>1. r \in ToSet(sample)
      <3>1. DOMAIN sample = 1 .. Len(sample)  BY LenProperties DEF Sampled
      <3> QED BY <1>1, <3>1 DEF ToSet
    <2>2. confirmed' = confirmed \/ confirmed' = confirmed \cup {r}
      BY Zenon DEF ConfirmRevision
    <2> QED BY <2>1, <2>2 DEF Sampled
  <1>6. limitations' \in Seq(Limits)
    <2>1. Len(Stratified[r]) \in Nat  BY <1>1, StratifiedIsSeq
    <2>2. \/ \E code \in LossCodes : Limit(code, Len(Stratified[r]))
          \/ limitations' = limitations
      BY Zenon DEF ConfirmRevision, NoLimit, LossCodes
    <2> HIDE DEF r
    <2>3. CASE limitations' = limitations  BY <2>3 DEF Gathered
    <2>4. CASE \E code \in LossCodes : Limit(code, Len(Stratified[r]))
      BY <2>1, <2>4, LimitTyped
    <2> QED BY <2>2, <2>3, <2>4
  <1>7. Sampled'  BY <1>2, <1>5 DEF Sampled
  <1>8. Gathered'  BY <1>2, <1>6 DEF Gathered
  <1> QED BY <1>4, <1>7, <1>8

LEMMA EndRevisionsTyped ==
  ASSUME Counters, Wired, Sampled, Gathered, EndRevisions
  PROVE  Counters' /\ Wired' /\ Sampled' /\ Gathered'
  <1>1. UNCHANGED <<caps, sample, offered, confirmed, files, limitations>> /\ at' = 1 /\ Quiet
    BY DEF EndRevisions, Walk, NoLimit
  <1>2. Counters' /\ Wired'  BY <1>1, NothingSpent
  <1>3. Sampled' /\ Gathered'  BY <1>1 DEF Sampled, Gathered
  <1> QED BY <1>2, <1>3

\* What ReadBlob may come to.
Drops(n) ==
    \E code \in LossCodes : Limit(code, n)

LEMMA ReadBlobCases ==
  ASSUME ReadBlob
  PROVE  /\ stage = "blobs" /\ at <= Len(Selected) /\ ~BlobsFull
         /\ UNCHANGED <<bounded, caps, sample, offered, confirmed>>
         /\ \E answered \in BOOLEAN : Ask("source", Selected[at].repo, answered)
         /\ \/ Drops(1) /\ at' = at + 1 /\ UNCHANGED <<stage, files>>
            \/ /\ Drops(RestOfSelected)
               /\ stage' = "attribution" /\ at' = 1 /\ UNCHANGED files
            \/ /\ BytesOf(files) + Selected[at].bytes <= MaxTotalBytes
               /\ files' = Append(files, [blob |-> Selected[at], status |-> "not-checked"])
               /\ at' = at + 1 /\ NoLimit /\ UNCHANGED stage
  <1>1. stage = "blobs" /\ at <= Len(Selected) /\ ~BlobsFull
        /\ UNCHANGED <<bounded, caps, sample, offered, confirmed>>
    BY Zenon DEF ReadBlob
  <1>2. \E answered \in BOOLEAN : Ask("source", Selected[at].repo, answered)
    BY Zenon DEF ReadBlob
  <1>3. \A n : Limit("unavailable", n) => Drops(n)  BY Zenon DEF Drops, LossCodes
  <1>4. \A n : Limit("source-budget", n) => Drops(n)  BY Zenon DEF Drops, LossCodes
  <1>5. \A n : \A code \in {"oversized", "non-text"} : Limit(code, n) => Drops(n)
    BY Zenon DEF Drops, LossCodes
  <1>6. \/ Drops(1) /\ at' = at + 1 /\ UNCHANGED <<stage, files>>
        \/ /\ Drops(RestOfSelected)
           /\ stage' = "attribution" /\ at' = 1 /\ UNCHANGED files
        \/ /\ BytesOf(files) + Selected[at].bytes <= MaxTotalBytes
           /\ files' = Append(files, [blob |-> Selected[at], status |-> "not-checked"])
           /\ at' = at + 1 /\ NoLimit /\ UNCHANGED stage
    BY <1>3, <1>4, <1>5, Zenon DEF ReadBlob, Walk
  <1> QED BY <1>1, <1>2, <1>6, Zenon

LEMMA ReadBlobTyped ==
  ASSUME Counters, Wired, Sampled, Gathered, ReadBlob, Len(files) <= Len(Selected)
  PROVE  Counters' /\ Wired' /\ Sampled' /\ Gathered'
  <1> DEFINE f == Selected[at]
  <1>1. f \in Blobs /\ f.repo \in Repos
    <2>1. at \in 1 .. Len(Selected)  BY ReadBlobCases, SampledRepos DEF Gathered
    <2> QED BY <2>1, SampledRepos, BlobTypes
  <1>2. UNCHANGED <<caps, sample, offered, confirmed>>  BY ReadBlobCases
  <1>3. PICK answered \in BOOLEAN : Ask("source", f.repo, answered)  BY ReadBlobCases
  <1>4. Counters' /\ Wired'  BY <1>1, <1>2, <1>3, AskCounts
  <1>5. Sampled'  BY <1>2 DEF Sampled
  <1> HIDE DEF f
  <1>6. ASSUME NEW n \in Nat, Drops(n) PROVE limitations' \in Seq(Limits)
    BY <1>6, LimitTyped DEF Drops
  <1>7. CASE Drops(1) /\ at' = at + 1 /\ UNCHANGED files
    <2>1. limitations' \in Seq(Limits)  BY <1>6, <1>7
    <2> QED BY <1>4, <1>5, <1>7, <2>1 DEF Gathered
  <1>8. CASE Drops(RestOfSelected) /\ at' = 1 /\ UNCHANGED files
    <2>1. Len(files) \in Nat  BY LenProperties DEF Gathered
    <2>2. RestOfSelected \in Nat  BY <2>1, SampledRepos DEF RestOfSelected
    <2>3. limitations' \in Seq(Limits)  BY <1>6, <1>8, <2>2
    <2> QED BY <1>4, <1>5, <1>8, <2>3 DEF Gathered
  <1>9. CASE /\ BytesOf(files) + f.bytes <= MaxTotalBytes
             /\ files' = Append(files, [blob |-> f, status |-> "not-checked"])
             /\ at' = at + 1 /\ NoLimit
    <2> DEFINE x == [blob |-> f, status |-> "not-checked"]
    <2>1. x \in Read /\ x.blob = f  BY <1>1 DEF Read
    <2> HIDE DEF x
    <2>2. files' = Append(files, x)  BY <1>9 DEF x
    <2>3. files' \in Seq(Read) /\ Len(files') = Len(files) + 1
      BY <2>1, <2>2, AppendProperties DEF Gathered
    <2>4. Len(files) \in Nat /\ Len(files) < MaxFiles
      <3>1. ~(Len(files) >= MaxFiles)  BY ReadBlobCases DEF BlobsFull
      <3>2. Len(files) \in Nat  BY LenProperties DEF Gathered
      <3> QED BY <3>1, <3>2, QualityAssumption
    <2>5. BytesOf(files') = BytesOf(files) + f.bytes
      BY <2>1, <2>2, BytesAppend DEF Gathered
    <2>6. Len(files') <= MaxFiles /\ BytesOf(files') <= MaxTotalBytes
      BY <1>9, <2>3, <2>4, <2>5, QualityAssumption
    <2>7. at' \in Nat \ {0} /\ limitations' \in Seq(Limits)
      BY <1>9 DEF Gathered, NoLimit
    <2>8. Gathered'  BY <2>3, <2>6, <2>7 DEF Gathered
    <2> QED BY <1>4, <1>5, <2>8
  <1> QED BY <1>7, <1>8, <1>9, ReadBlobCases DEF f

LEMMA EndBlobsCases ==
  ASSUME EndBlobs
  PROVE  /\ stage = "blobs" /\ stage' = "attribution" /\ at' = 1 /\ Quiet
         /\ UNCHANGED <<bounded, caps, sample, offered, confirmed, files>>
         /\ \/ (at > Len(Selected) \/ BlobsFull) /\ NoLimit
            \/ Drops(RestOfSelected)
  <1>1. \A n : Limit("source-budget", n) => Drops(n)  BY Zenon DEF Drops, LossCodes
  <1> QED BY <1>1, Zenon DEF EndBlobs, Walk

LEMMA EndBlobsTyped ==
  ASSUME Counters, Wired, Sampled, Gathered, EndBlobs, Len(files) <= Len(Selected)
  PROVE  Counters' /\ Wired' /\ Sampled' /\ Gathered'
  <1>1. Quiet /\ UNCHANGED <<caps, sample, offered, confirmed, files>> /\ at' = 1
    BY EndBlobsCases
  <1>2. Counters' /\ Wired'  BY <1>1, NothingSpent
  <1>3. Sampled'  BY <1>1 DEF Sampled
  <1>4. limitations' \in Seq(Limits)
    <2>1. Len(files) \in Nat  BY LenProperties DEF Gathered
    <2>2. RestOfSelected \in Nat  BY <2>1, SampledRepos DEF RestOfSelected
    <2>3. CASE NoLimit  BY <2>3 DEF NoLimit, Gathered
    <2>4. CASE Drops(RestOfSelected)  BY <2>2, <2>4, LimitTyped DEF Drops
    <2> QED BY <2>3, <2>4, EndBlobsCases
  <1>5. Gathered'  BY <1>1, <1>4 DEF Gathered
  <1> QED BY <1>2, <1>3, <1>5

LEMMA AttributeCases ==
  ASSUME Counters, Wired, Gathered, Attribute
  PROVE  /\ stage = "attribution" /\ UNCHANGED stage /\ NoLimit /\ at' = at + 1
         /\ UNCHANGED <<bounded, caps, sample, offered, confirmed>>
         /\ files' \in Seq(Read) /\ Len(files') = Len(files)
         /\ BytesOf(files') = BytesOf(files)
         /\ Counters' /\ Wired'
  <1>1. stage = "attribution" /\ UNCHANGED stage /\ NoLimit /\ at' = at + 1
        /\ UNCHANGED <<bounded, caps, sample, offered, confirmed>>
    BY Zenon DEF Attribute
  <1>2. at \in 1 .. Len(files)
    <2>1. Len(files) \in Nat  BY LenProperties DEF Gathered
    <2> QED BY <2>1 DEF Attribute, Gathered
  <1> DEFINE r == files[at].blob.repo
  <1>3. r \in Repos
    <2>1. files[at] \in Read  BY <1>2, ElementOfSeq DEF Gathered
    <2> QED BY <2>1, BlobTypes DEF Read
  <1>4. Counters' /\ Wired'
    <2>1. Quiet \/ Ask("attribution", r, FALSE) \/ Ask("attribution", r, TRUE)
      BY Zenon DEF Attribute
    <2> HIDE DEF r
    <2> QED BY <1>1, <1>3, <2>1, NothingSpent, AskCounts
  <1>5. \/ files' = files
        \/ \E s \in {"attributed", "not-attributed"} :
              files' = [files EXCEPT ![at].status = s]
    BY Zenon DEF Attribute
  <1>6. files' \in Seq(Read) /\ Len(files') = Len(files) /\ BytesOf(files') = BytesOf(files)
    <2>1. CASE files' = files  BY <2>1 DEF Gathered
    <2>2. ASSUME NEW s \in {"attributed", "not-attributed"},
                 files' = [files EXCEPT ![at].status = s]
          PROVE  files' \in Seq(Read) /\ Len(files') = Len(files)
                 /\ BytesOf(files') = BytesOf(files)
      <3>1. files \in Seq(Read)  BY DEF Gathered
      <3> QED BY <1>2, <2>2, <3>1, StatusOnly
    <2> QED BY <1>5, <2>1, <2>2
  <1> QED BY <1>1, <1>4, <1>6

LEMMA AttributeTyped ==
  ASSUME Counters, Wired, Sampled, Gathered, Attribute
  PROVE  Counters' /\ Wired' /\ Sampled' /\ Gathered'
  <1>1. Sampled'  BY AttributeCases DEF Sampled
  <1>2. Gathered'  BY AttributeCases DEF Gathered, NoLimit
  <1> QED BY <1>1, <1>2, AttributeCases

LEMMA UncheckedFinite ==
  ASSUME Gathered
  PROVE  IsFiniteSet(Unchecked) /\ Cardinality(Unchecked) \in Nat
  <1>1. DOMAIN files = 1 .. Len(files) /\ Len(files) \in Nat  BY LenProperties DEF Gathered
  <1>2. IsFiniteSet(DOMAIN files)  BY <1>1, FS_Interval
  <1>3. Unchecked \in SUBSET DOMAIN files  BY DEF Unchecked
  <1>4. IsFiniteSet(Unchecked)  BY <1>2, <1>3, FS_Subset
  <1> QED BY <1>4, FS_CardinalityType

LEMMA CloseTyped ==
  ASSUME Counters, Wired, Sampled, Gathered, CloseCollection
  PROVE  Counters' /\ Wired' /\ Sampled' /\ Gathered'
  <1>1. Quiet /\ UNCHANGED <<caps, sample, offered, confirmed, at, files>>
    BY Zenon DEF CloseCollection
  <1>2. Counters' /\ Wired'  BY <1>1, NothingSpent
  <1>3. Sampled'  BY <1>1 DEF Sampled
  <1>4. limitations' \in Seq(Limits)
    <2>1. NoLimit \/ Limit("attribution-budget", Cardinality(Unchecked))
      BY Zenon DEF CloseCollection
    <2>2. CASE NoLimit  BY <2>2 DEF NoLimit, Gathered
    <2>3. CASE Limit("attribution-budget", Cardinality(Unchecked))
      BY <2>3, UncheckedFinite, LimitTyped
    <2> QED BY <2>1, <2>2, <2>3
  <1>5. Gathered'  BY <1>1, <1>4 DEF Gathered
  <1> QED BY <1>2, <1>3, <1>5

-----------------------------------------------------------------------------
(* What is missing is told *)

\* The repositories whose revision was asked about.
Walked == {sample[i] : i \in 1 .. at - 1}

\* The places of the files of those that were not confirmed.
Missed == {n \in DOMAIN offered : offered[n].repo \in Walked \ confirmed}

Confirming ==
    stage = "revisions" =>
        /\ files = <<>> /\ at <= Len(sample) + 1
        /\ used.source = at - 1 /\ MaxSampled <= caps.source
        /\ confirmed \in SUBSET Walked
        /\ Cardinality(Missed) <= ToldBy(limitations)
        /\ limitations = <<>> => confirmed = Walked

Reading ==
    stage = "blobs" =>
        /\ Len(files) <= at - 1 /\ at - 1 <= Len(Selected)
        /\ Len(offered) - Len(Selected) + (at - 1 - Len(files)) <= ToldBy(limitations)
        /\ limitations = <<>> => confirmed = ToSet(sample)

Complete ==
    stage \in {"attribution", "collected"} =>
        /\ Len(files) <= Len(offered)
        /\ \/ Len(offered) - Len(files) <= ToldBy(limitations)
           \/ BytesOf(files) = MaxTotalBytes
        /\ limitations = <<>> => confirmed = ToSet(sample)
        /\ stage = "collected" /\ limitations = <<>> => Unchecked = {}

Progress == Confirming /\ Reading /\ Complete

LEMMA MissedFinite ==
  ASSUME Sampled
  PROVE  IsFiniteSet(Missed) /\ Cardinality(Missed) \in Nat
  <1>1. DOMAIN offered = 1 .. Len(offered) /\ Len(offered) \in Nat
    BY SampledRepos, LenProperties
  <1>2. IsFiniteSet(DOMAIN offered)  BY <1>1, FS_Interval
  <1>3. Missed \in SUBSET DOMAIN offered  BY DEF Missed
  <1>4. IsFiniteSet(Missed)  BY <1>2, <1>3, FS_Subset
  <1> QED BY <1>4, FS_CardinalityType

\* The files offered of the repository at hand are not more than it has.
LEMMA OfferedOfOne ==
  ASSUME Sampled, NEW i \in 1 .. Len(sample),
         NEW D, D = {n \in DOMAIN offered : offered[n].repo = sample[i]}
  PROVE  IsFiniteSet(D) /\ Cardinality(D) \in Nat
         /\ Cardinality(D) <= Len(Stratified[sample[i]])
  <1>1. sample \in Seq(Repos) /\ Injective(sample) /\ offered = OpportunityOrder(sample)
    BY DEF Sampled
  <1>2. DOMAIN offered = 1 .. Len(OpportunityOrder(sample)) /\ i \in DOMAIN sample
    BY <1>1, SampledRepos, LenProperties
  <1>3. D = {n \in 1 .. Len(OpportunityOrder(sample)) :
               OpportunityOrder(sample)[n].repo = sample[i]}
    BY <1>1, <1>2
  <1> QED BY <1>1, <1>2, <1>3, TakenTurns

LEMMA BeginProgress ==
  ASSUME NEW rs, NEW cap \in PublicCaps \union {PrivateCaps}, NEW private,
         BeginQuality(rs, cap, private), Sampled'
  PROVE  Progress'
  <1>1. stage' = "revisions" /\ at' = 1 /\ files' = <<>> /\ limitations' = <<>>
        /\ confirmed' = {} /\ used' = [source |-> 0, attribution |-> 0] /\ caps' = cap
    BY DEF BeginQuality
  <1>2. Walked' = {}  BY <1>1 DEF Walked
  <1>3. Missed' = {}  BY <1>2 DEF Missed
  <1>4. Cardinality(Missed') = 0 /\ ToldBy(limitations') = 0
    BY <1>1, <1>3, FS_EmptySet, ToldEmpty
  <1>5. Len(sample') \in Nat  BY LenProperties DEF Sampled
  <1>6. MaxSampled <= caps'.source  BY <1>1, PrivateAssumption
  <1>7. Confirming'  BY <1>1, <1>2, <1>4, <1>5, <1>6 DEF Confirming
  <1>8. Reading' /\ Complete'  BY <1>1 DEF Reading, Complete
  <1> QED BY <1>7, <1>8 DEF Progress

LEMMA ToldMore ==
  ASSUME Gathered, NEW code \in LossCodes, NEW n \in Nat, Limit(code, n)
  PROVE  /\ ToldBy(limitations') = ToldBy(limitations) + n
         /\ limitations' # <<>>
  <1> DEFINE x == [code |-> code, files |-> n]
  <1>1. x \in Limits /\ CountOf(x) = n  BY DEF Limits, LossCodes, CountOf
  <1> HIDE DEF x
  <1>2. limitations' = Append(limitations, x)  BY DEF Limit, x
  <1>3. limitations' \in Seq(Limits) /\ Len(limitations') = Len(limitations) + 1
        /\ Len(limitations) \in Nat
    BY <1>1, <1>2, AppendProperties, LenProperties DEF Gathered
  <1>4. limitations' # <<>>  BY <1>3, EmptySeq
  <1> QED BY <1>1, <1>2, <1>4, ToldAppend DEF Gathered

LEMMA ConfirmProgress ==
  ASSUME Counters, Wired, Sampled, Gathered, Progress, ConfirmRevision
  PROVE  Progress'
  <1> DEFINE r == sample[at]
             D == {n \in DOMAIN offered : offered[n].repo = r}
  <1>1. stage = "revisions" /\ UNCHANGED <<stage, caps, sample, offered, files>>
        /\ at' = at + 1
    BY DEF ConfirmRevision
  <1>2. Len(sample) \in Nat /\ at \in 1 .. Len(sample)
    <2>1. Len(sample) \in Nat  BY LenProperties DEF Sampled
    <2> QED BY <2>1 DEF ConfirmRevision, Gathered
  <1>3. files = <<>> /\ used.source = at - 1 /\ MaxSampled <= caps.source
        /\ confirmed \in SUBSET Walked /\ Cardinality(Missed) <= ToldBy(limitations)
        /\ (limitations = <<>> => confirmed = Walked)
    BY <1>1 DEF Progress, Confirming
  <1>4. used'.source = at
    <2>1. PICK answered \in BOOLEAN : Ask("source", r, answered)
      BY Zenon DEF ConfirmRevision
    <2>2. used' = [used EXCEPT !["source"] = used["source"] + 1]  BY <2>1 DEF Ask
    <2>3. used \in Clients  BY DEF Counters
    <2>4. used'.source = used.source + 1  BY <2>2, <2>3 DEF Clients
    <2> QED BY <1>2, <1>3, <2>4
  <1>5. Walked' = Walked \cup {r}
    <2>1. Walked' = {sample[i] : i \in 1 .. at}
      <3>1. at' - 1 = at  BY <1>1, <1>2
      <3> QED BY <1>1, <3>1 DEF Walked
    <2>2. 1 .. at = (1 .. at - 1) \cup {at}  BY <1>2
    <2> QED BY <2>1, <2>2 DEF Walked
  <1>6. Reading' /\ Complete'  BY <1>1 DEF Reading, Complete
  <1>7. at' <= Len(sample') + 1 /\ used'.source = at' - 1  BY <1>1, <1>2, <1>4
  <1>8. Len(Stratified[r]) \in Nat  BY <1>2, SampledRepos, StratifiedIsSeq
  <1>9. IsFiniteSet(Missed) /\ Cardinality(Missed) \in Nat  BY MissedFinite
  <1>10. IsFiniteSet(D) /\ Cardinality(D) \in Nat /\ Cardinality(D) <= Len(Stratified[r])
    BY <1>2, OfferedOfOne
  <1>11. ToldBy(limitations) \in Nat  BY ToldInNat DEF Gathered
  <1>12. CASE confirmed' = confirmed /\ \E code \in LossCodes : Limit(code, Len(Stratified[r]))
    <2>1. confirmed' \in SUBSET Walked'  BY <1>3, <1>5, <1>12
    <2>2. Missed' \in SUBSET (Missed \cup D)  BY <1>1, <1>5, <1>12 DEF Missed
    <2>3. ToldBy(limitations') = ToldBy(limitations) + Len(Stratified[r])
          /\ limitations' # <<>>
      <3> HIDE DEF r
      <3> QED BY <1>8, <1>12, ToldMore
    <2> HIDE DEF D
    <2>4. IsFiniteSet(Missed \cup D)
          /\ Cardinality(Missed \cup D) <= Cardinality(Missed) + Cardinality(D)
      <3>1. IsFiniteSet(Missed \cap D) /\ Cardinality(Missed \cap D) \in Nat
        BY <1>9, FS_Intersection, FS_CardinalityType
      <3>2. Cardinality(Missed \cup D)
              = Cardinality(Missed) + Cardinality(D) - Cardinality(Missed \cap D)
            /\ IsFiniteSet(Missed \cup D)
        BY <1>9, <1>10, FS_Union
      <3> QED BY <1>9, <1>10, <3>1, <3>2
    <2>5. IsFiniteSet(Missed') /\ Cardinality(Missed') <= Cardinality(Missed \cup D)
      BY <2>2, <2>4, FS_Subset
    <2>6. Cardinality(Missed') \in Nat /\ Cardinality(Missed \cup D) \in Nat
      BY <2>4, <2>5, FS_CardinalityType
    <2>7. Cardinality(Missed') <= ToldBy(limitations')
      BY <1>3, <1>8, <1>9, <1>10, <1>11, <2>3, <2>4, <2>5, <2>6
    <2>8. Confirming'  BY <1>1, <1>3, <1>7, <2>1, <2>3, <2>7 DEF Confirming
    <2> QED BY <1>6, <2>8 DEF Progress
  <1>13. CASE confirmed' = confirmed \cup {r} /\ NoLimit
    <2>1. confirmed' \in SUBSET Walked'  BY <1>3, <1>5, <1>13
    <2>2. Missed' \in SUBSET Missed  BY <1>1, <1>5, <1>13 DEF Missed
    <2>3. Cardinality(Missed') <= Cardinality(Missed) /\ IsFiniteSet(Missed')
      BY <1>9, <2>2, FS_Subset
    <2>4. Cardinality(Missed') \in Nat  BY <2>3, FS_CardinalityType
    <2>5. limitations' = limitations  BY <1>13 DEF NoLimit
    <2>6. Cardinality(Missed') <= ToldBy(limitations')
      BY <1>3, <1>9, <1>11, <2>3, <2>4, <2>5
    <2>7. limitations' = <<>> => confirmed' = Walked'  BY <1>3, <1>5, <1>13, <2>5
    <2>8. Confirming'  BY <1>1, <1>3, <1>7, <2>1, <2>6, <2>7 DEF Confirming
    <2> QED BY <1>6, <2>8 DEF Progress
  <1>14. \/ confirmed' = confirmed /\ \E code \in LossCodes : Limit(code, Len(Stratified[r]))
         \/ confirmed' = confirmed \cup {r} /\ NoLimit
    BY Zenon DEF ConfirmRevision, LossCodes
  <1> HIDE DEF r
  <1> QED BY <1>12, <1>13, <1>14

LEMMA EndRevisionsProgress ==
  ASSUME Counters, Wired, Sampled, Gathered, Progress, EndRevisions
  PROVE  Progress'
  <1>1. stage = "revisions" /\ stage' = "blobs" /\ at' = 1
        /\ UNCHANGED <<caps, sample, offered, confirmed, files, limitations>>
    BY DEF EndRevisions, Walk, NoLimit
  <1>2. files = <<>> /\ used.source = at - 1 /\ MaxSampled <= caps.source
        /\ at <= Len(sample) + 1
        /\ confirmed \in SUBSET Walked /\ Cardinality(Missed) <= ToldBy(limitations)
        /\ (limitations = <<>> => confirmed = Walked)
    BY <1>1 DEF Progress, Confirming
  <1>3. Len(sample) \in Nat /\ DOMAIN sample = 1 .. Len(sample) /\ Len(sample) <= MaxSampled
    BY LenProperties DEF Sampled
  <1>4. at = Len(sample) + 1
    <2>1. used.source \in Nat /\ caps.source \in Nat  BY DEF Counters, Clients
    <2>2. at > Len(sample) \/ ~(used.source < caps.source)
      BY DEF EndRevisions, CanSpend
    <2> QED BY <1>2, <1>3, <2>1, <2>2, QualityAssumption DEF Gathered
  <1>5. Walked = ToSet(sample)
    <2>1. 1 .. at - 1 = DOMAIN sample  BY <1>3, <1>4
    <2> QED BY <2>1 DEF Walked, ToSet
  <1>6. Len(offered) \in Nat /\ DOMAIN offered = 1 .. Len(offered)
    BY SampledRepos, LenProperties
  <1>7. \A n \in DOMAIN offered : offered[n].repo \in ToSet(sample)
    <2> SUFFICES ASSUME NEW n \in DOMAIN offered
                 PROVE  offered[n].repo \in ToSet(sample)
      OBVIOUS
    <2>1. n \in 1 .. Len(OpportunityOrder(sample))  BY <1>6 DEF Sampled
    <2>2. TurnOrder(sample)[n] \in TurnsOf(sample)
          /\ offered[n].repo = sample[TurnOrder(sample)[n][2]]
      BY <2>1, OfferedFiles DEF Sampled
    <2>3. TurnOrder(sample)[n][2] \in DOMAIN sample  BY <2>2 DEF TurnsOf
    <2> QED BY <2>2, <2>3 DEF ToSet
  <1>8. DOMAIN offered = Places \cup Missed /\ Places \cap Missed = {}
    BY <1>5, <1>7 DEF Places, Missed
  <1>9. Len(offered) = Cardinality(Places) + Cardinality(Missed)
    <2>1. IsFiniteSet(Places) /\ IsFiniteSet(Missed)  BY SampledRepos, SelectedFiles, MissedFinite
    <2>2. Cardinality(Places \cup Missed)
            = Cardinality(Places) + Cardinality(Missed) - Cardinality(Places \cap Missed)
      BY <2>1, FS_Union
    <2>3. Cardinality(Places \cap Missed) = 0  BY <1>8, FS_EmptySet
    <2>4. Cardinality(Places \cup Missed) = Len(offered)
      <3>0. Len(offered) \in Int /\ 1 \in Int  BY <1>6
      <3>1. Cardinality(1 .. Len(offered)) = Len(offered)
        <4>1. Cardinality(1 .. Len(offered))
                = IF 1 > Len(offered) THEN 0 ELSE Len(offered) - 1 + 1
          BY <3>0, FS_Interval
        <4> QED BY <1>6, <4>1
      <3>2. Places \cup Missed = 1 .. Len(offered)  BY <1>6, <1>8
      <3> QED BY <3>1, <3>2
    <2>5. Cardinality(Places) \in Nat /\ Cardinality(Missed) \in Nat
      BY <2>1, FS_CardinalityType
    <2> QED BY <2>2, <2>3, <2>4, <2>5
  <1>10. Len(Selected) = Cardinality(Places) /\ Len(Selected) \in Nat
    BY SampledRepos, SelectedFiles
  <1>11. ToldBy(limitations) \in Nat /\ Cardinality(Missed) \in Nat
    BY ToldInNat, MissedFinite DEF Gathered
  <1>12. Selected' = Selected  BY <1>1 DEF Selected
  <1>13. Len(files') = 0  BY <1>1, <1>2, EmptySeq
  <1>14. Len(offered') - Len(Selected') + (at' - 1 - Len(files')) <= ToldBy(limitations')
    BY <1>1, <1>2, <1>9, <1>10, <1>11, <1>12, <1>13
  <1>15. Len(files') <= at' - 1 /\ at' - 1 <= Len(Selected')
    BY <1>1, <1>10, <1>12, <1>13
  <1>16. limitations' = <<>> => confirmed' = ToSet(sample')  BY <1>1, <1>2, <1>5
  <1>17. Reading'  BY <1>14, <1>15, <1>16 DEF Reading
  <1>18. Confirming' /\ Complete'  BY <1>1 DEF Confirming, Complete
  <1> QED BY <1>17, <1>18 DEF Progress

LEMMA ReadBlobProgress ==
  ASSUME Counters, Wired, Sampled, Gathered, Progress, ReadBlob
  PROVE  Progress'
  <1> DEFINE f == Selected[at]
  <1>1. stage = "blobs" /\ at <= Len(Selected)
        /\ UNCHANGED <<caps, sample, offered, confirmed>>
    BY ReadBlobCases
  <1>2. Len(files) <= at - 1 /\ at - 1 <= Len(Selected)
        /\ Len(offered) - Len(Selected) + (at - 1 - Len(files)) <= ToldBy(limitations)
        /\ (limitations = <<>> => confirmed = ToSet(sample))
    BY <1>1 DEF Progress, Reading
  <1>3. Len(files) \in Nat /\ at \in Nat \ {0}  BY LenProperties DEF Gathered
  <1>4. Len(Selected) \in Nat /\ Len(offered) \in Nat /\ Len(Selected) <= Len(offered)
    BY SampledRepos
  <1>5. ToldBy(limitations) \in Nat  BY ToldInNat DEF Gathered
  <1>6. Selected' = Selected  BY <1>1 DEF Selected
  <1>7. CASE Drops(1) /\ at' = at + 1 /\ UNCHANGED <<stage, files>>
    <2>1. ToldBy(limitations') = ToldBy(limitations) + 1 /\ limitations' # <<>>
      BY <1>7, ToldMore DEF Drops
    <2>2. Len(files') <= at' - 1 /\ at' - 1 <= Len(Selected')
      BY <1>1, <1>2, <1>3, <1>4, <1>6, <1>7
    <2>3. Len(offered') - Len(Selected') + (at' - 1 - Len(files')) <= ToldBy(limitations')
      BY <1>1, <1>2, <1>3, <1>4, <1>5, <1>6, <1>7, <2>1
    <2>4. Reading'  BY <2>1, <2>2, <2>3 DEF Reading
    <2>5. stage' = "blobs"  BY <1>1, <1>7
    <2>6. Confirming' /\ Complete'  BY <2>5 DEF Confirming, Complete
    <2> QED BY <2>4, <2>6 DEF Progress
  <1>8. CASE Drops(RestOfSelected) /\ stage' = "attribution" /\ UNCHANGED files
    <2>1. RestOfSelected = Len(Selected) - Len(files) /\ RestOfSelected \in Nat
      BY <1>2, <1>3, <1>4 DEF RestOfSelected
    <2>2. ToldBy(limitations') = ToldBy(limitations) + RestOfSelected /\ limitations' # <<>>
      BY <1>8, <2>1, ToldMore DEF Drops
    <2>3. Len(files') <= Len(offered')  BY <1>1, <1>2, <1>3, <1>4, <1>8
    <2>4. Len(offered') - Len(files') <= ToldBy(limitations')
      BY <1>1, <1>2, <1>3, <1>4, <1>5, <1>8, <2>1, <2>2
    <2>5. Complete'  BY <1>8, <2>2, <2>3, <2>4 DEF Complete
    <2>6. Confirming' /\ Reading'  BY <1>8 DEF Confirming, Reading
    <2> QED BY <2>5, <2>6 DEF Progress
  <1>9. CASE /\ files' = Append(files, [blob |-> f, status |-> "not-checked"])
             /\ at' = at + 1 /\ NoLimit /\ UNCHANGED stage
    <2>1. Len(files') = Len(files) + 1
      <3>1. at \in 1 .. Len(Selected)  BY <1>1, <1>3, <1>4
      <3>2. f \in Blobs  BY <3>1, SampledRepos
      <3> DEFINE x == [blob |-> f, status |-> "not-checked"]
      <3>3. x \in Read  BY <3>2 DEF Read
      <3> HIDE DEF x
      <3>4. files' = Append(files, x)  BY <1>9 DEF x
      <3> QED BY <3>3, <3>4, AppendProperties DEF Gathered
    <2>2. limitations' = limitations /\ at' = at + 1 /\ stage' = "blobs"
      BY <1>1, <1>9 DEF NoLimit
    <2>3. Len(files') <= at' - 1 /\ at' - 1 <= Len(Selected')
      BY <1>1, <1>2, <1>3, <1>4, <1>6, <2>1, <2>2
    <2>4. Len(offered') - Len(Selected') + (at' - 1 - Len(files')) <= ToldBy(limitations')
      BY <1>1, <1>2, <1>3, <1>4, <1>5, <1>6, <2>1, <2>2
    <2>5. limitations' = <<>> => confirmed' = ToSet(sample')  BY <1>1, <1>2, <2>2
    <2>6. Reading'  BY <2>3, <2>4, <2>5 DEF Reading
    <2>7. Confirming' /\ Complete'  BY <2>2 DEF Confirming, Complete
    <2> QED BY <2>6, <2>7 DEF Progress
  <1> QED BY <1>7, <1>8, <1>9, ReadBlobCases

LEMMA EndBlobsProgress ==
  ASSUME Counters, Wired, Sampled, Gathered, Progress, EndBlobs
  PROVE  Progress'
  <1>1. stage = "blobs" /\ stage' = "attribution"
        /\ UNCHANGED <<caps, sample, offered, confirmed, files>>
    BY EndBlobsCases
  <1>2. Len(files) <= at - 1 /\ at - 1 <= Len(Selected)
        /\ Len(offered) - Len(Selected) + (at - 1 - Len(files)) <= ToldBy(limitations)
        /\ (limitations = <<>> => confirmed = ToSet(sample))
    BY <1>1 DEF Progress, Reading
  <1>3. Len(files) \in Nat /\ at \in Nat \ {0}  BY LenProperties DEF Gathered
  <1>4. Len(Selected) \in Nat /\ Len(offered) \in Nat /\ Len(Selected) <= Len(offered)
        /\ Len(offered) <= MaxFiles
    BY SampledRepos
  <1>5. ToldBy(limitations) \in Nat  BY ToldInNat DEF Gathered
  <1>6. Len(files') <= Len(offered')  BY <1>1, <1>2, <1>3, <1>4
  <1>7. Confirming' /\ Reading'  BY <1>1 DEF Confirming, Reading
  <1>8. CASE NoLimit /\ (at > Len(Selected) \/ BlobsFull)
    <2>1. limitations' = limitations  BY <1>8 DEF NoLimit
    <2>2. \/ Len(offered') - Len(files') <= ToldBy(limitations')
          \/ BytesOf(files') = MaxTotalBytes
      <3>1. CASE at > Len(Selected)  BY <1>1, <1>2, <1>3, <1>4, <1>5, <2>1, <3>1
      <3>2. CASE Len(files) >= MaxFiles
        BY <1>1, <1>2, <1>3, <1>4, <1>5, <2>1, <3>2, QualityAssumption
      <3>3. CASE BytesOf(files) >= MaxTotalBytes
        <4>1. BytesOf(files) \in Nat /\ BytesOf(files) <= MaxTotalBytes
          BY BytesInNat DEF Gathered
        <4>2. BytesOf(files) = MaxTotalBytes  BY <3>3, <4>1, QualityAssumption
        <4> QED BY <1>1, <4>2
      <3> QED BY <1>8, <3>1, <3>2, <3>3 DEF BlobsFull
    <2>3. limitations' = <<>> => confirmed' = ToSet(sample')  BY <1>1, <1>2, <2>1
    <2>4. Complete'  BY <1>1, <1>6, <2>2, <2>3 DEF Complete
    <2> QED BY <1>7, <2>4 DEF Progress
  <1>9. CASE Drops(RestOfSelected)
    <2>1. RestOfSelected = Len(Selected) - Len(files) /\ RestOfSelected \in Nat
      BY <1>2, <1>3, <1>4 DEF RestOfSelected
    <2>2. ToldBy(limitations') = ToldBy(limitations) + RestOfSelected /\ limitations' # <<>>
      BY <1>9, <2>1, ToldMore DEF Drops
    <2>3. Len(offered') - Len(files') <= ToldBy(limitations')
      BY <1>1, <1>2, <1>3, <1>4, <1>5, <2>1, <2>2
    <2>4. Complete'  BY <1>1, <1>6, <2>2, <2>3 DEF Complete
    <2> QED BY <1>7, <2>4 DEF Progress
  <1> QED BY <1>8, <1>9, EndBlobsCases

LEMMA AttributeProgress ==
  ASSUME Counters, Wired, Sampled, Gathered, Progress, Attribute
  PROVE  Progress'
  <1>1. stage = "attribution" /\ stage' = "attribution"
        /\ UNCHANGED <<sample, offered, confirmed, limitations>>
        /\ Len(files') = Len(files) /\ BytesOf(files') = BytesOf(files)
    BY AttributeCases DEF NoLimit
  <1>2. Complete'  BY <1>1 DEF Progress, Complete
  <1>3. Confirming' /\ Reading'  BY <1>1 DEF Confirming, Reading
  <1> QED BY <1>2, <1>3 DEF Progress

LEMMA CloseProgress ==
  ASSUME Counters, Wired, Sampled, Gathered, Progress, CloseCollection
  PROVE  Progress'
  <1>1. stage = "attribution" /\ stage' = "collected"
        /\ UNCHANGED <<sample, offered, confirmed, files>>
    BY Zenon DEF CloseCollection
  <1>2. Confirming' /\ Reading'  BY <1>1 DEF Confirming, Reading
  <1>3. /\ Len(files) <= Len(offered)
        /\ \/ Len(offered) - Len(files) <= ToldBy(limitations)
           \/ BytesOf(files) = MaxTotalBytes
        /\ (limitations = <<>> => confirmed = ToSet(sample))
    BY <1>1 DEF Progress, Complete
  <1>4. CASE Unchecked = {} /\ NoLimit
    <2>1. limitations' = limitations /\ Unchecked' = {}
      BY <1>1, <1>4 DEF NoLimit, Unchecked
    <2>2. Complete'  BY <1>1, <1>3, <2>1 DEF Complete
    <2> QED BY <1>2, <2>2 DEF Progress
  <1>5. CASE Limit("attribution-budget", Cardinality(Unchecked))
    <2> DEFINE x == [code |-> "attribution-budget", files |-> Cardinality(Unchecked)]
    <2>1. x \in Limits /\ CountOf(x) = 0  BY UncheckedFinite DEF Limits, CountOf
    <2>2. limitations' = Append(limitations, x)  BY <1>5 DEF Limit
    <2> HIDE DEF x
    <2>3. ToldBy(limitations') = ToldBy(limitations)
      <3>1. ToldBy(limitations) \in Nat  BY ToldInNat DEF Gathered
      <3>2. ToldBy(limitations') = ToldBy(limitations) + 0
        BY <2>1, <2>2, ToldAppend DEF Gathered
      <3> QED BY <3>1, <3>2
    <2>4. limitations' # <<>>
      <3>1. Len(limitations) \in Nat /\ Len(limitations') = Len(limitations) + 1
            /\ limitations' \in Seq(Limits)
        BY <2>1, <2>2, AppendProperties, LenProperties DEF Gathered
      <3> QED BY <3>1, EmptySeq
    <2>5. Complete'  BY <1>1, <1>3, <2>3, <2>4 DEF Complete
    <2> QED BY <1>2, <2>5 DEF Progress
  <1> QED BY <1>4, <1>5, Zenon DEF CloseCollection

-----------------------------------------------------------------------------
(* The run around the collection *)

LEMMA CollectKeeps ==
  ASSUME Counters, Wired, Sampled, Gathered, Progress, CollectStep
  PROVE  Counters' /\ Wired' /\ Sampled' /\ Gathered' /\ Progress'
  <1>1. CASE ConfirmRevision  BY <1>1, ConfirmTyped, ConfirmProgress
  <1>2. CASE EndRevisions  BY <1>2, EndRevisionsTyped, EndRevisionsProgress
  <1>3. stage = "blobs" => Len(files) <= Len(Selected)
    <2>1. Len(files) \in Nat /\ at \in Nat \ {0} /\ Len(Selected) \in Nat
      BY LenProperties, SampledRepos DEF Gathered
    <2> QED BY <2>1 DEF Progress, Reading
  <1>4. CASE ReadBlob  BY <1>3, <1>4, ReadBlobCases, ReadBlobTyped, ReadBlobProgress
  <1>5. CASE EndBlobs  BY <1>3, <1>5, EndBlobsCases, EndBlobsTyped, EndBlobsProgress
  <1>6. CASE Attribute  BY <1>6, AttributeTyped, AttributeProgress
  <1>7. CASE CloseCollection  BY <1>7, CloseTyped, CloseProgress
  <1> QED BY <1>1, <1>2, <1>4, <1>5, <1>6, <1>7 DEF CollectStep

CollectionRests ==
    UNCHANGED <<stage, caps, sample, offered, confirmed, at, files, limitations, used>>

LEMMA RestKeeps ==
  ASSUME Counters, Sampled, Gathered, Progress, CollectionRests
  PROVE  Counters' /\ Sampled' /\ Gathered' /\ Progress'
  <1> USE DEF CollectionRests
  <1>1. Counters' /\ Sampled' /\ Gathered'  BY DEF Counters, Sampled, Gathered
  <1>2. Walked' = Walked /\ Missed' = Missed  BY DEF Walked, Missed
  <1>3. Selected' = Selected /\ Unchecked' = Unchecked  BY DEF Selected, Unchecked
  <1>4. Confirming'  BY <1>2 DEF Progress, Confirming
  <1>5. Reading'  BY <1>3 DEF Progress, Reading
  <1>6. Complete'  BY <1>3 DEF Progress, Complete
  <1> QED BY <1>1, <1>4, <1>5, <1>6 DEF Progress

LEMMA PageTyped ==
  ASSUME Surveyed, page.installation <= Len(Listing)
  PROVE  ToSet(PageOf(page)) \in SUBSET Repos
  <1> DEFINE all == Listing[page.installation]
             first == (page.number - 1) * PageSize + 1
             last == page.number * PageSize
             end == IF last < Len(all) THEN last ELSE Len(all)
  <1>1. page.installation \in 1 .. Len(Listing) /\ page.number \in Nat \ {0}
    <2>1. Len(Listing) \in Nat  BY PrivateAssumption, LenProperties
    <2> QED BY <2>1 DEF Surveyed
  <1>2. all \in Seq(Repos)  BY <1>1, PrivateAssumption, ElementOfSeq
  <1>3. PageSize \in Nat  BY PrivateAssumption
  <1>4. first \in Nat /\ first >= 1 /\ last \in Nat
    <2>1. page.number - 1 \in Nat /\ page.number \in Nat  BY <1>1
    <2>2. \A m, n \in Nat : m * n \in Nat  OBVIOUS
    <2>3. (page.number - 1) * PageSize \in Nat /\ last \in Nat  BY <1>3, <2>1, <2>2
    <2> QED BY <2>3
  <1>5. Len(all) \in Nat  BY <1>2, LenProperties
  <1> HIDE DEF all, first, last
  <1>6. end \in Nat /\ end <= Len(all)  BY <1>4, <1>5
  <1>7. PageOf(page) = SubSeq(all, first, end)  BY DEF PageOf, all, first, last
  <1> HIDE DEF end
  <1>8. \A i \in first .. end : all[i] \in Repos
    <2>1. \A i \in first .. end : i \in 1 .. Len(all)  BY <1>4, <1>5, <1>6
    <2> QED BY <1>2, <2>1, ElementOfSeq
  <1>9. PageOf(page) \in Seq(Repos)  BY <1>4, <1>6, <1>7, <1>8, SubSeqProperties
  <1>10. \A i \in DOMAIN PageOf(page) : PageOf(page)[i] \in Repos
    BY <1>9, LenProperties, ElementOfSeq
  <1> QED BY <1>10 DEF ToSet

LEMMA RankedRepos ==
  ASSUME found \in SUBSET Repos
  PROVE  Ascending(found) \in Seq(Repos)
  <1>1. found \in SUBSET Nat /\ IsFiniteSet(found)  BY PrivateAssumption, FS_Subset
  <1>2. Cardinality(found) \in Nat /\ Ascending(found) \in [1 .. Cardinality(found) -> found]
    BY <1>1, AscendingLists DEF Lists
  <1>3. Ascending(found) \in Seq(found)  BY <1>2, FunctionIsSeq
  <1> QED BY <1>3, SeqMonotonic

LEMMA ConsideredRepos ==
  ASSUME found \in SUBSET Repos, Consider
  PROVE  /\ considered' \in Seq(Repos)
         /\ \/ told' = told /\ considered' = Ascending(found)
            \/ told' = Append(told, "repository-limit")
  <1> DEFINE ranked == Ascending(found)
  <1>1. ranked \in Seq(Repos) /\ Len(ranked) \in Nat  BY RankedRepos, LenProperties
  <1>2. CASE Len(ranked) > MaxConsidered
    <2>1. considered' = SubSeq(ranked, 1, MaxConsidered)
          /\ told' = Append(told, "repository-limit")
      BY <1>2 DEF Consider, Tell
    <2>2. MaxConsidered \in Nat  BY PrivateAssumption
    <2>3. \A i \in 1 .. MaxConsidered : ranked[i] \in Repos
      <3>1. \A i \in 1 .. MaxConsidered : i \in 1 .. Len(ranked)  BY <1>1, <1>2, <2>2
      <3> QED BY <1>1, <3>1, ElementOfSeq
    <2>4. SubSeq(ranked, 1, MaxConsidered) \in Seq(Repos)
      <3> HIDE DEF ranked
      <3> QED BY <2>2, <2>3, SubSeqProperties
    <2> QED BY <2>1, <2>4
  <1>3. CASE ~(Len(ranked) > MaxConsidered)  BY <1>1, <1>3 DEF Consider
  <1> QED BY <1>2, <1>3

\* Requests of the run itself leave the collection and its caps alone.
OwnRequest(r) ==
    /\ \E answered \in BOOLEAN : Request(r, answered)
    /\ CollectionRests

LEMMA OwnRequestKeeps ==
  ASSUME PrivateInv, Progress, NEW r \in Repos \cup {0}, OwnRequest(r), Surveyed'
  PROVE  PrivateInv' /\ Progress'
  <1>1. Wired'  BY RequestCounts DEF PrivateInv, OwnRequest
  <1>2. Counters' /\ Sampled' /\ Gathered' /\ Progress'
    BY RestKeeps DEF PrivateInv, OwnRequest
  <1> QED BY <1>1, <1>2 DEF PrivateInv

LEMMA PrivateNextInv ==
  PrivateInv /\ Progress /\ [PrivateNext]_vars => PrivateInv' /\ Progress'
  <1> SUFFICES ASSUME PrivateInv, Progress, [PrivateNext]_vars
               PROVE  PrivateInv' /\ Progress'
    OBVIOUS
  <1>0. Counters /\ Wired /\ Sampled /\ Gathered /\ Surveyed  BY DEF PrivateInv
  <1>a. pc \in {"revision", "tree", "releases"} /\ Looking => considered[turn] \in Repos
    <2> SUFFICES ASSUME Looking PROVE considered[turn] \in Repos  OBVIOUS
    <2>1. considered \in Seq(Repos) /\ turn \in Nat \ {0} /\ turn <= Len(considered)
      BY <1>0 DEF Surveyed, Looking
    <2>2. turn \in 1 .. Len(considered)  BY <2>1, LenProperties
    <2> QED BY <2>1, <2>2, ElementOfSeq
  <1>b. ASSUME CollectionRests, wire' = wire, Surveyed'
        PROVE  PrivateInv' /\ Progress'
    <2>1. Wired'  BY <1>0, <1>b DEF Wired
    <2> QED BY <1>0, <1>b, <2>1, RestKeeps DEF PrivateInv
  <1>1. CASE Authorize
    <2>1. CollectionRests /\ wire' = wire
          /\ UNCHANGED <<page, found, considered, inspected, turn>>
          /\ pc' \in {"start", "ended"}
      BY <1>1, Zenon DEF Authorize, qualityVars, CollectionRests
    <2>2. Surveyed'  BY <1>0, <2>1 DEF Surveyed
    <2> QED BY <1>b, <2>1, <2>2
  <1>2. CASE StartRun
    <2>1. CollectionRests /\ wire' = [total |-> 0, repo |-> [r \in Repos |-> 0]]
      BY <1>2, Zenon DEF StartRun, CollectionRests
    <2>2. Wired'  BY <2>1, QualityAssumption DEF Wired, Wires
    <2>3. Surveyed'
      <3>1. page' = [installation |-> 1, number |-> 1] /\ found' = {}
            /\ considered' = <<>> /\ inspected' = <<>> /\ turn' = 1 /\ pc' = "user"
        BY <1>2 DEF StartRun
      <3>2. <<>> \in Seq(Repos)  BY EmptySeq
      <3> QED BY <3>1, <3>2 DEF Surveyed
    <2> QED BY <1>0, <2>1, <2>2, <2>3, RestKeeps DEF PrivateInv
  <1>3. CASE Returned
    <2>1. CollectionRests /\ wire' = wire
          /\ UNCHANGED <<page, found, considered, inspected, turn>>
          /\ pc' \in {"prompt", "ended"}
      BY <1>3, Zenon DEF Returned, qualityVars, CollectionRests
    <2>2. Surveyed'  BY <1>0, <2>1 DEF Surveyed
    <2> QED BY <1>b, <2>1, <2>2
  <1>4. CASE AskUser
    <2>1. OwnRequest(0)
      BY <1>4, Zenon DEF AskUser, OwnRequest, CollectionRests
    <2>2. UNCHANGED <<page, found, considered, inspected, turn>>
          /\ pc' \in {"returned", "installations"}
      BY <1>4, Zenon DEF AskUser, Return
    <2>3. Surveyed'  BY <1>0, <2>2 DEF Surveyed
    <2> QED BY <2>1, <2>3, OwnRequestKeeps
  <1>5. CASE AskInstallations
    <2>1. OwnRequest(0)
      BY <1>5, Zenon DEF AskInstallations, OwnRequest, CollectionRests
    <2>2. UNCHANGED <<page, found, considered, inspected, turn>>
          /\ pc' \in {"returned", "list"}
      BY <1>5, Zenon DEF AskInstallations, Return
    <2>3. Surveyed'  BY <1>0, <2>2 DEF Surveyed
    <2> QED BY <2>1, <2>3, OwnRequestKeeps
  <1>6. CASE ListPage
    <2>1. OwnRequest(0)
      BY <1>6, Zenon DEF ListPage, OwnRequest, CollectionRests
    <2>2. UNCHANGED <<pc, considered, inspected, turn>> /\ pc = "list"
          /\ page.installation <= Len(Listing)
      BY <1>6 DEF ListPage
    <2>3. found' = found \/ found' = found \cup ToSet(PageOf(page))
      BY <1>6, Zenon DEF ListPage
    <2>4. found' \in SUBSET Repos
      <3>1. ToSet(PageOf(page)) \in SUBSET Repos  BY <1>0, <2>2, PageTyped
      <3>2. found \in SUBSET Repos  BY <1>0 DEF Surveyed
      <3> QED BY <2>3, <3>1, <3>2
    <2>5. page' = NextInstallation \/ page' = [page EXCEPT !.number = @ + 1]
      BY <1>6 DEF ListPage
    <2>6. page' \in [installation : Nat \ {0}, number : Nat \ {0}]
      <3>1. page \in [installation : Nat \ {0}, number : Nat \ {0}]  BY <1>0 DEF Surveyed
      <3>2. NextInstallation \in [installation : Nat \ {0}, number : Nat \ {0}]
        BY <3>1 DEF NextInstallation
      <3>3. [page EXCEPT !.number = @ + 1] \in [installation : Nat \ {0}, number : Nat \ {0}]
        BY <3>1
      <3> QED BY <2>5, <3>2, <3>3
    <2>7. Surveyed'  BY <1>0, <2>2, <2>4, <2>6 DEF Surveyed
    <2> QED BY <2>1, <2>7, OwnRequestKeeps
  <1>7. CASE Consider
    <2>1. CollectionRests /\ wire' = wire
          /\ UNCHANGED <<page, found, inspected, turn>> /\ pc' = "revision"
      BY <1>7, Zenon DEF Consider, qualityVars, CollectionRests
    <2>2. found \in SUBSET Repos  BY <1>0 DEF Surveyed
    <2>3. considered' \in Seq(Repos)  BY <1>7, <2>2, ConsideredRepos
    <2>4. Surveyed'  BY <1>0, <2>1, <2>3 DEF Surveyed
    <2> QED BY <1>b, <2>1, <2>4
  <1>8. CASE AskRevision
    <2>1. OwnRequest(considered[turn])
      BY <1>8, Zenon DEF AskRevision, OwnRequest, CollectionRests
    <2>2. UNCHANGED <<page, found, considered, inspected>> /\ pc = "revision" /\ Looking
          /\ \/ turn' = turn + 1 /\ pc' = "revision"
             \/ turn' = turn /\ pc' = "tree"
      BY <1>8, Zenon DEF AskRevision, SkipRepository
    <2>3. Surveyed'  BY <1>0, <2>2 DEF Surveyed, Looking
    <2> QED BY <1>a, <2>1, <2>2, <2>3, OwnRequestKeeps
  <1>9. CASE AskTree
    <2>1. OwnRequest(considered[turn])
      BY <1>9, Zenon DEF AskTree, OwnRequest, CollectionRests
    <2>2. UNCHANGED <<page, found, considered, inspected>> /\ pc = "tree"
          /\ \/ turn' = turn + 1 /\ pc' = "revision"
             \/ turn' = turn /\ pc' = "releases"
      BY <1>9, Zenon DEF AskTree, SkipRepository
    <2>3. Looking  BY <1>0, <2>2 DEF Surveyed
    <2>4. Surveyed'  BY <1>0, <2>2, <2>3 DEF Surveyed, Looking
    <2> QED BY <1>a, <2>1, <2>2, <2>3, <2>4, OwnRequestKeeps
  <1>10. CASE AskReleases
    <2>1. OwnRequest(considered[turn])
      BY <1>10, Zenon DEF AskReleases, OwnRequest, CollectionRests
    <2>2. UNCHANGED <<page, found, considered>> /\ pc = "releases"
          /\ inspected' = Append(inspected, considered[turn])
          /\ turn' = turn + 1 /\ pc' = "revision"
      BY <1>10 DEF AskReleases
    <2>3. Looking  BY <1>0, <2>2 DEF Surveyed
    <2>4. considered[turn] \in Repos  BY <1>a, <2>2, <2>3
    <2>5. inspected' \in Seq(Repos)  BY <1>0, <2>2, <2>4, AppendProperties DEF Surveyed
    <2>6. Surveyed'  BY <1>0, <2>2, <2>5 DEF Surveyed
    <2> QED BY <2>1, <2>4, <2>6, OwnRequestKeeps
  <1>11. CASE StartCollection
    <2>1. PICK rs \in SetToSeqs(ToSet(inspected) \intersect Pushed) :
                 BeginQuality(rs, PrivateCaps, TRUE)
      BY <1>11, Zenon DEF StartCollection
    <2>2. PrivateCaps \in PublicCaps \union {PrivateCaps}  OBVIOUS
    <2>3. Counters' /\ Sampled' /\ Gathered'  BY <2>1, <2>2, BeginTyped
    <2>4. Progress'  BY <2>1, <2>2, <2>3, BeginProgress
    <2>5. UNCHANGED <<wire, page, found, considered, inspected, turn>> /\ pc' = "collect"
      BY <1>11 DEF StartCollection
    <2>6. Surveyed' /\ Wired'  BY <1>0, <2>5 DEF Surveyed, Wired
    <2> QED BY <2>3, <2>4, <2>6 DEF PrivateInv
  <1>12. CASE StartPublic
    <2>1. PICK rs \in SetToSeqs(Pushed), cap \in PublicCaps : BeginQuality(rs, cap, FALSE)
      BY <1>12, Zenon DEF StartPublic
    <2>2. cap \in PublicCaps \union {PrivateCaps}  OBVIOUS
    <2>3. Counters' /\ Sampled' /\ Gathered'  BY <2>1, <2>2, BeginTyped
    <2>4. Progress'  BY <2>1, <2>2, <2>3, BeginProgress
    <2>5. UNCHANGED <<wire, page, found, considered, inspected, turn>> /\ pc' = "collect"
      BY <1>12 DEF StartPublic
    <2>6. Surveyed' /\ Wired'  BY <1>0, <2>5 DEF Surveyed, Wired
    <2> QED BY <2>3, <2>4, <2>6 DEF PrivateInv
  <1>13. CASE Collect
    <2>1. CollectStep /\ UNCHANGED <<pc, page, found, considered, inspected, turn>>
          /\ pc = "collect"
      BY <1>13 DEF Collect
    <2>2. Counters' /\ Wired' /\ Sampled' /\ Gathered' /\ Progress'
      BY <1>0, <2>1, CollectKeeps
    <2>3. Surveyed'  BY <1>0, <2>1 DEF Surveyed
    <2> QED BY <2>2, <2>3 DEF PrivateInv
  <1>14. CASE FinishPrivate
    <2>1. CollectionRests /\ wire' = wire
          /\ UNCHANGED <<page, found, considered, inspected, turn>>
          /\ pc' = "returned"
      BY <1>14, Zenon DEF FinishPrivate, Return, qualityVars, CollectionRests
    <2>2. Surveyed'  BY <1>0, <2>1 DEF Surveyed
    <2> QED BY <1>b, <2>1, <2>2
  <1>15. CASE FinishPublic
    <2>1. CollectionRests /\ wire' = wire
          /\ UNCHANGED <<page, found, considered, inspected, turn>>
          /\ pc' = "ended"
      BY <1>15, Zenon DEF FinishPublic, qualityVars, CollectionRests
    <2>2. Surveyed'  BY <1>0, <2>1 DEF Surveyed
    <2> QED BY <1>b, <2>1, <2>2
  <1>16. CASE Answer
    <2>1. CollectionRests /\ wire' = wire
          /\ UNCHANGED <<page, found, considered, inspected, turn>>
          /\ pc' \in {"start", "ended"}
      BY <1>16, Zenon DEF Answer, qualityVars, CollectionRests
    <2>2. Surveyed'  BY <1>0, <2>1 DEF Surveyed
    <2> QED BY <1>b, <2>1, <2>2
  <1>17. CASE UNCHANGED vars
    <2>1. CollectionRests /\ wire' = wire
          /\ UNCHANGED <<page, found, considered, inspected, turn, pc>>
      BY <1>17, Zenon DEF vars, qualityVars, privateVars, CollectionRests
    <2>2. Surveyed'  BY <1>0, <2>1 DEF Surveyed, Looking
    <2> QED BY <1>b, <2>1, <2>2
  <1> QED BY <1>1, <1>2, <1>3, <1>4, <1>5, <1>6, <1>7, <1>8, <1>9, <1>10, <1>11, <1>12,
             <1>13, <1>14, <1>15, <1>16, <1>17 DEF PrivateNext, Step

LEMMA PrivateInductive == PrivateSpec => [](PrivateInv /\ Progress)
  <1>1. PrivateInit => PrivateInv /\ Progress
    <2>1. PrivateInit => Progress
      BY DEF PrivateInit, QualityInit, Progress, Confirming, Reading, Complete
    <2> QED BY <2>1, PrivateInitInv
  <1> QED BY <1>1, PrivateNextInv, PTL DEF PrivateSpec

\* Every variable has its type, the sample is at most MaxSampled different
\* repositories, and what is offered is always OpportunityOrder of the sample.
THEOREM PrivateTyped == PrivateSpec => []PrivateInv
  BY PrivateInductive, PTL

\* No request cap, byte ceiling or counter of boundedFetch is passed, whatever
\* fails and however often a run is repeated (run.ts, quality-source.ts).
THEOREM CeilingsHold == PrivateSpec => []WithinCeilings
  <1>1. PrivateInv => WithinCeilings
    <2> SUFFICES ASSUME PrivateInv PROVE WithinCeilings  OBVIOUS
    <2>1. DOMAIN used = {"source", "attribution"}
          /\ used.source <= caps.source /\ used.attribution <= caps.attribution
      BY DEF PrivateInv, Counters, Clients
    <2>2. Len(files) <= MaxFiles /\ BytesOf(files) <= MaxTotalBytes
      BY DEF PrivateInv, Gathered
    <2>3. wire.total <= MaxRequests /\ \A r \in Repos : wire.repo[r] <= MaxPerRepository
      BY DEF PrivateInv, Wired
    <2>4. \A c \in DOMAIN used : used[c] <= caps[c]  BY <2>1
    <2> QED BY <2>2, <2>3, <2>4 DEF WithinCeilings
  <1> QED BY <1>1, PrivateInductive, PTL

\* Every file offered and not read is counted by a limitation, unless the byte
\* ceiling is met to the last byte (collectQualitySource, quality-source.ts).
THEOREM LossesAreTold == PrivateSpec => []LossIsTold
  <1>1. Progress => LossIsTold  BY TotalToldBy DEF Progress, Complete, LossIsTold
  <1> QED BY <1>1, PrivateInductive, PTL

\* No repository of a sample is two files ahead of one whose next file was left
\* out by the limit (opportunityOrder, quality-source.ts).
THEOREM SamplesAreFair == PrivateSpec => []FairSample
  <1>1. PrivateInv => FairSample
    <2> DEFINE taken(r) == Cardinality({n \in DOMAIN offered : offered[n].repo = r})
    <2> SUFFICES ASSUME PrivateInv, NEW r \in ToSet(sample), NEW s \in ToSet(sample),
                        taken(s) < Len(Stratified[s])
                 PROVE  taken(r) <= taken(s) + 1
      BY Zenon DEF FairSample
    <2>1. sample \in Seq(Repos) /\ Injective(sample) /\ offered = OpportunityOrder(sample)
      BY DEF PrivateInv, Sampled
    <2>2. DOMAIN offered = 1 .. Len(OpportunityOrder(sample))
      BY <2>1, OfferedFiles, LenProperties
    <2>3. PICK i \in DOMAIN sample, j \in DOMAIN sample : r = sample[i] /\ s = sample[j]
      BY DEF ToSet
    <2> DEFINE C == {n \in 1 .. Len(OpportunityOrder(sample)) :
                       OpportunityOrder(sample)[n].repo = sample[i]}
               D == {n \in 1 .. Len(OpportunityOrder(sample)) :
                       OpportunityOrder(sample)[n].repo = sample[j]}
    <2>4. taken(r) = Cardinality(C) /\ taken(s) = Cardinality(D)  BY <2>1, <2>2, <2>3
    <2>5. Cardinality(D) < Len(Stratified[sample[j]])  BY <2>3, <2>4
    <2>6. Cardinality(C) <= Cardinality(D) + 1  BY <2>1, <2>5, TurnsAreFair
    <2> QED BY <2>4, <2>6
  <1> QED BY <1>1, PrivateInductive, PTL

-----------------------------------------------------------------------------
(* What "ready" means *)

\* Nothing was told about the repositories before turn n: all of them were
\* inspected, and all that were found are considered.
SoFarInspected ==
    told = <<>> =>
        /\ considered = Ascending(found) /\ Len(inspected) = turn - 1
        /\ \A i \in 1 .. turn - 1 : inspected[i] = considered[i]

Inspecting ==
    /\ told \in Seq({"repository-limit", "source-unavailable"})
    /\ pc \in {"user", "installations", "list"} =>
         told = <<>> /\ inspected = <<>> /\ turn = 1
    /\ pc \in {"revision", "tree", "releases"} =>
         turn <= Len(considered) + 1 /\ SoFarInspected
    /\ pc = "collect" /\ bounded =>
         (told = <<>> => considered = Ascending(found) /\ inspected = considered)

Answered ==
    /\ pc \notin {"returned", "prompt", "start", "ended"} => answer = "none"
    /\ ReadyMeansRead

TellTyped == told \in Seq({"repository-limit", "source-unavailable"})

LEMMA Telling ==
  ASSUME TellTyped, NEW code \in {"repository-limit", "source-unavailable"},
         told' = Append(told, code)
  PROVE  TellTyped' /\ told' # <<>>
  <1>1. told' \in Seq({"repository-limit", "source-unavailable"})
        /\ Len(told') = Len(told) + 1 /\ Len(told) \in Nat
    BY AppendProperties, LenProperties DEF TellTyped
  <1> QED BY <1>1, EmptySeq DEF TellTyped

LEMMA SkipInspecting ==
  ASSUME Surveyed, Inspecting, Looking, pc \in {"revision", "tree"}, SkipRepository,
         UNCHANGED <<found, considered, inspected>>
  PROVE  Inspecting'
  <1>1. told' = Append(told, "source-unavailable") /\ turn' = turn + 1 /\ pc' = "revision"
    BY DEF SkipRepository, Tell
  <1>2. TellTyped' /\ told' # <<>>  BY <1>1, Telling DEF Inspecting, TellTyped
  <1>3. turn' <= Len(considered') + 1
    <2>1. Len(considered) \in Nat /\ turn \in Nat /\ turn <= Len(considered)
      BY LenProperties DEF Surveyed, Looking
    <2> QED BY <1>1, <2>1
  <1> QED BY <1>1, <1>2, <1>3 DEF Inspecting, SoFarInspected, TellTyped

LEMMA InspectingStep ==
  ASSUME PrivateInv, Inspecting, [PrivateNext]_vars
  PROVE  Inspecting'
  <1>0. Surveyed /\ TellTyped  BY DEF PrivateInv, Inspecting, TellTyped
  <1>a. ASSUME told' = told,
               pc' \notin {"user", "installations", "list", "revision", "tree", "releases",
                           "collect"}
        PROVE  Inspecting'
    BY <1>0, <1>a, Zenon DEF Inspecting, TellTyped
  <1>b. ASSUME UNCHANGED <<told, inspected, turn>>, pc \in {"user", "installations", "list"},
               pc' \in {"user", "installations", "list", "returned"}
        PROVE  Inspecting'
    BY <1>0, <1>b DEF Inspecting, TellTyped
  <1>c. ASSUME UNCHANGED <<told, found, considered, inspected, turn>>,
               pc \in {"revision", "tree"}, pc' \in {"tree", "releases"}
        PROVE  Inspecting'
    BY <1>0, <1>c DEF Inspecting, SoFarInspected, TellTyped
  <1>1. CASE Authorize
    <2>1. told' = told /\ pc' \in {"start", "ended"}
      BY <1>1, Zenon DEF Authorize
    <2> QED BY <1>a, <2>1
  <1>2. CASE StartRun
    <2>1. told' = <<>> /\ inspected' = <<>> /\ turn' = 1 /\ pc' = "user"
      BY <1>2 DEF StartRun
    <2>2. <<>> \in Seq({"repository-limit", "source-unavailable"})  BY EmptySeq
    <2> QED BY <2>1, <2>2 DEF Inspecting
  <1>3. CASE Returned
    <2>1. told' = told /\ pc' \in {"prompt", "ended"}  BY <1>3, Zenon DEF Returned
    <2> QED BY <1>a, <2>1
  <1>4. CASE AskUser
    <2>1. UNCHANGED <<told, inspected, turn>> /\ pc = "user"
          /\ pc' \in {"returned", "installations"}
      BY <1>4, Zenon DEF AskUser, Return
    <2> QED BY <1>b, <2>1
  <1>5. CASE AskInstallations
    <2>1. UNCHANGED <<told, inspected, turn>> /\ pc = "installations"
          /\ pc' \in {"returned", "list"}
      BY <1>5, Zenon DEF AskInstallations, Return
    <2> QED BY <1>b, <2>1
  <1>6. CASE ListPage
    <2>1. UNCHANGED <<told, inspected, turn>> /\ pc = "list" /\ pc' = "list"
      BY <1>6 DEF ListPage
    <2> QED BY <1>b, <2>1
  <1>7. CASE Consider
    <2>1. UNCHANGED <<found, inspected, turn>> /\ pc = "list" /\ pc' = "revision"
      BY <1>7, Zenon DEF Consider
    <2>2. told = <<>> /\ inspected = <<>> /\ turn = 1  BY <2>1 DEF Inspecting
    <2>3. found \in SUBSET Repos  BY <1>0 DEF Surveyed
    <2>4. considered' \in Seq(Repos)  BY <1>7, <2>3, ConsideredRepos
    <2>5. turn' <= Len(considered') + 1  BY <2>1, <2>2, <2>4, LenProperties
    <2>6. CASE told' = told /\ considered' = Ascending(found)
      <3>1. Len(inspected') = turn' - 1 /\ 1 .. turn' - 1 = {}  BY <2>1, <2>2, EmptySeq
      <3>2. SoFarInspected'  BY <2>1, <2>6, <3>1 DEF SoFarInspected
      <3> QED BY <1>0, <2>1, <2>5, <2>6, <3>2 DEF Inspecting, TellTyped
    <2>7. CASE told' = Append(told, "repository-limit")
      <3>1. TellTyped' /\ told' # <<>>  BY <1>0, <2>7, Telling
      <3> QED BY <2>1, <2>5, <3>1 DEF Inspecting, SoFarInspected, TellTyped
    <2> QED BY <1>7, <2>3, <2>6, <2>7, ConsideredRepos
  <1>8. CASE AskRevision
    <2>1. UNCHANGED <<found, considered, inspected>> /\ pc = "revision" /\ Looking
          /\ (SkipRepository \/ (pc' = "tree" /\ UNCHANGED <<told, turn>>))
      BY <1>8, Zenon DEF AskRevision
    <2>2. CASE SkipRepository  BY <1>0, <2>1, <2>2, SkipInspecting
    <2>3. CASE pc' = "tree" /\ UNCHANGED <<told, turn>>  BY <1>c, <2>1, <2>3
    <2> QED BY <2>1, <2>2, <2>3
  <1>9. CASE AskTree
    <2>1. UNCHANGED <<found, considered, inspected>> /\ pc = "tree"
          /\ (SkipRepository \/ (pc' = "releases" /\ UNCHANGED <<told, turn>>))
      BY <1>9, Zenon DEF AskTree
    <2>2. Looking  BY <1>0, <2>1 DEF Surveyed
    <2>3. CASE SkipRepository  BY <1>0, <2>1, <2>2, <2>3, SkipInspecting
    <2>4. CASE pc' = "releases" /\ UNCHANGED <<told, turn>>  BY <1>c, <2>1, <2>4
    <2> QED BY <2>1, <2>3, <2>4
  <1>10. CASE AskReleases
    <2>1. UNCHANGED <<told, found, considered>> /\ pc = "releases"
          /\ inspected' = Append(inspected, considered[turn])
          /\ turn' = turn + 1 /\ pc' = "revision"
      BY <1>10 DEF AskReleases
    <2>2. Looking /\ considered \in Seq(Repos) /\ inspected \in Seq(Repos) /\ turn \in Nat \ {0}
      BY <1>0, <2>1 DEF Surveyed
    <2>3. Len(considered) \in Nat /\ turn <= Len(considered)
      BY <2>2, LenProperties DEF Looking
    <2>4. considered[turn] \in Repos  BY <2>2, <2>3, ElementOfSeq
    <2>5. /\ Len(inspected') = Len(inspected) + 1
          /\ inspected'[Len(inspected) + 1] = considered[turn]
          /\ \A i \in 1 .. Len(inspected) : inspected'[i] = inspected[i]
      BY <2>1, <2>2, <2>4, AppendProperties
    <2>6. turn' <= Len(considered') + 1  BY <2>1, <2>2, <2>3
    <2>7. SoFarInspected'
      <3> SUFFICES ASSUME told' = <<>> PROVE
                     /\ considered' = Ascending(found)' /\ Len(inspected') = turn' - 1
                     /\ \A i \in 1 .. turn' - 1 : inspected'[i] = considered'[i]
        BY DEF SoFarInspected
      <3>1. considered = Ascending(found) /\ Len(inspected) = turn - 1
            /\ \A i \in 1 .. turn - 1 : inspected[i] = considered[i]
        BY <2>1 DEF Inspecting, SoFarInspected
      <3>2. considered' = Ascending(found)' /\ Len(inspected') = turn' - 1
        BY <2>1, <2>2, <2>5, <3>1
      <3>3. \A i \in 1 .. turn' - 1 : inspected'[i] = considered'[i]
        <4> SUFFICES ASSUME NEW i \in 1 .. turn' - 1 PROVE inspected'[i] = considered[i]
          BY <2>1
        <4>1. i \in 1 .. turn - 1 \/ i = turn  BY <2>1, <2>2
        <4> QED BY <2>2, <2>5, <3>1, <4>1
      <3> QED BY <3>2, <3>3
    <2> QED BY <1>0, <2>1, <2>6, <2>7 DEF Inspecting, TellTyped
  <1>11. CASE StartCollection
    <2>1. UNCHANGED <<told, found, considered, inspected, turn>> /\ pc' = "collect"
          /\ pc = "revision" /\ ~Looking
      BY <1>11 DEF StartCollection
    <2>2. considered \in Seq(Repos) /\ inspected \in Seq(Repos) /\ turn \in Nat \ {0}
      BY <1>0 DEF Surveyed
    <2>3. Len(considered) \in Nat /\ turn = Len(considered) + 1
      <3>1. Len(considered) \in Nat  BY <2>2, LenProperties
      <3>2. turn <= Len(considered) + 1  BY <2>1 DEF Inspecting
      <3> QED BY <2>1, <2>2, <3>1, <3>2 DEF Looking
    <2>4. told = <<>> => considered = Ascending(found) /\ inspected = considered
      <3> SUFFICES ASSUME told = <<>>
                   PROVE  considered = Ascending(found) /\ inspected = considered
        OBVIOUS
      <3>1. considered = Ascending(found) /\ Len(inspected) = turn - 1
            /\ \A i \in 1 .. turn - 1 : inspected[i] = considered[i]
        BY <2>1 DEF Inspecting, SoFarInspected
      <3>2. Len(inspected) = Len(considered)
            /\ \A i \in 1 .. Len(inspected) : inspected[i] = considered[i]
        BY <2>2, <2>3, <3>1
      <3>3. inspected = considered  BY <2>2, <3>2, SeqEqual
      <3> QED BY <3>1, <3>3
    <2>5. Ascending(found)' = Ascending(found)  BY <2>1
    <2>6. (told = <<>> => considered = Ascending(found) /\ inspected = considered)'
      BY <2>1, <2>4, <2>5
    <2> QED BY <1>0, <2>1, <2>6 DEF Inspecting, TellTyped
  <1>12. CASE StartPublic
    <2>1. told' = told /\ pc' = "collect" /\ bounded' = FALSE
      BY <1>12 DEF StartPublic, BeginQuality
    <2> QED BY <1>0, <2>1, Zenon DEF Inspecting, TellTyped
  <1>13. CASE Collect
    <2>1. UNCHANGED <<told, found, considered, inspected, turn, pc>> /\ pc = "collect"
      BY <1>13 DEF Collect
    <2>2. UNCHANGED bounded
      BY <1>13, Zenon DEF Collect, CollectStep, ConfirmRevision, EndRevisions, ReadBlob,
         EndBlobs, Attribute, CloseCollection
    <2>3. Ascending(found)' = Ascending(found)  BY <2>1
    <2>4. (told = <<>> => considered = Ascending(found) /\ inspected = considered)
            => (told = <<>> => considered = Ascending(found) /\ inspected = considered)'
      BY <2>1, <2>3
    <2>5. (bounded => (told = <<>> => considered = Ascending(found) /\ inspected = considered))
      BY <2>1, Zenon DEF Inspecting
    <2>6. (bounded => (told = <<>> => considered = Ascending(found) /\ inspected = considered))'
      BY <2>2, <2>4, <2>5, Zenon
    <2>7. TellTyped' /\ pc' = "collect"  BY <1>0, <2>1 DEF TellTyped
    <2> QED BY <2>6, <2>7 DEF Inspecting, TellTyped
  <1>14. CASE FinishPrivate
    <2>1. told' = told /\ pc' = "returned"
      BY <1>14, Zenon DEF FinishPrivate, Return
    <2> QED BY <1>a, <2>1
  <1>15. CASE FinishPublic
    <2>1. told' = told /\ pc' = "ended"  BY <1>15, Zenon DEF FinishPublic
    <2> QED BY <1>a, <2>1
  <1>16. CASE Answer
    <2>1. told' = told /\ pc' \in {"start", "ended"}  BY <1>16, Zenon DEF Answer
    <2> QED BY <1>a, <2>1
  <1>17. CASE UNCHANGED vars
    <2>1. UNCHANGED <<told, found, considered, inspected, turn, pc, bounded>>
      BY <1>17, Zenon DEF vars, qualityVars, privateVars
    <2>2. Ascending(found)' = Ascending(found)  BY <2>1
    <2>3. SoFarInspected' = SoFarInspected  BY <2>1, <2>2 DEF SoFarInspected
    <2> QED BY <2>1, <2>2, <2>3 DEF Inspecting
  <1> QED BY <1>1, <1>2, <1>3, <1>4, <1>5, <1>6, <1>7, <1>8, <1>9, <1>10, <1>11, <1>12,
             <1>13, <1>14, <1>15, <1>16, <1>17 DEF PrivateNext, Step

\* A run returns "ready" only over a collection that told of nothing.
LEMMA ReadyIsEarned ==
  ASSUME PrivateInv, Progress, Inspecting, FinishPrivate, answer' = "ready"
  PROVE  ReadyMeansRead'
  <1>1. UNCHANGED <<qualityVars, found, considered, inspected, told>>
        /\ pc = "collect" /\ stage = "collected" /\ bounded
    BY Zenon DEF FinishPrivate
  <1>2. told = <<>> /\ limitations = <<>>
    <2>1. \E ready \in BOOLEAN : answer' = StatusOf(ready)
      BY Zenon DEF FinishPrivate, Return
    <2> QED BY <2>1 DEF StatusOf
  <1>3. considered = Ascending(found) /\ inspected = considered
    BY <1>1, <1>2, Zenon DEF Inspecting
  <1>4. /\ Len(files) <= Len(offered)
        /\ Len(offered) - Len(files) <= ToldBy(limitations) \/ BytesOf(files) = MaxTotalBytes
        /\ confirmed = ToSet(sample) /\ Unchecked = {}
    BY <1>1, <1>2 DEF Progress, Complete
  <1>5. ToldBy(limitations) = 0  BY <1>2, ToldEmpty
  <1>6. Len(files) \in Nat /\ Len(offered) \in Nat
    BY LenProperties, SampledRepos DEF PrivateInv, Gathered
  <1>7. Len(files) = Len(offered) \/ BytesOf(files) = MaxTotalBytes  BY <1>4, <1>5, <1>6
  <1>8. UNCHANGED <<files, offered, confirmed, sample>>  BY <1>1 DEF qualityVars
  <1>9. Unchecked' = {} /\ BytesOf(files)' = BytesOf(files) /\ ToSet(sample)' = ToSet(sample)
    BY <1>4, <1>8 DEF Unchecked
  <1>10. inspected' = considered' /\ considered' = Ascending(found)'
    BY <1>1, <1>3
  <1>11. confirmed' = ToSet(sample)' /\ (Len(files) = Len(offered) \/ BytesOf(files) = MaxTotalBytes)'
    BY <1>4, <1>7, <1>8
  <1> QED BY <1>9, <1>10, <1>11 DEF ReadyMeansRead

LEMMA AnsweredStep ==
  ASSUME PrivateInv, Progress, Inspecting, Answered, [PrivateNext]_vars
  PROVE  Answered'
  <1>a. ASSUME answer' = answer, answer = "none" PROVE Answered'
    BY <1>a DEF Answered, ReadyMeansRead
  <1>b. ASSUME pc' \in {"returned", "prompt", "start", "ended"},
               UNCHANGED <<qualityVars, found, considered, inspected, answer>>
        PROVE  Answered'
    <2>1. ReadyMeansRead
      BY DEF Answered
    <2>2. UNCHANGED <<files, offered, confirmed, sample>>  BY <1>b DEF qualityVars
    <2>3. ReadyMeansRead' = ReadyMeansRead
      <3>1. Unchecked' = Unchecked /\ BytesOf(files)' = BytesOf(files)
            /\ ToSet(sample)' = ToSet(sample) /\ Ascending(found)' = Ascending(found)
        BY <1>b, <2>2 DEF Unchecked
      <3> QED BY <1>b, <2>2, <3>1 DEF ReadyMeansRead
    <2> QED BY <1>b, <2>1, <2>3 DEF Answered
  <1>c. ASSUME pc' = "returned", answer' # "ready" PROVE Answered'
    BY <1>c DEF Answered, ReadyMeansRead
  <1>1. CASE Authorize
    <2>1. answer' = answer /\ pc = "authorize"  BY <1>1, Zenon DEF Authorize
    <2> QED BY <1>a, <2>1 DEF Answered
  <1>2. CASE StartRun
    <2>1. answer' = "none"  BY <1>2 DEF StartRun
    <2> QED BY <2>1 DEF Answered, ReadyMeansRead
  <1>3. CASE Returned
    <2>1. pc' \in {"prompt", "ended"}
          /\ UNCHANGED <<qualityVars, found, considered, inspected, answer>>
      BY <1>3, Zenon DEF Returned
    <2> QED BY <1>b, <2>1
  <1>4. CASE AskUser
    <2>1. pc = "user" /\ \/ answer' = answer
                         \/ pc' = "returned" /\ answer' \in {"unavailable", "identity_mismatch"}
      BY <1>4, Zenon DEF AskUser, Return
    <2> QED BY <1>a, <1>c, <2>1 DEF Answered
  <1>5. CASE AskInstallations
    <2>1. pc = "installations"
          /\ \/ answer' = answer
             \/ pc' = "returned" /\ answer' = "unavailable"
             \/ pc' = "returned" /\ answer' \in SetupErrors \union {"permissions_invalid"}
      BY <1>5, Zenon DEF AskInstallations, Return
    <2> QED BY <1>a, <1>c, <2>1 DEF Answered, SetupErrors
  <1>6. CASE ListPage
    <2>1. answer' = answer /\ pc = "list"  BY <1>6 DEF ListPage
    <2> QED BY <1>a, <2>1 DEF Answered
  <1>7. CASE Consider
    <2>1. answer' = answer /\ pc = "list"  BY <1>7, Zenon DEF Consider
    <2> QED BY <1>a, <2>1 DEF Answered
  <1>8. CASE AskRevision
    <2>1. answer' = answer /\ pc = "revision"  BY <1>8 DEF AskRevision
    <2> QED BY <1>a, <2>1 DEF Answered
  <1>9. CASE AskTree
    <2>1. answer' = answer /\ pc = "tree"  BY <1>9 DEF AskTree
    <2> QED BY <1>a, <2>1 DEF Answered
  <1>10. CASE AskReleases
    <2>1. answer' = answer /\ pc = "releases"  BY <1>10 DEF AskReleases
    <2> QED BY <1>a, <2>1 DEF Answered
  <1>11. CASE StartCollection
    <2>1. answer' = answer /\ pc = "revision"  BY <1>11 DEF StartCollection
    <2> QED BY <1>a, <2>1 DEF Answered
  <1>12. CASE StartPublic
    <2>1. answer' = answer /\ pc = "public"  BY <1>12 DEF StartPublic
    <2> QED BY <1>a, <2>1 DEF Answered
  <1>13. CASE Collect
    <2>1. answer' = answer /\ pc = "collect"  BY <1>13 DEF Collect
    <2> QED BY <1>a, <2>1 DEF Answered
  <1>14. CASE FinishPrivate
    <2>1. pc' = "returned"  BY <1>14, Zenon DEF FinishPrivate, Return
    <2>2. CASE answer' = "ready"
      <3>1. ReadyMeansRead'  BY <1>14, <2>2, ReadyIsEarned
      <3> QED BY <2>1, <3>1 DEF Answered
    <2>3. CASE answer' # "ready"  BY <1>c, <2>1, <2>3
    <2> QED BY <2>2, <2>3
  <1>15. CASE FinishPublic
    <2>1. pc' = "ended" /\ UNCHANGED <<qualityVars, found, considered, inspected, answer>>
      BY <1>15, Zenon DEF FinishPublic
    <2> QED BY <1>b, <2>1
  <1>16. CASE Answer
    <2>1. pc' \in {"start", "ended"}
          /\ UNCHANGED <<qualityVars, found, considered, inspected, answer>>
      BY <1>16, Zenon DEF Answer
    <2> QED BY <1>b, <2>1
  <1>17. CASE UNCHANGED vars
    <2>1. UNCHANGED <<qualityVars, found, considered, inspected, answer, pc>>
      BY <1>17, Zenon DEF vars, privateVars
    <2>2. CASE pc \in {"returned", "prompt", "start", "ended"}  BY <1>b, <2>1, <2>2
    <2>3. CASE pc \notin {"returned", "prompt", "start", "ended"}
      BY <1>a, <2>1, <2>3 DEF Answered
    <2> QED BY <2>2, <2>3
  <1> QED BY <1>1, <1>2, <1>3, <1>4, <1>5, <1>6, <1>7, <1>8, <1>9, <1>10, <1>11, <1>12,
             <1>13, <1>14, <1>15, <1>16, <1>17 DEF PrivateNext, Step

\* A result that calls itself ready left nothing out that it knew of
\* (runPrivateContext's status, run.ts).
THEOREM ReadyIsComplete == PrivateSpec => []ReadyMeansRead
  <1>1. PrivateInit => Inspecting /\ Answered
    <2> SUFFICES ASSUME PrivateInit PROVE Inspecting /\ Answered  OBVIOUS
    <2>1. told = <<>> /\ answer = "none" /\ pc \in {"authorize", "public"}
      BY DEF PrivateInit
    <2>2. <<>> \in Seq({"repository-limit", "source-unavailable"})  BY EmptySeq
    <2> QED BY <2>1, <2>2 DEF Inspecting, Answered, ReadyMeansRead
  <1>2. PrivateInv /\ Progress /\ Inspecting /\ Answered /\ [PrivateNext]_vars
          => Inspecting' /\ Answered'
    BY InspectingStep, AnsweredStep
  <1>3. Answered => ReadyMeansRead  BY DEF Answered
  <1> QED BY <1>1, <1>2, <1>3, PrivateInductive, PTL DEF PrivateSpec
=============================================================================
