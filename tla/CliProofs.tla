------------------------------ MODULE CliProofs ------------------------------
(***************************************************************************)
(* Proofs about the whole program, for all arguments, files, memory maps   *)
(* and constants: how run ends, what the symbol file gives, what the list  *)
(* of points of interest holds at every stage, and how the base address    *)
(* search votes, ranks and decides.                                        *)
(***************************************************************************)
EXTENDS Cli, Powers, TLAPS, FiniteSetTheorems, SequenceTheorems, WellFoundedInduction

-----------------------------------------------------------------------------
\* Numbers.

LEMMA LeastMember ==
  ASSUME NEW S, S \subseteq Nat, S # {}
  PROVE  \E x \in S : \A y \in S : x <= y
<1>1. PICK x \in S : \A y \in S : ~(<<y, x>> \in OpToRel(<, Nat))
  BY WFMin, NatLessThanWellFounded
<1>2. \A y \in S : ~(y < x)
  BY <1>1 DEF OpToRel
<1>3. \A y \in S : x <= y
  BY <1>2
<1> QED BY <1>3

LEMMA GreatestMember ==
  ASSUME NEW n \in Int, NEW S, S # {}, \A x \in S : x \in Int /\ x <= n
  PROVE  \E x \in S : \A y \in S : y <= x
<1> DEFINE T == {n - x : x \in S}
<1>1. T \subseteq Nat /\ T # {}
  <2>1. \A x \in S : n - x \in Nat
    OBVIOUS
  <2> QED BY <2>1
<1>2. PICK d \in T : \A e \in T : d <= e
  <2> HIDE DEF T
  <2> QED BY <1>1, LeastMember
<1>3. PICK x \in S : d = n - x
  BY <1>2
<1>4. ASSUME NEW y \in S PROVE y <= x
  <2>1. n - x <= n - y
    BY <1>2, <1>3
  <2> QED BY <2>1
<1> QED BY <1>4

\* A finite set of integers is bounded.
LEMMA FiniteIsBounded ==
  ASSUME NEW S, S \subseteq Int, IsFiniteSet(S), S # {}
  PROVE  (\E x \in S : \A y \in S : y <= x) /\ (\E x \in S : \A y \in S : x <= y)
<1> DEFINE below(x) == {y \in S : y < x}
           above(x) == {y \in S : x < y}
           Ns == {Cardinality(above(x)) : x \in S}
           Ms == {Cardinality(below(x)) : x \in S}
<1>1. \A x \in S : /\ IsFiniteSet(above(x)) /\ Cardinality(above(x)) \in Nat
                   /\ IsFiniteSet(below(x)) /\ Cardinality(below(x)) \in Nat
  <2> SUFFICES ASSUME NEW x \in S
               PROVE  /\ IsFiniteSet(above(x)) /\ Cardinality(above(x)) \in Nat
                      /\ IsFiniteSet(below(x)) /\ Cardinality(below(x)) \in Nat
    OBVIOUS
  <2>1. above(x) \in SUBSET S /\ below(x) \in SUBSET S
    OBVIOUS
  <2> HIDE DEF above, below
  <2> QED BY <2>1, FS_Subset, FS_CardinalityType
<1>2. PICK x \in S : \A y \in S : Cardinality(above(x)) <= Cardinality(above(y))
  <2>1. Ns \subseteq Nat /\ Ns # {}
    BY <1>1
  <2>2. PICK m \in Ns : \A l \in Ns : m <= l
    <3> HIDE DEF Ns
    <3> QED BY <2>1, LeastMember
  <2>3. PICK x \in S : m = Cardinality(above(x))
    BY <2>2
  <2> QED BY <2>2, <2>3
<1>3. PICK z \in S : \A y \in S : Cardinality(below(z)) <= Cardinality(below(y))
  <2>1. Ms \subseteq Nat /\ Ms # {}
    BY <1>1
  <2>2. PICK m \in Ms : \A l \in Ms : m <= l
    <3> HIDE DEF Ms
    <3> QED BY <2>1, LeastMember
  <2>3. PICK z \in S : m = Cardinality(below(z))
    BY <2>2
  <2> QED BY <2>2, <2>3
<1>4. ASSUME NEW y \in S PROVE y <= x
  <2> SUFFICES ASSUME x < y PROVE FALSE
    BY <1>2
  <2>1. y \in above(x) /\ y \notin above(y) /\ \A e \in above(y) : e \in above(x)
    <3>1. x \in Int /\ y \in Int /\ \A e \in S : e \in Int
      OBVIOUS
    <3> QED BY <3>1
  <2>2. above(y) \in SUBSET above(x) /\ above(x) # above(y)
    <3> HIDE DEF above
    <3> QED BY <2>1
  <2> HIDE DEF above
  <2>3. Cardinality(above(y)) <= Cardinality(above(x))
    BY <1>1, <2>2, FS_Subset
  <2>4. Cardinality(above(y)) = Cardinality(above(x))
    <3> DEFINE m == Cardinality(above(y))
               l == Cardinality(above(x))
    <3>1. m \in Nat /\ l \in Nat /\ m <= l /\ l <= m
      BY <1>1, <1>2, <2>3, Zenon
    <3> HIDE DEF m, l
    <3>2. m = l
      BY <3>1
    <3> QED BY <3>2 DEF m, l
  <2> QED BY <1>1, <2>2, <2>4, FS_Subset
<1>5. ASSUME NEW y \in S PROVE z <= y
  <2> SUFFICES ASSUME y < z PROVE FALSE
    BY <1>3
  <2>1. y \in below(z) /\ y \notin below(y) /\ \A e \in below(y) : e \in below(z)
    <3>1. z \in Int /\ y \in Int /\ \A e \in S : e \in Int
      OBVIOUS
    <3> QED BY <3>1
  <2>2. below(y) \in SUBSET below(z) /\ below(z) # below(y)
    <3> HIDE DEF below
    <3> QED BY <2>1
  <2> HIDE DEF below
  <2>3. Cardinality(below(y)) <= Cardinality(below(z))
    BY <1>1, <2>2, FS_Subset
  <2>4. Cardinality(below(y)) = Cardinality(below(z))
    <3> DEFINE m == Cardinality(below(y))
               l == Cardinality(below(z))
    <3>1. m \in Nat /\ l \in Nat /\ m <= l /\ l <= m
      BY <1>1, <1>3, <2>3, Zenon
    <3> HIDE DEF m, l
    <3>2. m = l
      BY <3>1
    <3> QED BY <3>2 DEF m, l
  <2> QED BY <1>1, <2>2, <2>4, FS_Subset
<1> QED BY <1>2, <1>3, <1>4, <1>5

\* A value computed in n steps exists.
Computes(f, n, R, x, step) ==
  /\ f \in [0..n -> R]
  /\ f[0] = x /\ \A i \in 1..n : f[i] = step[i][f[i - 1]]

LEMMA Recursion ==
  ASSUME NEW n \in Nat, NEW R, NEW x \in R, NEW step \in [1..n -> [R -> R]]
  PROVE  \E f : Computes(f, n, R, x, step)
<1> DEFINE P(m, f) == f[0] = x /\ \A i \in 1..m : f[i] = step[i][f[i - 1]]
           Bad == {m \in 0..n : ~\E f \in [0..m -> R] : P(m, f)}
<1>1. Bad = {}
  <2> SUFFICES ASSUME Bad # {} PROVE FALSE
    OBVIOUS
  <2>1. PICK m \in Bad : \A l \in Bad : m <= l
    <3>1. Bad \subseteq Nat
      OBVIOUS
    <3> HIDE DEF Bad
    <3> QED BY <3>1, LeastMember
  <2>2. CASE m = 0
    <3>1. [i \in 0..0 |-> x] \in [0..m -> R] /\ P(m, [i \in 0..0 |-> x])
      BY <2>2
    <3> QED BY <3>1
  <2>3. CASE m # 0
    <3>1. m \in 1..n /\ m - 1 \in 0..n /\ m - 1 \notin Bad
      <4>1. m \in 1..n
        BY <2>3
      <4>2. m - 1 \in 0..n /\ ~(m <= m - 1)
        BY <4>1
      <4> HIDE DEF Bad
      <4> QED BY <2>1, <4>1, <4>2
    <3>2. PICK f \in [0..m - 1 -> R] : P(m - 1, f)
      BY <3>1
    <3> DEFINE g == [i \in 0..m |-> IF i = m THEN step[m][f[m - 1]] ELSE f[i]]
    <3>3. \A i \in 0..m - 1 : g[i] = f[i] /\ f[i] \in R
      BY <3>1
    <3>4. g[m] = step[m][f[m - 1]] /\ g[m] \in R
      BY <3>1, <3>3
    <3>5. g \in [0..m -> R]
      BY <3>1, <3>3, <3>4
    <3>6. P(m, g)
      <4>1. g[0] = x
        BY <3>1, <3>2, <3>3
      <4>2. ASSUME NEW i \in 1..m PROVE g[i] = step[i][g[i - 1]]
        <5>1. i - 1 \in 0..m - 1 /\ g[i - 1] = f[i - 1]
          BY <3>1, <3>3
        <5>2. CASE i = m
          BY <3>4, <5>1, <5>2
        <5>3. CASE i # m
          <6>1. i \in 1..m - 1 /\ i \in 0..m - 1
            BY <3>1, <5>3
          <6> QED BY <3>2, <3>3, <5>1, <6>1
        <5> QED BY <5>2, <5>3
      <4> HIDE DEF g
      <4> QED BY <4>1, <4>2
    <3> HIDE DEF g, P
    <3> QED BY <3>5, <3>6
  <2> QED BY <2>2, <2>3
<1>2. PICK f \in [0..n -> R] : P(n, f)
  <2>1. n \in 0..n
    OBVIOUS
  <2>2. ~(n \in 0..n /\ ~\E f \in [0..n -> R] : P(n, f))
    <3> HIDE DEF P
    <3>1. n \notin Bad
      <4> HIDE DEF Bad
      <4> QED BY <1>1
    <3> QED BY <3>1
  <2> QED BY <2>1, <2>2
<1> QED BY <1>2 DEF Computes

\* A recursive function on 0..n whose steps stay in R has its values there.
LEMMA RecursionStays ==
  ASSUME NEW n \in Nat, NEW R, NEW f,
         f[0] \in R, \A i \in 1..n : f[i - 1] \in R => f[i] \in R
  PROVE  \A i \in 0..n : f[i] \in R
<1> DEFINE Bad == {i \in 0..n : f[i] \notin R}
<1> SUFFICES ASSUME Bad # {} PROVE FALSE
  OBVIOUS
<1>1. PICK m \in Bad : \A l \in Bad : m <= l
  <2>1. Bad \subseteq Nat
    OBVIOUS
  <2> HIDE DEF Bad
  <2> QED BY <2>1, LeastMember
<1>2. m \in 1..n /\ m - 1 \in 0..n /\ ~(m <= m - 1)
  OBVIOUS
<1>3. m - 1 \notin Bad
  <2> HIDE DEF Bad
  <2> QED BY <1>1, <1>2
<1> QED BY <1>2, <1>3

-----------------------------------------------------------------------------
\* Folds over a finite set, which take its members in the order pick says.

Picks(pick, S) == \A s \in SUBSET S : s # {} => pick[s] \in s

\* What holds of the empty set, and of a set if of what is left without the
\* member picked, holds of every subset.
LEMMA FoldStays ==
  ASSUME NEW S, IsFiniteSet(S), NEW pick, Picks(pick, S), NEW value, NEW R,
         value[{}] \in R[{}],
         \A s \in SUBSET S :
           s # {} /\ value[s \ {pick[s]}] \in R[s \ {pick[s]}] => value[s] \in R[s]
  PROVE  \A s \in SUBSET S : value[s] \in R[s]
<1> DEFINE Bad == {s \in SUBSET S : value[s] \notin R[s]}
           Sizes == {Cardinality(s) : s \in Bad}
<1> SUFFICES ASSUME Bad # {} PROVE FALSE
  OBVIOUS
<1>1. \A s \in SUBSET S : IsFiniteSet(s) /\ Cardinality(s) \in Nat
  BY FS_Subset, FS_CardinalityType
<1>2. PICK s \in Bad : \A r \in Bad : Cardinality(s) <= Cardinality(r)
  <2>1. Sizes \subseteq Nat /\ Sizes # {}
    BY <1>1
  <2>2. PICK m \in Sizes : \A l \in Sizes : m <= l
    <3> HIDE DEF Sizes
    <3> QED BY <2>1, LeastMember
  <2> QED BY <2>2
<1>3. s # {} /\ s \in SUBSET S
  BY <1>2
<1>4. pick[s] \in s
  BY <1>3 DEF Picks
<1> DEFINE r == s \ {pick[s]}
<1>5. Cardinality(r) = Cardinality(s) - 1 /\ r \in SUBSET S
  BY <1>1, <1>3, <1>4, FS_RemoveElement
<1>6. ~(Cardinality(s) <= Cardinality(r))
  <2> HIDE DEF r
  <2>1. Cardinality(s) \in Nat
    BY <1>1, <1>3
  <2> QED BY <1>5, <2>1
<1>7. r \notin Bad
  <2> HIDE DEF r, Bad
  <2> QED BY <1>2, <1>6
<1>8. value[r] \in R[r]
  <2> HIDE DEF r
  <2> QED BY <1>5, <1>7
<1>9. value[s] \in R[s]
  BY <1>3, <1>8
<1> QED BY <1>2, <1>9

\* A fold exists: f is x of the empty set, and of any other set one step from
\* what it is of the set without the member picked.
Folds(f, S, R, x, step, pick) ==
  /\ f \in [SUBSET S -> R]
  /\ \A s \in SUBSET S :
       f[s] = IF s = {} THEN x ELSE step[pick[s]][f[s \ {pick[s]}]]

LEMMA FoldExists ==
  ASSUME NEW S, IsFiniteSet(S), NEW pick, Picks(pick, S),
         NEW R, NEW x \in R, NEW step \in [S -> [R -> R]]
  PROVE  \E f : Folds(f, S, R, x, step, pick)
<1> DEFINE n == Cardinality(S)
           T == [SUBSET S -> R]
           Body(f) == [s \in SUBSET S |->
                         IF s = {} THEN x ELSE step[pick[s]][f[s \ {pick[s]}]]]
           constant == [s \in SUBSET S |-> x]
           next_ == [i \in 1..n |-> [f \in T |-> Body(f)]]
<1>1. n \in Nat /\ \A s \in SUBSET S : IsFiniteSet(s) /\ Cardinality(s) \in 0..n
  BY FS_Subset, FS_CardinalityType
<1>2. ASSUME NEW f \in T PROVE Body(f) \in T
  <2>1. ASSUME NEW s \in SUBSET S, s # {}
        PROVE  step[pick[s]][f[s \ {pick[s]}]] \in R
    <3>1. pick[s] \in S /\ s \ {pick[s]} \in SUBSET S
      BY <2>1 DEF Picks
    <3>2. f[s \ {pick[s]}] \in R
      BY <3>1
    <3> QED BY <3>1, <3>2
  <2> QED BY <2>1
<1>3. constant \in T
  OBVIOUS
<1>4. next_ \in [1..n -> [T -> T]]
  <2> HIDE DEF T, Body, n
  <2> QED BY <1>2
<1>5. PICK g : Computes(g, n, T, constant, next_)
  <2> HIDE DEF T, Body, n, constant, next_
  <2> QED BY <1>1, <1>3, <1>4, Recursion
<1>6. /\ g \in [0..n -> T] /\ g[0] = constant
      /\ \A i \in 1..n : g[i - 1] \in T /\ g[i] = Body(g[i - 1])
  <2>1. ASSUME NEW i \in 1..n PROVE g[i - 1] \in T /\ g[i] = Body(g[i - 1])
    <3>1. g[i - 1] \in T
      <4> HIDE DEF T
      <4>1. i - 1 \in 0..n
        BY <1>1
      <4> QED BY <1>5, <4>1 DEF Computes
    <3>2. g[i] = next_[i][g[i - 1]]
      <4> HIDE DEF T, next_
      <4> QED BY <1>5 DEF Computes
    <3> HIDE DEF T, Body
    <3> QED BY <3>1, <3>2
  <2>2. g \in [0..n -> T] /\ g[0] = constant
    <3> HIDE DEF T, constant, next_
    <3> QED BY <1>5 DEF Computes
  <2> HIDE DEF T, Body, constant
  <2> QED BY <2>1, <2>2
<1> DEFINE Stable(j) == \A s \in SUBSET S : Cardinality(s) <= j => g[j][s] = Body(g[j])[s]
           flag == [j \in 0..n |-> Stable(j)]
<1>7. flag[0] \in {TRUE}
  <2>1. ASSUME NEW s \in SUBSET S, Cardinality(s) <= 0 PROVE g[0][s] = Body(g[0])[s]
    <3>1. Cardinality(s) = 0
      BY <1>1, <2>1
    <3>2. s = {}
      BY <1>1, <3>1, FS_EmptySet
    <3> QED BY <1>6, <3>2
  <2>2. Stable(0)
    <3> HIDE DEF Body
    <3> QED BY <2>1
  <2>3. 0 \in 0..n
    BY <1>1
  <2> HIDE DEF Stable, n
  <2> QED BY <2>2, <2>3
<1>8. ASSUME NEW i \in 1..n, flag[i - 1] \in {TRUE} PROVE flag[i] \in {TRUE}
  <2>0. i - 1 \in 0..n /\ i \in 0..n
    BY <1>1
  <2>1. Stable(i - 1)
    <3> HIDE DEF Stable
    <3> QED BY <1>8, <2>0
  <2>2. ASSUME NEW s \in SUBSET S, Cardinality(s) <= i PROVE g[i][s] = Body(g[i])[s]
    <3>1. g[i] = Body(g[i - 1])
      BY <1>6
    <3>2. CASE s = {}
      BY <3>1, <3>2
    <3>3. CASE s # {}
      <4> DEFINE r == s \ {pick[s]}
      <4>1. pick[s] \in s /\ r \in SUBSET S
        BY <3>3 DEF Picks
      <4>2. Cardinality(r) <= i - 1
        <5>1. Cardinality(r) = Cardinality(s) - 1
          BY <1>1, <4>1, FS_RemoveElement
        <5>2. Cardinality(s) \in Nat
          BY <1>1
        <5> HIDE DEF r
        <5> QED BY <2>2, <5>1, <5>2
      <4>3. g[i - 1][r] = Body(g[i - 1])[r]
        <5> HIDE DEF Body, r
        <5> QED BY <2>1, <4>1, <4>2
      <4>4. g[i][s] = step[pick[s]][g[i - 1][r]]
        <5>1. Body(g[i - 1])[s] = step[pick[s]][g[i - 1][r]]
          BY <3>3
        <5> HIDE DEF Body, r
        <5> QED BY <3>1, <5>1
      <4>5. Body(g[i])[s] = step[pick[s]][g[i][r]]
        BY <3>3
      <4>6. g[i][r] = g[i - 1][r]
        <5> HIDE DEF Body, r
        <5> QED BY <3>1, <4>3
      <4> HIDE DEF Body, r
      <4> QED BY <4>4, <4>5, <4>6
    <3> QED BY <3>2, <3>3
  <2>3. Stable(i)
    BY <2>2
  <2> HIDE DEF Stable
  <2> QED BY <2>0, <2>3
<1>9. flag[n] \in {TRUE}
  <2> DEFINE Yes == {TRUE}
  <2>1. n \in Nat /\ n \in 0..n
    BY <1>1
  <2>2. flag[0] \in Yes /\ \A i \in 1..n : flag[i - 1] \in Yes => flag[i] \in Yes
    <3> HIDE DEF flag, n
    <3> QED BY <1>7, <1>8
  <2> HIDE DEF flag, n, Yes
  <2>3. \A i \in 0..n : flag[i] \in Yes
    BY <2>1, <2>2, RecursionStays
  <2> QED BY <2>1, <2>3 DEF Yes
<1>10. Stable(n) /\ n \in 0..n
  <2>1. n \in 0..n
    BY <1>1
  <2> HIDE DEF Stable
  <2> QED BY <1>9, <2>1
<1>11. ASSUME NEW s \in SUBSET S
       PROVE  g[n][s] = IF s = {} THEN x ELSE step[pick[s]][g[n][s \ {pick[s]}]]
  <2>1. Cardinality(s) <= n
    BY <1>1
  <2>2. g[n][s] = Body(g[n])[s]
    <3> HIDE DEF Body, n
    <3> QED BY <1>10, <2>1
  <2> QED BY <2>2
<1>12. g[n] \in [SUBSET S -> R]
  <2> HIDE DEF n, Body
  <2> QED BY <1>6, <1>10
<1>13. Folds(g[n], S, R, x, step, pick)
  BY <1>11, <1>12 DEF Folds
<1> QED BY <1>13

-----------------------------------------------------------------------------
\* Sorting by rank.

StrictOrder(T, S) ==
  /\ \A x \in S : <<x, x>> \notin T
  /\ \A x, y \in S : x # y => <<x, y>> \in T \/ <<y, x>> \in T
  /\ \A x, y, z \in S : <<x, y>> \in T /\ <<y, z>> \in T => <<x, z>> \in T

Before(T, S, x) == {y \in S : <<y, x>> \in T}

\* Members of a finite set have different ranks, one each from 0 on.
LEMMA RanksAreNumbers ==
  ASSUME NEW S, IsFiniteSet(S), NEW T, StrictOrder(T, S)
  PROVE  /\ \A x \in S : Cardinality(Before(T, S, x)) \in 0..Cardinality(S) - 1
         /\ \A x, y \in S : <<x, y>> \in T =>
              Cardinality(Before(T, S, x)) < Cardinality(Before(T, S, y))
         /\ \A r \in 0..Cardinality(S) - 1 :
              \E x \in S : Cardinality(Before(T, S, x)) = r
<1> DEFINE rank(x) == Cardinality(Before(T, S, x))
           n == Cardinality(S)
<1>1. n \in Nat /\ \A x \in S : IsFiniteSet(Before(T, S, x)) /\ rank(x) \in Nat
  <2>1. \A x \in S : Before(T, S, x) \in SUBSET S
    BY DEF Before
  <2> QED BY <2>1, FS_Subset, FS_CardinalityType
<1>2. ASSUME NEW x \in S PROVE rank(x) < n
  <2>1. Before(T, S, x) \in SUBSET S /\ Before(T, S, x) # S
    BY DEF Before, StrictOrder
  <2>2. rank(x) <= n /\ rank(x) # n
    BY <2>1, FS_Subset
  <2> HIDE DEF rank, n
  <2> QED BY <1>1, <2>2
<1>3. ASSUME NEW x \in S, NEW y \in S, <<x, y>> \in T PROVE rank(x) < rank(y)
  <2>1. /\ Before(T, S, x) \in SUBSET Before(T, S, y)
        /\ Before(T, S, x) # Before(T, S, y)
    <3>1. x \in Before(T, S, y) /\ x \notin Before(T, S, x)
      BY <1>3 DEF Before, StrictOrder
    <3>2. \A z \in Before(T, S, x) : z \in Before(T, S, y)
      BY <1>3 DEF Before, StrictOrder
    <3> QED BY <3>1, <3>2
  <2>2. IsFiniteSet(Before(T, S, y))
    BY <1>1
  <2>3. rank(x) <= rank(y) /\ rank(x) # rank(y)
    BY <2>1, <2>2, FS_Subset
  <2>4. rank(x) \in Nat /\ rank(y) \in Nat
    BY <1>1
  <2> HIDE DEF rank
  <2> QED BY <2>3, <2>4
<1> DEFINE f == [x \in S |-> rank(x)]
<1>4. f \in Injection(S, 0..n - 1)
  <2>1. ASSUME NEW x \in S PROVE rank(x) \in 0..n - 1
    <3>1. rank(x) \in Nat /\ rank(x) < n /\ n \in Nat
      BY <1>1, <1>2
    <3> HIDE DEF rank, n
    <3> QED BY <3>1
  <2>2. f \in [S -> 0..n - 1]
    <3> HIDE DEF rank, n
    <3> QED BY <2>1
  <2>3. ASSUME NEW x \in S, NEW y \in S, x # y PROVE f[x] # f[y]
    <3>1. rank(x) < rank(y) \/ rank(y) < rank(x)
      <4> HIDE DEF rank
      <4> QED BY <1>3, <2>3 DEF StrictOrder
    <3>2. rank(x) \in Nat /\ rank(y) \in Nat
      BY <1>1
    <3> HIDE DEF rank
    <3> QED BY <3>1, <3>2
  <2> HIDE DEF f
  <2> QED BY <2>2, <2>3 DEF Injection, IsInjective
<1>5. IsFiniteSet(0..n - 1) /\ Cardinality(0..n - 1) = n
  <2> HIDE DEF n
  <2> QED BY <1>1, FS_Interval
<1>6. f \in Surjection(S, 0..n - 1)
  <2> HIDE DEF f
  <2> QED BY <1>4, <1>5, FS_Injection
<1>7. ASSUME NEW r \in 0..n - 1 PROVE \E x \in S : rank(x) = r
  <2>1. \E x \in S : f[x] = r
    <3> HIDE DEF f, n
    <3> QED BY <1>6 DEF Surjection
  <2> HIDE DEF n, rank
  <2> QED BY <2>1
<1>8. ASSUME NEW x \in S PROVE rank(x) \in 0..n - 1
  <2>1. rank(x) \in Nat /\ rank(x) < n /\ n \in Nat
    BY <1>1, <1>2
  <2> HIDE DEF rank, n
  <2> QED BY <2>1
<1> QED BY <1>3, <1>7, <1>8

LEMMA RankIsTaken ==
  ASSUME NEW S, IsFiniteSet(S), NEW T, StrictOrder(T, S), NEW r \in 0..Cardinality(S) - 1
  PROVE  \E x \in S : Cardinality(Before(T, S, x)) = r
<1>1. \A q \in 0..Cardinality(S) - 1 : \E x \in S : Cardinality(Before(T, S, x)) = q
  BY RanksAreNumbers
<1> QED BY <1>1

\* What a sort returns: each member once, in order.  Ranks put it there.
SortedBy(order, T, S) ==
  /\ DOMAIN order = 1..Cardinality(S)
  /\ \A i \in 1..Cardinality(S) : order[i] \in S
  /\ \A i, j \in 1..Cardinality(S) : i < j => <<order[i], order[j]>> \in T
  /\ \A x \in S : \E i \in 1..Cardinality(S) : order[i] = x

LEMMA RanksSort ==
  ASSUME NEW S, IsFiniteSet(S), NEW T, StrictOrder(T, S), NEW order,
         DOMAIN order = 1..Cardinality(S),
         \A i \in 1..Cardinality(S) :
           order[i] \in S /\ Cardinality(Before(T, S, order[i])) = i - 1
  PROVE  SortedBy(order, T, S)
<1> DEFINE rank(x) == Cardinality(Before(T, S, x))
           n == Cardinality(S)
<1>1. n \in Nat
  BY FS_CardinalityType
<1>2. ASSUME NEW i \in 1..n PROVE order[i] \in S /\ rank(order[i]) = i - 1
  OBVIOUS
<1>3. ASSUME NEW i \in 1..n, NEW j \in 1..n, i < j PROVE <<order[i], order[j]>> \in T
  <2>1. /\ order[i] \in S /\ order[j] \in S
        /\ rank(order[i]) = i - 1 /\ rank(order[j]) = j - 1
    BY <1>2
  <2>2. order[i] # order[j]
    <3> HIDE DEF rank, n
    <3>1. i \in Int /\ j \in Int
      BY <1>1
    <3>2. i - 1 # j - 1
      BY <1>3, <3>1
    <3> QED BY <2>1, <3>2
  <2>3. ~(<<order[j], order[i]>> \in T)
    <3>1. SUFFICES ASSUME <<order[j], order[i]>> \in T PROVE FALSE
      OBVIOUS
    <3>2. rank(order[j]) < rank(order[i])
      BY <2>1, <3>1, RanksAreNumbers
    <3> HIDE DEF rank, n
    <3>3. i \in Int /\ j \in Int
      BY <1>1
    <3> QED BY <1>3, <2>1, <3>2, <3>3
  <2> QED BY <2>1, <2>2, <2>3 DEF StrictOrder
<1>4. ASSUME NEW x \in S PROVE \E i \in 1..n : order[i] = x
  <2> DEFINE i == rank(x) + 1
  <2>1. rank(x) \in 0..n - 1
    BY RanksAreNumbers
  <2>2. i \in 1..n /\ i - 1 = rank(x)
    <3> HIDE DEF rank, n
    <3> QED BY <1>1, <2>1
  <2>3. order[i] \in S /\ rank(order[i]) = rank(x)
    <3> HIDE DEF rank, n, i
    <3> QED BY <1>2, <2>2
  <2>4. order[i] = x
    <3>1. ASSUME NEW y \in S, rank(y) = rank(x), y # x PROVE FALSE
      <4>1. rank(x) < rank(y) \/ rank(y) < rank(x)
        BY <3>1, RanksAreNumbers DEF StrictOrder
      <4>2. rank(x) \in Int
        <5> HIDE DEF rank, n
        <5> QED BY <1>1, <2>1
      <4> HIDE DEF rank
      <4> QED BY <3>1, <4>1, <4>2
    <3> HIDE DEF rank, i
    <3> QED BY <2>3, <3>1
  <2> HIDE DEF i, n
  <2> QED BY <2>2, <2>4
<1>5. DOMAIN order = 1..n
  OBVIOUS
<1> HIDE DEF n
<1>6. SortedBy(order, T, S) <=>
        /\ DOMAIN order = 1..n
        /\ \A i \in 1..n : order[i] \in S
        /\ \A i, j \in 1..n : i < j => <<order[i], order[j]>> \in T
        /\ \A x \in S : \E i \in 1..n : order[i] = x
  BY DEF SortedBy, n
<1> QED BY <1>2, <1>3, <1>4, <1>5, <1>6

\* In a sorted list those that have a property no successor of one that lacks
\* it has, come first.
LEMMA PrefixCount ==
  ASSUME NEW n \in Nat, NEW K \in SUBSET (1..n),
         \A i \in K : \A j \in 1..i : j \in K
  PROVE  IsFiniteSet(K) /\ Cardinality(K) \in 0..n /\ K = 1..Cardinality(K)
<1>1. CASE K = {}
  <2>1. Cardinality(K) = 0 /\ IsFiniteSet(K)
    BY <1>1, FS_EmptySet
  <2> QED BY <1>1, <2>1
<1>2. CASE K # {}
  <2>1. PICK m \in K : \A i \in K : i <= m
    <3>1. \A i \in K : i \in Int /\ i <= n
      OBVIOUS
    <3>2. n \in Int
      OBVIOUS
    <3>3. \E m \in K : \A i \in K : i <= m
      BY <1>2, <3>1, <3>2, GreatestMember, Zenon
    <3> QED BY <3>3
  <2>2. K = 1..m
    <3>1. \A i \in K : i \in 1..m
      BY <2>1
    <3>2. \A i \in 1..m : i \in K
      BY <2>1
    <3> QED BY <3>1, <3>2
  <2>3. m \in 1..n
    BY <2>1
  <2>4. IsFiniteSet(1..m) /\ Cardinality(1..m) = m
    BY <2>3, FS_Interval
  <2> QED BY <2>2, <2>3, <2>4
<1> QED BY <1>1, <1>2

-----------------------------------------------------------------------------
\* Powers.

LEMMA PowerFacts ==
  ASSUME NEW b \in Nat
  PROVE  /\ \A i \in Nat : Power(b, i) \in Nat
         /\ Power(b, 0) = 1
         /\ \A i \in Nat : Power(b, i + 1) = b * Power(b, i)
<1> DEFINE Body(m, f) == [i \in 0..m |-> IF i = 0 THEN 1 ELSE b * f[i - 1]]
           p(m) == CHOOSE f : f = Body(m, f)
           times == [v \in Nat |-> b * v]
<1>1. times \in [Nat -> Nat] /\ \A v \in Nat : times[v] = b * v
  OBVIOUS
<1>2. ASSUME NEW m \in Nat
      PROVE  /\ DOMAIN p(m) = 0..m /\ p(m)[0] = 1
             /\ \A i \in 1..m : p(m)[i] = b * p(m)[i - 1]
             /\ \A i \in 0..m : p(m)[i] \in Nat
  <2> DEFINE step == [i \in 1..m |-> times]
  <2>1. step \in [1..m -> [Nat -> Nat]] /\ \A i \in 1..m : step[i] = times
    <3> HIDE DEF times
    <3> QED BY <1>1
  <2>2. PICK f : Computes(f, m, Nat, 1, step)
    <3> HIDE DEF step
    <3> QED BY <2>1, Recursion
  <2>3. f \in [0..m -> Nat] /\ f[0] = 1 /\ \A i \in 1..m : f[i] = b * f[i - 1]
    <3> HIDE DEF step, times
    <3>1. ASSUME NEW i \in 1..m PROVE f[i] = b * f[i - 1]
      <4>1. i - 1 \in 0..m
        OBVIOUS
      <4>2. f[i - 1] \in Nat /\ f[i] = times[f[i - 1]]
        BY <2>1, <2>2, <4>1 DEF Computes
      <4> QED BY <1>1, <4>2
    <3> QED BY <2>2, <3>1 DEF Computes
  <2>4. f = Body(m, f)
    <3>1. ASSUME NEW i \in 0..m PROVE f[i] = IF i = 0 THEN 1 ELSE b * f[i - 1]
      <4>1. CASE i = 0
        BY <2>3, <4>1
      <4>2. CASE i # 0
        <5>1. i \in 1..m
          BY <4>2
        <5> QED BY <2>3, <4>2, <5>1
      <4> QED BY <4>1, <4>2
    <3>2. f = [i \in 0..m |-> f[i]]
      BY <2>3
    <3> QED BY <3>1, <3>2
  <2>5. p(m) = Body(m, p(m))
    <3> HIDE DEF Body
    <3> QED BY <2>4
  <2> DEFINE g == p(m)
  <2>6. g = Body(m, g)
    BY <2>5
  <2> HIDE DEF g
  <2>7. DOMAIN g = 0..m /\ g[0] = 1
    BY <2>6
  <2>8. ASSUME NEW i \in 1..m PROVE g[i] = b * g[i - 1]
    <3>1. i \in 0..m /\ i # 0
      OBVIOUS
    <3> QED BY <2>6, <3>1
  <2>9. \A i \in 0..m : g[i] \in Nat
    <3>1. \A i \in 1..m : g[i - 1] \in Nat => g[i] \in Nat
      BY <2>8
    <3>2. g[0] \in Nat /\ m \in Nat
      BY <1>2, <2>7
    <3> QED BY <3>1, <3>2, RecursionStays, Zenon
  <2> QED BY <2>7, <2>8, <2>9 DEF g
<1>3. \A m : Power(b, m) = p(m)[m]
  BY DEF Power
<1> HIDE DEF p
<1>4. ASSUME NEW i \in Nat PROVE Power(b, i) \in Nat
  <2>1. i \in 0..i
    OBVIOUS
  <2> QED BY <1>2, <1>3, <2>1
<1>5. Power(b, 0) = 1
  BY <1>2, <1>3
<1>6. ASSUME NEW i \in Nat PROVE Power(b, i + 1) = b * Power(b, i)
  <2> DEFINE g == p(i)
             h == p(i + 1)
             same == [j \in 0..i |-> g[j] = h[j]]
  <2>1. /\ g[0] = 1 /\ h[0] = 1
        /\ \A j \in 1..i : g[j] = b * g[j - 1] /\ h[j] = b * h[j - 1]
        /\ h[i + 1] = b * h[i]
    <3>1. i + 1 \in Nat /\ i + 1 \in 1..i + 1 /\ \A j \in 1..i : j \in 1..i + 1
      OBVIOUS
    <3>2. (i + 1) - 1 = i
      OBVIOUS
    <3> QED BY <1>2, <3>1, <3>2
  <2> HIDE DEF g, h
  <2> DEFINE Yes == {TRUE}
  <2>2. same[0] \in Yes
    <3>1. 0 \in 0..i
      OBVIOUS
    <3> QED BY <2>1, <3>1
  <2>3. ASSUME NEW j \in 1..i, same[j - 1] \in Yes PROVE same[j] \in Yes
    <3>1. j - 1 \in 0..i /\ j \in 0..i
      OBVIOUS
    <3>2. g[j - 1] = h[j - 1]
      BY <2>3, <3>1
    <3> QED BY <2>1, <3>1, <3>2
  <2>4. same[i] \in Yes
    <3> HIDE DEF same, Yes
    <3>1. \A j \in 0..i : same[j] \in Yes
      BY <2>2, <2>3, RecursionStays, Zenon
    <3>2. i \in 0..i
      OBVIOUS
    <3> QED BY <3>1, <3>2
  <2>5. g[i] = h[i]
    <3>1. i \in 0..i
      OBVIOUS
    <3> QED BY <2>4, <3>1
  <2> QED BY <1>3, <2>1, <2>5 DEF g, h
<1> QED BY <1>4, <1>5, <1>6

\* A power is the product of two.
LEMMA PowersMultiply ==
  ASSUME NEW b \in Nat, NEW m \in Nat, NEW i \in 0..m
  PROVE  Power(b, m) = Power(b, i) * Power(b, m - i)
<1> DEFINE f == [j \in 0..m |-> IF Power(b, m) = Power(b, m - j) * Power(b, j) THEN 0 ELSE 1]
           Zero == {0}
<1>1. f[0] \in Zero
  <2>1. 0 \in 0..m /\ m - 0 = m /\ Power(b, m) \in Nat /\ Power(b, 0) = 1
    BY PowerFacts
  <2> QED BY <2>1
<1>2. ASSUME NEW j \in 1..m, f[j - 1] \in Zero PROVE f[j] \in Zero
  <2>1. j - 1 \in 0..m /\ j \in 0..m /\ j - 1 \in Nat /\ m - j \in Nat
        /\ m - (j - 1) = (m - j) + 1 /\ (j - 1) + 1 = j
    OBVIOUS
  <2>2. Power(b, m) = Power(b, m - (j - 1)) * Power(b, j - 1)
    BY <1>2, <2>1
  <2>3. Power(b, m - (j - 1)) = b * Power(b, m - j) /\ Power(b, m - j) \in Nat
    BY <2>1, PowerFacts
  <2>4. Power(b, j) = b * Power(b, j - 1) /\ Power(b, j - 1) \in Nat
    BY <2>1, PowerFacts
  <2> DEFINE a == Power(b, m - j)
             c == Power(b, j - 1)
  <2>5. a \in Nat /\ c \in Nat
    BY <2>3, <2>4
  <2>6. Power(b, m) = (b * a) * c /\ Power(b, j) = b * c
    BY <2>2, <2>3, <2>4
  <2> HIDE DEF a, c
  <2>7. (b * a) * c = a * (b * c)
    BY <2>5
  <2>8. Power(b, m) = a * Power(b, j)
    BY <2>6, <2>7
  <2> QED BY <2>1, <2>8 DEF a
<1> HIDE DEF f
<1>3. \A j \in 0..m : f[j] \in Zero
  <2>1. m \in Nat
    OBVIOUS
  <2> HIDE DEF Zero
  <2> QED BY <1>1, <1>2, <2>1, RecursionStays, Zenon
<1>4. m - i \in 0..m /\ m - (m - i) = i
  OBVIOUS
<1>5. f[m - i] = 0
  BY <1>3, <1>4
<1> QED BY <1>4, <1>5 DEF f

-----------------------------------------------------------------------------
\* Division.

\* Division with remainder.
LEMMA Division ==
  ASSUME NEW d \in Nat \ {0}, NEW x \in Nat
  PROVE  x \div d \in Nat /\ x % d \in 0..d - 1 /\ x = d * (x \div d) + (x % d)
OBVIOUS

LEMMA DivisionIsUnique ==
  ASSUME NEW d \in Nat \ {0}, NEW q \in Nat, NEW r \in 0..d - 1
  PROVE  (d * q + r) \div d = q /\ (d * q + r) % d = r
<1> DEFINE x == d * q + r
           p == x \div d
           s == x % d
<1>1. x \in Nat
  OBVIOUS
<1>2. p \in Nat /\ s \in 0..d - 1 /\ x = d * p + s
  <2> HIDE DEF x
  <2> QED BY <1>1, Division
<1>3. d * q + r = d * p + s
  BY <1>2
<1> HIDE DEF p, s
<1>4. ~(p < q)
  <2> SUFFICES ASSUME p < q PROVE FALSE
    OBVIOUS
  <2>1. p + 1 <= q
    BY <1>2
  <2>2. d * (p + 1) <= d * q
    BY <1>2, <2>1
  <2>3. d * (p + 1) = d * p + d
    BY <1>2
  <2> QED BY <1>2, <1>3, <2>2, <2>3
<1>5. ~(q < p)
  <2> SUFFICES ASSUME q < p PROVE FALSE
    OBVIOUS
  <2>1. q + 1 <= p
    BY <1>2
  <2>2. d * (q + 1) <= d * p
    BY <1>2, <2>1
  <2>3. d * (q + 1) = d * q + d
    BY <1>2
  <2> QED BY <1>2, <1>3, <2>2, <2>3
<1>6. p = q
  BY <1>2, <1>4, <1>5
<1>7. s = r
  BY <1>2, <1>3, <1>6
<1> QED BY <1>6, <1>7 DEF p, s

-----------------------------------------------------------------------------
\* What is assumed of the constants, in the form the proofs use.

LEMMA SquareIsLarge ==
  ASSUME NEW b \in Nat \ {0, 1}
  PROVE  b * b \in Nat /\ b < b * b
OBVIOUS

\* A number above one has no power below it but the first.
LEMMA PowersAreLarge ==
  ASSUME NEW b \in Nat \ {0, 1}, NEW n \in Nat \ {0}
  PROVE  Power(b, n) \in Nat /\ Power(b, n) >= b
<1> DEFINE f == [j \in 0..n |-> IF Power(b, j) \in Nat /\ b * Power(b, j) >= b THEN 0 ELSE 1]
           Zero == {0}
<1>1. f[0] \in Zero
  <2>1. 0 \in 0..n /\ Power(b, 0) = 1 /\ b * 1 = b
    BY PowerFacts
  <2> QED BY <2>1
<1>2. ASSUME NEW j \in 1..n, f[j - 1] \in Zero PROVE f[j] \in Zero
  <2>1. j - 1 \in 0..n /\ j \in 0..n /\ j - 1 \in Nat /\ (j - 1) + 1 = j
    OBVIOUS
  <2>2. Power(b, j - 1) \in Nat /\ b * Power(b, j - 1) >= b
    BY <1>2, <2>1
  <2>3. Power(b, j) = b * Power(b, j - 1)
    BY <2>1, PowerFacts
  <2> DEFINE c == Power(b, j)
  <2>4. c \in Nat /\ c >= b
    BY <2>2, <2>3
  <2> HIDE DEF c
  <2>5. b * c >= b
    <3>1. c >= 1 /\ b * c >= b * 1
      BY <2>4
    <3> QED BY <3>1
  <2> QED BY <2>1, <2>4, <2>5 DEF c
<1> HIDE DEF f
<1>3. \A j \in 0..n : f[j] \in Zero
  <2>1. n \in Nat
    OBVIOUS
  <2> HIDE DEF Zero
  <2> QED BY <1>1, <1>2, <2>1, RecursionStays, Zenon
<1>4. n - 1 \in 0..n /\ n - 1 \in Nat /\ (n - 1) + 1 = n
  OBVIOUS
<1>5. b * Power(b, n - 1) >= b /\ Power(b, n - 1) \in Nat
  BY <1>3, <1>4 DEF f
<1>6. Power(b, n) = b * Power(b, n - 1)
  BY <1>4, PowerFacts
<1> QED BY <1>5, <1>6

LEMMA ConstantFacts ==
  /\ ByteBase \in Nat \ {0, 1} /\ WordBytes \in Nat \ {0}
  /\ WordMod = Power(ByteBase, WordBytes) /\ AddrMod = Power(ByteBase, 2 * WordBytes)
  /\ AddrMod \in Nat /\ WordMod \in Nat /\ WordMod < AddrMod /\ 1 < WordMod
  /\ Addr = 0..AddrMod - 1
<1>1. ByteBase \in Nat \ {0, 1} /\ WordBytes \in Nat \ {0} /\ Addr = 0..AddrMod - 1
      /\ WordMod = Finder!Power(ByteBase, WordBytes)
      /\ AddrMod = Finder!Power(ByteBase, 2 * WordBytes)
  BY CliAssumption
<1>2. \A b, n : Finder!Power(b, n) = Power(b, n)
  BY DEF Finder!Power, Power
<1>3. WordMod = Power(ByteBase, WordBytes) /\ AddrMod = Power(ByteBase, 2 * WordBytes)
  BY <1>1, <1>2
<1>4. WordMod \in Nat /\ WordMod >= ByteBase
  BY <1>1, <1>3, PowersAreLarge
<1>5. AddrMod = WordMod * WordMod
  <2>1. 2 * WordBytes \in Nat /\ WordBytes \in 0..2 * WordBytes
        /\ 2 * WordBytes - WordBytes = WordBytes /\ ByteBase \in Nat
    BY <1>1
  <2>2. Power(ByteBase, 2 * WordBytes)
          = Power(ByteBase, WordBytes) * Power(ByteBase, 2 * WordBytes - WordBytes)
    BY <2>1, PowersMultiply
  <2> QED BY <1>3, <2>1, <2>2
<1>6. WordMod \in Nat \ {0, 1}
  BY <1>1, <1>4
<1>7. AddrMod \in Nat /\ WordMod < AddrMod
  BY <1>5, <1>6, SquareIsLarge
<1> QED BY <1>1, <1>3, <1>6, <1>7

-----------------------------------------------------------------------------
\* Numbers in text.

\* The greatest position, where a fold over a sequence starts.
LEMMA GreatestPicks ==
  ASSUME NEW n \in Nat
  PROVE  \A s \in SUBSET (1..n) : s # {} => /\ Parser!Max(s) \in s
                                            /\ \A i \in s : i <= Parser!Max(s)
<1> SUFFICES ASSUME NEW s \in SUBSET (1..n), s # {}
             PROVE  Parser!Max(s) \in s /\ \A i \in s : i <= Parser!Max(s)
  OBVIOUS
<1>1. n \in Int /\ \A i \in s : i \in Int /\ i <= n
  OBVIOUS
<1>2. \E m \in s : \A i \in s : i <= m
  BY <1>1, GreatestMember, Zenon
<1>3. \E m \in s : \A i \in s : m >= i
  <2>1. \A m, i \in s : i <= m => m >= i
    BY <1>1
  <2> QED BY <1>2, <2>1
<1>4. Parser!Max(s) \in s /\ \A i \in s : Parser!Max(s) >= i
  BY <1>3 DEF Parser!Max
<1>5. \A i \in s : i <= Parser!Max(s)
  <2> HIDE DEF Parser!Max
  <2> QED BY <1>1, <1>4
<1> QED BY <1>4, <1>5

\* Digits make a number.
LEMMA FromStrRadixIsAddress ==
  ASSUME NEW radix \in Nat, NEW txt \in Seq(STRING)
  PROVE  Parser!FromStrRadix(radix, txt) \in Addr \cup {Parser!Invalid}
<1> DEFINE digits == IF txt # <<>> /\ Head(txt) = "+" THEN Tail(txt) ELSE txt
           n == Len(digits)
           value == Parser!FoldLeft(LAMBDA acc, c : acc * radix + Parser!DigitValue(c), 0, digits)
<1>1. digits \in Seq(STRING) /\ n \in Nat /\ DOMAIN digits = 1..n
  <2>1. digits \in Seq(STRING)
    BY HeadTailProperties
  <2> HIDE DEF digits
  <2> QED BY <2>1
<1>2. ASSUME \A k \in DOMAIN digits : Parser!DigitValue(digits[k]) \in 0..radix - 1
      PROVE  value \in Nat
  <2> DEFINE S == 1..n
             pick == [s \in SUBSET S |-> Parser!Max(s)]
             step == [i \in S |-> [v \in Nat |-> v * radix + Parser!DigitValue(digits[i])]]
             Body(f) == [s \in SUBSET S |->
                           IF s = {} THEN 0
                           ELSE f[s \ {Parser!Max(s)}] * radix + Parser!DigitValue(digits[Parser!Max(s)])]
             iter == CHOOSE f : f = Body(f)
  <2>1. Picks(pick, S) /\ \A s \in SUBSET S : pick[s] = Parser!Max(s)
    <3> HIDE DEF digits
    <3> QED BY <1>1, GreatestPicks DEF Picks
  <2>2. \A i \in S, v \in Nat : v * radix + Parser!DigitValue(digits[i]) \in Nat
    <3> HIDE DEF digits
    <3> QED BY <1>1, <1>2
  <2>3. step \in [S -> [Nat -> Nat]]
         /\ \A i \in S, v \in Nat : step[i][v] = v * radix + Parser!DigitValue(digits[i])
    <3> HIDE DEF digits
    <3> QED BY <2>2
  <2> HIDE DEF pick, step
  <2>4. IsFiniteSet(S) /\ 0 \in Nat
    BY <1>1, FS_Interval
  <2>5. PICK f : Folds(f, S, Nat, 0, step, pick)
    <3> HIDE DEF S
    <3> QED BY <2>1, <2>3, <2>4, FoldExists
  <2> HIDE DEF S
  <2>6. f = Body(f)
    <3>1. ASSUME NEW s \in SUBSET S, s # {}
          PROVE  f[s] = f[s \ {Parser!Max(s)}] * radix + Parser!DigitValue(digits[Parser!Max(s)])
      <4>1. Parser!Max(s) \in S /\ f[s \ {Parser!Max(s)}] \in Nat
        BY <2>1, <2>5, <3>1 DEF Picks, Folds
      <4>2. f[s] = step[Parser!Max(s)][f[s \ {Parser!Max(s)}]]
        BY <2>1, <2>5, <3>1 DEF Folds
      <4> QED BY <2>3, <4>1, <4>2
    <3>2. f[{}] = 0
      BY <2>5 DEF Folds
    <3>3. f = [s \in SUBSET S |-> f[s]]
      BY <2>5 DEF Folds
    <3> HIDE DEF digits
    <3> QED BY <3>1, <3>2, <3>3
  <2>7. iter = Body(iter)
    <3> HIDE DEF Body
    <3> QED BY <2>6
  <2>8. value = iter[S]
    BY <1>1 DEF S, Parser!FoldLeft, Parser!MapThenFoldSet
  <2>9. \A s \in SUBSET S : iter[s] \in Nat
    <3> DEFINE R == [s \in SUBSET S |-> Nat]
    <3>1. \A s \in SUBSET S : R[s] = Nat /\ s \ {pick[s]} \in SUBSET S
      OBVIOUS
    <3>2. iter[{}] \in R[{}]
      <4>1. iter[{}] = 0 /\ {} \in SUBSET S
        <5> HIDE DEF iter
        <5> QED BY <2>7
      <4> HIDE DEF iter, R
      <4> QED BY <3>1, <4>1
    <3>3. ASSUME NEW s \in SUBSET S, s # {}, iter[s \ {pick[s]}] \in R[s \ {pick[s]}]
          PROVE  iter[s] \in R[s]
      <4>1. iter[s \ {pick[s]}] \in Nat /\ pick[s] \in S
        BY <2>1, <3>1, <3>3 DEF Picks
      <4>2. iter[s] = iter[s \ {pick[s]}] * radix + Parser!DigitValue(digits[pick[s]])
        <5> HIDE DEF iter, digits
        <5> QED BY <2>1, <2>7, <3>3
      <4>3. iter[s \ {pick[s]}] * radix + Parser!DigitValue(digits[pick[s]]) \in Nat
        <5> DEFINE v == iter[s \ {pick[s]}]
                   i == pick[s]
        <5> HIDE DEF iter, digits, v, i
        <5>1. v \in Nat /\ i \in S
          BY <4>1 DEF v, i
        <5>2. v * radix + Parser!DigitValue(digits[i]) \in Nat
          BY <2>2, <5>1, Zenon
        <5> QED BY <5>2 DEF v, i
      <4> HIDE DEF iter, digits, R
      <4> QED BY <3>1, <4>2, <4>3
    <3> HIDE DEF R, iter
    <3>4. \A s \in SUBSET S : iter[s] \in R[s]
      BY <2>1, <2>4, <3>2, <3>3, FoldStays, Zenon
    <3> QED BY <3>1, <3>4
  <2> HIDE DEF value, iter
  <2> QED BY <2>8, <2>9
<1> HIDE DEF value
<1>3. \/ Parser!FromStrRadix(radix, txt) = Parser!Invalid
      \/ Parser!FromStrRadix(radix, txt) = value /\ ~(value >= AddrMod)
           /\ \A k \in DOMAIN digits : Parser!DigitValue(digits[k]) \in 0..radix - 1
  BY DEF Parser!FromStrRadix, value
<1>4. Addr = 0..AddrMod - 1 /\ AddrMod \in Nat
  BY ConstantFacts
<1> HIDE DEF digits
<1> QED BY <1>2, <1>3, <1>4

LEMMA ParsedIsAddress ==
  ASSUME NEW txt \in Seq(STRING)
  PROVE  Parser!ParseNumber(txt) \in Addr \cup {Parser!Invalid}
<1> DEFINE solid == {k \in DOMAIN txt : txt[k] # " "}
           s == Parser!Trimmed(txt)
<1>1. s \in Seq(STRING)
  <2>1. CASE solid = {}
    <3>1. s = <<>>
      BY <2>1 DEF Parser!Trimmed
    <3> HIDE DEF s
    <3> QED BY <3>1
  <2>2. CASE solid # {}
    <3>1. solid \in SUBSET (1..Len(txt)) /\ Len(txt) \in Nat
      <4>1. DOMAIN txt = 1..Len(txt) /\ Len(txt) \in Nat
        OBVIOUS
      <4>2. solid \subseteq DOMAIN txt
        OBVIOUS
      <4> HIDE DEF solid
      <4> QED BY <4>1, <4>2
    <3> HIDE DEF solid
    <3>2. Parser!Max(solid) \in 1..Len(txt)
      BY <2>2, <3>1, GreatestPicks
    <3>3. Parser!Min(solid) \in 1..Len(txt)
      <4>1. solid \subseteq Nat
        BY <3>1
      <4>2. \E x \in solid : \A y \in solid : x <= y
        BY <2>2, <4>1, LeastMember, Zenon
      <4>3. Parser!Min(solid) \in solid
        BY <4>2 DEF Parser!Min
      <4> QED BY <3>1, <4>3
    <3> HIDE DEF Parser!Min, Parser!Max
    <3>4. s = SubSeq(txt, Parser!Min(solid), Parser!Max(solid))
      BY <2>2 DEF Parser!Trimmed, solid
    <3> DEFINE i == Parser!Min(solid)
               j == Parser!Max(solid)
    <3> HIDE DEF i, j
    <3>5. \A a, b \in 1..Len(txt) : SubSeq(txt, a, b) \in Seq(STRING)
      OBVIOUS
    <3> QED BY <3>2, <3>3, <3>4, <3>5
  <2> QED BY <2>1, <2>2
<1> HIDE DEF s
<1>2. s # <<>> => Tail(s) \in Seq(STRING)
  BY <1>1
<1>3. 16 \in Nat /\ 10 \in Nat
  OBVIOUS
<1>4. Parser!ParseNumber(txt) =
        IF s # <<>> /\ Head(s) \in {"0x", "0X"} THEN Parser!FromStrRadix(16, Tail(s))
        ELSE Parser!FromStrRadix(10, s)
  BY DEF Parser!ParseNumber, s
<1> QED BY <1>1, <1>2, <1>3, <1>4, FromStrRadixIsAddress

-----------------------------------------------------------------------------
\* The control of run.

Stages == {"populating", "voting", "ranking", "refining", "selecting", "done"}

FunctionsUnreadable == Given(args.functions) /\ ~args.functions[1].readable

Unusable == BadOptions \/ TooSmall \/ FunctionsUnreadable \/ BadBase

\* What Load makes of the arguments, and StartSearch of that.
ImageOf(words, regions) ==
  [content |-> args.file.content, psize |-> PSize,
   length |-> Cardinality(DOMAIN args.file.content), align |-> Align,
   deep |-> args.deep, ptrAligned |-> args.ptrAligned,
   threads |-> IF args.threads < 1 THEN 1 ELSE args.threads,
   symbols |-> Given(args.functions),
   words |-> words, regions |-> regions]

SearchImage ==
  \E order \in {"Little", "Big"}, map \in Maps :
    /\ input = ImageOf(Finder!WordsOf(args.file.content, PSize, order), map)
    /\ \A k \in DOMAIN map :
         map[k].offset + map[k].size <= Cardinality(DOMAIN args.file.content)

\* The two ways to panic.
Wraps ==
  Parser!ParseNumber(args.base[1]) + Cardinality(DOMAIN args.file.content) > AddrMod

PanicsInUds == Given(args.base) /\ symbols # <<>> /\ Wraps

PanicsInSearch == ~Given(args.base) /\ args.threads > 1 /\ Len(kept) > 1

ControlInv ==
  /\ args \in Arguments
  /\ pc \in {"options", "symbols", "mode", "refused", "panicked", "exit"} \cup Stages
  /\ pc # "exit" => exit = "running" /\ answer = NoAnswer
  /\ pc \notin {"options", "exit"} => ~BadOptions /\ ~TooSmall
  /\ pc \notin {"options", "symbols", "exit"} => ~FunctionsUnreadable
  /\ pc = "symbols" => Given(args.functions)
  /\ pc \in {"symbols", "mode"} => input = ImageOf(<<>>, <<>>)
  /\ pc \in Stages \cup {"refused", "panicked"} => ~Given(args.base) /\ SearchImage
  /\ pc \in {"options", "symbols", "mode", "refused"} => list = <<>>
  /\ pc \in {"ranking", "refining", "selecting", "done", "panicked"} => list # <<>>
  /\ pc = "panicked" => PanicsInSearch
  /\ pc = "exit" =>
       \/ /\ exit = "FAILURE" /\ answer = NoAnswer
          /\ Unusable \/ (~Given(args.base) /\ list = <<>>)
       \/ /\ exit = "SUCCESS" /\ ~Unusable
          /\ IF Given(args.base) THEN answer.mode = "uds"
             ELSE answer.mode = "base" /\ list # <<>>
       \/ /\ exit = "PANIC" /\ answer = NoAnswer /\ ~Unusable
          /\ PanicsInUds \/ (PanicsInSearch /\ list # <<>>)

LEMMA ParsedOption ==
  ASSUME NEW option \in Seq(Seq(STRING)), Given(option)
  PROVE  Unparsable(option) <=> Parser!ParseNumber(option[1]) \notin Addr
<1>1. option[1] \in Seq(STRING)
  <2>1. Len(option) # 0 /\ Len(option) \in Nat
    BY EmptySeq DEF Given
  <2>2. 1 \in 1..Len(option)
    BY <2>1
  <2> QED BY <2>2
<1>2. Parser!Invalid \notin Addr
  BY ConstantFacts DEF Parser!Invalid
<1> QED BY <1>1, <1>2, ParsedIsAddress DEF Unparsable

\* The arguments run refuses are those of no use.
LEMMA ControlGivesFailsOrAnswers ==
  ASSUME ControlInv
  PROVE  FailsOrAnswers
<1> SUFFICES ASSUME pc = "exit" PROVE FailsOrAnswers
  BY DEF FailsOrAnswers
<1> DEFINE unusable ==
          \/ args.arch \notin {"32", "64"}
          \/ Given(args.endian) /\ args.endian[1] \notin {"le", "be"}
          \/ \E number \in {args.align, args.base} :
               Given(number) /\ Parser!ParseNumber(number[1]) \notin Addr
          \/ ~args.file.readable
          \/ Cardinality(DOMAIN args.file.content) <
               IF args.arch = "32" THEN WordBytes ELSE 2 * WordBytes
          \/ Given(args.functions) /\ ~args.functions[1].readable
<1>1. args.align \in Seq(Seq(STRING)) /\ args.base \in Seq(Seq(STRING))
  BY ArgumentsAssumption DEF ControlInv, WellFormed
<1>2. DOMAIN PointerSize = {"32", "64"} /\ DOMAIN Order = {"le", "be"}
  BY DEF PointerSize, Order
<1>3. args.arch \in {"32", "64"} => PSize = IF args.arch = "32" THEN WordBytes ELSE 2 * WordBytes
  BY DEF PSize, PointerSize
<1>4. \A number \in {args.align, args.base} :
        Unparsable(number) <=> Given(number) /\ Parser!ParseNumber(number[1]) \notin Addr
  BY <1>1, ParsedOption DEF Unparsable
<1>5. unusable <=> Unusable
  <2>1. BadOptions <=> \/ args.arch \notin {"32", "64"}
                       \/ Given(args.endian) /\ args.endian[1] \notin {"le", "be"}
                       \/ Given(args.align) /\ Parser!ParseNumber(args.align[1]) \notin Addr
    BY <1>2, <1>4 DEF BadOptions
  <2>2. BadBase <=> Given(args.base) /\ Parser!ParseNumber(args.base[1]) \notin Addr
    BY <1>4 DEF BadBase
  <2>3. args.arch \in {"32", "64"} =>
          (TooSmall <=> \/ ~args.file.readable
                        \/ Cardinality(DOMAIN args.file.content) <
                             IF args.arch = "32" THEN WordBytes ELSE 2 * WordBytes)
    BY <1>3 DEF TooSmall
  <2> HIDE DEF BadOptions, BadBase, TooSmall
  <2> QED BY <2>1, <2>2, <2>3 DEF Unusable, FunctionsUnreadable
<1>6. answer = NoAnswer => answer.mode = "none"
  BY DEF NoAnswer
<1>7. FailsOrAnswers <=>
        /\ exit \in {"SUCCESS", "FAILURE", "PANIC"}
        /\ exit = "FAILURE" <=> unusable \/ (~Given(args.base) /\ list = <<>>)
        /\ exit = "PANIC" => IF Given(args.base) THEN symbols # <<>> /\ Wraps
                             ELSE args.threads > 1 /\ Len(kept) > 1
        /\ answer.mode = IF exit # "SUCCESS" THEN "none"
                         ELSE IF Given(args.base) THEN "uds" ELSE "base"
  BY DEF FailsOrAnswers, Wraps
<1>8. \/ /\ exit = "FAILURE" /\ answer = NoAnswer
         /\ Unusable \/ (~Given(args.base) /\ list = <<>>)
      \/ /\ exit = "SUCCESS" /\ ~Unusable
         /\ IF Given(args.base) THEN answer.mode = "uds"
            ELSE answer.mode = "base" /\ list # <<>>
      \/ /\ exit = "PANIC" /\ answer = NoAnswer /\ ~Unusable
         /\ PanicsInUds \/ (PanicsInSearch /\ list # <<>>)
  BY DEF ControlInv
<1> HIDE DEF unusable, Unusable, Wraps, Given
<1> QED BY <1>5, <1>6, <1>7, <1>8 DEF PanicsInUds, PanicsInSearch

LEMMA InitControl ==
  ASSUME Init
  PROVE  ControlInv
BY DEF Init, ControlInv, Stages

\* The steps of find_base_address.
LEMMA SearchMoves ==
  ASSUME SearchBaseAddress
  PROVE  /\ UNCHANGED <<args, exit, answer, rest, symbols, added, input>>
         /\ \/ pc = "populating" /\ pc' \in {"populating", "voting"}
            \/ /\ list' = list
               /\ \/ pc = "voting" /\ pc' = "refused" /\ list = <<>>
                  \/ pc = "voting" /\ pc' = "voting"
                  \/ pc = "voting" /\ pc' = "ranking" /\ list # <<>>
                  \/ pc = "ranking" /\ pc' = "refining"
                  \/ pc = "refining" /\ pc' = "selecting"
                  \/ /\ pc = "refining" /\ pc' = "panicked" /\ kept' = kept
                     /\ input.threads > 1 /\ Len(kept) > 1
                  \/ pc = "selecting" /\ pc' = "done"
<1>1. UNCHANGED <<args, exit, answer, rest, symbols, added>>
  BY DEF SearchBaseAddress, program, parser
<1>2. CASE AppendStrings
  BY <1>1, <1>2 DEF AppendStrings, Populating
<1>3. CASE AppendValueArrays
  <2>1. UNCHANGED input
    BY <1>3 DEF AppendValueArrays, Arrays!Next, Arrays!SkipFiller, Arrays!OpenArray,
         Arrays!ExtendArray, Arrays!CloseArray, Arrays!Advance
  <2> QED BY <1>1, <1>3, <2>1 DEF AppendValueArrays, Populating
<1>4. CASE IndexFunctions
  BY <1>1, <1>4 DEF IndexFunctions, Populating
<1>5. CASE ComputeCandidates
  <2>1. Finder!Next
    BY <1>5 DEF ComputeCandidates
  <2>2. CASE Finder!Refuse
    BY <1>1, <2>2 DEF Finder!Refuse
  <2>3. CASE Finder!VotePoi
    BY <1>1, <2>3 DEF Finder!VotePoi
  <2>4. CASE Finder!VotesCast
    BY <1>1, <2>4 DEF Finder!VotesCast
  <2>5. CASE Finder!Rank
    BY <1>1, <2>5 DEF Finder!Rank
  <2>6. CASE Finder!RefineCandidates
    BY <1>1, <2>6 DEF Finder!RefineCandidates
  <2>7. CASE Finder!SpawnRefused
    BY <1>1, <2>7 DEF Finder!SpawnRefused
  <2>8. CASE Finder!Select
    BY <1>1, <2>8 DEF Finder!Select
  <2> QED BY <2>1, <2>2, <2>3, <2>4, <2>5, <2>6, <2>7, <2>8 DEF Finder!Next
<1> QED BY <1>2, <1>3, <1>4, <1>5 DEF SearchBaseAddress, FindBaseAddress

LEMMA NextControl ==
  ASSUME ControlInv, [Next]_vars
  PROVE  ControlInv'
<1> DEFINE Same == UNCHANGED args
<1>1. ASSUME Same
      PROVE  /\ Unusable' = Unusable /\ BadOptions' = BadOptions /\ TooSmall' = TooSmall
             /\ FunctionsUnreadable' = FunctionsUnreadable /\ BadBase' = BadBase
             /\ Given(args.base)' = Given(args.base)
             /\ (args \in Arguments)' = (args \in Arguments)
  BY <1>1 DEF Unusable, BadOptions, TooSmall, PSize, FunctionsUnreadable, BadBase,
       Unparsable, Given
<1>2. ASSUME Same, UNCHANGED input
      PROVE  /\ SearchImage' = SearchImage
             /\ (input = ImageOf(<<>>, <<>>))' = (input = ImageOf(<<>>, <<>>))
  BY <1>2 DEF SearchImage, ImageOf, PSize, Align
<1>3. ASSUME Fail, UNCHANGED finder, pc # "exit",
             Unusable \/ (~Given(args.base) /\ list = <<>>)
      PROVE  ControlInv'
  <2>1. Same /\ pc' = "exit" /\ exit' = "FAILURE" /\ answer' = answer /\ list' = list
    BY <1>3 DEF Fail, finder
  <2>2. answer = NoAnswer /\ NoAnswer' = NoAnswer
    BY <1>3 DEF ControlInv, NoAnswer
  <2> HIDE DEF Same, Unusable, Given
  <2>3. Unusable' \/ (~Given(args.base)' /\ list' = <<>>)
    BY <1>1, <1>3, <2>1
  <2> QED BY <1>1, <2>1, <2>2, <2>3 DEF ControlInv, Stages
<1>4. CASE RefuseOptions
  BY <1>3, <1>4 DEF RefuseOptions, Unusable
<1>5. CASE RefuseFile
  BY <1>3, <1>5 DEF RefuseFile, Unusable
<1>6. CASE RefuseSymbols
  <2>1. FunctionsUnreadable
    <3>1. Given(args.functions)
      BY <1>6 DEF RefuseSymbols, ControlInv
    <3> QED BY <1>6, <3>1 DEF RefuseSymbols, FunctionsUnreadable
  <2> QED BY <1>3, <1>6, <2>1 DEF RefuseSymbols, Unusable
<1>7. CASE RefuseBase
  BY <1>3, <1>7 DEF RefuseBase, Unusable
<1>8. CASE NoPointsOfInterest
  <2>1. ~Given(args.base) /\ list = <<>>
    BY <1>8 DEF NoPointsOfInterest, ControlInv
  <2> QED BY <1>3, <1>8, <2>1 DEF NoPointsOfInterest
<1>9. CASE Load
  <2>1. /\ pc = "options" /\ ~BadOptions /\ ~TooSmall
        /\ input' = ImageOf(<<>>, <<>>)
        /\ pc' = IF Given(args.functions) THEN "symbols" ELSE "mode"
        /\ UNCHANGED <<args, exit, answer, list>>
    BY <1>9 DEF Load, ImageOf, program, finder
  <2>2. input' = ImageOf(<<>>, <<>>)'
    BY <2>1 DEF ImageOf, PSize, Align
  <2>3. pc' = "mode" => ~FunctionsUnreadable
    BY <2>1 DEF FunctionsUnreadable
  <2>4. pc' = "symbols" => Given(args.functions)'
    BY <2>1 DEF Given
  <2>5. NoAnswer' = NoAnswer
    BY DEF NoAnswer
  <2> HIDE DEF Same
  <2>6. Same
    BY <2>1 DEF Same
  <2> QED BY <1>1, <2>1, <2>2, <2>3, <2>4, <2>5, <2>6 DEF ControlInv, Stages
<1>10. CASE LoadSymbols \/ SymbolsLoaded
  <2>1. /\ pc = "symbols" /\ pc' \in {"symbols", "mode"} /\ args.functions[1].readable
        /\ UNCHANGED <<args, exit, answer, list, input>>
    BY <1>10 DEF LoadSymbols, SymbolsLoaded, program, finder
  <2>2. ~FunctionsUnreadable
    BY <2>1 DEF FunctionsUnreadable
  <2>3. NoAnswer' = NoAnswer /\ Given(args.functions)' = Given(args.functions)
    BY <2>1 DEF NoAnswer, Given
  <2> HIDE DEF Same
  <2>4. Same
    BY <2>1 DEF Same
  <2> QED BY <1>1, <1>2, <2>1, <2>2, <2>3, <2>4 DEF ControlInv, Stages
<1>11. CASE FindUds
  <2>1. /\ pc = "mode" /\ Given(args.base) /\ ~BadBase
        /\ exit' = "SUCCESS" /\ pc' = "exit" /\ UNCHANGED <<args, list>>
        /\ answer'.mode = "uds"
    BY <1>11 DEF FindUds, finder
  <2>2. ~Unusable
    BY <2>1 DEF ControlInv, Unusable
  <2> HIDE DEF Same
  <2>3. Same
    BY <2>1 DEF Same
  <2> QED BY <1>1, <2>1, <2>2, <2>3 DEF ControlInv, Stages
<1>12. CASE StartSearch
  <2>1. /\ pc = "mode" /\ ~Given(args.base) /\ pc' = "populating"
        /\ UNCHANGED <<args, exit, answer>>
    BY <1>12 DEF StartSearch, program
  <2>2. PICK order \in Orders, map \in {m \in Maps : Inside(m)} :
          input' = [input EXCEPT !.words = Finder!WordsOf(input.content, input.psize, order),
                                 !.regions = map]
    BY <1>12 DEF StartSearch
  <2>3. order \in {"Little", "Big"}
    <3>1. ~BadOptions
      BY <2>1 DEF ControlInv
    <3> QED BY <3>1 DEF BadOptions, Orders, Order
  <2>4. input = ImageOf(<<>>, <<>>)
    BY <2>1 DEF ControlInv
  <2>5. /\ input' = ImageOf(Finder!WordsOf(args.file.content, PSize, order), map)
        /\ input.length = Cardinality(DOMAIN args.file.content)
    BY <2>2, <2>4 DEF ImageOf
  <2>6. SearchImage'
    <3>1. \A words, regions : ImageOf(words, regions)' = ImageOf(words, regions)
      BY <2>1 DEF ImageOf, PSize, Align, Given
    <3>2. \A k \in DOMAIN map :
            map[k].offset + map[k].size <= Cardinality(DOMAIN args.file.content)
      BY <2>2, <2>5 DEF Inside
    <3>3. args' = args /\ PSize' = PSize
      BY <2>1 DEF PSize
    <3>4. map \in Maps
      BY <2>2
    <3>5. SearchImage' <=>
            \E o \in {"Little", "Big"}, m \in Maps :
              /\ input' = ImageOf(Finder!WordsOf(args.file.content, PSize, o), m)
              /\ \A k \in DOMAIN m :
                   m[k].offset + m[k].size <= Cardinality(DOMAIN args.file.content)
      BY <3>1, <3>3 DEF SearchImage
    <3> HIDE DEF ImageOf
    <3> QED BY <2>3, <2>5, <3>2, <3>4, <3>5
  <2>7. NoAnswer' = NoAnswer
    BY DEF NoAnswer
  <2> HIDE DEF Same
  <2>8. Same
    BY <2>1 DEF Same
  <2>9. ~FunctionsUnreadable
    BY <2>1 DEF ControlInv
  <2> QED BY <1>1, <2>1, <2>6, <2>7, <2>8, <2>9 DEF ControlInv, Stages
<1>13. CASE SearchBaseAddress
  <2>1. /\ UNCHANGED <<args, exit, answer, rest, symbols, added, input>>
        /\ \/ pc = "populating" /\ pc' \in {"populating", "voting"}
           \/ /\ list' = list
              /\ \/ pc = "voting" /\ pc' = "refused" /\ list = <<>>
                 \/ pc = "voting" /\ pc' = "voting"
                 \/ pc = "voting" /\ pc' = "ranking" /\ list # <<>>
                 \/ pc = "ranking" /\ pc' = "refining"
                 \/ pc = "refining" /\ pc' = "selecting"
                 \/ /\ pc = "refining" /\ pc' = "panicked" /\ kept' = kept
                    /\ input.threads > 1 /\ Len(kept) > 1
                 \/ pc = "selecting" /\ pc' = "done"
    BY <1>13, SearchMoves
  <2>2. NoAnswer' = NoAnswer
    BY DEF NoAnswer
  <2> HIDE DEF Same
  <2>3. Same /\ UNCHANGED input
    BY <2>1 DEF Same
  <2>4. pc' = "panicked" => PanicsInSearch'
    <3>1. SUFFICES ASSUME pc' = "panicked" PROVE PanicsInSearch'
      OBVIOUS
    <3>2. pc \in Stages /\ input.threads > 1 /\ Len(kept) > 1 /\ kept' = kept
      BY <2>1, <3>1 DEF Stages
    <3>3. ~Given(args.base) /\ input.threads = IF args.threads < 1 THEN 1 ELSE args.threads
      BY <3>2 DEF ControlInv, SearchImage, ImageOf
    <3>4. args.threads > 1
      BY <3>2, <3>3
    <3>5. args' = args
      BY <2>1
    <3> QED BY <3>2, <3>3, <3>4, <3>5 DEF PanicsInSearch, Given
  <2> QED BY <1>1, <1>2, <2>1, <2>2, <2>3, <2>4 DEF ControlInv, Stages
<1>14. CASE PrintBaseAddress
  <2>1. /\ pc = "done" /\ exit' = "SUCCESS" /\ pc' = "exit" /\ UNCHANGED <<args, list>>
        /\ answer'.mode = "base"
    BY <1>14 DEF PrintBaseAddress, finder
  <2>2. ~Given(args.base) /\ list # <<>> /\ ~Unusable
    <3>1. ~BadBase \/ Given(args.base)
      BY DEF BadBase, Unparsable
    <3> QED BY <2>1, <3>1 DEF ControlInv, Unusable, Stages
  <2> HIDE DEF Same
  <2>3. Same
    BY <2>1 DEF Same
  <2> QED BY <1>1, <2>1, <2>2, <2>3 DEF ControlInv, Stages
<1>15. CASE UNCHANGED vars
  <2>1. UNCHANGED <<args, exit, answer, input, list, pc, symbols, kept>>
    BY <1>15 DEF vars, program, parser, finder, search
  <2>2. NoAnswer' = NoAnswer /\ Given(args.functions)' = Given(args.functions)
    BY <2>1 DEF NoAnswer, Given
  <2> HIDE DEF Same
  <2>3. Same
    BY <2>1 DEF Same
  <2>4. (PanicsInUds <=> PanicsInUds') /\ (PanicsInSearch <=> PanicsInSearch')
    BY <2>1 DEF PanicsInUds, PanicsInSearch, Wraps, Given
  <2> QED BY <1>1, <1>2, <2>1, <2>2, <2>3, <2>4 DEF ControlInv, Stages
<1>16. CASE FindUdsPanics
  <2>1. /\ pc = "mode" /\ Given(args.base) /\ ~BadBase /\ symbols # <<>>
        /\ exit' = "PANIC" /\ pc' = "exit"
        /\ UNCHANGED <<args, answer, list, symbols>>
        /\ Parser!ParseNumber(args.base[1]) + input.length > AddrMod
    BY <1>16 DEF FindUdsPanics, finder, parser
  <2>2. ~Unusable
    BY <2>1 DEF ControlInv, Unusable
  <2> HIDE DEF Same
  <2>3. Same
    BY <2>1 DEF Same
  <2>4. NoAnswer' = NoAnswer /\ answer = NoAnswer
    BY <2>1 DEF NoAnswer, ControlInv
  <2>5. input.length = Cardinality(DOMAIN args.file.content)
    BY <2>1 DEF ControlInv, ImageOf
  <2>6. PanicsInUds'
    BY <2>1, <2>5 DEF PanicsInUds, Wraps, Given
  <2> QED BY <1>1, <2>1, <2>2, <2>3, <2>4, <2>6 DEF ControlInv, Stages
<1>17. CASE Unwind
  <2>1. /\ pc = "panicked" /\ exit' = "PANIC" /\ pc' = "exit"
        /\ UNCHANGED <<args, answer, list, kept>>
    BY <1>17 DEF Unwind, finder, search
  <2>2. PanicsInSearch /\ list # <<>> /\ ~Unusable
    <3>1. PanicsInSearch /\ ~Given(args.base)
      BY <2>1 DEF ControlInv
    <3>2. ~BadBase
      BY <3>1 DEF BadBase, Unparsable
    <3> QED BY <2>1, <3>1, <3>2 DEF ControlInv, Unusable
  <2> HIDE DEF Same
  <2>3. Same
    BY <2>1 DEF Same
  <2>4. NoAnswer' = NoAnswer /\ answer = NoAnswer
    BY <2>1 DEF NoAnswer, ControlInv
  <2>5. PanicsInSearch'
    BY <2>1, <2>2 DEF PanicsInSearch, Given
  <2> QED BY <1>1, <2>1, <2>2, <2>3, <2>4, <2>5 DEF ControlInv, Stages
<1> QED BY <1>4, <1>5, <1>6, <1>7, <1>8, <1>9, <1>10, <1>11, <1>12, <1>13, <1>14, <1>15,
     <1>16, <1>17 DEF Next, Terminated

LEMMA ControlHolds == Spec => []ControlInv
BY InitControl, NextControl, PTL DEF Spec

\* run (main.rs) ends with FAILURE exactly if an argument is of no use or
\* there is nothing to search with.  Every other run answers in the mode the
\* arguments ask for or panics, which only a UDS search with symbols in an image
\* that wraps can do, or a base address search with candidates to spread over
\* threads.  This for every set of arguments, files and symbol files.
THEOREM RunFailsOrAnswers == Spec => []FailsOrAnswers
BY ControlHolds, ControlGivesFailsOrAnswers, PTL

-----------------------------------------------------------------------------
\* The image.

\* The modules instantiated speak of the same numbers and sets.
LEMMA Links ==
  /\ \A S : Finder!Cardinality(S) = Cardinality(S) /\ Arrays!Cardinality(S) = Cardinality(S)
  /\ \A b, n : Finder!Power(b, n) = Power(b, n) /\ Arrays!Power(b, n) = Power(b, n)
  /\ \A S : IsFiniteSet(S) <=> Finder!IsFiniteSet(S)
<1>1. \A S : Finder!Cardinality(S) = Cardinality(S) /\ Arrays!Cardinality(S) = Cardinality(S)
  BY DEF Finder!Cardinality, Arrays!Cardinality, Cardinality
<1>2. \A b, n : Finder!Power(b, n) = Power(b, n) /\ Arrays!Power(b, n) = Power(b, n)
  BY DEF Finder!Power, Arrays!Power, Power
<1>3. \A S : IsFiniteSet(S) <=> Finder!IsFiniteSet(S)
  BY DEF IsFiniteSet, Finder!IsFiniteSet
<1> QED BY <1>1, <1>2, <1>3

LEMMA LargestValue ==
  /\ Finder!MaxValue(WordBytes) = WordMod - 1 /\ Finder!MaxValue(2 * WordBytes) = AddrMod - 1
  /\ Arrays!MaxValue(WordBytes) = WordMod - 1 /\ Arrays!MaxValue(2 * WordBytes) = AddrMod - 1
  /\ \A psize : Finder!MaxValue(psize) = Power(ByteBase, psize) - 1
BY Links, ConstantFacts DEF Finder!MaxValue, Arrays!MaxValue

\* One more digit.
LEMMA DigitAppended ==
  ASSUME NEW b \in Nat, NEW p \in Nat, NEW x \in 0..p - 1, NEW y \in 0..b - 1
  PROVE  x * b + y \in 0..b * p - 1
<1>1. x + 1 <= p /\ x \in Nat /\ y \in Nat
  OBVIOUS
<1>2. (x + 1) * b <= p * b
  BY <1>1
<1>3. (x + 1) * b = x * b + b /\ x * b \in Nat /\ p * b \in Nat /\ p * b = b * p
  BY <1>1
<1> DEFINE z == x * b
           w == b * p
<1>4. z \in Nat /\ w \in Nat /\ z + b <= w
  BY <1>2, <1>3
<1> HIDE DEF z, w
<1>5. z + y \in 0..w - 1
  BY <1>1, <1>4
<1> QED BY <1>5 DEF z, w

\* Bytes make a word.
LEMMA WordsAreNumbers ==
  ASSUME NEW content, NEW psize \in Nat \ {0}, NEW order, NEW pos \in Nat,
         \A b \in DOMAIN content : content[b] \in 0..ByteBase - 1
  PROVE  Finder!ReadAs(content, psize, order, pos) \in 0..Finder!MaxValue(psize)
<1> DEFINE byte(j) == Finder!ByteAt(content, IF order = "Big" THEN pos + j - 1 ELSE pos + psize - j)
           Body(f) == [j \in 0..psize |-> IF j = 0 THEN 0 ELSE f[j - 1] * ByteBase + byte(j)]
           value == CHOOSE f : f = Body(f)
           step == [j \in 1..psize |-> [v \in Nat |-> v * ByteBase + byte(j)]]
<1>1. \A j : byte(j) \in 0..ByteBase - 1
  BY ConstantFacts DEF Finder!ByteAt
<1> HIDE DEF byte
<1>2. \A v \in Nat, j \in 1..psize : v * ByteBase + byte(j) \in Nat
  BY <1>1, ConstantFacts
<1>3. step \in [1..psize -> [Nat -> Nat]]
  BY <1>2
<1>4. \A j \in 1..psize, v \in Nat : step[j][v] = v * ByteBase + byte(j)
  OBVIOUS
<1> HIDE DEF step
<1>5. PICK f : Computes(f, psize, Nat, 0, step)
  <2>1. 0 \in Nat /\ psize \in Nat
    OBVIOUS
  <2> QED BY <1>3, <2>1, Recursion, Zenon
<1>6. f = Body(f)
  <2>1. ASSUME NEW j \in 0..psize
        PROVE  f[j] = IF j = 0 THEN 0 ELSE f[j - 1] * ByteBase + byte(j)
    <3>1. CASE j # 0
      <4>1. j \in 1..psize /\ j - 1 \in 0..psize /\ f[j - 1] \in Nat
        BY <1>5, <3>1 DEF Computes
      <4> QED BY <1>4, <1>5, <3>1, <4>1 DEF Computes
    <3> QED BY <1>5, <3>1 DEF Computes
  <2>2. DOMAIN f = 0..psize /\ f = [j \in 0..psize |-> f[j]]
    BY <1>5 DEF Computes
  <2> QED BY <2>1, <2>2
<1>7. value = Body(value)
  <2> HIDE DEF Body
  <2> QED BY <1>6
<1>8. Finder!ReadAs(content, psize, order, pos) = value[psize]
  BY DEF Finder!ReadAs, byte
<1> HIDE DEF value
<1>9. ByteBase \in Nat /\ psize \in Nat
  BY ConstantFacts
<1>10. value[0] = 0 /\ \A j \in 1..psize : value[j] = value[j - 1] * ByteBase + byte(j)
  <2>1. 0 \in 0..psize /\ \A j \in 1..psize : j \in 0..psize /\ j # 0
    BY <1>9
  <2> QED BY <1>7, <2>1
<1> DEFINE Yes == {TRUE}
           below == [j \in 0..psize |-> value[j] \in 0..Power(ByteBase, j) - 1]
<1>11. below[0] \in Yes
  <2>1. 0 \in 0..psize /\ 0 \in 0..1 - 1
    BY <1>9
  <2> QED BY <1>9, <1>10, <2>1, PowerFacts
<1>12. ASSUME NEW j \in 1..psize, below[j - 1] \in Yes PROVE below[j] \in Yes
  <2>1. j - 1 \in 0..psize /\ j \in 0..psize /\ j - 1 \in Nat /\ (j - 1) + 1 = j
    BY <1>9
  <2>2. /\ Power(ByteBase, j - 1) \in Nat
        /\ Power(ByteBase, (j - 1) + 1) = ByteBase * Power(ByteBase, j - 1)
    BY <1>9, <2>1, PowerFacts
  <2>3. value[j - 1] \in 0..Power(ByteBase, j - 1) - 1
    BY <1>12, <2>1
  <2>4. value[j] \in 0..ByteBase * Power(ByteBase, j - 1) - 1
    <3> DEFINE p == Power(ByteBase, j - 1)
               x == value[j - 1]
               y == byte(j)
    <3>1. p \in Nat /\ x \in 0..p - 1 /\ y \in 0..ByteBase - 1
      BY <1>1, <2>2, <2>3
    <3>2. value[j] = x * ByteBase + y
      BY <1>10
    <3> HIDE DEF p, x, y
    <3>3. x * ByteBase + y \in 0..ByteBase * p - 1
      BY <1>9, <3>1, DigitAppended
    <3> QED BY <3>2, <3>3 DEF p
  <2> QED BY <2>1, <2>2, <2>4
<1>13. below[psize] \in Yes
  <2> HIDE DEF below, Yes
  <2>1. \A j \in 0..psize : below[j] \in Yes
    BY <1>9, <1>11, <1>12, RecursionStays, Zenon
  <2>2. psize \in 0..psize
    BY <1>9
  <2> QED BY <2>1, <2>2
<1> QED
  <2>1. psize \in 0..psize
    BY <1>9
  <2>2. Finder!MaxValue(psize) = Power(ByteBase, psize) - 1
    BY LargestValue
  <2> QED BY <1>8, <1>13, <2>1, <2>2

\* What the stages use of the image.
ImageFacts ==
  /\ input.psize \in Nat \ {0} /\ input.length \in Nat /\ input.length >= input.psize
  /\ input.psize = IF args.arch = "32" THEN WordBytes ELSE 2 * WordBytes
  /\ DOMAIN input.content = 0..input.length - 1
  /\ DOMAIN input.words = 0..(input.length - 1) \div input.psize
  /\ \A w \in DOMAIN input.words : input.words[w] \in 0..Finder!MaxValue(input.psize)
  /\ input.align \in Addr
  /\ {input.deep, input.ptrAligned, input.symbols} \subseteq BOOLEAN
  /\ input.regions \in Seq([offset : Nat, size : Nat, type : Arrays!RegionType])

LEMMA ImageIsSound ==
  ASSUME ControlInv, pc \in Stages
  PROVE  ImageFacts
<1>1. PICK order \in {"Little", "Big"}, map \in Maps :
        input = ImageOf(Finder!WordsOf(args.file.content, PSize, order), map)
  BY DEF ControlInv, SearchImage
<1>2. args \in Arguments /\ ~BadOptions /\ ~TooSmall
  BY DEF ControlInv, Stages
<1>3. WellFormed(args)
  BY <1>2, ArgumentsAssumption
<1>4. args.arch \in {"32", "64"} /\ ~(Given(args.align) /\ Unparsable(args.align))
  BY <1>2 DEF BadOptions, PointerSize, Unparsable
<1>5. PSize \in Nat \ {0} /\ PSize = IF args.arch = "32" THEN WordBytes ELSE 2 * WordBytes
  <2>1. PSize = IF args.arch = "32" THEN WordBytes ELSE 2 * WordBytes
    BY <1>4 DEF PSize, PointerSize
  <2> QED BY <2>1, ConstantFacts
<1> DEFINE n == Cardinality(DOMAIN args.file.content)
<1>6. n \in Nat /\ DOMAIN args.file.content = 0..n - 1
      /\ args.file.content \in [0..n - 1 -> 0..ByteBase - 1]
  BY <1>3, FS_CardinalityType DEF WellFormed
<1>7. n >= PSize
  <2> HIDE DEF n
  <2>1. ~(n < PSize)
    BY <1>2 DEF TooSmall, n
  <2> QED BY <1>5, <1>6, <2>1
<1>8. input.psize = PSize /\ input.length = n /\ input.content = args.file.content
      /\ input.align = Align /\ input.deep = args.deep /\ input.ptrAligned = args.ptrAligned
      /\ input.symbols = Given(args.functions) /\ input.regions = map
      /\ input.words = Finder!WordsOf(args.file.content, PSize, order)
  BY <1>1 DEF ImageOf
<1>9. Align \in Addr
  <2>1. CASE Given(args.align)
    <3>1. args.align \in Seq(Seq(STRING))
      BY <1>3 DEF WellFormed
    <3>2. Parser!ParseNumber(args.align[1]) \in Addr
      BY <1>4, <2>1, <3>1, ParsedOption
    <3> QED BY <2>1, <3>2 DEF Align
  <2>2. CASE ~Given(args.align)
    BY <2>2, CliAssumption DEF Align
  <2> QED BY <2>1, <2>2
<1>10. input.words = [w \in 0..(n - 1) \div PSize |->
                        Finder!ReadAs(args.file.content, PSize, order, w * PSize)]
  BY <1>8, Links DEF Finder!WordsOf
<1>11. \A w \in 0..(n - 1) \div PSize :
         Finder!ReadAs(args.file.content, PSize, order, w * PSize) \in 0..Finder!MaxValue(PSize)
  <2> SUFFICES ASSUME NEW w \in 0..(n - 1) \div PSize
               PROVE  Finder!ReadAs(args.file.content, PSize, order, w * PSize)
                        \in 0..Finder!MaxValue(PSize)
    OBVIOUS
  <2>1. w \in Nat
    OBVIOUS
  <2>2. w * PSize \in Nat
    BY <1>5, <2>1
  <2>3. \A b \in DOMAIN args.file.content : args.file.content[b] \in 0..ByteBase - 1
    BY <1>6
  <2> QED BY <1>5, <2>2, <2>3, WordsAreNumbers
<1>12. {args.deep, args.ptrAligned, Given(args.functions)} \subseteq BOOLEAN
  BY <1>3 DEF WellFormed, Given
<1>13. map \in Seq([offset : Nat, size : Nat, type : Arrays!RegionType])
  BY MapsAssumption
<1> HIDE DEF n
<1>14. DOMAIN input.words = 0..(input.length - 1) \div input.psize
  BY <1>8, <1>10
<1>15. \A w \in DOMAIN input.words : input.words[w] \in 0..Finder!MaxValue(input.psize)
  BY <1>8, <1>10, <1>11
<1> QED BY <1>5, <1>6, <1>7, <1>8, <1>9, <1>12, <1>13, <1>14, <1>15 DEF ImageFacts

-----------------------------------------------------------------------------
\* The symbol file.

\* Find returns the first place of a token, or 0.
LEMMA FindIsFirst ==
  ASSUME NEW line \in Seq(STRING), NEW token
  PROVE  /\ Parser!Find(line, token) \in 0..Len(line)
         /\ Parser!Find(line, token) = 0 => \A i \in 1..Len(line) : line[i] # token
         /\ Parser!Find(line, token) > 0 =>
              /\ line[Parser!Find(line, token)] = token
              /\ \A i \in 1..Parser!Find(line, token) - 1 : line[i] # token
<1> DEFINE I == {i \in 1..Len(line) : line[i] = token}
           f == Parser!Find(line, token)
<1>1. f = IF I # {} THEN Parser!Min(I) ELSE 0
  BY DEF Parser!Find, Parser!SelectInSeq
<1>2. Len(line) \in Nat
  OBVIOUS
<1>3. CASE I = {}
  <2>1. f = 0
    BY <1>1, <1>3
  <2>2. \A i \in 1..Len(line) : line[i] # token
    BY <1>3
  <2> HIDE DEF f
  <2> QED BY <1>2, <2>1, <2>2 DEF f
<1>4. CASE I # {}
  <2>1. \E x \in I : \A y \in I : x <= y
    <3>1. I \subseteq Nat
      OBVIOUS
    <3> HIDE DEF I
    <3> QED BY <1>4, <3>1, LeastMember, Zenon
  <2>2. f \in I /\ \A y \in I : f <= y
    <3> HIDE DEF I
    <3>1. f = CHOOSE x \in I : \A y \in I : x =< y
      BY <1>1, <1>4 DEF Parser!Min
    <3> HIDE DEF f
    <3> QED BY <2>1, <3>1
  <2> HIDE DEF f
  <2>3. f \in 1..Len(line) /\ line[f] = token
    BY <2>2
  <2>4. ASSUME NEW i \in 1..f - 1 PROVE line[i] # token
    <3>1. i \in 1..Len(line) /\ ~(f <= i)
      BY <1>2, <2>3
    <3> QED BY <2>2, <3>1
  <2> QED BY <1>2, <2>3, <2>4 DEF f
<1> QED BY <1>3, <1>4

LEMMA PartOfSequence ==
  ASSUME NEW T, NEW s \in Seq(T), NEW i \in 1..Len(s) + 1, NEW j \in i - 1..Len(s)
  PROVE  /\ SubSeq(s, i, j) \in Seq(T) /\ Len(SubSeq(s, i, j)) = j - i + 1
         /\ \A m \in 1..j - i + 1 : SubSeq(s, i, j)[m] = s[i + m - 1]
BY SubSeqProperties

\* Where the P-th place of txt[i..j] and the places behind it are.
LEMMA PlacesBehind ==
  ASSUME NEW i \in Nat, NEW j \in Int, NEW n \in Nat, n = j - i + 1, NEW P \in 1..n,
         NEW p \in Int, p = i + P - 1
  PROVE  /\ p \in i..j /\ p - i + 1 = P
         /\ \A m \in i..p - 1 : m - i + 1 \in 1..P - 1 /\ m \in i..j
         /\ P + 1 \in 1..n + 1 /\ n \in (P + 1) - 1..n /\ n - (P + 1) + 1 = j - p /\ P \in Nat
         /\ \A m \in 1..j - p : /\ (P + 1) + m - 1 \in 1..n
                                /\ i + ((P + 1) + m - 1) - 1 = p + m
                                /\ p + m \in i..j
<1>1. P \in Int /\ 1 <= P /\ P <= n /\ p \in Int
  OBVIOUS
<1>2. p \in i..j /\ p - i + 1 = P
  BY <1>1
<1>3. ASSUME NEW m \in i..p - 1 PROVE m - i + 1 \in 1..P - 1 /\ m \in i..j
  BY <1>1
<1>4. P + 1 \in 1..n + 1 /\ n \in (P + 1) - 1..n /\ n - (P + 1) + 1 = j - p /\ P \in Nat
  BY <1>1
<1>5. ASSUME NEW m \in 1..j - p
      PROVE  /\ (P + 1) + m - 1 \in 1..n
             /\ i + ((P + 1) + m - 1) - 1 = p + m
             /\ p + m \in i..j
  BY <1>1
<1> QED BY <1>2, <1>3, <1>4, <1>5

\* Where the places before the blank that is Q places behind p are.
LEMMA PlacesBefore ==
  ASSUME NEW p \in Nat, NEW len \in Nat, NEW j \in Int, j <= len, p <= j, 1 <= p,
         NEW Q \in 1..j - p, NEW e \in Int, e = p + Q
  PROVE  /\ p + 1 \in 1..len + 1 /\ e - 1 \in (p + 1) - 1..len /\ (e - 1) - (p + 1) + 1 = Q - 1
         /\ \A m \in p + 1 .. e - 1 : m - p \in 1..Q - 1 /\ m - p \in 1..j - p /\ p + (m - p) = m
<1>1. Q \in Int /\ 1 <= Q /\ Q <= j - p
  OBVIOUS
<1>2. p + 1 \in 1..len + 1 /\ e - 1 \in (p + 1) - 1..len /\ (e - 1) - (p + 1) + 1 = Q - 1
  BY <1>1
<1>3. ASSUME NEW m \in p + 1 .. e - 1
      PROVE  m - p \in 1..Q - 1 /\ m - p \in 1..j - p /\ p + (m - p) = m
  BY <1>1
<1> QED BY <1>2, <1>3

\* A line names the number parse_line takes from it, if any.
LEMMA LineNames ==
  ASSUME NEW txt \in Seq(STRING), Given(args.functions), txt = args.functions[1].text,
         NEW i \in 1..Len(txt) + 1, NEW j \in i - 1..Len(txt)
  PROVE  /\ Parser!Named(i, j) = {Parser!ParseLine(SubSeq(txt, i, j))} \ {Parser!Invalid}
         /\ Parser!ParseLine(SubSeq(txt, i, j)) \in Addr \cup {Parser!Invalid}
<1> DEFINE line == SubSeq(txt, i, j)
           P == Parser!Prefix(line)
           behind == SubSeq(line, P + 1, Len(line))
           Q == Parser!Find(behind, " ")
           p == i + P - 1
           e == p + Q
           number == SubSeq(behind, 1, Q - 1)
<1>1. /\ i \in Nat /\ j \in Int /\ Len(txt) \in Nat /\ Len(line) = j - i + 1
      /\ line \in Seq(STRING) /\ Len(line) \in Nat
      /\ \A m \in 1..Len(line) : line[m] = txt[i + m - 1]
  BY PartOfSequence
<1>0. i \in Nat /\ j \in Int /\ Len(line) = j - i + 1 /\ Len(txt) \in Nat /\ j <= Len(txt)
      /\ 1 <= i
  BY <1>1
<1>2. \A m \in i..j : m - i + 1 \in 1..Len(line) /\ txt[m] = line[m - i + 1]
  <2> SUFFICES ASSUME NEW m \in i..j
               PROVE  m - i + 1 \in 1..Len(line) /\ txt[m] = line[m - i + 1]
    OBVIOUS
  <2>1. m - i + 1 \in 1..Len(line) /\ i + (m - i + 1) - 1 = m
    BY <1>1
  <2> QED BY <1>1, <2>1
<1> HIDE DEF line
<1> DEFINE Mark(x) ==
             \/ txt[x] = "0x" /\ \A m \in i..x - 1 : txt[m] # "0x"
             \/ /\ txt[x] = "0X" /\ \A m \in i..x - 1 : txt[m] # "0X"
                /\ \A m \in i..j : txt[m] # "0x"
           Stop(x, y) == x < y /\ txt[y] = " " /\ \A m \in x + 1 .. y - 1 : txt[m] # " "
<1>3. \A x, y : Parser!Around(i, j, x, y) <=> Stop(x, y) /\ Mark(x)
  BY DEF Parser!Around
<1>4. P \in 0..Len(line)
  BY <1>1, FindIsFirst DEF Parser!Prefix
<1>12. ASSUME P # 0
       PROVE  /\ p \in i..j /\ p - i + 1 = P
              /\ \A m \in i..p - 1 : m - i + 1 \in 1..P - 1 /\ m \in i..j
              /\ P + 1 \in 1..Len(line) + 1 /\ Len(line) \in (P + 1) - 1..Len(line)
              /\ Len(line) - (P + 1) + 1 = j - p /\ P \in Nat
              /\ \A m \in 1..j - p : /\ (P + 1) + m - 1 \in 1..Len(line)
                                     /\ i + ((P + 1) + m - 1) - 1 = p + m
                                     /\ p + m \in i..j
  <2> HIDE DEF P
  <2>1. P \in 1..Len(line) /\ p \in Int /\ p = i + P - 1
    BY <1>1, <1>4, <1>12
  <2> HIDE DEF p
  <2> QED BY <1>1, <2>1, PlacesBehind
<1>5. P = 0 => \A x \in i..j : ~Mark(x)
  <2>1. SUFFICES ASSUME P = 0 PROVE \A x \in i..j : ~Mark(x)
    OBVIOUS
  <2>2. Parser!Find(line, "0x") = 0 /\ Parser!Find(line, "0X") = 0
    <3>1. Parser!Find(line, "0x") \in 0..Len(line)
      BY <1>1, FindIsFirst
    <3> QED BY <1>1, <2>1, <3>1 DEF Parser!Prefix
  <2>3. \A m \in 1..Len(line) : line[m] # "0x" /\ line[m] # "0X"
    BY <1>1, <2>2, FindIsFirst
  <2> QED BY <1>2, <2>3
<1>6. P # 0 => p \in i..j /\ Mark(p) /\ \A x \in i..j : Mark(x) => x = p
  <2>1. SUFFICES ASSUME P # 0
                 PROVE  p \in i..j /\ Mark(p) /\ \A x \in i..j : Mark(x) => x = p
    OBVIOUS
  <2>2. p \in i..j /\ txt[p] = line[P]
    <3>1. p \in i..j /\ p - i + 1 = P
      BY <1>12, <2>1, Zenon
    <3> HIDE DEF p, P
    <3> QED BY <1>2, <3>1
  <2>3. \A m \in i..p - 1 : m - i + 1 \in 1..P - 1 /\ m \in i..j
    BY <1>12, <2>1, Zenon
  <2> DEFINE f == Parser!Find(line, "0x")
             g == Parser!Find(line, "0X")
  <2>4. /\ f \in 0..Len(line) /\ g \in 0..Len(line)
        /\ P = IF f > 0 THEN f ELSE g
        /\ f = 0 => \A m \in 1..Len(line) : line[m] # "0x"
        /\ f > 0 => line[f] = "0x" /\ \A m \in 1..f - 1 : line[m] # "0x"
        /\ g > 0 => line[g] = "0X" /\ \A m \in 1..g - 1 : line[m] # "0X"
    BY <1>1, FindIsFirst DEF Parser!Prefix
  <2> HIDE DEF P, p, f, g, Mark
  <2>5. CASE f > 0
    <3>1. txt[p] = "0x" /\ \A m \in i..p - 1 : txt[m] # "0x"
      BY <1>2, <2>2, <2>3, <2>4, <2>5
    <3>2. Mark(p)
      BY <3>1 DEF Mark
    <3>3. ASSUME NEW x \in i..j, Mark(x) PROVE x = p
      <4>1. txt[x] = "0x" /\ \A m \in i..x - 1 : txt[m] # "0x"
        BY <2>2, <3>1, <3>3 DEF Mark
      <4>2. ~(x < p) /\ ~(p < x)
        <5>1. x < p => x \in i..p - 1
          BY <1>1, <2>2
        <5>2. p < x => p \in i..x - 1
          BY <1>1, <2>2
        <5> QED BY <3>1, <4>1, <5>1, <5>2
      <4> QED BY <1>1, <2>2, <4>2
    <3> QED BY <2>2, <3>2, <3>3
  <2>6. CASE f = 0
    <3>1. P = g /\ g > 0
      BY <1>1, <2>1, <2>4, <2>6
    <3>2. txt[p] = "0X" /\ \A m \in i..p - 1 : txt[m] # "0X"
      BY <1>2, <2>2, <2>3, <2>4, <3>1
    <3>3. \A m \in i..j : txt[m] # "0x"
      BY <1>2, <2>4, <2>6
    <3>4. Mark(p)
      BY <3>2, <3>3 DEF Mark
    <3>5. ASSUME NEW x \in i..j, Mark(x) PROVE x = p
      <4>1. txt[x] = "0X" /\ \A m \in i..x - 1 : txt[m] # "0X"
        BY <3>3, <3>5 DEF Mark
      <4>2. ~(x < p) /\ ~(p < x)
        <5>1. x < p => x \in i..p - 1
          BY <1>1, <2>2
        <5>2. p < x => p \in i..x - 1
          BY <1>1, <2>2
        <5> QED BY <3>2, <4>1, <5>1, <5>2
      <4> QED BY <1>1, <2>2, <4>2
    <3> QED BY <2>2, <3>4, <3>5
  <2> QED BY <1>1, <2>4, <2>5, <2>6
<1> DEFINE Pairs == {n \in (i..j) \X (i..j) : Parser!Around(i, j, n[1], n[2])}
           Number(x, y) == Parser!FromStrRadix(16, SubSeq(txt, x + 1, y - 1))
<1>7. Parser!Named(i, j) = {Number(n[1], n[2]) : n \in Pairs} \ {Parser!Invalid}
  BY DEF Parser!Named
<1>8. Parser!ParseLine(line) = IF P = 0 \/ Q = 0 THEN Parser!Invalid
                               ELSE Parser!FromStrRadix(16, number)
  BY DEF Parser!ParseLine
<1>9. CASE P = 0
  <2>1. Pairs = {}
    <3> HIDE DEF P, Mark, Stop
    <3> QED BY <1>3, <1>5, <1>9
  <2> HIDE DEF Pairs, P
  <2> QED BY <1>7, <1>8, <1>9, <2>1 DEF line
<1>10. CASE P # 0
  <2>1. /\ behind \in Seq(STRING) /\ Len(behind) = j - p
        /\ \A m \in 1..Len(behind) : behind[m] = txt[p + m] /\ p + m \in i..j
    <3>1. P + 1 \in 1..Len(line) + 1 /\ Len(line) \in (P + 1) - 1..Len(line)
          /\ Len(line) - (P + 1) + 1 = j - p /\ P \in Nat
      BY <1>10, <1>12, Zenon
    <3> HIDE DEF P
    <3>2. /\ behind \in Seq(STRING) /\ Len(behind) = Len(line) - (P + 1) + 1
          /\ \A m \in 1..Len(line) - (P + 1) + 1 : behind[m] = line[(P + 1) + m - 1]
      BY <1>1, <3>1, PartOfSequence
    <3> HIDE DEF behind
    <3>3. ASSUME NEW m \in 1..j - p PROVE behind[m] = txt[p + m] /\ p + m \in i..j
      <4>1. (P + 1) + m - 1 \in 1..Len(line) /\ i + ((P + 1) + m - 1) - 1 = p + m
            /\ p + m \in i..j
        BY <1>10, <1>12, Zenon
      <4> HIDE DEF p
      <4> QED BY <1>1, <3>1, <3>2, <4>1
    <3> HIDE DEF p
    <3> QED BY <3>1, <3>2, <3>3
  <2> HIDE DEF behind, P
  <2>2. p \in i..j /\ Mark(p) /\ \A x \in i..j : Mark(x) => x = p
    BY <1>6, <1>10
  <2> HIDE DEF p
  <2>0. p \in Nat /\ i <= p /\ p <= j /\ Len(behind) \in Nat /\ Len(behind) = j - p
    BY <1>0, <2>1, <2>2
  <2>3. /\ Q \in 0..Len(behind)
        /\ Q = 0 => \A m \in 1..Len(behind) : behind[m] # " "
        /\ Q > 0 => behind[Q] = " " /\ \A m \in 1..Q - 1 : behind[m] # " "
    BY <2>1, FindIsFirst
  <2> HIDE DEF Q
  <2>9. Q \in 0..Len(behind)
    BY <2>3
  <2>10. Q # 0 => Q \in 1..Len(behind)
    BY <2>0, <2>9
  <2>11. Q \in Nat
    BY <2>0, <2>9
  <2>12. ASSUME NEW y \in Int, i <= y, p < y, y <= j
         PROVE y - p \in 1..Len(behind)
    BY <2>0, <2>12
  <2>4. \A y \in i..j : Stop(p, y) => Q # 0 /\ y = e
    <3> SUFFICES ASSUME NEW y \in i..j, Stop(p, y)
                 PROVE  Q # 0 /\ y = e
      OBVIOUS
    <3>9. p < y /\ txt[y] = " " /\ \A m \in p + 1 .. y - 1 : txt[m] # " "
      OBVIOUS
    <3> HIDE DEF Stop
    <3>0. y \in Int /\ i <= y /\ y <= j
      BY <1>0
    <3>1. y - p \in 1..Len(behind) /\ p + (y - p) = y
      <4>1. y - p \in 1..Len(behind)
        BY <2>12, <3>0, <3>9
      <4>2. p + (y - p) = y
        BY <2>0, <3>0
      <4> QED BY <4>1, <4>2
    <3>2. behind[y - p] = " "
      BY <2>1, <3>1, <3>9
    <3>3. Q # 0
      BY <2>3, <3>1, <3>2
    <3>4. Q \in 1..Len(behind) /\ Q \in Nat
      BY <2>10, <2>11, <3>3
    <3>5. ~(Q < y - p)
      <4> SUFFICES ASSUME Q < y - p PROVE FALSE
        OBVIOUS
      <4>1. p + Q \in p + 1 .. y - 1
        BY <2>0, <3>0, <3>4
      <4>2. txt[p + Q] = " "
        <5>1. Q > 0
          BY <3>4
        <5> QED BY <2>1, <2>3, <3>4, <5>1
      <4> QED BY <3>9, <4>1, <4>2
    <3>6. ~(y - p < Q)
      <4> SUFFICES ASSUME y - p < Q PROVE FALSE
        OBVIOUS
      <4>1. y - p \in 1..Q - 1 /\ Q > 0
        <5>1. y - p \in Nat /\ y - p > 0
          BY <2>0, <3>1
        <5>2. Q \in Nat
          BY <3>4
        <5> QED BY <5>1, <5>2
      <4> QED BY <2>3, <3>2, <4>1
    <3> QED BY <2>0, <3>0, <3>3, <3>4, <3>5, <3>6
  <2>5. CASE Q = 0
    <3>1. Pairs = {}
      <4> HIDE DEF Mark, Stop
      <4> QED BY <1>3, <2>2, <2>4, <2>5
    <3> HIDE DEF Pairs
    <3> QED BY <1>7, <1>8, <2>5, <3>1 DEF line
  <2>6. CASE Q # 0
    <3>1. Q \in 1..Len(behind) /\ e \in i..j /\ Len(behind) \in Nat
      <4>1. Q \in 1..Len(behind) /\ Q \in Nat
        BY <2>10, <2>11, <2>6
      <4> QED BY <1>0, <2>0, <4>1
    <3>7. /\ p + 1 \in 1..Len(txt) + 1 /\ e - 1 \in (p + 1) - 1..Len(txt)
          /\ (e - 1) - (p + 1) + 1 = Q - 1
          /\ \A m \in p + 1 .. e - 1 : /\ m - p \in 1..Q - 1 /\ m - p \in 1..j - p
                                       /\ p + (m - p) = m
      <4>1. e = p + Q /\ e \in Int /\ Q \in 1..j - p
        BY <2>0, <3>1
      <4>2. 1 <= p
        BY <1>0, <2>0
      <4> HIDE DEF e
      <4> QED BY <1>0, <2>0, <4>1, <4>2, PlacesBefore
    <3>2. Stop(p, e)
      <4>1. p < e /\ txt[e] = " "
        <5>1. Q \in Nat /\ Q > 0
          BY <3>1
        <5>2. txt[p + Q] = " "
          BY <2>1, <2>3, <3>1, <5>1
        <5>3. p \in Nat
          BY <2>0
        <5>4. p < p + Q
          BY <5>1, <5>3
        <5> QED BY <5>2, <5>4
      <4>2. ASSUME NEW m \in p + 1 .. e - 1 PROVE txt[m] # " "
        <5>1. m - p \in 1..Q - 1 /\ m - p \in 1..Len(behind) /\ p + (m - p) = m
          BY <2>0, <3>7
        <5>2. Q > 0
          BY <3>1
        <5> QED BY <2>1, <2>3, <5>1, <5>2
      <4> QED BY <4>1, <4>2
    <3> HIDE DEF e, Mark, Stop
    <3>3. Pairs = {<<p, e>>}
      <4>1. <<p, e>> \in Pairs
        BY <1>3, <2>2, <3>1, <3>2
      <4>2. ASSUME NEW n \in Pairs PROVE n = <<p, e>>
        <5>1. n = <<n[1], n[2]>> /\ n[1] \in i..j /\ n[2] \in i..j /\ Stop(n[1], n[2]) /\ Mark(n[1])
          BY <1>3
        <5>2. n[1] = p
          BY <2>2, <5>1
        <5>3. n[2] = e
          BY <2>4, <5>1, <5>2
        <5> QED BY <5>1, <5>2, <5>3
      <4> HIDE DEF Pairs
      <4> QED BY <4>1, <4>2
    <3>4. number = SubSeq(txt, p + 1, e - 1) /\ number \in Seq(STRING)
      <4>1. 1 \in 1..Len(behind) + 1 /\ Q - 1 \in 1 - 1..Len(behind) /\ Q - 1 - 1 + 1 = Q - 1
        BY <3>1
      <4>2. /\ number \in Seq(STRING) /\ Len(number) = Q - 1
            /\ \A m \in 1..Q - 1 : number[m] = behind[1 + m - 1]
        BY <2>1, <4>1, PartOfSequence
      <4>3. p + 1 \in 1..Len(txt) + 1 /\ e - 1 \in (p + 1) - 1..Len(txt)
            /\ (e - 1) - (p + 1) + 1 = Q - 1
        BY <3>7
      <4> DEFINE part == SubSeq(txt, p + 1, e - 1)
      <4>4. /\ part \in Seq(STRING) /\ Len(part) = Q - 1
            /\ \A m \in 1..Q - 1 : part[m] = txt[(p + 1) + m - 1]
        <5> DEFINE a == p + 1
                   b == e - 1
        <5>1. a \in 1..Len(txt) + 1 /\ b \in a - 1..Len(txt) /\ b - a + 1 = Q - 1
          BY <4>3
        <5>2. part = SubSeq(txt, a, b)
          OBVIOUS
        <5> HIDE DEF a, b, part
        <5>3. /\ part \in Seq(STRING) /\ Len(part) = b - a + 1
              /\ \A m \in 1..b - a + 1 : part[m] = txt[a + m - 1]
          BY <5>1, <5>2, PartOfSequence
        <5> QED BY <5>1, <5>3 DEF a
      <4> HIDE DEF part, number
      <4>5. ASSUME NEW m \in 1..Q - 1 PROVE number[m] = part[m]
        <5>1. 1 + m - 1 = m /\ (p + 1) + m - 1 = p + m /\ m \in 1..Len(behind)
          BY <2>2, <3>1
        <5> QED BY <2>1, <4>2, <4>4, <5>1
      <4>6. number = part
        <5>1. Len(number) = Len(part) /\ Q - 1 = Len(number)
          BY <4>2, <4>4
        <5> QED BY <4>2, <4>4, <4>5, <5>1, SeqEqual
      <4> QED BY <4>2, <4>6 DEF part
    <3> HIDE DEF Pairs, number
    <3>5. Parser!Named(i, j) = {Number(p, e)} \ {Parser!Invalid}
      <4>1. {Number(n[1], n[2]) : n \in Pairs} = {Number(p, e)}
        <5> HIDE DEF Number
        <5> QED BY <3>3
      <4> QED BY <1>7, <4>1
    <3>6. Parser!ParseLine(line) = Number(p, e)
      BY <1>8, <1>10, <2>6, <3>4
    <3>8. 16 \in Nat
      OBVIOUS
    <3>9. Number(p, e) \in Addr \cup {Parser!Invalid}
      BY <3>4, <3>8, FromStrRadixIsAddress
    <3> HIDE DEF Number
    <3> QED BY <3>5, <3>6, <3>9 DEF line
  <2> QED BY <2>5, <2>6
<1> QED BY <1>9, <1>10

-----------------------------------------------------------------------------
Text == args.functions[1].text

SymbolPoi == [type : {"Function"}, offset : Addr, count : {1}]

\* What was consumed ends with a line.
SymbolsInv ==
  /\ rest \in 0..Len(Text)
  /\ rest > 0 => Text[rest] = "\n"
  /\ Parser!SymbolsExact

ParserInv ==
  /\ symbols \in Seq(SymbolPoi)
  /\ pc = "options" => rest = 0 /\ symbols = <<>> /\ added = 0
  /\ pc = "symbols" => SymbolsInv

LEMMA TextIsTokens ==
  ASSUME ControlInv, Given(args.functions)
  PROVE  Text \in Seq(STRING)
<1> DEFINE T == [readable : BOOLEAN, text : Seq(STRING)]
<1>1. args.functions \in Seq(T)
  BY ArgumentsAssumption DEF ControlInv, WellFormed
<1>2. \A f \in T : f.text \in Seq(STRING)
  OBVIOUS
<1> HIDE DEF T
<1>3. args.functions[1] \in T
  <2>1. Len(args.functions) # 0 /\ Len(args.functions) \in Nat
    BY <1>1, EmptySeq DEF Given
  <2>2. 1 \in 1..Len(args.functions)
    BY <2>1
  <2> QED BY <1>1, <2>2
<1> QED BY <1>2, <1>3 DEF Text

\* The lines of what was consumed.
LinesTo(n) ==
  {l \in (1..n) \X (0..n - 1) : l[2] >= l[1] - 1 /\ Parser!Line(l[1], l[2])}

\* Consuming up to the next line end adds one line.
LEMMA NextLine ==
  ASSUME Text \in Seq(STRING), NEW n \in 0..Len(Text), n > 0 => Text[n] = "\n",
         NEW m \in n + 1 .. Len(Text), Text[m] = "\n",
         \A i \in n + 1 .. m - 1 : Text[i] # "\n"
  PROVE  LinesTo(m) = LinesTo(n) \cup {<<n + 1, m - 1>>}
<1>1. \A i, j : Parser!Line(i, j) <=> /\ Text[j + 1] = "\n"
                                      /\ \A t \in i..j : Text[t] # "\n"
                                      /\ i > 1 => Text[i - 1] = "\n"
  BY DEF Parser!Line, Text
<1> DEFINE txt == Text
<1>2. \A i, j : Parser!Line(i, j) <=> /\ txt[j + 1] = "\n"
                                      /\ \A t \in i..j : txt[t] # "\n"
                                      /\ i > 1 => txt[i - 1] = "\n"
  BY <1>1
<1>3. /\ n \in Nat /\ m \in Nat /\ n < m /\ (n > 0 => txt[n] = "\n") /\ txt[m] = "\n"
      /\ \A i \in n + 1 .. m - 1 : txt[i] # "\n"
  OBVIOUS
<1> HIDE DEF txt
<1>4. <<n + 1, m - 1>> \in LinesTo(m)
  <2>1. n + 1 \in 1..m /\ m - 1 \in 0..m - 1 /\ m - 1 >= (n + 1) - 1 /\ (m - 1) + 1 = m
        /\ (n + 1) - 1 = n
    BY <1>3
  <2>2. Parser!Line(n + 1, m - 1)
    <3>1. n + 1 > 1 => n > 0
      BY <1>3
    <3> QED BY <1>2, <1>3, <2>1, <3>1
  <2> QED BY <2>1, <2>2 DEF LinesTo
<1>5. ASSUME NEW l \in LinesTo(n) PROVE l \in LinesTo(m)
  <2>1. l \in (1..n) \X (0..n - 1) /\ l[2] >= l[1] - 1 /\ Parser!Line(l[1], l[2])
    BY <1>5 DEF LinesTo
  <2>2. \A x \in 1..n : x \in 1..m
    BY <1>3
  <2>3. \A x \in 0..n - 1 : x \in 0..m - 1
    BY <1>3
  <2> QED BY <2>1, <2>2, <2>3 DEF LinesTo
<1>6. ASSUME NEW l \in LinesTo(m), l \notin LinesTo(n) PROVE l = <<n + 1, m - 1>>
  <2> DEFINE i == l[1]
             j == l[2]
  <2>1. l = <<i, j>> /\ i \in 1..m /\ j \in 0..m - 1 /\ j >= i - 1 /\ Parser!Line(i, j)
    BY DEF LinesTo
  <2>2. ~(j < n)
    <3>1. SUFFICES ASSUME j < n PROVE FALSE
      OBVIOUS
    <3>2. l \in (1..n) \X (0..n - 1)
      <4> HIDE DEF i, j
      <4>1. i \in 1..n /\ j \in 0..n - 1
        BY <1>3, <2>1, <3>1
      <4> QED BY <2>1, <4>1
    <3> QED BY <1>6, <2>1, <3>2 DEF LinesTo
  <2> HIDE DEF i, j
  <2>3. i \in Nat /\ j \in Nat /\ j + 1 <= m /\ n + 1 <= j + 1 /\ i - 1 <= j /\ 1 <= i
    BY <1>3, <2>1, <2>2
  <2>4. /\ txt[j + 1] = "\n" /\ \A t \in i..j : txt[t] # "\n"
        /\ i > 1 => txt[i - 1] = "\n"
    BY <1>2, <2>1
  <2>5. j = m - 1
    <3>1. ~(j + 1 < m)
      <4>1. j + 1 < m => j + 1 \in n + 1 .. m - 1
        BY <1>3, <2>3
      <4> QED BY <1>3, <2>4, <4>1
    <3> QED BY <1>3, <2>3, <3>1
  <2>6. ~(i <= n)
    <3>1. i <= n => n \in i..j /\ n > 0
      BY <1>3, <2>3
    <3> QED BY <1>3, <2>4, <3>1
  <2>7. ~(i > n + 1)
    <3>1. i > n + 1 => i - 1 \in n + 1 .. m - 1 /\ i > 1
      BY <1>3, <2>3, <2>5
    <3> QED BY <1>3, <2>4, <3>1
  <2>8. i = n + 1
    BY <1>3, <2>3, <2>6, <2>7
  <2> QED BY <2>1, <2>5, <2>8
<1> QED BY <1>4, <1>5, <1>6

LEMMA ParseKeepsExact ==
  ASSUME ControlInv, Given(args.functions), symbols \in Seq(SymbolPoi), SymbolsInv,
         Parser!Parse, UNCHANGED args
  PROVE  (symbols \in Seq(SymbolPoi))' /\ SymbolsInv'
<1> DEFINE txt == Text
           m == Parser!Min({i \in rest + 1 .. Len(txt) : txt[i] = "\n"})
           line == SubSeq(txt, rest + 1, m - 1)
           address == Parser!ParseLine(line)
           new == address # Parser!Invalid /\ ~Parser!Known(address)
<1>1. txt \in Seq(STRING) /\ Len(txt) \in Nat /\ rest \in 0..Len(txt)
      /\ txt = args.functions[1].text
  BY TextIsTokens DEF SymbolsInv, Text
<1>2. /\ symbols' = IF new THEN Append(symbols, Parser!Function(address)) ELSE symbols
      /\ added' = IF new THEN added + 1 ELSE added
      /\ rest' = m
      /\ \E i \in rest + 1 .. Len(txt) : txt[i] = "\n"
  BY DEF Parser!Parse, Parser!AtLine, Text
<1> HIDE DEF txt
<1>3. /\ m \in rest + 1 .. Len(txt) /\ txt[m] = "\n"
      /\ \A i \in rest + 1 .. m - 1 : txt[i] # "\n"
  <2> DEFINE ends == {i \in rest + 1 .. Len(txt) : txt[i] = "\n"}
  <2>1. \E x \in ends : \A y \in ends : x <= y
    <3>1. ends \subseteq Nat /\ ends # {}
      BY <1>1, <1>2
    <3> HIDE DEF ends
    <3> QED BY <3>1, LeastMember, Zenon
  <2>2. m \in ends /\ \A y \in ends : m <= y
    <3>1. m = CHOOSE x \in ends : \A y \in ends : x =< y
      BY DEF Parser!Min
    <3> HIDE DEF ends, m
    <3> QED BY <2>1, <3>1
  <2> HIDE DEF m
  <2>3. m \in rest + 1 .. Len(txt) /\ txt[m] = "\n"
    BY <2>2
  <2>4. ASSUME NEW i \in rest + 1 .. m - 1 PROVE txt[i] # "\n"
    <3>1. i \in rest + 1 .. Len(txt) /\ ~(m <= i)
      BY <1>1, <2>3
    <3> QED BY <2>2, <3>1
  <2> QED BY <2>3, <2>4
<1> HIDE DEF m
<1>4. /\ Parser!Named(rest + 1, m - 1) = {address} \ {Parser!Invalid}
      /\ address \in Addr \cup {Parser!Invalid}
  <2>1. rest + 1 \in 1..Len(txt) + 1 /\ m - 1 \in (rest + 1) - 1..Len(txt)
    BY <1>1, <1>3
  <2> QED BY <1>1, <2>1, LineNames
<1> HIDE DEF address
<1>5. new <=> address \in Addr /\ \A i \in DOMAIN symbols : symbols[i].offset # address
  BY <1>4, ConstantFacts DEF Parser!Known, Parser!Invalid
<1> HIDE DEF new
<1> DEFINE poi == Parser!Function(address)
<1>6. new => poi \in SymbolPoi /\ poi.offset = address
  BY <1>5 DEF SymbolPoi, Parser!Function
<1> HIDE DEF poi
<1>7. symbols' \in Seq(SymbolPoi)
  <2>1. CASE new
    BY <1>2, <1>6, <2>1 DEF poi
  <2>2. CASE ~new
    BY <1>2, <2>2
  <2> QED BY <2>1, <2>2
<1>8. new => /\ DOMAIN symbols = 1..Len(symbols) /\ Len(symbols) \in Nat
             /\ DOMAIN symbols' = 1..Len(symbols) + 1 /\ Len(symbols') = Len(symbols) + 1
             /\ \A i \in 1..Len(symbols) : symbols'[i] = symbols[i]
             /\ symbols'[Len(symbols) + 1] = poi
  <2>1. SUFFICES ASSUME new
                 PROVE  /\ DOMAIN symbols = 1..Len(symbols) /\ Len(symbols) \in Nat
                        /\ DOMAIN symbols' = 1..Len(symbols) + 1
                        /\ Len(symbols') = Len(symbols) + 1
                        /\ \A i \in 1..Len(symbols) : symbols'[i] = symbols[i]
                        /\ symbols'[Len(symbols) + 1] = poi
    OBVIOUS
  <2>2. symbols' = Append(symbols, poi) /\ poi \in SymbolPoi
    BY <1>2, <1>6, <2>1 DEF poi
  <2> QED BY <2>2
<1> DEFINE At == {symbols[i].offset : i \in DOMAIN symbols}
           After == {symbols'[i].offset : i \in DOMAIN symbols'}
           Names(L) == UNION {Parser!Named(l[1], l[2]) : l \in L}
<1>9. /\ At = Names(LinesTo(rest))
      /\ \A i, j \in DOMAIN symbols : i # j => symbols[i].offset # symbols[j].offset
      /\ added = Len(symbols)
  BY DEF SymbolsInv, Parser!SymbolsExact, LinesTo
<1>10. After = Names(LinesTo(m))
  <2>1. LinesTo(m) = LinesTo(rest) \cup {<<rest + 1, m - 1>>}
    <3>1. rest > 0 => txt[rest] = "\n"
      BY DEF SymbolsInv, txt
    <3> QED BY <1>1, <1>3, <3>1, NextLine DEF txt
  <2>2. Names(LinesTo(m)) = Names(LinesTo(rest)) \cup Parser!Named(rest + 1, m - 1)
    <3> DEFINE last == <<rest + 1, m - 1>>
    <3>1. Names(LinesTo(m)) = Names(LinesTo(rest)) \cup Parser!Named(last[1], last[2])
      <4>1. LinesTo(m) = LinesTo(rest) \cup {last}
        BY <2>1
      <4> HIDE DEF last
      <4> QED BY <4>1
    <3> QED BY <3>1
  <2>3. After = IF new THEN At \cup {address} ELSE At
    <3>1. CASE new
      <4>1. After = At \cup {poi.offset}
        <5> HIDE DEF poi
        <5> QED BY <1>8, <3>1
      <4> QED BY <1>6, <3>1, <4>1
    <3>2. CASE ~new
      BY <1>2, <3>2
    <3> QED BY <3>1, <3>2
  <2>4. CASE address = Parser!Invalid
    <3>1. ~new /\ Parser!Named(rest + 1, m - 1) = {}
      BY <1>4, <1>5, <2>4, ConstantFacts DEF Parser!Invalid
    <3> HIDE DEF Names, At, After
    <3> QED BY <1>9, <2>2, <2>3, <3>1
  <2>5. CASE address # Parser!Invalid
    <3>1. Parser!Named(rest + 1, m - 1) = {address} /\ address \in Addr
      BY <1>4, <2>5
    <3>2. ~new => address \in At
      BY <1>5, <3>1
    <3> HIDE DEF Names, At, After
    <3> QED BY <1>9, <2>2, <2>3, <3>1, <3>2
  <2> QED BY <2>4, <2>5
<1>11. /\ \A i, j \in DOMAIN symbols' : i # j => symbols'[i].offset # symbols'[j].offset
       /\ added' = Len(symbols')
  <2>1. CASE new
    <3>1. added' = Len(symbols')
      BY <1>2, <1>8, <1>9, <2>1
    <3>2. symbols'[Len(symbols) + 1].offset = address
      BY <1>6, <1>8, <2>1
    <3>3. ASSUME NEW i \in DOMAIN symbols', NEW j \in DOMAIN symbols', i # j
          PROVE  symbols'[i].offset # symbols'[j].offset
      <4>1. \A t \in DOMAIN symbols' : t \in DOMAIN symbols \/ t = Len(symbols) + 1
        BY <1>8, <2>1
      <4>2. \A t \in DOMAIN symbols : symbols'[t] = symbols[t] /\ symbols[t].offset # address
        BY <1>5, <1>8, <2>1
      <4> QED BY <1>9, <3>2, <3>3, <4>1, <4>2
    <3> QED BY <3>1, <3>3
  <2>2. CASE ~new
    BY <1>2, <1>9, <2>2
  <2> QED BY <2>1, <2>2
<1>12. Parser!SymbolsExact'
  <2>1. Parser!SymbolsExact' <=>
          /\ After = UNION {Parser!Named(l[1], l[2]) :
               l \in {l \in (1..m) \X (0..m - 1) : l[2] >= l[1] - 1 /\ Parser!Line(l[1], l[2])}}
          /\ \A i, j \in DOMAIN symbols' : i # j => symbols'[i].offset # symbols'[j].offset
          /\ added' = Len(symbols')
    BY <1>2 DEF Parser!SymbolsExact, Parser!Named, Parser!Around, Parser!Line
  <2> QED BY <1>10, <1>11, <2>1 DEF LinesTo
<1>13. (rest \in 0..Len(Text))' /\ (rest > 0 => Text[rest] = "\n")'
  <2>1. Text' = txt /\ rest' = m
    BY <1>2 DEF Text, txt
  <2>2. m \in 0..Len(txt)
    BY <1>1, <1>3
  <2> QED BY <1>3, <2>1, <2>2
<1> QED BY <1>7, <1>12, <1>13 DEF SymbolsInv

LEMMA InitParser ==
  ASSUME Init
  PROVE  ParserInv
BY DEF Init, Parser!Init, ParserInv

LEMMA NextParser ==
  ASSUME ControlInv, ParserInv, [Next]_vars
  PROVE  ParserInv'
<1>1. CASE LoadSymbols
  <2>1. /\ pc = "symbols" /\ pc' = pc /\ args' = args /\ Parser!Parse
    BY <1>1 DEF LoadSymbols, program, Parser!Next
  <2>2. Given(args.functions) /\ symbols \in Seq(SymbolPoi) /\ SymbolsInv
    BY <2>1 DEF ControlInv, ParserInv
  <2>3. (symbols \in Seq(SymbolPoi))' /\ SymbolsInv'
    BY <2>1, <2>2, ParseKeepsExact
  <2> QED BY <2>1, <2>3 DEF ParserInv
<1>2. CASE Load
  <2>1. /\ pc = "options" /\ pc' # "options" /\ UNCHANGED <<args, rest, symbols, added>>
        /\ pc' = "symbols" => Given(args.functions)
    BY <1>2 DEF Load, program, parser
  <2>2. symbols' \in Seq(SymbolPoi)' /\ rest = 0 /\ symbols = <<>> /\ added = 0
    BY <2>1 DEF ParserInv, SymbolPoi
  <2>3. ASSUME Given(args.functions) PROVE SymbolsInv'
    <3>1. Len(Text) \in Nat /\ Text' = Text
      BY <2>1, <2>3, TextIsTokens DEF Text
    <3>2. Parser!SymbolsExact'
      <4>1. rest' = 0 /\ symbols' = <<>> /\ added' = 0
        BY <2>1, <2>2
      <4>2. (1..0) \X (0..0 - 1) = {}
        OBVIOUS
      <4>3. DOMAIN <<>> = {} /\ Len(<<>>) = 0
        OBVIOUS
      <4> QED BY <4>1, <4>2, <4>3 DEF Parser!SymbolsExact
    <3> QED BY <2>1, <2>2, <3>1, <3>2 DEF SymbolsInv
  <2> QED BY <2>1, <2>2, <2>3 DEF ParserInv
<1>3. ASSUME UNCHANGED <<rest, symbols, added>>,
             pc' \notin {"options", "symbols"} \/ UNCHANGED <<pc, args>>
      PROVE  ParserInv'
  <2>1. symbols' \in Seq(SymbolPoi)' /\ Text' = args'.functions[1].text
    BY <1>3 DEF ParserInv, SymbolPoi, Text
  <2>2. CASE UNCHANGED <<pc, args>>
    <3>1. SymbolsInv' = SymbolsInv
      BY <1>3, <2>2 DEF SymbolsInv, Text, Parser!SymbolsExact, Parser!Named,
           Parser!Around, Parser!Line
    <3> QED BY <1>3, <2>1, <2>2, <3>1 DEF ParserInv
  <2>3. CASE pc' \notin {"options", "symbols"}
    BY <1>3, <2>1, <2>3 DEF ParserInv
  <2> QED BY <1>3, <2>2, <2>3
<1>4. CASE RefuseOptions \/ RefuseFile \/ RefuseSymbols \/ RefuseBase \/ NoPointsOfInterest
  BY <1>3, <1>4 DEF RefuseOptions, RefuseFile, RefuseSymbols, RefuseBase,
       NoPointsOfInterest, Fail, parser
<1>5. CASE SymbolsLoaded \/ FindUds \/ FindUdsPanics \/ StartSearch \/ PrintBaseAddress \/ Unwind
  BY <1>3, <1>5 DEF SymbolsLoaded, FindUds, FindUdsPanics, StartSearch, PrintBaseAddress,
       Unwind, parser
<1>6. CASE SearchBaseAddress
  BY <1>3, <1>6, SearchMoves
<1>7. CASE UNCHANGED vars
  BY <1>3, <1>7 DEF vars, program, parser
<1> QED BY <1>1, <1>2, <1>4, <1>5, <1>6, <1>7 DEF Next, Terminated

LEMMA ParserHolds == Spec => []ParserInv
<1>1. Init => ParserInv
  BY InitParser
<1>2. ControlInv /\ ParserInv /\ [Next]_vars => ParserInv'
  BY NextParser
<1> QED BY <1>1, <1>2, ControlHolds, PTL DEF Spec

\* parse_into (symbols.rs) lists each address that an ended line of the file
\* names, once, and nothing else, for every text and every set of addresses.
THEOREM FileSymbolsExact == Spec => []SymbolsExact
<1>1. ParserInv => SymbolsExact
  BY DEF ParserInv, SymbolsInv, SymbolsExact
<1> QED BY <1>1, ParserHolds, PTL

-----------------------------------------------------------------------------
\* The scan for value arrays.

\* The array that is open begins with this word.
Opened == start \div input.psize

Close(i, j) == \A m \in i + 1 .. j : ~Arrays!Far(input.words[m], input.words[m - 1])

FarBefore(i) == i > 0 => Arrays!Far(input.words[i], input.words[i - 1])

\* The open array is a run of close values as far as it was read, and was not
\* opened late: a stretch that is being read began with it, or one word before.
ScanInv ==
  /\ next \in 0..Arrays!NbScanned /\ inArray \in BOOLEAN
  /\ ~inArray => count = 0
  /\ inArray => /\ Opened \in 0..next - 1 /\ start = Opened * input.psize
                /\ count = next - 1 - Opened /\ prev = input.words[next - 1]
                /\ ~Arrays!Filler(input.words[Opened]) /\ Close(Opened, next - 1)
  /\ \A i \in 0..next - 2 :
       /\ ~Arrays!Filler(input.words[i]) /\ ~Arrays!Filler(input.words[i + 1])
       /\ FarBefore(i) /\ Close(i, next - 1)
       => inArray /\ Opened \in {i, i + 1}

ArrayListed(a) ==
  /\ Arrays!First(a) \in Nat /\ a.offset = Arrays!First(a) * input.psize
  /\ a.count \in Nat /\ a.count > ArrayMin
  /\ Arrays!LastOf(a) + 1 < next
  /\ inArray => Arrays!LastOf(a) + 1 < Opened
  /\ Arrays!Stretch(Arrays!First(a), Arrays!LastOf(a))

ArraysAscend ==
  \A m, l \in Arrays!ArraysIn(list) :
    m < l => Arrays!LastOf(list[m]) < Arrays!First(list[l])

\* Such a stretch is to be found in the list.
Findable(i, j) ==
  /\ Arrays!Stretch(i, j) /\ ~Arrays!Filler(input.words[i + 1]) /\ FarBefore(i)

ArraysFound ==
  \A i \in 0..next - 2 : \A j \in i + ArrayMin + 2 .. next - 2 :
    Findable(i, j) =>
      \E m \in Arrays!ArraysIn(list) :
        Arrays!First(list[m]) \in {i, i + 1} /\ Arrays!LastOf(list[m]) = j

ArraysInv ==
  /\ ScanInv
  /\ \A m \in Arrays!ArraysIn(list) : ArrayListed(list[m])
  /\ ArraysAscend /\ ArraysFound

LEMMA DivBack ==
  ASSUME NEW p \in Nat \ {0}, NEW n \in Nat
  PROVE  (n * p) \div p = n
<1>1. 0 \in 0..p - 1 /\ n * p = p * n + 0
  OBVIOUS
<1>2. (p * n + 0) \div p = n
  BY <1>1, DivisionIsUnique
<1> QED BY <1>1, <1>2

\* The words scanned come first.
LEMMA ScannedIsPrefix ==
  ASSUME ImageFacts
  PROVE  /\ Arrays!NbScanned \in Nat
         /\ \A w \in 0..Arrays!NbScanned - 1 :
              w \in DOMAIN input.words /\ w * input.psize < input.length - input.psize
<1> DEFINE p == input.psize
           top == (input.length - 1) \div p
           K == {w \in DOMAIN input.words : w * p < input.length - p}
           J == {w + 1 : w \in K}
<1>1. p \in Nat \ {0} /\ input.length \in Nat /\ input.length >= p /\ DOMAIN input.words = 0..top
  BY DEF ImageFacts
<1> HIDE DEF p
<1>2. top \in Nat
  BY <1>1
<1>3. K \subseteq 0..top /\ \A w \in K : \A v \in 0..w : v \in K
  <2>1. ASSUME NEW w \in K, NEW v \in 0..w PROVE v \in K
    <3>1. w \in 0..top /\ w * p < input.length - p
      BY <1>1
    <3>2. v \in 0..top /\ v * p <= w * p
      <4>1. v \in Nat /\ w \in Nat /\ v <= w /\ v \in 0..top
        BY <1>2, <3>1
      <4>2. v * p <= w * p
        BY <1>1, <4>1
      <4> QED BY <4>1, <4>2
    <3>3. v * p < input.length - p
      <4>1. v * p \in Int /\ w * p \in Int /\ input.length - p \in Int
        BY <1>1, <1>2, <3>1, <3>2
      <4> QED BY <3>1, <3>2, <4>1
    <3> QED BY <1>1, <3>2, <3>3
  <2> QED BY <1>1, <2>1
<1> HIDE DEF K, top
<1>4. J \in SUBSET (1..top + 1) /\ \A i \in J : \A j \in 1..i : j \in J
  <2>1. ASSUME NEW i \in J, NEW j \in 1..i PROVE j \in J
    <3>1. PICK w \in K : i = w + 1
      OBVIOUS
    <3>2. j - 1 \in 0..w /\ j = (j - 1) + 1
      BY <1>2, <1>3, <3>1
    <3> QED BY <1>3, <3>1, <3>2
  <2>2. \A w \in K : w + 1 \in 1..top + 1
    BY <1>2, <1>3
  <2> QED BY <2>1, <2>2
<1>5. IsFiniteSet(J) /\ Cardinality(J) \in 0..top + 1 /\ J = 1..Cardinality(J)
  <2>1. top + 1 \in Nat
    BY <1>2
  <2> HIDE DEF J
  <2> QED BY <1>4, <2>1, PrefixCount
<1>6. K = 0..Cardinality(J) - 1
  <2>1. ASSUME NEW w \in K PROVE w \in 0..Cardinality(J) - 1
    <3>1. w + 1 \in J /\ w \in Nat
      BY <1>3
    <3> HIDE DEF J
    <3> QED BY <1>2, <1>5, <3>1
  <2>2. ASSUME NEW w \in 0..Cardinality(J) - 1 PROVE w \in K
    <3>1. w + 1 \in J /\ w \in Nat
      <4> HIDE DEF J
      <4> QED BY <1>2, <1>5
    <3>2. PICK v \in K : w + 1 = v + 1
      BY <3>1
    <3>3. v = w
      BY <1>3, <3>1, <3>2
    <3> QED BY <3>3
  <2> QED BY <2>1, <2>2
<1> DEFINE n == Cardinality(J)
<1>7. n \in Nat
  BY <1>2, <1>5
<1> HIDE DEF n, J
<1>8. K = 0..n - 1
  BY <1>6 DEF n
<1>9. Cardinality(K) = n
  <2>1. CASE n = 0
    <3>1. K = {}
      BY <1>8, <2>1
    <3> QED BY <2>1, <3>1, FS_EmptySet
  <2>2. CASE n # 0
    <3>1. Cardinality(0..n - 1) = (n - 1) - 0 + 1
      BY <1>7, <2>2, FS_Interval
    <3> QED BY <1>7, <1>8, <3>1
  <2> QED BY <2>1, <2>2
<1>10. Arrays!NbScanned = n
  BY <1>9, Links DEF Arrays!NbScanned, K, p
<1>11. \A w \in 0..n - 1 : w \in DOMAIN input.words /\ w * p < input.length - p
  BY <1>8 DEF K
<1> QED BY <1>7, <1>10, <1>11 DEF p

LEMMA ArraysInvGivesRuns ==
  ASSUME ImageFacts, ArraysInv, ArrayMin \in Nat
  PROVE  Arrays!ArraysAreRuns
<1> DEFINE p == input.psize
<1>1. p \in Nat \ {0} /\ input.length \in Nat
  BY DEF ImageFacts
<1>2. next \in 0..Arrays!NbScanned /\ Arrays!NbScanned \in Nat
  BY ScannedIsPrefix DEF ArraysInv, ScanInv
<1>3. Arrays!TypeOK
  <2>1. ASSUME NEW m \in Arrays!ArraysIn(list)
        PROVE  list[m].offset + list[m].count * p < input.length
    <3> DEFINE a == list[m]
               f == Arrays!First(a)
    <3>1. /\ f \in Nat /\ a.offset = f * p /\ a.count \in Nat
          /\ f + a.count + 1 < next
      BY DEF ArraysInv, ArrayListed, Arrays!LastOf
    <3> HIDE DEF f, a, p
    <3>2. f + a.count \in 0..Arrays!NbScanned - 1
      BY <1>2, <3>1
    <3>3. (f + a.count) * p < input.length - p
      BY <3>2, ScannedIsPrefix DEF p
    <3>4. (f + a.count) * p = f * p + a.count * p
      BY <1>1, <3>1
    <3> QED BY <1>1, <3>1, <3>3, <3>4 DEF a
  <2>2. count = IF inArray THEN next - 1 - start \div p ELSE 0
    BY DEF ArraysInv, ScanInv, Opened
  <2> QED BY <1>2, <2>1, <2>2 DEF Arrays!TypeOK, ArraysInv, ScanInv, Arrays!ArraysIn
<1>4. \A m \in Arrays!ArraysIn(list) :
        LET a == list[m]
        IN  /\ a.count > ArrayMin /\ Arrays!LastOf(a) + 1 < next
            /\ Arrays!Stretch(Arrays!First(a), Arrays!LastOf(a))
  BY DEF ArraysInv, ArrayListed
<1>5. \A i \in 0..next - 2 : \A j \in i + ArrayMin + 2 .. next - 2 :
       /\ Arrays!Stretch(i, j) /\ ~Arrays!Filler(input.words[i + 1])
       /\ i > 0 => Arrays!Far(input.words[i], input.words[i - 1])
       => \E m \in Arrays!ArraysIn(list) :
            Arrays!First(list[m]) \in {i, i + 1} /\ Arrays!LastOf(list[m]) = j
  BY DEF ArraysInv, ArraysFound, Findable, FarBefore
<1> QED BY <1>3, <1>4, <1>5 DEF Arrays!ArraysAreRuns, ArraysInv, ArraysAscend

\* The array that ends here is recorded.
ArrayAppended ==
  /\ inArray /\ ~inArray' /\ count > ArrayMin
  /\ Arrays!Far(input.words[next], input.words[next - 1])
  /\ list' = Append(list, Arrays!Poi("Array", start, count))

\* A word read.
LEMMA ScanStep ==
  ASSUME ImageFacts, ArrayMin \in Nat, ScanInv, Arrays!Next
  PROVE  /\ ScanInv' /\ next' = next + 1 /\ input' = input
         /\ inArray' => (inArray /\ Opened' = Opened) \/ (~inArray /\ Opened' = next)
         /\ list' = list \/ ArrayAppended
         /\ \A i \in 0..next - 2 :
              Findable(i, next - 1) /\ i + ArrayMin + 2 <= next - 1 =>
                ArrayAppended /\ Opened \in {i, i + 1}
<1> DEFINE W == input.words
<1>1. /\ next' = next + 1 /\ input' = input /\ prev' = W[next]
      /\ next < Arrays!NbScanned
  BY DEF Arrays!Next, Arrays!SkipFiller, Arrays!OpenArray, Arrays!ExtendArray,
       Arrays!CloseArray, Arrays!Advance, Arrays!AtWord, Arrays!Value
<1>2. next \in Nat /\ Arrays!NbScanned \in Nat /\ Arrays!NbScanned' = Arrays!NbScanned
      /\ next' \in 0..Arrays!NbScanned
  BY <1>1, ScannedIsPrefix DEF ScanInv, Arrays!NbScanned
<1>3. /\ \A v : Arrays!Filler(v)' <=> Arrays!Filler(v)
      /\ \A v, w : Arrays!Far(v, w)' <=> Arrays!Far(v, w)
      /\ \A i, j : Close(i, j)' <=> Close(i, j)
      /\ \A i : FarBefore(i)' <=> FarBefore(i)
  BY <1>1 DEF Arrays!Filler, Arrays!Far, Close, FarBefore, Arrays!MaxValue
<1> DEFINE Fresh(i) == ~Arrays!Filler(W[i]) /\ ~Arrays!Filler(W[i + 1]) /\ FarBefore(i)
<1>4. inArray \in BOOLEAN
      /\ \A i \in 0..next - 2 : Fresh(i) /\ Close(i, next - 1) => inArray /\ Opened \in {i, i + 1}
  BY DEF ScanInv
<1>5. inArray => /\ Opened \in 0..next - 1 /\ start = Opened * input.psize
                 /\ count = next - 1 - Opened /\ prev = W[next - 1]
                 /\ ~Arrays!Filler(W[Opened]) /\ Close(Opened, next - 1)
  BY DEF ScanInv
<1>6. ~inArray => count = 0
  BY DEF ScanInv
<1>7. \A i \in 0..next - 1 : Close(i, next) <=>
        Close(i, next - 1) /\ ~Arrays!Far(W[next], W[next - 1])
  BY <1>2 DEF Close
<1> DEFINE Opens == \A i \in 0..next - 1 :
                      Fresh(i) /\ Close(i, next) => inArray' /\ Opened' \in {i, i + 1}
<1>8. ScanInv' <=>
        /\ inArray' \in BOOLEAN
        /\ ~inArray' => count' = 0
        /\ inArray' => /\ Opened' \in 0..next /\ start' = Opened' * input.psize
                       /\ count' = next - Opened' /\ prev' = W[next]
                       /\ ~Arrays!Filler(W[Opened']) /\ Close(Opened', next)
        /\ Opens
  <2>1. next' - 1 = next /\ next' - 2 = next - 1
    BY <1>1, <1>2
  <2> QED BY <1>1, <1>2, <1>3, <2>1 DEF ScanInv
<1>9. \A i \in 0..next - 2 : Findable(i, next - 1) =>
        /\ Fresh(i) /\ Close(i, next - 1) /\ Arrays!Far(W[next], W[next - 1])
  <2>1. (next - 1) + 1 = next
    BY <1>2
  <2> QED BY <2>1 DEF Findable, Arrays!Stretch, Close
<1> HIDE DEF W, Fresh
<1>10. \A i \in 0..next - 2 : i \in 0..next - 1
  BY <1>2
<1>11. CASE Arrays!SkipFiller
  <2>1. /\ ~inArray /\ Arrays!Filler(W[next])
        /\ UNCHANGED <<list, inArray, start, count>>
    BY <1>11 DEF Arrays!SkipFiller, Arrays!Value, W
  <2>2. Opens
    <3> SUFFICES ASSUME NEW i \in 0..next - 1, Fresh(i), Close(i, next) PROVE FALSE
      OBVIOUS
    <3>1. CASE i = next - 1
      <4>1. i + 1 = next
        BY <1>2, <3>1
      <4> QED BY <2>1, <4>1 DEF Fresh
    <3>2. CASE i # next - 1
      <4>1. i \in 0..next - 2
        BY <1>2, <3>2
      <4> QED BY <1>4, <1>7, <2>1, <4>1
    <3> QED BY <3>1, <3>2
  <2>3. ScanInv'
    <3> HIDE DEF Opens
    <3>1. inArray' \in BOOLEAN /\ ~inArray' /\ count' = 0
      BY <1>4, <1>6, <2>1
    <3> QED BY <1>8, <2>2, <3>1
  <2> QED BY <1>1, <1>4, <1>9, <2>1, <2>3
<1>12. CASE Arrays!OpenArray
  <2>1. /\ ~inArray /\ ~Arrays!Filler(W[next]) /\ list' = list
        /\ inArray' = TRUE /\ start' = next * input.psize /\ count' = 0
    BY <1>12 DEF Arrays!OpenArray, Arrays!Value, W
  <2>2. Opened' = next
    <3>1. input.psize \in Nat \ {0}
      BY DEF ImageFacts
    <3>2. (next * input.psize) \div input.psize = next
      BY <1>2, <3>1, DivBack
    <3> QED BY <1>1, <2>1, <3>2 DEF Opened
  <2>3. Opens
    <3> SUFFICES ASSUME NEW i \in 0..next - 1, Fresh(i), Close(i, next)
                 PROVE  next \in {i, i + 1}
      BY <2>1, <2>2
    <3>1. CASE i = next - 1
      BY <1>2, <3>1
    <3>2. CASE i # next - 1
      <4>1. i \in 0..next - 2
        BY <1>2, <3>2
      <4> QED BY <1>4, <1>7, <2>1, <4>1
    <3> QED BY <3>1, <3>2
  <2>4. Close(next, next)
    BY <1>2 DEF Close
  <2>5. ScanInv'
    <3>1. next \in 0..next /\ next - next = 0
      BY <1>2
    <3> HIDE DEF Opens
    <3> QED BY <1>1, <1>8, <2>1, <2>2, <2>3, <2>4, <3>1
  <2> QED BY <1>1, <1>4, <1>9, <2>1, <2>2, <2>5
<1>13. CASE Arrays!ExtendArray
  <2>1. /\ inArray /\ ~Arrays!Far(W[next], prev) /\ count' = count + 1
        /\ UNCHANGED <<list, inArray, start>>
    BY <1>13 DEF Arrays!ExtendArray, Arrays!Value, W
  <2>2. Opened' = Opened
    BY <1>1, <2>1 DEF Opened
  <2>3. Opened \in Nat /\ Opened \in 0..next /\ Opened \in 0..next - 1
        /\ count' = next - Opened /\ next > 0
    BY <1>2, <1>5, <2>1
  <2>4. Close(Opened, next)
    BY <1>5, <1>7, <2>1, <2>3
  <2>5. Opens
    <3> SUFFICES ASSUME NEW i \in 0..next - 1, Fresh(i), Close(i, next)
                 PROVE  Opened \in {i, i + 1}
      BY <2>1, <2>2
    <3>1. CASE i = next - 1
      <4>1. ~(Opened < i)
        <5>1. SUFFICES ASSUME Opened < i PROVE FALSE
          OBVIOUS
        <5>2. i \in Opened + 1 .. next - 1 /\ i > 0
          BY <1>2, <2>3, <3>1, <5>1
        <5>3. ~Arrays!Far(input.words[i], input.words[i - 1])
          BY <1>5, <2>1, <5>2 DEF Close
        <5> QED BY <5>2, <5>3 DEF Fresh, FarBefore
      <4> QED BY <1>2, <2>3, <3>1, <4>1
    <3>2. CASE i # next - 1
      <4>1. i \in 0..next - 2
        BY <1>2, <3>2
      <4> QED BY <1>4, <1>7, <4>1
    <3> QED BY <3>1, <3>2
  <2>6. ScanInv'
    <3>1. /\ Opened' \in 0..next /\ start' = Opened' * input.psize
          /\ count' = next - Opened' /\ prev' = W[next]
          /\ ~Arrays!Filler(W[Opened']) /\ Close(Opened', next)
      BY <1>1, <1>5, <2>1, <2>2, <2>3, <2>4
    <3>2. inArray' \in BOOLEAN /\ inArray'
      BY <1>4, <2>1
    <3> HIDE DEF Opens, W, Opened
    <3> QED BY <1>8, <2>5, <3>1, <3>2, Zenon
  <2> QED BY <1>1, <1>5, <1>9, <2>1, <2>2, <2>6
<1>14. CASE Arrays!CloseArray
  <2>1. /\ inArray /\ Arrays!Far(W[next], prev)
        /\ list' = IF Arrays!LongEnough(count)
                     THEN Append(list, Arrays!Poi("Array", start, count)) ELSE list
        /\ inArray' = FALSE /\ count' = 0
    BY <1>14 DEF Arrays!CloseArray, Arrays!Value, W
  <2>2. Opens
    BY <1>5, <1>7, <2>1
  <2>3. ScanInv'
    <3> HIDE DEF Opens
    <3> QED BY <1>8, <2>1, <2>2
  <2>4. Arrays!LongEnough(count) <=> count > ArrayMin
    BY DEF Arrays!LongEnough
  <2>5. ASSUME NEW i \in 0..next - 2, Findable(i, next - 1), i + ArrayMin + 2 <= next - 1
        PROVE  Opened \in {i, i + 1} /\ Arrays!LongEnough(count)
    <3>1. Opened \in {i, i + 1}
      BY <1>4, <1>9, <2>5
    <3>2. count = next - 1 - Opened /\ Opened \in Nat /\ i \in Nat
      BY <1>2, <1>5, <2>1
    <3>3. count > ArrayMin
      BY <1>2, <2>5, <3>1, <3>2
    <3> QED BY <2>4, <3>1, <3>3
  <2>6. IF Arrays!LongEnough(count) THEN ArrayAppended ELSE list' = list
    BY <1>5, <2>1, <2>4 DEF ArrayAppended, W
  <2>7. inArray' = FALSE
    BY <2>1
  <2> HIDE DEF Arrays!LongEnough
  <2> QED BY <1>1, <2>3, <2>5, <2>6, <2>7
<1> QED BY <1>11, <1>12, <1>13, <1>14 DEF Arrays!Next
\* An array that is recorded is one of those looked for, and the last.
LEMMA ScanKeepsArrays ==
  ASSUME ImageFacts, ArrayMin \in Nat, ArraysInv, Arrays!Next, NEW T, list \in Seq(T)
  PROVE  ArraysInv' /\ (list' # list => /\ list' = Append(list, Arrays!Poi("Array", start, count))
                                       /\ start \in Nat /\ count \in Nat)
<1>1. /\ ScanInv' /\ next' = next + 1 /\ input' = input
      /\ inArray' => (inArray /\ Opened' = Opened) \/ (~inArray /\ Opened' = next)
      /\ list' = list \/ ArrayAppended
      /\ \A i \in 0..next - 2 :
           Findable(i, next - 1) /\ i + ArrayMin + 2 <= next - 1 =>
             ArrayAppended /\ Opened \in {i, i + 1}
  BY ScanStep DEF ArraysInv
<1>2. /\ next \in Nat
      /\ inArray => /\ Opened \in 0..next - 1 /\ start = Opened * input.psize
                    /\ count = next - 1 - Opened
                    /\ ~Arrays!Filler(input.words[Opened]) /\ Close(Opened, next - 1)
  BY ScannedIsPrefix DEF ArraysInv, ScanInv
<1>3. /\ \A i, j : Arrays!Stretch(i, j)' <=> Arrays!Stretch(i, j)
      /\ \A i, j : Findable(i, j)' <=> Findable(i, j)
      /\ \A a : Arrays!First(a)' = Arrays!First(a) /\ Arrays!LastOf(a)' = Arrays!LastOf(a)
  BY <1>1 DEF Arrays!Stretch, Arrays!Filler, Arrays!Far, Arrays!MaxValue, Findable,
       FarBefore, Arrays!First, Arrays!LastOf
<1>4. input.psize \in Nat \ {0}
  BY DEF ImageFacts
<1> DEFINE Ok(a, bar) ==
             /\ Arrays!First(a) \in Nat /\ a.offset = Arrays!First(a) * input.psize
             /\ a.count \in Nat /\ a.count > ArrayMin
             /\ Arrays!LastOf(a) + 1 < bar
             /\ Arrays!Stretch(Arrays!First(a), Arrays!LastOf(a))
<1>5. \A a : ArrayListed(a) <=> Ok(a, next) /\ (inArray => Arrays!LastOf(a) + 1 < Opened)
  BY DEF ArrayListed
<1> DEFINE After(a) == Ok(a, next + 1) /\ (inArray' => Arrays!LastOf(a) + 1 < Opened')
           Arrayed == {m \in DOMAIN list' : list'[m].type = "Array"}
<1>6. ASSUME \A m \in Arrayed : After(list'[m])
      PROVE  (\A m \in Arrays!ArraysIn(list) : ArrayListed(list[m]))'
  <2>1. ASSUME NEW m \in Arrayed
        PROVE  /\ list'[m].offset \div input.psize \in Nat
               /\ list'[m].offset = (list'[m].offset \div input.psize) * input.psize
               /\ list'[m].count \in Nat /\ list'[m].count > ArrayMin
               /\ list'[m].offset \div input.psize + list'[m].count + 1 < next + 1
               /\ inArray' => list'[m].offset \div input.psize + list'[m].count + 1 < Opened'
               /\ Arrays!Stretch(list'[m].offset \div input.psize,
                                 list'[m].offset \div input.psize + list'[m].count)
    BY <1>6 DEF Arrays!First, Arrays!LastOf
  <2> QED BY <1>1, <1>3, <2>1 DEF ArrayListed, Arrays!ArraysIn, Arrays!First, Arrays!LastOf
<1>7. ASSUME NEW a, ArrayListed(a) PROVE After(a)
  <2>1. /\ Arrays!LastOf(a) \in Nat /\ Arrays!LastOf(a) + 1 < next
    BY <1>2, <1>7 DEF ArrayListed, Arrays!LastOf
  <2>2. Ok(a, next) => Ok(a, next + 1)
    BY <1>2, <2>1
  <2>3. inArray' => Arrays!LastOf(a) + 1 < Opened'
    BY <1>1, <1>5, <1>7, <2>1
  <2> HIDE DEF Ok
  <2> QED BY <1>5, <1>7, <2>2, <2>3
<1> HIDE DEF Ok, After, Arrayed
<1>8. /\ \A m \in Arrays!ArraysIn(list) : ArrayListed(list[m])
      /\ ArraysAscend /\ ArraysFound
  BY DEF ArraysInv
<1> DEFINE Pair(i, j) == i \in 0..next - 1 /\ j \in i + ArrayMin + 2 .. next - 1 /\ Findable(i, j)
           Old(i, j) == i \in 0..next - 2 /\ j \in i + ArrayMin + 2 .. next - 2
           There(i, j) == \E m \in Arrays!ArraysIn(list') :
                            /\ Arrays!First(list'[m]) \in {i, i + 1}
                            /\ Arrays!LastOf(list'[m]) = j
<1>9. ArraysFound' <=> \A i \in 0..next - 1 : \A j \in i + ArrayMin + 2 .. next - 1 :
                         Findable(i, j) => There(i, j)
  <2>1. next' - 2 = next - 1
    BY <1>1, <1>2
  <2> QED BY <1>3, <2>1 DEF ArraysFound, Arrays!ArraysIn
<1>10. \A i \in 0..next - 1 : \A j \in i + ArrayMin + 2 .. next - 1 :
         Old(i, j) \/ (j = next - 1 /\ i \in 0..next - 2 /\ i + ArrayMin + 2 <= next - 1)
  BY <1>2
<1>11. CASE list' = list
  <2>1. Arrays!ArraysIn(list') = Arrays!ArraysIn(list)
    BY <1>11
  <2>2. \A m \in Arrayed : After(list'[m])
    BY <1>7, <1>8, <1>11 DEF Arrayed, Arrays!ArraysIn
  <2>3. ArraysAscend'
    BY <1>3, <1>8, <1>11 DEF ArraysAscend, Arrays!ArraysIn
  <2>4. ~ArrayAppended
    <3>1. ArrayAppended => list' # list
      <4>1. ArrayAppended => Len(list') = Len(list) + 1
        BY DEF ArrayAppended
      <4>2. Len(list) \in Nat
        OBVIOUS
      <4> QED BY <1>11, <4>1, <4>2
    <3> QED BY <1>11, <3>1
  <2>5. ArraysFound'
    <3> SUFFICES ASSUME NEW i \in 0..next - 1, NEW j \in i + ArrayMin + 2 .. next - 1,
                        Findable(i, j)
                 PROVE  There(i, j)
      BY <1>9
    <3>1. Old(i, j)
      BY <1>1, <1>10, <2>4
    <3> QED BY <1>8, <2>1, <1>11, <3>1 DEF ArraysFound
  <2>6. (\A m \in Arrays!ArraysIn(list) : ArrayListed(list[m]))'
    BY <1>6, <2>2
  <2> QED BY <1>1, <1>11, <2>3, <2>5, <2>6 DEF ArraysInv
<1>12. CASE ArrayAppended
  <2> DEFINE new == Arrays!Poi("Array", start, count)
  <2>1. /\ inArray /\ ~inArray' /\ count > ArrayMin
        /\ Arrays!Far(input.words[next], input.words[next - 1])
        /\ list' = Append(list, new)
    BY <1>12 DEF ArrayAppended
  <2>2. new.type = "Array" /\ new.offset = start /\ new.count = count
    BY DEF Arrays!Poi
  <2> HIDE DEF new
  <2>3. /\ Opened \in Nat /\ Opened <= next - 1 /\ start = Opened * input.psize
        /\ count = next - 1 - Opened /\ next \in Nat /\ count \in Nat
    BY <1>2, <2>1
  <2>4. Arrays!First(new) = Opened /\ Arrays!LastOf(new) = next - 1
    <3>1. Arrays!First(new) = Opened
      BY <1>4, <2>2, <2>3, DivBack DEF Arrays!First
    <3> QED BY <2>2, <2>3, <3>1 DEF Arrays!LastOf
  <2>5. Ok(new, next + 1)
    <3>1. (next - 1) + 1 = next
      BY <2>3
    <3>2. Arrays!Stretch(Opened, next - 1)
      BY <1>2, <2>1, <3>1 DEF Arrays!Stretch, Close
    <3> QED BY <2>1, <2>2, <2>3, <2>4, <3>1, <3>2 DEF Ok
  <2>6. After(new)
    BY <2>1, <2>5 DEF After
  <2>7. /\ DOMAIN list = 1..Len(list) /\ Len(list) \in Nat
        /\ DOMAIN list' = 1..Len(list) + 1
        /\ \A m \in 1..Len(list) : list'[m] = list[m]
        /\ list'[Len(list) + 1] = new
    BY <2>1
  <2>8. Arrays!ArraysIn(list') = Arrays!ArraysIn(list) \cup {Len(list) + 1}
    BY <2>2, <2>7 DEF Arrays!ArraysIn
  <2>9. \A m \in Arrays!ArraysIn(list) : m \in 1..Len(list) /\ list'[m] = list[m]
    BY <2>7 DEF Arrays!ArraysIn
  <2>10. (\A m \in Arrays!ArraysIn(list) : ArrayListed(list[m]))'
    <3>1. Arrayed = Arrays!ArraysIn(list) \cup {Len(list) + 1}
      BY <2>8 DEF Arrayed, Arrays!ArraysIn
    <3>2. \A m \in Arrayed : After(list'[m])
      BY <1>7, <1>8, <2>6, <2>7, <2>9, <3>1
    <3> QED BY <1>6, <3>2
  <2>11. ArraysAscend'
    <3>1. ASSUME NEW m \in Arrays!ArraysIn(list'), NEW l \in Arrays!ArraysIn(list'), m < l
          PROVE  Arrays!LastOf(list'[m]) < Arrays!First(list'[l])
      <4>1. m \in Arrays!ArraysIn(list)
        BY <2>7, <2>8, <2>9, <3>1
      <4>2. CASE l \in Arrays!ArraysIn(list)
        BY <1>8, <2>9, <3>1, <4>1, <4>2 DEF ArraysAscend
      <4>3. CASE l = Len(list) + 1
        <5>1. /\ Arrays!LastOf(list[m]) + 1 < Opened /\ Arrays!LastOf(list[m]) \in Nat
          BY <1>8, <2>1, <4>1 DEF ArrayListed, Arrays!LastOf
        <5> QED BY <2>3, <2>4, <2>7, <2>9, <4>1, <4>3, <5>1
      <4> QED BY <2>8, <4>2, <4>3
    <3> QED BY <1>3, <3>1 DEF ArraysAscend, Arrays!ArraysIn
  <2>12. ArraysFound'
    <3> SUFFICES ASSUME NEW i \in 0..next - 1, NEW j \in i + ArrayMin + 2 .. next - 1,
                        Findable(i, j)
                 PROVE  There(i, j)
      BY <1>9
    <3>1. CASE Old(i, j)
      <4>1. PICK m \in Arrays!ArraysIn(list) :
              Arrays!First(list[m]) \in {i, i + 1} /\ Arrays!LastOf(list[m]) = j
        BY <1>8, <3>1 DEF ArraysFound
      <4> QED BY <2>8, <2>9, <4>1
    <3>2. CASE ~Old(i, j)
      <4>1. j = next - 1 /\ Opened \in {i, i + 1}
        BY <1>1, <1>10, <3>2
      <4>2. Len(list) + 1 \in Arrays!ArraysIn(list')
        BY <2>8
      <4> QED BY <2>4, <2>7, <4>1, <4>2
    <3> QED BY <3>1, <3>2
  <2>13. start \in Nat
    BY <1>4, <2>3
  <2> QED BY <1>1, <2>1, <2>3, <2>10, <2>11, <2>12, <2>13 DEF ArraysInv, new
<1> QED BY <1>1, <1>11, <1>12

-----------------------------------------------------------------------------
\* Bits.

LEMMA TwoPowers ==
  \A n \in Nat : /\ Power(2, n) \in Nat /\ n < Power(2, n) /\ Power(2, n) >= 1
                 /\ Power(2, n + 1) = 2 * Power(2, n)
<1>1. /\ \A n \in Nat : Power(2, n) \in Nat /\ Power(2, n + 1) = 2 * Power(2, n)
      /\ Power(2, 0) = 1
  BY PowerFacts
<1> SUFFICES ASSUME NEW n \in Nat PROVE n < Power(2, n) /\ Power(2, n) >= 1
  BY <1>1
<1> DEFINE above == [i \in 0..n |-> i < Power(2, i)]
           Yes == {TRUE}
<1>2. above[0] \in Yes
  <2>1. 0 \in 0..n /\ 0 < Power(2, 0)
    BY <1>1
  <2> QED BY <2>1
<1>3. ASSUME NEW i \in 1..n, above[i - 1] \in Yes PROVE above[i] \in Yes
  <2>1. i - 1 \in 0..n /\ i \in 0..n /\ i - 1 \in Nat /\ (i - 1) + 1 = i
    OBVIOUS
  <2>2. i - 1 < Power(2, i - 1) /\ Power(2, i - 1) \in Nat
    BY <1>1, <1>3, <2>1
  <2>3. Power(2, i) = 2 * Power(2, i - 1)
    BY <1>1, <2>1
  <2>4. i < Power(2, i)
    BY <2>1, <2>2, <2>3
  <2> QED BY <2>1, <2>4
<1>4. above[n] \in Yes
  <2> HIDE DEF above, Yes
  <2>1. \A i \in 0..n : above[i] \in Yes
    BY <1>2, <1>3, RecursionStays, Zenon
  <2> QED BY <2>1
<1>5. n < Power(2, n)
  <2>1. n \in 0..n
    OBVIOUS
  <2> QED BY <1>4, <2>1
<1> QED BY <1>1, <1>5

LEMMA LogIsNumber ==
  ASSUME NEW x \in Nat \ {0}
  PROVE  Arrays!Log2(x) \in Nat
<1> DEFINE Z == {z \in 0..x : Power(2, z) <= x}
<1>1. \E z \in Z : \A y \in Z : y <= z
  <2>1. 0 \in Z
    BY PowerFacts
  <2>2. x \in Int /\ \A z \in Z : z \in Int /\ z <= x
    OBVIOUS
  <2> HIDE DEF Z
  <2> QED BY <2>1, <2>2, GreatestMember, Zenon
<1>2. PICK z \in Z : \A y \in Z : y <= z
  BY <1>1
<1>3. z \in 0..x /\ Power(2, z) <= x /\ z \in Nat
  BY <1>2
<1>4. x < Power(2, z + 1)
  <2>1. SUFFICES ASSUME ~(x < Power(2, z + 1)) PROVE FALSE
    OBVIOUS
  <2>2. Power(2, z + 1) \in Nat /\ z + 1 < Power(2, z + 1)
    BY <1>3, TwoPowers
  <2>3. z + 1 \in 0..x /\ Power(2, z + 1) <= x
    BY <1>3, <2>1, <2>2
  <2>4. z + 1 \in Z /\ ~(z + 1 <= z)
    BY <1>3, <2>3
  <2> HIDE DEF Z
  <2> QED BY <1>2, <2>4
<1>5. Arrays!Log2(x) = CHOOSE y \in 0..x : Power(2, y) <= x /\ x < Power(2, y + 1)
  BY Links DEF Arrays!Log2
<1>6. Arrays!Log2(x) \in 0..x
  <2> HIDE DEF Arrays!Log2
  <2> QED BY <1>3, <1>4, <1>5
<1> QED BY <1>6

LEMMA CodeBitsAreNumber ==
  ASSUME ImageFacts
  PROVE  Arrays!CodeBits \in Nat
<1> DEFINE T == [offset : Nat, size : Nat, type : Arrays!RegionType]
           regs == input.regions
           ends == {regs[l].offset + regs[l].size :
                      l \in {l \in DOMAIN regs : regs[l].type = "Code"}}
           last == Arrays!MaxCodeAddr(regs)
<1>1. regs \in Seq(T)
  BY DEF ImageFacts
<1>2. \A r \in T : r.offset \in Nat /\ r.size \in Nat
  OBVIOUS
<1> HIDE DEF T
<1>3. \A l \in DOMAIN regs : regs[l].offset + regs[l].size \in Nat
  BY <1>1, <1>2
<1>4. IsFiniteSet(ends)
  <2> DEFINE D == {l \in DOMAIN regs : regs[l].type = "Code"}
             n == Len(regs)
             f == [l \in D |-> regs[l].offset + regs[l].size]
  <2>1. DOMAIN regs = 1..n /\ n \in Nat
    BY <1>1
  <2> HIDE DEF n
  <2>2. IsFiniteSet(1..n)
    <3>1. n \in Int /\ 1 \in Int
      BY <2>1
    <3> HIDE DEF regs
    <3> QED BY <3>1, FS_Interval
  <2>3. IsFiniteSet(D)
    <3>1. D \subseteq 1..n
      BY <2>1
    <3> HIDE DEF D
    <3> QED BY <2>2, <3>1, FS_Subset
  <2>4. ends = {f[l] : l \in D}
    OBVIOUS
  <2>5. f \in Surjection(D, {f[l] : l \in D})
    <3>1. DOMAIN f = D
      OBVIOUS
    <3> HIDE DEF f, D
    <3>2. f = [l \in D |-> f[l]]
      BY DEF f
    <3> QED BY <3>1, <3>2 DEF Surjection
  <2> HIDE DEF D, f, ends
  <2> QED BY <2>3, <2>4, <2>5, FS_Surjection
<1>5. last \in Nat
  <2>1. CASE ends = {}
    BY <2>1 DEF Arrays!MaxCodeAddr
  <2>2. CASE ends # {}
    <3>1. ends \subseteq Nat /\ ends \subseteq Int
      BY <1>3
    <3>2. last = CHOOSE e \in ends : \A f \in ends : f <= e
      BY <2>2 DEF Arrays!MaxCodeAddr
    <3> HIDE DEF ends, last
    <3>3. \E x \in ends : \A y \in ends : y <= x
      BY <1>4, <2>2, <3>1, FiniteIsBounded
    <3>4. last \in ends
      BY <3>2, <3>3
    <3> QED BY <3>1, <3>4
  <2> QED BY <2>1, <2>2
<1>6. Arrays!CodeBits = IF last = 0 THEN 0 ELSE Arrays!Log2(last)
  BY DEF Arrays!CodeBits
<1> HIDE DEF last
<1> QED BY <1>5, <1>6, LogIsNumber

-----------------------------------------------------------------------------
\* The functions indexed.

\* A flattened list holds what the lists in it hold.
LEMMA FlattenHolds ==
  ASSUME NEW n \in Nat, NEW T, NEW lists \in [1..n -> Seq(T)]
  PROVE  /\ Arrays!FlattenSeq(lists) \in Seq(T)
         /\ Range(Arrays!FlattenSeq(lists)) = UNION {Range(lists[i]) : i \in 1..n}
<1>1. Len(lists) = n /\ DOMAIN lists = 1..n
  BY LenProperties
<1>2. CASE n = 0
  <2>1. lists = <<>> /\ 1..n = {}
    BY <1>2
  <2>2. Arrays!FlattenSeq(lists) = <<>>
    BY <1>1, <1>2, <2>1 DEF Arrays!FlattenSeq
  <2>3. UNION {Range(lists[i]) : i \in 1..n} = {}
    BY <2>1
  <2>4. Range(<<>>) = {} /\ <<>> \in Seq(T)
    BY DEF Range
  <2> QED BY <2>2, <2>3, <2>4
<1>3. CASE n # 0
  <2> DEFINE Body(f) == [i \in 1..n |-> IF i = 1 THEN lists[i] ELSE f[i - 1] \o lists[i]]
             flatten == CHOOSE f : f = Body(f)
             step == [i \in 1..n |-> [l \in Seq(T) |-> l \o lists[i]]]
  <2>1. step \in [1..n -> [Seq(T) -> Seq(T)]]
    OBVIOUS
  <2>2. \A i \in 1..n, l \in Seq(T) : step[i][l] = l \o lists[i]
    OBVIOUS
  <2>3. 1 \in 1..n /\ n \in 1..n /\ lists[1] \in Seq(T)
    BY <1>3
  <2> DEFINE later == [i \in 1..n - 1 |-> step[i + 1]]
  <2>4. later \in [1..n - 1 -> [Seq(T) -> Seq(T)]] /\ \A i \in 1..n - 1 : later[i] = step[i + 1]
    <3>1. \A i \in 1..n - 1 : i + 1 \in 1..n
      OBVIOUS
    <3> HIDE DEF step
    <3> QED BY <2>1, <3>1
  <2> HIDE DEF step, later
  <2>5. PICK g : Computes(g, n - 1, Seq(T), lists[1], later)
    <3>1. n - 1 \in Nat
      BY <1>3
    <3> QED BY <2>3, <2>4, <3>1, Recursion
  <2> DEFINE f == [i \in 1..n |-> g[i - 1]]
  <2>6. f = Body(f)
    <3>1. ASSUME NEW i \in 1..n
          PROVE  f[i] = IF i = 1 THEN lists[i] ELSE f[i - 1] \o lists[i]
      <4>1. CASE i = 1
        BY <2>5, <4>1 DEF Computes
      <4>2. CASE i # 1
        <5>1. i - 1 \in 1..n - 1 /\ i - 1 \in 1..n /\ i - 1 - 1 \in 0..n - 1 /\ i - 1 + 1 = i
          BY <4>2
        <5>2. g[i - 1] = step[i][g[i - 1 - 1]] /\ g[i - 1 - 1] \in Seq(T)
          BY <2>4, <2>5, <5>1 DEF Computes
        <5>3. f[i - 1] = g[i - 1 - 1] /\ f[i] = g[i - 1]
          BY <5>1
        <5> QED BY <2>2, <4>2, <5>2, <5>3
      <4> QED BY <4>1, <4>2
    <3>2. DOMAIN f = 1..n /\ f = [i \in 1..n |-> f[i]]
      OBVIOUS
    <3> HIDE DEF f
    <3> QED BY <3>1, <3>2
  <2>7. flatten = Body(flatten)
    <3> HIDE DEF Body, f
    <3> QED BY <2>6
  <2>8. Arrays!FlattenSeq(lists) = flatten[n]
    BY <1>1, <1>3 DEF Arrays!FlattenSeq
  <2>9. flatten[1] = lists[1]
        /\ \A i \in 1..n : i # 1 => flatten[i] = flatten[i - 1] \o lists[i]
    <3> HIDE DEF flatten
    <3> QED BY <2>3, <2>7
  <2> HIDE DEF flatten
  <2> DEFINE Upto(i) == UNION {Range(lists[j]) : j \in 1..i}
             Good(i) == flatten[i] \in Seq(T) /\ Range(flatten[i]) = Upto(i)
             good == [i \in 0..n |-> i = 0 \/ Good(i)]
             Yes == {TRUE}
  <2>10. good[0] \in Yes
    <3>1. 0 \in 0..n
      OBVIOUS
    <3> HIDE DEF Good
    <3> QED BY <3>1
  <2>11. ASSUME NEW i \in 1..n, good[i - 1] \in Yes PROVE good[i] \in Yes
    <3>1. i \in 0..n /\ i - 1 \in 0..n
      OBVIOUS
    <3>2. i - 1 = 0 \/ Good(i - 1)
      <4> HIDE DEF Good
      <4> QED BY <2>11, <3>1
    <3>3. Good(i)
      <4>1. CASE i = 1
        <5>1. 1..1 = {1}
          OBVIOUS
        <5> QED BY <2>3, <2>9, <4>1, <5>1
      <4>2. CASE i # 1
        <5>1. flatten[i] = flatten[i - 1] \o lists[i] /\ lists[i] \in Seq(T)
          BY <2>9, <4>2
        <5>2. Good(i - 1)
          <6> HIDE DEF Good
          <6> QED BY <3>2, <4>2
        <5>3. \A l, m \in Seq(T) : l \o m \in Seq(T) /\ Range(l \o m) = Range(l) \cup Range(m)
          BY RangeConcatenation
        <5>4. 1..i = 1..i - 1 \cup {i}
          OBVIOUS
        <5>5. Upto(i) = Upto(i - 1) \cup Range(lists[i])
          <6> HIDE DEF Range
          <6> QED BY <5>4
        <5> HIDE DEF Upto, Range
        <5> QED BY <5>1, <5>2, <5>3, <5>5
      <4> QED BY <4>1, <4>2
    <3> HIDE DEF Good
    <3> QED BY <3>1, <3>3
  <2>12. good[n] \in Yes
    <3> HIDE DEF good, Yes
    <3>1. \A i \in 0..n : good[i] \in Yes
      BY <2>10, <2>11, RecursionStays, Zenon
    <3>2. n \in 0..n
      OBVIOUS
    <3> QED BY <3>1, <3>2
  <2>13. Good(n)
    <3>1. n \in 0..n
      OBVIOUS
    <3> HIDE DEF Good
    <3> QED BY <1>3, <2>12, <3>1
  <2> QED BY <2>8, <2>13
<1> QED BY <1>2, <1>3

-----------------------------------------------------------------------------
\* The strings of the list, for every image and every list, without strings,
\* that they are appended to.

StringPoi == [type : {"String"}, offset : Nat, count : Nat]

\* The open run is a longest run as far as it was read, and without one the
\* byte before the cursor is not printable.
RunInv ==
  /\ cursor \in Nat
  /\ begin = Strings!NoRun =>
       (cursor > 0 => input.content[cursor - 1] \notin Printable)
  /\ begin # Strings!NoRun =>
       /\ begin \in 0..cursor - 1
       /\ \A k \in begin..cursor - 1 : input.content[k] \in Printable
       /\ begin > 0 => input.content[begin - 1] \notin Printable

\* The three parts of what append_strings promises.
ListedAreRuns ==
  \A k \in Strings!StringsIn(list) :
    /\ list[k].offset \in Nat /\ list[k].count \in Nat
    /\ list[k].offset + list[k].count < cursor
    /\ list[k].count >= StringMin
    /\ Strings!Run(list[k].offset, list[k].offset + list[k].count)

RunsAreListed ==
  \A i, j \in 0..cursor - 1 :
    Strings!Run(i, j) /\ j - i >= StringMin =>
      \E k \in Strings!StringsIn(list) : list[k] = Strings!String(i, j - i)

Ascending ==
  \A k, l \in Strings!StringsIn(list) : k < l => list[k].offset < list[l].offset

StringsInv(Rest) ==
  /\ list \in Seq(Rest \cup StringPoi)
  /\ RunInv
  /\ ListedAreRuns
  /\ RunsAreListed
  /\ Ascending

\* What the caller hands over: a list without strings.
NoStrings(Rest) == list \in Seq(Rest) /\ Strings!StringsIn(list) = {}

LEMMA StringsInvGivesRuns ==
  ASSUME NEW Rest, StringsInv(Rest)
  PROVE  Strings!StringsAreRuns
BY DEF StringsInv, ListedAreRuns, RunsAreListed, Ascending, Strings!StringsAreRuns

LEMMA InitStringsInv ==
  ASSUME StringMin \in Nat, NEW Rest, Strings!Init, NoStrings(Rest)
  PROVE  StringsInv(Rest)
<1>1. list \in Seq(Rest \cup StringPoi)
  BY DEF NoStrings
<1>2. RunInv
  BY DEF Strings!Init, RunInv, Strings!NoRun
<1>3. ListedAreRuns /\ Ascending
  BY DEF NoStrings, ListedAreRuns, Ascending
<1>4. RunsAreListed
  BY DEF Strings!Init, RunsAreListed
<1> QED BY <1>1, <1>2, <1>3, <1>4 DEF StringsInv

\* A run that ends at the cursor is the open run.
LEMMA RunAtCursorIsOpen ==
  ASSUME RunInv, NEW i \in Nat, Strings!Run(i, cursor)
  PROVE  begin = i
<1>1. i < cursor /\ \A k \in i..cursor - 1 : input.content[k] \in Printable
  BY DEF Strings!Run
<1>2. begin # Strings!NoRun
  <2>1. input.content[cursor - 1] \in Printable /\ cursor > 0
    BY <1>1 DEF RunInv
  <2> QED BY <2>1 DEF RunInv
<1>3. begin \in Nat /\ begin < cursor
  BY <1>2 DEF RunInv
<1>4. ~(i < begin)
  <2>1. SUFFICES ASSUME i < begin PROVE FALSE
    OBVIOUS
  <2>2. begin - 1 \in i..cursor - 1 /\ begin > 0
    BY <1>3, <2>1 DEF RunInv
  <2> QED BY <1>1, <1>2, <2>2 DEF RunInv
<1>5. ~(begin < i)
  <2>1. SUFFICES ASSUME begin < i PROVE FALSE
    OBVIOUS
  <2>2. i - 1 \in begin..cursor - 1 /\ i > 0
    BY <1>1, <1>3, <2>1 DEF RunInv
  <2> QED BY <1>2, <2>2 DEF RunInv, Strings!Run
<1> QED BY <1>3, <1>4, <1>5

\* Reading a byte that lists nothing keeps the list exact, if no long run ends
\* with that byte.
LEMMA SameListStep ==
  ASSUME RunInv, ListedAreRuns, RunsAreListed, Ascending,
         cursor' = cursor + 1, UNCHANGED <<input.content, list>>,
         \A i \in Nat : Strings!Run(i, cursor) => ~(cursor - i >= StringMin)
  PROVE  ListedAreRuns' /\ RunsAreListed' /\ Ascending'
<1>1. cursor \in Nat
  BY DEF RunInv
<1>2. Strings!StringsIn(list)' = Strings!StringsIn(list)
  BY DEF Strings!StringsIn
<1>3. \A i, j : Strings!Run(i, j)' <=> Strings!Run(i, j)
  BY DEF Strings!Run
<1>4. ListedAreRuns'
  BY <1>1, <1>2, <1>3 DEF ListedAreRuns
<1>5. RunsAreListed'
  <2> SUFFICES ASSUME NEW i \in 0..cursor, NEW j \in 0..cursor,
                      Strings!Run(i, j), j - i >= StringMin
               PROVE  \E k \in Strings!StringsIn(list) : list[k] = Strings!String(i, j - i)
    BY <1>1, <1>2, <1>3 DEF RunsAreListed, Strings!String
  <2>1. j # cursor
    BY <1>1
  <2>2. i < j
    BY DEF Strings!Run
  <2>3. i \in 0..cursor - 1 /\ j \in 0..cursor - 1
    BY <1>1, <2>1, <2>2
  <2> QED BY <2>3 DEF RunsAreListed
<1>6. Ascending'
  BY <1>2 DEF Ascending
<1> QED BY <1>4, <1>5, <1>6

\* Appending the open run when it ends keeps the list exact.
LEMMA AppendStep ==
  ASSUME StringMin \in Nat, NEW Rest, StringsInv(Rest), Strings!CloseRun,
         Strings!LongEnough(cursor - begin)
  PROVE  (list \in Seq(Rest \cup StringPoi))' /\ ListedAreRuns' /\ RunsAreListed' /\ Ascending'
<1> DEFINE new == Strings!String(begin, cursor - begin)
<1>1. /\ cursor \in Nat /\ begin \in Nat /\ begin < cursor
      /\ cursor' = cursor + 1 /\ input.content' = input.content
      /\ list' = Append(list, new)
      /\ cursor - begin >= StringMin
  BY DEF StringsInv, RunInv, Strings!CloseRun, Strings!Advance, Strings!LongEnough
<1>2. new \in StringPoi
  BY <1>1 DEF Strings!String, StringPoi
<1>3. /\ list \in Seq(Rest \cup StringPoi)
      /\ list' \in Seq(Rest \cup StringPoi)
      /\ Len(list') = Len(list) + 1
      /\ \A k \in 1..Len(list) : list'[k] = list[k]
      /\ list'[Len(list) + 1] = new
  <2> HIDE DEF new
  <2> QED BY <1>1, <1>2 DEF StringsInv
<1>4. new.type = "String" /\ new.offset = begin /\ new.count = cursor - begin
  BY DEF Strings!String
<1>5. Strings!StringsIn(list') = Strings!StringsIn(list) \cup {Len(list) + 1}
  <2> HIDE DEF new
  <2>1. DOMAIN list = 1..Len(list) /\ DOMAIN list' = 1..Len(list) + 1
    BY <1>3
  <2> QED BY <1>3, <1>4, <2>1 DEF Strings!StringsIn
<1>6. Strings!StringsIn(list) \subseteq 1..Len(list) /\ Len(list) \in Nat
  BY <1>3 DEF Strings!StringsIn
<1>7. \A i, j : Strings!Run(i, j)' <=> Strings!Run(i, j)
  BY <1>1 DEF Strings!Run
<1>8. Strings!Run(begin, cursor)
  BY <1>1 DEF StringsInv, RunInv, Strings!Run, Strings!CloseRun, Strings!IsPrint
<1> HIDE DEF new
<1>9. ListedAreRuns'
  <2> SUFFICES ASSUME NEW k \in Strings!StringsIn(list')
               PROVE  /\ list'[k].offset \in Nat /\ list'[k].count \in Nat
                      /\ list'[k].offset + list'[k].count < cursor + 1
                      /\ list'[k].count >= StringMin
                      /\ Strings!Run(list'[k].offset, list'[k].offset + list'[k].count)
    BY <1>1, <1>7 DEF ListedAreRuns
  <2>1. CASE k \in Strings!StringsIn(list)
    BY <1>1, <1>3, <1>6, <2>1 DEF StringsInv, ListedAreRuns
  <2>2. CASE k = Len(list) + 1
    <3>1. begin + (cursor - begin) = cursor
      BY <1>1
    <3> QED BY <1>1, <1>3, <1>4, <1>8, <2>2, <3>1
  <2> QED BY <1>5, <2>1, <2>2
<1>10. RunsAreListed'
  <2> SUFFICES ASSUME NEW i \in 0..cursor, NEW j \in 0..cursor,
                      Strings!Run(i, j), j - i >= StringMin
               PROVE  \E k \in Strings!StringsIn(list') : list'[k] = Strings!String(i, j - i)
    <3>1. 0..cursor' - 1 = 0..cursor
      BY <1>1
    <3>2. Strings!StringsIn(list)' = Strings!StringsIn(list')
      BY DEF Strings!StringsIn
    <3> QED BY <1>7, <3>1, <3>2 DEF RunsAreListed, Strings!String
  <2>1. CASE j = cursor
    <3>1. i = begin
      BY <2>1, RunAtCursorIsOpen DEF StringsInv
    <3> QED BY <1>3, <1>5, <2>1, <3>1 DEF new
  <2>2. CASE j # cursor
    <3>1. i < j
      BY DEF Strings!Run
    <3>2. i \in 0..cursor - 1 /\ j \in 0..cursor - 1
      BY <1>1, <2>2, <3>1
    <3>3. PICK k \in Strings!StringsIn(list) : list[k] = Strings!String(i, j - i)
      BY <3>2 DEF StringsInv, RunsAreListed
    <3> QED BY <1>3, <1>5, <1>6, <3>3
  <2> QED BY <2>1, <2>2
<1>11. Ascending'
  <2> SUFFICES ASSUME NEW k \in Strings!StringsIn(list'), NEW l \in Strings!StringsIn(list'), k < l
               PROVE  list'[k].offset < list'[l].offset
    BY DEF Ascending
  <2>1. k \in Strings!StringsIn(list) /\ k \in 1..Len(list)
    BY <1>5, <1>6
  <2>2. CASE l \in Strings!StringsIn(list)
    BY <1>3, <1>6, <2>1, <2>2 DEF StringsInv, Ascending
  <2>3. CASE l = Len(list) + 1
    <3> DEFINE end == list[k].offset + list[k].count
    <3>1. /\ list[k].offset \in Nat /\ list[k].count \in Nat
          /\ end < cursor /\ Strings!Run(list[k].offset, end)
      BY <2>1 DEF StringsInv, ListedAreRuns
    <3>2. end \in Nat /\ input.content[end] \notin Printable /\ list[k].offset < end
      BY <3>1 DEF Strings!Run
    <3>3. \A b \in begin..cursor - 1 : input.content[b] \in Printable
      BY <1>8 DEF Strings!Run
    <3> HIDE DEF end
    <3>4. end < begin
      BY <1>1, <3>1, <3>2, <3>3
    <3> QED BY <1>1, <1>3, <1>4, <2>1, <2>3, <3>1, <3>2, <3>4
  <2> QED BY <1>5, <2>2, <2>3
<1> QED BY <1>3, <1>9, <1>10, <1>11

LEMMA NextStringsInv ==
  ASSUME StringMin \in Nat, NEW Rest, StringsInv(Rest), [Strings!Next]_Strings!vars
  PROVE  StringsInv(Rest)'
<1> USE DEF StringsInv
<1>1. CASE Strings!OpenRun
  <2>1. /\ cursor' = cursor + 1 /\ UNCHANGED <<input.content, list>>
        /\ begin = Strings!NoRun /\ begin' = cursor /\ input.content[cursor] \in Printable
    BY <1>1 DEF Strings!OpenRun, Strings!Advance, Strings!IsPrint
  <2>2. RunInv'
    BY <2>1 DEF RunInv, Strings!NoRun
  <2>3. \A i \in Nat : ~Strings!Run(i, cursor)
    BY <2>1 DEF Strings!Run
  <2>4. ListedAreRuns' /\ RunsAreListed' /\ Ascending'
    BY <2>1, <2>3, SameListStep
  <2> QED BY <2>1, <2>2, <2>4
<1>2. CASE Strings!CloseRun
  <2>1. /\ cursor' = cursor + 1 /\ input.content' = input.content
        /\ begin # Strings!NoRun /\ begin' = Strings!NoRun /\ input.content[cursor] \notin Printable
    BY <1>2 DEF Strings!CloseRun, Strings!Advance, Strings!IsPrint
  <2>2. RunInv'
    BY <2>1 DEF RunInv, Strings!NoRun
  <2>3. CASE Strings!LongEnough(cursor - begin)
    BY <1>2, <2>2, <2>3, AppendStep
  <2>4. CASE ~Strings!LongEnough(cursor - begin)
    <3>1. list' = list
      BY <1>2, <2>4 DEF Strings!CloseRun
    <3>2. \A i \in Nat : Strings!Run(i, cursor) => ~(cursor - i >= StringMin)
      BY <2>4, RunAtCursorIsOpen DEF Strings!LongEnough
    <3>3. ListedAreRuns' /\ RunsAreListed' /\ Ascending'
      BY <2>1, <3>1, <3>2, SameListStep
    <3> QED BY <2>2, <3>1, <3>3
  <2> QED BY <2>3, <2>4
<1>3. CASE Strings!PassByte
  <2>1. /\ cursor' = cursor + 1 /\ UNCHANGED <<input.content, list, begin>>
        /\ begin # Strings!NoRun <=> input.content[cursor] \in Printable
    BY <1>3 DEF Strings!PassByte, Strings!Advance, Strings!IsPrint
  <2>2. RunInv'
    BY <2>1 DEF RunInv, Strings!NoRun
  <2>3. \A i \in Nat : ~Strings!Run(i, cursor)
    <3> SUFFICES ASSUME NEW i \in Nat, Strings!Run(i, cursor) PROVE FALSE
      OBVIOUS
    <3>1. begin = i
      BY RunAtCursorIsOpen
    <3> QED BY <2>1, <3>1 DEF Strings!Run, Strings!NoRun
  <2>4. ListedAreRuns' /\ RunsAreListed' /\ Ascending'
    BY <2>1, <2>3, SameListStep
  <2> QED BY <2>1, <2>2, <2>4
<1>4. CASE UNCHANGED Strings!vars
  <2>1. UNCHANGED <<input.content, list, cursor, begin>>
    BY <1>4 DEF Strings!vars
  <2>2. RunInv'
    BY <2>1 DEF RunInv, Strings!NoRun
  <2>3. ListedAreRuns' /\ RunsAreListed' /\ Ascending'
    BY <2>1 DEF ListedAreRuns, RunsAreListed, Ascending,
                Strings!StringsIn, Strings!Run, Strings!String
  <2> QED BY <2>1, <2>2, <2>3
<1> QED BY <1>1, <1>2, <1>3, <1>4 DEF Strings!Next

\* append_strings (poi.rs:174-195), started on a list without strings, at all
\* times lists exactly the terminated printable runs it has read.
THEOREM StringsListedExactly ==
  ASSUME StringMin \in Nat, NEW Rest
  PROVE  NoStrings(Rest) /\ Strings!Spec => []Strings!StringsAreRuns
<1>1. NoStrings(Rest) /\ Strings!Init => StringsInv(Rest)
  BY InitStringsInv
<1>2. StringsInv(Rest) /\ [Strings!Next]_Strings!vars => StringsInv(Rest)'
  BY NextStringsInv
<1>3. StringsInv(Rest) => Strings!StringsAreRuns
  BY StringsInvGivesRuns
<1> QED BY <1>1, <1>2, <1>3, PTL DEF Strings!Spec

-----------------------------------------------------------------------------
\* The list while it is populated.

Others == [type : {"Array", "Function"}, offset : Nat, count : Int]
Kind == Others \cup StringPoi

\* m is l and then points of interest of these types.
Extended(l, m, types) ==
  /\ l \in Seq(Kind) /\ m \in Seq(Kind) /\ Len(l) <= Len(m)
  /\ \A i \in 1..Len(l) : m[i] = l[i]
  /\ \A i \in Len(l) + 1 .. Len(m) : m[i].type \in types

LEMMA KindTypes ==
  /\ Others \subseteq Kind /\ StringPoi \subseteq Kind
  /\ \A poi \in Kind : /\ poi.type \in {"Array", "Function", "String"}
                       /\ poi.offset \in Nat /\ poi.count \in Int
BY DEF Kind, Others, StringPoi

LEMMA AppendExtends ==
  ASSUME NEW l \in Seq(Kind), NEW poi \in Kind
  PROVE  Extended(l, Append(l, poi), {poi.type})
<1> HIDE DEF Kind
<1>1. /\ Append(l, poi) \in Seq(Kind) /\ Len(Append(l, poi)) = Len(l) + 1 /\ Len(l) \in Nat
      /\ \A i \in 1..Len(l) : Append(l, poi)[i] = l[i]
      /\ Append(l, poi)[Len(l) + 1] = poi
  OBVIOUS
<1>2. \A i \in Len(l) + 1 .. Len(l) + 1 : i = Len(l) + 1
  BY <1>1
<1> QED BY <1>1, <1>2 DEF Extended

\* What is of another type was there before, and stays where it was.
LEMMA ExtendedKeeps ==
  ASSUME NEW l, NEW m, NEW types, Extended(l, m, types), NEW type, type \notin types
  PROVE  /\ {i \in DOMAIN m : m[i].type = type} = {i \in DOMAIN l : l[i].type = type}
         /\ \A i \in DOMAIN l : i \in DOMAIN m /\ m[i] = l[i]
<1> HIDE DEF Kind
<1>1. /\ DOMAIN l = 1..Len(l) /\ DOMAIN m = 1..Len(m) /\ Len(l) \in Nat /\ Len(m) \in Nat
      /\ Len(l) <= Len(m)
  BY DEF Extended
<1>2. \A i \in 1..Len(m) : i \in 1..Len(l) \/ i \in Len(l) + 1 .. Len(m)
  BY <1>1
<1>3. \A i \in 1..Len(l) : i \in 1..Len(m)
  BY <1>1
<1> QED BY <1>1, <1>2, <1>3 DEF Extended

LEMMA ExtendKeepsStrings ==
  ASSUME StringsInv(Others), NEW types, "String" \notin types,
         Extended(list, list', types), UNCHANGED <<input, cursor, begin>>
  PROVE  StringsInv(Others)'
<1>1. /\ Strings!StringsIn(list') = Strings!StringsIn(list)
      /\ \A i \in Strings!StringsIn(list) : list'[i] = list[i]
  BY ExtendedKeeps DEF Strings!StringsIn
<1>2. \A i, j : Strings!Run(i, j)' <=> Strings!Run(i, j)
  BY DEF Strings!Run
<1>3. (list \in Seq(Others \cup StringPoi))'
  <2>1. Others' = Others /\ StringPoi' = StringPoi
    BY DEF Others, StringPoi
  <2>2. list' \in Seq(Kind)
    BY DEF Extended
  <2> QED BY <2>1, <2>2 DEF Kind
<1>4. RunInv'
  BY DEF StringsInv, RunInv, Strings!NoRun
<1>5. ListedAreRuns'
  BY <1>1, <1>2 DEF StringsInv, ListedAreRuns, Strings!StringsIn
<1>6. RunsAreListed'
  <2>1. \A i, j : Strings!String(i, j)' = Strings!String(i, j)
    BY DEF Strings!String
  <2> HIDE DEF Strings!String, Strings!Run
  <2> QED BY <1>1, <1>2, <2>1 DEF StringsInv, RunsAreListed, Strings!StringsIn
<1>7. Ascending'
  BY <1>1 DEF StringsInv, Ascending, Strings!StringsIn
<1> QED BY <1>3, <1>4, <1>5, <1>6, <1>7 DEF StringsInv

LEMMA ExtendKeepsArrays ==
  ASSUME ArraysInv, NEW types, "Array" \notin types,
         Extended(list, list', types), UNCHANGED <<input, arrays>>
  PROVE  ArraysInv'
<1>1. /\ Arrays!ArraysIn(list') = Arrays!ArraysIn(list)
      /\ \A i \in Arrays!ArraysIn(list) : list'[i] = list[i]
  BY ExtendedKeeps DEF Arrays!ArraysIn
<1>2. /\ UNCHANGED <<next, inArray, start, count, prev, input>> /\ Opened' = Opened
  BY DEF arrays, Opened
<1>3. /\ \A i, j : Arrays!Stretch(i, j)' <=> Arrays!Stretch(i, j)
      /\ \A i, j : Findable(i, j)' <=> Findable(i, j)
      /\ \A a : Arrays!First(a)' = Arrays!First(a) /\ Arrays!LastOf(a)' = Arrays!LastOf(a)
      /\ \A i, j : Close(i, j)' <=> Close(i, j)
      /\ \A i : FarBefore(i)' <=> FarBefore(i)
      /\ \A v : Arrays!Filler(v)' <=> Arrays!Filler(v)
      /\ Arrays!NbScanned' = Arrays!NbScanned
  BY <1>2 DEF Arrays!Stretch, Arrays!Filler, Arrays!Far, Arrays!MaxValue, Findable,
       FarBefore, Arrays!First, Arrays!LastOf, Close, Arrays!NbScanned
<1>4. ScanInv'
  BY <1>2, <1>3 DEF ArraysInv, ScanInv
<1>5. \A i \in Arrays!ArraysIn(list) :
        /\ list[i].offset \div input.psize \in Nat
        /\ list[i].offset = (list[i].offset \div input.psize) * input.psize
        /\ list[i].count \in Nat /\ list[i].count > ArrayMin
        /\ list[i].offset \div input.psize + list[i].count + 1 < next
        /\ inArray => list[i].offset \div input.psize + list[i].count + 1 < Opened
        /\ Arrays!Stretch(list[i].offset \div input.psize,
                          list[i].offset \div input.psize + list[i].count)
  BY DEF ArraysInv, ArrayListed, Arrays!First, Arrays!LastOf
<1>6. (\A m \in Arrays!ArraysIn(list) : ArrayListed(list[m]))'
  BY <1>1, <1>2, <1>3, <1>5 DEF ArrayListed, Arrays!First, Arrays!LastOf, Arrays!ArraysIn
<1>7. ArraysAscend'
  BY <1>1, <1>2 DEF ArraysInv, ArraysAscend, Arrays!ArraysIn, Arrays!First, Arrays!LastOf
<1>8. ArraysFound'
  <2> SUFFICES ASSUME NEW i \in 0..next - 2, NEW j \in i + ArrayMin + 2 .. next - 2,
                      Findable(i, j)
               PROVE  \E m \in Arrays!ArraysIn(list') :
                        /\ list'[m].offset \div input.psize \in {i, i + 1}
                        /\ list'[m].offset \div input.psize + list'[m].count = j
    BY <1>2, <1>3 DEF ArraysFound, Arrays!ArraysIn, Arrays!First, Arrays!LastOf
  <2>1. PICK m \in Arrays!ArraysIn(list) :
          Arrays!First(list[m]) \in {i, i + 1} /\ Arrays!LastOf(list[m]) = j
    BY DEF ArraysInv, ArraysFound
  <2> QED BY <1>1, <2>1 DEF Arrays!First, Arrays!LastOf
<1> QED BY <1>4, <1>6, <1>7, <1>8 DEF ArraysInv

-----------------------------------------------------------------------------
\* The functions indexed.

\* The elements of a recorded array are words of the image.
LEMMA ArrayHoldsWords ==
  ASSUME ImageFacts, ArraysInv, NEW m \in Arrays!ArraysIn(list)
  PROVE  /\ Arrays!Elements(list[m]) \in Seq(0..Finder!MaxValue(input.psize))
         /\ DOMAIN Arrays!Elements(list[m]) = 1..list[m].count /\ list[m].count \in Nat
<1> DEFINE a == list[m]
           f == Arrays!First(a)
           c == a.count
           top == Finder!MaxValue(input.psize)
<1>1. f \in Nat /\ c \in Nat /\ f + c + 1 < next /\ f = a.offset \div input.psize
  BY DEF ArraysInv, ArrayListed, Arrays!LastOf, Arrays!First
<1>2. next \in 0..Arrays!NbScanned /\ Arrays!NbScanned \in Nat
      /\ \A w \in 0..Arrays!NbScanned - 1 : w \in DOMAIN input.words
  BY ScannedIsPrefix DEF ArraysInv, ScanInv
<1>3. \A w \in DOMAIN input.words : input.words[w] \in 0..top
  BY DEF ImageFacts
<1>4. Arrays!Elements(a) = [j \in 1..c |-> input.words[f + j - 1]]
  BY <1>1 DEF Arrays!Elements
<1> HIDE DEF a, f, c, top
<1>5. ASSUME NEW j \in 1..c PROVE input.words[f + j - 1] \in 0..top
  <2>1. f + j - 1 \in 0..Arrays!NbScanned - 1
    BY <1>1, <1>2
  <2> QED BY <1>2, <1>3, <2>1
<1>6. Arrays!Elements(a) \in Seq(0..top) /\ DOMAIN Arrays!Elements(a) = 1..c
  BY <1>1, <1>4, <1>5
<1> QED BY <1>1, <1>6 DEF a, c, top

LEMMA TargetsAreNumbers ==
  ASSUME ImageFacts, ArraysInv, NEW m \in Arrays!ArraysIn(list)
  PROVE  Arrays!Targets(list[m]) \in Seq(Nat)
<1> DEFINE e == Arrays!Elements(list[m])
           c == list[m].count
           p == Arrays!Power(2, Arrays!CodeBits)
<1>1. e \in Seq(0..Finder!MaxValue(input.psize)) /\ DOMAIN e = 1..c /\ c \in Nat
  BY ArrayHoldsWords
<1>2. p \in Nat /\ p >= 1
  BY CodeBitsAreNumber, TwoPowers, Links
<1> HIDE DEF e, c, p
<1>3. \A j \in 1..c : e[j] \in Nat /\ e[j] % p \in Nat
  <2> SUFFICES ASSUME NEW j \in 1..c PROVE e[j] \in Nat /\ e[j] % p \in Nat
    OBVIOUS
  <2> DEFINE T == 0..Finder!MaxValue(input.psize)
  <2>1. \A v \in T : v \in Nat
    OBVIOUS
  <2> HIDE DEF T
  <2>2. e[j] \in Nat
    <3>1. e \in Seq(T) /\ j \in DOMAIN e
      BY <1>1 DEF T
    <3>2. e[j] \in T
      BY <3>1
    <3> QED BY <2>1, <3>2
  <2> QED BY <1>2, <2>2
<1>4. e = [j \in 1..c |-> e[j]]
  BY <1>1
<1>5. e \in Seq(Nat) /\ [j \in 1..c |-> e[j] % p] \in Seq(Nat) /\ <<>> \in Seq(Nat)
  <2>1. e \in [1..c -> Nat]
    BY <1>3, <1>4
  <2>2. [j \in 1..c |-> e[j] % p] \in [1..c -> Nat]
    BY <1>3
  <2>3. \A q \in [1..c -> Nat] : q \in Seq(Nat)
    BY <1>1
  <2>4. <<>> \in Seq(Nat)
    OBVIOUS
  <2> QED BY <2>1, <2>2, <2>3, <2>4
<1>6. Arrays!Targets(list[m]) \in {e, [j \in 1..c |-> e[j] % p], <<>>}
  <2>1. [j \in DOMAIN e |-> e[j] % p] = [j \in 1..c |-> e[j] % p]
    BY <1>1
  <2> QED BY <2>1 DEF Arrays!Targets, e, p
<1> QED BY <1>5, <1>6

\* A function is a target, and every target is the offset of something.
Registered(l, m, flat) ==
  /\ Extended(l, m, {"Function"})
  /\ \A i \in Len(l) + 1 .. Len(m) : m[i].offset \in Range(flat)
  /\ Range(flat) \subseteq {m[i].offset : i \in DOMAIN m}

LEMMA ArraysMax ==
  ASSUME NEW n \in Nat
  PROVE  \A s \in SUBSET (1..n) : s # {} => Arrays!Max(s) \in s
<1>1. \A s : Arrays!Max(s) = Parser!Max(s)
  BY DEF Arrays!Max, Parser!Max
<1> HIDE DEF Arrays!Max, Parser!Max
<1> QED BY <1>1, GreatestPicks

\* add_unique for one target more.
LEMMA AddOne ==
  ASSUME NEW l \in Seq(Kind), NEW offset \in Nat
  PROVE  LET m == Arrays!AddUnique(l, offset)
         IN  /\ Extended(l, m, {"Function"})
             /\ \A i \in Len(l) + 1 .. Len(m) : m[i].offset = offset
             /\ \E i \in DOMAIN m : m[i].offset = offset
<1> DEFINE m == Arrays!AddUnique(l, offset)
           poi == Arrays!Poi("Function", offset, -1)
<1>1. poi \in Kind /\ poi.type = "Function" /\ poi.offset = offset
  BY DEF Kind, Others, Arrays!Poi
<1>2. Len(l) \in Nat /\ DOMAIN l = 1..Len(l)
  OBVIOUS
<1>3. CASE \E i \in DOMAIN l : l[i].offset = offset
  <2>1. m = l
    BY <1>3 DEF Arrays!AddUnique
  <2>2. Extended(l, l, {"Function"})
    BY <1>2 DEF Extended
  <2>3. \A i \in Len(l) + 1 .. Len(l) : FALSE
    BY <1>2
  <2> QED BY <1>3, <2>1, <2>2, <2>3
<1>4. CASE ~\E i \in DOMAIN l : l[i].offset = offset
  <2>1. m = Append(l, poi)
    BY <1>4 DEF Arrays!AddUnique
  <2> HIDE DEF poi, Kind, m
  <2>2. Extended(l, m, {"Function"})
    BY <1>1, <2>1, AppendExtends
  <2>3. Len(m) = Len(l) + 1 /\ m[Len(l) + 1] = poi /\ Len(l) + 1 \in DOMAIN m
    BY <1>1, <1>2, <2>1
  <2>4. \A i \in Len(l) + 1 .. Len(l) + 1 : i = Len(l) + 1
    BY <1>2
  <2>5. \A i \in Len(l) + 1 .. Len(m) : m[i].offset = offset
    BY <1>1, <2>3, <2>4
  <2> QED BY <1>1, <2>2, <2>3, <2>5 DEF m
<1> QED BY <1>3, <1>4

LEMMA ExtendedTwice ==
  ASSUME NEW l, NEW m, NEW o, NEW types, Extended(l, m, types), Extended(m, o, types)
  PROVE  Extended(l, o, types)
<1> HIDE DEF Kind
<1>1. /\ Len(l) \in Nat /\ Len(m) \in Nat /\ Len(o) \in Nat
      /\ Len(l) <= Len(m) /\ Len(m) <= Len(o)
  BY DEF Extended
<1>2. \A i \in 1..Len(l) : i \in 1..Len(m) /\ o[i] = l[i]
  BY <1>1 DEF Extended
<1>3. ASSUME NEW i \in Len(l) + 1 .. Len(o) PROVE o[i].type \in types
  <2>1. CASE i <= Len(m)
    <3>1. i \in 1..Len(m) /\ i \in Len(l) + 1 .. Len(m)
      BY <1>1, <2>1
    <3> QED BY <3>1 DEF Extended
  <2>2. CASE ~(i <= Len(m))
    <3>1. i \in Len(m) + 1 .. Len(o)
      BY <1>1, <2>2
    <3> QED BY <3>1 DEF Extended
  <2> QED BY <2>1, <2>2
<1> QED BY <1>1, <1>2, <1>3 DEF Extended

LEMMA FoldRegisters ==
  ASSUME NEW l \in Seq(Kind), NEW flat \in Seq(Nat)
  PROVE  Registered(l, Arrays!FoldLeft(Arrays!AddUnique, l, flat), flat)
<1> DEFINE n == Len(flat)
           S1 == 1..n
           pick == [s \in SUBSET S1 |-> Arrays!Max(s)]
           step == [i \in S1 |-> [m \in Seq(Kind) |-> Arrays!AddUnique(m, flat[i])]]
           Body(f) == [s \in SUBSET S1 |->
                         IF s = {} THEN l
                         ELSE Arrays!AddUnique(f[s \ {Arrays!Max(s)}], flat[Arrays!Max(s)])]
           iter == CHOOSE f : f = Body(f)
           value == Arrays!FoldLeft(Arrays!AddUnique, l, flat)
<1>1. n \in Nat /\ DOMAIN flat = S1 /\ \A i \in S1 : flat[i] \in Nat
  OBVIOUS
<1>2. Picks(pick, S1) /\ \A s \in SUBSET S1 : pick[s] = Arrays!Max(s)
  BY <1>1, ArraysMax DEF Picks
<1>3. \A i \in S1, m \in Seq(Kind) : Arrays!AddUnique(m, flat[i]) \in Seq(Kind)
  <2> SUFFICES ASSUME NEW i \in S1, NEW m \in Seq(Kind)
               PROVE  Arrays!AddUnique(m, flat[i]) \in Seq(Kind)
    OBVIOUS
  <2>1. flat[i] \in Nat
    BY <1>1
  <2> HIDE DEF Kind
  <2>2. Extended(m, Arrays!AddUnique(m, flat[i]), {"Function"})
    BY <2>1, AddOne
  <2> QED BY <2>2 DEF Extended
<1>4. step \in [S1 -> [Seq(Kind) -> Seq(Kind)]]
      /\ \A i \in S1, m \in Seq(Kind) : step[i][m] = Arrays!AddUnique(m, flat[i])
  <2> HIDE DEF Kind, S1
  <2> QED BY <1>3
<1>5. IsFiniteSet(S1)
  BY <1>1, FS_Interval
<1>6. value = iter[S1]
  BY <1>1 DEF Arrays!FoldLeft, Arrays!MapThenFoldSet
<1> HIDE DEF S1, pick, step, n, Kind, value
<1>7. PICK f : Folds(f, S1, Seq(Kind), l, step, pick)
  BY <1>2, <1>4, <1>5, FoldExists
<1>8. f = Body(f)
  <2>1. ASSUME NEW s \in SUBSET S1, s # {}
        PROVE  f[s] = Arrays!AddUnique(f[s \ {Arrays!Max(s)}], flat[Arrays!Max(s)])
    <3>1. Arrays!Max(s) \in S1 /\ f[s \ {Arrays!Max(s)}] \in Seq(Kind)
      BY <1>2, <1>7, <2>1 DEF Picks, Folds
    <3>2. f[s] = step[Arrays!Max(s)][f[s \ {Arrays!Max(s)}]]
      BY <1>2, <1>7, <2>1 DEF Folds
    <3> QED BY <1>4, <3>1, <3>2
  <2>2. f[{}] = l
    BY <1>7 DEF Folds
  <2>3. f = [s \in SUBSET S1 |-> f[s]]
    BY <1>7 DEF Folds
  <2> QED BY <2>1, <2>2, <2>3
<1>9. iter = Body(iter)
  <2> HIDE DEF Body
  <2> QED BY <1>8
<1> DEFINE At(m) == {m[i].offset : i \in DOMAIN m}
           Good(s, m) == /\ Extended(l, m, {"Function"})
                         /\ \A i \in Len(l) + 1 .. Len(m) :
                              \E j \in s : m[i].offset = flat[j]
                         /\ \A j \in s : flat[j] \in At(m)
           R1 == [s \in SUBSET S1 |-> {m \in Seq(Kind) : Good(s, m)}]
<1>10. /\ iter[{}] = l
       /\ \A s \in SUBSET S1 : s # {} =>
            iter[s] = Arrays!AddUnique(iter[s \ {pick[s]}], flat[pick[s]])
  <2>1. {} \in SUBSET S1
    OBVIOUS
  <2> HIDE DEF iter
  <2> QED BY <1>2, <1>9, <2>1
<1> HIDE DEF iter
<1>11. iter[{}] \in R1[{}]
  <2>1. Len(l) \in Nat /\ \A i \in Len(l) + 1 .. Len(l) : FALSE
    OBVIOUS
  <2>2. Extended(l, l, {"Function"})
    BY <2>1 DEF Extended
  <2>3. Good({}, l) /\ {} \in SUBSET S1
    BY <2>1, <2>2
  <2> HIDE DEF Good
  <2> QED BY <1>10, <2>3
<1>12. ASSUME NEW s \in SUBSET S1, s # {}, iter[s \ {pick[s]}] \in R1[s \ {pick[s]}]
       PROVE  iter[s] \in R1[s]
  <2> DEFINE p == pick[s]
             r == s \ {p}
             o == iter[r]
             m == iter[s]
  <2>1. p \in s /\ p \in S1 /\ r \in SUBSET S1 /\ s = r \cup {p} /\ flat[p] \in Nat
    BY <1>1, <1>2, <1>12 DEF Picks, S1
  <2>2. o \in Seq(Kind) /\ Good(r, o) /\ m = Arrays!AddUnique(o, flat[p])
    <3> HIDE DEF Good
    <3> QED BY <1>10, <1>12, <2>1
  <2> HIDE DEF p, r, o, m
  <2>3. /\ Extended(o, m, {"Function"})
        /\ \A i \in Len(o) + 1 .. Len(m) : m[i].offset = flat[p]
        /\ \E i \in DOMAIN m : m[i].offset = flat[p]
    BY <2>1, <2>2, AddOne
  <2>4. Extended(l, m, {"Function"})
    BY <2>2, <2>3, ExtendedTwice
  <2>5. /\ DOMAIN o = 1..Len(o) /\ DOMAIN m = 1..Len(m) /\ Len(l) \in Nat
        /\ Len(o) \in Nat /\ Len(m) \in Nat /\ Len(o) <= Len(m)
        /\ \A i \in 1..Len(o) : m[i] = o[i]
    BY <2>2, <2>3 DEF Extended
  <2>6. At(o) \subseteq At(m)
    <3>1. \A i \in DOMAIN o : i \in DOMAIN m /\ m[i] = o[i]
      BY <2>5
    <3> QED BY <3>1
  <2>7. ASSUME NEW i \in Len(l) + 1 .. Len(m)
        PROVE  \E j \in s : m[i].offset = flat[j]
    <3>1. CASE i <= Len(o)
      <4>1. i \in Len(l) + 1 .. Len(o) /\ i \in 1..Len(o)
        BY <2>5, <3>1
      <4>2. PICK j \in r : o[i].offset = flat[j]
        BY <2>2, <4>1
      <4> QED BY <2>1, <2>5, <4>1, <4>2
    <3>2. CASE ~(i <= Len(o))
      <4>1. i \in Len(o) + 1 .. Len(m)
        BY <2>5, <3>2
      <4> QED BY <2>1, <2>3, <4>1
    <3> QED BY <3>1, <3>2
  <2>8. \A j \in s : flat[j] \in At(m)
    BY <2>1, <2>2, <2>3, <2>6
  <2>9. Good(s, m) /\ m \in Seq(Kind)
    BY <2>3, <2>4, <2>7, <2>8 DEF Extended
  <2> HIDE DEF Good
  <2> QED BY <2>9 DEF m
<1> HIDE DEF R1
<1>13. \A s \in SUBSET S1 : iter[s] \in R1[s]
  BY <1>2, <1>5, <1>11, <1>12, FoldStays, Zenon
<1>14. Good(S1, iter[S1])
  <2>1. S1 \in SUBSET S1 /\ iter[S1] \in R1[S1]
    BY <1>13
  <2> HIDE DEF Good
  <2> QED BY <2>1 DEF R1
<1>15. Range(flat) = {flat[j] : j \in S1}
  BY <1>1 DEF Range, S1
<1> DEFINE o == iter[S1]
<1>16. Good(S1, o)
  BY <1>14
<1> HIDE DEF o
<1>17. Registered(l, o, flat)
  <2>1. \A i \in Len(l) + 1 .. Len(o) : o[i].offset \in Range(flat)
    BY <1>15, <1>16
  <2>2. Range(flat) \subseteq At(o)
    BY <1>15, <1>16
  <2> QED BY <1>16, <2>1, <2>2 DEF Registered
<1> QED BY <1>6, <1>17 DEF value, o

-----------------------------------------------------------------------------

OffsetsIn(l, type) == {l[i].offset : i \in {i \in DOMAIN l : l[i].type = type}}

\* What an array points at, if a function was found through it.
LEMMA TargetsShareBase ==
  ASSUME ImageFacts, ArraysInv, NEW m \in Arrays!ArraysIn(list),
         Arrays!CodeBits <= TopBit, NEW f \in Range(Arrays!Targets(list[m]))
  PROVE  /\ Arrays!GetType(input.regions, f) = "Code"
         /\ \E base \in 0..Arrays!MaxValue(input.psize) :
              {v - base : v \in Arrays!ToSet(Arrays!Elements(list[m]))}
                = Range(Arrays!Targets(list[m]))
<1> DEFINE e == Arrays!Elements(list[m])
           c == list[m].count
           z == Arrays!CodeBits
           p == Arrays!Power(2, z)
           top == Arrays!MaxValue(input.psize)
           t == Arrays!Targets(list[m])
<1>1. e \in Seq(0..Finder!MaxValue(input.psize)) /\ DOMAIN e = 1..c /\ c \in Nat
  BY ArrayHoldsWords
<1>2. top = Finder!MaxValue(input.psize) /\ top \in Nat
  <2>1. input.psize = WordBytes \/ input.psize = 2 * WordBytes
    BY DEF ImageFacts
  <2> QED BY <2>1, LargestValue, ConstantFacts
<1>3. p \in Nat /\ p >= 1 /\ z \in Nat
  BY CodeBitsAreNumber, TwoPowers, Links
<1>4. t # <<>>
  <2>1. Range(<<>>) = {}
    BY DEF Range
  <2> HIDE DEF t
  <2> QED BY <2>1 DEF t
<1>5. t = [j \in DOMAIN e |-> e[j] % p] /\ \A bits \in Arrays!Widths : Arrays!PointsIntoCode(list[m], bits)
  <2>1. ~(z > TopBit)
    <3>1. TopBit \in Nat
      BY CliAssumption
    <3> HIDE DEF z
    <3> QED BY <1>3, <3>1 DEF z
  <2> HIDE DEF e, p
  <2> QED BY <1>4, <2>1 DEF Arrays!Targets, e, p
<1>6. \A j \in DOMAIN e : /\ e[j] \div p = e[1] \div p
                          /\ Arrays!GetType(input.regions, e[j] % p) = "Code"
  <2>1. z \in Arrays!Widths
    <3>1. TopBit \in Nat
      BY CliAssumption
    <3> HIDE DEF z
    <3> QED BY <1>3, <3>1 DEF z, Arrays!Widths
  <2>2. Arrays!PointsIntoCode(list[m], z)
    BY <1>5, <2>1
  <2> QED BY <2>2 DEF Arrays!PointsIntoCode
<1> HIDE DEF e, c, z, p, top, t
<1>7. DOMAIN t = 1..c
  BY <1>1, <1>5
<1>8. PICK j1 \in 1..c : f = e[j1] % p
  <2>1. f \in Range(t)
    BY DEF t
  <2>2. \E j \in 1..c : f = t[j]
    BY <1>7, <2>1 DEF Range
  <2> QED BY <1>1, <1>5, <2>2
<1> DEFINE T == 0..top
<1>9. \A v \in T : v \in Nat /\ v <= top
  BY <1>2
<1>10. \A j \in 1..c : e[j] \in T
  <2>1. e \in Seq(T)
    BY <1>1, <1>2
  <2> HIDE DEF T
  <2> QED BY <1>1, <2>1
<1> HIDE DEF T
<1>11. \A j \in 1..c : e[j] \in Nat /\ e[j] <= top
  BY <1>9, <1>10
<1> DEFINE h == e[1] \div p
           base == h * p
<1>12. \A v \in Nat : (v \div p) * p \in Nat /\ (v \div p) * p <= v /\ v - (v \div p) * p = v % p
  BY <1>3
<1>13. 1 \in 1..c
  BY <1>1, <1>8
<1>14. base \in 0..top /\ \A j \in 1..c : e[j] - base = e[j] % p
  <2>1. base \in Nat /\ base <= e[1]
    BY <1>11, <1>12, <1>13
  <2>2. \A j \in 1..c : e[j] - base = e[j] % p
    BY <1>1, <1>6, <1>11, <1>12
  <2>3. e[1] \in Nat /\ e[1] <= top
    BY <1>11, <1>13
  <2> HIDE DEF base
  <2> QED BY <1>2, <2>1, <2>2, <2>3
<1> HIDE DEF base, h
<1>15. Arrays!ToSet(e) = {e[j] : j \in 1..c}
  BY <1>1 DEF Arrays!ToSet
<1>16. Range(t) = {e[j] % p : j \in 1..c}
  BY <1>1, <1>5 DEF Range
<1>17. {v - base : v \in Arrays!ToSet(e)} = Range(t)
  BY <1>14, <1>15, <1>16
<1>18. Arrays!GetType(input.regions, f) = "Code"
  BY <1>1, <1>6, <1>8
<1> QED BY <1>14, <1>17, <1>18 DEF e, t, top

\* index_functions, as a whole.
LEMMA FunctionsIndexed ==
  ASSUME ImageFacts, ArraysInv, list \in Seq(Kind), UNCHANGED <<input, arrays>>,
         list' = Arrays!WithFunctions(list)
  PROVE  /\ Extended(list, list', {"Function"})
         /\ (\A i \in DOMAIN list : list[i].type # "Function") => Arrays!FunctionsShareBase'
<1> DEFINE n == Len(list)
           lists == [i \in DOMAIN list |->
                       IF list[i].type = "Array" THEN Arrays!Targets(list[i]) ELSE <<>>]
           flat == Arrays!FlattenSeq(lists)
<1>1. n \in Nat /\ DOMAIN list = 1..n
  BY DEF Kind
<1>2. \A i \in 1..n : list[i].type = "Array" => i \in Arrays!ArraysIn(list)
  BY <1>1 DEF Arrays!ArraysIn
<1>3. lists \in [1..n -> Seq(Nat)]
  <2>1. \A i \in 1..n :
          (IF list[i].type = "Array" THEN Arrays!Targets(list[i]) ELSE <<>>) \in Seq(Nat)
    <3> SUFFICES ASSUME NEW i \in 1..n
                 PROVE  (IF list[i].type = "Array" THEN Arrays!Targets(list[i]) ELSE <<>>)
                           \in Seq(Nat)
      OBVIOUS
    <3>1. <<>> \in Seq(Nat)
      OBVIOUS
    <3>2. list[i].type = "Array" => Arrays!Targets(list[i]) \in Seq(Nat)
      BY <1>2, TargetsAreNumbers
    <3> QED BY <3>1, <3>2
  <2> HIDE DEF n
  <2> QED BY <1>1, <2>1
<1>4. \A i \in 1..n : lists[i] = IF list[i].type = "Array" THEN Arrays!Targets(list[i]) ELSE <<>>
  BY <1>1
<1>5. list' = Arrays!FoldLeft(Arrays!AddUnique, list, flat)
  BY DEF Arrays!WithFunctions
<1> HIDE DEF lists, n
<1>6. flat \in Seq(Nat) /\ Range(flat) = UNION {Range(lists[i]) : i \in 1..n}
  BY <1>1, <1>3, FlattenHolds
<1> HIDE DEF flat
<1>7. Registered(list, list', flat)
  BY <1>5, <1>6, FoldRegisters
<1>8. Extended(list, list', {"Function"})
  BY <1>7 DEF Registered
<1>9. ASSUME \A i \in DOMAIN list : list[i].type # "Function" PROVE Arrays!FunctionsShareBase'
  <2>1. /\ DOMAIN list' = 1..Len(list') /\ Len(list') \in Nat /\ n <= Len(list')
        /\ \A i \in 1..n : list'[i] = list[i]
    BY <1>8 DEF Extended, Kind, n
  <2>2. \A i \in 1..Len(list') : list'[i].type = "Function" => i \in n + 1 .. Len(list')
    <3> SUFFICES ASSUME NEW i \in 1..Len(list'), list'[i].type = "Function", i <= n
                 PROVE  FALSE
      BY <1>1, <2>1
    <3>1. i \in 1..n
      BY <1>1
    <3> QED BY <1>1, <1>9, <2>1, <3>1
  <2>3. \A f \in OffsetsIn(list', "Function") : f \in Range(flat)
    BY <1>7, <2>1, <2>2 DEF Registered, OffsetsIn, n
  <2>4. Range(flat) \subseteq UNION {OffsetsIn(list', t) : t \in {"Function", "String", "Array"}}
    <3>1. \A i \in DOMAIN list' : list'[i].type \in {"Function", "String", "Array"}
      <4>1. list' \in Seq(Kind)
        BY <1>8 DEF Extended
      <4> HIDE DEF Kind
      <4>2. \A i \in DOMAIN list' : list'[i] \in Kind
        BY <4>1
      <4> QED BY <4>2, KindTypes
    <3>2. \A i \in DOMAIN list' :
            list'[i].offset \in OffsetsIn(list', list'[i].type)
      BY DEF OffsetsIn
    <3>3. \A v \in Range(flat) : \E i \in DOMAIN list' : v = list'[i].offset
      BY <1>7 DEF Registered
    <3> HIDE DEF OffsetsIn
    <3> QED BY <3>1, <3>2, <3>3
  <2>5. ASSUME Arrays!CodeBits <= TopBit, NEW f \in OffsetsIn(list', "Function")
        PROVE  /\ Arrays!GetType(input.regions, f) = "Code"
               /\ \E m \in Arrays!ArraysIn(list'), base \in 0..Arrays!MaxValue(input.psize) :
                    LET offsets == {v - base : v \in Arrays!ToSet(Arrays!Elements(list'[m]))}
                    IN  /\ f \in offsets
                        /\ offsets \subseteq
                             UNION {OffsetsIn(list', t) : t \in {"Function", "String", "Array"}}
    <3>1. PICK m \in 1..n : f \in Range(lists[m])
      BY <1>6, <2>3, <2>5
    <3>2. list[m].type = "Array" /\ lists[m] = Arrays!Targets(list[m])
      <4>1. Range(<<>>) = {}
        BY DEF Range
      <4> QED BY <1>4, <3>1, <4>1
    <3>3. m \in Arrays!ArraysIn(list)
      BY <1>2, <3>2
    <3>4. /\ Arrays!GetType(input.regions, f) = "Code"
          /\ \E base \in 0..Arrays!MaxValue(input.psize) :
               {v - base : v \in Arrays!ToSet(Arrays!Elements(list[m]))}
                 = Range(Arrays!Targets(list[m]))
      BY <2>5, <3>1, <3>2, <3>3, TargetsShareBase
    <3>5. PICK base \in 0..Arrays!MaxValue(input.psize) :
            {v - base : v \in Arrays!ToSet(Arrays!Elements(list[m]))} = Range(lists[m])
      BY <3>2, <3>4
    <3>6. Range(lists[m]) \subseteq Range(flat)
      BY <1>6, <3>1
    <3>7. m \in Arrays!ArraysIn(list') /\ list'[m] = list[m]
      <4>1. m \in 1..Len(list')
        BY <1>1, <2>1, <3>1
      <4> QED BY <2>1, <3>1, <3>2, <4>1 DEF Arrays!ArraysIn
    <3> DEFINE offsets == {v - base : v \in Arrays!ToSet(Arrays!Elements(list'[m]))}
               all == UNION {OffsetsIn(list', t) : t \in {"Function", "String", "Array"}}
    <3>8. offsets = Range(lists[m])
      BY <3>5, <3>7
    <3>9. f \in offsets /\ offsets \subseteq all
      <4> HIDE DEF offsets, all
      <4>1. Range(flat) \subseteq all
        BY <2>4 DEF all
      <4> QED BY <3>1, <3>6, <3>8, <4>1
    <3> QED BY <3>4, <3>7, <3>9
  <2>6. /\ Arrays!CodeBits' = Arrays!CodeBits /\ Arrays!MaxValue(input.psize)' = Arrays!MaxValue(input.psize)
        /\ \A a : Arrays!Elements(a)' = Arrays!Elements(a)
        /\ \A f : Arrays!GetType(input.regions, f)' = Arrays!GetType(input.regions, f)
        /\ \A t : Arrays!OffsetsOf(t)' = OffsetsIn(list', t)
        /\ Arrays!ArraysIn(list)' = Arrays!ArraysIn(list')
    <3>1. input' = input
      OBVIOUS
    <3> QED BY <3>1 DEF Arrays!CodeBits, Arrays!MaxCodeAddr, Arrays!Log2, Arrays!MaxValue,
             Arrays!Elements, Arrays!GetType, Arrays!OffsetsOf, OffsetsIn, Arrays!ArraysIn
  <2> QED BY <2>5, <2>6 DEF Arrays!FunctionsShareBase
<1> QED BY <1>8, <1>9

-----------------------------------------------------------------------------
\* The list at each stage.

ImageOk == pc \in Stages => ImageFacts /\ Arrays!NbScanned \in Nat

LEMMA ImageHolds == Spec => []ImageOk
<1>1. ControlInv => ImageOk
  BY ImageIsSound, ScannedIsPrefix DEF ImageOk
<1> QED BY <1>1, ControlHolds, PTL

NoFunctions == \A i \in DOMAIN list : list[i].type # "Function"

StageInv ==
  /\ Given(args.functions) \/ symbols = <<>>
  /\ pc \in {"options", "symbols", "mode"} => Strings!Init /\ Arrays!Init
  /\ pc \in Stages => StringsInv(Others) /\ ArraysInv
  /\ pc = "populating" /\ ~input.symbols => NoFunctions
  /\ pc = "voting" /\ ~input.symbols => Arrays!FunctionsShareBase

LEMMA StageUnchanged ==
  ASSUME UNCHANGED <<input, list, strings, arrays>>
  PROVE  /\ StringsInv(Others)' <=> StringsInv(Others)
         /\ ArraysInv' <=> ArraysInv
         /\ NoFunctions' <=> NoFunctions
         /\ Arrays!FunctionsShareBase' <=> Arrays!FunctionsShareBase
         /\ (Strings!Init /\ Arrays!Init)' <=> (Strings!Init /\ Arrays!Init)
<1>1. StringsInv(Others)' <=> StringsInv(Others)
  BY DEF strings, Others, StringsInv, StringPoi, RunInv, Strings!NoRun, ListedAreRuns,
     RunsAreListed, Ascending, Strings!StringsIn, Strings!Run, Strings!String
<1>2. ArraysInv' <=> ArraysInv
  BY DEF arrays, ArraysInv, ScanInv, ArrayListed, ArraysAscend, ArraysFound, Findable, Opened,
     Close, FarBefore, Arrays!Stretch, Arrays!Filler, Arrays!Far, Arrays!MaxValue,
     Arrays!First, Arrays!LastOf, Arrays!NbScanned, Arrays!ArraysIn
<1>3. NoFunctions' <=> NoFunctions
  BY DEF NoFunctions
<1>4. Arrays!FunctionsShareBase' <=> Arrays!FunctionsShareBase
  BY DEF Arrays!FunctionsShareBase, Arrays!CodeBits, Arrays!MaxCodeAddr, Arrays!Log2,
     Arrays!MaxValue, Arrays!Elements, Arrays!GetType, Arrays!OffsetsOf, Arrays!ArraysIn
<1>5. (Strings!Init /\ Arrays!Init)' <=> (Strings!Init /\ Arrays!Init)
  BY DEF strings, arrays, Strings!Init, Strings!NoRun, Arrays!Init
<1> QED BY <1>1, <1>2, <1>3, <1>4, <1>5

\* The search starts with a list of symbols, or an empty one.
LEMMA StartStage ==
  ASSUME ControlInv, ImageOk', ParserInv, StageInv, StartSearch
  PROVE  StageInv'
<1>1. /\ pc = "mode" /\ pc' = "populating" /\ list' = symbols
      /\ UNCHANGED <<args, rest, symbols, added, strings, arrays>>
      /\ input'.symbols = input.symbols
  BY DEF StartSearch, program, parser
<1>2. input.symbols = Given(args.functions)
  BY <1>1 DEF ControlInv, ImageOf
<1>3. Strings!Init /\ Arrays!Init /\ (Given(args.functions) \/ symbols = <<>>)
  BY <1>1 DEF StageInv
<1>4. cursor' = 0 /\ begin' = -1 /\ next' = 0 /\ inArray' = FALSE /\ start' = 0 /\ count' = 0
  BY <1>1, <1>3 DEF Strings!Init, Strings!NoRun, Arrays!Init, strings, arrays
<1>5. /\ list' \in Seq(Others \cup StringPoi)
      /\ \A i \in DOMAIN list' : list'[i].type = "Function"
  <2>1. SymbolPoi \subseteq Others
    BY ConstantFacts DEF SymbolPoi, Others
  <2>2. \A poi \in SymbolPoi : poi.type = "Function"
    BY DEF SymbolPoi
  <2>3. list' \in Seq(SymbolPoi)
    BY <1>1 DEF ParserInv
  <2> HIDE DEF Others
  <2>4. \A i \in DOMAIN list' : list'[i] \in SymbolPoi
    BY <2>3
  <2>5. list' \in Seq(Others \cup StringPoi)
    BY <2>1, <2>3
  <2> QED BY <2>2, <2>4, <2>5
<1>6. StringsInv(Others)'
  <2>1. (list \in Seq(Others \cup StringPoi))'
    <3>1. Others' = Others /\ StringPoi' = StringPoi
      BY DEF Others, StringPoi
    <3> QED BY <1>5, <3>1
  <2>2. RunInv'
    BY <1>4 DEF RunInv, Strings!NoRun
  <2>3. Strings!StringsIn(list)' = {}
    BY <1>5 DEF Strings!StringsIn
  <2>4. ListedAreRuns' /\ Ascending'
    BY <2>3 DEF ListedAreRuns, Ascending
  <2>5. RunsAreListed'
    BY <1>4 DEF RunsAreListed
  <2> QED BY <2>1, <2>2, <2>4, <2>5 DEF StringsInv
<1>7. ArraysInv'
  <2>1. Arrays!ArraysIn(list)' = {}
    BY <1>5 DEF Arrays!ArraysIn
  <2>2. Arrays!NbScanned' \in Nat
    BY <1>1 DEF ImageOk, Stages
  <2>3. next' - 2 = -2 /\ 0..next' - 2 = {} /\ 0 \in 0..Arrays!NbScanned'
    BY <1>4, <2>2
  <2>4. ScanInv'
    BY <1>4, <2>3 DEF ScanInv
  <2>5. ArraysFound' /\ ArraysAscend'
    BY <2>1, <2>3 DEF ArraysFound, ArraysAscend
  <2> QED BY <2>1, <2>4, <2>5 DEF ArraysInv
<1>8. ~input'.symbols => NoFunctions'
  <2>1. ~input'.symbols => list' = <<>>
    BY <1>1, <1>2, <1>3
  <2> QED BY <2>1 DEF NoFunctions
<1>9. Given(args.functions)' = Given(args.functions)
  BY <1>1 DEF Given
<1> QED BY <1>1, <1>3, <1>6, <1>7, <1>8, <1>9 DEF StageInv

LEMMA StringStage ==
  ASSUME ControlInv, StageInv, AppendStrings, UNCHANGED <<program, parser>>
  PROVE  StageInv'
<1>1. /\ pc = "populating" /\ pc' = pc /\ UNCHANGED <<args, symbols, input, arrays>>
      /\ Strings!Next
  BY DEF AppendStrings, Populating, program, parser
<1>2. StringsInv(Others) /\ ArraysInv /\ list \in Seq(Kind)
  BY <1>1 DEF StageInv, Stages, StringsInv, Kind
<1>3. Strings!Next
  BY <1>1 DEF Strings!Next, Strings!OpenRun, Strings!CloseRun, Strings!PassByte, Strings!AtByte,
     Strings!IsPrint, Strings!Advance, Strings!LongEnough, Strings!String, Strings!NoRun,
     Strings!Next, Strings!OpenRun, Strings!CloseRun, Strings!PassByte, Strings!AtByte, Strings!IsPrint, Strings!Advance,
     Strings!LongEnough, Strings!String, Strings!NoRun
<1>4. StringsInv(Others)'
  <2>1. StringMin \in Nat
    BY CliAssumption
  <2> QED BY <1>2, <1>3, <2>1, NextStringsInv
<1>5. Extended(list, list', {"String"})
  <2>1. \/ list' = list
        \/ list' = Append(list, Strings!String(begin, cursor - begin)) /\ begin # Strings!NoRun
    BY <1>3 DEF Strings!Next, Strings!OpenRun, Strings!CloseRun, Strings!PassByte
  <2>2. CASE list' = list
    <3>1. Len(list) \in Nat /\ \A i \in Len(list) + 1 .. Len(list) : FALSE
      BY <1>2 DEF Kind
    <3> QED BY <1>2, <2>2, <3>1 DEF Extended
  <2>3. CASE list' = Append(list, Strings!String(begin, cursor - begin)) /\ begin # Strings!NoRun
    <3> DEFINE poi == Strings!String(begin, cursor - begin)
    <3>1. cursor - begin \in Nat /\ begin \in Nat
      BY <1>2, <2>3 DEF StringsInv, RunInv
    <3>2. poi \in StringPoi /\ poi.type = "String"
      BY <3>1 DEF StringPoi, Strings!String
    <3> HIDE DEF poi
    <3>3. poi \in Kind
      BY <3>2 DEF Kind
    <3>4. Extended(list, Append(list, poi), {poi.type})
      BY <1>2, <3>3, AppendExtends
    <3> QED BY <2>3, <3>2, <3>4 DEF poi
  <2> QED BY <2>1, <2>2, <2>3
<1>6. ArraysInv'
  BY <1>1, <1>2, <1>5, ExtendKeepsArrays
<1>7. NoFunctions => NoFunctions'
  <2>1. {i \in DOMAIN list' : list'[i].type = "Function"}
          = {i \in DOMAIN list : list[i].type = "Function"}
    BY <1>5, ExtendedKeeps
  <2> QED BY <2>1 DEF NoFunctions
<1>8. Given(args.functions)' = Given(args.functions)
  BY <1>1 DEF Given
<1> QED BY <1>1, <1>4, <1>6, <1>7, <1>8 DEF StageInv

LEMMA ArrayStage ==
  ASSUME ControlInv, ImageOk, StageInv, AppendValueArrays, UNCHANGED <<program, parser>>
  PROVE  StageInv'
<1>1. /\ pc = "populating" /\ pc' = pc /\ UNCHANGED <<args, symbols, cursor, begin>>
      /\ Arrays!Next
  BY DEF AppendValueArrays, Populating, program, parser, strings
<1>2. /\ StringsInv(Others) /\ ArraysInv /\ list \in Seq(Kind) /\ ImageFacts
  BY <1>1 DEF StageInv, Stages, StringsInv, Kind, ImageOk
<1>3. /\ ArraysInv'
      /\ list' # list => /\ list' = Append(list, Arrays!Poi("Array", start, count))
                         /\ start \in Nat /\ count \in Nat
  <2>1. ArrayMin \in Nat
    BY CliAssumption
  <2> HIDE DEF Kind
  <2> QED BY <1>1, <1>2, <2>1, ScanKeepsArrays
<1>4. Extended(list, list', {"Array"})
  <2>1. CASE list' = list
    <3>1. Len(list) \in Nat /\ \A i \in Len(list) + 1 .. Len(list) : FALSE
      BY <1>2 DEF Kind
    <3> QED BY <1>2, <2>1, <3>1 DEF Extended
  <2>2. CASE list' # list
    <3> DEFINE poi == Arrays!Poi("Array", start, count)
    <3>1. poi \in Others /\ poi.type = "Array"
      BY <1>3, <2>2 DEF Arrays!Poi, Others
    <3> HIDE DEF poi
    <3>2. poi \in Kind
      BY <3>1 DEF Kind
    <3>3. Extended(list, Append(list, poi), {poi.type})
      BY <1>2, <3>2, AppendExtends
    <3> QED BY <1>3, <2>2, <3>1, <3>3 DEF poi
  <2> QED BY <2>1, <2>2
<1>5. input' = input
  BY <1>1 DEF Arrays!Next, Arrays!SkipFiller, Arrays!OpenArray, Arrays!ExtendArray,
     Arrays!CloseArray, Arrays!Advance
<1>6. StringsInv(Others)'
  BY <1>1, <1>2, <1>4, <1>5, ExtendKeepsStrings
<1>7. NoFunctions => NoFunctions'
  <2>1. {i \in DOMAIN list' : list'[i].type = "Function"}
          = {i \in DOMAIN list : list[i].type = "Function"}
    BY <1>4, ExtendedKeeps
  <2> QED BY <2>1 DEF NoFunctions
<1>8. Given(args.functions)' = Given(args.functions)
  BY <1>1 DEF Given
<1> QED BY <1>1, <1>3, <1>5, <1>6, <1>7, <1>8 DEF StageInv

LEMMA FunctionStage ==
  ASSUME ControlInv, ImageOk, StageInv, IndexFunctions, UNCHANGED <<program, parser>>
  PROVE  StageInv'
<1>1. /\ pc = "populating" /\ pc' = "voting"
      /\ UNCHANGED <<args, symbols, input, strings, arrays>>
      /\ list' = IF input.symbols THEN list ELSE Arrays!WithFunctions(list)
  BY DEF IndexFunctions, Populating, program, parser
<1>2. /\ StringsInv(Others) /\ ArraysInv /\ list \in Seq(Kind) /\ ImageFacts
  BY <1>1 DEF StageInv, Stages, StringsInv, Kind, ImageOk
<1>3. Given(args.functions)' = Given(args.functions)
  BY <1>1 DEF Given
<1>4. CASE input.symbols
  BY <1>1, <1>2, <1>3, <1>4, StageUnchanged DEF StageInv
<1>5. CASE ~input.symbols
  <2>1. list' = Arrays!WithFunctions(list) /\ \A i \in DOMAIN list : list[i].type # "Function"
    BY <1>1, <1>5 DEF StageInv, NoFunctions
  <2>2. Extended(list, list', {"Function"}) /\ Arrays!FunctionsShareBase'
    BY <1>1, <1>2, <2>1, FunctionsIndexed
  <2>3. StringsInv(Others)'
    BY <1>1, <1>2, <2>2, ExtendKeepsStrings DEF strings
  <2>4. ArraysInv'
    BY <1>1, <1>2, <2>2, ExtendKeepsArrays
  <2> QED BY <1>1, <1>3, <2>2, <2>3, <2>4 DEF StageInv
<1> QED BY <1>4, <1>5

LEMMA NextStage ==
  ASSUME ControlInv, ImageOk, ImageOk', ParserInv, StageInv, [Next]_vars
  PROVE  StageInv'
<1>1. ASSUME UNCHANGED <<args, symbols, input, list, strings, arrays>>,
             \/ pc' = pc
             \/ pc = "symbols" /\ pc' = "mode"
             \/ pc' \notin {"options", "symbols", "mode", "populating"} \cup Stages
             \/ pc \in Stages /\ pc' \in Stages \ {"populating", "voting"}
      PROVE  StageInv'
  <2>1. Given(args.functions)' = Given(args.functions)
    BY <1>1 DEF Given
  <2>2. /\ StringsInv(Others)' <=> StringsInv(Others)
        /\ ArraysInv' <=> ArraysInv
        /\ NoFunctions' <=> NoFunctions
        /\ Arrays!FunctionsShareBase' <=> Arrays!FunctionsShareBase
        /\ (Strings!Init /\ Arrays!Init)' <=> (Strings!Init /\ Arrays!Init)
    BY <1>1, StageUnchanged
  <2> QED BY <1>1, <2>1, <2>2 DEF StageInv, Stages
<1>2. CASE RefuseOptions \/ RefuseFile \/ RefuseSymbols \/ RefuseBase \/ NoPointsOfInterest
  <2>1. UNCHANGED <<args, symbols, input, list, strings, arrays>> /\ pc' = "exit"
    BY <1>2 DEF RefuseOptions, RefuseFile, RefuseSymbols, RefuseBase, NoPointsOfInterest,
       Fail, parser, finder
  <2> QED BY <1>1, <2>1 DEF Stages
<1>3. CASE Load
  <2>1. /\ pc = "options" /\ pc' \in {"symbols", "mode"}
        /\ UNCHANGED <<args, symbols, list, strings, arrays>>
    BY <1>3 DEF Load, program, parser, finder
  <2>2. (Strings!Init /\ Arrays!Init)'
    BY <2>1 DEF StageInv, strings, arrays, Strings!Init, Strings!NoRun, Arrays!Init
  <2>3. Given(args.functions)' = Given(args.functions)
    BY <2>1 DEF Given
  <2> QED BY <2>1, <2>2, <2>3 DEF StageInv, Stages
<1>4. CASE LoadSymbols
  <2>1. /\ pc = "symbols" /\ pc' = pc /\ UNCHANGED <<args, input, list, strings, arrays>>
    BY <1>4 DEF LoadSymbols, program, finder
  <2>2. Given(args.functions)' /\ Given(args.functions)
    BY <2>1 DEF ControlInv, Given
  <2>3. (Strings!Init /\ Arrays!Init)'
    BY <2>1 DEF StageInv, strings, arrays, Strings!Init, Strings!NoRun, Arrays!Init
  <2> QED BY <2>1, <2>2, <2>3 DEF StageInv, Stages
<1>5. CASE SymbolsLoaded
  BY <1>1, <1>5 DEF SymbolsLoaded, program, parser, finder
<1>6. CASE FindUds \/ FindUdsPanics
  BY <1>1, <1>6 DEF FindUds, FindUdsPanics, parser, finder, Stages
<1>7. CASE PrintBaseAddress \/ Unwind
  BY <1>1, <1>7 DEF PrintBaseAddress, Unwind, parser, finder, Stages
<1>8. CASE StartSearch
  BY <1>8, StartStage
<1>9. CASE SearchBaseAddress
  <2>1. UNCHANGED <<program, parser>> /\ FindBaseAddress
    BY <1>9 DEF SearchBaseAddress
  <2>2. CASE ComputeCandidates
    <3>1. UNCHANGED <<args, symbols, strings, arrays>>
      BY <2>1, <2>2 DEF ComputeCandidates, program, parser
    <3>2. Finder!Next
      BY <2>2 DEF ComputeCandidates
    <3>3. UNCHANGED <<input, list>> /\ pc \in Stages /\
          \/ pc' = pc
          \/ pc' \in {"refused", "panicked"}
          \/ pc' \in Stages \ {"populating", "voting"}
      BY <3>2 DEF Finder!Next, Finder!Refuse, Finder!VotePoi, Finder!VotesCast, Finder!Rank,
         Finder!RefineCandidates, Finder!SpawnRefused, Finder!Select, Stages
    <3> QED BY <1>1, <3>1, <3>3 DEF Stages
  <2> QED BY <2>1, <2>2, StringStage, ArrayStage, FunctionStage DEF FindBaseAddress
<1>10. CASE UNCHANGED vars
  BY <1>1, <1>10 DEF vars, program, parser, finder
<1> QED BY <1>2, <1>3, <1>4, <1>5, <1>6, <1>7, <1>8, <1>9, <1>10 DEF Next, Terminated

LEMMA StageHolds == Spec => []StageInv
<1>1. Init => StageInv
  BY DEF Init, Parser!Init, LibraryInit, StageInv, Stages
<1>2. ControlInv /\ ImageOk /\ ImageOk' /\ ParserInv /\ StageInv /\ [Next]_vars => StageInv'
  BY NextStage
<1> QED BY <1>1, <1>2, ControlHolds, ImageHolds, ParserHolds, PTL DEF Spec

\* append_strings (poi.rs): at every stage of the search the list holds the
\* terminated printable runs of the bytes read, whatever symbols it started
\* with and whatever arrays and functions follow.
THEOREM ListHoldsStrings == Spec => []StringsAreRuns
<1>1. StageInv => StringsAreRuns
  <2> SUFFICES ASSUME StageInv, Searching PROVE Strings!StringsAreRuns
    BY DEF StringsAreRuns
  <2>1. StringsInv(Others)
    BY DEF StageInv, Searching, Stages
  <2> QED BY <2>1, StringsInvGivesRuns
<1> QED BY <1>1, StageHolds, PTL

\* append_value_arrays (base_address.rs): the arrays recorded are runs of close values
\* of the image, and all of them, for every image and every byte order.
THEOREM ListHoldsArrays == Spec => []ArraysAreRuns
<1>1. ImageOk /\ StageInv => ArraysAreRuns
  BY ArraysInvGivesRuns, CliAssumption DEF ImageOk, StageInv, ArraysAreRuns, Searching, Stages
<1> QED BY <1>1, ImageHolds, StageHolds, PTL

\* index_functions (base_address.rs): what it registers is code, and one base address
\* explains the whole array a function comes from.
THEOREM FoundFunctionsShareBase == Spec => []FunctionsShareBase
<1>1. StageInv => FunctionsShareBase
  BY DEF StageInv, FunctionsShareBase
<1> QED BY <1>1, StageHolds, PTL

-----------------------------------------------------------------------------
\* Bits.

\* A bit more.
LEMMA NextBit ==
  ASSUME NEW p \in Nat \ {0}, NEW x \in Nat
  PROVE  x % (2 * p) = (x % p) + p * ((x \div p) % 2)
<1> DEFINE q == x \div p
           r == x % p
           h == q \div 2
           b == q % 2
<1>1. q \in Nat /\ r \in 0..p - 1 /\ x = p * q + r
  BY Division
<1> HIDE DEF q, r
<1>2. h \in Nat /\ b \in 0..1 /\ q = 2 * h + b
  BY <1>1
<1> HIDE DEF h, b
<1>3. x = (2 * p) * h + (r + p * b)
  <2>1. p * q = p * (2 * h) + p * b
    BY <1>2
  <2>2. p * (2 * h) = (2 * p) * h /\ p * b \in Int /\ (2 * p) * h \in Int
    BY <1>2
  <2> QED BY <1>1, <2>1, <2>2
<1>4. r + p * b \in 0..2 * p - 1
  <2>1. p * b = 0 \/ p * b = p
    BY <1>2
  <2> QED BY <1>1, <2>1
<1>5. x % (2 * p) = r + p * b
  <2> DEFINE d == 2 * p
             s == r + p * b
  <2>1. d \in Nat \ {0} /\ s \in 0..d - 1 /\ x = d * h + s
    BY <1>3, <1>4
  <2> HIDE DEF d, s
  <2>2. (d * h + s) % d = s
    BY <1>2, <2>1, DivisionIsUnique
  <2>3. x % d = s
    BY <2>1, <2>2
  <2> QED BY <2>3 DEF d, s
<1> QED BY <1>5 DEF r, b, q

\* The bits of a power of two less one are the lower ones.
LEMMA MaskBits ==
  ASSUME NEW m \in Nat, NEW i \in Nat
  PROVE  Finder!Bit(Power(2, m) - 1, i) = IF i < m THEN 1 ELSE 0
<1> DEFINE p == Power(2, i)
           q == Power(2, m)
<1>1. p \in Nat \ {0} /\ q \in Nat \ {0}
  BY TwoPowers
<1>2. Finder!Bit(q - 1, i) = ((q - 1) \div p) % 2
  BY Links DEF Finder!Bit
<1>3. CASE i < m
  <2> DEFINE h == Power(2, m - i - 1)
             r == Power(2, m - i)
  <2>1. i \in 0..m /\ m - i - 1 \in Nat /\ (m - i - 1) + 1 = m - i /\ m - i \in Nat
    BY <1>3
  <2>2. h \in Nat \ {0} /\ r = 2 * h
    BY <2>1, TwoPowers
  <2>3. q = p * r
    BY <2>1, PowersMultiply
  <2> HIDE DEF h, r, p, q
  <2>4. q - 1 = p * (r - 1) + (p - 1) /\ r - 1 \in Nat /\ p - 1 \in 0..p - 1
    BY <1>1, <2>2, <2>3
  <2>5. (q - 1) \div p = r - 1
    BY <1>1, <2>4, DivisionIsUnique
  <2>6. (r - 1) % 2 = 1
    BY <2>2
  <2> QED BY <1>2, <1>3, <2>5, <2>6 DEF q
<1>4. CASE ~(i < m)
  <2>1. m \in 0..i /\ i - m \in Nat
    BY <1>4
  <2>2. p = q * Power(2, i - m) /\ Power(2, i - m) \in Nat /\ Power(2, i - m) >= 1
    BY <2>1, PowersMultiply, TwoPowers
  <2> DEFINE r == Power(2, i - m)
  <2> HIDE DEF p, q, r
  <2>3. q <= p
    <3>1. q * 1 <= q * r
      BY <1>1, <2>2 DEF r
    <3> QED BY <1>1, <2>2, <3>1 DEF r
  <2>4. q - 1 = p * 0 + (q - 1) /\ q - 1 \in 0..p - 1 /\ 0 \in Nat
    BY <1>1, <2>3
  <2>5. (q - 1) \div p = 0
    BY <1>1, <2>4, DivisionIsUnique
  <2> QED BY <1>2, <1>4, <2>5 DEF q
<1> QED BY <1>3, <1>4

\* Numbers that agree in their m lower bits leave the same rest.
LEMMA LowerBits ==
  ASSUME NEW m \in Nat, NEW x \in Nat, NEW y \in Nat,
         \A i \in 0..m - 1 : Finder!Bit(x, i) = Finder!Bit(y, i)
  PROVE  x % Power(2, m) = y % Power(2, m)
<1> DEFINE f == [j \in 0..m |-> IF x % Power(2, j) = y % Power(2, j) THEN 0 ELSE 1]
           Zero == {0}
<1>1. f[0] \in Zero
  <2>1. Power(2, 0) = 1 /\ 0 \in 0..m
    BY PowerFacts
  <2>2. x % 1 = 0 /\ y % 1 = 0
    OBVIOUS
  <2> QED BY <2>1, <2>2
<1>2. ASSUME NEW j \in 1..m, f[j - 1] \in Zero PROVE f[j] \in Zero
  <2> DEFINE p == Power(2, j - 1)
  <2>1. j - 1 \in 0..m /\ j \in 0..m /\ j - 1 \in Nat /\ j - 1 \in 0..m - 1 /\ (j - 1) + 1 = j
    OBVIOUS
  <2>2. p \in Nat \ {0} /\ Power(2, j) = 2 * p
    BY <2>1, TwoPowers
  <2>3. (x \div p) % 2 = (y \div p) % 2
    BY <2>1, Links DEF Finder!Bit
  <2>4. x % p = y % p
    BY <1>2, <2>1
  <2> HIDE DEF p
  <2>5. x % (2 * p) = (x % p) + p * ((x \div p) % 2)
    BY <2>2, NextBit
  <2>6. y % (2 * p) = (y % p) + p * ((y \div p) % 2)
    BY <2>2, NextBit
  <2>7. x % (2 * p) = y % (2 * p)
    BY <2>3, <2>4, <2>5, <2>6
  <2> QED BY <2>1, <2>2, <2>7
<1> HIDE DEF f
<1>3. \A j \in 0..m : f[j] \in Zero
  <2>1. m \in Nat
    OBVIOUS
  <2> HIDE DEF Zero
  <2> QED BY <1>1, <1>2, <2>1, RecursionStays, Zenon
<1>4. m \in 0..m /\ f[m] = 0
  BY <1>3
<1> QED BY <1>4 DEF f

\* Adding a multiple of a power of two changes none of its lower bits.
LEMMA MultipleKeepsBits ==
  ASSUME NEW m \in Nat, NEW x \in Nat, NEW k \in Nat, NEW i \in 0..m - 1
  PROVE  Finder!Bit(x + Power(2, m) * k, i) = Finder!Bit(x, i)
<1> DEFINE p == Power(2, i)
           h == Power(2, m - i - 1)
           q == x \div p
           r == x % p
<1>1. i \in Nat /\ i \in 0..m /\ m - i - 1 \in Nat /\ (m - i - 1) + 1 = m - i /\ m - i \in Nat
  OBVIOUS
<1>2. p \in Nat \ {0} /\ h \in Nat /\ Power(2, m - i) = 2 * h
  BY <1>1, TwoPowers
<1>3. Power(2, m) = p * (2 * h)
  BY <1>1, <1>2, PowersMultiply
<1> HIDE DEF p, h
<1>4. q \in Nat /\ r \in 0..p - 1 /\ x = p * q + r
  BY <1>2, Division
<1> HIDE DEF q, r
<1> DEFINE e == q + 2 * (h * k)
<1>5. h * k \in Nat /\ e \in Nat
  BY <1>2, <1>4
<1>6. (p * (2 * h)) * k = p * (2 * (h * k)) /\ p * e = p * q + p * (2 * (h * k))
  BY <1>2, <1>4
<1>7. x + Power(2, m) * k = p * e + r
  <2>1. x + Power(2, m) * k = (p * q + r) + p * (2 * (h * k))
    BY <1>3, <1>4, <1>6
  <2> DEFINE u == p * q
             v == p * (2 * (h * k))
             w == p * e
  <2>2. u \in Int /\ v \in Int /\ w = u + v /\ r \in Int
    BY <1>2, <1>4, <1>5, <1>6
  <2>3. x + Power(2, m) * k = (u + r) + v
    BY <2>1
  <2> HIDE DEF e, u, v, w
  <2>4. (u + r) + v = w + r
    BY <2>2
  <2> QED BY <2>3, <2>4 DEF w
<1>8. (x + Power(2, m) * k) \div p = e
  <2> HIDE DEF e
  <2> QED BY <1>2, <1>4, <1>5, <1>7, DivisionIsUnique
<1>9. e % 2 = q % 2
  <2> DEFINE g == h * k
  <2>1. e = q + 2 * g /\ g \in Nat
    BY <1>5
  <2> HIDE DEF e, g
  <2> QED BY <1>4, <2>1
<1>10. \A v : Finder!Bit(v, i) = (v \div p) % 2
  BY Links DEF Finder!Bit, p
<1> HIDE DEF e
<1> QED BY <1>8, <1>9, <1>10 DEF q

\* Under a mask of lower bits the difference is a multiple.
LEMMA RestsDiffer ==
  ASSUME NEW p \in Nat \ {0}, NEW v \in Nat, NEW w \in Nat, v >= w
  PROVE  v % p = w % p <=> (v - w) % p = 0
<1> DEFINE a == v \div p
           b == w \div p
           r == v % p
           s == w % p
<1>1. /\ a \in Nat /\ r \in 0..p - 1 /\ v = p * a + r
      /\ b \in Nat /\ s \in 0..p - 1 /\ w = p * b + s
  BY Division
<1> HIDE DEF a, b, r, s
<1>2. ASSUME r = s PROVE (v - w) % p = 0
  <2> DEFINE d == a - b
  <2>1. v - w = p * d /\ d \in Int
    <3>1. p * a - p * b = p * (a - b)
      BY <1>1
    <3>2. p * a \in Int /\ p * b \in Int
      BY <1>1
    <3> QED BY <1>1, <1>2, <3>1, <3>2
  <2> HIDE DEF d
  <2>2. d >= 0
    <3>1. SUFFICES ASSUME d <= -1 PROVE FALSE
      BY <2>1
    <3>2. p * d <= p * (-1)
      BY <2>1, <3>1
    <3>3. p * (-1) = -p
      OBVIOUS
    <3> QED BY <1>1, <2>1, <3>2, <3>3
  <2>3. d \in Nat /\ 0 \in 0..p - 1 /\ v - w = p * d + 0
    BY <2>1, <2>2
  <2>4. (p * d + 0) % p = 0
    BY <2>3, DivisionIsUnique
  <2> QED BY <2>3, <2>4
<1>3. ASSUME (v - w) % p = 0 PROVE r = s
  <2> DEFINE x == v - w
             k == x \div p
  <2>1. x \in Nat /\ x % p = 0 /\ v = w + x
    BY <1>3
  <2> HIDE DEF x
  <2>2. k \in Nat /\ x = p * k + (x % p)
    BY <2>1, Division
  <2> HIDE DEF k
  <2>3. v = p * (b + k) + s /\ b + k \in Nat
    <3>1. p * (b + k) = p * b + p * k
      BY <1>1, <2>2
    <3>2. p * b \in Int /\ p * k \in Int
      BY <1>1, <2>2
    <3> QED BY <1>1, <2>1, <2>2, <3>1, <3>2
  <2>4. v % p = s
    BY <1>1, <2>3, DivisionIsUnique
  <2> QED BY <2>4 DEF r
<1> QED BY <1>2, <1>3 DEF r, s

LEMMA MaskMeansMultiple ==
  ASSUME ImageFacts, Finder!PowerOfTwo(input.align), NEW v \in Nat, NEW w \in Nat, v >= w
  PROVE  Finder!SameUnderMask(v, w) <=> (v - w) % input.align = 0
<1>0. AddrBits \in Nat /\ AddrMod \in Nat /\ Addr = 0..AddrMod - 1
  BY CliAssumption, ConstantFacts
<1>1. PICK m \in 0..AddrBits - 1 : input.align = Power(2, m)
  BY Links DEF Finder!PowerOfTwo
<1> DEFINE p == Power(2, m)
<1>2. m \in Nat /\ p \in Nat \ {0} /\ p \in Addr
  BY <1>0, <1>1, TwoPowers DEF ImageFacts
<1>3. Finder!AlignmentMask = p - 1
  <2> HIDE DEF p
  <2>1. p - 1 \in 0..AddrMod - 1
    BY <1>0, <1>2
  <2>2. (p - 1) % AddrMod = p - 1
    BY <1>0, <2>1
  <2>3. input.align = p
    BY <1>1 DEF p
  <2> QED BY <2>2, <2>3 DEF Finder!AlignmentMask, Finder!Sub
<1>4. Finder!SameUnderMask(v, w) <=>
        \A i \in 0..AddrBits - 1 :
          Finder!Bit(p - 1, i) = 1 => Finder!Bit(v, i) = Finder!Bit(w, i)
  BY <1>3 DEF Finder!SameUnderMask
<1>5. \A i \in 0..AddrBits - 1 : Finder!Bit(p - 1, i) = 1 <=> i \in 0..m - 1
  <2> SUFFICES ASSUME NEW i \in 0..AddrBits - 1
               PROVE  Finder!Bit(p - 1, i) = 1 <=> i \in 0..m - 1
    OBVIOUS
  <2>1. i \in Nat
    BY <1>0
  <2>2. Finder!Bit(p - 1, i) = IF i < m THEN 1 ELSE 0
    BY <1>2, <2>1, MaskBits
  <2>3. i < m <=> i \in 0..m - 1
    BY <1>2, <2>1
  <2> HIDE DEF p
  <2> QED BY <2>2, <2>3
<1>6. 0..m - 1 \subseteq 0..AddrBits - 1
  BY <1>0
<1>7. Finder!SameUnderMask(v, w) <=>
        \A i \in 0..m - 1 : Finder!Bit(v, i) = Finder!Bit(w, i)
  <2> HIDE DEF p
  <2> QED BY <1>4, <1>5, <1>6
<1>8. ASSUME Finder!SameUnderMask(v, w) PROVE (v - w) % p = 0
  <2>1. v % p = w % p
    BY <1>2, <1>7, <1>8, LowerBits
  <2> HIDE DEF p
  <2> QED BY <1>2, <2>1, RestsDiffer
<1>9. ASSUME (v - w) % p = 0 PROVE Finder!SameUnderMask(v, w)
  <2> DEFINE x == v - w
             k == x \div p
  <2>1. x \in Nat /\ v = w + x
    OBVIOUS
  <2>2. k \in Nat /\ x = p * k + (x % p)
    <3> HIDE DEF x, p
    <3> QED BY <1>2, <2>1, Division
  <2>3. v = w + p * k
    <3>1. x % p = 0
      BY <1>9
    <3> HIDE DEF x, p, k
    <3>2. p * k \in Int
      BY <1>2, <2>2
    <3> QED BY <2>1, <2>2, <3>1, <3>2
  <2> HIDE DEF k, x
  <2>4. \A i \in 0..m - 1 : Finder!Bit(w + p * k, i) = Finder!Bit(w, i)
    BY <1>2, <2>2, MultipleKeepsBits
  <2> QED BY <1>7, <2>3, <2>4
<1> QED BY <1>1, <1>8, <1>9

-----------------------------------------------------------------------------
\* The vote table.

\* The bases that can get votes, and the tables of such votes.
Bases ==
  {a \in 0..Finder!MaxValue(input.psize) :
     a + input.length <= Finder!MaxValue(input.psize) + 1}

Tables ==
  UNION {[votes : [D -> Nat \ {0}], root : {1}, nodes : Nat] : D \in SUBSET Bases}

\* A base leaves the last address of all unused, and fits in its pointer.
LEMMA BaseFacts ==
  ASSUME ImageFacts
  PROVE  /\ IsFiniteSet(Bases) /\ Bases \subseteq Addr
         /\ Finder!MaxValue(input.psize) \in Nat
         /\ Finder!MaxValue(input.psize) + 1 <= AddrMod
         /\ Finder!MaxValue(input.psize) + 1 =
              IF args.arch = "32" THEN WordMod ELSE AddrMod
         /\ \A a \in Bases : /\ a \in Nat /\ a # Finder!NoAddress
                             /\ args.arch = "32" => a < WordMod
<1> DEFINE M == Finder!MaxValue(input.psize)
<1>1. /\ input.length \in Nat /\ input.length >= input.psize
      /\ input.psize = IF args.arch = "32" THEN WordBytes ELSE 2 * WordBytes
  BY DEF ImageFacts
<1>2. M = (IF args.arch = "32" THEN WordMod ELSE AddrMod) - 1
  BY <1>1, LargestValue
<1>3. M \in Nat /\ M + 1 <= AddrMod /\ M + 1 = IF args.arch = "32" THEN WordMod ELSE AddrMod
  BY <1>2, ConstantFacts
<1>4. IsFiniteSet(Bases)
  <2> HIDE DEF M
  <2>1. 0 \in Int /\ M \in Int
    BY <1>3
  <2>2. IsFiniteSet(0..M)
    BY <2>1, FS_Interval
  <2>3. Bases \subseteq 0..M
    BY DEF Bases, M
  <2> QED BY <2>2, <2>3, FS_Subset
<1>5. ASSUME NEW a \in Bases
      PROVE  a \in Nat /\ a \in Addr /\ a # Finder!NoAddress /\ (args.arch = "32" => a < WordMod)
  <2>1. a \in 0..M /\ a + input.length <= M + 1
    BY DEF Bases
  <2>2. Finder!NoAddress = AddrMod - 1
    BY DEF Finder!NoAddress
  <2> HIDE DEF M
  <2>3. a \in Nat /\ a <= M
    BY <1>3, <2>1
  <2>4. a \in Addr
    BY <1>3, <2>3, ConstantFacts
  <2>5. args.arch = "32" => a < WordMod
    BY <1>3, <2>3
  <2>6. a # AddrMod - 1
    <3>1. CASE args.arch = "32"
      <4>1. WordMod < AddrMod /\ WordMod \in Nat /\ AddrMod \in Nat
        BY ConstantFacts
      <4>2. a + 1 <= WordMod
        BY <1>3, <2>3, <3>1, <4>1
      <4> QED BY <2>3, <4>1, <4>2
    <3>2. CASE args.arch # "32"
      <4>1. input.length >= 2 /\ AddrMod \in Nat
        <5>1. WordBytes \in Nat \ {0}
          BY ConstantFacts
        <5>2. 2 * WordBytes >= 2 /\ input.psize = 2 * WordBytes
          BY <1>1, <3>2, <5>1
        <5> QED BY <1>1, <5>1, <5>2, ConstantFacts
      <4>2. a + input.length <= AddrMod
        BY <1>3, <2>1, <3>2
      <4> QED BY <1>1, <2>3, <4>1, <4>2
    <3> QED BY <3>1, <3>2
  <2> QED BY <2>2, <2>3, <2>4, <2>5, <2>6
<1> QED BY <1>3, <1>4, <1>5

LEMMA TableFacts ==
  ASSUME ImageFacts, NEW t \in Tables
  PROVE  /\ Finder!Live(t) \subseteq Bases /\ IsFiniteSet(Finder!Live(t))
         /\ \A a \in Finder!Live(t) : t.votes[a] \in Nat \ {0}
         /\ t.root = 1 /\ t.nodes \in Nat
<1>1. PICK D \in SUBSET Bases : t \in [votes : [D -> Nat \ {0}], root : {1}, nodes : Nat]
  BY DEF Tables
<1>2. t.votes \in [D -> Nat \ {0}] /\ t.root = 1 /\ t.nodes \in Nat
  BY <1>1
<1>3. Finder!Live(t) = D
  BY <1>2 DEF Finder!Live
<1>4. IsFiniteSet(D)
  BY BaseFacts, FS_Subset
<1> QED BY <1>2, <1>3, <1>4

LEMMA MakeTable ==
  ASSUME NEW D \in SUBSET Bases, NEW votes \in [D -> Nat \ {0}], NEW nodes \in Nat
  PROVE  [votes |-> votes, root |-> 1, nodes |-> nodes] \in Tables
<1>1. [votes |-> votes, root |-> 1, nodes |-> nodes]
        \in [votes : [D -> Nat \ {0}], root : {1}, nodes : Nat]
  OBVIOUS
<1> QED BY <1>1 DEF Tables

LEMMA EmptyIsTable == Finder!Empty \in Tables /\ Finder!Live(Finder!Empty) = {}
<1>1. Finder!Empty = [votes |-> [a \in {} |-> 0], root |-> 1, nodes |-> 0]
  BY DEF Finder!Empty
<1>2. [a \in {} |-> 0] \in [{} -> Nat \ {0}] /\ {} \in SUBSET Bases /\ 0 \in Nat
  OBVIOUS
<1>3. Finder!Empty \in Tables
  BY <1>1, <1>2, MakeTable
<1> QED BY <1>1, <1>3 DEF Finder!Live

LEMMA RegisterAdds ==
  ASSUME ImageFacts, NEW t \in Tables, NEW a \in Bases
  PROVE  /\ Finder!Register(t, a) \in Tables
         /\ Finder!Live(Finder!Register(t, a)) = Finder!Live(t) \cup {a}
         /\ \A b \in Finder!Live(t) \cup {a} :
              Finder!Register(t, a).votes[b] =
                IF b \notin Finder!Live(t) THEN 1
                ELSE IF b = a THEN t.votes[b] + 1 ELSE t.votes[b]
         /\ Finder!Register(t, a).nodes =
              t.nodes + Cardinality(Path[a] \ Finder!LiveNodes(t))
<1> DEFINE L == Finder!Live(t)
           votes == [b \in L \cup {a} |-> IF b \notin L THEN 1
                                          ELSE IF b = a THEN t.votes[b] + 1 ELSE t.votes[b]]
           nodes == t.nodes + Finder!Cardinality(Path[a] \ Finder!LiveNodes(t))
<1>1. Finder!Register(t, a) = [votes |-> votes, root |-> t.root, nodes |-> nodes]
  BY DEF Finder!Register
<1>2. /\ L \subseteq Bases /\ \A b \in L : t.votes[b] \in Nat \ {0}
      /\ t.root = 1 /\ t.nodes \in Nat
  BY TableFacts
<1> HIDE DEF L
<1>3. votes \in [L \cup {a} -> Nat \ {0}] /\ L \cup {a} \in SUBSET Bases
  BY <1>2
<1>4. nodes \in Nat
  <2>1. a \in Addr
    BY BaseFacts
  <2>2. IsFiniteSet(Path[a])
    BY <2>1, CliAssumption
  <2>3. IsFiniteSet(Path[a] \ Finder!LiveNodes(t))
    BY <2>2, FS_Subset
  <2>4. Cardinality(Path[a] \ Finder!LiveNodes(t)) \in Nat
    BY <2>3, FS_CardinalityType
  <2>5. nodes = t.nodes + Cardinality(Path[a] \ Finder!LiveNodes(t))
    BY Links
  <2> QED BY <1>2, <2>4, <2>5
<1>5. /\ DOMAIN votes = L \cup {a}
      /\ \A b \in L \cup {a} : votes[b] = IF b \notin L THEN 1
                                       ELSE IF b = a THEN t.votes[b] + 1 ELSE t.votes[b]
  OBVIOUS
<1>6. nodes = t.nodes + Cardinality(Path[a] \ Finder!LiveNodes(t))
  BY Links
<1> HIDE DEF votes, nodes
<1>7. Finder!Register(t, a) = [votes |-> votes, root |-> 1, nodes |-> nodes]
  BY <1>1, <1>2
<1>8. Finder!Register(t, a) \in Tables
  BY <1>3, <1>4, <1>7, MakeTable
<1>9. Finder!Live(Finder!Register(t, a)) = DOMAIN votes
      /\ Finder!Register(t, a).votes = votes /\ Finder!Register(t, a).nodes = nodes
  BY <1>7 DEF Finder!Live
<1> QED BY <1>5, <1>6, <1>8, <1>9 DEF L

\* The values of a function with a finite domain.
LEMMA ImageIsFinite ==
  ASSUME NEW S, IsFiniteSet(S), NEW f, f = [x \in S |-> f[x]]
  PROVE  /\ IsFiniteSet({f[x] : x \in S})
         /\ (\A x, y \in S : f[x] = f[y] => x = y) =>
              Cardinality({f[x] : x \in S}) = Cardinality(S)
<1> DEFINE T == {f[x] : x \in S}
<1>1. f \in [S -> T]
  OBVIOUS
<1>2. \A y \in T : \E x \in S : f[x] = y
  OBVIOUS
<1> HIDE DEF T
<1>3. f \in Surjection(S, T)
  BY <1>1, <1>2 DEF Surjection
<1>4. IsFiniteSet(T) /\ (Cardinality(T) = Cardinality(S) <=> f \in Injection(S, T))
  BY <1>3, FS_Surjection
<1>5. (\A x, y \in S : f[x] = f[y] => x = y) => f \in Injection(S, T)
  BY <1>1 DEF Injection, IsInjective
<1> QED BY <1>4, <1>5 DEF T

\* The best vote, the leaves, and what pruning leaves of them.
LEMMA PeakFacts ==
  ASSUME ImageFacts, NEW t \in Tables
  PROVE  /\ Finder!LeafSet(t) # {} /\ IsFiniteSet(Finder!LeafSet(t))
         /\ Finder!PeakVote(t) \in Nat \ {0}
         /\ \A a \in Finder!LeafSet(t) :
              /\ a \in Addr /\ a \in Nat /\ a # Finder!NoAddress
              /\ args.arch = "32" => a < WordMod
              /\ Finder!LeafVotes(t, a) \in Nat \ {0}
              /\ Finder!LeafVotes(t, a) <= Finder!PeakVote(t)
         /\ \E a \in Finder!LeafSet(t) : Finder!LeafVotes(t, a) = Finder!PeakVote(t)
<1> DEFINE L == Finder!Live(t)
           f == [a \in L |-> t.votes[a]]
           V == {f[a] : a \in L}
           P == Finder!PeakVote(t)
<1>1. L \subseteq Bases /\ IsFiniteSet(L) /\ t.root = 1 /\ \A a \in L : f[a] \in Nat \ {0}
  BY TableFacts
<1>2. \A a \in Bases : /\ a \in Addr /\ a \in Nat /\ a # Finder!NoAddress
                       /\ args.arch = "32" => a < WordMod
  BY BaseFacts
<1>3. CASE L = {}
  <2>1. Finder!LeafSet(t) = {0} /\ P = 1 /\ Finder!LeafVotes(t, 0) = 1
    BY <1>1, <1>3 DEF Finder!LeafSet, Finder!PeakVote, Finder!LeafVotes
  <2>2. IsFiniteSet({0})
    BY FS_Singleton
  <2>3. 0 \in Addr /\ 0 < WordMod /\ 0 # Finder!NoAddress
    BY ConstantFacts DEF Finder!NoAddress
  <2> HIDE DEF P
  <2> QED BY <2>1, <2>2, <2>3 DEF P
<1>4. CASE L # {}
  <2>1. IsFiniteSet(V) /\ V # {} /\ V \subseteq Int
    <3>1. IsFiniteSet(V)
      <4>1. f = [a \in L |-> f[a]]
        OBVIOUS
      <4> HIDE DEF L, f
      <4> QED BY <1>1, <4>1, ImageIsFinite
    <3> HIDE DEF L, f
    <3> QED BY <1>1, <1>4, <3>1
  <2>2. \E v \in V : \A u \in V : u <= v
    <3> HIDE DEF V
    <3> QED BY <2>1, FiniteIsBounded
  <2>3. \E v \in {t.votes[a] : a \in L} : \A a \in L : t.votes[a] <= v
    <3>1. V = {t.votes[a] : a \in L} /\ \A a \in L : t.votes[a] \in V
      OBVIOUS
    <3> HIDE DEF V, f, L
    <3> QED BY <2>2, <3>1
  <2>4. P = CHOOSE v \in {t.votes[a] : a \in L} : \A a \in L : t.votes[a] <= v
    BY <1>4 DEF Finder!PeakVote
  <2>5. P \in {t.votes[a] : a \in L} /\ \A a \in L : t.votes[a] <= P
    <3> HIDE DEF P, L
    <3> QED BY <2>3, <2>4
  <2>6. Finder!LeafSet(t) = L /\ \A a \in L : Finder!LeafVotes(t, a) = t.votes[a]
    BY <1>4 DEF Finder!LeafSet, Finder!LeafVotes
  <2>7. \A a \in L : t.votes[a] \in Nat \ {0}
    BY <1>1
  <2> HIDE DEF L, P, f
  <2>8. P \in Nat \ {0} /\ \E a \in L : t.votes[a] = P
    BY <2>5, <2>7
  <2> QED BY <1>1, <1>2, <1>4, <2>5, <2>6, <2>7, <2>8 DEF P
<1> QED BY <1>3, <1>4

LEMMA PruneKeeps ==
  ASSUME ImageFacts, NEW t \in Tables
  PROVE  /\ Finder!Prune(t) \in Tables
         /\ Finder!Live(Finder!Prune(t)) \subseteq Finder!Live(t)
         /\ \A a \in Finder!Live(Finder!Prune(t)) : Finder!Prune(t).votes[a] = t.votes[a]
         /\ Finder!Prune(t).nodes = t.nodes
<1> DEFINE L == Finder!Live(t)
           th == Finder!PeakVote(t) \div 2
           K == Finder!Kept(t, th)
           votes == [a \in K |-> t.votes[a]]
<1>1. CASE L = {}
  <2>1. Finder!Prune(t) = t
    BY <1>1 DEF Finder!Prune, Finder!Filter
  <2> QED BY <2>1
<1>2. CASE L # {}
  <2>1. K = {a \in L : t.votes[a] >= th}
    BY DEF Finder!Kept
  <2>2. \E a \in L : t.votes[a] = Finder!PeakVote(t)
    BY <1>2, PeakFacts DEF Finder!LeafSet, Finder!LeafVotes
  <2>3. Finder!PeakVote(t) >= th
    BY PeakFacts
  <2>4. K # {}
    <3> HIDE DEF L, th, K
    <3> QED BY <2>1, <2>2, <2>3
  <2>5. Finder!Prune(t) = [votes |-> votes, root |-> t.root, nodes |-> t.nodes]
    <3> HIDE DEF th
    <3> QED BY <1>2, <2>4 DEF Finder!Prune, Finder!Filter, th
  <2>6. /\ L \subseteq Bases /\ t.root = 1 /\ t.nodes \in Nat
        /\ \A a \in L : t.votes[a] \in Nat \ {0}
    BY TableFacts
  <2> HIDE DEF L, th, K
  <2>7. K \in SUBSET Bases /\ votes \in [K -> Nat \ {0}]
    BY <2>1, <2>6
  <2>8. DOMAIN votes = K /\ \A a \in K : votes[a] = t.votes[a]
    OBVIOUS
  <2> HIDE DEF votes
  <2>9. Finder!Prune(t).votes = votes /\ Finder!Prune(t).nodes = t.nodes
        /\ Finder!Live(Finder!Prune(t)) = DOMAIN votes
    BY <2>5 DEF Finder!Live
  <2>10. Finder!Prune(t) \in Tables
    BY <2>5, <2>6, <2>7, MakeTable
  <2> QED BY <2>1, <2>8, <2>9, <2>10 DEF L
<1> QED BY <1>1, <1>2

\* What is free above a base, which wraps to 0 if that is everything.
LEMMA FreeSpaceIs ==
  ASSUME NEW M \in Nat, M + 1 <= AddrMod, NEW delta \in 0..M
  PROVE  Finder!Plus(Finder!Sub(M, delta), 1) =
           IF delta = 0 /\ M + 1 = AddrMod THEN 0 ELSE M - delta + 1
<1>1. AddrMod \in Nat \ {0}
  BY ConstantFacts
<1>2. (M - delta) % AddrMod = M - delta
  BY <1>1
<1>3. Finder!Plus(Finder!Sub(M, delta), 1) = ((M - delta) + 1) % AddrMod
  BY <1>2 DEF Finder!Plus, Finder!Sub
<1>4. CASE delta = 0 /\ M + 1 = AddrMod
  <2>1. (M - delta) + 1 = AddrMod /\ AddrMod % AddrMod = 0
    BY <1>1, <1>4
  <2> QED BY <1>3, <1>4, <2>1
<1>5. CASE ~(delta = 0 /\ M + 1 = AddrMod)
  <2>1. (M - delta) + 1 \in 0..AddrMod - 1
    BY <1>1, <1>5
  <2>2. ((M - delta) + 1) % AddrMod = (M - delta) + 1
    BY <1>1, <2>1
  <2> QED BY <1>3, <1>5, <2>2
<1> QED BY <1>4, <1>5

\* vote_candidates votes with the pairs that are votes, for the bases between.
LEMMA HitIsVote ==
  ASSUME ImageFacts, list \in Seq(Kind), NEW i \in DOMAIN list, NEW w \in DOMAIN input.words
  PROVE  /\ Finder!Hit(list[i], w) <=> Finder!IsVote(<<i, w>>)
         /\ Finder!Hit(list[i], w) => Finder!Base(<<i, w>>) \in Bases
         /\ Finder!Base(<<i, w>>) = input.words[w] - list[i].offset
<1> DEFINE poi == list[i]
           v == input.words[w]
           o == poi.offset
           M == Finder!MaxValue(input.psize)
           n == input.length
           base == v - o
           free == Finder!FreeSpace(base)
           AllAscii == Finder!IsAsciiPtr(v)
           Aligned == input.ptrAligned => v % input.psize = 0
           SameBits == Finder!SameUnderMask(v, o)
           Room == base + n <= M + 1 /\ (base > 0 \/ M + 1 < AddrMod)
<1>1. v \in 0..M /\ n \in Nat /\ n > 0
  <2>1. input.psize \in Nat \ {0} /\ n \in Nat /\ n >= input.psize
    BY DEF ImageFacts
  <2> QED BY <2>1 DEF ImageFacts
<1>2. o \in Nat
  <2>1. poi \in Kind
    OBVIOUS
  <2> QED BY <2>1 DEF Kind, Others, StringPoi
<1>3. M \in Nat /\ M + 1 <= AddrMod /\ AddrMod \in Nat
  BY BaseFacts, ConstantFacts
<1>4. Finder!Hit(poi, w) <=> /\ SameBits /\ ~AllAscii /\ Aligned
                             /\ Finder!Wanted(poi) /\ v >= o /\ free >= n
  BY DEF Finder!Hit, Finder!AlignedPtr
<1>5. free = Finder!Plus(Finder!Sub(M, base), 1)
  BY DEF Finder!FreeSpace
<1>6. v \in Nat
  <2> HIDE DEF M, v
  <2> QED BY <1>1, <1>3
<1>7. v >= o => base \in 0..M
               /\ free = IF base = 0 /\ M + 1 = AddrMod THEN 0 ELSE M - base + 1
  <2>1. v >= o => base \in 0..M
    <3> HIDE DEF M, v, o
    <3> QED BY <1>1, <1>2, <1>3
  <2> HIDE DEF base, M, v, o
  <2> QED BY <1>3, <1>5, <2>1, FreeSpaceIs
<1>8. v >= o => (free >= n <=> Room)
  <2> HIDE DEF base, free, M, n, v, o
  <2> QED BY <1>1, <1>3, <1>7
<1>9. v >= o <=> base >= 0
  <2> HIDE DEF v, o
  <2> QED BY <1>2, <1>6 DEF base
<1>10. v >= o /\ Finder!PowerOfTwo(input.align) => (SameBits <=> base % input.align = 0)
  <2> HIDE DEF v, o
  <2> QED BY <1>2, <1>6, MaskMeansMultiple DEF base
<1>11. Finder!Wanted(poi) <=>
         poi.type = IF \E k \in DOMAIN list : list[k].type = "String" THEN "String"
                    ELSE "Function"
  BY DEF Finder!Wanted, Finder!HasStr, Finder!PoisOf
<1>12. AllAscii <=> ~ \E j \in 0..input.psize - 1 :
                    (v \div Finder!Power(ByteBase, j)) % ByteBase \notin AsciiBytes
  BY DEF Finder!IsAsciiPtr, Finder!AllBytesIn
<1>13. Finder!Base(<<i, w>>) = base
  BY DEF Finder!Base
<1>14. Finder!IsVote(<<i, w>>) <=>
         /\ poi.type = IF \E k \in DOMAIN list : list[k].type = "String" THEN "String"
                       ELSE "Function"
         /\ base >= 0 /\ base + n <= M + 1
         /\ base > 0 \/ M + 1 < AddrMod
         /\ Aligned
         /\ IF Finder!PowerOfTwo(input.align) THEN base % input.align = 0 ELSE SameBits
         /\ \E j \in 0..input.psize - 1 :
              (v \div Finder!Power(ByteBase, j)) % ByteBase \notin AsciiBytes
  BY DEF Finder!IsVote, Finder!Base
<1> HIDE DEF AllAscii, Aligned, SameBits, base, free
<1>15. Finder!Hit(poi, w) <=> Finder!IsVote(<<i, w>>)
  <2>1. CASE v >= o
    <3> HIDE DEF v, o, poi, M, n
    <3> QED BY <1>4, <1>8, <1>9, <1>10, <1>11, <1>12, <1>14, <2>1 DEF Room
  <2>2. CASE ~(v >= o)
    <3> HIDE DEF v, o, poi, M, n
    <3> QED BY <1>4, <1>9, <1>14, <2>2
  <2> QED BY <2>1, <2>2
<1>16. Finder!Hit(poi, w) => base \in Bases
  <2>1. Finder!Hit(poi, w) => base \in 0..M /\ base + n <= M + 1
    BY <1>4, <1>7, <1>8 DEF Room
  <2> QED BY <2>1 DEF Bases
<1> QED BY <1>13, <1>15, <1>16 DEF base

-----------------------------------------------------------------------------
\* The votes of the table are those cast, until some are dropped.

\* The votes that the first n points of interest cast, and those for a base.
Votes(n) == {v \in (1..n) \X DOMAIN input.words : Finder!IsVote(v)}
For(V, base) == {v \in V : Finder!Base(v) = base}

Nodes(t) == Finder!LiveNodes(t)

\* The table holds no other votes than these; and all of them, while the node
\* counter counts no node that is gone.
Counted(t, V) ==
  /\ \A base \in Finder!Live(t) : t.votes[base] \in 1..Cardinality(For(V, base))
  /\ Cardinality(Nodes(t)) <= t.nodes
  /\ t.nodes = Cardinality(Nodes(t)) =>
       \A v \in V : /\ Finder!Base(v) \in Finder!Live(t)
                    /\ t.votes[Finder!Base(v)] = Cardinality(For(V, Finder!Base(v)))

LEMMA NodesAreFinite ==
  ASSUME ImageFacts, NEW t \in Tables
  PROVE  IsFiniteSet(Nodes(t)) /\ Cardinality(Nodes(t)) \in Nat
<1> DEFINE L == Finder!Live(t)
           paths == [a \in L |-> Path[a]]
           S == {paths[a] : a \in L}
<1>1. IsFiniteSet(L) /\ \A a \in L : a \in Addr
  BY TableFacts, BaseFacts
<1>2. Nodes(t) = UNION S
  BY DEF Nodes, Finder!LiveNodes
<1>3. \A T \in S : IsFiniteSet(T)
  BY <1>1, CliAssumption
<1>4. IsFiniteSet(S)
  <2>1. paths = [a \in L |-> paths[a]]
    OBVIOUS
  <2> HIDE DEF paths, L
  <2> QED BY <1>1, <2>1, ImageIsFinite
<1> HIDE DEF S
<1> QED BY <1>2, <1>3, <1>4, FS_UNION, FS_CardinalityType

\* One more vote.
LEMMA RegisterCounts ==
  ASSUME ImageFacts, NEW t \in Tables, NEW V, IsFiniteSet(V), Counted(t, V),
         NEW x, x \notin V, Finder!Base(x) \in Bases
  PROVE  Counted(Finder!Register(t, Finder!Base(x)), V \cup {x})
<1> DEFINE a == Finder!Base(x)
           u == Finder!Register(t, a)
           L == Finder!Live(t)
           U == V \cup {x}
           fresh == Path[a] \ Nodes(t)
           C(b) == Cardinality(For(V, b))
<1>1. /\ u \in Tables /\ Finder!Live(u) = L \cup {a}
      /\ \A b \in L \cup {a} : u.votes[b] = IF b \notin L THEN 1
                                            ELSE IF b = a THEN t.votes[b] + 1 ELSE t.votes[b]
      /\ u.nodes = t.nodes + Cardinality(fresh)
  BY RegisterAdds DEF Nodes
<1>2. /\ \A b \in L : t.votes[b] \in 1..C(b)
      /\ Cardinality(Nodes(t)) <= t.nodes
      /\ t.nodes = Cardinality(Nodes(t)) =>
           \A v \in V : Finder!Base(v) \in L /\ t.votes[Finder!Base(v)] = C(Finder!Base(v))
  BY DEF Counted
<1>3. \A b : IsFiniteSet(For(V, b)) /\ C(b) \in Nat
  <2>1. \A b : For(V, b) \in SUBSET V
    BY DEF For
  <2> QED BY <2>1, FS_Subset, FS_CardinalityType
<1>4. \A b : Cardinality(For(U, b)) = IF b = a THEN C(b) + 1 ELSE C(b)
  <2> TAKE b
  <2>1. CASE b = a
    <3>1. For(U, b) = For(V, b) \cup {x} /\ x \notin For(V, b)
      BY <2>1 DEF For
    <3> QED BY <1>3, <2>1, <3>1, FS_AddElement
  <2>2. CASE b # a
    <3>1. For(U, b) = For(V, b)
      BY <2>2 DEF For
    <3> QED BY <2>2, <3>1
  <2> QED BY <2>1, <2>2
<1>5. t.nodes \in Nat /\ Cardinality(Nodes(t)) \in Nat /\ IsFiniteSet(Nodes(t))
  BY TableFacts, NodesAreFinite
<1>6. IsFiniteSet(fresh) /\ Cardinality(fresh) \in Nat
  <2>1. a \in Addr
    BY BaseFacts
  <2>2. IsFiniteSet(Path[a])
    BY <2>1, CliAssumption
  <2> QED BY <2>2, FS_Subset, FS_CardinalityType
<1>7. Cardinality(Nodes(u)) = Cardinality(Nodes(t)) + Cardinality(fresh)
  <2>1. Nodes(u) = Nodes(t) \cup fresh
    BY <1>1 DEF Nodes, Finder!LiveNodes
  <2>2. Nodes(t) \cap fresh = {}
    OBVIOUS
  <2> HIDE DEF fresh, u
  <2>3. Cardinality(Nodes(t) \cup fresh) =
          Cardinality(Nodes(t)) + Cardinality(fresh) - Cardinality(Nodes(t) \cap fresh)
    BY <1>5, <1>6, FS_Union
  <2> QED BY <1>5, <1>6, <2>1, <2>2, <2>3, FS_EmptySet
<1> HIDE DEF u, L, a, U, fresh, C
<1>8. \A b \in L \cup {a} : u.votes[b] \in 1..Cardinality(For(U, b))
  <2> TAKE b \in L \cup {a}
  <2> DEFINE c == C(b)
             d == t.votes[b]
             e == u.votes[b]
             g == Cardinality(For(U, b))
  <2>1. c \in Nat /\ g = (IF b = a THEN c + 1 ELSE c) /\ (b \in L => d \in 1..c)
        /\ e = IF b \notin L THEN 1 ELSE IF b = a THEN d + 1 ELSE d
    BY <1>1, <1>2, <1>3, <1>4
  <2> HIDE DEF c, d, e, g
  <2>2. e \in 1..g
    BY <2>1
  <2> QED BY <2>2 DEF e, g
<1>9. Cardinality(Nodes(u)) <= u.nodes
      /\ (u.nodes = Cardinality(Nodes(u)) => t.nodes = Cardinality(Nodes(t)))
  BY <1>1, <1>2, <1>5, <1>6, <1>7
<1>10. ASSUME u.nodes = Cardinality(Nodes(u)), NEW v \in U
       PROVE  /\ Finder!Base(v) \in L \cup {a}
              /\ u.votes[Finder!Base(v)] = Cardinality(For(U, Finder!Base(v)))
  <2>1. \A y \in V : Finder!Base(y) \in L /\ t.votes[Finder!Base(y)] = C(Finder!Base(y))
    BY <1>2, <1>9, <1>10
  <2>2. CASE Finder!Base(v) = a
    <3>1. CASE a \in L
      <4>1. C(a) \in Nat /\ C(a) # 0
        BY <1>2, <1>3, <3>1
      <4>2. \E y \in V : Finder!Base(y) = a
        <5>1. For(V, a) # {}
          BY <4>1, FS_EmptySet DEF C
        <5> QED BY <5>1 DEF For
      <4>3. t.votes[a] = C(a)
        BY <2>1, <4>2
      <4>4. u.votes[a] = t.votes[a] + 1 /\ Cardinality(For(U, a)) = C(a) + 1
        BY <1>1, <1>4, <3>1
      <4> QED BY <2>2, <4>3, <4>4
    <3>2. CASE a \notin L
      <4>1. For(V, a) = {}
        BY <2>1, <3>2 DEF For
      <4>2. C(a) = 0
        BY <4>1, FS_EmptySet DEF C
      <4>3. u.votes[a] = 1 /\ Cardinality(For(U, a)) = C(a) + 1
        BY <1>1, <1>4, <3>2
      <4> QED BY <2>2, <4>2, <4>3
    <3> QED BY <3>1, <3>2
  <2>3. CASE Finder!Base(v) # a
    <3>1. v \in V
      BY <2>3 DEF U, a
    <3>2. Finder!Base(v) \in L /\ t.votes[Finder!Base(v)] = C(Finder!Base(v))
      BY <2>1, <3>1
    <3>3. u.votes[Finder!Base(v)] = t.votes[Finder!Base(v)]
          /\ Cardinality(For(U, Finder!Base(v))) = C(Finder!Base(v))
      BY <1>1, <1>4, <2>3, <3>2
    <3> QED BY <3>2, <3>3
  <2> QED BY <2>2, <2>3
<1>11. Counted(u, U)
  BY <1>1, <1>8, <1>9, <1>10 DEF Counted
<1> QED BY <1>11 DEF u, U, a

\* Pruning lowers no vote, and what it drops frees a leaf.
LEMMA PruneCounts ==
  ASSUME ImageFacts, NEW t \in Tables, NEW V, Counted(t, V)
  PROVE  Counted(Finder!Prune(t), V)
<1> DEFINE u == Finder!Prune(t)
           L == Finder!Live(t)
           K == Finder!Live(u)
<1>1. u \in Tables /\ K \subseteq L /\ u.nodes = t.nodes /\ \A a \in K : u.votes[a] = t.votes[a]
  BY PruneKeeps
<1>2. IsFiniteSet(Nodes(t)) /\ Cardinality(Nodes(t)) \in Nat /\ t.nodes \in Nat
  BY NodesAreFinite, TableFacts
<1>3. Nodes(u) \in SUBSET Nodes(t)
  BY <1>1 DEF Nodes, Finder!LiveNodes
<1>4. IsFiniteSet(Nodes(u)) /\ Cardinality(Nodes(u)) \in Nat
  BY <1>1, NodesAreFinite
<1>5. Cardinality(Nodes(u)) <= Cardinality(Nodes(t))
      /\ (Cardinality(Nodes(t)) = Cardinality(Nodes(u)) => Nodes(t) = Nodes(u))
  BY <1>2, <1>3, FS_Subset
<1>6. Cardinality(Nodes(t)) <= t.nodes
  BY DEF Counted
<1>7. Nodes(t) = Nodes(u) => K = L
  <2> SUFFICES ASSUME Nodes(t) = Nodes(u), NEW a \in L, a \notin K PROVE FALSE
    BY <1>1
  <2>1. L \subseteq Addr
    BY TableFacts, BaseFacts
  <2>2. PICK leaf \in Path[a] : \A b \in Addr \ {a} : leaf \notin Path[b]
    BY <2>1, CliAssumption
  <2>3. leaf \in Nodes(t)
    BY <2>2 DEF Nodes, Finder!LiveNodes
  <2>4. leaf \notin Nodes(u)
    BY <1>1, <2>1, <2>2 DEF Nodes, Finder!LiveNodes
  <2> QED BY <2>3, <2>4
<1> HIDE DEF u, L, K
<1>8. u.nodes = Cardinality(Nodes(u)) => K = L /\ t.nodes = Cardinality(Nodes(t))
  BY <1>1, <1>2, <1>4, <1>5, <1>6, <1>7
<1>9. Cardinality(Nodes(u)) <= u.nodes
  BY <1>1, <1>2, <1>4, <1>5, <1>6
<1>10. \A b \in K : u.votes[b] \in 1..Cardinality(For(V, b))
  BY <1>1 DEF Counted, L
<1>11. u.nodes = Cardinality(Nodes(u)) =>
         \A v \in V : /\ Finder!Base(v) \in K
                      /\ u.votes[Finder!Base(v)] = Cardinality(For(V, Finder!Base(v)))
  BY <1>1, <1>8 DEF Counted, L
<1>12. Counted(u, V)
  BY <1>9, <1>10, <1>11 DEF Counted, K
<1> QED BY <1>12 DEF u

\* The votes for a point of interest are added to the table, one by one.
LEMMA VotesAreCast ==
  ASSUME ImageFacts, list \in Seq(Kind), NEW t \in Tables, NEW n \in Nat, n + 1 \in DOMAIN list,
         Counted(t, Votes(n))
  PROVE  /\ Finder!CastVotes(t, list[n + 1]) \in Tables
         /\ Counted(Finder!CastVotes(t, list[n + 1]), Votes(n + 1))
<1> DEFINE poi == list[n + 1]
           W == {w \in DOMAIN input.words : Finder!Hit(poi, w)}
           at(w) == input.words[w] - poi.offset
           pick == [s \in SUBSET W |-> CHOOSE w \in s : TRUE]
           step == [w \in W |-> [u \in Tables |-> Finder!Register(u, at(w))]]
           Body(f) == [s \in SUBSET W |->
                         IF s = {} THEN t
                         ELSE LET w == CHOOSE w \in s : TRUE
                              IN  Finder!Register(f[s \ {w}], at(w))]
           iter == CHOOSE f : f = Body(f)
           With(s) == Votes(n) \cup {<<n + 1, w>> : w \in s}
<1>0. IsFiniteSet(DOMAIN input.words)
  <2> DEFINE p == input.psize
             n0 == input.length
  <2>1. p \in Nat \ {0} /\ n0 \in Nat /\ n0 >= p /\ DOMAIN input.words = 0..(n0 - 1) \div p
    BY DEF ImageFacts
  <2> HIDE DEF p, n0
  <2>2. n0 - 1 \in Nat
    BY <2>1
  <2>3. (n0 - 1) \div p \in Int /\ 0 \in Int
    BY <2>1, <2>2, Division
  <2> QED BY <2>1, <2>3, FS_Interval
<1>1. IsFiniteSet(W)
  <2>1. W \subseteq DOMAIN input.words
    OBVIOUS
  <2> HIDE DEF W
  <2> QED BY <1>0, <2>1, FS_Subset
<1>2. \A w \in W : at(w) \in Bases /\ at(w) = Finder!Base(<<n + 1, w>>)
  BY HitIsVote
<1>3. Finder!CastVotes(t, poi) = iter[W]
  BY DEF Finder!CastVotes, Finder!FoldSet, Finder!MapThenFoldSet
<1>4. \A w \in DOMAIN input.words : w \in W <=> Finder!IsVote(<<n + 1, w>>)
  BY HitIsVote
<1>5. W \subseteq DOMAIN input.words
  OBVIOUS
<1> HIDE DEF W, at, poi
<1>6. Picks(pick, W)
  BY DEF Picks
<1>7. \A w \in W, u \in Tables : Finder!Register(u, at(w)) \in Tables
  BY <1>2, RegisterAdds
<1>8. step \in [W -> [Tables -> Tables]]
      /\ \A w \in W, u \in Tables : step[w][u] = Finder!Register(u, at(w))
  BY <1>7
<1>9. \A s \in SUBSET W : pick[s] = CHOOSE w \in s : TRUE
  OBVIOUS
<1> HIDE DEF pick, step
<1>10. PICK f : Folds(f, W, Tables, t, step, pick)
  BY <1>1, <1>6, <1>8, FoldExists
<1>11. f = Body(f)
  <2>1. ASSUME NEW s \in SUBSET W, s # {}
        PROVE  f[s] = Finder!Register(f[s \ {pick[s]}], at(pick[s]))
    <3>1. pick[s] \in W /\ f[s \ {pick[s]}] \in Tables
      BY <1>6, <1>10, <2>1 DEF Picks, Folds
    <3>2. f[s] = step[pick[s]][f[s \ {pick[s]}]]
      BY <1>10, <2>1 DEF Folds
    <3> QED BY <1>8, <3>1, <3>2
  <2>2. f[{}] = t
    BY <1>10 DEF Folds
  <2>3. f = [s \in SUBSET W |-> f[s]]
    BY <1>10 DEF Folds
  <2> QED BY <1>9, <2>1, <2>2, <2>3
<1>12. iter = Body(iter)
  <2> HIDE DEF Body
  <2> QED BY <1>11
<1>13. /\ iter[{}] = t
       /\ \A s \in SUBSET W : s # {} =>
            iter[s] = Finder!Register(iter[s \ {pick[s]}], at(pick[s]))
  <2>1. {} \in SUBSET W
    OBVIOUS
  <2> HIDE DEF iter
  <2> QED BY <1>9, <1>12, <2>1
<1> HIDE DEF iter
<1>14. IsFiniteSet(Votes(n))
  <2>1. IsFiniteSet(1..n)
    BY FS_Interval
  <2>2. IsFiniteSet((1..n) \X DOMAIN input.words)
    BY <1>0, <2>1, FS_Product
  <2> QED BY <2>2, FS_Subset DEF Votes
<1> DEFINE R1 == [s \in SUBSET W |->
                    {u \in Tables : IsFiniteSet(With(s)) /\ Counted(u, With(s))}]
<1>15. iter[{}] \in R1[{}]
  <2>1. With({}) = Votes(n) /\ {} \in SUBSET W
    OBVIOUS
  <2> HIDE DEF With
  <2> QED BY <1>13, <1>14, <2>1
<1>16. ASSUME NEW s \in SUBSET W, s # {}, iter[s \ {pick[s]}] \in R1[s \ {pick[s]}]
       PROVE  iter[s] \in R1[s]
  <2> DEFINE p == pick[s]
             u == iter[s \ {p}]
             x == <<n + 1, p>>
             V == With(s \ {p})
  <2>1. p \in s /\ p \in W /\ at(p) \in Bases /\ Finder!Base(x) = at(p)
    BY <1>2, <1>6, <1>16 DEF Picks
  <2>2. u \in Tables /\ IsFiniteSet(V) /\ Counted(u, V)
    BY <1>16
  <2>3. iter[s] = Finder!Register(u, at(p))
    BY <1>13, <1>16
  <2>4. x \notin V
    <3>1. x \notin Votes(n)
      BY DEF Votes
    <3>2. x \notin {<<n + 1, w>> : w \in s \ {p}}
      OBVIOUS
    <3> QED BY <3>1, <3>2
  <2>5. With(s) = V \cup {x}
    BY <2>1
  <2> HIDE DEF p, u, x, V, With
  <2>6. iter[s] \in Tables
    BY <2>1, <2>2, <2>3, RegisterAdds
  <2>7. Counted(Finder!Register(u, Finder!Base(x)), V \cup {x})
    BY <2>1, <2>2, <2>4, RegisterCounts
  <2>8. IsFiniteSet(V \cup {x})
    BY <2>2, FS_AddElement
  <2> QED BY <2>1, <2>3, <2>5, <2>6, <2>7, <2>8
<1> HIDE DEF R1
<1>17. \A s \in SUBSET W : iter[s] \in R1[s]
  BY <1>1, <1>6, <1>15, <1>16, FoldStays, Zenon
<1>18. iter[W] \in Tables /\ Counted(iter[W], With(W))
  <2> HIDE DEF With
  <2> QED BY <1>17 DEF R1
<1>19. With(W) = Votes(n + 1)
  <2>1. \A v : v \in (1..n + 1) \X DOMAIN input.words <=>
                 \/ v \in (1..n) \X DOMAIN input.words
                 \/ \E w \in DOMAIN input.words : v = <<n + 1, w>>
    <3>1. 1..n + 1 = (1..n) \cup {n + 1}
      OBVIOUS
    <3> QED BY <3>1
  <2> QED BY <1>4, <1>5, <2>1 DEF Votes
<1> QED BY <1>3, <1>18, <1>19 DEF poi

-----------------------------------------------------------------------------
\* The ranking by votes.

LEMMA FinderMax ==
  ASSUME NEW S, S \subseteq Int, IsFiniteSet(S), S # {}
  PROVE  Finder!Max(S) \in S /\ \A x \in S : x <= Finder!Max(S)
<1>1. \E x \in S : \A y \in S : x >= y
  <2>1. PICK x \in S : \A y \in S : y <= x
    BY FiniteIsBounded
  <2> QED BY <2>1
<1> DEFINE m == Finder!Max(S)
<1>2. m = CHOOSE x \in S : \A y \in S : x >= y
  BY DEF Finder!Max
<1> HIDE DEF m
<1>3. m \in S /\ \A y \in S : m >= y
  BY <1>1, <1>2
<1> QED BY <1>3 DEF m

LEMMA FinderMin ==
  ASSUME NEW S, S \subseteq Int, IsFiniteSet(S), S # {}
  PROVE  Finder!Min(S) \in S /\ \A x \in S : Finder!Min(S) <= x
<1>1. \E x \in S : \A y \in S : x <= y
  BY FiniteIsBounded
<1> DEFINE m == Finder!Min(S)
<1>2. m = CHOOSE x \in S : \A y \in S : x <= y
  BY DEF Finder!Min
<1> HIDE DEF m
<1> QED BY <1>1, <1>2 DEF m

Leaves == Finder!LeafSet(table)
VotesOf(a) == Finder!LeafVotes(table, a)
Peak == Finder!PeakVote(table)
Best == Finder!BestVoteAddress

\* The most voted address, the lowest of them.
LEMMA BestIsFirst ==
  ASSUME ImageFacts, table \in Tables
  PROVE  /\ Best \in Leaves /\ VotesOf(Best) = Peak
         /\ \A a \in Leaves : VotesOf(a) = Peak => Best <= a
<1> DEFINE S == {a \in Finder!LeafSet(table) :
                   Finder!LeafVotes(table, a) = Finder!PeakVote(table)}
<1>1. S # {} /\ S \subseteq Int /\ S \subseteq Leaves /\ IsFiniteSet(Leaves)
  BY PeakFacts DEF Leaves
<1>2. Best = Finder!Min(S)
  BY DEF Best, Finder!BestVoteAddress
<1>3. \A a : a \in S <=> a \in Leaves /\ VotesOf(a) = Peak
  BY DEF Leaves, VotesOf, Peak
<1> HIDE DEF S
<1>4. IsFiniteSet(S)
  BY <1>1, FS_Subset
<1> QED BY <1>1, <1>2, <1>3, <1>4, FinderMin

\* Who contends: those that have the best vote at least.
LEMMA ContendersAreLeaves ==
  ASSUME ImageFacts, table \in Tables
  PROVE  /\ Finder!Contenders \subseteq Leaves /\ IsFiniteSet(Finder!Contenders)
         /\ Best \in Finder!Contenders
<1>1. Finder!Contenders \subseteq Leaves
  BY DEF Finder!Contenders, Leaves
<1>2. IsFiniteSet(Finder!Contenders)
  BY <1>1, PeakFacts, FS_Subset DEF Leaves
<1>3. Best \in Leaves /\ VotesOf(Best) = Peak /\ Peak \in Nat \ {0}
  BY BestIsFirst, PeakFacts DEF Peak
<1>4. Peak = 1 \/ VotesOf(Best) > 1
  BY <1>3
<1>5. Best \in Finder!Contenders
  <2>1. CASE Peak = 1
    BY <1>3, <2>1 DEF Finder!Contenders, Leaves, Peak
  <2>2. CASE Peak # 1
    BY <1>3, <1>4, <2>2 DEF Finder!Contenders, Leaves, Peak, VotesOf
  <2> QED BY <2>1, <2>2
<1> QED BY <1>1, <1>2, <1>5

Row(a) == [address |-> a, votes |-> VotesOf(a)]

Outvotes(c, d) == c.votes > d.votes \/ (c.votes = d.votes /\ c.address < d.address)

\* The candidates are the contenders, by votes and then by address.
LEMMA CandidatesSorted ==
  ASSUME ImageFacts, table \in Tables
  PROVE  LET cands == Finder!Candidates
             n == Cardinality(Finder!Contenders)
         IN  /\ n \in Nat /\ cands \in [1..n -> {Row(a) : a \in Finder!Contenders}]
             /\ \A i, j \in 1..n : i < j => Outvotes(cands[i], cands[j])
             /\ \A a \in Finder!Contenders : \E i \in 1..n : cands[i] = Row(a)
<1> DEFINE A == Finder!Contenders
           n == Cardinality(A)
           f == [a \in A |-> Row(a)]
           C == {f[a] : a \in A}
           C0 == {[address |-> a, votes |-> Finder!LeafVotes(table, a)] : a \in Finder!Contenders}
           T == {p \in C \X C : Outvotes(p[1], p[2])}
           cands == Finder!Candidates
<1>1. A \subseteq Leaves /\ IsFiniteSet(A)
  BY ContendersAreLeaves
<1>2. \A a \in A : a \in Int /\ VotesOf(a) \in Int
  BY <1>1, PeakFacts DEF Leaves, VotesOf
<1>3. C0 = C /\ C = {Row(a) : a \in A}
  BY DEF Row, VotesOf
<1>4. IsFiniteSet(C) /\ Cardinality(C) = n /\ n \in Nat
  <2>1. \A a, b \in A : f[a] = f[b] => a = b
    BY DEF Row
  <2>2. f = [a \in A |-> f[a]]
    OBVIOUS
  <2> HIDE DEF A, f
  <2>3. IsFiniteSet(C) /\ Cardinality(C) = n
    BY <1>1, <2>1, <2>2, ImageIsFinite
  <2> QED BY <1>1, <2>3, FS_CardinalityType
<1>5. \A c \in C : c.address \in Int /\ c.votes \in Int /\ c = Row(c.address)
  BY <1>2, <1>3 DEF Row
<1>6. cands = [k \in 1..Finder!Cardinality(C0) |->
                 CHOOSE x \in C0 :
                   Finder!Cardinality({y \in C0 : Outvotes(y, x)}) = k - 1]
  BY DEF Finder!Candidates, Finder!Sorted, Outvotes
<1> HIDE DEF A, f, C0, C, cands
<1>7. \A c, d \in C : c # d => c.address # d.address
  BY <1>5
<1>8. StrictOrder(T, C)
  <2>1. \A x, y \in C : <<x, y>> \in T <=> Outvotes(x, y)
    OBVIOUS
  <2> HIDE DEF T
  <2>2. ASSUME NEW x \in C PROVE ~Outvotes(x, x)
    BY <1>5 DEF Outvotes
  <2>3. ASSUME NEW x \in C, NEW y \in C, x # y PROVE Outvotes(x, y) \/ Outvotes(y, x)
    BY <1>5, <1>7, <2>3 DEF Outvotes
  <2>4. ASSUME NEW x \in C, NEW y \in C, NEW z \in C, Outvotes(x, y), Outvotes(y, z)
        PROVE  Outvotes(x, z)
    BY <1>5, <2>4 DEF Outvotes
  <2> QED BY <2>1, <2>2, <2>3, <2>4 DEF StrictOrder
<1>9. ASSUME NEW k \in 1..n
      PROVE  cands[k] \in C /\ Cardinality(Before(T, C, cands[k])) = k - 1
  <2>1. \A x \in C : {y \in C : Outvotes(y, x)} = Before(T, C, x)
    BY DEF Before
  <2>2. k - 1 \in 0..Cardinality(C) - 1
    BY <1>4
  <2> HIDE DEF T
  <2>3. \E x \in C : Cardinality(Before(T, C, x)) = k - 1
    BY <1>4, <1>8, <2>2, RankIsTaken
  <2>4. \E x \in C0 : Finder!Cardinality({y \in C0 : Outvotes(y, x)}) = k - 1
    BY <1>3, <2>1, <2>3, Links
  <2>5. cands[k] = CHOOSE x \in C0 :
                     Finder!Cardinality({y \in C0 : Outvotes(y, x)}) = k - 1
    BY <1>3, <1>4, <1>6, Links
  <2>6. cands[k] \in C0 /\ Finder!Cardinality({y \in C0 : Outvotes(y, cands[k])}) = k - 1
    BY <2>4, <2>5
  <2> QED BY <1>3, <2>1, <2>6, Links
<1>10. DOMAIN cands = 1..n /\ cands = [k \in 1..n |-> cands[k]]
  <2> DEFINE pick(k) == CHOOSE x \in C0 :
                          Finder!Cardinality({y \in C0 : Outvotes(y, x)}) = k - 1
  <2>1. cands = [k \in 1..Finder!Cardinality(C0) |-> pick(k)]
    BY <1>6
  <2>2. Finder!Cardinality(C0) = n
    BY <1>3, <1>4, Links
  <2> HIDE DEF pick
  <2> QED BY <2>1, <2>2
<1> HIDE DEF T
<1>11. SortedBy(cands, T, C)
  <2>1. /\ DOMAIN cands = 1..Cardinality(C)
        /\ \A k \in 1..Cardinality(C) :
             cands[k] \in C /\ Cardinality(Before(T, C, cands[k])) = k - 1
    BY <1>4, <1>9, <1>10
  <2> QED BY <1>4, <1>8, <2>1, RanksSort
<1>12. cands \in [1..n -> {Row(a) : a \in A}]
  BY <1>3, <1>9, <1>10
<1>13. \A i, j \in 1..n : i < j => Outvotes(cands[i], cands[j])
  BY <1>4, <1>11 DEF SortedBy, T
<1>14. \A a \in A : \E i \in 1..n : cands[i] = Row(a)
  BY <1>3, <1>4, <1>11 DEF SortedBy
<1> QED BY <1>4, <1>12, <1>13, <1>14 DEF A, cands

-----------------------------------------------------------------------------
\* The cut.

Cands == Finder!Candidates

\* What the rest of the search uses of the order of the candidates.
LEMMA CandidateFacts ==
  ASSUME ImageFacts, table \in Tables
  PROVE  /\ Cands \in Seq(Finder!Candidate) /\ Len(Cands) \in Nat /\ Len(Cands) >= 1
         /\ Cands[1] = Row(Best)
         /\ \A i \in 1..Len(Cands) :
              Cands[i].address \in Leaves /\ Cands[i].votes \in Nat /\ Cands[i].votes <= Peak
         /\ \A i, j \in 1..Len(Cands) :
              i < j => /\ Cands[i].votes >= Cands[j].votes
                       /\ Cands[i].address # Cands[j].address
<1> DEFINE A == Finder!Contenders
           n == Cardinality(A)
<1>1. /\ n \in Nat /\ Cands \in [1..n -> {Row(a) : a \in A}]
      /\ \A i, j \in 1..n : i < j => Outvotes(Cands[i], Cands[j])
      /\ \A a \in A : \E i \in 1..n : Cands[i] = Row(a)
  BY CandidatesSorted DEF Cands
<1>2. A \subseteq Leaves /\ Best \in A
  BY ContendersAreLeaves
<1>3. Best \in Leaves /\ VotesOf(Best) = Peak /\ Peak \in Nat
      /\ \A a \in Leaves : VotesOf(a) = Peak => Best <= a
  BY BestIsFirst, PeakFacts DEF Peak
<1>4. \A a \in Leaves : /\ a \in Addr /\ a \in Nat
                        /\ VotesOf(a) \in Nat /\ VotesOf(a) <= Peak
  BY PeakFacts DEF Leaves, VotesOf, Peak
<1> HIDE DEF A, n
<1>5. ASSUME NEW i \in 1..n
      PROVE  /\ Cands[i].address \in Leaves /\ Cands[i].votes = VotesOf(Cands[i].address)
             /\ Cands[i] \in Finder!Candidate /\ Cands[i] = Row(Cands[i].address)
  <2>1. PICK a \in A : Cands[i] = Row(a)
    BY <1>1
  <2>2. a \in Leaves /\ a \in Addr /\ VotesOf(a) \in Nat
    BY <1>2, <1>4
  <2> QED BY <2>1, <2>2 DEF Row, Finder!Candidate
<1>6. Len(Cands) = n /\ Cands \in Seq(Finder!Candidate)
  <2>1. Cands \in [1..n -> Finder!Candidate]
    BY <1>1, <1>5
  <2> QED BY <1>1, <2>1
<1>7. PICK b \in 1..n : Cands[b] = Row(Best)
  BY <1>1, <1>2
<1>8. b = 1
  <2> SUFFICES ASSUME b # 1 PROVE FALSE
    OBVIOUS
  <2>1. 1 \in 1..n /\ 1 < b
    BY <1>1
  <2>2. Outvotes(Cands[1], Row(Best))
    BY <1>1, <1>7, <2>1
  <2> DEFINE a == Cands[1].address
  <2>3. a \in Leaves /\ Cands[1].votes = VotesOf(a) /\ a \in Nat /\ Best \in Nat
        /\ VotesOf(a) \in Nat /\ VotesOf(a) <= Peak
    BY <1>3, <1>4, <1>5, <2>1
  <2>4. VotesOf(a) > Peak \/ (VotesOf(a) = Peak /\ a < Best)
    BY <1>3, <2>2, <2>3 DEF Outvotes, Row
  <2> HIDE DEF a
  <2> QED BY <1>3, <2>3, <2>4
<1>9. n >= 1
  BY <1>1, <1>7
<1>10. ASSUME NEW i \in 1..n, NEW j \in 1..n, i < j
       PROVE  Cands[i].votes >= Cands[j].votes /\ Cands[i].address # Cands[j].address
  <2>1. Outvotes(Cands[i], Cands[j])
    BY <1>1, <1>10
  <2>2. Cands[i].votes \in Nat /\ Cands[j].votes \in Nat
        /\ Cands[i].address \in Nat /\ Cands[j].address \in Nat
    BY <1>4, <1>5
  <2>3. Cands[i].votes >= Cands[j].votes
    BY <2>1, <2>2 DEF Outvotes
  <2>4. Cands[i].address # Cands[j].address
    <3> SUFFICES ASSUME Cands[i].address = Cands[j].address PROVE FALSE
      OBVIOUS
    <3>1. Cands[i] = Cands[j]
      BY <1>5
    <3> QED BY <2>1, <2>2, <3>1 DEF Outvotes
  <2> QED BY <2>3, <2>4
<1>11. \A i \in 1..n :
         Cands[i].address \in Leaves /\ Cands[i].votes \in Nat /\ Cands[i].votes <= Peak
  BY <1>4, <1>5
<1> QED BY <1>1, <1>6, <1>7, <1>8, <1>9, <1>10, <1>11

\* Those that have a number of votes come first.
LEMMA VotesArePrefix ==
  ASSUME ImageFacts, table \in Tables, NEW v \in Int
  PROVE  /\ Finder!WithVotes(Cands, v) \in 0..Len(Cands)
         /\ \A i \in 1..Len(Cands) :
              Cands[i].votes >= v <=> i <= Finder!WithVotes(Cands, v)
<1> DEFINE K == {k \in DOMAIN Cands : Cands[k].votes >= v}
           n == Len(Cands)
<1>1. /\ n \in Nat /\ DOMAIN Cands = 1..n
      /\ \A i \in 1..n : Cands[i].votes \in Nat
      /\ \A i, j \in 1..n : i < j => Cands[i].votes >= Cands[j].votes
  BY CandidateFacts
<1>2. Finder!WithVotes(Cands, v) = Cardinality(K)
  BY Links DEF Finder!WithVotes
<1> HIDE DEF n
<1>3. K \in SUBSET (1..n) /\ \A i \in K : \A j \in 1..i : j \in K
  BY <1>1
<1>4. \A i \in 1..n : Cands[i].votes >= v <=> i \in K
  BY <1>1
<1> HIDE DEF K
<1>5. Cardinality(K) \in 0..n /\ K = 1..Cardinality(K)
  BY <1>1, <1>3, PrefixCount
<1> DEFINE c == Cardinality(K)
<1> HIDE DEF c
<1>6. \A i \in 1..n : Cands[i].votes >= v <=> i <= c
  <2>1. c \in 0..n /\ K = 1..c
    BY <1>5 DEF c
  <2> QED BY <1>1, <1>4, <2>1
<1> QED BY <1>2, <1>5, <1>6 DEF n, c

\* kept holds the first candidates, m of them.
KeptFirst(m) ==
  /\ kept \in Seq(Finder!Candidate) /\ Len(kept) = m
  /\ \A i \in 1..m : kept[i] = Cands[i]
  /\ \A i \in m + 1 .. Len(Cands), k \in 1..m : Cands[i].votes < Cands[k].votes
  /\ m < Len(Cands) => m >= KeepTarget /\ ~input.deep

Cut == SubSeq(Cands, 1, Finder!Min({Finder!KeptCount(Cands), Len(Cands)}))

LEMMA KeptCountIs ==
  ASSUME ImageFacts, table \in Tables
  PROVE  LET m == Finder!KeptCount(Cands)
             n == Len(Cands)
         IN  /\ m \in 1..n
             /\ \A i \in m + 1 .. n, k \in 1..m : Cands[i].votes < Cands[k].votes
             /\ m < n => m >= KeepTarget /\ ~input.deep
<1> DEFINE n == Len(Cands)
           m == Finder!KeptCount(Cands)
           enough == {v \in 0..Finder!PeakVote(table) : Finder!WithVotes(Cands, v) >= KeepTarget}
           bar == IF enough = {} THEN 0 ELSE Finder!Max(enough)
<1>1. /\ n \in Nat /\ n >= 1 /\ Cands[1].votes = Peak
      /\ \A i \in 1..n : Cands[i].votes \in Nat
  BY CandidateFacts, BestIsFirst DEF Row
<1>2. Peak \in Nat
  BY PeakFacts DEF Peak
<1>3. m = IF input.deep THEN n ELSE Finder!WithVotes(Cands, bar)
  BY DEF Finder!KeptCount
<1>4. CASE input.deep
  <2>1. m = n
    BY <1>3, <1>4
  <2> HIDE DEF m, n
  <2> QED BY <1>1, <2>1 DEF m, n
<1>5. CASE ~input.deep
  <2>1. bar \in 0..Peak /\ (enough # {} => Finder!WithVotes(Cands, bar) >= KeepTarget)
    <3>1. CASE enough = {}
      BY <1>2, <3>1
    <3>2. CASE enough # {}
      <4>1. enough \subseteq Int /\ IsFiniteSet(0..Peak) /\ enough \subseteq 0..Peak
        BY <1>2, FS_Interval DEF Peak
      <4> DEFINE e == enough
                 top == Finder!Max(e)
      <4>2. top \in e
        <5> HIDE DEF e
        <5>1. e # {} /\ e \subseteq Int /\ IsFiniteSet(0..Peak) /\ e \subseteq 0..Peak
          BY <3>2, <4>1 DEF e
        <5>2. IsFiniteSet(e)
          BY <5>1, FS_Subset
        <5> QED BY <5>1, <5>2, FinderMax
      <4> HIDE DEF top
      <4>3. top \in 0..Peak /\ Finder!WithVotes(Cands, top) >= KeepTarget
        BY <4>2 DEF Peak
      <4>4. bar = top
        BY <3>2 DEF top
      <4> QED BY <4>3, <4>4
    <3> QED BY <3>1, <3>2
  <2>2. m = Finder!WithVotes(Cands, bar)
    BY <1>3, <1>5
  <2>3. enough = {} => bar = 0
    OBVIOUS
  <2> HIDE DEF bar, enough, m
  <2>4. bar \in Int /\ bar >= 0 /\ bar <= Peak
    BY <1>2, <2>1
  <2>5. m \in 0..n /\ \A i \in 1..n : Cands[i].votes >= bar <=> i <= m
    BY <2>2, <2>4, VotesArePrefix
  <2> HIDE DEF n
  <2>6. 1 <= m
    <3>1. 1 \in 1..n /\ Cands[1].votes >= bar
      BY <1>1, <1>2, <2>4
    <3> QED BY <2>5, <3>1
  <2>7. m \in 1..n
    BY <1>1, <2>5, <2>6
  <2>8. ASSUME NEW i \in m + 1 .. n, NEW k \in 1..m PROVE Cands[i].votes < Cands[k].votes
    <3>1. i \in 1..n /\ k \in 1..n /\ ~(i <= m) /\ k <= m
      BY <1>1, <2>7
    <3>2. ~(Cands[i].votes >= bar) /\ Cands[k].votes >= bar
      BY <2>5, <3>1
    <3> QED BY <1>1, <2>4, <3>1, <3>2
  <2>9. ASSUME m < n PROVE m >= KeepTarget
    <3>1. n \in 1..n /\ ~(n <= m)
      BY <1>1, <2>7, <2>9
    <3>2. ~(Cands[n].votes >= bar) /\ Cands[n].votes \in Nat
      BY <1>1, <2>5, <3>1
    <3>3. bar # 0
      BY <3>2
    <3> QED BY <2>1, <2>2, <2>3, <3>3
  <2> QED BY <1>5, <2>7, <2>8, <2>9 DEF m, n
<1> QED BY <1>4, <1>5

LEMMA CutKeepsFirst ==
  ASSUME ImageFacts, table \in Tables, kept = Cut
  PROVE  KeptFirst(Len(kept)) /\ Len(kept) \in 1..Len(Cands)
<1> DEFINE m == Finder!KeptCount(Cands)
           n == Len(Cands)
<1>1. /\ m \in 1..n
      /\ \A i \in m + 1 .. n, k \in 1..m : Cands[i].votes < Cands[k].votes
      /\ m < n => m >= KeepTarget /\ ~input.deep
  BY KeptCountIs
<1>2. Cands \in Seq(Finder!Candidate) /\ n \in Nat
  BY CandidateFacts
<1>3. kept = SubSeq(Cands, 1, Finder!Min({m, n}))
  BY DEF Cut
<1> HIDE DEF m
<1>4. Finder!Min({m, n}) = m
  <2> HIDE DEF n
  <2>1. {m, n} \subseteq Int /\ {m, n} # {} /\ m <= n /\ m \in Int /\ n \in Int
    BY <1>1, <1>2
  <2>2. IsFiniteSet({m, n})
    <3>1. IsFiniteSet({m}) /\ {m, n} = {m} \cup {n}
      BY FS_Singleton
    <3> QED BY <3>1, FS_AddElement
  <2>3. Finder!Min({m, n}) \in {m, n} /\ \A x \in {m, n} : Finder!Min({m, n}) <= x
    BY <2>1, <2>2, FinderMin
  <2> QED BY <2>1, <2>3
<1>5. kept = SubSeq(Cands, 1, m)
  BY <1>3, <1>4
<1>6. 1 \in 1..Len(Cands) + 1 /\ m \in 1 - 1..Len(Cands) /\ m - 1 + 1 = m
  BY <1>1, <1>2
<1>7. kept \in Seq(Finder!Candidate) /\ Len(kept) = m
      /\ \A i \in 1..m : kept[i] = Cands[1 + i - 1]
  BY <1>2, <1>5, <1>6, PartOfSequence
<1>8. \A i \in 1..m : kept[i] = Cands[i]
  <2>1. \A i \in 1..m : 1 + i - 1 = i
    BY <1>1, <1>2
  <2> QED BY <1>7, <2>1
<1> QED BY <1>1, <1>7, <1>8 DEF KeptFirst

-----------------------------------------------------------------------------
\* The scores.

LEMMA WordsAreFinite ==
  ASSUME ImageFacts
  PROVE  IsFiniteSet(DOMAIN input.words)
<1>1. DOMAIN input.words = 0..(input.length - 1) \div input.psize
      /\ (input.length - 1) \div input.psize \in Int
  BY DEF ImageFacts
<1> QED BY <1>1, FS_Interval

\* The pointers under a base are finitely many.
LEMMA PointersAreFinite ==
  ASSUME ImageFacts, list \in Seq(Kind), NEW base
  PROVE  Cardinality(Finder!IndexPoiPointers(input, list, base)) \in Nat
<1> DEFINE K == DOMAIN input.words
           D == DOMAIN list \cup {0}
           Y == {"FunctionPointer"} \cup {"GenericPointer"}
           P == (K \X D) \X Y
           f == [p \in P |-> Finder!Pointer(p[1][1], p[1][2], p[2])]
           all == {f[p] : p \in P}
           found == Finder!IndexPoiPointers(input, list, base)
<1>1. IsFiniteSet(K)
  BY WordsAreFinite
<1>2. IsFiniteSet(D)
  <2>1. DOMAIN list = 1..Len(list) /\ Len(list) \in Nat
    OBVIOUS
  <2>2. IsFiniteSet(DOMAIN list)
    BY <2>1, FS_Interval
  <2> QED BY <2>2, FS_AddElement
<1>3. IsFiniteSet(Y)
  <2>1. IsFiniteSet({"FunctionPointer"})
    BY FS_Singleton
  <2> QED BY <2>1, FS_AddElement
<1>4. IsFiniteSet(P)
  <2> HIDE DEF K, D, Y
  <2>1. IsFiniteSet(K \X D)
    BY <1>1, <1>2, FS_Product
  <2> QED BY <1>3, <2>1, FS_Product
<1>5. \A k \in K, s \in D, y \in Y : Finder!Pointer(k, s, y) \in all
  <2> SUFFICES ASSUME NEW k \in K, NEW s \in D, NEW y \in Y
               PROVE  Finder!Pointer(k, s, y) \in all
    OBVIOUS
  <2>1. <<<<k, s>>, y>> \in P
    OBVIOUS
  <2>2. f[<<<<k, s>>, y>>] = Finder!Pointer(k, s, y)
    BY <2>1
  <2> HIDE DEF f, P
  <2> QED BY <2>1, <2>2
<1>6. IsFiniteSet(all)
  <2>1. f = [p \in P |-> f[p]]
    OBVIOUS
  <2> HIDE DEF f, P
  <2> QED BY <1>4, <2>1, ImageIsFinite
<1>7. Finder!DataWords(input) \subseteq K
  BY DEF Finder!DataWords, Finder!Scanned
<1> HIDE DEF all
<1>8. Finder!SymbolPointers(input, list, base) \subseteq all
  BY <1>5, <1>7 DEF Finder!SymbolPointers
<1>9. Finder!PlausiblePointers(input, base) \subseteq all
  BY <1>5, <1>7 DEF Finder!PlausiblePointers
<1>10. found \subseteq all
  BY <1>8, <1>9 DEF Finder!IndexPoiPointers
<1> HIDE DEF found
<1>11. IsFiniteSet(found)
  BY <1>6, <1>10, FS_Subset
<1> QED BY <1>11, FS_CardinalityType DEF found

\* The values of an array found under a base are counted, and count as one at
\* least.
LEMMA ResolvedIsNumber ==
  ASSUME ImageFacts, NEW poi \in Kind, NEW base
  PROVE  Finder!Resolved(poi, base) \in Nat
<1> DEFINE J == 0..poi.count - 1
           f == [j \in J |-> input.words[poi.offset \div input.psize + j]]
           E == {f[j] : j \in J}
           V == {v \in Finder!Elements(poi) : Finder!Resolves(v, base)}
           c == Cardinality(V)
           S == {1, c}
<1>1. IsFiniteSet(E)
  <2>1. poi.count \in Int
    BY DEF Kind, Others, StringPoi
  <2>2. IsFiniteSet(J)
    <3>1. 0 \in Int /\ poi.count - 1 \in Int
      BY <2>1
    <3> QED BY <3>1, FS_Interval
  <2>3. f = [j \in J |-> f[j]]
    OBVIOUS
  <2> HIDE DEF f, J
  <2> QED BY <2>2, <2>3, ImageIsFinite
<1>2. V \subseteq E
  BY DEF Finder!Elements
<1> HIDE DEF E, V
<1>3. c \in Nat
  BY <1>1, <1>2, FS_Subset, FS_CardinalityType
<1>4. Finder!Resolved(poi, base) = Finder!Max(S)
  BY Links DEF Finder!Resolved, V
<1> HIDE DEF c
<1>5. S \subseteq Int /\ S # {} /\ \A x \in S : x \in Nat
  BY <1>3
<1>6. IsFiniteSet(S)
  <2>1. IsFiniteSet({1}) /\ S = {1} \cup {c}
    BY FS_Singleton
  <2> QED BY <2>1, FS_AddElement
<1> HIDE DEF S
<1>7. Finder!Max(S) \in S
  BY <1>5, <1>6, FinderMax
<1> QED BY <1>4, <1>5, <1>7

\* The sum over the arrays is a number.
Sum(base) ==
  Finder!MapThenSumSet(LAMBDA k : Finder!Resolved(list[k], base), Finder!PoisOf({"Array"}))

LEMMA SumIsNumber ==
  ASSUME ImageFacts, list \in Seq(Kind), NEW base
  PROVE  Sum(base) \in Nat
<1> DEFINE A == Finder!PoisOf({"Array"})
           res(k) == Finder!Resolved(list[k], base)
           pick == [s \in SUBSET A |-> CHOOSE k \in s : TRUE]
           step == [k \in A |-> [v \in Nat |-> res(k) + v]]
           Body(f) == [s \in SUBSET A |->
                         IF s = {} THEN 0
                         ELSE LET k == CHOOSE k \in s : TRUE
                              IN  res(k) + f[s \ {k}]]
           iter == CHOOSE f : f = Body(f)
<1>1. IsFiniteSet(A)
  <2>1. DOMAIN list = 1..Len(list) /\ Len(list) \in Nat
    OBVIOUS
  <2>2. IsFiniteSet(DOMAIN list)
    BY <2>1, FS_Interval
  <2>3. A \subseteq DOMAIN list
    BY DEF Finder!PoisOf
  <2> HIDE DEF A
  <2> QED BY <2>2, <2>3, FS_Subset
<1>2. Sum(base) = iter[A]
  BY DEF Sum, Finder!MapThenSumSet, Finder!MapThenFoldSet
<1>3. \A k \in A : res(k) \in Nat
  <2> SUFFICES ASSUME NEW k \in A PROVE res(k) \in Nat
    OBVIOUS
  <2>1. list[k] \in Kind
    BY DEF Finder!PoisOf
  <2> QED BY <2>1, ResolvedIsNumber
<1> HIDE DEF A, res
<1>4. Picks(pick, A)
  BY DEF Picks
<1>5. step \in [A -> [Nat -> Nat]] /\ \A k \in A, v \in Nat : step[k][v] = res(k) + v
  BY <1>3
<1>6. \A s \in SUBSET A : pick[s] = CHOOSE k \in s : TRUE
  OBVIOUS
<1> HIDE DEF pick, step
<1>7. PICK f : Folds(f, A, Nat, 0, step, pick)
  <2>1. 0 \in Nat
    OBVIOUS
  <2> QED BY <1>1, <1>4, <1>5, <2>1, FoldExists
<1>8. f = Body(f)
  <2>1. ASSUME NEW s \in SUBSET A, s # {}
        PROVE  f[s] = res(pick[s]) + f[s \ {pick[s]}]
    <3>1. pick[s] \in A /\ f[s \ {pick[s]}] \in Nat
      BY <1>4, <1>7, <2>1 DEF Picks, Folds
    <3>2. f[s] = step[pick[s]][f[s \ {pick[s]}]]
      BY <1>7, <2>1 DEF Folds
    <3> QED BY <1>5, <3>1, <3>2
  <2>2. f[{}] = 0
    BY <1>7 DEF Folds
  <2>3. f = [s \in SUBSET A |-> f[s]]
    BY <1>7 DEF Folds
  <2> QED BY <1>6, <2>1, <2>2, <2>3
<1>9. iter = Body(iter)
  <2> HIDE DEF Body
  <2> QED BY <1>8
<1>10. /\ iter[{}] = 0
       /\ \A s \in SUBSET A : s # {} => iter[s] = res(pick[s]) + iter[s \ {pick[s]}]
  <2>1. {} \in SUBSET A
    OBVIOUS
  <2> HIDE DEF iter
  <2> QED BY <1>6, <1>9, <2>1
<1> HIDE DEF iter
<1> DEFINE R1 == [s \in SUBSET A |-> Nat]
<1>11. iter[{}] \in R1[{}]
  BY <1>10
<1>12. ASSUME NEW s \in SUBSET A, s # {}, iter[s \ {pick[s]}] \in R1[s \ {pick[s]}]
       PROVE  iter[s] \in R1[s]
  <2>1. pick[s] \in A /\ res(pick[s]) \in Nat
    BY <1>3, <1>4, <1>12 DEF Picks
  <2>2. iter[s \ {pick[s]}] \in Nat
    BY <1>12
  <2>3. iter[s] = res(pick[s]) + iter[s \ {pick[s]}]
    BY <1>10, <1>12
  <2> QED BY <2>1, <2>2, <2>3
<1> HIDE DEF R1
<1>13. \A s \in SUBSET A : iter[s] \in R1[s]
  BY <1>1, <1>4, <1>11, <1>12, FoldStays, Zenon
<1>14. iter[A] \in Nat
  BY <1>13 DEF R1
<1> QED BY <1>2, <1>14

LEMMA RefinedIsScored ==
  ASSUME ImageFacts, list \in Seq(Kind), NEW c \in Finder!Candidate
  PROVE  /\ Finder!RefineOne(c) \in Finder!Scored
         /\ Finder!RefineOne(c).address = c.address /\ Finder!RefineOne(c).votes = c.votes
<1> DEFINE a == c.address
           sum == Sum(c.address)
           arrayScore == (1 + sum) % WordMod
           pointers == Finder!Cardinality(Finder!IndexPoiPointers(input, list, c.address))
           score == (pointers * c.votes * arrayScore) % WordMod
           valid == \E k \in Finder!PoisOf({"Array"}) : Finder!ValidArray(list[k], c.address)
<1>1. Finder!RefineOne(c) =
        [address |-> c.address, votes |-> c.votes, score |-> score, valid |-> valid]
  BY DEF Finder!RefineOne, Sum
<1>2. c.address \in Addr /\ c.votes \in Nat
  BY DEF Finder!Candidate
<1>3. sum \in Nat
  BY SumIsNumber
<1>4. pointers \in Nat
  BY PointersAreFinite, Links
<1>5. valid \in BOOLEAN
  BY Zenon
<1> HIDE DEF sum, pointers, valid
<1>6. arrayScore \in Nat
  BY <1>3, ConstantFacts
<1> HIDE DEF arrayScore
<1>7. score \in 0..WordMod - 1
  <2>1. pointers * c.votes \in Nat
    BY <1>2, <1>4
  <2>2. (pointers * c.votes) * arrayScore \in Nat
    BY <1>6, <2>1
  <2> QED BY <2>2, ConstantFacts
<1> HIDE DEF score
<1> QED BY <1>1, <1>2, <1>5, <1>7 DEF Finder!Scored

-----------------------------------------------------------------------------
\* The search, stage by stage: each has what the one before it made of the
\* votes.

ScoresOfKept == [k \in DOMAIN kept |-> Finder!RefineOne(kept[k])]

Before0 == {"options", "symbols", "mode", "populating"}

SearchInv ==
  /\ pc \in Before0 => Finder!Init
  /\ pc \in Stages =>
       table \in Tables /\ voted \in 0..Len(list) /\ Counted(table, Votes(voted))
  /\ pc \in {"voting", "ranking"} => kept = <<>>
  /\ pc \in {"voting", "ranking", "refining"} => scored = <<>>
  /\ pc \in {"refining", "selecting", "done"} => kept = Cut
  /\ pc \in {"selecting", "done"} => scored = ScoresOfKept
  /\ pc = "done" => result = Finder!Chosen

LEMMA TablesUnchanged ==
  ASSUME UNCHANGED input
  PROVE  Tables' = Tables
<1>1. Bases' = Bases
  BY DEF Bases, Finder!MaxValue
<1> QED BY <1>1 DEF Tables

LEMMA CountedUnchanged ==
  ASSUME UNCHANGED <<input, list>>
  PROVE  Counted(table, Votes(voted))' <=> Counted(table', Votes(voted'))
<1>1. \A v : Finder!Base(v)' = Finder!Base(v)
  BY DEF Finder!Base
<1>2. \A v : Finder!IsVote(v)' <=> Finder!IsVote(v)
  BY DEF Finder!IsVote, Finder!Base, Finder!MaxValue, Finder!PowerOfTwo, Finder!SameUnderMask,
         Finder!AlignmentMask, Finder!Bit
<1>3. Votes(voted)' = Votes(voted')
  BY <1>2 DEF Votes
<1> QED BY <1>1, <1>3 DEF Counted, For, Nodes, Finder!LiveNodes, Finder!Live

LEMMA CutUnchanged ==
  ASSUME UNCHANGED <<input, table>>
  PROVE  Cut' = Cut
<1>1. Finder!Contenders' = Finder!Contenders
  BY DEF Finder!Contenders
<1>2. Cands' = Cands
  BY <1>1 DEF Cands, Finder!Candidates, Finder!Sorted
<1>3. Finder!KeptCount(Cands)' = Finder!KeptCount(Cands)
  BY <1>2 DEF Finder!KeptCount, Finder!WithVotes
<1> QED BY <1>2, <1>3 DEF Cut

LEMMA ScoresUnchanged ==
  ASSUME UNCHANGED <<input, list, kept>>
  PROVE  ScoresOfKept' = ScoresOfKept
<1>1. ASSUME NEW base PROVE Sum(base)' = Sum(base)
  BY DEF Sum, Finder!MapThenSumSet, Finder!MapThenFoldSet, Finder!Resolved, Finder!Elements,
         Finder!Resolves, Finder!PoisOf
<1>2. ASSUME NEW c PROVE Finder!RefineOne(c)' = Finder!RefineOne(c)
  <2> DEFINE pointers == Finder!Cardinality(Finder!IndexPoiPointers(input, list, c.address))
             valid == \E k \in Finder!PoisOf({"Array"}) : Finder!ValidArray(list[k], c.address)
  <2>1. Finder!RefineOne(c) =
          [address |-> c.address, votes |-> c.votes,
           score |-> (pointers * c.votes * ((1 + Sum(c.address)) % WordMod)) % WordMod,
           valid |-> valid]
    BY DEF Finder!RefineOne, Sum
  <2>2. Finder!RefineOne(c)' =
          [address |-> c.address, votes |-> c.votes,
           score |-> (pointers' * c.votes * ((1 + Sum(c.address)') % WordMod)) % WordMod,
           valid |-> valid']
    BY DEF Finder!RefineOne, Sum
  <2>3. pointers' = pointers
    OBVIOUS
  <2>4. valid' = valid
    BY DEF Finder!ValidArray, Finder!Resolved, Finder!Elements, Finder!Resolves, Finder!PoisOf
  <2> HIDE DEF pointers, valid
  <2> QED BY <1>1, <2>1, <2>2, <2>3, <2>4
<1> QED BY <1>2 DEF ScoresOfKept

LEMMA ChosenUnchanged ==
  ASSUME UNCHANGED <<table, scored>>
  PROVE  Finder!Chosen' = Finder!Chosen
<1>1. Finder!Ranked' = Finder!Ranked
  BY DEF Finder!Ranked, Finder!Sorted
<1>2. Finder!BestVoteAddress' = Finder!BestVoteAddress
  BY DEF Finder!BestVoteAddress
<1>3. Finder!BestScoreAddress' = Finder!BestScoreAddress
  BY DEF Finder!BestScoreAddress, Finder!TopScore
<1>4. Finder!ValidOnes' = Finder!ValidOnes
  BY DEF Finder!ValidOnes
<1> QED BY <1>1, <1>2, <1>3, <1>4 DEF Finder!Chosen, Finder!Verdict, Finder!OneArrayValid

LEMMA ListIsSeq ==
  ASSUME StageInv, pc \in Stages
  PROVE  list \in Seq(Kind) /\ Len(list) \in Nat /\ DOMAIN list = 1..Len(list)
<1>1. list \in Seq(Kind)
  BY DEF StageInv, StringsInv, Kind
<1> QED BY <1>1

LEMMA EmptyIsCounted == Finder!Init => Counted(table, Votes(voted))
<1> SUFFICES ASSUME Finder!Init PROVE Counted(table, Votes(voted))
  OBVIOUS
<1>1. voted = 0 /\ table = Finder!Empty
  BY DEF Finder!Init
<1>2. Finder!Live(table) = {} /\ table.nodes = 0
  BY <1>1, EmptyIsTable DEF Finder!Empty
<1>3. Nodes(table) = {}
  BY <1>2 DEF Nodes, Finder!LiveNodes
<1>4. Votes(voted) = {}
  <2>1. (1..0) \X DOMAIN input.words = {}
    OBVIOUS
  <2> QED BY <1>1, <2>1 DEF Votes
<1>5. Cardinality(Nodes(table)) <= table.nodes
  BY <1>2, <1>3, FS_EmptySet
<1> QED BY <1>2, <1>4, <1>5 DEF Counted

\* Until the search votes there is nothing of it.
LEMMA BeforeSearch ==
  ASSUME Finder!Init, UNCHANGED search, pc' \in Before0 \cup {"voting", "refused", "exit"},
         StageInv'
  PROVE  SearchInv'
<1>1. Finder!Init'
  BY DEF search, Finder!Init
<1>2. table' \in Tables' /\ voted' = 0 /\ kept' = <<>> /\ scored' = <<>>
  <2>1. table' = Finder!Empty
    BY <1>1 DEF Finder!Init
  <2>2. Finder!Empty' = Finder!Empty
    BY DEF Finder!Empty
  <2>3. (Finder!Empty \in Tables)'
    BY EmptyIsTable, PTL
  <2> QED BY <1>1, <2>1, <2>2, <2>3 DEF Finder!Init
<1>3. pc' \in Stages => voted' \in 0..Len(list')
  <2>1. pc' \in Stages => (list \in Seq(Kind))'
    BY DEF StageInv, StringsInv, Kind
  <2>2. pc' \in Stages => Len(list') \in Nat
    BY <2>1
  <2> QED BY <1>2, <2>2
<1>4. Counted(table, Votes(voted))'
  <2>1. (Finder!Init => Counted(table, Votes(voted)))'
    BY EmptyIsCounted, PTL
  <2> QED BY <1>1, <2>1
<1> QED BY <1>1, <1>2, <1>3, <1>4 DEF SearchInv, Before0, Stages

LEMMA VoteStage ==
  ASSUME ImageFacts, StageInv, SearchInv, Finder!VotePoi
  PROVE  SearchInv'
<1> DEFINE t == Finder!CastVotes(table, list[voted + 1])
<1>1. /\ pc = "voting" /\ pc' = pc /\ voted < Len(list) /\ voted' = voted + 1
      /\ table' = IF Finder!MemSize(t) > MaxMem THEN Finder!Prune(t) ELSE t
      /\ UNCHANGED <<input, list, kept, scored>>
  BY DEF Finder!VotePoi
<1>2. list \in Seq(Kind) /\ Len(list) \in Nat /\ table \in Tables /\ voted \in 0..Len(list)
  BY <1>1, ListIsSeq DEF SearchInv, Stages
<1>3. voted + 1 \in 1..Len(list)
  BY <1>1, <1>2
<1>4. Counted(table, Votes(voted)) /\ voted \in Nat /\ voted + 1 \in DOMAIN list
  BY <1>1, <1>2, <1>3 DEF SearchInv, Stages
<1>5. t \in Tables /\ Counted(t, Votes(voted + 1))
  BY <1>2, <1>4, VotesAreCast
<1>6. Finder!Prune(t) \in Tables /\ Counted(Finder!Prune(t), Votes(voted + 1))
  <2> HIDE DEF t
  <2> QED BY <1>5, PruneKeeps, PruneCounts
<1> HIDE DEF t
<1>7. table' \in Tables' /\ Counted(table, Votes(voted))'
  <2>1. table' \in Tables /\ Counted(table', Votes(voted'))
    BY <1>1, <1>5, <1>6
  <2> QED BY <1>1, <2>1, TablesUnchanged, CountedUnchanged
<1>8. voted' \in 0..Len(list')
  BY <1>1, <1>2, <1>3
<1>9. kept' = <<>> /\ scored' = <<>>
  BY <1>1 DEF SearchInv
<1> QED BY <1>1, <1>7, <1>8, <1>9 DEF SearchInv, Before0

\* The table and the list stay once votes are cast.
LEMMA StagesUnchanged ==
  ASSUME SearchInv, pc \in Stages, UNCHANGED <<input, list, voted, table>>
  PROVE  /\ table' \in Tables' /\ voted' \in 0..Len(list') /\ Cut' = Cut
         /\ Counted(table, Votes(voted))'
<1>1. table \in Tables /\ voted \in 0..Len(list) /\ Counted(table, Votes(voted))
  BY DEF SearchInv
<1>2. Counted(table, Votes(voted))'
  BY <1>1, CountedUnchanged
<1> QED BY <1>1, <1>2, TablesUnchanged, CutUnchanged

LEMMA LaterStages ==
  ASSUME SearchInv,
         \/ Finder!VotesCast \/ Finder!Rank \/ Finder!RefineCandidates \/ Finder!Select
  PROVE  SearchInv'
<1>1. CASE Finder!VotesCast
  <2>1. pc = "voting" /\ pc' = "ranking" /\ UNCHANGED <<input, list, voted, table, kept, scored>>
    BY <1>1 DEF Finder!VotesCast
  <2>2. table' \in Tables' /\ voted' \in 0..Len(list') /\ Counted(table, Votes(voted))'
    BY <2>1, StagesUnchanged DEF Stages
  <2> QED BY <2>1, <2>2 DEF SearchInv, Before0
<1>2. CASE Finder!Rank
  <2>1. pc = "ranking" /\ pc' = "refining" /\ UNCHANGED <<input, list, voted, table, scored>>
        /\ kept' = Cut
    BY <1>2 DEF Finder!Rank, Cut, Cands
  <2>2. /\ table' \in Tables' /\ voted' \in 0..Len(list') /\ Cut' = Cut
        /\ Counted(table, Votes(voted))'
    BY <2>1, StagesUnchanged DEF Stages
  <2> QED BY <2>1, <2>2 DEF SearchInv, Before0
<1>3. CASE Finder!RefineCandidates
  <2>1. pc = "refining" /\ pc' = "selecting" /\ UNCHANGED <<input, list, voted, table, kept>>
        /\ scored' = ScoresOfKept
    BY <1>3 DEF Finder!RefineCandidates, ScoresOfKept
  <2>2. /\ table' \in Tables' /\ voted' \in 0..Len(list') /\ Cut' = Cut
        /\ Counted(table, Votes(voted))'
    BY <2>1, StagesUnchanged DEF Stages
  <2>3. ScoresOfKept' = ScoresOfKept
    BY <2>1, ScoresUnchanged
  <2> QED BY <2>1, <2>2, <2>3 DEF SearchInv, Before0
<1>4. CASE Finder!Select
  <2>1. pc = "selecting" /\ pc' = "done"
        /\ UNCHANGED <<input, list, voted, table, kept, scored>>
        /\ result' = Finder!Chosen
    BY <1>4 DEF Finder!Select
  <2>2. /\ table' \in Tables' /\ voted' \in 0..Len(list') /\ Cut' = Cut
        /\ Counted(table, Votes(voted))'
    BY <2>1, StagesUnchanged DEF Stages
  <2>3. ScoresOfKept' = ScoresOfKept
    BY <2>1, ScoresUnchanged
  <2>4. Finder!Chosen' = Finder!Chosen
    BY <2>1, ChosenUnchanged
  <2> QED BY <2>1, <2>2, <2>3, <2>4 DEF SearchInv, Before0
<1> QED BY <1>1, <1>2, <1>3, <1>4

LEMMA SearchUnchanged ==
  ASSUME SearchInv, UNCHANGED <<input, list, pc, search>>
  PROVE  SearchInv'
<1>1. UNCHANGED <<voted, table, kept, scored, result>>
  BY DEF search
<1>2. pc \in Stages => /\ table' \in Tables' /\ voted' \in 0..Len(list')
                      /\ Counted(table, Votes(voted))'
  BY <1>1, StagesUnchanged
<1>3. Cut' = Cut /\ ScoresOfKept' = ScoresOfKept /\ Finder!Chosen' = Finder!Chosen
  BY <1>1, CutUnchanged, ScoresUnchanged, ChosenUnchanged
<1>4. Finder!Init' <=> Finder!Init
  BY <1>1 DEF Finder!Init
<1> QED BY <1>1, <1>2, <1>3, <1>4 DEF SearchInv

LEMMA NextSearch ==
  ASSUME ControlInv, ImageOk, StageInv, StageInv', SearchInv, [Next]_vars
  PROVE  SearchInv'
<1>1. CASE UNCHANGED vars
  BY <1>1, SearchUnchanged DEF vars, finder
<1>2. CASE RefuseOptions \/ RefuseFile \/ Load \/ LoadSymbols \/ SymbolsLoaded \/ RefuseSymbols
             \/ RefuseBase \/ FindUds \/ FindUdsPanics \/ StartSearch
  <2>1. pc \in Before0 /\ pc' \in Before0 \cup {"exit"} /\ UNCHANGED search
    BY <1>2 DEF RefuseOptions, RefuseFile, Load, LoadSymbols, SymbolsLoaded, RefuseSymbols,
         RefuseBase, FindUds, FindUdsPanics, StartSearch, Fail, Before0, finder
  <2>2. Finder!Init
    BY <2>1 DEF SearchInv
  <2> QED BY <2>1, <2>2, BeforeSearch
<1>3. CASE AppendStrings \/ AppendValueArrays \/ IndexFunctions
  <2>1. pc = "populating" /\ pc' \in {"populating", "voting"} /\ UNCHANGED search
    BY <1>3 DEF AppendStrings, AppendValueArrays, IndexFunctions, Populating
  <2>2. Finder!Init
    BY <2>1 DEF SearchInv, Before0
  <2> QED BY <2>1, <2>2, BeforeSearch DEF Before0
<1>4. CASE ComputeCandidates
  <2>1. Finder!Next
    BY <1>4 DEF ComputeCandidates
  <2>2. CASE Finder!Refuse
    <3>1. pc' = "refused"
      BY <2>2 DEF Finder!Refuse
    <3> QED BY <3>1 DEF SearchInv, Stages, Before0
  <2>3. CASE Finder!VotePoi
    <3>1. pc \in Stages
      BY <2>3 DEF Finder!VotePoi, Stages
    <3>2. ImageFacts
      BY <3>1 DEF ImageOk
    <3> QED BY <2>3, <3>2, VoteStage
  <2>4. CASE Finder!SpawnRefused
    <3>1. pc' = "panicked"
      BY <2>4 DEF Finder!SpawnRefused
    <3> QED BY <3>1 DEF SearchInv, Stages, Before0
  <2> QED BY <2>1, <2>2, <2>3, <2>4, LaterStages DEF Finder!Next
<1>5. CASE PrintBaseAddress \/ NoPointsOfInterest \/ Unwind
  <2>1. pc' = "exit"
    BY <1>5 DEF PrintBaseAddress, NoPointsOfInterest, Unwind, Fail
  <2> QED BY <2>1 DEF SearchInv, Stages, Before0
<1> QED BY <1>1, <1>2, <1>3, <1>4, <1>5 DEF Next, SearchBaseAddress, FindBaseAddress, Terminated

LEMMA SearchHolds == Spec => []SearchInv
<1>1. Init => SearchInv
  BY DEF Init, LibraryInit, SearchInv, Before0, Stages
<1>2. ControlInv /\ ImageOk /\ StageInv /\ StageInv' /\ SearchInv /\ [Next]_vars => SearchInv'
  BY NextSearch
<1> QED BY <1>1, <1>2, ControlHolds, ImageHolds, StageHolds, PTL DEF Spec

-----------------------------------------------------------------------------
\* What was voted for, kept and scored.

LEMMA VotesStageHits ==
  ASSUME SearchInv
  PROVE  VotesAreHits
<1> SUFFICES ASSUME pc \in Stages PROVE Finder!VotesAreHits
  BY DEF VotesAreHits, Searching, Stages
<1> DEFINE V == Votes(voted)
<1>1. Counted(table, V)
  BY DEF SearchInv
<1>2. V = {v \in (1..voted) \X DOMAIN input.words : Finder!IsVote(v)}
  BY DEF Votes
<1>3. \A base : Finder!Cardinality({v \in V : Finder!Base(v) = base}) = Cardinality(For(V, base))
  BY Links DEF For
<1>4. Finder!Cardinality(Finder!LiveNodes(table)) = Cardinality(Nodes(table))
  BY Links DEF Nodes
<1> DEFINE Card(S) == Finder!Cardinality(S)
<1>5. Finder!VotesAreHits <=>
        /\ \A base \in Finder!Live(table) :
             table.votes[base] \in 1..Card({v \in V : Finder!Base(v) = base})
        /\ table.nodes = Card(Finder!LiveNodes(table)) =>
             \A v \in V :
               /\ Finder!Base(v) \in Finder!Live(table)
               /\ table.votes[Finder!Base(v)] =
                    Card({x \in V : Finder!Base(x) = Finder!Base(v)})
  BY <1>2 DEF Finder!VotesAreHits
<1> HIDE DEF V
<1> QED BY <1>1, <1>3, <1>4, <1>5 DEF Counted

\* vote_candidates: whatever list, image, alignment and pruning, a base never
\* has more votes than there are pairs of a word and a point of interest that
\* call for it, and while the pruning has dropped nothing it has one for each.
\* Such a pair is as the options ask for (pointers aligned, and the base too
\* if its alignment is a power of two), the word is no text, and the base
\* leaves room for the image.
THEOREM VotesGoToHits == Spec => []VotesAreHits
<1>1. SearchInv => VotesAreHits
  BY VotesStageHits
<1> QED BY <1>1, SearchHolds, PTL

Refined == pc \in {"refining", "selecting", "done"}

LEMMA KeptFacts ==
  ASSUME ImageOk, SearchInv, Refined
  PROVE  /\ ImageFacts /\ table \in Tables /\ Cands \in Seq(Finder!Candidate)
         /\ KeptFirst(Len(kept)) /\ Len(kept) \in 1..Len(Cands) /\ Len(Cands) \in Nat
         /\ DOMAIN kept = 1..Len(kept)
<1>1. ImageFacts /\ table \in Tables /\ kept = Cut
  BY DEF ImageOk, SearchInv, Stages, Refined
<1>2. KeptFirst(Len(kept)) /\ Len(kept) \in 1..Len(Cands)
  BY <1>1, CutKeepsFirst
<1>3. Len(Cands) \in Nat /\ Cands \in Seq(Finder!Candidate)
  BY <1>1, CandidateFacts
<1>4. DOMAIN kept = 1..Len(kept)
  BY <1>2 DEF KeptFirst
<1> QED BY <1>1, <1>2, <1>3, <1>4

\* compute_candidates: the most voted base is scored, and is the first to be,
\* whatever the table, the filter by votes and the cut.
THEOREM PrimeSuspectIsFirst == Spec => []PrimeSuspectRefined
<1>1. ASSUME ImageOk, SearchInv PROVE PrimeSuspectRefined
  <2> SUFFICES ASSUME Refined PROVE kept # <<>> /\ kept[1].address = Finder!BestVoteAddress
    BY DEF PrimeSuspectRefined, Finder!PrimeSuspectRefined, Refined
  <2>1. /\ ImageFacts /\ table \in Tables
        /\ KeptFirst(Len(kept)) /\ Len(kept) \in 1..Len(Cands) /\ Len(Cands) \in Nat
    BY <1>1, KeptFacts
  <2>2. 1 \in 1..Len(kept)
    BY <2>1
  <2>3. kept[1] = Cands[1] /\ kept # <<>>
    BY <2>1, <2>2 DEF KeptFirst
  <2>4. Cands[1] = Row(Best)
    BY <2>1, CandidateFacts
  <2> QED BY <2>3, <2>4 DEF Row, Best
<1>2. ImageOk /\ SearchInv => PrimeSuspectRefined
  BY <1>1
<1> QED BY <1>2, ImageHolds, SearchHolds, PTL

\* What a candidate's score is taken from and compared with.
LEMMA ScoredFacts ==
  ASSUME ImageOk, StageInv, SearchInv, pc \in {"selecting", "done"}
  PROVE  /\ scored \in Seq(Finder!Scored) /\ DOMAIN scored = 1..Len(scored)
         /\ Len(scored) \in Nat /\ Len(scored) >= 1
         /\ scored[1].address = Best /\ scored[1].votes = Peak
         /\ \A i \in 1..Len(scored) : /\ scored[i].address \in Leaves
                                      /\ scored[i].votes <= Peak
         /\ \A i, j \in 1..Len(scored) : i # j => scored[i].address # scored[j].address
<1> DEFINE n == Len(kept)
<1>1. /\ ImageFacts /\ table \in Tables /\ Cands \in Seq(Finder!Candidate)
      /\ KeptFirst(n) /\ n \in 1..Len(Cands) /\ Len(Cands) \in Nat /\ DOMAIN kept = 1..n
  BY KeptFacts DEF Refined
<1>2. list \in Seq(Kind) /\ scored = ScoresOfKept
  BY ListIsSeq DEF Stages, SearchInv
<1> HIDE DEF n
<1>3. n \in Nat /\ n >= 1
  BY <1>1
<1>4. ASSUME NEW i \in 1..n
      PROVE  /\ scored[i] \in Finder!Scored /\ i \in 1..Len(Cands)
             /\ scored[i].address = Cands[i].address /\ scored[i].votes = Cands[i].votes
  <2>1. i \in 1..Len(Cands)
    BY <1>1
  <2>2. kept[i] = Cands[i] /\ Cands[i] \in Finder!Candidate
    BY <1>1, <2>1 DEF KeptFirst
  <2>3. scored[i] = Finder!RefineOne(Cands[i])
    BY <1>1, <1>2, <2>2 DEF ScoresOfKept
  <2>4. /\ Finder!RefineOne(Cands[i]) \in Finder!Scored
        /\ Finder!RefineOne(Cands[i]).address = Cands[i].address
        /\ Finder!RefineOne(Cands[i]).votes = Cands[i].votes
    BY <1>1, <1>2, <2>2, RefinedIsScored
  <2> QED BY <2>1, <2>3, <2>4
<1>5. Len(scored) = n /\ DOMAIN scored = 1..n /\ scored \in Seq(Finder!Scored)
  <2>1. DOMAIN scored = 1..n /\ scored = [i \in 1..n |-> scored[i]]
    BY <1>1, <1>2 DEF ScoresOfKept
  <2>2. scored \in [1..n -> Finder!Scored]
    BY <1>4, <2>1
  <2> QED BY <1>3, <2>1, <2>2
<1>6. /\ Cands[1] = Row(Best) /\ VotesOf(Best) = Peak
      /\ \A i \in 1..Len(Cands) : Cands[i].address \in Leaves /\ Cands[i].votes <= Peak
      /\ \A i, j \in 1..Len(Cands) : i < j => Cands[i].address # Cands[j].address
  BY <1>1, CandidateFacts, BestIsFirst
<1>7. scored[1].address = Best /\ scored[1].votes = Peak
  <2>1. 1 \in 1..n
    BY <1>3
  <2> QED BY <1>4, <1>6, <2>1 DEF Row
<1>8. ASSUME NEW i \in 1..n, NEW j \in 1..n, i # j
      PROVE  scored[i].address # scored[j].address
  <2>1. i < j \/ j < i
    BY <1>3, <1>8
  <2>2. i \in 1..Len(Cands) /\ j \in 1..Len(Cands)
    BY <1>4
  <2>3. Cands[i].address # Cands[j].address
    BY <1>6, <2>1, <2>2
  <2> QED BY <1>4, <2>3
<1>9. \A i \in 1..n : scored[i].address \in Leaves /\ scored[i].votes <= Peak
  BY <1>4, <1>6
<1> QED BY <1>3, <1>5, <1>7, <1>8, <1>9

LEMMA ChosenIs ==
  LET voteBest  == Finder!BestVoteAddress
      scoreBest == Finder!BestScoreAddress
      a == scored[Finder!Min(Finder!ValidOnes)].address
      r == Finder!Chosen
  IN  /\ Finder!OneArrayValid => r = Finder!Verdict(a, TRUE, "ValidArray", {a})
      /\ ~Finder!OneArrayValid /\ voteBest = scoreBest =>
           r = Finder!Verdict(voteBest, TRUE, "BestMatchAgrees", {voteBest})
      /\ ~Finder!OneArrayValid /\ voteBest # scoreBest /\ scoreBest # Finder!NoAddress =>
           r = Finder!Verdict(scoreBest, FALSE, "Score", {scoreBest})
      /\ ~Finder!OneArrayValid /\ voteBest # scoreBest /\ scoreBest = Finder!NoAddress =>
           r = Finder!Verdict(voteBest, FALSE, "Fallback", {})
BY DEF Finder!Chosen

-----------------------------------------------------------------------------
\* The cut, once more, and the verdict.

LEMMA ReasonIsKnown ==
  Finder!Chosen.reason \in {"ValidArray", "BestMatchAgrees", "Score", "Fallback"}
<1> DEFINE voteBest  == Finder!BestVoteAddress
           scoreBest == Finder!BestScoreAddress
           a == scored[Finder!Min(Finder!ValidOnes)].address
<1>1. \/ Finder!Chosen = Finder!Verdict(a, TRUE, "ValidArray", {a})
      \/ Finder!Chosen = Finder!Verdict(voteBest, TRUE, "BestMatchAgrees", {voteBest})
      \/ Finder!Chosen = Finder!Verdict(scoreBest, FALSE, "Score", {scoreBest})
      \/ Finder!Chosen = Finder!Verdict(voteBest, FALSE, "Fallback", {})
  BY ChosenIs
<1> HIDE DEF voteBest, scoreBest, a
<1>2. ASSUME NEW b, NEW c, NEW r, NEW e, Finder!Chosen = Finder!Verdict(b, c, r, e)
      PROVE  Finder!Chosen.reason = r
  BY <1>2 DEF Finder!Verdict
<1>3. \/ Finder!Chosen.reason = "ValidArray"
      \/ Finder!Chosen.reason = "BestMatchAgrees"
      \/ Finder!Chosen.reason = "Score"
      \/ Finder!Chosen.reason = "Fallback"
  BY <1>1, <1>2, Zenon
<1> QED BY <1>3

LEMMA SearchIsTyped ==
  ASSUME ImageOk, StageInv, SearchInv, pc \in Stages
  PROVE  Finder!TypeOK
<1>1. ImageFacts /\ table \in Tables /\ voted \in 0..Len(list)
  BY DEF ImageOk, SearchInv
<1>2. Finder!Live(table) \subseteq Addr
  BY <1>1, TableFacts, BaseFacts
<1>3. kept \in Seq(Finder!Candidate)
  <2>1. CASE Refined
    BY <2>1, KeptFacts DEF KeptFirst
  <2>2. CASE ~Refined
    <3>1. kept = <<>>
      BY <2>2 DEF SearchInv, Finder!Init, Refined, Stages, Before0
    <3> QED BY <3>1
  <2> QED BY <2>1, <2>2
<1>4. scored \in Seq(Finder!Scored)
  <2>1. CASE pc \in {"selecting", "done"}
    BY <2>1, ScoredFacts
  <2>2. CASE pc \notin {"selecting", "done"}
    <3>1. scored = <<>>
      BY <2>2 DEF SearchInv, Finder!Init, Stages, Before0
    <3> QED BY <3>1
  <2> QED BY <2>1, <2>2
<1>5. pc = "done" =>
        result.reason \in {"ValidArray", "BestMatchAgrees", "Score", "Fallback"}
  BY ReasonIsKnown DEF SearchInv
<1> QED BY <1>1, <1>2, <1>3, <1>4, <1>5 DEF Finder!TypeOK

LEMMA CutStageIsFair ==
  ASSUME ImageOk, StageInv, SearchInv
  PROVE  CutIsFair
<1> SUFFICES ASSUME pc \in Stages PROVE Finder!CutIsFair
  BY DEF CutIsFair, Searching, Stages
<1>1. Finder!TypeOK
  BY SearchIsTyped
<1> DEFINE keptAt == {kept[k].address : k \in DOMAIN kept}
           dropped == {c \in Finder!Range(Finder!Candidates) : c.address \notin keptAt}
<1>2. ASSUME Refined
      PROVE  /\ \A c \in dropped : \A k \in DOMAIN kept : c.votes < kept[k].votes
             /\ dropped # {} => Len(kept) >= KeepTarget /\ ~input.deep
  <2> DEFINE m == Len(kept)
             n == Len(Cands)
  <2>1. /\ Cands \in Seq(Finder!Candidate) /\ m \in 1..n /\ n \in Nat
        /\ DOMAIN kept = 1..m /\ \A i \in 1..m : kept[i] = Cands[i]
        /\ \A i \in m + 1 .. n, k \in 1..m : Cands[i].votes < Cands[k].votes
        /\ m < n => m >= KeepTarget /\ ~input.deep
    BY <1>2, KeptFacts DEF KeptFirst
  <2> HIDE DEF m, n
  <2>2. ASSUME NEW c \in dropped PROVE \E i \in m + 1 .. n : c = Cands[i]
    <3>1. c \in Finder!Range(Cands) /\ \A k \in DOMAIN kept : c.address # kept[k].address
      BY <2>2 DEF Cands
    <3>2. PICK i \in DOMAIN Cands : c = Cands[i]
      BY <3>1 DEF Finder!Range
    <3>3. i \in 1..n
      BY <2>1, <3>2 DEF n
    <3>4. i \notin 1..m
      BY <2>1, <3>1, <3>2
    <3>5. i \in m + 1 .. n
      BY <2>1, <3>3, <3>4
    <3> QED BY <3>2, <3>5
  <2> HIDE DEF dropped
  <2>3. ASSUME NEW c \in dropped, NEW k \in DOMAIN kept PROVE c.votes < kept[k].votes
    <3>1. PICK i \in m + 1 .. n : c = Cands[i]
      BY <2>2
    <3>2. k \in 1..m /\ kept[k] = Cands[k]
      BY <2>1
    <3> QED BY <2>1, <3>1, <3>2
  <2>4. dropped # {} => m < n
    <3> SUFFICES ASSUME NEW c \in dropped PROVE m < n
      OBVIOUS
    <3>1. PICK i \in m + 1 .. n : c = Cands[i]
      BY <2>2
    <3>2. m \in Int /\ n \in Int
      BY <2>1
    <3> QED BY <3>1, <3>2
  <2> QED BY <2>1, <2>3, <2>4 DEF m
<1> QED BY <1>1, <1>2 DEF Finder!CutIsFair, Refined

\* kept_count: for every threshold, image and table the cut keeps all of the
\* candidates with a number of votes or none, keeps KeepTarget before it drops
\* any, and drops none in deep mode; and the search's values have their types.
THEOREM CutIsAlwaysFair == Spec => []CutIsFair
<1>1. ImageOk /\ StageInv /\ SearchInv => CutIsFair
  BY CutStageIsFair
<1> QED BY <1>1, ImageHolds, StageHolds, SearchHolds, PTL

\* The score that decides: the greatest, which the first in rank has.
Scores == {0} \cup {scored[k].score : k \in DOMAIN scored}

LEMMA TopFacts ==
  ASSUME ImageOk, StageInv, SearchInv, pc \in {"selecting", "done"}
  PROVE  /\ Finder!TopScore \in Nat
         /\ \A k \in 1..Len(scored) :
              scored[k].score \in Nat /\ scored[k].score <= Finder!TopScore
         /\ Finder!TopScore = 0 => Finder!BestScoreAddress = Finder!NoAddress
         /\ Finder!TopScore # 0 =>
              \E k \in 1..Len(scored) :
                /\ scored[k].score = Finder!TopScore
                /\ \A l \in 1..Len(scored) : scored[l].score = Finder!TopScore => k <= l
                /\ Finder!BestScoreAddress = scored[k].address
<1> DEFINE n == Len(scored)
           f == [k \in 1..n |-> scored[k].score]
           top == Finder!TopScore
           S == {k \in DOMAIN scored : scored[k].score = Finder!TopScore}
<1>1. /\ scored \in Seq(Finder!Scored) /\ n \in Nat /\ DOMAIN scored = 1..n
  BY ScoredFacts
<1>2. \A k \in 1..n : scored[k].score \in Nat
  <2>1. \A k \in 1..n : scored[k] \in Finder!Scored
    BY <1>1
  <2> QED BY <2>1, ConstantFacts DEF Finder!Scored
<1>3. IsFiniteSet(Scores)
  <2>1. IsFiniteSet(1..n) /\ f = [k \in 1..n |-> f[k]]
    BY <1>1, FS_Interval
  <2>2. Scores = {f[k] : k \in 1..n} \cup {0}
    BY <1>1 DEF Scores
  <2> HIDE DEF f, n
  <2>3. IsFiniteSet({f[k] : k \in 1..n})
    BY <2>1, ImageIsFinite
  <2> QED BY <2>2, <2>3, FS_AddElement
<1>4. Scores \subseteq Nat /\ Scores # {}
  BY <1>1, <1>2 DEF Scores
<1>5. top = Finder!Max(Scores)
  BY DEF Finder!TopScore, Scores
<1> HIDE DEF top
<1>6. top \in Scores /\ \A x \in Scores : x <= top
  <2>1. Scores \subseteq Int
    BY <1>4
  <2> QED BY <1>3, <1>4, <1>5, <2>1, FinderMax
<1>7. \A k \in 1..n : scored[k].score <= top
  <2>1. \A k \in 1..n : scored[k].score \in Scores
    BY <1>1 DEF Scores
  <2> QED BY <1>6, <2>1
<1>8. top = 0 => Finder!BestScoreAddress = Finder!NoAddress
  BY DEF Finder!BestScoreAddress, top
<1>9. ASSUME top # 0
      PROVE  \E k \in 1..n : /\ scored[k].score = top
                             /\ \A l \in 1..n : scored[l].score = top => k <= l
                             /\ Finder!BestScoreAddress = scored[k].address
  <2>1. \A k : k \in S <=> k \in 1..n /\ scored[k].score = top
    BY <1>1 DEF top
  <2>2. Finder!BestScoreAddress = scored[Finder!Min(S)].address
    BY <1>9 DEF Finder!BestScoreAddress, top
  <2> HIDE DEF S, n
  <2>3. S \subseteq 1..n /\ S # {}
    <3>1. \E k \in DOMAIN scored : scored[k].score = top
      BY <1>6, <1>9 DEF Scores
    <3> QED BY <1>1, <2>1, <3>1
  <2>4. IsFiniteSet(S) /\ S \subseteq Int
    <3>1. IsFiniteSet(1..n) /\ 1..n \subseteq Int
      BY <1>1, FS_Interval
    <3> QED BY <2>3, <3>1, FS_Subset
  <2>5. Finder!Min(S) \in S /\ \A x \in S : Finder!Min(S) <= x
    BY <2>3, <2>4, FinderMin
  <2> QED BY <2>1, <2>2, <2>5
<1> QED BY <1>2, <1>4, <1>6, <1>7, <1>8, <1>9 DEF top

-----------------------------------------------------------------------------
\* The list of candidates by score.

Outranks(k, l) == \/ scored[k].score > scored[l].score
                  \/ scored[k].score = scored[l].score /\ k < l

RankOrder ==
  [k \in 1..Finder!Cardinality(DOMAIN scored) |->
     CHOOSE x \in DOMAIN scored :
       Finder!Cardinality({y \in DOMAIN scored : Outranks(y, x)}) = k - 1]

\* It holds every scored candidate once, the greater scores first and, of
\* equal scores, those with more votes.
LEMMA RankedSorts ==
  ASSUME ImageOk, StageInv, SearchInv, pc \in {"selecting", "done"}
  PROVE  LET n == Len(scored)
         IN  /\ DOMAIN Finder!Ranked = 1..n
             /\ \A i \in 1..n : /\ RankOrder[i] \in 1..n
                                /\ Finder!Ranked[i] = scored[RankOrder[i]]
             /\ \A i, j \in 1..n : i < j => Outranks(RankOrder[i], RankOrder[j])
             /\ \A k \in 1..n : \E i \in 1..n : RankOrder[i] = k
<1> DEFINE n == Len(scored)
           S == 1..n
           T == {p \in S \X S : Outranks(p[1], p[2])}
           order == RankOrder
<1>1. /\ n \in Nat /\ DOMAIN scored = S
      /\ \A k \in S : scored[k].score \in Nat
  BY ScoredFacts, TopFacts
<1>2. IsFiniteSet(S) /\ Cardinality(S) = n
  <2>1. n \in Nat
    BY <1>1
  <2> HIDE DEF n
  <2>2. /\ 1 \in Int /\ n \in Int
        /\ (IF 1 > n THEN 0 ELSE n - 1 + 1) = n
    BY <2>1
  <2> QED BY <2>2, FS_Interval
<1>3. order = [k \in 1..Finder!Cardinality(S) |->
                 CHOOSE x \in S : Finder!Cardinality({y \in S : Outranks(y, x)}) = k - 1]
  BY <1>1 DEF RankOrder
<1>4. Finder!Ranked = [k \in S |-> scored[order[k]]]
  BY <1>1 DEF Finder!Ranked, Finder!Sorted, Outranks, RankOrder
<1> HIDE DEF n, order
<1>5. StrictOrder(T, S)
  <2>1. \A x, y \in S : <<x, y>> \in T <=> Outranks(x, y)
    OBVIOUS
  <2>2. \A x \in S : x \in Int /\ scored[x].score \in Int
    BY <1>1
  <2> HIDE DEF T, S
  <2>3. ASSUME NEW x \in S PROVE ~Outranks(x, x)
    BY <2>2 DEF Outranks
  <2>4. ASSUME NEW x \in S, NEW y \in S, x # y PROVE Outranks(x, y) \/ Outranks(y, x)
    BY <2>2, <2>4 DEF Outranks
  <2>5. ASSUME NEW x \in S, NEW y \in S, NEW z \in S, Outranks(x, y), Outranks(y, z)
        PROVE  Outranks(x, z)
    BY <2>2, <2>5 DEF Outranks
  <2> QED BY <2>1, <2>3, <2>4, <2>5 DEF StrictOrder
<1>6. ASSUME NEW k \in 1..n
      PROVE  order[k] \in S /\ Cardinality(Before(T, S, order[k])) = k - 1
  <2>1. \A x \in S : {y \in S : Outranks(y, x)} = Before(T, S, x)
    BY DEF Before
  <2>2. k - 1 \in 0..Cardinality(S) - 1
    BY <1>1, <1>2
  <2> HIDE DEF T, S
  <2>3. \E x \in S : Cardinality(Before(T, S, x)) = k - 1
    BY <1>2, <1>5, <2>2, RankIsTaken
  <2>4. \E x \in S : Finder!Cardinality({y \in S : Outranks(y, x)}) = k - 1
    BY <2>1, <2>3, Links
  <2>5. order[k] = CHOOSE x \in S :
                     Finder!Cardinality({y \in S : Outranks(y, x)}) = k - 1
    BY <1>2, <1>3, Links
  <2>6. order[k] \in S /\ Finder!Cardinality({y \in S : Outranks(y, order[k])}) = k - 1
    BY <2>4, <2>5
  <2> QED BY <2>1, <2>6, Links
<1>7. DOMAIN order = 1..n
  BY <1>2, <1>3, Links
<1> HIDE DEF T
<1>8. SortedBy(order, T, S)
  <2>1. /\ DOMAIN order = 1..Cardinality(S)
        /\ \A k \in 1..Cardinality(S) :
             order[k] \in S /\ Cardinality(Before(T, S, order[k])) = k - 1
    BY <1>2, <1>6, <1>7
  <2> HIDE DEF S
  <2> QED BY <1>2, <1>5, <2>1, RanksSort
<1>9. \A i, j \in 1..n : i < j => Outranks(order[i], order[j])
  BY <1>2, <1>8 DEF SortedBy, T
<1>10. \A k \in S : \E i \in 1..n : order[i] = k
  BY <1>2, <1>8 DEF SortedBy
<1> QED BY <1>4, <1>6, <1>9, <1>10 DEF n, order

LEMMA NobodyScores ==
  ASSUME ImageOk, StageInv, SearchInv, pc \in {"selecting", "done"}
  PROVE  /\ Finder!TopScore = 0 <=> \A k \in DOMAIN scored : scored[k].score = 0
         /\ Best # Finder!NoAddress
         /\ Finder!BestScoreAddress = Finder!NoAddress => Finder!TopScore = 0
<1>1. /\ DOMAIN scored = 1..Len(scored) /\ ImageFacts /\ table \in Tables
      /\ \A i \in 1..Len(scored) : scored[i].address \in Leaves
  BY ScoredFacts, KeptFacts DEF Refined
<1>2. /\ Finder!TopScore \in Nat
      /\ \A k \in 1..Len(scored) :
           scored[k].score \in Nat /\ scored[k].score <= Finder!TopScore
      /\ Finder!TopScore # 0 =>
           \E k \in 1..Len(scored) : scored[k].score = Finder!TopScore
                                     /\ Finder!BestScoreAddress = scored[k].address
  BY TopFacts
<1>3. Finder!TopScore = 0 <=> \A k \in DOMAIN scored : scored[k].score = 0
  <2> DEFINE top == Finder!TopScore
             score(k) == scored[k].score
  <2>1. /\ top \in Nat /\ \A k \in 1..Len(scored) : score(k) \in Nat /\ score(k) <= top
        /\ top # 0 => \E k \in 1..Len(scored) : score(k) = top
    BY <1>2
  <2> HIDE DEF top, score
  <2>2. top = 0 <=> \A k \in 1..Len(scored) : score(k) = 0
    BY <2>1
  <2> QED BY <1>1, <2>2 DEF top, score
<1>4. Best \in Leaves
  BY <1>1, BestIsFirst
<1>5. \A a \in Leaves : a # Finder!NoAddress
  BY <1>1, PeakFacts DEF Leaves
<1>6. ASSUME Finder!TopScore # 0 PROVE Finder!BestScoreAddress # Finder!NoAddress
  BY <1>1, <1>2, <1>5, <1>6
<1> QED BY <1>3, <1>4, <1>5, <1>6

-----------------------------------------------------------------------------
\* The verdict.

\* What each of the four verdicts says.
LEMMA VerdictIs ==
  ASSUME SearchInv, pc = "done"
  PROVE  LET voteBest  == Best
             scoreBest == Finder!BestScoreAddress
             a == scored[Finder!Min(Finder!ValidOnes)].address
             Says(base, confident, reason, exclude) ==
               /\ result.base = base /\ result.confident = confident
               /\ result.reason = reason /\ result.exclude = exclude
         IN  /\ result.candidates = Finder!Ranked
             /\ Finder!OneArrayValid => Says(a, TRUE, "ValidArray", {a})
             /\ ~Finder!OneArrayValid /\ voteBest = scoreBest =>
                  Says(voteBest, TRUE, "BestMatchAgrees", {voteBest})
             /\ ~Finder!OneArrayValid /\ voteBest # scoreBest
                /\ scoreBest # Finder!NoAddress =>
                  Says(scoreBest, FALSE, "Score", {scoreBest})
             /\ ~Finder!OneArrayValid /\ voteBest # scoreBest
                /\ scoreBest = Finder!NoAddress =>
                  Says(voteBest, FALSE, "Fallback", {})
<1> DEFINE scoreBest == Finder!BestScoreAddress
           a == scored[Finder!Min(Finder!ValidOnes)].address
           one == Finder!OneArrayValid
<1>1. result = Finder!Chosen
  BY DEF SearchInv
<1>2. /\ one => result = Finder!Verdict(a, TRUE, "ValidArray", {a})
      /\ ~one /\ Best = scoreBest =>
           result = Finder!Verdict(Best, TRUE, "BestMatchAgrees", {Best})
      /\ ~one /\ Best # scoreBest /\ scoreBest # Finder!NoAddress =>
           result = Finder!Verdict(scoreBest, FALSE, "Score", {scoreBest})
      /\ ~one /\ Best # scoreBest /\ scoreBest = Finder!NoAddress =>
           result = Finder!Verdict(Best, FALSE, "Fallback", {})
  BY <1>1, ChosenIs DEF Best
<1>3. ASSUME NEW b, NEW c, NEW r, NEW e, result = Finder!Verdict(b, c, r, e)
      PROVE  /\ result.base = b /\ result.confident = c /\ result.reason = r
             /\ result.exclude = e /\ result.candidates = Finder!Ranked
  BY <1>3 DEF Finder!Verdict
<1> HIDE DEF scoreBest, a, one
<1>4. one => /\ result.base = a /\ result.confident = TRUE /\ result.reason = "ValidArray"
             /\ result.exclude = {a} /\ result.candidates = Finder!Ranked
  BY <1>2, <1>3, Zenon
<1>5. ~one /\ Best = scoreBest =>
        /\ result.base = Best /\ result.confident = TRUE /\ result.reason = "BestMatchAgrees"
        /\ result.exclude = {Best} /\ result.candidates = Finder!Ranked
  BY <1>2, <1>3, Zenon
<1>6. ~one /\ Best # scoreBest /\ scoreBest # Finder!NoAddress =>
        /\ result.base = scoreBest /\ result.confident = FALSE /\ result.reason = "Score"
        /\ result.exclude = {scoreBest} /\ result.candidates = Finder!Ranked
  BY <1>2, <1>3, Zenon
<1>7. ~one /\ Best # scoreBest /\ scoreBest = Finder!NoAddress =>
        /\ result.base = Best /\ result.confident = FALSE /\ result.reason = "Fallback"
        /\ result.exclude = {} /\ result.candidates = Finder!Ranked
  BY <1>2, <1>3, Zenon
<1> QED BY <1>4, <1>5, <1>6, <1>7, Zenon DEF scoreBest, a, one

\* The least place with a top score is the first in rank.
LEMMA FirstInRank ==
  ASSUME ImageOk, StageInv, SearchInv, pc \in {"selecting", "done"}, Finder!TopScore # 0
  PROVE  /\ Finder!Ranked[1].address = Finder!BestScoreAddress
         /\ Finder!Ranked[1].score = Finder!TopScore /\ Finder!TopScore > 0
<1> DEFINE n == Len(scored)
           top == Finder!TopScore
           score(k) == scored[k].score
           order(i) == RankOrder[i]
<1>1. /\ top \in Nat /\ \A k \in 1..n : score(k) \in Nat /\ score(k) <= top
  BY TopFacts
<1>2. PICK k \in 1..n : /\ score(k) = top
                        /\ \A l \in 1..n : score(l) = top => k <= l
                        /\ Finder!BestScoreAddress = scored[k].address
  BY TopFacts
<1>3. /\ n \in Nat /\ n >= 1
      /\ \A i \in 1..n : order(i) \in 1..n /\ Finder!Ranked[i] = scored[order(i)]
      /\ \A i, j \in 1..n : i < j => \/ score(order(i)) > score(order(j))
                                     \/ score(order(i)) = score(order(j)) /\ order(i) < order(j)
  BY RankedSorts, ScoredFacts DEF Outranks
<1>4. PICK i \in 1..n : order(i) = k
  BY RankedSorts
<1> HIDE DEF n, top, score, order
<1>5. 1 \in 1..n
  BY <1>3
<1>6. order(1) = k
  <2> SUFFICES ASSUME order(1) # k PROVE FALSE
    OBVIOUS
  <2>1. 1 < i
    BY <1>3, <1>4
  <2>2. \/ score(order(1)) > top
        \/ score(order(1)) = top /\ order(1) < k
    BY <1>2, <1>3, <1>4, <1>5, <2>1
  <2>3. order(1) \in 1..n /\ score(order(1)) \in Nat /\ score(order(1)) <= top
    BY <1>1, <1>3, <1>5
  <2>4. order(1) \in Int /\ k \in Int /\ (score(order(1)) = top => k <= order(1))
    BY <1>2, <2>3
  <2> QED BY <1>1, <2>2, <2>3, <2>4
<1>7. Finder!Ranked[1] = scored[k]
  BY <1>3, <1>5, <1>6
<1>8. top > 0
  <2>1. top # 0
    BY DEF top
  <2> QED BY <1>1, <2>1
<1> QED BY <1>2, <1>7, <1>8 DEF top, score

\* compute_candidates: the verdict and the list of candidates, which separate
\* loops produce, agree, whatever the scores: what decides heads the list, and
\* the fallback is taken exactly when nothing could decide.
THEOREM VerdictAgreesWithRanking == Spec => []ScoreDecides
<1>1. ASSUME ImageOk, StageInv, SearchInv PROVE ScoreDecides
  <2> SUFFICES ASSUME pc = "done"
               PROVE  /\ result.reason \in {"Score", "BestMatchAgrees"} =>
                           /\ result.candidates[1].address = result.base
                           /\ result.candidates[1].score > 0
                      /\ result.reason = "Fallback" <=>
                           /\ ~Finder!OneArrayValid
                           /\ \A k \in DOMAIN scored : scored[k].score = 0
    BY DEF ScoreDecides, Finder!ScoreDecides
  <2> DEFINE one == Finder!OneArrayValid
             scoreBest == Finder!BestScoreAddress
             none == \A k \in DOMAIN scored : scored[k].score = 0
  <2>1. /\ result.candidates = Finder!Ranked
        /\ one => result.reason = "ValidArray"
        /\ ~one /\ Best = scoreBest =>
             result.reason = "BestMatchAgrees" /\ result.base = Best
        /\ ~one /\ Best # scoreBest /\ scoreBest # Finder!NoAddress =>
             result.reason = "Score" /\ result.base = scoreBest
        /\ ~one /\ Best # scoreBest /\ scoreBest = Finder!NoAddress =>
             result.reason = "Fallback"
    BY <1>1, VerdictIs
  <2>2. /\ Finder!TopScore = 0 <=> none
        /\ Best # Finder!NoAddress
        /\ scoreBest = Finder!NoAddress => Finder!TopScore = 0
        /\ Finder!TopScore = 0 => scoreBest = Finder!NoAddress
    BY <1>1, NobodyScores, TopFacts
  <2>3. Finder!TopScore # 0 => /\ Finder!Ranked[1].address = scoreBest
                               /\ Finder!Ranked[1].score > 0
    BY <1>1, FirstInRank
  <2> HIDE DEF one, scoreBest, none
  <2>4. result.reason \in {"Score", "BestMatchAgrees"} =>
          Finder!TopScore # 0 /\ result.base = scoreBest
    BY <2>1, <2>2
  <2>5. result.reason = "Fallback" <=> ~one /\ none
    BY <2>1, <2>2
  <2> QED BY <2>1, <2>3, <2>4, <2>5 DEF one, none
<1>2. ImageOk /\ StageInv /\ SearchInv => ScoreDecides
  BY <1>1
<1> QED BY <1>2, ImageHolds, StageHolds, SearchHolds, PTL

\* compute_candidates: "base address found" is never said of a base that
\* another one outvotes or outscores, unless it alone has a valid array.
THEOREM ConfidenceIsEarned == Spec => []ConfidenceEarned
<1>1. ASSUME ImageOk, StageInv, SearchInv PROVE ConfidenceEarned
  <2> SUFFICES ASSUME pc = "done", result.confident
               PROVE  \E k \in DOMAIN scored :
                        /\ scored[k].address = result.base
                        /\ \/ Finder!ValidOnes = {k}
                           \/ \A l \in DOMAIN scored :
                                /\ scored[l].votes <= scored[k].votes
                                /\ scored[l].score <= scored[k].score
    BY DEF ConfidenceEarned, Finder!ConfidenceEarned
  <2>1. /\ DOMAIN scored = 1..Len(scored) /\ Len(scored) \in Nat /\ Len(scored) >= 1
        /\ scored[1].address = Best /\ scored[1].votes = Peak
        /\ \A i \in 1..Len(scored) : scored[i].votes <= Peak
        /\ \A i, j \in 1..Len(scored) : i # j => scored[i].address # scored[j].address
    BY <1>1, ScoredFacts
  <2>2. CASE Finder!OneArrayValid
    <3>1. Finder!ValidOnes \subseteq 1..Len(scored)
      BY <2>1 DEF Finder!ValidOnes
    <3>2. IsFiniteSet(Finder!ValidOnes)
      <4> DEFINE n == Len(scored)
      <4>1. 1 \in Int /\ n \in Int
        BY <2>1
      <4> HIDE DEF n
      <4>2. IsFiniteSet(1..n)
        BY <4>1, FS_Interval
      <4> QED BY <3>1, <4>2, FS_Subset DEF n
    <3>3. Cardinality(Finder!ValidOnes) = 1
      BY <2>2, Links DEF Finder!OneArrayValid
    <3>4. PICK k : Finder!ValidOnes = {k}
      BY <3>2, <3>3, FS_Singleton
    <3>5. k \in 1..Len(scored) /\ {k} \subseteq Int
      BY <3>1, <3>4
    <3>6. Finder!Min({k}) = k
      <4>1. Finder!Min({k}) \in {k}
        BY <3>2, <3>4, <3>5, FinderMin
      <4> QED BY <4>1
    <3>7. result.base = scored[Finder!Min(Finder!ValidOnes)].address
      BY <1>1, <2>2, VerdictIs
    <3> QED BY <2>1, <3>4, <3>5, <3>6, <3>7
  <2>3. CASE ~Finder!OneArrayValid
    <3>1. Best = Finder!BestScoreAddress /\ result.base = Best
      BY <1>1, <2>3, VerdictIs
    <3>2. Finder!TopScore # 0
      BY <1>1, <3>1, NobodyScores, TopFacts
    <3>3. PICK k \in 1..Len(scored) : /\ scored[k].score = Finder!TopScore
                                      /\ scored[k].address = Best
      BY <1>1, <3>1, <3>2, TopFacts
    <3>4. k = 1
      <4>1. 1 \in 1..Len(scored)
        BY <2>1
      <4> QED BY <2>1, <3>3, <4>1
    <3>5. \A l \in 1..Len(scored) : scored[l].score <= Finder!TopScore
      BY <1>1, TopFacts
    <3> QED BY <2>1, <3>1, <3>3, <3>4, <3>5
  <2> QED BY <2>2, <2>3
<1>2. ImageOk /\ StageInv /\ SearchInv => ConfidenceEarned
  BY <1>1
<1> QED BY <1>2, ImageHolds, StageHolds, SearchHolds, PTL

-----------------------------------------------------------------------------
\* The other bases that are printed.

\* Places in the list of candidates, in order.
PlaceOrder(W) ==
  [k \in 1..Finder!Cardinality(W) |->
     CHOOSE x \in W : Finder!Cardinality({y \in W : y < x}) = k - 1]

LEMMA PlacesSort ==
  ASSUME NEW W, IsFiniteSet(W), W \subseteq Int
  PROVE  LET N == Cardinality(W)
         IN  /\ N \in Nat
             /\ \A k \in 1..N : PlaceOrder(W)[k] \in W
             /\ \A k, l \in 1..N : k < l => PlaceOrder(W)[k] < PlaceOrder(W)[l]
             /\ \A x \in W : \E k \in 1..N : PlaceOrder(W)[k] = x
<1> DEFINE T == {p \in W \X W : p[1] < p[2]}
           N == Cardinality(W)
           order == PlaceOrder(W)
<1>1. IsFiniteSet(W) /\ N \in Nat /\ \A x \in W : x \in Int
  BY FS_CardinalityType
<1>2. order = [k \in 1..Finder!Cardinality(W) |->
                 CHOOSE x \in W : Finder!Cardinality({y \in W : y < x}) = k - 1]
  BY DEF PlaceOrder
<1>3. DOMAIN order = 1..N
  BY <1>2, Links
<1> HIDE DEF order
<1>4. StrictOrder(T, W)
  <2>1. \A x, y \in W : <<x, y>> \in T <=> x < y
    OBVIOUS
  <2> HIDE DEF T
  <2>2. ASSUME NEW x \in W PROVE ~(x < x)
    BY <1>1
  <2>3. ASSUME NEW x \in W, NEW y \in W, x # y PROVE x < y \/ y < x
    BY <1>1, <2>3
  <2>4. ASSUME NEW x \in W, NEW y \in W, NEW z \in W, x < y, y < z PROVE x < z
    BY <1>1, <2>4
  <2> QED BY <2>1, <2>2, <2>3, <2>4 DEF StrictOrder
<1>5. ASSUME NEW k \in 1..N
      PROVE  order[k] \in W /\ Cardinality(Before(T, W, order[k])) = k - 1
  <2>1. \A x \in W : {y \in W : y < x} = Before(T, W, x)
    BY DEF Before
  <2>2. k - 1 \in 0..Cardinality(W) - 1
    BY <1>1
  <2> HIDE DEF T
  <2>3. \E x \in W : Cardinality(Before(T, W, x)) = k - 1
    <3>1. IsFiniteSet(W)
      OBVIOUS
    <3> QED BY ONLY <1>4, <2>2, <3>1, RankIsTaken
  <2>4. \E x \in W : Finder!Cardinality({y \in W : y < x}) = k - 1
    BY <2>1, <2>3, Links
  <2>5. order[k] = CHOOSE x \in W : Finder!Cardinality({y \in W : y < x}) = k - 1
    BY <1>2, Links
  <2>6. order[k] \in W /\ Finder!Cardinality({y \in W : y < order[k]}) = k - 1
    BY <2>4, <2>5
  <2> QED BY <2>1, <2>6, Links
<1> HIDE DEF T
<1>6. SortedBy(order, T, W)
  BY <1>1, <1>3, <1>4, <1>5, RanksSort
<1>7. \A k, l \in 1..N : k < l => order[k] < order[l]
  BY <1>6 DEF SortedBy, T
<1>8. \A x \in W : \E k \in 1..N : order[k] = x
  BY <1>6 DEF SortedBy
<1> QED BY <1>1, <1>5, <1>7, <1>8 DEF order

\* What MoreAreOthers says: bases are those of the best candidates other than
\* base that scored, each once, and M at most.
BestOthers(R, base, bases, M) ==
  LET others == {c \in {R[k] : k \in DOMAIN R} : c.score > 0 /\ c.address # base}
      listed == {c \in others : \E k \in DOMAIN bases : bases[k] = c.address}
  IN  /\ Len(bases) = Cardinality(listed)
      /\ Len(bases) = M \/ listed = others
      /\ Len(bases) <= M
      /\ \A c \in listed, d \in others \ listed : c.score >= d.score

\* bases are those in the first m, M at most, of the places W in order, where
\* the candidates other than base are that scored.
Selected(n, R, base, W, N, order, M, m, bases) ==
  /\ n \in Nat /\ DOMAIN R = 1..n /\ \A i \in 1..n : R[i].score \in Nat
  /\ \A i, j \in 1..n : i # j => R[i].address # R[j].address
  /\ \A i, j \in 1..n : i < j => R[i].score >= R[j].score
  /\ W \in SUBSET (1..n)
  /\ \A i \in 1..n : i \in W <=> R[i].score > 0 /\ R[i].address # base
  /\ N \in Nat /\ \A k \in 1..N : order[k] \in W
  /\ \A k, l \in 1..N : k < l => order[k] < order[l]
  /\ \A x \in W : \E k \in 1..N : order[k] = x
  /\ M \in Nat /\ m \in Nat /\ m <= N /\ m <= M /\ (m = N \/ m = M)
  /\ bases \in Seq(Nat) /\ Len(bases) = m
  /\ \A k \in 1..m : bases[k] = R[order[k]].address

LEMMA FirstAreBest ==
  ASSUME NEW n, NEW R, NEW base, NEW W, NEW N, NEW order, NEW M, NEW m, NEW bases,
         Selected(n, R, base, W, N, order, M, m, bases)
  PROVE  BestOthers(R, base, bases, M)
<1> DEFINE others == {c \in {R[k] : k \in DOMAIN R} : c.score > 0 /\ c.address # base}
           listed == {c \in others : \E k \in DOMAIN bases : bases[k] = c.address}
           f == [k \in 1..m |-> R[order[k]]]
<1> USE DEF Selected
<1>1. DOMAIN bases = 1..m
  OBVIOUS
<1>2. ASSUME NEW c PROVE c \in others <=> \E i \in W : c = R[i]
  <2>1. c \in {R[k] : k \in DOMAIN R} <=> \E i \in 1..n : c = R[i]
    OBVIOUS
  <2> HIDE DEF others
  <2>2. \A i \in W : i \in 1..n
    OBVIOUS
  <2>3. c \in others <=> c \in {R[k] : k \in DOMAIN R} /\ c.score > 0 /\ c.address # base
    BY DEF others
  <2> QED BY <2>1, <2>2, <2>3
<1>3. ASSUME NEW i \in W, NEW j \in W, R[i].address = R[j].address PROVE i = j
  BY <1>3
<1>4. ASSUME NEW c PROVE c \in listed <=> \E k \in 1..m : c = R[order[k]]
  <2> HIDE DEF others
  <2>1. ASSUME NEW k \in 1..m PROVE k \in 1..N /\ order[k] \in W
    OBVIOUS
  <2>2. ASSUME NEW k \in 1..m, c = R[order[k]] PROVE c \in listed
    <3>1. c \in others
      BY <1>2, <2>1, <2>2
    <3>2. bases[k] = c.address
      BY <2>2
    <3> QED BY <1>1, <3>1, <3>2
  <2>3. ASSUME c \in listed PROVE \E k \in 1..m : c = R[order[k]]
    <3>1. PICK k \in 1..m : bases[k] = c.address
      BY <1>1, <2>3
    <3>2. PICK i \in W : c = R[i]
      BY <1>2, <2>3
    <3>3. R[order[k]].address = R[i].address
      BY <3>1, <3>2
    <3>4. order[k] = i
      BY <1>3, <2>1, <3>3
    <3> QED BY <3>2, <3>4
  <2> QED BY <2>2, <2>3
<1> HIDE DEF others, listed
<1>5. Cardinality(listed) = m
  <2>1. listed = {f[k] : k \in 1..m}
    BY <1>4
  <2>2. ASSUME NEW k \in 1..m, NEW l \in 1..m, f[k] = f[l] PROVE k = l
    <3>1. k \in 1..N /\ l \in 1..N
      OBVIOUS
    <3>2. order[k] = order[l]
      BY <1>3, <2>2, <3>1
    <3>3. \A x \in W : ~(x < x)
      OBVIOUS
    <3>4. ~(k < l) /\ ~(l < k)
      BY <3>1, <3>2, <3>3
    <3> QED BY <3>4
  <2>3. IsFiniteSet(1..m) /\ Cardinality(1..m) = m
    <3>1. 1 \in Int /\ m \in Int /\ (IF 1 > m THEN 0 ELSE m - 1 + 1) = m
      OBVIOUS
    <3> QED BY <3>1, FS_Interval
  <2>4. f = [k \in 1..m |-> f[k]]
    OBVIOUS
  <2> HIDE DEF f
  <2>5. Cardinality({f[k] : k \in 1..m}) = Cardinality(1..m)
    <3> DEFINE D == 1..m
    <3>1. IsFiniteSet(D) /\ f = [k \in D |-> f[k]] /\ \A k, l \in D : f[k] = f[l] => k = l
      BY <2>2, <2>3, <2>4
    <3> HIDE DEF D
    <3>2. Cardinality({f[k] : k \in D}) = Cardinality(D)
      BY ONLY <3>1, ImageIsFinite
    <3> QED BY <3>2 DEF D
  <2> QED BY <2>1, <2>3, <2>5
<1>6. ASSUME m = N PROVE listed = others
  <2>1. ASSUME NEW c \in others PROVE c \in listed
    <3>1. PICK i \in W : c = R[i]
      BY <1>2
    <3>2. PICK k \in 1..N : order[k] = i
      OBVIOUS
    <3> QED BY <1>4, <1>6, <3>1, <3>2
  <2>2. \A c \in listed : c \in others
    BY DEF listed
  <2> QED BY <2>1, <2>2
<1>7. ASSUME NEW c \in listed, NEW d \in others \ listed PROVE c.score >= d.score
  <2>1. PICK k \in 1..m : c = R[order[k]]
    BY <1>4
  <2>2. PICK i \in W : d = R[i]
    BY <1>2
  <2>3. PICK l \in 1..N : order[l] = i
    OBVIOUS
  <2>4. ~(l <= m)
    BY <1>4, <2>2, <2>3
  <2>5. k \in 1..N /\ k < l
    BY <2>4
  <2>6. order[k] < order[l] /\ order[k] \in 1..n /\ order[l] \in 1..n
    BY <2>5
  <2> QED BY <2>1, <2>2, <2>3, <2>6
<1> QED BY <1>5, <1>6, <1>7 DEF others, listed, BestOthers

-----------------------------------------------------------------------------
\* The answer.

\* MoreAreOthers, of any answer and result.
ListsTheBest(a, r) ==
  a.base = r.base /\ BestOthers(r.candidates, r.base, a.more, MoreMax)

LEMMA MoreIs ==
  /\ More = [k \in 1..Finder!Min({Cardinality(WorthAt), MoreMax}) |->
               result.candidates[PlaceOrder(WorthAt)[k]]]
  /\ MoreAreOthers <=> (answer.mode = "base" => ListsTheBest(answer, result))
<1>1. More = [k \in 1..Finder!Min({Cardinality(WorthAt), MoreMax}) |->
                result.candidates[PlaceOrder(WorthAt)[k]]]
  BY DEF More, FirstOf, Finder!Sorted, PlaceOrder
<1>2. MoreAreOthers <=> (answer.mode = "base" => ListsTheBest(answer, result))
  BY DEF MoreAreOthers, ListsTheBest, BestOthers
<1> QED BY <1>1, <1>2

\* Every scored base has an address that printing it in 32 bits does not change.
LEMMA PrintedWhole ==
  ASSUME ImageOk, SearchInv, pc \in {"selecting", "done"}, NEW a \in Leaves
  PROVE  a \in Nat /\ Hex(a) = a
<1>1. a \in Nat /\ (args.arch = "32" => a < WordMod)
  BY KeptFacts, PeakFacts DEF Refined, Leaves
<1>2. WordMod \in Nat \ {0}
  BY ConstantFacts
<1>3. a < WordMod => a % WordMod = a
  <2>1. \A x, y \in Nat : x < y => x % y = x
    OBVIOUS
  <2> QED BY <1>1, <1>2, <2>1
<1> QED BY <1>1, <1>3 DEF Hex

\* What is worth printing: the others that scored.
LEMMA WorthIs ==
  ASSUME ImageOk, StageInv, SearchInv, pc = "done"
  PROVE  LET n == Len(scored)
             R == result.candidates
         IN  /\ n \in Nat /\ DOMAIN R = 1..n
             /\ \A i \in 1..n : R[i].score \in Nat /\ R[i].address \in Leaves
             /\ \A i, j \in 1..n : i # j => R[i].address # R[j].address
             /\ \A i, j \in 1..n : i < j => R[i].score >= R[j].score
             /\ result.base \in Leaves
             /\ WorthAt \in SUBSET (1..n)
             /\ \A i \in 1..n :
                  i \in WorthAt <=> R[i].score > 0 /\ R[i].address # result.base
<1> DEFINE n == Len(scored)
           R == result.candidates
           address(k) == scored[k].address
           score(k) == scored[k].score
           order(i) == RankOrder[i]
<1>1. /\ n \in Nat /\ DOMAIN R = 1..n
      /\ \A i \in 1..n : order(i) \in 1..n /\ R[i] = scored[order(i)]
      /\ \A i, j \in 1..n : i < j => \/ score(order(i)) > score(order(j))
                                     \/ score(order(i)) = score(order(j)) /\ order(i) < order(j)
  BY RankedSorts, VerdictIs, ScoredFacts DEF Outranks
<1>2. /\ \A k \in 1..n : score(k) \in Nat /\ address(k) \in Leaves
      /\ \A k, l \in 1..n : k # l => address(k) # address(l)
  BY TopFacts, ScoredFacts
<1>3. \A i \in 1..n : R[i].score = score(order(i)) /\ R[i].address = address(order(i))
  BY <1>1
<1>4. /\ result.base \in Leaves
      /\ \/ result.exclude = {result.base}
         \/ result.exclude = {} /\ \A k \in DOMAIN scored : scored[k].score = 0
  <2> DEFINE one == Finder!OneArrayValid
             scoreBest == Finder!BestScoreAddress
             a == scored[Finder!Min(Finder!ValidOnes)].address
             none == \A k \in DOMAIN scored : scored[k].score = 0
  <2>1. /\ one => result.base = a /\ result.exclude = {a}
        /\ ~one /\ Best = scoreBest => result.base = Best /\ result.exclude = {Best}
        /\ ~one /\ Best # scoreBest /\ scoreBest # Finder!NoAddress =>
             result.base = scoreBest /\ result.exclude = {scoreBest}
        /\ ~one /\ Best # scoreBest /\ scoreBest = Finder!NoAddress =>
             result.base = Best /\ result.exclude = {}
    BY VerdictIs
  <2>2. scoreBest = Finder!NoAddress => none
    BY NobodyScores
  <2>3. scoreBest # Finder!NoAddress => scoreBest \in Leaves
    <3>1. scoreBest # Finder!NoAddress => \E k \in 1..n : scoreBest = scored[k].address
      BY TopFacts
    <3> QED BY <1>2, <3>1
  <2>4. Best \in Leaves
    BY KeptFacts, BestIsFirst DEF Refined
  <2>5. one => a \in Leaves
    <3> SUFFICES ASSUME one PROVE Finder!Min(Finder!ValidOnes) \in 1..n
      BY <1>2
    <3>1. DOMAIN scored = 1..n /\ 1 \in Int /\ n \in Int
      BY <1>1, ScoredFacts
    <3>2. Finder!ValidOnes \subseteq 1..n
      BY <3>1 DEF Finder!ValidOnes
    <3> HIDE DEF n
    <3>3. IsFiniteSet(Finder!ValidOnes)
      <4>1. IsFiniteSet(1..n)
        BY <3>1, FS_Interval
      <4> QED BY <3>2, <4>1, FS_Subset
    <3>4. Cardinality(Finder!ValidOnes) = 1
      BY Links DEF Finder!OneArrayValid
    <3>5. Finder!ValidOnes # {}
      BY <3>4, FS_EmptySet
    <3>6. Finder!ValidOnes \subseteq Int
      BY <3>2
    <3> QED BY <3>2, <3>3, <3>5, <3>6, FinderMin
  <2> HIDE DEF one, scoreBest, a, none
  <2> QED BY <2>1, <2>2, <2>3, <2>4, <2>5 DEF none
<1>5. /\ WorthAt \in SUBSET (1..n)
      /\ \A i \in 1..n : i \in WorthAt <=> /\ R[i].address \notin result.exclude
                                           /\ R[i].score > 0
  BY <1>1 DEF WorthAt, Worth
<1>6. (\A k \in DOMAIN scored : scored[k].score = 0) => \A k \in 1..n : score(k) = 0
  BY ScoredFacts
<1> HIDE DEF n, R, address, score, order
<1>7. ASSUME NEW i \in 1..n, NEW j \in 1..n, i < j PROVE order(i) # order(j)
  <2>1. order(i) \in 1..n /\ order(j) \in 1..n /\ score(order(i)) \in Nat
    BY <1>1, <1>2
  <2>2. \/ score(order(i)) > score(order(j))
        \/ score(order(i)) = score(order(j)) /\ order(i) < order(j)
    BY <1>1, <1>7
  <2>3. ~(order(i) < order(i)) /\ ~(score(order(i)) > score(order(i)))
    BY <2>1
  <2> QED BY <2>2, <2>3
<1>8. \A i, j \in 1..n : i # j => R[i].address # R[j].address
  <2> SUFFICES ASSUME NEW i \in 1..n, NEW j \in 1..n, i # j
               PROVE  address(order(i)) # address(order(j))
    BY <1>3
  <2>1. i < j \/ j < i
    BY <1>1
  <2>2. order(i) # order(j)
    BY <1>7, <2>1
  <2> QED BY <1>1, <1>2, <2>2
<1>9. \A i, j \in 1..n : i < j => R[i].score >= R[j].score
  <2> SUFFICES ASSUME NEW i \in 1..n, NEW j \in 1..n, i < j
               PROVE  score(order(i)) >= score(order(j))
    BY <1>3
  <2>1. score(order(i)) \in Nat /\ score(order(j)) \in Nat
    BY <1>1, <1>2
  <2>2. score(order(i)) > score(order(j)) \/ score(order(i)) = score(order(j))
    BY <1>1
  <2> QED BY <2>1, <2>2
<1>10. \A i \in 1..n : R[i].score \in Nat /\ R[i].address \in Leaves
  <2>1. \A i \in 1..n : order(i) \in 1..n
    BY <1>1
  <2> QED BY <1>2, <1>3, <2>1
<1>11. \A i \in 1..n : i \in WorthAt <=> R[i].score > 0 /\ R[i].address # result.base
  <2>1. CASE result.exclude = {result.base}
    <3>1. \A x : x \notin result.exclude <=> x # result.base
      BY <2>1
    <3> QED BY <1>5, <3>1
  <2>2. CASE \A k \in 1..n : score(k) = 0
    <3>1. \A i \in 1..n : ~(R[i].score > 0)
      BY <1>1, <1>3, <2>2
    <3> QED BY <1>5, <3>1
  <2> QED BY <1>4, <1>6, <2>1, <2>2
<1> QED BY <1>1, <1>4, <1>5, <1>8, <1>9, <1>10, <1>11 DEF n, R

-----------------------------------------------------------------------------
\* Printing the answer, and keeping it.

LEMMA PrintListsTheBest ==
  ASSUME ImageOk, StageInv, SearchInv, PrintBaseAddress
  PROVE  result' = result /\ ListsTheBest(answer', result)
<1> DEFINE n == Len(scored)
           R == result.candidates
           W == WorthAt
           N == Cardinality(W)
           m == Finder!Min({N, MoreMax})
           order == PlaceOrder(W)
           bases == [k \in 1..m |-> R[order[k]].address]
<1>1. /\ pc = "done" /\ result' = result
      /\ answer'.base = Hex(result.base)
      /\ answer'.more = [k \in DOMAIN More |-> Hex(More[k].address)]
  BY DEF PrintBaseAddress, finder, search
<1>2. /\ n \in Nat /\ DOMAIN R = 1..n
      /\ \A i \in 1..n : R[i].score \in Nat /\ R[i].address \in Leaves
      /\ \A i, j \in 1..n : i # j => R[i].address # R[j].address
      /\ \A i, j \in 1..n : i < j => R[i].score >= R[j].score
      /\ result.base \in Leaves
      /\ W \in SUBSET (1..n)
      /\ \A i \in 1..n : i \in W <=> R[i].score > 0 /\ R[i].address # result.base
  BY <1>1, WorthIs
<1>3. More = [k \in 1..m |-> R[order[k]]]
  BY MoreIs
<1>4. \A a \in Leaves : a \in Nat /\ Hex(a) = a
  BY <1>1, PrintedWhole
<1> HIDE DEF n, R, order, W
<1>5. IsFiniteSet(W) /\ W \subseteq Int
  <2>1. IsFiniteSet(1..n)
    <3>1. 1 \in Int /\ n \in Int
      BY <1>2
    <3> QED BY <3>1, FS_Interval
  <2>2. IsFiniteSet(W)
    BY <1>2, <2>1, FS_Subset
  <2> QED BY <1>2, <2>2
<1>6. /\ N \in Nat
      /\ \A k \in 1..N : order[k] \in W
      /\ \A k, l \in 1..N : k < l => order[k] < order[l]
      /\ \A x \in W : \E k \in 1..N : order[k] = x
  BY <1>5, PlacesSort DEF order
<1>7. m \in Nat /\ m <= N /\ m <= MoreMax /\ (m = N \/ m = MoreMax) /\ MoreMax \in Nat
  <2>1. MoreMax \in Nat
    BY CliAssumption
  <2> DEFINE Ends == {N, MoreMax}
  <2>2. Ends \subseteq Int /\ Ends # {} /\ IsFiniteSet(Ends)
    <3>1. IsFiniteSet({MoreMax})
      BY FS_Singleton
    <3>2. Ends = {MoreMax} \cup {N}
      OBVIOUS
    <3>3. IsFiniteSet({MoreMax} \cup {N})
      BY <3>1, FS_AddElement
    <3>4. Ends \subseteq Int
      BY <1>6, <2>1
    <3> QED BY <3>2, <3>3, <3>4
  <2> HIDE DEF Ends
  <2>3. Finder!Min(Ends) \in Ends /\ \A x \in Ends : Finder!Min(Ends) <= x
    BY <2>2, FinderMin
  <2> QED BY <1>6, <2>1, <2>3 DEF Ends
<1> HIDE DEF N, m
<1>8. \A k \in 1..m : order[k] \in 1..n /\ R[order[k]].address \in Leaves
  <2> SUFFICES ASSUME NEW k \in 1..m PROVE order[k] \in 1..n
    BY <1>2
  <2>1. k \in 1..N
    BY <1>6, <1>7
  <2> QED BY <1>2, <1>6, <2>1
<1>9. answer'.more = bases
  <2>1. DOMAIN More = 1..m /\ \A k \in 1..m : More[k] = R[order[k]]
    BY <1>3
  <2>2. \A k \in 1..m : Hex(More[k].address) = R[order[k]].address
    BY <1>4, <1>8, <2>1
  <2>3. answer'.more = [k \in 1..m |-> Hex(More[k].address)]
    BY <1>1, <2>1
  <2> QED BY <2>2, <2>3
<1>10. bases \in Seq(Nat) /\ Len(bases) = m
  <2>1. bases \in [1..m -> Nat]
    BY <1>4, <1>8
  <2> QED BY <1>7, <2>1
<1>11. \A k \in 1..m : bases[k] = R[order[k]].address
  OBVIOUS
<1> HIDE DEF bases
<1>12. \A i \in 1..n : R[i].score \in Nat
  BY <1>2
<1>13. Selected(n, R, result.base, W, N, order, MoreMax, m, bases)
  BY <1>2, <1>6, <1>7, <1>10, <1>11, <1>12 DEF Selected
<1>14. BestOthers(R, result.base, bases, MoreMax)
  BY <1>13, FirstAreBest
<1>15. answer'.base = result.base
  BY <1>1, <1>2, <1>4
<1> QED BY <1>1, <1>9, <1>14, <1>15 DEF ListsTheBest, R

\* Until it is given there is no answer, and once given it stays.
LEMMA AnswerStays ==
  ASSUME ControlInv, [Next]_vars
  PROVE  \/ PrintBaseAddress
         \/ answer'.mode # "base"
         \/ UNCHANGED <<answer, result>>
<1>1. ASSUME pc # "exit", answer' = answer PROVE answer'.mode # "base"
  BY <1>1 DEF ControlInv, NoAnswer
<1>2. CASE RefuseOptions \/ RefuseFile \/ Load \/ LoadSymbols \/ SymbolsLoaded \/ RefuseSymbols
  <2>1. pc # "exit" /\ answer' = answer
    BY <1>2 DEF RefuseOptions, RefuseFile, Load, LoadSymbols, SymbolsLoaded, RefuseSymbols,
       Fail, program
  <2> QED BY <1>1, <2>1
<1>3. CASE RefuseBase \/ FindUdsPanics \/ StartSearch \/ NoPointsOfInterest \/ Unwind
  <2>1. pc # "exit" /\ answer' = answer
    BY <1>3 DEF RefuseBase, FindUdsPanics, StartSearch, NoPointsOfInterest, Unwind, Fail,
       program
  <2> QED BY <1>1, <2>1
<1>4. CASE FindUds
  BY <1>4 DEF FindUds
<1>5. CASE SearchBaseAddress
  <2>1. pc # "exit" /\ answer' = answer
    BY <1>5, SearchMoves
  <2> QED BY <1>1, <2>1
<1>6. CASE UNCHANGED vars
  BY <1>6 DEF vars, program, finder, search
<1> QED BY <1>2, <1>3, <1>4, <1>5, <1>6 DEF Next, Terminated

\* print_results: "more base addresses to consider" lists the best of the other
\* bases that scored, up to MoreMax of them, none twice and none with an
\* address that printing changed, whatever the candidates and their scores.
THEOREM MoreAreTheBestOthers == Spec => []MoreAreOthers
<1>1. Init => MoreAreOthers
  BY DEF Init, NoAnswer, MoreAreOthers
<1>2. ASSUME ControlInv, ImageOk, StageInv, SearchInv, MoreAreOthers, [Next]_vars
      PROVE  MoreAreOthers'
  <2>1. CASE PrintBaseAddress
    <3>1. result' = result /\ ListsTheBest(answer', result)
      BY <1>2, <2>1, PrintListsTheBest
    <3>2. ListsTheBest(answer', result')
      BY <3>1
    <3> QED BY <3>2 DEF MoreAreOthers, ListsTheBest, BestOthers
  <2>2. CASE answer'.mode # "base"
    BY <2>2 DEF MoreAreOthers
  <2>3. CASE UNCHANGED <<answer, result>>
    BY <1>2, <2>3 DEF MoreAreOthers
  <2> QED BY <1>2, <2>1, <2>2, <2>3, AnswerStays
<1>3. ControlInv /\ ImageOk /\ StageInv /\ SearchInv /\ MoreAreOthers /\ [Next]_vars
        => MoreAreOthers'
  BY <1>2
<1> QED BY <1>1, <1>3, ControlHolds, ImageHolds, StageHolds, SearchHolds, PTL DEF Spec
=============================================================================
