-------------------------- MODULE EndianDetectProofs --------------------------
(***************************************************************************)
(* Proofs about the endianness detector, for every image, pointer size,    *)
(* digit base and pruning interval: the node its peaks are read from is    *)
(* never lost, no peak ever falls, and up to the second pruning its trees  *)
(* are the exact histograms of the image.                                  *)
(***************************************************************************)
EXTENDS EndianDetect, TLAPS, FiniteSetTheorems, WellFoundedInduction

-----------------------------------------------------------------------------
\* Numbers.

LEMMA LeastMember ==
  ASSUME NEW S, S \subseteq Nat, S # {}
  PROVE  \E x \in S : \A y \in S : x <= y
<1>1. PICK x \in S : \A y \in S : ~(<<y, x>> \in OpToRel(<, Nat))
  BY WFMin, NatLessThanWellFounded
<1>2. \A y \in S : ~(y < x)
  BY <1>1 DEF OpToRel
<1>3. \A y \in S : x <= y
  BY <1>2
<1> QED BY <1>3

LEMMA GreatestMember ==
  ASSUME NEW n \in Int, NEW S, S # {}, \A x \in S : x \in Int /\ x <= n
  PROVE  \E x \in S : \A y \in S : y <= x
<1> DEFINE T == {n - x : x \in S}
<1>1. T \subseteq Nat /\ T # {}
  <2>1. \A x \in S : n - x \in Nat
    OBVIOUS
  <2> QED BY <2>1
<1>2. PICK d \in T : \A e \in T : d <= e
  <2> HIDE DEF T
  <2> QED BY <1>1, LeastMember
<1>3. PICK x \in S : d = n - x
  BY <1>2
<1>4. ASSUME NEW y \in S PROVE y <= x
  <2>1. n - x <= n - y
    BY <1>2, <1>3
  <2> QED BY <2>1
<1> QED BY <1>4

\* A value computed in n steps exists.
Computes(f, n, R, x, step) ==
  /\ f \in [0..n -> R]
  /\ f[0] = x /\ \A i \in 1..n : f[i] = step[i][f[i - 1]]

LEMMA Recursion ==
  ASSUME NEW n \in Nat, NEW R, NEW x \in R, NEW step \in [1..n -> [R -> R]]
  PROVE  \E f : Computes(f, n, R, x, step)
<1> DEFINE P(m, f) == f[0] = x /\ \A i \in 1..m : f[i] = step[i][f[i - 1]]
           Bad == {m \in 0..n : ~\E f \in [0..m -> R] : P(m, f)}
<1>1. Bad = {}
  <2> SUFFICES ASSUME Bad # {} PROVE FALSE
    OBVIOUS
  <2>1. PICK m \in Bad : \A l \in Bad : m <= l
    <3>1. Bad \subseteq Nat
      OBVIOUS
    <3> HIDE DEF Bad
    <3> QED BY <3>1, LeastMember
  <2>2. CASE m = 0
    <3>1. [i \in 0..0 |-> x] \in [0..m -> R] /\ P(m, [i \in 0..0 |-> x])
      BY <2>2
    <3> QED BY <3>1
  <2>3. CASE m # 0
    <3>1. m \in 1..n /\ m - 1 \in 0..n /\ m - 1 \notin Bad
      <4>1. m \in 1..n
        BY <2>3
      <4>2. m - 1 \in 0..n /\ ~(m <= m - 1)
        BY <4>1
      <4> HIDE DEF Bad
      <4> QED BY <2>1, <4>1, <4>2
    <3>2. PICK f \in [0..m - 1 -> R] : P(m - 1, f)
      BY <3>1
    <3> DEFINE g == [i \in 0..m |-> IF i = m THEN step[m][f[m - 1]] ELSE f[i]]
    <3>3. \A i \in 0..m - 1 : g[i] = f[i] /\ f[i] \in R
      BY <3>1
    <3>4. g[m] = step[m][f[m - 1]] /\ g[m] \in R
      BY <3>1, <3>3
    <3>5. g \in [0..m -> R]
      BY <3>1, <3>3, <3>4
    <3>6. P(m, g)
      <4>1. g[0] = x
        BY <3>1, <3>2, <3>3
      <4>2. ASSUME NEW i \in 1..m PROVE g[i] = step[i][g[i - 1]]
        <5>1. i - 1 \in 0..m - 1 /\ g[i - 1] = f[i - 1]
          BY <3>1, <3>3
        <5>2. CASE i = m
          BY <3>4, <5>1, <5>2
        <5>3. CASE i # m
          <6>1. i \in 1..m - 1 /\ i \in 0..m - 1
            BY <3>1, <5>3
          <6> QED BY <3>2, <3>3, <5>1, <6>1
        <5> QED BY <5>2, <5>3
      <4> HIDE DEF g
      <4> QED BY <4>1, <4>2
    <3> HIDE DEF g, P
    <3> QED BY <3>5, <3>6
  <2> QED BY <2>2, <2>3
<1>2. PICK f \in [0..n -> R] : P(n, f)
  <2>1. n \in 0..n
    OBVIOUS
  <2>2. ~(n \in 0..n /\ ~\E f \in [0..n -> R] : P(n, f))
    <3> HIDE DEF P
    <3>1. n \notin Bad
      <4> HIDE DEF Bad
      <4> QED BY <1>1
    <3> QED BY <3>1
  <2> QED BY <2>1, <2>2
<1> QED BY <1>2 DEF Computes

\* A recursive function on 0..n whose steps stay in R has its values there.
LEMMA RecursionStays ==
  ASSUME NEW n \in Nat, NEW R, NEW f,
         f[0] \in R, \A i \in 1..n : f[i - 1] \in R => f[i] \in R
  PROVE  \A i \in 0..n : f[i] \in R
<1> DEFINE Bad == {i \in 0..n : f[i] \notin R}
<1> SUFFICES ASSUME Bad # {} PROVE FALSE
  OBVIOUS
<1>1. PICK m \in Bad : \A l \in Bad : m <= l
  <2>1. Bad \subseteq Nat
    OBVIOUS
  <2> HIDE DEF Bad
  <2> QED BY <2>1, LeastMember
<1>2. m \in 1..n /\ m - 1 \in 0..n /\ ~(m <= m - 1)
  OBVIOUS
<1>3. m - 1 \notin Bad
  <2> HIDE DEF Bad
  <2> QED BY <1>1, <1>2
<1> QED BY <1>2, <1>3

LEMMA PowerFacts ==
  ASSUME NEW b \in Nat
  PROVE  /\ \A i \in Nat : Power(b, i) \in Nat
         /\ Power(b, 0) = 1
         /\ \A i \in Nat : Power(b, i + 1) = b * Power(b, i)
<1> DEFINE Body(m, f) == [i \in 0..m |-> IF i = 0 THEN 1 ELSE b * f[i - 1]]
           p(m) == CHOOSE f : f = Body(m, f)
           times == [v \in Nat |-> b * v]
<1>1. times \in [Nat -> Nat] /\ \A v \in Nat : times[v] = b * v
  OBVIOUS
<1>2. ASSUME NEW m \in Nat
      PROVE  /\ DOMAIN p(m) = 0..m /\ p(m)[0] = 1
             /\ \A i \in 1..m : p(m)[i] = b * p(m)[i - 1]
             /\ \A i \in 0..m : p(m)[i] \in Nat
  <2> DEFINE step == [i \in 1..m |-> times]
  <2>1. step \in [1..m -> [Nat -> Nat]] /\ \A i \in 1..m : step[i] = times
    <3> HIDE DEF times
    <3> QED BY <1>1
  <2>2. PICK f : Computes(f, m, Nat, 1, step)
    <3> HIDE DEF step
    <3> QED BY <2>1, Recursion
  <2>3. f \in [0..m -> Nat] /\ f[0] = 1 /\ \A i \in 1..m : f[i] = b * f[i - 1]
    <3> HIDE DEF step, times
    <3>1. ASSUME NEW i \in 1..m PROVE f[i] = b * f[i - 1]
      <4>1. i - 1 \in 0..m
        OBVIOUS
      <4>2. f[i - 1] \in Nat /\ f[i] = times[f[i - 1]]
        BY <2>1, <2>2, <4>1 DEF Computes
      <4> QED BY <1>1, <4>2
    <3> QED BY <2>2, <3>1 DEF Computes
  <2>4. f = Body(m, f)
    <3>1. ASSUME NEW i \in 0..m PROVE f[i] = IF i = 0 THEN 1 ELSE b * f[i - 1]
      <4>1. CASE i = 0
        BY <2>3, <4>1
      <4>2. CASE i # 0
        <5>1. i \in 1..m
          BY <4>2
        <5> QED BY <2>3, <4>2, <5>1
      <4> QED BY <4>1, <4>2
    <3>2. f = [i \in 0..m |-> f[i]]
      BY <2>3
    <3> QED BY <3>1, <3>2
  <2>5. p(m) = Body(m, p(m))
    <3> HIDE DEF Body
    <3> QED BY <2>4
  <2> DEFINE g == p(m)
  <2>6. g = Body(m, g)
    BY <2>5
  <2> HIDE DEF g
  <2>7. DOMAIN g = 0..m /\ g[0] = 1
    BY <2>6
  <2>8. ASSUME NEW i \in 1..m PROVE g[i] = b * g[i - 1]
    <3>1. i \in 0..m /\ i # 0
      OBVIOUS
    <3> QED BY <2>6, <3>1
  <2>9. \A i \in 0..m : g[i] \in Nat
    <3>1. \A i \in 1..m : g[i - 1] \in Nat => g[i] \in Nat
      BY <2>8
    <3>2. g[0] \in Nat /\ m \in Nat
      BY <1>2, <2>7
    <3> QED BY <3>1, <3>2, RecursionStays, Zenon
  <2> QED BY <2>7, <2>8, <2>9 DEF g
<1>3. \A m : Power(b, m) = p(m)[m]
  BY DEF Power
<1> HIDE DEF p
<1>4. ASSUME NEW i \in Nat PROVE Power(b, i) \in Nat
  <2>1. i \in 0..i
    OBVIOUS
  <2> QED BY <1>2, <1>3, <2>1
<1>5. Power(b, 0) = 1
  BY <1>2, <1>3
<1>6. ASSUME NEW i \in Nat PROVE Power(b, i + 1) = b * Power(b, i)
  <2> DEFINE g == p(i)
             h == p(i + 1)
             same == [j \in 0..i |-> g[j] = h[j]]
  <2>1. /\ g[0] = 1 /\ h[0] = 1
        /\ \A j \in 1..i : g[j] = b * g[j - 1] /\ h[j] = b * h[j - 1]
        /\ h[i + 1] = b * h[i]
    <3>1. i + 1 \in Nat /\ i + 1 \in 1..i + 1 /\ \A j \in 1..i : j \in 1..i + 1
      OBVIOUS
    <3>2. (i + 1) - 1 = i
      OBVIOUS
    <3> QED BY <1>2, <3>1, <3>2
  <2> HIDE DEF g, h
  <2> DEFINE Yes == {TRUE}
  <2>2. same[0] \in Yes
    <3>1. 0 \in 0..i
      OBVIOUS
    <3> QED BY <2>1, <3>1
  <2>3. ASSUME NEW j \in 1..i, same[j - 1] \in Yes PROVE same[j] \in Yes
    <3>1. j - 1 \in 0..i /\ j \in 0..i
      OBVIOUS
    <3>2. g[j - 1] = h[j - 1]
      BY <2>3, <3>1
    <3> QED BY <2>1, <3>1, <3>2
  <2>4. same[i] \in Yes
    <3> HIDE DEF same, Yes
    <3>1. \A j \in 0..i : same[j] \in Yes
      BY <2>2, <2>3, RecursionStays, Zenon
    <3>2. i \in 0..i
      OBVIOUS
    <3> QED BY <3>1, <3>2
  <2>5. g[i] = h[i]
    <3>1. i \in 0..i
      OBVIOUS
    <3> QED BY <2>4, <3>1
  <2> QED BY <1>3, <2>1, <2>5 DEF g, h
<1> QED BY <1>4, <1>5, <1>6

LEMMA TwoPowers ==
  \A n \in Nat : /\ Power(2, n) \in Nat /\ n < Power(2, n) /\ Power(2, n) >= 1
                 /\ Power(2, n + 1) = 2 * Power(2, n)
<1>1. /\ \A n \in Nat : Power(2, n) \in Nat /\ Power(2, n + 1) = 2 * Power(2, n)
      /\ Power(2, 0) = 1
  BY PowerFacts
<1> SUFFICES ASSUME NEW n \in Nat PROVE n < Power(2, n) /\ Power(2, n) >= 1
  BY <1>1
<1> DEFINE above == [i \in 0..n |-> i < Power(2, i)]
           Yes == {TRUE}
<1>2. above[0] \in Yes
  <2>1. 0 \in 0..n /\ 0 < Power(2, 0)
    BY <1>1
  <2> QED BY <2>1
<1>3. ASSUME NEW i \in 1..n, above[i - 1] \in Yes PROVE above[i] \in Yes
  <2>1. i - 1 \in 0..n /\ i \in 0..n /\ i - 1 \in Nat /\ (i - 1) + 1 = i
    OBVIOUS
  <2>2. i - 1 < Power(2, i - 1) /\ Power(2, i - 1) \in Nat
    BY <1>1, <1>3, <2>1
  <2>3. Power(2, i) = 2 * Power(2, i - 1)
    BY <1>1, <2>1
  <2>4. i < Power(2, i)
    BY <2>1, <2>2, <2>3
  <2> QED BY <2>1, <2>4
<1>4. above[n] \in Yes
  <2> HIDE DEF above, Yes
  <2>1. \A i \in 0..n : above[i] \in Yes
    BY <1>2, <1>3, RecursionStays, Zenon
  <2> QED BY <2>1
<1>5. n < Power(2, n)
  <2>1. n \in 0..n
    OBVIOUS
  <2> QED BY <1>4, <2>1
<1> QED BY <1>1, <1>5

-----------------------------------------------------------------------------
\* The peak of a table of votes.

\* max_vote() of a table with addresses is attained and is an upper bound.
LEMMA PeakVoteIsMax ==
  ASSUME NEW n \in Nat, NEW t, t.votes \in [Live(t) -> 1..n], Live(t) # {}
  PROVE  /\ \E a \in Live(t) : t.votes[a] = PeakVote(t)
         /\ \A a \in Live(t) : t.votes[a] <= PeakVote(t)
         /\ PeakVote(t) \in 1..n
<1> DEFINE S == {t.votes[a] : a \in Live(t)}
<1>1. S # {} /\ S \subseteq 1..n
  OBVIOUS
<1>2. \E v \in S : \A u \in S : u <= v
  <2>1. n \in Int /\ \A v \in S : v \in Int /\ v <= n
    BY <1>1
  <2> HIDE DEF S
  <2> QED BY <1>1, <2>1, GreatestMember, Zenon
<1>3. \E v \in S : \A a \in Live(t) : t.votes[a] <= v
  BY <1>2
<1>4. PeakVote(t) = CHOOSE v \in S : \A a \in Live(t) : t.votes[a] <= v
  BY DEF PeakVote
<1>5. PeakVote(t) \in S /\ \A a \in Live(t) : t.votes[a] <= PeakVote(t)
  BY <1>3, <1>4, Zenon
<1> QED BY <1>1, <1>5

-----------------------------------------------------------------------------
\* Powers and readings.

\* Powers of a number that is not 0 do not descend.
LEMMA PowersAscend ==
  ASSUME NEW b \in Nat \ {0}, NEW m \in Nat, NEW n \in Nat, m <= n
  PROVE  1 <= Power(b, m) /\ Power(b, m) <= Power(b, n)
<1>1. /\ \A i \in Nat : Power(b, i) \in Nat /\ Power(b, i + 1) = b * Power(b, i)
      /\ Power(b, 0) = 1
  BY PowerFacts
<1> DEFINE Yes == {TRUE}
           large == [i \in 0..n |-> 1 <= Power(b, i) /\ (m <= i => Power(b, m) <= Power(b, i))]
<1>2. large[0] \in Yes
  <2>1. 0 \in 0..n /\ (m <= 0 => m = 0)
    OBVIOUS
  <2>2. 1 <= Power(b, 0) /\ (m <= 0 => Power(b, m) <= Power(b, 0))
    BY <1>1, <2>1
  <2> QED BY <2>1, <2>2
<1>3. ASSUME NEW i \in 1..n, large[i - 1] \in Yes PROVE large[i] \in Yes
  <2>1. i - 1 \in 0..n /\ i \in 0..n /\ i - 1 \in Nat /\ i \in Nat /\ (i - 1) + 1 = i
    OBVIOUS
  <2> DEFINE p == Power(b, i - 1)
             q == Power(b, i)
             r == Power(b, m)
  <2>2. p \in Nat /\ r \in Nat /\ q = b * p /\ 1 <= p /\ (m <= i - 1 => r <= p)
    BY <1>1, <1>3, <2>1
  <2>3. m = i => r = q
    OBVIOUS
  <2>4. m <= i => m = i \/ m <= i - 1
    BY <2>1
  <2> HIDE DEF p, q, r
  <2>5. q \in Nat /\ p <= q
    BY <2>2
  <2>6. 1 <= q /\ (m <= i => r <= q)
    BY <2>2, <2>3, <2>4, <2>5
  <2> QED BY <2>1, <2>6 DEF q, r
<1>4. \A i \in 0..n : large[i] \in Yes
  <2> HIDE DEF large, Yes
  <2> QED BY <1>2, <1>3, RecursionStays, Zenon
<1> QED
  <2>1. n \in 0..n /\ m \in 0..n
    OBVIOUS
  <2> QED BY <1>4, <2>1

\* One more digit.
LEMMA DigitAppended ==
  ASSUME NEW b \in Nat, NEW p \in Nat, NEW x \in 0..p - 1, NEW y \in 0..b - 1
  PROVE  x * b + y \in 0..b * p - 1
<1>1. x + 1 <= p /\ x \in Nat /\ y \in Nat
  OBVIOUS
<1>2. (x + 1) * b <= p * b
  BY <1>1
<1>3. (x + 1) * b = x * b + b /\ x * b \in Nat /\ p * b \in Nat /\ p * b = b * p
  BY <1>1
<1> DEFINE z == x * b
           w == b * p
<1>4. z \in Nat /\ w \in Nat /\ z + b <= w
  BY <1>2, <1>3
<1> HIDE DEF z, w
<1>5. z + y \in 0..w - 1
  BY <1>1, <1>4
<1> QED BY <1>5 DEF z, w

-----------------------------------------------------------------------------
\* The image and its readings.

ImageOk ==
  /\ psize \in PointerSizes /\ Length \in 0..MaxLength
  /\ image \in [0..Length - 1 -> Bytes]

LEMMA ReadingIsNumber ==
  ASSUME ImageOk, NEW order, NEW at \in Nat
  PROVE  ReadAs(image, psize, order, at) \in 0..Power(ByteBase, psize) - 1
<1> DEFINE byte(j) == ByteAt(image, IF order = "Big" THEN at + j - 1 ELSE at + psize - j)
           Body(f) == [j \in 0..psize |-> IF j = 0 THEN 0 ELSE f[j - 1] * ByteBase + byte(j)]
           value == CHOOSE f : f = Body(f)
           step == [j \in 1..psize |-> [v \in Nat |-> v * ByteBase + byte(j)]]
<1>1. ByteBase \in Nat /\ psize \in Nat /\ ByteBase >= 1
  BY DetectorAssumption DEF ImageOk
<1>2. \A j : byte(j) \in 0..ByteBase - 1
  <2>1. \A x \in DOMAIN image : image[x] \in 0..ByteBase - 1
    BY DetectorAssumption DEF ImageOk
  <2>2. 0 \in 0..ByteBase - 1
    BY <1>1
  <2>3. \A x : ByteAt(image, x) \in 0..ByteBase - 1
    BY <2>1, <2>2 DEF ByteAt
  <2> QED BY <2>3
<1> HIDE DEF byte
<1>3. \A v \in Nat, j \in 1..psize : v * ByteBase + byte(j) \in Nat
  BY <1>1, <1>2
<1>4. step \in [1..psize -> [Nat -> Nat]]
  BY <1>3
<1>5. \A j \in 1..psize, v \in Nat : step[j][v] = v * ByteBase + byte(j)
  OBVIOUS
<1> HIDE DEF step
<1>6. PICK f : Computes(f, psize, Nat, 0, step)
  <2>1. 0 \in Nat
    OBVIOUS
  <2> QED BY <1>1, <1>4, <2>1, Recursion, Zenon
<1>7. f = Body(f)
  <2>1. ASSUME NEW j \in 0..psize
        PROVE  f[j] = IF j = 0 THEN 0 ELSE f[j - 1] * ByteBase + byte(j)
    <3>1. CASE j # 0
      <4>1. j \in 1..psize /\ j - 1 \in 0..psize /\ f[j - 1] \in Nat
        BY <1>1, <1>6, <3>1 DEF Computes
      <4> QED BY <1>5, <1>6, <3>1, <4>1 DEF Computes
    <3> QED BY <1>6, <3>1 DEF Computes
  <2>2. DOMAIN f = 0..psize /\ f = [j \in 0..psize |-> f[j]]
    BY <1>6 DEF Computes
  <2> QED BY <2>1, <2>2
<1>8. value = Body(value)
  <2> HIDE DEF Body
  <2> QED BY <1>7
<1>9. ReadAs(image, psize, order, at) = value[psize]
  BY DEF ReadAs, byte
<1> HIDE DEF value
<1>10. value[0] = 0 /\ \A j \in 1..psize : value[j] = value[j - 1] * ByteBase + byte(j)
  <2>1. 0 \in 0..psize /\ \A j \in 1..psize : j \in 0..psize /\ j # 0
    BY <1>1
  <2> QED BY <1>8, <2>1
<1> DEFINE Yes == {TRUE}
           below == [j \in 0..psize |-> value[j] \in 0..Power(ByteBase, j) - 1]
<1>11. below[0] \in Yes
  <2>1. 0 \in 0..psize /\ 0 \in 0..1 - 1
    BY <1>1
  <2> QED BY <1>1, <1>10, <2>1, PowerFacts
<1>12. ASSUME NEW j \in 1..psize, below[j - 1] \in Yes PROVE below[j] \in Yes
  <2>1. j - 1 \in 0..psize /\ j \in 0..psize /\ j - 1 \in Nat /\ (j - 1) + 1 = j
    BY <1>1
  <2>2. /\ Power(ByteBase, j - 1) \in Nat
        /\ Power(ByteBase, (j - 1) + 1) = ByteBase * Power(ByteBase, j - 1)
    BY <1>1, <2>1, PowerFacts
  <2>3. value[j - 1] \in 0..Power(ByteBase, j - 1) - 1
    BY <1>12, <2>1
  <2>4. value[j] \in 0..ByteBase * Power(ByteBase, j - 1) - 1
    <3> DEFINE p == Power(ByteBase, j - 1)
               x == value[j - 1]
               y == byte(j)
    <3>1. p \in Nat /\ x \in 0..p - 1 /\ y \in 0..ByteBase - 1
      BY <1>2, <2>2, <2>3
    <3>2. value[j] = x * ByteBase + y
      BY <1>10
    <3> HIDE DEF p, x, y
    <3>3. x * ByteBase + y \in 0..ByteBase * p - 1
      BY <1>1, <3>1, DigitAppended
    <3> QED BY <3>2, <3>3 DEF p
  <2> QED BY <2>1, <2>2, <2>4
<1>13. below[psize] \in Yes
  <2> HIDE DEF below, Yes
  <2>1. \A j \in 0..psize : below[j] \in Yes
    BY <1>1, <1>11, <1>12, RecursionStays, Zenon
  <2>2. psize \in 0..psize
    BY <1>1
  <2> QED BY <2>1, <2>2
<1> QED
  <2>1. psize \in 0..psize
    BY <1>1
  <2> QED BY <1>9, <1>13, <2>1

\* Masking never raises a reading.
LEMMA MaskedIsBelow ==
  ASSUME ImageOk, Length > 0, NEW v \in Nat
  PROVE  Masked(v) \in Nat /\ Masked(v) <= v
<1> DEFINE Z == {z \in 0..Length : Power(2, z) <= Length}
<1>1. Length \in Nat
  BY DetectorAssumption DEF ImageOk
<1>2. \E z \in Z : \A y \in Z : y <= z
  <2>1. 0 \in Z
    BY <1>1, PowerFacts
  <2>2. Length \in Int /\ \A z \in Z : z \in Int /\ z <= Length
    BY <1>1
  <2> HIDE DEF Z
  <2> QED BY <2>1, <2>2, GreatestMember, Zenon
<1>3. PICK z \in Z : \A y \in Z : y <= z
  BY <1>2
<1>4. z \in 0..Length /\ Power(2, z) <= Length /\ z \in Nat
  BY <1>1
<1>5. Length < Power(2, z + 1)
  <2>1. SUFFICES ASSUME ~(Length < Power(2, z + 1)) PROVE FALSE
    OBVIOUS
  <2>2. Power(2, z + 1) \in Nat /\ z + 1 < Power(2, z + 1)
    BY <1>4, TwoPowers
  <2>3. z + 1 \in 0..Length /\ Power(2, z + 1) <= Length
    BY <1>1, <1>4, <2>1, <2>2
  <2>4. z + 1 \in Z /\ ~(z + 1 <= z)
    BY <1>4, <2>3
  <2> HIDE DEF Z
  <2> QED BY <1>3, <2>4
<1>6. MaskedBits \in Int
  <2> DEFINE log == CHOOSE n \in 0..Length : Power(2, n) <= Length /\ Length < Power(2, n + 1)
  <2>1. log \in 0..Length
    BY <1>4, <1>5
  <2>2. MaskedBits = log - 1
    BY DEF MaskedBits
  <2> HIDE DEF log
  <2> QED BY <1>1, <2>1, <2>2
<1>7. Shift \in Nat
  <2> DEFINE S == {0, MaskedBits}
  <2>1. Shift = CHOOSE x \in S : \A y \in S : x >= y
    BY DEF Shift, Max
  <2>2. \E x \in S : \A y \in S : x >= y
    BY <1>6
  <2> DEFINE top == CHOOSE x \in S : \A y \in S : x >= y
  <2>3. top \in S /\ \A y \in S : top >= y
    <3> HIDE DEF S
    <3> QED BY <2>2
  <2> HIDE DEF top
  <2>4. top \in Int /\ top >= 0
    BY <1>6, <2>3
  <2> QED BY <2>1, <2>4 DEF top
<1>8. Power(2, Shift) \in Nat /\ Power(2, Shift) >= 1
  BY <1>7, TwoPowers
<1> DEFINE p == Power(2, Shift)
<1>9. Masked(v) = v - (v % p)
  BY DEF Masked
<1>10. p \in Nat \ {0}
  BY <1>8
<1> HIDE DEF p
<1>11. v % p \in Nat /\ v % p <= v
  BY <1>10
<1> QED BY <1>9, <1>11

-----------------------------------------------------------------------------
\* The detector's trees.

\* Addresses are digits of a pointer, and nothing has more than n votes, the
\* one for address 0 not counted.
TreeOK(t, n) ==
  /\ Live(t) # {} /\ Live(t) \subseteq 0..Power(ByteBase, psize) - 1
  /\ t.votes \in [Live(t) -> 1..n + 1]

\* Registering adds an address or one vote and takes nothing away.
LEMMA RegisterAdds ==
  ASSUME NEW n \in Nat, NEW t, TreeOK(t, n), NEW a \in 0..Power(ByteBase, psize) - 1
  PROVE  /\ TreeOK(Register(t, a), n + 1)
         /\ Live(Register(t, a)) = Live(t) \cup {a}
         /\ \A b \in Live(t) : Register(t, a).votes[b] = t.votes[b] + (IF b = a THEN 1 ELSE 0)
         /\ a \notin Live(t) => Register(t, a).votes[a] = 1
<1> DEFINE u == Register(t, a)
<1>1. u.votes = [b \in Live(t) \cup {a} |->
                   IF b \notin Live(t) THEN 1
                   ELSE IF b = a THEN t.votes[b] + 1 ELSE t.votes[b]]
  BY DEF Register
<1> HIDE DEF u
<1>2. Live(u) = Live(t) \cup {a}
  BY <1>1 DEF Live
<1>3. \A b \in Live(t) : t.votes[b] \in 1..n + 1
  BY DEF TreeOK
<1>4. /\ \A b \in Live(t) : u.votes[b] = t.votes[b] + (IF b = a THEN 1 ELSE 0)
      /\ a \notin Live(t) => u.votes[a] = 1
  BY <1>1, <1>3
<1>5. \A b \in Live(u) : u.votes[b] \in 1..(n + 1) + 1
  <2> SUFFICES ASSUME NEW b \in Live(u) PROVE u.votes[b] \in 1..(n + 1) + 1
    OBVIOUS
  <2>1. CASE b \in Live(t)
    BY <1>3, <1>4, <2>1
  <2>2. CASE b \notin Live(t)
    BY <1>2, <1>4, <2>2
  <2> QED BY <2>1, <2>2
<1>6. u.votes \in [Live(u) -> 1..(n + 1) + 1]
  BY <1>1, <1>2, <1>5
<1>7. TreeOK(u, n + 1)
  BY <1>2, <1>6 DEF TreeOK
<1> QED BY <1>2, <1>4, <1>7 DEF u

\* Who had votes keeps them or gets more, so the best cannot become worse.
LEMMA PeakRises ==
  ASSUME NEW n \in Nat, NEW m \in Nat, NEW t, TreeOK(t, n), NEW u, TreeOK(u, m),
         \A a \in Live(t) : a \in Live(u) /\ u.votes[a] >= t.votes[a]
  PROVE  PeakVote(u) >= PeakVote(t)
<1>1. PICK a \in Live(t) : t.votes[a] = PeakVote(t)
  <2>1. n + 1 \in Nat
    OBVIOUS
  <2> QED BY <2>1, PeakVoteIsMax DEF TreeOK
<1>2. u.votes[a] <= PeakVote(u) /\ PeakVote(u) \in Nat
  <2>1. m + 1 \in Nat /\ 1..m + 1 \subseteq Nat
    OBVIOUS
  <2>2. (\A b \in Live(u) : u.votes[b] <= PeakVote(u)) /\ PeakVote(u) \in 1..m + 1
    BY <2>1, PeakVoteIsMax DEF TreeOK
  <2> QED BY <1>1, <2>1, <2>2
<1>3. t.votes[a] \in Nat /\ u.votes[a] \in Nat
  BY <1>1 DEF TreeOK
<1> QED BY <1>1, <1>2, <1>3

LEMMA PointersFitSlot ==
  ASSUME ImageOk
  PROVE  /\ Power(ByteBase, psize) \in Nat /\ 1 <= Power(ByteBase, psize)
         /\ 0..Power(ByteBase, psize) - 1 \subseteq Addr
<1>1. psize \in Nat /\ Slot \in Nat /\ psize <= Slot /\ ByteBase \in Nat \ {0}
  BY DetectorAssumption DEF ImageOk
<1> DEFINE p == Power(ByteBase, psize)
           q == Power(ByteBase, Slot)
<1>2. p \in Nat /\ q \in Nat /\ 1 <= p /\ p <= q
  BY <1>1, PowerFacts, PowersAscend
<1>3. Addr = 0..q - 1
  BY DetectorAssumption
<1> HIDE DEF p, q
<1>4. 0..p - 1 \subseteq 0..q - 1
  BY <1>2
<1> QED BY <1>2, <1>3, <1>4 DEF p

LEMMA CountedAdds ==
  ASSUME ImageOk, Length > 0, NEW n \in Nat, NEW t, TreeOK(t, n),
         NEW v \in 0..Power(ByteBase, psize) - 1
  PROVE  /\ TreeOK(Counted(t, v), n + 1)
         /\ PeakVote(Counted(t, v)) >= PeakVote(t)
<1>1. CASE LooksLikePointer(v)
  <2>1. Masked(v) \in 0..Power(ByteBase, psize) - 1
    <3>1. Masked(v) \in Nat /\ Masked(v) <= v
      BY MaskedIsBelow
    <3> DEFINE p == Power(ByteBase, psize)
    <3>2. p \in Nat /\ v \in 0..p - 1
      BY PointersFitSlot
    <3> HIDE DEF p
    <3>3. Masked(v) \in 0..p - 1
      BY <3>1, <3>2
    <3> QED BY <3>3 DEF p
  <2> DEFINE u == Register(t, Masked(v))
  <2>2. Counted(t, v) = u
    BY <1>1 DEF Counted
  <2>3. /\ TreeOK(u, n + 1) /\ Live(u) = Live(t) \cup {Masked(v)}
        /\ \A b \in Live(t) : u.votes[b] = t.votes[b] + (IF b = Masked(v) THEN 1 ELSE 0)
    BY <2>1, RegisterAdds
  <2> HIDE DEF u
  <2>4. \A b \in Live(t) : t.votes[b] \in Nat
    BY DEF TreeOK
  <2>5. \A b \in Live(t) : b \in Live(u) /\ u.votes[b] >= t.votes[b]
    BY <2>3, <2>4
  <2>6. n + 1 \in Nat
    OBVIOUS
  <2>7. PeakVote(u) >= PeakVote(t)
    BY <2>3, <2>5, <2>6, PeakRises
  <2> QED BY <2>2, <2>3, <2>7
<1>2. CASE ~LooksLikePointer(v)
  <2>1. Counted(t, v) = t
    BY <1>2 DEF Counted
  <2>2. TreeOK(t, n + 1)
    BY DEF TreeOK
  <2>3. \A b \in Live(t) : t.votes[b] \in Nat
    BY DEF TreeOK
  <2>4. PeakVote(t) >= PeakVote(t)
    <3>1. \A b \in Live(t) : b \in Live(t) /\ t.votes[b] >= t.votes[b]
      BY <2>3
    <3> QED BY <3>1, PeakRises
  <2> QED BY <2>1, <2>2, <2>4
<1> QED BY <1>1, <1>2

\* Pruning keeps the leaders, hence the peak and a tree that is not empty.
LEMMA PruneKeepsPeak ==
  ASSUME NEW n \in Nat, NEW t, TreeOK(t, n)
  PROVE  /\ TreeOK(Prune(t), n) /\ PeakVote(Prune(t)) = PeakVote(t)
         /\ Live(Prune(t)) = {a \in Live(t) : t.votes[a] >= PeakVote(t) \div 2}
         /\ \A a \in Live(Prune(t)) : Prune(t).votes[a] = t.votes[a]
<1> DEFINE peak == PeakVote(t)
           half == peak \div 2
           kept == Kept(t, half)
           u == Prune(t)
<1>1. /\ \A a \in Live(t) : t.votes[a] <= peak
      /\ \E a \in Live(t) : t.votes[a] = peak
      /\ peak \in 1..n + 1
  <2>1. n + 1 \in Nat
    OBVIOUS
  <2> QED BY <2>1, PeakVoteIsMax DEF TreeOK
<1> HIDE DEF peak
<1>2. half <= peak /\ half \in Nat /\ peak \in Nat
  BY <1>1
<1>3. u.votes = [a \in kept |-> t.votes[a]]
  BY DEF Prune, Filter, TreeOK, peak
<1>4. kept = {a \in Live(t) : t.votes[a] >= half}
  BY DEF Kept
<1> HIDE DEF u, half, kept
<1>5. Live(u) = kept
  BY <1>3 DEF Live
<1>6. PICK a \in Live(t) : t.votes[a] = peak
  BY <1>1
<1>7. a \in kept
  BY <1>2, <1>4, <1>6
<1>8. \A b \in kept : u.votes[b] = t.votes[b]
  BY <1>3
<1>9. TreeOK(u, n)
  BY <1>3, <1>4, <1>5, <1>7 DEF TreeOK
<1>10. /\ \E b \in kept : u.votes[b] = PeakVote(u)
       /\ \A b \in kept : u.votes[b] <= PeakVote(u)
       /\ PeakVote(u) \in 1..n + 1
  <2>1. n + 1 \in Nat
    OBVIOUS
  <2> QED BY <1>5, <1>9, <2>1, PeakVoteIsMax DEF TreeOK
<1>11. peak <= PeakVote(u)
  BY <1>6, <1>7, <1>8, <1>10
<1>12. PeakVote(u) <= peak
  BY <1>1, <1>4, <1>8, <1>10
<1>13. PeakVote(u) = peak
  BY <1>2, <1>10, <1>11, <1>12
<1> QED BY <1>4, <1>5, <1>8, <1>9, <1>13 DEF u, half, peak

LEMMA CleanedKeepsPeak ==
  ASSUME NEW n \in Nat, NEW t, TreeOK(t, n)
  PROVE  TreeOK(Cleaned(t), n) /\ PeakVote(Cleaned(t)) = PeakVote(t)
<1>1. CASE offset % CleanupInterval = 0
  BY <1>1, PruneKeepsPeak DEF Cleaned
<1>2. CASE offset % CleanupInterval # 0
  BY <1>2 DEF Cleaned
<1> QED BY <1>1, <1>2

\* effective_root reaches every leaf, and peak_vote is the maximum over them.
LEMMA DescentReachesAll ==
  ASSUME ImageOk, NEW n \in Nat, NEW t, TreeOK(t, n)
  PROVE  /\ UnderEffectiveRoot(t) = Live(t) /\ Live(t) # {}
         /\ TreePeak(t) = PeakVote(t)
<1>1. UnderEffectiveRoot(t) = Live(t)
  <2> DEFINE p == Power(ByteBase, psize)
  <2>1. p \in Nat /\ Live(t) \subseteq 0..p - 1
    BY PointersFitSlot DEF TreeOK
  <2>2. UnderEffectiveRoot(t) = {a \in Live(t) : a < p}
    BY DEF UnderEffectiveRoot
  <2> HIDE DEF p
  <2> QED BY <2>1, <2>2
<1> DEFINE S == {0} \cup {t.votes[a] : a \in Live(t)}
<1>2. /\ \A a \in Live(t) : t.votes[a] <= PeakVote(t)
      /\ \E a \in Live(t) : t.votes[a] = PeakVote(t)
      /\ PeakVote(t) \in 1..n + 1
  <2>1. n + 1 \in Nat
    OBVIOUS
  <2> QED BY <2>1, PeakVoteIsMax DEF TreeOK
<1>3. \A a \in Live(t) : t.votes[a] \in Nat
  BY DEF TreeOK
<1> DEFINE peak == PeakVote(t)
<1>4. peak \in S /\ peak \in Nat /\ \A y \in S : peak >= y /\ y \in Nat
  <2> HIDE DEF peak
  <2> QED BY <1>2, <1>3 DEF peak
<1>5. TreePeak(t) = CHOOSE x \in S : \A y \in S : x >= y
  BY <1>1 DEF TreePeak, Max
<1> DEFINE top == CHOOSE x \in S : \A y \in S : x >= y
<1>6. top \in S /\ \A y \in S : top >= y
  <2> HIDE DEF S, peak
  <2> QED BY <1>4
<1>7. top = peak
  <2> HIDE DEF top, S, peak
  <2>1. top >= peak /\ peak >= top /\ top \in Nat
    BY <1>4, <1>6
  <2> QED BY <1>4, <2>1
<1> QED BY <1>1, <1>5, <1>7 DEF TreeOK

-----------------------------------------------------------------------------
\* The detector at work.

DetectInv ==
  /\ ImageOk
  /\ offset \in Nat /\ (offset > 0 => Length > psize /\ offset <= Length - psize)
  /\ TreeOK(le, offset) /\ TreeOK(be, offset)
  /\ verdict \in {"none", "Little", "Big"}

\* The tree that detect starts with.
LEMMA SeededTree ==
  /\ Live(Register(Empty, 0)) = {0}
  /\ Register(Empty, 0).votes = [b \in {0} |-> 1]
<1>1. Live(Empty) = {}
  BY DEF Live, Empty
<1>2. Register(Empty, 0).votes = [b \in {0} |-> 1]
  BY <1>1 DEF Register
<1> QED BY <1>2 DEF Live

LEMMA InitDetector ==
  ASSUME Init
  PROVE  DetectInv
<1>1. PICK k \in 0..MaxLength : image \in [0..k - 1 -> Bytes]
  BY DEF Init
<1>2. k \in Nat
  BY DetectorAssumption
<1>3. Cardinality(0..k - 1) = k
  <2>1. 0 \in Int /\ k - 1 \in Int
    BY <1>2
  <2>2. Cardinality(0..k - 1) = IF 0 > k - 1 THEN 0 ELSE (k - 1) - 0 + 1
    BY ONLY <2>1, FS_Interval
  <2> QED BY <1>2, <2>2
<1>4. Length = k
  BY <1>1, <1>3 DEF Length
<1>5. ImageOk
  BY <1>1, <1>4 DEF Init, ImageOk
<1>6. TreeOK(Register(Empty, 0), 0)
  <2> DEFINE p == Power(ByteBase, psize)
             t == Register(Empty, 0)
  <2>1. p \in Nat /\ 1 <= p
    BY <1>5, PointersFitSlot
  <2> HIDE DEF p
  <2>2. 0 \in 0..p - 1
    BY <2>1
  <2>3. Live(t) = {0} /\ t.votes = [b \in {0} |-> 1]
    BY SeededTree
  <2> HIDE DEF t
  <2>4. t.votes \in [Live(t) -> 1..0 + 1]
    BY <2>3
  <2> QED BY <2>2, <2>3, <2>4 DEF TreeOK, p, t
<1> QED BY <1>5, <1>6 DEF Init, DetectInv

LEMMA ScanKeepsTrees ==
  ASSUME DetectInv, Scan
  PROVE  /\ DetectInv'
         /\ PeakVote(le') >= PeakVote(le) /\ PeakVote(be') >= PeakVote(be)
<1>1. /\ ImageOk /\ Length > psize /\ offset < Length - psize /\ offset \in Nat
      /\ TreeOK(le, offset) /\ TreeOK(be, offset)
      /\ UNCHANGED <<image, psize, verdict>> /\ offset' = offset + 1
      /\ le' = Cleaned(Counted(le, Reading("Little")))
      /\ be' = Cleaned(Counted(be, Reading("Big")))
  BY DEF DetectInv, Scan, ScanEnd
<1>2. Length \in Nat /\ psize \in Nat /\ Length > 0
  BY <1>1, DetectorAssumption DEF ImageOk
<1>3. ASSUME NEW order, NEW t, TreeOK(t, offset)
      PROVE  /\ TreeOK(Cleaned(Counted(t, Reading(order))), offset + 1)
             /\ PeakVote(Cleaned(Counted(t, Reading(order)))) >= PeakVote(t)
  <2> DEFINE u == Counted(t, Reading(order))
  <2>1. Reading(order) \in 0..Power(ByteBase, psize) - 1
    BY <1>1, ReadingIsNumber DEF Reading
  <2>2. TreeOK(u, offset + 1) /\ PeakVote(u) >= PeakVote(t)
    BY <1>1, <1>2, <1>3, <2>1, CountedAdds
  <2> HIDE DEF u
  <2>3. offset + 1 \in Nat
    BY <1>1
  <2>4. TreeOK(Cleaned(u), offset + 1) /\ PeakVote(Cleaned(u)) = PeakVote(u)
    BY <2>2, <2>3, CleanedKeepsPeak
  <2> QED BY <2>2, <2>4 DEF u
<1>4. /\ TreeOK(le', offset + 1) /\ PeakVote(le') >= PeakVote(le)
      /\ TreeOK(be', offset + 1) /\ PeakVote(be') >= PeakVote(be)
  BY <1>1, <1>3, Zenon
<1>5. TreeOK(le, offset)' /\ TreeOK(be, offset)'
  BY <1>1, <1>4 DEF TreeOK
<1>6. Length' = Length
  BY <1>1 DEF Length
<1>7. ImageOk'
  BY <1>1, <1>6 DEF ImageOk
<1>8. offset' \in Nat /\ offset' <= Length' - psize' /\ Length' > psize'
  BY <1>1, <1>2, <1>6
<1>9. verdict' \in {"none", "Little", "Big"}
  BY <1>1 DEF DetectInv
<1>10. DetectInv'
  BY <1>5, <1>7, <1>8, <1>9 DEF DetectInv
<1> QED BY <1>4, <1>10

LEMMA TreesUnchanged ==
  ASSUME DetectInv, UNCHANGED <<image, psize, offset, le, be>>,
         verdict' \in {"none", "Little", "Big"}
  PROVE  DetectInv'
<1>1. Length' = Length
  BY DEF Length
<1>2. ImageOk'
  BY <1>1 DEF DetectInv, ImageOk
<1>3. TreeOK(le, offset)' /\ TreeOK(be, offset)'
  BY DEF DetectInv, TreeOK
<1> QED BY <1>1, <1>2, <1>3 DEF DetectInv

LEMMA NextDetector ==
  ASSUME DetectInv, [Next]_vars
  PROVE  DetectInv'
<1>1. CASE TooSmall
  BY <1>1, TreesUnchanged DEF TooSmall
<1>2. CASE Scan
  BY <1>2, ScanKeepsTrees
<1>3. CASE Decide
  BY <1>3, TreesUnchanged DEF Decide
<1>4. CASE UNCHANGED vars
  BY <1>4, TreesUnchanged DEF vars, DetectInv
<1> QED BY <1>1, <1>2, <1>3, <1>4 DEF Next, Terminated

LEMMA DetectorHolds == Spec => []DetectInv
BY InitDetector, NextDetector, PTL DEF Spec

\* detect: whatever the image and however often the trees are pruned, the
\* descent of effective_root finds a node with all of the votes below it; and
\* the scan ends in time, with the votes in bounds.
THEOREM DescentNeverFails == Spec => []RootReachable
<1>1. ASSUME DetectInv PROVE RootReachable
  <2>1. /\ ImageOk /\ offset \in Nat /\ offset + 1 \in Nat
        /\ (offset > 0 => Length > psize /\ offset <= Length - psize)
        /\ TreeOK(le, offset) /\ TreeOK(be, offset) /\ verdict \in {"none", "Little", "Big"}
    BY <1>1 DEF DetectInv
  <2>2. Length \in Nat /\ Length <= MaxLength /\ MaxLength \in Nat /\ psize \in Nat \ {0}
    BY <2>1, DetectorAssumption DEF ImageOk
  <2>3. offset <= MaxLength
    BY <2>1, <2>2
  <2>4. ASSUME NEW t, TreeOK(t, offset)
        PROVE  /\ UnderEffectiveRoot(t) # {} /\ UnderEffectiveRoot(t) = Live(t)
               /\ Live(t) \subseteq Addr
               /\ \A a \in Live(t) : t.votes[a] \in 1..MaxLength + 1
    <3>1. UnderEffectiveRoot(t) = Live(t) /\ Live(t) # {}
      BY <2>1, <2>4, DescentReachesAll
    <3>2. Live(t) \subseteq Addr
      BY <2>1, <2>4, PointersFitSlot DEF TreeOK
    <3>3. 1..offset + 1 \subseteq 1..MaxLength + 1
      BY <2>1, <2>2, <2>3
    <3>4. \A a \in Live(t) : t.votes[a] \in 1..offset + 1
      BY <2>4 DEF TreeOK
    <3> QED BY <3>1, <3>2, <3>3, <3>4
  <2>5. offset \in 0..Max({0, Length - psize})
    <3> DEFINE S == {0, Length - psize}
               top == CHOOSE x \in S : \A y \in S : x >= y
    <3>1. Max(S) = top
      BY DEF Max
    <3>2. \E x \in S : \A y \in S : x >= y
      BY <2>2
    <3>3. top \in S /\ \A y \in S : top >= y
      <4> HIDE DEF S
      <4> QED BY <3>2
    <3> HIDE DEF top
    <3>4. top \in Int /\ top >= 0 /\ top >= Length - psize
      BY <2>2, <3>3
    <3>5. offset \in 0..top
      BY <2>1, <2>2, <3>4
    <3> QED BY <3>1, <3>5
  <2> QED BY <2>1, <2>4, <2>5 DEF RootReachable, TypeOK
<1>2. DetectInv => RootReachable
  BY <1>1
<1> QED BY <1>2, DetectorHolds, PTL

\* detect: neither register_address nor filter, called at any offset, lowers
\* the peak that peak_vote would report.
THEOREM PeaksNeverFall == Spec => PeaksGrow
<1>1. ASSUME DetectInv, [Next]_vars, vars' # vars
      PROVE  TreePeak(le') >= TreePeak(le) /\ TreePeak(be') >= TreePeak(be)
  <2>1. ImageOk /\ offset \in Nat /\ TreeOK(le, offset) /\ TreeOK(be, offset)
    BY <1>1 DEF DetectInv
  <2>2. TreePeak(le) = PeakVote(le) /\ TreePeak(be) = PeakVote(be)
    BY <2>1, DescentReachesAll
  <2>3. PeakVote(le) \in Nat /\ PeakVote(be) \in Nat
    <3>1. offset + 1 \in Nat /\ 1..offset + 1 \subseteq Nat
      BY <2>1
    <3> QED BY <2>1, <3>1, PeakVoteIsMax DEF TreeOK
  <2>4. CASE Scan
    <3>1. /\ DetectInv' /\ PeakVote(le') >= PeakVote(le) /\ PeakVote(be') >= PeakVote(be)
          /\ psize' = psize /\ offset' = offset + 1
      BY <1>1, <2>4, ScanKeepsTrees DEF Scan
    <3>2. TreeOK(le', offset + 1) /\ TreeOK(be', offset + 1) /\ offset + 1 \in Nat
      BY <2>1, <3>1 DEF DetectInv, TreeOK
    <3>3. TreePeak(le') = PeakVote(le') /\ TreePeak(be') = PeakVote(be')
      BY <2>1, <3>2, DescentReachesAll
    <3> QED BY <2>2, <3>1, <3>3
  <2>5. CASE UNCHANGED <<le, be>>
    BY <2>2, <2>3, <2>5
  <2> QED BY <1>1, <2>4, <2>5 DEF Next, TooSmall, Decide, Terminated, vars
<1>2. DetectInv /\ [Next]_vars
        => [TreePeak(le') >= TreePeak(le) /\ TreePeak(be') >= TreePeak(be)]_vars
  BY <1>1
<1> QED BY <1>2, DetectorHolds, PTL DEF Spec, PeaksGrow

-----------------------------------------------------------------------------
\* Exact counts.

ReadingAt(order, at) == ReadAs(image, psize, order, at)

\* The tree counts the first n readings: it has their prefixes and that of the
\* seed, each with its tally.
Histogram(t, order, n) ==
  /\ 0 \in Live(t)
  /\ \A at \in 0..n - 1 :
       LooksLikePointer(ReadingAt(order, at)) => Masked(ReadingAt(order, at)) \in Live(t)
  /\ \A p \in Live(t) : t.votes[p] = Tally(order, p, n)

LEMMA ReadingsAreFinite ==
  ASSUME NEW order, NEW p, NEW n \in Nat
  PROVE  /\ IsFiniteSet(Readings(order, p, n)) /\ Cardinality(Readings(order, p, n)) \in Nat
         /\ Readings(order, p, n) \subseteq 0..n - 1
<1>1. Readings(order, p, n) \in SUBSET (0..n - 1)
  BY DEF Readings
<1>2. IsFiniteSet(0..n - 1)
  <2>1. 0 \in Int /\ n - 1 \in Int
    OBVIOUS
  <2> QED BY <2>1, FS_Interval
<1> QED BY <1>1, <1>2, FS_Subset, FS_CardinalityType

\* One more reading adds one to the tally of its prefix.
LEMMA TallyGrows ==
  ASSUME NEW order, NEW p, NEW n \in Nat
  PROVE  LET v == ReadingAt(order, n)
         IN  Tally(order, p, n + 1)
               = Tally(order, p, n) + (IF LooksLikePointer(v) /\ Masked(v) = p THEN 1 ELSE 0)
<1> DEFINE v == ReadingAt(order, n)
           R == Readings(order, p, n)
           R1 == Readings(order, p, n + 1)
           seed == IF p = 0 THEN 1 ELSE 0
           hit == LooksLikePointer(v) /\ Masked(v) = p
<1>1. Tally(order, p, n) = Cardinality(R) + seed /\ Tally(order, p, n + 1) = Cardinality(R1) + seed
  BY DEF Tally
<1>2. IsFiniteSet(R) /\ Cardinality(R) \in Nat /\ n \notin R
  <2>1. IsFiniteSet(R) /\ Cardinality(R) \in Nat /\ R \subseteq 0..n - 1
    BY ReadingsAreFinite
  <2>2. n \notin 0..n - 1
    OBVIOUS
  <2> HIDE DEF R
  <2> QED BY <2>1, <2>2
<1>3. R1 = IF hit THEN R \cup {n} ELSE R
  <2>1. \A at : at \in 0..(n + 1) - 1 <=> at \in 0..n - 1 \/ at = n
    OBVIOUS
  <2> DEFINE fits(at) == LooksLikePointer(ReadingAt(order, at)) /\ Masked(ReadingAt(order, at)) = p
  <2>2. R = {at \in 0..n - 1 : fits(at)} /\ R1 = {at \in 0..(n + 1) - 1 : fits(at)}
    BY DEF Readings, ReadingAt
  <2>3. hit = fits(n)
    OBVIOUS
  <2> HIDE DEF fits, hit, R, R1
  <2>4. \A at : at \in R1 <=> at \in R \/ (at = n /\ hit)
    BY <2>1, <2>2, <2>3
  <2> QED BY <2>4
<1> HIDE DEF R, R1
<1>4. CASE hit
  <2>1. Cardinality(R1) = Cardinality(R) + 1
    BY <1>2, <1>3, <1>4, FS_AddElement
  <2>2. seed \in Nat
    OBVIOUS
  <2> HIDE DEF seed, hit
  <2>3. Tally(order, p, n + 1) = Tally(order, p, n) + 1
    BY <1>1, <1>2, <2>1, <2>2
  <2> QED BY <1>4, <2>3 DEF hit
<1>5. CASE ~hit
  <2>1. Tally(order, p, n + 1) = Tally(order, p, n) /\ Tally(order, p, n) \in Nat
    BY <1>1, <1>2, <1>3, <1>5
  <2> QED BY <1>5, <2>1
<1> QED BY <1>4, <1>5

\* A prefix that is not in the tree was not read.
LEMMA StrangersHaveNoTally ==
  ASSUME NEW order, NEW n \in Nat, NEW t, Histogram(t, order, n), NEW p, p \notin Live(t)
  PROVE  Tally(order, p, n) = 0
<1>1. p # 0
  BY DEF Histogram
<1>2. Readings(order, p, n) = {}
  BY DEF Readings, Histogram, ReadingAt
<1> QED BY <1>1, <1>2, FS_EmptySet DEF Tally

LEMMA CountedIsExact ==
  ASSUME ImageOk, Length > 0, NEW order, NEW n \in Nat, NEW t, TreeOK(t, n),
         Histogram(t, order, n)
  PROVE  Histogram(Counted(t, ReadingAt(order, n)), order, n + 1)
<1> DEFINE v == ReadingAt(order, n)
           u == Counted(t, v)
           a == Masked(v)
<1>1. v \in 0..Power(ByteBase, psize) - 1
  BY ReadingIsNumber DEF ReadingAt
<1>2. \A at \in 0..(n + 1) - 1 : at \in 0..n - 1 \/ at = n
  OBVIOUS
<1>3. \A p : Tally(order, p, n + 1)
               = Tally(order, p, n) + (IF LooksLikePointer(v) /\ a = p THEN 1 ELSE 0)
  BY TallyGrows
<1> HIDE DEF v
<1>4. CASE LooksLikePointer(v)
  <2>1. u = Register(t, a)
    BY <1>4 DEF Counted
  <2>2. a \in 0..Power(ByteBase, psize) - 1
    <3> DEFINE p == Power(ByteBase, psize)
    <3>1. p \in Nat /\ v \in 0..p - 1
      BY <1>1, PointersFitSlot
    <3> HIDE DEF p
    <3>2. v \in Nat
      BY <3>1
    <3>3. a \in Nat /\ a <= v
      BY <3>2, MaskedIsBelow
    <3> HIDE DEF a
    <3>4. a \in 0..p - 1
      BY <3>1, <3>3
    <3> QED BY <3>4 DEF p
  <2> HIDE DEF a
  <2>3. /\ Live(u) = Live(t) \cup {a}
        /\ \A b \in Live(t) : u.votes[b] = t.votes[b] + (IF b = a THEN 1 ELSE 0)
        /\ a \notin Live(t) => u.votes[a] = 1
    BY <2>1, <2>2, RegisterAdds
  <2> HIDE DEF u
  <2>4. ASSUME NEW p \in Live(u) PROVE u.votes[p] = Tally(order, p, n + 1)
    <3>1. CASE p \in Live(t)
      <4>1. t.votes[p] = Tally(order, p, n)
        BY <3>1 DEF Histogram
      <4> QED BY <1>3, <1>4, <2>3, <3>1, <4>1
    <3>2. CASE p \notin Live(t)
      <4>1. p = a /\ u.votes[p] = 1
        BY <2>3, <2>4, <3>2
      <4>2. Tally(order, p, n) = 0
        BY <3>2, StrangersHaveNoTally
      <4> QED BY <1>3, <1>4, <4>1, <4>2
    <3> QED BY <3>1, <3>2
  <2>5. ASSUME NEW at \in 0..(n + 1) - 1, LooksLikePointer(ReadingAt(order, at))
        PROVE  Masked(ReadingAt(order, at)) \in Live(u)
    <3>1. CASE at \in 0..n - 1
      BY <2>3, <2>5, <3>1 DEF Histogram
    <3>2. CASE at = n
      BY <2>3, <3>2 DEF a, v
    <3> QED BY <1>2, <3>1, <3>2
  <2>6. 0 \in Live(u)
    BY <2>3 DEF Histogram
  <2>7. Histogram(u, order, n + 1)
    BY <2>4, <2>5, <2>6 DEF Histogram
  <2> QED BY <2>7 DEF u, v
<1>5. CASE ~LooksLikePointer(v)
  <2>1. u = t
    BY <1>5 DEF Counted
  <2>2. \A p \in Live(t) : t.votes[p] \in Nat /\ t.votes[p] = Tally(order, p, n)
    BY DEF TreeOK, Histogram
  <2>3. \A p \in Live(t) : t.votes[p] = Tally(order, p, n + 1)
    BY <1>3, <1>5, <2>2
  <2>4. ASSUME NEW at \in 0..(n + 1) - 1, LooksLikePointer(ReadingAt(order, at))
        PROVE  Masked(ReadingAt(order, at)) \in Live(t)
    <3>1. at # n
      BY <1>5, <2>4 DEF v
    <3> QED BY <1>2, <2>4, <3>1 DEF Histogram
  <2> HIDE DEF u
  <2>5. Histogram(t, order, n + 1)
    BY <2>3, <2>4 DEF Histogram
  <2> QED BY <2>1, <2>5 DEF u, v
<1> QED BY <1>4, <1>5

\* With one reading counted the best has at most two votes, and nothing has
\* less than half of that.
LEMMA FirstPruningLosesNothing ==
  ASSUME NEW order, NEW t, TreeOK(t, 1), Histogram(t, order, 1)
  PROVE  Histogram(Prune(t), order, 1)
<1> DEFINE peak == PeakVote(t)
           u == Prune(t)
<1>1. /\ Live(u) = {a \in Live(t) : t.votes[a] >= peak \div 2}
      /\ \A a \in Live(u) : u.votes[a] = t.votes[a]
  BY PruneKeepsPeak
<1>2. peak \in 1..2
  <2>1. t.votes \in [Live(t) -> 1..2] /\ Live(t) # {}
    BY DEF TreeOK
  <2> QED BY <2>1, PeakVoteIsMax
<1>3. \A a \in Live(t) : t.votes[a] \in 1..2
  BY DEF TreeOK
<1> HIDE DEF peak, u
<1>4. peak \div 2 \in 0..1
  BY <1>2
<1>5. \A a \in Live(t) : t.votes[a] >= peak \div 2
  BY <1>3, <1>4
<1>6. Live(u) = Live(t)
  BY <1>1, <1>5
<1> QED BY <1>1, <1>6 DEF Histogram, u

ExactInv ==
  /\ offset <= CleanupInterval => Histogram(le, "Little", offset) /\ Histogram(be, "Big", offset)
  /\ verdict # "none" /\ Length > psize =>
       /\ verdict = IF Wins(TreePeak(be), TreePeak(le)) THEN "Big" ELSE "Little"
       /\ offset = Length - psize

\* The readings do not change.
LEMMA SameReadings ==
  ASSUME UNCHANGED <<image, psize>>
  PROVE  /\ \A order, p, n : Tally(order, p, n)' = Tally(order, p, n)
         /\ \A order, at : ReadingAt(order, at)' = ReadingAt(order, at)
         /\ \A v : Masked(v)' = Masked(v)
         /\ Length' = Length
<1>1. Length' = Length
  BY DEF Length
<1>2. \A v : Masked(v)' = Masked(v)
  <2>1. MaskedBits' = MaskedBits
    BY <1>1 DEF MaskedBits
  <2>2. Shift' = Shift
    BY <2>1 DEF Shift
  <2> QED BY <2>2 DEF Masked
<1>3. \A order, at : ReadingAt(order, at)' = ReadingAt(order, at)
  BY DEF ReadingAt
<1>4. \A order, p, n : Readings(order, p, n)' = Readings(order, p, n)
  BY <1>2 DEF Readings
<1>5. \A order, p, n : Tally(order, p, n)' = Tally(order, p, n)
  BY <1>4 DEF Tally
<1> QED BY <1>1, <1>2, <1>3, <1>5

LEMMA InitExact ==
  ASSUME Init
  PROVE  ExactInv
<1>1. ASSUME NEW order PROVE Histogram(Register(Empty, 0), order, 0)
  <2> DEFINE t == Register(Empty, 0)
  <2>1. Live(t) = {0} /\ t.votes = [b \in {0} |-> 1]
    BY SeededTree
  <2> HIDE DEF t
  <2>2. 0..0 - 1 = {}
    OBVIOUS
  <2>3. Readings(order, 0, 0) = {}
    BY <2>2 DEF Readings
  <2>4. Tally(order, 0, 0) = 1
    BY <2>3, FS_EmptySet DEF Tally
  <2>5. Histogram(t, order, 0)
    BY <2>1, <2>2, <2>4 DEF Histogram
  <2> QED BY <2>5 DEF t
<1> QED BY <1>1 DEF Init, ExactInv

LEMMA ScanIsExact ==
  ASSUME DetectInv, ExactInv, Scan
  PROVE  ExactInv'
<1>1. /\ ImageOk /\ Length > psize /\ offset \in Nat
      /\ TreeOK(le, offset) /\ TreeOK(be, offset)
      /\ UNCHANGED <<image, psize, verdict>> /\ offset' = offset + 1 /\ verdict = "none"
      /\ le' = Cleaned(Counted(le, Reading("Little")))
      /\ be' = Cleaned(Counted(be, Reading("Big")))
  BY DEF DetectInv, Scan, ScanEnd
<1>2. Length \in Nat /\ psize \in Nat /\ Length > 0
  BY <1>1, DetectorAssumption DEF ImageOk
<1>3. CleanupInterval \in Nat \ {0}
  BY DetectorAssumption
<1>4. ASSUME NEW order, NEW t, TreeOK(t, offset), Histogram(t, order, offset),
             offset < CleanupInterval
      PROVE  Histogram(Cleaned(Counted(t, Reading(order))), order, offset + 1)
  <2> DEFINE v == ReadingAt(order, offset)
             u == Counted(t, v)
  <2>1. Reading(order) = v
    BY DEF Reading, ReadingAt
  <2>2. v \in 0..Power(ByteBase, psize) - 1
    BY <1>1, ReadingIsNumber DEF ReadingAt
  <2>3. Histogram(u, order, offset + 1)
    BY <1>1, <1>2, <1>4, CountedIsExact
  <2>4. TreeOK(u, offset + 1)
    BY <1>1, <1>2, <1>4, <2>2, CountedAdds
  <2> HIDE DEF u
  <2>5. CASE offset % CleanupInterval = 0
    <3>1. offset = 0
      BY <1>1, <1>3, <1>4, <2>5
    <3>2. Cleaned(u) = Prune(u)
      BY <2>5 DEF Cleaned
    <3>3. Histogram(u, order, 1) /\ TreeOK(u, 1)
      BY <2>3, <2>4, <3>1
    <3>4. Histogram(Prune(u), order, 1)
      BY <3>3, FirstPruningLosesNothing
    <3>5. offset + 1 = 1
      BY <3>1
    <3> QED BY <2>1, <3>2, <3>4, <3>5 DEF u
  <2>6. CASE offset % CleanupInterval # 0
    <3>1. Cleaned(u) = u
      BY <2>6 DEF Cleaned
    <3> QED BY <2>1, <2>3, <3>1 DEF u
  <2> QED BY <2>5, <2>6
<1>5. ASSUME offset' <= CleanupInterval
      PROVE  Histogram(le', "Little", offset + 1) /\ Histogram(be', "Big", offset + 1)
  <2>1. offset < CleanupInterval /\ offset <= CleanupInterval
    BY <1>1, <1>3, <1>5
  <2>2. Histogram(le, "Little", offset) /\ Histogram(be, "Big", offset)
    BY <2>1 DEF ExactInv
  <2> QED BY <1>1, <1>4, <2>1, <2>2
<1>6. ASSUME NEW order, NEW t, Histogram(t, order, offset + 1)
      PROVE  Histogram(t, order, offset)'
  BY <1>1, <1>6, SameReadings DEF Histogram, LooksLikePointer
<1> QED BY <1>1, <1>5, <1>6 DEF ExactInv

\* Before the second pruning peak_vote is the greatest tally.
LEMMA PeakIsTally ==
  ASSUME ImageOk, NEW order, NEW n \in Nat, NEW t, TreeOK(t, n), Histogram(t, order, n)
  PROVE  Max({Tally(order, p, n) : p \in SeenPrefixes(order, n)}) = TreePeak(t)
<1> DEFINE peak == PeakVote(t)
           S == {Tally(order, p, n) : p \in SeenPrefixes(order, n)}
<1>1. /\ \E a \in Live(t) : t.votes[a] = peak
      /\ \A a \in Live(t) : t.votes[a] <= peak
      /\ peak \in 1..n + 1
  <2>1. n + 1 \in Nat
    OBVIOUS
  <2> QED BY <2>1, PeakVoteIsMax DEF TreeOK
<1>2. \A a \in Live(t) : t.votes[a] = Tally(order, a, n) /\ t.votes[a] \in 1..n + 1
  BY DEF Histogram, TreeOK
<1>3. TreePeak(t) = peak
  BY DescentReachesAll
<1> HIDE DEF peak
<1>4. \A a \in Live(t) : a \in SeenPrefixes(order, n)
  <2> SUFFICES ASSUME NEW a \in Live(t), a # 0 PROVE a \in SeenPrefixes(order, n)
    BY DEF SeenPrefixes
  <2>1. Tally(order, a, n) # 0
    BY <1>2
  <2>2. Readings(order, a, n) # {}
    BY <2>1, FS_EmptySet DEF Tally
  <2>3. PICK at \in 0..n - 1 : Masked(ReadAs(image, psize, order, at)) = a
    BY <2>2 DEF Readings
  <2> QED BY <2>3 DEF SeenPrefixes
<1>5. peak \in S
  BY <1>1, <1>2, <1>4
<1>6. \A y \in S : y \in Nat /\ y <= peak
  <2> SUFFICES ASSUME NEW p PROVE Tally(order, p, n) \in Nat /\ Tally(order, p, n) <= peak
    OBVIOUS
  <2>1. CASE p \in Live(t)
    BY <1>1, <1>2, <2>1
  <2>2. CASE p \notin Live(t)
    BY <1>1, <2>2, StrangersHaveNoTally
  <2> QED BY <2>1, <2>2
<1> DEFINE top == CHOOSE x \in S : \A y \in S : x >= y
<1>7. Max(S) = top
  BY DEF Max
<1> HIDE DEF S
<1>8. \E x \in S : \A y \in S : x >= y
  BY <1>5, <1>6
<1>9. top \in S /\ \A y \in S : top >= y
  BY <1>8
<1> HIDE DEF top
<1>10. top = peak
  BY <1>5, <1>6, <1>9
<1> QED BY <1>3, <1>7, <1>10 DEF S

\* What ExactInv says of the trees and of the verdict is about what is unchanged.
LEMMA ExactUnchanged ==
  ASSUME ExactInv, UNCHANGED <<image, psize, offset, le, be>>
  PROVE  /\ offset' <= CleanupInterval =>
              Histogram(le, "Little", offset)' /\ Histogram(be, "Big", offset)'
         /\ TreePeak(le)' = TreePeak(le) /\ TreePeak(be)' = TreePeak(be)
         /\ Length' = Length
<1>1. ASSUME NEW order, NEW t, Histogram(t, order, offset)
      PROVE  Histogram(t, order, offset)'
  BY <1>1, SameReadings DEF Histogram, LooksLikePointer
<1>2. TreePeak(le)' = TreePeak(le) /\ TreePeak(be)' = TreePeak(be)
  <2>1. /\ UnderEffectiveRoot(le)' = UnderEffectiveRoot(le)
        /\ UnderEffectiveRoot(be)' = UnderEffectiveRoot(be)
    BY DEF UnderEffectiveRoot
  <2> QED BY <2>1 DEF TreePeak
<1> QED BY <1>1, <1>2, SameReadings DEF ExactInv

LEMMA NextExact ==
  ASSUME DetectInv, ExactInv, [Next]_vars
  PROVE  ExactInv'
<1>1. CASE Scan
  BY <1>1, ScanIsExact
<1>2. ASSUME UNCHANGED <<image, psize, offset, le, be>>,
             Length > psize /\ verdict' # "none" =>
               /\ verdict' = IF Wins(TreePeak(be), TreePeak(le)) THEN "Big" ELSE "Little"
               /\ offset = Length - psize
      PROVE  ExactInv'
  BY <1>2, ExactUnchanged DEF ExactInv, Wins
<1>3. CASE TooSmall
  <2>1. ~(Length > psize)
    BY <1>3, DetectorAssumption DEF TooSmall, DetectInv, ImageOk
  <2> QED BY <1>2, <1>3, <2>1 DEF TooSmall
<1>4. CASE Decide
  BY <1>2, <1>4 DEF Decide, ScanEnd
<1>5. CASE UNCHANGED vars
  BY <1>2, <1>5 DEF vars, ExactInv
<1> QED BY <1>1, <1>3, <1>4, <1>5 DEF Next, Terminated

LEMMA ExactHolds == Spec => []ExactInv
<1>1. Init => ExactInv
  BY InitExact
<1>2. DetectInv /\ ExactInv /\ [Next]_vars => ExactInv'
  BY NextExact
<1> QED BY <1>1, <1>2, DetectorHolds, PTL DEF Spec

\* detect: up to the second pruning the trees hold the tally of every prefix
\* that was read, for every image and interval, and the verdict is that of
\* exact counts.
THEOREM ExactUntilPruned == Spec => []ExactBeforeSecondPruning
<1>1. ASSUME DetectInv, ExactInv PROVE ExactBeforeSecondPruning
  <2> SUFFICES ASSUME offset <= CleanupInterval
               PROVE  /\ \A p \in Live(le) : le.votes[p] = Tally("Little", p, offset)
                      /\ \A p \in Live(be) : be.votes[p] = Tally("Big", p, offset)
                      /\ verdict # "none" /\ Length > psize =>
                           verdict = TrueVerdict(Length - psize)
    BY DEF ExactBeforeSecondPruning
  <2>1. Histogram(le, "Little", offset) /\ Histogram(be, "Big", offset)
    BY <1>1 DEF ExactInv
  <2>2. ImageOk /\ offset \in Nat /\ TreeOK(le, offset) /\ TreeOK(be, offset)
    BY <1>1 DEF DetectInv
  <2>3. /\ Max({Tally("Little", p, offset) : p \in SeenPrefixes("Little", offset)}) = TreePeak(le)
        /\ Max({Tally("Big", p, offset) : p \in SeenPrefixes("Big", offset)}) = TreePeak(be)
    BY <2>1, <2>2, PeakIsTally
  <2>4. TrueVerdict(offset) = IF TreePeak(be) > TreePeak(le) THEN "Big" ELSE "Little"
    BY <2>3 DEF TrueVerdict
  <2>5. verdict # "none" /\ Length > psize => verdict = TrueVerdict(Length - psize)
    BY <1>1, <2>4 DEF ExactInv, Wins
  <2> QED BY <2>1, <2>5 DEF Histogram
<1>2. DetectInv /\ ExactInv => ExactBeforeSecondPruning
  BY <1>1
<1> QED BY <1>2, DetectorHolds, ExactHolds, PTL
=============================================================================
