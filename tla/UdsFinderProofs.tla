--------------------------- MODULE UdsFinderProofs ---------------------------
(***************************************************************************)
(* Proofs about UdsFinder::find, for every image and every bound: what the *)
(* listing, the structure search and the identification of the table owe   *)
(* to each other, and what the table reported at the end is.               *)
(***************************************************************************)
EXTENDS UdsFinder, TLAPS, FiniteSetTheorems, SequenceTheorems, WellFoundedInduction

-----------------------------------------------------------------------------
\* Numbers and recursive functions.

LEMMA LeastMember ==
  ASSUME NEW S, S \subseteq Nat, S # {}
  PROVE  \E x \in S : \A y \in S : x <= y
<1>1. PICK x \in S : \A y \in S : ~(<<y, x>> \in OpToRel(<, Nat))
  BY WFMin, NatLessThanWellFounded
<1>2. \A y \in S : ~(y < x)
  BY <1>1 DEF OpToRel
<1>3. \A y \in S : x <= y
  BY <1>2
<1> QED BY <1>3

\* A value computed in n steps exists.
Computes(f, n, R, x, step) ==
  /\ f \in [0..n -> R]
  /\ f[0] = x /\ \A i \in 1..n : f[i] = step[i][f[i - 1]]

LEMMA Recursion ==
  ASSUME NEW n \in Nat, NEW R, NEW x \in R, NEW step \in [1..n -> [R -> R]]
  PROVE  \E f : Computes(f, n, R, x, step)
<1> DEFINE P(m, f) == f[0] = x /\ \A i \in 1..m : f[i] = step[i][f[i - 1]]
           Bad == {m \in 0..n : ~\E f \in [0..m -> R] : P(m, f)}
<1>1. Bad = {}
  <2> SUFFICES ASSUME Bad # {} PROVE FALSE
    OBVIOUS
  <2>1. PICK m \in Bad : \A l \in Bad : m <= l
    <3>1. Bad \subseteq Nat
      OBVIOUS
    <3> HIDE DEF Bad
    <3> QED BY <3>1, LeastMember
  <2>2. CASE m = 0
    <3>1. [i \in 0..0 |-> x] \in [0..m -> R] /\ P(m, [i \in 0..0 |-> x])
      BY <2>2
    <3> QED BY <3>1
  <2>3. CASE m # 0
    <3>1. m \in 1..n /\ m - 1 \in 0..n /\ m - 1 \notin Bad
      <4>1. m \in 1..n
        BY <2>3
      <4>2. m - 1 \in 0..n /\ ~(m <= m - 1)
        BY <4>1
      <4> HIDE DEF Bad
      <4> QED BY <2>1, <4>1, <4>2
    <3>2. PICK f \in [0..m - 1 -> R] : P(m - 1, f)
      BY <3>1
    <3> DEFINE g == [i \in 0..m |-> IF i = m THEN step[m][f[m - 1]] ELSE f[i]]
    <3>3. \A i \in 0..m - 1 : g[i] = f[i] /\ f[i] \in R
      BY <3>1
    <3>4. g[m] = step[m][f[m - 1]] /\ g[m] \in R
      BY <3>1, <3>3
    <3>5. g \in [0..m -> R]
      BY <3>1, <3>3, <3>4
    <3>6. P(m, g)
      <4>1. g[0] = x
        BY <3>1, <3>2, <3>3
      <4>2. ASSUME NEW i \in 1..m PROVE g[i] = step[i][g[i - 1]]
        <5>1. i - 1 \in 0..m - 1 /\ g[i - 1] = f[i - 1]
          BY <3>1, <3>3
        <5>2. CASE i = m
          BY <3>4, <5>1, <5>2
        <5>3. CASE i # m
          <6>1. i \in 1..m - 1 /\ i \in 0..m - 1
            BY <3>1, <5>3
          <6> QED BY <3>2, <3>3, <5>1, <6>1
        <5> QED BY <5>2, <5>3
      <4> HIDE DEF g
      <4> QED BY <4>1, <4>2
    <3> HIDE DEF g, P
    <3> QED BY <3>5, <3>6
  <2> QED BY <2>2, <2>3
<1>2. PICK f \in [0..n -> R] : P(n, f)
  <2>1. n \in 0..n
    OBVIOUS
  <2>2. ~(n \in 0..n /\ ~\E f \in [0..n -> R] : P(n, f))
    <3> HIDE DEF P
    <3>1. n \notin Bad
      <4> HIDE DEF Bad
      <4> QED BY <1>1
    <3> QED BY <3>1
  <2> QED BY <2>1, <2>2
<1> QED BY <1>2 DEF Computes

\* A recursive function on 0..n whose steps stay in R has its values there.
LEMMA RecursionStays ==
  ASSUME NEW n \in Nat, NEW R, NEW f,
         f[0] \in R, \A i \in 1..n : f[i - 1] \in R => f[i] \in R
  PROVE  \A i \in 0..n : f[i] \in R
<1> DEFINE Bad == {i \in 0..n : f[i] \notin R}
<1> SUFFICES ASSUME Bad # {} PROVE FALSE
  OBVIOUS
<1>1. PICK m \in Bad : \A l \in Bad : m <= l
  <2>1. Bad \subseteq Nat
    OBVIOUS
  <2> HIDE DEF Bad
  <2> QED BY <2>1, LeastMember
<1>2. m \in 1..n /\ m - 1 \in 0..n /\ ~(m <= m - 1)
  OBVIOUS
<1>3. m - 1 \notin Bad
  <2> HIDE DEF Bad
  <2> QED BY <1>1, <1>2
<1> QED BY <1>2, <1>3

\* Bytes make a word.
LEMMA WordsAreNumbers ==
  ASSUME NEW content, NEW psize \in Nat, NEW order, NEW pos \in Nat,
         \A b \in DOMAIN content : content[b] \in Nat
  PROVE  Reader!ReadAs(content, psize, order, pos) \in Nat
<1> DEFINE byte(j) == Reader!ByteAt(content, IF order = "Big" THEN pos + j - 1 ELSE pos + psize - j)
           Body(f) == [j \in 0..psize |-> IF j = 0 THEN 0 ELSE f[j - 1] * ByteBase + byte(j)]
           value == CHOOSE f : f = Body(f)
           step == [j \in 1..psize |-> [v \in Nat |-> v * ByteBase + byte(j)]]
<1>1. \A j : byte(j) \in Nat
  BY DEF Reader!ByteAt
<1> HIDE DEF byte
<1>2. \A v \in Nat, j \in 1..psize : v * ByteBase + byte(j) \in Nat
  BY <1>1, FinderAssumption
<1>3. step \in [1..psize -> [Nat -> Nat]]
  BY <1>2
<1>4. \A j \in 1..psize, v \in Nat : step[j][v] = v * ByteBase + byte(j)
  OBVIOUS
<1> HIDE DEF step
<1>5. PICK f : Computes(f, psize, Nat, 0, step)
  <2>1. 0 \in Nat
    OBVIOUS
  <2> QED BY <1>3, <2>1, Recursion
<1>6. f = Body(f)
  <2>1. ASSUME NEW j \in 0..psize
        PROVE  f[j] = IF j = 0 THEN 0 ELSE f[j - 1] * ByteBase + byte(j)
    <3>1. CASE j # 0
      <4>1. j \in 1..psize /\ j - 1 \in 0..psize /\ f[j - 1] \in Nat
        BY <1>5, <3>1 DEF Computes
      <4> QED BY <1>4, <1>5, <3>1, <4>1 DEF Computes
    <3> QED BY <1>5, <3>1 DEF Computes
  <2>2. DOMAIN f = 0..psize /\ f = [j \in 0..psize |-> f[j]]
    BY <1>5 DEF Computes
  <2> QED BY <2>1, <2>2
<1>7. value = Body(value)
  <2> HIDE DEF Body
  <2> QED BY <1>6
<1>8. value[psize] \in Nat
  <2> HIDE DEF value
  <2>1. value[0] \in Nat
    BY <1>7
  <2>2. ASSUME NEW j \in 1..psize, value[j - 1] \in Nat PROVE value[j] \in Nat
    <3>1. j # 0 /\ j \in 0..psize
      OBVIOUS
    <3>2. value[j] = value[j - 1] * ByteBase + byte(j)
      BY <1>7, <3>1
    <3> QED BY <1>2, <2>2, <3>2
  <2>3. \A j \in 0..psize : value[j] \in Nat
    BY <2>1, <2>2, RecursionStays
  <2> QED BY <2>3
<1> QED BY <1>8 DEF Reader!ReadAs, byte

-----------------------------------------------------------------------------
\* The image.

ImageInv == Fits(input) /\ input = Loaded(input)

\* What the stages use of the image.
ImageFacts ==
  /\ input.psize \in Nat \ {0} /\ input.length \in Nat
  /\ input.length + MaxMembers * input.psize <= AddrMod
  /\ DOMAIN input.content = 0..input.length - 1
  /\ \A b \in DOMAIN input.content : input.content[b] \in 0..ByteBase - 1
  /\ DOMAIN input.words = 0..(input.length - 1) \div input.psize
  /\ \A w \in DOMAIN input.words : input.words[w] \in Nat
  /\ input.base \in 0..AddrMod - 1
  /\ input.regions \in Seq([offset : Nat, size : Nat, type : Listing!RegionType])
  /\ input.symbols \in BOOLEAN
  /\ input.pois \in Seq([type : STRING, offset : Nat, count : Nat])

LEMMA InitImageInv ==
  ASSUME Init
  PROVE  ImageInv
<1>1. PICK image \in Inputs : input = Loaded(image)
  BY DEF Init
<1>2. Fits(image)
  BY <1>1, InputsFit
<1> QED BY <1>1, <1>2 DEF ImageInv, Fits, Loaded

LEMMA ImageIsSound ==
  ASSUME ImageInv
  PROVE  ImageFacts
<1> DEFINE size == Cardinality(DOMAIN input.content)
<1>1. Fits(input) /\ input.length = size
      /\ input.words = Reader!WordsOf(input.content, input.psize, input.order)
  BY DEF ImageInv, Loaded
<1>2. /\ input.psize \in Nat \ {0}
      /\ input.content \in [0..size - 1 -> 0..ByteBase - 1]
      /\ size + MaxMembers * input.psize <= AddrMod
      /\ input.base \in 0..AddrMod - 1
      /\ input.regions \in Seq([offset : Nat, size : Nat, type : Listing!RegionType])
      /\ input.symbols \in BOOLEAN
      /\ input.pois \in Seq([type : STRING, offset : Nat, count : Nat])
  BY <1>1 DEF Fits
<1>3. size \in Nat
  BY <1>1, FS_CardinalityType DEF Fits
<1> HIDE DEF size
<1>4. DOMAIN input.content = 0..input.length - 1
      /\ \A b \in DOMAIN input.content : input.content[b] \in 0..ByteBase - 1
  BY <1>1, <1>2
<1>5. DOMAIN input.words = 0..(input.length - 1) \div input.psize
      /\ \A w \in DOMAIN input.words :
           input.words[w]
             = Reader!ReadAs(input.content, input.psize, input.order, w * input.psize)
  <2>1. Cardinality(DOMAIN input.content) = input.length
    BY <1>1 DEF size
  <2>2. Reader!Cardinality(DOMAIN input.content) = input.length
    BY <2>1 DEF Reader!Cardinality, Cardinality
  <2> QED BY <1>1, <2>2 DEF Reader!WordsOf
<1>6. ASSUME NEW w \in DOMAIN input.words PROVE input.words[w] \in Nat
  <2>1. w \in Nat /\ w * input.psize \in Nat
    BY <1>1, <1>2, <1>3, <1>5
  <2>2. \A b \in DOMAIN input.content : input.content[b] \in Nat
    BY <1>4, FinderAssumption
  <2>3. Reader!ReadAs(input.content, input.psize, input.order, w * input.psize) \in Nat
    BY <1>2, <2>1, <2>2, WordsAreNumbers
  <2> QED BY <1>5, <2>3
<1> QED BY <1>1, <1>2, <1>3, <1>4, <1>5, <1>6 DEF ImageFacts

-----------------------------------------------------------------------------
\* The listing: what it indexes.

\* A word scanned outside the code, in the address range of the image unless
\* symbols told that it is a pointer; generic only if it points into a region.
Indexed(image, p) ==
  \E w \in Listing!DataWords(image) :
    /\ p.offset = w * image.psize
    /\ ~image.symbols => Listing!InRange(image, image.words[w], image.base)
    /\ p.type = "GenericPointer" =>
         Listing!TargetType(image, w, image.base) # Listing!Unknown

PoiOf(image) ==
  {p \in [offset : Nat, type : Listing!PointerType] : Indexed(image, p)}

LEMMA FlattenStays ==
  ASSUME NEW n \in Nat, NEW S, NEW lists \in [1..n -> Seq(S)]
  PROVE  Listing!FlattenSeq(lists) \in Seq(S)
<1>1. Len(lists) = n /\ DOMAIN lists = 1..n
  BY LenProperties
<1>2. CASE n = 0
  <2>1. lists = <<>>
    BY <1>2
  <2> QED BY <1>1, <1>2, <2>1 DEF Listing!FlattenSeq
<1>3. CASE n # 0
  <2> DEFINE Body(f) == [i \in 1..n |-> IF i = 1 THEN lists[i] ELSE f[i - 1] \o lists[i]]
             flatten == CHOOSE f : f = Body(f)
             step == [i \in 1..n |-> [l \in Seq(S) |-> l \o lists[i]]]
  <2>1. step \in [1..n -> [Seq(S) -> Seq(S)]]
    OBVIOUS
  <2>2. \A i \in 1..n, l \in Seq(S) : step[i][l] = l \o lists[i]
    OBVIOUS
  <2>3. 1 \in 1..n /\ n \in 1..n /\ lists[1] \in Seq(S)
    BY <1>3
  <2> DEFINE later == [i \in 1..n - 1 |-> step[i + 1]]
  <2>4. later \in [1..n - 1 -> [Seq(S) -> Seq(S)]] /\ \A i \in 1..n - 1 : later[i] = step[i + 1]
    <3>1. \A i \in 1..n - 1 : i + 1 \in 1..n
      OBVIOUS
    <3> HIDE DEF step
    <3> QED BY <2>1, <3>1
  <2> HIDE DEF step, later
  <2>5. PICK g : Computes(g, n - 1, Seq(S), lists[1], later)
    <3>1. n - 1 \in Nat
      BY <1>3
    <3> QED BY <2>3, <2>4, <3>1, Recursion
  <2> DEFINE f == [i \in 1..n |-> g[i - 1]]
  <2>6. f = Body(f)
    <3>1. ASSUME NEW i \in 1..n
          PROVE  f[i] = IF i = 1 THEN lists[i] ELSE f[i - 1] \o lists[i]
      <4>1. CASE i = 1
        BY <2>5, <4>1 DEF Computes
      <4>2. CASE i # 1
        <5>1. i - 1 \in 1..n - 1 /\ i - 1 \in 1..n /\ i - 1 - 1 \in 0..n - 1 /\ i - 1 + 1 = i
          BY <4>2
        <5>2. g[i - 1] = step[i][g[i - 1 - 1]] /\ g[i - 1 - 1] \in Seq(S)
          BY <2>4, <2>5, <5>1 DEF Computes
        <5>3. f[i - 1] = g[i - 1 - 1] /\ f[i] = g[i - 1]
          BY <5>1
        <5> QED BY <2>2, <4>2, <5>2, <5>3
      <4> QED BY <4>1, <4>2
    <3>2. DOMAIN f = 1..n /\ f = [i \in 1..n |-> f[i]]
      OBVIOUS
    <3> HIDE DEF f
    <3> QED BY <3>1, <3>2
  <2>7. flatten = Body(flatten)
    <3> HIDE DEF Body, f
    <3> QED BY <2>6
  <2>8. flatten[n] \in Seq(S)
    <3> HIDE DEF flatten
    <3> DEFINE h == [i \in 0..n |-> IF i = 0 THEN lists[1] ELSE flatten[i]]
    <3>1. h[0] \in Seq(S) /\ h[n] = flatten[n]
      BY <1>3, <2>3
    <3>2. ASSUME NEW i \in 1..n, h[i - 1] \in Seq(S) PROVE h[i] \in Seq(S)
      <4>1. h[i] = flatten[i] /\ lists[i] \in Seq(S)
        OBVIOUS
      <4>2. CASE i = 1
        <5>1. flatten[i] = lists[i]
          BY <2>7, <4>2
        <5> QED BY <4>1, <5>1
      <4>3. CASE i # 1
        <5>1. i - 1 \in 1..n
          BY <4>3
        <5>2. h[i - 1] = flatten[i - 1]
          BY <5>1
        <5>3. flatten[i] = flatten[i - 1] \o lists[i]
          BY <2>7, <4>3
        <5> HIDE DEF h
        <5> QED BY <3>2, <4>1, <5>2, <5>3
      <4> QED BY <4>2, <4>3
    <3> HIDE DEF h
    <3>3. \A i \in 0..n : h[i] \in Seq(S)
      BY <3>1, <3>2, RecursionStays
    <3> QED BY <3>1, <3>3
  <2> QED BY <1>1, <1>3, <2>8 DEF Listing!FlattenSeq
<1> QED BY <1>2, <1>3

LEMMA GetTypeIsType ==
  ASSUME ImageFacts, NEW o \in Nat
  PROVE  Listing!GetType(input.regions, o) \in Listing!RegionType \cup {Listing!Unknown}
<1> DEFINE regions == input.regions
           hits == {i \in DOMAIN regions : Listing!Covers(regions[i], o)}
<1>1. hits \subseteq Nat /\ \A i \in hits : regions[i].type \in Listing!RegionType
  <2> DEFINE R == [offset : Nat, size : Nat, type : Listing!RegionType]
  <2>1. regions \in Seq(R)
    BY DEF ImageFacts
  <2>2. DOMAIN regions = 1..Len(regions) /\ \A i \in 1..Len(regions) : regions[i] \in R
    <3> HIDE DEF R
    <3> QED BY <2>1
  <2>3. \A r \in R : r.type \in Listing!RegionType
    OBVIOUS
  <2>4. hits \subseteq 1..Len(regions)
    BY <2>2
  <2> QED BY <2>2, <2>3, <2>4
<1>2. CASE hits = {}
  BY <1>2 DEF Listing!GetType
<1>3. CASE hits # {}
  <2> DEFINE first == CHOOSE i \in hits : \A l \in hits : i <= l
  <2>1. first \in hits
    <3> HIDE DEF hits
    <3>1. \E i \in hits : \A l \in hits : i <= l
      BY <1>1, <1>3, LeastMember
    <3> QED BY <3>1
  <2>2. Listing!GetType(regions, o) = regions[first].type
    BY <1>3 DEF Listing!GetType
  <2> HIDE DEF first, hits
  <2> QED BY <1>1, <2>1, <2>2
<1> QED BY <1>2, <1>3

LEMMA ListingCardinality ==
  \A S : Listing!Cardinality(S) = Cardinality(S)
BY DEF Listing!Cardinality, Cardinality

LEMMA SubIsAddress ==
  ASSUME NEW v \in Int, NEW b \in Int
  PROVE  Listing!Sub(v, b) \in Nat /\ Listing!Sub(v, b) < AddrMod
BY FinderAssumption DEF Listing!Sub

\* What the scan of the words finds.
FoundPointers == Listing!IndexPoiPointers(input, input.pois, input.base)

LEMMA FoundAreIndexed ==
  ASSUME ImageFacts, NEW p \in FoundPointers, NEW o, o = p.at * input.psize
  PROVE  [offset |-> o, type |-> p.type] \in PoiOf(input)
<1>1. Listing!DataWords(input) \subseteq Nat
  BY DEF ImageFacts, Listing!DataWords, Listing!Scanned
<1>2. CASE input.symbols
  <2>1. PICK w \in Listing!DataWords(input), i \in DOMAIN input.pois :
          p = Listing!Pointer(w, i, "FunctionPointer")
    BY <1>2 DEF FoundPointers, Listing!IndexPoiPointers, Listing!SymbolPointers
  <2>2. p.at = w /\ p.type = "FunctionPointer"
    BY <2>1 DEF Listing!Pointer
  <2>3. o \in Nat
    <3>1. p.at \in Nat /\ input.psize \in Nat
      BY <1>1, <2>1, <2>2, Zenon DEF ImageFacts
    <3> QED BY <3>1
  <2>4. Indexed(input, [offset |-> o, type |-> p.type])
    BY <1>2, <2>2 DEF Indexed
  <2> QED BY <2>2, <2>3, <2>4 DEF PoiOf, Listing!PointerType
<1>3. CASE ~input.symbols
  <2>1. PICK w \in Listing!DataWords(input) :
          /\ p = Listing!Pointer(w, 0, IF Listing!TargetType(input, w, input.base) = "Code"
                                         THEN "FunctionPointer" ELSE "GenericPointer")
          /\ Listing!InRange(input, input.words[w], input.base)
          /\ Listing!TargetType(input, w, input.base) \notin {Listing!Unknown, "UninitData"}
    BY <1>3 DEF FoundPointers, Listing!IndexPoiPointers, Listing!PlausiblePointers
  <2>2. p.at = w /\ p.type \in {"FunctionPointer", "GenericPointer"}
    BY <2>1 DEF Listing!Pointer
  <2>3. o \in Nat
    BY <1>1, <2>2 DEF ImageFacts
  <2>4. Indexed(input, [offset |-> o, type |-> p.type])
    BY <2>1, <2>2 DEF Indexed
  <2> QED BY <2>2, <2>3, <2>4 DEF PoiOf, Listing!PointerType
<1> QED BY <1>2, <1>3

LEMMA FewPerWord ==
  ASSUME ImageFacts, NEW w
  PROVE  IsFiniteSet({p \in FoundPointers : p.at = w})
<1> DEFINE here == {p \in FoundPointers : p.at = w}
<1>1. CASE input.symbols
  <2> DEFINE n == Len(input.pois)
             f == [i \in 1..n |-> Listing!Pointer(w, i, "FunctionPointer")]
             T == {f[i] : i \in 1..n}
  <2>1. n \in Nat /\ DOMAIN input.pois = 1..n
    BY DEF ImageFacts
  <2>2. f \in Surjection(1..n, T)
    BY DEF Surjection
  <2>3. IsFiniteSet(T)
    <3>1. IsFiniteSet(1..n)
      BY <2>1, FS_Interval
    <3> HIDE DEF f, T, n
    <3> QED BY <2>2, <3>1, FS_Surjection
  <2>4. here \subseteq T
    <3>1. ASSUME NEW p \in here PROVE p \in T
      <4>1. PICK v \in Listing!DataWords(input), i \in DOMAIN input.pois :
              p = Listing!Pointer(v, i, "FunctionPointer")
        BY <1>1 DEF FoundPointers, Listing!IndexPoiPointers, Listing!SymbolPointers
      <4>2. v = w
        BY <4>1 DEF Listing!Pointer
      <4>3. p = f[i] /\ i \in 1..n
        BY <2>1, <4>1, <4>2
      <4> QED BY <4>3
    <3> QED BY <3>1
  <2> HIDE DEF T, here
  <2> QED BY <2>3, <2>4, FS_Subset DEF here
<1>2. CASE ~input.symbols
  <2> DEFINE a == Listing!Pointer(w, 0, "FunctionPointer")
             b == Listing!Pointer(w, 0, "GenericPointer")
  <2>1. here \subseteq {a} \cup {b}
    <3>1. ASSUME NEW p \in here PROVE p \in {a} \cup {b}
      <4>1. PICK v \in Listing!DataWords(input) :
              p = Listing!Pointer(v, 0, IF Listing!TargetType(input, v, input.base) = "Code"
                                          THEN "FunctionPointer" ELSE "GenericPointer")
        BY <1>2 DEF FoundPointers, Listing!IndexPoiPointers, Listing!PlausiblePointers
      <4>2. v = w
        BY <4>1 DEF Listing!Pointer
      <4> QED BY <4>1, <4>2
    <3> QED BY <3>1
  <2>2. IsFiniteSet({a} \cup {b})
    BY FS_Singleton, FS_AddElement
  <2> HIDE DEF here, a, b
  <2> QED BY <2>1, <2>2, FS_Subset DEF here
<1> QED BY <1>1, <1>2

\* The list index_poi_pointers returns.
LEMMA ListedAreIndexed ==
  ASSUME ImageFacts
  PROVE  Listing!FlattenSeq([w \in 1..Listing!Cardinality(DOMAIN input.words) |->
                               Listing!Listed(FoundPointers, w - 1)])
           \in Seq(PoiOf(input))
<1> DEFINE n == Listing!Cardinality(DOMAIN input.words)
           lists == [w \in 1..n |-> Listing!Listed(FoundPointers, w - 1)]
<1>1. n \in Nat
  <2>1. (input.length - 1) \div input.psize \in Int
    BY DEF ImageFacts
  <2>2. IsFiniteSet(DOMAIN input.words)
    BY <2>1, FS_Interval DEF ImageFacts
  <2> QED BY <2>2, FS_CardinalityType, ListingCardinality
<1>2. ASSUME NEW w PROVE Listing!Listed(FoundPointers, w) \in Seq(PoiOf(input))
  <2> DEFINE here == {p \in FoundPointers : p.at = w}
             some == CHOOSE p \in here : TRUE
             poi == [offset |-> w * input.psize, type |-> some.type]
  <2>1. IsFiniteSet(here)
    BY FewPerWord
  <2>2. Cardinality(here) \in Nat
    <3> HIDE DEF here
    <3> QED BY <2>1, FS_CardinalityType
  <2>3. ASSUME NEW j \in 1..Cardinality(here) PROVE poi \in PoiOf(input)
    <3>1. here # {}
      <4> HIDE DEF here
      <4> QED BY FS_EmptySet
    <3>2. some \in here
      <4> HIDE DEF here
      <4> QED BY <3>1
    <3>3. some \in FoundPointers /\ w * input.psize = some.at * input.psize
      BY <3>2
    <3> HIDE DEF some
    <3> QED BY <3>3, FoundAreIndexed
  <2>4. Listing!Listed(FoundPointers, w) = [j \in 1..Cardinality(here) |-> poi]
    BY ListingCardinality DEF Listing!Listed
  <2> HIDE DEF here, poi
  <2> QED BY <2>2, <2>3, <2>4
<1>3. lists \in [1..n -> Seq(PoiOf(input))]
  <2> HIDE DEF n
  <2> QED BY <1>2
<1> HIDE DEF n, lists
<1>4. Listing!FlattenSeq(lists) \in Seq(PoiOf(input))
  BY <1>1, <1>3, FlattenStays
<1> QED BY <1>4 DEF n, lists

LEMMA PoiFields ==
  ASSUME NEW p \in PoiOf(input)
  PROVE  /\ p.offset \in Nat /\ p.type \in Listing!PointerType
         /\ p = [offset |-> p.offset, type |-> p.type]
         /\ Indexed(input, p)
BY DEF PoiOf

\* The pointer read at an indexed offset is the word found there.
LEMMA ReadIndexed ==
  ASSUME ImageFacts, NEW p \in PoiOf(input)
  PROVE  /\ p.type = "GenericPointer" =>
              Listing!GetType(input.regions, Listing!Sub(Listing!Read(p), input.base))
                # Listing!Unknown
         /\ Listing!GetType(input.regions, Listing!Sub(Listing!Read(p), input.base))
              \in Listing!RegionType \cup {Listing!Unknown}
         /\ p.offset < input.length - input.psize
<1>1. PICK w \in Listing!DataWords(input) :
        /\ p.offset = w * input.psize
        /\ p.type = "GenericPointer" =>
             Listing!TargetType(input, w, input.base) # Listing!Unknown
  BY PoiFields DEF Indexed
<1>2. w \in DOMAIN input.words /\ w \in Nat /\ w * input.psize < input.length - input.psize
  BY DEF ImageFacts, Listing!DataWords, Listing!Scanned
<1>3. p.offset \div input.psize = w
  <2>1. input.psize \in Nat \ {0}
    BY DEF ImageFacts
  <2>2. (w * input.psize) \div input.psize = w
    BY <1>2, <2>1
  <2> QED BY <1>1, <2>2
<1>4. Listing!Read(p) = input.words[w]
  BY <1>3 DEF Listing!Read
<1>5. Listing!Sub(input.words[w], input.base) \in Nat
  <2>1. input.words[w] \in Int /\ input.base \in Int
    BY <1>2 DEF ImageFacts
  <2> QED BY <2>1, SubIsAddress
<1> QED BY <1>1, <1>2, <1>4, <1>5, GetTypeIsType DEF Listing!TargetType

-----------------------------------------------------------------------------
\* The listing: its invariant.

Early == {"indexing", "retyping strings", "retyping regions"}

PointersInv ==
  /\ pointers \in Seq(PoiOf(input))
  /\ pc = "indexing" => pointers = <<>>
  /\ pc \notin Early => \A j \in DOMAIN pointers : pointers[j].type # "GenericPointer"

Run == [offset : Nat, type : Listing!PointerType \cup {"Unknown"}, count : Nat]

\* The open run ends at the pointer read last, and arrays begin at pointers.
RunInv ==
  /\ pc \in Early =>
       next = 1 /\ inArray = FALSE /\ run = Listing!NoRun /\ last = 0 /\ arrays = <<>>
  /\ inArray \in BOOLEAN
  /\ run \in Run /\ run.count <= Len(pointers)
  /\ last \in {0} \cup {pointers[j].offset : j \in DOMAIN pointers}
  /\ arrays \in Seq(Run)
  /\ \A a \in DOMAIN arrays : \E j \in DOMAIN pointers : pointers[j].offset = arrays[a].offset
  /\ pc = "arrays" =>
       /\ next \in 1..Len(pointers) + 1
       /\ run.count <= next - 1
       /\ inArray =>
            /\ next > 1 /\ run.count >= 1
            /\ last = pointers[next - 1].offset
            /\ run.type = pointers[next - 1].type
            /\ run.offset + (run.count - 1) * input.psize = last
            /\ \E j \in DOMAIN pointers : pointers[j].offset = run.offset

Chain(i, m) ==
  \A j \in i + 1..m : /\ pointers[j].offset = pointers[j - 1].offset + input.psize
                      /\ pointers[j].type = pointers[i].type

\* Pointers in a row up to the one read last are all in the open run, but
\* perhaps the first of them; those that ended before are in an array.
OpenChains ==
  \A i \in 1..next - 2 :
    Chain(i, next - 1) =>
      /\ inArray
      /\ run.count >= next - 1 - i
      /\ run.offset <= pointers[i + 1].offset
      /\ run.type = pointers[i].type

RunsFoundUpTo(m) ==
  \A i \in 1..m : \A j \in i + ArrayMin + 1..m - 1 :
    Listing!RunAt(i, j) =>
      \E a \in DOMAIN arrays :
        /\ arrays[a].offset <= pointers[i + 1].offset
        /\ arrays[a].offset + (arrays[a].count - 1) * input.psize = pointers[j].offset

FoundInv ==
  /\ pc = "arrays" => OpenChains /\ RunsFoundUpTo(next - 1)
  /\ pc = "merging" => RunsFoundUpTo(Len(pointers))

Ascending(l) == \A i, j \in DOMAIN l : i < j => l[i].offset < l[j].offset

\* The merged list holds the first of all entries of one offset.
MergedFrom(l, entries, m) ==
  /\ \A i \in 1..m : \E j \in DOMAIN l : l[j].offset = entries[i].offset
  /\ \A j \in DOMAIN l : \E i \in 1..m :
       /\ entries[i] = l[j]
       /\ \A o \in 1..i - 1 : entries[o].offset # entries[i].offset

MergeInv ==
  /\ pc \notin {"merging", "done"} => sorted = <<>>
  /\ pc \in {"merging", "done"} =>
       /\ next \in 1..Len(Listing!ToMerge) + 1
       /\ sorted \in Seq(PoiOf(input))
       /\ Ascending(sorted)
       /\ MergedFrom(sorted, Listing!ToMerge, next - 1)

\* A stage starts when the one before it is done.
PhaseInv ==
  /\ pc \in Early \cup {"arrays", "merging", "done"}
  /\ pc # "done" => Search!Init
  /\ pc # "done" \/ Search!AtPointer => Scan!Init

ListingInv == PhaseInv /\ PointersInv /\ RunInv /\ FoundInv /\ MergeInv

LEMMA InitListingInv ==
  ASSUME Init
  PROVE  ListingInv
<1>1. /\ pc = "indexing" /\ pointers = <<>> /\ next = 1 /\ inArray = FALSE
      /\ run = Listing!NoRun /\ last = 0 /\ arrays = <<>> /\ sorted = <<>>
      /\ Search!Init /\ Scan!Init
  BY DEF Init, Listing!Init
<1>2. PhaseInv
  BY <1>1 DEF PhaseInv, Early
<1>3. PointersInv /\ FoundInv /\ MergeInv
  BY <1>1, EmptySeq DEF PointersInv, FoundInv, MergeInv, Early
<1>4. RunInv
  <2>1. run \in Run /\ run.count = 0
    BY <1>1 DEF Run, Listing!NoRun
  <2>2. arrays \in Seq(Run) /\ DOMAIN arrays = {} /\ Len(pointers) = 0
    BY <1>1, EmptySeq
  <2>3. pc # "arrays" /\ inArray \in BOOLEAN
    BY <1>1
  <2>4. run.count <= Len(pointers)
    BY <2>1, <2>2
  <2> QED BY <1>1, <2>1, <2>2, <2>3, <2>4 DEF RunInv
<1> QED BY <1>2, <1>3, <1>4 DEF ListingInv

\* Before the loop over the pointers there is neither a run nor an array.
LEMMA NoRunYet ==
  ASSUME ListingInv, pc \in Early,
         UNCHANGED <<next, inArray, run, last, arrays>>,
         pc' \in Early \cup {"arrays"}, Len(pointers') \in Nat
  PROVE  RunInv' /\ next' - 1 = 0
<1>1. /\ next = 1 /\ run = Listing!NoRun /\ last = 0 /\ arrays = <<>>
      /\ run \in Run /\ arrays \in Seq(Run)
  BY DEF ListingInv, RunInv
<1>2. inArray = FALSE
  BY DEF ListingInv, RunInv
<1>3. /\ next' = 1 /\ run' = Listing!NoRun /\ last' = 0 /\ arrays' = <<>>
      /\ run' \in Run /\ arrays' \in Seq(Run)
  BY <1>1
<1>4. inArray' = FALSE
  BY <1>2
<1>5. run'.count = 0 /\ DOMAIN arrays' = {}
  BY <1>3, EmptySeq DEF Listing!NoRun
<1>6. next' \in 1..Len(pointers') + 1 /\ run'.count <= Len(pointers') /\ run'.count <= next' - 1
      /\ next' - 1 = 0
  BY <1>3, <1>5
<1>7. inArray' \in BOOLEAN /\ last' \in {0}
  BY <1>3, <1>4
<1> QED BY <1>3, <1>4, <1>5, <1>6, <1>7 DEF RunInv

LEMMA IndexKeepsListing ==
  ASSUME ImageFacts, ListingInv, Listing!IndexPointers, UNCHANGED <<search, scan>>
  PROVE  ListingInv'
<1>1. /\ pc = "indexing" /\ pc' = "retyping strings"
      /\ UNCHANGED <<input, next, inArray, run, last, arrays, sorted>>
      /\ pointers' = Listing!FlattenSeq([w \in 1..Listing!Cardinality(DOMAIN input.words) |->
                                           Listing!Listed(FoundPointers, w - 1)])
  BY DEF Listing!IndexPointers, FoundPointers
<1>2. pointers' \in Seq(PoiOf(input'))
  BY <1>1, ListedAreIndexed
<1>3. PhaseInv'
  BY <1>1 DEF ListingInv, PhaseInv, Early, Search!Init, Scan!Init, search, scan, Search!AtPointer
<1>4. PointersInv' /\ FoundInv' /\ MergeInv'
  BY <1>1, <1>2 DEF ListingInv, PointersInv, FoundInv, MergeInv, Early
<1>5. RunInv'
  <2>1. Len(pointers') \in Nat
    BY <1>2
  <2>2. pc \in Early /\ pc' \in Early
    BY <1>1 DEF Early
  <2> QED BY <1>1, <2>1, <2>2, NoRunYet
<1> QED BY <1>3, <1>4, <1>5 DEF ListingInv

\* Retyping keeps offsets, and never makes a pointer generic.
LEMMA RetypeKeepsListing ==
  ASSUME ImageFacts, ListingInv, UNCHANGED <<search, scan>>,
         Listing!RetypeStringPointers \/ Listing!RetypeRegionPointers
  PROVE  ListingInv'
<1>1. /\ pc \in {"retyping strings", "retyping regions"}
      /\ pc' \in {"retyping regions", "arrays"}
      /\ pc' = "arrays" => Listing!RetypeRegionPointers
      /\ UNCHANGED <<input, next, inArray, run, last, arrays, sorted>>
  BY DEF Listing!RetypeStringPointers, Listing!RetypeRegionPointers
<1>2. pointers \in Seq(PoiOf(input)) /\ Len(pointers) \in Nat
      /\ DOMAIN pointers = 1..Len(pointers)
  BY DEF ListingInv, PointersInv
<1>3. ASSUME NEW j \in DOMAIN pointers
      PROVE  /\ pointers'[j] \in PoiOf(input)
             /\ Listing!RetypeRegionPointers => pointers'[j].type # "GenericPointer"
  <2> DEFINE p == pointers[j]
             target == Listing!GetType(input.regions, Listing!Sub(Listing!Read(p), input.base))
  <2>1. p \in PoiOf(input)
    BY <1>2
  <2>2. /\ p.offset \in Nat /\ p.type \in Listing!PointerType
        /\ p = [offset |-> p.offset, type |-> p.type]
        /\ Indexed(input, p)
        /\ p.type = "GenericPointer" => target # Listing!Unknown
        /\ target \in Listing!RegionType \cup {Listing!Unknown}
    BY <2>1, PoiFields, ReadIndexed
  <2>3. ASSUME NEW t \in Listing!PointerType \ {"GenericPointer"}
        PROVE  [p EXCEPT !.type = t] \in PoiOf(input) /\ [p EXCEPT !.type = t].type = t
    <3> DEFINE q == [p EXCEPT !.type = t]
    <3>1. q = [offset |-> p.offset, type |-> t]
      BY <2>2
    <3>2. q.offset = p.offset /\ q.type = t
      BY <3>1
    <3>3. q \in [offset : Nat, type : Listing!PointerType]
      BY <2>2, <3>1
    <3> HIDE DEF q, p
    <3>4. Indexed(input, q)
      BY <2>2, <3>2 DEF Indexed
    <3> QED BY <3>2, <3>3, <3>4 DEF PoiOf, q
  <2>4. CASE Listing!RetypeStringPointers
    <3>1. pointers'[j] \in {p, [p EXCEPT !.type = "StringPointer"]}
      BY <2>4 DEF Listing!RetypeStringPointers
    <3>2. ~Listing!RetypeRegionPointers
      BY <2>4 DEF Listing!RetypeStringPointers, Listing!RetypeRegionPointers
    <3> HIDE DEF p
    <3> QED BY <2>1, <2>3, <3>1, <3>2 DEF Listing!PointerType
  <2>5. CASE Listing!RetypeRegionPointers
    <3>1. pointers'[j] = IF target = Listing!Unknown THEN p
                         ELSE [p EXCEPT !.type = Listing!RegionPointer[target]]
      BY <2>5 DEF Listing!RetypeRegionPointers
    <3>2. ASSUME target # Listing!Unknown
          PROVE  Listing!RegionPointer[target] \in Listing!PointerType \ {"GenericPointer"}
      BY <2>2, <3>2 DEF Listing!RegionPointer, Listing!PointerType, Listing!RegionType
    <3> HIDE DEF p, target
    <3> QED BY <2>1, <2>2, <2>3, <3>1, <3>2
  <2> QED BY <2>4, <2>5
<1>4. DOMAIN pointers' = DOMAIN pointers /\ pointers' = [j \in DOMAIN pointers |-> pointers'[j]]
  BY DEF Listing!RetypeStringPointers, Listing!RetypeRegionPointers
<1>5. pointers' \in Seq(PoiOf(input)) /\ Len(pointers') = Len(pointers)
  BY <1>2, <1>3, <1>4
<1>6. PointersInv'
  BY <1>1, <1>3, <1>4, <1>5 DEF PointersInv, Early
<1>7. PhaseInv'
  BY <1>1 DEF ListingInv, PhaseInv, Early, Search!Init, Scan!Init, search, scan, Search!AtPointer
<1>8. RunInv' /\ next' - 1 = 0
  <2>1. Len(pointers') \in Nat
    BY <1>2, <1>5
  <2>2. pc \in Early /\ pc' \in Early \cup {"arrays"}
    BY <1>1 DEF Early
  <2> QED BY <1>1, <2>1, <2>2, NoRunYet
<1>9. FoundInv'
  <2>1. OpenChains'
    BY <1>8 DEF OpenChains
  <2>2. RunsFoundUpTo(next - 1)'
    BY <1>8 DEF RunsFoundUpTo
  <2> QED BY <1>1, <2>1, <2>2 DEF FoundInv
<1>10. MergeInv'
  BY <1>1 DEF ListingInv, MergeInv
<1> QED BY <1>6, <1>7, <1>8, <1>9, <1>10 DEF ListingInv

\* What a step of the loop over the pointers finds.
LoopFacts ==
  /\ pc = "arrays" /\ next \in 1..Len(pointers) /\ Len(pointers) \in Nat
  /\ input.psize \in Nat \ {0}
  /\ \A j \in 1..Len(pointers) :
       pointers[j].offset \in Nat /\ pointers[j].type \in Listing!PointerType
  /\ run.offset \in Nat /\ run.count \in Nat /\ run.count <= next - 1 /\ run \in Run
  /\ run.type \in Listing!PointerType \cup {"Unknown"}
  /\ inArray =>
       /\ next > 1 /\ run.count >= 1
       /\ last = pointers[next - 1].offset
       /\ run.type = pointers[next - 1].type
       /\ run.offset + (run.count - 1) * input.psize = last
       /\ run.offset <= last

LEMMA ChainKept ==
  ASSUME UNCHANGED <<input, pointers>>
  PROVE  \A i, j : Chain(i, j)' = Chain(i, j)
BY DEF Chain

LEMMA LoopStep ==
  ASSUME ImageFacts, ListingInv, Listing!AtPointer
  PROVE  LoopFacts
<1>1. pc = "arrays" /\ next <= Len(pointers)
  BY DEF Listing!AtPointer
<1>2. input.psize \in Nat \ {0}
  BY DEF ImageFacts
<1>3. pointers \in Seq(PoiOf(input)) /\ Len(pointers) \in Nat
  BY DEF ListingInv, PointersInv
<1>4. \A j \in 1..Len(pointers) :
        pointers[j].offset \in Nat /\ pointers[j].type \in Listing!PointerType
  BY <1>3, PoiFields
<1>5. next \in 1..Len(pointers) /\ run.count <= next - 1 /\ run \in Run
  BY <1>1, <1>3 DEF ListingInv, RunInv
<1>6. run.offset \in Nat /\ run.count \in Nat
      /\ run.type \in Listing!PointerType \cup {"Unknown"}
  BY <1>5 DEF Run
<1>7. ASSUME inArray
      PROVE  /\ next > 1 /\ run.count >= 1
             /\ last = pointers[next - 1].offset
             /\ run.type = pointers[next - 1].type
             /\ run.offset + (run.count - 1) * input.psize = last
             /\ run.offset <= last
  <2>1. /\ next > 1 /\ run.count >= 1
        /\ last = pointers[next - 1].offset
        /\ run.type = pointers[next - 1].type
        /\ run.offset + (run.count - 1) * input.psize = last
    BY <1>1, <1>7 DEF ListingInv, RunInv
  <2>2. (run.count - 1) * input.psize \in Nat
    BY <1>2, <1>6, <2>1
  <2> QED BY <1>6, <2>1, <2>2
<1> QED BY <1>1, <1>2, <1>3, <1>4, <1>5, <1>6, <1>7 DEF LoopFacts

LEMMA LoopKeepsRest ==
  ASSUME ListingInv, pc = "arrays",
         UNCHANGED <<input, pc, pointers, sorted, search, scan>>
  PROVE  PhaseInv' /\ PointersInv' /\ MergeInv'
<1>1. PhaseInv'
  BY DEF ListingInv, PhaseInv, Early, Search!Init, Scan!Init, search, scan, Search!AtPointer
<1>2. PointersInv' /\ MergeInv'
  BY DEF ListingInv, PointersInv, MergeInv, Early
<1> QED BY <1>1, <1>2

\* The pointer at hand continues a chain only if it adjoins the open run.
LEMMA ChainAdjoins ==
  ASSUME LoopFacts, OpenChains, NEW i \in 1..next - 1, Chain(i, next)
  PROVE  /\ pointers[i].type = pointers[next].type
         /\ inArray => Listing!Adjoins
         /\ i < next - 1 =>
              inArray /\ run.count >= next - 1 - i /\ run.offset <= pointers[i + 1].offset
         /\ i = next - 1 /\ inArray => run.offset <= pointers[i + 1].offset
<1>1. next \in i + 1..next /\ next \in Nat
  BY DEF LoopFacts
<1>2. pointers[next].offset = pointers[next - 1].offset + input.psize
      /\ pointers[next].type = pointers[i].type
  BY <1>1 DEF Chain
<1>3. CASE i < next - 1
  <2>1. i \in 1..next - 2
    BY <1>1, <1>3
  <2>2. Chain(i, next - 1)
    BY <1>1 DEF Chain
  <2>3. inArray /\ run.count >= next - 1 - i /\ run.offset <= pointers[i + 1].offset
        /\ run.type = pointers[i].type
    BY <2>1, <2>2 DEF OpenChains
  <2>4. Listing!Adjoins
    BY <1>2, <2>3 DEF Listing!Adjoins, LoopFacts
  <2> QED BY <1>1, <1>2, <1>3, <2>3, <2>4
<1>4. CASE i = next - 1
  <2>1. ASSUME inArray PROVE Listing!Adjoins /\ run.offset <= pointers[i + 1].offset
    <3>1. Listing!Adjoins
      BY <1>2, <1>4, <2>1 DEF Listing!Adjoins, LoopFacts
    <3>2. i + 1 = next /\ pointers[next].offset \in Nat /\ last \in Nat
          /\ input.psize \in Nat /\ run.offset \in Nat
      BY <1>1, <1>4, <2>1 DEF LoopFacts
    <3>3. run.offset <= last /\ pointers[next].offset = last + input.psize
      BY <1>2, <2>1 DEF LoopFacts
    <3> QED BY <3>1, <3>2, <3>3
  <2> QED BY <1>1, <1>2, <1>4, <2>1
<1> QED BY <1>1, <1>3, <1>4

\* The pointer at hand ends a long run only by breaking the open one.
LEMMA RunEnds ==
  ASSUME LoopFacts, OpenChains, NEW i \in 1..next,
         next - 1 >= i + ArrayMin + 1, Listing!RunAt(i, next - 1)
  PROVE  /\ inArray /\ ~Listing!Adjoins /\ Listing!LongEnough(run.count)
         /\ run.offset <= pointers[i + 1].offset
         /\ run.offset + (run.count - 1) * input.psize = pointers[next - 1].offset
<1>1. next \in Nat /\ ArrayMin \in Nat
  BY FinderAssumption DEF LoopFacts
<1>2. i \in 1..next - 2 /\ Chain(i, next - 1) /\ next - 1 + 1 = next
  BY <1>1 DEF Listing!RunAt, Chain
<1>3. inArray /\ run.count >= next - 1 - i /\ run.offset <= pointers[i + 1].offset
      /\ run.type = pointers[i].type
  BY <1>2 DEF OpenChains
<1>4. Listing!LongEnough(run.count)
  <2>1. run.count \in Nat
    BY DEF LoopFacts
  <2> QED BY <1>1, <1>3, <2>1 DEF Listing!LongEnough
<1>5. last = pointers[next - 1].offset /\ run.offset + (run.count - 1) * input.psize = last
  BY <1>3 DEF LoopFacts
<1>6. pointers[next].offset # last + input.psize \/ pointers[next].type # run.type
  BY <1>2, <1>3, <1>5 DEF Listing!RunAt
<1>7. ~Listing!Adjoins
  BY <1>6 DEF Listing!Adjoins
<1> QED BY <1>3, <1>4, <1>5, <1>7

\* A step that loses no array keeps the finished runs found, if it lists the
\* run it breaks.
LEMMA FoundStep ==
  ASSUME LoopFacts, OpenChains, RunsFoundUpTo(next - 1), next' = next + 1,
         UNCHANGED <<input, pointers>>,
         NEW n \in Nat, DOMAIN arrays = 1..n, DOMAIN arrays \subseteq DOMAIN arrays',
         \A a \in DOMAIN arrays : arrays'[a] = arrays[a],
         inArray /\ ~Listing!Adjoins /\ Listing!LongEnough(run.count) =>
           \E a \in DOMAIN arrays' : arrays'[a] = run
  PROVE  RunsFoundUpTo(next - 1)'
<1>1. next \in Nat \ {0} /\ ArrayMin \in Nat /\ next' - 1 = next
  BY FinderAssumption DEF LoopFacts
<1>2. \A i, j : Listing!RunAt(i, j)' = Listing!RunAt(i, j)
  BY DEF Listing!RunAt
<1> SUFFICES ASSUME NEW i \in 1..next, NEW j \in i + ArrayMin + 1..next - 1,
                    Listing!RunAt(i, j)
             PROVE  \E a \in DOMAIN arrays' :
                      /\ arrays'[a].offset <= pointers[i + 1].offset
                      /\ arrays'[a].offset + (arrays'[a].count - 1) * input.psize
                           = pointers[j].offset
  BY <1>1, <1>2 DEF RunsFoundUpTo
<1>3. CASE j = next - 1
  <2>1. /\ inArray /\ ~Listing!Adjoins /\ Listing!LongEnough(run.count)
        /\ run.offset <= pointers[i + 1].offset
        /\ run.offset + (run.count - 1) * input.psize = pointers[next - 1].offset
    BY <1>1, <1>3, RunEnds
  <2> QED BY <1>3, <2>1
<1>4. CASE j # next - 1
  <2>1. i \in 1..next - 1 /\ j \in i + ArrayMin + 1..next - 1 - 1
    BY <1>1, <1>4
  <2>2. PICK a \in DOMAIN arrays :
          /\ arrays[a].offset <= pointers[i + 1].offset
          /\ arrays[a].offset + (arrays[a].count - 1) * input.psize = pointers[j].offset
    BY <2>1 DEF RunsFoundUpTo
  <2> QED BY <2>2
<1> QED BY <1>3, <1>4

\* The invariants of the loop, at any of its steps.
LEMMA LoopInv ==
  ASSUME ListingInv, Listing!AtPointer
  PROVE  /\ OpenChains /\ RunsFoundUpTo(next - 1)
         /\ arrays \in Seq(Run) /\ Len(arrays) \in Nat /\ DOMAIN arrays = 1..Len(arrays)
         /\ \A a \in DOMAIN arrays : \E j \in DOMAIN pointers :
              pointers[j].offset = arrays[a].offset
         /\ inArray => \E j \in DOMAIN pointers : pointers[j].offset = run.offset
         /\ last \in {0} \cup {pointers[j].offset : j \in DOMAIN pointers}
         /\ DOMAIN pointers = 1..Len(pointers)
         /\ inArray \in BOOLEAN
<1>1. pc = "arrays"
  BY DEF Listing!AtPointer
<1>2. arrays \in Seq(Run)
  BY DEF ListingInv, RunInv
<1>3. pointers \in Seq(PoiOf(input))
  BY DEF ListingInv, PointersInv
<1> QED BY <1>1, <1>2, <1>3 DEF ListingInv, FoundInv, RunInv

LEMMA OpenRunKeepsListing ==
  ASSUME ImageFacts, ListingInv, Listing!OpenRun, UNCHANGED <<search, scan>>
  PROVE  ListingInv'
<1> DEFINE here == pointers[next]
<1>1. /\ Listing!AtPointer /\ ~inArray /\ inArray'
      /\ run' = [offset |-> here.offset, type |-> here.type, count |-> 1]
      /\ last' = here.offset /\ next' = next + 1
      /\ UNCHANGED <<input, pc, pointers, arrays, sorted>>
  BY DEF Listing!OpenRun
<1>2. inArray' \in BOOLEAN
  BY DEF Listing!OpenRun
<1>3. LoopFacts
  BY <1>1, LoopStep
<1>4. /\ OpenChains /\ RunsFoundUpTo(next - 1)
      /\ arrays \in Seq(Run) /\ Len(arrays) \in Nat /\ DOMAIN arrays = 1..Len(arrays)
      /\ \A a \in DOMAIN arrays : \E j \in DOMAIN pointers :
           pointers[j].offset = arrays[a].offset
      /\ DOMAIN pointers = 1..Len(pointers)
  BY <1>1, LoopInv
<1>5. next \in 1..Len(pointers) /\ Len(pointers) \in Nat /\ next' - 1 = next /\ next' - 2 = next - 1
  BY <1>1, <1>3 DEF LoopFacts
<1>6. /\ run'.offset = here.offset /\ run'.type = here.type /\ run'.count = 1
      /\ here.offset \in Nat /\ here.type \in Listing!PointerType
      /\ run' \in Run
  BY <1>1, <1>3, <1>5 DEF LoopFacts, Run
<1>7. PhaseInv' /\ PointersInv' /\ MergeInv'
  BY <1>1, <1>3, LoopKeepsRest DEF LoopFacts
<1>8. RunInv'
  <2>1. /\ run'.count <= Len(pointers') /\ run'.count <= next' - 1 /\ next' > 1
        /\ next' \in 1..Len(pointers') + 1
    BY <1>1, <1>5, <1>6
  <2>2. \E j \in DOMAIN pointers' : pointers'[j].offset = last' /\ pointers'[j].offset = run'.offset
    BY <1>1, <1>4, <1>5, <1>6
  <2>3. last' = pointers'[next' - 1].offset /\ run'.type = pointers'[next' - 1].type
    BY <1>1, <1>5, <1>6
  <2>4. run'.count >= 1 /\ run'.offset + (run'.count - 1) * input'.psize = last'
    <3>1. input.psize \in Nat
      BY <1>3 DEF LoopFacts
    <3> QED BY <1>1, <1>6, <3>1
  <2>5. pc' \notin Early
    BY <1>1, <1>3 DEF LoopFacts, Early
  <2> QED BY <1>1, <1>2, <1>4, <1>6, <2>1, <2>2, <2>3, <2>4, <2>5 DEF RunInv
<1>9. OpenChains'
  <2> SUFFICES ASSUME NEW i \in 1..next - 1, Chain(i, next)
               PROVE  /\ run'.count >= next - i /\ run'.offset <= pointers[i + 1].offset
                      /\ run'.type = pointers[i].type
    <3>1. \A i, j : Chain(i, j)' = Chain(i, j)
      BY <1>1, ChainKept
    <3> QED BY <1>1, <1>5, <3>1 DEF OpenChains
  <2>1. i = next - 1 /\ i + 1 = next
    BY <1>1, <1>3, <1>4, <1>5, ChainAdjoins
  <2>2. pointers[i].type = here.type
    BY <1>3, <1>4, ChainAdjoins
  <2>3. run'.count >= next - i /\ run'.offset <= here.offset
    <3>1. next - i = 1
      BY <1>5, <2>1
    <3>2. run'.count >= 1
      BY <1>6
    <3>3. \A m \in Nat : m <= m
      OBVIOUS
    <3> QED BY <1>6, <3>1, <3>2, <3>3, Zenon
  <2> QED BY <1>6, <2>1, <2>2, <2>3
<1>10. RunsFoundUpTo(next - 1)'
  BY <1>1, <1>3, <1>4, FoundStep
<1>11. FoundInv'
  BY <1>1, <1>3, <1>9, <1>10 DEF FoundInv, LoopFacts
<1> QED BY <1>7, <1>8, <1>11 DEF ListingInv

LEMMA ExtendRunKeepsListing ==
  ASSUME ImageFacts, ListingInv, Listing!ExtendRun, UNCHANGED <<search, scan>>
  PROVE  ListingInv'
<1> DEFINE here == pointers[next]
<1>1. /\ Listing!AtPointer /\ inArray /\ Listing!Adjoins
      /\ run' = [run EXCEPT !.count = @ + 1]
      /\ last' = here.offset /\ next' = next + 1
      /\ UNCHANGED <<input, pc, pointers, arrays, sorted>>
  BY DEF Listing!ExtendRun
<1>2. inArray' = inArray
  BY DEF Listing!ExtendRun
<1>3. LoopFacts
  BY <1>1, LoopStep
<1>4. /\ OpenChains /\ RunsFoundUpTo(next - 1)
      /\ arrays \in Seq(Run) /\ Len(arrays) \in Nat /\ DOMAIN arrays = 1..Len(arrays)
      /\ \A a \in DOMAIN arrays : \E j \in DOMAIN pointers :
           pointers[j].offset = arrays[a].offset
      /\ \E j \in DOMAIN pointers : pointers[j].offset = run.offset
      /\ DOMAIN pointers = 1..Len(pointers)
  BY <1>1, LoopInv
<1>5. next \in 1..Len(pointers) /\ Len(pointers) \in Nat /\ next' - 1 = next /\ next' - 2 = next - 1
  BY <1>1, <1>3 DEF LoopFacts
<1>6. /\ run'.offset = run.offset /\ run'.type = run.type /\ run'.count = run.count + 1
      /\ run.offset \in Nat /\ run.count \in Nat /\ run.count <= next - 1
      /\ run' \in Run
  <2>1. run \in Run /\ run.offset \in Nat /\ run.count \in Nat /\ run.count <= next - 1
    BY <1>3 DEF LoopFacts
  <2> QED BY <1>1, <2>1 DEF Run
<1>7. PhaseInv' /\ PointersInv' /\ MergeInv'
  BY <1>1, <1>3, LoopKeepsRest DEF LoopFacts
<1>8. here.offset = last + input.psize /\ here.type = run.type
  BY <1>1 DEF Listing!Adjoins
<1>9. RunInv'
  <2>1. /\ run'.count <= Len(pointers') /\ run'.count <= next' - 1 /\ next' > 1
        /\ next' \in 1..Len(pointers') + 1
    BY <1>1, <1>5, <1>6
  <2>2. (\E j \in DOMAIN pointers' : pointers'[j].offset = last')
        /\ \E j \in DOMAIN pointers' : pointers'[j].offset = run'.offset
    BY <1>1, <1>4, <1>5, <1>6
  <2>3. last' = pointers'[next' - 1].offset /\ run'.type = pointers'[next' - 1].type
    BY <1>1, <1>5, <1>6, <1>8
  <2>4. run'.count >= 1 /\ run'.offset + (run'.count - 1) * input'.psize = last'
    <3>1. input.psize \in Nat /\ run.count >= 1
          /\ run.offset + (run.count - 1) * input.psize = last
      BY <1>1, <1>3 DEF LoopFacts
    <3>2. (run.count + 1 - 1) * input.psize = (run.count - 1) * input.psize + input.psize
          /\ (run.count - 1) * input.psize \in Nat
      BY <1>6, <3>1
    <3>3. run.offset + (run.count + 1 - 1) * input.psize = last + input.psize
      BY <1>6, <3>1, <3>2
    <3> QED BY <1>1, <1>6, <1>8, <3>1, <3>3
  <2>5. pc' \notin Early
    BY <1>1, <1>3 DEF LoopFacts, Early
  <2>6. inArray' \in BOOLEAN
    BY <1>1, <1>2, LoopInv
  <2> QED BY <1>1, <1>4, <1>6, <2>1, <2>2, <2>3, <2>4, <2>5, <2>6 DEF RunInv
<1>10. OpenChains'
  <2> SUFFICES ASSUME NEW i \in 1..next - 1, Chain(i, next)
               PROVE  /\ run'.count >= next - i /\ run'.offset <= pointers[i + 1].offset
                      /\ run'.type = pointers[i].type
    <3>1. \A i, j : Chain(i, j)' = Chain(i, j)
      BY <1>1, ChainKept
    <3> QED BY <1>1, <1>2, <1>5, <3>1 DEF OpenChains
  <2>1. pointers[i].type = here.type
    BY <1>3, <1>4, ChainAdjoins
  <2>2. CASE i < next - 1
    <3>1. run.count >= next - 1 - i /\ run.offset <= pointers[i + 1].offset
      BY <1>3, <1>4, <2>2, ChainAdjoins
    <3> QED BY <1>5, <1>6, <1>8, <2>1, <3>1
  <2>3. CASE i = next - 1
    <3>1. run.offset <= pointers[i + 1].offset /\ run.count >= 1
      BY <1>1, <1>3, <1>4, <2>3, ChainAdjoins DEF LoopFacts
    <3>2. run'.count >= next - i /\ run'.offset <= pointers[i + 1].offset
      <4>1. next - i = 1
        BY <1>5, <2>3
      <4>2. run'.count >= 1
        BY <1>6, <3>1
      <4> QED BY <1>6, <3>1, <4>1, <4>2
    <3> QED BY <1>6, <1>8, <2>1, <3>2
  <2> QED BY <1>5, <2>2, <2>3
<1>11. RunsFoundUpTo(next - 1)'
  BY <1>1, <1>3, <1>4, FoundStep
<1>12. FoundInv'
  BY <1>1, <1>3, <1>10, <1>11 DEF FoundInv, LoopFacts
<1> QED BY <1>7, <1>9, <1>12 DEF ListingInv

LEMMA BreakRunKeepsListing ==
  ASSUME ImageFacts, ListingInv, Listing!BreakRun, UNCHANGED <<search, scan>>
  PROVE  ListingInv'
<1>1. /\ Listing!AtPointer /\ inArray /\ ~Listing!Adjoins
      /\ arrays' = IF Listing!LongEnough(run.count) THEN Append(arrays, run) ELSE arrays
      /\ next' = next + 1
      /\ UNCHANGED <<input, pc, pointers, run, last, sorted>>
  BY DEF Listing!BreakRun
<1>2. inArray' = FALSE
  BY DEF Listing!BreakRun
<1>3. LoopFacts
  BY <1>1, LoopStep
<1>4. /\ OpenChains /\ RunsFoundUpTo(next - 1)
      /\ arrays \in Seq(Run) /\ Len(arrays) \in Nat /\ DOMAIN arrays = 1..Len(arrays)
      /\ \A a \in DOMAIN arrays : \E j \in DOMAIN pointers :
           pointers[j].offset = arrays[a].offset
      /\ \E j \in DOMAIN pointers : pointers[j].offset = run.offset
      /\ last \in {0} \cup {pointers[j].offset : j \in DOMAIN pointers}
      /\ DOMAIN pointers = 1..Len(pointers)
  BY <1>1, LoopInv
<1>5. next \in 1..Len(pointers) /\ Len(pointers) \in Nat /\ next' - 1 = next /\ next' - 2 = next - 1
      /\ run \in Run /\ run.count \in Nat /\ run.count <= next - 1
  <2>1. next' = next + 1 /\ next \in 1..Len(pointers) /\ Len(pointers) \in Nat
        /\ run \in Run /\ run.count \in Nat /\ run.count <= next - 1
    BY <1>1, <1>3, Zenon DEF LoopFacts
  <2> QED BY <2>1
<1>6. PhaseInv' /\ PointersInv' /\ MergeInv'
  BY <1>1, <1>3, LoopKeepsRest DEF LoopFacts
<1>7. /\ arrays' \in Seq(Run)
      /\ DOMAIN arrays \subseteq DOMAIN arrays'
      /\ \A a \in DOMAIN arrays : arrays'[a] = arrays[a]
      /\ \A a \in DOMAIN arrays' : a \in DOMAIN arrays \/ arrays'[a] = run
      /\ Listing!LongEnough(run.count) => \E a \in DOMAIN arrays' : arrays'[a] = run
  <2>1. CASE Listing!LongEnough(run.count)
    <3>1. /\ arrays' = Append(arrays, run) /\ arrays' \in Seq(Run)
          /\ DOMAIN arrays' = 1..Len(arrays) + 1
          /\ \A a \in 1..Len(arrays) : arrays'[a] = arrays[a]
          /\ arrays'[Len(arrays) + 1] = run
      BY <1>1, <1>4, <1>5, <2>1
    <3>2. Len(arrays) + 1 \in DOMAIN arrays'
      BY <1>4, <3>1
    <3>3. \A a \in DOMAIN arrays' : a \in DOMAIN arrays \/ a = Len(arrays) + 1
      BY <1>4, <3>1
    <3>4. DOMAIN arrays \subseteq DOMAIN arrays'
      BY <1>4, <3>1
    <3> QED BY <1>4, <3>1, <3>2, <3>3, <3>4
  <2>2. CASE ~Listing!LongEnough(run.count)
    BY <1>1, <1>4, <2>2
  <2> QED BY <2>1, <2>2
<1>8. RunInv'
  <2>1. /\ run'.count <= Len(pointers') /\ run'.count <= next' - 1
        /\ next' \in 1..Len(pointers') + 1
    BY <1>1, <1>5
  <2>2. \A a \in DOMAIN arrays' : \E j \in DOMAIN pointers' :
          pointers'[j].offset = arrays'[a].offset
    BY <1>1, <1>4, <1>7
  <2>3. pc' \notin Early
    BY <1>1, <1>3 DEF LoopFacts, Early
  <2> QED BY <1>1, <1>2, <1>4, <1>5, <1>7, <2>1, <2>2, <2>3 DEF RunInv
<1>9. OpenChains'
  <2>1. ASSUME NEW i \in 1..next - 1, Chain(i, next) PROVE FALSE
    BY <1>1, <1>3, <1>4, <2>1, ChainAdjoins
  <2>2. \A i, j : Chain(i, j)' = Chain(i, j)
    BY <1>1, ChainKept
  <2>3. ASSUME NEW i \in 1..next - 1 PROVE ~Chain(i, next)
    BY <2>1, <2>3, Zenon
  <2>4. next' - 2 = next - 1 /\ next' - 1 = next
    BY <1>5
  <2> QED BY <2>2, <2>3, <2>4, Zenon DEF OpenChains
<1>10. RunsFoundUpTo(next - 1)'
  BY <1>1, <1>3, <1>4, <1>7, FoundStep
<1>11. FoundInv'
  BY <1>1, <1>3, <1>9, <1>10 DEF FoundInv, LoopFacts
<1> QED BY <1>6, <1>8, <1>11 DEF ListingInv

-----------------------------------------------------------------------------
\* The listing: its merge.

\* The pointers stand in front, and the arrays begin at pointers.
MergeFacts ==
  /\ Len(pointers) \in Nat /\ Len(Listing!ToMerge) \in Nat
  /\ Len(pointers) <= Len(Listing!ToMerge)
  /\ DOMAIN Listing!ToMerge = 1..Len(Listing!ToMerge)
  /\ \A m \in 1..Len(Listing!ToMerge) : Listing!ToMerge[m].offset \in Nat
  /\ \A m \in 1..Len(pointers) :
       Listing!ToMerge[m] = pointers[m] /\ Listing!ToMerge[m] \in PoiOf(input)
  /\ \A m \in Len(pointers) + 1..Len(Listing!ToMerge) :
       \E j \in 1..Len(pointers) : Listing!ToMerge[j].offset = Listing!ToMerge[m].offset

LEMMA MergeEntries ==
  ASSUME ListingInv
  PROVE  MergeFacts
<1> DEFINE heads == [a \in DOMAIN arrays |->
                       [offset |-> arrays[a].offset, type |-> "ArrayPointer"]]
           Entry == [offset : Nat, type : Listing!PointerType \cup {"ArrayPointer"}]
           n == Len(pointers)
<1>1. pointers \in Seq(PoiOf(input)) /\ n \in Nat /\ DOMAIN pointers = 1..n
      /\ \A m \in 1..n : pointers[m] \in PoiOf(input)
  BY DEF ListingInv, PointersInv
<1>2. /\ arrays \in Seq(Run) /\ Len(arrays) \in Nat /\ DOMAIN arrays = 1..Len(arrays)
      /\ \A a \in 1..Len(arrays) : arrays[a] \in Run
      /\ \A a \in DOMAIN arrays : \E j \in DOMAIN pointers : pointers[j].offset = arrays[a].offset
  BY DEF ListingInv, RunInv
<1>3. PoiOf(input) \subseteq Entry
  BY DEF PoiOf
<1>4. pointers \in Seq(Entry)
  <2> HIDE DEF Entry, n
  <2> QED BY <1>1, <1>3
<1>5. heads \in Seq(Entry) /\ Len(heads) = Len(arrays)
  <2>1. \A a \in 1..Len(arrays) : arrays[a].offset \in Nat
    BY <1>2 DEF Run
  <2>2. ASSUME NEW a \in 1..Len(arrays) PROVE heads[a] \in Entry
    <3>1. heads[a] = [offset |-> arrays[a].offset, type |-> "ArrayPointer"]
      BY <1>2
    <3>2. arrays[a].offset \in Nat
      BY <2>1
    <3> HIDE DEF heads
    <3> QED BY <3>1, <3>2
  <2>3. heads = [a \in 1..Len(arrays) |-> heads[a]]
    BY <1>2
  <2> HIDE DEF heads, Entry
  <2> QED BY <1>2, <2>2, <2>3
<1>6. /\ Listing!ToMerge \in Seq(Entry)
      /\ Len(Listing!ToMerge) = n + Len(arrays)
      /\ \A m \in 1..n + Len(arrays) :
           Listing!ToMerge[m] = IF m <= n THEN pointers[m] ELSE heads[m - n]
  <2>1. Listing!ToMerge = pointers \o heads
    BY DEF Listing!ToMerge
  <2> HIDE DEF Entry, heads
  <2>2. /\ pointers \o heads \in Seq(Entry)
        /\ Len(pointers \o heads) = Len(pointers) + Len(heads)
        /\ \A m \in 1..Len(pointers) + Len(heads) :
             (pointers \o heads)[m]
               = IF m <= Len(pointers) THEN pointers[m] ELSE heads[m - Len(pointers)]
    BY <1>4, <1>5, ConcatProperties
  <2> QED BY <1>5, <2>1, <2>2
<1>7. \A m \in 1..Len(Listing!ToMerge) : Listing!ToMerge[m].offset \in Nat
  <2>1. \A e \in Entry : e.offset \in Nat
    OBVIOUS
  <2>2. \A m \in 1..Len(Listing!ToMerge) : Listing!ToMerge[m] \in Entry
    <3> HIDE DEF Entry
    <3> QED BY <1>6
  <2> QED BY <2>1, <2>2
<1>8. DOMAIN Listing!ToMerge = 1..Len(Listing!ToMerge)
  <2> HIDE DEF Entry
  <2> QED BY <1>6, LenProperties
<1>9. \A m \in 1..n : Listing!ToMerge[m] = pointers[m] /\ Listing!ToMerge[m] \in PoiOf(input)
  <2>1. \A m \in 1..n : m \in 1..n + Len(arrays) /\ m <= n
    BY <1>1, <1>2
  <2> HIDE DEF heads, n, Entry
  <2> QED BY <1>1, <1>6, <2>1
<1>10. ASSUME NEW m \in n + 1..n + Len(arrays)
       PROVE  \E j \in 1..n : Listing!ToMerge[j].offset = Listing!ToMerge[m].offset
  <2>1. m - n \in DOMAIN arrays /\ m \in 1..n + Len(arrays) /\ ~(m <= n)
    BY <1>1, <1>2
  <2>2. Listing!ToMerge[m].offset = arrays[m - n].offset
    <3>1. Listing!ToMerge[m] = heads[m - n]
      <4> HIDE DEF heads
      <4> QED BY <1>6, <2>1
    <3>2. heads[m - n] = [offset |-> arrays[m - n].offset, type |-> "ArrayPointer"]
      BY <2>1
    <3> QED BY <3>1, <3>2
  <2>3. PICK j \in DOMAIN pointers : pointers[j].offset = arrays[m - n].offset
    BY <1>2, <2>1
  <2> QED BY <1>1, <1>9, <2>2, <2>3
<1>11. n + Len(arrays) \in Nat /\ n <= n + Len(arrays)
  BY <1>1, <1>2
<1> QED BY <1>1, <1>6, <1>7, <1>8, <1>9, <1>10, <1>11 DEF MergeFacts

\* In an ascending list the entries below an offset stand in front.
LEMMA SmallerInFront ==
  ASSUME NEW l \in Seq(PoiOf(input)), Ascending(l), NEW o \in Nat,
         NEW n, n = Listing!Cardinality({j \in DOMAIN l : l[j].offset < o})
  PROVE  n \in 0..Len(l) /\ \A j \in 1..Len(l) : l[j].offset < o <=> j <= n
<1> DEFINE below == {j \in DOMAIN l : l[j].offset < o}
           rest == DOMAIN l \ below
<1>1. Len(l) \in Nat /\ DOMAIN l = 1..Len(l)
      /\ \A j \in 1..Len(l) : l[j].offset \in Nat
  BY PoiFields
<1>2. PICK e \in 1..Len(l) + 1 :
        \A j \in 1..Len(l) : l[j].offset < o <=> j < e
  <2>1. CASE rest = {}
    <3>1. \A j \in 1..Len(l) : l[j].offset < o /\ j < Len(l) + 1
      BY <1>1, <2>1
    <3>2. Len(l) + 1 \in 1..Len(l) + 1
      BY <1>1
    <3> QED BY <3>1, <3>2
  <2>2. CASE rest # {}
    <3>1. PICK e \in rest : \A j \in rest : e <= j
      <4>1. rest \subseteq Nat
        BY <1>1
      <4> HIDE DEF rest
      <4> QED BY <2>2, <4>1, LeastMember
    <3>2. e \in 1..Len(l) /\ ~(l[e].offset < o)
      BY <1>1
    <3>3. ASSUME NEW j \in 1..Len(l) PROVE l[j].offset < o <=> j < e
      <4>1. CASE j < e
        <5>1. j \notin rest
          BY <3>1, <3>2, <4>1
        <5> QED BY <1>1, <4>1, <5>1
      <4>2. CASE j = e
        BY <3>2, <4>2
      <4>3. CASE e < j
        <5>1. l[e].offset < l[j].offset
          BY <1>1, <3>2, <4>3 DEF Ascending
        <5>2. l[e].offset \in Nat /\ l[j].offset \in Nat
          BY <1>1, <3>2
        <5>3. ~(l[j].offset < o) /\ ~(j < e)
          BY <3>2, <4>3, <5>1, <5>2
        <5> QED BY <5>3
      <4> QED BY <3>2, <4>1, <4>2, <4>3
    <3> QED BY <1>1, <3>2, <3>3
  <2> QED BY <2>1, <2>2
<1>3. below = 1..e - 1
  <2>1. \A j : j \in below <=> j \in 1..Len(l) /\ j < e
    BY <1>1, <1>2
  <2>2. \A j : j \in 1..e - 1 <=> j \in 1..Len(l) /\ j < e
    BY <1>1, <1>2
  <2> HIDE DEF below
  <2> QED BY <2>1, <2>2
<1>4. n = e - 1
  <2>1. n = Cardinality(1..e - 1)
    <3>1. n = Cardinality(below)
      BY ListingCardinality
    <3> HIDE DEF below
    <3> QED BY <1>3, <3>1
  <2>2. 1 \in Int /\ e - 1 \in Int
    BY <1>2
  <2>3. Cardinality(1..e - 1) = IF 1 > e - 1 THEN 0 ELSE e - 1 - 1 + 1
    BY <2>2, FS_Interval
  <2> QED BY <1>2, <2>1, <2>3
<1>5. n \in 0..Len(l)
  BY <1>1, <1>2, <1>4
<1>6. \A j \in 1..Len(l) : j < e <=> j <= n
  BY <1>1, <1>2, <1>4
<1> QED BY <1>2, <1>5, <1>6

\* u is l with p behind its first n entries.
Inserted(u, l, n, p, S) ==
  /\ u \in Seq(S) /\ Len(u) = Len(l) + 1
  /\ \A j \in 1..n : u[j] = l[j]
  /\ u[n + 1] = p
  /\ \A j \in n + 1..Len(l) : u[j + 1] = l[j]

LEMMA InsertFacts ==
  ASSUME NEW S, NEW l \in Seq(S), NEW n \in 0..Len(l), NEW p \in S, NEW w, w = n + 1
  PROVE  Inserted(Listing!InsertAt(l, w, p), l, n, p, S)
<1> DEFINE front == SubSeq(l, 1, n)
           tail == SubSeq(l, n + 1, Len(l))
           first == front \o <<p>>
<1>1. Len(l) \in Nat /\ n \in Nat /\ \A j \in 1..Len(l) : l[j] \in S
  OBVIOUS
<1>2. front \in Seq(S) /\ Len(front) = n /\ \A j \in 1..n : front[j] = l[j]
  <2>1. /\ front \in Seq(S)
        /\ Len(front) = (IF 1 <= n THEN n - 1 + 1 ELSE 0)
        /\ \A j \in 1..n - 1 + 1 : front[j] = l[1 + j - 1]
    BY <1>1, SubSeqProperties
  <2>2. n - 1 + 1 = n /\ \A j \in 1..n : 1 + j - 1 = j
    <3>1. \A m \in Nat : m - 1 + 1 = m /\ \A j \in 1..m : 1 + j - 1 = j
      OBVIOUS
    <3> QED BY <1>1, <3>1, Zenon
  <2> HIDE DEF front
  <2> QED BY <1>1, <2>1, <2>2
<1>3. /\ tail \in Seq(S) /\ Len(tail) = Len(l) - n
      /\ \A j \in 1..Len(l) - n : tail[j] = l[n + j]
  <2>1. /\ tail \in Seq(S)
        /\ Len(tail) = (IF n + 1 <= Len(l) THEN Len(l) - (n + 1) + 1 ELSE 0)
        /\ \A j \in 1..Len(l) - (n + 1) + 1 : tail[j] = l[n + 1 + j - 1]
    <3>1. \A j \in n + 1..Len(l) : l[j] \in S
      BY <1>1
    <3>2. n + 1 \in Int /\ Len(l) \in Int
      BY <1>1
    <3> QED BY <3>1, <3>2, SubSeqProperties
  <2>2. Len(l) - (n + 1) + 1 = Len(l) - n /\ \A j \in 1..Len(l) - n : n + 1 + j - 1 = n + j
    BY <1>1
  <2> HIDE DEF tail
  <2>3. Len(tail) = Len(l) - n
    BY <1>1, <2>1
  <2> QED BY <2>1, <2>2, <2>3, Zenon
<1>4. <<p>> \in Seq(S) /\ Len(<<p>>) = 1 /\ <<p>>[1] = p
  OBVIOUS
<1> HIDE DEF front, tail
<1>5. /\ first \in Seq(S) /\ Len(first) = n + 1
      /\ \A j \in 1..n + 1 : first[j] = IF j <= n THEN front[j] ELSE <<p>>[j - n]
  BY <1>2, <1>4, ConcatProperties
<1> HIDE DEF first
<1>6. Listing!InsertAt(l, n + 1, p) = first \o tail
  <2>1. n + 1 - 1 = n
    BY <1>1
  <2>2. ASSUME NEW i, i - 1 = n
        PROVE  Listing!InsertAt(l, i, p) = (SubSeq(l, 1, n) \o <<p>>) \o SubSeq(l, i, Len(l))
    BY <2>2 DEF Listing!InsertAt
  <2> DEFINE i == n + 1
  <2>3. i - 1 = n /\ first = SubSeq(l, 1, n) \o <<p>> /\ tail = SubSeq(l, i, Len(l))
    BY <2>1 DEF first, front, tail
  <2> HIDE DEF i
  <2>4. Listing!InsertAt(l, i, p) = first \o tail
    BY <2>2, <2>3
  <2> QED BY <2>4 DEF i
<1>7. /\ first \o tail \in Seq(S) /\ Len(first \o tail) = n + 1 + (Len(l) - n)
      /\ \A j \in 1..n + 1 + (Len(l) - n) :
           (first \o tail)[j] = IF j <= n + 1 THEN first[j] ELSE tail[j - (n + 1)]
  <2>1. /\ first \o tail \in Seq(S) /\ Len(first \o tail) = Len(first) + Len(tail)
        /\ \A j \in 1..Len(first) + Len(tail) :
             (first \o tail)[j] = IF j <= Len(first) THEN first[j] ELSE tail[j - Len(first)]
    BY <1>3, <1>5, ConcatProperties
  <2> QED BY <1>3, <1>5, <2>1
<1> DEFINE u == first \o tail
<1>8. u \in Seq(S) /\ Len(u) = Len(l) + 1
      /\ \A j \in 1..Len(l) + 1 : u[j] = IF j <= n + 1 THEN first[j] ELSE tail[j - (n + 1)]
  <2>1. n + 1 + (Len(l) - n) = Len(l) + 1
    BY <1>1
  <2> QED BY <1>7, <2>1
<1> HIDE DEF u
<1>9. \A j \in 1..n : u[j] = l[j]
  <2> SUFFICES ASSUME NEW j \in 1..n PROVE u[j] = l[j]
    OBVIOUS
  <2>1. j \in 1..n + 1 /\ j <= n /\ j \in 1..Len(l) + 1 /\ j <= n + 1
    BY <1>1
  <2> QED BY <1>2, <1>5, <1>8, <2>1
<1>10. u[n + 1] = p
  <2>1. n + 1 \in 1..n + 1 /\ ~(n + 1 <= n) /\ n + 1 \in 1..Len(l) + 1 /\ n + 1 - n = 1
    BY <1>1
  <2> QED BY <1>4, <1>5, <1>8, <2>1
<1>11. \A j \in n + 1..Len(l) : u[j + 1] = l[j]
  <2> SUFFICES ASSUME NEW j \in n + 1..Len(l) PROVE u[j + 1] = l[j]
    OBVIOUS
  <2>1. j + 1 \in 1..Len(l) + 1 /\ ~(j + 1 <= n + 1) /\ j + 1 - (n + 1) = j - n
        /\ j - n \in 1..Len(l) - n /\ n + (j - n) = j
    BY <1>1
  <2>2. u[j + 1] = tail[j - n]
    BY <1>8, <2>1
  <2> QED BY <1>3, <2>1, <2>2
<1> QED BY <1>6, <1>8, <1>9, <1>10, <1>11 DEF u, Inserted

\* Merging one more entry.
LEMMA MergeOne ==
  ASSUME MergeFacts, NEW l \in Seq(PoiOf(input)), Ascending(l),
         NEW m \in 1..Len(Listing!ToMerge), MergedFrom(l, Listing!ToMerge, m - 1),
         NEW u, u = Listing!AddUniqueSorted(l, Listing!ToMerge[m])
  PROVE  u \in Seq(PoiOf(input)) /\ Ascending(u) /\ MergedFrom(u, Listing!ToMerge, m)
<1> DEFINE all == Listing!ToMerge
           p == all[m]
           n == Listing!Cardinality({j \in DOMAIN l : l[j].offset < p.offset})
<1>1. Len(l) \in Nat /\ DOMAIN l = 1..Len(l)
      /\ \A j \in 1..Len(l) : l[j].offset \in Nat /\ l[j] \in PoiOf(input)
  BY PoiFields
<1>2. p.offset \in Nat /\ Len(all) \in Nat /\ m \in Nat \ {0}
  BY DEF MergeFacts
<1>3. \A i \in 1..m : i = m \/ i \in 1..m - 1
  BY <1>2
<1>4. CASE \E j \in DOMAIN l : l[j].offset = p.offset
  <2>1. u = l
    BY <1>4 DEF Listing!AddUniqueSorted
  <2>2. \A i \in 1..m : \E j \in DOMAIN l : l[j].offset = all[i].offset
    BY <1>3, <1>4 DEF MergedFrom
  <2>3. \A j \in DOMAIN l : \E i \in 1..m :
          all[i] = l[j] /\ \A o \in 1..i - 1 : all[o].offset # all[i].offset
    <3>1. 1..m - 1 \subseteq 1..m
      BY <1>2
    <3> HIDE DEF all
    <3> QED BY <3>1 DEF MergedFrom, all
  <2> QED BY <2>1, <2>2, <2>3 DEF MergedFrom
<1>5. CASE ~\E j \in DOMAIN l : l[j].offset = p.offset
  <2>1. u = Listing!InsertAt(l, n + 1, p)
    BY <1>5 DEF Listing!AddUniqueSorted
  <2>2. \A o \in 1..m - 1 : all[o].offset # p.offset
    BY <1>5 DEF MergedFrom
  <2>3. p \in PoiOf(input)
    <3>1. CASE m <= Len(pointers)
      BY <1>2, <3>1 DEF MergeFacts
    <3>2. CASE m > Len(pointers)
      <4>1. PICK j \in 1..Len(pointers) : all[j].offset = p.offset
        <5>1. Len(pointers) \in Nat
          BY DEF MergeFacts
        <5>2. m \in Len(pointers) + 1..Len(all)
          BY <1>2, <3>2, <5>1
        <5> QED BY <5>2 DEF MergeFacts
      <4>2. j \in 1..m - 1
        BY <1>2, <3>2, <4>1 DEF MergeFacts
      <4> QED BY <2>2, <4>1, <4>2
    <3> QED BY <1>2, <3>1, <3>2 DEF MergeFacts
  <2>4. n \in 0..Len(l) /\ \A j \in 1..Len(l) : l[j].offset < p.offset <=> j <= n
    <3> HIDE DEF p
    <3> QED BY <1>2, SmallerInFront
  <2> HIDE DEF p, n
  <2>5. /\ u \in Seq(PoiOf(input)) /\ Len(u) = Len(l) + 1 /\ DOMAIN u = 1..Len(u)
        /\ \A j \in 1..n : u[j] = l[j]
        /\ u[n + 1] = p
        /\ \A j \in n + 1..Len(l) : u[j + 1] = l[j]
    <3> DEFINE S == PoiOf(input)
    <3>1. l \in Seq(S) /\ p \in S
      BY <2>3
    <3> HIDE DEF S
    <3>2. Inserted(u, l, n, p, S)
      <4> DEFINE w == n + 1
      <4>1. n \in 0..Len(l) /\ w = n + 1 /\ u = Listing!InsertAt(l, w, p)
        BY <2>1, <2>4
      <4> HIDE DEF w
      <4> QED BY <3>1, <4>1, InsertFacts
    <3>3. DOMAIN u = 1..Len(u)
      BY <3>2 DEF Inserted
    <3> QED BY <3>2, <3>3 DEF S, Inserted
  <2>6. \A j \in 1..Len(u) : \/ j \in 1..n /\ j \in 1..Len(l) /\ u[j] = l[j]
                             \/ j = n + 1 /\ u[j] = p
                             \/ j > n + 1 /\ j - 1 \in 1..Len(l) /\ u[j] = l[j - 1]
    <3> SUFFICES ASSUME NEW j \in 1..Len(u)
                 PROVE  \/ j \in 1..n /\ j \in 1..Len(l) /\ u[j] = l[j]
                        \/ j = n + 1 /\ u[j] = p
                        \/ j > n + 1 /\ j - 1 \in 1..Len(l) /\ u[j] = l[j - 1]
      OBVIOUS
    <3>1. CASE j <= n
      <4>1. j \in 1..n /\ j \in 1..Len(l)
        BY <1>1, <2>4, <2>5, <3>1
      <4> QED BY <2>5, <4>1
    <3>2. CASE j = n + 1
      BY <2>5, <3>2
    <3>3. CASE j > n + 1
      <4>1. j - 1 \in n + 1..Len(l) /\ j - 1 \in 1..Len(l) /\ j - 1 + 1 = j
        BY <1>1, <2>4, <2>5, <3>3
      <4>2. u[j - 1 + 1] = l[j - 1]
        BY <2>5, <4>1
      <4> QED BY <3>3, <4>1, <4>2
    <3> QED BY <1>1, <2>4, <2>5, <3>1, <3>2, <3>3
  <2>7. \A j \in 1..Len(l) : /\ j <= n => l[j].offset < p.offset
                             /\ j > n => l[j].offset > p.offset
    <3> SUFFICES ASSUME NEW j \in 1..Len(l), j > n PROVE l[j].offset > p.offset
      BY <2>4
    <3>1. ~(l[j].offset < p.offset) /\ l[j].offset # p.offset
      BY <1>1, <1>5, <2>4
    <3> QED BY <1>1, <1>2, <3>1
  <2>8. Ascending(u)
    <3> SUFFICES ASSUME NEW i \in 1..Len(u), NEW j \in 1..Len(u), i < j
                 PROVE  u[i].offset < u[j].offset
      BY <2>5 DEF Ascending
    <3>1. i \in Nat /\ j \in Nat /\ n \in Nat
      BY <1>1, <2>4, <2>5
    <3>2. CASE i \in 1..n /\ i \in 1..Len(l) /\ u[i] = l[i]
      <4>1. l[i].offset < p.offset
        BY <2>7, <3>1, <3>2
      <4>2. CASE j \in 1..n /\ j \in 1..Len(l) /\ u[j] = l[j]
        BY <1>1, <3>2, <4>2 DEF Ascending
      <4>3. CASE j = n + 1 /\ u[j] = p
        BY <3>2, <4>1, <4>3
      <4>4. CASE j > n + 1 /\ j - 1 \in 1..Len(l) /\ u[j] = l[j - 1]
        <5>1. l[j - 1].offset > p.offset
          BY <2>7, <3>1, <4>4
        <5>2. l[i].offset \in Nat /\ l[j - 1].offset \in Nat /\ p.offset \in Nat
          BY <1>1, <1>2, <3>2, <4>4
        <5>3. l[i].offset < l[j - 1].offset
          BY <4>1, <5>1, <5>2
        <5> QED BY <3>2, <4>4, <5>3
      <4> QED BY <2>6, <4>2, <4>3, <4>4
    <3>3. CASE i = n + 1 /\ u[i] = p
      <4>1. j > n + 1 /\ j - 1 \in 1..Len(l) /\ u[j] = l[j - 1]
        BY <2>6, <3>1, <3>3
      <4>2. l[j - 1].offset > p.offset
        BY <2>7, <3>1, <4>1
      <4> QED BY <1>1, <1>2, <3>3, <4>1, <4>2
    <3>4. CASE i > n + 1 /\ i - 1 \in 1..Len(l) /\ u[i] = l[i - 1]
      <4>1. j > n + 1 /\ j - 1 \in 1..Len(l) /\ u[j] = l[j - 1]
        BY <2>6, <3>1, <3>4
      <4>2. i - 1 < j - 1
        BY <3>1
      <4> QED BY <1>1, <3>4, <4>1, <4>2 DEF Ascending
    <3> QED BY <2>6, <3>2, <3>3, <3>4
  <2>9. \A i \in 1..m : \E j \in DOMAIN u : u[j].offset = all[i].offset
    <3> SUFFICES ASSUME NEW i \in 1..m PROVE \E j \in 1..Len(u) : u[j].offset = all[i].offset
      BY <2>5
    <3>1. CASE i = m
      <4>1. n + 1 \in 1..Len(u)
        BY <1>1, <2>4, <2>5
      <4> QED BY <2>5, <3>1, <4>1 DEF p
    <3>2. CASE i \in 1..m - 1
      <4>1. PICK j \in 1..Len(l) : l[j].offset = all[i].offset
        BY <1>1, <3>2 DEF MergedFrom
      <4>2. CASE j <= n
        <5>1. j \in 1..n /\ j \in 1..Len(u)
          BY <1>1, <2>4, <2>5, <4>2
        <5> QED BY <2>5, <4>1, <5>1
      <4>3. CASE j > n
        <5>1. j \in n + 1..Len(l) /\ j + 1 \in 1..Len(u)
          BY <1>1, <2>4, <2>5, <4>3
        <5> QED BY <2>5, <4>1, <5>1
      <4> QED BY <1>1, <2>4, <4>2, <4>3
    <3> QED BY <1>3, <3>1, <3>2
  <2>10. \A j \in DOMAIN u : \E i \in 1..m :
           all[i] = u[j] /\ \A o \in 1..i - 1 : all[o].offset # all[i].offset
    <3> SUFFICES ASSUME NEW j \in 1..Len(u)
                 PROVE  \E i \in 1..m :
                          all[i] = u[j] /\ \A o \in 1..i - 1 : all[o].offset # all[i].offset
      BY <2>5
    <3>1. CASE u[j] = p
      <4>1. m \in 1..m
        BY <1>2
      <4> QED BY <2>2, <3>1, <4>1 DEF p
    <3>2. ASSUME NEW h \in 1..Len(l), u[j] = l[h]
          PROVE  \E i \in 1..m :
                   all[i] = u[j] /\ \A o \in 1..i - 1 : all[o].offset # all[i].offset
      <4>1. PICK i \in 1..m - 1 :
              all[i] = l[h] /\ \A o \in 1..i - 1 : all[o].offset # all[i].offset
        BY <1>1 DEF MergedFrom
      <4>2. i \in 1..m
        BY <1>2
      <4> QED BY <3>2, <4>1, <4>2
    <3> QED BY <2>6, <3>1, <3>2
  <2> QED BY <2>5, <2>8, <2>9, <2>10 DEF MergedFrom
<1> QED BY <1>4, <1>5

LEMMA ArraysDoneKeepsListing ==
  ASSUME ImageFacts, ListingInv, Listing!ArraysDone, UNCHANGED <<search, scan>>
  PROVE  ListingInv'
<1>1. /\ pc = "arrays" /\ next > Len(pointers) /\ pc' = "merging" /\ next' = 1
      /\ UNCHANGED <<input, pointers, run, last, arrays, sorted>>
  BY DEF Listing!ArraysDone
<1>2. inArray' = inArray
  BY DEF Listing!ArraysDone
<1>3. pointers \in Seq(PoiOf(input)) /\ Len(pointers) \in Nat
  BY DEF ListingInv, PointersInv
<1>4. next - 1 = Len(pointers)
  BY <1>1, <1>3 DEF ListingInv, RunInv
<1>5. PhaseInv'
  BY <1>1 DEF ListingInv, PhaseInv, Early, Search!Init, Scan!Init, search, scan, Search!AtPointer
<1>6. PointersInv'
  BY <1>1 DEF ListingInv, PointersInv, Early
<1>7. RunInv'
  <2>1. inArray' \in BOOLEAN
    BY <1>2 DEF ListingInv, RunInv
  <2> QED BY <1>1, <2>1 DEF ListingInv, RunInv, Early
<1>8. FoundInv'
  <2>1. RunsFoundUpTo(Len(pointers))
    BY <1>1, <1>4 DEF ListingInv, FoundInv
  <2>2. RunsFoundUpTo(Len(pointers))'
    BY <1>1, <2>1 DEF RunsFoundUpTo, Listing!RunAt
  <2> QED BY <1>1, <2>2 DEF FoundInv
<1>9. MergeInv'
  <2>1. sorted' = <<>>
    BY <1>1 DEF ListingInv, MergeInv
  <2>2. Len(Listing!ToMerge) \in Nat /\ Listing!ToMerge' = Listing!ToMerge
    BY <1>1, MergeEntries DEF MergeFacts, Listing!ToMerge
  <2>3. sorted' \in Seq(PoiOf(input')) /\ DOMAIN sorted' = {}
    BY <2>1, EmptySeq
  <2>4. next' \in 1..Len(Listing!ToMerge') + 1 /\ next' - 1 = 0
    BY <1>1, <2>2
  <2>5. MergedFrom(sorted, Listing!ToMerge, next - 1)'
    BY <2>3, <2>4 DEF MergedFrom
  <2>6. Ascending(sorted')
    BY <2>3 DEF Ascending
  <2> QED BY <1>1, <2>3, <2>4, <2>5, <2>6 DEF MergeInv
<1> QED BY <1>5, <1>6, <1>7, <1>8, <1>9 DEF ListingInv

LEMMA MergeKeepsListing ==
  ASSUME ImageFacts, ListingInv, Listing!Merge \/ Listing!MergeDone, UNCHANGED <<search, scan>>
  PROVE  ListingInv'
<1>1. /\ pc = "merging" /\ pc' \in {"merging", "done"}
      /\ UNCHANGED <<input, pointers, run, last, arrays>>
  BY DEF Listing!Merge, Listing!MergeDone
<1>2. inArray' = inArray
  BY DEF Listing!Merge, Listing!MergeDone
<1>3. PhaseInv'
  BY <1>1 DEF ListingInv, PhaseInv, Early, Search!Init, Scan!Init, search, scan, Search!AtPointer
<1>4. PointersInv'
  BY <1>1 DEF ListingInv, PointersInv, Early
<1>5. RunInv'
  <2>1. inArray' \in BOOLEAN
    BY <1>2 DEF ListingInv, RunInv
  <2> QED BY <1>1, <2>1 DEF ListingInv, RunInv, Early
<1>6. FoundInv'
  <2>1. RunsFoundUpTo(Len(pointers))
    BY <1>1 DEF ListingInv, FoundInv
  <2>2. RunsFoundUpTo(Len(pointers))'
    BY <1>1, <2>1 DEF RunsFoundUpTo, Listing!RunAt
  <2> QED BY <1>1, <2>2 DEF FoundInv
<1>7. MergeFacts /\ Listing!ToMerge' = Listing!ToMerge
  BY <1>1, MergeEntries DEF Listing!ToMerge
<1>8. /\ next \in 1..Len(Listing!ToMerge) + 1
      /\ sorted \in Seq(PoiOf(input)) /\ Ascending(sorted)
      /\ MergedFrom(sorted, Listing!ToMerge, next - 1)
  BY <1>1 DEF ListingInv, MergeInv
<1>9. MergeInv'
  <2>1. CASE Listing!Merge
    <3>1. /\ next <= Len(Listing!ToMerge) /\ next' = next + 1
          /\ sorted' = Listing!AddUniqueSorted(sorted, Listing!ToMerge[next])
      BY <2>1 DEF Listing!Merge
    <3>2. next \in 1..Len(Listing!ToMerge) /\ next' - 1 = next
          /\ next' \in 1..Len(Listing!ToMerge) + 1
      BY <1>7, <1>8, <3>1 DEF MergeFacts
    <3>3. sorted' \in Seq(PoiOf(input)) /\ Ascending(sorted')
          /\ MergedFrom(sorted', Listing!ToMerge, next)
      BY <1>7, <1>8, <3>1, <3>2, MergeOne
    <3>4. MergedFrom(sorted', Listing!ToMerge', next' - 1)
      BY <1>7, <3>2, <3>3
    <3> QED BY <1>1, <1>7, <3>2, <3>3, <3>4 DEF MergeInv
  <2>2. CASE Listing!MergeDone
    <3>1. next' = next /\ sorted' = sorted
      BY <2>2 DEF Listing!MergeDone
    <3>2. MergedFrom(sorted, Listing!ToMerge, next - 1)'
      BY <1>7, <1>8, <3>1 DEF MergedFrom
    <3> QED BY <1>1, <1>7, <1>8, <3>1, <3>2 DEF MergeInv
  <2> QED BY <2>1, <2>2
<1> QED BY <1>3, <1>4, <1>5, <1>6, <1>9 DEF ListingInv

-----------------------------------------------------------------------------
\* The listing: what it keeps in the whole search.

LEMMA ListingUnchanged ==
  ASSUME ListingInv, UNCHANGED <<input, listing>>, PhaseInv'
  PROVE  ListingInv'
<1>1. UNCHANGED <<input, pc, pointers, next, inArray, run, last, arrays, sorted>>
  BY DEF listing
<1>2. PointersInv' /\ RunInv'
  BY <1>1 DEF ListingInv, PointersInv, RunInv
<1>3. FoundInv'
  BY <1>1 DEF ListingInv, FoundInv, OpenChains, Chain, RunsFoundUpTo, Listing!RunAt
<1>4. MergeInv'
  <2>1. Listing!ToMerge' = Listing!ToMerge
    BY <1>1 DEF Listing!ToMerge
  <2>2. CASE pc \notin {"merging", "done"}
    BY <1>1, <2>2 DEF ListingInv, MergeInv
  <2>3. CASE pc \in {"merging", "done"}
    <3>1. /\ next \in 1..Len(Listing!ToMerge) + 1
          /\ sorted \in Seq(PoiOf(input)) /\ Ascending(sorted)
          /\ MergedFrom(sorted, Listing!ToMerge, next - 1)
      BY <2>3 DEF ListingInv, MergeInv
    <3>2. MergedFrom(sorted', Listing!ToMerge', next' - 1)
      BY <1>1, <2>1, <3>1
    <3> QED BY <1>1, <2>1, <2>3, <3>1, <3>2 DEF MergeInv
  <2> QED BY <2>2, <2>3
<1> QED BY <1>2, <1>3, <1>4 DEF ListingInv

LEMMA InputKept ==
  ASSUME [Next]_vars
  PROVE  input' = input
<1>1. CASE IndexPointers
  BY <1>1 DEF IndexPointers, Listing!Next, Listing!IndexPointers,
              Listing!RetypeStringPointers, Listing!RetypeRegionPointers, Listing!OpenRun,
              Listing!ExtendRun, Listing!BreakRun, Listing!ArraysDone, Listing!Merge,
              Listing!MergeDone
<1>2. CASE IndexStructureArrays
  BY <1>2 DEF IndexStructureArrays, Search!Next, Search!SkipInside, Search!Rejected,
              Search!Found
<1>3. CASE IdentifyUds
  BY <1>3 DEF IdentifyUds, Scan!Next, Scan!NextByte, Scan!OpenRun, Scan!GrowRun, Scan!EndRun,
              Scan!NextColumn, Scan!NextStructure, Scan!Return
<1>4. CASE IndexStrings \/ Terminated \/ UNCHANGED vars
  BY <1>4 DEF IndexStrings, Terminated, vars
<1> QED BY <1>1, <1>2, <1>3, <1>4 DEF Next

LEMMA NextListingInv ==
  ASSUME ImageInv, ListingInv, [Next]_vars
  PROVE  ImageInv' /\ ListingInv'
<1>1. ImageFacts
  BY ImageIsSound
<1>2. input' = input
  BY InputKept
<1>3. ImageInv'
  BY <1>2 DEF ImageInv, Fits, Loaded
<1>4. CASE IndexStrings \/ Terminated \/ UNCHANGED vars
  <2>1. UNCHANGED <<input, listing, search, scan>>
    BY <1>4 DEF IndexStrings, Terminated, vars
  <2>2. PhaseInv'
    BY <2>1 DEF ListingInv, PhaseInv, Early, Search!Init, Scan!Init, search, scan, listing,
                Search!AtPointer
  <2> QED BY <1>3, <2>1, <2>2, ListingUnchanged
<1>5. CASE IndexPointers
  <2>1. UNCHANGED <<search, scan>> /\ Listing!Next
    BY <1>5 DEF IndexPointers
  <2>2. CASE Listing!IndexPointers
    BY <1>1, <1>3, <2>1, <2>2, IndexKeepsListing
  <2>3. CASE Listing!RetypeStringPointers \/ Listing!RetypeRegionPointers
    BY <1>1, <1>3, <2>1, <2>3, RetypeKeepsListing
  <2>4. CASE Listing!OpenRun
    BY <1>1, <1>3, <2>1, <2>4, OpenRunKeepsListing
  <2>5. CASE Listing!ExtendRun
    BY <1>1, <1>3, <2>1, <2>5, ExtendRunKeepsListing
  <2>6. CASE Listing!BreakRun
    BY <1>1, <1>3, <2>1, <2>6, BreakRunKeepsListing
  <2>7. CASE Listing!ArraysDone
    BY <1>1, <1>3, <2>1, <2>7, ArraysDoneKeepsListing
  <2>8. CASE Listing!Merge \/ Listing!MergeDone
    BY <1>1, <1>3, <2>1, <2>8, MergeKeepsListing
  <2> QED BY <2>1, <2>2, <2>3, <2>4, <2>5, <2>6, <2>7, <2>8 DEF Listing!Next
<1>6. CASE IndexStructureArrays
  <2>1. UNCHANGED <<input, listing, scan>> /\ pc = "done" /\ Search!AtPointer
    BY <1>2, <1>6 DEF IndexStructureArrays, Search!Next, Search!SkipInside, Search!Rejected,
                      Search!Found
  <2>2. PhaseInv'
    BY <2>1 DEF ListingInv, PhaseInv, Scan!Init, scan, listing
  <2> QED BY <1>3, <2>1, <2>2, ListingUnchanged
<1>7. CASE IdentifyUds
  <2>1. UNCHANGED <<input, listing, search>> /\ pc = "done" /\ ~Search!AtPointer
    BY <1>2, <1>7 DEF IdentifyUds
  <2>2. PhaseInv'
    BY <2>1 DEF ListingInv, PhaseInv, search, listing, Search!AtPointer
  <2> QED BY <1>3, <2>1, <2>2, ListingUnchanged
<1> QED BY <1>4, <1>5, <1>6, <1>7 DEF Next

LEMMA PartImpliesRunsFound ==
  ASSUME ListingInv
  PROVE  RunsFound
<1>1. DOMAIN pointers = 1..Len(pointers)
  <2>1. pointers \in Seq(PoiOf(input))
    BY DEF ListingInv, PointersInv
  <2> QED BY <2>1
<1>2. pc = "merging" => RunsFoundUpTo(Len(pointers))
  BY DEF ListingInv, FoundInv
<1> QED BY <1>1, <1>2 DEF RunsFound, Listing!RunsFound, RunsFoundUpTo

LEMMA PartImpliesListingTypes ==
  ASSUME ListingInv
  PROVE  Listing!TypeOK
<1>1. pointers \in Seq(PoiOf(input)) /\ Len(pointers) \in Nat
      /\ DOMAIN pointers = 1..Len(pointers)
      /\ \A j \in DOMAIN pointers : pointers[j] \in PoiOf(input)
  BY DEF ListingInv, PointersInv
<1>2. ASSUME NEW j \in DOMAIN pointers
      PROVE  pointers[j].type \in IF pc \in {"retyping strings", "retyping regions"}
                                    THEN Listing!PointerType
                                    ELSE Listing!PointerType \ {"GenericPointer"}
  <2>1. pointers[j].type \in Listing!PointerType
    BY <1>1, PoiFields
  <2>2. pc # "indexing"
    BY <1>2, EmptySeq DEF ListingInv, PointersInv
  <2>3. pc \notin Early => pointers[j].type # "GenericPointer"
    BY DEF ListingInv, PointersInv
  <2> QED BY <2>1, <2>2, <2>3 DEF Early
<1>3. next \in 1..Len(Listing!ToMerge) + 1
  <2>1. Len(pointers) <= Len(Listing!ToMerge) /\ Len(Listing!ToMerge) \in Nat
    BY MergeEntries DEF MergeFacts
  <2>2. CASE pc \in Early
    BY <2>1, <2>2 DEF ListingInv, RunInv
  <2>3. CASE pc = "arrays"
    <3>1. next \in 1..Len(pointers) + 1
      BY <2>3 DEF ListingInv, RunInv
    <3> QED BY <1>1, <2>1, <3>1
  <2>4. CASE pc \in {"merging", "done"}
    BY <2>4 DEF ListingInv, MergeInv
  <2> QED BY <2>2, <2>3, <2>4 DEF ListingInv, PhaseInv
<1>4. inArray \in BOOLEAN
  BY DEF ListingInv, RunInv
<1>5. run.count \in 0..Len(pointers)
  <2>1. run \in Run /\ run.count <= Len(pointers)
    BY DEF ListingInv, RunInv
  <2>2. run.count \in Nat
    BY <2>1 DEF Run
  <2> QED BY <1>1, <2>1, <2>2
<1>6. last \in {0} \cup {pointers[j].offset : j \in DOMAIN pointers}
  BY DEF ListingInv, RunInv
<1> QED BY <1>2, <1>3, <1>4, <1>5, <1>6 DEF Listing!TypeOK

LEMMA PartImpliesSorted ==
  ASSUME ListingInv
  PROVE  Listing!SortedListing
<1> SUFFICES ASSUME pc \in {"merging", "done"}
             PROVE  LET merged == SubSeq(Listing!ToMerge, 1, next - 1)
                    IN  /\ \A j \in DOMAIN sorted : sorted[j].type # "ArrayPointer"
                        /\ \A i, j \in DOMAIN sorted : i < j => sorted[i].offset < sorted[j].offset
                        /\ \A i \in DOMAIN merged : \E j \in DOMAIN sorted :
                             sorted[j].offset = merged[i].offset
                        /\ \A j \in DOMAIN sorted : \E i \in DOMAIN merged :
                             /\ merged[i] = sorted[j]
                             /\ \A m \in 1..i - 1 : merged[m].offset # merged[i].offset
  BY DEF Listing!SortedListing
<1> DEFINE all == Listing!ToMerge
           merged == SubSeq(all, 1, next - 1)
<1>1. /\ next \in 1..Len(all) + 1 /\ sorted \in Seq(PoiOf(input)) /\ Ascending(sorted)
      /\ MergedFrom(sorted, all, next - 1)
  BY DEF ListingInv, MergeInv
<1>2. Len(all) \in Nat
  BY MergeEntries DEF MergeFacts
<1>3. DOMAIN merged = 1..next - 1 /\ \A i \in 1..next - 1 : merged[i] = all[i]
  <2> DEFINE S == {all[i] : i \in 1..Len(all)}
             n == next - 1
  <2>1. n \in Nat /\ n \in Int /\ \A i \in 1..n : i \in 1..Len(all)
    BY <1>1, <1>2
  <2>2. \A i \in 1..n : all[i] \in S
    BY <2>1
  <2> HIDE DEF S, n, all
  <2>3. /\ SubSeq(all, 1, n) \in Seq(S)
        /\ Len(SubSeq(all, 1, n)) = (IF 1 <= n THEN n - 1 + 1 ELSE 0)
        /\ \A i \in 1..n - 1 + 1 : SubSeq(all, 1, n)[i] = all[1 + i - 1]
    BY <2>1, <2>2, SubSeqProperties
  <2>4. n - 1 + 1 = n /\ \A i \in 1..n : 1 + i - 1 = i
    BY <2>1
  <2>5. Len(SubSeq(all, 1, n)) = n
    BY <2>1, <2>3
  <2>6. DOMAIN SubSeq(all, 1, n) = 1..n
    BY <2>3, <2>5
  <2> QED BY <2>3, <2>4, <2>6 DEF n
<1>4. \A j \in DOMAIN sorted : sorted[j].type # "ArrayPointer"
  <2>1. \A j \in DOMAIN sorted : sorted[j] \in PoiOf(input)
    BY <1>1
  <2>2. \A j \in DOMAIN sorted : sorted[j].type \in Listing!PointerType
    BY <2>1, PoiFields
  <2> QED BY <2>2 DEF Listing!PointerType
<1> HIDE DEF merged
<1>5. \A i \in DOMAIN merged : \E j \in DOMAIN sorted : sorted[j].offset = merged[i].offset
  BY <1>1, <1>3 DEF MergedFrom
<1>6. \A j \in DOMAIN sorted : \E i \in DOMAIN merged :
        /\ merged[i] = sorted[j]
        /\ \A m \in 1..i - 1 : merged[m].offset # merged[i].offset
  <2> SUFFICES ASSUME NEW j \in DOMAIN sorted
               PROVE  \E i \in DOMAIN merged :
                        /\ merged[i] = sorted[j]
                        /\ \A m \in 1..i - 1 : merged[m].offset # merged[i].offset
    OBVIOUS
  <2>1. PICK i \in 1..next - 1 :
          all[i] = sorted[j] /\ \A m \in 1..i - 1 : all[m].offset # all[i].offset
    BY <1>1 DEF MergedFrom
  <2>2. \A m \in 1..i - 1 : m \in 1..next - 1
    BY <1>1, <1>2
  <2> QED BY <1>3, <2>1, <2>2
<1> QED BY <1>1, <1>4, <1>5, <1>6 DEF Ascending, merged

LEMMA ListingKept == Spec => [](ImageInv /\ ListingInv)
<1>1. Init => ImageInv /\ ListingInv
  BY InitImageInv, InitListingInv
<1>2. ImageInv /\ ListingInv /\ [Next]_vars => (ImageInv /\ ListingInv)'
  BY NextListingInv
<1> QED BY <1>1, <1>2, PTL DEF Spec

\* index_pointer_arrays (uds.rs:186-214) misses no long run of pointers: each
\* that a later pointer ends is an array, from its second pointer at the latest.
THEOREM LongRunsAreFound == Spec => []RunsFound
<1>1. ImageInv /\ ListingInv => RunsFound
  BY PartImpliesRunsFound
<1> QED BY <1>1, ListingKept, PTL

\* add_unique_sorted (poi.rs) keeps the merged list strictly ascending, with the
\* first entry of each offset and no array: what the min_offset skip of the
\* structure search relies on.
THEOREM ListingIsSorted == Spec => []SortedListing
<1>1. ImageInv /\ ListingInv => SortedListing
  BY PartImpliesListingTypes, PartImpliesSorted DEF SortedListing
<1> QED BY <1>1, ListingKept, PTL

-----------------------------------------------------------------------------
\* The structure search: what it counts.

LEMMA Products ==
  ASSUME NEW c \in Nat, NEW m \in Nat, NEW z \in Nat
  PROVE  /\ c * m * z \in Nat /\ m * z \in Nat
         /\ (c + 1) * m * z = c * m * z + m * z
<1>1. c * m \in Nat /\ m * z \in Nat /\ (c + 1) * m = c * m + m
  OBVIOUS
<1>2. (c * m + m) * z = c * m * z + m * z
  <2> DEFINE a == c * m
  <2>1. a \in Nat
    BY <1>1
  <2> HIDE DEF a
  <2>2. (a + m) * z = a * z + m * z
    BY <2>1
  <2> QED BY <2>2 DEF a
<1>3. c * m * z \in Nat
  <2> DEFINE a == c * m
  <2>1. a \in Nat
    BY <1>1
  <2> HIDE DEF a
  <2>2. a * z \in Nat
    BY <2>1
  <2> QED BY <2>2 DEF a
<1> QED BY <1>1, <1>2, <1>3

LEMMA ProductGrows ==
  ASSUME NEW c \in Nat, NEW m \in Nat \ {0}, NEW z \in Nat
  PROVE  c * z <= c * m * z
<1> DEFINE a == c * m
<1>1. a \in Nat /\ c <= a
  OBVIOUS
<1> HIDE DEF a
<1>2. c * z <= a * z
  BY <1>1
<1> QED BY <1>2 DEF a

LEMMA DivisionBound ==
  ASSUME NEW x \in Nat, NEW z \in Nat \ {0}
  PROVE  x \div z \in Nat /\ (x \div z) * z + z > x
OBVIOUS

\* As many words as the image has reach past its end.
LEMMA WordsCoverImage ==
  ASSUME ImageFacts, input.length > 0
  PROVE  /\ Search!NbWords \in Nat \ {0}
         /\ Search!NbWords * input.psize >= input.length
<1> DEFINE a == (input.length - 1) \div input.psize
<1>1. input.psize \in Nat \ {0} /\ input.length \in Nat /\ DOMAIN input.words = 0..a
  BY DEF ImageFacts
<1>2. a \in Nat /\ a * input.psize + input.psize > input.length - 1
      /\ (a + 1) * input.psize = a * input.psize + input.psize
  <2>1. input.length - 1 \in Nat
    BY <1>1
  <2>2. a \in Nat /\ a * input.psize + input.psize > input.length - 1
    BY <1>1, <2>1, DivisionBound
  <2> HIDE DEF a
  <2> QED BY <1>1, <2>2
<1>3. Search!NbWords = a + 1
  <2> HIDE DEF a
  <2>1. Search!NbWords = Cardinality(0..a)
    BY <1>1 DEF Search!NbWords, Search!Cardinality, Cardinality
  <2>2. Cardinality(0..a) = IF 0 > a THEN 0 ELSE a - 0 + 1
    BY <1>2, FS_Interval
  <2> QED BY <1>2, <2>1, <2>2
<1> HIDE DEF a
<1>4. a * input.psize \in Nat
  BY <1>1, <1>2
<1> QED BY <1>1, <1>2, <1>3, <1>4

\* What Repetitions counts: elements up to the first that is missing.
Repeats(poi, m, c) ==
  /\ c \in 1..Search!NbWords
  /\ ~Search!RepeatsAt(poi, poi.offset + c * m * input.psize)
  /\ \A d \in 1..c - 1 : Search!RepeatsAt(poi, poi.offset + d * m * input.psize)

LEMMA RepetitionsCount ==
  ASSUME ImageFacts, NEW poi \in PoiOf(input), NEW m \in Nat \ {0}
  PROVE  Repeats(poi, m, Search!Repetitions(poi, m))
<1> DEFINE missing == {c \in 1..Search!NbWords :
                         ~Search!RepeatsAt(poi, poi.offset + c * m * input.psize)}
           n == Search!NbWords
           least == CHOOSE c \in missing : \A d \in missing : c <= d
<1>1. poi.offset \in Nat /\ poi.offset < input.length - input.psize
      /\ input.psize \in Nat \ {0} /\ input.length \in Nat
  BY PoiFields, ReadIndexed DEF ImageFacts
<1>2. n \in Nat \ {0} /\ n * input.psize >= input.length
  BY <1>1, WordsCoverImage
<1>3. missing # {}
  <2>1. n * input.psize <= n * m * input.psize /\ n * m * input.psize \in Nat
    <3> HIDE DEF n
    <3> QED BY <1>1, <1>2, ProductGrows, Products
  <2>2. n * input.psize \in Nat
    <3> HIDE DEF n
    <3> QED BY <1>1, <1>2
  <2>3. ~(poi.offset + n * m * input.psize < input.length - input.psize)
    <3> DEFINE x == n * m * input.psize
               y == n * input.psize
    <3>1. x \in Nat /\ y \in Nat /\ y <= x /\ y >= input.length
      BY <1>2, <2>1, <2>2
    <3> HIDE DEF x, y
    <3>2. ~(poi.offset + x < input.length - input.psize)
      BY <1>1, <3>1
    <3> QED BY <3>2 DEF x
  <2>4. ~Search!RepeatsAt(poi, poi.offset + n * m * input.psize)
    BY <2>3 DEF Search!RepeatsAt, Search!ScanLimit
  <2>5. n \in 1..n
    BY <1>2
  <2>6. n \in missing
    BY <2>4, <2>5
  <2> QED BY <2>6
<1>4. \E c \in missing : \A d \in missing : c <= d
  <2>1. missing \subseteq Nat
    BY <1>2
  <2> HIDE DEF missing
  <2> QED BY <1>3, <2>1, LeastMember
<1>5. least \in missing /\ \A d \in missing : least <= d
  <2> HIDE DEF missing
  <2> QED BY <1>4
<1>6. Search!Repetitions(poi, m) = least
  BY DEF Search!Repetitions, Search!Min
<1> HIDE DEF least
<1>7. \A d \in 1..least - 1 : Search!RepeatsAt(poi, poi.offset + d * m * input.psize)
  <2> SUFFICES ASSUME NEW d \in 1..least - 1
               PROVE  Search!RepeatsAt(poi, poi.offset + d * m * input.psize)
    OBVIOUS
  <2>1. d \in 1..Search!NbWords /\ ~(least <= d)
    BY <1>2, <1>5
  <2>2. d \notin missing
    <3> HIDE DEF missing
    <3> QED BY <1>5, <2>1
  <2> QED BY <2>1, <2>2
<1> QED BY <1>5, <1>6, <1>7 DEF Repeats

\* There is a structure size of most repetitions, and BestMembers is one.
LEMMA BestIsBest ==
  ASSUME ImageFacts, NEW poi \in PoiOf(input)
  PROVE  /\ Search!BestMembers(poi) \in 2..MaxMembers
         /\ \A m \in 2..MaxMembers :
              Search!Repetitions(poi, Search!BestMembers(poi)) >= Search!Repetitions(poi, m)
<1> DEFINE n == Search!NbWords
           rep(m) == Search!Repetitions(poi, m)
           short == {n - rep(m) : m \in 2..MaxMembers}
           winners == {m \in 2..MaxMembers : \A l \in 2..MaxMembers : rep(m) >= rep(l)}
           least == CHOOSE c \in winners : \A d \in winners : c <= d
<1>1. \A m \in 2..MaxMembers : m \in Nat \ {0}
  BY FinderAssumption
<1>2. poi.offset \in Nat /\ poi.offset < input.length - input.psize
      /\ input.psize \in Nat \ {0} /\ input.length \in Nat
  BY PoiFields, ReadIndexed DEF ImageFacts
<1>3. n \in Nat \ {0}
  BY <1>2, WordsCoverImage
<1>4. \A m \in 2..MaxMembers : rep(m) \in 1..n
  BY <1>1, RepetitionsCount DEF Repeats
<1> HIDE DEF n, rep
<1>5. short \subseteq Nat /\ short # {}
  <2>1. 2 \in 2..MaxMembers
    BY FinderAssumption
  <2> QED BY <1>3, <1>4, <2>1
<1>6. PICK x \in short : \A y \in short : x <= y
  <2> HIDE DEF short
  <2> QED BY <1>5, LeastMember
<1>7. PICK m \in 2..MaxMembers : x = n - rep(m)
  BY <1>6
<1>8. m \in winners
  <2>1. ASSUME NEW l \in 2..MaxMembers PROVE rep(m) >= rep(l)
    <3>1. n - rep(m) <= n - rep(l)
      BY <1>6, <1>7
    <3>2. rep(m) \in Nat /\ rep(l) \in Nat
      BY <1>4
    <3> QED BY <1>3, <3>1, <3>2
  <2> QED BY <2>1
<1>9. \E c \in winners : \A d \in winners : c <= d
  <2>1. winners \subseteq Nat /\ winners # {}
    BY <1>1, <1>8
  <2> HIDE DEF winners
  <2> QED BY <2>1, LeastMember
<1>10. least \in winners
  <2> HIDE DEF winners
  <2> QED BY <1>9
<1>11. Search!BestMembers(poi) = least
  BY DEF Search!BestMembers, Search!Min, rep
<1> HIDE DEF least
<1> QED BY <1>10, <1>11 DEF rep

-----------------------------------------------------------------------------
\* The structure search: its invariant.

StructureArray ==
  [offset : Nat, type : Listing!PointerType, count : Nat \ {0}, members : 2..MaxMembers,
   signature : UNION {[1..m -> Search!MemberTypes] : m \in 2..MaxMembers}]

\* Every structure of an array begins with a pointer of the list.
Headed(s) ==
  \A c \in 0..s.count - 1 : \E j \in DOMAIN sorted :
    /\ sorted[j].offset = s.offset + c * s.members * input.psize
    /\ sorted[j].type = s.type

SoundArray(s) ==
  /\ s \in StructureArray
  /\ s.signature \in [1..s.members -> Search!MemberTypes]
  /\ Headed(s)
  /\ Search!EndOf(s) <= Search!ScanLimit + MaxMembers * input.psize
  /\ s.offset < Search!EndOf(s)

\* A pointer that heads enough structures lies in an array.
Covered(poi) ==
  (\E m \in 2..MaxMembers : Search!Repetitions(poi, m) > StructMin) =>
    \E l \in DOMAIN structures :
      poi.offset >= structures[l].offset /\ poi.offset < Search!EndOf(structures[l])

PassedCovered == at > 1 => \A poi : poi = sorted[at - 1] => Covered(poi)

\* min_offset is the end of the last array, and arrays begin at passed pointers.
SearchInv ==
  /\ at \in 1..Len(sorted) + 1
  /\ structures \in Seq(StructureArray)
  /\ \A l \in DOMAIN structures : \A s : s = structures[l] => SoundArray(s)
  /\ \A l \in DOMAIN structures : \E i \in 1..at - 1 : sorted[i].offset = structures[l].offset
  /\ Search!StructuresDisjoint
  /\ \A l \in DOMAIN structures : Search!EndOf(structures[l]) <= minOffset
  /\ minOffset \in Nat
  /\ minOffset # 0 => \E l \in DOMAIN structures : minOffset = Search!EndOf(structures[l])
  /\ PassedCovered

LEMMA SortedFacts ==
  ASSUME ListingInv
  PROVE  /\ Len(sorted) \in Nat /\ DOMAIN sorted = 1..Len(sorted)
         /\ \A j \in DOMAIN sorted : sorted[j] \in PoiOf(input)
         /\ Ascending(sorted)
<1>1. CASE pc \in {"merging", "done"}
  <2>1. sorted \in Seq(PoiOf(input)) /\ Ascending(sorted)
    BY <1>1 DEF ListingInv, MergeInv
  <2> QED BY <2>1
<1>2. CASE pc \notin {"merging", "done"}
  <2>1. sorted = <<>>
    BY <1>2 DEF ListingInv, MergeInv
  <2>2. Len(sorted) = 0 /\ DOMAIN sorted = {}
    BY <2>1, EmptySeq
  <2> QED BY <2>2 DEF Ascending
<1> QED BY <1>1, <1>2

LEMMA InitSearchInv ==
  ASSUME ListingInv, Search!Init
  PROVE  SearchInv
<1>1. at = 1 /\ minOffset = 0 /\ structures = <<>>
  BY DEF Search!Init
<1>2. structures \in Seq(StructureArray) /\ DOMAIN structures = {}
  BY <1>1, EmptySeq
<1>3. at \in 1..Len(sorted) + 1
  BY <1>1, SortedFacts
<1> QED BY <1>1, <1>2, <1>3 DEF SearchInv, Search!StructuresDisjoint, PassedCovered

LEMMA MemberTypesAreTypes ==
  ASSUME ListingInv, NEW o
  PROVE  Search!MemberType(o) \in Search!MemberTypes
<1> DEFINE value == Search!ReadWord(o)
           hits == {i \in DOMAIN sorted : Search!PointsAt(value, sorted[i].offset)
                                            \/ sorted[i].offset = o}
           least == CHOOSE c \in hits : \A d \in hits : c <= d
<1>1. Search!PlainType(value) \in Search!MemberTypes
  BY DEF Search!PlainType, Search!MemberTypes
<1>2. ASSUME hits # {} PROVE sorted[least].type \in Search!MemberTypes
  <2>1. hits \subseteq Nat
    BY SortedFacts
  <2>2. \E c \in hits : \A d \in hits : c <= d
    <3> HIDE DEF hits
    <3> QED BY <1>2, <2>1, LeastMember
  <2>3. least \in hits
    <3> HIDE DEF hits
    <3> QED BY <2>2
  <2>4. sorted[least] \in PoiOf(input)
    <3> HIDE DEF least
    <3> QED BY <2>3, SortedFacts
  <2>5. sorted[least].type \in Listing!PointerType
    <3> HIDE DEF least
    <3> QED BY <2>4, PoiFields
  <2> HIDE DEF least
  <2> QED BY <2>5 DEF Listing!PointerType, Search!MemberTypes
<1>3. Search!MemberType(o) =
        IF hits = {} THEN Search!PlainType(value)
        ELSE IF Search!PointsAt(value, sorted[least].offset) THEN "PointerPointer"
        ELSE sorted[least].type
  BY DEF Search!MemberType, Search!Min
<1>4. "PointerPointer" \in Search!MemberTypes
  BY DEF Search!MemberTypes
<1> HIDE DEF hits, least, value
<1> QED BY <1>1, <1>2, <1>3, <1>4

LEMMA StrideBound ==
  ASSUME NEW m \in Nat, NEW n \in Nat, m <= n, NEW z \in Nat
  PROVE  m * z <= n * z
OBVIOUS

LEMMA SumBound ==
  ASSUME NEW o \in Nat, NEW b \in Nat, NEW w \in Nat, NEW W \in Nat, NEW l \in Int,
         o + b < l, w <= W
  PROVE  o + (b + w) <= l + W
OBVIOUS

LEMMA CountedEnd ==
  ASSUME NEW c \in Nat \ {0}, NEW m \in Nat \ {0}, NEW z \in Nat \ {0}
  PROVE  c * m * z > 0
<1> DEFINE a == c * m
<1>1. a \in Nat \ {0}
  OBVIOUS
<1> HIDE DEF a
<1>2. a * z > 0
  BY <1>1
<1> QED BY <1>2 DEF a

\* What the search finds at a pointer is an array of structures.
LEMMA FoundIsSound ==
  ASSUME ImageFacts, ListingInv, at \in 1..Len(sorted)
  PROVE  LET s == Search!Structure(sorted[at])
         IN  /\ SoundArray(s)
             /\ s.offset = sorted[at].offset
             /\ s.members = Search!BestMembers(sorted[at])
             /\ s.count = Search!Repetitions(sorted[at], s.members)
<1> DEFINE poi == sorted[at]
           members == Search!BestMembers(poi)
           c == Search!Repetitions(poi, members)
           sig == [i \in 1..members |-> Search!MemberType(poi.offset + (i - 1) * input.psize)]
           s == Search!Structure(poi)
<1>1. poi \in PoiOf(input)
  BY SortedFacts
<1>2. poi.offset \in Nat /\ poi.type \in Listing!PointerType
      /\ poi.offset < Search!ScanLimit
  BY <1>1, PoiFields, ReadIndexed DEF Search!ScanLimit
<1>3. input.psize \in Nat \ {0} /\ input.length \in Nat
  BY DEF ImageFacts
<1> HIDE DEF poi
<1>4. members \in 2..MaxMembers
  BY <1>1, BestIsBest
<1>5. members \in Nat \ {0} /\ MaxMembers \in Nat
  BY <1>4, FinderAssumption
<1> HIDE DEF members
<1>6. Repeats(poi, members, c)
  BY <1>1, <1>5, RepetitionsCount
<1>7. c \in Nat \ {0}
  <2>1. c \in 1..Search!NbWords
    BY <1>6 DEF Repeats
  <2> QED BY <2>1
<1> HIDE DEF c
<1>8. sig \in [1..members -> Search!MemberTypes]
  BY MemberTypesAreTypes
<1>9. s = [offset |-> poi.offset, type |-> poi.type, count |-> c, members |-> members,
           signature |-> sig]
  BY DEF Search!Structure, members, c
<1> HIDE DEF sig, s
<1>10. /\ s.offset = poi.offset /\ s.type = poi.type /\ s.count = c
       /\ s.members = members /\ s.signature = sig
  BY <1>9
<1>11. s \in StructureArray
  <2>1. sig \in UNION {[1..m -> Search!MemberTypes] : m \in 2..MaxMembers}
    BY <1>4, <1>8
  <2> QED BY <1>2, <1>4, <1>7, <1>9, <2>1 DEF StructureArray
<1>12. Headed(s)
  <2> SUFFICES ASSUME NEW d \in 0..c - 1
               PROVE  \E j \in DOMAIN sorted :
                        /\ sorted[j].offset = poi.offset + d * members * input.psize
                        /\ sorted[j].type = poi.type
    BY <1>10 DEF Headed
  <2>1. CASE d = 0
    <3>1. d * members * input.psize = 0
      <4>1. 0 * members = 0 /\ 0 * input.psize = 0
        BY <1>3, <1>5
      <4> QED BY <2>1, <4>1
    <3>2. at \in DOMAIN sorted
      BY SortedFacts
    <3> QED BY <1>2, <3>1, <3>2 DEF poi
  <2>2. CASE d # 0
    <3>1. d \in 1..c - 1
      BY <1>7, <2>2
    <3>2. Search!RepeatsAt(poi, poi.offset + d * members * input.psize)
      BY <1>6, <3>1 DEF Repeats
    <3> QED BY <3>2 DEF Search!RepeatsAt
  <2> QED BY <2>1, <2>2
<1> PICK d \in Nat : d + 1 = c
  BY <1>7
<1> DEFINE e == c * members * input.psize
           b == d * members * input.psize
           w == members * input.psize
           W == MaxMembers * input.psize
<1>13. Search!EndOf(s) = poi.offset + e
  BY <1>10 DEF Search!EndOf
<1>14. e \in Nat /\ b \in Nat /\ w \in Nat /\ e = b + w /\ e > 0 /\ w <= W /\ W \in Nat
  <2>1. b \in Nat /\ w \in Nat /\ (d + 1) * members * input.psize = b + w
    BY <1>3, <1>5, Products
  <2>2. e = b + w
    <3> HIDE DEF b, w
    <3> QED BY <2>1
  <2>3. e > 0 /\ e \in Nat
    BY <1>3, <1>5, <1>7, CountedEnd, Products
  <2>4. w <= W /\ W \in Nat
    <3>1. members <= MaxMembers
      BY <1>4
    <3>2. w <= W
      BY <1>3, <1>5, <3>1, StrideBound
    <3>3. W \in Nat
      BY <1>3, <1>5
    <3> QED BY <3>2, <3>3
  <2> QED BY <2>1, <2>2, <2>3, <2>4
<1>15. poi.offset + b < Search!ScanLimit
  <2>1. CASE c = 1
    <3>1. 0 * members = 0 /\ 0 * input.psize = 0
      BY <1>3, <1>5
    <3>2. b = 0
      BY <2>1, <3>1
    <3> QED BY <1>2, <3>2
  <2>2. CASE c # 1
    <3>1. d \in 1..c - 1
      BY <1>7, <2>2
    <3>2. Search!RepeatsAt(poi, poi.offset + b)
      BY <1>6, <3>1 DEF Repeats
    <3> QED BY <3>2 DEF Search!RepeatsAt
  <2> QED BY <2>1, <2>2
<1>16. Search!EndOf(s) <= Search!ScanLimit + W /\ s.offset < Search!EndOf(s)
  <2>1. Search!ScanLimit \in Int
    BY <1>3 DEF Search!ScanLimit
  <2> HIDE DEF e, b, w, W
  <2>2. poi.offset + e <= Search!ScanLimit + W
    BY <1>2, <1>14, <1>15, <2>1, SumBound
  <2> QED BY <1>2, <1>10, <1>13, <1>14, <2>2
<1>17. SoundArray(s)
  BY <1>8, <1>10, <1>11, <1>12, <1>16 DEF SoundArray
<1> QED BY <1>10, <1>17 DEF s, poi, members, c

\* The search reads the image and the list, which it leaves alone.
LEMMA SearchReads ==
  ASSUME UNCHANGED <<input, sorted>>
  PROVE  /\ \A s : Search!EndOf(s)' = Search!EndOf(s)
         /\ \A s : SoundArray(s)' <=> SoundArray(s)
         /\ \A p, m : Search!Repetitions(p, m)' = Search!Repetitions(p, m)
<1>1. \A s : Search!EndOf(s)' = Search!EndOf(s)
  BY DEF Search!EndOf
<1>2. \A s : SoundArray(s)' <=> SoundArray(s)
  BY <1>1 DEF SoundArray, Headed, Search!ScanLimit
<1>3. \A p, m : Search!Repetitions(p, m)' = Search!Repetitions(p, m)
  BY DEF Search!Repetitions, Search!NbWords, Search!RepeatsAt, Search!ScanLimit
<1> QED BY <1>1, <1>2, <1>3

LEMMA EndIsNumber ==
  ASSUME ImageFacts, NEW s \in StructureArray
  PROVE  Search!EndOf(s) \in Nat
<1>1. s.offset \in Nat /\ s.count \in Nat /\ s.members \in Nat
  BY FinderAssumption DEF StructureArray
<1>2. s.count * s.members * input.psize \in Nat
  BY <1>1, Products DEF ImageFacts
<1> QED BY <1>1, <1>2 DEF Search!EndOf

\* Passing a pointer without an array keeps the rest, if the pointer is covered.
LEMMA PassedKeepsSearch ==
  ASSUME ImageFacts, ListingInv, SearchInv,
         UNCHANGED <<input, sorted, structures, minOffset>>,
         at <= Len(sorted), at' = at + 1, Covered(sorted[at])
  PROVE  SearchInv'
<1>1. /\ at \in 1..Len(sorted) + 1 /\ structures \in Seq(StructureArray)
      /\ \A l \in DOMAIN structures : SoundArray(structures[l])
      /\ minOffset \in Nat
  BY DEF SearchInv
<1>2. Len(sorted) \in Nat
  BY SortedFacts
<1>3. at' \in 1..Len(sorted') + 1 /\ at' - 1 = at
  BY <1>1, <1>2
<1>4. \A l \in DOMAIN structures : \A s : s = structures[l] => SoundArray(s)'
  BY <1>1, SearchReads
<1>5. \A l \in DOMAIN structures : \E i \in 1..at' - 1 : sorted[i].offset = structures[l].offset
  <2> SUFFICES ASSUME NEW l \in DOMAIN structures
               PROVE  \E i \in 1..at' - 1 : sorted[i].offset = structures[l].offset
    OBVIOUS
  <2>1. PICK i \in 1..at - 1 : sorted[i].offset = structures[l].offset
    BY DEF SearchInv
  <2>2. i \in 1..at' - 1
    BY <1>1, <1>3
  <2> QED BY <2>1, <2>2
<1>6. Search!StructuresDisjoint'
  BY DEF SearchInv, Search!StructuresDisjoint
<1>7. /\ \A l \in DOMAIN structures' : Search!EndOf(structures[l])' <= minOffset'
      /\ minOffset' # 0 =>
           \E l \in DOMAIN structures' : minOffset' = Search!EndOf(structures[l])'
  BY SearchReads DEF SearchInv
<1>8. PassedCovered'
  <2>1. sorted'[at' - 1] = sorted[at]
    BY <1>3
  <2>2. \A poi : poi = sorted[at] => Covered(poi)'
    BY SearchReads DEF Covered
  <2> QED BY <2>1, <2>2 DEF PassedCovered
<1> QED BY <1>1, <1>3, <1>4, <1>5, <1>6, <1>7, <1>8 DEF SearchInv

\* An array that begins behind min_offset overlaps none found before.
LEMMA FoundKeepsSearch ==
  ASSUME ImageFacts, ListingInv, SearchInv, UNCHANGED <<input, sorted>>,
         at <= Len(sorted), at' = at + 1, sorted[at].offset >= minOffset,
         NEW s, s = Search!Structure(sorted[at]),
         structures' = Append(structures, s), minOffset' = Search!EndOf(s)
  PROVE  SearchInv'
<1>1. /\ at \in 1..Len(sorted) + 1 /\ structures \in Seq(StructureArray)
      /\ \A l \in DOMAIN structures : SoundArray(structures[l])
      /\ minOffset \in Nat
  BY DEF SearchInv
<1>2. at \in 1..Len(sorted) /\ Len(sorted) \in Nat
  BY <1>1, SortedFacts
<1>3. SoundArray(s) /\ s.offset = sorted[at].offset /\ s \in StructureArray
  <2>1. SoundArray(s) /\ s.offset = sorted[at].offset
    BY <1>2, FoundIsSound
  <2> QED BY <2>1 DEF SoundArray
<1>4. Search!EndOf(s) \in Nat /\ s.offset \in Nat /\ s.offset < Search!EndOf(s)
  <2>1. s.offset \in Nat
    BY <1>3 DEF StructureArray
  <2> QED BY <1>3, <2>1, EndIsNumber DEF SoundArray
<1> DEFINE n == Len(structures)
<1>5. /\ n \in Nat /\ DOMAIN structures = 1..n
      /\ structures' \in Seq(StructureArray) /\ DOMAIN structures' = 1..n + 1
      /\ \A l \in 1..n : structures'[l] = structures[l]
      /\ structures'[n + 1] = s
  BY <1>1, <1>3
<1>6. \A l \in 1..n : structures[l] \in StructureArray
  BY <1>1, <1>5
<1> HIDE DEF n
<1>7. at' \in 1..Len(sorted') + 1 /\ at' - 1 = at
  BY <1>1, <1>2
<1>8. \A l \in DOMAIN structures' : \A t : t = structures'[l] => SoundArray(t)'
  <2> SUFFICES ASSUME NEW l \in DOMAIN structures', NEW t, t = structures'[l]
               PROVE  SoundArray(t)'
    OBVIOUS
  <2>1. SoundArray(t)
    <3>1. CASE l \in 1..n
      BY <1>1, <1>5, <3>1
    <3>2. CASE l = n + 1
      BY <1>3, <1>5, <3>2
    <3> QED BY <1>5, <3>1, <3>2
  <2> QED BY <2>1, SearchReads
<1>9. \A l \in 1..n + 1 : \E i \in 1..at' - 1 : sorted[i].offset = structures'[l].offset
  <2> SUFFICES ASSUME NEW l \in 1..n + 1
               PROVE  \E i \in 1..at' - 1 : sorted[i].offset = structures'[l].offset
    OBVIOUS
  <2>1. CASE l \in 1..n
    <3>1. PICK i \in 1..at - 1 : sorted[i].offset = structures[l].offset
      BY <1>5, <2>1 DEF SearchInv
    <3>2. i \in 1..at' - 1
      BY <1>1, <1>7
    <3> QED BY <1>5, <2>1, <3>1, <3>2
  <2>2. CASE l = n + 1
    <3>1. at \in 1..at' - 1
      BY <1>2, <1>7
    <3> QED BY <1>3, <1>5, <2>2, <3>1
  <2> QED BY <1>5, <2>1, <2>2
<1>10. \A l \in 1..n : Search!EndOf(structures[l]) \in Nat
                       /\ Search!EndOf(structures[l]) <= minOffset
  BY <1>5, <1>6, EndIsNumber DEF SearchInv
<1>11. minOffset <= s.offset /\ minOffset <= Search!EndOf(s)
  BY <1>1, <1>3, <1>4
<1>12. \A i, l \in 1..n + 1 :
         i < l => Search!EndOf(structures'[i]) <= structures'[l].offset
  <2> SUFFICES ASSUME NEW i \in 1..n + 1, NEW l \in 1..n + 1, i < l
               PROVE  Search!EndOf(structures'[i]) <= structures'[l].offset
    OBVIOUS
  <2>1. CASE l \in 1..n
    <3>1. i \in 1..n /\ i \in DOMAIN structures /\ l \in DOMAIN structures
      BY <1>5, <2>1
    <3>2. Search!EndOf(structures[i]) <= structures[l].offset
      BY <3>1 DEF SearchInv, Search!StructuresDisjoint, Search!EndOf
    <3> QED BY <1>5, <2>1, <3>1, <3>2
  <2>2. CASE l = n + 1
    <3>1. i \in 1..n
      BY <1>5, <2>2
    <3> QED BY <1>1, <1>4, <1>5, <1>10, <1>11, <2>2, <3>1
  <2>3. i \in Nat /\ (l \in 1..n \/ l = n + 1)
    BY <1>5
  <2> QED BY <2>1, <2>2, <2>3
<1>13. Search!StructuresDisjoint'
  BY <1>5, <1>12 DEF Search!StructuresDisjoint, Search!EndOf
<1>14. \A l \in 1..n + 1 : Search!EndOf(structures'[l]) <= Search!EndOf(s)
  <2> SUFFICES ASSUME NEW l \in 1..n + 1
               PROVE  Search!EndOf(structures'[l]) <= Search!EndOf(s)
    OBVIOUS
  <2>1. CASE l \in 1..n
    BY <1>1, <1>4, <1>5, <1>10, <1>11, <2>1
  <2>2. CASE l = n + 1
    BY <1>4, <1>5, <2>2
  <2> QED BY <1>5, <2>1, <2>2
<1>15. /\ \A l \in 1..n + 1 : \A t : t = structures'[l] => Search!EndOf(t)' <= minOffset'
       /\ \E l \in 1..n + 1 : \E t : t = structures'[l] /\ minOffset' = Search!EndOf(t)'
  <2>1. n + 1 \in 1..n + 1
    BY <1>5
  <2> QED BY <1>5, <1>14, <2>1, SearchReads
<1>16. PassedCovered'
  <2> SUFFICES ASSUME NEW poi, poi = sorted[at]
               PROVE  Covered(poi)'
    BY <1>7 DEF PassedCovered
  <2>1. poi.offset >= s.offset /\ poi.offset < Search!EndOf(s)
    BY <1>3, <1>4
  <2>2. n + 1 \in DOMAIN structures' /\ structures'[n + 1] = s
    BY <1>5
  <2>3. poi.offset >= s.offset /\ poi.offset < Search!EndOf(s)'
    BY <2>1, SearchReads
  <2> QED BY <2>2, <2>3 DEF Covered, Search!EndOf
<1>17. minOffset' \in Nat
  BY <1>4
<1>18. \A l \in DOMAIN structures' : Search!EndOf(structures[l])' <= minOffset'
  BY <1>5, <1>15 DEF Search!EndOf
<1>19. \E l \in DOMAIN structures' : minOffset' = Search!EndOf(structures[l])'
  BY <1>5, <1>15 DEF Search!EndOf
<1> QED BY <1>5, <1>7, <1>8, <1>9, <1>13, <1>16, <1>17, <1>18, <1>19 DEF SearchInv

\* Nothing heads an array below the pointers of the last one.
LEMMA SearchStepKeepsSearch ==
  ASSUME ImageFacts, ListingInv, SearchInv, UNCHANGED <<input, sorted>>, Search!Next
  PROVE  SearchInv'
<1>1. at <= Len(sorted) /\ at \in 1..Len(sorted) + 1 /\ Len(sorted) \in Nat
      /\ minOffset \in Nat
  BY SortedFacts DEF SearchInv, Search!Next, Search!SkipInside, Search!Rejected,
                     Search!Found, Search!AtPointer
<1>2. at \in DOMAIN sorted /\ sorted[at] \in PoiOf(input) /\ sorted[at].offset \in Nat
  BY <1>1, SortedFacts, PoiFields
<1>3. CASE Search!SkipInside
  <2>1. /\ sorted[at].offset < minOffset /\ at' = at + 1
        /\ UNCHANGED <<minOffset, structures>>
    BY <1>3 DEF Search!SkipInside, Search!Poi
  <2>2. PICK l \in DOMAIN structures : minOffset = Search!EndOf(structures[l])
    BY <1>1, <1>2, <2>1 DEF SearchInv
  <2>3. PICK i \in 1..at - 1 : sorted[i].offset = structures[l].offset
    BY DEF SearchInv
  <2>4. sorted[i].offset < sorted[at].offset
    <3>1. i \in DOMAIN sorted /\ i < at
      BY <1>1, SortedFacts
    <3> QED BY <1>2, <3>1, SortedFacts DEF Ascending
  <2>5. sorted[at].offset >= structures[l].offset
    <3>1. i \in DOMAIN sorted /\ sorted[i].offset \in Nat
      BY <1>1, SortedFacts, PoiFields
    <3> QED BY <1>2, <2>3, <2>4, <3>1
  <2>6. Covered(sorted[at])
    BY <2>1, <2>2, <2>5 DEF Covered
  <2> QED BY <1>1, <2>1, <2>6, PassedKeepsSearch
<1>4. CASE Search!Rejected
  <2>1. /\ ~(Search!Repetitions(sorted[at], Search!BestMembers(sorted[at])) > StructMin)
        /\ at' = at + 1 /\ UNCHANGED <<minOffset, structures>>
    <3>1. Search!Repetitions(sorted[at], Search!BestMembers(sorted[at])) \in Nat
      <4>1. Search!BestMembers(sorted[at]) \in Nat \ {0}
        BY <1>2, BestIsBest, FinderAssumption
      <4>2. Repeats(sorted[at], Search!BestMembers(sorted[at]),
                    Search!Repetitions(sorted[at], Search!BestMembers(sorted[at])))
        BY <1>2, <4>1, RepetitionsCount
      <4> QED BY <4>2 DEF Repeats
    <3>2. StructMin \in Nat
      BY FinderAssumption
    <3>3. Search!Repetitions(sorted[at], Search!BestMembers(sorted[at])) <= StructMin
      BY <1>4 DEF Search!Rejected, Search!Poi
    <3>4. at' = at + 1 /\ UNCHANGED <<minOffset, structures>>
      BY <1>4 DEF Search!Rejected
    <3> DEFINE r == Search!Repetitions(sorted[at], Search!BestMembers(sorted[at]))
    <3> HIDE DEF r
    <3>5. ~(r > StructMin)
      BY <3>1, <3>2, <3>3 DEF r
    <3> QED BY <3>4, <3>5 DEF r
  <2>2. Covered(sorted[at])
    <3> SUFFICES ASSUME NEW m \in 2..MaxMembers,
                        Search!Repetitions(sorted[at], m) > StructMin
                 PROVE  FALSE
      BY DEF Covered
    <3> DEFINE r == Search!Repetitions(sorted[at], Search!BestMembers(sorted[at]))
               q == Search!Repetitions(sorted[at], m)
    <3>1. r >= q /\ r \in Nat /\ q \in Nat /\ StructMin \in Nat
      <4>1. Search!BestMembers(sorted[at]) \in 2..MaxMembers /\ r >= q
        BY <1>2, BestIsBest
      <4>2. Search!BestMembers(sorted[at]) \in Nat \ {0} /\ m \in Nat \ {0}
        BY <4>1, FinderAssumption
      <4>3. Repeats(sorted[at], m, q)
            /\ Repeats(sorted[at], Search!BestMembers(sorted[at]), r)
        BY <1>2, <4>2, RepetitionsCount
      <4>4. r \in Nat /\ q \in Nat
        BY <4>3 DEF Repeats
      <4> QED BY <4>1, <4>4, FinderAssumption
    <3>2. q > StructMin /\ ~(r > StructMin)
      BY <2>1
    <3> HIDE DEF r, q
    <3> QED BY <3>1, <3>2
  <2> QED BY <1>1, <2>1, <2>2, PassedKeepsSearch
<1>5. CASE Search!Found
  <2>1. /\ sorted[at].offset >= minOffset /\ at' = at + 1
        /\ structures' = Append(structures, Search!Structure(sorted[at]))
        /\ minOffset' = Search!EndOf(Search!Structure(sorted[at]))
    BY <1>5 DEF Search!Found, Search!Poi
  <2> QED BY <1>1, <2>1, FoundKeepsSearch
<1> QED BY <1>3, <1>4, <1>5 DEF Search!Next

LEMMA SearchUnchanged ==
  ASSUME SearchInv, UNCHANGED <<input, sorted, search>>
  PROVE  SearchInv'
<1>1. UNCHANGED <<input, sorted, at, minOffset, structures>>
  BY DEF search
<1>2. \A s : SoundArray(s)' <=> SoundArray(s)
  BY <1>1, SearchReads
<1>3. PassedCovered'
  <2>1. \A p : Covered(p)' <=> Covered(p)
    BY <1>1, SearchReads DEF Covered
  <2> QED BY <1>1, <2>1 DEF SearchInv, PassedCovered
<1>4. \A l \in DOMAIN structures' : \A s : s = structures'[l] => SoundArray(s)'
  BY <1>1, <1>2 DEF SearchInv
<1> QED BY <1>1, <1>3, <1>4 DEF SearchInv, Search!StructuresDisjoint, Search!EndOf

LEMMA NextSearchInv ==
  ASSUME ImageInv, ListingInv, SearchInv, [Next]_vars, ListingInv'
  PROVE  SearchInv'
<1>1. ImageFacts /\ input' = input
  BY ImageIsSound, InputKept
<1>2. CASE IndexStructureArrays
  <2>1. UNCHANGED sorted /\ Search!Next
    BY <1>2 DEF IndexStructureArrays, listing
  <2> QED BY <1>1, <2>1, SearchStepKeepsSearch
<1>3. CASE IndexPointers
  <2>1. UNCHANGED search
    BY <1>3 DEF IndexPointers
  <2>2. pc # "done"
    <3>1. Listing!IndexPointers \/ Listing!RetypeStringPointers => pc # "done"
      BY Zenon DEF Listing!IndexPointers, Listing!RetypeStringPointers
    <3>2. Listing!RetypeRegionPointers \/ Listing!ArraysDone => pc # "done"
      BY Zenon DEF Listing!RetypeRegionPointers, Listing!ArraysDone
    <3>3. Listing!OpenRun \/ Listing!ExtendRun \/ Listing!BreakRun => pc # "done"
      BY DEF Listing!OpenRun, Listing!ExtendRun, Listing!BreakRun, Listing!AtPointer
    <3>4. Listing!Merge \/ Listing!MergeDone => pc # "done"
      BY DEF Listing!Merge, Listing!MergeDone
    <3> QED BY <1>3, <3>1, <3>2, <3>3, <3>4 DEF IndexPointers, Listing!Next
  <2>3. at = 1 /\ minOffset = 0 /\ structures = <<>>
    BY <2>2 DEF ListingInv, PhaseInv, Search!Init
  <2>4. at' = 1 /\ minOffset' = 0 /\ structures' = <<>>
    BY <2>1, <2>3 DEF search
  <2>5. at' \in 1..Len(sorted') + 1
    <3>1. Len(sorted') \in Nat
      <4>1. CASE pc' \in {"merging", "done"}
        <5>1. sorted' \in Seq(PoiOf(input)')
          BY <4>1 DEF ListingInv, MergeInv
        <5> QED BY <5>1
      <4>2. CASE pc' \notin {"merging", "done"}
        <5>1. sorted' = <<>>
          BY <4>2 DEF ListingInv, MergeInv
        <5> QED BY <5>1, EmptySeq
      <4> QED BY <4>1, <4>2
    <3> QED BY <2>4, <3>1
  <2>6. structures' \in Seq(StructureArray) /\ DOMAIN structures' = {}
    BY <2>4, EmptySeq
  <2> QED BY <2>4, <2>5, <2>6 DEF SearchInv, Search!StructuresDisjoint, PassedCovered
<1>4. CASE IdentifyUds \/ IndexStrings \/ Terminated \/ UNCHANGED vars
  <2>1. UNCHANGED <<sorted, search>>
    BY <1>4 DEF IdentifyUds, IndexStrings, Terminated, vars, listing
  <2> QED BY <1>1, <2>1, SearchUnchanged
<1> QED BY <1>2, <1>3, <1>4 DEF Next

LEMMA SearchKept == Spec => [](ImageInv /\ ListingInv /\ SearchInv)
<1>1. Init => ImageInv /\ ListingInv /\ SearchInv
  BY InitImageInv, InitListingInv, InitSearchInv DEF Init
<1>2. ImageInv /\ ListingInv /\ SearchInv /\ [Next]_vars
        => (ImageInv /\ ListingInv /\ SearchInv)'
  BY NextListingInv, NextSearchInv
<1> QED BY <1>1, <1>2, PTL DEF Spec

LEMMA PartImpliesSearchTypes ==
  ASSUME ImageFacts, ListingInv, SearchInv
  PROVE  Search!TypeOK
<1>1. /\ at \in 1..Len(sorted) + 1 /\ minOffset \in Nat
      /\ structures \in Seq(StructureArray)
      /\ \A l \in DOMAIN structures : SoundArray(structures[l])
  BY DEF SearchInv
<1>2. minOffset <= Search!ScanLimit + MaxMembers * input.psize
  <2>1. CASE minOffset = 0
    <3>1. 1 * input.psize <= MaxMembers * input.psize /\ MaxMembers * input.psize \in Nat
      <4>1. MaxMembers \in Nat /\ 1 <= MaxMembers /\ 1 \in Nat /\ input.psize \in Nat
        BY FinderAssumption DEF ImageFacts
      <4>2. 1 * input.psize <= MaxMembers * input.psize
        BY <4>1, StrideBound
      <4>3. MaxMembers * input.psize \in Nat
        BY <4>1
      <4> QED BY <4>2, <4>3
    <3> DEFINE W == MaxMembers * input.psize
    <3>2. W \in Nat /\ input.psize <= W /\ input.length \in Nat /\ input.psize \in Nat
      BY <3>1 DEF ImageFacts
    <3> HIDE DEF W
    <3>3. 0 <= input.length - input.psize + W
      BY <3>2
    <3> QED BY <2>1, <3>3 DEF Search!ScanLimit, W
  <2>2. CASE minOffset # 0
    <3>1. PICK l \in DOMAIN structures : minOffset = Search!EndOf(structures[l])
      BY <2>2 DEF SearchInv
    <3> QED BY <1>1, <3>1 DEF SoundArray
  <2> QED BY <2>1, <2>2
<1>3. minOffset \in 0..Search!ScanLimit + MaxMembers * input.psize
  <2> DEFINE W == Search!ScanLimit + MaxMembers * input.psize
  <2>1. W \in Int
    <3>1. MaxMembers \in Nat /\ input.psize \in Nat /\ input.length \in Nat
      BY FinderAssumption DEF ImageFacts
    <3> QED BY <3>1 DEF Search!ScanLimit
  <2> HIDE DEF W
  <2>2. minOffset <= W
    BY <1>2 DEF W
  <2>3. minOffset \in 0..W
    BY <1>1, <2>1, <2>2
  <2> QED BY <2>3 DEF W
<1>4. \A l \in DOMAIN structures :
        /\ structures[l].members \in 2..MaxMembers
        /\ structures[l].signature \in [1..structures[l].members -> Search!MemberTypes]
  BY <1>1 DEF SoundArray, StructureArray
<1> QED BY <1>1, <1>3, <1>4 DEF Search!TypeOK

LEMMA CoveredIsNotMissed ==
  ASSUME ImageFacts, ListingInv, SearchInv
  PROVE  Search!NothingMissed
<1> DEFINE poi == sorted[at - 1]
           inside(s) ==
             poi.offset \in s.offset .. s.offset + s.count * s.members * input.psize - 1
<1>1. ASSUME at > 1, \E m \in 2..MaxMembers : Search!Repetitions(poi, m) > StructMin
      PROVE  \E l \in DOMAIN structures : inside(structures[l])
  <2>1. PICK l \in DOMAIN structures :
          poi.offset >= structures[l].offset /\ poi.offset < Search!EndOf(structures[l])
    BY <1>1 DEF SearchInv, PassedCovered, Covered
  <2>2. structures[l] \in StructureArray
    BY DEF SearchInv
  <2>3. structures[l].offset \in Nat /\ Search!EndOf(structures[l]) \in Nat
    BY <2>2, EndIsNumber DEF StructureArray
  <2>4. poi.offset \in Nat
    <3>1. at - 1 \in DOMAIN sorted
      BY <1>1, SortedFacts DEF SearchInv
    <3> QED BY <3>1, SortedFacts, PoiFields
  <2> HIDE DEF poi
  <2>5. poi.offset \in structures[l].offset .. Search!EndOf(structures[l]) - 1
    BY <2>1, <2>3, <2>4
  <2>6. inside(structures[l])
    <3> DEFINE e == structures[l].count * structures[l].members * input.psize
    <3>1. Search!EndOf(structures[l]) = structures[l].offset + e
      BY DEF Search!EndOf
    <3>2. e \in Nat
      <4>1. structures[l].count \in Nat /\ structures[l].members \in Nat
        BY <2>2, FinderAssumption DEF StructureArray
      <4> QED BY <4>1, Products DEF ImageFacts
    <3> HIDE DEF e
    <3>3. structures[l].offset + e - 1 = Search!EndOf(structures[l]) - 1
      BY <2>3, <3>1, <3>2
    <3>4. poi.offset \in structures[l].offset .. structures[l].offset + e - 1
      BY <2>5, <3>3
    <3> QED BY <3>4 DEF e
  <2> HIDE DEF inside
  <2> QED BY <2>6
<1>2. ASSUME at > 1, \E m \in 2..MaxMembers : Search!Repetitions(poi, m) > StructMin
      PROVE  \E s \in {structures[l] : l \in DOMAIN structures} : inside(s)
  <2> HIDE DEF inside, poi
  <2> QED BY <1>1, <1>2
<1> QED BY <1>2, Zenon DEF Search!NothingMissed

\* index_structure_arrays (uds.rs:219-271): no two structure arrays share a byte,
\* so identify_uds can read each column of each array for itself.
THEOREM ArraysAreDisjoint == Spec => []StructuresDisjoint
<1>1. ImageInv /\ ListingInv /\ SearchInv => StructuresDisjoint
  BY ImageIsSound, PartImpliesSearchTypes DEF SearchInv, StructuresDisjoint
<1> QED BY <1>1, SearchKept, PTL

\* The min_offset skip loses nothing: a pointer passed that repeats often enough
\* at some stride lies inside an array that was found.
THEOREM SkipLosesNothing == Spec => []NothingMissed
<1>1. ImageInv /\ ListingInv /\ SearchInv => NothingMissed
  BY ImageIsSound, CoveredIsNotMissed DEF NothingMissed
<1> QED BY <1>1, SearchKept, PTL

-----------------------------------------------------------------------------
\* The identification of the table: its invariant.

\* A run of distinct request IDs with an invalid byte, or nothing, before it.
FencedRun(s, col, i, j) ==
  /\ Scan!DistinctRids(s, col, i, j)
  /\ i > 0 => Scan!ByteOf(s, col, i - 1) \notin Rids

\* The best run is as long as every one fenced among the first m bytes.
FencedUpTo(s, col, m) ==
  \A i \in 0..m - 2 : \A j \in i..m - 2 :
    FencedRun(s, col, i, j) /\ Scan!ByteOf(s, col, j + 1) \notin Rids
      => best.length >= j - i + 1

\* The column being read: what count and start say of its bytes so far, and
\* that a fenced run up to the byte read last is the open one.
ColumnPart(s, col) ==
  /\ k \in 0..s.count
  /\ col \in 0..Scan!Stride(s) /\ (col = Scan!Stride(s) => k = 0)
  /\ count > 0 =>
       start + count <= k /\ Scan!DistinctRids(s, col, start, start + count - 1)
  /\ inSeq =>
       /\ count > 0 /\ start + count = k
       /\ \A b : b \in seen <=> \E m \in start..k - 1 : b = Scan!ByteOf(s, col, m)
       /\ IsFiniteSet(seen) /\ Cardinality(seen) = count
  /\ \A i \in 0..k - 1 : FencedRun(s, col, i, k - 1) => inSeq /\ start = i
  /\ FencedUpTo(s, col, k)

\* A run of distinct request IDs in a column of a structure array.
RealRun(r) ==
  /\ r.st \in DOMAIN structures /\ r.length > 0
  /\ \A s : s = structures[r.st] =>
       /\ r.column \in 0..Scan!Stride(s) - 1
       /\ r.start + r.length <= s.count
       /\ Scan!DistinctRids(s, r.column, r.start, r.start + r.length - 1)

BestPart ==
  /\ best \in [column : Nat, length : Nat, start : Nat, st : Nat]
  /\ best # Scan!NoRun => \A r : r = best => RealRun(r)

ReadPart ==
  \A i \in DOMAIN structures : \A s : s = structures[i] =>
    \A col \in 0..Scan!Stride(s) - 1 :
      i < st \/ (i = st /\ col < column) => FencedUpTo(s, col, s.count)

\* The result is that of the best run.
ResultPart ==
  result # Scan!Pending =>
    /\ st > Len(structures)
    /\ \/ result = Scan!None
       \/ /\ best # Scan!NoRun
          /\ \E r : r = best /\
               \/ result = [location |-> Scan!Location(r) % AddrMod, ridCount |-> r.length]
               \/ result = Scan!Panicked /\ Scan!Location(r) >= AddrMod

ScanTypes ==
  /\ st \in 1..Len(structures) + 1
  /\ column \in Nat /\ k \in Nat /\ count \in 0..k /\ start \in 0..k /\ seen \subseteq Rids
  /\ inSeq \in BOOLEAN
  /\ st > Len(structures) => ~inSeq /\ column = 0

OpenColumn ==
  st \in DOMAIN structures =>
    \A s : s = structures[st] => \A col : col = column => ColumnPart(s, col)

ScanInv == ScanTypes /\ OpenColumn /\ BestPart /\ ReadPart /\ ResultPart

LEMMA ScanReads ==
  ASSUME UNCHANGED input
  PROVE  /\ \A s, col, j : Scan!ByteOf(s, col, j)' = Scan!ByteOf(s, col, j)
         /\ \A s : Scan!Stride(s)' = Scan!Stride(s)
         /\ \A s, col, i, j :
              Scan!DistinctRids(s, col, i, j)' <=> Scan!DistinctRids(s, col, i, j)
         /\ \A s, col, i, j : FencedRun(s, col, i, j)' <=> FencedRun(s, col, i, j)
<1>1. \A s : Scan!Stride(s)' = Scan!Stride(s)
  BY DEF Scan!Stride
<1>2. \A s, col, j : Scan!ByteOf(s, col, j)' = Scan!ByteOf(s, col, j)
  BY <1>1 DEF Scan!ByteOf
<1>3. \A s, col, i, j :
        Scan!DistinctRids(s, col, i, j)' <=> Scan!DistinctRids(s, col, i, j)
  BY <1>2 DEF Scan!DistinctRids
<1>4. \A s, col, i, j : FencedRun(s, col, i, j)' <=> FencedRun(s, col, i, j)
  BY <1>2, <1>3 DEF FencedRun
<1> QED BY <1>1, <1>2, <1>3, <1>4

LEMMA ArrayFacts ==
  ASSUME ImageFacts, SearchInv, NEW i \in DOMAIN structures, NEW s, s = structures[i]
  PROVE  /\ s \in StructureArray /\ SoundArray(s)
         /\ s.offset \in Nat /\ s.count \in Nat \ {0} /\ s.members \in Nat \ {0}
         /\ Scan!Stride(s) \in Nat \ {0}
<1>1. s \in StructureArray /\ SoundArray(s)
  BY DEF SearchInv, SoundArray
<1>2. s.offset \in Nat /\ s.count \in Nat \ {0} /\ s.members \in Nat \ {0}
  BY <1>1, FinderAssumption DEF StructureArray
<1>3. s.members * input.psize \in Nat \ {0}
  <2>1. input.psize \in Nat \ {0}
    BY DEF ImageFacts
  <2> QED BY <1>2, <2>1
<1> QED BY <1>1, <1>2, <1>3 DEF Scan!Stride

LEMMA DomainOfStructures ==
  ASSUME SearchInv
  PROVE  Len(structures) \in Nat /\ DOMAIN structures = 1..Len(structures)
<1>1. structures \in Seq(StructureArray)
  BY DEF SearchInv
<1> QED BY <1>1

\* The first byte of a column.
LEMMA ColumnStart ==
  ASSUME ImageFacts, NEW s, s.count \in Nat \ {0}, Scan!Stride(s) \in Nat \ {0},
         NEW col \in 0..Scan!Stride(s), k = 0, count = 0, inSeq = FALSE
  PROVE  ColumnPart(s, col)
<1>1. k \in 0..s.count
  OBVIOUS
<1>2. FencedUpTo(s, col, k)
  BY DEF FencedUpTo
<1>3. \A i \in 0..k - 1 : FencedRun(s, col, i, k - 1) => inSeq /\ start = i
  OBVIOUS
<1> QED BY <1>1, <1>2, <1>3 DEF ColumnPart

LEMMA ScanStarts ==
  ASSUME ImageFacts, SearchInv, Scan!Init
  PROVE  ScanInv
<1>1. /\ st = 1 /\ column = 0 /\ k = 0 /\ seen = {} /\ count = 0 /\ start = 0
      /\ best = Scan!NoRun /\ result = Scan!Pending
  BY DEF Scan!Init
<1>2. inSeq = FALSE
  BY DEF Scan!Init
<1>3. Len(structures) \in Nat /\ DOMAIN structures = 1..Len(structures)
  BY DomainOfStructures
<1>4. ASSUME st \in DOMAIN structures, NEW s, s = structures[st], NEW col, col = column
      PROVE  ColumnPart(s, col)
  <2>1. s.count \in Nat \ {0} /\ Scan!Stride(s) \in Nat \ {0}
    BY <1>4, ArrayFacts
  <2>2. col \in 0..Scan!Stride(s)
    BY <1>1, <1>4, <2>1
  <2> QED BY <1>1, <1>2, <2>1, <2>2, ColumnStart
<1>5. BestPart
  BY <1>1 DEF BestPart, Scan!NoRun
<1>6. ReadPart
  BY <1>1, <1>3 DEF ReadPart
<1>7. ResultPart
  BY <1>1 DEF ResultPart
<1>8. st \in 1..Len(structures) + 1
  BY <1>1, <1>3
<1>9. ScanTypes
  <2>1. inSeq \in BOOLEAN /\ ~inSeq
    BY <1>2
  <2> QED BY <1>1, <1>8, <2>1 DEF ScanTypes
<1>10. OpenColumn
  BY <1>4 DEF OpenColumn
<1> QED BY <1>5, <1>6, <1>7, <1>9, <1>10 DEF ScanInv

\* Reading one byte.

LEMMA ShorterRun ==
  ASSUME NEW s, NEW col, NEW i \in Nat, NEW j \in Nat, NEW l \in i..j
  PROVE  /\ Scan!DistinctRids(s, col, i, j) => Scan!DistinctRids(s, col, i, l)
         /\ Scan!DistinctRids(s, col, i, j) => Scan!ByteOf(s, col, j) \in Rids
         /\ FencedRun(s, col, i, j) => FencedRun(s, col, i, l)
<1>1. i..l \subseteq i..j /\ j \in i..j
  OBVIOUS
<1>2. Scan!DistinctRids(s, col, i, j) => Scan!DistinctRids(s, col, i, l)
  BY <1>1 DEF Scan!DistinctRids
<1> QED BY <1>1, <1>2 DEF FencedRun, Scan!DistinctRids

LEMMA FencedGrows ==
  ASSUME UNCHANGED input, NEW s, NEW col, k \in Nat, k' = k + 1,
         FencedUpTo(s, col, k),
         best.length \in Nat, best'.length \in Nat, best'.length >= best.length,
         \A i \in 0..k - 1 :
           FencedRun(s, col, i, k - 1) /\ Scan!ByteOf(s, col, k) \notin Rids
             => best'.length >= k - i
  PROVE  FencedUpTo(s, col, k)'
<1> SUFFICES ASSUME NEW i \in 0..k - 1, NEW j \in i..k - 1,
                    FencedRun(s, col, i, j), Scan!ByteOf(s, col, j + 1) \notin Rids
             PROVE  best'.length >= j - i + 1
  <2>1. k' - 2 = k - 1
    OBVIOUS
  <2> QED BY <2>1, ScanReads DEF FencedUpTo
<1>1. CASE j = k - 1
  BY <1>1
<1>2. CASE j # k - 1
  <2>1. i \in 0..k - 2 /\ j \in i..k - 2
    BY <1>2
  <2>2. best.length >= j - i + 1
    BY <2>1 DEF FencedUpTo
  <2> QED BY <2>1, <2>2
<1> QED BY <1>1, <1>2

LEMMA OpenRunInColumn ==
  ASSUME UNCHANGED input, NEW s, NEW col, ColumnPart(s, col), s.count \in Nat,
         Scan!Stride(s) \in Nat \ {0}, BestPart,
         col < Scan!Stride(s), k < s.count,
         Scan!ByteOf(s, col, k) \in Rids, ~inSeq,
         seen' = {Scan!ByteOf(s, col, k)}, count' = 1, start' = k, inSeq' = TRUE,
         k' = k + 1, UNCHANGED best
  PROVE  ColumnPart(s, col)'
<1>1. k \in Nat /\ k' \in 0..s.count /\ k' # 0 /\ best.length \in Nat
  BY DEF ColumnPart, BestPart
<1>2. col \in 0..Scan!Stride(s) /\ col # Scan!Stride(s)
  BY DEF ColumnPart
<1>3. Scan!DistinctRids(s, col, k, k)
  BY <1>1 DEF Scan!DistinctRids
<1>4. start' + count' = k' /\ start' + count' - 1 = k /\ k' - 1 = k
  BY <1>1
<1>5. /\ \A b : b \in seen' <=> \E m \in start'..k' - 1 : b = Scan!ByteOf(s, col, m)
      /\ IsFiniteSet(seen') /\ Cardinality(seen') = count'
  <2>1. start'..k' - 1 = {k}
    BY <1>1
  <2>2. IsFiniteSet(seen') /\ Cardinality(seen') = 1
    BY FS_Singleton
  <2> QED BY <2>1, <2>2
<1>6. ASSUME NEW i \in 0..k, FencedRun(s, col, i, k) PROVE start' = i
  <2>1. CASE i \in 0..k - 1
    <3>1. k - 1 \in i..k
      BY <1>1, <2>1
    <3>2. FencedRun(s, col, i, k - 1)
      BY <1>1, <1>6, <3>1, ShorterRun
    <3> QED BY <2>1, <3>2 DEF ColumnPart
  <2> QED BY <1>1, <2>1
<1>7. FencedUpTo(s, col, k)'
  BY <1>1, FencedGrows DEF ColumnPart
<1>8. Scan!DistinctRids(s, col, start, start + count - 1)'
  BY <1>3, <1>4, ScanReads DEF Scan!DistinctRids
<1>9. \A i \in 0..k' - 1 : FencedRun(s, col, i, k - 1)' => inSeq' /\ start' = i
  BY <1>4, <1>6, ScanReads DEF FencedRun, Scan!DistinctRids
<1>10. \A b : b \in seen' <=> \E m \in start'..k' - 1 : b = Scan!ByteOf(s, col, m)'
  BY <1>5, ScanReads
<1>11. col \in 0..Scan!Stride(s)' /\ (col = Scan!Stride(s)' => k' = 0)
  BY <1>2, ScanReads
<1> QED BY <1>1, <1>4, <1>5, <1>7, <1>8, <1>9, <1>10, <1>11 DEF ColumnPart

\* Byte k - 1 belongs to the run that is open.
LEMMA OpenRunEndsHere ==
  ASSUME NEW s, NEW col, ColumnPart(s, col), inSeq, start \in Nat, k \in Nat, count \in Nat
  PROVE  /\ k > 0 /\ start < k /\ start + count - 1 = k - 1
         /\ Scan!DistinctRids(s, col, start, k - 1)
         /\ Scan!ByteOf(s, col, k - 1) \in Rids
<1>1. k > 0 /\ start < k /\ start + count - 1 = k - 1
  BY DEF ColumnPart
<1>2. Scan!DistinctRids(s, col, start, start + count - 1)
  BY <1>1 DEF ColumnPart
<1>3. k - 1 \in start..k - 1
  BY <1>1
<1> QED BY <1>1, <1>2, <1>3 DEF Scan!DistinctRids

LEMMA GrowRunInColumn ==
  ASSUME UNCHANGED input, NEW s, NEW col, ColumnPart(s, col), s.count \in Nat,
         Scan!Stride(s) \in Nat \ {0}, BestPart, start \in Nat, count \in Nat,
         col < Scan!Stride(s), k < s.count,
         Scan!ByteOf(s, col, k) \in Rids, inSeq, Scan!ByteOf(s, col, k) \notin seen,
         seen' = seen \cup {Scan!ByteOf(s, col, k)}, count' = count + 1,
         k' = k + 1, UNCHANGED <<start, inSeq, best>>
  PROVE  ColumnPart(s, col)'
<1>1. k \in Nat /\ k' \in 0..s.count /\ k' # 0 /\ best.length \in Nat
  BY DEF ColumnPart, BestPart
<1>2. col \in 0..Scan!Stride(s) /\ col # Scan!Stride(s)
  BY DEF ColumnPart
<1>3. /\ k > 0 /\ start < k /\ start + count - 1 = k - 1
      /\ Scan!DistinctRids(s, col, start, k - 1)
      /\ Scan!ByteOf(s, col, k - 1) \in Rids
  BY <1>1, OpenRunEndsHere
<1>4. start' + count' = k' /\ start' + count' - 1 = k /\ k' - 1 = k /\ start' = start
      /\ count' > 0
  BY <1>1, <1>3
<1>5. \A b : b \in seen <=> \E m \in start..k - 1 : b = Scan!ByteOf(s, col, m)
  BY DEF ColumnPart
<1>6. \A m \in start..k : m = k \/ m \in start..k - 1
  BY <1>1
<1>7. \A m \in start..k - 1 : m \in start..k
  BY <1>1
<1>8. Scan!DistinctRids(s, col, start, k)
  <2>1. \A m \in start..k - 1 : Scan!ByteOf(s, col, m) # Scan!ByteOf(s, col, k)
    BY <1>5
  <2> QED BY <1>3, <1>6, <2>1 DEF Scan!DistinctRids
<1>9. \A b : b \in seen' <=> \E m \in start..k : b = Scan!ByteOf(s, col, m)
  <2>1. k \in start..k
    BY <1>1, <1>3
  <2> QED BY <1>5, <1>6, <1>7, <2>1
<1>10. IsFiniteSet(seen') /\ Cardinality(seen') = count'
  BY FS_AddElement DEF ColumnPart
<1>11. ASSUME NEW i \in 0..k, FencedRun(s, col, i, k) PROVE start' = i
  <2>1. CASE i \in 0..k - 1
    <3>1. k - 1 \in i..k
      BY <1>1, <2>1
    <3>2. FencedRun(s, col, i, k - 1)
      BY <1>1, <1>11, <3>1, ShorterRun
    <3> QED BY <2>1, <3>2 DEF ColumnPart
  <2>2. CASE i = k
    BY <1>3, <1>11, <2>2 DEF FencedRun
  <2> QED BY <1>1, <2>1, <2>2
<1>12. FencedUpTo(s, col, k)'
  BY <1>1, FencedGrows DEF ColumnPart
<1>13. Scan!DistinctRids(s, col, start, start + count - 1)'
  BY <1>4, <1>8, ScanReads DEF Scan!DistinctRids
<1>14. \A i \in 0..k' - 1 : FencedRun(s, col, i, k - 1)' => inSeq' /\ start' = i
  BY <1>4, <1>11, ScanReads DEF FencedRun, Scan!DistinctRids
<1>15. \A b : b \in seen' <=> \E m \in start'..k' - 1 : b = Scan!ByteOf(s, col, m)'
  BY <1>4, <1>9, ScanReads
<1>16. col \in 0..Scan!Stride(s)' /\ (col = Scan!Stride(s)' => k' = 0)
  BY <1>2, ScanReads
<1> QED BY <1>1, <1>4, <1>10, <1>12, <1>13, <1>14, <1>15, <1>16 DEF ColumnPart

LEMMA EndRunInColumn ==
  ASSUME UNCHANGED input, NEW s, NEW col, ColumnPart(s, col), s.count \in Nat,
         Scan!Stride(s) \in Nat \ {0}, BestPart, start \in Nat, count \in Nat,
         col < Scan!Stride(s), k < s.count,
         Scan!ByteOf(s, col, k) \in Rids => inSeq /\ Scan!ByteOf(s, col, k) \in seen,
         ~inSeq', best'.length \in Nat,
         best'.length >= count, best'.length >= best.length,
         k' = k + 1, UNCHANGED <<seen, count, start>>
  PROVE  ColumnPart(s, col)'
<1>1. k \in Nat /\ k' \in 0..s.count /\ k' # 0 /\ best.length \in Nat
  BY DEF ColumnPart, BestPart
<1>2. col \in 0..Scan!Stride(s) /\ col # Scan!Stride(s)
  BY DEF ColumnPart
<1>3. count > 0 => start + count <= k'
                   /\ Scan!DistinctRids(s, col, start, start + count - 1)
  BY <1>1 DEF ColumnPart
<1>4. ASSUME NEW i \in 0..k, FencedRun(s, col, i, k) PROVE FALSE
  <2>1. Scan!ByteOf(s, col, k) \in Rids
    <3>1. k \in i..k
      BY <1>1
    <3> QED BY <1>1, <1>4, <3>1, ShorterRun DEF FencedRun
  <2>2. inSeq /\ Scan!ByteOf(s, col, k) \in seen
    BY <2>1
  <2>3. /\ k > 0 /\ start < k /\ Scan!ByteOf(s, col, k - 1) \in Rids
    BY <1>1, <2>2, OpenRunEndsHere
  <2>4. CASE i \in 0..k - 1
    <3>1. k - 1 \in i..k
      BY <1>1, <2>4
    <3>2. start = i
      BY <1>1, <1>4, <2>4, <3>1, ShorterRun DEF ColumnPart
    <3>3. PICK m \in start..k - 1 : Scan!ByteOf(s, col, k) = Scan!ByteOf(s, col, m)
      BY <2>2 DEF ColumnPart
    <3>4. m \in i..k /\ k \in i..k /\ m # k
      BY <1>1, <3>2
    <3> QED BY <1>4, <3>3, <3>4 DEF FencedRun, Scan!DistinctRids
  <2>5. CASE i = k
    BY <1>4, <2>3, <2>5 DEF FencedRun
  <2> QED BY <1>1, <2>4, <2>5
<1>5. FencedUpTo(s, col, k)'
  <2>1. ASSUME NEW i \in 0..k - 1, FencedRun(s, col, i, k - 1),
               Scan!ByteOf(s, col, k) \notin Rids
        PROVE  best'.length >= k - i
    <3>1. inSeq /\ start = i
      BY <2>1 DEF ColumnPart
    <3>2. count = k - i
      BY <1>1, <3>1 DEF ColumnPart
    <3> QED BY <3>2
  <2> QED BY <1>1, <2>1, FencedGrows DEF ColumnPart
<1>6. count' > 0 => start' + count' <= k'
                    /\ Scan!DistinctRids(s, col, start, start + count - 1)'
  BY <1>3, ScanReads DEF Scan!DistinctRids
<1>7. \A i \in 0..k' - 1 : FencedRun(s, col, i, k - 1)' => FALSE
  <2> SUFFICES ASSUME NEW i \in 0..k' - 1, FencedRun(s, col, i, k - 1)'
               PROVE  FALSE
    OBVIOUS
  <2>1. i \in 0..k /\ k' - 1 = k
    BY <1>1
  <2>2. ASSUME NEW j, j = k PROVE FencedRun(s, col, i, j)'
    BY <2>1, <2>2 DEF FencedRun, Scan!DistinctRids
  <2>3. FencedRun(s, col, i, k)
    BY <2>2, ScanReads
  <2> QED BY <1>4, <2>1, <2>3
<1>8. col \in 0..Scan!Stride(s)' /\ (col = Scan!Stride(s)' => k' = 0)
  BY <1>2, ScanReads
<1> QED BY <1>1, <1>5, <1>6, <1>7, <1>8 DEF ColumnPart

LEMMA FencedStays ==
  ASSUME UNCHANGED input, best.length \in Nat, best'.length \in Nat,
         best'.length >= best.length,
         NEW s, NEW col, NEW m \in Nat, FencedUpTo(s, col, m)
  PROVE  FencedUpTo(s, col, m)'
<1> SUFFICES ASSUME NEW i \in 0..m - 2, NEW j \in i..m - 2,
                    FencedRun(s, col, i, j), Scan!ByteOf(s, col, j + 1) \notin Rids
             PROVE  best'.length >= j - i + 1
  BY ScanReads DEF FencedUpTo
<1>1. best.length >= j - i + 1
  BY DEF FencedUpTo
<1> QED BY <1>1

LEMMA ReadStays ==
  ASSUME ImageFacts, SearchInv, ScanInv, UNCHANGED <<input, st, column, structures>>,
         best'.length \in Nat, best'.length >= best.length
  PROVE  ReadPart'
<1> SUFFICES ASSUME NEW i \in DOMAIN structures, NEW s, s = structures[i],
                    NEW col \in 0..Scan!Stride(s) - 1, i < st \/ (i = st /\ col < column)
             PROVE  FencedUpTo(s, col, s.count)'
  BY ScanReads DEF ReadPart
<1>1. FencedUpTo(s, col, s.count)
  BY DEF ScanInv, ReadPart
<1>2. s.count \in Nat
  BY ArrayFacts
<1>3. best.length \in Nat
  BY DEF ScanInv, BestPart
<1>4. ASSUME NEW m, m = s.count PROVE FencedUpTo(s, col, m)'
  BY <1>1, <1>2, <1>3, <1>4, FencedStays
<1> QED BY <1>4

LEMMA BestStays ==
  ASSUME BestPart, UNCHANGED <<input, structures, best>>
  PROVE  BestPart'
<1>1. \A r : RealRun(r)' <=> RealRun(r)
  BY ScanReads DEF RealRun
<1> QED BY <1>1 DEF BestPart

LEMMA ConsiderKeepsBest ==
  ASSUME ImageFacts, SearchInv, ScanInv, UNCHANGED <<input, structures>>,
         st \in DOMAIN structures, column < Scan!Stride(structures[st]),
         k < structures[st].count, best' = Scan!Consider
  PROVE  /\ BestPart'
         /\ best'.length \in Nat /\ best'.length >= best.length /\ best'.length >= count
<1>1. best \in [column : Nat, length : Nat, start : Nat, st : Nat] /\ best.length \in Nat
  BY DEF ScanInv, BestPart
<1>2. count \in Nat /\ start \in Nat /\ column \in Nat /\ k \in Nat /\ st \in Nat
  BY DEF ScanInv, ScanTypes
<1>3. CASE ~Scan!Better
  <2>1. best' = best /\ ~(count > best.length)
    BY <1>3 DEF Scan!Consider, Scan!Better
  <2> QED BY <1>1, <1>2, <2>1, BestStays DEF ScanInv
<1>4. CASE Scan!Better
  <2> PICK r : r = [column |-> column, length |-> count, start |-> start, st |-> st]
    OBVIOUS
  <2>1. best' = r /\ count > best.length
    BY <1>4 DEF Scan!Consider, Scan!Better
  <2>2. /\ r.column = column /\ r.length = count /\ r.start = start /\ r.st = st
        /\ r \in [column : Nat, length : Nat, start : Nat, st : Nat]
    BY <1>2
  <2>3. count > 0
    BY <1>1, <1>2, <2>1
  <2>4. PICK s : s = structures[st]
    OBVIOUS
  <2>5. ColumnPart(s, column)
    BY <2>4 DEF ScanInv, OpenColumn
  <2>6. start + count <= k /\ Scan!DistinctRids(s, column, start, start + count - 1)
    BY <2>3, <2>5 DEF ColumnPart
  <2>7. s.count \in Nat /\ Scan!Stride(s) \in Nat \ {0}
    BY <2>4, ArrayFacts
  <2>8. column \in 0..Scan!Stride(s) - 1 /\ start + count <= s.count
    BY <1>2, <2>4, <2>6, <2>7
  <2>9. RealRun(r)
    BY <2>2, <2>3, <2>4, <2>6, <2>8 DEF RealRun
  <2>10. RealRun(r)'
    BY <2>9, ScanReads DEF RealRun
  <2>11. BestPart'
    BY <2>1, <2>2, <2>10 DEF BestPart
  <2> QED BY <1>1, <1>2, <2>1, <2>2, <2>11
<1> QED BY <1>3, <1>4

LEMMA ByteKeepsScan ==
  ASSUME ImageFacts, SearchInv, ScanInv, UNCHANGED <<input, structures>>,
         Scan!OpenRun \/ Scan!GrowRun \/ Scan!EndRun
  PROVE  ScanInv'
<1>1. /\ st \in 1..Len(structures) + 1 /\ column \in Nat /\ k \in Nat
      /\ count \in 0..k /\ start \in 0..k /\ seen \subseteq Rids
  BY DEF ScanInv, ScanTypes
<1>2. st <= Len(structures) /\ column < Scan!Stride(structures[st])
      /\ k < structures[st].count
  BY DEF Scan!OpenRun, Scan!GrowRun, Scan!EndRun, Scan!InColumn
<1>3. k' = k + 1 /\ UNCHANGED <<st, column, result>>
  BY DEF Scan!OpenRun, Scan!GrowRun, Scan!EndRun, Scan!NextByte
<1>4. st \in DOMAIN structures /\ Len(structures) \in Nat
  BY <1>1, <1>2, DomainOfStructures
<1>5. PICK s : s = structures[st]
  OBVIOUS
<1>6. PICK col : col = column
  OBVIOUS
<1>7. ColumnPart(s, col) /\ BestPart
  BY <1>4, <1>5, <1>6 DEF ScanInv, OpenColumn
<1>8. s.count \in Nat /\ Scan!Stride(s) \in Nat \ {0} /\ col < Scan!Stride(s) /\ k < s.count
  BY <1>2, <1>4, <1>5, <1>6, ArrayFacts
<1>9. best.length \in Nat
  BY <1>7 DEF BestPart
<1>10. result = Scan!Pending
  BY <1>1, <1>2, <1>4 DEF ScanInv, ResultPart
<1>11. ResultPart'
  BY <1>3, <1>10 DEF ResultPart, Scan!Pending
<1>12. /\ ColumnPart(s, col)' /\ BestPart'
       /\ best'.length \in Nat /\ best'.length >= best.length
       /\ count' \in 0..k' /\ start' \in 0..k' /\ seen' \subseteq Rids
  <2> USE DEF Scan!Byte
  <2>1. CASE Scan!OpenRun
    <3>1. /\ Scan!ByteOf(s, col, k) \in Rids /\ ~inSeq
          /\ seen' = {Scan!ByteOf(s, col, k)} /\ count' = 1 /\ start' = k /\ UNCHANGED best
      BY <1>5, <1>6, <2>1 DEF Scan!OpenRun
    <3>2. inSeq' = TRUE
      BY <2>1 DEF Scan!OpenRun
    <3>3. ColumnPart(s, col)'
      BY <1>3, <1>7, <1>8, <3>1, <3>2, OpenRunInColumn
    <3>4. BestPart'
      BY <1>7, <3>1, BestStays
    <3> QED BY <1>1, <1>3, <1>9, <3>1, <3>3, <3>4
  <2>2. CASE Scan!GrowRun
    <3>1. /\ Scan!ByteOf(s, col, k) \in Rids /\ inSeq /\ Scan!ByteOf(s, col, k) \notin seen
          /\ seen' = seen \cup {Scan!ByteOf(s, col, k)} /\ count' = count + 1
          /\ UNCHANGED <<start, best>>
      BY <1>5, <1>6, <2>2 DEF Scan!GrowRun
    <3>2. inSeq' = inSeq
      BY <2>2 DEF Scan!GrowRun
    <3>3. ColumnPart(s, col)'
      BY <1>1, <1>3, <1>7, <1>8, <3>1, <3>2, GrowRunInColumn
    <3>4. BestPart'
      BY <1>7, <3>1, BestStays
    <3> QED BY <1>1, <1>3, <1>9, <3>1, <3>3, <3>4
  <2>3. CASE Scan!EndRun
    <3>1. /\ Scan!ByteOf(s, col, k) \in Rids => inSeq /\ Scan!ByteOf(s, col, k) \in seen
          /\ best' = Scan!Consider /\ UNCHANGED <<seen, count, start>>
      BY <1>5, <1>6, <2>3 DEF Scan!EndRun
    <3>2. ~inSeq'
      BY <2>3 DEF Scan!EndRun
    <3>3. /\ BestPart'
          /\ best'.length \in Nat /\ best'.length >= best.length /\ best'.length >= count
      BY <1>2, <1>4, <3>1, ConsiderKeepsBest
    <3>4. ColumnPart(s, col)'
      BY <1>1, <1>3, <1>7, <1>8, <3>1, <3>2, <3>3, EndRunInColumn
    <3> QED BY <1>1, <1>3, <3>1, <3>3, <3>4
  <2> QED BY <2>1, <2>2, <2>3
<1>13. ReadPart'
  BY <1>3, <1>12, ReadStays
<1>14. inSeq' \in BOOLEAN
  <2>1. inSeq' = TRUE \/ inSeq' = inSeq \/ inSeq' = FALSE
    BY DEF Scan!OpenRun, Scan!GrowRun, Scan!EndRun
  <2>2. inSeq \in BOOLEAN
    BY DEF ScanInv, ScanTypes
  <2> QED BY <2>1, <2>2, Zenon
<1>15. ScanTypes'
  <2>1. ~(st' > Len(structures'))
    BY <1>1, <1>2, <1>3, <1>4
  <2>2. k' \in Nat /\ column' \in Nat /\ st' \in 1..Len(structures') + 1
    BY <1>1, <1>3
  <2> QED BY <1>12, <1>14, <2>1, <2>2 DEF ScanTypes
<1>16. OpenColumn'
  <2>1. s = structures'[st'] /\ col = column'
    BY <1>3, <1>5, <1>6
  <2> QED BY <1>12, <2>1 DEF OpenColumn
<1> QED BY <1>11, <1>12, <1>13, <1>15, <1>16 DEF ScanInv

\* The next column, the next structure array, the answer.

LEMMA NextColumnStart ==
  ASSUME NEW s, s.count \in Nat \ {0}, Scan!Stride(s)' \in Nat \ {0},
         NEW col \in 0..Scan!Stride(s)', k' = 0, count' = 0, ~inSeq'
  PROVE  ColumnPart(s, col)'
<1>1. k' \in 0..s.count
  OBVIOUS
<1>2. FencedUpTo(s, col, k)'
  BY DEF FencedUpTo
<1>3. \A i \in 0..k' - 1 : FALSE
  OBVIOUS
<1> QED BY <1>1, <1>2, <1>3 DEF ColumnPart

LEMMA ColumnKeepsScan ==
  ASSUME ImageFacts, SearchInv, ScanInv, UNCHANGED <<input, structures>>, Scan!NextColumn
  PROVE  ScanInv'
<1>1. /\ st \in 1..Len(structures) + 1 /\ column \in Nat
      /\ best.length \in Nat
  BY DEF ScanInv, ScanTypes, BestPart
<1>2. /\ st <= Len(structures) /\ column < Scan!Stride(structures[st])
      /\ k = structures[st].count
      /\ column' = column + 1 /\ k' = 0 /\ seen' = {} /\ count' = 0 /\ start' = 0
      /\ UNCHANGED <<st, best, result>>
  BY DEF Scan!NextColumn, Scan!NoOpenRun
<1>3. inSeq' = FALSE
  BY DEF Scan!NextColumn, Scan!NoOpenRun
<1>4. st \in DOMAIN structures /\ Len(structures) \in Nat
  BY <1>1, <1>2, DomainOfStructures
<1>5. PICK s : s = structures[st]
  OBVIOUS
<1>6. s.count \in Nat \ {0} /\ Scan!Stride(s) \in Nat \ {0}
  BY <1>4, <1>5, ArrayFacts
<1>7. ColumnPart(s, column)
  BY <1>4, <1>5 DEF ScanInv, OpenColumn
<1>8. OpenColumn'
  <2> SUFFICES ASSUME NEW col, col = column' PROVE ColumnPart(s, col)'
    BY <1>2, <1>5 DEF OpenColumn
  <2>1. Scan!Stride(s)' = Scan!Stride(s)
    BY ScanReads
  <2>2. col \in 0..Scan!Stride(s)'
    BY <1>1, <1>2, <1>5, <1>6, <2>1
  <2>3. ~inSeq'
    BY <1>3
  <2> QED BY <1>2, <1>6, <2>1, <2>2, <2>3, NextColumnStart
<1>9. ReadPart'
  <2> SUFFICES ASSUME NEW i \in DOMAIN structures, NEW t, t = structures[i],
                      NEW col \in 0..Scan!Stride(t) - 1, i < st \/ (i = st /\ col < column + 1)
               PROVE  FencedUpTo(t, col, t.count)'
    BY <1>2, ScanReads DEF ReadPart
  <2>1. FencedUpTo(t, col, t.count)
    <3>1. CASE i = st /\ col = column
      BY <1>2, <1>5, <1>7, <3>1 DEF ColumnPart
    <3>2. CASE ~(i = st /\ col = column)
      <4>1. i < st \/ (i = st /\ col < column)
        <5>1. Scan!Stride(t) \in Nat
          BY ArrayFacts
        <5> QED BY <1>1, <3>2, <5>1
      <4> QED BY <4>1 DEF ScanInv, ReadPart
    <3> QED BY <3>1, <3>2
  <2>2. t.count \in Nat
    BY ArrayFacts
  <2>3. ASSUME NEW m, m = t.count PROVE FencedUpTo(t, col, m)'
    BY <1>1, <1>2, <2>1, <2>2, <2>3, FencedStays
  <2> QED BY <2>3
<1>10. BestPart'
  BY <1>2, BestStays DEF ScanInv
<1>11. ResultPart'
  <2>1. result = Scan!Pending
    BY <1>1, <1>2, <1>4 DEF ScanInv, ResultPart
  <2> QED BY <1>2, <2>1 DEF ResultPart, Scan!Pending
<1>12. ScanTypes'
  <2>1. inSeq' \in BOOLEAN /\ ~inSeq'
    BY <1>3
  <2> QED BY <1>1, <1>2, <2>1 DEF ScanTypes
<1> QED BY <1>8, <1>9, <1>10, <1>11, <1>12 DEF ScanInv

LEMMA StructureKeepsScan ==
  ASSUME ImageFacts, SearchInv, ScanInv, UNCHANGED <<input, structures>>, Scan!NextStructure
  PROVE  ScanInv'
<1>1. /\ st \in 1..Len(structures) + 1 /\ column \in Nat /\ k \in Nat
      /\ count \in 0..k /\ start \in 0..k /\ seen \subseteq Rids
      /\ best.length \in Nat
  BY DEF ScanInv, ScanTypes, BestPart
<1>2. /\ st <= Len(structures) /\ column = Scan!Stride(structures[st])
      /\ st' = st + 1 /\ column' = 0
      /\ UNCHANGED <<k, seen, count, start, best, result>>
  BY DEF Scan!NextStructure
<1>3. inSeq' = inSeq
  BY DEF Scan!NextStructure
<1>4. st \in DOMAIN structures /\ Len(structures) \in Nat
      /\ DOMAIN structures = 1..Len(structures)
  BY <1>1, <1>2, DomainOfStructures
<1>5. PICK s : s = structures[st]
  OBVIOUS
<1>6. ColumnPart(s, column)
  BY <1>4, <1>5 DEF ScanInv, OpenColumn
<1>7. k = 0 /\ count = 0 /\ ~inSeq
  <2>1. k = 0
    BY <1>2, <1>5, <1>6 DEF ColumnPart
  <2>2. count = 0
    BY <1>1, <2>1
  <2> QED BY <1>6, <2>1, <2>2 DEF ColumnPart
<1>8. OpenColumn'
  <2> SUFFICES ASSUME st' \in DOMAIN structures, NEW t, t = structures[st']
               PROVE  ColumnPart(t, 0)'
    BY <1>2 DEF OpenColumn
  <2>1. t.count \in Nat \ {0} /\ Scan!Stride(t) \in Nat \ {0}
    BY ArrayFacts
  <2>2. Scan!Stride(t)' \in Nat \ {0} /\ 0 \in 0..Scan!Stride(t)'
    BY <2>1, ScanReads
  <2>3. ~inSeq'
    BY <1>3, <1>7
  <2> QED BY <1>2, <1>7, <2>1, <2>2, <2>3, NextColumnStart
<1>9. ReadPart'
  <2> SUFFICES ASSUME NEW i \in DOMAIN structures, NEW t, t = structures[i],
                      NEW col \in 0..Scan!Stride(t) - 1, i < st + 1 \/ (i = st + 1 /\ col < 0)
               PROVE  FencedUpTo(t, col, t.count)'
    BY <1>2, ScanReads DEF ReadPart
  <2>1. Scan!Stride(t) \in Nat \ {0} /\ t.count \in Nat
    BY ArrayFacts
  <2>2. i < st \/ (i = st /\ col < column)
    BY <1>1, <1>2, <1>4, <2>1
  <2>3. FencedUpTo(t, col, t.count)
    BY <2>2 DEF ScanInv, ReadPart
  <2>4. ASSUME NEW m, m = t.count PROVE FencedUpTo(t, col, m)'
    BY <1>1, <1>2, <2>1, <2>3, <2>4, FencedStays
  <2> QED BY <2>4
<1>10. BestPart'
  BY <1>2, BestStays DEF ScanInv
<1>11. ResultPart'
  <2>1. result = Scan!Pending
    BY <1>1, <1>2, <1>4 DEF ScanInv, ResultPart
  <2> QED BY <1>2, <2>1 DEF ResultPart, Scan!Pending
<1>12. ScanTypes'
  <2>1. inSeq' \in BOOLEAN /\ ~inSeq'
    <3>1. inSeq \in BOOLEAN
      BY DEF ScanInv, ScanTypes
    <3> QED BY <1>3, <1>7, <3>1
  <2>2. st' \in 1..Len(structures') + 1 /\ column' \in Nat
    BY <1>1, <1>2, <1>4
  <2> QED BY <1>1, <1>2, <2>1, <2>2 DEF ScanTypes
<1> QED BY <1>8, <1>9, <1>10, <1>11, <1>12 DEF ScanInv

LEMMA ScanKeptBeside ==
  ASSUME ImageFacts, SearchInv, ScanInv, UNCHANGED <<input, structures>>,
         UNCHANGED <<st, column, k, seen, count, start, best>>, inSeq' = inSeq,
         ResultPart'
  PROVE  ScanInv'
<1>1. BestPart'
  BY BestStays DEF ScanInv
<1>2. best.length \in Nat
  BY DEF ScanInv, BestPart
<1>3. ReadPart'
  BY <1>2, ReadStays
<1>4. OpenColumn'
  <2>1. \A s, col, m : FencedUpTo(s, col, m)' <=> FencedUpTo(s, col, m)
    BY ScanReads DEF FencedUpTo
  <2>2. \A s, col : ColumnPart(s, col) => ColumnPart(s, col)'
    <3> SUFFICES ASSUME NEW s, NEW col, ColumnPart(s, col) PROVE ColumnPart(s, col)'
      OBVIOUS
    <3>1. Scan!Stride(s)' = Scan!Stride(s) /\ FencedUpTo(s, col, k)'
      BY <2>1, ScanReads DEF ColumnPart, FencedUpTo
    <3>2. \A i \in 0..k' - 1 : FencedRun(s, col, i, k - 1)' => inSeq' /\ start' = i
      <4> SUFFICES ASSUME NEW i \in 0..k - 1, FencedRun(s, col, i, k - 1)'
                   PROVE  inSeq /\ start = i
        BY Zenon
      <4>1. ASSUME NEW j, j = k - 1 PROVE FencedRun(s, col, i, j)'
        BY <4>1 DEF FencedRun, Scan!DistinctRids
      <4>2. FencedRun(s, col, i, k - 1)
        BY <4>1, ScanReads
      <4> QED BY <4>2 DEF ColumnPart
    <3>3. count' > 0 => start' + count' <= k'
                        /\ Scan!DistinctRids(s, col, start, start + count - 1)'
      BY ScanReads DEF ColumnPart, Scan!DistinctRids
    <3>4. inSeq' => \A b : b \in seen' <=> \E m \in start'..k' - 1 : b = Scan!ByteOf(s, col, m)'
      BY ScanReads DEF ColumnPart
    <3> QED BY <3>1, <3>2, <3>3, <3>4 DEF ColumnPart
  <2> QED BY <2>2 DEF ScanInv, OpenColumn
<1>5. ScanTypes'
  <2>1. inSeq' \in BOOLEAN /\ (st' > Len(structures') => ~inSeq' /\ column' = 0)
    BY DEF ScanInv, ScanTypes
  <2> QED BY <2>1 DEF ScanInv, ScanTypes
<1> QED BY <1>1, <1>3, <1>4, <1>5 DEF ScanInv

LEMMA ReturnKeepsScan ==
  ASSUME ImageFacts, SearchInv, ScanInv, UNCHANGED <<input, structures>>, Scan!Return
  PROVE  ScanInv'
<1>1. UNCHANGED <<st, column, k, seen, count, start, best>>
  BY DEF Scan!Return
<1>2. inSeq' = inSeq
  BY DEF Scan!Return
<1>3. \A r : Scan!Location(r)' = Scan!Location(r)
  BY ScanReads DEF Scan!Location
<1>4. ResultPart'
  <2>1. st > Len(structures)
    BY DEF Scan!Return
  <2>2. CASE best = Scan!NoRun /\ result' = Scan!None
    BY <1>1, <2>1, <2>2 DEF ResultPart, Scan!None
  <2>3. CASE /\ best # Scan!NoRun
             /\ \/ result' = [location |-> Scan!Location(best) % AddrMod,
                              ridCount |-> best.length]
                \/ result' = Scan!Panicked /\ Scan!Location(best) >= AddrMod
    <3>1. PICK r : r = best
      OBVIOUS
    <3>2. \/ result' = [location |-> Scan!Location(r)' % AddrMod, ridCount |-> r.length]
          \/ result' = Scan!Panicked /\ Scan!Location(r)' >= AddrMod
      BY <1>3, <2>3, <3>1
    <3>3. best' # Scan!NoRun
      BY <1>1, <2>3
    <3> QED BY <1>1, <2>1, <3>1, <3>2, <3>3, Zenon
                DEF ResultPart, Scan!None, Scan!Panicked, Scan!NoRun
  <2> QED BY <2>2, <2>3, Zenon DEF Scan!Return
<1> QED BY <1>1, <1>2, <1>4, ScanKeptBeside

LEMMA NextScanInv ==
  ASSUME ImageInv, ListingInv, SearchInv, ScanInv, [Next]_vars
  PROVE  Scan!Init' \/ ScanInv'
<1>1. ImageFacts /\ input' = input
  BY ImageIsSound, InputKept
<1>2. CASE IdentifyUds
  <2>1. UNCHANGED structures /\ Scan!Next
    BY <1>2 DEF IdentifyUds, search
  <2>2. CASE Scan!OpenRun \/ Scan!GrowRun \/ Scan!EndRun
    BY <1>1, <2>1, <2>2, ByteKeepsScan
  <2>3. CASE Scan!NextColumn
    BY <1>1, <2>1, <2>3, ColumnKeepsScan
  <2>4. CASE Scan!NextStructure
    BY <1>1, <2>1, <2>4, StructureKeepsScan
  <2>5. CASE Scan!Return
    BY <1>1, <2>1, <2>5, ReturnKeepsScan
  <2> QED BY <2>1, <2>2, <2>3, <2>4, <2>5 DEF Scan!Next
<1>3. CASE UNCHANGED <<scan, structures>>
  <2>1. UNCHANGED <<st, column, k, seen, count, start, best, result>> /\ UNCHANGED structures
    BY <1>3 DEF scan
  <2>2. inSeq' = inSeq
    BY <1>3 DEF scan
  <2>3. ResultPart'
    <3>1. \A r : Scan!Location(r)' = Scan!Location(r)
      BY <1>1, <2>1, ScanReads DEF Scan!Location
    <3>2. ResultPart
      BY DEF ScanInv
    <3> QED BY <2>1, <3>1, <3>2 DEF ResultPart, Scan!None, Scan!Panicked, Scan!NoRun,
                                    Scan!Pending
  <2> QED BY <1>1, <2>1, <2>2, <2>3, ScanKeptBeside
<1>4. CASE IndexStructureArrays
  <2>1. Scan!Init /\ UNCHANGED scan
    BY <1>4 DEF IndexStructureArrays, Search!Next, Search!SkipInside, Search!Rejected,
                Search!Found, ListingInv, PhaseInv
  <2>2. /\ st = 1 /\ column = 0 /\ k = 0 /\ seen = {} /\ count = 0 /\ start = 0
        /\ best = Scan!NoRun /\ result = Scan!Pending
        /\ UNCHANGED <<st, column, k, seen, count, start, best, result>>
    BY <2>1 DEF Scan!Init, scan
  <2>3. inSeq = FALSE /\ inSeq' = inSeq
    BY <2>1 DEF Scan!Init, scan
  <2> QED BY <2>2, <2>3, Zenon DEF Scan!Init, Scan!NoRun, Scan!Pending
<1>5. CASE IndexPointers \/ IndexStrings \/ Terminated \/ UNCHANGED vars
  <2>1. UNCHANGED <<scan, structures>>
    BY <1>5 DEF IndexPointers, IndexStrings, Terminated, vars, search
  <2> QED BY <1>3, <2>1
<1> QED BY <1>2, <1>4, <1>5 DEF Next

LEMMA ScanKept == Spec => [](ImageInv /\ ListingInv /\ SearchInv /\ ScanInv)
<1>1. Init => ImageInv /\ ListingInv /\ SearchInv /\ Scan!Init
  BY InitImageInv, InitListingInv, InitSearchInv DEF Init
<1>2. ImageInv /\ SearchInv /\ Scan!Init => ScanInv
  BY ImageIsSound, ScanStarts
<1>3. ImageInv /\ ListingInv /\ SearchInv /\ ScanInv /\ [Next]_vars
        => Scan!Init' \/ ScanInv'
  BY NextScanInv
<1> QED BY <1>1, <1>2, <1>3, SearchKept, PTL DEF Spec

LEMMA PartImpliesScanTypes ==
  ASSUME SearchInv, ScanInv
  PROVE  Scan!TypeOK
<1>1. /\ st \in 1..Len(structures) + 1 /\ count \in 0..k /\ start \in 0..k
      /\ seen \subseteq Rids /\ (st > Len(structures) => ~inSeq)
  BY DEF ScanInv, ScanTypes
<1>2. ASSUME inSeq PROVE count = Scan!Cardinality(seen) /\ start + count = k
  <2>1. st \in DOMAIN structures
    BY <1>1, <1>2, DomainOfStructures
  <2>2. \A s : s = structures[st] => \A col : col = column => ColumnPart(s, col)
    BY <2>1 DEF ScanInv, OpenColumn
  <2>3. count = Cardinality(seen) /\ start + count = k
    BY <1>2, <2>2 DEF ColumnPart
  <2> QED BY <2>3 DEF Scan!Cardinality, Cardinality
<1> QED BY <1>1, <1>2 DEF Scan!TypeOK

LEMMA PartImpliesFencedRuns ==
  ASSUME ImageFacts, SearchInv, ScanInv
  PROVE  Scan!FencedRunsCount
<1> SUFFICES ASSUME NEW c \in Scan!ColumnsRead, NEW s, s = structures[c[1]]
             PROVE  FencedUpTo(s, c[2], s.count)
  BY DEF Scan!FencedRunsCount, FencedUpTo, FencedRun
<1>1. /\ st \in 1..Len(structures) + 1 /\ (st > Len(structures) => column = 0)
      /\ column \in Nat /\ DOMAIN structures = 1..Len(structures) /\ Len(structures) \in Nat
  BY DomainOfStructures DEF ScanInv, ScanTypes
<1>2. CASE \E i \in 1..st - 1 : \E col \in 0..Scan!Stride(structures[i]) - 1 : c = <<i, col>>
  <2>1. PICK i \in 1..st - 1 : \E col \in 0..Scan!Stride(structures[i]) - 1 : c = <<i, col>>
    BY <1>2
  <2> PICK col \in 0..Scan!Stride(structures[i]) - 1 : c = <<i, col>>
    BY <2>1
  <2>2. i \in DOMAIN structures /\ i < st /\ c[1] = i /\ c[2] = col
    BY <1>1, <2>1
  <2> QED BY <2>1, <2>2 DEF ScanInv, ReadPart
<1>3. CASE \E col \in 0..column - 1 : c = <<st, col>>
  <2>1. PICK col \in 0..column - 1 : c = <<st, col>>
    BY <1>3
  <2>2. st \in DOMAIN structures /\ c[1] = st /\ c[2] = col
    BY <1>1, <2>1
  <2>3. ColumnPart(s, column)
    BY <2>2 DEF ScanInv, OpenColumn
  <2>4. Scan!Stride(s) \in Nat
    BY <2>2, ArrayFacts
  <2>5. col \in 0..Scan!Stride(s) - 1 /\ col < column
    BY <1>1, <2>1, <2>3, <2>4 DEF ColumnPart
  <2> QED BY <2>2, <2>5 DEF ScanInv, ReadPart
<1>4. \/ c \in UNION {{<<i, col>> : col \in 0..Scan!Stride(structures[i]) - 1} : i \in 1..st - 1}
      \/ c \in {<<st, col>> : col \in 0..column - 1}
  BY DEF Scan!ColumnsRead
<1>5. CASE c \in {<<st, col>> : col \in 0..column - 1}
  BY <1>3, <1>5
<1>6. CASE c \in UNION {{<<i, col>> : col \in 0..Scan!Stride(structures[i]) - 1} : i \in 1..st - 1}
  <2>1. \E i \in 1..st - 1 : \E col \in 0..Scan!Stride(structures[i]) - 1 : c = <<i, col>>
    <3>1. PICK i \in 1..st - 1 : c \in {<<i, col>> : col \in 0..Scan!Stride(structures[i]) - 1}
      BY <1>6, Zenon
    <3> QED BY <3>1
  <2> QED BY <1>2, <2>1
<1> QED BY <1>4, <1>5, <1>6

\* identify_uds: no run of distinct request IDs between invalid bytes is longer
\* than the best one, although the scan forgets the byte that repeats.
THEOREM NoFencedRunIsLonger == Spec => []FencedRunsCount
<1>1. ImageInv /\ ListingInv /\ SearchInv /\ ScanInv => FencedRunsCount
  BY ImageIsSound, PartImpliesScanTypes, PartImpliesFencedRuns DEF FencedRunsCount
<1> QED BY <1>1, ScanKept, PTL

-----------------------------------------------------------------------------
\* The answer.

LEMMA SmallRemainder ==
  ASSUME NEW m \in Nat \ {0}, NEW x \in Nat, x < m
  PROVE  x % m = x
OBVIOUS

LEMMA WrappedOnce ==
  ASSUME NEW m \in Nat \ {0}, NEW x \in Nat, m <= x, x < m + m
  PROVE  x % m = x - m
OBVIOUS

LEMMA WrappedBelow ==
  ASSUME NEW m \in Nat \ {0}, NEW x \in Int, x < 0, 0 <= x + m
  PROVE  x % m = x + m
OBVIOUS

LEMMA AddressBack ==
  ASSUME NEW m \in Nat \ {0}, NEW b \in 0..m - 1, NEW x \in 0..m - 1
  PROVE  (((b + x) % m) - b) % m = x
<1> PICK y \in Nat : y = b + x
  OBVIOUS
<1>1. CASE y < m
  <2>1. (b + x) % m = y
    BY <1>1, SmallRemainder
  <2>2. y - b = x /\ x % m = x
    BY SmallRemainder
  <2> QED BY <2>1, <2>2
<1>2. CASE y >= m
  <2>1. m <= y /\ y < m + m
    BY <1>2
  <2>2. (b + x) % m = y - m
    <3>1. y % m = y - m
      BY <2>1, WrappedOnce
    <3> QED BY <3>1
  <2>3. y - m - b = x - m /\ x - m < 0 /\ (x - m) % m = x
    BY WrappedBelow
  <2> QED BY <2>2, <2>3
<1> QED BY <1>1, <1>2

LEMMA ByteInside ==
  ASSUME NEW c \in Nat, NEW n \in Nat, c < n, NEW w \in Nat \ {0}, NEW col \in 0..w - 1
  PROVE  c * w + col \in Nat /\ c * w + col < n * w
<1>1. PICK d \in Nat : d = c + 1
  OBVIOUS
<1>2. d * w = c * w + w /\ c * w \in Nat
  BY <1>1
<1>3. d * w <= n * w /\ n * w \in Nat
  <2>1. d <= n
    BY <1>1
  <2> QED BY <2>1, StrideBound
<1> QED BY <1>2, <1>3

LEMMA ProductsAssociate ==
  \A c, m, z \in Nat : c * m * z = c * (m * z)
OBVIOUS

\* The byte where the best run starts: its offset, below the end of its array.
StartOf(r) ==
  structures[r.st].offset + (r.start * Scan!Stride(structures[r.st]) + r.column)

LEMMA RunInArray ==
  ASSUME ImageFacts, SearchInv, NEW r \in [column : Nat, length : Nat, start : Nat, st : Nat],
         RealRun(r), NEW s, s = structures[r.st]
  PROVE  /\ StartOf(r) = s.offset + (r.start * Scan!Stride(s) + r.column)
         /\ StartOf(r) \in Nat /\ StartOf(r) >= s.offset /\ StartOf(r) < Search!EndOf(s)
         /\ Search!EndOf(s) <= AddrMod
         /\ Scan!Location(r) = input.base + StartOf(r)
         /\ Scan!ByteOf(s, r.column, r.start) \in Rids
<1>1. r.st \in DOMAIN structures /\ r.length > 0 /\ r.length \in Nat /\ r.start \in Nat
      /\ r.column \in 0..Scan!Stride(s) - 1 /\ r.start + r.length <= s.count
      /\ Scan!DistinctRids(s, r.column, r.start, r.start + r.length - 1)
  BY DEF RealRun
<1>2. /\ SoundArray(s) /\ s.offset \in Nat /\ s.count \in Nat \ {0} /\ s.members \in Nat \ {0}
      /\ Scan!Stride(s) \in Nat \ {0} /\ s \in StructureArray
  BY <1>1, ArrayFacts
<1>3. /\ input.psize \in Nat \ {0} /\ input.base \in Nat /\ input.length \in Nat
      /\ input.length + MaxMembers * input.psize <= AddrMod
      /\ MaxMembers \in Nat /\ AddrMod \in Nat
  BY FinderAssumption DEF ImageFacts
<1> DEFINE x == r.start * Scan!Stride(s) + r.column
           e == s.count * Scan!Stride(s)
<1>4. x \in Nat /\ x < e /\ e \in Nat
  <2>1. r.start < s.count
    BY <1>1, <1>2
  <2>2. x \in Nat /\ x < e
    BY <1>1, <1>2, <2>1, ByteInside
  <2>3. e \in Nat
    BY <1>2
  <2> QED BY <2>2, <2>3
<1>5. Search!EndOf(s) = s.offset + e
  <2>1. s.count * s.members * input.psize = e
    <3>1. PICK c \in Nat, m \in Nat, z \in Nat :
            c = s.count /\ m = s.members /\ z = input.psize
      BY <1>2, <1>3
    <3>2. c * m * z = c * (m * z)
      BY ProductsAssociate
    <3>3. e = s.count * (s.members * input.psize)
      BY DEF Scan!Stride
    <3> QED BY <3>1, <3>2, <3>3
  <2> QED BY <2>1 DEF Search!EndOf
<1>6. Search!EndOf(s) <= AddrMod
  <2> DEFINE W == MaxMembers * input.psize
  <2>1. W \in Nat
    BY <1>3
  <2>2. Search!EndOf(s) <= input.length - input.psize + W
    BY <1>2 DEF SoundArray, Search!ScanLimit
  <2>3. input.length + W <= AddrMod
    BY <1>3
  <2>4. Search!EndOf(s) \in Nat
    BY <1>2, EndIsNumber
  <2> HIDE DEF W
  <2> QED BY <1>3, <2>1, <2>2, <2>3, <2>4
<1>7. StartOf(r) = s.offset + x
  BY DEF StartOf
<1>8. Scan!ByteOf(s, r.column, r.start) \in Rids
  <2>1. r.start \in r.start..r.start + r.length - 1
    BY <1>1
  <2> QED BY <1>1, <2>1 DEF Scan!DistinctRids
<1>9. Scan!Location(r) = input.base + StartOf(r)
  <2> DEFINE y == r.start * Scan!Stride(s)
  <2>1. y \in Nat
    BY <1>1, <1>2
  <2>2. r.column \in Nat
    BY <1>1, <1>2
  <2>3. Scan!Location(r) = s.offset + input.base + r.column + y
    BY DEF Scan!Location
  <2>4. StartOf(r) = s.offset + (y + r.column)
    BY <1>7
  <2> HIDE DEF y
  <2> QED BY <1>2, <1>3, <2>1, <2>2, <2>3, <2>4
<1> HIDE DEF x, e
<1>10. StartOf(r) \in Nat /\ StartOf(r) >= s.offset /\ StartOf(r) < Search!EndOf(s)
  BY <1>2, <1>4, <1>5, <1>7
<1> QED BY <1>6, <1>7, <1>8, <1>9, <1>10 DEF x

LEMMA ReportedIsBest ==
  ASSUME ScanInv, Scan!Reported
  PROVE  \E r \in [column : Nat, length : Nat, start : Nat, st : Nat] :
           /\ RealRun(r)
           /\ result.location = Scan!Location(r) % AddrMod /\ result.ridCount = r.length
<1>1. result # Scan!Pending /\ result # Scan!None /\ result # Scan!Panicked
  BY DEF Scan!Reported
<1>2. PICK r : /\ best # Scan!NoRun /\ r = best
               /\ result = [location |-> Scan!Location(r) % AddrMod, ridCount |-> r.length]
  BY <1>1, Zenon DEF ScanInv, ResultPart
<1>3. r \in [column : Nat, length : Nat, start : Nat, st : Nat] /\ RealRun(r)
  BY <1>2 DEF ScanInv, BestPart
<1>4. result.location = Scan!Location(r) % AddrMod /\ result.ridCount = r.length
  BY <1>2
<1> QED BY <1>3, <1>4

\* An entry of the merged list is a pointer, never an array: an array begins at
\* a pointer, which was merged before it.
LEMMA ListedIsPointer ==
  ASSUME ListingInv, pc = "done", NEW j \in DOMAIN sorted
  PROVE  \E p \in DOMAIN pointers : pointers[p] = sorted[j]
<1>1. /\ next \in 1..Len(Listing!ToMerge) + 1
      /\ MergedFrom(sorted, Listing!ToMerge, next - 1)
  BY DEF ListingInv, MergeInv
<1>2. MergeFacts
  BY MergeEntries
<1>3. PICK i \in 1..next - 1 :
        /\ Listing!ToMerge[i] = sorted[j]
        /\ \A o \in 1..i - 1 : Listing!ToMerge[o].offset # Listing!ToMerge[i].offset
  BY <1>1 DEF MergedFrom
<1>4. i \in 1..Len(Listing!ToMerge) /\ Len(pointers) \in Nat
      /\ Len(Listing!ToMerge) \in Nat
  BY <1>1, <1>2 DEF MergeFacts
<1>5. i \in 1..Len(pointers)
  <2> SUFFICES ASSUME i \notin 1..Len(pointers) PROVE FALSE
    OBVIOUS
  <2>1. i \in Len(pointers) + 1..Len(Listing!ToMerge)
    BY <1>4
  <2>2. PICK o \in 1..Len(pointers) : Listing!ToMerge[o].offset = Listing!ToMerge[i].offset
    BY <1>2, <2>1 DEF MergeFacts
  <2>3. o \in 1..i - 1
    BY <1>4, <2>1
  <2> QED BY <1>3, <2>2, <2>3
<1>6. pointers \in Seq(PoiOf(input))
  BY DEF ListingInv, PointersInv
<1>7. DOMAIN pointers = 1..Len(pointers)
  BY <1>6
<1> QED BY <1>2, <1>3, <1>5, <1>7 DEF MergeFacts

LEMMA ArraysMeanDone ==
  ASSUME ListingInv, NEW i \in DOMAIN structures
  PROVE  pc = "done"
<1>1. Search!Init => DOMAIN structures = {}
  BY EmptySeq DEF Search!Init
<1> QED BY <1>1 DEF ListingInv, PhaseInv

LEMMA PartImpliesTableReal ==
  ASSUME ImageFacts, ListingInv, SearchInv, ScanInv
  PROVE  ReportedTableReal
<1> SUFFICES ASSUME Scan!Reported
             PROVE  /\ \E s \in {structures[i] : i \in DOMAIN structures} :
                         \E col \in 0..Scan!Stride(s) - 1, j \in 0..s.count - 1 :
                           /\ result.location
                                = (input.base + s.offset + j * Scan!Stride(s) + col) % AddrMod
                           /\ j + result.ridCount <= s.count
                           /\ Scan!DistinctRids(s, col, j, j + result.ridCount - 1)
                    /\ \E i \in DOMAIN structures : \A s : s = structures[i] =>
                         /\ (result.location - input.base) % AddrMod
                              \in s.offset .. Search!EndOf(s) - 1
                         /\ \A c \in 0..s.count - 1 : \E p \in DOMAIN pointers :
                              pointers[p] = [offset |-> s.offset + c * Scan!Stride(s),
                                             type |-> s.type]
  BY DEF ReportedTableReal, Scan!ReportedRunReal
<1>1. PICK r \in [column : Nat, length : Nat, start : Nat, st : Nat] :
        /\ RealRun(r)
        /\ result.location = Scan!Location(r) % AddrMod /\ result.ridCount = r.length
  BY ReportedIsBest
<1>2. PICK s : s = structures[r.st]
  OBVIOUS
<1>3. /\ r.st \in DOMAIN structures /\ r.length > 0 /\ r.length \in Nat /\ r.start \in Nat
      /\ r.column \in 0..Scan!Stride(s) - 1 /\ r.start + r.length <= s.count
      /\ Scan!DistinctRids(s, r.column, r.start, r.start + r.length - 1)
  BY <1>1, <1>2 DEF RealRun
<1>4. /\ SoundArray(s) /\ s.offset \in Nat /\ s.count \in Nat \ {0} /\ s.members \in Nat \ {0}
      /\ Scan!Stride(s) \in Nat \ {0} /\ s \in StructureArray
  BY <1>2, <1>3, ArrayFacts
<1>5. /\ StartOf(r) = s.offset + (r.start * Scan!Stride(s) + r.column)
      /\ StartOf(r) \in Nat /\ StartOf(r) >= s.offset /\ StartOf(r) < Search!EndOf(s)
      /\ Search!EndOf(s) <= AddrMod
      /\ Scan!Location(r) = input.base + StartOf(r)
  BY <1>1, <1>2, RunInArray
<1>6. AddrMod \in Nat \ {0} /\ input.base \in 0..AddrMod - 1
  BY FinderAssumption DEF ImageFacts
<1>7. Search!EndOf(s) \in Nat
  BY <1>4, EndIsNumber
<1>8. \E col \in 0..Scan!Stride(s) - 1, j \in 0..s.count - 1 :
        /\ result.location = (input.base + s.offset + j * Scan!Stride(s) + col) % AddrMod
        /\ j + result.ridCount <= s.count
        /\ Scan!DistinctRids(s, col, j, j + result.ridCount - 1)
  <2>1. r.start \in 0..s.count - 1
    BY <1>3, <1>4
  <2> DEFINE y == r.start * Scan!Stride(s)
  <2>2. y \in Nat /\ r.column \in Nat /\ input.base \in Nat
    BY <1>3, <1>4, <1>6
  <2>3. Scan!Location(r) = input.base + (s.offset + (y + r.column))
    BY <1>5
  <2>4. Scan!Location(r) = input.base + s.offset + y + r.column
    <3> HIDE DEF y
    <3> QED BY <1>4, <2>2, <2>3
  <2> QED BY <1>1, <1>3, <2>1, <2>4
<1>9. (result.location - input.base) % AddrMod \in s.offset .. Search!EndOf(s) - 1
  <2>1. StartOf(r) \in 0..AddrMod - 1
    BY <1>5, <1>6, <1>7
  <2>2. (((input.base + StartOf(r)) % AddrMod) - input.base) % AddrMod = StartOf(r)
    BY <1>6, <2>1, AddressBack
  <2>3. (result.location - input.base) % AddrMod = StartOf(r)
    BY <1>1, <1>5, <2>2
  <2> QED BY <1>4, <1>5, <1>7, <2>3
<1>10. ASSUME NEW c \in 0..s.count - 1
       PROVE  \E p \in DOMAIN pointers :
                pointers[p] = [offset |-> s.offset + c * Scan!Stride(s), type |-> s.type]
  <2>1. PICK j \in DOMAIN sorted :
          /\ sorted[j].offset = s.offset + c * s.members * input.psize
          /\ sorted[j].type = s.type
    BY <1>4 DEF SoundArray, Headed
  <2>2. c * s.members * input.psize = c * Scan!Stride(s)
    <3> c \in Nat /\ s.members \in Nat /\ input.psize \in Nat
      BY <1>4 DEF ImageFacts
    <3>1. PICK d \in Nat, m \in Nat, z \in Nat : d = c /\ m = s.members /\ z = input.psize
      OBVIOUS
    <3>2. d * m * z = d * (m * z)
      BY ProductsAssociate
    <3>3. c * Scan!Stride(s) = c * (s.members * input.psize)
      BY DEF Scan!Stride
    <3> QED BY <3>1, <3>2, <3>3
  <2>3. sorted[j] = [offset |-> sorted[j].offset, type |-> sorted[j].type]
    BY SortedFacts, PoiFields
  <2>4. sorted[j] = [offset |-> s.offset + c * Scan!Stride(s), type |-> s.type]
    BY <2>1, <2>2, <2>3
  <2>5. pc = "done"
    BY <1>3, ArraysMeanDone
  <2> QED BY <2>4, <2>5, ListedIsPointer
<1>11. s \in {structures[i] : i \in DOMAIN structures}
  BY <1>2, <1>3
<1>12. \E i \in DOMAIN structures : \A t : t = structures[i] => t = s
  BY <1>2, <1>3
<1> QED BY <1>8, <1>9, <1>10, <1>11, <1>12

\* The bytes behind the image read as 0, which is no request ID.
LEMMA RunInImage ==
  ASSUME ImageFacts, NEW s, NEW col, NEW j, NEW x,
         x = s.offset + (j * Scan!Stride(s) + col), x \in Nat,
         s.offset \in Nat, j * Scan!Stride(s) \in Nat, col \in Nat,
         Scan!ByteOf(s, col, j) \in Rids
  PROVE  x < input.length
<1>1. 0 \notin Rids
  BY FinderAssumption
<1>2. x = s.offset + j * Scan!Stride(s) + col
  OBVIOUS
<1>3. x \in DOMAIN input.content
  BY <1>1, <1>2 DEF Scan!ByteOf
<1> QED BY <1>3 DEF ImageFacts

\* A pointer found without symbols means that the image does not wrap around.
LEMMA ImageDoesNotWrap ==
  ASSUME ImageFacts, ~input.symbols, NEW p \in PoiOf(input)
  PROVE  input.base + input.length < AddrMod
<1>1. PICK w \in Listing!DataWords(input) :
        Listing!InRange(input, input.words[w], input.base)
  BY PoiFields DEF Indexed
<1>2. input.words[w] \in Nat
  BY <1>1 DEF ImageFacts, Listing!DataWords, Listing!Scanned
<1>3. input.words[w] >= input.base
      /\ input.words[w] < (input.base + input.length) % AddrMod
  BY <1>1 DEF Listing!InRange, Listing!Plus
<1>4. AddrMod \in Nat \ {0} /\ input.base \in 0..AddrMod - 1 /\ input.length \in Nat
  BY FinderAssumption DEF ImageFacts
<1>5. input.length < AddrMod
  <2>1. PICK W \in Nat : W = MaxMembers * input.psize /\ W > 0
    <3>1. MaxMembers \in Nat \ {0} /\ input.psize \in Nat \ {0}
      BY FinderAssumption DEF ImageFacts
    <3> QED BY <3>1
  <2>2. input.length + W <= AddrMod
    BY <2>1 DEF ImageFacts
  <2> QED BY <1>4, <2>1, <2>2
<1>6. CASE input.base + input.length >= AddrMod
  <2>1. PICK y \in Nat : y = input.base + input.length
    BY <1>4
  <2>2. AddrMod <= y /\ y < AddrMod + AddrMod
    BY <1>4, <1>5, <1>6, <2>1
  <2>3. y % AddrMod = y - AddrMod
    BY <1>4, <2>2, WrappedOnce
  <2>4. (input.base + input.length) % AddrMod = y - AddrMod
    BY <2>1, <2>3
  <2>5. y - AddrMod < input.base
    BY <1>4, <1>5, <2>1
  <2> QED BY <1>2, <1>3, <1>4, <2>1, <2>4, <2>5
<1> QED BY <1>4, <1>6

LEMMA PartImpliesLocationFits ==
  ASSUME ImageFacts, ListingInv, SearchInv, ScanInv
  PROVE  LocationFits
<1>1. ASSUME ~input.symbols,
             NEW r \in [column : Nat, length : Nat, start : Nat, st : Nat], RealRun(r)
      PROVE  /\ Scan!Location(r) \in input.base .. input.base + input.length - 1
             /\ Scan!Location(r) \in Nat /\ Scan!Location(r) < AddrMod
  <2>1. PICK s : s = structures[r.st]
    OBVIOUS
  <2>2. /\ StartOf(r) = s.offset + (r.start * Scan!Stride(s) + r.column)
        /\ StartOf(r) \in Nat /\ Scan!Location(r) = input.base + StartOf(r)
        /\ Scan!ByteOf(s, r.column, r.start) \in Rids
    BY <1>1, <2>1, RunInArray
  <2>3. r.st \in DOMAIN structures
    BY <1>1 DEF RealRun
  <2>4. /\ s.offset \in Nat /\ Scan!Stride(s) \in Nat /\ s.count \in Nat \ {0} /\ Headed(s)
    BY <2>1, <2>3, ArrayFacts DEF SoundArray
  <2>5. r.start * Scan!Stride(s) \in Nat /\ r.column \in Nat
    BY <2>4
  <2>6. StartOf(r) < input.length
    BY <2>2, <2>4, <2>5, RunInImage
  <2>7. input.base + input.length < AddrMod
    <3>1. PICK j \in DOMAIN sorted : TRUE
      <4>1. 0 \in 0..s.count - 1
        BY <2>4
      <4> QED BY <2>4, <4>1 DEF Headed
    <3>2. sorted[j] \in PoiOf(input)
      BY SortedFacts
    <3> QED BY <1>1, <3>2, ImageDoesNotWrap
  <2>8. input.base \in Nat /\ input.length \in Nat /\ AddrMod \in Nat
    BY FinderAssumption DEF ImageFacts
  <2> QED BY <2>2, <2>6, <2>7, <2>8
<1>2. ASSUME ~input.symbols PROVE result # Scan!Panicked
  <2> SUFFICES ASSUME result = Scan!Panicked PROVE FALSE
    OBVIOUS
  <2>1. result # Scan!Pending /\ result # Scan!None /\ result.ridCount = 0
    BY DEF Scan!Panicked, Scan!Pending, Scan!None
  <2>2. PICK r : /\ best # Scan!NoRun /\ r = best
                 /\ \/ result = [location |-> Scan!Location(r) % AddrMod, ridCount |-> r.length]
                    \/ Scan!Location(r) >= AddrMod
    BY <2>1, Zenon DEF ScanInv, ResultPart
  <2>3. r \in [column : Nat, length : Nat, start : Nat, st : Nat] /\ RealRun(r)
    BY <2>2 DEF ScanInv, BestPart
  <2>4. r.length \in Nat /\ r.length > 0
    BY <2>3 DEF RealRun
  <2>5. Scan!Location(r) >= AddrMod
    BY <2>1, <2>2, <2>4
  <2>6. Scan!Location(r) \in Nat /\ Scan!Location(r) < AddrMod
    BY <1>1, <1>2, <2>3
  <2> QED BY <2>5, <2>6, FinderAssumption
<1>3. ASSUME ~input.symbols, Scan!Reported
      PROVE  result.location \in input.base .. input.base + input.length - 1
  <2>1. PICK r \in [column : Nat, length : Nat, start : Nat, st : Nat] :
          RealRun(r) /\ result.location = Scan!Location(r) % AddrMod
    BY <1>3, ReportedIsBest
  <2>2. /\ Scan!Location(r) \in input.base .. input.base + input.length - 1
        /\ Scan!Location(r) \in Nat /\ Scan!Location(r) < AddrMod
    BY <1>1, <1>3, <2>1
  <2>3. AddrMod \in Nat \ {0}
    BY FinderAssumption
  <2>4. Scan!Location(r) % AddrMod = Scan!Location(r)
    BY <2>2, <2>3, SmallRemainder
  <2> QED BY <2>1, <2>2, <2>4
<1> QED BY <1>2, <1>3 DEF LocationFits

\* UdsFinder::find (uds.rs): the table it reports is real from end to end.  Its
\* rows are structures that begin with indexed pointers of one type, and as many
\* of them in a row as it claims hold distinct valid request IDs in one column.
THEOREM TableIsReal == Spec => []ReportedTableReal
<1>1. ImageInv /\ ListingInv /\ SearchInv /\ ScanInv => ReportedTableReal
  BY ImageIsSound, PartImpliesTableReal
<1> QED BY <1>1, ScanKept, PTL

\* The unchecked addition of identify_uds cannot overflow in a search without
\* symbols, whatever the base, and the address reported lies in the image.
THEOREM LocationIsInImage == Spec => []LocationFits
<1>1. ImageInv /\ ListingInv /\ SearchInv /\ ScanInv => LocationFits
  BY ImageIsSound, PartImpliesLocationFits
<1> QED BY <1>1, ScanKept, PTL
=============================================================================
