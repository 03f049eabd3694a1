--------------------------- MODULE MemoryMapProofs ---------------------------
(***************************************************************************)
(* Proofs about the regions of a memory map, for every image, chunk size   *)
(* and entropy: ascending, disjoint and inside the scanned chunks; runs of *)
(* chunks of one type; exact on an image without unclassified chunks.      *)
(***************************************************************************)
EXTENDS MemoryMap, TLAPS, FiniteSetTheorems, WellFoundedInduction

\* Whole chunks are counted by division.
LEMMA WholeChunks ==
  ASSUME NEW k \in Nat, NEW c \in Nat \ {0}, NEW tail \in 0..c - 1
  PROVE  (k * c + tail) \div c = k
OBVIOUS

LEMMA ChunkStep ==
  ASSUME NEW n \in Nat, NEW c \in Nat
  PROVE  n * c \in Nat /\ (n + 1) * c = n * c + c
OBVIOUS

\* The regions of a list are ascending, disjoint and end below a bound.
Ordered(l, bound) ==
  /\ \A k \in 1..Len(l) : EndOf(l[k]) <= bound
  /\ \A j, k \in 1..Len(l) : j < k => EndOf(l[j]) <= l[k].offset

\* The image stays what it was, and one entropy belongs to each whole chunk.
ImageInv ==
  /\ entropy \in Seq(Entropies)
  /\ NbSections = Len(entropy)

IInv == TypeOK /\ ImageInv /\ Ordered(Found, next * ChunkSize)

LEMMA RegionIsNotNone ==
  ASSUME NEW r \in Region
  PROVE  r # None /\ r.offset \in Nat /\ r.size \in Nat /\ EndOf(r) \in Nat
BY DEF Region, None, EndOf

LEMMA OrderedAppend ==
  ASSUME NEW l \in Seq(Region), NEW r \in Region, NEW low \in Nat, NEW high \in Nat,
         Ordered(l, low), low <= r.offset, EndOf(r) <= high
  PROVE  Ordered(Append(l, r), high)
<1> DEFINE new == Append(l, r)
<1>1. /\ Len(l) \in Nat /\ Len(new) = Len(l) + 1
      /\ \A k \in 1..Len(l) : new[k] = l[k] /\ l[k] \in Region
      /\ new[Len(l) + 1] = r
  OBVIOUS
<1>2. /\ r.offset \in Nat /\ EndOf(r) \in Nat /\ r.offset <= EndOf(r)
      /\ \A k \in 1..Len(l) : EndOf(l[k]) \in Nat
  <2>1. ASSUME NEW q \in Region
        PROVE  q.offset \in Nat /\ EndOf(q) \in Nat /\ q.offset <= EndOf(q)
    BY DEF Region, EndOf
  <2> QED BY <1>1, <2>1, Zenon
<1> HIDE DEF new
<1>3. \A k \in 1..Len(new) : EndOf(new[k]) <= high
  BY <1>1, <1>2 DEF Ordered
<1>4. ASSUME NEW j \in 1..Len(new), NEW k \in 1..Len(new), j < k
      PROVE  EndOf(new[j]) <= new[k].offset
  <2>1. j \in 1..Len(l)
    BY <1>1, <1>4
  <2>2. CASE k = Len(l) + 1
    <3>1. EndOf(l[j]) <= low /\ EndOf(l[j]) \in Nat /\ new[j] = l[j] /\ new[k] = r
      BY <1>1, <1>2, <2>1, <2>2 DEF Ordered
    <3> QED BY <1>2, <3>1
  <2>3. CASE k # Len(l) + 1
    <3>1. k \in 1..Len(l)
      BY <1>1, <2>3
    <3> QED BY <1>1, <1>4, <2>1, <3>1 DEF Ordered
  <2> QED BY <2>2, <2>3
<1> QED BY <1>3, <1>4 DEF Ordered, new

LEMMA OrderedFront ==
  ASSUME NEW l \in Seq(Region), NEW r \in Region, NEW high \in Nat,
         Ordered(Append(l, r), high)
  PROVE  Ordered(l, r.offset) /\ EndOf(r) <= high
<1> DEFINE new == Append(l, r)
<1>1. /\ Len(l) \in Nat /\ Len(new) = Len(l) + 1
      /\ \A k \in 1..Len(l) : new[k] = l[k]
      /\ new[Len(l) + 1] = r
  OBVIOUS
<1>2. Ordered(new, high)
  OBVIOUS
<1> HIDE DEF new
<1> QED BY <1>1, <1>2 DEF Ordered

LEMMA OrderedHigher ==
  ASSUME NEW l \in Seq(Region), NEW low \in Nat, NEW high \in Nat,
         Ordered(l, low), low <= high
  PROVE  Ordered(l, high)
<1>1. \A k \in 1..Len(l) : l[k] \in Region
  OBVIOUS
<1>2. \A k \in 1..Len(l) : EndOf(l[k]) \in Nat
  BY <1>1, RegionIsNotNone
<1> QED BY <1>2 DEF Ordered

LEMMA InitIInv == Init => IInv
<1> SUFFICES ASSUME Init PROVE IInv
  OBVIOUS
<1>1. PICK k \in 0..MaxChunks : entropy \in [1..k -> Entropies]
  BY DEF Init
<1>2. k \in Nat /\ entropy \in Seq(Entropies) /\ Len(entropy) = k
  BY <1>1, ChunkAssumption
<1>3. NbSections = Len(entropy)
  <2>1. PICK tail \in 0..ChunkSize - 1 : length = k * ChunkSize + tail
    BY <1>2 DEF Init
  <2> QED BY <1>2, <2>1, WholeChunks, ChunkAssumption DEF NbSections
<1>4. TypeOK /\ Found = <<>>
  <2>1. next = 0 /\ current = None /\ regions = <<>> /\ done = FALSE
    BY DEF Init
  <2>2. 0 \in 0..Len(entropy) /\ <<>> \in Seq(Region)
    BY <1>2
  <2>3. Found = <<>>
    BY <2>1 DEF Found
  <2>4. done \in BOOLEAN
    BY <2>1
  <2> QED BY <2>1, <2>2, <2>3, <2>4, Zenon DEF TypeOK
<1>5. Ordered(Found, next * ChunkSize)
  BY <1>4 DEF Ordered
<1> QED BY <1>2, <1>3, <1>4, <1>5 DEF IInv, ImageInv

\* The chunk that is read makes a region of its own size and place.
LEMMA OpenedIsRegion ==
  ASSUME IInv, AtChunk, Classified(next + 1)
  PROVE  /\ Opened \in Region
         /\ Opened.offset = next * ChunkSize
         /\ EndOf(Opened) = (next + 1) * ChunkSize
         /\ next + 1 \in 0..Len(entropy)
<1>1. next \in Nat /\ Len(entropy) \in Nat /\ next < Len(entropy)
  BY DEF IInv, ImageInv, TypeOK, AtChunk
<1>2. Classify(entropy[next + 1]) \in RegionType
  BY DEF Classified, Classify, RegionType, Unknown
<1>3. next * ChunkSize \in Nat /\ (next + 1) * ChunkSize = next * ChunkSize + ChunkSize
  BY <1>1, ChunkStep, ChunkAssumption
<1> QED BY <1>1, <1>2, <1>3, ChunkAssumption DEF Opened, Region, EndOf

LEMMA FoundTypes ==
  ASSUME TypeOK
  PROVE  Found \in Seq(Region)
BY DEF TypeOK, Found

\* No step leaves the invariant: one case per action.
LEMMA NextIInv == IInv /\ [Next]_vars => IInv'
<1> SUFFICES ASSUME IInv, [Next]_vars PROVE IInv'
  OBVIOUS
<1>1. /\ TypeOK /\ ImageInv /\ Ordered(Found, next * ChunkSize)
      /\ regions \in Seq(Region) /\ Found \in Seq(Region)
      /\ next \in Nat /\ Len(entropy) \in Nat
  BY FoundTypes DEF IInv, TypeOK, ImageInv
<1>2. /\ next * ChunkSize \in Nat /\ (next + 1) * ChunkSize \in Nat
      /\ next * ChunkSize <= (next + 1) * ChunkSize
  BY <1>1, ChunkStep, ChunkAssumption
<1>3. UNCHANGED <<entropy, length>> => ImageInv'
  BY <1>1 DEF ImageInv, NbSections
<1>4. CASE SkipChunk
  <2>1. /\ next' = next + 1 /\ UNCHANGED <<entropy, length, current, regions, done>>
        /\ next < Len(entropy)
    BY <1>1, <1>4 DEF SkipChunk, AtChunk, ImageInv
  <2>2. TypeOK'
    BY <1>1, <2>1 DEF TypeOK
  <2>3. Found' = Found
    BY <2>1 DEF Found
  <2> QED BY <1>1, <1>2, <1>3, <2>1, <2>2, <2>3, OrderedHigher DEF IInv, Ordered
<1>5. CASE OpenRegion
  <2>1. /\ next' = next + 1 /\ UNCHANGED <<entropy, length, regions, done>>
        /\ current = None /\ current' = Opened
    BY <1>5 DEF OpenRegion
  <2>2. Opened \in Region /\ Opened # None
    BY <1>5, OpenedIsRegion, RegionIsNotNone DEF OpenRegion
  <2>3. TypeOK'
    BY <1>1, <1>5, <2>1, <2>2, OpenedIsRegion DEF TypeOK, OpenRegion
  <2>4. Found = regions /\ Found' = Append(regions, Opened)
    BY <2>1, <2>2 DEF Found
  <2>5. Ordered(Append(regions, Opened), (next + 1) * ChunkSize)
    BY <1>1, <1>2, <1>5, <2>2, <2>4, OpenedIsRegion, OrderedAppend DEF OpenRegion
  <2> QED BY <1>3, <2>1, <2>3, <2>4, <2>5 DEF IInv, Ordered
<1>6. CASE ExtendRegion
  <2> DEFINE grown == [current EXCEPT !.size = @ + ChunkSize]
  <2>1. /\ next' = next + 1 /\ UNCHANGED <<entropy, length, regions, done>>
        /\ current' = grown
    BY <1>6 DEF ExtendRegion
  <2>2. current # None
    BY <1>6 DEF ExtendRegion, Classified, None
  <2>3. /\ current \in Region /\ grown \in Region /\ grown # None
        /\ grown.offset = current.offset
        /\ EndOf(grown) = EndOf(current) + ChunkSize /\ EndOf(current) \in Nat
    <3>1. current \in Region
      BY <1>1, <2>2 DEF TypeOK
    <3>2. /\ grown.offset = current.offset /\ grown.size = current.size + ChunkSize
          /\ grown \in Region
      BY <3>1, ChunkAssumption DEF Region
    <3>3. current.offset \in Nat /\ current.size \in Nat
      BY <3>1 DEF Region
    <3> HIDE DEF grown
    <3> QED BY <3>1, <3>2, <3>3, RegionIsNotNone, ChunkAssumption DEF EndOf
  <2>4. Found = Append(regions, current) /\ Found' = Append(regions, grown)
    BY <2>1, <2>2, <2>3 DEF Found
  <2>5. TypeOK'
    BY <1>1, <1>6, <2>1, <2>3, OpenedIsRegion DEF TypeOK, ExtendRegion
  <2>6. Ordered(regions, current.offset) /\ EndOf(current) <= next * ChunkSize
    BY <1>1, <1>2, <2>3, <2>4, OrderedFront
  <2>7. EndOf(grown) <= (next + 1) * ChunkSize
    BY <1>1, <2>3, <2>6, <1>2, ChunkStep, ChunkAssumption
  <2>8. current.offset \in Nat
    BY <2>3, RegionIsNotNone
  <2> HIDE DEF grown
  <2>9. Ordered(Append(regions, grown), (next + 1) * ChunkSize)
    BY <1>1, <1>2, <2>3, <2>6, <2>7, <2>8, OrderedAppend
  <2> QED BY <1>3, <2>1, <2>4, <2>5, <2>9 DEF IInv, Ordered
<1>7. CASE SwitchRegion
  <2>1. /\ next' = next + 1 /\ UNCHANGED <<entropy, length, done>>
        /\ current # None /\ current' = Opened /\ regions' = Append(regions, current)
    BY <1>7 DEF SwitchRegion
  <2>2. Opened \in Region /\ Opened # None
    BY <1>7, OpenedIsRegion, RegionIsNotNone DEF SwitchRegion
  <2>3. TypeOK'
    BY <1>1, <1>7, <2>1, <2>2, OpenedIsRegion DEF TypeOK, SwitchRegion
  <2>4. Found' = Append(Found, Opened)
    BY <2>1, <2>2 DEF Found
  <2>5. Ordered(Append(Found, Opened), (next + 1) * ChunkSize)
    BY <1>1, <1>2, <1>7, <2>2, OpenedIsRegion, OrderedAppend DEF SwitchRegion
  <2> QED BY <1>3, <2>1, <2>3, <2>4, <2>5 DEF IInv, Ordered
<1>8. CASE Finish
  <2>1. UNCHANGED <<entropy, length, next>> /\ regions' = Found /\ current' = None /\ done' = TRUE
    BY <1>8 DEF Finish, Found
  <2>2. TypeOK' /\ Found' = Found
    BY <1>1, <2>1 DEF TypeOK, Found
  <2> QED BY <1>1, <1>3, <2>1, <2>2 DEF IInv, Ordered
<1>9. CASE Terminated \/ UNCHANGED vars
  <2>1. UNCHANGED vars
    BY <1>9 DEF Terminated
  <2>2. TypeOK' /\ Found' = Found
    BY <1>1, <2>1 DEF TypeOK, Found, vars
  <2> QED BY <1>1, <1>3, <2>1, <2>2 DEF IInv, Ordered, vars
<1> QED BY <1>4, <1>5, <1>6, <1>7, <1>8, <1>9 DEF Next

LEMMA IInvImpliesRegionsDisjoint == IInv => RegionsDisjoint
<1> SUFFICES ASSUME IInv PROVE RegionsDisjoint
  OBVIOUS
<1>1. DOMAIN Found = 1..Len(Found)
  BY FoundTypes DEF IInv
<1> QED BY <1>1 DEF IInv, RegionsDisjoint, Ordered

\* MemoryMap::analyze (memregion.rs:65-108): whatever the entropies, closed
\* regions and the open one are ascending, do not overlap and end within the
\* whole chunks read, although the open one grows wherever the chunk lies.
THEOREM DisjointRegions == Spec => []RegionsDisjoint
<1>1. Init => IInv
  BY InitIInv
<1>2. IInv /\ [Next]_vars => IInv'
  BY NextIInv
<1>3. IInv => RegionsDisjoint
  BY IInvImpliesRegionsDisjoint
<1> QED BY <1>1, <1>2, <1>3, PTL DEF Spec

-----------------------------------------------------------------------------
\* Regions as runs of chunks.

\* ChunksBetween for a given number of scanned chunks, and where the run of
\* the k-th region of a list ends.
RunOf(from, to, n) ==
  {c \in 1..n : (c - 1) * ChunkSize >= from /\ (c - 1) * ChunkSize < to /\ Classified(c)}

UntilOf(l, k, n) == IF k = Len(l) THEN n * ChunkSize ELSE l[k + 1].offset

Merged(l, n) ==
  /\ \A k \in 1..Len(l) :
       /\ \A c \in RunOf(l[k].offset, UntilOf(l, k, n), n) :
            Classify(entropy[c]) = l[k].type
       /\ l[k].size = ChunkSize * Cardinality(RunOf(l[k].offset, UntilOf(l, k, n), n))
  /\ \A k \in 1..Len(l) : k # 1 => l[k].type # l[k - 1].type
  /\ l = <<>> => RunOf(0, n * ChunkSize, n) = {}

\* The open region is missing only before the first one and after the end.
Phase ==
  /\ ~done /\ current = None => regions = <<>>
  /\ done => current = None /\ next = NbSections

MInv == IInv /\ Merged(Found, next) /\ Phase

\* Chunks are ordered like the bytes they start at.
LEMMA ChunkOrder ==
  ASSUME NEW m \in Nat, NEW n \in Nat
  PROVE  /\ m * ChunkSize \in Nat /\ n * ChunkSize \in Nat
         /\ m < n => m * ChunkSize + ChunkSize <= n * ChunkSize
         /\ m * ChunkSize < n * ChunkSize => m < n
<1>1. ASSUME NEW c \in Nat \ {0}, NEW a \in Nat, NEW b \in Nat, a < b
      PROVE  a * c + c <= b * c
  <2>1. PICK d \in Nat : b = a + 1 + d
    <3>1. b - a - 1 \in Nat /\ b = a + 1 + (b - a - 1)
      BY <1>1
    <3> QED BY <3>1
  <2>2. (a + 1 + d) * c = a * c + c + d * c /\ d * c \in Nat /\ a * c \in Nat
    OBVIOUS
  <2> QED BY <2>1, <2>2
<1>2. m * ChunkSize \in Nat /\ n * ChunkSize \in Nat
  BY ChunkStep, ChunkAssumption
<1>3. m < n => m * ChunkSize + ChunkSize <= n * ChunkSize
  BY <1>1, ChunkAssumption
<1>4. m * ChunkSize < n * ChunkSize => m < n
  <2>1. n < m => n * ChunkSize + ChunkSize <= m * ChunkSize
    BY <1>1, ChunkAssumption
  <2> QED BY <1>2, <2>1, ChunkAssumption
<1> QED BY <1>2, <1>3, <1>4

LEMMA RunFinite ==
  ASSUME NEW from, NEW to, NEW n \in Nat
  PROVE  IsFiniteSet(RunOf(from, to, n)) /\ Cardinality(RunOf(from, to, n)) \in Nat
<1>1. RunOf(from, to, n) \in SUBSET (1..n) /\ IsFiniteSet(1..n)
  BY FS_Interval DEF RunOf
<1>2. IsFiniteSet(RunOf(from, to, n))
  BY <1>1, FS_Subset, Zenon
<1> QED BY <1>2, FS_CardinalityType

\* What one more chunk does to a run: nothing to a run that ended before, nor
\* when the chunk has no class; otherwise it joins the run that is open.
LEMMA RunStep ==
  ASSUME NEW n \in Nat, NEW from \in Nat, from <= n * ChunkSize
  PROVE  /\ \A to \in Nat : to <= n * ChunkSize => RunOf(from, to, n + 1) = RunOf(from, to, n)
         /\ ~Classified(n + 1) =>
              RunOf(from, (n + 1) * ChunkSize, n + 1) = RunOf(from, n * ChunkSize, n)
         /\ Classified(n + 1) =>
              RunOf(from, (n + 1) * ChunkSize, n + 1) = RunOf(from, n * ChunkSize, n) \cup {n + 1}
         /\ n + 1 \notin RunOf(from, n * ChunkSize, n)
<1>1. /\ \A c \in 1..n : (c - 1) * ChunkSize < n * ChunkSize /\ (c - 1) * ChunkSize \in Nat
      /\ (n + 1) * ChunkSize = n * ChunkSize + ChunkSize
      /\ n * ChunkSize \in Nat
  <2>1. ASSUME NEW c \in 1..n
        PROVE  (c - 1) * ChunkSize < n * ChunkSize /\ (c - 1) * ChunkSize \in Nat
    <3>1. c - 1 \in Nat /\ c - 1 < n
      OBVIOUS
    <3> QED BY <3>1, ChunkOrder, ChunkAssumption
  <2> QED BY <2>1, ChunkStep, ChunkAssumption
<1>2. 1..(n + 1) = (1..n) \cup {n + 1} /\ (n + 1) - 1 = n /\ n + 1 \notin 1..n
  OBVIOUS
<1>3. ASSUME NEW to \in Nat, to <= n * ChunkSize
      PROVE  RunOf(from, to, n + 1) = RunOf(from, to, n)
  BY <1>1, <1>2, <1>3 DEF RunOf
<1>4. ASSUME NEW c \in 1..n
      PROVE  c \in RunOf(from, (n + 1) * ChunkSize, n + 1) <=> c \in RunOf(from, n * ChunkSize, n)
  BY <1>1, <1>2, ChunkAssumption DEF RunOf
<1>5. n + 1 \in RunOf(from, (n + 1) * ChunkSize, n + 1) <=> Classified(n + 1)
  BY <1>1, <1>2, ChunkAssumption DEF RunOf
<1>6. /\ RunOf(from, (n + 1) * ChunkSize, n + 1) \subseteq (1..n) \cup {n + 1}
      /\ RunOf(from, n * ChunkSize, n) \subseteq 1..n
  BY <1>2 DEF RunOf
<1> QED BY <1>2, <1>3, <1>4, <1>5, <1>6

\* Where the regions of an ordered list begin, and where their runs end.
LEMMA RunEnds ==
  ASSUME NEW l \in Seq(Region), NEW n \in Nat, Ordered(l, n * ChunkSize)
  PROVE  /\ Len(l) \in Nat /\ n * ChunkSize \in Nat
         /\ \A k \in 1..Len(l) : /\ l[k] \in Region /\ l[k].offset \in Nat
                                 /\ l[k].offset <= n * ChunkSize
                                 /\ UntilOf(l, k, n) \in Nat
                                 /\ UntilOf(l, k, n) <= n * ChunkSize
<1>1. Len(l) \in Nat /\ n * ChunkSize \in Nat
  BY ChunkOrder
<1>2. ASSUME NEW k \in 1..Len(l)
      PROVE  l[k] \in Region /\ l[k].offset \in Nat /\ l[k].offset <= n * ChunkSize
  <2>1. l[k] \in Region /\ EndOf(l[k]) <= n * ChunkSize
    BY DEF Ordered
  <2> QED BY <1>1, <2>1 DEF Region, EndOf
<1>3. ASSUME NEW k \in 1..Len(l)
      PROVE  UntilOf(l, k, n) \in Nat /\ UntilOf(l, k, n) <= n * ChunkSize
  <2>1. k # Len(l) => k + 1 \in 1..Len(l)
    BY <1>1
  <2> QED BY <1>1, <1>2, <2>1 DEF UntilOf
<1> QED BY <1>1, <1>2, <1>3

LEMMA MergedSkip ==
  ASSUME NEW l \in Seq(Region), NEW n \in Nat, Ordered(l, n * ChunkSize),
         Merged(l, n), ~Classified(n + 1)
  PROVE  Merged(l, n + 1)
<1>1. ASSUME NEW k \in 1..Len(l)
      PROVE  RunOf(l[k].offset, UntilOf(l, k, n + 1), n + 1) = RunOf(l[k].offset, UntilOf(l, k, n), n)
  BY RunEnds, RunStep DEF UntilOf
<1>2. RunOf(0, (n + 1) * ChunkSize, n + 1) = RunOf(0, n * ChunkSize, n)
  BY RunStep, ChunkOrder
<1> QED BY <1>1, <1>2 DEF Merged

\* A region that grows by a chunk keeps its start and its type.
LEMMA GrownIsRegion ==
  ASSUME NEW r \in Region
  PROVE  LET g == [r EXCEPT !.size = @ + ChunkSize]
         IN  /\ r.offset \in Nat /\ r.size \in Nat
             /\ g.offset = r.offset /\ g.type = r.type /\ g.size = r.size + ChunkSize
             /\ g \in Region
<1> DEFINE g == [r EXCEPT !.size = @ + ChunkSize]
<1>1. r.offset \in Nat /\ r.size \in Nat \ {0} /\ r.type \in RegionType
  BY DEF Region
<1>2. r = [offset |-> r.offset, size |-> r.size, type |-> r.type]
  BY DEF Region
<1>3. g = [offset |-> r.offset, size |-> r.size + ChunkSize, type |-> r.type]
  BY <1>2
<1>4. r.size + ChunkSize \in Nat \ {0}
  BY <1>1, ChunkAssumption
<1> HIDE DEF g
<1>5. /\ g.offset = r.offset /\ g.type = r.type /\ g.size = r.size + ChunkSize
      /\ g \in Region
  BY <1>1, <1>3, <1>4 DEF Region
<1> QED BY <1>1, <1>5 DEF g

LEMMA MergedGrow ==
  ASSUME NEW l \in Seq(Region), NEW r \in Region, NEW n \in Nat,
         Ordered(Append(l, r), n * ChunkSize), Merged(Append(l, r), n),
         Classified(n + 1), r.type = Classify(entropy[n + 1])
  PROVE  Merged(Append(l, [r EXCEPT !.size = @ + ChunkSize]), n + 1)
<1> DEFINE g   == [r EXCEPT !.size = @ + ChunkSize]
           old == Append(l, r)
           new == Append(l, g)
           m   == Len(l) + 1
<1>1. /\ r.offset \in Nat /\ r.size \in Nat
      /\ g.offset = r.offset /\ g.type = r.type /\ g.size = r.size + ChunkSize
      /\ g \in Region
  BY GrownIsRegion
<1>2. /\ old \in Seq(Region) /\ new \in Seq(Region) /\ m \in Nat
      /\ Len(old) = m /\ Len(new) = m /\ old[m] = r /\ new[m] = g
      /\ \A k \in 1..m : k # m => old[k] = new[k]
      /\ new # <<>>
  BY <1>1
<1> HIDE DEF g, old, new, m
<1>3. Ordered(old, n * ChunkSize) /\ Merged(old, n)
  BY DEF old
<1>4. \A k \in 1..m : new[k].offset = old[k].offset /\ new[k].type = old[k].type
  BY <1>1, <1>2
<1>5. ASSUME NEW k \in 1..m, k # m
      PROVE  /\ RunOf(new[k].offset, UntilOf(new, k, n + 1), n + 1)
                  = RunOf(old[k].offset, UntilOf(old, k, n), n)
             /\ new[k].size = old[k].size
  <2>1. k + 1 \in 1..m
    BY <1>2, <1>5
  <2>2. /\ UntilOf(old, k, n) = old[k + 1].offset
        /\ UntilOf(new, k, n + 1) = new[k + 1].offset
    BY <1>2, <1>5 DEF UntilOf
  <2>3. UntilOf(new, k, n + 1) = UntilOf(old, k, n) /\ new[k].offset = old[k].offset
    BY <1>4, <2>1, <2>2
  <2>4. /\ UntilOf(old, k, n) \in Nat /\ UntilOf(old, k, n) <= n * ChunkSize
        /\ old[k].offset \in Nat /\ old[k].offset <= n * ChunkSize
    BY <1>2, <1>3, RunEnds
  <2> QED BY <1>2, <1>5, <2>3, <2>4, RunStep
<1>6. /\ RunOf(new[m].offset, UntilOf(new, m, n + 1), n + 1)
           = RunOf(old[m].offset, UntilOf(old, m, n), n) \cup {n + 1}
      /\ n + 1 \notin RunOf(old[m].offset, UntilOf(old, m, n), n)
  <2>1. UntilOf(old, m, n) = n * ChunkSize /\ UntilOf(new, m, n + 1) = (n + 1) * ChunkSize
    BY <1>2 DEF UntilOf
  <2>2. m \in 1..m /\ old[m].offset \in Nat /\ old[m].offset <= n * ChunkSize
    BY <1>2, <1>3, RunEnds
  <2>3. new[m].offset = old[m].offset
    BY <1>4, <2>2
  <2> QED BY <2>1, <2>2, <2>3, RunStep
<1>7. /\ r.size = ChunkSize * Cardinality(RunOf(old[m].offset, UntilOf(old, m, n), n))
      /\ \A c \in RunOf(old[m].offset, UntilOf(old, m, n), n) : Classify(entropy[c]) = r.type
      /\ m \in 1..m
  BY <1>2, <1>3 DEF Merged
<1>8. new[m].size = ChunkSize * Cardinality(RunOf(new[m].offset, UntilOf(new, m, n + 1), n + 1))
  <2> DEFINE run == RunOf(old[m].offset, UntilOf(old, m, n), n)
  <2>1. IsFiniteSet(run) /\ Cardinality(run) \in Nat
    BY RunFinite
  <2> HIDE DEF run
  <2>2. Cardinality(run \cup {n + 1}) = Cardinality(run) + 1
    BY <1>6, <2>1, FS_AddElement DEF run
  <2>3. ChunkSize * (Cardinality(run) + 1) = ChunkSize * Cardinality(run) + ChunkSize
    BY <2>1, ChunkAssumption
  <2>4. new[m].size = ChunkSize * (Cardinality(run) + 1)
    BY <1>1, <1>2, <1>7, <2>3 DEF run
  <2> QED BY <1>6, <2>2, <2>4 DEF run
<1>9. ASSUME NEW k \in 1..m
      PROVE  /\ \A c \in RunOf(new[k].offset, UntilOf(new, k, n + 1), n + 1) :
                  Classify(entropy[c]) = new[k].type
             /\ new[k].size = ChunkSize * Cardinality(RunOf(new[k].offset, UntilOf(new, k, n + 1), n + 1))
  <2>1. CASE k # m
    BY <1>2, <1>3, <1>4, <1>5, <2>1 DEF Merged
  <2>2. CASE k = m
    BY <1>1, <1>2, <1>6, <1>7, <1>8, <2>2
  <2> QED BY <2>1, <2>2
<1>10. ASSUME NEW k \in 1..m, k # 1 PROVE new[k].type # new[k - 1].type
  <2>1. k - 1 \in 1..m
    BY <1>2, <1>10
  <2> QED BY <1>2, <1>3, <1>4, <1>10, <2>1 DEF Merged
<1> QED BY <1>2, <1>9, <1>10 DEF Merged, new, g

LEMMA MergedOpen ==
  ASSUME NEW l \in Seq(Region), NEW r \in Region, NEW n \in Nat,
         Ordered(l, n * ChunkSize), Merged(l, n), Classified(n + 1),
         r = [offset |-> n * ChunkSize, size |-> ChunkSize, type |-> Classify(entropy[n + 1])],
         l # <<>> => l[Len(l)].type # r.type
  PROVE  Merged(Append(l, r), n + 1)
<1> DEFINE new == Append(l, r)
           m   == Len(l) + 1
<1>1. /\ new \in Seq(Region) /\ m \in Nat /\ Len(new) = m /\ new[m] = r /\ m \in 1..m
      /\ \A k \in 1..m : k # m => k \in 1..Len(l) /\ new[k] = l[k]
      /\ Len(l) \in Nat /\ new # <<>>
  <2>1. Len(l) \in Nat /\ new \in Seq(Region) /\ Len(new) = m /\ new[m] = r
    OBVIOUS
  <2>2. \A k \in 1..Len(l) : new[k] = l[k]
    OBVIOUS
  <2>3. \A k \in 1..m : k # m => k \in 1..Len(l)
    BY <2>1
  <2> HIDE DEF new
  <2> QED BY <2>1, <2>2, <2>3
<1>2. /\ r.offset = n * ChunkSize /\ r.size = ChunkSize /\ r.type = Classify(entropy[n + 1])
      /\ n * ChunkSize \in Nat /\ ChunkSize \in Nat
  BY ChunkOrder, ChunkAssumption
<1>3. RunOf(new[m].offset, UntilOf(new, m, n + 1), n + 1) = {n + 1}
  <2>1. UntilOf(new, m, n + 1) = (n + 1) * ChunkSize /\ new[m].offset = n * ChunkSize
    BY <1>1, <1>2 DEF UntilOf
  <2>2. RunOf(n * ChunkSize, n * ChunkSize, n) = {}
    <3>1. \A c \in 1..n : (c - 1) * ChunkSize \in Nat
      <4>1. \A c \in 1..n : c - 1 \in Nat
        OBVIOUS
      <4> QED BY <4>1, ChunkOrder
    <3>2. \A x \in Nat : ~(x >= n * ChunkSize /\ x < n * ChunkSize)
      BY <1>2
    <3> QED BY <3>1, <3>2, Zenon DEF RunOf
  <2>3. RunOf(n * ChunkSize, (n + 1) * ChunkSize, n + 1) = {n + 1}
    <3>1. n * ChunkSize <= n * ChunkSize
      BY <1>2
    <3>2. RunOf(n * ChunkSize, (n + 1) * ChunkSize, n + 1)
            = RunOf(n * ChunkSize, n * ChunkSize, n) \cup {n + 1}
      BY <1>2, <3>1, RunStep, Zenon
    <3>3. {} \cup {n + 1} = {n + 1}
      OBVIOUS
    <3> QED BY <2>2, <3>2, <3>3, Zenon
  <2> QED BY <2>1, <2>3
<1> HIDE DEF new, m
<1>4. ASSUME NEW k \in 1..m, k # m
      PROVE  RunOf(new[k].offset, UntilOf(new, k, n + 1), n + 1)
               = RunOf(l[k].offset, UntilOf(l, k, n), n)
  <2>1. UntilOf(new, k, n + 1) = UntilOf(l, k, n)
    <3>1. CASE k = Len(l)
      BY <1>1, <1>2, <1>4, <3>1 DEF UntilOf, m
    <3>2. CASE k # Len(l)
      <4>1. k + 1 \in 1..m /\ k + 1 # m
        BY <1>1, <1>4, <3>2 DEF m
      <4> QED BY <1>1, <1>4, <3>2, <4>1 DEF UntilOf
    <3> QED BY <3>1, <3>2
  <2>2. /\ UntilOf(l, k, n) \in Nat /\ UntilOf(l, k, n) <= n * ChunkSize
        /\ l[k].offset \in Nat /\ l[k].offset <= n * ChunkSize
    BY <1>1, <1>4, RunEnds
  <2> QED BY <1>1, <1>4, <2>1, <2>2, RunStep
<1>5. ASSUME NEW k \in 1..m
      PROVE  /\ \A c \in RunOf(new[k].offset, UntilOf(new, k, n + 1), n + 1) :
                  Classify(entropy[c]) = new[k].type
             /\ new[k].size = ChunkSize * Cardinality(RunOf(new[k].offset, UntilOf(new, k, n + 1), n + 1))
  <2>1. CASE k # m
    BY <1>1, <1>4, <2>1 DEF Merged
  <2>2. CASE k = m
    <3>1. Cardinality({n + 1}) = 1
      BY FS_Singleton
    <3>2. new[m].size = ChunkSize * 1 /\ new[m].type = Classify(entropy[n + 1])
      BY <1>1, <1>2
    <3> QED BY <1>3, <2>2, <3>1, <3>2
  <2> QED BY <2>1, <2>2
<1>6. ASSUME NEW k \in 1..m, k # 1 PROVE new[k].type # new[k - 1].type
  <2>1. k - 1 \in 1..Len(l) /\ new[k - 1] = l[k - 1]
    BY <1>1, <1>6 DEF m
  <2>2. CASE k # m
    BY <1>1, <1>6, <2>1, <2>2 DEF Merged
  <2>3. CASE k = m
    <3>1. k - 1 = Len(l) /\ l # <<>>
      BY <1>1, <2>1, <2>3 DEF m
    <3> QED BY <1>1, <2>1, <2>3, <3>1
  <2> QED BY <2>2, <2>3
<1> QED BY <1>1, <1>5, <1>6 DEF Merged, new

\* On a map without gaps every scanned byte is covered, by a region of the
\* type of its chunk.
Exact(l, n) ==
  /\ \A x \in 0..n * ChunkSize - 1 : \E k \in 1..Len(l) : Covers(l[k], x)
  /\ \A x \in 0..n * ChunkSize - 1 : \A k \in 1..Len(l) :
       Covers(l[k], x) => l[k].type = Classify(entropy[x \div ChunkSize + 1])
  /\ l # <<>> => EndOf(l[Len(l)]) = n * ChunkSize

NoGaps == \A c \in DOMAIN entropy : Classified(c)

EInv == IInv /\ Phase /\ (NoGaps => Exact(Found, next))

\* The bytes of one more chunk.
LEMMA ChunkBytes ==
  ASSUME NEW n \in Nat, NEW x \in 0..(n + 1) * ChunkSize - 1
  PROVE  IF x < n * ChunkSize THEN x \in 0..n * ChunkSize - 1
         ELSE x \div ChunkSize = n /\ n * ChunkSize <= x /\ x < n * ChunkSize + ChunkSize
<1>1. n * ChunkSize \in Nat /\ (n + 1) * ChunkSize = n * ChunkSize + ChunkSize
  BY ChunkStep, ChunkAssumption
<1>2. ASSUME x >= n * ChunkSize PROVE x \div ChunkSize = n
  <2>1. x - n * ChunkSize \in 0..ChunkSize - 1
    BY <1>1, <1>2, ChunkAssumption
  <2>2. x = n * ChunkSize + (x - n * ChunkSize)
    BY <1>1
  <2> QED BY <2>1, <2>2, WholeChunks, ChunkAssumption
<1> QED BY <1>1, <1>2, ChunkAssumption

\* A chunk joins the last region, grown or new, that then covers it.
LEMMA ExactStep ==
  ASSUME NEW l \in Seq(Region), NEW new \in Seq(Region), NEW n \in Nat,
         Exact(l, n), Ordered(l, n * ChunkSize), new # <<>>,
         EndOf(new[Len(new)]) = (n + 1) * ChunkSize,
         new[Len(new)].offset <= n * ChunkSize,
         new[Len(new)].type = Classify(entropy[n + 1]),
         \A k \in 1..Len(new) : \A x \in 0..n * ChunkSize - 1 :
           Covers(new[k], x) <=> k \in 1..Len(l) /\ Covers(l[k], x),
         \A k \in 1..Len(l) : k \in 1..Len(new) /\ new[k].type = l[k].type,
         \A k \in 1..Len(new) : k # Len(new) => k \in 1..Len(l) /\ new[k] = l[k]
  PROVE  Exact(new, n + 1)
<1>1. /\ n * ChunkSize \in Nat /\ (n + 1) * ChunkSize = n * ChunkSize + ChunkSize
      /\ Len(new) \in Nat \ {0} /\ Len(new) \in 1..Len(new)
      /\ \A k \in 1..Len(new) : new[k] \in Region
      /\ \A k \in 1..Len(l) : l[k] \in Region
  BY ChunkStep, ChunkAssumption
<1>2. ASSUME NEW x \in 0..(n + 1) * ChunkSize - 1, x >= n * ChunkSize
      PROVE  /\ Covers(new[Len(new)], x)
             /\ x \div ChunkSize = n
             /\ \A k \in 1..Len(new) : Covers(new[k], x) => k = Len(new)
  <2>1. x \div ChunkSize = n /\ x < n * ChunkSize + ChunkSize /\ x \in Nat
    <3>1. x \in Nat /\ ~(x < n * ChunkSize)
      BY <1>1, <1>2
    <3>2. IF x < n * ChunkSize THEN x \in 0..n * ChunkSize - 1
          ELSE x \div ChunkSize = n /\ n * ChunkSize <= x /\ x < n * ChunkSize + ChunkSize
      BY ChunkBytes
    <3> QED BY <3>1, <3>2
  <2>2. Covers(new[Len(new)], x)
    <3>1. new[Len(new)].offset \in Nat /\ new[Len(new)].size \in Nat
      BY <1>1 DEF Region
    <3>2. EndOf(new[Len(new)]) = n * ChunkSize + ChunkSize
          /\ new[Len(new)].offset <= n * ChunkSize
      BY <1>1
    <3> QED BY <1>1, <1>2, <2>1, <3>1, <3>2 DEF Covers, EndOf
  <2>3. ASSUME NEW k \in 1..Len(new), k # Len(new) PROVE ~Covers(new[k], x)
    <3>1. k \in 1..Len(l) /\ new[k] = l[k] /\ EndOf(l[k]) <= n * ChunkSize
      BY <2>3 DEF Ordered
    <3>2. new[k].offset \in Nat /\ new[k].size \in Nat
      BY <1>1 DEF Region
    <3> QED BY <1>1, <1>2, <2>1, <3>1, <3>2 DEF Covers, EndOf
  <2> QED BY <2>1, <2>2, <2>3
<1>3. ASSUME NEW x \in 0..(n + 1) * ChunkSize - 1
      PROVE  /\ \E k \in 1..Len(new) : Covers(new[k], x)
             /\ \A k \in 1..Len(new) :
                  Covers(new[k], x) => new[k].type = Classify(entropy[x \div ChunkSize + 1])
  <2>1. CASE x >= n * ChunkSize
    BY <1>1, <1>2, <2>1
  <2>2. CASE x < n * ChunkSize
    <3>1. x \in 0..n * ChunkSize - 1
      BY <1>1, <2>2
    <3>2. PICK j \in 1..Len(l) : Covers(l[j], x)
      BY <3>1 DEF Exact
    <3>3. j \in 1..Len(new) /\ Covers(new[j], x)
      BY <3>1, <3>2
    <3>4. ASSUME NEW k \in 1..Len(new), Covers(new[k], x)
          PROVE  new[k].type = Classify(entropy[x \div ChunkSize + 1])
      <4>1. k \in 1..Len(l) /\ Covers(l[k], x)
        BY <3>1, <3>4
      <4>2. l[k].type = Classify(entropy[x \div ChunkSize + 1])
        BY <3>1, <4>1 DEF Exact
      <4> QED BY <4>1, <4>2
    <3> QED BY <3>3, <3>4
  <2>3. x \in Nat
    BY <1>1, ChunkAssumption
  <2> QED BY <1>1, <2>1, <2>2, <2>3
<1> QED BY <1>3 DEF Exact

LEMMA GrownEnds ==
  ASSUME NEW r \in Region, NEW g, NEW z, EndOf(r) = z,
         g.offset = r.offset, g.size = r.size + ChunkSize
  PROVE  EndOf(g) = z + ChunkSize /\ g.offset <= z
<1>1. r.offset \in Nat /\ r.size \in Nat /\ ChunkSize \in Nat
  BY ChunkAssumption DEF Region
<1> QED BY <1>1 DEF EndOf

LEMMA ExactGrow ==
  ASSUME NEW l \in Seq(Region), NEW r \in Region, NEW n \in Nat,
         Ordered(Append(l, r), n * ChunkSize), Exact(Append(l, r), n),
         r.type = Classify(entropy[n + 1])
  PROVE  Exact(Append(l, [r EXCEPT !.size = @ + ChunkSize]), n + 1)
<1> DEFINE g   == [r EXCEPT !.size = @ + ChunkSize]
           old == Append(l, r)
           new == Append(l, g)
           m   == Len(l) + 1
<1>1. /\ r.offset \in Nat /\ r.size \in Nat
      /\ g.offset = r.offset /\ g.type = r.type /\ g.size = r.size + ChunkSize
      /\ g \in Region
  BY GrownIsRegion
<1>2. /\ old \in Seq(Region) /\ new \in Seq(Region) /\ m \in Nat
      /\ Len(old) = m /\ Len(new) = m /\ old[m] = r /\ new[m] = g /\ m \in 1..m
      /\ \A k \in 1..m : k # m => old[k] = new[k]
      /\ new # <<>> /\ old # <<>>
  BY <1>1
<1> HIDE DEF g, old, new, m
<1>3. Ordered(old, n * ChunkSize) /\ Exact(old, n)
  BY DEF old
<1>4. EndOf(r) = n * ChunkSize /\ n * ChunkSize \in Nat
      /\ (n + 1) * ChunkSize = n * ChunkSize + ChunkSize
  <2>1. EndOf(old[Len(old)]) = n * ChunkSize
    BY <1>2, <1>3, Zenon DEF Exact
  <2>2. EndOf(r) = n * ChunkSize
    BY <1>2, <2>1, Zenon
  <2> QED BY <2>2, ChunkStep, ChunkAssumption
<1>5. EndOf(g) = (n + 1) * ChunkSize /\ g.offset <= n * ChunkSize
  <2>1. EndOf(g) = n * ChunkSize + ChunkSize /\ g.offset <= n * ChunkSize
    BY <1>1, <1>4, GrownEnds, Zenon
  <2> QED BY <1>4, <2>1, Zenon
<1>6. ASSUME NEW k \in 1..m, NEW x \in 0..n * ChunkSize - 1
      PROVE  Covers(new[k], x) <=> k \in 1..m /\ Covers(old[k], x)
  <2>1. CASE k = m
    <3>1. x \in Nat /\ x < n * ChunkSize
      BY <1>4
    <3>2. Covers(g, x) <=> x >= r.offset
      BY <1>1, <1>4, <3>1, ChunkAssumption DEF Covers, EndOf
    <3>3. Covers(r, x) <=> x >= r.offset
      BY <1>1, <1>4, <3>1 DEF Covers, EndOf
    <3> QED BY <1>2, <2>1, <3>2, <3>3
  <2> QED BY <1>2, <2>1
<1>7. \A k \in 1..m : new[k].type = old[k].type
  BY <1>1, <1>2
<1>8. new[m].type = Classify(entropy[n + 1])
  BY <1>1, <1>2
<1> QED BY <1>2, <1>3, <1>5, <1>6, <1>7, <1>8, ExactStep DEF g, new

LEMMA ExactOpen ==
  ASSUME NEW l \in Seq(Region), NEW r \in Region, NEW n \in Nat,
         Ordered(l, n * ChunkSize), Exact(l, n),
         r.offset = n * ChunkSize, EndOf(r) = (n + 1) * ChunkSize,
         r.type = Classify(entropy[n + 1])
  PROVE  Exact(Append(l, r), n + 1)
<1> DEFINE new == Append(l, r)
           m   == Len(l) + 1
<1>1. /\ new \in Seq(Region) /\ Len(l) \in Nat
      /\ Len(new) = m /\ new[m] = r /\ new # <<>>
  OBVIOUS
<1>2. \A k \in 1..Len(l) : k \in 1..m /\ k # m /\ new[k] = l[k]
  OBVIOUS
<1>3. \A k \in 1..m : k # m => k \in 1..Len(l)
  BY <1>1
<1> HIDE DEF new
<1>4. n * ChunkSize \in Nat
  BY ChunkOrder
<1>5. ASSUME NEW k \in 1..m, NEW x \in 0..n * ChunkSize - 1
      PROVE  Covers(new[k], x) <=> k \in 1..Len(l) /\ Covers(l[k], x)
  <2>1. CASE k = m
    <3>1. ~Covers(r, x)
      BY <1>4 DEF Covers
    <3> QED BY <1>1, <1>2, <2>1, <3>1
  <2> QED BY <1>2, <1>3, <2>1
<1>6. n * ChunkSize <= n * ChunkSize
  BY <1>4
<1>7. \A k \in 1..Len(l) : k \in 1..m /\ new[k].type = l[k].type
  BY <1>2
<1>8. \A k \in 1..m : k # m => k \in 1..Len(l) /\ new[k] = l[k]
  BY <1>2, <1>3
<1> HIDE DEF m
<1> QED BY <1>1, <1>5, <1>6, <1>7, <1>8, ExactStep DEF new

LEMMA InitMInv == Init => MInv /\ EInv
<1> SUFFICES ASSUME Init PROVE MInv /\ EInv
  OBVIOUS
<1>1. IInv /\ Found = <<>> /\ next = 0 /\ ~done /\ regions = <<>>
  BY InitIInv DEF Init, Found
<1>2. Merged(<<>>, 0) /\ Exact(<<>>, 0)
  <2>1. Len(<<>>) = 0 /\ 0 * ChunkSize = 0
    BY ChunkAssumption
  <2> QED BY <2>1 DEF Merged, Exact, RunOf
<1> QED BY <1>1, <1>2 DEF MInv, EInv, Phase

\* One case per action; the list of regions found grows with the chunks read.
LEMMA NextMInv == MInv /\ EInv /\ [Next]_vars => (MInv /\ EInv)'
<1> SUFFICES ASSUME MInv, EInv, [Next]_vars PROVE (MInv /\ EInv)'
  OBVIOUS
<1>1. /\ IInv' /\ TypeOK' /\ TypeOK /\ IInv /\ ImageInv
      /\ Phase /\ Merged(Found, next) /\ (NoGaps => Exact(Found, next))
      /\ Ordered(Found, next * ChunkSize)
      /\ regions \in Seq(Region) /\ Found \in Seq(Region) /\ next \in Nat
  BY NextIInv, FoundTypes DEF MInv, EInv, IInv, TypeOK
<1>2. ASSUME entropy' = entropy, Merged(Found', next'), Phase', NoGaps => Exact(Found', next')
      PROVE  (MInv /\ EInv)'
  <2>1. Merged(Found, next)' /\ (NoGaps' => NoGaps) /\ (Exact(Found', next') => Exact(Found, next)')
    <3>1. Merged(Found, next)'
      <4>1. \A from, to, n : RunOf(from, to, n)' = RunOf(from, to, n)
        BY <1>2 DEF RunOf, Classified
      <4> QED BY <1>2, <4>1 DEF Merged, UntilOf
    <3>2. NoGaps' => NoGaps
      BY <1>2 DEF NoGaps, Classified
    <3>3. Exact(Found', next') => Exact(Found, next)'
      BY <1>2 DEF Exact
    <3> QED BY <3>1, <3>2, <3>3
  <2> QED BY <1>1, <1>2, <2>1 DEF MInv, EInv
<1>3. CASE SkipChunk
  <2>1. /\ next' = next + 1 /\ UNCHANGED <<entropy, length, current, regions, done>>
        /\ ~Classified(next + 1) /\ ~done /\ next + 1 \in DOMAIN entropy
    BY <1>1, <1>3 DEF SkipChunk, AtChunk, ImageInv
  <2>2. Found' = Found
    BY <2>1 DEF Found
  <2>3. Merged(Found, next + 1)
    BY <1>1, <2>1, MergedSkip
  <2>4. Phase' /\ ~NoGaps
    BY <1>1, <2>1 DEF Phase, NoGaps
  <2> QED BY <1>2, <2>1, <2>2, <2>3, <2>4
<1>4. CASE OpenRegion \/ SwitchRegion
  <2>1. /\ next' = next + 1 /\ UNCHANGED <<entropy, length, done>>
        /\ AtChunk /\ Classified(next + 1) /\ current' = Opened
    BY <1>4 DEF OpenRegion, SwitchRegion
  <2>2. /\ Opened \in Region /\ Opened # None /\ ~done
        /\ Opened.offset = next * ChunkSize /\ EndOf(Opened) = (next + 1) * ChunkSize
        /\ Opened.type = Classify(entropy[next + 1])
        /\ Opened = [offset |-> next * ChunkSize, size |-> ChunkSize,
                     type |-> Classify(entropy[next + 1])]
    BY <1>1, <2>1, OpenedIsRegion, RegionIsNotNone DEF Opened, AtChunk
  <2>3. Found' = Append(Found, Opened) /\ (Found # <<>> => Found[Len(Found)].type # Opened.type)
    <3>1. CASE OpenRegion
      <4>1. Found = <<>> /\ regions' = regions /\ regions = <<>>
        BY <1>1, <2>2, <3>1 DEF OpenRegion, Phase, Found
      <4> QED BY <2>1, <2>2, <4>1 DEF Found
    <3>2. CASE SwitchRegion
      <4>1. /\ current # None /\ regions' = Append(regions, current)
            /\ current.type # Opened.type
        BY <2>2, <3>2 DEF SwitchRegion
      <4>2. Found = Append(regions, current) /\ Found' = Append(Found, Opened)
        BY <2>1, <2>2, <4>1 DEF Found
      <4>3. Found[Len(Found)] = current
        BY <1>1, <4>2
      <4> QED BY <4>1, <4>2, <4>3
    <3> QED BY <1>4, <3>1, <3>2
  <2>4. Merged(Append(Found, Opened), next + 1)
    BY <1>1, <2>1, <2>2, <2>3, MergedOpen
  <2>5. NoGaps => Exact(Append(Found, Opened), next + 1)
    BY <1>1, <2>2, ExactOpen
  <2>6. Phase'
    BY <2>1, <2>2 DEF Phase
  <2> QED BY <1>2, <2>1, <2>3, <2>4, <2>5, <2>6
<1>5. CASE ExtendRegion
  <2> DEFINE grown == [current EXCEPT !.size = @ + ChunkSize]
  <2>1. /\ next' = next + 1 /\ UNCHANGED <<entropy, length, regions, done>>
        /\ current' = grown /\ Classified(next + 1)
        /\ current.type = Classify(entropy[next + 1]) /\ ~done
    BY <1>5 DEF ExtendRegion, AtChunk
  <2>2. current # None /\ current \in Region /\ Found = Append(regions, current)
    BY <1>1, <2>1 DEF Classified, None, TypeOK, Found
  <2>3. grown # None /\ Found' = Append(regions, grown)
    <3>1. grown.size = current.size + ChunkSize /\ current.size \in Nat \ {0}
      BY <2>2 DEF Region
    <3>2. grown.size # 0
      BY <3>1, ChunkAssumption
    <3> HIDE DEF grown
    <3>3. grown # None
      BY <3>2 DEF None
    <3> QED BY <2>1, <3>3 DEF Found
  <2>4. Merged(Append(regions, grown), next + 1)
    BY <1>1, <2>1, <2>2, MergedGrow
  <2>5. NoGaps => Exact(Append(regions, grown), next + 1)
    BY <1>1, <2>1, <2>2, ExactGrow
  <2>6. Phase'
    BY <2>1, <2>3 DEF Phase
  <2> HIDE DEF grown
  <2> QED BY <1>2, <2>1, <2>3, <2>4, <2>5, <2>6
<1>6. CASE Finish
  <2>1. /\ UNCHANGED <<entropy, length, next>> /\ regions' = Found /\ current' = None
        /\ done' = TRUE /\ next = NbSections /\ NbSections' = NbSections
    BY <1>6 DEF Finish, Found, NbSections
  <2>2. Found' = Found /\ Phase'
    BY <2>1 DEF Found, Phase
  <2>3. entropy' = entropy /\ Merged(Found', next') /\ (NoGaps => Exact(Found', next'))
    <3>1. entropy' = entropy /\ next' = next
      BY <2>1, Zenon
    <3> QED BY <1>1, <2>2, <3>1, Zenon
  <2> QED BY <1>2, <2>2, <2>3, Zenon
<1>7. CASE Terminated \/ UNCHANGED vars
  <2>1. UNCHANGED <<entropy, length, next, current, regions, done>>
    BY <1>7 DEF Terminated, vars
  <2>2. Found' = Found /\ Phase'
    BY <1>1, <2>1 DEF Found, Phase, NbSections
  <2>3. entropy' = entropy /\ Merged(Found', next') /\ (NoGaps => Exact(Found', next'))
    <3>1. entropy' = entropy /\ next' = next
      BY <2>1, Zenon
    <3> QED BY <1>1, <2>2, <3>1, Zenon
  <2> QED BY <1>2, <2>2, <2>3, Zenon
<1> QED BY <1>3, <1>4, <1>5, <1>6, <1>7 DEF Next

LEMMA MInvImpliesRunsMerged == MInv => RunsMerged
<1> SUFFICES ASSUME MInv PROVE RunsMerged
  OBVIOUS
<1>1. Found \in Seq(Region) /\ DOMAIN Found = 1..Len(Found) /\ next \in Nat
  BY FoundTypes DEF MInv, IInv, TypeOK
<1>2. \A from, to : ChunksBetween(from, to) = RunOf(from, to, next)
  BY DEF ChunksBetween, RunOf
<1>3. Merged(Found, next)
  BY DEF MInv
<1> QED BY <1>1, <1>2, <1>3 DEF RunsMerged, Merged, UntilOf

\* get_type takes the first of the regions that cover an offset.
LEMMA GetTypeFirst ==
  ASSUME NEW l \in Seq(Region), NEW x
  PROVE  /\ (\A k \in 1..Len(l) : ~Covers(l[k], x)) => GetType(l, x) = Unknown
         /\ (\E k \in 1..Len(l) : Covers(l[k], x)) =>
              \E k \in 1..Len(l) : Covers(l[k], x) /\ GetType(l, x) = l[k].type
<1> DEFINE hits == {k \in DOMAIN l : Covers(l[k], x)}
<1>1. DOMAIN l = 1..Len(l) /\ hits \subseteq Nat
  OBVIOUS
<1>2. ASSUME hits # {}
      PROVE  \E k \in 1..Len(l) : Covers(l[k], x) /\ GetType(l, x) = l[k].type
  <2>1. PICK first \in hits : \A k \in hits : ~(<<k, first>> \in OpToRel(<, Nat))
    BY <1>1, <1>2, WFMin, NatLessThanWellFounded
  <2>2. \A k \in hits : first <= k
    <3>1. \A k \in hits : k \in Nat /\ ~(<<k, first>> \in OpToRel(<, Nat))
      BY <1>1, <2>1
    <3>2. first \in Nat
      BY <1>1
    <3> HIDE DEF hits
    <3>3. \A k \in hits : ~(k < first)
      BY <3>1, <3>2 DEF OpToRel
    <3>4. ASSUME NEW k \in hits PROVE first <= k
      <4>1. k \in Nat /\ ~(k < first)
        BY <3>1, <3>3
      <4> QED BY <3>2, <4>1
    <3> QED BY <3>4
  <2> DEFINE least == CHOOSE k \in hits : \A m \in hits : k <= m
  <2>3. least \in hits
    BY <2>2
  <2>4. GetType(l, x) = l[least].type
    BY <1>2 DEF GetType
  <2> QED BY <1>1, <2>3, <2>4
<1>3. hits = {} => GetType(l, x) = Unknown
  BY DEF GetType
<1> QED BY <1>1, <1>2, <1>3

LEMMA EInvImpliesExact == EInv => ExactWithoutGaps
<1> SUFFICES ASSUME EInv, done, NoGaps, NEW offset \in 0..length
             PROVE  GetType(regions, offset) =
                      IF offset < NbSections * ChunkSize
                        THEN Classify(entropy[offset \div ChunkSize + 1]) ELSE Unknown
  BY DEF ExactWithoutGaps, NoGaps
<1>1. /\ Found = regions /\ regions \in Seq(Region) /\ next = NbSections /\ next \in Nat
      /\ Exact(regions, next) /\ Ordered(regions, next * ChunkSize)
  BY DEF EInv, Phase, Found, IInv, TypeOK
<1>2. next * ChunkSize \in Nat
  BY <1>1, ChunkOrder
<1>3. CASE offset < NbSections * ChunkSize
  <2>1. offset \in 0..next * ChunkSize - 1
    BY <1>1, <1>2, <1>3
  <2>2. PICK k \in 1..Len(regions) :
             Covers(regions[k], offset) /\ GetType(regions, offset) = regions[k].type
    BY <1>1, <2>1, GetTypeFirst DEF Exact
  <2>3. regions[k].type = Classify(entropy[offset \div ChunkSize + 1])
    BY <1>1, <2>1, <2>2 DEF Exact
  <2> QED BY <1>3, <2>2, <2>3
<1>4. CASE ~(offset < NbSections * ChunkSize)
  <2>1. ASSUME NEW k \in 1..Len(regions) PROVE ~Covers(regions[k], offset)
    <3>1. regions[k] \in Region /\ EndOf(regions[k]) <= next * ChunkSize
      BY <1>1 DEF Ordered
    <3>2. regions[k].offset \in Nat /\ regions[k].size \in Nat /\ offset \in Int
      BY <3>1 DEF Region
    <3> QED BY <1>1, <1>2, <1>4, <3>1, <3>2 DEF Covers, EndOf
  <2>2. GetType(regions, offset) = Unknown
    BY <1>1, <2>1, GetTypeFirst
  <2> QED BY <1>4, <2>2
<1> QED BY <1>3, <1>4

LEMMA RegionsInvariance == Spec => [](MInv /\ EInv)
<1>1. Init => MInv /\ EInv
  BY InitMInv
<1>2. MInv /\ EInv /\ [Next]_vars => (MInv /\ EInv)'
  BY NextMInv
<1> QED BY <1>1, <1>2, PTL DEF Spec

\* MemoryMap::analyze merges, for every image: a region is one run of chunks of
\* one type, sized by how many classified chunks the run has, and neighbouring
\* regions differ in type, however many unclassified chunks lie in between.
THEOREM RunsAreMerged == Spec => []RunsMerged
<1>1. MInv => RunsMerged
  BY MInvImpliesRunsMerged
<1> QED BY <1>1, RegionsInvariance, PTL

\* get_type after analyze tells, for every offset of an image without
\* unclassified chunks, the type of the chunk it lies in, and nothing behind
\* the last whole chunk.
THEOREM MapIsExactWithoutGaps == Spec => []ExactWithoutGaps
<1>1. EInv => ExactWithoutGaps
  BY EInvImpliesExact
<1> QED BY <1>1, RegionsInvariance, PTL
=============================================================================
