---------------------------- MODULE AddrTreeProofs ----------------------------
(***************************************************************************)
(* Proofs about the radix tree, for every radix, depth and set of          *)
(* addresses: its shape survives every mix of registrations and filters,   *)
(* node by node it implements the table of votes of VoteCounter, and what  *)
(* is read off it are the contents of that table.                          *)
(***************************************************************************)
EXTENDS AddrTree, TLAPS, FiniteSetTheorems, SequenceTheorems, WellFoundedInduction

-----------------------------------------------------------------------------
\* Prefixes of digit sequences.

Prefix(p, k) == SubSeq(p, 1, k)

LEMMA PrefixFacts ==
  ASSUME NEW p \in Seq(Digit), NEW k \in 0..Len(p)
  PROVE  /\ Prefix(p, k) \in Seq(Digit)
         /\ Len(Prefix(p, k)) = k
         /\ \A i \in 1..k : Prefix(p, k)[i] = p[i]
<1>1. Len(p) \in Nat /\ \A i \in 1..k : p[i] \in Digit
  OBVIOUS
<1>2. /\ SubSeq(p, 1, k) \in Seq(Digit)
      /\ Len(SubSeq(p, 1, k)) = (IF 1 <= k THEN k - 1 + 1 ELSE 0)
      /\ \A i \in 1..k - 1 + 1 : SubSeq(p, 1, k)[i] = p[1 + i - 1]
  BY <1>1, SubSeqProperties
<1>3. k - 1 + 1 = k /\ \A i \in 1..k : 1 + i - 1 = i
  BY <1>1
<1> QED BY <1>1, <1>2, <1>3 DEF Prefix

LEMMA PrefixOfPrefix ==
  ASSUME NEW p \in Seq(Digit), NEW k \in 0..Len(p), NEW j \in 0..k
  PROVE  Prefix(Prefix(p, k), j) = Prefix(p, j)
<1>1. Len(p) \in Nat /\ j \in 0..Len(p)
  OBVIOUS
<1>2. Prefix(p, k) \in Seq(Digit) /\ Len(Prefix(p, k)) = k
  BY PrefixFacts
<1>3. /\ Prefix(Prefix(p, k), j) \in Seq(Digit) /\ Len(Prefix(Prefix(p, k), j)) = j
      /\ Prefix(p, j) \in Seq(Digit) /\ Len(Prefix(p, j)) = j
  BY <1>1, <1>2, PrefixFacts
<1>4. ASSUME NEW i \in 1..j PROVE Prefix(Prefix(p, k), j)[i] = Prefix(p, j)[i]
  <2>1. i \in 1..k
    BY <1>1
  <2> QED BY <1>1, <1>2, <2>1, PrefixFacts
<1> QED BY <1>3, <1>4, SeqEqual

LEMMA PrefixEnds ==
  ASSUME NEW p \in Seq(Digit)
  PROVE  /\ Prefix(p, Len(p)) = p
         /\ Prefix(p, 0) = Root
         /\ p # Root => Len(p) \in Nat \ {0}
         /\ p = Root => Len(p) = 0
<1>1. Prefix(p, Len(p)) = p
  BY SubSeqFull DEF Prefix
<1>2. Prefix(p, 0) = Root
  BY SubSeqEmpty DEF Prefix, Root
<1> QED BY <1>1, <1>2, EmptySeq DEF Root

LEMMA FrontFacts ==
  ASSUME NEW p \in Seq(Digit), p # Root
  PROVE  /\ Len(p) - 1 \in 0..Len(p)
         /\ Front(p) = Prefix(p, Len(p) - 1)
         /\ Front(p) \in Seq(Digit)
         /\ Len(Front(p)) = Len(p) - 1
         /\ p[Len(p)] \in Digit
         /\ Child(Front(p), p[Len(p)]) = p
<1>1. Len(p) \in Nat \ {0} /\ Len(p) - 1 \in 0..Len(p)
  BY PrefixEnds
<1>2. Front(p) = Prefix(p, Len(p) - 1)
  BY DEF Front, Prefix
<1>3. Front(p) \in Seq(Digit) /\ Len(Front(p)) = Len(p) - 1
      /\ \A i \in 1..Len(p) - 1 : Front(p)[i] = p[i]
  <2> DEFINE k == Len(p) - 1
  <2>1. k \in 0..Len(p)
    BY <1>1
  <2> HIDE DEF k
  <2>2. /\ Prefix(p, k) \in Seq(Digit) /\ Len(Prefix(p, k)) = k
        /\ \A i \in 1..k : Prefix(p, k)[i] = p[i]
    BY <2>1, PrefixFacts
  <2> QED BY <1>2, <2>2 DEF k
<1>4. p[Len(p)] \in Digit
  BY <1>1
<1>5. Append(Front(p), p[Len(p)]) = p
  <2> DEFINE q == Append(Front(p), p[Len(p)])
  <2>1. /\ q \in Seq(Digit) /\ Len(q) = Len(Front(p)) + 1
        /\ \A i \in 1..Len(Front(p)) : q[i] = Front(p)[i]
        /\ q[Len(Front(p)) + 1] = p[Len(p)]
    BY <1>3, <1>4, AppendProperties
  <2> HIDE DEF q
  <2>2. Len(q) = Len(p)
    BY <1>1, <1>3, <2>1
  <2>3. ASSUME NEW i \in 1..Len(q) PROVE q[i] = p[i]
    <3>1. CASE i = Len(p)
      BY <1>1, <1>3, <2>1, <3>1
    <3>2. CASE i # Len(p)
      <4>1. i \in 1..Len(p) - 1
        BY <1>1, <2>2, <3>2
      <4> QED BY <1>3, <2>1, <4>1
    <3> QED BY <3>1, <3>2
  <2> QED BY <2>1, <2>2, <2>3, SeqEqual DEF q
<1> QED BY <1>1, <1>2, <1>3, <1>4, <1>5 DEF Child

LEMMA ChildFacts ==
  ASSUME NEW p \in Seq(Digit), NEW d \in Digit
  PROVE  /\ Child(p, d) \in Seq(Digit)
         /\ Len(Child(p, d)) = Len(p) + 1
         /\ Child(p, d) # Root
         /\ Front(Child(p, d)) = p
<1> DEFINE q == Append(p, d)
<1>1. /\ q \in Seq(Digit) /\ Len(q) = Len(p) + 1 /\ q # <<>>
      /\ \A i \in 1..Len(p) : q[i] = p[i]
  BY AppendProperties
<1>2. Len(p) \in Nat
  OBVIOUS
<1> HIDE DEF q
<1>3. Front(q) \in Seq(Digit) /\ Len(Front(q)) = Len(p) /\ Front(q) = Prefix(q, Len(p))
  BY <1>1, <1>2, FrontFacts DEF Root
<1>4. ASSUME NEW i \in 1..Len(Front(q)) PROVE Front(q)[i] = p[i]
  <2>1. Len(p) \in 0..Len(q)
    BY <1>1, <1>2
  <2> QED BY <1>1, <1>3, <2>1, PrefixFacts
<1>5. Front(q) = p
  BY <1>3, <1>4, SeqEqual
<1> QED BY <1>1, <1>5 DEF Child, q, Root

\* Below(a, p): p is a node on the way from the root to a.
Below(a, p) == Len(p) <= Len(a) /\ Prefix(a, Len(p)) = p

LEMMA BelowSelf ==
  ASSUME NEW p \in Seq(Digit)
  PROVE  Below(p, p)
<1>1. Len(p) \in Nat
  OBVIOUS
<1> QED BY <1>1, PrefixEnds DEF Below

\* Between a node and one further below stands a child of the node.
LEMMA BelowChild ==
  ASSUME NEW a \in Seq(Digit), NEW p \in Seq(Digit), Below(a, p), a # p
  PROVE  /\ Len(p) + 1 \in 0..Len(a)
         /\ \E d \in Digit : Child(p, d) = Prefix(a, Len(p) + 1)
         /\ Below(a, Prefix(a, Len(p) + 1))
<1>1. Len(a) \in Nat /\ Len(p) \in Nat /\ Len(p) <= Len(a) /\ Prefix(a, Len(p)) = p
  BY DEF Below
<1>2. Len(p) # Len(a)
  BY <1>1, PrefixEnds
<1>3. Len(p) + 1 \in 0..Len(a) /\ Len(p) \in 0..Len(p) + 1
  BY <1>1, <1>2
<1> DEFINE q == Prefix(a, Len(p) + 1)
<1>4. q \in Seq(Digit) /\ Len(q) = Len(p) + 1 /\ Prefix(q, Len(p)) = p
  BY <1>1, <1>3, PrefixFacts, PrefixOfPrefix
<1> HIDE DEF q
<1>5. q # Root
  BY <1>1, <1>4, PrefixEnds
<1>6. Front(q) = p /\ q[Len(q)] \in Digit /\ Child(Front(q), q[Len(q)]) = q
  <2>1. Len(q) - 1 = Len(p)
    BY <1>1, <1>4
  <2> QED BY <1>4, <1>5, <2>1, FrontFacts
<1>7. Below(a, q)
  BY <1>3, <1>4 DEF Below, q
<1> QED BY <1>3, <1>6, <1>7 DEF q

LEMMA BelowFront ==
  ASSUME NEW a \in Seq(Digit), NEW p \in Seq(Digit), Below(a, p), p # Root
  PROVE  Below(a, Front(p))
<1>1. /\ Len(a) \in Nat /\ Len(p) \in Nat \ {0} /\ Len(p) <= Len(a)
      /\ Prefix(a, Len(p)) = p
  BY PrefixEnds DEF Below
<1>2. Front(p) = Prefix(p, Len(p) - 1) /\ Len(Front(p)) = Len(p) - 1
  BY FrontFacts
<1>3. Len(p) \in 0..Len(a) /\ Len(p) - 1 \in 0..Len(p)
  BY <1>1
<1>4. Prefix(p, Len(p) - 1) = Prefix(a, Len(p) - 1)
  BY <1>1, <1>3, PrefixOfPrefix
<1>5. Len(p) - 1 <= Len(a)
  BY <1>1
<1> QED BY <1>2, <1>4, <1>5 DEF Below

-----------------------------------------------------------------------------
\* The shape of a tree.

Nodes(t) ==
  \A p \in DOMAIN t :
    p \in Seq(Digit) /\ Len(p) <= Depth /\ t[p] \in [votes : 0..MaxVotes, leaf : BOOLEAN]

Branching(t) ==
  /\ Root \in DOMAIN t
  /\ \A p \in DOMAIN t :
       /\ p # Root => Front(p) \in DOMAIN t /\ ~t[Front(p)].leaf
       /\ t[p].leaf <=> Children(t, p) = {}
       /\ t[p].leaf => p = Root \/ Len(p) = Depth

\* A nonempty set of nodes has one farthest from the root.
LEMMA Deepest ==
  ASSUME NEW S, S # {}, \A p \in S : Len(p) \in Nat /\ Len(p) <= Depth
  PROVE  \E p \in S : \A q \in S : Len(q) <= Len(p)
<1> DEFINE T == {Depth - Len(p) : p \in S}
<1>1. \A p \in S : Len(p) \in Nat /\ Depth - Len(p) \in Nat
  BY TreeAssumption
<1>2. T \subseteq Nat /\ T # {}
  BY <1>1
<1>3. PICK x \in T : \A y \in T : ~(<<y, x>> \in OpToRel(<, Nat))
  BY <1>2, WFMin, NatLessThanWellFounded
<1>4. \A y \in T : ~(y < x)
  BY <1>2, <1>3 DEF OpToRel
<1>5. PICK p \in S : x = Depth - Len(p)
  BY <1>3
<1>6. ASSUME NEW q \in S PROVE Len(q) <= Len(p)
  <2>1. ~(Depth - Len(q) < Depth - Len(p))
    BY <1>4, <1>5
  <2> QED BY <1>1, <2>1, TreeAssumption
<1> QED BY <1>6

\* With a node all nodes on the way to it are in the tree.
LEMMA Ancestors ==
  ASSUME NEW t, Nodes(t), Branching(t), NEW a \in DOMAIN t, NEW k \in 0..Len(a)
  PROVE  Prefix(a, k) \in DOMAIN t
<1> SUFFICES ASSUME Prefix(a, k) \notin DOMAIN t PROVE FALSE
  OBVIOUS
<1>1. a \in Seq(Digit) /\ Len(a) \in Nat /\ Len(a) <= Depth
  BY DEF Nodes
<1> DEFINE Missing == {Prefix(a, j) : j \in {i \in 0..Len(a) : Prefix(a, i) \notin DOMAIN t}}
<1>2. Missing # {}
  OBVIOUS
<1>3. \A p \in Missing : Len(p) \in Nat /\ Len(p) <= Depth
  BY <1>1, PrefixFacts, TreeAssumption
<1>4. PICK p \in Missing : \A q \in Missing : Len(q) <= Len(p)
  BY <1>2, <1>3, Deepest
<1>5. PICK j \in 0..Len(a) : p = Prefix(a, j) /\ Prefix(a, j) \notin DOMAIN t
  BY <1>4
<1>6. j # Len(a)
  BY <1>1, <1>5, PrefixEnds
<1>7. j + 1 \in 0..Len(a) /\ j \in 0..j + 1
  BY <1>1, <1>6
<1>8. Prefix(a, j + 1) \in DOMAIN t
  <2>1. Prefix(a, j + 1) \notin DOMAIN t => Prefix(a, j + 1) \in Missing
    BY <1>7
  <2>2. Len(Prefix(a, j + 1)) = j + 1 /\ Len(p) = j
    BY <1>1, <1>5, <1>7, PrefixFacts
  <2> QED BY <1>4, <1>5, <2>1, <2>2
<1>9. Prefix(a, j + 1) # Root /\ Front(Prefix(a, j + 1)) = Prefix(a, j)
  <2>1. Prefix(a, j + 1) \in Seq(Digit) /\ Len(Prefix(a, j + 1)) = j + 1
    BY <1>1, <1>7, PrefixFacts
  <2>2. Prefix(a, j + 1) # Root
    BY <2>1, PrefixEnds
  <2>3. Front(Prefix(a, j + 1)) = Prefix(Prefix(a, j + 1), Len(Prefix(a, j + 1)) - 1)
    BY <2>1, <2>2, FrontFacts
  <2>4. j + 1 - 1 = j
    OBVIOUS
  <2> QED BY <1>1, <1>7, <2>1, <2>2, <2>3, <2>4, PrefixOfPrefix
<1> QED BY <1>5, <1>8, <1>9 DEF Branching

\* A leaf has nothing below it, and a full address is a leaf.
LEMMA LeafEnds ==
  ASSUME NEW t, Nodes(t), Branching(t), NEW a \in DOMAIN t, NEW p \in DOMAIN t,
         Below(a, p), t[p].leaf
  PROVE  a = p
<1> SUFFICES ASSUME a # p PROVE FALSE
  OBVIOUS
<1>1. a \in Seq(Digit) /\ p \in Seq(Digit)
  BY DEF Nodes
<1>2. PICK d \in Digit : Child(p, d) = Prefix(a, Len(p) + 1)
  BY <1>1, BelowChild
<1>3. Child(p, d) \in DOMAIN t
  BY <1>1, <1>2, BelowChild, Ancestors
<1>4. Child(p, d) \in Children(t, p)
  BY <1>3 DEF Children
<1> QED BY <1>4 DEF Branching

LEMMA FullIsLeaf ==
  ASSUME NEW t, Nodes(t), Branching(t), NEW a \in DOMAIN t, Len(a) = Depth
  PROVE  t[a].leaf /\ a # Root
<1>1. a \in Seq(Digit) /\ Depth \in Nat \ {0}
  BY TreeAssumption DEF Nodes
<1>2. ASSUME NEW q \in Children(t, a) PROVE FALSE
  <2>1. PICK d \in Digit : q = Child(a, d)
    BY DEF Children
  <2>2. Len(q) = Depth + 1 /\ q \in DOMAIN t
    BY <1>1, <2>1, ChildFacts DEF Children
  <2> QED BY <1>1, <2>2 DEF Nodes
<1>3. t[a].leaf
  BY <1>2 DEF Branching
<1> QED BY <1>1, <1>3, PrefixEnds

\* No branch is hollow: below every node, the root of an empty tree excepted,
\* stands a full address.
LEMMA NoHollow ==
  ASSUME NEW t, Nodes(t), Branching(t), NEW p \in DOMAIN t, p # Root \/ ~t[p].leaf
  PROVE  \E a \in DOMAIN t : Len(a) = Depth /\ Below(a, p)
<1> DEFINE Reached == {q \in DOMAIN t : Below(q, p)}
<1>1. p \in Reached /\ p \in Seq(Digit)
  BY BelowSelf DEF Nodes
<1>2. \A q \in Reached : Len(q) \in Nat /\ Len(q) <= Depth /\ q \in Seq(Digit) /\ q \in DOMAIN t
  BY DEF Nodes
<1>3. PICK a \in Reached : \A q \in Reached : Len(q) <= Len(a)
  <2> HIDE DEF Reached
  <2> QED BY <1>1, <1>2, Deepest
<1>4. t[a].leaf
  <2> SUFFICES ASSUME ~t[a].leaf PROVE FALSE
    OBVIOUS
  <2>1. PICK q \in Children(t, a) : TRUE
    BY DEF Branching
  <2>2. PICK d \in Digit : q = Child(a, d)
    BY DEF Children
  <2>3. /\ q \in DOMAIN t /\ q \in Seq(Digit) /\ Len(q) = Len(a) + 1 /\ q # Root
        /\ Front(q) = a /\ a \in Seq(Digit) /\ Len(a) \in Nat
    BY <1>2, <2>1, <2>2, ChildFacts DEF Children
  <2>4. Below(q, p)
    <3>1. Len(p) <= Len(a) /\ Prefix(a, Len(p)) = p /\ Len(p) \in Nat
      BY <1>1, <1>3 DEF Below
    <3>2. a = Prefix(q, Len(a))
      <4>1. Len(q) - 1 = Len(a)
        BY <2>3
      <4> QED BY <2>3, <4>1, FrontFacts
    <3>3. Len(a) \in 0..Len(q) /\ Len(p) \in 0..Len(a)
      BY <2>3, <3>1
    <3>4. Prefix(q, Len(p)) = p
      BY <2>3, <3>1, <3>2, <3>3, PrefixOfPrefix
    <3> QED BY <2>3, <3>1, <3>4 DEF Below
  <2>5. Len(q) <= Len(a)
    BY <1>3, <2>3, <2>4
  <2> QED BY <2>3, <2>5
<1>5. a # Root
  <2> SUFFICES ASSUME a = Root PROVE FALSE
    OBVIOUS
  <2>1. Len(a) = 0 /\ Len(p) \in Nat /\ Len(p) <= Len(a) /\ Prefix(a, Len(p)) = p
    BY <1>1, <1>2, <1>3, PrefixEnds DEF Below
  <2>2. Len(p) = 0
    BY <2>1
  <2>3. p = Root
    BY <2>1, <2>2, <1>2, <1>3, PrefixEnds
  <2> QED BY <1>4, <2>3
<1> QED BY <1>2, <1>3, <1>4, <1>5 DEF Branching

-----------------------------------------------------------------------------
\* What a filter keeps.

\* The recursion of Survivors has one solution: a node stays if a leaf with
\* enough votes stands below it.
Voted(t, threshold, p) ==
  \E a \in DOMAIN t : t[a].leaf /\ t[a].votes >= threshold /\ Below(a, p)

LEMMA VotedStep ==
  ASSUME NEW t, Nodes(t), Branching(t), NEW threshold \in Nat, NEW p \in DOMAIN t
  PROVE  Voted(t, threshold, p) <=>
           IF t[p].leaf THEN t[p].votes >= threshold
           ELSE \E q \in Children(t, p) : Voted(t, threshold, q)
<1>1. p \in Seq(Digit) /\ \A a \in DOMAIN t : a \in Seq(Digit)
  BY DEF Nodes
<1>2. CASE t[p].leaf
  <2>1. ASSUME Voted(t, threshold, p) PROVE t[p].votes >= threshold
    BY <1>2, <2>1, LeafEnds DEF Voted
  <2>2. ASSUME t[p].votes >= threshold PROVE Voted(t, threshold, p)
    BY <1>1, <1>2, <2>2, BelowSelf DEF Voted
  <2> QED BY <1>2, <2>1, <2>2
<1>3. CASE ~t[p].leaf
  <2>1. ASSUME Voted(t, threshold, p)
        PROVE  \E q \in Children(t, p) : Voted(t, threshold, q)
    <3>1. PICK a \in DOMAIN t : t[a].leaf /\ t[a].votes >= threshold /\ Below(a, p)
      BY <2>1 DEF Voted
    <3>2. a # p
      BY <1>3, <3>1
    <3>3. PICK d \in Digit : Child(p, d) = Prefix(a, Len(p) + 1)
      BY <1>1, <3>1, <3>2, BelowChild
    <3>4. Child(p, d) \in DOMAIN t /\ Below(a, Child(p, d))
      BY <1>1, <3>1, <3>2, <3>3, BelowChild, Ancestors
    <3>5. Child(p, d) \in Children(t, p)
      BY <3>4 DEF Children
    <3> QED BY <3>1, <3>4, <3>5 DEF Voted
  <2>2. ASSUME NEW q \in Children(t, p), Voted(t, threshold, q)
        PROVE  Voted(t, threshold, p)
    <3>1. PICK a \in DOMAIN t : t[a].leaf /\ t[a].votes >= threshold /\ Below(a, q)
      BY <2>2 DEF Voted
    <3>2. PICK d \in Digit : q = Child(p, d)
      BY DEF Children
    <3>3. q \in Seq(Digit) /\ q # Root /\ Front(q) = p
      BY <1>1, <3>2, ChildFacts
    <3>4. Below(a, p)
      BY <1>1, <3>1, <3>3, BelowFront
    <3> QED BY <3>1, <3>4 DEF Voted
  <2> QED BY <1>3, <2>1, <2>2
<1> QED BY <1>2, <1>3

LEMMA SurvivorsVoted ==
  ASSUME NEW t, Nodes(t), Branching(t), NEW threshold \in Nat
  PROVE  Survivors(t, threshold) = {p \in DOMAIN t : Voted(t, threshold, p)}
<1> DEFINE Body(f) == [p \in DOMAIN t |->
                        IF t[p].leaf THEN t[p].votes >= threshold
                        ELSE \E q \in Children(t, p) : f[q]]
           keep  == CHOOSE f : f = Body(f)
           voted == [p \in DOMAIN t |-> Voted(t, threshold, p)]
<1>1. \A p \in DOMAIN t : Children(t, p) \subseteq DOMAIN t
  BY DEF Children
<1>2. voted = Body(voted)
  <2>1. ASSUME NEW p \in DOMAIN t PROVE voted[p] = Body(voted)[p]
    <3>1. \A q \in Children(t, p) : voted[q] = Voted(t, threshold, q)
      BY <1>1
    <3>2. Voted(t, threshold, p)
            = IF t[p].leaf THEN t[p].votes >= threshold
              ELSE \E q \in Children(t, p) : Voted(t, threshold, q)
      <4> DEFINE P == Voted(t, threshold, p)
                 Q == IF t[p].leaf THEN t[p].votes >= threshold
                      ELSE \E q \in Children(t, p) : Voted(t, threshold, q)
      <4>1. P <=> Q
        BY VotedStep
      <4>2. P \in BOOLEAN
        BY DEF Voted
      <4>3. Q \in BOOLEAN
        <5>1. t[p].votes \in Nat
          BY TreeAssumption DEF Nodes
        <5>2. (t[p].votes >= threshold) \in BOOLEAN
          BY <5>1
        <5>3. (\E q \in Children(t, p) : Voted(t, threshold, q)) \in BOOLEAN
          OBVIOUS
        <5> QED BY <5>2, <5>3
      <4> HIDE DEF P, Q
      <4>4. P = Q
        BY <4>1, <4>2, <4>3
      <4> QED BY <4>4 DEF P, Q
    <3>3. (\E q \in Children(t, p) : Voted(t, threshold, q))
            = (\E q \in Children(t, p) : voted[q])
      BY <3>1
    <3>4. voted[p] = IF t[p].leaf THEN t[p].votes >= threshold
                     ELSE \E q \in Children(t, p) : voted[q]
      BY <3>2, <3>3
    <3>5. Body(voted)[p] = IF t[p].leaf THEN t[p].votes >= threshold
                           ELSE \E q \in Children(t, p) : voted[q]
      OBVIOUS
    <3> QED BY <3>4, <3>5
  <2> QED BY <2>1
<1>3. keep = Body(keep)
  <2> HIDE DEF Body, voted
  <2> QED BY <1>2
<1> HIDE DEF keep
<1>4. ASSUME NEW p \in DOMAIN t PROVE keep[p] <=> Voted(t, threshold, p)
  <2> DEFINE Wrong == {q \in DOMAIN t : ~(keep[q] <=> Voted(t, threshold, q))}
  <2> SUFFICES ASSUME Wrong # {} PROVE FALSE
    OBVIOUS
  <2>1. \A q \in Wrong : Len(q) \in Nat /\ Len(q) <= Depth
    BY DEF Nodes
  <2>2. PICK q \in Wrong : \A r \in Wrong : Len(r) <= Len(q)
    <3> HIDE DEF Wrong
    <3> QED BY <2>1, Deepest
  <2>3. ASSUME NEW r \in Children(t, q) PROVE keep[r] <=> Voted(t, threshold, r)
    <3>1. PICK d \in Digit : r = Child(q, d)
      BY DEF Children
    <3>2. q \in Seq(Digit) /\ Len(r) = Len(q) + 1 /\ Len(q) \in Nat /\ r \in DOMAIN t
      BY <3>1, <2>1, ChildFacts DEF Nodes, Children
    <3>3. r \notin Wrong
      BY <2>2, <3>2
    <3> QED BY <3>2, <3>3
  <2>4. keep[q] <=> IF t[q].leaf THEN t[q].votes >= threshold
                    ELSE \E r \in Children(t, q) : keep[r]
    <3>1. keep[q] = Body(keep)[q]
      BY <1>3
    <3> QED BY <3>1
  <2>5. keep[q] <=> Voted(t, threshold, q)
    BY <2>3, <2>4, VotedStep
  <2> QED BY <2>2, <2>5
<1>5. Survivors(t, threshold) = {p \in DOMAIN t : keep[p]}
  BY DEF Survivors, keep
<1> QED BY <1>4, <1>5

-----------------------------------------------------------------------------
\* Registering an address.

LEMMA RegisteredAddress ==
  ASSUME NEW a \in Registered
  PROVE  a \in Seq(Digit) /\ Len(a) = Depth /\ Depth \in Nat \ {0}
BY TreeAssumption

\* The nodes on the way to an address: one per length, the root not among
\* them, the address the last.
LEMMA WalkFacts ==
  ASSUME NEW a \in Registered
  PROVE  /\ \A p \in Walk(a) : /\ p \in Seq(Digit) /\ Len(p) \in 1..Depth /\ p # Root
                               /\ p = Prefix(a, Len(p))
                               /\ Len(p) = Depth => p = a
                               /\ Front(p) = Root \/ Front(p) \in Walk(a)
                               /\ Len(p) < Depth => Prefix(a, Len(p) + 1) \in Walk(a)
                                                    /\ Front(Prefix(a, Len(p) + 1)) = p
         /\ a \in Walk(a)
         /\ IsFiniteSet(Walk(a))
<1>1. a \in Seq(Digit) /\ Len(a) = Depth /\ Depth \in Nat \ {0}
  BY RegisteredAddress
<1>2. Walk(a) = {Prefix(a, k) : k \in 1..Depth}
  BY DEF Walk, Prefix
<1>3. ASSUME NEW k \in 1..Depth
      PROVE  /\ Prefix(a, k) \in Seq(Digit) /\ Len(Prefix(a, k)) = k /\ Prefix(a, k) # Root
             /\ Front(Prefix(a, k)) = Prefix(a, k - 1)
  <2>1. k \in 0..Len(a) /\ k - 1 \in 0..k
    BY <1>1
  <2>2. Prefix(a, k) \in Seq(Digit) /\ Len(Prefix(a, k)) = k
    BY <1>1, <2>1, PrefixFacts
  <2>3. Prefix(a, k) # Root
    BY <2>2, PrefixEnds
  <2>4. Front(Prefix(a, k)) = Prefix(Prefix(a, k), k - 1)
    BY <2>2, <2>3, FrontFacts
  <2> QED BY <1>1, <2>1, <2>2, <2>3, <2>4, PrefixOfPrefix
<1>4. ASSUME NEW p \in Walk(a)
      PROVE  /\ p \in Seq(Digit) /\ Len(p) \in 1..Depth /\ p # Root
             /\ p = Prefix(a, Len(p))
             /\ Len(p) = Depth => p = a
             /\ Front(p) = Root \/ Front(p) \in Walk(a)
             /\ Len(p) < Depth => Prefix(a, Len(p) + 1) \in Walk(a)
                                  /\ Front(Prefix(a, Len(p) + 1)) = p
  <2>1. PICK k \in 1..Depth : p = Prefix(a, k)
    BY <1>2
  <2>2. p \in Seq(Digit) /\ Len(p) = k /\ p # Root /\ Front(p) = Prefix(a, k - 1)
    BY <1>3, <2>1
  <2>3. k = Depth => p = a
    BY <1>1, <2>1, PrefixEnds
  <2>4. Front(p) = Root \/ Front(p) \in Walk(a)
    <3>1. CASE k = 1
      BY <1>1, <2>2, <3>1, PrefixEnds
    <3>2. CASE k # 1
      <4>1. k - 1 \in 1..Depth
        BY <1>1, <3>2
      <4> QED BY <1>2, <2>2, <4>1
    <3> QED BY <3>1, <3>2
  <2>5. k < Depth => Prefix(a, k + 1) \in Walk(a) /\ Front(Prefix(a, k + 1)) = p
    <3> SUFFICES ASSUME k < Depth PROVE Prefix(a, k + 1) \in Walk(a) /\ Front(Prefix(a, k + 1)) = p
      OBVIOUS
    <3>1. k + 1 \in 1..Depth /\ k + 1 - 1 = k
      BY <1>1
    <3>2. Front(Prefix(a, k + 1)) = Prefix(a, k + 1 - 1)
      BY <1>3, <3>1
    <3> QED BY <1>2, <2>1, <3>1, <3>2
  <2> QED BY <2>1, <2>2, <2>3, <2>4, <2>5
<1>5. a \in Walk(a)
  <2>1. Depth \in 1..Depth /\ Prefix(a, Depth) = a
    BY <1>1, PrefixEnds
  <2> QED BY <1>2, <2>1
<1>6. IsFiniteSet(Walk(a))
  <2>1. IsFiniteSet(1..Depth)
    BY <1>1, FS_Interval
  <2> DEFINE f == [k \in 1..Depth |-> Prefix(a, k)]
  <2>2. f \in Surjection(1..Depth, Walk(a))
    BY <1>2 DEF Surjection
  <2> HIDE DEF f
  <2> QED BY <2>1, <2>2, FS_Surjection
<1> QED BY <1>4, <1>5, <1>6

Created(t, a) == Walk(a) \ DOMAIN t
Parents(t, a) == {Front(p) : p \in Created(t, a)}
Ends(t, a, p) == p \notin Parents(t, a)

\* A node built from its two fields.
LEMMA NodeFields ==
  ASSUME NEW v, NEW l \in BOOLEAN, NEW n, n = [votes |-> v, leaf |-> l]
  PROVE  /\ n.votes = v /\ (n.leaf <=> l)
         /\ v \in 0..MaxVotes => n \in [votes : 0..MaxVotes, leaf : BOOLEAN]
BY Zenon

LEMMA InsertedNodes ==
  ASSUME NEW t, NEW a
  PROVE  LET u == Insert(t, a)
         IN  /\ DOMAIN u = DOMAIN t \cup Created(t, a)
             /\ \A p \in Created(t, a) :
                  u[p] = [votes |-> 1, leaf |-> Ends(t, a, p)]
             /\ \A p \in DOMAIN t :
                  u[p] = [votes |-> IF p \in Walk(a) /\ t[p].leaf
                                      THEN t[p].votes + 1 ELSE t[p].votes,
                          leaf  |-> t[p].leaf /\ Ends(t, a, p)]
<1>1. \A p : [NewNode EXCEPT !.leaf = Ends(t, a, p)] = [votes |-> 1, leaf |-> Ends(t, a, p)]
  BY DEF NewNode
<1> QED BY <1>1 DEF Insert, Created, Parents, Ends

LEMMA InsertedFields ==
  ASSUME NEW t, NEW a
  PROVE  LET u == Insert(t, a)
         IN  /\ \A p \in Created(t, a) : /\ u[p].votes = 1
                                         /\ u[p].leaf <=> p \notin Parents(t, a)
             /\ \A p \in DOMAIN t :
                  /\ u[p].votes = IF p \in Walk(a) /\ t[p].leaf
                                    THEN t[p].votes + 1 ELSE t[p].votes
                  /\ u[p].leaf <=> t[p].leaf /\ p \notin Parents(t, a)
<1> DEFINE u == Insert(t, a)
<1>1. ASSUME NEW p \in Created(t, a)
      PROVE  u[p].votes = 1 /\ (u[p].leaf <=> p \notin Parents(t, a))
  <2> DEFINE l == Ends(t, a, p)
  <2>1. l \in BOOLEAN
    BY DEF Ends
  <2>2. u[p] = [votes |-> 1, leaf |-> l]
    BY InsertedNodes
  <2> HIDE DEF l, u
  <2>3. u[p].votes = 1 /\ (u[p].leaf <=> l)
    BY <2>1, <2>2, NodeFields
  <2> QED BY <2>3 DEF l, Ends
<1>2. ASSUME NEW p \in DOMAIN t
      PROVE  /\ u[p].votes = IF p \in Walk(a) /\ t[p].leaf
                               THEN t[p].votes + 1 ELSE t[p].votes
             /\ u[p].leaf <=> t[p].leaf /\ p \notin Parents(t, a)
  <2> DEFINE l == t[p].leaf /\ Ends(t, a, p)
             v == IF p \in Walk(a) /\ t[p].leaf THEN t[p].votes + 1 ELSE t[p].votes
  <2>1. l \in BOOLEAN /\ u[p] = [votes |-> v, leaf |-> l]
    BY InsertedNodes
  <2> HIDE DEF l, v, u
  <2>2. u[p].votes = v /\ (u[p].leaf <=> l)
    BY <2>1, NodeFields
  <2> QED BY <2>2 DEF l, v, Ends
<1> QED BY <1>1, <1>2

\* The only leaf on the way to an address is the address.
LEMMA InsertBranching ==
  ASSUME NEW t, Nodes(t), Branching(t), NEW a \in Registered,
         a \in DOMAIN t => t[a].votes < MaxVotes
  PROVE  Nodes(Insert(t, a)) /\ Branching(Insert(t, a))
<1> DEFINE u == Insert(t, a)
           created == Created(t, a)
           parents == Parents(t, a)
<1>1. /\ DOMAIN u = DOMAIN t \cup created
      /\ \A p \in created : u[p].leaf <=> p \notin parents
      /\ \A p \in DOMAIN t : u[p].leaf <=> t[p].leaf /\ p \notin parents
  <2>1. DOMAIN u = DOMAIN t \cup created
    BY InsertedNodes
  <2>2. \A p \in created : u[p].leaf <=> p \notin parents
    BY InsertedFields
  <2>3. \A p \in DOMAIN t : u[p].leaf <=> t[p].leaf /\ p \notin parents
    BY InsertedFields
  <2> QED BY <2>1, <2>2, <2>3
<1>2. created = Walk(a) \ DOMAIN t /\ parents = {Front(p) : p \in created}
  BY DEF Created, Parents
<1>3. Depth \in Nat \ {0} /\ MaxVotes \in Nat \ {0}
  BY TreeAssumption
<1> HIDE DEF u, created, parents
<1>4. \A p \in DOMAIN u : p \in Seq(Digit) /\ Len(p) \in Nat /\ Len(p) <= Depth
  BY <1>1, <1>2, <1>3, WalkFacts DEF Nodes
<1>5. Nodes(u)
  <2>1. ASSUME NEW p \in DOMAIN t, p \in Walk(a), t[p].leaf PROVE p = a
    BY <2>1, WalkFacts DEF Branching
  <2>2. ASSUME NEW p \in DOMAIN t PROVE u[p] \in [votes : 0..MaxVotes, leaf : BOOLEAN]
    <3> DEFINE l == t[p].leaf /\ Ends(t, a, p)
               v == IF p \in Walk(a) /\ t[p].leaf THEN t[p].votes + 1 ELSE t[p].votes
    <3>1. t[p].votes \in 0..MaxVotes /\ l \in BOOLEAN
      BY DEF Nodes
    <3>2. v \in 0..MaxVotes
      BY <1>3, <2>1, <3>1
    <3>3. u[p] = [votes |-> v, leaf |-> l]
      BY InsertedNodes DEF u
    <3> HIDE DEF l, v
    <3> QED BY <3>1, <3>2, <3>3, NodeFields
  <2>3. ASSUME NEW p \in created PROVE u[p] \in [votes : 0..MaxVotes, leaf : BOOLEAN]
    <3> DEFINE l == Ends(t, a, p)
    <3>1. 1 \in 0..MaxVotes /\ l \in BOOLEAN
      BY <1>3 DEF Ends
    <3>2. u[p] = [votes |-> 1, leaf |-> l]
      BY InsertedNodes DEF u, created
    <3> HIDE DEF l
    <3> QED BY <3>1, <3>2, NodeFields
  <2> QED BY <1>1, <1>4, <2>2, <2>3 DEF Nodes
<1>6. \A p \in DOMAIN t : t[p].leaf \in BOOLEAN
  BY DEF Nodes
<1>7. Root \in DOMAIN u /\ Root \in DOMAIN t
  BY <1>1 DEF Branching
<1>8. ASSUME NEW p \in DOMAIN u, p # Root
      PROVE  Front(p) \in DOMAIN u /\ ~u[Front(p)].leaf
  <2>1. CASE p \in created
    <3>1. Front(p) \in parents
      BY <1>2, <2>1
    <3>2. Front(p) \in DOMAIN u
      BY <1>1, <1>2, <1>7, <2>1, WalkFacts
    <3> QED BY <1>1, <3>1, <3>2
  <2>2. CASE p \in DOMAIN t
    <3>1. Front(p) \in DOMAIN t /\ ~t[Front(p)].leaf
      BY <1>8, <2>2 DEF Branching
    <3> QED BY <1>1, <3>1
  <2> QED BY <1>1, <2>1, <2>2
<1>9. ASSUME NEW p \in DOMAIN u
      PROVE  u[p].leaf <=> Children(u, p) = {}
  <2>1. ASSUME u[p].leaf, NEW q \in Children(u, p) PROVE FALSE
    <3>1. PICK d \in Digit : q = Child(p, d)
      BY DEF Children
    <3>2. q \in DOMAIN u /\ q # Root /\ Front(q) = p
      BY <1>4, <3>1, ChildFacts DEF Children
    <3> QED BY <1>8, <2>1, <3>2
  <2>2. ASSUME Children(u, p) = {} PROVE u[p].leaf
    <3>1. ASSUME NEW q \in created, Front(q) = p PROVE FALSE
      <4>1. q \in Seq(Digit) /\ q # Root /\ q \in DOMAIN u
        BY <1>1, <1>2, WalkFacts
      <4>2. q \in Children(u, p)
        BY <3>1, <4>1, FrontFacts DEF Children
      <4> QED BY <2>2, <4>2
    <3>2. p \notin parents
      BY <1>2, <3>1
    <3>3. p \in DOMAIN t => t[p].leaf
      <4>1. Children(t, p) \subseteq Children(u, p)
        BY <1>1 DEF Children
      <4> QED BY <2>2, <4>1 DEF Branching
    <3> QED BY <1>1, <3>2, <3>3
  <2> QED BY <2>1, <2>2
<1>10. ASSUME NEW p \in DOMAIN u, u[p].leaf
       PROVE  p = Root \/ Len(p) = Depth
  <2>1. CASE p \in DOMAIN t
    BY <1>1, <1>10, <2>1 DEF Branching
  <2>2. CASE p \in created
    <3> SUFFICES ASSUME Len(p) # Depth PROVE FALSE
      OBVIOUS
    <3>1. p \in Walk(a) /\ p \notin DOMAIN t /\ p \notin parents
      BY <1>1, <1>2, <1>10, <2>2
    <3>2. Len(p) < Depth
      BY <1>3, <3>1, WalkFacts
    <3> DEFINE q == Prefix(a, Len(p) + 1)
    <3>3. q \in Walk(a) /\ Front(q) = p
      BY <3>1, <3>2, WalkFacts
    <3> HIDE DEF q
    <3>4. q \notin DOMAIN t
      BY <3>1, <3>3, WalkFacts DEF Branching
    <3> QED BY <1>2, <3>1, <3>3, <3>4
  <2> QED BY <1>1, <2>1, <2>2
<1>11. Branching(u)
  BY <1>7, <1>8, <1>9, <1>10 DEF Branching
<1> QED BY <1>5, <1>11 DEF u

-----------------------------------------------------------------------------
\* Filtering.

KeptNodes(t, threshold) == Survivors(t, threshold) \cup {Root}

LEMMA PrunedNodes ==
  ASSUME NEW t, NEW threshold, ~t[Root].leaf
  PROVE  LET u == Pruned(t, threshold)
             kept == KeptNodes(t, threshold)
         IN  /\ DOMAIN u = kept
             /\ \A p \in kept : u[p] = IF kept = {Root} THEN [votes |-> 0, leaf |-> TRUE]
                                       ELSE t[p]
BY DEF Pruned, KeptNodes

\* A surviving node, and with it all nodes on the way to it, leads to a leaf
\* that survives.
LEMMA PrunedBranching ==
  ASSUME NEW t, Nodes(t), Branching(t), NEW threshold \in Nat
  PROVE  Nodes(Pruned(t, threshold)) /\ Branching(Pruned(t, threshold))
<1> DEFINE u    == Pruned(t, threshold)
           kept == KeptNodes(t, threshold)
<1>1. CASE t[Root].leaf
  <2>1. u = t
    BY <1>1 DEF Pruned
  <2> QED BY <2>1
<1>2. CASE ~t[Root].leaf
  <2>1. /\ DOMAIN u = kept
        /\ \A p \in kept : u[p] = IF kept = {Root} THEN [votes |-> 0, leaf |-> TRUE] ELSE t[p]
    BY <1>2, PrunedNodes
  <2>2. kept = {p \in DOMAIN t : Voted(t, threshold, p)} \cup {Root}
    BY SurvivorsVoted DEF KeptNodes
  <2> HIDE DEF u, kept
  <2>3. CASE kept = {Root}
    <3>1. DOMAIN u = {Root} /\ u[Root] = [votes |-> 0, leaf |-> TRUE]
      BY <2>1, <2>3
    <3>2. Root \in Seq(Digit) /\ Len(Root) = 0
      BY EmptySeq DEF Root
    <3>3. Children(u, Root) = {}
      BY <3>1, <3>2, ChildFacts DEF Children
    <3>4. Nodes(u)
      <4>1. 0 \in 0..MaxVotes /\ 0 <= Depth
        BY TreeAssumption
      <4>2. u[Root] \in [votes : 0..MaxVotes, leaf : BOOLEAN]
        BY <3>1, <4>1
      <4> QED BY <3>1, <3>2, <4>1, <4>2 DEF Nodes
    <3>5. Branching(u)
      BY <3>1, <3>3 DEF Branching
    <3> QED BY <3>4, <3>5 DEF u
  <2>4. CASE kept # {Root}
    <3>1. \A p \in kept : u[p] = t[p]
      BY <2>1, <2>4
    <3>2. kept \subseteq DOMAIN t /\ Root \in kept
      BY <2>2 DEF Branching
    <3>3. Nodes(u)
      BY <2>1, <3>1, <3>2 DEF Nodes
    <3>4. \A p \in DOMAIN t : p \in Seq(Digit)
      BY DEF Nodes
    <3>5. ASSUME NEW p \in kept, p # Root
          PROVE  Front(p) \in kept /\ ~t[Front(p)].leaf
      <4>1. Front(p) \in DOMAIN t /\ ~t[Front(p)].leaf
        BY <3>2, <3>5 DEF Branching
      <4>2. PICK a \in DOMAIN t : t[a].leaf /\ t[a].votes >= threshold /\ Below(a, p)
        BY <2>2, <3>5 DEF Voted
      <4>3. Below(a, Front(p))
        BY <3>2, <3>4, <3>5, <4>2, BelowFront
      <4> QED BY <2>2, <4>1, <4>2, <4>3 DEF Voted
    <3>6. PICK s \in kept : s # Root
      BY <2>4, <3>2
    <3>7. ASSUME NEW p \in kept PROVE t[p].leaf <=> Children(u, p) = {}
      <4>1. ASSUME t[p].leaf PROVE Children(u, p) = {}
        <5>1. Children(t, p) = {} /\ Children(u, p) \subseteq Children(t, p)
          BY <2>1, <3>2, <4>1 DEF Branching, Children
        <5> QED BY <5>1
      <4>2. ASSUME ~t[p].leaf PROVE Children(u, p) # {}
        <5>1. Voted(t, threshold, p)
          <6>1. CASE p # Root
            BY <2>2, <6>1
          <6>2. CASE p = Root
            <7>1. PICK a \in DOMAIN t : t[a].leaf /\ t[a].votes >= threshold /\ Below(a, s)
              BY <2>2, <3>6 DEF Voted
            <7>2. Below(a, Root)
              <8>1. a \in Seq(Digit) /\ Len(Root) = 0 /\ Len(a) \in Nat
                BY <3>4, PrefixEnds DEF Root
              <8> QED BY <8>1, PrefixEnds DEF Below
            <7> QED BY <6>2, <7>1, <7>2 DEF Voted
          <6> QED BY <6>1, <6>2
        <5>2. PICK q \in Children(t, p) : Voted(t, threshold, q)
          BY <3>2, <4>2, <5>1, VotedStep
        <5>3. q \in kept
          BY <2>2, <5>2 DEF Children
        <5> QED BY <2>1, <5>2, <5>3 DEF Children
      <4> QED BY <4>1, <4>2
    <3>8. \A p \in kept : t[p].leaf => p = Root \/ Len(p) = Depth
      BY <3>2 DEF Branching
    <3>9. Branching(u)
      BY <2>1, <3>1, <3>2, <3>5, <3>7, <3>8 DEF Branching
    <3> QED BY <3>3, <3>9 DEF u
  <2> QED BY <2>3, <2>4
<1> QED BY <1>1, <1>2

-----------------------------------------------------------------------------
\* The shape is inductive together with the addresses being registered ones.

IInv ==
  /\ Nodes(tree) /\ Branching(tree)
  /\ FullAddresses \subseteq Registered
  /\ nbNodes \in 0..MaxNodes

LEMMA InitIInv == Init => IInv
<1> SUFFICES ASSUME Init PROVE IInv
  OBVIOUS
<1>1. DOMAIN tree = {Root} /\ tree[Root] = [votes |-> 1, leaf |-> TRUE] /\ nbNodes = 0
  BY DEF Init, NewNode
<1>2. Root \in Seq(Digit) /\ Len(Root) = 0 /\ Depth \in Nat \ {0} /\ MaxVotes \in Nat \ {0}
  BY EmptySeq, TreeAssumption DEF Root
<1>3. Children(tree, Root) = {}
  <2>1. \A d \in Digit : Child(Root, d) # Root
    BY <1>2, ChildFacts
  <2> QED BY <1>1, <2>1 DEF Children
<1>4. tree[Root] \in [votes : 0..MaxVotes, leaf : BOOLEAN] /\ tree[Root].leaf
  BY <1>1, <1>2
<1>5. FullAddresses = {}
  BY <1>1, <1>2 DEF FullAddresses
<1>6. Nodes(tree)
  <2>1. ASSUME NEW p \in DOMAIN tree
        PROVE  /\ p \in Seq(Digit) /\ Len(p) <= Depth
               /\ tree[p] \in [votes : 0..MaxVotes, leaf : BOOLEAN]
    <3>1. p = Root /\ 0 <= Depth
      BY <1>1, <1>2
    <3> QED BY <1>2, <1>4, <3>1
  <2> QED BY <2>1 DEF Nodes
<1>7. Branching(tree)
  BY <1>1, <1>3, <1>4 DEF Branching
<1>8. nbNodes \in 0..MaxNodes
  BY <1>1, TreeAssumption
<1> QED BY <1>5, <1>6, <1>7, <1>8 DEF IInv

\* The full addresses after a registration.
LEMMA InsertedAddresses ==
  ASSUME NEW t, Nodes(t), NEW a \in Registered
  PROVE  {p \in DOMAIN Insert(t, a) : Len(p) = Depth} = {p \in DOMAIN t : Len(p) = Depth} \cup {a}
<1>1. DOMAIN Insert(t, a) = DOMAIN t \cup (Walk(a) \ DOMAIN t)
  BY InsertedNodes DEF Created
<1>2. a \in Walk(a) /\ Len(a) = Depth /\ \A p \in Walk(a) : Len(p) = Depth => p = a
  BY WalkFacts, RegisteredAddress
<1> QED BY <1>1, <1>2

LEMMA PrunedAddresses ==
  ASSUME NEW t, Nodes(t), Branching(t), NEW threshold \in Nat, ~t[Root].leaf
  PROVE  {p \in DOMAIN Pruned(t, threshold) : Len(p) = Depth}
           = {p \in DOMAIN t : Len(p) = Depth /\ t[p].votes >= threshold}
<1>1. DOMAIN Pruned(t, threshold) = {p \in DOMAIN t : Voted(t, threshold, p)} \cup {Root}
  <2>1. DOMAIN Pruned(t, threshold) = KeptNodes(t, threshold)
    BY PrunedNodes
  <2>2. Survivors(t, threshold) = {p \in DOMAIN t : Voted(t, threshold, p)}
    BY SurvivorsVoted
  <2> QED BY <2>1, <2>2 DEF KeptNodes
<1>2. Len(Root) # Depth
  BY EmptySeq, TreeAssumption DEF Root
<1>3. ASSUME NEW p \in DOMAIN t, Len(p) = Depth
      PROVE  Voted(t, threshold, p) <=> t[p].votes >= threshold
  BY <1>3, FullIsLeaf, VotedStep
<1> QED BY <1>1, <1>2, <1>3

LEMMA NextIInv == IInv /\ [Next]_vars => IInv'
<1> SUFFICES ASSUME IInv, [Next]_vars PROVE IInv'
  OBVIOUS
<1>1. Nodes(tree) /\ Branching(tree) /\ FullAddresses \subseteq Registered /\ nbNodes \in 0..MaxNodes
  BY DEF IInv
<1>2. CASE UNCHANGED vars
  BY <1>1, <1>2 DEF IInv, vars, Nodes, Branching, Children, FullAddresses
<1>3. ASSUME NEW a \in Registered, RegisterAddress(a) PROVE IInv'
  <2>1. /\ tree' = Insert(tree, a)
        /\ nbNodes' = nbNodes + Cardinality(Walk(a) \ DOMAIN tree) /\ nbNodes' <= MaxNodes
        /\ a \in DOMAIN tree => tree[a].votes < MaxVotes
    BY <1>3 DEF RegisterAddress
  <2> DEFINE u == Insert(tree, a)
  <2>2. Nodes(u) /\ Branching(u)
    BY <1>1, <2>1, InsertBranching
  <2>3. {p \in DOMAIN u : Len(p) = Depth} = FullAddresses \cup {a}
    BY <1>1, InsertedAddresses DEF FullAddresses
  <2>4. nbNodes' \in 0..MaxNodes
    <3>1. Cardinality(Walk(a) \ DOMAIN tree) \in Nat
      BY WalkFacts, FS_Difference, FS_CardinalityType
    <3> QED BY <1>1, <2>1, <3>1, TreeAssumption
  <2>5. FullAddresses' \subseteq Registered
    <3>1. FullAddresses' = FullAddresses \cup {a}
      BY <2>1, <2>3 DEF FullAddresses
    <3> QED BY <1>1, <3>1
  <2> HIDE DEF u
  <2>6. Nodes(tree)' /\ Branching(tree)'
    BY <2>1, <2>2 DEF u, Nodes, Branching, Children
  <2> QED BY <2>4, <2>5, <2>6 DEF IInv
<1>4. ASSUME NEW threshold \in 0..MaxVotes + 1, FilterBelow(threshold) PROVE IInv'
  <2>1. tree' = Pruned(tree, threshold) /\ nbNodes' = nbNodes /\ threshold \in Nat
    BY <1>4, TreeAssumption DEF FilterBelow
  <2> DEFINE u == Pruned(tree, threshold)
  <2>2. Nodes(u) /\ Branching(u)
    BY <1>1, <2>1, PrunedBranching
  <2>3. {p \in DOMAIN u : Len(p) = Depth} \subseteq FullAddresses
    <3>1. CASE tree[Root].leaf
      BY <3>1 DEF Pruned, FullAddresses
    <3>2. CASE ~tree[Root].leaf
      BY <1>1, <2>1, <3>2, PrunedAddresses DEF FullAddresses
    <3> QED BY <3>1, <3>2
  <2>4. FullAddresses' \subseteq Registered
    <3>1. FullAddresses' = {p \in DOMAIN u : Len(p) = Depth}
      BY <2>1 DEF FullAddresses
    <3> QED BY <1>1, <2>3, <3>1
  <2> HIDE DEF u
  <2>5. Nodes(tree)' /\ Branching(tree)'
    BY <2>1, <2>2 DEF u, Nodes, Branching, Children
  <2> QED BY <1>1, <2>1, <2>4, <2>5 DEF IInv
<1> QED BY <1>2, <1>3, <1>4 DEF Next

LEMMA IInvImpliesShape == IInv => Shape
<1> SUFFICES ASSUME IInv PROVE Shape
  OBVIOUS
<1>1. ASSUME NEW p \in DOMAIN tree
      PROVE  p \in UNION {[1..k -> Digit] : k \in 0..Depth}
  <2>1. p \in Seq(Digit) /\ Len(p) \in Nat /\ Len(p) <= Depth
    BY DEF IInv, Nodes
  <2>2. p \in [1..Len(p) -> Digit] /\ Len(p) \in 0..Depth
    BY <2>1, LenProperties, TreeAssumption
  <2> QED BY <2>2
<1>2. TypeOK
  BY <1>1 DEF IInv, Nodes, TypeOK
<1> QED BY <1>2 DEF IInv, Branching, Shape

LEMMA Invariance == Spec => []IInv
<1>1. Init => IInv
  BY InitIInv
<1>2. IInv /\ [Next]_vars => IInv'
  BY NextIInv
<1> QED BY <1>1, <1>2, PTL DEF Spec

\* AddrTree::register_address and filter (addrtree.rs), in any order:
\* leaves are the full addresses and the childless root alone, every node hangs
\* from an inner node and no filter leaves a branch without a leaf.
THEOREM ShapeKept == Spec => []Shape
<1>1. IInv => Shape
  BY IInvImpliesShape
<1> QED BY <1>1, Invariance, PTL

-----------------------------------------------------------------------------
\* The refinement: the table's actions, seen through AsTable.

LEMMA TableFields ==
  /\ AsTable.votes = [a \in FullAddresses |-> tree[a].votes]
  /\ AsTable.root = tree[Root].votes
  /\ AsTable.nodes = nbNodes
  /\ Table!Live(AsTable) = FullAddresses
BY DEF AsTable, Table!Live

\* The instance counts with the same Cardinality.
LEMMA SameCardinality == \A S : Table!Cardinality(S) = Cardinality(S)
BY DEF Cardinality, Table!Cardinality

LEMMA InitRefines == Init => Table!Init
<1> SUFFICES ASSUME Init PROVE AsTable = Table!Empty
  BY DEF Table!Init
<1>1. DOMAIN tree = {Root} /\ tree[Root] = [votes |-> 1, leaf |-> TRUE] /\ nbNodes = 0
  BY DEF Init, NewNode
<1>2. Len(Root) = 0 /\ Depth # 0
  BY EmptySeq, TreeAssumption DEF Root
<1>3. FullAddresses = {}
  BY <1>1, <1>2 DEF FullAddresses
<1> DEFINE v == [a \in FullAddresses |-> tree[a].votes]
           e == [a \in {} |-> 0]
<1>4. v = e
  BY <1>3
<1>5. tree[Root].votes = 1
  BY <1>1
<1>6. AsTable = [votes |-> v, root |-> tree[Root].votes, nodes |-> nbNodes]
  BY DEF AsTable
<1>7. Table!Empty = [votes |-> e, root |-> 1, nodes |-> 0]
  BY DEF Table!Empty
<1> HIDE DEF v, e
<1> QED BY <1>1, <1>4, <1>5, <1>6, <1>7

\* The nodes of the tree below its root are those that lead to an address of
\* the table.
LEMMA NodesInUse ==
  ASSUME IInv
  PROVE  Table!LiveNodes(AsTable) = DOMAIN tree \ {Root}
<1>1. /\ Nodes(tree) /\ Branching(tree) /\ FullAddresses \subseteq Registered
      /\ \A a \in FullAddresses : a \in DOMAIN tree /\ Len(a) = Depth
  BY DEF IInv, FullAddresses
<1>2. Table!LiveNodes(AsTable) = UNION {Walk(a) : a \in FullAddresses}
  BY <1>1, TableFields DEF Table!LiveNodes
<1>3. ASSUME NEW a \in FullAddresses, NEW p \in Walk(a)
      PROVE  p \in DOMAIN tree /\ p # Root
  <2>1. /\ p = Prefix(a, Len(p)) /\ Len(p) \in 1..Depth /\ p # Root
        /\ a \in DOMAIN tree /\ Len(a) = Depth /\ Depth \in Nat
    BY <1>1, WalkFacts, TreeAssumption
  <2>2. Len(p) \in 0..Len(a)
    BY <2>1
  <2>3. Prefix(a, Len(p)) \in DOMAIN tree
    BY <1>1, <2>1, <2>2, Ancestors
  <2> QED BY <2>1, <2>3
<1>4. ASSUME NEW p \in DOMAIN tree, p # Root
      PROVE  \E a \in FullAddresses : p \in Walk(a)
  <2>1. PICK a \in DOMAIN tree : Len(a) = Depth /\ Below(a, p)
    BY <1>1, <1>4, NoHollow
  <2>2. Len(p) \in 1..Depth /\ p = SubSeq(a, 1, Len(p))
    <3>1. p \in Seq(Digit) /\ Len(p) <= Depth
      BY <1>1 DEF Nodes
    <3>2. Len(p) \in Nat \ {0}
      BY <1>4, <3>1, PrefixEnds
    <3>3. Len(p) \in 1..Depth
      <4>1. \A m, n \in Nat : m # 0 /\ m <= n => m \in 1..n
        OBVIOUS
      <4>2. Depth \in Nat /\ Len(p) \in Nat /\ Len(p) # 0
        BY <3>2, TreeAssumption
      <4> QED BY <3>1, <4>1, <4>2, Zenon
    <3>4. p = SubSeq(a, 1, Len(p))
      BY <2>1, Zenon DEF Below, Prefix
    <3> QED BY <3>3, <3>4
  <2>3. p \in Walk(a)
    BY <2>2 DEF Walk
  <2> QED BY <2>1, <2>3 DEF FullAddresses
<1> QED BY <1>2, <1>3, <1>4

LEMMA RegisterRefines ==
  ASSUME IInv, NEW a \in Registered, RegisterAddress(a)
  PROVE  Table!RegisterAddress(a)
<1>1. /\ tree' = Insert(tree, a)
      /\ nbNodes' = nbNodes + Cardinality(Walk(a) \ DOMAIN tree) /\ nbNodes' <= MaxNodes
      /\ a \in DOMAIN tree => tree[a].votes < MaxVotes
  BY DEF RegisterAddress
<1>2. Nodes(tree) /\ Branching(tree)
  BY DEF IInv
<1>3. /\ a \in Walk(a) /\ Len(a) = Depth /\ a # Root
      /\ \A p \in Walk(a) : Len(p) = Depth => p = a
      /\ Root \notin Walk(a)
  BY WalkFacts, RegisteredAddress
<1>4. FullAddresses' = FullAddresses \cup {a}
  BY <1>1, <1>2, InsertedAddresses DEF FullAddresses
<1>5. ASSUME NEW p \in FullAddresses \cup {a}
      PROVE  tree'[p].votes = IF p \notin FullAddresses THEN 1
                              ELSE IF p = a THEN tree[p].votes + 1 ELSE tree[p].votes
  <2>1. CASE p \in FullAddresses
    <3>1. p \in DOMAIN tree /\ Len(p) = Depth /\ tree[p].leaf
      BY <1>2, <2>1, FullIsLeaf DEF FullAddresses
    <3>2. tree'[p].votes = IF p \in Walk(a) /\ tree[p].leaf
                             THEN tree[p].votes + 1 ELSE tree[p].votes
      BY <1>1, <3>1, InsertedFields
    <3>3. p \in Walk(a) <=> p = a
      BY <1>3, <3>1
    <3> QED BY <2>1, <3>1, <3>2, <3>3
  <2>2. CASE p \notin FullAddresses
    <3>1. p = a /\ p \notin DOMAIN tree
      BY <1>3, <2>2 DEF FullAddresses
    <3>2. p \in Created(tree, a)
      BY <1>3, <3>1 DEF Created
    <3> QED BY <1>1, <2>2, <3>2, InsertedFields
  <2> QED BY <2>1, <2>2
<1>6. AsTable'.votes = [b \in FullAddresses \cup {a} |->
                          IF b \notin FullAddresses THEN 1
                          ELSE IF b = a THEN AsTable.votes[b] + 1 ELSE AsTable.votes[b]]
  <2>1. AsTable'.votes = [b \in FullAddresses' |-> tree'[b].votes]
    BY DEF AsTable
  <2>2. \A b \in FullAddresses : AsTable.votes[b] = tree[b].votes
    BY TableFields
  <2> QED BY <1>4, <1>5, <2>1, <2>2
<1>7. AsTable'.root = AsTable.root
  <2>1. Root \in DOMAIN tree
    BY <1>2 DEF Branching
  <2>2. tree'[Root].votes = tree[Root].votes
    BY <1>1, <1>3, <2>1, InsertedFields
  <2> QED BY <2>2 DEF AsTable
<1>8. AsTable'.nodes = AsTable.nodes + Cardinality(Walk(a) \ Table!LiveNodes(AsTable))
  <2>1. Walk(a) \ Table!LiveNodes(AsTable) = Walk(a) \ DOMAIN tree
    BY <1>3, NodesInUse
  <2> QED BY <1>1, <2>1 DEF AsTable
<1>9. AsTable' = Table!Register(AsTable, a)
  <2>1. AsTable' = [votes |-> AsTable'.votes, root |-> AsTable'.root, nodes |-> AsTable'.nodes]
    BY DEF AsTable
  <2>2. Table!Register(AsTable, a)
          = [votes |-> [b \in FullAddresses \cup {a} |->
                          IF b \notin FullAddresses THEN 1
                          ELSE IF b = a THEN AsTable.votes[b] + 1 ELSE AsTable.votes[b]],
             root  |-> AsTable.root,
             nodes |-> AsTable.nodes + Cardinality(Walk(a) \ Table!LiveNodes(AsTable))]
    <3>1. [b \in Registered |-> Walk(b)][a] = Walk(a)
      OBVIOUS
    <3>2. Table!Live(AsTable) = FullAddresses
      BY TableFields
    <3> DEFINE live == Table!Live(AsTable)
    <3>3. Table!Register(AsTable, a)
            = [votes |-> [b \in live \cup {a} |->
                            IF b \notin live THEN 1
                            ELSE IF b = a THEN AsTable.votes[b] + 1 ELSE AsTable.votes[b]],
               root  |-> AsTable.root,
               nodes |-> AsTable.nodes
                           + Cardinality([b \in Registered |-> Walk(b)][a] \ Table!LiveNodes(AsTable))]
      BY SameCardinality DEF Table!Register
    <3> HIDE DEF live
    <3>4. live = FullAddresses
      BY <3>2 DEF live
    <3> QED BY <3>1, <3>3, <3>4
  <2> QED BY <1>6, <1>7, <1>8, <2>1, <2>2
<1>10. a \in Table!Live(AsTable) => AsTable.votes[a] < MaxVotes
  BY <1>1, TableFields DEF FullAddresses
<1>11. AsTable'.nodes <= MaxNodes
  BY <1>1 DEF AsTable
<1> QED BY <1>9, <1>10, <1>11 DEF Table!RegisterAddress

LEMMA FilterRefines ==
  ASSUME IInv, NEW threshold \in 0..MaxVotes + 1, FilterBelow(threshold)
  PROVE  Table!FilterBelow(threshold)
<1>1. tree' = Pruned(tree, threshold) /\ nbNodes' = nbNodes /\ threshold \in Nat
  BY TreeAssumption DEF FilterBelow
<1>2. Nodes(tree) /\ Branching(tree) /\ Root \in DOMAIN tree
  BY DEF IInv, Branching
<1>3. tree[Root].leaf <=> FullAddresses = {}
  <2>1. ASSUME tree[Root].leaf, NEW a \in FullAddresses PROVE FALSE
    <3>1. a \in DOMAIN tree /\ Len(a) = Depth /\ a \in Seq(Digit) /\ a # Root
      BY <1>2, FullIsLeaf DEF FullAddresses, Nodes
    <3>2. Below(a, Root)
      BY <3>1, PrefixEnds, EmptySeq DEF Below, Root
    <3> QED BY <1>2, <2>1, <3>1, <3>2, LeafEnds
  <2>2. ASSUME ~tree[Root].leaf PROVE FullAddresses # {}
    BY <1>2, <2>2, NoHollow DEF FullAddresses
  <2> QED BY <2>1, <2>2
<1>4. CASE tree[Root].leaf
  <2>1. tree' = tree
    BY <1>1, <1>4 DEF Pruned
  <2>2. AsTable' = AsTable
    BY <1>1, <2>1 DEF AsTable, FullAddresses
  <2> QED BY <1>3, <1>4, <2>2, TableFields DEF Table!FilterBelow, Table!Filter
<1>5. CASE ~tree[Root].leaf
  <2> DEFINE kept == {a \in FullAddresses : tree[a].votes >= threshold}
             all  == KeptNodes(tree, threshold)
  <2>1. Table!Kept(AsTable, threshold) = kept
    BY TableFields DEF Table!Kept
  <2>2. FullAddresses' = kept
    <3>1. FullAddresses' = {p \in DOMAIN tree : Len(p) = Depth /\ tree[p].votes >= threshold}
      BY <1>1, <1>2, <1>5, PrunedAddresses DEF FullAddresses
    <3> QED BY <3>1 DEF FullAddresses
  <2>3. /\ DOMAIN tree' = all
        /\ \A p \in all : tree'[p] = IF all = {Root} THEN [votes |-> 0, leaf |-> TRUE] ELSE tree[p]
        /\ Root \in all
    BY <1>1, <1>5, PrunedNodes DEF KeptNodes
  <2>4. kept \subseteq all /\ Root \notin kept
    <3>1. kept \subseteq DOMAIN tree'
      BY <2>2 DEF FullAddresses
    <3>2. Root \notin kept
      BY <1>2, FullIsLeaf DEF FullAddresses
    <3> QED BY <2>3, <3>1, <3>2
  <2>5. kept = {} => all = {Root}
    <3> SUFFICES ASSUME NEW p \in all, p # Root PROVE kept # {}
      BY <2>3
    <3>1. Voted(tree, threshold, p)
      BY <1>1, <1>2, SurvivorsVoted DEF KeptNodes
    <3>2. PICK a \in DOMAIN tree : tree[a].leaf /\ tree[a].votes >= threshold
      BY <3>1 DEF Voted
    <3>3. Len(a) = Depth
      BY <1>2, <1>5, <3>2 DEF Branching
    <3> QED BY <3>2, <3>3 DEF FullAddresses
  <2> HIDE DEF kept, all
  <2>6. \A p \in kept : tree'[p] = tree[p]
    BY <2>3, <2>4
  <2>7. tree'[Root].votes = IF kept = {} THEN 0 ELSE tree[Root].votes
    <3>1. all = {Root} => kept = {}
      BY <2>4
    <3> QED BY <2>3, <2>5, <3>1
  <2>8. AsTable'.votes = [a \in kept |-> AsTable.votes[a]]
    <3>1. AsTable'.votes = [a \in kept |-> tree'[a].votes]
      BY <2>2 DEF AsTable
    <3>2. \A a \in kept : a \in FullAddresses
      BY DEF kept
    <3>3. \A a \in kept : AsTable.votes[a] = tree[a].votes
      BY <3>2, TableFields
    <3> QED BY <2>6, <3>1, <3>3
  <2>9. AsTable'.root = (IF kept = {} THEN 0 ELSE AsTable.root) /\ AsTable'.nodes = AsTable.nodes
    BY <1>1, <2>7 DEF AsTable
  <2>10. Table!Filter(AsTable, threshold)
           = [votes |-> [a \in kept |-> AsTable.votes[a]],
              root  |-> IF kept = {} THEN 0 ELSE AsTable.root,
              nodes |-> AsTable.nodes]
    BY <1>3, <1>5, <2>1, TableFields DEF Table!Filter
  <2>11. AsTable' = [votes |-> AsTable'.votes, root |-> AsTable'.root, nodes |-> AsTable'.nodes]
    BY DEF AsTable
  <2> QED BY <2>8, <2>9, <2>10, <2>11 DEF Table!FilterBelow
<1> QED BY <1>4, <1>5

\* The radix tree implements the table of votes by address: register_address
\* and filter, node by node, do to the tree what the table says, the phantom
\* vote of an empty tree's root and the counter of allocated nodes included.
THEOREM TreeImplementsTable == Spec => ImplementsTable
<1>1. Init => Table!Init
  BY InitRefines
<1>2. IInv /\ [Next]_vars => [Table!Next]_AsTable
  <2> SUFFICES ASSUME IInv, [Next]_vars PROVE [Table!Next]_AsTable
    OBVIOUS
  <2>1. CASE UNCHANGED vars
    BY <2>1 DEF vars, AsTable, FullAddresses
  <2>2. ASSUME NEW a \in Registered, RegisterAddress(a) PROVE Table!Next
    BY <2>2, RegisterRefines DEF Table!Next
  <2>3. ASSUME NEW threshold \in 0..MaxVotes + 1, FilterBelow(threshold) PROVE Table!Next
    BY <2>3, FilterRefines DEF Table!Next
  <2> QED BY <2>1, <2>2, <2>3 DEF Next
<1> QED BY <1>1, <1>2, Invariance, PTL DEF Spec, ImplementsTable, Table!Spec

-----------------------------------------------------------------------------
\* Numbers, and values computed step by step.

LEMMA LeastMember ==
  ASSUME NEW S, S \subseteq Nat, S # {}
  PROVE  \E x \in S : \A y \in S : x <= y
<1>1. PICK x \in S : \A y \in S : ~(<<y, x>> \in OpToRel(<, Nat))
  BY WFMin, NatLessThanWellFounded
<1>2. \A y \in S : ~(y < x)
  BY <1>1 DEF OpToRel
<1>3. \A y \in S : x <= y
  BY <1>2
<1> QED BY <1>3

LEMMA GreatestMember ==
  ASSUME NEW n \in Int, NEW S, S # {}, \A x \in S : x \in Int /\ x <= n
  PROVE  \E x \in S : \A y \in S : y <= x
<1> DEFINE T == {n - x : x \in S}
<1>1. T \subseteq Nat /\ T # {}
  <2>1. \A x \in S : n - x \in Nat
    OBVIOUS
  <2> QED BY <2>1
<1>2. PICK d \in T : \A e \in T : d <= e
  <2> HIDE DEF T
  <2> QED BY <1>1, LeastMember
<1>3. PICK x \in S : d = n - x
  BY <1>2
<1>4. ASSUME NEW y \in S PROVE y <= x
  <2>1. n - x <= n - y
    BY <1>2, <1>3
  <2> QED BY <2>1
<1> QED BY <1>4

\* A value computed in n steps exists.
Computes(f, n, R, x, step) ==
  /\ f \in [0..n -> R]
  /\ f[0] = x /\ \A i \in 1..n : f[i] = step[i][f[i - 1]]

LEMMA Recursion ==
  ASSUME NEW n \in Nat, NEW R, NEW x \in R, NEW step \in [1..n -> [R -> R]]
  PROVE  \E f : Computes(f, n, R, x, step)
<1> DEFINE P(m, f) == f[0] = x /\ \A i \in 1..m : f[i] = step[i][f[i - 1]]
           Bad == {m \in 0..n : ~\E f \in [0..m -> R] : P(m, f)}
<1>1. Bad = {}
  <2> SUFFICES ASSUME Bad # {} PROVE FALSE
    OBVIOUS
  <2>1. PICK m \in Bad : \A l \in Bad : m <= l
    <3>1. Bad \subseteq Nat
      OBVIOUS
    <3> HIDE DEF Bad
    <3> QED BY <3>1, LeastMember
  <2>2. CASE m = 0
    <3>1. [i \in 0..0 |-> x] \in [0..m -> R] /\ P(m, [i \in 0..0 |-> x])
      BY <2>2
    <3> QED BY <3>1
  <2>3. CASE m # 0
    <3>1. m \in 1..n /\ m - 1 \in 0..n /\ m - 1 \notin Bad
      <4>1. m \in 1..n
        BY <2>3
      <4>2. m - 1 \in 0..n /\ ~(m <= m - 1)
        BY <4>1
      <4> HIDE DEF Bad
      <4> QED BY <2>1, <4>1, <4>2
    <3>2. PICK f \in [0..m - 1 -> R] : P(m - 1, f)
      BY <3>1
    <3> DEFINE g == [i \in 0..m |-> IF i = m THEN step[m][f[m - 1]] ELSE f[i]]
    <3>3. \A i \in 0..m - 1 : g[i] = f[i] /\ f[i] \in R
      BY <3>1
    <3>4. g[m] = step[m][f[m - 1]] /\ g[m] \in R
      BY <3>1, <3>3
    <3>5. g \in [0..m -> R]
      BY <3>1, <3>3, <3>4
    <3>6. P(m, g)
      <4>1. g[0] = x
        BY <3>1, <3>2, <3>3
      <4>2. ASSUME NEW i \in 1..m PROVE g[i] = step[i][g[i - 1]]
        <5>1. i - 1 \in 0..m - 1 /\ g[i - 1] = f[i - 1]
          BY <3>1, <3>3
        <5>2. CASE i = m
          BY <3>4, <5>1, <5>2
        <5>3. CASE i # m
          <6>1. i \in 1..m - 1 /\ i \in 0..m - 1
            BY <3>1, <5>3
          <6> QED BY <3>2, <3>3, <5>1, <6>1
        <5> QED BY <5>2, <5>3
      <4> HIDE DEF g
      <4> QED BY <4>1, <4>2
    <3> HIDE DEF g, P
    <3> QED BY <3>5, <3>6
  <2> QED BY <2>2, <2>3
<1>2. PICK f \in [0..n -> R] : P(n, f)
  <2>1. n \in 0..n
    OBVIOUS
  <2>2. ~(n \in 0..n /\ ~\E f \in [0..n -> R] : P(n, f))
    <3> HIDE DEF P
    <3>1. n \notin Bad
      <4> HIDE DEF Bad
      <4> QED BY <1>1
    <3> QED BY <3>1
  <2> QED BY <2>1, <2>2
<1> QED BY <1>2 DEF Computes

\* A recursive function on 0..n whose steps stay in R has its values there.
LEMMA RecursionStays ==
  ASSUME NEW n \in Nat, NEW R, NEW f,
         f[0] \in R, \A i \in 1..n : f[i - 1] \in R => f[i] \in R
  PROVE  \A i \in 0..n : f[i] \in R
<1> DEFINE Bad == {i \in 0..n : f[i] \notin R}
<1> SUFFICES ASSUME Bad # {} PROVE FALSE
  OBVIOUS
<1>1. PICK m \in Bad : \A l \in Bad : m <= l
  <2>1. Bad \subseteq Nat
    OBVIOUS
  <2> HIDE DEF Bad
  <2> QED BY <2>1, LeastMember
<1>2. m \in 1..n /\ m - 1 \in 0..n /\ ~(m <= m - 1)
  OBVIOUS
<1>3. m - 1 \notin Bad
  <2> HIDE DEF Bad
  <2> QED BY <1>1, <1>2
<1> QED BY <1>2, <1>3

\* Joining lists one after the other.
Joins(f, lists, n, T) ==
  /\ f \in [0..n -> Seq(T)] /\ f[0] = <<>>
  /\ \A i \in 1..n : f[i] = f[i - 1] \o lists[i]

LEMMA FlattenJoins ==
  ASSUME NEW n \in Nat \ {0}, NEW T, NEW lists \in [1..n -> Seq(T)]
  PROVE  \E f : Joins(f, lists, n, T) /\ FlattenSeq(lists) = f[n]
<1> DEFINE step == [i \in 1..n |-> [l \in Seq(T) |-> l \o lists[i]]]
<1>1. step \in [1..n -> [Seq(T) -> Seq(T)]]
  OBVIOUS
<1>2. \A i \in 1..n, l \in Seq(T) : step[i][l] = l \o lists[i]
  OBVIOUS
<1> HIDE DEF step
<1>3. PICK g : Computes(g, n, Seq(T), <<>>, step)
  <2>1. <<>> \in Seq(T)
    OBVIOUS
  <2> QED BY <1>1, <2>1, Recursion
<1>4. Joins(g, lists, n, T)
  <2>1. ASSUME NEW i \in 1..n PROVE g[i] = g[i - 1] \o lists[i]
    <3>1. i - 1 \in 0..n
      OBVIOUS
    <3> QED BY <1>2, <1>3, <3>1 DEF Computes
  <2> QED BY <1>3, <2>1 DEF Computes, Joins
<1>5. g[1] = lists[1]
  <2>1. 1 \in 1..n /\ 1 - 1 = 0 /\ lists[1] \in Seq(T)
    OBVIOUS
  <2>2. g[1] = <<>> \o lists[1]
    BY <1>4, <2>1 DEF Joins
  <2> QED BY <2>1, <2>2
<1> DEFINE Body(f) == [i \in 1..n |-> IF i = 1 THEN lists[i] ELSE f[i - 1] \o lists[i]]
           flatten == CHOOSE f : f = Body(f)
           h == [i \in 1..n |-> g[i]]
<1>6. h = Body(h)
  <2>1. ASSUME NEW i \in 1..n PROVE h[i] = IF i = 1 THEN lists[i] ELSE h[i - 1] \o lists[i]
    <3>1. CASE i = 1
      BY <1>5, <3>1
    <3>2. CASE i # 1
      <4>1. i - 1 \in 1..n
        BY <3>2
      <4> QED BY <1>4, <3>2, <4>1 DEF Joins
    <3> QED BY <3>1, <3>2
  <2>2. h = [i \in 1..n |-> h[i]]
    OBVIOUS
  <2> HIDE DEF h
  <2> QED BY <2>1, <2>2
<1>7. flatten = Body(flatten)
  <2> HIDE DEF Body, h
  <2> QED BY <1>6
<1>8. FlattenSeq(lists) = flatten[n]
  <2>1. Len(lists) = n
    BY LenProperties
  <2> QED BY <2>1 DEF FlattenSeq
<1> HIDE DEF flatten, h
<1>9. \A i \in 1..n : flatten[i] = IF i = 1 THEN lists[i] ELSE flatten[i - 1] \o lists[i]
  BY <1>7
<1> DEFINE same == [i \in 0..n |-> i = 0 \/ flatten[i] = g[i]]
           Yes  == {TRUE}
<1>10. same[0] \in Yes
  <2>1. 0 \in 0..n
    OBVIOUS
  <2> QED BY <2>1
<1>11. ASSUME NEW i \in 1..n, same[i - 1] \in Yes PROVE same[i] \in Yes
  <2>1. i \in 0..n /\ i - 1 \in 0..n
    OBVIOUS
  <2>2. i - 1 = 0 \/ flatten[i - 1] = g[i - 1]
    BY <1>11, <2>1
  <2>3. flatten[i] = g[i]
    <3>1. CASE i = 1
      BY <1>5, <1>9, <3>1
    <3>2. CASE i # 1
      <4>1. flatten[i - 1] = g[i - 1]
        BY <2>2, <3>2
      <4>2. flatten[i] = flatten[i - 1] \o lists[i]
        BY <1>9, <3>2
      <4>3. g[i] = g[i - 1] \o lists[i]
        BY <1>4 DEF Joins
      <4> QED BY <4>1, <4>2, <4>3
    <3> QED BY <3>1, <3>2
  <2> QED BY <2>1, <2>3
<1>12. same[n] \in Yes
  <2> HIDE DEF same, Yes
  <2>1. \A i \in 0..n : same[i] \in Yes
    BY <1>10, <1>11, RecursionStays, Zenon
  <2> QED BY <2>1
<1>13. flatten[n] = g[n]
  <2>1. n \in 0..n
    OBVIOUS
  <2> QED BY <1>12, <2>1
<1> QED BY <1>4, <1>8, <1>13

\* Adding numbers up.
Adds(f, counts) ==
  /\ f \in [0..Radix -> Nat] /\ f[0] = 0
  /\ \A k \in 1..Radix : f[k] = f[k - 1] + counts[k]

LEMMA TotalAdds ==
  ASSUME NEW counts \in [1..Radix -> Nat]
  PROVE  \E f : Adds(f, counts) /\ Total(counts) = f[Radix]
<1>0. Radix \in Nat \ {0}
  BY TreeAssumption
<1> DEFINE step == [k \in 1..Radix |-> [v \in Nat |-> v + counts[k]]]
<1>1. step \in [1..Radix -> [Nat -> Nat]] /\ \A k \in 1..Radix, v \in Nat : step[k][v] = v + counts[k]
  OBVIOUS
<1> HIDE DEF step
<1>2. PICK g : Computes(g, Radix, Nat, 0, step)
  BY <1>0, <1>1, Recursion
<1> DEFINE Body(f) == [k \in 0..Radix |-> IF k = 0 THEN 0 ELSE f[k - 1] + counts[k]]
           sum == CHOOSE f : f = Body(f)
<1>3. Adds(g, counts)
  <2>1. ASSUME NEW k \in 1..Radix PROVE g[k] = g[k - 1] + counts[k]
    <3>1. k - 1 \in 0..Radix
      BY <1>0
    <3> QED BY <1>1, <1>2, <3>1 DEF Computes
  <2> QED BY <1>2, <2>1 DEF Computes, Adds
<1>4. g = Body(g)
  <2>1. ASSUME NEW k \in 0..Radix PROVE g[k] = IF k = 0 THEN 0 ELSE g[k - 1] + counts[k]
    <3>1. k = 0 \/ k \in 1..Radix
      BY <1>0
    <3> QED BY <1>3, <3>1 DEF Adds
  <2>2. g = [k \in 0..Radix |-> g[k]]
    BY <1>3 DEF Adds
  <2> QED BY <2>1, <2>2
<1>5. sum = Body(sum)
  <2> HIDE DEF Body
  <2> QED BY <1>4
<1>6. Total(counts) = sum[Radix]
  BY DEF Total
<1> HIDE DEF sum
<1>7. Adds(sum, counts)
  <2>1. sum[0] = 0
    BY <1>0, <1>5
  <2>2. ASSUME NEW k \in 1..Radix PROVE sum[k] = sum[k - 1] + counts[k]
    <3>1. k \in 0..Radix /\ k # 0
      BY <1>0
    <3> QED BY <1>5, <3>1
  <2>3. \A k \in 0..Radix : sum[k] \in Nat
    <3>1. \A k \in 1..Radix : sum[k - 1] \in Nat => sum[k] \in Nat
      BY <2>2
    <3>2. sum[0] \in Nat /\ Radix \in Nat
      BY <1>0, <2>1
    <3> QED BY <3>1, <3>2, RecursionStays, Zenon
  <2>4. sum \in [0..Radix -> Nat]
    BY <1>5, <2>3
  <2> QED BY <2>1, <2>2, <2>4 DEF Adds
<1> QED BY <1>6, <1>7

-----------------------------------------------------------------------------
\* The number that an address is.

\* v[k] is the number of the first k digits of p.
Evaluates(v, p) ==
  /\ v \in [0..Len(p) -> Nat] /\ v[0] = 0
  /\ \A k \in 1..Len(p) : v[k] = v[k - 1] * Radix + p[k]

LEMMA ValueEvaluates ==
  ASSUME NEW p \in Seq(Digit)
  PROVE  \E v : Evaluates(v, p) /\ Value(p) = v[Len(p)]
<1>0. /\ Radix \in Nat \ {0} /\ Len(p) \in Nat
      /\ \A k \in 1..Len(p) : p[k] \in Nat
  BY TreeAssumption DEF Digit
<1> DEFINE n == Len(p)
           step == [k \in 1..n |-> [x \in Nat |-> x * Radix + p[k]]]
<1>1. step \in [1..n -> [Nat -> Nat]] /\ \A k \in 1..n, x \in Nat : step[k][x] = x * Radix + p[k]
  <2>1. \A k \in 1..n, x \in Nat : x * Radix + p[k] \in Nat
    BY <1>0
  <2> QED BY <2>1
<1> HIDE DEF step
<1>2. PICK g : Computes(g, n, Nat, 0, step)
  BY <1>0, <1>1, Recursion
<1> DEFINE Body(f) == [k \in 0..Len(p) |-> IF k = 0 THEN 0 ELSE f[k - 1] * Radix + p[k]]
           value == CHOOSE f : f = Body(f)
<1>3. Evaluates(g, p)
  <2>1. ASSUME NEW k \in 1..n PROVE g[k] = g[k - 1] * Radix + p[k]
    <3>1. k - 1 \in 0..n
      BY <1>0
    <3>2. g[k - 1] \in Nat /\ g[k] = step[k][g[k - 1]]
      BY <1>2, <3>1 DEF Computes
    <3> QED BY <1>1, <3>2
  <2> QED BY <1>2, <2>1 DEF Computes, Evaluates
<1>4. g = Body(g)
  <2>1. ASSUME NEW k \in 0..Len(p) PROVE g[k] = IF k = 0 THEN 0 ELSE g[k - 1] * Radix + p[k]
    <3>1. k = 0 \/ k \in 1..Len(p)
      BY <1>0
    <3> QED BY <1>3, <3>1 DEF Evaluates
  <2>2. g = [k \in 0..Len(p) |-> g[k]]
    BY <1>3 DEF Evaluates
  <2> QED BY <2>1, <2>2
<1>5. value = Body(value)
  <2> HIDE DEF Body
  <2> QED BY <1>4
<1>6. Value(p) = value[Len(p)]
  BY DEF Value
<1> HIDE DEF value
<1>7. Evaluates(value, p)
  <2>1. value[0] = 0
    BY <1>0, <1>5
  <2>2. ASSUME NEW k \in 1..Len(p) PROVE value[k] = value[k - 1] * Radix + p[k]
    <3>1. k \in 0..Len(p) /\ k # 0
      BY <1>0
    <3> QED BY <1>5, <3>1
  <2>3. \A k \in 0..Len(p) : value[k] \in Nat
    <3>1. ASSUME NEW k \in 1..n, value[k - 1] \in Nat PROVE value[k] \in Nat
      <4>1. value[k] = value[k - 1] * Radix + p[k] /\ p[k] \in Nat
        BY <1>0, <2>2
      <4>2. value[k - 1] * Radix \in Nat
        BY <1>0, <3>1
      <4> QED BY <4>1, <4>2
    <3>2. value[0] \in Nat /\ n \in Nat
      BY <1>0, <2>1
    <3> HIDE DEF n
    <3>3. \A k \in 0..n : value[k] \in Nat
      BY <3>1, <3>2, RecursionStays, Zenon
    <3> QED BY <3>3 DEF n
  <2>4. value \in [0..Len(p) -> Nat]
    BY <1>5, <2>3
  <2> QED BY <2>1, <2>2, <2>4 DEF Evaluates
<1> QED BY <1>6, <1>7

\* Once a number is below another, no further digits turn them round.
LEMMA DigitsKeepOrder ==
  ASSUME NEW x \in Nat, NEW y \in Nat, x + 1 <= y, NEW d \in Digit, NEW e \in Digit
  PROVE  (x * Radix + d) + 1 <= y * Radix + e
<1>1. Radix \in Nat \ {0} /\ d \in Nat /\ d + 1 <= Radix /\ e \in Nat
  BY TreeAssumption DEF Digit
<1>2. PICK z \in Nat : y = (x + 1) + z
  <2>1. y - (x + 1) \in Nat /\ y = (x + 1) + (y - (x + 1))
    OBVIOUS
  <2> QED BY <2>1
<1>3. y * Radix = (x * Radix + Radix) + z * Radix
  BY <1>1, <1>2
<1>4. x * Radix \in Nat /\ z * Radix \in Nat
  BY <1>1
<1> DEFINE xr == x * Radix
           zr == z * Radix
           yr == y * Radix
<1>5. xr \in Nat /\ zr \in Nat /\ yr = (xr + Radix) + zr
  BY <1>3, <1>4
<1> HIDE DEF xr, zr, yr
<1>6. (xr + d) + 1 <= yr + e
  BY <1>1, <1>5
<1> QED BY <1>6 DEF xr, yr

\* Addresses of one length are ordered as their digits are: by the first in
\* which they differ.
LEMMA ValueAscends ==
  ASSUME NEW a \in Seq(Digit), NEW b \in Seq(Digit), Len(a) = Len(b),
         NEW m \in 1..Len(a), Prefix(a, m - 1) = Prefix(b, m - 1), a[m] < b[m]
  PROVE  Value(a) < Value(b)
<1>0. Radix \in Nat \ {0} /\ Len(a) \in Nat /\ m \in Nat
  BY TreeAssumption
<1>1. PICK v : Evaluates(v, a) /\ Value(a) = v[Len(a)]
  BY ValueEvaluates
<1>2. PICK w : Evaluates(w, b) /\ Value(b) = w[Len(b)]
  BY ValueEvaluates
<1> DEFINE n == Len(a)
<1>3. \A k \in 1..m - 1 : a[k] = b[k]
  <2>1. m - 1 \in 0..Len(a) /\ m - 1 \in 0..Len(b)
    BY <1>0
  <2> QED BY <2>1, PrefixFacts
<1>4. v[m - 1] = w[m - 1]
  <2> DEFINE same == [k \in 0..m - 1 |-> v[k] = w[k]]
             Yes  == {TRUE}
  <2>1. same[0] \in Yes
    <3>1. 0 \in 0..m - 1
      BY <1>0
    <3> QED BY <1>1, <1>2, <3>1 DEF Evaluates
  <2>2. ASSUME NEW k \in 1..m - 1, same[k - 1] \in Yes PROVE same[k] \in Yes
    <3>1. k \in 0..m - 1 /\ k - 1 \in 0..m - 1 /\ k \in 1..Len(a) /\ k \in 1..Len(b)
      BY <1>0
    <3>2. v[k] = v[k - 1] * Radix + a[k] /\ w[k] = w[k - 1] * Radix + b[k]
      BY <1>1, <1>2, <3>1 DEF Evaluates
    <3>3. v[k - 1] = w[k - 1]
      BY <2>2, <3>1
    <3>4. v[k] = w[k]
      BY <1>3, <3>2, <3>3
    <3> QED BY <3>1, <3>4
  <2>3. same[m - 1] \in Yes
    <3> HIDE DEF same, Yes
    <3>0. m - 1 \in Nat
      BY <1>0
    <3>1. \A k \in 0..m - 1 : same[k] \in Yes
      BY <2>1, <2>2, <3>0, RecursionStays, Zenon
    <3>2. m - 1 \in 0..m - 1
      BY <3>0
    <3> QED BY <3>1, <3>2
  <2>4. m - 1 \in 0..m - 1
    BY <1>0
  <2> QED BY <2>3, <2>4
<1>5. /\ \A k \in 0..n : v[k] \in Nat /\ w[k] \in Nat
      /\ \A k \in 1..n : /\ v[k] = v[k - 1] * Radix + a[k] /\ w[k] = w[k - 1] * Radix + b[k]
                         /\ a[k] \in Digit /\ b[k] \in Digit
  <2>1. \A k \in 0..n : v[k] \in Nat /\ w[k] \in Nat
    BY <1>1, <1>2 DEF Evaluates
  <2>2. \A k \in 1..n : v[k] = v[k - 1] * Radix + a[k]
    BY <1>1 DEF Evaluates
  <2>3. \A k \in 1..n : w[k] = w[k - 1] * Radix + b[k]
    BY <1>2 DEF Evaluates
  <2>4. \A k \in 1..n : a[k] \in Digit /\ b[k] \in Digit
    OBVIOUS
  <2> QED BY <2>1, <2>2, <2>3, <2>4
<1> DEFINE less == [k \in 0..n |-> k < m \/ v[k] + 1 <= w[k]]
           Yes  == {TRUE}
<1>6. less[0] \in Yes
  <2>1. 0 \in 0..n /\ 0 < m
    BY <1>0
  <2> QED BY <2>1
<1>7. ASSUME NEW k \in 1..n, less[k - 1] \in Yes PROVE less[k] \in Yes
  <2>1. k \in 0..n /\ k - 1 \in 0..n
    BY <1>0
  <2>2. CASE k < m
    BY <2>1, <2>2
  <2>3. CASE k = m
    <3>1. /\ v[m] = v[m - 1] * Radix + a[m] /\ w[m] = v[m - 1] * Radix + b[m]
          /\ a[m] \in Int /\ b[m] \in Int /\ v[m - 1] \in Nat
      BY <1>4, <1>5, <2>1, <2>3 DEF Digit
    <3>2. v[m - 1] * Radix \in Nat
      BY <1>0, <3>1
    <3>3. v[m] + 1 <= w[m]
      BY <3>1, <3>2
    <3> QED BY <2>1, <2>3, <3>3
  <2>4. CASE m < k
    <3>1. v[k - 1] + 1 <= w[k - 1]
      <4>1. k - 1 < m \/ v[k - 1] + 1 <= w[k - 1]
        BY <1>7, <2>1
      <4>2. ~(k - 1 < m)
        BY <1>0, <2>4
      <4> QED BY <4>1, <4>2
    <3>2. v[k - 1] \in Nat /\ w[k - 1] \in Nat /\ a[k] \in Digit /\ b[k] \in Digit
      BY <1>5, <2>1
    <3>3. (v[k - 1] * Radix + a[k]) + 1 <= w[k - 1] * Radix + b[k]
      BY <3>1, <3>2, DigitsKeepOrder
    <3>4. v[k] + 1 <= w[k]
      BY <1>5, <3>3
    <3> QED BY <2>1, <3>4
  <2>5. k < m \/ k = m \/ m < k
    BY <1>0
  <2> QED BY <2>2, <2>3, <2>4, <2>5
<1>8. less[n] \in Yes
  <2> HIDE DEF less, Yes
  <2>1. \A k \in 0..n : less[k] \in Yes
    BY <1>0, <1>6, <1>7, RecursionStays, Zenon
  <2>2. n \in 0..n
    BY <1>0
  <2> QED BY <2>1, <2>2
<1>9. v[n] + 1 <= w[n] /\ n \in 0..n
  <2>1. n \in 0..n /\ ~(n < m)
    BY <1>0
  <2> QED BY <1>8, <2>1
<1>10. v[n] \in Nat /\ w[n] \in Nat
  BY <1>5, <1>9
<1> QED BY <1>1, <1>2, <1>9, <1>10

-----------------------------------------------------------------------------
\* Recursions over the tree.

\* A recursion in which a node depends on its children has a solution: what
\* the step does not change any more grows from the leaves to the root.
LEMMA TreeRecursion ==
  ASSUME NEW t, Nodes(t), NEW R, R # {},
         NEW body \in [[DOMAIN t -> R] -> [DOMAIN t -> R]],
         \A f, g \in [DOMAIN t -> R], p \in DOMAIN t :
           (\A q \in Children(t, p) : f[q] = g[q]) => body[f][p] = body[g][p]
  PROVE  \E f \in [DOMAIN t -> R] : f = body[f]
<1> DEFINE F == [DOMAIN t -> R]
           n == Depth + 1
           step == [i \in 1..n |-> body]
<1>0. n \in Nat /\ Depth \in Nat
  BY TreeAssumption
<1>1. PICK x \in F : TRUE
  <2>1. PICK r \in R : TRUE
    OBVIOUS
  <2>2. [p \in DOMAIN t |-> r] \in F
    OBVIOUS
  <2> QED BY <2>2
<1>2. body \in [F -> F]
  OBVIOUS
<1>3. \A f, g \in F, p \in DOMAIN t :
        (\A q \in Children(t, p) : f[q] = g[q]) => body[f][p] = body[g][p]
  OBVIOUS
<1>4. step \in [1..n -> [F -> F]] /\ \A i \in 1..n : step[i] = body
  <2> HIDE DEF F, n
  <2> QED BY <1>2
<1> HIDE DEF n, step
<1>5. PICK h : Computes(h, n, F, x, step)
  <2> HIDE DEF F
  <2> QED BY <1>0, <1>1, <1>4, Recursion
<1>6. /\ \A i \in 0..n : h[i] \in F
      /\ \A i \in 1..n : h[i] = body[h[i - 1]]
  <2> HIDE DEF F
  <2> QED BY <1>4, <1>5 DEF Computes
<1>7. \A p \in DOMAIN t : Len(p) \in Nat /\ Len(p) <= Depth /\ p \in Seq(Digit)
  BY DEF Nodes
<1> DEFINE stable == [i \in 0..n |->
                        \A p \in DOMAIN t : Len(p) + i > Depth => h[i][p] = body[h[i]][p]]
           Yes == {TRUE}
<1>8. stable[0] \in Yes
  <2>1. 0 \in 0..n
    BY <1>0
  <2>2. \A p \in DOMAIN t : ~(Len(p) + 0 > Depth)
    BY <1>0, <1>7
  <2> QED BY <2>1, <2>2
<1>9. ASSUME NEW i \in 1..n, stable[i - 1] \in Yes PROVE stable[i] \in Yes
  <2>1. i \in 0..n /\ i - 1 \in 0..n
    BY <1>0
  <2>2. \A p \in DOMAIN t : Len(p) + (i - 1) > Depth => h[i - 1][p] = body[h[i - 1]][p]
    BY <1>9, <2>1
  <2>3. h[i] = body[h[i - 1]] /\ h[i] \in F /\ h[i - 1] \in F
    BY <1>6, <2>1
  <2>4. ASSUME NEW p \in DOMAIN t, Len(p) + i > Depth PROVE h[i][p] = body[h[i]][p]
    <3>1. ASSUME NEW q \in Children(t, p) PROVE h[i - 1][q] = h[i][q]
      <4>1. q \in DOMAIN t /\ Len(q) = Len(p) + 1
        BY <1>7, ChildFacts DEF Children
      <4>2. Len(q) + (i - 1) > Depth
        BY <1>0, <1>7, <2>4, <4>1
      <4> QED BY <2>2, <2>3, <4>1, <4>2
    <3>2. body[h[i - 1]][p] = body[h[i]][p]
      <4> HIDE DEF F
      <4> QED BY <1>3, <2>3, <3>1
    <3> QED BY <2>3, <3>2
  <2> HIDE DEF F
  <2> QED BY <2>1, <2>4
<1>10. stable[n] \in Yes
  <2> HIDE DEF stable, Yes
  <2>1. \A i \in 0..n : stable[i] \in Yes
    BY <1>0, <1>8, <1>9, RecursionStays, Zenon
  <2>2. n \in 0..n
    BY <1>0
  <2> QED BY <2>1, <2>2
<1>11. \A p \in DOMAIN t : h[n][p] = body[h[n]][p]
  <2>1. n \in 0..n
    BY <1>0
  <2>2. \A p \in DOMAIN t : Len(p) + n > Depth
    BY <1>0, <1>7 DEF n
  <2> QED BY <1>10, <2>1, <2>2
<1>12. h[n] \in [DOMAIN t -> R] /\ body[h[n]] \in [DOMAIN t -> R]
  <2>1. n \in 0..n
    BY <1>0
  <2>2. h[n] \in F
    BY <1>6, <2>1
  <2> QED BY <1>2, <2>2
<1>13. h[n] = body[h[n]]
  BY <1>11, <1>12
<1> QED BY <1>12, <1>13

\* What OfChildren lists depends on the children alone.
LEMMA OfChildrenIsLocal ==
  ASSUME NEW t, NEW p, NEW f, NEW g, NEW none, \A q \in Children(t, p) : f[q] = g[q]
  PROVE  OfChildren(t, p, f, none) = OfChildren(t, p, g, none)
<1>1. ASSUME NEW k \in 1..Radix, Child(p, k - 1) \in DOMAIN t
      PROVE  f[Child(p, k - 1)] = g[Child(p, k - 1)]
  <2>1. k - 1 \in Digit
    BY TreeAssumption DEF Digit
  <2> QED BY <1>1, <2>1 DEF Children
<1> QED BY <1>1 DEF OfChildren

LEMMA OfChildrenHolds ==
  ASSUME NEW t, NEW p, NEW T, NEW f \in [DOMAIN t -> T], NEW none \in T
  PROVE  OfChildren(t, p, f, none) \in [1..Radix -> T]
BY DEF OfChildren

-----------------------------------------------------------------------------
\* The leaves below a node.

LeavesOf(t, p) == {a \in DOMAIN t : t[a].leaf /\ Below(a, p)}

\* Those below its child k - 1, if there is one, and below its first k.
LeavesAt(t, p, k) ==
  IF Child(p, k - 1) \in DOMAIN t THEN LeavesOf(t, Child(p, k - 1)) ELSE {}
LeavesUpTo(t, p, k) == UNION {LeavesAt(t, p, j) : j \in 1..k}

LEMMA LeafAlone ==
  ASSUME NEW t, Nodes(t), Branching(t), NEW p \in DOMAIN t, t[p].leaf
  PROVE  LeavesOf(t, p) = {p}
<1>1. Below(p, p)
  BY BelowSelf DEF Nodes
<1>2. ASSUME NEW a \in LeavesOf(t, p) PROVE a = p
  BY LeafEnds DEF LeavesOf
<1> QED BY <1>1, <1>2 DEF LeavesOf

LEMMA LeavesSplit ==
  ASSUME NEW t, Nodes(t), Branching(t), NEW p \in DOMAIN t, ~t[p].leaf
  PROVE  LeavesOf(t, p) = LeavesUpTo(t, p, Radix)
<1>1. \A a \in DOMAIN t : a \in Seq(Digit)
  BY DEF Nodes
<1>2. ASSUME NEW a \in LeavesOf(t, p) PROVE a \in LeavesUpTo(t, p, Radix)
  <2>1. a \in DOMAIN t /\ t[a].leaf /\ Below(a, p) /\ a # p
    BY DEF LeavesOf
  <2>2. PICK d \in Digit : Child(p, d) = Prefix(a, Len(p) + 1)
    BY <1>1, <2>1, BelowChild
  <2>3. Child(p, d) \in DOMAIN t /\ Below(a, Child(p, d))
    BY <1>1, <2>1, <2>2, BelowChild, Ancestors
  <2>4. d + 1 \in 1..Radix /\ (d + 1) - 1 = d
    BY TreeAssumption DEF Digit
  <2>5. a \in LeavesAt(t, p, d + 1)
    BY <2>1, <2>3, <2>4 DEF LeavesAt, LeavesOf
  <2> QED BY <2>4, <2>5 DEF LeavesUpTo
<1>3. ASSUME NEW a \in LeavesUpTo(t, p, Radix) PROVE a \in LeavesOf(t, p)
  <2>1. PICK k \in 1..Radix : a \in LeavesAt(t, p, k)
    BY DEF LeavesUpTo
  <2>2. k - 1 \in Digit
    BY TreeAssumption DEF Digit
  <2>3. /\ Child(p, k - 1) \in DOMAIN t /\ a \in DOMAIN t /\ t[a].leaf
        /\ Below(a, Child(p, k - 1))
    BY <2>1 DEF LeavesAt, LeavesOf
  <2>4. Child(p, k - 1) # Root /\ Front(Child(p, k - 1)) = p
    BY <1>1, <2>2, ChildFacts
  <2>5. Below(a, p)
    BY <1>1, <2>3, <2>4, BelowFront
  <2> QED BY <2>3, <2>5 DEF LeavesOf
<1> QED BY <1>2, <1>3

\* Leaves below an earlier child are smaller addresses.
LEMMA BranchesOrdered ==
  ASSUME NEW t, Nodes(t), Branching(t), NEW p \in DOMAIN t,
         NEW i \in 1..Radix, NEW j \in 1..Radix, i < j,
         NEW a \in LeavesAt(t, p, i), NEW b \in LeavesAt(t, p, j)
  PROVE  Value(a) < Value(b)
<1> DEFINE m == Len(p) + 1
<1>1. /\ p \in Seq(Digit) /\ a \in Seq(Digit) /\ b \in Seq(Digit) /\ Len(p) \in Nat
      /\ a \in DOMAIN t /\ t[a].leaf /\ Below(a, Child(p, i - 1))
      /\ b \in DOMAIN t /\ t[b].leaf /\ Below(b, Child(p, j - 1))
  BY DEF Nodes, LeavesAt, LeavesOf
<1>2. i - 1 \in Digit /\ j - 1 \in Digit /\ i - 1 < j - 1
  BY TreeAssumption DEF Digit
<1>3. ASSUME NEW c \in Seq(Digit), NEW d \in Digit, Below(c, Child(p, d)),
             c \in DOMAIN t, t[c].leaf
      PROVE  /\ Len(c) = Depth /\ m \in 1..Len(c) /\ c[m] = d /\ Prefix(c, m - 1) = p
  <2>1. /\ Len(Child(p, d)) = m /\ m <= Len(c) /\ Prefix(c, m) = Child(p, d)
        /\ Len(c) \in Nat /\ m \in Nat /\ m - 1 = Len(p) /\ m >= 1
    <3>1. Len(Child(p, d)) = m
      BY <1>1, ChildFacts
    <3>2. Len(Child(p, d)) <= Len(c) /\ Prefix(c, Len(Child(p, d))) = Child(p, d)
      BY <1>3 DEF Below
    <3>3. Len(c) \in Nat /\ m \in Nat /\ m - 1 = Len(p) /\ m >= 1
      BY <1>1
    <3> QED BY <3>1, <3>2, <3>3
  <2>2. c # Root
    BY <2>1 DEF Root
  <2>3. Len(c) = Depth
    BY <1>3, <2>2 DEF Branching
  <2>4. m \in 1..Len(c) /\ m \in 0..Len(c) /\ m \in 1..m /\ Len(p) \in 0..m
    BY <1>1, <2>1
  <2>5. c[m] = Child(p, d)[m]
    BY <2>1, <2>4, PrefixFacts
  <2>6. Child(p, d)[m] = d
    BY <1>1 DEF Child
  <2>7. Prefix(Prefix(c, m), Len(p)) = Prefix(c, Len(p))
    BY <2>4, PrefixOfPrefix
  <2>8. Prefix(Child(p, d), Len(p)) = p
    <3>1. /\ Child(p, d) \in Seq(Digit) /\ Child(p, d) # Root /\ Front(Child(p, d)) = p
      BY <1>1, ChildFacts
    <3>2. Front(Child(p, d)) = Prefix(Child(p, d), Len(Child(p, d)) - 1)
      BY <3>1, FrontFacts
    <3> QED BY <2>1, <3>1, <3>2
  <2> QED BY <2>1, <2>3, <2>4, <2>5, <2>6, <2>7, <2>8
<1>4. /\ Len(a) = Depth /\ m \in 1..Len(a) /\ a[m] = i - 1 /\ Prefix(a, m - 1) = p
      /\ Len(b) = Depth /\ b[m] = j - 1 /\ Prefix(b, m - 1) = p
  BY <1>1, <1>2, <1>3
<1> HIDE DEF m
<1> QED BY <1>1, <1>2, <1>4, ValueAscends

-----------------------------------------------------------------------------
\* collect_leaves.

Entries == [address : Nat, votes : 0..MaxVotes]
Entry(t, a) == [address |-> Value(a), votes |-> t[a].votes]

\* l reports the leaves A of t, in ascending address order.
LeafList(t, l, A) ==
  /\ l \in Seq(Entries)
  /\ \A i \in 1..Len(l) : \E a \in A : l[i] = Entry(t, a)
  /\ \A a \in A : \E i \in 1..Len(l) : l[i] = Entry(t, a)
  /\ \A i, j \in 1..Len(l) : i < j => l[i].address < l[j].address

LEMMA NoLeaves == ASSUME NEW t PROVE LeafList(t, <<>>, {})
BY DEF LeafList

LEMMA ListsJoin ==
  ASSUME NEW t, NEW l, NEW m, NEW A, NEW B, LeafList(t, l, A), LeafList(t, m, B),
         \A a \in A, b \in B : Value(a) < Value(b)
  PROVE  LeafList(t, l \o m, A \cup B)
<1> DEFINE lm == l \o m
<1>1. /\ l \in Seq(Entries) /\ m \in Seq(Entries) /\ Len(l) \in Nat /\ Len(m) \in Nat
  BY DEF LeafList
<1>2. /\ lm \in Seq(Entries) /\ Len(lm) = Len(l) + Len(m)
      /\ \A i \in 1..Len(l) : lm[i] = l[i]
      /\ \A i \in Len(l) + 1..Len(l) + Len(m) : lm[i] = m[i - Len(l)]
  <2> HIDE DEF Entries
  <2> QED BY <1>1, ConcatProperties
<1> HIDE DEF lm
<1>3. \A i \in 1..Len(lm) : \/ i \in 1..Len(l) /\ lm[i] = l[i]
                            \/ /\ i \in Len(l) + 1..Len(l) + Len(m) /\ i - Len(l) \in 1..Len(m)
                               /\ lm[i] = m[i - Len(l)]
  BY <1>1, <1>2
<1>4. ASSUME NEW i \in 1..Len(lm) PROVE \E a \in A \cup B : lm[i] = Entry(t, a)
  <2>1. CASE i \in 1..Len(l) /\ lm[i] = l[i]
    <3>1. \E a \in A : l[i] = Entry(t, a)
      BY <2>1 DEF LeafList
    <3> QED BY <2>1, <3>1
  <2>2. CASE i - Len(l) \in 1..Len(m) /\ lm[i] = m[i - Len(l)]
    <3>1. \E b \in B : m[i - Len(l)] = Entry(t, b)
      BY <2>2 DEF LeafList
    <3> QED BY <2>2, <3>1
  <2> QED BY <1>3, <2>1, <2>2
<1>5. ASSUME NEW a \in A \cup B PROVE \E i \in 1..Len(lm) : lm[i] = Entry(t, a)
  <2>1. CASE a \in A
    <3>1. PICK i \in 1..Len(l) : l[i] = Entry(t, a)
      BY <2>1 DEF LeafList
    <3>2. i \in 1..Len(lm) /\ lm[i] = l[i]
      BY <1>1, <1>2
    <3> QED BY <3>1, <3>2
  <2>2. CASE a \in B
    <3>1. PICK i \in 1..Len(m) : m[i] = Entry(t, a)
      BY <2>2 DEF LeafList
    <3>2. /\ Len(l) + i \in 1..Len(lm) /\ Len(l) + i \in Len(l) + 1..Len(l) + Len(m)
          /\ (Len(l) + i) - Len(l) = i
      BY <1>1, <1>2
    <3>3. lm[Len(l) + i] = m[i]
      BY <1>2, <3>2
    <3> QED BY <3>1, <3>2, <3>3
  <2> QED BY <2>1, <2>2
<1>6. ASSUME NEW i \in 1..Len(lm), NEW j \in 1..Len(lm), i < j
      PROVE  lm[i].address < lm[j].address
  <2>1. CASE i \in 1..Len(l) /\ j \in 1..Len(l)
    BY <1>2, <1>6, <2>1 DEF LeafList
  <2>2. CASE i \in 1..Len(l) /\ j \notin 1..Len(l)
    <3>1. PICK a \in A : lm[i] = Entry(t, a)
      BY <1>2, <2>2 DEF LeafList
    <3>2. j - Len(l) \in 1..Len(m) /\ lm[j] = m[j - Len(l)]
      BY <1>3, <2>2
    <3>3. PICK b \in B : lm[j] = Entry(t, b)
      BY <3>2 DEF LeafList
    <3>4. Value(a) < Value(b)
      OBVIOUS
    <3> QED BY <3>1, <3>3, <3>4 DEF Entry
  <2>3. CASE i \notin 1..Len(l)
    <3>1. /\ i - Len(l) \in 1..Len(m) /\ j - Len(l) \in 1..Len(m) /\ i - Len(l) < j - Len(l)
          /\ lm[i] = m[i - Len(l)] /\ lm[j] = m[j - Len(l)]
      <4>1. j \notin 1..Len(l)
        BY <1>1, <1>6, <2>3
      <4> QED BY <1>1, <1>3, <1>6, <2>3, <4>1
    <3> QED BY <3>1 DEF LeafList
  <2> QED BY <2>1, <2>2, <2>3
<1> QED BY <1>2, <1>4, <1>5, <1>6 DEF LeafList, lm

\* The lists of a node's children make up its own.
LEMMA BranchesJoin ==
  ASSUME NEW t, Nodes(t), Branching(t), NEW p \in DOMAIN t, ~t[p].leaf, NEW f,
         \A q \in Children(t, p) : LeafList(t, f[q], LeavesOf(t, q))
  PROVE  LeafList(t, FlattenSeq(OfChildren(t, p, f, <<>>)), LeavesOf(t, p))
<1> DEFINE lists == OfChildren(t, p, f, <<>>)
<1>0. Radix \in Nat \ {0}
  BY TreeAssumption
<1>1. ASSUME NEW k \in 1..Radix PROVE LeafList(t, lists[k], LeavesAt(t, p, k))
  <2>1. lists[k] = IF Child(p, k - 1) \in DOMAIN t THEN f[Child(p, k - 1)] ELSE <<>>
    BY DEF OfChildren
  <2> HIDE DEF lists
  <2>2. CASE Child(p, k - 1) \in DOMAIN t
    <3>1. k - 1 \in Digit
      BY <1>0 DEF Digit
    <3>2. Child(p, k - 1) \in Children(t, p)
      BY <2>2, <3>1 DEF Children
    <3>3. LeavesAt(t, p, k) = LeavesOf(t, Child(p, k - 1))
      BY <2>2 DEF LeavesAt
    <3> QED BY <2>1, <2>2, <3>2, <3>3
  <2>3. CASE Child(p, k - 1) \notin DOMAIN t
    BY <2>1, <2>3, NoLeaves DEF LeavesAt
  <2> QED BY <2>2, <2>3
<1>2. lists \in [1..Radix -> Seq(Entries)]
  <2>1. \A k \in 1..Radix : lists[k] \in Seq(Entries)
    BY <1>1 DEF LeafList
  <2>2. lists = [k \in 1..Radix |-> lists[k]]
    BY DEF OfChildren
  <2> HIDE DEF lists
  <2> QED BY <2>1, <2>2
<1> HIDE DEF lists
<1>3. PICK g : Joins(g, lists, Radix, Entries) /\ FlattenSeq(lists) = g[Radix]
  BY <1>0, <1>2, FlattenJoins
<1> DEFINE good == [k \in 0..Radix |-> LeafList(t, g[k], LeavesUpTo(t, p, k))]
           Yes  == {TRUE}
<1>4. good[0] \in Yes
  <2>1. LeavesUpTo(t, p, 0) = {} /\ g[0] = <<>> /\ 0 \in 0..Radix
    BY <1>0, <1>3 DEF LeavesUpTo, Joins
  <2>2. LeafList(t, g[0], LeavesUpTo(t, p, 0))
    BY <2>1, NoLeaves
  <2> QED BY <2>1, <2>2
<1>5. ASSUME NEW k \in 1..Radix, good[k - 1] \in Yes PROVE good[k] \in Yes
  <2>1. k \in 0..Radix /\ k - 1 \in 0..Radix
    BY <1>0
  <2>2. LeafList(t, g[k - 1], LeavesUpTo(t, p, k - 1))
    BY <1>5, <2>1
  <2>3. g[k] = g[k - 1] \o lists[k]
    BY <1>3 DEF Joins
  <2>4. LeavesUpTo(t, p, k) = LeavesUpTo(t, p, k - 1) \cup LeavesAt(t, p, k)
    <3>1. 1..k = 1..k - 1 \cup {k}
      BY <1>0
    <3> QED BY <3>1 DEF LeavesUpTo
  <2>5. ASSUME NEW a \in LeavesUpTo(t, p, k - 1), NEW b \in LeavesAt(t, p, k)
        PROVE  Value(a) < Value(b)
    <3>1. PICK j \in 1..k - 1 : a \in LeavesAt(t, p, j)
      BY DEF LeavesUpTo
    <3>2. j \in 1..Radix /\ j < k
      BY <1>0
    <3> QED BY <3>1, <3>2, BranchesOrdered
  <2>6. LeafList(t, g[k], LeavesUpTo(t, p, k))
    BY <1>1, <2>2, <2>3, <2>4, <2>5, ListsJoin
  <2> QED BY <2>1, <2>6
<1>6. good[Radix] \in Yes
  <2> HIDE DEF good, Yes
  <2>0. Radix \in Nat
    BY <1>0
  <2>1. \A k \in 0..Radix : good[k] \in Yes
    BY <1>4, <1>5, <2>0, RecursionStays, Zenon
  <2>2. Radix \in 0..Radix
    BY <1>0
  <2> QED BY <2>1, <2>2
<1>7. LeafList(t, g[Radix], LeavesUpTo(t, p, Radix))
  <2>1. Radix \in 0..Radix
    BY <1>0
  <2> QED BY <1>6, <2>1
<1>8. LeafList(t, FlattenSeq(lists), LeavesOf(t, p))
  BY <1>3, <1>7, LeavesSplit
<1> QED BY <1>8 DEF lists

CollectBody(t, f) ==
  [p \in DOMAIN t |->
     IF t[p].leaf THEN <<[address |-> Value(p), votes |-> t[p].votes]>>
     ELSE FlattenSeq(OfChildren(t, p, f, <<>>))]
Collected(t) == CHOOSE f : f = CollectBody(t, f)

LEMMA LeafFacts ==
  ASSUME NEW t, Nodes(t), NEW p \in DOMAIN t
  PROVE  Entry(t, p) \in Entries /\ LeafList(t, <<Entry(t, p)>>, {p})
<1>1. p \in Seq(Digit) /\ t[p].votes \in 0..MaxVotes
  BY DEF Nodes
<1>2. Value(p) \in Nat
  <2>1. PICK v : Evaluates(v, p) /\ Value(p) = v[Len(p)]
    BY <1>1, ValueEvaluates
  <2>2. Len(p) \in 0..Len(p)
    BY <1>1
  <2> QED BY <2>1, <2>2 DEF Evaluates
<1>3. Entry(t, p) \in Entries
  BY <1>1, <1>2 DEF Entry, Entries
<1> DEFINE e == Entry(t, p)
<1>4. LeafList(t, <<e>>, {p})
  <2>1. e \in Entries /\ e = Entry(t, p)
    BY <1>3
  <2> HIDE DEF e
  <2>2. <<e>> \in Seq(Entries) /\ Len(<<e>>) = 1 /\ <<e>>[1] = e
    BY <2>1
  <2>3. \A i \in 1..1 : i = 1
    OBVIOUS
  <2> QED BY <2>1, <2>2, <2>3 DEF LeafList
<1> QED BY <1>3, <1>4

LEMMA CollectSolved ==
  ASSUME NEW t, Nodes(t)
  PROVE  Collected(t) = CollectBody(t, Collected(t))
<1> DEFINE R == Seq(Entries)
           F == [DOMAIN t -> R]
           body == [f \in F |-> CollectBody(t, f)]
<1>0. Radix \in Nat \ {0} /\ <<>> \in R
  BY TreeAssumption
<1>1. ASSUME NEW f \in F PROVE CollectBody(t, f) \in F
  <2>1. ASSUME NEW p \in DOMAIN t
        PROVE  /\ <<[address |-> Value(p), votes |-> t[p].votes]>> \in R
               /\ FlattenSeq(OfChildren(t, p, f, <<>>)) \in R
    <3>1. Entry(t, p) \in Entries
      BY LeafFacts
    <3>2. <<Entry(t, p)>> \in R
      BY <3>1
    <3> DEFINE lists == OfChildren(t, p, f, <<>>)
    <3>3. lists \in [1..Radix -> R]
      <4> HIDE DEF R
      <4> QED BY <1>0, OfChildrenHolds
    <3> HIDE DEF lists
    <3>4. PICK g : Joins(g, lists, Radix, Entries) /\ FlattenSeq(lists) = g[Radix]
      BY <1>0, <3>3, FlattenJoins
    <3>5. Radix \in 0..Radix
      BY <1>0
    <3>6. FlattenSeq(lists) \in R
      BY <3>4, <3>5 DEF Joins
    <3> QED BY <3>2, <3>6 DEF lists, Entry
  <2> HIDE DEF R
  <2> QED BY <2>1 DEF CollectBody
<1>2. body \in [F -> F] /\ \A f \in F : body[f] = CollectBody(t, f)
  <2> HIDE DEF F
  <2> QED BY <1>1
<1>3. ASSUME NEW f \in F, NEW g \in F, NEW p \in DOMAIN t, \A q \in Children(t, p) : f[q] = g[q]
      PROVE  body[f][p] = body[g][p]
  <2>1. OfChildren(t, p, f, <<>>) = OfChildren(t, p, g, <<>>)
    BY <1>3, OfChildrenIsLocal
  <2> HIDE DEF body, F
  <2>2. CollectBody(t, f)[p] = CollectBody(t, g)[p]
    BY <2>1 DEF CollectBody
  <2> QED BY <1>2, <2>2
<1>4. \E f \in F : f = body[f]
  <2> HIDE DEF body, R
  <2>1. R # {}
    BY <1>0
  <2> QED BY <1>2, <1>3, <2>1, TreeRecursion
<1>5. \E f : f = CollectBody(t, f)
  <2> HIDE DEF body, F
  <2> QED BY <1>2, <1>4
<1> QED BY <1>5 DEF Collected

\* Below every node the leaves are collected, each once and in order.
LEMMA LeavesListed ==
  ASSUME NEW t, Nodes(t), Branching(t)
  PROVE  \A p \in DOMAIN t : LeafList(t, Collected(t)[p], LeavesOf(t, p))
<1> DEFINE c == Collected(t)
           Wrong == {p \in DOMAIN t : ~LeafList(t, c[p], LeavesOf(t, p))}
<1> SUFFICES ASSUME Wrong # {} PROVE FALSE
  OBVIOUS
<1>1. \A p \in DOMAIN t : c[p] = IF t[p].leaf THEN <<Entry(t, p)>>
                                 ELSE FlattenSeq(OfChildren(t, p, c, <<>>))
  <2>1. c = CollectBody(t, c)
    BY CollectSolved
  <2> HIDE DEF c
  <2> QED BY <2>1 DEF CollectBody, Entry
<1> HIDE DEF c
<1>2. \A p \in DOMAIN t : Len(p) \in Nat /\ Len(p) <= Depth /\ p \in Seq(Digit)
  BY DEF Nodes
<1>3. PICK p \in Wrong : \A q \in Wrong : Len(q) <= Len(p)
  <2>1. \A q \in Wrong : Len(q) \in Nat /\ Len(q) <= Depth
    BY <1>2
  <2> HIDE DEF Wrong
  <2> QED BY <2>1, Deepest
<1>4. ASSUME NEW q \in Children(t, p) PROVE LeafList(t, c[q], LeavesOf(t, q))
  <2>1. q \in DOMAIN t /\ Len(q) = Len(p) + 1 /\ p \in DOMAIN t
    BY <1>2, ChildFacts DEF Children
  <2>2. ~(Len(q) <= Len(p))
    BY <1>2, <2>1
  <2> QED BY <1>3, <2>1, <2>2
<1>5. LeafList(t, c[p], LeavesOf(t, p))
  <2>1. CASE t[p].leaf
    <3>1. p \in DOMAIN t
      OBVIOUS
    <3>2. LeavesOf(t, p) = {p}
      BY <2>1, <3>1, LeafAlone
    <3>3. LeafList(t, <<Entry(t, p)>>, {p})
      BY <3>1, LeafFacts
    <3>4. c[p] = <<Entry(t, p)>>
      BY <1>1, <2>1, <3>1
    <3> QED BY <3>2, <3>3, <3>4
  <2>2. CASE ~t[p].leaf
    <3>1. p \in DOMAIN t
      OBVIOUS
    <3>2. LeafList(t, FlattenSeq(OfChildren(t, p, c, <<>>)), LeavesOf(t, p))
      BY <1>4, <2>2, <3>1, BranchesJoin
    <3>3. c[p] = FlattenSeq(OfChildren(t, p, c, <<>>))
      BY <1>1, <2>2, <3>1
    <3> QED BY <3>2, <3>3
  <2> QED BY <2>1, <2>2
<1> QED BY <1>5

-----------------------------------------------------------------------------
\* count_nodes.

CountBody(t, f) ==
  [p \in DOMAIN t |-> IF t[p].leaf THEN 1 ELSE Total(OfChildren(t, p, f, 0))]
Counted(t) == CHOOSE f : f = CountBody(t, f)

LEMMA CountSolved ==
  ASSUME NEW t, Nodes(t)
  PROVE  Counted(t) = CountBody(t, Counted(t))
<1> DEFINE F == [DOMAIN t -> Nat]
           body == [f \in F |-> CountBody(t, f)]
<1>0. Radix \in Nat \ {0}
  BY TreeAssumption
<1>1. ASSUME NEW f \in F PROVE CountBody(t, f) \in F
  <2>1. ASSUME NEW p \in DOMAIN t PROVE Total(OfChildren(t, p, f, 0)) \in Nat
    <3> DEFINE counts == OfChildren(t, p, f, 0)
    <3>1. counts \in [1..Radix -> Nat]
      BY OfChildrenHolds
    <3> HIDE DEF counts
    <3>2. PICK g : Adds(g, counts) /\ Total(counts) = g[Radix]
      BY <3>1, TotalAdds
    <3>3. Radix \in 0..Radix
      BY <1>0
    <3> QED BY <3>2, <3>3 DEF Adds, counts
  <2> QED BY <2>1 DEF CountBody
<1>2. body \in [F -> F] /\ \A f \in F : body[f] = CountBody(t, f)
  <2> HIDE DEF F
  <2> QED BY <1>1
<1>3. ASSUME NEW f \in F, NEW g \in F, NEW p \in DOMAIN t, \A q \in Children(t, p) : f[q] = g[q]
      PROVE  body[f][p] = body[g][p]
  <2>1. OfChildren(t, p, f, 0) = OfChildren(t, p, g, 0)
    BY <1>3, OfChildrenIsLocal
  <2> HIDE DEF body, F
  <2>2. CountBody(t, f)[p] = CountBody(t, g)[p]
    BY <2>1 DEF CountBody
  <2> QED BY <1>2, <2>2
<1>4. \E f \in F : f = body[f]
  <2> HIDE DEF body
  <2>1. Nat # {}
    OBVIOUS
  <2> QED BY <1>2, <1>3, <2>1, TreeRecursion
<1>5. \E f : f = CountBody(t, f)
  <2> HIDE DEF body, F
  <2> QED BY <1>2, <1>4
<1> QED BY <1>5 DEF Counted

\* As many are counted below a node as are listed there, if that is so below
\* its children.
LEMMA BranchesAddUp ==
  ASSUME NEW t, NEW p, NEW f, NEW c,
         \A q \in Children(t, p) : c[q] \in Seq(Entries) /\ f[q] = Len(c[q])
  PROVE  Total(OfChildren(t, p, f, 0)) = Len(FlattenSeq(OfChildren(t, p, c, <<>>)))
<1>0. Radix \in Nat \ {0}
  BY TreeAssumption
<1> DEFINE counts == OfChildren(t, p, f, 0)
           lists  == OfChildren(t, p, c, <<>>)
<1>1. ASSUME NEW k \in 1..Radix
      PROVE  lists[k] \in Seq(Entries) /\ counts[k] = Len(lists[k])
  <2>1. /\ counts[k] = IF Child(p, k - 1) \in DOMAIN t THEN f[Child(p, k - 1)] ELSE 0
        /\ lists[k] = IF Child(p, k - 1) \in DOMAIN t THEN c[Child(p, k - 1)] ELSE <<>>
    BY DEF OfChildren
  <2> HIDE DEF counts, lists
  <2>2. CASE Child(p, k - 1) \in DOMAIN t
    <3>1. k - 1 \in Digit
      BY <1>0 DEF Digit
    <3>2. Child(p, k - 1) \in Children(t, p)
      BY <2>2, <3>1 DEF Children
    <3> QED BY <2>1, <2>2, <3>2
  <2>3. CASE Child(p, k - 1) \notin DOMAIN t
    BY <2>1, <2>3
  <2> QED BY <2>2, <2>3
<1>2. counts \in [1..Radix -> Nat] /\ lists \in [1..Radix -> Seq(Entries)]
  <2>1. \A k \in 1..Radix : counts[k] \in Nat /\ lists[k] \in Seq(Entries)
    <3> HIDE DEF counts, lists, Entries
    <3> QED BY <1>1, LenProperties
  <2>2. counts = [k \in 1..Radix |-> counts[k]] /\ lists = [k \in 1..Radix |-> lists[k]]
    BY DEF OfChildren
  <2> HIDE DEF counts, lists
  <2> QED BY <2>1, <2>2
<1> HIDE DEF counts, lists
<1>3. PICK g : Joins(g, lists, Radix, Entries) /\ FlattenSeq(lists) = g[Radix]
  BY <1>0, <1>2, FlattenJoins
<1>4. PICK s : Adds(s, counts) /\ Total(counts) = s[Radix]
  BY <1>2, TotalAdds
<1> DEFINE same == [k \in 0..Radix |-> s[k] = Len(g[k])]
           Yes  == {TRUE}
<1>5. same[0] \in Yes
  <2>1. 0 \in 0..Radix /\ s[0] = 0 /\ g[0] = <<>>
    BY <1>0, <1>3, <1>4 DEF Adds, Joins
  <2> QED BY <2>1
<1>6. ASSUME NEW k \in 1..Radix, same[k - 1] \in Yes PROVE same[k] \in Yes
  <2>1. k \in 0..Radix /\ k - 1 \in 0..Radix
    BY <1>0
  <2>2. s[k - 1] = Len(g[k - 1])
    BY <1>6, <2>1
  <2>3. s[k] = s[k - 1] + counts[k]
    BY <1>4 DEF Adds
  <2>4. g[k] = g[k - 1] \o lists[k] /\ g[k - 1] \in Seq(Entries)
    BY <1>3, <2>1 DEF Joins
  <2>5. Len(g[k]) = Len(g[k - 1]) + Len(lists[k])
    BY <1>1, <2>4, ConcatProperties
  <2> QED BY <1>1, <2>1, <2>2, <2>3, <2>5
<1>7. same[Radix] \in Yes
  <2> HIDE DEF same, Yes
  <2>0. Radix \in Nat
    BY <1>0
  <2>1. \A k \in 0..Radix : same[k] \in Yes
    BY <1>5, <1>6, <2>0, RecursionStays, Zenon
  <2>2. Radix \in 0..Radix
    BY <1>0
  <2> QED BY <2>1, <2>2
<1>8. s[Radix] = Len(g[Radix])
  <2>1. Radix \in 0..Radix
    BY <1>0
  <2> QED BY <1>7, <2>1
<1> QED BY <1>3, <1>4, <1>8 DEF counts, lists

LEMMA LeavesCounted ==
  ASSUME NEW t, Nodes(t), Branching(t)
  PROVE  \A p \in DOMAIN t : Counted(t)[p] = Len(Collected(t)[p])
<1> DEFINE c == Collected(t)
           n == Counted(t)
           Wrong == {p \in DOMAIN t : n[p] # Len(c[p])}
<1> SUFFICES ASSUME Wrong # {} PROVE FALSE
  OBVIOUS
<1>1. \A p \in DOMAIN t : c[p] \in Seq(Entries)
  BY LeavesListed DEF LeafList
<1>2. \A p \in DOMAIN t : c[p] = IF t[p].leaf THEN <<Entry(t, p)>>
                                 ELSE FlattenSeq(OfChildren(t, p, c, <<>>))
  <2>1. c = CollectBody(t, c)
    BY CollectSolved
  <2> HIDE DEF c
  <2> QED BY <2>1 DEF CollectBody, Entry
<1>3. \A p \in DOMAIN t : n[p] = IF t[p].leaf THEN 1 ELSE Total(OfChildren(t, p, n, 0))
  <2>1. n = CountBody(t, n)
    BY CountSolved
  <2> HIDE DEF n
  <2> QED BY <2>1 DEF CountBody
<1> HIDE DEF c, n
<1>4. \A p \in DOMAIN t : Len(p) \in Nat /\ Len(p) <= Depth /\ p \in Seq(Digit)
  BY DEF Nodes
<1>5. PICK p \in Wrong : \A q \in Wrong : Len(q) <= Len(p)
  <2>1. \A q \in Wrong : Len(q) \in Nat /\ Len(q) <= Depth
    BY <1>4
  <2> HIDE DEF Wrong
  <2> QED BY <2>1, Deepest
<1>6. p \in DOMAIN t
  OBVIOUS
<1>7. ASSUME NEW q \in Children(t, p) PROVE c[q] \in Seq(Entries) /\ n[q] = Len(c[q])
  <2>1. q \in DOMAIN t /\ Len(q) = Len(p) + 1
    BY <1>4, <1>6, ChildFacts DEF Children
  <2>2. ~(Len(q) <= Len(p))
    BY <1>4, <1>6, <2>1
  <2> QED BY <1>1, <1>5, <2>1, <2>2
<1>8. n[p] = Len(c[p])
  <2>1. CASE t[p].leaf
    BY <1>2, <1>3, <1>6, <2>1
  <2>2. CASE ~t[p].leaf
    <3>1. Total(OfChildren(t, p, n, 0)) = Len(FlattenSeq(OfChildren(t, p, c, <<>>)))
      BY <1>7, BranchesAddUp
    <3> QED BY <1>2, <1>3, <1>6, <2>2, <3>1
  <2> QED BY <2>1, <2>2
<1> QED BY <1>8

-----------------------------------------------------------------------------
\* max_vote.

PeakBody(t, f) ==
  [p \in DOMAIN t |-> IF t[p].leaf THEN t[p].votes
                      ELSE Max({0} \cup {f[q] : q \in Children(t, p)})]
Peaks(t) == CHOOSE f : f = PeakBody(t, f)

\* The greatest of some vote counts.
LEMMA MaxIsGreatest ==
  ASSUME NEW S, S \subseteq 0..MaxVotes
  PROVE  /\ Max({0} \cup S) \in {0} \cup S
         /\ \A v \in S : v <= Max({0} \cup S)
         /\ Max({0} \cup S) \in 0..MaxVotes
<1> DEFINE T == {0} \cup S
<1>0. MaxVotes \in Nat /\ T \subseteq 0..MaxVotes /\ T # {}
  BY TreeAssumption
<1> HIDE DEF T
<1>1. \E x \in T : \A y \in T : y <= x
  <2>1. \A x \in T : x \in Int /\ x <= MaxVotes
    BY <1>0
  <2>2. MaxVotes \in Int
    BY <1>0
  <2> QED BY <1>0, <2>1, <2>2, GreatestMember, Zenon
<1>2. \E x \in T : \A y \in T : x >= y
  BY <1>0, <1>1
<1>3. Max(T) \in T /\ \A y \in T : Max(T) >= y
  BY <1>2 DEF Max
<1>4. \A y \in T : y <= Max(T)
  BY <1>0, <1>3
<1> QED BY <1>0, <1>3, <1>4 DEF T

LEMMA PeakSolved ==
  ASSUME NEW t, Nodes(t)
  PROVE  Peaks(t) = PeakBody(t, Peaks(t))
<1> DEFINE R == 0..MaxVotes
           F == [DOMAIN t -> R]
           body == [f \in F |-> PeakBody(t, f)]
<1>1. ASSUME NEW f \in F PROVE PeakBody(t, f) \in F
  <2>1. ASSUME NEW p \in DOMAIN t
        PROVE  t[p].votes \in R /\ Max({0} \cup {f[q] : q \in Children(t, p)}) \in R
    <3> DEFINE S == {f[q] : q \in Children(t, p)}
    <3>1. S \subseteq R
      BY DEF Children
    <3> HIDE DEF S
    <3>2. Max({0} \cup S) \in R
      BY <3>1, MaxIsGreatest
    <3>3. t[p].votes \in R
      BY DEF Nodes
    <3> QED BY <3>2, <3>3 DEF S
  <2> HIDE DEF R
  <2> QED BY <2>1 DEF PeakBody
<1>2. body \in [F -> F] /\ \A f \in F : body[f] = PeakBody(t, f)
  <2> HIDE DEF F
  <2> QED BY <1>1
<1>3. ASSUME NEW f \in F, NEW g \in F, NEW p \in DOMAIN t, \A q \in Children(t, p) : f[q] = g[q]
      PROVE  body[f][p] = body[g][p]
  <2>1. {f[q] : q \in Children(t, p)} = {g[q] : q \in Children(t, p)}
    BY <1>3
  <2> HIDE DEF body, F
  <2>2. PeakBody(t, f)[p] = PeakBody(t, g)[p]
    BY <2>1 DEF PeakBody
  <2> QED BY <1>2, <2>2
<1>4. \E f \in F : f = body[f]
  <2>1. R # {}
    BY TreeAssumption
  <2> HIDE DEF body, R
  <2> QED BY <1>2, <1>3, <2>1, TreeRecursion
<1>5. \E f : f = PeakBody(t, f)
  <2> HIDE DEF body, F
  <2> QED BY <1>2, <1>4
<1> QED BY <1>5 DEF Peaks

\* v is the best vote among these leaves.
IsPeak(t, v, A) ==
  /\ v \in 0..MaxVotes
  /\ \A a \in A : t[a].votes <= v
  /\ \E a \in A : t[a].votes = v

LEMMA PeaksFound ==
  ASSUME NEW t, Nodes(t), Branching(t)
  PROVE  \A p \in DOMAIN t : IsPeak(t, Peaks(t)[p], LeavesOf(t, p))
<1> DEFINE m == Peaks(t)
           Wrong == {p \in DOMAIN t : ~IsPeak(t, m[p], LeavesOf(t, p))}
<1> SUFFICES ASSUME Wrong # {} PROVE FALSE
  OBVIOUS
<1>1. \A p \in DOMAIN t : m[p] = IF t[p].leaf THEN t[p].votes
                                 ELSE Max({0} \cup {m[q] : q \in Children(t, p)})
  <2>1. m = PeakBody(t, m)
    BY PeakSolved
  <2> HIDE DEF m
  <2> QED BY <2>1 DEF PeakBody
<1> HIDE DEF m
<1>2. \A p \in DOMAIN t : /\ Len(p) \in Nat /\ Len(p) <= Depth /\ p \in Seq(Digit)
                          /\ t[p].votes \in 0..MaxVotes
  BY DEF Nodes
<1>3. PICK p \in Wrong : \A q \in Wrong : Len(q) <= Len(p)
  <2>1. \A q \in Wrong : Len(q) \in Nat /\ Len(q) <= Depth
    BY <1>2
  <2> HIDE DEF Wrong
  <2> QED BY <2>1, Deepest
<1>4. p \in DOMAIN t
  OBVIOUS
<1>5. ASSUME NEW q \in Children(t, p)
      PROVE  q \in DOMAIN t /\ IsPeak(t, m[q], LeavesOf(t, q))
  <2>1. q \in DOMAIN t /\ Len(q) = Len(p) + 1
    BY <1>2, <1>4, ChildFacts DEF Children
  <2>2. ~(Len(q) <= Len(p))
    BY <1>2, <1>4, <2>1
  <2> QED BY <1>3, <2>1, <2>2
<1>6. CASE t[p].leaf
  <2>1. LeavesOf(t, p) = {p}
    BY <1>4, <1>6, LeafAlone
  <2>2. m[p] = t[p].votes
    BY <1>1, <1>4, <1>6
  <2>3. IsPeak(t, m[p], LeavesOf(t, p))
    BY <1>2, <1>4, <2>1, <2>2 DEF IsPeak
  <2> QED BY <2>3
<1>7. CASE ~t[p].leaf
  <2> DEFINE S == {m[q] : q \in Children(t, p)}
  <2>1. S \subseteq 0..MaxVotes
    BY <1>5 DEF IsPeak
  <2>2. m[p] = Max({0} \cup S)
    BY <1>1, <1>4, <1>7
  <2>3. S # {}
    <3>1. Children(t, p) # {}
      BY <1>4, <1>7 DEF Branching
    <3> QED BY <3>1
  <2>4. /\ m[p] \in {0} \cup S /\ \A v \in S : v <= m[p]
        /\ m[p] \in 0..MaxVotes
    <3> HIDE DEF S
    <3> QED BY <2>1, <2>2, MaxIsGreatest
  <2>5. m[p] \in S
    <3> HIDE DEF S
    <3>1. CASE m[p] = 0
      <4>1. PICK v : v \in S
        BY <2>3
      <4>2. v \in 0..MaxVotes
        BY <2>1, <4>1
      <4>3. v <= 0
        BY <2>4, <3>1, <4>1
      <4>4. v = 0
        BY <4>2, <4>3, TreeAssumption
      <4> QED BY <3>1, <4>1, <4>4
    <3> QED BY <2>4, <3>1
  <2>6. \A a : a \in LeavesOf(t, p) <=> \E q \in Children(t, p) : a \in LeavesOf(t, q)
    <3>1. ASSUME NEW a \in LeavesOf(t, p) PROVE \E q \in Children(t, p) : a \in LeavesOf(t, q)
      <4>1. a \in LeavesUpTo(t, p, Radix)
        BY <1>4, <1>7, LeavesSplit
      <4>2. PICK k \in 1..Radix : a \in LeavesAt(t, p, k)
        BY <4>1 DEF LeavesUpTo
      <4>3. k - 1 \in Digit
        BY TreeAssumption DEF Digit
      <4>4. Child(p, k - 1) \in DOMAIN t /\ a \in LeavesOf(t, Child(p, k - 1))
        BY <4>2 DEF LeavesAt
      <4> QED BY <4>3, <4>4 DEF Children
    <3>2. ASSUME NEW q \in Children(t, p), NEW a \in LeavesOf(t, q) PROVE a \in LeavesOf(t, p)
      <4>1. PICK d \in Digit : q = Child(p, d) /\ q \in DOMAIN t
        BY DEF Children
      <4>2. d + 1 \in 1..Radix /\ (d + 1) - 1 = d
        BY TreeAssumption DEF Digit
      <4>3. a \in LeavesAt(t, p, d + 1)
        BY <4>1, <4>2 DEF LeavesAt
      <4>4. a \in LeavesUpTo(t, p, Radix)
        BY <4>2, <4>3 DEF LeavesUpTo
      <4> QED BY <1>4, <1>7, <4>4, LeavesSplit
    <3> QED BY <3>1, <3>2
  <2>7. ASSUME NEW a \in LeavesOf(t, p) PROVE t[a].votes <= m[p]
    <3>1. PICK q \in Children(t, p) : a \in LeavesOf(t, q)
      BY <2>6
    <3>2. t[a].votes <= m[q] /\ m[q] \in S /\ m[q] \in 0..MaxVotes
      BY <1>5, <3>1 DEF IsPeak
    <3>3. t[a].votes \in 0..MaxVotes
      BY <1>2 DEF LeavesOf
    <3>4. m[q] <= m[p]
      BY <2>4, <3>2
    <3> HIDE DEF S
    <3> QED BY <2>4, <3>2, <3>3, <3>4, TreeAssumption
  <2>8. \E a \in LeavesOf(t, p) : t[a].votes = m[p]
    <3>1. PICK q \in Children(t, p) : m[p] = m[q]
      BY <2>5
    <3>2. PICK a \in LeavesOf(t, q) : t[a].votes = m[q]
      BY <1>5 DEF IsPeak
    <3> QED BY <2>6, <3>1, <3>2
  <2>9. IsPeak(t, m[p], LeavesOf(t, p))
    BY <2>4, <2>7, <2>8 DEF IsPeak
  <2> QED BY <2>9
<1> QED BY <1>6, <1>7

-----------------------------------------------------------------------------
\* What the observers say of the whole tree.

LEMMA ObserversOfRoot ==
  ASSUME NEW t, Nodes(t), Branching(t)
  PROVE  /\ LeafList(t, Leaves(t), LeavesOf(t, Root))
         /\ CountNodes(t) = Len(Leaves(t))
         /\ IsPeak(t, MaxVote(t), LeavesOf(t, Root))
<1>1. Root \in DOMAIN t
  BY DEF Branching
<1>2. Leaves(t) = Collected(t)[Root]
  BY DEF Leaves, Collected, CollectBody
<1>3. CountNodes(t) = Counted(t)[Root]
  BY DEF CountNodes, Counted, CountBody
<1>4. MaxVote(t) = Peaks(t)[Root]
  BY DEF MaxVote, Peaks, PeakBody
<1>5. LeafList(t, Collected(t)[Root], LeavesOf(t, Root))
  BY <1>1, LeavesListed
<1>6. Counted(t)[Root] = Len(Collected(t)[Root])
  BY <1>1, LeavesCounted
<1>7. IsPeak(t, Peaks(t)[Root], LeavesOf(t, Root))
  BY <1>1, PeaksFound
<1> QED BY <1>2, <1>3, <1>4, <1>5, <1>6, <1>7

\* The leaves of the tree are its full addresses, or its root if it has none.
LEMMA LeavesOfRoot ==
  ASSUME Nodes(tree), Branching(tree)
  PROVE  LeavesOf(tree, Root) = IF FullAddresses = {} THEN {Root} ELSE FullAddresses
<1>0. \A a \in DOMAIN tree : a \in Seq(Digit) /\ Below(a, Root)
  <2>1. \A a \in Seq(Digit) : Len(Root) = 0 /\ Len(a) \in Nat /\ Prefix(a, 0) = Root
    BY PrefixEnds DEF Root
  <2> QED BY <2>1 DEF Nodes, Below
<1>1. Root \in DOMAIN tree /\ Root \notin FullAddresses
  BY FullIsLeaf DEF Branching, FullAddresses
<1>2. CASE tree[Root].leaf
  <2>1. LeavesOf(tree, Root) = {Root}
    BY <1>1, <1>2, LeafAlone
  <2>2. ASSUME NEW a \in FullAddresses PROVE FALSE
    <3>1. a \in DOMAIN tree /\ tree[a].leaf
      BY FullIsLeaf DEF FullAddresses
    <3>2. a \in LeavesOf(tree, Root)
      BY <1>0, <3>1 DEF LeavesOf
    <3> QED BY <1>1, <2>1, <3>2
  <2> QED BY <2>1, <2>2
<1>3. CASE ~tree[Root].leaf
  <2>1. ASSUME NEW a \in LeavesOf(tree, Root) PROVE a \in FullAddresses
    BY <1>3 DEF LeavesOf, Branching, FullAddresses
  <2>2. ASSUME NEW a \in FullAddresses PROVE a \in LeavesOf(tree, Root)
    <3>1. a \in DOMAIN tree /\ tree[a].leaf
      BY FullIsLeaf DEF FullAddresses
    <3> QED BY <1>0, <3>1 DEF LeavesOf
  <2>3. FullAddresses # {}
    BY <1>1, <1>3, NoHollow DEF FullAddresses
  <2> QED BY <2>1, <2>2, <2>3
<1> QED BY <1>2, <1>3

\* max_vote, count_nodes and leaves() (addrtree.rs) report the table of votes,
\* every address once and in ascending order, whatever was registered and
\* filtered before; an emptied tree reports its root, at address 0.
THEOREM ObserversTellTheTable == Spec => []ObserversAgree
<1>1. IInv => ObserversAgree
  <2> SUFFICES ASSUME IInv PROVE ObserversAgree
    OBVIOUS
  <2> DEFINE leaves == Leaves(tree)
             live   == Table!Live(AsTable)
             A      == LeavesOf(tree, Root)
             peak   == MaxVote(tree)
  <2>1. /\ LeafList(tree, leaves, A) /\ CountNodes(tree) = Len(leaves)
        /\ IsPeak(tree, peak, A)
    BY ObserversOfRoot DEF IInv
  <2>2. live = FullAddresses /\ \A a \in FullAddresses : AsTable.votes[a] = tree[a].votes
    BY TableFields
  <2>3. A = IF FullAddresses = {} THEN {Root} ELSE FullAddresses
    BY LeavesOfRoot DEF IInv
  <2>4. AsTable.root = tree[Root].votes
    BY DEF AsTable
  <2> HIDE DEF leaves, A, peak
  <2>5. peak = Table!PeakVote(AsTable)
    <3>1. CASE FullAddresses = {}
      <4>1. Table!PeakVote(AsTable) = tree[Root].votes
        BY <2>2, <2>4, <3>1 DEF Table!PeakVote
      <4> QED BY <2>1, <2>3, <3>1, <4>1 DEF IsPeak
    <3>2. CASE FullAddresses # {}
      <4> DEFINE S == {AsTable.votes[a] : a \in live}
                 v == CHOOSE x \in S : \A a \in live : AsTable.votes[a] <= x
      <4>1. Table!PeakVote(AsTable) = v
        BY <2>2, <3>2 DEF Table!PeakVote
      <4>2. peak \in S /\ \A a \in live : AsTable.votes[a] <= peak
        BY <2>1, <2>2, <2>3, <3>2 DEF IsPeak
      <4>3. v \in S /\ \A a \in live : AsTable.votes[a] <= v
        <5> HIDE DEF S, live
        <5> QED BY <4>2
      <4>4. S \subseteq Nat
        <5>1. \A a \in FullAddresses : tree[a].votes \in 0..MaxVotes
          BY DEF FullAddresses, IInv, Nodes
        <5> QED BY <2>2, <5>1
      <4>5. v <= peak /\ peak <= v
        <5>1. PICK a \in live : v = AsTable.votes[a]
          BY <4>3
        <5>2. PICK b \in live : peak = AsTable.votes[b]
          BY <4>2
        <5> HIDE DEF v, S, live
        <5> QED BY <4>2, <4>3, <5>1, <5>2
      <4> HIDE DEF v, S
      <4>6. v = peak
        BY <4>2, <4>3, <4>4, <4>5
      <4> QED BY <4>1, <4>6
    <3> QED BY <3>1, <3>2
  <2>6. DOMAIN leaves = 1..Len(leaves)
    <3>1. leaves \in Seq(Entries)
      BY <2>1 DEF LeafList
    <3> HIDE DEF Entries
    <3> QED BY <3>1
  <2>7. \A i, j \in DOMAIN leaves : i < j => leaves[i].address < leaves[j].address
    BY <2>1, <2>6 DEF LeafList
  <2>8. ToSet(leaves) = {Entry(tree, a) : a \in A}
    <3>1. ToSet(leaves) = {leaves[i] : i \in 1..Len(leaves)}
      BY <2>6 DEF ToSet
    <3>2. \A i \in 1..Len(leaves) : \E a \in A : leaves[i] = Entry(tree, a)
      BY <2>1 DEF LeafList
    <3>3. \A a \in A : \E i \in 1..Len(leaves) : leaves[i] = Entry(tree, a)
      BY <2>1 DEF LeafList
    <3> QED BY <3>1, <3>2, <3>3
  <2>9. ToSet(leaves) =
          IF live = {} THEN {[address |-> 0, votes |-> tree[Root].votes]}
          ELSE {[address |-> Value(a), votes |-> AsTable.votes[a]] : a \in live}
    <3>1. CASE FullAddresses = {}
      <4>1. Value(Root) = 0
        <5>1. Root \in Seq(Digit) /\ Len(Root) = 0
          BY DEF Root
        <5>2. PICK v : Evaluates(v, Root) /\ Value(Root) = v[Len(Root)]
          BY <5>1, ValueEvaluates
        <5> QED BY <5>1, <5>2 DEF Evaluates
      <4>2. ToSet(leaves) = {Entry(tree, Root)}
        BY <2>3, <2>8, <3>1
      <4>3. Entry(tree, Root) = [address |-> 0, votes |-> tree[Root].votes]
        BY <4>1 DEF Entry
      <4>4. live = {}
        BY <2>2, <3>1
      <4> HIDE DEF live
      <4> QED BY <4>2, <4>3, <4>4
    <3>2. CASE FullAddresses # {}
      <4>1. \A a \in FullAddresses :
              Entry(tree, a) = [address |-> Value(a), votes |-> AsTable.votes[a]]
        BY <2>2 DEF Entry
      <4>2. ToSet(leaves) = {Entry(tree, a) : a \in FullAddresses}
        BY <2>3, <2>8, <3>2
      <4>3. ToSet(leaves) =
              {[address |-> Value(a), votes |-> AsTable.votes[a]] : a \in FullAddresses}
        BY <4>1, <4>2
      <4>4. live = FullAddresses
        BY <2>2
      <4> HIDE DEF live
      <4> QED BY <3>2, <4>3, <4>4
    <3> QED BY <3>1, <3>2
  <2> HIDE DEF live
  <2> QED BY <2>1, <2>5, <2>7, <2>9 DEF ObserversAgree, leaves, live, peak
<1> QED BY <1>1, Invariance, PTL
=============================================================================
