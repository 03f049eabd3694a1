-------------------------- MODULE VoteCounterProofs --------------------------
(***************************************************************************)
(* Proofs about the vote table, for every address set, every tree shape    *)
(* and every order of registrations and filters.                           *)
(***************************************************************************)
EXTENDS VoteCounter, TLAPS, FiniteSetTheorems, WellFoundedInduction

\* A nonempty set of naturals below a bound has a greatest element.
LEMMA BoundedHasMax ==
  ASSUME NEW bound \in Nat, NEW S \in SUBSET (0..bound), S # {}
  PROVE  \E v \in S : \A u \in S : u <= v
<1> DEFINE T == {bound - v : v \in S}
<1>0. \A v \in S : v \in Nat /\ v <= bound
  OBVIOUS
<1>1. T \subseteq Nat /\ T # {}
  <2>1. \A v \in S : bound - v \in Nat
    BY <1>0
  <2> QED BY <2>1
<1>2. PICK x \in T : \A y \in T : ~(<<y, x>> \in OpToRel(<, Nat))
  BY <1>1, WFMin, NatLessThanWellFounded
<1>3. \A y \in T : ~(y < x)
  BY <1>1, <1>2 DEF OpToRel
<1>4. PICK v \in S : x = bound - v
  BY <1>2
<1>5. \A u \in S : ~(bound - u < bound - v)
  BY <1>3, <1>4
<1>6. ASSUME NEW u \in S PROVE u <= v
  BY <1>0, <1>5
<1> QED BY <1>6

\* max_vote() of a table with addresses is attained and is an upper bound.
LEMMA PeakVoteIsMax ==
  ASSUME NEW t, t.votes \in [Live(t) -> 1..MaxVotes], Live(t) # {}
  PROVE  /\ \E a \in Live(t) : t.votes[a] = PeakVote(t)
         /\ \A a \in Live(t) : t.votes[a] <= PeakVote(t)
         /\ PeakVote(t) \in 1..MaxVotes
<1> DEFINE S == {t.votes[a] : a \in Live(t)}
<1>1. S \in SUBSET (0..MaxVotes) /\ S # {} /\ S \subseteq 1..MaxVotes
  OBVIOUS
<1>2. \E v \in S : \A u \in S : u <= v
  BY <1>1, BoundedHasMax, CounterAssumption
<1>3. \E v \in S : \A a \in Live(t) : t.votes[a] <= v
  BY <1>2
<1>4. PeakVote(t) = CHOOSE v \in S : \A a \in Live(t) : t.votes[a] <= v
  BY DEF PeakVote
<1>5. PeakVote(t) \in S /\ \A a \in Live(t) : t.votes[a] <= PeakVote(t)
  BY <1>3, <1>4, Zenon
<1> QED BY <1>1, <1>5

\* Registering touches one counter and allocates what was missing.
LEMMA RegisterStep ==
  ASSUME TypeOK, LiveAccounted, NEW a \in Addr, RegisterAddress(a)
  PROVE  TypeOK' /\ LiveAccounted'
<1>1. /\ table' = Register(table, a)
      /\ table'.nodes <= MaxNodes
      /\ a \in Live(table) => table.votes[a] < MaxVotes
  BY DEF RegisterAddress
<1>2. /\ Live(table)' = Live(table) \cup {a}
      /\ LiveNodes(table)' = LiveNodes(table) \cup Path[a]
  <2>1. Live(table)' = Live(table) \cup {a}
    BY <1>1 DEF Register, Live
  <2> QED BY <2>1 DEF LiveNodes
<1> DEFINE fresh == Path[a] \ LiveNodes(table)
<1>3. /\ IsFiniteSet(fresh) /\ Cardinality(fresh) \in Nat
      /\ LiveNodes(table) \cup Path[a] = LiveNodes(table) \cup fresh
      /\ LiveNodes(table) \cap fresh = {}
  BY FS_Difference, FS_CardinalityType, CounterAssumption
<1>4. /\ IsFiniteSet(LiveNodes(table) \cup fresh)
      /\ Cardinality(LiveNodes(table) \cup fresh)
           = Cardinality(LiveNodes(table)) + Cardinality(fresh)
  <2>1. IsFiniteSet(LiveNodes(table)) /\ Cardinality(LiveNodes(table)) \in Nat
    BY FS_CardinalityType DEF LiveAccounted
  <2>2. Cardinality(LiveNodes(table) \cap fresh) = 0
    BY <1>3, FS_EmptySet
  <2>3. IsFiniteSet(fresh)
    BY <1>3
  <2> HIDE DEF fresh
  <2>4. /\ IsFiniteSet(LiveNodes(table) \cup fresh)
        /\ Cardinality(LiveNodes(table) \cup fresh)
             = Cardinality(LiveNodes(table)) + Cardinality(fresh)
               - Cardinality(LiveNodes(table) \cap fresh)
    BY <2>1, <2>3, FS_Union, Zenon
  <2> QED BY <1>3, <2>1, <2>2, <2>4
<1>5. table'.nodes = table.nodes + Cardinality(fresh)
  BY <1>1 DEF Register
<1>6. LiveAccounted'
  <2>1. Cardinality(LiveNodes(table)) \in Nat /\ table.nodes \in Nat
    BY FS_CardinalityType, CounterAssumption DEF LiveAccounted, TypeOK
  <2>2. Cardinality(LiveNodes(table)) <= table.nodes
    BY DEF LiveAccounted
  <2>3. LiveNodes(table)' = LiveNodes(table) \cup fresh
    BY <1>2, <1>3
  <2> HIDE DEF fresh
  <2>4. Cardinality(LiveNodes(table) \cup fresh) <= table'.nodes
    BY <1>3, <1>4, <1>5, <2>1, <2>2
  <2> QED BY <1>4, <2>3, <2>4 DEF LiveAccounted
<1>7. TypeOK'
  <2>1. table'.nodes \in 0..MaxNodes
    BY <1>1, <1>3, <1>5, CounterAssumption DEF TypeOK
  <2>2. table'.votes \in [Live(table)' -> 1..MaxVotes]
    <3>1. table'.votes = [b \in Live(table) \cup {a} |->
                            IF b \notin Live(table) THEN 1
                            ELSE IF b = a THEN table.votes[b] + 1 ELSE table.votes[b]]
      BY <1>1 DEF Register
    <3>2. \A b \in Live(table) : table.votes[b] \in 1..MaxVotes
      BY DEF TypeOK
    <3>3. a \in Live(table) => table.votes[a] + 1 \in 1..MaxVotes
      BY <1>1, <3>2, CounterAssumption
    <3>4. 1 \in 1..MaxVotes
      BY CounterAssumption
    <3> QED BY <1>2, <3>1, <3>2, <3>3, <3>4
  <2>3. table'.root = table.root
    BY <1>1 DEF Register
  <2>4. table' = [votes |-> table'.votes, root |-> table'.root, nodes |-> table'.nodes]
    BY <1>1 DEF Register
  <2>5. Live(table)' \in SUBSET Addr
    BY <1>2 DEF TypeOK
  <2> QED BY <2>1, <2>2, <2>3, <2>4, <2>5 DEF TypeOK
<1> QED BY <1>6, <1>7

\* Filtering forgets some counters, changes none and frees nodes silently.
LEMMA FilterStep ==
  ASSUME TypeOK, LiveAccounted, NEW threshold, FilterBelow(threshold)
  PROVE  TypeOK' /\ LiveAccounted'
<1>1. CASE Live(table) = {}
  <2>1. table' = table
    BY <1>1 DEF FilterBelow, Filter
  <2> QED BY <2>1 DEF TypeOK, LiveAccounted, Live, LiveNodes
<1>2. CASE Live(table) # {}
  <2> DEFINE kept == Kept(table, threshold)
  <2>1. table' = [votes |-> [a \in kept |-> table.votes[a]],
                  root  |-> IF kept = {} THEN 0 ELSE table.root,
                  nodes |-> table.nodes]
    BY <1>2 DEF FilterBelow, Filter
  <2>2. kept \subseteq Live(table)
    BY DEF Kept
  <2>3. /\ table'.votes = [a \in kept |-> table.votes[a]]
        /\ table'.root = (IF kept = {} THEN 0 ELSE table.root)
        /\ table'.nodes = table.nodes
        /\ table' = [votes |-> table'.votes, root |-> table'.root, nodes |-> table'.nodes]
    BY <2>1
  <2> HIDE DEF kept
  <2>4. Live(table)' = kept
    BY <2>3 DEF Live
  <2>5. TypeOK'
    BY <2>2, <2>3, <2>4 DEF TypeOK
  <2>6. LiveNodes(table)' \in SUBSET LiveNodes(table)
    BY <2>2, <2>4 DEF LiveNodes
  <2>7. /\ IsFiniteSet(LiveNodes(table)')
        /\ Cardinality(LiveNodes(table)') <= Cardinality(LiveNodes(table))
    BY <2>6, FS_Subset, Zenon DEF LiveAccounted
  <2>8. /\ Cardinality(LiveNodes(table)) \in Nat /\ table.nodes \in Nat
        /\ Cardinality(LiveNodes(table)') \in Nat
    BY <2>7, FS_CardinalityType, CounterAssumption DEF LiveAccounted, TypeOK
  <2>9. Cardinality(LiveNodes(table)') <= table.nodes
    BY <2>7, <2>8 DEF LiveAccounted
  <2> QED BY <2>3, <2>5, <2>7, <2>9 DEF LiveAccounted
<1> QED BY <1>1, <1>2

-----------------------------------------------------------------------------
\* Types and node accounting are inductive: register_address and filter, in any
\* order, keep both.
LEMMA Invariance == Spec => [](TypeOK /\ LiveAccounted)
<1>1. Init => TypeOK /\ LiveAccounted
  <2> SUFFICES ASSUME Init PROVE TypeOK /\ LiveAccounted
    OBVIOUS
  <2>1. Live(table) = {} /\ table.nodes = 0 /\ table.root = 1
    BY DEF Init, Empty, Live
  <2>2. LiveNodes(table) = {}
    BY <2>1 DEF LiveNodes
  <2>3. table = [votes |-> table.votes, root |-> table.root, nodes |-> table.nodes]
    BY DEF Init, Empty
  <2>4. table.votes \in [Live(table) -> 1..MaxVotes]
    BY DEF Init, Empty, Live
  <2> QED BY <2>1, <2>2, <2>3, <2>4, FS_EmptySet, CounterAssumption DEF TypeOK, LiveAccounted
<1>2. TypeOK /\ LiveAccounted /\ [Next]_table => (TypeOK /\ LiveAccounted)'
  <2> SUFFICES ASSUME TypeOK, LiveAccounted, [Next]_table PROVE (TypeOK /\ LiveAccounted)'
    OBVIOUS
  <2>1. CASE \E a \in Addr : RegisterAddress(a)
    BY <2>1, RegisterStep
  <2>2. CASE \E threshold \in 0..MaxVotes + 1 : FilterBelow(threshold)
    BY <2>2, FilterStep
  <2>3. CASE UNCHANGED table
    BY <2>3 DEF TypeOK, LiveAccounted, Live, LiveNodes
  <2> QED BY <2>1, <2>2, <2>3 DEF Next
<1> QED BY <1>1, <1>2, PTL DEF Spec

\* Votes and counters of an address tree keep their types under any mix of
\* register_address and filter.
THEOREM TypeCorrect == Spec => []TypeOK
BY Invariance, PTL

\* nb_nodes is never less than the nodes in use: memsize never understates.
THEOREM NodesAccounted == Spec => []LiveAccounted
BY Invariance, PTL

\* The filter at half the best vote keeps every leading address and its
\* votes: neither the endianness verdict nor the voted base address can be
\* lost to the memory-saving filter at the moment it runs.
THEOREM LeadersSurvivePrune == Spec => []PruneKeepsLeaders
<1>1. TypeOK => PruneKeepsLeaders
  <2> SUFFICES ASSUME TypeOK, Live(table) # {}
               PROVE  /\ PeakVote(Prune(table)) = PeakVote(table)
                      /\ \A a \in Live(table) :
                           table.votes[a] = PeakVote(table) =>
                             /\ a \in Live(Prune(table))
                             /\ Prune(table).votes[a] = table.votes[a]
    BY DEF PruneKeepsLeaders
  <2> DEFINE peak == PeakVote(table)
             kept == Kept(table, peak \div 2)
  <2>1. /\ table.votes \in [Live(table) -> 1..MaxVotes]
        /\ \E a \in Live(table) : table.votes[a] = peak
        /\ \A a \in Live(table) : table.votes[a] <= peak
        /\ peak \in 1..MaxVotes
    BY PeakVoteIsMax DEF TypeOK
  <2>2. peak \div 2 <= peak /\ peak \in Nat
    BY <2>1, CounterAssumption
  <2>3. /\ Prune(table).votes = [a \in kept |-> table.votes[a]]
        /\ Live(Prune(table)) = kept
    BY DEF Prune, Filter, Live
  <2>4. \A a \in Live(table) : table.votes[a] = peak => a \in kept
    BY <2>2 DEF Kept
  <2>5. kept \subseteq Live(table) /\ kept # {}
    BY <2>1, <2>4 DEF Kept
  <2>6. Prune(table).votes \in [Live(Prune(table)) -> 1..MaxVotes]
    BY <2>1, <2>3, <2>5
  <2>7. /\ \E a \in kept : Prune(table).votes[a] = PeakVote(Prune(table))
        /\ \A a \in kept : Prune(table).votes[a] <= PeakVote(Prune(table))
        /\ PeakVote(Prune(table)) \in 1..MaxVotes
    BY <2>3, <2>5, <2>6, PeakVoteIsMax
  <2> HIDE DEF peak, kept
  <2>8. PICK a \in kept : table.votes[a] = PeakVote(Prune(table))
    BY <2>3, <2>7
  <2>9. PICK b \in Live(table) : table.votes[b] = peak
    BY <2>1
  <2>10. PeakVote(Prune(table)) <= peak /\ peak <= PeakVote(Prune(table))
    <3>1. table.votes[a] <= peak
      BY <2>1, <2>5, <2>8
    <3>2. table.votes[b] <= PeakVote(Prune(table))
      BY <2>3, <2>4, <2>7, <2>9
    <3> QED BY <3>1, <3>2, <2>8, <2>9
  <2>11. PeakVote(Prune(table)) = peak
    BY <2>1, <2>7, <2>10, CounterAssumption
  <2> QED BY <2>3, <2>4, <2>11 DEF peak
<1> QED BY <1>1, TypeCorrect, PTL

\* A leaf at address 0 that carries a vote nobody cast is reported only by a
\* tree in which nothing was ever registered.
THEOREM PhantomWhenFresh == Spec => []PhantomOnlyWhenFresh
<1>1. Init => PhantomOnlyWhenFresh
  BY DEF Init, Empty, PhantomOnlyWhenFresh
<1>2. PhantomOnlyWhenFresh /\ [Next]_table => PhantomOnlyWhenFresh'
  <2> SUFFICES ASSUME PhantomOnlyWhenFresh, [Next]_table PROVE PhantomOnlyWhenFresh'
    OBVIOUS
  <2>1. ASSUME NEW a \in Addr, RegisterAddress(a) PROVE Live(table)' # {}
    BY <2>1 DEF RegisterAddress, Register, Live
  <2>2. ASSUME NEW threshold, FilterBelow(threshold), Live(table) # {},
               Live(table)' = {}
        PROVE  table'.root = 0
    <3>1. table' = [votes |-> [a \in Kept(table, threshold) |-> table.votes[a]],
                    root  |-> IF Kept(table, threshold) = {} THEN 0 ELSE table.root,
                    nodes |-> table.nodes]
      BY <2>2 DEF FilterBelow, Filter
    <3>2. Live(table)' = Kept(table, threshold)
      BY <3>1 DEF Live
    <3> QED BY <2>2, <3>1, <3>2
  <2>3. ASSUME NEW threshold, FilterBelow(threshold), Live(table) = {}
        PROVE  table' = table
    BY <2>3 DEF FilterBelow, Filter
  <2> QED BY <2>1, <2>2, <2>3 DEF Next, PhantomOnlyWhenFresh, Live
<1> QED BY <1>1, <1>2, PTL DEF Spec
=============================================================================
