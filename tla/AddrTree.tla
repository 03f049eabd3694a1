------------------------------ MODULE AddrTree ------------------------------
(***************************************************************************)
(* addrtree.rs node by node: a radix tree over the digits of an address,   *)
(* most significant first.  A node is named by the digits that lead to it, *)
(* the root by the empty sequence; the tree maps allocated nodes to their  *)
(* votes and leaf flag.  The code has Radix 256 and Depth 8.               *)
(***************************************************************************)
EXTENDS Naturals, FiniteSets, SequencesExt

CONSTANTS
  Radix,      \* children per node
  Depth,      \* digits per address (ADDRESS_BYTES)
  Registered, \* the addresses, as digit sequences, that callers register
  MaxVotes,   \* bound on the votes of a node (the code's i32)
  MaxNodes    \* bound on nb_nodes (the code's u64)

Digit == 0..Radix - 1

ASSUME TreeAssumption ==
  /\ Radix \in Nat \ {0} /\ Depth \in Nat \ {0}
  /\ Registered \subseteq [1..Depth -> Digit]
  /\ MaxVotes \in Nat \ {0} /\ MaxNodes \in Nat

VARIABLES
  tree,     \* allocated node -> [votes, leaf]
  nbNodes   \* nodes ever allocated below the root

vars == <<tree, nbNodes>>

Root == <<>>
NewNode == [votes |-> 1, leaf |-> TRUE]

Init ==
  /\ tree = [p \in {Root} |-> NewNode]
  /\ nbNodes = 0

-----------------------------------------------------------------------------

Child(p, d) == Append(p, d)
Children(t, p) == {Child(p, d) : d \in Digit} \cap DOMAIN t

\* Nodes visited below the root on the way to a full address.
Walk(address) == {SubSeq(address, 1, k) : k \in 1..Depth}

\* A missing node is created; an existing one is voted for if it is a leaf;
\* a node that receives a child stops being a leaf.
Insert(t, address) ==
  LET created == Walk(address) \ DOMAIN t
      parents == {Front(p) : p \in created}
  IN  [p \in DOMAIN t \cup created |->
         IF p \in created
           THEN [NewNode EXCEPT !.leaf = p \notin parents]
           ELSE [votes |-> IF p \in Walk(address) /\ t[p].leaf
                             THEN t[p].votes + 1 ELSE t[p].votes,
                 leaf  |-> t[p].leaf /\ p \notin parents]]

RegisterAddress(address) ==
  /\ address \in DOMAIN tree => tree[address].votes < MaxVotes
  /\ tree' = Insert(tree, address)
  /\ nbNodes' = nbNodes + Cardinality(Walk(address) \ DOMAIN tree)
  /\ nbNodes' <= MaxNodes

\* Mutant of Survivors: inner nodes that lost every child stay.
SurvivorsHollow(t, threshold) ==
  {p \in DOMAIN t : t[p].leaf => t[p].votes >= threshold}

\* Whether each node survives a filter: leaves by their votes, inner nodes by
\* keeping at least one child.
Survivors(t, threshold) ==
  LET keep[p \in DOMAIN t] ==
        IF t[p].leaf THEN t[p].votes >= threshold
        ELSE \E q \in Children(t, p) : keep[q]
  IN  {p \in DOMAIN t : keep[p]}

\* The root itself always stays; without children it is a leaf again.
Pruned(t, threshold) ==
  LET kept == Survivors(t, threshold) \cup {Root}
  IN  IF t[Root].leaf THEN t
      ELSE [p \in kept |-> IF kept = {Root} THEN [votes |-> 0, leaf |-> TRUE]
                                            ELSE t[p]]

\* Mutant of FilterBelow: nb_nodes is counted anew, in leaves.
FilterRecounting(threshold) ==
  /\ tree' = Pruned(tree, threshold)
  /\ nbNodes' = Cardinality({p \in DOMAIN tree' : tree'[p].leaf})

FilterBelow(threshold) ==
  /\ tree' = Pruned(tree, threshold)
  /\ UNCHANGED nbNodes

Next ==
  \/ \E address \in Registered : RegisterAddress(address)
  \/ \E threshold \in 0..MaxVotes + 1 : FilterBelow(threshold)

Spec == Init /\ [][Next]_vars

-----------------------------------------------------------------------------
\* Observers, each a recursion over the subtree.

MaxVote(t) ==
  LET peak[p \in DOMAIN t] ==
        IF t[p].leaf THEN t[p].votes
        ELSE Max({0} \cup {peak[q] : q \in Children(t, p)})
  IN  peak[Root]

\* What f says of each child of p in digit order, or this if there is none.
OfChildren(t, p, f, none) ==
  [k \in 1..Radix |-> IF Child(p, k - 1) \in DOMAIN t THEN f[Child(p, k - 1)] ELSE none]

Total(counts) ==
  LET sum[k \in 0..Radix] == IF k = 0 THEN 0 ELSE sum[k - 1] + counts[k]
  IN  sum[Radix]

\* Mutant of CountNodes: inner nodes are counted too.
CountAllNodes(t) ==
  LET count[p \in DOMAIN t] ==
        IF t[p].leaf THEN 1 ELSE 1 + Total(OfChildren(t, p, count, 0))
  IN  count[Root]

CountNodes(t) ==
  LET count[p \in DOMAIN t] ==
        IF t[p].leaf THEN 1 ELSE Total(OfChildren(t, p, count, 0))
  IN  count[Root]

\* The number that a node's digits make.
Value(p) ==
  LET value[k \in 0..Len(p)] == IF k = 0 THEN 0 ELSE value[k - 1] * Radix + p[k]
  IN  value[Len(p)]

\* collect_leaves: address and votes of every leaf, children in digit order.
Leaves(t) ==
  LET collect[p \in DOMAIN t] ==
        IF t[p].leaf THEN <<[address |-> Value(p), votes |-> t[p].votes]>>
        ELSE FlattenSeq(OfChildren(t, p, collect, <<>>))
  IN  collect[Root]

-----------------------------------------------------------------------------

\* Types.  Nodes are reached by at most Depth digits.
TypeOK ==
  /\ DOMAIN tree \subseteq UNION {[1..k -> Digit] : k \in 0..Depth}
  /\ \A p \in DOMAIN tree : tree[p] \in [votes : 0..MaxVotes, leaf : BOOLEAN]
  /\ nbNodes \in 0..MaxNodes

\* Leaves are exactly the full addresses and a childless root, every node
\* hangs from an inner node, and no filter leaves a hollow branch behind:
\* otherwise register_address would vote for the middle of an address.  Types
\* included.
Shape ==
  /\ TypeOK
  /\ Root \in DOMAIN tree
  /\ \A p \in DOMAIN tree :
       /\ p # Root => Front(p) \in DOMAIN tree /\ ~tree[Front(p)].leaf
       /\ tree[p].leaf <=> Children(tree, p) = {}
       /\ tree[p].leaf => p = Root \/ Len(p) = Depth

\* The radix tree is a table of votes by address.
FullAddresses == {p \in DOMAIN tree : Len(p) = Depth}

AsTable ==
  [votes |-> [a \in FullAddresses |-> tree[a].votes],
   root  |-> tree[Root].votes,
   nodes |-> nbNodes]

Table == INSTANCE VoteCounter WITH
  Addr  <- Registered,
  Path  <- [a \in Registered |-> Walk(a)],
  table <- AsTable

ImplementsTable == Table!Spec

\* max_vote, count_nodes and leaves() tell the table's contents, the leaves in
\* ascending address order: callers rank and cut that list.
ObserversAgree ==
  LET leaves == Leaves(tree)
      live   == Table!Live(AsTable)
  IN  /\ MaxVote(tree) = Table!PeakVote(AsTable)
      /\ CountNodes(tree) = Len(leaves)
      /\ \A i, j \in DOMAIN leaves : i < j => leaves[i].address < leaves[j].address
      /\ ToSet(leaves) =
           IF live = {} THEN {[address |-> 0, votes |-> tree[Root].votes]}
           ELSE {[address |-> Value(a), votes |-> AsTable.votes[a]] : a \in live}
=============================================================================
