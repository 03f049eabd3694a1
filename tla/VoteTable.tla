------------------------------ MODULE VoteTable ------------------------------
(***************************************************************************)
(* The address tree of addrtree.rs as its users see it: a table of votes   *)
(* by address, plus the two things the radix tree lets through.  A table   *)
(* without addresses still reports one leaf, its root, at address 0; and   *)
(* the node counter remembers every node ever allocated, freed or not.     *)
(***************************************************************************)
EXTENDS Naturals, FiniteSets

CONSTANTS
  Addr,    \* addresses that can be registered (natural numbers)
  Path     \* Path[a]: the tree nodes below the root that lead to address a

Empty == [votes |-> [a \in {} |-> 0], root |-> 1, nodes |-> 0]

Live(t) == DOMAIN t.votes

LiveNodes(t) == UNION {Path[a] : a \in Live(t)}

\* Mutant of Register: the root counts as a visited leaf.
RegisterVotingRoot(t, a) ==
  [votes |-> [b \in Live(t) \cup {a} |->
                IF b \notin Live(t) THEN 1
                ELSE IF b = a THEN t.votes[b] + 1 ELSE t.votes[b]],
   root  |-> t.root + 1,
   nodes |-> t.nodes + Cardinality(Path[a] \ LiveNodes(t))]

Register(t, a) ==
  [votes |-> [b \in Live(t) \cup {a} |->
                IF b \notin Live(t) THEN 1
                ELSE IF b = a THEN t.votes[b] + 1 ELSE t.votes[b]],
   root  |-> t.root,
   nodes |-> t.nodes + Cardinality(Path[a] \ LiveNodes(t))]

KeptBelow(t, threshold) ==    \* mutant of Kept
  {a \in Live(t) : t.votes[a] < threshold}

Kept(t, threshold) == {a \in Live(t) : t.votes[a] >= threshold}

\* Mutant of Filter: the node counter restarts from what is left.
FilterRecounting(t, threshold) ==
  IF Live(t) = {} THEN t
  ELSE [votes |-> [a \in Kept(t, threshold) |-> t.votes[a]],
        root  |-> IF Kept(t, threshold) = {} THEN 0 ELSE t.root,
        nodes |-> Cardinality(Kept(t, threshold))]

\* Mutant of Filter: the collapsed root keeps the vote it was created with.
FilterKeepingRootVote(t, threshold) ==
  IF Live(t) = {} THEN t
  ELSE [votes |-> [a \in Kept(t, threshold) |-> t.votes[a]],
        root  |-> t.root,
        nodes |-> t.nodes]

\* A root that loses its last child becomes a leaf again, without votes.
Filter(t, threshold) ==
  IF Live(t) = {} THEN t
  ELSE [votes |-> [a \in Kept(t, threshold) |-> t.votes[a]],
        root  |-> IF Kept(t, threshold) = {} THEN 0 ELSE t.root,
        nodes |-> t.nodes]

\* leaves(): the phantom root leaf stands at address 0.
LeafSet(t) == IF Live(t) = {} THEN {0} ELSE Live(t)
LeafVotes(t, a) == IF Live(t) = {} THEN t.root ELSE t.votes[a]

PeakVote(t) ==
  IF Live(t) = {} THEN t.root
  ELSE CHOOSE v \in {t.votes[a] : a \in Live(t)} :
         \A a \in Live(t) : t.votes[a] <= v

\* The memory-saving filter both users of the tree apply: votes below half
\* the best are dropped.
Prune(t) == Filter(t, PeakVote(t) \div 2)
=============================================================================
