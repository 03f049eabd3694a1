----------------------------- MODULE VoteCounter -----------------------------
(***************************************************************************)
(* What an AddrTree promises: a counter per address that registering raises*)
(* by one and filtering either keeps unchanged or forgets.                 *)
(***************************************************************************)
EXTENDS VoteTable

CONSTANTS
  MaxVotes,   \* bound on the votes of one address (the code's i32)
  MaxNodes    \* bound on the nodes ever allocated (the code's u64)

ASSUME CounterAssumption ==
  /\ MaxVotes \in Nat \ {0} /\ MaxNodes \in Nat
  /\ \A a \in Addr : IsFiniteSet(Path[a])

VARIABLE table

Init == table = Empty

RegisterAddress(a) ==
  /\ a \in Live(table) => table.votes[a] < MaxVotes
  /\ table' = Register(table, a)
  /\ table'.nodes <= MaxNodes

FilterBelow(threshold) == table' = Filter(table, threshold)

Next ==
  \/ \E a \in Addr : RegisterAddress(a)
  \/ \E threshold \in 0..MaxVotes + 1 : FilterBelow(threshold)

Spec == Init /\ [][Next]_table

-----------------------------------------------------------------------------

\* Types.  After any mix of register_address and filter each address in the
\* tree has at least one vote, and the root alone may be an empty leaf.
TypeOK ==
  /\ table = [votes |-> table.votes, root |-> table.root, nodes |-> table.nodes]
  /\ Live(table) \in SUBSET Addr
  /\ table.votes \in [Live(table) -> 1..MaxVotes]
  /\ table.root \in 0..1
  /\ table.nodes \in 0..MaxNodes

\* memsize() must not understate a tree that was filtered and refilled:
\* nb_nodes covers the nodes in use.
LiveAccounted ==
  /\ IsFiniteSet(LiveNodes(table))
  /\ Cardinality(LiveNodes(table)) <= table.nodes

\* The memory-saving filter of endian_detect.rs and base_address.rs, applied
\* at any moment, keeps every address that leads the vote, with its votes, so
\* it can neither change the winner nor empty the tree.
PruneKeepsLeaders ==
  Live(table) # {} =>
    /\ PeakVote(Prune(table)) = PeakVote(table)
    /\ \A a \in Live(table) :
         table.votes[a] = PeakVote(table) =>
           a \in Live(Prune(table)) /\ Prune(table).votes[a] = table.votes[a]

\* The phantom leaf at address 0 claims a vote only while nothing was ever
\* registered: an emptied tree reports it with none.
PhantomOnlyWhenFresh ==
  Live(table) = {} /\ table.root = 1 => table.nodes = 0
=============================================================================
