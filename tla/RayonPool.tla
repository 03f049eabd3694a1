----------------------------- MODULE RayonPool -----------------------------
(***************************************************************************)
(* refine_candidates built with the rayon feature: an indexed parallel map *)
(* over the kept candidates, on a pool of nb_threads workers or, when that *)
(* pool cannot be built, on the global one.  The workers are rayon's: any  *)
(* idle worker may take any candidate nobody has taken.  The global pool   *)
(* may fail to start as well, which is a panic.                            *)
(***************************************************************************)
EXTENDS Naturals, Sequences, FiniteSets

CONSTANTS
  MaxKept,     \* bound on the number of kept candidates
  MaxThreads,  \* bound on the -t/--threads argument
  GlobalSize,  \* workers of the global pool (the machine's cores)
  Refine       \* Refine[i]: what refine_one returns for the i-th candidate

ASSUME RayonAssumption ==
  MaxKept \in Nat /\ MaxThreads \in Nat \ {0} /\ GlobalSize \in Nat \ {0}

VARIABLES
  n,           \* kept.len()
  nbThreads,   \* self.nb_threads
  pc,          \* "start", "sequential", "building", "mapping", "fallback", "returned",
               \* "panicked"
  workers,     \* workers of the pool the map runs on
  busy,        \* candidate each busy worker is refining
  arrived,     \* [index, outcome] in order of completion
  results      \* the caller's result vector

vars == <<n, nbThreads, pc, workers, busy, arrived, results>>

Clamp(requested) == IF requested < 1 THEN 1 ELSE requested

Init ==
  /\ n \in 0..MaxKept
  /\ nbThreads \in {Clamp(t) : t \in 0..MaxThreads}
  /\ pc = "start"
  /\ workers = 0
  /\ busy = <<>>
  /\ arrived = <<>>
  /\ results = <<>>

-----------------------------------------------------------------------------
\* Calling thread.

Sequential == nbThreads <= 1 \/ n < 2

Start ==
  /\ pc = "start"
  /\ pc' = IF Sequential THEN "sequential" ELSE "building"
  /\ UNCHANGED <<n, nbThreads, workers, busy, arrived, results>>

RefineInline ==
  /\ pc = "sequential"
  /\ Len(results) < n
  /\ results' = Append(results, Refine[Len(results) + 1])
  /\ UNCHANGED <<n, nbThreads, pc, workers, busy, arrived>>

ReturnInline ==
  /\ pc = "sequential"
  /\ Len(results) = n
  /\ pc' = "returned"
  /\ UNCHANGED <<n, nbThreads, workers, busy, arrived, results>>

\* Mutant of BuildPool: the builder is not told how many threads to use.
BuildPoolDefault ==
  /\ pc = "building"
  /\ workers' = GlobalSize
  /\ pc' = "mapping"
  /\ UNCHANGED <<n, nbThreads, busy, arrived, results>>

BuildPool ==
  /\ pc = "building"
  /\ workers' = nbThreads
  /\ pc' = "mapping"
  /\ UNCHANGED <<n, nbThreads, busy, arrived, results>>

BuildFails ==
  /\ pc = "building"
  /\ workers' = GlobalSize
  /\ pc' = "fallback"
  /\ UNCHANGED <<n, nbThreads, busy, arrived, results>>

\* The fallback starts rayon's global pool on its first use.
GlobalPoolFails ==
  /\ pc = "building"
  /\ pc' = "panicked"
  /\ UNCHANGED <<n, nbThreads, workers, busy, arrived, results>>

Mapping == pc \in {"mapping", "fallback"}

\* Mutant of Collected: outcomes in the order they arrived.
CollectedByArrival == [k \in 1..n |-> arrived[k].outcome]

Collected ==
  [i \in 1..n |->
     arrived[CHOOSE k \in DOMAIN arrived : arrived[k].index = i].outcome]

Collect ==
  /\ Mapping
  /\ Len(arrived) = n
  /\ results' = Collected
  /\ pc' = "returned"
  /\ UNCHANGED <<n, nbThreads, workers, busy, arrived>>

-----------------------------------------------------------------------------
\* Rayon's workers.

Taken == {busy[w] : w \in DOMAIN busy} \cup {arrived[k].index : k \in DOMAIN arrived}

Free == 1..n \ Taken

Claim(w) ==
  /\ Mapping
  /\ w \in 1..workers
  /\ w \notin DOMAIN busy
  /\ \E i \in Free : busy' = [v \in DOMAIN busy \cup {w} |-> IF v = w THEN i ELSE busy[v]]
  /\ UNCHANGED <<n, nbThreads, pc, workers, arrived, results>>

\* Mutant of Complete: an outcome ahead of its turn is thrown away, and its
\* candidate handed out again.
CompleteInOrder(w) ==
  /\ w \in DOMAIN busy
  /\ arrived' = IF busy[w] = Len(arrived) + 1
                  THEN Append(arrived, [index |-> busy[w], outcome |-> Refine[busy[w]]])
                ELSE arrived
  /\ busy' = [v \in DOMAIN busy \ {w} |-> busy[v]]
  /\ UNCHANGED <<n, nbThreads, pc, workers, results>>

Complete(w) ==
  /\ w \in DOMAIN busy
  /\ arrived' = Append(arrived, [index |-> busy[w], outcome |-> Refine[busy[w]]])
  /\ busy' = [v \in DOMAIN busy \ {w} |-> busy[v]]
  /\ UNCHANGED <<n, nbThreads, pc, workers, results>>

-----------------------------------------------------------------------------

Settled == pc \in {"returned", "panicked"}

Terminated == Settled /\ UNCHANGED vars

Caller ==
  \/ Start \/ RefineInline \/ ReturnInline
  \/ BuildPool \/ BuildFails \/ GlobalPoolFails \/ Collect

Worker == \E w \in 1..workers : Claim(w) \/ Complete(w)

Next == Caller \/ Worker \/ Terminated

\* The pool keeps working while it has work; no worker is owed a candidate.
Fairness == WF_vars(Caller) /\ WF_vars(Worker)

Spec == Init /\ [][Next]_vars /\ Fairness

-----------------------------------------------------------------------------

\* Types.  A worker of the pool holds at most one candidate, and only as many
\* outcomes arrive as refine_candidates handed in.
TypeOK ==
  /\ n \in 0..MaxKept
  /\ nbThreads \in 1..MaxThreads
  /\ pc \in {"start", "sequential", "building", "mapping", "fallback", "returned",
             "panicked"}
  /\ workers \in 0..MaxThreads \cup {GlobalSize}
  /\ DOMAIN busy \subseteq 1..workers
  /\ \A w \in DOMAIN busy : busy[w] \in 1..n
  /\ Len(arrived) <= n
  /\ results = <<>> \/ pc \in {"sequential", "returned"}

\* -t bounds the candidates of refine_parallel in flight, unless the pool
\* could not be built: of the global pool the code sets no bound.  Types included.
BudgetUnlessFallback ==
  /\ TypeOK
  /\ pc = "mapping" => Cardinality(DOMAIN busy) <= nbThreads

\* The call settles whatever pool it runs on, or if there is none.
Settles == <>Settled

\* The rayon backend too implements the sequential map.
Map == INSTANCE OrderedMap WITH
  status <- IF Settled THEN pc ELSE "running",
  answer <- IF pc = "returned" THEN results ELSE <<>>

ImplementsMap == Map!Spec
=============================================================================
