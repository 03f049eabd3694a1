----------------------------- MODULE RefinePool -----------------------------
(***************************************************************************)
(* refine_candidates with the built-in std::thread backend: the kept       *)
(* candidates are cut into contiguous chunks, one scoped thread refines    *)
(* each chunk into a vector of its own, and the caller joins the threads   *)
(* in spawn order and concatenates what they return.  self and poi_list    *)
(* are shared read-only, so refine_one is a constant function of the       *)
(* candidate's index.                                                      *)
(***************************************************************************)
EXTENDS Integers, Sequences

CONSTANTS
  MaxKept,     \* bound on the number of kept candidates
  MaxThreads,  \* bound on the -t/--threads argument
  Refine       \* Refine[i]: what refine_one returns for the i-th candidate

ASSUME PoolAssumption == MaxKept \in Nat /\ MaxThreads \in Nat \ {0}

VARIABLES
  n,           \* kept.len()
  nbThreads,   \* self.nb_threads
  pc,          \* where the calling thread stands
  chunk,       \* candidates per chunk
  rest,        \* candidates already handed to a thread
  slices,      \* chunk of each spawned thread: candidates lo+1 .. hi
  outs,        \* each thread's own result vector
  joined,      \* threads joined so far
  results      \* the caller's result vector

vars == <<n, nbThreads, pc, chunk, rest, slices, outs, joined, results>>

MinOf(a, b) == IF a <= b THEN a ELSE b
FloorDiv(a, b) == a \div b    \* mutant of CeilDiv
CeilDiv(a, b) == (a + b - 1) \div b

\* BaseAddressFinder::new and with_threads: .max(1).
Clamp(requested) == IF requested < 1 THEN 1 ELSE requested

Init ==
  /\ n \in 0..MaxKept
  /\ nbThreads \in {Clamp(t) : t \in 0..MaxThreads}
  /\ pc = "start"
  /\ chunk = 1
  /\ rest = 0
  /\ slices = <<>>
  /\ outs = <<>>
  /\ joined = 0
  /\ results = <<>>

-----------------------------------------------------------------------------
\* Calling thread.

Sequential == nbThreads <= 1 \/ n < 2

ChunkSize == CeilDiv(n, MinOf(nbThreads, n))

Start ==
  /\ pc = "start"
  /\ \/ Sequential /\ pc' = "sequential" /\ UNCHANGED chunk
     \/ ~Sequential /\ pc' = "spawning" /\ chunk' = ChunkSize
  /\ UNCHANGED <<n, nbThreads, rest, slices, outs, joined, results>>

RefineInline ==
  /\ pc = "sequential"
  /\ Len(results) < n
  /\ results' = Append(results, Refine[Len(results) + 1])
  /\ UNCHANGED <<n, nbThreads, pc, chunk, rest, slices, outs, joined>>

ReturnInline ==
  /\ pc = "sequential"
  /\ Len(results) = n
  /\ pc' = "returned"
  /\ UNCHANGED <<n, nbThreads, chunk, rest, slices, outs, joined, results>>

SliceEndUnclamped == rest + chunk    \* mutant of SliceEnd
SliceEnd == MinOf(rest + chunk, n)

\* Mutant: the next chunk starts one candidate after the end of this one.
SpawnSkipping ==
  /\ pc = "spawning"
  /\ rest < n
  /\ slices' = Append(slices, [lo |-> rest, hi |-> SliceEnd])
  /\ outs' = Append(outs, <<>>)
  /\ rest' = MinOf(SliceEnd + 1, n)
  /\ UNCHANGED <<n, nbThreads, pc, chunk, joined, results>>

Spawn ==
  /\ pc = "spawning"
  /\ rest < n
  /\ slices' = Append(slices, [lo |-> rest, hi |-> SliceEnd])
  /\ outs' = Append(outs, <<>>)
  /\ rest' = SliceEnd
  /\ UNCHANGED <<n, nbThreads, pc, chunk, joined, results>>

\* The operating system refuses a thread: Scope::spawn panics, and the scope
\* waits for the threads already running before it lets the panic through.
SpawnFails ==
  /\ pc = "spawning"
  /\ rest < n
  /\ pc' = "unwinding"
  /\ UNCHANGED <<n, nbThreads, chunk, rest, slices, outs, joined, results>>

AllSpawned ==
  /\ pc = "spawning"
  /\ rest = n
  /\ pc' = "joining"
  /\ UNCHANGED <<n, nbThreads, chunk, rest, slices, outs, joined, results>>

Finished(w) == Len(outs[w]) = slices[w].hi - slices[w].lo

LastToJoin == Len(slices) - joined    \* mutant of NextToJoin
NextToJoin == joined + 1

\* handle.join(), then results.extend(..): handles are taken in spawn order.
Join ==
  /\ pc = "joining"
  /\ joined < Len(slices)
  /\ Finished(NextToJoin)
  /\ results' = results \o outs[NextToJoin]
  /\ joined' = joined + 1
  /\ UNCHANGED <<n, nbThreads, pc, chunk, rest, slices, outs>>

Return ==
  /\ pc = "joining"
  /\ joined = Len(slices)
  /\ pc' = "returned"
  /\ UNCHANGED <<n, nbThreads, chunk, rest, slices, outs, joined, results>>

ScopeExitAtOnce == TRUE    \* mutant of ScopeExit
ScopeExit == \A w \in DOMAIN slices : Finished(w)

Unwind ==
  /\ pc = "unwinding"
  /\ ScopeExit
  /\ pc' = "panicked"
  /\ UNCHANGED <<n, nbThreads, chunk, rest, slices, outs, joined, results>>

-----------------------------------------------------------------------------
\* Thread w: refine the next candidate of its slice.

\* Mutant: the thread overwrites its vector instead of pushing to it.
WorkOverwriting(w) ==
  /\ w \in DOMAIN slices
  /\ ~Finished(w)
  /\ outs' = [outs EXCEPT ![w] = <<Refine[slices[w].lo + 1]>>]
  /\ UNCHANGED <<n, nbThreads, pc, chunk, rest, slices, joined, results>>

Work(w) ==
  /\ w \in DOMAIN slices
  /\ ~Finished(w)
  /\ outs' = [outs EXCEPT ![w] = Append(@, Refine[slices[w].lo + Len(@) + 1])]
  /\ UNCHANGED <<n, nbThreads, pc, chunk, rest, slices, joined, results>>

-----------------------------------------------------------------------------

Settled == pc \in {"returned", "panicked"}

Terminated == Settled /\ UNCHANGED vars

Caller ==
  \/ Start \/ RefineInline \/ ReturnInline
  \/ Spawn \/ AllSpawned \/ Join \/ Return \/ Unwind

Next ==
  \/ Caller
  \/ SpawnFails
  \/ \E w \in DOMAIN slices : Work(w)
  \/ Terminated

\* The scheduler runs every runnable thread; nothing obliges a spawn to fail.
Fairness == WF_vars(Caller) /\ \A w \in 1..MaxKept : WF_vars(Work(w))

Spec == Init /\ [][Next]_vars /\ Fairness

-----------------------------------------------------------------------------

Outcome == {Refine[i] : i \in 1..MaxKept}

\* Types of the calling thread's variables and of the threads' vectors in
\* refine_parallel (std::thread).
TypeOK ==
  /\ n \in 0..MaxKept
  /\ nbThreads \in 1..MaxThreads
  /\ pc \in {"start", "sequential", "spawning", "joining", "unwinding",
             "returned", "panicked"}
  /\ chunk \in Nat \ {0}
  /\ rest \in 0..n
  /\ slices \in Seq([lo : 0..MaxKept, hi : 0..MaxKept])
  /\ outs \in Seq(Seq(Outcome))
  /\ Len(outs) = Len(slices)
  /\ joined \in 0..Len(slices)
  /\ results \in Seq(Outcome)

\* At every moment the caller's vector is an initial segment of the outcomes
\* in candidate order, whatever order the threads of refine_parallel run in.
InOrder == results = [i \in 1..Len(results) |-> Refine[i]]

\* Chunks given out so far tile 1..rest: each candidate is refined by exactly
\* one thread of refine_parallel, none is skipped and none refined twice.
EachOnce ==
  \A i \in 1..n :
    LET owners == {w \in DOMAIN slices : i \in slices[w].lo + 1 .. slices[w].hi}
    IN  IF i <= rest THEN \E w \in owners : owners = {w} ELSE owners = {}

\* refine_parallel never starts more threads than -t allows.
WithinBudget == Len(slices) <= nbThreads

\* No thread outlives the call that lent it self and poi_list, on the normal
\* way out (every handle joined) or on a panic (the scope waits).
ScopeCoversThreads == Settled => \A w \in DOMAIN slices : Finished(w)

\* The call settles: nobody waits for a thread that never finishes.
Settles == <>Settled

\* refine_parallel implements the sequential map: same answer as one thread.
Map == INSTANCE OrderedMap WITH
  status <- IF Settled THEN pc ELSE "running",
  answer <- IF pc = "returned" THEN results ELSE <<>>

ImplementsMap == Map!Spec
=============================================================================
