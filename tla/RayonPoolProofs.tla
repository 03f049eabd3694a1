--------------------------- MODULE RayonPoolProofs ---------------------------
(***************************************************************************)
(* Proofs about the rayon backend, for every number of candidates, every   *)
(* -t value, both pools and every order in which workers steal.            *)
(***************************************************************************)
EXTENDS RayonPool, TLAPS, FiniteSetTheorems

Outcome == {Refine[i] : i \in 1..n}

Arrival == [index : 1..n, outcome : Outcome]

\* What has arrived is the outcome of the candidate it says.
Arrived ==
  /\ arrived \in Seq(Arrival)
  /\ \A k \in 1..Len(arrived) : arrived[k].outcome = Refine[arrived[k].index]

\* No candidate is in two places.
Apart ==
  /\ \A v, w \in DOMAIN busy : v # w => busy[v] # busy[w]
  /\ \A w \in DOMAIN busy : \A k \in 1..Len(arrived) : arrived[k].index # busy[w]
  /\ \A k, l \in 1..Len(arrived) : k # l => arrived[k].index # arrived[l].index

\* What each phase of the caller knows of the pool and of the results.
Phase ==
  /\ pc \in {"start", "sequential", "building", "returned", "panicked"} => DOMAIN busy = {}
  /\ pc \in {"start", "sequential", "building"} => Len(arrived) = 0
  /\ pc = "mapping" => workers = nbThreads
  /\ pc = "sequential" =>
       /\ results \in Seq(Outcome) /\ Len(results) <= n
       /\ \A i \in 1..Len(results) : results[i] = Refine[i]
  /\ pc = "returned" => results = [i \in 1..n |-> Refine[i]]
  /\ pc = "start" => results = <<>>

IInv == TypeOK /\ Arrived /\ Apart /\ Phase

-----------------------------------------------------------------------------
\* Distinct arrivals that leave out a candidate are fewer than the candidates.
LEMMA Room ==
  ASSUME NEW m \in Nat, NEW l \in Nat, NEW f \in [1..l -> 1..m], NEW i \in 1..m,
         \A j, k \in 1..l : j # k => f[j] # f[k],
         \A k \in 1..l : f[k] # i
  PROVE  l < m
<1> DEFINE others == (1..m) \ {i}
<1>1. IsFiniteSet(1..m) /\ Cardinality(1..m) = m /\ IsFiniteSet(1..l) /\ Cardinality(1..l) = l
  BY FS_Interval
<1>2. IsFiniteSet(others) /\ Cardinality(others) = m - 1
  BY <1>1, FS_RemoveElement
<1>3. f \in [1..l -> others]
  OBVIOUS
<1> HIDE DEF others
<1>4. ~(Cardinality(others) < Cardinality(1..l))
  BY <1>1, <1>2, <1>3, FS_PigeonHole
<1> QED BY <1>1, <1>2, <1>4

\* A candidate that has not arrived keeps the arrivals below their number.
LEMMA MissingLeavesRoom ==
  ASSUME IInv, NEW i \in 1..n, \A k \in 1..Len(arrived) : arrived[k].index # i
  PROVE  Len(arrived) < n
<1> DEFINE f == [k \in 1..Len(arrived) |-> arrived[k].index]
<1>1. n \in Nat /\ Len(arrived) \in Nat
  BY RayonAssumption DEF IInv, TypeOK, Arrived
<1>2. \A k \in 1..Len(arrived) : arrived[k] \in Arrival
  BY DEF IInv, Arrived
<1>3. f \in [1..Len(arrived) -> 1..n]
  BY <1>2 DEF Arrival
<1>4. \A j, k \in 1..Len(arrived) : j # k => f[j] # f[k]
  BY DEF IInv, Apart
<1>5. \A k \in 1..Len(arrived) : f[k] # i
  OBVIOUS
<1> HIDE DEF f
<1> QED BY <1>1, <1>3, <1>4, <1>5, Room

\* When all have arrived nobody is busy, and the indexed collect puts the
\* outcomes in candidate order.
LEMMA AllArrived ==
  ASSUME IInv, Len(arrived) = n
  PROVE  DOMAIN busy = {} /\ Collected = [i \in 1..n |-> Refine[i]]
<1>1. n \in Nat /\ DOMAIN arrived = 1..n
  BY RayonAssumption DEF IInv, TypeOK, Arrived
<1>2. ~\E w \in DOMAIN busy : TRUE
  <2> SUFFICES ASSUME NEW w \in DOMAIN busy PROVE FALSE
    OBVIOUS
  <2>1. busy[w] \in 1..n /\ \A k \in 1..Len(arrived) : arrived[k].index # busy[w]
    BY DEF IInv, TypeOK, Apart
  <2>2. Len(arrived) < n
    BY <2>1, MissingLeavesRoom
  <2> QED BY <1>1, <2>2
<1>3. ASSUME NEW i \in 1..n
      PROVE  arrived[CHOOSE k \in DOMAIN arrived : arrived[k].index = i].outcome = Refine[i]
  <2>1. \E k \in DOMAIN arrived : arrived[k].index = i
    <3> SUFFICES ASSUME \A k \in DOMAIN arrived : arrived[k].index # i PROVE FALSE
      OBVIOUS
    <3>1. Len(arrived) < n
      BY <1>1, MissingLeavesRoom
    <3> QED BY <1>1, <3>1
  <2> DEFINE at == CHOOSE k \in DOMAIN arrived : arrived[k].index = i
  <2>2. at \in DOMAIN arrived /\ arrived[at].index = i
    BY <2>1
  <2> HIDE DEF at
  <2>3. arrived[at].outcome = Refine[i]
    BY <1>1, <2>2 DEF IInv, Arrived
  <2> QED BY <2>3 DEF at
<1>4. Collected = [i \in 1..n |-> Refine[i]]
  BY <1>3 DEF Collected
<1> QED BY <1>2, <1>4

LEMMA InitIInv == Init => IInv
<1> SUFFICES ASSUME Init PROVE IInv
  OBVIOUS
<1>1. /\ n \in 0..MaxKept /\ pc = "start" /\ workers = 0
      /\ busy = <<>> /\ arrived = <<>> /\ results = <<>>
  BY DEF Init
<1>2. nbThreads \in 1..MaxThreads
  BY RayonAssumption DEF Init, Clamp
<1>3. DOMAIN busy = {} /\ Len(arrived) = 0 /\ n \in Nat
  BY <1>1, RayonAssumption
<1>4. TypeOK
  <2>1. DOMAIN busy \subseteq 1..workers /\ \A w \in DOMAIN busy : busy[w] \in 1..n
    BY <1>3, Zenon
  <2>2. Len(arrived) <= n
    BY <1>3
  <2>3. pc \in {"start", "sequential", "building", "mapping", "fallback", "returned",
             "panicked"}
    BY <1>1
  <2>4. workers \in 0..MaxThreads \cup {GlobalSize}
    BY <1>1, RayonAssumption
  <2> QED BY <1>1, <1>2, <2>1, <2>2, <2>3, <2>4, Zenon DEF TypeOK
<1>5. arrived \in Seq(Arrival)
  BY <1>1
<1>6. Arrived /\ Apart /\ Phase
  BY <1>1, <1>3, <1>5 DEF Arrived, Apart, Phase
<1> QED BY <1>4, <1>6 DEF IInv

\* A worker takes a candidate that nobody has.
LEMMA ClaimStep ==
  ASSUME IInv, NEW w \in 1..workers, Claim(w)
  PROVE  IInv'
<1>1. PICK i \in Free :
        busy' = [v \in DOMAIN busy \cup {w} |-> IF v = w THEN i ELSE busy[v]]
  BY DEF Claim
<1>2. /\ UNCHANGED <<n, nbThreads, pc, workers, arrived, results>>
      /\ pc \in {"mapping", "fallback"} /\ w \notin DOMAIN busy
  BY DEF Claim, Mapping
<1>3. /\ i \in 1..n
      /\ \A v \in DOMAIN busy : busy[v] # i
      /\ \A k \in DOMAIN arrived : arrived[k].index # i
  BY <1>1 DEF Free, Taken
<1>4. /\ DOMAIN busy' = DOMAIN busy \cup {w} /\ busy'[w] = i
      /\ \A v \in DOMAIN busy : busy'[v] = busy[v]
  BY <1>1, <1>2
<1>5. DOMAIN arrived = 1..Len(arrived)
  BY DEF IInv, Arrived
<1>6. TypeOK'
  BY <1>2, <1>3, <1>4 DEF IInv, TypeOK
<1>7. Arrived'
  BY <1>2 DEF IInv, Arrived, Arrival, Outcome
<1>8. Apart'
  BY <1>2, <1>3, <1>4, <1>5 DEF IInv, Apart
<1>9. Phase'
  BY <1>2 DEF IInv, Phase
<1> QED BY <1>6, <1>7, <1>8, <1>9 DEF IInv

\* A worker hands in the outcome of its candidate.
LEMMA CompleteStep ==
  ASSUME IInv, NEW w \in 1..workers, Complete(w)
  PROVE  IInv'
<1> DEFINE new == [index |-> busy[w], outcome |-> Refine[busy[w]]]
<1>1. /\ w \in DOMAIN busy /\ arrived' = Append(arrived, new)
      /\ busy' = [v \in DOMAIN busy \ {w} |-> busy[v]]
      /\ UNCHANGED <<n, nbThreads, pc, workers, results>>
  BY DEF Complete
<1>2. /\ busy[w] \in 1..n
      /\ \A k \in 1..Len(arrived) : arrived[k].index # busy[w]
      /\ \A v \in DOMAIN busy \ {w} : busy[v] # busy[w]
  BY <1>1 DEF IInv, TypeOK, Apart
<1>3. new \in Arrival /\ new.index = busy[w] /\ new.outcome = Refine[busy[w]]
  BY <1>2 DEF Arrival, Outcome
<1>4. Len(arrived) < n
  BY <1>2, MissingLeavesRoom
<1> HIDE DEF new
<1>5. /\ arrived \in Seq(Arrival) /\ arrived' \in Seq(Arrival)
      /\ Len(arrived) \in Nat /\ Len(arrived') = Len(arrived) + 1
      /\ \A k \in 1..Len(arrived) : arrived'[k] = arrived[k]
      /\ arrived'[Len(arrived) + 1] = new
  BY <1>1, <1>3 DEF IInv, Arrived
<1>6. DOMAIN busy' = DOMAIN busy \ {w} /\ \A v \in DOMAIN busy' : busy'[v] = busy[v]
  BY <1>1
<1>7. pc \in {"mapping", "fallback"}
  BY <1>1 DEF IInv, Phase, TypeOK
<1>8. TypeOK'
  <2>1. n \in Nat
    BY RayonAssumption DEF IInv, TypeOK
  <2>2. Len(arrived') <= n
    BY <1>4, <1>5, <2>1
  <2> QED BY <1>1, <1>6, <2>2 DEF IInv, TypeOK
<1>9. Arrived'
  <2>1. arrived' \in Seq(Arrival')
    BY <1>1, <1>5 DEF Arrival, Outcome
  <2>2. \A k \in 1..Len(arrived') : arrived'[k].outcome = Refine[arrived'[k].index]
    BY <1>3, <1>5 DEF IInv, Arrived
  <2> QED BY <2>1, <2>2 DEF Arrived
<1>10. Apart'
  BY <1>2, <1>3, <1>5, <1>6 DEF IInv, Apart
<1>11. Phase'
  BY <1>1, <1>7 DEF IInv, Phase
<1> QED BY <1>8, <1>9, <1>10, <1>11 DEF IInv

\* No step of the caller or of a worker leaves the invariant.
LEMMA NextIInv == IInv /\ [Next]_vars => IInv'
<1> SUFFICES ASSUME IInv, [Next]_vars PROVE IInv'
  OBVIOUS
<1> USE DEF IInv
<1>1. UNCHANGED <<n, busy, arrived>> => Arrived' /\ Apart'
  BY DEF Arrived, Apart, Arrival, Outcome
<1>2. n \in Nat
  BY RayonAssumption DEF TypeOK
<1>3. CASE Start
  <2>1. results' = <<>> /\ <<>> \in Seq(Outcome') /\ Len(results') = 0
    BY <1>3 DEF Start, Phase
  <2>2. TypeOK'
    BY <1>3, <2>1 DEF Start, TypeOK, Sequential
  <2>3. Phase'
    BY <1>2, <1>3, <2>1 DEF Start, Phase, Sequential
  <2> QED BY <1>1, <1>3, <2>2, <2>3 DEF Start
<1>4. CASE RefineInline
  <2>1. /\ pc = "sequential" /\ Len(results) < n
        /\ results' = Append(results, Refine[Len(results) + 1])
        /\ UNCHANGED <<n, nbThreads, pc, workers, busy, arrived>>
    BY <1>4 DEF RefineInline
  <2>2. /\ results \in Seq(Outcome) /\ Len(results) \in Nat
        /\ \A i \in 1..Len(results) : results[i] = Refine[i]
    BY <2>1 DEF Phase
  <2>3. Refine[Len(results) + 1] \in Outcome /\ Outcome' = Outcome
    BY <1>2, <2>1, <2>2 DEF Outcome
  <2>4. /\ results' \in Seq(Outcome) /\ Len(results') = Len(results) + 1
        /\ \A i \in 1..Len(results') : results'[i] = Refine[i]
    BY <2>1, <2>2, <2>3
  <2>5. TypeOK'
    BY <2>1 DEF TypeOK
  <2>6. Phase'
    BY <1>2, <2>1, <2>2, <2>3, <2>4 DEF Phase
  <2> QED BY <1>1, <2>1, <2>5, <2>6
<1>5. CASE ReturnInline
  <2>1. /\ pc = "sequential" /\ Len(results) = n /\ pc' = "returned"
        /\ UNCHANGED <<n, nbThreads, workers, busy, arrived, results>>
    BY <1>5 DEF ReturnInline
  <2>2. results = [i \in 1..n |-> Refine[i]]
    BY <2>1 DEF Phase
  <2>3. TypeOK' /\ Phase'
    BY <2>1, <2>2 DEF TypeOK, Phase
  <2> QED BY <1>1, <2>1, <2>3
<1>6. CASE BuildPool \/ BuildFails \/ GlobalPoolFails
  <2>1. /\ pc = "building" /\ UNCHANGED <<n, nbThreads, busy, arrived, results>>
        /\ \/ pc' = "mapping" /\ workers' = nbThreads
           \/ pc' = "fallback" /\ workers' = GlobalSize
           \/ pc' = "panicked" /\ workers' = workers
    BY <1>6 DEF BuildPool, BuildFails, GlobalPoolFails
  <2>2. DOMAIN busy = {} /\ results = <<>>
    BY <2>1 DEF Phase, TypeOK
  <2>3. TypeOK' /\ Phase'
    BY <2>1, <2>2, RayonAssumption DEF TypeOK, Phase
  <2> QED BY <1>1, <2>1, <2>3
<1>7. CASE Collect
  <2>1. /\ Len(arrived) = n /\ results' = Collected /\ pc' = "returned"
        /\ UNCHANGED <<n, nbThreads, workers, busy, arrived>>
    BY <1>7 DEF Collect
  <2>2. DOMAIN busy = {} /\ results' = [i \in 1..n |-> Refine[i]]
    BY <2>1, AllArrived
  <2>3. TypeOK' /\ Phase'
    BY <2>1, <2>2 DEF TypeOK, Phase
  <2> QED BY <1>1, <2>1, <2>3
<1>8. ASSUME NEW w \in 1..workers, Claim(w) \/ Complete(w)
      PROVE  IInv'
  BY <1>8, ClaimStep, CompleteStep
<1>9. CASE Terminated \/ UNCHANGED vars
  <2>1. UNCHANGED vars
    BY <1>9 DEF Terminated
  <2>2. TypeOK' /\ Phase'
    BY <2>1 DEF vars, TypeOK, Phase, Outcome
  <2> QED BY <1>1, <2>1, <2>2 DEF vars
<1> QED BY <1>3, <1>4, <1>5, <1>6, <1>7, <1>8, <1>9 DEF Next, Caller, Worker

LEMMA Invariance == Spec => []IInv
<1>1. Init => IInv
  BY InitIInv
<1>2. IInv /\ [Next]_vars => IInv'
  BY NextIInv
<1> QED BY <1>1, <1>2, PTL DEF Spec

-----------------------------------------------------------------------------
\* The pool built for -t threads (485-489) refines no more candidates at once.
THEOREM PoolBudget == Spec => []BudgetUnlessFallback
<1>1. IInv => BudgetUnlessFallback
  <2> SUFFICES ASSUME IInv, pc = "mapping" PROVE Cardinality(DOMAIN busy) <= nbThreads
    BY DEF BudgetUnlessFallback, IInv
  <2>1. nbThreads \in Nat /\ nbThreads > 0 /\ DOMAIN busy \in SUBSET (1..nbThreads)
    BY RayonAssumption DEF IInv, TypeOK, Phase
  <2>2. IsFiniteSet(1..nbThreads) /\ Cardinality(1..nbThreads) = nbThreads
    BY <2>1, FS_Interval
  <2> QED BY <2>1, <2>2, FS_Subset
<1> QED BY <1>1, Invariance, PTL

\* Safety half of the refinement (see module OrderedMap).
MapSafety == Map!Init /\ [][Map!Next]_Map!vars

\* The rayon backend implements the sequential map too: whatever the order of
\* stealing and of arrival, the one answer is the sequential one.
THEOREM ImplementsSequentialMap == Spec => MapSafety
<1>1. Init => Map!Init
  BY DEF Init, Map!Init, Settled
<1>2. IInv /\ IInv' /\ [Next]_vars => [Map!Next]_Map!vars
  <2> SUFFICES ASSUME IInv, IInv', [Next]_vars PROVE [Map!Next]_Map!vars
    OBVIOUS
  <2> USE DEF Map!Next, Map!vars
  <2>1. CASE ReturnInline \/ Collect
    <3>1. ~Settled /\ Settled' /\ pc' = "returned" /\ n' = n
      BY <2>1 DEF ReturnInline, Collect, Mapping, Settled
    <3>2. results' = [i \in 1..n |-> Refine[i]]
      BY <3>1 DEF IInv, Phase
    <3> QED BY <3>1, <3>2 DEF Map!Return, Settled
  <2>2. CASE Start \/ RefineInline \/ BuildPool \/ BuildFails
    BY <2>2 DEF Start, RefineInline, BuildPool, BuildFails, Settled
  <2>3. CASE GlobalPoolFails
    BY <2>3 DEF GlobalPoolFails, Map!Panic, Settled
  <2>4. ASSUME NEW w \in 1..workers, Claim(w) \/ Complete(w)
        PROVE  UNCHANGED Map!vars
    BY <2>4 DEF Claim, Complete, Settled
  <2>5. CASE Terminated \/ UNCHANGED vars
    BY <2>5 DEF Terminated, vars, Settled
  <2> QED BY <2>1, <2>2, <2>3, <2>4, <2>5 DEF Next, Caller, Worker
<1> QED BY <1>1, <1>2, Invariance, PTL DEF Spec, MapSafety
=============================================================================
