-------------------------- MODULE RefinePoolProofs --------------------------
(***************************************************************************)
(* Proofs about the std::thread backend, for every number of candidates,   *)
(* every -t value and every interleaving of the threads.                   *)
(***************************************************************************)
EXTENDS RefinePool, TLAPS, SequenceTheorems

\* Chunks are handed out left to right, leave no gap and none is empty.
Chain ==
  /\ \A w \in DOMAIN slices :
       /\ slices[w].lo < slices[w].hi
       /\ slices[w].hi <= rest
       /\ slices[w].lo = IF w = 1 THEN 0 ELSE slices[w - 1].hi
  /\ rest = IF Len(slices) = 0 THEN 0 ELSE slices[Len(slices)].hi

\* A thread's vector is an initial segment of its slice's outcomes.
OwnWork ==
  \A w \in DOMAIN slices :
    /\ Len(outs[w]) <= slices[w].hi - slices[w].lo
    /\ \A i \in 1..Len(outs[w]) : outs[w][i] = Refine[slices[w].lo + i]

\* The caller's vector ends where the last joined slice ends.
Collected ==
  /\ \A w \in 1..joined : Finished(w)
  /\ \A i \in 1..Len(results) : results[i] = Refine[i]
  /\ pc \in {"start", "spawning", "unwinding", "panicked"} =>
       joined = 0 /\ Len(results) = 0
  /\ pc \in {"start", "sequential"} => Len(slices) = 0 /\ rest = 0
  /\ pc = "sequential" => Len(results) <= n
  /\ pc = "joining" =>
       /\ rest = n
       /\ Len(results) = IF joined = 0 THEN 0 ELSE slices[joined].hi
  /\ pc = "returned" =>
       /\ Len(results) = n
       /\ joined = Len(slices)
  /\ pc = "panicked" => \A w \in DOMAIN slices : Finished(w)

IInv == TypeOK /\ Chain /\ OwnWork /\ Collected

\* chunk is large enough for nbThreads slices to cover the list.
Budget ==
  /\ pc \notin {"start", "sequential", "returned"} => n <= nbThreads * chunk
  /\ rest < n => rest = Len(slices) * chunk
  /\ Len(slices) <= nbThreads

-----------------------------------------------------------------------------
\* CeilDiv rounds up: the quotient times the divisor covers the dividend.
LEMMA CeilDivCovers ==
  ASSUME NEW a \in Nat \ {0}, NEW b \in Nat \ {0}
  PROVE  CeilDiv(a, b) \in Nat \ {0} /\ a <= b * CeilDiv(a, b)
BY SMTT(30) DEF CeilDiv

\* Reading slices and outs at a spawned thread.
LEMMA SliceTypes ==
  ASSUME TypeOK, NEW w \in DOMAIN slices
  PROVE  /\ w \in 1..Len(slices) /\ w \in 1..Len(outs)
         /\ w \in Nat \ {0} /\ Len(slices) \in Nat
         /\ slices[w] \in [lo : 0..MaxKept, hi : 0..MaxKept]
         /\ slices[w].lo \in Nat /\ slices[w].hi \in 0..MaxKept
         /\ outs[w] \in Seq(Outcome) /\ Len(outs[w]) \in Nat
<1>1. w \in 1..Len(slices) /\ w \in 1..Len(outs) /\ Len(slices) \in Nat
  BY LenProperties DEF TypeOK
<1>2. slices[w] \in [lo : 0..MaxKept, hi : 0..MaxKept]
  BY <1>1, ElementOfSeq DEF TypeOK
<1>3. outs[w] \in Seq(Outcome)
  BY <1>1, ElementOfSeq DEF TypeOK
<1>4. Len(outs[w]) \in Nat
  BY <1>3, LenProperties
<1> QED BY <1>1, <1>2, <1>3, <1>4, PoolAssumption

\* What one step of a thread does to its vector.
LEMMA WorkStep ==
  ASSUME TypeOK, OwnWork, NEW w \in DOMAIN slices, Work(w)
  PROVE  /\ outs' \in Seq(Seq(Outcome))
         /\ Len(outs') = Len(outs)
         /\ \A v \in DOMAIN slices \ {w} : outs'[v] = outs[v]
         /\ Len(outs'[w]) = Len(outs[w]) + 1
         /\ Len(outs'[w]) <= slices[w].hi - slices[w].lo
         /\ outs'[w][Len(outs[w]) + 1] = Refine[slices[w].lo + Len(outs[w]) + 1]
         /\ \A i \in 1..Len(outs[w]) : outs'[w][i] = outs[w][i]
<1> DEFINE r == Refine[slices[w].lo + Len(outs[w]) + 1]
<1>0. /\ slices[w].lo \in Nat /\ slices[w].hi \in Nat /\ slices[w].hi <= MaxKept
      /\ Len(outs[w]) \in Nat
  BY SliceTypes, PoolAssumption
<1>1. Len(outs[w]) < slices[w].hi - slices[w].lo
  <2>1. /\ Len(outs[w]) <= slices[w].hi - slices[w].lo
        /\ Len(outs[w]) # slices[w].hi - slices[w].lo
    BY DEF OwnWork, Work, Finished
  <2> QED BY <1>0, <2>1
<1>2. r \in Outcome
  <2>1. slices[w].lo + Len(outs[w]) + 1 \in 1..MaxKept
    BY <1>0, <1>1, PoolAssumption
  <2> QED BY <2>1 DEF Outcome
<1>3. outs' = [outs EXCEPT ![w] = Append(outs[w], r)]
  BY DEF Work
<1>4. /\ Append(outs[w], r) \in Seq(Outcome)
      /\ Len(Append(outs[w], r)) = Len(outs[w]) + 1
      /\ Append(outs[w], r)[Len(outs[w]) + 1] = r
      /\ \A i \in 1..Len(outs[w]) : Append(outs[w], r)[i] = outs[w][i]
  BY <1>2, SliceTypes, AppendProperties
<1>5. /\ outs \in Seq(Seq(Outcome)) /\ w \in 1..Len(outs)
      /\ DOMAIN slices = 1..Len(outs) /\ DOMAIN outs = 1..Len(outs)
  BY SliceTypes, LenProperties DEF TypeOK
<1>6. /\ outs' \in Seq(Seq(Outcome))
      /\ Len(outs') = Len(outs)
  BY <1>3, <1>4, <1>5, ExceptSeq
<1>7. /\ outs'[w] = Append(outs[w], r)
      /\ \A v \in DOMAIN slices \ {w} : outs'[v] = outs[v]
  BY <1>3, <1>5
<1> QED BY <1>0, <1>1, <1>4, <1>6, <1>7

-----------------------------------------------------------------------------
\* What handing out one more chunk does to the three ledgers.
LEMMA SpawnStep ==
  ASSUME IInv, Spawn
  PROVE  /\ TypeOK' /\ Chain' /\ OwnWork'
         /\ \A w \in DOMAIN slices : slices'[w] = slices[w] /\ outs'[w] = outs[w]
         /\ Len(slices') = Len(slices) + 1
         /\ slices'[Len(slices) + 1] = [lo |-> rest, hi |-> rest']
         /\ rest < rest' /\ rest' <= n
<1> DEFINE k == Len(slices)
           s == [lo |-> rest, hi |-> SliceEnd]
<1>1. /\ n \in Nat /\ n <= MaxKept /\ rest \in Nat /\ chunk \in Nat \ {0}
      /\ rest < n /\ rest' = SliceEnd /\ k \in Nat
  BY PoolAssumption, LenProperties DEF IInv, TypeOK, Spawn
<1>2. rest' \in Nat /\ rest < rest' /\ rest' <= n
  BY <1>1 DEF SliceEnd, MinOf
<1>3. s \in [lo : 0..MaxKept, hi : 0..MaxKept] /\ s = [lo |-> rest, hi |-> rest']
  BY <1>1, <1>2, PoolAssumption
<1>4. /\ slices' \in Seq([lo : 0..MaxKept, hi : 0..MaxKept])
      /\ Len(slices') = k + 1
      /\ \A w \in 1..k : slices'[w] = slices[w]
      /\ slices'[k + 1] = s
  BY <1>3, AppendProperties DEF IInv, TypeOK, Spawn
<1>5. <<>> \in Seq(Outcome) /\ Len(<<>>) = 0
  BY EmptySeq
<1>6. /\ outs' \in Seq(Seq(Outcome))
      /\ Len(outs') = k + 1
      /\ \A w \in 1..k : outs'[w] = outs[w]
      /\ outs'[k + 1] = <<>>
  BY <1>5, AppendProperties DEF IInv, TypeOK, Spawn
<1>7. DOMAIN slices = 1..k /\ DOMAIN slices' = 1..(k + 1)
  BY <1>4, LenProperties DEF IInv, TypeOK
<1>8. TypeOK'
  <2>1. joined' \in 0..Len(slices') /\ rest' \in 0..n'
    BY <1>1, <1>2, <1>4 DEF IInv, TypeOK, Spawn
  <2> QED BY <2>1, <1>4, <1>6 DEF IInv, TypeOK, Spawn
<1>9. Chain'
  <2>1. \A w \in 1..k : /\ slices[w].lo < slices[w].hi
                        /\ slices[w].hi <= rest
                        /\ slices[w].hi \in Nat /\ slices[w].lo \in Nat
                        /\ slices[w].lo = IF w = 1 THEN 0 ELSE slices[w - 1].hi
    BY <1>7, SliceTypes, PoolAssumption DEF IInv, Chain
  <2>2. rest = IF k = 0 THEN 0 ELSE slices[k].hi
    BY DEF IInv, Chain
  <2>3. ASSUME NEW w \in 1..(k + 1)
        PROVE  /\ slices'[w].lo < slices'[w].hi
               /\ slices'[w].hi <= rest'
               /\ slices'[w].lo = IF w = 1 THEN 0 ELSE slices'[w - 1].hi
    <3>1. CASE w \in 1..k
      <4>1. w # 1 => w - 1 \in 1..k
        BY <1>1, <3>1
      <4>2. slices'[w] = slices[w] /\ (w # 1 => slices'[w - 1] = slices[w - 1])
        BY <4>1, <3>1, <1>4
      <4>3. /\ slices[w].lo < slices[w].hi
            /\ slices[w].hi <= rest
            /\ slices[w].hi \in Nat
            /\ slices[w].lo = IF w = 1 THEN 0 ELSE slices[w - 1].hi
        BY <3>1, <2>1
      <4>4. slices[w].hi <= rest'
        BY <4>3, <1>1, <1>2
      <4> HIDE DEF k, s
      <4> QED BY <4>2, <4>3, <4>4
    <3>2. CASE w = k + 1
      <4>1. w # 1 => slices'[w - 1] = slices[k]
        BY <3>2, <1>1, <1>4
      <4>2. slices'[w].lo = rest /\ slices'[w].hi = rest'
        BY <3>2, <1>3, <1>4
      <4>3. w = 1 <=> k = 0
        BY <3>2, <1>1
      <4> QED BY <4>1, <4>2, <4>3, <2>2, <1>1, <1>2
    <3> QED BY <3>1, <3>2, <1>1
  <2>4. rest' = IF Len(slices') = 0 THEN 0 ELSE slices'[Len(slices')].hi
    BY <1>1, <1>3, <1>4
  <2> QED BY <2>3, <2>4, <1>7 DEF Chain
<1>10. OwnWork'
  <2>1. ASSUME NEW w \in 1..(k + 1)
        PROVE  /\ Len(outs'[w]) <= slices'[w].hi - slices'[w].lo
               /\ \A i \in 1..Len(outs'[w]) : outs'[w][i] = Refine[slices'[w].lo + i]
    <3>1. CASE w \in 1..k
      <4>1. slices'[w] = slices[w] /\ outs'[w] = outs[w]
        BY <3>1, <1>4, <1>6
      <4>2. /\ Len(outs[w]) <= slices[w].hi - slices[w].lo
            /\ \A i \in 1..Len(outs[w]) : outs[w][i] = Refine[slices[w].lo + i]
        BY <3>1, <1>7 DEF IInv, OwnWork
      <4> QED BY <4>1, <4>2
    <3>2. CASE w = k + 1
      <4>1. Len(outs'[w]) = 0
        BY <3>2, <1>5, <1>6
      <4>2. slices'[w].lo = rest /\ slices'[w].hi = rest'
        BY <3>2, <1>3, <1>4
      <4> QED BY <4>1, <4>2, <1>1, <1>2
    <3> QED BY <3>1, <3>2, <1>1
  <2> QED BY <2>1, <1>7 DEF OwnWork
<1> QED BY <1>2, <1>3, <1>4, <1>6, <1>7, <1>8, <1>9, <1>10

\* What joining the next thread appends to the caller's vector.
LEMMA JoinStep ==
  ASSUME IInv, Join
  PROVE  /\ joined + 1 \in DOMAIN slices
         /\ results' \in Seq(Outcome)
         /\ Len(results') = slices[joined + 1].hi
         /\ \A i \in 1..Len(results') : results'[i] = Refine[i]
<1> DEFINE w == joined + 1
<1>1. /\ w \in DOMAIN slices /\ joined \in Nat /\ DOMAIN slices = 1..Len(slices)
      /\ pc = "joining"
  BY LenProperties DEF IInv, TypeOK, Join
<1>2. /\ slices[w].lo \in Nat /\ slices[w].hi \in Nat
      /\ outs[w] \in Seq(Outcome) /\ Len(outs[w]) \in Nat
      /\ results \in Seq(Outcome) /\ Len(results) \in Nat
  <2>1. TypeOK
    BY DEF IInv
  <2>2. results \in Seq(Outcome)
    BY <2>1 DEF TypeOK
  <2>3. Len(results) \in Nat
    BY <2>2, LenProperties
  <2> QED BY <1>1, <2>1, <2>2, <2>3, SliceTypes, PoolAssumption
<1>3. Len(outs[w]) = slices[w].hi - slices[w].lo
  BY <1>1 DEF Join, NextToJoin, Finished
<1>4. Len(results) = slices[w].lo
  <2>1. slices[w].lo = IF w = 1 THEN 0 ELSE slices[w - 1].hi
    BY <1>1 DEF IInv, Chain
  <2>2. Len(results) = IF joined = 0 THEN 0 ELSE slices[joined].hi
    BY <1>1 DEF IInv, Collected
  <2> QED BY <2>1, <2>2, <1>1
<1>5. results' = results \o outs[w]
  BY DEF Join, NextToJoin
<1>6. /\ results' \in Seq(Outcome)
      /\ Len(results') = Len(results) + Len(outs[w])
      /\ \A i \in 1..Len(results) + Len(outs[w]) :
           results'[i] = IF i <= Len(results) THEN results[i]
                                              ELSE outs[w][i - Len(results)]
  BY <1>2, <1>5, ConcatProperties
<1>7. /\ \A i \in 1..Len(results) : results[i] = Refine[i]
      /\ \A i \in 1..Len(outs[w]) : outs[w][i] = Refine[slices[w].lo + i]
  BY <1>1 DEF IInv, Collected, OwnWork
<1>8. ASSUME NEW i \in 1..Len(results')
      PROVE  results'[i] = Refine[i]
  <2>1. CASE i <= Len(results)
    BY <2>1, <1>2, <1>6, <1>7
  <2>2. CASE ~(i <= Len(results))
    <3>1. i - Len(results) \in 1..Len(outs[w])
      BY <2>2, <1>2, <1>6
    <3>2. outs[w][i - Len(results)] = Refine[slices[w].lo + (i - Len(results))]
      BY <3>1, <1>7
    <3>3. slices[w].lo + (i - Len(results)) = i
      BY <1>2, <1>4
    <3> QED BY <2>2, <3>2, <3>3, <1>2, <1>6
  <2> QED BY <2>1, <2>2
<1> QED BY <1>1, <1>2, <1>3, <1>4, <1>6, <1>8

-----------------------------------------------------------------------------
\* refine_candidates starts inside the inductive invariant.
LEMMA InitIInv == Init => IInv
<1> SUFFICES ASSUME Init PROVE IInv
  OBVIOUS
<1>1. /\ <<>> \in Seq([lo : 0..MaxKept, hi : 0..MaxKept]) /\ <<>> \in Seq(Seq(Outcome))
      /\ <<>> \in Seq(Outcome) /\ Len(<<>>) = 0
  BY EmptySeq
<1>2. DOMAIN slices = {} /\ Len(slices) = 0 /\ Len(results) = 0
  BY <1>1, LenProperties DEF Init
<1>3. nbThreads \in 1..MaxThreads
  BY PoolAssumption DEF Init, Clamp
<1>4. TypeOK
  BY <1>1, <1>3, PoolAssumption DEF Init, TypeOK
<1>5. Chain /\ OwnWork
  BY <1>2 DEF Init, Chain, OwnWork
<1>6. Collected
  BY <1>2, PoolAssumption DEF Init, Collected
<1> QED BY <1>4, <1>5, <1>6 DEF IInv

\* CeilDiv of a parallel call is a positive chunk size that covers the list.
LEMMA ChunkCovers ==
  ASSUME TypeOK, ~Sequential
  PROVE  ChunkSize \in Nat \ {0} /\ n <= nbThreads * ChunkSize
<1> DEFINE t == MinOf(nbThreads, n)
<1>1. /\ n \in Nat \ {0} /\ nbThreads \in Nat \ {0}
      /\ t \in Nat \ {0} /\ t <= nbThreads
  BY PoolAssumption DEF TypeOK, Sequential, MinOf
<1> HIDE DEF t
<1>2. CeilDiv(n, t) \in Nat \ {0} /\ n <= t * CeilDiv(n, t)
  BY <1>1, CeilDivCovers
<1> DEFINE c == CeilDiv(n, t)
<1>3. ASSUME NEW a \in Nat, NEW b \in Nat, NEW d \in Nat, a <= b
      PROVE  a * d <= b * d
  BY <1>3
<1>4. t * c <= nbThreads * c
  BY <1>1, <1>2, <1>3
<1>5. t * c \in Nat /\ nbThreads * c \in Nat
  BY <1>1, <1>2
<1> QED BY <1>1, <1>2, <1>4, <1>5 DEF ChunkSize, t

\* No step of the caller or of a chunk thread leaves the inductive invariant.
LEMMA NextIInv == IInv /\ [Next]_vars => IInv'
<1> SUFFICES ASSUME IInv, [Next]_vars PROVE IInv'
  OBVIOUS
<1> USE DEF IInv
<1>0. /\ DOMAIN slices = 1..Len(slices) /\ Len(slices) \in Nat
      /\ joined \in Nat /\ joined <= Len(slices)
      /\ n \in Nat /\ n <= MaxKept /\ rest \in Nat
      /\ results \in Seq(Outcome) /\ Len(results) \in Nat
  BY PoolAssumption, LenProperties DEF TypeOK
<1>1. CASE Start
  <2>1. TypeOK'
    BY <1>1, ChunkCovers DEF Start, TypeOK
  <2>2. Chain' /\ OwnWork'
    BY <1>1 DEF Start, Chain, OwnWork
  <2>3. Collected'
    BY <1>0, <1>1 DEF Start, Collected, Finished
  <2> QED BY <2>1, <2>2, <2>3
<1>2. CASE RefineInline
  <2>1. Len(results) + 1 \in 1..MaxKept
    BY <1>0, <1>2, PoolAssumption DEF RefineInline
  <2>2. Refine[Len(results) + 1] \in Outcome
    BY <2>1 DEF Outcome
  <2>3. /\ results' \in Seq(Outcome)
        /\ Len(results') = Len(results) + 1
        /\ \A i \in 1..Len(results) : results'[i] = results[i]
        /\ results'[Len(results) + 1] = Refine[Len(results) + 1]
    BY <1>0, <1>2, <2>2, AppendProperties DEF RefineInline
  <2>4. TypeOK' /\ Chain' /\ OwnWork'
    BY <1>2, <2>3 DEF RefineInline, TypeOK, Chain, OwnWork
  <2>5. \A i \in 1..Len(results') : results'[i] = Refine[i]
    <3>1. ASSUME NEW i \in 1..Len(results') PROVE results'[i] = Refine[i]
      <4>1. i \in 1..Len(results) \/ i = Len(results) + 1
        BY <1>0, <2>3
      <4> QED BY <4>1, <2>3 DEF Collected
    <3> QED BY <3>1
  <2>6. Collected'
    BY <1>0, <1>2, <2>3, <2>5 DEF RefineInline, Collected, Finished
  <2> QED BY <2>4, <2>6
<1>3. CASE ReturnInline
  <2>1. TypeOK' /\ Chain' /\ OwnWork'
    BY <1>3 DEF ReturnInline, TypeOK, Chain, OwnWork
  <2>2. Collected'
    BY <1>0, <1>3 DEF ReturnInline, Collected, Finished
  <2> QED BY <2>1, <2>2
<1>4. CASE Spawn
  <2>1. /\ joined' = 0 /\ joined = 0 /\ Len(results') = 0 /\ pc' = "spawning"
    BY <1>4 DEF Spawn, Collected
  <2>2. Collected'
    BY <2>1 DEF Collected
  <2> QED BY <1>4, <2>2, SpawnStep
<1>5. CASE SpawnFails
  <2>1. TypeOK' /\ Chain' /\ OwnWork'
    BY <1>5 DEF SpawnFails, TypeOK, Chain, OwnWork
  <2>2. Collected'
    BY <1>0, <1>5 DEF SpawnFails, Collected, Finished
  <2> QED BY <2>1, <2>2
<1>6. CASE AllSpawned
  <2>1. TypeOK' /\ Chain' /\ OwnWork'
    BY <1>6 DEF AllSpawned, TypeOK, Chain, OwnWork
  <2>2. Collected'
    BY <1>0, <1>6 DEF AllSpawned, Collected, Finished
  <2> QED BY <2>1, <2>2
<1>7. CASE Join
  <2>1. /\ joined + 1 \in DOMAIN slices
        /\ results' \in Seq(Outcome)
        /\ Len(results') = slices[joined + 1].hi
        /\ \A i \in 1..Len(results') : results'[i] = Refine[i]
    BY <1>7, JoinStep
  <2>2. joined' = joined + 1 /\ joined' # 0 /\ joined' \in 0..Len(slices)
    BY <1>0, <1>7, <2>1 DEF Join
  <2>3. TypeOK' /\ Chain' /\ OwnWork'
    BY <1>7, <2>1, <2>2 DEF Join, TypeOK, Chain, OwnWork
  <2>4. \A w \in 1..joined' : Finished(w)'
    BY <1>0, <1>7, <2>2 DEF Join, NextToJoin, Finished, Collected
  <2>5. Collected'
    BY <1>7, <2>1, <2>2, <2>4 DEF Join, Collected
  <2> QED BY <2>3, <2>5
<1>8. CASE Return
  <2>1. TypeOK' /\ Chain' /\ OwnWork'
    BY <1>8 DEF Return, TypeOK, Chain, OwnWork
  <2>2. Len(results) = n
    BY <1>0, <1>8 DEF Return, Collected, Chain
  <2>3. Collected'
    BY <1>0, <1>8, <2>2 DEF Return, Collected, Finished
  <2> QED BY <2>1, <2>3
<1>9. CASE Unwind
  <2>1. TypeOK' /\ Chain' /\ OwnWork'
    BY <1>9 DEF Unwind, TypeOK, Chain, OwnWork
  <2>2. Collected'
    BY <1>0, <1>9 DEF Unwind, ScopeExit, Collected, Finished
  <2> QED BY <2>1, <2>2
<1>10. ASSUME NEW w \in DOMAIN slices, Work(w) PROVE IInv'
  <2>1. /\ outs' \in Seq(Seq(Outcome))
        /\ Len(outs') = Len(outs)
        /\ \A v \in DOMAIN slices \ {w} : outs'[v] = outs[v]
        /\ Len(outs'[w]) = Len(outs[w]) + 1
        /\ Len(outs'[w]) <= slices[w].hi - slices[w].lo
        /\ outs'[w][Len(outs[w]) + 1] = Refine[slices[w].lo + Len(outs[w]) + 1]
        /\ \A i \in 1..Len(outs[w]) : outs'[w][i] = outs[w][i]
    BY <1>10, WorkStep
  <2>2. TypeOK' /\ Chain'
    BY <1>10, <2>1 DEF Work, TypeOK, Chain
  <2>3. Len(outs[w]) \in Nat /\ slices[w].lo \in Nat /\ slices' = slices
    BY <1>10, SliceTypes DEF Work
  <2>4. OwnWork'
    <3>1. ASSUME NEW v \in DOMAIN slices
          PROVE  /\ Len(outs'[v]) <= slices[v].hi - slices[v].lo
                 /\ \A i \in 1..Len(outs'[v]) : outs'[v][i] = Refine[slices[v].lo + i]
      <4>1. CASE v # w
        BY <4>1, <2>1 DEF OwnWork
      <4>2. CASE v = w
        <5>1. \A i \in 1..Len(outs[w]) : outs[w][i] = Refine[slices[w].lo + i]
          BY DEF OwnWork
        <5>2. ASSUME NEW i \in 1..Len(outs'[w])
              PROVE  outs'[w][i] = Refine[slices[w].lo + i]
          <6>1. i \in 1..Len(outs[w]) \/ i = Len(outs[w]) + 1
            BY <2>1, <2>3
          <6>2. slices[w].lo + (Len(outs[w]) + 1) = slices[w].lo + Len(outs[w]) + 1
            BY <2>3
          <6> QED BY <6>1, <6>2, <5>1, <2>1
        <5> QED BY <4>2, <5>2, <2>1
      <4> QED BY <4>1, <4>2
    <3> QED BY <3>1, <2>3 DEF OwnWork
  <2>5. ASSUME NEW v \in DOMAIN slices, Finished(v) PROVE v # w
    BY <1>10, <2>5 DEF Work
  <2>6. ASSUME NEW v \in DOMAIN slices, Finished(v) PROVE Finished(v)'
    BY <2>1, <2>3, <2>5, <2>6 DEF Finished
  <2>7. Collected'
    <3>1. \A v \in 1..joined : Finished(v)'
      BY <1>0, <2>6 DEF Collected
    <3>2. pc = "panicked" => \A v \in DOMAIN slices : Finished(v)'
      BY <2>6 DEF Collected
    <3> QED BY <1>10, <3>1, <3>2 DEF Work, Collected
  <2> QED BY <2>2, <2>4, <2>7
<1>11. CASE UNCHANGED vars
  <2>1. TypeOK' /\ Chain' /\ OwnWork'
    BY <1>11 DEF vars, TypeOK, Chain, OwnWork
  <2>2. Collected'
    BY <1>11 DEF vars, Collected, Finished
  <2> QED BY <2>1, <2>2
<1> QED
  BY <1>1, <1>2, <1>3, <1>4, <1>5, <1>6, <1>7, <1>8, <1>9, <1>10, <1>11
  DEF Next, Caller, Terminated

-----------------------------------------------------------------------------
\* The ledgers of refine_parallel (slices handed out, vectors filled, vectors
\* joined) agree in every reachable state.
THEOREM Invariance == Spec => []IInv
BY InitIInv, NextIInv, PTL DEF Spec

\* The calling thread's variables keep their types in every run of
\* refine_candidates.
THEOREM TypeCorrect == Spec => []TypeOK
<1>1. IInv => TypeOK
  BY DEF IInv
<1> QED BY <1>1, Invariance, PTL

\* Whatever order the threads run in, the vector refine_parallel builds is the
\* outcomes in candidate order.
THEOREM ResultsInOrder == Spec => []InOrder
<1>1. IInv => InOrder
  <2> SUFFICES ASSUME IInv PROVE InOrder
    OBVIOUS
  <2>1. /\ results \in [1..Len(results) -> Outcome]
        /\ \A i \in 1..Len(results) : results[i] = Refine[i]
    BY LenProperties DEF IInv, TypeOK, Collected
  <2> QED BY <2>1 DEF InOrder
<1> QED BY <1>1, Invariance, PTL

\* refine_parallel leaves no thread running behind the references it borrowed,
\* whether it returns or a refused spawn unwinds it.
THEOREM NoThreadEscapes == Spec => []ScopeCoversThreads
<1>1. IInv => ScopeCoversThreads
  <2> SUFFICES ASSUME IInv, NEW w \in DOMAIN slices, Settled PROVE Finished(w)
    BY DEF ScopeCoversThreads
  <2>1. DOMAIN slices = 1..Len(slices)
    BY LenProperties DEF IInv, TypeOK
  <2> QED BY <2>1 DEF IInv, Collected, Settled
<1> QED BY <1>1, Invariance, PTL

\* Every candidate below the spawn mark belongs to exactly one thread, and no
\* other candidate to any: kept.chunks() is a partition.
THEOREM ChunksPartition == Spec => []EachOnce
<1> DEFINE Owners(i) == {w \in DOMAIN slices : i \in slices[w].lo + 1 .. slices[w].hi}
           Part == \A i \in 1..n : IF i <= rest THEN \E w \in Owners(i) : Owners(i) = {w}
                                                ELSE Owners(i) = {}
<1>1. Part <=> EachOnce
  BY DEF EachOnce
<1>2. Init => Part
  <2> SUFFICES ASSUME Init PROVE Part
    OBVIOUS
  <2>1. DOMAIN slices = {}
    BY EmptySeq, LenProperties DEF Init
  <2>2. rest = 0
    BY DEF Init
  <2>3. \A i \in 1..n : ~(i <= 0) /\ Owners(i) = {}
    BY <2>1, PoolAssumption DEF Init
  <2> QED BY <2>2, <2>3
<1>3. IInv /\ Part /\ [Next]_vars => Part'
  <2> SUFFICES ASSUME IInv, Part, [Next]_vars PROVE Part'
    OBVIOUS
  <2>1. CASE Spawn
    <3> DEFINE k == Len(slices)
    <3>1. /\ DOMAIN slices = 1..k /\ k \in Nat /\ n \in Nat /\ rest \in Nat
          /\ n' = n
      BY <2>1, LenProperties, PoolAssumption DEF IInv, TypeOK, Spawn
    <3>2. /\ TypeOK'
          /\ \A w \in 1..k : slices'[w] = slices[w]
          /\ Len(slices') = k + 1
          /\ slices'[k + 1] = [lo |-> rest, hi |-> rest']
          /\ rest < rest' /\ rest' <= n
      BY <2>1, <3>1, SpawnStep
    <3>3. DOMAIN slices' = 1..(k + 1) /\ rest' \in Nat
      BY <3>1, <3>2, LenProperties DEF TypeOK
    <3>4. \A w \in 1..k : slices[w].hi <= rest /\ slices[w].hi \in Nat /\ slices[w].lo \in Nat
      BY <3>1, SliceTypes, PoolAssumption DEF IInv, Chain
    <3>5. slices'[k + 1].lo = rest /\ slices'[k + 1].hi = rest'
      BY <3>2
    <3>6. ASSUME NEW i \in 1..n
          PROVE  Owners(i)' = Owners(i) \cup (IF i \in rest + 1 .. rest' THEN {k + 1} ELSE {})
      <4>1. ASSUME NEW w PROVE w \in Owners(i)' <=>
                \/ w \in 1..k /\ i \in slices[w].lo + 1 .. slices[w].hi
                \/ w = k + 1 /\ i \in rest + 1 .. rest'
        <5>1. w \in 1..(k + 1) <=> w \in 1..k \/ w = k + 1
          BY <3>1
        <5> QED BY <5>1, <3>2, <3>3, <3>5
      <4> HIDE DEF k
      <4> QED BY <4>1, <3>1
    <3>7. ASSUME NEW i \in 1..n, ~(i <= rest) PROVE Owners(i) = {}
      BY <3>7
    <3>8. ASSUME NEW i \in 1..n
          PROVE  IF i <= rest' THEN \E w \in Owners(i)' : Owners(i)' = {w}
                               ELSE Owners(i)' = {}
      <4>1. CASE i <= rest
        <5>1. ~(i \in rest + 1 .. rest') /\ i <= rest'
          BY <4>1, <3>1, <3>2, <3>3
        <5> QED BY <4>1, <5>1, <3>6
      <4>2. CASE ~(i <= rest) /\ i <= rest'
        <5>1. i \in rest + 1 .. rest'
          BY <4>2, <3>1, <3>3
        <5>2. Owners(i)' = {k + 1}
          BY <4>2, <5>1, <3>6, <3>7
        <5> QED BY <4>2, <5>2
      <4>3. CASE ~(i <= rest')
        <5>1. ~(i \in rest + 1 .. rest') /\ ~(i <= rest)
          BY <4>3, <3>1, <3>2, <3>3
        <5> QED BY <4>3, <5>1, <3>6, <3>7
      <4> QED BY <4>1, <4>2, <4>3
    <3> QED BY <3>1, <3>8
  <2>2. CASE ~Spawn
    <3>1. slices' = slices /\ rest' = rest /\ n' = n
      BY <2>2 DEF Next, Caller, Terminated, vars, Start, RefineInline, ReturnInline,
                  SpawnFails, AllSpawned, Join, Return, Unwind, Work
    <3> QED BY <3>1
  <2> QED BY <2>1, <2>2
<1>4. Spec => []Part
  BY <1>2, <1>3, Invariance, PTL DEF Spec
<1> QED BY <1>1, <1>4, PTL

\* refine_parallel never starts more threads than -t asked for, although the
\* chunk size is rounded: div_ceil makes nbThreads chunks cover the list.
THEOREM ThreadBudget == Spec => []WithinBudget
<1>1. Init => Budget
  <2> SUFFICES ASSUME Init PROVE Budget
    OBVIOUS
  <2>1. Len(slices) = 0 /\ nbThreads \in Nat /\ chunk = 1 /\ rest = 0
    BY EmptySeq, PoolAssumption DEF Init, Clamp
  <2> QED BY <2>1 DEF Init, Budget
<1>2. IInv /\ Budget /\ [Next]_vars => Budget'
  <2> SUFFICES ASSUME IInv, Budget, [Next]_vars PROVE Budget'
    OBVIOUS
  <2>0. /\ n \in Nat /\ rest \in Nat /\ nbThreads \in Nat \ {0}
        /\ chunk \in Nat \ {0} /\ Len(slices) \in Nat
    BY PoolAssumption, LenProperties DEF IInv, TypeOK
  <2>1. CASE Start
    <3>1. Len(slices) = 0 /\ rest = 0
      BY <2>1 DEF Start, IInv, Collected
    <3>2. CASE Sequential
      <4>1. pc' \in {"sequential", "spawning"} /\ (pc' = "spawning" => ~Sequential)
        BY <2>1 DEF Start
      <4> QED BY <2>0, <2>1, <3>1, <3>2, <4>1 DEF Start, Budget
    <3>3. CASE ~Sequential
      <4>1. n <= nbThreads * ChunkSize /\ ChunkSize \in Nat \ {0}
        BY <3>3, ChunkCovers DEF IInv
      <4>2. chunk' = ChunkSize
        BY <2>1, <3>3 DEF Start
      <4> QED BY <2>0, <2>1, <3>1, <4>1, <4>2 DEF Start, Budget
    <3> QED BY <3>2, <3>3
  <2>2. CASE Spawn
    <3> DEFINE k == Len(slices)
    <3>1. Len(slices') = k + 1
      BY <2>2, SpawnStep
    <3>2. rest = k * chunk /\ n <= nbThreads * chunk /\ rest < n
      BY <2>2 DEF Spawn, Budget
    <3>3. ASSUME NEW a \in Nat, NEW b \in Nat, NEW d \in Nat, a <= b
          PROVE  a * d <= b * d
      BY <3>3
    <3>4. k < nbThreads
      <4>1. SUFFICES ASSUME nbThreads <= k PROVE FALSE
        BY <2>0
      <4>2. nbThreads * chunk <= k * chunk
        BY <2>0, <3>3, <4>1
      <4>3. nbThreads * chunk \in Nat /\ k * chunk \in Nat
        BY <2>0
      <4> QED BY <2>0, <3>2, <4>2, <4>3
    <3>5. (k + 1) * chunk = k * chunk + chunk
      BY <2>0
    <3>6. rest' < n => rest' = (k + 1) * chunk
      BY <2>0, <2>2, <3>2, <3>5 DEF Spawn, SliceEnd, MinOf
    <3> QED BY <2>0, <2>2, <3>1, <3>2, <3>4, <3>6 DEF Spawn, Budget
  <2>3. CASE ~Start /\ ~Spawn
    <3>1. UNCHANGED <<n, nbThreads, chunk, rest, slices>>
      BY <2>3 DEF Next, Caller, Terminated, vars, RefineInline, ReturnInline,
                  SpawnFails, AllSpawned, Join, Return, Unwind, Work
    <3>2. pc' \notin {"start", "sequential", "returned"} =>
            pc \notin {"start", "sequential", "returned"}
      BY <2>3 DEF Next, Caller, Terminated, vars, RefineInline, ReturnInline,
                  SpawnFails, AllSpawned, Join, Return, Unwind, Work
    <3> QED BY <3>1, <3>2 DEF Budget
  <2> QED BY <2>1, <2>2, <2>3
<1>3. Budget => WithinBudget
  BY DEF Budget, WithinBudget
<1> QED BY <1>1, <1>2, <1>3, Invariance, PTL DEF Spec

-----------------------------------------------------------------------------
\* Safety half of the refinement: every run of refine_parallel, whatever the
\* interleaving, is a run in which the sequential map answers once, with the
\* same vector, or a panic hands nothing to the caller.
MapSafety == Map!Init /\ [][Map!Next]_Map!vars

\* refine_parallel implements the sequential map of refine_candidates: initial
\* states map to initial states, every step to a step or a stutter.
THEOREM ImplementsSequentialMap == Spec => MapSafety
<1>1. Init => Map!Init
  BY DEF Init, Map!Init, Settled
<1>2. IInv /\ IInv' /\ [Next]_vars => [Map!Next]_Map!vars
  <2> SUFFICES ASSUME IInv, IInv', [Next]_vars PROVE [Map!Next]_Map!vars
    OBVIOUS
  <2> USE DEF Map!Next, Map!vars, Settled
  <2>1. ASSUME pc \notin {"returned", "panicked"}, pc' = "returned", n' = n
        PROVE  Map!Return
    <3>1. Len(results') = n /\ n \in Nat
      BY <2>1, PoolAssumption DEF IInv, Collected, TypeOK
    <3>2. /\ results' \in [1..Len(results') -> Outcome]
          /\ \A i \in 1..Len(results') : results'[i] = Refine[i]
      BY LenProperties DEF IInv, TypeOK, Collected
    <3>3. results' = [i \in 1..n |-> Refine[i]]
      BY <3>1, <3>2
    <3> QED BY <2>1, <3>3 DEF Map!Return
  <2>2. CASE ReturnInline \/ Return
    BY <2>1, <2>2 DEF ReturnInline, Return
  <2>3. CASE Unwind
    BY <2>3 DEF Unwind, Map!Panic
  <2>4. CASE Start \/ RefineInline \/ Spawn \/ AllSpawned \/ Join \/ SpawnFails
    BY <2>4 DEF Start, RefineInline, Spawn, AllSpawned, Join, SpawnFails
  <2>5. ASSUME NEW w \in DOMAIN slices, Work(w) PROVE UNCHANGED Map!vars
    BY <2>5 DEF Work
  <2>6. CASE UNCHANGED vars
    BY <2>6 DEF vars
  <2> QED BY <2>2, <2>3, <2>4, <2>5, <2>6 DEF Next, Caller, Terminated
<1> QED BY <1>1, <1>2, Invariance, PTL DEF Spec, MapSafety
=============================================================================
