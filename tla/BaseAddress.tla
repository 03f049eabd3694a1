----------------------------- MODULE BaseAddress -----------------------------
(***************************************************************************)
(* BaseAddressFinder::compute_candidates: vote for every base address that *)
(* makes a word of the image point at a point of interest, keep the most   *)
(* voted ones, score each, and choose.  Arithmetic on addresses is modulo  *)
(* AddrMod (the code's u64) whatever the pointer width; memsize and scores *)
(* are truncated as in the code's u32.                                     *)
(***************************************************************************)
EXTENDS VoteTable, PointerScan, PointerReader

CONSTANTS
  AddrBits,    \* bits of an address (64)
  AsciiBytes,  \* bytes is_ascii_ptr takes for text, one more than is_print
  KeepTarget,  \* KEEP_TARGET (30)
  ValidMin,    \* shortest array that can be valid (10)
  ValidDiv,    \* divisor of its length (3)
  NodeBytes,   \* C_NODE_SIZE (2064)
  MaxMem,      \* MAX_MEM_AMOUNT
  WordMod      \* 2^32, truncation of memsize and of scores

VARIABLES
  input,    \* the image (see PointerScan) and the options align, deep, ptrAligned, threads
  list,     \* the POI list
  pc,       \* "voting", "ranking", "refining", "selecting", "done", "refused", "panicked"
  voted,    \* points of interest voted for
  table,    \* the vote tree
  kept,     \* candidates to refine, best first
  scored,   \* refined candidates, in the same order
  result    \* BaseAddressResult

vars == <<input, list, pc, voted, table, kept, scored, result>>

NoResult == [reason |-> "none"]

\* input and list are the caller's, which also sets pc to "voting".
Init ==
  /\ voted = 0
  /\ table = Empty
  /\ kept = <<>> /\ scored = <<>> /\ result = NoResult

Refuse ==
  /\ pc = "voting"
  /\ list = <<>>
  /\ pc' = "refused"
  /\ UNCHANGED <<input, list, voted, table, kept, scored, result>>

PoisOf(types) == {k \in DOMAIN list : list[k].type \in types}

-----------------------------------------------------------------------------
\* First pass: votes.

HasStr == PoisOf({"String"}) # {}

\* Mutant of Wanted: functions too, even if there are strings.
WantedEither(poi) == poi.type \in {"String", "Function"}

Wanted(poi) == poi.type = IF HasStr THEN "String" ELSE "Function"

AlignedPtr(v) == input.ptrAligned => v % input.psize = 0

Bit(v, i) == (v \div Power(2, i)) % 2
AlignmentMask == Sub(input.align, 1)

\* v & alignment_mask = w & alignment_mask, whatever number align is: the low
\* bits for a power of two, all of them for 0.
SameUnderMask(v, w) ==
  \A i \in 0..AddrBits - 1 : Bit(AlignmentMask, i) = 1 => Bit(v, i) = Bit(w, i)

IsAsciiPtr(v) == AllBytesIn(v, input.psize, AsciiBytes)

FreeSpace(delta) == Plus(Sub(MaxValue(input.psize), delta), 1)

Hit(poi, k) ==
  LET v == input.words[k]
  IN  /\ SameUnderMask(v, poi.offset)
      /\ ~IsAsciiPtr(v)
      /\ AlignedPtr(v)
      /\ Wanted(poi)
      /\ v >= poi.offset
      /\ FreeSpace(v - poi.offset) >= input.length

CastVotes(t, poi) ==
  FoldSet(LAMBDA k, acc : Register(acc, input.words[k] - poi.offset),
          t, {k \in DOMAIN input.words : Hit(poi, k)})

MemSize(t) == (t.nodes * NodeBytes) % WordMod

VotePoi ==
  /\ pc = "voting"
  /\ voted < Len(list)
  /\ LET t == CastVotes(table, list[voted + 1])
     IN  table' = IF MemSize(t) > MaxMem THEN Prune(t) ELSE t
  /\ voted' = voted + 1
  /\ UNCHANGED <<input, list, pc, kept, scored, result>>

VotesCast ==
  /\ pc = "voting"
  /\ list # <<>> /\ voted = Len(list)
  /\ pc' = "ranking"
  /\ UNCHANGED <<input, list, voted, table, kept, scored, result>>

-----------------------------------------------------------------------------
\* Ranking by votes.

\* The elements of S in a strict order, each where its rank puts it.
Sorted(S, Before(_, _)) ==
  [k \in 1..Cardinality(S) |->
     CHOOSE x \in S : Cardinality({y \in S : Before(y, x)}) = k - 1]

BestVoteAddress ==
  Min({a \in LeafSet(table) : LeafVotes(table, a) = PeakVote(table)})

AboveOne == {a \in LeafSet(table) : LeafVotes(table, a) > 1}    \* mutant of Contenders

\* Leaves with a single vote count only if no address has more.
Contenders == IF PeakVote(table) = 1 THEN LeafSet(table)
              ELSE {a \in LeafSet(table) : LeafVotes(table, a) > 1}

\* The sort by votes is stable, so equal candidates stay in address order.
Candidates ==
  Sorted({[address |-> a, votes |-> LeafVotes(table, a)] : a \in Contenders},
         LAMBDA c, d : \/ c.votes > d.votes
                       \/ c.votes = d.votes /\ c.address < d.address)

WithVotes(candidates, v) ==
  Cardinality({k \in DOMAIN candidates : candidates[k].votes >= v})

KeptCountFlat(candidates) ==    \* mutant of KeptCount
  IF input.deep THEN Len(candidates) ELSE Min({Len(candidates), KeepTarget})

\* Lower the bar from the best vote until enough candidates pass it.
KeptCount(candidates) ==
  LET enough == {v \in 0..PeakVote(table) : WithVotes(candidates, v) >= KeepTarget}
  IN  IF input.deep THEN Len(candidates)
      ELSE WithVotes(candidates, IF enough = {} THEN 0 ELSE Max(enough))

Rank ==
  /\ pc = "ranking"
  /\ kept' = SubSeq(Candidates, 1, Min({KeptCount(Candidates), Len(Candidates)}))
  /\ pc' = "refining"
  /\ UNCHANGED <<input, list, voted, table, scored, result>>

-----------------------------------------------------------------------------
\* Second pass: scores.

Resolves(v, base) ==
  \E k \in PoisOf({"String", "Array"}) : v = Plus(list[k].offset, base)

Elements(poi) == {input.words[poi.offset \div input.psize + j] : j \in 0..poi.count - 1}

Resolved(poi, base) ==
  Max({1, Cardinality({v \in Elements(poi) : Resolves(v, base)})})

ValidArray(poi, base) ==
  Resolved(poi, base) >= poi.count \div ValidDiv /\ poi.count >= ValidMin

RefineOne(c) ==
  LET arrays     == PoisOf({"Array"})
      arrayScore == (1 + MapThenSumSet(LAMBDA k : Resolved(list[k], c.address),
                                       arrays)) % WordMod
      pointers   == Cardinality(IndexPoiPointers(input, list, c.address))
  IN  [address |-> c.address,
       votes   |-> c.votes,
       score   |-> (pointers * c.votes * arrayScore) % WordMod,
       valid   |-> \E k \in arrays : ValidArray(list[k], c.address)]

\* refine_candidates: whatever the number of threads, the sequential map
\* (modules RefinePool and OrderedMap).
RefineCandidates ==
  /\ pc = "refining"
  /\ scored' = [k \in DOMAIN kept |-> RefineOne(kept[k])]
  /\ pc' = "selecting"
  /\ UNCHANGED <<input, list, voted, table, kept, result>>

\* With threads to spawn, the operating system may refuse one.
SpawnRefused ==
  /\ pc = "refining"
  /\ input.threads > 1 /\ Len(kept) > 1
  /\ pc' = "panicked"
  /\ UNCHANGED <<input, list, voted, table, kept, scored, result>>

-----------------------------------------------------------------------------
\* The verdict.

NoAddress == AddrMod - 1    \* u64::MAX, no candidate scored

TopScore == Max({0} \cup {scored[k].score : k \in DOMAIN scored})

BestScoreLast ==    \* mutant of BestScoreAddress
  IF TopScore = 0 THEN NoAddress
  ELSE scored[Max({k \in DOMAIN scored : scored[k].score = TopScore})].address

BestScoreAddress ==
  IF TopScore = 0 THEN NoAddress
  ELSE scored[Min({k \in DOMAIN scored : scored[k].score = TopScore})].address

ValidOnes == {k \in DOMAIN scored : scored[k].valid}

\* sort_by_key is stable: equal scores stay in candidate order.
Ranked ==
  LET order == Sorted(DOMAIN scored,
                 LAMBDA k, l : \/ scored[k].score > scored[l].score
                               \/ scored[k].score = scored[l].score /\ k < l)
  IN  [k \in DOMAIN scored |-> scored[order[k]]]

Verdict(base, confident, reason, exclude) ==
  [base |-> base, confident |-> confident, reason |-> reason, exclude |-> exclude,
   tested |-> Cardinality(LeafSet(table)), candidates |-> Ranked]

SomeArrayValid == ValidOnes # {}    \* mutant of OneArrayValid
OneArrayValid == Cardinality(ValidOnes) = 1

\* A valid array decides if one candidate alone has one; then votes and scores
\* agreeing; then the score; then, with nothing scored, the votes.
Chosen ==
  LET voteBest  == BestVoteAddress
      scoreBest == BestScoreAddress
  IN  CASE OneArrayValid ->
             LET a == scored[Min(ValidOnes)].address
             IN  Verdict(a, TRUE, "ValidArray", {a})
        [] ~OneArrayValid /\ voteBest = scoreBest ->
             Verdict(voteBest, TRUE, "BestMatchAgrees", {voteBest})
        [] ~OneArrayValid /\ voteBest # scoreBest /\ scoreBest # NoAddress ->
             Verdict(scoreBest, FALSE, "Score", {scoreBest})
        [] OTHER -> Verdict(voteBest, FALSE, "Fallback", {})

Select ==
  /\ pc = "selecting"
  /\ result' = Chosen
  /\ pc' = "done"
  /\ UNCHANGED <<input, list, voted, table, kept, scored>>

Next ==
  \/ Refuse \/ VotePoi \/ VotesCast
  \/ Rank \/ RefineCandidates \/ SpawnRefused \/ Select

Spec == Init /\ [][Next]_vars

-----------------------------------------------------------------------------

Candidate == [address : Addr, votes : Nat]
Scored == [address : Addr, votes : Nat, score : 0..WordMod - 1, valid : BOOLEAN]

\* Types.  compute_candidates answers with one of the four verdicts, and the
\* scores it sorts by are 32 bits wide.
TypeOK ==
  /\ voted \in 0..Len(list)
  /\ Live(table) \subseteq Addr
  /\ kept \in Seq(Candidate)
  /\ scored \in Seq(Scored)
  /\ pc = "done" =>
       result.reason \in {"ValidArray", "BestMatchAgrees", "Score", "Fallback"}

\* The most voted base (lowest address first) is always refined, and first,
\* whatever the vote filter, the stable sort and the cut at KeepTarget did:
\* the "agrees" verdict compares two candidates that were both scored.
PrimeSuspectRefined ==
  pc \in {"refining", "selecting", "done"} =>
    kept # <<>> /\ kept[1].address = BestVoteAddress

\* The cut never splits candidates with equal votes, and drops none while
\* fewer than KeepTarget are kept; in deep mode it drops none at all.  Types
\* included.
CutIsFair ==
  /\ TypeOK
  /\ pc \in {"refining", "selecting", "done"} =>
       LET keptAt  == {kept[k].address : k \in DOMAIN kept}
           dropped == {c \in Range(Candidates) : c.address \notin keptAt}
       IN  /\ \A c \in dropped : \A k \in DOMAIN kept : c.votes < kept[k].votes
           /\ dropped # {} => Len(kept) >= KeepTarget /\ ~input.deep

\* "Base address found" is earned: by the only candidate with a valid array,
\* or by a base nobody outvotes and nobody outscores.
ConfidenceEarned ==
  pc = "done" /\ result.confident =>
    \E k \in DOMAIN scored :
      /\ scored[k].address = result.base
      /\ \/ ValidOnes = {k}
         \/ \A l \in DOMAIN scored :
              scored[l].votes <= scored[k].votes /\ scored[l].score <= scored[k].score

PowerOfTwo(n) == \E i \in 0..AddrBits - 1 : n = Power(2, i)

\* Word v[2] of the image, taken for a pointer to point of interest v[1].
Base(v) == input.words[v[2]] - list[v[1]].offset

\* That pair is a vote: the word is no text, and aligned if pointers must be;
\* the target is a string, or a function if there are no strings; and the base
\* between them is aligned as bases must be and leaves room for the image below
\* the top of the address space.  (Above base 0 of a 64-bit target the code
\* finds no room: all of it wraps to 0.)
IsVote(v) ==
  LET word   == input.words[v[2]]
      top    == MaxValue(input.psize) + 1
      target == IF \E k \in DOMAIN list : list[k].type = "String" THEN "String"
                ELSE "Function"
  IN  /\ list[v[1]].type = target
      /\ Base(v) >= 0 /\ Base(v) + input.length <= top
      /\ Base(v) > 0 \/ top < AddrMod
      /\ input.ptrAligned => word % input.psize = 0
      /\ IF PowerOfTwo(input.align) THEN Base(v) % input.align = 0
         ELSE SameUnderMask(word, list[v[1]].offset)
      /\ \E j \in 0..input.psize - 1 :
           (word \div Power(ByteBase, j)) % ByteBase \notin AsciiBytes

\* Votes are the hits of vote_candidates and nothing else: a base has no more
\* than the pairs that vote for it, and exactly those until the pruning first
\* drops a base (from when on memsize counts more nodes than there are).
VotesAreHits ==
  LET votes      == {v \in (1..voted) \X DOMAIN input.words : IsVote(v)}
      For(base)  == Cardinality({v \in votes : Base(v) = base})
      allThere   == table.nodes = Cardinality(LiveNodes(table))
  IN  /\ \A base \in Live(table) : table.votes[base] \in 1..For(base)
      /\ allThere =>
           \A v \in votes : Base(v) \in Live(table) /\ table.votes[Base(v)] = For(Base(v))

\* The verdict and the sorted list come from separate loops of
\* compute_candidates.  Unless a valid array or nothing decided, the chosen base
\* heads the list with a positive score; the fallback, which excludes nothing
\* from the list it prints, is taken exactly when no score could decide.
ScoreDecides ==
  pc = "done" =>
    /\ result.reason \in {"Score", "BestMatchAgrees"} =>
         result.candidates[1].address = result.base /\ result.candidates[1].score > 0
    /\ result.reason = "Fallback" <=>
         ~OneArrayValid /\ \A k \in DOMAIN scored : scored[k].score = 0

-----------------------------------------------------------------------------
\* base_address.rs:35, ValidArray: "exactly one candidate had an array of
\* pointers fully resolving to POIs".
ValidArrayResolves ==
  pc = "done" /\ result.reason = "ValidArray" =>
    \E a \in PoisOf({"Array"}) :
      \A v \in Elements(list[a]) : Resolves(v, result.base)

\* base_address.rs:94, "`alignment` is the candidate base-address alignment",
\* which -m takes as any number, hexadecimal or decimal: a base that got votes
\* is a multiple of it.
BasesAligned ==
  input.align # 0 => \A base \in Live(table) : base % input.align = 0
=============================================================================
