---------------------------- MODULE UdsIdentify ----------------------------
(***************************************************************************)
(* identify_uds: read every byte column of every structure array from its  *)
(* first structure to its last, and remember the longest run of distinct   *)
(* valid request IDs among the runs that a repeated or invalid byte ends.  *)
(***************************************************************************)
EXTENDS Integers, Sequences, FiniteSets

CONSTANTS
  AddrMod,   \* 2^64
  Rids       \* valid UDS request IDs, 0 not among them

VARIABLES
  input,        \* the image and its base address (see UdsPointers)
  structures,   \* [offset, count, members], as UdsStructures finds them
  st, column, k,             \* loop indices: structure array, column, structure
  seen, count, start, inSeq, \* locals of the column loop
  best,         \* longest run so far, or NoRun
  result        \* [location, ridCount], or Pending, None, Panicked

vars == <<input, structures, st, column, k, seen, count, start, inSeq, best, result>>

NoRun == [column |-> 0, length |-> 0, start |-> 0, st |-> 0]
Pending == [location |-> -1, ridCount |-> -1]
None == [location |-> -1, ridCount |-> 0]
Panicked == [location |-> -2, ridCount |-> 0]

\* input and structures are inputs, the latter from UdsStructures.
Init ==
  /\ st = 1 /\ column = 0 /\ k = 0
  /\ seen = {} /\ count = 0 /\ start = 0 /\ inSeq = FALSE
  /\ best = NoRun
  /\ result = Pending

-----------------------------------------------------------------------------

Stride(s) == s.members * input.psize

\* Bytes behind the end of the image read as 0.
ByteOf(s, col, j) ==
  LET at == s.offset + j * Stride(s) + col
  IN  IF at \in DOMAIN input.content THEN input.content[at] ELSE 0

InColumn ==
  /\ st <= Len(structures)
  /\ column < Stride(structures[st])
  /\ k < structures[st].count

Byte == ByteOf(structures[st], column, k)

NextByte == k' = k + 1 /\ UNCHANGED <<input, structures, st, column, result>>

OpenRun ==
  /\ InColumn
  /\ Byte \in Rids
  /\ ~inSeq
  /\ seen' = {Byte} /\ count' = 1 /\ start' = k /\ inSeq' = TRUE
  /\ NextByte
  /\ UNCHANGED best

GrowRun ==
  /\ InColumn
  /\ Byte \in Rids
  /\ inSeq
  /\ Byte \notin seen
  /\ seen' = seen \cup {Byte} /\ count' = count + 1
  /\ NextByte
  /\ UNCHANGED <<start, inSeq, best>>

BetterRepeated == Byte \in Rids /\ count > best.length    \* mutant of Better
Better == count > best.length

\* Only a longer run replaces the best one.
Consider ==
  IF Better
    THEN [column |-> column, length |-> count, start |-> start, st |-> st] ELSE best

\* A repeated request ID ends the run and starts none itself; an invalid byte
\* outside a run considers the run before it once more.
EndRun ==
  /\ InColumn
  /\ Byte \in Rids => inSeq /\ Byte \in seen
  /\ inSeq' = FALSE
  /\ best' = Consider
  /\ NextByte
  /\ UNCHANGED <<seen, count, start>>

CarryRun == UNCHANGED <<seen, count, start, inSeq>>    \* mutant of NoOpenRun
NoOpenRun == seen' = {} /\ count' = 0 /\ start' = 0 /\ inSeq' = FALSE

\* A run still open at the last structure is forgotten.
NextColumn ==
  /\ st <= Len(structures)
  /\ column < Stride(structures[st])
  /\ k = structures[st].count
  /\ column' = column + 1 /\ k' = 0
  /\ NoOpenRun
  /\ UNCHANGED <<input, structures, st, best, result>>

NextStructure ==
  /\ st <= Len(structures)
  /\ column = Stride(structures[st])
  /\ st' = st + 1 /\ column' = 0
  /\ UNCHANGED <<input, structures, k, seen, count, start, inSeq, best, result>>

Location(r) ==
  structures[r.st].offset + input.base + r.column + r.start * Stride(structures[r.st])

\* An address past the top makes a debug build panic and a release build wrap.
Return ==
  /\ st > Len(structures)
  /\ result = Pending
  /\ \/ best = NoRun /\ result' = None
     \/ /\ best # NoRun
        /\ result' = [location |-> Location(best) % AddrMod, ridCount |-> best.length]
     \/ /\ best # NoRun /\ Location(best) >= AddrMod
        /\ result' = Panicked
  /\ UNCHANGED <<input, structures, st, column, k, seen, count, start, inSeq, best>>

Next ==
  \/ OpenRun \/ GrowRun \/ EndRun \/ NextColumn \/ NextStructure
  \/ Return

Spec == Init /\ [][Next]_vars

-----------------------------------------------------------------------------

\* Types.  While a run of the column loop is open it ends just before
\* structure k and counts the request IDs in seen.
TypeOK ==
  /\ st \in 1..Len(structures) + 1
  /\ seen \subseteq Rids
  /\ count \in 0..k /\ start \in 0..k
  /\ inSeq => count = Cardinality(seen) /\ start + count = k

\* Structures i..j of a column hold distinct valid request IDs.
DistinctRids(s, col, i, j) ==
  /\ \A m \in i..j : ByteOf(s, col, m) \in Rids
  /\ \A m, n \in i..j : m # n => ByteOf(s, col, m) # ByteOf(s, col, n)

Reported == result \notin {Pending, None, Panicked}

\* The table identify_uds reports is in the image: that many structures in a
\* row of one array hold distinct valid request IDs in one column, and the
\* location is the address of the first of them.
ReportedRunReal ==
  Reported =>
    \E s \in {structures[i] : i \in DOMAIN structures} :
      \E col \in 0..Stride(s) - 1, j \in 0..s.count - 1 :
        /\ result.location = (input.base + s.offset + j * Stride(s) + col) % AddrMod
        /\ j + result.ridCount <= s.count
        /\ DistinctRids(s, col, j, j + result.ridCount - 1)

\* Columns identify_uds has read from end to end.
ColumnsRead ==
  (UNION {{<<i, col>> : col \in 0..Stride(structures[i]) - 1} : i \in 1..st - 1}) \cup
  {<<st, col>> : col \in 0..column - 1}

\* No run fenced by invalid bytes (or by the first structure before it) is
\* longer than the best one, although the scan forgets the byte that repeats
\* and the run that reaches the last structure.
FencedRunsCount ==
  \A c \in ColumnsRead :
    LET s == structures[c[1]]
    IN  \A i \in 0..s.count - 2 : \A j \in i..s.count - 2 :
          /\ DistinctRids(s, c[2], i, j)
          /\ i > 0 => ByteOf(s, c[2], i - 1) \notin Rids
          /\ ByteOf(s, c[2], j + 1) \notin Rids
          => best.length >= j - i + 1
=============================================================================
