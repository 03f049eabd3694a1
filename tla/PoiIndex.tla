------------------------------ MODULE PoiIndex ------------------------------
(***************************************************************************)
(* Points of interest beyond strings: append_value_arrays walks the words  *)
(* of the image and records arrays of close values; index_functions then   *)
(* looks for arrays that hold pointers into code, whatever the base, and   *)
(* registers where they point.                                             *)
(***************************************************************************)
EXTENDS Regions, PointerReader

CONSTANTS
  WordMod,     \* 2^32: differences are truncated to 32 bits
  MaxStep,     \* 0x1000, the largest step inside an array
  ArrayMin,    \* 8: arrays of at most this many steps are dropped
  TopBit       \* 31: widest low part tried for a code pointer

VARIABLES
  input,    \* the image: words, psize, length, regions (see PointerScan)
  list,     \* the POI list
  next,     \* next word of the array scan
  inArray, start, count, prev    \* locals of append_value_arrays

vars == <<input, list, next, inArray, start, count, prev>>

\* input, and the list appended to, are the caller's.
Init ==
  /\ next = 0
  /\ inArray = FALSE /\ start = 0 /\ count = 0 /\ prev = 0

NbScanned ==
  Cardinality({k \in DOMAIN input.words : k * input.psize < input.length - input.psize})

AtWord == next < NbScanned

Value == input.words[next]
Filler(v) == v \in {0, MaxValue(input.psize)}

\* value_delta_abs(v, w) > 0x1000, where the most negative difference is its
\* own absolute value and so is never far.
Far(v, w) ==
  LET d == (v - w) % WordMod
  IN  d > MaxStep /\ d < WordMod - MaxStep /\ d # WordMod \div 2

Poi(type, offset, n) == [type |-> type, offset |-> offset, count |-> n]

Advance ==
  /\ prev' = Value
  /\ next' = next + 1
  /\ UNCHANGED input

SkipFiller ==
  /\ AtWord
  /\ ~inArray
  /\ Filler(Value)
  /\ Advance
  /\ UNCHANGED <<list, inArray, start, count>>

OpenArray ==
  /\ AtWord
  /\ ~inArray
  /\ ~Filler(Value)
  /\ inArray' = TRUE /\ start' = next * input.psize /\ count' = 0
  /\ Advance
  /\ UNCHANGED list

ExtendArray ==
  /\ AtWord
  /\ inArray
  /\ ~Far(Value, prev)
  /\ count' = count + 1
  /\ Advance
  /\ UNCHANGED <<list, inArray, start>>

NotShorter(n) == n >= ArrayMin    \* mutant of LongEnough
LongEnough(n) == n > ArrayMin

\* The far value closes the array and opens none.
CloseArray ==
  /\ AtWord
  /\ inArray
  /\ Far(Value, prev)
  /\ list' = IF LongEnough(count) THEN Append(list, Poi("Array", start, count)) ELSE list
  /\ inArray' = FALSE /\ count' = 0
  /\ Advance
  /\ UNCHANGED start

\* append_value_arrays; an array open at the end of the image is forgotten.
Next == SkipFiller \/ OpenArray \/ ExtendArray \/ CloseArray

Spec == Init /\ [][Next]_vars

-----------------------------------------------------------------------------
\* index_functions, of a list that holds the arrays.

Elements(a) == [j \in 1..a.count |-> input.words[a.offset \div input.psize + j - 1]]

Log2(x) == CHOOSE z \in 0..x : Power(2, z) <= x /\ x < Power(2, z + 1)

\* z, the number of low bits that reach the end of the code.
CodeBits == IF MaxCodeAddr(input.regions) = 0 THEN 0 ELSE Log2(MaxCodeAddr(input.regions))

PointsIntoCode(a, bits) ==
  \A j \in DOMAIN Elements(a) :
    /\ Elements(a)[j] \div Power(2, bits) = Elements(a)[1] \div Power(2, bits)
    /\ GetType(input.regions, Elements(a)[j] % Power(2, bits)) = "Code"

WidestOnly == {TopBit}    \* mutant of Widths
Widths == CodeBits..TopBit

\* Every width from 31 bits down to z must fit, or the array counts for
\* nothing; above 31 bits of code none is tried and no bit is masked.
Targets(a) ==
  IF CodeBits > TopBit THEN Elements(a)
  ELSE IF \A bits \in Widths : PointsIntoCode(a, bits)
    THEN [j \in DOMAIN Elements(a) |-> Elements(a)[j] % Power(2, CodeBits)]
  ELSE <<>>

AddUnique(l, offset) ==
  IF \E k \in DOMAIN l : l[k].offset = offset THEN l
  ELSE Append(l, Poi("Function", offset, -1))

WithFunctions(l) ==
  FoldLeft(AddUnique, l,
           FlattenSeq([k \in DOMAIN l |->
                         IF l[k].type = "Array" THEN Targets(l[k]) ELSE <<>>]))

-----------------------------------------------------------------------------

\* Types.  count is the number of steps made since the array was opened.  An
\* array of append_value_arrays ends before the image does: reading
\* its elements in index_functions and refine_one stays inside the image.
TypeOK ==
  /\ next \in 0..NbScanned
  /\ inArray \in BOOLEAN
  /\ count = IF inArray THEN next - 1 - start \div input.psize ELSE 0
  /\ \A k \in DOMAIN list : list[k].type = "Array" =>
       list[k].offset + list[k].count * input.psize < input.length

ArraysIn(l) == {k \in DOMAIN l : l[k].type = "Array"}
First(a) == a.offset \div input.psize
LastOf(a) == First(a) + a.count    \* the last value of the run, past the count

\* Close words i..j behind a first one that is not filler, ended by a far one.
Stretch(i, j) ==
  /\ ~Filler(input.words[i])
  /\ \A m \in i + 1 .. j : ~Far(input.words[m], input.words[m - 1])
  /\ Far(input.words[j + 1], input.words[j])

\* What append_value_arrays records are runs of enough close values, stopped
\* by a far one inside the scan; arrays never share a word, so none is scored
\* for two of them.  The scan swallows the far value that ends an array, yet
\* misses no stretch between two far steps by more than that one value.  Types
\* included.
ArraysAreRuns ==
  /\ TypeOK
  /\ \A k \in ArraysIn(list) :
       LET a == list[k]
       IN  a.count > ArrayMin /\ LastOf(a) + 1 < next /\ Stretch(First(a), LastOf(a))
  /\ \A k, l \in ArraysIn(list) : k < l => LastOf(list[k]) < First(list[l])
  /\ \A i \in 0..next - 2 : \A j \in i + ArrayMin + 2 .. next - 2 :
       /\ Stretch(i, j) /\ ~Filler(input.words[i + 1])
       /\ i > 0 => Far(input.words[i], input.words[i - 1])
       => \E k \in ArraysIn(list) : First(list[k]) \in {i, i + 1} /\ LastOf(list[k]) = j

OffsetsOf(type) == {list[k].offset : k \in {l \in DOMAIN list : list[l].type = type}}

\* Functions found for index_functions are code, and agree with the array they
\* come from: one base address explains every pointer of the array, up to the
\* targets where a string or an array stands already.  (Where code ends below
\* 2^32: above, no mask is tried and nothing is checked.)
FunctionsShareBase ==
  CodeBits <= TopBit =>
    \A f \in OffsetsOf("Function") :
      /\ GetType(input.regions, f) = "Code"
      /\ \E k \in ArraysIn(list), base \in 0..MaxValue(input.psize) :
           LET offsets == {v - base : v \in ToSet(Elements(list[k]))}
           IN  /\ f \in offsets
               /\ offsets \subseteq
                    UNION {OffsetsOf(t) : t \in {"Function", "String", "Array"}}
=============================================================================
