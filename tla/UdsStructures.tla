--------------------------- MODULE UdsStructures ---------------------------
(***************************************************************************)
(* index_structure_arrays: walk the sorted pointer list and, from each     *)
(* pointer not inside a structure array already found, count how often a   *)
(* pointer of its type repeats at every stride; the stride with most       *)
(* repetitions becomes a structure array if there are enough of them.      *)
(***************************************************************************)
EXTENDS Naturals, Sequences, FiniteSets, FiniteSetsExt

CONSTANTS
  AddrMod,      \* 2^64
  MaxMembers,   \* MAX_STRUCT_MEMBERS (12)
  StructMin,    \* 3: arrays of at most this many structures are dropped
  Versatile     \* values that may be null or a plain value: 0, 2^32 - 1, 2^64 - 1

VARIABLES
  input,        \* the image and its base address (see UdsPointers)
  strings,      \* POI list of the strings
  list,         \* the pointer list, sorted by offset
  next,         \* next pointer of the list
  minOffset,    \* end of the last structure array
  structures    \* [offset, type, count, members, signature]

vars == <<input, strings, list, next, minOffset, structures>>

NbWords == Cardinality(DOMAIN input.words)
ScanLimit == input.length - input.psize

\* input, strings and list come from UdsPointers.
Init ==
  /\ next = 1
  /\ minOffset = 0
  /\ structures = <<>>

-----------------------------------------------------------------------------

RepeatsAt(poi, offset) ==
  /\ offset < ScanLimit
  /\ \E k \in DOMAIN list : list[k].offset = offset /\ list[k].type = poi.type

\* Elements in a row behind poi, for structures of so many members.
Repetitions(poi, members) ==
  Min({c \in 1..NbWords : ~RepeatsAt(poi, poi.offset + c * members * input.psize)})

\* The smallest structure among those that repeat most.
BestMembers(poi) ==
  Min({m \in 2..MaxMembers :
         \A l \in 2..MaxMembers : Repetitions(poi, m) >= Repetitions(poi, l)})

-----------------------------------------------------------------------------
\* create_signature.

ReadWord(offset) ==
  LET k == offset \div input.psize
  IN  IF k \in DOMAIN input.words THEN input.words[k] ELSE 0

PointsAt(value, offset) == value = (input.base + offset) % AddrMod

OnString(value) == \E s \in DOMAIN strings : PointsAt(value, strings[s].offset)

PlainType(value) ==
  IF OnString(value) THEN "String"
  ELSE IF value \in Versatile THEN "NullPtrOrValue" ELSE "Unknown"

\* The first entry of the list the member points at, or that is the member,
\* decides; all entries are pointers.
MemberType(offset) ==
  LET value == ReadWord(offset)
      hits  == {k \in DOMAIN list : PointsAt(value, list[k].offset) \/ list[k].offset = offset}
      first == list[Min(hits)]
  IN  IF hits = {} THEN PlainType(value)
      ELSE IF PointsAt(value, first.offset) THEN "PointerPointer" ELSE first.type

Structure(poi) ==
  LET members == BestMembers(poi)
  IN  [offset |-> poi.offset, type |-> poi.type,
       count |-> Repetitions(poi, members), members |-> members,
       signature |-> [i \in 1..members |-> MemberType(poi.offset + (i - 1) * input.psize)]]

EndPadded(s) == s.offset + (s.count + 1) * s.members * input.psize    \* mutant of EndOf
EndCounted(s) == s.offset + s.count * input.psize    \* mutant of EndOf
EndOf(s) == s.offset + s.count * s.members * input.psize

-----------------------------------------------------------------------------

AtPointer == next <= Len(list)
Poi == list[next]

SkipInside ==
  /\ AtPointer
  /\ Poi.offset < minOffset
  /\ next' = next + 1
  /\ UNCHANGED <<input, strings, list, minOffset, structures>>

Rejected ==
  /\ AtPointer
  /\ Poi.offset >= minOffset
  /\ Repetitions(Poi, BestMembers(Poi)) <= StructMin
  /\ next' = next + 1
  /\ UNCHANGED <<input, strings, list, minOffset, structures>>

Found ==
  /\ AtPointer
  /\ Poi.offset >= minOffset
  /\ Repetitions(Poi, BestMembers(Poi)) > StructMin
  /\ structures' = Append(structures, Structure(Poi))
  /\ minOffset' = EndOf(Structure(Poi))
  /\ next' = next + 1
  /\ UNCHANGED <<input, strings, list>>

Next == SkipInside \/ Rejected \/ Found

Spec == Init /\ [][Next]_vars

-----------------------------------------------------------------------------

MemberTypes ==
  {"GenericPointer", "DataPointer", "UninitDataPointer", "FunctionPointer",
   "StringPointer", "PointerPointer", "String", "NullPtrOrValue", "Unknown"}

\* Types.  The last structure of an array may overrun the scanned words, yet
\* its first member does not.
TypeOK ==
  /\ next \in 1..Len(list) + 1
  /\ minOffset \in 0..ScanLimit + MaxMembers * input.psize
  /\ \A k \in DOMAIN structures :
       LET s == structures[k]
       IN  /\ s.members \in 2..MaxMembers
           /\ s.signature \in [1..s.members -> MemberTypes]

\* The bytes of one structure array belong to no other: identify_uds can read
\* each column of each array for itself.
StructuresDisjoint ==
  \A k, l \in DOMAIN structures :
    k < l =>
      LET s == structures[k]
      IN  s.offset + s.count * s.members * input.psize <= structures[l].offset

\* Skipping what lies inside the last array loses nothing: the pointer passed
\* last, if it heads enough structures, lies inside an array that was found.
NothingMissed ==
  next > 1 =>
    LET poi == list[next - 1]
    IN  (\E m \in 2..MaxMembers : Repetitions(poi, m) > StructMin) =>
          \E s \in {structures[l] : l \in DOMAIN structures} :
            poi.offset \in s.offset .. s.offset + s.count * s.members * input.psize - 1
=============================================================================
