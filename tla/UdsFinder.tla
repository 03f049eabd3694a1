----------------------------- MODULE UdsFinder -----------------------------
(***************************************************************************)
(* UdsFinder::find from the image to its answer: the strings, the pointer  *)
(* listing, the structure arrays found in it, the request-ID table found   *)
(* in those.                                                               *)
(***************************************************************************)
EXTENDS Integers, Sequences, FiniteSets, TLC

CONSTANTS
  AddrMod,      \* 2^64
  ByteBase,     \* values of a byte, 256
  Printable,    \* bytes is_print accepts
  StringMin,    \* STR_MIN_SIZE
  ArrayMin,     \* 4: runs of at most this many pointers are dropped
  MaxMembers,   \* MAX_STRUCT_MEMBERS (12)
  StructMin,    \* 3: arrays of at most this many structures are dropped
  Rids,         \* valid UDS request IDs
  Versatile,    \* values that may be null or a plain value
  Inputs        \* [content, psize, order, base, regions, symbols, pois]

ASSUME FinderAssumption ==
  /\ AddrMod \in Nat \ {0} /\ ByteBase \in Nat \ {0}
  /\ ArrayMin \in Nat /\ StructMin \in Nat \ {0} /\ MaxMembers \in Nat \ {0, 1}
  /\ Rids \subseteq 1..ByteBase - 1

VARIABLES
  input,
  strings, cursor, begin,
  pc, pointers, next, inArray, run, last, arrays, sorted,
  at, minOffset, structures,
  st, column, k, seen, count, start, inSeq, best, result

stringScan == <<strings, cursor, begin>>
listing == <<pc, pointers, next, inArray, run, last, arrays, sorted>>
search == <<at, minOffset, structures>>
scan == <<st, column, k, seen, count, start, inSeq, best, result>>
vars == <<input, stringScan, listing, search, scan>>

Reader == INSTANCE PointerReader
Strings == INSTANCE StringIndex WITH content <- input.content, list <- strings
Listing == INSTANCE UdsPointers
Search == INSTANCE UdsStructures WITH list <- sorted, next <- at
Scan == INSTANCE UdsIdentify

\* An image fits the address space, with room for the structure its last word
\* may begin.
Fits(image) ==
  LET length == Cardinality(DOMAIN image.content)
  IN  /\ image.psize \in Nat \ {0}
      /\ IsFiniteSet(DOMAIN image.content)
      /\ length + MaxMembers * image.psize <= AddrMod
      /\ image.content \in [0..length - 1 -> 0..ByteBase - 1]
      /\ image.base \in 0..AddrMod - 1
      /\ image.regions \in Seq([offset : Nat, size : Nat, type : Listing!RegionType])
      /\ image.symbols \in BOOLEAN
      /\ image.pois \in Seq([type : STRING, offset : Nat, count : Nat])

ASSUME InputsFit == \A image \in Inputs : Fits(image)

\* What find works on: the image and all its words.
Loaded(image) ==
  [words   |-> Reader!WordsOf(image.content, image.psize, image.order),
   length  |-> Cardinality(DOMAIN image.content),
   content |-> image.content, psize |-> image.psize, order |-> image.order,
   base    |-> image.base, regions |-> image.regions,
   symbols |-> image.symbols, pois |-> image.pois]

Init ==
  /\ input \in {Loaded(image) : image \in Inputs}
  /\ strings = <<>> /\ Strings!Init
  /\ Listing!Init /\ Search!Init /\ Scan!Init

IndexStrings ==
  /\ UNCHANGED <<input, listing, search, scan>>
  /\ Strings!Next

IndexPointers ==
  /\ ~Strings!AtByte
  /\ UNCHANGED <<cursor, begin, search, scan>>
  /\ Listing!Next

IndexStructureArrays ==
  /\ pc = "done"
  /\ UNCHANGED <<cursor, begin, listing, scan>>
  /\ Search!Next

IdentifyUds ==
  /\ pc = "done"
  /\ ~Search!AtPointer
  /\ UNCHANGED <<stringScan, listing, search>>
  /\ Scan!Next

Terminated == result # Scan!Pending /\ UNCHANGED vars

Next ==
  \/ IndexStrings \/ IndexPointers \/ IndexStructureArrays \/ IdentifyUds
  \/ Terminated

Spec == Init /\ [][Next]_vars

-----------------------------------------------------------------------------
\* What find is checked for: the properties of its stages, each started from
\* what the one before it produced, and of the whole.

\* index_pointer_arrays: every long run is found, up to its first pointer.
RunsFound == Listing!RunsFound

\* add_unique_sorted: the merged list is sorted without repetition, and without
\* arrays.  Types of the listing included.
SortedListing == Listing!TypeOK /\ Listing!SortedListing

\* uds.rs:155: pointers to known strings are string pointers.
KnownStringsMarked == Listing!KnownStringsMarked

\* index_structure_arrays: structure arrays never overlap.  Types of the search
\* included.
StructuresDisjoint == Search!TypeOK /\ Search!StructuresDisjoint

\* index_structure_arrays: min_offset skips no array.
NothingMissed == Search!NothingMissed

\* identify_uds: no run between invalid bytes beats the best one.  Types of the scan
\* included.
FencedRunsCount == Scan!TypeOK /\ Scan!FencedRunsCount

\* The table find reports is real from end to end: its rows are structures
\* that begin with indexed pointers of one type, and as many of them in a row
\* as it claims hold distinct valid request IDs in one byte column.
ReportedTableReal ==
  /\ Scan!ReportedRunReal
  /\ Scan!Reported =>
       \E i \in DOMAIN structures :
         LET s == structures[i]
         IN  /\ (result.location - input.base) % AddrMod \in s.offset .. Search!EndOf(s) - 1
             /\ \A c \in 0..s.count - 1 :
                  \E p \in DOMAIN pointers :
                    pointers[p] = [offset |-> s.offset + c * Scan!Stride(s), type |-> s.type]

\* The unchecked addition of identify_uds cannot overflow in a search without
\* symbols, whatever the base: the address reported lies in the image.  It is
\* index_poi_pointers that sees to this, by finding no pointer where the image
\* would wrap around the top of the address space, and the request IDs, since
\* the bytes behind the image read as an invalid one.
LocationFits ==
  ~input.symbols =>
    /\ result # Scan!Panicked
    /\ Scan!Reported => result.location \in input.base .. input.base + input.length - 1
=============================================================================
