---------------------------- MODULE UdsPointers ----------------------------
(***************************************************************************)
(* The first half of UdsFinder::find: index the pointers of the image under*)
(* a known base, retype them by what they point at, find arrays of them,   *)
(* and merge pointers and arrays into the list, sorted by offset, that the *)
(* structure search walks.                                                 *)
(***************************************************************************)
EXTENDS PointerScan, SequencesExt

CONSTANT ArrayMin    \* 4: runs of at most this many pointers are dropped

VARIABLES
  input,       \* the image (see PointerScan), its bytes content, the base
               \* address base, the known symbols pois
  strings,     \* POI list of the strings, from StringIndex
  pc,
  pointers,    \* [offset, type] in scan order
  next,        \* next entry of the loop at hand
  inArray, run,    \* locals of index_pointer_arrays; run: [offset, type, count]
  last,            \* offset of the last pointer of the run
  arrays,      \* pointer arrays, [offset, type, count]
  sorted       \* the merged list

vars == <<input, strings, pc, pointers, next, inArray, run, last, arrays, sorted>>

NoRun == [offset |-> 0, type |-> "Unknown", count |-> 0]

\* input is the caller's.
Init ==
  /\ pc = "indexing"
  /\ pointers = <<>> /\ next = 1
  /\ inArray = FALSE /\ run = NoRun /\ last = 0
  /\ arrays = <<>> /\ sorted = <<>>

-----------------------------------------------------------------------------

\* The scan lists its finds by ascending offset; the symbols one word points
\* at make equal entries.
Listed(found, k) ==
  LET here == {p \in found : p.at = k}
  IN  [j \in 1..Cardinality(here) |->
         [offset |-> k * input.psize, type |-> (CHOOSE p \in here : TRUE).type]]

IndexPointers ==
  /\ pc = "indexing"
  /\ LET found == IndexPoiPointers(input, input.pois, input.base)
     IN  pointers' = FlattenSeq([k \in 1..Cardinality(DOMAIN input.words) |->
                                   Listed(found, k - 1)])
  /\ pc' = "retyping strings"
  /\ UNCHANGED <<input, strings, next, inArray, run, last, arrays, sorted>>

Read(p) == input.words[p.offset \div input.psize]

OnString(p) == \E s \in DOMAIN strings : Read(p) = Plus(strings[s].offset, input.base)

RetypeStringPointers ==
  /\ pc = "retyping strings"
  /\ pointers' = [k \in DOMAIN pointers |->
                    IF OnString(pointers[k])
                      THEN [pointers[k] EXCEPT !.type = "StringPointer"] ELSE pointers[k]]
  /\ pc' = "retyping regions"
  /\ UNCHANGED <<input, strings, next, inArray, run, last, arrays, sorted>>

RegionPointer ==
  [Code |-> "FunctionPointer", InitData |-> "DataPointer",
   UninitData |-> "UninitDataPointer"]

\* Every indexed pointer is at least a GenericPointer, StringPointer included.
RetypeRegionPointers ==
  /\ pc = "retyping regions"
  /\ pointers' = [k \in DOMAIN pointers |->
                    LET target == GetType(input.regions, Sub(Read(pointers[k]), input.base))
                    IN  IF target = Unknown THEN pointers[k]
                        ELSE [pointers[k] EXCEPT !.type = RegionPointer[target]]]
  /\ pc' = "arrays"
  /\ UNCHANGED <<input, strings, next, inArray, run, last, arrays, sorted>>

-----------------------------------------------------------------------------
\* index_pointer_arrays, one pointer per step.

AtPointer == pc = "arrays" /\ next <= Len(pointers)

OpenRun ==
  /\ AtPointer
  /\ ~inArray
  /\ inArray' = TRUE
  /\ run' = [offset |-> pointers[next].offset, type |-> pointers[next].type, count |-> 1]
  /\ last' = pointers[next].offset
  /\ next' = next + 1
  /\ UNCHANGED <<input, strings, pc, pointers, arrays, sorted>>

Adjoins == pointers[next].offset = last + input.psize /\ pointers[next].type = run.type

ExtendRun ==
  /\ AtPointer
  /\ inArray
  /\ Adjoins
  /\ run' = [run EXCEPT !.count = @ + 1]
  /\ last' = pointers[next].offset
  /\ next' = next + 1
  /\ UNCHANGED <<input, strings, pc, pointers, inArray, arrays, sorted>>

MoreThanFive(n) == n > ArrayMin + 1    \* mutant of LongEnough
LongEnough(n) == n > ArrayMin

\* The pointer that breaks a run starts none itself.
BreakRun ==
  /\ AtPointer
  /\ inArray
  /\ ~Adjoins
  /\ arrays' = IF LongEnough(run.count) THEN Append(arrays, run) ELSE arrays
  /\ inArray' = FALSE
  /\ next' = next + 1
  /\ UNCHANGED <<input, strings, pc, pointers, run, last, sorted>>

\* A run open at the last pointer is forgotten.
ArraysDone ==
  /\ pc = "arrays"
  /\ next > Len(pointers)
  /\ pc' = "merging"
  /\ next' = 1
  /\ UNCHANGED <<input, strings, pointers, inArray, run, last, arrays, sorted>>

-----------------------------------------------------------------------------
\* Merge, one add_unique_sorted per step: pointers first, then arrays.

ToMerge ==
  pointers \o [k \in DOMAIN arrays |->
                 [offset |-> arrays[k].offset, type |-> "ArrayPointer"]]

\* Mutant of AddUniqueSorted: a new entry goes in front of its equals.
AddSorted(l, p) ==
  LET k == Cardinality({j \in DOMAIN l : l[j].offset < p.offset})
  IN  InsertAt(l, k + 1, p)

AddUniqueSorted(l, p) ==
  LET k == Cardinality({j \in DOMAIN l : l[j].offset < p.offset})
  IN  IF \E j \in DOMAIN l : l[j].offset = p.offset THEN l ELSE InsertAt(l, k + 1, p)

Merge ==
  /\ pc = "merging"
  /\ next <= Len(ToMerge)
  /\ sorted' = AddUniqueSorted(sorted, ToMerge[next])
  /\ next' = next + 1
  /\ UNCHANGED <<input, strings, pc, pointers, inArray, run, last, arrays>>

MergeDone ==
  /\ pc = "merging"
  /\ next > Len(ToMerge)
  /\ pc' = "done"
  /\ UNCHANGED <<input, strings, pointers, next, inArray, run, last, arrays, sorted>>

Next ==
  \/ IndexPointers \/ RetypeStringPointers \/ RetypeRegionPointers
  \/ OpenRun \/ ExtendRun \/ BreakRun \/ ArraysDone
  \/ Merge \/ MergeDone

Spec == Init /\ [][Next]_vars

-----------------------------------------------------------------------------

PointerType ==
  {"GenericPointer", "DataPointer", "UninitDataPointer", "FunctionPointer", "StringPointer"}

\* Types.  Once retyped, a pointer is generic only without a region to tell.
TypeOK ==
  /\ \A k \in DOMAIN pointers :
       pointers[k].type \in IF pc \in {"retyping strings", "retyping regions"}
                              THEN PointerType ELSE PointerType \ {"GenericPointer"}
  /\ next \in 1..Len(ToMerge) + 1
  /\ inArray \in BOOLEAN
  /\ run.count \in 0..Len(pointers)
  /\ last \in {0} \cup {pointers[k].offset : k \in DOMAIN pointers}

\* The structure search takes the merged list to be sorted by offset without
\* repetitions: its min_offset skip relies on it.  Each offset keeps the type
\* of the first POI found there, so no pointer array ever enters the list (its
\* first pointer stands at its offset already), and what find reports does not
\* depend on step 2 of the pipeline (uds.rs:9).
SortedListing ==
  LET merged == SubSeq(ToMerge, 1, next - 1)
  IN  pc \in {"merging", "done"} =>
        /\ \A k \in DOMAIN sorted : sorted[k].type # "ArrayPointer"
        /\ \A k, l \in DOMAIN sorted : k < l => sorted[k].offset < sorted[l].offset
        /\ \A k \in DOMAIN merged : \E l \in DOMAIN sorted :
             sorted[l].offset = merged[k].offset
        /\ \A l \in DOMAIN sorted : \E k \in DOMAIN merged :
             /\ merged[k] = sorted[l]
             /\ \A m \in 1..k - 1 : merged[m].offset # merged[k].offset

\* A run of more pointers than ArrayMin + 1 that a later pointer ends becomes
\* an array, up to its first pointer: index_pointer_arrays opens no run at the
\* pointer that breaks the one before.
RunAt(i, j) ==
  /\ \A k \in i + 1 .. j : /\ pointers[k].offset = pointers[k - 1].offset + input.psize
                           /\ pointers[k].type = pointers[i].type
  /\ \/ pointers[j + 1].offset # pointers[j].offset + input.psize
     \/ pointers[j + 1].type # pointers[i].type

RunsFound ==
  pc = "merging" =>
    \A i \in DOMAIN pointers : \A j \in i + ArrayMin + 1 .. Len(pointers) - 1 :
      RunAt(i, j) =>
        \E k \in DOMAIN arrays :
          /\ arrays[k].offset <= pointers[i + 1].offset
          /\ arrays[k].offset + (arrays[k].count - 1) * input.psize = pointers[j].offset

-----------------------------------------------------------------------------
\* uds.rs:155, "Mark pointers that resolve to a known string as
\* StringPointer", the type structure_declaration prints as char*.
KnownStringsMarked ==
  pc = "done" =>
    \A k \in DOMAIN pointers : OnString(pointers[k]) => pointers[k].type = "StringPointer"
=============================================================================
