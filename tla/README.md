# A TLA+ model of binbloom-rs

binbloom-rs recovers, from a raw firmware image, the endianness, the loading
address, and (given the address) the table of UDS request handlers. This
directory holds TLA+ modules that model its analyses, TLC configurations that
check them on small images, theorems about them proved with TLAPS, and
`PROJECT.json`, which maps every definition to the source lines it models.

Line numbers refer to `src/src/*.rs`.

## 1. Inventory

| Component (source) | State | Operations | Used by |
|-|-|-|-|
| Command line (`main.rs`) | arguments, exit code | `run`, `parse_number`, the two modes | user |
| Firmware facade (`firmware.rs`) | content, options, POI list | `from_bytes`, `from_reader`, the `with_` setters, `find_base_address`, `find_uds` | CLI |
| Symbols (`symbols.rs`) | remainder of the text, `PoiList` of functions | `parse_into`, `parse_line` | CLI, base address, UDS |
| Points of interest (`poi.rs`) | list of `Poi` | `append_strings`, `add`, `add_unique`, `add_unique_sorted`, `add_structure_array`, `is_in` | base address, UDS |
| Base address (`base_address.rs`) | POI list, vote tree, candidates, scores | `append_value_arrays`, `index_functions`, `compute_candidates` and what it calls | firmware |
| Refinement threads (`base_address.rs:437-492`) | chunks, threads, per-thread vectors, result vector | `refine_candidates`, `refine_parallel` (std and rayon) | base address |
| Address tree (`addrtree.rs`) | 256-ary radix tree with votes at the leaves, `nb_nodes` | `register_address`, `filter`, `max_vote`, `count_nodes`, `leaves`, `memsize` | endianness, voting |
| Endianness (`endian_detect.rs`) | two address trees, offset | `detect`, `msb_mask`, `peak_vote`, `effective_root` | firmware |
| Memory map (`memregion.rs`, bands in `arch.rs`) | list of regions; one open region while scanning | `analyze`, `get_type`, `max_code_addr` | base address, UDS |
| UDS (`uds.rs`) | string and pointer lists, arrays, structures, best run | `find` and its seven steps | firmware |
| Pointer reader (`pointer.rs`) | none | `read`, `read_as` with zero padding, `is_ascii_ptr` | all |
| Architecture (`arch.rs`, `endianness.rs`) | none | pointer sizes, bands, names | all |
| Entropy, log, errors, re-exports | none | arithmetic, wording | all |

The components interact by calls only: a `Firmware` computes the memory map
and the endianness, then runs either the base-address search or the UDS search.
The only concurrency is in `refine_parallel`. What is hard in the rest is
*loops with carried state* (an open region, an open array, a minimal offset, a
run of request IDs, a tree that is pruned while it is filled), *order* (stable
sorts and cuts, retyping twice, first match wins), and *wrapping arithmetic*
(32-bit scores, 64-bit differences near the top of the address space).

What makes each component correct:

* **Address tree**: it is a table of votes. Pruning keeps leaders, `nb_nodes`
  never understates the tree, no path is left hollow.
* **Memory map**: regions are disjoint, inside the image, one per run.
* **Endianness**: pruning never loses either peak, and the verdict is that of
  exact counts as long as nothing significant was pruned.
* **Voting and verdict**: the prime suspect is refined, the cut is fair, and a
  confident answer is backed by the votes and by the scores.
* **Refinement threads**: the parallel map is the sequential map, within the
  thread budget, with no thread left behind.
* **POI strings, arrays and functions**: strings and arrays are exactly the
  runs of the image that qualify; functions found from one array agree on one
  base.
* **Symbols**: exactly the well-formed lines count, each on its own.
* **UDS**: the list the structure search walks is sorted without repetition;
  structures are disjoint and none is missed; the table that is reported is
  there, at an address that exists, and no terminated run beats it.
* **Command line**: every unusable argument ends the run in failure, whenever
  it is looked at; the other bases it lists are the best others.

`PROJECT.json` lists the hazards behind these, each at its line.

## 2. Modules

```
OrderedMap        <-- RefinePool (std::thread)   <-- RefinePoolProofs
   abstract       <-- RayonPool  (rayon)         <-- RayonPoolProofs
VoteTable  (operators on a table of votes, shared by the next four)
   VoteCounter    <-- AddrTree (radix tree)      VoteCounterProofs, AddrTreeProofs
   EndianDetect, BaseAddress  use VoteTable
Regions    (region types and lookup): MemoryMap (MemoryMapProofs),
           PoiIndex, PointerScan
PointerReader (read_as, is_ascii_ptr): EndianDetect, PoiIndex, BaseAddress,
           UdsFinder, Cli
PointerScan (index_poi_pointers): BaseAddress, UdsPointers
Powers     (b^n by recursion): PointerReader, BaseAddress, PoiIndex,
           EndianDetect

EndianDetect   <-- EndianDetectProofs
Cli        composes Symbols, Numbers and Firmware        (run)
Firmware   composes StringIndex, PoiIndex, BaseAddress   (find_base_address)
           CliProofs has the proofs of Cli and of all these
UdsFinder  composes StringIndex, UdsPointers, UdsStructures, UdsIdentify   (find)
           UdsFinderProofs has its proofs and those of its stages
MC<module> gives the constants of <module> values for TLC
```

`A <-- B`: B implements A (checked by TLC with A's specification as a property),
or B is the module of the proofs about A.

**Cli** (main.rs) is `run`, from the arguments to the exit code: an option is a
sequence, empty if it is not given, a file what it holds or that it cannot be
read. `Load` is the construction of the `Firmware` with its setters,
`LoadSymbols` one line of the symbol file, and the `Refuse...` actions are the early
returns, each at its place: the base is parsed last, once everything was
loaded. `StartSearch` is where `memory_map` and `resolve_endianness` give their
answers, here any regions inside the image and, without `-e`, either byte order; what
they can answer is the business of MemoryMap and EndianDetect. `FindUds` leaves
the outcome open: UdsFinder models it, and shows when the address of the table found
overflows, which is `FindUdsPanics` here. `Unwind` is the panic of a base address
search that leaves `run`. `PrintBaseAddress` has the base, the
confidence and the list of other bases. **Numbers** is the number syntax of
options and symbol addresses, over tokens: the prefixes `0x` and `0X`, and single characters.

**Symbols** (symbols.rs:26-109) is `parse_into`, one line per step on the
remainder of the text, and `parse_line` with its prefix search.

**Firmware** (firmware.rs) is `find_base_address`: strings byte by byte, value
arrays word by word, functions in one step unless there are symbols, then
`compute_candidates`, all on one list that starts with the symbols.

**StringIndex** (poi.rs:174-195) is `append_strings`, one byte per step. It is
the first stage of both analyses.

**PointerReader** is `read_as`: a word of the image in either byte order, zero
past the end, and the image as the sequence of words the other modules read.

**OrderedMap** is what `refine_candidates` promises: one answer, the outcomes
in candidate order, or a panic that hands nothing to the caller.

**RefinePool** (437-469) has the calling thread and up to `nb_threads` scoped
threads. `Start` picks the sequential path or the chunk size, `Spawn` hands out
the next chunk, `Work(w)` is one `refine_one` of thread w, `Join` appends the
next thread's vector, `SpawnFails` is the panic of `scope.spawn` when the
system refuses a thread, `Unwind` what `thread::scope` then guarantees.
`self` and the POI list are shared read-only, so the outcome of `refine_one`
depends on the candidate alone (`Refine`, a constant).

**RayonPool** (478-492) has the same caller and rayon's workers: an idle worker
claims any candidate nobody has, outcomes arrive in any order, the indexed
`collect` puts them in place. `BuildFails` is the fallback to the global pool,
`GlobalPoolFails` the panic when that cannot start either.

**VoteTable** and **VoteCounter** are the address tree as its users see it:
votes per address, the vote a childless root carries, `nb_nodes`. **AddrTree**
(132-207) is the tree itself, digit path by digit path, with `Node::filter`'s
removal of branches from the bottom, and maps to VoteCounter.

**MemoryMap** (65-108) is `analyze` chunk by chunk: skip, open, extend or
switch the region, close the last one. **Regions** is `get_type` and
`max_code_addr`.

**PointerScan** (245-285) is `index_poi_pointers` as a function of an image and
a base. **BaseAddress** (288-373, 376-429, 495-547) is `compute_candidates`:
`VotePoi` casts the votes of one POI and prunes if `memsize` exceeds its limit,
`Rank` finds the most voted base and sorts and cuts the candidates,
`RefineCandidates` scores them, `Select` picks one of the four verdicts. In it
the refinement is one step: RefinePool and RayonPool show that threads give the
sequential vector or, if they cannot be started, panic (`SpawnRefused`).

**PoiIndex** (143-240) is `append_value_arrays`, one word per step, and, as an
operator on the list, `index_functions`.

**EndianDetect** (39-121) is `detect`, one offset per step on both trees.

**UdsPointers** (uds.rs 115-214) indexes, retypes twice, finds pointer arrays
pointer by pointer, merges entry by entry. **UdsStructures** (219-328) visits
one listed pointer per step. **UdsIdentify** (331-400) reads one byte per step;
its last step adds up the reported location, which panics or wraps when it does
not fit. **UdsFinder** (115-136) runs StringIndex and these three over one
image: the pointers are matched with the strings found, the structure search
gets the merged list, the column scan the structures, so no stage starts from a
state the code cannot produce. The properties of a stage are stated in its
module in terms of its own variables; UdsFinder, and Cli for its stages, name
them for TLC, and UdsFinder adds the one that spans all stages, `ReportedTableReal`.

Definitions whose comment says *mutant of X* are plausible slips in X. They are
in no specification; replacing X by one makes the property named with it in
`PROJECT.json` fail, which shows that the property depends on that code.

## 3. Runs

Every run takes well under five minutes with two workers. All searches are exhaustive within the
bounds. Deadlock is checked in all of them: the modules that end do so in a
`Terminated` step that changes nothing, so being stuck elsewhere is an error.

| Run | Question | Bounds, and why they are enough |
|-|-|-|
| `refine_threads` | parallel = sequential, budget, no thread escapes | 0-7 candidates, `-t` 0-5: several chunks, a short last chunk, and 5 candidates on 4 threads, where rounding leaves a thread out |
| `refine_rayon` | same for rayon | 0-5 candidates, 2-3 workers, 4 in the global pool (more than `-t`); either pool or both may fail |
| `vote_counter` | votes, nodes, pruning | 4 addresses sharing 0, 1 and 2 digits; up to 4 votes; filters at every threshold |
| `addr_tree` | the radix tree is the table | the same addresses, radix 2, depth 3 (the code: 256, 8) |
| `memory_map` | regions | images of up to 5 chunks with a partial one, entropies at the band edges |
| `endian_detect` | peaks, descent, verdict | all images of up to 8 bytes of 3 values, base 4; both pointer sizes; cleanup every 3rd offset |
| `binbloom` | the whole way from arguments to exit code: options, symbols, strings, arrays, functions, votes, cut, verdict, other bases | see below |
| `uds_find` | listing, structure arrays, reported table and location | four families of images: five free words over 4 values, 2 maps, with and without symbols; seven free words of repeated pointers, 2-4 members, some arrays reaching past the image; five rows with free values; and bases whose image ends around the top of the address space. Strings are found in the same images. Limits of 1 pointer and 1 structure, so that two arrays fit |

`binbloom` scales the program down as a whole: a byte has 16 values, a 32-bit
pointer is one byte and a 64-bit one two, so 2^32 is 16 and 2^64 is 256; one
byte value is printable, one more passes for text in a pointer. Seven families of
arguments reach what each stage has to get wrong: every combination of good, bad and
missing options, with and without a usable file; symbol files of three lines
out of ten shapes, each well- or ill-formed in its own way; 32-bit images with strings
next to free bytes, with a good and a bad alignment and `--deep`; 64-bit images
with one array of code pointers, or two; 64-bit images with two strings and an array
of pointers of which some point at them; images crowded with votes, so that bases are
cut off and the tree is pruned, with threads to spread the rest over; and big-endian
images with known symbols, with and without `--ptr-aligned`. Four memory maps (one empty)
go with each of them that they fit. The limits are low enough for the cut (2 kept), the
pruning (4 nodes) and the list of other bases (1) to bite. A valid array has at least 4
values (10 in the code), of which half (a third) must resolve, so that here as there one
that resolves nothing is never valid. All four verdicts occur, and the panics of both modes.
The run has 302 thousand states and takes
two minutes.

The constants of the code (`> 8` steps, `> 4` pointers, `> 3` structures, 12
members, 30 candidates, 2^32, 2^64) are parameters, scaled down together with
the images. Values are chosen so that both sides of each comparison and each
wrap occur.

Four runs expect a violation. Each checks one sentence of a comment or a help
text that the code does not live up to (`findings`):

| Run | Comment | What the code does |
|-|-|-|
| `memory_map_gaps` | memregion.rs:6, chunks outside every band are left unclassified | a region that resumes behind such a chunk covers it, and not the chunk that made it resume |
| `base_valid_array` | base_address.rs:35, an array fully resolving to POIs | for an array of 10 or more, a third of it is enough (in the run, of 4 or more, a half) |
| `base_alignment` | base_address.rs:94, the candidate base-address alignment; main.rs:34 takes any number | the alignment is used as a mask: bases need not be multiples of one that is no power of two |
| `uds_strings` | uds.rs:155, pointers to known strings are marked | the next pass retypes them by the region the string lies in |

The modules are written from the code, so they also show where the code is
narrower than a reader may expect, mostly because the original is: the empty
tree counts as one tested address (`base_address.rs:297`, the guard of
`PhantomOnlyWhenFresh`); base 0 of a 64-bit target gets no vote (394, the
exception in `VotesAreHits`); a base whose image ends at the top of the
address space has no pointers in range (268); the filter forgets votes (403);
the last pointer-sized word is never read (`endian_detect.rs:54`,
`base_address.rs:249`); array counts are steps, not values (163); above 4 GiB
of code no mask is tried (206, the guard of `FunctionsShareBase`); what breaks
a run of pointers, values or request IDs does not start the next
(`uds.rs:203, 359`, the slack in `RunsFound` and `ArraysAreRuns`, the word
"fenced" in `FencedRunsCount`); pointer arrays never reach the structure search
(`SortedListing`); a run of printable bytes at the end of the image is no string
(`poi.rs:187`, the word "terminated" in `StringsAreRuns`); addresses of known
symbols are compared as offsets into the image (258-259); a symbol file without a valid
line still counts as symbols, so functions are not searched for and, without
strings and arrays, there is nothing to search with; a fallback answer excludes no
base from the list of others (`MoreAreOthers` shows that it is in no such list).

## 4. Fairness and liveness

Only the refinement has liveness to speak of: `Settles` says the call returns
or panics. RefinePool assumes weak fairness of the caller and of each thread
(the operating system runs every runnable thread; threads take no locks), and
nothing about `SpawnFails`. RayonPool assumes weak fairness of the caller and of
the pool as a whole: no particular worker is owed a candidate. `refine_one`
itself terminates (its loops are over finite lists). The other analyses are
sequential loops over finite inputs; their modules state safety only.

## 5. Proofs

Checked with TLAPS for all values of the constants. Every invariant and every action
property of the passing runs is stated by a theorem.

**RefinePoolProofs**, assuming `MaxKept \in Nat` and `MaxThreads \in Nat \ {0}`:

* The safety properties are not inductive by themselves: `InOrder` needs to know
  what each thread's vector holds, `EachOnce` that chunks are handed out in order.
  `IInv` strengthens them with three ledgers: the slices partition `1..rest`
  (each starts where the one before ends), each vector is a prefix of the outcomes
  of its slice, and `results` is the concatenation of the joined slices. `InitIInv` and
  `NextIInv` show it inductive, one step per action.
* From it: `TypeCorrect`, `ResultsInOrder`, `NoThreadEscapes`,
  `ChunksPartition`. `ThreadBudget` needs a further invariant (the threads
  spawned so far times the chunk size never exceed the list by a whole chunk) and
  `CeilDivCovers`, the arithmetic of `div_ceil`.
* `ImplementsSequentialMap`: every behaviour of RefinePool satisfies the safety
  part of OrderedMap.

**RayonPoolProofs**, from the assumptions on the bounds: `PoolBudget` and
`ImplementsSequentialMap`. `IInv` adds to the types that each arrival carries the outcome of its candidate and what each phase knows of pool and results. Everything
else is counting: a candidate that is missing leaves room for it among the arrivals (`Room`,
by the pigeonhole theorem), so with all of them in nobody is busy and each index is
found (`AllArrived`).

**VoteCounterProofs**, from the assumptions on addresses and paths in
VoteCounter and VoteTable: types and node accounting are inductive together
(`Invariance`); `LeadersSurvivePrune` rests on `PeakVoteIsMax` (the maximum
vote is attained, by `BoundedHasMax`) and on halving never exceeding the peak;
`PhantomWhenFresh` follows from types alone plus what filter does to the root.

**CliProofs** proves every property of the run `binbloom`, for all arguments, files,
memory maps and bounds. It assumes of the constants (`CliAssumption`) that a 32-bit
address is `WordBytes` bytes and a 64-bit one twice as many, for any number and any size of
bytes (four bytes of 256 values in the code), that both sizes are powers of two, that each address has a
leaf of its own in the tree, that text bytes are not 0 and that ratios are
not taken by 0; of the arguments (`ArgumentsAssumption`) that a file holds bytes and text
tokens; and of the memory maps (`MapsAssumption`) that they are lists of regions, not that
these are disjoint or ordered. Each group below has the ones before it as hypotheses.

* `ControlInv` is the control of `run`: which mistakes are behind each place, and what was
  loaded when a search starts, and what a panic tells of them (`PanicsInUds`, `PanicsInSearch`).
  Hence `RunFailsOrAnswers`, by case on where the run ended.
* `ParserInv` says that the symbols are those of the lines before the remainder, whatever
  those lines were (`NextLine`, `ParseKeepsExact`). Hence `FileSymbolsExact`. It rests
  on `FromStrRadixIsAddress`: a number that is accepted is a 64-bit address, by
  induction along the digits.
* `ImageFacts` is what the stages may rely on (`ImageIsSound`): an image of at least one
  word, words below the largest pointer, an alignment that is an address.
* Strings. `StringsAreRuns` does not know what `begin` means: `RunInv` says that an open run is
  printable as far as it was read and starts where one can, and without one the byte before
  the cursor is not printable. `RunAtCursorIsOpen` is the key: a run that the current byte
  ends is the open one, so appending it, or not appending a short one, keeps the list
  complete. `StringsListedExactly` states this for `append_strings` by itself, on any
  list without strings to append to; `ListHoldsStrings` for the composition, where arrays and
  functions are appended to the same list (`ExtendKeepsStrings`).
* Arrays. `ScanInv` says that an open array is a run of close values that ends at the
  word read last, and that it was not opened late by more than a word; `ArraysFound` that every
  stretch that ended long enough ago is listed, `ArraysAscend` that no two overlap. The
  offsets are multiples of the pointer size, so word and byte positions determine each other
  (`DivBack`). Hence `ListHoldsArrays`.
* `FoundFunctionsShareBase`: `index_functions` takes an array for one of code pointers if its values
  agree above the bits that the code needs, so they have one base there and their low bits
  are where they point (`TargetsShareBase`). `FoldRegisters` follows them into the list.
* `VotesGoToHits`. The inductive invariant is the property itself (`Counted`): no base has more
  votes than there are pairs of a word and a point of interest that call for it, and while
  the tree has exactly the nodes of its addresses, that is until the pruning first drops a base, as
  many. `HitIsVote` shows that the code's test of a pair, on wrapping and masked numbers,
  is what such a pair is: by `FreeSpaceIs` the wrapping space above a base rejects none that
  fits, but for base 0 of a 64-bit target, and admits no other; for an alignment that is a power of two,
  by `MaskMeansMultiple` two values agree under its mask exactly if they differ by a multiple of it
  (the mask has the lower bits, `MaskBits`; numbers that agree in them leave the same rest,
  `LowerBits`, and then differ by a multiple, `RestsDiffer`). For another alignment the
  property says no more than that both agree under the mask. `VotesAreCast` counts one round of votes,
  by `RegisterCounts`; `PruneCounts` says that a pruning after which the node count is still right
  dropped nothing.
* `SearchInv`: the table holds votes of bases that fit, what was kept is the beginning
  of the sorted candidates (`Cut`), what was scored are the kept ones in that order,
  and the result is the one that verdict selects. `CandidatesSorted` (a sort by ranks is a sort:
  `RanksSort`, by counting those that come before) and `VotesArePrefix` (equal votes at the cut are kept or
  left together) give `PrimeSuspectIsFirst` and `CutIsAlwaysFair`; `TopFacts`, `VerdictIs`
  and `FirstInRank` give `VerdictAgreesWithRanking` and `ConfidenceIsEarned`.
* `MoreAreTheBestOthers` is about what is printed, so it holds once an answer is given and
  must survive from there (`AnswerStays`). `FirstAreBest`: the first of the others in
  the order of the ranking are the best; `PrintedWhole`: no base changes when
  printed with 32 bits, so none is listed under another's number.

**EndianDetectProofs**, for all images, pointer sizes, digit bases and pruning intervals
(`DetectorAssumption`: an address has `Slot` digits, pointers at most as many, and the
interval and the pointer multiple are not 0):

* `DescentNeverFails` and `PeaksNeverFall`. `DetectInv` says of both trees that they
  are not empty, that their addresses have only as many digits as a pointer and that no address has
  more votes than there were readings, besides the vote for address 0 that the tree starts with.
  `MaskedIsBelow` and `ReadingIsNumber` keep the first two, so the common leading zeros that
  `effective_root` descends through are those of every leaf (`DescentReachesAll`).
  `PruneKeepsPeak`: a pruning keeps the leaders, hence the peak.
* `ExactUntilPruned`. `ExactInv` says that up to the second pruning each tree is the
  histogram of what was read so far (`Histogram`): each prefix is there with its tally. The
  first pruning takes place after one reading, when the best has two votes at most, so nothing
  is below half of that (`FirstPruningLosesNothing`). The tallies of both orders then
  give the verdict that the detector gives.

**AddrTreeProofs**, for every radix, depth and set of addresses:

* `ShapeKept`. What is hard is the filter: which nodes stay is computed by a
  recursion over the levels. `SurvivorsVoted` shows that it has one solution: a node stays
  exactly if a leaf with enough votes stands below it, since a deepest node where two solutions
  differ would have a child where they differ. So what stays is closed upwards and every
  inner node that stays keeps a child. `IInv` adds to `Shape` that leaves other than the root are registered
  addresses.
* `TreeImplementsTable`: `RegisterAddress` and `FilterBelow` on nodes are the
  table's actions on addresses, by way of the votes of the full paths, of the root's
  own vote and of `nb_nodes`. Its hard part is the count of the nodes
  one registration allocates.
* `ObserversTellTheTable`: `max_vote`, `count_nodes` and `leaves` read off the tree what the table
  has. They are recursions over the children of a node. `TreeRecursion` shows that such a recursion
  has a solution, by repeating its step as often as the tree is deep; what the
  solution says of each node is then shown from the deepest counterexample up: the leaves below a node
  are listed in ascending order (`LeavesListed`, from `ListsJoin` and `BranchesOrdered`: digits compare
  like the addresses they make), its nodes add up (`BranchesAddUp`), and its peak is the largest
  vote below it (`PeaksFound`).

**MemoryMapProofs**, from `ChunkSize \in Nat \ {0}` and the types of the other
constants:

* `DisjointRegions`. `IInv` counts the open region as the last of the
  list (`Found`) and says that they are ordered and end below the chunk that is
  read next; `OrderedAppend` and `OrderedFront` take a region on and off the end of such a
  list. `WholeChunks` and `ChunkStep` are the arithmetic of the chunk count.
* `RunsAreMerged`. A region's size says how many chunks of its run are classified,
  not where they lie. `MInv` relates each region to the chunks from its first one to the
  next region's: all of its type or unclassified, as many classified as its size
  says; neighbours differ because the open region takes a chunk of its own type.
* `MapIsExactWithoutGaps`. Without unclassified chunks the regions tile what was
  read: `EInv` says that each begins where the one before ends.

**UdsFinderProofs** proves every property of the run `uds_find`, for every image
that fits the address space with room for one structure (`Fits`, the assumption
`InputsFit`), every set of request IDs without 0 and all bounds. The invariants follow the stages,
and each is proved with those before it as a hypothesis:

* `ImageInv`: the image stays what was loaded, its words are numbers that `read_as`
  returns. `Recursion` (a value computed in n steps exists) gives a meaning to the
  recursive function that adds up a word's bytes.
* `ListingInv` for `index_pointers`, the retypings, `index_pointer_arrays` and the merge.
  `PhaseInv`: a later stage has not begun. `PointersInv`: pointers ascend and stand at words
  that the scan found, whatever the retypings do to their types. `RunInv`: the open
  array is a run of adjoining pointers that ends at the one read last. `FoundInv`: adjoining
  pointers up to there are in the open run except perhaps the first of them, which is what the
  pointer that broke the run before costs, and what ended before is an array. `MergeInv`: the merged list
  has exactly the offsets inserted so far, each with the type that came first. Hence `LongRunsAreFound` and
  `ListingIsSorted`.
* `SearchInv` for `index_structure_arrays`: `minOffset` is the end of the last array, no
  array ends behind it, each begins at a pointer passed; `PassedCovered` says of the pointer
  passed last that it lies in an array if it repeats often enough. What a pointer's array
  covers is computed by the search over strides; `Repetitions` is a least or a last number, and
  its lemmas argue on the first stride or step that fails. Hence `ArraysAreDisjoint` and
  `SkipLosesNothing`.
* `ScanInv` for `identify_uds`: the open run holds distinct request IDs and begins where
  the last invalid or repeated byte ended (`OpenColumn`), no fenced run in a column that was read beats
  `best` (`ReadPart`), `best` stands in the image (`BestPart`), and the result is computed from it
  (`ResultPart`). Hence `NoFencedRunIsLonger`, `TableIsReal` and `LocationIsInImage`. The last needs the whole
  chain: the reported byte is a request ID, so it is not behind the end of the image, where
  bytes read as 0, and a pointer that the scan found without symbols lies at an offset
  that the base does not wrap.

Some definitions were put differently to be proved about, with the same meaning:

* `ReadAs` is a recursive function instead of a fold, the observers of AddrTree and
  the value of its digits likewise;
* powers are `Power` (Powers) instead of `^`, which the SMT backend does not have;
* `Sorted` (BaseAddress) gives each candidate its rank instead of calling a library sort;
* the arrays in a list are named by their places (`ArraysIn`) instead of filtered out of it;
* the set `SymbolPointers` is a union over the words.

Only model-checked:

* all liveness, and the liveness half of the two refinements by the pools (out of reach of
  the prover);
* the four divergences, which are violated properties.

Values of recursive functions on numbers and trees are within reach where an argument by a
least or a deepest counterexample does (`LeastMember`, by well-foundedness): this is how
the proofs above avoid the induction theorems. That such a function has a value at all is shown each
time by `Recursion`, for folds over finite sets by `FoldExists`.

The modules of proofs are independent of each other. Each proves the few facts on numbers and
recursion that it needs, so these are found in several of them.

## 6. Not modelled

* Entropy (floating point): MemoryMap takes the entropies of the chunks.
* What the command line prints beyond addresses, the list of other bases and
  the exit code: wording, logging, ratios, the table of handlers, and the C declaration
  of a UDS structure. `--help` and `--version`. The letter case of option values, and
  arguments clap itself refuses.
* In Cli, which regions and which byte order an image really has (any are
  allowed; MemoryMap and EndianDetect model how they come about) and whether a UDS
  search finds a table (UdsFinder models it).
* `PoiList::is_in`, which nothing calls, and the named architecture profiles
  nothing selects.
* The i32 overflow of vote counters and of string lengths: it takes 2^31 hits
  of one base or a string of 2 GiB.
* Panics of `refine_one`: its arithmetic wraps and its reads are padded, so the
  only panics modelled in the refinement are those of a thread or pool that cannot be
  started. To Cli the number of threads makes no other difference (RefinePool, RayonPool).
* In the verdict, what scores would be without wrapping (base_address.rs:500 wants the wrap), and in
  EndianDetect, how far the verdict after the second pruning is from that of exact counts.

## 7. Plan

1. Done: every component of the inventory that keeps state, each from the
   caller's input to its answer, composed into the two analyses and the command line.
2. Done: proofs of every invariant and action property that the runs check, of
   the safety half of both refinements by the pools and of the refinement by the radix tree.
3. Left: the compositions take the memory map and the byte order as any that the code could
   give. With MemoryMap and EndianDetect composed with Cli, what `MapsAssumption` says of regions
   would be proved instead of assumed. The liveness of the pools stays with TLC.
