------------------------------ MODULE MemoryMap ------------------------------
(***************************************************************************)
(* MemoryMap::analyze: one pass over the image in whole chunks, merging    *)
(* consecutive classified chunks of one type into a region.  The image is  *)
(* given by the entropy of each chunk, in hundredths, and the length of    *)
(* the partial chunk behind the last one.                                  *)
(***************************************************************************)
EXTENDS Regions, FiniteSets

CONSTANTS
  ChunkSize,   \* MEMORY_REGION_MIN_SIZE
  MaxChunks,   \* bound on the number of whole chunks
  Entropies    \* entropies a chunk may have, in hundredths

ASSUME ChunkAssumption ==
  /\ ChunkSize \in Nat \ {0} /\ MaxChunks \in Nat
  /\ Entropies \subseteq 0..100

VARIABLES
  entropy,     \* entropy[c]: of the c-th whole chunk
  length,      \* image length in bytes
  next,        \* chunks already scanned
  current,     \* open region, or None
  regions,     \* closed regions
  done

vars == <<entropy, length, next, current, regions, done>>

None == [offset |-> 0, size |-> 0, type |-> Unknown]

\* ArchInfo::default_profile: the bands are half open and leave out the top.
Classify(e) ==
  CASE e < 5              -> "UninitData"
    [] e >= 5 /\ e < 60   -> "InitData"
    [] e >= 60 /\ e < 90  -> "Code"
    [] OTHER              -> Unknown

Classified(c) == Classify(entropy[c]) # Unknown

Init ==
  /\ entropy \in UNION {[1..k -> Entropies] : k \in 0..MaxChunks}
  /\ length \in {Len(entropy) * ChunkSize + tail : tail \in 0..ChunkSize - 1}
  /\ next = 0
  /\ current = None
  /\ regions = <<>>
  /\ done = FALSE

NbSections == length \div ChunkSize

Opened == [offset |-> next * ChunkSize, size |-> ChunkSize,
           type |-> Classify(entropy[next + 1])]

AtChunk == ~done /\ next < NbSections

\* A chunk outside every band neither closes nor extends the open region.
SkipChunk ==
  /\ AtChunk
  /\ ~Classified(next + 1)
  /\ next' = next + 1
  /\ UNCHANGED <<entropy, length, current, regions, done>>

OpenRegion ==
  /\ AtChunk
  /\ Classified(next + 1)
  /\ current = None
  /\ current' = Opened
  /\ next' = next + 1
  /\ UNCHANGED <<entropy, length, regions, done>>

\* Mutant of ExtendRegion: the region grows up to the end of this chunk.
ExtendOverGap ==
  /\ AtChunk
  /\ Classified(next + 1)
  /\ current.type = Classify(entropy[next + 1])
  /\ current' = [current EXCEPT !.size = (next + 1) * ChunkSize - current.offset]
  /\ next' = next + 1
  /\ UNCHANGED <<entropy, length, regions, done>>

ExtendRegion ==
  /\ AtChunk
  /\ Classified(next + 1)
  /\ current.type = Classify(entropy[next + 1])
  /\ current' = [current EXCEPT !.size = @ + ChunkSize]
  /\ next' = next + 1
  /\ UNCHANGED <<entropy, length, regions, done>>

\* Mutant of SwitchRegion: the closing chunk is given to both regions.
SwitchSharing ==
  /\ AtChunk
  /\ Classified(next + 1)
  /\ current # None
  /\ current.type # Classify(entropy[next + 1])
  /\ regions' = Append(regions, [current EXCEPT !.size = @ + ChunkSize])
  /\ current' = Opened
  /\ next' = next + 1
  /\ UNCHANGED <<entropy, length, done>>

SwitchRegion ==
  /\ AtChunk
  /\ Classified(next + 1)
  /\ current # None
  /\ current.type # Classify(entropy[next + 1])
  /\ regions' = Append(regions, current)
  /\ current' = Opened
  /\ next' = next + 1
  /\ UNCHANGED <<entropy, length, done>>

\* Mutant of Finish: the open region is forgotten.
FinishDropping ==
  /\ ~done
  /\ next = NbSections
  /\ done' = TRUE
  /\ UNCHANGED <<entropy, length, next, current, regions>>

Finish ==
  /\ ~done
  /\ next = NbSections
  /\ regions' = IF current = None THEN regions ELSE Append(regions, current)
  /\ current' = None
  /\ done' = TRUE
  /\ UNCHANGED <<entropy, length, next>>

Terminated == done /\ UNCHANGED vars

Next ==
  \/ SkipChunk \/ OpenRegion \/ ExtendRegion \/ SwitchRegion \/ Finish
  \/ Terminated

Spec == Init /\ [][Next]_vars

-----------------------------------------------------------------------------

Region == [offset : Nat, size : Nat \ {0}, type : RegionType]

\* Types.  MemoryMap::analyze never stores a region of size 0.
TypeOK ==
  /\ next \in 0..Len(entropy)
  /\ current = None \/ current \in Region
  /\ regions \in Seq(Region)
  /\ done \in BOOLEAN

Found == IF current = None THEN regions ELSE Append(regions, current)

EndOf(r) == r.offset + r.size

\* Regions are ascending, disjoint and end inside the scanned whole chunks,
\* gaps or not: slicing data[start..start + size] cannot panic, and get_type
\* has at most one region to find.  Types included.
RegionsDisjoint ==
  /\ TypeOK
  /\ \A k \in DOMAIN Found : EndOf(Found[k]) <= next * ChunkSize
  /\ \A k, l \in DOMAIN Found : k < l => EndOf(Found[k]) <= Found[l].offset

\* A region is one run of classified chunks of its type, however many
\* unclassified ones lie in between: it starts at the first, and holds the
\* size of as many chunks as there are before the next region starts.
ChunksBetween(from, to) ==
  {c \in 1..next : (c - 1) * ChunkSize >= from /\ (c - 1) * ChunkSize < to /\ Classified(c)}

RunsMerged ==
  /\ \A k \in DOMAIN Found :
       LET until == IF k = Len(Found) THEN next * ChunkSize ELSE Found[k + 1].offset
           run   == ChunksBetween(Found[k].offset, until)
       IN  /\ \A c \in run : Classify(entropy[c]) = Found[k].type
           /\ Found[k].size = ChunkSize * Cardinality(run)
  /\ \A k \in DOMAIN Found \ {1} : Found[k].type # Found[k - 1].type
  /\ Found = <<>> => ChunksBetween(0, next * ChunkSize) = {}

\* On an image without unclassified chunks the map is exact: get_type answers
\* with the type of the chunk that holds the offset, and Unknown behind the
\* last whole chunk.
ExactWithoutGaps ==
  done /\ (\A c \in DOMAIN entropy : Classified(c)) =>
    \A offset \in 0..length :
      GetType(regions, offset) =
        IF offset < NbSections * ChunkSize
          THEN Classify(entropy[offset \div ChunkSize + 1]) ELSE Unknown

\* What memregion.rs:6 says of chunks outside every band: they are left
\* unclassified.  An offset in one then has no type.
GapsLeftUnclassified ==
  done => \A c \in DOMAIN entropy :
            ~Classified(c) => GetType(regions, (c - 1) * ChunkSize) = Unknown
=============================================================================
