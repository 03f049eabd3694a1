---------------------------- MODULE EndianDetect ----------------------------
(***************************************************************************)
(* EndiannessDetector::detect: read a pointer at every scanned offset both *)
(* ways, count the most significant bits of each reading in a vote tree    *)
(* per byte order, prune both trees now and then, and compare the peaks.   *)
(* An address slot has Slot digits in base ByteBase (8 bytes in the code). *)
(***************************************************************************)
EXTENDS VoteTable, PointerReader

CONSTANTS
  Slot,             \* digits of an address in the tree (8)
  PointerSizes,     \* pointer sizes, at most Slot (4 and 8)
  PointerMultiple,  \* pointers are multiples of this (4)
  CleanupInterval,  \* offsets between two prunings (0x10000)
  Bytes,            \* byte values of the images
  MaxLength         \* bound on the image length

ASSUME DetectorAssumption ==
  /\ {Slot, MaxLength} \subseteq Nat /\ PointerSizes \subseteq 1..Slot
  /\ ByteBase \in Nat \ {0} /\ Bytes \subseteq 0..ByteBase - 1
  /\ Addr = 0..Power(ByteBase, Slot) - 1
  /\ {PointerMultiple, CleanupInterval} \subseteq Nat \ {0}

VARIABLES
  image,    \* the bytes, from offset 0
  psize,    \* pointer size of the architecture
  offset,   \* next offset to scan
  le, be,   \* vote trees
  verdict   \* "none" until decided

vars == <<image, psize, offset, le, be, verdict>>

Length == Cardinality(DOMAIN image)

\* Both trees start with a vote for address 0.
Init ==
  /\ image \in UNION {[0..k - 1 -> Bytes] : k \in 0..MaxLength}
  /\ psize \in PointerSizes
  /\ offset = 0
  /\ le = Register(Empty, 0)
  /\ be = Register(Empty, 0)
  /\ verdict = "none"

Reading(order) == ReadAs(image, psize, order, offset)

\* floor(log2(size)) - 1 low bits are cleared.
MaskedBits ==
  (CHOOSE n \in 0..Length : Power(2, n) <= Length /\ Length < Power(2, n + 1)) - 1
Shift == Max({0, MaskedBits})
Masked(v) == v - (v % Power(2, Shift))

LooksLikePointer(v) == v # 0 /\ v % PointerMultiple = 0

Counted(t, v) == IF LooksLikePointer(v) THEN Register(t, Masked(v)) ELSE t

PrunedAbovePeak(t) == Filter(t, PeakVote(t) + 1)
CleanedAway(t) ==    \* mutant of Cleaned
  IF offset % CleanupInterval = 0 THEN PrunedAbovePeak(t) ELSE t

Cleaned(t) == IF offset % CleanupInterval = 0 THEN Prune(t) ELSE t

ScanEnd == Length - psize

TooSmall ==
  /\ verdict = "none"
  /\ Length <= psize
  /\ verdict' = "Little"
  /\ UNCHANGED <<image, psize, offset, le, be>>

Scan ==
  /\ verdict = "none"
  /\ Length > psize
  /\ offset < ScanEnd
  /\ le' = Cleaned(Counted(le, Reading("Little")))
  /\ be' = Cleaned(Counted(be, Reading("Big")))
  /\ offset' = offset + 1
  /\ UNCHANGED <<image, psize, verdict>>

\* Addresses below the node that is child 0 of child 0 .. of the root, as many
\* levels down as the slot is wider than a pointer.
UnderEffectiveRoot(t) == {a \in Live(t) : a < Power(ByteBase, psize)}

\* peak_vote: best among the children of that node, 0 if it does not exist.
TreePeak(t) == Max({0} \cup {t.votes[a] : a \in UnderEffectiveRoot(t)})

PreferBig(bePeak, lePeak) == bePeak >= lePeak    \* mutant of Wins
Wins(bePeak, lePeak) == bePeak > lePeak

Decide ==
  /\ verdict = "none"
  /\ Length > psize
  /\ offset = ScanEnd
  /\ verdict' = IF Wins(TreePeak(be), TreePeak(le)) THEN "Big" ELSE "Little"
  /\ UNCHANGED <<image, psize, offset, le, be>>

Terminated == verdict # "none" /\ UNCHANGED vars

Next == TooSmall \/ Scan \/ Decide \/ Terminated

Spec == Init /\ [][Next]_vars

-----------------------------------------------------------------------------

\* Types. The scan of detect never leaves the offsets whose pointer is whole.
TypeOK ==
  /\ offset \in 0..Max({0, Length - psize})
  /\ \A t \in {le, be} :
       /\ Live(t) \subseteq Addr
       /\ \A a \in Live(t) : t.votes[a] \in 1..MaxLength + 1
  /\ verdict \in {"none", "Little", "Big"}

\* The descent of effective_root never falls off the tree, although pruning
\* may drop the address 0 that was registered to make it safe.  Types included.
RootReachable ==
  /\ TypeOK
  /\ \A t \in {le, be} : UnderEffectiveRoot(t) # {} /\ UnderEffectiveRoot(t) = Live(t)

\* Neither counting nor pruning ever lowers the peak the verdict is taken from.
PeaksGrow == [][TreePeak(le') >= TreePeak(le) /\ TreePeak(be') >= TreePeak(be)]_vars

\* Votes by prefix for the first scanned offsets, straight from the image.
Readings(order, prefix, end) ==
  {at \in 0..end - 1 : LET v == ReadAs(image, psize, order, at)
                       IN  LooksLikePointer(v) /\ Masked(v) = prefix}
Tally(order, prefix, end) ==
  Cardinality(Readings(order, prefix, end)) + IF prefix = 0 THEN 1 ELSE 0

SeenPrefixes(order, end) ==
  {0} \cup {Masked(ReadAs(image, psize, order, at)) : at \in 0..end - 1}
TrueVerdict(end) ==
  LET peak(order) == Max({Tally(order, p, end) : p \in SeenPrefixes(order, end)})
  IN  IF peak("Big") > peak("Little") THEN "Big" ELSE "Little"

\* Until the second pruning the trees are exact histograms of the readings:
\* the pruning at offset 0 loses nothing.  A verdict given by then is that of all
\* whole pointers but the last, which detect does not read.
ExactBeforeSecondPruning ==
  offset <= CleanupInterval =>
    /\ \A p \in Live(le) : le.votes[p] = Tally("Little", p, offset)
    /\ \A p \in Live(be) : be.votes[p] = Tally("Big", p, offset)
    /\ verdict # "none" /\ Length > psize => verdict = TrueVerdict(Length - psize)
=============================================================================
