--------------------------------- MODULE Cli ---------------------------------
(***************************************************************************)
(* Cli::run from the arguments to the exit code, step by step, with the    *)
(* symbol file and the base address search it drives.  An option is a      *)
(* sequence: empty if it is not given.  How a UDS search ends is left open *)
(* here: module UdsFinder models it.                                       *)
(***************************************************************************)
EXTENDS Firmware, TLC

CONSTANTS
  DefaultAlign,   \* Firmware::DEFAULT_ALIGNMENT (0x1000)
  MoreMax,        \* 30, length of the list of other bases
  WordBytes,      \* bytes of a 32-bit pointer (4)
  Arguments,      \* [arch, endian, align, base, functions, deep, ptrAligned, threads, file]
  Maps            \* memory maps

ASSUME CliAssumption ==
  /\ ByteBase \in Nat \ {0, 1} /\ WordBytes \in Nat \ {0}
  /\ WordMod = Finder!Power(ByteBase, WordBytes)
  /\ AddrMod = Finder!Power(ByteBase, 2 * WordBytes)
  /\ {AddrBits, TopBit} \subseteq Nat
  /\ WordMod = Finder!Power(2, TopBit + 1) /\ AddrMod = Finder!Power(2, AddrBits)
  /\ Addr = 0..AddrMod - 1
  /\ \A a \in Addr :    \* the leaf of an address is on no other's path
       IsFiniteSet(Path[a]) /\ \E leaf \in Path[a] : \A b \in Addr \ {a} : leaf \notin Path[b]
  /\ Printable \subseteq AsciiBytes /\ AsciiBytes \subseteq 1..ByteBase - 1
  /\ {KeepTarget, ValidDiv} \subseteq Nat \ {0}
  /\ {StringMin, MaxStep, ArrayMin, ValidMin, NodeBytes, MaxMem, MoreMax} \subseteq Nat
  /\ DefaultAlign \in Addr

\* A file holds bytes, and text is a sequence of tokens (see Numbers).
WellFormed(a) ==
  /\ {a.align, a.base} \subseteq Seq(Seq(STRING))
  /\ a.functions \in Seq([readable : BOOLEAN, text : Seq(STRING)])
  /\ {a.deep, a.ptrAligned, a.file.readable} \subseteq BOOLEAN
  /\ a.threads \in Nat
  /\ IsFiniteSet(DOMAIN a.file.content)
  /\ a.file.content \in [0..Cardinality(DOMAIN a.file.content) - 1 -> 0..ByteBase - 1]

ASSUME ArgumentsAssumption == \A a \in Arguments : WellFormed(a)

ASSUME MapsAssumption ==
  Maps \subseteq Seq([offset : Nat, size : Nat, type : Arrays!RegionType])

VARIABLES
  args,     \* the arguments, and what the files they name hold
  exit,     \* "running", then how the program ended
  answer,   \* what is printed, or NoAnswer
  rest, symbols, added

program == <<args, exit, answer>>
parser == <<rest, symbols, added>>
finder == <<list, strings, arrays, search>>
vars == <<program, pc, parser, input, finder>>

Parser == INSTANCE Symbols WITH text <- args.functions[1].text

NoAnswer == [mode |-> "none"]

Init ==
  /\ args \in Arguments
  /\ pc = "options" /\ exit = "running" /\ answer = NoAnswer
  /\ Parser!Init
  /\ input = [symbols |-> FALSE] /\ list = <<>>
  /\ LibraryInit

-----------------------------------------------------------------------------
\* Options.

Given(option) == option # <<>>

\* Arch::pointer_size: a 64-bit pointer is two 32-bit ones long.
PointerSize ==
  [arch \in {"32", "64"} |-> IF arch = "32" THEN WordBytes ELSE 2 * WordBytes]
Order == [le |-> "Little", be |-> "Big"]

Unparsable(number) == Given(number) /\ Parser!ParseNumber(number[1]) = Parser!Invalid

BadOptions ==
  \/ args.arch \notin DOMAIN PointerSize
  \/ Given(args.endian) /\ args.endian[1] \notin DOMAIN Order
  \/ Unparsable(args.align)

Fail == exit' = "FAILURE" /\ pc' = "exit" /\ UNCHANGED <<args, answer>>

RefuseOptions ==
  /\ pc = "options"
  /\ BadOptions
  /\ Fail
  /\ UNCHANGED <<parser, input, finder>>

Align == IF Given(args.align) THEN Parser!ParseNumber(args.align[1]) ELSE DefaultAlign
PSize == PointerSize[args.arch]

TooSmall == ~args.file.readable \/ Cardinality(DOMAIN args.file.content) < PSize

\* Firmware::read or from_reader, then the with_ setters.
Load ==
  /\ pc = "options"
  /\ ~BadOptions /\ ~TooSmall
  /\ input' = [content |-> args.file.content, psize |-> PSize,
               length |-> Cardinality(DOMAIN args.file.content), align |-> Align,
               deep |-> args.deep, ptrAligned |-> args.ptrAligned,
               threads |-> IF args.threads < 1 THEN 1 ELSE args.threads,
               symbols |-> Given(args.functions),
               words |-> <<>>, regions |-> <<>>]    \* until the search starts
  /\ pc' = IF Given(args.functions) THEN "symbols" ELSE "mode"
  /\ UNCHANGED <<program, parser, finder>>

RefuseFile ==
  /\ pc = "options"
  /\ ~BadOptions /\ TooSmall
  /\ Fail
  /\ UNCHANGED <<parser, input, finder>>

LoadSymbols ==
  /\ pc = "symbols"
  /\ args.functions[1].readable
  /\ UNCHANGED <<program, pc, input, finder>>
  /\ Parser!Next

SymbolsLoaded ==
  /\ pc = "symbols"
  /\ args.functions[1].readable
  /\ ~Parser!AtLine
  /\ pc' = "mode"
  /\ UNCHANGED <<program, parser, input, finder>>

RefuseSymbols ==
  /\ pc = "symbols"
  /\ ~args.functions[1].readable
  /\ Fail
  /\ UNCHANGED <<parser, input, finder>>

-----------------------------------------------------------------------------
\* Two modes.

BadBaseSearched == FALSE    \* mutant of BadBase
BadBase == Unparsable(args.base)

RefuseBase ==
  /\ pc = "mode"
  /\ BadBase
  /\ Fail
  /\ UNCHANGED <<parser, input, finder>>

FindUds ==
  /\ pc = "mode"
  /\ Given(args.base) /\ ~BadBase
  /\ \E found \in BOOLEAN :
       answer' = [mode |-> "uds", base |-> Parser!ParseNumber(args.base[1]), found |-> found]
  /\ exit' = "SUCCESS" /\ pc' = "exit"
  /\ UNCHANGED <<args, parser, input, finder>>

\* The address of a table found near the top of the address space overflows in a
\* debug build (UdsIdentify), which takes pointers to known symbols (UdsFinder).
FindUdsPanics ==
  /\ pc = "mode"
  /\ Given(args.base) /\ ~BadBase
  /\ symbols # <<>>
  /\ Parser!ParseNumber(args.base[1]) + input.length > AddrMod
  /\ exit' = "PANIC" /\ pc' = "exit"
  /\ UNCHANGED <<args, answer, parser, input, finder>>

\* memory_map and resolve_endianness: any regions inside the image; the byte
\* order of the user or, without one, either (see MemoryMap, EndianDetect).
Orders == IF Given(args.endian) THEN {Order[args.endian[1]]} ELSE {"Little", "Big"}

Inside(map) == \A k \in DOMAIN map : map[k].offset + map[k].size <= input.length

StartSearch ==
  /\ pc = "mode"
  /\ ~Given(args.base)
  /\ \E order \in Orders, map \in {m \in Maps : Inside(m)} :
       input' = [input EXCEPT !.words = Finder!WordsOf(input.content, input.psize, order),
                              !.regions = map]
  /\ list' = symbols
  /\ pc' = "populating"
  /\ UNCHANGED <<program, parser, strings, arrays, search>>

SearchBaseAddress == FindBaseAddress /\ UNCHANGED <<program, parser>>

\* 32-bit addresses are printed as 32 bits.
Hex(a) == IF args.arch = "32" THEN a % WordMod ELSE a

Worth(c) == c.address \notin result.exclude /\ c.score > 0

WorthAt == {k \in DOMAIN result.candidates : Worth(result.candidates[k])}

\* The first MoreMax of some places in the list of candidates.
FirstOf(places) ==
  LET order == Finder!Sorted(places, LAMBDA k, l : k < l)
  IN  [k \in 1..Finder!Min({Cardinality(places), MoreMax}) |->
         result.candidates[order[k]]]

MoreOfFirst == FirstOf(WorthAt \cap 1..MoreMax)    \* mutant of More
More == FirstOf(WorthAt)

PrintBaseAddress ==
  /\ pc = "done"
  /\ answer' = [mode |-> "base", base |-> Hex(result.base), confident |-> result.confident,
                more |-> [k \in DOMAIN More |-> Hex(More[k].address)]]
  /\ exit' = "SUCCESS" /\ pc' = "exit"
  /\ UNCHANGED <<args, parser, input, finder>>

\* A panic of the search leaves run, which catches none, with nothing printed.
Unwind ==
  /\ pc = "panicked"
  /\ exit' = "PANIC" /\ pc' = "exit"
  /\ UNCHANGED <<args, answer, parser, input, finder>>

NoPointsOfInterest ==
  /\ pc = "refused"
  /\ Fail
  /\ UNCHANGED <<parser, input, finder>>

Terminated == pc = "exit" /\ UNCHANGED vars

Next ==
  \/ RefuseOptions \/ RefuseFile \/ Load
  \/ LoadSymbols \/ SymbolsLoaded \/ RefuseSymbols
  \/ RefuseBase \/ FindUds \/ FindUdsPanics \/ StartSearch
  \/ SearchBaseAddress \/ PrintBaseAddress \/ NoPointsOfInterest \/ Unwind
  \/ Terminated

Spec == Init /\ [][Next]_vars

-----------------------------------------------------------------------------
\* The stages, each from what the one before it produced.  (Before the search
\* input lacks what the search is about.)

Searching == pc \in {"populating", "voting", "ranking", "refining", "selecting", "done"}

\* parse_into: the symbol list is that of the well-formed lines.
SymbolsExact == pc = "symbols" => Parser!SymbolsExact

\* append_strings: the strings are the terminated printable runs.
StringsAreRuns == Searching => Strings!StringsAreRuns

\* append_value_arrays: arrays are runs of close values, none is missed.
ArraysAreRuns == Searching => Arrays!ArraysAreRuns

\* index_functions: the functions found are code under one base.
FunctionsShareBase ==
  pc = "voting" /\ ~input.symbols => Arrays!FunctionsShareBase

\* vote_candidates: a base has the votes of its hits, until some are dropped.
VotesAreHits == Searching => Finder!VotesAreHits

\* compute_candidates: the base with most votes is scored, and first.
PrimeSuspectRefined == Finder!PrimeSuspectRefined

\* kept_count: the cut drops whole classes of votes, and not too many.
CutIsFair == Searching => Finder!CutIsFair

\* compute_candidates: the verdict and the ranking agree.
ScoreDecides == Finder!ScoreDecides

\* compute_candidates: a confident answer leads or has the only valid array.
ConfidenceEarned == Finder!ConfidenceEarned

\* run ends with FAILURE exactly if an argument is of no use or there is
\* nothing to search with.  A base that does not parse, which run looks at
\* last, is of no use: it neither starts the base address search nor is taken
\* for a base.  Otherwise it answers in the mode of the arguments, unless it
\* panics: in a UDS search with symbols if the image wraps around the top of
\* the address space, in a base address search if there are threads to spawn.
FailsOrAnswers ==
  pc = "exit" =>
    LET unusable ==
          \/ args.arch \notin {"32", "64"}
          \/ Given(args.endian) /\ args.endian[1] \notin {"le", "be"}
          \/ \E number \in {args.align, args.base} :
               Given(number) /\ Parser!ParseNumber(number[1]) \notin Addr
          \/ ~args.file.readable
          \/ Cardinality(DOMAIN args.file.content) <
               IF args.arch = "32" THEN WordBytes ELSE 2 * WordBytes
          \/ Given(args.functions) /\ ~args.functions[1].readable
        wraps ==
          Parser!ParseNumber(args.base[1]) + Cardinality(DOMAIN args.file.content) > AddrMod
    IN  /\ exit \in {"SUCCESS", "FAILURE", "PANIC"}
        /\ exit = "FAILURE" <=> unusable \/ (~Given(args.base) /\ list = <<>>)
        /\ exit = "PANIC" => IF Given(args.base) THEN symbols # <<>> /\ wraps
                             ELSE args.threads > 1 /\ Len(kept) > 1
        /\ answer.mode = IF exit # "SUCCESS" THEN "none"
                         ELSE IF Given(args.base) THEN "uds" ELSE "base"

\* "More base addresses to consider" are the best of the others: up to 30
\* refined bases that scored, none of them twice or the announced one, and none
\* outscored by one that is left out.  Printing 32 bits changes no address.
MoreAreOthers ==
  answer.mode = "base" =>
    LET others == {c \in {result.candidates[k] : k \in DOMAIN result.candidates} :
                     c.score > 0 /\ c.address # result.base}
        listed == {c \in others : \E k \in DOMAIN answer.more : answer.more[k] = c.address}
    IN  /\ answer.base = result.base
        /\ Len(answer.more) = Cardinality(listed)
        /\ Len(answer.more) = MoreMax \/ listed = others
        /\ Len(answer.more) <= MoreMax
        /\ \A c \in listed, d \in others \ listed : c.score >= d.score

-----------------------------------------------------------------------------
\* base_address.rs:35: a valid array resolves fully.
ValidArrayResolves == Searching => Finder!ValidArrayResolves

\* base_address.rs:94: candidate bases are aligned.
BasesAligned == Searching => Finder!BasesAligned
=============================================================================
