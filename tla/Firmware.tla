------------------------------ MODULE Firmware ------------------------------
(***************************************************************************)
(* Firmware::find_base_address from the image to the verdict: strings and  *)
(* value arrays are appended to a list that starts empty or with the       *)
(* user's symbols, functions are looked for if there are no symbols, and   *)
(* the base is searched for with the list that results.                    *)
(***************************************************************************)
EXTENDS Integers, Sequences, FiniteSets

CONSTANTS
  Addr, Path, ByteBase, AddrBits, AddrMod, WordMod,
  Printable, AsciiBytes, StringMin,
  MaxStep, ArrayMin, TopBit,
  KeepTarget, ValidMin, ValidDiv, NodeBytes, MaxMem

VARIABLES
  input,    \* the image and the options, from the caller
  list,     \* the POI list
  pc,       \* "populating", then that of BaseAddress
  cursor, begin,
  next, inArray, start, count, prev,
  voted, table, kept, scored, result

strings == <<cursor, begin>>
arrays == <<next, inArray, start, count, prev>>
search == <<voted, table, kept, scored, result>>

Strings == INSTANCE StringIndex WITH content <- input.content
Arrays == INSTANCE PoiIndex
Finder == INSTANCE BaseAddress

\* The caller sets input, list and, to start, pc.
LibraryInit == Strings!Init /\ Arrays!Init /\ Finder!Init

Populating == pc = "populating"

AppendStrings ==
  /\ Populating
  /\ UNCHANGED <<input, pc, arrays, search>>
  /\ Strings!Next

AppendValueArrays ==
  /\ Populating
  /\ ~Strings!AtByte
  /\ Arrays!Next
  /\ UNCHANGED <<pc, strings, search>>

\* The list with symbols is both the one voted for and the known symbols.
IndexFunctions ==
  /\ Populating
  /\ ~Strings!AtByte /\ ~Arrays!AtWord
  /\ list' = IF input.symbols THEN list ELSE Arrays!WithFunctions(list)
  /\ pc' = "voting"
  /\ UNCHANGED <<input, strings, arrays, search>>

ComputeCandidates == Finder!Next /\ UNCHANGED <<strings, arrays>>

FindBaseAddress ==
  AppendStrings \/ AppendValueArrays \/ IndexFunctions \/ ComputeCandidates
=============================================================================
