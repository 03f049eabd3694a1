---------------------------- MODULE PointerScan ----------------------------
(***************************************************************************)
(* BaseAddressFinder::index_poi_pointers, which both the scoring of a base *)
(* (refine_one) and the UDS search (UdsFinder::index_pointers) call: the   *)
(* words of the image that look like pointers under a given base.          *)
(*                                                                         *)
(* An image is a record with its words (see PointerReader), the pointer    *)
(* size psize, its length in bytes and its regions.  With symbols TRUE a   *)
(* list of POIs serves as known symbols.                                   *)
(***************************************************************************)
EXTENDS Regions, FiniteSets

CONSTANT AddrMod    \* 2^64, whatever the pointer size

Sub(a, b) == (a - b) % AddrMod
Plus(a, b) == (a + b) % AddrMod

\* The scan stops one word short when the length is a multiple of the pointer
\* size.
Scanned(image) ==
  {k \in DOMAIN image.words : k * image.psize < image.length - image.psize}

DataWords(image) ==
  {k \in Scanned(image) : GetType(image.regions, k * image.psize) # "Code"}

Pointer(k, symbol, type) == [at |-> k, symbol |-> symbol, type |-> type]

\* With symbols: one entry per function symbol the word points at.
SymbolPointers(image, symbols, base) ==
  UNION {{Pointer(k, s, "FunctionPointer") :
            s \in {s \in DOMAIN symbols :
                    /\ symbols[s].type = "Function"
                    /\ Sub(image.words[k], base) = symbols[s].offset}} :
         k \in DataWords(image)}

InRangeUnwrapped(image, v, base) ==    \* mutant of InRange
  v >= base /\ v < base + image.length

InRange(image, v, base) == v >= base /\ v < Plus(base, image.length)

TargetType(image, k, base) == GetType(image.regions, Sub(image.words[k], base))

PlausiblePointers(image, base) ==
  {Pointer(k, 0, IF TargetType(image, k, base) = "Code"
                   THEN "FunctionPointer" ELSE "GenericPointer") :
     k \in {k \in DataWords(image) :
              /\ InRange(image, image.words[k], base)
              /\ image.words[k] # 0
              /\ TargetType(image, k, base) \notin {Unknown, "UninitData"}}}

IndexPoiPointers(image, symbols, base) ==
  IF image.symbols THEN SymbolPointers(image, symbols, base)
  ELSE PlausiblePointers(image, base)
=============================================================================
