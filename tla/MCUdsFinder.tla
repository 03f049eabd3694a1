---------------------------- MODULE MCUdsFinder ----------------------------
(***************************************************************************)
(* Images of 2-byte words, a byte being an octal digit and 3 the one that  *)
(* is printable; addresses are below 64.  At base 16 a word is 0, a        *)
(* pointer at code (16, where a string starts as well), at data (20), at a *)
(* string (32), or at uninitialized data (34), which only a symbol makes a *)
(* pointer; other words are a string (27) or not (8).  The first family of *)
(* images varies the pointers, the second their repetition, the third the  *)
(* values next to five repeated pointers.  Two pointer arrays or two       *)
(* structure arrays fit, and the last structure of some images reaches     *)
(* past their end.  The last family has the base so close to 64 that the   *)
(* image, or the table in it, fits below or not.                           *)
(***************************************************************************)
EXTENDS UdsFinder

Region(o, n, t) == [offset |-> o, size |-> n, type |-> t]

Classified == <<Region(0, 2, "Code"), Region(2, 16, "InitData")>>
WithGap ==
  <<Region(0, 2, "Code"), Region(2, 12, "InitData"), Region(18, 2, "UninitData")>>

FunctionAt(o) == [type |-> "Function", offset |-> o, count |-> 1]
FunctionSymbols == <<FunctionAt(0), FunctionAt(4), FunctionAt(16), FunctionAt(18)>>

\* The bytes of n words: those of w, and a string at word 0 and at word 8.
Content(w, n) ==
  LET text == 0 :> 27 @@ 8 :> 27 @@ [i \in 0..n - 1 |-> 8]
  IN  [b \in 0..2 * n - 1 |-> ((w @@ text)[b \div 2] \div ByteBase^(b % 2)) % ByteBase]

Image(w, n, base, regions, symbols) ==
  [content |-> Content(w, n), psize |-> 2, order |-> "Little", base |-> base,
   regions |-> regions, symbols |-> symbols # {},
   pois |-> SelectSeq(FunctionSymbols, LAMBDA f : f.offset \in symbols)]

\* Two pointers at the end end the run before.
FivePointers(values) == {w @@ 6 :> 20 @@ 7 :> 16 : w \in [1..5 -> values]}

Pointers ==
  {Image(w, 10, 16, map, {}) :
     w \in FivePointers({0, 16, 20, 32}), map \in {Classified, WithGap}} \cup
  {Image(w, 10, 16, WithGap, {0, 16, 18}) : w \in FivePointers({0, 16, 32, 34})}

Repeated == {Image(w, 10, 16, WithGap, {}) : w \in [2..8 -> {0, 16, 20}]}

Rows(pointer, w) ==
  [i \in 1..10 |-> IF i % 2 = 1 THEN pointer ELSE w[i \div 2]]

Tables ==
  {Image(Rows(20, w), n, 16, WithGap, {}) : w \in [1..5 -> {0, 1, 5, 7}], n \in {11, 12}}

NearTop ==
  {Image(Rows((base + 4) % AddrMod, w), 11, base, WithGap, symbols) :
     w \in [1..5 -> {0, 1}], base \in {41, 42, 50, 62}, symbols \in {{}, {4}}}

AllInputs == Pointers \cup Repeated \cup Tables \cup NearTop
=============================================================================
