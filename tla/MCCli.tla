------------------------------- MODULE MCCli -------------------------------
(***************************************************************************)
(* A scaled-down program: bytes have 16 values, a 32-bit pointer is one    *)
(* byte and a 64-bit one two; 2^32 is 16 and 2^64 is 256.  Only 5 is       *)
(* printable, and 6 taken for text as well.  Seven families of arguments:  *)
(* options, symbol files, and images with strings, with arrays of code     *)
(* pointers, with arrays of pointers to strings, with many votes, and with *)
(* pointers to known symbols.                                              *)
(***************************************************************************)
EXTENDS Cli, SequencesExt

Addresses == 0..255
DigitPath == [a \in Addresses |-> {<<1, a \div 16>>, <<2, a>>}]

Region(o, n, t) == [offset |-> o, size |-> n, type |-> t]

MemoryMaps ==
  {<<>>,
   <<Region(0, 4, "Code"), Region(4, 4, "InitData")>>,
   <<Region(0, 6, "Code"), Region(6, 6, "InitData")>>,
   <<Region(0, 2, "InitData"), Region(2, 2, "UninitData")>>}

Bytes(w) == [k \in 0..Len(w) - 1 |-> w[k + 1]]
\* Words of two bytes, byte number low (0 or 1) of each the low one.
Words(w, low) ==
  [k \in 0..2 * Len(w) - 1 |->
     IF k % 2 = low THEN w[k \div 2 + 1] % 16 ELSE w[k \div 2 + 1] \div 16]

Image(content) == [readable |-> TRUE, content |-> content]
Unreadable == [readable |-> FALSE, content |-> Bytes(<<>>)]
SymbolFile(text) == [readable |-> TRUE, text |-> text]
NoFile == [readable |-> FALSE, text |-> <<>>]

Default ==
  [arch |-> "32", endian |-> <<>>, align |-> <<>>, base |-> <<>>, functions |-> <<>>,
   deep |-> FALSE, ptrAligned |-> FALSE, threads |-> 1, file |-> Image(Bytes(<<0>>))]

Options ==
  {[Default EXCEPT !.arch = a, !.endian = e, !.align = m, !.base = b, !.functions = f,
                   !.file = Image(c)] :
     a \in {"32", "64", "16"}, e \in {<<>>, <<"be">>, <<"xe">>},
     m \in {<<>>, <<<<"3">>>>, <<<<"0x">>>>, <<<<"2", "5", "6">>>>},
     b \in {<<>>, <<<<" ", "0X", "f", "f">>>>, <<<<"f">>>>, <<<<"0x", "+", "1">>>>},
     f \in {<<>>, <<NoFile>>, <<SymbolFile(<<"0x", "1", " ", "\n">>)>>},
     c \in {Bytes(<<>>), Bytes(<<5>>), Bytes(<<5, 5, 0, 1>>)}}
  \cup {[Default EXCEPT !.file = Unreadable]}

Lines ==
  {<<>>, <<"0x", "1", " ">>, <<"0x", "1", " ", "g">>, <<"0x", "1">>, <<"0X", "1", " ">>,
   <<"0X", "2", " ", "0x", "3", " ">>, <<"g", "0x", " ">>, <<"0x", "1", "0", "0", " ">>,
   <<"0x", "+", "2", " ">>, <<"0x", "g", " ", "0x", "1", " ">>}

SymbolFiles ==
  {[Default EXCEPT !.functions = <<SymbolFile(a \o <<"\n">> \o b \o <<"\n">> \o c)>>] :
     a \in Lines, b \in Lines, c \in Lines}

StringImage(v, w) == Image(Bytes(<<5, 5, v, 5, 5>> \o w \o <<0>>))

WithStrings ==
  {[Default EXCEPT !.file = StringImage(v, w), !.align = m, !.deep = (m # <<>>)] :
     v \in {0, 7}, w \in [1..3 -> {4, 5, 7, 9}], m \in {<<>>, <<<<"1">>>>, <<<<"3">>>>}} \cup
  {[Default EXCEPT !.file = StringImage(0, w)] : w \in [1..4 -> {4, 5, 7}]}

WideImage(w) ==
  [Default EXCEPT !.arch = "64", !.endian = <<"le">>, !.file = Image(Words(w, 0))]

\* One array, or two.
CodePointers ==
  {WideImage(<<0>> \o w \o <<0>>) :
     w \in [1..5 -> {64, 66, 68, 80}] \cup [1..4 -> {0, 64, 66, 80}]} \cup
  {WideImage(v \o <<70>> \o w \o <<70, 0>>) : v, w \in [1..3 -> {64, 66}]}

\* Two strings (85), at 0 and 4, and an array of pointers to them under
\* base 64, or to 2 where there is none: arrays that resolve in part.
StringPointers ==
  {[WideImage(<<85, 0, 85, 0>> \o w \o <<70, 0>>) EXCEPT !.threads = 0] :
     w \in [1..5 -> {64, 66, 68}]}

\* Enough votes for several bases to be cut off, and threads for the rest.
Crowded ==
  {[WideImage(<<85, 0, 85, 0>> \o w) EXCEPT !.threads = 2] : w \in [1..5 -> {64, 68, 72}]}

TwoSymbols == SymbolFile(<<"0x", "2", " ", "\n", "0x", "5", " ", "\n">>)

WithSymbols ==
  {[Default EXCEPT !.arch = "64", !.endian = <<"be">>, !.ptrAligned = p,
                   !.functions = <<TwoSymbols>>, !.file = Image(Words(w, 1))] :
     w \in [1..4 -> {0, 66, 69, 85}], p \in BOOLEAN}

AllArguments ==
  Options \cup SymbolFiles
  \cup WithStrings \cup CodePointers \cup StringPointers \cup Crowded \cup WithSymbols
=============================================================================
