------------------------------- MODULE Symbols -------------------------------
(***************************************************************************)
(* SymbolFile::parse_into: the lines of a text one by one, each adding the *)
(* function address it names unless a POI stands there already.            *)
(***************************************************************************)
EXTENDS Numbers

VARIABLES
  text,       \* tokens of the file (see Numbers), "\n" ending a line
  rest,       \* tokens consumed
  symbols,    \* POI list
  added       \* addresses added

vars == <<text, rest, symbols, added>>

\* text is the caller's.
Init == rest = 0 /\ symbols = <<>> /\ added = 0

-----------------------------------------------------------------------------

Find(line, token) == SelectInSeq(line, LAMBDA t : t = token)

EitherPrefix(line) ==    \* mutant of Prefix: the first prefix of either case
  SelectInSeq(line, LAMBDA t : t \in {"0x", "0X"})

\* An upper-case prefix counts only in a line without a lower-case one.
Prefix(line) == IF Find(line, "0x") > 0 THEN Find(line, "0x") ELSE Find(line, "0X")

\* The number runs from the prefix to the first space behind it.
ParseLine(line) ==
  LET behind == SubSeq(line, Prefix(line) + 1, Len(line))
  IN  IF Prefix(line) = 0 \/ Find(behind, " ") = 0 THEN Invalid
      ELSE FromStrRadix(16, SubSeq(behind, 1, Find(behind, " ") - 1))

Function(address) == [type |-> "Function", offset |-> address, count |-> 1]

Known(address) == \E k \in DOMAIN symbols : symbols[k].offset = address

AtLine == \E k \in rest + 1 .. Len(text) : text[k] = "\n"

\* What follows the last line end is never looked at.
Parse ==
  LET newline == Min({k \in rest + 1 .. Len(text) : text[k] = "\n"})
      address == ParseLine(SubSeq(text, rest + 1, newline - 1))
      new     == address # Invalid /\ ~Known(address)
  IN  /\ AtLine
      /\ symbols' = IF new THEN Append(symbols, Function(address)) ELSE symbols
      /\ added' = IF new THEN added + 1 ELSE added
      /\ rest' = newline
      /\ UNCHANGED text

Next == Parse

Spec == Init /\ [][Next]_vars

-----------------------------------------------------------------------------

\* Tokens i..j of the text are a line, with its end at j + 1.
Line(i, j) ==
  /\ text[j + 1] = "\n"
  /\ \A k \in i..j : text[k] # "\n"
  /\ i > 1 => text[i - 1] = "\n"

\* Tokens p and e of line i..j stand around a number: p is the prefix that
\* counts, the first of its kind, and e the next space.
Around(i, j, p, e) ==
  /\ p < e /\ text[e] = " " /\ \A k \in p + 1 .. e - 1 : text[k] # " "
  /\ \/ text[p] = "0x" /\ \A k \in i..p - 1 : text[k] # "0x"
     \/ /\ text[p] = "0X" /\ \A k \in i..p - 1 : text[k] # "0X"
        /\ \A k \in i..j : text[k] # "0x"

\* The number there, if it is one.
Named(i, j) ==
  {FromStrRadix(16, SubSeq(text, n[1] + 1, n[2] - 1)) :
     n \in {n \in (i..j) \X (i..j) : Around(i, j, n[1], n[2])}} \ {Invalid}

\* parse_into lists each address that an ended line names, once however often
\* it is named, counts what it lists, and takes nothing from lines that are
\* malformed or not ended.
SymbolsExact ==
  /\ {symbols[k].offset : k \in DOMAIN symbols} =
       UNION {Named(l[1], l[2]) : l \in
         {l \in (1..rest) \X (0..rest - 1) : l[2] >= l[1] - 1 /\ Line(l[1], l[2])}}
  /\ \A k, l \in DOMAIN symbols : k # l => symbols[k].offset # symbols[l].offset
  /\ added = Len(symbols)
=============================================================================
