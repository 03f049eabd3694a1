------------------------------- MODULE Numbers -------------------------------
(***************************************************************************)
(* Numbers in text, which is a sequence of tokens: the prefixes "0x" and   *)
(* "0X", and single characters.  Letters stand for either case.            *)
(***************************************************************************)
EXTENDS Integers, FiniteSets, SequencesExt

CONSTANT AddrMod    \* 2^64: larger numbers do not parse

Invalid == -1

Digits == <<"0", "1", "2", "3", "4", "5", "6", "7", "8", "9",
            "a", "b", "c", "d", "e", "f">>

DigitValue(c) == SelectInSeq(Digits, LAMBDA d : d = c) - 1

\* u64::from_str_radix, which takes one leading plus sign.
FromStrRadix(radix, text) ==
  LET digits == IF text # <<>> /\ Head(text) = "+" THEN Tail(text) ELSE text
      value  == FoldLeft(LAMBDA acc, c : acc * radix + DigitValue(c), 0, digits)
  IN  IF \/ digits = <<>>
         \/ \E k \in DOMAIN digits : DigitValue(digits[k]) \notin 0..radix - 1
         \/ value >= AddrMod
        THEN Invalid ELSE value

Trimmed(text) ==
  LET solid == {k \in DOMAIN text : text[k] # " "}
  IN  IF solid = {} THEN <<>> ELSE SubSeq(text, Min(solid), Max(solid))

\* parse_number of main.rs: hexadecimal behind a prefix, else decimal.
ParseNumber(text) ==
  LET s == Trimmed(text)
  IN  IF s # <<>> /\ Head(s) \in {"0x", "0X"} THEN FromStrRadix(16, Tail(s))
      ELSE FromStrRadix(10, s)
=============================================================================
