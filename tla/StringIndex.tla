----------------------------- MODULE StringIndex -----------------------------
(***************************************************************************)
(* PoiList::append_strings: one pass over the bytes that appends every run *)
(* of printable ones, if it is long enough, when a byte that is not ends   *)
(* it.                                                                     *)
(***************************************************************************)
EXTENDS Integers, Sequences

CONSTANTS
  Printable,   \* bytes is_print accepts
  StringMin    \* STR_MIN_SIZE

VARIABLES
  content,     \* the bytes, content[0] first
  list,        \* the POI list
  cursor,      \* bytes already scanned
  begin        \* start of the open run, or NoRun

vars == <<content, list, cursor, begin>>

NoRun == -1

\* content, and the list appended to, are the caller's.
Init == cursor = 0 /\ begin = NoRun

AtByte == cursor \in DOMAIN content

IsPrint == content[cursor] \in Printable

Advance == cursor' = cursor + 1 /\ UNCHANGED content

OpenRun ==
  /\ AtByte
  /\ begin = NoRun
  /\ IsPrint
  /\ begin' = cursor
  /\ Advance
  /\ UNCHANGED list

LongerThanMin(length) == length > StringMin    \* mutant of LongEnough
LongEnough(length) == length >= StringMin

String(offset, length) == [type |-> "String", offset |-> offset, count |-> length]

CloseRun ==
  /\ AtByte
  /\ begin # NoRun
  /\ ~IsPrint
  /\ list' = IF LongEnough(cursor - begin)
               THEN Append(list, String(begin, cursor - begin)) ELSE list
  /\ begin' = NoRun
  /\ Advance

\* Inside a run, and between two.
PassByte ==
  /\ AtByte
  /\ begin # NoRun <=> IsPrint
  /\ Advance
  /\ UNCHANGED <<list, begin>>

Next == OpenRun \/ CloseRun \/ PassByte

Spec == Init /\ [][Next]_vars

-----------------------------------------------------------------------------

StringsIn(l) == {k \in DOMAIN l : l[k].type = "String"}

\* A longest run of printable bytes i..j-1, ended by byte j.
Run(i, j) ==
  /\ i < j
  /\ \A k \in i..j - 1 : content[k] \in Printable
  /\ i > 0 => content[i - 1] \notin Printable
  /\ content[j] \notin Printable

\* append_strings lists the terminated runs of enough printable bytes among
\* those read, each once and in order, and nothing else: a run that the end of
\* the image cuts off is dropped, and no run is split or joined with the next.
StringsAreRuns ==
  /\ \A k \in StringsIn(list) :
       LET s == list[k]
       IN  /\ s.offset \in Nat /\ s.offset + s.count < cursor
           /\ s.count >= StringMin /\ Run(s.offset, s.offset + s.count)
  /\ \A i, j \in 0..cursor - 1 :
       Run(i, j) /\ j - i >= StringMin =>
         \E k \in StringsIn(list) : list[k] = String(i, j - i)
  /\ \A k, l \in StringsIn(list) : k < l => list[k].offset < list[l].offset
=============================================================================
