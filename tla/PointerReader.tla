---------------------------- MODULE PointerReader ----------------------------
(***************************************************************************)
(* pointer.rs: pointer-sized values of a byte buffer.  A buffer is a       *)
(* function from offsets, counted from 0, to bytes.                        *)
(***************************************************************************)
EXTENDS Powers, FiniteSets, SequencesExt

CONSTANT ByteBase    \* values of a byte (256)

\* Bytes behind the end read as 0.
ByteAt(content, at) == IF at \in DOMAIN content THEN content[at] ELSE 0

\* read_as: an unknown byte order is read as little-endian.
ReadAs(content, psize, order, at) ==
  LET value[j \in 0..psize] ==
        IF j = 0 THEN 0
        ELSE value[j - 1] * ByteBase
               + ByteAt(content, IF order = "Big" THEN at + j - 1 ELSE at + psize - j)
  IN  value[psize]

\* The values at every multiple of the pointer size, as all scans but that of
\* the endianness detector read them.
WordsOf(content, psize, order) ==
  [k \in 0..(Cardinality(DOMAIN content) - 1) \div psize |->
     ReadAs(content, psize, order, k * psize)]

\* is_ascii_ptr, for the bytes it takes for text.
AllBytesIn(v, psize, ascii) ==
  \A j \in 0..psize - 1 : (v \div Power(ByteBase, j)) % ByteBase \in ascii

MaxValue(psize) == Power(ByteBase, psize) - 1
=============================================================================
