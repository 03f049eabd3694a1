--------------------------- MODULE MCEndianDetect ---------------------------
(***************************************************************************)
(* Every image of up to eight bytes out of three values, in base 4, read   *)
(* as 2-digit pointers in a 4-digit slot (a 32-bit target: the descent is  *)
(* two levels) and as 4-digit pointers (a 64-bit one: no descent).         *)
(***************************************************************************)
EXTENDS EndianDetect

Addresses == 0..255
DigitPath == [a \in Addresses |-> {<<k, a \div 4^(4 - k)>> : k \in 1..4}]
=============================================================================
