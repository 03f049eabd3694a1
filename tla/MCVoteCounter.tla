---------------------------- MODULE MCVoteCounter ----------------------------
(***************************************************************************)
(* Four addresses of three binary digits; a node is a digit prefix, given  *)
(* as <<length, value>>.  0 and 1 share two nodes, 2 shares one with them, *)
(* 5 shares none.                                                          *)
(***************************************************************************)
EXTENDS VoteCounter

Addresses == {0, 1, 2, 5}
DigitPath ==
  [a \in Addresses |-> {<<1, a \div 4>>, <<2, a \div 2>>, <<3, a>>}]
=============================================================================
