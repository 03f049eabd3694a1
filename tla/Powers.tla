------------------------------- MODULE Powers -------------------------------
(***************************************************************************)
(* Powers of a number, by their recursion, so that proofs can use it.      *)
(***************************************************************************)
EXTENDS Naturals

Power(b, n) ==
  LET p[i \in 0..n] == IF i = 0 THEN 1 ELSE b * p[i - 1]
  IN  p[n]
=============================================================================
