---------------------------- MODULE MCRayonPool ----------------------------
(***************************************************************************)
(* Up to five candidates on pools of two and three workers, or on a global *)
(* pool of four, wider than -t allows.                                     *)
(***************************************************************************)
EXTENDS RayonPool

\* Distinct outcomes, so that any misplaced result shows.
Outcomes == [i \in 1..5 |-> <<"score of", i>>]
=============================================================================
