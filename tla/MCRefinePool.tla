---------------------------- MODULE MCRefinePool ----------------------------
(***************************************************************************)
(* Every candidate list of up to 7 candidates and every -t value up to 5:  *)
(* enough for several chunks per list, a short last chunk, and chunk sizes *)
(* that need fewer threads than were asked for (5 candidates, 4 threads).  *)
(***************************************************************************)
EXTENDS RefinePool

\* Distinct outcomes, so that any misplaced result shows.
Outcomes == [i \in 1..7 |-> <<"score of", i>>]
=============================================================================
