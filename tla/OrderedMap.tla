----------------------------- MODULE OrderedMap -----------------------------
(***************************************************************************)
(* What refine_candidates (base_address.rs) owes its caller, whichever     *)
(* backend is compiled in and however many threads it is given: it returns *)
(* once, and what it returns is the outcome of refine_one on every kept    *)
(* candidate, in candidate order.  The only other way out is a panic that  *)
(* hands the caller nothing.                                               *)
(***************************************************************************)
EXTENDS Naturals

CONSTANTS
  MaxKept,   \* bound on the number of kept candidates
  Refine     \* outcome of the pure function refine_one, by candidate

VARIABLES
  n,         \* number of kept candidates
  status,    \* "running", "returned" or "panicked"
  answer     \* what the caller received

vars == <<n, status, answer>>

Init ==
  /\ n \in 0..MaxKept
  /\ status = "running"
  /\ answer = <<>>

Return ==
  /\ status = "running"
  /\ status' = "returned"
  /\ answer' = [i \in 1..n |-> Refine[i]]
  /\ UNCHANGED n

Panic ==
  /\ status = "running"
  /\ status' = "panicked"
  /\ UNCHANGED <<n, answer>>

Next == Return \/ Panic

Spec == Init /\ [][Next]_vars /\ WF_vars(Next)
=============================================================================
