---------------------------- MODULE MCAckBudget ----------------------------
(* Requests of two events with batches of at most three: each request needs *)
(* a batch of its own and waits for the timer or for the next one.  The     *)
(* requests are alike, so they may be permuted.                             *)
EXTENDS AckBudget, TLC

CONSTANT a

MCRequest == [r \in Requests |-> [events |-> 2, increments |-> a :> 2]]

Symmetry == Permutations(Requests)

(* The budget given every benefit: no flush outlasts OperationTimeout. *)
PromptSpec ==
  TimedInit /\ [][TimedNext /\ flushAge' <= OperationTimeout]_<<vars, clockVars>>
=============================================================================
