----------------------------- MODULE MCRouting ------------------------------
(* Routing on small sets of instances, keys and goroutines.  Instances are *)
(* gone through by index, so only the others are interchangeable.          *)
EXTENDS Routing, TLC

Symmetry == Permutations(Key) \cup Permutations(Client) \cup Permutations(Mover)

\* Everything but the history that only refusals are judged by, and that nothing
\* depends on: for the run that does not judge them.
Unjudged ==
  <<fleet, rotating, pinned, [w \in Worker |-> [task[w] EXCEPT !.steady = {}]], promised>>
=============================================================================
