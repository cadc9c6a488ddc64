------------------------------ MODULE MCFleet ------------------------------
EXTENDS Fleet, TLC

Symmetry == Permutations(Worker) \cup Permutations(Resizer)

=============================================================================
