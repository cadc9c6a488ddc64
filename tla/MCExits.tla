------------------------------ MODULE MCExits ------------------------------
EXTENDS Exits, TLC

CONSTANTS j1, j2

MCJob == {j1, j2}

\* Every pair that can get in each other's way, whichever comes first.
MCDoes == j1 :> {"rotate", "restart"} @@ j2 :> {"ladder", "poll", "sample"}

Symmetry == Permutations(Relay)

=============================================================================
