------------------------------ MODULE MCAppSec ------------------------------
EXTENDS AppSec, TLC

\* Callers are alike.
Symmetry == Permutations(Callers)
=============================================================================
