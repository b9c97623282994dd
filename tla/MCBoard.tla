------------------------------ MODULE MCBoard ------------------------------
EXTENDS Board, TLC
\* No definition tells one file name from another.
Symmetry == Permutations(Names)
=============================================================================
