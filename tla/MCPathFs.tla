------------------------------ MODULE MCPathFs ------------------------------
EXTENDS PathFs, TLC

Symmetry == Permutations(Holders) \cup Permutations(Names)
=============================================================================
