----------------------------- MODULE MCRuntime -----------------------------
EXTENDS Runtime, TLC

Symmetry == Permutations(Holders) \cup Permutations(Names)
=============================================================================
