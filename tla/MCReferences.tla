---------------------------- MODULE MCReferences ----------------------------
EXTENDS References, TLC

Symmetry == Permutations(Refs) \cup Permutations(Vals)
=============================================================================
