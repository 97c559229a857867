------------------------------ MODULE MCScopes ------------------------------
EXTENDS Scopes, TLC

Symmetry == Permutations(Scopes)
=============================================================================
