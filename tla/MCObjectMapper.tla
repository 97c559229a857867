--------------------------- MODULE MCObjectMapper ---------------------------
EXTENDS ObjectMapper, TLC

Symmetry == Permutations(Wrappers)
=============================================================================
