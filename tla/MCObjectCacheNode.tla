------------------------- MODULE MCObjectCacheNode -------------------------
(***************************************************************************)
(* Two addresses, two types and two heap cells: lists of up to three       *)
(* nodes with repeated types, and two lists competing for the memory.      *)
(***************************************************************************)
EXTENDS ObjectCacheNode, TLC
=============================================================================
