----------------------------- MODULE NodeLists -----------------------------
(***************************************************************************)
(* The operations of FObjectCacheNode on a chain of nodes, the chain taken *)
(* as a sequence whose first element is the node in the map entry.         *)
(***************************************************************************)
EXTENDS Naturals, Sequences

\* The positions of chain that carry type id T.
Positions(chain, T) == {i \in 1..Len(chain) : chain[i].TypeId = T}

\* The first of them; meaningful only when there is one.
FirstOf(chain, T) ==
  CHOOSE i \in Positions(chain, T) : \A j \in Positions(chain, T) : i <= j

\* FObjectCacheNode::Add links the new node right behind the head; the first
\* node of an address is stored in the hash map itself.
AddNode(chain, n) ==
  [i \in 1..(Len(chain) + 1) |->
     IF Len(chain) = 0 THEN n
     ELSE IF i = 1 THEN chain[1] ELSE IF i = 2 THEN n ELSE chain[i - 1]]

\* s without its k-th element.
Without(s, k) == [i \in 1..(Len(s) - 1) |-> IF i < k THEN s[i] ELSE s[i + 1]]

\* FObjectCacheNode::Remove drops the first node that carries T, if any.
RemoveFirst(chain, T) ==
  IF Positions(chain, T) = {} THEN chain ELSE Without(chain, FirstOf(chain, T))
=============================================================================
