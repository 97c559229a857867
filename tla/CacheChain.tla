----------------------------- MODULE CacheChain -----------------------------
(***************************************************************************)
(* What the native-object cache promises, free of its representation: for  *)
(* every native address a sequence of nodes, one per binding, oldest first *)
(* and then most recently added first.  CppObjectMapper relies on nothing  *)
(* else of FObjectCacheNode; module ObjectCacheNode shows that the linked  *)
(* list of the code implements this.                                       *)
(***************************************************************************)
EXTENDS NodeLists

CONSTANTS Ptrs,      \* addresses of native objects
          TypeIds,   \* class type ids
          Values,    \* identities of JS wrapper objects
          NoValue    \* the result of a lookup that finds nothing

VARIABLES chains,    \* [Ptrs -> Seq(nodes)]: CDataCache, abstractly
          last       \* the last Find or Remove, with what it returned

chainVars == <<chains, last>>

ChainInit ==
  /\ chains = [p \in Ptrs |-> << >>]
  /\ last = NoValue

\* What an operation does to the sequence of p.
Inserted(p, T, v) == chains' = [chains EXCEPT ![p] = AddNode(@, [TypeId |-> T, Value |-> v])]
Removed(p, T) == chains' = [chains EXCEPT ![p] = RemoveFirst(@, T)]
Cleared == chains' = [p \in Ptrs |-> << >>]

AbsBind(p, T, v) == Inserted(p, T, v) /\ UNCHANGED last

AbsRemove(p, T) ==
  /\ Removed(p, T)
  /\ last' = [op |-> "remove", p |-> p, T |-> T, Value |-> NoValue]

AbsFind(p, T) ==
  /\ last' = [op |-> "find", p |-> p, T |-> T,
              Value |-> IF Positions(chains[p], T) = {} THEN NoValue
                        ELSE chains[p][FirstOf(chains[p], T)].Value]
  /\ UNCHANGED chains

AbsClear == Cleared /\ UNCHANGED last

ChainNext ==
  \/ \E p \in Ptrs, T \in TypeIds, v \in Values : AbsBind(p, T, v)
  \/ \E p \in Ptrs, T \in TypeIds : AbsRemove(p, T) \/ AbsFind(p, T)
  \/ AbsClear

ChainSpec == ChainInit /\ [][ChainNext]_chainVars
=============================================================================
