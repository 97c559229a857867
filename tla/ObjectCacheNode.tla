-------------------------- MODULE ObjectCacheNode --------------------------
(***************************************************************************)
(* The nodes of CppObjectMapper::CDataCache as the code stores them: the   *)
(* first node of an address lives inside the hash map entry, the others    *)
(* are malloc'ed and linked through Next.  Remove and Find are recursive   *)
(* member functions; each activation is one step here, the current node    *)
(* being the cursor.  No callback runs in between, so no other operation   *)
(* starts while a walk is under way.                                       *)
(***************************************************************************)
EXTENDS Naturals, FiniteSets

CONSTANTS Ptrs,      \* addresses of native objects
          TypeIds,   \* class type ids
          Values,    \* identities of JS wrapper objects
          Addrs,     \* memory malloc can hand out for nodes
          NULL       \* nullptr, no entry, memory that is not allocated

VARIABLES CDataCache,  \* [Ptrs -> the node inside the map entry, or NULL]
          heap,        \* [Addrs -> the node malloc'ed there, or NULL]
          walk,        \* the recursion of Remove or Find in progress
          last         \* the last Find or Remove, with what it returned

vars == <<CDataCache, heap, walk, last>>

Node == [TypeId : TypeIds, Value : Values, Next : Addrs \cup {NULL}]

ASSUME NullAssumption == NULL \notin Ptrs \cup TypeIds \cup Values \cup Addrs \cup Node

\* Memory is finite.
ASSUME FiniteAddrs == IsFiniteSet(Addrs)

\* The recursion: it stands at the node inside the entry of p (at = NULL) or at heap
\* node `at'; prev is the node whose activation called it.
Idle == [op |-> "idle", p |-> NULL, T |-> NULL, prev |-> NULL, at |-> NULL]
Walk == [op : {"remove", "find"}, p : Ptrs, T : TypeIds,
         prev : Addrs \cup {NULL}, at : Addrs \cup {NULL}]

Call == [op : {"remove", "find"}, p : Ptrs, T : TypeIds, Value : Values \cup {NULL}]

\* Every entry and every heap cell holds a complete node or nothing: Remove
\* leaves no entry behind whose TypeId is null.
TypeOK ==
  /\ CDataCache \in [Ptrs -> Node \cup {NULL}]
  /\ heap \in [Addrs -> Node \cup {NULL}]
  /\ walk \in Walk \cup {Idle}
  /\ last \in Call \cup {NULL}

Init ==
  /\ CDataCache = [p \in Ptrs |-> NULL]
  /\ heap = [a \in Addrs |-> NULL]
  /\ walk = Idle
  /\ last = NULL

-----------------------------------------------------------------------------
\* The recursion returns value to its first caller.
Return(value) ==
  /\ last' = [op |-> walk.op, p |-> walk.p, T |-> walk.T, Value |-> value]
  /\ walk' = Idle

\* The node a walk stands at, and the link of the node it came from.
Current == IF walk.at = NULL THEN CDataCache[walk.p] ELSE heap[walk.at]

\* The node stored at `at' of entry p gets a new Next.
Relink(p, at, next) ==
  /\ CDataCache' = IF at = NULL THEN [CDataCache EXCEPT ![p].Next = next]
                                ELSE CDataCache
  /\ heap' = [a \in Addrs |->
                IF a = walk.at THEN NULL                        \* free(Removed)
                ELSE IF a = at THEN [heap[a] EXCEPT !.Next = next]
                ELSE heap[a]]

\* BindAndAddToCache, first binding of the address: insert into the map.  A wrapper may
\* be in the cache already: the memory of one that died while a node of the class of
\* unregistered types still named it.
BindFirst(p, T, v) ==
  /\ walk = Idle
  /\ CDataCache[p] = NULL
  /\ CDataCache' = [CDataCache EXCEPT ![p] = [TypeId |-> T, Value |-> v, Next |-> NULL]]
  /\ UNCHANGED <<heap, walk, last>>

\* BindAndAddToCache, another binding of the address: Add mallocs a node and
\* links it behind the head.
BindMore(p, T, v) ==
  /\ walk = Idle
  /\ CDataCache[p] # NULL
  /\ \E a \in Addrs :
       /\ heap[a] = NULL
       /\ heap' = [heap EXCEPT ![a] = [TypeId |-> T, Value |-> v, Next |-> CDataCache[p].Next]]
       /\ CDataCache' = [CDataCache EXCEPT ![p].Next = a]
  /\ UNCHANGED <<walk, last>>

\* RemoveFromCache and PushNativeObject look the address up and, when there is
\* an entry, call Remove(TypeId, true) or Find(TypeId) on its head.
StartWalk(op, p, T) ==
  /\ walk = Idle
  /\ CDataCache[p] # NULL
  /\ walk' = [op |-> op, p |-> p, T |-> T, prev |-> NULL, at |-> NULL]
  /\ UNCHANGED <<CDataCache, heap, last>>

\* There is no entry: the map lookup is all that happens.
NoEntry(op, p, T) ==
  /\ walk = Idle
  /\ CDataCache[p] = NULL
  /\ last' = [op |-> op, p |-> p, T |-> T, Value |-> NULL]
  /\ UNCHANGED <<CDataCache, heap, walk>>

\* Mutant: the moved-from successor is not freed.
MoveKeepsSuccessor ==
  /\ walk.op = "remove" /\ walk.at = NULL
  /\ Current.TypeId = walk.T
  /\ Current.Next # NULL
  /\ CDataCache' = [CDataCache EXCEPT ![walk.p] = heap[Current.Next]]
  /\ Return(NULL)
  /\ UNCHANGED heap

\* Remove, the head carries the type and has a successor: the successor is
\* moved into the head and its memory is freed.
RemoveHeadMove ==
  /\ walk.op = "remove" /\ walk.at = NULL
  /\ Current.TypeId = walk.T
  /\ Current.Next # NULL
  /\ CDataCache' = [CDataCache EXCEPT ![walk.p] = heap[Current.Next]]
  /\ heap' = [heap EXCEPT ![Current.Next] = NULL]
  /\ Return(NULL)

\* Mutant: RemoveFromCache does not erase the entry whose TypeId became null.
NoErase ==
  /\ walk.op = "remove" /\ walk.at = NULL
  /\ Current.TypeId = walk.T
  /\ Current.Next = NULL
  /\ CDataCache' = [CDataCache EXCEPT ![walk.p].TypeId = NULL]
  /\ Return(NULL)
  /\ UNCHANGED heap

\* Remove, the head is the only node: its TypeId becomes null, on which
\* RemoveFromCache erases the map entry.
RemoveHeadLast ==
  /\ walk.op = "remove" /\ walk.at = NULL
  /\ Current.TypeId = walk.T
  /\ Current.Next = NULL
  /\ CDataCache' = [CDataCache EXCEPT ![walk.p] = NULL]
  /\ Return(NULL)
  /\ UNCHANGED heap

\* Remove, a later node carries the type: the activation that called it takes
\* it out of the list and frees it.
RemoveInner ==
  /\ walk.op = "remove" /\ walk.at # NULL
  /\ Current.TypeId = walk.T
  /\ Relink(walk.p, walk.prev, Current.Next)
  /\ Return(NULL)

\* Mutant: Find returns the head it was called on.
FindReturnsHead ==
  /\ walk.op = "find"
  /\ Current.TypeId = walk.T
  /\ Return(CDataCache[walk.p].Value)
  /\ UNCHANGED <<CDataCache, heap>>

\* Find returns the node.
FindHit ==
  /\ walk.op = "find"
  /\ Current.TypeId = walk.T
  /\ Return(Current.Value)
  /\ UNCHANGED <<CDataCache, heap>>

\* Mutant: the recursive call is made on this instead of Next.
DescendStays ==
  /\ walk # Idle
  /\ Current.TypeId # walk.T
  /\ Current.Next # NULL
  /\ UNCHANGED vars

\* Remove or Find recurses into Next.
Descend ==
  /\ walk # Idle
  /\ Current.TypeId # walk.T
  /\ Current.Next # NULL
  /\ walk' = [op |-> walk.op, p |-> walk.p, T |-> walk.T, prev |-> walk.at, at |-> Current.Next]
  /\ UNCHANGED <<CDataCache, heap, last>>

\* The end of the list: both return nullptr.
WalkOff ==
  /\ walk # Idle
  /\ Current.TypeId # walk.T
  /\ Current.Next = NULL
  /\ Return(NULL)
  /\ UNCHANGED <<CDataCache, heap>>

\* S holds the successor of the head of p and, with a cell, its successor.
Closed(p, S) ==
  /\ CDataCache[p].Next \in S \cup {NULL}
  /\ \A b \in S : heap[b] # NULL => heap[b].Next \in S \cup {NULL}

\* The heap nodes of entry p: the smallest such set.
ChainOf(p) ==
  {a \in Addrs : CDataCache[p] # NULL /\ \A S \in SUBSET Addrs : Closed(p, S) => a \in S}

\* CppObjectMapper::Cleanup clears the map; the destructor of each head frees
\* the nodes behind it.
Clear ==
  /\ walk = Idle
  /\ CDataCache' = [p \in Ptrs |-> NULL]
  /\ heap' = [a \in Addrs |-> IF \E p \in Ptrs : a \in ChainOf(p) THEN NULL ELSE heap[a]]
  /\ UNCHANGED <<walk, last>>

\* A step of the recursion of Remove or Find.
WalkStep ==
  \/ RemoveHeadMove \/ RemoveHeadLast \/ RemoveInner
  \/ FindHit \/ Descend \/ WalkOff

Next ==
  \/ \E p \in Ptrs, T \in TypeIds, v \in Values : BindFirst(p, T, v) \/ BindMore(p, T, v)
  \/ \E op \in {"remove", "find"}, p \in Ptrs, T \in TypeIds :
       StartWalk(op, p, T) \/ NoEntry(op, p, T)
  \/ WalkStep
  \/ Clear

Spec == Init /\ [][Next]_vars

\* The recursion is plain sequential code: it goes on until it returns.
FairSpec == Spec /\ WF_vars(WalkStep)

-----------------------------------------------------------------------------
\* The two places that can hold a link to cell a.
EntryLinks(p, a) == CDataCache[p] # NULL /\ CDataCache[p].Next = a
CellLinks(b, a) == heap[b] # NULL /\ heap[b].Next = a

\* No link of FObjectCacheNode dangles: Remove and the destructor free a node
\* only when nothing points to it any more.
NoDanglingNext ==
  \A a \in Addrs :
    (\E p \in Ptrs : EntryLinks(p, a)) \/ (\E b \in Addrs : CellLinks(b, a))
      => heap[a] # NULL

\* A node is reached through one link only, so no destructor frees it twice.
OwnedOnce ==
  \A a \in Addrs :
    /\ \A p, q \in Ptrs : EntryLinks(p, a) /\ EntryLinks(q, a) => p = q
    /\ \A b, c \in Addrs : CellLinks(b, a) /\ CellLinks(c, a) => b = c
    /\ \A p \in Ptrs, b \in Addrs : ~(EntryLinks(p, a) /\ CellLinks(b, a))

\* malloc'ed nodes are always reachable from the entry they belong to: neither
\* the move into the head nor unlinking loses the rest of the list.
NoLeak == \A a \in Addrs : heap[a] # NULL => \E p \in Ptrs : a \in ChainOf(p)

\* Every node in memory has one owner, which leads back to a map entry: whichever node
\* of a list is removed, nothing is freed twice, touched after it was freed, or lost.
MemorySound == NoDanglingNext /\ OwnedOnce /\ NoLeak

\* The recursion of Remove and Find ends: the lists have no cycle.
WalkEnds == (walk # Idle) ~> (walk = Idle)

-----------------------------------------------------------------------------
\* The list of entry p as a sequence.
NthNode(p) ==
  LET nth[i \in 1..(Cardinality(Addrs) + 1)] ==
        IF i = 1 THEN CDataCache[p]
        ELSE IF nth[i - 1] = NULL \/ nth[i - 1].Next = NULL THEN NULL
        ELSE heap[nth[i - 1].Next]
  IN nth

AsSequence(p) ==
  LET nth == NthNode(p)
      len == Cardinality({i \in DOMAIN nth : nth[i] # NULL})
  IN [i \in 1..len |-> [TypeId |-> nth[i].TypeId, Value |-> nth[i].Value]]

Abstract == INSTANCE CacheChain WITH
              chains <- [p \in Ptrs |-> AsSequence(p)],
              NoValue <- NULL

\* The linked list behaves as the sequence CppObjectMapper takes it for: Add
\* inserts behind the head, Remove takes out the first node of the type, Find
\* returns the value of that node.
ImplementsChain == Abstract!ChainSpec
=============================================================================
