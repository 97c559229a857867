----------------------- MODULE ObjectCacheNodeProofs -----------------------
(***************************************************************************)
(* The memory of the cache nodes is sound whatever the number of addresses,*)
(* types, wrappers and heap cells, and the list of an address behaves as   *)
(* the sequence of bindings of module CacheChain.                          *)
(***************************************************************************)
EXTENDS ObjectCacheNode, NodeListsProofs, FiniteSetTheorems

\* The activation of Remove or Find in progress stands at a node that exists,
\* and the activation that called it holds the link to that node.
WalkSound ==
  walk # Idle =>
    /\ CDataCache[walk.p] # NULL
    /\ walk.at = NULL => walk.prev = NULL
    /\ walk.at # NULL =>
         /\ heap[walk.at] # NULL
         /\ walk.prev = NULL => EntryLinks(walk.p, walk.at)
         /\ walk.prev # NULL => CellLinks(walk.prev, walk.at)

\* The inductive invariant.
IInv == TypeOK /\ NoDanglingNext /\ OwnedOnce /\ NoLeak /\ WalkSound

LEMMA InitIInv == Init => IInv
BY NullAssumption DEF Init, IInv, TypeOK, NoDanglingNext, OwnedOnce, NoLeak, WalkSound,
   EntryLinks, CellLinks, Idle

\* Every action, taken from a state of the invariant, keeps it.
\* What the steps below have in common: nothing in the cache changed.
LEMMA SameLists ==
  ASSUME IInv, UNCHANGED <<CDataCache, heap>>
  PROVE  NoLeak'
BY DEF IInv, NoLeak, ChainOf, Closed

\* BindMore and the removals keep every remaining cell reachable: a set closed
\* under the new links yields one closed under the old.
LEMMA BindMoreNoLeak ==
  ASSUME IInv, NEW q \in Ptrs, NEW T \in TypeIds, NEW v \in Values, BindMore(q, T, v)
  PROVE  NoLeak'
<1> USE NullAssumption DEF IInv, TypeOK, Node
<1>1. PICK x \in Addrs :
        /\ heap[x] = NULL
        /\ heap' = [heap EXCEPT ![x] = [TypeId |-> T, Value |-> v, Next |-> CDataCache[q].Next]]
        /\ CDataCache' = [CDataCache EXCEPT ![q].Next = x]
        /\ CDataCache[q] # NULL
  BY DEF BindMore
<1>2. /\ CDataCache'[q] # NULL /\ CDataCache'[q].Next = x
      /\ heap'[x] # NULL /\ heap'[x].Next = CDataCache[q].Next
      /\ \A p \in Ptrs \ {q} : CDataCache'[p] = CDataCache[p]
      /\ \A b \in Addrs \ {x} : heap'[b] = heap[b]
  BY <1>1
<1>3. x \in ChainOf(q)'
  BY <1>2 DEF ChainOf, Closed
<1>4. ASSUME NEW a \in Addrs, heap'[a] # NULL, a # x
      PROVE  \E p \in Ptrs : a \in ChainOf(p)'
  <2>1. PICK p \in Ptrs : a \in ChainOf(p)
    BY <1>2, <1>4 DEF NoLeak
  <2>2. \A S \in SUBSET Addrs : Closed(p, S)' => Closed(p, S)
    BY <1>1, <1>2 DEF Closed
  <2>3. CDataCache'[p] # NULL
    BY <1>2, <2>1 DEF ChainOf
  <2>4. a \in ChainOf(p)'
    BY <2>1, <2>2, <2>3 DEF ChainOf
  <2>5. QED BY <2>4
<1>5. QED BY <1>3, <1>4 DEF NoLeak

LEMMA RemoveHeadMoveNoLeak ==
  ASSUME IInv, RemoveHeadMove
  PROVE  NoLeak'
<1> USE NullAssumption DEF IInv, TypeOK, Node
<1> DEFINE q == walk.p
           n == CDataCache[q].Next
<1>1. /\ q \in Ptrs /\ CDataCache[q] # NULL /\ n \in Addrs /\ heap[n] # NULL
      /\ CDataCache'[q] = heap[n] /\ heap'[n] = NULL
      /\ \A p \in Ptrs \ {q} : CDataCache'[p] = CDataCache[p]
      /\ \A b \in Addrs \ {n} : heap'[b] = heap[b]
  BY DEF RemoveHeadMove, Current, WalkSound, NoDanglingNext, EntryLinks, Idle, Walk
<1>2. ASSUME NEW a \in Addrs, heap'[a] # NULL
      PROVE  \E p \in Ptrs : a \in ChainOf(p)'
  <2>1. PICK p \in Ptrs : a \in ChainOf(p)
    BY <1>1, <1>2 DEF NoLeak
  <2>2. ASSUME NEW S \in SUBSET Addrs, Closed(p, S)'
        PROVE  a \in S
    <3>1. CASE p = q
      <4>1. Closed(p, S \cup {n})
        BY <1>1, <2>2, <3>1 DEF Closed
      <4>2. QED BY <1>1, <1>2, <2>1, <4>1 DEF ChainOf
    <3>2. CASE p # q
      <4>1. CDataCache[p] # NULL /\ CDataCache[p].Next # n
        BY <1>1, <2>1, <3>2 DEF OwnedOnce, EntryLinks, ChainOf
      <4>2. \A b \in Addrs : heap[b] # NULL => heap[b].Next # n
        BY <1>1 DEF OwnedOnce, EntryLinks, CellLinks
      <4>3. Closed(p, S \ {n})
        BY <1>1, <2>2, <3>2, <4>1, <4>2 DEF Closed
      <4>4. QED BY <2>1, <4>3 DEF ChainOf
    <3>3. QED BY <3>1, <3>2
  <2>3. a \in ChainOf(p)'
    BY <1>1, <2>1, <2>2 DEF ChainOf
  <2>4. QED BY <2>3
<1>3. QED BY <1>2 DEF NoLeak

LEMMA RemoveInnerNoLeak ==
  ASSUME IInv, RemoveInner
  PROVE  NoLeak'
<1> USE NullAssumption DEF IInv, TypeOK, Node
<1> DEFINE q == walk.p
           x == walk.at
           r == walk.prev
<1>1. /\ q \in Ptrs /\ CDataCache[q] # NULL
      /\ x \in Addrs /\ heap[x] # NULL /\ heap'[x] = NULL
  BY DEF RemoveInner, Relink, WalkSound, Idle, Walk
<1>2. \/ /\ r = NULL
         /\ CDataCache[q].Next = x /\ CDataCache'[q].Next = heap[x].Next
         /\ \A p \in Ptrs \ {q} : CDataCache'[p] = CDataCache[p]
         /\ \A b \in Addrs \ {x} : heap'[b] = heap[b]
      \/ /\ r \in Addrs /\ heap[r] # NULL
         /\ heap[r].Next = x
         /\ r # x => heap'[r] # NULL /\ heap'[r].Next = heap[x].Next
         /\ CDataCache' = CDataCache
         /\ \A b \in Addrs \ {x, r} : heap'[b] = heap[b]
  BY DEF RemoveInner, Relink, Current, WalkSound, EntryLinks, CellLinks, Idle, Walk
<1>3. \A p \in Ptrs : CDataCache[p] # NULL => CDataCache'[p] # NULL
  <2>1. heap[x].Next \in Addrs \cup {NULL}
    BY <1>1
  <2>2. CASE r = NULL
    <3>1. CDataCache' = [CDataCache EXCEPT ![q].Next = heap[x].Next]
      BY <1>1, <2>2, NullAssumption DEF RemoveInner, Relink, Current
    <3>2. CDataCache'[q] \in Node
      BY <1>1, <2>1, <3>1
    <3>3. QED BY <1>2, <2>2, <3>2
  <2>3. CASE r # NULL
    BY <1>2, <2>3
  <2>4. QED BY <2>2, <2>3
<1>4. \A b \in Addrs : heap'[b] # NULL => heap[b] # NULL
  BY <1>1, <1>2
<1>5. ASSUME NEW a \in Addrs, heap'[a] # NULL
      PROVE  \E p \in Ptrs : a \in ChainOf(p)'
  <2>1. PICK p \in Ptrs : a \in ChainOf(p)
    BY <1>4, <1>5 DEF NoLeak
  <2>2. ASSUME NEW S \in SUBSET Addrs, Closed(p, S)'
        PROVE  a \in S
    <3> DEFINE R == (S \ {x}) \cup (IF r \in S \/ (r = NULL /\ p = q) THEN {x} ELSE {})
    <3>1. CDataCache[p] # NULL
      BY <2>1 DEF ChainOf
    <3>2. Closed(p, R)
      <4>1. CASE r = NULL
        <5>1. \A b \in Addrs : heap[b] # NULL => heap[b].Next # x
          BY <1>1, <1>2, <4>1 DEF OwnedOnce, EntryLinks, CellLinks
        <5>2. p # q => CDataCache[p].Next # x
          BY <1>1, <1>2, <3>1, <4>1 DEF OwnedOnce, EntryLinks
        <5>3. CASE p = q
          BY <1>1, <1>2, <2>2, <4>1, <5>1, <5>3 DEF Closed
        <5>4. CASE p # q
          BY <1>1, <1>2, <2>2, <4>1, <5>1, <5>2, <5>4 DEF Closed
        <5>5. QED BY <5>3, <5>4
      <4>2. CASE r \in Addrs
        <5>1. \A b \in Addrs \ {r} : heap[b] # NULL => heap[b].Next # x
          BY <1>1, <1>2, <4>2 DEF OwnedOnce, CellLinks
        <5>2. CDataCache[p].Next # x
          BY <1>1, <1>2, <3>1, <4>2 DEF OwnedOnce, EntryLinks, CellLinks
        <5>3. CDataCache[p].Next \in R \cup {NULL}
          BY <1>2, <2>2, <4>2, <5>2 DEF Closed
        <5>4. ASSUME NEW b \in R, heap[b] # NULL
              PROVE  heap[b].Next \in R \cup {NULL}
          <6>1. CASE b = r
            BY <1>2, <4>2, <5>4, <6>1
          <6>2. CASE b # r /\ b = x
            <7>1. r \in S /\ r # x
              BY <4>2, <5>4, <6>2
            <7>2. heap[x].Next \in S \cup {NULL}
              BY <1>2, <2>2, <4>2, <7>1 DEF Closed
            <7>3. QED BY <5>1, <5>4, <6>2, <7>2
          <6>3. CASE b # r /\ b # x
            BY <1>2, <2>2, <4>2, <5>1, <5>4, <6>3 DEF Closed
          <6>4. QED BY <6>1, <6>2, <6>3
        <5>5. QED BY <5>3, <5>4 DEF Closed
      <4>3. QED BY <1>2, <4>1, <4>2
    <3>3. QED BY <1>1, <1>5, <2>1, <3>2 DEF ChainOf
  <2>3. a \in ChainOf(p)'
    BY <1>3, <2>1, <2>2 DEF ChainOf
  <2>4. QED BY <2>3
<1>6. QED BY <1>5 DEF NoLeak

\* The other operations that change the cache.
LEMMA EntryOpsNoLeak ==
  ASSUME IInv, \/ \E p \in Ptrs, T \in TypeIds, v \in Values : BindFirst(p, T, v)
               \/ RemoveHeadLast
               \/ Clear
  PROVE  NoLeak'
<1> USE NullAssumption DEF IInv, TypeOK, Node
<1>1. ASSUME NEW q \in Ptrs, NEW T \in TypeIds, NEW v \in Values, BindFirst(q, T, v)
      PROVE  NoLeak'
  <2>1. /\ CDataCache[q] = NULL /\ heap' = heap
        /\ \A p \in Ptrs \ {q} : CDataCache'[p] = CDataCache[p]
    BY <1>1 DEF BindFirst
  <2>2. \A p \in Ptrs : ChainOf(p) \subseteq ChainOf(p)'
    BY <2>1 DEF ChainOf, Closed
  <2>3. QED BY <2>1, <2>2 DEF NoLeak
<1>2. CASE RemoveHeadLast
  <2>1. /\ CDataCache[walk.p].Next = NULL /\ heap' = heap
        /\ \A p \in Ptrs \ {walk.p} : CDataCache'[p] = CDataCache[p]
    BY <1>2 DEF RemoveHeadLast, Current
  <2>2. ChainOf(walk.p) = {}
    <3>1. Closed(walk.p, {})
      BY <2>1 DEF Closed
    <3>2. QED BY <3>1 DEF ChainOf
  <2>3. \A p \in Ptrs : ChainOf(p) \subseteq ChainOf(p)'
    BY <2>1, <2>2 DEF ChainOf, Closed
  <2>4. QED BY <2>1, <2>3 DEF NoLeak
<1>3. CASE Clear
  BY <1>3 DEF Clear, NoLeak
<1>4. QED BY <1>1, <1>2, <1>3

\* Every action, taken from a state of the invariant, keeps it.
LEMMA NextIInv == IInv /\ [Next]_vars => IInv'
<1> SUFFICES ASSUME IInv, [Next]_vars
             PROVE  IInv'
  OBVIOUS
<1> DEFINE Rest == TypeOK /\ NoDanglingNext /\ OwnedOnce /\ WalkSound
<1> USE NullAssumption DEF IInv, TypeOK, NoDanglingNext, OwnedOnce, WalkSound,
        EntryLinks, CellLinks, Idle, Walk, Node, Call, Return
<1>1. ASSUME NEW p \in Ptrs, NEW T \in TypeIds, NEW v \in Values, BindFirst(p, T, v)
      PROVE  IInv'
  <2>1. Rest'
    BY <1>1 DEF BindFirst
  <2>2. QED BY <1>1, <2>1, EntryOpsNoLeak
<1>2. ASSUME NEW p \in Ptrs, NEW T \in TypeIds, NEW v \in Values, BindMore(p, T, v)
      PROVE  IInv'
  <2>1. Rest'
    BY <1>2 DEF BindMore
  <2>2. QED BY <1>2, <2>1, BindMoreNoLeak
<1>3. ASSUME NEW p \in Ptrs, NEW T \in TypeIds, NEW op \in {"remove", "find"},
             StartWalk(op, p, T)
      PROVE  IInv'
  BY <1>3, SameLists DEF StartWalk
<1>4. ASSUME NEW p \in Ptrs, NEW T \in TypeIds, NEW op \in {"remove", "find"},
             NoEntry(op, p, T)
      PROVE  IInv'
  BY <1>4, SameLists DEF NoEntry
<1>5. CASE RemoveHeadMove
  <2>1. Rest'
    <3>1. TypeOK'
      BY <1>5 DEF RemoveHeadMove, Current
    <3>2. NoDanglingNext'
      BY <1>5 DEF RemoveHeadMove, Current
    <3>3. OwnedOnce'
      BY <1>5 DEF RemoveHeadMove, Current
    <3>4. WalkSound'
      BY <1>5 DEF RemoveHeadMove, Current
    <3> HIDE DEF TypeOK, NoDanglingNext, OwnedOnce, WalkSound
    <3>5. QED BY <3>1, <3>2, <3>3, <3>4
  <2>2. QED BY <1>5, <2>1, RemoveHeadMoveNoLeak
<1>6. CASE RemoveHeadLast
  <2>1. Rest'
    BY <1>6 DEF RemoveHeadLast, Current
  <2>2. QED BY <1>6, <2>1, EntryOpsNoLeak
<1>7. CASE RemoveInner
  <2>1. Rest'
    BY <1>7 DEF RemoveInner, Relink, Current
  <2>2. QED BY <1>7, <2>1, RemoveInnerNoLeak
<1>8. CASE FindHit
  BY <1>8, SameLists DEF FindHit, Current
<1>9. CASE Descend
  BY <1>9, SameLists DEF Descend, Current
<1>10. CASE WalkOff
  BY <1>10, SameLists DEF WalkOff, Current
<1>11. CASE Clear
  <2>1. /\ \A p \in Ptrs : CDataCache'[p] = NULL
        /\ \A a \in Addrs : heap'[a] = NULL
    BY <1>11 DEF Clear, NoLeak
  <2>2. Rest'
    BY <1>11, <2>1 DEF Clear
  <2>3. QED BY <1>11, <2>2, EntryOpsNoLeak
<1>12. CASE UNCHANGED vars
  BY <1>12, SameLists DEF vars
<1>13. CASE WalkStep
  <2> HIDE DEF TypeOK, NoDanglingNext, OwnedOnce, WalkSound, IInv
  <2>1. QED BY <1>5, <1>6, <1>7, <1>8, <1>9, <1>10, <1>13 DEF WalkStep
<1>14. CASE Next
  <2> HIDE DEF TypeOK, NoDanglingNext, OwnedOnce, WalkSound, IInv
  <2>1. QED BY <1>1, <1>2, <1>3, <1>4, <1>11, <1>13, <1>14 DEF Next
<1>15. QED BY <1>12, <1>14

LEMMA InvariantHolds == Spec => []IInv
BY InitIInv, NextIInv, PTL DEF Spec

\* Entries and cells are complete nodes: the head a removal leaves without a class is
\* never left in the map, and a recursion stands at a node or nowhere.
THEOREM NodesComplete == Spec => []TypeOK
<1>1. IInv => TypeOK
  BY DEF IInv
<1>2. QED BY <1>1, InvariantHolds, PTL

\* Every node in memory has one owner, which leads back to a map entry: a removal
\* takes the successor away from the shell it frees, and joins the ends it cuts.
THEOREM MemoryStaysSound == Spec => []MemorySound
<1>1. IInv => MemorySound
  BY DEF IInv, MemorySound
<1>2. QED BY <1>1, InvariantHolds, PTL

-----------------------------------------------------------------------------
(* The list of an address and the sequence it stands for. *)

\* L being the heap cells of entry p in the order of the links: the k-th cell,
\* and the node k places behind the head.
Cell(L, k) == IF k \in 1..Len(L) THEN L[k] ELSE NULL
Place(p, L, k) == IF k = 0 THEN CDataCache[p] ELSE heap[L[k]]

Leads(p, L) ==
  IF CDataCache[p] = NULL THEN L = << >>
  ELSE \A k \in 0..Len(L) :
         /\ Place(p, L, k) # NULL
         /\ Place(p, L, k).Next = Cell(L, k + 1)

Listed == \A p \in Ptrs : \E L \in Seq(Addrs) : Leads(p, L)

\* A recursion in progress has passed nodes of other types only.
WalkPlaced ==
  walk # Idle =>
    \E L \in Seq(Addrs) : \E k \in 0..Len(L) :
      /\ Leads(walk.p, L)
      /\ walk.at = Cell(L, k) /\ walk.prev = Cell(L, k - 1)
      /\ \A j \in 0..(k - 1) : Place(walk.p, L, j).TypeId # walk.T

Bare(n) == [TypeId |-> n.TypeId, Value |-> n.Value]
BareNode == [TypeId : TypeIds, Value : Values]
Size(p, L) == IF CDataCache[p] = NULL THEN 0 ELSE Len(L) + 1
Along(p, L) == [i \in 1..Size(p, L) |-> Bare(Place(p, L, i - 1))]

\* What a list is made of.
LEMMA Links ==
  ASSUME IInv, NEW p \in Ptrs, NEW L \in Seq(Addrs), Leads(p, L)
  PROVE  /\ Len(L) \in Nat /\ \A i \in 1..Len(L) : L[i] \in Addrs /\ L[i] # NULL
         /\ Len(L) > 0 => CDataCache[p] # NULL
         /\ CDataCache[p] # NULL =>
              \A k \in 0..Len(L) : /\ Place(p, L, k) \in Node /\ Place(p, L, k) # NULL
                                   /\ Place(p, L, k).Next = Cell(L, k + 1)
<1>1. Len(L) \in Nat /\ \A i \in 1..Len(L) : L[i] \in Addrs /\ L[i] # NULL
  BY NullAssumption
<1>2. Len(L) > 0 => CDataCache[p] # NULL
  BY <1>1 DEF Leads
<1>3. ASSUME CDataCache[p] # NULL, NEW k \in 0..Len(L)
      PROVE  /\ Place(p, L, k) \in Node /\ Place(p, L, k) # NULL
             /\ Place(p, L, k).Next = Cell(L, k + 1)
  <2>1. Place(p, L, k) # NULL /\ Place(p, L, k).Next = Cell(L, k + 1)
    BY <1>3 DEF Leads
  <2>2. CASE k = 0
    BY <2>1, <2>2 DEF Place, IInv, TypeOK
  <2>3. CASE k # 0
    <3>1. L[k] \in Addrs
      BY <1>1, <2>3
    <3>2. QED BY <2>1, <2>3, <3>1 DEF Place, IInv, TypeOK
  <2>4. QED BY <2>1, <2>2, <2>3
<1>4. QED BY <1>1, <1>2, <1>3

\* Who points to the cells of a list.
LEMMA Pointers ==
  ASSUME IInv, NEW p \in Ptrs, NEW L \in Seq(Addrs), Leads(p, L), NEW i \in 1..Len(L)
  PROVE  /\ L[i] \in Addrs /\ heap[L[i]] # NULL
         /\ i = 1 => EntryLinks(p, L[i])
         /\ i # 1 => i - 1 \in 1..Len(L) /\ CellLinks(L[i - 1], L[i])
<1>1. CDataCache[p] # NULL /\ L[i] \in Addrs
  BY Links
<1>2. Place(p, L, i) # NULL /\ i # 0
  BY <1>1, Links
<1>3. i - 1 \in 0..Len(L) /\ (i - 1) + 1 = i /\ (i # 1 => i - 1 \in 1..Len(L))
  OBVIOUS
<1>4. Place(p, L, i - 1) # NULL /\ Place(p, L, i - 1).Next = L[i]
  BY <1>1, <1>3, Links DEF Cell
<1>5. i = 1 => EntryLinks(p, L[i])
  BY <1>4 DEF Place, EntryLinks
<1>6. i # 1 => CellLinks(L[i - 1], L[i])
  BY <1>3, <1>4 DEF Place, CellLinks
<1>7. QED BY <1>1, <1>2, <1>3, <1>5, <1>6 DEF Place

\* A cell is in one list, at one place.
LEMMA Apart ==
  ASSUME IInv, NEW p \in Ptrs, NEW q \in Ptrs, NEW L \in Seq(Addrs), NEW M \in Seq(Addrs),
         Leads(p, L), Leads(q, M), NEW i \in 1..Len(L), NEW j \in 1..Len(M), L[i] = M[j]
  PROVE  p = q /\ i = j
<1> DEFINE B == {k \in 1..Len(L) : \E l \in 1..Len(M) : L[k] = M[l] /\ ~(p = q /\ k = l)}
<1> SUFFICES ASSUME B # {} PROVE FALSE
  OBVIOUS
<1>1. PICK k \in B : \A m \in B : k <= m
  <2>1. B \in SUBSET Nat
    OBVIOUS
  <2> HIDE DEF B
  <2>2. QED BY <2>1, Least
<1>2. PICK l \in 1..Len(M) : L[k] = M[l] /\ ~(p = q /\ k = l)
  BY <1>1
<1>3. k \in 1..Len(L) /\ L[k] \in Addrs
  BY <1>1, Pointers
<1>4. k # 1 \/ l # 1
  BY <1>2, <1>3, Pointers DEF IInv, OwnedOnce
<1>5. k # 1
  <2>1. SUFFICES ASSUME k = 1, l # 1 PROVE FALSE
    BY <1>4
  <2>2. EntryLinks(p, L[k]) /\ l - 1 \in 1..Len(M) /\ CellLinks(M[l - 1], L[k])
    BY <1>2, <1>3, <2>1, Pointers
  <2>3. M[l - 1] \in Addrs
    BY <2>2
  <2>4. QED BY <1>3, <2>2, <2>3 DEF IInv, OwnedOnce
<1>6. k - 1 \in 1..Len(L) /\ CellLinks(L[k - 1], L[k]) /\ L[k - 1] \in Addrs
  BY <1>3, <1>5, Pointers
<1>7. l # 1
  <2>1. SUFFICES ASSUME l = 1 PROVE FALSE
    OBVIOUS
  <2>2. EntryLinks(q, L[k])
    BY <1>2, <2>1, Pointers
  <2>3. QED BY <1>3, <1>6, <2>2 DEF IInv, OwnedOnce
<1>8. l - 1 \in 1..Len(M) /\ CellLinks(M[l - 1], L[k]) /\ M[l - 1] \in Addrs
  BY <1>2, <1>7, Pointers
<1>9. L[k - 1] = M[l - 1]
  BY <1>3, <1>6, <1>8 DEF IInv, OwnedOnce
<1>10. ~(p = q /\ k - 1 = l - 1)
  BY <1>2, <1>3
<1>11. k - 1 \in B
  BY <1>6, <1>8, <1>9, <1>10
<1>12. k \in Nat
  BY <1>3
<1> HIDE DEF B
<1>13. k <= k - 1
  BY <1>1, <1>11
<1>14. QED BY <1>12, <1>13

\* A list is no longer than there are cells.
LEMMA Bounded ==
  ASSUME IInv, NEW p \in Ptrs, NEW L \in Seq(Addrs), Leads(p, L)
  PROVE  Cardinality(Addrs) \in Nat /\ Len(L) <= Cardinality(Addrs)
<1>1. Cardinality(Addrs) \in Nat
  BY FiniteAddrs, FS_CardinalityType
<1>2. L \in [1..Len(L) -> Addrs] /\ \A i, j \in 1..Len(L) : L[i] = L[j] => i = j
  BY Apart
<1>3. L \in Injection(1..Len(L), Addrs)
  BY <1>2 DEF Injection, IsInjective
<1>4. Cardinality(1..Len(L)) <= Cardinality(Addrs)
  BY <1>3, FiniteAddrs, FS_Injection
<1>5. Cardinality(1..Len(L)) = Len(L)
  <2>1. Cardinality(1..Len(L)) = IF 1 > Len(L) THEN 0 ELSE Len(L) - 1 + 1
    BY FS_Interval
  <2>2. Len(L) \in Nat
    OBVIOUS
  <2>3. QED BY <2>1, <2>2
<1>6. QED BY <1>1, <1>4, <1>5

SequenceHolds ==
  \A p \in Ptrs : \A L \in Seq(Addrs) : Leads(p, L) => AsSequence(p) = Along(p, L)

\* The sequence the refinement mapping computes is the one along the list.
LEMMA SequenceIs == IInv => SequenceHolds
<1> SUFFICES ASSUME IInv, NEW p \in Ptrs, NEW L \in Seq(Addrs), Leads(p, L)
             PROVE  AsSequence(p) = Along(p, L)
  BY DEF SequenceHolds
<1> PICK C, n : C = Cardinality(Addrs) /\ n = Size(p, L)
  OBVIOUS
<1>1. C \in Nat /\ n \in Nat /\ n <= C + 1
  BY Bounded, Links DEF Size
<1> DEFINE f == [i \in 1..(C + 1) |-> IF i <= n THEN Place(p, L, i - 1) ELSE NULL]
           F(g) == [i \in 1..(C + 1) |->
                      IF i = 1 THEN CDataCache[p]
                      ELSE IF g[i - 1] = NULL \/ g[i - 1].Next = NULL THEN NULL
                      ELSE heap[g[i - 1].Next]]
<1>2. ASSUME NEW i \in 1..(C + 1)
      PROVE  f[i] = IF i = 1 THEN CDataCache[p]
                    ELSE IF f[i - 1] = NULL \/ f[i - 1].Next = NULL THEN NULL
                    ELSE heap[f[i - 1].Next]
  <2>1. CASE i = 1
    <3>1. CASE CDataCache[p] = NULL
      BY <1>1, <2>1, <3>1 DEF Size
    <3>2. CASE CDataCache[p] # NULL
      <4>1. n >= 1
        BY <3>2, Links DEF Size
      <4>2. QED BY <1>1, <2>1, <4>1 DEF Place
    <3>3. QED BY <3>1, <3>2
  <2>2. CASE i # 1 /\ i - 1 <= n
    <3>1. CDataCache[p] # NULL /\ n = Len(L) + 1 /\ Len(L) \in Nat
      BY <1>1, <2>2, Links DEF Size
    <3>2. i - 1 \in 1..(C + 1) /\ (i - 1) - 1 \in 0..Len(L) /\ (i - 1) - 1 + 1 = i - 1
      BY <1>1, <2>2, <3>1
    <3>3. f[i - 1] = Place(p, L, (i - 1) - 1)
      BY <2>2, <3>2
    <3>4. f[i - 1] # NULL /\ f[i - 1].Next = Cell(L, i - 1)
      BY <3>1, <3>2, <3>3, Links
    <3>5. CASE i <= n
      <4>1. i - 1 \in 1..Len(L)
        BY <1>1, <2>2, <3>1, <3>5
      <4>2. f[i - 1].Next = L[i - 1] /\ L[i - 1] # NULL
        BY <3>4, <4>1, Links DEF Cell
      <4>3. f[i] = heap[L[i - 1]]
        BY <2>2, <3>5, <4>1 DEF Place
      <4>4. QED BY <2>2, <3>4, <4>2, <4>3
    <3>6. CASE ~(i <= n)
      <4>1. Cell(L, i - 1) = NULL
        BY <1>1, <2>2, <3>1, <3>6 DEF Cell
      <4>2. QED BY <2>2, <3>4, <3>6, <4>1
    <3>7. QED BY <3>5, <3>6
  <2>3. CASE i # 1 /\ ~(i - 1 <= n)
    <3>1. i - 1 \in 1..(C + 1) /\ ~(i <= n)
      BY <1>1, <2>3
    <3>2. f[i - 1] = NULL /\ f[i] = NULL
      BY <2>3, <3>1
    <3>3. QED BY <2>3, <3>2
  <2>4. QED BY <2>1, <2>2, <2>3
<1> HIDE DEF f
<1>3. f = F(f)
  <2>1. f = [i \in 1..(C + 1) |-> f[i]]
    BY DEF f
  <2>2. QED BY <1>2, <2>1
<1>4. ASSUME NEW g, g = F(g) PROVE g = f
  <2> DEFINE B == {i \in 1..(C + 1) : g[i] # f[i]}
  <2>1. B = {}
    <3> SUFFICES ASSUME B # {} PROVE FALSE
      OBVIOUS
    <3>1. PICK k \in B : \A m \in B : k <= m
      <4>1. B \in SUBSET Nat
        BY <1>1
      <4> HIDE DEF B
      <4>2. QED BY <4>1, Least
    <3>2. k \in 1..(C + 1) /\ g[k] # f[k]
      BY <3>1
    <3>3. g[k] = IF k = 1 THEN CDataCache[p]
                 ELSE IF g[k - 1] = NULL \/ g[k - 1].Next = NULL THEN NULL
                 ELSE heap[g[k - 1].Next]
      BY <1>4, <3>2
    <3>4. k # 1
      BY <1>2, <3>2, <3>3
    <3>5. k - 1 \in 1..(C + 1) /\ ~(k <= k - 1)
      BY <1>1, <3>2, <3>4
    <3>6. g[k - 1] = f[k - 1]
      BY <3>1, <3>5
    <3>7. QED BY <1>2, <3>2, <3>3, <3>6
  <2>2. \A i \in 1..(C + 1) : g[i] = f[i]
    BY <2>1
  <2>3. g = [i \in 1..(C + 1) |-> g[i]]
    BY <1>4
  <2>4. f = [i \in 1..(C + 1) |-> f[i]]
    BY DEF f
  <2>5. QED BY <2>2, <2>3, <2>4
<1>5. NthNode(p) = CHOOSE g : g = F(g)
  BY DEF NthNode
<1>6. NthNode(p) = f
  <2>1. (CHOOSE g : g = F(g)) = F(CHOOSE g : g = F(g))
    BY <1>3
  <2>2. QED BY <1>4, <1>5, <2>1
<1>7. DOMAIN f = 1..(C + 1) /\ \A i \in 1..(C + 1) : f[i] # NULL <=> i <= n
  <2>1. ASSUME NEW i \in 1..(C + 1), i <= n PROVE Place(p, L, i - 1) # NULL
    <3>1. CDataCache[p] # NULL /\ i - 1 \in 0..Len(L)
      BY <1>1, <2>1, Links DEF Size
    <3>2. QED BY <3>1, Links
  <2>2. QED BY <2>1 DEF f
<1>8. {i \in DOMAIN f : f[i] # NULL} = 1..n
  BY <1>1, <1>7
<1>9. Cardinality(1..n) = n
  <2>1. 1 \in Int /\ n \in Int
    BY <1>1
  <2>2. Cardinality(1..n) = IF 1 > n THEN 0 ELSE n - 1 + 1
    BY <2>1, FS_Interval
  <2>3. QED BY <1>1, <2>2
<1>10. AsSequence(p) = [i \in 1..n |-> [TypeId |-> f[i].TypeId, Value |-> f[i].Value]]
  BY <1>6, <1>8, <1>9 DEF AsSequence
<1>11. \A i \in 1..n : f[i] = Place(p, L, i - 1)
  BY <1>1 DEF f
<1>12. QED BY <1>10, <1>11 DEF Along, Bare

LEMMA SequenceIsNext == IInv' => SequenceHolds'
BY SequenceIs, PTL

Chains == [p \in Ptrs |-> AsSequence(p)]

LEMMA AlongNodes ==
  ASSUME IInv, NEW p \in Ptrs, NEW L \in Seq(Addrs), Leads(p, L)
  PROVE  /\ Along(p, L) \in Seq(BareNode)
         /\ Len(Along(p, L)) = Size(p, L) /\ Size(p, L) \in Nat
         /\ \A i \in 1..Size(p, L) : Along(p, L)[i] = Bare(Place(p, L, i - 1))
<1>1. Size(p, L) \in Nat
  BY Links DEF Size
<1>2. ASSUME NEW i \in 1..Size(p, L) PROVE Bare(Place(p, L, i - 1)) \in BareNode
  <2>1. CDataCache[p] # NULL /\ i - 1 \in 0..Len(L)
    BY <1>1, <1>2, Links DEF Size
  <2>2. Place(p, L, i - 1) \in Node
    BY <2>1, Links
  <2>3. QED BY <2>2 DEF Bare, BareNode, Node
<1>3. Along(p, L) \in [1..Size(p, L) -> BareNode]
  BY <1>2 DEF Along
<1>4. Along(p, L) \in Seq(BareNode) /\ Len(Along(p, L)) = Size(p, L)
  BY <1>1, <1>3
<1>5. QED BY <1>1, <1>4 DEF Along

\* A list that a step does not touch.
LEMMA Untouched ==
  ASSUME IInv, IInv', NEW q \in Ptrs, NEW K \in Seq(Addrs), Leads(q, K),
         CDataCache'[q] = CDataCache[q], \A i \in 1..Len(K) : heap'[K[i]] = heap[K[i]]
  PROVE  Leads(q, K)' /\ AsSequence(q)' = AsSequence(q)
<1>1. \A k \in 0..Len(K) : Place(q, K, k)' = Place(q, K, k)
  BY DEF Place
<1>2. \A k : Cell(K, k)' = Cell(K, k)
  BY DEF Cell
<1>3. Leads(q, K)'
  BY <1>1, <1>2 DEF Leads
<1>4. Size(q, K)' = Size(q, K) /\ Size(q, K) \in 0..(Len(K) + 1)
  BY Links DEF Size
<1>5. Along(q, K)' = Along(q, K)
  <2>1. \A i \in 1..Size(q, K) : i - 1 \in 0..Len(K)
    BY <1>4, Links
  <2>2. QED BY <1>1, <1>4, <2>1 DEF Along, Bare
<1>6. AsSequence(q) = Along(q, K)
  BY SequenceIs DEF SequenceHolds
<1>7. AsSequence(q)' = Along(q, K)'
  BY <1>3, SequenceIsNext DEF SequenceHolds
<1>8. QED BY <1>3, <1>5, <1>6, <1>7

\* A step that changes one list.
LEMMA OneChanges ==
  ASSUME IInv, IInv', Listed, NEW p \in Ptrs, NEW M \in Seq(Addrs), Leads(p, M)',
         \A q \in Ptrs : q # p => CDataCache'[q] = CDataCache[q],
         \A q \in Ptrs, K \in Seq(Addrs) : q # p /\ Leads(q, K) =>
           \A i \in 1..Len(K) : heap'[K[i]] = heap[K[i]]
  PROVE  Listed' /\ Chains' = [Chains EXCEPT ![p] = Along(p, M)']
<1>1. ASSUME NEW q \in Ptrs, q # p
      PROVE  AsSequence(q)' = AsSequence(q) /\ \E K \in Seq(Addrs) : Leads(q, K)'
  <2>1. PICK K \in Seq(Addrs) : Leads(q, K)
    BY DEF Listed
  <2>2. CDataCache'[q] = CDataCache[q] /\ \A i \in 1..Len(K) : heap'[K[i]] = heap[K[i]]
    BY <1>1, <2>1
  <2>3. QED BY <2>1, <2>2, Untouched
<1>2. AsSequence(p)' = Along(p, M)'
  BY SequenceIsNext DEF SequenceHolds
<1>3. Listed'
  BY <1>1 DEF Listed
<1>4. Chains' = [q \in Ptrs |-> IF q = p THEN Along(p, M)' ELSE AsSequence(q)]
  BY <1>1, <1>2 DEF Chains
<1>5. QED BY <1>3, <1>4 DEF Chains

\* A step that changes none.
LEMMA NoneChanges ==
  ASSUME IInv, IInv', Listed, UNCHANGED <<CDataCache, heap>>
  PROVE  Listed' /\ Chains' = Chains
<1>1. ASSUME NEW q \in Ptrs
      PROVE  AsSequence(q)' = AsSequence(q) /\ \E K \in Seq(Addrs) : Leads(q, K)'
  <2>1. PICK K \in Seq(Addrs) : Leads(q, K)
    BY DEF Listed
  <2>2. QED BY <2>1, Untouched
<1>2. QED BY <1>1 DEF Listed, Chains

\* Two sequences of the same length and the same elements.
LEMMA SameSeq ==
  ASSUME NEW s, NEW t, NEW n, s = [i \in 1..n |-> s[i]], t = [i \in 1..n |-> t[i]],
         \A i \in 1..n : s[i] = t[i]
  PROVE  s = t
OBVIOUS

LEMMA FirstBound ==
  ASSUME IInv, IInv', Listed, NEW p \in Ptrs, NEW T \in TypeIds, NEW v \in Values, BindFirst(p, T, v)
  PROVE  /\ Listed'
         /\ Chains' = [Chains EXCEPT ![p] = AddNode(Chains[p], [TypeId |-> T, Value |-> v])]
<1> DEFINE n == [TypeId |-> T, Value |-> v, Next |-> NULL]
<1>1. /\ CDataCache[p] = NULL /\ heap' = heap /\ CDataCache' = [CDataCache EXCEPT ![p] = n]
      /\ << >> \in Seq(Addrs)
  BY DEF BindFirst
<1>2. /\ CDataCache'[p] = n /\ \A q \in Ptrs : q # p => CDataCache'[q] = CDataCache[q]
      /\ n \in Node
  BY <1>1 DEF IInv, TypeOK, Node
<1>3. n # NULL /\ n.TypeId = T /\ n.Value = v /\ n.Next = NULL
  BY <1>2, NullAssumption
<1> HIDE DEF n
<1>4. Leads(p, << >>) /\ Leads(p, << >>)'
  <2>1. Leads(p, << >>)
    BY <1>1 DEF Leads
  <2>2. Len(<< >>) = 0 /\ \A k \in 0..0 : k = 0 /\ Cell(<< >>, k + 1) = NULL
    BY DEF Cell
  <2>3. Leads(p, << >>)'
    BY <1>2, <1>3, <2>2 DEF Leads, Place, Cell
  <2>4. QED BY <2>1, <2>3
<1>5. Listed' /\ Chains' = [Chains EXCEPT ![p] = Along(p, << >>)']
  BY <1>1, <1>2, <1>4, OneChanges
<1>6. Chains[p] = Along(p, << >>) /\ Len(Chains[p]) = 0
  BY <1>1, <1>4, SequenceIs, AlongNodes DEF SequenceHolds, Chains, Size
<1>7. Along(p, << >>)' = [i \in 1..1 |-> Bare(n)]
  <2>1. Size(p, << >>)' = 1
    BY <1>2, <1>3 DEF Size
  <2>2. \A i \in 1..1 : Place(p, << >>, i - 1)' = n
    BY <1>2 DEF Place
  <2>3. QED BY <2>1, <2>2 DEF Along, Bare
<1>8. AddNode(Chains[p], [TypeId |-> T, Value |-> v]) = [i \in 1..1 |-> [TypeId |-> T, Value |-> v]]
  BY <1>6 DEF AddNode
<1>9. QED BY <1>3, <1>5, <1>7, <1>8 DEF Bare

LEMMA MoreBound ==
  ASSUME IInv, IInv', Listed, NEW p \in Ptrs, NEW T \in TypeIds, NEW v \in Values, BindMore(p, T, v)
  PROVE  /\ Listed'
         /\ Chains' = [Chains EXCEPT ![p] = AddNode(Chains[p], [TypeId |-> T, Value |-> v])]
<1>1. PICK x \in Addrs :
        /\ heap[x] = NULL
        /\ heap' = [heap EXCEPT ![x] = [TypeId |-> T, Value |-> v, Next |-> CDataCache[p].Next]]
        /\ CDataCache' = [CDataCache EXCEPT ![p].Next = x]
        /\ CDataCache[p] # NULL
  BY DEF BindMore
<1>2. PICK L \in Seq(Addrs) : Leads(p, L)
  BY DEF Listed
<1>3. /\ CDataCache'[p] # NULL /\ CDataCache'[p].Next = x
      /\ CDataCache'[p].TypeId = CDataCache[p].TypeId /\ CDataCache'[p].Value = CDataCache[p].Value
      /\ \A q \in Ptrs : q # p => CDataCache'[q] = CDataCache[q]
      /\ heap'[x] # NULL /\ heap'[x].Next = CDataCache[p].Next
      /\ heap'[x].TypeId = T /\ heap'[x].Value = v
      /\ \A b \in Addrs \ {x} : heap'[b] = heap[b]
  BY <1>1, NullAssumption DEF IInv, TypeOK, Node
<1>4. \A q \in Ptrs, K \in Seq(Addrs) : Leads(q, K) =>
        \A i \in 1..Len(K) : K[i] \in Addrs /\ K[i] # x /\ heap'[K[i]] = heap[K[i]]
  <2>1. \A q \in Ptrs, K \in Seq(Addrs) : Leads(q, K) =>
          \A i \in 1..Len(K) : K[i] \in Addrs /\ K[i] # x
    BY <1>1, Pointers
  <2>2. QED BY <1>3, <2>1
<1>5. PICK M \in Seq(Addrs) :
        /\ Len(M) = Len(L) + 1 /\ M[1] = x
        /\ \A k \in 1..Len(L) : M[k + 1] = L[k]
  <2> DEFINE m == [i \in 1..(Len(L) + 1) |-> IF i = 1 THEN x ELSE L[i - 1]]
  <2>1. m \in Seq(Addrs) /\ Len(m) = Len(L) + 1
    <3>1. Len(L) + 1 \in Nat /\ \A i \in 1..(Len(L) + 1) : m[i] \in Addrs
      OBVIOUS
    <3>2. m \in [1..(Len(L) + 1) -> Addrs]
      BY <3>1
    <3> HIDE DEF m
    <3>3. QED BY <3>1, <3>2
  <2>2. m[1] = x /\ \A k \in 1..Len(L) : m[k + 1] = L[k]
    OBVIOUS
  <2>3. QED BY <2>1, <2>2
<1>6. Len(L) \in Nat /\ 1 \in 1..Len(M)
  BY <1>5
<1>7. /\ Place(p, M, 0)' = CDataCache'[p] /\ Place(p, M, 1)' = heap'[x]
      /\ \A k \in 1..Len(L) : Place(p, M, k + 1)' = Place(p, L, k)
  <2>1. Place(p, M, 0)' = CDataCache'[p] /\ Place(p, M, 1)' = heap'[x]
    BY <1>5 DEF Place
  <2>2. ASSUME NEW k \in 1..Len(L) PROVE Place(p, M, k + 1)' = Place(p, L, k)
    <3>1. k + 1 # 0 /\ k # 0 /\ M[k + 1] = L[k] /\ heap'[L[k]] = heap[L[k]]
      BY <1>2, <1>4, <1>5
    <3>2. QED BY <3>1 DEF Place
  <2>3. QED BY <2>1, <2>2
<1>8. \A k \in 0..Len(L) : Cell(M, k + 2) = Cell(L, k + 1)
  BY <1>5, <1>6 DEF Cell
<1>9. CDataCache[p].Next = Cell(L, 1)
  <2>1. Place(p, L, 0).Next = Cell(L, 0 + 1)
    BY <1>1, <1>2, <1>6, Links
  <2>2. QED BY <2>1 DEF Place
<1>10. Leads(p, M)'
  <2>1. ASSUME NEW k \in 0..Len(M)
        PROVE  Place(p, M, k)' # NULL /\ Place(p, M, k)'.Next = Cell(M, k + 1)'
    <3>1. CASE k = 0
      BY <1>3, <1>5, <1>6, <1>7, <3>1 DEF Cell
    <3>2. CASE k = 1
      <4>1. Cell(M, 2) = Cell(L, 1)
        BY <1>6, <1>8
      <4>2. QED BY <1>3, <1>7, <1>9, <3>2, <4>1 DEF Cell
    <3>3. CASE k \notin {0, 1}
      <4>1. PICK l \in 1..Len(L) : k = l + 1
        BY <1>5, <1>6, <3>3
      <4>2. Place(p, M, k)' # NULL /\ Place(p, M, k)'.Next = Cell(L, l + 1)
        BY <1>1, <1>2, <1>7, <4>1, Links
      <4>3. Cell(L, l + 1) = Cell(M, k + 1)
        BY <1>8, <4>1
      <4>4. QED BY <4>2, <4>3 DEF Cell
    <3>4. QED BY <3>1, <3>2, <3>3
  <2>2. QED BY <1>3, <2>1 DEF Leads
<1>11. Listed' /\ Chains' = [Chains EXCEPT ![p] = Along(p, M)']
  BY <1>3, <1>4, <1>10, OneChanges
<1>12. /\ Chains[p] = Along(p, L) /\ Len(Chains[p]) = Len(L) + 1
       /\ \A i \in 1..(Len(L) + 1) : Chains[p][i] = Bare(Place(p, L, i - 1))
  BY <1>1, <1>2, SequenceIs, AlongNodes DEF SequenceHolds, Chains, Size
<1> DEFINE n == [TypeId |-> T, Value |-> v]
           A == AddNode(Chains[p], n)
<1>13. A = [i \in 1..(Len(L) + 2) |->
              IF i = 1 THEN Chains[p][1] ELSE IF i = 2 THEN n ELSE Chains[p][i - 1]]
  BY <1>6, <1>12 DEF AddNode
<1>14. Size(p, M)' = Len(L) + 2
  BY <1>3, <1>5, <1>6 DEF Size
<1>15. ASSUME NEW i \in 1..(Len(L) + 2) PROVE Bare(Place(p, M, i - 1))' = A[i]
  <2>1. CASE i = 1
    <3>1. A[i] = Bare(Place(p, L, 0))
      BY <1>6, <1>12, <1>13, <2>1
    <3>2. QED BY <1>3, <1>7, <2>1, <3>1 DEF Bare, Place
  <2>2. CASE i = 2
    <3>1. A[i] = n
      BY <1>13, <2>2
    <3>2. QED BY <1>3, <1>7, <2>2, <3>1 DEF Bare
  <2>3. CASE i \notin {1, 2}
    <3>1. PICK k \in 1..Len(L) : i = k + 2
      BY <1>6, <2>3
    <3>2. k + 1 \in 1..(Len(L) + 1) /\ i - 1 = k + 1 /\ (k + 1) - 1 = k
      BY <1>6, <3>1
    <3>3. A[i] = Chains[p][k + 1]
      BY <1>13, <2>3, <3>1, <3>2
    <3>4. A[i] = Bare(Place(p, L, k))
      BY <1>12, <3>2, <3>3
    <3>5. QED BY <1>7, <3>1, <3>2, <3>4 DEF Bare
  <2>4. QED BY <2>1, <2>2, <2>3
<1>16. Along(p, M)' = A
  <2>1. Along(p, M)' = [i \in 1..(Len(L) + 2) |-> Bare(Place(p, M, i - 1))']
    BY <1>14 DEF Along
  <2> HIDE DEF A
  <2>2. A = [i \in 1..(Len(L) + 2) |-> A[i]]
    BY <1>13
  <2>3. QED BY <1>15, <2>1, <2>2
<1>17. QED BY <1>11, <1>16

\* The node k places behind the head is the first of its type.
FirstPlace(p, L, k, T) ==
  /\ Place(p, L, k).TypeId = T
  /\ \A j \in 0..(k - 1) : Place(p, L, j).TypeId # T

\* The first node of a type on a list, as a position of the sequence.
LEMMA FirstAlong ==
  ASSUME IInv, NEW p \in Ptrs, NEW T, NEW L \in Seq(Addrs), Leads(p, L), CDataCache[p] # NULL,
         NEW k \in 0..Len(L), FirstPlace(p, L, k, T)
  PROVE  Positions(Along(p, L), T) # {} /\ FirstOf(Along(p, L), T) = k + 1
<1> PICK s : s = Along(p, L)
  OBVIOUS
<1>1. Len(L) \in Nat /\ Size(p, L) = Len(L) + 1
  BY Links DEF Size
<1>2. /\ s \in Seq(BareNode) /\ Len(s) = Len(L) + 1
      /\ \A i \in 1..(Len(L) + 1) : s[i] = Bare(Place(p, L, i - 1))
  BY <1>1, AlongNodes
<1>3. k + 1 \in 1..Len(s) /\ (k + 1) - 1 = k
  BY <1>1, <1>2
<1>4. s[k + 1].TypeId = T
  BY <1>2, <1>3 DEF Bare, FirstPlace
<1>5. ASSUME NEW j \in 1..Len(s), j < k + 1 PROVE s[j].TypeId # T
  <2>1. j - 1 \in 0..(k - 1)
    BY <1>1, <1>2, <1>5
  <2>2. s[j] = Bare(Place(p, L, j - 1))
    BY <1>2
  <2>3. QED BY <2>1, <2>2 DEF Bare, FirstPlace
<1> PICK m : m = k + 1
  OBVIOUS
<1>6. m \in Positions(s, T)
  BY <1>3, <1>4 DEF Positions
<1>7. \A j \in Positions(s, T) : m <= j
  <2>1. ASSUME NEW j \in Positions(s, T) PROVE m <= j
    <3>1. j \in 1..Len(s) /\ ~(j < k + 1)
      BY <1>5 DEF Positions
    <3>2. QED BY <1>2, <3>1
  <2>2. QED BY <2>1
<1>8. Positions(s, T) # {} /\ FirstOf(s, T) = m
  BY <1>2, <1>6, <1>7, FirstAt
<1>9. QED BY <1>8

\* M is the list without the node k places behind the head.
Drops(p, L, k, M) ==
  /\ Size(p, M)' = Len(L)
  /\ \A i \in 1..Len(L) :
       Bare(Place(p, M, i - 1))' = IF i < k + 1 THEN Bare(Place(p, L, i - 1)) ELSE Bare(Place(p, L, i))

LEMMA FirstDropped ==
  ASSUME IInv, NEW p \in Ptrs, NEW T, NEW L \in Seq(Addrs), Leads(p, L), CDataCache[p] # NULL,
         NEW k \in 0..Len(L), FirstPlace(p, L, k, T), NEW M \in Seq(Addrs), Drops(p, L, k, M)
  PROVE  Along(p, M)' = RemoveFirst(Along(p, L), T)
<1> PICK s : s = Along(p, L)
  OBVIOUS
<1>1. Len(L) \in Nat /\ Size(p, L) = Len(L) + 1
  BY Links DEF Size
<1>2. /\ s \in Seq(BareNode) /\ Len(s) = Len(L) + 1
      /\ \A i \in 1..(Len(L) + 1) : s[i] = Bare(Place(p, L, i - 1))
  BY <1>1, AlongNodes
<1>3. RemoveFirst(s, T) = Without(s, k + 1)
  <2>1. Positions(s, T) # {} /\ FirstOf(s, T) = k + 1
    BY FirstAlong
  <2>2. QED BY <2>1 DEF RemoveFirst
<1>4. Without(s, k + 1) = [i \in 1..Len(L) |-> IF i < k + 1 THEN s[i] ELSE s[i + 1]]
  BY <1>1, <1>2 DEF Without
<1>5. ASSUME NEW i \in 1..Len(L)
      PROVE  Bare(Place(p, M, i - 1))' = IF i < k + 1 THEN s[i] ELSE s[i + 1]
  <2>1. i \in 1..(Len(L) + 1) /\ i + 1 \in 1..(Len(L) + 1) /\ (i + 1) - 1 = i
    BY <1>1
  <2>2. s[i] = Bare(Place(p, L, i - 1)) /\ s[i + 1] = Bare(Place(p, L, i))
    BY <1>2, <2>1
  <2>3. QED BY <2>2 DEF Drops
<1>6. Along(p, M)' = [i \in 1..Len(L) |-> Bare(Place(p, M, i - 1))']
  BY DEF Along, Drops
<1>7. QED BY <1>3, <1>4, <1>5, <1>6

\* The cells of a list without one of them: the others stay where they are.
LEMMA OthersStay ==
  ASSUME IInv, NEW p \in Ptrs, NEW L \in Seq(Addrs), Leads(p, L), NEW k \in 1..Len(L)
  PROVE  /\ \A q \in Ptrs, K \in Seq(Addrs) : q # p /\ Leads(q, K) =>
              \A i \in 1..Len(K) : K[i] \in Addrs /\ \A j \in 1..Len(L) : K[i] # L[j]
         /\ \A i \in 1..Len(L) : i # k => L[i] # L[k]
BY Apart, Links

LEMMA HeadMoved ==
  ASSUME IInv, IInv', Listed, NEW p \in Ptrs, NEW T, p = walk.p, T = walk.T, RemoveHeadMove
  PROVE  Listed' /\ Chains' = [Chains EXCEPT ![p] = RemoveFirst(Chains[p], T)]
<1>1. PICK L \in Seq(Addrs) : Leads(p, L)
  BY DEF Listed
<1>2. /\ CDataCache[p] # NULL /\ CDataCache[p].TypeId = T /\ CDataCache[p].Next # NULL
      /\ CDataCache' = [CDataCache EXCEPT ![p] = heap[CDataCache[p].Next]]
      /\ heap' = [heap EXCEPT ![CDataCache[p].Next] = NULL]
  BY DEF RemoveHeadMove, Current, IInv, WalkSound, Idle
<1>3. Len(L) \in Nat /\ CDataCache[p].Next = Cell(L, 1)
  <2>1. Len(L) \in Nat
    OBVIOUS
  <2>2. Place(p, L, 0).Next = Cell(L, 0 + 1)
    BY <1>1, <1>2, <2>1, Links
  <2>3. QED BY <2>1, <2>2 DEF Place
<1>4. 1 \in 1..Len(L) /\ CDataCache[p].Next = L[1]
  BY <1>2, <1>3 DEF Cell
<1>5. /\ L[1] \in Addrs /\ heap[L[1]] # NULL
      /\ CDataCache'[p] = heap[L[1]]
      /\ \A q \in Ptrs : q # p => CDataCache'[q] = CDataCache[q]
      /\ \A b \in Addrs \ {L[1]} : heap'[b] = heap[b]
  BY <1>1, <1>2, <1>4, Pointers DEF IInv, TypeOK
<1>6. \A q \in Ptrs, K \in Seq(Addrs) : q # p /\ Leads(q, K) =>
        \A i \in 1..Len(K) : heap'[K[i]] = heap[K[i]]
  BY <1>1, <1>4, <1>5, OthersStay
<1>7. PICK M \in Seq(Addrs) : Len(M) = Len(L) - 1 /\ \A i \in 1..Len(M) : M[i] = L[i + 1]
  <2> DEFINE m == [i \in 1..(Len(L) - 1) |-> L[i + 1]]
  <2>1. Len(L) - 1 \in Nat /\ \A i \in 1..(Len(L) - 1) : L[i + 1] \in Addrs
    BY <1>4
  <2>2. m \in [1..(Len(L) - 1) -> Addrs]
    BY <2>1
  <2>3. \A i \in 1..(Len(L) - 1) : m[i] = L[i + 1]
    OBVIOUS
  <2> HIDE DEF m
  <2>4. m \in Seq(Addrs) /\ Len(m) = Len(L) - 1
    BY <2>1, <2>2
  <2>5. QED BY <2>3, <2>4
<1>8. \A k \in 0..Len(M) : Place(p, M, k)' = Place(p, L, k + 1)
  <2>1. Place(p, M, 0)' = Place(p, L, 0 + 1)
    BY <1>4, <1>5 DEF Place
  <2>2. ASSUME NEW k \in 1..Len(M) PROVE Place(p, M, k)' = Place(p, L, k + 1)
    <3>1. k + 1 \in 1..Len(L) /\ k + 1 # 1 /\ k # 0 /\ k + 1 # 0
      BY <1>3, <1>7
    <3>2. L[k + 1] \in Addrs /\ L[k + 1] # L[1]
      BY <1>1, <1>4, <3>1, OthersStay
    <3>3. M[k] = L[k + 1] /\ heap'[L[k + 1]] = heap[L[k + 1]]
      BY <1>5, <1>7, <3>2
    <3>4. QED BY <3>1, <3>3 DEF Place
  <2>3. QED BY <2>1, <2>2
<1>9. \A k \in 0..Len(M) : Cell(M, k + 1) = Cell(L, k + 2)
  BY <1>3, <1>7 DEF Cell
<1>10. Leads(p, M)'
  <2>1. ASSUME NEW k \in 0..Len(M)
        PROVE  Place(p, M, k)' # NULL /\ Place(p, M, k)'.Next = Cell(M, k + 1)'
    <3>1. k + 1 \in 0..Len(L) /\ (k + 1) + 1 = k + 2
      BY <1>3, <1>4, <1>7
    <3>2. Place(p, L, k + 1) # NULL /\ Place(p, L, k + 1).Next = Cell(L, k + 2)
      BY <1>1, <1>2, <3>1, Links
    <3>3. QED BY <1>8, <1>9, <3>2 DEF Cell
  <2>2. CDataCache'[p] # NULL
    BY <1>5
  <2>3. QED BY <2>1, <2>2 DEF Leads
<1>11. Listed' /\ Chains' = [Chains EXCEPT ![p] = Along(p, M)']
  BY <1>5, <1>6, <1>10, OneChanges
<1>12. Along(p, M)' = RemoveFirst(Along(p, L), T)
  <2>1. Size(p, M)' = Len(L)
    BY <1>3, <1>5, <1>7 DEF Size
  <2> PICK k : k = 0
    OBVIOUS
  <2>2. k \in 0..Len(L) /\ FirstPlace(p, L, k, T)
    BY <1>2, <1>3 DEF Place, FirstPlace
  <2>3. ASSUME NEW i \in 1..Len(L)
        PROVE  Bare(Place(p, M, i - 1))'
                 = IF i < k + 1 THEN Bare(Place(p, L, i - 1)) ELSE Bare(Place(p, L, i))
    <3>1. i - 1 \in 0..Len(M) /\ (i - 1) + 1 = i /\ ~(i < k + 1)
      BY <1>3, <1>7
    <3>2. Place(p, M, i - 1)' = Place(p, L, i)
      BY <1>8, <3>1
    <3>3. QED BY <3>1, <3>2 DEF Bare
  <2>4. Drops(p, L, k, M)
    BY <2>1, <2>3 DEF Drops
  <2>5. QED BY <1>1, <1>2, <2>2, <2>4, FirstDropped
<1>13. Chains[p] = Along(p, L)
  BY <1>1, SequenceIs DEF SequenceHolds, Chains
<1>14. QED BY <1>11, <1>12, <1>13

LEMMA HeadErased ==
  ASSUME IInv, IInv', Listed, NEW p \in Ptrs, NEW T, p = walk.p, T = walk.T, RemoveHeadLast
  PROVE  Listed' /\ Chains' = [Chains EXCEPT ![p] = RemoveFirst(Chains[p], T)]
<1>1. PICK L \in Seq(Addrs) : Leads(p, L)
  BY DEF Listed
<1>2. /\ CDataCache[p] # NULL /\ CDataCache[p].TypeId = T /\ CDataCache[p].Next = NULL
      /\ CDataCache' = [CDataCache EXCEPT ![p] = NULL] /\ heap' = heap
  BY DEF RemoveHeadLast, Current, IInv, WalkSound, Idle
<1>3. Len(L) = 0
  <2>1. Len(L) \in Nat
    OBVIOUS
  <2>2. Place(p, L, 0).Next = Cell(L, 0 + 1)
    BY <1>1, <1>2, <2>1, Links
  <2>3. Cell(L, 1) = NULL
    BY <1>2, <2>2 DEF Place
  <2>4. Len(L) > 0 => Cell(L, 1) # NULL
    BY <1>1, <2>1, Links DEF Cell
  <2>5. QED BY <2>1, <2>3, <2>4
<1>4. CDataCache'[p] = NULL /\ \A q \in Ptrs : q # p => CDataCache'[q] = CDataCache[q]
  BY <1>2 DEF IInv, TypeOK
<1>5. PICK M \in Seq(Addrs) : M = << >> /\ Leads(p, M)'
  <2>1. << >> \in Seq(Addrs) /\ Leads(p, << >>)'
    BY <1>4 DEF Leads
  <2>2. QED BY <2>1
<1>6. Listed' /\ Chains' = [Chains EXCEPT ![p] = Along(p, M)']
  BY <1>2, <1>4, <1>5, OneChanges
<1>7. Along(p, M)' = RemoveFirst(Along(p, L), T)
  <2>1. Size(p, M)' = Len(L)
    BY <1>3, <1>4 DEF Size
  <2>2. PICK k \in 0..Len(L) : k = 0 /\ FirstPlace(p, L, k, T)
    <3> PICK k : k = 0
      OBVIOUS
    <3>1. k \in 0..Len(L) /\ FirstPlace(p, L, k, T)
      BY <1>2, <1>3 DEF Place, FirstPlace
    <3>2. QED BY <3>1
  <2>3. \A i \in 1..Len(L) :
          Bare(Place(p, M, i - 1))'
            = IF i < k + 1 THEN Bare(Place(p, L, i - 1)) ELSE Bare(Place(p, L, i))
    BY <1>3
  <2>4. Drops(p, L, k, M)
    BY <2>1, <2>3 DEF Drops
  <2>5. CDataCache[p] # NULL /\ Leads(p, L) /\ FirstPlace(p, L, k, T)
    BY <1>1, <1>2, <2>2
  <2>6. QED BY <2>4, <2>5, FirstDropped
<1>8. Chains[p] = Along(p, L)
  BY <1>1, SequenceIs DEF SequenceHolds, Chains
<1>9. QED BY <1>6, <1>7, <1>8

LEMMA InnerRemoved ==
  ASSUME IInv, IInv', Listed, WalkPlaced, NEW p \in Ptrs, NEW T, p = walk.p, T = walk.T, RemoveInner
  PROVE  Listed' /\ Chains' = [Chains EXCEPT ![p] = RemoveFirst(Chains[p], T)]
<1> PICK L \in Seq(Addrs) : \E k \in 0..Len(L) :
      /\ Leads(p, L)
      /\ walk.at = Cell(L, k) /\ walk.prev = Cell(L, k - 1)
      /\ \A j \in 0..(k - 1) : Place(p, L, j).TypeId # T
  BY DEF WalkPlaced, RemoveInner, Idle
<1>1. PICK k \in 0..Len(L) :
        /\ Leads(p, L)
        /\ walk.at = Cell(L, k) /\ walk.prev = Cell(L, k - 1)
        /\ \A j \in 0..(k - 1) : Place(p, L, j).TypeId # T
  OBVIOUS
<1>2. Len(L) \in Nat /\ k \in 1..Len(L) /\ walk.at = L[k] /\ CDataCache[p] # NULL
  <2>1. Len(L) \in Nat
    OBVIOUS
  <2>2. k \in 1..Len(L) /\ walk.at = L[k]
    BY <1>1 DEF Cell, RemoveInner
  <2>3. QED BY <1>1, <2>1, <2>2, Links
<1> PICK x, n : x = L[k] /\ n = heap[x].Next
  OBVIOUS
<1>3. /\ x \in Addrs /\ heap[x] # NULL /\ heap[x].TypeId = T /\ n = Cell(L, k + 1)
      /\ n \in Addrs \cup {NULL}
  <2>1. x \in Addrs /\ heap[x] # NULL
    BY <1>1, <1>2, Pointers
  <2>2. heap[x].TypeId = T
    BY <1>2, <2>1, NullAssumption DEF RemoveInner, Current
  <2>3. k \in 0..Len(L) /\ k # 0
    BY <1>2
  <2>4. Place(p, L, k).Next = Cell(L, k + 1)
    BY <1>1, <1>2, <2>3, Links
  <2>5. QED BY <2>1, <2>2, <2>3, <2>4 DEF Place, IInv, TypeOK, Node
<1>4. /\ CDataCache' = IF walk.prev = NULL THEN [CDataCache EXCEPT ![p].Next = n] ELSE CDataCache
      /\ heap' = [a \in Addrs |-> IF a = x THEN NULL
                                  ELSE IF a = walk.prev THEN [heap[a] EXCEPT !.Next = n]
                                  ELSE heap[a]]
  BY <1>2, <1>3, NullAssumption DEF RemoveInner, Relink, Current
<1>5. \A q \in Ptrs : q # p => CDataCache'[q] = CDataCache[q]
  BY <1>4 DEF IInv, TypeOK
<1>6. k = 1 <=> walk.prev = NULL
  BY <1>1, <1>2, Links DEF Cell
<1>7. k # 1 => k - 1 \in 1..Len(L) /\ walk.prev = L[k - 1]
  BY <1>1, <1>2 DEF Cell
<1>8. ASSUME NEW q \in Ptrs, NEW K \in Seq(Addrs), q # p, Leads(q, K), NEW i \in 1..Len(K)
      PROVE  heap'[K[i]] = heap[K[i]]
  <2>1. K[i] \in Addrs /\ \A j \in 1..Len(L) : K[i] # L[j]
    BY <1>1, <1>2, <1>8, OthersStay
  <2>2. K[i] # x /\ K[i] # walk.prev
    BY <1>2, <1>6, <1>7, <2>1, NullAssumption
  <2>3. QED BY <1>4, <2>1, <2>2
<1>9. ASSUME NEW j \in 0..Len(L), j # k, j # k - 1 PROVE Place(p, L, j)' = Place(p, L, j)
  <2>1. CASE j = 0
    BY <1>2, <1>4, <1>6, <1>9, <2>1 DEF Place
  <2>2. CASE j # 0
    <3>1. j \in 1..Len(L)
      BY <1>2, <2>2
    <3>2. L[j] \in Addrs /\ L[j] # x
      BY <1>1, <1>2, <1>9, <3>1, OthersStay
    <3>3. L[j] # walk.prev
      BY <1>1, <1>2, <1>6, <1>7, <1>9, <3>1, <3>2, OthersStay, NullAssumption
    <3>4. heap'[L[j]] = heap[L[j]]
      BY <1>4, <3>2, <3>3
    <3>5. QED BY <2>2, <3>4 DEF Place
  <2>3. QED BY <2>1, <2>2
<1>10. /\ Place(p, L, k - 1)' # NULL /\ Place(p, L, k - 1)'.Next = n
       /\ Place(p, L, k - 1)'.TypeId = Place(p, L, k - 1).TypeId
       /\ Place(p, L, k - 1)'.Value = Place(p, L, k - 1).Value
  <2>1. k - 1 \in 0..Len(L)
    BY <1>2
  <2>2. Place(p, L, k - 1) \in Node /\ Place(p, L, k - 1) # NULL
    BY <1>1, <1>2, <2>1, Links
  <2> PICK c : c = [Place(p, L, k - 1) EXCEPT !.Next = n]
    OBVIOUS
  <2>3. /\ c \in Node /\ c.Next = n
        /\ c.TypeId = Place(p, L, k - 1).TypeId /\ c.Value = Place(p, L, k - 1).Value
    BY <1>3, <2>2 DEF Node
  <2>4. Place(p, L, k - 1)' = c
    <3>1. CASE k = 1
      <4>1. CDataCache' = [CDataCache EXCEPT ![p].Next = n]
        BY <1>4, <1>6, <3>1
      <4>2. CDataCache'[p] = [CDataCache[p] EXCEPT !.Next = n]
        BY <4>1 DEF IInv, TypeOK
      <4>3. QED BY <3>1, <4>2 DEF Place
    <3>2. CASE k # 1
      <4>1. L[k - 1] \in Addrs /\ L[k - 1] # x /\ k - 1 # 0
        BY <1>1, <1>2, <1>7, <3>2, OthersStay, Links
      <4>2. heap'[L[k - 1]] = [heap[L[k - 1]] EXCEPT !.Next = n]
        BY <1>4, <1>7, <3>2, <4>1
      <4>3. QED BY <4>1, <4>2 DEF Place
    <3>3. QED BY <3>1, <3>2
  <2>5. QED BY <2>3, <2>4, NullAssumption
<1> DEFINE M == Without(L, k)
<1>11. /\ M \in Seq(Addrs) /\ Len(M) = Len(L) - 1
       /\ \A i \in 1..(Len(L) - 1) : M[i] = IF i < k THEN L[i] ELSE L[i + 1]
  <2>1. L # << >>
    BY <1>2
  <2>2. QED BY <2>1, WithoutFacts
<1> HIDE DEF M
<1>12. \A j \in 0..Len(M) : Place(p, M, j)' = IF j < k THEN Place(p, L, j)' ELSE Place(p, L, j + 1)'
  <2>1. ASSUME NEW j \in 0..Len(M), j # 0
        PROVE  Place(p, M, j)' = IF j < k THEN Place(p, L, j)' ELSE Place(p, L, j + 1)'
    <3>1. j + 1 # 0 /\ j \in 1..(Len(L) - 1)
      BY <1>2, <1>11, <2>1
    <3>2. M[j] = IF j < k THEN L[j] ELSE L[j + 1]
      BY <1>11, <3>1
    <3>3. QED BY <2>1, <3>1, <3>2 DEF Place
  <2>2. Place(p, M, 0)' = Place(p, L, 0)'
    BY DEF Place
  <2>3. QED BY <1>2, <2>1, <2>2
<1>13. /\ \A j \in 0..Len(M) : j + 1 < k => Cell(M, j + 1) = Cell(L, j + 1)
       /\ \A j \in 0..Len(M) : ~(j + 1 < k) => Cell(M, j + 1) = Cell(L, j + 2)
  BY <1>2, <1>11 DEF Cell
<1>14. Leads(p, M)' /\ CDataCache'[p] # NULL
  <2>1. ASSUME NEW j \in 0..Len(M)
        PROVE  Place(p, M, j)' # NULL /\ Place(p, M, j)'.Next = Cell(M, j + 1)'
    <3>1. CASE j < k - 1
      <4>1. j \in 0..Len(L) /\ j # k /\ j # k - 1 /\ j < k /\ j + 1 < k
        BY <1>2, <1>11, <3>1
      <4>2. Place(p, M, j)' = Place(p, L, j)
        BY <1>9, <1>12, <4>1
      <4>3. Place(p, L, j) # NULL /\ Place(p, L, j).Next = Cell(L, j + 1)
        BY <1>1, <1>2, <4>1, Links
      <4>4. QED BY <1>13, <4>1, <4>2, <4>3 DEF Cell
    <3>2. CASE j = k - 1
      <4>1. j < k /\ ~(j + 1 < k) /\ j + 2 = k + 1
        BY <1>2, <3>2
      <4>2. Place(p, M, j)' = Place(p, L, k - 1)'
        BY <1>12, <3>2, <4>1
      <4>3. Cell(M, j + 1) = n
        BY <1>3, <1>13, <4>1
      <4>4. QED BY <1>10, <4>2, <4>3 DEF Cell
    <3>3. CASE j > k - 1
      <4>1. /\ j + 1 \in 0..Len(L) /\ j + 1 # k /\ j + 1 # k - 1 /\ ~(j < k) /\ ~(j + 1 < k)
            /\ (j + 1) + 1 = j + 2
        BY <1>2, <1>11, <3>3
      <4>2. Place(p, M, j)' = Place(p, L, j + 1)
        BY <1>9, <1>12, <4>1
      <4>3. Place(p, L, j + 1) # NULL /\ Place(p, L, j + 1).Next = Cell(L, j + 2)
        BY <1>1, <1>2, <4>1, Links
      <4>4. QED BY <1>13, <4>1, <4>2, <4>3 DEF Cell
    <3>4. QED BY <1>2, <1>11, <3>1, <3>2, <3>3
  <2>2. CDataCache'[p] # NULL
    <3>1. Place(p, L, 0)' # NULL
      <4>1. CASE k = 1
        BY <1>10, <4>1
      <4>2. CASE k # 1
        BY <1>2, <1>9, <4>2 DEF Place
      <4>3. QED BY <4>1, <4>2
    <3>2. QED BY <3>1 DEF Place
  <2>3. QED BY <2>1, <2>2 DEF Leads
<1>15. Listed' /\ Chains' = [Chains EXCEPT ![p] = Along(p, M)']
  BY <1>5, <1>8, <1>11, <1>14, OneChanges
<1>16. Along(p, M)' = RemoveFirst(Along(p, L), T)
  <2>1. Size(p, M)' = Len(L)
    BY <1>2, <1>11, <1>14 DEF Size
  <2>2. FirstPlace(p, L, k, T)
    BY <1>1, <1>2, <1>3 DEF Place, FirstPlace
  <2>3. ASSUME NEW i \in 1..Len(L)
        PROVE  Bare(Place(p, M, i - 1))'
                 = IF i < k + 1 THEN Bare(Place(p, L, i - 1)) ELSE Bare(Place(p, L, i))
    <3>1. i - 1 \in 0..Len(M) /\ i \in 0..Len(L) /\ (i - 1) + 1 = i
      BY <1>2, <1>11
    <3>2. CASE i < k
      BY <1>2, <1>9, <1>12, <3>1, <3>2 DEF Bare
    <3>3. CASE i = k
      BY <1>2, <1>10, <1>12, <3>1, <3>3 DEF Bare
    <3>4. CASE i > k
      <4>1. i # k /\ i # k - 1 /\ ~(i - 1 < k) /\ ~(i < k + 1)
        BY <1>2, <3>4
      <4>2. Place(p, M, i - 1)' = Place(p, L, i)
        BY <1>9, <1>12, <3>1, <4>1
      <4>3. QED BY <4>1, <4>2 DEF Bare
    <3>5. QED BY <1>2, <3>2, <3>3, <3>4
  <2>4. Drops(p, L, k, M)
    BY <2>1, <2>3 DEF Drops
  <2>5. QED BY <1>1, <1>2, <1>11, <2>2, <2>4, FirstDropped
<1>17. Chains[p] = Along(p, L)
  BY <1>1, SequenceIs DEF SequenceHolds, Chains
<1>18. QED BY <1>15, <1>16, <1>17

\* Where a recursion stands, and what the node it stands at says of the sequence.
LEMMA Standing ==
  ASSUME IInv, WalkPlaced, walk # Idle, NEW p \in Ptrs, NEW T, p = walk.p, T = walk.T
  PROVE  \E L \in Seq(Addrs) : \E k \in 0..Len(L) :
           /\ Leads(p, L) /\ CDataCache[p] # NULL
           /\ walk.at = Cell(L, k) /\ Current = Place(p, L, k) /\ Current.Next = Cell(L, k + 1)
           /\ \A j \in 0..(k - 1) : Place(p, L, j).TypeId # T
<1> PICK L \in Seq(Addrs) : \E k \in 0..Len(L) :
      /\ Leads(p, L)
      /\ walk.at = Cell(L, k) /\ walk.prev = Cell(L, k - 1)
      /\ \A j \in 0..(k - 1) : Place(p, L, j).TypeId # T
  BY DEF WalkPlaced
<1>1. PICK k \in 0..Len(L) :
        /\ Leads(p, L)
        /\ walk.at = Cell(L, k) /\ walk.prev = Cell(L, k - 1)
        /\ \A j \in 0..(k - 1) : Place(p, L, j).TypeId # T
  OBVIOUS
<1>2. CDataCache[p] # NULL
  BY DEF IInv, WalkSound
<1>3. Current = Place(p, L, k)
  <2>1. CASE k = 0
    BY <1>1, <2>1 DEF Cell, Current, Place
  <2>2. CASE k # 0
    <3>1. k \in 1..Len(L)
      BY <2>2
    <3>2. walk.at = L[k] /\ L[k] # NULL
      BY <1>1, <3>1, Links DEF Cell
    <3>3. QED BY <2>2, <3>2 DEF Current, Place
  <2>3. QED BY <2>1, <2>2
<1>4. Current.Next = Cell(L, k + 1)
  BY <1>1, <1>2, <1>3, Links
<1>5. QED BY <1>1, <1>2, <1>3, <1>4

LEMMA FoundFirst ==
  ASSUME IInv, WalkPlaced, walk # Idle, NEW p \in Ptrs, NEW T, p = walk.p, T = walk.T,
         Current.TypeId = T
  PROVE  /\ Positions(Chains[p], T) # {}
         /\ Current.Value = Chains[p][FirstOf(Chains[p], T)].Value
<1> PICK L \in Seq(Addrs) : \E k \in 0..Len(L) :
      /\ Leads(p, L) /\ CDataCache[p] # NULL
      /\ walk.at = Cell(L, k) /\ Current = Place(p, L, k) /\ Current.Next = Cell(L, k + 1)
      /\ \A j \in 0..(k - 1) : Place(p, L, j).TypeId # T
  BY Standing
<1>1. PICK k \in 0..Len(L) :
        /\ Leads(p, L) /\ CDataCache[p] # NULL /\ Current = Place(p, L, k)
        /\ \A j \in 0..(k - 1) : Place(p, L, j).TypeId # T
  OBVIOUS
<1>2. /\ Positions(Along(p, L), T) # {} /\ FirstOf(Along(p, L), T) = k + 1
      /\ Along(p, L)[k + 1] = Bare(Place(p, L, k))
  <2>1. Leads(p, L) /\ CDataCache[p] # NULL /\ FirstPlace(p, L, k, T)
    BY <1>1 DEF FirstPlace
  <2>2. Along(p, L)[k + 1] = Bare(Place(p, L, k))
    <3>1. Len(L) \in Nat /\ k + 1 \in 1..(Len(L) + 1) /\ (k + 1) - 1 = k
      OBVIOUS
    <3>2. \A i \in 1..(Len(L) + 1) : Along(p, L)[i] = Bare(Place(p, L, i - 1))
      BY <2>1, <3>1, AlongNodes DEF Size
    <3>3. QED BY <3>1, <3>2
  <2>3. QED BY <2>1, <2>2, FirstAlong
<1>3. Chains[p] = Along(p, L)
  BY <1>1, SequenceIs DEF SequenceHolds, Chains
<1>4. QED BY <1>1, <1>2, <1>3 DEF Bare

LEMMA FoundNone ==
  ASSUME IInv, WalkPlaced, walk # Idle, NEW p \in Ptrs, NEW T, p = walk.p, T = walk.T,
         Current.TypeId # T, Current.Next = NULL
  PROVE  Positions(Chains[p], T) = {}
<1> PICK L \in Seq(Addrs) : \E k \in 0..Len(L) :
      /\ Leads(p, L) /\ CDataCache[p] # NULL
      /\ walk.at = Cell(L, k) /\ Current = Place(p, L, k) /\ Current.Next = Cell(L, k + 1)
      /\ \A j \in 0..(k - 1) : Place(p, L, j).TypeId # T
  BY Standing
<1>1. PICK k \in 0..Len(L) :
        /\ Leads(p, L) /\ CDataCache[p] # NULL
        /\ Current = Place(p, L, k) /\ Current.Next = Cell(L, k + 1)
        /\ \A j \in 0..(k - 1) : Place(p, L, j).TypeId # T
  OBVIOUS
<1>2. Len(L) \in Nat /\ k = Len(L)
  <2>1. k + 1 \in 1..Len(L) => Cell(L, k + 1) # NULL
    BY <1>1, Links DEF Cell
  <2>2. QED BY <1>1, <2>1
<1>3. \A j \in 0..Len(L) : Place(p, L, j).TypeId # T
  <2>1. \A j \in 0..Len(L) : j \in 0..(k - 1) \/ j = k
    BY <1>2
  <2>2. QED BY <1>1, <2>1
<1>4. /\ Len(Along(p, L)) = Len(L) + 1
      /\ \A i \in 1..(Len(L) + 1) : Along(p, L)[i] = Bare(Place(p, L, i - 1))
  BY <1>1, AlongNodes DEF Size
<1>5. \A i \in 1..Len(Along(p, L)) : Along(p, L)[i].TypeId # T
  <2>1. ASSUME NEW i \in 1..(Len(L) + 1) PROVE Along(p, L)[i].TypeId # T
    <3>1. i - 1 \in 0..Len(L)
      BY <1>2
    <3>2. Along(p, L)[i] = Bare(Place(p, L, i - 1)) /\ Place(p, L, i - 1).TypeId # T
      BY <1>3, <1>4, <3>1
    <3>3. QED BY <3>2 DEF Bare
  <2>2. QED BY <1>4, <2>1
<1>6. Chains[p] = Along(p, L)
  BY <1>1, SequenceIs DEF SequenceHolds, Chains
<1>7. QED BY <1>5, <1>6 DEF Positions

\* An address without an entry.
LEMMA NoneListed ==
  ASSUME IInv, NEW p \in Ptrs, CDataCache[p] = NULL
  PROVE  Chains[p] = << >>
<1>1. << >> \in Seq(Addrs) /\ Leads(p, << >>)
  BY DEF Leads
<1>2. Chains[p] = Along(p, << >>)
  BY <1>1, SequenceIs DEF SequenceHolds, Chains
<1>3. QED BY <1>2 DEF Along, Size

LEMMA NoneListedNext ==
  ASSUME IInv', \A p \in Ptrs : CDataCache'[p] = NULL
  PROVE  Listed' /\ Chains' = [p \in Ptrs |-> << >>]
<1>1. ASSUME NEW p \in Ptrs PROVE Leads(p, << >>)' /\ AsSequence(p)' = << >>
  <2>1. << >> \in Seq(Addrs) /\ Leads(p, << >>)'
    BY DEF Leads
  <2>2. AsSequence(p)' = Along(p, << >>)'
    BY <2>1, SequenceIsNext DEF SequenceHolds
  <2>3. Along(p, << >>)' = << >>
    BY DEF Along, Size
  <2>4. QED BY <2>1, <2>2, <2>3
<1>2. << >> \in Seq(Addrs)
  OBVIOUS
<1>3. QED BY <1>1, <1>2 DEF Listed, Chains

\* A recursion goes from the head on, one node at a time.
LEMMA WalkStarts ==
  ASSUME IInv, Listed, NEW op, NEW p \in Ptrs, NEW T, StartWalk(op, p, T)
  PROVE  WalkPlaced'
<1>1. PICK L \in Seq(Addrs) : Leads(p, L)
  BY DEF Listed
<1>2. Leads(p, L)'
  BY <1>1 DEF StartWalk, Leads, Place, Cell
<1>3. 0 \in 0..Len(L) /\ Cell(L, 0) = NULL /\ Cell(L, 0 - 1) = NULL
  BY DEF Cell
<1>4. walk'.p = p /\ walk'.at = NULL /\ walk'.prev = NULL
  BY DEF StartWalk
<1> PICK k : k = 0
  OBVIOUS
<1>5. /\ k \in 0..Len(L) /\ Leads(walk.p, L)'
      /\ walk'.at = Cell(L, k)' /\ walk'.prev = Cell(L, k - 1)'
      /\ \A j \in 0..(k - 1) : Place(walk.p, L, j)'.TypeId # walk'.T
  BY <1>2, <1>3, <1>4 DEF Cell, Leads, Place
<1>6. QED BY <1>5 DEF WalkPlaced

LEMMA WalkDescends ==
  ASSUME IInv, WalkPlaced, Descend
  PROVE  WalkPlaced'
<1> PICK p, T : p = walk.p /\ T = walk.T
  OBVIOUS
<1>1. p \in Ptrs /\ walk # Idle
  BY DEF Descend, IInv, TypeOK, Walk
<1> PICK L \in Seq(Addrs) : \E k \in 0..Len(L) :
      /\ Leads(p, L) /\ CDataCache[p] # NULL
      /\ walk.at = Cell(L, k) /\ Current = Place(p, L, k) /\ Current.Next = Cell(L, k + 1)
      /\ \A j \in 0..(k - 1) : Place(p, L, j).TypeId # T
  BY <1>1, Standing
<1>2. PICK k \in 0..Len(L) :
      /\ Leads(p, L)
      /\ walk.at = Cell(L, k) /\ Current = Place(p, L, k) /\ Current.Next = Cell(L, k + 1)
      /\ \A j \in 0..(k - 1) : Place(p, L, j).TypeId # T
  OBVIOUS
<1> PICK m : m = k + 1
  OBVIOUS
<1>3. Len(L) \in Nat /\ m \in 0..Len(L) /\ m - 1 = k
  <2>1. Cell(L, k + 1) # NULL
    BY <1>2 DEF Descend
  <2>2. QED BY <1>2, <2>1 DEF Cell
<1>4. /\ walk'.p = p /\ walk'.T = T /\ walk'.at = Cell(L, m) /\ walk'.prev = Cell(L, m - 1)
      /\ CDataCache' = CDataCache /\ heap' = heap
  BY <1>2, <1>3 DEF Descend
<1>5. Leads(walk.p, L)' /\ \A j : Place(walk.p, L, j)' = Place(p, L, j)
  BY <1>2, <1>4 DEF Leads, Place, Cell
<1>6. \A j \in 0..(m - 1) : Place(p, L, j).TypeId # T
  <2>1. \A j \in 0..(m - 1) : j \in 0..(k - 1) \/ j = k
    BY <1>3
  <2>2. Place(p, L, k).TypeId # T
    BY <1>2 DEF Descend
  <2>3. QED BY <1>2, <2>1, <2>2
<1>7. /\ Leads(walk.p, L)' /\ walk'.at = Cell(L, m)' /\ walk'.prev = Cell(L, m - 1)'
      /\ \A j \in 0..(m - 1) : Place(walk.p, L, j)'.TypeId # walk'.T
  BY <1>4, <1>5, <1>6 DEF Cell
<1>8. QED BY <1>3, <1>7 DEF WalkPlaced

\* The abstract operations on sequences are those of the lists.
LEMMA SameOperations ==
  /\ \A s, T : Abstract!Positions(s, T) = Positions(s, T)
  /\ \A s, T : Abstract!FirstOf(s, T) = FirstOf(s, T)
  /\ \A s, T : Abstract!RemoveFirst(s, T) = RemoveFirst(s, T)
  /\ \A s, n : Abstract!AddNode(s, n) = AddNode(s, n)
BY DEF Abstract!Positions, Positions, Abstract!FirstOf, FirstOf, Abstract!RemoveFirst, RemoveFirst,
       Abstract!Without, Without, Abstract!AddNode, AddNode

\* A step keeps every list one, and maps to a step of the sequences or to none.
ListInv == IInv /\ Listed /\ WalkPlaced
MappedStep == Abstract!ChainNext \/ UNCHANGED <<Chains, last>>

LEMMA MapsBind ==
  ASSUME ListInv, IInv', NEW p \in Ptrs, NEW T \in TypeIds, NEW v \in Values,
         BindFirst(p, T, v) \/ BindMore(p, T, v)
  PROVE  ListInv' /\ MappedStep
<1>1. /\ Listed'
      /\ Chains' = [Chains EXCEPT ![p] = AddNode(Chains[p], [TypeId |-> T, Value |-> v])]
  BY FirstBound, MoreBound DEF ListInv
<1>2. walk' = Idle /\ last' = last
  BY DEF BindFirst, BindMore
<1>3. WalkPlaced'
  BY <1>2 DEF WalkPlaced, Idle
<1>4. Abstract!AbsBind(p, T, v)
  BY <1>1, <1>2, SameOperations DEF Abstract!AbsBind, Abstract!Inserted, Chains
<1>5. QED BY <1>1, <1>3, <1>4 DEF ListInv, MappedStep, Abstract!ChainNext

LEMMA MapsRemove ==
  ASSUME ListInv, IInv', RemoveHeadMove \/ RemoveHeadLast \/ RemoveInner
  PROVE  ListInv' /\ MappedStep
<1> PICK p, T : p = walk.p /\ T = walk.T
  OBVIOUS
<1>1. p \in Ptrs /\ T \in TypeIds
  BY DEF ListInv, IInv, TypeOK, Walk, Idle, RemoveHeadMove, RemoveHeadLast, RemoveInner
<1>2. Listed' /\ Chains' = [Chains EXCEPT ![p] = RemoveFirst(Chains[p], T)]
  BY <1>1, HeadMoved, HeadErased, InnerRemoved DEF ListInv
<1>3. walk' = Idle /\ last' = [op |-> "remove", p |-> p, T |-> T, Value |-> NULL]
  BY DEF RemoveHeadMove, RemoveHeadLast, RemoveInner, Return
<1>4. WalkPlaced'
  BY <1>3 DEF WalkPlaced, Idle
<1>5. Abstract!AbsRemove(p, T)
  BY <1>2, <1>3, SameOperations DEF Abstract!AbsRemove, Abstract!Removed, Chains
<1>6. QED BY <1>1, <1>2, <1>4, <1>5 DEF ListInv, MappedStep, Abstract!ChainNext

\* An answer that leaves the lists alone.
LEMMA MapsAnswer ==
  ASSUME ListInv, IInv', FindHit \/ WalkOff
  PROVE  ListInv' /\ MappedStep
<1> PICK p, T, op : p = walk.p /\ T = walk.T /\ op = walk.op
  OBVIOUS
<1>1. walk # Idle /\ p \in Ptrs /\ T \in TypeIds /\ op \in {"remove", "find"}
  BY DEF ListInv, IInv, TypeOK, Walk, Idle, FindHit, WalkOff
<1>2. UNCHANGED <<CDataCache, heap>> /\ walk' = Idle
  BY DEF FindHit, WalkOff, Return
<1>3. Listed' /\ Chains' = Chains
  BY <1>2, NoneChanges DEF ListInv
<1>4. WalkPlaced'
  BY <1>2 DEF WalkPlaced, Idle
<1>5. Abstract!AbsRemove(p, T) \/ Abstract!AbsFind(p, T)
  <2>1. CASE FindHit
    <3>1. Current.TypeId = T /\ op = "find"
      BY <2>1 DEF FindHit
    <3>2. Positions(Chains[p], T) # {} /\ Current.Value = Chains[p][FirstOf(Chains[p], T)].Value
      BY <1>1, <3>1, FoundFirst DEF ListInv
    <3>3. last' = [op |-> "find", p |-> p, T |-> T, Value |-> Current.Value]
      BY <2>1, <3>1 DEF FindHit, Return
    <3>4. QED BY <1>3, <3>2, <3>3, SameOperations DEF Abstract!AbsFind, Chains
  <2>2. CASE WalkOff
    <3>1. Current.TypeId # T /\ Current.Next = NULL
      BY <2>2 DEF WalkOff
    <3>2. Positions(Chains[p], T) = {}
      BY <1>1, <3>1, FoundNone DEF ListInv
    <3>3. last' = [op |-> op, p |-> p, T |-> T, Value |-> NULL]
      BY <2>2 DEF WalkOff, Return
    <3>4. CASE op = "find"
      BY <1>3, <3>2, <3>3, <3>4, SameOperations DEF Abstract!AbsFind, Chains
    <3>5. CASE op = "remove"
      <4>1. RemoveFirst(Chains[p], T) = Chains[p]
        BY <3>2 DEF RemoveFirst
      <4>2. Chains' = [Chains EXCEPT ![p] = RemoveFirst(Chains[p], T)]
        BY <1>3, <4>1 DEF Chains
      <4>3. QED BY <3>3, <3>5, <4>2, SameOperations DEF Abstract!AbsRemove, Abstract!Removed, Chains
    <3>6. QED BY <1>1, <3>4, <3>5
  <2>3. QED BY <2>1, <2>2
<1>6. QED BY <1>1, <1>3, <1>4, <1>5 DEF ListInv, MappedStep, Abstract!ChainNext

LEMMA MapsNoEntry ==
  ASSUME ListInv, IInv', NEW op \in {"remove", "find"}, NEW p \in Ptrs, NEW T \in TypeIds,
         NoEntry(op, p, T)
  PROVE  ListInv' /\ MappedStep
<1>1. /\ UNCHANGED <<CDataCache, heap>> /\ walk' = Idle /\ CDataCache[p] = NULL
      /\ last' = [op |-> op, p |-> p, T |-> T, Value |-> NULL]
  BY DEF NoEntry
<1>2. Listed' /\ Chains' = Chains
  BY <1>1, NoneChanges DEF ListInv
<1>3. WalkPlaced'
  BY <1>1 DEF WalkPlaced, Idle
<1>4. Positions(Chains[p], T) = {}
  BY <1>1, NoneListed DEF ListInv, Positions
<1>5. CASE op = "find"
  <2>1. Abstract!AbsFind(p, T)
    BY <1>1, <1>2, <1>4, <1>5, SameOperations DEF Abstract!AbsFind, Chains
  <2>2. QED BY <1>2, <1>3, <2>1 DEF ListInv, MappedStep, Abstract!ChainNext
<1>6. CASE op = "remove"
  <2>1. RemoveFirst(Chains[p], T) = Chains[p]
    BY <1>4 DEF RemoveFirst
  <2>2. Chains' = [Chains EXCEPT ![p] = RemoveFirst(Chains[p], T)]
    BY <1>2, <2>1 DEF Chains
  <2>3. Abstract!AbsRemove(p, T)
    BY <1>1, <1>6, <2>2, SameOperations DEF Abstract!AbsRemove, Abstract!Removed, Chains
  <2>4. QED BY <1>2, <1>3, <2>3 DEF ListInv, MappedStep, Abstract!ChainNext
<1>7. QED BY <1>5, <1>6

LEMMA MapsClear ==
  ASSUME ListInv, IInv', Clear
  PROVE  ListInv' /\ MappedStep
<1>1. walk' = Idle /\ last' = last /\ \A p \in Ptrs : CDataCache'[p] = NULL
  BY DEF Clear
<1>2. Listed' /\ Chains' = [p \in Ptrs |-> << >>]
  BY <1>1, NoneListedNext
<1>3. WalkPlaced'
  BY <1>1 DEF WalkPlaced, Idle
<1>4. Abstract!AbsClear
  BY <1>1, <1>2 DEF Abstract!AbsClear, Abstract!Cleared, Chains
<1>5. QED BY <1>2, <1>3, <1>4 DEF ListInv, MappedStep, Abstract!ChainNext

\* The steps of a recursion under way map to none.
LEMMA MapsQuietly ==
  ASSUME ListInv, IInv',
         \/ \E op \in {"remove", "find"}, p \in Ptrs, T \in TypeIds : StartWalk(op, p, T)
         \/ Descend
         \/ UNCHANGED vars
  PROVE  ListInv' /\ MappedStep
<1>1. UNCHANGED <<CDataCache, heap, last>>
  BY DEF StartWalk, Descend, vars
<1>2. Listed' /\ Chains' = Chains
  BY <1>1, NoneChanges DEF ListInv
<1>3. WalkPlaced'
  <2>1. ASSUME NEW op \in {"remove", "find"}, NEW p \in Ptrs, NEW T \in TypeIds, StartWalk(op, p, T)
        PROVE  WalkPlaced'
    BY <2>1, WalkStarts DEF ListInv
  <2>2. CASE Descend
    BY <2>2, WalkDescends DEF ListInv
  <2>3. CASE UNCHANGED vars
    BY <2>3 DEF ListInv, WalkPlaced, vars, Leads, Place, Cell
  <2>4. QED BY <2>1, <2>2, <2>3
<1>4. QED BY <1>1, <1>2, <1>3 DEF ListInv, MappedStep

LEMMA NextMaps == ListInv /\ [Next]_vars => ListInv' /\ MappedStep
<1> SUFFICES ASSUME ListInv, [Next]_vars PROVE ListInv' /\ MappedStep
  OBVIOUS
<1>1. IInv'
  BY NextIInv DEF ListInv
<1>2. ASSUME NEW p \in Ptrs, NEW T \in TypeIds, NEW v \in Values,
             BindFirst(p, T, v) \/ BindMore(p, T, v)
      PROVE  ListInv' /\ MappedStep
  BY <1>1, <1>2, MapsBind
<1>3. ASSUME NEW op \in {"remove", "find"}, NEW p \in Ptrs, NEW T \in TypeIds, NoEntry(op, p, T)
      PROVE  ListInv' /\ MappedStep
  BY <1>1, <1>3, MapsNoEntry
<1>4. CASE RemoveHeadMove \/ RemoveHeadLast \/ RemoveInner
  BY <1>1, <1>4, MapsRemove
<1>5. CASE FindHit \/ WalkOff
  BY <1>1, <1>5, MapsAnswer
<1>6. CASE Clear
  BY <1>1, <1>6, MapsClear
<1>7. ASSUME \/ \E op \in {"remove", "find"}, p \in Ptrs, T \in TypeIds : StartWalk(op, p, T)
             \/ Descend
             \/ UNCHANGED vars
      PROVE  ListInv' /\ MappedStep
  BY <1>1, <1>7, MapsQuietly
<1>8. QED BY <1>2, <1>3, <1>4, <1>5, <1>6, <1>7 DEF Next, WalkStep

LEMMA InitMaps == Init => ListInv /\ Abstract!ChainInit
<1> SUFFICES ASSUME Init PROVE ListInv /\ Abstract!ChainInit
  OBVIOUS
<1>1. IInv /\ \A p \in Ptrs : CDataCache[p] = NULL
  BY InitIInv DEF Init
<1>2. << >> \in Seq(Addrs) /\ \A p \in Ptrs : Leads(p, << >>)
  BY <1>1 DEF Leads
<1>3. Listed /\ WalkPlaced
  BY <1>2 DEF Listed, WalkPlaced, Init
<1>4. \A p \in Ptrs : AsSequence(p) = << >>
  BY <1>1, NoneListed DEF Chains
<1>5. Abstract!ChainInit
  BY <1>4 DEF Abstract!ChainInit, Init
<1>6. QED BY <1>1, <1>3, <1>5 DEF ListInv

\* The linked list behaves as the sequence CppObjectMapper takes it for: Add inserts
\* behind the head, Remove takes out the first node of the type wherever it is, and
\* Find returns the value of that node, whatever recursion gets them there.
THEOREM ListImplementsChain == Spec => ImplementsChain
<1>1. MappedStep => [Abstract!ChainNext]_(Abstract!chainVars)
  BY DEF MappedStep, Abstract!chainVars, Chains
<1>2. QED
  BY <1>1, InitMaps, NextMaps, PTL DEF Spec, ImplementsChain, Abstract!ChainSpec

-----------------------------------------------------------------------------
(* Remove and Find come to an end. *)

\* The activation in progress stands k places behind the head of its list.
StandsAt(k) ==
  \E L \in Seq(Addrs) : Leads(walk.p, L) /\ k \in 0..Len(L) /\ walk.at = Cell(L, k)

Depth == CHOOSE k \in Nat : StandsAt(k)
DepthIs == \A k \in Nat : walk # Idle /\ StandsAt(k) => Depth = k

\* There is one such place: a cell is in one list, at one place.
LEMMA OnePlace ==
  ASSUME IInv, walk # Idle, NEW k \in Nat, NEW l \in Nat, StandsAt(k), StandsAt(l)
  PROVE  k = l
<1> PICK p : p = walk.p
  OBVIOUS
<1>1. p \in Ptrs
  BY DEF IInv, TypeOK, Walk
<1>2. PICK L \in Seq(Addrs) : Leads(p, L) /\ k \in 0..Len(L) /\ walk.at = Cell(L, k)
  BY DEF StandsAt
<1>3. PICK M \in Seq(Addrs) : Leads(p, M) /\ l \in 0..Len(M) /\ walk.at = Cell(M, l)
  BY DEF StandsAt
<1>4. /\ k \in 1..Len(L) => Cell(L, k) = L[k] /\ L[k] # NULL
      /\ k \notin 1..Len(L) => Cell(L, k) = NULL /\ k = 0
  BY <1>1, <1>2, Links DEF Cell
<1>5. /\ l \in 1..Len(M) => Cell(M, l) = M[l] /\ M[l] # NULL
      /\ l \notin 1..Len(M) => Cell(M, l) = NULL /\ l = 0
  BY <1>1, <1>3, Links DEF Cell
<1>6. CASE k \in 1..Len(L) /\ l \in 1..Len(M)
  <2>1. L[k] = M[l]
    BY <1>2, <1>3, <1>4, <1>5, <1>6
  <2>2. QED BY <1>1, <1>2, <1>3, <1>6, <2>1, Apart
<1>7. QED BY <1>2, <1>3, <1>4, <1>5, <1>6

LEMMA DepthOnce == IInv => DepthIs
<1> SUFFICES ASSUME IInv, NEW k \in Nat, walk # Idle, StandsAt(k) PROVE Depth = k
  BY DEF DepthIs
<1>1. Depth \in Nat /\ StandsAt(Depth)
  BY DEF Depth
<1>2. QED BY <1>1, OnePlace

LEMMA DepthOnceNext == IInv' => DepthIs'
BY DepthOnce, PTL

\* A recursive call goes one place further down a list that does not change.
LEMMA DescendDeepens ==
  ASSUME IInv, IInv', WalkPlaced, Descend
  PROVE  Depth \in Nat /\ Depth' = Depth + 1 /\ Depth' <= Cardinality(Addrs)
<1> PICK p, T : p = walk.p /\ T = walk.T
  OBVIOUS
<1>1. p \in Ptrs /\ walk # Idle
  BY DEF Descend, IInv, TypeOK, Walk
<1>2. PICK L \in Seq(Addrs) : \E k \in 0..Len(L) :
        Leads(p, L) /\ walk.at = Cell(L, k) /\ Current.Next = Cell(L, k + 1)
  BY <1>1, Standing
<1>3. PICK k \in 0..Len(L) : Leads(p, L) /\ walk.at = Cell(L, k) /\ Current.Next = Cell(L, k + 1)
  BY <1>2
<1> PICK m : m = k + 1
  OBVIOUS
<1>4. k \in Nat /\ m \in Nat /\ m \in 0..Len(L)
  <2>1. Cell(L, k + 1) # NULL
    BY <1>3 DEF Descend
  <2>2. QED BY <1>3, <2>1 DEF Cell
<1>5. StandsAt(k)
  BY <1>3 DEF StandsAt
<1>6. walk'.p = p /\ walk'.at = Cell(L, m) /\ CDataCache' = CDataCache /\ heap' = heap
  BY <1>3 DEF Descend
<1>7. walk' # Idle'
  <2>1. p # NULL
    BY <1>1, NullAssumption
  <2>2. QED BY <1>6, <2>1 DEF Idle
<1>8. StandsAt(m)'
  <2>1. Leads(walk.p, L)'
    BY <1>3, <1>6 DEF Leads, Place, Cell
  <2>2. walk'.at = Cell(L, m)'
    BY <1>6 DEF Cell
  <2>3. QED BY <1>4, <2>1, <2>2 DEF StandsAt
<1>9. Depth = k
  BY <1>1, <1>4, <1>5, DepthOnce DEF DepthIs
<1>10. Depth' = m
  BY <1>4, <1>7, <1>8, DepthOnceNext DEF DepthIs
<1>11. Cardinality(Addrs) \in Nat /\ Len(L) <= Cardinality(Addrs) /\ Len(L) \in Nat
  BY <1>1, <1>3, Bounded
<1>12. QED BY <1>4, <1>9, <1>10, <1>11

\* Each step of Remove or Find returns, or goes one node further down the list of
\* the same address, on behalf of the same call; and it goes no further than
\* there are cells.  No walk revisits a node, whatever was added and removed before.
WalkAdvances ==
  [][walk # Idle =>
       \/ walk' = Idle
       \/ /\ walk'.op = walk.op /\ walk'.p = walk.p /\ walk'.T = walk.T
          /\ Depth \in Nat /\ Depth' = Depth + 1 /\ Depth' <= Cardinality(Addrs)]_vars

\* The recursion of Remove and Find has a bound, the number of cells malloc can hand
\* out: what is left of it shrinks with every call until the call that returns.
THEOREM RecursionBounded == Spec => WalkAdvances
<1> DEFINE Advance ==
      walk # Idle =>
        \/ walk' = Idle
        \/ /\ walk'.op = walk.op /\ walk'.p = walk.p /\ walk'.T = walk.T
           /\ Depth \in Nat /\ Depth' = Depth + 1 /\ Depth' <= Cardinality(Addrs)
<1>1. ListInv /\ [Next]_vars => [Advance]_vars
  <2> SUFFICES ASSUME ListInv, Next, walk # Idle PROVE Advance
    BY DEF ListInv
  <2>1. RemoveHeadMove \/ RemoveHeadLast \/ RemoveInner \/ FindHit \/ WalkOff => walk' = Idle'
    BY DEF RemoveHeadMove, RemoveHeadLast, RemoveInner, FindHit, WalkOff, Return
  <2>2. CASE Descend
    <3>1. IInv /\ IInv' /\ WalkPlaced
      BY NextIInv DEF ListInv
    <3>2. walk'.op = walk.op /\ walk'.p = walk.p /\ walk'.T = walk.T
      BY <2>2 DEF Descend
    <3>3. QED BY <2>2, <3>1, <3>2, DescendDeepens
  <2>3. \/ RemoveHeadMove \/ RemoveHeadLast \/ RemoveInner \/ FindHit \/ WalkOff
        \/ Descend
    BY DEF Next, WalkStep, BindFirst, BindMore, StartWalk, NoEntry, Clear
  <2>4. Idle' = Idle
    BY DEF Idle
  <2>5. QED BY <2>1, <2>2, <2>3, <2>4
<1>2. Spec => []ListInv
  BY InitMaps, NextMaps, PTL DEF Spec
<1>3. QED BY <1>1, <1>2, PTL DEF Spec, WalkAdvances

=============================================================================
