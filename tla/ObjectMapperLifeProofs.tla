------------------------ MODULE ObjectMapperLifeProofs ------------------------
(***************************************************************************)
(* The life of the wrappers, for every number of addresses, classes,       *)
(* wrappers, references and nested callbacks: nodes and wrappers are in    *)
(* balance, what is referenced is not freed, the callbacks of a wrapper    *)
(* come in pairs and with the right user data, and the end of the          *)
(* environment leaves nothing behind.                                      *)
(***************************************************************************)
EXTENDS ObjectMapperProofs, FiniteSetTheorems

-----------------------------------------------------------------------------
(* The stack, one step at a time. *)

Stays(i) == i \in 1..Len(stack) /\ i \in 1..Len(stack') /\ stack'[i] = stack[i]

\* At most the innermost activation ends, from one of Out, and at most one
\* starts or goes on in its place, at one of In.
Moves(Out, In) ==
  /\ stack' \in Seq(Frame) /\ Len(stack') \in Nat
  /\ \A i \in 1..Len(stack') :
       Stays(i) \/ (i = Len(stack') /\ i >= Len(stack) /\ stack'[i].pc \in In)
  /\ \A i \in 1..Len(stack) :
       Stays(i) \/ (i = Len(stack) /\ i >= Len(stack') /\ stack[i].pc \in Out)

LEMMA MovesByPush ==
  ASSUME Structure, NEW f, Pushed(f), NEW In, f.pc \in In
  PROVE  Moves({}, In)
<1>1. /\ stack' \in Seq(Frame) /\ Len(stack') = Len(stack) + 1 /\ Len(stack) \in Nat
      /\ stack'[Len(stack) + 1] = f
      /\ \A i \in 1..Len(stack) : i \in 1..Len(stack') /\ stack'[i] = stack[i]
      /\ \A i \in 1..Len(stack') : i \in 1..Len(stack) \/ i = Len(stack) + 1
  BY Types DEF Pushed
<1>2. QED BY <1>1 DEF Moves, Stays

LEMMA MovesByTurn ==
  ASSUME Structure, NEW f, Turned(f), NEW Out, NEW In, f.pc \in In, Top.pc \in Out
  PROVE  Moves(Out, In)
<1>1. /\ stack' \in Seq(Frame) /\ Len(stack') = Len(stack) /\ Len(stack) \in Nat \ {0}
      /\ stack'[Len(stack)] = f /\ stack[Len(stack)].pc \in Out
      /\ \A i \in 1..Len(stack) : i # Len(stack) => stack'[i] = stack[i]
  BY DEF Turned, Top
<1>2. QED BY <1>1 DEF Moves, Stays

LEMMA MovesByPop ==
  ASSUME Structure, Popped, NEW Out, Top.pc \in Out
  PROVE  Moves(Out, {})
<1>1. /\ stack' \in Seq(Frame) /\ Len(stack) = Len(stack') + 1 /\ Len(stack') \in Nat
      /\ stack[Len(stack)].pc \in Out
      /\ \A i \in 1..Len(stack') : i \in 1..Len(stack) /\ stack'[i] = stack[i]
      /\ \A i \in 1..Len(stack) : i \in 1..Len(stack') \/ i = Len(stack)
  BY DEF Popped, Top
<1>2. QED BY <1>1 DEF Moves, Stays

LEMMA MovesNot ==
  ASSUME Structure, stack' = stack, NEW In
  PROVE  Moves({}, In)
BY Types DEF Moves, Stays

LEMMA PushMoves ==
  ASSUME Structure, NEW f \in Frame, stack' = Append(stack, f), NEW In, f.pc \in In
  PROVE  Moves({}, In)
<1>1. Pushed(f)
  BY PushedByAppend, Types
<1>2. QED BY <1>1, MovesByPush

LEMMA TurnMoves ==
  ASSUME Structure, stack # << >>, NEW f \in Frame, stack' = Becomes(f),
         NEW Out, NEW In, f.pc \in In, Top.pc \in Out
  PROVE  Moves(Out, In)
<1>1. Turned(f)
  BY TurnedByBecomes, Types
<1>2. QED BY <1>1, MovesByTurn

LEMMA PopMoves ==
  ASSUME Structure, stack # << >>, stack' = Caller, NEW Out, Top.pc \in Out
  PROVE  Moves(Out, {})
<1>1. Popped
  BY PoppedByCaller, Types
<1>2. QED BY <1>1, MovesByPop

\* Whoever dropped the last reference goes on under free_zero_refcount, unless
\* that or gc_free_cycles runs already.
LEMMA DropMoves ==
  ASSUME Structure, NEW w, NEW stk, LastRefGone(w, stk)
  PROVE  /\ stk = stack => Moves({}, {"free"})
         /\ stack # << >> /\ stk = Caller /\ Top.pc \in {"enter", "added"} =>
              Moves({"enter", "added"}, {"free"})
<1> DEFINE f == [pc |-> "free"]
<1>1. f \in Frame /\ f.pc = "free"
  BY FrameKinds
<1>2. stack' = stk \/ stack' = Append(stk, f)
  BY DEF LastRefGone
<1> HIDE DEF f
<1>3. ASSUME stk = stack PROVE Moves({}, {"free"})
  BY <1>1, <1>2, <1>3, MovesNot, PushMoves
<1>4. ASSUME stack # << >>, stk = Caller, Top.pc \in {"enter", "added"}
      PROVE  Moves({"enter", "added"}, {"free"})
  <2>1. CASE stack' = stk
    <3>1. Moves({"enter", "added"}, {})
      BY <1>4, <2>1, PopMoves
    <3>2. QED BY <3>1 DEF Moves
  <2>2. CASE stack' = Append(stk, f)
    <3>1. Turned(f)
      BY <1>1, <1>4, <2>2, TurnedByCall, Types
    <3>2. QED BY <1>1, <1>4, <3>1, MovesByTurn
  <2>3. QED BY <1>2, <2>1, <2>2
<1>5. QED BY <1>3, <1>4

-----------------------------------------------------------------------------
(* Each action's effect on the stack. *)

LEMMA TopHere ==
  ASSUME Structure, stack # << >>
  PROVE  /\ Len(stack) \in 1..Len(stack) /\ Top = stack[Len(stack)] /\ Top \in Frame
         /\ Top.pc \in Constructing \cup Finalizing => Top.w \in Wrappers
BY TopFrame, FrameFields, Types

LEMMA DropsMove ==
  ASSUME Structure, NEW w \in Wrappers, Release(w) \/ LetsGo(w)
  PROVE  Moves({}, {"free"})
<1>1. LastRefGone(w, stack) \/ stack' = stack
  BY DEF Release, LetsGo
<1>2. QED BY <1>1, DropMoves, MovesNot

LEMMA RefersMove ==
  ASSUME Structure,
         \/ \E w \in Wrappers : Keep(w) \/ Root(w)
         \/ \E T \in TypeIds, p \in Ptrs : PushHit(T, p)
         \/ Cleanup \/ UNCHANGED vars
  PROVE  stack' = stack /\ Moves({}, {})
<1>1. stack' = stack
  BY DEF Keep, Root, PushHit, Cleanup, vars
<1>2. QED BY <1>1, MovesNot

LEMMA PushMissMoves ==
  ASSUME Structure, NEW T \in TypeIds, NEW p \in Ptrs, NEW own \in BOOLEAN, PushMiss(T, p, own)
  PROVE  Moves({}, {"create"})
<1> DEFINE f == [pc |-> "create", T |-> T, p |-> p, own |-> own]
<1>1. f \in Frame /\ f.pc = "create" /\ stack' = Append(stack, f)
  BY FrameKinds DEF PushMiss
<1> HIDE DEF f
<1>2. QED BY <1>1, PushMoves

LEMMA ConstructMoves ==
  ASSUME Structure, NEW w \in Wrappers, NEW T \in Registered, Construct(w, T)
  PROVE  Moves({}, {"init"})
<1> DEFINE f == [pc |-> "init", w |-> w, T |-> T]
<1>1. f \in Frame /\ f.pc = "init" /\ stack' = Append(stack, f)
  BY FrameKinds DEF Construct
<1> HIDE DEF f
<1>2. QED BY <1>1, PushMoves

LEMMA BindMoves ==
  ASSUME Structure, stack # << >>, NEW w \in Wrappers, NEW C, NEW p, NEW own,
         NEW throws \in BOOLEAN, BindAndAddToCache(w, C, p, own, throws), NEW Out, Top.pc \in Out
  PROVE  /\ Moves(Out, {"enter", "added"})
         /\ Len(stack') = Len(stack) /\ stack'[Len(stack)].w = w
         /\ stack'[Len(stack)].pc = IF C \in Traced THEN "enter" ELSE "added"
         /\ stack'[Len(stack)].cell = IF cache[p] = << >> THEN "entry" ELSE "heap"
<1> DEFINE f == [pc |-> IF C \in Traced THEN "enter" ELSE "added", w |-> w,
                 cell |-> IF cache[p] = << >> THEN "entry" ELSE "heap", throws |-> throws]
<1>1. /\ f \in Frame /\ f.pc \in {"enter", "added"} /\ stack' = Becomes(f)
      /\ f.w = w /\ f.pc = (IF C \in Traced THEN "enter" ELSE "added")
      /\ f.cell = IF cache[p] = << >> THEN "entry" ELSE "heap"
  BY FrameKinds DEF BindAndAddToCache
<1> HIDE DEF f
<1>2. Turned(f)
  BY <1>1, TurnedByBecomes, Types
<1>3. QED BY <1>1, <1>2, MovesByTurn DEF Turned

LEMMA ConstructedMoves ==
  ASSUME Structure, Constructed
  PROVE  /\ stack # << >> /\ Top.pc \in {"enter", "added"}
         /\ Moves({"enter", "added"}, {"free"})
<1>1. stack # << >> /\ Top.pc \in {"enter", "added"}
  BY DEF Constructed, At
<1>2. LastRefGone(Top.w, Caller) \/ stack' = Caller
  BY DEF Constructed
<1>3. CASE LastRefGone(Top.w, Caller)
  BY <1>1, <1>3, DropMoves
<1>4. CASE stack' = Caller
  <2>1. Moves({"enter", "added"}, {})
    BY <1>1, <1>4, PopMoves
  <2>2. QED BY <1>1, <2>1 DEF Moves
<1>5. QED BY <1>2, <1>3, <1>4

LEMMA CollectMoves ==
  ASSUME Structure, (\E S \in SUBSET Collectable : RunGC(S)) \/ Destroy
  PROVE  Moves({}, {"gc"}) /\ Len(stack') = Len(stack) + 1 /\ stack'[Len(stack')].pc = "gc"
<1> DEFINE f == [pc |-> "gc"]
<1>1. f \in Frame /\ f.pc = "gc"
  BY FrameKinds
<1>2. stack' = Append(stack, f)
  <2>1. CASE \E S \in SUBSET Collectable : RunGC(S)
    BY <2>1 DEF RunGC
  <2>2. CASE Destroy
    <3>1. stack = << >> /\ stack' = << f >>
      BY <2>2 DEF Destroy
    <3>2. QED BY <3>1
  <2>3. QED BY <2>1, <2>2
<1> HIDE DEF f
<1>3. Pushed(f)
  BY <1>1, <1>2, PushedByAppend, Types
<1>4. QED BY <1>1, <1>3, MovesByPush DEF Pushed

LEMMA StartFinalizerMoves ==
  ASSUME Structure, NEW w \in Wrappers, StartFinalizer(w)
  PROVE  /\ Moves({}, {"finalize", "remove"})
         /\ Len(stack') = Len(stack) + 1 /\ stack'[Len(stack')].w = w
         /\ stack'[Len(stack')].pc \in {"finalize", "remove"}
<1> DEFINE f == [pc |-> IF udata[w].callFinalize /\ udata[w].typeInfo \in Finalizable
                        THEN "finalize" ELSE "remove", w |-> w]
<1>1. f \in Frame /\ f.pc \in {"finalize", "remove"} /\ f.w = w /\ stack' = Append(stack, f)
  BY FrameKinds DEF StartFinalizer
<1> HIDE DEF f
<1>2. Pushed(f)
  BY <1>1, PushedByAppend, Types
<1>3. QED BY <1>1, <1>2, MovesByPush DEF Pushed

LEMMA LoopsEndMove ==
  ASSUME Structure, FreeDone \/ CollectDone
  PROVE  /\ stack # << >> /\ Top.pc \in Freeing /\ Popped
         /\ Moves({"free", "gc"}, {})
<1>1. stack # << >> /\ Top.pc \in {"free", "gc"} /\ stack' = Caller
  BY DEF FreeDone, CollectDone, At
<1>2. QED BY <1>1, PopMoves, PoppedByCaller, Types DEF Freeing

LEMMA FinalizersMove ==
  ASSUME Structure, FinalizeReturns \/ RemoveFromCache
  PROVE  /\ stack # << >> /\ Top.pc \in {"finalize", "remove"}
         /\ Moves({"finalize", "remove"}, {"remove", "exit"})
         /\ Len(stack') = Len(stack) /\ stack'[Len(stack)].w = Top.w
         /\ FinalizeReturns => stack'[Len(stack)].pc = "remove"
         /\ RemoveFromCache => /\ stack'[Len(stack)].pc = "exit"
                               /\ stack'[Len(stack)].ud = cache[udata[Top.w].ptr][1].UserData
<1> DEFINE w == Top.w
<1>1. stack # << >> /\ Top.pc \in {"finalize", "remove"} /\ Top.pc \in Finalizing
  BY DEF FinalizeReturns, RemoveFromCache, At, Finalizing
<1>2. Len(stack) \in 1..Len(stack) /\ Top = stack[Len(stack)] /\ w \in Wrappers
  BY <1>1, TopHere
<1>3. CASE FinalizeReturns
  <2> DEFINE f == [pc |-> "remove", w |-> w]
  <2>1. f \in Frame /\ f.pc = "remove" /\ f.w = w /\ stack' = Becomes(f)
    BY <1>2, <1>3, FrameKinds DEF FinalizeReturns
  <2>2. ~RemoveFromCache
    BY <1>3 DEF FinalizeReturns, RemoveFromCache, At
  <2> HIDE DEF f
  <2>3. Turned(f)
    BY <1>1, <2>1, TurnedByBecomes, Types
  <2>4. Moves({"finalize", "remove"}, {"remove", "exit"})
    BY <1>1, <2>1, <2>3, MovesByTurn
  <2>5. QED BY <1>1, <2>1, <2>2, <2>3, <2>4 DEF Turned
<1>4. CASE RemoveFromCache
  <2> DEFINE ud == cache[udata[w].ptr][1].UserData
             f == [pc |-> "exit", w |-> w, ud |-> ud]
  <2>1. stack' = Becomes(f) /\ cache[udata[w].ptr] # << >>
    BY <1>4 DEF RemoveFromCache
  <2>2. ud \in UserData
    <3>1. status[w] = "dying"
      BY <1>1, <1>2, Parts DEF FinalizationSound
    <3>2. udata[w].ptr \in Ptrs
      BY <1>2, <3>1, Parts DEF BoundSound, Alive, ObjectUserData
    <3>3. cache[udata[w].ptr] \in Seq(Node)
      BY <3>2, Types
    <3>4. cache[udata[w].ptr][1] \in Node
      BY <2>1, <3>3, EmptySeq
    <3>5. QED BY <3>4 DEF Node
  <2>3. f \in Frame /\ f.pc = "exit" /\ f.w = w /\ f.ud = ud
    BY <1>2, <2>2, FrameKinds
  <2>4. ~FinalizeReturns
    BY <1>4 DEF FinalizeReturns, RemoveFromCache, At
  <2> HIDE DEF f
  <2>5. Turned(f)
    BY <1>1, <2>1, <2>3, TurnedByBecomes, Types
  <2>6. Moves({"finalize", "remove"}, {"remove", "exit"})
    BY <1>1, <2>3, <2>5, MovesByTurn
  <2>7. QED BY <1>1, <2>3, <2>4, <2>5, <2>6 DEF Turned
<1>5. QED BY <1>3, <1>4

LEMMA FreedMoves ==
  ASSUME Structure, ObjectFreed
  PROVE  /\ stack # << >> /\ Top.pc \in {"remove", "exit"} /\ Popped
         /\ Moves({"remove", "exit"}, {})
<1>1. stack # << >> /\ Top.pc \in {"remove", "exit"} /\ stack' = Caller
  BY DEF ObjectFreed, FinalizerEnds, At
<1>2. QED BY <1>1, PopMoves, PoppedByCaller, Types

-----------------------------------------------------------------------------
(* Work in hand: who has a wrapper that is no longer bound, and which loop  *)
(* will come to it.  This holds for every client.                           *)

Looping == \E i \in 1..Len(stack) : stack[i].pc \in Freeing
Active(w) == \E i \in 1..Len(stack) : stack[i].pc \in Finalizing /\ stack[i].w = w
Queued(w) == \E k \in 1..Len(zeroRefs) : zeroRefs[k] = w

\* Finalizers run inside a freeing loop.
Nested ==
  \A i \in 1..Len(stack) : stack[i].pc \in Finalizing =>
    \E j \in 1..(i - 1) : stack[j].pc \in Freeing

Engaged ==
  /\ phase # "none" => Looping
  /\ zeroRefs # << >> => phase = "decref"
  /\ \A w \in Wrappers : status[w] = "queued" => Queued(w)
  /\ \A w \in Wrappers : status[w] = "dying" => Active(w)
  /\ Nested

LEMMA LoopStays ==
  ASSUME NEW Out, NEW In, Moves(Out, In), Out \cap Freeing = {}, Looping
  PROVE  Looping'
BY DEF Moves, Stays, Looping

LEMMA ActiveStays ==
  ASSUME NEW Out, NEW In, Moves(Out, In), Out \cap Finalizing = {}, NEW w, Active(w)
  PROVE  Active(w)'
BY DEF Moves, Stays, Active

\* An activation that is not the innermost stays.
LEMMA BelowStays ==
  ASSUME Structure, NEW Out, NEW In, Moves(Out, In), NEW i \in 1..Len(stack), i < Len(stack)
  PROVE  Stays(i)
BY Types DEF Moves

LEMMA NestedStays ==
  ASSUME Structure, Nested, NEW Out, NEW In, Moves(Out, In),
         \A i \in 1..Len(stack') : stack'[i].pc \in In \cap Finalizing =>
           \/ Stays(i)
           \/ \E j \in 1..(i - 1) : Stays(j) /\ stack[j].pc \in Freeing
  PROVE  Nested'
<1> SUFFICES ASSUME NEW i \in 1..Len(stack'), stack'[i].pc \in Finalizing
             PROVE  \E j \in 1..(i - 1) : stack'[j].pc \in Freeing
  BY DEF Nested
<1>1. CASE Stays(i)
  <2>1. i \in 1..Len(stack) /\ stack[i].pc \in Finalizing
    BY <1>1 DEF Stays
  <2>2. PICK j \in 1..(i - 1) : stack[j].pc \in Freeing
    BY <2>1 DEF Nested
  <2>3. j \in 1..Len(stack) /\ j < Len(stack)
    BY <2>1, Types
  <2>4. Stays(j)
    BY <2>3, BelowStays
  <2>5. QED BY <2>2, <2>4 DEF Stays
<1>2. CASE ~Stays(i)
  <2>1. stack'[i].pc \in In
    BY <1>2 DEF Moves
  <2>2. PICK j \in 1..(i - 1) : Stays(j) /\ stack[j].pc \in Freeing
    BY <1>2, <2>1
  <2>3. QED BY <2>2 DEF Stays
<1>3. QED BY <1>1, <1>2

\* When the last reference to w goes, w is queued and nobody else leaves the
\* list; outside a loop one is started.
LEMMA DropFacts ==
  ASSUME Structure, NEW w \in Wrappers, NEW stk, LastRefGone(w, stk)
  PROVE  \/ phase = "cycles" /\ stack' = stk /\ UNCHANGED <<status, zeroRefs, phase>>
         \/ /\ phase # "cycles" /\ phase' = "decref"
            /\ \A v \in Wrappers : v # w => status'[v] = status[v]
            /\ status'[w] = IF status[w] = "dying" THEN "dying" ELSE "queued"
            /\ \A v \in Wrappers : Queued(v) => Queued(v)'
            /\ status[w] # "dying" => Queued(w)'
            /\ phase = "none" => stack' = Append(stk, [pc |-> "free"])
            /\ phase = "decref" => stack' = stk
<1>1. CASE phase = "cycles"
  BY <1>1 DEF LastRefGone
<1>2. CASE phase # "cycles"
  <2>1. /\ phase' = "decref"
        /\ status' = [status EXCEPT ![w] = IF @ = "dying" THEN @ ELSE "queued"]
        /\ zeroRefs' = IF status[w] = "dying" THEN zeroRefs ELSE <<w>> \o Unlinked(w)
        /\ stack' = IF phase = "none" THEN Append(stk, [pc |-> "free"]) ELSE stk
    BY <1>2 DEF LastRefGone
  <2>2. /\ \A v \in Wrappers : v # w => status'[v] = status[v]
        /\ status'[w] = IF status[w] = "dying" THEN "dying" ELSE "queued"
    BY <2>1, Types
  <2>3. CASE status[w] = "dying"
    BY <1>2, <2>1, <2>2, <2>3 DEF Queued
  <2>4. CASE status[w] # "dying"
    <3> DEFINE q == <<w>> \o Unlinked(w)
    <3>1. zeroRefs' = q
      BY <2>1, <2>4
    <3>2. /\ Unlinked(w) \in Seq(Wrappers)
          /\ \A v \in Wrappers : Queued(v) /\ v # w =>
               \E k \in 1..Len(Unlinked(w)) : Unlinked(w)[k] = v
      <4>1. CASE \E i \in 1..Len(zeroRefs) : zeroRefs[i] = w
        <5> DEFINE m == CHOOSE i \in 1..Len(zeroRefs) : zeroRefs[i] = w
        <5>1. m \in 1..Len(zeroRefs) /\ zeroRefs[m] = w
          BY <4>1
        <5>2. Unlinked(w) = Without(zeroRefs, m)
          BY <4>1 DEF Unlinked
        <5> HIDE DEF m
        <5>3. zeroRefs \in Seq(Wrappers) /\ zeroRefs # << >> /\ Len(zeroRefs) \in Nat
          BY <5>1, Types
        <5>4. /\ Unlinked(w) \in Seq(Wrappers) /\ Len(Unlinked(w)) = Len(zeroRefs) - 1
              /\ \A i \in 1..(Len(zeroRefs) - 1) :
                   Unlinked(w)[i] = IF i < m THEN zeroRefs[i] ELSE zeroRefs[i + 1]
          BY <5>2, <5>3, WithoutFacts
        <5>5. ASSUME NEW i \in 1..Len(zeroRefs), zeroRefs[i] # w
              PROVE  \E k \in 1..Len(Unlinked(w)) : Unlinked(w)[k] = zeroRefs[i]
          <6>1. i # m
            BY <5>1, <5>5
          <6>2. CASE i < m
            <7>1. i \in 1..(Len(zeroRefs) - 1)
              BY <5>1, <5>3, <6>2
            <7>2. Unlinked(w)[i] = zeroRefs[i]
              BY <5>4, <6>2, <7>1
            <7>3. QED BY <5>4, <7>1, <7>2
          <6>3. CASE i > m
            <7>1. i - 1 \in 1..(Len(zeroRefs) - 1) /\ ~(i - 1 < m) /\ (i - 1) + 1 = i
              BY <5>1, <5>3, <6>3
            <7>2. Unlinked(w)[i - 1] = zeroRefs[i]
              BY <5>4, <7>1
            <7>3. QED BY <5>4, <7>1, <7>2
          <6>4. QED BY <5>1, <5>3, <6>1, <6>2, <6>3
        <5>6. QED BY <5>4, <5>5 DEF Queued
      <4>2. CASE ~\E i \in 1..Len(zeroRefs) : zeroRefs[i] = w
        BY <4>2, Types DEF Unlinked, Queued
      <4>3. QED BY <4>1, <4>2
    <3> HIDE DEF Unlinked
    <3>3. /\ Len(q) = 1 + Len(Unlinked(w)) /\ q[1] = w /\ Len(Unlinked(w)) \in Nat
          /\ \A k \in 1..Len(Unlinked(w)) : q[k + 1] = Unlinked(w)[k]
      BY <3>2
    <3> HIDE DEF q
    <3>4. 1 \in 1..Len(q) /\ \A k \in 1..Len(Unlinked(w)) : k + 1 \in 1..Len(q)
      BY <3>3
    <3>5. Queued(w)'
      BY <3>1, <3>3, <3>4 DEF Queued
    <3>6. ASSUME NEW v \in Wrappers, Queued(v) PROVE Queued(v)'
      <4>1. CASE v = w
        BY <3>5, <4>1
      <4>2. CASE v # w
        <5>1. PICK k \in 1..Len(Unlinked(w)) : Unlinked(w)[k] = v
          BY <3>2, <3>6, <4>2
        <5>2. q[k + 1] = v /\ k + 1 \in 1..Len(q)
          BY <3>3, <3>4, <5>1
        <5>3. QED BY <3>1, <5>2 DEF Queued
      <4>3. QED BY <4>1, <4>2
    <3>7. QED BY <1>2, <2>1, <2>2, <2>4, <3>5, <3>6
  <2>5. QED BY <2>3, <2>4
<1>3. QED BY <1>1, <1>2

LEMMA DropEngages ==
  ASSUME Structure, Engaged, NEW w \in Wrappers, NEW stk \in Seq(Frame), LastRefGone(w, stk),
         NEW Out, Moves(Out, {"free"}), Out \cap (Freeing \cup Finalizing) = {}
  PROVE  Engaged'
<1>1. /\ Out \cap Freeing = {} /\ Out \cap Finalizing = {}
      /\ \A c : c \notin {"free"} \cap Finalizing
  BY DEF Finalizing
<1>2. Nested'
  BY <1>1, NestedStays DEF Engaged
<1>3. \A v \in Wrappers : Active(v) => Active(v)'
  BY <1>1, ActiveStays
<1>4. CASE phase = "cycles" /\ UNCHANGED <<status, zeroRefs, phase>>
  <2>1. Looping'
    BY <1>1, <1>4, LoopStays DEF Engaged
  <2>2. \A v \in Wrappers : Queued(v) => Queued(v)'
    BY <1>4 DEF Queued
  <2>3. QED BY <1>2, <1>3, <1>4, <2>1, <2>2 DEF Engaged
<1>5. CASE /\ phase # "cycles" /\ phase' = "decref"
           /\ \A v \in Wrappers : v # w => status'[v] = status[v]
           /\ status'[w] = IF status[w] = "dying" THEN "dying" ELSE "queued"
           /\ \A v \in Wrappers : Queued(v) => Queued(v)'
           /\ status[w] # "dying" => Queued(w)'
           /\ phase = "none" => stack' = Append(stk, [pc |-> "free"])
           /\ phase = "decref" => stack' = stk
  <2>1. Looping'
    <3>1. CASE phase = "none"
      <4>1. /\ Len(stk) + 1 \in 1..Len(stack')
            /\ stack'[Len(stk) + 1] = [pc |-> "free"]
        BY <1>5, <3>1
      <4>2. stack'[Len(stk) + 1].pc \in Freeing
        BY <4>1 DEF Freeing
      <4>3. QED BY <4>1, <4>2 DEF Looping
    <3>2. CASE phase # "none"
      BY <1>1, <3>2, LoopStays DEF Engaged
    <3>3. QED BY <3>1, <3>2
  <2>2. \A v \in Wrappers : status'[v] = "queued" => Queued(v)'
    BY <1>5 DEF Engaged
  <2>3. \A v \in Wrappers : status'[v] = "dying" => Active(v)'
    BY <1>3, <1>5 DEF Engaged
  <2>4. QED BY <1>2, <1>5, <2>1, <2>2, <2>3 DEF Engaged
<1>6. QED BY <1>4, <1>5, DropFacts

\* Steps that leave the phase and the list of dead objects alone and let no
\* wrapper be queued or die.
LEMMA CalmEngages ==
  ASSUME Structure, Engaged, UNCHANGED <<phase, zeroRefs>>,
         \A v \in Wrappers : status'[v] \in {"queued", "dying"} => status[v] = status'[v],
         NEW Out, NEW In, Moves(Out, In),
         Out \cap (Freeing \cup Finalizing) = {}, In \cap Finalizing = {}
  PROVE  Engaged'
<1>1. Out \cap Freeing = {} /\ Out \cap Finalizing = {}
  OBVIOUS
<1>2. Nested'
  BY NestedStays DEF Engaged
<1>3. \A v \in Wrappers : Active(v) => Active(v)'
  BY <1>1, ActiveStays
<1>4. \A v \in Wrappers : Queued(v) => Queued(v)'
  BY DEF Queued
<1>5. phase' # "none" => Looping'
  BY <1>1, LoopStays DEF Engaged
<1>6. QED BY <1>2, <1>3, <1>4, <1>5 DEF Engaged

LEMMA ReleaseEngages ==
  ASSUME Structure, Engaged, NEW w \in Wrappers, Release(w) \/ LetsGo(w)
  PROVE  Engaged'
<1>1. Moves({}, {"free"})
  BY DropsMove
<1>2. CASE LastRefGone(w, stack)
  BY <1>1, <1>2, DropEngages, Types
<1>3. CASE UNCHANGED <<status, zeroRefs, phase, stack>>
  BY <1>1, <1>3, CalmEngages DEF Finalizing
<1>4. QED BY <1>2, <1>3 DEF Release, LetsGo

LEMMA RefersEngages ==
  ASSUME Structure, Engaged,
         \/ \E w \in Wrappers : Keep(w) \/ Root(w)
         \/ \E T \in TypeIds, p \in Ptrs : PushHit(T, p)
         \/ Cleanup \/ UNCHANGED vars
  PROVE  Engaged'
<1>1. UNCHANGED <<status, zeroRefs, phase, stack>>
  BY DEF Keep, Root, PushHit, Cleanup, vars
<1>2. QED BY <1>1 DEF Engaged, Looping, Active, Queued, Nested

LEMMA CreationEngages ==
  ASSUME Structure, Engaged,
         \/ \E T \in TypeIds, p \in Ptrs, own \in BOOLEAN : PushMiss(T, p, own)
         \/ \E w \in Wrappers, T \in Registered : Construct(w, T)
         \/ \E w \in Wrappers : PushCreate(w)
         \/ \E p \in Ptrs, throws \in BOOLEAN : InitializeReturns(p, throws)
  PROVE  Engaged'
<1>1. CASE \E T \in TypeIds, p \in Ptrs, own \in BOOLEAN : PushMiss(T, p, own)
  <2>1. Moves({}, {"create"})
    BY <1>1, PushMissMoves
  <2>2. UNCHANGED <<status, phase, zeroRefs>>
    BY <1>1 DEF PushMiss
  <2>3. QED BY <2>1, <2>2, CalmEngages DEF Finalizing
<1>2. CASE \E w \in Wrappers, T \in Registered : Construct(w, T)
  <2>1. Moves({}, {"init"})
    BY <1>2, ConstructMoves
  <2>2. UNCHANGED <<phase, zeroRefs>> /\ \E w : status' = [status EXCEPT ![w] = "blank"]
    BY <1>2 DEF Construct
  <2>3. \A v \in Wrappers : status'[v] \in {"queued", "dying"} => status[v] = status'[v]
    BY <2>2, Types
  <2>4. QED BY <2>1, <2>2, <2>3, CalmEngages DEF Finalizing
<1>3. ASSUME NEW w \in Wrappers, NEW C, NEW p, NEW own, NEW throws \in BOOLEAN,
             BindAndAddToCache(w, C, p, own, throws),
             stack # << >>, Top.pc \in {"create", "init"}, UNCHANGED <<phase, zeroRefs>>
      PROVE  Engaged'
  <2>1. Moves({"create", "init"}, {"enter", "added"})
    BY <1>3, BindMoves
  <2>2. status' = [status EXCEPT ![w] = "bound"]
    BY <1>3 DEF BindAndAddToCache
  <2>3. \A v \in Wrappers : status'[v] \in {"queued", "dying"} => status[v] = status'[v]
    BY <2>2, Types
  <2>4. QED BY <1>3, <2>1, <2>3, CalmEngages DEF Finalizing, Freeing
<1>4. CASE \E w \in Wrappers : PushCreate(w)
  <2>1. PICK w \in Wrappers : PushCreate(w)
    BY <1>4
  <2>2. /\ stack # << >> /\ Top.pc = "create" /\ UNCHANGED <<phase, zeroRefs>>
        /\ BindAndAddToCache(w, ClassOf(Top.T), Top.p, Top.own, FALSE)
    BY <2>1 DEF PushCreate, At
  <2>3. QED BY <1>3, <2>2
<1>5. CASE \E p \in Ptrs, throws \in BOOLEAN : InitializeReturns(p, throws)
  <2>1. PICK p \in Ptrs, throws \in BOOLEAN : InitializeReturns(p, throws)
    BY <1>5
  <2>2. /\ stack # << >> /\ Top.pc = "init" /\ UNCHANGED <<phase, zeroRefs>>
        /\ BindAndAddToCache(Top.w, Top.T, p, TRUE, throws)
    BY <2>1 DEF InitializeReturns, At
  <2>3. Top.w \in Wrappers
    BY <2>2, TopHere DEF Constructing
  <2>4. QED BY <1>3, <2>2, <2>3
<1>6. QED BY <1>1, <1>2, <1>4, <1>5

LEMMA ConstructedEngages ==
  ASSUME Structure, Engaged, Constructed
  PROVE  Engaged'
<1>1. stack # << >> /\ Top.pc \in {"enter", "added"} /\ Moves({"enter", "added"}, {"free"})
  BY ConstructedMoves
<1>2. Top.w \in Wrappers /\ Caller \in Seq(Frame)
  <2>1. Top.w \in Wrappers
    BY <1>1, TopHere DEF Constructing
  <2>2. \E n \in Nat : Caller \in Seq(Frame)
    BY <1>1, PopFacts, Types DEF Caller
  <2>3. QED BY <2>1, <2>2
<1>3. {"enter", "added"} \cap (Freeing \cup Finalizing) = {} /\ {"free"} \cap Finalizing = {}
  BY DEF Freeing, Finalizing
<1>4. CASE LastRefGone(Top.w, Caller)
  BY <1>1, <1>2, <1>3, <1>4, DropEngages
<1>5. CASE UNCHANGED <<status, zeroRefs, phase>>
  BY <1>1, <1>3, <1>5, CalmEngages
<1>6. QED BY <1>4, <1>5 DEF Constructed

LEMMA CollectEngages ==
  ASSUME Structure, Engaged, (\E S \in SUBSET Collectable : RunGC(S)) \/ Destroy
  PROVE  Engaged'
<1>1. /\ Moves({}, {"gc"}) /\ Len(stack') = Len(stack) + 1 /\ stack'[Len(stack')].pc = "gc"
  BY CollectMoves
<1>2. phase = "none"
  <2>1. CASE \E S \in SUBSET Collectable : RunGC(S)
    BY <2>1 DEF RunGC
  <2>2. CASE Destroy
    BY <2>2 DEF Destroy, Engaged, Looping
  <2>3. QED BY <2>1, <2>2
<1>3. zeroRefs = << >> /\ zeroRefs' = zeroRefs /\ phase' = "cycles" /\ status' = status
  BY <1>2 DEF Engaged, RunGC, Destroy
<1>4. Looping'
  <2>1. Len(stack') \in 1..Len(stack')
    BY <1>1, Types
  <2>2. QED BY <1>1, <2>1 DEF Looping, Freeing
<1>5. Nested' /\ \A v \in Wrappers : Active(v) => Active(v)'
  BY <1>1, NestedStays, ActiveStays DEF Engaged, Finalizing
<1>6. \A v \in Wrappers : Queued(v) => Queued(v)'
  BY <1>3 DEF Queued
<1>7. QED BY <1>3, <1>4, <1>5, <1>6 DEF Engaged

LEMMA StartFinalizerEngages ==
  ASSUME Structure, Engaged, NEW w \in Wrappers, StartFinalizer(w), phase' = phase,
         stack # << >>, Top.pc \in Freeing,
         zeroRefs' # << >> => zeroRefs # << >>,
         \A v \in Wrappers : v # w /\ Queued(v) => Queued(v)'
  PROVE  Engaged'
<1>1. /\ Moves({}, {"finalize", "remove"})
      /\ Len(stack') = Len(stack) + 1 /\ stack'[Len(stack')].w = w
      /\ stack'[Len(stack')].pc \in {"finalize", "remove"}
  BY StartFinalizerMoves
<1>2. Len(stack) \in 1..Len(stack) /\ stack[Len(stack)].pc \in Freeing
  BY TopHere
<1>3. \A i \in 1..Len(stack) : Stays(i)
  BY <1>1 DEF Moves
<1>4. Nested'
  <2>1. ASSUME NEW i \in 1..Len(stack'), stack'[i].pc \in {"finalize", "remove"} \cap Finalizing
        PROVE  Stays(i) \/ \E j \in 1..(i - 1) : Stays(j) /\ stack[j].pc \in Freeing
    <3>1. CASE i \in 1..Len(stack)
      BY <1>3, <3>1
    <3>2. CASE i \notin 1..Len(stack)
      <4>1. Len(stack) \in 1..(i - 1)
        BY <1>1, <1>2, <3>2
      <4>2. QED BY <1>2, <1>3, <4>1
    <3>3. QED BY <3>1, <3>2
  <2>2. QED BY <1>1, <2>1, NestedStays DEF Engaged
<1>5. Looping' /\ \A v \in Wrappers : Active(v) => Active(v)'
  <2>1. Looping
    BY <1>2 DEF Looping
  <2>2. QED BY <1>1, <2>1, LoopStays, ActiveStays
<1>6. Active(w)'
  BY <1>1, <1>2 DEF Active, Finalizing
<1>7. status'[w] = "dying" /\ \A v \in Wrappers : v # w => status'[v] = status[v]
  BY Types DEF StartFinalizer
<1>8. QED BY <1>4, <1>5, <1>6, <1>7 DEF Engaged

LEMMA FinalizerStartsEngages ==
  ASSUME Structure, Engaged, FreeNext \/ \E w \in Wrappers : CollectNext(w)
  PROVE  Engaged'
<1>1. CASE FreeNext
  <2> DEFINE w == Head(zeroRefs)
  <2>1. /\ stack # << >> /\ Top.pc \in Freeing /\ zeroRefs # << >> /\ phase' = phase
        /\ StartFinalizer(w) /\ zeroRefs' = Tail(zeroRefs) /\ zeroRefs \in Seq(Wrappers)
    BY <1>1, Types DEF FreeNext, At, Freeing
  <2>2. w \in Wrappers /\ w = zeroRefs[1]
    BY <2>1
  <2>3. /\ Len(zeroRefs') = Len(zeroRefs) - 1 /\ Len(zeroRefs) \in Nat \ {0}
        /\ \A k \in 1..(Len(zeroRefs) - 1) : zeroRefs'[k] = zeroRefs[k + 1]
    BY <2>1, EmptySeq
  <2>4. ASSUME NEW v \in Wrappers, v # w, Queued(v) PROVE Queued(v)'
    <3>1. PICK k \in 1..Len(zeroRefs) : zeroRefs[k] = v
      BY <2>4 DEF Queued
    <3>2. k # 1
      BY <2>2, <2>4, <3>1
    <3>3. k - 1 \in 1..(Len(zeroRefs) - 1) /\ (k - 1) + 1 = k
      BY <2>3, <3>1, <3>2
    <3>4. zeroRefs'[k - 1] = v /\ k - 1 \in 1..Len(zeroRefs')
      BY <2>3, <3>1, <3>3
    <3>5. QED BY <3>4 DEF Queued
  <2>5. QED BY <2>1, <2>2, <2>4, StartFinalizerEngages
<1>2. CASE \E w \in Wrappers : CollectNext(w)
  <2>1. PICK w \in Wrappers : CollectNext(w)
    BY <1>2
  <2>2. /\ stack # << >> /\ Top.pc \in Freeing /\ phase' = phase /\ zeroRefs' = zeroRefs
        /\ StartFinalizer(w)
    BY <2>1 DEF CollectNext, At, Freeing
  <2>3. \A v \in Wrappers : Queued(v) => Queued(v)'
    BY <2>2 DEF Queued
  <2>4. QED BY <2>2, <2>3, StartFinalizerEngages
<1>3. QED BY <1>1, <1>2

LEMMA LoopsEndEngages ==
  ASSUME Structure, Engaged, FreeDone \/ CollectDone
  PROVE  Engaged'
<1>1. stack # << >> /\ Top.pc \in Freeing /\ Moves({"free", "gc"}, {})
  BY LoopsEndMove
<1>2. phase' = "none" /\ UNCHANGED <<status, zeroRefs>>
  BY DEF FreeDone, CollectDone
<1>3. zeroRefs = << >>
  <2>1. CASE FreeDone
    BY <2>1 DEF FreeDone
  <2>2. CASE CollectDone
    <3>1. Top.pc = "gc"
      BY <2>2 DEF CollectDone, At
    <3>2. phase = "cycles"
      BY <1>1, <3>1, TopHere, Parts DEF OneLoop
    <3>3. QED BY <3>2 DEF Engaged
  <2>3. QED BY <2>1, <2>2
<1>4. Nested' /\ \A v \in Wrappers : Active(v) => Active(v)'
  BY <1>1, NestedStays, ActiveStays DEF Engaged, Finalizing
<1>5. \A v \in Wrappers : Queued(v) => Queued(v)'
  BY <1>2 DEF Queued
<1>6. QED BY <1>2, <1>3, <1>4, <1>5 DEF Engaged

LEMMA FinalizersEngage ==
  ASSUME Structure, Engaged, FinalizeReturns \/ RemoveFromCache
  PROVE  Engaged'
<1>1. /\ stack # << >> /\ Top.pc \in {"finalize", "remove"}
      /\ Moves({"finalize", "remove"}, {"remove", "exit"})
      /\ Len(stack') = Len(stack) /\ stack'[Len(stack)].w = Top.w
      /\ stack'[Len(stack)].pc \in Finalizing
  BY FinalizersMove DEF Finalizing
<1>2. UNCHANGED <<status, zeroRefs, phase>>
  BY DEF FinalizeReturns, RemoveFromCache
<1>3. Len(stack) \in 1..Len(stack) /\ Top = stack[Len(stack)] /\ Top.pc \in Finalizing
  BY <1>1, TopHere DEF Finalizing
<1>4. \A i \in 1..Len(stack) : i # Len(stack) => Stays(i)
  BY <1>1 DEF Moves
<1>5. ASSUME NEW v \in Wrappers, Active(v) PROVE Active(v)'
  <2>1. PICK i \in 1..Len(stack) : stack[i].pc \in Finalizing /\ stack[i].w = v
    BY <1>5 DEF Active
  <2>2. CASE i = Len(stack)
    BY <1>1, <1>3, <2>1, <2>2 DEF Active
  <2>3. CASE i # Len(stack)
    BY <1>4, <2>1, <2>3 DEF Active, Stays
  <2>4. QED BY <2>2, <2>3
<1>6. Nested'
  <2>1. PICK j \in 1..(Len(stack) - 1) : stack[j].pc \in Freeing
    BY <1>3 DEF Engaged, Nested
  <2>2. Stays(j)
    BY <1>3, <1>4, <2>1
  <2>3. \A i \in 1..Len(stack') : Stays(i) \/ j \in 1..(i - 1)
    BY <1>1, <1>4, <2>1
  <2>4. QED BY <1>1, <2>1, <2>2, <2>3, NestedStays DEF Engaged
<1>7. Looping => Looping'
  BY <1>1, LoopStays DEF Freeing
<1>8. \A v \in Wrappers : Queued(v) => Queued(v)'
  BY <1>2 DEF Queued
<1>9. QED BY <1>2, <1>5, <1>6, <1>7, <1>8 DEF Engaged

LEMMA FreedEngages ==
  ASSUME Structure, Engaged, ObjectFreed
  PROVE  Engaged'
<1>1. stack # << >> /\ Top.pc \in {"remove", "exit"} /\ Moves({"remove", "exit"}, {})
  BY FreedMoves
<1>2. /\ Len(stack) \in 1..Len(stack) /\ Top = stack[Len(stack)] /\ Top.w \in Wrappers
      /\ UNCHANGED <<zeroRefs, phase>> /\ status' = [status EXCEPT ![Top.w] = "free"]
  BY <1>1, TopHere DEF ObjectFreed, Finalizing
<1>3. status'[Top.w] = "free" /\ \A v \in Wrappers : v # Top.w => status'[v] = status[v]
  BY <1>2, Types
<1>4. ASSUME NEW v \in Wrappers, v # Top.w, Active(v) PROVE Active(v)'
  <2>1. PICK i \in 1..Len(stack) : stack[i].pc \in Finalizing /\ stack[i].w = v
    BY <1>4 DEF Active
  <2>2. i < Len(stack)
    BY <1>2, <1>4, <2>1
  <2>3. Stays(i)
    BY <1>1, <2>2, BelowStays
  <2>4. QED BY <2>1, <2>3 DEF Active, Stays
<1>5. Nested' /\ (Looping => Looping')
  BY <1>1, NestedStays, LoopStays DEF Engaged, Freeing
<1>6. \A v \in Wrappers : Queued(v) => Queued(v)'
  BY <1>2 DEF Queued
<1>7. QED BY <1>2, <1>3, <1>4, <1>5, <1>6 DEF Engaged

LEMMA InitEngaged == Init => Engaged
BY DEF Init, Engaged, Nested

LEMMA NextEngaged ==
  ASSUME Structure, Engaged, [Next]_vars
  PROVE  Engaged'
<1>1. ASSUME NEW w \in Wrappers, Release(w) \/ LetsGo(w) PROVE Engaged'
  BY <1>1, ReleaseEngages
<1>2. ASSUME NEW w \in Wrappers, Keep(w) \/ Root(w) PROVE Engaged'
  BY <1>2, RefersEngages
<1>3. ASSUME NEW T \in TypeIds, NEW p \in Ptrs, PushHit(T, p) PROVE Engaged'
  BY <1>3, RefersEngages
<1>4. ASSUME \/ \E T \in TypeIds, p \in Ptrs, own \in BOOLEAN : PushMiss(T, p, own)
             \/ \E w \in Wrappers, T \in Registered : Construct(w, T)
             \/ \E w \in Wrappers : PushCreate(w)
             \/ \E p \in Ptrs, throws \in BOOLEAN : InitializeReturns(p, throws)
      PROVE  Engaged'
  BY <1>4, CreationEngages
<1>5. ASSUME (\E S \in SUBSET Collectable : RunGC(S)) \/ Destroy PROVE Engaged'
  BY <1>5, CollectEngages
<1>6. ASSUME FreeNext \/ \E w \in Wrappers : CollectNext(w) PROVE Engaged'
  BY <1>6, FinalizerStartsEngages
<1>7. ASSUME Constructed \/ FreeDone \/ CollectDone PROVE Engaged'
  BY <1>7, ConstructedEngages, LoopsEndEngages
<1>8. ASSUME FinalizeReturns \/ RemoveFromCache \/ ObjectFreed PROVE Engaged'
  BY <1>8, FinalizersEngage, FreedEngages
<1>9. ASSUME Cleanup \/ UNCHANGED vars PROVE Engaged'
  BY <1>9, RefersEngages
<1>10. QED
  BY <1>1, <1>2, <1>3, <1>4, <1>5, <1>6, <1>7, <1>8, <1>9 DEF Next, Client, Engine, Destroyed, Unroot, ReleaseConstructor

-----------------------------------------------------------------------------
(* Nodes and wrappers are in balance, for every client. *)

\* Taking the k-th element of a chain away takes at most that element's node.
LEMMA CountWithout ==
  ASSUME NEW S, NEW s \in Seq(S), NEW k \in 1..Len(s), NEW C
  PROVE  /\ IsFiniteSet(Positions(s, C)) /\ IsFiniteSet(Positions(Without(s, k), C))
         /\ Cardinality(Positions(s, C)) \in Nat
         /\ Cardinality(Positions(Without(s, k), C)) =
              IF s[k].TypeId = C THEN Cardinality(Positions(s, C)) - 1
              ELSE Cardinality(Positions(s, C))
<1> DEFINE r == Without(s, k)
           P == Positions(s, C)
           Q == Positions(r, C)
           h == [i \in Q |-> IF i < k THEN i ELSE i + 1]
<1>1. /\ Len(s) \in Nat \ {0} /\ Len(r) = Len(s) - 1
      /\ \A i \in 1..(Len(s) - 1) : r[i] = IF i < k THEN s[i] ELSE s[i + 1]
  <2>1. s # << >>
    OBVIOUS
  <2>2. QED BY <2>1, WithoutFacts
<1>2. \A i : i \in P <=> i \in 1..Len(s) /\ s[i].TypeId = C
  BY DEF Positions
<1>3. \A i : i \in Q <=> i \in 1..(Len(s) - 1) /\ r[i].TypeId = C
  BY <1>1 DEF Positions
<1> HIDE DEF r, P, Q
<1>4. IsFiniteSet(P)
  <2>1. P \in SUBSET (1..Len(s)) /\ IsFiniteSet(1..Len(s))
    BY <1>1, <1>2, FS_Interval
  <2>2. QED BY <2>1, FS_Subset
<1>5. h \in [Q -> P \ {k}]
  <2>1. ASSUME NEW i \in Q PROVE (IF i < k THEN i ELSE i + 1) \in P \ {k}
    <3>1. i \in 1..(Len(s) - 1) /\ r[i].TypeId = C /\ r[i] = IF i < k THEN s[i] ELSE s[i + 1]
      BY <1>1, <1>3
    <3>2. CASE i < k
      <4>1. i \in 1..Len(s) /\ s[i].TypeId = C /\ i # k
        BY <1>1, <3>1, <3>2
      <4>2. QED BY <1>2, <3>2, <4>1
    <3>3. CASE ~(i < k)
      <4>1. i + 1 \in 1..Len(s) /\ s[i + 1].TypeId = C /\ i + 1 # k
        BY <1>1, <3>1, <3>3
      <4>2. QED BY <1>2, <3>3, <4>1
    <3>4. QED BY <3>2, <3>3
  <2>2. QED BY <2>1
<1>6. \A i \in Q : i \in Int /\ h[i] = IF i < k THEN i ELSE i + 1
  BY <1>3
<1>7. \A i \in P \ {k} : \E j \in Q : h[j] = i
  <2>1. TAKE i \in P \ {k}
  <2>2. CASE i < k
    <3>1. i \in Q
      BY <1>1, <1>2, <1>3, <2>2
    <3>2. QED BY <1>6, <2>2, <3>1
  <2>3. CASE i > k
    <3>1. i - 1 \in 1..(Len(s) - 1) /\ ~(i - 1 < k) /\ (i - 1) + 1 = i
      BY <1>1, <1>2, <2>3
    <3>2. r[i - 1] = s[i]
      BY <1>1, <3>1
    <3>3. i - 1 \in Q
      BY <1>2, <1>3, <3>1, <3>2
    <3>4. QED BY <1>6, <3>1, <3>3
  <2>4. QED BY <1>1, <1>2, <2>2, <2>3
<1>8. \A i, j \in Q : h[i] = h[j] => i = j
  BY <1>6
<1> HIDE DEF h
<1>9. h \in Injection(Q, P \ {k}) /\ h \in Surjection(Q, P \ {k})
  <2>1. h \in Injection(Q, P \ {k})
    BY <1>5, <1>8 DEF Injection, IsInjective
  <2>2. h \in Surjection(Q, P \ {k})
    BY <1>5, <1>7 DEF Surjection
  <2>3. QED BY <2>1, <2>2
<1>10. /\ IsFiniteSet(P \ {k}) /\ Cardinality(P) \in Nat
       /\ Cardinality(P \ {k}) = IF k \in P THEN Cardinality(P) - 1 ELSE Cardinality(P)
  BY <1>4, FS_RemoveElement, FS_CardinalityType
<1>11. IsFiniteSet(Q) /\ Cardinality(P \ {k}) = Cardinality(Q)
  BY <1>9, <1>10, FS_Injection
<1>12. QED BY <1>2, <1>4, <1>10, <1>11 DEF r, P, Q

\* Remove undoes what Add did.
LEMMA CountAdded ==
  ASSUME NEW s \in Seq(Node), NEW n \in Node, NEW C
  PROVE  /\ IsFiniteSet(Positions(s, C)) /\ Cardinality(Positions(s, C)) \in Nat
         /\ Cardinality(Positions(AddNode(s, n), C)) =
              IF n.TypeId = C THEN Cardinality(Positions(s, C)) + 1
              ELSE Cardinality(Positions(s, C))
<1> DEFINE a == AddNode(s, n)
           m == IF Len(s) = 0 THEN 1 ELSE 2
<1>1. /\ a \in Seq(Node) /\ Len(a) = Len(s) + 1 /\ Len(s) \in Nat
      /\ \A i \in 1..(Len(s) + 1) :
           a[i] = IF Len(s) = 0 THEN n ELSE IF i = 1 THEN s[1] ELSE IF i = 2 THEN n ELSE s[i - 1]
  <2>1. Len(s) \in Nat
    OBVIOUS
  <2>2. a \in Seq(Node) /\ Len(a) = Len(s) + 1
    BY AddNodeFacts
  <2>3. ASSUME NEW i \in 1..(Len(s) + 1)
        PROVE  a[i] = IF Len(s) = 0 THEN n ELSE IF i = 1 THEN s[1] ELSE IF i = 2 THEN n ELSE s[i - 1]
    BY DEF AddNode
  <2>4. QED BY <2>1, <2>2, <2>3
<1> HIDE DEF a
<1>2. m \in 1..Len(a) /\ a[m] = n
  BY <1>1
<1>3. Without(a, m) = s
  <2>1. /\ Without(a, m) \in Seq(Node) /\ Len(Without(a, m)) = Len(s)
        /\ \A i \in 1..Len(s) : Without(a, m)[i] = IF i < m THEN a[i] ELSE a[i + 1]
    <3>1. a # << >> /\ Len(a) - 1 = Len(s)
      BY <1>1
    <3>2. QED BY <1>1, <3>1, WithoutFacts
  <2>2. ASSUME NEW i \in 1..Len(s) PROVE Without(a, m)[i] = s[i]
    <3>1. m = 2 /\ i \in 1..(Len(s) + 1) /\ i + 1 \in 1..(Len(s) + 1) /\ Len(s) # 0
      BY <1>1
    <3>2. CASE i = 1
      <4>1. Without(a, m)[i] = a[i]
        BY <2>1, <3>1, <3>2
      <4>2. QED BY <1>1, <3>1, <3>2, <4>1
    <3>3. CASE i # 1
      <4>1. Without(a, m)[i] = a[i + 1]
        BY <2>1, <3>1, <3>3
      <4>2. i + 1 # 1 /\ i + 1 # 2 /\ (i + 1) - 1 = i
        BY <3>3
      <4>3. a[i + 1] = s[(i + 1) - 1]
        BY <1>1, <3>1, <4>2
      <4>4. QED BY <4>1, <4>2, <4>3
    <3>4. QED BY <3>2, <3>3
  <2>3. QED BY <2>1, <2>2, SeqEqual
<1> HIDE DEF m
<1>4. /\ IsFiniteSet(Positions(s, C)) /\ Cardinality(Positions(a, C)) \in Nat
      /\ Cardinality(Positions(s, C)) =
           IF n.TypeId = C THEN Cardinality(Positions(a, C)) - 1 ELSE Cardinality(Positions(a, C))
  BY <1>1, <1>2, <1>3, CountWithout
<1>5. Cardinality(Positions(s, C)) \in Nat
  BY <1>4, FS_CardinalityType
<1>6. QED BY <1>4, <1>5 DEF a

Owners(p, C) == {w \in Wrappers : Alive(w) /\ udata[w].ptr = p /\ udata[w].typeInfo = C}

Balanced ==
  env \in {"running", "cleaning"} =>
    \A p \in Ptrs, C \in Classes :
      /\ IsFiniteSet(Owners(p, C))
      /\ Cardinality(Positions(cache[p], C)) = Cardinality(Owners(p, C))

\* Nodes keep their places, classes and wrappers, and no wrapper comes to be
\* bound or ceases to be.
SameLives ==
  /\ \A p \in Ptrs : /\ Len(cache'[p]) = Len(cache[p])
                     /\ \A i \in 1..Len(cache[p]) :
                          /\ cache'[p][i].TypeId = cache[p][i].TypeId
                          /\ cache'[p][i].Value = cache[p][i].Value
  /\ \A v \in Wrappers : (Alive(v)' <=> Alive(v)) /\ (Alive(v) => udata'[v] = udata[v])

LEMMA SameLivesBalance ==
  ASSUME Structure, Balanced, SameLives,
         env' \in {"running", "cleaning"} => env \in {"running", "cleaning"}
  PROVE  Balanced'
<1>1. \A p \in Ptrs : \A C : Positions(cache'[p], C) = Positions(cache[p], C)
  BY DEF SameLives, Positions
<1>2. \A p \in Ptrs : \A C : Owners(p, C)' = Owners(p, C)
  BY DEF SameLives, Owners
<1>3. QED BY <1>1, <1>2 DEF Balanced

LEMMA DropLives ==
  ASSUME Structure, NEW w \in Wrappers, NEW stk, LastRefGone(w, stk), Alive(w)
  PROVE  \A v \in Wrappers : Alive(v)' <=> Alive(v)
BY DropFacts, Types DEF Alive

\* Dropping references, handing them out, starting to create, freeing short of
\* the end of a finalizer.
LEMMA LivesStay ==
  ASSUME Structure,
         \/ \E w \in Wrappers : Release(w) \/ LetsGo(w) \/ Keep(w) \/ Root(w) \/ CollectNext(w)
         \/ \E T \in TypeIds, p \in Ptrs : PushHit(T, p)
         \/ \E T \in TypeIds, p \in Ptrs, own \in BOOLEAN : PushMiss(T, p, own)
         \/ \E w \in Wrappers, T \in Registered : Construct(w, T)
         \/ \E S \in SUBSET Collectable : RunGC(S)
         \/ Constructed \/ FreeNext \/ FreeDone \/ CollectDone
         \/ FinalizeReturns \/ RemoveFromCache \/ Cleanup \/ UNCHANGED vars
  PROVE  /\ SameLives /\ udata' = udata
         /\ env' \in {"running", "cleaning"} => env \in {"running", "cleaning"}
<1>1. /\ udata' = udata
      /\ env' \in {"running", "cleaning"} => env \in {"running", "cleaning"}
  BY DEF Release, LetsGo, Keep, Root, CollectNext, PushHit, PushMiss, Construct, RunGC, Constructed,
         FreeNext, FreeDone, CollectDone, FinalizeReturns, RemoveFromCache, Cleanup, vars
<1>2. \A w \in Wrappers : status[w] = "blank" => Pinned(w)
  BY Parts DEF ConstructionSound, Pinned
<1>3. ASSUME NEW w \in Wrappers, Release(w) \/ LetsGo(w)
      PROVE  cache' = cache /\ \A v \in Wrappers : Alive(v)' <=> Alive(v)
  <2>1. cache' = cache /\ status[w] # "free"
    BY <1>3 DEF Release, LetsGo
  <2>2. CASE LastRefGone(w, stack) /\ ~Pinned(w)
    <3>1. Alive(w)
      BY <1>2, <2>1, <2>2, Types DEF Alive
    <3>2. QED BY <2>1, <2>2, <3>1, DropLives
  <2>3. CASE status' = status
    BY <2>1, <2>3 DEF Alive
  <2>4. QED BY <1>3, <2>2, <2>3 DEF Release, LetsGo
<1>4. ASSUME NEW w \in Wrappers, StartFinalizer(w), Alive(w)
      PROVE  \A v \in Wrappers : Alive(v)' <=> Alive(v)
  BY <1>4, Types DEF StartFinalizer, Alive
<1>5. CASE Constructed
  <2> DEFINE w == Top.w
  <2>1. stack # << >> /\ Top.pc \in {"enter", "added"} /\ Top.pc \in Constructing
    BY <1>5 DEF Constructed, At, Constructing
  <2>2. w \in Wrappers /\ status[w] = "bound" /\ Alive(w)
    BY <2>1, TopHere, Parts DEF ConstructionSound, Alive
  <2>3. /\ LastRefGone(w, Caller) \/ status' = status
        /\ cache' = StoreUserData(w, Top.cell) \/ cache' = cache
    BY <1>5 DEF Constructed
  <2>4. \A v \in Wrappers : Alive(v)' <=> Alive(v)
    BY <2>2, <2>3, DropLives DEF Alive
  <2>5. QED BY <1>1, <2>2, <2>3, <2>4, StoreUserDataFacts DEF SameLives
<1>6. CASE FreeNext
  <2> DEFINE w == Head(zeroRefs)
  <2>1. zeroRefs # << >> /\ zeroRefs \in Seq(Wrappers) /\ StartFinalizer(w) /\ cache' = cache
    BY <1>6, Types DEF FreeNext
  <2>2. w \in Wrappers /\ w = zeroRefs[1] /\ 1 \in 1..Len(zeroRefs)
    BY <2>1, EmptySeq
  <2>3. Alive(w)
    BY <2>2, Parts DEF QueueSound, Alive
  <2>4. QED BY <1>1, <1>4, <2>1, <2>2, <2>3 DEF SameLives
<1>7. CASE \E w \in Wrappers : CollectNext(w)
  <2>1. PICK w \in Wrappers : CollectNext(w)
    BY <1>7
  <2>2. StartFinalizer(w) /\ cache' = cache /\ w \in garbage
    BY <2>1 DEF CollectNext
  <2>3. Alive(w)
    BY <2>2, Parts DEF GarbageSound, Alive
  <2>4. QED BY <1>1, <1>4, <2>2, <2>3 DEF SameLives
<1>8. CASE \E w \in Wrappers, T \in Registered : Construct(w, T)
  <2>1. /\ cache' = cache
        /\ \E w : status[w] = "free" /\ status' = [status EXCEPT ![w] = "blank"]
    BY <1>8 DEF Construct, Fresh
  <2>2. \A v \in Wrappers : Alive(v)' <=> Alive(v)
    BY <2>1, Types DEF Alive
  <2>3. QED BY <1>1, <2>1, <2>2 DEF SameLives
<1>9. CASE \/ \E w \in Wrappers : Keep(w) \/ Root(w)
           \/ \E T \in TypeIds, p \in Ptrs : PushHit(T, p)
           \/ \E T \in TypeIds, p \in Ptrs, own \in BOOLEAN : PushMiss(T, p, own)
           \/ \E S \in SUBSET Collectable : RunGC(S)
           \/ FreeDone \/ CollectDone \/ FinalizeReturns \/ RemoveFromCache
           \/ Cleanup \/ UNCHANGED vars
  <2>1. cache' = cache /\ status' = status
    BY <1>9 DEF Keep, Root, PushHit, PushMiss, RunGC, FreeDone, CollectDone, FinalizeReturns,
                RemoveFromCache, Cleanup, vars
  <2>2. QED BY <1>1, <2>1 DEF SameLives, Alive
<1>10. QED BY <1>1, <1>3, <1>5, <1>6, <1>7, <1>8, <1>9 DEF SameLives

LEMMA BindBalances ==
  ASSUME Structure, Balanced, NEW w \in Wrappers, NEW C \in Classes, NEW p \in Ptrs,
         NEW own \in BOOLEAN, NEW throws \in BOOLEAN,
         BindAndAddToCache(w, C, p, own, throws), status[w] \in {"free", "blank"}, env' = env
  PROVE  Balanced'
<1> DEFINE u == [typeInfo |-> C, ptr |-> p, callFinalize |-> own]
           n == [TypeId |-> C, Value |-> w, UserData |-> Nobody]
<1>1. /\ status' = [status EXCEPT ![w] = "bound"]
      /\ udata' = [udata EXCEPT ![w] = u]
      /\ cache' = [cache EXCEPT ![p] = AddNode(cache[p], n)]
  BY Types DEF BindAndAddToCache
<1>2. u.ptr = p /\ u.typeInfo = C /\ n \in Node /\ n.TypeId = C
  BY DEF Node, UserData
<1> HIDE DEF u, n
<1>3. /\ status'[w] = "bound" /\ udata'[w] = u
      /\ \A v \in Wrappers : v # w => status'[v] = status[v] /\ udata'[v] = udata[v]
      /\ cache'[p] = AddNode(cache[p], n) /\ \A q \in Ptrs : q # p => cache'[q] = cache[q]
  BY <1>1, Types
<1>4. Alive(w)' /\ ~Alive(w) /\ \A v \in Wrappers : v # w => (Alive(v)' <=> Alive(v))
  BY <1>3 DEF Alive
<1> SUFFICES ASSUME env' \in {"running", "cleaning"}, NEW q \in Ptrs, NEW D \in Classes
             PROVE  /\ IsFiniteSet(Owners(q, D)')
                    /\ Cardinality(Positions(cache'[q], D)) = Cardinality(Owners(q, D)')
  BY DEF Balanced
<1>5. /\ IsFiniteSet(Owners(q, D))
      /\ Cardinality(Positions(cache[q], D)) = Cardinality(Owners(q, D))
  BY DEF Balanced
<1>6. CASE q = p /\ D = C
  <2>1. Owners(q, D)' = Owners(q, D) \cup {w} /\ w \notin Owners(q, D)
    BY <1>2, <1>3, <1>4, <1>6 DEF Owners
  <2>2. /\ IsFiniteSet(Owners(q, D)')
        /\ Cardinality(Owners(q, D)') = Cardinality(Owners(q, D)) + 1
    BY <1>5, <2>1, FS_AddElement
  <2>3. Cardinality(Positions(cache'[q], D)) = Cardinality(Positions(cache[q], D)) + 1
    BY <1>2, <1>3, <1>6, CountAdded, Types
  <2>4. QED BY <1>5, <2>2, <2>3
<1>7. CASE ~(q = p /\ D = C)
  <2>1. Owners(q, D)' = Owners(q, D)
    BY <1>2, <1>3, <1>4, <1>7 DEF Owners
  <2>2. Cardinality(Positions(cache'[q], D)) = Cardinality(Positions(cache[q], D))
    <3>1. CASE q = p
      BY <1>2, <1>3, <1>7, <3>1, CountAdded, Types
    <3>2. CASE q # p
      BY <1>3, <3>2
    <3>3. QED BY <3>1, <3>2
  <2>3. QED BY <1>5, <2>1, <2>2
<1>8. QED BY <1>6, <1>7

\* What the end of a finalizer changes.
LEMMA FreedFacts ==
  ASSUME Structure, ObjectFreed
  PROVE  /\ stack # << >> /\ Top.w \in Wrappers /\ status[Top.w] = "dying"
         /\ udata[Top.w] \in ObjectUserData /\ udata[Top.w].ptr \in Ptrs
         /\ udata[Top.w].typeInfo \in Classes
         /\ status'[Top.w] = "free"
         /\ \A v \in Wrappers : v # Top.w => status'[v] = status[v] /\ udata'[v] = udata[v]
         /\ cache'[udata[Top.w].ptr] = RemoveFirst(cache[udata[Top.w].ptr], udata[Top.w].typeInfo)
         /\ \A q \in Ptrs : q # udata[Top.w].ptr => cache'[q] = cache[q]
         /\ stack' = Caller /\ UNCHANGED <<native, script, zeroRefs, garbage, phase, env, calls>>
<1> DEFINE w == Top.w
           u == udata[w]
<1>1. stack # << >> /\ Top.pc \in Finalizing
  BY DEF ObjectFreed, FinalizerEnds, At, Finalizing
<1>2. w \in Wrappers /\ status[w] = "dying"
  BY <1>1, TopHere, Parts DEF FinalizationSound
<1>3. u \in ObjectUserData /\ u.ptr \in Ptrs /\ u.typeInfo \in Classes
  BY <1>2, Parts DEF BoundSound, Alive, ObjectUserData
<1>4. /\ cache' = [cache EXCEPT ![u.ptr] = RemoveFirst(cache[u.ptr], u.typeInfo)]
      /\ udata' = [udata EXCEPT ![w] = Nobody]
      /\ status' = [status EXCEPT ![w] = "free"]
      /\ stack' = Caller
      /\ UNCHANGED <<native, script, zeroRefs, garbage, phase, env, calls>>
  BY <1>3, Types DEF ObjectFreed
<1> HIDE DEF u, w
<1>5. /\ status'[w] = "free"
      /\ \A v \in Wrappers : v # w => status'[v] = status[v] /\ udata'[v] = udata[v]
      /\ cache'[u.ptr] = RemoveFirst(cache[u.ptr], u.typeInfo)
      /\ \A q \in Ptrs : q # u.ptr => cache'[q] = cache[q]
  BY <1>2, <1>3, <1>4, Types
<1>6. QED BY <1>1, <1>2, <1>3, <1>4, <1>5 DEF u, w

LEMMA FreedBalances ==
  ASSUME Structure, Balanced, ObjectFreed
  PROVE  Balanced'
<1>0. PICK w, p, C : w = Top.w /\ p = udata[Top.w].ptr /\ C = udata[Top.w].typeInfo
  OBVIOUS
<1>1. /\ w \in Wrappers /\ status[w] = "dying" /\ p \in Ptrs /\ C \in Classes
      /\ status'[w] = "free"
      /\ \A v \in Wrappers : v # w => status'[v] = status[v] /\ udata'[v] = udata[v]
      /\ cache'[p] = RemoveFirst(cache[p], C) /\ \A q \in Ptrs : q # p => cache'[q] = cache[q]
      /\ env' = env /\ udata[w].ptr = p /\ udata[w].typeInfo = C
  BY <1>0, FreedFacts
<1>2. ~Alive(w)' /\ Alive(w) /\ \A v \in Wrappers : v # w => (Alive(v)' <=> Alive(v))
  BY <1>1 DEF Alive
<1>3. \A q \in Ptrs : \A D : w \in Owners(q, D) <=> q = p /\ D = C
  BY <1>1, <1>2 DEF Owners
<1> SUFFICES ASSUME env' \in {"running", "cleaning"}, NEW q \in Ptrs, NEW D \in Classes
             PROVE  /\ IsFiniteSet(Owners(q, D)')
                    /\ Cardinality(Positions(cache'[q], D)) = Cardinality(Owners(q, D)')
  BY DEF Balanced
<1>4. /\ IsFiniteSet(Owners(q, D))
      /\ Cardinality(Positions(cache[q], D)) = Cardinality(Owners(q, D))
      /\ IsFiniteSet(Owners(p, C))
      /\ Cardinality(Positions(cache[p], C)) = Cardinality(Owners(p, C))
  BY <1>1 DEF Balanced
<1>5. Owners(q, D)' = Owners(q, D) \ {w}
  BY <1>1, <1>2 DEF Owners
<1>6. /\ IsFiniteSet(Owners(q, D)')
      /\ Cardinality(Owners(q, D)') =
           IF q = p /\ D = C THEN Cardinality(Owners(q, D)) - 1 ELSE Cardinality(Owners(q, D))
  <2>1. /\ IsFiniteSet(Owners(q, D) \ {w})
        /\ Cardinality(Owners(q, D) \ {w}) =
             IF w \in Owners(q, D) THEN Cardinality(Owners(q, D)) - 1 ELSE Cardinality(Owners(q, D))
    BY <1>4, FS_RemoveElement
  <2>2. w \in Owners(q, D) <=> q = p /\ D = C
    BY <1>3
  <2>3. QED BY <1>5, <2>1, <2>2
<1>7. Positions(cache[p], C) # {}
  <2>1. Cardinality(Owners(p, C)) # 0
    BY <1>1, <1>3, <1>4, FS_EmptySet
  <2>2. QED BY <1>4, <2>1, FS_EmptySet
<1>8. /\ cache[p] \in Seq(Node) /\ FirstOf(cache[p], C) \in 1..Len(cache[p])
      /\ cache[p][FirstOf(cache[p], C)].TypeId = C
  <2>1. cache[p] \in Seq(Node)
    BY <1>1, Types
  <2>2. FirstOf(cache[p], C) \in Positions(cache[p], C)
    BY <1>7, <2>1, FirstOfFacts
  <2>3. QED BY <2>1, <2>2 DEF Positions
<1>9. Cardinality(Positions(cache'[q], D)) =
        IF q = p /\ D = C THEN Cardinality(Positions(cache[q], D)) - 1
        ELSE Cardinality(Positions(cache[q], D))
  <2>1. CASE q = p
    <3>1. cache'[q] = Without(cache[p], FirstOf(cache[p], C))
      BY <1>1, <1>7, <2>1 DEF RemoveFirst
    <3>2. Cardinality(Positions(cache'[q], D)) =
            IF cache[p][FirstOf(cache[p], C)].TypeId = D THEN Cardinality(Positions(cache[p], D)) - 1
            ELSE Cardinality(Positions(cache[p], D))
      BY <1>8, <3>1, CountWithout
    <3>3. QED BY <1>8, <2>1, <3>2
  <2>2. CASE q # p
    BY <1>1, <2>2
  <2>3. QED BY <2>1, <2>2
<1>10. QED BY <1>4, <1>6, <1>9

LEMMA InitBalanced == Init => Balanced
<1> SUFFICES ASSUME Init, NEW p \in Ptrs, NEW C \in Classes
             PROVE  /\ IsFiniteSet(Owners(p, C))
                    /\ Cardinality(Positions(cache[p], C)) = Cardinality(Owners(p, C))
  BY DEF Balanced
<1>1. Owners(p, C) = {} /\ Positions(cache[p], C) = {}
  BY DEF Init, Owners, Alive, Positions
<1>2. QED BY <1>1, FS_EmptySet

LEMMA NextBalanced ==
  ASSUME Structure, Balanced, [Next]_vars
  PROVE  Balanced'
<1>1. ASSUME \/ \E w \in Wrappers : Release(w) \/ LetsGo(w) \/ Keep(w) \/ Root(w) \/ CollectNext(w)
             \/ \E T \in TypeIds, p \in Ptrs : PushHit(T, p)
             \/ \E T \in TypeIds, p \in Ptrs, own \in BOOLEAN : PushMiss(T, p, own)
             \/ \E w \in Wrappers, T \in Registered : Construct(w, T)
             \/ \E S \in SUBSET Collectable : RunGC(S)
             \/ Constructed \/ FreeNext \/ FreeDone \/ CollectDone
             \/ FinalizeReturns \/ RemoveFromCache \/ Cleanup \/ UNCHANGED vars
      PROVE  Balanced'
  BY <1>1, LivesStay, SameLivesBalance
<1>2. ASSUME NEW w \in Wrappers, PushCreate(w) PROVE Balanced'
  <2>1. /\ stack # << >> /\ Top.pc = "create" /\ status[w] \in {"free", "blank"} /\ env' = env
        /\ BindAndAddToCache(w, ClassOf(Top.T), Top.p, Top.own, FALSE)
    BY <1>2 DEF PushCreate, At, Fresh
  <2>2. Top.T \in TypeIds /\ Top.p \in Ptrs /\ Top.own \in BOOLEAN
    BY <2>1, TopHere, FrameFields
  <2>3. ClassOf(Top.T) \in Classes
    BY <2>2 DEF ClassOf, Classes
  <2>4. QED BY <2>1, <2>2, <2>3, BindBalances
<1>3. ASSUME NEW p \in Ptrs, NEW throws \in BOOLEAN, InitializeReturns(p, throws) PROVE Balanced'
  <2>1. /\ stack # << >> /\ Top.pc = "init" /\ Top.pc \in Constructing /\ env' = env
        /\ BindAndAddToCache(Top.w, Top.T, p, TRUE, throws)
    BY <1>3 DEF InitializeReturns, At, Constructing
  <2>2. Top.w \in Wrappers /\ Top.T \in Classes
    BY <2>1, TopHere, FrameFields DEF Classes
  <2>3. status[Top.w] \in {"free", "blank"}
    BY <2>1, TopHere, Parts DEF ConstructionSound
  <2>4. QED BY <2>1, <2>2, <2>3, BindBalances
<1>4. ASSUME ObjectFreed PROVE Balanced'
  BY <1>4, FreedBalances
<1>5. ASSUME Destroy PROVE Balanced'
  BY <1>5 DEF Destroy, Balanced
<1>6. QED BY <1>1, <1>2, <1>3, <1>4, <1>5 DEF Next, Client, Engine, Destroyed, Unroot, ReleaseConstructor

\* As many nodes of a class at an address as wrappers, whatever the client does
\* and in whatever order the finalizers run: each finalizer takes one node away,
\* and BindAndAddToCache is the only place that adds one.
THEOREM NodesBalanced == Spec => []NodePerWrapper
<1>1. Structure /\ Balanced /\ [Next]_vars => (Structure /\ Balanced)'
  BY NextStructure, NextBalanced
<1>2. Init => Structure /\ Balanced
  BY InitStructure, InitBalanced
<1>3. Spec => [](Structure /\ Balanced)
  BY <1>1, <1>2, PTL DEF Spec
<1>4. Balanced => NodePerWrapper
  BY DEF Balanced, NodePerWrapper, Owners
<1>5. QED BY <1>3, <1>4, PTL

-----------------------------------------------------------------------------
(* The end of the environment. *)

\* From Cleanup on no client code runs but callbacks of the freeing loops, none
\* of which starts before the last collection if Cleanup releases nothing; once
\* the cache is cleared it stays empty and only that collection is active.
Closing ==
  /\ env # "running" => \A i \in 1..Len(stack) : stack[i].pc \in Freeing \cup Finalizing
  /\ env = "cleaning" /\ "linked" \in Contract => stack = << >>
  /\ env \in {"closing", "freed"} =>
       /\ \A p \in Ptrs : cache[p] = << >>
       /\ \A i \in 1..Len(stack) : stack[i].pc \in {"gc"} \cup Finalizing
  /\ env = "freed" => stack = << >>
  /\ env = "closing" => stack # << >> /\ stack[1].pc = "gc"

LEMMA NoClient ==
  ASSUME Structure, Closing, env # "running"
  PROVE  /\ \A w \in Wrappers : ~Keep(w) /\ ~Root(w) /\ ~Unroot(w) /\ ~PushCreate(w)
         /\ \A T \in TypeIds, p \in Ptrs : ~PushHit(T, p)
         /\ \A T \in TypeIds, p \in Ptrs, own \in BOOLEAN : ~PushMiss(T, p, own)
         /\ \A w \in Wrappers, T \in Registered : ~Construct(w, T)
         /\ \A p \in Ptrs, throws \in BOOLEAN : ~InitializeReturns(p, throws)
         /\ \A S \in SUBSET Collectable : ~RunGC(S)
         /\ ~Cleanup /\ ~Constructed
<1>1. stack # << >> => Top.pc \in Freeing \cup Finalizing
  BY TopHere DEF Closing
<1>2. ~ClientRuns /\ ~At({"create"}) /\ ~At({"init"}) /\ ~At({"enter", "added"})
  BY <1>1 DEF ClientRuns, At, Finalizing, Freeing
<1>3. QED BY <1>2 DEF Keep, Root, Unroot, PushCreate, PushHit, PushMiss, Construct, InitializeReturns,
                      RunGC, Cleanup, Constructed

LEMMA CleaningUp ==
  ASSUME Structure, Closing, env = "cleaning", [Next]_vars
  PROVE  \/ \E w \in Wrappers : Release(w) \/ ReleaseConstructor(w)
         \/ FreeNext \/ FreeDone \/ CollectDone \/ \E w \in Wrappers : CollectNext(w)
         \/ FinalizeReturns \/ RemoveFromCache \/ ObjectFreed
         \/ Destroy \/ UNCHANGED vars
BY NoClient DEF Next, Client, Engine, Destroyed

LEMMA WindingDown ==
  ASSUME Structure, Closing, env \in {"closing", "freed"}, [Next]_vars
  PROVE  \/ \E w \in Wrappers : Release(w)
         \/ \E w \in Wrappers : CollectNext(w)
         \/ CollectDone \/ FinalizeReturns \/ RemoveFromCache \/ ObjectFreed
         \/ UNCHANGED vars
<1>1. stack # << >> => Top.pc \in {"gc"} \cup Finalizing
  BY TopHere DEF Closing
<1>2. ~At({"free"})
  BY <1>1 DEF At, Finalizing
<1>3. ~Destroy /\ ~FreeNext /\ ~FreeDone /\ \A w \in Wrappers : ~ReleaseConstructor(w)
  BY <1>2 DEF Destroy, FreeNext, FreeDone, ReleaseConstructor
<1>4. QED BY <1>3, NoClient DEF Next, Client, Engine, Destroyed

LEMMA ClosingStays ==
  ASSUME Structure, Closing, env = "closing", env' = env,
         \A p \in Ptrs : cache[p] = << >> => cache'[p] = << >>,
         NEW Out, NEW In, Moves(Out, In), "gc" \notin Out, In \subseteq {"gc"} \cup Finalizing
  PROVE  Closing'
<1>1. /\ \A p \in Ptrs : cache[p] = << >>
      /\ \A i \in 1..Len(stack) : stack[i].pc \in {"gc"} \cup Finalizing
      /\ stack # << >> /\ stack[1].pc = "gc"
  BY DEF Closing
<1>2. 1 \in 1..Len(stack)
  BY <1>1, TopHere, Types
<1>3. Stays(1)
  BY <1>1, <1>2 DEF Moves
<1>4. \A i \in 1..Len(stack') : stack'[i].pc \in {"gc"} \cup Finalizing
  BY <1>1 DEF Moves, Stays
<1>5. stack' # << >> /\ stack'[1].pc = "gc"
  BY <1>1, <1>3 DEF Stays
<1>6. QED BY <1>1, <1>4, <1>5 DEF Closing, Freeing

\* While Cleanup releases constructors the loops and finalizers come and go.
LEMMA CleaningStays ==
  ASSUME Structure, Closing, env = "cleaning", env' = env, stack # << >> \/ "linked" \notin Contract,
         NEW Out, NEW In, Moves(Out, In), In \subseteq Freeing \cup Finalizing
  PROVE  Closing'
<1>1. "linked" \notin Contract /\ \A i \in 1..Len(stack) : stack[i].pc \in Freeing \cup Finalizing
  BY DEF Closing
<1>2. \A i \in 1..Len(stack') : stack'[i].pc \in Freeing \cup Finalizing
  BY <1>1 DEF Moves, Stays
<1>3. QED BY <1>1, <1>2 DEF Closing

LEMMA CleaningKeepsClosing ==
  ASSUME Structure, Closing, env = "cleaning", [Next]_vars
  PROVE  Closing'
<1>1. CASE UNCHANGED vars
  BY <1>1 DEF vars, Closing
<1>2. CASE Destroy
  <2>1. cache' = [p \in Ptrs |-> << >>] /\ stack' = << [pc |-> "gc"] >> /\ env' = "closing"
    BY <1>2 DEF Destroy
  <2>2. Len(stack') = 1 /\ stack'[1].pc = "gc" /\ stack' # << >>
    BY <2>1
  <2>3. QED BY <2>1, <2>2 DEF Closing, Freeing
<1> DEFINE Calm == stack # << >> \/ "linked" \notin Contract
<1>3. ASSUME NEW w \in Wrappers, Release(w) \/ ReleaseConstructor(w) PROVE Closing'
  <2>1. Release(w) \/ LetsGo(w)
    BY <1>3 DEF ReleaseConstructor
  <2>2. env' = env /\ Moves({}, {"free"})
    BY <2>1, DropsMove DEF Release, LetsGo
  <2>3. Calm
    BY <1>3 DEF Release, ClientReleases, ReleaseConstructor, At
  <2>4. QED BY <2>2, <2>3, CleaningStays DEF Freeing
<1>4. ASSUME NEW w \in Wrappers, StartFinalizer(w), env' = env, stack # << >> PROVE Closing'
  BY <1>4, StartFinalizerMoves, CleaningStays DEF Finalizing
<1>5. ASSUME FreeNext PROVE Closing'
  <2>1. zeroRefs \in Seq(Wrappers) /\ zeroRefs # << >> /\ StartFinalizer(Head(zeroRefs))
    BY <1>5, Types DEF FreeNext
  <2>2. Head(zeroRefs) \in Wrappers
    BY <2>1
  <2>3. env' = env /\ stack # << >>
    BY <1>5 DEF FreeNext, At
  <2>4. QED BY <1>4, <2>1, <2>2, <2>3
<1>6. ASSUME NEW w \in Wrappers, CollectNext(w) PROVE Closing'
  BY <1>4, <1>6 DEF CollectNext, At
<1>7. ASSUME FreeDone \/ CollectDone PROVE Closing'
  <2>1. env' = env
    BY <1>7 DEF FreeDone, CollectDone
  <2>2. stack # << >> /\ Moves({"free", "gc"}, {})
    BY <1>7, LoopsEndMove
  <2>3. QED BY <2>1, <2>2, CleaningStays
<1>8. ASSUME FinalizeReturns \/ RemoveFromCache PROVE Closing'
  <2>1. env' = env
    BY <1>8 DEF FinalizeReturns, RemoveFromCache
  <2>2. stack # << >> /\ Moves({"finalize", "remove"}, {"remove", "exit"})
    BY <1>8, FinalizersMove
  <2>3. QED BY <2>1, <2>2, CleaningStays DEF Finalizing
<1>9. ASSUME ObjectFreed PROVE Closing'
  <2>1. env' = env
    BY <1>9 DEF ObjectFreed
  <2>2. stack # << >> /\ Moves({"remove", "exit"}, {})
    BY <1>9, FreedMoves
  <2>3. QED BY <2>1, <2>2, CleaningStays
<1>10. QED BY <1>1, <1>2, <1>3, <1>5, <1>6, <1>7, <1>8, <1>9, CleaningUp

LEMMA NextClosing ==
  ASSUME Structure, Closing, [Next]_vars
  PROVE  Closing'
<1>1. CASE env = "running"
  <2>1. CASE Cleanup
    <3>1. env' = "cleaning" /\ stack' = << >>
      BY <2>1 DEF Cleanup
    <3>2. QED BY <3>1 DEF Closing
  <2>2. CASE ~Cleanup
    <3>1. env' = "running"
      BY <1>1, <2>2
         DEF Next, Client, Engine, Destroyed, Release, Keep, Root, Unroot, LetsGo, PushHit, PushMiss,
             Construct, InitializeReturns, RunGC, PushCreate, Constructed, FreeNext, FreeDone,
             CollectDone, CollectNext, FinalizeReturns, RemoveFromCache, ObjectFreed,
             ReleaseConstructor, Destroy, vars
    <3>2. QED BY <3>1 DEF Closing
  <2>3. QED BY <2>1, <2>2
<1>2. CASE env \in {"closing", "freed"}
  <2>1. CASE UNCHANGED vars
    BY <2>1 DEF vars, Closing
  <2>2. CASE stack # << >> /\ env = "closing"
    <3>1. 1 \in 1..Len(stack) /\ stack[1].pc = "gc"
      BY <1>2, <2>2, TopHere, Types DEF Closing
    <3>2. phase = "cycles"
      BY <3>1, Parts DEF OneLoop, Freeing
    <3>3. ASSUME NEW w \in Wrappers, Release(w) PROVE Closing'
      <4>1. stack' = stack /\ cache' = cache /\ env' = env
        BY <3>2, <3>3 DEF Release, LastRefGone
      <4>2. QED BY <4>1 DEF Closing
    <3>4. ASSUME NEW w \in Wrappers, CollectNext(w) PROVE Closing'
      <4>1. StartFinalizer(w) /\ cache' = cache /\ env' = env
        BY <3>4 DEF CollectNext
      <4>2. Moves({}, {"finalize", "remove"})
        BY <4>1, StartFinalizerMoves
      <4>3. QED BY <2>2, <4>1, <4>2, ClosingStays DEF Finalizing
    <3>5. ASSUME CollectDone PROVE Closing'
      <4>1. Top.pc \in Freeing /\ Popped /\ cache' = cache /\ env' = "freed"
        BY <2>2, <3>5, LoopsEndMove DEF CollectDone
      <4>2. Len(stack) = 1
        BY <2>2, <3>1, <4>1, TopHere, Parts DEF OneLoop, Freeing
      <4>3. stack' \in Seq(Frame) /\ Len(stack') = 0
        BY <4>1, <4>2 DEF Popped
      <4>4. stack' = << >>
        BY <4>3, EmptySeq
      <4>5. QED BY <1>2, <4>1, <4>3, <4>4 DEF Closing, Freeing
    <3>6. ASSUME FinalizeReturns \/ RemoveFromCache PROVE Closing'
      <4>1. Moves({"finalize", "remove"}, {"remove", "exit"})
        BY <3>6, FinalizersMove
      <4>2. cache' = cache /\ env' = env
        BY <3>6 DEF FinalizeReturns, RemoveFromCache
      <4>3. QED BY <2>2, <4>1, <4>2, ClosingStays DEF Finalizing
    <3>7. ASSUME ObjectFreed PROVE Closing'
      <4>1. Moves({"remove", "exit"}, {})
        BY <3>7, FreedMoves
      <4>2. \A p \in Ptrs : cache[p] = << >> => cache'[p] = << >>
        <5>1. \A T : Positions(<< >>, T) = {}
          BY DEF Positions
        <5>2. \A T : RemoveFirst(<< >>, T) = << >>
          BY <5>1 DEF RemoveFirst
        <5>3. QED BY <3>7, <5>2, FreedFacts
      <4>3. env' = env
        BY <3>7 DEF ObjectFreed
      <4>4. QED BY <2>2, <4>1, <4>2, <4>3, ClosingStays
    <3>8. QED BY <1>2, <2>1, <3>3, <3>4, <3>5, <3>6, <3>7, WindingDown
  <2>3. CASE stack = << >>
    <3>1. UNCHANGED vars
      <4>1. \A w \in Wrappers : ~Release(w) /\ ~CollectNext(w)
        BY <1>2, <2>3 DEF Release, ClientReleases, CollectNext, At
      <4>2. ~CollectDone /\ ~FinalizeReturns /\ ~RemoveFromCache /\ ~ObjectFreed
        BY <2>3 DEF CollectDone, FinalizeReturns, RemoveFromCache, ObjectFreed, FinalizerEnds, At
      <4>3. QED BY <1>2, <4>1, <4>2, WindingDown
    <3>2. QED BY <2>1, <3>1
  <2>4. QED BY <1>2, <2>2, <2>3 DEF Closing
<1>3. QED BY <1>1, <1>2, Types, CleaningKeepsClosing

\* The client released everything before destroy_qjs_env, so the last
\* collection was given every wrapper there was.
NothingHeld ==
  env # "running" /\ "released" \in Contract =>
    \A w \in Wrappers :
      /\ native[w] = 0
      /\ env # "cleaning" /\ status[w] = "bound" => w \in garbage

LEMMA NextNothingHeld ==
  ASSUME Structure, Closing, NothingHeld, [Next]_vars
  PROVE  NothingHeld'
<1> SUFFICES ASSUME env' # "running", "released" \in Contract, NEW v \in Wrappers
             PROVE  /\ native'[v] = 0
                    /\ env' # "cleaning" /\ status'[v] = "bound" => v \in garbage'
  BY DEF NothingHeld
<1>1. CASE env = "running"
  <2>1. Cleanup
    BY <1>1
       DEF Next, Client, Engine, Destroyed, Release, Keep, Root, Unroot, LetsGo, PushHit, PushMiss,
           Construct, InitializeReturns, RunGC, PushCreate, Constructed, FreeNext, FreeDone,
           CollectDone, CollectNext, FinalizeReturns, RemoveFromCache, ObjectFreed,
           ReleaseConstructor, Destroy, vars
  <2>2. QED BY <2>1 DEF Cleanup
<1>2. CASE env = "cleaning"
  <2>1. \A w \in Wrappers : native[w] = 0
    BY <1>2 DEF NothingHeld
  <2>2. \A w \in Wrappers : ~Release(w)
    BY <2>1 DEF Release
  <2>3. CASE Destroy
    <3>1. garbage' = LeftToCollect /\ UNCHANGED <<status, native>>
      BY <2>3 DEF Destroy
    <3>2. garbage' = {w \in Wrappers : status[w] = "bound"}
      BY <2>1, <3>1 DEF LeftToCollect
    <3>3. QED BY <2>1, <3>1, <3>2
  <2>4. CASE ~Destroy
    <3>1. native' = native /\ env' = "cleaning"
      BY <1>2, <2>2, <2>4, CleaningUp
         DEF ReleaseConstructor, LetsGo, FreeNext, FreeDone, CollectDone, CollectNext,
             FinalizeReturns, RemoveFromCache, ObjectFreed, vars
    <3>2. QED BY <2>1, <3>1
  <2>5. QED BY <2>3, <2>4
<1>3. CASE env \in {"closing", "freed"}
  <2>1. native[v] = 0 /\ (status[v] = "bound" => v \in garbage)
    BY <1>3 DEF NothingHeld
  <2>2. \A w \in Wrappers : ~Release(w)
    BY <1>3, Types DEF NothingHeld, Release
  <2>3. ASSUME NEW w \in Wrappers, CollectNext(w)
        PROVE  native'[v] = 0 /\ (status'[v] = "bound" => v \in garbage')
    <3>1. /\ status' = [status EXCEPT ![w] = "dying"] /\ native' = native
          /\ garbage' = garbage \ {w}
      BY <2>3 DEF CollectNext, StartFinalizer
    <3>2. QED BY <2>1, <3>1, Types
  <2>4. CASE CollectDone \/ FinalizeReturns \/ RemoveFromCache \/ UNCHANGED vars
    BY <2>1, <2>4 DEF CollectDone, FinalizeReturns, RemoveFromCache, vars
  <2>5. CASE ObjectFreed
    <3>1. /\ native' = native /\ garbage' = garbage
          /\ status'[v] = "free" \/ status'[v] = status[v]
      BY <2>5, FreedFacts
    <3>2. QED BY <2>1, <3>1
  <2>6. QED BY <1>3, <2>2, <2>3, <2>4, <2>5, WindingDown
<1>4. QED BY <1>1, <1>2, <1>3, Types

\* destroy_qjs_env leaves no wrapper behind once the client released its
\* references, so that every Finalize and OnExit still owed is made: the list
\* of dead objects is empty by then, and the last collection, which removes all
\* cycles, works off everything that is bound.
THEOREM DestroyLeavesNothing ==
  ASSUME "released" \in Contract
  PROVE  Spec => []DestroyReleasesAll
<1> DEFINE Inv == Structure /\ Engaged /\ Closing /\ NothingHeld
<1>1. Init => Inv
  BY InitStructure, InitEngaged DEF Init, Closing, NothingHeld
<1>2. Inv /\ [Next]_vars => Inv'
  BY NextStructure, NextEngaged, NextClosing, NextNothingHeld
<1>3. Inv => DestroyReleasesAll
  <2> SUFFICES ASSUME Inv, env = "freed", NEW w \in Wrappers PROVE status[w] = "free"
    BY DEF DestroyReleasesAll
  <2>1. Len(stack) = 0
    BY DEF Closing
  <2>2. phase = "none"
    BY <2>1 DEF Engaged, Looping
  <2>3. status[w] # "queued"
    <3>1. zeroRefs = << >>
      BY <2>2 DEF Engaged
    <3>2. Len(zeroRefs) = 0
      BY <3>1
    <3>3. QED BY <3>2 DEF Engaged, Queued
  <2>4. status[w] # "dying"
    BY <2>1 DEF Engaged, Active
  <2>5. status[w] # "blank"
    BY <2>1, Parts DEF ConstructionSound
  <2>6. status[w] # "bound"
    BY <2>2, Parts DEF NothingHeld, GarbageSound
  <2>7. QED BY <2>3, <2>4, <2>5, <2>6, Types
<1> HIDE DEF Inv
<1>4. QED BY <1>1, <1>2, <1>3, PTL DEF Spec

-----------------------------------------------------------------------------
(* What is referenced is not freed, for a client that keeps fresh and quiet. *)

\* Whatever runs inside a freeing loop is part of it.
Undisturbed ==
  \A j \in 1..Len(stack) : stack[j].pc \notin Finalizing \cup Freeing =>
    \A i \in 1..(j - 1) : stack[i].pc \notin Freeing

\* Where the client may do more than release references, nothing is being freed.
LEMMA CalmAtClient ==
  ASSUME Structure, Engaged, Undisturbed, "quiet" \in Contract,
         ClientRuns \/ (stack # << >> /\ Top.pc \notin Finalizing \cup Freeing)
  PROVE  /\ ~Looping /\ phase = "none" /\ zeroRefs = << >> /\ garbage = {}
         /\ \A w \in Wrappers : status[w] \notin {"queued", "dying"}
<1>1. ~Looping
  <2>1. CASE stack = << >>
    BY <2>1 DEF Looping
  <2>2. CASE stack # << >>
    <3>1. Top.pc \notin Finalizing \cup Freeing
      BY <2>2 DEF ClientRuns, At, Finalizing, Freeing
    <3>2. Len(stack) \in 1..Len(stack) /\ stack[Len(stack)].pc \notin Finalizing \cup Freeing
      BY <2>2, <3>1, TopHere
    <3>3. \A i \in 1..(Len(stack) - 1) : stack[i].pc \notin Freeing
      BY <3>2 DEF Undisturbed
    <3>4. \A i \in 1..Len(stack) : i = Len(stack) \/ i \in 1..(Len(stack) - 1)
      BY Types
    <3>5. QED BY <3>2, <3>3, <3>4 DEF Looping
  <2>3. QED BY <2>1, <2>2
<1>2. phase = "none" /\ zeroRefs = << >> /\ garbage = {}
  BY <1>1, Parts DEF Engaged, GarbageSound
<1>3. \A w \in Wrappers : ~Active(w)
  <2>1. ASSUME NEW i \in 1..Len(stack) PROVE stack[i].pc \notin Finalizing
    <3>1. \A j \in 1..(i - 1) : j \in 1..Len(stack)
      BY Types
    <3>2. QED BY <1>1, <3>1 DEF Engaged, Nested, Looping
  <2>2. QED BY <2>1 DEF Active
<1>4. \A w \in Wrappers : ~Queued(w)
  <2>1. Len(zeroRefs) = 0
    BY <1>2
  <2>2. QED BY <2>1 DEF Queued
<1>5. QED BY <1>1, <1>2, <1>3, <1>4 DEF Engaged

LEMMA UndisturbedStays ==
  ASSUME Structure, Undisturbed, NEW Out, NEW In, Moves(Out, In),
         In \subseteq Finalizing \cup Freeing \/ ~Looping
  PROVE  Undisturbed'
<1> SUFFICES ASSUME NEW j \in 1..Len(stack'), stack'[j].pc \notin Finalizing \cup Freeing,
                    NEW i \in 1..(j - 1)
             PROVE  stack'[i].pc \notin Freeing
  BY DEF Undisturbed
<1>1. i \in 1..Len(stack') /\ i # Len(stack') /\ Len(stack') \in Nat
  BY DEF Moves
<1>2. Stays(i)
  BY <1>1 DEF Moves
<1>3. CASE Stays(j)
  BY <1>2, <1>3 DEF Stays, Undisturbed
<1>4. CASE ~Stays(j)
  <2>1. stack'[j].pc \in In
    BY <1>4 DEF Moves
  <2>2. QED BY <1>2, <2>1 DEF Stays, Looping
<1>5. QED BY <1>3, <1>4

LEMMA NextUndisturbed ==
  ASSUME "quiet" \in Contract, Structure, Engaged, Undisturbed, [Next]_vars
  PROVE  Undisturbed'
<1> DEFINE F == Finalizing \cup Freeing
<1>1. {"free"} \subseteq F /\ {"gc"} \subseteq F /\ {} \subseteq F
      /\ {"finalize", "remove"} \subseteq F /\ {"remove", "exit"} \subseteq F
  BY DEF Finalizing, Freeing
<1>2. ASSUME NEW w \in Wrappers, Release(w) \/ LetsGo(w) PROVE Undisturbed'
  BY <1>1, <1>2, DropsMove, UndisturbedStays
<1>3. ASSUME \/ \E w \in Wrappers : Keep(w) \/ Root(w)
             \/ \E T \in TypeIds, p \in Ptrs : PushHit(T, p)
             \/ Cleanup \/ UNCHANGED vars
      PROVE  Undisturbed'
  BY <1>1, <1>3, RefersMove, UndisturbedStays
<1>4. ASSUME NEW T \in TypeIds, NEW p \in Ptrs, NEW own \in BOOLEAN, PushMiss(T, p, own)
      PROVE  Undisturbed'
  <2>1. ~Looping
    BY <1>4, CalmAtClient DEF PushMiss
  <2>2. QED BY <1>4, <2>1, PushMissMoves, UndisturbedStays
<1>5. ASSUME NEW w \in Wrappers, NEW T \in Registered, Construct(w, T) PROVE Undisturbed'
  <2>1. ~Looping
    BY <1>5, CalmAtClient DEF Construct
  <2>2. QED BY <1>5, <2>1, ConstructMoves, UndisturbedStays
<1>6. ASSUME NEW w \in Wrappers, NEW C, NEW p, NEW own, NEW throws \in BOOLEAN,
             BindAndAddToCache(w, C, p, own, throws), stack # << >>, Top.pc \in {"create", "init"}
      PROVE  Undisturbed'
  <2>1. ~Looping
    BY <1>6, CalmAtClient DEF Finalizing, Freeing
  <2>2. Moves({"create", "init"}, {"enter", "added"})
    BY <1>6, BindMoves
  <2>3. QED BY <2>1, <2>2, UndisturbedStays
<1>7. ASSUME NEW w \in Wrappers, PushCreate(w) PROVE Undisturbed'
  <2>1. /\ stack # << >> /\ Top.pc = "create"
        /\ BindAndAddToCache(w, ClassOf(Top.T), Top.p, Top.own, FALSE)
    BY <1>7 DEF PushCreate, At
  <2>2. QED BY <1>6, <2>1
<1>8. ASSUME NEW p \in Ptrs, NEW throws \in BOOLEAN, InitializeReturns(p, throws) PROVE Undisturbed'
  <2>1. /\ stack # << >> /\ Top.pc = "init"
        /\ BindAndAddToCache(Top.w, Top.T, p, TRUE, throws)
    BY <1>8 DEF InitializeReturns, At
  <2>2. Top.w \in Wrappers
    BY <2>1, TopHere DEF Constructing
  <2>3. QED BY <1>6, <2>1, <2>2
<1>9. ASSUME Constructed \/ (\E S \in SUBSET Collectable : RunGC(S)) \/ Destroy PROVE Undisturbed'
  BY <1>1, <1>9, ConstructedMoves, CollectMoves, UndisturbedStays
<1>10. ASSUME FreeNext \/ \E w \in Wrappers : CollectNext(w) PROVE Undisturbed'
  <2>1. \E w \in Wrappers : StartFinalizer(w)
    <3>1. CASE FreeNext
      <4>1. zeroRefs \in Seq(Wrappers) /\ zeroRefs # << >> /\ StartFinalizer(Head(zeroRefs))
        BY <3>1, Types DEF FreeNext
      <4>2. Head(zeroRefs) \in Wrappers
        BY <4>1
      <4>3. QED BY <4>1, <4>2
    <3>2. QED BY <1>10, <3>1 DEF CollectNext
  <2>2. QED BY <1>1, <2>1, StartFinalizerMoves, UndisturbedStays
<1>11. ASSUME FreeDone \/ CollectDone PROVE Undisturbed'
  BY <1>1, <1>11, LoopsEndMove, UndisturbedStays
<1>12. ASSUME FinalizeReturns \/ RemoveFromCache \/ ObjectFreed PROVE Undisturbed'
  BY <1>1, <1>12, FinalizersMove, FreedMoves, UndisturbedStays
<1>13. QED
  BY <1>2, <1>3, <1>4, <1>5, <1>7, <1>8, <1>9, <1>10, <1>11, <1>12
     DEF Next, Client, Engine, Destroyed, Unroot, ReleaseConstructor

\* Neither script nor client code holds what is free, queued or dying, or what
\* the collection has yet to take.
Unheld ==
  /\ \A w \in Wrappers : status[w] \in {"free", "queued", "dying"} =>
       native[w] = 0 /\ script[w] = "none"
  /\ \A w \in garbage : native[w] = 0

\* A lookup by a type id of the client finds a wrapper of a registered class.
LEMMA HitFinds ==
  ASSUME CacheInv, NEW T \in TypeIds, NEW p \in Ptrs, PushHit(T, p)
  PROVE  \E w \in Wrappers : Alive(w) /\ native' = [native EXCEPT ![w] = @ + 1]
<1> DEFINE k == FirstOf(cache[p], T)
<1>1. Structure /\ CacheSound /\ cache[p] \in Seq(Node) /\ Positions(cache[p], T) # {}
  BY Types DEF CacheInv, PushHit
<1>2. k \in 1..Len(cache[p]) /\ cache[p][k].TypeId = T
  <2>1. k \in Positions(cache[p], T)
    BY <1>1, FirstOfFacts
  <2>2. QED BY <2>1 DEF Positions
<1>3. T \in Registered
  <2>1. cache[p][k] \in Node
    BY <1>1, <1>2
  <2>2. T \in Classes
    BY <1>2, <2>1 DEF Node
  <2>3. QED BY <2>2, MapperAssumption DEF Classes
<1>4. NodeSound(p, k)
  BY <1>1, <1>2, NodesSound
<1>5. QED BY <1>2, <1>3, <1>4 DEF NodeSound, PushHit

LEMMA DropKeepsUnheld ==
  ASSUME Structure, Unheld, NEW w \in Wrappers, NEW stk, LastRefGone(w, stk), garbage' = garbage,
         \A v \in Wrappers : v # w => native'[v] = native[v] /\ script'[v] = script[v],
         native'[w] = 0 /\ script'[w] = "none"
  PROVE  Unheld'
<1>1. \A v \in Wrappers : v # w => status'[v] = status[v]
  BY DropFacts, Types
<1>2. \A v \in garbage : v \in Wrappers
  BY Types
<1>3. QED BY <1>1, <1>2 DEF Unheld

LEMMA ReleaseKeepsUnheld ==
  ASSUME Structure, Unheld, NEW w \in Wrappers, Release(w) \/ LetsGo(w)
  PROVE  Unheld'
<1>1. garbage' = garbage /\ \A v \in garbage : v \in Wrappers
  BY Types DEF Release, LetsGo
<1>2. CASE Release(w)
  <2>1. /\ native[w] > 0 /\ native'[w] = native[w] - 1 /\ script' = script
        /\ \A v \in Wrappers : v # w => native'[v] = native[v]
    BY <1>2, Types DEF Release
  <2>2. CASE native[w] = 1 /\ script[w] = "none" /\ LastRefGone(w, stack)
    BY <1>1, <2>1, <2>2, DropKeepsUnheld
  <2>3. CASE status' = status
    <3>1. \A v \in Wrappers : native[v] = 0 => native'[v] = 0
      BY <2>1
    <3>2. QED BY <1>1, <2>1, <2>3, <3>1 DEF Unheld
  <2>4. QED BY <1>2, <2>2, <2>3 DEF Release
<1>3. CASE LetsGo(w)
  <2>1. /\ script[w] = "root" /\ native' = native
        /\ \A v \in Wrappers : v # w => script'[v] = script[v]
    BY <1>3, Types DEF LetsGo
  <2>2. CASE LastRefGone(w, stack) /\ native[w] = 0 /\ script' = [script EXCEPT ![w] = "none"]
    <3>1. script'[w] = "none"
      BY <2>2, Types
    <3>2. QED BY <1>1, <2>1, <2>2, <3>1, DropKeepsUnheld
  <2>3. CASE status' = status
    BY <1>1, <2>1, <2>3 DEF Unheld
  <2>4. QED BY <1>3, <2>2, <2>3 DEF LetsGo
<1>4. QED BY <1>2, <1>3

\* Handing out references to what exists, while nothing is being freed.
LEMMA RefersKeepsUnheld ==
  ASSUME "quiet" \in Contract, CacheInv, Engaged, Undisturbed, Unheld,
         \/ \E w \in Wrappers : Keep(w) \/ Root(w)
         \/ \E T \in TypeIds, p \in Ptrs : PushHit(T, p)
  PROVE  Unheld'
<1>1. Structure /\ ClientRuns /\ UNCHANGED <<status, garbage>>
  BY DEF CacheInv, Keep, Root, PushHit
<1>2. garbage = {} /\ \A w \in Wrappers : status[w] \notin {"queued", "dying"}
  BY <1>1, CalmAtClient
<1>3. \E w \in Wrappers :
        /\ status[w] # "free"
        /\ \A v \in Wrappers : v # w => native'[v] = native[v] /\ script'[v] = script[v]
  <2>1. CASE \E w \in Wrappers : Keep(w)
    <3>1. PICK w \in Wrappers : Keep(w)
      BY <2>1
    <3>2. status[w] # "free"
      <4>1. CASE native[w] > 0
        BY <1>1, <4>1, Types DEF Unheld
      <4>2. CASE At({"init"}) /\ Top.w = w
        <5>1. Top.pc \in Constructing /\ Top.pc = "init" /\ stack # << >>
          BY <4>2 DEF At, Constructing
        <5>2. status[w] = "blank"
          BY <1>1, <4>2, <5>1, TopHere, Parts DEF ConstructionSound
        <5>3. QED BY <5>2
      <4>3. QED BY <3>1, <4>1, <4>2 DEF Keep
    <3>3. QED BY <1>1, <3>1, <3>2, Types DEF Keep
  <2>2. CASE \E w \in Wrappers : Root(w)
    <3>1. PICK w \in Wrappers : Root(w)
      BY <2>2
    <3>2. status[w] # "free"
      BY <1>1, <3>1, Types DEF Unheld, Root
    <3>3. QED BY <1>1, <3>1, <3>2, Types DEF Root
  <2>3. CASE \E T \in TypeIds, p \in Ptrs : PushHit(T, p)
    <3>1. PICK w \in Wrappers : Alive(w) /\ native' = [native EXCEPT ![w] = @ + 1]
      BY <2>3, HitFinds
    <3>2. script' = script
      BY <2>3 DEF PushHit
    <3>3. QED BY <1>1, <3>1, <3>2, Types DEF Alive
  <2>4. QED BY <2>1, <2>2, <2>3
<1>4. QED BY <1>1, <1>2, <1>3 DEF Unheld

\* Wrappers come to exist: nobody refers to one before.
LEMMA CreationKeepsUnheld ==
  ASSUME Structure, Unheld, UNCHANGED <<native, script, garbage>>, NEW w,
         status' = status \/ status' = [status EXCEPT ![w] = "blank"]
         \/ status' = [status EXCEPT ![w] = "bound"]
  PROVE  Unheld'
<1>1. \A v \in Wrappers : status'[v] = status[v] \/ status'[v] \in {"blank", "bound"}
  BY Types
<1>2. QED BY <1>1 DEF Unheld

LEMMA ConstructedKeepsUnheld ==
  ASSUME "quiet" \in Contract, Structure, Engaged, Undisturbed, Unheld, Constructed
  PROVE  Unheld'
<1>1. PICK w : w = Top.w
  OBVIOUS
<1>2. stack # << >> /\ Top.pc \in Constructing /\ Top.pc \in {"enter", "added"}
  BY DEF Constructed, At, Constructing
<1>3. w \in Wrappers /\ status[w] = "bound"
  BY <1>1, <1>2, TopHere, Parts DEF ConstructionSound
<1>4. garbage = {} /\ garbage' = garbage /\ script' = script
  BY <1>2, CalmAtClient DEF Constructing, Finalizing, Freeing, Constructed
<1>5. CASE LastRefGone(w, Caller) /\ native' = native /\ native[w] = 0 /\ script[w] = "none"
  BY <1>3, <1>4, <1>5, DropKeepsUnheld
<1>6. CASE status' = status /\ \A v \in Wrappers : v # w => native'[v] = native[v]
  BY <1>3, <1>4, <1>6 DEF Unheld
<1>7. QED BY <1>1, <1>3, <1>5, <1>6, Types DEF Constructed

LEMMA FreeingKeepsUnheld ==
  ASSUME Structure, Unheld,
         \/ \E S \in SUBSET Collectable : RunGC(S)
         \/ Destroy \/ FreeNext \/ \E w \in Wrappers : CollectNext(w)
         \/ FreeDone \/ CollectDone \/ FinalizeReturns \/ RemoveFromCache \/ ObjectFreed
         \/ Cleanup \/ UNCHANGED vars
  PROVE  Unheld'
<1>1. CASE (\E S \in SUBSET Collectable : RunGC(S)) \/ Destroy
  <2>1. UNCHANGED <<status, native, script>>
    BY <1>1 DEF RunGC, Destroy
  <2>2. \A w \in garbage' : w \in Wrappers /\ native[w] = 0
    <3>1. CASE \E S \in SUBSET Collectable : RunGC(S)
      BY <3>1 DEF RunGC, Collectable
    <3>2. CASE Destroy
      <4>1. garbage' = LeftToCollect
        BY <3>2 DEF Destroy
      <4>2. CASE \E w \in Wrappers : native[w] > 0
        BY <4>1, <4>2 DEF LeftToCollect, Collectable
      <4>3. CASE ~\E w \in Wrappers : native[w] > 0
        BY <4>1, <4>3, Types DEF LeftToCollect
      <4>4. QED BY <4>2, <4>3
    <3>3. QED BY <1>1, <3>1, <3>2
  <2>3. QED BY <2>1, <2>2 DEF Unheld
<1>2. ASSUME NEW w \in Wrappers, StartFinalizer(w), native' = native, native[w] = 0,
             garbage' \subseteq garbage
      PROVE  Unheld'
  <2>1. /\ script'[w] = "none" /\ \A v \in Wrappers : v # w => script'[v] = script[v]
        /\ status'[w] = "dying" /\ \A v \in Wrappers : v # w => status'[v] = status[v]
    BY <1>2, Types DEF StartFinalizer
  <2>2. QED BY <1>2, <2>1 DEF Unheld
<1>3. CASE FreeNext
  <2>1. /\ zeroRefs # << >> /\ zeroRefs \in Seq(Wrappers) /\ StartFinalizer(Head(zeroRefs))
        /\ UNCHANGED <<native, garbage>>
    BY <1>3, Types DEF FreeNext
  <2>2. /\ Head(zeroRefs) \in Wrappers /\ Head(zeroRefs) = zeroRefs[1] /\ 1 \in 1..Len(zeroRefs)
    BY <2>1, EmptySeq
  <2>3. native[Head(zeroRefs)] = 0
    BY <2>2, Parts DEF QueueSound, Unheld
  <2>4. QED BY <1>2, <2>1, <2>2, <2>3
<1>4. CASE \E w \in Wrappers : CollectNext(w)
  BY <1>2, <1>4 DEF CollectNext, Unheld
<1>5. CASE ObjectFreed
  <2>1. PICK w \in Wrappers : status[w] = "dying" /\ \A v \in Wrappers : v # w => status'[v] = status[v]
    BY <1>5, FreedFacts
  <2>2. UNCHANGED <<native, script, garbage>>
    BY <1>5, FreedFacts
  <2>3. QED BY <2>1, <2>2 DEF Unheld
<1>6. CASE FreeDone \/ CollectDone \/ FinalizeReturns \/ RemoveFromCache \/ Cleanup \/ UNCHANGED vars
  BY <1>6 DEF Unheld, FreeDone, CollectDone, FinalizeReturns, RemoveFromCache, Cleanup, vars
<1>7. QED BY <1>1, <1>3, <1>4, <1>5, <1>6

\* All that is needed of the state by the properties of a wrapper's life.
LifeInv == CacheInv /\ Engaged /\ Undisturbed /\ Unheld

LEMMA NextUnheld ==
  ASSUME "quiet" \in Contract, LifeInv, [Next]_vars
  PROVE  Unheld'
<1>1. CacheInv /\ Structure /\ Engaged /\ Undisturbed /\ Unheld
  BY DEF LifeInv, CacheInv
<1>2. ASSUME NEW w \in Wrappers, Release(w) \/ LetsGo(w) PROVE Unheld'
  BY <1>1, <1>2, ReleaseKeepsUnheld
<1>3. ASSUME \/ \E w \in Wrappers : Keep(w) \/ Root(w)
             \/ \E T \in TypeIds, p \in Ptrs : PushHit(T, p)
      PROVE  Unheld'
  BY <1>1, <1>3, RefersKeepsUnheld
<1>4. ASSUME \/ \E T \in TypeIds, p \in Ptrs, own \in BOOLEAN : PushMiss(T, p, own)
             \/ \E w \in Wrappers, T \in Registered : Construct(w, T)
             \/ \E w \in Wrappers : PushCreate(w)
             \/ \E p \in Ptrs, throws \in BOOLEAN : InitializeReturns(p, throws)
      PROVE  Unheld'
  <2>1. /\ UNCHANGED <<native, script, garbage>>
        /\ \E w : status' = status \/ status' = [status EXCEPT ![w] = "blank"]
                  \/ status' = [status EXCEPT ![w] = "bound"]
    BY <1>4 DEF PushMiss, Construct, PushCreate, InitializeReturns, BindAndAddToCache
  <2>2. QED BY <1>1, <2>1, CreationKeepsUnheld
<1>5. ASSUME Constructed PROVE Unheld'
  BY <1>1, <1>5, ConstructedKeepsUnheld
<1>6. ASSUME \/ \E S \in SUBSET Collectable : RunGC(S)
             \/ Destroy \/ FreeNext \/ \E w \in Wrappers : CollectNext(w)
             \/ FreeDone \/ CollectDone \/ FinalizeReturns \/ RemoveFromCache \/ ObjectFreed
             \/ Cleanup \/ UNCHANGED vars
      PROVE  Unheld'
  BY <1>1, <1>6, FreeingKeepsUnheld
<1>7. QED BY <1>2, <1>3, <1>4, <1>5, <1>6 DEF Next, Client, Engine, Destroyed, Unroot, ReleaseConstructor

LEMMA InitLife == Init => LifeInv
<1> SUFFICES ASSUME Init PROVE LifeInv
  OBVIOUS
<1>1. Undisturbed
  BY DEF Init, Undisturbed
<1>2. Unheld
  BY DEF Init, Unheld
<1>3. QED BY <1>1, <1>2, InitCache, InitEngaged DEF LifeInv

LEMMA NextLife ==
  ASSUME "fresh" \in Contract, "quiet" \in Contract
  PROVE  LifeInv /\ [Next]_vars => LifeInv'
<1> SUFFICES ASSUME LifeInv, [Next]_vars PROVE LifeInv'
  OBVIOUS
<1>1. Structure /\ CacheInv /\ Engaged /\ Undisturbed
  BY DEF LifeInv, CacheInv
<1>2. QED BY <1>1, NextCache, NextEngaged, NextUndisturbed, NextUnheld DEF LifeInv

\* What client code, script or an activation holds is not being freed, however
\* releases, collections and lookups interleave: PushNativeObject never hands
\* out a wrapper that is queued or in its finalizer.
THEOREM RefsNeverDangle ==
  ASSUME "fresh" \in Contract, "quiet" \in Contract
  PROVE  Spec => []NoDanglingRef
<1>1. Spec => []LifeInv
  BY InitLife, NextLife, PTL DEF Spec
<1>2. LifeInv => NoDanglingRef
  <2> SUFFICES ASSUME LifeInv, NEW w \in Wrappers, Referenced(w)
               PROVE  status[w] \in {"blank", "bound"}
    BY DEF NoDanglingRef
  <2>1. Structure /\ Unheld
    BY DEF LifeInv, CacheInv
  <2>2. CASE native[w] > 0 \/ script[w] # "none"
    BY <2>1, <2>2, Types DEF Unheld
  <2>3. CASE Pinned(w)
    <3>1. PICK i \in 1..Len(stack) : stack[i].pc \in {"init", "enter", "added"} /\ stack[i].w = w
      BY <2>3 DEF Pinned
    <3>2. stack[i].pc \in Constructing
      BY <3>1 DEF Constructing
    <3>3. QED BY <2>1, <3>1, <3>2, Parts DEF ConstructionSound
  <2>4. QED BY <2>2, <2>3 DEF Referenced
<1>3. QED BY <1>1, <1>2, PTL

-----------------------------------------------------------------------------
(* The callbacks of a wrapper, for a client that keeps fresh and quiet. *)

\* Until the cache is cleared a wrapper of a registered class has its own node.
LEMMA OwnNode ==
  ASSUME Structure, CacheSound, Balanced, env \in {"running", "cleaning"},
         NEW w \in Wrappers, Alive(w), udata[w].typeInfo \in Registered
  PROVE  \E i \in 1..Len(cache[udata[w].ptr]) :
           /\ cache[udata[w].ptr][i].TypeId = udata[w].typeInfo
           /\ cache[udata[w].ptr][i].Value = w
<1>1. PICK p \in Ptrs, C \in Classes : p = udata[w].ptr /\ C = udata[w].typeInfo
  <2>1. udata[w] \in ObjectUserData
    BY Parts DEF BoundSound
  <2>2. QED BY <2>1 DEF ObjectUserData
<1>2. w \in Owners(p, C)
  BY <1>1 DEF Owners
<1>3. /\ IsFiniteSet(Owners(p, C))
      /\ Cardinality(Positions(cache[p], C)) = Cardinality(Owners(p, C))
  BY DEF Balanced
<1>4. Positions(cache[p], C) # {}
  <2>1. Cardinality(Owners(p, C)) # 0
    BY <1>2, <1>3, FS_EmptySet
  <2>2. QED BY <1>3, <2>1, FS_EmptySet
<1>5. PICK i \in 1..Len(cache[p]) : cache[p][i].TypeId = C
  BY <1>4 DEF Positions
<1>6. NodeSound(p, i)
  BY <1>5, NodesSound
<1>7. /\ cache[p][i].Value \in Owners(p, C)
      /\ \A j \in 1..Len(cache[p]) : cache[p][j].TypeId = C => j = i
  BY <1>1, <1>5, <1>6 DEF NodeSound, Owners
<1>8. Positions(cache[p], C) = {i}
  BY <1>5, <1>7 DEF Positions
<1>9. Cardinality(Owners(p, C)) = 1
  BY <1>3, <1>8, FS_Singleton
<1>10. \E x : Owners(p, C) = {x}
  BY <1>3, <1>9, FS_Singleton
<1>11. cache[p][i].Value = w
  BY <1>2, <1>7, <1>10
<1>12. QED BY <1>1, <1>5, <1>11

Exiting(w) == \E i \in 1..Len(stack) : stack[i].pc = "exit" /\ stack[i].w = w
Owed(w) == udata[w].callFinalize /\ udata[w].typeInfo \in Finalizable

\* The callbacks made so far.  Cleanup calls every OnExit that is still owed.
HooksSound ==
  \A w \in Wrappers :
    /\ status[w] = "blank" => calls[w] = NoCalls
    /\ Alive(w) =>
         /\ calls[w].enter = IF udata[w].typeInfo \in Traced THEN 1 ELSE 0
         /\ calls[w].fin = IF status[w] = "dying" /\ Owed(w) THEN 1 ELSE 0
         /\ calls[w].exit = IF env # "running" \/ Exiting(w) THEN calls[w].enter ELSE 0

LEMMA ExitingStays ==
  ASSUME NEW Out, NEW In, Moves(Out, In), "exit" \notin Out, "exit" \notin In, NEW w
  PROVE  Exiting(w)' <=> Exiting(w)
BY DEF Moves, Stays, Exiting

LEMMA SameHooks ==
  ASSUME Structure, HooksSound, SameLives, calls' = calls,
         env' = "running" <=> env = "running",
         \A v \in Wrappers : /\ status'[v] = "dying" <=> status[v] = "dying"
                             /\ status'[v] = "blank" => status[v] = "blank"
                             /\ Exiting(v)' <=> Exiting(v)
  PROVE  HooksSound'
BY DEF SameLives, HooksSound, Owed

\* The fields of a call history after an update of one.
LEMMA CallFields ==
  ASSUME NEW c \in Calls, NEW e
  PROVE  /\ [c EXCEPT !.enter = e].enter = e /\ [c EXCEPT !.enter = e].exit = c.exit
         /\ [c EXCEPT !.enter = e].fin = c.fin
         /\ [c EXCEPT !.exit = e].enter = c.enter /\ [c EXCEPT !.exit = e].exit = e
         /\ [c EXCEPT !.exit = e].fin = c.fin
         /\ [c EXCEPT !.fin = e].enter = c.enter /\ [c EXCEPT !.fin = e].exit = c.exit
         /\ [c EXCEPT !.fin = e].fin = e
BY DEF Calls

LEMMA ClientStepsKeepHooks ==
  ASSUME Structure, HooksSound,
         \/ \E w \in Wrappers : Release(w) \/ LetsGo(w) \/ Keep(w) \/ Root(w)
         \/ \E T \in TypeIds, p \in Ptrs : PushHit(T, p)
         \/ \E T \in TypeIds, p \in Ptrs, own \in BOOLEAN : PushMiss(T, p, own)
         \/ \E S \in SUBSET Collectable : RunGC(S)
         \/ Constructed \/ FreeDone \/ CollectDone
         \/ FinalizeReturns \/ UNCHANGED vars
  PROVE  HooksSound'
<1>1. SameLives
  BY LivesStay
<1>2. calls' = calls /\ (env' = "running" <=> env = "running")
  BY DEF Release, LetsGo, Keep, Root, PushHit, PushMiss, RunGC, Constructed, FreeDone,
         CollectDone, FinalizeReturns, vars
<1>3. ASSUME NEW w \in Wrappers, NEW stk, LastRefGone(w, stk), NEW v \in Wrappers
      PROVE  /\ status'[v] = "dying" <=> status[v] = "dying"
             /\ status'[v] = "blank" => status[v] = "blank"
  BY <1>3, DropFacts
<1>4. \A v \in Wrappers : /\ status'[v] = "dying" <=> status[v] = "dying"
                          /\ status'[v] = "blank" => status[v] = "blank"
  <2>1. CASE \E w \in Wrappers : Release(w) \/ LetsGo(w)
    <3>1. PICK w \in Wrappers : Release(w) \/ LetsGo(w)
      BY <2>1
    <3>2. LastRefGone(w, stack) \/ status' = status
      BY <3>1 DEF Release, LetsGo
    <3>3. QED BY <1>3, <3>2
  <2>2. CASE Constructed
    <3>1. LastRefGone(Top.w, Caller) \/ status' = status
      BY <2>2 DEF Constructed
    <3>2. Top.w \in Wrappers
      BY <2>2, ConstructedMoves, TopHere DEF Constructing
    <3>3. QED BY <1>3, <3>1, <3>2
  <2>3. CASE \/ \E w \in Wrappers : Keep(w) \/ Root(w)
             \/ \E T \in TypeIds, p \in Ptrs : PushHit(T, p)
             \/ \E T \in TypeIds, p \in Ptrs, own \in BOOLEAN : PushMiss(T, p, own)
             \/ \E S \in SUBSET Collectable : RunGC(S)
             \/ FreeDone \/ CollectDone
             \/ FinalizeReturns \/ UNCHANGED vars
    <3>1. status' = status
      BY <2>3 DEF Keep, Root, PushHit, PushMiss, RunGC, FreeDone, CollectDone, FinalizeReturns, vars
    <3>2. QED BY <3>1
  <2>4. QED BY <2>1, <2>2, <2>3
<1>5. ASSUME NEW v \in Wrappers PROVE Exiting(v)' <=> Exiting(v)
  <2>1. CASE \E w \in Wrappers : Release(w) \/ LetsGo(w)
    BY <2>1, DropsMove, ExitingStays
  <2>2. CASE \/ \E w \in Wrappers : Keep(w) \/ Root(w)
             \/ \E T \in TypeIds, p \in Ptrs : PushHit(T, p)
             \/ UNCHANGED vars
    BY <2>2, RefersMove, ExitingStays
  <2>3. CASE \E T \in TypeIds, p \in Ptrs, own \in BOOLEAN : PushMiss(T, p, own)
    BY <2>3, PushMissMoves, ExitingStays
  <2>4. CASE \E S \in SUBSET Collectable : RunGC(S)
    BY <2>4, CollectMoves, ExitingStays
  <2>5. CASE Constructed \/ FreeDone \/ CollectDone
    BY <2>5, ConstructedMoves, LoopsEndMove, ExitingStays
  <2>6. CASE FinalizeReturns
    <3>1. /\ Len(stack') = Len(stack) /\ stack # << >> /\ Top.pc = "finalize"
          /\ stack'[Len(stack)].pc = "remove"
          /\ Moves({"finalize", "remove"}, {"remove", "exit"})
      BY <2>6, FinalizersMove DEF FinalizeReturns, At
    <3>2. /\ Len(stack) \in 1..Len(stack) /\ stack[Len(stack)].pc = "finalize"
          /\ \A i \in 1..Len(stack) : i # Len(stack) => stack'[i] = stack[i]
      BY <3>1, TopHere DEF Moves, Stays
    <3>3. QED BY <3>1, <3>2 DEF Exiting
  <2>7. QED BY <2>1, <2>2, <2>3, <2>4, <2>5, <2>6
<1>6. QED BY <1>1, <1>2, <1>4, <1>5, SameHooks

LEMMA ConstructKeepsHooks ==
  ASSUME Structure, HooksSound, NEW w \in Wrappers, NEW T \in Registered, Construct(w, T)
  PROVE  HooksSound'
<1>1. SameLives /\ udata' = udata
  BY LivesStay
<1>2. /\ calls'[w] = NoCalls /\ status'[w] = "blank" /\ env' = env
      /\ \A v \in Wrappers : v # w => calls'[v] = calls[v] /\ status'[v] = status[v]
  BY Types DEF Construct
<1>3. \A v \in Wrappers : Exiting(v)' <=> Exiting(v)
  BY ConstructMoves, ExitingStays
<1>4. ~Alive(w)'
  BY <1>2 DEF Alive
<1>5. QED BY <1>1, <1>2, <1>3, <1>4 DEF SameLives, HooksSound, Owed

LEMMA BindKeepsHooks ==
  ASSUME Structure, Closing, HooksSound, stack # << >>, Top.pc \in {"create", "init"},
         NEW w \in Wrappers, NEW C, NEW p \in Ptrs,
         NEW own \in BOOLEAN, NEW throws \in BOOLEAN,
         BindAndAddToCache(w, C, p, own, throws), status[w] \in {"free", "blank"}, env' = env,
         calls' = [calls EXCEPT ![w] = [NoCalls EXCEPT !.enter = IF C \in Traced THEN 1 ELSE 0]]
  PROVE  HooksSound'
<1>1. /\ status'[w] = "bound" /\ \A v \in Wrappers : v # w => status'[v] = status[v]
      /\ udata'[w].typeInfo = C /\ \A v \in Wrappers : v # w => udata'[v] = udata[v]
  BY Types DEF BindAndAddToCache
<1>2. /\ calls'[w].enter = IF C \in Traced THEN 1 ELSE 0
      /\ calls'[w].exit = 0 /\ calls'[w].fin = 0
      /\ \A v \in Wrappers : v # w => calls'[v] = calls[v]
  BY Types DEF NoCalls
<1>3. \A v \in Wrappers : Exiting(v)' <=> Exiting(v)
  <2>1. Moves({"create", "init"}, {"enter", "added"})
    BY BindMoves
  <2>2. QED BY <2>1, ExitingStays
<1>4. ~Exiting(w)
  BY Parts DEF FinalizationSound, Exiting, Finalizing
<1>5. env = "running"
  <2>1. Top.pc \notin Freeing \cup Finalizing
    BY DEF Finalizing, Freeing
  <2>2. QED BY <2>1, TopHere DEF Closing
<1>6. \A v \in Wrappers : v # w => (Alive(v)' <=> Alive(v)) /\ (Owed(v)' <=> Owed(v))
  BY <1>1 DEF Alive, Owed
<1>7. ASSUME NEW v \in Wrappers
      PROVE  /\ status'[v] = "blank" => calls'[v] = NoCalls
             /\ Alive(v)' =>
                  /\ calls'[v].enter = IF udata'[v].typeInfo \in Traced THEN 1 ELSE 0
                  /\ calls'[v].fin = IF status'[v] = "dying" /\ Owed(v)' THEN 1 ELSE 0
                  /\ calls'[v].exit = IF env' # "running" \/ Exiting(v)' THEN calls'[v].enter ELSE 0
  <2>1. CASE v = w
    BY <1>1, <1>2, <1>3, <1>4, <1>5, <2>1
  <2>2. CASE v # w
    BY <1>1, <1>2, <1>3, <1>6, <2>2 DEF HooksSound
  <2>3. QED BY <2>1, <2>2
<1>8. QED BY <1>7 DEF HooksSound

LEMMA CreationKeepsHooks ==
  ASSUME Structure, Closing, HooksSound,
         \/ \E w \in Wrappers : PushCreate(w)
         \/ \E p \in Ptrs, throws \in BOOLEAN : InitializeReturns(p, throws)
  PROVE  HooksSound'
<1>1. CASE \E w \in Wrappers : PushCreate(w)
  <2>1. PICK w \in Wrappers : PushCreate(w)
    BY <1>1
  <2>2. /\ stack # << >> /\ Top.pc = "create" /\ status[w] \in {"free", "blank"} /\ env' = env
        /\ BindAndAddToCache(w, ClassOf(Top.T), Top.p, Top.own, FALSE)
        /\ calls' = [calls EXCEPT ![w] =
                       [NoCalls EXCEPT !.enter = IF ClassOf(Top.T) \in Traced THEN 1 ELSE 0]]
    BY <2>1 DEF PushCreate, At, Fresh
  <2>3. Top.T \in TypeIds /\ Top.p \in Ptrs /\ Top.own \in BOOLEAN
    BY <2>2, TopHere, FrameFields
  <2>4. QED BY <2>2, <2>3, BindKeepsHooks
<1>2. CASE \E p \in Ptrs, throws \in BOOLEAN : InitializeReturns(p, throws)
  <2>1. PICK p \in Ptrs, throws \in BOOLEAN : InitializeReturns(p, throws)
    BY <1>2
  <2>2. PICK w, T : w = Top.w /\ T = Top.T
    OBVIOUS
  <2>3. /\ stack # << >> /\ Top.pc = "init" /\ Top.pc \in Constructing /\ env' = env
        /\ BindAndAddToCache(w, T, p, TRUE, throws)
        /\ calls' = [calls EXCEPT ![w].enter = IF T \in Traced THEN 1 ELSE 0]
    BY <2>1, <2>2 DEF InitializeReturns, At, Constructing
  <2>4. w \in Wrappers /\ status[w] = "blank"
    BY <2>2, <2>3, TopHere, Parts DEF ConstructionSound
  <2>5. calls[w] = NoCalls
    BY <2>4 DEF HooksSound
  <2>6. calls' = [calls EXCEPT ![w] = [NoCalls EXCEPT !.enter = IF T \in Traced THEN 1 ELSE 0]]
    BY <2>3, <2>5
  <2>7. Top.pc \in {"create", "init"} /\ TRUE \in BOOLEAN /\ status[w] \in {"free", "blank"}
    BY <2>3, <2>4
  <2>8. stack # << >> /\ BindAndAddToCache(w, T, p, TRUE, throws) /\ env' = env /\ w \in Wrappers
    BY <2>3, <2>4
  <2>9. QED BY <2>6, <2>7, <2>8, BindKeepsHooks
<1>3. QED BY <1>1, <1>2

\* Finalize is called when the finalizer starts, and it starts once.
LEMMA StartFinalizerKeepsHooks ==
  ASSUME Structure, HooksSound, FreeNext \/ \E w \in Wrappers : CollectNext(w)
  PROVE  HooksSound'
<1>1. PICK w \in Wrappers : StartFinalizer(w) /\ status[w] \in {"queued", "bound"}
  <2>1. CASE FreeNext
    <3>1. /\ zeroRefs # << >> /\ zeroRefs \in Seq(Wrappers) /\ StartFinalizer(Head(zeroRefs))
      BY <2>1, Types DEF FreeNext
    <3>2. /\ Head(zeroRefs) \in Wrappers /\ Head(zeroRefs) = zeroRefs[1] /\ 1 \in 1..Len(zeroRefs)
      BY <3>1, EmptySeq
    <3>3. QED BY <3>1, <3>2, Parts DEF QueueSound
  <2>2. CASE \E w \in Wrappers : CollectNext(w)
    BY <2>2, Parts DEF CollectNext, GarbageSound
  <2>3. QED BY <2>1, <2>2
<1>2. SameLives /\ udata' = udata
  BY LivesStay
<1>3. env' = env
  BY DEF FreeNext, CollectNext
<1>4. /\ status'[w] = "dying" /\ \A v \in Wrappers : v # w => status'[v] = status[v]
      /\ calls'[w] = [calls[w] EXCEPT !.fin = IF Owed(w) THEN Once(calls[w].fin) ELSE calls[w].fin]
      /\ \A v \in Wrappers : v # w => calls'[v] = calls[v]
  BY <1>1, Types DEF StartFinalizer, Owed
<1>5. \A v \in Wrappers : Exiting(v)' <=> Exiting(v)
  BY <1>1, StartFinalizerMoves, ExitingStays
<1>6. Alive(w) /\ calls[w] \in Calls /\ calls[w].fin = 0
  BY <1>1, Types DEF HooksSound, Alive
<1>7. /\ calls'[w].enter = calls[w].enter /\ calls'[w].exit = calls[w].exit
      /\ calls'[w].fin = IF Owed(w) THEN 1 ELSE 0
  BY <1>4, <1>6, CallFields DEF Once
<1>8. \A v \in Wrappers : Owed(v)' <=> Owed(v)
  BY <1>2 DEF Owed
<1>9. ASSUME NEW v \in Wrappers
      PROVE  /\ status'[v] = "blank" => calls'[v] = NoCalls
             /\ Alive(v)' =>
                  /\ calls'[v].enter = IF udata'[v].typeInfo \in Traced THEN 1 ELSE 0
                  /\ calls'[v].fin = IF status'[v] = "dying" /\ Owed(v)' THEN 1 ELSE 0
                  /\ calls'[v].exit = IF env' # "running" \/ Exiting(v)' THEN calls'[v].enter ELSE 0
  <2>1. CASE v = w
    BY <1>2, <1>3, <1>4, <1>5, <1>6, <1>7, <1>8, <2>1 DEF HooksSound
  <2>2. CASE v # w
    BY <1>2, <1>3, <1>4, <1>5, <1>8, <2>2 DEF HooksSound, SameLives
  <2>3. QED BY <2>1, <2>2
<1>10. QED BY <1>9 DEF HooksSound

\* RemoveFromCache calls OnExit, and does not run after Cleanup did.
LEMMA RemoveFromCacheKeepsHooks ==
  ASSUME "linked" \in Contract, Structure, Closing, HooksSound, RemoveFromCache
  PROVE  HooksSound'
<1>1. PICK w : w = Top.w
  OBVIOUS
<1>2. /\ stack # << >> /\ Top.pc = "remove" /\ Top.pc \in Finalizing
      /\ cache[udata[w].ptr] # << >> /\ udata[w].typeInfo \in Traced
      /\ calls' = [calls EXCEPT ![w].exit = Once(@)]
      /\ UNCHANGED <<status, udata, env>>
  BY <1>1 DEF RemoveFromCache, At, Finalizing
<1>3. /\ w \in Wrappers /\ status[w] = "dying" /\ Alive(w) /\ calls[w] \in Calls
      /\ Len(stack) \in 1..Len(stack) /\ stack[Len(stack)] = Top
  BY <1>1, <1>2, TopHere, Parts, Types DEF FinalizationSound, Alive
<1>4. ~Exiting(w)
  BY <1>1, <1>2, <1>3, Parts DEF Exiting, FinalizationSound, Finalizing
<1>5. env = "running"
  <2>1. udata[w].ptr \in Ptrs
    BY <1>3, Parts DEF BoundSound, ObjectUserData
  <2>2. QED BY <1>2, <2>1, Types DEF Closing
<1>6. calls[w].exit = 0 /\ calls[w].enter = 1
  BY <1>2, <1>3, <1>4, <1>5 DEF HooksSound
<1>7. calls'[w] = [calls[w] EXCEPT !.exit = 1] /\ \A v \in Wrappers : v # w => calls'[v] = calls[v]
  BY <1>2, <1>3, <1>6, Types DEF Once
<1>8. calls'[w].enter = 1 /\ calls'[w].exit = 1 /\ calls'[w].fin = calls[w].fin
  BY <1>3, <1>6, <1>7, CallFields
<1>9. /\ Len(stack') = Len(stack) /\ stack'[Len(stack)].pc = "exit" /\ stack'[Len(stack)].w = w
      /\ \A i \in 1..Len(stack) : i # Len(stack) => stack'[i] = stack[i]
  BY <1>1, FinalizersMove DEF Moves, Stays
<1>10. Exiting(w)'
  BY <1>3, <1>9 DEF Exiting
<1>11. \A v \in Wrappers : v # w => (Exiting(v)' <=> Exiting(v))
  BY <1>1, <1>2, <1>3, <1>9 DEF Exiting
<1>12. \A v \in Wrappers : (Alive(v)' <=> Alive(v)) /\ (Owed(v)' <=> Owed(v))
  BY <1>2 DEF Alive, Owed
<1>13. ASSUME NEW v \in Wrappers
       PROVE  /\ status'[v] = "blank" => calls'[v] = NoCalls
              /\ Alive(v)' =>
                   /\ calls'[v].enter = IF udata'[v].typeInfo \in Traced THEN 1 ELSE 0
                   /\ calls'[v].fin = IF status'[v] = "dying" /\ Owed(v)' THEN 1 ELSE 0
                   /\ calls'[v].exit = IF env' # "running" \/ Exiting(v)' THEN calls'[v].enter ELSE 0
  <2>1. CASE v = w
    BY <1>2, <1>3, <1>6, <1>8, <1>10, <1>12, <2>1 DEF HooksSound
  <2>2. CASE v # w
    BY <1>2, <1>7, <1>11, <1>12, <2>2 DEF HooksSound
  <2>3. QED BY <2>1, <2>2
<1>14. QED BY <1>13 DEF HooksSound

LEMMA FreedKeepsHooks ==
  ASSUME Structure, HooksSound, ObjectFreed
  PROVE  HooksSound'
<1>1. PICK w : w = Top.w
  OBVIOUS
<1>2. /\ stack # << >> /\ w \in Wrappers /\ status'[w] = "free" /\ UNCHANGED <<env, calls>>
      /\ \A v \in Wrappers : v # w => status'[v] = status[v] /\ udata'[v] = udata[v]
  BY <1>1, FreedFacts
<1>3. /\ Popped /\ Len(stack) \in 1..Len(stack) /\ stack[Len(stack)].w = w
  BY <1>1, <1>2, FreedMoves, TopHere
<1>4. \A v \in Wrappers : v # w => (Exiting(v)' <=> Exiting(v))
  BY <1>3 DEF Popped, Exiting
<1>5. ~Alive(w)' /\ \A v \in Wrappers : v # w => (Alive(v)' <=> Alive(v)) /\ (Owed(v)' <=> Owed(v))
  BY <1>2 DEF Alive, Owed
<1>6. ASSUME NEW v \in Wrappers
      PROVE  /\ status'[v] = "blank" => calls'[v] = NoCalls
             /\ Alive(v)' =>
                  /\ calls'[v].enter = IF udata'[v].typeInfo \in Traced THEN 1 ELSE 0
                  /\ calls'[v].fin = IF status'[v] = "dying" /\ Owed(v)' THEN 1 ELSE 0
                  /\ calls'[v].exit = IF env' # "running" \/ Exiting(v)' THEN calls'[v].enter ELSE 0
  <2>1. CASE v = w
    BY <1>2, <1>5, <2>1
  <2>2. CASE v # w
    BY <1>2, <1>4, <1>5, <2>2 DEF HooksSound
  <2>3. QED BY <2>1, <2>2
<1>7. QED BY <1>6 DEF HooksSound

\* Cleanup finds the node of every wrapper that is owed its OnExit, and no other.
LEMMA CleanupKeepsHooks ==
  ASSUME Structure, CacheSound, Balanced, HooksSound, Cleanup
  PROVE  HooksSound'
<1>1. /\ env = "running" /\ stack = << >> /\ calls' = CleanupCalls /\ env' = "cleaning"
      /\ UNCHANGED <<status, udata>>
  BY DEF Cleanup
<1>2. \A v \in Wrappers : ~Exiting(v)
  BY <1>1 DEF Exiting
<1>3. ASSUME NEW v \in Wrappers, Alive(v)
      PROVE  (\E p \in Ptrs : \E i \in 1..Len(cache[p]) :
                cache[p][i].Value = v /\ cache[p][i].TypeId \in Traced)
             <=> udata[v].typeInfo \in Traced
  <2>1. ASSUME NEW p \in Ptrs, NEW i \in 1..Len(cache[p]),
               cache[p][i].Value = v, cache[p][i].TypeId \in Traced
        PROVE  udata[v].typeInfo \in Traced
    <3>1. NodeSound(p, i) /\ cache[p][i].TypeId \in Registered
      BY <2>1, NodesSound, MapperAssumption
    <3>2. QED BY <2>1, <3>1 DEF NodeSound
  <2>2. ASSUME udata[v].typeInfo \in Traced
        PROVE  \E p \in Ptrs : \E i \in 1..Len(cache[p]) :
                 cache[p][i].Value = v /\ cache[p][i].TypeId \in Traced
    <3>1. udata[v].typeInfo \in Registered /\ udata[v].ptr \in Ptrs
      BY <1>3, <2>2, Parts, MapperAssumption DEF BoundSound, ObjectUserData
    <3>2. QED BY <1>1, <1>3, <2>2, <3>1, OwnNode
  <2>3. QED BY <2>1, <2>2
<1>4. ASSUME NEW v \in Wrappers, Alive(v)
      PROVE  /\ calls'[v].enter = calls[v].enter /\ calls'[v].fin = calls[v].fin
             /\ calls'[v].exit = calls[v].enter
  <2>1. calls[v] \in Calls /\ calls[v].exit = 0
        /\ calls[v].enter = IF udata[v].typeInfo \in Traced THEN 1 ELSE 0
    BY <1>1, <1>2, <1>4, Types DEF HooksSound
  <2>2. calls'[v] = IF udata[v].typeInfo \in Traced THEN [calls[v] EXCEPT !.exit = 1] ELSE calls[v]
    BY <1>1, <1>3, <1>4, <2>1 DEF CleanupCalls, Once
  <2>3. QED BY <2>1, <2>2, CallFields
<1>5. \A v \in Wrappers : status[v] = "blank" => FALSE
  BY <1>1, Parts DEF ConstructionSound
<1>6. \A v \in Wrappers : (Alive(v)' <=> Alive(v)) /\ (Owed(v)' <=> Owed(v))
  BY <1>1 DEF Alive, Owed
<1>7. QED BY <1>1, <1>4, <1>5, <1>6 DEF HooksSound

LEMMA DestroyKeepsHooks ==
  ASSUME Structure, HooksSound, Destroy
  PROVE  HooksSound'
<1>1. /\ env = "cleaning" /\ env' = "closing" /\ UNCHANGED <<status, udata, calls>>
  BY DEF Destroy
<1>2. \A v \in Wrappers : (Alive(v)' <=> Alive(v)) /\ (Owed(v)' <=> Owed(v))
  BY <1>1 DEF Alive, Owed
<1>3. QED BY <1>1, <1>2 DEF HooksSound

LEMMA NextHooks ==
  ASSUME "linked" \in Contract, Structure, CacheSound, Balanced, Closing, HooksSound, [Next]_vars
  PROVE  HooksSound'
<1>1. ASSUME \/ \E w \in Wrappers : Release(w) \/ LetsGo(w) \/ Keep(w) \/ Root(w)
             \/ \E T \in TypeIds, p \in Ptrs : PushHit(T, p)
             \/ \E T \in TypeIds, p \in Ptrs, own \in BOOLEAN : PushMiss(T, p, own)
             \/ \E S \in SUBSET Collectable : RunGC(S)
             \/ Constructed \/ FreeDone \/ CollectDone
             \/ FinalizeReturns \/ UNCHANGED vars
      PROVE  HooksSound'
  BY <1>1, ClientStepsKeepHooks
<1>2. ASSUME NEW w \in Wrappers, NEW T \in Registered, Construct(w, T) PROVE HooksSound'
  BY <1>2, ConstructKeepsHooks
<1>3. ASSUME \/ \E w \in Wrappers : PushCreate(w)
             \/ \E p \in Ptrs, throws \in BOOLEAN : InitializeReturns(p, throws)
      PROVE  HooksSound'
  BY <1>3, CreationKeepsHooks
<1>4. ASSUME FreeNext \/ \E w \in Wrappers : CollectNext(w) PROVE HooksSound'
  BY <1>4, StartFinalizerKeepsHooks
<1>5. ASSUME RemoveFromCache \/ ObjectFreed \/ Cleanup \/ Destroy PROVE HooksSound'
  BY <1>5, RemoveFromCacheKeepsHooks, FreedKeepsHooks, CleanupKeepsHooks, DestroyKeepsHooks
<1>6. QED BY <1>1, <1>2, <1>3, <1>4, <1>5 DEF Next, Client, Engine, Destroyed, Unroot, ReleaseConstructor

\* As far as every client goes that keeps fresh and quiet.
OwnInv == LifeInv /\ Balanced /\ Closing

LEMMA InitOwn == Init => OwnInv
<1>1. Init => Closing
  BY DEF Init, Closing
<1>2. QED BY <1>1, InitLife, InitBalanced DEF OwnInv

LEMMA NextOwn ==
  ASSUME "fresh" \in Contract, "quiet" \in Contract
  PROVE  OwnInv /\ [Next]_vars => OwnInv'
<1> SUFFICES ASSUME OwnInv, [Next]_vars PROVE OwnInv'
  OBVIOUS
<1>1. LifeInv /\ Structure /\ Balanced /\ Closing
  BY DEF OwnInv, LifeInv, CacheInv
<1>2. QED BY <1>1, NextLife, NextBalanced, NextClosing DEF OwnInv

HookInv == OwnInv /\ HooksSound

LEMMA InitHooks == Init => HookInv
<1> SUFFICES ASSUME Init PROVE HookInv
  OBVIOUS
<1>1. HooksSound
  BY DEF Init, HooksSound, Alive
<1>2. QED BY <1>1, InitOwn DEF HookInv

LEMMA NextHookInv ==
  ASSUME "fresh" \in Contract, "quiet" \in Contract, "linked" \in Contract
  PROVE  HookInv /\ [Next]_vars => HookInv'
<1> SUFFICES ASSUME HookInv, [Next]_vars PROVE HookInv'
  OBVIOUS
<1>1. OwnInv /\ Structure /\ CacheSound /\ Balanced /\ Closing /\ HooksSound
  BY DEF HookInv, OwnInv, LifeInv, CacheInv
<1>2. QED BY <1>1, NextOwn, NextHooks DEF HookInv

\* Only the end of its finalizer frees a wrapper.
LEMMA FreedByFinalizer ==
  ASSUME Structure, [Next]_vars, NEW w \in Wrappers, status[w] = "dying", status'[w] = "free"
  PROVE  ObjectFreed /\ w = Top.w
<1>1. Alive(w) /\ ~Alive(w)'
  BY DEF Alive
<1>2. ~SameLives
  BY <1>1 DEF SameLives
<1>3. /\ \A v \in Wrappers : ~PushCreate(v)
      /\ \A p \in Ptrs, throws \in BOOLEAN : ~InitializeReturns(p, throws)
      /\ ~Destroy
  BY Types DEF PushCreate, InitializeReturns, BindAndAddToCache, Destroy
<1>4. ObjectFreed
  BY <1>2, <1>3, LivesStay DEF Next, Client, Engine, Destroyed, Unroot, ReleaseConstructor
<1>5. w = Top.w
  BY <1>4, FreedFacts
<1>6. QED BY <1>4, <1>5

\* Finalize is called once for a wrapper that owns its object and never for
\* another, and OnExit as often as OnEnter, by RemoveFromCache or by Cleanup but
\* not by both: when a finalizer ends without OnExit, none was owed, because a
\* wrapper's address is in the cache as long as the wrapper lives, and between
\* the last OnExit of Cleanup and the clearing of the cache no finalizer runs.
THEOREM HooksAlwaysPaired ==
  ASSUME "fresh" \in Contract, "quiet" \in Contract, "linked" \in Contract
  PROVE  Spec => HooksPaired
<1> DEFINE Paired == \A w \in Wrappers : status[w] = "dying" /\ status'[w] = "free" =>
              /\ calls[w].fin = IF udata[w].callFinalize /\ udata[w].typeInfo \in Finalizable
                                THEN 1 ELSE 0
              /\ calls[w].exit = calls[w].enter
<1>1. HookInv /\ [Next]_vars => Paired
  <2> SUFFICES ASSUME HookInv, [Next]_vars,
                      NEW w \in Wrappers, status[w] = "dying", status'[w] = "free"
               PROVE  /\ calls[w].fin = IF udata[w].callFinalize /\ udata[w].typeInfo \in Finalizable
                                        THEN 1 ELSE 0
                      /\ calls[w].exit = calls[w].enter
    OBVIOUS
  <2>1. Structure /\ CacheSound /\ Balanced /\ Closing /\ HooksSound
    BY DEF HookInv, OwnInv, LifeInv, CacheInv
  <2>2. ObjectFreed /\ w = Top.w
    BY <2>1, FreedByFinalizer
  <2>3. /\ calls[w].enter = IF udata[w].typeInfo \in Traced THEN 1 ELSE 0
        /\ calls[w].fin = IF Owed(w) THEN 1 ELSE 0
        /\ calls[w].exit = IF env # "running" \/ Exiting(w) THEN calls[w].enter ELSE 0
    BY <2>1 DEF HooksSound, Alive
  <2>4. env # "running" \/ Exiting(w) \/ udata[w].typeInfo \notin Traced
    <3>1. CASE At({"exit"})
      <4>1. stack # << >> /\ Top.pc = "exit"
        BY <3>1 DEF At
      <4>2. Len(stack) \in 1..Len(stack) /\ Top = stack[Len(stack)]
        BY <2>1, <4>1, TopHere
      <4>3. QED BY <2>2, <4>1, <4>2 DEF Exiting
    <3>2. CASE cache[udata[w].ptr] = << >> /\ env = "running" /\ udata[w].typeInfo \in Traced
      <4>1. udata[w].typeInfo \in Registered /\ Alive(w)
        BY <3>2, MapperAssumption DEF Alive
      <4>2. Len(cache[udata[w].ptr]) # 0
        BY <2>1, <3>2, <4>1, OwnNode
      <4>3. QED BY <3>2, <4>2
    <3>3. QED BY <2>2, <3>1, <3>2 DEF ObjectFreed, FinalizerEnds
  <2>5. QED BY <2>3, <2>4 DEF Owed
<1>2. HooksPaired <=> [][Paired]_vars
  BY DEF HooksPaired
<1> HIDE DEF Paired
<1>3. QED BY <1>1, <1>2, InitHooks, NextHookInv, PTL DEF Spec

-----------------------------------------------------------------------------
(* What OnEnter returned, for a client that keeps fresh, quiet and single. *)

\* The nodes at an address are of one class, that of the wrapper that
\* PushNativeObject is about to create there included.
OneClass ==
  /\ \A p \in Ptrs : \A i, j \in 1..Len(cache[p]) : cache[p][i].TypeId = cache[p][j].TypeId
  /\ \A k \in 1..Len(stack) : stack[k].pc = "create" =>
       \A i \in 1..Len(cache[stack[k].p]) : cache[stack[k].p][i].TypeId = ClassOf(stack[k].T)

Entering(w) == \E k \in 1..Len(stack) : stack[k].pc = "enter" /\ stack[k].w = w

\* BindAndAddToCache writes to the node in the map entry, which is the one it
\* added, and from then on the node has its user data.
DataSound ==
  /\ \A k \in 1..Len(stack) : stack[k].pc = "enter" =>
       stack[k].cell = "entry" /\ udata[stack[k].w].typeInfo \in Traced
  /\ \A k \in 1..Len(stack) : stack[k].pc = "exit" => stack[k].ud = stack[k].w
  /\ \A p \in Ptrs : \A i \in 1..Len(cache[p]) :
       cache[p][i].TypeId \in Traced /\ ~Entering(cache[p][i].Value) =>
         cache[p][i].UserData = cache[p][i].Value

\* A node of a registered class is the only one at its address.
LEMMA Alone ==
  ASSUME Structure, CacheSound, OneClass, NEW p \in Ptrs, NEW i \in 1..Len(cache[p]),
         cache[p][i].TypeId \in Registered
  PROVE  i = 1 /\ Len(cache[p]) = 1
<1>1. cache[p] \in Seq(Node) /\ Len(cache[p]) \in Nat
  BY Types
<1>2. \A j \in 1..Len(cache[p]) : cache[p][j].TypeId = cache[p][i].TypeId
  BY DEF OneClass
<1>3. NodeSound(p, i)
  BY NodesSound
<1>4. \A j \in 1..Len(cache[p]) : j = i
  BY <1>2, <1>3 DEF NodeSound
<1>5. 1 \in 1..Len(cache[p]) /\ Len(cache[p]) \in 1..Len(cache[p])
  BY <1>1
<1>6. QED BY <1>4, <1>5

LEMMA OneClassStays ==
  ASSUME OneClass, cache' = cache,
         \A k \in 1..Len(stack') : stack'[k].pc = "create" =>
           k \in 1..Len(stack) /\ stack'[k] = stack[k]
  PROVE  OneClass'
<1>1. \A p \in Ptrs : \A i, j \in 1..Len(cache'[p]) : cache'[p][i].TypeId = cache'[p][j].TypeId
  BY DEF OneClass
<1>2. ASSUME NEW k \in 1..Len(stack'), stack'[k].pc = "create"
      PROVE  \A i \in 1..Len(cache'[stack'[k].p]) : cache'[stack'[k].p][i].TypeId = ClassOf(stack'[k].T)
  <2>1. k \in 1..Len(stack) /\ stack'[k] = stack[k] /\ stack[k].pc = "create"
    BY <1>2
  <2>2. \A i \in 1..Len(cache[stack[k].p]) : cache[stack[k].p][i].TypeId = ClassOf(stack[k].T)
    BY <2>1 DEF OneClass
  <2>3. QED BY <2>1, <2>2
<1>3. QED BY <1>1, <1>2 DEF OneClass

\* Steps that touch neither the cache nor an activation in OnEnter or OnExit.
LEMMA DataStays ==
  ASSUME Structure, OneClass, DataSound, cache' = cache, udata' = udata,
         NEW Out, NEW In, Moves(Out, In),
         "enter" \notin Out, "enter" \notin In, "exit" \notin In, "create" \notin In
  PROVE  OneClass' /\ DataSound'
<1>1. \A k \in 1..Len(stack') : stack'[k].pc \in {"enter", "exit", "create"} =>
        k \in 1..Len(stack) /\ stack'[k] = stack[k]
  BY DEF Moves, Stays
<1>2. \A w : Entering(w) => Entering(w)'
  BY DEF Moves, Stays, Entering
<1>3. OneClass'
  BY <1>1, OneClassStays
<1>4. DataSound'
  BY <1>1, <1>2 DEF DataSound
<1>5. QED BY <1>3, <1>4

LEMMA CalmStepsKeepData ==
  ASSUME Structure, OneClass, DataSound,
         \/ \E w \in Wrappers : Release(w) \/ LetsGo(w) \/ Keep(w) \/ Root(w) \/ CollectNext(w)
         \/ \E T \in TypeIds, p \in Ptrs : PushHit(T, p)
         \/ \E w \in Wrappers, T \in Registered : Construct(w, T)
         \/ \E S \in SUBSET Collectable : RunGC(S)
         \/ FreeNext \/ FreeDone \/ CollectDone \/ FinalizeReturns \/ Cleanup \/ UNCHANGED vars
  PROVE  OneClass' /\ DataSound'
<1>1. cache' = cache /\ udata' = udata
  BY DEF Release, LetsGo, Keep, Root, CollectNext, PushHit, Construct, RunGC, FreeNext, FreeDone,
         CollectDone, FinalizeReturns, Cleanup, vars
<1>2. ASSUME \E w \in Wrappers : Release(w) \/ LetsGo(w) PROVE Moves({}, {"free"})
  BY <1>2, DropsMove
<1>3. ASSUME \/ \E w \in Wrappers : Keep(w) \/ Root(w)
             \/ \E T \in TypeIds, p \in Ptrs : PushHit(T, p)
             \/ Cleanup \/ UNCHANGED vars
      PROVE  Moves({}, {})
  BY <1>3, RefersMove
<1>4. ASSUME \E w \in Wrappers, T \in Registered : Construct(w, T) PROVE Moves({}, {"init"})
  BY <1>4, ConstructMoves
<1>5. ASSUME \E S \in SUBSET Collectable : RunGC(S) PROVE Moves({}, {"gc"})
  BY <1>5, CollectMoves
<1>6. ASSUME FreeNext \/ \E w \in Wrappers : CollectNext(w) PROVE Moves({}, {"finalize", "remove"})
  <2>1. CASE \E w \in Wrappers : CollectNext(w)
    BY <2>1, StartFinalizerMoves DEF CollectNext
  <2>2. CASE FreeNext
    <3>1. zeroRefs \in Seq(Wrappers) /\ zeroRefs # << >> /\ StartFinalizer(Head(zeroRefs))
      BY <2>2, Types DEF FreeNext
    <3>2. Head(zeroRefs) \in Wrappers
      BY <3>1
    <3>3. QED BY <3>1, <3>2, StartFinalizerMoves
  <2>3. QED BY <1>6, <2>1, <2>2
<1>7. ASSUME FreeDone \/ CollectDone PROVE Moves({"free", "gc"}, {})
  BY <1>7, LoopsEndMove
<1>8. ASSUME FinalizeReturns PROVE Moves({"finalize"}, {"remove"})
  <2>1. /\ Moves({"finalize", "remove"}, {"remove", "exit"}) /\ stack # << >>
        /\ Len(stack') = Len(stack) /\ stack'[Len(stack)].pc = "remove" /\ Top.pc = "finalize"
    BY <1>8, FinalizersMove DEF FinalizeReturns, At
  <2>2. stack[Len(stack)].pc = "finalize"
    BY <2>1, TopHere
  <2>3. QED BY <2>1, <2>2 DEF Moves, Stays
<1>9. \E Out, In : /\ Moves(Out, In) /\ "enter" \notin Out
                   /\ "enter" \notin In /\ "exit" \notin In /\ "create" \notin In
  <2>1. ASSUME NEW Out, NEW In, Moves(Out, In), Out \subseteq {"free", "gc", "finalize"},
               In \subseteq {"free", "init", "gc", "finalize", "remove"}
        PROVE  \E O, I : /\ Moves(O, I) /\ "enter" \notin O
                         /\ "enter" \notin I /\ "exit" \notin I /\ "create" \notin I
    BY <2>1
  <2>2. QED BY <1>2, <1>3, <1>4, <1>5, <1>6, <1>7, <1>8, <2>1
<1>10. QED BY <1>1, <1>9, DataStays

LEMMA PushMissKeepsData ==
  ASSUME "single" \in Contract, Structure, OneClass, DataSound,
         NEW T \in TypeIds, NEW p \in Ptrs, NEW own \in BOOLEAN, PushMiss(T, p, own)
  PROVE  OneClass' /\ DataSound'
<1> DEFINE f == [pc |-> "create", T |-> T, p |-> p, own |-> own]
<1>1. /\ f \in Frame /\ f.pc = "create" /\ f.T = T /\ f.p = p
      /\ cache' = cache /\ udata' = udata /\ stack' = Append(stack, f)
      /\ \A i \in 1..Len(cache[p]) : cache[p][i].TypeId = ClassOf(T)
  BY FrameKinds DEF PushMiss, MayBind
<1>2. Pushed(f)
  BY <1>1, PushedByAppend, Types
<1> HIDE DEF f
<1>3. OneClass'
  BY <1>1, <1>2 DEF OneClass, Pushed
<1>4. \A w : Entering(w) => Entering(w)'
  BY <1>2 DEF Entering, Pushed
<1>5. DataSound'
  BY <1>1, <1>2, <1>4 DEF DataSound, Pushed
<1>6. QED BY <1>3, <1>5

\* What OnEnter returned for w ends up in its node.
LEMMA StoreInEntry ==
  ASSUME Structure, NEW w \in Wrappers, Alive(w), NEW q \in Ptrs, q = udata[w].ptr,
         Len(cache[q]) = 1
  PROVE  /\ StoreUserData(w, "entry")[q][1].UserData = w
         /\ \A p \in Ptrs : p # q => StoreUserData(w, "entry")[p] = cache[p]
<1> DEFINE s == cache[q]
           t == [i \in 1..Len(s) |->
                   IF IF "entry" = "entry" THEN i = 1 ELSE i > 1 /\ s[i].Value = w
                   THEN [TypeId |-> s[i].TypeId, Value |-> s[i].Value, UserData |-> w] ELSE s[i]]
<1>1. StoreUserData(w, "entry") = [cache EXCEPT ![q] = t]
  BY DEF StoreUserData
<1>2. t[1].UserData = w
  OBVIOUS
<1> HIDE DEF t
<1>3. QED BY <1>1, <1>2, Types

LEMMA ConstructedKeepsData ==
  ASSUME Structure, CacheSound, Balanced, Closing, OneClass, DataSound, Constructed
  PROVE  OneClass' /\ DataSound'
<1>1. PICK w, cell : w = Top.w /\ cell = Top.cell
  OBVIOUS
<1>2. /\ stack # << >> /\ Top.pc \in {"enter", "added"} /\ udata' = udata
      /\ Moves({"enter", "added"}, {"free"})
  BY ConstructedMoves DEF Constructed
<1>3. /\ Len(stack) \in 1..Len(stack) /\ Top = stack[Len(stack)]
      /\ w \in Wrappers /\ status[w] = "bound"
  BY <1>1, <1>2, TopHere, Parts DEF Constructing, ConstructionSound
<1>4. Alive(w)
  BY <1>3 DEF Alive
<1>5. \A k \in 1..Len(stack') : stack'[k].pc \in {"enter", "exit", "create"} =>
        k \in 1..Len(stack) /\ stack'[k] = stack[k]
  BY <1>2 DEF Moves, Stays
<1>6. CASE Top.pc = "added"
  <2>1. cache' = cache
    BY <1>6 DEF Constructed
  <2>2. \A v : Entering(v) => Entering(v)'
    BY <1>2, <1>3, <1>6 DEF Moves, Stays, Entering
  <2>3. OneClass'
    BY <1>5, <2>1, OneClassStays
  <2>4. DataSound'
    BY <1>2, <1>5, <2>1, <2>2 DEF DataSound
  <2>5. QED BY <2>3, <2>4
<1>7. CASE Top.pc = "enter"
  <2>1. cell = "entry" /\ udata[w].typeInfo \in Traced /\ env = "running"
    BY <1>1, <1>3, <1>7 DEF DataSound, Closing, Finalizing, Freeing
  <2>2. cache' = StoreUserData(w, "entry")
    BY <1>1, <1>7, <2>1 DEF Constructed
  <2>3. PICK q \in Ptrs : q = udata[w].ptr
    BY <1>3, <1>4, Parts DEF BoundSound, ObjectUserData
  <2>4. Len(cache[q]) = 1 /\ cache[q][1].Value = w
    <3>1. udata[w].typeInfo \in Registered
      BY <2>1, MapperAssumption
    <3>2. PICK i \in 1..Len(cache[q]) :
            cache[q][i].TypeId = udata[w].typeInfo /\ cache[q][i].Value = w
      BY <1>3, <1>4, <2>1, <2>3, <3>1, OwnNode
    <3>3. QED BY <3>1, <3>2, Alone
  <2>5. /\ cache'[q][1].UserData = w
        /\ \A p \in Ptrs : p # q => cache'[p] = cache[p]
    BY <1>3, <1>4, <2>2, <2>3, <2>4, StoreInEntry
  <2>6. \A p \in Ptrs : /\ Len(cache'[p]) = Len(cache[p])
                        /\ \A i \in 1..Len(cache[p]) :
                             /\ cache'[p][i].TypeId = cache[p][i].TypeId
                             /\ cache'[p][i].Value = cache[p][i].Value
    BY <1>3, <1>4, <2>2, StoreUserDataFacts
  <2>7. \A v : v # w /\ Entering(v) => Entering(v)'
    BY <1>1, <1>2, <1>3 DEF Moves, Stays, Entering
  <2>8. OneClass'
    <3>1. \A k \in 1..Len(stack) : stack[k].pc = "create" => stack[k].p \in Ptrs
      BY Types, FrameFields
    <3>2. \A p \in Ptrs : \A i, j \in 1..Len(cache'[p]) : cache'[p][i].TypeId = cache'[p][j].TypeId
      BY <2>6 DEF OneClass
    <3>3. ASSUME NEW k \in 1..Len(stack'), stack'[k].pc = "create",
                 NEW i \in 1..Len(cache'[stack'[k].p])
          PROVE  cache'[stack'[k].p][i].TypeId = ClassOf(stack'[k].T)
      <4>1. k \in 1..Len(stack) /\ stack'[k] = stack[k] /\ stack[k].p \in Ptrs
        BY <1>5, <3>1, <3>3
      <4>2. /\ i \in 1..Len(cache[stack[k].p])
            /\ cache'[stack[k].p][i].TypeId = cache[stack[k].p][i].TypeId
        BY <2>6, <3>3, <4>1
      <4>3. cache[stack[k].p][i].TypeId = ClassOf(stack[k].T)
        BY <3>3, <4>1, <4>2 DEF OneClass
      <4>4. QED BY <4>1, <4>2, <4>3
    <3>4. QED BY <3>2, <3>3 DEF OneClass
  <2>9. ASSUME NEW p \in Ptrs, NEW i \in 1..Len(cache'[p]),
               (cache[p][i].TypeId \in Traced /\ ~Entering(cache[p][i].Value))'
        PROVE  (cache[p][i].UserData = cache[p][i].Value)'
    <3>1. i \in 1..Len(cache[p]) /\ cache[p][i].TypeId \in Registered /\ cache[p][i].TypeId \in Traced
          /\ cache'[p][i].Value = cache[p][i].Value
      BY <2>6, <2>9, MapperAssumption
    <3>2. i = 1
      BY <3>1, Alone
    <3>3. CASE p = q
      BY <2>4, <2>5, <3>1, <3>2, <3>3
    <3>4. CASE p # q
      <4>1. NodeSound(p, i)
        BY <3>1, NodesSound
      <4>2. cache[p][i].Value # w
        BY <2>3, <3>1, <3>4, <4>1 DEF NodeSound
      <4>3. ~Entering(cache[p][i].Value)
        BY <2>7, <2>9, <3>1, <4>2
      <4>4. cache'[p] = cache[p]
        BY <2>5, <3>4
      <4>5. QED BY <3>1, <4>3, <4>4 DEF DataSound
    <3>5. QED BY <3>3, <3>4
  <2>10. DataSound'
    BY <1>2, <1>5, <2>9 DEF DataSound
  <2>11. QED BY <2>8, <2>10
<1>8. QED BY <1>2, <1>6, <1>7

\* RemoveFromCache reads the first node at the address: the wrapper's own.
LEMMA RemoveFromCacheKeepsData ==
  ASSUME Structure, CacheSound, Balanced, Closing, OneClass, DataSound, RemoveFromCache
  PROVE  OneClass' /\ DataSound'
<1>1. PICK w : w = Top.w
  OBVIOUS
<1>2. /\ stack # << >> /\ Top.pc = "remove" /\ Top.pc \in Finalizing
      /\ cache[udata[w].ptr] # << >> /\ udata[w].typeInfo \in Traced
      /\ cache' = cache /\ udata' = udata
  BY <1>1 DEF RemoveFromCache, At, Finalizing
<1>3. /\ Moves({"finalize", "remove"}, {"remove", "exit"})
      /\ Len(stack') = Len(stack) /\ stack'[Len(stack)].w = w
      /\ stack'[Len(stack)].pc = "exit"
      /\ stack'[Len(stack)].ud = cache[udata[w].ptr][1].UserData
  BY <1>1, FinalizersMove
<1>4. w \in Wrappers /\ status[w] = "dying" /\ Len(stack) \in 1..Len(stack)
  BY <1>1, <1>2, TopHere, Parts DEF FinalizationSound
<1>5. PICK q \in Ptrs : q = udata[w].ptr
  BY <1>4, Parts DEF BoundSound, Alive, ObjectUserData
<1>6. env \in {"running", "cleaning"}
  BY <1>2, <1>5, Types DEF Closing
<1>7. udata[w].typeInfo \in Registered /\ Alive(w)
  BY <1>2, <1>4, MapperAssumption DEF Alive
<1>8. PICK i \in 1..Len(cache[q]) :
        cache[q][i].TypeId = udata[w].typeInfo /\ cache[q][i].Value = w
  BY <1>4, <1>5, <1>6, <1>7, OwnNode
<1>9. i = 1
  BY <1>7, <1>8, Alone
<1>10. ~Entering(w)
  BY <1>4, Parts DEF ConstructionSound, Constructing, Entering
<1>11. cache[q][1].UserData = w
  BY <1>2, <1>8, <1>9, <1>10 DEF DataSound
<1>12. \A k \in 1..Len(stack') :
         \/ k \in 1..Len(stack) /\ stack'[k] = stack[k]
         \/ stack'[k].pc = "exit" /\ stack'[k].ud = w /\ stack'[k].w = w
  BY <1>3, <1>5, <1>11 DEF Moves, Stays
<1>13. \A v : Entering(v) => Entering(v)'
  BY <1>3 DEF Moves, Stays, Entering
<1>14. OneClass'
  <2>1. \A k \in 1..Len(stack') : stack'[k].pc = "create" =>
          k \in 1..Len(stack) /\ stack'[k] = stack[k]
    BY <1>12
  <2>2. QED BY <1>2, <2>1, OneClassStays
<1>15. DataSound'
  BY <1>2, <1>12, <1>13 DEF DataSound
<1>16. QED BY <1>14, <1>15

LEMMA FreedKeepsData ==
  ASSUME Structure, OneClass, DataSound, ObjectFreed
  PROVE  OneClass' /\ DataSound'
<1>1. PICK w, p, C : w = Top.w /\ p = udata[Top.w].ptr /\ C = udata[Top.w].typeInfo
  OBVIOUS
<1>2. /\ w \in Wrappers /\ status[w] = "dying" /\ p \in Ptrs
      /\ \A v \in Wrappers : v # w => udata'[v] = udata[v]
      /\ cache'[p] = RemoveFirst(cache[p], C) /\ \A q \in Ptrs : q # p => cache'[q] = cache[q]
  BY <1>1, FreedFacts
<1>3. Moves({"remove", "exit"}, {}) /\ stack # << >>
  BY FreedMoves
<1>4. /\ \A k \in 1..Len(stack') : k \in 1..Len(stack) /\ stack'[k] = stack[k]
      /\ \A v : Entering(v) => Entering(v)'
  BY <1>3 DEF Moves, Stays, Entering
<1>5. cache[p] \in Seq(Node)
  BY <1>2, Types
<1>6. \A q \in Ptrs : \A i \in 1..Len(cache'[q]) :
        \E j \in 1..Len(cache[q]) : cache'[q][i] = cache[q][j]
  <2>1. PICK g \in [1..Len(RemoveFirst(cache[p], C)) -> 1..Len(cache[p])] :
          \A i \in 1..Len(RemoveFirst(cache[p], C)) : RemoveFirst(cache[p], C)[i] = cache[p][g[i]]
    BY <1>5, RemoveFirstLeaves
  <2>2. QED BY <1>2, <2>1
<1>7. \A k \in 1..Len(stack) :
        /\ stack[k].pc = "create" => stack[k].p \in Ptrs
        /\ stack[k].pc = "enter" => stack[k].w \in Wrappers /\ stack[k].w # w
  BY <1>2, Types, FrameFields, Parts DEF ConstructionSound, Constructing
<1>8. OneClass'
  <2>1. ASSUME NEW q \in Ptrs, NEW i \in 1..Len(cache'[q]), NEW j \in 1..Len(cache'[q])
        PROVE  cache'[q][i].TypeId = cache'[q][j].TypeId
    <3>1. PICK a \in 1..Len(cache[q]) : cache'[q][i] = cache[q][a]
      BY <1>6
    <3>2. PICK b \in 1..Len(cache[q]) : cache'[q][j] = cache[q][b]
      BY <1>6
    <3>3. cache[q][a].TypeId = cache[q][b].TypeId
      BY DEF OneClass
    <3>4. QED BY <3>1, <3>2, <3>3
  <2>2. \A k \in 1..Len(stack') : stack'[k].pc = "create" =>
          \A i \in 1..Len(cache'[stack'[k].p]) : cache'[stack'[k].p][i].TypeId = ClassOf(stack'[k].T)
    <3> SUFFICES ASSUME NEW k \in 1..Len(stack'), stack'[k].pc = "create",
                        NEW i \in 1..Len(cache'[stack'[k].p])
                 PROVE  cache'[stack'[k].p][i].TypeId = ClassOf(stack'[k].T)
      OBVIOUS
    <3>1. k \in 1..Len(stack) /\ stack'[k] = stack[k] /\ stack[k].p \in Ptrs
      BY <1>4, <1>7
    <3>2. PICK j \in 1..Len(cache[stack[k].p]) : cache'[stack[k].p][i] = cache[stack[k].p][j]
      BY <1>6, <3>1
    <3>3. cache[stack[k].p][j].TypeId = ClassOf(stack[k].T)
      BY <3>1 DEF OneClass
    <3>4. QED BY <3>1, <3>2, <3>3
  <2>3. QED BY <2>1, <2>2 DEF OneClass
<1>9. DataSound'
  <2>1. \A k \in 1..Len(stack') : stack'[k].pc = "enter" =>
          stack'[k].cell = "entry" /\ udata'[stack'[k].w].typeInfo \in Traced
    BY <1>2, <1>4, <1>7 DEF DataSound
  <2>2. \A k \in 1..Len(stack') : stack'[k].pc = "exit" => stack'[k].ud = stack'[k].w
    BY <1>4 DEF DataSound
  <2>3. \A q \in Ptrs : \A i \in 1..Len(cache'[q]) :
          (cache[q][i].TypeId \in Traced /\ ~Entering(cache[q][i].Value))' =>
            (cache[q][i].UserData = cache[q][i].Value)'
    <3> SUFFICES ASSUME NEW q \in Ptrs, NEW i \in 1..Len(cache'[q]),
                        (cache[q][i].TypeId \in Traced /\ ~Entering(cache[q][i].Value))'
                 PROVE  (cache[q][i].UserData = cache[q][i].Value)'
      OBVIOUS
    <3>1. PICK j \in 1..Len(cache[q]) : cache'[q][i] = cache[q][j]
      BY <1>6
    <3>2. cache[q][j].TypeId \in Traced /\ ~Entering(cache[q][j].Value)
      BY <1>4, <3>1
    <3>3. cache[q][j].UserData = cache[q][j].Value
      BY <3>2 DEF DataSound
    <3>4. QED BY <3>1, <3>3
  <2>4. QED BY <2>1, <2>2, <2>3 DEF DataSound
<1>10. QED BY <1>8, <1>9

\* A wrapper whose class has OnEnter comes to an empty place.
LEMMA BindKeepsData ==
  ASSUME Structure, CreationSound, CacheSound, OneClass, DataSound,
         stack # << >>, Top.pc \in {"create", "init"},
         NEW w \in Wrappers, NEW C \in Classes, NEW p \in Ptrs,
         NEW own \in BOOLEAN, NEW throws \in BOOLEAN,
         BindAndAddToCache(w, C, p, own, throws), status[w] \in {"free", "blank"},
         \A i \in 1..Len(cache[p]) : cache[p][i].TypeId = C,
         C \in Registered => Positions(cache[p], C) = {}
  PROVE  OneClass' /\ DataSound'
<1>1. cache[p] \in Seq(Node) /\ Len(cache[p]) \in Nat
  BY Types
<1>2. C \in Traced => cache[p] = << >>
  <2>1. SUFFICES ASSUME C \in Traced PROVE cache[p] = << >>
    OBVIOUS
  <2>2. 1..Len(cache[p]) = {}
    BY <2>1, MapperAssumption DEF Positions
  <2>3. Len(cache[p]) = 0
    BY <1>1, <2>2
  <2>4. QED BY <1>1, <2>3, EmptySeq
<1>3. /\ Moves({"create", "init"}, {"enter", "added"})
      /\ Len(stack') = Len(stack) /\ stack'[Len(stack)].w = w
      /\ stack'[Len(stack)].pc = IF C \in Traced THEN "enter" ELSE "added"
      /\ stack'[Len(stack)].cell = IF cache[p] = << >> THEN "entry" ELSE "heap"
  BY BindMoves
<1>4. \A k \in 1..Len(stack') :
        /\ stack'[k].pc # "create"
        /\ \/ k \in 1..Len(stack) /\ stack'[k] = stack[k]
           \/ k = Len(stack)
  <2>1. /\ Top.pc \notin Finalizing \cup Freeing
        /\ \A k \in 1..Len(stack) : k # Len(stack) => stack[k].pc # "create"
    BY CreatingOnTop DEF Finalizing, Freeing
  <2>2. QED BY <1>3, <2>1, BindTurns DEF Moves, Stays
<1>5. /\ \A v : Entering(v) => Entering(v)'
      /\ C \in Traced => Entering(w)'
  <2>1. Len(stack) \in 1..Len(stack') /\ Len(stack) \in 1..Len(stack)
    BY <1>3, TopHere
  <2>2. QED BY <1>3, <2>1 DEF Moves, Stays, Entering
<1>6. udata'[w].typeInfo = C /\ \A v \in Wrappers : v # w => udata'[v] = udata[v]
  BY Types DEF BindAndAddToCache
<1>7. PICK n \in Node : n.TypeId = C /\ n.Value = w
                        /\ n = [TypeId |-> C, Value |-> w, UserData |-> Nobody]
  BY DEF Node, UserData
<1>8. cache'[p] = AddNode(cache[p], n) /\ \A q \in Ptrs : q # p => cache'[q] = cache[q]
  BY <1>7, Types DEF BindAndAddToCache
<1>9. \A i \in 1..Len(cache'[p]) :
        cache'[p][i] = n \/ \E j \in 1..Len(cache[p]) : cache'[p][i] = cache[p][j]
  <2>1. PICK g \in [1..Len(AddNode(cache[p], n)) -> 0..Len(cache[p])] :
          \A i \in 1..Len(AddNode(cache[p], n)) :
            /\ g[i] = 0 => AddNode(cache[p], n)[i] = n
            /\ g[i] # 0 => AddNode(cache[p], n)[i] = cache[p][g[i]]
    BY <1>1, AddNodeOrigins
  <2>2. \A i \in 1..Len(AddNode(cache[p], n)) : g[i] # 0 => g[i] \in 1..Len(cache[p])
    BY <1>1
  <2>3. QED BY <1>8, <2>1, <2>2
<1>10. OneClass'
  <2>1. \A i \in 1..Len(cache'[p]) : cache'[p][i].TypeId = C
    BY <1>7, <1>9
  <2>2. \A q \in Ptrs : \A i, j \in 1..Len(cache'[q]) : cache'[q][i].TypeId = cache'[q][j].TypeId
    BY <1>8, <2>1 DEF OneClass
  <2>3. QED BY <1>4, <2>2 DEF OneClass
<1>11. DataSound'
  <2>1. ASSUME NEW k \in 1..Len(stack'), stack'[k].pc = "enter"
        PROVE  stack'[k].cell = "entry" /\ udata'[stack'[k].w].typeInfo \in Traced
    <3>1. CASE k = Len(stack)
      BY <1>2, <1>3, <1>6, <2>1, <3>1
    <3>2. CASE k \in 1..Len(stack) /\ stack'[k] = stack[k]
      <4>1. stack[k].w \in Wrappers /\ stack[k].w # w
        BY <2>1, <3>2, Types, FrameFields, Parts DEF ConstructionSound, Constructing
      <4>2. QED BY <1>6, <2>1, <3>2, <4>1 DEF DataSound
    <3>3. QED BY <1>4, <3>1, <3>2
  <2>2. ASSUME NEW k \in 1..Len(stack'), stack'[k].pc = "exit" PROVE stack'[k].ud = stack'[k].w
    BY <1>3, <1>4, <2>2 DEF DataSound
  <2>3. ASSUME NEW q \in Ptrs, NEW i \in 1..Len(cache'[q]),
               (cache[q][i].TypeId \in Traced /\ ~Entering(cache[q][i].Value))'
        PROVE  (cache[q][i].UserData = cache[q][i].Value)'
    <3>1. CASE q = p /\ cache'[q][i] = n
      BY <1>5, <1>7, <2>3, <3>1
    <3>2. CASE \E j \in 1..Len(cache[q]) : cache'[q][i] = cache[q][j]
      <4>1. PICK j \in 1..Len(cache[q]) : cache'[q][i] = cache[q][j]
        BY <3>2
      <4>2. cache[q][j].TypeId \in Traced /\ ~Entering(cache[q][j].Value)
        BY <1>5, <2>3, <4>1
      <4>3. cache[q][j].UserData = cache[q][j].Value
        BY <4>2 DEF DataSound
      <4>4. QED BY <4>1, <4>3
    <3>3. QED BY <1>8, <1>9, <3>1, <3>2
  <2>4. QED BY <2>1, <2>2, <2>3 DEF DataSound
<1>12. QED BY <1>10, <1>11

LEMMA CreationKeepsData ==
  ASSUME "fresh" \in Contract, "single" \in Contract, CacheInv, OneClass, DataSound,
         \/ \E w \in Wrappers : PushCreate(w)
         \/ \E p \in Ptrs, throws \in BOOLEAN : InitializeReturns(p, throws)
  PROVE  OneClass' /\ DataSound'
<1>1. Structure /\ CreationSound /\ CacheSound
  BY DEF CacheInv
<1>2. CASE \E w \in Wrappers : PushCreate(w)
  <2>1. PICK w \in Wrappers : PushCreate(w)
    BY <1>2
  <2>2. PICK C, p, own : C = ClassOf(Top.T) /\ p = Top.p /\ own = Top.own
    OBVIOUS
  <2>3. /\ stack # << >> /\ Top.pc = "create" /\ status[w] = "free"
        /\ BindAndAddToCache(w, C, p, own, FALSE)
    BY <2>1, <2>2 DEF PushCreate, At, Fresh
  <2>4. /\ Len(stack) \in 1..Len(stack) /\ Top = stack[Len(stack)]
        /\ Top.T \in TypeIds /\ p \in Ptrs /\ own \in BOOLEAN
    BY <1>1, <2>2, <2>3, TopHere, FrameFields
  <2>5. C \in Classes /\ (C \in Registered => Top.T = C)
    BY <2>2, <2>4, MapperAssumption DEF ClassOf, Classes
  <2>6. C \in Registered => Positions(cache[p], C) = {}
    BY <1>1, <2>2, <2>3, <2>4, <2>5 DEF CreationSound
  <2>7. \A i \in 1..Len(cache[p]) : cache[p][i].TypeId = C
    BY <2>2, <2>3, <2>4 DEF OneClass
  <2>8. QED BY <1>1, <2>3, <2>4, <2>5, <2>6, <2>7, BindKeepsData
<1>3. CASE \E p \in Ptrs, throws \in BOOLEAN : InitializeReturns(p, throws)
  <2>1. PICK p \in Ptrs, throws \in BOOLEAN : InitializeReturns(p, throws)
    BY <1>3
  <2>2. PICK w, C : w = Top.w /\ C = Top.T
    OBVIOUS
  <2>3. /\ stack # << >> /\ Top.pc = "init" /\ Top.pc \in Constructing
        /\ BindAndAddToCache(w, C, p, TRUE, throws)
        /\ \A i \in 1..Len(cache[p]) : cache[p][i].TypeId = C
        /\ Positions(cache[p], C) = {}
    BY <2>1, <2>2 DEF InitializeReturns, At, Constructing, MayBind
  <2>4. w \in Wrappers /\ status[w] = "blank"
    BY <1>1, <2>2, <2>3, TopHere, Parts DEF ConstructionSound
  <2>5. C \in Classes
    BY <1>1, <2>2, <2>3, TopHere, FrameFields DEF Classes
  <2>6. QED BY <1>1, <2>3, <2>4, <2>5, BindKeepsData
<1>4. QED BY <1>2, <1>3

DataInv == OwnInv /\ OneClass /\ DataSound

LEMMA NextData ==
  ASSUME "fresh" \in Contract, "single" \in Contract, DataInv, [Next]_vars
  PROVE  OneClass' /\ DataSound'
<1>1. CacheInv /\ Structure /\ CacheSound /\ Balanced /\ Closing /\ OneClass /\ DataSound
  BY DEF DataInv, OwnInv, LifeInv, CacheInv
<1>2. ASSUME \/ \E w \in Wrappers : Release(w) \/ LetsGo(w) \/ Keep(w) \/ Root(w) \/ CollectNext(w)
             \/ \E T \in TypeIds, p \in Ptrs : PushHit(T, p)
             \/ \E w \in Wrappers, T \in Registered : Construct(w, T)
             \/ \E S \in SUBSET Collectable : RunGC(S)
             \/ FreeNext \/ FreeDone \/ CollectDone \/ FinalizeReturns \/ Cleanup \/ UNCHANGED vars
      PROVE  OneClass' /\ DataSound'
  BY <1>1, <1>2, CalmStepsKeepData
<1>3. ASSUME \E T \in TypeIds, p \in Ptrs, own \in BOOLEAN : PushMiss(T, p, own)
      PROVE  OneClass' /\ DataSound'
  BY <1>1, <1>3, PushMissKeepsData
<1>4. ASSUME \/ \E w \in Wrappers : PushCreate(w)
             \/ \E p \in Ptrs, throws \in BOOLEAN : InitializeReturns(p, throws)
      PROVE  OneClass' /\ DataSound'
  BY <1>1, <1>4, CreationKeepsData
<1>5. ASSUME Constructed \/ RemoveFromCache \/ ObjectFreed PROVE OneClass' /\ DataSound'
  BY <1>1, <1>5, ConstructedKeepsData, RemoveFromCacheKeepsData, FreedKeepsData
<1>6. ASSUME Destroy PROVE OneClass' /\ DataSound'
  <2>1. /\ \A p \in Ptrs : cache'[p] = << >>
        /\ \A k \in 1..Len(stack') : stack'[k].pc = "gc"
    BY <1>6 DEF Destroy
  <2>2. QED BY <2>1 DEF OneClass, DataSound
<1>7. QED BY <1>2, <1>3, <1>4, <1>5, <1>6 DEF Next, Client, Engine, Destroyed, Unroot, ReleaseConstructor

\* What OnEnter returned for a wrapper reaches OnExit of the same wrapper, from
\* its finalizer or from Cleanup: the write through CacheNodePtr after OnEnter
\* never lands in another wrapper's node and is never lost, whatever OnEnter
\* creates, releases or collects.
THEOREM UserDataStays ==
  ASSUME "fresh" \in Contract, "quiet" \in Contract, "single" \in Contract
  PROVE  Spec => []UserDataKept
<1>1. Init => DataInv
  <2>1. Init => OneClass /\ DataSound
    BY DEF Init, OneClass, DataSound
  <2>2. QED BY <2>1, InitOwn DEF DataInv
<1>2. DataInv /\ [Next]_vars => DataInv'
  BY NextOwn, NextData DEF DataInv
<1>3. DataInv => UserDataKept
  <2> SUFFICES ASSUME DataInv PROVE UserDataKept
    OBVIOUS
  <2>1. Structure /\ DataSound
    BY DEF DataInv, OwnInv, LifeInv, CacheInv
  <2>2. ExitUserData
    BY <2>1, TopHere DEF DataSound, ExitUserData, At
  <2>3. \A p \in Ptrs : \A i \in 1..Len(cache[p]) :
          /\ cache[p][i].TypeId \in Traced
          /\ \A k \in 1..Len(stack) : stack[k].pc = "enter" => stack[k].w # cache[p][i].Value
          => cache[p][i].UserData = cache[p][i].Value
    BY <2>1 DEF DataSound, Entering
  <2>4. QED BY <2>2, <2>3 DEF UserDataKept
<1>4. QED BY <1>1, <1>2, <1>3, PTL DEF Spec

-----------------------------------------------------------------------------
(* Freeing gets on, for a client that keeps quiet. *)

\* What is left to do: wrappers no finalizer was started for, finalizers that have not
\* freed their wrapper, callbacks of the innermost one, and references the client
\* can still release meanwhile.
Unfinalized == {w \in Wrappers : status[w] \in {"blank", "bound", "queued"}}
Unfreed == {w \in Wrappers : status[w] = "dying"}
Ahead(pc) == CASE pc = "finalize" -> 2 [] pc = "remove" -> 1 [] OTHER -> 0
Stage == IF stack = << >> THEN 0 ELSE Ahead(Top.pc)

Starts == Unfinalized' \subseteq Unfinalized /\ Unfinalized' # Unfinalized
Frees == Unfinalized' = Unfinalized /\ Unfreed' \subseteq Unfreed /\ Unfreed' # Unfreed
Proceeds == UNCHANGED <<Unfinalized, Unfreed, native>> /\ Stage' < Stage
Releases ==
  /\ UNCHANGED <<Unfinalized, Unfreed, stack>>
  /\ \E w \in Wrappers : native'[w] < native[w] /\ native' = [native EXCEPT ![w] = native'[w]]

FreeingStep ==
  phase # "none" =>
    /\ stack # << >> /\ Top.pc \in Finalizing \cup Freeing
    /\ phase' = "none" \/ Starts \/ Frees \/ Proceeds \/ Releases

LEMMA StartFinalizerStarts ==
  ASSUME Structure, NEW w \in Wrappers, StartFinalizer(w), status[w] \in {"bound", "queued"}
  PROVE  Starts
<1>1. status' = [status EXCEPT ![w] = "dying"] /\ status'[w] = "dying"
  BY Types DEF StartFinalizer
<1>2. \A v \in Wrappers : v # w => status'[v] = status[v]
  BY <1>1, Types
<1>3. w \in Unfinalized /\ w \notin Unfinalized'
  BY <1>1 DEF Unfinalized
<1>4. Unfinalized' \subseteq Unfinalized
  BY <1>1, <1>2 DEF Unfinalized
<1>5. QED BY <1>3, <1>4 DEF Starts

LEMMA ReleaseReleases ==
  ASSUME Structure, NEW w \in Wrappers, Release(w), phase # "none"
  PROVE  Releases
<1>1. /\ status[w] # "free" /\ native' = [native EXCEPT ![w] = native[w] - 1]
      /\ native[w] \in Nat
      /\ LastRefGone(w, stack) \/ UNCHANGED <<status, stack>>
  BY Types DEF Release
<1>2. native'[w] < native[w] /\ native' = [native EXCEPT ![w] = native'[w]]
  BY <1>1, Types
<1>3. stack' = stack
  BY <1>1 DEF LastRefGone
<1>4. \A v \in Wrappers : /\ v # w => status'[v] = status[v]
                          /\ \/ status'[v] = status[v]
                             \/ status[v] \in {"blank", "bound", "queued"} /\ status'[v] = "queued"
  <2>1. \/ status' = status
        \/ status' = [status EXCEPT ![w] = IF status[w] = "dying" THEN "dying" ELSE "queued"]
    BY <1>1 DEF LastRefGone
  <2>2. status[w] \in {"blank", "bound", "queued", "dying"}
    BY <1>1, Types
  <2>3. QED BY <2>1, <2>2, Types
<1>5. Unfinalized' = Unfinalized /\ Unfreed' = Unfreed
  BY <1>4 DEF Unfinalized, Unfreed
<1>6. QED BY <1>2, <1>3, <1>5 DEF Releases

LEMMA CallbacksProceed ==
  ASSUME Structure, FinalizeReturns \/ RemoveFromCache
  PROVE  Proceeds
<1>1. UNCHANGED <<status, native>> /\ stack # << >>
  BY DEF FinalizeReturns, RemoveFromCache, At
<1>2. Unfinalized' = Unfinalized /\ Unfreed' = Unfreed
  BY <1>1 DEF Unfinalized, Unfreed
<1>3. Len(stack) \in Nat \ {0}
  BY <1>1, TopHere, Types
<1>4. ASSUME NEW f, stack' = Becomes(f)
      PROVE  stack' # << >> /\ Top' = f
  <2>1. Len(stack') = Len(stack) /\ stack'[Len(stack)] = f
    BY <1>3, <1>4, Types DEF Becomes
  <2>2. QED BY <1>3, <2>1 DEF Top
<1>5. CASE FinalizeReturns
  <2>1. Top.pc = "finalize" /\ stack' = Becomes([pc |-> "remove", w |-> Top.w])
    BY <1>5 DEF FinalizeReturns, At
  <2>2. stack' # << >> /\ Top'.pc = "remove"
    BY <1>4, <2>1
  <2>3. Stage = 2 /\ Stage' = 1
    BY <1>1, <2>1, <2>2 DEF Stage, Ahead
  <2>4. QED BY <1>1, <1>2, <2>3 DEF Proceeds
<1>6. CASE RemoveFromCache
  <2> PICK u : u = cache[udata[Top.w].ptr][1].UserData
    OBVIOUS
  <2>1. Top.pc = "remove" /\ stack' = Becomes([pc |-> "exit", w |-> Top.w, ud |-> u])
    BY <1>6 DEF RemoveFromCache, At
  <2>2. stack' # << >> /\ Top'.pc = "exit"
    BY <1>4, <2>1
  <2>3. Stage = 1 /\ Stage' = 0
    BY <1>1, <2>1, <2>2 DEF Stage, Ahead
  <2>4. QED BY <1>1, <1>2, <2>3 DEF Proceeds
<1>7. QED BY <1>5, <1>6

LEMMA FreedFrees ==
  ASSUME Structure, ObjectFreed
  PROVE  Frees
<1> PICK w : w = Top.w
  OBVIOUS
<1>1. /\ stack # << >> /\ Top.pc \in Finalizing
      /\ status' = [status EXCEPT ![w] = "free"]
  BY DEF ObjectFreed, FinalizerEnds, At, Finalizing
<1>2. w \in Wrappers /\ status[w] = "dying"
  BY <1>1, TopHere, Parts DEF FinalizationSound
<1>3. status'[w] = "free" /\ \A v \in Wrappers : v # w => status'[v] = status[v]
  BY <1>1, <1>2, Types
<1>4. w \in Unfreed /\ w \notin Unfreed' /\ Unfreed' \subseteq Unfreed
  BY <1>2, <1>3 DEF Unfreed
<1>5. Unfinalized' = Unfinalized
  BY <1>2, <1>3 DEF Unfinalized
<1>6. QED BY <1>4, <1>5 DEF Frees

LEMMA NextFrees ==
  ASSUME "quiet" \in Contract, Structure, Engaged, Undisturbed, Next, ~UNCHANGED vars
  PROVE  FreeingStep
<1> SUFFICES ASSUME phase # "none"
             PROVE  /\ stack # << >> /\ Top.pc \in Finalizing \cup Freeing
                    /\ phase' = "none" \/ Starts \/ Frees \/ Proceeds \/ Releases
  BY DEF FreeingStep
<1>1. ~ClientRuns /\ (stack = << >> \/ Top.pc \in Finalizing \cup Freeing)
  BY CalmAtClient
<1>2. stack # << >>
  <2>1. Looping
    BY DEF Engaged
  <2>2. QED BY <2>1 DEF Looping
<1>3. ASSUME NEW w \in Wrappers, Release(w) PROVE Releases
  BY <1>3, ReleaseReleases
<1>4. CASE FreeNext
  <2>1. /\ zeroRefs \in Seq(Wrappers) /\ zeroRefs # << >>
        /\ StartFinalizer(Head(zeroRefs))
    BY <1>4, Types DEF FreeNext
  <2>2. Head(zeroRefs) \in Wrappers /\ 1 \in 1..Len(zeroRefs) /\ Head(zeroRefs) = zeroRefs[1]
    BY <2>1
  <2>3. status[Head(zeroRefs)] = "queued"
    BY <2>2, Parts DEF QueueSound
  <2>4. Starts
    BY <2>1, <2>2, <2>3, StartFinalizerStarts
  <2>5. QED BY <1>1, <1>2, <2>4
<1>5. ASSUME NEW w \in Wrappers, CollectNext(w) PROVE Starts
  <2>1. StartFinalizer(w) /\ w \in garbage
    BY <1>5 DEF CollectNext
  <2>2. status[w] = "bound"
    BY <2>1, Parts DEF GarbageSound
  <2>3. QED BY <2>1, <2>2, StartFinalizerStarts
<1>6. ASSUME FreeDone \/ CollectDone PROVE phase' = "none"
  BY <1>6 DEF FreeDone, CollectDone
<1>7. ASSUME FinalizeReturns \/ RemoveFromCache PROVE Proceeds
  BY <1>7, CallbacksProceed
<1>8. ASSUME ObjectFreed PROVE Frees
  BY <1>8, FreedFrees
<1>9. \/ \E w \in Wrappers : Release(w) \/ CollectNext(w)
      \/ FreeNext \/ FreeDone \/ CollectDone \/ FinalizeReturns \/ RemoveFromCache \/ ObjectFreed
  <2>1. ASSUME NEW w \in Wrappers, Keep(w) \/ Root(w) \/ Unroot(w) \/ ReleaseConstructor(w) PROVE FALSE
    BY <1>1, <1>2, <2>1 DEF Keep, Root, Unroot, ReleaseConstructor
  <2>2. ~\E T \in TypeIds, p \in Ptrs : PushHit(T, p)
    BY <1>1 DEF PushHit
  <2>3. ~\E T \in TypeIds, p \in Ptrs, own \in BOOLEAN : PushMiss(T, p, own)
    BY <1>1 DEF PushMiss
  <2>4. ~\E w \in Wrappers, T \in Registered : Construct(w, T)
    BY <1>1 DEF Construct
  <2>5. ~\E p \in Ptrs, throws \in BOOLEAN : InitializeReturns(p, throws)
    BY <1>1, <1>2 DEF InitializeReturns, At, Finalizing, Freeing
  <2>6. ~(\E S \in SUBSET Collectable : RunGC(S)) /\ ~Cleanup /\ ~Destroy
    BY <1>2 DEF RunGC, Cleanup, Destroy
  <2>7. ~(\E w \in Wrappers : PushCreate(w)) /\ ~Constructed
    BY <1>1, <1>2 DEF PushCreate, Constructed, At, Finalizing, Freeing
  <2>8. ~Destroyed
    BY DEF Destroyed
  <2>9. QED BY <2>1, <2>2, <2>3, <2>4, <2>5, <2>6, <2>7, <2>8 DEF Next, Client, Engine
<1>10. QED BY <1>1, <1>2, <1>3, <1>4, <1>5, <1>6, <1>7, <1>8, <1>9

\* While a loop frees objects the innermost activation is the loop or a finalizer it
\* runs, and each step ends the loop or comes nearer to its end: it starts a finalizer
\* that was not started yet, ends one, goes on in one, or is a release by the client
\* of one of the references it has.  No callback brings a wrapper back or asks for
\* a new one.
FreeingGetsOn == [][FreeingStep]_vars

\* What makes freeing end: with finitely many wrappers and references the four parts
\* of FreeingStep, in this order, can only shrink so often.
THEOREM FreeingHasBound ==
  ASSUME "quiet" \in Contract
  PROVE  Spec => FreeingGetsOn
<1> DEFINE Inv == Structure /\ Engaged /\ Undisturbed
<1>1. Init => Inv
  BY InitStructure, InitEngaged DEF Init, Undisturbed
<1>2. Inv /\ [Next]_vars => Inv'
  BY NextStructure, NextEngaged, NextUndisturbed
<1>3. Inv /\ [Next]_vars => [FreeingStep]_vars
  BY NextFrees
<1> HIDE DEF Inv
<1>4. QED BY <1>1, <1>2, <1>3, PTL DEF Spec, FreeingGetsOn
=============================================================================
