-------------------------- MODULE ObjectMapperProofs --------------------------
(***************************************************************************)
(* Type correctness of the object mapper for every client, and soundness   *)
(* of its cache for a client that keeps the clauses fresh and quiet,       *)
(* whatever the numbers of addresses, classes, wrappers and references.    *)
(***************************************************************************)
EXTENDS ObjectMapper, NodeListsProofs

-----------------------------------------------------------------------------
(* The stack is a sequence of activations. *)

LEMMA PopFacts ==
  ASSUME NEW S, NEW s \in Seq(S), s # << >>
  PROVE  \E n \in Nat : /\ Len(s) = n + 1
                        /\ SubSeq(s, 1, Len(s) - 1) \in Seq(S)
                        /\ Len(SubSeq(s, 1, Len(s) - 1)) = n
                        /\ \A i \in 1..n : SubSeq(s, 1, Len(s) - 1)[i] = s[i]
<1>1. PICK n \in Nat : Len(s) = n + 1
  <2>1. Len(s) \in Nat /\ Len(s) # 0
    BY EmptySeq
  <2>2. QED BY <2>1
<1>2. /\ SubSeq(s, 1, n) \in Seq(S) /\ Len(SubSeq(s, 1, n)) = n
      /\ \A i \in 1..n : SubSeq(s, 1, n)[i] = s[i]
  BY <1>1
<1>3. Len(s) - 1 = n
  BY <1>1
<1>4. QED BY <1>1, <1>2, <1>3

-----------------------------------------------------------------------------
(* What holds between the stack and the rest of the state. *)

Constructing == {"init", "enter", "added"}
Finalizing == {"finalize", "remove", "exit"}
Freeing == {"free", "gc"}

\* A wrapper is under construction in at most one activation, is bound once
\* Initialize returned, and the activation's own reference is accounted for.
ConstructionSound ==
  /\ \A i \in 1..Len(stack) : stack[i].pc \in Constructing =>
       /\ status[stack[i].w] = IF stack[i].pc = "init" THEN "blank" ELSE "bound"
       /\ native[stack[i].w] < MaxRefs
       /\ \A j \in 1..Len(stack) :
            stack[j].pc \in Constructing /\ stack[j].w = stack[i].w => j = i
  /\ \A w \in Wrappers : status[w] = "blank" =>
       \E i \in 1..Len(stack) : stack[i].pc = "init" /\ stack[i].w = w

\* The finalizer of a wrapper is active at most once, and while it is the
\* wrapper is neither queued nor collected again.
FinalizationSound ==
  \A i \in 1..Len(stack) : stack[i].pc \in Finalizing =>
    /\ status[stack[i].w] = "dying"
    /\ \A j \in 1..Len(stack) :
         stack[j].pc \in Finalizing /\ stack[j].w = stack[i].w => j = i

\* The engine frees objects in one loop at a time, and gc_phase says in which.
OneLoop ==
  \A i \in 1..Len(stack) : stack[i].pc \in Freeing =>
    /\ phase = IF stack[i].pc = "free" THEN "decref" ELSE "cycles"
    /\ \A j \in 1..Len(stack) : stack[j].pc \in Freeing => j = i

\* The list of dead objects holds each once, and none that is dying already.
QueueSound ==
  \A k \in 1..Len(zeroRefs) :
    /\ status[zeroRefs[k]] = "queued"
    /\ \A l \in 1..Len(zeroRefs) : zeroRefs[l] = zeroRefs[k] => l = k

\* What gc_free_cycles still has to free is bound and nobody's construction,
\* and nothing is queued before it is done.
GarbageSound ==
  /\ garbage # {} => phase = "cycles"
  /\ \A w \in garbage : status[w] = "bound" /\ ~Pinned(w)

\* A wrapper has its opaque data from binding to the end of its finalizer.
BoundSound ==
  \A w \in Wrappers : Alive(w) => udata[w] \in ObjectUserData

Structure ==
  /\ TypeOK
  /\ ConstructionSound /\ FinalizationSound /\ OneLoop
  /\ QueueSound /\ GarbageSound /\ BoundSound

\* PushNativeObject looks the wrapper up, then creates the class and the
\* object; what may happen in between only frees wrappers.
CreationSound ==
  \A i \in 1..Len(stack) : stack[i].pc = "create" =>
    /\ stack[i].T \in Registered => Positions(cache[stack[i].p], stack[i].T) = {}
    /\ \A j \in (i + 1)..Len(stack) : stack[j].pc \in Finalizing \cup Freeing


-----------------------------------------------------------------------------
(* How the stack changes. *)

Pushed(f) ==
  /\ stack' \in Seq(Frame) /\ Len(stack') = Len(stack) + 1
  /\ stack'[Len(stack) + 1] = f
  /\ \A i \in 1..Len(stack) : i \in 1..Len(stack') /\ stack'[i] = stack[i]
  /\ \A i \in 1..Len(stack') : i \in 1..Len(stack) \/ i = Len(stack) + 1

Turned(f) ==
  /\ stack' \in Seq(Frame) /\ Len(stack') = Len(stack) /\ Len(stack) \in Nat \ {0}
  /\ stack'[Len(stack)] = f
  /\ \A i \in 1..Len(stack) : i # Len(stack) => stack'[i] = stack[i]

Popped ==
  /\ stack' \in Seq(Frame) /\ Len(stack) = Len(stack') + 1
  /\ \A i \in 1..Len(stack') :
       i \in 1..Len(stack) /\ i # Len(stack) /\ stack'[i] = stack[i]
  /\ \A i \in 1..Len(stack) : i \in 1..Len(stack') \/ i = Len(stack)

LEMMA PushedByAppend ==
  ASSUME stack \in Seq(Frame), NEW f \in Frame, stack' = Append(stack, f)
  PROVE  Pushed(f)
BY DEF Pushed

LEMMA PoppedByCaller ==
  ASSUME stack \in Seq(Frame), stack # << >>, stack' = Caller
  PROVE  Popped
<1>1. PICK n \in Nat : /\ Len(stack) = n + 1
                        /\ Caller \in Seq(Frame) /\ Len(Caller) = n
                        /\ \A i \in 1..n : Caller[i] = stack[i]
  BY PopFacts DEF Caller
<1>2. QED BY <1>1 DEF Popped

LEMMA TurnedByBecomes ==
  ASSUME stack \in Seq(Frame), stack # << >>, NEW f \in Frame, stack' = Becomes(f)
  PROVE  Turned(f)
<1>1. Len(stack) \in Nat /\ Len(stack) # 0
  BY EmptySeq
<1>2. QED BY <1>1 DEF Turned, Becomes

LEMMA TurnedByCall ==
  ASSUME stack \in Seq(Frame), stack # << >>, NEW f \in Frame, stack' = Append(Caller, f)
  PROVE  Turned(f)
<1>1. PICK n \in Nat : /\ Len(stack) = n + 1
                        /\ Caller \in Seq(Frame) /\ Len(Caller) = n
                        /\ \A i \in 1..n : Caller[i] = stack[i]
  BY PopFacts DEF Caller
<1>2. /\ stack' \in Seq(Frame) /\ Len(stack') = n + 1 /\ stack'[n + 1] = f
      /\ \A i \in 1..n : stack'[i] = Caller[i]
  BY <1>1
<1>3. QED BY <1>1, <1>2 DEF Turned

\* What the activations carry.
LEMMA FrameFields ==
  ASSUME NEW f \in Frame
  PROVE  /\ f.pc = "create" => f.T \in TypeIds /\ f.p \in Ptrs /\ f.own \in BOOLEAN
         /\ f.pc \in Constructing \cup Finalizing => f.w \in Wrappers
         /\ f.pc = "init" => f.T \in Registered
         /\ f.pc \in {"enter", "added"} => f.cell \in {"entry", "heap"} /\ f.throws \in BOOLEAN
         /\ f.pc = "exit" => f.ud \in UserData
BY DEF Frame, Constructing, Finalizing

LEMMA FrameKinds ==
  /\ \A T \in TypeIds, p \in Ptrs, own \in BOOLEAN :
       [pc |-> "create", T |-> T, p |-> p, own |-> own] \in Frame
  /\ \A w \in Wrappers, T \in Registered : [pc |-> "init", w |-> w, T |-> T] \in Frame
  /\ \A c \in {"enter", "added"}, w \in Wrappers, cell \in {"entry", "heap"}, t \in BOOLEAN :
       [pc |-> c, w |-> w, cell |-> cell, throws |-> t] \in Frame
  /\ [pc |-> "free"] \in Frame /\ [pc |-> "gc"] \in Frame
  /\ \A c \in {"finalize", "remove"}, w \in Wrappers : [pc |-> c, w |-> w] \in Frame
  /\ \A w \in Wrappers, ud \in UserData : [pc |-> "exit", w |-> w, ud |-> ud] \in Frame
BY DEF Frame

LEMMA TopFrame ==
  ASSUME stack \in Seq(Frame), stack # << >>
  PROVE  Len(stack) \in Nat \ {0} /\ Top \in Frame /\ Top = stack[Len(stack)]
<1>1. Len(stack) \in Nat /\ Len(stack) # 0
  BY EmptySeq
<1>2. QED BY <1>1 DEF Top


-----------------------------------------------------------------------------
(* The last reference goes away. *)

Distinct(q) == \A k, l \in 1..Len(q) : q[l] = q[k] => l = k

\* The object moves to the front of the list.
LEMMA QueuedOnce ==
  ASSUME zeroRefs \in Seq(Wrappers), NEW w \in Wrappers, Distinct(zeroRefs)
  PROVE  \E q \in Seq(Wrappers) :
           /\ q = <<w>> \o Unlinked(w)
           /\ \A k \in 1..Len(q) :
                q[k] = w \/ \E i \in 1..Len(zeroRefs) : zeroRefs[i] = q[k]
           /\ Distinct(q)
<1> DEFINE q == <<w>> \o Unlinked(w)
<1>1. /\ Unlinked(w) \in Seq(Wrappers)
      /\ \A k \in 1..Len(Unlinked(w)) :
           /\ Unlinked(w)[k] # w
           /\ \E i \in 1..Len(zeroRefs) : zeroRefs[i] = Unlinked(w)[k]
      /\ \A k, l \in 1..Len(Unlinked(w)) : Unlinked(w)[l] = Unlinked(w)[k] => l = k
  <2>1. CASE \E i \in 1..Len(zeroRefs) : zeroRefs[i] = w
    <3> DEFINE m == CHOOSE i \in 1..Len(zeroRefs) : zeroRefs[i] = w
    <3>1. m \in 1..Len(zeroRefs) /\ zeroRefs[m] = w
      BY <2>1
    <3>2. Unlinked(w) = Without(zeroRefs, m)
      BY <2>1 DEF Unlinked
    <3> HIDE DEF m
    <3>3. zeroRefs # << >>
      BY <3>1
    <3>4. /\ Unlinked(w) \in Seq(Wrappers) /\ Len(Unlinked(w)) = Len(zeroRefs) - 1
          /\ \A i \in 1..(Len(zeroRefs) - 1) :
               Unlinked(w)[i] = IF i < m THEN zeroRefs[i] ELSE zeroRefs[i + 1]
      BY <3>2, <3>3, WithoutFacts
    <3>5. \A i \in 1..Len(Unlinked(w)) : \E j \in 1..Len(zeroRefs) :
            j # m /\ Unlinked(w)[i] = zeroRefs[j] /\ j = IF i < m THEN i ELSE i + 1
      BY <3>1, <3>4
    <3>6. QED BY <3>1, <3>4, <3>5 DEF Distinct
  <2>2. CASE ~\E i \in 1..Len(zeroRefs) : zeroRefs[i] = w
    BY <2>2 DEF Unlinked, Distinct
  <2>3. QED BY <2>1, <2>2
<1> HIDE DEF Unlinked
<1>2. /\ q \in Seq(Wrappers) /\ Len(q) = 1 + Len(Unlinked(w)) /\ q[1] = w
      /\ \A k \in 1..Len(Unlinked(w)) : q[k + 1] = Unlinked(w)[k]
  BY <1>1
<1> HIDE DEF q
<1>3. \A k \in 1..Len(q) :
        \/ k = 1 /\ q[k] = w
        \/ \E i \in 1..Len(Unlinked(w)) : k = i + 1 /\ q[k] = Unlinked(w)[i]
  <2>1. TAKE k \in 1..Len(q)
  <2>2. CASE k = 1
    BY <1>2, <2>2
  <2>3. CASE k # 1
    <3>1. k - 1 \in 1..Len(Unlinked(w)) /\ k = (k - 1) + 1
      BY <1>1, <1>2, <2>3
    <3>2. QED BY <1>2, <3>1
  <2>4. QED BY <2>2, <2>3
<1>4. \A k \in 1..Len(q) :
        q[k] = w \/ \E i \in 1..Len(zeroRefs) : zeroRefs[i] = q[k]
  BY <1>1, <1>3
<1>5. Distinct(q)
  <2>1. ASSUME NEW k \in 1..Len(q), NEW l \in 1..Len(q), q[l] = q[k] PROVE l = k
    <3>1. CASE k = 1 /\ q[k] = w
      <4>1. ~ \E j \in 1..Len(Unlinked(w)) : l = j + 1 /\ q[l] = Unlinked(w)[j]
        BY <1>1, <2>1, <3>1
      <4>2. QED BY <1>3, <3>1, <4>1
    <3>2. CASE \E i \in 1..Len(Unlinked(w)) : k = i + 1 /\ q[k] = Unlinked(w)[i]
      <4>1. PICK i \in 1..Len(Unlinked(w)) : k = i + 1 /\ q[k] = Unlinked(w)[i]
        BY <3>2
      <4>2. CASE l = 1 /\ q[l] = w
        BY <1>1, <2>1, <4>1, <4>2
      <4>3. CASE \E j \in 1..Len(Unlinked(w)) : l = j + 1 /\ q[l] = Unlinked(w)[j]
        BY <1>1, <2>1, <4>1, <4>3
      <4>4. QED BY <1>3, <4>2, <4>3
    <3>3. QED BY <1>3, <3>1, <3>2
  <2>2. \A k, l \in 1..Len(q) : q[l] = q[k] => l = k
    BY <2>1
  <2>3. QED BY <2>2 DEF Distinct
<1>6. QED BY <1>2, <1>4, <1>5 DEF q

\* stk is the stack, perhaps without the activation that just bound an object.
Remains(stk) ==
  /\ stk \in Seq(Frame) /\ Len(stk) <= Len(stack)
  /\ \A i \in 1..Len(stk) : stk[i] = stack[i]
  /\ \A i \in 1..Len(stack) : i \in 1..Len(stk) \/ stack[i].pc \in {"enter", "added"}

\* Steps that only count references.
LEMMA CountingKeeps ==
  ASSUME Structure, UNCHANGED <<status, udata, zeroRefs, garbage, phase, env, calls>>,
         Remains(stack'),
         cache' \in [Ptrs -> Seq(Node)],
         native' \in [Wrappers -> 0..MaxRefs],
         script' \in [Wrappers -> {"none", "root", "cycle"}],
         \A v \in Wrappers : Pinned(v)' => native'[v] < MaxRefs
  PROVE  Structure'
<1>1. TypeOK'
  BY DEF Structure, TypeOK, Remains
<1>2. /\ Len(stack) \in Nat /\ Len(stack') \in Nat /\ stack' \in Seq(Frame)
      /\ \A i \in 1..Len(stack') : i \in 1..Len(stack) /\ stack'[i] = stack[i]
      /\ \A i \in 1..Len(stack) : i \in 1..Len(stack') \/ stack[i].pc \in {"enter", "added"}
  BY <1>1 DEF Structure, TypeOK, Remains
<1>3. ConstructionSound'
  <2>1. \A i \in 1..Len(stack') : stack'[i].pc \in Constructing =>
          stack'[i].w \in Wrappers /\ native'[stack'[i].w] < MaxRefs
    <3>1. TAKE i \in 1..Len(stack')
    <3>2. HAVE stack'[i].pc \in Constructing
    <3>3. stack'[i] \in Frame
      BY <1>2
    <3>4. stack'[i].w \in Wrappers
      BY <3>2, <3>3, FrameFields
    <3>5. Pinned(stack[i].w)'
      BY <3>2 DEF Pinned, Constructing
    <3>6. QED BY <3>4, <3>5
  <2>2. ConstructionSound
    BY DEF Structure
  <2>3. \A i \in 1..Len(stack') : stack'[i].pc \in Constructing =>
          /\ status'[stack'[i].w] = IF stack'[i].pc = "init" THEN "blank" ELSE "bound"
          /\ \A j \in 1..Len(stack') :
               stack'[j].pc \in Constructing /\ stack'[j].w = stack'[i].w => j = i
    <3>1. \A i \in 1..Len(stack) : stack[i].pc \in Constructing =>
            /\ status[stack[i].w] = IF stack[i].pc = "init" THEN "blank" ELSE "bound"
            /\ \A j \in 1..Len(stack) :
                 stack[j].pc \in Constructing /\ stack[j].w = stack[i].w => j = i
      BY <2>2 DEF ConstructionSound
    <3>2. TAKE i \in 1..Len(stack')
    <3>3. HAVE stack'[i].pc \in Constructing
    <3>4. i \in 1..Len(stack) /\ stack'[i] = stack[i]
      BY <1>2
    <3>5. status'[stack'[i].w] = IF stack'[i].pc = "init" THEN "blank" ELSE "bound"
      BY <3>1, <3>3, <3>4
    <3>6. ASSUME NEW j \in 1..Len(stack'),
                 stack'[j].pc \in Constructing, stack'[j].w = stack'[i].w
          PROVE  j = i
      <4>1. j \in 1..Len(stack) /\ stack'[j] = stack[j]
        BY <1>2
      <4>2. QED BY <3>1, <3>3, <3>4, <3>6, <4>1
    <3>7. QED BY <3>5, <3>6
  <2>4. \A w \in Wrappers : status'[w] = "blank" =>
          \E i \in 1..Len(stack') : stack'[i].pc = "init" /\ stack'[i].w = w
    <3>1. \A i \in 1..Len(stack) : stack[i].pc = "init" =>
            i \in 1..Len(stack') /\ stack'[i] = stack[i]
      BY <1>2
    <3>2. \A w \in Wrappers : status[w] = "blank" =>
            \E i \in 1..Len(stack) : stack[i].pc = "init" /\ stack[i].w = w
      BY <2>2 DEF ConstructionSound
    <3>3. QED BY <3>1, <3>2
  <2>5. QED BY <2>1, <2>3, <2>4 DEF ConstructionSound
<1>4. FinalizationSound' /\ OneLoop'
  BY <1>2 DEF Structure, FinalizationSound, OneLoop
<1>5. QueueSound' /\ BoundSound'
  BY DEF Structure, QueueSound, BoundSound, Alive
<1>6. GarbageSound'
  <2>1. \A w \in Wrappers : Pinned(w)' => Pinned(w)
    BY <1>2 DEF Pinned
  <2>2. QED BY <1>1, <2>1 DEF Structure, GarbageSound, TypeOK
<1>7. QED BY <1>1, <1>3, <1>4, <1>5, <1>6 DEF Structure

LEMMA LastRefGoneKeeps ==
  ASSUME Structure, NEW w \in Wrappers, Alive(w),
         NEW stk, LastRefGone(w, stk), Remains(stk),
         \A i \in 1..Len(stk) : stk[i].pc \in Constructing => stk[i].w # w,
         UNCHANGED <<udata, garbage, env, calls>>,
         cache' \in [Ptrs -> Seq(Node)],
         native' \in [Wrappers -> 0..MaxRefs],
         script' \in [Wrappers -> {"none", "root", "cycle"}],
         \A v \in Wrappers : native'[v] <= native[v]
  PROVE  Structure'
<1>1. /\ stack \in Seq(Frame) /\ Len(stack) \in Nat
      /\ status \in [Wrappers -> {"free", "blank", "bound", "queued", "dying"}]
      /\ zeroRefs \in Seq(Wrappers) /\ garbage \in SUBSET Wrappers
      /\ native \in [Wrappers -> 0..MaxRefs] /\ MaxRefs \in Nat
      /\ phase \in {"none", "decref", "cycles"}
  BY MapperAssumption DEF Structure, TypeOK
<1>2. /\ stk \in Seq(Frame) /\ Len(stk) \in Nat
      /\ \A i \in 1..Len(stk) :
           /\ i \in 1..Len(stack) /\ stk[i] = stack[i]
           /\ stk[i].pc \in Constructing \cup Finalizing => stk[i].w \in Wrappers
           /\ stk[i].pc \in Constructing => Pinned(stk[i].w) /\ stk[i].w # w
      /\ \A i \in 1..Len(stack) : i \in 1..Len(stk) \/ stack[i].pc \in {"enter", "added"}
  <2>1. \A i \in 1..Len(stk) : i \in 1..Len(stack) /\ stk[i] = stack[i]
    BY <1>1 DEF Remains
  <2>2. QED BY <1>1, <2>1, FrameFields DEF Pinned, Constructing, Remains
<1>3. \A v \in Wrappers : Pinned(v) => native'[v] < MaxRefs
  <2>1. \A v \in Wrappers : Pinned(v) => native[v] < MaxRefs
    BY DEF Structure, Pinned, ConstructionSound, Constructing
  <2>2. QED BY <1>1, <2>1
<1>4. CASE phase = "cycles"
  <2>1. UNCHANGED <<status, zeroRefs, phase>> /\ stack' = stk
    BY <1>4 DEF LastRefGone
  <2>2. \A v \in Wrappers : Pinned(v)' => Pinned(v)
    BY <1>2, <2>1 DEF Pinned
  <2>3. QED BY <1>3, <2>1, <2>2, CountingKeeps
<1>5. CASE phase # "cycles"
  <2>1. /\ status' = [status EXCEPT ![w] = IF @ = "dying" THEN @ ELSE "queued"]
        /\ zeroRefs' = IF status[w] = "dying" THEN zeroRefs ELSE <<w>> \o Unlinked(w)
        /\ phase' = "decref"
        /\ stack' = IF phase = "none" THEN Append(stk, [pc |-> "free"]) ELSE stk
    BY <1>5 DEF LastRefGone
  <2>2. /\ stack' \in Seq(Frame)
        /\ \A i \in 1..Len(stk) : i \in 1..Len(stack') /\ stack'[i] = stk[i]
        /\ \A i \in 1..Len(stack') :
             \/ i \in 1..Len(stk)
             \/ phase = "none" /\ i = Len(stk) + 1 /\ stack'[i] = [pc |-> "free"]
    <3>1. CASE phase = "none"
      <4>1. stack' = Append(stk, [pc |-> "free"]) /\ [pc |-> "free"] \in Frame
        BY <2>1, <3>1, FrameKinds
      <4>2. QED BY <1>2, <3>1, <4>1
    <3>2. CASE phase # "none"
      BY <1>2, <2>1, <3>2
    <3>3. QED BY <3>1, <3>2
  <2>3. \A v \in Wrappers : v # w => status'[v] = status[v]
    BY <1>1, <2>1
  <2>4. status[w] \in {"bound", "queued", "dying"}
        /\ status'[w] = IF status[w] = "dying" THEN "dying" ELSE "queued"
    BY <1>1, <2>1 DEF Alive
  <2>5. /\ zeroRefs' \in Seq(Wrappers)
        /\ \A k \in 1..Len(zeroRefs') : status'[zeroRefs'[k]] = "queued"
        /\ \A k, l \in 1..Len(zeroRefs') : zeroRefs'[l] = zeroRefs'[k] => l = k
    <3>1. \A k, l \in 1..Len(zeroRefs) : zeroRefs[l] = zeroRefs[k] => l = k
      BY DEF Structure, QueueSound
    <3>2. \A k \in 1..Len(zeroRefs) : zeroRefs[k] \in Wrappers /\ status[zeroRefs[k]] = "queued"
      BY <1>1 DEF Structure, QueueSound
    <3>3. CASE status[w] = "dying"
      <4>1. zeroRefs' = zeroRefs
        BY <2>1, <3>3
      <4>2. QED BY <1>1, <2>3, <3>1, <3>2, <3>3, <4>1
    <3>4. CASE status[w] # "dying"
      <4>1. zeroRefs' = <<w>> \o Unlinked(w)
        BY <2>1, <3>4
      <4>2. /\ zeroRefs' \in Seq(Wrappers)
            /\ \A k \in 1..Len(zeroRefs') :
                 zeroRefs'[k] = w \/ \E i \in 1..Len(zeroRefs) : zeroRefs[i] = zeroRefs'[k]
            /\ Distinct(zeroRefs')
        <5>1. Distinct(zeroRefs)
          BY <3>1 DEF Distinct
        <5>2. PICK q \in Seq(Wrappers) :
                /\ q = <<w>> \o Unlinked(w)
                /\ \A k \in 1..Len(q) :
                     q[k] = w \/ \E i \in 1..Len(zeroRefs) : zeroRefs[i] = q[k]
                /\ Distinct(q)
          BY <1>1, <5>1, QueuedOnce
        <5>3. zeroRefs' = q
          BY <4>1, <5>2
        <5>4. QED BY <5>2, <5>3
      <4>3. \A k \in 1..Len(zeroRefs') : status'[zeroRefs'[k]] = "queued"
        <5>1. TAKE k \in 1..Len(zeroRefs')
        <5>2. CASE zeroRefs'[k] = w
          BY <2>4, <3>4, <5>2
        <5>3. CASE zeroRefs'[k] # w
          <6>1. PICK i \in 1..Len(zeroRefs) : zeroRefs[i] = zeroRefs'[k]
            BY <4>2, <5>3
          <6>2. QED BY <2>3, <3>2, <5>3, <6>1
        <5>4. QED BY <5>2, <5>3
      <4>4. QED BY <4>2, <4>3 DEF Distinct
    <3>5. QED BY <3>3, <3>4
  <2>6. TypeOK'
    <3>1. status' \in [Wrappers -> {"free", "blank", "bound", "queued", "dying"}]
      BY <1>1, <2>1
    <3>2. QED BY <2>1, <2>2, <2>5, <3>1 DEF Structure, TypeOK
  <2>7. ConstructionSound'
    <3>1. ConstructionSound
      BY DEF Structure
    <3>2. \A i \in 1..Len(stack') : stack'[i].pc \in Constructing =>
            /\ i \in 1..Len(stack) /\ stack'[i] = stack[i]
            /\ stack[i].w \in Wrappers /\ stack[i].w # w /\ Pinned(stack[i].w)
      BY <1>2, <2>2 DEF Constructing
    <3>3. \A i \in 1..Len(stack') : stack'[i].pc \in Constructing =>
            /\ status'[stack'[i].w] = IF stack'[i].pc = "init" THEN "blank" ELSE "bound"
            /\ native'[stack'[i].w] < MaxRefs
            /\ \A j \in 1..Len(stack') :
                 stack'[j].pc \in Constructing /\ stack'[j].w = stack'[i].w => j = i
      BY <1>3, <2>3, <3>1, <3>2 DEF ConstructionSound
    <3>4. \A v \in Wrappers : status'[v] = "blank" =>
            \E i \in 1..Len(stack') : stack'[i].pc = "init" /\ stack'[i].w = v
      <4>1. \A v \in Wrappers : status'[v] = "blank" =>
              \E i \in 1..Len(stack) : stack[i].pc = "init" /\ stack[i].w = v
        BY <2>3, <2>4, <3>1 DEF ConstructionSound
      <4>2. \A i \in 1..Len(stack) : stack[i].pc = "init" =>
              i \in 1..Len(stack') /\ stack'[i] = stack[i]
        BY <1>2, <2>2
      <4>3. QED BY <4>1, <4>2
    <3>5. QED BY <3>3, <3>4 DEF ConstructionSound
  <2>8. FinalizationSound'
    <3>1. FinalizationSound
      BY DEF Structure
    <3>2. \A i \in 1..Len(stack') : stack'[i].pc \in Finalizing =>
            i \in 1..Len(stack) /\ stack'[i] = stack[i] /\ stack[i].w \in Wrappers
      BY <1>2, <2>2 DEF Finalizing
    <3>3. \A i \in 1..Len(stack') : stack'[i].pc \in Finalizing =>
            status'[stack'[i].w] = "dying"
      <4>1. ASSUME NEW i \in 1..Len(stack'), stack'[i].pc \in Finalizing
            PROVE  status'[stack'[i].w] = "dying"
        <5> PICK v : v = stack[i].w
          OBVIOUS
        <5>1. i \in 1..Len(stack) /\ stack'[i] = stack[i] /\ v \in Wrappers
          BY <3>2, <4>1
        <5>2. status[v] = "dying"
          BY <3>1, <4>1, <5>1 DEF FinalizationSound
        <5>3. status'[v] = "dying"
          BY <2>3, <2>4, <5>1, <5>2
        <5>4. QED BY <5>1, <5>3
      <4>2. QED BY <4>1
    <3>4. QED BY <3>1, <3>2, <3>3 DEF FinalizationSound
  <2>9. OneLoop'
    <3>1. OneLoop
      BY DEF Structure
    <3>2. \A i \in 1..Len(stack) : stack[i].pc \in Freeing => phase # "none"
      BY <3>1 DEF OneLoop
    <3>3. CASE phase = "none"
      <4>1. \A i \in 1..Len(stack') : stack'[i].pc \in Freeing =>
              i = Len(stk) + 1 /\ stack'[i].pc = "free"
        <5>1. \A i \in 1..Len(stk) : stack'[i].pc \notin Freeing
          BY <1>2, <2>2, <3>2, <3>3
        <5>2. QED BY <2>2, <5>1
      <4>2. QED BY <2>1, <4>1 DEF OneLoop
    <3>4. CASE phase = "decref"
      <4>1. \A i \in 1..Len(stack') : i \in 1..Len(stack) /\ stack'[i] = stack[i]
        BY <1>2, <2>2, <3>4
      <4>2. QED BY <2>1, <3>1, <3>4, <4>1 DEF OneLoop
    <3>5. QED BY <1>1, <1>5, <3>3, <3>4
  <2>10. QueueSound'
    BY <2>5 DEF QueueSound
  <2>11. GarbageSound' /\ BoundSound'
    <3>1. GarbageSound /\ BoundSound
      BY DEF Structure
    <3>2. garbage = {}
      BY <1>5, <3>1 DEF GarbageSound
    <3>3. QED BY <2>3, <2>4, <3>1, <3>2 DEF GarbageSound, BoundSound, Alive
  <2>12. QED BY <2>6, <2>7, <2>8, <2>9, <2>10, <2>11 DEF Structure
<1>6. QED BY <1>4, <1>5

-----------------------------------------------------------------------------
(* The structure is inductive, whatever the client does. *)

LEMMA Types ==
  ASSUME Structure
  PROVE  /\ cache \in [Ptrs -> Seq(Node)]
         /\ status \in [Wrappers -> {"free", "blank", "bound", "queued", "dying"}]
         /\ udata \in [Wrappers -> ObjectUserData \cup {Nobody}]
         /\ native \in [Wrappers -> 0..MaxRefs] /\ MaxRefs \in Nat \ {0}
         /\ script \in [Wrappers -> {"none", "root", "cycle"}]
         /\ zeroRefs \in Seq(Wrappers) /\ garbage \in SUBSET Wrappers
         /\ phase \in {"none", "decref", "cycles"}
         /\ stack \in Seq(Frame) /\ Len(stack) \in Nat
         /\ env \in {"running", "cleaning", "closing", "freed"}
         /\ calls \in [Wrappers -> Calls]
         /\ \A i \in 1..Len(stack) :
              /\ stack[i] \in Frame
              /\ stack[i].pc \in Constructing \cup Finalizing => stack[i].w \in Wrappers
<1>1. stack \in Seq(Frame)
  BY DEF Structure, TypeOK
<1>2. \A i \in 1..Len(stack) : stack[i] \in Frame
  BY <1>1
<1>3. QED BY <1>1, <1>2, FrameFields, MapperAssumption DEF Structure, TypeOK

\* Its parts about wrappers, in the form in which they are used.
LEMMA Parts ==
  ASSUME Structure
  PROVE  /\ ConstructionSound /\ FinalizationSound /\ OneLoop
         /\ QueueSound /\ GarbageSound /\ BoundSound
BY DEF Structure

LEMMA InitStructure == Init => Structure
<1> SUFFICES ASSUME Init PROVE Structure
  OBVIOUS
<1>1. NoCalls \in Calls
  BY DEF NoCalls, Calls
<1>2. TypeOK
  <2>1. << >> \in Seq(Node) /\ << >> \in Seq(Wrappers) /\ << >> \in Seq(Frame)
    BY EmptySeq
  <2>2. QED BY <1>1, <2>1, MapperAssumption DEF Init, TypeOK
<1>3. stack = << >> /\ zeroRefs = << >> /\ \A w \in Wrappers : status[w] = "free"
  BY DEF Init
<1>4. QED
  BY <1>2, <1>3 DEF Init, Structure, ConstructionSound, FinalizationSound, OneLoop,
     QueueSound, GarbageSound, BoundSound, Alive

LEMMA ReleaseKeeps ==
  ASSUME Structure, NEW w \in Wrappers, Release(w)
  PROVE  Structure'
<1>1. /\ status[w] # "free" /\ native[w] > 0
      /\ native' = [native EXCEPT ![w] = @ - 1]
      /\ UNCHANGED <<cache, udata, script, garbage, env, calls>>
  BY DEF Release
<1>2. /\ native' \in [Wrappers -> 0..MaxRefs]
      /\ \A v \in Wrappers : native'[v] <= native[v]
      /\ cache' \in [Ptrs -> Seq(Node)] /\ script' \in [Wrappers -> {"none", "root", "cycle"}]
  BY <1>1, Types
<1>3. Remains(stack)
  BY Types DEF Remains
<1>4. CASE native[w] = 1 /\ script[w] = "none" /\ ~Pinned(w)
  <2>1. LastRefGone(w, stack)
    BY <1>4 DEF Release
  <2>2. \A i \in 1..Len(stack) : stack[i].pc \in Constructing => stack[i].w # w
    BY <1>4 DEF Pinned, Constructing
  <2>3. Alive(w)
    <3>1. status[w] # "blank"
      BY <2>2, Parts DEF ConstructionSound, Constructing
    <3>2. QED BY <1>1, <3>1, Types DEF Alive
  <2>4. QED BY <1>1, <1>2, <1>3, <2>1, <2>2, <2>3, LastRefGoneKeeps
<1>5. CASE ~(native[w] = 1 /\ script[w] = "none" /\ ~Pinned(w))
  <2>1. UNCHANGED <<status, zeroRefs, phase, stack>>
    BY <1>5 DEF Release
  <2>2. \A v \in Wrappers : Pinned(v)' => native'[v] < MaxRefs
    <3>1. \A v \in Wrappers : Pinned(v) => native[v] < MaxRefs
      BY Parts DEF Pinned, ConstructionSound, Constructing
    <3>2. \A v \in Wrappers : Pinned(v)' => Pinned(v)
      BY <2>1 DEF Pinned
    <3>3. QED BY <1>2, <3>1, <3>2, Types
  <2>3. Remains(stack')
    BY <1>3, <2>1
  <2>4. QED BY <1>1, <1>2, <2>1, <2>2, <2>3, CountingKeeps
<1>6. QED BY <1>4, <1>5

LEMMA UnrootKeeps ==
  ASSUME Structure, NEW w \in Wrappers, LetsGo(w)
  PROVE  Structure'
<1>1. /\ status[w] # "free"
      /\ script' \in [Wrappers -> {"none", "root", "cycle"}]
      /\ UNCHANGED <<cache, udata, native, garbage, env, calls>>
  BY Types DEF LetsGo
<1>2. /\ native' \in [Wrappers -> 0..MaxRefs]
      /\ \A v \in Wrappers : native'[v] <= native[v]
      /\ cache' \in [Ptrs -> Seq(Node)]
  BY <1>1, Types
<1>3. Remains(stack)
  BY Types DEF Remains
<1>4. CASE LastRefGone(w, stack) /\ ~Pinned(w)
  <2>1. \A i \in 1..Len(stack) : stack[i].pc \in Constructing => stack[i].w # w
    BY <1>4 DEF Pinned, Constructing
  <2>2. Alive(w)
    <3>1. status[w] # "blank"
      BY <2>1, Parts DEF ConstructionSound, Constructing
    <3>2. QED BY <1>1, <3>1, Types DEF Alive
  <2>3. QED BY <1>1, <1>2, <1>3, <1>4, <2>1, <2>2, LastRefGoneKeeps
<1>5. CASE UNCHANGED <<status, zeroRefs, phase, stack>>
  <2>1. \A v \in Wrappers : Pinned(v)' => native'[v] < MaxRefs
    <3>1. \A v \in Wrappers : Pinned(v) => native[v] < MaxRefs
      BY Parts DEF Pinned, ConstructionSound, Constructing
    <3>2. \A v \in Wrappers : Pinned(v)' => Pinned(v)
      BY <1>5 DEF Pinned
    <3>3. QED BY <1>1, <3>1, <3>2
  <2>2. Remains(stack')
    BY <1>3, <1>5
  <2>3. QED BY <1>1, <1>2, <1>5, <2>1, <2>2, CountingKeeps
<1>6. QED BY <1>4, <1>5 DEF LetsGo

\* Keep, Root and the hit of PushNativeObject.
LEMMA RefersKeeps ==
  ASSUME Structure,
         UNCHANGED <<cache, status, udata, zeroRefs, garbage, phase, stack, env, calls>>,
         script' \in [Wrappers -> {"none", "root", "cycle"}],
         \/ native' = native
         \/ \E w \in Wrappers : MayRefer(w) /\ native' = [native EXCEPT ![w] = @ + 1]
  PROVE  Structure'
<1>1. \A v \in Wrappers : Pinned(v) => native[v] < MaxRefs
  BY Parts DEF Pinned, ConstructionSound, Constructing
<1>2. native' \in [Wrappers -> 0..MaxRefs] /\ \A v \in Wrappers : Pinned(v) => native'[v] < MaxRefs
  <2>1. CASE native' = native
    BY <1>1, <2>1, Types
  <2>2. CASE \E w \in Wrappers : MayRefer(w) /\ native' = [native EXCEPT ![w] = @ + 1]
    <3>1. PICK w \in Wrappers : MayRefer(w) /\ native' = [native EXCEPT ![w] = @ + 1]
      BY <2>2
    <3>2. /\ native[w] + 1 \in 0..MaxRefs
          /\ Pinned(w) => native[w] + 1 < MaxRefs
      BY <3>1, Types DEF MayRefer
    <3>3. QED BY <1>1, <3>1, <3>2, Types
  <2>3. QED BY <2>1, <2>2
<1>3. \A v \in Wrappers : Pinned(v)' => Pinned(v)
  BY DEF Pinned
<1>4. Remains(stack') /\ cache' \in [Ptrs -> Seq(Node)]
  BY Types DEF Remains
<1>5. QED BY <1>2, <1>3, <1>4, CountingKeeps

LEMMA KeepRootHitKeeps ==
  ASSUME Structure,
         \/ \E w \in Wrappers : Keep(w) \/ Root(w)
         \/ \E T \in TypeIds, p \in Ptrs : PushHit(T, p)
  PROVE  Structure'
<1>1. CASE \E w \in Wrappers : Keep(w)
  BY <1>1, RefersKeeps, Types DEF Keep
<1>2. CASE \E w \in Wrappers : Root(w)
  BY <1>2, RefersKeeps, Types DEF Root
<1>3. CASE \E T \in TypeIds, p \in Ptrs : PushHit(T, p)
  <2>1. PICK T \in TypeIds, p \in Ptrs : PushHit(T, p)
    BY <1>3
  <2> DEFINE k == FirstOf(cache[p], T)
             w == cache[p][k].Value
  <2>2. MayRefer(w) /\ native' = [native EXCEPT ![w] = @ + 1]
        /\ UNCHANGED <<cache, status, udata, script, zeroRefs, garbage, phase, stack, env, calls>>
    BY <2>1 DEF PushHit
  <2>3. CASE w \in Wrappers
    BY <2>2, <2>3, RefersKeeps, Types
  <2>4. CASE w \notin Wrappers
    <3>1. native' = native
      BY <2>2, <2>4, Types
    <3>2. QED BY <2>2, <3>1, RefersKeeps, Types
  <2>5. QED BY <2>3, <2>4
<1>4. QED BY <1>1, <1>2, <1>3


LEMMA PushMissKeeps ==
  ASSUME Structure, NEW T \in TypeIds, NEW p \in Ptrs, NEW own \in BOOLEAN,
         PushMiss(T, p, own)
  PROVE  Structure'
<1> DEFINE f == [pc |-> "create", T |-> T, p |-> p, own |-> own]
<1>1. /\ stack' = Append(stack, f)
      /\ UNCHANGED <<cache, status, udata, native, script, zeroRefs, garbage, phase, env, calls>>
  BY DEF PushMiss
<1>2. f \in Frame /\ f.pc \notin Constructing \cup Finalizing \cup Freeing
  BY FrameKinds DEF Constructing, Finalizing, Freeing
<1> HIDE DEF f
<1>3. Pushed(f)
  BY <1>1, <1>2, PushedByAppend, Types
<1>4. /\ \A i \in 1..Len(stack') :
           stack'[i].pc \in Constructing \cup Finalizing \cup Freeing =>
             i \in 1..Len(stack) /\ stack'[i] = stack[i]
      /\ \A i \in 1..Len(stack) : i \in 1..Len(stack') /\ stack'[i] = stack[i]
  BY <1>2, <1>3 DEF Pushed
<1>5. TypeOK'
  BY <1>1, <1>3 DEF Pushed, Structure, TypeOK
<1>6. ConstructionSound'
  BY <1>1, <1>4, Parts DEF ConstructionSound
<1>7. FinalizationSound' /\ OneLoop' /\ QueueSound' /\ BoundSound'
  BY <1>1, <1>4, Parts DEF FinalizationSound, OneLoop, QueueSound, BoundSound, Alive
<1>8. GarbageSound'
  <2>1. \A w \in Wrappers : Pinned(w)' => Pinned(w)
    BY <1>4 DEF Pinned, Constructing
  <2>2. QED BY <1>1, <2>1, Parts, Types DEF GarbageSound
<1>9. QED BY <1>5, <1>6, <1>7, <1>8 DEF Structure

LEMMA RunGCKeeps ==
  ASSUME Structure, NEW S \in SUBSET Collectable, RunGC(S)
  PROVE  Structure'
<1> DEFINE f == [pc |-> "gc"]
<1>1. /\ phase = "none" /\ garbage' = S /\ phase' = "cycles"
      /\ stack' = Append(stack, f)
      /\ UNCHANGED <<cache, status, udata, native, script, zeroRefs, env, calls>>
  BY DEF RunGC
<1>2. f \in Frame /\ f.pc = "gc"
  BY FrameKinds
<1> HIDE DEF f
<1>3. Pushed(f)
  BY <1>1, <1>2, PushedByAppend, Types
<1>4. /\ \A i \in 1..Len(stack') :
           stack'[i].pc \in Constructing \cup Finalizing =>
             i \in 1..Len(stack) /\ stack'[i] = stack[i]
      /\ \A i \in 1..Len(stack) : i \in 1..Len(stack') /\ stack'[i] = stack[i]
  BY <1>2, <1>3 DEF Pushed, Constructing, Finalizing
<1>5. S \subseteq Wrappers /\ \A w \in S : status[w] = "bound" /\ ~Pinned(w)
  BY DEF Collectable
<1>6. TypeOK'
  BY <1>1, <1>3, <1>5 DEF Pushed, Structure, TypeOK
<1>7. ConstructionSound'
  BY <1>1, <1>4, Parts DEF ConstructionSound
<1>8. FinalizationSound' /\ QueueSound' /\ BoundSound'
  BY <1>1, <1>4, Parts DEF FinalizationSound, QueueSound, BoundSound, Alive
<1>9. OneLoop'
  <2>1. \A i \in 1..Len(stack) : stack[i].pc \notin Freeing
    BY <1>1, Parts DEF OneLoop
  <2>2. \A i \in 1..Len(stack') : stack'[i].pc \in Freeing =>
          i = Len(stack) + 1 /\ stack'[i].pc = "gc"
    BY <1>2, <1>3, <2>1 DEF Pushed
  <2>3. QED BY <1>1, <2>2 DEF OneLoop
<1>10. GarbageSound'
  <2>1. \A w \in Wrappers : Pinned(w)' => Pinned(w)
    BY <1>4 DEF Pinned, Constructing
  <2>2. QED BY <1>1, <1>5, <2>1 DEF GarbageSound
<1>11. QED BY <1>6, <1>7, <1>8, <1>9, <1>10 DEF Structure

LEMMA ConstructKeeps ==
  ASSUME Structure, NEW w \in Wrappers, NEW T \in Registered, Construct(w, T)
  PROVE  Structure'
<1> DEFINE f == [pc |-> "init", w |-> w, T |-> T]
<1>1. /\ status[w] = "free" /\ native[w] = 0
      /\ status' = [status EXCEPT ![w] = "blank"]
      /\ calls' = [calls EXCEPT ![w] = NoCalls]
      /\ stack' = Append(stack, f)
      /\ UNCHANGED <<cache, udata, native, script, zeroRefs, garbage, phase, env>>
  BY DEF Construct, Fresh
<1>2. f \in Frame /\ f.pc = "init" /\ f.w = w
  BY FrameKinds
<1> HIDE DEF f
<1>3. Pushed(f)
  BY <1>1, <1>2, PushedByAppend, Types
<1>4. /\ \A i \in 1..Len(stack') :
           \/ i \in 1..Len(stack) /\ stack'[i] = stack[i]
           \/ i = Len(stack) + 1 /\ stack'[i].pc = "init" /\ stack'[i].w = w
      /\ \A i \in 1..Len(stack) : i \in 1..Len(stack') /\ stack'[i] = stack[i]
      /\ Len(stack) + 1 \in 1..Len(stack')
  BY <1>2, <1>3, Types DEF Pushed
<1>5. status'[w] = "blank" /\ \A v \in Wrappers : v # w => status'[v] = status[v]
  BY <1>1, Types
<1>6. \A i \in 1..Len(stack) : stack[i].pc \in Constructing \cup Finalizing =>
        stack[i].w \in Wrappers /\ stack[i].w # w
  BY <1>1, Parts, Types DEF ConstructionSound, FinalizationSound
<1>7. TypeOK'
  <2>1. NoCalls \in Calls
    BY DEF NoCalls, Calls
  <2>2. QED BY <1>1, <1>3, <2>1 DEF Pushed, Structure, TypeOK
<1>8. ConstructionSound'
  <2>1. \A i \in 1..Len(stack') : stack'[i].pc \in Constructing =>
          /\ status'[stack'[i].w] = IF stack'[i].pc = "init" THEN "blank" ELSE "bound"
          /\ native'[stack'[i].w] < MaxRefs
          /\ \A j \in 1..Len(stack') :
               stack'[j].pc \in Constructing /\ stack'[j].w = stack'[i].w => j = i
    <3>1. TAKE i \in 1..Len(stack')
    <3>2. HAVE stack'[i].pc \in Constructing
    <3>3. CASE i \in 1..Len(stack) /\ stack'[i] = stack[i]
      BY <1>1, <1>4, <1>5, <1>6, <3>2, <3>3, Parts DEF ConstructionSound
    <3>4. CASE i = Len(stack) + 1 /\ stack'[i].pc = "init" /\ stack'[i].w = w
      BY <1>1, <1>4, <1>5, <1>6, <3>4, Types
    <3>5. QED BY <1>4, <3>3, <3>4
  <2>2. \A v \in Wrappers : status'[v] = "blank" =>
          \E i \in 1..Len(stack') : stack'[i].pc = "init" /\ stack'[i].w = v
    <3>1. TAKE v \in Wrappers
    <3>2. CASE v = w
      BY <1>2, <1>3, <1>4, <3>2 DEF Pushed
    <3>3. CASE v # w
      BY <1>4, <1>5, <3>3, Parts DEF ConstructionSound
    <3>4. QED BY <3>2, <3>3
  <2>3. QED BY <2>1, <2>2 DEF ConstructionSound
<1>9. FinalizationSound'
  BY <1>4, <1>5, <1>6, Parts DEF FinalizationSound, Finalizing
<1>10. OneLoop'
  BY <1>1, <1>4, Parts DEF OneLoop, Freeing
<1>11. QueueSound' /\ BoundSound'
  BY <1>1, <1>5, Parts, Types DEF QueueSound, BoundSound, Alive
<1>12. GarbageSound'
  <2>1. \A v \in Wrappers : Pinned(v)' => Pinned(v) \/ v = w
    BY <1>4 DEF Pinned
  <2>2. QED BY <1>1, <1>5, <2>1, Parts, Types DEF GarbageSound
<1>13. QED BY <1>7, <1>8, <1>9, <1>10, <1>11, <1>12 DEF Structure

\* BindAndAddToCache, from PushNativeObject or when Initialize returned.
LEMMA BindKeeps ==
  ASSUME Structure, stack # << >>, NEW w \in Wrappers, NEW C \in Classes, NEW p \in Ptrs,
         NEW own \in BOOLEAN, NEW throws \in BOOLEAN,
         BindAndAddToCache(w, C, p, own, throws),
         \/ Top.pc = "create" /\ status[w] = "free"
         \/ Top.pc = "init" /\ Top.w = w,
         native[w] < MaxRefs,
         UNCHANGED <<native, script, zeroRefs, garbage, phase, env>>,
         calls' \in [Wrappers -> Calls]
  PROVE  Structure'
<1> DEFINE f == [pc |-> IF C \in Traced THEN "enter" ELSE "added", w |-> w,
                 cell |-> IF cache[p] = << >> THEN "entry" ELSE "heap", throws |-> throws]
           u == [typeInfo |-> C, ptr |-> p, callFinalize |-> own]
           n == [TypeId |-> C, Value |-> w, UserData |-> Nobody]
<1>1. /\ status' = [status EXCEPT ![w] = "bound"]
      /\ udata' = [udata EXCEPT ![w] = u]
      /\ cache' = [cache EXCEPT ![p] = AddNode(cache[p], n)]
      /\ stack' = Becomes(f)
  BY Types DEF BindAndAddToCache
<1>2. f \in Frame /\ f.pc \in {"enter", "added"} /\ f.w = w
  BY FrameKinds
<1>3. u \in ObjectUserData /\ n \in Node
  BY DEF ObjectUserData, Node, UserData
<1> HIDE DEF f, u, n
<1>4. Turned(f)
  BY <1>1, <1>2, TurnedByBecomes, Types
<1>5. Len(stack) \in 1..Len(stack) /\ Top = stack[Len(stack)]
  BY TopFrame, Types
<1>6. /\ status[w] \in {"free", "blank"}
      /\ \A i \in 1..Len(stack) : i # Len(stack) /\ stack[i].pc \in Constructing \cup Finalizing =>
           stack[i].w \in Wrappers /\ stack[i].w # w
  <2>1. CASE Top.pc = "create" /\ status[w] = "free"
    BY <2>1, Parts, Types DEF ConstructionSound, FinalizationSound
  <2>2. CASE Top.pc = "init" /\ Top.w = w
    BY <1>5, <2>2, Parts, Types DEF ConstructionSound, FinalizationSound, Constructing
  <2>3. QED BY <2>1, <2>2
<1>7. /\ \A i \in 1..Len(stack') : i \in 1..Len(stack) /\
           \/ i # Len(stack) /\ stack'[i] = stack[i]
           \/ i = Len(stack) /\ stack'[i].pc \in {"enter", "added"} /\ stack'[i].w = w
      /\ \A i \in 1..Len(stack) : i # Len(stack) => i \in 1..Len(stack') /\ stack'[i] = stack[i]
  BY <1>2, <1>4 DEF Turned
<1>8. status'[w] = "bound" /\ \A v \in Wrappers : v # w => status'[v] = status[v]
  BY <1>1, Types
<1>9. TypeOK'
  <2>1. AddNode(cache[p], n) \in Seq(Node)
    BY <1>3, AddNodeFacts, Types
  <2>2. cache' \in [Ptrs -> Seq(Node)]
    BY <1>1, <2>1, Types
  <2>3. udata' \in [Wrappers -> ObjectUserData \cup {Nobody}]
    BY <1>1, <1>3, Types
  <2>4. QED BY <1>1, <1>4, <2>2, <2>3, Types DEF Turned, TypeOK
<1>10. ConstructionSound'
  <2>1. \A i \in 1..Len(stack') : stack'[i].pc \in Constructing =>
          /\ status'[stack'[i].w] = IF stack'[i].pc = "init" THEN "blank" ELSE "bound"
          /\ native'[stack'[i].w] < MaxRefs
          /\ \A j \in 1..Len(stack') :
               stack'[j].pc \in Constructing /\ stack'[j].w = stack'[i].w => j = i
    <3>1. TAKE i \in 1..Len(stack')
    <3>2. HAVE stack'[i].pc \in Constructing
    <3>3. CASE i # Len(stack) /\ stack'[i] = stack[i]
      BY <1>6, <1>7, <1>8, <3>2, <3>3, Parts DEF ConstructionSound
    <3>4. CASE i = Len(stack) /\ stack'[i].pc \in {"enter", "added"} /\ stack'[i].w = w
      BY <1>6, <1>7, <1>8, <3>4
    <3>5. QED BY <1>7, <3>3, <3>4
  <2>2. \A v \in Wrappers : status'[v] = "blank" =>
          \E i \in 1..Len(stack') : stack'[i].pc = "init" /\ stack'[i].w = v
    <3>1. TAKE v \in Wrappers
    <3>2. HAVE status'[v] = "blank"
    <3>3. v # w /\ status[v] = "blank"
      BY <1>8, <3>2
    <3>4. PICK i \in 1..Len(stack) : stack[i].pc = "init" /\ stack[i].w = v
      BY <3>3, Parts DEF ConstructionSound
    <3>5. i # Len(stack)
      BY <1>5, <3>3, <3>4
    <3>6. QED BY <1>7, <3>4, <3>5
  <2>3. QED BY <2>1, <2>2 DEF ConstructionSound
<1>11. FinalizationSound'
  BY <1>6, <1>7, <1>8, Parts DEF FinalizationSound, Finalizing
<1>12. OneLoop'
  BY <1>7, Parts DEF OneLoop, Freeing
<1>13. QueueSound'
  BY <1>6, <1>8, Parts, Types DEF QueueSound
<1>14. BoundSound'
  BY <1>1, <1>3, <1>8, Parts, Types DEF BoundSound, Alive
<1>15. GarbageSound'
  <2>1. \A v \in Wrappers : Pinned(v)' => Pinned(v) \/ v = w
    BY <1>7 DEF Pinned
  <2>2. QED BY <1>6, <1>8, <2>1, Parts, Types DEF GarbageSound
<1>16. QED BY <1>9, <1>10, <1>11, <1>12, <1>13, <1>14, <1>15 DEF Structure

LEMMA PushCreateKeeps ==
  ASSUME Structure, NEW w \in Wrappers, PushCreate(w)
  PROVE  Structure'
<1>1. stack # << >> /\ Top.pc = "create" /\ status[w] = "free" /\ native[w] < MaxRefs
  BY Types DEF PushCreate, At, Fresh
<1>2. Top.T \in TypeIds /\ Top.p \in Ptrs /\ Top.own \in BOOLEAN
  BY <1>1, TopFrame, FrameFields, Types
<1>3. ClassOf(Top.T) \in Classes
  BY <1>2 DEF ClassOf, Classes
<1>4. calls' \in [Wrappers -> Calls]
  <2>1. [NoCalls EXCEPT !.enter = IF ClassOf(Top.T) \in Traced THEN 1 ELSE 0] \in Calls
    BY DEF NoCalls, Calls
  <2>2. QED BY <2>1, Types DEF PushCreate
<1>5. QED BY <1>1, <1>2, <1>3, <1>4, BindKeeps DEF PushCreate

LEMMA InitializeReturnsKeeps ==
  ASSUME Structure, NEW p \in Ptrs, NEW throws \in BOOLEAN, InitializeReturns(p, throws)
  PROVE  Structure'
<1>1. stack # << >> /\ Top.pc = "init"
  BY DEF InitializeReturns, At
<1>2. Top.w \in Wrappers /\ Top.T \in Classes
  BY <1>1, TopFrame, FrameFields, Types DEF Classes, Constructing
<1>3. native[Top.w] < MaxRefs
  BY <1>1, TopFrame, Parts, Types DEF ConstructionSound, Constructing
<1>4. calls' \in [Wrappers -> Calls]
  <2>1. [calls[Top.w] EXCEPT !.enter = IF Top.T \in Traced THEN 1 ELSE 0] \in Calls
    <3>1. \A c \in Calls, e \in 0..2 : [c EXCEPT !.enter = e] \in Calls
      BY DEF Calls
    <3> DEFINE c == calls[Top.w]
               e == IF Top.T \in Traced THEN 1 ELSE 0
    <3>2. c \in Calls /\ e \in 0..2
      BY <1>2, Types
    <3> HIDE DEF c, e
    <3>3. [c EXCEPT !.enter = e] \in Calls
      BY <3>1, <3>2
    <3>4. QED BY <3>3 DEF c, e
  <2>2. calls' = [calls EXCEPT ![Top.w] = [calls[Top.w] EXCEPT !.enter = IF Top.T \in Traced THEN 1 ELSE 0]]
    BY <1>2, Types DEF InitializeReturns
  <2>3. QED BY <1>2, <2>1, <2>2, Types
<1>5. QED BY <1>1, <1>2, <1>3, <1>4, BindKeeps DEF InitializeReturns

LEMMA StoreUserDataFacts ==
  ASSUME Structure, NEW w \in Wrappers, Alive(w), NEW cell
  PROVE  /\ StoreUserData(w, cell) \in [Ptrs -> Seq(Node)]
         /\ \A p \in Ptrs : /\ Len(StoreUserData(w, cell)[p]) = Len(cache[p])
                            /\ \A i \in 1..Len(cache[p]) :
                                 /\ StoreUserData(w, cell)[p][i].TypeId = cache[p][i].TypeId
                                 /\ StoreUserData(w, cell)[p][i].Value = cache[p][i].Value
<1> DEFINE q == udata[w].ptr
           s == cache[q]
           t == [i \in 1..Len(s) |->
                   IF IF cell = "entry" THEN i = 1 ELSE i > 1 /\ s[i].Value = w
                   THEN [TypeId |-> s[i].TypeId, Value |-> s[i].Value, UserData |-> w] ELSE s[i]]
<1>1. q \in Ptrs
  BY Parts DEF BoundSound, ObjectUserData
<1>2. s \in Seq(Node) /\ Len(s) \in Nat /\ \A i \in 1..Len(s) : s[i] \in Node
  BY <1>1, Types
<1>3. StoreUserData(w, cell) = [cache EXCEPT ![q] = t]
  BY DEF StoreUserData
<1> HIDE DEF q, s
<1>4. \A i \in 1..Len(s) :
        [TypeId |-> s[i].TypeId, Value |-> s[i].Value, UserData |-> w] \in Node
  BY <1>2 DEF Node, UserData
<1>5. \A i \in 1..Len(s) : t[i] \in Node /\ t[i].TypeId = s[i].TypeId /\ t[i].Value = s[i].Value
  BY <1>2, <1>4
<1>6. t \in [1..Len(s) -> Node]
  BY <1>5
<1> HIDE DEF t
<1>7. t \in Seq(Node) /\ Len(t) = Len(s)
  BY <1>2, <1>6
<1>8. QED BY <1>1, <1>3, <1>5, <1>7, Types DEF s

LEMMA ConstructedKeeps ==
  ASSUME Structure, Constructed
  PROVE  Structure'
<1> DEFINE w == Top.w
<1>1. stack # << >> /\ Top.pc \in {"enter", "added"}
  BY DEF Constructed, At
<1>2. /\ w \in Wrappers
      /\ Len(stack) \in 1..Len(stack) /\ Top = stack[Len(stack)] /\ Top.pc \in Constructing
  BY <1>1, TopFrame, FrameFields, Types DEF Constructing
<1>3. status[w] = "bound" /\ native[w] < MaxRefs /\ Alive(w)
  BY <1>1, <1>2, Parts DEF ConstructionSound, Alive
<1>4. UNCHANGED <<udata, script, garbage, env, calls>>
  BY DEF Constructed
<1>5. cache' \in [Ptrs -> Seq(Node)]
  <2>1. cache' = IF Top.pc = "enter" THEN StoreUserData(w, Top.cell) ELSE cache
    BY DEF Constructed
  <2>2. StoreUserData(w, Top.cell) \in [Ptrs -> Seq(Node)]
    BY <1>2, <1>3, StoreUserDataFacts
  <2>3. QED BY <2>1, <2>2, Types
<1>6. script' \in [Wrappers -> {"none", "root", "cycle"}]
  BY <1>4, Types
<1>7. /\ Remains(Caller)
      /\ \A i \in 1..Len(Caller) : i # Len(stack)
  <2>1. PICK n \in Nat : /\ Len(stack) = n + 1
                         /\ Caller \in Seq(Frame) /\ Len(Caller) = n
                         /\ \A i \in 1..n : Caller[i] = stack[i]
    BY <1>1, PopFacts, Types DEF Caller
  <2>2. QED BY <1>1, <1>2, <2>1 DEF Remains
<1>8. \A i \in 1..Len(Caller) : Caller[i].pc \in Constructing =>
        /\ Caller[i].w # w
        /\ native[Caller[i].w] < MaxRefs
  <2>1. \A i \in 1..Len(Caller) : i \in 1..Len(stack) /\ i # Len(stack) /\ Caller[i] = stack[i]
    BY <1>7, Types DEF Remains
  <2>2. QED BY <1>2, <2>1, Parts DEF ConstructionSound
<1>9. CASE ~Top.throws
  <2>1. native' = [native EXCEPT ![w] = @ + 1] /\ stack' = Caller
        /\ UNCHANGED <<status, zeroRefs, phase>>
    BY <1>9 DEF Constructed
  <2>2. native' \in [Wrappers -> 0..MaxRefs] /\ \A v \in Wrappers : v # w => native'[v] = native[v]
    BY <1>2, <1>3, <2>1, Types
  <2>3. \A v \in Wrappers : Pinned(v)' => v # w /\ native[v] < MaxRefs
    BY <1>8, <2>1 DEF Pinned, Constructing
  <2>4. QED BY <1>4, <1>5, <1>6, <1>7, <2>1, <2>2, <2>3, CountingKeeps
<1>10. CASE Top.throws
  <2>1. native' = native
    BY <1>10 DEF Constructed
  <2>2. native' \in [Wrappers -> 0..MaxRefs] /\ \A v \in Wrappers : native'[v] <= native[v]
    BY <2>1, Types
  <2>3. CASE native[w] = 0 /\ script[w] = "none"
    <3>1. LastRefGone(w, Caller)
      BY <1>10, <2>3 DEF Constructed
    <3>2. QED BY <1>2, <1>3, <1>4, <1>5, <1>6, <1>7, <1>8, <2>2, <3>1, LastRefGoneKeeps
  <2>4. CASE ~(native[w] = 0 /\ script[w] = "none")
    <3>1. stack' = Caller /\ UNCHANGED <<status, zeroRefs, phase>>
      BY <1>10, <2>4 DEF Constructed
    <3>2. \A v \in Wrappers : Pinned(v)' => native'[v] < MaxRefs
      BY <1>8, <2>1, <3>1 DEF Pinned, Constructing
    <3>3. QED BY <1>4, <1>5, <1>6, <1>7, <2>2, <3>1, <3>2, CountingKeeps
  <2>5. QED BY <2>3, <2>4
<1>11. QED BY <1>9, <1>10

\* PApiObjectFinalizer starts on an object one of the two loops took.
LEMMA StartFinalizerKeeps ==
  ASSUME Structure, NEW w \in Wrappers, StartFinalizer(w),
         status[w] \in {"queued", "bound"}, ~Pinned(w),
         UNCHANGED <<cache, udata, native, phase, env>>,
         zeroRefs' \in Seq(Wrappers), Distinct(zeroRefs)',
         \A k \in 1..Len(zeroRefs') :
           zeroRefs'[k] # w /\ \E i \in 1..Len(zeroRefs) : zeroRefs[i] = zeroRefs'[k],
         garbage' \subseteq garbage, w \notin garbage'
  PROVE  Structure'
<1> DEFINE hook == udata[w].callFinalize /\ udata[w].typeInfo \in Finalizable
           f == [pc |-> IF hook THEN "finalize" ELSE "remove", w |-> w]
<1>1. /\ status' = [status EXCEPT ![w] = "dying"]
      /\ script' = [script EXCEPT ![w] = "none"]
      /\ stack' = Append(stack, f)
      /\ calls' = [calls EXCEPT ![w].fin = IF hook THEN Once(@) ELSE @]
  BY DEF StartFinalizer
<1>2. f \in Frame /\ f.pc \in {"finalize", "remove"} /\ f.w = w
  BY FrameKinds
<1> HIDE DEF f
<1>3. Pushed(f)
  BY <1>1, <1>2, PushedByAppend, Types
<1>4. /\ \A i \in 1..Len(stack') :
           \/ i \in 1..Len(stack) /\ stack'[i] = stack[i]
           \/ i = Len(stack) + 1 /\ stack'[i].pc \in {"finalize", "remove"} /\ stack'[i].w = w
      /\ \A i \in 1..Len(stack) : i \in 1..Len(stack') /\ stack'[i] = stack[i]
  BY <1>2, <1>3 DEF Pushed
<1>5. status'[w] = "dying" /\ \A v \in Wrappers : v # w => status'[v] = status[v]
  BY <1>1, Types
<1>6. \A i \in 1..Len(stack) : stack[i].pc \in Constructing \cup Finalizing =>
        stack[i].w \in Wrappers /\ stack[i].w # w
  BY Parts, Types DEF FinalizationSound, Pinned, Constructing
<1>7. TypeOK'
  <2>1. calls' \in [Wrappers -> Calls]
    <3>1. \A c \in Calls, e \in 0..2 : [c EXCEPT !.fin = e] \in Calls
      BY DEF Calls
    <3> DEFINE c == calls[w]
               e == IF hook THEN Once(c.fin) ELSE c.fin
    <3>2. c \in Calls
      BY Types
    <3> HIDE DEF c, hook
    <3>3. e \in 0..2
      BY <3>2 DEF Once, Calls
    <3>4. calls' = [calls EXCEPT ![w] = [c EXCEPT !.fin = e]]
      BY <1>1 DEF c
    <3> HIDE DEF e
    <3>5. [c EXCEPT !.fin = e] \in Calls
      BY <3>1, <3>2, <3>3
    <3>6. QED BY <3>4, <3>5, Types
  <2>2. QED BY <1>1, <1>3, <2>1, Types DEF Pushed, TypeOK
<1>8. ConstructionSound'
  <2>1. \A i \in 1..Len(stack') : stack'[i].pc \in Constructing =>
          i \in 1..Len(stack) /\ stack'[i] = stack[i] /\ stack[i].w # w
    BY <1>4, <1>6 DEF Constructing
  <2>2. \A i \in 1..Len(stack') : stack'[i].pc \in Constructing =>
          /\ status'[stack'[i].w] = IF stack'[i].pc = "init" THEN "blank" ELSE "bound"
          /\ native'[stack'[i].w] < MaxRefs
          /\ \A j \in 1..Len(stack') :
               stack'[j].pc \in Constructing /\ stack'[j].w = stack'[i].w => j = i
    <3>1. ConstructionSound /\ native' = native
      BY Parts DEF StartFinalizer
    <3>2. ASSUME NEW i \in 1..Len(stack'), stack'[i].pc \in Constructing
          PROVE  /\ status'[stack'[i].w] = IF stack'[i].pc = "init" THEN "blank" ELSE "bound"
                 /\ native'[stack'[i].w] < MaxRefs
      <4>1. i \in 1..Len(stack) /\ stack'[i] = stack[i] /\ stack[i].w \in Wrappers \ {w}
        BY <1>6, <2>1, <3>2
      <4>2. status'[stack[i].w] = status[stack[i].w]
        BY <1>5, <4>1
      <4>3. QED BY <3>1, <3>2, <4>1, <4>2 DEF ConstructionSound
    <3>3. ASSUME NEW i \in 1..Len(stack'), NEW j \in 1..Len(stack'),
                 stack'[i].pc \in Constructing, stack'[j].pc \in Constructing,
                 stack'[j].w = stack'[i].w
          PROVE  j = i
      <4>1. /\ i \in 1..Len(stack) /\ stack'[i] = stack[i]
            /\ j \in 1..Len(stack) /\ stack'[j] = stack[j]
        BY <2>1, <3>3
      <4>2. QED BY <3>1, <3>3, <4>1 DEF ConstructionSound
    <3>4. QED BY <3>2, <3>3
  <2>3. \A v \in Wrappers : status'[v] = "blank" =>
          \E i \in 1..Len(stack') : stack'[i].pc = "init" /\ stack'[i].w = v
    BY <1>4, <1>5, Parts DEF ConstructionSound
  <2>4. QED BY <2>2, <2>3 DEF ConstructionSound
<1>9. FinalizationSound'
  <2>1. SUFFICES ASSUME NEW i \in 1..Len(stack'), stack'[i].pc \in Finalizing
                 PROVE  /\ status'[stack'[i].w] = "dying"
                        /\ \A j \in 1..Len(stack') :
                             stack'[j].pc \in Finalizing /\ stack'[j].w = stack'[i].w => j = i
    BY DEF FinalizationSound
  <2>2. stack'[i].pc \in Finalizing
    BY <2>1
  <2>3. CASE i \in 1..Len(stack) /\ stack'[i] = stack[i]
    BY <1>4, <1>5, <1>6, <2>2, <2>3, Parts DEF FinalizationSound
  <2>4. CASE i = Len(stack) + 1 /\ stack'[i].w = w
    BY <1>4, <1>5, <1>6, <2>4
  <2>5. QED BY <1>4, <2>3, <2>4
<1>10. OneLoop'
  BY <1>4, Parts DEF OneLoop, Freeing
<1>11. QueueSound'
  <2>1. \A k \in 1..Len(zeroRefs') : zeroRefs'[k] \in Wrappers /\ status[zeroRefs'[k]] = "queued"
    BY Parts DEF QueueSound
  <2>2. \A k \in 1..Len(zeroRefs') : status'[zeroRefs'[k]] = "queued"
    BY <1>5, <2>1
  <2>3. QED BY <2>2 DEF QueueSound, Distinct
<1>12. BoundSound'
  BY <1>5, Parts DEF BoundSound, Alive
<1>13. GarbageSound'
  <2>1. \A v \in Wrappers : Pinned(v)' => Pinned(v)
    BY <1>4 DEF Pinned
  <2>2. QED BY <1>5, <2>1, Parts, Types DEF GarbageSound
<1>14. QED BY <1>7, <1>8, <1>9, <1>10, <1>11, <1>12, <1>13 DEF Structure

LEMMA FreeNextKeeps ==
  ASSUME Structure, FreeNext
  PROVE  Structure'
<1> DEFINE w == Head(zeroRefs)
<1>1. /\ zeroRefs # << >> /\ StartFinalizer(w) /\ zeroRefs' = Tail(zeroRefs)
      /\ UNCHANGED <<cache, udata, native, garbage, phase, env>>
  BY DEF FreeNext
<1>2. PICK n \in Nat : Len(zeroRefs) = n + 1
  BY <1>1, PopFacts, Types
<1>3. /\ w = zeroRefs[1] /\ w \in Wrappers
      /\ zeroRefs' \in Seq(Wrappers) /\ Len(zeroRefs') = n
      /\ \A k \in 1..n : zeroRefs'[k] = zeroRefs[k + 1]
  BY <1>1, <1>2, Types
<1>4. \A k, l \in 1..Len(zeroRefs) : zeroRefs[l] = zeroRefs[k] => l = k
  BY Parts DEF QueueSound
<1>5. status[w] = "queued"
  BY <1>2, <1>3, Parts DEF QueueSound
<1>6. ~Pinned(w) /\ w \notin garbage
  BY <1>5, Parts DEF ConstructionSound, Constructing, Pinned, GarbageSound
<1>7. \A k \in 1..Len(zeroRefs') :
        zeroRefs'[k] # w /\ \E i \in 1..Len(zeroRefs) : zeroRefs[i] = zeroRefs'[k]
  <2>1. \A k \in 1..n : k + 1 \in 1..Len(zeroRefs) /\ k + 1 # 1
    BY <1>2
  <2>2. 1 \in 1..Len(zeroRefs)
    BY <1>2
  <2>3. QED BY <1>3, <1>4, <2>1, <2>2
<1>8. Distinct(zeroRefs)'
  BY <1>2, <1>3, <1>4 DEF Distinct
<1>9. QED BY <1>1, <1>3, <1>5, <1>6, <1>7, <1>8, StartFinalizerKeeps

LEMMA CollectNextKeeps ==
  ASSUME Structure, NEW w \in Wrappers, CollectNext(w)
  PROVE  Structure'
<1>1. /\ w \in garbage /\ StartFinalizer(w) /\ garbage' = garbage \ {w}
      /\ UNCHANGED <<cache, udata, native, zeroRefs, phase, env>>
  BY DEF CollectNext
<1>2. status[w] = "bound" /\ ~Pinned(w)
  BY <1>1, Parts DEF GarbageSound
<1>3. /\ zeroRefs' \in Seq(Wrappers) /\ Distinct(zeroRefs)'
      /\ \A k \in 1..Len(zeroRefs') :
           zeroRefs'[k] # w /\ \E i \in 1..Len(zeroRefs) : zeroRefs[i] = zeroRefs'[k]
  BY <1>1, <1>2, Parts, Types DEF QueueSound, Distinct
<1>4. QED BY <1>1, <1>2, <1>3, StartFinalizerKeeps

\* A loop of the engine, or a finalizer, returns.
LEMMA ReturnKeeps ==
  ASSUME Structure, stack # << >>, Top.pc \in Finalizing \cup Freeing, stack' = Caller,
         UNCHANGED <<native, script, zeroRefs, garbage, calls>>,
         cache' \in [Ptrs -> Seq(Node)],
         udata' \in [Wrappers -> ObjectUserData \cup {Nobody}],
         env' \in {"running", "cleaning", "closing", "freed"},
         phase' = phase \/ (Top.pc \in Freeing /\ garbage = {} /\ phase' = "none"),
         \/ status' = status
         \/ Top.pc \in Finalizing /\ status' = [status EXCEPT ![Top.w] = "free"],
         \A v \in Wrappers : status'[v] # "free" => udata'[v] = udata[v]
  PROVE  Structure'
<1>1. Popped
  BY PoppedByCaller, Types
<1>2. Len(stack) \in 1..Len(stack) /\ Top = stack[Len(stack)] /\ Top \in Frame
  BY TopFrame, Types
<1>3. /\ \A i \in 1..Len(stack') :
           i \in 1..Len(stack) /\ i # Len(stack) /\ stack'[i] = stack[i]
      /\ \A i \in 1..Len(stack) : stack[i].pc \in Constructing =>
           i \in 1..Len(stack') /\ stack'[i] = stack[i]
  BY <1>1, <1>2 DEF Popped, Constructing, Finalizing, Freeing
<1>4. \A v \in Wrappers :
        \/ status'[v] = status[v]
        \/ /\ status[v] = "dying" /\ status'[v] = "free"
           /\ Top.pc \in Finalizing /\ Top.w = v
  <2>1. CASE Top.pc \in Finalizing /\ status' = [status EXCEPT ![Top.w] = "free"]
    <3>1. Top.w \in Wrappers /\ status[Top.w] = "dying"
      BY <1>2, <2>1, Parts, Types DEF FinalizationSound
    <3>2. \A v \in Wrappers : status'[v] = IF v = Top.w THEN "free" ELSE status[v]
      BY <2>1, Types
    <3>3. QED BY <2>1, <3>1, <3>2
  <2>2. CASE status' = status
    BY <2>2
  <2>3. QED BY <2>1, <2>2
<1>5. TypeOK'
  <2>1. status' \in [Wrappers -> {"free", "blank", "bound", "queued", "dying"}]
    BY Types
  <2>2. QED BY <1>1, <2>1, Types DEF Popped, TypeOK
<1>6. ConstructionSound'
  <2>1. \A i \in 1..Len(stack') : stack'[i].pc \in Constructing =>
          /\ status'[stack'[i].w] = IF stack'[i].pc = "init" THEN "blank" ELSE "bound"
          /\ native'[stack'[i].w] < MaxRefs
          /\ \A j \in 1..Len(stack') :
               stack'[j].pc \in Constructing /\ stack'[j].w = stack'[i].w => j = i
    <3>1. TAKE i \in 1..Len(stack')
    <3>2. HAVE stack'[i].pc \in Constructing
    <3>3. /\ i \in 1..Len(stack) /\ stack'[i] = stack[i] /\ stack[i].w \in Wrappers
          /\ status[stack[i].w] = IF stack[i].pc = "init" THEN "blank" ELSE "bound"
          /\ native[stack[i].w] < MaxRefs
      BY <1>3, <3>2, Parts, Types DEF ConstructionSound
    <3>4. status'[stack[i].w] = status[stack[i].w]
      BY <1>4, <3>3
    <3>5. \A j \in 1..Len(stack') :
            stack'[j].pc \in Constructing /\ stack'[j].w = stack'[i].w => j = i
      BY <1>3, <3>2, Parts DEF ConstructionSound
    <3>6. QED BY <3>3, <3>4, <3>5
  <2>2. \A v \in Wrappers : status'[v] = "blank" =>
          \E i \in 1..Len(stack') : stack'[i].pc = "init" /\ stack'[i].w = v
    BY <1>3, <1>4, Parts DEF ConstructionSound, Constructing
  <2>3. QED BY <2>1, <2>2 DEF ConstructionSound
<1>7. FinalizationSound'
  <2>1. \A i \in 1..Len(stack') : stack'[i].pc \in Finalizing =>
          /\ stack'[i].w \in Wrappers /\ status[stack'[i].w] = "dying"
          /\ ~(Top.pc \in Finalizing /\ Top.w = stack'[i].w)
    <3>1. TAKE i \in 1..Len(stack')
    <3>2. HAVE stack'[i].pc \in Finalizing
    <3>3. i \in 1..Len(stack) /\ i # Len(stack) /\ stack'[i] = stack[i]
      BY <1>3
    <3>4. stack[i].w \in Wrappers
      BY <3>2, <3>3, Types
    <3>5. /\ status[stack[i].w] = "dying"
          /\ ~(stack[Len(stack)].pc \in Finalizing /\ stack[Len(stack)].w = stack[i].w)
      BY <1>2, <3>2, <3>3, Parts DEF FinalizationSound
    <3>6. QED BY <1>2, <3>3, <3>4, <3>5
  <2>2. QED BY <1>3, <1>4, <2>1, Parts DEF FinalizationSound
<1>8. OneLoop'
  <2>1. CASE phase' = phase
    BY <1>3, <2>1, Parts DEF OneLoop
  <2>2. CASE Top.pc \in Freeing
    <3>1. \A i \in 1..Len(stack') : stack'[i].pc \notin Freeing
      BY <1>2, <1>3, <2>2, Parts DEF OneLoop
    <3>2. QED BY <3>1 DEF OneLoop
  <2>3. QED BY <2>1, <2>2
<1>9. QueueSound'
  BY <1>4, Parts, Types DEF QueueSound
<1>10. BoundSound'
  BY <1>4, Parts DEF BoundSound, Alive
<1>11. GarbageSound'
  <2>1. \A v \in Wrappers : Pinned(v)' => Pinned(v)
    BY <1>3 DEF Pinned
  <2>2. QED BY <1>4, <2>1, Parts, Types DEF GarbageSound
<1>12. QED BY <1>5, <1>6, <1>7, <1>8, <1>9, <1>10, <1>11 DEF Structure

LEMMA LoopsEndKeeps ==
  ASSUME Structure, FreeDone \/ CollectDone
  PROVE  Structure'
<1>1. CASE FreeDone
  <2>1. stack # << >> /\ Top.pc = "free" /\ Top.pc \in Freeing
    BY <1>1 DEF FreeDone, At, Freeing
  <2>2. phase = "decref"
    BY <2>1, TopFrame, Parts, Types DEF OneLoop
  <2>3. garbage = {}
    BY <2>2, Parts DEF GarbageSound
  <2>4. QED BY <1>1, <2>1, <2>3, ReturnKeeps, Types DEF FreeDone
<1>2. CASE CollectDone
  <2>1. stack # << >> /\ Top.pc \in Freeing /\ garbage = {}
    BY <1>2 DEF CollectDone, At, Freeing
  <2>2. env' \in {"running", "cleaning", "closing", "freed"}
    BY <1>2, Types DEF CollectDone
  <2>3. QED BY <1>2, <2>1, <2>2, ReturnKeeps, Types DEF CollectDone
<1>3. QED BY <1>1, <1>2

LEMMA ObjectFreedKeeps ==
  ASSUME Structure, ObjectFreed
  PROVE  Structure'
<1> DEFINE w == Top.w
           u == udata[w]
<1>1. stack # << >> /\ Top.pc \in Finalizing
  BY DEF ObjectFreed, FinalizerEnds, At, Finalizing
<1>2. w \in Wrappers /\ status[w] = "dying"
  BY <1>1, TopFrame, FrameFields, Parts, Types DEF FinalizationSound
<1>3. u \in ObjectUserData /\ u.ptr \in Ptrs
  BY <1>2, Parts DEF BoundSound, Alive, ObjectUserData
<1>4. /\ cache' = [cache EXCEPT ![u.ptr] = RemoveFirst(cache[u.ptr], u.typeInfo)]
      /\ udata' = [udata EXCEPT ![w] = Nobody]
      /\ status' = [status EXCEPT ![w] = "free"]
      /\ stack' = Caller
      /\ UNCHANGED <<native, script, zeroRefs, garbage, phase, env, calls>>
  BY <1>3, Types DEF ObjectFreed
<1> HIDE DEF u
<1>5. cache' \in [Ptrs -> Seq(Node)]
  <2>1. RemoveFirst(cache[u.ptr], u.typeInfo) \in Seq(Node)
    BY <1>3, RemoveFirstFacts, Types
  <2>2. QED BY <1>4, <2>1, Types
<1>6. udata' \in [Wrappers -> ObjectUserData \cup {Nobody}]
  BY <1>4, Types
<1>7. \A v \in Wrappers : status'[v] # "free" => udata'[v] = udata[v]
  BY <1>2, <1>4, Types
<1>8. QED BY <1>1, <1>4, <1>5, <1>6, <1>7, ReturnKeeps, Types

\* FinalizeReturns, RemoveFromCache.
LEMMA FinalizerKeeps ==
  ASSUME Structure, FinalizeReturns \/ RemoveFromCache
  PROVE  Structure'
<1> DEFINE w == Top.w
<1>1. /\ stack # << >> /\ Top.pc \in Finalizing
      /\ UNCHANGED <<cache, status, udata, native, script, zeroRefs, garbage, phase, env>>
  BY DEF FinalizeReturns, RemoveFromCache, At, Finalizing
<1>2. /\ w \in Wrappers /\ status[w] = "dying"
      /\ Len(stack) \in 1..Len(stack) /\ Top = stack[Len(stack)]
  BY <1>1, TopFrame, FrameFields, Parts, Types DEF FinalizationSound
<1>3. \E f \in Frame : f.pc \in Finalizing /\ f.w = w /\ Turned(f)
  <2>1. CASE FinalizeReturns
    <3> DEFINE f == [pc |-> "remove", w |-> w]
    <3>1. f \in Frame /\ f.pc \in Finalizing /\ f.w = w /\ stack' = Becomes(f)
      BY <1>2, <2>1, FrameKinds DEF FinalizeReturns, Finalizing
    <3> HIDE DEF f
    <3>2. QED BY <1>1, <3>1, TurnedByBecomes, Types
  <2>2. CASE RemoveFromCache
    <3> DEFINE ud == cache[udata[w].ptr][1].UserData
               f == [pc |-> "exit", w |-> w, ud |-> ud]
    <3>1. stack' = Becomes(f) /\ cache[udata[w].ptr] # << >>
      BY <2>2 DEF RemoveFromCache
    <3>2. ud \in UserData
      <4>1. udata[w].ptr \in Ptrs
        BY <1>2, Parts DEF BoundSound, Alive, ObjectUserData
      <4>2. cache[udata[w].ptr] \in Seq(Node)
        BY <4>1, Types
      <4>3. cache[udata[w].ptr][1] \in Node
        BY <3>1, <4>2, EmptySeq
      <4>4. QED BY <4>3 DEF Node
    <3>3. f \in Frame /\ f.pc \in Finalizing /\ f.w = w
      BY <1>2, <3>2, FrameKinds DEF Finalizing
    <3> HIDE DEF f
    <3>4. QED BY <1>1, <3>1, <3>3, TurnedByBecomes, Types
  <2>3. QED BY <2>1, <2>2
<1>4. /\ stack' \in Seq(Frame)
      /\ \A i \in 1..Len(stack') : i \in 1..Len(stack) /\
           \/ stack'[i] = stack[i]
           \/ stack'[i].pc \in Finalizing /\ stack[i].pc \in Finalizing /\ stack'[i].w = stack[i].w
      /\ \A i \in 1..Len(stack) : stack[i].pc \notin Finalizing =>
           i \in 1..Len(stack') /\ stack'[i] = stack[i]
  BY <1>1, <1>2, <1>3 DEF Turned
<1>5. calls' \in [Wrappers -> Calls]
  <2>1. CASE FinalizeReturns
    BY <2>1, Types DEF FinalizeReturns
  <2>2. CASE RemoveFromCache
    <3>1. \A c \in Calls, e \in 0..2 : [c EXCEPT !.exit = e] \in Calls
      BY DEF Calls
    <3> DEFINE c == calls[w]
               e == Once(c.exit)
    <3>2. calls' = [calls EXCEPT ![w] = [c EXCEPT !.exit = e]]
      BY <1>2, <2>2, Types DEF RemoveFromCache
    <3>3. c \in Calls
      BY <1>2, Types
    <3> HIDE DEF c
    <3>4. e \in 0..2
      BY <3>3 DEF Once, Calls
    <3> HIDE DEF e
    <3>5. [c EXCEPT !.exit = e] \in Calls
      BY <3>1, <3>3, <3>4
    <3>6. QED BY <3>2, <3>5, Types
  <2>3. QED BY <2>1, <2>2
<1>6. TypeOK'
  BY <1>1, <1>4, <1>5, Types DEF TypeOK
<1>7. ConstructionSound'
  <2>1. \A i \in 1..Len(stack') : stack'[i].pc \in Constructing =>
          i \in 1..Len(stack) /\ stack'[i] = stack[i]
    BY <1>4 DEF Constructing, Finalizing
  <2>2. \A i \in 1..Len(stack) : stack[i].pc = "init" => i \in 1..Len(stack') /\ stack'[i] = stack[i]
    BY <1>4 DEF Finalizing
  <2>3. QED BY <1>1, <2>1, <2>2, Parts DEF ConstructionSound
<1>8. FinalizationSound'
  BY <1>1, <1>4, Parts DEF FinalizationSound
<1>9. OneLoop'
  <2>1. \A i \in 1..Len(stack') : stack'[i].pc \in Freeing =>
          i \in 1..Len(stack) /\ stack'[i] = stack[i]
    BY <1>4 DEF Freeing, Finalizing
  <2>2. QED BY <1>1, <2>1, Parts DEF OneLoop
<1>10. QueueSound' /\ BoundSound'
  BY <1>1, Parts DEF QueueSound, BoundSound, Alive
<1>11. GarbageSound'
  <2>1. \A v \in Wrappers : Pinned(v)' => Pinned(v)
    BY <1>4 DEF Pinned, Finalizing
  <2>2. QED BY <1>1, <2>1, Parts, Types DEF GarbageSound
<1>12. QED BY <1>6, <1>7, <1>8, <1>9, <1>10, <1>11 DEF Structure

LEMMA CleanupKeeps ==
  ASSUME Structure, Cleanup
  PROVE  Structure'
<1>1. /\ calls' = CleanupCalls /\ env' = "cleaning"
      /\ UNCHANGED <<cache, status, udata, native, script, zeroRefs, garbage, phase, stack>>
  BY DEF Cleanup
<1>2. calls' \in [Wrappers -> Calls]
  <2>1. \A c \in Calls, e \in 0..2 : [c EXCEPT !.exit = e] \in Calls
    BY DEF Calls
  <2>2. ASSUME NEW w \in Wrappers PROVE [calls[w] EXCEPT !.exit = Once(calls[w].exit)] \in Calls
    <3> DEFINE c == calls[w]
               e == Once(c.exit)
    <3>1. c \in Calls
      BY Types
    <3> HIDE DEF c
    <3>2. e \in 0..2
      BY <3>1 DEF Once, Calls
    <3> HIDE DEF e
    <3>3. [c EXCEPT !.exit = e] \in Calls
      BY <2>1, <3>1, <3>2
    <3>4. QED BY <3>3 DEF c, e
  <2>3. CleanupCalls \in [Wrappers -> Calls]
    BY <2>2, Types DEF CleanupCalls
  <2>4. QED BY <1>1, <2>3
<1>3. TypeOK'
  BY <1>1, <1>2, Types DEF TypeOK
<1>4. ConstructionSound' /\ FinalizationSound' /\ OneLoop' /\ QueueSound' /\ GarbageSound' /\ BoundSound'
  BY <1>1, Parts
     DEF ConstructionSound, FinalizationSound, OneLoop, QueueSound, GarbageSound, BoundSound,
         Alive, Pinned
<1>5. QED BY <1>3, <1>4 DEF Structure

LEMMA DestroyKeeps ==
  ASSUME Structure, Destroy
  PROVE  Structure'
<1>1. /\ stack = << >> /\ cache' = [p \in Ptrs |-> << >>]
      /\ garbage' = LeftToCollect /\ phase' = "cycles"
      /\ stack' = << [pc |-> "gc"] >> /\ env' = "closing"
      /\ UNCHANGED <<status, udata, native, script, zeroRefs, calls>>
  BY DEF Destroy
<1>2. /\ stack' \in Seq(Frame) /\ Len(stack') = 1
      /\ \A i \in 1..Len(stack') : i = 1 /\ stack'[i].pc = "gc"
  BY <1>1, FrameKinds
<1>3. garbage' \subseteq Wrappers /\ \A w \in garbage' : status[w] = "bound"
  BY <1>1 DEF LeftToCollect, Collectable
<1>4. TypeOK'
  <2>1. cache' \in [Ptrs -> Seq(Node)]
    BY <1>1
  <2>2. QED BY <1>1, <1>2, <1>3, <2>1, Types DEF TypeOK
<1>5. ConstructionSound'
  BY <1>1, <1>2, Parts DEF ConstructionSound, Constructing
<1>6. FinalizationSound' /\ OneLoop' /\ QueueSound' /\ BoundSound'
  BY <1>1, <1>2, Parts
     DEF FinalizationSound, OneLoop, QueueSound, BoundSound, Alive, Finalizing
<1>7. GarbageSound'
  BY <1>1, <1>2, <1>3 DEF GarbageSound, Pinned
<1>8. QED BY <1>4, <1>5, <1>6, <1>7 DEF Structure

LEMMA IdleKeeps ==
  ASSUME Structure, UNCHANGED vars
  PROVE  Structure'
BY DEF vars, Structure, TypeOK, ConstructionSound, FinalizationSound, OneLoop, QueueSound,
   GarbageSound, BoundSound, Alive, Pinned

LEMMA NextStructure == Structure /\ [Next]_vars => Structure'
<1> SUFFICES ASSUME Structure, [Next]_vars PROVE Structure'
  OBVIOUS
<1>1. ASSUME NEW w \in Wrappers, Release(w) \/ Keep(w) \/ Root(w) \/ LetsGo(w) PROVE Structure'
  BY <1>1, ReleaseKeeps, KeepRootHitKeeps, UnrootKeeps
<1>2. ASSUME NEW T \in TypeIds, NEW p \in Ptrs, PushHit(T, p) PROVE Structure'
  BY <1>2, KeepRootHitKeeps
<1>3. ASSUME NEW T \in TypeIds, NEW p \in Ptrs, NEW own \in BOOLEAN, PushMiss(T, p, own)
      PROVE Structure'
  BY <1>3, PushMissKeeps
<1>4. ASSUME NEW w \in Wrappers, NEW T \in Registered, Construct(w, T) PROVE Structure'
  BY <1>4, ConstructKeeps
<1>5. ASSUME NEW p \in Ptrs, NEW throws \in BOOLEAN, InitializeReturns(p, throws) PROVE Structure'
  BY <1>5, InitializeReturnsKeeps
<1>6. ASSUME NEW S \in SUBSET Collectable, RunGC(S) PROVE Structure'
  BY <1>6, RunGCKeeps
<1>7. ASSUME Cleanup \/ Destroy PROVE Structure'
  BY <1>7, CleanupKeeps, DestroyKeeps
<1>8. ASSUME NEW w \in Wrappers, PushCreate(w) \/ CollectNext(w) PROVE Structure'
  BY <1>8, PushCreateKeeps, CollectNextKeeps
<1>9. ASSUME Constructed \/ FreeNext \/ FreeDone \/ CollectDone PROVE Structure'
  BY <1>9, ConstructedKeeps, FreeNextKeeps, LoopsEndKeeps
<1>10. ASSUME FinalizeReturns \/ RemoveFromCache \/ ObjectFreed PROVE Structure'
  BY <1>10, FinalizerKeeps, ObjectFreedKeeps
<1>11. ASSUME UNCHANGED vars PROVE Structure'
  BY <1>11, IdleKeeps
<1>12. QED
  BY <1>1, <1>2, <1>3, <1>4, <1>5, <1>6, <1>7, <1>8, <1>9, <1>10, <1>11
     DEF Next, Client, Engine, Unroot, ReleaseConstructor, Destroyed

\* Every variable keeps to its type, whatever the client does: no callback, in
\* whatever activation it calls back, makes CppObjectMapper or the freeing loops
\* use data of a wrapper they already freed.
THEOREM TypeCorrect == Spec => []TypeOK
<1>1. Spec => []Structure
  BY InitStructure, NextStructure, PTL DEF Spec
<1>2. Structure => TypeOK
  BY DEF Structure
<1>3. QED BY <1>1, <1>2, PTL

-----------------------------------------------------------------------------
(* The cache is sound, for a client that keeps fresh and quiet. *)

\* Creating a wrapper is the innermost thing the client asked for; only
\* freeing can be going on inside.
LEMMA CreatingOnTop ==
  ASSUME Structure, CreationSound, stack # << >>, Top.pc \notin Finalizing \cup Freeing
  PROVE  \A i \in 1..Len(stack) : i # Len(stack) \/ Top.pc # "create" => stack[i].pc # "create"
<1>1. Len(stack) \in 1..Len(stack) /\ Top = stack[Len(stack)]
  BY TopFrame, Types
<1>2. \A i \in 1..Len(stack) : i # Len(stack) => Len(stack) \in (i + 1)..Len(stack)
  BY Types
<1>3. QED BY <1>1, <1>2 DEF CreationSound

LEMMA ClientNotCreating ==
  ASSUME Structure, CreationSound, "quiet" \in Contract,
         ClientRuns \/ At({"init", "enter", "added"})
  PROVE  \A i \in 1..Len(stack) : stack[i].pc # "create"
<1>1. CASE stack = << >>
  BY <1>1
<1>2. CASE At({"init", "enter", "added"})
  <2>1. Top.pc \notin Finalizing \cup Freeing /\ Top.pc # "create" /\ stack # << >>
    BY <1>2 DEF At, Finalizing, Freeing
  <2>2. QED BY <2>1, CreatingOnTop
<1>3. QED BY <1>1, <1>2 DEF ClientRuns, At

\* Steps that at most free, below an activation that creates.
LEMMA FreeingKeepsCreation ==
  ASSUME Structure, CreationSound, Len(stack') \in Nat,
         \A i \in 1..Len(stack') :
           \/ i \in 1..Len(stack) /\ stack'[i] = stack[i]
           \/ stack'[i].pc \in Finalizing \cup Freeing,
         \A p \in Ptrs, T \in Registered :
           Positions(cache[p], T) = {} => Positions(cache'[p], T) = {}
  PROVE  CreationSound'
<1> SUFFICES ASSUME NEW i \in 1..Len(stack'), stack'[i].pc = "create"
             PROVE  /\ stack'[i].T \in Registered => Positions(cache'[stack'[i].p], stack'[i].T) = {}
                    /\ \A j \in (i + 1)..Len(stack') : stack'[j].pc \in Finalizing \cup Freeing
  BY DEF CreationSound
<1>1. i \in 1..Len(stack) /\ stack'[i] = stack[i]
  BY DEF Finalizing, Freeing
<1>2. stack[i] \in Frame /\ stack[i].p \in Ptrs
  BY <1>1, FrameFields, Types
<1>3. stack'[i].T \in Registered => Positions(cache'[stack'[i].p], stack'[i].T) = {}
  BY <1>1, <1>2 DEF CreationSound
<1>4. \A j \in (i + 1)..Len(stack') : stack'[j].pc \in Finalizing \cup Freeing
  <2>1. TAKE j \in (i + 1)..Len(stack')
  <2>2. j \in 1..Len(stack')
    OBVIOUS
  <2>3. CASE j \in 1..Len(stack) /\ stack'[j] = stack[j]
    <3>1. j \in (i + 1)..Len(stack)
      BY <1>1, <2>3, Types
    <3>2. QED BY <1>1, <2>3, <3>1 DEF CreationSound
  <2>4. QED BY <2>2, <2>3
<1>5. QED BY <1>3, <1>4

\* Steps that leave classes and values of the nodes alone and free no wrapper.
LEMMA SameNodesKeepCache ==
  ASSUME Structure, CacheSound,
         \A p \in Ptrs : /\ Len(cache'[p]) = Len(cache[p])
                        /\ \A i \in 1..Len(cache[p]) :
                             /\ cache'[p][i].TypeId = cache[p][i].TypeId
                             /\ cache'[p][i].Value = cache[p][i].Value,
         \A v \in Wrappers : Alive(v) => Alive(v)' /\ udata'[v] = udata[v]
  PROVE  CacheSound'
<1>1. \A p \in Ptrs : \A i \in 1..Len(cache[p]) :
        cache[p][i].TypeId \in Registered =>
          LET v == cache[p][i].Value
          IN /\ v \in Wrappers /\ Alive(v) /\ udata[v] \in ObjectUserData
             /\ udata[v].ptr = p /\ udata[v].typeInfo = cache[p][i].TypeId
             /\ \A j \in 1..Len(cache[p]) : cache[p][j].TypeId = cache[p][i].TypeId => j = i
  <2>1. \A p \in Ptrs : \A i \in 1..Len(cache[p]) : cache[p][i].Value \in Wrappers
    <3>1. TAKE p \in Ptrs
    <3>2. TAKE i \in 1..Len(cache[p])
    <3>3. cache[p] \in Seq(Node)
      BY Types
    <3>4. cache[p][i] \in Node
      BY <3>3
    <3>5. QED BY <3>4 DEF Node
  <2>2. QED BY <2>1 DEF CacheSound
<1>2. \A v \in Wrappers : Alive(v) => Alive(v)' /\ udata'[v] = udata[v]
  OBVIOUS
<1>3. \A v \in Wrappers : Alive(v) => status'[v] \in {"bound", "queued", "dying"}
  BY DEF Alive
<1>4. ASSUME NEW p \in Ptrs, NEW i \in 1..Len(cache'[p]), cache'[p][i].TypeId \in Registered
      PROVE  /\ status'[cache'[p][i].Value] \in {"bound", "queued", "dying"}
             /\ udata'[cache'[p][i].Value] \in ObjectUserData
             /\ udata'[cache'[p][i].Value].ptr = p
             /\ udata'[cache'[p][i].Value].typeInfo = cache'[p][i].TypeId
             /\ \A j \in 1..Len(cache'[p]) :
                  cache'[p][j].TypeId = cache'[p][i].TypeId => j = i
  <2>1. i \in 1..Len(cache[p]) /\ cache[p][i].TypeId \in Registered
        /\ cache'[p][i].Value = cache[p][i].Value /\ cache'[p][i].TypeId = cache[p][i].TypeId
    BY <1>4
  <2>2. QED BY <1>1, <1>2, <1>3, <2>1
<1>5. QED BY <1>4 DEF CacheSound, Alive

\* What CacheSound says of one node.
NodeSound(p, i) ==
  LET n == cache[p][i]
  IN n.TypeId \in Registered =>
       /\ n.Value \in Wrappers /\ Alive(n.Value)
       /\ udata[n.Value] \in ObjectUserData
       /\ udata[n.Value].ptr = p /\ udata[n.Value].typeInfo = n.TypeId
       /\ \A j \in 1..Len(cache[p]) : cache[p][j].TypeId = n.TypeId => j = i

LEMMA NodesSound ==
  ASSUME Structure, CacheSound
  PROVE  \A p \in Ptrs : \A i \in 1..Len(cache[p]) : NodeSound(p, i)
<1>1. \A p \in Ptrs : \A i \in 1..Len(cache[p]) : cache[p][i].Value \in Wrappers
  <2>1. TAKE p \in Ptrs
  <2>2. TAKE i \in 1..Len(cache[p])
  <2>3. cache[p] \in Seq(Node)
    BY Types
  <2>4. cache[p][i] \in Node
    BY <2>3
  <2>5. QED BY <2>4 DEF Node
<1>2. QED BY <1>1 DEF CacheSound, NodeSound

LEMMA SoundNodes ==
  ASSUME \A p \in Ptrs : \A i \in 1..Len(cache[p]) : NodeSound(p, i)
  PROVE  CacheSound
BY DEF CacheSound, NodeSound

\* A node is added only when its class has none at the address.
LEMMA BindKeepsCache ==
  ASSUME Structure, CacheSound, NEW w \in Wrappers, NEW C \in Classes, NEW p \in Ptrs,
         NEW own \in BOOLEAN, NEW throws \in BOOLEAN,
         BindAndAddToCache(w, C, p, own, throws),
         status[w] \in {"free", "blank"},
         C \in Registered => Positions(cache[p], C) = {}
  PROVE  CacheSound'
<1> DEFINE u == [typeInfo |-> C, ptr |-> p, callFinalize |-> own]
           n == [TypeId |-> C, Value |-> w, UserData |-> Nobody]
           c == cache[p]
<1>1. /\ status' = [status EXCEPT ![w] = "bound"]
      /\ udata' = [udata EXCEPT ![w] = u]
      /\ cache' = [cache EXCEPT ![p] = AddNode(c, n)]
  BY Types DEF BindAndAddToCache
<1>2. /\ u \in ObjectUserData /\ u.ptr = p /\ u.typeInfo = C
      /\ n \in Node /\ n.TypeId = C /\ n.Value = w
  BY DEF ObjectUserData, Node, UserData
<1>3. c \in Seq(Node) /\ \A i \in 1..Len(c) : C \in Registered => c[i].TypeId # C
  BY Types DEF Positions
<1> HIDE DEF u, n, c
<1>4. \A v \in Wrappers : Alive(v) =>
        v # w /\ status'[v] = status[v] /\ udata'[v] = udata[v]
  BY <1>1, Types DEF Alive
<1>5. status'[w] = "bound" /\ udata'[w] = u
  BY <1>1, Types
<1>6. PICK g \in [1..Len(AddNode(c, n)) -> 0..Len(c)] :
        /\ \A i \in 1..Len(AddNode(c, n)) :
             /\ g[i] = 0 => AddNode(c, n)[i] = n
             /\ g[i] # 0 => AddNode(c, n)[i] = c[g[i]]
        /\ \A i, j \in 1..Len(AddNode(c, n)) : g[i] = g[j] => i = j
  BY <1>2, <1>3, AddNodeOrigins
<1>7. cache'[p] = AddNode(c, n) /\ \A q \in Ptrs : q # p => cache'[q] = cache[q]
  BY <1>1, Types
<1>8. ASSUME NEW q \in Ptrs, NEW i \in 1..Len(cache'[q]), cache'[q][i].TypeId \in Registered
      PROVE  /\ status'[cache'[q][i].Value] \in {"bound", "queued", "dying"}
             /\ udata'[cache'[q][i].Value] \in ObjectUserData
             /\ udata'[cache'[q][i].Value].ptr = q
             /\ udata'[cache'[q][i].Value].typeInfo = cache'[q][i].TypeId
             /\ \A j \in 1..Len(cache'[q]) :
                  cache'[q][j].TypeId = cache'[q][i].TypeId => j = i
  <2>1. CASE q # p
    <3>1. cache'[q] = cache[q] /\ NodeSound(q, i)
      BY <1>7, <2>1, NodesSound
    <3>2. QED BY <1>4, <1>8, <3>1 DEF NodeSound, Alive
  <2>2. CASE q = p /\ g[i] = 0
    <3>1. i \in 1..Len(AddNode(c, n)) /\ cache'[q][i] = n /\ C \in Registered
      BY <1>2, <1>6, <1>7, <1>8, <2>2
    <3>2. \A j \in 1..Len(AddNode(c, n)) : g[j] # 0 => AddNode(c, n)[j].TypeId # C
      <4>1. \A j \in 1..Len(AddNode(c, n)) : g[j] # 0 => g[j] \in 1..Len(c)
        BY <1>3, <1>6
      <4>2. QED BY <1>3, <1>6, <3>1, <4>1
    <3>3. \A j \in 1..Len(cache'[q]) : cache'[q][j].TypeId = cache'[q][i].TypeId => j = i
      BY <1>2, <1>6, <1>7, <2>2, <3>1, <3>2
    <3>4. QED BY <1>2, <1>5, <2>2, <3>1, <3>3
  <2>3. CASE q = p /\ g[i] # 0
    <3>1. i \in 1..Len(AddNode(c, n)) /\ g[i] \in 1..Len(c) /\ cache'[q][i] = c[g[i]]
      BY <1>3, <1>6, <1>7, <1>8, <2>3
    <3>2. NodeSound(p, g[i])
      BY <3>1, NodesSound DEF c
    <3>3. c[g[i]].TypeId \in Registered
      BY <1>8, <3>1
    <3>4. /\ c[g[i]].Value \in Wrappers /\ Alive(c[g[i]].Value)
          /\ udata[c[g[i]].Value] \in ObjectUserData
          /\ udata[c[g[i]].Value].ptr = p /\ udata[c[g[i]].Value].typeInfo = c[g[i]].TypeId
          /\ \A k \in 1..Len(c) : c[k].TypeId = c[g[i]].TypeId => k = g[i]
      BY <3>2, <3>3 DEF NodeSound, c
    <3>5. \A j \in 1..Len(cache'[q]) : cache'[q][j].TypeId = cache'[q][i].TypeId => j = i
      <4>1. TAKE j \in 1..Len(cache'[q])
      <4>2. HAVE cache'[q][j].TypeId = cache'[q][i].TypeId
      <4>3. j \in 1..Len(AddNode(c, n)) /\ cache'[q][j] = AddNode(c, n)[j]
        BY <1>7, <2>3
      <4>4. g[j] # 0
        BY <1>2, <1>3, <1>6, <3>1, <3>3, <4>2, <4>3
      <4>5. g[j] \in 1..Len(c) /\ c[g[j]].TypeId = c[g[i]].TypeId
        BY <1>3, <1>6, <3>1, <4>2, <4>3, <4>4
      <4>6. QED BY <1>6, <3>1, <3>4, <4>3, <4>5
    <3>6. QED BY <1>4, <2>3, <3>1, <3>4, <3>5 DEF Alive
  <2>4. QED BY <2>1, <2>2, <2>3
<1>9. QED BY <1>8 DEF CacheSound, Alive

\* The finalizer of w removes w's node: no other node of that class is there.
LEMMA ObjectFreedKeepsCache ==
  ASSUME Structure, CacheSound, ObjectFreed
  PROVE  CacheSound'
<1> DEFINE w == Top.w
           u == udata[w]
           c == cache[u.ptr]
           r == RemoveFirst(c, u.typeInfo)
<1>1. stack # << >> /\ Top.pc \in Finalizing
  BY DEF ObjectFreed, FinalizerEnds, At, Finalizing
<1>2. w \in Wrappers /\ status[w] = "dying"
  <2>1. Top \in Frame /\ Len(stack) \in 1..Len(stack) /\ Top = stack[Len(stack)]
    BY <1>1, TopFrame, Types
  <2>2. QED BY <1>1, <2>1, FrameFields, Parts DEF FinalizationSound
<1>3. u \in ObjectUserData /\ u.ptr \in Ptrs
  BY <1>2, Parts DEF BoundSound, Alive, ObjectUserData
<1>4. /\ cache' = [cache EXCEPT ![u.ptr] = r]
      /\ udata' = [udata EXCEPT ![w] = Nobody]
      /\ status' = [status EXCEPT ![w] = "free"]
  BY <1>3, Types DEF ObjectFreed
<1>5. c \in Seq(Node)
  BY <1>3, Types
<1>6. PICK g \in [1..Len(r) -> 1..Len(c)] :
        /\ \A i \in 1..Len(r) :
             /\ r[i] = c[g[i]]
             /\ Positions(c, u.typeInfo) # {} => g[i] # FirstOf(c, u.typeInfo)
        /\ \A i, j \in 1..Len(r) : g[i] = g[j] => i = j
  BY <1>5, RemoveFirstLeaves
<1>7. cache'[u.ptr] = r /\ \A q \in Ptrs : q # u.ptr => cache'[q] = cache[q]
  BY <1>3, <1>4, Types
<1>8. \A v \in Wrappers : v # w => status'[v] = status[v] /\ udata'[v] = udata[v]
  BY <1>4, Types
<1> HIDE DEF r
<1>9. ASSUME NEW q \in Ptrs, NEW i \in 1..Len(cache'[q]), cache'[q][i].TypeId \in Registered
      PROVE  /\ status'[cache'[q][i].Value] \in {"bound", "queued", "dying"}
             /\ udata'[cache'[q][i].Value] \in ObjectUserData
             /\ udata'[cache'[q][i].Value].ptr = q
             /\ udata'[cache'[q][i].Value].typeInfo = cache'[q][i].TypeId
             /\ \A j \in 1..Len(cache'[q]) :
                  cache'[q][j].TypeId = cache'[q][i].TypeId => j = i
  <2>1. CASE q # u.ptr
    <3>1. cache'[q] = cache[q] /\ NodeSound(q, i)
      BY <1>7, <2>1, NodesSound
    <3>2. cache[q][i].Value # w
      BY <1>9, <2>1, <3>1 DEF NodeSound
    <3>3. QED BY <1>8, <1>9, <3>1, <3>2 DEF NodeSound, Alive
  <2>2. CASE q = u.ptr
    <3>1. i \in 1..Len(r) /\ g[i] \in 1..Len(c) /\ cache'[q][i] = c[g[i]]
      BY <1>6, <1>7, <1>9, <2>2
    <3>2. NodeSound(q, g[i])
      BY <2>2, <3>1, NodesSound
    <3>3. /\ c[g[i]].Value \in Wrappers /\ Alive(c[g[i]].Value)
          /\ udata[c[g[i]].Value] \in ObjectUserData
          /\ udata[c[g[i]].Value].ptr = q /\ udata[c[g[i]].Value].typeInfo = c[g[i]].TypeId
          /\ \A k \in 1..Len(c) : c[k].TypeId = c[g[i]].TypeId => k = g[i]
      BY <1>9, <2>2, <3>1, <3>2 DEF NodeSound
    <3>4. c[g[i]].Value # w
      <4>1. SUFFICES ASSUME c[g[i]].Value = w PROVE FALSE
        OBVIOUS
      <4>2. g[i] \in Positions(c, u.typeInfo)
        BY <3>1, <3>3, <4>1 DEF Positions
      <4>3. FirstOf(c, u.typeInfo) \in Positions(c, u.typeInfo)
        BY <1>5, <4>2, FirstOfFacts
      <4>4. FirstOf(c, u.typeInfo) = g[i]
        BY <3>3, <4>1, <4>3 DEF Positions
      <4>5. QED BY <1>6, <3>1, <4>2, <4>4
    <3>5. \A j \in 1..Len(cache'[q]) : cache'[q][j].TypeId = cache'[q][i].TypeId => j = i
      <4>1. TAKE j \in 1..Len(cache'[q])
      <4>2. HAVE cache'[q][j].TypeId = cache'[q][i].TypeId
      <4>3. j \in 1..Len(r) /\ g[j] \in 1..Len(c) /\ cache'[q][j] = c[g[j]]
        BY <1>6, <1>7, <2>2
      <4>4. g[j] = g[i]
        BY <3>1, <3>3, <4>2, <4>3
      <4>5. QED BY <1>6, <3>1, <4>3, <4>4
    <3> PICK x : x = cache'[q][i].Value
      OBVIOUS
    <3>6. /\ x \in Wrappers /\ x # w /\ Alive(x) /\ udata[x] \in ObjectUserData
          /\ udata[x].ptr = q /\ udata[x].typeInfo = cache'[q][i].TypeId
      BY <3>1, <3>3, <3>4
    <3>7. status'[x] = status[x] /\ udata'[x] = udata[x]
      BY <1>8, <3>6
    <3>8. QED BY <3>5, <3>6, <3>7 DEF Alive
  <2>3. QED BY <2>1, <2>2
<1>10. QED BY <1>9 DEF CacheSound, Alive

CacheInv == Structure /\ CreationSound /\ CacheSound

LEMMA LastRefGoneFrees ==
  ASSUME Structure, NEW w \in Wrappers, NEW stk, LastRefGone(w, stk), Remains(stk)
  PROVE  /\ \A v \in Wrappers : Alive(v) => Alive(v)'
         /\ Len(stack') \in Nat
         /\ \A i \in 1..Len(stack') :
              (i \in 1..Len(stack) /\ stack'[i] = stack[i]) \/ stack'[i].pc \in Finalizing \cup Freeing
<1>1. \A v \in Wrappers : Alive(v) => Alive(v)'
  <2>1. status' = status \/ status' = [status EXCEPT ![w] = IF @ = "dying" THEN @ ELSE "queued"]
    BY DEF LastRefGone
  <2>2. QED BY <2>1, Types DEF Alive
<1>2. /\ stk \in Seq(Frame) /\ Len(stk) \in Nat
      /\ \A i \in 1..Len(stk) : i \in 1..Len(stack) /\ stk[i] = stack[i]
  BY Types DEF Remains
<1>3. stack' = stk \/ stack' = Append(stk, [pc |-> "free"])
  BY DEF LastRefGone
<1>4. CASE stack' = stk
  BY <1>1, <1>2, <1>4
<1>5. CASE stack' = Append(stk, [pc |-> "free"])
  <2>1. /\ Len(stack') = Len(stk) + 1
        /\ stack'[Len(stk) + 1] = [pc |-> "free"]
        /\ \A i \in 1..Len(stk) : stack'[i] = stk[i]
    BY <1>2, <1>5
  <2>2. \A i \in 1..Len(stack') : i \in 1..Len(stk) \/ stack'[i] = [pc |-> "free"]
    BY <1>2, <2>1
  <2>3. QED BY <1>1, <1>2, <2>1, <2>2 DEF Freeing
<1>6. QED BY <1>3, <1>4, <1>5

LEMMA ReleaseKeepsCache ==
  ASSUME CacheInv, NEW w \in Wrappers, Release(w) \/ LetsGo(w)
  PROVE  CreationSound' /\ CacheSound'
<1>1. Structure /\ CreationSound /\ CacheSound /\ UNCHANGED <<cache, udata>>
  BY DEF CacheInv, Release, LetsGo
<1>2. LastRefGone(w, stack) \/ UNCHANGED <<status, stack>>
  BY DEF Release, LetsGo
<1>3. /\ \A v \in Wrappers : Alive(v) => Alive(v)'
      /\ Len(stack') \in Nat
      /\ \A i \in 1..Len(stack') :
           (i \in 1..Len(stack) /\ stack'[i] = stack[i]) \/ stack'[i].pc \in Finalizing \cup Freeing
  <2>1. CASE LastRefGone(w, stack)
    <3>1. Remains(stack)
      BY <1>1, Types DEF Remains
    <3>2. QED BY <1>1, <2>1, <3>1, LastRefGoneFrees
  <2>2. CASE UNCHANGED <<status, stack>>
    BY <1>1, <2>2, Types DEF Alive
  <2>3. QED BY <1>2, <2>1, <2>2
<1>4. QED BY <1>1, <1>3, FreeingKeepsCreation, SameNodesKeepCache

LEMMA ReferKeepsCache ==
  ASSUME CacheInv,
         \/ \E w \in Wrappers : Keep(w) \/ Root(w)
         \/ \E T \in TypeIds, p \in Ptrs : PushHit(T, p)
         \/ UNCHANGED vars
  PROVE  CreationSound' /\ CacheSound'
<1>1. UNCHANGED <<cache, status, udata, stack>>
  BY DEF Keep, Root, PushHit, vars
<1>2. CreationSound'
  BY <1>1 DEF CacheInv, CreationSound
<1>3. CacheSound'
  BY <1>1 DEF CacheInv, CacheSound, Alive
<1>4. QED BY <1>2, <1>3

LEMMA PushMissKeepsCache ==
  ASSUME CacheInv, "fresh" \in Contract, "quiet" \in Contract,
         NEW T \in TypeIds, NEW p \in Ptrs, NEW own \in BOOLEAN, PushMiss(T, p, own)
  PROVE  CreationSound' /\ CacheSound'
<1> DEFINE f == [pc |-> "create", T |-> T, p |-> p, own |-> own]
<1>1. /\ stack' = Append(stack, f) /\ UNCHANGED <<cache, status, udata>>
      /\ Structure /\ CreationSound /\ CacheSound
  BY DEF CacheInv, PushMiss
<1>2. f \in Frame /\ f.pc = "create" /\ f.T = T /\ f.p = p
  BY FrameKinds
<1> HIDE DEF f
<1>3. Pushed(f)
  BY <1>1, <1>2, PushedByAppend, Types
<1>4. T \in Registered => Positions(cache[p], T) = {}
  BY DEF PushMiss, MayBind, ClassOf
<1>5. \A i \in 1..Len(stack) : stack[i].pc # "create"
  BY <1>1, ClientNotCreating DEF PushMiss
<1>6. CreationSound'
  <2>1. \A i \in 1..Len(stack') : stack'[i].pc = "create" => i = Len(stack') /\ stack'[i] = f
    BY <1>3, <1>5, <1>1, Types DEF Pushed
  <2>2. \A j \in (Len(stack') + 1)..Len(stack') : FALSE
    BY <1>1, <1>3, Types DEF Pushed
  <2>3. QED BY <1>1, <1>2, <1>4, <2>1, <2>2 DEF CreationSound
<1>7. CacheSound'
  BY <1>1 DEF CacheSound, Alive
<1>8. QED BY <1>6, <1>7

LEMMA ConstructKeepsCache ==
  ASSUME CacheInv, "quiet" \in Contract, NEW w \in Wrappers, NEW T \in Registered, Construct(w, T)
  PROVE  CreationSound' /\ CacheSound'
<1> DEFINE f == [pc |-> "init", w |-> w, T |-> T]
<1>1. /\ stack' = Append(stack, f) /\ UNCHANGED <<cache, udata>>
      /\ status[w] = "free" /\ status' = [status EXCEPT ![w] = "blank"]
      /\ Structure /\ CreationSound /\ CacheSound
  BY DEF CacheInv, Construct, Fresh
<1>2. f \in Frame /\ f.pc = "init"
  BY FrameKinds
<1> HIDE DEF f
<1>3. Pushed(f)
  BY <1>1, <1>2, PushedByAppend, Types
<1>4. \A i \in 1..Len(stack) : stack[i].pc # "create"
  BY <1>1, ClientNotCreating DEF Construct
<1>5. CreationSound'
  <2>1. \A i \in 1..Len(stack') : stack'[i].pc # "create"
    BY <1>2, <1>3, <1>4 DEF Pushed
  <2>2. QED BY <2>1 DEF CreationSound
<1>6. \A v \in Wrappers : Alive(v) => Alive(v)'
  BY <1>1, Types DEF Alive
<1>7. QED BY <1>1, <1>5, <1>6, SameNodesKeepCache

\* Binding replaces the innermost activation.
LEMMA BindTurns ==
  ASSUME Structure, stack # << >>, NEW w \in Wrappers, NEW C, NEW p, NEW own,
         NEW throws \in BOOLEAN, BindAndAddToCache(w, C, p, own, throws)
  PROVE  \A i \in 1..Len(stack') :
           \/ stack'[i].pc # "create"
           \/ i \in 1..Len(stack) /\ i # Len(stack) /\ stack'[i] = stack[i]
<1> DEFINE f == [pc |-> IF C \in Traced THEN "enter" ELSE "added", w |-> w,
                 cell |-> IF cache[p] = << >> THEN "entry" ELSE "heap", throws |-> throws]
<1>1. f \in Frame /\ f.pc # "create" /\ stack' = Becomes(f)
  BY FrameKinds DEF BindAndAddToCache
<1> HIDE DEF f
<1>2. Turned(f)
  BY <1>1, TurnedByBecomes, Types
<1>3. QED BY <1>1, <1>2 DEF Turned

LEMMA PushCreateKeepsCache ==
  ASSUME CacheInv, NEW w \in Wrappers, PushCreate(w)
  PROVE  CreationSound' /\ CacheSound'
<1> DEFINE C == ClassOf(Top.T)
<1>1. /\ Structure /\ CreationSound /\ CacheSound
      /\ stack # << >> /\ Top.pc = "create" /\ status[w] = "free"
      /\ BindAndAddToCache(w, C, Top.p, Top.own, FALSE)
  BY DEF CacheInv, PushCreate, At, Fresh
<1>2. /\ Top \in Frame /\ Len(stack) \in 1..Len(stack) /\ Top = stack[Len(stack)]
  BY <1>1, TopFrame, Types
<1>3. Top.T \in TypeIds /\ Top.p \in Ptrs /\ Top.own \in BOOLEAN
  BY <1>1, <1>2, FrameFields
<1>4. C \in Classes
  BY <1>3 DEF ClassOf, Classes
<1>5. C \in Registered => Positions(cache[Top.p], C) = {}
  <2>1. Top.T \in Registered => Positions(cache[Top.p], Top.T) = {}
    BY <1>1, <1>2 DEF CreationSound
  <2>2. QED BY <2>1, MapperAssumption DEF ClassOf
<1> HIDE DEF C
<1>6. CacheSound'
  BY <1>1, <1>3, <1>4, <1>5, BindKeepsCache
<1>7. CreationSound'
  <2>1. \A i \in 1..Len(stack) : i # Len(stack) => stack[i].pc # "create"
    BY <1>1, CreatingOnTop DEF Finalizing, Freeing
  <2>2. \A i \in 1..Len(stack') : stack'[i].pc # "create"
    BY <1>1, <2>1, BindTurns
  <2>3. QED BY <2>2 DEF CreationSound
<1>8. QED BY <1>6, <1>7

LEMMA InitializeReturnsKeepsCache ==
  ASSUME CacheInv, "fresh" \in Contract, "quiet" \in Contract,
         NEW p \in Ptrs, NEW throws \in BOOLEAN, InitializeReturns(p, throws)
  PROVE  CreationSound' /\ CacheSound'
<1>1. /\ Structure /\ CreationSound /\ CacheSound
      /\ stack # << >> /\ Top.pc = "init" /\ At({"init", "enter", "added"})
      /\ BindAndAddToCache(Top.w, Top.T, p, TRUE, throws)
      /\ Positions(cache[p], Top.T) = {}
  BY DEF CacheInv, InitializeReturns, At, MayBind
<1>2. /\ Top \in Frame /\ Len(stack) \in 1..Len(stack) /\ Top = stack[Len(stack)]
  BY <1>1, TopFrame, Types
<1>3. Top.w \in Wrappers /\ Top.T \in Classes
  BY <1>1, <1>2, FrameFields DEF Classes, Constructing
<1>4. status[Top.w] = "blank"
  BY <1>1, <1>2, Parts DEF ConstructionSound, Constructing
<1>5. CacheSound'
  BY <1>1, <1>3, <1>4, BindKeepsCache
<1>6. CreationSound'
  <2>1. \A i \in 1..Len(stack) : stack[i].pc # "create"
    BY <1>1, ClientNotCreating
  <2>2. \A i \in 1..Len(stack') : stack'[i].pc # "create"
    BY <1>1, <1>3, <2>1, BindTurns
  <2>3. QED BY <2>2 DEF CreationSound
<1>7. QED BY <1>5, <1>6

LEMMA ConstructedKeepsCache ==
  ASSUME CacheInv, "quiet" \in Contract, Constructed
  PROVE  CreationSound' /\ CacheSound'
<1> DEFINE w == Top.w
<1>1. /\ Structure /\ CreationSound /\ CacheSound
      /\ stack # << >> /\ Top.pc \in {"enter", "added"} /\ At({"init", "enter", "added"})
      /\ udata' = udata
  BY DEF CacheInv, Constructed, At
<1>2. cache' = IF Top.pc = "enter" THEN StoreUserData(w, Top.cell) ELSE cache
  BY DEF Constructed
<1>3. LastRefGone(w, Caller) \/ (stack' = Caller /\ status' = status)
  <2>1. CASE ~Top.throws
    BY <2>1 DEF Constructed
  <2>2. CASE Top.throws /\ native[w] = 0 /\ script[w] = "none"
    BY <2>2 DEF Constructed
  <2>3. CASE Top.throws /\ ~(native[w] = 0 /\ script[w] = "none")
    BY <2>3 DEF Constructed
  <2>4. QED BY <2>1, <2>2, <2>3
<1>4. /\ Top \in Frame /\ Len(stack) \in 1..Len(stack) /\ Top = stack[Len(stack)]
  BY <1>1, TopFrame, Types
<1>5. w \in Wrappers /\ Alive(w)
  BY <1>1, <1>4, FrameFields, Parts DEF ConstructionSound, Constructing, Alive
<1>6. Remains(Caller) /\ Len(Caller) \in Nat
      /\ \A i \in 1..Len(Caller) : i \in 1..Len(stack) /\ Caller[i] = stack[i]
  <2>1. PICK n \in Nat : /\ Len(stack) = n + 1
                         /\ Caller \in Seq(Frame) /\ Len(Caller) = n
                         /\ \A i \in 1..n : Caller[i] = stack[i]
    BY <1>1, PopFacts, Types DEF Caller
  <2>2. QED BY <1>1, <1>4, <2>1 DEF Remains
<1>7. /\ \A v \in Wrappers : Alive(v) => Alive(v)'
      /\ \A i \in 1..Len(stack') :
           (i \in 1..Len(stack) /\ stack'[i] = stack[i]) \/ stack'[i].pc \in Finalizing \cup Freeing
  <2>1. CASE LastRefGone(w, Caller)
    BY <1>1, <1>5, <1>6, <2>1, LastRefGoneFrees
  <2>2. CASE stack' = Caller /\ status' = status
    BY <1>6, <2>2 DEF Alive
  <2>3. QED BY <1>3, <2>1, <2>2
<1>8. CreationSound'
  <2>1. \A i \in 1..Len(stack) : stack[i].pc # "create"
    BY <1>1, ClientNotCreating
  <2>2. \A i \in 1..Len(stack') : stack'[i].pc # "create"
    BY <1>7, <2>1 DEF Finalizing, Freeing
  <2>3. QED BY <2>2 DEF CreationSound
<1>9. CacheSound'
  BY <1>1, <1>5, <1>7, <1>2, StoreUserDataFacts, SameNodesKeepCache
<1>10. QED BY <1>8, <1>9

\* Engine steps inside the freeing loops, before an object is freed.
LEMMA LoopKeepsCache ==
  ASSUME CacheInv,
         \/ \E S \in SUBSET Collectable : RunGC(S)
         \/ FreeNext \/ \E w \in Wrappers : CollectNext(w)
         \/ FreeDone \/ CollectDone \/ FinalizeReturns \/ RemoveFromCache
  PROVE  CreationSound' /\ CacheSound'
<1>1. Structure /\ CreationSound /\ CacheSound /\ UNCHANGED <<cache, udata>>
  BY DEF CacheInv, RunGC, FreeNext, CollectNext, FreeDone, CollectDone, FinalizeReturns, RemoveFromCache
<1>2. \A v \in Wrappers : Alive(v) => Alive(v)'
  <2>1. status' = status \/ \E w : status' = [status EXCEPT ![w] = "dying"]
    BY DEF RunGC, FreeNext, CollectNext, StartFinalizer, FreeDone, CollectDone, FinalizeReturns,
           RemoveFromCache
  <2>2. QED BY <1>1, <2>1, Types DEF Alive
<1>3. \/ \E f \in Frame : f.pc \in Finalizing \cup Freeing /\ stack' = Append(stack, f)
      \/ stack # << >> /\ \E f : f.pc \in Finalizing /\ stack' = Becomes(f)
      \/ stack # << >> /\ stack' = Caller
  <2>1. CASE \E S \in SUBSET Collectable : RunGC(S)
    BY <2>1, FrameKinds DEF RunGC, Freeing
  <2>2. ASSUME NEW w \in Wrappers, StartFinalizer(w)
        PROVE  \E f \in Frame : f.pc \in Finalizing \cup Freeing /\ stack' = Append(stack, f)
    <3> DEFINE f == [pc |-> IF udata[w].callFinalize /\ udata[w].typeInfo \in Finalizable
                            THEN "finalize" ELSE "remove", w |-> w]
    <3>1. f \in Frame /\ f.pc \in Finalizing /\ stack' = Append(stack, f)
      BY <2>2, FrameKinds DEF StartFinalizer, Finalizing
    <3>2. QED BY <3>1
  <2>3. CASE FreeNext
    <3>1. Head(zeroRefs) \in Wrappers /\ StartFinalizer(Head(zeroRefs))
      BY <1>1, <2>3, Types DEF FreeNext
    <3>2. QED BY <2>2, <3>1
  <2>4. CASE \E w \in Wrappers : CollectNext(w)
    BY <2>2, <2>4 DEF CollectNext
  <2>5. CASE FreeDone \/ CollectDone
    BY <2>5 DEF FreeDone, CollectDone, At
  <2>6. CASE FinalizeReturns
    BY <2>6 DEF FinalizeReturns, At, Finalizing
  <2>7. CASE RemoveFromCache
    <3> PICK f : f = [pc |-> "exit", w |-> Top.w, ud |-> cache[udata[Top.w].ptr][1].UserData]
      OBVIOUS
    <3>1. stack # << >> /\ stack' = Becomes(f)
      BY <2>7 DEF RemoveFromCache, At
    <3>2. f.pc \in Finalizing
      BY DEF Finalizing
    <3>3. QED BY <3>1, <3>2
  <2>8. QED BY <2>1, <2>3, <2>4, <2>5, <2>6, <2>7
<1>4. /\ Len(stack') \in Nat
      /\ \A i \in 1..Len(stack') :
           \/ i \in 1..Len(stack) /\ stack'[i] = stack[i]
           \/ stack'[i].pc \in Finalizing \cup Freeing
  <2>1. CASE \E f \in Frame : f.pc \in Finalizing \cup Freeing /\ stack' = Append(stack, f)
    <3>1. PICK f \in Frame : f.pc \in Finalizing \cup Freeing /\ Pushed(f)
      BY <1>1, <2>1, PushedByAppend, Types
    <3>2. QED BY <1>1, <3>1, Types DEF Pushed
  <2>2. CASE stack # << >> /\ \E f : f.pc \in Finalizing /\ stack' = Becomes(f)
    <3>1. PICK f : f.pc \in Finalizing /\ stack' = Becomes(f)
      BY <2>2
    <3>2. Len(stack) \in 1..Len(stack) /\ Len(stack) \in Nat
      BY <1>1, <2>2, TopFrame, Types
    <3>3. /\ Len(stack') = Len(stack) /\ stack'[Len(stack)] = f
          /\ \A i \in 1..Len(stack) : i # Len(stack) => stack'[i] = stack[i]
      BY <1>1, <3>1, <3>2, Types DEF Becomes
    <3>4. QED BY <3>1, <3>2, <3>3
  <2>3. CASE stack # << >> /\ stack' = Caller
    <3>1. Popped
      BY <1>1, <2>3, PoppedByCaller, Types
    <3>2. QED BY <3>1 DEF Popped
  <2>4. QED BY <1>3, <2>1, <2>2, <2>3
<1>5. CreationSound'
  BY <1>1, <1>4, FreeingKeepsCreation
<1>6. CacheSound'
  BY <1>1, <1>2, SameNodesKeepCache
<1>7. QED BY <1>5, <1>6

LEMMA FreedKeepsCache ==
  ASSUME CacheInv, ObjectFreed
  PROVE  CreationSound' /\ CacheSound'
<1> DEFINE w == Top.w
           u == udata[w]
           r == RemoveFirst(cache[u.ptr], u.typeInfo)
<1>1. /\ Structure /\ CreationSound /\ CacheSound
      /\ stack # << >> /\ Top.pc \in Finalizing /\ stack' = Caller
  BY DEF CacheInv, ObjectFreed, FinalizerEnds, At, Finalizing
<1>2. CacheSound'
  BY <1>1, ObjectFreedKeepsCache
<1>3. Popped
  BY <1>1, PoppedByCaller, Types
<1>4. Len(stack') \in Nat /\ \A i \in 1..Len(stack') : i \in 1..Len(stack) /\ stack'[i] = stack[i]
  BY <1>3 DEF Popped
<1>5. u.ptr \in Ptrs
  <2>1. Top \in Frame /\ Len(stack) \in 1..Len(stack) /\ Top = stack[Len(stack)]
    BY <1>1, TopFrame, Types
  <2>2. w \in Wrappers /\ status[w] = "dying"
    BY <1>1, <2>1, FrameFields, Parts DEF FinalizationSound
  <2>3. u \in ObjectUserData
    BY <1>1, <2>2, Parts DEF BoundSound, Alive
  <2>4. QED BY <2>3 DEF ObjectUserData
<1>6. \A p \in Ptrs, T \in Registered :
        Positions(cache[p], T) = {} => Positions(cache'[p], T) = {}
  <2>1. TAKE p \in Ptrs, T \in Registered
  <2>2. HAVE Positions(cache[p], T) = {}
  <2>3. cache' = [cache EXCEPT ![u.ptr] = r]
    BY <1>1, <1>5, Types DEF ObjectFreed
  <2>4. CASE p # u.ptr
    BY <1>1, <2>2, <2>3, <2>4, Types
  <2>5. CASE p = u.ptr
    <3>1. cache[p] \in Seq(Node) /\ cache'[p] = RemoveFirst(cache[p], u.typeInfo)
      BY <1>1, <2>3, <2>5, Types
    <3>2. PICK g \in [1..Len(cache'[p]) -> 1..Len(cache[p])] :
            \A i \in 1..Len(cache'[p]) : cache'[p][i] = cache[p][g[i]]
      BY <3>1, RemoveFirstLeaves
    <3>3. QED BY <2>2, <3>2 DEF Positions
  <2>6. QED BY <2>4, <2>5
<1>7. CreationSound'
  BY <1>1, <1>4, <1>6, FreeingKeepsCreation
<1>8. QED BY <1>2, <1>7

LEMMA CleanupKeepsCache ==
  ASSUME CacheInv, Cleanup
  PROVE  CreationSound' /\ CacheSound'
BY DEF Cleanup, CacheInv, CreationSound, CacheSound, Alive

LEMMA DestroyedKeepsCache ==
  ASSUME Destroy
  PROVE  CreationSound' /\ CacheSound'
<1>1. cache' = [p \in Ptrs |-> << >>] /\ stack' = << [pc |-> "gc"] >>
  BY DEF Destroy
<1>2. \A p \in Ptrs : Len(cache'[p]) = 0
  BY <1>1
<1>3. \A i \in 1..Len(stack') : stack'[i].pc = "gc"
  BY <1>1
<1>4. QED BY <1>2, <1>3 DEF CreationSound, CacheSound

LEMMA InitCache == Init => CacheInv
<1> SUFFICES ASSUME Init PROVE CacheInv
  OBVIOUS
<1>1. Len(stack) = 0 /\ \A p \in Ptrs : Len(cache[p]) = 0
  BY DEF Init
<1>2. QED BY <1>1, InitStructure DEF CacheInv, CreationSound, CacheSound

LEMMA NextCache ==
  ASSUME "fresh" \in Contract, "quiet" \in Contract
  PROVE  CacheInv /\ [Next]_vars => CacheInv'
<1> SUFFICES ASSUME CacheInv, [Next]_vars PROVE CreationSound' /\ CacheSound'
  BY NextStructure DEF CacheInv
<1>1. ASSUME NEW w \in Wrappers, Release(w) \/ LetsGo(w) PROVE CreationSound' /\ CacheSound'
  BY <1>1, ReleaseKeepsCache
<1>2. ASSUME NEW w \in Wrappers, Keep(w) \/ Root(w) PROVE CreationSound' /\ CacheSound'
  BY <1>2, ReferKeepsCache
<1>3. ASSUME NEW T \in TypeIds, NEW p \in Ptrs, PushHit(T, p) PROVE CreationSound' /\ CacheSound'
  BY <1>3, ReferKeepsCache
<1>4. ASSUME NEW T \in TypeIds, NEW p \in Ptrs, NEW own \in BOOLEAN, PushMiss(T, p, own)
      PROVE  CreationSound' /\ CacheSound'
  BY <1>4, PushMissKeepsCache
<1>5. ASSUME NEW w \in Wrappers, NEW T \in Registered, Construct(w, T)
      PROVE  CreationSound' /\ CacheSound'
  BY <1>5, ConstructKeepsCache
<1>6. ASSUME NEW p \in Ptrs, NEW throws \in BOOLEAN, InitializeReturns(p, throws)
      PROVE  CreationSound' /\ CacheSound'
  BY <1>6, InitializeReturnsKeepsCache
<1>7. ASSUME NEW w \in Wrappers, PushCreate(w) PROVE CreationSound' /\ CacheSound'
  BY <1>7, PushCreateKeepsCache
<1>8. ASSUME \/ \E S \in SUBSET Collectable : RunGC(S)
             \/ FreeNext \/ \E w \in Wrappers : CollectNext(w)
             \/ FreeDone \/ CollectDone \/ FinalizeReturns \/ RemoveFromCache
      PROVE  CreationSound' /\ CacheSound'
  BY <1>8, LoopKeepsCache
<1>9. ASSUME Constructed \/ ObjectFreed PROVE CreationSound' /\ CacheSound'
  BY <1>9, ConstructedKeepsCache, FreedKeepsCache
<1>10. ASSUME Cleanup \/ Destroy PROVE CreationSound' /\ CacheSound'
  BY <1>10, CleanupKeepsCache, DestroyedKeepsCache
<1>11. ASSUME UNCHANGED vars PROVE CreationSound' /\ CacheSound'
  BY <1>11, ReferKeepsCache
<1>12. QED
  BY <1>1, <1>2, <1>3, <1>4, <1>5, <1>6, <1>7, <1>8, <1>9, <1>10, <1>11
     DEF Next, Client, Engine, Unroot, ReleaseConstructor, Destroyed

\* A client that keeps fresh and quiet never finds anything but a wrapper of
\* that object under that class: neither collections between PushNativeObject's
\* lookup and the binding of the wrapper it then creates, nor callbacks of the
\* construction, bring a class a second node at an address.
THEOREM CacheAlwaysSound ==
  ASSUME "fresh" \in Contract, "quiet" \in Contract
  PROVE  Spec => []CacheSound
<1>1. Spec => []CacheInv
  BY InitCache, NextCache, PTL DEF Spec
<1>2. CacheInv => CacheSound
  BY DEF CacheInv
<1>3. QED BY <1>1, <1>2, PTL

-----------------------------------------------------------------------------
(* What the object mapper does to the cache is what CacheChain offers. *)

\* The chain of an address as CacheChain sees it: user data is the mapper's.
BareChain(chain) ==
  [i \in 1..Len(chain) |-> [TypeId |-> chain[i].TypeId, Value |-> chain[i].Value]]
BareCache == [p \in Ptrs |-> BareChain(cache[p])]

Chain == INSTANCE CacheChain WITH
           TypeIds <- Classes, Values <- Wrappers, NoValue <- Nobody,
           chains <- BareCache, last <- Nobody

\* w is bound and its node added, or freed and a node of its class removed; other
\* wrappers stay as they are.
BoundAndAdded(w) ==
  /\ status[w] \in {"free", "blank"} /\ status' = [status EXCEPT ![w] = "bound"]
  /\ udata'[w] \in ObjectUserData
  /\ Chain!Inserted(udata'[w].ptr, udata'[w].typeInfo, w)
FreedAndRemoved(w) ==
  /\ status[w] = "dying" /\ status' = [status EXCEPT ![w] = "free"]
  /\ udata[w] \in ObjectUserData
  /\ Chain!Removed(udata[w].ptr, udata[w].typeInfo)
NoneBoundOrFreed ==
  \A w \in Wrappers : /\ status'[w] = "bound" => status[w] = "bound"
                      /\ status'[w] = "free" => status[w] = "free"

CacheStep ==
  \/ \E w \in Wrappers : BoundAndAdded(w) \/ FreedAndRemoved(w)
  \/ NoneBoundOrFreed /\ BareCache' = BareCache
  \/ NoneBoundOrFreed /\ env = "cleaning" /\ env' = "closing" /\ Chain!Cleared

LEMMA SameOperations ==
  /\ \A s, T : Chain!RemoveFirst(s, T) = RemoveFirst(s, T)
  /\ \A s, n : Chain!AddNode(s, n) = AddNode(s, n)
BY DEF Chain!RemoveFirst, Chain!Without, Chain!FirstOf, Chain!Positions, Chain!AddNode,
       RemoveFirst, Without, FirstOf, Positions, AddNode

\* Taking the user data off and changing a chain can be swapped.
LEMMA BareNodes ==
  ASSUME NEW s \in Seq(Node)
  PROVE  /\ Len(BareChain(s)) = Len(s) /\ Len(s) \in Nat
         /\ \A i \in 1..Len(s) :
              BareChain(s)[i] = [TypeId |-> s[i].TypeId, Value |-> s[i].Value]
BY DEF BareChain

LEMMA BareSame ==
  ASSUME NEW s, NEW t, Len(t) = Len(s),
         \A i \in 1..Len(s) : t[i].TypeId = s[i].TypeId /\ t[i].Value = s[i].Value
  PROVE  BareChain(t) = BareChain(s)
BY DEF BareChain

LEMMA BareAdd ==
  ASSUME NEW s \in Seq(Node), NEW n \in Node
  PROVE  BareChain(AddNode(s, n)) =
           AddNode(BareChain(s), [TypeId |-> n.TypeId, Value |-> n.Value])
<1>0. /\ Len(AddNode(s, n)) = Len(s) + 1
      /\ \A i \in 1..(Len(s) + 1) :
           AddNode(s, n)[i] = IF Len(s) = 0 THEN n
                              ELSE IF i = 1 THEN s[1] ELSE IF i = 2 THEN n ELSE s[i - 1]
  BY AddNodeFacts
<1> PICK k : k = Len(s)
  OBVIOUS
<1>1. k \in Nat /\ Len(BareChain(s)) = k
  BY BareNodes
<1>2. /\ Len(AddNode(s, n)) = k + 1
      /\ \A i \in 1..(k + 1) :
           AddNode(s, n)[i] = IF k = 0 THEN n
                              ELSE IF i = 1 THEN s[1] ELSE IF i = 2 THEN n ELSE s[i - 1]
  BY <1>0
<1>3. ASSUME NEW i \in 1..(k + 1)
      PROVE  [TypeId |-> AddNode(s, n)[i].TypeId, Value |-> AddNode(s, n)[i].Value] =
             IF k = 0 THEN [TypeId |-> n.TypeId, Value |-> n.Value]
             ELSE IF i = 1 THEN BareChain(s)[1]
             ELSE IF i = 2 THEN [TypeId |-> n.TypeId, Value |-> n.Value]
             ELSE BareChain(s)[i - 1]
  <2>1. CASE k = 0
    BY <1>2, <2>1
  <2>2. CASE k # 0 /\ i = 1
    BY <1>1, <1>2, <2>2, BareNodes
  <2>3. CASE k # 0 /\ i = 2
    BY <1>2, <2>3
  <2>4. CASE k # 0 /\ i # 1 /\ i # 2
    <3>1. i - 1 \in 1..k
      BY <1>1, <2>4
    <3>2. QED BY <1>2, <2>4, <3>1, BareNodes
  <2>5. QED BY <2>1, <2>2, <2>3, <2>4
<1>4. QED BY <1>1, <1>2, <1>3 DEF BareChain, AddNode

LEMMA BareRemove ==
  ASSUME NEW s \in Seq(Node), NEW T
  PROVE  BareChain(RemoveFirst(s, T)) = RemoveFirst(BareChain(s), T)
<1>1. Positions(BareChain(s), T) = Positions(s, T)
  <2>1. Len(BareChain(s)) = Len(s) /\ \A i \in 1..Len(s) : BareChain(s)[i].TypeId = s[i].TypeId
    BY DEF BareChain
  <2>2. QED BY <2>1 DEF Positions
<1>2. FirstOf(BareChain(s), T) = FirstOf(s, T)
  BY <1>1 DEF FirstOf
<1>3. CASE Positions(s, T) = {}
  BY <1>1, <1>3 DEF RemoveFirst
<1>4. CASE Positions(s, T) # {}
  <2> PICK k, m : k = FirstOf(s, T) /\ m = Len(s)
    OBVIOUS
  <2>1. /\ RemoveFirst(s, T) = Without(s, k)
        /\ RemoveFirst(BareChain(s), T) = Without(BareChain(s), k)
    BY <1>1, <1>2, <1>4 DEF RemoveFirst
  <2>2. k \in 1..m /\ m \in Nat /\ Len(BareChain(s)) = m
    BY <1>4, FirstOfFacts, BareNodes DEF Positions
  <2>3. s # << >>
    BY <2>2
  <2>4. /\ Len(Without(s, k)) = m - 1
        /\ \A i \in 1..(m - 1) : Without(s, k)[i] = IF i < k THEN s[i] ELSE s[i + 1]
    BY <2>3, WithoutFacts
  <2>5. ASSUME NEW i \in 1..(m - 1)
        PROVE  [TypeId |-> Without(s, k)[i].TypeId, Value |-> Without(s, k)[i].Value] =
               IF i < k THEN BareChain(s)[i] ELSE BareChain(s)[i + 1]
    <3>1. i \in 1..m /\ i + 1 \in 1..m
      BY <2>2
    <3>2. QED BY <2>4, <3>1, BareNodes
  <2>6. BareChain(Without(s, k)) = Without(BareChain(s), k)
    BY <2>2, <2>4, <2>5 DEF BareChain, Without
  <2>7. QED BY <2>1, <2>6
<1>5. QED BY <1>3, <1>4

\* Steps that write neither the cache nor a life that begins or ends.
LEMMA QuietStep ==
  ASSUME Structure, cache' = cache,
         \/ status' = status
         \/ \E w, s : s \notin {"bound", "free"} /\ status' = [status EXCEPT ![w] = s]
  PROVE  CacheStep
<1>1. NoneBoundOrFreed
  BY Types DEF NoneBoundOrFreed
<1>2. QED BY <1>1 DEF CacheStep, BareCache

LEMMA LastRefGoneStatus ==
  ASSUME NEW w, NEW stk, LastRefGone(w, stk)
  PROVE  \/ status' = status
         \/ \E v, s : s \notin {"bound", "free"} /\ status' = [status EXCEPT ![v] = s]
<1>1. CASE phase = "cycles"
  BY <1>1 DEF LastRefGone
<1>2. CASE phase # "cycles"
  <2> DEFINE s == IF status[w] = "dying" THEN status[w] ELSE "queued"
  <2>1. s \notin {"bound", "free"} /\ status' = [status EXCEPT ![w] = s]
    BY <1>2 DEF LastRefGone
  <2>2. QED BY <2>1
<1>3. QED BY <1>1, <1>2

LEMMA ClientCacheStep ==
  ASSUME Structure,
         \/ \E w \in Wrappers : Release(w) \/ Keep(w) \/ Root(w) \/ LetsGo(w)
         \/ \E T \in TypeIds, p \in Ptrs : PushHit(T, p)
         \/ \E T \in TypeIds, p \in Ptrs, own \in BOOLEAN : PushMiss(T, p, own)
         \/ \E w \in Wrappers, T \in Registered : Construct(w, T)
         \/ \E S \in SUBSET Collectable : RunGC(S)
         \/ Cleanup \/ UNCHANGED vars
  PROVE  CacheStep
<1>1. ASSUME NEW w \in Wrappers, Release(w) \/ LetsGo(w) PROVE CacheStep
  <2>1. cache' = cache /\ (LastRefGone(w, stack) \/ status' = status)
    BY <1>1 DEF Release, LetsGo
  <2>2. QED BY <2>1, LastRefGoneStatus, QuietStep
<1>2. ASSUME NEW w \in Wrappers, NEW T \in Registered, Construct(w, T) PROVE CacheStep
  <2>1. cache' = cache /\ status' = [status EXCEPT ![w] = "blank"]
    BY <1>2 DEF Construct
  <2>2. QED BY <2>1, QuietStep
<1>3. ASSUME \/ \E w \in Wrappers : Keep(w) \/ Root(w)
             \/ \E T \in TypeIds, p \in Ptrs : PushHit(T, p)
             \/ \E T \in TypeIds, p \in Ptrs, own \in BOOLEAN : PushMiss(T, p, own)
             \/ \E S \in SUBSET Collectable : RunGC(S)
             \/ Cleanup \/ UNCHANGED vars
      PROVE  CacheStep
  <2>1. cache' = cache /\ status' = status
    BY <1>3 DEF Cleanup, Keep, Root, PushHit, PushMiss, RunGC, vars
  <2>2. QED BY <2>1, QuietStep
<1>4. QED BY <1>1, <1>2, <1>3

LEMMA LoopCacheStep ==
  ASSUME Structure,
         \/ FreeNext \/ FreeDone \/ CollectDone
         \/ \E w \in Wrappers : CollectNext(w)
         \/ FinalizeReturns \/ RemoveFromCache
  PROVE  CacheStep
<1>1. cache' = cache
  BY DEF FreeNext, FreeDone, CollectDone, CollectNext, FinalizeReturns, RemoveFromCache
<1>2. status' = status \/ \E w : status' = [status EXCEPT ![w] = "dying"]
  BY DEF FreeNext, FreeDone, CollectDone, CollectNext, FinalizeReturns, RemoveFromCache,
         StartFinalizer
<1>3. QED BY <1>1, <1>2, QuietStep

LEMMA BindCacheStep ==
  ASSUME Structure, NEW w \in Wrappers, NEW C \in Classes, NEW p \in Ptrs, NEW own \in BOOLEAN,
         NEW throws, BindAndAddToCache(w, C, p, own, throws), status[w] \in {"free", "blank"}
  PROVE  CacheStep
<1> DEFINE n == [TypeId |-> C, Value |-> w, UserData |-> Nobody]
<1>1. /\ status' = [status EXCEPT ![w] = "bound"]
      /\ udata'[w] = [typeInfo |-> C, ptr |-> p, callFinalize |-> own]
      /\ cache' = [cache EXCEPT ![p] = AddNode(cache[p], n)]
  BY Types DEF BindAndAddToCache
<1>2. n \in Node /\ n.TypeId = C /\ n.Value = w
  BY DEF Node, UserData
<1> HIDE DEF n
<1>3. udata'[w] \in ObjectUserData /\ udata'[w].ptr = p /\ udata'[w].typeInfo = C
  BY <1>1 DEF ObjectUserData
<1>4. BareChain(AddNode(cache[p], n)) = AddNode(BareChain(cache[p]), [TypeId |-> C, Value |-> w])
  <2>1. cache[p] \in Seq(Node)
    BY Types
  <2>2. QED BY <1>2, <2>1, BareAdd
<1>5. BareCache' = [BareCache EXCEPT ![p] = AddNode(BareCache[p], [TypeId |-> C, Value |-> w])]
  <2>1. BareCache[p] = BareChain(cache[p])
    BY DEF BareCache
  <2>2. ASSUME NEW q \in Ptrs
        PROVE  BareChain(cache'[q]) = IF q = p THEN BareChain(AddNode(cache[p], n))
                                      ELSE BareChain(cache[q])
    BY <1>1, Types
  <2>3. QED BY <1>4, <2>1, <2>2 DEF BareCache
<1>6. Chain!Inserted(p, C, w)
  BY <1>5, SameOperations DEF Chain!Inserted
<1>7. QED BY <1>1, <1>3, <1>6 DEF CacheStep, BoundAndAdded

LEMMA BindingCacheStep ==
  ASSUME Structure,
         \/ \E w \in Wrappers : PushCreate(w)
         \/ \E p \in Ptrs, throws \in BOOLEAN : InitializeReturns(p, throws)
  PROVE  CacheStep
<1>1. ASSUME stack # << >> PROVE Top \in Frame /\ Len(stack) \in 1..Len(stack) /\ Top = stack[Len(stack)]
  BY <1>1, TopFrame, Types
<1>2. ASSUME NEW w \in Wrappers, PushCreate(w) PROVE CacheStep
  <2>1. /\ stack # << >> /\ Top.pc = "create" /\ status[w] = "free"
        /\ BindAndAddToCache(w, ClassOf(Top.T), Top.p, Top.own, FALSE)
    BY <1>2 DEF PushCreate, At, Fresh
  <2>2. Top.T \in TypeIds /\ Top.p \in Ptrs /\ Top.own \in BOOLEAN
    BY <1>1, <2>1, FrameFields
  <2>3. ClassOf(Top.T) \in Classes
    BY <2>2 DEF ClassOf, Classes
  <2>4. QED BY <2>1, <2>2, <2>3, BindCacheStep
<1>3. ASSUME NEW p \in Ptrs, NEW throws \in BOOLEAN, InitializeReturns(p, throws) PROVE CacheStep
  <2>1. /\ stack # << >> /\ Top.pc = "init"
        /\ BindAndAddToCache(Top.w, Top.T, p, TRUE, throws)
    BY <1>3 DEF InitializeReturns, At
  <2>2. Top.w \in Wrappers /\ Top.T \in Classes
    BY <1>1, <2>1, FrameFields DEF Classes, Constructing
  <2>3. status[Top.w] = "blank"
    BY <1>1, <2>1, Parts DEF ConstructionSound, Constructing
  <2>4. QED BY <2>1, <2>2, <2>3, BindCacheStep
<1>4. QED BY <1>2, <1>3

\* OnEnter's result goes into a node that keeps its class and its wrapper.
LEMMA ConstructedCacheStep ==
  ASSUME Structure, Constructed
  PROVE  CacheStep
<1> DEFINE w == Top.w
<1>1. stack # << >> /\ Top.pc \in {"enter", "added"}
  BY DEF Constructed, At
<1>2. /\ Top \in Frame /\ Len(stack) \in 1..Len(stack) /\ Top = stack[Len(stack)]
  BY <1>1, TopFrame, Types
<1>3. w \in Wrappers /\ Alive(w)
  BY <1>1, <1>2, FrameFields, Parts DEF ConstructionSound, Constructing, Alive
<1>4. cache' = IF Top.pc = "enter" THEN StoreUserData(w, Top.cell) ELSE cache
  BY DEF Constructed
<1>5. \A p \in Ptrs : BareChain(cache'[p]) = BareChain(cache[p])
  BY <1>3, <1>4, StoreUserDataFacts, BareSame
<1>6. status' = status \/ LastRefGone(w, Caller)
  <2>1. CASE ~Top.throws
    BY <2>1 DEF Constructed
  <2>2. CASE Top.throws /\ native[w] = 0 /\ script[w] = "none"
    BY <2>2 DEF Constructed
  <2>3. CASE Top.throws /\ ~(native[w] = 0 /\ script[w] = "none")
    BY <2>3 DEF Constructed
  <2>4. QED BY <2>1, <2>2, <2>3
<1>7. NoneBoundOrFreed
  <2>1. \/ status' = status
        \/ \E v, s : s \notin {"bound", "free"} /\ status' = [status EXCEPT ![v] = s]
    BY <1>6, LastRefGoneStatus
  <2>2. QED BY <2>1, Types DEF NoneBoundOrFreed
<1>8. QED BY <1>5, <1>7 DEF CacheStep, BareCache

LEMMA FreedCacheStep ==
  ASSUME Structure, ObjectFreed
  PROVE  CacheStep
<1> DEFINE w == Top.w
           u == udata[w]
<1>1. stack # << >> /\ Top.pc \in Finalizing
  BY DEF ObjectFreed, FinalizerEnds, At, Finalizing
<1>2. Top \in Frame /\ Len(stack) \in 1..Len(stack) /\ Top = stack[Len(stack)]
  BY <1>1, TopFrame, Types
<1>3. w \in Wrappers /\ status[w] = "dying"
  BY <1>1, <1>2, FrameFields, Parts DEF FinalizationSound
<1>4. u \in ObjectUserData
  BY <1>3, Parts DEF BoundSound, Alive
<1>5. u.ptr \in Ptrs
  BY <1>4 DEF ObjectUserData
<1>6. /\ cache' = [cache EXCEPT ![u.ptr] = RemoveFirst(cache[u.ptr], u.typeInfo)]
      /\ status' = [status EXCEPT ![w] = "free"]
  BY <1>5, Types DEF ObjectFreed
<1> PICK p, T : p = u.ptr /\ T = u.typeInfo
  OBVIOUS
<1>7. BareCache' = [BareCache EXCEPT ![p] = RemoveFirst(BareCache[p], T)]
  <2>1. p \in Ptrs /\ cache[p] \in Seq(Node)
    BY <1>5, Types
  <2>2. BareChain(RemoveFirst(cache[p], T)) = RemoveFirst(BareChain(cache[p]), T)
    BY <2>1, BareRemove
  <2>3. ASSUME NEW q \in Ptrs
        PROVE  BareChain(cache'[q]) = IF q = p THEN BareChain(RemoveFirst(cache[p], T))
                                      ELSE BareChain(cache[q])
    BY <1>6, Types
  <2>4. QED BY <2>1, <2>2, <2>3 DEF BareCache
<1>8. Chain!Removed(p, T)
  BY <1>7, SameOperations DEF Chain!Removed
<1>9. QED BY <1>3, <1>4, <1>6, <1>8 DEF CacheStep, FreedAndRemoved

LEMMA DestroyCacheStep ==
  ASSUME Destroy
  PROVE  CacheStep
<1>1. /\ cache' = [p \in Ptrs |-> << >>] /\ status' = status
      /\ env = "cleaning" /\ env' = "closing"
  BY DEF Destroy
<1>2. \A p \in Ptrs : BareChain(cache'[p]) = << >>
  <2>1. BareChain(<< >>) = << >>
    BY DEF BareChain
  <2>2. QED BY <1>1, <2>1
<1>3. Chain!Cleared
  BY <1>2 DEF Chain!Cleared, BareCache
<1>4. QED BY <1>1, <1>3 DEF CacheStep, NoneBoundOrFreed

\* Whatever the client does, every step uses the cache through the operations of
\* CacheChain, and each when it is due: a node is inserted in the step that binds its
\* wrapper, at its address and for its class, one is removed when a wrapper of that
\* address and class is freed, Cleanup clears them all, and nothing else touches the
\* classes and wrappers of the nodes.
CacheUsed == [][CacheStep]_vars

\* The object mapper and the linked list fit together: what BindAndAddToCache,
\* RemoveFromCache and Cleanup do to the cache here are steps of the specification
\* that module ObjectCacheNode implements.
THEOREM CacheUsedAsChain == Spec => CacheUsed
<1>1. Structure /\ [Next]_vars => [CacheStep]_vars
  <2> SUFFICES ASSUME Structure, Next PROVE CacheStep
    OBVIOUS
  <2>1. ASSUME \/ \E w \in Wrappers : Release(w) \/ Keep(w) \/ Root(w) \/ LetsGo(w)
               \/ \E T \in TypeIds, p \in Ptrs : PushHit(T, p)
               \/ \E T \in TypeIds, p \in Ptrs, own \in BOOLEAN : PushMiss(T, p, own)
               \/ \E w \in Wrappers, T \in Registered : Construct(w, T)
               \/ \E S \in SUBSET Collectable : RunGC(S)
               \/ Cleanup \/ UNCHANGED vars
        PROVE  CacheStep
    BY <2>1, ClientCacheStep
  <2>2. ASSUME \/ \E w \in Wrappers : PushCreate(w)
               \/ \E p \in Ptrs, throws \in BOOLEAN : InitializeReturns(p, throws)
        PROVE  CacheStep
    BY <2>2, BindingCacheStep
  <2>3. ASSUME \/ FreeNext \/ FreeDone \/ CollectDone
               \/ \E w \in Wrappers : CollectNext(w)
               \/ FinalizeReturns \/ RemoveFromCache
        PROVE  CacheStep
    BY <2>3, LoopCacheStep
  <2>4. CASE Constructed
    BY <2>4, ConstructedCacheStep
  <2>5. CASE ObjectFreed
    BY <2>5, FreedCacheStep
  <2>6. CASE Destroy
    BY <2>6, DestroyCacheStep
  <2>7. QED BY <2>1, <2>2, <2>3, <2>4, <2>5, <2>6 DEF Next, Client, Engine, Unroot, ReleaseConstructor, Destroyed
<1>2. Spec => []Structure
  BY InitStructure, NextStructure, PTL DEF Spec
<1>3. QED BY <1>1, <1>2, PTL DEF Spec, CacheUsed
=============================================================================
