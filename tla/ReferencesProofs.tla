-------------------------- MODULE ReferencesProofs --------------------------
(***************************************************************************)
(* The counts of References, for any numbers of references, values and     *)
(* handles: of the context, of handles and of values.                      *)
(***************************************************************************)
EXTENDS References, FiniteSetTheorems, TLAPS

\* A destructor of a value reference runs only while the runtime exists.
StackLive == stack # << >> => phase \in {"running", "cleanup", "freeing"}

\* The counts are right because a reference being destroyed is still there, once.
IInv == TypeOK /\ RefsSound /\ StackLive /\ ContextCounted

-----------------------------------------------------------------------------
(* The stack of destructors. *)

\* A destructor starts.
LEMMA PushFacts ==
  ASSUME stack \in Seq(Refs), NEW r \in Refs, stack' = Append(stack, r)
  PROVE  /\ stack' \in Seq(Refs) /\ stack' # << >>
         /\ Len(stack') = Len(stack) + 1 /\ stack'[Len(stack) + 1] = r
         /\ \A i \in 1..Len(stack) : stack'[i] = stack[i]
         /\ \A q : InDestructor(q)' <=> InDestructor(q) \/ q = r
<1>1. /\ stack' \in Seq(Refs) /\ stack' # << >>
      /\ Len(stack') = Len(stack) + 1 /\ stack'[Len(stack) + 1] = r
      /\ \A i \in 1..Len(stack) : stack'[i] = stack[i]
  OBVIOUS
<1>2. 1..Len(stack') = 1..Len(stack) \cup {Len(stack) + 1}
  BY <1>1
<1>3. \A q : InDestructor(q)' <=> InDestructor(q) \/ q = r
  BY <1>1, <1>2 DEF InDestructor
<1>4. QED BY <1>1, <1>3

\* The innermost destructor ends.
LEMMA PopFacts ==
  ASSUME stack \in Seq(Refs), stack # << >>, stack' = SubSeq(stack, 1, Len(stack) - 1)
  PROVE  /\ stack' \in Seq(Refs) /\ Len(stack) \in 1..Len(stack)
         /\ Len(stack') = Len(stack) - 1
         /\ \A i \in 1..Len(stack') : i \in 1..Len(stack) /\ stack'[i] = stack[i]
         /\ \A q : InDestructor(q) <=> InDestructor(q)' \/ q = stack[Len(stack)]
<1>1. PICK n \in Nat : Len(stack) = n + 1
  <2>1. Len(stack) \in Nat /\ Len(stack) # 0
    OBVIOUS
  <2>2. QED BY <2>1
<1>2. /\ stack' \in Seq(Refs) /\ Len(stack') = n
      /\ \A i \in 1..n : stack'[i] = stack[i]
  BY <1>1
<1>3. 1..Len(stack) = 1..n \cup {n + 1}
  BY <1>1
<1>4. \A q : InDestructor(q) <=> InDestructor(q)' \/ q = stack[Len(stack)]
  BY <1>1, <1>2, <1>3 DEF InDestructor
<1>5. QED BY <1>1, <1>2, <1>3, <1>4

\* What a release comes to.
Kept(r) == ref_count[r] > 1 /\ UNCHANGED <<allocated, ctxCount, held, stack>>
Forgotten(r) ==
  ref_count[r] = 1 /\ Expired /\ allocated' = allocated \ {r} /\ UNCHANGED <<ctxCount, held, stack>>
EnvDropped(r) ==
  /\ ref_count[r] = 1 /\ ~Expired
  /\ allocated' = allocated \ {r} /\ ctxCount' = ctxCount - 1 /\ UNCHANGED <<held, stack>>
ValueDropped(r) ==
  /\ ref_count[r] = 1 /\ ~Expired /\ value[r] # NoVal
  /\ held' = [held EXCEPT ![value[r]] = @ - 1]
  /\ stack' = Append(stack, r)
  /\ UNCHANGED <<allocated, ctxCount>>

LEMMA ReleaseCases ==
  ASSUME TypeOK, NEW r \in Refs, NEW asEnv \in BOOLEAN, Release(r, asEnv)
  PROVE  /\ r \in allocated /\ ref_count[r] \in 1..MaxCount
         /\ ref_count' = [ref_count EXCEPT ![r] = @ - 1] /\ value' = value
         /\ Kept(r) \/ Forgotten(r) \/ EnvDropped(r) \/ ValueDropped(r)
         /\ asEnv => ~ValueDropped(r)
         /\ ~asEnv => ~EnvDropped(r)
<1>1. ref_count[r] \in 0..MaxCount /\ MaxCount \in Nat
  BY ReferencesAssumption DEF TypeOK
<1>2. /\ r \in allocated /\ ref_count[r] > 0
      /\ ref_count' = [ref_count EXCEPT ![r] = @ - 1] /\ value' = value
  BY DEF Release, Handle
<1>3. ref_count[r] > 1 \/ ref_count[r] = 1
  BY <1>1, <1>2
<1>4. CASE ref_count[r] > 1
  <2>1. Kept(r)
    BY <1>4 DEF Release, Kept
  <2>2. ref_count[r] # 1
    BY <1>1, <1>4
  <2>3. QED BY <1>1, <1>2, <2>1, <2>2 DEF EnvDropped, ValueDropped
<1>5. CASE ref_count[r] = 1 /\ asEnv
  <2>1. DropEnvRef(r)
    BY <1>5 DEF Release
  <2>2. Forgotten(r) \/ EnvDropped(r)
    BY <1>5, <2>1 DEF DropEnvRef, Forgotten, EnvDropped
  <2>3. ~ValueDropped(r)
    <3>1. stack' = stack /\ stack \in Seq(Refs)
      BY <2>1 DEF DropEnvRef, TypeOK
    <3>2. Len(Append(stack, r)) # Len(stack)
      BY <3>1
    <3>3. QED BY <3>1, <3>2 DEF ValueDropped
  <2>4. QED BY <1>1, <1>2, <1>5, <2>2, <2>3
<1>6. CASE ref_count[r] = 1 /\ ~asEnv
  <2>1. DropValueRef(r) /\ value[r] # NoVal
    BY <1>6 DEF Release
  <2>2. Forgotten(r) \/ ValueDropped(r)
    BY <1>6, <2>1 DEF DropValueRef, Forgotten, ValueDropped
  <2>3. ctxCount' = ctxCount \/ Expired
    BY <2>1 DEF DropValueRef
  <2>4. ~EnvDropped(r)
    BY <2>3 DEF EnvDropped, TypeOK
  <2>5. QED BY <1>1, <1>2, <1>6, <2>2, <2>4
<1>7. QED BY <1>3, <1>4, <1>5, <1>6

\* A step, by what it does to the references.
LEMMA NextCases ==
  ASSUME Next
  PROVE  \/ \E r \in Refs, v \in Vals \cup {NoVal} : Create(r, v)
         \/ \E r \in Refs : Duplicate(r)
         \/ \E r \in Refs : SetRefWeak(r)
         \/ \E r \in Refs, asEnv \in BOOLEAN : ClientReleases(r, asEnv)
         \/ \E r \in Refs : DestroyEnv(r)
         \/ DestructorEnds
         \/ FreeContext \/ FreeRuntime \/ DestroyMapper
BY DEF Next

-----------------------------------------------------------------------------
(* Type correctness. *)

LEMMA TypeRelease ==
  ASSUME TypeOK, NEW r \in Refs, NEW asEnv \in BOOLEAN, Release(r, asEnv), phase' \in Phases
  PROVE  TypeOK'
<1>1. /\ ref_count[r] \in 1..MaxCount
      /\ ref_count' = [ref_count EXCEPT ![r] = @ - 1] /\ value' = value
      /\ Kept(r) \/ Forgotten(r) \/ EnvDropped(r) \/ ValueDropped(r)
  BY ReleaseCases
<1>2. ref_count' \in [Refs -> 0..MaxCount]
  <2>1. ref_count[r] - 1 \in 0..MaxCount
    BY <1>1, ReferencesAssumption
  <2>2. QED BY <1>1, <2>1 DEF TypeOK
<1>3. allocated' \in SUBSET Refs /\ ctxCount' \in Int
  BY <1>1 DEF TypeOK, Kept, Forgotten, EnvDropped, ValueDropped
<1>4. stack' \in Seq(Refs)
  <2>1. Append(stack, r) \in Seq(Refs)
    BY DEF TypeOK
  <2>2. stack' = stack \/ stack' = Append(stack, r)
    BY <1>1 DEF Kept, Forgotten, EnvDropped, ValueDropped
  <2>3. QED BY <2>1, <2>2 DEF TypeOK
<1>5. held' \in [Vals -> Int]
  <2>1. CASE ValueDropped(r)
    <3>1. value[r] \in Vals
      BY <2>1 DEF ValueDropped, TypeOK
    <3>2. held[value[r]] - 1 \in Int
      BY <3>1 DEF TypeOK
    <3>3. QED BY <2>1, <3>2 DEF ValueDropped, TypeOK
  <2>2. CASE ~ValueDropped(r)
    BY <1>1, <2>2 DEF TypeOK, Kept, Forgotten, EnvDropped
  <2>3. QED BY <2>1, <2>2
<1>6. misused' \in SUBSET Vals
  BY DEF Release, TypeOK
<1>7. QED BY <1>1, <1>2, <1>3, <1>4, <1>5, <1>6 DEF TypeOK

LEMMA TypeStep == TypeOK /\ [Next]_vars => TypeOK'
<1> SUFFICES ASSUME TypeOK, [Next]_vars PROVE TypeOK'
  OBVIOUS
<1>1. ASSUME NEW r \in Refs, NEW v \in Vals \cup {NoVal}, Create(r, v) PROVE TypeOK'
  <2>1. held' \in [Vals -> Int]
    <3>1. CASE v = NoVal
      BY <1>1, <3>1 DEF Create, TypeOK
    <3>2. CASE v # NoVal
      <4>1. v \in Vals /\ held[v] + 1 \in Int
        BY <3>2 DEF TypeOK
      <4>2. QED BY <1>1, <3>2, <4>1 DEF Create, TypeOK
    <3>3. QED BY <3>1, <3>2
  <2>2. ref_count' \in [Refs -> 0..MaxCount]
    BY <1>1, ReferencesAssumption DEF Create, TypeOK
  <2>3. QED BY <1>1, <2>1, <2>2 DEF Create, TypeOK
<1>2. ASSUME NEW r \in Refs, Duplicate(r) PROVE TypeOK'
  <2>1. ref_count[r] + 1 \in 0..MaxCount
    BY <1>2, ReferencesAssumption DEF Duplicate, TypeOK
  <2>2. QED BY <1>2, <2>1 DEF Duplicate, TypeOK
<1>3. ASSUME NEW r \in Refs, SetRefWeak(r) PROVE TypeOK'
  <2>1. held[value[r]] - 1 \in Int
    BY <1>3 DEF SetRefWeak, TypeOK
  <2>2. QED BY <1>3, <2>1 DEF SetRefWeak, TypeOK
<1>4. ASSUME NEW r \in Refs, NEW asEnv \in BOOLEAN, ClientReleases(r, asEnv) PROVE TypeOK'
  <2>1. Release(r, asEnv) /\ phase' \in Phases
    BY <1>4 DEF ClientReleases, TypeOK
  <2>2. QED BY <2>1, TypeRelease
<1>5. ASSUME NEW r \in Refs, DestroyEnv(r) PROVE TypeOK'
  <2>1. Release(r, TRUE) /\ phase' \in Phases
    BY <1>5 DEF DestroyEnv, Phases
  <2>2. QED BY <2>1, TypeRelease
<1>6. CASE DestructorEnds
  <2>1. stack' \in Seq(Refs)
    BY <1>6, PopFacts DEF DestructorEnds, TypeOK
  <2>2. QED BY <1>6, <2>1 DEF DestructorEnds, TypeOK
<1>7. CASE FreeContext
  BY <1>7 DEF FreeContext, TypeOK, Phases
<1>8. CASE FreeRuntime \/ DestroyMapper
  BY <1>8 DEF FreeRuntime, DestroyMapper, TypeOK, Phases
<1>9. CASE UNCHANGED vars
  BY <1>9 DEF vars, TypeOK
<1>10. QED BY <1>1, <1>2, <1>3, <1>4, <1>5, <1>6, <1>7, <1>8, <1>9, NextCases

-----------------------------------------------------------------------------
(* References and their destructors. *)

LEMMA RefsRelease ==
  ASSUME TypeOK, RefsSound, NEW r \in Refs, NEW asEnv \in BOOLEAN, Release(r, asEnv)
  PROVE  RefsSound'
<1>1. /\ r \in allocated /\ ref_count[r] \in 1..MaxCount
      /\ ref_count' = [ref_count EXCEPT ![r] = @ - 1]
      /\ Kept(r) \/ Forgotten(r) \/ EnvDropped(r) \/ ValueDropped(r)
  BY ReleaseCases
<1>2. /\ ref_count'[r] = ref_count[r] - 1
      /\ \A q \in Refs : q # r => ref_count'[q] = ref_count[q]
  BY <1>1 DEF TypeOK
<1>3. \A i \in 1..Len(stack) : stack[i] \in Refs /\ stack[i] # r
  BY <1>1 DEF RefsSound, TypeOK
<1>4. ~InDestructor(r)
  BY <1>3 DEF InDestructor
<1>5. CASE Kept(r)
  <2>1. ref_count'[r] > 0
    BY <1>1, <1>2, <1>5 DEF Kept
  <2>2. \A q : InDestructor(q)' <=> InDestructor(q)
    BY <1>5 DEF Kept, InDestructor
  <2>3. \A q \in Refs : q \in allocated' <=> ref_count'[q] > 0 \/ InDestructor(q)'
    BY <1>1, <1>2, <1>5, <2>1, <2>2 DEF Kept, RefsSound
  <2>4. QED BY <1>2, <1>3, <1>5, <2>3 DEF Kept, RefsSound
<1>6. CASE Forgotten(r) \/ EnvDropped(r)
  <2>1. ref_count'[r] = 0 /\ allocated' = allocated \ {r} /\ stack' = stack
    BY <1>2, <1>6 DEF Forgotten, EnvDropped
  <2>2. \A q : InDestructor(q)' <=> InDestructor(q)
    BY <2>1 DEF InDestructor
  <2>3. \A q \in Refs : q \in allocated' <=> ref_count'[q] > 0 \/ InDestructor(q)'
    BY <1>2, <1>4, <2>1, <2>2 DEF RefsSound
  <2>4. QED BY <1>2, <1>3, <2>1, <2>3 DEF RefsSound
<1>7. CASE ValueDropped(r)
  <2>1. ref_count'[r] = 0 /\ allocated' = allocated /\ stack' = Append(stack, r)
    BY <1>2, <1>7 DEF ValueDropped
  <2>2. /\ Len(stack') = Len(stack) + 1 /\ stack'[Len(stack) + 1] = r
        /\ \A i \in 1..Len(stack) : stack'[i] = stack[i]
        /\ \A q : InDestructor(q)' <=> InDestructor(q) \/ q = r
    BY <2>1, PushFacts DEF TypeOK
  <2>3. \A q \in Refs : q \in allocated' <=> ref_count'[q] > 0 \/ InDestructor(q)'
    BY <1>1, <1>2, <2>1, <2>2 DEF RefsSound
  <2>4. 1..Len(stack') = 1..Len(stack) \cup {Len(stack) + 1} /\ Len(stack) + 1 \notin 1..Len(stack)
    BY <2>2 DEF TypeOK
  <2>5. \A i, j \in 1..Len(stack') : stack'[i] = stack'[j] => i = j
    BY <1>3, <2>2, <2>4 DEF RefsSound
  <2>6. \A i \in 1..Len(stack') : ref_count'[stack'[i]] = 0
    BY <1>2, <1>3, <2>1, <2>2, <2>4 DEF RefsSound
  <2>7. QED BY <2>3, <2>5, <2>6 DEF RefsSound
<1>8. QED BY <1>1, <1>5, <1>6, <1>7

\* RefsSound looks at nothing but the references, their counts and the stack.
LEMMA RefsKept ==
  ASSUME RefsSound, UNCHANGED <<allocated, ref_count, stack>>
  PROVE  RefsSound'
BY DEF RefsSound, InDestructor

LEMMA RefsStep == TypeOK /\ RefsSound /\ [Next]_vars => RefsSound'
<1> SUFFICES ASSUME TypeOK, RefsSound, [Next]_vars PROVE RefsSound'
  OBVIOUS
<1>1. ASSUME NEW r \in Refs, NEW v \in Vals \cup {NoVal}, Create(r, v) PROVE RefsSound'
  <2>1. /\ r \notin allocated /\ allocated' = allocated \cup {r} /\ stack' = stack
        /\ ref_count'[r] = 1 /\ \A q \in Refs : q # r => ref_count'[q] = ref_count[q]
    BY <1>1 DEF Create, Creatable, TypeOK
  <2>2. ~InDestructor(r)
    BY <2>1 DEF RefsSound
  <2>3. \A i \in 1..Len(stack) : stack[i] \in Refs /\ stack[i] # r
    BY <2>2 DEF InDestructor, TypeOK
  <2>4. \A q : InDestructor(q)' <=> InDestructor(q)
    BY <2>1 DEF InDestructor
  <2>5. \A q \in Refs : q \in allocated' <=> ref_count'[q] > 0 \/ InDestructor(q)'
    BY <2>1, <2>4 DEF RefsSound
  <2>6. QED BY <2>1, <2>3, <2>5 DEF RefsSound
<1>2. ASSUME NEW r \in Refs, Duplicate(r) PROVE RefsSound'
  <2>1. /\ r \in allocated /\ ref_count[r] > 0 /\ ref_count[r] \in Int
        /\ UNCHANGED <<allocated, stack>>
        /\ ref_count'[r] = ref_count[r] + 1
        /\ \A q \in Refs : q # r => ref_count'[q] = ref_count[q]
    BY <1>2 DEF Duplicate, Handle, TypeOK
  <2>2. \A i \in 1..Len(stack) : stack[i] \in Refs /\ stack[i] # r
    BY <2>1 DEF RefsSound, TypeOK
  <2>3. \A q : InDestructor(q)' <=> InDestructor(q)
    BY <2>1 DEF InDestructor
  <2>4. ref_count'[r] > 0
    BY <2>1
  <2>5. \A q \in Refs : q \in allocated' <=> ref_count'[q] > 0 \/ InDestructor(q)'
    BY <2>1, <2>3, <2>4 DEF RefsSound
  <2>6. QED BY <2>1, <2>2, <2>5 DEF RefsSound
<1>3. ASSUME NEW r \in Refs, NEW asEnv \in BOOLEAN, ClientReleases(r, asEnv) PROVE RefsSound'
  BY <1>3, RefsRelease DEF ClientReleases
<1>4. ASSUME NEW r \in Refs, DestroyEnv(r) PROVE RefsSound'
  BY <1>4, RefsRelease DEF DestroyEnv
<1>5. CASE DestructorEnds
  <2>0. PICK r \in Refs : r = stack[Len(stack)]
    BY <1>5, PopFacts DEF DestructorEnds, TypeOK
  <2>1. /\ stack # << >> /\ stack' = SubSeq(stack, 1, Len(stack) - 1)
        /\ allocated' = allocated \ {r} /\ ref_count' = ref_count
    BY <1>5, <2>0 DEF DestructorEnds
  <2>2. /\ Len(stack) \in 1..Len(stack) /\ Len(stack') = Len(stack) - 1
        /\ \A i \in 1..Len(stack') : i \in 1..Len(stack) /\ stack'[i] = stack[i]
        /\ \A q : InDestructor(q) <=> InDestructor(q)' \/ q = r
    BY <2>0, <2>1, PopFacts DEF TypeOK
  <2>3. ref_count[r] = 0
    BY <2>0, <2>2 DEF RefsSound
  <2>4. \A i \in 1..Len(stack') : i # Len(stack)
    BY <2>2
  <2>5. \A i \in 1..Len(stack') : stack'[i] # r
    BY <2>0, <2>2, <2>4 DEF RefsSound
  <2>6. ~InDestructor(r)'
    BY <2>5 DEF InDestructor
  <2>7. \A q \in Refs : q \in allocated' <=> ref_count'[q] > 0 \/ InDestructor(q)'
    <3>1. \A q \in Refs : q # r => (q \in allocated' <=> ref_count'[q] > 0 \/ InDestructor(q)')
      BY <2>1, <2>2 DEF RefsSound
    <3>2. ~(ref_count[r] > 0)
      BY <2>3
    <3>3. QED BY <2>1, <2>6, <3>1, <3>2
  <2>8. QED BY <2>1, <2>2, <2>7 DEF RefsSound
<1>6. ASSUME NEW r \in Refs, SetRefWeak(r) PROVE RefsSound'
  BY <1>6, RefsKept DEF SetRefWeak
<1>7. CASE FreeContext \/ FreeRuntime \/ DestroyMapper \/ UNCHANGED vars
  BY <1>7, RefsKept DEF FreeContext, FreeRuntime, DestroyMapper, vars
<1>8. QED BY <1>1, <1>2, <1>3, <1>4, <1>5, <1>6, <1>7, NextCases

LEMMA StackStep == TypeOK /\ StackLive /\ [Next]_vars => StackLive'
<1> SUFFICES ASSUME TypeOK, StackLive, [Next]_vars PROVE StackLive'
  OBVIOUS
<1>1. ASSUME NEW r \in Refs, NEW asEnv \in BOOLEAN, ClientReleases(r, asEnv) PROVE StackLive'
  <2>1. phase' = phase /\ (Kept(r) \/ Forgotten(r) \/ EnvDropped(r) \/ ValueDropped(r))
    BY <1>1, ReleaseCases DEF ClientReleases
  <2>2. CASE ValueDropped(r)
    BY <1>1, <2>1, <2>2
       DEF ValueDropped, ClientReleases, ClientRuns, MainRuns, Expired, StackLive
  <2>3. CASE ~ValueDropped(r)
    BY <2>1, <2>3 DEF Kept, Forgotten, EnvDropped, StackLive
  <2>4. QED BY <2>2, <2>3
<1>2. ASSUME NEW r \in Refs, DestroyEnv(r) PROVE StackLive'
  BY <1>2 DEF DestroyEnv, StackLive
<1>3. CASE DestructorEnds
  BY <1>3 DEF DestructorEnds, StackLive
<1>4. ASSUME NEW r \in Refs, NEW v \in Vals \cup {NoVal}, Create(r, v) PROVE StackLive'
  BY <1>4 DEF Create, StackLive
<1>5. ASSUME NEW r \in Refs, Duplicate(r) \/ SetRefWeak(r) PROVE StackLive'
  BY <1>5 DEF Duplicate, SetRefWeak, StackLive
<1>6. CASE FreeContext \/ FreeRuntime \/ DestroyMapper \/ UNCHANGED vars
  BY <1>6 DEF FreeContext, FreeRuntime, DestroyMapper, vars, StackLive
<1>7. QED BY <1>1, <1>2, <1>3, <1>4, <1>5, <1>6, NextCases

-----------------------------------------------------------------------------
(* Counting. *)

LEMMA AllocatedFinite == TypeOK => IsFiniteSet(allocated)
BY FiniteRefs, FS_Subset DEF TypeOK

LEMMA CardinalityOfAllocated ==
  ASSUME TypeOK, NEW r \in Refs
  PROVE  /\ Cardinality(allocated) \in Nat
         /\ r \in allocated => /\ Cardinality(allocated) > 0
                             /\ Cardinality(allocated \ {r}) = Cardinality(allocated) - 1
         /\ r \notin allocated => Cardinality(allocated \cup {r}) = Cardinality(allocated) + 1
<1>1. IsFiniteSet(allocated)
  BY AllocatedFinite
<1>2. Cardinality(allocated) \in Nat
  BY <1>1, FS_CardinalityType
<1>3. Cardinality(allocated) = 0 <=> allocated = {}
  BY <1>1, FS_EmptySet
<1>4. Cardinality(allocated \ {r})
        = IF r \in allocated THEN Cardinality(allocated) - 1 ELSE Cardinality(allocated)
  BY <1>1, FS_RemoveElement
<1>5. Cardinality(allocated \cup {r})
        = IF r \in allocated THEN Cardinality(allocated) ELSE Cardinality(allocated) + 1
  BY <1>1, FS_AddElement
<1>6. r \in allocated => Cardinality(allocated) > 0
  BY <1>2, <1>3
<1>7. QED BY <1>2, <1>4, <1>5, <1>6

\* The context loses one reference when a reference goes, if the environment lives.
LEMMA CountRelease ==
  ASSUME TypeOK, ContextCounted, NEW r \in Refs, NEW asEnv \in BOOLEAN, Release(r, asEnv),
         phase' = phase \/ (phase = "running" /\ phase' = "cleanup")
  PROVE  ContextCounted'
<1>1. /\ r \in allocated
      /\ Kept(r) \/ Forgotten(r) \/ EnvDropped(r) \/ ValueDropped(r)
  BY ReleaseCases
<1>2. OwnedByRuntime' = OwnedByRuntime /\ OwnedByRuntime \in Int /\ (Expired <=> phase' = "gone")
  BY DEF OwnedByRuntime, Expired
<1>3. CASE Forgotten(r)
  BY <1>2, <1>3 DEF Forgotten, ContextCounted
<1>4. CASE EnvDropped(r)
  <2>1. ctxCount' = ctxCount - 1 /\ allocated' = allocated \ {r} /\ phase # "gone"
    BY <1>4 DEF EnvDropped, Expired
  <2>2. /\ Cardinality(allocated) \in Nat
        /\ Cardinality(allocated') = Cardinality(allocated) - 1
    BY <1>1, <2>1, CardinalityOfAllocated
  <2>3. QED BY <1>2, <2>1, <2>2 DEF ContextCounted
<1>5. CASE Kept(r) \/ ValueDropped(r)
  <2>1. ctxCount' = ctxCount /\ allocated' = allocated
    BY <1>5 DEF Kept, ValueDropped
  <2>2. QED BY <1>2, <2>1 DEF ContextCounted, Expired
<1>6. QED BY <1>1, <1>3, <1>4, <1>5

LEMMA CountStep == IInv /\ [Next]_vars => ContextCounted'
<1> SUFFICES ASSUME IInv, [Next]_vars PROVE ContextCounted'
  OBVIOUS
<1> USE DEF IInv
<1>1. ASSUME NEW r \in Refs, NEW v \in Vals \cup {NoVal}, Create(r, v) PROVE ContextCounted'
  <2>1. /\ r \notin allocated /\ allocated' = allocated \cup {r}
        /\ ctxCount' = ctxCount + 1 /\ phase = "running" /\ phase' = phase
    BY <1>1 DEF Create, Creatable
  <2>2. /\ Cardinality(allocated) \in Nat
        /\ Cardinality(allocated') = Cardinality(allocated) + 1
    BY <2>1, CardinalityOfAllocated
  <2>3. QED BY <2>1, <2>2 DEF ContextCounted, OwnedByRuntime
<1>2. ASSUME NEW r \in Refs, NEW asEnv \in BOOLEAN, ClientReleases(r, asEnv)
      PROVE  ContextCounted'
  BY <1>2, CountRelease DEF ClientReleases
<1>3. ASSUME NEW r \in Refs, DestroyEnv(r) PROVE ContextCounted'
  BY <1>3, CountRelease DEF DestroyEnv
<1>4. CASE DestructorEnds
  <2>0. PICK r \in Refs : r = stack[Len(stack)] /\ InDestructor(r)
    BY <1>4, PopFacts DEF DestructorEnds, TypeOK
  <2>1. /\ allocated' = allocated \ {r} /\ ctxCount' = ctxCount - 1 /\ phase' = phase
        /\ phase # "gone"
    BY <1>4, <2>0 DEF DestructorEnds, StackLive
  <2>2. r \in allocated
    BY <2>0 DEF RefsSound
  <2>3. /\ Cardinality(allocated) \in Nat
        /\ Cardinality(allocated') = Cardinality(allocated) - 1
    BY <2>1, <2>2, CardinalityOfAllocated
  <2>4. QED BY <2>1, <2>3 DEF ContextCounted, OwnedByRuntime
<1>5. CASE FreeContext
  <2>1. Cardinality(allocated) \in Int
    BY AllocatedFinite, FS_CardinalityType
  <2>2. QED BY <1>5, <2>1 DEF FreeContext, ContextCounted, OwnedByRuntime
<1>6. CASE FreeRuntime \/ DestroyMapper
  BY <1>6 DEF FreeRuntime, DestroyMapper, ContextCounted, OwnedByRuntime
<1>7. ASSUME NEW r \in Refs, Duplicate(r) \/ SetRefWeak(r) PROVE ContextCounted'
  BY <1>7 DEF Duplicate, SetRefWeak, ContextCounted, OwnedByRuntime
<1>8. CASE UNCHANGED vars
  BY <1>8 DEF vars, ContextCounted, OwnedByRuntime
<1>9. QED BY <1>1, <1>2, <1>3, <1>4, <1>5, <1>6, <1>7, <1>8, NextCases

LEMMA Initially == Init => IInv
<1> SUFFICES ASSUME Init PROVE IInv
  OBVIOUS
<1>1. PICK r \in Refs : allocated = {r} /\ ref_count = [q \in Refs |-> IF q = r THEN 1 ELSE 0]
  BY DEF Init
<1>2. TypeOK
  <2>1. ref_count \in [Refs -> 0..MaxCount]
    BY <1>1, ReferencesAssumption
  <2>2. allocated \in SUBSET Refs /\ value \in [Refs -> Vals \cup {NoVal}]
        /\ held \in [Vals -> Int] /\ misused \in SUBSET Vals /\ stack \in Seq(Refs) /\ phase \in Phases /\ ctxCount \in Int
    BY <1>1 DEF Init, Phases
  <2>3. QED BY <2>1, <2>2 DEF TypeOK
<1>3. RefsSound
  BY <1>1 DEF Init, RefsSound, InDestructor
<1>4. ContextCounted
  <2>1. Cardinality(allocated) = 1
    BY <1>1, FS_Singleton
  <2>2. QED BY <2>1 DEF Init, ContextCounted, OwnedByRuntime
<1>5. QED BY <1>2, <1>3, <1>4 DEF IInv, StackLive, Init

LEMMA Inductive == IInv /\ [Next]_vars => IInv'
BY TypeStep, RefsStep, StackStep, CountStep DEF IInv

LEMMA Invariant == Spec => []IInv
BY Initially, Inductive, PTL DEF Spec

\* The variables of References keep their types, whatever the constants.
THEOREM TypeCorrect == Spec => []TypeOK
<1>1. IInv => TypeOK
  BY DEF IInv
<1>2. QED BY <1>1, Invariant, PTL

\* A reference exists as long as a handle to it does or its destructor runs, and that
\* destructor runs once, whatever finalizers release meanwhile.
THEOREM ReferencesLive == Spec => []RefsSound
<1>1. IInv => RefsSound
  BY DEF IInv
<1>2. QED BY <1>1, Invariant, PTL

\* The JSContext is held once by every reference there is, and by the runtime until
\* it gives it up: for every use of references, as weak or as environments included.
THEOREM ContextAlwaysCounted == Spec => []ContextCounted
<1>1. IInv => ContextCounted
  BY DEF IInv
<1>2. QED BY <1>1, Invariant, PTL

\* No reference touches the context or a value once the runtime is gone.
THEOREM NothingTouchedLate == Spec => TouchesLiving
<1> DEFINE Living == ctxCount' # ctxCount \/ held' # held
                     => phase \in {"running", "cleanup", "freeing"} /\ ctxCount > 0
<1>1. IInv /\ [Next]_vars => [Living]_vars
  <2> SUFFICES ASSUME IInv, Next PROVE Living
    OBVIOUS
  <2> USE DEF IInv
  <2>1. ASSUME NEW r \in Refs, r \in allocated, phase \in {"running", "cleanup", "freeing"}
        PROVE  Living
    <3>1. Cardinality(allocated) \in Nat /\ Cardinality(allocated) > 0
      BY <2>1, CardinalityOfAllocated
    <3>2. QED BY <2>1, <3>1 DEF ContextCounted, OwnedByRuntime
  <2>2. ASSUME phase \in {"running", "cleanup"} PROVE Living
    <3>1. Cardinality(allocated) \in Nat
      BY AllocatedFinite, FS_CardinalityType
    <3>2. QED BY <2>2, <3>1 DEF ContextCounted, OwnedByRuntime
  <2>3. ASSUME NEW r \in Refs, NEW v \in Vals \cup {NoVal}, Create(r, v) PROVE Living
    BY <2>2, <2>3 DEF Create, Creatable
  <2>4. ASSUME NEW r \in Refs, NEW asEnv \in BOOLEAN, ClientReleases(r, asEnv) PROVE Living
    <3>1. /\ r \in allocated
          /\ Kept(r) \/ Forgotten(r) \/ EnvDropped(r) \/ ValueDropped(r)
      BY <2>4, ReleaseCases DEF ClientReleases
    <3>2. CASE Kept(r) \/ Forgotten(r)
      BY <3>2 DEF Kept, Forgotten
    <3>3. CASE EnvDropped(r) \/ ValueDropped(r)
      <4>1. phase # "gone"
        BY <3>3 DEF EnvDropped, ValueDropped, Expired
      <4>2. phase \in {"running", "cleanup", "freeing"}
        BY <2>4, <4>1 DEF ClientReleases, ClientRuns, MainRuns, StackLive
      <4>3. QED BY <2>1, <3>1, <4>2
    <3>4. QED BY <3>1, <3>2, <3>3
  <2>5. ASSUME NEW r \in Refs, Duplicate(r) PROVE Living
    BY <2>5 DEF Duplicate
  <2>6. ASSUME NEW r \in Refs, SetRefWeak(r) \/ DestroyEnv(r) PROVE Living
    BY <2>2, <2>6 DEF SetRefWeak, DestroyEnv
  <2>7. CASE DestructorEnds
    <3>1. PICK r \in Refs : InDestructor(r)
      BY <2>7, PopFacts DEF DestructorEnds, TypeOK, InDestructor
    <3>2. r \in allocated /\ phase \in {"running", "cleanup", "freeing"}
      BY <2>7, <3>1 DEF DestructorEnds, RefsSound, StackLive
    <3>3. QED BY <2>1, <3>2
  <2>8. CASE FreeContext
    BY <2>2, <2>8 DEF FreeContext
  <2>9. CASE FreeRuntime \/ DestroyMapper
    BY <2>9 DEF FreeRuntime, DestroyMapper
  <2>10. QED BY <2>3, <2>4, <2>5, <2>6, <2>7, <2>8, <2>9, NextCases
<1>2. QED BY <1>1, Invariant, PTL DEF Spec, TouchesLiving

-----------------------------------------------------------------------------
(* Values. *)

Holders(v) == {r \in allocated : value[r] = v /\ ~InDestructor(r)}

LEMMA HoldersFinite ==
  ASSUME TypeOK, NEW v \in Vals, NEW r \in Refs
  PROVE  /\ Cardinality(Holders(v)) \in Nat
         /\ Cardinality(Holders(v) \cup {r})
              = IF r \in Holders(v) THEN Cardinality(Holders(v)) ELSE Cardinality(Holders(v)) + 1
         /\ Cardinality(Holders(v) \ {r})
              = IF r \in Holders(v) THEN Cardinality(Holders(v)) - 1 ELSE Cardinality(Holders(v))
<1>1. Holders(v) \in SUBSET allocated
  BY DEF Holders
<1>2. IsFiniteSet(Holders(v))
  BY <1>1, AllocatedFinite, FS_Subset
<1>3. QED BY <1>2, FS_CardinalityType, FS_AddElement, FS_RemoveElement

\* As long as nobody comes to hold or let go of v, its count stays right.
LEMMA HeldKept ==
  ASSUME ValuesHeld, phase' # "gone" => phase # "gone", misused \subseteq misused',
         \A v \in Vals \ misused' : held'[v] = held[v] /\ Holders(v)' = Holders(v)
  PROVE  ValuesHeld'
<1>1. \A v \in Vals \ misused' : Cardinality(Holders(v)') = Cardinality(Holders(v))
  OBVIOUS
<1>2. QED BY <1>1 DEF ValuesHeld, Holders

LEMMA HeldRelease ==
  ASSUME IInv, ValuesHeld, NEW r \in Refs, NEW asEnv \in BOOLEAN, Release(r, asEnv),
         phase' # "gone" => phase # "gone"
  PROVE  ValuesHeld'
<1> USE DEF IInv
<1>1. /\ r \in allocated /\ ref_count[r] > 0 /\ value' = value
      /\ Kept(r) \/ Forgotten(r) \/ EnvDropped(r) \/ ValueDropped(r)
      /\ ~asEnv => ~EnvDropped(r)
      /\ misused \subseteq misused'
      /\ asEnv => value[r] \in misused' \cup {NoVal}
  <2>1. /\ misused \subseteq misused'
        /\ asEnv => value[r] \in misused' \cup {NoVal}
    BY DEF Release
  <2>2. r \in allocated /\ ref_count[r] > 0
    BY DEF Release, Handle
  <2>3. QED BY <2>1, <2>2, ReleaseCases
<1>2. CASE Kept(r)
  <2>1. \A v \in Vals : held'[v] = held[v] /\ Holders(v)' = Holders(v)
    BY <1>1, <1>2 DEF Kept, Holders, InDestructor
  <2>2. QED BY <1>1, <2>1, HeldKept
<1>3. CASE Forgotten(r)
  BY <1>3 DEF Forgotten, Expired, ValuesHeld
<1>4. CASE EnvDropped(r)
  <2>1. \A v \in Vals \ misused' : v # value[r]
    BY <1>1, <1>4, ReferencesAssumption
  <2>2. \A v \in Vals \ misused' : held'[v] = held[v] /\ Holders(v)' = Holders(v)
    BY <1>1, <1>4, <2>1 DEF EnvDropped, Holders, InDestructor
  <2>3. QED BY <1>1, <2>2, HeldKept
<1>5. CASE ValueDropped(r)
  <2>1. /\ allocated' = allocated /\ held' = [held EXCEPT ![value[r]] = @ - 1]
        /\ value[r] \in Vals /\ phase # "gone"
        /\ \A q : InDestructor(q)' <=> InDestructor(q) \/ q = r
    BY <1>5, PushFacts DEF ValueDropped, Expired, TypeOK
  <2>2. ~InDestructor(r)
    BY <1>1 DEF RefsSound, InDestructor
  <2>3. r \in Holders(value[r])
    BY <1>1, <2>2 DEF Holders
  <2>4. SUFFICES ASSUME NEW v \in Vals \ misused' PROVE held'[v] = Cardinality(Holders(v)')
    BY DEF ValuesHeld, Holders
  <2>5. held[v] = Cardinality(Holders(v))
    BY <1>1, <2>1 DEF ValuesHeld, Holders
  <2>6. CASE v = value[r]
    <3>1. Holders(v)' = Holders(v) \ {r}
      BY <1>1, <2>1 DEF Holders
    <3>2. Cardinality(Holders(v)') = Cardinality(Holders(v)) - 1
      BY <2>3, <2>6, <3>1, HoldersFinite
    <3>3. held'[v] = held[v] - 1
      BY <2>1, <2>6 DEF TypeOK
    <3>4. QED BY <2>5, <3>2, <3>3
  <2>7. CASE v # value[r]
    <3>1. Holders(v)' = Holders(v)
      BY <1>1, <2>1, <2>7 DEF Holders
    <3>2. held'[v] = held[v]
      BY <2>1, <2>7 DEF TypeOK
    <3>3. QED BY <2>5, <3>1, <3>2
  <2>8. QED BY <2>6, <2>7
<1>6. QED BY <1>1, <1>2, <1>3, <1>4, <1>5

LEMMA HeldStep == IInv /\ ValuesHeld /\ [Next]_vars => ValuesHeld'
<1> SUFFICES ASSUME IInv, ValuesHeld, [Next]_vars PROVE ValuesHeld'
  OBVIOUS
<1> USE DEF IInv
<1>1. ASSUME NEW r \in Refs, NEW w \in Vals \cup {NoVal}, Create(r, w) PROVE ValuesHeld'
  <2>1. /\ r \notin allocated /\ allocated' = allocated \cup {r} /\ stack' = stack
        /\ value' = [value EXCEPT ![r] = w] /\ phase = "running" /\ misused' = misused
        /\ held' = IF w = NoVal THEN held ELSE [held EXCEPT ![w] = @ + 1]
    BY <1>1 DEF Create, Creatable
  <2>2. ~InDestructor(r) /\ \A q : InDestructor(q)' <=> InDestructor(q)
    BY <2>1 DEF RefsSound, InDestructor
  <2>3. value'[r] = w /\ \A q \in Refs : q # r => value'[q] = value[q]
    BY <2>1 DEF TypeOK
  <2>4. SUFFICES ASSUME NEW v \in Vals \ misused' PROVE held'[v] = Cardinality(Holders(v)')
    BY DEF ValuesHeld, Holders
  <2>5. held[v] = Cardinality(Holders(v)) /\ r \notin Holders(v) /\ v # NoVal
    BY <2>1, ReferencesAssumption DEF ValuesHeld, Holders
  <2>6. CASE v = w
    <3>1. Holders(v)' = Holders(v) \cup {r}
      BY <2>1, <2>2, <2>3, <2>6 DEF Holders, TypeOK
    <3>2. Cardinality(Holders(v)') = Cardinality(Holders(v)) + 1
      BY <2>5, <3>1, HoldersFinite
    <3>3. held'[v] = held[v] + 1
      BY <2>1, <2>5, <2>6 DEF TypeOK
    <3>4. QED BY <2>5, <3>2, <3>3
  <2>7. CASE v # w
    <3>1. Holders(v)' = Holders(v)
      BY <2>1, <2>2, <2>3, <2>7 DEF Holders, TypeOK
    <3>2. held'[v] = held[v]
      BY <2>1, <2>7 DEF TypeOK
    <3>3. QED BY <2>5, <3>1, <3>2
  <2>8. QED BY <2>6, <2>7
<1>2. ASSUME NEW r \in Refs, NEW asEnv \in BOOLEAN, ClientReleases(r, asEnv)
      PROVE  ValuesHeld'
  BY <1>2, HeldRelease DEF ClientReleases
<1>3. ASSUME NEW r \in Refs, DestroyEnv(r) PROVE ValuesHeld'
  BY <1>3, HeldRelease DEF DestroyEnv
<1>4. CASE DestructorEnds
  <2>0. PICK r \in Refs : /\ r = stack[Len(stack)]
                          /\ \A q : InDestructor(q) <=> InDestructor(q)' \/ q = r
    BY <1>4, PopFacts DEF DestructorEnds, TypeOK
  <2>1. allocated' = allocated \ {r} /\ value' = value /\ held' = held /\ phase' = phase
        /\ misused' = misused
    BY <1>4, <2>0 DEF DestructorEnds
  <2>2. \A v \in Vals : Holders(v)' = Holders(v)
    BY <2>0, <2>1 DEF Holders
  <2>3. QED BY <2>1, <2>2, HeldKept
<1>5. ASSUME NEW r \in Refs, SetRefWeak(r) PROVE ValuesHeld'
  <2>1. \A v \in Vals \ misused' : held'[v] = held[v] /\ Holders(v)' = Holders(v)
    BY <1>5 DEF SetRefWeak, TypeOK, Holders, InDestructor
  <2>2. misused \subseteq misused' /\ phase' = phase
    BY <1>5 DEF SetRefWeak
  <2>3. QED BY <2>1, <2>2, HeldKept
<1>6. ASSUME NEW r \in Refs, Duplicate(r) PROVE ValuesHeld'
  <2>1. \A v \in Vals : held'[v] = held[v] /\ Holders(v)' = Holders(v)
    BY <1>6 DEF Duplicate, Holders, InDestructor
  <2>2. QED BY <1>6, <2>1, HeldKept DEF Duplicate
<1>7. CASE FreeContext \/ FreeRuntime \/ DestroyMapper \/ UNCHANGED vars
  <2>1. \A v \in Vals : held'[v] = held[v] /\ Holders(v)' = Holders(v)
    BY <1>7 DEF FreeContext, FreeRuntime, DestroyMapper, vars, Holders, InDestructor
  <2>2. (phase' # "gone" => phase # "gone") /\ misused' = misused
    BY <1>7 DEF FreeContext, FreeRuntime, DestroyMapper, vars
  <2>3. QED BY <2>1, <2>2, HeldKept
<1>8. QED BY <1>1, <1>2, <1>3, <1>4, <1>5, <1>6, <1>7, NextCases

\* A value none of whose references was made weak or released as an environment is
\* held once by every reference to it that is not being destroyed.
THEOREM ValuesAlwaysHeld == Spec => []ValuesHeld
<1>1. Init => ValuesHeld
  <2> SUFFICES ASSUME Init, NEW v \in Vals \ misused PROVE held[v] = Cardinality(Holders(v))
    BY DEF ValuesHeld, Holders
  <2>1. Holders(v) = {}
    BY ReferencesAssumption DEF Init, Holders
  <2>2. QED BY <2>1, FS_EmptySet DEF Init
<1>2. QED BY <1>1, HeldStep, Invariant, PTL DEF Spec
=============================================================================
