------------------------ MODULE CycleCollectorProofs ------------------------
(***************************************************************************)
(* What the collector frees, for any heap: any number of values and parts, *)
(* and any graph between them.                                             *)
(***************************************************************************)
EXTENDS CycleCollector, FiniteSetTheorems, TLAPS

(***************************************************************************)
(* The inductive invariant.  In each phase a count is the references from  *)
(* outside plus those from the objects in Included: all of them, or those  *)
(* the pass has not yet taken away, or has given back.                     *)
(***************************************************************************)
Included ==
  IF phase = "decref" THEN todo
  ELSE IF phase = "scan" THEN On("obj") \ todo
  ELSE IF phase = "restore" THEN On("obj") \cup (On("tmp") \ todo)
  ELSE Objs

Trial ==
  \A o \in Objs : status[o] # "free" => ref_count[o] = held[o] + Count(edges, Included, o)

\* Where an object is says what it is.
Lists ==
  \A o \in Objs :
    /\ list[o] = "none" <=> status[o] = "free"
    /\ status[o] = "shell" => list[o] = "zero" /\ o \in Values /\ phase = "cycles"
    /\ list[o] = "zero" =>
         \/ phase = "dead" /\ o \in Values /\ status[o] = "live" /\ ref_count[o] = 0
         \/ phase = "cycles" /\ (o \in Values => status[o] = "shell")
    /\ list[o] = "tmp" => phase \in {"decref", "scan", "restore", "cycles"}
    /\ held[o] > 0 => o \in Values /\ status[o] = "live"
    /\ o \in todo => \/ phase \in {"decref", "scan"} /\ list[o] = "obj"
                     \/ phase = "restore" /\ list[o] = "tmp"

\* Parts refer to values, and exist only while something refers to them.
Owned ==
  /\ \A p, q \in Objs : <<p, q>> \in edges /\ p \in Parts => q \in Values
  /\ \A s \in Parts : status[s] # "free" => \E p \in Objs : <<p, s>> \in edges

Marks ==
  \A o \in Objs : list[o] = "obj" =>
    /\ phase = "decref" => (mark[o] = 0 <=> o \in todo)
    /\ phase # "decref" /\ o \notin todo => mark[o] = 0

\* Once visited by gc_decref, an object is where its count puts it.
Sorted ==
  phase \in {"decref", "scan"} =>
    \A o \in Objs :
      /\ list[o] = "tmp" => ref_count[o] = 0
      /\ list[o] = "obj" /\ (phase = "decref" => o \notin todo) => ref_count[o] > 0

\* What gc_scan keeps can be reached, and in the end nothing else can.
Kept ==
  phase \in {"scan", "restore"} => \A S \in SUBSET Objs : Closed(S) => On("obj") \subseteq S
Complete == phase \in {"restore", "cycles"} => Closed(On("obj"))

IInv ==
  /\ TypeOK /\ NoDanglingEdge /\ Owned /\ Lists
  /\ Trial /\ Marks /\ Sorted /\ Kept /\ Complete

-----------------------------------------------------------------------------
(* Counting references in a graph E. *)

LEMMA CountType ==
  ASSUME NEW E, NEW S \in SUBSET Objs, NEW q
  PROVE  IsFiniteSet({p \in S : <<p, q>> \in E}) /\ Count(E, S, q) \in Nat
<1>1. {p \in S : <<p, q>> \in E} \in SUBSET Objs
  OBVIOUS
<1>2. IsFiniteSet({p \in S : <<p, q>> \in E})
  BY <1>1, FiniteHeap, FS_Subset DEF Objs
<1>3. QED BY <1>2, FS_CardinalityType DEF Count

LEMMA CountNone ==
  ASSUME NEW E, NEW S \in SUBSET Objs, NEW q
  PROVE  Count(E, S, q) = 0 <=> \A p \in S : <<p, q>> \notin E
<1> PICK R : R = {p \in S : <<p, q>> \in E}
  OBVIOUS
<1>0. IsFiniteSet(R)
  <2>1. R \in SUBSET Objs
    OBVIOUS
  <2>2. QED BY <2>1, FiniteHeap, FS_Subset DEF Objs
<1>1. Count(E, S, q) = 0 <=> R = {}
  BY <1>0, FS_EmptySet DEF Count
<1>2. QED BY <1>1

\* Only the edges from S matter, ...
LEMMA CountSame ==
  ASSUME NEW E, NEW F, NEW S, NEW q, \A p \in S : <<p, q>> \in E <=> <<p, q>> \in F
  PROVE  Count(E, S, q) = Count(F, S, q)
<1>1. {p \in S : <<p, q>> \in E} = {p \in S : <<p, q>> \in F}
  OBVIOUS
<1>2. QED BY <1>1 DEF Count

\* ... and of S only those that refer to q.
LEMMA CountSources ==
  ASSUME NEW E, NEW S, NEW T, NEW q,
         \A p : <<p, q>> \in E => (p \in S <=> p \in T)
  PROVE  Count(E, S, q) = Count(E, T, q)
<1>1. {p \in S : <<p, q>> \in E} = {p \in T : <<p, q>> \in E}
  OBVIOUS
<1>2. QED BY <1>1 DEF Count

LEMMA CountSplit ==
  ASSUME NEW E, NEW A \in SUBSET Objs, NEW B \in SUBSET Objs, NEW q, A \cap B = {}
  PROVE  Count(E, A \cup B, q) = Count(E, A, q) + Count(E, B, q)
<1> DEFINE CA == {p \in A : <<p, q>> \in E}
           CB == {p \in B : <<p, q>> \in E}
<1>1. IsFiniteSet(CA) /\ IsFiniteSet(CB)
  BY CountType
<1>2. /\ CA \cup CB = {p \in A \cup B : <<p, q>> \in E}
      /\ CA \cap CB = {}
  OBVIOUS
<1>3. Cardinality(CA) \in Nat /\ Cardinality(CB) \in Nat /\ Cardinality(CA \cap CB) = 0
  BY <1>1, <1>2, FS_CardinalityType, FS_EmptySet
<1>4. Cardinality(CA \cup CB) = Cardinality(CA) + Cardinality(CB) - Cardinality(CA \cap CB)
  <2> HIDE DEF CA, CB
  <2>1. QED BY <1>1, FS_Union
<1>5. Cardinality(CA \cup CB) = Cardinality(CA) + Cardinality(CB)
  <2> HIDE DEF CA, CB
  <2>1. QED BY <1>3, <1>4
<1>6. QED BY <1>2, <1>5 DEF Count

LEMMA CountOne ==
  ASSUME NEW E, NEW p, NEW q
  PROVE  Count(E, {p}, q) = IF <<p, q>> \in E THEN 1 ELSE 0
<1>1. CASE <<p, q>> \in E
  <2>1. {r \in {p} : <<r, q>> \in E} = {p}
    BY <1>1
  <2>2. QED BY <1>1, <2>1, FS_Singleton DEF Count
<1>2. CASE <<p, q>> \notin E
  <2>1. {r \in {p} : <<r, q>> \in E} = {}
    BY <1>2
  <2>2. QED BY <1>2, <2>1, FS_EmptySet DEF Count
<1>3. QED BY <1>1, <1>2

\* One member more.
LEMMA CountGrows ==
  ASSUME NEW E, NEW S \in SUBSET Objs, NEW p \in Objs \ S, NEW q
  PROVE  Count(E, S \cup {p}, q) = Count(E, S, q) + Count(E, {p}, q)
<1>1. {p} \in SUBSET Objs /\ S \cap {p} = {}
  OBVIOUS
<1>2. QED BY <1>1, CountSplit

\* One member less.
LEMMA CountShrinks ==
  ASSUME NEW E, NEW S \in SUBSET Objs, NEW p \in S, NEW q
  PROVE  Count(E, S, q) = Count(E, S \ {p}, q) + Count(E, {p}, q)
<1>1. S \ {p} \in SUBSET Objs /\ p \in Objs \ (S \ {p}) /\ (S \ {p}) \cup {p} = S
  OBVIOUS
<1>2. Count(E, (S \ {p}) \cup {p}, q) = Count(E, S \ {p}, q) + Count(E, {p}, q)
  <2> DEFINE R == S \ {p}
  <2>1. R \in SUBSET Objs /\ p \in Objs \ R
    BY <1>1
  <2> HIDE DEF R
  <2>2. Count(E, R \cup {p}, q) = Count(E, R, q) + Count(E, {p}, q)
    BY <2>1, CountGrows
  <2>3. QED BY <2>2 DEF R
<1>3. QED BY <1>1, <1>2

\* One edge more.
LEMMA CountEdge ==
  ASSUME NEW E, NEW S \in SUBSET Objs, NEW p \in S, NEW q, <<p, q>> \notin E
  PROVE  /\ Count(E \cup {<<p, q>>}, S, q) = Count(E, S, q) + 1
         /\ \A r : r # q => Count(E \cup {<<p, q>>}, S, r) = Count(E, S, r)
<1> DEFINE F == E \cup {<<p, q>>}
<1>1. Count(F, S, q) = Count(F, S \ {p}, q) + 1
  <2>1. Count(F, {p}, q) = 1
    BY CountOne
  <2> HIDE DEF F
  <2>2. QED BY <2>1, CountShrinks
<1>2. Count(E, S, q) = Count(E, S \ {p}, q) + 0
  <2>1. Count(E, {p}, q) = 0
    BY CountOne
  <2>2. QED BY <2>1, CountShrinks
<1>3. Count(F, S \ {p}, q) = Count(E, S \ {p}, q)
  <2>1. \A r \in S \ {p} : <<r, q>> \in F <=> <<r, q>> \in E
    OBVIOUS
  <2> HIDE DEF F
  <2>2. QED BY <2>1, CountSame
<1>4. Count(E, S \ {p}, q) \in Nat
  BY CountType
<1>5. \A r : r # q => Count(F, S, r) = Count(E, S, r)
  <2> TAKE r
  <2> HAVE r # q
  <2>1. \A s \in S : <<s, r>> \in F <=> <<s, r>> \in E
    OBVIOUS
  <2> HIDE DEF F
  <2>2. QED BY <2>1, CountSame
<1>6. Count(F, S, q) = Count(E, S, q) + 1
  <2> HIDE DEF F
  <2>1. QED BY <1>1, <1>2, <1>3, <1>4
<1>7. QED BY <1>5, <1>6

\* Who refers to q if one does.
LEMMA CountOnly ==
  ASSUME NEW E, NEW S \in SUBSET Objs, NEW q, NEW p \in S, <<p, q>> \in E
  PROVE  Count(E, S, q) = 1 <=> \A r \in S : <<r, q>> \in E => r = p
<1>1. Count(E, S, q) = Count(E, S \ {p}, q) + 1
  <2>1. Count(E, {p}, q) = 1
    BY CountOne
  <2>2. QED BY <2>1, CountShrinks
<1>2. Count(E, S \ {p}, q) \in Nat
  BY CountType
<1>3. S \ {p} \in SUBSET Objs
  OBVIOUS
<1>4. Count(E, S \ {p}, q) = 0 <=> \A r \in S \ {p} : <<r, q>> \notin E
  BY <1>3, CountNone
<1>5. QED BY <1>1, <1>2, <1>4

-----------------------------------------------------------------------------
(* What the invariant says of one object, or of one edge. *)

LEMMA EdgeFacts ==
  ASSUME IInv, NEW p, NEW q, <<p, q>> \in edges
  PROVE  /\ p \in Objs /\ q \in Objs /\ status[p] = "live" /\ status[q] # "free"
         /\ p \in Parts => q \in Values
BY DEF IInv, TypeOK, NoDanglingEdge, Owned

LEMMA IncludedType == ASSUME IInv PROVE Included \in SUBSET Objs
BY DEF IInv, TypeOK, Included, On

LEMMA CountAtLeast ==
  ASSUME IInv, NEW o \in Objs, status[o] # "free"
  PROVE  /\ ref_count[o] \in Nat /\ held[o] \in Nat /\ ref_count[o] >= held[o]
         /\ Count(edges, Included, o) \in Nat
         /\ ref_count[o] = held[o] + Count(edges, Included, o)
<1>1. Count(edges, Included, o) \in Nat
  BY IncludedType, CountType
<1>2. held[o] \in Nat
  BY CollectorAssumption DEF IInv, TypeOK
<1>3. ref_count[o] = held[o] + Count(edges, Included, o)
  BY DEF IInv, Trial
<1>4. QED BY <1>1, <1>2, <1>3

LEMMA Referred ==
  ASSUME IInv, NEW p \in Included, NEW q \in Objs, <<p, q>> \in edges
  PROVE  ref_count[q] > 0
<1>1. status[q] # "free"
  BY EdgeFacts
<1>2. Count(edges, Included, q) # 0
  BY IncludedType, CountNone
<1>3. QED BY <1>1, <1>2, CountAtLeast

\* Outside the passes everything that has a claim on its memory is on gc_obj_list.
LEMMA ObjClosed ==
  ASSUME IInv, phase \in {"idle", "dead", "restore", "cycles"}
  PROVE  Closed(On("obj"))
<1>1. CASE phase \in {"restore", "cycles"}
  BY <1>1 DEF IInv, Complete
<1>2. CASE phase \in {"idle", "dead"}
  <2>1. Included = Objs
    BY <1>2 DEF Included
  <2>2. \A o \in Objs : status[o] # "free" /\ ref_count[o] > 0 => list[o] = "obj"
    <3> TAKE o \in Objs
    <3> HAVE status[o] # "free" /\ ref_count[o] > 0
    <3>1. list[o] \in {"obj", "zero"}
      BY <1>2 DEF IInv, TypeOK, Lists
    <3>2. list[o] # "zero"
      BY <1>2 DEF IInv, Lists
    <3>3. QED BY <3>1, <3>2
  <2>3. \A o \in Objs : held[o] > 0 => o \in On("obj")
    <3> TAKE o \in Objs
    <3> HAVE held[o] > 0
    <3>1. status[o] # "free"
      BY DEF IInv, Lists
    <3>2. ref_count[o] > 0
      BY <3>1, CountAtLeast
    <3>3. QED BY <2>2, <3>1, <3>2 DEF On
  <2>4. \A p, q \in Objs : p \in On("obj") /\ <<p, q>> \in edges => q \in On("obj")
    BY <2>1, <2>2, Referred, EdgeFacts DEF On
  <2>5. QED BY <2>3, <2>4 DEF Closed
<1>3. QED BY <1>1, <1>2

-----------------------------------------------------------------------------
(* The passes. *)

\* Nothing of a pass touches the graph.
LEMMA GraphKept ==
  ASSUME IInv, UNCHANGED <<status, edges, held>>
  PROVE  NoDanglingEdge' /\ Owned' /\ \A S : Closed(S)' <=> Closed(S)
<1>1. NoDanglingEdge'
  BY DEF IInv, NoDanglingEdge
<1>2. Owned'
  BY DEF IInv, Owned
<1>3. \A S : Closed(S)' <=> Closed(S)
  BY DEF Closed
<1>4. QED BY <1>1, <1>2, <1>3

\* What p refers to, as a function.
Out(p) == [q \in Objs |-> Count(edges, {p}, q)]

LEMMA OutFacts ==
  ASSUME NEW p \in Objs
  PROVE  /\ Out(p) \in [Objs -> {0, 1}]
         /\ \A q \in Objs : Out(p)[q] = Count(edges, {p}, q)
         /\ \A q \in Objs : Out(p)[q] = 1 <=> <<p, q>> \in edges
<1>1. \A q \in Objs : Count(edges, {p}, q) \in {0, 1} /\ (Count(edges, {p}, q) = 1 <=> <<p, q>> \in edges)
  <2> TAKE q \in Objs
  <2>1. Count(edges, {p}, q) = IF <<p, q>> \in edges THEN 1 ELSE 0
    BY CountOne
  <2>2. QED BY <2>1
<1>2. QED BY <1>1 DEF Out

LEMMA StepRunGC ==
  ASSUME IInv, RunGC
  PROVE  IInv'
<1> USE DEF RunGC
<1>1. TypeOK'
  BY DEF IInv, TypeOK, On, Phases
<1>2. NoDanglingEdge' /\ Owned'
  BY GraphKept
<1>3. Lists'
  BY DEF IInv, Lists, On
<1>4. Trial'
  <2>1. Included = Objs /\ Included' = On("obj")
    BY DEF Included
  <2>2. \A o, p : <<p, o>> \in edges => (p \in On("obj") <=> p \in Objs)
    <3>1. \A p \in Objs : status[p] = "live" => list[p] = "obj"
      BY DEF IInv, TypeOK, Lists
    <3>2. QED BY <3>1, EdgeFacts DEF On
  <2>3. \A o : Count(edges, On("obj"), o) = Count(edges, Objs, o)
    BY <2>2, CountSources
  <2>4. Trial' <=> \A o \in Objs : status[o] # "free" =>
                      ref_count[o] = held[o] + Count(edges, On("obj"), o)
    BY <2>1 DEF Trial
  <2>5. \A o \in Objs : status[o] # "free" =>
                      ref_count[o] = held[o] + Count(edges, Objs, o)
    BY <2>1 DEF IInv, Trial
  <2>6. QED BY <2>3, <2>4, <2>5
<1>5. Marks'
  BY DEF IInv, Marks, Lists, On
<1>6. Sorted'
  <2>1. \A o \in Objs : list[o] # "tmp"
    BY DEF IInv, Lists
  <2>2. QED BY <2>1 DEF Sorted, On
<1>7. Kept' /\ Complete'
  BY DEF Kept, Complete
<1>8. QED BY <1>1, <1>2, <1>3, <1>4, <1>5, <1>6, <1>7 DEF IInv

LEMMA StepDecref ==
  ASSUME IInv, NEW p \in Objs, Decref(p)
  PROVE  IInv'
<1> DEFINE one == Out(p)
           moved(q) == /\ ref_count'[q] = 0
                       /\ q = p \/ (one[q] > 0 /\ mark[q] = 1)
<1>1. /\ phase = "decref" /\ phase' = "decref" /\ p \in todo /\ todo' = todo \ {p}
      /\ UNCHANGED <<status, edges, held>>
      /\ mark' = [mark EXCEPT ![p] = 1]
  BY DEF Decref
<1>2. /\ one \in [Objs -> {0, 1}]
      /\ \A q \in Objs : one[q] = 1 <=> <<p, q>> \in edges
      /\ \A q \in Objs : Count(edges, {p}, q) = one[q]
  BY OutFacts
<1> HIDE DEF one
<1>3. /\ DOMAIN ref_count' = Objs /\ ref_count' = [q \in Objs |-> ref_count'[q]]
      /\ \A q \in Objs : ref_count'[q] = ref_count[q] - one[q]
  <2>1. \A q \in Objs : ref_count'[q] = ref_count[q] - Count(edges, {p}, q)
    BY DEF Decref, References
  <2>2. QED BY <1>2, <2>1 DEF Decref
<1>4. /\ list' = [q \in Objs |-> list'[q]]
      /\ \A q \in Objs : list'[q] = IF moved(q) THEN "tmp" ELSE list[q]
  <2>1. \A q \in Objs :
          list'[q] = IF /\ ref_count[q] - Count(edges, {p}, q) = 0
                        /\ q = p \/ (Count(edges, {p}, q) > 0 /\ mark[q] = 1)
                     THEN "tmp" ELSE list[q]
    BY DEF Decref, References
  <2>2. \A q \in Objs :
          list'[q] = IF /\ ref_count[q] - one[q] = 0
                        /\ q = p \/ (one[q] > 0 /\ mark[q] = 1)
                     THEN "tmp" ELSE list[q]
    BY <1>2, <2>1
  <2>3. list' = [q \in Objs |-> list'[q]]
    BY DEF Decref
  <2>4. QED BY <1>3, <2>2, <2>3
<1>5. \A q \in Objs : moved(q) => status[q] # "free" /\ (q \notin todo \/ q = p) /\ list[q] \in {"obj", "tmp"}
  <2> TAKE q \in Objs
  <2> HAVE moved(q)
  <2>1. status[p] # "free"
    BY <1>1 DEF IInv, Lists
  <2>2. status[q] # "free"
    <3>1. CASE q = p
      BY <2>1, <3>1
    <3>2. CASE one[q] > 0
      <4>1. <<p, q>> \in edges
        BY <1>2, <3>2
      <4>2. QED BY <4>1, EdgeFacts
    <3>3. QED BY <3>1, <3>2
  <2>3. list[q] \in {"obj", "tmp"}
    BY <1>1, <2>2 DEF IInv, TypeOK, Lists
  <2>4. q \notin todo \/ q = p
    BY <1>1 DEF IInv, Lists, Marks
  <2>5. QED BY <2>2, <2>3, <2>4
<1>6. TypeOK'
  <2>1. ref_count' \in [Objs -> Int]
    <3>1. \A q \in Objs : ref_count'[q] \in Int
      BY <1>2, <1>3 DEF IInv, TypeOK
    <3>2. QED BY <1>3, <3>1
  <2>2. list' \in [Objs -> {"none", "obj", "tmp", "zero"}]
    <3>1. \A q \in Objs : list'[q] \in {"none", "obj", "tmp", "zero"}
      BY <1>4 DEF IInv, TypeOK
    <3>2. QED BY <1>4, <3>1
  <2>3. mark' \in [Objs -> {0, 1}] /\ todo' \in SUBSET Objs
    BY <1>1 DEF IInv, TypeOK
  <2>4. QED BY <1>1, <2>1, <2>2, <2>3 DEF IInv, TypeOK
<1>7. NoDanglingEdge' /\ Owned'
  BY <1>1, GraphKept
<1>8. Lists'
  BY <1>1, <1>4, <1>5 DEF IInv, Lists
<1>9. Trial'
  <2>1. Included = todo /\ Included' = todo \ {p} /\ todo \in SUBSET Objs
    BY <1>1 DEF Included, IInv, TypeOK
  <2>2. ASSUME NEW o \in Objs, status[o] # "free"
        PROVE  ref_count'[o] = held[o] + Count(edges, todo \ {p}, o)
    <3>1. ref_count[o] = held[o] + Count(edges, todo, o)
      BY <2>1, <2>2, CountAtLeast
    <3>2. Count(edges, todo, o) = Count(edges, todo \ {p}, o) + one[o]
      BY <1>1, <1>2, <2>1, CountShrinks
    <3>3. Count(edges, todo \ {p}, o) \in Nat
      <4>1. todo \ {p} \in SUBSET Objs
        BY <2>1
      <4>2. QED BY <4>1, CountType
    <3>4. one[o] \in Nat /\ held[o] \in Nat
      BY <1>2, <2>2, CountAtLeast
    <3>5. QED BY <1>3, <3>1, <3>2, <3>3, <3>4
  <2>3. QED BY <1>1, <2>1, <2>2 DEF Trial
<1>10. Marks'
  <2>1. \A q \in Objs : list'[q] = "obj" => list[q] = "obj"
    BY <1>4
  <2>2. \A q \in Objs : mark'[q] = IF q = p THEN 1 ELSE mark[q]
    BY <1>1 DEF IInv, TypeOK
  <2>3. QED BY <1>1, <2>1, <2>2 DEF IInv, Marks
<1>11. Sorted'
  <2>1. ASSUME NEW o \in Objs, list'[o] = "tmp" PROVE ref_count'[o] = 0
    <3>1. CASE moved(o)
      BY <3>1
    <3>2. CASE ~moved(o)
      <4>1. ref_count[o] = 0 /\ status[o] # "free"
        BY <1>1, <1>4, <2>1, <3>2 DEF IInv, Sorted, Lists
      <4>2. <<p, o>> \notin edges
        BY <1>1, <4>1, Referred DEF Included
      <4>3. QED BY <1>2, <1>3, <4>1, <4>2
    <3>3. QED BY <3>1, <3>2
  <2>2. ASSUME NEW o \in Objs, list'[o] = "obj", o \notin todo' PROVE ref_count'[o] > 0
    <3>1. ~moved(o) /\ list[o] = "obj"
      BY <1>4, <2>2
    <3>2. status[o] # "free"
      BY <3>1 DEF IInv, Lists
    <3>3. ref_count[o] \in Nat
      BY <3>2, CountAtLeast
    <3>4. ref_count'[o] >= 0
      <4>1. CASE <<p, o>> \in edges
        BY <1>1, <1>2, <1>3, <3>3, <4>1, Referred DEF Included
      <4>2. CASE <<p, o>> \notin edges
        BY <1>2, <1>3, <3>3, <4>2
      <4>3. QED BY <4>1, <4>2
    <3>5. CASE o = p
      BY <1>2, <1>3, <3>1, <3>3, <3>4, <3>5
    <3>6. CASE o # p
      <4>1. o \notin todo /\ ref_count[o] > 0 /\ mark[o] = 1
        BY <1>1, <2>2, <3>1, <3>6 DEF IInv, Sorted, Marks, TypeOK
      <4>2. ref_count'[o] # 0
        BY <1>2, <1>3, <3>1, <3>3, <4>1
      <4>3. QED BY <1>2, <1>3, <3>3, <3>4, <4>2
    <3>7. QED BY <3>5, <3>6
  <2>3. QED BY <1>1, <2>1, <2>2 DEF Sorted
<1>12. Kept' /\ Complete'
  BY <1>1 DEF Kept, Complete
<1>13. QED BY <1>6, <1>7, <1>8, <1>9, <1>10, <1>11, <1>12 DEF IInv

\* gc_decref is through: nothing is left of the counts but what is held.
LEMMA StepDecrefEnds ==
  ASSUME IInv, PassEnds("decref", "scan", On("obj"))
  PROVE  IInv'
<1> USE DEF PassEnds
<1>1. TypeOK'
  BY DEF IInv, TypeOK, On, Phases
<1>2. NoDanglingEdge' /\ Owned' /\ \A S : Closed(S)' <=> Closed(S)
  BY GraphKept
<1>3. Lists'
  BY DEF IInv, Lists, On
<1>4. Included = {} /\ Included' = {}
  BY DEF Included, On
<1>5. Trial'
  BY <1>4 DEF IInv, Trial
<1>6. Marks'
  BY DEF IInv, Marks, On
<1>7. Sorted'
  BY DEF IInv, Sorted, On
<1>8. Kept'
  <2>1. \A o \in Objs : list[o] = "obj" => held[o] > 0
    <3> TAKE o \in Objs
    <3> HAVE list[o] = "obj"
    <3>1. status[o] # "free" /\ ref_count[o] > 0
      BY DEF IInv, Lists, Sorted
    <3>2. Count(edges, {}, o) = 0
      BY CountNone
    <3>3. QED BY <1>4, <3>1, <3>2, CountAtLeast
  <2>2. \A S : Closed(S) => On("obj") \subseteq S
    BY <2>1 DEF Closed, On
  <2>3. On("obj")' = On("obj")
    BY DEF On
  <2>4. QED BY <1>2, <2>2, <2>3 DEF Kept
<1>9. Complete'
  BY DEF Complete
<1>10. QED BY <1>1, <1>2, <1>3, <1>5, <1>6, <1>7, <1>8, <1>9 DEF IInv

LEMMA StepScan ==
  ASSUME IInv, NEW p \in Objs, Scan(p)
  PROVE  IInv'
<1> DEFINE one == Out(p)
           back(q) == one[q] > 0 /\ ref_count'[q] = 1
<1>1. /\ phase = "scan" /\ phase' = "scan" /\ p \in todo
      /\ UNCHANGED <<status, edges, held>>
      /\ list[p] = "obj"
  BY DEF Scan, IInv, Lists
<1>2. /\ one \in [Objs -> {0, 1}]
      /\ \A q \in Objs : one[q] = 1 <=> <<p, q>> \in edges
      /\ \A q \in Objs : Count(edges, {p}, q) = one[q]
  BY OutFacts
<1> HIDE DEF one
<1>3. /\ ref_count' = [q \in Objs |-> ref_count'[q]]
      /\ \A q \in Objs : ref_count'[q] = ref_count[q] + one[q]
  <2>1. \A q \in Objs : ref_count'[q] = ref_count[q] + Count(edges, {p}, q)
    BY DEF Scan, References
  <2>2. QED BY <1>2, <2>1 DEF Scan
<1>4. /\ list' = [q \in Objs |-> list'[q]] /\ mark' = [q \in Objs |-> mark'[q]]
      /\ \A q \in Objs : list'[q] = IF back(q) THEN "obj" ELSE list[q]
      /\ \A q \in Objs : mark'[q] = IF q = p \/ back(q) THEN 0 ELSE mark[q]
      /\ \A q \in Objs : q \in todo' <=> (q \in todo /\ q # p) \/ back(q)
      /\ todo' \subseteq Objs
  <2>1. todo \subseteq Objs
    BY DEF IInv, TypeOK
  <2>2. /\ \A q \in Objs :
             list'[q] = IF Count(edges, {p}, q) > 0 /\ ref_count[q] + Count(edges, {p}, q) = 1
                        THEN "obj" ELSE list[q]
        /\ \A q \in Objs :
             mark'[q] = IF \/ q = p
                           \/ Count(edges, {p}, q) > 0 /\ ref_count[q] + Count(edges, {p}, q) = 1
                        THEN 0 ELSE mark[q]
        /\ \A q \in Objs :
             q \in todo' <=> \/ q \in todo /\ q # p
                             \/ Count(edges, {p}, q) > 0 /\ ref_count[q] + Count(edges, {p}, q) = 1
        /\ todo' \subseteq Objs
    BY <2>1 DEF Scan, References
  <2>3. /\ list' = [q \in Objs |-> list'[q]] /\ mark' = [q \in Objs |-> mark'[q]]
    BY DEF Scan
  <2>4. \A q \in Objs : back(q) <=>
          Count(edges, {p}, q) > 0 /\ ref_count[q] + Count(edges, {p}, q) = 1
    BY <1>2, <1>3
  <2>5. QED BY <2>2, <2>3, <2>4
<1>5. \A q \in Objs : back(q) =>
        status[q] # "free" /\ list[q] = "tmp" /\ <<p, q>> \in edges /\ q # p /\ q \notin todo
  <2> TAKE q \in Objs
  <2> HAVE back(q)
  <2>1. <<p, q>> \in edges /\ one[q] = 1
    BY <1>2
  <2>2. status[q] # "free"
    BY <2>1, EdgeFacts
  <2>3. ref_count[q] = 0
    BY <1>3, <2>1, <2>2, CountAtLeast
  <2>4. list[q] \in {"obj", "tmp"}
    BY <1>1, <2>2 DEF IInv, TypeOK, Lists
  <2>5. list[q] = "tmp"
    BY <1>1, <2>3, <2>4 DEF IInv, Sorted
  <2>6. q # p /\ q \notin todo
    BY <1>1, <2>5 DEF IInv, Lists
  <2>7. QED BY <2>1, <2>2, <2>5, <2>6
<1>6. TypeOK'
  <2>1. ref_count' \in [Objs -> Int]
    <3>1. \A q \in Objs : ref_count'[q] \in Int
      BY <1>2, <1>3 DEF IInv, TypeOK
    <3>2. QED BY <1>3, <3>1
  <2>2. list' \in [Objs -> {"none", "obj", "tmp", "zero"}]
    <3>1. \A q \in Objs : list'[q] \in {"none", "obj", "tmp", "zero"}
      BY <1>4 DEF IInv, TypeOK
    <3>2. QED BY <1>4, <3>1
  <2>3. mark' \in [Objs -> {0, 1}]
    <3>1. \A q \in Objs : mark'[q] \in {0, 1}
      BY <1>4 DEF IInv, TypeOK
    <3>2. QED BY <1>4, <3>1
  <2>4. QED BY <1>1, <1>4, <2>1, <2>2, <2>3 DEF IInv, TypeOK
<1>7. NoDanglingEdge' /\ Owned' /\ \A S : Closed(S)' <=> Closed(S)
  BY <1>1, GraphKept
<1>8. Lists'
  <2> SUFFICES ASSUME NEW o \in Objs
               PROVE  /\ list'[o] = "none" <=> status[o] = "free"
                      /\ status[o] = "shell" => list'[o] = "zero"
                      /\ list'[o] # "zero"
                      /\ o \in todo' => list'[o] = "obj"
                      /\ held[o] > 0 => o \in Values /\ status[o] = "live"
    BY <1>1 DEF Lists
  <2>1. /\ list[o] = "none" <=> status[o] = "free"
        /\ status[o] # "shell" /\ list[o] # "zero"
        /\ held[o] > 0 => o \in Values /\ status[o] = "live"
        /\ o \in todo => list[o] = "obj"
    BY <1>1 DEF IInv, Lists
  <2>2. CASE back(o)
    BY <1>4, <1>5, <2>1, <2>2
  <2>3. CASE ~back(o)
    BY <1>4, <2>1, <2>3
  <2>4. QED BY <2>2, <2>3
<1>9. Trial'
  <2> DEFINE done == On("obj") \ todo
  <2>1. Included = done /\ Included' = done \cup {p}
    <3>1. Included' = On("obj")' \ todo'
      BY <1>1 DEF Included
    <3>2. \A q \in Objs : q \in On("obj")' \ todo' <=> q \in done \cup {p}
      BY <1>1, <1>4, <1>5 DEF On
    <3>3. On("obj")' \ todo' \subseteq Objs /\ done \cup {p} \subseteq Objs
      BY DEF On
    <3>4. On("obj")' \ todo' = done \cup {p}
      BY <3>2, <3>3
    <3>5. QED BY <1>1, <3>1, <3>4 DEF Included
  <2>2. done \in SUBSET Objs /\ p \in Objs \ done
    BY <1>1 DEF On
  <2> HIDE DEF done
  <2>3. ASSUME NEW o \in Objs, status[o] # "free"
        PROVE  ref_count'[o] = held[o] + Count(edges, done \cup {p}, o)
    <3>1. ref_count[o] = held[o] + Count(edges, done, o)
      BY <2>1, <2>3, CountAtLeast
    <3>2. Count(edges, done \cup {p}, o) = Count(edges, done, o) + one[o]
      BY <1>2, <2>2, CountGrows
    <3>3. Count(edges, done, o) \in Nat /\ held[o] \in Nat
      BY <2>2, <2>3, CountType, CountAtLeast
    <3>4. one[o] \in Nat
      BY <1>2
    <3>5. QED BY <1>3, <3>1, <3>2, <3>3, <3>4
  <2>4. QED BY <1>1, <2>1, <2>3 DEF Trial
<1>10. Marks'
  BY <1>1, <1>4 DEF IInv, Marks
<1>11. Sorted'
  <2>1. ASSUME NEW o \in Objs, list'[o] = "tmp" PROVE ref_count'[o] = 0
    <3>1. ~back(o) /\ list[o] = "tmp"
      BY <1>4, <2>1
    <3>2. ref_count[o] = 0
      BY <1>1, <3>1 DEF IInv, Sorted
    <3>3. QED BY <1>2, <1>3, <3>1, <3>2
  <2>2. ASSUME NEW o \in Objs, list'[o] = "obj" PROVE ref_count'[o] > 0
    <3>1. CASE back(o)
      BY <3>1
    <3>2. CASE ~back(o)
      <4>1. list[o] = "obj"
        BY <1>4, <2>2, <3>2
      <4>2. ref_count[o] > 0 /\ ref_count[o] \in Int
        BY <1>1, <4>1 DEF IInv, Sorted, TypeOK
      <4>3. QED BY <1>2, <1>3, <4>2
    <3>3. QED BY <3>1, <3>2
  <2>3. QED BY <2>1, <2>2 DEF Sorted
<1>12. Kept'
  <2>1. ASSUME NEW S \in SUBSET Objs, Closed(S), NEW o \in Objs, list'[o] = "obj" PROVE o \in S
    <3>1. On("obj") \subseteq S
      BY <1>1, <2>1 DEF IInv, Kept
    <3>2. CASE back(o)
      BY <1>1, <1>5, <2>1, <3>1, <3>2 DEF Closed, On
    <3>3. CASE ~back(o)
      BY <1>4, <2>1, <3>1, <3>3 DEF On
    <3>4. QED BY <3>2, <3>3
  <2>2. \A S \in SUBSET Objs : Closed(S) => On("obj")' \subseteq S
    BY <2>1 DEF On
  <2>3. QED BY <1>7, <2>2 DEF Kept
<1>13. Complete'
  BY <1>1 DEF Complete
<1>14. QED BY <1>6, <1>7, <1>8, <1>9, <1>10, <1>11, <1>12, <1>13 DEF IInv

\* The first loop of gc_scan is through: nothing kept refers to what is not.
LEMMA StepScanEnds ==
  ASSUME IInv, PassEnds("scan", "restore", On("tmp"))
  PROVE  IInv'
<1> USE DEF PassEnds
<1>1. TypeOK'
  BY DEF IInv, TypeOK, On, Phases
<1>2. /\ NoDanglingEdge' /\ Owned' /\ \A S : Closed(S)' <=> Closed(S)
      /\ On("obj")' = On("obj") /\ On("tmp")' = On("tmp")
  BY GraphKept DEF On
<1>3. Lists'
  BY DEF IInv, Lists, On
<1>4. Included = On("obj") /\ Included' = On("obj")
  BY <1>2 DEF Included
<1>5. Trial'
  BY <1>4 DEF IInv, Trial
<1>6. Marks'
  BY DEF IInv, Marks, On
<1>7. Sorted'
  BY DEF Sorted
<1>8. Kept'
  BY <1>2 DEF IInv, Kept
<1>9. Complete'
  <2>1. \A o \in Objs : status[o] # "free" /\ ref_count[o] > 0 => list[o] = "obj"
    <3> TAKE o \in Objs
    <3> HAVE status[o] # "free" /\ ref_count[o] > 0
    <3>1. list[o] \in {"obj", "tmp"}
      BY DEF IInv, TypeOK, Lists
    <3>2. list[o] # "tmp"
      BY DEF IInv, Sorted
    <3>3. QED BY <3>1, <3>2
  <2>2. \A o \in Objs : held[o] > 0 => o \in On("obj")
    <3> TAKE o \in Objs
    <3> HAVE held[o] > 0
    <3>1. status[o] # "free"
      BY DEF IInv, Lists
    <3>2. ref_count[o] > 0
      BY <3>1, CountAtLeast
    <3>3. QED BY <2>1, <3>1, <3>2 DEF On
  <2>3. \A p, q \in Objs : p \in On("obj") /\ <<p, q>> \in edges => q \in On("obj")
    BY <1>4, <2>1, Referred, EdgeFacts DEF On
  <2>4. Closed(On("obj"))
    BY <2>2, <2>3 DEF Closed
  <2>5. Closed(On("obj"))'
    BY <1>2, <2>4 DEF Closed
  <2>6. QED BY <2>5 DEF Complete
<1>10. QED BY <1>1, <1>2, <1>3, <1>5, <1>6, <1>7, <1>8, <1>9 DEF IInv

LEMMA StepRestore ==
  ASSUME IInv, NEW p \in Objs, Restore(p)
  PROVE  IInv'
<1> DEFINE one == Out(p)
<1>1. /\ phase = "restore" /\ phase' = "restore" /\ p \in todo /\ todo' = todo \ {p}
      /\ UNCHANGED <<status, edges, held, list, mark>>
      /\ list[p] = "tmp"
  BY DEF Restore, IInv, Lists
<1>2. /\ one \in [Objs -> {0, 1}]
      /\ \A q \in Objs : Count(edges, {p}, q) = one[q]
  BY OutFacts
<1> HIDE DEF one
<1>3. /\ ref_count' = [q \in Objs |-> ref_count'[q]]
      /\ \A q \in Objs : ref_count'[q] = ref_count[q] + one[q]
  <2>1. \A q \in Objs : ref_count'[q] = ref_count[q] + Count(edges, {p}, q)
    BY DEF Restore, References
  <2>2. QED BY <1>2, <2>1 DEF Restore
<1>4. TypeOK'
  <2>1. \A q \in Objs : ref_count'[q] \in Int
    BY <1>2, <1>3 DEF IInv, TypeOK
  <2>2. ref_count' \in [Objs -> Int]
    BY <1>3, <2>1
  <2>3. QED BY <1>1, <2>2 DEF IInv, TypeOK
<1>5. /\ NoDanglingEdge' /\ Owned' /\ \A S : Closed(S)' <=> Closed(S)
      /\ On("obj")' = On("obj") /\ On("tmp")' = On("tmp")
  BY <1>1, GraphKept DEF On
<1>6. Lists'
  BY <1>1 DEF IInv, Lists
<1>7. Trial'
  <2> DEFINE done == On("obj") \cup (On("tmp") \ todo)
  <2>1. Included = done /\ Included' = done \cup {p}
    <3>1. Included' = On("obj") \cup (On("tmp") \ (todo \ {p}))
      BY <1>1, <1>5 DEF Included
    <3>2. p \in On("tmp")
      BY <1>1 DEF On
    <3>3. QED BY <1>1, <3>1, <3>2 DEF Included
  <2>2. done \in SUBSET Objs /\ p \in Objs \ done
    BY <1>1 DEF On
  <2> HIDE DEF done
  <2>3. ASSUME NEW o \in Objs, status[o] # "free"
        PROVE  ref_count'[o] = held[o] + Count(edges, done \cup {p}, o)
    <3>1. ref_count[o] = held[o] + Count(edges, done, o)
      BY <2>1, <2>3, CountAtLeast
    <3>2. Count(edges, done \cup {p}, o) = Count(edges, done, o) + one[o]
      BY <1>2, <2>2, CountGrows
    <3>3. Count(edges, done, o) \in Nat /\ held[o] \in Nat
      BY <2>2, <2>3, CountType, CountAtLeast
    <3>4. one[o] \in Nat
      BY <1>2
    <3>5. QED BY <1>3, <3>1, <3>2, <3>3, <3>4
  <2>4. QED BY <1>1, <2>1, <2>3 DEF Trial
<1>8. Marks'
  <2>1. \A o \in Objs : list[o] = "obj" => o \notin todo
    BY <1>1 DEF IInv, Lists
  <2>2. QED BY <1>1, <2>1 DEF IInv, Marks
<1>9. Sorted'
  BY <1>1 DEF Sorted
<1>10. Kept' /\ Complete'
  <2>1. Kept'
    BY <1>1, <1>5 DEF IInv, Kept
  <2>2. Closed(On("obj"))
    BY <1>1 DEF IInv, Complete
  <2>3. Closed(On("obj"))'
    BY <1>1, <1>5, <2>2 DEF Closed
  <2>4. QED BY <2>1, <2>3 DEF Complete
<1>11. QED BY <1>4, <1>5, <1>6, <1>7, <1>8, <1>9, <1>10 DEF IInv

\* gc_scan is through: all references have been given back.
LEMMA StepRestoreEnds ==
  ASSUME IInv, PassEnds("restore", "cycles", {})
  PROVE  IInv'
<1> USE DEF PassEnds
<1>1. TypeOK'
  BY DEF IInv, TypeOK, Phases
<1>2. NoDanglingEdge' /\ Owned'
  BY GraphKept
<1>3. Lists'
  BY DEF IInv, Lists
<1>4. Trial'
  <2> DEFINE all == On("obj") \cup On("tmp")
  <2>1. Included = all /\ Included' = Objs
    BY DEF Included
  <2>2. \A o, p : <<p, o>> \in edges => (p \in all <=> p \in Objs)
    <3>1. \A p \in Objs : status[p] = "live" => list[p] \in {"obj", "tmp"}
      BY DEF IInv, TypeOK, Lists
    <3>2. QED BY <3>1, EdgeFacts DEF On
  <2> HIDE DEF all
  <2>3. \A o : Count(edges, all, o) = Count(edges, Objs, o)
    BY <2>2, CountSources
  <2>4. Trial' <=> \A o \in Objs : status[o] # "free" =>
                      ref_count[o] = held[o] + Count(edges, Objs, o)
    BY <2>1 DEF Trial
  <2>5. \A o \in Objs : status[o] # "free" =>
                      ref_count[o] = held[o] + Count(edges, all, o)
    BY <2>1 DEF IInv, Trial
  <2>6. QED BY <2>3, <2>4, <2>5
<1>5. Marks'
  BY DEF IInv, Marks
<1>6. Sorted' /\ Kept'
  BY DEF Sorted, Kept
<1>7. Complete'
  <2>1. Closed(On("obj"))
    BY DEF IInv, Complete
  <2>2. Closed(On("obj"))'
    BY <2>1 DEF Closed, On
  <2>3. QED BY <2>2 DEF Complete
<1>8. QED BY <1>1, <1>2, <1>3, <1>4, <1>5, <1>6, <1>7 DEF IInv

-----------------------------------------------------------------------------
(* Client and script. *)

\* Outside the passes nothing is to be visited and all references count.
LEMMA NoPass ==
  ASSUME IInv, phase \in {"idle", "dead", "cycles"}
  PROVE  /\ todo = {} /\ Included = Objs
         /\ \A o \in Objs : list[o] = "obj" => mark[o] = 0
         /\ \A o \in Objs : status[o] # "free" =>
              ref_count[o] = held[o] + Count(edges, Objs, o)
         /\ \A o \in Objs : status[o] # "free" => Count(edges, Objs, o) \in Nat
<1>1. todo = {}
  BY DEF IInv, TypeOK, Lists
<1>2. Included = Objs
  BY DEF Included
<1>3. QED BY <1>1, <1>2, CountAtLeast DEF IInv, Marks, Trial

LEMMA InHandLive ==
  ASSUME IInv, phase = "idle", NEW o \in Objs, InHand(o)
  PROVE  status[o] = "live"
<1>1. status[o] # "free"
  <2>1. CASE held[o] > 0
    BY <2>1 DEF IInv, Lists
  <2>2. CASE \E v \in Values : <<v, o>> \in edges
    BY <2>2, EdgeFacts
  <2>3. QED BY <2>1, <2>2 DEF InHand
<1>2. QED BY <1>1 DEF IInv, TypeOK, Lists

\* What a step leaves to show if the engine is not in a pass afterwards.
LEMMA OutsidePasses ==
  ASSUME TypeOK', NoDanglingEdge', Owned', Lists',
         phase' \in {"idle", "dead", "cycles"},
         \A o \in Objs : status'[o] # "free" => ref_count'[o] = held'[o] + Count(edges', Objs, o),
         \A o \in Objs : list'[o] = "obj" => mark'[o] = 0,
         phase' = "cycles" => Closed(On("obj"))'
  PROVE  IInv'
<1>1. Included' = Objs
  BY DEF Included
<1>2. Trial'
  BY <1>1 DEF Trial
<1>3. Marks' /\ Sorted' /\ Kept' /\ Complete'
  BY DEF Marks, Sorted, Kept, Complete
<1>4. QED BY <1>2, <1>3 DEF IInv

LEMMA StepNewValue ==
  ASSUME IInv, NEW o \in Objs, NewValue(o)
  PROVE  IInv'
<1>1. /\ phase = "idle" /\ phase' = "idle" /\ o \in Values /\ status[o] = "free"
      /\ UNCHANGED <<edges, todo>>
      /\ \A q \in Objs : /\ status'[q] = IF q = o THEN "live" ELSE status[q]
                         /\ ref_count'[q] = IF q = o THEN 1 ELSE ref_count[q]
                         /\ held'[q] = IF q = o THEN 1 ELSE held[q]
                         /\ list'[q] = IF q = o THEN "obj" ELSE list[q]
                         /\ mark'[q] = IF q = o THEN 0 ELSE mark[q]
  BY DEF NewValue, IInv, TypeOK
<1>2. TypeOK'
  <2>1. 1 \in 0..MaxHeld
    BY CollectorAssumption
  <2>2. QED BY <2>1 DEF NewValue, IInv, TypeOK
<1>3. \A p, q : <<p, q>> \in edges => p # o /\ q # o
  BY <1>1, EdgeFacts
<1>4. NoDanglingEdge'
  BY <1>1, <1>3 DEF IInv, NoDanglingEdge
<1>5. Owned'
  <2>1. \A s \in Parts : s # o /\ s \in Objs
    BY <1>1, CollectorAssumption DEF Objs
  <2>2. \A s \in Parts : status'[s] # "free" => \E p \in Objs : <<p, s>> \in edges'
    BY <1>1, <2>1 DEF IInv, Owned
  <2>3. QED BY <1>1, <2>2 DEF IInv, Owned
<1>6. Lists'
  BY <1>1 DEF IInv, Lists
<1>7. \A q \in Objs : status'[q] # "free" => ref_count'[q] = held'[q] + Count(edges', Objs, q)
  <2>1. Count(edges, Objs, o) = 0
    BY <1>3, CountNone
  <2>2. QED BY <1>1, <2>1, NoPass
<1>8. \A q \in Objs : list'[q] = "obj" => mark'[q] = 0
  BY <1>1, NoPass
<1>9. QED BY <1>1, <1>2, <1>4, <1>5, <1>6, <1>7, <1>8, OutsidePasses

LEMMA StepNewPart ==
  ASSUME IInv, NEW v \in Objs, NEW o \in Objs, NewPart(v, o)
  PROVE  IInv'
<1>1. /\ phase = "idle" /\ phase' = "idle" /\ o \in Parts /\ status[o] = "free"
      /\ v \in Values /\ held[v] > 0
      /\ UNCHANGED <<held, todo>> /\ edges' = edges \cup {<<v, o>>}
      /\ \A q \in Objs : /\ status'[q] = IF q = o THEN "live" ELSE status[q]
                         /\ ref_count'[q] = IF q = o THEN 1 ELSE ref_count[q]
                         /\ list'[q] = IF q = o THEN "obj" ELSE list[q]
                         /\ mark'[q] = IF q = o THEN 0 ELSE mark[q]
  BY DEF NewPart, IInv, TypeOK
<1>2. TypeOK'
  BY <1>1 DEF NewPart, IInv, TypeOK
<1>3. status[v] = "live" /\ v # o /\ ~(held[o] > 0)
  BY <1>1 DEF IInv, Lists
<1>4. \A p : <<p, o>> \notin edges /\ <<o, p>> \notin edges
  BY <1>1, EdgeFacts
<1>5. NoDanglingEdge'
  BY <1>1, <1>3, <1>4 DEF IInv, NoDanglingEdge
<1>6. Owned'
  <2>1. \A p, q \in Objs : <<p, q>> \in edges' /\ p \in Parts => q \in Values
    BY <1>1, CollectorAssumption DEF IInv, Owned
  <2>2. \A s \in Parts : status'[s] # "free" => \E p \in Objs : <<p, s>> \in edges'
    <3> TAKE s \in Parts
    <3> HAVE status'[s] # "free"
    <3>1. CASE s = o
      BY <1>1, <3>1
    <3>2. CASE s # o
      BY <1>1, <3>2 DEF IInv, Owned, Objs
    <3>3. QED BY <3>1, <3>2
  <2>3. QED BY <2>1, <2>2 DEF Owned
<1>7. Lists'
  BY <1>1 DEF IInv, Lists
<1>8. \A q \in Objs : status'[q] # "free" => ref_count'[q] = held'[q] + Count(edges', Objs, q)
  <2>1. Count(edges, Objs, o) = 0
    BY <1>4, CountNone
  <2>2. /\ Count(edges', Objs, o) = Count(edges, Objs, o) + 1
        /\ \A q : q # o => Count(edges', Objs, q) = Count(edges, Objs, q)
    <3>1. <<v, o>> \notin edges
      BY <1>4
    <3>2. QED BY <1>1, <3>1, CountEdge
  <2>3. held[o] = 0
    BY <1>3, CollectorAssumption DEF IInv, TypeOK
  <2>4. ASSUME NEW q \in Objs, status'[q] # "free"
        PROVE  ref_count'[q] = held[q] + Count(edges', Objs, q)
    <3>1. CASE q = o
      BY <1>1, <2>1, <2>2, <2>3, <3>1
    <3>2. CASE q # o
      <4>1. status[q] # "free" /\ ref_count'[q] = ref_count[q]
        BY <1>1, <2>4, <3>2
      <4>2. ref_count[q] = held[q] + Count(edges, Objs, q)
        BY <1>1, <4>1, NoPass
      <4>3. Count(edges', Objs, q) = Count(edges, Objs, q)
        BY <2>2, <3>2
      <4>4. QED BY <4>1, <4>2, <4>3
    <3>3. QED BY <3>1, <3>2
  <2>5. QED BY <1>1, <2>4
<1>9. \A q \in Objs : list'[q] = "obj" => mark'[q] = 0
  BY <1>1, NoPass
<1>10. QED BY <1>1, <1>2, <1>5, <1>6, <1>7, <1>8, <1>9, OutsidePasses

LEMMA StepLink ==
  ASSUME IInv, NEW p \in Objs, NEW q \in Objs, Link(p, q)
  PROVE  IInv'
<1>1. /\ phase = "idle" /\ phase' = "idle" /\ <<p, q>> \notin edges
      /\ p \in Values \/ q \in Values
      /\ status[p] = "live" /\ status[q] = "live"
      /\ UNCHANGED <<status, held, list, mark, todo>> /\ edges' = edges \cup {<<p, q>>}
      /\ \A o \in Objs : ref_count'[o] = IF o = q THEN ref_count[o] + 1 ELSE ref_count[o]
  BY InHandLive DEF Link, IInv, TypeOK
<1>2. TypeOK'
  BY <1>1 DEF Link, IInv, TypeOK
<1>3. NoDanglingEdge'
  BY <1>1 DEF IInv, NoDanglingEdge
<1>4. Owned'
  <2>1. \A a, b \in Objs : <<a, b>> \in edges' /\ a \in Parts => b \in Values
    BY <1>1, CollectorAssumption DEF IInv, Owned
  <2>2. \A s \in Parts : status'[s] # "free" => \E a \in Objs : <<a, s>> \in edges'
    BY <1>1 DEF IInv, Owned
  <2>3. QED BY <2>1, <2>2 DEF Owned
<1>5. Lists'
  BY <1>1 DEF IInv, Lists
<1>6. \A o \in Objs : status'[o] # "free" => ref_count'[o] = held'[o] + Count(edges', Objs, o)
  <2>1. /\ Count(edges', Objs, q) = Count(edges, Objs, q) + 1
        /\ \A o : o # q => Count(edges', Objs, o) = Count(edges, Objs, o)
    BY <1>1, CountEdge
  <2>2. ASSUME NEW o \in Objs, status[o] # "free"
        PROVE  ref_count'[o] = held[o] + Count(edges', Objs, o)
    <3>1. ref_count[o] = held[o] + Count(edges, Objs, o) /\ Count(edges, Objs, o) \in Nat /\ held[o] \in Nat
      BY <1>1, <2>2, NoPass, CountAtLeast
    <3>2. QED BY <1>1, <2>1, <3>1
  <2>3. QED BY <1>1, <2>2
<1>7. \A o \in Objs : list'[o] = "obj" => mark'[o] = 0
  BY <1>1, NoPass
<1>8. QED BY <1>1, <1>2, <1>3, <1>4, <1>5, <1>6, <1>7, OutsidePasses

LEMMA StepGet ==
  ASSUME IInv, NEW p \in Objs, NEW q \in Objs, Get(p, q)
  PROVE  IInv'
<1>1. /\ phase = "idle" /\ phase' = "idle" /\ <<p, q>> \in edges
      /\ q \in Values /\ held[q] < MaxHeld
      /\ UNCHANGED <<status, edges, list, mark, todo>>
      /\ \A o \in Objs : ref_count'[o] = IF o = q THEN ref_count[o] + 1 ELSE ref_count[o]
      /\ \A o \in Objs : held'[o] = IF o = q THEN held[o] + 1 ELSE held[o]
  BY DEF Get, IInv, TypeOK
<1>2. status[q] = "live"
  BY <1>1, EdgeFacts DEF IInv, TypeOK, Lists
<1>3. TypeOK'
  <2>1. held[q] + 1 \in 0..MaxHeld
    BY <1>1, CollectorAssumption DEF IInv, TypeOK
  <2>2. QED BY <1>1, <2>1 DEF Get, IInv, TypeOK
<1>4. NoDanglingEdge' /\ Owned'
  BY <1>1 DEF IInv, NoDanglingEdge, Owned
<1>5. Lists'
  BY <1>1, <1>2 DEF IInv, Lists
<1>6. \A o \in Objs : status'[o] # "free" => ref_count'[o] = held'[o] + Count(edges', Objs, o)
  <2>1. ASSUME NEW o \in Objs, status[o] # "free"
        PROVE  ref_count'[o] = held'[o] + Count(edges, Objs, o)
    <3>1. ref_count[o] = held[o] + Count(edges, Objs, o) /\ Count(edges, Objs, o) \in Nat /\ held[o] \in Nat
      BY <1>1, <2>1, NoPass, CountAtLeast
    <3>2. QED BY <1>1, <3>1
  <2>2. QED BY <1>1, <2>1
<1>7. \A o \in Objs : list'[o] = "obj" => mark'[o] = 0
  BY <1>1, NoPass
<1>8. QED BY <1>1, <1>3, <1>4, <1>5, <1>6, <1>7, OutsidePasses

-----------------------------------------------------------------------------
(* Dropping references. *)

LEMMA QueueFacts ==
  ASSUME IInv, NEW Z \in SUBSET Objs, Queue(Z), phase \in {"idle", "dead", "cycles"}
  PROVE  /\ list' \in [Objs -> {"none", "obj", "tmp", "zero"}]
         /\ phase' \in {"idle", "dead", "cycles"}
         /\ phase' = "cycles" <=> phase = "cycles"
         /\ phase = "cycles" => list' = list
         /\ phase = "dead" => phase' = "dead"
         /\ phase # "cycles" => \A o \in Objs : list'[o] = IF o \in Z THEN "zero" ELSE list[o]
         /\ phase # "cycles" /\ Z # {} => phase' = "dead"
         /\ phase # "cycles" /\ Z = {} => phase' = phase /\ list' = list
<1>1. CASE phase = "cycles" \/ Z = {}
  BY <1>1 DEF Queue, IInv, TypeOK
<1>2. CASE ~(phase = "cycles" \/ Z = {})
  BY <1>2 DEF Queue, IInv, TypeOK
<1>3. QED BY <1>1, <1>2

\* The value q loses a reference, and is queued if it was the last.
LEMMA Dropped ==
  ASSUME IInv, NEW q \in Values, status[q] = "live", phase \in {"idle", "dead", "cycles"},
         ref_count[q] > 0,
         ref_count' = [ref_count EXCEPT ![q] = @ - 1],
         Queue(IF ref_count[q] = 1 THEN {q} ELSE {}),
         \A o \in Objs : held'[o] > 0 => held[o] > 0,
         UNCHANGED <<status, todo, mark>>
  PROVE  Lists' /\ \A o \in Objs : list'[o] = "obj" => mark'[o] = 0
<1> DEFINE Z == IF ref_count[q] = 1 THEN {q} ELSE {}
<1>1. Z \in SUBSET Objs /\ q \in Objs
  BY DEF Objs
<1>2. \A o \in Objs : ref_count'[o] = IF o = q THEN ref_count[o] - 1 ELSE ref_count[o]
  BY DEF IInv, TypeOK
<1>3. todo' = {}
  BY NoPass
<1>4. CASE phase = "cycles"
  <2>1. list' = list /\ phase' = phase
    BY <1>4 DEF Queue
  <2>2. Lists'
    BY <1>3, <1>4, <2>1 DEF IInv, Lists
  <2>3. QED BY <1>4, <2>1, <2>2, NoPass
<1>5. CASE phase # "cycles" /\ ref_count[q] # 1
  <2>1. list' = list /\ phase' = phase
    BY <1>5 DEF Queue
  <2>2. Lists'
    BY <1>2, <1>3, <1>5, <2>1 DEF IInv, Lists
  <2>3. QED BY <1>5, <2>1, <2>2, NoPass
<1>6. CASE phase # "cycles" /\ ref_count[q] = 1
  <2>1. phase' = "dead" /\ \A o \in Objs : list'[o] = IF o = q THEN "zero" ELSE list[o]
    BY <1>6 DEF Queue
  <2>2. ref_count'[q] = 0
    BY <1>1, <1>2, <1>6
  <2>3. Lists'
    BY <1>2, <1>3, <1>6, <2>1, <2>2 DEF IInv, Lists
  <2>4. QED BY <1>6, <2>1, <2>3, NoPass
<1>7. QED BY <1>4, <1>5, <1>6

LEMMA StepRelease ==
  ASSUME IInv, NEW q \in Objs, Release(q)
  PROVE  IInv'
<1> DEFINE Z == IF ref_count[q] = 1 THEN {q} ELSE {}
<1>1. /\ phase \in {"idle", "dead", "cycles"} /\ held[q] > 0
      /\ UNCHANGED <<status, edges, mark, todo>>
      /\ ref_count' = [ref_count EXCEPT ![q] = @ - 1]
      /\ held' = [held EXCEPT ![q] = @ - 1]
      /\ Queue(Z) /\ Z \in SUBSET Objs
  BY DEF Release
<1>2. /\ \A o \in Objs : ref_count'[o] = IF o = q THEN ref_count[o] - 1 ELSE ref_count[o]
      /\ \A o \in Objs : held'[o] = IF o = q THEN held[o] - 1 ELSE held[o]
      /\ held \in [Objs -> Int]
  BY <1>1, CollectorAssumption DEF IInv, TypeOK
<1>3. q \in Values /\ status[q] = "live"
  BY <1>1 DEF IInv, Lists
<1>4. held[q] \in Nat /\ ref_count[q] \in Nat /\ ref_count[q] >= held[q]
  BY <1>3, CountAtLeast
<1>5. phase' \in {"idle", "dead", "cycles"} /\ (phase' = "cycles" => phase = "cycles" /\ list' = list)
      /\ list' \in [Objs -> {"none", "obj", "tmp", "zero"}]
  BY <1>1, QueueFacts
<1>6. TypeOK'
  <2>1. held[q] - 1 \in 0..MaxHeld
    BY <1>1, CollectorAssumption DEF IInv, TypeOK
  <2>2. held' \in [Objs -> 0..MaxHeld]
    BY <1>1, <2>1 DEF IInv, TypeOK
  <2>3. QED BY <1>1, <1>5, <2>2 DEF IInv, TypeOK, Phases
<1>7. NoDanglingEdge' /\ Owned'
  BY <1>1 DEF IInv, NoDanglingEdge, Owned
<1>8. \A o \in Objs : held'[o] > 0 => held[o] > 0
  BY <1>1, <1>2
<1>9. Lists' /\ \A o \in Objs : list'[o] = "obj" => mark'[o] = 0
  <2>1. ref_count[q] > 0
    BY <1>1, <1>4
  <2>2. QED BY <1>1, <1>3, <1>8, <2>1, Dropped
<1>10. \A o \in Objs : status'[o] # "free" => ref_count'[o] = held'[o] + Count(edges', Objs, o)
  <2>1. ASSUME NEW o \in Objs, status[o] # "free"
        PROVE  ref_count'[o] = held'[o] + Count(edges, Objs, o)
    <3>1. ref_count[o] = held[o] + Count(edges, Objs, o) /\ Count(edges, Objs, o) \in Nat /\ held[o] \in Nat
      BY <1>1, <2>1, NoPass, CountAtLeast
    <3>2. QED BY <1>2, <3>1
  <2>2. QED BY <1>1, <2>1
<1>11. phase' = "cycles" => Closed(On("obj"))'
  <2>1. phase' = "cycles" => Closed(On("obj")) /\ On("obj")' = On("obj")
    BY <1>5 DEF IInv, Complete, On
  <2>2. QED BY <1>1, <1>8, <2>1 DEF Closed
<1>12. QED BY <1>5, <1>6, <1>7, <1>9, <1>10, <1>11, OutsidePasses

LEMMA StepUnlink ==
  ASSUME IInv, NEW p \in Objs, NEW q \in Objs, Unlink(p, q)
  PROVE  IInv'
<1> DEFINE Z == IF ref_count[q] = 1 THEN {q} ELSE {}
<1>1. /\ phase = "idle" /\ <<p, q>> \in edges /\ q \in Values
      /\ UNCHANGED <<status, held, mark, todo>>
      /\ edges' = edges \ {<<p, q>>}
      /\ ref_count' = [ref_count EXCEPT ![q] = @ - 1]
      /\ Queue(Z) /\ Z \in SUBSET Objs
  BY DEF Unlink
<1>2. \A o \in Objs : ref_count'[o] = IF o = q THEN ref_count[o] - 1 ELSE ref_count[o]
  BY <1>1 DEF IInv, TypeOK
<1>3. status[q] = "live"
  BY <1>1, EdgeFacts DEF IInv, TypeOK, Lists
<1>4. ref_count[q] > 0
  BY <1>1, NoPass, Referred
<1>5. phase' \in {"idle", "dead"} /\ list' \in [Objs -> {"none", "obj", "tmp", "zero"}]
  BY <1>1, QueueFacts
<1>6. TypeOK'
  <2>1. edges' \in SUBSET (Objs \X Objs)
    BY <1>1 DEF IInv, TypeOK
  <2>2. ref_count' \in [Objs -> Int]
    BY <1>1 DEF IInv, TypeOK
  <2>3. QED BY <1>1, <1>5, <2>1, <2>2 DEF IInv, TypeOK, Phases
<1>7. NoDanglingEdge'
  BY <1>1 DEF IInv, NoDanglingEdge
<1>8. Owned'
  <2>1. \A s \in Parts : s # q
    BY <1>1, CollectorAssumption
  <2>2. QED BY <1>1, <2>1 DEF IInv, Owned
<1>9. Lists' /\ \A o \in Objs : list'[o] = "obj" => mark'[o] = 0
  BY <1>1, <1>3, <1>4, Dropped
<1>10. \A o \in Objs : status'[o] # "free" => ref_count'[o] = held'[o] + Count(edges', Objs, o)
  <2>1. edges' \cup {<<p, q>>} = edges /\ <<p, q>> \notin edges'
    BY <1>1
  <2>2. /\ Count(edges, Objs, q) = Count(edges', Objs, q) + 1
        /\ \A o : o # q => Count(edges, Objs, o) = Count(edges', Objs, o)
    <3>1. /\ Count(edges' \cup {<<p, q>>}, Objs, q) = Count(edges', Objs, q) + 1
          /\ \A o : o # q => Count(edges' \cup {<<p, q>>}, Objs, o) = Count(edges', Objs, o)
      BY <2>1, CountEdge
    <3>2. QED BY <2>1, <3>1
  <2>3. Count(edges', Objs, q) \in Nat
    BY CountType
  <2>4. ASSUME NEW o \in Objs, status[o] # "free"
        PROVE  ref_count'[o] = held[o] + Count(edges', Objs, o)
    <3>1. ref_count[o] = held[o] + Count(edges, Objs, o) /\ Count(edges, Objs, o) \in Nat /\ held[o] \in Nat
      BY <1>1, <2>4, NoPass, CountAtLeast
    <3>2. QED BY <1>2, <2>2, <2>3, <3>1
  <2>5. QED BY <1>1, <2>4
<1>11. QED BY <1>5, <1>6, <1>7, <1>8, <1>9, <1>10, OutsidePasses

-----------------------------------------------------------------------------
(* Freeing. *)

LEMMA StepFreeObject ==
  ASSUME IInv, NEW p \in Values, FreeObject(p),
         \/ phase = "dead" /\ list[p] = "zero"
         \/ phase = "cycles" /\ list[p] = "tmp",
         UNCHANGED <<held, mark, phase, todo>>
  PROVE  IInv'
<1> DEFINE Fall == Falling(p)
           lost == [q \in Objs |-> Count(edges, Fall, q)]
           Gone == IF phase = "cycles" /\ ref_count'[p] # 0 THEN PartsOf(p) ELSE Falling(p)
           queued(q) == /\ phase = "dead" /\ q \in Values \ {p}
                        /\ ref_count'[q] = 0 /\ lost[q] > 0
<1>1. /\ p \in Objs /\ p \notin Parts /\ status[p] = "live"
      /\ phase \in {"dead", "cycles"}
  BY CollectorAssumption DEF Objs, IInv, TypeOK, Lists
<1>2. /\ Fall \in SUBSET Objs /\ p \in Fall
      /\ \A s \in Fall : s # p => s \in Parts /\ <<p, s>> \in edges /\ ref_count[s] = 1
      /\ \A s \in Parts : <<p, s>> \in edges /\ ref_count[s] = 1 => s \in PartsOf(p)
      /\ PartsOf(p) = Fall \ {p}
  BY <1>1 DEF Falling, PartsOf, Objs
<1>3. \A q \in Objs : Count(edges, Fall, q) = lost[q]
  OBVIOUS
<1>4. lost \in [Objs -> Nat]
  BY <1>2, CountType
<1>5. /\ Gone \subseteq Fall /\ PartsOf(p) \subseteq Gone
      /\ p \in Gone <=> ~(phase = "cycles" /\ ref_count'[p] # 0)
  BY <1>2 DEF Falling
<1>6. /\ ref_count' = [q \in Objs |-> ref_count'[q]]
      /\ \A q \in Objs : ref_count'[q] = ref_count[q] - lost[q]
  BY DEF FreeObject, References
<1>7. \A a, b : <<a, b>> \in edges' <=> <<a, b>> \in edges /\ a \notin Fall
  BY DEF FreeObject
<1>8. edges' \subseteq edges
  BY DEF FreeObject
<1>9. /\ status' = [q \in Objs |-> status'[q]] /\ list' = [q \in Objs |-> list'[q]]
      /\ \A q \in Objs : status'[q] = IF q \in Gone THEN "free"
                                      ELSE IF q = p THEN "shell" ELSE status[q]
      /\ \A q \in Objs : list'[q] = IF q \in Gone THEN "none"
                                    ELSE IF q = p \/ queued(q) THEN "zero" ELSE list[q]
  BY <1>1, <1>2, <1>6 DEF FreeObject, References
<1> HIDE DEF Fall, lost, Gone
<1>10. \A s \in Fall : s # p => \A r : <<r, s>> \in edges => r = p
  <2> TAKE s \in Fall
  <2> HAVE s # p
  <2>1. s \in Objs /\ <<p, s>> \in edges /\ ref_count[s] = 1
    BY <1>2
  <2>2. status[s] # "free"
    BY <2>1, EdgeFacts
  <2>3. /\ ref_count[s] = held[s] + Count(edges, Objs, s)
        /\ Count(edges, Objs, s) \in Nat /\ held[s] \in Nat
    BY <1>1, <2>1, <2>2, NoPass, CountAtLeast
  <2>4. Count(edges, Objs, s) # 0
    BY <1>1, <2>1, CountNone
  <2>5. Count(edges, Objs, s) = 1
    BY <2>1, <2>3, <2>4
  <2>6. \A r \in Objs : <<r, s>> \in edges => r = p
    BY <1>1, <2>1, <2>5, CountOnly
  <2>7. QED BY <2>6, EdgeFacts
<1>11. \A q \in Objs : status[q] # "free" =>
         /\ ref_count'[q] = held[q] + Count(edges', Objs, q)
         /\ ref_count'[q] \in Nat
  <2> TAKE q \in Objs
  <2> HAVE status[q] # "free"
  <2> DEFINE Rest == Objs \ Fall
  <2>1. Rest \in SUBSET Objs /\ Rest \cap Fall = {} /\ Rest \cup Fall = Objs
    BY <1>2
  <2> HIDE DEF Rest
  <2>2. Count(edges, Rest \cup Fall, q) = Count(edges, Rest, q) + Count(edges, Fall, q)
    BY <1>2, <2>1, CountSplit
  <2>3. Count(edges', Objs, q) = Count(edges', Rest, q)
    <3>1. \A r : <<r, q>> \in edges' => (r \in Objs <=> r \in Rest)
      BY <1>7, EdgeFacts DEF Rest
    <3>2. QED BY <3>1, CountSources
  <2>4. Count(edges', Rest, q) = Count(edges, Rest, q)
    <3>1. \A r \in Rest : <<r, q>> \in edges' <=> <<r, q>> \in edges
      BY <1>7 DEF Rest
    <3>2. QED BY <3>1, CountSame
  <2>5. Count(edges, Rest, q) \in Nat /\ held[q] \in Nat /\ lost[q] \in Nat
    BY <1>4, <2>1, CountType, CountAtLeast
  <2>6. ref_count[q] = held[q] + Count(edges, Objs, q)
    BY <1>1, NoPass
  <2>7. Count(edges, Objs, q) = Count(edges, Rest, q) + lost[q]
    BY <1>3, <2>1, <2>2
  <2>8. QED BY <1>6, <2>3, <2>4, <2>5, <2>6, <2>7
<1>12. \A q \in Gone : \A r : <<r, q>> \notin edges'
  <2>1. ASSUME p \in Gone, NEW r, <<r, p>> \in edges' PROVE FALSE
    <3>1. <<r, p>> \in edges /\ r \in Objs
      BY <1>7, <2>1, EdgeFacts
    <3>2. CASE phase = "dead"
      <4>1. ref_count[p] = 0
        BY <1>1, <3>2 DEF IInv, Lists
      <4>2. QED BY <1>1, <3>1, <4>1, NoPass, Referred
    <3>3. CASE phase = "cycles"
      <4>1. ref_count'[p] = 0
        BY <1>5, <2>1, <3>3
      <4>2. Count(edges', Objs, p) # 0
        BY <2>1, <3>1, CountNone
      <4>3. Count(edges', Objs, p) \in Nat /\ held[p] \in Nat
        BY <1>1, CountType, CountAtLeast
      <4>4. QED BY <1>1, <1>11, <4>1, <4>2, <4>3
    <3>4. QED BY <1>1, <3>2, <3>3
  <2>2. ASSUME NEW q \in Gone, q # p, NEW r, <<r, q>> \in edges' PROVE FALSE
    BY <1>2, <1>5, <1>7, <1>10, <2>2
  <2>3. QED BY <2>1, <2>2
<1>13. \A q \in Fall : ~(held[q] > 0)
  <2>1. ASSUME NEW q \in Fall, q # p, held[q] > 0 PROVE FALSE
    BY <1>2, <2>1, CollectorAssumption DEF IInv, Lists
  <2>2. ASSUME held[p] > 0 PROVE FALSE
    <3>1. CASE phase = "dead"
      <4>1. ref_count[p] = 0
        BY <1>1, <3>1 DEF IInv, Lists
      <4>2. QED BY <1>1, <2>2, <4>1, CountAtLeast
    <3>2. CASE phase = "cycles"
      BY <1>1, <2>2, <3>2 DEF IInv, Complete, Closed, On
    <3>3. QED BY <1>1, <3>1, <3>2
  <2>3. QED BY <2>1, <2>2
<1>14. TypeOK'
  <2>1. ref_count' \in [Objs -> Int]
    <3>1. \A q \in Objs : ref_count'[q] \in Int
      BY <1>4, <1>6 DEF IInv, TypeOK
    <3>2. QED BY <1>6, <3>1
  <2>2. list' \in [Objs -> {"none", "obj", "tmp", "zero"}]
    <3>1. \A q \in Objs : list'[q] \in {"none", "obj", "tmp", "zero"}
      BY <1>9 DEF IInv, TypeOK
    <3>2. QED BY <1>9, <3>1
  <2>3. status' \in [Objs -> {"free", "live", "shell"}]
    <3>1. \A q \in Objs : status'[q] \in {"free", "live", "shell"}
      BY <1>9 DEF IInv, TypeOK
    <3>2. QED BY <1>9, <3>1
  <2>4. edges' \in SUBSET (Objs \X Objs)
    BY <1>8 DEF IInv, TypeOK
  <2>5. QED BY <2>1, <2>2, <2>3, <2>4 DEF IInv, TypeOK
<1>15. NoDanglingEdge'
  <2>1. ASSUME NEW a \in Objs, NEW b \in Objs, <<a, b>> \in edges'
        PROVE  status'[a] = "live" /\ status'[b] # "free"
    <3>1. a \notin Fall /\ status[a] = "live" /\ status[b] # "free" /\ b \notin Gone
      BY <1>7, <1>12, <2>1, EdgeFacts
    <3>2. a \notin Gone /\ a # p
      BY <1>2, <1>5, <3>1
    <3>3. QED BY <1>9, <3>1, <3>2
  <2>2. QED BY <2>1 DEF NoDanglingEdge
<1>16. Owned'
  <2>1. \A a, b \in Objs : <<a, b>> \in edges' /\ a \in Parts => b \in Values
    BY <1>7, EdgeFacts
  <2>2. ASSUME NEW s \in Parts, status'[s] # "free" PROVE \E r \in Objs : <<r, s>> \in edges'
    <3>1. s \in Objs /\ s # p /\ s \notin Values
      BY <1>1, CollectorAssumption DEF Objs
    <3>2. s \notin Gone /\ status[s] # "free"
      BY <1>9, <2>2, <3>1
    <3>3. s \notin PartsOf(p)
      BY <1>5, <3>2
    <3>4. \A r : <<r, s>> \in edges => r \in Objs /\ (r \in Fall => r = p)
      BY <1>2, <3>1, EdgeFacts
    <3>5. PICK r1 \in Objs : <<r1, s>> \in edges
      BY <3>2 DEF IInv, Owned
    <3>6. CASE <<p, s>> \notin edges
      BY <1>7, <3>4, <3>5, <3>6
    <3>7. CASE <<p, s>> \in edges
      <4>1. ref_count[s] # 1
        BY <1>2, <3>3, <3>7
      <4>2. ~(held[s] > 0)
        BY <3>1 DEF IInv, Lists
      <4>3. ref_count[s] = held[s] + Count(edges, Objs, s) /\ held[s] \in Nat
        BY <1>1, <3>1, <3>2, NoPass, CountAtLeast
      <4>4. Count(edges, Objs, s) # 1
        BY <4>1, <4>2, <4>3
      <4>5. PICK r2 \in Objs : <<r2, s>> \in edges /\ r2 # p
        BY <1>1, <3>7, <4>4, CountOnly
      <4>6. QED BY <1>7, <3>4, <4>5
    <3>8. QED BY <3>6, <3>7
  <2>3. QED BY <2>1, <2>2 DEF Owned
<1>17. Lists'
  <2>1. \A q \in Objs : q \notin todo
    BY <1>1, NoPass
  <2>2. \A q \in Objs : held[q] > 0 => q \notin Gone /\ q # p
    BY <1>2, <1>5, <1>13
  <2>3. \A q \in Objs : queued(q) => q \in Values /\ status[q] = "live" /\ ref_count'[q] = 0
    <3> TAKE q \in Objs
    <3> HAVE queued(q)
    <3>1. Count(edges, Fall, q) # 0
      BY <1>3
    <3>2. status[q] # "free"
      BY <1>2, <3>1, CountNone, EdgeFacts
    <3>3. QED BY <3>2 DEF IInv, TypeOK, Lists
  <2>4. \A q \in Objs : list[q] = "zero" /\ phase = "dead" => ref_count'[q] = 0
    <3> TAKE q \in Objs
    <3> HAVE list[q] = "zero" /\ phase = "dead"
    <3>1. status[q] # "free" /\ ref_count[q] = 0
      BY DEF IInv, Lists
    <3>2. QED BY <1>4, <1>6, <1>11, <3>1
  <2>5. \A q \in Objs : q \in Gone => list'[q] = "none" /\ status'[q] = "free"
    BY <1>9
  <2>6. p \notin Gone => list'[p] = "zero" /\ status'[p] = "shell" /\ phase = "cycles"
    BY <1>1, <1>5, <1>9
  <2>7. \A q \in Objs : q \notin Gone /\ q # p =>
          status'[q] = status[q] /\ list'[q] = IF queued(q) THEN "zero" ELSE list[q]
    BY <1>9
  <2>8. ASSUME NEW q \in Objs
        PROVE  /\ list'[q] = "none" <=> status'[q] = "free"
               /\ status'[q] = "shell" => list'[q] = "zero" /\ q \in Values /\ phase' = "cycles"
               /\ list'[q] = "zero" =>
                    \/ phase' = "dead" /\ q \in Values /\ status'[q] = "live" /\ ref_count'[q] = 0
                    \/ phase' = "cycles" /\ (q \in Values => status'[q] = "shell")
               /\ list'[q] = "tmp" => phase' \in {"decref", "scan", "restore", "cycles"}
               /\ held'[q] > 0 => q \in Values /\ status'[q] = "live"
               /\ q \notin todo'
    <3>1. CASE q \in Gone
      BY <2>1, <2>2, <2>5, <3>1
    <3>2. CASE q = p /\ p \notin Gone
      BY <2>1, <2>2, <2>6, <3>2
    <3>3. CASE q \notin Gone /\ q # p /\ queued(q)
      BY <2>1, <2>3, <2>7, <3>3
    <3>4. CASE q \notin Gone /\ q # p /\ ~queued(q)
      <4>1. status'[q] = status[q] /\ list'[q] = list[q]
        BY <2>7, <3>4
      <4>2. QED BY <2>1, <2>4, <4>1 DEF IInv, Lists
    <3>5. QED BY <3>1, <3>2, <3>3, <3>4
  <2>9. QED BY <2>8 DEF Lists
<1>18. \A q \in Objs : list'[q] = "obj" => mark'[q] = 0
  BY <1>1, <1>9, NoPass
<1>19. \A q \in Objs : status'[q] # "free" => ref_count'[q] = held'[q] + Count(edges', Objs, q)
  <2>1. \A q \in Objs : status'[q] # "free" => status[q] # "free"
    BY <1>1, <1>9
  <2>2. QED BY <1>11, <2>1
<1>20. phase' = "cycles" => Closed(On("obj"))'
  <2> SUFFICES ASSUME phase = "cycles" PROVE Closed(On("obj"))'
    OBVIOUS
  <2>1. Closed(On("obj"))
    BY DEF IInv, Complete
  <2>2. \A q \in Objs : list[q] = "obj" /\ q \notin Gone => list'[q] = "obj"
    BY <1>9
  <2>3. \A q \in Objs : list'[q] = "obj" => list[q] = "obj"
    BY <1>9
  <2>4. \A q \in Objs : held[q] > 0 => q \in On("obj")'
    BY <1>5, <1>13, <2>1, <2>2 DEF Closed, On
  <2>5. \A a, b \in Objs : a \in On("obj")' /\ <<a, b>> \in edges' => b \in On("obj")'
    BY <1>7, <1>12, <2>1, <2>2, <2>3 DEF Closed, On
  <2>6. QED BY <2>4, <2>5 DEF Closed
<1>21. QED BY <1>1, <1>14, <1>15, <1>16, <1>17, <1>18, <1>19, <1>20, OutsidePasses

LEMMA StepDeadFreed ==
  ASSUME IInv, DeadFreed
  PROVE  IInv'
<1> USE DEF DeadFreed
<1>1. TypeOK' /\ NoDanglingEdge' /\ Owned'
  BY DEF IInv, TypeOK, NoDanglingEdge, Owned, Phases
<1>2. Lists'
  BY DEF IInv, Lists, On
<1>3. QED BY <1>1, <1>2, NoPass, OutsidePasses

LEMMA StepPutAside ==
  ASSUME IInv, NEW p \in Objs, PutAside(p)
  PROVE  IInv'
<1>1. /\ phase = "cycles" /\ phase' = "cycles" /\ list[p] = "tmp" /\ p \in Parts /\ p \notin Values
      /\ UNCHANGED <<status, edges, held, ref_count, mark, todo>>
      /\ \A q \in Objs : list'[q] = IF q = p THEN "zero" ELSE list[q]
  BY CollectorAssumption DEF PutAside, On, IInv, TypeOK
<1>2. TypeOK' /\ NoDanglingEdge' /\ Owned'
  <2>1. TypeOK'
    BY <1>1 DEF PutAside, IInv, TypeOK
  <2>2. NoDanglingEdge'
    BY <1>1 DEF IInv, NoDanglingEdge
  <2>3. Owned'
    BY <1>1 DEF IInv, Owned
  <2>4. QED BY <2>1, <2>2, <2>3
<1>3. Lists'
  BY <1>1 DEF IInv, Lists
<1>4. Closed(On("obj"))'
  <2>1. On("obj")' = On("obj")
    BY <1>1 DEF On
  <2>2. QED BY <1>1, <2>1 DEF IInv, Complete, Closed
<1>5. \A o \in Objs : list'[o] = "obj" => mark'[o] = 0
  BY <1>1, NoPass
<1>6. QED BY <1>1, <1>2, <1>3, <1>4, <1>5, NoPass, OutsidePasses

\* The last loop of gc_free_cycles finds values only: parts went with their owners.
LEMMA ShellsOnly ==
  ASSUME IInv, phase = "cycles", On("tmp") = {}, NEW o \in Objs, list[o] = "zero"
  PROVE  o \in Values /\ status[o] = "shell"
<1>1. ASSUME o \in Parts PROVE FALSE
  <2>1. status[o] # "free" /\ o \notin Values
    BY <1>1, CollectorAssumption DEF IInv, Lists
  <2>2. PICK r \in Objs : <<r, o>> \in edges
    BY <1>1, <2>1 DEF IInv, Owned
  <2>3. status[r] = "live" /\ r \in Values
    BY <2>1, <2>2, EdgeFacts DEF Objs
  <2>4. list[r] \in {"obj", "zero"}
    BY <2>3 DEF IInv, TypeOK, Lists, On
  <2>5. list[r] # "obj"
    BY <2>2 DEF IInv, Complete, Closed, On
  <2>6. QED BY <2>3, <2>4, <2>5 DEF IInv, Lists
<1>2. QED BY <1>1 DEF Objs, IInv, Lists

LEMMA StepFreeShells ==
  ASSUME IInv, FreeShells
  PROVE  IInv'
<1>1. /\ phase = "cycles" /\ phase' = "idle" /\ On("tmp") = {}
      /\ UNCHANGED <<edges, held, ref_count, mark, todo>>
      /\ \A q \in Objs : status'[q] = IF list[q] = "zero" THEN "free" ELSE status[q]
      /\ \A q \in Objs : list'[q] = IF list[q] = "zero" THEN "none" ELSE list[q]
  BY DEF FreeShells
<1>2. \A q \in Objs : list[q] = "zero" => q \in Values /\ status[q] = "shell"
  BY <1>1, ShellsOnly
<1>3. TypeOK'
  BY <1>1 DEF FreeShells, IInv, TypeOK, Phases
<1>4. \A a, b \in Objs : <<a, b>> \in edges => list[a] # "zero" /\ list[b] # "zero"
  <2> TAKE a, b \in Objs
  <2> HAVE <<a, b>> \in edges
  <2>1. status[a] = "live"
    BY EdgeFacts
  <2>2. list[a] = "obj"
    BY <1>1, <1>2, <2>1 DEF IInv, TypeOK, Lists, On
  <2>3. list[b] = "obj"
    BY <1>1, <2>2 DEF IInv, Complete, Closed, On
  <2>4. QED BY <2>2, <2>3
<1>5. NoDanglingEdge'
  BY <1>1, <1>4 DEF IInv, NoDanglingEdge
<1>6. Owned'
  <2>1. \A s \in Parts : status'[s] # "free" => status[s] # "free"
    BY <1>1 DEF Objs
  <2>2. QED BY <1>1, <2>1 DEF IInv, Owned
<1>7. Lists'
  BY <1>1, <1>2 DEF IInv, Lists, On
<1>8. \A o \in Objs : status'[o] # "free" => ref_count'[o] = held'[o] + Count(edges', Objs, o)
  BY <1>1, NoPass
<1>9. \A o \in Objs : list'[o] = "obj" => mark'[o] = 0
  BY <1>1, NoPass
<1>10. QED BY <1>1, <1>3, <1>5, <1>6, <1>7, <1>8, <1>9, OutsidePasses

-----------------------------------------------------------------------------
LEMMA InitIInv == Init => IInv
<1> SUFFICES ASSUME Init PROVE IInv
  OBVIOUS
<1>1. TypeOK
  BY CollectorAssumption DEF Init, TypeOK, Phases
<1>2. NoDanglingEdge /\ Owned /\ Lists /\ Trial /\ Marks /\ Sorted /\ Kept /\ Complete
  BY DEF Init, NoDanglingEdge, Owned, Lists, Trial, Marks, Sorted, Kept, Complete, Objs
<1>3. QED BY <1>1, <1>2 DEF IInv

LEMMA NextIInv == IInv /\ [Next]_vars => IInv'
<1> SUFFICES ASSUME IInv, [Next]_vars PROVE IInv'
  OBVIOUS
<1>1. CASE Mutator
  BY <1>1, StepNewValue, StepRelease, StepNewPart, StepLink, StepGet, StepUnlink DEF Mutator
<1>2. CASE RunGC
  BY <1>2, StepRunGC
<1>3. CASE Collector
  <2>1. ASSUME NEW p \in Objs, FreeGarbage(p) PROVE IInv'
    BY <2>1, StepFreeObject DEF FreeGarbage, On
  <2>2. QED BY <1>3, <2>1, StepDecrefEnds, StepScanEnds, StepRestoreEnds, StepFreeShells,
               StepDecref, StepScan, StepRestore, StepPutAside DEF Collector
<1>4. CASE Freeing
  <2>1. ASSUME NEW p \in Objs, FreeDead(p) PROVE IInv'
    <3>1. p \in Values
      BY <2>1 DEF FreeDead, On, IInv, Lists
    <3>2. QED BY <2>1, <3>1, StepFreeObject DEF FreeDead, On
  <2>2. QED BY <1>4, <2>1, StepDeadFreed DEF Freeing
<1>5. CASE UNCHANGED vars
  <2>1. /\ Included' = Included /\ On("obj")' = On("obj")
        /\ \A S : Closed(S)' <=> Closed(S)
    BY <1>5 DEF vars, Included, Closed, On
  <2>2. TypeOK' /\ NoDanglingEdge' /\ Owned' /\ Lists'
    BY <1>5 DEF vars, IInv, TypeOK, NoDanglingEdge, Owned, Lists
  <2>3. Trial'
    BY <1>5, <2>1 DEF vars, IInv, Trial
  <2>4. Marks' /\ Sorted'
    BY <1>5 DEF vars, IInv, Marks, Sorted
  <2>5. Kept'
    BY <1>5, <2>1 DEF vars, IInv, Kept
  <2>6. Complete'
    BY <1>5, <2>1 DEF vars, IInv, Complete, Closed
  <2>7. QED BY <2>2, <2>3, <2>4, <2>5, <2>6 DEF IInv
<1>6. QED BY <1>1, <1>2, <1>3, <1>4, <1>5 DEF Next

LEMMA InvariantHolds == Spec => []IInv
BY InitIInv, NextIInv, PTL DEF Spec

-----------------------------------------------------------------------------
\* The engine's lists, counts and marks keep their types, whatever the heap.
THEOREM TypeCorrect == Spec => []TypeOK
<1>1. IInv => TypeOK
  BY DEF IInv
<1>2. QED BY <1>1, InvariantHolds, PTL

\* Freeing an object never leaves a reference to freed memory, in any graph.
THEOREM EdgesSound == Spec => []NoDanglingEdge
<1>1. IInv => NoDanglingEdge
  BY DEF IInv
<1>2. QED BY <1>1, InvariantHolds, PTL

\* Outside the passes every count is the number of references there are.
THEOREM CountsRight == Spec => []Counted
<1>1. IInv => Counted
  BY NoPass DEF Counted, References
<1>2. QED BY <1>1, InvariantHolds, PTL

\* gc_scan leaves on tmp_obj_list what cannot be reached, all of it, and nothing else.
THEOREM GarbageExact == Spec => []CollectsExactlyGarbage
<1>1. IInv => CollectsExactlyGarbage
  <2> SUFFICES ASSUME IInv, phase = "restore" PROVE On("tmp") = Live \ Reachable
    BY DEF CollectsExactlyGarbage
  <2>1. On("obj") \subseteq Objs /\ Closed(On("obj"))
    BY ObjClosed DEF On
  <2>2. Reachable \subseteq On("obj")
    BY <2>1 DEF Reachable
  <2>3. On("obj") \subseteq Reachable
    BY <2>1 DEF Reachable, IInv, Kept
  <2>4. \A o \in Objs : status[o] = "live" <=> list[o] \in {"obj", "tmp"}
    BY DEF IInv, TypeOK, Lists
  <2>5. QED BY <2>2, <2>3, <2>4 DEF Live, On
<1>2. QED BY <1>1, InvariantHolds, PTL

\* What can be reached is live, and outside the first two passes on gc_obj_list.
THEOREM ReachableSafe == Spec => []ReachableKept
<1>1. IInv => ReachableKept
  <2> SUFFICES ASSUME IInv, NEW o \in Reachable
               PROVE  /\ status[o] = "live"
                      /\ phase \in {"idle", "dead", "restore", "cycles"} => list[o] = "obj"
    BY DEF ReachableKept
  <2>1. CASE phase \in {"idle", "dead", "restore", "cycles"}
    <3>1. On("obj") \in SUBSET Objs /\ Closed(On("obj"))
      BY <2>1, ObjClosed DEF On
    <3>2. o \in Objs /\ list[o] = "obj"
      BY <3>1 DEF Reachable, On
    <3>3. QED BY <3>2 DEF IInv, TypeOK, Lists
  <2>2. CASE phase \in {"decref", "scan"}
    <3>1. Closed(Live)
      <4>1. \A q \in Objs : held[q] > 0 => q \in Live
        BY DEF IInv, Lists, Live
      <4>2. \A p, q \in Objs : <<p, q>> \in edges => q \in Live
        BY <2>2, EdgeFacts DEF IInv, TypeOK, Lists, Live
      <4>3. QED BY <4>1, <4>2 DEF Closed
    <3>2. Live \in SUBSET Objs
      BY DEF Live
    <3>3. QED BY <2>2, <3>1, <3>2 DEF Reachable, Live
  <2>3. QED BY <2>1, <2>2 DEF IInv, TypeOK, Phases
<1>2. QED BY <1>1, InvariantHolds, PTL

\* None of the collector's assertions fails.
THEOREM AssertionsSound == Spec => []AssertionsHold
<1>1. IInv => AssertionsHold
  <2> SUFFICES ASSUME IInv PROVE AssertionsHold
    OBVIOUS
  <2>1. phase = "dead" => \A p \in On("zero") : ref_count[p] = 0
    BY DEF IInv, Lists, On
  <2>2. ASSUME phase = "decref", NEW p \in todo
        PROVE  mark[p] = 0 /\ \A q \in Objs : <<p, q>> \in edges => ref_count[q] > 0
    <3>1. p \in Objs /\ p \in Included
      BY <2>2 DEF IInv, TypeOK, Included
    <3>2. mark[p] = 0
      BY <2>2, <3>1 DEF IInv, Lists, Marks
    <3>3. QED BY <3>1, <3>2, Referred
  <2>3. phase = "scan" => \A p \in todo : ref_count[p] > 0
    BY DEF IInv, TypeOK, Lists, Sorted
  <2>4. phase = "cycles" /\ On("tmp") = {} => On("zero") \subseteq Values
    BY ShellsOnly DEF On
  <2>5. QED BY <2>1, <2>2, <2>3, <2>4 DEF AssertionsHold
<1>2. QED BY <1>1, InvariantHolds, PTL

-----------------------------------------------------------------------------
(* Every loop comes nearer to its end with each step. *)

Shrinks(S, T) == T \subseteq S /\ T # S
Allocated == {o \in Objs : status[o] # "free"}
ReleasesOne ==
  \E o \in Objs : held'[o] < held[o] /\ held' = [held EXCEPT ![o] = held'[o]]

\* What each loop works off: free_zero_refcount the objects there are, although more
\* may be queued meanwhile; gc_scan tmp_obj_list, although what leaves it is put on the
\* list being walked; gc_free_cycles tmp_obj_list.  What finalizers can release in
\* between is limited by what is held.
LoopStep ==
  CASE phase = "idle" -> TRUE
    [] phase = "dead" ->
         \/ phase' = "idle"
         \/ phase' = "dead" /\ Shrinks(Allocated, Allocated')
         \/ phase' = "dead" /\ Allocated' = Allocated /\ ReleasesOne
    [] phase = "decref" -> phase' = "scan" \/ (phase' = "decref" /\ Shrinks(todo, todo'))
    [] phase = "scan" ->
         \/ phase' = "restore"
         \/ phase' = "scan" /\ Shrinks(On("tmp"), On("tmp")')
         \/ phase' = "scan" /\ On("tmp")' = On("tmp") /\ Shrinks(todo, todo')
    [] phase = "restore" -> phase' = "cycles" \/ (phase' = "restore" /\ Shrinks(todo, todo'))
    [] phase = "cycles" ->
         \/ phase' = "idle"
         \/ phase' = "cycles" /\ Shrinks(On("tmp"), On("tmp")')
         \/ phase' = "cycles" /\ On("tmp")' = On("tmp") /\ ReleasesOne

LEMMA ReleaseShrinks ==
  ASSUME IInv, NEW o \in Objs, Release(o), phase \in {"dead", "cycles"}
  PROVE  LoopStep
<1>1. /\ held[o] \in Nat /\ held[o] > 0 /\ held' = [held EXCEPT ![o] = held[o] - 1]
      /\ status' = status
  BY CollectorAssumption DEF Release, IInv, TypeOK
<1>2. ReleasesOne
  <2>1. held'[o] = held[o] - 1
    BY <1>1 DEF IInv, TypeOK
  <2>2. held' = [held EXCEPT ![o] = held'[o]]
    BY <1>1, <2>1
  <2>3. held'[o] < held[o]
    BY <1>1, <2>1
  <2>4. QED BY <2>2, <2>3 DEF ReleasesOne
<1>3. CASE phase = "dead"
  <2>1. phase' = "dead"
    BY <1>3 DEF Release, Queue
  <2>2. Allocated' = Allocated
    BY <1>1 DEF Allocated
  <2>3. QED BY <1>2, <1>3, <2>1, <2>2 DEF LoopStep
<1>4. CASE phase = "cycles"
  <2>1. phase' = "cycles" /\ list' = list
    BY <1>4 DEF Release, Queue
  <2>2. On("tmp")' = On("tmp")
    BY <2>1 DEF On
  <2>3. QED BY <1>2, <1>4, <2>1, <2>2 DEF LoopStep
<1>5. QED BY <1>3, <1>4

LEMMA FreeDeadShrinks ==
  ASSUME IInv, NEW p \in Objs, FreeDead(p)
  PROVE  LoopStep
<1>1. phase = "dead" /\ phase' = "dead" /\ list[p] = "zero"
  BY DEF FreeDead, On
<1>2. \A q \in Objs : status'[q] = IF q \in Falling(p) THEN "free"
                                   ELSE IF q = p THEN "shell" ELSE status[q]
  BY <1>1 DEF FreeDead, FreeObject
<1>3. p \in Falling(p)
  BY DEF Falling
<1>4. status'[p] = "free" /\ \A q \in Objs : status'[q] \in {"free", status[q]}
  BY <1>2, <1>3
<1>5. status[p] # "free"
  BY <1>1 DEF IInv, Lists
<1>6. Shrinks(Allocated, Allocated')
  <2>1. p \in Allocated /\ p \notin Allocated'
    BY <1>4, <1>5 DEF Allocated
  <2>2. Allocated' \subseteq Allocated
    BY <1>4 DEF Allocated
  <2>3. QED BY <2>1, <2>2 DEF Shrinks
<1>7. QED BY <1>1, <1>6 DEF LoopStep

\* What gc_scan puts back was on tmp_obj_list.
LEMMA ScanShrinks ==
  ASSUME IInv, NEW p \in Objs, Scan(p)
  PROVE  LoopStep
<1> DEFINE one == Out(p)
           back == {q \in Objs : one[q] > 0 /\ ref_count[q] + one[q] = 1}
<1>1. phase = "scan" /\ phase' = "scan" /\ p \in todo
  BY DEF Scan
<1>2. /\ \A q \in Objs : one[q] \in {0, 1}
      /\ \A q \in Objs : Count(edges, {p}, q) = one[q]
      /\ \A q \in Objs : one[q] = 1 <=> <<p, q>> \in edges
  BY OutFacts
<1> HIDE DEF one
<1>3. /\ todo' = (todo \ {p}) \cup back
      /\ \A q \in Objs : list'[q] = IF q \in back THEN "obj" ELSE list[q]
  <2>1. back = {q \in Objs : References({p}, q) > 0 /\ ref_count[q] + References({p}, q) = 1}
    BY <1>2 DEF References
  <2>2. back = {q \in Objs : /\ References({p}, q) > 0
                             /\ [o \in Objs |-> ref_count[o] + References({p}, o)][q] = 1}
    BY <2>1
  <2> HIDE DEF back
  <2>3. QED BY <2>2 DEF Scan
<1>4. \A q \in back : q \in On("tmp")
  <2> TAKE q \in back
  <2>1. q \in Objs /\ one[q] > 0 /\ ref_count[q] + one[q] = 1
    OBVIOUS
  <2>2. one[q] = 1 /\ ref_count[q] = 0
    <3>1. one[q] = 1
      BY <1>2, <2>1
    <3>2. ref_count[q] \in Int
      BY <2>1 DEF IInv, TypeOK
    <3>3. QED BY <2>1, <3>1, <3>2
  <2>3. status[q] # "free"
    BY <1>2, <2>1, <2>2, EdgeFacts
  <2>4. list[q] \in {"obj", "tmp"}
    BY <1>1, <2>1, <2>3 DEF IInv, TypeOK, Lists
  <2>5. list[q] # "obj"
    BY <1>1, <2>1, <2>2 DEF IInv, Sorted
  <2>6. QED BY <2>1, <2>4, <2>5 DEF On
<1>5. back \subseteq Objs
  OBVIOUS
<1> HIDE DEF back
<1>6. CASE back = {}
  <2>1. On("tmp")' = On("tmp")
    BY <1>3, <1>6 DEF On
  <2>2. Shrinks(todo, todo')
    BY <1>1, <1>3, <1>6 DEF Shrinks
  <2>3. QED BY <1>1, <2>1, <2>2 DEF LoopStep
<1>7. CASE back # {}
  <2>1. PICK q \in back : TRUE
    BY <1>7
  <2>2. q \in On("tmp") /\ q \notin On("tmp")'
    BY <1>3, <1>4, <1>5, <2>1 DEF On
  <2>3. On("tmp")' \subseteq On("tmp")
    BY <1>3 DEF On
  <2>4. Shrinks(On("tmp"), On("tmp")')
    BY <2>2, <2>3 DEF Shrinks
  <2>5. QED BY <1>1, <2>4 DEF LoopStep
<1>8. QED BY <1>6, <1>7

LEMMA CyclesShrink ==
  ASSUME IInv, NEW p \in Objs, FreeGarbage(p) \/ PutAside(p)
  PROVE  LoopStep
<1>1. phase = "cycles" /\ phase' = "cycles" /\ list[p] = "tmp"
  BY DEF FreeGarbage, PutAside, On
<1>2. list'[p] \in {"none", "zero"} /\ \A q \in Objs : list'[q] \in {"none", "zero", list[q]}
  <2>1. CASE FreeGarbage(p)
    <3> DEFINE left == [q \in Objs |-> ref_count[q] - References(Falling(p), q)]
               dead == {q \in Values \ {p} : left[q] = 0 /\ References(Falling(p), q) > 0}
               gone == IF phase = "cycles" /\ left[p] # 0 THEN PartsOf(p) ELSE Falling(p)
    <3>1. \A q \in Objs : list'[q] = IF q \in gone THEN "none"
                                     ELSE IF q = p \/ (q \in dead /\ phase = "dead") THEN "zero"
                                     ELSE list[q]
      BY <2>1 DEF FreeGarbage, FreeObject
    <3> HIDE DEF gone, dead
    <3>2. QED BY <3>1
  <2>2. CASE PutAside(p)
    BY <2>2 DEF PutAside, IInv, TypeOK
  <2>3. QED BY <2>1, <2>2
<1>3. p \in On("tmp") /\ p \notin On("tmp")' /\ On("tmp")' \subseteq On("tmp")
  BY <1>1, <1>2 DEF On
<1>4. Shrinks(On("tmp"), On("tmp")')
  BY <1>3 DEF Shrinks
<1>5. QED BY <1>1, <1>4 DEF LoopStep

\* Each step of a loop of the engine ends it or comes nearer to its end, and no loop
\* waits for another: gc_scan does not put an object back twice, and finalizers,
\* whatever they release, do not feed the loop that calls them for ever.
LoopsProgress == [][LoopStep]_vars

\* Why every loop of the engine ends in any graph of objects: what it works off is
\* finite, shrinks with every step, and does not grow again before the loop is done.
THEOREM LoopsHaveBounds == Spec => LoopsProgress
<1>1. IInv /\ [Next]_vars => [LoopStep]_vars
  <2>0. ASSUME phase = "idle" PROVE LoopStep
    BY <2>0 DEF LoopStep
  <2> SUFFICES ASSUME IInv, Next, phase # "idle" PROVE LoopStep
    BY <2>0
  <2>1. ASSUME NEW o \in Objs, Release(o) PROVE LoopStep
    BY <2>1, ReleaseShrinks DEF Release
  <2>2. CASE Freeing
    <3>1. ASSUME DeadFreed PROVE LoopStep
      BY <3>1 DEF DeadFreed, LoopStep
    <3>2. QED BY <2>2, <3>1, FreeDeadShrinks DEF Freeing
  <2>3. CASE Collector
    <3>1. ASSUME PassEnds("decref", "scan", On("obj")) PROVE LoopStep
      BY <3>1 DEF PassEnds, LoopStep
    <3>2. ASSUME PassEnds("scan", "restore", On("tmp")) PROVE LoopStep
      BY <3>2 DEF PassEnds, LoopStep
    <3>3. ASSUME PassEnds("restore", "cycles", {}) PROVE LoopStep
      BY <3>3 DEF PassEnds, LoopStep
    <3>4. ASSUME FreeShells PROVE LoopStep
      BY <3>4 DEF FreeShells, LoopStep
    <3>5. ASSUME NEW p \in Objs, Decref(p) PROVE LoopStep
      BY <3>5 DEF Decref, LoopStep, Shrinks
    <3>6. ASSUME NEW p \in Objs, Restore(p) PROVE LoopStep
      BY <3>6 DEF Restore, LoopStep, Shrinks
    <3>7. QED BY <2>3, <3>1, <3>2, <3>3, <3>4, <3>5, <3>6, ScanShrinks, CyclesShrink DEF Collector
  <2>4. (\E o \in Objs : Release(o)) \/ Freeing \/ Collector
    BY DEF Next, Mutator, RunGC, NewValue, NewPart, Link, Get, Unlink
  <2>5. QED BY <2>1, <2>2, <2>3, <2>4
<1>2. QED BY <1>1, InvariantHolds, PTL DEF Spec, LoopsProgress
=============================================================================
