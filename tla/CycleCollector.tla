--------------------------- MODULE CycleCollector ---------------------------
(***************************************************************************)
(* Life and death of the engine's objects: reference counts, the list of   *)
(* objects whose count reached zero, and the collector that finds dead     *)
(* cycles by trial deletion.  The object graph is explicit, so that what   *)
(* the collector frees can be compared with what is unreachable.           *)
(*                                                                         *)
(* One thread.  The collector's three passes and the two freeing loops are *)
(* split at each object; finalizers call the client between two objects.   *)
(* The order of a list decides nothing here: lists are sets, and a pass    *)
(* takes their members in any order.  Two references from one object to    *)
(* another count as one.  Left out: parts that refer to parts (a context   *)
(* to a shape), giving up a part before its owner dies, a part that the C  *)
(* stack holds (a shape while an object is made of it), and weak           *)
(* references: reset_weak_ref may enqueue the callback of a                *)
(* FinalizationRegistry, and so refer to it, while garbage is freed.       *)
(***************************************************************************)
EXTENDS Integers, FiniteSets

CONSTANTS
  Values,   \* objects and function bytecode: what a JSValue can refer to
  Parts,    \* shapes, closure variables, async states: referred to by objects only
  MaxHeld   \* bound: references to one value from outside the heap

ASSUME CollectorAssumption ==
  /\ Values \cap Parts = {} /\ MaxHeld \in Nat \ {0}
ASSUME FiniteHeap == IsFiniteSet(Values \cup Parts)

Objs == Values \cup Parts

VARIABLES
  status,     \* free memory; a live object; or a shell: finalized, memory kept
  edges,      \* <<p, q>>: p refers to q
  held,       \* references from outside: slots, value references, the C stack
  ref_count,  \* header.ref_count
  list,       \* the list an object is on: gc_obj_list, tmp_obj_list, gc_zero_ref_count_list
  mark,       \* header.mark
  phase,      \* what the engine is at; see below
  todo        \* what the pass in progress has yet to visit

vars == <<status, edges, held, ref_count, list, mark, phase, todo>>

\* idle: client or script runs; dead: free_zero_refcount (JS_GC_PHASE_DECREF);
\* decref, scan, restore: gc_decref and the two loops of gc_scan; cycles:
\* gc_free_cycles (JS_GC_PHASE_REMOVE_CYCLES).
Phases == {"idle", "dead", "decref", "scan", "restore", "cycles"}

TypeOK ==
  /\ status \in [Objs -> {"free", "live", "shell"}]
  /\ edges \in SUBSET (Objs \X Objs)
  /\ held \in [Objs -> 0..MaxHeld]
  /\ ref_count \in [Objs -> Int]
  /\ list \in [Objs -> {"none", "obj", "tmp", "zero"}]
  /\ mark \in [Objs -> {0, 1}]
  /\ phase \in Phases
  /\ todo \in SUBSET Objs

Init ==
  /\ status = [o \in Objs |-> "free"]
  /\ edges = {}
  /\ held = [o \in Objs |-> 0]
  /\ ref_count = [o \in Objs |-> 0]
  /\ list = [o \in Objs |-> "none"]
  /\ mark = [o \in Objs |-> 0]
  /\ phase = "idle"
  /\ todo = {}

On(l) == {o \in Objs : list[o] = l}
\* How many members of S refer to q, in the graph E and as things are.
Count(E, S, q) == Cardinality({p \in S : <<p, q>> \in E})
References(S, q) == Count(edges, S, q)

-----------------------------------------------------------------------------
(* What script and client do to the graph.  They run while the engine is   *)
(* idle.  Called from a finalizer they only release: a callback that       *)
(* allocates could start a collection inside another, or inside the loop   *)
(* that frees, which neither survives.                                     *)

\* A value is worked on through a reference to it, a part through its owner.
InHand(o) == held[o] > 0 \/ (o \in Parts /\ \E v \in Values : held[v] > 0 /\ <<v, o>> \in edges)

\* JS_NewObjectFromShape and the like, add_gc_object
NewValue(o) ==
  /\ phase = "idle" /\ o \in Values /\ status[o] = "free"
  /\ status' = [status EXCEPT ![o] = "live"]
  /\ ref_count' = [ref_count EXCEPT ![o] = 1]
  /\ held' = [held EXCEPT ![o] = 1]
  /\ list' = [list EXCEPT ![o] = "obj"]
  /\ mark' = [mark EXCEPT ![o] = 0]
  /\ UNCHANGED <<edges, phase, todo>>

\* A shape, a closure variable: made for the object that refers to it.
NewPart(v, o) ==
  /\ phase = "idle" /\ o \in Parts /\ status[o] = "free" /\ v \in Values /\ held[v] > 0
  /\ status' = [status EXCEPT ![o] = "live"]
  /\ ref_count' = [ref_count EXCEPT ![o] = 1]
  /\ edges' = edges \cup {<<v, o>>}
  /\ list' = [list EXCEPT ![o] = "obj"]
  /\ mark' = [mark EXCEPT ![o] = 0]
  /\ UNCHANGED <<held, phase, todo>>

\* js_dup into a property, a variable, an array: parts refer to values only.
Link(p, q) ==
  /\ phase = "idle" /\ InHand(p) /\ InHand(q) /\ <<p, q>> \notin edges
  /\ p \in Values \/ q \in Values
  /\ edges' = edges \cup {<<p, q>>}
  /\ ref_count' = [ref_count EXCEPT ![q] = @ + 1]
  /\ UNCHANGED <<status, held, list, mark, phase, todo>>

\* js_dup of a value read
Get(p, q) ==
  /\ phase = "idle" /\ InHand(p) /\ <<p, q>> \in edges
  /\ q \in Values /\ held[q] < MaxHeld
  /\ held' = [held EXCEPT ![q] = @ + 1]
  /\ ref_count' = [ref_count EXCEPT ![q] = @ + 1]
  /\ UNCHANGED <<status, edges, list, mark, phase, todo>>

-----------------------------------------------------------------------------
(* Dropping references. *)

\* js_free_value_rt: the counts of the values Z have reached zero.  While cycles
\* are removed nothing is queued: they stay where they are.
Queue(Z) ==
  IF phase = "cycles" \/ Z = {} THEN UNCHANGED <<list, phase>>
  ELSE /\ list' = [o \in Objs |-> IF o \in Z THEN "zero" ELSE list[o]]
       /\ phase' = "dead"

\* Mutant: a reference that was not taken is released.
ReleaseAny(o) ==
  /\ phase \in {"idle", "dead", "cycles"} /\ status[o] = "live" /\ o \in Values
  /\ held' = [held EXCEPT ![o] = @ - 1]
  /\ ref_count' = [ref_count EXCEPT ![o] = @ - 1]
  /\ Queue(IF ref_count[o] = 1 THEN {o} ELSE {})
  /\ UNCHANGED <<status, edges, mark, todo>>

\* JS_FreeValue by client or script, or by what a finalizer calls.
Release(o) ==
  /\ phase \in {"idle", "dead", "cycles"} /\ held[o] > 0
  /\ held' = [held EXCEPT ![o] = @ - 1]
  /\ ref_count' = [ref_count EXCEPT ![o] = @ - 1]
  /\ Queue(IF ref_count[o] = 1 THEN {o} ELSE {})
  /\ UNCHANGED <<status, edges, mark, todo>>

\* A property is deleted or overwritten.
Unlink(p, q) ==
  /\ phase = "idle" /\ InHand(p) /\ <<p, q>> \in edges /\ q \in Values
  /\ edges' = edges \ {<<p, q>>}
  /\ ref_count' = [ref_count EXCEPT ![q] = @ - 1]
  /\ Queue(IF ref_count[q] = 1 THEN {q} ELSE {})
  /\ UNCHANGED <<status, held, mark, todo>>

\* Parts that only p refers to: js_free_shape, free_var_ref free them with p's
\* reference, and give up theirs.
PartsOf(p) == {s \in Parts : <<p, s>> \in edges /\ ref_count[s] = 1}
Falling(p) == {p} \cup PartsOf(p)

\* free_object, free_function_bytecode: the references p holds are dropped, its
\* finalizer runs, and its memory is freed, or kept as a shell while others in
\* the cycle still refer to it.
FreeObject(p) ==
  LET left == [q \in Objs |-> ref_count[q] - References(Falling(p), q)]
      dead == {q \in Values \ {p} : left[q] = 0 /\ References(Falling(p), q) > 0}
      shell == phase = "cycles" /\ left[p] # 0
      gone == IF shell THEN PartsOf(p) ELSE Falling(p)
  IN /\ edges' = {e \in edges : e[1] \notin Falling(p)}
     /\ ref_count' = left
     /\ status' = [q \in Objs |-> IF q \in gone THEN "free" ELSE
                                  IF q = p THEN "shell" ELSE status[q]]
     /\ list' = [q \in Objs |-> IF q \in gone THEN "none"
                                ELSE IF q = p \/ (q \in dead /\ phase = "dead") THEN "zero"
                                ELSE list[q]]

\* free_zero_refcount: one object of the list ...
FreeDead(p) ==
  /\ phase = "dead" /\ p \in On("zero")
  /\ FreeObject(p)
  /\ UNCHANGED <<held, mark, phase, todo>>

\* Mutant: the phase stays.
DeadFreedKeepsPhase ==
  /\ phase = "dead" /\ On("zero") = {}
  /\ UNCHANGED vars

\* ... until it is empty.
DeadFreed ==
  /\ phase = "dead" /\ On("zero") = {}
  /\ phase' = "idle"
  /\ UNCHANGED <<status, edges, held, ref_count, list, mark, todo>>

-----------------------------------------------------------------------------
(* JS_RunGC *)

\* Mutant: a finalizer called while cycles are removed starts a collection.
RunGCNested ==
  /\ phase \in {"idle", "cycles"}
  /\ phase' = "decref" /\ todo' = On("obj")
  /\ UNCHANGED <<status, edges, held, ref_count, list, mark>>

RunGC ==
  /\ phase = "idle"
  /\ phase' = "decref" /\ todo' = On("obj")
  /\ UNCHANGED <<status, edges, held, ref_count, list, mark>>

\* A pass that is through starts the next one.
PassEnds(from, to, nextTodo) ==
  /\ phase = from /\ todo = {}
  /\ phase' = to /\ todo' = nextTodo
  /\ UNCHANGED <<status, edges, held, ref_count, list, mark>>

\* Mutant: children not yet visited are moved too, and forgotten by the pass.
DecrefMovesAny(p) ==
  LET left == [q \in Objs |-> ref_count[q] - References({p}, q)]
      moved == {q \in Objs : left[q] = 0 /\ (q = p \/ References({p}, q) > 0)}
  IN /\ phase = "decref" /\ p \in todo
     /\ ref_count' = left
     /\ mark' = [mark EXCEPT ![p] = 1]
     /\ list' = [q \in Objs |-> IF q \in moved THEN "tmp" ELSE list[q]]
     /\ todo' = todo \ ({p} \cup moved)
     /\ UNCHANGED <<status, edges, held, phase>>

\* gc_decref: p takes its references away from its children; who was visited and
\* has none left is garbage so far.
Decref(p) ==
  LET left == [q \in Objs |-> ref_count[q] - References({p}, q)]
      moved == {q \in Objs : left[q] = 0 /\ (q = p \/ (References({p}, q) > 0 /\ mark[q] = 1))}
  IN /\ phase = "decref" /\ p \in todo
     /\ ref_count' = left
     /\ mark' = [mark EXCEPT ![p] = 1]
     /\ list' = [q \in Objs |-> IF q \in moved THEN "tmp" ELSE list[q]]
     /\ todo' = todo \ {p}
     /\ UNCHANGED <<status, edges, held, phase>>

\* Mutant: what is put back is not visited itself.
ScanOnlyKept(p) ==
  LET left == [q \in Objs |-> ref_count[q] + References({p}, q)]
      back == {q \in On("tmp") : References({p}, q) > 0}
  IN /\ phase = "scan" /\ p \in todo
     /\ ref_count' = left
     /\ mark' = [q \in Objs |-> IF q = p \/ q \in back THEN 0 ELSE mark[q]]
     /\ list' = [q \in Objs |-> IF q \in back THEN "obj" ELSE list[q]]
     /\ todo' = todo \ {p}
     /\ UNCHANGED <<status, edges, held, phase>>

\* Mutant: the mark of what was never moved is not reset.
ScanKeepsMark(p) ==
  LET left == [q \in Objs |-> ref_count[q] + References({p}, q)]
      back == {q \in Objs : References({p}, q) > 0 /\ left[q] = 1}
  IN /\ phase = "scan" /\ p \in todo
     /\ ref_count' = left
     /\ mark' = [q \in Objs |-> IF q \in back THEN 0 ELSE mark[q]]
     /\ list' = [q \in Objs |-> IF q \in back THEN "obj" ELSE list[q]]
     /\ todo' = (todo \ {p}) \cup back
     /\ UNCHANGED <<status, edges, held, phase>>

\* gc_scan, first loop: p is kept and gives its references back; children that had
\* none are put at the end of gc_obj_list, so the loop comes to them as well.
Scan(p) ==
  LET left == [q \in Objs |-> ref_count[q] + References({p}, q)]
      back == {q \in Objs : References({p}, q) > 0 /\ left[q] = 1}
  IN /\ phase = "scan" /\ p \in todo
     /\ ref_count' = left
     /\ mark' = [q \in Objs |-> IF q = p \/ q \in back THEN 0 ELSE mark[q]]
     /\ list' = [q \in Objs |-> IF q \in back THEN "obj" ELSE list[q]]
     /\ todo' = (todo \ {p}) \cup back
     /\ UNCHANGED <<status, edges, held, phase>>

\* Mutant: garbage does not get its references back.
RestoreNothing(p) ==
  /\ phase = "restore" /\ p \in todo
  /\ todo' = todo \ {p}
  /\ UNCHANGED <<status, edges, held, ref_count, list, mark, phase>>

\* gc_scan, second loop: garbage gives its references back.
Restore(p) ==
  /\ phase = "restore" /\ p \in todo
  /\ ref_count' = [q \in Objs |-> ref_count[q] + References({p}, q)]
  /\ todo' = todo \ {p}
  /\ UNCHANGED <<status, edges, held, list, mark, phase>>

\* gc_free_cycles: values are freed, ...
FreeGarbage(p) ==
  /\ phase = "cycles" /\ p \in On("tmp") \cap Values
  /\ FreeObject(p)
  /\ UNCHANGED <<held, mark, phase, todo>>

\* ... parts wait until those that refer to them are, ...
PutAside(p) ==
  /\ phase = "cycles" /\ p \in On("tmp") \cap Parts
  /\ list' = [list EXCEPT ![p] = "zero"]
  /\ UNCHANGED <<status, edges, held, ref_count, mark, phase, todo>>

\* ... and the memory of the shells goes last.
FreeShells ==
  /\ phase = "cycles" /\ On("tmp") = {}
  /\ status' = [o \in Objs |-> IF list[o] = "zero" THEN "free" ELSE status[o]]
  /\ list' = [o \in Objs |-> IF list[o] = "zero" THEN "none" ELSE list[o]]
  /\ phase' = "idle"
  /\ UNCHANGED <<edges, held, ref_count, mark, todo>>

-----------------------------------------------------------------------------
Mutator ==
  \/ \E o \in Objs : NewValue(o) \/ Release(o)
  \/ \E p, q \in Objs : NewPart(p, q) \/ Link(p, q) \/ Get(p, q) \/ Unlink(p, q)

Collector ==
  \/ PassEnds("decref", "scan", On("obj"))
  \/ PassEnds("scan", "restore", On("tmp"))
  \/ PassEnds("restore", "cycles", {})
  \/ FreeShells
  \/ \E p \in Objs : Decref(p) \/ Scan(p) \/ Restore(p) \/ FreeGarbage(p) \/ PutAside(p)

Freeing == DeadFreed \/ \E p \in Objs : FreeDead(p)

Next == Mutator \/ RunGC \/ Collector \/ Freeing

\* The engine does not stop in the middle of a loop: it runs on the client's thread.
Spec == Init /\ [][Next]_vars
Fairness == WF_vars(Collector) /\ WF_vars(Freeing)
FairSpec == Spec /\ Fairness

-----------------------------------------------------------------------------
(* Properties *)

Live == {o \in Objs : status[o] = "live"}

\* S has what is held from outside, and with an object all it refers to.
Closed(S) ==
  /\ \A o \in Objs : held[o] > 0 => o \in S
  /\ \A p, q \in Objs : p \in S /\ <<p, q>> \in edges => q \in S
Reachable == {o \in Objs : \A S \in SUBSET Objs : Closed(S) => o \in S}

\* What client or script can still reach is never freed nor on the way to it: it is
\* live, and once the collector has made up its mind, on gc_obj_list.
ReachableKept ==
  \A o \in Reachable :
    /\ status[o] = "live"
    /\ phase \in {"idle", "dead", "restore", "cycles"} => list[o] = "obj"

\* When the first loop of gc_scan is through, tmp_obj_list is exactly what cannot be
\* reached: dead cycles of every shape, with all that hangs on them, and nothing else.
CollectsExactlyGarbage == phase = "restore" => On("tmp") = Live \ Reachable

\* Outside the passes a count is the number of references there are: a collection
\* gives back all it took on trial, whatever it keeps.
Counted ==
  phase \in {"idle", "dead", "cycles"} =>
    \A o \in Objs : status[o] # "free" => ref_count[o] = held[o] + References(Objs, o)

\* The assertions of free_zero_refcount, gc_decref_child, gc_decref, gc_scan and
\* gc_free_cycles.
AssertionsHold ==
  /\ phase = "dead" => \A p \in On("zero") : ref_count[p] = 0
  /\ phase = "decref" =>
       \A p \in todo : mark[p] = 0 /\ \A q \in Objs : <<p, q>> \in edges => ref_count[q] > 0
  /\ phase = "scan" => \A p \in todo : ref_count[p] > 0
  /\ phase = "cycles" /\ On("tmp") = {} => On("zero") \subseteq Values

\* Only live objects refer to others, and what they refer to is still memory: a
\* finalizer that drops the references of an object never touches freed memory.
NoDanglingEdge ==
  \A p, q \in Objs : <<p, q>> \in edges => status[p] = "live" /\ status[q] # "free"

\* Every loop comes to its end: gc_scan, although it puts objects at the end of the
\* list it walks, the freeing loops whatever finalizers release meanwhile.
EngineReturns == phase # "idle" ~> phase = "idle"
=============================================================================
