---------------------------- MODULE ObjectMapper ----------------------------
(***************************************************************************)
(* CppObjectMapper at work: JS wrappers of native objects, the cache that  *)
(* finds a wrapper again by address and class, and the class callbacks     *)
(* (Initialize, Finalize, OnEnter, OnExit), any of which may call back     *)
(* into the API.  The engine underneath is kept to what decides when a     *)
(* wrapper dies: reference counts, the list of objects whose count reached *)
(* zero, and the collection of cycles.                                     *)
(*                                                                         *)
(* Everything runs on one thread.  `stack' holds the C++ activations in    *)
(* progress, innermost last, so a handler that calls out to client code is *)
(* split at the call: what it read before the call may have changed after. *)
(***************************************************************************)
EXTENDS Integers, Sequences, FiniteSets, NodeLists

CONSTANTS
  Ptrs,         \* addresses of native objects
  NullPtr,      \* nullptr
  TypeIds,      \* type ids the client passes
  Registered,   \* those LoadClassByID finds a definition for
  Finalizable,  \* ... whose definition has a Finalize callback
  Traced,       \* ... whose definition has OnEnter and OnExit
  PtrType,      \* the TypeId of PtrClassDef, the class of unregistered types
  Wrappers,     \* identities of JS objects of class __papi_obj
  Nobody,       \* no opaque data, no user data
  MaxRefs,      \* bound: counted references the client holds to one wrapper
  MaxDepth,     \* bound: activations under which client code still calls in
  Contract      \* the promises the client keeps; see below

ASSUME MapperAssumption ==
  /\ Registered \subseteq TypeIds /\ PtrType \notin TypeIds
  /\ Finalizable \subseteq Registered /\ Traced \subseteq Registered
  /\ Nobody \notin Wrappers
  /\ MaxRefs \in Nat \ {0} /\ MaxDepth \in Nat

(***************************************************************************)
(* Nothing in the code enforces the following; each is a clause the client *)
(* may be assumed to keep or not.                                          *)
(*   fresh     an object handed over with call_finalize, or returned by    *)
(*             Initialize, is not wrapped under that class already         *)
(*   single    one address is wrapped under one class at a time            *)
(*   quiet     callbacks that run while the engine frees objects (Finalize *)
(*             and OnExit) release references but call nothing else        *)
(*   released  every reference is released before destroy_qjs_env          *)
(*   linked    script that stores a wrapper in a constructor of a class    *)
(*             leaves the link of its prototype to it in place, so that    *)
(*             Cleanup does not free the constructor by releasing it       *)
(***************************************************************************)
Clauses == {"fresh", "single", "quiet", "released", "linked"}
ASSUME ContractAssumption == Contract \subseteq Clauses

VARIABLES
  cache,     \* CDataCache: [Ptrs -> Seq(Node)]
  status,    \* life of a wrapper
  udata,     \* its opaque ObjectUserData
  native,    \* counted references held by client code: scope slots, value refs
  script,    \* whether script holds it: from a root, or only from a dead cycle
  zeroRefs,  \* gc_zero_ref_count_list
  garbage,   \* tmp_obj_list while gc_free_cycles works it off
  phase,     \* gc_phase
  stack,     \* activations in progress
  env,       \* the environment
  calls      \* history: callbacks made for the current life of a wrapper

vars == <<cache, status, udata, native, script, zeroRefs, garbage, phase, stack, env, calls>>

Classes == Registered \cup {PtrType}
ClassOf(T) == IF T \in Registered THEN T ELSE PtrType

\* OnEnter's return value is named after the wrapper it was called for.
UserData == Wrappers \cup {Nobody}
Node == [TypeId : Classes, Value : Wrappers, UserData : UserData]
ObjectUserData == [typeInfo : Classes, ptr : Ptrs, callFinalize : BOOLEAN]

\* Activations: PushNativeObject past its lookup; Initialize and OnEnter of a
\* wrapper under construction (cell says where CacheNodePtr points); the loops
\* free_zero_refcount and gc_free_cycles; PApiObjectFinalizer in Finalize, past
\* it, and in OnExit.
Frame ==
  [pc : {"create"}, T : TypeIds, p : Ptrs, own : BOOLEAN] \cup
  [pc : {"init"}, w : Wrappers, T : Registered] \cup
  [pc : {"enter", "added"}, w : Wrappers, cell : {"entry", "heap"}, throws : BOOLEAN] \cup
  [pc : {"free", "gc"}] \cup
  [pc : {"finalize", "remove"}, w : Wrappers] \cup
  [pc : {"exit"}, w : Wrappers, ud : UserData]

Calls == [enter : 0..2, exit : 0..2, fin : 0..2]
NoCalls == [enter |-> 0, exit |-> 0, fin |-> 0]
\* History counts up to two: once too often is all the properties tell apart.
Once(n) == IF n < 2 THEN n + 1 ELSE 2

TypeOK ==
  /\ cache \in [Ptrs -> Seq(Node)]
  /\ status \in [Wrappers -> {"free", "blank", "bound", "queued", "dying"}]
  /\ udata \in [Wrappers -> ObjectUserData \cup {Nobody}]
  /\ native \in [Wrappers -> 0..MaxRefs]
  /\ script \in [Wrappers -> {"none", "root", "cycle"}]
  /\ zeroRefs \in Seq(Wrappers)
  /\ garbage \in SUBSET Wrappers
  /\ phase \in {"none", "decref", "cycles"}
  /\ stack \in Seq(Frame)
  /\ env \in {"running", "cleaning", "closing", "freed"}
  /\ calls \in [Wrappers -> Calls]

Init ==
  /\ cache = [p \in Ptrs |-> << >>]
  /\ status = [w \in Wrappers |-> "free"]
  /\ udata = [w \in Wrappers |-> Nobody]
  /\ native = [w \in Wrappers |-> 0]
  /\ script = [w \in Wrappers |-> "none"]
  /\ zeroRefs = << >> /\ garbage = {} /\ phase = "none"
  /\ stack = << >>
  /\ env = "running"
  /\ calls = [w \in Wrappers |-> NoCalls]

-----------------------------------------------------------------------------
(* The stack and who runs. *)

Top == stack[Len(stack)]
Caller == SubSeq(stack, 1, Len(stack) - 1)
Becomes(f) == [stack EXCEPT ![Len(stack)] = f]
At(pcs) == stack # << >> /\ Top.pc \in pcs

\* Client code may call any function of the API.
ClientRuns ==
  /\ env = "running"
  /\ \/ stack = << >>
     \/ At({"init", "enter"})
     \/ At({"finalize", "exit"}) /\ "quiet" \notin Contract

\* Client code may at least release references.
ClientReleases ==
  \/ env = "running" /\ stack = << >>
  \/ At({"init", "enter", "finalize", "exit"})

\* The activation constructing w holds a reference of its own.
Pinned(w) ==
  \E i \in 1..Len(stack) : stack[i].pc \in {"init", "enter", "added"} /\ stack[i].w = w
Referenced(w) == native[w] > 0 \/ script[w] # "none" \/ Pinned(w)
MayRefer(w) == native[w] + (IF Pinned(w) THEN 1 ELSE 0) < MaxRefs

-----------------------------------------------------------------------------
(* js_free_value_rt: the last reference to w went away; stk is the stack of *)
(* whoever dropped it.                                                      *)

\* list_del: an object may be on the list already.
Unlinked(w) ==
  IF \E i \in 1..Len(zeroRefs) : zeroRefs[i] = w
  THEN Without(zeroRefs, CHOOSE i \in 1..Len(zeroRefs) : zeroRefs[i] = w)
  ELSE zeroRefs

\* While cycles are removed nothing is queued: w stays, with a count of zero,
\* until the next collection.
LastRefGone(w, stk) ==
  IF phase = "cycles" THEN
    /\ stack' = stk
    /\ UNCHANGED <<status, zeroRefs, phase>>
  ELSE
    /\ status' = [status EXCEPT ![w] = IF @ = "dying" THEN @ ELSE "queued"]
    /\ zeroRefs' = IF status[w] = "dying" THEN zeroRefs ELSE <<w>> \o Unlinked(w)
    /\ phase' = "decref"
    /\ stack' = IF phase = "none" THEN Append(stk, [pc |-> "free"]) ELSE stk

\* pesapi_close_scope, pesapi_release_value_ref, a value leaving its slot: one
\* reference held by client code goes away.
Release(w) ==
  /\ ClientReleases
  /\ status[w] # "free" /\ native[w] > 0
  /\ native' = [native EXCEPT ![w] = @ - 1]
  /\ IF native[w] = 1 /\ script[w] = "none" /\ ~Pinned(w)
     THEN LastRefGone(w, stack)
     ELSE UNCHANGED <<status, zeroRefs, phase, stack>>
  /\ UNCHANGED <<cache, udata, script, garbage, env, calls>>

\* A value ref or another slot for a wrapper the client holds or, in
\* Initialize, for the object under construction.
Keep(w) ==
  /\ ClientRuns
  /\ native[w] > 0 \/ (At({"init"}) /\ Top.w = w)
  /\ MayRefer(w)
  /\ native' = [native EXCEPT ![w] = @ + 1]
  /\ UNCHANGED <<cache, status, udata, script, zeroRefs, garbage, phase, stack, env, calls>>

\* Script stores a wrapper it was given where it is reachable.
Root(w) ==
  /\ ClientRuns
  /\ native[w] > 0 /\ script[w] # "root"
  /\ script' = [script EXCEPT ![w] = "root"]
  /\ UNCHANGED <<cache, status, udata, native, zeroRefs, garbage, phase, stack, env, calls>>

\* It lets go of it again: with the reference, or with the last path to a cycle
\* the reference is part of.
LetsGo(w) ==
  /\ status[w] # "free" /\ script[w] = "root"
  /\ \/ /\ script' = [script EXCEPT ![w] = "none"]
        /\ IF native[w] = 0 /\ ~Pinned(w)
           THEN LastRefGone(w, stack)
           ELSE UNCHANGED <<status, zeroRefs, phase, stack>>
     \/ /\ script' = [script EXCEPT ![w] = "cycle"]
        /\ UNCHANGED <<status, zeroRefs, phase, stack>>
  /\ UNCHANGED <<cache, udata, native, garbage, env, calls>>

Unroot(w) == ClientRuns /\ LetsGo(w)

-----------------------------------------------------------------------------
(* Wrapping a native object. *)

MayBind(p, C, own) ==
  /\ "fresh" \in Contract /\ own => Positions(cache[p], C) = {}
  /\ "single" \in Contract => \A i \in 1..Len(cache[p]) : cache[p][i].TypeId = C

\* PushNativeObject with call_finalize = false finds the wrapper in the cache.
PushHit(T, p) ==
  /\ ClientRuns
  /\ p # NullPtr
  /\ Positions(cache[p], T) # {}
  /\ LET w == cache[p][FirstOf(cache[p], T)].Value
     IN /\ MayRefer(w)
        /\ native' = [native EXCEPT ![w] = @ + 1]
  /\ UNCHANGED <<cache, status, udata, script, zeroRefs, garbage, phase, stack, env, calls>>

\* JS_NewObjectProtoClass returns memory that is not in use.
Fresh(w) == status[w] = "free" /\ native[w] = 0

\* PushNativeObject goes on to create a wrapper.
PushMiss(T, p, own) ==
  /\ ClientRuns
  /\ p # NullPtr
  /\ own \/ Positions(cache[p], T) = {}
  /\ MayBind(p, ClassOf(T), own)
  /\ Len(stack) < MaxDepth /\ \E w \in Wrappers : Fresh(w)
  /\ stack' = Append(stack, [pc |-> "create", T |-> T, p |-> p, own |-> own])
  /\ UNCHANGED <<cache, status, udata, native, script, zeroRefs, garbage, phase, env, calls>>

\* BindAndAddToCache of the new object w, up to the call of OnEnter.
BindAndAddToCache(w, C, p, own, throws) ==
  /\ status' = [status EXCEPT ![w] = "bound"]
  /\ udata' = [udata EXCEPT ![w] = [typeInfo |-> C, ptr |-> p, callFinalize |-> own]]
  /\ cache' = [cache EXCEPT
                 ![p] = AddNode(@, [TypeId |-> C, Value |-> w, UserData |-> Nobody])]
  /\ stack' = Becomes([pc |-> IF C \in Traced THEN "enter" ELSE "added", w |-> w,
                       cell |-> IF cache[p] = << >> THEN "entry" ELSE "heap",
                       throws |-> throws])

\* The rest of PushNativeObject, once the class and the object exist.
PushCreate(w) ==
  /\ At({"create"})
  /\ Fresh(w)
  /\ BindAndAddToCache(w, ClassOf(Top.T), Top.p, Top.own, FALSE)
  /\ calls' = [calls EXCEPT ![w] =
                 [NoCalls EXCEPT !.enter = IF ClassOf(Top.T) \in Traced THEN 1 ELSE 0]]
  /\ UNCHANGED <<native, script, zeroRefs, garbage, phase, env>>

\* Script constructs an object of class T: `this' exists when Initialize runs.
Construct(w, T) ==
  /\ ClientRuns
  /\ Fresh(w)
  /\ Len(stack) < MaxDepth
  /\ status' = [status EXCEPT ![w] = "blank"]
  /\ calls' = [calls EXCEPT ![w] = NoCalls]
  /\ stack' = Append(stack, [pc |-> "init", w |-> w, T |-> T])
  /\ UNCHANGED <<cache, udata, native, script, zeroRefs, garbage, phase, env>>

\* Initialize returns p; whether it threw is looked at after binding.
InitializeReturns(p, throws) ==
  /\ At({"init"})
  /\ MayBind(p, Top.T, TRUE)
  /\ BindAndAddToCache(Top.w, Top.T, p, TRUE, throws)
  /\ calls' = [calls EXCEPT ![Top.w].enter = IF Top.T \in Traced THEN 1 ELSE 0]
  /\ UNCHANGED <<native, script, zeroRefs, garbage, phase, env>>

\* Mutant: only nodes added behind the head get their user data.
StoreInHeapNodeOnly(w, cell) ==
  LET p == udata[w].ptr
  IN [cache EXCEPT ![p] =
        [i \in 1..Len(cache[p]) |->
           IF i > 1 /\ cache[p][i].Value = w THEN [cache[p][i] EXCEPT !.UserData = w]
           ELSE cache[p][i]]]

\* OnEnter's result goes where CacheNodePtr points: to the node in the map
\* entry, whatever binding that holds by now, or to the heap node made for w;
\* if the latter was moved into the entry meanwhile the write is lost.
StoreUserData(w, cell) ==
  LET p == udata[w].ptr
  IN [cache EXCEPT ![p] =
        [i \in 1..Len(cache[p]) |->
           IF IF cell = "entry" THEN i = 1 ELSE i > 1 /\ cache[p][i].Value = w
           THEN [TypeId |-> cache[p][i].TypeId, Value |-> cache[p][i].Value, UserData |-> w]
           ELSE cache[p][i]]]

\* Mutant: on the exception path `this' is freed, not only dereferenced.
ThrowFreesAlways ==
  /\ At({"enter", "added"})
  /\ LET w == Top.w
     IN /\ cache' = IF Top.pc = "enter" THEN StoreUserData(w, Top.cell) ELSE cache
        /\ IF ~Top.throws THEN
             /\ native' = [native EXCEPT ![w] = @ + 1]
             /\ stack' = Caller
             /\ UNCHANGED <<status, zeroRefs, phase>>
           ELSE
             /\ UNCHANGED native
             /\ LastRefGone(w, Caller)
  /\ UNCHANGED <<udata, script, garbage, env, calls>>

\* BindAndAddToCache returns.  Its caller hands the object on or, when
\* Initialize threw, frees it.
Constructed ==
  /\ At({"enter", "added"})
  /\ LET w == Top.w
     IN /\ cache' = IF Top.pc = "enter" THEN StoreUserData(w, Top.cell) ELSE cache
        /\ IF ~Top.throws THEN
             /\ native' = [native EXCEPT ![w] = @ + 1]
             /\ stack' = Caller
             /\ UNCHANGED <<status, zeroRefs, phase>>
           ELSE
             /\ UNCHANGED native
             /\ IF native[w] = 0 /\ script[w] = "none"
                THEN LastRefGone(w, Caller)
                ELSE stack' = Caller /\ UNCHANGED <<status, zeroRefs, phase>>
  /\ UNCHANGED <<udata, script, garbage, env, calls>>

-----------------------------------------------------------------------------
(* Freeing wrappers. *)

\* Unreachable: nothing counts, or only references from dead cycles do.
Stranded == {w \in Wrappers : status[w] = "bound" /\ ~Referenced(w)}
Collectable ==
  {w \in Wrappers : status[w] = "bound" /\ native[w] = 0 /\ script[w] # "root" /\ ~Pinned(w)}

\* JS_RunGC, up to gc_free_cycles.  Which of the dead cycles also hang on
\* something that is still referenced is left open.
RunGC(S) ==
  /\ env = "running" /\ phase = "none"
  /\ stack = << >> \/ At({"create", "init", "enter"})
  /\ S # {} /\ Stranded \subseteq S
  /\ garbage' = S
  /\ phase' = "cycles"
  /\ stack' = Append(stack, [pc |-> "gc"])
  /\ UNCHANGED <<cache, status, udata, native, script, zeroRefs, env, calls>>

\* PApiObjectFinalizer calls Finalize first.
StartFinalizer(w) ==
  LET u == udata[w]
      hook == u.callFinalize /\ u.typeInfo \in Finalizable
  IN /\ status' = [status EXCEPT ![w] = "dying"]
     /\ script' = [script EXCEPT ![w] = "none"]
     /\ stack' = Append(stack, [pc |-> IF hook THEN "finalize" ELSE "remove", w |-> w])
     /\ calls' = [calls EXCEPT ![w].fin = IF hook THEN Once(@) ELSE @]

\* free_zero_refcount takes the first object of the list.
FreeNext ==
  /\ At({"free"})
  /\ zeroRefs # << >>
  /\ StartFinalizer(Head(zeroRefs))
  /\ zeroRefs' = Tail(zeroRefs)
  /\ UNCHANGED <<cache, udata, native, garbage, phase, env>>

\* Mutant: the phase is not reset when the list is empty.
FreeDoneKeepsPhase ==
  /\ At({"free"})
  /\ zeroRefs = << >>
  /\ stack' = Caller
  /\ UNCHANGED <<cache, status, udata, native, script, zeroRefs, garbage, phase, env, calls>>

FreeDone ==
  /\ At({"free"})
  /\ zeroRefs = << >>
  /\ phase' = "none"
  /\ stack' = Caller
  /\ UNCHANGED <<cache, status, udata, native, script, zeroRefs, garbage, env, calls>>

\* gc_free_cycles takes the next unreachable object.
CollectNext(w) ==
  /\ At({"gc"})
  /\ w \in garbage
  /\ StartFinalizer(w)
  /\ garbage' = garbage \ {w}
  /\ UNCHANGED <<cache, udata, native, zeroRefs, phase, env>>

\* The last collection is the one of JS_FreeRuntime.
CollectDone ==
  /\ At({"gc"})
  /\ garbage = {}
  /\ phase' = "none"
  /\ stack' = Caller
  /\ env' = IF env = "closing" THEN "freed" ELSE env
  /\ UNCHANGED <<cache, status, udata, native, script, zeroRefs, garbage, calls>>

FinalizeReturns ==
  /\ At({"finalize"})
  /\ stack' = Becomes([pc |-> "remove", w |-> Top.w])
  /\ UNCHANGED <<cache, status, udata, native, script, zeroRefs, garbage, phase, env, calls>>

\* RemoveFromCache calls OnExit before it looks for the node: the user data it
\* passes is that of the node in the map entry.
RemoveFromCache ==
  /\ At({"remove"})
  /\ LET w == Top.w
         u == udata[w]
     IN /\ cache[u.ptr] # << >> /\ u.typeInfo \in Traced
        /\ stack' = Becomes([pc |-> "exit", w |-> w, ud |-> cache[u.ptr][1].UserData])
        /\ calls' = [calls EXCEPT ![w].exit = Once(@)]
  /\ UNCHANGED <<cache, status, udata, native, script, zeroRefs, garbage, phase, env>>

\* OnExit returned, or there was none to call.
FinalizerEnds ==
  \/ At({"exit"})
  \/ At({"remove"}) /\ (cache[udata[Top.w].ptr] = << >> \/ udata[Top.w].typeInfo \notin Traced)

\* Mutant: the map entry of the last node is not erased.
FreedWithoutErase ==
  /\ FinalizerEnds
  /\ LET w == Top.w
         u == udata[w]
     IN /\ cache' = [cache EXCEPT ![u.ptr] =
                       IF Len(@) = 1 THEN <<[@[1] EXCEPT !.TypeId = Nobody]>>
                       ELSE RemoveFirst(@, u.typeInfo)]
        /\ udata' = [udata EXCEPT ![w] = Nobody]
        /\ status' = [status EXCEPT ![w] = "free"]
  /\ stack' = Caller
  /\ UNCHANGED <<native, script, zeroRefs, garbage, phase, env, calls>>

\* Mutant: the finalizer does not remove the node.
FreedWithoutRemove ==
  /\ FinalizerEnds
  /\ udata' = [udata EXCEPT ![Top.w] = Nobody]
  /\ status' = [status EXCEPT ![Top.w] = "free"]
  /\ stack' = Caller
  /\ UNCHANGED <<cache, native, script, zeroRefs, garbage, phase, env, calls>>

\* Mutant: Remove goes on after the first node of the class.
FreedRemovesAll ==
  /\ FinalizerEnds
  /\ LET w == Top.w
         u == udata[w]
     IN /\ cache' = [cache EXCEPT ![u.ptr] = SelectSeq(@, LAMBDA n : n.TypeId # u.typeInfo)]
        /\ udata' = [udata EXCEPT ![w] = Nobody]
        /\ status' = [status EXCEPT ![w] = "free"]
  /\ stack' = Caller
  /\ UNCHANGED <<native, script, zeroRefs, garbage, phase, env, calls>>

\* The node goes, then the opaque data, then the object.
ObjectFreed ==
  /\ FinalizerEnds
  /\ LET w == Top.w
         u == udata[w]
     IN /\ cache' = [cache EXCEPT ![u.ptr] = RemoveFirst(@, u.typeInfo)]
        /\ udata' = [udata EXCEPT ![w] = Nobody]
        /\ status' = [status EXCEPT ![w] = "free"]
  /\ stack' = Caller
  /\ UNCHANGED <<native, script, zeroRefs, garbage, phase, env, calls>>

-----------------------------------------------------------------------------
(* The end of the environment. *)

\* OnExit is called for every node.
CleanupCalls ==
  [w \in Wrappers |->
     IF \E p \in Ptrs : \E i \in 1..Len(cache[p]) :
          cache[p][i].Value = w /\ cache[p][i].TypeId \in Traced
     THEN [calls[w] EXCEPT !.exit = Once(@)] ELSE calls[w]]

\* destroy_qjs_env, all scopes being closed: Cleanup up to the last OnExit.  What
\* OnExit itself releases from here is left out.
Cleanup ==
  /\ env = "running" /\ stack = << >>
  /\ "released" \in Contract => \A w \in Wrappers : native[w] = 0
  /\ calls' = CleanupCalls
  /\ env' = "cleaning"
  /\ UNCHANGED <<cache, status, udata, native, script, zeroRefs, garbage, phase, stack>>

\* Cleanup goes on to release the constructors: one that only the map held lets go
\* of a wrapper stored in it, whose node is still in the cache.
ReleaseConstructor(w) ==
  /\ env = "cleaning" /\ stack = << >>
  /\ "linked" \notin Contract
  /\ LetsGo(w)

\* What the last collection takes: a value ref that is still out holds the
\* context, and with it everything the roots reach.
LeftToCollect ==
  IF \E w \in Wrappers : native[w] > 0 THEN Collectable
  ELSE {w \in Wrappers : status[w] = "bound"}

\* Mutant: Cleanup leaves the nodes in the cache.
DestroyKeepsCache ==
  /\ env = "cleaning" /\ stack = << >>
  /\ garbage' = LeftToCollect
  /\ phase' = "cycles"
  /\ stack' = << [pc |-> "gc"] >>
  /\ env' = "closing"
  /\ UNCHANGED <<cache, status, udata, native, script, zeroRefs, calls>>

\* Mutant: the runtime is freed before the context lets go of its roots.
DestroyKeepsRoots ==
  /\ env = "cleaning" /\ stack = << >>
  /\ cache' = [p \in Ptrs |-> << >>]
  /\ garbage' = Collectable
  /\ phase' = "cycles"
  /\ stack' = << [pc |-> "gc"] >>
  /\ env' = "closing"
  /\ UNCHANGED <<status, udata, native, script, zeroRefs, calls>>

\* Cleanup ends by clearing the cache, the context lets go of its roots and the
\* last collection starts.
Destroy ==
  /\ env = "cleaning" /\ stack = << >>
  /\ cache' = [p \in Ptrs |-> << >>]
  /\ garbage' = LeftToCollect
  /\ phase' = "cycles"
  /\ stack' = << [pc |-> "gc"] >>
  /\ env' = "closing"
  /\ UNCHANGED <<status, udata, native, script, zeroRefs, calls>>

Destroyed == env = "freed" /\ UNCHANGED vars

Client ==
  \/ \E w \in Wrappers : Release(w) \/ Keep(w) \/ Root(w) \/ Unroot(w)
  \/ \E T \in TypeIds, p \in Ptrs : PushHit(T, p)
  \/ \E T \in TypeIds, p \in Ptrs, own \in BOOLEAN : PushMiss(T, p, own)
  \/ \E w \in Wrappers, T \in Registered : Construct(w, T)
  \/ \E p \in Ptrs, throws \in BOOLEAN : InitializeReturns(p, throws)
  \/ \E S \in SUBSET Collectable : RunGC(S)
  \/ Cleanup

\* Steps of the code itself, and the return of callbacks.
Engine ==
  \/ \E w \in Wrappers : PushCreate(w)
  \/ Constructed
  \/ FreeNext \/ FreeDone \/ CollectDone
  \/ \E w \in Wrappers : CollectNext(w)
  \/ FinalizeReturns \/ RemoveFromCache \/ ObjectFreed
  \/ \E w \in Wrappers : ReleaseConstructor(w)
  \/ Destroy

Next == Client \/ Engine \/ Destroyed

Spec == Init /\ [][Next]_vars

\* The engine does not stop halfway, and callbacks return.
FairSpec == Spec /\ WF_vars(Engine)

-----------------------------------------------------------------------------
Alive(w) == status[w] \in {"bound", "queued", "dying"}

\* What a lookup can find is right: a node of a registered class names a
\* wrapper of that address and class whose object still exists, and no class
\* has a second node at the address.  Needs "fresh" and "quiet".
CacheSound ==
  \A p \in Ptrs : \A i \in 1..Len(cache[p]) :
    LET n == cache[p][i]
    IN n.TypeId \in Registered =>
         /\ Alive(n.Value)
         /\ udata[n.Value] \in ObjectUserData
         /\ udata[n.Value].ptr = p /\ udata[n.Value].typeInfo = n.TypeId
         /\ \A j \in 1..Len(cache[p]) : cache[p][j].TypeId = n.TypeId => j = i

\* Until Cleanup clears the cache there are as many nodes of a class at an address as
\* wrappers: the finalizer of each removes one node, even if not always its own.
NodePerWrapper ==
  env \in {"running", "cleaning"} =>
    \A p \in Ptrs, C \in Classes :
      Cardinality(Positions(cache[p], C)) =
        Cardinality({w \in Wrappers : Alive(w) /\ udata[w].ptr = p /\ udata[w].typeInfo = C})

\* No reference outlives the object: what client code, script or an activation
\* holds is not being freed.  Needs "fresh" and "quiet".
NoDanglingRef ==
  \A w \in Wrappers : Referenced(w) => status[w] \in {"blank", "bound"}

\* free_zero_refcount asserts that the object it is about to free is not
\* referenced.
ZeroRefAssert == At({"free"}) /\ zeroRefs # << >> => ~Referenced(Head(zeroRefs))

\* OnExit gets what OnEnter returned for the same wrapper, as pesapi.h says.
ExitUserData == At({"exit"}) => Top.ud = Top.w

\* OnEnter's result is kept for OnExit: in the finalizer, and in the nodes from
\* which Cleanup will take it.  Needs "single" with "fresh" and "quiet".
UserDataKept ==
  /\ ExitUserData
  /\ \A p \in Ptrs : \A i \in 1..Len(cache[p]) :
       LET n == cache[p][i]
       IN /\ n.TypeId \in Traced
          /\ \A k \in 1..Len(stack) : stack[k].pc = "enter" => stack[k].w # n.Value
          => n.UserData = n.Value

\* Over the life of a wrapper Finalize is called once if the wrapper owns its
\* object and never otherwise, and OnExit as often as OnEnter.  Needs "fresh", "quiet"
\* and, lest Cleanup release what it has called OnExit for, "linked".
HooksPaired ==
  [][\A w \in Wrappers : status[w] = "dying" /\ status'[w] = "free" =>
       /\ calls[w].fin = IF udata[w].callFinalize /\ udata[w].typeInfo \in Finalizable THEN 1 ELSE 0
       /\ calls[w].exit = calls[w].enter]_vars

\* Once the environment is gone no wrapper is left that the client does not
\* hold: Cleanup does not call Finalize for owned objects because the engine
\* is said to free every wrapper.  Needs "released".
DestroyReleasesAll ==
  env = "freed" => \A w \in Wrappers : native[w] = 0 => status[w] = "free"

\* Freeing comes to an end, whatever the callbacks release meanwhile.
FreeingEnds == (phase # "none") ~> (phase = "none")
=============================================================================
