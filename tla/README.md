# A formal model of papi-quickjs

papi-quickjs implements the `pesapi` C interface on top of QuickJS: a native host
registers classes, hands native objects to script, calls script and is called
back, and holds references to script values. What is hard in it is not any one
function but object lifetime: who still refers to what, in which order finalizers
and callbacks run, and what a callback finds when it calls back into the library
in the middle of an operation. This directory holds TLA+ modules that model that
part of the program, TLC configurations that check them on small instances, and
proofs, checked by TLAPS, of what holds for every instance.

## 1. Inventory

Everything runs on one thread per runtime. Concurrency is re-entrancy: any call
of a client callback (`Initialize`, `Finalize`, `OnEnter`, `OnExit`, a method, a
function's finalizer) may come back through the interface before it returns, and
any allocation may run the cycle collector, which runs finalizers, which call
callbacks.

| Component | Source | State | Operations | What is hard | What makes it correct |
|---|---|---|---|---|---|
| Cache nodes | `include/ObjectCacheNodeQuickjs.h` | per address a list of nodes; the first lives in the hash map entry, the others on the heap | `Find`, `Add`, `Remove`, moves, destructor | moving the second node into the first, freeing shells, recursion | memory: no dangling, shared or lost node; behaviour: a sequence of bindings |
| Object mapper | `source/CppObjectMapperQuickjs.cpp`, `include/CppObjectMapperQuickjs.h` | `CDataCache`, the opaque data of each wrapper, `TypeIdToFunctionMap` | `PushNativeObject`, the constructor, `BindAndAddToCache`, `PApiObjectFinalizer`, `RemoveFromCache`, `Cleanup` | callbacks between lookup, binding and removal; addresses shared by classes; throwing constructors; the end of the environment | a lookup finds a living wrapper of that address and class; callbacks are paired and get their own user data; destroying the environment frees everything |
| Engine lifetime | `quickjs/quickjs.c` 1420-1440, 5532-5959 | reference counts and marks, `gc_obj_list`, `gc_zero_ref_count_list`, `tmp_obj_list`, `gc_phase` | `JS_FreeValueRT`, `free_zero_refcount`, `JS_RunGC` (`gc_decref`, `gc_scan`, `gc_free_cycles`), `JS_FreeRuntime` | releases from inside finalizers, in either phase; passes over lists they change | nothing reachable is freed, all else is; counts are right again after a collection; freeing ends |
| Scopes and slots | `include/PapiData.h`, `source/PapiQuickjsImpl.cpp` 567-666 | a linked list of open scopes, four fixed slots and a vector, the caught exception | open, close, allocate, catch | closing order, finalizers during close, the drain of pending jobs | every slot is freed once, an exception is reported and freed once, the right scope is current |
| References | `include/PapiData.h` 25-67, `source/PapiQuickjsImpl.cpp` 522-565, 668-713 | reference counts, the held context, a weak pointer to the environment's life | create, duplicate, release, get, set weak | release after the environment is gone | no double free; nothing touched after the end |
| Class registry | `papi-register/source/JSClassRegister.cpp`, `RapiImpl.cpp` | definitions by type id and by name | register, load (with the not-found callback), set type info, trace | re-registration, tracing a class in use | no definition in use is freed |
| Class creation | `CppObjectMapperQuickjs.cpp` 225-335 | constructor functions by type id | `FindOrCreateClass` and its recursion | cycles of super types | one constructor per type; prototype chain follows the super types |
| Trampolines | `CppObjectMapperQuickjs.cpp` 27-67, 162-223, `PapiQuickjsImpl.cpp` 187-202, 503-520 | function data, trace objects | create function, method, property; return, throw | finalizer of function data, exceptions | each function's finalizer runs once; one result per call |
| Values | `PapiQuickjsImpl.cpp` (the rest) | none of its own | conversions, properties, boxing, private data | integer widths, prototype chain | a conversion and its inverse agree |
| Pending jobs | `quickjs.c` 1949-2005 | the job list | enqueue, execute | jobs that enqueue jobs; jobs the engine enqueues for a FinalizationRegistry as objects die | first in, first out; all enqueued before the drain of the outermost scope ends run in it |
| Language engine, EASTL, build, tests | `quickjs/`, `EASTL/`, `test/` | | | | not ours |

How they interact. The interface (`PapiQuickjsImpl.cpp`) finds the mapper through
the runtime's opaque pointer and the current scope through the context's. A
wrapper is a JS object of class `__papi_obj` whose opaque pointer is an
`ObjectUserData`; the mapper's cache points back at the wrapper without counting
a reference, and only the wrapper's finalizer removes that pointer. Whether the
pointer is good therefore depends on the engine calling the finalizer before it
reuses the object, and on the client not adding a second binding behind the
cache's back.

`PROJECT.json` lists under `hazards` what can go wrong here, at the line where it
bites, with the properties that cover it.

## 2. What is modelled

### NodeLists, CacheChain: a sequence of bindings

`NodeLists` has the operators both levels share: `AddNode` puts a node right
behind the first, `RemoveFirst` drops the first node of a class. `CacheChain` is
the abstract specification: a function from addresses to sequences of bindings,
changed by binding, unbinding and clearing (`Inserted`, `Removed`, `Cleared`). It
is where two modules meet: `ObjectCacheNode` implements it, and `ObjectMapper`
changes its cache in no other way (`CacheUsedAsChain`).

### ObjectCacheNode: the list in memory

One action per memory step of `ObjectCacheNodeQuickjs.h`, with the cell in the
map entry and the heap cells kept apart: `BindFirst` and `BindMore` are
`BindAndAddToCache` with and without an entry, `StartWalk`, `Descend`,
`FindHit` and `WalkOff` are the recursions of `Find` and `Remove`,
`RemoveHeadMove` is the move of the second node into the entry,
`RemoveHeadLast` the erase of the entry, `RemoveInner` the unlinking by the
predecessor, and `Clear` is `CDataCache.clear()`. The destructor frees the rest of
a list; `ChainOf` says which cells those are. A wrapper may be in several nodes:
the memory of a wrapper that died can be used for a new one while a node of the class
of unregistered types still names it. It implements `CacheChain`
(`ImplementsChain`), which is why `ObjectMapper` can use sequences.

### ObjectMapper: wrappers, their cache and their callbacks

The state is `CDataCache` (`cache`), what the engine knows of each wrapper
(`status`, `udata`, the counted references of the client `native`, whether script
reaches it `script`), the engine's two work lists and its phase (`zeroRefs`,
`garbage`, `phase`), the C++ activations in progress (`stack`) and the
environment (`env`). `calls` is a history of the callbacks made.

A handler that calls out is split where it calls:

| Activation | Between | Code |
|---|---|---|
| `create` | the lookup that missed and the binding | `PushNativeObject` 146-156, where creating class and object may collect |
| `init` | creating `this` and `Initialize` returning | the constructor trampoline 241-246 |
| `enter`, `added` | storing the node and returning from `BindAndAddToCache`; `enter` while `OnEnter` runs | 98-109 |
| `free`, `gc` | iterations of the loops | `free_zero_refcount`, `gc_free_cycles` |
| `finalize`, `remove`, `exit` | `Finalize`, its return, `OnExit` | `PApiObjectFinalizer` 69-80, `RemoveFromCache` 111-126 |

While an activation of client code is innermost, every action of the client is
possible; so a behaviour of the model is any nesting of calls and callbacks up to
`MaxDepth`. `LastRefGone` is `js_free_value_rt` in its three phases, the nested
one included: in a freeing loop an object is only queued, during the removal of
cycles it is not even that. `RunGC` takes any set of unreachable wrappers that
contains those nothing refers to at all; that the collector finds such a set, all
the unreachable and nothing else, is what `CycleCollector` shows.

A wrapper's pointer in the node that `OnEnter`'s result is written to
(`CacheNodePtr`) is kept as what it is, an address: `cell` tells whether it
points at the map entry or at a heap node, and `StoreUserData` writes to whatever
is there by then.

**The client's contract.** Nothing in the code enforces any of the following, and
some properties need them. `Contract` is a constant, the set of clauses the client
keeps:

- `fresh`: an object handed over with `call_finalize`, or returned by
  `Initialize`, is not wrapped under that class already;
- `single`: an address is wrapped under one class at a time;
- `quiet`: callbacks that run while the engine frees objects release references
  and call nothing else;
- `released`: every reference is released before `destroy_qjs_env`;
- `linked`: script that stores a wrapper in the constructor of a class leaves the
  link from the class's prototype back to the constructor in place. By that link
  (`JS_SetConstructor`) the constructor is counted once more, so that Cleanup does not
  free it by releasing the reference in `TypeIdToFunctionMap`.

Each run names the clauses it assumes, and two runs show what happens without
one. Two more were tried. Without `released`, a value ref that is still out when the
environment is destroyed holds the context, `JS_FreeContext` frees nothing, and
rooted wrappers are never finalized. Without `linked`, TLC finds `HooksPaired`
violated in 11 states: Cleanup calls `OnExit` for a wrapper, then releases the
constructor that holds it, and the finalizer, which still finds the node, calls
`OnExit` again.

**The end of the environment** is three steps, as Cleanup is. `Cleanup` calls `OnExit`
for every node; in `env` `cleaning` the constructors are released, each of which may
let go of wrappers and run their finalizers while the cache is still full
(`ReleaseConstructor`); `Destroy` clears the cache and goes on to the last collection.

**Simplifications.** Definitions and constructors are there from the start and
stay: `ClassRegister` is about those. A scope slot and a value ref are both one counted
reference; that the latter also holds the context shows only in `Destroy`.
Callbacks of the freeing loops do not start a collection (the code allows it if
they allocate), and `OnExit` called by `Cleanup` releases nothing: the calls are one
step, and what an `OnExit` that releases a wrapper does to the iteration over
`CDataCache` is not covered. Several environments are not modelled, nor is memory
running out.

### Scopes, ScopeStack: handle scopes, slots, the caught exception, pending jobs

`Scopes` has the context's opaque pointer (`current`), the scopes in memory
(`open`), their links (`prev`), their slots (`values` for the array, `dynamic`
for those allocated one by one), `caught`, the references the bridge owns to
objects (`count`), the list of dead objects and the list of jobs. `stack` holds
what runs above the main program:

| Activation | What is in progress | Code |
|---|---|---|
| `call`, `get` | script started by `pesapi_call_function` / `pesapi_eval`, a getter started by `pesapi_get_property` | `PapiQuickjsImpl.cpp` 742-842 |
| `job` | a pending job | `quickjs.c` 1978-2005 |
| `callback`, `finalizer` | client functions called by script, and by the engine as it frees | |
| `drain` | the loop over the pending jobs | `PapiQuickjsImpl.cpp` 632-645 |
| `caught`, `release`, `destroy` | `~pesapi_scope__` before, during and after the release of the exception, then at slot `slot` | `PapiData.h` 140-160 |
| `free` | `free_zero_refcount` | `quickjs.c` 5593-5608 |

Objects die with a slot of a closing scope or its exception (`FreeValue`), and in every
other way while script or the client runs (`Collect`): script drops them, the client
releases a value reference, an allocation collects cycles, the environment is destroyed.
The last three happen with no scope open, too, so finalizers may find `current` to be
`NULL`; one that allocates opens a scope of its own, which is then the outermost and
drains the jobs inside the freeing loop. A dying object that a FinalizationRegistry
watches makes the engine enqueue a job before its finalizer runs (`Enqueues`, from
`reset_weak_ref`), wherever that is.

Two details decide most of what can go wrong and are kept: `pesapi_call_function`
takes its slot after script has run and `pesapi_get_property` before, writing
through the pointer afterwards (`Store`); and the destructor works on a scope that
is still current, whose slots finalizers may add to (`DestroySlot` looks at the
length anew each time).

`ScopeStack` is the abstract specification: scopes form a stack, references are
handed to and dropped by the innermost only, and one goes when it holds none.
`StackSpec` maps the linked list to that stack and each scope's slots to a count
per object.

What the client is taken to do: it closes scopes innermost first, each in the
activation that opened it; finalizers call script only if `ScriptInFinalizers`, which
`scopes` allows and the other two runs do not (the jobs that the close of a finalizer's
own outermost scope drains run in any case). The history `loud` remembers whether one did: from
then on `CaughtAlive` no longer promises that `caught` is alive. The history `due` is
the last job that was enqueued while the drain of the outermost scope was still to
come (`DrainPending`). Those have all run when no scope is open, which is what
`JobsInOrder` says next to their order; jobs enqueued by the deaths that the destructor
causes after the drain, or by deaths with no scope open, wait for the next outermost
close, as they do in the code.
Simplifications: objects that are thrown (`Errors`) are kept apart from those that
are returned, so that `Accounted` can be exact for the latter; when several
objects die in one call they join the list in any order, one by one, and objects a
job's arguments kept alive die while the job is still on the stack; a scope
opened under an expired tracker, which the code answers with `nullptr`, is left out.

### References: handles that outlive the environment

`allocated`, `ref_count` and `value` are the references in memory, `ctxCount` the
references to the `JSContext`, `held` those to values, `phase` how far
`destroy_qjs_env` has come, `stack` the destructors of value references in
`JS_FreeValue`, where finalizers release further references. `Release` is both
release functions: `DropEnvRef` runs `~pesapi_env_ref__`, which calls no client
code while somebody else holds the context; `DropValueRef` starts
`~pesapi_value_ref__` and `DestructorEnds` is its base class's destructor and the
`free`. `Expired` is the tracker, which lives as long as the mapper: between the
release of the last env reference at the start of `destroy_qjs_env` and the
mapper's destructor at its end, `Cleanup` and the freeing of context and runtime
run finalizers for which the environment still counts as alive (`phase`
`cleanup`, `freeing`).

The client releases a handle as often as it got it, and only duplicates and
releases once the environment is being destroyed. Two of its uses upset the counts
of values and are remembered in the history `misused`: `pesapi_set_ref_weak`, and
releasing as an environment the handle `pesapi_get_ref_associated_env` makes of a
value reference.

### ClassRegister: definitions of classes and their constructors

The registry is global, an environment makes constructors from it. `def` is what a
definition contains and `freed` which ones `RegisterClass` has deleted; `byId` and
`byName` are its two maps, `classes` is `TypeIdToFunctionMap`, `ctor` what a
constructor keeps (its definition and, through its prototype, the class of the super
type), `objs` what a wrapper keeps. `stack` holds the calls in progress: `Call`
enters `pesapi_get_class_data`, `pesapi_create_class` or
`pesapi_native_object_to_value`; `Load` is `LoadClassByID` up to the not-found
callback, in which the client may do anything (`pc` `asking`), `CallbackReturns`
the second look; `CreateClass` makes the constructor and, if there is a super type,
recurses (`op` `build`) before `CompleteClass` enters it in the map. So between the
two the constructor exists, its definition is in use, and client code runs.

Each property needs something of the client that the code does not check
(`Contract`):

| Clause | What the client keeps | Needed for | Without it |
|---|---|---|---|
| `idle` | a type id is registered again only while nothing uses its definition | `DefinitionsAlive`, `OneConstructor`, `SuperLinked`, `ExitMatchesEnter`, `CreationReturns` | opaque data and constructors point to the freed definition; Cleanup asks the new definition whether to call `OnExit` |
| `named` | and only under the name it had | `NamesAlive` | the old name still leads to the freed definition |
| `acyclic` | no type is its own super type | `CreationReturns`, `OneConstructor` | `FindOrCreateClass` recurses for ever |
| `shy` | the not-found callback makes no class and no object | `OneConstructor`, `SuperLinked` | the class being made is made a second time, one constructor is never released |
| `honest` | and answers true if it registered the type | `SuperLinked` | the class is entered without its super class for good |
| `early` | a class is traced before it has objects | `ExitMatchesEnter` | `OnExit` is called for objects `OnEnter` never saw |

The finalizer of an object uses the definition the object was made with, Cleanup looks
the one of its type id up again (`Registered`); `exited` records whether `OnExit`
was called, and `ExitMatchesEnter` compares that with `OnEnter`.

Left out: `SetClassTypeInfo`, which copies data nothing here reads, and the
installation of methods and properties on a new prototype, which keeps no state of
the library's own. Memory of a definition is never used again, so that a pointer to
a freed one can be told.

### CycleCollector: reference counts, dead objects, trial deletion

The object graph is explicit (`edges`), next to the references from outside
(`held`), so that what the engine frees can be compared with what is unreachable.
`ref_count`, `mark` and `list` are the header's fields and the list it is linked
in; `phase` is where the engine is, `todo` what the pass in progress has yet to
visit. One action per visit: `Decref` is `gc_decref` with `gc_decref_child` for
every child, `Scan` the first loop of `gc_scan` with `gc_scan_incref_child`
(`back` are those put at the end of the list being walked), `Restore` the second,
`FreeGarbage`, `PutAside` and `FreeShells` are `gc_free_cycles`, `FreeDead` an
iteration of `free_zero_refcount`. `Values` are what a JS value can refer to;
`Parts` are shapes, closure variables and async states, which have no entry on the
list of dead objects but go with the last object that refers to them (`PartsOf`).
Between any two visits of the freeing loops a finalizer's callback may `Release`.

Left out are weak references and `FinalizationRegistry`. `reset_weak_ref`
(`quickjs.c` 5557-5559, 55434-55446) enqueues a job as a watched object is freed, which
takes a reference to the registry's callback; if callback and object are garbage of the
same collection, that is a reference gained while cycles are removed. Everything said
here of object graphs, in the run and in the proofs, is about graphs without these.

Simplifications: two references from one object to another count once; lists are
sets, walked in any order; callbacks of finalizers do not allocate. If one did, it
could start a collection inside the removal of cycles, which resets
`tmp_obj_list` under the loop that empties it: the mutant of `NoDanglingEdge`
(`RunGCNested`) is that behaviour, and it does dangle.

## 3. Runs

| Run | Checks | Instance | Shows |
|---|---|---|---|
| `cache_node` | `TypeOK`, `MemorySound`, `ImplementsChain`, `WalkEnds` | 2 addresses, 2 classes, 2 wrappers, each in any number of nodes, 2 heap cells | the list in memory is sound and behaves as a sequence; its recursions end |
| `mapper_contract` | `TypeOK`, `NoDanglingRef`, `UserDataKept`, `DestroyReleasesAll`, `HooksPaired` | 2 addresses, 2 classes, 3 wrappers, 2 references, depth 2; all five clauses | what a client that keeps the contract may rely on |
| `mapper_shared` | `CacheSound`, `NodePerWrapper`, `FreeingEnds` | 1 address, a registered and an unregistered class, 3 wrappers, 1 reference, depth 1; `fresh`, `quiet` | lookups stay right when classes share addresses, constructors throw, and Cleanup frees wrappers by releasing constructors; both freeing loops end |
| `mapper_userdata` | `ExitUserData`, violated | without `single` | `OnExit` gets another wrapper's user data |
| `mapper_zeroref` | `ZeroRefAssert`, violated | without `quiet` | a callback finds a wrapper that is about to be freed |
| `scopes` | `TypeOK`, `ScopeList`, `Accounted`, `RunToCompletion`, `JobsInOrder`, `SlotAwaits`, `CaughtAlive`, `StackSpec` | 2 scopes, 1 fixed slot and one more per scope, 1 object, 1 error, 2 jobs, depth 4; finalizers may run script | slots, scopes, jobs and exceptions are accounted for whatever is called back, with or without a scope open |
| `scopes_live` | `CloseReturns` | 2 scopes, 1 slot, 1 object, no error, 1 job, depth 3 | a close, with its drain and its finalizers, returns |
| `scopes_leak` | `AllReleased`, violated | 1 slot | the first of two exceptions of a scope is kept |
| `refs` | `TypeOK`, `ContextCounted`, `ValuesHeld`, `RefsSound`, `TouchesLiving` | 4 references, 2 values, 2 handles each, 2 nested destructors | counts of context, values and handles are right before, during and after `destroy_qjs_env` |
| `refs_weak` | `NotFreedTwice`, violated | 3 references, 1 value | a weak reference gives its value back twice |
| `class_register` | `TypeOK`, `DefinitionsAlive`, `NamesAlive`, `OneConstructor`, `SuperLinked`, `ExitMatchesEnter`, `CreationReturns` | 2 types and `PtrClassDef`, 2 names, 3 definitions, 3 constructors, 1 object, depth 1; all clauses | with that contract, registering classes on demand while others are made is safe and comes to an end |
| `cycle_collector` | `TypeOK`, `ReachableKept`, `CollectsExactlyGarbage`, `Counted`, `AssertionsHold`, `NoDanglingEdge`, `EngineReturns` | 2 values, 2 parts, 1 outside reference each | the collector finds what is unreachable, exactly, gives back every count it took, and ends |

Bounds. Three wrappers are enough for one to be freed while a second is queued and
a third is created; two classes at one address with three nodes exercise the
first, the inner and the last node of a list; two references distinguish dropping
one from dropping the last; depth two nests a construction or a push inside a
callback of another, depth one inside the freeing loops only. The histories count
to two, since once too often is all the properties tell apart. `nullptr`, which
`PushNativeObject` never looks up but a constructor may return, is in no run's `Ptrs`;
the theorems are about any set of addresses with or without it. Wrappers and, where
classes have the same callbacks, addresses are symmetric; runs with liveness use
no symmetry. In `Scopes` one slot stands for the four of the array (`FixedSize`):
what matters is the first slot that does not fit. Two scopes are the outermost,
whose close drains the jobs, and one inside. Two jobs show their order; one that
enqueues another, and one enqueued by a death after the drain, are among their
behaviours. In `scopes_live` `Deepest` bounds the stack: above the client's own
`MaxDepth` there may be a close per scope, a freeing loop and a finalizer. In `References` `MaxHeld` stops new
references to a value that releases as an environment have kept too often; without
those it is as large as the number of references and never reached. In
`ClassRegister` two types make a chain, a registered or missing super type and a
type registered again; three definitions let one be replaced while another is in
use. Depth 1 bounds the client's own calls, not the recursion over super types.
Two values and two parts in `CycleCollector` give cycles through values, through a
part and back, parts shared by two values and garbage that hangs on garbage; the
theorems below are about heaps of any finite size.

Fairness. `FairSpec` assumes weak fairness of `Engine`: the steps of the code
between two calls of the client, and the return of callbacks. On one thread the
code does proceed, and a callback that never returns hangs the host whatever this
library does. Nothing is assumed of the client's own steps.

In `Scopes`, `Engine` is the loops of the library, weakly fair for the same reason.
Script and callbacks do what they like between their start and their end, so that
they end is an assumption of its own: at each depth of the stack, returning, or
closing a scope opened there, is strongly fair, since what runs at that depth is
again and again in a position to do so and a callback that never takes it hangs the
host. `CloseReturns` further assumes `FinalizersStop`: after some time finalizers no
longer cause deaths, or the loop over the dead objects would rightly go on for
ever. Jobs need no such assumption in the run because `MaxJobs` bounds them; a job
that always enqueues another keeps the close from returning, and the code accepts
that.

In `CycleCollector` the steps of the collector and those of the freeing loop are
weakly fair (`Collector`, `Freeing`): between two objects finalizers may release as
long as they hold something, but the loop goes on. In `ClassRegister` the steps of
the code (`Engine`) and the return of the not-found callback (`Answers`) are.

Deadlock is checked in every run but those of `References`, which stops when the
environment and every reference are gone; `ObjectMapper` ends in `Destroyed`, which
stutters.

Findings. The four violated runs are recorded in `PROJECT.json`:

- `RemoveFromCache` passes `Iter->second.UserData`, that of the first node at the
  address, to `OnExit` of whichever class dies, where `pesapi.h` promises the
  return value of `OnEnter` for the object. One address under two traced classes
  suffices.
- A wrapper whose count reached zero stays in the cache until its finalizer. A
  callback of an earlier object in the same loop can look it up;
  `assert(p->ref_count == 0)` in `free_zero_refcount` then fails, and without
  assertions the object is freed under the reference.
- `setCaughtException` overwrites what was caught before in the same scope without
  freeing it: two failing `pesapi_eval` in one scope keep an error object for good.
- `pesapi_set_ref_weak` frees the reference to the value and leaves no mark; the
  reference's release frees it again. An object that something else still holds is
  then freed under it.

Three more things the properties have to except, listed under `hazards` where no
finding is: an exception thrown in script that a finalizer runs while its scope is
being destroyed is stored through the freed `caught`; jobs enqueued after the drain of
the outermost scope, by such script or by the engine for a FinalizationRegistry, wait for
the next outermost scope; and the env handle of a value reference, when it
is the last to be released, keeps the value.

## 4. Proofs

**`ObjectCacheNodeProofs`** proves, for all sets of addresses, classes and cells,
`NodesComplete` (`TypeOK`) and `MemoryStaysSound` (`MemorySound`: no pointer dangles,
no node has two owners, none is lost). Their conjunction is inductive once the walk in progress is related to the list it walks.

`ListImplementsChain` is the refinement `ImplementsChain`: the lists in memory behave
as the sequences of `CacheChain`. `Leads` says that a sequence of cells is the list of
an entry in the order of its links, and `Listed` that every entry has one. From
`OwnedOnce` follows that a cell is in one list, at one place (`Apart`), so a list is no
longer than there are cells (`Bounded`, which is what `FiniteAddrs` is for) and a step
on one list leaves the others as they are (`OneChanges`). The mapped sequence is the
one along the list (`SequenceIs`; its recursive function is unique by a least place
where two would differ). `WalkPlaced` places the recursion: it has passed nodes of other
types only, so the node it stops at is the first of its type in the sequence
(`FirstAlong`). With that each action is a step of `CacheChain` or none: binding puts a
cell behind the head (`MoreBound`), the removals drop the first node of the type from
the head (`HeadMoved`, `HeadErased`) or from the middle (`InnerRemoved`), and the steps
of a recursion under way change nothing (`MapsQuietly`).

`RecursionBounded` is why the recursions end: each step of `Find` or `Remove` returns
or goes one node down (`Depth`), and never further than there are cells.

**`ObjectMapperProofs`** proves three theorems about `Spec`, for every value of the
constants that `MapperAssumption` and `ContractAssumption` allow.

`TypeCorrect`: `Spec => []TypeOK`, for every client. `TypeOK` is not inductive:
that a finalizer reads opaque data which is there needs that its wrapper is dying,
that it is dying only once, and that nothing else frees it meanwhile. `Structure`
adds

- `ConstructionSound`: a wrapper is under construction in at most one activation,
  and its status says so;
- `FinalizationSound`: the finalizer of a wrapper is active at most once;
- `OneLoop`: the engine frees in one loop at a time and `gc_phase` says in which;
- `QueueSound`: an object is on the list of dead objects at most once, and not
  while its finalizer runs;
- `GarbageSound`: what is collected is bound and under nobody's construction, and
  nothing is queued meanwhile;
- `BoundSound`: a wrapper has its opaque data from binding to the end of its
  finalizer.

There is a lemma per action; the generic ones (`CountingKeeps`,
`LastRefGoneKeeps`, `BindKeeps`, `StartFinalizerKeeps`, `ReturnKeeps`) serve
several.

`CacheAlwaysSound`: with `fresh` and `quiet` in the contract,
`Spec => []CacheSound`. The argument: `CreationSound` says that while
`PushNativeObject` is between its lookup and the binding, only freeing runs inside
it, and freeing adds no node, so the lookup's answer is still true when the node
is added; hence a class never gets a second node at an address, hence the first
node of the class that a finalizer removes is its own; hence no node outlives its
wrapper. `FirstOf` is defined by a choice; that there is a first position is
proved from the well-foundedness of the naturals (`Least`, with the other lemmas
about chains in `NodeListsProofs`).

`CacheUsedAsChain`: for every client, each step of the mapper changes what the nodes
hold by an operation of `CacheChain`, when that operation is due, and by nothing else.
A wrapper becomes bound in the step that inserts its node, a node of a wrapper's class
at its address is removed in the step that frees the wrapper, Cleanup clears all at
its end.
Together with `ListImplementsChain` this joins the two modules: what the mapper asks
of its cache is what the list in memory does. Only `UserData`, which the mapper
writes into the first node, is not part of `CacheChain`.

**`ObjectMapperLifeProofs`** proves the rest of the mapper's safety, each property
under the clauses it needs and no others, on top of `Structure`. First come
`Stays` and `Moves`, which say which activations a step ends and starts, with one
lemma per action, so that facts about the stack are carried over by naming kinds of
activation only.

- `NodesBalanced` (`NodePerWrapper`), for every client, until Cleanup clears the
  cache. `Balanced` counts:
  the positions of a class at an address are as many as the wrappers that own that
  class and address (`Owners`). Binding adds one to both (`CountAdded`), a finalizer
  takes one from both (`CountWithout`): that it finds a node to take follows from
  the balance itself.
- `DestroyLeavesNothing` (`DestroyReleasesAll`), with `released`. `Engaged`, which
  holds for every client, says who has a wrapper that is not bound: a queued one is on
  the list, a dying one has a finalizer in progress, and a loop that frees runs below
  both. `Closing` says what is left of the program from Cleanup on: only loops that free and
  finalizers run, none before the last collection if the client keeps `linked`, and
  once the cache is cleared it stays empty. `NothingHeld` says
  that what is still bound then is garbage; so when the last loop is done, nothing is
  bound, queued or dying.
- `RefsNeverDangle` (`NoDanglingRef`), with `fresh` and `quiet`. `Undisturbed`: nothing but
  finalizers runs on top of a freeing loop, so where the client may take references
  nothing is queued or dying (`CalmAtClient`), and `Unheld`: what is being freed or
  collected is not held. Taking a reference goes through the cache in
  `PushNativeObject`, which is why `CacheSound` (hence `fresh`) is part of the
  invariant: a hit names a wrapper that is alive.
- `HooksAlwaysPaired` (`HooksPaired`), with `fresh`, `quiet` and `linked`. `HooksSound` says
  what the history of a wrapper is in each stage of its life. The step that matters
  is Cleanup: it calls OnExit for the nodes it finds, and it must find one for each
  wrapper that was entered and no other. `OwnNode` derives that from `Balanced` and
  `CacheSound`: a class has one node at an address, so one wrapper, so they belong
  together. By `Closing` no finalizer runs until the cache is cleared, so none finds a
  node whose `OnExit` was called already; that is what `linked` is for.
- `UserDataStays` (`UserDataKept`), with `fresh`, `quiet` and `single`. `OneClass`:
  the nodes of an address are of one class, also of the class about to be bound
  there. With `CacheSound` a node of a registered class is then alone (`Alone`), so
  `CacheNodePtr` always points into the map entry, and `OwnNode` says that the node
  there belongs to the wrapper OnEnter was called for. The run `mapper_userdata`
  shows what happens without `single`.
- `FreeingHasBound`, with `quiet`. While a loop frees, it and finalizers are all that
  is on top (`Undisturbed`), and each step starts the finalizer of a wrapper that had
  none, frees a wrapper, takes a finalizer one stage further, or is the client's
  release of one of the references left; read in this order the four can only shrink.

**`ReferencesProofs`** proves, for any references, values, handles and nesting,
`TypeCorrect`, `ReferencesLive` (`RefsSound`), `ContextAlwaysCounted`
(`ContextCounted`), `NothingTouchedLate` (`TouchesLiving`) and `ValuesAlwaysHeld`
(`ValuesHeld`). The invariant is the conjunction of the first three with `StackLive`: a destructor is in progress
only while the runtime exists. The counts are inductive because a reference whose
destructor runs is still allocated, has no handle left and is on the stack once, so
that finalizers can neither release it again nor count it out twice.
`ReleaseCases` reduces the release functions to the four things they can come to.

**`ClassRegisterProofs`** proves, for any types, names, definitions, objects and
depth, each property under the clauses it needs and no others: `TypeCorrect`
(none), `NamesStayAlive` (`named`), `HooksMatch` (`early` and `idle`),
`DefinitionsStayAlive` (`idle`), `OneConstructorPerType` (`idle`, `acyclic`, `shy`) and
`SuperClassesLinked` (those three and `honest`). The layers are

- `Structure`: types; a definition is in the registry under its own type id
  (`RegistrySound`); what objects, constructors and calls use exists (`UsersSound`);
  each frame that builds a class waits on the one above it (`StackSound`);
- `Current`, with `idle`: a definition in use is the one its type id is registered
  under. A registration frees only the one it replaces, which nothing uses, so
  nothing used is ever freed; and the definition Cleanup looks up for an object is the
  one it was made with (`RegisteredIsMadeWith`), hence `HooksMatch`;
- `Unique`, with `acyclic` and `shy`: super types have ranks that rise (`Acyclic`),
  hence the types the recursion is at work on differ (`TypesDiffer`, by a least
  rank), hence the class that `CompleteClass` enters is not in the map yet;
- `Answered`: what a call has found for its super type is still what the registry
  says when the class is complete.

`CreationHasBound`, for finitely many types, with `idle`, `acyclic` and `shy`: a call
only goes forward, builds its super class at most once, and since the types at work
differ (`TypesDiffer`) the recursion is no deeper than there are types
(`DepthBound`). Whatever the client registers in the callback, it does not change the
calls in progress.

**`ScopesProofs`** proves every safety property of the run `scopes` and its
refinement, for any scopes, slots, objects, jobs and depth of the stack:
`TypesHold` (`TypeOK`), `ReferencesAccounted` (`Accounted`), `ScopesListed`
(`ScopeList`), `SlotsAwait`, `JobsRunToCompletion`, `JobsRunInOrder`,
`CaughtStaysAlive`, and `StackImplemented` (`StackSpec`). The layers are

- `Structure`: open scopes have levels that rise along `prev` (`Ranked`); each
  activation is of a kind the one below can start (`Nested`), in a scope no lower,
  and one that closes a scope is the first in it; what runs is in the current scope
  (`InScope`). So a scope is closed by one destructor, on top of nothing that uses
  it, and no job starts above script. The outermost scope is opened by the main program
  or by a finalizer of an object that died while no scope was open, never by what
  script calls;
- `Slotted`: a getter's slot is its own, still empty, and not passed by a destructor
  below it; with `Structure` this is `Framed`, which gives `SlotsAwait`;
- `Calm`: with no script in finalizers there is none above a finalizer that found a
  scope, so nothing is caught in a scope whose destructor has let go of `caught`;
- `Orderly`: the list of jobs is an interval of numbers, and once the drain of the
  outermost scope is over (`~DrainPending`) it has passed `due`. That the drain leaves
  none behind is the step in which `Drain` finds the list empty; that later ones do not
  count is `Waits`, which says that no destructor in progress is that of an outermost
  scope;
- `Owed` and `Blamed`: a count is the number of slots not passed yet that hold the
  object, at least the number of scopes that caught the error. A slot gained or
  passed changes that set by one element (`HeldGets`, `HeldPassed`), any other step
  leaves it (`HeldAlike`, `HeldSpare`).

That the list along `prev_scope` ends follows from the levels and from there being
finitely many scopes.

The refinement rests on `Framed` and `Vacant` (a closed scope has no slots). The
mapped stack `Opened` is the only sequence of open scopes in which a scope's place is
its level (`OpenedHolds`), so opening a scope appends to it and the destructor of
the innermost one takes the last away; a reference in a slot is one more or one less
in the mapped `Holds` of that scope alone (`HoldsGains`, `HoldsLoses`). `MapsStep`
takes the actions one by one: each is a step of `ScopeStack` or leaves its variables
alone.

**`CycleCollectorProofs`** proves, for every finite heap without weak references,
`TypeCorrect`,
`EdgesSound` (`NoDanglingEdge`), `CountsRight` (`Counted`), `GarbageExact`
(`CollectsExactlyGarbage`), `ReachableSafe` (`ReachableKept`) and `AssertionsSound`
(`AssertionsHold`). The invariant says, for each pass, what a count is at that
moment: in `decref` the references from outside and from objects not yet visited,
in `scan` those from outside and from objects already scanned, in `restore` and
after all of them but from garbage still to visit. What was scanned and kept is
closed under references when `scan` ends, so it contains what is reachable; and
everything kept has been found through a chain from a held object, so it is
contained in it. Cardinalities are handled by a few lemmas on `Count` (adding one
object, removing a set), whose induction is the library's.

`LoopsHaveBounds` names what each loop works off and proves that it shrinks: objects
for the loop over dead ones, which finalizers may lengthen; for `scan` the temporary
list, although what leaves it joins the list being walked. What finalizers release
in between is limited by what is held.

Assumptions: those named `...Assumption` in each module, and `FiniteRefs`,
`FiniteScopes` and `FiniteAddrs` (memory is finite); TLC evaluates them in every run.

Only model-checked: the liveness properties `FreeingEnds`, `WalkEnds`,
`CloseReturns`, `EngineReturns` and `CreationReturns`, since the prover does not
handle liveness under fairness. For all but `CloseReturns` what makes the loop end is
proved (`FreeingHasBound`, `RecursionBounded`, `LoopsHaveBounds`, `CreationHasBound`):
every step under way is a step towards the end. That a step is enabled until the end
is reached, and the induction from steps to `~>`, are TLC's. Closing a scope has no
such bound but `MaxSlots` and `MaxJobs`: a finalizer called by the destructor may put
values into the very scope being destroyed, and a job may enqueue another.

## 5. Not modelled

What the modules cover is the lifetime logic of the bridge (`source/`, `include/`,
`papi-register/`) and of the parts of QuickJS it leans on. By lines that is a small
part of the repository: nearly all of it is the vendored engine (parser, bytecode
compiler and interpreter, regular expressions, big numbers, Unicode tables, the
standard library) and the vendored containers of EASTL, whose behaviour this
project takes for granted and whose state no property here is about. What is left
of the repository's own code:

- Trampolines (`CreateFunction`, `MakeMethod`, `InitProperty`, `pesapi_add_return`,
  `pesapi_throw_by_string`): a few engine calls in a row. The client code they call
  is the callbacks of `ObjectMapper` and `Scopes`. Not covered is
  `pesapi_add_return` called twice in one callback, which keeps the first value's
  reference.
- Value conversion, properties, boxing, private data: one engine call each; what
  they do to references is what `Create` and `GetProperty` of `Scopes` do. Private
  data is read through the prototype chain and written to the object itself; no
  property is about that asymmetry.
- Composition: a scope's slots and value references are, in `ObjectMapper`, merely
  counted references of the client. A module that composes them could derive the
  clause `released` from closed scopes and released references.
- Memory running out, several environments at once, stack overflow.
- The language engine beyond reference counts, jobs and the collector; EASTL; the
  build and the tests.

