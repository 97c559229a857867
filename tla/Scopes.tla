------------------------------- MODULE Scopes -------------------------------
(***************************************************************************)
(* Handle scopes: the list of open scopes of a context, the slots that     *)
(* own the values handed to client code, the caught exception, and the     *)
(* pending jobs that run when the outermost scope closes.                  *)
(*                                                                         *)
(* One thread.  `stack' holds what is in progress above the client's main  *)
(* program, innermost last: script and getters started by the API, client  *)
(* functions called back by script or by the engine as it frees objects,   *)
(* and the loops of pesapi_close_scope, ~pesapi_scope__ and                *)
(* free_zero_refcount_objects.  What a handler does after such a call it   *)
(* does in a step of its own, on the state it then finds.                  *)
(*                                                                         *)
(* The client closes scopes innermost first, each in the activation that   *)
(* opened it; the code does not check this.                                *)
(***************************************************************************)
EXTENDS Integers, Sequences, FiniteSets

CONSTANTS
  Scopes,     \* memory for scopes
  NULL,
  Objects,    \* objects script creates or returns
  Errors,     \* objects script throws
  Immediate,  \* any value without a reference count: undefined, a number...
  FixedSize,  \* SCOPE_FIX_SIZE_VALUES_SIZE
  MaxSlots,   \* bound: the API is not asked for another slot beyond this
  MaxRefs,    \* bound: counted references to one object
  MaxDepth,   \* bound: activations under which more script or callbacks start
  MaxJobs,    \* bound: jobs enqueued in all
  ScriptInFinalizers  \* whether finalizers of the client call script

ASSUME ScopesAssumption ==
  /\ NULL \notin Scopes \cup Errors \cup {"freed"} /\ "freed" \notin Errors
  /\ Objects \cap Errors = {} /\ Immediate \notin Objects \cup Errors
  /\ FixedSize \in Nat /\ MaxSlots \in Nat /\ MaxDepth \in Nat /\ MaxJobs \in Nat
  /\ MaxRefs \in Nat \ {0}
  /\ ScriptInFinalizers \in BOOLEAN
ASSUME FiniteScopes == IsFiniteSet(Scopes)

VARIABLES
  current,  \* the context's opaque pointer: the current scope
  open,     \* scopes constructed and not yet destroyed
  prev,     \* prev_scope
  values,   \* values, up to values_used
  dynamic,  \* dynamic_alloc_values, each a slot of its own
  caught,   \* caught->exception; "freed" while `caught' dangles
  count,    \* counted references the bridge owns to each object
  dying,    \* gc_zero_ref_count_list
  jobs,     \* job_list; a job is its place in the order of enqueuing
  queued,   \* history: jobs enqueued so far
  ran,      \* history: the job executed last
  due,      \* history: the last job enqueued while a drain was still to come
  loud,     \* history: whether a finalizer ever called script
  stack     \* activations in progress

slots == <<values, dynamic>>
vars == <<current, open, prev, values, dynamic, caught, count, dying, jobs, queued, ran, due, loud, stack>>

Counted == Objects \cup Errors
Value == Objects \cup {Immediate}

Script == {"call", "get", "job"}
Client == {"callback", "finalizer"}
Closing == {"drain", "caught", "release", "destroy"}

\* scope: the current scope when the activation began, or the scope it closes: NULL
\* for the loop and the finalizers of objects that die while no scope is open;
\* slot: where a getter's result goes, or the next slot ~pesapi_scope__ frees.
Frame == [pc : Script \cup Client \cup Closing \cup {"free"},
          scope : Scopes \cup {NULL}, slot : Nat]
Activation(pc, s, k) == [pc |-> pc, scope |-> s, slot |-> k]

TypeOK ==
  /\ current \in Scopes \cup {NULL}
  /\ open \in SUBSET Scopes
  /\ prev \in [Scopes -> Scopes \cup {NULL}]
  /\ values \in [Scopes -> Seq(Value)] /\ \A s \in Scopes : Len(values[s]) <= FixedSize
  /\ dynamic \in [Scopes -> Seq(Value)]
  /\ caught \in [Scopes -> Errors \cup {NULL, "freed"}]
  /\ count \in [Counted -> 0..MaxRefs]
  /\ dying \in Seq(Counted)
  /\ jobs \in Seq(1..MaxJobs) /\ queued \in 0..MaxJobs /\ ran \in 0..MaxJobs
  /\ due \in 0..MaxJobs /\ loud \in BOOLEAN
  /\ stack \in Seq(Frame)

Init ==
  /\ current = NULL /\ open = {}
  /\ prev = [s \in Scopes |-> NULL]
  /\ values = [s \in Scopes |-> << >>] /\ dynamic = [s \in Scopes |-> << >>]
  /\ caught = [s \in Scopes |-> NULL]
  /\ count = [v \in Counted |-> 0]
  /\ dying = << >>
  /\ jobs = << >> /\ queued = 0 /\ ran = 0 /\ due = 0 /\ loud = FALSE
  /\ stack = << >>

-----------------------------------------------------------------------------
(* The stack and who runs. *)

Top == stack[Len(stack)]
Caller == SubSeq(stack, 1, Len(stack) - 1)
Push(f) == Append(stack, f)
Becomes(f) == [stack EXCEPT ![Len(stack)] = f]
At(pcs) == stack # << >> /\ Top.pc \in pcs

ClientRuns == stack = << >> \/ At(Client)
ClientRunsScript ==
  /\ ClientRuns
  /\ At({"finalizer"}) => ScriptInFinalizers
  /\ Len(stack) < MaxDepth

\* The scope current when the running client function was entered.
EntryScope == IF stack = << >> THEN NULL ELSE Top.scope

-----------------------------------------------------------------------------
(* Reference counts: a value is owned by whoever it is handed to. *)

Owned(v) == [count EXCEPT ![v] = @ + 1]
\* The engine can still hand out v: it is not waiting for its finalizer.
Available(v) == count[v] < MaxRefs /\ \A i \in 1..Len(dying) : dying[i] # v

\* All slots of s; the array is full before the vector is used.
SlotsOf(s) == values[s] \o dynamic[s]

\* Mutants: the bound of the array is one too high; a full array reuses its last slot.
AllocOnePastArray(s, v) ==
  IF Len(values[s]) <= FixedSize
  THEN values' = [values EXCEPT ![s] = Append(@, v)] /\ UNCHANGED dynamic
  ELSE dynamic' = [dynamic EXCEPT ![s] = Append(@, v)] /\ UNCHANGED values
AllocInLastSlot(s, v) ==
  /\ values' = [values EXCEPT ![s] = IF Len(@) < FixedSize THEN Append(@, v)
                                     ELSE [@ EXCEPT ![FixedSize] = v]]
  /\ UNCHANGED dynamic

\* allocValue, and the value stored there.
AllocValue(s, v) ==
  IF Len(values[s]) < FixedSize
  THEN values' = [values EXCEPT ![s] = Append(@, v)] /\ UNCHANGED dynamic
  ELSE dynamic' = [dynamic EXCEPT ![s] = Append(@, v)] /\ UNCHANGED values

\* A slot pointer: a place in the array, or a slot of its own.
Store(s, k, v) ==
  IF k <= FixedSize
  THEN values' = [values EXCEPT ![s][k] = v] /\ UNCHANGED dynamic
  ELSE dynamic' = [dynamic EXCEPT ![s][k - FixedSize] = v] /\ UNCHANGED values

\* Mutant: the slot gets the value and no reference.
GiveBorrowed(v) == v \in Value /\ (v = Immediate \/ Available(v)) /\ UNCHANGED count

\* The engine hands over v with a reference.
Give(v) ==
  \/ v = Immediate /\ UNCHANGED count
  \/ v \in Objects /\ Available(v) /\ count' = Owned(v)

\* v goes on the list of the dead; the outermost such event starts the loop
\* that finalizes them.  stk is the stack of the one who lets go of v.
Dies(v, stk) ==
  /\ dying' = <<v>> \o dying
  /\ stack' = IF \E i \in 1..Len(stk) : stk[i].pc = "free" THEN stk
              ELSE Append(stk, Activation("free", current, 0))

\* JS_FreeValue; script may hold further references to v.
FreeValue(v, stk) ==
  \/ v = Immediate /\ stack' = stk /\ UNCHANGED <<count, dying>>
  \/ /\ v \in Counted
     /\ count' = [count EXCEPT ![v] = @ - 1]
     /\ \/ stack' = stk /\ UNCHANGED dying
        \/ count[v] = 1 /\ Dies(v, stk)

\* The last reference to an object goes, and it was not one of a slot: script drops
\* it, or a job with its arguments as it ends; the client releases a reference it
\* held, or a call of the API allocates and collects cycles; the environment is
\* destroyed.  A client that has no scope open can do this too.
Collect(v) ==
  /\ stack = << >> \/ At(Script \cup Client)
  /\ Len(stack) < MaxDepth
  /\ count[v] = 0 /\ Available(v)
  /\ Dies(v, stack)
  /\ UNCHANGED <<current, open, prev, slots, caught, count, jobs, queued, ran, due, loud>>

Finalize ==
  /\ At({"free"})
  /\ IF dying = << >> THEN stack' = Caller /\ UNCHANGED dying
     ELSE /\ dying' = Tail(dying)
          /\ stack' = Push(Activation("finalizer", current, 0))
  /\ UNCHANGED <<current, open, prev, slots, caught, count, jobs, queued, ran, due, loud>>

-----------------------------------------------------------------------------
(* Client code: the main program, functions called by script, finalizers. *)

\* pesapi_open_scope, pesapi_open_scope_placement, the constructor of the scope.
OpenScope(s) ==
  /\ ClientRuns /\ s \notin open
  /\ open' = open \cup {s}
  /\ prev' = [prev EXCEPT ![s] = current]
  /\ current' = s
  /\ values' = [values EXCEPT ![s] = << >>] /\ dynamic' = [dynamic EXCEPT ![s] = << >>]
  /\ caught' = [caught EXCEPT ![s] = NULL]
  /\ UNCHANGED <<count, dying, jobs, queued, ran, due, stack, loud>>

\* A function that fills a slot without running script.
Create(v) ==
  /\ ClientRuns /\ current # NULL /\ Len(SlotsOf(current)) < MaxSlots
  /\ AllocValue(current, v) /\ Give(v)
  /\ UNCHANGED <<current, open, prev, caught, dying, jobs, queued, ran, due, stack, loud>>

\* pesapi_call_function, pesapi_eval: the slot is taken when script is done.
CallFunction ==
  /\ ClientRunsScript /\ current # NULL /\ Len(SlotsOf(current)) < MaxSlots
  /\ stack' = Push(Activation("call", current, 0))
  /\ loud' = (loud \/ At({"finalizer"}))
  /\ UNCHANGED <<current, open, prev, slots, caught, count, dying, jobs, queued, ran, due>>

\* pesapi_get_property: the slot is taken first, and filled when a getter is done.
GetProperty ==
  /\ ClientRunsScript /\ current # NULL /\ Len(SlotsOf(current)) < MaxSlots
  /\ AllocValue(current, Immediate)
  /\ stack' = Push(Activation("get", current, Len(SlotsOf(current)) + 1))
  /\ loud' = (loud \/ At({"finalizer"}))
  /\ UNCHANGED <<current, open, prev, caught, count, dying, jobs, queued, ran, due>>

\* Mutants: every scope drains the jobs; the exception goes before they run.
CloseDrainsAlways(s) ==
  /\ ClientRuns /\ s = current /\ s # EntryScope
  /\ stack' = Push(Activation("drain", s, 0))
  /\ UNCHANGED <<current, open, prev, slots, caught, count, dying, jobs, queued, ran, due, loud>>
CloseFreesCaughtFirst(s) ==
  /\ ClientRuns /\ s = current /\ s # EntryScope
  /\ stack' = Push(Activation(IF prev[s] = NULL THEN "drain" ELSE "caught", s, 0))
  /\ caught' = [caught EXCEPT ![s] = IF @ = NULL THEN NULL ELSE "freed"]
  /\ UNCHANGED <<current, open, prev, slots, count, dying, jobs, queued, ran, due, loud>>

\* pesapi_close_scope, pesapi_close_scope_placement up to its first callback.
CloseScope(s) ==
  /\ ClientRuns /\ s = current /\ s # EntryScope
  /\ stack' = Push(Activation(IF prev[s] = NULL THEN "drain" ELSE "caught", s, 0))
  /\ UNCHANGED <<current, open, prev, slots, caught, count, dying, jobs, queued, ran, due, loud>>

\* A function called by script or by the engine is done, its scopes closed.
ClientReturns ==
  /\ At(Client) /\ current = EntryScope
  /\ stack' = Caller
  /\ UNCHANGED <<current, open, prev, slots, caught, count, dying, jobs, queued, ran, due, loud>>

-----------------------------------------------------------------------------
(* Script. *)

Callback ==
  /\ At(Script) /\ Len(stack) < MaxDepth
  /\ stack' = Push(Activation("callback", current, 0))
  /\ UNCHANGED <<current, open, prev, slots, caught, count, dying, jobs, queued, ran, due, loud>>

\* The outermost scope is open, and the loop that runs the jobs as it closes is not
\* over.
DrainPending ==
  /\ current # NULL
  /\ \A i \in 1..Len(stack) :
       stack[i].pc \in {"caught", "release", "destroy"} => prev[stack[i].scope] # NULL

\* Script enqueues a job, or the engine one for each registry that watched the
\* object it frees now, before the object's finalizer.
Enqueues ==
  /\ At(Script) \/ (At({"free"}) /\ dying # << >>)
  /\ queued < MaxJobs
  /\ queued' = queued + 1
  /\ due' = IF DrainPending THEN queued' ELSE due
  /\ UNCHANGED <<current, open, prev, slots, caught, count, dying, ran, stack, loud>>

\* Mutant: the job goes to the front of the list.
EnqueueInFront == Enqueues /\ jobs' = <<queued'>> \o jobs

\* JS_EnqueueJob
EnqueueJob == Enqueues /\ jobs' = Append(jobs, queued')

\* The caller stores the result in a slot; that of a job is dropped.
CallReturns(v) == Top.pc = "call" /\ AllocValue(current, v) /\ Give(v)
GetReturns(v) == Top.pc = "get" /\ Store(Top.scope, Top.slot, v) /\ Give(v)
JobReturns == Top.pc = "job" /\ UNCHANGED <<slots, count>>

ScriptReturns(v) ==
  /\ At(Script)
  /\ \/ CallReturns(v)
     \/ GetReturns(v)
     \/ v = Immediate /\ JobReturns
  /\ stack' = Caller
  /\ UNCHANGED <<current, open, prev, caught, dying, jobs, queued, ran, due, loud>>

\* setCaughtException: what was caught before is overwritten, and not freed.
SetCaughtException(s, e) ==
  /\ Available(e)
  /\ caught' = [caught EXCEPT ![s] = e]
  /\ count' = Owned(e)

\* Only pesapi_call_function and pesapi_eval look for an exception.
ScriptThrows(e) ==
  /\ At(Script)
  /\ IF Top.pc = "call" THEN SetCaughtException(current, e)
     ELSE UNCHANGED <<caught, count>>
  /\ stack' = Caller
  /\ UNCHANGED <<current, open, prev, slots, dying, jobs, queued, ran, due, loud>>

-----------------------------------------------------------------------------
(* Closing a scope. *)

\* Mutant: the job is executed and stays on the list.
DrainKeepsJob ==
  /\ At({"drain"})
  /\ IF jobs = << >>
     THEN stack' = Becomes(Activation("caught", Top.scope, 0)) /\ UNCHANGED ran
     ELSE ran' = Head(jobs) /\ stack' = Push(Activation("job", current, 0))
  /\ UNCHANGED <<current, open, prev, slots, caught, count, dying, jobs, queued, due, loud>>

\* The loop over JS_ExecutePendingJob; then the destructor.
Drain ==
  /\ At({"drain"})
  /\ IF jobs = << >>
     THEN /\ stack' = Becomes(Activation("caught", Top.scope, 0))
          /\ UNCHANGED <<jobs, ran>>
     ELSE /\ jobs' = Tail(jobs) /\ ran' = Head(jobs)
          /\ stack' = Push(Activation("job", current, 0))
  /\ UNCHANGED <<current, open, prev, slots, caught, count, dying, queued, due, loud>>

\* ~pesapi_scope__: the exception, ...
DestroyCaught ==
  /\ At({"caught"})
  /\ IF caught[Top.scope] \in Errors
     THEN FreeValue(caught[Top.scope], Becomes(Activation("release", Top.scope, 0)))
     ELSE /\ stack' = Becomes(Activation("destroy", Top.scope, 1))
          /\ UNCHANGED <<count, dying>>
  /\ UNCHANGED <<current, open, prev, slots, caught, jobs, queued, ran, due, loud>>

\* ... the memory around it, without resetting the pointer, ...
ReleaseCaught ==
  /\ At({"release"})
  /\ caught' = [caught EXCEPT ![Top.scope] = "freed"]
  /\ stack' = Becomes(Activation("destroy", Top.scope, 1))
  /\ UNCHANGED <<current, open, prev, slots, count, dying, jobs, queued, ran, due, loud>>

\* ... the slots in order, those added by finalizers on the way included, ...
DestroySlot ==
  /\ At({"destroy"}) /\ Top.slot \in 1..Len(SlotsOf(Top.scope))
  /\ FreeValue(SlotsOf(Top.scope)[Top.slot],
               Becomes(Activation("destroy", Top.scope, Top.slot + 1)))
  /\ UNCHANGED <<current, open, prev, slots, caught, jobs, queued, ran, due, loud>>

\* Mutants: slots outside the array are forgotten; no scope is current afterwards.
ForgetDynamic ==
  /\ At({"destroy"}) /\ Top.slot = Len(values[Top.scope]) + 1
  /\ LET s == Top.scope
     IN /\ current' = prev[s]
        /\ open' = open \ {s}
        /\ prev' = [prev EXCEPT ![s] = NULL]
        /\ values' = [values EXCEPT ![s] = << >>] /\ dynamic' = [dynamic EXCEPT ![s] = << >>]
        /\ caught' = [caught EXCEPT ![s] = NULL]
  /\ stack' = Caller
  /\ UNCHANGED <<count, dying, jobs, queued, ran, due, loud>>
DestroyToNull ==
  /\ At({"destroy"}) /\ Top.slot = Len(SlotsOf(Top.scope)) + 1
  /\ LET s == Top.scope
     IN /\ current' = NULL
        /\ open' = open \ {s}
        /\ prev' = [prev EXCEPT ![s] = NULL]
        /\ values' = [values EXCEPT ![s] = << >>] /\ dynamic' = [dynamic EXCEPT ![s] = << >>]
        /\ caught' = [caught EXCEPT ![s] = NULL]
  /\ stack' = Caller
  /\ UNCHANGED <<count, dying, jobs, queued, ran, due, loud>>

\* ... and the link to the scope below.
DestroyScope ==
  /\ At({"destroy"}) /\ Top.slot = Len(SlotsOf(Top.scope)) + 1
  /\ LET s == Top.scope
     IN /\ current' = prev[s]
        /\ open' = open \ {s}
        /\ prev' = [prev EXCEPT ![s] = NULL]
        /\ values' = [values EXCEPT ![s] = << >>] /\ dynamic' = [dynamic EXCEPT ![s] = << >>]
        /\ caught' = [caught EXCEPT ![s] = NULL]
  /\ stack' = Caller
  /\ UNCHANGED <<count, dying, jobs, queued, ran, due, loud>>

-----------------------------------------------------------------------------
Engine ==
  \/ Finalize \/ Drain
  \/ DestroyCaught \/ ReleaseCaught \/ DestroySlot \/ DestroyScope
Returns ==
  \/ ClientReturns
  \/ \E v \in Value : ScriptReturns(v)
  \/ \E e \in Errors : ScriptThrows(e)

Next ==
  \/ \E s \in Scopes : OpenScope(s) \/ CloseScope(s)
  \/ \E v \in Value : Create(v)
  \/ CallFunction \/ GetProperty
  \/ Callback \/ EnqueueJob
  \/ \E v \in Counted : Collect(v)
  \/ Returns
  \/ Engine

Spec == Init /\ [][Next]_vars

(***************************************************************************)
(* The engine goes on.  A function the client is called back in, and every *)
(* run of script, returns after finitely many calls: at each depth of the  *)
(* stack returning, or closing a scope opened there, is strongly fair.     *)
(* The main program need not do anything.                                  *)
(***************************************************************************)
Deepest == MaxDepth + Cardinality(Scopes) + 1  \* if MaxDepth > 1: closings, a loop, a finalizer
Fairness ==
  /\ WF_vars(Engine)
  /\ \A d \in 1..Deepest :
       /\ SF_vars(Len(stack) = d /\ Returns)
       /\ SF_vars(Len(stack) = d /\ \E s \in Scopes : CloseScope(s))

FairSpec == Spec /\ Fairness

-----------------------------------------------------------------------------
(* Properties *)

\* The nth scope from the current one along prev_scope.
Nth[n \in Nat] == IF n = 0 THEN current
                  ELSE IF Nth[n - 1] = NULL THEN NULL ELSE prev[Nth[n - 1]]

\* The list from the current scope holds every open scope and ends.  Script and the
\* functions it calls find one to allocate in.
ScopeList ==
  /\ {Nth[n] : n \in 0..Cardinality(Scopes)} \ {NULL} = open
  /\ Nth[Cardinality(Scopes)] = NULL
  /\ At(Script \cup {"callback"}) => current # NULL

\* Slots of s that still own a reference: the destructor frees them in order.
Owning(s) ==
  {k \in 1..Len(SlotsOf(s)) :
     \A i \in 1..Len(stack) :
       stack[i].pc = "destroy" /\ stack[i].scope = s => k >= stack[i].slot}

Holding(s, v) == {k \in Owning(s) : SlotsOf(s)[k] = v}

\* The destructor has let go of the exception.
LetGo(s) == \E i \in 1..Len(stack) : stack[i].pc = "release" /\ stack[i].scope = s

\* Every reference the bridge took is in exactly one slot of an open scope, and
\* every such slot still has its reference: nothing is freed twice or early, or
\* kept past its scope.  A caught exception is not freed before its scope.
Accounted ==
  /\ \A v \in Objects :
       count[v] = Cardinality(UNION {{s} \X Holding(s, v) : s \in open})
  /\ \A e \in Errors : count[e] >= Cardinality({s \in open : caught[s] = e /\ ~LetGo(s)})

\* Jobs run to completion: one starts only when no other script is in progress,
\* although the loop that runs them sits in a function script's callbacks call.
RunToCompletion ==
  \A i, j \in 1..Len(stack) :
    ~(stack[i].pc = "job" /\ stack[j].pc \in Script /\ j < i)

\* Jobs run in the order of enqueuing, each once, those of callbacks included.  When
\* no scope is open all that were enqueued before the last drain ended have run; the
\* finalizers that ran after it may have left others.
JobsInOrder ==
  /\ jobs = [i \in 1..(queued - ran) |-> ran + i]
  /\ current = NULL => due <= ran

\* A getter that runs client code finds its slot where it was: in an open scope,
\* not yet freed and not yet filled, however many slots were added meanwhile.
SlotAwaits ==
  \A i \in 1..Len(stack) :
    stack[i].pc = "get" =>
      /\ stack[i].scope \in open
      /\ stack[i].slot \in Owning(stack[i].scope)
      /\ SlotsOf(stack[i].scope)[stack[i].slot] = Immediate

\* No exception is stored through `caught' once the destructor has freed it, as long
\* as finalizers call no script.
CaughtAlive ==
  [][~loud => \A s \in Scopes : caught[s] = "freed" => caught'[s] \in {"freed", NULL}]_vars

\* Finalizers do not cause deaths, of which more finalizers come, without end.
FinalizersStop ==
  <>[][Len(dying') > Len(dying) => \A i \in 1..Len(stack) : stack[i].pc # "free"]_vars

\* A close that has begun returns: whatever client code runs on its way, the jobs,
\* the values and the list of the dead are worked off.
CloseReturns ==
  FinalizersStop =>
    \A s \in Scopes :
      (\E i \in 1..Len(stack) : stack[i].pc \in Closing /\ stack[i].scope = s)
        ~> s \notin open

\* When every scope is closed the bridge owns no reference: JS_FreeRuntime asserts
\* that no object is left.
AllReleased == current = NULL /\ stack = << >> => \A v \in Counted : count[v] = 0

\* The open scopes, outermost first, and the references each owns.
Depth == Cardinality({n \in 0..Cardinality(Scopes) : Nth[n] # NULL})
Opened == [n \in 1..Depth |-> Nth[Depth - n]]
Holds == [s \in Scopes |-> [v \in Objects |-> Cardinality(Holding(s, v))]]

\* The slots and the list of scopes implement a stack of scopes.
Stack == INSTANCE ScopeStack WITH opened <- Opened, holds <- Holds
StackSpec == Stack!StackSpec
=============================================================================
