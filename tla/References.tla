----------------------------- MODULE References -----------------------------
(***************************************************************************)
(* Env and value references: counted handles that outlive scopes and may   *)
(* outlive the environment.  Each holds the JSContext, a value reference a *)
(* JS value too; the life-cycle tracker tells it whether the environment   *)
(* still exists when it is released.                                       *)
(*                                                                         *)
(* One thread.  `stack' holds the value references whose destructor is in  *)
(* JS_FreeValue: finalizers may run there, and release other references.   *)
(* destroy_qjs_env is split where it calls client code.                    *)
(*                                                                         *)
(* The client releases each handle as often as it got it.  Once the        *)
(* environment is being destroyed it only duplicates and releases.         *)
(***************************************************************************)
EXTENDS Integers, Sequences, FiniteSets

CONSTANTS
  Refs,      \* memory for pesapi_env_ref__ and pesapi_value_ref__
  Vals,      \* JS values
  NoVal,     \* the value of an env reference
  MaxCount,  \* bound: handles to one reference
  MaxDepth,  \* bound: destructors in progress
  MaxHeld    \* bound: references to a value that are out

ASSUME ReferencesAssumption ==
  /\ NoVal \notin Vals
  /\ MaxCount \in Nat \ {0} /\ MaxDepth \in Nat /\ MaxHeld \in Nat
ASSUME FiniteRefs == IsFiniteSet(Refs)

VARIABLES
  allocated,  \* the references that exist
  ref_count,  \* ref_count
  value,      \* value_persistent, or NoVal
  ctxCount,   \* references to the JSContext; it is freed at zero
  held,       \* references to a value that value references took
  misused,    \* history: values with a reference made weak or released as an env's
  stack,      \* destructors of value references in JS_FreeValue
  phase       \* the environment: destroy_qjs_env, from call to call

vars == <<allocated, ref_count, value, ctxCount, held, misused, stack, phase>>

\* running: not yet destroyed; cleanup: in Cleanup; freeing: from JS_FreeContext to
\* the end of JS_FreeRuntime; freed: no runtime any more; gone: no mapper either.
Phases == {"running", "cleanup", "freeing", "freed", "gone"}

TypeOK ==
  /\ allocated \in SUBSET Refs
  /\ ref_count \in [Refs -> 0..MaxCount]
  /\ value \in [Refs -> Vals \cup {NoVal}]
  /\ ctxCount \in Int
  /\ held \in [Vals -> Int]
  /\ misused \in SUBSET Vals
  /\ stack \in Seq(Refs)
  /\ phase \in Phases

\* The runtime owns the context; create_qjs_env makes an env reference, handed out.
Init ==
  /\ \E r \in Refs :
       /\ allocated = {r}
       /\ ref_count = [q \in Refs |-> IF q = r THEN 1 ELSE 0]
  /\ value = [r \in Refs |-> NoVal]
  /\ ctxCount = 2
  /\ held = [v \in Vals |-> 0]
  /\ misused = {}
  /\ stack = << >>
  /\ phase = "running"

Expired == phase = "gone"

\* Client code has the thread: on its own, or called back.
MainRuns == stack = << >> /\ phase \in {"running", "gone"}
ClientRuns == MainRuns \/ stack # << >> \/ phase \in {"cleanup", "freeing"}
Handle(r) == r \in allocated /\ ref_count[r] > 0

-----------------------------------------------------------------------------
(* Making and copying references. *)

\* The caller has the value, which is none that was freed too often.
Creatable(r, v) ==
  /\ phase = "running" /\ r \notin allocated
  /\ v # NoVal => held[v] \in 0..(MaxHeld - 1)

\* Mutant: the context is not duplicated.
CreateBorrowsContext(r, v) ==
  /\ Creatable(r, v)
  /\ allocated' = allocated \cup {r}
  /\ ref_count' = [ref_count EXCEPT ![r] = 1]
  /\ value' = [value EXCEPT ![r] = v]
  /\ held' = IF v = NoVal THEN held ELSE [held EXCEPT ![v] = @ + 1]
  /\ UNCHANGED <<ctxCount, misused, stack, phase>>

\* pesapi_create_env_ref, pesapi_create_value_ref: both constructors take the
\* context, the second the value too.
Create(r, v) ==
  /\ Creatable(r, v)
  /\ allocated' = allocated \cup {r}
  /\ ref_count' = [ref_count EXCEPT ![r] = 1]
  /\ value' = [value EXCEPT ![r] = v]
  /\ ctxCount' = ctxCount + 1
  /\ held' = IF v = NoVal THEN held ELSE [held EXCEPT ![v] = @ + 1]
  /\ UNCHANGED <<misused, stack, phase>>

\* pesapi_duplicate_env_ref, pesapi_duplicate_value_ref
Duplicate(r) ==
  /\ ClientRuns /\ Handle(r) /\ ref_count[r] < MaxCount
  /\ ref_count' = [ref_count EXCEPT ![r] = @ + 1]
  /\ UNCHANGED <<allocated, value, ctxCount, held, misused, stack, phase>>

\* pesapi_set_ref_weak: the reference to the value goes; nothing remembers that.
\* (Bound: not when the bridge has none left.)
SetRefWeak(r) ==
  /\ phase = "running" /\ Handle(r)
  /\ value[r] # NoVal /\ held[value[r]] > 0
  /\ held' = [held EXCEPT ![value[r]] = @ - 1]
  /\ misused' = misused \cup {value[r]}
  /\ UNCHANGED <<allocated, ref_count, value, ctxCount, stack, phase>>

-----------------------------------------------------------------------------
(* Releasing them. *)

\* Mutant: the tracker is not asked.
DropEnvRefAlways(r) ==
  /\ allocated' = allocated \ {r}
  /\ ctxCount' = ctxCount - 1
  /\ UNCHANGED <<held, stack>>

\* The last handle to r goes; client code does not run before the end.
DropEnvRef(r) ==
  /\ allocated' = allocated \ {r}
  /\ ctxCount' = IF Expired THEN ctxCount ELSE ctxCount - 1
  /\ UNCHANGED <<held, stack>>

\* Mutants: only the base class is destroyed; the memory is freed before the
\* destructor has run.
DropBaseOnly(r) == DropEnvRef(r)
DropFreesFirst(r) ==
  /\ allocated' = allocated \ {r}
  /\ IF Expired THEN UNCHANGED <<ctxCount, held, stack>>
     ELSE /\ held' = [held EXCEPT ![value[r]] = @ - 1]
          /\ stack' = Append(stack, r)
          /\ UNCHANGED ctxCount

\* ~pesapi_value_ref__ calls JS_FreeValue first.
DropValueRef(r) ==
  IF Expired
  THEN allocated' = allocated \ {r} /\ UNCHANGED <<ctxCount, held, stack>>
  ELSE /\ held' = [held EXCEPT ![value[r]] = @ - 1]
       /\ stack' = Append(stack, r)
       /\ UNCHANGED <<allocated, ctxCount>>

\* pesapi_release_env_ref, pesapi_release_value_ref; which one is asEnv.  What
\* pesapi_get_ref_associated_env returns is the value reference itself, which the
\* client may duplicate and release as an environment.
Release(r, asEnv) ==
  /\ Handle(r)
  /\ asEnv \/ value[r] # NoVal
  /\ ref_count' = [ref_count EXCEPT ![r] = @ - 1]
  /\ IF ref_count[r] > 1 THEN UNCHANGED <<allocated, ctxCount, held, stack>>
     ELSE IF asEnv THEN DropEnvRef(r) ELSE DropValueRef(r)
  /\ misused' = misused \cup (IF asEnv THEN {value[r]} \ {NoVal} ELSE {})
  /\ UNCHANGED value

ClientReleases(r, asEnv) ==
  /\ ClientRuns /\ Len(stack) < MaxDepth
  /\ Release(r, asEnv)
  /\ UNCHANGED phase

\* Mutant: the base class counts the handle down once more.
DestructorCountsAgain ==
  /\ stack # << >>
  /\ LET r == stack[Len(stack)]
     IN /\ allocated' = allocated \ {r}
        /\ ref_count' = [ref_count EXCEPT ![r] = @ - 1]
        /\ ctxCount' = ctxCount - 1
        /\ stack' = SubSeq(stack, 1, Len(stack) - 1)
  /\ UNCHANGED <<value, held, misused, phase>>

\* The finalizers are done: ~pesapi_env_ref__ frees the context; free(value_ref).
DestructorEnds ==
  /\ stack # << >>
  /\ LET r == stack[Len(stack)]
     IN /\ allocated' = allocated \ {r}
        /\ ctxCount' = ctxCount - 1
        /\ stack' = SubSeq(stack, 1, Len(stack) - 1)
  /\ UNCHANGED <<ref_count, value, held, misused, phase>>

-----------------------------------------------------------------------------
(* destroy_qjs_env. *)

\* ... releases the env reference it is given and calls Cleanup, ...
DestroyEnv(r) ==
  /\ stack = << >> /\ phase = "running" /\ value[r] = NoVal
  /\ Release(r, TRUE)
  /\ phase' = "cleanup"

\* ... gives up the runtime's own reference to the context, ...
FreeContext ==
  /\ stack = << >> /\ phase = "cleanup"
  /\ ctxCount' = ctxCount - 1
  /\ phase' = "freeing"
  /\ UNCHANGED <<allocated, ref_count, value, held, misused, stack>>

\* ... frees the runtime, ...
FreeRuntime ==
  /\ stack = << >> /\ phase = "freeing"
  /\ phase' = "freed"
  /\ UNCHANGED <<allocated, ref_count, value, ctxCount, held, misused, stack>>

\* ... and destroys the mapper, with which the tracker expires.
DestroyMapper ==
  /\ phase = "freed"
  /\ phase' = "gone"
  /\ UNCHANGED <<allocated, ref_count, value, ctxCount, held, misused, stack>>

-----------------------------------------------------------------------------
Next ==
  \/ \E r \in Refs, v \in Vals \cup {NoVal} : Create(r, v)
  \/ \E r \in Refs : Duplicate(r) \/ SetRefWeak(r) \/ DestroyEnv(r)
  \/ \E r \in Refs, asEnv \in BOOLEAN : ClientReleases(r, asEnv)
  \/ DestructorEnds
  \/ FreeContext \/ FreeRuntime \/ DestroyMapper

Spec == Init /\ [][Next]_vars

-----------------------------------------------------------------------------
(* Properties *)

OwnedByRuntime == IF phase \in {"running", "cleanup"} THEN 1 ELSE 0

\* Until the tracker expires every reference that exists, and the runtime, hold the
\* context once.  So it is freed when the last of them lets go, in whatever order
\* client, finalizers and destroy_qjs_env do, and JS_FreeContext has freed it when
\* the runtime goes unless a reference is still out.
ContextCounted == phase # "gone" => ctxCount = OwnedByRuntime + Cardinality(allocated)

InDestructor(r) == \E i \in 1..Len(stack) : stack[i] = r

\* A value is held once by every value reference to it that is not being destroyed:
\* none is freed twice, or kept, unless one of its references was made weak or
\* released as the environment it holds.
ValuesHeld ==
  phase # "gone" =>
    \A v \in Vals \ misused :
      held[v] = Cardinality({r \in allocated : value[r] = v /\ ~InDestructor(r)})

\* A reference exists exactly as long as a handle to it does, or its destructor
\* runs; that destructor runs once, whatever the finalizers it calls release.
RefsSound ==
  /\ \A r \in Refs : r \in allocated <=> ref_count[r] > 0 \/ InDestructor(r)
  /\ \A i, j \in 1..Len(stack) : stack[i] = stack[j] => i = j
  /\ \A i \in 1..Len(stack) : ref_count[stack[i]] = 0

\* The context and values are touched only while runtime and context exist.
TouchesLiving ==
  [][ctxCount' # ctxCount \/ held' # held
       => phase \in {"running", "cleanup", "freeing"} /\ ctxCount > 0]_vars

\* No value loses more references than were taken: free_zero_refcount asserts that
\* the count of what it frees is zero.
NotFreedTwice == \A v \in Vals : held[v] >= 0
=============================================================================
