---------------------------- MODULE ClassRegister ----------------------------
(***************************************************************************)
(* The class registry, which is global, and the constructors an            *)
(* environment makes from its definitions: registration by type id and     *)
(* name, the not-found callback that registers classes on demand, and      *)
(* FindOrCreateClass over a chain of super types.                          *)
(*                                                                         *)
(* One thread.  `stack' holds the calls in progress, innermost last: the   *)
(* client runs on its own, or in the not-found callback of the last one.   *)
(* A definition's memory is not used again, so that a pointer to a freed   *)
(* one can be told.                                                        *)
(***************************************************************************)
EXTENDS Integers, Sequences, FiniteSets

CONSTANTS
  TypeIds,   \* type ids the client uses
  PtrType,   \* the type id of PtrClassDef, the class of unregistered types
  Names,     \* script names
  Defs,      \* memory for JSClassDefinition
  PtrDef,    \* PtrClassDef
  Ctors,     \* constructor functions
  Objs,      \* wrappers of native objects
  None,      \* nullptr
  MaxDepth,  \* bound: calls under which the client still calls in
  Contract   \* the promises the client keeps; see below

ASSUME RegisterAssumption ==
  /\ PtrType \notin TypeIds /\ PtrDef \notin Defs
  /\ None \notin TypeIds \cup {PtrType} \cup Defs \cup {PtrDef} \cup Ctors
  /\ MaxDepth \in Nat \ {0}

(***************************************************************************)
(* What nothing in the code enforces:                                      *)
(*   idle     a type id is registered again only while no constructor,     *)
(*            object or call of an environment uses its definition         *)
(*   named    ... and only under the name it had                           *)
(*   acyclic  no type is its own super type, at any distance               *)
(*   shy      the not-found callback makes no class and no object          *)
(*   honest   ... and says so when it has registered the type it is asked  *)
(*            for                                                          *)
(*   early    the life cycle of a class is traced before it has objects    *)
(***************************************************************************)
Clauses == {"idle", "named", "acyclic", "shy", "honest", "early"}
ASSUME ClausesAssumption == Contract \subseteq Clauses

VARIABLES
  def,       \* contents of a definition; None until it is first used
  freed,     \* definitions that JSClassDefinitionDelete freed
  byId,      \* CDataIdToClassDefinition
  byName,    \* CDataNameToClassDefinition
  notFound,  \* whether ClassNotFoundCallback is set
  env,       \* whether there is an environment
  classes,   \* TypeIdToFunctionMap
  ctor,      \* constructors: ctor_data's definition and the prototype's prototype
  objs,      \* wrappers: opaque data, and whether OnEnter was called
  exited,    \* history: whether OnExit was called for the last wrapper in this place
  stack      \* calls in progress

registry == <<def, freed, byId, byName, notFound>>
vars == <<def, freed, byId, byName, notFound, env, classes, ctor, objs, exited, stack>>

AllTypes == TypeIds \cup {PtrType}
AllDefs == Defs \cup {PtrDef}
Definition == [TypeId : TypeIds, SuperTypeId : TypeIds \cup {None},
               ScriptName : Names, traced : BOOLEAN]
Constructor == [def : AllDefs, parent : Ctors \cup {None}]
Wrapper == [def : AllDefs, ctor : Ctors, entered : BOOLEAN]

\* nullptr is none of these.
ASSUME NoneAssumption == None \notin Definition \cup Constructor \cup Wrapper

\* op: pesapi_get_class_data with force_load, pesapi_create_class, PushNativeObject,
\* FindOrCreateClass for the super type T of own, whose constructor is k.
\* pc: about to look T up; in the callback; d found for T; c is d's class.
Frame == [op : {"data", "create", "push", "build"}, T : TypeIds,
          pc : {"load", "asking", "found", "class"},
          d : AllDefs \cup {None}, c : Ctors \cup {None},
          own : Defs \cup {None}, k : Ctors \cup {None}]

TypeOK ==
  /\ def \in [Defs -> Definition \cup {None}]
  /\ freed \in SUBSET Defs
  /\ byId \in [TypeIds -> Defs \cup {None}]
  /\ byName \in [Names -> Defs \cup {None}]
  /\ notFound \in BOOLEAN /\ env \in BOOLEAN
  /\ classes \in [AllTypes -> Ctors \cup {None}]
  /\ ctor \in [Ctors -> Constructor \cup {None}]
  /\ objs \in [Objs -> Wrapper \cup {None}] /\ exited \in [Objs -> BOOLEAN]
  /\ stack \in Seq(Frame)

Init ==
  /\ def = [d \in Defs |-> None] /\ freed = {}
  /\ byId = [T \in TypeIds |-> None] /\ byName = [N \in Names |-> None]
  /\ notFound = FALSE
  /\ env = TRUE
  /\ classes = [T \in AllTypes |-> None]
  /\ ctor = [k \in Ctors |-> None]
  /\ objs = [o \in Objs |-> None] /\ exited = [o \in Objs |-> FALSE]
  /\ stack = << >>

Top == stack[Len(stack)]
At(pc) == stack # << >> /\ Top.pc = pc
ClientRuns == stack = << >> \/ At("asking")
Caller == SubSeq(stack, 1, Len(stack) - 1)
Becomes(f) == [stack EXCEPT ![Len(stack)] = f]
\* The call on top is done; c is the class it returns to the one below.
ReturnsTo(c) ==
  LET below == Len(stack) - 1
  IN [Caller EXCEPT ![below] = [@ EXCEPT !.pc = "class", !.c = c]]

TypeIdOf(d) == IF d = PtrDef THEN PtrType ELSE def[d].TypeId
SuperOf(d) == IF d = PtrDef THEN None ELSE def[d].SuperTypeId
Traced(d) == d # PtrDef /\ def[d].traced

-----------------------------------------------------------------------------
(* The registry. *)

UsedBy(d) ==
  \/ \E k \in Ctors : ctor[k] # None /\ ctor[k].def = d
  \/ \E o \in Objs : objs[o] # None /\ objs[o].def = d
  \/ \E i \in 1..Len(stack) : d \in {stack[i].d, stack[i].own}

\* With T's super type S, the registered types still have an order.
Ordered(T, S) ==
  \E rank \in [TypeIds -> 1..Cardinality(TypeIds)] :
    \A U \in TypeIds :
      LET V == IF U = T THEN S ELSE IF byId[U] = None THEN None ELSE def[byId[U]].SuperTypeId
      IN V # None => rank[U] < rank[V]

Allowed(T, S, N) ==
  /\ byId[T] # None => /\ "idle" \in Contract => ~UsedBy(byId[T])
                       /\ "named" \in Contract => def[byId[T]].ScriptName = N
  /\ "acyclic" \in Contract => Ordered(T, S)

Enters(d, T, S, N) ==
  /\ ClientRuns /\ def[d] = None /\ Allowed(T, S, N)
  /\ def' = [def EXCEPT ![d] = [TypeId |-> T, SuperTypeId |-> S, ScriptName |-> N,
                                traced |-> FALSE]]
  /\ freed' = freed \cup ({byId[T]} \ {None})
  /\ UNCHANGED <<notFound, env, classes, ctor, objs, exited, stack>>

\* Mutants: only a type id not yet there is entered; only a name not yet there is.
RegisterOnce(d, T, S, N) ==
  /\ Enters(d, T, S, N)
  /\ byId' = [byId EXCEPT ![T] = IF @ = None THEN d ELSE @]
  /\ byName' = [byName EXCEPT ![N] = d]
RegisterFirstName(d, T, S, N) ==
  /\ Enters(d, T, S, N)
  /\ byId' = [byId EXCEPT ![T] = d]
  /\ byName' = [byName EXCEPT ![N] = IF @ = None THEN d ELSE @]

\* RegisterClass, by pesapi_define_class: the definition the type id had is freed.
RegisterClass(d, T, S, N) ==
  /\ Enters(d, T, S, N)
  /\ byId' = [byId EXCEPT ![T] = d]
  /\ byName' = [byName EXCEPT ![N] = d]

OnClassNotFound(set) ==
  /\ ClientRuns /\ notFound # set
  /\ notFound' = set
  /\ UNCHANGED <<def, freed, byId, byName, env, classes, ctor, objs, exited, stack>>

\* Both callbacks are set, or both cleared.
TraceObjectLifecycle(T, on) ==
  /\ ClientRuns /\ byId[T] # None
  /\ "early" \in Contract => \A o \in Objs : objs[o] # None => objs[o].def # byId[T]
  /\ def' = [def EXCEPT ![byId[T]].traced = on]
  /\ UNCHANGED <<freed, byId, byName, notFound, env, classes, ctor, objs, exited, stack>>

-----------------------------------------------------------------------------
(* LoadClassByID *)

\* pesapi_get_class_data, pesapi_create_class, pesapi_native_object_to_value (bound:
\* while there are objects left)
Call(op, T) ==
  /\ env /\ ClientRuns /\ Len(stack) < MaxDepth
  /\ op = "push" => \E o \in Objs : objs[o] = None
  /\ "shy" \in Contract => stack = << >>
  /\ stack' = Append(stack, [op |-> op, T |-> T, pc |-> "load",
                             d |-> None, c |-> None, own |-> None, k |-> None])
  /\ UNCHANGED <<registry, env, classes, ctor, objs, exited>>

\* A type id not registered under is asked for, if there is a callback.
Load ==
  /\ At("load")
  /\ stack' = Becomes(IF byId[Top.T] = None /\ notFound
                      THEN [Top EXCEPT !.pc = "asking"]
                      ELSE [Top EXCEPT !.pc = "found", !.d = byId[Top.T]])
  /\ UNCHANGED <<registry, env, classes, ctor, objs, exited>>

\* Mutants: the type is not looked up again; it is asked for until it is there.
AnswerUnused(yes) ==
  /\ At("asking")
  /\ "honest" \in Contract => (byId[Top.T] # None => yes)
  /\ stack' = Becomes([Top EXCEPT !.pc = "found", !.d = None])
  /\ UNCHANGED <<registry, env, classes, ctor, objs, exited>>
AskAgain(yes) ==
  /\ At("asking")
  /\ "honest" \in Contract => (byId[Top.T] # None => yes)
  /\ stack' = Becomes(IF yes THEN [Top EXCEPT !.pc = "load"]
                      ELSE [Top EXCEPT !.pc = "found", !.d = None])
  /\ UNCHANGED <<registry, env, classes, ctor, objs, exited>>

\* The callback says whether to look again.
CallbackReturns(yes) ==
  /\ At("asking")
  /\ "honest" \in Contract => (byId[Top.T] # None => yes)
  /\ stack' = Becomes([Top EXCEPT !.pc = "found", !.d = IF yes THEN byId[Top.T] ELSE None])
  /\ UNCHANGED <<registry, env, classes, ctor, objs, exited>>

-----------------------------------------------------------------------------
(* FindOrCreateClass *)

\* PushNativeObject takes PtrClassDef for a type that is not registered.
Wanted == IF Top.op = "push" /\ Top.d = None THEN PtrDef ELSE Top.d
WithClass(c) == Becomes([Top EXCEPT !.pc = "class", !.d = Wanted, !.c = c])

\* Nothing to make a class of: pesapi_get_class_data is done, and
\* FindOrCreateClassByID returns undefined.
NoClass ==
  /\ At("found") /\ (Top.op = "data" \/ (Top.op = "create" /\ Top.d = None))
  /\ stack' = Caller
  /\ UNCHANGED <<registry, env, classes, ctor, objs, exited>>

NeedsClass == At("found") /\ (Top.op = "push" \/ (Top.op # "data" /\ Top.d # None))

FindClass ==
  /\ NeedsClass /\ classes[TypeIdOf(Wanted)] # None
  /\ stack' = WithClass(classes[TypeIdOf(Wanted)])
  /\ UNCHANGED <<registry, env, classes, ctor, objs, exited>>

\* Mutant: every class is taken to have a super type.
CreateAlwaysSuper(k) ==
  /\ NeedsClass /\ classes[TypeIdOf(Wanted)] = None /\ ctor[k] = None
  /\ ctor' = [ctor EXCEPT ![k] = [def |-> Wanted, parent |-> None]]
  /\ stack' = Append(Becomes([Top EXCEPT !.d = Wanted]),
                [op |-> "build", T |-> SuperOf(Wanted), pc |-> "load",
                 d |-> None, c |-> None, own |-> Wanted, k |-> k])
  /\ UNCHANGED <<registry, env, classes, objs, exited>>

\* The constructor is made at once, and entered in the map only when the class of
\* the super type is there.
CreateClass(k) ==
  /\ NeedsClass /\ classes[TypeIdOf(Wanted)] = None /\ ctor[k] = None
  /\ ctor' = [ctor EXCEPT ![k] = [def |-> Wanted, parent |-> None]]
  /\ IF SuperOf(Wanted) = None
     THEN /\ classes' = [classes EXCEPT ![TypeIdOf(Wanted)] = k]
          /\ stack' = WithClass(k)
     ELSE /\ stack' = Append(Becomes([Top EXCEPT !.d = Wanted]),
                [op |-> "build", T |-> SuperOf(Wanted), pc |-> "load",
                 d |-> None, c |-> None, own |-> Wanted, k |-> k])
          /\ UNCHANGED classes
  /\ UNCHANGED <<registry, env, objs, exited>>

\* Mutant: a class whose super type is not registered is not entered.
CompleteIfSuper ==
  /\ stack # << >> /\ Top.op = "build"
  /\ Top.pc = "class" \/ (Top.pc = "found" /\ Top.d = None)
  /\ ctor' = [ctor EXCEPT ![Top.k].parent = Top.c]
  /\ classes' = IF Top.c = None THEN classes
                ELSE [classes EXCEPT ![TypeIdOf(Top.own)] = Top.k]
  /\ stack' = ReturnsTo(Top.k)
  /\ UNCHANGED <<registry, env, objs, exited>>

\* The super type has its class, or is not registered.
CompleteClass ==
  /\ stack # << >> /\ Top.op = "build"
  /\ Top.pc = "class" \/ (Top.pc = "found" /\ Top.d = None)
  /\ ctor' = [ctor EXCEPT ![Top.k].parent = Top.c]
  /\ classes' = [classes EXCEPT ![TypeIdOf(Top.own)] = Top.k]
  /\ stack' = ReturnsTo(Top.k)
  /\ UNCHANGED <<registry, env, objs, exited>>

\* pesapi_create_class hands the class out.
ReturnClass ==
  /\ At("class") /\ Top.op = "create"
  /\ stack' = Caller
  /\ UNCHANGED <<registry, env, classes, ctor, objs, exited>>

\* Mutant: OnEnter is not called.
PushSilently(o) ==
  /\ At("class") /\ Top.op = "push" /\ objs[o] = None
  /\ objs' = [objs EXCEPT ![o] = [def |-> Top.d, ctor |-> Top.c, entered |-> FALSE]]
  /\ exited' = [exited EXCEPT ![o] = FALSE]
  /\ stack' = Caller
  /\ UNCHANGED <<registry, env, classes, ctor>>

\* The end of PushNativeObject, BindAndAddToCache.
PushNativeObject(o) ==
  /\ At("class") /\ Top.op = "push" /\ objs[o] = None
  /\ objs' = [objs EXCEPT ![o] = [def |-> Top.d, ctor |-> Top.c, entered |-> Traced(Top.d)]]
  /\ exited' = [exited EXCEPT ![o] = FALSE]
  /\ stack' = Caller
  /\ UNCHANGED <<registry, env, classes, ctor>>

\* PApiObjectFinalizer: RemoveFromCache asks the definition the object was made with.
FreeObject(o) ==
  /\ env /\ ClientRuns /\ objs[o] # None
  /\ objs' = [objs EXCEPT ![o] = None]
  /\ exited' = [exited EXCEPT ![o] = Traced(objs[o].def)]
  /\ UNCHANGED <<registry, env, classes, ctor, stack>>

\* The definition Cleanup finds for the type id in a node.
Registered(T) == IF T \in TypeIds /\ byId[T] # None THEN byId[T] ELSE PtrDef

\* destroy_qjs_env: Cleanup asks the definition of an object's type id that is
\* registered by now and releases the constructors in the map; every object goes.
\* One step: what the client does in OnExit is left out.
DestroyEnv ==
  /\ env /\ stack = << >>
  /\ env' = FALSE
  /\ exited' = [o \in Objs |-> IF objs[o] = None THEN exited[o]
                               ELSE Traced(Registered(TypeIdOf(objs[o].def)))]
  /\ objs' = [o \in Objs |-> None]
  /\ ctor' = [k \in Ctors |-> IF \E T \in AllTypes : classes[T] = k THEN None ELSE ctor[k]]
  /\ classes' = [T \in AllTypes |-> None]
  /\ UNCHANGED <<registry, stack>>

CreateEnv ==
  /\ ~env
  /\ env' = TRUE
  /\ UNCHANGED <<registry, classes, ctor, objs, exited, stack>>

-----------------------------------------------------------------------------
\* Which of the memory left is taken does not matter.
Fresh(f) ==
  LET left == {x \in DOMAIN f : f[x] = None}
  IN IF left = {} THEN {} ELSE {CHOOSE x \in left : TRUE}

Client ==
  \/ \E T \in TypeIds, S \in TypeIds \cup {None}, N \in Names :
       \E d \in Fresh(def) : RegisterClass(d, T, S, N)
  \/ \E set \in BOOLEAN : OnClassNotFound(set)
  \/ \E T \in TypeIds, on \in BOOLEAN : TraceObjectLifecycle(T, on)
  \/ \E op \in {"data", "create", "push"}, T \in TypeIds : Call(op, T)
  \/ \E o \in Objs : FreeObject(o)
  \/ DestroyEnv \/ CreateEnv

Answers == \E yes \in BOOLEAN : CallbackReturns(yes)

Engine ==
  \/ Load \/ NoClass \/ FindClass \/ CompleteClass \/ ReturnClass
  \/ \E k \in Fresh(ctor) : CreateClass(k)
  \/ \E o \in Objs : PushNativeObject(o)

Next == Client \/ Answers \/ Engine
Spec == Init /\ [][Next]_vars

\* The engine goes on, and a callback returns in the end.
Fairness == WF_vars(Engine) /\ WF_vars(Answers)
FairSpec == Spec /\ Fairness

-----------------------------------------------------------------------------
(* Properties *)

Pointers ==
  {byId[T] : T \in TypeIds}
    \cup {ctor[k].def : k \in {j \in Ctors : ctor[j] # None}}
    \cup {objs[o].def : o \in {q \in Objs : objs[q] # None}}
    \cup UNION {{stack[i].d, stack[i].own} : i \in 1..Len(stack)}

\* With `idle', no definition the registry, a constructor, an object or a call in
\* progress points to is freed: a call holds its definition across the not-found
\* callback of a super type, in which the client may register whatever it likes.
DefinitionsAlive == Pointers \cap freed = {}

\* With `named', a name leads to a definition that exists and has that name, however
\* types that share a name are registered and registered again.
NamesAlive ==
  \A N \in Names :
    byName[N] # None => byName[N] \notin freed /\ def[byName[N]].ScriptName = N

Building(k) == \E i \in 1..Len(stack) : stack[i].op = "build" /\ stack[i].k = k

\* A constructor is the one of its type or under construction: no class is made twice,
\* so instances share a prototype, and Cleanup releases every constructor.
OneConstructor ==
  \A k \in Ctors :
    ctor[k] # None => Building(k) \/ classes[TypeIdOf(ctor[k].def)] = k

\* A class enters the map linked to the class its super type has by then, if that type
\* is registered, on demand or before; else it stays without one for good.
SuperLinked ==
  [][\A T \in AllTypes :
       classes[T] = None /\ classes'[T] # None =>
         LET k == classes'[T]
             S == SuperOf(ctor'[k].def)
             linked == S # None /\ byId[S] # None
         IN IF linked THEN classes[S] # None /\ ctor'[k].parent = classes[S]
                      ELSE ctor'[k].parent = None]_vars

\* OnExit is called for an object if and only if OnEnter was, whether the finalizer
\* calls it by the definition the object was made with or Cleanup by the one registered
\* for its type id at the end.
ExitMatchesEnter ==
  [][\A o \in Objs :
       objs[o] # None /\ objs'[o] = None => (objs[o].entered <=> exited'[o])]_vars

\* FindOrCreateClass comes to the end of every chain of super types.
CreationReturns == stack # << >> ~> stack = << >>
=============================================================================
