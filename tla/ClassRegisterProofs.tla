------------------------- MODULE ClassRegisterProofs -------------------------
(***************************************************************************)
(* The class registry for any types, names, definitions and nesting of     *)
(* calls: types are right for every client; what else holds depends on the *)
(* clauses of the contract each theorem names.                             *)
(***************************************************************************)
EXTENDS ClassRegister, TLAPS, FiniteSetTheorems, WellFoundedInduction

(***************************************************************************)
(* The invariant that needs no contract.                                   *)
(***************************************************************************)

\* What the registry leads to was registered, under that type id.
RegistrySound ==
  /\ \A T \in TypeIds : byId[T] # None => def[byId[T]] # None /\ def[byId[T]].TypeId = T
  /\ \A N \in Names : byName[N] # None => def[byName[N]] # None
  /\ \A d \in freed : def[d] # None

\* Constructors and objects have definitions that were registered, or PtrClassDef.
UsersSound ==
  /\ \A k \in Ctors : ctor[k] # None /\ ctor[k].def # PtrDef => def[ctor[k].def] # None
  /\ \A o \in Objs : objs[o] # None /\ objs[o].def # PtrDef => def[objs[o].def] # None

\* A call f among the definitions D and constructors C.
FrameSound(f, D, C) ==
  /\ f.d \in Defs => D[f.d] # None /\ D[f.d].TypeId = f.T
  /\ f.d = PtrDef => f.op = "push" /\ f.pc = "class"
  /\ f.pc \in {"load", "asking"} => f.d = None
  /\ f.pc = "class" => f.d # None /\ f.c \in Ctors /\ f.op # "data"
  /\ f.pc # "class" => f.c = None
  /\ f.op = "build" => /\ f.own \in Defs /\ D[f.own] # None /\ D[f.own].SuperTypeId = f.T
                       /\ f.k \in Ctors /\ C[f.k] # None /\ C[f.k].def = f.own
  /\ f.op # "build" => f.own = None

\* The super class is looked for on behalf of the call below, which found own.
Linked(f, g) == g.op = "build" => f.pc = "found" /\ f.d = g.own /\ f.op # "data"

StackSound ==
  /\ \A i \in 1..Len(stack) : FrameSound(stack[i], def, ctor)
  /\ \A i \in 1..Len(stack) : stack[i].op = "build" => i > 1
  /\ \A i \in 1..(Len(stack) - 1) : Linked(stack[i], stack[i + 1])

Structure == TypeOK /\ RegistrySound /\ UsersSound /\ StackSound

-----------------------------------------------------------------------------
(* Stacks. *)

LEMMA TopOf ==
  ASSUME NEW F, NEW s \in Seq(F), s # << >>
  PROVE  /\ Len(s) \in Nat \ {0} /\ s[Len(s)] \in F
         /\ \A i \in 1..Len(s) : s[i] \in F
OBVIOUS

LEMMA Replaced ==
  ASSUME NEW F, NEW s \in Seq(F), s # << >>, NEW f \in F
  PROVE  LET t == [s EXCEPT ![Len(s)] = f]
         IN /\ t \in Seq(F) /\ Len(t) = Len(s) /\ t[Len(s)] = f
            /\ \A i \in 1..Len(s) : i # Len(s) => t[i] = s[i]
OBVIOUS

LEMMA Pushed ==
  ASSUME NEW F, NEW s \in Seq(F), NEW f \in F
  PROVE  LET t == Append(s, f)
         IN /\ t \in Seq(F) /\ Len(t) = Len(s) + 1 /\ t[Len(s) + 1] = f
            /\ \A i \in 1..Len(s) : t[i] = s[i]
OBVIOUS

LEMMA Popped ==
  ASSUME NEW F, NEW s \in Seq(F), s # << >>
  PROVE  LET t == SubSeq(s, 1, Len(s) - 1)
         IN /\ t \in Seq(F) /\ Len(t) = Len(s) - 1
            /\ \A i \in 1..(Len(s) - 1) : t[i] = s[i]
<1> DEFINE n == Len(s) - 1
           u == [i \in 1..n |-> s[i]]
<1>1. n \in Nat /\ \A i \in 1..n : s[i] \in F
  OBVIOUS
<1>2. SubSeq(s, 1, n) = u
  BY <1>1
<1>3. u \in Seq(F) /\ Len(u) = n /\ \A i \in 1..n : u[i] = s[i]
  BY <1>1
<1> HIDE DEF u
<1>4. QED BY <1>2, <1>3

-----------------------------------------------------------------------------
(* What is never taken back. *)

\* Of a definition only `traced' changes; a constructor keeps its definition.
DefsKept ==
  \A d \in Defs : def[d] # None =>
    /\ def'[d] # None /\ def'[d].TypeId = def[d].TypeId
    /\ def'[d].SuperTypeId = def[d].SuperTypeId /\ def'[d].ScriptName = def[d].ScriptName
CtorsKept ==
  \A k \in Ctors : ctor[k] # None => ctor'[k] # None /\ ctor'[k].def = ctor[k].def

LEMMA FrameKept ==
  ASSUME DefsKept, CtorsKept, NEW f \in Frame, FrameSound(f, def, ctor)
  PROVE  FrameSound(f, def', ctor')
BY DEF DefsKept, CtorsKept, FrameSound, Frame

LEMMA StackSame ==
  ASSUME TypeOK, StackSound, DefsKept, CtorsKept, UNCHANGED stack
  PROVE  StackSound' /\ stack' \in Seq(Frame)
<1>1. \A i \in 1..Len(stack) : stack[i] \in Frame
  BY DEF TypeOK
<1>2. QED BY <1>1, FrameKept DEF StackSound, Linked, TypeOK

\* The call on top goes on.
LEMMA StackBecomes ==
  ASSUME TypeOK, StackSound, DefsKept, CtorsKept, stack # << >>,
         NEW f \in Frame, f.op = Top.op, f.own = Top.own,
         FrameSound(f, def', ctor'), stack' = Becomes(f)
  PROVE  StackSound' /\ stack' \in Seq(Frame)
<1> DEFINE n == Len(stack)
<1>1. /\ n \in Nat \ {0} /\ stack' \in Seq(Frame) /\ Len(stack') = n /\ stack'[n] = f
      /\ \A i \in 1..n : i # n => stack'[i] = stack[i]
      /\ \A i \in 1..n : stack[i] \in Frame
  BY TopOf, Replaced DEF TypeOK, Becomes
<1>2. \A i \in 1..n : FrameSound(stack[i], def', ctor')
  BY <1>1, FrameKept DEF StackSound
<1>3. \A i \in 1..Len(stack') : FrameSound(stack'[i], def', ctor')
  BY <1>1, <1>2
<1>4. \A i \in 1..Len(stack') : stack'[i].op = "build" => i > 1
  BY <1>1 DEF StackSound, Top
<1>5. \A i \in 1..(Len(stack') - 1) : Linked(stack'[i], stack'[i + 1])
  BY <1>1 DEF StackSound, Top, Linked
<1>6. QED BY <1>1, <1>3, <1>4, <1>5 DEF StackSound

\* The client calls.
LEMMA StackCalled ==
  ASSUME TypeOK, StackSound, DefsKept, CtorsKept,
         NEW f \in Frame, f.op # "build", FrameSound(f, def', ctor'), stack' = Append(stack, f)
  PROVE  StackSound' /\ stack' \in Seq(Frame)
<1> DEFINE n == Len(stack)
<1>1. /\ n \in Nat /\ stack' \in Seq(Frame) /\ Len(stack') = n + 1 /\ stack'[n + 1] = f
      /\ \A i \in 1..n : stack'[i] = stack[i]
      /\ \A i \in 1..n : stack[i] \in Frame
  BY Pushed DEF TypeOK
<1>2. \A i \in 1..n : FrameSound(stack[i], def', ctor')
  BY <1>1, FrameKept DEF StackSound
<1>3. \A i \in 1..Len(stack') : FrameSound(stack'[i], def', ctor')
  BY <1>1, <1>2
<1>4. \A i \in 1..Len(stack') : stack'[i].op = "build" => i > 1
  BY <1>1 DEF StackSound
<1>5. \A i \in 1..(Len(stack') - 1) : Linked(stack'[i], stack'[i + 1])
  BY <1>1 DEF StackSound, Linked
<1>6. QED BY <1>1, <1>3, <1>4, <1>5 DEF StackSound

\* A call is done.
LEMMA StackReturns ==
  ASSUME TypeOK, StackSound, DefsKept, CtorsKept, stack # << >>, stack' = Caller
  PROVE  StackSound' /\ stack' \in Seq(Frame)
<1> DEFINE n == Len(stack)
<1>1. /\ n \in Nat \ {0} /\ stack' \in Seq(Frame) /\ Len(stack') = n - 1
      /\ \A i \in 1..(n - 1) : stack'[i] = stack[i]
      /\ \A i \in 1..n : stack[i] \in Frame
  BY TopOf, Popped DEF TypeOK, Caller
<1>2. \A i \in 1..n : FrameSound(stack[i], def', ctor')
  BY <1>1, FrameKept DEF StackSound
<1>3. \A i \in 1..Len(stack') : FrameSound(stack'[i], def', ctor')
  BY <1>1, <1>2
<1>4. \A i \in 1..Len(stack') : stack'[i].op = "build" => i > 1
  BY <1>1 DEF StackSound
<1>5. \A i \in 1..(Len(stack') - 1) : Linked(stack'[i], stack'[i + 1])
  BY <1>1 DEF StackSound, Linked
<1>6. QED BY <1>1, <1>3, <1>4, <1>5 DEF StackSound

LEMMA TopSound ==
  ASSUME Structure, stack # << >>
  PROVE  /\ Len(stack) \in Nat \ {0} /\ Top \in Frame /\ Top = stack[Len(stack)]
         /\ FrameSound(Top, def, ctor)
BY TopOf DEF Structure, TypeOK, StackSound, Top

\* With the definitions and constructors alone the rest of the structure is kept.
LEMMA RestSame ==
  ASSUME Structure, UNCHANGED <<def, freed, byId, byName, ctor, objs>>
  PROVE  RegistrySound' /\ UsersSound' /\ DefsKept /\ CtorsKept
BY DEF Structure, RegistrySound, UsersSound, DefsKept, CtorsKept

-----------------------------------------------------------------------------
(* Each action keeps the structure. *)

LEMMA StepRegisterClass ==
  ASSUME Structure, NEW d \in Defs, NEW T \in TypeIds, NEW S \in TypeIds \cup {None},
         NEW N \in Names, RegisterClass(d, T, S, N)
  PROVE  Structure' /\ DefsKept /\ CtorsKept
<1> USE RegisterAssumption, NoneAssumption DEF RegisterClass, Enters
<1> DEFINE e == [TypeId |-> T, SuperTypeId |-> S, ScriptName |-> N, traced |-> FALSE]
<1>0. e \in Definition
  BY DEF Definition
<1>1. e \in Definition /\ e # None
  BY <1>0
<1>2. /\ def[d] = None /\ def' = [def EXCEPT ![d] = e]
      /\ def'[d] # None /\ def'[d].TypeId = T /\ \A c \in Defs : c # d => def'[c] = def[c]
  BY <1>1 DEF Structure, TypeOK
<1> HIDE DEF e
<1>3. DefsKept /\ CtorsKept
  BY <1>2 DEF DefsKept, CtorsKept
<1>4. StackSound' /\ stack' \in Seq(Frame)
  BY <1>3, StackSame DEF Structure
<1>5. TypeOK'
  <2>0. def' \in [Defs -> Definition \cup {None}]
    <3>1. def \in [Defs -> Definition \cup {None}]
      BY DEF Structure, TypeOK
    <3> HIDE DEF RegisterClass, Enters
    <3>2. QED BY <1>1, <1>2, <3>1
  <2>1. byId[T] \in Defs \cup {None} /\ freed' \in SUBSET Defs
    BY DEF Structure, TypeOK
  <2>2. byId' \in [TypeIds -> Defs \cup {None}] /\ byName' \in [Names -> Defs \cup {None}]
    BY DEF Structure, TypeOK
  <2>3. QED BY <1>4, <2>0, <2>1, <2>2 DEF Structure, TypeOK
<1>6. RegistrySound'
  BY <1>2 DEF Structure, TypeOK, RegistrySound
<1>7. UsersSound'
  <2>1. \A k \in Ctors : ctor[k] # None => ctor[k].def \in AllDefs
    BY DEF Structure, TypeOK, Constructor
  <2>2. \A o \in Objs : objs[o] # None => objs[o].def \in AllDefs
    BY DEF Structure, TypeOK, Wrapper
  <2>3. QED BY <1>2, <2>1, <2>2 DEF Structure, UsersSound, AllDefs
<1>8. QED BY <1>3, <1>4, <1>5, <1>6, <1>7 DEF Structure

LEMMA StepTrace ==
  ASSUME Structure, NEW T \in TypeIds, NEW on \in BOOLEAN, TraceObjectLifecycle(T, on)
  PROVE  Structure' /\ DefsKept /\ CtorsKept
<1> DEFINE d == byId[T]
<1>1. d \in Defs /\ def[d] \in Definition /\ def' = [def EXCEPT ![d].traced = on]
  BY DEF TraceObjectLifecycle, Structure, TypeOK, RegistrySound
<1>2. /\ def'[d] = [def[d] EXCEPT !.traced = on] /\ def'[d] \in Definition
      /\ def' \in [Defs -> Definition \cup {None}]
      /\ \A c \in Defs : c # d => def'[c] = def[c]
  BY <1>1 DEF Structure, TypeOK, Definition
<1>3. DefsKept
  <2>1. def'[d] # None /\ def'[d].TypeId = def[d].TypeId
        /\ def'[d].SuperTypeId = def[d].SuperTypeId /\ def'[d].ScriptName = def[d].ScriptName
    BY <1>1, <1>2, NoneAssumption DEF Definition
  <2>2. QED BY <1>2, <2>1 DEF DefsKept
<1>4. CtorsKept
  BY DEF TraceObjectLifecycle, CtorsKept
<1> HIDE DEF d
<1>5. StackSound' /\ stack' \in Seq(Frame)
  BY <1>3, <1>4, StackSame DEF Structure, TraceObjectLifecycle
<1>6. TypeOK'
  BY <1>2, <1>5 DEF Structure, TypeOK, TraceObjectLifecycle
<1>7. RegistrySound'
  BY <1>3 DEF Structure, TypeOK, RegistrySound, TraceObjectLifecycle, DefsKept
<1>8. UsersSound'
  <2>1. \A k \in Ctors : ctor[k] # None => ctor[k].def \in AllDefs
    BY DEF Structure, TypeOK, Constructor
  <2>2. \A o \in Objs : objs[o] # None => objs[o].def \in AllDefs
    BY DEF Structure, TypeOK, Wrapper
  <2>3. QED BY <1>3, <2>1, <2>2 DEF Structure, UsersSound, AllDefs, DefsKept, TraceObjectLifecycle
<1>9. QED BY <1>3, <1>4, <1>5, <1>6, <1>7, <1>8 DEF Structure

\* Steps of a call that change nothing but the call itself.
LEMMA StepCall ==
  ASSUME Structure, NEW op \in {"data", "create", "push"}, NEW T \in TypeIds, Call(op, T)
  PROVE  Structure' /\ DefsKept /\ CtorsKept
<1> DEFINE f == [op |-> op, T |-> T, pc |-> "load",
                 d |-> None, c |-> None, own |-> None, k |-> None]
<1>1. f \in Frame /\ f.op # "build" /\ FrameSound(f, def, ctor) /\ stack' = Append(stack, f)
  BY RegisterAssumption DEF Call, Frame, FrameSound
<1> HIDE DEF f
<1>2. RegistrySound' /\ UsersSound' /\ DefsKept /\ CtorsKept
  BY RestSame DEF Call, registry
<1>3. StackSound' /\ stack' \in Seq(Frame)
  BY <1>1, <1>2, StackCalled, FrameKept DEF Structure
<1>4. QED BY <1>2, <1>3 DEF Structure, TypeOK, Call, registry

\* The call on top goes on, or is done, and nothing else changes.
LEMMA StepTop ==
  ASSUME Structure, stack # << >>, UNCHANGED <<registry, env, classes, ctor, objs, exited>>,
         \/ stack' = Caller
         \/ \E f \in Frame : /\ f.op = Top.op /\ f.own = Top.own
                             /\ FrameSound(f, def, ctor) /\ stack' = Becomes(f)
  PROVE  Structure' /\ DefsKept /\ CtorsKept
<1>1. RegistrySound' /\ UsersSound' /\ DefsKept /\ CtorsKept
  BY RestSame DEF registry
<1>2. StackSound' /\ stack' \in Seq(Frame)
  BY <1>1, StackReturns, StackBecomes, FrameKept DEF Structure
<1>3. QED BY <1>1, <1>2 DEF Structure, TypeOK, registry

LEMMA StepLoad ==
  ASSUME Structure, Load
  PROVE  Structure' /\ DefsKept /\ CtorsKept
<1> DEFINE f == IF byId[Top.T] = None /\ notFound
                THEN [Top EXCEPT !.pc = "asking"]
                ELSE [Top EXCEPT !.pc = "found", !.d = byId[Top.T]]
<1>1. stack # << >> /\ Top \in Frame /\ FrameSound(Top, def, ctor) /\ Top.pc = "load"
  BY TopSound DEF Load, At
<1>2. /\ Top.T \in TypeIds /\ byId[Top.T] \in Defs \cup {None}
      /\ byId[Top.T] # None => def[byId[Top.T]] # None /\ def[byId[Top.T]].TypeId = Top.T
  BY <1>1 DEF Frame, Structure, TypeOK, RegistrySound
<1>3. f \in Frame /\ f.op = Top.op /\ f.own = Top.own
  BY <1>1, <1>2 DEF Frame, AllDefs
<1>4. FrameSound(f, def, ctor)
  BY <1>1, <1>2, RegisterAssumption DEF Frame, FrameSound
<1>5. stack' = Becomes(f) /\ UNCHANGED <<registry, env, classes, ctor, objs, exited>>
  BY DEF Load
<1> HIDE DEF f
<1>6. QED BY <1>1, <1>3, <1>4, <1>5, StepTop

LEMMA StepCallbackReturns ==
  ASSUME Structure, NEW yes \in BOOLEAN, CallbackReturns(yes)
  PROVE  Structure' /\ DefsKept /\ CtorsKept
<1> DEFINE f == [Top EXCEPT !.pc = "found", !.d = IF yes THEN byId[Top.T] ELSE None]
<1>1. stack # << >> /\ Top \in Frame /\ FrameSound(Top, def, ctor) /\ Top.pc = "asking"
  BY TopSound DEF CallbackReturns, At
<1>2. /\ Top.T \in TypeIds /\ byId[Top.T] \in Defs \cup {None}
      /\ byId[Top.T] # None => def[byId[Top.T]] # None /\ def[byId[Top.T]].TypeId = Top.T
  BY <1>1 DEF Frame, Structure, TypeOK, RegistrySound
<1>3. f \in Frame /\ f.op = Top.op /\ f.own = Top.own
  BY <1>1, <1>2 DEF Frame, AllDefs
<1>4. FrameSound(f, def, ctor)
  BY <1>1, <1>2, RegisterAssumption DEF Frame, FrameSound
<1>5. stack' = Becomes(f) /\ UNCHANGED <<registry, env, classes, ctor, objs, exited>>
  BY DEF CallbackReturns
<1> HIDE DEF f
<1>6. QED BY <1>1, <1>3, <1>4, <1>5, StepTop

\* The definition a class is needed of.
LEMMA WantedIs ==
  ASSUME Structure, NeedsClass
  PROVE  /\ stack # << >> /\ Top \in Frame /\ FrameSound(Top, def, ctor)
         /\ Top.pc = "found" /\ Top.op # "data"
         /\ Wanted \in AllDefs
         /\ Wanted = PtrDef => Top.op = "push" /\ Top.d = None
         /\ Wanted # PtrDef => /\ Wanted \in Defs /\ Wanted = Top.d /\ def[Wanted] \in Definition
                               /\ TypeIdOf(Wanted) = Top.T /\ Top.T \in TypeIds
         /\ TypeIdOf(Wanted) \in AllTypes
         /\ SuperOf(Wanted) \in TypeIds \cup {None}
<1>1. stack # << >> /\ Top \in Frame /\ FrameSound(Top, def, ctor)
      /\ Top.pc = "found" /\ Top.op # "data"
  BY TopSound DEF NeedsClass, At
<1>2. Top.op \in {"data", "create", "push", "build"} /\ Top.T \in TypeIds
      /\ Top.d \in AllDefs \cup {None}
  BY <1>1 DEF Frame
<1>3. CASE Top.d = None
  <2>1. Wanted = PtrDef /\ Top.op = "push"
    BY <1>1, <1>2, <1>3 DEF NeedsClass, Wanted
  <2>2. QED BY <1>1, <2>1, <1>3 DEF AllDefs, AllTypes, TypeIdOf, SuperOf
<1>4. CASE Top.d # None
  <2>1. Wanted = Top.d /\ Top.d \in Defs /\ Top.d # PtrDef
    BY <1>1, <1>2, <1>4, RegisterAssumption DEF Wanted, FrameSound, AllDefs
  <2>2. def[Top.d] \in Definition /\ def[Top.d].TypeId = Top.T
    BY <1>1, <2>1 DEF FrameSound, Structure, TypeOK
  <2>3. QED BY <1>1, <1>2, <2>1, <2>2 DEF AllDefs, AllTypes, TypeIdOf, SuperOf, Definition
<1>5. QED BY <1>3, <1>4

\* A class is there: the frame the call goes on with.
LEMMA ClassFrame ==
  ASSUME Structure, NeedsClass, NEW c \in Ctors
  PROVE  \E f \in Frame : /\ f.op = Top.op /\ f.own = Top.own /\ f.T = Top.T
                          /\ f.pc = "class" /\ f.d = Wanted /\ f.c = c
                          /\ \A C : FrameSound(Top, def, C) => FrameSound(f, def, C)
                          /\ WithClass(c) = Becomes(f)
<1> DEFINE f == [Top EXCEPT !.pc = "class", !.d = Wanted, !.c = c]
<1>1. /\ Top \in Frame /\ FrameSound(Top, def, ctor) /\ Top.op # "data"
      /\ Wanted \in AllDefs
      /\ Wanted = PtrDef => Top.op = "push"
      /\ Wanted # PtrDef => /\ Wanted \in Defs /\ def[Wanted] \in Definition
                            /\ Wanted = Top.d
  BY WantedIs
<1>2. f \in Frame /\ f.op = Top.op /\ f.own = Top.own /\ f.T = Top.T
      /\ f.pc = "class" /\ f.d = Wanted /\ f.c = c /\ f.k = Top.k
  BY <1>1 DEF Frame
<1>3. WithClass(c) = Becomes(f)
  BY DEF WithClass
<1> HIDE DEF f
<1>4. f.d # None /\ (f.d \in Defs => f.d = Top.d)
  BY <1>1, <1>2, RegisterAssumption DEF AllDefs
<1>5. \A C : FrameSound(Top, def, C) => FrameSound(f, def, C)
  BY <1>1, <1>2, <1>4 DEF FrameSound
<1>6. QED BY <1>2, <1>3, <1>5

LEMMA StepFindClass ==
  ASSUME Structure, FindClass
  PROVE  Structure' /\ DefsKept /\ CtorsKept
<1> DEFINE c == classes[TypeIdOf(Wanted)]
<1>1. NeedsClass /\ c \in Ctors /\ stack' = WithClass(c)
      /\ UNCHANGED <<registry, env, classes, ctor, objs, exited>>
  BY WantedIs DEF FindClass, Structure, TypeOK
<1> HIDE DEF c
<1>2. stack # << >> /\ FrameSound(Top, def, ctor)
  BY <1>1, WantedIs
<1>3. QED BY <1>1, <1>2, ClassFrame, StepTop

\* The new constructor, whatever becomes of the call.
LEMMA ConstructorMade ==
  ASSUME Structure, NEW k \in Ctors, CreateClass(k)
  PROVE  /\ ctor' \in [Ctors -> Constructor \cup {None}]
         /\ ctor[k] = None /\ ctor'[k] # None /\ ctor'[k].def = Wanted /\ ctor'[k].parent = None
         /\ \A j \in Ctors : j # k => ctor'[j] = ctor[j]
         /\ DefsKept /\ CtorsKept /\ RegistrySound' /\ UsersSound'
<1> DEFINE r == [def |-> Wanted, parent |-> None]
<1>1. NeedsClass /\ ctor[k] = None /\ ctor' = [ctor EXCEPT ![k] = r]
      /\ UNCHANGED <<registry, env, objs, exited>>
  BY DEF CreateClass
<1>2. Wanted \in AllDefs /\ (Wanted # PtrDef => Wanted \in Defs /\ def[Wanted] \in Definition)
  BY <1>1, WantedIs
<1>3. r \in Constructor
  BY <1>2 DEF Constructor
<1>4. r # None /\ r.def = Wanted /\ r.parent = None
  BY <1>3, NoneAssumption
<1> HIDE DEF r
<1>5. ctor' \in [Ctors -> Constructor \cup {None}]
  BY <1>1, <1>3 DEF Structure, TypeOK
<1>6. ctor'[k] = r /\ \A j \in Ctors : j # k => ctor'[j] = ctor[j]
  BY <1>1 DEF Structure, TypeOK
<1>7. DefsKept /\ RegistrySound'
  BY <1>1 DEF DefsKept, Structure, RegistrySound, registry
<1>8. CtorsKept
  BY <1>1, <1>6 DEF CtorsKept
<1>9. Wanted # PtrDef => def[Wanted] # None
  BY <1>2, NoneAssumption
<1>10. UsersSound'
  BY <1>1, <1>4, <1>6, <1>9 DEF Structure, UsersSound, registry
<1>11. QED BY <1>1, <1>4, <1>5, <1>6, <1>7, <1>8, <1>10

LEMMA StepCreateClass ==
  ASSUME Structure, NEW k \in Ctors, CreateClass(k)
  PROVE  Structure' /\ DefsKept /\ CtorsKept
<1>1. NeedsClass /\ UNCHANGED <<registry, env, objs, exited>>
  BY DEF CreateClass
<1>2. /\ stack # << >> /\ Top \in Frame /\ FrameSound(Top, def, ctor)
      /\ Top.pc = "found" /\ Top.op # "data" /\ Wanted \in AllDefs
      /\ Wanted # PtrDef => /\ Wanted \in Defs /\ Wanted = Top.d /\ def[Wanted] \in Definition
                            /\ TypeIdOf(Wanted) = Top.T
      /\ TypeIdOf(Wanted) \in AllTypes /\ SuperOf(Wanted) \in TypeIds \cup {None}
  BY <1>1, WantedIs
<1>3. /\ ctor' \in [Ctors -> Constructor \cup {None}]
      /\ ctor[k] = None /\ ctor'[k] # None /\ ctor'[k].def = Wanted
      /\ DefsKept /\ CtorsKept /\ RegistrySound' /\ UsersSound'
  BY ConstructorMade
<1>4. CASE SuperOf(Wanted) = None
  <2>1. stack' = WithClass(k) /\ classes' = [classes EXCEPT ![TypeIdOf(Wanted)] = k]
    BY <1>4 DEF CreateClass
  <2>2. PICK f \in Frame : /\ f.op = Top.op /\ f.own = Top.own
                           /\ FrameSound(f, def, ctor) /\ stack' = Becomes(f)
    BY <1>1, <1>2, <2>1, ClassFrame
  <2>3. FrameSound(f, def', ctor')
    BY <1>3, <2>2, FrameKept
  <2>4. StackSound' /\ stack' \in Seq(Frame)
    BY <1>2, <1>3, <2>2, <2>3, StackBecomes DEF Structure
  <2>5. classes' \in [AllTypes -> Ctors \cup {None}]
    BY <2>1 DEF Structure, TypeOK
  <2>6. QED BY <1>1, <1>3, <2>4, <2>5 DEF Structure, TypeOK, registry
<1>5. CASE SuperOf(Wanted) # None
  <2> DEFINE w == Wanted
             n == Len(stack)
             f == [Top EXCEPT !.d = w]
             g == [op |-> "build", T |-> SuperOf(w), pc |-> "load",
                   d |-> None, c |-> None, own |-> w, k |-> k]
  <2>1. stack' = Append(Becomes(f), g) /\ UNCHANGED classes
    BY <1>5 DEF CreateClass
  <2>2. w # PtrDef /\ w \in Defs /\ w = Top.d /\ def[w] \in Definition
        /\ SuperOf(w) = def[w].SuperTypeId /\ SuperOf(w) \in TypeIds
    BY <1>2, <1>5 DEF SuperOf
  <2>3. f = Top
    BY <1>2, <2>2 DEF Frame
  <2>4. g \in Frame /\ g.op = "build" /\ g.own = w
    BY <2>2 DEF Frame
  <2>5. FrameSound(g, def, ctor')
    BY <1>3, <2>2, NoneAssumption, RegisterAssumption DEF FrameSound
  <2> HIDE DEF g, w
  <2>6. Becomes(f) \in Seq(Frame) /\ Len(Becomes(f)) = n
        /\ \A i \in 1..n : Becomes(f)[i] = stack[i]
    BY <1>2, <2>3, TopOf, Replaced DEF Structure, TypeOK, Becomes, Top
  <2> HIDE DEF f
  <2>7. /\ n \in Nat \ {0} /\ stack' \in Seq(Frame) /\ Len(stack') = n + 1 /\ stack'[n + 1] = g
        /\ \A i \in 1..n : stack'[i] = stack[i] /\ stack[i] \in Frame
    BY <1>2, <2>1, <2>4, <2>6, Pushed, TopOf DEF Structure, TypeOK
  <2>8. \A i \in 1..n : FrameSound(stack[i], def, ctor')
    BY <1>1, <1>3, <2>7, FrameKept DEF Structure, StackSound, registry
  <2>9. \A i \in 1..Len(stack') : FrameSound(stack'[i], def, ctor')
    BY <2>5, <2>7, <2>8
  <2>10. \A i \in 1..Len(stack') : stack'[i].op = "build" => i > 1
    BY <2>7 DEF Structure, StackSound
  <2>11. Linked(stack[n], g)
    BY <1>2, <2>2, <2>4 DEF Linked, Top, w
  <2>12. \A i \in 1..(Len(stack') - 1) : Linked(stack'[i], stack'[i + 1])
    BY <2>7, <2>11 DEF Structure, StackSound, Linked
  <2>13. StackSound'
    BY <1>1, <2>9, <2>10, <2>12 DEF StackSound, registry
  <2>14. QED BY <1>1, <1>3, <2>1, <2>7, <2>13 DEF Structure, TypeOK, registry
<1>6. QED BY <1>4, <1>5

\* The call that builds a class, and the one below it that waits for the class.
LEMMA Builder ==
  ASSUME Structure, CompleteClass
  PROVE  LET n == Len(stack) IN
         /\ n \in Nat /\ n > 1 /\ Top = stack[n] /\ Top \in Frame /\ stack[n - 1] \in Frame
         /\ Top.op = "build" /\ FrameSound(Top, def, ctor)
         /\ Top.own \in Defs /\ def[Top.own] \in Definition /\ Top.k \in Ctors /\ ctor[Top.k] # None
         /\ ctor[Top.k] \in Constructor /\ ctor[Top.k].def = Top.own
         /\ stack[n - 1].pc = "found" /\ stack[n - 1].d = Top.own /\ stack[n - 1].op # "data"
         /\ FrameSound(stack[n - 1], def, ctor)
<1> DEFINE n == Len(stack)
<1>1. stack # << >> /\ Top.op = "build"
  BY DEF CompleteClass
<1>2. n \in Nat \ {0} /\ Top \in Frame /\ Top = stack[n] /\ FrameSound(Top, def, ctor)
  BY <1>1, TopSound
<1>3. n > 1 /\ stack[n - 1] \in Frame
  BY <1>1, <1>2 DEF Structure, StackSound, TypeOK
<1>4. Linked(stack[n - 1], Top) /\ FrameSound(stack[n - 1], def, ctor)
  BY <1>2, <1>3 DEF Structure, StackSound
<1>5. /\ Top.own \in Defs /\ def[Top.own] # None /\ Top.k \in Ctors /\ ctor[Top.k] # None
      /\ ctor[Top.k].def = Top.own
  BY <1>1, <1>2 DEF FrameSound
<1>6. def[Top.own] \in Definition /\ ctor[Top.k] \in Constructor
  BY <1>5 DEF Structure, TypeOK
<1>7. stack[n - 1].pc = "found" /\ stack[n - 1].d = Top.own /\ stack[n - 1].op # "data"
  BY <1>1, <1>4 DEF Linked
<1>8. QED BY <1>1, <1>2, <1>3, <1>4, <1>5, <1>6, <1>7

\* What CompleteClass does to constructors and stack.
LEMMA Completed ==
  ASSUME Structure, CompleteClass
  PROVE  LET n == Len(stack) IN
         /\ ctor' \in [Ctors -> Constructor \cup {None}]
         /\ ctor'[Top.k] # None /\ ctor'[Top.k].def = Top.own /\ ctor'[Top.k].parent = Top.c
         /\ \A j \in Ctors : j # Top.k => ctor'[j] = ctor[j]
         /\ stack' \in Seq(Frame) /\ Len(stack') = n - 1
         /\ \A i \in 1..(n - 2) : stack'[i] = stack[i]
         /\ stack'[n - 1] = [stack[n - 1] EXCEPT !.pc = "class", !.c = Top.k]
<1> DEFINE n == Len(stack)
           m == n - 1
           k == Top.k
           r == [ctor[k] EXCEPT !.parent = Top.c]
           f == [stack[m] EXCEPT !.pc = "class", !.c = k]
<1>1. /\ n \in Nat /\ n > 1 /\ Top \in Frame /\ stack[m] \in Frame
      /\ k \in Ctors /\ ctor[k] # None /\ ctor[k] \in Constructor /\ ctor[k].def = Top.own
  BY Builder
<1>2. stack # << >> /\ ctor' = [ctor EXCEPT ![k].parent = Top.c] /\ stack' = ReturnsTo(k)
  BY DEF CompleteClass
<1>3. Top.c \in Ctors \cup {None}
  BY <1>1 DEF Frame
<1>4. r \in Constructor /\ r.def = Top.own /\ r.parent = Top.c
  BY <1>1, <1>3 DEF Constructor
<1>5. r # None /\ ctor' = [ctor EXCEPT ![k] = r]
  BY <1>1, <1>2, <1>4, NoneAssumption
<1>6. f \in Frame
  BY <1>1 DEF Frame
<1>7. Caller \in Seq(Frame) /\ Len(Caller) = m /\ \A i \in 1..m : Caller[i] = stack[i]
  BY <1>2, Popped DEF Caller, Structure, TypeOK
<1>8. stack' = [Caller EXCEPT ![m] = [Caller[m] EXCEPT !.pc = "class", !.c = k]]
  BY <1>2 DEF ReturnsTo
<1>9. Caller # << >> /\ Caller[m] = stack[m]
  BY <1>1, <1>7
<1>10. stack' = [Caller EXCEPT ![Len(Caller)] = f]
  BY <1>7, <1>8, <1>9
<1> HIDE DEF f, r, k
<1>11. /\ stack' \in Seq(Frame) /\ Len(stack') = m /\ stack'[m] = f
       /\ \A i \in 1..m : i # m => stack'[i] = Caller[i]
  BY <1>6, <1>7, <1>9, <1>10, Replaced
<1>12. \A i \in 1..(n - 2) : stack'[i] = stack[i]
  BY <1>1, <1>7, <1>11
<1>13. ctor' \in [Ctors -> Constructor \cup {None}]
  BY <1>4, <1>5 DEF Structure, TypeOK
<1>14. ctor'[k] = r /\ \A j \in Ctors : j # k => ctor'[j] = ctor[j]
  BY <1>1, <1>5 DEF Structure, TypeOK
<1>15. QED BY <1>1, <1>4, <1>5, <1>11, <1>12, <1>13, <1>14 DEF f, k

LEMMA StepCompleteClass ==
  ASSUME Structure, CompleteClass
  PROVE  Structure' /\ DefsKept /\ CtorsKept
<1> DEFINE n == Len(stack)
           m == n - 1
           k == Top.k
           f == [stack[m] EXCEPT !.pc = "class", !.c = k]
<1>1. /\ n \in Nat /\ n > 1 /\ stack[m] \in Frame /\ k \in Ctors /\ Top.own \in Defs
      /\ ctor[k].def = Top.own /\ def[Top.own] \in Definition
      /\ stack[m].pc = "found" /\ stack[m].d = Top.own /\ stack[m].op # "data"
      /\ FrameSound(stack[m], def, ctor)
  BY Builder
<1>2. /\ ctor' \in [Ctors -> Constructor \cup {None}]
      /\ ctor'[k] # None /\ ctor'[k].def = Top.own
      /\ \A j \in Ctors : j # k => ctor'[j] = ctor[j]
      /\ stack' \in Seq(Frame) /\ Len(stack') = m
      /\ \A i \in 1..(n - 2) : stack'[i] = stack[i]
      /\ stack'[m] = f
  BY Completed
<1>3. UNCHANGED <<registry, env, objs, exited>> /\ classes' = [classes EXCEPT ![TypeIdOf(Top.own)] = k]
  BY DEF CompleteClass
<1>4. DefsKept /\ RegistrySound'
  BY <1>3 DEF DefsKept, Structure, RegistrySound, registry
<1>5. CtorsKept
  BY <1>1, <1>2 DEF CtorsKept
<1>6. UsersSound'
  BY <1>1, <1>2, <1>3, NoneAssumption DEF Structure, UsersSound, registry
<1>7. f \in Frame /\ f.op = stack[m].op /\ f.own = stack[m].own /\ f.T = stack[m].T
      /\ f.k = stack[m].k /\ f.d = stack[m].d /\ f.pc = "class" /\ f.c = k
  BY <1>1 DEF Frame
<1> HIDE DEF f, k
<1>8. FrameSound(f, def, ctor)
  BY <1>1, <1>7, RegisterAssumption DEF FrameSound
<1>9. \A i \in 1..m : stack[i] \in Frame /\ FrameSound(stack[i], def, ctor)
  <2>1. \A i \in 1..n : stack[i] \in Frame /\ FrameSound(stack[i], def, ctor)
    BY DEF Structure, StackSound, TypeOK
  <2>2. QED BY <1>1, <2>1
<1>10. \A i \in 1..Len(stack') : FrameSound(stack'[i], def', ctor')
  <2>1. SUFFICES ASSUME NEW i \in 1..m PROVE FrameSound(stack'[i], def', ctor')
    BY <1>2
  <2>2. stack'[i] \in Frame /\ FrameSound(stack'[i], def, ctor)
    <3>1. CASE i = m
      BY <1>2, <1>7, <1>8, <3>1
    <3>2. CASE i # m
      <4>1. i \in 1..(n - 2)
        BY <1>1, <3>2
      <4>2. QED BY <1>2, <1>9, <4>1
    <3>3. QED BY <3>1, <3>2
  <2>3. QED BY <1>4, <1>5, <2>2, FrameKept
<1>11. \A i \in 1..Len(stack') : stack'[i].op = stack[i].op /\ stack'[i].own = stack[i].own
  BY <1>1, <1>2, <1>7
<1>12. \A i \in 1..Len(stack') : stack'[i].op = "build" => i > 1
  BY <1>1, <1>2, <1>11 DEF Structure, StackSound
<1>13. ASSUME NEW i \in 1..(Len(stack') - 1)
       PROVE  Linked(stack'[i], stack'[i + 1])
  <2>1. i \in 1..(n - 1) /\ i \in 1..(n - 2) /\ i + 1 \in 1..Len(stack')
    BY <1>1, <1>2
  <2>2. Linked(stack[i], stack[i + 1])
    BY <2>1 DEF Structure, StackSound
  <2>3. /\ stack'[i] = stack[i]
        /\ stack'[i + 1].op = stack[i + 1].op /\ stack'[i + 1].own = stack[i + 1].own
    BY <1>2, <1>11, <2>1
  <2>4. QED BY <2>2, <2>3 DEF Linked
<1>14. StackSound'
  BY <1>3, <1>10, <1>12, <1>13 DEF StackSound
<1>15. classes' \in [AllTypes -> Ctors \cup {None}]
  BY <1>1, <1>3 DEF Structure, TypeOK
<1>16. QED BY <1>2, <1>3, <1>4, <1>5, <1>6, <1>14, <1>15 DEF Structure, TypeOK, registry

LEMMA StepPushNativeObject ==
  ASSUME Structure, NEW o \in Objs, PushNativeObject(o)
  PROVE  Structure' /\ DefsKept /\ CtorsKept
<1> DEFINE r == [def |-> Top.d, ctor |-> Top.c, entered |-> Traced(Top.d)]
<1>1. /\ stack # << >> /\ Top.pc = "class" /\ objs[o] = None
      /\ objs' = [objs EXCEPT ![o] = r] /\ stack' = Caller
      /\ UNCHANGED <<registry, env, classes, ctor>>
  BY DEF PushNativeObject, At
<1>2. Top \in Frame /\ FrameSound(Top, def, ctor)
  BY <1>1, TopSound
<1>3. /\ Top.d \in AllDefs /\ Top.c \in Ctors
      /\ Top.d # PtrDef => Top.d \in Defs /\ def[Top.d] # None /\ def[Top.d] \in Definition
  BY <1>1, <1>2 DEF FrameSound, Frame, AllDefs, Structure, TypeOK
<1>4. Traced(Top.d) \in BOOLEAN
  BY <1>3 DEF Traced, Definition
<1>5. r \in Wrapper /\ r.def = Top.d
  BY <1>3, <1>4 DEF Wrapper
<1>6. r # None
  BY <1>5, NoneAssumption
<1> HIDE DEF r
<1>7. objs' \in [Objs -> Wrapper \cup {None}]
  BY <1>1, <1>5 DEF Structure, TypeOK
<1>8. objs'[o] = r /\ \A q \in Objs : q # o => objs'[q] = objs[q]
  BY <1>1 DEF Structure, TypeOK
<1>9. DefsKept /\ CtorsKept /\ RegistrySound'
  BY <1>1 DEF DefsKept, CtorsKept, Structure, RegistrySound, registry
<1>10. UsersSound'
  BY <1>1, <1>3, <1>5, <1>8 DEF Structure, UsersSound, registry
<1>11. StackSound' /\ stack' \in Seq(Frame)
  BY <1>1, <1>9, StackReturns DEF Structure
<1>12. exited' \in [Objs -> BOOLEAN]
  BY DEF PushNativeObject, Structure, TypeOK
<1>13. QED BY <1>1, <1>7, <1>9, <1>10, <1>11, <1>12 DEF Structure, TypeOK, registry

LEMMA StepFreeObject ==
  ASSUME Structure, NEW o \in Objs, FreeObject(o)
  PROVE  Structure' /\ DefsKept /\ CtorsKept
<1>1. objs' = [objs EXCEPT ![o] = None] /\ UNCHANGED <<registry, env, classes, ctor, stack>>
  BY DEF FreeObject
<1>2. DefsKept /\ CtorsKept /\ RegistrySound' /\ UsersSound'
  BY <1>1 DEF DefsKept, CtorsKept, Structure, RegistrySound, UsersSound, TypeOK, registry
<1>3. StackSound' /\ stack' \in Seq(Frame)
  BY <1>1, <1>2, StackSame DEF Structure
<1>4. Traced(objs[o].def) \in BOOLEAN
  BY DEF Traced
<1>5. exited' \in [Objs -> BOOLEAN]
  BY <1>4 DEF FreeObject, Structure, TypeOK
<1>6. QED BY <1>1, <1>2, <1>3, <1>5 DEF Structure, TypeOK, registry

\* There are no calls in progress: constructors go, but no stack refers to them.
LEMMA StepDestroyEnv ==
  ASSUME Structure, DestroyEnv
  PROVE  Structure' /\ DefsKept
<1>1. /\ stack = << >> /\ UNCHANGED <<registry, stack>> /\ env' = FALSE
      /\ objs' = [o \in Objs |-> None]
      /\ ctor' = [k \in Ctors |-> IF \E T \in AllTypes : classes[T] = k THEN None ELSE ctor[k]]
      /\ classes' = [T \in AllTypes |-> None]
  BY DEF DestroyEnv
<1>2. DefsKept /\ RegistrySound'
  BY <1>1 DEF DefsKept, Structure, RegistrySound, registry
<1>3. UsersSound'
  BY <1>1 DEF Structure, UsersSound, registry
<1>4. Len(stack') = 0
  BY <1>1
<1>5. StackSound'
  BY <1>4 DEF StackSound
<1>6. ctor' \in [Ctors -> Constructor \cup {None}]
  BY <1>1 DEF Structure, TypeOK
<1>7. objs' \in [Objs -> Wrapper \cup {None}] /\ classes' \in [AllTypes -> Ctors \cup {None}]
  BY <1>1
<1>8. exited' \in [Objs -> BOOLEAN]
  <2>1. \A o \in Objs : Traced(Registered(TypeIdOf(objs[o].def))) \in BOOLEAN
    BY DEF Traced
  <2>2. QED BY <2>1 DEF DestroyEnv, Structure, TypeOK
<1>9. QED BY <1>1, <1>2, <1>3, <1>5, <1>6, <1>7, <1>8 DEF Structure, TypeOK, registry

LEMMA StepSame ==
  ASSUME Structure, UNCHANGED <<def, freed, byId, byName, classes, ctor, objs, exited, stack>>,
         notFound' \in BOOLEAN, env' \in BOOLEAN
  PROVE  Structure' /\ DefsKept /\ CtorsKept
<1>1. DefsKept /\ CtorsKept /\ RegistrySound' /\ UsersSound'
  BY RestSame
<1>2. StackSound' /\ stack' \in Seq(Frame)
  BY <1>1, StackSame DEF Structure
<1>3. QED BY <1>1, <1>2 DEF Structure, TypeOK

LEMMA InitStructure == Init => Structure
<1> SUFFICES ASSUME Init PROVE Structure
  OBVIOUS
<1>1. Len(stack) = 0 /\ stack \in Seq(Frame)
  BY DEF Init
<1>2. TypeOK
  BY <1>1 DEF Init, TypeOK
<1>3. RegistrySound /\ UsersSound
  BY DEF Init, RegistrySound, UsersSound
<1>4. StackSound
  BY <1>1 DEF StackSound
<1>5. QED BY <1>2, <1>3, <1>4 DEF Structure

\* The actions a step of the specification can be.
LEMMA Steps ==
  ASSUME Structure, [Next]_vars
  PROVE  \/ \E d \in Defs, T \in TypeIds, S \in TypeIds \cup {None}, N \in Names :
              RegisterClass(d, T, S, N)
         \/ \E T \in TypeIds, on \in BOOLEAN : TraceObjectLifecycle(T, on)
         \/ \E op \in {"data", "create", "push"}, T \in TypeIds : Call(op, T)
         \/ \E yes \in BOOLEAN : CallbackReturns(yes)
         \/ Load \/ FindClass \/ CompleteClass
         \/ NoClass \/ ReturnClass
         \/ \E k \in Ctors : CreateClass(k)
         \/ \E o \in Objs : PushNativeObject(o)
         \/ \E o \in Objs : FreeObject(o)
         \/ DestroyEnv
         \/ CreateEnv \/ (\E set \in BOOLEAN : OnClassNotFound(set)) \/ UNCHANGED vars
<1>1. \A d \in Fresh(def) : d \in Defs
  BY DEF Fresh, Structure, TypeOK
<1>2. \A k \in Fresh(ctor) : k \in Ctors
  BY DEF Fresh, Structure, TypeOK
<1>3. QED BY <1>1, <1>2 DEF Next, Client, Answers, Engine

\* What a step comes to, for the invariants below.
LEMMA NextStructure == Structure /\ [Next]_vars => Structure' /\ DefsKept
<1> SUFFICES ASSUME Structure, [Next]_vars PROVE Structure' /\ DefsKept
  OBVIOUS
<1>1. CASE \E d \in Defs, T \in TypeIds, S \in TypeIds \cup {None}, N \in Names :
             RegisterClass(d, T, S, N)
  BY <1>1, StepRegisterClass
<1>2. CASE \E T \in TypeIds, on \in BOOLEAN : TraceObjectLifecycle(T, on)
  BY <1>2, StepTrace
<1>3. CASE \E op \in {"data", "create", "push"}, T \in TypeIds : Call(op, T)
  BY <1>3, StepCall
<1>4. CASE \E yes \in BOOLEAN : CallbackReturns(yes)
  BY <1>4, StepCallbackReturns
<1>5. CASE Load
  BY <1>5, StepLoad
<1>6. CASE FindClass
  BY <1>6, StepFindClass
<1>7. CASE CompleteClass
  BY <1>7, StepCompleteClass
<1>8. CASE NoClass \/ ReturnClass
  BY <1>8, StepTop DEF NoClass, ReturnClass, At
<1>9. CASE \E k \in Ctors : CreateClass(k)
  BY <1>9, StepCreateClass
<1>10. CASE \E o \in Objs : PushNativeObject(o)
  BY <1>10, StepPushNativeObject
<1>11. CASE \E o \in Objs : FreeObject(o)
  BY <1>11, StepFreeObject
<1>12. CASE DestroyEnv
  BY <1>12, StepDestroyEnv
<1>13. CASE CreateEnv \/ (\E set \in BOOLEAN : OnClassNotFound(set)) \/ UNCHANGED vars
  <2>1. notFound \in BOOLEAN /\ env \in BOOLEAN
    BY DEF Structure, TypeOK
  <2>2. QED BY <1>13, <2>1, StepSame DEF CreateEnv, OnClassNotFound, vars, registry
<1>14. QED
  BY <1>1, <1>2, <1>3, <1>4, <1>5, <1>6, <1>7, <1>8, <1>9, <1>10, <1>11, <1>12, <1>13, Steps

LEMMA StructureHolds == Spec => []Structure
BY InitStructure, NextStructure, PTL DEF Spec

\* Whatever the client registers and whenever, every variable keeps its type: a
\* constructor entered in the map exists, a class is completed for the call that
\* asked for it, and no step reads a definition that was never registered.
THEOREM TypeCorrect == Spec => []TypeOK
<1>1. Structure => TypeOK
  BY DEF Structure
<1>2. QED BY <1>1, StructureHolds, PTL

-----------------------------------------------------------------------------
(* Names. *)

\* With `named', a name leads to a definition that exists and has that name.
THEOREM NamesStayAlive ==
  ASSUME "named" \in Contract
  PROVE  Spec => []NamesAlive
<1>1. Init => NamesAlive
  BY DEF Init, NamesAlive
<1>2. ASSUME Structure, NamesAlive, [Next]_vars PROVE NamesAlive'
  <2>1. DefsKept
    BY <1>2, NextStructure
  <2>2. CASE UNCHANGED <<byName, freed>>
    BY <1>2, <2>1, <2>2 DEF NamesAlive, Structure, RegistrySound, TypeOK, DefsKept
  <2>3. ASSUME NEW d \in Defs, NEW T \in TypeIds, NEW S \in TypeIds \cup {None}, NEW N \in Names,
               RegisterClass(d, T, S, N)
        PROVE  NamesAlive'
    <3>1. /\ def[d] = None /\ byName' = [byName EXCEPT ![N] = d]
          /\ freed' = freed \cup ({byId[T]} \ {None})
          /\ def'[d].ScriptName = N
          /\ byId[T] # None => def[byId[T]].ScriptName = N
      BY <1>2, <2>3 DEF RegisterClass, Enters, Allowed, Structure, TypeOK
    <3>2. d \notin freed /\ d # byId[T]
      BY <1>2, <3>1, RegisterAssumption DEF Structure, RegistrySound, TypeOK
    <3>3. byName'[N] = d /\ \A M \in Names : M # N => byName'[M] = byName[M]
      BY <1>2, <3>1 DEF Structure, TypeOK
    <3>4. ASSUME NEW M \in Names, M # N, byName[M] # None
          PROVE  byName[M] \notin freed' /\ def'[byName[M]].ScriptName = M
      <4>1. byName[M] \in Defs /\ byName[M] \notin freed /\ def[byName[M]].ScriptName = M
            /\ def[byName[M]] # None
        BY <1>2, <3>4 DEF NamesAlive, Structure, RegistrySound, TypeOK
      <4>2. def'[byName[M]].ScriptName = M
        BY <2>1, <4>1 DEF DefsKept
      <4>3. QED BY <3>1, <3>4, <4>1, <4>2
    <3>5. QED BY <3>1, <3>2, <3>3, <3>4 DEF NamesAlive
  <2>4. QED
    BY <1>2, <2>2, <2>3, Steps
       DEF TraceObjectLifecycle, Call, CallbackReturns, Load, FindClass, CompleteClass, NoClass,
           ReturnClass, CreateClass, PushNativeObject, FreeObject, DestroyEnv, CreateEnv,
           OnClassNotFound, vars, registry
<1>3. QED BY <1>1, <1>2, StructureHolds, PTL DEF Spec

-----------------------------------------------------------------------------
(* Definitions. *)

\* A definition in use is the one its type id is registered under; none of those is
\* freed.
Current ==
  /\ \A d \in Defs : UsedBy(d) => byId[def[d].TypeId] = d
  /\ \A T \in TypeIds : byId[T] \notin freed

LEMMA UsedIsMade ==
  ASSUME Structure, NEW d \in Defs, UsedBy(d)
  PROVE  def[d] # None /\ def[d] \in Definition /\ def[d].TypeId \in TypeIds
<1>1. \A i \in 1..Len(stack) : stack[i].own \in Defs => stack[i].op = "build"
  BY RegisterAssumption DEF Structure, StackSound, FrameSound
<1>2. def[d] # None
  BY <1>1, RegisterAssumption DEF UsedBy, Structure, UsersSound, StackSound, FrameSound
<1>3. QED BY <1>2 DEF Structure, TypeOK, Definition

\* While the registry stays, what is used anew was found in it.
LEMMA UseKept ==
  ASSUME Structure, Current, DefsKept, UNCHANGED <<byId, freed>>,
         \A e \in Defs : UsedBy(e)' => UsedBy(e) \/ \E T \in TypeIds : e = byId[T]
  PROVE  Current'
<1>1. SUFFICES ASSUME NEW d \in Defs, UsedBy(d)' PROVE byId[def'[d].TypeId] = d
  BY DEF Current
<1>2. CASE UsedBy(d)
  BY <1>2, UsedIsMade DEF Current, DefsKept
<1>3. CASE \E T \in TypeIds : d = byId[T]
  BY <1>3, RegisterAssumption DEF Structure, RegistrySound, DefsKept
<1>4. QED BY <1>1, <1>2, <1>3

\* ... or it is what a call holds already.
LEMMA TopUsed ==
  ASSUME Structure, stack # << >>
  PROVE  \A e \in Defs : e = Top.d \/ e = Top.own => UsedBy(e)
BY TopSound DEF UsedBy

LEMMA BecomesUses ==
  ASSUME Structure, stack # << >>, UNCHANGED <<ctor, objs>>,
         \/ stack' = Caller
         \/ \E f \in Frame : /\ stack' = Becomes(f) /\ f.own = Top.own
                             /\ f.d \in {Top.d, PtrDef, None} \cup {byId[T] : T \in TypeIds}
  PROVE  \A e \in Defs : UsedBy(e)' => UsedBy(e) \/ \E T \in TypeIds : e = byId[T]
<1>1. SUFFICES ASSUME NEW e \in Defs, NEW i \in 1..Len(stack'), e \in {stack'[i].d, stack'[i].own}
               PROVE  UsedBy(e) \/ \E T \in TypeIds : e = byId[T]
  BY DEF UsedBy
<1>2. stack \in Seq(Frame) /\ Len(stack) \in Nat \ {0}
  BY TopSound DEF Structure, TypeOK
<1>3. CASE stack' = Caller
  BY <1>1, <1>2, <1>3, Popped DEF UsedBy, Caller
<1>4. ASSUME NEW f \in Frame, stack' = Becomes(f), f.own = Top.own,
             f.d \in {Top.d, PtrDef, None} \cup {byId[T] : T \in TypeIds}
      PROVE  UsedBy(e) \/ \E T \in TypeIds : e = byId[T]
  <2>1. Len(stack') = Len(stack) /\ stack'[Len(stack)] = f
        /\ \A j \in 1..Len(stack) : j # Len(stack) => stack'[j] = stack[j]
    BY <1>2, <1>4, Replaced DEF Becomes
  <2>2. CASE i = Len(stack)
    BY <1>1, <1>4, <2>1, <2>2, TopUsed, RegisterAssumption
  <2>3. CASE i # Len(stack)
    BY <1>1, <2>1, <2>3 DEF UsedBy
  <2>4. QED BY <2>2, <2>3
<1>5. QED BY <1>3, <1>4

LEMMA RegisterKeepsCurrent ==
  ASSUME "idle" \in Contract, Structure, Current,
         NEW d \in Defs, NEW T \in TypeIds, NEW S \in TypeIds \cup {None}, NEW N \in Names,
         RegisterClass(d, T, S, N)
  PROVE  Current'
<1>1. /\ def[d] = None /\ byId' = [byId EXCEPT ![T] = d]
      /\ freed' = freed \cup ({byId[T]} \ {None})
      /\ byId[T] # None => ~UsedBy(byId[T])
      /\ UNCHANGED <<ctor, objs, stack>>
  BY DEF RegisterClass, Enters, Allowed
<1>2. byId'[T] = d /\ \A U \in TypeIds : U # T => byId'[U] = byId[U]
  BY <1>1 DEF Structure, TypeOK
<1>3. d \notin freed /\ d # byId[T]
  BY <1>1, RegisterAssumption DEF Structure, RegistrySound, TypeOK
<1>4. \A U \in TypeIds : byId'[U] \notin freed'
  <2>1. SUFFICES ASSUME NEW U \in TypeIds, U # T PROVE byId[U] \notin freed'
    BY <1>1, <1>2, <1>3
  <2>2. byId[U] \notin freed
    BY DEF Current
  <2>3. byId[U] # None => byId[U] # byId[T]
    BY <2>1 DEF Structure, RegistrySound
  <2>4. QED BY <1>1, <2>2, <2>3
<1>5. ASSUME NEW e \in Defs, UsedBy(e)' PROVE byId'[def'[e].TypeId] = e
  <2>1. UsedBy(e)
    BY <1>1, <1>5 DEF UsedBy
  <2>2. def[e] # None /\ def[e].TypeId \in TypeIds /\ byId[def[e].TypeId] = e
    BY <2>1, UsedIsMade DEF Current
  <2>3. def[e].TypeId # T
    BY <1>1, <2>1, <2>2, RegisterAssumption
  <2>4. def'[e].TypeId = def[e].TypeId
    BY <2>2, StepRegisterClass DEF DefsKept
  <2>5. QED BY <1>2, <2>2, <2>3, <2>4
<1>6. QED BY <1>4, <1>5 DEF Current

LEMMA CreateUses ==
  ASSUME Structure, NEW k \in Ctors, CreateClass(k)
  PROVE  \A e \in Defs : UsedBy(e)' => UsedBy(e)
<1>1. NeedsClass /\ UNCHANGED objs
  BY DEF CreateClass, registry
<1>2. /\ stack # << >> /\ Top \in Frame /\ Wanted \in {Top.d, PtrDef}
      /\ SuperOf(Wanted) # None => Wanted = Top.d /\ Wanted \in Defs
  BY <1>1, WantedIs DEF SuperOf
<1>3. /\ \A j \in Ctors : j # k => ctor'[j] = ctor[j]
      /\ ctor'[k].def = Wanted
  BY ConstructorMade
<1>4. stack \in Seq(Frame) /\ Len(stack) \in Nat \ {0} /\ Top = stack[Len(stack)]
  BY <1>2, TopSound DEF Structure, TypeOK
<1>5. \A i \in 1..Len(stack') : {stack'[i].d, stack'[i].own} \cap Defs \subseteq
        {Top.d} \cup UNION {{stack[j].d, stack[j].own} : j \in 1..Len(stack)}
  <2>1. CASE SuperOf(Wanted) = None
    <3>1. stack' = WithClass(k)
      BY <2>1 DEF CreateClass
    <3>2. PICK f \in Frame : f.own = Top.own /\ f.d = Wanted /\ stack' = Becomes(f)
      BY <1>1, <3>1, ClassFrame
    <3>3. Len(stack') = Len(stack) /\ stack'[Len(stack)] = f
          /\ \A j \in 1..Len(stack) : j # Len(stack) => stack'[j] = stack[j]
      BY <1>2, <1>4, <3>2, Replaced DEF Becomes
    <3>4. QED BY <1>2, <1>4, <3>2, <3>3, RegisterAssumption
  <2>2. CASE SuperOf(Wanted) # None
    <3> DEFINE f == [Top EXCEPT !.d = Wanted]
               g == [op |-> "build", T |-> SuperOf(Wanted), pc |-> "load",
                     d |-> None, c |-> None, own |-> Wanted, k |-> k]
    <3>1. stack' = Append(Becomes(f), g)
      BY <2>2 DEF CreateClass
    <3>2. f = Top
      BY <1>2, <2>2 DEF Frame
    <3>3. SuperOf(Wanted) \in TypeIds \cup {None}
      BY <1>1, WantedIs
    <3>4. g \in Frame /\ g.d = None /\ g.own = Top.d
      BY <1>2, <2>2, <3>3 DEF Frame
    <3> HIDE DEF g
    <3>5. Becomes(f) \in Seq(Frame) /\ Len(Becomes(f)) = Len(stack)
          /\ \A j \in 1..Len(stack) : Becomes(f)[j] = stack[j]
      BY <1>2, <1>4, <3>2, Replaced DEF Becomes
    <3> HIDE DEF f
    <3>6. /\ Len(stack') = Len(stack) + 1 /\ stack'[Len(stack) + 1] = g
          /\ \A j \in 1..Len(stack) : stack'[j] = stack[j]
      BY <3>1, <3>4, <3>5, Pushed
    <3>7. QED BY <1>4, <3>4, <3>6, RegisterAssumption
  <2>3. QED BY <2>1, <2>2
<1>6. SUFFICES ASSUME NEW e \in Defs, UsedBy(e)' PROVE UsedBy(e)
  OBVIOUS
<1>7. CASE \E j \in Ctors : ctor'[j] # None /\ ctor'[j].def = e
  BY <1>2, <1>3, <1>7, TopUsed, RegisterAssumption DEF UsedBy
<1>8. CASE \E o \in Objs : objs'[o] # None /\ objs'[o].def = e
  BY <1>1, <1>8 DEF UsedBy
<1>9. CASE \E i \in 1..Len(stack') : e \in {stack'[i].d, stack'[i].own}
  <2>1. e \in {Top.d} \cup UNION {{stack[j].d, stack[j].own} : j \in 1..Len(stack)}
    BY <1>5, <1>9
  <2>2. QED BY <1>2, <2>1, TopUsed DEF UsedBy
<1>10. QED BY <1>6, <1>7, <1>8, <1>9 DEF UsedBy

LEMMA CompleteUses ==
  ASSUME Structure, CompleteClass
  PROVE  \A e \in Defs : UsedBy(e)' => UsedBy(e)
<1> DEFINE n == Len(stack)
<1>1. n \in Nat /\ n > 1 /\ stack[n - 1] \in Frame /\ Top.k \in Ctors /\ ctor[Top.k] # None
      /\ ctor[Top.k].def = Top.own
  BY Builder
<1>2. /\ ctor'[Top.k].def = Top.own
      /\ \A j \in Ctors : j # Top.k => ctor'[j] = ctor[j]
      /\ Len(stack') = n - 1
      /\ \A i \in 1..(n - 2) : stack'[i] = stack[i]
      /\ stack'[n - 1] = [stack[n - 1] EXCEPT !.pc = "class", !.c = Top.k]
  BY Completed
<1>3. UNCHANGED objs
  BY DEF CompleteClass, registry
<1>4. \A i \in 1..Len(stack') : stack'[i].d = stack[i].d /\ stack'[i].own = stack[i].own
  <2> DEFINE f == [stack[n - 1] EXCEPT !.pc = "class", !.c = Top.k]
  <2>1. f.d = stack[n - 1].d /\ f.own = stack[n - 1].own
    BY <1>1 DEF Frame
  <2> HIDE DEF f
  <2>2. stack'[n - 1] = f
    BY <1>2 DEF f
  <2>3. QED BY <1>1, <1>2, <2>1, <2>2
<1>5. SUFFICES ASSUME NEW e \in Defs, UsedBy(e)' PROVE UsedBy(e)
  OBVIOUS
<1>6. CASE \E j \in Ctors : ctor'[j] # None /\ ctor'[j].def = e
  BY <1>1, <1>2, <1>6 DEF UsedBy
<1>7. CASE \E o \in Objs : objs'[o] # None /\ objs'[o].def = e
  BY <1>3, <1>7 DEF UsedBy
<1>8. CASE \E i \in 1..Len(stack') : e \in {stack'[i].d, stack'[i].own}
  BY <1>1, <1>2, <1>4, <1>8 DEF UsedBy
<1>9. QED BY <1>5, <1>6, <1>7, <1>8 DEF UsedBy

LEMMA PushUses ==
  ASSUME Structure, NEW o \in Objs, PushNativeObject(o)
  PROVE  \A e \in Defs : UsedBy(e)' => UsedBy(e)
<1>1. /\ stack # << >> /\ stack' = Caller /\ UNCHANGED ctor
      /\ objs' = [objs EXCEPT ![o] = [def |-> Top.d, ctor |-> Top.c, entered |-> Traced(Top.d)]]
  BY DEF PushNativeObject, At, registry
<1>2. objs'[o].def = Top.d /\ \A q \in Objs : q # o => objs'[q] = objs[q]
  BY <1>1 DEF Structure, TypeOK
<1>3. Len(stack') = Len(stack) - 1 /\ \A i \in 1..(Len(stack) - 1) : stack'[i] = stack[i]
  BY <1>1, Popped DEF Structure, TypeOK, Caller
<1>4. SUFFICES ASSUME NEW e \in Defs, UsedBy(e)' PROVE UsedBy(e)
  OBVIOUS
<1>5. CASE \E j \in Ctors : ctor'[j] # None /\ ctor'[j].def = e
  BY <1>1, <1>5 DEF UsedBy
<1>6. CASE \E q \in Objs : objs'[q] # None /\ objs'[q].def = e
  BY <1>1, <1>2, <1>6, TopUsed DEF UsedBy
<1>7. CASE \E i \in 1..Len(stack') : e \in {stack'[i].d, stack'[i].own}
  BY <1>1, <1>3, <1>7, TopSound DEF UsedBy
<1>8. QED BY <1>4, <1>5, <1>6, <1>7 DEF UsedBy

LEMMA NextCurrent ==
  ASSUME "idle" \in Contract, Structure, Current, [Next]_vars
  PROVE  Current'
<1>1. CASE \E d \in Defs, T \in TypeIds, S \in TypeIds \cup {None}, N \in Names :
             RegisterClass(d, T, S, N)
  BY <1>1, RegisterKeepsCurrent
<1>2. ASSUME UNCHANGED <<byId, freed>>,
             \A e \in Defs : UsedBy(e)' => UsedBy(e) \/ \E T \in TypeIds : e = byId[T]
      PROVE  Current'
  BY <1>2, UseKept, NextStructure
<1>3. CASE \E T \in TypeIds, on \in BOOLEAN : TraceObjectLifecycle(T, on)
  <2>1. UNCHANGED <<byId, freed, ctor, objs, stack>>
    BY <1>3 DEF TraceObjectLifecycle
  <2>2. \A e \in Defs : UsedBy(e)' => UsedBy(e)
    BY <2>1 DEF UsedBy
  <2>3. QED BY <1>2, <2>1, <2>2
<1>4. ASSUME NEW op \in {"data", "create", "push"}, NEW T \in TypeIds, Call(op, T)
      PROVE  Current'
  <2> DEFINE f == [op |-> op, T |-> T, pc |-> "load",
                   d |-> None, c |-> None, own |-> None, k |-> None]
  <2>1. UNCHANGED <<byId, freed, ctor, objs>> /\ stack' = Append(stack, f)
        /\ f \in Frame /\ f.d = None /\ f.own = None
    BY <1>4 DEF Call, registry, Frame
  <2> HIDE DEF f
  <2>2. /\ Len(stack') = Len(stack) + 1 /\ stack'[Len(stack) + 1] = f
        /\ \A i \in 1..Len(stack) : stack'[i] = stack[i]
    BY <2>1, Pushed DEF Structure, TypeOK
  <2>3. Len(stack) \in Nat
    BY DEF Structure, TypeOK
  <2>4. \A e \in Defs : UsedBy(e)' => UsedBy(e)
    BY <2>1, <2>2, <2>3, RegisterAssumption DEF UsedBy
  <2>5. QED BY <1>2, <2>1, <2>4
<1>5. CASE (\E yes \in BOOLEAN : CallbackReturns(yes)) \/ Load
  <2>1. stack # << >> /\ Top \in Frame /\ Top.T \in TypeIds
        /\ UNCHANGED <<byId, freed, ctor, objs>>
    BY <1>5, TopSound DEF CallbackReturns, Load, At, registry, Frame
  <2>2. \E d \in {None, byId[Top.T]}, pc \in {"asking", "found"} :
          \/ stack' = Becomes([Top EXCEPT !.pc = "found", !.d = d])
          \/ stack' = Becomes([Top EXCEPT !.pc = "asking"])
    BY <1>5 DEF CallbackReturns, Load
  <2>3. byId[Top.T] \in AllDefs \cup {None}
    BY <2>1 DEF Structure, TypeOK, AllDefs
  <2>4. PICK f \in Frame : /\ stack' = Becomes(f) /\ f.own = Top.own
                           /\ f.d \in {Top.d, None, byId[Top.T]}
    <3>1. \A d \in {None, byId[Top.T]} :
            LET f == [Top EXCEPT !.pc = "found", !.d = d]
            IN f \in Frame /\ f.own = Top.own /\ f.d = d
      BY <2>1, <2>3 DEF Frame
    <3>2. LET f == [Top EXCEPT !.pc = "asking"]
          IN f \in Frame /\ f.own = Top.own /\ f.d = Top.d
      BY <2>1 DEF Frame
    <3>3. QED BY <2>2, <3>1, <3>2
  <2>5. QED BY <1>2, <2>1, <2>4, BecomesUses
<1>6. CASE FindClass
  <2>1. NeedsClass /\ classes[TypeIdOf(Wanted)] \in Ctors
        /\ stack' = WithClass(classes[TypeIdOf(Wanted)]) /\ UNCHANGED <<byId, freed, ctor, objs>>
    BY <1>6, WantedIs DEF FindClass, Structure, TypeOK, registry
  <2>2. PICK f \in Frame : stack' = Becomes(f) /\ f.own = Top.own /\ f.d = Wanted
    BY <2>1, ClassFrame
  <2>3. stack # << >> /\ Wanted \in {Top.d, PtrDef}
    BY <2>1, WantedIs
  <2>4. QED BY <1>2, <2>1, <2>2, <2>3, BecomesUses
<1>7. CASE CompleteClass
  BY <1>2, <1>7, CompleteUses DEF CompleteClass, registry
<1>8. CASE NoClass \/ ReturnClass
  BY <1>2, <1>8, BecomesUses DEF NoClass, ReturnClass, At, registry
<1>9. CASE \E k \in Ctors : CreateClass(k)
  BY <1>2, <1>9, CreateUses DEF CreateClass, registry
<1>10. CASE \E o \in Objs : PushNativeObject(o)
  BY <1>2, <1>10, PushUses DEF PushNativeObject, registry
<1>11. CASE \E o \in Objs : FreeObject(o)
  <2>1. UNCHANGED <<byId, freed, ctor, stack>> /\ \A q \in Objs : objs'[q] # None => objs'[q] = objs[q]
    BY <1>11 DEF FreeObject, registry, Structure, TypeOK
  <2>2. \A e \in Defs : UsedBy(e)' => UsedBy(e)
    BY <2>1 DEF UsedBy
  <2>3. QED BY <1>2, <2>1, <2>2
<1>12. CASE DestroyEnv
  <2>1. UNCHANGED <<byId, freed, stack>> /\ (\A q \in Objs : objs'[q] = None)
        /\ \A k \in Ctors : ctor'[k] # None => ctor'[k] = ctor[k]
    BY <1>12 DEF DestroyEnv, registry
  <2>2. \A e \in Defs : UsedBy(e)' => UsedBy(e)
    BY <2>1 DEF UsedBy
  <2>3. QED BY <1>2, <2>1, <2>2
<1>13. CASE CreateEnv \/ (\E set \in BOOLEAN : OnClassNotFound(set)) \/ UNCHANGED vars
  <2>1. UNCHANGED <<byId, freed, ctor, objs, stack>>
    BY <1>13 DEF CreateEnv, OnClassNotFound, vars, registry
  <2>2. \A e \in Defs : UsedBy(e)' => UsedBy(e)
    BY <2>1 DEF UsedBy
  <2>3. QED BY <1>2, <2>1, <2>2
<1>14. QED
  BY <1>1, <1>3, <1>4, <1>5, <1>6, <1>7, <1>8, <1>9, <1>10, <1>11, <1>12, <1>13, Steps

LEMMA CurrentHolds ==
  ASSUME "idle" \in Contract
  PROVE  Spec => [](Structure /\ Current)
<1>1. Init => Current
  BY DEF Init, Current, UsedBy
<1>2. Structure /\ Current /\ [Next]_vars => (Structure /\ Current)'
  BY NextStructure, NextCurrent
<1>3. QED BY <1>1, <1>2, InitStructure, PTL DEF Spec

\* With `idle', nothing points to a freed definition: what an object, a constructor or
\* a call in progress uses is what its type id is registered under, and that is never
\* the one a registration frees, not even one made in the not-found callback.
THEOREM DefinitionsStayAlive ==
  ASSUME "idle" \in Contract
  PROVE  Spec => []DefinitionsAlive
<1>1. ASSUME Structure, Current PROVE DefinitionsAlive
  <2>1. SUFFICES ASSUME NEW d \in freed, d \in Pointers PROVE FALSE
    BY DEF DefinitionsAlive
  <2>2. d \in Defs
    BY <1>1 DEF Structure, TypeOK
  <2>3. UsedBy(d) \/ \E T \in TypeIds : d = byId[T]
    BY <2>1 DEF Pointers, UsedBy
  <2>4. CASE UsedBy(d)
    BY <1>1, <2>1, <2>2, <2>4, UsedIsMade DEF Current
  <2>5. QED BY <1>1, <2>1, <2>3, <2>4 DEF Current
<1>2. QED BY <1>1, CurrentHolds, PTL

-----------------------------------------------------------------------------
(* OnEnter and OnExit. *)

\* What ExitMatchesEnter says of the end of an object, said while it lives.
Entered == \A o \in Objs : objs[o] # None => (objs[o].entered <=> Traced(objs[o].def))

LEMMA RegisteredIsMadeWith ==
  ASSUME Structure, Current, NEW o \in Objs, objs[o] # None
  PROVE  Registered(TypeIdOf(objs[o].def)) = objs[o].def
<1>1. objs[o].def \in AllDefs
  BY DEF Structure, TypeOK, Wrapper
<1>2. CASE objs[o].def = PtrDef
  BY <1>2, RegisterAssumption DEF TypeIdOf, Registered
<1>3. CASE objs[o].def # PtrDef
  <2>1. objs[o].def \in Defs /\ def[objs[o].def] # None /\ UsedBy(objs[o].def)
    BY <1>1, <1>3 DEF AllDefs, Structure, UsersSound, UsedBy
  <2>2. def[objs[o].def].TypeId \in TypeIds
    BY <2>1 DEF Structure, TypeOK, Definition
  <2>3. byId[def[objs[o].def].TypeId] = objs[o].def /\ objs[o].def # None
    BY <2>1, RegisterAssumption DEF Current
  <2>4. QED BY <1>3, <2>2, <2>3 DEF TypeIdOf, Registered
<1>4. QED BY <1>2, <1>3

\* With `early' and `idle', OnExit is called for an object if and only if OnEnter was:
\* what Cleanup finds registered for an object's type id is the definition the object
\* was made with.
THEOREM HooksMatch ==
  ASSUME "early" \in Contract, "idle" \in Contract
  PROVE  Spec => ExitMatchesEnter
<1>1. Init => Entered
  BY DEF Init, Entered
<1>2. ASSUME Structure, Entered, [Next]_vars PROVE Entered'
  <2>1. \A o \in Objs : objs[o] # None =>
          /\ objs[o].def \in AllDefs
          /\ objs[o].def # PtrDef => objs[o].def \in Defs /\ def[objs[o].def] # None
    BY <1>2 DEF Structure, TypeOK, Wrapper, UsersSound, AllDefs
  <2>2. CASE UNCHANGED def /\ \A o \in Objs : objs'[o] # None => objs'[o] = objs[o]
    BY <1>2, <2>2 DEF Entered, Traced
  <2>3. ASSUME NEW d \in Defs, NEW T \in TypeIds, NEW S \in TypeIds \cup {None}, NEW N \in Names,
               RegisterClass(d, T, S, N)
        PROVE  Entered'
    <3>1. def[d] = None /\ UNCHANGED objs /\ \A e \in Defs : e # d => def'[e] = def[e]
      BY <1>2, <2>3 DEF RegisterClass, Enters, Structure, TypeOK
    <3>2. \A o \in Objs : objs[o] # None => (Traced(objs[o].def)' <=> Traced(objs[o].def))
      BY <2>1, <3>1 DEF Traced
    <3>3. QED BY <1>2, <3>1, <3>2 DEF Entered
  <2>4. ASSUME NEW T \in TypeIds, NEW on \in BOOLEAN, TraceObjectLifecycle(T, on)
        PROVE  Entered'
    <3>1. UNCHANGED objs /\ def' = [def EXCEPT ![byId[T]].traced = on]
          /\ \A o \in Objs : objs[o] # None => objs[o].def # byId[T]
      BY <2>4 DEF TraceObjectLifecycle
    <3>2. \A e \in Defs : e # byId[T] => def'[e] = def[e]
      BY <1>2, <3>1 DEF Structure, TypeOK
    <3>3. \A o \in Objs : objs[o] # None => (Traced(objs[o].def)' <=> Traced(objs[o].def))
      BY <2>1, <3>1, <3>2 DEF Traced
    <3>4. QED BY <1>2, <3>1, <3>3 DEF Entered
  <2>5. ASSUME NEW o \in Objs, PushNativeObject(o) PROVE Entered'
    <3>1. UNCHANGED def
          /\ objs' = [objs EXCEPT ![o] = [def |-> Top.d, ctor |-> Top.c, entered |-> Traced(Top.d)]]
      BY <2>5 DEF PushNativeObject, registry
    <3>2. objs'[o].def = Top.d /\ objs'[o].entered = Traced(Top.d)
          /\ \A q \in Objs : q # o => objs'[q] = objs[q]
      BY <1>2, <3>1 DEF Structure, TypeOK
    <3>3. \A e \in AllDefs : Traced(e)' = Traced(e)
      BY <3>1 DEF Traced
    <3>4. QED BY <1>2, <3>1, <3>2 DEF Entered, Traced
  <2>6. CASE \E o \in Objs : FreeObject(o)
    BY <1>2, <2>2, <2>6 DEF FreeObject, registry, Structure, TypeOK
  <2>7. CASE DestroyEnv
    BY <2>2, <2>7 DEF DestroyEnv, registry
  <2>8. QED
    BY <1>2, <2>2, <2>3, <2>4, <2>5, <2>6, <2>7, Steps
       DEF Call, CallbackReturns, Load, FindClass, CompleteClass, NoClass,
           ReturnClass, CreateClass, CreateEnv, OnClassNotFound, vars, registry
<1>3. ASSUME Structure, Current, Entered, [Next]_vars,
             NEW o \in Objs, objs[o] # None, objs'[o] = None
      PROVE  objs[o].entered <=> exited'[o]
  <2>1. objs[o].def \in AllDefs /\ objs[o].def # PtrDef => objs[o].def \in Defs
    BY <1>3 DEF Structure, TypeOK, Wrapper, AllDefs
  <2>2. objs[o].entered <=> Traced(objs[o].def)
    BY <1>3 DEF Entered
  <2>3. CASE DestroyEnv
    <3>1. exited'[o] = Traced(Registered(TypeIdOf(objs[o].def)))
      BY <1>3, <2>3 DEF DestroyEnv
    <3>2. Registered(TypeIdOf(objs[o].def)) = objs[o].def
      BY <1>3, <2>1, RegisteredIsMadeWith
    <3>3. QED BY <2>2, <3>1, <3>2
  <2>4. ASSUME NEW q \in Objs, FreeObject(q) PROVE objs[o].entered <=> exited'[o]
    <3>1. objs' = [objs EXCEPT ![q] = None] /\ exited' = [exited EXCEPT ![q] = Traced(objs[q].def)]
      BY <2>4 DEF FreeObject
    <3>2. o = q
      BY <1>3, <3>1 DEF Structure, TypeOK
    <3>3. exited'[o] = Traced(objs[o].def)
      BY <1>3, <3>1, <3>2 DEF Structure, TypeOK
    <3>4. QED BY <2>2, <3>3
  <2>5. ASSUME NEW q \in Objs, PushNativeObject(q) PROVE FALSE
    <3>1. objs[q] = None /\ objs' = [objs EXCEPT ![q] = [def |-> Top.d, ctor |-> Top.c,
                                                         entered |-> Traced(Top.d)]]
      BY <2>5 DEF PushNativeObject
    <3>2. o # q
      BY <1>3, <3>1
    <3>3. QED BY <1>3, <3>1, <3>2 DEF Structure, TypeOK
  <2>6. CASE UNCHANGED objs
    BY <1>3, <2>6
  <2>7. QED
    BY <1>3, <2>3, <2>4, <2>5, <2>6, Steps
       DEF RegisterClass, Enters, TraceObjectLifecycle, Call, CallbackReturns, Load, FindClass,
           CompleteClass, NoClass, ReturnClass, CreateClass, CreateEnv, OnClassNotFound, vars,
           registry
<1>4. Structure /\ Current /\ Entered /\ [Next]_vars =>
        [\A o \in Objs :
           objs[o] # None /\ objs'[o] = None => (objs[o].entered <=> exited'[o])]_vars
  BY <1>3
<1>5. QED BY <1>1, <1>2, <1>4, CurrentHolds, PTL DEF Spec, ExitMatchesEnter

-----------------------------------------------------------------------------
(* Constructors: one of each type.                                         *)

\* The super types of what is registered rise in some order.
Acyclic ==
  \E rank \in [TypeIds -> Int] :
    \A T \in TypeIds :
      byId[T] # None /\ def[byId[T]].SuperTypeId # None => rank[T] < rank[def[byId[T]].SuperTypeId]

\* All calls but the first build a super class; no class under construction is in the
\* map yet; a class found for a call is the one in the map.
Chain ==
  /\ \A i \in 2..Len(stack) : stack[i].op = "build"
  /\ \A i \in 1..Len(stack) : stack[i].op = "build" => classes[TypeIdOf(stack[i].own)] = None
  /\ \A i \in 1..Len(stack) : stack[i].pc = "class" => classes[TypeIdOf(stack[i].d)] = stack[i].c

Unique == Acyclic /\ Chain /\ OneConstructor

LEMMA Least ==
  ASSUME NEW S \in SUBSET Nat, S # {}
  PROVE  \E i \in S : \A j \in S : i <= j
<1> DEFINE R == OpToRel(<, Nat)
<1>1. IsWellFoundedOn(R, Nat)
  BY NatLessThanWellFounded
<1>2. \A x, y \in Nat : x < y => <<x, y>> \in R
  BY DEF OpToRel
<1> HIDE DEF R
<1>3. \E x \in S : \A y \in S : ~ (<<y, x>> \in R)
  BY <1>1, WFMin
<1>4. PICK x \in S : \A y \in S : ~ (<<y, x>> \in R)
  BY <1>3
<1>5. \A y \in S : ~(y < x)
  BY <1>2, <1>4
<1>6. QED BY <1>5

\* What rises from each place to the next rises throughout.
LEMMA Rising ==
  ASSUME NEW n \in Nat, NEW v \in [1..n -> Int], \A j \in 2..n : v[j - 1] < v[j]
  PROVE  \A i, j \in 1..n : i < j => v[i] < v[j]
<1> DEFINE Bad == {j \in 1..n : \E i \in 1..n : i < j /\ ~(v[i] < v[j])}
<1>1. SUFFICES ASSUME Bad # {} PROVE FALSE
  OBVIOUS
<1>2. PICK j \in Bad : \A l \in Bad : j <= l
  <2>1. Bad \in SUBSET Nat
    OBVIOUS
  <2> HIDE DEF Bad
  <2>2. QED BY <1>1, <2>1, Least
<1>3. PICK i \in 1..n : i < j /\ ~(v[i] < v[j])
  BY <1>2
<1>4. j \in 2..n /\ j - 1 \in 1..n /\ j - 1 \notin Bad /\ v[j - 1] < v[j]
  BY <1>2, <1>3
<1>5. i < j - 1
  BY <1>3, <1>4
<1>6. v[i] < v[j - 1]
  BY <1>4, <1>5
<1>7. QED BY <1>3, <1>4, <1>6

\* Each class under construction is of the type the call below looks up, and no two
\* calls look up the same type.
LEMMA TypesDiffer ==
  ASSUME Structure, Current, Acyclic, Chain
  PROVE  /\ \A i \in 2..Len(stack) : /\ stack[i].own \in Defs
                                     /\ TypeIdOf(stack[i].own) = stack[i - 1].T
         /\ \A i, j \in 1..Len(stack) : i < j => stack[i].T # stack[j].T
<1> DEFINE n == Len(stack)
<1>1. n \in Nat /\ \A i \in 1..n : stack[i] \in Frame /\ stack[i].T \in TypeIds
  <2>1. n \in Nat /\ \A i \in 1..n : stack[i] \in Frame
    BY DEF Structure, TypeOK
  <2>2. \A f \in Frame : f.T \in TypeIds
    BY DEF Frame
  <2>3. QED BY <2>1, <2>2
<1>2. ASSUME NEW i \in 2..n
      PROVE  LET d == stack[i].own
             IN /\ d \in Defs /\ d = stack[i - 1].d /\ UsedBy(d)
                /\ TypeIdOf(d) = stack[i - 1].T /\ def[d].TypeId = stack[i - 1].T
                /\ def[d].SuperTypeId = stack[i].T
  <2>1. i \in 1..n /\ i - 1 \in 1..(n - 1) /\ i - 1 \in 1..n /\ (i - 1) + 1 = i
    BY <1>1
  <2>2. stack[i].op = "build" /\ FrameSound(stack[i], def, ctor)
        /\ FrameSound(stack[i - 1], def, ctor) /\ Linked(stack[i - 1], stack[i])
    BY <1>1, <2>1 DEF Chain, Structure, StackSound
  <2>3. stack[i].own \in Defs /\ stack[i].own = stack[i - 1].d
        /\ def[stack[i].own].SuperTypeId = stack[i].T
    BY <2>2 DEF FrameSound, Linked
  <2>4. def[stack[i].own].TypeId = stack[i - 1].T
    BY <2>2, <2>3 DEF FrameSound
  <2>5. UsedBy(stack[i].own)
    BY <1>1, <2>1 DEF UsedBy
  <2>6. TypeIdOf(stack[i].own) = stack[i - 1].T
    BY <2>3, <2>4, RegisterAssumption DEF TypeIdOf
  <2>7. QED BY <2>3, <2>4, <2>5, <2>6
<1>3. PICK rank \in [TypeIds -> Int] :
        \A T \in TypeIds :
          byId[T] # None /\ def[byId[T]].SuperTypeId # None => rank[T] < rank[def[byId[T]].SuperTypeId]
  BY DEF Acyclic
<1> DEFINE v == [i \in 1..n |-> rank[stack[i].T]]
<1>4. v \in [1..n -> Int]
  BY <1>1, <1>3
<1>5. ASSUME NEW j \in 2..n PROVE v[j - 1] < v[j]
  <2>1. j \in 1..n /\ j - 1 \in 1..n
    BY <1>1
  <2>2. byId[stack[j - 1].T] = stack[j].own
    BY <1>2, <2>1 DEF Current
  <2>3. stack[j].own # None /\ stack[j].T # None
    BY <1>1, <1>2, <2>1, RegisterAssumption
  <2>4. rank[stack[j - 1].T] < rank[stack[j].T]
    BY <1>1, <1>2, <1>3, <2>1, <2>2, <2>3
  <2>5. QED BY <2>1, <2>4
<1>6. \A i, j \in 1..n : i < j => v[i] < v[j]
  <2> HIDE DEF v
  <2>1. QED BY <1>1, <1>4, <1>5, Rising
<1>7. \A i, j \in 1..n : i < j => rank[stack[i].T] < rank[stack[j].T]
  BY <1>6
<1>8. \A i, j \in 1..n : i < j => stack[i].T # stack[j].T
  BY <1>1, <1>3, <1>7
<1>9. QED BY <1>2, <1>8

\* The type id a definition is registered under never changes.
LEMMA TypeIdKept ==
  ASSUME Structure, DefsKept
  PROVE  \A d \in AllDefs : (d # PtrDef => def[d] # None) =>
           /\ TypeIdOf(d) \in AllTypes
           /\ (IF d = PtrDef THEN PtrType ELSE def'[d].TypeId) = TypeIdOf(d)
BY DEF Structure, TypeOK, DefsKept, TypeIdOf, AllTypes, AllDefs, Definition

\* What constructors and calls point to are definitions that have one.
LEMMA Known ==
  ASSUME Structure
  PROVE  /\ \A k \in Ctors : ctor[k] # None =>
              ctor[k].def \in AllDefs /\ (ctor[k].def # PtrDef => def[ctor[k].def] # None)
         /\ \A i \in 1..Len(stack) : stack[i].op = "build" =>
              stack[i].own \in Defs /\ stack[i].own # PtrDef /\ def[stack[i].own] # None
         /\ \A i \in 1..Len(stack) : stack[i].pc = "class" =>
              stack[i].d \in AllDefs /\ (stack[i].d # PtrDef => def[stack[i].d] # None)
<1>1. \A k \in Ctors : ctor[k] # None =>
        ctor[k].def \in AllDefs /\ (ctor[k].def # PtrDef => def[ctor[k].def] # None)
  BY DEF Structure, TypeOK, Constructor, UsersSound
<1>2. \A i \in 1..Len(stack) : stack[i].op = "build" =>
        stack[i].own \in Defs /\ stack[i].own # PtrDef /\ def[stack[i].own] # None
  BY RegisterAssumption DEF Structure, StackSound, FrameSound
<1>3. \A i \in 1..Len(stack) : stack[i].d \in AllDefs \cup {None}
  <2>1. \A i \in 1..Len(stack) : stack[i] \in Frame
    BY DEF Structure, TypeOK
  <2>2. \A f \in Frame : f.d \in AllDefs \cup {None}
    BY DEF Frame
  <2>3. QED BY <2>1, <2>2
<1>4. \A i \in 1..Len(stack) : stack[i].pc = "class" =>
        stack[i].d \in AllDefs /\ (stack[i].d # PtrDef => def[stack[i].d] # None)
  BY <1>3 DEF Structure, StackSound, FrameSound, AllDefs
<1>5. QED BY <1>1, <1>2, <1>4

\* Only definitions changed.
LEMMA UniqueSame ==
  ASSUME Structure, Chain, OneConstructor, DefsKept, UNCHANGED <<classes, ctor, stack>>
  PROVE  Chain' /\ OneConstructor'
<1>1. \A d \in AllDefs : (d # PtrDef => def[d] # None) =>
        (IF d = PtrDef THEN PtrType ELSE def'[d].TypeId) = TypeIdOf(d)
  BY TypeIdKept
<1>2. Chain'
  <2>1. \A i \in 1..Len(stack) : stack[i].op = "build" => stack[i].own \in AllDefs
    BY Known DEF AllDefs
  <2>2. \A i \in 1..Len(stack) : stack[i].op = "build" =>
          classes[IF stack[i].own = PtrDef THEN PtrType ELSE def'[stack[i].own].TypeId] = None
    BY <1>1, <2>1, Known DEF Chain
  <2>3. \A i \in 1..Len(stack) : stack[i].pc = "class" =>
          classes[IF stack[i].d = PtrDef THEN PtrType ELSE def'[stack[i].d].TypeId] = stack[i].c
    BY <1>1, Known DEF Chain
  <2>4. QED BY <2>2, <2>3 DEF Chain, TypeIdOf
<1>3. OneConstructor'
  <2>1. \A k \in Ctors : ctor[k] # None =>
          \/ Building(k)
          \/ classes[IF ctor[k].def = PtrDef THEN PtrType ELSE def'[ctor[k].def].TypeId] = k
    BY <1>1, Known DEF OneConstructor
  <2>2. QED BY <2>1 DEF OneConstructor, Building, TypeIdOf
<1>4. QED BY <1>2, <1>3

\* The call on top goes on, for the same class.
LEMMA UniqueBecomes ==
  ASSUME Structure, Chain, OneConstructor, stack # << >>, UNCHANGED <<def, classes, ctor>>,
         NEW f \in Frame, f.op = Top.op, f.own = Top.own, f.k = Top.k,
         f.pc = "class" => classes[TypeIdOf(f.d)] = f.c,
         stack' = Becomes(f)
  PROVE  Chain' /\ OneConstructor'
<1> DEFINE n == Len(stack)
<1>1. /\ n \in Nat \ {0} /\ Len(stack') = n /\ stack'[n] = f /\ Top = stack[n]
      /\ \A i \in 1..n : i # n => stack'[i] = stack[i]
  BY TopSound, Replaced DEF Structure, TypeOK, Becomes
<1>2. \A i \in 1..n : stack'[i].op = stack[i].op /\ stack'[i].own = stack[i].own /\ stack'[i].k = stack[i].k
  BY <1>1
<1>3. \A k \in Ctors : Building(k) => Building(k)'
  BY <1>1, <1>2 DEF Building
<1>4. Chain'
  BY <1>1, <1>2 DEF Chain, TypeIdOf
<1>5. OneConstructor'
  BY <1>3 DEF OneConstructor, TypeIdOf
<1>6. QED BY <1>4, <1>5

\* A call that builds nothing is done.
LEMMA UniqueReturns ==
  ASSUME Structure, Chain, OneConstructor, stack # << >>, Top.op # "build",
         UNCHANGED <<def, classes, ctor>>, stack' = Caller
  PROVE  Chain' /\ OneConstructor'
<1> DEFINE n == Len(stack)
<1>1. /\ n \in Nat \ {0} /\ Len(stack') = n - 1 /\ Top = stack[n]
      /\ \A i \in 1..(n - 1) : stack'[i] = stack[i]
  BY TopSound, Popped DEF Structure, TypeOK, Caller
<1>2. \A k \in Ctors : Building(k) => Building(k)'
  <2>1. SUFFICES ASSUME NEW k \in Ctors, NEW i \in 1..n, stack[i].op = "build", stack[i].k = k
                 PROVE  Building(k)'
    BY DEF Building
  <2>2. i # n
    BY <1>1, <2>1
  <2>3. QED BY <1>1, <2>1, <2>2 DEF Building
<1>3. Chain'
  BY <1>1 DEF Chain, TypeIdOf
<1>4. OneConstructor'
  BY <1>2 DEF OneConstructor, TypeIdOf
<1>5. QED BY <1>3, <1>4

LEMMA CreateKeepsUnique ==
  ASSUME Structure, Current, Unique, NEW k \in Ctors, CreateClass(k)
  PROVE  Chain' /\ OneConstructor'
<1> DEFINE n == Len(stack)
           w == Wanted
           U == TypeIdOf(w)
<1>1. NeedsClass /\ classes[U] = None /\ UNCHANGED <<def, byId, freed>>
  BY DEF CreateClass, registry
<1>2. /\ stack # << >> /\ Top \in Frame /\ w \in AllDefs /\ U \in AllTypes
      /\ w # PtrDef => w \in Defs /\ w = Top.d /\ U = Top.T /\ Top.T \in TypeIds
      /\ SuperOf(w) \in TypeIds \cup {None} /\ Top.pc = "found"
  BY <1>1, WantedIs
<1>3. /\ ctor[k] = None /\ ctor'[k] # None /\ ctor'[k].def = w
      /\ \A j \in Ctors : j # k => ctor'[j] = ctor[j]
  BY ConstructorMade
<1>4. n \in Nat \ {0} /\ stack \in Seq(Frame) /\ Top = stack[n]
  BY <1>2, TopSound DEF Structure, TypeOK
<1>5. \A i \in 1..n : stack[i].op = "build" =>
        /\ i \in 2..n /\ TypeIdOf(stack[i].own) \in TypeIds /\ TypeIdOf(stack[i].own) # U
        /\ classes[TypeIdOf(stack[i].own)] = None
  <2>1. SUFFICES ASSUME NEW i \in 1..n, stack[i].op = "build"
                 PROVE  /\ i \in 2..n /\ TypeIdOf(stack[i].own) \in TypeIds
                        /\ TypeIdOf(stack[i].own) # U
                        /\ classes[TypeIdOf(stack[i].own)] = None
    OBVIOUS
  <2>2. i \in 2..n /\ i - 1 \in 1..n /\ n \in 1..n /\ i - 1 < n
    BY <1>4, <2>1 DEF Structure, StackSound
  <2>3. TypeIdOf(stack[i].own) = stack[i - 1].T /\ stack[i - 1].T # stack[n].T
    BY <2>2, TypesDiffer DEF Unique
  <2>4. stack[i - 1].T \in TypeIds
    <3>1. stack[i - 1] \in Frame
      BY <1>4, <2>2
    <3>2. QED BY <3>1 DEF Frame
  <2>5. U # stack[i - 1].T
    <3>1. CASE w = PtrDef
      BY <2>4, <3>1, RegisterAssumption DEF TypeIdOf
    <3>2. CASE w # PtrDef
      BY <1>2, <1>4, <2>3, <3>2
    <3>3. QED BY <3>1, <3>2
  <2>6. QED BY <2>1, <2>2, <2>3, <2>4, <2>5 DEF Unique, Chain
<1>6. \A i \in 1..(n - 1) : stack[i].pc = "found"
  BY <1>4 DEF Unique, Chain, Structure, StackSound, Linked
<1>7. \A j \in Ctors : ctor[j] # None => Building(j) \/ (classes[TypeIdOf(ctor[j].def)] = j
                                                         /\ TypeIdOf(ctor[j].def) # U)
  BY <1>1, RegisterAssumption DEF Unique, OneConstructor
<1>8. classes \in [AllTypes -> Ctors \cup {None}]
  BY DEF Structure, TypeOK
<1> HIDE DEF U
<1>9. CASE SuperOf(w) = None
  <2>1. stack' = WithClass(k) /\ classes' = [classes EXCEPT ![U] = k]
    BY <1>9 DEF CreateClass, U
  <2>2. PICK f \in Frame : /\ f.op = Top.op /\ f.own = Top.own /\ f.d = w /\ f.c = k
                           /\ f.pc = "class" /\ stack' = Becomes(f) /\ f.k = Top.k
    <3> DEFINE f == [Top EXCEPT !.pc = "class", !.d = Wanted, !.c = k]
    <3>1. f \in Frame /\ f.op = Top.op /\ f.own = Top.own /\ f.d = w /\ f.c = k
          /\ f.pc = "class" /\ f.k = Top.k
      BY <1>2 DEF Frame
    <3>2. stack' = Becomes(f)
      BY <2>1 DEF WithClass
    <3> HIDE DEF f
    <3>3. QED BY <3>1, <3>2
  <2>3. /\ Len(stack') = n /\ stack'[n] = f
        /\ \A i \in 1..n : i # n => stack'[i] = stack[i]
    BY <1>2, <1>4, <2>2, Replaced DEF Becomes
  <2>4. \A i \in 1..n : stack'[i].op = stack[i].op /\ stack'[i].own = stack[i].own /\ stack'[i].k = stack[i].k
    BY <1>4, <2>2, <2>3
  <2>5. classes'[U] = k /\ \A T \in AllTypes : T # U => classes'[T] = classes[T]
    BY <1>2, <1>8, <2>1 DEF U
  <2>6. \A i \in 1..n : stack'[i].op = "build" => classes'[TypeIdOf(stack'[i].own)] = None
    BY <1>5, <2>4, <2>5 DEF AllTypes
  <2>7. \A i \in 1..n : stack'[i].pc = "class" => i = n
    BY <1>4, <1>6, <2>3
  <2>8. Chain'
    <3>1. \A i \in 2..n : stack'[i].op = "build"
      BY <1>4, <2>4 DEF Unique, Chain
    <3>2. \A i \in 1..n : stack'[i].pc = "class" => classes'[TypeIdOf(stack'[i].d)] = stack'[i].c
      BY <1>4, <2>2, <2>3, <2>5, <2>7 DEF U
    <3>3. QED BY <1>1, <2>3, <2>6, <3>1, <3>2 DEF Chain, TypeIdOf
  <2>9. \A j \in Ctors : Building(j) => Building(j)'
    BY <2>3, <2>4 DEF Building
  <2>10. \A j \in Ctors : ctor[j] # None => TypeIdOf(ctor[j].def) \in AllTypes
    BY Known DEF TypeIdOf, AllTypes, AllDefs, Structure, TypeOK, Definition
  <2>11. \A j \in Ctors : ctor'[j] # None =>
           Building(j)' \/ classes'[TypeIdOf(ctor'[j].def)] = j
    BY <1>3, <1>7, <2>5, <2>9, <2>10 DEF U
  <2>12. OneConstructor'
    BY <1>1, <2>11 DEF OneConstructor, TypeIdOf
  <2>13. QED BY <2>8, <2>12
<1>10. CASE SuperOf(w) # None
  <2> DEFINE f == [Top EXCEPT !.d = w]
             g == [op |-> "build", T |-> SuperOf(w), pc |-> "load",
                   d |-> None, c |-> None, own |-> w, k |-> k]
  <2>1. stack' = Append(Becomes(f), g) /\ UNCHANGED classes
    BY <1>10 DEF CreateClass
  <2>2. w # PtrDef /\ w \in Defs /\ w = Top.d
    BY <1>2, <1>10 DEF SuperOf
  <2>3. f = Top
    BY <1>2, <2>2 DEF Frame
  <2>4. g \in Frame /\ g.op = "build" /\ g.own = w /\ g.k = k /\ g.pc = "load"
    BY <1>2, <1>10, <2>2 DEF Frame
  <2> HIDE DEF g
  <2>5. Becomes(f) \in Seq(Frame) /\ Len(Becomes(f)) = n
        /\ \A i \in 1..n : Becomes(f)[i] = stack[i]
    BY <1>2, <1>4, <2>3, Replaced DEF Becomes
  <2> HIDE DEF f, w
  <2>6. /\ Len(stack') = n + 1 /\ stack'[n + 1] = g
        /\ \A i \in 1..n : stack'[i] = stack[i]
    BY <2>1, <2>4, <2>5, Pushed
  <2>7. classes[TypeIdOf(w)] = None
    BY <1>1 DEF U
  <2>8. Chain'
    <3>1. \A i \in 2..(n + 1) : stack'[i].op = "build"
      BY <1>4, <2>4, <2>6 DEF Unique, Chain
    <3>2. \A i \in 1..(n + 1) : stack'[i].op = "build" => classes[TypeIdOf(stack'[i].own)] = None
      BY <1>4, <1>5, <2>4, <2>6, <2>7
    <3>3. \A i \in 1..(n + 1) : stack'[i].pc = "class" =>
            classes[TypeIdOf(stack'[i].d)] = stack'[i].c
      BY <1>4, <2>4, <2>6 DEF Unique, Chain
    <3>4. QED BY <1>1, <2>1, <2>6, <3>1, <3>2, <3>3 DEF Chain, TypeIdOf
  <2>9. \A j \in Ctors : Building(j) => Building(j)'
    BY <1>4, <2>6 DEF Building
  <2>10. Building(k)'
    BY <1>4, <2>4, <2>6 DEF Building
  <2>11. \A j \in Ctors : ctor'[j] # None => Building(j)' \/ classes[TypeIdOf(ctor'[j].def)] = j
    BY <1>3, <1>7, <2>9, <2>10
  <2>12. OneConstructor'
    BY <1>1, <2>1, <2>11 DEF OneConstructor, TypeIdOf
  <2>13. QED BY <2>8, <2>12
<1>11. QED BY <1>9, <1>10

LEMMA CompleteKeepsUnique ==
  ASSUME Structure, Current, Unique, CompleteClass
  PROVE  Chain' /\ OneConstructor'
<1> DEFINE n == Len(stack)
           m == n - 1
           k == Top.k
           U == TypeIdOf(Top.own)
           f == [stack[m] EXCEPT !.pc = "class", !.c = k]
<1>1. /\ n \in Nat /\ n > 1 /\ Top = stack[n] /\ stack[m] \in Frame /\ k \in Ctors
      /\ Top.own \in Defs /\ ctor[k] # None /\ ctor[k].def = Top.own
      /\ Top.op = "build" /\ stack[m].d = Top.own
  BY Builder
<1>2. /\ ctor'[k] # None /\ ctor'[k].def = Top.own
      /\ \A j \in Ctors : j # k => ctor'[j] = ctor[j]
      /\ Len(stack') = m
      /\ \A i \in 1..(n - 2) : stack'[i] = stack[i]
      /\ stack'[m] = f
  BY Completed
<1>3. UNCHANGED <<def, byId, freed>> /\ classes' = [classes EXCEPT ![U] = k]
  BY DEF CompleteClass, registry
<1>4. f.op = stack[m].op /\ f.own = stack[m].own /\ f.k = stack[m].k /\ f.d = Top.own
      /\ f.pc = "class" /\ f.c = k
  BY <1>1 DEF Frame
<1> HIDE DEF f
<1>5. \A i \in 1..m : stack'[i].op = stack[i].op /\ stack'[i].own = stack[i].own /\ stack'[i].k = stack[i].k
  BY <1>1, <1>2, <1>4
<1>6. U = stack[m].T /\ U \in TypeIds /\ classes[U] = None
  <2>1. n \in 2..n /\ n \in 1..n
    BY <1>1
  <2>2. TypeIdOf(stack[n].own) = stack[n - 1].T /\ classes[TypeIdOf(stack[n].own)] = None
    BY <1>1, <2>1, TypesDiffer DEF Unique, Chain
  <2>3. stack[m].T \in TypeIds
    BY <1>1 DEF Frame
  <2>4. QED BY <1>1, <2>2, <2>3
<1>7. classes'[U] = k /\ \A T \in AllTypes : T # U => classes'[T] = classes[T]
  BY <1>3, <1>6 DEF Structure, TypeOK, AllTypes
<1>8. \A i \in 1..m : stack[i].op = "build" =>
        /\ TypeIdOf(stack[i].own) \in AllTypes /\ TypeIdOf(stack[i].own) # U
        /\ classes[TypeIdOf(stack[i].own)] = None
  <2>1. SUFFICES ASSUME NEW i \in 1..m, stack[i].op = "build"
                 PROVE  /\ TypeIdOf(stack[i].own) \in AllTypes /\ TypeIdOf(stack[i].own) # U
                        /\ classes[TypeIdOf(stack[i].own)] = None
    OBVIOUS
  <2>2. i \in 1..n /\ m \in 1..n /\ i \in 2..n /\ i - 1 \in 1..n /\ i - 1 < m
    BY <1>1, <2>1 DEF Structure, StackSound
  <2>3. TypeIdOf(stack[i].own) = stack[i - 1].T /\ stack[i - 1].T # stack[m].T
    BY <2>2, TypesDiffer DEF Unique
  <2>4. stack[i - 1].T \in TypeIds
    <3>1. stack[i - 1] \in Frame
      BY <1>1, <2>2 DEF Structure, TypeOK
    <3>2. QED BY <3>1 DEF Frame
  <2>5. QED BY <1>6, <2>1, <2>2, <2>3, <2>4 DEF Unique, Chain, AllTypes
<1> HIDE DEF U
<1>9. \A i \in 1..(n - 1) : stack[i].pc = "found"
  BY <1>1 DEF Unique, Chain, Structure, StackSound, Linked
<1>10. Chain'
  <2>1. \A i \in 2..m : stack'[i].op = "build"
    BY <1>1, <1>5 DEF Unique, Chain
  <2>2. \A i \in 1..m : stack'[i].op = "build" => classes'[TypeIdOf(stack'[i].own)] = None
    BY <1>5, <1>7, <1>8
  <2>3. \A i \in 1..m : stack'[i].pc = "class" => i = m
    BY <1>1, <1>2, <1>9
  <2>4. \A i \in 1..m : stack'[i].pc = "class" => classes'[TypeIdOf(stack'[i].d)] = stack'[i].c
    BY <1>2, <1>4, <1>7, <2>3 DEF U
  <2>5. QED BY <1>2, <1>3, <2>1, <2>2, <2>4 DEF Chain, TypeIdOf
<1>11. \A j \in Ctors : Building(j) /\ j # k => Building(j)'
  <2>1. SUFFICES ASSUME NEW j \in Ctors, j # k, NEW i \in 1..n, stack[i].op = "build", stack[i].k = j
                 PROVE  Building(j)'
    BY DEF Building
  <2>2. i \in 1..m
    BY <1>1, <2>1
  <2>3. QED BY <1>2, <1>5, <2>1, <2>2 DEF Building
<1>12. \A j \in Ctors : ctor[j] # None => TypeIdOf(ctor[j].def) \in AllTypes
  BY Known DEF TypeIdOf, AllTypes, AllDefs, Structure, TypeOK, Definition
<1>13. \A j \in Ctors : ctor[j] # None /\ ~Building(j) => TypeIdOf(ctor[j].def) # U
  BY <1>6, RegisterAssumption DEF Unique, OneConstructor
<1>14. \A j \in Ctors : ctor'[j] # None =>
         Building(j)' \/ classes'[TypeIdOf(ctor'[j].def)] = j
  <2>1. SUFFICES ASSUME NEW j \in Ctors, ctor'[j] # None
                 PROVE  Building(j)' \/ classes'[TypeIdOf(ctor'[j].def)] = j
    OBVIOUS
  <2>2. CASE j = k
    BY <1>2, <1>7, <2>2 DEF U
  <2>3. CASE j # k
    BY <1>2, <1>7, <1>11, <1>12, <1>13, <2>1, <2>3 DEF Unique, OneConstructor
  <2>4. QED BY <2>2, <2>3
<1>15. OneConstructor'
  BY <1>3, <1>14 DEF OneConstructor, TypeIdOf
<1>16. QED BY <1>10, <1>15

LEMMA RegisterKeepsAcyclic ==
  ASSUME "acyclic" \in Contract, Structure,
         NEW d \in Defs, NEW T \in TypeIds, NEW S \in TypeIds \cup {None}, NEW N \in Names,
         RegisterClass(d, T, S, N)
  PROVE  Acyclic'
<1>1. Ordered(T, S) /\ byId' = [byId EXCEPT ![T] = d] /\ def[d] = None
      /\ def'[d].SuperTypeId = S /\ \A e \in Defs : e # d => def'[e] = def[e]
  BY DEF RegisterClass, Enters, Allowed, Structure, TypeOK
<1>2. PICK rank \in [TypeIds -> 1..Cardinality(TypeIds)] :
        \A U \in TypeIds :
          LET V == IF U = T THEN S ELSE IF byId[U] = None THEN None ELSE def[byId[U]].SuperTypeId
          IN V # None => rank[U] < rank[V]
  BY <1>1 DEF Ordered
<1>3. rank \in [TypeIds -> Int]
  BY <1>2
<1>4. ASSUME NEW U \in TypeIds, byId'[U] # None, def'[byId'[U]].SuperTypeId # None
      PROVE  rank[U] < rank[def'[byId'[U]].SuperTypeId]
  <2>1. CASE U = T
    <3>1. byId'[U] = d
      BY <1>1, <2>1 DEF Structure, TypeOK
    <3>2. QED BY <1>1, <1>2, <1>4, <2>1, <3>1
  <2>2. CASE U # T
    <3>1. byId'[U] = byId[U] /\ byId[U] \in Defs /\ def[byId[U]] # None
      BY <1>1, <1>4, <2>2 DEF Structure, TypeOK, RegistrySound
    <3>2. def'[byId[U]] = def[byId[U]]
      BY <1>1, <3>1
    <3>3. QED BY <1>2, <1>4, <2>2, <3>1, <3>2
  <2>3. QED BY <2>1, <2>2
<1>5. QED BY <1>3, <1>4 DEF Acyclic

LEMMA AcyclicKept ==
  ASSUME Structure, Acyclic, DefsKept, UNCHANGED byId
  PROVE  Acyclic'
<1>1. PICK rank \in [TypeIds -> Int] :
        \A T \in TypeIds :
          byId[T] # None /\ def[byId[T]].SuperTypeId # None => rank[T] < rank[def[byId[T]].SuperTypeId]
  BY DEF Acyclic
<1>2. \A T \in TypeIds : byId[T] # None => def'[byId[T]].SuperTypeId = def[byId[T]].SuperTypeId
  BY DEF DefsKept, Structure, RegistrySound, TypeOK
<1>3. QED BY <1>1, <1>2 DEF Acyclic

\* The frame LoadClassByID leaves, with and without its callback.
LEMMA LoadFrame ==
  ASSUME Structure, Load \/ \E yes \in BOOLEAN : CallbackReturns(yes)
  PROVE  /\ stack # << >> /\ UNCHANGED <<registry, env, classes, ctor, objs, exited>>
         /\ \E f \in Frame : /\ f.op = Top.op /\ f.own = Top.own /\ f.k = Top.k /\ f.T = Top.T
                             /\ f.pc \in {"asking", "found"} /\ stack' = Becomes(f)
                             /\ f.pc = "found" /\ f.d = None =>
                                  \/ byId[f.T] = None
                                  \/ "honest" \notin Contract
<1>1. stack # << >> /\ UNCHANGED <<registry, env, classes, ctor, objs, exited>>
  BY DEF Load, CallbackReturns, At
<1>2. Top \in Frame
  BY <1>1, TopSound
<1>3. byId[Top.T] \in AllDefs \cup {None}
  BY <1>2 DEF Frame, Structure, TypeOK, AllDefs
<1>4. \A d \in AllDefs \cup {None} :
        LET f == [Top EXCEPT !.pc = "found", !.d = d]
        IN /\ f \in Frame /\ f.op = Top.op /\ f.own = Top.own /\ f.k = Top.k /\ f.T = Top.T
           /\ f.pc = "found" /\ f.d = d
  BY <1>2 DEF Frame
<1>5. LET f == [Top EXCEPT !.pc = "asking"]
      IN /\ f \in Frame /\ f.op = Top.op /\ f.own = Top.own /\ f.k = Top.k /\ f.T = Top.T
         /\ f.pc = "asking"
  BY <1>2 DEF Frame
<1>6. CASE Load
  <2>1. \/ stack' = Becomes([Top EXCEPT !.pc = "asking"])
        \/ stack' = Becomes([Top EXCEPT !.pc = "found", !.d = byId[Top.T]])
    BY <1>6 DEF Load
  <2>2. CASE stack' = Becomes([Top EXCEPT !.pc = "asking"])
    BY <1>1, <1>5, <2>2
  <2>3. CASE stack' = Becomes([Top EXCEPT !.pc = "found", !.d = byId[Top.T]])
    <3> DEFINE f == [Top EXCEPT !.pc = "found", !.d = byId[Top.T]]
    <3>1. /\ f \in Frame /\ f.op = Top.op /\ f.own = Top.own /\ f.k = Top.k /\ f.T = Top.T
          /\ f.pc = "found" /\ f.d = byId[Top.T]
      BY <1>3, <1>4
    <3>2. stack' = Becomes(f)
      BY <2>3
    <3> HIDE DEF f
    <3>3. QED BY <1>1, <3>1, <3>2
  <2>4. QED BY <2>1, <2>2, <2>3
<1>7. ASSUME NEW yes \in BOOLEAN, CallbackReturns(yes)
      PROVE  \E f \in Frame : /\ f.op = Top.op /\ f.own = Top.own /\ f.k = Top.k /\ f.T = Top.T
                              /\ f.pc \in {"asking", "found"} /\ stack' = Becomes(f)
                              /\ f.pc = "found" /\ f.d = None =>
                                   \/ byId[f.T] = None
                                   \/ "honest" \notin Contract
  <2> DEFINE d == IF yes THEN byId[Top.T] ELSE None
             f == [Top EXCEPT !.pc = "found", !.d = d]
  <2>1. stack' = Becomes(f) /\ ("honest" \in Contract => (byId[Top.T] # None => yes))
    BY <1>7 DEF CallbackReturns
  <2>2. d \in AllDefs \cup {None}
    BY <1>3
  <2>3. d = None => byId[Top.T] = None \/ "honest" \notin Contract
    BY <2>1
  <2> HIDE DEF d
  <2>4. /\ f \in Frame /\ f.op = Top.op /\ f.own = Top.own /\ f.k = Top.k /\ f.T = Top.T
        /\ f.pc = "found" /\ f.d = d
    BY <1>4, <2>2
  <2> HIDE DEF f
  <2>5. QED BY <2>1, <2>3, <2>4
<1>8. QED BY <1>1, <1>6, <1>7

LEMMA NextUnique ==
  ASSUME "idle" \in Contract, "acyclic" \in Contract, "shy" \in Contract,
         Structure, Current, Unique, [Next]_vars
  PROVE  Unique'
<1>1. DefsKept
  BY NextStructure
<1>2. ASSUME UNCHANGED byId, Chain', OneConstructor' PROVE Unique'
  BY <1>1, <1>2, AcyclicKept DEF Unique
<1>3. CASE \E d \in Defs, T \in TypeIds, S \in TypeIds \cup {None}, N \in Names :
             RegisterClass(d, T, S, N)
  <2>1. Acyclic'
    BY <1>3, RegisterKeepsAcyclic
  <2>2. UNCHANGED <<classes, ctor, stack>>
    BY <1>3 DEF RegisterClass, Enters
  <2>3. QED BY <1>1, <2>1, <2>2, UniqueSame DEF Unique
<1>4. CASE \E T \in TypeIds, on \in BOOLEAN : TraceObjectLifecycle(T, on)
  BY <1>1, <1>2, <1>4, UniqueSame DEF TraceObjectLifecycle, Unique
<1>5. ASSUME NEW op \in {"data", "create", "push"}, NEW T \in TypeIds, Call(op, T)
      PROVE  Unique'
  <2> DEFINE f == [op |-> op, T |-> T, pc |-> "load",
                   d |-> None, c |-> None, own |-> None, k |-> None]
  <2>1. stack = << >> /\ stack' = Append(stack, f) /\ UNCHANGED <<registry, classes, ctor>>
    BY <1>5 DEF Call
  <2>2. Len(stack') = 1 /\ stack'[1].op = op /\ stack'[1].pc = "load"
    BY <2>1
  <2>3. Chain'
    BY <2>2 DEF Chain
  <2>4. \A k \in Ctors : ~Building(k)
    BY <2>1 DEF Building
  <2>5. OneConstructor'
    BY <2>1, <2>4 DEF Unique, OneConstructor, TypeIdOf, registry
  <2>6. QED BY <1>2, <2>1, <2>3, <2>5 DEF registry
<1>6. CASE Load \/ \E yes \in BOOLEAN : CallbackReturns(yes)
  <2>1. PICK f \in Frame : /\ f.op = Top.op /\ f.own = Top.own /\ f.k = Top.k
                           /\ f.pc \in {"asking", "found"} /\ stack' = Becomes(f)
    BY <1>6, LoadFrame
  <2>2. stack # << >> /\ UNCHANGED <<registry, classes, ctor>>
    BY <1>6, LoadFrame
  <2>3. Chain' /\ OneConstructor'
    BY <2>1, <2>2, UniqueBecomes DEF registry, Unique
  <2>4. QED BY <1>2, <2>2, <2>3 DEF registry
<1>7. CASE FindClass
  <2> DEFINE c == classes[TypeIdOf(Wanted)]
             f == [Top EXCEPT !.pc = "class", !.d = Wanted, !.c = c]
  <2>1. NeedsClass /\ stack' = Becomes(f) /\ UNCHANGED <<registry, classes, ctor>> /\ c \in Ctors
    BY <1>7, WantedIs DEF FindClass, WithClass, Structure, TypeOK
  <2>2. stack # << >> /\ Top \in Frame /\ Wanted \in AllDefs
    BY <2>1, WantedIs
  <2> HIDE DEF c
  <2>3. f \in Frame /\ f.op = Top.op /\ f.own = Top.own /\ f.k = Top.k /\ f.d = Wanted /\ f.c = c
    BY <2>1, <2>2 DEF Frame
  <2> HIDE DEF f
  <2>4. classes[TypeIdOf(f.d)] = f.c
    BY <2>3 DEF c
  <2>5. Chain' /\ OneConstructor'
    BY <2>1, <2>2, <2>3, <2>4, UniqueBecomes DEF registry, Unique
  <2>6. QED BY <1>2, <2>1, <2>5 DEF registry
<1>8. CASE CompleteClass
  BY <1>2, <1>8, CompleteKeepsUnique DEF CompleteClass, registry
<1>9. CASE NoClass \/ ReturnClass
  BY <1>2, <1>9, UniqueReturns DEF NoClass, ReturnClass, At, registry, Unique
<1>10. CASE \E k \in Ctors : CreateClass(k)
  BY <1>2, <1>10, CreateKeepsUnique DEF CreateClass, registry
<1>11. CASE \E o \in Objs : PushNativeObject(o)
  BY <1>2, <1>11, UniqueReturns DEF PushNativeObject, At, registry, Unique
<1>12. CASE \E o \in Objs : FreeObject(o)
  BY <1>1, <1>2, <1>12, UniqueSame DEF FreeObject, registry, Unique
<1>13. CASE DestroyEnv
  <2>1. stack = << >> /\ UNCHANGED <<registry, stack>>
        /\ ctor' = [k \in Ctors |-> IF \E T \in AllTypes : classes[T] = k THEN None ELSE ctor[k]]
    BY <1>13 DEF DestroyEnv
  <2>2. \A k \in Ctors : ~Building(k)
    BY <2>1 DEF Building
  <2>3. \A k \in Ctors : ctor[k] # None => TypeIdOf(ctor[k].def) \in AllTypes
    BY Known DEF TypeIdOf, AllTypes, AllDefs, Structure, TypeOK, Definition
  <2>4. \A k \in Ctors : ctor'[k] = None
    BY <2>1, <2>2, <2>3 DEF Unique, OneConstructor
  <2>5. OneConstructor'
    BY <2>4 DEF OneConstructor
  <2>6. Len(stack') = 0
    BY <2>1
  <2>7. Chain'
    BY <2>6 DEF Chain
  <2>8. QED BY <1>2, <2>1, <2>5, <2>7 DEF registry
<1>14. CASE CreateEnv \/ (\E set \in BOOLEAN : OnClassNotFound(set)) \/ UNCHANGED vars
  BY <1>1, <1>2, <1>14, UniqueSame DEF CreateEnv, OnClassNotFound, vars, registry, Unique
<1>15. QED
  BY <1>3, <1>4, <1>5, <1>6, <1>7, <1>8, <1>9, <1>10, <1>11, <1>12, <1>13, <1>14, Steps

LEMMA UniqueHolds ==
  ASSUME "idle" \in Contract, "acyclic" \in Contract, "shy" \in Contract
  PROVE  Spec => [](Structure /\ Current /\ Unique)
<1>1. ASSUME Init PROVE Structure /\ Current /\ Unique
  <2>1. Len(stack) = 0
    BY <1>1 DEF Init
  <2>2. Chain
    BY <2>1 DEF Chain
  <2>3. Acyclic
    <3>1. [T \in TypeIds |-> 0] \in [TypeIds -> Int] /\ \A T \in TypeIds : byId[T] = None
      BY <1>1 DEF Init
    <3>2. QED BY <3>1 DEF Acyclic
  <2>4. OneConstructor /\ Current
    BY <1>1 DEF Init, OneConstructor, Current, UsedBy
  <2>5. QED BY <1>1, <2>2, <2>3, <2>4, InitStructure DEF Unique
<1>2. Structure /\ Current /\ Unique /\ [Next]_vars => (Structure /\ Current /\ Unique)'
  BY NextStructure, NextCurrent, NextUnique
<1>3. QED BY <1>1, <1>2, PTL DEF Spec

\* With `idle', `acyclic' and `shy', no class is made twice: super types rise in some
\* order, so that FindOrCreateClass never comes back to a type it is at work on, and
\* the constructor it enters in the map displaces none.
THEOREM OneConstructorPerType ==
  ASSUME "idle" \in Contract, "acyclic" \in Contract, "shy" \in Contract
  PROVE  Spec => []OneConstructor
<1>1. Unique => OneConstructor
  BY DEF Unique
<1>2. QED BY <1>1, UniqueHolds, PTL

-----------------------------------------------------------------------------
(* Super classes. *)

\* A call goes on without a definition only if there is none.
Answered ==
  \A i \in 1..Len(stack) : stack[i].pc = "found" /\ stack[i].d = None => byId[stack[i].T] = None

LEMMA NextAnswered ==
  ASSUME "honest" \in Contract, Structure, Chain, Answered, [Next]_vars
  PROVE  Answered'
<1> DEFINE n == Len(stack)
<1>1. n \in Nat /\ stack \in Seq(Frame) /\ \A i \in 1..n : stack[i] \in Frame
  BY DEF Structure, TypeOK
<1>2. \A i \in 1..(n - 1) : stack[i].d # None
  <2>1. SUFFICES ASSUME NEW i \in 1..(n - 1) PROVE stack[i].d # None
    OBVIOUS
  <2>2. i + 1 \in 2..n /\ i + 1 \in 1..n
    BY <1>1, <2>1
  <2>3. stack[i + 1].op = "build" /\ Linked(stack[i], stack[i + 1])
    BY <2>1, <2>2 DEF Chain, Structure, StackSound
  <2>4. QED BY <2>2, <2>3, RegisterAssumption DEF Linked, Structure, StackSound, FrameSound
<1>3. CASE UNCHANGED <<byId, stack>>
  BY <1>3 DEF Answered
<1>4. ASSUME stack # << >>, stack' = Caller, UNCHANGED byId PROVE Answered'
  BY <1>1, <1>4, Popped DEF Answered, Caller
<1>5. ASSUME stack # << >>, UNCHANGED byId, NEW f \in Frame, stack' = Becomes(f),
             f.pc = "found" /\ f.d = None => byId[f.T] = None
      PROVE  Answered'
  <2>1. Len(stack') = n /\ stack'[n] = f /\ \A i \in 1..n : i # n => stack'[i] = stack[i]
    BY <1>1, <1>5, Replaced DEF Becomes
  <2>2. QED BY <1>1, <1>5, <2>1 DEF Answered
<1>6. CASE \E d \in Defs, T \in TypeIds, S \in TypeIds \cup {None}, N \in Names :
             RegisterClass(d, T, S, N)
  <2>1. UNCHANGED stack /\ ClientRuns
    BY <1>6 DEF RegisterClass, Enters
  <2>2. \A i \in 1..n : ~(stack[i].pc = "found" /\ stack[i].d = None)
    BY <1>1, <1>2, <2>1 DEF ClientRuns, At, Top
  <2>3. QED BY <2>1, <2>2 DEF Answered
<1>7. ASSUME NEW op \in {"data", "create", "push"}, NEW T \in TypeIds, Call(op, T)
      PROVE  Answered'
  <2> DEFINE f == [op |-> op, T |-> T, pc |-> "load",
                   d |-> None, c |-> None, own |-> None, k |-> None]
  <2>1. UNCHANGED byId /\ stack' = Append(stack, f) /\ f \in Frame /\ f.pc = "load"
    BY <1>7 DEF Call, registry, Frame
  <2> HIDE DEF f
  <2>2. Len(stack') = n + 1 /\ stack'[n + 1] = f /\ \A i \in 1..n : stack'[i] = stack[i]
    BY <1>1, <2>1, Pushed
  <2>3. QED BY <1>1, <2>1, <2>2 DEF Answered
<1>8. CASE Load \/ \E yes \in BOOLEAN : CallbackReturns(yes)
  BY <1>5, <1>8, LoadFrame DEF registry
<1>9. ASSUME NEW c \in Ctors, NeedsClass, stack' = WithClass(c), UNCHANGED byId PROVE Answered'
  <2>1. PICK f \in Frame : f.pc = "class" /\ stack' = Becomes(f)
    BY <1>9, ClassFrame
  <2>2. stack # << >>
    BY <1>9, WantedIs
  <2>3. QED BY <1>5, <1>9, <2>1, <2>2
<1>10. CASE FindClass
  BY <1>9, <1>10, WantedIs DEF FindClass, Structure, TypeOK, registry
<1>11. ASSUME NEW k \in Ctors, CreateClass(k) PROVE Answered'
  <2>1. NeedsClass /\ UNCHANGED byId
    BY <1>11 DEF CreateClass, registry
  <2>2. CASE SuperOf(Wanted) = None
    BY <1>9, <1>11, <2>1, <2>2 DEF CreateClass
  <2>3. CASE SuperOf(Wanted) # None
    <3> DEFINE f == [Top EXCEPT !.d = Wanted]
               g == [op |-> "build", T |-> SuperOf(Wanted), pc |-> "load",
                     d |-> None, c |-> None, own |-> Wanted, k |-> k]
    <3>1. stack' = Append(Becomes(f), g)
      BY <1>11, <2>3 DEF CreateClass
    <3>2. stack # << >> /\ Top \in Frame /\ Wanted \in Defs /\ Wanted = Top.d
          /\ SuperOf(Wanted) \in TypeIds
      BY <2>1, <2>3, WantedIs DEF SuperOf
    <3>3. f = Top /\ Top = stack[n]
      BY <3>2 DEF Frame, Top
    <3>4. g \in Frame /\ g.pc = "load"
      BY <3>2 DEF Frame
    <3> HIDE DEF g
    <3>5. Becomes(f) \in Seq(Frame) /\ Len(Becomes(f)) = n
          /\ \A i \in 1..n : Becomes(f)[i] = stack[i]
      BY <1>1, <3>2, <3>3, Replaced DEF Becomes
    <3> HIDE DEF f
    <3>6. /\ Len(stack') = n + 1 /\ stack'[n + 1] = g
          /\ \A i \in 1..n : stack'[i] = stack[i]
      BY <3>1, <3>4, <3>5, Pushed
    <3>7. QED BY <1>1, <2>1, <3>4, <3>6 DEF Answered
  <2>4. QED BY <2>2, <2>3
<1>12. CASE CompleteClass
  <2>1. /\ n > 1 /\ stack[n - 1] \in Frame
        /\ Len(stack') = n - 1 /\ \A i \in 1..(n - 2) : stack'[i] = stack[i]
        /\ stack'[n - 1] = [stack[n - 1] EXCEPT !.pc = "class", !.c = Top.k]
    BY <1>12, Builder, Completed
  <2>2. stack'[n - 1].pc = "class" /\ UNCHANGED byId
    BY <1>12, <2>1 DEF Frame, CompleteClass, registry
  <2>3. \A i \in 1..(n - 1) : stack'[i].pc = "class" \/ stack'[i] = stack[i]
    <3>1. \A i \in 1..(n - 1) : i = n - 1 \/ i \in 1..(n - 2)
      BY <1>1
    <3>2. \A i \in 1..(n - 2) : stack'[i] = stack[i]
      BY <2>1
    <3>3. QED BY <2>2, <3>1, <3>2
  <2>4. Len(stack') = n - 1 /\ 1..(n - 1) \subseteq 1..n
    BY <1>1, <2>1
  <2>5. QED BY <2>2, <2>3, <2>4 DEF Answered
<1>13. CASE NoClass \/ ReturnClass \/ \E o \in Objs : PushNativeObject(o)
  BY <1>4, <1>13 DEF NoClass, ReturnClass, PushNativeObject, At, registry
<1>14. QED
  BY <1>3, <1>6, <1>7, <1>8, <1>10, <1>11, <1>12, <1>13, Steps
     DEF TraceObjectLifecycle, FreeObject, DestroyEnv, CreateEnv, OnClassNotFound, vars, registry

\* With those three clauses and `honest', a class enters the map linked to the class
\* its super type has by then, if that type is registered: what the call found is
\* still what the registry and the map say when the class is complete.
THEOREM SuperClassesLinked ==
  ASSUME "idle" \in Contract, "acyclic" \in Contract, "shy" \in Contract, "honest" \in Contract
  PROVE  Spec => SuperLinked
<1> DEFINE Step(T) ==
      LET k == classes'[T]
          S == SuperOf(ctor'[k].def)
          linked == S # None /\ byId[S] # None
      IN IF linked THEN classes[S] # None /\ ctor'[k].parent = classes[S]
                   ELSE ctor'[k].parent = None
<1>1. Init => Answered
  BY DEF Init, Answered
<1>2. Structure /\ Current /\ Unique /\ Answered /\ [Next]_vars => Answered'
  BY NextAnswered DEF Unique
<1>3. ASSUME Structure, Current, Unique, Answered, [Next]_vars,
             NEW T \in AllTypes, classes[T] = None, classes'[T] # None
      PROVE  Step(T)
  <2>1. ASSUME NEW k \in Ctors, CreateClass(k) PROVE Step(T)
    <3>1. NeedsClass /\ SuperOf(Wanted) = None /\ classes' = [classes EXCEPT ![TypeIdOf(Wanted)] = k]
      BY <1>3, <2>1 DEF CreateClass
    <3>2. classes'[T] = k
      BY <1>3, <3>1 DEF Structure, TypeOK
    <3>3. ctor'[k].def = Wanted /\ ctor'[k].parent = None
      BY <1>3, <2>1, ConstructorMade
    <3>4. QED BY <3>1, <3>2, <3>3
  <2>2. CASE CompleteClass
    <3> DEFINE n == Len(stack)
               k == Top.k
    <3>1. classes' = [classes EXCEPT ![TypeIdOf(Top.own)] = k]
      BY <2>2 DEF CompleteClass
    <3>2. classes'[T] = k
      BY <1>3, <3>1 DEF Structure, TypeOK
    <3>3. /\ n \in 1..n /\ Top = stack[n] /\ Top \in Frame /\ Top.op = "build" /\ Top.own \in Defs
          /\ FrameSound(Top, def, ctor)
      BY <1>3, <2>2, Builder
    <3>4. ctor'[k].def = Top.own /\ ctor'[k].parent = Top.c
      BY <1>3, <2>2, Completed
    <3>5. SuperOf(Top.own) = Top.T /\ Top.T \in TypeIds /\ Top.T # None
      BY <3>3, RegisterAssumption DEF SuperOf, FrameSound, Frame
    <3>6. CASE Top.pc = "class"
      <4>1. Top.d \in Defs /\ def[Top.d].TypeId = Top.T /\ Top.c \in Ctors
        <5>1. Top.d \in AllDefs \cup {None}
          BY <3>3 DEF Frame
        <5>2. QED BY <3>3, <3>6, <5>1 DEF FrameSound, AllDefs
      <4>2. classes[TypeIdOf(Top.d)] = Top.c
        BY <1>3, <3>3, <3>6 DEF Unique, Chain
      <4>3. TypeIdOf(Top.d) = Top.T
        BY <4>1, RegisterAssumption DEF TypeIdOf
      <4>4. UsedBy(Top.d)
        BY <3>3 DEF UsedBy
      <4>5. byId[Top.T] = Top.d
        BY <1>3, <4>1, <4>4 DEF Current
      <4>6. byId[Top.T] # None /\ classes[Top.T] # None /\ classes[Top.T] = Top.c
        BY <4>1, <4>2, <4>3, <4>5, RegisterAssumption
      <4>7. QED BY <3>2, <3>4, <3>5, <4>6
    <3>7. CASE Top.pc = "found" /\ Top.d = None
      <4>1. byId[Top.T] = None
        BY <1>3, <3>3, <3>7 DEF Answered
      <4>2. Top.c = None
        BY <1>3, <3>3, <3>7 DEF FrameSound
      <4>3. QED BY <3>2, <3>4, <3>5, <4>1, <4>2
    <3>8. QED BY <2>2, <3>6, <3>7 DEF CompleteClass
  <2>3. CASE DestroyEnv
    BY <1>3, <2>3 DEF DestroyEnv
  <2>4. CASE UNCHANGED classes
    BY <1>3, <2>4
  <2>5. QED
    BY <1>3, <2>1, <2>2, <2>3, <2>4, Steps
       DEF RegisterClass, Enters, TraceObjectLifecycle, Call, CallbackReturns, Load, FindClass,
           NoClass, ReturnClass, PushNativeObject, FreeObject, CreateEnv, OnClassNotFound, vars,
           registry
<1>4. Structure /\ Current /\ Unique /\ Answered /\ [Next]_vars =>
        [\A T \in AllTypes : classes[T] = None /\ classes'[T] # None => Step(T)]_vars
  BY <1>3
<1>5. QED BY <1>1, <1>2, <1>4, UniqueHolds, PTL DEF Spec, SuperLinked

-----------------------------------------------------------------------------
(* FindOrCreateClass comes to an end. *)

Stage(pc) ==
  CASE pc = "load" -> 0 [] pc = "asking" -> 1 [] pc = "found" -> 2 [] pc = "class" -> 3

\* The calls below place n are left as they are.
Below(n) == \A i \in 1..(n - 1) : stack'[i] = stack[i]

\* The call on top, at place n, gets further; it starts building its super class,
\* with room left below the bound; it is done, and the one below has the class it
\* waited for.
Advances(n) ==
  /\ Len(stack') = n /\ Below(n)
  /\ Stage(stack'[n].pc) > Stage(stack[n].pc)
Descends(n) ==
  /\ n < Cardinality(TypeIds)
  /\ Len(stack') = n + 1 /\ Below(n)
  /\ stack[n].pc = "found" /\ stack'[n].pc = "found" /\ stack'[n + 1].pc = "load"
Ascends(n) ==
  /\ Len(stack') = n - 1 /\ Below(n - 1)
  /\ n > 1 => stack[n - 1].pc = "found" /\ stack'[n - 1].pc = "class"

CreationAdvances ==
  [][stack # << >> =>
       \/ Client /\ UNCHANGED stack
       \/ Advances(Len(stack)) \/ Descends(Len(stack)) \/ Ascends(Len(stack))]_vars

\* The calls in progress look up different types, so there are at most that many.
LEMMA DepthBound ==
  ASSUME IsFiniteSet(TypeIds), Structure, Current, Unique
  PROVE  Len(stack) \in Nat /\ Cardinality(TypeIds) \in Nat
         /\ Len(stack) <= Cardinality(TypeIds)
<1> DEFINE n == Len(stack)
           looked == [i \in 1..n |-> stack[i].T]
<1>1. n \in Nat /\ \A i \in 1..n : stack[i].T \in TypeIds
  <2>1. n \in Nat /\ \A i \in 1..n : stack[i] \in Frame
    BY DEF Structure, TypeOK
  <2>2. QED BY <2>1 DEF Frame
<1>2. \A i, j \in 1..n : i < j => stack[i].T # stack[j].T
  BY TypesDiffer DEF Unique
<1>3. looked \in Injection(1..n, TypeIds)
  <2>1. looked \in [1..n -> TypeIds]
    BY <1>1
  <2>2. \A i, j \in 1..n : looked[i] = looked[j] => i = j
    BY <1>1, <1>2
  <2> HIDE DEF looked
  <2>3. QED BY <2>1, <2>2 DEF Injection, IsInjective
<1> HIDE DEF looked
<1>4. Cardinality(1..n) <= Cardinality(TypeIds) /\ Cardinality(TypeIds) \in Nat
  BY <1>3, FS_Injection, FS_CardinalityType
<1>5. Cardinality(1..n) = n
  <2>1. ASSUME NEW m \in Nat PROVE Cardinality(1..m) = m
    <3>1. Cardinality(1..m) = IF 1 > m THEN 0 ELSE m - 1 + 1
      BY FS_Interval
    <3>2. QED BY <3>1
  <2>2. QED BY <1>1, <2>1
<1>6. QED BY <1>1, <1>4, <1>5

\* The call on top goes on as f, which is further.
LEMMA GoesOn ==
  ASSUME Structure, stack # << >>, NEW f, stack' = Becomes(f),
         Stage(f.pc) > Stage(Top.pc)
  PROVE  Advances(Len(stack))
<1>1. stack \in Seq(Frame) /\ Len(stack) \in Nat \ {0} /\ Top = stack[Len(stack)]
  BY TopSound DEF Structure, TypeOK
<1>2. /\ Len(stack') = Len(stack) /\ stack'[Len(stack)] = f
      /\ \A i \in 1..(Len(stack) - 1) : stack'[i] = stack[i]
  BY <1>1 DEF Becomes
<1>3. QED BY <1>1, <1>2 DEF Advances, Below

\* A call that is not for a super class is the only one.
LEMMA GivesBack ==
  ASSUME Structure, Chain, stack # << >>, Top.op # "build", stack' = Caller
  PROVE  Ascends(Len(stack))
<1>1. stack \in Seq(Frame) /\ Len(stack) \in Nat \ {0} /\ Top = stack[Len(stack)]
  BY TopSound DEF Structure, TypeOK
<1>2. Len(stack) = 1
  <2>1. PICK n \in Nat \ {0} : n = Len(stack)
    BY <1>1
  <2>2. n \notin 2..n
    BY <1>1, <2>1 DEF Chain
  <2>3. QED BY <2>1, <2>2
<1>3. Len(stack') = 0
  BY <1>1, <1>2, Popped DEF Caller
<1>4. QED BY <1>2, <1>3 DEF Ascends, Below

LEMMA CreateAdvances ==
  ASSUME Structure, NEW k \in Ctors, CreateClass(k), Len(stack') <= Cardinality(TypeIds),
         Cardinality(TypeIds) \in Nat
  PROVE  Advances(Len(stack)) \/ Descends(Len(stack))
<1>1. NeedsClass
  BY DEF CreateClass
<1>2. /\ stack # << >> /\ Top \in Frame /\ Top.pc = "found" /\ Wanted \in AllDefs
      /\ Wanted # PtrDef => Wanted = Top.d
  BY <1>1, WantedIs
<1>3. stack \in Seq(Frame) /\ Len(stack) \in Nat \ {0} /\ Top = stack[Len(stack)]
  BY <1>2, TopSound DEF Structure, TypeOK
<1>4. CASE SuperOf(Wanted) = None
  <2> DEFINE f == [Top EXCEPT !.pc = "class", !.d = Wanted, !.c = k]
  <2>1. stack' = Becomes(f)
    BY <1>4 DEF CreateClass, WithClass
  <2>2. f.pc = "class"
    BY <1>2 DEF Frame
  <2>3. Stage(f.pc) > Stage(Top.pc)
    BY <1>2, <2>2 DEF Stage
  <2> HIDE DEF f
  <2>4. QED BY <1>2, <2>1, <2>3, GoesOn
<1>5. CASE SuperOf(Wanted) # None
  <2> DEFINE n == Len(stack)
             f == [Top EXCEPT !.d = Wanted]
             g == [op |-> "build", T |-> SuperOf(Wanted), pc |-> "load",
                   d |-> None, c |-> None, own |-> Wanted, k |-> k]
  <2>1. stack' = Append(Becomes(f), g)
    BY <1>5 DEF CreateClass
  <2>2. f \in Frame /\ f.pc = "found" /\ g.pc = "load"
    BY <1>2 DEF Frame
  <2> HIDE DEF f, g
  <2>3. /\ Becomes(f) \in Seq(Frame) /\ Len(Becomes(f)) = n /\ Becomes(f)[n] = f
        /\ \A i \in 1..(n - 1) : Becomes(f)[i] = stack[i]
    BY <1>3, <2>2 DEF Becomes
  <2>4. /\ Len(stack') = n + 1 /\ stack'[n + 1] = g /\ stack'[n] = f
        /\ \A i \in 1..(n - 1) : stack'[i] = stack[i]
    <3>1. PICK s : s = Becomes(f)
      OBVIOUS
    <3>2. s \in Seq(Frame) /\ Len(s) = n /\ s[n] = f /\ \A i \in 1..(n - 1) : s[i] = stack[i]
      BY <2>3, <3>1
    <3>3. /\ Len(Append(s, g)) = n + 1 /\ Append(s, g)[n + 1] = g
          /\ \A i \in 1..n : Append(s, g)[i] = s[i]
      BY <3>2
    <3>4. n \in 1..n /\ \A i \in 1..(n - 1) : i \in 1..n
      BY <1>3
    <3>5. QED BY <2>1, <3>1, <3>2, <3>3, <3>4
  <2>5. QED BY <1>2, <1>3, <2>2, <2>4 DEF Descends, Below
<1>6. QED BY <1>4, <1>5

LEMMA CompleteAscends ==
  ASSUME Structure, CompleteClass
  PROVE  Ascends(Len(stack))
<1> DEFINE n == Len(stack)
<1>1. n \in Nat /\ n > 1 /\ stack[n - 1] \in Frame /\ stack[n - 1].pc = "found"
  BY Builder
<1>2. /\ Len(stack') = n - 1 /\ \A i \in 1..(n - 2) : stack'[i] = stack[i]
      /\ stack'[n - 1] = [stack[n - 1] EXCEPT !.pc = "class", !.c = Top.k]
  BY Completed
<1>3. stack'[n - 1].pc = "class"
  BY <1>1, <1>2 DEF Frame
<1>4. QED BY <1>1, <1>2, <1>3 DEF Ascends, Below

LEMMA EngineAdvances ==
  ASSUME Structure, Chain, stack # << >>, Answers \/ Engine,
         Len(stack') <= Cardinality(TypeIds), Cardinality(TypeIds) \in Nat
  PROVE  Advances(Len(stack)) \/ Descends(Len(stack)) \/ Ascends(Len(stack))
<1>1. Top \in Frame
  BY TopSound
<1>2. ASSUME Load PROVE Advances(Len(stack))
  <2> DEFINE f == IF byId[Top.T] = None /\ notFound
                  THEN [Top EXCEPT !.pc = "asking"]
                  ELSE [Top EXCEPT !.pc = "found", !.d = byId[Top.T]]
  <2>1. stack' = Becomes(f) /\ Top.pc = "load"
    BY <1>2 DEF Load, At
  <2>2. f.pc \in {"asking", "found"}
    BY <1>1 DEF Frame
  <2>3. Stage(f.pc) > Stage(Top.pc)
    BY <2>1, <2>2 DEF Stage
  <2> HIDE DEF f
  <2>4. QED BY <2>1, <2>3, GoesOn
<1>3. ASSUME NEW yes \in BOOLEAN, CallbackReturns(yes) PROVE Advances(Len(stack))
  <2> DEFINE f == [Top EXCEPT !.pc = "found", !.d = IF yes THEN byId[Top.T] ELSE None]
  <2>1. stack' = Becomes(f) /\ Top.pc = "asking"
    BY <1>3 DEF CallbackReturns, At
  <2>2. f.pc = "found"
    BY <1>1 DEF Frame
  <2>3. Stage(f.pc) > Stage(Top.pc)
    BY <2>1, <2>2 DEF Stage
  <2> HIDE DEF f
  <2>4. QED BY <2>1, <2>3, GoesOn
<1>4. ASSUME FindClass PROVE Advances(Len(stack))
  <2> DEFINE f == [Top EXCEPT !.pc = "class", !.d = Wanted, !.c = classes[TypeIdOf(Wanted)]]
  <2>1. stack' = Becomes(f) /\ Top.pc = "found"
    BY <1>4 DEF FindClass, NeedsClass, At, WithClass
  <2>2. f.pc = "class"
    BY <1>1 DEF Frame
  <2>3. Stage(f.pc) > Stage(Top.pc)
    BY <2>1, <2>2 DEF Stage
  <2> HIDE DEF f
  <2>4. QED BY <2>1, <2>3, GoesOn
<1>5. ASSUME NoClass \/ ReturnClass \/ \E o \in Objs : PushNativeObject(o)
      PROVE  Ascends(Len(stack))
  <2>1. Top.op # "build" /\ stack' = Caller
    BY <1>5 DEF NoClass, ReturnClass, PushNativeObject
  <2>2. QED BY <2>1, GivesBack
<1>6. ASSUME NEW k \in Ctors, CreateClass(k)
      PROVE  Advances(Len(stack)) \/ Descends(Len(stack))
  BY <1>6, CreateAdvances
<1>7. Fresh(ctor) \subseteq Ctors
  BY DEF Fresh, Structure, TypeOK
<1>8. QED BY <1>2, <1>3, <1>4, <1>5, <1>6, <1>7, CompleteAscends DEF Answers, Engine

LEMMA ClientWaits ==
  ASSUME "shy" \in Contract, Structure, stack # << >>, Client
  PROVE  UNCHANGED stack
<1>1. ASSUME NEW op, NEW T, Call(op, T) PROVE FALSE
  BY <1>1 DEF Call
<1>2. QED BY <1>1 DEF Client, RegisterClass, Enters, OnClassNotFound, TraceObjectLifecycle,
                    FreeObject, DestroyEnv, CreateEnv

\* With finitely many type ids, none its own super type, and a callback that makes no
\* class, FindOrCreateClass works towards its end: a call only goes forward, it builds
\* its super class at most once and takes the class that comes back, and the recursion
\* is never deeper than there are types.  The client in the callback has no hand in it.
THEOREM CreationHasBound ==
  ASSUME IsFiniteSet(TypeIds),
         "idle" \in Contract, "acyclic" \in Contract, "shy" \in Contract
  PROVE  Spec => CreationAdvances
<1> DEFINE Inv == Structure /\ Current /\ Unique
           Bound == Len(stack) <= Cardinality(TypeIds) /\ Cardinality(TypeIds) \in Nat
<1>1. ASSUME Inv, Bound', [Next]_vars, stack # << >>
      PROVE  \/ Client /\ UNCHANGED stack
             \/ Advances(Len(stack)) \/ Descends(Len(stack)) \/ Ascends(Len(stack))
             \/ UNCHANGED vars
  <2>1. Len(stack') <= Cardinality(TypeIds) /\ Cardinality(TypeIds) \in Nat
    BY <1>1
  <2>2. CASE Answers \/ Engine
    BY <1>1, <2>1, <2>2, EngineAdvances DEF Unique
  <2>3. CASE Client
    BY <1>1, <2>3, ClientWaits
  <2>4. QED BY <1>1, <2>2, <2>3 DEF Next
<1>2. Spec => []Inv
  BY UniqueHolds
<1>3. Inv => Bound
  BY DepthBound
<1> HIDE DEF Inv, Bound
<1>4. Inv /\ Bound' /\ [Next]_vars =>
        [stack # << >> => \/ Client /\ UNCHANGED stack
                          \/ Advances(Len(stack)) \/ Descends(Len(stack))
                          \/ Ascends(Len(stack))]_vars
  BY <1>1
<1>5. QED BY <1>2, <1>3, <1>4, PTL DEF Spec, CreationAdvances
=============================================================================
