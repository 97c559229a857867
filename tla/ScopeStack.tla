----------------------------- MODULE ScopeStack -----------------------------
(***************************************************************************)
(* What pesapi scopes promise, free of lists, slots and callbacks: open    *)
(* scopes form a stack; references to objects are handed to the innermost  *)
(* one only and dropped by it only; a scope goes away when it holds none.  *)
(* Module Scopes shows that the code implements this.                      *)
(***************************************************************************)
EXTENDS Naturals, Sequences

CONSTANTS Scopes, Objects

VARIABLES opened,   \* the open scopes, outermost first
          holds     \* holds[s][v]: references to v that scope s owns

stackVars == <<opened, holds>>

StackInit ==
  /\ opened = << >>
  /\ holds = [s \in Scopes |-> [v \in Objects |-> 0]]

AbsOpen(s) ==
  /\ \A i \in 1..Len(opened) : opened[i] # s
  /\ opened' = Append(opened, s)
  /\ UNCHANGED holds

AbsTake(v) ==
  /\ opened # << >>
  /\ holds' = [holds EXCEPT ![opened[Len(opened)]][v] = @ + 1]
  /\ UNCHANGED opened

AbsDrop(v) ==
  /\ opened # << >>
  /\ holds[opened[Len(opened)]][v] > 0
  /\ holds' = [holds EXCEPT ![opened[Len(opened)]][v] = @ - 1]
  /\ UNCHANGED opened

AbsClose ==
  /\ opened # << >>
  /\ \A v \in Objects : holds[opened[Len(opened)]][v] = 0
  /\ opened' = SubSeq(opened, 1, Len(opened) - 1)
  /\ UNCHANGED holds

StackNext ==
  \/ \E s \in Scopes : AbsOpen(s)
  \/ \E v \in Objects : AbsTake(v) \/ AbsDrop(v)
  \/ AbsClose

StackSpec == StackInit /\ [][StackNext]_stackVars
=============================================================================
