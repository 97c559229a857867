--------------------------- MODULE NodeListsProofs ---------------------------
(***************************************************************************)
(* What the operations on chains of nodes return, for chains of any length *)
(* and nodes of any kind.                                                  *)
(***************************************************************************)
EXTENDS NodeLists, Integers, SequenceTheorems, WellFoundedInduction, TLAPS

LEMMA WithoutFacts ==
  ASSUME NEW S, NEW s \in Seq(S), s # << >>, NEW k
  PROVE  /\ Without(s, k) \in Seq(S)
         /\ Len(Without(s, k)) = Len(s) - 1
         /\ \A i \in 1..(Len(s) - 1) : Without(s, k)[i] = IF i < k THEN s[i] ELSE s[i + 1]
<1>1. Len(s) - 1 \in Nat
  OBVIOUS
<1>2. \A i \in 1..(Len(s) - 1) : (IF i < k THEN s[i] ELSE s[i + 1]) \in S
  OBVIOUS
<1>3. Without(s, k) \in [1..(Len(s) - 1) -> S]
  BY <1>2 DEF Without
<1>4. Without(s, k) \in Seq(S) /\ Len(Without(s, k)) = Len(s) - 1
  BY <1>1, <1>3
<1>5. QED BY <1>4 DEF Without

LEMMA AddNodeFacts ==
  ASSUME NEW S, NEW s \in Seq(S), NEW n \in S
  PROVE  /\ AddNode(s, n) \in Seq(S)
         /\ Len(AddNode(s, n)) = Len(s) + 1
         /\ \A i \in 1..(Len(s) + 1) :
              AddNode(s, n)[i] = IF Len(s) = 0 THEN n
                                 ELSE IF i = 1 THEN s[1] ELSE IF i = 2 THEN n ELSE s[i - 1]
<1>1. AddNode(s, n) \in [1..(Len(s) + 1) -> S]
  BY DEF AddNode
<1>2. AddNode(s, n) \in Seq(S) /\ Len(AddNode(s, n)) = Len(s) + 1
  BY <1>1
<1>3. QED BY <1>2 DEF AddNode

LEMMA RemoveFirstFacts ==
  ASSUME NEW S, NEW s \in Seq(S), NEW T
  PROVE  /\ RemoveFirst(s, T) \in Seq(S)
         /\ Positions(s, T) = {} => RemoveFirst(s, T) = s
         /\ Positions(s, T) # {} =>
              /\ Len(RemoveFirst(s, T)) = Len(s) - 1
              /\ \A i \in 1..(Len(s) - 1) :
                   RemoveFirst(s, T)[i] = IF i < FirstOf(s, T) THEN s[i] ELSE s[i + 1]
<1>1. CASE Positions(s, T) = {}
  BY <1>1 DEF RemoveFirst
<1>2. CASE Positions(s, T) # {}
  <2>1. s # << >>
    BY <1>2 DEF Positions
  <2>2. RemoveFirst(s, T) = Without(s, FirstOf(s, T))
    BY <1>2 DEF RemoveFirst
  <2>3. QED BY <1>2, <2>1, <2>2, WithoutFacts
<1>3. QED BY <1>1, <1>2

\* A set of numbers has a least one.
LEMMA Least ==
  ASSUME NEW S \in SUBSET Nat, S # {}
  PROVE  \E i \in S : \A j \in S : i <= j
<1> DEFINE R == OpToRel(<, Nat)
<1>1. IsWellFoundedOn(R, Nat)
  BY NatLessThanWellFounded
<1>2. \A x, y \in Nat : x < y => <<x, y>> \in R
  BY DEF OpToRel
<1> HIDE DEF R
<1>3. \E x \in S : \A y \in S : ~ (<<y, x>> \in R)
  BY <1>1, WFMin
<1>4. PICK x \in S : \A y \in S : ~ (<<y, x>> \in R)
  BY <1>3
<1>5. \A y \in S : ~(y < x)
  BY <1>2, <1>4
<1>6. QED BY <1>5

LEMMA FirstOfFacts ==
  ASSUME NEW S, NEW s \in Seq(S), NEW T, Positions(s, T) # {}
  PROVE  /\ FirstOf(s, T) \in Positions(s, T)
         /\ \A j \in Positions(s, T) : FirstOf(s, T) <= j
<1>1. Positions(s, T) \in SUBSET Nat
  BY DEF Positions
<1>2. \E i \in Positions(s, T) : \A j \in Positions(s, T) : i <= j
  BY <1>1, Least
<1>3. QED BY <1>2 DEF FirstOf

LEMMA FirstAt ==
  ASSUME NEW S, NEW s \in Seq(S), NEW T, NEW k \in Positions(s, T),
         \A j \in Positions(s, T) : k <= j
  PROVE  Positions(s, T) # {} /\ FirstOf(s, T) = k
<1>1. \A j \in Positions(s, T) : j \in 1..Len(s)
  BY DEF Positions
<1>2. FirstOf(s, T) \in Positions(s, T) /\ FirstOf(s, T) <= k
  BY FirstOfFacts
<1> PICK m : m = FirstOf(s, T)
  OBVIOUS
<1>3. m \in 1..Len(s) /\ k \in 1..Len(s) /\ k <= m /\ m <= k
  BY <1>1, <1>2
<1>4. m = k
  BY <1>3
<1>5. QED BY <1>1, <1>4

\* What is left of a chain are other nodes of it, each once.
LEMMA RemoveFirstLeaves ==
  ASSUME NEW S, NEW s \in Seq(S), NEW T
  PROVE  \E g \in [1..Len(RemoveFirst(s, T)) -> 1..Len(s)] :
           /\ \A i \in 1..Len(RemoveFirst(s, T)) :
                /\ RemoveFirst(s, T)[i] = s[g[i]]
                /\ Positions(s, T) # {} => g[i] # FirstOf(s, T)
           /\ \A i, j \in 1..Len(RemoveFirst(s, T)) : g[i] = g[j] => i = j
<1> DEFINE r == RemoveFirst(s, T)
<1>1. CASE Positions(s, T) = {}
  <2> DEFINE g == [i \in 1..Len(s) |-> i]
  <2>1. r = s
    BY <1>1, RemoveFirstFacts
  <2>2. g \in [1..Len(r) -> 1..Len(s)]
    BY <2>1
  <2>3. QED BY <1>1, <2>1, <2>2
<1>2. CASE Positions(s, T) # {}
  <2> DEFINE k == FirstOf(s, T)
             g == [i \in 1..(Len(s) - 1) |-> IF i < k THEN i ELSE i + 1]
  <2>1. k \in 1..Len(s)
    BY <1>2, FirstOfFacts DEF Positions
  <2>2. /\ Len(r) = Len(s) - 1
        /\ \A i \in 1..(Len(s) - 1) : r[i] = IF i < k THEN s[i] ELSE s[i + 1]
    BY <1>2, RemoveFirstFacts
  <2> HIDE DEF k, r
  <2>3. g \in [1..Len(r) -> 1..Len(s)]
    BY <2>1, <2>2
  <2>4. \A i \in 1..Len(r) : g[i] = IF i < k THEN i ELSE i + 1
    BY <2>2
  <2> HIDE DEF g
  <2>5. \A i \in 1..Len(r) : r[i] = s[g[i]] /\ g[i] # k
    BY <2>1, <2>2, <2>4
  <2>6. \A i, j \in 1..Len(r) : g[i] = g[j] => i = j
    BY <2>1, <2>4
  <2>7. QED BY <2>3, <2>5, <2>6 DEF k, r
<1>3. QED BY <1>1, <1>2

\* Where the nodes of a chain come from after Add; 0 stands for the new one.
LEMMA AddNodeOrigins ==
  ASSUME NEW S, NEW s \in Seq(S), NEW n \in S
  PROVE  \E g \in [1..Len(AddNode(s, n)) -> 0..Len(s)] :
           /\ \A i \in 1..Len(AddNode(s, n)) :
                /\ g[i] = 0 => AddNode(s, n)[i] = n
                /\ g[i] # 0 => AddNode(s, n)[i] = s[g[i]]
           /\ \A i, j \in 1..Len(AddNode(s, n)) : g[i] = g[j] => i = j
<1>1. /\ Len(AddNode(s, n)) = Len(s) + 1
      /\ \A i \in 1..(Len(s) + 1) :
           AddNode(s, n)[i] = IF Len(s) = 0 THEN n
                              ELSE IF i = 1 THEN s[1] ELSE IF i = 2 THEN n ELSE s[i - 1]
  <2>1. Len(AddNode(s, n)) = Len(s) + 1
    BY AddNodeFacts
  <2>2. ASSUME NEW i \in 1..(Len(s) + 1)
        PROVE  AddNode(s, n)[i] = IF Len(s) = 0 THEN n
                                  ELSE IF i = 1 THEN s[1] ELSE IF i = 2 THEN n ELSE s[i - 1]
    BY DEF AddNode
  <2>3. QED BY <2>1, <2>2
<1> DEFINE r == AddNode(s, n)
           g == [i \in 1..(Len(s) + 1) |->
                   IF Len(s) = 0 THEN 0 ELSE IF i = 1 THEN 1 ELSE IF i = 2 THEN 0 ELSE i - 1]
<1> HIDE DEF r
<1>2. g \in [1..Len(r) -> 0..Len(s)]
  BY <1>1 DEF r
<1>3. \A i \in 1..Len(r) :
        g[i] = IF Len(s) = 0 THEN 0 ELSE IF i = 1 THEN 1 ELSE IF i = 2 THEN 0 ELSE i - 1
  BY <1>1 DEF r
<1> HIDE DEF g
<1>4. \A i \in 1..Len(r) : (g[i] = 0 => r[i] = n) /\ (g[i] # 0 => r[i] = s[g[i]])
  BY <1>1, <1>3 DEF r
<1>5. \A i, j \in 1..Len(r) : g[i] = g[j] => i = j
  BY <1>1, <1>3 DEF r
<1>6. QED BY <1>2, <1>4, <1>5 DEF r
==============================================================================
