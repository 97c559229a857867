----------------------------- MODULE ScopesProofs -----------------------------
(***************************************************************************)
(* Handle scopes, for any number of scopes, slots, objects and jobs, and   *)
(* for any nesting of script, callbacks and finalizers.                    *)
(***************************************************************************)
EXTENDS Scopes, FiniteSetTheorems, SequenceTheorems, WellFoundedInduction, TLAPS

-----------------------------------------------------------------------------
(* Sequences. *)

LEMMA PushFacts ==
  ASSUME NEW S, NEW s \in Seq(S), NEW f \in S
  PROVE  /\ Append(s, f) \in Seq(S) /\ Append(s, f) # << >>
         /\ Len(Append(s, f)) = Len(s) + 1
         /\ Append(s, f)[Len(s) + 1] = f
         /\ \A i \in 1..Len(s) : Append(s, f)[i] = s[i]
OBVIOUS

LEMMA PopFacts ==
  ASSUME NEW S, NEW s \in Seq(S), s # << >>
  PROVE  /\ Len(s) \in Nat \ {0} /\ Len(s) - 1 \in Nat
         /\ s[Len(s)] \in S
         /\ SubSeq(s, 1, Len(s) - 1) \in Seq(S)
         /\ Len(SubSeq(s, 1, Len(s) - 1)) = Len(s) - 1
         /\ \A i \in 1..(Len(s) - 1) : SubSeq(s, 1, Len(s) - 1)[i] = s[i]
<1>1. Len(s) \in Nat \ {0}
  BY EmptySeq
<1>2. PICK n \in Nat : Len(s) = n + 1
  BY <1>1
<1>3. /\ SubSeq(s, 1, n) \in Seq(S) /\ Len(SubSeq(s, 1, n)) = n
      /\ \A i \in 1..n : SubSeq(s, 1, n)[i] = s[i]
  BY <1>2
<1>4. Len(s) - 1 = n /\ s[Len(s)] \in S
  BY <1>1, <1>2
<1>5. QED BY <1>1, <1>3, <1>4

LEMMA ReplaceFacts ==
  ASSUME NEW S, NEW s \in Seq(S), s # << >>, NEW f \in S
  PROVE  /\ [s EXCEPT ![Len(s)] = f] \in Seq(S) /\ [s EXCEPT ![Len(s)] = f] # << >>
         /\ Len([s EXCEPT ![Len(s)] = f]) = Len(s)
         /\ [s EXCEPT ![Len(s)] = f][Len(s)] = f
         /\ \A i \in 1..(Len(s) - 1) : [s EXCEPT ![Len(s)] = f][i] = s[i]
<1>1. Len(s) \in Nat \ {0}
  BY EmptySeq
<1>2. QED BY <1>1

-----------------------------------------------------------------------------
(* The list of scopes: each is one deeper than the one below it. *)

Ranked(d) ==
  /\ d \in [Scopes \cup {NULL} -> Nat] /\ d[NULL] = 0
  /\ current = NULL => open = {}
  /\ current # NULL => current \in open
  /\ \A s \in open :
       /\ d[s] <= d[current]
       /\ IF prev[s] = NULL THEN d[s] = 1 ELSE prev[s] \in open /\ d[s] = d[prev[s]] + 1
  /\ \A s, t \in open : d[s] = d[t] => s = t

\* What can be in progress right below an activation.
Below(pc) ==
  IF pc \in {"call", "get"} \cup Closing THEN Client
  ELSE IF pc = "job" THEN {"drain"}
  ELSE IF pc = "callback" THEN Script
  ELSE IF pc = "finalizer" THEN {"free"}
  ELSE Script \cup Client \cup {"release", "destroy"}

\* Only the loop over the dead, and what it calls, may have begun without a scope.  Client
\* code may have opened scopes since it began; nothing else leaves its scope, and a scope
\* that closes was opened by the activation below.
Nested(d, S) ==
  /\ S \in Seq(Frame)
  /\ \A i \in 1..Len(S) :
       /\ S[i].scope \in open \/ (S[i].scope = NULL /\ S[i].pc \in {"free", "finalizer"})
       /\ S[i].pc = "drain" => prev[S[i].scope] = NULL
       /\ i = 1 => S[i].pc \in {"call", "get", "free"} \cup Closing
       /\ i > 1 => /\ S[i - 1].pc \in Below(S[i].pc)
                   /\ S[i - 1].pc \notin Client => S[i].scope = S[i - 1].scope
  /\ \A i, j \in 1..Len(S) :
       i < j => /\ d[S[i].scope] <= d[S[j].scope]
                /\ S[j].pc \in Closing => d[S[i].scope] < d[S[j].scope]

\* ... and the current scope is that of what runs.
InScope(d, S) ==
  S # << >> =>
    /\ d[S[Len(S)].scope] <= d[current]
    /\ S[Len(S)].pc \notin Client => current = S[Len(S)].scope

LEMMA PushNested ==
  ASSUME NEW d \in [Scopes \cup {NULL} -> Nat], NEW S, Nested(d, S), InScope(d, S), open \in SUBSET Scopes,
         NEW f \in Frame, f.scope = current,
         current \in open \/ (current = NULL /\ f.pc \in {"free", "finalizer"}),
         f.pc = "drain" => prev[current] = NULL,
         S = << >> => f.pc \in {"call", "get", "free"} \cup Closing,
         S # << >> =>
           /\ S[Len(S)].pc \in Below(f.pc)
           /\ f.pc \in Closing => d[S[Len(S)].scope] < d[current]
  PROVE  Nested(d, Append(S, f)) /\ InScope(d, Append(S, f))
<1> DEFINE T == Append(S, f)
<1>1. S \in Seq(Frame)
  BY DEF Nested
<1>2. /\ T \in Seq(Frame) /\ T # << >> /\ Len(T) = Len(S) + 1 /\ T[Len(S) + 1] = f
      /\ \A i \in 1..Len(S) : T[i] = S[i]
  BY <1>1, PushFacts
<1>3. Len(S) \in Nat /\ (S = << >> <=> Len(S) = 0)
  BY <1>1, EmptySeq
<1> HIDE DEF T
<1>4. InScope(d, T)
  BY <1>2, <1>3 DEF InScope
<1>5. ASSUME NEW i \in 1..Len(T)
      PROVE  /\ T[i].scope \in open \/ (T[i].scope = NULL /\ T[i].pc \in {"free", "finalizer"})
             /\ T[i].pc = "drain" => prev[T[i].scope] = NULL
             /\ i = 1 => T[i].pc \in {"call", "get", "free"} \cup Closing
             /\ i > 1 => /\ T[i - 1].pc \in Below(T[i].pc)
                         /\ T[i - 1].pc \notin Client => T[i].scope = T[i - 1].scope
  <2>1. CASE i \in 1..Len(S)
    <3>1. T[i] = S[i] /\ (i > 1 => T[i - 1] = S[i - 1])
      BY <1>2, <1>3, <2>1
    <3>2. QED BY <2>1, <3>1 DEF Nested
  <2>2. CASE i = Len(S) + 1
    <3>1. T[i] = f /\ (i > 1 => i - 1 = Len(S) /\ S # << >> /\ T[i - 1] = S[Len(S)])
      BY <1>2, <1>3, <2>2
    <3>3. (i = 1 => S = << >>) /\ (i > 1 => S # << >>)
      BY <1>3, <2>2
    <3>4. f.scope \in open \/ (f.scope = NULL /\ f.pc \in {"free", "finalizer"})
      OBVIOUS
    <3>5. S # << >> /\ S[Len(S)].pc \notin Client => f.scope = S[Len(S)].scope
      BY DEF InScope
    <3>6. QED BY <3>1, <3>3, <3>4, <3>5
  <2>3. QED BY <1>2, <1>3, <2>1, <2>2
<1>6. ASSUME NEW i \in 1..Len(T), NEW j \in 1..Len(T), i < j
      PROVE  /\ d[T[i].scope] <= d[T[j].scope]
             /\ T[j].pc \in Closing => d[T[i].scope] < d[T[j].scope]
  <2>1. CASE j \in 1..Len(S)
    <3>1. i \in 1..Len(S) /\ T[i] = S[i] /\ T[j] = S[j]
      BY <1>2, <1>3, <1>6, <2>1
    <3>2. QED BY <1>6, <2>1, <3>1 DEF Nested
  <2>2. CASE j = Len(S) + 1
    <3>1. i \in 1..Len(S) /\ T[i] = S[i] /\ T[j] = f /\ S # << >> /\ Len(S) \in 1..Len(S)
      BY <1>2, <1>3, <1>6, <2>2
    <3>2. d[S[i].scope] <= d[S[Len(S)].scope]
      <4>1. CASE i = Len(S)
        <5>1. d[S[i].scope] \in Nat
          BY <3>1 DEF Nested
        <5>2. QED BY <4>1, <5>1
      <4>2. CASE i < Len(S)
        BY <3>1, <4>2 DEF Nested
      <4>3. QED BY <1>3, <3>1, <4>1, <4>2
    <3>3. d[S[i].scope] \in Nat /\ d[S[Len(S)].scope] \in Nat /\ d[current] \in Nat
      BY <3>1 DEF Nested
    <3>4. QED BY <3>1, <3>2, <3>3 DEF InScope
  <2>3. QED BY <1>2, <1>3, <2>1, <2>2
<1>7. QED BY <1>2, <1>4, <1>5, <1>6 DEF Nested, T

\* Whatever runs ends in the scope it began in, which is the one it is to return to.
LEMMA PopNested ==
  ASSUME NEW d \in [Scopes \cup {NULL} -> Nat], NEW S, S # << >>, Nested(d, S), InScope(d, S),
         open \in SUBSET Scopes, current = S[Len(S)].scope
  PROVE  /\ Nested(d, SubSeq(S, 1, Len(S) - 1))
         /\ InScope(d, SubSeq(S, 1, Len(S) - 1))
<1> DEFINE T == SubSeq(S, 1, Len(S) - 1)
           n == Len(S) - 1
<1>1. S \in Seq(Frame)
  BY DEF Nested
<1>2. /\ Len(S) = n + 1 /\ n \in Nat /\ T \in Seq(Frame) /\ Len(T) = n
      /\ \A i \in 1..n : T[i] = S[i]
  BY <1>1, PopFacts
<1> HIDE DEF T, n
<1>3. Nested(d, T)
  <2>1. \A i \in 1..n : i \in 1..Len(S) /\ T[i] = S[i] /\ (i > 1 => T[i - 1] = S[i - 1])
    BY <1>2
  <2>2. QED BY <1>2, <2>1 DEF Nested
<1>4. InScope(d, T)
  <2> SUFFICES ASSUME T # << >> PROVE InScope(d, T)
    BY DEF InScope
  <2>1. n \in 1..Len(S) /\ n + 1 \in 1..Len(S) /\ n < n + 1 /\ T[Len(T)] = S[n]
        /\ (n + 1) - 1 = n /\ n + 1 > 1
    BY <1>2, EmptySeq
  <2>2. current = S[n + 1].scope
    BY <1>2
  <2>3. d[S[n].scope] <= d[S[n + 1].scope]
    BY <2>1 DEF Nested
  <2>4. S[n].pc \notin Client => S[n + 1].scope = S[n].scope
    BY <2>1 DEF Nested
  <2>5. QED BY <2>1, <2>2, <2>3, <2>4 DEF InScope
<1>5. QED BY <1>3, <1>4 DEF T

\* ~pesapi_scope__ and the loop before it go from one part to the next.
LEMMA ReplaceNested ==
  ASSUME NEW d \in [Scopes \cup {NULL} -> Nat], NEW S, S # << >>, Nested(d, S), InScope(d, S),
         open \in SUBSET Scopes, S[Len(S)].pc \in Closing,
         NEW f \in Frame, f.scope = S[Len(S)].scope, f.pc \in {"caught", "release", "destroy"}
  PROVE  Nested(d, [S EXCEPT ![Len(S)] = f]) /\ InScope(d, [S EXCEPT ![Len(S)] = f])
<1> DEFINE T == [S EXCEPT ![Len(S)] = f]
           n == Len(S)
<1>1. S \in Seq(Frame) /\ n \in Nat \ {0}
  BY EmptySeq DEF Nested
<1>2. /\ T \in Seq(Frame) /\ T # << >> /\ Len(T) = n /\ T[n] = f
      /\ \A i \in 1..(n - 1) : T[i] = S[i]
  BY <1>1, ReplaceFacts
<1> HIDE DEF T
<1>3. \A i \in 1..n : /\ T[i].scope = S[i].scope
                      /\ T[i].pc \in Closing <=> S[i].pc \in Closing
                      /\ T[i].pc = "drain" => S[i].pc = "drain"
                      /\ i < n => T[i] = S[i]
  <2>1. \A i \in 1..n : i = n \/ i \in 1..(n - 1)
    BY <1>1
  <2>2. QED BY <1>2, <2>1 DEF Closing
<1>4. \A i \in 1..n : i > 1 => T[i - 1] = S[i - 1] /\ i - 1 \in 1..n
  BY <1>1, <1>2
<1>5. n \in 1..n /\ f.pc \in Closing /\ Below(f.pc) = Below(S[n].pc)
  BY <1>1 DEF Below, Closing
<1>6. ASSUME NEW i \in 1..n
      PROVE  /\ T[i].scope \in open \/ (T[i].scope = NULL /\ T[i].pc \in {"free", "finalizer"})
             /\ T[i].pc = "drain" => prev[T[i].scope] = NULL
             /\ i = 1 => T[i].pc \in {"call", "get", "free"} \cup Closing
             /\ i > 1 => /\ T[i - 1].pc \in Below(T[i].pc)
                         /\ T[i - 1].pc \notin Client => T[i].scope = T[i - 1].scope
  <2>1. CASE i = n
    <3>1. S[n].scope \in open /\ f.scope = S[n].scope
      BY <1>5 DEF Nested, Closing
    <3>2. /\ n = 1 => f.pc \in {"call", "get", "free"} \cup Closing
          /\ n > 1 => S[n - 1].pc \in Below(f.pc)
          /\ n > 1 /\ S[n - 1].pc \notin Client => f.scope = S[n - 1].scope
      BY <1>5, <3>1 DEF Nested
    <3>3. f.pc # "drain" /\ T[n] = f
      BY <1>2
    <3>4. QED BY <1>4, <2>1, <3>1, <3>2, <3>3
  <2>2. CASE i # n
    <3>1. T[i] = S[i]
      BY <1>1, <1>3, <2>2
    <3>2. QED BY <1>4, <3>1 DEF Nested
  <2>3. QED BY <2>1, <2>2
<1>7. ASSUME NEW i \in 1..n, NEW j \in 1..n, i < j
      PROVE  /\ d[T[i].scope] <= d[T[j].scope]
             /\ T[j].pc \in Closing => d[T[i].scope] < d[T[j].scope]
  BY <1>3, <1>7 DEF Nested
<1>8. InScope(d, T)
  <2>1. f.pc \notin Client /\ S[n].pc \notin Client
    BY DEF Client, Closing
  <2>2. QED BY <1>2, <2>1 DEF InScope
<1>9. Nested(d, T)
  BY <1>2, <1>6, <1>7 DEF Nested
<1>10. QED BY <1>8, <1>9 DEF T

-----------------------------------------------------------------------------
(* Slots: the array and what does not fit are one sequence.                *)

SlotTypes ==
  /\ values \in [Scopes -> Seq(Value)] /\ dynamic \in [Scopes -> Seq(Value)]
  /\ \A s \in Scopes :
       Len(values[s]) <= FixedSize /\ (dynamic[s] # << >> => Len(values[s]) = FixedSize)

LEMMA JoinFacts ==
  ASSUME NEW S, NEW a \in Seq(S), NEW b \in Seq(S)
  PROVE  /\ a \o b \in Seq(S) /\ Len(a \o b) = Len(a) + Len(b)
         /\ \A k \in 1..Len(a) : (a \o b)[k] = a[k]
         /\ \A k \in 1..Len(b) : (a \o b)[Len(a) + k] = b[k]
<1>1. /\ a \o b \in Seq(S) /\ Len(a \o b) = Len(a) + Len(b)
      /\ \A i \in 1..(Len(a) + Len(b)) : (a \o b)[i] = IF i <= Len(a) THEN a[i] ELSE b[i - Len(a)]
  BY ConcatProperties
<1>2. Len(a) \in Nat /\ Len(b) \in Nat
  OBVIOUS
<1>3. ASSUME NEW k \in 1..Len(b) PROVE (a \o b)[Len(a) + k] = b[k]
  <2>1. Len(a) + k \in 1..(Len(a) + Len(b)) /\ ~(Len(a) + k <= Len(a)) /\ (Len(a) + k) - Len(a) = k
    BY <1>2
  <2>2. QED BY <1>1, <2>1
<1>4. ASSUME NEW k \in 1..Len(a) PROVE (a \o b)[k] = a[k]
  <2>1. k \in 1..(Len(a) + Len(b)) /\ k <= Len(a)
    BY <1>2
  <2>2. QED BY <1>1, <2>1
<1>5. QED BY <1>1, <1>3, <1>4

LEMMA SlotsFacts ==
  ASSUME SlotTypes, NEW s \in Scopes
  PROVE  /\ SlotsOf(s) \in Seq(Value)
         /\ Len(SlotsOf(s)) = Len(values[s]) + Len(dynamic[s])
         /\ \A k \in 1..Len(values[s]) : SlotsOf(s)[k] = values[s][k]
         /\ \A k \in 1..Len(dynamic[s]) : SlotsOf(s)[Len(values[s]) + k] = dynamic[s][k]
<1>1. values[s] \in Seq(Value) /\ dynamic[s] \in Seq(Value)
  BY DEF SlotTypes
<1> DEFINE a == values[s]
           b == dynamic[s]
<1>2. /\ a \o b \in Seq(Value) /\ Len(a \o b) = Len(a) + Len(b)
      /\ \A k \in 1..Len(a) : (a \o b)[k] = a[k]
      /\ \A k \in 1..Len(b) : (a \o b)[Len(a) + k] = b[k]
  <2> HIDE DEF a, b
  <2>1. a \in Seq(Value) /\ b \in Seq(Value)
    BY <1>1 DEF a, b
  <2>2. QED BY <2>1, JoinFacts
<1>3. QED BY <1>2, Zenon DEF SlotsOf

LEMMA PutFacts ==
  ASSUME NEW S, NEW q \in Seq(S), NEW k, NEW v \in S
  PROVE  /\ [q EXCEPT ![k] = v] \in Seq(S) /\ Len([q EXCEPT ![k] = v]) = Len(q)
         /\ \A i \in 1..Len(q) : [q EXCEPT ![k] = v][i] = IF i = k THEN v ELSE q[i]
<1>1. Len(q) \in Nat /\ DOMAIN q = 1..Len(q) /\ q \in [1..Len(q) -> S]
  BY LenProperties
<1> DEFINE r == [q EXCEPT ![k] = v]
<1>2. r \in [1..Len(q) -> S] /\ \A i \in 1..Len(q) : r[i] = IF i = k THEN v ELSE q[i]
  BY <1>1
<1> HIDE DEF r
<1>3. r \in Seq(S) /\ Len(r) = Len(q)
  BY <1>1, <1>2
<1>4. QED BY <1>2, <1>3 DEF r

\* allocValue adds a slot at the end.
LEMMA AllocFacts ==
  ASSUME SlotTypes, NEW s \in Scopes, NEW v \in Value, AllocValue(s, v)
  PROVE  /\ SlotTypes'
         /\ Len(SlotsOf(s)') = Len(SlotsOf(s)) + 1
         /\ SlotsOf(s)'[Len(SlotsOf(s)) + 1] = v
         /\ \A k \in 1..Len(SlotsOf(s)) : SlotsOf(s)'[k] = SlotsOf(s)[k]
         /\ \A t \in Scopes \ {s} : SlotsOf(t)' = SlotsOf(t)
<1>1. values[s] \in Seq(Value) /\ dynamic[s] \in Seq(Value) /\ Len(values[s]) <= FixedSize
      /\ (dynamic[s] # << >> => Len(values[s]) = FixedSize)
  BY DEF SlotTypes
<1>2. \A t \in Scopes \ {s} : values'[t] = values[t] /\ dynamic'[t] = dynamic[t]
  BY DEF AllocValue, SlotTypes
<1>3. CASE Len(values[s]) < FixedSize
  <2>1. values'[s] = Append(values[s], v) /\ dynamic'[s] = dynamic[s] /\ dynamic[s] = << >>
    BY <1>1, <1>3, ScopesAssumption DEF AllocValue, SlotTypes
  <2>2. /\ values'[s] \in Seq(Value) /\ Len(values'[s]) = Len(values[s]) + 1
        /\ values'[s][Len(values[s]) + 1] = v
        /\ \A k \in 1..Len(values[s]) : values'[s][k] = values[s][k]
    BY <1>1, <2>1, PushFacts
  <2>3. SlotTypes'
    <3>1. /\ values' \in [Scopes -> Seq(Value)] /\ dynamic' \in [Scopes -> Seq(Value)]
      BY <1>3, <2>1, <2>2 DEF AllocValue, SlotTypes
    <3>2. Len(values'[s]) <= FixedSize
      BY <1>1, <1>3, <2>2, ScopesAssumption
    <3>3. QED BY <1>2, <2>1, <3>1, <3>2 DEF SlotTypes
  <2>4. SlotsOf(s)' = values'[s] /\ SlotsOf(s) = values[s]
    <3>1. values'[s] \o << >> = values'[s] /\ values[s] \o << >> = values[s]
      BY <1>1, <2>2, ConcatEmptySeq
    <3>2. QED BY <2>1, <3>1 DEF SlotsOf
  <2>5. QED BY <1>2, <2>2, <2>3, <2>4 DEF SlotsOf
<1>4. CASE ~(Len(values[s]) < FixedSize)
  <2>1. values'[s] = values[s] /\ dynamic'[s] = Append(dynamic[s], v)
        /\ Len(values[s]) = FixedSize
    BY <1>1, <1>4, ScopesAssumption DEF AllocValue, SlotTypes
  <2>2. /\ dynamic'[s] \in Seq(Value) /\ Len(dynamic'[s]) = Len(dynamic[s]) + 1
        /\ dynamic'[s][Len(dynamic[s]) + 1] = v
        /\ \A k \in 1..Len(dynamic[s]) : dynamic'[s][k] = dynamic[s][k]
    BY <1>1, <2>1, PushFacts
  <2>3. SlotTypes'
    <3>1. /\ values' \in [Scopes -> Seq(Value)] /\ dynamic' \in [Scopes -> Seq(Value)]
      BY <1>4, <2>1, <2>2 DEF AllocValue, SlotTypes
    <3>2. QED BY <1>1, <1>2, <2>1, <3>1 DEF SlotTypes
  <2>4. SlotsOf(s)' = Append(SlotsOf(s), v)
    <3>1. values[s] \o Append(dynamic[s], v) = Append(values[s] \o dynamic[s], v)
      <4> DEFINE a == values[s]
                 b == dynamic[s]
                 c == <<v>>
      <4>1. a \in Seq(Value) /\ b \in Seq(Value) /\ c \in Seq(Value)
        BY <1>1
      <4>2. Append(b, v) = b \o c /\ Append(a \o b, v) = (a \o b) \o c
        <5>1. a \o b \in Seq(Value)
          BY <4>1, ConcatProperties
        <5>2. QED BY <4>1, <5>1, AppendIsConcat
      <4> HIDE DEF a, b, c
      <4>3. (a \o b) \o c = a \o (b \o c)
        BY <4>1, ConcatAssociative
      <4>4. QED BY <4>2, <4>3, Zenon DEF a, b
    <3>2. QED BY <2>1, <3>1 DEF SlotsOf
  <2>5. SlotsOf(s) \in Seq(Value)
    BY SlotsFacts
  <2>6. /\ Len(SlotsOf(s)') = Len(SlotsOf(s)) + 1
        /\ SlotsOf(s)'[Len(SlotsOf(s)) + 1] = v
        /\ \A k \in 1..Len(SlotsOf(s)) : SlotsOf(s)'[k] = SlotsOf(s)[k]
    BY <2>4, <2>5, PushFacts
  <2>7. \A t \in Scopes \ {s} : SlotsOf(t)' = SlotsOf(t)
    BY <1>2 DEF SlotsOf
  <2>8. QED BY <2>3, <2>6, <2>7
<1>5. QED BY <1>3, <1>4

\* A slot pointer leads to the slot it was made for.
LEMMA StoreFacts ==
  ASSUME SlotTypes, NEW s \in Scopes, NEW v \in Value, NEW k \in 1..Len(SlotsOf(s)), Store(s, k, v)
  PROVE  /\ SlotTypes'
         /\ Len(SlotsOf(s)') = Len(SlotsOf(s))
         /\ \A i \in 1..Len(SlotsOf(s)) : SlotsOf(s)'[i] = IF i = k THEN v ELSE SlotsOf(s)[i]
         /\ \A t \in Scopes \ {s} : SlotsOf(t)' = SlotsOf(t)
<1> DEFINE m == Len(values[s])
           n == Len(dynamic[s])
<1>1. values[s] \in Seq(Value) /\ dynamic[s] \in Seq(Value) /\ m \in Nat /\ n \in Nat
      /\ m <= FixedSize /\ (n # 0 => m = FixedSize) /\ FixedSize \in Nat
  <2>1. /\ values[s] \in Seq(Value) /\ dynamic[s] \in Seq(Value) /\ m <= FixedSize
        /\ (dynamic[s] # << >> => m = FixedSize)
    BY DEF SlotTypes
  <2>2. QED BY <2>1, EmptySeq, ScopesAssumption
<1>2. /\ Len(SlotsOf(s)) = m + n
      /\ \A i \in 1..m : SlotsOf(s)[i] = values[s][i]
      /\ \A i \in 1..n : SlotsOf(s)[m + i] = dynamic[s][i]
  BY SlotsFacts
<1> DEFINE newV == IF k <= FixedSize THEN [values[s] EXCEPT ![k] = v] ELSE values[s]
           newD == IF k <= FixedSize THEN dynamic[s] ELSE [dynamic[s] EXCEPT ![k - FixedSize] = v]
<1>3. values'[s] = newV /\ dynamic'[s] = newD
      /\ \A t \in Scopes \ {s} : values'[t] = values[t] /\ dynamic'[t] = dynamic[t]
  BY DEF Store, SlotTypes
<1>4. /\ newV \in Seq(Value) /\ Len(newV) = m
      /\ \A i \in 1..m : newV[i] = IF k <= FixedSize /\ i = k THEN v ELSE values[s][i]
  <2>1. CASE k <= FixedSize
    <3>1. PICK q : q = values[s]
      OBVIOUS
    <3>7. PICK j : j = k
      OBVIOUS
    <3>2. PICK r : r = [q EXCEPT ![j] = v]
      OBVIOUS
    <3>3. newV = r
      BY <2>1, <3>1, <3>2, <3>7
    <3>4. q \in Seq(Value) /\ Len(q) = m
      BY <1>1, <3>1
    <3> HIDE DEF newV, m
    <3>5. /\ r \in Seq(Value) /\ Len(r) = Len(q)
          /\ \A i \in 1..Len(q) : r[i] = IF i = j THEN v ELSE q[i]
      BY <3>2, <3>4, PutFacts
    <3>6. QED BY <2>1, <3>1, <3>3, <3>4, <3>5, <3>7
  <2>2. CASE ~(k <= FixedSize)
    BY <1>1, <2>2
  <2>3. QED BY <2>1, <2>2
<1>5. /\ newD \in Seq(Value) /\ Len(newD) = n
      /\ \A i \in 1..n : newD[i] = IF ~(k <= FixedSize) /\ i = k - FixedSize THEN v ELSE dynamic[s][i]
  <2>1. CASE k <= FixedSize
    BY <1>1, <2>1
  <2>2. CASE ~(k <= FixedSize)
    <3>1. PICK q : q = dynamic[s]
      OBVIOUS
    <3>2. PICK j : j = k - FixedSize
      OBVIOUS
    <3>3. PICK r : r = [q EXCEPT ![j] = v]
      OBVIOUS
    <3>4. newD = r
      BY <2>2, <3>1, <3>2, <3>3
    <3>5. q \in Seq(Value) /\ Len(q) = n
      BY <1>1, <3>1
    <3> HIDE DEF newD, n
    <3>6. /\ r \in Seq(Value) /\ Len(r) = Len(q)
          /\ \A i \in 1..Len(q) : r[i] = IF i = j THEN v ELSE q[i]
      BY <3>3, <3>5, PutFacts
    <3>7. QED BY <2>2, <3>1, <3>2, <3>4, <3>5, <3>6
  <2>3. QED BY <2>1, <2>2
<1>6. values' \in [Scopes -> Seq(Value)] /\ dynamic' \in [Scopes -> Seq(Value)]
  <2>1. /\ values' = [values EXCEPT ![s] = newV]
        /\ dynamic' = [dynamic EXCEPT ![s] = newD]
    BY DEF Store, SlotTypes
  <2>2. QED BY <1>4, <1>5, <2>1 DEF SlotTypes
<1> HIDE DEF newV, newD
<1>7. SlotTypes'
  <2>1. (newD = << >> <=> n = 0)
    BY <1>5, EmptySeq
  <2>2. QED BY <1>1, <1>3, <1>4, <1>6, <2>1 DEF SlotTypes
<1>8. /\ Len(SlotsOf(s)') = m + n
      /\ \A i \in 1..m : SlotsOf(s)'[i] = newV[i]
      /\ \A i \in 1..n : SlotsOf(s)'[m + i] = newD[i]
  <2>1. SlotsOf(s)' = newV \o newD
    BY <1>3 DEF SlotsOf
  <2>2. /\ Len(newV \o newD) = Len(newV) + Len(newD)
        /\ \A i \in 1..Len(newV) : (newV \o newD)[i] = newV[i]
        /\ \A i \in 1..Len(newD) : (newV \o newD)[Len(newV) + i] = newD[i]
    <3>1. newV \in Seq(Value) /\ newD \in Seq(Value)
      BY <1>4, <1>5
    <3>2. QED BY <3>1, JoinFacts
  <2>3. Len(newV) = m /\ Len(newD) = n
    BY <1>4, <1>5
  <2>4. QED BY <2>1, <2>2, <2>3, Zenon
<1>9. ASSUME NEW i \in 1..Len(SlotsOf(s))
      PROVE  SlotsOf(s)'[i] = IF i = k THEN v ELSE SlotsOf(s)[i]
  <2>1. i \in 1..(m + n) /\ k \in 1..(m + n)
    BY <1>2
  <2>2. CASE i \in 1..m
    <3>1. i = k => k <= FixedSize
      BY <1>1, <2>2
    <3>2. QED BY <1>2, <1>4, <1>8, <2>2, <3>1
  <2>3. CASE i \notin 1..m
    <3>1. PICK j \in 1..n : i = m + j
      <4>1. i - m \in 1..n /\ i = m + (i - m)
        <5> HIDE DEF m, n
        <5>1. QED BY <1>1, <2>1, <2>3
      <4>2. QED BY <4>1
    <3>2. m = FixedSize
      BY <1>1, <3>1
    <3>3. i = k <=> ~(k <= FixedSize) /\ j = k - FixedSize
      BY <1>1, <2>1, <3>1, <3>2
    <3>4. SlotsOf(s)'[i] = newD[j] /\ SlotsOf(s)[i] = dynamic[s][j]
      BY <1>2, <1>8, <3>1
    <3>5. QED BY <1>5, <3>3, <3>4
  <2>4. QED BY <2>2, <2>3
<1>10. QED BY <1>2, <1>3, <1>7, <1>8, <1>9 DEF SlotsOf

-----------------------------------------------------------------------------
(* Structure: types but for the counts, and the two nested lists, of scopes and of *)
(* activations.                                                            *)

Shape ==
  /\ current \in Scopes \cup {NULL}
  /\ open \in SUBSET Scopes
  /\ prev \in [Scopes -> Scopes \cup {NULL}]
  /\ SlotTypes
  /\ caught \in [Scopes -> Errors \cup {NULL, "freed"}]
  /\ count \in [Counted -> Int]
  /\ dying \in Seq(Counted)
  /\ loud \in BOOLEAN

Level(d) == Ranked(d) /\ Nested(d, stack) /\ InScope(d, stack)

Structure == Shape /\ \E d \in [Scopes \cup {NULL} -> Nat] : Level(d)

LEMMA KeepsLevel ==
  ASSUME NEW d, Level(d), UNCHANGED <<current, open, prev>>,
         Nested(d, stack'), InScope(d, stack')
  PROVE  Level(d)'
BY DEF Level, Ranked, Nested, InScope

LEMMA RankPositive ==
  ASSUME NEW d \in [Scopes \cup {NULL} -> Nat], Shape, Level(d)
  PROVE  \A s \in open : d[s] \in Nat /\ d[s] >= 1
<1> SUFFICES ASSUME NEW s \in open PROVE d[s] \in Nat /\ d[s] >= 1
  OBVIOUS
<1>1. d[s] \in Nat
  BY DEF Shape
<1>2. CASE prev[s] = NULL
  BY <1>2 DEF Level, Ranked
<1>3. CASE prev[s] # NULL
  <2>1. prev[s] \in open /\ d[s] = d[prev[s]] + 1 /\ prev[s] \in Scopes
    BY <1>3 DEF Level, Ranked, Shape
  <2>2. d[prev[s]] \in Nat
    BY <2>1
  <2>3. QED BY <1>1, <2>1, <2>2
<1>4. QED BY <1>1, <1>2, <1>3

LEMMA ActivationFacts ==
  ASSUME NEW pc \in Script \cup Client \cup Closing \cup {"free"}, NEW s \in Scopes \cup {NULL}, NEW k \in Nat
  PROVE  /\ Activation(pc, s, k) \in Frame
         /\ Activation(pc, s, k).pc = pc
         /\ Activation(pc, s, k).scope = s
         /\ Activation(pc, s, k).slot = k
BY DEF Activation, Frame

\* What the stack holds while something is in progress.
LEMMA TopFacts ==
  ASSUME NEW d \in [Scopes \cup {NULL} -> Nat], Shape, Level(d), stack # << >>
  PROVE  /\ stack \in Seq(Frame) /\ Len(stack) \in Nat \ {0} /\ Top \in Frame
         /\ Len(stack) \in 1..Len(stack)
         /\ Top.scope \in Scopes \cup {NULL}
         /\ Top.pc \notin {"free", "finalizer"} => Top.scope \in open
         /\ Top.pc \notin Client => current = Top.scope
         /\ Top.pc \in Script \cup Closing => current \in open /\ current \in Scopes /\ current # NULL
<1>1. stack \in Seq(Frame) /\ Len(stack) \in Nat \ {0}
  BY EmptySeq DEF Level, Nested
<1>2. Len(stack) \in 1..Len(stack)
  BY <1>1
<1>3. Top \in Frame /\ (Top.pc \notin {"free", "finalizer"} => Top.scope \in open)
  BY <1>1, <1>2 DEF Level, Nested, Top
<1>4. Top.scope \in Scopes \cup {NULL}
  BY <1>3 DEF Frame
<1>5. Top.pc \notin Client => current = Top.scope
  BY DEF Level, InScope, Top
<1>6. Top.pc \in Script \cup Closing => Top.pc \notin {"free", "finalizer"} /\ Top.pc \notin Client
  BY DEF Script, Closing, Client
<1>7. \A s \in open : s \in Scopes /\ s # NULL
  BY ScopesAssumption DEF Shape
<1>8. QED BY <1>1, <1>2, <1>3, <1>4, <1>5, <1>6, <1>7

\* Script, callbacks and closings begin in the current scope.
LEMMA BeginLevel ==
  ASSUME NEW d \in [Scopes \cup {NULL} -> Nat], Shape, Level(d), UNCHANGED <<current, open, prev>>,
         NEW pc \in Script \cup Client \cup Closing \cup {"free"}, NEW k \in Nat,
         current # NULL \/ pc \in {"free", "finalizer"},
         stack' = Push(Activation(pc, current, k)),
         pc = "drain" => prev[current] = NULL,
         stack = << >> => pc \in {"call", "get", "free"} \cup Closing,
         stack # << >> =>
           Top.pc \in Below(pc) /\ (pc \in Closing => d[Top.scope] < d[current])
  PROVE  Level(d)'
<1> DEFINE f == Activation(pc, current, k)
<1>1. current \in open \/ (current = NULL /\ pc \in {"free", "finalizer"})
  BY DEF Level, Ranked
<1>2. current \in Scopes \cup {NULL}
  BY DEF Shape
<1>3. f \in Frame /\ f.pc = pc /\ f.scope = current
  BY <1>2 DEF Activation, Frame
<1> HIDE DEF f
<1>4. Nested(d, Append(stack, f)) /\ InScope(d, Append(stack, f))
  BY <1>1, <1>3, PushNested DEF Level, Shape, Top
<1>5. stack' = Append(stack, f)
  BY DEF Push, f
<1>6. QED BY <1>4, <1>5, KeepsLevel

LEMMA EndLevel ==
  ASSUME NEW d \in [Scopes \cup {NULL} -> Nat], Shape, Level(d), UNCHANGED <<current, open, prev>>,
         stack # << >>, current = Top.scope, stack' = Caller
  PROVE  Level(d)'
<1>1. Nested(d, Caller) /\ InScope(d, Caller)
  BY PopNested DEF Level, Shape, Top, Caller
<1>2. QED BY <1>1, KeepsLevel

\* Deaths start the loop that finalizes, unless it is in progress.
LEMMA DiesFacts ==
  ASSUME NEW d \in [Scopes \cup {NULL} -> Nat], Shape, Ranked(d),
         NEW S, Nested(d, S), InScope(d, S),
         S # << >> => S[Len(S)].pc \in Script \cup Client \cup {"release", "destroy"},
         NEW v \in Counted, Dies(v, S)
  PROVE  /\ dying' \in Seq(Counted)
         /\ Nested(d, stack') /\ InScope(d, stack')
         /\ stack' = S \/ stack' = Append(S, Activation("free", current, 0))
<1>1. dying' \in Seq(Counted)
  <2>1. dying' = <<v>> \o dying /\ dying \in Seq(Counted) /\ <<v>> \in Seq(Counted)
    BY DEF Dies, Shape
  <2>2. QED BY <2>1, ConcatProperties
<1>2. stack' = S \/ stack' = Append(S, Activation("free", current, 0))
  BY DEF Dies
<1>3. (current \in open \/ current = NULL) /\ current \in Scopes \cup {NULL}
  BY DEF Ranked, Shape
<1> DEFINE f == Activation("free", current, 0)
<1>4. f \in Frame /\ f.pc = "free" /\ f.scope = current
  BY <1>3 DEF Activation, Frame
<1> HIDE DEF f
<1>5. S # << >> => S[Len(S)].pc \in Below("free")
  BY DEF Below, Closing
<1>6. open \in SUBSET Scopes
  BY DEF Shape
<1>7. f.pc # "drain" /\ f.pc \notin Closing
  BY <1>4 DEF Closing
<1>8. Nested(d, Append(S, f)) /\ InScope(d, Append(S, f))
  BY <1>3, <1>4, <1>5, <1>6, <1>7, PushNested
<1>9. QED BY <1>1, <1>2, <1>8 DEF f

LEMMA FreeValueFacts ==
  ASSUME NEW d \in [Scopes \cup {NULL} -> Nat], Shape, Ranked(d),
         NEW S, Nested(d, S), InScope(d, S), S[Len(S)].pc \in {"release", "destroy"},
         NEW v, FreeValue(v, S)
  PROVE  /\ dying' \in Seq(Counted) /\ count' \in [Counted -> Int]
         /\ Nested(d, stack') /\ InScope(d, stack')
         /\ stack' = S \/ stack' = Append(S, Activation("free", current, 0))
<1>1. CASE stack' = S /\ UNCHANGED dying
  BY <1>1 DEF FreeValue, Shape
<1>2. CASE v \in Counted /\ Dies(v, S)
  <2>1. v # Immediate
    BY <1>2, ScopesAssumption DEF Counted
  <2>2. count' \in [Counted -> Int]
    BY <1>2, <2>1 DEF FreeValue, Shape
  <2>3. QED BY <1>2, <2>2, DiesFacts
<1>3. QED BY <1>1, <1>2 DEF FreeValue

-----------------------------------------------------------------------------
(* Scopes open and close. *)

LEMMA StepOpenScope ==
  ASSUME NEW d \in [Scopes \cup {NULL} -> Nat], Shape, Level(d), NEW s \in Scopes, OpenScope(s)
  PROVE  /\ Shape'
         /\ \E e \in [Scopes \cup {NULL} -> Nat] :
              /\ Level(e)' /\ \A t \in open : e[t] = d[t]
              /\ e[s] = IF current = NULL THEN 1 ELSE d[current] + 1
<1> DEFINE deep == IF current = NULL THEN 1 ELSE d[current] + 1
<1>1. /\ s \notin open /\ open' = open \cup {s} /\ prev' = [prev EXCEPT ![s] = current]
      /\ current' = s /\ stack' = stack
  BY DEF OpenScope
<1>2. Shape'
  <2>1. values' = [values EXCEPT ![s] = << >>] /\ dynamic' = [dynamic EXCEPT ![s] = << >>]
        /\ caught' = [caught EXCEPT ![s] = NULL] /\ UNCHANGED <<count, dying, loud>>
    BY DEF OpenScope
  <2>2. Len(<< >>) <= FixedSize /\ << >> \in Seq(Value)
    BY ScopesAssumption
  <2>3. SlotTypes'
    BY <2>1, <2>2 DEF Shape, SlotTypes
  <2>4. QED BY <1>1, <2>1, <2>3 DEF Shape
<1>3. deep \in Nat \ {0} /\ \A t \in open : d[t] \in Nat /\ d[t] < deep
  <2>1. \A t \in open : d[t] \in Nat
    BY DEF Shape
  <2>2. CASE current = NULL
    BY <2>2 DEF Level, Ranked
  <2>3. CASE current # NULL
    <3>1. current \in open /\ d[current] \in Nat /\ \A t \in open : d[t] <= d[current]
      BY <2>1, <2>3 DEF Level, Ranked
    <3>2. QED BY <2>1, <2>3, <3>1
  <2>4. QED BY <2>2, <2>3
<1>4. PICK e \in [Scopes \cup {NULL} -> Nat] :
        /\ e[s] = deep /\ e[NULL] = d[NULL]
        /\ \A t \in open : e[t] = d[t] /\ t # s /\ t \in Scopes
  <2>1. PICK e : e = [d EXCEPT ![s] = deep]
    OBVIOUS
  <2> HIDE DEF deep
  <2>2. /\ e \in [Scopes \cup {NULL} -> Nat] /\ e[s] = deep
        /\ \A t \in (Scopes \cup {NULL}) \ {s} : e[t] = d[t]
    BY <1>3, <2>1
  <2>3. \A t \in open : t # s /\ t \in Scopes
    BY <1>1 DEF Shape
  <2>4. NULL # s
    BY ScopesAssumption
  <2>5. QED BY <2>2, <2>3, <2>4
<1> HIDE DEF deep
<1>5. Ranked(e)'
  <2>1. \A t \in open' : e[t] <= e[current']
    BY <1>1, <1>3, <1>4
  <2>2. \A t \in open : prev'[t] = prev[t]
    BY <1>1, <1>4 DEF Shape
  <2>3. prev'[s] = current
    BY <1>1 DEF Shape
  <2>4. ASSUME NEW t \in open'
        PROVE  IF prev'[t] = NULL THEN e[t] = 1 ELSE prev'[t] \in open' /\ e[t] = e[prev'[t]] + 1
    <3>1. CASE t = s
      <4>1. CASE current = NULL
        BY <1>4, <2>3, <3>1, <4>1 DEF deep
      <4>2. CASE current # NULL
        <5>1. current \in open
          BY <4>2 DEF Level, Ranked
        <5>2. QED BY <1>1, <1>4, <2>3, <3>1, <4>2, <5>1 DEF deep
      <4>3. QED BY <4>1, <4>2
    <3>2. CASE t \in open
      <4>1. IF prev[t] = NULL THEN d[t] = 1 ELSE prev[t] \in open /\ d[t] = d[prev[t]] + 1
        BY <3>2 DEF Level, Ranked
      <4>2. QED BY <1>1, <1>4, <2>2, <3>2, <4>1
    <3>3. QED BY <1>1, <3>1, <3>2
  <2>5. \A t, u \in open' : e[t] = e[u] => t = u
    <3>1. \A t, u \in open : d[t] = d[u] => t = u
      BY DEF Level, Ranked
    <3>2. \A t \in open : e[t] # e[s]
      BY <1>3, <1>4
    <3>3. QED BY <1>1, <1>4, <3>1, <3>2
  <2>6. current' # NULL /\ current' \in open' /\ e[NULL] = 0
    BY <1>1, <1>4, ScopesAssumption DEF Level, Ranked
  <2>7. QED BY <1>4, <2>1, <2>4, <2>5, <2>6 DEF Ranked
<1>6. \A i \in 1..Len(stack) :
        stack[i].scope \in open \/ (stack[i].scope = NULL /\ stack[i].pc \in {"free", "finalizer"})
  BY DEF Level, Nested
<1>7. Nested(e, stack)'
  <2>1. Nested(d, stack)
    BY DEF Level
  <2>2. \A t \in open : prev'[t] = prev[t]
    BY <1>1, <1>4 DEF Shape
  <2>3. \A i \in 1..Len(stack) : e[stack[i].scope] = d[stack[i].scope]
    BY <1>4, <1>6
  <2>4. \A i \in 1..Len(stack) : stack[i].pc = "drain" => prev'[stack[i].scope] = NULL
    BY <1>6, <2>1, <2>2 DEF Nested
  <2>5. \A i \in 1..Len(stack) :
          stack[i].scope \in open' \/ (stack[i].scope = NULL /\ stack[i].pc \in {"free", "finalizer"})
    BY <1>1, <1>6
  <2>6. QED BY <1>1, <2>1, <2>3, <2>4, <2>5 DEF Nested
<1>8. InScope(e, stack)'
  <2> SUFFICES ASSUME stack # << >>
               PROVE  /\ e[Top.scope] <= e[s]
                      /\ Top.pc \in Client
    BY <1>1 DEF InScope, Top
  <2>1. Top.scope \in open \/ Top.scope = NULL
    BY <1>6, TopFacts DEF Top
  <2>2. Top.pc \in Client
    BY DEF OpenScope, ClientRuns, At
  <2>3. d[NULL] = 0
    BY DEF Level, Ranked
  <2>4. QED BY <1>3, <1>4, <2>1, <2>2, <2>3
<1>9. Level(e)' /\ e[s] = IF current = NULL THEN 1 ELSE d[current] + 1
  BY <1>4, <1>5, <1>7, <1>8 DEF Level, deep
<1>10. QED BY <1>2, <1>4, <1>9

\* The scope below the one that goes is that of the activation it was closed in, or one
\* opened there.
LEMMA StepDestroyScope ==
  ASSUME NEW d \in [Scopes \cup {NULL} -> Nat], Shape, Level(d), DestroyScope
  PROVE  Shape' /\ Level(d)'
<1> DEFINE s == Top.scope
           n == Len(stack) - 1
<1>1. /\ stack # << >> /\ Top.pc = "destroy"
      /\ open' = open \ {s} /\ current' = prev[s] /\ prev' = [prev EXCEPT ![s] = NULL]
      /\ stack' = Caller
  BY DEF DestroyScope, At
<1>2. /\ stack \in Seq(Frame) /\ s \in open /\ s = current /\ s \in Scopes
  BY <1>1, TopFacts DEF Client, Closing
<1>3. /\ Len(stack) = n + 1 /\ n \in Nat /\ Caller \in Seq(Frame) /\ Len(Caller) = n
      /\ \A i \in 1..n : Caller[i] = stack[i]
  BY <1>1, <1>2, PopFacts DEF Caller
<1> HIDE DEF s, n
<1>4. Shape'
  <2>1. values' = [values EXCEPT ![s] = << >>] /\ dynamic' = [dynamic EXCEPT ![s] = << >>]
        /\ caught' = [caught EXCEPT ![s] = NULL] /\ UNCHANGED <<count, dying, loud>>
    BY DEF DestroyScope, s
  <2>2. Len(<< >>) <= FixedSize /\ << >> \in Seq(Value)
    BY ScopesAssumption
  <2>3. SlotTypes'
    BY <2>1, <2>2 DEF Shape, SlotTypes
  <2>4. QED BY <1>1, <1>2, <2>1, <2>3 DEF Shape
<1>5. \A i \in 1..n :
        /\ d[stack[i].scope] < d[s]
        /\ stack[i].scope \in open \/ (stack[i].scope = NULL /\ stack[i].pc \in {"free", "finalizer"})
  <2>1. \A i \in 1..n : i \in 1..Len(stack) /\ Len(stack) \in 1..Len(stack) /\ i < Len(stack)
    BY <1>3
  <2>2. stack[Len(stack)].pc \in Closing /\ stack[Len(stack)].scope = s
    BY <1>1 DEF Top, Closing, s
  <2>3. QED BY <2>1, <2>2 DEF Level, Nested
<1>6. /\ \A t \in open : d[t] <= d[s] /\ d[t] \in Nat
      /\ \A t, u \in open : d[t] = d[u] => t = u
      /\ \A t \in open :
           IF prev[t] = NULL THEN d[t] = 1 ELSE prev[t] \in open /\ d[t] = d[prev[t]] + 1
  BY <1>2 DEF Level, Ranked, Shape
<1>7. \A t \in open : d[t] >= 1
  BY <1>6
<1>8. \A t \in open' : t \in open /\ t # s /\ d[t] < d[s] /\ prev'[t] = prev[t]
  BY <1>1, <1>2, <1>6 DEF Shape
<1>9. prev[s] = NULL => open' = {} /\ \A i \in 1..n : stack[i].scope = NULL
  <2> SUFFICES ASSUME prev[s] = NULL PROVE open' = {} /\ \A i \in 1..n : stack[i].scope = NULL
    OBVIOUS
  <2>1. d[s] = 1
    BY <1>2, <1>6
  <2>2. \A t \in open' : FALSE
    BY <1>6, <1>7, <1>8, <2>1
  <2>3. \A i \in 1..n : stack[i].scope = NULL
    BY <1>5, <1>6, <1>7, <2>1
  <2>4. QED BY <2>2, <2>3
<1>10. prev[s] # NULL => prev[s] \in open' /\ \A t \in open \cup {NULL} : d[t] < d[s] => d[t] <= d[prev[s]]
  <2>1. prev[s] # NULL => prev[s] \in open /\ d[s] = d[prev[s]] + 1
    BY <1>2, <1>6
  <2>2. d[NULL] = 0
    BY DEF Level, Ranked
  <2>3. QED BY <1>1, <1>6, <2>1, <2>2
<1>11. Ranked(d)'
  <2>1. \A t \in open' : IF prev'[t] = NULL THEN d[t] = 1
                         ELSE prev'[t] \in open' /\ d[t] = d[prev'[t]] + 1
    <3>1. \A t \in open' : prev[t] # NULL => prev[t] # s
      BY <1>6, <1>8
    <3>2. QED BY <1>1, <1>6, <1>8, <3>1
  <2>2. \A t \in open' : d[t] <= d[current']
    BY <1>1, <1>8, <1>9, <1>10
  <2>3. \A t, u \in open' : d[t] = d[u] => t = u
    BY <1>6, <1>8
  <2>4. (current' = NULL => open' = {}) /\ (current' # NULL => current' \in open')
    BY <1>1, <1>9, <1>10
  <2>5. d[NULL] = 0
    BY DEF Level, Ranked
  <2>6. QED BY <2>1, <2>2, <2>3, <2>4, <2>5 DEF Ranked
<1>12. \A i \in 1..n :
         /\ stack[i].scope # s
         /\ stack[i].scope \in open' \/ (stack[i].scope = NULL /\ stack[i].pc \in {"free", "finalizer"})
  <2>1. d[s] \in Nat
    BY <1>2
  <2>2. \A i \in 1..n : stack[i].scope # s
    BY <1>5, <2>1
  <2>3. QED BY <1>1, <1>5, <2>2
<1>13. Nested(d, stack)'
  <2>1. \A i \in 1..n : i \in 1..Len(stack) /\ Caller[i] = stack[i]
                        /\ (i > 1 => Caller[i - 1] = stack[i - 1])
    BY <1>3
  <2>2. Nested(d, stack)
    BY DEF Level
  <2>3. \A t \in Scopes \ {s} : prev'[t] = prev[t]
    BY <1>1 DEF Shape
  <2>4. ASSUME NEW i \in 1..n, stack[i].pc = "drain" PROVE prev'[stack[i].scope] = NULL
    <3>1. stack[i].scope \in Scopes \ {s} /\ prev[stack[i].scope] = NULL
      BY <1>5, <1>12, <2>1, <2>2, <2>4 DEF Shape, Nested
    <3>2. QED BY <2>3, <3>1
  <2>5. QED BY <1>1, <1>3, <1>12, <2>1, <2>2, <2>4 DEF Nested
<1>14. InScope(d, stack)'
  <2> SUFFICES ASSUME Caller # << >>
               PROVE  /\ d[stack[n].scope] <= d[prev[s]]
                      /\ stack[n].pc \in Client
    <3>1. Caller # << >> => n \in 1..n
      BY <1>3, EmptySeq
    <3>2. QED BY <1>1, <1>3, <3>1 DEF InScope
  <2>1. n \in 1..n /\ n # 0
    BY <1>3, EmptySeq
  <2>2. stack[n].pc \in Below(stack[n + 1].pc)
    <3>1. n + 1 \in 1..Len(stack) /\ n + 1 > 1 /\ (n + 1) - 1 = n
      BY <1>3, <2>1
    <3>2. QED BY <3>1 DEF Level, Nested
  <2>3. stack[n].pc \in Client
    BY <1>1, <1>3, <2>2 DEF Below, Closing, Top
  <2>4. d[stack[n].scope] <= d[prev[s]]
    <3>1. CASE prev[s] = NULL
      BY <1>9, <2>1, <3>1
    <3>2. CASE prev[s] # NULL
      BY <1>5, <1>10, <2>1, <3>2
    <3>3. QED BY <3>1, <3>2
  <2>5. QED BY <2>3, <2>4
<1>15. QED BY <1>4, <1>11, <1>13, <1>14 DEF Level

-----------------------------------------------------------------------------
(* Everything else leaves the scopes as they are.                          *)

\* Slots that something in progress points to: a getter's is there and empty, none is
\* another's, and none is one that ~pesapi_scope__ has passed.
Slotted(S, own) ==
  /\ \A i \in 1..Len(S) :
       /\ S[i].pc = "get" => /\ S[i].slot \in 1..Len(own[S[i].scope])
                             /\ own[S[i].scope][S[i].slot] = Immediate
       /\ S[i].pc = "destroy" => S[i].slot \in 1..(Len(own[S[i].scope]) + 1)
  /\ \A i, j \in 1..Len(S) :
       i < j /\ S[j].pc = "get" /\ S[i].scope = S[j].scope =>
         /\ S[i].pc = "get" => S[i].slot # S[j].slot
         /\ S[i].pc = "destroy" => S[i].slot <= S[j].slot

Own == [s \in Scopes |-> SlotsOf(s)]

LEMMA OwnFacts ==
  ASSUME SlotTypes, NEW s \in Scopes
  PROVE  Own[s] = SlotsOf(s) /\ Own[s] \in Seq(Value) /\ Len(Own[s]) \in Nat
<1>1. Own[s] = SlotsOf(s)
  BY DEF Own
<1>2. SlotsOf(s) \in Seq(Value)
  BY SlotsFacts
<1>3. Len(SlotsOf(s)) \in Nat
  BY <1>2, LenProperties
<1>4. QED BY <1>1, <1>2, <1>3

LEMMA FrameScopes ==
  ASSUME NEW d, Nested(d, stack)
  PROVE  /\ stack \in Seq(Frame)
         /\ \A i \in 1..Len(stack) : stack[i] \in Frame /\ stack[i].scope \in Scopes \cup {NULL}
<1>1. stack \in Seq(Frame)
  BY DEF Nested
<1>2. \A i \in 1..Len(stack) : stack[i] \in Frame
  BY <1>1
<1>3. QED BY <1>1, <1>2 DEF Frame

LEMMA SlotScopes ==
  ASSUME NEW d, Shape, Level(d)
  PROVE  \A i \in 1..Len(stack) :
           stack[i].pc \notin {"free", "finalizer"} => stack[i].scope \in open /\ stack[i].scope \in Scopes
BY DEF Level, Nested, Shape

Steady == UNCHANGED <<current, open, prev>>

LEMMA ReplaceLevel ==
  ASSUME NEW d \in [Scopes \cup {NULL} -> Nat], Shape, Level(d), Steady, stack # << >>, Top.pc \in Closing,
         NEW pc \in {"caught", "release", "destroy"}, NEW k \in Nat,
         stack' = Becomes(Activation(pc, Top.scope, k))
  PROVE  Level(d)'
<1> DEFINE f == Activation(pc, Top.scope, k)
<1>1. f \in Frame /\ f.pc = pc /\ f.scope = Top.scope
  <2>1. Top.scope \in Scopes
    BY TopFacts DEF Shape, Closing
  <2>2. QED BY <2>1 DEF Activation, Frame, Closing
<1> HIDE DEF f
<1>2. Nested(d, [stack EXCEPT ![Len(stack)] = f]) /\ InScope(d, [stack EXCEPT ![Len(stack)] = f])
  BY <1>1, ReplaceNested DEF Level, Shape, Top
<1>3. stack' = [stack EXCEPT ![Len(stack)] = f]
  BY DEF Becomes, f
<1>4. QED BY <1>2, <1>3, KeepsLevel DEF Steady

\* The destructor frees something, and goes on.
LEMMA FreeOnWay ==
  ASSUME NEW d \in [Scopes \cup {NULL} -> Nat], Shape, Level(d), Steady, stack # << >>, Top.pc \in Closing,
         NEW pc \in {"release", "destroy"}, NEW k \in Nat, NEW v,
         FreeValue(v, Becomes(Activation(pc, Top.scope, k)))
  PROVE  /\ dying' \in Seq(Counted) /\ count' \in [Counted -> Int]
         /\ Level(d)'
         /\ LET B == Becomes(Activation(pc, Top.scope, k))
            IN stack' = B \/ stack' = Append(B, Activation("free", current, 0))
<1> DEFINE f == Activation(pc, Top.scope, k)
           B == Becomes(f)
<1>1. f \in Frame /\ f.pc = pc /\ f.scope = Top.scope
  <2>1. Top.scope \in Scopes
    BY TopFacts DEF Shape, Closing
  <2>2. QED BY <2>1 DEF Activation, Frame, Closing
<1> HIDE DEF f
<1>2. Nested(d, B) /\ InScope(d, B)
  BY <1>1, ReplaceNested DEF Level, Shape, Top, Becomes
<1>3. B # << >> /\ B[Len(B)].pc = pc
  <2>1. stack \in Seq(Frame)
    BY DEF Level, Nested
  <2>2. QED BY <1>1, <2>1, ReplaceFacts DEF Becomes
<1> HIDE DEF B
<1>4. FreeValue(v, B)
  BY DEF B, f
<1>5. /\ dying' \in Seq(Counted) /\ count' \in [Counted -> Int]
      /\ Nested(d, stack') /\ InScope(d, stack')
      /\ stack' = B \/ stack' = Append(B, Activation("free", current, 0))
  BY <1>2, <1>3, <1>4, FreeValueFacts DEF Level
<1>6. Level(d)'
  BY <1>5, KeepsLevel DEF Steady
<1>7. QED BY <1>5, <1>6 DEF B, f

LEMMA GiveFacts ==
  ASSUME Shape, NEW v, Give(v)
  PROVE  v \in Value /\ count' \in [Counted -> Int]
BY DEF Give, Owned, Shape, Counted, Value

LEMMA StepCreate ==
  ASSUME NEW d \in [Scopes \cup {NULL} -> Nat], Shape, Level(d), NEW v \in Value, Create(v)
  PROVE  Shape' /\ Level(d)'
<1>1. UNCHANGED <<current, open, prev, caught, dying, stack, loud>> /\ current \in Scopes
  BY DEF Create, Shape
<1>2. SlotTypes' /\ count' \in [Counted -> Int]
  BY <1>1, AllocFacts, GiveFacts DEF Create, Shape
<1>3. Shape'
  BY <1>1, <1>2 DEF Shape
<1>4. Level(d)'
  BY <1>1, KeepsLevel DEF Level
<1>5. QED BY <1>3, <1>4

LEMMA StepEnqueueJob ==
  ASSUME NEW d \in [Scopes \cup {NULL} -> Nat], Shape, Level(d), EnqueueJob
  PROVE  Shape' /\ Level(d)'
<1>1. UNCHANGED <<current, open, prev, slots, caught, count, dying, stack, loud>>
  BY DEF EnqueueJob, Enqueues
<1>2. Shape'
  BY <1>1 DEF Shape, SlotTypes, slots
<1>3. QED BY <1>1, <1>2, KeepsLevel DEF Level

LEMMA StepCallFunction ==
  ASSUME NEW d \in [Scopes \cup {NULL} -> Nat], Shape, Level(d), CallFunction
  PROVE  Shape' /\ Level(d)'
<1>1. /\ UNCHANGED <<current, open, prev, slots, caught, count, dying>> /\ loud' \in BOOLEAN
      /\ stack' = Push(Activation("call", current, 0)) /\ current # NULL
      /\ stack # << >> => Top.pc \in Client
  BY DEF CallFunction, ClientRunsScript, ClientRuns, At, Shape
<1>2. Shape'
  BY <1>1 DEF Shape, SlotTypes, slots
<1>3. "call" \in Script /\ "call" \notin Closing /\ Below("call") = Client
  BY DEF Script, Closing, Below
<1>4. Level(d)'
  BY <1>1, <1>3, BeginLevel
<1>5. QED BY <1>2, <1>4

LEMMA StepGetProperty ==
  ASSUME NEW d \in [Scopes \cup {NULL} -> Nat], Shape, Level(d), GetProperty
  PROVE  Shape' /\ Level(d)'
<1>1. /\ UNCHANGED <<current, open, prev, caught, count, dying>> /\ loud' \in BOOLEAN
      /\ stack' = Push(Activation("get", current, Len(SlotsOf(current)) + 1)) /\ current # NULL
      /\ AllocValue(current, Immediate)
      /\ stack # << >> => Top.pc \in Client
  BY DEF GetProperty, ClientRunsScript, ClientRuns, At, Shape
<1>2. current \in Scopes /\ Immediate \in Value
  BY <1>1 DEF Shape, Value
<1>3. SlotTypes' /\ Len(SlotsOf(current)) + 1 \in Nat
  BY <1>1, <1>2, AllocFacts, SlotsFacts DEF Shape
<1>4. Shape'
  BY <1>1, <1>3 DEF Shape
<1>5. "get" \in Script /\ "get" \notin Closing /\ Below("get") = Client /\ "get" # "drain"
  BY DEF Script, Closing, Below
<1>6. Level(d)'
  <2>1. PICK k \in Nat : k = Len(SlotsOf(current)) + 1
    BY <1>3
  <2>2. stack' = Push(Activation("get", current, k)) /\ "get" \in {"call", "get", "free"} \cup Closing
    BY <1>1, <2>1
  <2>3. QED BY <1>1, <1>5, <2>2, BeginLevel
<1>7. QED BY <1>4, <1>6

LEMMA StepCloseScope ==
  ASSUME NEW d \in [Scopes \cup {NULL} -> Nat], Shape, Level(d), NEW s \in Scopes, CloseScope(s)
  PROVE  Shape' /\ Level(d)'
<1> DEFINE pc == IF prev[s] = NULL THEN "drain" ELSE "caught"
<1>1. /\ UNCHANGED <<current, open, prev, slots, caught, count, dying, loud>>
      /\ stack' = Push(Activation(pc, current, 0)) /\ current = s /\ current # NULL
      /\ stack # << >> => Top.pc \in Client /\ Top.scope # current
  BY ScopesAssumption DEF CloseScope, ClientRuns, At, EntryScope
<1>2. Shape'
  BY <1>1 DEF Shape, SlotTypes, slots
<1>3. pc \in Closing /\ Below(pc) = Client /\ (pc = "drain" => prev[current] = NULL)
  BY <1>1 DEF Closing, Below
<1>4. stack # << >> => d[Top.scope] < d[current]
  <2> SUFFICES ASSUME stack # << >> PROVE d[Top.scope] < d[current]
    OBVIOUS
  <2>1. /\ Top.scope \in open \cup {NULL} /\ current \in open /\ Top.scope # current
        /\ d[Top.scope] \in Nat /\ d[current] \in Nat
    BY <1>1, TopFacts DEF Shape, Level, Ranked, Nested, Top
  <2>2. d[current] >= 1
    <3>1. \A t \in open : d[t] >= 1
      BY RankPositive
    <3>2. QED BY <2>1, <3>1
  <2>3. d[Top.scope] # d[current]
    <3>1. CASE Top.scope = NULL
      BY <2>1, <2>2, <3>1 DEF Level, Ranked
    <3>2. CASE Top.scope # NULL
      BY <2>1, <3>2 DEF Level, Ranked
    <3>3. QED BY <3>1, <3>2
  <2>4. d[Top.scope] <= d[current]
    BY DEF Level, InScope, Top
  <2>5. QED BY <2>1, <2>3, <2>4
<1> HIDE DEF pc
<1>5. Level(d)'
  BY <1>1, <1>3, <1>4, BeginLevel
<1>6. QED BY <1>2, <1>5

LEMMA StepCallback ==
  ASSUME NEW d \in [Scopes \cup {NULL} -> Nat], Shape, Level(d), Callback
  PROVE  Shape' /\ Level(d)'
<1>1. /\ UNCHANGED <<current, open, prev, slots, caught, count, dying, loud>>
      /\ stack' = Push(Activation("callback", current, 0)) /\ stack # << >> /\ Top.pc \in Script
  BY DEF Callback, At
<1>2. Shape'
  BY <1>1 DEF Shape, SlotTypes, slots
<1>3. "callback" \in Client /\ "callback" \notin Closing /\ Below("callback") = Script
  BY DEF Client, Closing, Below
<1>4. current # NULL
  BY <1>1, TopFacts, ScopesAssumption
<1>5. Level(d)'
  BY <1>1, <1>3, <1>4, BeginLevel
<1>6. QED BY <1>2, <1>5

LEMMA StepCollect ==
  ASSUME NEW d \in [Scopes \cup {NULL} -> Nat], Shape, Level(d), NEW v \in Counted, Collect(v)
  PROVE  Shape' /\ Level(d)'
<1>1. /\ UNCHANGED <<current, open, prev, slots, caught, count, loud>>
      /\ stack # << >> => stack[Len(stack)].pc \in Script \cup Client \cup {"release", "destroy"}
      /\ Dies(v, stack)
  BY DEF Collect, At, Top
<1>2. dying' \in Seq(Counted) /\ Nested(d, stack') /\ InScope(d, stack')
  BY <1>1, DiesFacts DEF Level
<1>3. Shape'
  BY <1>1, <1>2 DEF Shape, SlotTypes, slots
<1>4. QED BY <1>1, <1>2, <1>3, KeepsLevel

LEMMA StepFinalize ==
  ASSUME NEW d \in [Scopes \cup {NULL} -> Nat], Shape, Level(d), Finalize
  PROVE  Shape' /\ Level(d)'
<1>1. /\ UNCHANGED <<current, open, prev, slots, caught, count, loud>>
      /\ stack # << >> /\ Top.pc = "free"
  BY DEF Finalize, At
<1>2. current = Top.scope
  BY <1>1, TopFacts DEF Client
<1>3. CASE dying = << >>
  <2>1. stack' = Caller /\ UNCHANGED dying
    BY <1>3 DEF Finalize
  <2>2. Shape'
    BY <1>1, <2>1 DEF Shape, SlotTypes, slots
  <2>3. QED BY <1>1, <1>2, <2>1, <2>2, EndLevel
<1>4. CASE dying # << >>
  <2>1. stack' = Push(Activation("finalizer", current, 0)) /\ dying' = Tail(dying)
    BY <1>4 DEF Finalize
  <2>2. dying' \in Seq(Counted)
    BY <1>4, <2>1 DEF Shape
  <2>3. Shape'
    BY <1>1, <2>2 DEF Shape, SlotTypes, slots
  <2>4. "finalizer" \in Client /\ "finalizer" \notin Closing /\ Below("finalizer") = {"free"}
    BY DEF Client, Closing, Below
  <2>5. Level(d)'
    BY <1>1, <1>2, <2>1, <2>4, BeginLevel
  <2>6. QED BY <2>3, <2>5
<1>5. QED BY <1>3, <1>4

LEMMA StepClientReturns ==
  ASSUME NEW d \in [Scopes \cup {NULL} -> Nat], Shape, Level(d), ClientReturns
  PROVE  Shape' /\ Level(d)'
<1>1. /\ UNCHANGED <<current, open, prev, slots, caught, count, dying, loud>>
      /\ stack # << >> /\ current = Top.scope /\ stack' = Caller
  BY DEF ClientReturns, At, EntryScope
<1>2. Shape'
  BY <1>1 DEF Shape, SlotTypes, slots
<1>3. QED BY <1>1, <1>2, EndLevel

LEMMA StepScriptReturns ==
  ASSUME NEW d \in [Scopes \cup {NULL} -> Nat], Shape, Level(d), Slotted(stack, Own),
         NEW v \in Value, ScriptReturns(v)
  PROVE  Shape' /\ Level(d)'
<1>1. /\ UNCHANGED <<current, open, prev, caught, dying, loud>>
      /\ stack # << >> /\ Top.pc \in Script /\ stack' = Caller
  BY DEF ScriptReturns, At
<1>2. current = Top.scope /\ current \in Scopes
  BY <1>1, TopFacts DEF Script, Client
<1>3. SlotTypes' /\ count' \in [Counted -> Int]
  <2>1. CASE CallReturns(v)
    BY <1>2, <2>1, AllocFacts, GiveFacts DEF CallReturns, Shape
  <2>2. CASE GetReturns(v)
    <3>1. Top.slot \in 1..Len(SlotsOf(Top.scope))
      <4>1. Len(stack) \in 1..Len(stack) /\ Top = stack[Len(stack)] /\ Top.pc = "get"
        BY <1>1, <2>2, TopFacts DEF GetReturns, Top
      <4>2. Top.slot \in 1..Len(Own[Top.scope])
        BY <4>1 DEF Slotted
      <4>3. QED BY <1>2, <4>2, OwnFacts DEF Shape
    <3>2. QED BY <1>2, <2>2, <3>1, StoreFacts, GiveFacts DEF GetReturns, Shape
  <2>3. CASE JobReturns
    BY <2>3 DEF JobReturns, Shape, SlotTypes, slots
  <2>4. QED BY <2>1, <2>2, <2>3 DEF ScriptReturns
<1>4. Shape'
  BY <1>1, <1>3 DEF Shape
<1>5. QED BY <1>1, <1>2, <1>4, EndLevel

LEMMA StepScriptThrows ==
  ASSUME NEW d \in [Scopes \cup {NULL} -> Nat], Shape, Level(d), NEW e \in Errors, ScriptThrows(e)
  PROVE  Shape' /\ Level(d)'
<1>1. /\ UNCHANGED <<current, open, prev, slots, dying, loud>>
      /\ stack # << >> /\ Top.pc \in Script /\ stack' = Caller
  BY DEF ScriptThrows, At
<1>2. current = Top.scope
  BY <1>1, TopFacts DEF Script, Client
<1>3. caught' \in [Scopes -> Errors \cup {NULL, "freed"}] /\ count' \in [Counted -> Int]
  <2>1. caught' = caught \/ \E s : caught' = [caught EXCEPT ![s] = e]
    BY DEF ScriptThrows, SetCaughtException
  <2>2. count' = count \/ count' = [count EXCEPT ![e] = @ + 1]
    BY DEF ScriptThrows, SetCaughtException, Owned
  <2>3. caught' \in [Scopes -> Errors \cup {NULL, "freed"}]
    BY <2>1 DEF Shape
  <2>4. count' \in [Counted -> Int]
    BY <2>2 DEF Shape, Counted
  <2>5. QED BY <2>3, <2>4
<1>4. Shape'
  BY <1>1, <1>3 DEF Shape, SlotTypes, slots
<1>5. QED BY <1>1, <1>2, <1>4, EndLevel

LEMMA StepDrain ==
  ASSUME NEW d \in [Scopes \cup {NULL} -> Nat], Shape, Level(d), Drain
  PROVE  Shape' /\ Level(d)'
<1>1. /\ UNCHANGED <<current, open, prev, slots, caught, count, dying, loud>>
      /\ stack # << >> /\ Top.pc = "drain"
  BY DEF Drain, At
<1>2. current # NULL
  BY <1>1, TopFacts DEF Closing
<1>3. Shape'
  BY <1>1 DEF Shape, SlotTypes, slots
<1>4. CASE jobs = << >>
  <2>1. stack' = Becomes(Activation("caught", Top.scope, 0))
    BY <1>4 DEF Drain
  <2>2. Top.pc \in Closing
    BY <1>1 DEF Closing
  <2>3. Level(d)'
    BY <1>1, <2>1, <2>2, ReplaceLevel DEF Steady
  <2>4. QED BY <1>3, <2>3
<1>5. CASE jobs # << >>
  <2>1. stack' = Push(Activation("job", current, 0))
    BY <1>5 DEF Drain
  <2>2. "job" \in Script /\ "job" \notin Closing /\ Below("job") = {"drain"}
    BY DEF Script, Closing, Below
  <2>3. Level(d)'
    BY <1>1, <1>2, <2>1, <2>2, BeginLevel
  <2>4. QED BY <1>3, <2>3
<1>6. QED BY <1>4, <1>5

LEMMA StepDestroyCaught ==
  ASSUME NEW d \in [Scopes \cup {NULL} -> Nat], Shape, Level(d), DestroyCaught
  PROVE  Shape' /\ Level(d)'
<1>1. /\ UNCHANGED <<current, open, prev, slots, caught, loud>>
      /\ stack # << >> /\ Top.pc \in Closing
  BY DEF DestroyCaught, At, Closing
<1>2. CASE caught[Top.scope] \in Errors
  <2>1. FreeValue(caught[Top.scope], Becomes(Activation("release", Top.scope, 0)))
    BY <1>2 DEF DestroyCaught
  <2>2. dying' \in Seq(Counted) /\ count' \in [Counted -> Int] /\ Level(d)'
    BY <1>1, <2>1, FreeOnWay DEF Steady
  <2>3. QED BY <1>1, <2>2 DEF Shape, SlotTypes, slots
<1>3. CASE caught[Top.scope] \notin Errors
  <2>1. stack' = Becomes(Activation("destroy", Top.scope, 1)) /\ UNCHANGED <<count, dying>>
    BY <1>3 DEF DestroyCaught
  <2>2. Level(d)'
    BY <1>1, <2>1, ReplaceLevel DEF Steady
  <2>3. QED BY <1>1, <2>1, <2>2 DEF Shape, SlotTypes, slots
<1>4. QED BY <1>2, <1>3

LEMMA StepReleaseCaught ==
  ASSUME NEW d \in [Scopes \cup {NULL} -> Nat], Shape, Level(d), ReleaseCaught
  PROVE  Shape' /\ Level(d)'
<1>1. /\ UNCHANGED <<current, open, prev, slots, count, dying, loud>>
      /\ stack # << >> /\ Top.pc \in Closing
      /\ caught' = [caught EXCEPT ![Top.scope] = "freed"]
      /\ stack' = Becomes(Activation("destroy", Top.scope, 1))
  BY DEF ReleaseCaught, At, Closing
<1>2. Level(d)'
  BY <1>1, ReplaceLevel DEF Steady
<1>3. QED BY <1>1, <1>2 DEF Shape, SlotTypes, slots

LEMMA StepDestroySlot ==
  ASSUME NEW d \in [Scopes \cup {NULL} -> Nat], Shape, Level(d), DestroySlot
  PROVE  Shape' /\ Level(d)'
<1> DEFINE v == SlotsOf(Top.scope)[Top.slot]
           k == Top.slot + 1
<1>1. /\ UNCHANGED <<current, open, prev, slots, caught, loud>>
      /\ stack # << >> /\ Top.pc \in Closing
      /\ FreeValue(v, Becomes(Activation("destroy", Top.scope, k)))
  BY DEF DestroySlot, At, Closing
<1>2. k \in Nat
  <2>1. Top \in Frame
    BY <1>1, TopFacts
  <2>2. QED BY <2>1 DEF Frame
<1> HIDE DEF v, k
<1>3. dying' \in Seq(Counted) /\ count' \in [Counted -> Int] /\ Level(d)'
  BY <1>1, <1>2, FreeOnWay DEF Steady
<1>4. QED BY <1>1, <1>3 DEF Shape, SlotTypes, slots

LEMMA StructureKept ==
  ASSUME Structure, Slotted(stack, Own), [Next]_vars
  PROVE  Structure'
<1> PICK d \in [Scopes \cup {NULL} -> Nat] : Level(d)
  BY DEF Structure
<1> USE DEF Structure
<1>1. CASE UNCHANGED vars
  BY <1>1, KeepsLevel DEF vars, slots, Shape, SlotTypes, Level
<1>2. CASE \E s \in Scopes : OpenScope(s) \/ CloseScope(s)
  BY <1>2, StepOpenScope, StepCloseScope
<1>3. CASE \E v \in Value : Create(v)
  BY <1>3, StepCreate
<1>4. CASE CallFunction \/ GetProperty \/ Callback \/ EnqueueJob
  BY <1>4, StepCallFunction, StepGetProperty, StepCallback, StepEnqueueJob
<1>5. CASE \E v \in Counted : Collect(v)
  BY <1>5, StepCollect
<1>6. CASE Returns
  BY <1>6, StepClientReturns, StepScriptReturns, StepScriptThrows DEF Returns
<1>7. CASE Engine
  BY <1>7, StepFinalize, StepDrain, StepDestroyCaught, StepReleaseCaught, StepDestroySlot,
     StepDestroyScope DEF Engine
<1>8. QED BY <1>1, <1>2, <1>3, <1>4, <1>5, <1>6, <1>7 DEF Next

-----------------------------------------------------------------------------
(* Slots in use stay where they are.                                       *)

LEMMA PopSlotted ==
  ASSUME NEW S \in Seq(Frame), S # << >>, NEW own, Slotted(S, own)
  PROVE  Slotted(SubSeq(S, 1, Len(S) - 1), own)
<1> DEFINE T == SubSeq(S, 1, Len(S) - 1)
<1>1. \A i \in 1..Len(T) : i \in 1..Len(S) /\ T[i] = S[i]
  BY PopFacts
<1> HIDE DEF T
<1>2. QED BY <1>1 DEF Slotted, T

LEMMA PushSlotted ==
  ASSUME NEW S \in Seq(Frame), NEW own, Slotted(S, own), NEW f \in Frame,
         f.pc \notin {"get", "destroy"}
  PROVE  Slotted(Append(S, f), own)
<1> DEFINE T == Append(S, f)
<1>1. \A i \in 1..Len(T) : (i \in 1..Len(S) /\ T[i] = S[i]) \/ (i = Len(T) /\ T[i] = f)
  BY PushFacts
<1>2. Len(T) \in Nat
  BY PushFacts
<1> HIDE DEF T
<1>3. QED BY <1>1, <1>2 DEF Slotted, T

LEMMA ReplaceSlotted ==
  ASSUME NEW S \in Seq(Frame), S # << >>, NEW own, Slotted(S, own), NEW f \in Frame,
         f.pc # "get", f.pc = "destroy" => f.slot \in 1..(Len(own[f.scope]) + 1)
  PROVE  Slotted([S EXCEPT ![Len(S)] = f], own)
<1> DEFINE T == [S EXCEPT ![Len(S)] = f]
<1>1. \A i \in 1..Len(T) : (i \in 1..Len(S) /\ T[i] = S[i] /\ i < Len(T)) \/ (i = Len(T) /\ T[i] = f)
  BY ReplaceFacts
<1>2. Len(T) \in Nat
  BY ReplaceFacts
<1> HIDE DEF T
<1>3. QED BY <1>1, <1>2 DEF Slotted, T

LEMMA GrowSlotted ==
  ASSUME NEW S \in Seq(Frame), NEW own, NEW grown, Slotted(S, own),
         \A i \in 1..Len(S) : S[i].pc \in {"get", "destroy"} =>
           LET a == own[S[i].scope]
               b == grown[S[i].scope]
           IN /\ Len(a) \in Nat /\ Len(b) \in Nat /\ Len(a) <= Len(b)
              /\ \A k \in 1..Len(a) : b[k] = a[k]
  PROVE  Slotted(S, grown)
<1>1. ASSUME NEW i \in 1..Len(S)
      PROVE  /\ S[i].pc = "get" => /\ S[i].slot \in 1..Len(grown[S[i].scope])
                                   /\ grown[S[i].scope][S[i].slot] = Immediate
             /\ S[i].pc = "destroy" => S[i].slot \in 1..(Len(grown[S[i].scope]) + 1)
  <2> SUFFICES ASSUME S[i].pc \in {"get", "destroy"}
               PROVE  /\ S[i].pc = "get" => /\ S[i].slot \in 1..Len(grown[S[i].scope])
                                            /\ grown[S[i].scope][S[i].slot] = Immediate
                      /\ S[i].pc = "destroy" => S[i].slot \in 1..(Len(grown[S[i].scope]) + 1)
    OBVIOUS
  <2>1. PICK a, b, k : a = own[S[i].scope] /\ b = grown[S[i].scope] /\ k = S[i].slot
    OBVIOUS
  <2>2. /\ Len(a) \in Nat /\ Len(b) \in Nat /\ Len(a) <= Len(b)
        /\ \A j \in 1..Len(a) : b[j] = a[j]
    BY <2>1
  <2>3. /\ S[i].pc = "get" => k \in 1..Len(a) /\ a[k] = Immediate
        /\ S[i].pc = "destroy" => k \in 1..(Len(a) + 1)
    <3>1. /\ S[i].pc = "get" => /\ S[i].slot \in 1..Len(own[S[i].scope])
                                /\ own[S[i].scope][S[i].slot] = Immediate
          /\ S[i].pc = "destroy" => S[i].slot \in 1..(Len(own[S[i].scope]) + 1)
      BY DEF Slotted
    <3>2. QED BY <2>1, <3>1
  <2>4. /\ S[i].pc = "get" => k \in 1..Len(b) /\ b[k] = Immediate
        /\ S[i].pc = "destroy" => k \in 1..(Len(b) + 1)
    BY <2>2, <2>3
  <2>5. QED BY <2>1, <2>4
<1>2. QED BY <1>1 DEF Slotted

\* A getter's result goes into its slot: the others keep theirs.
Fills(S, own, filled) ==
  /\ \A i \in 1..Len(S) : S[i].pc \in {"get", "destroy"} => S[i].scope \in Scopes
  /\ \A s \in Scopes : Len(filled[s]) = Len(own[s])
  /\ \A s \in Scopes : \A k \in 1..Len(own[s]) :
       filled[s][k] = own[s][k] \/ (s = S[Len(S)].scope /\ k = S[Len(S)].slot)

LEMMA StoreSlotted ==
  ASSUME NEW S \in Seq(Frame), S # << >>, S[Len(S)].pc = "get", NEW own, NEW filled, Slotted(S, own),
         Fills(S, own, filled)
  PROVE  Slotted(SubSeq(S, 1, Len(S) - 1), filled)
<1> DEFINE T == SubSeq(S, 1, Len(S) - 1)
           n == Len(S)
<1>1. \A i \in 1..Len(T) : i \in 1..n /\ i < n /\ T[i] = S[i]
  BY PopFacts
<1>2. n \in 1..n
  BY PopFacts
<1> HIDE DEF T, n
<1>3. \A i \in 1..Len(T) : T[i].pc = "get" /\ T[i].scope = S[n].scope => T[i].slot # S[n].slot
  BY <1>1, <1>2 DEF Slotted, n
<1>4. ASSUME NEW i \in 1..Len(T)
      PROVE  /\ T[i].pc = "get" => /\ T[i].slot \in 1..Len(filled[T[i].scope])
                                   /\ filled[T[i].scope][T[i].slot] = Immediate
             /\ T[i].pc = "destroy" => T[i].slot \in 1..(Len(filled[T[i].scope]) + 1)
  <2> SUFFICES ASSUME T[i].pc \in {"get", "destroy"}
               PROVE  /\ T[i].pc = "get" => /\ T[i].slot \in 1..Len(filled[T[i].scope])
                                            /\ filled[T[i].scope][T[i].slot] = Immediate
                      /\ T[i].pc = "destroy" => T[i].slot \in 1..(Len(filled[T[i].scope]) + 1)
    OBVIOUS
  <2>1. i \in 1..n /\ T[i] = S[i] /\ S[i].scope \in Scopes
    BY <1>1 DEF n, Fills
  <2>2. Len(filled[T[i].scope]) = Len(own[T[i].scope])
    BY <2>1 DEF Fills
  <2>3. /\ T[i].pc = "get" => /\ T[i].slot \in 1..Len(own[T[i].scope])
                              /\ own[T[i].scope][T[i].slot] = Immediate
        /\ T[i].pc = "destroy" => T[i].slot \in 1..(Len(own[T[i].scope]) + 1)
    BY <2>1 DEF Slotted, n
  <2>4. T[i].pc = "get" =>
          filled[T[i].scope][T[i].slot] = own[T[i].scope][T[i].slot]
    BY <1>3, <2>1, <2>3 DEF n, Fills
  <2>5. QED BY <2>2, <2>3, <2>4
<1>5. ASSUME NEW i \in 1..Len(T), NEW j \in 1..Len(T),
             i < j, T[j].pc = "get", T[i].scope = T[j].scope
      PROVE  /\ T[i].pc = "get" => T[i].slot # T[j].slot
             /\ T[i].pc = "destroy" => T[i].slot <= T[j].slot
  <2>1. i \in 1..n /\ j \in 1..n /\ T[i] = S[i] /\ T[j] = S[j]
    BY <1>1
  <2>2. S[j].pc = "get" /\ S[i].scope = S[j].scope
    BY <1>5, <2>1
  <2>3. /\ S[i].pc = "get" => S[i].slot # S[j].slot
        /\ S[i].pc = "destroy" => S[i].slot <= S[j].slot
    BY <1>5, <2>1, <2>2 DEF Slotted, n
  <2>4. QED BY <2>1, <2>3
<1>6. Slotted(T, filled)
  BY <1>4, <1>5 DEF Slotted
<1>7. QED BY <1>6 DEF T

\* Another slot changes nothing for those there are.
LEMMA AllocSlotted ==
  ASSUME NEW d \in [Scopes \cup {NULL} -> Nat], Shape, Level(d), Slotted(stack, Own), NEW v \in Value,
         current \in Scopes, AllocValue(current, v)
  PROVE  Slotted(stack, Own') /\ SlotTypes'
<1> PICK c \in Scopes : c = current
  OBVIOUS
<1>1. /\ SlotTypes'
      /\ Len(SlotsOf(c)') = Len(SlotsOf(c)) + 1
      /\ \A k \in 1..Len(SlotsOf(c)) : SlotsOf(c)'[k] = SlotsOf(c)[k]
      /\ \A t \in Scopes \ {c} : SlotsOf(t)' = SlotsOf(t)
  <2>1. SlotTypes
    BY DEF Shape
  <2>2. QED BY <2>1, AllocFacts
<1>2. ASSUME NEW t \in Scopes
      PROVE  /\ Len(Own[t]) \in Nat /\ Len(Own'[t]) \in Nat /\ Len(Own[t]) <= Len(Own'[t])
             /\ \A k \in 1..Len(Own[t]) : Own'[t][k] = Own[t][k]
  <2>1. Own[t] = SlotsOf(t) /\ Len(Own[t]) \in Nat
    BY OwnFacts DEF Shape
  <2>2. CASE t = c
    <3>1. Own'[t] = SlotsOf(t)'
      BY DEF Own
    <3>2. /\ Len(SlotsOf(t)') = Len(SlotsOf(t)) + 1
          /\ \A k \in 1..Len(SlotsOf(t)) : SlotsOf(t)'[k] = SlotsOf(t)[k]
      BY <1>1, <2>2
    <3>3. QED BY <2>1, <3>1, <3>2
  <2>3. CASE t # c
    <3>1. Own'[t] = SlotsOf(t)'
      BY DEF Own
    <3>2. QED BY <1>1, <2>1, <2>3, <3>1
  <2>4. QED BY <2>2, <2>3
<1>3. /\ stack \in Seq(Frame)
      /\ \A i \in 1..Len(stack) : stack[i].pc \in {"get", "destroy"} => stack[i].scope \in Scopes
  BY FrameScopes, SlotScopes DEF Level
<1>4. Slotted(stack, Own')
  <2>1. \A i \in 1..Len(stack) : stack[i].pc \in {"get", "destroy"} =>
          LET a == Own[stack[i].scope]
              b == Own'[stack[i].scope]
          IN /\ Len(a) \in Nat /\ Len(b) \in Nat /\ Len(a) <= Len(b)
             /\ \A k \in 1..Len(a) : b[k] = a[k]
    BY <1>2, <1>3
  <2> DEFINE own == Own
             grown == Own'
  <2>2. Slotted(stack, own)
    OBVIOUS
  <2>3. \A i \in 1..Len(stack) : stack[i].pc \in {"get", "destroy"} =>
          LET a == own[stack[i].scope]
              b == grown[stack[i].scope]
          IN /\ Len(a) \in Nat /\ Len(b) \in Nat /\ Len(a) <= Len(b)
             /\ \A k \in 1..Len(a) : b[k] = a[k]
    BY <2>1
  <2> HIDE DEF own, grown
  <2>4. Slotted(stack, grown)
    BY <1>3, <2>2, <2>3, GrowSlotted
  <2>5. QED BY <2>4 DEF grown
<1>5. QED BY <1>1, <1>4

LEMMA SameSlotted ==
  ASSUME NEW S, NEW own, NEW other, Slotted(S, own),
         \A i \in 1..Len(S) : S[i].pc \in {"get", "destroy"} => other[S[i].scope] = own[S[i].scope]
  PROVE  Slotted(S, other)
BY DEF Slotted

LEMMA SameOwn ==
  ASSUME UNCHANGED slots
  PROVE  Own' = Own
BY DEF slots, Own, SlotsOf

\* pesapi_get_property takes a slot that nobody has.
LEMMA PushGetSlotted ==
  ASSUME NEW S \in Seq(Frame), NEW own, NEW grown, Slotted(S, own), Slotted(S, grown),
         NEW f \in Frame, f.pc = "get", NEW n \in Nat, f.slot = n + 1, Len(own[f.scope]) = n,
         Len(grown[f.scope]) = n + 1, grown[f.scope][n + 1] = Immediate
  PROVE  Slotted(Append(S, f), grown)
<1> DEFINE T == Append(S, f)
<1>1. \A i \in 1..Len(T) : (i \in 1..Len(S) /\ T[i] = S[i]) \/ (i = Len(T) /\ T[i] = f)
  BY PushFacts
<1>2. Len(T) \in Nat
  BY PushFacts
<1>0. Len(T) = Len(S) + 1 /\ Len(S) \in Nat
  BY PushFacts
<1> HIDE DEF T
<1>3. \A i \in 1..Len(S) : S[i].scope = f.scope =>
        /\ S[i].pc = "get" => S[i].slot \in 1..n
        /\ S[i].pc = "destroy" => S[i].slot \in 1..(n + 1)
  BY DEF Slotted
<1>4. \A i \in 1..Len(S) : S[i].scope = f.scope =>
        /\ S[i].pc = "get" => S[i].slot # f.slot
        /\ S[i].pc = "destroy" => S[i].slot <= f.slot
  BY <1>3
<1>5. f.slot \in 1..Len(grown[f.scope]) /\ grown[f.scope][f.slot] = Immediate
  OBVIOUS
<1>6. ASSUME NEW i \in 1..Len(T)
      PROVE  /\ T[i].pc = "get" => /\ T[i].slot \in 1..Len(grown[T[i].scope])
                                   /\ grown[T[i].scope][T[i].slot] = Immediate
             /\ T[i].pc = "destroy" => T[i].slot \in 1..(Len(grown[T[i].scope]) + 1)
  <2>1. CASE i \in 1..Len(S) /\ T[i] = S[i]
    BY <2>1 DEF Slotted
  <2>2. CASE T[i] = f
    BY <1>5, <2>2
  <2>3. QED BY <1>1, <2>1, <2>2
<1>7. ASSUME NEW i \in 1..Len(T), NEW j \in 1..Len(T), i < j, T[j].pc = "get",
             T[i].scope = T[j].scope
      PROVE  /\ T[i].pc = "get" => T[i].slot # T[j].slot
             /\ T[i].pc = "destroy" => T[i].slot <= T[j].slot
  <2>1. i \in 1..Len(S) /\ T[i] = S[i]
    BY <1>0, <1>1, <1>2, <1>7
  <2>2. CASE j \in 1..Len(S) /\ T[j] = S[j]
    BY <1>7, <2>1, <2>2 DEF Slotted
  <2>3. CASE T[j] = f
    BY <1>4, <1>7, <2>1, <2>3
  <2>4. QED BY <1>1, <2>2, <2>3
<1>8. QED BY <1>6, <1>7 DEF Slotted, T

LEMMA SlottedPush ==
  ASSUME NEW S \in Seq(Frame), Slotted(S, Own), UNCHANGED slots,
         NEW pc \in (Script \cup Client \cup Closing \cup {"free"}) \ {"get", "destroy"},
         NEW s \in Scopes \cup {NULL}, NEW k \in Nat,
         stack' = Append(S, Activation(pc, s, k))
  PROVE  Slotted(stack, Own)'
<1> DEFINE f == Activation(pc, s, k)
<1>1. f \in Frame /\ f.pc \notin {"get", "destroy"}
  BY DEF Activation, Frame
<1> HIDE DEF f
<1>2. Slotted(Append(S, f), Own)
  BY <1>1, PushSlotted
<1>3. QED BY <1>2, SameOwn DEF f

LEMMA SlottedPop ==
  ASSUME NEW d, Level(d), Slotted(stack, Own), UNCHANGED slots, stack # << >>, stack' = Caller
  PROVE  Slotted(stack, Own)'
<1>1. Slotted(Caller, Own)
  BY FrameScopes, PopSlotted DEF Level, Caller
<1>2. QED BY <1>1, SameOwn

\* The destructor goes on, and what it freed may have died.
LEMMA SlottedReplace ==
  ASSUME NEW d \in [Scopes \cup {NULL} -> Nat], Shape, Level(d), Slotted(stack, Own), UNCHANGED slots, stack # << >>,
         Top.pc \in Closing, NEW pc \in {"caught", "release", "destroy"}, NEW k \in Nat,
         pc = "destroy" => k \in 1..(Len(SlotsOf(Top.scope)) + 1),
         LET B == Becomes(Activation(pc, Top.scope, k))
         IN stack' = B \/ stack' = Append(B, Activation("free", current, 0))
  PROVE  Slotted(stack, Own)'
<1> DEFINE f == Activation(pc, Top.scope, k)
           B == Becomes(f)
<1>1. Top.scope \in Scopes /\ current \in Scopes /\ stack \in Seq(Frame)
  BY TopFacts DEF Shape, Closing
<1>2. f \in Frame /\ f.pc = pc /\ f.scope = Top.scope /\ f.slot = k
  BY <1>1 DEF Activation, Frame, Closing
<1>3. f.pc = "destroy" => f.slot \in 1..(Len(Own[f.scope]) + 1)
  BY <1>1, <1>2, OwnFacts DEF Shape
<1>4. stack' = B \/ stack' = Append(B, Activation("free", current, 0))
  OBVIOUS
<1> HIDE DEF f
<1>5. Slotted(B, Own) /\ B \in Seq(Frame)
  BY <1>1, <1>2, <1>3, ReplaceSlotted, ReplaceFacts DEF Becomes
<1> HIDE DEF B
<1>6. CASE stack' = B
  BY <1>5, <1>6, SameOwn
<1>7. CASE stack' = Append(B, Activation("free", current, 0))
  <2>1. "free" \in (Script \cup Client \cup Closing \cup {"free"}) \ {"get", "destroy"} /\ 0 \in Nat
    OBVIOUS
  <2>2. QED BY <1>1, <1>5, <1>7, <2>1, SlottedPush
<1>8. QED BY <1>4, <1>6, <1>7

LEMMA SlottedOpenScope ==
  ASSUME NEW d \in [Scopes \cup {NULL} -> Nat], Shape, Level(d), Slotted(stack, Own),
         NEW s \in Scopes, OpenScope(s)
  PROVE  Slotted(stack, Own)'
<1>1. s \notin open /\ stack' = stack /\ values' = [values EXCEPT ![s] = << >>]
      /\ dynamic' = [dynamic EXCEPT ![s] = << >>]
  BY DEF OpenScope
<1>2. \A t \in Scopes \ {s} : Own'[t] = Own[t]
  BY <1>1 DEF Own, SlotsOf, Shape, SlotTypes
<1>3. \A i \in 1..Len(stack) : stack[i].pc \in {"get", "destroy"} => stack[i].scope \in Scopes \ {s}
  BY <1>1, SlotScopes
<1>4. Slotted(stack, Own')
  BY <1>2, <1>3, SameSlotted
<1>5. QED BY <1>1, <1>4

\* Nothing else that is in progress has the scope that goes.
LEMMA OthersOpen ==
  ASSUME NEW d \in [Scopes \cup {NULL} -> Nat], Shape, Level(d), stack # << >>, Top.pc \in Closing
  PROVE  \A i \in 1..Len(Caller) :
           /\ Caller[i] \in Frame /\ Caller[i].scope # Top.scope
           /\ Caller[i].pc \notin {"free", "finalizer"} => Caller[i].scope \in Scopes \ {Top.scope}
<1>1. /\ stack \in Seq(Frame) /\ Top.scope \in open /\ Top.scope \in Scopes
      /\ Len(stack) \in 1..Len(stack)
  BY TopFacts DEF Shape, Closing
<1>2. \A i \in 1..Len(Caller) : i \in 1..Len(stack) /\ i < Len(stack) /\ Caller[i] = stack[i]
  BY <1>1, PopFacts DEF Caller
<1>3. \A i \in 1..Len(Caller) :
        /\ d[Caller[i].scope] < d[Top.scope]
        /\ Caller[i].pc \notin {"free", "finalizer"} => Caller[i].scope \in Scopes
  BY <1>1, <1>2, SlotScopes DEF Level, Nested, Top
<1>4. d[Top.scope] \in Nat
  BY <1>1
<1>5. \A i \in 1..Len(Caller) : Caller[i] \in Frame
  BY <1>1, <1>2
<1>6. QED BY <1>3, <1>4, <1>5

LEMMA SlottedDestroyScope ==
  ASSUME NEW d \in [Scopes \cup {NULL} -> Nat], Shape, Level(d), Slotted(stack, Own), DestroyScope
  PROVE  Slotted(stack, Own)'
<1>1. /\ stack # << >> /\ Top.pc \in Closing /\ stack' = Caller
      /\ values' = [values EXCEPT ![Top.scope] = << >>]
      /\ dynamic' = [dynamic EXCEPT ![Top.scope] = << >>]
  BY DEF DestroyScope, At, Closing
<1>2. stack \in Seq(Frame)
  BY <1>1, TopFacts
<1>3. \A t \in Scopes \ {Top.scope} : Own'[t] = Own[t]
  BY <1>1 DEF Own, SlotsOf, Shape, SlotTypes
<1>4. \A i \in 1..Len(Caller) :
        Caller[i].pc \in {"get", "destroy"} => Caller[i].scope \in Scopes \ {Top.scope}
  BY <1>1, OthersOpen
<1>5. Slotted(Caller, Own)
  BY <1>1, <1>2, PopSlotted DEF Caller
<1>6. Slotted(Caller, Own')
  BY <1>3, <1>4, <1>5, SameSlotted
<1>7. QED BY <1>1, <1>6

LEMMA SlottedCreate ==
  ASSUME NEW d \in [Scopes \cup {NULL} -> Nat], Shape, Level(d), Slotted(stack, Own),
         NEW v \in Value, Create(v)
  PROVE  Slotted(stack, Own)'
<1>1. current \in Scopes /\ AllocValue(current, v) /\ stack' = stack
  BY DEF Create, Shape
<1>2. QED BY <1>1, AllocSlotted

LEMMA SlottedGetProperty ==
  ASSUME NEW d \in [Scopes \cup {NULL} -> Nat], Shape, Level(d), Slotted(stack, Own), GetProperty
  PROVE  Slotted(stack, Own)'
<1> PICK c : c = current
  OBVIOUS
<1>1. /\ c \in Scopes /\ Immediate \in Value /\ AllocValue(c, Immediate)
      /\ stack' = Append(stack, Activation("get", c, Len(SlotsOf(c)) + 1))
  BY DEF GetProperty, Shape, Value, Push
<1>2. /\ Slotted(stack, Own') /\ SlotTypes' /\ SlotTypes
  BY <1>1, AllocSlotted DEF Shape
<1> PICK n : n = Len(SlotsOf(c))
  OBVIOUS
<1>3. n \in Nat /\ Len(Own[c]) = n
  BY <1>1, <1>2, OwnFacts
<1>4. Len(Own'[c]) = n + 1 /\ Own'[c][n + 1] = Immediate
  <2>1. Len(SlotsOf(c)') = n + 1 /\ SlotsOf(c)'[n + 1] = Immediate
    BY <1>1, <1>2, AllocFacts
  <2>2. Own'[c] = SlotsOf(c)'
    BY <1>1 DEF Own
  <2>3. QED BY <2>1, <2>2
<1> DEFINE f == Activation("get", c, n + 1)
<1>5. f \in Frame /\ f.pc = "get" /\ f.scope = c /\ f.slot = n + 1
  BY <1>1, <1>3 DEF Activation, Frame, Script
<1>6. stack' = Append(stack, f)
  BY <1>1
<1> HIDE DEF f
<1>7. stack \in Seq(Frame)
  BY FrameScopes DEF Level
<1>8. Slotted(Append(stack, f), Own')
  <2> DEFINE g == Own'
  <2>1. Slotted(stack, g) /\ Len(g[c]) = n + 1 /\ g[c][n + 1] = Immediate
    BY <1>2, <1>4
  <2> HIDE DEF g
  <2>2. Slotted(Append(stack, f), g)
    BY <1>3, <1>5, <1>7, <2>1, PushGetSlotted
  <2>3. QED BY <2>2 DEF g
<1>9. QED BY <1>6, <1>8

LEMMA SlottedScriptReturns ==
  ASSUME NEW d \in [Scopes \cup {NULL} -> Nat], Shape, Level(d), Slotted(stack, Own),
         NEW v \in Value, ScriptReturns(v)
  PROVE  Slotted(stack, Own)'
<1>1. /\ stack # << >> /\ Top.pc \in Script /\ stack' = Caller
  BY DEF ScriptReturns, At
<1>2. /\ current = Top.scope /\ current \in Scopes /\ stack \in Seq(Frame)
      /\ Len(stack) \in 1..Len(stack)
  BY <1>1, TopFacts DEF Script, Client
<1>3. CASE CallReturns(v)
  <2>1. Slotted(stack, Own')
    BY <1>2, <1>3, AllocSlotted DEF CallReturns
  <2> DEFINE g == Own'
  <2>2. Slotted(stack, g)
    BY <2>1
  <2> HIDE DEF g
  <2>3. Slotted(Caller, g)
    BY <1>1, <1>2, <2>2, PopSlotted DEF Caller
  <2>4. QED BY <1>1, <2>3 DEF g
<1>4. CASE GetReturns(v)
  <2> PICK s, k : s = Top.scope /\ k = Top.slot
    OBVIOUS
  <2>1. Store(s, k, v) /\ s \in Scopes /\ stack[Len(stack)].pc = "get" /\ SlotTypes
        /\ stack[Len(stack)].scope = s /\ stack[Len(stack)].slot = k
    BY <1>2, <1>4 DEF GetReturns, Top, Shape
  <2>2. k \in 1..Len(SlotsOf(s))
    <3>1. k \in 1..Len(Own[s])
      BY <1>2, <2>1 DEF Slotted
    <3>2. QED BY <2>1, <3>1, OwnFacts
  <2>3. /\ Len(SlotsOf(s)') = Len(SlotsOf(s))
        /\ \A i \in 1..Len(SlotsOf(s)) : SlotsOf(s)'[i] = IF i = k THEN v ELSE SlotsOf(s)[i]
        /\ \A t \in Scopes \ {s} : SlotsOf(t)' = SlotsOf(t)
    BY <2>1, <2>2, StoreFacts
  <2>4. \A t \in Scopes : Own[t] = SlotsOf(t) /\ Own'[t] = SlotsOf(t)'
    BY DEF Own
  <2> DEFINE g == Own'
             o == Own
  <2>5. \A t \in Scopes : Len(g[t]) = Len(o[t])
    BY <2>3, <2>4
  <2>6. \A t \in Scopes : \A i \in 1..Len(o[t]) :
          g[t][i] = o[t][i] \/ (t = stack[Len(stack)].scope /\ i = stack[Len(stack)].slot)
    BY <2>1, <2>3, <2>4
  <2>7. Slotted(stack, o)
    OBVIOUS
  <2> HIDE DEF g, o
  <2>8. Slotted(Caller, g)
    <3>1. /\ stack[Len(stack)].pc = "get"
          /\ \A i \in 1..Len(stack) : stack[i].pc \in {"get", "destroy"} => stack[i].scope \in Scopes
      BY <2>1, SlotScopes
    <3>2. Fills(stack, o, g)
      BY <2>5, <2>6, <3>1 DEF Fills
    <3>3. Slotted(SubSeq(stack, 1, Len(stack) - 1), g)
      BY <1>1, <1>2, <2>7, <3>1, <3>2, StoreSlotted
    <3>4. QED BY <3>3 DEF Caller
  <2>9. QED BY <1>1, <2>8 DEF g
<1>5. CASE JobReturns
  BY <1>1, <1>5, SlottedPop DEF JobReturns
<1>6. QED BY <1>3, <1>4, <1>5 DEF ScriptReturns

LEMMA SlottedCollect ==
  ASSUME NEW d \in [Scopes \cup {NULL} -> Nat], Shape, Level(d), Slotted(stack, Own),
         NEW v \in Counted, Collect(v)
  PROVE  Slotted(stack, Own)'
<1>1. /\ UNCHANGED slots
      /\ stack' = stack \/ stack' = Append(stack, Activation("free", current, 0))
  BY DEF Collect, Dies
<1>2. current \in Scopes \cup {NULL} /\ stack \in Seq(Frame)
  BY FrameScopes DEF Shape, Level
<1>3. CASE stack' = stack
  BY <1>1, <1>3, SameOwn
<1>4. CASE stack' = Append(stack, Activation("free", current, 0))
  <2>1. "free" \in (Script \cup Client \cup Closing \cup {"free"}) \ {"get", "destroy"} /\ 0 \in Nat
    OBVIOUS
  <2>2. QED BY <1>1, <1>2, <1>4, <2>1, SlottedPush
<1>5. QED BY <1>1, <1>3, <1>4

\* Calls, callbacks, jobs, finalizers and closings begin: none of them has a slot.
LEMMA SlottedBegin ==
  ASSUME NEW d \in [Scopes \cup {NULL} -> Nat], Shape, Level(d), Slotted(stack, Own), UNCHANGED slots,
         NEW pc \in {"call", "callback", "finalizer", "job", "drain", "caught"},
         stack' = Push(Activation(pc, current, 0))
  PROVE  Slotted(stack, Own)'
<1>1. current \in Scopes \cup {NULL} /\ stack \in Seq(Frame)
  BY FrameScopes DEF Shape, Level
<1>2. pc \in (Script \cup Client \cup Closing \cup {"free"}) \ {"get", "destroy"} /\ 0 \in Nat
  BY DEF Script, Client, Closing
<1>3. QED BY <1>1, <1>2, SlottedPush DEF Push

LEMMA SlottedEngine ==
  ASSUME NEW d \in [Scopes \cup {NULL} -> Nat], Shape, Level(d), Slotted(stack, Own), Engine
  PROVE  Slotted(stack, Own)'
<1>1. CASE Finalize
  <2>1. UNCHANGED slots /\ stack # << >>
    BY <1>1 DEF Finalize, At
  <2>2. CASE stack' = Caller
    BY <2>1, <2>2, SlottedPop
  <2>3. CASE stack' = Push(Activation("finalizer", current, 0))
    BY <2>1, <2>3, SlottedBegin
  <2>4. QED BY <1>1, <2>2, <2>3 DEF Finalize
<1>2. CASE Drain
  <2>1. UNCHANGED slots /\ stack # << >> /\ Top.pc \in Closing
    BY <1>2 DEF Drain, At, Closing
  <2>2. CASE stack' = Becomes(Activation("caught", Top.scope, 0))
    <3>1. 0 \in Nat /\ "caught" \in {"caught", "release", "destroy"} /\ "caught" # "destroy"
      OBVIOUS
    <3>2. QED BY <2>1, <2>2, <3>1, SlottedReplace
  <2>3. CASE stack' = Push(Activation("job", current, 0))
    BY <2>1, <2>3, SlottedBegin
  <2>4. QED BY <1>2, <2>2, <2>3 DEF Drain
<1>3. CASE DestroyCaught
  <2>1. UNCHANGED slots /\ stack # << >> /\ Top.pc \in Closing
    BY <1>3 DEF DestroyCaught, At, Closing
  <2>2. CASE caught[Top.scope] \in Errors
    <3> DEFINE B == Becomes(Activation("release", Top.scope, 0))
    <3>1. FreeValue(caught[Top.scope], B)
      BY <1>3, <2>2 DEF DestroyCaught
    <3>2. stack' = B \/ stack' = Append(B, Activation("free", current, 0))
      BY <3>1 DEF FreeValue, Dies
    <3>3. 0 \in Nat /\ "release" \in {"caught", "release", "destroy"} /\ "release" # "destroy"
      OBVIOUS
    <3>4. QED BY <2>1, <3>2, <3>3, SlottedReplace
  <2>3. CASE caught[Top.scope] \notin Errors
    <3>1. stack' = Becomes(Activation("destroy", Top.scope, 1))
      BY <1>3, <2>3 DEF DestroyCaught
    <3>2. 1 \in Nat /\ "destroy" \in {"caught", "release", "destroy"}
          /\ 1 \in 1..(Len(SlotsOf(Top.scope)) + 1)
      BY <2>1, TopFacts, SlotsFacts, LenProperties DEF Shape, Closing
    <3>3. QED BY <2>1, <3>1, <3>2, SlottedReplace
  <2>4. QED BY <2>2, <2>3
<1>4. CASE ReleaseCaught
  <2>1. /\ UNCHANGED slots /\ stack # << >> /\ Top.pc \in Closing
        /\ stack' = Becomes(Activation("destroy", Top.scope, 1))
    BY <1>4 DEF ReleaseCaught, At, Closing
  <2>2. 1 \in Nat /\ "destroy" \in {"caught", "release", "destroy"}
        /\ 1 \in 1..(Len(SlotsOf(Top.scope)) + 1)
    BY <2>1, TopFacts, SlotsFacts, LenProperties DEF Shape, Closing
  <2>3. QED BY <2>1, <2>2, SlottedReplace
<1>5. CASE DestroySlot
  <2> DEFINE k == Top.slot + 1
             B == Becomes(Activation("destroy", Top.scope, k))
  <2>1. /\ UNCHANGED slots /\ stack # << >> /\ Top.slot \in 1..Len(SlotsOf(Top.scope))
        /\ Top.pc \in Closing /\ FreeValue(SlotsOf(Top.scope)[Top.slot], B)
    BY <1>5 DEF DestroySlot, At, Closing
  <2>2. stack' = B \/ stack' = Append(B, Activation("free", current, 0))
    BY <2>1 DEF FreeValue, Dies
  <2>3. "destroy" \in {"caught", "release", "destroy"}
        /\ k \in Nat /\ k \in 1..(Len(SlotsOf(Top.scope)) + 1)
    BY <2>1, TopFacts, SlotsFacts, LenProperties DEF Shape, Closing
  <2> HIDE DEF k
  <2>4. QED BY <2>1, <2>2, <2>3, SlottedReplace
<1>6. CASE DestroyScope
  BY <1>6, SlottedDestroyScope
<1>7. QED BY <1>1, <1>2, <1>3, <1>4, <1>5, <1>6 DEF Engine

LEMMA SlottedKept ==
  ASSUME NEW d \in [Scopes \cup {NULL} -> Nat], Shape, Level(d), Slotted(stack, Own), [Next]_vars
  PROVE  Slotted(stack, Own)'
<1>1. CASE UNCHANGED vars
  <2>1. UNCHANGED slots /\ stack' = stack
    BY <1>1 DEF vars, slots
  <2>2. Own' = Own
    BY <2>1, SameOwn
  <2>3. QED BY <2>1, <2>2
<1>2. CASE \E s \in Scopes : OpenScope(s)
  BY <1>2, SlottedOpenScope
<1>3. CASE \E s \in Scopes : CloseScope(s)
  <2>1. PICK s \in Scopes : CloseScope(s)
    BY <1>3
  <2>2. /\ UNCHANGED slots
        /\ \/ stack' = Push(Activation("drain", current, 0))
           \/ stack' = Push(Activation("caught", current, 0))
    BY <2>1 DEF CloseScope
  <2>3. QED BY <2>2, SlottedBegin
<1>4. CASE \E v \in Value : Create(v)
  BY <1>4, SlottedCreate
<1>5. CASE CallFunction
  BY <1>5, SlottedBegin DEF CallFunction
<1>6. CASE GetProperty
  BY <1>6, SlottedGetProperty
<1>7. CASE Callback
  <2>1. UNCHANGED slots /\ stack' = Push(Activation("callback", current, 0))
    BY <1>7 DEF Callback
  <2>2. QED BY <2>1, SlottedBegin
<1>8. CASE EnqueueJob
  BY <1>8, SameOwn DEF EnqueueJob, Enqueues
<1>9. CASE \E v \in Counted : Collect(v)
  BY <1>9, SlottedCollect
<1>10. CASE Returns
  <2>1. CASE \E v \in Value : ScriptReturns(v)
    BY <2>1, SlottedScriptReturns
  <2>2. CASE ClientReturns
    BY <2>2, SlottedPop DEF ClientReturns, At
  <2>3. CASE \E e \in Errors : ScriptThrows(e)
    BY <2>3, SlottedPop DEF ScriptThrows, At
  <2>4. QED BY <1>10, <2>1, <2>2, <2>3 DEF Returns
<1>11. CASE Engine
  BY <1>11, SlottedEngine
<1>12. QED BY <1>1, <1>2, <1>3, <1>4, <1>5, <1>6, <1>7, <1>8, <1>9, <1>10, <1>11 DEF Next

LEMMA SlotAwaitsFollows ==
  ASSUME Structure, Slotted(stack, Own)
  PROVE  SlotAwaits
<1> PICK d \in [Scopes \cup {NULL} -> Nat] : Level(d)
  BY DEF Structure
<1> SUFFICES ASSUME NEW i \in 1..Len(stack), stack[i].pc = "get"
             PROVE  /\ stack[i].scope \in open
                    /\ stack[i].slot \in Owning(stack[i].scope)
                    /\ SlotsOf(stack[i].scope)[stack[i].slot] = Immediate
  BY DEF SlotAwaits
<1> PICK s, k : s = stack[i].scope /\ k = stack[i].slot
  OBVIOUS
<1>1. s \in open /\ s \in Scopes
  BY DEF Level, Nested, Structure, Shape
<1>2. k \in 1..Len(SlotsOf(s)) /\ SlotsOf(s)[k] = Immediate
  <2>1. k \in 1..Len(Own[s]) /\ Own[s][k] = Immediate
    BY DEF Slotted
  <2>2. QED BY <1>1, <2>1, OwnFacts DEF Structure, Shape
<1>3. ASSUME NEW j \in 1..Len(stack), stack[j].pc = "destroy", stack[j].scope = s
      PROVE  k >= stack[j].slot
  <2>1. i # j
    BY <1>3
  <2>2. ~ (i < j)
    <3> SUFFICES ASSUME i < j PROVE FALSE
      OBVIOUS
    <3>1. stack[j].pc \in Closing
      BY <1>3 DEF Closing
    <3>2. d[s] < d[s]
      BY <1>3, <3>1 DEF Level, Nested
    <3>3. d[s] \in Nat
      BY <1>1
    <3>4. QED BY <3>2, <3>3
  <2>3. j < i
    BY <2>1, <2>2
  <2>4. QED BY <1>2, <1>3, <2>3 DEF Slotted
<1>4. QED BY <1>1, <1>2, <1>3 DEF Owning

-----------------------------------------------------------------------------
(* Theorems about the structure.                                           *)

Framed == Structure /\ Slotted(stack, Own)

LEMMA FramedInit == Init => Framed
<1> SUFFICES ASSUME Init PROVE Framed
  OBVIOUS
<1>1. SlotTypes
  BY ScopesAssumption DEF Init, SlotTypes
<1>2. Shape
  <2>1. /\ current = NULL /\ open = {} /\ prev = [s \in Scopes |-> NULL]
        /\ caught = [s \in Scopes |-> NULL] /\ count = [v \in Counted |-> 0]
        /\ dying = << >> /\ loud = FALSE
    BY DEF Init
  <2>2. dying \in Seq(Counted)
    BY <2>1
  <2>3. prev \in [Scopes -> Scopes \cup {NULL}] /\ caught \in [Scopes -> Errors \cup {NULL, "freed"}]
    BY <2>1
  <2>4. count \in [Counted -> Int]
    BY <2>1
  <2>5. current \in Scopes \cup {NULL} /\ open \in SUBSET Scopes /\ loud \in BOOLEAN
    BY <2>1
  <2>6. QED BY <1>1, <2>2, <2>3, <2>4, <2>5 DEF Shape
<1>3. stack = << >> /\ stack \in Seq(Frame) /\ Len(stack) = 0
  BY DEF Init
<1>4. PICK d \in [Scopes \cup {NULL} -> Nat] : d = [s \in Scopes \cup {NULL} |-> 0]
  OBVIOUS
<1>5. Level(d)
  BY <1>3, <1>4 DEF Init, Level, Ranked, Nested, InScope
<1>6. Slotted(stack, Own)
  BY <1>3 DEF Slotted
<1>7. QED BY <1>2, <1>4, <1>5, <1>6 DEF Framed, Structure

LEMMA FramedKept == Framed /\ [Next]_vars => Framed'
<1> SUFFICES ASSUME Framed, [Next]_vars PROVE Framed'
  OBVIOUS
<1> PICK d \in [Scopes \cup {NULL} -> Nat] : Level(d) /\ Shape /\ Slotted(stack, Own)
  BY DEF Framed, Structure
<1>1. Structure'
  BY StructureKept DEF Framed
<1>2. Slotted(stack, Own)'
  BY SlottedKept
<1>3. QED BY <1>1, <1>2 DEF Framed

LEMMA FramedAlways == Spec => []Framed
BY FramedInit, FramedKept, PTL DEF Spec

\* A getter that runs client code finds its slot where it was taken: in an open scope,
\* not yet freed and not yet filled.
THEOREM SlotsAwait == Spec => []SlotAwaits
<1>1. Framed => SlotAwaits
  BY SlotAwaitsFollows DEF Framed
<1>2. QED BY <1>1, FramedAlways, PTL

-----------------------------------------------------------------------------
(* Jobs and exceptions.                                                    *)

\* The outermost scope is closed by the main program, or by the finalizer of an object that
\* died while no scope was open.
LEMMA OutermostFirst ==
  ASSUME NEW d \in [Scopes \cup {NULL} -> Nat], Shape, Level(d), NEW i \in 1..Len(stack),
         stack[i].pc \in Closing, prev[stack[i].scope] = NULL
  PROVE  \A j \in 1..Len(stack) :
           j < i => stack[j].scope = NULL /\ stack[j].pc \in {"free", "finalizer"}
<1>1. stack[i].scope \in open
  BY DEF Level, Nested, Closing
<1>2. d[stack[i].scope] = 1
  BY <1>1 DEF Level, Ranked
<1> SUFFICES ASSUME NEW j \in 1..Len(stack), j < i
             PROVE  stack[j].scope = NULL /\ stack[j].pc \in {"free", "finalizer"}
  OBVIOUS
<1>3. d[stack[j].scope] < 1
  BY <1>2 DEF Level, Nested
<1>4. stack[j].scope \notin open
  <2>1. \A s \in open : d[s] \in Nat /\ d[s] >= 1
    BY RankPositive
  <2>2. QED BY <1>3, <2>1
<1>5. QED BY <1>4 DEF Level, Nested

LEMMA JobOverDrain ==
  ASSUME NEW d \in [Scopes \cup {NULL} -> Nat], Shape, Level(d), NEW i \in 1..Len(stack),
         stack[i].pc = "job"
  PROVE  \A j \in 1..Len(stack) : j < i => stack[j].pc \in {"free", "finalizer", "drain"}
<1>1. stack \in Seq(Frame) /\ Len(stack) \in Nat
  BY DEF Level, Nested
<1>2. i # 1
  BY DEF Level, Nested, Closing
<1>3. i > 1 /\ i - 1 \in 1..Len(stack)
  BY <1>1, <1>2
<1>4. stack[i - 1].pc = "drain" /\ stack[i - 1].pc \in Closing
  BY <1>3 DEF Level, Nested, Below, Closing
<1>5. prev[stack[i - 1].scope] = NULL
  BY <1>3, <1>4 DEF Level, Nested
<1> SUFFICES ASSUME NEW j \in 1..Len(stack), j < i
             PROVE  stack[j].pc \in {"free", "finalizer", "drain"}
  OBVIOUS
<1>6. CASE j = i - 1
  BY <1>4, <1>6
<1>7. CASE j < i - 1
  BY <1>3, <1>4, <1>5, <1>7, OutermostFirst
<1>8. QED BY <1>1, <1>6, <1>7

\* Jobs run to completion, whatever nesting of calls and callbacks enqueued them.
THEOREM JobsRunToCompletion == Spec => []RunToCompletion
<1>1. Framed => RunToCompletion
  <2> SUFFICES ASSUME Framed, NEW i \in 1..Len(stack), NEW j \in 1..Len(stack),
                      stack[i].pc = "job", stack[j].pc \in Script, j < i
               PROVE  FALSE
    BY DEF RunToCompletion
  <2> PICK d \in [Scopes \cup {NULL} -> Nat] : Level(d) /\ Shape
    BY DEF Framed, Structure
  <2>1. stack[j].pc \in {"free", "finalizer", "drain"}
    BY JobOverDrain
  <2>2. QED BY <2>1 DEF Script
<1>2. QED BY <1>1, FramedAlways, PTL

\* Nothing but finalizers comes between a destructor and script above it.
LEMMA NoScriptOver ==
  ASSUME NEW d, Shape, Nested(d, stack), NEW i \in 1..Len(stack), NEW j \in 1..Len(stack), i < j,
         stack[i].pc \in {"caught", "release", "destroy"}, stack[j].pc \in Script
  PROVE  \E k \in 1..Len(stack) : k < j /\ stack[k].pc = "finalizer" /\ stack[k].scope # NULL
<1>1. stack \in Seq(Frame) /\ Len(stack) \in Nat
  BY DEF Nested
<1>2. \A k \in 1..Len(stack) : k > 1 => stack[k - 1].pc \in Below(stack[k].pc)
  BY DEF Nested
<1>3. i + 1 \in 1..Len(stack) /\ i + 1 > 1 /\ (i + 1) - 1 = i
  BY <1>1
<1>4. stack[i].pc \in Below(stack[i + 1].pc) /\ stack[i + 1] \in Frame
  BY <1>1, <1>2, <1>3
<1>5. stack[i + 1].pc = "free"
  BY <1>4 DEF Below, Frame, Script, Client, Closing
<1>6. j # i + 1
  BY <1>5 DEF Script
<1>7. i + 2 \in 1..Len(stack) /\ i + 2 > 1 /\ (i + 2) - 1 = i + 1
  BY <1>1, <1>3, <1>6
<1>8. stack[i + 1].pc \in Below(stack[i + 2].pc) /\ stack[i + 2] \in Frame
  BY <1>1, <1>2, <1>7
<1>9. stack[i + 2].pc = "finalizer"
  BY <1>5, <1>8 DEF Below, Frame, Script, Client, Closing
<1>10. stack[i + 2].scope # NULL
  <2>1. stack[i].scope \in open /\ stack[i].scope \in Scopes
    BY DEF Nested, Shape
  <2>2. stack[i + 1].scope = stack[i].scope /\ stack[i + 2].scope = stack[i + 1].scope
    BY <1>3, <1>5, <1>7 DEF Nested, Client
  <2>3. QED BY <2>1, <2>2, ScopesAssumption
<1>11. j # i + 2
  BY <1>9 DEF Script
<1>12. i + 2 < j
  BY <1>1, <1>6, <1>11
<1>13. QED BY <1>7, <1>9, <1>10, <1>12

\* As long as finalizers call no script ...
Silent(S) ==
  \A i, j \in 1..Len(S) :
    i < j => ~(S[i].pc = "finalizer" /\ S[i].scope # NULL /\ S[j].pc \in Script)

\* ... `caught' dangles in the rest of the destructor only.
Destroying(S) == {S[i].scope : i \in {k \in 1..Len(S) : S[k].pc = "destroy"}}

Calm(S) ==
  /\ ~loud => Silent(S)
  /\ \A s \in Scopes : caught[s] = "freed" => s \in Destroying(S)

LEMMA PushTrack ==
  ASSUME NEW S \in Seq(Frame), NEW f \in Frame
  PROVE  /\ Destroying(S) \subseteq Destroying(Append(S, f))
         /\ Silent(S) /\ (f.pc \in Script =>
                            \A i \in 1..Len(S) : S[i].pc = "finalizer" => S[i].scope = NULL) =>
              Silent(Append(S, f))
<1> DEFINE T == Append(S, f)
<1>1. /\ T \in Seq(Frame) /\ Len(T) = Len(S) + 1 /\ T[Len(S) + 1] = f /\ Len(S) \in Nat
      /\ \A i \in 1..Len(S) : T[i] = S[i]
  BY PushFacts
<1> HIDE DEF T
<1>2. \A i \in 1..Len(S) : i \in 1..Len(T)
  BY <1>1
<1>3. Destroying(S) \subseteq Destroying(T)
  BY <1>1, <1>2 DEF Destroying
<1>4. ASSUME Silent(S),
             f.pc \in Script => \A i \in 1..Len(S) : S[i].pc = "finalizer" => S[i].scope = NULL,
             NEW i \in 1..Len(T), NEW j \in 1..Len(T), i < j
      PROVE  ~(T[i].pc = "finalizer" /\ T[i].scope # NULL /\ T[j].pc \in Script)
  <2>1. i \in 1..Len(S) /\ T[i] = S[i]
    BY <1>1, <1>4
  <2>2. CASE j \in 1..Len(S)
    BY <1>1, <1>4, <2>1, <2>2 DEF Silent
  <2>3. CASE j = Len(S) + 1
    BY <1>1, <1>4, <2>1, <2>3
  <2>4. QED BY <1>1, <2>2, <2>3
<1>5. QED BY <1>3, <1>4 DEF Silent, T

LEMMA PopTrack ==
  ASSUME NEW S \in Seq(Frame), S # << >>
  PROVE  LET T == SubSeq(S, 1, Len(S) - 1)
         IN /\ \A s \in Destroying(S) : s \in Destroying(T)
                                        \/ (S[Len(S)].pc = "destroy" /\ s = S[Len(S)].scope)
            /\ Silent(S) => Silent(T)
<1> DEFINE T == SubSeq(S, 1, Len(S) - 1)
<1>1. /\ T \in Seq(Frame) /\ Len(T) = Len(S) - 1 /\ Len(S) \in Nat \ {0}
      /\ \A i \in 1..(Len(S) - 1) : T[i] = S[i]
  BY PopFacts
<1> HIDE DEF T
<1>2. \A i \in 1..Len(T) : i \in 1..Len(S) /\ T[i] = S[i]
  BY <1>1
<1>3. \A i \in 1..Len(S) : (i \in 1..Len(T) /\ T[i] = S[i]) \/ i = Len(S)
  BY <1>1
<1>4. \A s \in Destroying(S) : s \in Destroying(T)
                               \/ (S[Len(S)].pc = "destroy" /\ s = S[Len(S)].scope)
  BY <1>3 DEF Destroying
<1>5. Silent(S) => Silent(T)
  BY <1>2 DEF Silent
<1>6. QED BY <1>4, <1>5 DEF T

LEMMA ReplaceTrack ==
  ASSUME NEW S \in Seq(Frame), S # << >>, NEW f \in Frame, f.pc \in Closing,
         S[Len(S)].pc = "destroy" => f.pc = "destroy" /\ f.scope = S[Len(S)].scope
  PROVE  LET T == [S EXCEPT ![Len(S)] = f]
         IN /\ Destroying(S) \subseteq Destroying(T)
            /\ f.pc = "destroy" => f.scope \in Destroying(T)
            /\ Silent(S) => Silent(T)
<1> DEFINE T == [S EXCEPT ![Len(S)] = f]
<1>1. /\ T \in Seq(Frame) /\ Len(T) = Len(S) /\ Len(S) \in Nat \ {0} /\ T[Len(S)] = f
      /\ \A i \in 1..(Len(S) - 1) : T[i] = S[i]
  BY ReplaceFacts, EmptySeq
<1> HIDE DEF T
<1>2. \A i \in 1..Len(S) : i \in 1..Len(T) /\ (T[i] = S[i] \/ (i = Len(S) /\ T[i] = f))
  BY <1>1
<1>3. Destroying(S) \subseteq Destroying(T)
  BY <1>2 DEF Destroying
<1>4. f.pc = "destroy" => f.scope \in Destroying(T)
  <2>1. Len(S) \in 1..Len(T)
    BY <1>1
  <2>2. QED BY <1>1, <2>1 DEF Destroying
<1>5. f.pc # "finalizer" /\ f.pc \notin Script
  BY DEF Closing, Script
<1>6. Silent(S) => Silent(T)
  BY <1>1, <1>2, <1>5 DEF Silent
<1>7. QED BY <1>3, <1>4, <1>6 DEF T

LEMMA CalmStays ==
  ASSUME NEW S, Calm(S), UNCHANGED <<caught, loud>>, stack' = S
  PROVE  Calm(stack)'
BY DEF Calm

\* Anything but script begins.
LEMMA CalmPush ==
  ASSUME NEW S \in Seq(Frame), Calm(S), NEW f \in Frame, f.pc \notin Script
  PROVE  Calm(Append(S, f))
<1>1. Destroying(S) \subseteq Destroying(Append(S, f)) /\ (Silent(S) => Silent(Append(S, f)))
  BY PushTrack
<1>2. QED BY <1>1 DEF Calm

LEMMA CalmPop ==
  ASSUME NEW S \in Seq(Frame), S # << >>, Calm(S), S[Len(S)].pc # "destroy"
  PROVE  Calm(SubSeq(S, 1, Len(S) - 1))
<1> DEFINE T == SubSeq(S, 1, Len(S) - 1)
<1>1. Destroying(S) \subseteq Destroying(T) /\ (Silent(S) => Silent(T))
  BY PopTrack
<1>2. QED BY <1>1 DEF Calm

\* Callbacks, finalizers and closings begin.
LEMMA CalmBegin ==
  ASSUME NEW S \in Seq(Frame), Shape, Calm(S), UNCHANGED <<caught, loud>>,
         NEW pc \in Client \cup Closing \cup {"free"},
         stack' = Append(S, Activation(pc, current, 0))
  PROVE  Calm(stack)'
<1> DEFINE f == Activation(pc, current, 0)
<1>1. f \in Frame /\ f.pc = pc
  <2>1. current \in Scopes \cup {NULL} /\ 0 \in Nat
    BY DEF Shape
  <2>2. QED BY <2>1 DEF Activation, Frame
<1>2. pc \notin Script
  BY DEF Script, Client, Closing
<1>3. stack' = Append(S, f)
  OBVIOUS
<1> HIDE DEF f
<1>4. Calm(Append(S, f))
  BY <1>1, <1>2, CalmPush
<1>5. QED BY <1>3, <1>4, CalmStays

\* The destructor goes on.
LEMMA CalmGoesOn ==
  ASSUME NEW d \in [Scopes \cup {NULL} -> Nat], Shape, Level(d), Calm(stack), stack # << >>,
         Top.pc \in Closing, NEW pc \in {"caught", "release", "destroy"}, NEW k \in Nat,
         Top.pc = "destroy" => pc = "destroy"
  PROVE  LET B == Becomes(Activation(pc, Top.scope, k))
         IN /\ B \in Seq(Frame) /\ Calm(B)
            /\ pc = "destroy" => Top.scope \in Destroying(B)
<1> DEFINE f == Activation(pc, Top.scope, k)
<1>1. Top.scope \in Scopes \cup {NULL} /\ stack \in Seq(Frame) /\ Len(stack) \in 1..Len(stack)
  BY TopFacts
<1>2. f \in Frame /\ f.pc = pc /\ f.scope = Top.scope
  BY <1>1 DEF Activation, Frame, Closing
<1>3. f.pc \in Closing
  BY <1>2 DEF Closing
<1> HIDE DEF f
<1> DEFINE T == [stack EXCEPT ![Len(stack)] = f]
<1>4. stack[Len(stack)].pc = "destroy" => f.pc = "destroy" /\ f.scope = stack[Len(stack)].scope
  BY <1>2 DEF Top
<1>5. /\ Destroying(stack) \subseteq Destroying(T) /\ (Silent(stack) => Silent(T))
      /\ f.pc = "destroy" => f.scope \in Destroying(T)
  BY <1>1, <1>2, <1>3, <1>4, ReplaceTrack
<1>6. T \in Seq(Frame)
  BY <1>1, <1>2, ReplaceFacts
<1>7. Calm(T)
  BY <1>5 DEF Calm
<1>8. Becomes(f) = T
  BY DEF Becomes
<1> HIDE DEF T
<1>9. QED BY <1>2, <1>5, <1>6, <1>7, <1>8 DEF f

\* ... and what it freed may have died.
LEMMA CalmFrees ==
  ASSUME NEW d \in [Scopes \cup {NULL} -> Nat], Shape, Level(d), Calm(stack), stack # << >>,
         Top.pc \in Closing, UNCHANGED <<caught, loud>>,
         NEW pc \in {"caught", "release", "destroy"}, NEW k \in Nat,
         Top.pc = "destroy" => pc = "destroy",
         LET B == Becomes(Activation(pc, Top.scope, k))
         IN stack' = B \/ stack' = Append(B, Activation("free", current, 0))
  PROVE  Calm(stack)'
<1> DEFINE B == Becomes(Activation(pc, Top.scope, k))
<1>1. B \in Seq(Frame) /\ Calm(B)
  BY CalmGoesOn
<1>2. stack' = B \/ stack' = Append(B, Activation("free", current, 0))
  OBVIOUS
<1> HIDE DEF B
<1>3. CASE stack' = B
  BY <1>1, <1>3, CalmStays
<1>4. CASE stack' = Append(B, Activation("free", current, 0))
  BY <1>1, <1>4, CalmBegin
<1>5. QED BY <1>2, <1>3, <1>4

LEMMA CalmReturn ==
  ASSUME NEW d, Level(d), Calm(stack), UNCHANGED <<caught, loud>>,
         stack # << >>, Top.pc # "destroy", stack' = Caller
  PROVE  Calm(stack)'
<1>1. Calm(Caller)
  BY FrameScopes, CalmPop DEF Level, Top, Caller
<1>2. QED BY <1>1, CalmStays

LEMMA CalmOpenScope ==
  ASSUME Shape, Calm(stack), NEW s \in Scopes, OpenScope(s)
  PROVE  Calm(stack)'
<1>1. caught' = [caught EXCEPT ![s] = NULL] /\ UNCHANGED <<loud, stack>>
  BY DEF OpenScope
<1>2. \A t \in Scopes : caught'[t] = "freed" => t \in Destroying(stack)
  BY <1>1, ScopesAssumption DEF Calm, Shape
<1>3. QED BY <1>1, <1>2 DEF Calm

\* A callback runs under script, so no finalizer with a scope is below it.
LEMMA NoFinalizerBelow ==
  ASSUME NEW d, Level(d), Silent(stack), stack # << >> => Top.pc = "callback"
  PROVE  \A i \in 1..Len(stack) : stack[i].pc = "finalizer" => stack[i].scope = NULL
<1> SUFFICES ASSUME NEW i \in 1..Len(stack), stack[i].pc = "finalizer", stack[i].scope # NULL
             PROVE  FALSE
  OBVIOUS
<1> DEFINE n == Len(stack)
<1>1. stack \in Seq(Frame) /\ n \in Nat /\ stack # << >> /\ n \in 1..n
  BY EmptySeq DEF Level, Nested
<1>2. stack[n].pc = "callback"
  BY <1>1 DEF Top
<1>3. i < n /\ n > 1
  BY <1>1, <1>2
<1>4. stack[n - 1].pc \in Script /\ n - 1 \in 1..n
  BY <1>1, <1>2, <1>3 DEF Level, Nested, Below, Closing
<1>5. i # n - 1
  BY <1>4 DEF Script
<1>6. i < n - 1
  BY <1>1, <1>3, <1>5
<1>7. QED BY <1>4, <1>6 DEF Silent

LEMMA CalmCall ==
  ASSUME NEW d, Level(d), Shape, Calm(stack), UNCHANGED caught,
         ClientRunsScript, loud' = (loud \/ At({"finalizer"})),
         NEW pc \in {"call", "get"}, NEW k \in Nat, stack' = Push(Activation(pc, current, k))
  PROVE  Calm(stack)'
<1> DEFINE f == Activation(pc, current, k)
<1>1. stack \in Seq(Frame)
  BY FrameScopes DEF Level
<1>2. f \in Frame
  BY ActivationFacts DEF Shape, Script
<1>3. stack' = Append(stack, f)
  BY DEF Push
<1> HIDE DEF f
<1>4. Destroying(stack) \subseteq Destroying(Append(stack, f))
  BY <1>1, <1>2, PushTrack
<1>5. ~loud' => ~loud /\ Silent(stack) /\ (stack # << >> => Top.pc = "callback")
  BY DEF Calm, ClientRunsScript, ClientRuns, At, Client, Shape
<1>6. ~loud' => Silent(Append(stack, f))
  BY <1>1, <1>2, <1>5, NoFinalizerBelow, PushTrack
<1>7. QED BY <1>3, <1>4, <1>6 DEF Calm

LEMMA NoneBelowScript ==
  ASSUME NEW d, Shape, Level(d), Silent(stack), stack # << >>, Top.pc \in Script,
         NEW i \in 1..Len(stack)
  PROVE  stack[i].pc \notin {"caught", "release", "destroy"}
<1> SUFFICES ASSUME stack[i].pc \in {"caught", "release", "destroy"} PROVE FALSE
  OBVIOUS
<1>1. stack \in Seq(Frame) /\ Len(stack) \in Nat /\ Len(stack) \in 1..Len(stack)
  BY EmptySeq DEF Level, Nested
<1>2. stack[Len(stack)].pc \in Script
  BY DEF Top
<1>3. i # Len(stack)
  BY <1>2 DEF Script
<1>4. i < Len(stack)
  BY <1>1, <1>3
<1>5. PICK k \in 1..Len(stack) : k < Len(stack) /\ stack[k].pc = "finalizer" /\ stack[k].scope # NULL
  BY <1>1, <1>2, <1>4, NoScriptOver DEF Level
<1>6. QED BY <1>1, <1>2, <1>5 DEF Silent

LEMMA CalmScriptThrows ==
  ASSUME NEW d \in [Scopes \cup {NULL} -> Nat], Shape, Level(d), Calm(stack), NEW e \in Errors, ScriptThrows(e)
  PROVE  Calm(stack)'
<1>1. UNCHANGED loud /\ stack # << >> /\ Top.pc \in Script /\ stack' = Caller
  BY DEF ScriptThrows, At
<1>2. stack \in Seq(Frame) /\ Top.pc # "destroy"
  BY <1>1, TopFacts DEF Script
<1>3. Calm(Caller)
  BY <1>1, <1>2, CalmPop DEF Top, Caller
<1>4. \A s \in Scopes : caught'[s] = "freed" => caught[s] = "freed"
  BY ScopesAssumption DEF ScriptThrows, SetCaughtException, Shape
<1>5. QED BY <1>1, <1>3, <1>4 DEF Calm

\* A job runs over the loop of the outermost scope, under which are finalizers without a
\* scope at most.
LEMMA CalmDrain ==
  ASSUME NEW d \in [Scopes \cup {NULL} -> Nat], Shape, Level(d), Calm(stack), Drain
  PROVE  Calm(stack)'
<1>1. UNCHANGED <<caught, loud>> /\ stack # << >> /\ Top.pc = "drain"
  BY DEF Drain, At
<1>2. CASE jobs = << >>
  <2>1. stack' = Becomes(Activation("caught", Top.scope, 0))
    BY <1>2 DEF Drain
  <2>2. "caught" \in {"caught", "release", "destroy"} /\ 0 \in Nat /\ Top.pc \in Closing
    BY <1>1 DEF Closing
  <2>3. Top.pc # "destroy"
    BY <1>1
  <2>4. QED BY <1>1, <2>1, <2>2, <2>3, CalmFrees
<1>3. CASE jobs # << >>
  <2> DEFINE f == Activation("job", current, 0)
  <2>1. stack' = Append(stack, f)
    BY <1>3 DEF Drain, Push
  <2>2. stack \in Seq(Frame) /\ Len(stack) \in Nat /\ Len(stack) \in 1..Len(stack)
    BY <1>1, TopFacts
  <2>3. f \in Frame
    BY ActivationFacts DEF Shape, Script
  <2> HIDE DEF f
  <2>4. \A i \in 1..Len(stack) : stack[i].pc = "finalizer" => stack[i].scope = NULL
    <3>1. stack[Len(stack)].pc = "drain" /\ stack[Len(stack)].pc \in Closing
      BY <1>1 DEF Top, Closing
    <3>2. prev[stack[Len(stack)].scope] = NULL
      BY <2>2, <3>1 DEF Level, Nested
    <3>3. \A i \in 1..Len(stack) : i < Len(stack) => stack[i].scope = NULL
      BY <2>2, <3>1, <3>2, OutermostFirst
    <3>4. \A i \in 1..Len(stack) : i < Len(stack) \/ i = Len(stack)
      BY <2>2
    <3>5. QED BY <3>1, <3>3, <3>4
  <2>5. /\ Destroying(stack) \subseteq Destroying(Append(stack, f))
        /\ Silent(stack) => Silent(Append(stack, f))
    BY <2>2, <2>3, <2>4, PushTrack
  <2>6. QED BY <1>1, <2>1, <2>5 DEF Calm
<1>4. QED BY <1>2, <1>3

LEMMA CalmReleaseCaught ==
  ASSUME NEW d \in [Scopes \cup {NULL} -> Nat], Shape, Level(d), Calm(stack), ReleaseCaught
  PROVE  Calm(stack)'
<1> DEFINE T == Becomes(Activation("destroy", Top.scope, 1))
<1>1. /\ UNCHANGED loud /\ stack # << >> /\ Top.pc = "release" /\ Top.pc \in Closing
      /\ caught' = [caught EXCEPT ![Top.scope] = "freed"] /\ stack' = T
  BY DEF ReleaseCaught, At, Closing
<1>2. "destroy" \in {"caught", "release", "destroy"} /\ 1 \in Nat
  OBVIOUS
<1>3. Calm(T) /\ Top.scope \in Destroying(T)
  BY <1>1, <1>2, CalmGoesOn
<1> HIDE DEF T
<1>4. \A s \in Scopes : caught'[s] = "freed" => s \in Destroying(T)
  BY <1>1, <1>3 DEF Calm, Shape
<1>5. QED BY <1>1, <1>3, <1>4 DEF Calm

LEMMA CalmDestroyScope ==
  ASSUME NEW d \in [Scopes \cup {NULL} -> Nat], Shape, Level(d), Calm(stack), DestroyScope
  PROVE  Calm(stack)'
<1> PICK s : s = Top.scope
  OBVIOUS
<1>1. /\ stack # << >> /\ stack' = Caller
      /\ caught' = [caught EXCEPT ![s] = NULL] /\ UNCHANGED loud
  BY DEF DestroyScope, At
<1>2. stack \in Seq(Frame)
  BY <1>1, TopFacts
<1>3. /\ \A t \in Destroying(stack) : t \in Destroying(Caller) \/ t = s
      /\ Silent(stack) => Silent(Caller)
  BY <1>1, <1>2, PopTrack DEF Caller, Top
<1>4. \A t \in Scopes : caught'[t] = "freed" => t \in Destroying(Caller)
  BY <1>1, <1>3, ScopesAssumption DEF Calm, Shape
<1>5. QED BY <1>1, <1>3, <1>4 DEF Calm

LEMMA CalmEngine ==
  ASSUME NEW d \in [Scopes \cup {NULL} -> Nat], Shape, Level(d), Calm(stack), Engine
  PROVE  Calm(stack)'
<1>1. CASE Finalize
  <2>1. UNCHANGED <<caught, loud>> /\ stack # << >> /\ Top.pc # "destroy" /\ stack \in Seq(Frame)
    BY <1>1, TopFacts DEF Finalize, At
  <2>2. CASE stack' = Caller
    BY <2>1, <2>2, CalmReturn
  <2>3. CASE stack' = Push(Activation("finalizer", current, 0))
    BY <2>1, <2>3, CalmBegin DEF Client, Push
  <2>4. QED BY <1>1, <2>2, <2>3 DEF Finalize
<1>2. CASE Drain
  BY <1>2, CalmDrain
<1>3. CASE DestroyCaught
  <2>1. /\ UNCHANGED <<caught, loud>> /\ stack # << >> /\ Top.pc = "caught"
        /\ Top.pc \in Closing
    BY <1>3 DEF DestroyCaught, At, Closing
  <2>2. Top.pc # "destroy" /\ 0 \in Nat /\ 1 \in Nat
        /\ "release" \in {"caught", "release", "destroy"}
        /\ "destroy" \in {"caught", "release", "destroy"}
    BY <2>1
  <2>3. CASE caught[Top.scope] \in Errors
    <3> DEFINE B == Becomes(Activation("release", Top.scope, 0))
    <3>1. FreeValue(caught[Top.scope], B)
      BY <1>3, <2>3 DEF DestroyCaught
    <3>2. stack' = B \/ stack' = Append(B, Activation("free", current, 0))
      BY <3>1 DEF FreeValue, Dies
    <3>3. QED BY <2>1, <2>2, <3>2, CalmFrees
  <2>4. CASE caught[Top.scope] \notin Errors
    <3>1. stack' = Becomes(Activation("destroy", Top.scope, 1))
      BY <1>3, <2>4 DEF DestroyCaught
    <3>2. QED BY <2>1, <2>2, <3>1, CalmFrees
  <2>5. QED BY <2>3, <2>4
<1>4. CASE ReleaseCaught
  BY <1>4, CalmReleaseCaught
<1>5. CASE DestroySlot
  <2> DEFINE k == Top.slot + 1
             B == Becomes(Activation("destroy", Top.scope, k))
  <2>1. /\ UNCHANGED <<caught, loud>> /\ stack # << >> /\ Top.pc = "destroy"
        /\ Top.pc \in Closing /\ FreeValue(SlotsOf(Top.scope)[Top.slot], B)
    BY <1>5 DEF DestroySlot, At, Closing
  <2>2. stack' = B \/ stack' = Append(B, Activation("free", current, 0))
    BY <2>1 DEF FreeValue, Dies
  <2>3. k \in Nat /\ "destroy" \in {"caught", "release", "destroy"}
    <3>1. stack # << >>
      BY <2>1
    <3>2. Top \in Frame
      BY <3>1, TopFacts
    <3>3. Top.slot \in Nat
      BY <3>2 DEF Frame
    <3>4. QED BY <3>3
  <2> HIDE DEF k
  <2>4. QED BY <2>1, <2>2, <2>3, CalmFrees
<1>6. CASE DestroyScope
  BY <1>6, CalmDestroyScope
<1>7. QED BY <1>1, <1>2, <1>3, <1>4, <1>5, <1>6 DEF Engine

LEMMA CalmKept ==
  ASSUME NEW d \in [Scopes \cup {NULL} -> Nat], Shape, Level(d), Calm(stack), [Next]_vars
  PROVE  Calm(stack)'
<1>0. stack \in Seq(Frame)
  BY FrameScopes DEF Level
<1>1. CASE UNCHANGED vars
  <2>1. UNCHANGED <<caught, loud>> /\ stack' = stack
    BY <1>1 DEF vars, slots
  <2>2. QED BY <2>1, CalmStays
<1>2. CASE \E s \in Scopes : OpenScope(s)
  BY <1>2, CalmOpenScope
<1>3. CASE \E s \in Scopes : CloseScope(s)
  <2>1. PICK s \in Scopes : CloseScope(s)
    BY <1>3
  <2> DEFINE pc == IF prev[s] = NULL THEN "drain" ELSE "caught"
  <2>2. /\ UNCHANGED <<caught, loud>>
        /\ stack' = Append(stack, Activation(pc, current, 0))
        /\ pc \in Client \cup Closing \cup {"free"}
    BY <2>1 DEF CloseScope, Push, Closing
  <2> HIDE DEF pc
  <2>3. QED BY <1>0, <2>2, CalmBegin
<1>4. CASE \E v \in Value : Create(v)
  BY <1>4, CalmStays DEF Create
<1>5. CASE CallFunction
  BY <1>5, CalmCall DEF CallFunction
<1>6. CASE GetProperty
  <2> DEFINE k == Len(SlotsOf(current)) + 1
  <2>1. /\ UNCHANGED caught /\ ClientRunsScript /\ current # NULL
        /\ loud' = (loud \/ At({"finalizer"})) /\ stack' = Push(Activation("get", current, k))
    BY <1>6 DEF GetProperty
  <2>2. k \in Nat /\ "get" \in {"call", "get"}
    <3>1. current \in Scopes
      BY <2>1 DEF Shape
    <3>2. QED BY <3>1, SlotsFacts, LenProperties DEF Shape
  <2> HIDE DEF k
  <2>3. QED BY <2>1, <2>2, CalmCall
<1>7. CASE Callback
  BY <1>0, <1>7, CalmBegin DEF Callback, Client, Push
<1>8. CASE EnqueueJob
  BY <1>8, CalmStays DEF EnqueueJob, Enqueues
<1>9. CASE \E v \in Counted : Collect(v)
  <2>1. /\ UNCHANGED <<caught, loud>>
        /\ stack' = stack \/ stack' = Append(stack, Activation("free", current, 0))
    BY <1>9 DEF Collect, Dies
  <2>2. QED BY <1>0, <2>1, CalmBegin, CalmStays
<1>10. CASE Returns
  <2>1. CASE \E v \in Value : ScriptReturns(v)
    <3>1. /\ UNCHANGED <<caught, loud>> /\ stack # << >>
          /\ Top.pc # "destroy" /\ stack' = Caller
      BY <2>1 DEF ScriptReturns, At, Script
    <3>2. QED BY <3>1, CalmReturn
  <2>2. CASE ClientReturns
    <3>1. /\ UNCHANGED <<caught, loud>> /\ stack # << >>
          /\ Top.pc # "destroy" /\ stack' = Caller
      BY <2>2 DEF ClientReturns, At, Client
    <3>2. QED BY <3>1, CalmReturn
  <2>3. CASE \E e \in Errors : ScriptThrows(e)
    BY <2>3, CalmScriptThrows
  <2>4. QED BY <1>10, <2>1, <2>2, <2>3 DEF Returns
<1>11. CASE Engine
  BY <1>11, CalmEngine
<1>12. QED BY <1>1, <1>2, <1>3, <1>4, <1>5, <1>6, <1>7, <1>8, <1>9, <1>10, <1>11 DEF Next

LEMMA CountingFacts ==
  ASSUME NEW r \in Nat, NEW n \in Nat
  PROVE  LET q == [i \in 1..n |-> r + i]
         IN /\ Append(q, r + n + 1) = [i \in 1..(n + 1) |-> r + i]
            /\ q = << >> <=> n = 0
            /\ n > 0 => Head(q) = r + 1 /\ Tail(q) = [i \in 1..(n - 1) |-> r + 1 + i]
<1> DEFINE q == [i \in 1..n |-> r + i]
<1>1. q \in Seq(Nat) /\ Len(q) = n /\ \A i \in 1..n : q[i] = r + i
  OBVIOUS
<1>2. q = << >> <=> n = 0
  BY <1>1, EmptySeq
<1> DEFINE a == Append(q, r + n + 1)
           b == [i \in 1..(n + 1) |-> r + i]
<1>3. a \in Seq(Nat) /\ Len(a) = n + 1 /\ \A i \in 1..(n + 1) : a[i] = r + i
  <2> HIDE DEF q
  <2>1. r + n + 1 \in Nat
    OBVIOUS
  <2>2. a \in Seq(Nat) /\ Len(a) = n + 1 /\ a[n + 1] = r + n + 1 /\ \A i \in 1..n : a[i] = q[i]
    BY <1>1, <2>1, PushFacts
  <2> HIDE DEF a
  <2>3. QED BY <1>1, <2>2
<1>4. b \in Seq(Nat) /\ Len(b) = n + 1 /\ \A i \in 1..(n + 1) : b[i] = r + i
  OBVIOUS
<1>5. a = b
  <2> HIDE DEF a, b
  <2>1. QED BY <1>3, <1>4, SeqEqual
<1>6. ASSUME n > 0
      PROVE  Head(q) = r + 1 /\ Tail(q) = [i \in 1..(n - 1) |-> r + 1 + i]
  <2> DEFINE t == Tail(q)
             c == [i \in 1..(n - 1) |-> r + 1 + i]
  <2>1. PICK m \in Nat : n = m + 1
    BY <1>6
  <2>2. Head(q) = r + 1
    BY <1>1, <1>6
  <2>3. t \in Seq(Nat) /\ Len(t) = n - 1 /\ \A i \in 1..(n - 1) : t[i] = r + 1 + i
    <3> HIDE DEF q
    <3>1. q # << >>
      BY <1>2, <1>6
    <3>2. t \in Seq(Nat) /\ Len(t) = n - 1 /\ \A i \in 1..Len(t) : t[i] = q[i + 1]
      BY <1>1, <3>1, HeadTailProperties
    <3> HIDE DEF t
    <3>3. \A i \in 1..(n - 1) : i + 1 \in 1..n
      OBVIOUS
    <3>4. QED BY <1>1, <3>2, <3>3
  <2>4. c \in Seq(Nat) /\ Len(c) = n - 1 /\ \A i \in 1..(n - 1) : c[i] = r + 1 + i
    BY <2>1
  <2>5. t = c
    <3> HIDE DEF t, c
    <3>1. QED BY <2>1, <2>3, <2>4, SeqEqual
  <2>6. QED BY <2>2, <2>5
<1>7. QED BY <1>2, <1>5, <1>6

\* No destructor is past the loop of the outermost scope.
Waits(S) ==
  \A i \in 1..Len(S) : S[i].pc \in {"caught", "release", "destroy"} => prev[S[i].scope] # NULL

LEMMA WaitsStill ==
  ASSUME NEW S, Waits(S), current # NULL, UNCHANGED <<current, prev>>, stack' = S
  PROVE  DrainPending'
BY DEF Waits, DrainPending

LEMMA WaitsPush ==
  ASSUME NEW S \in Seq(Frame), NEW f \in Frame, Waits(S),
         f.pc \in {"caught", "release", "destroy"} => prev[f.scope] # NULL
  PROVE  Waits(Append(S, f))
<1> DEFINE T == Append(S, f)
<1>1. /\ Len(T) = Len(S) + 1 /\ T[Len(S) + 1] = f /\ Len(S) \in Nat
      /\ \A i \in 1..Len(S) : T[i] = S[i]
  BY PushFacts
<1> HIDE DEF T
<1>2. \A i \in 1..Len(T) : (i \in 1..Len(S) /\ T[i] = S[i]) \/ T[i] = f
  BY <1>1
<1>3. Waits(T)
  BY <1>2 DEF Waits
<1>4. QED BY <1>3 DEF T

LEMMA WaitsPop ==
  ASSUME NEW S \in Seq(Frame), S # << >>, Waits(S)
  PROVE  Waits(SubSeq(S, 1, Len(S) - 1))
<1> DEFINE T == SubSeq(S, 1, Len(S) - 1)
<1>1. \A i \in 1..Len(T) : i \in 1..Len(S) /\ T[i] = S[i]
  BY PopFacts
<1> HIDE DEF T
<1>2. Waits(T)
  BY <1>1 DEF Waits
<1>3. QED BY <1>2 DEF T

LEMMA WaitsReplace ==
  ASSUME NEW S \in Seq(Frame), S # << >>, Waits(S), NEW f \in Frame,
         S[Len(S)].pc \in {"caught", "release", "destroy"}, f.scope = S[Len(S)].scope
  PROVE  Waits([S EXCEPT ![Len(S)] = f])
<1> DEFINE T == [S EXCEPT ![Len(S)] = f]
<1>1. /\ Len(T) = Len(S) /\ Len(S) \in Nat \ {0} /\ T[Len(S)] = f
      /\ \A i \in 1..(Len(S) - 1) : T[i] = S[i]
  BY ReplaceFacts, EmptySeq
<1> HIDE DEF T
<1>2. \A i \in 1..Len(T) : i \in 1..Len(S) /\ (T[i] = S[i] \/ T[i] = f)
  BY <1>1
<1>3. prev[f.scope] # NULL
  BY <1>1 DEF Waits
<1>4. Waits(T)
  BY <1>2, <1>3 DEF Waits
<1>5. QED BY <1>4 DEF T

\* The loop over the jobs is still to come while callbacks open and close scopes.
LEMMA WaitsBegin ==
  ASSUME NEW d, Shape, Level(d), DrainPending, UNCHANGED <<current, prev>>,
         NEW pc \in Script \cup Client \cup Closing \cup {"free"}, NEW k \in Nat,
         pc \in {"caught", "release", "destroy"} => prev[current] # NULL,
         stack' = Append(stack, Activation(pc, current, k))
  PROVE  DrainPending'
<1> DEFINE f == Activation(pc, current, k)
<1>1. f \in Frame /\ f.pc = pc /\ f.scope = current
  <2>1. current \in Scopes \cup {NULL}
    BY DEF Shape
  <2>2. QED BY <2>1 DEF Activation, Frame
<1>2. stack' = Append(stack, f) /\ stack \in Seq(Frame) /\ Waits(stack) /\ current # NULL
  BY FrameScopes DEF Level, DrainPending, Waits
<1> HIDE DEF f
<1>3. Waits(Append(stack, f))
  BY <1>1, <1>2, WaitsPush
<1>4. QED BY <1>2, <1>3, WaitsStill

LEMMA WaitsReturn ==
  ASSUME NEW d, Level(d), DrainPending, UNCHANGED <<current, prev>>, stack # << >>, stack' = Caller
  PROVE  DrainPending'
<1>1. stack \in Seq(Frame) /\ Waits(stack) /\ current # NULL
  BY FrameScopes DEF Level, DrainPending, Waits
<1>2. Waits(Caller)
  BY <1>1, WaitsPop DEF Caller
<1>3. QED BY <1>1, <1>2, WaitsStill

LEMMA WaitsFrees ==
  ASSUME NEW d \in [Scopes \cup {NULL} -> Nat], Shape, Level(d), DrainPending,
         UNCHANGED <<current, prev>>, stack # << >>, Top.pc \in {"caught", "release", "destroy"},
         NEW pc \in {"caught", "release", "destroy"}, NEW k \in Nat,
         LET B == Becomes(Activation(pc, Top.scope, k))
         IN stack' = B \/ stack' = Append(B, Activation("free", current, 0))
  PROVE  DrainPending'
<1> DEFINE f == Activation(pc, Top.scope, k)
           g == Activation("free", current, 0)
           B == [stack EXCEPT ![Len(stack)] = f]
<1>1. stack \in Seq(Frame) /\ Top.scope \in Scopes \cup {NULL}
  BY TopFacts
<1>2. f \in Frame /\ f.scope = Top.scope
  BY <1>1 DEF Activation, Frame, Closing
<1>3. g \in Frame /\ g.pc = "free"
  <2>1. current \in Scopes \cup {NULL} /\ 0 \in Nat
    BY DEF Shape
  <2>2. QED BY <2>1 DEF Activation, Frame
<1>4. stack' = B \/ stack' = Append(B, g)
  BY DEF Becomes
<1> HIDE DEF f, g
<1>5. Waits(stack) /\ current # NULL
  BY DEF DrainPending, Waits
<1>6. B \in Seq(Frame) /\ Waits(B)
  BY <1>1, <1>2, <1>5, WaitsReplace, ReplaceFacts DEF Top
<1> HIDE DEF B
<1>7. Waits(Append(B, g))
  BY <1>3, <1>6, WaitsPush
<1>8. QED BY <1>4, <1>5, <1>6, <1>7, WaitsStill

LEMMA WaitsOpenScope ==
  ASSUME NEW d, Shape, Level(d), DrainPending, NEW s \in Scopes, OpenScope(s)
  PROVE  DrainPending'
<1>1. s \notin open /\ current' = s /\ prev' = [prev EXCEPT ![s] = current] /\ stack' = stack
  BY DEF OpenScope
<1>2. current' # NULL
  BY <1>1, ScopesAssumption
<1>3. \A i \in 1..Len(stack) :
        stack[i].pc \in {"caught", "release", "destroy"} => prev'[stack[i].scope] # NULL
  <2> SUFFICES ASSUME NEW i \in 1..Len(stack), stack[i].pc \in {"caught", "release", "destroy"}
               PROVE  prev'[stack[i].scope] # NULL
    OBVIOUS
  <2>1. stack[i].scope \in open /\ stack[i].scope \in Scopes
    BY SlotScopes
  <2>2. prev'[stack[i].scope] = prev[stack[i].scope]
    BY <1>1, <2>1 DEF Shape
  <2>3. QED BY <2>2 DEF DrainPending
<1>4. QED BY <1>1, <1>2, <1>3 DEF DrainPending

LEMMA WaitsDestroyScope ==
  ASSUME NEW d \in [Scopes \cup {NULL} -> Nat], Shape, Level(d), DrainPending, DestroyScope
  PROVE  DrainPending'
<1> PICK s : s = Top.scope
  OBVIOUS
<1>1. /\ stack # << >> /\ Top.pc = "destroy" /\ Top.pc \in Closing /\ stack' = Caller
      /\ current' = prev[s] /\ prev' = [prev EXCEPT ![s] = NULL]
  BY DEF DestroyScope, At, Closing
<1>2. stack \in Seq(Frame) /\ Len(stack) \in 1..Len(stack)
  BY <1>1, TopFacts
<1>3. current' # NULL
  BY <1>1, <1>2 DEF DrainPending, Top
<1>4. Waits(Caller)
  BY <1>1, <1>2, WaitsPop DEF DrainPending, Waits, Caller
<1>5. \A i \in 1..Len(Caller) :
        /\ Caller[i].scope # s
        /\ Caller[i].pc \notin {"free", "finalizer"} => Caller[i].scope \in Scopes
  BY <1>1, OthersOpen
<1> PICK C : C = Caller
  OBVIOUS
<1>6. ASSUME NEW i \in 1..Len(C), C[i].pc \in {"caught", "release", "destroy"}
      PROVE  prev'[C[i].scope] # NULL
  <2>1. C[i].scope # s /\ C[i].scope \in Scopes /\ prev[C[i].scope] # NULL
    BY <1>4, <1>5, <1>6 DEF Waits
  <2>2. QED BY <1>1, <2>1 DEF Shape
<1>7. QED BY <1>1, <1>3, <1>6 DEF DrainPending

LEMMA WaitsEngine ==
  ASSUME NEW d \in [Scopes \cup {NULL} -> Nat], Shape, Level(d), DrainPending, Engine,
         ~(Drain /\ jobs = << >>)
  PROVE  DrainPending'
<1>1. CASE Finalize
  <2>1. UNCHANGED <<current, prev>> /\ stack # << >>
    BY <1>1 DEF Finalize, At
  <2>2. CASE stack' = Caller
    BY <2>1, <2>2, WaitsReturn
  <2>3. CASE stack' = Push(Activation("finalizer", current, 0))
    BY <2>1, <2>3, WaitsBegin DEF Client, Push
  <2>4. QED BY <1>1, <2>2, <2>3 DEF Finalize
<1>2. CASE Drain
  BY <1>2, WaitsBegin DEF Drain, Script, Push
<1>3. CASE DestroyCaught
  <2>1. UNCHANGED <<current, prev>> /\ stack # << >> /\ Top.pc \in {"caught", "release", "destroy"}
    BY <1>3 DEF DestroyCaught, At
  <2>2. /\ 0 \in Nat /\ 1 \in Nat /\ "release" \in {"caught", "release", "destroy"}
        /\ "destroy" \in {"caught", "release", "destroy"}
    OBVIOUS
  <2>3. CASE caught[Top.scope] \in Errors
    <3> DEFINE B == Becomes(Activation("release", Top.scope, 0))
    <3>1. FreeValue(caught[Top.scope], B)
      BY <1>3, <2>3 DEF DestroyCaught
    <3>2. stack' = B \/ stack' = Append(B, Activation("free", current, 0))
      BY <3>1 DEF FreeValue, Dies
    <3>3. QED BY <2>1, <2>2, <3>2, WaitsFrees
  <2>4. CASE caught[Top.scope] \notin Errors
    <3>1. stack' = Becomes(Activation("destroy", Top.scope, 1))
      BY <1>3, <2>4 DEF DestroyCaught
    <3>2. QED BY <2>1, <2>2, <3>1, WaitsFrees
  <2>5. QED BY <2>3, <2>4
<1>4. CASE ReleaseCaught
  <2>1. /\ UNCHANGED <<current, prev>> /\ stack # << >> /\ Top.pc \in {"caught", "release", "destroy"}
        /\ stack' = Becomes(Activation("destroy", Top.scope, 1))
    BY <1>4 DEF ReleaseCaught, At
  <2>2. 1 \in Nat /\ "destroy" \in {"caught", "release", "destroy"}
    OBVIOUS
  <2>3. QED BY <2>1, <2>2, WaitsFrees
<1>5. CASE DestroySlot
  <2> DEFINE k == Top.slot + 1
             B == Becomes(Activation("destroy", Top.scope, k))
  <2>1. /\ UNCHANGED <<current, prev>> /\ stack # << >> /\ Top.pc \in {"caught", "release", "destroy"}
        /\ FreeValue(SlotsOf(Top.scope)[Top.slot], B)
    BY <1>5 DEF DestroySlot, At
  <2>2. stack' = B \/ stack' = Append(B, Activation("free", current, 0))
    BY <2>1 DEF FreeValue, Dies
  <2>3. k \in Nat /\ "destroy" \in {"caught", "release", "destroy"}
    <3>1. stack # << >>
      BY <2>1
    <3>2. Top \in Frame
      BY <3>1, TopFacts
    <3>3. Top.slot \in Nat
      BY <3>2 DEF Frame
    <3>4. QED BY <3>3
  <2> HIDE DEF k
  <2>4. QED BY <2>1, <2>2, <2>3, WaitsFrees
<1>6. CASE DestroyScope
  BY <1>6, WaitsDestroyScope
<1>7. QED BY <1>1, <1>2, <1>3, <1>4, <1>5, <1>6 DEF Engine

\* The loop is over only when it finds no job.
LEMMA WaitsKept ==
  ASSUME NEW d \in [Scopes \cup {NULL} -> Nat], Shape, Level(d), DrainPending, [Next]_vars,
         ~(Drain /\ jobs = << >>)
  PROVE  DrainPending'
<1>1. CASE UNCHANGED <<current, prev, stack>>
  BY <1>1 DEF DrainPending
<1>2. CASE \E s \in Scopes : OpenScope(s)
  BY <1>2, WaitsOpenScope
<1>3. CASE \E s \in Scopes : CloseScope(s)
  <2>1. PICK s \in Scopes : CloseScope(s)
    BY <1>3
  <2> DEFINE pc == IF prev[s] = NULL THEN "drain" ELSE "caught"
  <2>2. /\ UNCHANGED <<current, prev>> /\ stack' = Append(stack, Activation(pc, current, 0))
        /\ (pc \in {"caught", "release", "destroy"} => prev[current] # NULL)
        /\ pc \in Script \cup Client \cup Closing \cup {"free"} /\ 0 \in Nat
    BY <2>1 DEF CloseScope, Push, Closing
  <2> HIDE DEF pc
  <2>3. QED BY <2>2, WaitsBegin
<1>4. CASE (\E v \in Value : Create(v)) \/ EnqueueJob
  BY <1>1, <1>4 DEF Create, EnqueueJob, Enqueues
<1>5. CASE CallFunction
  BY <1>5, WaitsBegin DEF CallFunction, Script, Push
<1>6. CASE GetProperty
  <2> DEFINE k == Len(SlotsOf(current)) + 1
  <2>1. /\ UNCHANGED <<current, prev>> /\ current # NULL
        /\ stack' = Append(stack, Activation("get", current, k))
    BY <1>6 DEF GetProperty, Push
  <2>2. current \in Scopes
    BY <2>1 DEF Shape
  <2>3. k \in Nat /\ "get" \in Script \cup Client \cup Closing \cup {"free"}
        /\ "get" \notin {"caught", "release", "destroy"}
    BY <2>2, SlotsFacts, LenProperties DEF Shape, Script
  <2> HIDE DEF k
  <2>4. QED BY <2>1, <2>3, WaitsBegin
<1>7. CASE Callback
  BY <1>7, WaitsBegin DEF Callback, Client, Push
<1>8. CASE \E v \in Counted : Collect(v)
  <2>1. /\ UNCHANGED <<current, prev>>
        /\ stack' = stack \/ stack' = Append(stack, Activation("free", current, 0))
    BY <1>8 DEF Collect, Dies
  <2>2. CASE stack' = stack
    BY <1>1, <2>1, <2>2
  <2>3. CASE stack' = Append(stack, Activation("free", current, 0))
    BY <2>1, <2>3, WaitsBegin
  <2>4. QED BY <2>1, <2>2, <2>3
<1>9. CASE Returns
  <2>1. UNCHANGED <<current, prev>> /\ stack # << >> /\ stack' = Caller
    BY <1>9 DEF Returns, ClientReturns, ScriptReturns, ScriptThrows, At
  <2>2. QED BY <2>1, WaitsReturn
<1>10. CASE Engine
  BY <1>10, WaitsEngine
<1>11. CASE UNCHANGED vars
  BY <1>1, <1>11 DEF vars
<1>12. QED BY <1>2, <1>3, <1>4, <1>5, <1>6, <1>7, <1>8, <1>9, <1>10, <1>11 DEF Next

\* The list holds the jobs enqueued since the one executed last; all those the loop of the
\* outermost scope was still to see have run when it is over.
Orderly ==
  /\ queued \in Nat /\ ran \in Nat /\ ran <= queued /\ queued <= MaxJobs
  /\ jobs = [i \in 1..(queued - ran) |-> ran + i]
  /\ due \in Nat /\ due <= queued
  /\ ~DrainPending => due <= ran

LEMMA OrderlyKept ==
  ASSUME NEW d \in [Scopes \cup {NULL} -> Nat], Shape, Level(d), Orderly, [Next]_vars
  PROVE  Orderly'
<1> PICK n \in Nat : n = queued - ran
  BY DEF Orderly
<1> PICK r \in Nat : r = ran
  BY DEF Orderly
<1>1. /\ jobs = [i \in 1..n |-> r + i] /\ queued = r + n /\ r + n <= MaxJobs
      /\ due \in Nat /\ due <= r + n
  BY DEF Orderly
<1>2. CASE UNCHANGED <<jobs, queued, ran, due>> /\ ~(Drain /\ jobs = << >>)
  <2>1. DrainPending => DrainPending'
    BY <1>2, WaitsKept
  <2>2. QED BY <1>2, <2>1 DEF Orderly
<1>3. CASE EnqueueJob
  <2>1. /\ queued' = r + n + 1 /\ ran' = r /\ jobs' = Append(jobs, r + n + 1) /\ queued' <= MaxJobs
        /\ due' = IF DrainPending THEN r + n + 1 ELSE due
        /\ UNCHANGED <<current, prev, stack>>
    BY <1>1, <1>3, ScopesAssumption DEF EnqueueJob, Enqueues
  <2>2. jobs' = [i \in 1..(n + 1) |-> r + i]
    BY <1>1, <2>1, CountingFacts
  <2>3. queued' - ran' = n + 1 /\ queued' \in Nat /\ ran' \in Nat /\ ran' <= queued'
    BY <2>1
  <2>4. due' \in Nat /\ due' <= queued'
    BY <1>1, <2>1
  <2>5. DrainPending' <=> DrainPending
    BY <2>1 DEF DrainPending
  <2>6. ~DrainPending' => due' <= ran'
    BY <2>1, <2>5 DEF Orderly
  <2>7. QED BY <2>1, <2>2, <2>3, <2>4, <2>6 DEF Orderly
<1>4. CASE Drain /\ jobs # << >>
  <2>1. jobs' = Tail(jobs) /\ ran' = Head(jobs) /\ queued' = queued /\ due' = due
    BY <1>4 DEF Drain
  <2>2. n > 0 /\ ran' = r + 1 /\ jobs' = [i \in 1..(n - 1) |-> r + 1 + i]
    BY <1>1, <1>4, <2>1, CountingFacts
  <2>3. queued' - ran' = n - 1 /\ queued' \in Nat /\ ran' \in Nat /\ ran' <= queued'
        /\ queued' <= MaxJobs
    BY <1>1, <2>1, <2>2
  <2>4. DrainPending => DrainPending'
    BY <1>4, WaitsKept
  <2>5. ~DrainPending' => due' <= ran'
    BY <1>1, <2>1, <2>2, <2>4 DEF Orderly
  <2>6. due' \in Nat /\ due' <= queued'
    BY <1>1, <2>1
  <2>7. QED BY <2>2, <2>3, <2>5, <2>6 DEF Orderly
<1>5. CASE Drain /\ jobs = << >>
  <2>1. UNCHANGED <<jobs, queued, ran, due>>
    BY <1>5 DEF Drain
  <2>2. n = 0
    <3>1. [i \in 1..n |-> r + i] = << >> <=> n = 0
      BY CountingFacts
    <3>2. QED BY <1>1, <1>5, <3>1
  <2>3. due <= ran
    BY <1>1, <2>2
  <2>4. QED BY <2>1, <2>3 DEF Orderly
<1>6. CASE ~Drain /\ ~EnqueueJob
  <2>1. CASE \E s \in Scopes : OpenScope(s) \/ CloseScope(s)
    BY <1>2, <1>6, <2>1 DEF OpenScope, CloseScope
  <2>2. CASE \E v \in Value : Create(v)
    BY <1>2, <1>6, <2>2 DEF Create
  <2>3. CASE CallFunction \/ GetProperty \/ Callback
    BY <1>2, <1>6, <2>3 DEF CallFunction, GetProperty, Callback
  <2>4. CASE \E v \in Counted : Collect(v)
    BY <1>2, <1>6, <2>4 DEF Collect
  <2>5. CASE Returns
    BY <1>2, <1>6, <2>5 DEF Returns, ClientReturns, ScriptReturns, ScriptThrows
  <2>6. CASE Engine
    BY <1>2, <1>6, <2>6 DEF Engine, Finalize, DestroyCaught, ReleaseCaught, DestroySlot, DestroyScope
  <2>7. CASE UNCHANGED vars
    BY <1>2, <1>6, <2>7 DEF vars
  <2>8. QED BY <1>6, <2>1, <2>2, <2>3, <2>4, <2>5, <2>6, <2>7 DEF Next
<1>7. QED BY <1>3, <1>4, <1>5, <1>6

-----------------------------------------------------------------------------
(* Theorems about jobs and exceptions.                                     *)

CalmAlways == Framed /\ Calm(stack) /\ Orderly

LEMMA CalmHolds == Spec => []CalmAlways
<1>1. Init => CalmAlways
  <2> SUFFICES ASSUME Init PROVE Calm(stack) /\ Orderly
    BY FramedInit DEF CalmAlways
  <2>1. /\ stack = << >> /\ Len(stack) = 0 /\ jobs = << >> /\ queued = 0 /\ ran = 0 /\ due = 0
        /\ \A s \in Scopes : caught[s] = NULL
    BY DEF Init
  <2>2. Silent(stack)
    BY <2>1 DEF Silent
  <2>3. Calm(stack)
    BY <2>1, <2>2, ScopesAssumption DEF Calm
  <2>4. Orderly
    BY <2>1, CountingFacts, ScopesAssumption DEF Orderly
  <2>5. QED BY <2>3, <2>4
<1>2. CalmAlways /\ [Next]_vars => CalmAlways'
  <2> SUFFICES ASSUME CalmAlways, [Next]_vars PROVE CalmAlways'
    OBVIOUS
  <2> PICK d \in [Scopes \cup {NULL} -> Nat] : Level(d) /\ Shape /\ Calm(stack)
    BY DEF CalmAlways, Framed, Structure
  <2>1. Framed'
    BY FramedKept DEF CalmAlways
  <2>2. Calm(stack)'
    BY CalmKept
  <2>3. Orderly'
    BY OrderlyKept DEF CalmAlways
  <2>4. QED BY <2>1, <2>2, <2>3 DEF CalmAlways
<1>3. QED BY <1>1, <1>2, PTL DEF Spec

\* Jobs run in the order of enqueuing, each once; when no scope is open, all that were
\* enqueued before the last loop over them was over have run.
THEOREM JobsRunInOrder == Spec => []JobsInOrder
<1>1. CalmAlways => JobsInOrder
  BY DEF CalmAlways, Orderly, JobsInOrder, DrainPending
<1>2. QED BY <1>1, CalmHolds, PTL

\* Nothing is stored through the pointer the destructor leaves dangling, as long as
\* finalizers call no script.
THEOREM CaughtStaysAlive == Spec => CaughtAlive
<1>1. ASSUME CalmAlways, [Next]_vars, ~loud, NEW s \in Scopes, caught[s] = "freed"
      PROVE  caught'[s] \in {"freed", NULL}
  <2> PICK d \in [Scopes \cup {NULL} -> Nat] : Level(d) /\ Shape /\ Calm(stack)
    BY <1>1 DEF CalmAlways, Framed, Structure
  <2>1. CASE UNCHANGED caught
    BY <1>1, <2>1
  <2>2. CASE \E t \in Scopes : OpenScope(t)
    BY <1>1, <2>2 DEF OpenScope, Shape
  <2>3. CASE \E e \in Errors : ScriptThrows(e)
    <3>1. PICK e \in Errors : ScriptThrows(e)
      BY <2>3
    <3>2. CASE Top.pc = "call"
      <4>1. PICK i \in 1..Len(stack) : stack[i].pc = "destroy"
        BY <1>1 DEF Calm, Destroying
      <4>2. stack # << >> /\ Top.pc \in Script /\ Silent(stack)
        BY <1>1, <3>1 DEF ScriptThrows, At, Calm
      <4>3. QED BY <4>1, <4>2, NoneBelowScript
    <3>3. CASE Top.pc # "call"
      BY <2>1, <3>1, <3>3 DEF ScriptThrows
    <3>4. QED BY <3>2, <3>3
  <2>4. CASE ReleaseCaught
    BY <1>1, <2>4 DEF ReleaseCaught, Shape
  <2>5. CASE DestroyScope
    BY <1>1, <2>5 DEF DestroyScope, Shape
  <2>6. CASE \/ \E t \in Scopes : CloseScope(t)
             \/ \E v \in Value : Create(v) \/ ScriptReturns(v)
             \/ CallFunction \/ GetProperty \/ Callback \/ EnqueueJob
             \/ \E v \in Counted : Collect(v)
             \/ ClientReturns
    BY <2>1, <2>6 DEF CloseScope, Create, ScriptReturns, CallFunction, GetProperty, Callback,
       EnqueueJob, Enqueues, Collect, ClientReturns
  <2>7. CASE Finalize \/ Drain \/ DestroyCaught \/ DestroySlot
    BY <2>1, <2>7 DEF Finalize, Drain, DestroyCaught, DestroySlot
  <2>8. CASE UNCHANGED vars
    BY <2>1, <2>8 DEF vars, slots
  <2>9. QED BY <1>1, <2>2, <2>3, <2>4, <2>5, <2>6, <2>7, <2>8 DEF Next, Returns, Engine
<1>2. CalmAlways /\ [Next]_vars =>
        [~loud => \A s \in Scopes : caught[s] = "freed" => caught'[s] \in {"freed", NULL}]_vars
  BY <1>1
<1>3. QED BY <1>2, CalmHolds, PTL DEF Spec, CaughtAlive

-----------------------------------------------------------------------------
(* The list of scopes from the current one.                                *)

LEMMA Smallest ==
  ASSUME NEW S \in SUBSET Nat, S # {}
  PROVE  \E i \in S : \A j \in S : i <= j
<1> DEFINE R == OpToRel(<, Nat)
<1>1. IsWellFoundedOn(R, Nat)
  BY NatLessThanWellFounded
<1>2. \A x, y \in Nat : x < y => <<x, y>> \in R
  BY DEF OpToRel
<1> HIDE DEF R
<1>3. \E x \in S : \A y \in S : ~ (<<y, x>> \in R)
  BY <1>1, WFMin
<1>4. PICK x \in S : \A y \in S : ~ (<<y, x>> \in R)
  BY <1>3
<1>5. \A y \in S : ~(y < x)
  BY <1>2, <1>4
<1>6. QED BY <1>5

\* Every depth up to that of the current scope has its scope.
LEMMA EveryDepth ==
  ASSUME NEW d \in [Scopes \cup {NULL} -> Nat], Shape, Ranked(d), current # NULL
  PROVE  \A k \in 1..d[current] : \E s \in open : d[s] = k
<1> PICK top \in Scopes : top = current
  BY DEF Shape
<1> DEFINE D == d[top]
           Bad == {n \in 0..(D - 1) : \A s \in open : d[s] # D - n}
<1>1. D \in Nat /\ top \in open /\ \A s \in open : d[s] \in Nat /\ d[s] <= D
  BY DEF Ranked, Shape
<1>2. Bad = {}
  <2> SUFFICES ASSUME Bad # {} PROVE FALSE
    OBVIOUS
  <2>1. Bad \in SUBSET Nat
    OBVIOUS
  <2>2. PICK m \in Bad : \A n \in Bad : m <= n
    BY <2>1, Smallest
  <2> HIDE DEF D
  <2>3. m # 0
    <3>1. D - 0 = D
      BY <1>1
    <3>2. QED BY <1>1, <3>1 DEF D
  <2>4. m \in 0..(D - 1) /\ m - 1 \in 0..(D - 1) /\ ~(m <= m - 1) /\ D - (m - 1) = (D - m) + 1
        /\ D - m >= 1
    BY <1>1, <2>3
  <2>5. PICK s \in open : d[s] = (D - m) + 1
    BY <2>2, <2>4
  <2>6. d[s] # 1
    BY <1>1, <2>4, <2>5
  <2>7. prev[s] \in open /\ d[s] = d[prev[s]] + 1
    BY <2>6 DEF Ranked
  <2>8. d[prev[s]] = D - m
    BY <1>1, <2>4, <2>5, <2>7
  <2>9. QED BY <2>7, <2>8
<1>3. ASSUME NEW k \in 1..D PROVE \E s \in open : d[s] = k
  <2>1. D - k \in 0..(D - 1) /\ D - (D - k) = k
    BY <1>1
  <2>2. QED BY <1>2, <2>1
<1>4. QED BY <1>3

\* The list: the scope at each depth, from the current one down.
LEMMA NthFacts ==
  ASSUME NEW d \in [Scopes \cup {NULL} -> Nat], Shape, Ranked(d)
  PROVE  \E D \in Nat : \E at \in [1..D -> open] :
           /\ \A k \in 1..D : d[at[k]] = k
           /\ \A s \in open : d[s] \in 1..D /\ at[d[s]] = s
           /\ \A n \in Nat : Nth[n] = IF n < D THEN at[D - n] ELSE NULL
<1> PICK D \in Nat : D = IF current = NULL THEN 0 ELSE d[current]
  BY DEF Shape
<1>1. \A k \in 1..D : \E s \in open : d[s] = k
  BY EveryDepth
<1>2. PICK at : at = [k \in 1..D |-> CHOOSE s \in open : d[s] = k]
  OBVIOUS
<1>3. at \in [1..D -> open] /\ \A k \in 1..D : d[at[k]] = k
  BY <1>1, <1>2
<1>4. \A s \in open : d[s] \in Nat /\ s \in Scopes
  BY DEF Shape
<1>5. ASSUME NEW s \in open
      PROVE  d[s] \in 1..D /\ at[d[s]] = s
  <2>1. d[s] >= 1
    <3>1. CASE prev[s] = NULL
      BY <3>1 DEF Ranked
    <3>2. CASE prev[s] # NULL
      <4>1. prev[s] \in open /\ d[s] = d[prev[s]] + 1
        BY <3>2 DEF Ranked
      <4>2. d[prev[s]] \in Nat
        BY <1>4, <4>1
      <4>3. QED BY <4>1, <4>2
    <3>3. QED BY <3>1, <3>2
  <2>2. d[s] <= D
    BY DEF Ranked
  <2>3. d[s] \in 1..D
    BY <1>4, <2>1, <2>2
  <2>4. at[d[s]] \in open /\ d[at[d[s]]] = d[s]
    BY <1>3, <2>3
  <2>5. QED BY <2>3, <2>4 DEF Ranked
<1> DEFINE f == [n \in Nat |-> IF n < D THEN at[D - n] ELSE NULL]
           F(g) == [n \in Nat |-> IF n = 0 THEN current
                                  ELSE IF g[n - 1] = NULL THEN NULL ELSE prev[g[n - 1]]]
<1>6. ASSUME NEW n \in Nat
      PROVE  f[n] = IF n = 0 THEN current ELSE IF f[n - 1] = NULL THEN NULL ELSE prev[f[n - 1]]
  <2>1. CASE n = 0
    <3>1. CASE current = NULL
      BY <2>1, <3>1
    <3>2. CASE current # NULL
      <4>1. current \in open /\ d[current] = D
        BY <3>2 DEF Ranked
      <4>2. at[D] = current /\ D \in 1..D
        BY <1>5, <4>1
      <4>3. QED BY <2>1, <4>2
    <3>3. QED BY <3>1, <3>2
  <2>2. CASE n # 0 /\ n - 1 < D
    <3> PICK k \in 1..D : k = D - (n - 1)
      BY <2>2
    <3>1. n - 1 \in Nat /\ f[n - 1] = at[k]
      BY <2>2
    <3>2. at[k] \in open /\ d[at[k]] = k
      BY <1>3
    <3>3. at[k] # NULL
      BY <1>4, <3>2, ScopesAssumption
    <3>4. CASE prev[at[k]] = NULL
      <4>1. k = 1
        BY <3>2, <3>4 DEF Ranked
      <4>2. ~(n < D)
        BY <2>2, <4>1
      <4>3. QED BY <2>2, <3>1, <3>3, <3>4, <4>2
    <3>5. CASE prev[at[k]] # NULL
      <4>1. prev[at[k]] \in open /\ k = d[prev[at[k]]] + 1
        BY <3>2, <3>5 DEF Ranked
      <4>2. d[prev[at[k]]] \in 1..D /\ at[d[prev[at[k]]]] = prev[at[k]]
        BY <1>5, <4>1
      <4>3. n < D /\ D - n = d[prev[at[k]]]
        BY <2>2, <4>1, <4>2
      <4>4. QED BY <2>2, <3>1, <3>3, <4>2, <4>3
    <3>6. QED BY <3>4, <3>5
  <2>3. CASE n # 0 /\ ~(n - 1 < D)
    BY <2>3
  <2>4. QED BY <2>1, <2>2, <2>3
<1>7. f = F(f)
  <2> DEFINE g == F(f)
  <2>1. \A n \in Nat : g[n] = f[n]
    BY <1>6
  <2>2. DOMAIN f = Nat /\ DOMAIN g = Nat
    OBVIOUS
  <2>3. f = [n \in Nat |-> f[n]] /\ g = [n \in Nat |-> g[n]]
    OBVIOUS
  <2> HIDE DEF f, g
  <2>4. f = g
    BY <2>1, <2>3
  <2>5. QED BY <2>4 DEF g
<1>8. Nth = F(Nth)
  <2> HIDE DEF f
  <2>1. \E g : g = [n \in Nat |-> IF n = 0 THEN current
                                  ELSE IF g[n - 1] = NULL THEN NULL ELSE prev[g[n - 1]]]
    BY <1>7
  <2>2. QED BY <2>1 DEF Nth
<1>9. \A n \in Nat : Nth[n] = f[n]
  <2> DEFINE Bad == {n \in Nat : Nth[n] # f[n]}
  <2> SUFFICES ASSUME Bad # {} PROVE FALSE
    OBVIOUS
  <2>1. Bad \in SUBSET Nat
    OBVIOUS
  <2>2. PICK m \in Bad : \A n \in Bad : m <= n
    BY <2>1, Smallest
  <2> DEFINE N == Nth
  <2>3. m \in Nat /\ N[m] # f[m]
    OBVIOUS
  <2>4. N[m] = IF m = 0 THEN current ELSE IF N[m - 1] = NULL THEN NULL ELSE prev[N[m - 1]]
    BY <1>8, <2>3
  <2>5. m # 0 => N[m - 1] = f[m - 1]
    <3> SUFFICES ASSUME m # 0, N[m - 1] # f[m - 1] PROVE FALSE
      OBVIOUS
    <3>1. m - 1 \in Nat /\ ~(m <= m - 1)
      BY <2>3
    <3>2. m - 1 \in Bad
      BY <3>1
    <3>3. QED BY <2>2, <3>1, <3>2
  <2> HIDE DEF N, f, Bad
  <2>6. f[m] = IF m = 0 THEN current ELSE IF f[m - 1] = NULL THEN NULL ELSE prev[f[m - 1]]
    BY <1>6, <2>3
  <2>7. CASE m = 0
    BY <2>3, <2>4, <2>6, <2>7
  <2>8. CASE m # 0
    <3>1. N[m - 1] = f[m - 1]
      BY <2>5, <2>8
    <3>2. QED BY <2>3, <2>4, <2>6, <2>8, <3>1
  <2>9. QED BY <2>7, <2>8
<1>10. \A n \in Nat : Nth[n] = IF n < D THEN at[D - n] ELSE NULL
  BY <1>9
<1> HIDE DEF f, F
<1> WITNESS D \in Nat
<1>11. at \in [1..D -> open]
  BY <1>3
<1> WITNESS at \in [1..D -> open]
<1>12. QED BY <1>3, <1>5, <1>10

LEMMA ScopeListFollows ==
  ASSUME Framed
  PROVE  ScopeList
<1> PICK d \in [Scopes \cup {NULL} -> Nat] : Level(d) /\ Shape /\ Ranked(d)
  BY DEF Framed, Structure, Level
<1> PICK D \in Nat : \E at \in [1..D -> open] :
           /\ \A k \in 1..D : d[at[k]] = k
           /\ \A s \in open : d[s] \in 1..D /\ at[d[s]] = s
           /\ \A n \in Nat : Nth[n] = IF n < D THEN at[D - n] ELSE NULL
  BY NthFacts
<1> PICK at \in [1..D -> open] :
           /\ \A k \in 1..D : d[at[k]] = k
           /\ \A s \in open : d[s] \in 1..D /\ at[d[s]] = s
           /\ \A n \in Nat : Nth[n] = IF n < D THEN at[D - n] ELSE NULL
  OBVIOUS
<1> DEFINE C == Cardinality(Scopes)
           N == Nth
<1>1. \A s \in open : s \in Scopes /\ s # NULL
  BY ScopesAssumption DEF Shape
<1>2. C \in Nat /\ D <= C
  <2>1. C \in Nat
    BY FiniteScopes, FS_CardinalityType
  <2>2. at \in [1..D -> Scopes]
    BY <1>1
  <2>3. \A j, k \in 1..D : at[j] = at[k] => j = k
    OBVIOUS
  <2>4. at \in Injection(1..D, Scopes)
    BY <2>2, <2>3 DEF Injection, IsInjective
  <2>5. Cardinality(1..D) <= C
    BY <2>4, FiniteScopes, FS_Injection
  <2>6. Cardinality(1..D) = D
    <3>1. Cardinality(1..D) = IF 1 > D THEN 0 ELSE D - 1 + 1
      BY FS_Interval
    <3>2. QED BY <3>1
  <2>7. QED BY <2>1, <2>5, <2>6
<1>3. \A n \in Nat : N[n] = IF n < D THEN at[D - n] ELSE NULL
  OBVIOUS
<1> HIDE DEF C, N
<1>4. ~(C < D) /\ N[C] = NULL
  BY <1>2, <1>3
<1>5. ASSUME NEW n \in 0..C, N[n] # NULL PROVE N[n] \in open
  <2>1. n \in Nat /\ n < D /\ N[n] = at[D - n]
    BY <1>2, <1>3, <1>5
  <2>2. D - n \in 1..D
    BY <2>1
  <2>3. QED BY <2>1, <2>2
<1>6. ASSUME NEW s \in open PROVE \E n \in 0..C : N[n] = s
  <2>1. d[s] \in 1..D /\ at[d[s]] = s
    OBVIOUS
  <2>2. D - d[s] \in 0..C /\ D - d[s] \in Nat /\ D - d[s] < D /\ D - (D - d[s]) = d[s]
    BY <1>2, <2>1
  <2>3. N[D - d[s]] = s
    BY <1>3, <2>1, <2>2
  <2>4. QED BY <2>2, <2>3
<1>7. {N[n] : n \in 0..C} \ {NULL} = open
  <2>1. \A s \in {N[n] : n \in 0..C} \ {NULL} : s \in open
    BY <1>5
  <2>2. ASSUME NEW s \in open PROVE s \in {N[n] : n \in 0..C} /\ s # NULL
    <3>1. PICK n \in 0..C : N[n] = s
      BY <1>6
    <3>2. QED BY <1>1, <3>1
  <2>3. QED BY <2>1, <2>2
<1>8. At(Script \cup {"callback"}) => current # NULL
  <2>1. CASE At(Script)
    BY <2>1, TopFacts DEF At
  <2>2. CASE At({"callback"})
    <3>1. stack # << >> /\ Top.pc = "callback"
      BY <2>2 DEF At
    <3>2. Top.scope \in open /\ current \in Scopes \cup {NULL}
      BY <3>1, TopFacts DEF Shape
    <3>3. d[Top.scope] >= 1 /\ d[Top.scope] \in Nat
      <4>1. \A s \in open : d[s] \in Nat /\ d[s] >= 1
        BY RankPositive
      <4>2. QED BY <3>2, <4>1
    <3>4. d[Top.scope] <= d[current] /\ d[NULL] = 0
      BY <3>1 DEF Level, InScope, Ranked, Top
    <3>5. QED BY <3>3, <3>4
  <2>3. QED BY <2>1, <2>2 DEF At
<1>9. QED BY <1>4, <1>7, <1>8 DEF ScopeList, N, C

\* The list from the current scope holds every open scope and ends; script, and the
\* functions of the client that script calls, find a scope to allocate in.
THEOREM ScopesListed == Spec => []ScopeList
BY ScopeListFollows, FramedAlways, PTL

-----------------------------------------------------------------------------
(* References and the slots that own them.                                 *)

\* Where the destructor of s has got to.
Ends(S, s) == {S[i].slot : i \in {k \in 1..Len(S) : S[k].pc = "destroy" /\ S[k].scope = s}}

\* The scopes whose exception the destructor has let go of.
Releasing(S) == {S[i].scope : i \in {k \in 1..Len(S) : S[k].pc = "release"}}

LEMMA PushEnds ==
  ASSUME NEW S \in Seq(Frame), NEW f \in Frame, f.pc # "destroy"
  PROVE  /\ \A s : Ends(Append(S, f), s) = Ends(S, s)
         /\ Releasing(S) \subseteq Releasing(Append(S, f))
<1> DEFINE T == Append(S, f)
<1>1. /\ T \in Seq(Frame) /\ Len(T) = Len(S) + 1 /\ T[Len(S) + 1] = f /\ Len(S) \in Nat
      /\ \A i \in 1..Len(S) : T[i] = S[i]
  BY PushFacts
<1> HIDE DEF T
<1>2. /\ \A i \in 1..Len(S) : i \in 1..Len(T) /\ T[i] = S[i]
      /\ \A i \in 1..Len(T) : (i \in 1..Len(S) /\ T[i] = S[i]) \/ T[i] = f
  BY <1>1
<1>3. ASSUME NEW s PROVE Ends(T, s) = Ends(S, s)
  BY <1>2 DEF Ends
<1>4. Releasing(S) \subseteq Releasing(T)
  BY <1>2 DEF Releasing
<1>5. QED BY <1>3, <1>4 DEF T

LEMMA PopEnds ==
  ASSUME NEW S \in Seq(Frame), S # << >>
  PROVE  LET T == SubSeq(S, 1, Len(S) - 1)
         IN /\ \A s : S[Len(S)].pc # "destroy" \/ S[Len(S)].scope # s => Ends(T, s) = Ends(S, s)
            /\ S[Len(S)].pc # "release" => Releasing(S) \subseteq Releasing(T)
<1> DEFINE T == SubSeq(S, 1, Len(S) - 1)
<1>1. /\ T \in Seq(Frame) /\ Len(T) = Len(S) - 1 /\ Len(S) \in Nat \ {0}
      /\ \A i \in 1..(Len(S) - 1) : T[i] = S[i]
  BY PopFacts
<1> HIDE DEF T
<1>2. /\ \A i \in 1..Len(T) : i \in 1..Len(S) /\ T[i] = S[i]
      /\ \A i \in 1..Len(S) : (i \in 1..Len(T) /\ T[i] = S[i]) \/ i = Len(S)
  BY <1>1
<1>3. ASSUME NEW s, S[Len(S)].pc # "destroy" \/ S[Len(S)].scope # s
      PROVE  Ends(T, s) = Ends(S, s)
  BY <1>2, <1>3 DEF Ends
<1>4. S[Len(S)].pc # "release" => Releasing(S) \subseteq Releasing(T)
  BY <1>2 DEF Releasing
<1>5. QED BY <1>3, <1>4 DEF T

\* T is S with another activation at the top.
Replaced(S, T, f) ==
  /\ Len(T) = Len(S) /\ Len(S) \in Nat \ {0} /\ T[Len(S)] = f
  /\ \A i \in 1..(Len(S) - 1) : T[i] = S[i]

LEMMA EndsReplaced ==
  ASSUME NEW S, NEW T, NEW f, Replaced(S, T, f),
         NEW s, S[Len(S)].pc # "destroy" \/ S[Len(S)].scope # s
  PROVE  Ends(T, s) = Ends(S, s) \cup (IF f.pc = "destroy" /\ f.scope = s THEN {f.slot} ELSE {})
<1> DEFINE U == Ends(S, s) \cup (IF f.pc = "destroy" /\ f.scope = s THEN {f.slot} ELSE {})
<1> PICK n \in Nat : n = Len(S)
  BY DEF Replaced
<1>1. /\ n \in 1..n /\ T[n] = f /\ Len(T) = n
      /\ \A i \in 1..n : i # n => T[i] = S[i]
  BY DEF Replaced
<1>2. ASSUME NEW e \in Ends(T, s) PROVE e \in U
  <2>1. PICK i \in 1..n : T[i].pc = "destroy" /\ T[i].scope = s /\ e = T[i].slot
    BY <1>1 DEF Ends
  <2>2. CASE i = n
    BY <1>1, <2>1, <2>2
  <2>3. CASE i # n
    BY <1>1, <2>1, <2>3 DEF Ends
  <2>4. QED BY <2>2, <2>3
<1>3. ASSUME NEW e \in Ends(S, s) PROVE e \in Ends(T, s)
  <2>1. PICK i \in 1..n : S[i].pc = "destroy" /\ S[i].scope = s /\ e = S[i].slot
    BY DEF Ends
  <2>2. i # n
    BY <2>1
  <2>3. QED BY <1>1, <2>1, <2>2 DEF Ends
<1>4. f.pc = "destroy" /\ f.scope = s => f.slot \in Ends(T, s)
  BY <1>1 DEF Ends
<1> HIDE DEF U
<1>5. \A e \in U : e \in Ends(T, s)
  BY <1>3, <1>4 DEF U
<1>6. QED BY <1>2, <1>5 DEF U

LEMMA ReplaceEnds ==
  ASSUME NEW S \in Seq(Frame), S # << >>, NEW f \in Frame
  PROVE  LET T == [S EXCEPT ![Len(S)] = f]
         IN /\ \A s : S[Len(S)].pc # "destroy" \/ S[Len(S)].scope # s =>
                 Ends(T, s) = Ends(S, s) \cup (IF f.pc = "destroy" /\ f.scope = s THEN {f.slot} ELSE {})
            /\ \A s \in Releasing(S) : s \in Releasing(T) \/ (S[Len(S)].pc = "release" /\ s = S[Len(S)].scope)
            /\ f.pc = "release" => f.scope \in Releasing(T)
<1> DEFINE T == [S EXCEPT ![Len(S)] = f]
           n == Len(S)
<1>1. /\ T \in Seq(Frame) /\ Len(T) = n /\ n \in Nat \ {0} /\ T[n] = f
      /\ \A i \in 1..(n - 1) : T[i] = S[i]
  BY ReplaceFacts, EmptySeq
<1>0. Replaced(S, T, f)
  BY <1>1 DEF Replaced
<1> HIDE DEF T
<1>2. /\ n \in 1..n
      /\ \A i \in 1..n : i \in 1..Len(T) /\ (i # n => T[i] = S[i])
      /\ \A i \in 1..Len(T) : i \in 1..n
  BY <1>1
<1> HIDE DEF n
<1>3. ASSUME NEW s, S[n].pc # "destroy" \/ S[n].scope # s
      PROVE  Ends(T, s) = Ends(S, s) \cup (IF f.pc = "destroy" /\ f.scope = s THEN {f.slot} ELSE {})
  BY <1>0, <1>3, EndsReplaced DEF n
<1>4. \A s \in Releasing(S) : s \in Releasing(T) \/ (S[n].pc = "release" /\ s = S[n].scope)
  BY <1>2 DEF Releasing, n
<1>5. f.pc = "release" => f.scope \in Releasing(T)
  <2>1. n \in 1..Len(T)
    BY <1>2
  <2>2. QED BY <1>1, <2>1 DEF Releasing
<1>6. QED BY <1>3, <1>4, <1>5 DEF T, n

\* Of one scope there is one destructor.
LEMMA EndsAlone ==
  ASSUME NEW S \in Seq(Frame), S # << >>, S[Len(S)].pc = "destroy",
         \A i \in 1..(Len(S) - 1) : S[i].scope # S[Len(S)].scope
  PROVE  Ends(S, S[Len(S)].scope) = {S[Len(S)].slot}
<1> DEFINE n == Len(S)
<1>1. n \in 1..n /\ \A i \in 1..n : i = n \/ i \in 1..(n - 1)
  BY EmptySeq
<1>2. \A i \in 1..n : S[i].scope = S[n].scope => i = n
  BY <1>1
<1> HIDE DEF n
<1>3. QED BY <1>1, <1>2 DEF Ends, n

\* The slots of the scopes O that own a reference to v.
HeldIn(O, own, S, v) ==
  {p \in O \X Nat : /\ p[2] \in 1..Len(own[p[1]])
                    /\ \A e \in Ends(S, p[1]) : p[2] >= e
                    /\ own[p[1]][p[2]] = v}

\* Scope s owns nothing, next to scopes O that stay the same.
Spare(O, own, S, s, other, T) ==
  /\ \A t \in O : other[t] = own[t] /\ Ends(T, t) = Ends(S, t)
  /\ \A k \in 1..Len(other[s]) : \E e \in Ends(T, s) : ~(k >= e)

LEMMA HeldSpare ==
  ASSUME NEW O, NEW own, NEW S, NEW s, NEW other, NEW T, Spare(O, own, S, s, other, T), NEW v
  PROVE  HeldIn(O \cup {s}, other, T, v) = HeldIn(O, own, S, v)
<1>1. ASSUME NEW p \in HeldIn(O \cup {s}, other, T, v) PROVE p \in HeldIn(O, own, S, v)
  <2>1. PICK t \in O \cup {s}, k \in Nat : p = <<t, k>>
    BY DEF HeldIn
  <2>2. k \in 1..Len(other[t]) /\ (\A e \in Ends(T, t) : k >= e) /\ other[t][k] = v
    BY <2>1 DEF HeldIn
  <2>3. t \in O
    BY <2>1, <2>2 DEF Spare
  <2>4. QED BY <2>1, <2>2, <2>3 DEF HeldIn, Spare
<1>2. ASSUME NEW p \in HeldIn(O, own, S, v) PROVE p \in HeldIn(O \cup {s}, other, T, v)
  <2>1. PICK t \in O, k \in Nat : p = <<t, k>>
    BY DEF HeldIn
  <2>2. QED BY <2>1 DEF HeldIn, Spare
<1>3. QED BY <1>1, <1>2

\* A slot gets a value v: a new one, or one that awaited its value.
Gets(O, own, S, other, T, v, s, k) ==
  /\ s \in O /\ k \in Nat
  /\ \A t \in O : Ends(T, t) = Ends(S, t)
  /\ \A t \in O \ {s} : other[t] = own[t]
  /\ k \in 1..Len(other[s]) /\ other[s][k] = v /\ \A e \in Ends(S, s) : k >= e
  /\ k \in 1..Len(own[s]) => own[s][k] = Immediate
  /\ \A i \in Nat \ {k} : (i \in 1..Len(other[s]) <=> i \in 1..Len(own[s]))
                           /\ (i \in 1..Len(own[s]) => other[s][i] = own[s][i])

LEMMA HeldGets ==
  ASSUME NEW O, NEW own, NEW S, NEW other, NEW T, NEW v, NEW s, NEW k,
         Gets(O, own, S, other, T, v, s, k), NEW w \in Objects
  PROVE  /\ HeldIn(O, other, T, w) = HeldIn(O, own, S, w) \cup (IF w = v THEN {<<s, k>>} ELSE {})
         /\ <<s, k>> \notin HeldIn(O, own, S, w)
<1>0. w # Immediate
  BY ScopesAssumption
<1> USE <1>0 DEF Gets
<1> DEFINE A == HeldIn(O, own, S, w)
           B == HeldIn(O, other, T, w)
<1>1. \A p \in A \cup B : \E t \in O, i \in Nat : p = <<t, i>>
  BY DEF HeldIn
<1>2. ASSUME NEW t \in O, NEW i \in Nat, t # s \/ i # k
      PROVE  <<t, i>> \in A <=> <<t, i>> \in B
  <2>1. CASE t = s
    BY <1>2, <2>1 DEF HeldIn
  <2>2. CASE t # s
    BY <2>2 DEF HeldIn
  <2>3. QED BY <2>1, <2>2
<1>3. <<s, k>> \notin A
  BY DEF HeldIn
<1>4. <<s, k>> \in B <=> w = v
  BY DEF HeldIn
<1> DEFINE C == A \cup (IF w = v THEN {<<s, k>>} ELSE {})
<1>5. <<s, k>> \in C <=> w = v
  BY <1>3
<1>6. \A p : p \in C => p \in A \/ p = <<s, k>>
  OBVIOUS
<1>7. \A p \in A : p \in C
  OBVIOUS
<1> HIDE DEF A, B, C
<1>8. ASSUME NEW p \in B PROVE p \in C
  <2>1. PICK t \in O, i \in Nat : p = <<t, i>>
    BY <1>1
  <2>2. CASE p = <<s, k>>
    BY <1>4, <1>5, <2>2
  <2>3. CASE t # s \/ i # k
    BY <1>2, <1>7, <2>1, <2>3
  <2>4. QED BY <2>1, <2>2, <2>3
<1>9. ASSUME NEW p \in C PROVE p \in B
  <2>1. CASE p = <<s, k>>
    BY <1>4, <1>5, <2>1
  <2>2. CASE p # <<s, k>>
    <3>1. p \in A
      BY <1>6, <2>2
    <3>2. PICK t \in O, i \in Nat : p = <<t, i>>
      BY <1>1, <3>1
    <3>3. QED BY <1>2, <2>2, <3>1, <3>2
  <2>3. QED BY <2>1, <2>2
<1>10. B = C
  BY <1>8, <1>9
<1>11. QED BY <1>3, <1>10 DEF A, B, C

\* The destructor passes a slot.
Passes(O, own, S, T, s, k) ==
  /\ s \in O /\ k \in Nat /\ k \in 1..Len(own[s])
  /\ \A t \in O \ {s} : Ends(T, t) = Ends(S, t)
  /\ Ends(S, s) = {k} /\ Ends(T, s) = {k + 1}

LEMMA HeldPassed ==
  ASSUME NEW O, NEW own, NEW S, NEW T, NEW s, NEW k, Passes(O, own, S, T, s, k), NEW w
  PROVE  HeldIn(O, own, T, w) = HeldIn(O, own, S, w) \ {<<s, k>>}
         /\ (<<s, k>> \in HeldIn(O, own, S, w) <=> own[s][k] = w)
<1> USE DEF Passes
<1> DEFINE A == HeldIn(O, own, S, w)
           B == HeldIn(O, own, T, w)
<1>1. \A p \in A \cup B : \E t \in O, i \in Nat : p = <<t, i>>
  BY DEF HeldIn
<1>2. ASSUME NEW t \in O, NEW i \in Nat, t # s \/ i # k
      PROVE  <<t, i>> \in A <=> <<t, i>> \in B
  <2>1. CASE t = s
    <3>1. i >= k <=> i >= k + 1
      BY <1>2, <2>1
    <3>2. QED BY <2>1, <3>1 DEF HeldIn
  <2>2. CASE t # s
    BY <2>2 DEF HeldIn
  <2>3. QED BY <2>1, <2>2
<1>3. <<s, k>> \notin B /\ (<<s, k>> \in A <=> own[s][k] = w)
  <2>1. ~(k >= k + 1) /\ k >= k
    OBVIOUS
  <2>2. QED BY <2>1 DEF HeldIn
<1> HIDE DEF A, B
<1>4. ASSUME NEW p \in A, p # <<s, k>> PROVE p \in B
  BY <1>1, <1>2, <1>4
<1>5. ASSUME NEW p \in B PROVE p \in A /\ p # <<s, k>>
  BY <1>1, <1>2, <1>3
<1>6. B = A \ {<<s, k>>}
  BY <1>4, <1>5
<1>7. QED BY <1>3, <1>6 DEF A, B

\* No destructor starts in the middle, goes on or ends, and none takes an exception back.
Alike(S, T) ==
  /\ \A s : Ends(S, s) \subseteq Ends(T, s) /\ Ends(T, s) \subseteq Ends(S, s) \cup {1}
  /\ Releasing(S) \subseteq Releasing(T)

LEMMA HeldAlike ==
  ASSUME NEW O, NEW own, NEW S, NEW T, NEW v,
         \A s : Ends(S, s) \subseteq Ends(T, s) /\ Ends(T, s) \subseteq Ends(S, s) \cup {1}
  PROVE  HeldIn(O, own, T, v) = HeldIn(O, own, S, v)
<1>1. ASSUME NEW s, NEW k \in Nat, NEW n, k \in 1..n
      PROVE  (\A e \in Ends(S, s) : k >= e) <=> (\A e \in Ends(T, s) : k >= e)
  <2>1. Ends(S, s) \subseteq Ends(T, s) /\ Ends(T, s) \subseteq Ends(S, s) \cup {1}
    OBVIOUS
  <2>2. k >= 1
    BY <1>1
  <2>3. QED BY <2>1, <2>2
<1>2. QED BY <1>1 DEF HeldIn

LEMMA AlikeBegin ==
  ASSUME NEW d, Level(d), Shape,
         NEW pc \in (Script \cup Client \cup Closing \cup {"free"}) \ {"destroy"}, NEW k \in Nat,
         stack' = Push(Activation(pc, current, k))
  PROVE  Alike(stack, stack')
<1> DEFINE f == Activation(pc, current, k)
<1>1. current \in Scopes \cup {NULL} /\ stack \in Seq(Frame)
  BY FrameScopes DEF Shape, Level
<1>2. f \in Frame /\ f.pc # "destroy"
  BY <1>1 DEF Activation, Frame
<1>3. stack' = Append(stack, f)
  BY DEF Push
<1> HIDE DEF f
<1>4. QED BY <1>1, <1>2, <1>3, PushEnds DEF Alike

LEMMA AlikeEnd ==
  ASSUME NEW d, Level(d), stack # << >>, Top.pc \notin {"destroy", "release"}, stack' = Caller
  PROVE  Alike(stack, stack')
<1>1. stack \in Seq(Frame)
  BY FrameScopes DEF Level
<1>2. QED BY <1>1, PopEnds DEF Alike, Top, Caller

LEMMA AlikeGoesOn ==
  ASSUME NEW d \in [Scopes \cup {NULL} -> Nat], Level(d), Shape, stack # << >>,
         Top.pc \in {"drain", "caught"},
         NEW pc \in {"caught", "release", "destroy"}, NEW k \in Nat, pc = "destroy" => k = 1,
         LET B == Becomes(Activation(pc, Top.scope, k))
         IN stack' = B \/ stack' = Append(B, Activation("free", current, 0))
  PROVE  Alike(stack, stack')
<1> DEFINE f == Activation(pc, Top.scope, k)
           g == Activation("free", current, 0)
           B == [stack EXCEPT ![Len(stack)] = f]
<1>1. Top.scope \in Scopes \cup {NULL} /\ current \in Scopes \cup {NULL} /\ stack \in Seq(Frame)
  BY TopFacts DEF Shape
<1>2. /\ f \in Frame /\ f.pc = pc /\ f.scope = Top.scope /\ f.slot = k
      /\ g \in Frame /\ g.pc # "destroy"
  BY <1>1 DEF Activation, Frame, Closing
<1>3. stack' = B \/ stack' = Append(B, g)
  BY DEF Becomes
<1> HIDE DEF f, g
<1>4. B \in Seq(Frame)
  BY <1>1, <1>2, ReplaceFacts
<1>5. Alike(stack, B)
  <2>1. stack[Len(stack)].pc # "destroy" /\ stack[Len(stack)].pc # "release"
    BY DEF Top
  <2>2. \A s : Ends(B, s) = Ends(stack, s)
                            \cup (IF f.pc = "destroy" /\ f.scope = s THEN {f.slot} ELSE {})
    BY <1>1, <1>2, <2>1, ReplaceEnds
  <2>3. Releasing(stack) \subseteq Releasing(B)
    BY <1>1, <1>2, <2>1, ReplaceEnds
  <2> HIDE DEF B
  <2>4. QED BY <1>2, <2>2, <2>3 DEF Alike
<1> HIDE DEF B
<1>6. (\A s : Ends(Append(B, g), s) = Ends(B, s)) /\ Releasing(B) \subseteq Releasing(Append(B, g))
  BY <1>2, <1>4, PushEnds
<1>7. Alike(stack, Append(B, g))
  BY <1>5, <1>6 DEF Alike
<1>8. QED BY <1>3, <1>5, <1>7

LEMMA AlikeStep ==
  ASSUME NEW d \in [Scopes \cup {NULL} -> Nat], Level(d), Shape, [Next]_vars,
         ~ReleaseCaught, ~DestroySlot, ~DestroyScope
  PROVE  Alike(stack, stack')
<1>1. CASE stack' = stack
  BY <1>1 DEF Alike
<1>2. CASE \E s \in Scopes : CloseScope(s)
  <2>1. PICK s \in Scopes : CloseScope(s)
    BY <1>2
  <2>2. /\ 0 \in Nat
        /\ \/ stack' = Push(Activation("drain", current, 0))
           \/ stack' = Push(Activation("caught", current, 0))
    BY <2>1 DEF CloseScope
  <2>3. QED BY <2>2, AlikeBegin DEF Closing
<1>3. CASE CallFunction
  <2>1. 0 \in Nat /\ stack' = Push(Activation("call", current, 0))
    BY <1>3 DEF CallFunction
  <2>2. QED BY <2>1, AlikeBegin DEF Script
<1>4. CASE GetProperty
  <2> DEFINE k == Len(SlotsOf(current)) + 1
  <2>1. current # NULL /\ stack' = Push(Activation("get", current, k))
    BY <1>4 DEF GetProperty
  <2>2. k \in Nat
    <3>1. current \in Scopes
      BY <2>1 DEF Shape
    <3>2. QED BY <3>1, SlotsFacts, LenProperties DEF Shape
  <2> HIDE DEF k
  <2>3. QED BY <2>1, <2>2, AlikeBegin DEF Script
<1>5. CASE Callback
  <2>1. stack' = Push(Activation("callback", current, 0)) /\ 0 \in Nat
    BY <1>5 DEF Callback
  <2>2. QED BY <2>1, AlikeBegin DEF Client
<1>6. CASE \E v \in Counted : Collect(v)
  <2>1. 0 \in Nat /\ (stack' = stack \/ stack' = Push(Activation("free", current, 0)))
    BY <1>6 DEF Collect, Dies, Push
  <2>2. QED BY <1>1, <2>1, AlikeBegin
<1>7. CASE Returns
  <2>1. stack # << >> /\ Top.pc \notin {"destroy", "release"} /\ stack' = Caller
    BY <1>7 DEF Returns, ClientReturns, ScriptReturns, ScriptThrows, At, Client, Script
  <2>2. QED BY <2>1, AlikeEnd
<1>8. CASE Finalize
  <2>1. stack # << >> /\ Top.pc = "free" /\ 0 \in Nat
        /\ (stack' = Caller \/ stack' = Push(Activation("finalizer", current, 0)))
    BY <1>8 DEF Finalize, At
  <2>2. QED BY <2>1, AlikeBegin, AlikeEnd DEF Client
<1>9. CASE Drain
  <2>1. stack # << >> /\ Top.pc = "drain" /\ 0 \in Nat
        /\ \/ stack' = Becomes(Activation("caught", Top.scope, 0))
           \/ stack' = Push(Activation("job", current, 0))
    BY <1>9 DEF Drain, At
  <2>2. CASE stack' = Becomes(Activation("caught", Top.scope, 0))
    <3>1. "caught" \in {"caught", "release", "destroy"} /\ "caught" # "destroy"
      OBVIOUS
    <3>2. QED BY <2>1, <2>2, <3>1, AlikeGoesOn
  <2>3. CASE stack' = Push(Activation("job", current, 0))
    BY <2>1, <2>3, AlikeBegin DEF Script
  <2>4. QED BY <2>1, <2>2, <2>3
<1>10. CASE DestroyCaught
  <2>1. stack # << >> /\ Top.pc = "caught" /\ 0 \in Nat /\ 1 \in Nat
        /\ "release" \in {"caught", "release", "destroy"} /\ "release" # "destroy"
        /\ "destroy" \in {"caught", "release", "destroy"}
    BY <1>10 DEF DestroyCaught, At
  <2>2. CASE caught[Top.scope] \in Errors
    <3> DEFINE B == Becomes(Activation("release", Top.scope, 0))
    <3>1. FreeValue(caught[Top.scope], B)
      BY <1>10, <2>2 DEF DestroyCaught
    <3>2. stack' = B \/ stack' = Append(B, Activation("free", current, 0))
      BY <3>1 DEF FreeValue, Dies
    <3>3. QED BY <2>1, <3>2, AlikeGoesOn
  <2>3. CASE caught[Top.scope] \notin Errors
    <3>1. stack' = Becomes(Activation("destroy", Top.scope, 1))
      BY <1>10, <2>3 DEF DestroyCaught
    <3>2. QED BY <2>1, <3>1, AlikeGoesOn
  <2>4. QED BY <2>2, <2>3
<1>11. CASE Next /\ stack' # stack
  <2>1. \A s \in Scopes : ~OpenScope(s)
    BY <1>11 DEF OpenScope
  <2>2. \A v \in Value : ~Create(v)
    BY <1>11 DEF Create
  <2>3. ~EnqueueJob
    BY <1>11 DEF EnqueueJob, Enqueues
  <2>4. QED BY <1>2, <1>3, <1>4, <1>5, <1>6, <1>7, <1>8, <1>9, <1>10, <1>11, <2>1, <2>2, <2>3
        DEF Next, Engine
<1>12. stack' # stack => Next
  BY DEF vars
<1>13. QED BY <1>1, <1>11, <1>12

\* Every reference taken for an object is in one slot that still has it.
Owed ==
  \A v \in Objects :
    /\ IsFiniteSet(HeldIn(open, Own, stack, v))
    /\ count[v] = Cardinality(HeldIn(open, Own, stack, v))

LEMMA OwedSame ==
  ASSUME Owed, \A v \in Objects : count'[v] = count[v],
         \A v \in Objects : HeldIn(open', Own', stack', v) = HeldIn(open, Own, stack, v)
  PROVE  Owed'
BY DEF Owed

LEMMA OwedGains ==
  ASSUME Owed, Shape, NEW v \in Objects, NEW p, count' = Owned(v),
         \A w \in Objects :
           /\ HeldIn(open', Own', stack', w) =
                HeldIn(open, Own, stack, w) \cup (IF w = v THEN {p} ELSE {})
           /\ p \notin HeldIn(open, Own, stack, w)
  PROVE  Owed'
<1> SUFFICES ASSUME NEW w \in Objects
             PROVE  /\ IsFiniteSet(HeldIn(open', Own', stack', w))
                    /\ count'[w] = Cardinality(HeldIn(open', Own', stack', w))
  BY DEF Owed
<1> DEFINE A == HeldIn(open, Own, stack, w)
           B == HeldIn(open', Own', stack', w)
<1>1. IsFiniteSet(A) /\ count[w] = Cardinality(A) /\ p \notin A
  BY DEF Owed
<1>2. B = A \cup (IF w = v THEN {p} ELSE {})
  OBVIOUS
<1>3. count'[w] = IF w = v THEN count[w] + 1 ELSE count[w]
  BY DEF Owned, Shape, Counted
<1> HIDE DEF A, B
<1>4. CASE w = v
  <2>1. IsFiniteSet(A \cup {p}) /\ Cardinality(A \cup {p}) = Cardinality(A) + 1
    BY <1>1, FS_AddElement
  <2>2. QED BY <1>1, <1>2, <1>3, <1>4, <2>1 DEF B
<1>5. CASE w # v
  <2>1. B = A
    BY <1>2, <1>5
  <2>2. QED BY <1>1, <1>3, <1>5, <2>1 DEF B
<1>6. QED BY <1>4, <1>5

LEMMA OwedLoses ==
  ASSUME Owed, Shape, NEW v \in Objects, NEW p, count' = [count EXCEPT ![v] = @ - 1],
         \A w \in Objects :
           /\ HeldIn(open', Own', stack', w) = HeldIn(open, Own, stack, w) \ {p}
           /\ p \in HeldIn(open, Own, stack, w) <=> w = v
  PROVE  Owed'
<1> SUFFICES ASSUME NEW w \in Objects
             PROVE  /\ IsFiniteSet(HeldIn(open', Own', stack', w))
                    /\ count'[w] = Cardinality(HeldIn(open', Own', stack', w))
  BY DEF Owed
<1> DEFINE A == HeldIn(open, Own, stack, w)
           B == HeldIn(open', Own', stack', w)
<1>1. IsFiniteSet(A) /\ count[w] = Cardinality(A) /\ (p \in A <=> w = v)
  BY DEF Owed
<1>2. B = A \ {p}
  OBVIOUS
<1>3. count'[w] = IF w = v THEN count[w] - 1 ELSE count[w]
  BY DEF Shape, Counted
<1> HIDE DEF A, B
<1>4. IsFiniteSet(A \ {p}) /\ Cardinality(A \ {p}) = IF p \in A THEN Cardinality(A) - 1 ELSE Cardinality(A)
  BY <1>1, FS_RemoveElement
<1>5. QED BY <1>1, <1>2, <1>3, <1>4 DEF B

\* The value handed over goes into a slot that had none for it.
LEMMA OwedGiven ==
  ASSUME Owed, Shape, NEW v, Give(v), open' = open, NEW s, NEW k,
         Gets(open, Own, stack, Own', stack', v, s, k)
  PROVE  Owed'
<1>1. ASSUME NEW w \in Objects
      PROVE  /\ HeldIn(open', Own', stack', w) =
                  HeldIn(open, Own, stack, w) \cup (IF w = v THEN {<<s, k>>} ELSE {})
             /\ <<s, k>> \notin HeldIn(open, Own, stack, w)
  BY HeldGets
<1>2. CASE v = Immediate /\ UNCHANGED count
  <2>1. \A w \in Objects : HeldIn(open', Own', stack', w) = HeldIn(open, Own, stack, w)
    <3>1. \A w \in Objects : w # v
      BY <1>2, ScopesAssumption
    <3>2. QED BY <1>1, <3>1
  <2>2. QED BY <1>2, <2>1, OwedSame
<1>3. CASE v \in Objects /\ count' = Owned(v)
  BY <1>1, <1>3, OwedGains
<1>4. QED BY <1>2, <1>3 DEF Give

LEMMA AllocGets ==
  ASSUME Shape, Slotted(stack, Own), NEW O \in SUBSET Scopes, NEW c \in O, NEW v \in Value,
         AllocValue(c, v), \A t \in O : Ends(stack', t) = Ends(stack, t)
  PROVE  Gets(O, Own, stack, Own', stack', v, c, Len(SlotsOf(c)) + 1)
<1> PICK n : n = Len(SlotsOf(c))
  OBVIOUS
<1>1. c \in Scopes /\ SlotTypes
  BY DEF Shape
<1>2. /\ SlotTypes' /\ Len(SlotsOf(c)') = n + 1 /\ SlotsOf(c)'[n + 1] = v
      /\ \A k \in 1..n : SlotsOf(c)'[k] = SlotsOf(c)[k]
      /\ \A t \in Scopes \ {c} : SlotsOf(t)' = SlotsOf(t)
  BY <1>1, AllocFacts
<1>3. \A t \in Scopes : Own[t] = SlotsOf(t) /\ Own'[t] = SlotsOf(t)'
  BY DEF Own
<1>4. n \in Nat /\ Len(Own[c]) = n
  BY <1>1, OwnFacts, <1>3
<1> DEFINE o == Own
           g == Own'
<1>5. /\ Len(g[c]) = n + 1 /\ g[c][n + 1] = v /\ Len(o[c]) = n
      /\ \A k \in 1..n : g[c][k] = o[c][k]
      /\ \A t \in O \ {c} : g[t] = o[t]
  BY <1>1, <1>2, <1>3, <1>4
<1>6. \A e \in Ends(stack, c) : n + 1 >= e
  <2>1. \A i \in 1..Len(stack) : stack[i].pc = "destroy" /\ stack[i].scope = c =>
          stack[i].slot \in 1..(n + 1)
    BY <1>4 DEF Slotted
  <2>2. QED BY <1>4, <2>1 DEF Ends
<1> HIDE DEF o, g
<1>7. Gets(O, o, stack, g, stack', v, c, n + 1)
  BY <1>4, <1>5, <1>6 DEF Gets
<1>8. QED BY <1>7 DEF o, g

LEMMA StoreGets ==
  ASSUME NEW d \in [Scopes \cup {NULL} -> Nat], Level(d), Shape, Slotted(stack, Own), stack # << >>,
         NEW v \in Value, GetReturns(v), NEW O \in SUBSET Scopes, open \subseteq O,
         \A t \in O : Ends(stack', t) = Ends(stack, t)
  PROVE  Gets(O, Own, stack, Own', stack', v, Top.scope, Top.slot)
<1> PICK s, k : s = Top.scope /\ k = Top.slot
  OBVIOUS
<1>1. /\ s \in open /\ s \in O /\ s \in Scopes /\ SlotTypes
      /\ Len(stack) \in 1..Len(stack)
  BY TopFacts DEF Shape, GetReturns
<1>2. Store(s, k, v) /\ stack[Len(stack)].pc = "get"
      /\ stack[Len(stack)].scope = s /\ stack[Len(stack)].slot = k
  BY DEF GetReturns, Top
<1>3. \A t \in Scopes : Own[t] = SlotsOf(t) /\ Own'[t] = SlotsOf(t)'
  BY DEF Own
<1>4. k \in 1..Len(Own[s]) /\ Own[s][k] = Immediate
  BY <1>1, <1>2 DEF Slotted
<1>5. /\ Len(SlotsOf(s)') = Len(SlotsOf(s))
      /\ \A i \in 1..Len(SlotsOf(s)) : SlotsOf(s)'[i] = IF i = k THEN v ELSE SlotsOf(s)[i]
      /\ \A t \in Scopes \ {s} : SlotsOf(t)' = SlotsOf(t)
  <2>1. k \in 1..Len(SlotsOf(s))
    BY <1>1, <1>3, <1>4
  <2>2. QED BY <1>1, <1>2, <2>1, StoreFacts
<1> DEFINE o == Own
           g == Own'
<1>6. /\ Len(g[s]) = Len(o[s]) /\ k \in 1..Len(o[s]) /\ o[s][k] = Immediate
      /\ \A i \in 1..Len(o[s]) : g[s][i] = IF i = k THEN v ELSE o[s][i]
      /\ \A t \in O \ {s} : g[t] = o[t]
  BY <1>1, <1>3, <1>4, <1>5
<1>7. \A e \in Ends(stack, s) : k >= e
  <2>1. SlotAwaits
    <3>1. Structure
      BY DEF Structure
    <3>2. QED BY <3>1, SlotAwaitsFollows
  <2>2. k \in Owning(s)
    BY <1>1, <1>2, <2>1 DEF SlotAwaits
  <2>3. QED BY <2>2 DEF Owning, Ends
<1>8. k \in Nat
  BY <1>4
<1> HIDE DEF o, g
<1>9. Gets(O, o, stack, g, stack', v, s, k)
  BY <1>1, <1>6, <1>7, <1>8 DEF Gets
<1>10. QED BY <1>9 DEF o, g

\* The destructor passes one slot of its scope; no other has an end that moves.
LEMMA DestroySlotPasses ==
  ASSUME NEW d \in [Scopes \cup {NULL} -> Nat], Level(d), Shape, Slotted(stack, Own), DestroySlot,
         NEW O \in SUBSET Scopes, open \subseteq O
  PROVE  Passes(O, Own, stack, stack', Top.scope, Top.slot) /\ Own' = Own
<1> PICK s, k : s = Top.scope /\ k = Top.slot
  OBVIOUS
<1> PICK v : v = SlotsOf(s)[k]
  OBVIOUS
<1> DEFINE f == Activation("destroy", s, k + 1)
           g == Activation("free", current, 0)
           B == [stack EXCEPT ![Len(stack)] = f]
<1>1. /\ stack # << >> /\ Top.pc = "destroy" /\ Top.pc \in Closing /\ k \in 1..Len(SlotsOf(s))
      /\ FreeValue(v, B) /\ UNCHANGED <<open, values, dynamic>>
  BY DEF DestroySlot, At, Closing, slots, Becomes
<1>2. /\ s \in open /\ s \in Scopes /\ current \in Scopes /\ stack \in Seq(Frame)
      /\ Len(stack) \in Nat \ {0}
  BY <1>1, TopFacts DEF Shape
<1>3. Own[s] = SlotsOf(s) /\ Own' = Own /\ k \in Nat
  <2>1. Own' = Own
    BY <1>1, SameOwn DEF slots
  <2>2. QED BY <1>1, <1>2, <2>1, OwnFacts DEF Shape
<1>4. /\ f \in Frame /\ f.pc = "destroy" /\ f.scope = s /\ f.slot = k + 1
      /\ g \in Frame /\ g.pc # "destroy"
  BY <1>2, <1>3 DEF Activation, Frame, Closing
<1> HIDE DEF f
<1>5. stack' = B \/ stack' = Append(B, g)
  BY <1>1 DEF FreeValue, Dies
<1>6. /\ B \in Seq(Frame) /\ B # << >> /\ Len(B) = Len(stack) /\ B[Len(B)] = f
      /\ \A i \in 1..(Len(stack) - 1) : B[i] = stack[i]
  BY <1>1, <1>2, <1>4, ReplaceFacts
<1>7. \A i \in 1..(Len(stack) - 1) : stack[i].scope # s
  <2>1. Len(Caller) = Len(stack) - 1 /\ \A i \in 1..(Len(stack) - 1) : Caller[i] = stack[i]
    BY <1>1, <1>2, PopFacts DEF Caller
  <2>2. QED BY <1>1, <2>1, OthersOpen
<1>8. Ends(stack, s) = {k} /\ Ends(B, s) = {k + 1}
  <2>1. Ends(stack, stack[Len(stack)].scope) = {stack[Len(stack)].slot}
    <3>1. stack[Len(stack)].pc = "destroy"
          /\ \A i \in 1..(Len(stack) - 1) : stack[i].scope # stack[Len(stack)].scope
      BY <1>1, <1>7 DEF Top
    <3>2. QED BY <1>1, <1>2, <3>1, EndsAlone
  <2> HIDE DEF B
  <2>2. Ends(B, B[Len(B)].scope) = {B[Len(B)].slot}
    <3>1. B[Len(B)].pc = "destroy" /\ \A i \in 1..(Len(B) - 1) : B[i].scope # B[Len(B)].scope
      BY <1>4, <1>6, <1>7
    <3>2. QED BY <1>6, <3>1, EndsAlone
  <2>3. QED BY <1>4, <1>6, <2>1, <2>2 DEF Top
<1>9. \A t \in O \ {s} : Ends(B, t) = Ends(stack, t)
  <2>1. \A t : stack[Len(stack)].scope # t => Ends(B, t) = Ends(stack, t)
                   \cup (IF f.pc = "destroy" /\ f.scope = t THEN {f.slot} ELSE {})
    <3>1. Replaced(stack, B, f)
      BY <1>2, <1>6 DEF Replaced
    <3> HIDE DEF B
    <3>2. QED BY <3>1, EndsReplaced
  <2> HIDE DEF B
  <2>2. QED BY <1>4, <2>1 DEF Top
<1> HIDE DEF B, g
<1>10. \A t : Ends(stack', t) = Ends(B, t)
  BY <1>4, <1>5, <1>6, PushEnds
<1>11. Passes(O, Own, stack, stack', s, k)
  BY <1>1, <1>2, <1>3, <1>8, <1>9, <1>10 DEF Passes
<1>12. QED BY <1>3, <1>11

\* It gives up the reference of a slot as it passes it.
LEMMA OwedDestroySlot ==
  ASSUME NEW d \in [Scopes \cup {NULL} -> Nat], Level(d), Shape, Slotted(stack, Own), Owed, DestroySlot
  PROVE  Owed'
<1> PICK s, k : s = Top.scope /\ k = Top.slot
  OBVIOUS
<1> PICK v, B : v = SlotsOf(s)[k] /\ B = Becomes(Activation("destroy", s, k + 1))
  OBVIOUS
<1>1. /\ stack # << >> /\ Top.pc = "destroy" /\ k \in 1..Len(SlotsOf(s))
      /\ FreeValue(v, B) /\ open' = open
  BY DEF DestroySlot, At
<1>2. s \in Scopes
  BY <1>1, TopFacts DEF Shape
<1>3. Own[s] = SlotsOf(s) /\ Own' = Own /\ Passes(open, Own, stack, stack', s, k)
  BY <1>2, OwnFacts, DestroySlotPasses DEF Shape
<1>11. ASSUME NEW w \in Objects
       PROVE  /\ HeldIn(open', Own', stack', w) = HeldIn(open, Own, stack, w) \ {<<s, k>>}
              /\ <<s, k>> \in HeldIn(open, Own, stack, w) <=> w = v
  <2> DEFINE O == open
             o == Own
             S == stack
             T == stack'
  <2>1. Passes(O, o, S, T, s, k) /\ o[s][k] = v
    BY <1>3
  <2>2. open' = O /\ Own' = o
    BY <1>1, <1>3
  <2> HIDE DEF O, o, S, T
  <2>3. /\ HeldIn(O, o, T, w) = HeldIn(O, o, S, w) \ {<<s, k>>}
        /\ (<<s, k>> \in HeldIn(O, o, S, w) <=> o[s][k] = w)
    BY <2>1, HeldPassed
  <2>4. QED BY <2>1, <2>2, <2>3 DEF O, o, S, T
<1>12. v \in Value
  <2>1. SlotsOf(s) \in Seq(Value)
    BY <1>2, SlotsFacts DEF Shape
  <2>2. QED BY <1>1, <2>1
<1>13. CASE v = Immediate
  <2>1. UNCHANGED count /\ \A w \in Objects : w # v
    BY <1>1, <1>13, ScopesAssumption DEF FreeValue, Counted
  <2>2. ASSUME NEW w \in Objects
        PROVE  HeldIn(open', Own', stack', w) = HeldIn(open, Own, stack, w)
    <3> DEFINE A == HeldIn(open, Own, stack, w)
    <3>1. HeldIn(open', Own', stack', w) = A \ {<<s, k>>} /\ <<s, k>> \notin A
      BY <1>11, <2>1
    <3> HIDE DEF A
    <3>2. A \ {<<s, k>>} = A
      BY <3>1
    <3>3. QED BY <3>1, <3>2 DEF A
  <2>3. QED BY <2>1, <2>2, OwedSame
<1>14. CASE v \in Objects
  <2>1. count' = [count EXCEPT ![v] = @ - 1]
    BY <1>1, <1>14, ScopesAssumption DEF FreeValue
  <2>2. QED BY <1>11, <1>14, <2>1, OwedLoses
<1>15. QED BY <1>12, <1>13, <1>14 DEF Value

LEMMA OwedOpenScope ==
  ASSUME NEW d \in [Scopes \cup {NULL} -> Nat], Level(d), Shape, Owed, NEW s \in Scopes, OpenScope(s)
  PROVE  Owed'
<1>1. /\ s \notin open /\ open' = open \cup {s} /\ UNCHANGED <<stack, count>>
      /\ values' = [values EXCEPT ![s] = << >>] /\ dynamic' = [dynamic EXCEPT ![s] = << >>]
  BY DEF OpenScope
<1>2. \A t \in open : Own'[t] = Own[t]
  BY <1>1 DEF Own, SlotsOf, Shape, SlotTypes
<1>3. Own'[s] = << >>
  <2>1. values'[s] = << >> /\ dynamic'[s] = << >>
    BY <1>1 DEF Shape, SlotTypes
  <2>2. << >> \o << >> = << >>
    BY ConcatEmptySeq
  <2>3. QED BY <2>1, <2>2 DEF Own, SlotsOf
<1>4. Spare(open, Own, stack, s, Own', stack')
  BY <1>1, <1>2, <1>3 DEF Spare
<1>5. \A v \in Objects : HeldIn(open', Own', stack', v) = HeldIn(open, Own, stack, v)
  BY <1>1, <1>4, HeldSpare
<1>6. QED BY <1>1, <1>5, OwedSame

LEMMA OwedDestroyScope ==
  ASSUME NEW d \in [Scopes \cup {NULL} -> Nat], Level(d), Shape, Slotted(stack, Own), Owed, DestroyScope
  PROVE  Owed'
<1> PICK s, k : s = Top.scope /\ k = Top.slot
  OBVIOUS
<1>1. /\ stack # << >> /\ Top.pc = "destroy" /\ Top.pc \in Closing /\ k = Len(SlotsOf(s)) + 1
      /\ open' = open \ {s} /\ stack' = Caller /\ count' = count
      /\ values' = [values EXCEPT ![s] = << >>] /\ dynamic' = [dynamic EXCEPT ![s] = << >>]
  BY DEF DestroyScope, At, Closing
<1>2. /\ s \in open /\ s \in Scopes /\ stack \in Seq(Frame) /\ Len(stack) \in Nat \ {0}
  BY <1>1, TopFacts DEF Shape
<1>3. \A t \in open' : Own[t] = Own'[t]
  BY <1>1 DEF Own, SlotsOf, Shape, SlotTypes
<1>4. \A t \in open' : Ends(stack', t) = Ends(stack, t)
  <2>1. \A t : stack[Len(stack)].scope # t => Ends(stack', t) = Ends(stack, t)
    BY <1>1, <1>2, PopEnds DEF Caller
  <2>2. QED BY <1>1, <2>1 DEF Top
<1>5. k \in Ends(stack, s) /\ Len(Own[s]) \in Nat /\ k = Len(Own[s]) + 1
  <2>1. Len(stack) \in 1..Len(stack) /\ stack[Len(stack)].pc = "destroy"
        /\ stack[Len(stack)].scope = s /\ stack[Len(stack)].slot = k
    BY <1>1, <1>2 DEF Top
  <2>2. k \in Ends(stack, s)
    BY <2>1 DEF Ends
  <2>3. QED BY <1>1, <1>2, <2>2, OwnFacts DEF Shape
<1>6. Spare(open', Own', stack', s, Own, stack)
  BY <1>3, <1>4, <1>5 DEF Spare
<1>7. open' \cup {s} = open
  BY <1>1, <1>2
<1>8. \A v \in Objects : HeldIn(open', Own', stack', v) = HeldIn(open, Own, stack, v)
  BY <1>6, <1>7, HeldSpare
<1>9. QED BY <1>1, <1>8, OwedSame

\* Nobody else touches slots, their scopes or the references to objects.
LEMMA OwedUntouched ==
  ASSUME Owed, UNCHANGED <<open, slots>>, \A v \in Objects : count'[v] = count[v],
         \A s : Ends(stack, s) \subseteq Ends(stack', s) /\ Ends(stack', s) \subseteq Ends(stack, s) \cup {1}
  PROVE  Owed'
<1>1. Own' = Own /\ open' = open
  BY SameOwn
<1>2. \A v \in Objects : HeldIn(open, Own, stack', v) = HeldIn(open, Own, stack, v)
  BY HeldAlike
<1>3. QED BY <1>1, <1>2, OwedSame

LEMMA ReleaseCaughtEnds ==
  ASSUME NEW d \in [Scopes \cup {NULL} -> Nat], Level(d), Shape, ReleaseCaught
  PROVE  \A s : Ends(stack, s) \subseteq Ends(stack', s)
               /\ Ends(stack', s) \subseteq Ends(stack, s) \cup {1}
<1> DEFINE f == Activation("destroy", Top.scope, 1)
<1>1. /\ UNCHANGED <<open, slots, count>> /\ stack # << >> /\ Top.pc = "release"
      /\ stack' = [stack EXCEPT ![Len(stack)] = f]
  BY DEF ReleaseCaught, At, Becomes
<1>2. stack \in Seq(Frame) /\ Top.scope \in Scopes
  BY <1>1, TopFacts DEF Shape
<1>3. f \in Frame /\ f.slot = 1
  BY <1>2 DEF Activation, Frame, Closing
<1> HIDE DEF f
<1>4. stack[Len(stack)].pc # "destroy"
  BY <1>1 DEF Top
<1>5. \A s : Ends(stack', s) = Ends(stack, s)
               \cup (IF f.pc = "destroy" /\ f.scope = s THEN {f.slot} ELSE {})
  <2> DEFINE B == [stack EXCEPT ![Len(stack)] = f]
  <2>1. \A s : Ends(B, s) = Ends(stack, s)
                            \cup (IF f.pc = "destroy" /\ f.scope = s THEN {f.slot} ELSE {})
    <3>1. stack # << >>
      BY <1>1
    <3>2. f \in Frame /\ stack \in Seq(Frame)
      BY <1>2, <1>3
    <3>3. \A s : stack[Len(stack)].pc # "destroy" \/ stack[Len(stack)].scope # s =>
                   Ends(B, s) = Ends(stack, s)
                                \cup (IF f.pc = "destroy" /\ f.scope = s THEN {f.slot} ELSE {})
      BY <3>1, <3>2, ReplaceEnds
    <3> HIDE DEF B
    <3>4. QED BY <1>4, <3>3
  <2>2. stack' = B
    BY <1>1
  <2> HIDE DEF B
  <2>3. QED BY <2>1, <2>2
<1>6. \A s : Ends(stack, s) \subseteq Ends(stack', s) /\ Ends(stack', s) \subseteq Ends(stack, s) \cup {1}
  BY <1>3, <1>5
<1>7. QED BY <1>6

LEMMA OwedReleaseCaught ==
  ASSUME NEW d \in [Scopes \cup {NULL} -> Nat], Level(d), Shape, Owed, ReleaseCaught
  PROVE  Owed'
<1>1. UNCHANGED <<open, slots, count>>
  BY DEF ReleaseCaught
<1>2. QED BY <1>1, ReleaseCaughtEnds, OwedUntouched

LEMMA OwedKept ==
  ASSUME NEW d \in [Scopes \cup {NULL} -> Nat], Level(d), Shape, Slotted(stack, Own), Owed, [Next]_vars
  PROVE  Owed'
<1>1. CASE \E s \in Scopes : OpenScope(s)
  BY <1>1, OwedOpenScope
<1>2. CASE \E v \in Value : Create(v)
  <2> PICK v \in Value : Create(v)
    BY <1>2
  <2> PICK c : c = current
    OBVIOUS
  <2>1. c \in open /\ AllocValue(c, v) /\ Give(v) /\ UNCHANGED <<open, stack>>
    BY DEF Create, Level, Ranked
  <2>2. \A t \in open : Ends(stack', t) = Ends(stack, t)
    BY <2>1
  <2>3. Gets(open, Own, stack, Own', stack', v, c, Len(SlotsOf(c)) + 1)
    BY <2>1, <2>2, AllocGets DEF Shape
  <2>4. QED BY <2>1, <2>3, OwedGiven
<1>3. CASE GetProperty
  <2> PICK c : c = current
    OBVIOUS
  <2> PICK k : k = Len(SlotsOf(c)) + 1
    OBVIOUS
  <2> DEFINE f == Activation("get", c, k)
  <2>1. /\ c \in open /\ c \in Scopes /\ AllocValue(c, Immediate) /\ UNCHANGED <<open, count>>
        /\ stack' = Append(stack, f) /\ Immediate \in Value
    BY <1>3 DEF GetProperty, Level, Ranked, Push, Value, Shape
  <2>2. f \in Frame /\ f.pc # "destroy" /\ stack \in Seq(Frame)
    <3>1. k \in Nat
      BY <2>1, SlotsFacts, LenProperties DEF Shape
    <3>2. QED BY <2>1, <3>1, FrameScopes DEF Activation, Frame, Script, Level
  <2> HIDE DEF f
  <2>3. \A t \in open : Ends(stack', t) = Ends(stack, t)
    BY <2>1, <2>2, PushEnds
  <2>4. Give(Immediate)
    BY <2>1 DEF Give
  <2>5. Gets(open, Own, stack, Own', stack', Immediate, c, Len(SlotsOf(c)) + 1)
    BY <2>1, <2>3, AllocGets DEF Shape
  <2>6. QED BY <2>1, <2>4, <2>5, OwedGiven
<1>4. CASE \E v \in Value : ScriptReturns(v)
  <2> PICK v \in Value : ScriptReturns(v)
    BY <1>4
  <2> PICK c : c = current
    OBVIOUS
  <2>1. /\ stack # << >> /\ Top.pc \in Script /\ stack' = Caller /\ open' = open
    BY DEF ScriptReturns, At
  <2>2. /\ c = Top.scope /\ c \in open /\ stack \in Seq(Frame)
    BY <2>1, TopFacts DEF Script, Client
  <2>3. stack[Len(stack)].pc # "destroy"
    BY <2>1 DEF Top, Script
  <2>4. \A t : Ends(stack', t) = Ends(stack, t)
    BY <2>1, <2>2, <2>3, PopEnds DEF Caller
  <2>5. CASE CallReturns(v)
    <3>1. AllocValue(c, v) /\ Give(v)
      BY <2>5 DEF CallReturns
    <3>2. Gets(open, Own, stack, Own', stack', v, c, Len(SlotsOf(c)) + 1)
      BY <2>2, <2>4, <3>1, AllocGets DEF Shape
    <3>3. QED BY <2>1, <3>1, <3>2, OwedGiven
  <2>6. CASE GetReturns(v)
    <3>1. Give(v)
      BY <2>6 DEF GetReturns
    <3>2. Gets(open, Own, stack, Own', stack', v, Top.scope, Top.slot)
      BY <2>1, <2>4, <2>6, StoreGets DEF Shape
    <3>3. QED BY <2>1, <3>1, <3>2, OwedGiven
  <2>7. CASE JobReturns
    BY <2>1, <2>4, <2>7, OwedUntouched DEF JobReturns
  <2>8. QED BY <2>5, <2>6, <2>7 DEF ScriptReturns
<1>5. CASE ReleaseCaught
  BY <1>5, OwedReleaseCaught
<1>6. CASE DestroySlot
  BY <1>6, OwedDestroySlot
<1>7. CASE DestroyScope
  BY <1>7, OwedDestroyScope
<1>8. CASE /\ ~ReleaseCaught /\ ~DestroySlot /\ ~DestroyScope
           /\ UNCHANGED <<open, slots>> /\ \A v \in Objects : count'[v] = count[v]
  <2>1. Alike(stack, stack')
    BY <1>8, AlikeStep
  <2>2. QED BY <1>8, <2>1, OwedUntouched DEF Alike
<1>9. CASE \/ \E s \in Scopes : CloseScope(s)
           \/ CallFunction \/ Callback \/ EnqueueJob
           \/ \E v \in Counted : Collect(v)
           \/ ClientReturns \/ Finalize \/ Drain
  <2>1. UNCHANGED <<open, slots>> /\ \A v \in Objects : count'[v] = count[v]
    BY <1>9 DEF CloseScope, CallFunction, Callback, EnqueueJob, Enqueues, Collect, ClientReturns, Finalize, Drain
  <2>2. QED BY <1>5, <1>6, <1>7, <1>8, <2>1
<1>10. CASE \E e \in Errors : ScriptThrows(e)
  <2>1. UNCHANGED <<open, slots>> /\ \A v \in Objects : count'[v] = count[v]
    BY <1>10, ScopesAssumption DEF ScriptThrows, SetCaughtException, Owned, Shape, Counted
  <2>2. QED BY <1>5, <1>6, <1>7, <1>8, <2>1
<1>11. CASE DestroyCaught
  <2>1. UNCHANGED <<open, slots>>
    BY <1>11 DEF DestroyCaught
  <2>2. \A v \in Objects : count'[v] = count[v]
    BY <1>11, ScopesAssumption DEF DestroyCaught, FreeValue, Shape, Counted
  <2>3. QED BY <1>5, <1>6, <1>7, <1>8, <2>1, <2>2
<1>12. CASE UNCHANGED vars
  <2>1. UNCHANGED <<open, slots, count>>
    BY <1>12 DEF vars, slots
  <2>2. QED BY <1>5, <1>6, <1>7, <1>8, <2>1
<1>13. QED BY <1>1, <1>2, <1>3, <1>4, <1>5, <1>6, <1>7, <1>9, <1>10, <1>11, <1>12
       DEF Next, Returns, Engine

\* The scopes that own a reference to e.
Kept(e) == {s \in open : caught[s] = e /\ s \notin Releasing(stack)}

\* What `caught' refers to is owned; an exception that was overwritten stays owned too.
Blamed == \A e \in Errors : count[e] >= Cardinality(Kept(e))

LEMMA KeptFacts ==
  ASSUME Shape, NEW e
  PROVE  IsFiniteSet(Kept(e)) /\ Cardinality(Kept(e)) \in Nat
<1>1. Kept(e) \in SUBSET Scopes
  BY DEF Kept, Shape
<1>2. QED BY <1>1, FiniteScopes, FS_Subset, FS_CardinalityType

LEMMA BlamedStays ==
  ASSUME Shape, Blamed, \A e \in Errors : count'[e] = count[e] /\ Kept(e)' \subseteq Kept(e)
  PROVE  Blamed'
<1> SUFFICES ASSUME NEW e \in Errors PROVE count'[e] >= Cardinality(Kept(e)')
  BY DEF Blamed
<1> DEFINE A == Kept(e)
           B == Kept(e)'
<1>1. IsFiniteSet(A) /\ Cardinality(A) \in Nat /\ B \in SUBSET A
  BY KeptFacts
<1>2. count'[e] = count[e] /\ count[e] >= Cardinality(A) /\ count[e] \in Int
  BY DEF Blamed, Shape, Counted
<1> HIDE DEF A, B
<1>3. IsFiniteSet(B) /\ Cardinality(B) <= Cardinality(A) /\ Cardinality(B) \in Nat
  BY <1>1, FS_Subset, FS_CardinalityType
<1>4. count'[e] >= Cardinality(B)
  BY <1>1, <1>2, <1>3
<1>5. QED BY <1>4 DEF B

LEMMA BlamedScriptThrows ==
  ASSUME NEW d \in [Scopes \cup {NULL} -> Nat], Level(d), Shape, Blamed, NEW e \in Errors, ScriptThrows(e)
  PROVE  Blamed'
<1> PICK c : c = current
  OBVIOUS
<1>1. /\ stack # << >> /\ Top.pc \in Script /\ stack' = Caller /\ open' = open
  BY DEF ScriptThrows, At
<1>2. c \in open /\ c \in Scopes
  BY <1>1, TopFacts
<1>3. Releasing(stack) \subseteq Releasing(stack')
  <2>1. Top.pc \notin {"destroy", "release"}
    BY <1>1 DEF Script
  <2>2. QED BY <1>1, <2>1, AlikeEnd DEF Alike
<1>4. CASE UNCHANGED <<caught, count>>
  <2>1. \A w \in Errors : count'[w] = count[w] /\ Kept(w)' \subseteq Kept(w)
    BY <1>1, <1>3, <1>4 DEF Kept
  <2>2. QED BY <2>1, BlamedStays
<1>5. CASE caught' = [caught EXCEPT ![c] = e] /\ count' = Owned(e)
  <2> SUFFICES ASSUME NEW w \in Errors PROVE count'[w] >= Cardinality(Kept(w)')
    BY DEF Blamed
  <2> DEFINE A == Kept(w)
             B == Kept(w)'
  <2>1. IsFiniteSet(A) /\ Cardinality(A) \in Nat
    BY KeptFacts
  <2>2. count[w] >= Cardinality(A) /\ count[w] \in Int
        /\ count'[w] = IF w = e THEN count[w] + 1 ELSE count[w]
    BY <1>5 DEF Blamed, Shape, Counted, Owned
  <2>3. B \subseteq A \cup (IF w = e THEN {c} ELSE {})
    <3>1. ASSUME NEW s \in Kept(w)' PROVE s \in A \/ (w = e /\ s = c)
      <4>1. s \in open /\ s \in Scopes /\ caught'[s] = w /\ s \notin Releasing(stack)
        BY <1>1, <1>3, <3>1 DEF Kept, Shape
      <4>2. QED BY <1>5, <4>1 DEF Kept, Shape
    <3>2. QED BY <3>1
  <2> HIDE DEF A, B
  <2>4. CASE w = e
    <3>1. /\ IsFiniteSet(A \cup {c})
          /\ Cardinality(A \cup {c}) = IF c \in A THEN Cardinality(A) ELSE Cardinality(A) + 1
      BY <2>1, FS_AddElement
    <3>2. B \in SUBSET (A \cup {c})
      BY <2>3, <2>4
    <3>3. IsFiniteSet(B) /\ Cardinality(B) <= Cardinality(A \cup {c}) /\ Cardinality(B) \in Nat
      BY <3>1, <3>2, FS_Subset, FS_CardinalityType
    <3>4. count'[w] >= Cardinality(B)
      BY <2>1, <2>2, <2>4, <3>1, <3>3
    <3>5. QED BY <3>4 DEF B
  <2>5. CASE w # e
    <3>1. B \in SUBSET A
      BY <2>3, <2>5
    <3>2. IsFiniteSet(B) /\ Cardinality(B) <= Cardinality(A) /\ Cardinality(B) \in Nat
      BY <2>1, <3>1, FS_Subset, FS_CardinalityType
    <3>3. count'[w] >= Cardinality(B)
      BY <2>1, <2>2, <2>5, <3>2
    <3>4. QED BY <3>3 DEF B
  <2>6. QED BY <2>4, <2>5
<1>6. QED BY <1>4, <1>5 DEF ScriptThrows, SetCaughtException

\* The destructor gives up the reference, and the scope it was for is no longer counted.
LEMMA BlamedDestroyCaught ==
  ASSUME NEW d \in [Scopes \cup {NULL} -> Nat], Level(d), Shape, Blamed, DestroyCaught
  PROVE  Blamed'
<1> PICK s : s = Top.scope
  OBVIOUS
<1> PICK x : x = caught[s]
  OBVIOUS
<1> DEFINE f == Activation("release", s, 0)
           g == Activation("free", current, 0)
           B == [stack EXCEPT ![Len(stack)] = f]
<1>1. /\ stack # << >> /\ Top.pc = "caught" /\ UNCHANGED <<open, caught>>
      /\ Top.pc \in Closing
  BY DEF DestroyCaught, At, Closing
<1>2. /\ s \in open /\ s \in Scopes /\ current \in Scopes /\ stack \in Seq(Frame)
      /\ Len(stack) \in Nat \ {0}
  BY <1>1, TopFacts DEF Shape
<1>3. Releasing(stack) \subseteq Releasing(stack')
  <2>1. ~ReleaseCaught /\ ~DestroySlot /\ ~DestroyScope
    BY <1>1 DEF ReleaseCaught, DestroySlot, DestroyScope, At
  <2>2. Next
    BY DEF Next, Engine
  <2>3. QED BY <2>1, <2>2, AlikeStep DEF Alike
<1>4. CASE x \notin Errors
  <2>1. UNCHANGED count
    BY <1>4 DEF DestroyCaught
  <2>2. \A w \in Errors : count'[w] = count[w] /\ Kept(w)' \subseteq Kept(w)
    BY <1>1, <1>3, <2>1 DEF Kept
  <2>3. QED BY <2>2, BlamedStays
<1>5. CASE x \in Errors
  <2>1. FreeValue(x, B)
    BY <1>5 DEF DestroyCaught, Becomes
  <2>2. stack' = B \/ stack' = Append(B, g)
    BY <2>1 DEF FreeValue, Dies
  <2>3. f \in Frame /\ f.pc = "release" /\ f.scope = s /\ g \in Frame /\ g.pc # "destroy"
    BY <1>2 DEF Activation, Frame, Closing
  <2>4. count' = [count EXCEPT ![x] = @ - 1]
    BY <1>5, <2>1, ScopesAssumption DEF FreeValue
  <2> HIDE DEF f, g
  <2>5. s \in Releasing(B) /\ B \in Seq(Frame)
    <3>1. stack # << >> /\ stack \in Seq(Frame) /\ f \in Frame
      BY <1>1, <1>2, <2>3
    <3>2. f.pc = "release" => f.scope \in Releasing(B)
      BY <3>1, ReplaceEnds
    <3>3. B \in Seq(Frame)
      BY <3>1, ReplaceFacts
    <3>4. QED BY <2>3, <3>2, <3>3
  <2> HIDE DEF B
  <2>6. s \in Releasing(stack')
    BY <2>2, <2>3, <2>5, PushEnds
  <2>7. s \notin Releasing(stack)
    <3> SUFFICES ASSUME NEW i \in 1..Len(stack), stack[i].pc = "release", stack[i].scope = s
                 PROVE  FALSE
      BY DEF Releasing
    <3>1. i # Len(stack)
      BY <1>1 DEF Top
    <3>2. i \in 1..Len(Caller) /\ Caller[i] = stack[i]
      <4>1. Len(Caller) = Len(stack) - 1 /\ \A j \in 1..(Len(stack) - 1) : Caller[j] = stack[j]
        BY <1>1, <1>2, PopFacts DEF Caller
      <4>2. QED BY <1>2, <3>1, <4>1
    <3>3. QED BY <1>1, <3>2, OthersOpen
  <2> SUFFICES ASSUME NEW w \in Errors PROVE count'[w] >= Cardinality(Kept(w)')
    BY DEF Blamed
  <2> DEFINE K == Kept(w)
             L == Kept(w)'
  <2>8. IsFiniteSet(K) /\ Cardinality(K) \in Nat
    BY KeptFacts
  <2>9. count[w] >= Cardinality(K) /\ count[w] \in Int
        /\ count'[w] = IF w = x THEN count[w] - 1 ELSE count[w]
    BY <2>4 DEF Blamed, Shape, Counted
  <2>10. s \in K <=> w = x
    BY <1>2, <2>7 DEF Kept
  <2>11. L \subseteq K \ {s}
    BY <1>1, <1>3, <2>6 DEF Kept
  <2> HIDE DEF K, L
  <2>12. /\ IsFiniteSet(K \ {s})
         /\ Cardinality(K \ {s}) = IF s \in K THEN Cardinality(K) - 1 ELSE Cardinality(K)
    BY <2>8, FS_RemoveElement
  <2>13. IsFiniteSet(L) /\ Cardinality(L) <= Cardinality(K \ {s}) /\ Cardinality(L) \in Nat
    <3>1. L \in SUBSET (K \ {s})
      BY <2>11
    <3>2. QED BY <2>12, <3>1, FS_Subset, FS_CardinalityType
  <2>14. count'[w] >= Cardinality(L)
    BY <2>8, <2>9, <2>10, <2>12, <2>13
  <2>15. QED BY <2>14 DEF L
<1>6. QED BY <1>4, <1>5

LEMMA BlamedReleaseCaught ==
  ASSUME NEW d \in [Scopes \cup {NULL} -> Nat], Level(d), Shape, Blamed, ReleaseCaught
  PROVE  Blamed'
<1> PICK s : s = Top.scope
  OBVIOUS
<1> DEFINE f == Activation("destroy", s, 1)
           B == [stack EXCEPT ![Len(stack)] = f]
<1>1. /\ stack # << >> /\ Top.pc = "release" /\ UNCHANGED <<open, count>>
      /\ caught' = [caught EXCEPT ![s] = "freed"]
  BY DEF ReleaseCaught, At
<1>2. stack' = B
  BY DEF ReleaseCaught, Becomes
<1>3. s \in Scopes /\ stack \in Seq(Frame) /\ stack # << >>
  BY <1>1, TopFacts DEF Shape
<1>4. f \in Frame
  BY <1>3 DEF Activation, Frame, Closing
<1> HIDE DEF f
<1>5. \A t \in Releasing(stack) : t \in Releasing(B)
                                  \/ (stack[Len(stack)].pc = "release" /\ t = stack[Len(stack)].scope)
  BY <1>3, <1>4, ReplaceEnds
<1> HIDE DEF B
<1>6. \A t \in Releasing(stack) : t \in Releasing(stack') \/ t = s
  BY <1>2, <1>5 DEF Top
<1>7. ASSUME NEW e \in Errors PROVE count'[e] = count[e] /\ Kept(e)' \subseteq Kept(e)
  <2>1. ASSUME NEW t \in Kept(e)' PROVE t \in Kept(e)
    <3>1. t \in open /\ t \in Scopes /\ caught'[t] = e /\ t \notin Releasing(stack')
      BY <1>1, <2>1 DEF Kept, Shape
    <3>2. t # s /\ caught[t] = e
      BY <1>1, <3>1, ScopesAssumption DEF Shape
    <3>3. QED BY <1>6, <3>1, <3>2 DEF Kept
  <2>2. QED BY <1>1, <2>1
<1>8. QED BY <1>7, BlamedStays

LEMMA BlamedDestroySlot ==
  ASSUME NEW d \in [Scopes \cup {NULL} -> Nat], Level(d), Shape, Blamed, DestroySlot
  PROVE  Blamed'
<1> PICK s, k : s = Top.scope /\ k = Top.slot
  OBVIOUS
<1> PICK v : v = SlotsOf(s)[k]
  OBVIOUS
<1> DEFINE f == Activation("destroy", s, k + 1)
           g == Activation("free", current, 0)
           B == [stack EXCEPT ![Len(stack)] = f]
<1>1. /\ stack # << >> /\ Top.pc = "destroy" /\ k \in 1..Len(SlotsOf(s))
      /\ FreeValue(v, B) /\ UNCHANGED <<open, caught>>
  BY DEF DestroySlot, At, Becomes
<1>2. s \in Scopes /\ current \in Scopes /\ stack \in Seq(Frame) /\ stack # << >> /\ k \in Nat
  <2>1. Top \in Frame /\ Top.scope \in open /\ current \in Scopes /\ stack \in Seq(Frame)
    BY <1>1, TopFacts DEF Closing
  <2>2. Top.slot \in Nat
    BY <2>1 DEF Frame
  <2>3. QED BY <1>1, <2>1, <2>2 DEF Shape
<1>3. f \in Frame /\ g \in Frame /\ g.pc # "destroy"
  BY <1>2 DEF Activation, Frame, Closing
<1>4. stack' = B \/ stack' = Append(B, g)
  BY <1>1 DEF FreeValue, Dies
<1> HIDE DEF f, g
<1>5. \A t \in Releasing(stack) : t \in Releasing(B)
                                  \/ (stack[Len(stack)].pc = "release" /\ t = stack[Len(stack)].scope)
  BY <1>2, <1>3, ReplaceEnds
<1>6. B \in Seq(Frame)
  BY <1>2, <1>3, ReplaceFacts
<1> HIDE DEF B
<1>7. Releasing(stack) \subseteq Releasing(B)
  BY <1>1, <1>5 DEF Top
<1>8. Releasing(B) \subseteq Releasing(stack')
  BY <1>3, <1>4, <1>6, PushEnds
<1>9. v \notin Errors
  <2>1. SlotsOf(s) \in Seq(Value)
    BY <1>2, SlotsFacts DEF Shape
  <2>2. v \in Value
    BY <1>1, <2>1
  <2>3. QED BY <2>2, ScopesAssumption DEF Value
<1>10. \A e \in Errors : count'[e] = count[e]
  BY <1>1, <1>9 DEF FreeValue, Shape, Counted
<1>11. \A e \in Errors : Kept(e)' \subseteq Kept(e)
  BY <1>1, <1>7, <1>8 DEF Kept
<1>12. QED BY <1>10, <1>11, BlamedStays

LEMMA BlamedDestroyScope ==
  ASSUME NEW d \in [Scopes \cup {NULL} -> Nat], Level(d), Shape, Blamed, DestroyScope
  PROVE  Blamed'
<1> PICK s : s = Top.scope
  OBVIOUS
<1>1. /\ stack # << >> /\ Top.pc = "destroy" /\ open' = open \ {s} /\ stack' = Caller
      /\ caught' = [caught EXCEPT ![s] = NULL] /\ count' = count
  BY DEF DestroyScope, At
<1>2. stack \in Seq(Frame) /\ stack[Len(stack)].pc # "release"
  BY <1>1, TopFacts DEF Top
<1>3. Releasing(stack) \subseteq Releasing(stack')
  BY <1>1, <1>2, PopEnds DEF Caller
<1>4. \A t \in open' : t \in open /\ caught'[t] = caught[t]
  BY <1>1 DEF Shape
<1>5. \A e \in Errors : count'[e] = count[e] /\ Kept(e)' \subseteq Kept(e)
  BY <1>1, <1>3, <1>4 DEF Kept
<1>6. QED BY <1>5, BlamedStays

LEMMA BlamedOpenScope ==
  ASSUME NEW d \in [Scopes \cup {NULL} -> Nat], Level(d), Shape, Blamed, NEW s \in Scopes, OpenScope(s)
  PROVE  Blamed'
<1>1. /\ s \notin open /\ open' = open \cup {s} /\ UNCHANGED <<stack, count>>
      /\ caught' = [caught EXCEPT ![s] = NULL]
  BY DEF OpenScope
<1>2. ASSUME NEW e \in Errors, NEW t \in Kept(e)' PROVE t \in Kept(e)
  <2>1. t \in open' /\ caught'[t] = e /\ t \notin Releasing(stack) /\ t \in Scopes
    BY <1>1, <1>2 DEF Kept, Shape
  <2>2. t # s /\ caught[t] = e
    BY <1>1, <2>1, ScopesAssumption DEF Shape
  <2>3. QED BY <1>1, <2>1, <2>2 DEF Kept
<1>3. \A e \in Errors : count'[e] = count[e] /\ Kept(e)' \subseteq Kept(e)
  BY <1>1, <1>2
<1>4. QED BY <1>3, BlamedStays

LEMMA BlamedKept ==
  ASSUME NEW d \in [Scopes \cup {NULL} -> Nat], Level(d), Shape, Blamed, [Next]_vars
  PROVE  Blamed'
<1>1. CASE \E s \in Scopes : OpenScope(s)
  BY <1>1, BlamedOpenScope
<1>2. CASE \E e \in Errors : ScriptThrows(e)
  BY <1>2, BlamedScriptThrows
<1>3. CASE DestroyCaught
  BY <1>3, BlamedDestroyCaught
<1>4. CASE ReleaseCaught
  BY <1>4, BlamedReleaseCaught
<1>5. CASE DestroySlot
  BY <1>5, BlamedDestroySlot
<1>6. CASE DestroyScope
  BY <1>6, BlamedDestroyScope
<1>7. CASE /\ ~ReleaseCaught /\ ~DestroySlot /\ ~DestroyScope
           /\ UNCHANGED <<open, caught>> /\ \A e \in Errors : count'[e] = count[e]
  <2>1. Releasing(stack) \subseteq Releasing(stack')
    BY <1>7, AlikeStep DEF Alike
  <2>2. \A e \in Errors : count'[e] = count[e] /\ Kept(e)' \subseteq Kept(e)
    BY <1>7, <2>1 DEF Kept
  <2>3. QED BY <2>2, BlamedStays
<1>8. CASE \/ \E s \in Scopes : CloseScope(s)
           \/ CallFunction \/ GetProperty \/ Callback \/ EnqueueJob
           \/ \E v \in Counted : Collect(v)
           \/ ClientReturns \/ Finalize \/ Drain
  <2>1. UNCHANGED <<open, caught, count>>
    BY <1>8 DEF CloseScope, CallFunction, GetProperty, Callback, EnqueueJob, Enqueues, Collect, ClientReturns,
       Finalize, Drain
  <2>2. QED BY <1>4, <1>5, <1>6, <1>7, <2>1
<1>9. CASE \E v \in Value : Create(v) \/ ScriptReturns(v)
  <2> PICK v \in Value : Create(v) \/ ScriptReturns(v)
    BY <1>9
  <2>1. UNCHANGED <<open, caught>> /\ (Give(v) \/ UNCHANGED count)
    BY DEF Create, ScriptReturns, CallReturns, GetReturns, JobReturns
  <2>2. \A e \in Errors : count'[e] = count[e]
    BY <2>1, ScopesAssumption DEF Give, Owned, Shape, Counted
  <2>3. QED BY <1>4, <1>5, <1>6, <1>7, <2>1, <2>2
<1>10. CASE UNCHANGED vars
  <2>1. UNCHANGED <<open, caught, count>>
    BY <1>10 DEF vars, slots
  <2>2. QED BY <1>4, <1>5, <1>6, <1>7, <2>1
<1>11. QED BY <1>1, <1>2, <1>3, <1>4, <1>5, <1>6, <1>8, <1>9, <1>10 DEF Next, Returns, Engine

-----------------------------------------------------------------------------
(* Theorems about references.                                              *)

LEMMA AccountedFollows ==
  ASSUME Framed, Owed, Blamed
  PROVE  Accounted
<1> PICK d \in [Scopes \cup {NULL} -> Nat] : Level(d) /\ Shape
  BY DEF Framed, Structure
<1>1. ASSUME NEW v \in Objects
      PROVE  UNION {{s} \X Holding(s, v) : s \in open} = HeldIn(open, Own, stack, v)
  <2> DEFINE A == UNION {{s} \X Holding(s, v) : s \in open}
             B == HeldIn(open, Own, stack, v)
  <2>1. ASSUME NEW s \in open, NEW k
        PROVE  k \in Holding(s, v) <=> k \in Nat /\ <<s, k>> \in B
    <3>1. Own[s] = SlotsOf(s) /\ Len(Own[s]) \in Nat
      BY OwnFacts DEF Shape
    <3>2. k \in 1..Len(Own[s]) => k \in Nat
      BY <3>1
    <3>3. (\A i \in 1..Len(stack) :
             stack[i].pc = "destroy" /\ stack[i].scope = s => k >= stack[i].slot)
          <=> \A e \in Ends(stack, s) : k >= e
      BY DEF Ends
    <3>4. k \in Holding(s, v) <=> /\ k \in 1..Len(Own[s]) /\ Own[s][k] = v
                                  /\ \A e \in Ends(stack, s) : k >= e
      BY <3>1, <3>3 DEF Holding, Owning
    <3>5. k \in Nat /\ <<s, k>> \in B <=> /\ k \in 1..Len(Own[s]) /\ Own[s][k] = v
                                          /\ \A e \in Ends(stack, s) : k >= e
      BY <3>2 DEF HeldIn
    <3>6. QED BY <3>4, <3>5
  <2>2. \A p \in B : \E s \in open, k \in Nat : p = <<s, k>>
    BY DEF HeldIn
  <2>3. \A p : p \in A <=> \E s \in open : p \in {s} \X Holding(s, v)
    OBVIOUS
  <2> HIDE DEF A, B
  <2>4. ASSUME NEW p \in A PROVE p \in B
    <3>1. PICK s \in open : p \in {s} \X Holding(s, v)
      BY <2>3
    <3>2. PICK k \in Holding(s, v) : p = <<s, k>>
      BY <3>1
    <3>3. QED BY <2>1, <3>2
  <2>5. ASSUME NEW p \in B PROVE p \in A
    <3>1. PICK s \in open, k \in Nat : p = <<s, k>>
      BY <2>2
    <3>2. k \in Holding(s, v)
      BY <2>1, <3>1
    <3>3. QED BY <2>3, <3>1, <3>2
  <2>6. QED BY <2>4, <2>5 DEF A, B
<1>2. ASSUME NEW e \in Errors
      PROVE  {s \in open : caught[s] = e /\ ~LetGo(s)} = Kept(e)
  BY DEF Kept, LetGo, Releasing
<1>3. \A v \in Objects : count[v] = Cardinality(UNION {{s} \X Holding(s, v) : s \in open})
  BY <1>1 DEF Owed
<1>4. \A e \in Errors : count[e] >= Cardinality({s \in open : caught[s] = e /\ ~LetGo(s)})
  BY <1>2 DEF Blamed
<1>5. QED BY <1>3, <1>4 DEF Accounted

\* The bound of the model on references.
Bounded == \A v \in Counted : count[v] <= MaxRefs

LEMMA BoundedKept ==
  ASSUME Shape, Bounded, [Next]_vars
  PROVE  Bounded'
<1> USE DEF Bounded
<1>1. CASE UNCHANGED count
  BY <1>1
<1>2. ASSUME NEW v \in Counted, count[v] < MaxRefs, count' = Owned(v) PROVE Bounded'
  BY <1>2, ScopesAssumption DEF Owned, Shape
<1>3. ASSUME NEW v \in Counted, count' = [count EXCEPT ![v] = @ - 1] PROVE Bounded'
  BY <1>3, ScopesAssumption DEF Shape
<1>4. ASSUME NEW v, Give(v) PROVE Bounded'
  BY <1>1, <1>2, <1>4 DEF Give, Available, Counted
<1>5. ASSUME NEW v, NEW S, FreeValue(v, S) PROVE Bounded'
  BY <1>1, <1>3, <1>5 DEF FreeValue
<1>6. CASE \E v \in Value : Create(v) \/ ScriptReturns(v)
  BY <1>1, <1>4, <1>6 DEF Create, ScriptReturns, CallReturns, GetReturns, JobReturns
<1>7. CASE \E e \in Errors : ScriptThrows(e)
  BY <1>1, <1>2, <1>7 DEF ScriptThrows, SetCaughtException, Available, Counted
<1>8. CASE DestroyCaught
  BY <1>1, <1>5, <1>8 DEF DestroyCaught
<1>9. CASE DestroySlot
  BY <1>5, <1>9 DEF DestroySlot
<1>10. CASE \/ \E s \in Scopes : OpenScope(s) \/ CloseScope(s)
            \/ CallFunction \/ GetProperty \/ Callback \/ EnqueueJob
            \/ \E v \in Counted : Collect(v)
            \/ ClientReturns \/ Finalize \/ Drain \/ ReleaseCaught \/ DestroyScope
  <2>1. UNCHANGED count
    BY <1>10 DEF OpenScope, CloseScope, CallFunction, GetProperty, Callback, EnqueueJob, Enqueues, Collect,
       ClientReturns, Finalize, Drain, ReleaseCaught, DestroyScope
  <2>2. QED BY <1>1, <2>1
<1>11. CASE UNCHANGED vars
  BY <1>1, <1>11 DEF vars
<1>12. QED BY <1>6, <1>7, <1>8, <1>9, <1>10, <1>11 DEF Next, Returns, Engine

Ledger == CalmAlways /\ Owed /\ Blamed /\ Bounded

LEMMA LedgerHolds == Spec => []Ledger
<1>1. Init => Owed /\ Blamed /\ Bounded
  <2> SUFFICES ASSUME Init PROVE Owed /\ Blamed /\ Bounded
    OBVIOUS
  <2>1. open = {} /\ \A v \in Counted : count[v] = 0
    BY DEF Init
  <2>2. \A v \in Objects : HeldIn(open, Own, stack, v) = {}
    BY <2>1 DEF HeldIn
  <2>3. \A e \in Errors : Kept(e) = {}
    BY <2>1 DEF Kept
  <2>4. IsFiniteSet({}) /\ Cardinality({}) = 0
    BY FS_EmptySet
  <2>5. Owed
    BY <2>1, <2>2, <2>4 DEF Owed, Counted
  <2>6. Blamed
    BY <2>1, <2>3, <2>4 DEF Blamed, Counted
  <2>7. Bounded
    BY <2>1, ScopesAssumption DEF Bounded
  <2>8. QED BY <2>5, <2>6, <2>7
<1>2. Ledger /\ CalmAlways' /\ [Next]_vars => Owed' /\ Blamed' /\ Bounded'
  <2> SUFFICES ASSUME Ledger, [Next]_vars PROVE Owed' /\ Blamed' /\ Bounded'
    OBVIOUS
  <2> PICK d \in [Scopes \cup {NULL} -> Nat] : Level(d) /\ Shape /\ Slotted(stack, Own)
    BY DEF Ledger, CalmAlways, Framed, Structure
  <2>1. Owed'
    BY OwedKept DEF Ledger
  <2>2. Blamed'
    BY BlamedKept DEF Ledger
  <2>3. Bounded'
    BY BoundedKept DEF Ledger
  <2>4. QED BY <2>1, <2>2, <2>3
<1>3. QED BY <1>1, <1>2, CalmHolds, PTL DEF Spec, Ledger

\* Every counted reference is in one slot of an open scope, which the destructor has not passed,
\* and a caught exception is owned until its scope lets go of it: nothing is freed twice or
\* early, and nothing is kept past its scope.
THEOREM ReferencesAccounted == Spec => []Accounted
<1>1. Ledger => Accounted
  BY AccountedFollows DEF Ledger, CalmAlways
<1>2. QED BY <1>1, LedgerHolds, PTL

\* The variables have their types; no count is ever negative.
THEOREM TypesHold == Spec => []TypeOK
<1>1. Ledger => TypeOK
  <2> SUFFICES ASSUME Ledger PROVE TypeOK
    OBVIOUS
  <2> PICK d \in [Scopes \cup {NULL} -> Nat] : Level(d) /\ Shape
    BY DEF Ledger, CalmAlways, Framed, Structure
  <2>1. count \in [Counted -> 0..MaxRefs]
    <3>1. ASSUME NEW v \in Objects PROVE count[v] >= 0
      <4>1. Cardinality(HeldIn(open, Own, stack, v)) \in Nat
        BY FS_CardinalityType DEF Ledger, Owed
      <4>2. QED BY <4>1 DEF Ledger, Owed
    <3>2. ASSUME NEW e \in Errors PROVE count[e] >= 0
      <4>1. Cardinality(Kept(e)) \in Nat /\ count[e] \in Int
        BY KeptFacts DEF Shape, Counted
      <4>2. QED BY <4>1 DEF Ledger, Blamed
    <3>3. \A v \in Counted : count[v] \in 0..MaxRefs
      BY <3>1, <3>2, ScopesAssumption DEF Shape, Ledger, Bounded, Counted
    <3>4. QED BY <3>3 DEF Shape
  <2>2. jobs \in Seq(1..MaxJobs) /\ queued \in 0..MaxJobs /\ ran \in 0..MaxJobs /\ due \in 0..MaxJobs
    <3>1. Orderly /\ MaxJobs \in Nat
      BY ScopesAssumption DEF Ledger, CalmAlways
    <3>2. queued \in 0..MaxJobs /\ ran \in 0..MaxJobs /\ due \in 0..MaxJobs
      BY <3>1 DEF Orderly
    <3>3. PICK n \in Nat : n = queued - ran
      BY <3>1 DEF Orderly
    <3>4. jobs = [i \in 1..n |-> ran + i]
      BY <3>1, <3>3 DEF Orderly
    <3>5. ASSUME NEW i \in 1..n PROVE ran + i \in 1..MaxJobs
      BY <3>1, <3>3 DEF Orderly
    <3>6. jobs \in [1..n -> 1..MaxJobs]
      BY <3>4, <3>5
    <3>7. jobs \in Seq(1..MaxJobs)
      <4>1. PICK S : S = 1..MaxJobs
        OBVIOUS
      <4>2. jobs \in Seq(S)
        <5>1. jobs \in [1..n -> S]
          BY <3>6, <4>1
        <5>2. n \in Nat
          OBVIOUS
        <5>3. QED BY <5>1, <5>2
      <4>3. QED BY <4>1, <4>2
    <3>8. QED BY <3>2, <3>7
  <2>3. stack \in Seq(Frame)
    BY FrameScopes DEF Level
  <2>4. QED BY <2>1, <2>2, <2>3 DEF TypeOK, Shape, SlotTypes
<1>2. QED BY <1>1, LedgerHolds, PTL

-----------------------------------------------------------------------------
(* Scopes implement a stack of scopes: the list.                           *)

\* Opened is the open scopes in the order of their levels, up to the current one.
OpenedIs ==
  \A d \in [Scopes \cup {NULL} -> Nat] : Shape /\ Ranked(d) =>
    /\ Opened \in Seq(open)
    /\ Len(Opened) = IF current = NULL THEN 0 ELSE d[current]
    /\ \A k \in 1..Len(Opened) : d[Opened[k]] = k

LEMMA OpenedHolds == OpenedIs
<1> SUFFICES ASSUME NEW d \in [Scopes \cup {NULL} -> Nat], Shape, Ranked(d)
             PROVE  /\ Opened \in Seq(open)
                    /\ Len(Opened) = IF current = NULL THEN 0 ELSE d[current]
                    /\ \A k \in 1..Len(Opened) : d[Opened[k]] = k
  BY DEF OpenedIs
<1> PICK D \in Nat : \E at \in [1..D -> open] :
           /\ \A k \in 1..D : d[at[k]] = k
           /\ \A s \in open : d[s] \in 1..D /\ at[d[s]] = s
           /\ \A n \in Nat : Nth[n] = IF n < D THEN at[D - n] ELSE NULL
  BY NthFacts
<1> PICK at \in [1..D -> open] :
           /\ \A k \in 1..D : d[at[k]] = k
           /\ \A s \in open : d[s] \in 1..D /\ at[d[s]] = s
           /\ \A n \in Nat : Nth[n] = IF n < D THEN at[D - n] ELSE NULL
  OBVIOUS
<1> DEFINE C == Cardinality(Scopes)
           N == Nth
<1>1. \A n \in Nat : N[n] = IF n < D THEN at[D - n] ELSE NULL
  OBVIOUS
<1>2. \A s \in open : s \in Scopes /\ s # NULL
  BY ScopesAssumption DEF Shape
<1>3. C \in Nat /\ N[C] = NULL
  <2>2. C \in Nat
    BY FiniteScopes, FS_CardinalityType
  <2>3. at \in [1..D -> Scopes] /\ \A j, k \in 1..D : at[j] = at[k] => j = k
    BY <1>2
  <2>4. at \in Injection(1..D, Scopes)
    BY <2>3 DEF Injection, IsInjective
  <2>5. Cardinality(1..D) <= C
    BY <2>4, FiniteScopes, FS_Injection
  <2>6. Cardinality(1..D) = D
    <3>1. Cardinality(1..D) = IF 1 > D THEN 0 ELSE D - 1 + 1
      BY FS_Interval
    <3>2. QED BY <3>1
  <2> HIDE DEF C, N
  <2>7. ~(C < D)
    BY <2>2, <2>5, <2>6
  <2>8. QED BY <1>1, <2>2, <2>7
<1>4. Depth = D
  <2> DEFINE M == {n \in 0..C : N[n] # NULL}
  <2>1. M = 0..(D - 1)
    <3> HIDE DEF N, C
    <3>1. ASSUME NEW n \in Nat PROVE N[n] # NULL <=> n < D
      <4>1. n < D => D - n \in 1..D
        OBVIOUS
      <4>2. QED BY <1>1, <1>2, <4>1
    <3>2. ~(C < D)
      BY <1>3, <3>1
    <3>3. QED BY <1>3, <3>1, <3>2
  <2>2. Cardinality(0..(D - 1)) = IF 0 > D - 1 THEN 0 ELSE (D - 1) - 0 + 1
    BY FS_Interval
  <2>3. Cardinality(0..(D - 1)) = D
    BY <2>2
  <2> HIDE DEF M
  <2>4. Cardinality(M) = D
    BY <2>1, <2>3
  <2>5. QED BY <2>4 DEF M, Depth
<1>5. Opened = at
  <2>1. Opened = [n \in 1..D |-> N[D - n]]
    BY <1>4 DEF Opened
  <2> HIDE DEF N
  <2>2. \A n \in 1..D : N[D - n] = at[n]
    <3>1. \A n \in 1..D : D - n \in Nat /\ D - n < D /\ D - (D - n) = n
      OBVIOUS
    <3>2. QED BY <1>1, <3>1
  <2>3. [n \in 1..D |-> N[D - n]] = [n \in 1..D |-> at[n]]
    BY <2>2
  <2>4. QED BY <2>1, <2>3
<1>6. at \in Seq(open) /\ Len(at) = D
  OBVIOUS
<1>7. D = IF current = NULL THEN 0 ELSE d[current]
  <2>1. CASE current = NULL
    <3>1. D # 0 => at[1] \in open
      OBVIOUS
    <3>2. QED BY <2>1, <3>1 DEF Ranked
  <2>2. CASE current # NULL
    <3>1. current \in open /\ \A s \in open : d[s] <= d[current]
      BY <2>2 DEF Ranked
    <3>2. d[current] \in 1..D /\ (D # 0 => at[D] \in open /\ d[at[D]] = D)
      BY <3>1
    <3>3. D <= d[current]
      BY <3>1, <3>2
    <3>4. QED BY <2>2, <3>2, <3>3
  <2>3. QED BY <2>1, <2>2
<1>8. QED BY <1>5, <1>6, <1>7

LEMMA OpenedHoldsNext == OpenedIs'
BY OpenedHolds, PTL

\* Levels tell the list.
LEMMA OpenedSame ==
  ASSUME NEW d \in [Scopes \cup {NULL} -> Nat], Shape, Shape', Ranked(d), Steady
  PROVE  Opened' = Opened
<1>1. Ranked(d)' /\ open' = open /\ current' = current
  BY DEF Ranked, Steady
<1> PICK q, r, o : q = Opened /\ r = Opened' /\ o = open
  OBVIOUS
<1>2. q \in Seq(o) /\ Len(q) = (IF current = NULL THEN 0 ELSE d[current])
      /\ \A k \in 1..Len(q) : d[q[k]] = k
  BY OpenedHolds DEF OpenedIs
<1>3. r \in Seq(o) /\ Len(r) = (IF current = NULL THEN 0 ELSE d[current])
      /\ \A k \in 1..Len(r) : d[r[k]] = k
  BY <1>1, OpenedHoldsNext DEF OpenedIs
<1>4. Len(q) = Len(r) /\ \A k \in 1..Len(q) : q[k] \in o /\ r[k] \in o /\ d[q[k]] = d[r[k]]
  BY <1>2, <1>3
<1>5. \A k \in 1..Len(q) : q[k] = r[k]
  BY <1>4 DEF Ranked
<1>6. q = r
  BY <1>2, <1>3, <1>4, <1>5, SeqEqual
<1>7. QED BY <1>6

LEMMA OpenedAppends ==
  ASSUME NEW d \in [Scopes \cup {NULL} -> Nat], Shape, Level(d), NEW s \in Scopes, OpenScope(s)
  PROVE  /\ \A i \in 1..Len(Opened) : Opened[i] # s
         /\ Opened' = Append(Opened, s)
<1> PICK e \in [Scopes \cup {NULL} -> Nat] :
         /\ Level(e)' /\ \A t \in open : e[t] = d[t]
         /\ e[s] = IF current = NULL THEN 1 ELSE d[current] + 1
  BY StepOpenScope
<1>1. /\ s \notin open /\ open' = open \cup {s} /\ current' = s /\ Shape' /\ s # NULL
      /\ Ranked(d) /\ Ranked(e)'
  BY StepOpenScope, ScopesAssumption DEF OpenScope, Level
<1> PICK q, r, o, p : q = Opened /\ r = Opened' /\ o = open /\ p = open'
  OBVIOUS
<1> PICK n : n = IF current = NULL THEN 0 ELSE d[current]
  OBVIOUS
<1>2. q \in Seq(o) /\ Len(q) = n /\ \A k \in 1..Len(q) : d[q[k]] = k
  BY <1>1, OpenedHolds DEF OpenedIs
<1>3. r \in Seq(p) /\ Len(r) = e[s] /\ \A k \in 1..Len(r) : e[r[k]] = k
  BY <1>1, OpenedHoldsNext DEF OpenedIs
<1>4. n \in Nat /\ e[s] = n + 1
  BY DEF Shape
<1>5. s \in p /\ q \in Seq(p) /\ p = o \cup {s}
  BY <1>1, <1>2
<1> PICK a : a = Append(q, s)
  OBVIOUS
<1>6. a \in Seq(p) /\ Len(a) = n + 1 /\ a[n + 1] = s /\ \A k \in 1..n : a[k] = q[k]
  BY <1>2, <1>5, PushFacts
<1>7. \A k \in 1..n : q[k] \in o /\ q[k] \in p /\ e[q[k]] = k
  BY <1>2, <1>5
<1>8. \A t, u \in p : e[t] = e[u] => t = u
  BY <1>1 DEF Ranked
<1>9. ASSUME NEW k \in 1..(n + 1) PROVE a[k] = r[k]
  <2>1. r[k] \in p /\ e[r[k]] = k
    BY <1>3, <1>4
  <2>2. a[k] \in p /\ e[a[k]] = k
    <3>1. CASE k = n + 1
      BY <1>4, <1>5, <1>6, <3>1
    <3>2. CASE k \in 1..n
      BY <1>6, <1>7, <3>2
    <3>3. k = n + 1 \/ k \in 1..n
      <4>1. n \in Nat
        BY <1>4
      <4>2. QED BY <4>1
    <3>4. QED BY <3>1, <3>2, <3>3
  <2> PICK t, u : t = a[k] /\ u = r[k]
    OBVIOUS
  <2>3. t \in p /\ u \in p /\ e[t] = e[u]
    BY <2>1, <2>2
  <2>4. t = u
    BY <1>8, <2>3
  <2>5. QED BY <2>4
<1>10. a = r
  <2>1. a \in Seq(p) /\ r \in Seq(p) /\ Len(a) = Len(r)
    BY <1>3, <1>4, <1>6
  <2>2. \A k \in 1..Len(a) : a[k] = r[k]
    BY <1>6, <1>9
  <2>3. QED BY <2>1, <2>2, SeqEqual
<1>11. \A i \in 1..Len(q) : q[i] # s
  BY <1>1, <1>2, <1>7
<1>12. QED BY <1>10, <1>11

LEMMA OpenedPops ==
  ASSUME NEW d \in [Scopes \cup {NULL} -> Nat], Shape, Level(d), DestroyScope
  PROVE  Opened' = SubSeq(Opened, 1, Len(Opened) - 1)
<1> PICK s : s = Top.scope
  OBVIOUS
<1>1. /\ stack # << >> /\ Top.pc = "destroy" /\ open' = open \ {s} /\ current' = prev[s]
  BY DEF DestroyScope, At
<1>2. s \in open /\ s = current /\ s \in Scopes /\ s # NULL
  BY <1>1, TopFacts, ScopesAssumption DEF Client, Closing
<1>3. Shape' /\ Ranked(d)' /\ Ranked(d)
  BY StepDestroyScope DEF Level
<1> PICK q, r, o, p : q = Opened /\ r = Opened' /\ o = open /\ p = open'
  OBVIOUS
<1>4. q \in Seq(o) /\ Len(q) = d[s] /\ \A k \in 1..Len(q) : d[q[k]] = k
  BY <1>2, <1>3, OpenedHolds DEF OpenedIs
<1>5. r \in Seq(p) /\ Len(r) = (IF prev[s] = NULL THEN 0 ELSE d[prev[s]])
      /\ \A k \in 1..Len(r) : d[r[k]] = k
  BY <1>1, <1>3, OpenedHoldsNext DEF OpenedIs
<1>6. IF prev[s] = NULL THEN d[s] = 1 ELSE prev[s] \in Scopes /\ d[s] = d[prev[s]] + 1
  BY <1>2, <1>3 DEF Ranked, Shape
<1>7. d[s] \in Nat \ {0} /\ Len(r) = d[s] - 1
  BY <1>5, <1>6
<1> PICK n \in Nat : d[s] = n + 1
  <2>1. d[s] - 1 \in Nat /\ d[s] = (d[s] - 1) + 1
    BY <1>7
  <2>2. QED BY <2>1
<1> PICK a : a = SubSeq(q, 1, Len(q) - 1)
  OBVIOUS
<1>8. a \in Seq(o) /\ Len(a) = n /\ \A k \in 1..n : a[k] = q[k]
  <2>1. q # << >>
    BY <1>4, EmptySeq
  <2>2. /\ SubSeq(q, 1, Len(q) - 1) \in Seq(o)
        /\ Len(SubSeq(q, 1, Len(q) - 1)) = Len(q) - 1
        /\ \A i \in 1..(Len(q) - 1) : SubSeq(q, 1, Len(q) - 1)[i] = q[i]
    BY <1>4, <2>1, PopFacts
  <2>3. QED BY <1>4, <2>2
<1>9. ASSUME NEW k \in 1..n PROVE a[k] = r[k]
  <2>1. a[k] \in o /\ d[a[k]] = k
    BY <1>4, <1>8
  <2>2. r[k] \in o /\ d[r[k]] = k
    <3>1. r \in Seq(p) /\ Len(r) = n
      BY <1>5, <1>7
    <3>2. k \in 1..Len(r)
      BY <3>1
    <3>3. r[k] \in p /\ d[r[k]] = k
      BY <1>5, <3>1, <3>2
    <3>4. p \subseteq o
      BY <1>1
    <3>5. QED BY <3>3, <3>4
  <2>3. \A t, u \in o : d[t] = d[u] => t = u
    BY <1>3 DEF Ranked
  <2>4. d[a[k]] = d[r[k]]
    BY <2>1, <2>2
  <2>5. QED BY <2>1, <2>2, <2>3, <2>4
<1>10. r \in Seq(o) /\ Len(r) = n
  BY <1>1, <1>5, <1>7
<1>11. a = r
  BY <1>8, <1>9, <1>10, SeqEqual
<1>12. QED BY <1>11

\* The top of the stack is the current scope.
LEMMA OpenedTop ==
  ASSUME NEW d \in [Scopes \cup {NULL} -> Nat], Shape, Ranked(d), current # NULL
  PROVE  Opened # << >> /\ Opened[Len(Opened)] = current
<1> PICK q, o : q = Opened /\ o = open
  OBVIOUS
<1>1. current \in o /\ d[current] \in Nat
  BY DEF Ranked, Shape
<1>2. q \in Seq(o) /\ Len(q) = d[current] /\ \A k \in 1..Len(q) : d[q[k]] = k
  BY OpenedHolds DEF OpenedIs
<1>3. d[current] # 0
  <2>1. IF prev[current] = NULL THEN d[current] = 1
        ELSE prev[current] \in open /\ d[current] = d[prev[current]] + 1
    BY <1>1 DEF Ranked
  <2>2. \A t \in open : d[t] \in Nat
    BY DEF Shape
  <2>3. QED BY <2>1, <2>2
<1>4. Len(q) \in 1..Len(q) /\ q # << >>
  BY <1>1, <1>2, <1>3, EmptySeq
<1>5. q[Len(q)] \in o /\ d[q[Len(q)]] = d[current]
  BY <1>2, <1>4
<1>6. q[Len(q)] = current
  BY <1>1, <1>5 DEF Ranked
<1>7. QED BY <1>4, <1>6

-----------------------------------------------------------------------------
(* Scopes implement a stack of scopes: the references.                     *)

HoldingIs ==
  Shape => \A s \in Scopes, v \in Objects :
    /\ Holding(s, v) = {k \in Nat : <<s, k>> \in HeldIn(Scopes, Own, stack, v)}
    /\ IsFiniteSet(Holding(s, v))

LEMMA HoldingHolds == HoldingIs
<1> SUFFICES ASSUME Shape, NEW s \in Scopes, NEW v \in Objects
             PROVE  /\ Holding(s, v) = {k \in Nat : <<s, k>> \in HeldIn(Scopes, Own, stack, v)}
                    /\ IsFiniteSet(Holding(s, v))
  BY DEF HoldingIs
<1> DEFINE H == Holding(s, v)
           B == HeldIn(Scopes, Own, stack, v)
<1>1. Own[s] = SlotsOf(s) /\ Len(Own[s]) \in Nat
  BY OwnFacts DEF Shape
<1>2. ASSUME NEW k PROVE k \in H <=> k \in Nat /\ <<s, k>> \in B
  <2>1. k \in 1..Len(Own[s]) => k \in Nat
    BY <1>1
  <2>2. (\A i \in 1..Len(stack) :
           stack[i].pc = "destroy" /\ stack[i].scope = s => k >= stack[i].slot)
        <=> \A e \in Ends(stack, s) : k >= e
    BY DEF Ends
  <2>3. k \in H <=> /\ k \in 1..Len(Own[s]) /\ Own[s][k] = v
                    /\ \A e \in Ends(stack, s) : k >= e
    BY <1>1, <2>2 DEF Holding, Owning
  <2>4. k \in Nat /\ <<s, k>> \in B <=> /\ k \in 1..Len(Own[s]) /\ Own[s][k] = v
                                        /\ \A e \in Ends(stack, s) : k >= e
    BY <2>1 DEF HeldIn
  <2>5. QED BY <2>3, <2>4
<1>3. H \in SUBSET (1..Len(Own[s]))
  BY <1>1 DEF Holding, Owning
<1>4. IsFiniteSet(1..Len(Own[s]))
  BY <1>1, FS_Interval
<1> HIDE DEF H, B
<1>5. IsFiniteSet(H)
  BY <1>3, <1>4, FS_Subset
<1>6. H = {k \in Nat : <<s, k>> \in B}
  BY <1>2
<1>7. QED BY <1>5, <1>6 DEF H, B

LEMMA HoldingHoldsNext == HoldingIs'
BY HoldingHolds, PTL

LEMMA HoldsSame ==
  ASSUME Shape, Shape',
         \A v \in Objects : HeldIn(Scopes, Own', stack', v) = HeldIn(Scopes, Own, stack, v)
  PROVE  Holds' = Holds
<1>1. ASSUME NEW s \in Scopes, NEW v \in Objects PROVE Holding(s, v)' = Holding(s, v)
  <2> PICK H : H = HeldIn(Scopes, Own, stack, v)
    OBVIOUS
  <2>1. Holding(s, v) = {k \in Nat : <<s, k>> \in H}
    BY HoldingHolds DEF HoldingIs
  <2>2. Holding(s, v)' = {k \in Nat : <<s, k>> \in H}
    BY HoldingHoldsNext DEF HoldingIs
  <2>3. QED BY <2>1, <2>2
<1>2. QED BY <1>1 DEF Holds

LEMMA HoldsGains ==
  ASSUME Shape, Shape', NEW s \in Scopes, NEW k \in Nat, NEW v \in Objects,
         \A w \in Objects :
           /\ HeldIn(Scopes, Own', stack', w) =
                HeldIn(Scopes, Own, stack, w) \cup (IF w = v THEN {<<s, k>>} ELSE {})
           /\ <<s, k>> \notin HeldIn(Scopes, Own, stack, w)
  PROVE  Holds' = [Holds EXCEPT ![s][v] = @ + 1]
<1>1. ASSUME NEW t \in Scopes, NEW w \in Objects
      PROVE  Cardinality(Holding(t, w)') =
               IF t = s /\ w = v THEN Cardinality(Holding(t, w)) + 1 ELSE Cardinality(Holding(t, w))
  <2> PICK A, B : A = Holding(t, w) /\ B = Holding(t, w)'
    OBVIOUS
  <2> PICK H, G : H = HeldIn(Scopes, Own, stack, w) /\ G = HeldIn(Scopes, Own', stack', w)
    OBVIOUS
  <2>1. A = {i \in Nat : <<t, i>> \in H} /\ IsFiniteSet(A)
    BY HoldingHolds DEF HoldingIs
  <2>2. B = {i \in Nat : <<t, i>> \in G}
    BY HoldingHoldsNext DEF HoldingIs
  <2>3. G = H \cup (IF w = v THEN {<<s, k>>} ELSE {}) /\ <<s, k>> \notin H
    OBVIOUS
  <2>4. CASE t = s /\ w = v
    <3>1. B = A \cup {k} /\ k \notin A
      BY <2>1, <2>2, <2>3, <2>4
    <3>2. Cardinality(A \cup {k}) = Cardinality(A) + 1
      BY <2>1, <3>1, FS_AddElement
    <3>3. QED BY <2>4, <3>1, <3>2
  <2>5. CASE ~(t = s /\ w = v)
    <3>1. \A i \in Nat : <<t, i>> \in G <=> <<t, i>> \in H
      BY <2>3, <2>5
    <3>2. B = A
      BY <2>1, <2>2, <3>1
    <3>3. QED BY <2>5, <3>2
  <2>6. QED BY <2>4, <2>5
<1>2. QED BY <1>1 DEF Holds

LEMMA HoldsLoses ==
  ASSUME Shape, Shape', NEW s \in Scopes, NEW k \in Nat, NEW v \in Objects,
         \A w \in Objects :
           /\ HeldIn(Scopes, Own', stack', w) = HeldIn(Scopes, Own, stack, w) \ {<<s, k>>}
           /\ <<s, k>> \in HeldIn(Scopes, Own, stack, w) <=> w = v
  PROVE  Holds' = [Holds EXCEPT ![s][v] = @ - 1] /\ Holds[s][v] > 0
<1>1. ASSUME NEW t \in Scopes, NEW w \in Objects
      PROVE  /\ Cardinality(Holding(t, w)') =
                  IF t = s /\ w = v THEN Cardinality(Holding(t, w)) - 1 ELSE Cardinality(Holding(t, w))
             /\ t = s /\ w = v => Cardinality(Holding(t, w)) > 0
  <2> PICK A, B : A = Holding(t, w) /\ B = Holding(t, w)'
    OBVIOUS
  <2> PICK H, G : H = HeldIn(Scopes, Own, stack, w) /\ G = HeldIn(Scopes, Own', stack', w)
    OBVIOUS
  <2>1. A = {i \in Nat : <<t, i>> \in H} /\ IsFiniteSet(A)
    BY HoldingHolds DEF HoldingIs
  <2>2. B = {i \in Nat : <<t, i>> \in G}
    BY HoldingHoldsNext DEF HoldingIs
  <2>3. G = H \ {<<s, k>>} /\ (<<s, k>> \in H <=> w = v)
    OBVIOUS
  <2>4. CASE t = s /\ w = v
    <3>1. B = A \ {k} /\ k \in A
      BY <2>1, <2>2, <2>3, <2>4
    <3>2. Cardinality(A \ {k}) = Cardinality(A) - 1 /\ Cardinality(A \ {k}) \in Nat
          /\ Cardinality(A) \in Nat
      <4>1. /\ IsFiniteSet(A \ {k})
            /\ Cardinality(A \ {k}) = IF k \in A THEN Cardinality(A) - 1 ELSE Cardinality(A)
        BY <2>1, FS_RemoveElement
      <4>2. QED BY <2>1, <3>1, <4>1, FS_CardinalityType
    <3>3. Cardinality(A) > 0
      BY <3>2
    <3>4. Cardinality(B) = Cardinality(A) - 1
      BY <3>1, <3>2
    <3>5. QED BY <2>4, <3>3, <3>4
  <2>5. CASE ~(t = s /\ w = v)
    <3>1. \A i \in Nat : <<t, i>> \in G <=> <<t, i>> \in H
      BY <2>3, <2>5
    <3>2. B = A
      BY <2>1, <2>2, <3>1
    <3>3. QED BY <2>5, <3>2
  <2>6. QED BY <2>4, <2>5
<1>2. Holds[s][v] > 0
  BY <1>1 DEF Holds
<1>3. QED BY <1>1, <1>2 DEF Holds

-----------------------------------------------------------------------------
(* Scopes implement a stack of scopes: the steps.                          *)

Maps == Stack!StackNext \/ UNCHANGED <<Opened, Holds>>

\* A scope that is not open has no slots.
Vacant == \A s \in Scopes \ open : values[s] = << >> /\ dynamic[s] = << >>

LEMMA MapsStill ==
  ASSUME NEW d \in [Scopes \cup {NULL} -> Nat], Level(d), Shape, Shape', Steady, UNCHANGED slots,
         \A s : Ends(stack, s) \subseteq Ends(stack', s) /\ Ends(stack', s) \subseteq Ends(stack, s) \cup {1}
  PROVE  Maps
<1>1. Opened' = Opened
  BY OpenedSame DEF Level
<1>2. Own' = Own
  BY SameOwn
<1>3. \A v \in Objects : HeldIn(Scopes, Own, stack', v) = HeldIn(Scopes, Own, stack, v)
  BY HeldAlike
<1>4. \A v \in Objects : HeldIn(Scopes, Own', stack', v) = HeldIn(Scopes, Own, stack, v)
  BY <1>2, <1>3
<1>5. Holds' = Holds
  BY <1>4, HoldsSame
<1>6. QED BY <1>1, <1>5 DEF Maps

LEMMA MapsGiven ==
  ASSUME NEW d \in [Scopes \cup {NULL} -> Nat], Level(d), Shape, Shape', Steady, current # NULL,
         NEW v, Give(v), NEW k, Gets(Scopes, Own, stack, Own', stack', v, current, k)
  PROVE  Maps
<1>1. Opened' = Opened
  BY OpenedSame DEF Level
<1> PICK s : s = current
  OBVIOUS
<1>2. s \in Scopes /\ k \in Nat /\ Opened # << >> /\ Opened[Len(Opened)] = s
  BY OpenedTop DEF Shape, Level, Gets
<1>3. ASSUME NEW w \in Objects
      PROVE  /\ HeldIn(Scopes, Own', stack', w) =
                  HeldIn(Scopes, Own, stack, w) \cup (IF w = v THEN {<<s, k>>} ELSE {})
             /\ <<s, k>> \notin HeldIn(Scopes, Own, stack, w)
  BY HeldGets
<1>4. CASE v = Immediate
  <2>1. \A w \in Objects : HeldIn(Scopes, Own', stack', w) = HeldIn(Scopes, Own, stack, w)
    <3>1. \A w \in Objects : w # v
      BY <1>4, ScopesAssumption
    <3>2. QED BY <1>3, <3>1
  <2>2. Holds' = Holds
    BY <2>1, HoldsSame
  <2>3. QED BY <1>1, <2>2 DEF Maps
<1>5. CASE v \in Objects
  <2>1. Holds' = [Holds EXCEPT ![s][v] = @ + 1]
    BY <1>2, <1>3, <1>5, HoldsGains
  <2>2. Stack!AbsTake(v)
    BY <1>1, <1>2, <2>1 DEF Stack!AbsTake
  <2>3. QED BY <1>5, <2>2 DEF Maps, Stack!StackNext
<1>6. QED BY <1>4, <1>5 DEF Give

LEMMA MapsDestroySlot ==
  ASSUME NEW d \in [Scopes \cup {NULL} -> Nat], Level(d), Shape, Shape', Slotted(stack, Own), DestroySlot
  PROVE  Maps
<1> PICK s, k : s = Top.scope /\ k = Top.slot
  OBVIOUS
<1> PICK v : v = SlotsOf(s)[k]
  OBVIOUS
<1>1. /\ stack # << >> /\ Top.pc = "destroy" /\ k \in 1..Len(SlotsOf(s)) /\ Steady
  BY DEF DestroySlot, At, Steady
<1>2. s \in open /\ s \in Scopes /\ s = current /\ s # NULL
  BY <1>1, TopFacts, ScopesAssumption DEF Shape, Client
<1>3. Own[s] = SlotsOf(s) /\ Own' = Own /\ Passes(Scopes, Own, stack, stack', s, k)
  BY <1>2, OwnFacts, DestroySlotPasses DEF Shape
<1>4. Opened' = Opened /\ Opened # << >> /\ Opened[Len(Opened)] = s
  BY <1>1, <1>2, OpenedSame, OpenedTop DEF Level
<1>5. ASSUME NEW w \in Objects
      PROVE  /\ HeldIn(Scopes, Own', stack', w) = HeldIn(Scopes, Own, stack, w) \ {<<s, k>>}
             /\ <<s, k>> \in HeldIn(Scopes, Own, stack, w) <=> w = v
  <2> DEFINE o == Own
             S == stack
             T == stack'
  <2>1. Passes(Scopes, o, S, T, s, k) /\ o[s][k] = v /\ Own' = o
    BY <1>3
  <2> HIDE DEF o, S, T
  <2>2. /\ HeldIn(Scopes, o, T, w) = HeldIn(Scopes, o, S, w) \ {<<s, k>>}
        /\ (<<s, k>> \in HeldIn(Scopes, o, S, w) <=> o[s][k] = w)
    BY <2>1, HeldPassed
  <2>3. QED BY <2>1, <2>2 DEF o, S, T
<1>6. v \in Value /\ k \in Nat
  <2>1. SlotsOf(s) \in Seq(Value)
    BY <1>2, SlotsFacts DEF Shape
  <2>2. QED BY <1>1, <2>1
<1>7. CASE v \notin Objects
  <2>1. ASSUME NEW w \in Objects
        PROVE  HeldIn(Scopes, Own', stack', w) = HeldIn(Scopes, Own, stack, w)
    <3> PICK A : A = HeldIn(Scopes, Own, stack, w)
      OBVIOUS
    <3>1. HeldIn(Scopes, Own', stack', w) = A \ {<<s, k>>} /\ <<s, k>> \notin A
      BY <1>5, <1>7
    <3>2. A \ {<<s, k>>} = A
      BY <3>1
    <3>3. QED BY <3>1, <3>2
  <2>2. Holds' = Holds
    BY <2>1, HoldsSame
  <2>3. QED BY <1>4, <2>2 DEF Maps
<1>8. CASE v \in Objects
  <2>1. Holds' = [Holds EXCEPT ![s][v] = @ - 1] /\ Holds[s][v] > 0
    BY <1>2, <1>5, <1>6, <1>8, HoldsLoses
  <2>2. Stack!AbsDrop(v)
    BY <1>4, <2>1 DEF Stack!AbsDrop
  <2>3. QED BY <1>8, <2>2 DEF Maps, Stack!StackNext
<1>9. QED BY <1>7, <1>8

LEMMA MapsOpenScope ==
  ASSUME NEW d \in [Scopes \cup {NULL} -> Nat], Level(d), Shape, Shape', Vacant, NEW s \in Scopes, OpenScope(s)
  PROVE  Maps
<1>1. /\ s \notin open /\ stack' = stack
      /\ values' = [values EXCEPT ![s] = << >>] /\ dynamic' = [dynamic EXCEPT ![s] = << >>]
  BY DEF OpenScope
<1>2. values' = values /\ dynamic' = dynamic
  <2>1. values[s] = << >> /\ dynamic[s] = << >>
    BY <1>1 DEF Vacant
  <2>2. QED BY <1>1, <2>1 DEF Shape, SlotTypes
<1>3. Own' = Own
  BY <1>2, SameOwn DEF slots
<1>4. \A v \in Objects : HeldIn(Scopes, Own', stack', v) = HeldIn(Scopes, Own, stack, v)
  BY <1>1, <1>3
<1>5. Holds' = Holds
  BY <1>4, HoldsSame
<1>6. Stack!AbsOpen(s)
  BY <1>5, OpenedAppends DEF Stack!AbsOpen
<1>7. QED BY <1>6 DEF Maps, Stack!StackNext

LEMMA MapsDestroyScope ==
  ASSUME NEW d \in [Scopes \cup {NULL} -> Nat], Level(d), Shape, Shape', DestroyScope
  PROVE  Maps
<1> PICK s, k : s = Top.scope /\ k = Top.slot
  OBVIOUS
<1> PICK O : O = Scopes \ {s}
  OBVIOUS
<1>1. /\ stack # << >> /\ Top.pc = "destroy" /\ k = Len(SlotsOf(s)) + 1 /\ stack' = Caller
      /\ values' = [values EXCEPT ![s] = << >>] /\ dynamic' = [dynamic EXCEPT ![s] = << >>]
  BY DEF DestroyScope, At
<1>2. /\ s = current /\ s # NULL /\ s \in Scopes /\ stack \in Seq(Frame) /\ Len(stack) \in Nat \ {0}
  BY <1>1, TopFacts, ScopesAssumption DEF Shape, Client
<1>3. \A t \in O : Own[t] = Own'[t]
  BY <1>1 DEF Own, SlotsOf, Shape, SlotTypes
<1>4. \A t \in O : Ends(stack', t) = Ends(stack, t)
  <2>1. \A t : stack[Len(stack)].scope # t => Ends(stack', t) = Ends(stack, t)
    BY <1>1, <1>2, PopEnds DEF Caller
  <2>2. QED BY <2>1 DEF Top
<1>5. k \in Ends(stack, s) /\ Len(Own[s]) \in Nat /\ k = Len(Own[s]) + 1
  <2>1. Len(stack) \in 1..Len(stack) /\ stack[Len(stack)].pc = "destroy"
        /\ stack[Len(stack)].scope = s /\ stack[Len(stack)].slot = k
    BY <1>1, <1>2 DEF Top
  <2>2. k \in Ends(stack, s)
    BY <2>1 DEF Ends
  <2>3. QED BY <1>1, <1>2, <2>2, OwnFacts DEF Shape
<1>6. Spare(O, Own', stack', s, Own, stack)
  BY <1>3, <1>4, <1>5 DEF Spare
<1>7. Own'[s] = << >>
  <2>1. values'[s] = << >> /\ dynamic'[s] = << >>
    BY <1>1, <1>2 DEF Shape, SlotTypes
  <2>2. << >> \o << >> = << >>
    BY ConcatEmptySeq
  <2>3. QED BY <1>2, <2>1, <2>2 DEF Own, SlotsOf
<1>8. Spare(O, Own', stack', s, Own', stack')
  BY <1>7 DEF Spare
<1>9. O \cup {s} = Scopes
  BY <1>2
<1>10. ASSUME NEW v \in Objects
       PROVE  /\ HeldIn(Scopes, Own, stack, v) = HeldIn(O, Own', stack', v)
              /\ HeldIn(Scopes, Own', stack', v) = HeldIn(O, Own', stack', v)
  BY <1>6, <1>8, <1>9, HeldSpare
<1>11. Holds' = Holds
  BY <1>10, HoldsSame
<1>12. \A v \in Objects : Holds[s][v] = 0
  <2> SUFFICES ASSUME NEW v \in Objects PROVE Holds[s][v] = 0
    OBVIOUS
  <2> PICK H : H = HeldIn(Scopes, Own, stack, v)
    OBVIOUS
  <2>1. Holding(s, v) = {i \in Nat : <<s, i>> \in H}
    BY <1>2, HoldingHolds DEF HoldingIs
  <2>2. \A i \in Nat : <<s, i>> \notin H
    BY <1>10 DEF HeldIn
  <2>3. Holding(s, v) = {}
    BY <2>1, <2>2
  <2>4. QED BY <1>2, <2>3, FS_EmptySet DEF Holds
<1>13. Stack!AbsClose
  <2>1. Opened # << >> /\ Opened[Len(Opened)] = s
    BY <1>2, OpenedTop DEF Level
  <2>2. Opened' = SubSeq(Opened, 1, Len(Opened) - 1)
    BY OpenedPops
  <2>3. QED BY <1>11, <1>12, <2>1, <2>2 DEF Stack!AbsClose
<1>14. QED BY <1>13 DEF Maps, Stack!StackNext

LEMMA MapsStep ==
  ASSUME NEW d \in [Scopes \cup {NULL} -> Nat], Level(d), Shape, Shape', Slotted(stack, Own), Vacant,
         [Next]_vars
  PROVE  Maps
<1> PICK c : c = current
  OBVIOUS
<1>1. CASE \E s \in Scopes : OpenScope(s)
  BY <1>1, MapsOpenScope
<1>2. CASE DestroyScope
  BY <1>2, MapsDestroyScope
<1>3. CASE DestroySlot
  BY <1>3, MapsDestroySlot
<1>4. CASE ReleaseCaught
  <2>1. Steady /\ UNCHANGED slots
    BY <1>4 DEF ReleaseCaught, Steady
  <2>2. QED BY <1>4, <2>1, ReleaseCaughtEnds, MapsStill
<1>5. CASE ~ReleaseCaught /\ ~DestroySlot /\ ~DestroyScope /\ Steady /\ UNCHANGED slots
  <2>1. Alike(stack, stack')
    BY <1>5, AlikeStep
  <2>2. QED BY <1>5, <2>1, MapsStill DEF Alike
<1>6. CASE \E v \in Value : Create(v)
  <2> PICK v \in Value : Create(v)
    BY <1>6
  <2>1. c # NULL /\ AllocValue(c, v) /\ Give(v) /\ Steady /\ UNCHANGED stack
    BY DEF Create, Steady
  <2>2. c \in Scopes /\ \A t \in Scopes : Ends(stack', t) = Ends(stack, t)
    BY <2>1 DEF Shape
  <2>3. Gets(Scopes, Own, stack, Own', stack', v, c, Len(SlotsOf(c)) + 1)
    BY <2>1, <2>2, AllocGets
  <2>4. QED BY <2>1, <2>3, MapsGiven
<1>7. CASE GetProperty
  <2> PICK k : k = Len(SlotsOf(c)) + 1
    OBVIOUS
  <2> DEFINE f == Activation("get", c, k)
  <2>1. /\ c # NULL /\ AllocValue(c, Immediate) /\ Steady /\ UNCHANGED count
        /\ stack' = Append(stack, f) /\ Immediate \in Value
    BY <1>7 DEF GetProperty, Push, Value, Steady
  <2>2. c \in Scopes
    BY <2>1 DEF Shape
  <2>3. f \in Frame /\ f.pc # "destroy" /\ stack \in Seq(Frame)
    <3>1. k \in Nat
      BY <2>2, SlotsFacts, LenProperties DEF Shape
    <3>2. QED BY <2>2, <3>1, FrameScopes DEF Activation, Frame, Script, Level
  <2> HIDE DEF f
  <2>4. \A t \in Scopes : Ends(stack', t) = Ends(stack, t)
    BY <2>1, <2>3, PushEnds
  <2>5. Give(Immediate)
    BY <2>1 DEF Give
  <2>6. Gets(Scopes, Own, stack, Own', stack', Immediate, c, Len(SlotsOf(c)) + 1)
    BY <2>1, <2>2, <2>4, AllocGets
  <2>7. QED BY <2>1, <2>5, <2>6, MapsGiven
<1>8. CASE \E v \in Value : ScriptReturns(v)
  <2> PICK v \in Value : ScriptReturns(v)
    BY <1>8
  <2>1. /\ stack # << >> /\ Top.pc \in Script /\ stack' = Caller /\ Steady
    BY DEF ScriptReturns, At, Steady
  <2>2. c = Top.scope /\ c \in open /\ c \in Scopes /\ c # NULL /\ stack \in Seq(Frame)
    BY <2>1, TopFacts, ScopesAssumption DEF Script, Client, Shape
  <2>3. stack[Len(stack)].pc # "destroy"
    BY <2>1 DEF Top, Script
  <2>4. \A t \in Scopes : Ends(stack', t) = Ends(stack, t)
    BY <2>1, <2>2, <2>3, PopEnds DEF Caller
  <2>5. CASE CallReturns(v)
    <3>1. AllocValue(c, v) /\ Give(v)
      BY <2>5 DEF CallReturns
    <3>2. Gets(Scopes, Own, stack, Own', stack', v, c, Len(SlotsOf(c)) + 1)
      BY <2>2, <2>4, <3>1, AllocGets
    <3>3. QED BY <2>1, <2>2, <3>1, <3>2, MapsGiven
  <2>6. CASE GetReturns(v)
    <3>1. Give(v)
      BY <2>6 DEF GetReturns
    <3>2. Gets(Scopes, Own, stack, Own', stack', v, Top.scope, Top.slot)
      BY <2>1, <2>4, <2>6, StoreGets DEF Shape
    <3>3. Gets(Scopes, Own, stack, Own', stack', v, c, Top.slot)
      BY <2>2, <3>2
    <3>4. QED BY <2>1, <2>2, <3>1, <3>3, MapsGiven
  <2>7. CASE JobReturns
    <3>1. UNCHANGED slots
      BY <2>7 DEF JobReturns
    <3>2. \A s : Ends(stack', s) = Ends(stack, s)
      BY <2>1, <2>2, <2>3, PopEnds DEF Caller
    <3>3. QED BY <2>1, <3>1, <3>2, MapsStill
  <2>8. QED BY <2>5, <2>6, <2>7 DEF ScriptReturns
<1>9. CASE \/ \E s \in Scopes : CloseScope(s)
           \/ CallFunction \/ Callback \/ EnqueueJob
           \/ \E v \in Counted : Collect(v)
           \/ ClientReturns \/ Finalize \/ Drain \/ DestroyCaught
           \/ \E e \in Errors : ScriptThrows(e)
  <2>1. Steady /\ UNCHANGED slots
    BY <1>9 DEF Steady, CloseScope, CallFunction, Callback, EnqueueJob, Enqueues, Collect, ClientReturns,
       Finalize, Drain, DestroyCaught, ScriptThrows
  <2>2. QED BY <1>2, <1>3, <1>4, <1>5, <2>1
<1>10. CASE UNCHANGED vars
  <2>1. Steady /\ UNCHANGED slots
    BY <1>10 DEF vars, slots, Steady
  <2>2. QED BY <1>2, <1>3, <1>4, <1>5, <2>1
<1>11. QED BY <1>1, <1>2, <1>3, <1>4, <1>6, <1>7, <1>8, <1>9, <1>10 DEF Next, Returns, Engine

LEMMA VacantKept ==
  ASSUME NEW d \in [Scopes \cup {NULL} -> Nat], Level(d), Shape, Vacant, [Next]_vars
  PROVE  Vacant'
<1>1. CASE UNCHANGED <<open, slots>>
  BY <1>1 DEF Vacant, slots
<1>2. ASSUME NEW s \in Scopes, NEW v, s \in open, AllocValue(s, v) \/ (\E k : Store(s, k, v)),
             open' = open
      PROVE  Vacant'
  <2>1. \A t \in Scopes \ {s} : values'[t] = values[t] /\ dynamic'[t] = dynamic[t]
    BY <1>2 DEF AllocValue, Store, Shape, SlotTypes
  <2>2. QED BY <1>2, <2>1 DEF Vacant
<1>3. CASE \E s \in Scopes : OpenScope(s)
  BY <1>3 DEF OpenScope, Vacant, Shape, SlotTypes
<1>4. CASE DestroyScope
  <2> PICK s : s = Top.scope
    OBVIOUS
  <2>1. /\ open' = open \ {s}
        /\ values' = [values EXCEPT ![s] = << >>] /\ dynamic' = [dynamic EXCEPT ![s] = << >>]
    BY <1>4 DEF DestroyScope
  <2>2. QED BY <2>1 DEF Vacant, Shape, SlotTypes
<1>5. CASE \E v \in Value : Create(v)
  BY <1>2, <1>5 DEF Create, Level, Ranked, Shape
<1>6. CASE GetProperty
  BY <1>2, <1>6 DEF GetProperty, Level, Ranked, Shape
<1>7. CASE \E v \in Value : ScriptReturns(v)
  <2> PICK v \in Value : ScriptReturns(v)
    BY <1>7
  <2>1. stack # << >> /\ Top.pc \in Script /\ open' = open
    BY DEF ScriptReturns, At
  <2>2. Top.scope \in open /\ current \in open /\ open \subseteq Scopes
    BY <2>1, TopFacts DEF Shape, Script, Client
  <2>3. CASE CallReturns(v)
    BY <1>2, <2>1, <2>2, <2>3 DEF CallReturns
  <2>4. CASE GetReturns(v)
    BY <1>2, <2>1, <2>2, <2>4 DEF GetReturns
  <2>5. CASE JobReturns
    BY <1>1, <2>1, <2>5 DEF JobReturns
  <2>6. QED BY <2>3, <2>4, <2>5 DEF ScriptReturns
<1>8. CASE \/ \E s \in Scopes : CloseScope(s)
           \/ CallFunction \/ Callback \/ EnqueueJob
           \/ \E v \in Counted : Collect(v)
           \/ ClientReturns \/ Finalize \/ Drain \/ DestroyCaught \/ DestroySlot \/ ReleaseCaught
           \/ \E e \in Errors : ScriptThrows(e)
  <2>1. UNCHANGED <<open, slots>>
    BY <1>8 DEF CloseScope, CallFunction, Callback, EnqueueJob, Enqueues, Collect, ClientReturns,
       Finalize, Drain, DestroyCaught, DestroySlot, ReleaseCaught, ScriptThrows
  <2>2. QED BY <1>1, <2>1
<1>9. CASE UNCHANGED vars
  <2>1. UNCHANGED <<open, slots>>
    BY <1>9 DEF vars, slots
  <2>2. QED BY <1>1, <2>1
<1>10. QED BY <1>3, <1>4, <1>5, <1>6, <1>7, <1>8, <1>9 DEF Next, Returns, Engine

LEMMA StackInitially ==
  ASSUME Init
  PROVE  Vacant /\ Stack!StackInit
<1>1. /\ current = NULL /\ stack = << >> /\ values = [s \in Scopes |-> << >>]
      /\ dynamic = [s \in Scopes |-> << >>]
  BY DEF Init
<1>2. Vacant
  BY <1>1 DEF Vacant
<1> PICK d \in [Scopes \cup {NULL} -> Nat] : Shape /\ Ranked(d)
  BY FramedInit DEF Framed, Structure, Level
<1>3. Opened = << >>
  <2>1. Opened \in Seq(open) /\ Len(Opened) = 0
    BY <1>1, OpenedHolds DEF OpenedIs
  <2>2. QED BY <2>1, EmptySeq
<1>4. ASSUME NEW s \in Scopes, NEW v \in Objects PROVE Cardinality(Holding(s, v)) = 0
  <2>1. SlotsOf(s) = << >>
    BY <1>1, ConcatEmptySeq DEF SlotsOf
  <2>2. Holding(s, v) = {}
    BY <2>1 DEF Holding, Owning
  <2>3. QED BY <2>2, FS_EmptySet
<1>5. Holds = [s \in Scopes |-> [v \in Objects |-> 0]]
  BY <1>4 DEF Holds
<1>6. QED BY <1>2, <1>3, <1>5 DEF Stack!StackInit

\* The list of scopes, their slots and their destructors behave as a stack of scopes:
\* references go to the innermost scope and leave from it, and it goes when it has none.
THEOREM StackImplemented == Spec => StackSpec
<1> DEFINE Inv == Framed /\ Vacant
<1>1. Init => Inv /\ Stack!StackInit
  BY FramedInit, StackInitially
<1>2. Inv /\ [Next]_vars => Inv' /\ [Stack!StackNext]_(Stack!stackVars)
  <2> SUFFICES ASSUME Inv, [Next]_vars PROVE Inv' /\ Maps
    BY DEF Maps, Stack!stackVars
  <2> PICK d \in [Scopes \cup {NULL} -> Nat] : Level(d) /\ Shape /\ Slotted(stack, Own)
    BY DEF Framed, Structure
  <2>1. Framed' /\ Shape'
    BY FramedKept DEF Framed, Structure
  <2>2. Vacant'
    BY VacantKept
  <2>3. Maps
    BY <2>1, MapsStep
  <2>4. QED BY <2>1, <2>2, <2>3
<1>3. QED BY <1>1, <1>2, PTL DEF Spec, StackSpec, Stack!StackSpec

===============================================================================
