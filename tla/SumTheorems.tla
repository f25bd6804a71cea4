----------------------------- MODULE SumTheorems -----------------------------
(***************************************************************************)
(* Sums over finite sets, SumFunctionOnSet of the community modules, for   *)
(* the invariants that conserve bytes, permits or counts.                  *)
(*                                                                         *)
(* A sum is a recursive function that a CHOOSE names, so its first lemma   *)
(* is that such a function exists.  Induction is over a set of naturals or *)
(* of subsets (SetInduction, FiniteInduction), and rests on the least      *)
(* element of a set of naturals.                                           *)
(***************************************************************************)
EXTENDS Integers, FiniteSets, Functions, FiniteSetTheorems, WellFoundedInduction, TLAPS

-----------------------------------------------------------------------------
(* Induction.                                                              *)

\* Every set of naturals has a least element.
LEMMA LeastNat ==
  ASSUME NEW S \in SUBSET Nat, S # {}
  PROVE  \E m \in S : \A x \in S : m <= x
<1> DEFINE Less == {ss \in Nat \X Nat : ss[1] < ss[2]}
<1>1. IsWellFoundedOn(Less, Nat)
  BY NatLessThanWellFounded DEF OpToRel
<1> HIDE DEF Less
<1>2. PICK m \in S : \A x \in S : <<x, m>> \notin Less
  BY <1>1, WFMin
<1>3. \A x \in S : m <= x
  <2> SUFFICES ASSUME NEW x \in S, ~(m <= x)
               PROVE  FALSE
    OBVIOUS
  <2>1. x \in Nat /\ m \in Nat
    OBVIOUS
  <2>2. x < m
    BY <2>1
  <2>3. <<x, m>> \in Less
    BY <2>1, <2>2 DEF Less
  <2> QED
    BY <1>2, <2>3
<1> QED
  BY <1>3

\* Induction over the naturals, for a set instead of an operator.
LEMMA SetInduction ==
  ASSUME NEW P, 0 \in P, \A n \in Nat : n \in P => n + 1 \in P
  PROVE  Nat \subseteq P
<1> SUFFICES ASSUME Nat \ P # {}
             PROVE  FALSE
  OBVIOUS
<1>1. PICK m \in Nat \ P : \A x \in Nat \ P : m <= x
  BY LeastNat
<1>2. m - 1 \in Nat /\ m - 1 \notin Nat \ P
  BY <1>1
<1> QED
  BY <1>1, <1>2

\* The element that a sum takes first.
Picked(s) == CHOOSE x \in s : TRUE

SmallParts(S, n) == {s \in SUBSET S : Cardinality(s) <= n}

\* Without the element that is picked, a set is smaller by one.
LEMMA WithoutPicked ==
  ASSUME NEW S, IsFiniteSet(S), NEW s \in SUBSET S, s # {}
  PROVE  /\ IsFiniteSet(s) /\ Picked(s) \in s /\ s \ {Picked(s)} \in SUBSET S
         /\ Cardinality(s) \in Nat
         /\ Cardinality(s \ {Picked(s)}) = Cardinality(s) - 1
<1>1. Picked(s) \in s
  BY DEF Picked
<1>2. IsFiniteSet(s)
  BY FS_Subset
<1> QED
  BY <1>1, <1>2, FS_CardinalityType, FS_RemoveElement

\* Induction over a finite set: P has a set that is not empty if it has all that
\* lack one element of it.
LEMMA FiniteInduction ==
  ASSUME NEW S, IsFiniteSet(S), NEW P, {} \in P,
         \A T \in SUBSET S : T # {} /\ (\A x \in T : T \ {x} \in P) => T \in P
  PROVE  S \in P
<1> DEFINE Q == {n \in Nat : SmallParts(S, n) \subseteq P}
<1>1. 0 \in Q
  <2>1. \A s \in SmallParts(S, 0) : s = {}
    BY FS_Subset, FS_EmptySet, FS_CardinalityType DEF SmallParts
  <2> QED
    BY <2>1
<1>2. ASSUME NEW n \in Nat, n \in Q
      PROVE  n + 1 \in Q
  <2> SUFFICES ASSUME NEW s \in SmallParts(S, n + 1)
               PROVE  s \in P
    OBVIOUS
  <2>1. CASE s # {}
    <3>1. ASSUME NEW x \in s
          PROVE  s \ {x} \in SmallParts(S, n)
      <4>1. IsFiniteSet(s) /\ Cardinality(s) \in Nat /\ Cardinality(s) <= n + 1
        BY FS_Subset, FS_CardinalityType DEF SmallParts
      <4>2. Cardinality(s \ {x}) = Cardinality(s) - 1
        BY <4>1, FS_RemoveElement
      <4> QED
        BY <4>1, <4>2 DEF SmallParts
    <3> QED
      BY <1>2, <2>1, <3>1 DEF SmallParts
  <2> QED
    BY <2>1
<1>3. Nat \subseteq Q
  <2> HIDE DEF Q
  <2> QED
    BY <1>1, <1>2, SetInduction
<1>4. Cardinality(S) \in Nat /\ S \in SmallParts(S, Cardinality(S))
  BY FS_CardinalityType DEF SmallParts
<1> QED
  BY <1>3, <1>4

-----------------------------------------------------------------------------
(* The function that adds up.                                              *)

\* g adds up f over every set of T.
AddsUp(g, f, T) ==
  g = [s \in T |-> IF s = {} THEN 0 ELSE f[Picked(s)] + g[s \ {Picked(s)}]]

SumTable(f, S) == CHOOSE g : AddsUp(g, f, SUBSET S)

\* The sum of the community modules, in these terms.
LEMMA SumUnfolds == \A f, S : SumFunctionOnSet(f, S) = SumTable(f, S)[S]
BY DEF SumFunctionOnSet, FoldFunctionOnSet, MapThenFoldSet, SumTable, AddsUp, Picked

\* Sums over small parts give the sums over parts that are one larger.
LEMMA TableGrows ==
  ASSUME NEW f, NEW S, IsFiniteSet(S), NEW n \in Nat, NEW g, AddsUp(g, f, SmallParts(S, n))
  PROVE  \E h : AddsUp(h, f, SmallParts(S, n + 1))
<1> DEFINE T == SmallParts(S, n)
           U == SmallParts(S, n + 1)
           h == [s \in U |-> IF s \in T THEN g[s] ELSE f[Picked(s)] + g[s \ {Picked(s)}]]
<1>1. ASSUME NEW s \in U
      PROVE  h[s] = IF s = {} THEN 0 ELSE f[Picked(s)] + h[s \ {Picked(s)}]
  <2>1. CASE s = {}
    <3>1. s \in T
      BY <2>1, FS_EmptySet DEF SmallParts
    <3> QED
      BY <2>1, <3>1 DEF AddsUp
  <2>2. CASE s # {}
    <3> DEFINE t == s \ {Picked(s)}
    <3>1. t \in T /\ t \in U
      <4>1. s \in SUBSET S /\ Cardinality(s) <= n + 1
        BY DEF SmallParts
      <4>2. /\ t \in SUBSET S
            /\ Cardinality(s) \in Nat
            /\ Cardinality(t) = Cardinality(s) - 1
        BY <2>2, <4>1, WithoutPicked
      <4> HIDE DEF t
      <4> QED
        BY <4>1, <4>2 DEF SmallParts
    <3>2. h[t] = g[t]
      BY <3>1
    <3>3. h[s] = f[Picked(s)] + g[t]
      BY <2>2 DEF AddsUp
    <3> QED
      BY <2>2, <3>2, <3>3
  <2> QED
    BY <2>1, <2>2
<1>2. h = [s \in U |-> IF s = {} THEN 0 ELSE f[Picked(s)] + h[s \ {Picked(s)}]]
  BY <1>1
<1> QED
  BY <1>2 DEF AddsUp

\* So there is a function that adds up f over every part of a finite set, and
\* SumTable is one.
LEMMA TableExists ==
  ASSUME NEW f, NEW S, IsFiniteSet(S)
  PROVE  AddsUp(SumTable(f, S), f, SUBSET S)
<1> DEFINE P == {n \in Nat : \E g : AddsUp(g, f, SmallParts(S, n))}
<1>1. 0 \in P
  <2> DEFINE g == [s \in SmallParts(S, 0) |-> 0]
  <2>1. \A s \in SmallParts(S, 0) : s = {}
    BY FS_Subset, FS_EmptySet, FS_CardinalityType DEF SmallParts
  <2>2. AddsUp(g, f, SmallParts(S, 0))
    BY <2>1 DEF AddsUp
  <2> QED
    BY <2>2
<1>2. \A n \in Nat : n \in P => n + 1 \in P
  BY TableGrows
<1>3. Nat \subseteq P
  <2> HIDE DEF P
  <2> QED
    BY <1>1, <1>2, SetInduction
<1>4. Cardinality(S) \in Nat
  BY FS_CardinalityType
<1>5. SmallParts(S, Cardinality(S)) = SUBSET S
  BY FS_Subset DEF SmallParts
<1>6. \E g : AddsUp(g, f, SUBSET S)
  BY <1>3, <1>4, <1>5
<1> QED
  BY <1>6 DEF SumTable

-----------------------------------------------------------------------------
(* The sum over a subset is what the sum over the whole set uses for it.    *)

\* Two tables agree where both are defined.
LEMMA TableOfPart ==
  ASSUME NEW f, NEW S, IsFiniteSet(S), NEW T \in SUBSET S
  PROVE  SumTable(f, S)[T] = SumFunctionOnSet(f, T)
<1> DEFINE g == SumTable(f, S)
           h == SumTable(f, T)
           P == {U \in SUBSET T : g[U] = h[U]}
<1>1. IsFiniteSet(T)
  BY FS_Subset
<1>2. AddsUp(g, f, SUBSET S) /\ AddsUp(h, f, SUBSET T)
  BY <1>1, TableExists
<1> HIDE DEF g, h
<1>3. {} \in P
  BY <1>2 DEF AddsUp
<1>4. ASSUME NEW U \in SUBSET T, U # {}, \A x \in U : U \ {x} \in P
      PROVE  U \in P
  <2>0. Picked(U) \in U
    BY <1>4 DEF Picked
  <2>1. g[U] = f[Picked(U)] + g[U \ {Picked(U)}]
    BY <1>2, <1>4 DEF AddsUp
  <2>2. h[U] = f[Picked(U)] + h[U \ {Picked(U)}]
    BY <1>2, <1>4 DEF AddsUp
  <2> QED
    BY <1>4, <2>0, <2>1, <2>2
<1>5. T \in P
  <2> HIDE DEF P
  <2> QED
    BY <1>1, <1>3, <1>4, FiniteInduction
<1> QED
  BY <1>5, SumUnfolds DEF g, h

\* The sum over the empty set.
LEMMA SumOfNone == \A f : SumFunctionOnSet(f, {}) = 0
<1> SUFFICES ASSUME NEW f PROVE SumFunctionOnSet(f, {}) = 0
  OBVIOUS
<1>1. AddsUp(SumTable(f, {}), f, SUBSET {})
  BY TableExists, FS_EmptySet
<1> QED
  BY <1>1, SumUnfolds DEF AddsUp

\* The sum over any other set, as the recursion computes it.
LEMMA SumOfPick ==
  ASSUME NEW f, NEW S, IsFiniteSet(S), S # {}
  PROVE  SumFunctionOnSet(f, S) = f[Picked(S)] + SumFunctionOnSet(f, S \ {Picked(S)})
<1> DEFINE g == SumTable(f, S)
<1>1. AddsUp(g, f, SUBSET S)
  BY TableExists
<1> HIDE DEF g
<1>2. g[S] = f[Picked(S)] + g[S \ {Picked(S)}]
  BY <1>1 DEF AddsUp
<1>3. g[S \ {Picked(S)}] = SumFunctionOnSet(f, S \ {Picked(S)}) /\ g[S] = SumFunctionOnSet(f, S)
  BY TableOfPart DEF g
<1> QED
  BY <1>2, <1>3

\* The sum of integers is an integer.
LEMMA SumInt ==
  ASSUME NEW f, NEW S, IsFiniteSet(S), \A x \in S : f[x] \in Int
  PROVE  SumFunctionOnSet(f, S) \in Int
<1> DEFINE P == {T \in SUBSET S : SumFunctionOnSet(f, T) \in Int}
<1>1. {} \in P
  BY SumOfNone
<1>2. ASSUME NEW T \in SUBSET S, T # {}, \A x \in T : T \ {x} \in P
      PROVE  T \in P
  <2>1. IsFiniteSet(T) /\ Picked(T) \in T
    BY <1>2, WithoutPicked
  <2>2. SumFunctionOnSet(f, T) = f[Picked(T)] + SumFunctionOnSet(f, T \ {Picked(T)})
    BY <1>2, <2>1, SumOfPick
  <2> QED
    BY <1>2, <2>1, <2>2
<1> HIDE DEF P
<1>3. S \in P
  BY <1>1, <1>2, FiniteInduction
<1> QED
  BY <1>3 DEF P

\* Any element can be taken out first.
LEMMA SumWithout ==
  ASSUME NEW f, NEW S, IsFiniteSet(S), \A x \in S : f[x] \in Int, NEW x \in S
  PROVE  SumFunctionOnSet(f, S) = f[x] + SumFunctionOnSet(f, S \ {x})
<1> DEFINE P == {T \in SUBSET S :
                  \A y \in T : SumFunctionOnSet(f, T) = f[y] + SumFunctionOnSet(f, T \ {y})}
<1>1. {} \in P
  OBVIOUS
<1>2. ASSUME NEW T \in SUBSET S, T # {}, \A y \in T : T \ {y} \in P, NEW y \in T
      PROVE  SumFunctionOnSet(f, T) = f[y] + SumFunctionOnSet(f, T \ {y})
  <2> DEFINE p == Picked(T)
  <2>1. p \in T /\ IsFiniteSet(T)
    BY <1>2, WithoutPicked
  <2>2. SumFunctionOnSet(f, T) = f[p] + SumFunctionOnSet(f, T \ {p})
    BY <1>2, <2>1, SumOfPick
  <2> HIDE DEF p
  <2>3. CASE y # p
    <3> DEFINE U == (T \ {p}) \ {y}
    <3>1. U = (T \ {y}) \ {p}
      OBVIOUS
    <3>2. SumFunctionOnSet(f, T \ {p}) = f[y] + SumFunctionOnSet(f, U)
      BY <1>2, <2>1, <2>3
    <3>3. SumFunctionOnSet(f, T \ {y}) = f[p] + SumFunctionOnSet(f, U)
      BY <1>2, <2>1, <2>3, <3>1
    <3>4. SumFunctionOnSet(f, U) \in Int /\ f[p] \in Int /\ f[y] \in Int
      BY <2>1, FS_Subset, SumInt
    <3> HIDE DEF U
    <3> QED
      BY <2>2, <3>2, <3>3, <3>4
  <2> QED
    BY <2>2, <2>3
<1> HIDE DEF P
<1>3. S \in P
  <2>1. \A T \in SUBSET S : T # {} /\ (\A y \in T : T \ {y} \in P) => T \in P
    BY <1>2 DEF P
  <2> QED
    BY <1>1, <2>1, FiniteInduction
<1> QED
  BY <1>3 DEF P

-----------------------------------------------------------------------------
(* What invariants about sums need.                                         *)

\* Two functions that agree on a set have one sum over it.
LEMMA SumSame ==
  ASSUME NEW f, NEW g, NEW S, IsFiniteSet(S), \A x \in S : f[x] \in Int /\ g[x] = f[x]
  PROVE  SumFunctionOnSet(g, S) = SumFunctionOnSet(f, S)
<1> DEFINE P == {T \in SUBSET S : SumFunctionOnSet(g, T) = SumFunctionOnSet(f, T)}
<1>1. {} \in P
  BY SumOfNone
<1>2. ASSUME NEW T \in SUBSET S, T # {}, \A x \in T : T \ {x} \in P
      PROVE  T \in P
  <2>1. IsFiniteSet(T) /\ Picked(T) \in T
    BY <1>2, WithoutPicked
  <2>2. /\ SumFunctionOnSet(f, T) = f[Picked(T)] + SumFunctionOnSet(f, T \ {Picked(T)})
        /\ SumFunctionOnSet(g, T) = g[Picked(T)] + SumFunctionOnSet(g, T \ {Picked(T)})
    BY <1>2, <2>1, SumOfPick
  <2> QED
    BY <1>2, <2>1, <2>2
<1> HIDE DEF P
<1>3. S \in P
  BY <1>1, <1>2, FiniteInduction
<1> QED
  BY <1>3 DEF P

\* A change of one summand changes the sum by as much.
LEMMA SumChange ==
  ASSUME NEW f, NEW g, NEW S, IsFiniteSet(S), NEW x \in S,
         \A y \in S : f[y] \in Int, g[x] \in Int, \A y \in S \ {x} : g[y] = f[y]
  PROVE  SumFunctionOnSet(g, S) = SumFunctionOnSet(f, S) + (g[x] - f[x])
<1>1. SumFunctionOnSet(f, S) = f[x] + SumFunctionOnSet(f, S \ {x})
  BY SumWithout
<1>2. SumFunctionOnSet(g, S) = g[x] + SumFunctionOnSet(g, S \ {x})
  BY SumWithout
<1>3. IsFiniteSet(S \ {x})
  BY FS_Subset
<1>4. SumFunctionOnSet(g, S \ {x}) = SumFunctionOnSet(f, S \ {x})
  BY <1>3, SumSame
<1>5. SumFunctionOnSet(f, S \ {x}) \in Int
  BY <1>3, SumInt
<1> QED
  BY <1>1, <1>2, <1>4, <1>5

\* A sum over a set is the sum over a part and the sum over the rest.
LEMMA SumSplit ==
  ASSUME NEW f, NEW S, IsFiniteSet(S), \A x \in S : f[x] \in Int, NEW E \in SUBSET S
  PROVE  SumFunctionOnSet(f, S) = SumFunctionOnSet(f, E) + SumFunctionOnSet(f, S \ E)
<1> DEFINE P == {T \in SUBSET E : SumFunctionOnSet(f, S \ (E \ T)) =
                                   SumFunctionOnSet(f, T) + SumFunctionOnSet(f, S \ E)}
<1>0. IsFiniteSet(E) /\ IsFiniteSet(S \ E)
  BY FS_Subset
<1>1. {} \in P
  <2>1. SumFunctionOnSet(f, S \ E) \in Int
    BY <1>0, SumInt
  <2> QED
    BY <2>1, SumOfNone
<1>2. ASSUME NEW T \in SUBSET E, T # {}, \A x \in T : T \ {x} \in P
      PROVE  T \in P
  <2>1. PICK x \in T : TRUE
    BY <1>2
  <2> DEFINE U == S \ (E \ T)
             V == S \ (E \ (T \ {x}))
  <2>2. V = U \ {x} /\ x \in U
    BY <2>1
  <2>3. IsFiniteSet(T) /\ IsFiniteSet(U) /\ IsFiniteSet(T \ {x})
    BY <1>0, FS_Subset
  <2>4. SumFunctionOnSet(f, U) = f[x] + SumFunctionOnSet(f, V)
    BY <2>2, <2>3, SumWithout
  <2>5. SumFunctionOnSet(f, T) = f[x] + SumFunctionOnSet(f, T \ {x})
    BY <2>1, <2>3, SumWithout
  <2>6. SumFunctionOnSet(f, V) = SumFunctionOnSet(f, T \ {x}) + SumFunctionOnSet(f, S \ E)
    BY <1>2, <2>1
  <2>7. /\ SumFunctionOnSet(f, T \ {x}) \in Int /\ f[x] \in Int
        /\ SumFunctionOnSet(f, S \ E) \in Int
    BY <1>0, <2>1, <2>3, SumInt
  <2>8. SumFunctionOnSet(f, U) = SumFunctionOnSet(f, T) + SumFunctionOnSet(f, S \ E)
    <3> HIDE DEF U, V
    <3> QED
      BY <2>4, <2>5, <2>6, <2>7
  <2> QED
    BY <2>8
<1> HIDE DEF P
<1>3. E \in P
  BY <1>0, <1>1, <1>2, FiniteInduction
<1>4. S \ (E \ E) = S
  OBVIOUS
<1> QED
  BY <1>3, <1>4 DEF P

\* The sum of zeros.
LEMMA SumOfZeros ==
  ASSUME NEW f, NEW S, IsFiniteSet(S), \A x \in S : f[x] = 0
  PROVE  SumFunctionOnSet(f, S) = 0
<1> DEFINE P == {T \in SUBSET S : SumFunctionOnSet(f, T) = 0}
<1>1. {} \in P
  BY SumOfNone
<1>2. ASSUME NEW T \in SUBSET S, T # {}, \A x \in T : T \ {x} \in P
      PROVE  T \in P
  <2>1. IsFiniteSet(T) /\ Picked(T) \in T
    BY <1>2, WithoutPicked
  <2>2. SumFunctionOnSet(f, T) = f[Picked(T)] + SumFunctionOnSet(f, T \ {Picked(T)})
    BY <1>2, <2>1, SumOfPick
  <2> QED
    BY <1>2, <2>1, <2>2
<1> HIDE DEF P
<1>3. S \in P
  BY <1>1, <1>2, FiniteInduction
<1> QED
  BY <1>3 DEF P

\* What becomes zero leaves the sum.
LEMMA SumCleared ==
  ASSUME NEW f, NEW g, NEW S, IsFiniteSet(S), \A x \in S : f[x] \in Int, NEW E \in SUBSET S,
         \A x \in S : g[x] = IF x \in E THEN 0 ELSE f[x]
  PROVE  SumFunctionOnSet(g, S) = SumFunctionOnSet(f, S) - SumFunctionOnSet(f, E)
<1>0. IsFiniteSet(E) /\ IsFiniteSet(S \ E)
  BY FS_Subset
<1>1. SumFunctionOnSet(f, S) = SumFunctionOnSet(f, E) + SumFunctionOnSet(f, S \ E)
  BY SumSplit
<1>2. SumFunctionOnSet(g, S) = SumFunctionOnSet(g, E) + SumFunctionOnSet(g, S \ E)
  BY SumSplit
<1>3. SumFunctionOnSet(g, E) = 0
  BY <1>0, SumOfZeros
<1>4. SumFunctionOnSet(g, S \ E) = SumFunctionOnSet(f, S \ E)
  BY <1>0, SumSame
<1>5. SumFunctionOnSet(f, E) \in Int /\ SumFunctionOnSet(f, S \ E) \in Int
  BY <1>0, SumInt
<1> QED
  BY <1>1, <1>2, <1>3, <1>4, <1>5

\* A sum of naturals is a natural, and covers every summand.
LEMMA SumNat ==
  ASSUME NEW f, NEW S, IsFiniteSet(S), \A x \in S : f[x] \in Nat
  PROVE  /\ SumFunctionOnSet(f, S) \in Nat
         /\ \A x \in S : f[x] <= SumFunctionOnSet(f, S)
<1> DEFINE P == {T \in SUBSET S : SumFunctionOnSet(f, T) \in Nat}
<1>1. {} \in P
  BY SumOfNone
<1>2. ASSUME NEW T \in SUBSET S, T # {}, \A x \in T : T \ {x} \in P
      PROVE  T \in P
  <2>1. IsFiniteSet(T) /\ Picked(T) \in T
    BY <1>2, WithoutPicked
  <2>2. SumFunctionOnSet(f, T) = f[Picked(T)] + SumFunctionOnSet(f, T \ {Picked(T)})
    BY <1>2, <2>1, SumOfPick
  <2> QED
    BY <1>2, <2>1, <2>2
<1> HIDE DEF P
<1>3. \A T \in SUBSET S : SumFunctionOnSet(f, T) \in Nat
  <2> SUFFICES ASSUME NEW T \in SUBSET S
               PROVE  SumFunctionOnSet(f, T) \in Nat
    OBVIOUS
  <2>1. IsFiniteSet(T)
    BY FS_Subset
  <2>2. \A U \in SUBSET T : U # {} /\ (\A x \in U : U \ {x} \in P) => U \in P
    BY <1>2
  <2>3. T \in P
    BY <1>1, <2>1, <2>2, FiniteInduction
  <2> QED
    BY <2>3 DEF P
<1>4. ASSUME NEW x \in S
      PROVE  f[x] <= SumFunctionOnSet(f, S)
  <2>1. SumFunctionOnSet(f, S) = f[x] + SumFunctionOnSet(f, S \ {x})
    BY SumWithout
  <2>2. SumFunctionOnSet(f, S \ {x}) \in Nat
    BY <1>3
  <2> QED
    BY <2>1, <2>2
<1> QED
  BY <1>3, <1>4
=============================================================================
