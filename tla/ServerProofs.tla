---------------------------- MODULE ServerProofs ----------------------------
(***************************************************************************)
(* Proofs about the process and the decisions it takes: Rules (with        *)
(* Tokens, HttpRules, GrpcRules and Settings), then Server, then Startup.  *)
(*                                                                         *)
(* Rules decides on one input at a time, so its invariant says no more     *)
(* than that the input is one of those given (InputIsTaken).  All the work *)
(* is in a theorem per kind of input: what the code computes, for every    *)
(* text, list of lines, configuration or schema, is what it promises.  The *)
(* inputs are sequences of any length: SeqInduction does the induction,    *)
(* with a set of sequences where one would write a predicate.              *)
(*                                                                         *)
(* Server is proved for every number of plugins and every choice of those  *)
(* that speak gRPC: PHP outlives its threads, and the exit code tells what *)
(* happened.  An exit code of 0 is decided in one expression at the end,   *)
(* from two flags; what it stands for happened in other threads, long      *)
(* before.  IInv carries it there: what main's place says of the loops it  *)
(* has finished (PlaceInv), what it took from the threads it has joined    *)
(* (JoinInv), and that a plugin which cuts a request says so (DrainInv).   *)
(* Startup is about the pid file of the processes around that life.        *)
(***************************************************************************)
EXTENDS Server, Rules, SumTheorems, SequenceTheorems, TLAPS

-----------------------------------------------------------------------------
(* Sequences that are flattened or selected from (Tokens).                 *)

\* Induction over sequences, for a set instead of an operator.
LEMMA SeqInduction ==
  ASSUME NEW S, NEW P, <<>> \in P, \A s \in Seq(S), e \in S : s \in P => Append(s, e) \in P
  PROVE  Seq(S) \subseteq P
<1> DEFINE Q == {n \in Nat : \A s \in Seq(S) : Len(s) = n => s \in P}
<1>1. 0 \in Q
  BY EmptySeq
<1>2. ASSUME NEW n \in Nat, n \in Q
      PROVE  n + 1 \in Q
  <2> SUFFICES ASSUME NEW s \in Seq(S), Len(s) = n + 1
               PROVE  s \in P
    OBVIOUS
  <2> DEFINE t == SubSeq(s, 1, n)
  <2>1. t \in Seq(S) /\ Len(t) = n
    BY SubSeqProperties
  <2>2. s[n + 1] \in S
    BY ElementOfSeq
  <2>3. s = Append(t, s[n + 1])
    BY <2>2, SubSeqProperties
  <2>4. t \in P
    BY <1>2, <2>1
  <2> HIDE DEF t
  <2> QED
    BY <2>1, <2>2, <2>3, <2>4
<1>3. Nat \subseteq Q
  <2> HIDE DEF Q
  <2> QED
    BY <1>1, <1>2, SetInduction
<1> QED
  BY <1>3, LenProperties

\* g flattens every prefix of ss.
Flattens(g, ss) == g = [i \in 1 .. Len(ss) |-> IF i = 1 THEN ss[i] ELSE g[i - 1] \o ss[i]]

\* One such function.
FlatTable(ss) == CHOOSE g : Flattens(g, ss)

LEMMA FlattenUnfolds ==
  ASSUME NEW S, NEW ss \in Seq(S), ss # <<>>
  PROVE  FlattenSeq(ss) = FlatTable(ss)[Len(ss)]
<1>1. Len(ss) # 0
  BY EmptySeq
<1> QED
  BY <1>1 DEF FlattenSeq, FlatTable, Flattens

LEMMA FlattenOfNone == FlattenSeq(<<>>) = <<>>
BY EmptySeq DEF FlattenSeq

\* Such a function exists, by one more element at a time.
LEMMA FlatTableExists ==
  ASSUME NEW S, NEW ss \in Seq(S)
  PROVE  Flattens(FlatTable(ss), ss)
<1> DEFINE P == {s \in Seq(S) : \E g : Flattens(g, s)}
<1>1. <<>> \in P
  <2>1. Flattens(<<>>, <<>>)
    BY EmptySeq DEF Flattens
  <2> QED
    BY <2>1, EmptySeq
<1>2. ASSUME NEW s \in Seq(S), NEW e \in S, s \in P
      PROVE  Append(s, e) \in P
  <2> DEFINE a == Append(s, e)
             n == Len(s)
  <2>1. PICK g : Flattens(g, s)
    BY <1>2
  <2>2. /\ a \in Seq(S) /\ Len(a) = n + 1 /\ a[n + 1] = e /\ n \in Nat
        /\ \A i \in 1 .. n : a[i] = s[i]
    BY AppendProperties, LenProperties
  <2> DEFINE h == [i \in 1 .. n + 1 |-> IF i = n + 1 THEN (IF i = 1 THEN e ELSE g[n] \o e) ELSE g[i]]
  <2> HIDE DEF a, n
  <2>3. ASSUME NEW i \in 1 .. n + 1
        PROVE  h[i] = IF i = 1 THEN a[i] ELSE h[i - 1] \o a[i]
    <3>1. CASE i = n + 1
      BY <2>2, <3>1
    <3>2. CASE i # n + 1
      <4>1. i \in 1 .. n
        BY <2>2, <3>2
      <4>2. h[i] = g[i] /\ a[i] = s[i]
        BY <2>2, <3>2, <4>1
      <4>3. g[i] = IF i = 1 THEN s[i] ELSE g[i - 1] \o s[i]
        BY <2>1, <4>1 DEF Flattens, n
      <4>4. i # 1 => i - 1 \in 1 .. n + 1 /\ i - 1 # n + 1
        BY <2>2, <4>1
      <4>5. i # 1 => h[i - 1] = g[i - 1]
        BY <4>4
      <4> HIDE DEF h
      <4> QED
        BY <4>2, <4>3, <4>5
    <3> QED
      BY <3>1, <3>2
  <2>4. h = [i \in 1 .. n + 1 |-> IF i = 1 THEN a[i] ELSE h[i - 1] \o a[i]]
    BY <2>3
  <2> HIDE DEF h
  <2>5. Flattens(h, a)
    BY <2>2, <2>4 DEF Flattens
  <2> QED
    BY <2>2, <2>5 DEF a
<1>3. Seq(S) \subseteq P
  <2> HIDE DEF P
  <2> QED
    BY <1>1, <1>2, SeqInduction
<1> QED
  BY <1>3 DEF FlatTable

\* Two of them agree on a common prefix.
LEMMA FlatTablesAgree ==
  ASSUME NEW S, NEW s \in Seq(S), NEW e \in S
  PROVE  \A i \in 1 .. Len(s) : FlatTable(Append(s, e))[i] = FlatTable(s)[i]
<1> DEFINE a == Append(s, e)
           n == Len(s)
           g == FlatTable(s)
           h == FlatTable(a)
           P == {m \in Nat : \A i \in 1 .. m : i <= n => h[i] = g[i]}
<1>1. /\ a \in Seq(S) /\ Len(a) = n + 1 /\ n \in Nat
      /\ \A i \in 1 .. n : a[i] = s[i]
  BY AppendProperties, LenProperties
<1>2. Flattens(g, s) /\ Flattens(h, a)
  BY <1>1, FlatTableExists
<1> HIDE DEF a, n, g, h
<1>3. ASSUME NEW i \in 1 .. n
      PROVE  /\ g[i] = IF i = 1 THEN s[i] ELSE g[i - 1] \o s[i]
             /\ h[i] = IF i = 1 THEN s[i] ELSE h[i - 1] \o s[i]
  <2>1. i \in 1 .. n + 1
    BY <1>1
  <2> QED
    BY <1>1, <1>2, <2>1 DEF Flattens, n
<1>4. 0 \in P
  OBVIOUS
<1>5. ASSUME NEW m \in Nat, m \in P
      PROVE  m + 1 \in P
  <2> SUFFICES ASSUME NEW i \in 1 .. m + 1, i <= n
               PROVE  h[i] = g[i]
    OBVIOUS
  <2>1. CASE i = 1
    <3>1. 1 \in 1 .. n
      BY <1>1, <2>1
    <3> QED
      BY <1>3, <2>1, <3>1
  <2>2. CASE i # 1
    <3>1. i \in 1 .. n /\ i - 1 \in 1 .. m /\ i - 1 <= n
      BY <1>1, <2>2
    <3>2. h[i - 1] = g[i - 1]
      BY <1>5, <3>1
    <3> QED
      BY <1>3, <2>2, <3>1, <3>2
  <2> QED
    BY <2>1, <2>2
<1>6. Nat \subseteq P
  <2> HIDE DEF P
  <2> QED
    BY <1>4, <1>5, SetInduction
<1>7. \A i \in 1 .. n : h[i] = g[i]
  BY <1>1, <1>6
<1> QED
  BY <1>7 DEF a, n, g, h

\* One more sequence is put behind what the others give.
LEMMA FlattenAppend ==
  ASSUME NEW S, NEW ss \in Seq(Seq(S)), NEW t \in Seq(S)
  PROVE  FlattenSeq(Append(ss, t)) = FlattenSeq(ss) \o t
<1> DEFINE a == Append(ss, t)
           n == Len(ss)
           h == FlatTable(a)
<1>1. /\ a \in Seq(Seq(S)) /\ Len(a) = n + 1 /\ n \in Nat /\ a # <<>> /\ a[n + 1] = t
  BY AppendProperties, LenProperties
<1>2. Flattens(h, a) /\ FlattenSeq(a) = h[n + 1]
  BY <1>1, FlatTableExists, FlattenUnfolds
<1> HIDE DEF h
<1>3. h[n + 1] = IF n + 1 = 1 THEN t ELSE h[n] \o t
  <2>1. n + 1 \in 1 .. n + 1 /\ n + 1 - 1 = n
    BY <1>1
  <2>2. Len(a) = n + 1 /\ a[n + 1] = t /\ Flattens(h, a)
    BY <1>1, <1>2
  <2> HIDE DEF a, n
  <2>3. h = [i \in 1 .. n + 1 |-> IF i = 1 THEN a[i] ELSE h[i - 1] \o a[i]]
    BY <2>2 DEF Flattens
  <2>4. \A i \in 1 .. n + 1 : h[i] = IF i = 1 THEN a[i] ELSE h[i - 1] \o a[i]
    BY <2>3
  <2>5. ASSUME NEW k, k = n + 1
        PROVE  h[k] = IF k = 1 THEN t ELSE h[n] \o t
    <3>1. h[k] = IF k = 1 THEN a[k] ELSE h[k - 1] \o a[k]
      BY <2>1, <2>4, <2>5
    <3>2. k - 1 = n
      BY <1>1, <2>5
    <3> QED
      BY <2>2, <2>5, <3>1, <3>2
  <2> QED
    BY <2>1, <2>5
<1>4. CASE ss = <<>>
  <2>1. n = 0
    BY <1>4, EmptySeq
  <2>2. FlattenSeq(a) = t
    BY <1>2, <1>3, <2>1
  <2>3. FlattenSeq(ss) = <<>>
    BY <1>4, FlattenOfNone
  <2> QED
    BY <2>2, <2>3, ConcatEmptySeq
<1>5. CASE ss # <<>>
  <2>1. n # 0 /\ n \in 1 .. n
    BY <1>1, <1>5, EmptySeq
  <2>2. h[n] = FlatTable(ss)[n]
    BY <2>1, FlatTablesAgree DEF h
  <2>3. FlattenSeq(ss) = FlatTable(ss)[n]
    BY <1>5, FlattenUnfolds
  <2> QED
    BY <1>1, <1>2, <1>3, <2>1, <2>2, <2>3
<1> QED
  BY <1>4, <1>5

LEMMA FlattenType ==
  ASSUME NEW S, NEW ss \in Seq(Seq(S))
  PROVE  FlattenSeq(ss) \in Seq(S)
<1> DEFINE P == {s \in Seq(Seq(S)) : FlattenSeq(s) \in Seq(S)}
<1>1. <<>> \in P
  BY EmptySeq, FlattenOfNone
<1>2. ASSUME NEW s \in Seq(Seq(S)), NEW t \in Seq(S), s \in P
      PROVE  Append(s, t) \in P
  BY <1>2, FlattenAppend, AppendProperties, ConcatProperties
<1>3. Seq(Seq(S)) \subseteq P
  <2> HIDE DEF P
  <2> QED
    BY <1>1, <1>2, SeqInduction
<1> QED
  BY <1>3

\* Elements are those of the sequences.
LEMMA ToSetConcat ==
  ASSUME NEW S, NEW s \in Seq(S), NEW t \in Seq(S)
  PROVE  ToSet(s \o t) = ToSet(s) \cup ToSet(t)
<1> DEFINE u == s \o t
<1>1. /\ u \in Seq(S) /\ Len(u) = Len(s) + Len(t)
      /\ Len(s) \in Nat /\ Len(t) \in Nat
      /\ DOMAIN s = 1 .. Len(s) /\ DOMAIN t = 1 .. Len(t) /\ DOMAIN u = 1 .. Len(u)
      /\ \A i \in 1 .. Len(s) + Len(t) : u[i] = IF i <= Len(s) THEN s[i] ELSE t[i - Len(s)]
  BY ConcatProperties, LenProperties
<1> HIDE DEF u
<1>2. ASSUME NEW x \in ToSet(u)
      PROVE  x \in ToSet(s) \cup ToSet(t)
  <2>1. PICK i \in 1 .. Len(u) : x = u[i]
    BY <1>1 DEF ToSet
  <2>2. CASE i <= Len(s)
    BY <1>1, <2>1, <2>2 DEF ToSet
  <2>3. CASE ~(i <= Len(s))
    <3>1. i - Len(s) \in DOMAIN t /\ x = t[i - Len(s)]
      BY <1>1, <2>1, <2>3
    <3> QED
      BY <3>1 DEF ToSet
  <2> QED
    BY <2>2, <2>3
<1>3. ASSUME NEW x \in ToSet(s)
      PROVE  x \in ToSet(u)
  <2>1. PICK i \in 1 .. Len(s) : x = s[i]
    BY <1>1 DEF ToSet
  <2>2. i \in DOMAIN u /\ u[i] = x
    BY <1>1, <2>1
  <2> QED
    BY <2>2 DEF ToSet
<1>4. ASSUME NEW x \in ToSet(t)
      PROVE  x \in ToSet(u)
  <2>1. PICK i \in 1 .. Len(t) : x = t[i]
    BY <1>1 DEF ToSet
  <2>2. i + Len(s) \in DOMAIN u /\ u[i + Len(s)] = x
    BY <1>1, <2>1
  <2> QED
    BY <2>2 DEF ToSet
<1> QED
  BY <1>2, <1>3, <1>4 DEF u

LEMMA ToSetAppend ==
  ASSUME NEW S, NEW s \in Seq(S), NEW e \in S
  PROVE  ToSet(Append(s, e)) = ToSet(s) \cup {e}
<1> DEFINE a == Append(s, e)
<1>1. /\ a \in Seq(S) /\ Len(a) = Len(s) + 1 /\ Len(s) \in Nat
      /\ DOMAIN s = 1 .. Len(s) /\ DOMAIN a = 1 .. Len(a)
      /\ \A i \in 1 .. Len(s) : a[i] = s[i]
      /\ a[Len(s) + 1] = e
  BY AppendProperties, LenProperties
<1> HIDE DEF a
<1>2. Len(s) + 1 \in DOMAIN a /\ \A i \in DOMAIN s : i \in DOMAIN a
  BY <1>1
<1>3. \A i \in DOMAIN a : i = Len(s) + 1 \/ i \in DOMAIN s
  BY <1>1
<1>4. {e} \cup ToSet(s) \subseteq ToSet(a)
  BY <1>1, <1>2 DEF ToSet
<1>5. ToSet(a) \subseteq ToSet(s) \cup {e}
  BY <1>1, <1>3 DEF ToSet
<1> QED
  BY <1>4, <1>5 DEF a

LEMMA ToSetEmpty == ToSet(<<>>) = {}
<1>1. DOMAIN <<>> = {}
  BY EmptySeq, LenProperties
<1> QED
  BY <1>1 DEF ToSet

LEMMA ToSetOfFlatten ==
  ASSUME NEW S, NEW ss \in Seq(Seq(S))
  PROVE  ToSet(FlattenSeq(ss)) = UNION {ToSet(s) : s \in ToSet(ss)}
<1> DEFINE P == {s \in Seq(Seq(S)) : ToSet(FlattenSeq(s)) = UNION {ToSet(t) : t \in ToSet(s)}}
<1>1. <<>> \in P
  BY EmptySeq, FlattenOfNone, ToSetEmpty
<1>2. ASSUME NEW s \in Seq(Seq(S)), NEW t \in Seq(S), s \in P
      PROVE  Append(s, t) \in P
  <2>1. FlattenSeq(Append(s, t)) = FlattenSeq(s) \o t
    BY FlattenAppend
  <2>2. ToSet(FlattenSeq(s) \o t) = ToSet(FlattenSeq(s)) \cup ToSet(t)
    BY FlattenType, ToSetConcat
  <2>3. ToSet(Append(s, t)) = ToSet(s) \cup {t}
    BY ToSetAppend
  <2>4. Append(s, t) \in Seq(Seq(S))
    BY AppendProperties
  <2> QED
    BY <1>2, <2>1, <2>2, <2>3, <2>4
<1>3. Seq(Seq(S)) \subseteq P
  <2> HIDE DEF P
  <2> QED
    BY <1>1, <1>2, SeqInduction
<1> QED
  BY <1>3

-----------------------------------------------------------------------------
(* What is kept of a sequence.                                             *)

\* What a selection makes of each position.
Chosen(s, places) == [i \in DOMAIN s |-> IF i \in places THEN <<s[i]>> ELSE <<>>]

LEMMA KeptIsFlat == \A s, I : Kept(s, I) = FlattenSeq(Chosen(s, I))
BY DEF Kept, Chosen

LEMMA OneIsSeq ==
  ASSUME NEW S, NEW x \in S
  PROVE  <<x>> \in Seq(S) /\ Len(<<x>>) = 1 /\ <<x>>[1] = x
OBVIOUS

LEMMA ChosenType ==
  ASSUME NEW S, NEW s \in Seq(S), NEW I
  PROVE  Chosen(s, I) \in Seq(Seq(S))
<1>1. DOMAIN s = 1 .. Len(s) /\ Len(s) \in Nat /\ \A i \in 1 .. Len(s) : s[i] \in S
  BY LenProperties, ElementOfSeq
<1>2. \A i \in 1 .. Len(s) : (IF i \in I THEN <<s[i]>> ELSE <<>>) \in Seq(S)
  BY <1>1, EmptySeq
<1>3. Chosen(s, I) \in [1 .. Len(s) -> Seq(S)]
  BY <1>1, <1>2 DEF Chosen
<1> QED
  BY <1>1, <1>3, SeqDef

LEMMA ChosenAppend ==
  ASSUME NEW S, NEW s \in Seq(S), NEW e \in S, NEW I
  PROVE  Chosen(Append(s, e), I) = Append(Chosen(s, I), IF Len(s) + 1 \in I THEN <<e>> ELSE <<>>)
<1> DEFINE a == Append(s, e)
           x == IF Len(s) + 1 \in I THEN <<e>> ELSE <<>>
           b == Append(Chosen(s, I), x)
<1>1. /\ a \in Seq(S) /\ Len(a) = Len(s) + 1 /\ Len(s) \in Nat
      /\ DOMAIN s = 1 .. Len(s) /\ DOMAIN a = 1 .. Len(a)
      /\ \A i \in 1 .. Len(s) : a[i] = s[i]
      /\ a[Len(s) + 1] = e
  BY AppendProperties, LenProperties
<1>2. x \in Seq(S)
  BY EmptySeq
<1>3. /\ Chosen(s, I) \in Seq(Seq(S)) /\ DOMAIN Chosen(s, I) = 1 .. Len(s)
      /\ Chosen(a, I) \in Seq(Seq(S)) /\ DOMAIN Chosen(a, I) = 1 .. Len(s) + 1
  BY <1>1, ChosenType DEF Chosen
<1>4. Len(Chosen(s, I)) = Len(s) /\ Len(Chosen(a, I)) = Len(s) + 1
  BY <1>1, <1>3, LenProperties
<1>5. /\ b \in Seq(Seq(S)) /\ Len(b) = Len(s) + 1 /\ b[Len(s) + 1] = x
      /\ \A i \in 1 .. Len(s) : b[i] = Chosen(s, I)[i]
  BY <1>2, <1>3, <1>4, AppendProperties
<1> HIDE DEF a, b
<1>6. ASSUME NEW i \in 1 .. Len(s) + 1
      PROVE  Chosen(a, I)[i] = b[i]
  <2>1. CASE i = Len(s) + 1
    <3>1. Chosen(a, I)[i] = x
      BY <1>1, <1>3, <2>1 DEF Chosen
    <3> HIDE DEF x
    <3> QED
      BY <1>5, <2>1, <3>1
  <2>2. CASE i # Len(s) + 1
    <3>1. i \in 1 .. Len(s) /\ i \in DOMAIN a /\ i \in DOMAIN s
      BY <1>1, <2>2
    <3>2. Chosen(a, I)[i] = (IF i \in I THEN <<s[i]>> ELSE <<>>)
      BY <1>1, <3>1 DEF Chosen
    <3>3. Chosen(s, I)[i] = (IF i \in I THEN <<s[i]>> ELSE <<>>)
      BY <3>1 DEF Chosen
    <3> QED
      BY <1>5, <3>1, <3>2, <3>3
  <2> QED
    BY <2>1, <2>2
<1> HIDE DEF x
<1>7. Chosen(a, I) = b
  BY <1>3, <1>4, <1>5, <1>6, SeqEqual
<1> QED
  BY <1>7 DEF a, b, x

\* A selection, one more element at a time.
LEMMA KeptOfNone == \A I : Kept(<<>>, I) = <<>>
<1> SUFFICES ASSUME NEW I
             PROVE  Kept(<<>>, I) = <<>>
  OBVIOUS
<1>1. Chosen(<<>>, I) = <<>>
  BY EmptySeq, LenProperties DEF Chosen
<1> QED
  BY <1>1, KeptIsFlat, FlattenOfNone

LEMMA KeptAppend ==
  ASSUME NEW S, NEW s \in Seq(S), NEW e \in S, NEW I
  PROVE  Kept(Append(s, e), I) = IF Len(s) + 1 \in I THEN Append(Kept(s, I), e) ELSE Kept(s, I)
<1> DEFINE x == IF Len(s) + 1 \in I THEN <<e>> ELSE <<>>
<1>1. x \in Seq(S) /\ Chosen(s, I) \in Seq(Seq(S))
  BY EmptySeq, ChosenType
<1>2. Kept(Append(s, e), I) = Kept(s, I) \o x
  <2>1. Chosen(Append(s, e), I) = Append(Chosen(s, I), x)
    BY ChosenAppend
  <2> HIDE DEF x
  <2>2. FlattenSeq(Append(Chosen(s, I), x)) = FlattenSeq(Chosen(s, I)) \o x
    BY <1>1, FlattenAppend
  <2> QED
    BY <2>1, <2>2, KeptIsFlat
<1>3. Kept(s, I) \in Seq(S)
  BY <1>1, KeptIsFlat, FlattenType
<1>4. CASE Len(s) + 1 \in I
  BY <1>2, <1>3, <1>4, AppendIsConcat
<1>5. CASE Len(s) + 1 \notin I
  BY <1>2, <1>3, <1>5, ConcatEmptySeq
<1> QED
  BY <1>4, <1>5

LEMMA KeptType ==
  ASSUME NEW S, NEW s \in Seq(S), NEW I
  PROVE  Kept(s, I) \in Seq(S)
BY KeptIsFlat, ChosenType, FlattenType

\* Only the positions of the sequence count.
LEMMA KeptSame ==
  ASSUME NEW s, NEW I, NEW J, \A i \in DOMAIN s : i \in I <=> i \in J
  PROVE  Kept(s, I) = Kept(s, J)
<1>1. Chosen(s, I) = Chosen(s, J)
  BY DEF Chosen
<1> QED
  BY <1>1, KeptIsFlat

\* Its elements are those at the positions.
LEMMA ToSetOfKept ==
  ASSUME NEW S, NEW s \in Seq(S), NEW I
  PROVE  ToSet(Kept(s, I)) = {s[i] : i \in I \cap DOMAIN s}
<1> DEFINE P == {t \in Seq(S) : ToSet(Kept(t, I)) = {t[i] : i \in I \cap DOMAIN t}}
<1>1. <<>> \in P
  <2>1. DOMAIN <<>> = {}
    BY EmptySeq, LenProperties
  <2> QED
    BY <2>1, EmptySeq, KeptOfNone, ToSetEmpty
<1>2. ASSUME NEW t \in Seq(S), NEW e \in S, t \in P
      PROVE  Append(t, e) \in P
  <2> DEFINE a == Append(t, e)
             n == Len(t) + 1
  <2>1. /\ a \in Seq(S) /\ n \in Nat /\ n >= 1
        /\ DOMAIN t = 1 .. n - 1 /\ DOMAIN a = 1 .. n
        /\ \A i \in 1 .. n - 1 : a[i] = t[i]
        /\ a[n] = e
    BY AppendProperties, LenProperties
  <2>2. ToSet(Kept(t, I)) = {t[i] : i \in I \cap DOMAIN t}
    BY <1>2
  <2>3. Kept(t, I) \in Seq(S)
    BY KeptType
  <2>4. ToSet(Kept(a, I)) = IF n \in I THEN ToSet(Kept(t, I)) \cup {e} ELSE ToSet(Kept(t, I))
    <3>1. Kept(a, I) = IF n \in I THEN Append(Kept(t, I), e) ELSE Kept(t, I)
      BY KeptAppend
    <3>2. ToSet(Append(Kept(t, I), e)) = ToSet(Kept(t, I)) \cup {e}
      BY <2>3, ToSetAppend
    <3> QED
      BY <3>1, <3>2
  <2> HIDE DEF a, n
  <2>5. \A i \in DOMAIN t : i \in DOMAIN a /\ a[i] = t[i]
    BY <2>1
  <2>6. \A i \in DOMAIN a : i = n \/ i \in DOMAIN t
    BY <2>1
  <2>7. n \in DOMAIN a
    BY <2>1
  <2>8. {a[i] : i \in I \cap DOMAIN a} =
          IF n \in I THEN {t[i] : i \in I \cap DOMAIN t} \cup {e} ELSE {t[i] : i \in I \cap DOMAIN t}
    BY <2>1, <2>5, <2>6, <2>7
  <2> QED
    BY <2>1, <2>2, <2>4, <2>8 DEF a
<1>3. Seq(S) \subseteq P
  <2> HIDE DEF P
  <2> QED
    BY <1>1, <1>2, SeqInduction
<1> QED
  BY <1>3

LEMMA EmptyToSet ==
  ASSUME NEW S, NEW s \in Seq(S)
  PROVE  ToSet(s) = {} <=> s = <<>>
<1>1. CASE s = <<>>
  BY <1>1, ToSetEmpty
<1>2. CASE s # <<>>
  <2>1. 1 \in DOMAIN s
    BY <1>2, EmptySeq, LenProperties
  <2> QED
    BY <1>2, <2>1 DEF ToSet
<1> QED
  BY <1>1, <1>2

LEMMA KeptNone ==
  ASSUME NEW S, NEW s \in Seq(S), NEW I
  PROVE  Kept(s, I) = <<>> <=> I \cap DOMAIN s = {}
<1>1. Kept(s, I) = <<>> <=> ToSet(Kept(s, I)) = {}
  BY KeptType, EmptyToSet
<1>2. ToSet(Kept(s, I)) = {s[i] : i \in I \cap DOMAIN s}
  BY ToSetOfKept
<1> QED
  BY <1>1, <1>2

LEMMA KeptAll ==
  ASSUME NEW S, NEW s \in Seq(S), NEW I, DOMAIN s \subseteq I
  PROVE  Kept(s, I) = s
<1> DEFINE P == {t \in Seq(S) : DOMAIN t \subseteq I => Kept(t, I) = t}
<1>1. <<>> \in P
  BY EmptySeq, KeptOfNone
<1>2. ASSUME NEW t \in Seq(S), NEW e \in S, t \in P
      PROVE  Append(t, e) \in P
  <2> SUFFICES ASSUME DOMAIN Append(t, e) \subseteq I
               PROVE  Kept(Append(t, e), I) = Append(t, e)
    BY AppendProperties
  <2>1. DOMAIN Append(t, e) = 1 .. Len(t) + 1 /\ DOMAIN t = 1 .. Len(t) /\ Len(t) \in Nat
    BY AppendProperties, LenProperties
  <2>2. Len(t) + 1 \in I /\ DOMAIN t \subseteq I
    BY <2>1
  <2>3. Kept(t, I) = t
    BY <1>2, <2>2
  <2> QED
    BY <2>2, <2>3, KeptAppend
<1>3. Seq(S) \subseteq P
  <2> HIDE DEF P
  <2> QED
    BY <1>1, <1>2, SeqInduction
<1> QED
  BY <1>3

-----------------------------------------------------------------------------
(* Header maps: the operations of Tokens on one more line.                  *)

\* The names and the values of lines, in order.
NamesIn(lines) == [i \in DOMAIN lines |-> lines[i].name]
ValuesIn(lines) == [i \in DOMAIN lines |-> lines[i].value]

\* What Append does, in one fact.
LEMMA AppendFacts ==
  ASSUME NEW S, NEW s \in Seq(S), NEW e \in S
  PROVE  /\ Append(s, e) \in Seq(S) /\ Append(s, e) # <<>>
         /\ Len(s) \in Nat /\ Len(Append(s, e)) = Len(s) + 1
         /\ DOMAIN s = 1 .. Len(s) /\ DOMAIN Append(s, e) = 1 .. Len(s) + 1
         /\ \A i \in 1 .. Len(s) : Append(s, e)[i] = s[i] /\ i \in DOMAIN Append(s, e)
         /\ Append(s, e)[Len(s) + 1] = e
         /\ Len(s) + 1 \in DOMAIN Append(s, e)
         /\ \A i \in DOMAIN Append(s, e) : i \in 1 .. Len(s) \/ i = Len(s) + 1
         /\ Len(s) + 1 \notin DOMAIN s
<1>1. /\ Append(s, e) \in Seq(S) /\ Append(s, e) # <<>>
      /\ Len(s) \in Nat /\ Len(Append(s, e)) = Len(s) + 1
      /\ DOMAIN s = 1 .. Len(s)
      /\ \A i \in 1 .. Len(s) : Append(s, e)[i] = s[i]
      /\ Append(s, e)[Len(s) + 1] = e
  BY AppendProperties, LenProperties
<1>2. DOMAIN Append(s, e) = 1 .. Len(s) + 1
  BY <1>1, LenProperties
<1>3. /\ \A i \in 1 .. Len(s) : i \in 1 .. Len(s) + 1
      /\ Len(s) + 1 \in 1 .. Len(s) + 1
      /\ \A i \in 1 .. Len(s) + 1 : i \in 1 .. Len(s) \/ i = Len(s) + 1
      /\ Len(s) + 1 \notin 1 .. Len(s)
  BY <1>1
<1> QED
  BY <1>1, <1>2, <1>3

\* A sequence that is built from another, position by position.
LEMMA MapType ==
  ASSUME NEW n \in Nat, NEW T, NEW f, DOMAIN f = 1 .. n, f = [i \in 1 .. n |-> f[i]],
         \A i \in 1 .. n : f[i] \in T
  PROVE  f \in Seq(T) /\ Len(f) = n
<1>1. f \in [1 .. n -> T]
  OBVIOUS
<1>2. f \in Seq(T)
  BY <1>1, SeqDef
<1> QED
  BY <1>2, LenProperties

LEMMA NamesType ==
  ASSUME NEW L, NEW lines \in Seq(L)
  PROVE  /\ NamesIn(lines) \in Seq({l.name : l \in L}) /\ Len(NamesIn(lines)) = Len(lines)
         /\ ValuesIn(lines) \in Seq({l.value : l \in L}) /\ Len(ValuesIn(lines)) = Len(lines)
<1>1. DOMAIN lines = 1 .. Len(lines) /\ Len(lines) \in Nat /\ \A i \in 1 .. Len(lines) : lines[i] \in L
  BY LenProperties, ElementOfSeq
<1> DEFINE f == NamesIn(lines)
           g == ValuesIn(lines)
<1>2. DOMAIN f = 1 .. Len(lines) /\ f = [i \in 1 .. Len(lines) |-> f[i]]
  BY <1>1 DEF NamesIn
<1>3. \A i \in 1 .. Len(lines) : f[i] \in {l.name : l \in L}
  BY <1>1 DEF NamesIn
<1>4. DOMAIN g = 1 .. Len(lines) /\ g = [i \in 1 .. Len(lines) |-> g[i]]
  BY <1>1 DEF ValuesIn
<1>5. \A i \in 1 .. Len(lines) : g[i] \in {l.value : l \in L}
  BY <1>1 DEF ValuesIn
<1> HIDE DEF f, g
<1>6. f \in Seq({l.name : l \in L}) /\ Len(f) = Len(lines)
  BY <1>1, <1>2, <1>3, MapType
<1>7. g \in Seq({l.value : l \in L}) /\ Len(g) = Len(lines)
  BY <1>1, <1>4, <1>5, MapType
<1> QED
  BY <1>6, <1>7 DEF f, g

LEMMA NamesAppend ==
  ASSUME NEW L, NEW lines \in Seq(L), NEW l \in L
  PROVE  /\ NamesIn(Append(lines, l)) = Append(NamesIn(lines), l.name)
         /\ ValuesIn(Append(lines, l)) = Append(ValuesIn(lines), l.value)
<1> DEFINE a == Append(lines, l)
           n == Len(lines)
           N == {k.name : k \in L}
           V == {k.value : k \in L}
<1>1. /\ a \in Seq(L) /\ Len(a) = n + 1 /\ n \in Nat
      /\ DOMAIN lines = 1 .. n /\ DOMAIN a = 1 .. n + 1
      /\ \A i \in 1 .. n : a[i] = lines[i] /\ i \in DOMAIN a
      /\ a[n + 1] = l /\ n + 1 \in DOMAIN a
      /\ \A i \in DOMAIN a : i \in 1 .. n \/ i = n + 1
  BY AppendFacts
<1>2. /\ NamesIn(lines) \in Seq(N) /\ Len(NamesIn(lines)) = n /\ l.name \in N
      /\ NamesIn(a) \in Seq(N) /\ Len(NamesIn(a)) = n + 1
      /\ ValuesIn(lines) \in Seq(V) /\ Len(ValuesIn(lines)) = n /\ l.value \in V
      /\ ValuesIn(a) \in Seq(V) /\ Len(ValuesIn(a)) = n + 1
  BY <1>1, NamesType
<1> HIDE DEF a
<1>3. /\ \A i \in 1 .. n : NamesIn(a)[i] = NamesIn(lines)[i] /\ ValuesIn(a)[i] = ValuesIn(lines)[i]
      /\ NamesIn(a)[n + 1] = l.name /\ ValuesIn(a)[n + 1] = l.value
  BY <1>1 DEF NamesIn, ValuesIn
<1>4. NamesIn(a) = Append(NamesIn(lines), l.name)
  <2> DEFINE b == Append(NamesIn(lines), l.name)
  <2>1. /\ b \in Seq(N) /\ Len(b) = n + 1 /\ b[n + 1] = l.name
        /\ \A i \in 1 .. n : b[i] = NamesIn(lines)[i]
    BY <1>2, AppendProperties
  <2> HIDE DEF b, N
  <2>2. \A i \in 1 .. n + 1 : NamesIn(a)[i] = b[i]
    BY <1>1, <1>3, <2>1
  <2>3. NamesIn(a) = b
    BY <1>2, <2>1, <2>2, SeqEqual
  <2> QED
    BY <2>3 DEF b
<1>5. ValuesIn(a) = Append(ValuesIn(lines), l.value)
  <2> DEFINE b == Append(ValuesIn(lines), l.value)
  <2>1. /\ b \in Seq(V) /\ Len(b) = n + 1 /\ b[n + 1] = l.value
        /\ \A i \in 1 .. n : b[i] = ValuesIn(lines)[i]
    BY <1>2, AppendProperties
  <2> HIDE DEF b, V
  <2>2. \A i \in 1 .. n + 1 : ValuesIn(a)[i] = b[i]
    BY <1>1, <1>3, <2>1
  <2>3. ValuesIn(a) = b
    BY <1>2, <2>1, <2>2, SeqEqual
  <2> QED
    BY <2>3 DEF b
<1> QED
  BY <1>4, <1>5 DEF a

\* The lines of one name.
Lines1(lines, name) == {i \in DOMAIN lines : lines[i].name = name}

LEMMA ValuesUnfold == \A lines, name : ValuesOf(lines, name) = Kept(ValuesIn(lines), Lines1(lines, name))
BY DEF ValuesOf, ValuesIn, Lines1

LEMMA ValuesOfNone == \A name : ValuesOf(<<>>, name) = <<>>
<1>1. ValuesIn(<<>>) = <<>>
  BY EmptySeq, LenProperties DEF ValuesIn
<1> QED
  BY <1>1, ValuesUnfold, KeptOfNone

LEMMA ValuesType ==
  ASSUME NEW L, NEW lines \in Seq(L), NEW name
  PROVE  ValuesOf(lines, name) \in Seq({l.value : l \in L})
BY NamesType, ValuesUnfold, KeptType

LEMMA ValuesAppend ==
  ASSUME NEW L, NEW lines \in Seq(L), NEW l \in L, NEW name
  PROVE  ValuesOf(Append(lines, l), name) =
           IF l.name = name THEN Append(ValuesOf(lines, name), l.value) ELSE ValuesOf(lines, name)
<1> DEFINE a == Append(lines, l)
           n == Len(lines)
           I == Lines1(a, name)
<1>1. /\ n \in Nat /\ DOMAIN lines = 1 .. n
      /\ \A i \in 1 .. n : a[i] = lines[i] /\ i \in DOMAIN a
      /\ a[n + 1] = l /\ n + 1 \in DOMAIN a
  BY AppendFacts
<1>2. ValuesOf(a, name) = Kept(Append(ValuesIn(lines), l.value), I)
  BY NamesAppend, ValuesUnfold
<1>3. /\ ValuesIn(lines) \in Seq({k.value : k \in L}) /\ Len(ValuesIn(lines)) = n
      /\ l.value \in {k.value : k \in L}
  BY NamesType
<1>4. n + 1 \in I <=> l.name = name
  BY <1>1 DEF Lines1
<1>5. Kept(ValuesIn(lines), I) = Kept(ValuesIn(lines), Lines1(lines, name))
  <2>1. DOMAIN ValuesIn(lines) = 1 .. n
    BY <1>1 DEF ValuesIn
  <2>2. \A i \in 1 .. n : i \in I <=> i \in Lines1(lines, name)
    BY <1>1 DEF Lines1
  <2> QED
    BY <2>1, <2>2, KeptSame
<1> HIDE DEF I, a
<1>6. Kept(Append(ValuesIn(lines), l.value), I) =
        IF n + 1 \in I THEN Append(Kept(ValuesIn(lines), I), l.value) ELSE Kept(ValuesIn(lines), I)
  <2> DEFINE v == ValuesIn(lines)
             x == l.value
             V == {k.value : k \in L}
  <2>1. v \in Seq(V) /\ Len(v) = n /\ x \in V
    BY <1>3
  <2> HIDE DEF v, x, V
  <2>2. Kept(Append(v, x), I) = IF Len(v) + 1 \in I THEN Append(Kept(v, I), x) ELSE Kept(v, I)
    BY <2>1, KeptAppend
  <2>3. Kept(Append(v, x), I) = IF n + 1 \in I THEN Append(Kept(v, I), x) ELSE Kept(v, I)
    BY <2>1, <2>2
  <2> QED
    BY <2>3 DEF v, x
<1> QED
  BY <1>2, <1>4, <1>5, <1>6, ValuesUnfold DEF a

-----------------------------------------------------------------------------
(* The least and the greatest, and what is trimmed.                        *)

LEMMA MinFacts ==
  ASSUME NEW X \in SUBSET Nat, X # {}
  PROVE  Min(X) \in X /\ Min(X) \in Nat /\ \A x \in X : Min(X) <= x
<1>1. \E m \in X : \A x \in X : m <= x
  BY LeastNat
<1> QED
  BY <1>1 DEF Min

LEMMA MaxFacts ==
  ASSUME NEW n \in Nat, NEW X \in SUBSET (0 .. n), X # {}
  PROVE  Max(X) \in X /\ Max(X) \in 0 .. n /\ \A x \in X : x <= Max(X)
<1> DEFINE Y == {n - x : x \in X}
<1>1. Y \in SUBSET Nat /\ Y # {}
  <2>1. \A x \in X : n - x \in Nat
    OBVIOUS
  <2>2. PICK x \in X : TRUE
    OBVIOUS
  <2>3. n - x \in Y
    BY <2>2
  <2> QED
    BY <2>1, <2>3
<1>2. PICK m \in Y : \A y \in Y : m <= y
  BY <1>1, LeastNat
<1>3. PICK k \in X : m = n - k
  BY <1>2
<1>4. \A x \in X : k >= x
  BY <1>2, <1>3
<1>5. Max(X) \in X /\ \A x \in X : Max(X) >= x
  BY <1>3, <1>4 DEF Max
<1> QED
  BY <1>5

LEMMA OfTwo ==
  ASSUME NEW a \in Int, NEW b \in Int
  PROVE  /\ Min({a, b}) = IF a <= b THEN a ELSE b
         /\ Max({a, b}) = IF a >= b THEN a ELSE b
<1>1. \E m \in {a, b} : \A x \in {a, b} : m <= x
  OBVIOUS
<1>2. \E m \in {a, b} : \A x \in {a, b} : m >= x
  OBVIOUS
<1>3. Min({a, b}) \in {a, b} /\ \A x \in {a, b} : Min({a, b}) <= x
  BY <1>1 DEF Min
<1>4. Max({a, b}) \in {a, b} /\ \A x \in {a, b} : Max({a, b}) >= x
  BY <1>2 DEF Max
<1> QED
  BY <1>3, <1>4

\* A text ends with its last character that is not trimmed.
LEMMA TrimEndFacts ==
  ASSUME NEW C, NEW s \in Seq(C), NEW cs
  PROVE  \E m \in 0 .. Len(s) :
           /\ TrimEnd(s, cs) = SubSeq(s, 1, m)
           /\ TrimEnd(s, cs) \in Seq(C) /\ Len(TrimEnd(s, cs)) = m
           /\ \A i \in 1 .. m : TrimEnd(s, cs)[i] = s[i]
           /\ m # 0 => s[m] \notin cs
           /\ \A i \in 1 .. Len(s) : m < i => s[i] \in cs
<1> DEFINE X == {i \in DOMAIN s : s[i] \notin cs} \cup {0}
           m == Max(X)
<1>1. Len(s) \in Nat /\ DOMAIN s = 1 .. Len(s)
  BY LenProperties
<1>2. X \in SUBSET (0 .. Len(s)) /\ X # {}
  BY <1>1
<1>3. m \in X /\ m \in 0 .. Len(s) /\ \A x \in X : x <= m
  <2> HIDE DEF X
  <2> QED
    BY <1>1, <1>2, MaxFacts
<1>4. m # 0 => s[m] \notin cs
  BY <1>3
<1>5. ASSUME NEW i \in 1 .. Len(s), m < i, s[i] \notin cs
      PROVE  FALSE
  <2>1. i \in X
    BY <1>1, <1>5
  <2>2. i <= m
    BY <1>3, <2>1
  <2> QED
    BY <1>3, <1>5, <2>2
<1>6. TrimEnd(s, cs) = SubSeq(s, 1, m)
  BY DEF TrimEnd
<1> HIDE DEF m
<1>7. /\ SubSeq(s, 1, m) \in Seq(C) /\ Len(SubSeq(s, 1, m)) = m
      /\ \A i \in 1 .. m : SubSeq(s, 1, m)[i] = s[i]
  <2>1. 1 <= m + 1 /\ m <= Len(s) /\ m \in Int
    BY <1>1, <1>3
  <2>2. \A i \in 1 .. m : s[i] \in C
    BY <1>1, <1>3, ElementOfSeq
  <2>3. /\ SubSeq(s, 1, m) \in Seq(C)
        /\ Len(SubSeq(s, 1, m)) = IF 1 <= m THEN m - 1 + 1 ELSE 0
        /\ \A i \in 1 .. m - 1 + 1 : SubSeq(s, 1, m)[i] = s[1 + i - 1]
    BY <2>1, <2>2, SubSeqProperties
  <2>4. Len(SubSeq(s, 1, m)) = m
    BY <1>1, <1>3, <2>3
  <2>5. ASSUME NEW i \in 1 .. m
        PROVE  SubSeq(s, 1, m)[i] = s[i]
    <3>1. i \in 1 .. m - 1 + 1 /\ 1 + i - 1 = i
      BY <1>3
    <3> QED
      BY <2>3, <3>1
  <2> QED
    BY <2>3, <2>4, <2>5
<1> QED
  BY <1>3, <1>4, <1>5, <1>6, <1>7

\* The first position from `from` on that is not skipped.
LEMMA SkipFacts ==
  ASSUME NEW C, NEW s \in Seq(C), NEW cs, NEW from \in Nat \ {0}
  PROVE  /\ Skip(s, cs, from) \in Nat /\ Skip(s, cs, from) >= from
         /\ \A i \in from .. Len(s) : i < Skip(s, cs, from) => s[i] \in cs
         /\ Skip(s, cs, from) <= Len(s) => s[Skip(s, cs, from)] \notin cs
         /\ Skip(s, cs, from) <= Len(s) \/ Skip(s, cs, from) = IF from <= Len(s) THEN Len(s) + 1 ELSE from
<1> DEFINE e == Max({from, Len(s) + 1})
           Y == {i \in from .. Len(s) : s[i] \notin cs}
           X == Y \cup {e}
           m == Min(X)
<1>1. Len(s) \in Nat
  BY LenProperties
<1>2. e = IF from <= Len(s) THEN Len(s) + 1 ELSE from
  <2>1. from \in Int /\ Len(s) + 1 \in Int
    BY <1>1
  <2>2. e = IF from >= Len(s) + 1 THEN from ELSE Len(s) + 1
    BY <2>1, OfTwo
  <2> HIDE DEF e
  <2> QED
    BY <1>1, <2>2
<1> HIDE DEF e
<1>3. X \in SUBSET Nat /\ X # {}
  BY <1>1, <1>2
<1>4. m \in X /\ m \in Nat /\ \A x \in X : m <= x
  <2> HIDE DEF X
  <2> QED
    BY <1>3, MinFacts
<1>5. m = Skip(s, cs, from)
  BY DEF Skip, e
<1> HIDE DEF m
<1>6. m >= from
  BY <1>1, <1>2, <1>4
<1>7. ASSUME NEW i \in from .. Len(s), i < m
      PROVE  s[i] \in cs
  BY <1>4, <1>7
<1>8. m <= Len(s) => s[m] \notin cs
  BY <1>1, <1>2, <1>4
<1>9. m <= Len(s) \/ m = e
  BY <1>1, <1>4
<1> QED
  BY <1>2, <1>4, <1>5, <1>6, <1>7, <1>8, <1>9

-----------------------------------------------------------------------------
(* Settings.                                                               *)

LEMMA ProductFacts ==
  ASSUME NEW a \in Nat \ {0}, NEW b \in Nat \ {0}
  PROVE  a * b \in Nat /\ a * b >= 1
<1>1. a \in Nat /\ b \in Nat /\ a >= 1 /\ b >= 1
  OBVIOUS
<1> QED
  BY <1>1, Z3

LEMMA LimitFacts == MaxTimeout \in Nat /\ MaxSlots \in Nat
BY SMT DEF MaxTimeout, MaxSlots

LEMMA OrFacts ==
  ASSUME NEW v, NEW d \in Nat, Numbers({v})
  PROVE  Or(v, d) \in Nat
BY DEF Or, Numbers, Absent

LEMMA ContainsFacts ==
  ASSUME NEW s \in Seq(STRING), NEW x, ToSet(s) \subseteq {x}
  PROVE  Contains(s, x) <=> s # <<>>
<1>1. Len(s) \in Nat /\ DOMAIN s = 1 .. Len(s)
  BY LenProperties
<1>2. Contains(s, x) <=> x \in ToSet(s)
  BY <1>1 DEF Contains, ToSet
<1>3. s = <<>> <=> ToSet(s) = {}
  BY EmptyToSet
<1> QED
  BY <1>2, <1>3

\* What the settings accept, the server can run with.
LEMMA StartsUsable ==
  ASSUME NEW c, ConfigInput(c), Starts(c)
  PROVE  ConfigIsUsable(c)
<1> DEFINE secs == ControlTimeout(c.supervisor)
           slots(table) == IF table = <<>> THEN 0 ELSE Or(table[1].pool.processes, Parallelism)
<1>1. Resolves(c)
  BY DEF Starts
<1>2. DrainGrace(secs) \in 1 .. 2 * secs - 1
  <2>1. secs \in Nat
    BY OrFacts DEF ControlTimeout, ConfigInput
  <2>2. secs # 0
    BY <1>1 DEF Resolves, NonzeroTimeout
  <2> HIDE DEF secs
  <2>3. Min({10, secs}) = IF 10 <= secs THEN 10 ELSE secs
    BY <2>1, OfTwo
  <2> QED
    BY <2>1, <2>2, <2>3 DEF DrainGrace
<1> HIDE DEF secs
<1>3. slots(c.http) + slots(c.grpc) \in 1 .. MaxSlots
  <2>1. c.http # <<>> => slots(c.http) \in 1 .. MaxSlots
    BY <1>1 DEF Resolves, HttpAccepts, PoolAccepts
  <2>2. c.grpc # <<>> => slots(c.grpc) \in 1 .. MaxSlots
    BY <1>1 DEF Resolves, GrpcAccepts, PoolAccepts
  <2>3. c.http = <<>> => slots(c.http) = 0
    OBVIOUS
  <2>4. c.grpc = <<>> => slots(c.grpc) = 0
    OBVIOUS
  <2>5. slots(c.http) + slots(c.grpc) <= MaxSlots
    BY DEF Starts, Threads, Pool
  <2>6. c.http # <<>> \/ c.grpc # <<>>
    BY <1>1 DEF Resolves
  <2> DEFINE a == slots(c.http)
             b == slots(c.grpc)
  <2>7. /\ a \in 1 .. MaxSlots \/ a = 0
        /\ b \in 1 .. MaxSlots \/ b = 0
        /\ a \in 1 .. MaxSlots \/ b \in 1 .. MaxSlots
        /\ a + b <= MaxSlots
    BY <2>1, <2>2, <2>3, <2>4, <2>5, <2>6
  <2> HIDE DEF a, b
  <2>8. a + b \in 1 .. MaxSlots
    BY <2>7, LimitFacts
  <2> QED
    BY <2>8 DEF a, b
<1>4. ASSUME c.http # <<>>
      PROVE  LET http == Http(c.http[1])
             IN /\ http.max_body_size \in 1 .. UsizeMax
                /\ http.write_timeout \in 1 .. MaxTimeout
                /\ http.static <=> Contains(c.http[1].middleware, "static")
                /\ c.http[1].uploads # <<>> => http.uploads /\ ~ http.superglobals
  <2> HIDE DEF slots
  <2> DEFINE h == c.http[1]
  <2>1. HttpAccepts(h)
    BY <1>1, <1>4 DEF Resolves
  <2>2. /\ Numbers({h.max_body_size_mb, h.write_timeout_secs, h.pool.processes})
        /\ h.middleware \in Seq(STRING)
    BY <1>4 DEF ConfigInput
  <2> HIDE DEF h
  <2>3. Http(h).max_body_size \in 1 .. UsizeMax
    <3> DEFINE n == Or(h.max_body_size_mb, 8)
    <3>1. n \in Nat
      BY <2>2, OrFacts DEF Numbers
    <3>2. n # 0 /\ n * Mega <= UsizeMax
      BY <2>1 DEF HttpAccepts, Size
    <3>3. Http(h).max_body_size = n * Mega
      BY DEF Http
    <3> HIDE DEF n
    <3>4. Mega \in Nat \ {0} /\ UsizeMax \in Nat
      BY SettingsConstants
    <3>5. n * Mega \in Nat /\ n * Mega >= 1
      BY <3>1, <3>2, <3>4, ProductFacts
    <3> DEFINE p == n * Mega
    <3> HIDE DEF p
    <3>6. p \in Nat /\ p >= 1 /\ p <= UsizeMax /\ Http(h).max_body_size = p
      BY <3>2, <3>3, <3>5 DEF p
    <3> QED
      BY <3>4, <3>6
  <2>4. Http(h).write_timeout \in 1 .. MaxTimeout
    <3> DEFINE n == Or(h.write_timeout_secs, 30)
    <3>1. n \in Nat
      BY <2>2, OrFacts DEF Numbers
    <3>2. n # 0 /\ n <= MaxTimeout
      BY <2>1 DEF HttpAccepts, NonzeroTimeout
    <3>3. Http(h).write_timeout = n
      BY DEF Http
    <3> HIDE DEF n
    <3>4. n \in 1 .. MaxTimeout
      BY <3>1, <3>2, LimitFacts
    <3> QED
      BY <3>3, <3>4
  <2>5. Http(h).static <=> Contains(h.middleware, "static")
    <3>1. /\ ToSet(h.middleware) \subseteq {"static"}
          /\ (h.static = <<>>) <=> (h.middleware = <<>>)
      BY <2>1 DEF HttpAccepts, MiddlewareAccepts
    <3>2. Http(h).static = (h.static # <<>>)
      BY DEF Http
    <3>3. Contains(h.middleware, "static") <=> h.middleware # <<>>
      BY <2>2, <3>1, ContainsFacts
    <3> QED
      BY <3>1, <3>2, <3>3
  <2>6. h.uploads # <<>> => Http(h).uploads /\ ~ Http(h).superglobals
    <3>1. h.uploads # <<>> => Pool(h.pool).mode = "dispatcher"
      BY <2>1 DEF HttpAccepts
    <3>2. /\ Http(h).uploads = (Pool(h.pool).mode = "dispatcher")
          /\ Http(h).superglobals = (Pool(h.pool).mode # "dispatcher")
      BY DEF Http
    <3> QED
      BY <3>1, <3>2
  <2> QED
    BY <2>3, <2>4, <2>5, <2>6 DEF h
<1>5. ASSUME c.grpc # <<>>
      PROVE  LET grpc == c.grpc[1]
             IN /\ grpc.max_timeout_secs # Absent => grpc.default_timeout_secs <= grpc.max_timeout_secs
                /\ Given(grpc.tokens_file) <=> Contains(grpc.interceptors, "auth")
  <2> DEFINE g == c.grpc[1]
  <2>1. GrpcAccepts(g)
    BY <1>1, <1>5 DEF Resolves
  <2>2. /\ Numbers({g.default_timeout_secs, g.max_timeout_secs, g.pool.processes})
        /\ g.interceptors \in Seq(STRING)
    BY <1>5 DEF ConfigInput
  <2> HIDE DEF g
  <2>3. g.max_timeout_secs # Absent => g.default_timeout_secs <= g.max_timeout_secs
    <3>1. Absent \in {g.default_timeout_secs, g.max_timeout_secs} \/ g.default_timeout_secs <= g.max_timeout_secs
      BY <2>1 DEF GrpcAccepts, Deadlines
    <3>2. g.default_timeout_secs \in Nat \cup {Absent} /\ g.max_timeout_secs \in Nat \cup {Absent}
      BY <2>2 DEF Numbers
    <3> QED
      BY <3>1, <3>2 DEF Absent
  <2>4. Given(g.tokens_file) <=> Contains(g.interceptors, "auth")
    <3>1. /\ ToSet(g.interceptors) \subseteq {"auth"}
          /\ (g.tokens_file = "absent") <=> (g.interceptors = <<>>)
          /\ g.tokens_file # ""
      BY <2>1 DEF GrpcAccepts, InterceptorsAccept
    <3>2. Contains(g.interceptors, "auth") <=> g.interceptors # <<>>
      BY <2>2, <3>1, ContainsFacts
    <3> QED
      BY <3>1, <3>2 DEF Given
  <2> QED
    BY <2>3, <2>4 DEF g
<1> QED
  BY <1>2, <1>3, <1>4, <1>5 DEF ConfigIsUsable, secs

-----------------------------------------------------------------------------
(* Tokens files.                                                           *)

LEMMA TwoIsSeq ==
  ASSUME NEW S, NEW x \in S, NEW y \in S
  PROVE  <<x, y>> \in Seq(S) /\ Len(<<x, y>>) = 2 /\ <<x, y>>[1] = x /\ <<x, y>>[2] = y
OBVIOUS

LEMMA AppendToFew ==
  ASSUME NEW S, NEW x \in S, NEW y \in S
  PROVE  Append(<<>>, x) = <<x>> /\ Append(<<x>>, y) = <<x, y>>
<1>1. <<>> \in Seq(S) /\ Len(<<>>) = 0
  BY EmptySeq
<1>2. <<x>> \in Seq(S) /\ Len(<<x>>) = 1 /\ <<x>>[1] = x
  BY OneIsSeq
<1>3. <<x, y>> \in Seq(S) /\ Len(<<x, y>>) = 2 /\ <<x, y>>[1] = x /\ <<x, y>>[2] = y
  BY TwoIsSeq
<1> DEFINE a == <<x>>
           b == <<x, y>>
           e == <<>>
<1> HIDE DEF a, b, e
<1>4. e \in Seq(S) /\ Len(e) = 0 /\ a \in Seq(S) /\ Len(a) = 1 /\ a[1] = x
  BY <1>1, <1>2 DEF a, e
<1>5. b \in Seq(S) /\ Len(b) = 2 /\ b[1] = x /\ b[2] = y
  BY <1>3 DEF b
<1>6. Append(e, x) = a
  <2>1. Append(e, x) \in Seq(S) /\ Len(Append(e, x)) = Len(e) + 1 /\ Append(e, x)[Len(e) + 1] = x
    BY <1>4, AppendProperties
  <2>2. Append(e, x) \in Seq(S) /\ Len(Append(e, x)) = 1 /\ Append(e, x)[1] = x
    <3>1. Len(e) + 1 = 1
      BY <1>4
    <3> QED
      BY <2>1, <3>1
  <2>3. \A i \in 1 .. 1 : Append(e, x)[i] = a[i]
    BY <1>4, <2>2
  <2> QED
    BY <1>4, <2>2, <2>3, SeqEqual
<1>7. Append(a, y) = b
  <2>1. /\ Append(a, y) \in Seq(S) /\ Len(Append(a, y)) = Len(a) + 1 /\ Append(a, y)[Len(a) + 1] = y
        /\ \A i \in 1 .. Len(a) : Append(a, y)[i] = a[i]
    <3>1. a \in Seq(S)
      BY <1>4
    <3> QED
      BY <3>1, AppendProperties
  <2>2. /\ Append(a, y) \in Seq(S) /\ Len(Append(a, y)) = 2 /\ Append(a, y)[2] = y
        /\ Append(a, y)[1] = a[1]
    <3>1. Len(a) + 1 = 2 /\ 1 \in 1 .. Len(a)
      BY <1>4
    <3> QED
      BY <2>1, <3>1
  <2>3. \A i \in 1 .. 2 : Append(a, y)[i] = b[i]
    BY <1>4, <1>5, <2>2
  <2> QED
    BY <1>5, <2>2, <2>3, SeqEqual
<1> QED
  BY <1>6, <1>7 DEF a, b, e

\* A map of one line, and of two lines of one name.
LEMMA ValuesOfFew ==
  ASSUME NEW name, NEW v, NEW w
  PROVE  /\ ValuesOf(<<[name |-> name, value |-> v]>>, name) = <<v>>
         /\ Len(ValuesOf(<<[name |-> name, value |-> v], [name |-> name, value |-> w]>>, name)) = 2
<1> DEFINE l == [name |-> name, value |-> v]
           k == [name |-> name, value |-> w]
           L == {l, k}
           V == {m.value : m \in L}
<1>1. l.name = name /\ l.value = v /\ k.name = name /\ k.value = w /\ l \in L /\ k \in L /\ v \in V /\ w \in V
  OBVIOUS
<1> HIDE DEF l, k, L, V
<1>2. <<>> \in Seq(L) /\ <<>> \in Seq(V) /\ ValuesOf(<<>>, name) = <<>>
  BY EmptySeq, ValuesOfNone
<1>3. Append(<<>>, l) = <<l>> /\ Append(<<l>>, k) = <<l, k>> /\ Append(<<>>, v) = <<v>> /\ Len(Append(<<v>>, w)) = 2
  <2>1. Append(<<>>, l) = <<l>> /\ Append(<<l>>, k) = <<l, k>>
    BY <1>1, AppendToFew
  <2>2. Append(<<>>, v) = <<v>> /\ Append(<<v>>, w) = <<v, w>> /\ Len(<<v, w>>) = 2
    BY <1>1, AppendToFew, TwoIsSeq
  <2> QED
    BY <2>1, <2>2
<1>4. ValuesOf(<<l>>, name) = <<v>>
  <2>1. ValuesOf(Append(<<>>, l), name) =
          IF l.name = name THEN Append(ValuesOf(<<>>, name), l.value) ELSE ValuesOf(<<>>, name)
    BY <1>1, <1>2, ValuesAppend
  <2> QED
    BY <1>1, <1>2, <1>3, <2>1
<1>5. ValuesOf(<<l, k>>, name) = Append(<<v>>, w)
  <2> DEFINE one == <<l>>
             two == <<l, k>>
             val == <<v>>
  <2>1. one \in Seq(L) /\ Append(one, k) = two /\ ValuesOf(one, name) = val
    BY <1>1, <1>3, <1>4, OneIsSeq
  <2> HIDE DEF one, two, val
  <2>2. ValuesOf(Append(one, k), name) =
          IF k.name = name THEN Append(ValuesOf(one, name), k.value) ELSE ValuesOf(one, name)
    <3>1. one \in Seq(L) /\ k \in L
      BY <1>1, <2>1
    <3> QED
      BY <3>1, ValuesAppend
  <2>3. ValuesOf(two, name) = Append(val, w)
    BY <1>1, <2>1, <2>2
  <2> QED
    BY <2>3 DEF two, val
<1> QED
  BY <1>3, <1>4, <1>5 DEF l, k

\* The scheme is taken off a value whose rest begins with no space.
LEMMA BearerOf ==
  ASSUME NEW C, {"Bearer", "sp"} \subseteq C, NEW t \in Seq(C), t # <<>>, t[1] # "sp"
  PROVE  BearerToken(<<"Bearer", "sp">> \o t) = t
<1> DEFINE v == <<"Bearer", "sp">> \o t
           r == Skip(v, {"sp"}, 2)
<1>1. /\ Len(t) \in Nat /\ Len(t) # 0 /\ DOMAIN t = 1 .. Len(t)
  BY EmptySeq, LenProperties
<1>2. /\ <<"Bearer", "sp">> \in Seq(C) /\ Len(<<"Bearer", "sp">>) = 2
      /\ <<"Bearer", "sp">>[1] = "Bearer" /\ <<"Bearer", "sp">>[2] = "sp"
  BY TwoIsSeq
<1> DEFINE b == <<"Bearer", "sp">>
<1> HIDE DEF b
<1>3. /\ v \in Seq(C) /\ Len(v) = 2 + Len(t)
      /\ \A i \in 1 .. 2 + Len(t) : v[i] = IF i <= 2 THEN b[i] ELSE t[i - 2]
  <2>1. /\ b \o t \in Seq(C) /\ Len(b \o t) = Len(b) + Len(t)
        /\ \A i \in 1 .. Len(b) + Len(t) : (b \o t)[i] = IF i <= Len(b) THEN b[i] ELSE t[i - Len(b)]
    BY <1>2, ConcatProperties DEF b
  <2>2. Len(b) = 2
    BY <1>2 DEF b
  <2>3. v = b \o t
    BY DEF b
  <2> QED
    BY <2>1, <2>2, <2>3
<1> HIDE DEF v
<1>4. v[1] = "Bearer" /\ v[2] = "sp" /\ v[3] = t[1]
  <2>1. 1 \in 1 .. 2 + Len(t) /\ 2 \in 1 .. 2 + Len(t) /\ 3 \in 1 .. 2 + Len(t) /\ 3 - 2 = 1
    BY <1>1
  <2>2. v[1] = b[1] /\ v[2] = b[2] /\ v[3] = t[1]
    BY <1>3, <2>1
  <2> QED
    BY <1>2, <2>2 DEF b
<1>5. r = 3
  <2>1. /\ r \in Nat /\ r >= 2
        /\ \A i \in 2 .. Len(v) : i < r => v[i] \in {"sp"}
        /\ r <= Len(v) => v[r] \notin {"sp"}
        /\ r <= Len(v) \/ r = IF 2 <= Len(v) THEN Len(v) + 1 ELSE 2
    <3>1. v \in Seq(C) /\ 2 \in Nat \ {0}
      BY <1>3
    <3> QED
      BY <3>1, SkipFacts
  <2> HIDE DEF r
  <2>2. r # 2
    <3> SUFFICES ASSUME r = 2
                 PROVE  FALSE
      OBVIOUS
    <3>1. 2 <= Len(v)
      BY <1>1, <1>3
    <3>2. v[r] = "sp"
      BY <1>4
    <3>3. v[r] \notin {"sp"}
      BY <2>1, <3>1
    <3> QED
      BY <3>2, <3>3
  <2>3. ~ (3 < r)
    <3>1. 3 \in 2 .. Len(v)
      BY <1>1, <1>3
    <3>2. v[3] # "sp"
      BY <1>4
    <3> QED
      BY <2>1, <3>1, <3>2
  <2> QED
    BY <2>1, <2>2, <2>3
<1>6. At(v, 1) = "Bearer"
  <2>1. 1 \in DOMAIN v
    BY <1>1, <1>3, LenProperties
  <2> QED
    BY <1>4, <2>1 DEF At
<1>7. SubSeq(v, 3, Len(v)) = t
  <2>1. \A i \in 3 .. Len(v) : v[i] \in C
    BY <1>1, <1>3, ElementOfSeq
  <2> DEFINE n == Len(v)
  <2>2. n \in Nat /\ n = 2 + Len(t) /\ 3 \in Int /\ 3 <= n
    BY <1>1, <1>3
  <2> HIDE DEF n
  <2>3. /\ SubSeq(v, 3, n) \in Seq(C)
        /\ Len(SubSeq(v, 3, n)) = IF 3 <= n THEN n - 3 + 1 ELSE 0
        /\ \A i \in 1 .. n - 3 + 1 : SubSeq(v, 3, n)[i] = v[3 + i - 1]
    <3>1. n \in Int /\ \A i \in 3 .. n : v[i] \in C
      BY <2>1, <2>2 DEF n
    <3> QED
      BY <2>2, <3>1, SubSeqProperties
  <2>4. Len(SubSeq(v, 3, n)) = Len(t)
    BY <1>1, <2>2, <2>3
  <2>5. ASSUME NEW i \in 1 .. Len(t)
        PROVE  SubSeq(v, 3, n)[i] = t[i]
    <3>1. i \in 1 .. n - 3 + 1 /\ 3 + i - 1 = i + 2 /\ i + 2 \in 1 .. 2 + Len(t) /\ i + 2 - 2 = i /\ ~ (i + 2 <= 2)
      BY <1>1, <2>2
    <3>2. SubSeq(v, 3, n)[i] = v[i + 2]
      BY <2>3, <3>1
    <3>3. ASSUME NEW k, k = i + 2
          PROVE  v[k] = t[i]
      <4>1. k \in 1 .. 2 + Len(t) /\ ~ (k <= 2) /\ k - 2 = i
        BY <3>1, <3>3
      <4> QED
        BY <1>3, <4>1
    <3> QED
      BY <3>2, <3>3
  <2>6. SubSeq(v, 3, n) = t
    BY <2>3, <2>4, <2>5, SeqEqual
  <2> QED
    BY <2>6 DEF n
<1> QED
  BY <1>5, <1>6, <1>7 DEF BearerToken, v

\* A token begins with a letter and holds no space.
LEMMA B64Facts ==
  ASSUME NEW C, NEW t \in Seq(C), IsB64Token(t)
  PROVE  t # <<>> /\ t[1] # "sp" /\ \A i \in DOMAIN t : t[i] # "sp"
<1> DEFINE body == TrimEnd(t, {"="})
<1>1. PICK m \in 0 .. Len(t) :
           /\ body \in Seq(C) /\ Len(body) = m
           /\ \A i \in 1 .. m : body[i] = t[i]
           /\ m # 0 => t[m] \notin {"="}
           /\ \A i \in 1 .. Len(t) : m < i => t[i] \in {"="}
  BY TrimEndFacts
<1>2. body # <<>> /\ ToSet(body) \cap {"=", "sp", "#"} = {}
  BY DEF IsB64Token
<1> HIDE DEF body
<1>3. m # 0 /\ DOMAIN body = 1 .. m /\ DOMAIN t = 1 .. Len(t) /\ Len(t) \in Nat
  BY <1>1, <1>2, EmptySeq, LenProperties
<1>4. ASSUME NEW i \in DOMAIN t
      PROVE  t[i] # "sp"
  <2>1. CASE i <= m
    <3>1. i \in 1 .. m
      BY <1>3, <2>1
    <3>2. t[i] \in ToSet(body)
      BY <1>1, <1>3, <3>1 DEF ToSet
    <3> QED
      BY <1>2, <3>2
  <2>2. CASE ~ (i <= m)
    BY <1>1, <1>3, <2>2
  <2> QED
    BY <2>1, <2>2
<1>5. 1 \in DOMAIN t
  BY <1>1, <1>3
<1>6. t # <<>>
  BY <1>5, EmptySeq, LenProperties
<1> QED
  BY <1>4, <1>5, <1>6

\* A token without its scheme is none.
LEMMA BareToken ==
  ASSUME NEW C, NEW t \in Seq(C), \A i \in DOMAIN t : t[i] # "sp"
  PROVE  BearerToken(t) = None
<1> DEFINE r == Skip(t, {"sp"}, 2)
<1>1. /\ Len(t) \in Nat /\ DOMAIN t = 1 .. Len(t)
  BY LenProperties
<1>2. /\ r \in Nat /\ r >= 2
      /\ \A i \in 2 .. Len(t) : i < r => t[i] \in {"sp"}
      /\ r <= Len(t) \/ r = IF 2 <= Len(t) THEN Len(t) + 1 ELSE 2
  BY SkipFacts
<1> HIDE DEF r
<1>3. ~ (r > 2)
  <2> SUFFICES ASSUME r > 2
               PROVE  FALSE
    OBVIOUS
  <2>1. 2 \in 2 .. Len(t) /\ 2 < r
    BY <1>1, <1>2
  <2>2. t[2] = "sp" /\ 2 \in DOMAIN t
    BY <1>1, <1>2, <2>1
  <2> QED
    BY <2>2
<1> QED
  BY <1>3 DEF BearerToken, r

\* A trimmed text is a text, of the same characters.
LEMMA SubSeqFacts ==
  ASSUME NEW C, NEW s \in Seq(C), NEW a \in Nat \ {0}, NEW b \in Nat, b <= Len(s)
  PROVE  /\ SubSeq(s, a, b) \in Seq(C)
         /\ Len(SubSeq(s, a, b)) = IF a <= b THEN b - a + 1 ELSE 0
         /\ \A i \in 1 .. b - a + 1 : SubSeq(s, a, b)[i] = s[a + i - 1]
         /\ ToSet(SubSeq(s, a, b)) \subseteq ToSet(s)
<1>1. Len(s) \in Nat /\ DOMAIN s = 1 .. Len(s)
  BY LenProperties
<1>2. \A i \in a .. b : s[i] \in C /\ i \in DOMAIN s
  BY <1>1, ElementOfSeq
<1>3. a \in Int /\ b \in Int
  OBVIOUS
<1>4. /\ SubSeq(s, a, b) \in Seq(C)
      /\ Len(SubSeq(s, a, b)) = IF a <= b THEN b - a + 1 ELSE 0
      /\ \A i \in 1 .. b - a + 1 : SubSeq(s, a, b)[i] = s[a + i - 1]
  BY <1>2, <1>3, SubSeqProperties
<1> DEFINE u == SubSeq(s, a, b)
<1>5. u \in Seq(C) /\ Len(u) = (IF a <= b THEN b - a + 1 ELSE 0) /\ \A i \in 1 .. b - a + 1 : u[i] = s[a + i - 1]
  BY <1>4
<1> HIDE DEF u
<1>6. DOMAIN u = 1 .. (IF a <= b THEN b - a + 1 ELSE 0)
  BY <1>5, LenProperties
<1>7. ASSUME NEW i \in DOMAIN u
      PROVE  u[i] \in ToSet(s)
  <2>1. i \in 1 .. b - a + 1 /\ a + i - 1 \in a .. b
    BY <1>6
  <2>2. u[i] = s[a + i - 1] /\ a + i - 1 \in DOMAIN s
    BY <1>2, <1>5, <2>1
  <2> QED
    BY <2>2 DEF ToSet
<1>8. ToSet(u) \subseteq ToSet(s)
  BY <1>7 DEF ToSet
<1> QED
  BY <1>4, <1>8 DEF u

LEMMA TrimType ==
  ASSUME NEW C, NEW s \in Seq(C), NEW cs
  PROVE  Trim(s, cs) \in Seq(C) /\ ToSet(Trim(s, cs)) \subseteq ToSet(s)
<1> DEFINE t == TrimEnd(s, cs)
           r == Skip(t, cs, 1)
<1>1. PICK m \in 0 .. Len(s) : t = SubSeq(s, 1, m) /\ t \in Seq(C) /\ Len(t) = m
  BY TrimEndFacts
<1>2. Len(s) \in Nat /\ m \in Nat /\ m <= Len(s) /\ 1 \in Nat \ {0}
  BY LenProperties
<1>3. ToSet(t) \subseteq ToSet(s)
  <2> HIDE DEF t
  <2>1. ToSet(SubSeq(s, 1, m)) \subseteq ToSet(s)
    BY <1>2, SubSeqFacts
  <2> QED
    BY <1>1, <2>1
<1> HIDE DEF t
<1>4. r \in Nat /\ r >= 1
  <2>1. t \in Seq(C)
    BY <1>1
  <2>2. 1 \in Nat \ {0}
    OBVIOUS
  <2> QED
    BY <2>1, <2>2, SkipFacts
<1> HIDE DEF r
<1>5. r \in Nat \ {0} /\ Len(t) \in Nat /\ Len(t) <= Len(t)
  BY <1>1, <1>2, <1>4
<1>6. SubSeq(t, r, Len(t)) \in Seq(C) /\ ToSet(SubSeq(t, r, Len(t))) \subseteq ToSet(t)
  BY <1>1, <1>5, SubSeqFacts
<1> QED
  BY <1>3, <1>6 DEF Trim, t, r

\* A sequence over a set is one over a larger set.
LEMMA SeqWider ==
  ASSUME NEW C, NEW D, C \subseteq D, NEW s \in Seq(C)
  PROVE  s \in Seq(D)
<1>1. DOMAIN s = 1 .. Len(s) /\ Len(s) \in Nat /\ \A i \in 1 .. Len(s) : s[i] \in D
  BY LenProperties, ElementOfSeq
<1>2. s = [i \in 1 .. Len(s) |-> s[i]]
  BY LenProperties
<1> QED
  BY <1>1, <1>2, MapType

LEMMA TokensUsable ==
  ASSUME NEW lines, TokensInput(lines)
  PROVE  TokensAreUsable(lines)
<1> DEFINE C == STRING \cup {"Bearer", "sp", "none", "other"}
           tokens == ParseTokens(lines)
           trimmed == [i \in DOMAIN lines |-> Trim(lines[i], {"sp"})]
           places == {i \in DOMAIN trimmed : trimmed[i] # <<>> /\ trimmed[i][1] # "#"}
           K == Kept(trimmed, places)
           header(v) == [name |-> <<"authorization">>, value |-> v]
           bearer(t) == header(<<"Bearer", "sp">> \o t)
<1>1. DOMAIN lines = 1 .. Len(lines) /\ Len(lines) \in Nat /\ \A i \in DOMAIN lines : lines[i] \in Seq(C)
  <2>1. lines \in Seq(Seq(STRING))
    BY DEF TokensInput
  <2>2. DOMAIN lines = 1 .. Len(lines) /\ Len(lines) \in Nat /\ \A i \in 1 .. Len(lines) : lines[i] \in Seq(STRING)
    BY <2>1, LenProperties, ElementOfSeq
  <2> QED
    BY <2>2, SeqWider
<1>2. \A i \in DOMAIN lines : /\ Trim(lines[i], {"sp"}) \in Seq(C)
                              /\ ToSet(Trim(lines[i], {"sp"})) \subseteq ToSet(lines[i])
  BY <1>1, TrimType
<1>3. trimmed \in Seq(Seq(C)) /\ DOMAIN trimmed = DOMAIN lines
  <2>1. DOMAIN trimmed = 1 .. Len(lines)
    BY <1>1
  <2>2. trimmed = [i \in 1 .. Len(lines) |-> trimmed[i]]
    BY <1>1
  <2>3. \A i \in 1 .. Len(lines) : trimmed[i] \in Seq(C)
    BY <1>1, <1>2
  <2> HIDE DEF trimmed
  <2> QED
    BY <1>1, <2>1, <2>2, <2>3, MapType
<1>4. ASSUME NEW t \in ToSet(K)
      PROVE  t \in Seq(C) /\ ToSet(t) \cap {"none", "other"} = {}
  <2>1. ToSet(K) = {trimmed[i] : i \in places \cap DOMAIN trimmed}
    <3> HIDE DEF trimmed, places
    <3> QED
      BY <1>3, ToSetOfKept
  <2>2. PICK i \in DOMAIN lines : t = Trim(lines[i], {"sp"})
    BY <1>3, <2>1
  <2>3. ToSet(lines[i]) \cap {"none", "other"} = {}
    <3>1. lines[i] \in ToSet(lines)
      BY DEF ToSet
    <3> QED
      BY <3>1 DEF TokensInput
  <2> QED
    BY <1>2, <2>2, <2>3
<1>5. tokens = IF K = <<>> \/ \E t \in ToSet(K) : ~ IsB64Token(t) THEN None ELSE K
  BY DEF ParseTokens
<1>0. {"Bearer", "sp", "none", "other"} \subseteq C
  OBVIOUS
<1> HIDE DEF tokens, trimmed, places, K, C
<1>6. ASSUME tokens # None, NEW t \in ToSet(tokens)
      PROVE  /\ LetIn(tokens, "app", <<bearer(t)>>)
             /\ ~ LetIn(tokens, "app", <<bearer(t), bearer(t)>>)
             /\ ~ LetIn(tokens, "app", <<header(t)>>)
             /\ ~ LetIn(tokens, "app", <<bearer(t \o <<"other">>)>>)
  <2>1. tokens = K /\ t \in Seq(C) /\ IsB64Token(t)
    BY <1>4, <1>5, <1>6
  <2>2. t # <<>> /\ t[1] # "sp" /\ \A i \in DOMAIN t : t[i] # "sp"
    BY <2>1, B64Facts
  <2>3. \A u : u \in ToSet(tokens) => u \in Seq(C) /\ ToSet(u) \cap {"none", "other"} = {}
    BY <1>4, <2>1
  <2>4. None \notin ToSet(tokens)
    <3>1. 1 \in DOMAIN None /\ None[1] = "none"
      <4>1. None \in Seq(C) /\ Len(None) = 1 /\ None[1] = "none"
        BY <1>0, OneIsSeq DEF None
      <4> QED
        BY <4>1, LenProperties
    <3>2. "none" \in ToSet(None)
      BY <3>1 DEF ToSet
    <3> QED
      BY <2>3, <3>2
  <2> DEFINE o == t \o <<"other">>
  <2>5. o \in Seq(C) /\ o # <<>> /\ o[1] # "sp" /\ "other" \in ToSet(o)
    <3>1. <<"other">> \in Seq(C) /\ Len(<<"other">>) = 1 /\ <<"other">>[1] = "other"
      BY <1>0, OneIsSeq
    <3> DEFINE e == <<"other">>
    <3> HIDE DEF e
    <3>2. /\ t \o e \in Seq(C) /\ Len(t \o e) = Len(t) + Len(e)
          /\ \A i \in 1 .. Len(t) + Len(e) : (t \o e)[i] = IF i <= Len(t) THEN t[i] ELSE e[i - Len(t)]
      BY <2>1, <3>1, ConcatProperties DEF e
    <3>3. ToSet(t \o e) = ToSet(t) \cup ToSet(e)
      BY <2>1, <3>1, ToSetConcat DEF e
    <3>4. "other" \in ToSet(e)
      <4>1. 1 \in DOMAIN e
        BY <3>1, LenProperties DEF e
      <4>2. e[1] = "other"
        BY <3>1 DEF e
      <4> QED
        BY <4>1, <4>2 DEF ToSet
    <3>5. Len(t) \in Nat /\ Len(t) # 0 /\ Len(e) = 1
      BY <2>1, <2>2, <3>1, EmptySeq, LenProperties DEF e
    <3>6. 1 \in 1 .. Len(t) + Len(e) /\ 1 <= Len(t) /\ Len(t \o e) # 0
      BY <3>2, <3>5
    <3>7. (t \o e)[1] = t[1] /\ t \o e # <<>>
      BY <3>2, <3>6, EmptySeq
    <3> QED
      BY <2>2, <3>2, <3>3, <3>4, <3>7 DEF e
  <2> HIDE DEF o
  <2>6. /\ BearerToken(<<"Bearer", "sp">> \o t) = t
        /\ BearerToken(<<"Bearer", "sp">> \o o) = o
        /\ BearerToken(t) = None
    BY <1>0, <2>1, <2>2, <2>5, BearerOf, BareToken
  <2>7. o \notin ToSet(tokens)
    BY <2>3, <2>5
  <2>8. \A v : ValuesOf(<<header(v)>>, <<"authorization">>) = <<v>>
    BY ValuesOfFew
  <2>9. \A v : Len(ValuesOf(<<header(v), header(v)>>, <<"authorization">>)) = 2
    BY ValuesOfFew
  <2>10. \A v : LetIn(tokens, "app", <<header(v)>>) <=> BearerToken(v) \in ToSet(tokens)
    <3> HIDE DEF header
    <3>1. \A v : Len(<<v>>) = 1 /\ <<v>>[1] = v
      OBVIOUS
    <3>2. "app" # "health"
      OBVIOUS
    <3> QED
      BY <2>8, <3>1, <3>2 DEF LetIn
  <2>11. \A v : ~ LetIn(tokens, "app", <<header(v), header(v)>>)
    <3> HIDE DEF header
    <3>1. "app" # "health" /\ 2 # 1
      OBVIOUS
    <3> QED
      BY <2>9, <3>1 DEF LetIn
  <2> HIDE DEF header
  <2> QED
    BY <1>6, <2>4, <2>6, <2>7, <2>10, <2>11 DEF o
<1> QED
  BY <1>6 DEF TokensAreUsable, tokens, header

-----------------------------------------------------------------------------
(* Descriptor sets.                                                        *)

\* No name twice.
Distinct(s) == \A i, j \in DOMAIN s : s[i].name = s[j].name => i = j

\* The services of each file, before they are flattened.
ServicesIn(files) == [i \in DOMAIN files |-> files[i].services]

LEMMA ServicesUnfold == \A files : AllServices(files) = FlattenSeq(ServicesIn(files))
BY DEF AllServices, ServicesIn

\* A sequence that is another with one more element.
LEMMA GrownIsAppend ==
  ASSUME NEW T, NEW f \in Seq(T), NEW g \in Seq(T), NEW e, Len(g) = Len(f) + 1, g[Len(f) + 1] = e,
         \A i \in 1 .. Len(f) : g[i] = f[i]
  PROVE  g = Append(f, e) /\ e \in T
<1> DEFINE n == Len(f)
<1>1. n \in Nat /\ n + 1 \in 1 .. Len(g)
  BY LenProperties
<1>2. e \in T
  BY <1>1, ElementOfSeq
<1> DEFINE b == Append(f, e)
<1>3. b \in Seq(T) /\ Len(b) = n + 1 /\ b[n + 1] = e /\ \A i \in 1 .. n : b[i] = f[i]
  BY <1>2, AppendProperties
<1>4. Len(g) = n + 1 /\ g[n + 1] = e /\ \A i \in 1 .. n : g[i] = f[i]
  OBVIOUS
<1> HIDE DEF b, n
<1>5. \A i \in 1 .. n + 1 : g[i] = b[i]
  BY <1>1, <1>3, <1>4
<1>6. g = b
  BY <1>3, <1>4, <1>5, SeqEqual
<1> QED
  BY <1>2, <1>6 DEF b

LEMMA ServicesAppend ==
  ASSUME NEW V, NEW F, \A f \in F : f.services \in Seq(V)
  PROVE  \A files \in Seq(F), f \in F :
            /\ ServicesIn(files) \in Seq(Seq(V)) /\ AllServices(files) \in Seq(V)
            /\ AllServices(Append(files, f)) = AllServices(files) \o f.services
<1> TAKE files \in Seq(F), f \in F
<1> DEFINE a == Append(files, f)
           n == Len(files)
<1>1. /\ a \in Seq(F) /\ Len(a) = n + 1 /\ n \in Nat
      /\ \A i \in 1 .. n : a[i] = files[i] /\ i \in DOMAIN a
      /\ a[n + 1] = f /\ n + 1 \in DOMAIN a
      /\ DOMAIN a = 1 .. n + 1 /\ DOMAIN files = 1 .. n
  BY AppendFacts
<1>2. ASSUME NEW x \in Seq(F)
      PROVE  ServicesIn(x) \in Seq(Seq(V)) /\ Len(ServicesIn(x)) = Len(x)
  <2>1. DOMAIN x = 1 .. Len(x) /\ Len(x) \in Nat /\ \A i \in 1 .. Len(x) : x[i] \in F
    BY LenProperties, ElementOfSeq
  <2> DEFINE g == ServicesIn(x)
  <2>2. DOMAIN g = 1 .. Len(x) /\ g = [i \in 1 .. Len(x) |-> g[i]] /\ \A i \in 1 .. Len(x) : g[i] \in Seq(V)
    BY <2>1 DEF ServicesIn
  <2> HIDE DEF g
  <2>3. g \in Seq(Seq(V)) /\ Len(g) = Len(x)
    BY <2>1, <2>2, MapType
  <2> QED
    BY <2>3 DEF g
<1>3. ServicesIn(a)[n + 1] = f.services /\ \A i \in 1 .. n : ServicesIn(a)[i] = ServicesIn(files)[i]
  BY <1>1 DEF ServicesIn
<1> HIDE DEF a
<1> DEFINE sf == ServicesIn(files)
           sa == ServicesIn(a)
<1>4. /\ sf \in Seq(Seq(V)) /\ sa \in Seq(Seq(V)) /\ Len(sf) = n /\ Len(sa) = n + 1
      /\ sa[n + 1] = f.services /\ \A i \in 1 .. n : sa[i] = sf[i]
  BY <1>1, <1>2, <1>3
<1> HIDE DEF sf, sa
<1>5. sa = Append(sf, f.services)
  <2>1. Len(sa) = Len(sf) + 1 /\ sa[Len(sf) + 1] = f.services /\ \A i \in 1 .. Len(sf) : sa[i] = sf[i]
    BY <1>4
  <2> QED
    BY <1>4, <2>1, GrownIsAppend
<1>6. FlattenSeq(Append(sf, f.services)) = FlattenSeq(sf) \o f.services
  <2>1. f.services \in Seq(V)
    OBVIOUS
  <2> QED
    BY <1>4, <2>1, FlattenAppend
<1>7. FlattenSeq(sf) \in Seq(V)
  BY <1>4, FlattenType
<1> QED
  BY <1>4, <1>5, <1>6, <1>7, ServicesUnfold DEF sf, sa, a

LEMMA ToSetOfServices ==
  ASSUME NEW V, NEW F, \A f \in F : f.services \in Seq(V), NEW files \in Seq(F), NEW f0 \in F
  PROVE  ToSet(AllServices(files)) = UNION {ToSet(f.services) : f \in ToSet(files)}
<1>1. ServicesIn(files) \in Seq(Seq(V))
  BY ServicesAppend
<1>2. ToSet(FlattenSeq(ServicesIn(files))) = UNION {ToSet(s) : s \in ToSet(ServicesIn(files))}
  BY <1>1, ToSetOfFlatten
<1>3. ToSet(ServicesIn(files)) = {f.services : f \in ToSet(files)}
  BY DEF ToSet, ServicesIn
<1> QED
  BY <1>2, <1>3, ServicesUnfold

LEMMA DistinctConcat ==
  ASSUME NEW V, NEW s \in Seq(V), NEW t \in Seq(V), Distinct(s), Distinct(t),
         \A x \in ToSet(s), y \in ToSet(t) : x.name # y.name
  PROVE  Distinct(s \o t)
<1> DEFINE u == s \o t
<1>1. /\ u \in Seq(V) /\ Len(u) = Len(s) + Len(t)
      /\ Len(s) \in Nat /\ Len(t) \in Nat
      /\ DOMAIN s = 1 .. Len(s) /\ DOMAIN t = 1 .. Len(t) /\ DOMAIN u = 1 .. Len(u)
      /\ \A i \in 1 .. Len(s) + Len(t) : u[i] = IF i <= Len(s) THEN s[i] ELSE t[i - Len(s)]
  BY ConcatProperties, LenProperties
<1> HIDE DEF u
<1>2. ASSUME NEW i \in DOMAIN u
      PROVE  \/ i \in DOMAIN s /\ u[i] = s[i] /\ u[i] \in ToSet(s)
             \/ /\ i \in Int /\ i - Len(s) \in DOMAIN t /\ u[i] = t[i - Len(s)] /\ u[i] \in ToSet(t)
  <2>1. CASE i <= Len(s)
    <3>1. i \in DOMAIN s /\ u[i] = s[i]
      BY <1>1, <2>1
    <3> QED
      BY <3>1 DEF ToSet
  <2>2. CASE ~ (i <= Len(s))
    <3>1. i \in Int /\ i - Len(s) \in DOMAIN t /\ u[i] = t[i - Len(s)]
      BY <1>1, <2>2
    <3> QED
      BY <3>1 DEF ToSet
  <2> QED
    BY <2>1, <2>2
<1>3. ASSUME NEW i \in DOMAIN u, NEW j \in DOMAIN u, u[i].name = u[j].name
      PROVE  i = j
  <2>1. CASE u[i] \in ToSet(s) /\ i \in DOMAIN s /\ u[i] = s[i]
    <3>1. j \in DOMAIN s /\ u[j] = s[j]
      BY <1>2, <1>3, <2>1
    <3> QED
      BY <1>3, <2>1, <3>1 DEF Distinct
  <2>2. CASE i \in Int /\ i - Len(s) \in DOMAIN t /\ u[i] = t[i - Len(s)] /\ u[i] \in ToSet(t)
    <3>1. j \in Int /\ j - Len(s) \in DOMAIN t /\ u[j] = t[j - Len(s)]
      BY <1>2, <1>3, <2>2
    <3>2. i - Len(s) = j - Len(s)
      BY <1>3, <2>2, <3>1 DEF Distinct
    <3> QED
      BY <1>1, <2>2, <3>1, <3>2
  <2> QED
    BY <1>2, <2>1, <2>2
<1> QED
  BY <1>3 DEF Distinct, u

LEMMA KeptDistinct ==
  ASSUME NEW V, NEW s \in Seq(V), NEW I, Distinct(s)
  PROVE  Distinct(Kept(s, I))
<1> DEFINE P == {t \in Seq(V) : Distinct(t) => Distinct(Kept(t, I))}
<1>0. Distinct(<<>>)
  BY EmptySeq, LenProperties DEF Distinct
<1>1. <<>> \in P
  BY <1>0, EmptySeq, KeptOfNone
<1>2. ASSUME NEW t \in Seq(V), NEW e \in V, t \in P
      PROVE  Append(t, e) \in P
  <2> DEFINE a == Append(t, e)
             n == Len(t) + 1
             k == Kept(t, I)
  <2>1. /\ a \in Seq(V) /\ DOMAIN t = 1 .. Len(t) /\ Len(t) \in Nat
        /\ \A i \in 1 .. Len(t) : a[i] = t[i] /\ i \in DOMAIN a
        /\ a[n] = e /\ n \in DOMAIN a /\ n \notin DOMAIN t
    BY AppendFacts
  <2> SUFFICES ASSUME Distinct(a)
               PROVE  Distinct(Kept(a, I))
    BY <2>1
  <2>2. Distinct(t)
    <3> HIDE DEF a
    <3> QED
      BY <2>1 DEF Distinct
  <2>3. Distinct(k) /\ k \in Seq(V)
    BY <1>2, <2>2, KeptType
  <2>4. Kept(a, I) = IF n \in I THEN Append(k, e) ELSE k
    BY KeptAppend
  <2>5. ToSet(k) = {t[i] : i \in I \cap DOMAIN t}
    BY ToSetOfKept
  <2> HIDE DEF a, n, k
  <2>6. \A x \in ToSet(k) : x.name # e.name
    BY <2>1, <2>5 DEF Distinct
  <2>7. Distinct(Append(k, e))
    <3>1. /\ \A i \in 1 .. Len(k) : Append(k, e)[i] = k[i] /\ i \in DOMAIN k /\ k[i] \in ToSet(k)
          /\ Append(k, e)[Len(k) + 1] = e
          /\ \A i \in DOMAIN Append(k, e) : i \in 1 .. Len(k) \/ i = Len(k) + 1
      <4>1. /\ \A i \in 1 .. Len(k) : Append(k, e)[i] = k[i]
            /\ Append(k, e)[Len(k) + 1] = e /\ DOMAIN k = 1 .. Len(k)
            /\ \A i \in DOMAIN Append(k, e) : i \in 1 .. Len(k) \/ i = Len(k) + 1
        BY <2>3, AppendFacts
      <4> QED
        BY <4>1 DEF ToSet
    <3> QED
      BY <2>3, <2>6, <3>1 DEF Distinct
  <2> QED
    BY <2>3, <2>4, <2>7
<1>3. Seq(V) \subseteq P
  <2> HIDE DEF P
  <2> QED
    BY <1>1, <1>2, SeqInduction
<1> QED
  BY <1>3

\* The services of some of the files.
Spread(files) ==
  \A i, j \in DOMAIN files : \A a \in DOMAIN files[i].services, b \in DOMAIN files[j].services :
    files[i].services[a].name = files[j].services[b].name => i = j /\ a = b

LEMMA SpreadDistinct ==
  ASSUME NEW V, NEW F, \A f \in F : f.services \in Seq(V), NEW files \in Seq(F), NEW I, Spread(files)
  PROVE  /\ Kept(files, I) \in Seq(F) /\ AllServices(Kept(files, I)) \in Seq(V)
         /\ Distinct(AllServices(Kept(files, I)))
         /\ ToSet(AllServices(Kept(files, I))) = UNION {ToSet(files[i].services) : i \in I \cap DOMAIN files}
<1>0. AllServices(<<>>) = <<>>
  <2>1. ServicesIn(<<>>) = <<>>
    BY EmptySeq, LenProperties DEF ServicesIn
  <2> QED
    BY <2>1, ServicesUnfold, FlattenOfNone
<1>1. CASE F = {}
  <2>1. files = <<>>
    <3> SUFFICES ASSUME files # <<>>
                 PROVE  FALSE
      OBVIOUS
    <3>1. 1 \in 1 .. Len(files)
      BY EmptySeq, LenProperties
    <3>2. files[1] \in F
      BY <3>1, ElementOfSeq
    <3> QED
      BY <1>1, <3>2
  <2>2. Kept(files, I) = <<>> /\ DOMAIN files = {}
    BY <2>1, KeptOfNone, EmptySeq, LenProperties
  <2>3. DOMAIN <<>> = {} /\ \A S : <<>> \in Seq(S)
    BY EmptySeq, LenProperties
  <2>4. Distinct(<<>>)
    BY <2>3 DEF Distinct
  <2>5. ToSet(<<>>) = {}
    BY ToSetEmpty
  <2>6. UNION {ToSet(files[i].services) : i \in I \cap DOMAIN files} = {}
    BY <2>2
  <2> QED
    BY <1>0, <2>2, <2>3, <2>4, <2>5, <2>6
<1>2. CASE F # {}
  <2>1. PICK f0 \in F : TRUE
    BY <1>2
  <2> DEFINE P == {x \in Seq(F) : Spread(x) => Distinct(AllServices(Kept(x, I)))}
  <2>2. ASSUME NEW x \in Seq(F)
        PROVE  /\ Kept(x, I) \in Seq(F) /\ AllServices(Kept(x, I)) \in Seq(V)
               /\ ToSet(AllServices(Kept(x, I))) = UNION {ToSet(x[i].services) : i \in I \cap DOMAIN x}
    <3>1. Kept(x, I) \in Seq(F)
      BY KeptType
    <3> DEFINE k == Kept(x, I)
    <3> HIDE DEF k
    <3>2. AllServices(k) \in Seq(V) /\ ToSet(AllServices(k)) = UNION {ToSet(f.services) : f \in ToSet(k)}
      <4>1. k \in Seq(F)
        BY <3>1 DEF k
      <4> QED
        BY <2>1, <4>1, ServicesAppend, ToSetOfServices
    <3>3. ToSet(k) = {x[i] : i \in I \cap DOMAIN x}
      BY ToSetOfKept DEF k
    <3> QED
      BY <3>1, <3>2, <3>3 DEF k
  <2>3. <<>> \in P
    BY <1>0, EmptySeq, KeptOfNone, LenProperties DEF Distinct
  <2>4. ASSUME NEW x \in Seq(F), NEW f \in F, x \in P
        PROVE  Append(x, f) \in P
    <3> DEFINE a == Append(x, f)
               n == Len(x) + 1
               k == Kept(x, I)
    <3>1. /\ a \in Seq(F) /\ DOMAIN x = 1 .. Len(x)
          /\ \A i \in 1 .. Len(x) : a[i] = x[i] /\ i \in DOMAIN a
          /\ a[n] = f /\ n \in DOMAIN a /\ n \notin DOMAIN x
      BY AppendFacts
    <3> SUFFICES ASSUME Spread(a)
                 PROVE  Distinct(AllServices(Kept(a, I)))
      BY <3>1
    <3> HIDE DEF a
    <3>2. Spread(x)
      BY <3>1 DEF Spread
    <3>3. Distinct(AllServices(k))
      BY <2>4, <3>2
    <3>4. Kept(a, I) = IF n \in I THEN Append(k, f) ELSE k
      BY KeptAppend DEF a
    <3>5. /\ k \in Seq(F) /\ AllServices(k) \in Seq(V)
          /\ ToSet(AllServices(k)) = UNION {ToSet(x[i].services) : i \in I \cap DOMAIN x}
      BY <2>2
    <3> HIDE DEF n, k
    <3>6. AllServices(Append(k, f)) = AllServices(k) \o f.services
      <4>1. k \in Seq(F) /\ f \in F
        BY <3>5
      <4>2. \A x1 \in Seq(F), f1 \in F :
              /\ ServicesIn(x1) \in Seq(Seq(V)) /\ AllServices(x1) \in Seq(V)
              /\ AllServices(Append(x1, f1)) = AllServices(x1) \o f1.services
        BY ServicesAppend
      <4> QED
        BY <4>1, <4>2
    <3>7. f.services \in Seq(V)
      OBVIOUS
    <3>8. Distinct(f.services)
      BY <3>1 DEF Spread, Distinct
    <3>9. ASSUME NEW y \in ToSet(AllServices(k)), NEW z \in ToSet(f.services)
          PROVE  y.name # z.name
      <4>1. PICK i \in DOMAIN x : y \in ToSet(x[i].services)
        BY <3>5, <3>9
      <4>2. PICK b \in DOMAIN x[i].services : y = x[i].services[b]
        BY <4>1 DEF ToSet
      <4>3. PICK c \in DOMAIN f.services : z = f.services[c]
        BY <3>9 DEF ToSet
      <4>4. i \in DOMAIN a /\ a[i] = x[i] /\ i # n
        BY <3>1
      <4> QED
        BY <3>1, <4>2, <4>3, <4>4 DEF Spread
    <3>10. Distinct(AllServices(k) \o f.services)
      <4> DEFINE s == AllServices(k)
                 t == f.services
      <4>1. s \in Seq(V) /\ t \in Seq(V) /\ Distinct(s) /\ Distinct(t) /\ \A y \in ToSet(s), z \in ToSet(t) : y.name # z.name
        BY <3>3, <3>5, <3>7, <3>8, <3>9
      <4> HIDE DEF s, t
      <4>2. Distinct(s \o t)
        BY <4>1, DistinctConcat
      <4> QED
        BY <4>2 DEF s, t
    <3> QED
      BY <3>3, <3>4, <3>6, <3>10
  <2>5. Seq(F) \subseteq P
    <3> HIDE DEF P
    <3> QED
      BY <2>3, <2>4, SeqInduction
  <2> QED
    BY <2>2, <2>5
<1> QED
  BY <1>1, <1>2

\* What the schema lists and routes.
LEMMA SchemaUsable ==
  ASSUME NEW s, SchemaInput(s)
  PROVE  SchemaIsUsable(s)
<1> DEFINE files == s.files
           schema == Load(s.files, s.configured)
           sel == Selected(s.files, s.configured)
           services == AllServices(files)
           F == ToSet(files)
           V == UNION {ToSet(f.services) : f \in F}
           ownAt == {i \in DOMAIN files : files[i].name \notin Imported(files)}
           own == AllServices(Kept(files, ownAt))
           freeAt == {i \in DOMAIN own : own[i].name \notin PluginServices}
           free == Kept(own, freeAt)
           names == IF s.configured = None THEN <<>> ELSE s.configured
           byName(n) == {i \in DOMAIN services : services[i].name = n}
<1>1. /\ files \in Seq(F) /\ \A f \in F : f.services \in Seq(V)
      /\ Spread(files)
      /\ \A v \in V : \A m, n \in ToSet(v.methods) : m.name = n.name => m = n
  <2>1. files \in Seq(F)
    BY DEF SchemaInput
  <2>2. ASSUME NEW f \in F
        PROVE  f.services \in Seq(V)
    <3>1. f.services \in Seq(ToSet(f.services)) /\ ToSet(f.services) \subseteq V
      BY DEF SchemaInput
    <3> QED
      BY <3>1, SeqWider
  <2>3. Spread(files)
    BY DEF SchemaInput, Spread
  <2>4. \A v \in V : \A m, n \in ToSet(v.methods) : m.name = n.name => m = n
    BY DEF SchemaInput
  <2> QED
    BY <2>1, <2>2, <2>3, <2>4
<1>2. sel = IF Imported(files) \ {files[i].name : i \in DOMAIN files} # {} THEN <<>>
            ELSE IF s.configured = None THEN free
            ELSE IF \/ ToSet(names) \cap PluginServices # {}
                    \/ \E n \in ToSet(names) : byName(n) = {}
                    \/ ~ IsInjective(names) THEN <<>>
            ELSE [i \in DOMAIN names |-> services[Min(byName(names[i]))]]
  BY DEF Selected
<1>3. schema.ok => sel # <<>> /\ schema.services = sel
  BY DEF Load
<1>4. \A r \in schema.routes : \E v \in ToSet(sel) : \E m \in ToSet(v.methods) :
         r = <<v.name, m.name>> /\ ~ m.client /\ ~ m.server
  <2>1. schema.routes = {} \/
          schema.routes = UNION {{<<v.name, m.name>> : m \in {m \in ToSet(v.methods) : ~ m.client /\ ~ m.server}} : v \in ToSet(sel)}
    BY DEF Load
  <2> QED
    BY <2>1
<1> HIDE DEF schema, sel, V, F
<1>5. /\ own \in Seq(V) /\ Distinct(own)
      /\ ToSet(own) = UNION {ToSet(files[i].services) : i \in ownAt \cap DOMAIN files}
  <2> HIDE DEF files, ownAt
  <2> QED
    BY <1>1, SpreadDistinct
<1>6. /\ services \in Seq(V) /\ ToSet(services) \subseteq V
  <2>1. Kept(files, DOMAIN files) = files
    BY <1>1, KeptAll
  <2>2. AllServices(Kept(files, DOMAIN files)) \in Seq(V)
    BY <1>1, SpreadDistinct
  <2> HIDE DEF files
  <2>3. services \in Seq(V)
    BY <2>1, <2>2
  <2>4. DOMAIN services = 1 .. Len(services) /\ \A i \in 1 .. Len(services) : services[i] \in V
    BY <2>3, LenProperties, ElementOfSeq
  <2> QED
    BY <2>3, <2>4 DEF ToSet
<1>7. /\ free \in Seq(V) /\ Distinct(free) /\ ToSet(free) = {own[i] : i \in freeAt \cap DOMAIN own}
  <2> HIDE DEF own, freeAt
  <2> QED
    BY <1>5, KeptType, KeptDistinct, ToSetOfKept
\* Whatever is selected has distinct names, none of them the plugin's.
<1>8. ASSUME sel # <<>>
      PROVE  /\ Distinct(sel) /\ ToSet(sel) \subseteq V
             /\ \A v \in ToSet(sel) : v.name \notin PluginServices
             /\ s.configured = None => ToSet(sel) \subseteq ToSet(own)
  <2>1. CASE s.configured = None
    <3>1. sel = free
      BY <1>2, <1>8, <2>1
    <3>2. ToSet(free) \subseteq ToSet(own) /\ \A v \in ToSet(free) : v.name \notin PluginServices
      BY <1>7 DEF ToSet
    <3>3. DOMAIN own = 1 .. Len(own) /\ \A i \in 1 .. Len(own) : own[i] \in V
      BY <1>5, LenProperties, ElementOfSeq
    <3>4. ToSet(own) \subseteq V
      BY <3>3 DEF ToSet
    <3> QED
      BY <1>7, <3>1, <3>2, <3>4
  <2>2. CASE s.configured # None
    <3>1. /\ ToSet(names) \cap PluginServices = {}
          /\ \A n \in ToSet(names) : byName(n) # {}
          /\ IsInjective(names)
          /\ sel = [i \in DOMAIN names |-> services[Min(byName(names[i]))]]
      BY <1>2, <1>8, <2>2
    <3> HIDE DEF names, services
    <3>2. ASSUME NEW i \in DOMAIN names
          PROVE  sel[i] \in V /\ sel[i].name = names[i] /\ names[i] \in ToSet(names)
      <4>1. names[i] \in ToSet(names)
        BY DEF ToSet
      <4> DEFINE B == byName(names[i])
      <4>2. B \in SUBSET Nat /\ B # {}
        <5>1. DOMAIN services = 1 .. Len(services) /\ Len(services) \in Nat
          BY <1>6, LenProperties
        <5> QED
          BY <3>1, <4>1, <5>1
      <4> HIDE DEF B
      <4>3. Min(B) \in B
        BY <4>2, MinFacts
      <4>4. Min(B) \in DOMAIN services /\ services[Min(B)].name = names[i]
        BY <4>3 DEF B
      <4>5. services[Min(B)] \in V
        BY <1>6, <4>4 DEF ToSet
      <4>6. sel[i] = services[Min(B)]
        BY <3>1 DEF B
      <4> QED
        BY <4>1, <4>4, <4>5, <4>6
    <3>3. DOMAIN sel = DOMAIN names
      BY <3>1
    <3>4. Distinct(sel)
      BY <3>1, <3>2, <3>3 DEF Distinct, IsInjective
    <3>5. \A v \in ToSet(sel) : \E i \in DOMAIN names : v = sel[i]
      BY <3>3 DEF ToSet
    <3> QED
      BY <2>2, <3>1, <3>2, <3>4, <3>5
  <2> QED
    BY <2>1, <2>2
<1> DEFINE listed == {v.name : v \in ToSet(schema.services)}
           streaming(v) == {m \in ToSet(v.methods) : m.client \/ m.server}
           streams == UNION {{<<v.name, m.name>> : m \in streaming(v)} : v \in ToSet(schema.services)}
           dependencies == {v.name : v \in UNION {ToSet(s.files[i].services) : i \in
                        {j \in DOMAIN s.files : \E k \in DOMAIN s.files : s.files[j].name \in s.files[k].imports}}}
<1> SUFFICES ASSUME schema.ok
             PROVE  /\ schema.services # <<>> /\ IsInjective(schema.services)
                    /\ {r[1] : r \in schema.routes} \subseteq listed \ PluginServices
                    /\ schema.routes \cap streams = {}
                    /\ s.configured = None => listed \cap dependencies = {}
  BY DEF SchemaIsUsable, schema
<1>9. /\ sel # <<>> /\ schema.services = sel /\ Distinct(sel) /\ ToSet(sel) \subseteq V
      /\ \A v \in ToSet(sel) : v.name \notin PluginServices
      /\ s.configured = None => ToSet(sel) \subseteq ToSet(own)
  BY <1>3, <1>8
<1> HIDE DEF own, services, names, free, freeAt
<1>10. IsInjective(sel)
  BY <1>9 DEF Distinct, IsInjective
<1>11. {r[1] : r \in schema.routes} \subseteq listed \ PluginServices
  BY <1>4, <1>9
<1>12. schema.routes \cap streams = {}
  <2> SUFFICES ASSUME NEW r \in schema.routes, r \in streams
               PROVE  FALSE
    OBVIOUS
  <2>a. PICK v \in ToSet(sel) : \E m \in ToSet(v.methods) : r = <<v.name, m.name>> /\ ~ m.client /\ ~ m.server
    BY <1>4
  <2>1. PICK m \in ToSet(v.methods) : r = <<v.name, m.name>> /\ ~ m.client /\ ~ m.server
    BY <2>a
  <2>b. PICK w \in ToSet(sel) : \E n \in ToSet(w.methods) : r = <<w.name, n.name>> /\ (n.client \/ n.server)
    BY <1>9
  <2>2. PICK n \in ToSet(w.methods) : r = <<w.name, n.name>> /\ (n.client \/ n.server)
    BY <2>b
  <2>3. v.name = w.name /\ m.name = n.name
    <3>1. <<v.name, m.name>> = <<w.name, n.name>>
      BY <2>1, <2>2
    <3> QED
      BY <3>1
  <2>4. v = w
    BY <1>9, <2>3 DEF Distinct, ToSet
  <2>5. m = n
    BY <1>1, <1>9, <2>3, <2>4
  <2> QED
    BY <2>1, <2>2, <2>5
<1>13. ASSUME s.configured = None
       PROVE  listed \cap dependencies = {}
  <2> SUFFICES ASSUME NEW n \in listed, n \in dependencies
               PROVE  FALSE
    OBVIOUS
  <2>1. PICK v \in ToSet(own) : v.name = n
    BY <1>9, <1>13
  <2>2. PICK i \in ownAt \cap DOMAIN files : v \in ToSet(files[i].services)
    BY <1>5, <2>1
  <2>a. PICK j \in DOMAIN files, k \in DOMAIN files :
          files[j].name \in files[k].imports /\ \E w \in ToSet(files[j].services) : w.name = n
    OBVIOUS
  <2>3. PICK w \in ToSet(files[j].services) : files[j].name \in files[k].imports /\ w.name = n
    BY <2>a
  <2>4. files[j].name \in Imported(files) /\ files[i].name \notin Imported(files)
    BY <2>2, <2>3 DEF Imported
  <2>5. i = j
    <3>1. PICK a \in DOMAIN files[i].services : v = files[i].services[a]
      BY <2>2 DEF ToSet
    <3>2. PICK b \in DOMAIN files[j].services : w = files[j].services[b]
      BY <2>3 DEF ToSet
    <3>3. i \in DOMAIN files /\ j \in DOMAIN files /\ files[i].services[a].name = files[j].services[b].name
      BY <2>1, <2>2, <2>3, <3>1, <3>2
    <3> HIDE DEF files
    <3> QED
      BY <1>1, <3>3 DEF Spread
  <2> QED
    BY <2>4, <2>5
<1> QED
  BY <1>9, <1>10, <1>11, <1>12, <1>13

-----------------------------------------------------------------------------
(* The specification: what is decided on is one of the inputs.             *)

\* An input is one of its kind.
InputIsTaken ==
  /\ input.kind = "request" => input.of \in Requests
  /\ input.kind = "path" => input.of \in Paths
  /\ input.kind = "probe" => input.of \in Probes
  /\ input.kind = "head" => input.of \in Heads
  /\ input.kind = "body" => input.of \in Bodies
  /\ input.kind = "disposition" => input.of \in Dispositions
  /\ input.kind = "adds" => input.of \in Adds
  /\ input.kind = "lines" => input.of \in FieldLines
  /\ input.kind = "schema" => input.of \in Schemas
  /\ input.kind = "tokens" => input.of \in TokenFiles
  /\ input.kind = "config" => input.of \in Configs

LEMMA InitIsTaken == RulesInit => InputIsTaken
BY DEF RulesInit, InputIsTaken, Nothing

LEMMA StepIsTaken == InputIsTaken /\ [RulesNext]_<<input, startup_vars>> => InputIsTaken'
<1> SUFFICES ASSUME InputIsTaken, [RulesNext]_<<input, startup_vars>>
             PROVE  InputIsTaken'
  OBVIOUS
<1>1. CASE UNCHANGED input
  BY <1>1 DEF InputIsTaken
<1>2. CASE TakeInput
  <2>1. CASE TakeRequest
    BY <2>1 DEF TakeRequest, Take, InputIsTaken
  <2>2. CASE TakePath
    BY <2>2 DEF TakePath, Take, InputIsTaken
  <2>3. CASE TakeProbe
    BY <2>3 DEF TakeProbe, Take, InputIsTaken
  <2>4. CASE TakeHead
    BY <2>4 DEF TakeHead, Take, InputIsTaken
  <2>5. CASE TakeBody
    BY <2>5 DEF TakeBody, Take, InputIsTaken
  <2>6. CASE TakeDisposition
    BY <2>6 DEF TakeDisposition, Take, InputIsTaken
  <2>7. CASE TakeAdds
    BY <2>7 DEF TakeAdds, Take, InputIsTaken
  <2>8. CASE TakeLines
    BY <2>8 DEF TakeLines, Take, InputIsTaken
  <2>9. CASE TakeSchema
    BY <2>9 DEF TakeSchema, Take, InputIsTaken
  <2>10. CASE TakeTokens
    BY <2>10 DEF TakeTokens, Take, InputIsTaken
  <2>11. CASE TakeConfig
    BY <2>11 DEF TakeConfig, Take, InputIsTaken
  <2> QED
    BY <1>2, <2>1, <2>2, <2>3, <2>4, <2>5, <2>6, <2>7, <2>8, <2>9, <2>10, <2>11 DEF TakeInput
<1>3. CASE StartupStep
  BY <1>1, <1>3 DEF StartupStep
<1> QED
  BY <1>1, <1>2, <1>3 DEF RulesNext

LEMMA TakenThroughout == RulesSpec => []InputIsTaken
<1>1. RulesInit => InputIsTaken
  BY InitIsTaken
<1>2. InputIsTaken /\ [RulesNext]_<<input, startup_vars>> => InputIsTaken'
  BY StepIsTaken
<1> QED
  BY <1>1, <1>2, PTL DEF RulesSpec

\* What the start accepts can be served: a configuration, a schema and a tokens
\* file, whatever is in them.
THEOREM AcceptedIsUsableAlways == RulesSpec => []AcceptedIsUsable
<1>1. InputIsTaken => AcceptedIsUsable
  <2> SUFFICES ASSUME InputIsTaken
               PROVE  AcceptedIsUsable
    OBVIOUS
  <2>1. input.kind = "config" /\ Starts(input.of) => ConfigIsUsable(input.of)
    BY RulesInputs, StartsUsable DEF InputIsTaken
  <2>2. input.kind = "schema" => SchemaIsUsable(input.of)
    BY RulesInputs, SchemaUsable DEF InputIsTaken
  <2>3. input.kind = "tokens" => TokensAreUsable(input.of)
    BY RulesInputs, TokensUsable DEF InputIsTaken
  <2> QED
    BY <2>1, <2>2, <2>3 DEF AcceptedIsUsable
<1> QED
  BY <1>1, TakenThroughout, PTL

-----------------------------------------------------------------------------
(* Reply heads.                                                            *)

LEMMA WithoutFacts ==
  ASSUME NEW L, NEW lines \in Seq(L), NEW names
  PROVE  /\ Without(lines, names) \in Seq(L)
         /\ \A l \in ToSet(Without(lines, names)) : l \in ToSet(lines) /\ l.name \notin names
<1> DEFINE I == {i \in DOMAIN lines : lines[i].name \notin names}
<1>1. Kept(lines, I) \in Seq(L) /\ ToSet(Kept(lines, I)) = {lines[i] : i \in I \cap DOMAIN lines}
  <2> HIDE DEF I
  <2> QED
    BY KeptType, ToSetOfKept
<1>2. Without(lines, names) = Kept(lines, I)
  BY DEF Without
<1> QED
  BY <1>1, <1>2 DEF ToSet

LEMMA NoSuchValue ==
  ASSUME NEW L, NEW lines \in Seq(L), NEW name, \A l \in ToSet(lines) : l.name # name
  PROVE  ValuesOf(lines, name) = <<>>
<1> DEFINE V == {l.value : l \in L}
<1>1. ValuesIn(lines) \in Seq(V)
  BY NamesType
<1>2. Lines1(lines, name) = {}
  BY DEF Lines1, ToSet
<1> HIDE DEF V
<1>3. Kept(ValuesIn(lines), {}) = <<>>
  BY <1>1, KeptNone
<1> QED
  BY <1>2, <1>3, ValuesUnfold

\* The lines that reach hyper: those that may pass, and the length.
LEMMA ResponseFacts ==
  ASSUME NEW L, NEW lines \in Seq(L), NEW length
  PROVE  /\ {l.name : l \in ToSet(ResponseHeaders(lines, length))} \cap
              ((HopByHop \cup UNION ToSet(ValuesOf(lines, <<"connection">>))) \ {ContentLength}) = {}
         /\ ValuesOf(ResponseHeaders(lines, length), ContentLength) =
              IF length = NoLength THEN <<>> ELSE <<length>>
         /\ \E K : ResponseHeaders(lines, length) \in Seq(K)
<1> DEFINE passed == UNION ToSet(ValuesOf(lines, <<"connection">>))
           N == HopByHop \cup passed
           s == Without(lines, N)
           x == [name |-> ContentLength, value |-> length]
           K == L \cup {x}
           V == {k.value : k \in K}
<1>1. ContentLength \in N
  BY DEF HopByHop
<1> HIDE DEF N
<1>2. s \in Seq(L) /\ \A l \in ToSet(s) : l.name \notin N
  BY WithoutFacts
<1> HIDE DEF s
<1>3. s \in Seq(K) /\ ValuesOf(s, ContentLength) = <<>>
  <2>1. \A l \in ToSet(s) : l.name # ContentLength
    BY <1>1, <1>2
  <2> QED
    BY <1>2, <2>1, SeqWider, NoSuchValue
<1>4. x.name = ContentLength /\ x.value = length /\ x \in K /\ length \in V
  <2>1. x.name = ContentLength /\ x.value = length
    OBVIOUS
  <2> HIDE DEF x
  <2>2. x \in K
    OBVIOUS
  <2>3. x.value \in V
    BY <2>2
  <2> QED
    BY <2>1, <2>2, <2>3
<1> HIDE DEF x, K, V
<1>5. CASE length = NoLength
  <2>1. ResponseHeaders(lines, length) = s
    <3>1. ResponseHeaders(lines, length) = s \o <<>>
      BY <1>5 DEF ResponseHeaders, s, N
    <3> QED
      BY <1>2, <3>1, ConcatEmptySeq
  <2> QED
    BY <1>2, <1>3, <1>5, <2>1 DEF N
<1>6. CASE length # NoLength
  <2>1. ResponseHeaders(lines, length) = Append(s, x)
    <3>1. ResponseHeaders(lines, length) = s \o <<x>>
      BY <1>6 DEF ResponseHeaders, s, N, x
    <3>2. Append(s, x) = s \o <<x>>
      BY <1>3, <1>4, AppendIsConcat
    <3> QED
      BY <3>1, <3>2
  <2>2. ToSet(Append(s, x)) = ToSet(s) \cup {x} /\ Append(s, x) \in Seq(K)
    BY <1>3, <1>4, ToSetAppend, AppendProperties
  <2>3. ValuesOf(Append(s, x), ContentLength) = <<length>>
    <3>1. ValuesOf(Append(s, x), ContentLength) =
            IF x.name = ContentLength THEN Append(ValuesOf(s, ContentLength), x.value) ELSE ValuesOf(s, ContentLength)
      <4>1. s \in Seq(K) /\ x \in K
        BY <1>3, <1>4
      <4> QED
        BY <4>1, ValuesAppend
    <3>2. ValuesOf(Append(s, x), ContentLength) = Append(<<>>, length)
      BY <1>3, <1>4, <3>1
    <3>3. Append(<<>>, length) = <<length>>
      BY <1>4, AppendToFew
    <3> QED
      BY <3>2, <3>3
  <2> QED
    BY <1>2, <1>4, <1>6, <2>1, <2>2, <2>3 DEF N
<1> QED
  BY <1>5, <1>6

\* What writeHead() or header() leaves is a list of lines.
LEMMA WalkType ==
  ASSUME NEW table, table \in Seq(ToSet(table)), \A e \in ToSet(table) : e.values \in Seq(ToSet(e.values))
  PROVE  \E L : WalkHeadTable(table) \in Seq(L)
<1> DEFINE g == [i \in DOMAIN table |->
                   [j \in DOMAIN table[i].values |-> [name |-> table[i].name, value |-> table[i].values[j]]]]
           L == UNION {ToSet(g[i]) : i \in DOMAIN table}
<1>1. DOMAIN table = 1 .. Len(table) /\ Len(table) \in Nat /\ \A i \in 1 .. Len(table) : table[i] \in ToSet(table)
  BY LenProperties, ElementOfSeq
<1>2. ASSUME NEW i \in 1 .. Len(table)
      PROVE  g[i] \in Seq(L)
  <2> DEFINE v == table[i].values
             h == g[i]
  <2>1. h = [j \in DOMAIN v |-> [name |-> table[i].name, value |-> v[j]]]
    BY <1>1
  <2>2. v \in Seq(ToSet(v))
    BY <1>1, <1>2
  <2>3. DOMAIN v = 1 .. Len(v) /\ Len(v) \in Nat
    BY <2>2, LenProperties
  <2>4. ToSet(h) \subseteq L
    BY <1>1
  <2> HIDE DEF v, h, g, L
  <2>5. DOMAIN h = 1 .. Len(v) /\ h = [j \in 1 .. Len(v) |-> h[j]]
    BY <2>1, <2>3
  <2>6. \A j \in 1 .. Len(v) : h[j] \in L
    BY <2>4, <2>5 DEF ToSet
  <2>7. h \in Seq(L)
    BY <2>3, <2>5, <2>6, MapType
  <2> QED
    BY <2>7 DEF h
<1>3. DOMAIN g = 1 .. Len(table) /\ g = [i \in 1 .. Len(table) |-> g[i]]
  BY <1>1
<1>4. WalkHeadTable(table) = FlattenSeq(g)
  BY DEF WalkHeadTable
<1> HIDE DEF g, L
<1>5. g \in Seq(Seq(L))
  BY <1>1, <1>2, <1>3, MapType
<1>6. WalkHeadTable(table) \in Seq(L)
  BY <1>4, <1>5, FlattenType
<1> QED
  BY <1>6

\* The head that PHP's calls leave: a status of three digits, no body only where
\* there is none, and a length that is one.
LEMMA FrameFacts ==
  ASSUME NEW h, HeadInput(h)
  PROVE  /\ \E L : Frame(h).lines \in Seq(L)
         /\ Frame(h).status \in 100 .. 599
         /\ h.method = "HEAD" \/ Frame(h).status \in {204, 304} => Frame(h).bodiless
         /\ Frame(h).bodiless /\ Frame(h).status >= 200 => h.method = "HEAD" \/ Frame(h).status \in {204, 304}
         /\ Frame(h).status < 200 => Frame(h).bodiless
         /\ Frame(h).bodiless /\ h.method # "HEAD" => Frame(h).length \in Nat \cup {NoLength}
<1> DEFINE lines == WalkHeadTable(h.table)
<1>1. PICK L : lines \in Seq(L)
  BY WalkType DEF HeadInput
<1>2. h.status \in Int
  BY DEF HeadInput
<1> HIDE DEF lines
<1>3. CASE h.mode = "classic"
  <2> DEFINE code == h.status
             values == ValuesOf(lines, <<"status">>)
             codes == {i \in DOMAIN values : values[i] \in 100 .. 599}
             clamped == IF code = 0 THEN 200 ELSE Max({100, Min({code, 599})})
             status == IF codes = {} THEN clamped ELSE values[Max(codes)]
             head == ClassicHead(h.method, code, lines, h.body, FALSE)
  <2>1. Frame(h) = head
    BY <1>3 DEF Frame, lines
  <2>2. /\ head.status = status /\ head.lines = Without(lines, {<<"status">>})
        /\ head.bodiless = (status \in {204, 304} \cup (100 .. 199) \/ h.method = "HEAD")
        /\ status \in {204, 304} \cup (100 .. 199) => head.length = NoLength
    BY DEF ClassicHead
  <2> HIDE DEF head
  <2>3. clamped \in 100 .. 599
    <3>1. Min({code, 599}) = IF code <= 599 THEN code ELSE 599
      BY <1>2, OfTwo
    <3> DEFINE m == Min({code, 599})
    <3>2. m \in Int /\ m <= 599
      BY <1>2, <3>1
    <3> HIDE DEF m
    <3>3. Max({100, m}) = IF 100 >= m THEN 100 ELSE m
      BY <3>2, OfTwo
    <3>4. Max({100, m}) \in 100 .. 599
      BY <3>2, <3>3
    <3> QED
      BY <3>4 DEF m
  <2>4. codes # {} => values[Max(codes)] \in 100 .. 599
    <3> SUFFICES ASSUME codes # {}
                 PROVE  values[Max(codes)] \in 100 .. 599
      OBVIOUS
    <3>1. values \in Seq({l.value : l \in L})
      BY <1>1, ValuesType
    <3> DEFINE n == Len(values)
    <3>2. n \in Nat /\ DOMAIN values = 1 .. n
      BY <3>1, LenProperties
    <3>3. codes \in SUBSET (0 .. n)
      <4> HIDE DEF n, values
      <4> QED
        BY <3>2
    <3> DEFINE c == codes
    <3> HIDE DEF n, c
    <3>4. c \in SUBSET (0 .. n) /\ c # {}
      BY <3>3 DEF c
    <3>5. Max(c) \in c
      BY <3>2, <3>4, MaxFacts
    <3> QED
      BY <3>5 DEF c
  <2> HIDE DEF clamped, codes
  <2>5. status \in 100 .. 599
    BY <2>3, <2>4
  <2> HIDE DEF status
  <2>6. head.lines \in Seq(L)
    BY <1>1, <2>2, WithoutFacts
  <2>7. status >= 200 <=> status \notin 100 .. 199
    BY <2>5
  <2>8. head.bodiless <=> status \in {204, 304} \cup (100 .. 199) \/ h.method = "HEAD"
    BY <2>2
  <2>9. \E K : Frame(h).lines \in Seq(K)
    BY <2>1, <2>6
  <2>10. Frame(h).status < 200 => Frame(h).bodiless
    BY <2>1, <2>2, <2>5, <2>7, <2>8
  <2>11. Frame(h).bodiless /\ h.method # "HEAD" => Frame(h).length = NoLength
    BY <2>1, <2>2, <2>8
  <2> QED
    BY <2>1, <2>2, <2>5, <2>7, <2>8, <2>9, <2>10, <2>11
<1>4. CASE h.mode # "classic"
  <2> DEFINE st == WriteHead(h.method, h.status, h.table)
             long == Len(ValuesOf(lines, ContentLength)) > 1
  <2>1. /\ Frame(h).status = st.status /\ Frame(h).lines = st.lines /\ Frame(h).bodiless = st.bodiless
        /\ st.bodiless => Frame(h).length = st.declared
    BY <1>4 DEF Frame, EmitHead
  <2>2. CASE \/ h.status \notin 100 .. 599 \/ ~ Representable(h.table)
             \/ h.status # 101 /\ h.status \in 100 .. 199
             \/ long
    <3>1. st.status = 200
      BY <2>2 DEF WriteHead, Written, lines
    <3>2. st.lines = <<>>
      BY <2>2 DEF WriteHead, Written, lines
    <3>3. st.bodiless <=> h.method = "HEAD"
      <4>1. CASE h.status \notin 100 .. 599 \/ ~ Representable(h.table)
        BY <4>1 DEF WriteHead, Written
      <4>2. CASE /\ ~ (h.status \notin 100 .. 599 \/ ~ Representable(h.table))
                 /\ h.status # 101 /\ h.status \in 100 .. 199
        BY <4>2 DEF WriteHead, Written
      <4>3. CASE /\ ~ (h.status \notin 100 .. 599 \/ ~ Representable(h.table))
                 /\ ~ (h.status # 101 /\ h.status \in 100 .. 199)
                 /\ long
        BY <4>3 DEF WriteHead, Written, lines
      <4> QED
        BY <2>2, <4>1, <4>2, <4>3
    <3> HIDE DEF st
    <3>4. 200 \in 100 .. 599 /\ 200 \notin {204, 304} /\ ~ (200 < 200) /\ <<>> \in Seq(L)
      BY EmptySeq
    <3> QED
      BY <2>1, <3>1, <3>2, <3>3, <3>4
  <2>3. CASE ~ (\/ h.status \notin 100 .. 599 \/ ~ Representable(h.table)
                \/ h.status # 101 /\ h.status \in 100 .. 199
                \/ long)
    <3>1. st.status = h.status
      BY <2>3 DEF WriteHead, Written, lines
    <3>2. st.lines = Without(lines, {ContentLength})
      BY <2>3 DEF WriteHead, Written, lines
    <3>3. st.bodiless <=> (h.method = "HEAD" \/ h.status \in {204, 304, 101})
      BY <2>3 DEF WriteHead, Written, lines
    <3>4. LET lengths == ValuesOf(lines, ContentLength)
          IN  st.declared = IF lengths # <<>> /\ lengths[1] \in Nat THEN lengths[1] ELSE NoLength
      BY <2>3 DEF WriteHead, Written, lines
    <3> HIDE DEF st
    <3>5. st.lines \in Seq(L)
      BY <1>1, <3>2, WithoutFacts
    <3>6. h.status \in 100 .. 599 /\ (h.status >= 200 => h.status # 101) /\ (h.status < 200 => h.status = 101)
      <4>1. h.status \in 100 .. 599 /\ (h.status = 101 \/ h.status \notin 100 .. 199)
        BY <2>3
      <4> QED
        BY <1>2, <4>1
    <3>7. st.declared \in Nat \cup {NoLength}
      BY <3>4
    <3> QED
      BY <2>1, <3>1, <3>3, <3>5, <3>6, <3>7
  <2> QED
    BY <2>2, <2>3
<1> QED
  BY <1>3, <1>4

\* A field of the connection is no trailer.
LEMMA NoConnectionTrailer == \A n \in HopByHop : ~ TrailerAllowed(n)
<1> DEFINE T == { "age", "authorization", "cache-control", "connection", "content-encoding",
      "content-language", "content-length", "content-location", "content-range", "content-type",
      "cookie", "date", "expect", "expires", "forwarded", "host", "if-match", "if-modified-since",
      "if-none-match", "if-range", "if-unmodified-since", "keep-alive", "location", "max-forwards",
      "pragma", "proxy-authenticate", "proxy-authorization", "proxy-connection", "range",
      "retry-after", "set-cookie", "te", "trailer", "transfer-encoding", "upgrade", "vary", "via",
      "warning", "www-authenticate" }
<1>1. TrailerForbidden = {<<n>> : n \in T}
  BY DEF TrailerForbidden
<1>2. {"content-length", "transfer-encoding", "connection", "keep-alive", "upgrade", "trailer", "te",
       "proxy-connection"} \subseteq T
  OBVIOUS
<1> HIDE DEF T
<1> QED
  BY <1>1, <1>2 DEF HopByHop, ContentLength, TrailerAllowed

LEMMA HeadFramed ==
  ASSUME NEW h, HeadInput(h)
  PROVE  IsFramed(h)
<1> DEFINE frame == Frame(h)
           wire == ServePhp(frame)
           names == {l.name : l \in ToSet(wire.lines)}
           lengths == ValuesOf(wire.lines, ContentLength)
           bytes == IF frame.bodiless THEN 0 ELSE h.body
           complete == frame.bodiless \/ frame.length \in {NoLength, bytes}
           seen == ValuesOf(HyperLines(h.method, wire), ContentLength)
           passed == UNION ToSet(ValuesOf(frame.lines, <<"connection">>))
           length == IF wire.status \in {204, 304} THEN NoLength ELSE frame.length
<1>1. /\ \E L : frame.lines \in Seq(L)
      /\ frame.status \in 100 .. 599
      /\ h.method = "HEAD" \/ frame.status \in {204, 304} => frame.bodiless
      /\ frame.bodiless /\ frame.status >= 200 => h.method = "HEAD" \/ frame.status \in {204, 304}
      /\ frame.status < 200 => frame.bodiless
      /\ frame.bodiless /\ h.method # "HEAD" => frame.length \in Nat \cup {NoLength}
  BY FrameFacts
<1>0. Awaited(h) = IF h.method # "HEAD" /\ frame.status < 200 /\ frame.length > 0 THEN frame.length
                   ELSE IF frame.bodiless THEN 0
                   ELSE IF frame.length = NoLength THEN NoLength ELSE h.body
  BY DEF Awaited, ReplacedHead
<1> HIDE DEF frame
<1>2. /\ wire.status = (IF frame.status >= 200 THEN frame.status ELSE 502)
      /\ wire.lines = ResponseHeaders(frame.lines, length)
      /\ wire.empty = frame.bodiless
  BY DEF ServePhp
<1> HIDE DEF wire
<1>3. /\ names \cap ((HopByHop \cup passed) \ {ContentLength}) = {}
      /\ lengths = IF length = NoLength THEN <<>> ELSE <<length>>
      /\ \E K : wire.lines \in Seq(K)
  <2>1. PICK L : frame.lines \in Seq(L)
    BY <1>1
  <2> HIDE DEF length
  <2>2. /\ {l.name : l \in ToSet(ResponseHeaders(frame.lines, length))} \cap
              ((HopByHop \cup UNION ToSet(ValuesOf(frame.lines, <<"connection">>))) \ {ContentLength}) = {}
        /\ ValuesOf(ResponseHeaders(frame.lines, length), ContentLength) =
              IF length = NoLength THEN <<>> ELSE <<length>>
        /\ \E K : ResponseHeaders(frame.lines, length) \in Seq(K)
    <3> DEFINE fl == frame.lines
    <3> HIDE DEF fl
    <3>1. fl \in Seq(L)
      BY <2>1 DEF fl
    <3>2. /\ {l.name : l \in ToSet(ResponseHeaders(fl, length))} \cap
              ((HopByHop \cup UNION ToSet(ValuesOf(fl, <<"connection">>))) \ {ContentLength}) = {}
          /\ ValuesOf(ResponseHeaders(fl, length), ContentLength) =
              IF length = NoLength THEN <<>> ELSE <<length>>
          /\ \E K : ResponseHeaders(fl, length) \in Seq(K)
      BY <3>1, ResponseFacts
    <3> QED
      BY <3>2 DEF fl
  <2> QED
    BY <1>2, <2>2
<1>4. wire.status \in 200 .. 599 /\ (wire.status \in {204, 304} => wire.status = frame.status)
  <2> DEFINE a == frame.status
             b == wire.status
  <2>1. a \in 100 .. 599 /\ b = IF a >= 200 THEN a ELSE 502
    BY <1>1, <1>2
  <2> HIDE DEF a, b
  <2>2. b \in 200 .. 599 /\ (b \in {204, 304} => b = a)
    BY <2>1
  <2> QED
    BY <2>2 DEF a, b
<1>5. Len(<<>>) = 0 /\ Len(<<length>>) = 1 /\ <<length>> # <<>> /\ <<length>>[1] = length
  OBVIOUS
<1> HIDE DEF names, passed, lengths, seen
<1>6. Len(lengths) <= 1 /\ (wire.status \in {204, 304} => lengths = <<>>)
  BY <1>3, <1>5
<1>7. /\ lengths # <<>> => lengths[1] = length /\ length # NoLength
      /\ lengths = <<>> <=> length = NoLength
  BY <1>3, <1>5
<1>8. ASSUME complete
      PROVE  FramedLength(h.method, wire) = Awaited(h)
  <2>1. frame.status >= 200 => wire.status = frame.status /\ wire.status \notin 100 .. 199
    <3> SUFFICES ASSUME frame.status >= 200
                 PROVE  wire.status = frame.status /\ wire.status \notin 100 .. 199
      OBVIOUS
    <3>1. wire.status = frame.status
      BY <1>2
    <3>2. wire.status \in Int /\ wire.status >= 200
      BY <1>4, <3>1
    <3> QED
      BY <3>1, <3>2
  <2>2. frame.status < 200 => wire.status = 502
    <3> DEFINE a == frame.status
    <3>1. a \in 100 .. 599 /\ wire.status = IF a >= 200 THEN a ELSE 502
      BY <1>1, <1>2
    <3> HIDE DEF a
    <3>2. a < 200 => wire.status = 502
      BY <3>1
    <3> QED
      BY <3>2 DEF a
  <2>3. FramedLength(h.method, wire) =
          IF h.method = "HEAD" \/ wire.status \in {204, 304} \cup (100 .. 199) THEN 0
          ELSE IF lengths # <<>> THEN lengths[1]
          ELSE IF frame.bodiless THEN 0 ELSE NoLength
    BY <1>2 DEF FramedLength, lengths
  <2>4. frame.status < 200 \/ frame.status >= 200
    <3> DEFINE a == frame.status
    <3>1. a \in 100 .. 599
      BY <1>1
    <3> HIDE DEF a
    <3>2. a < 200 \/ a >= 200
      BY <3>1
    <3> QED
      BY <3>2 DEF a
  <2>5. CASE h.method = "HEAD"
    BY <1>0, <1>1, <2>3, <2>5
  <2>6. CASE h.method # "HEAD" /\ frame.status < 200
    <3>1. wire.status \notin {204, 304} \cup (100 .. 199) /\ length = frame.length
      BY <2>2, <2>6
    <3>2. /\ frame.bodiless /\ frame.length \in Nat \cup {NoLength}
          /\ FramedLength(h.method, wire) = IF frame.length = NoLength THEN 0 ELSE frame.length
          /\ Awaited(h) = IF frame.length > 0 THEN frame.length ELSE 0
      BY <1>0, <1>1, <1>7, <2>3, <2>6, <3>1
    <3> QED
      BY <3>2 DEF NoLength
  <2>7. CASE h.method # "HEAD" /\ frame.status >= 200
    <3> HIDE DEF length
    <3>1. Awaited(h) = IF frame.bodiless THEN 0
                       ELSE IF frame.length = NoLength THEN NoLength ELSE h.body
      <4>1. ~ (frame.status < 200)
        BY <1>1, <2>7
      <4> QED
        BY <1>0, <4>1
    <3>2. wire.status = frame.status /\ wire.status \notin 100 .. 199
      BY <2>1, <2>7
    <3>3. frame.bodiless <=> frame.status \in {204, 304}
      <4>1. frame.bodiless => frame.status \in {204, 304}
        BY <1>1, <2>7
      <4>2. frame.status \in {204, 304} => frame.bodiless
        BY <1>1
      <4> QED
        BY <4>1, <4>2
    <3>4. CASE frame.bodiless
      <4>1. FramedLength(h.method, wire) = 0
        BY <2>3, <3>2, <3>3, <3>4
      <4> QED
        BY <3>1, <3>4, <4>1
    <3>5. CASE ~ frame.bodiless
      <4>1. length = frame.length
        BY <3>2, <3>3, <3>5 DEF length
      <4>2. FramedLength(h.method, wire) = IF lengths # <<>> THEN lengths[1] ELSE NoLength
        BY <2>3, <2>7, <3>2, <3>3, <3>5
      <4> QED
        BY <1>7, <1>8, <3>1, <3>5, <4>1, <4>2
    <3> QED
      BY <3>4, <3>5
  <2> QED
    BY <2>4, <2>5, <2>6, <2>7
<1>9. ASSUME complete, seen # <<>>, h.method # "HEAD"
      PROVE  seen[1] = bytes
  <2>1. ~ frame.bodiless
    <3> SUFFICES ASSUME frame.bodiless
                 PROVE  FALSE
      OBVIOUS
    <3>1. HyperLines(h.method, wire) = Without(wire.lines, {ContentLength})
      BY <1>2, <1>9 DEF HyperLines
    <3>2. PICK K : wire.lines \in Seq(K)
      BY <1>3
    <3>3. /\ Without(wire.lines, {ContentLength}) \in Seq(K)
          /\ \A l \in ToSet(Without(wire.lines, {ContentLength})) : l.name # ContentLength
      <4> DEFINE wl == wire.lines
      <4> HIDE DEF wl
      <4>1. wl \in Seq(K)
        BY <3>2 DEF wl
      <4>2. /\ Without(wl, {ContentLength}) \in Seq(K)
            /\ \A l \in ToSet(Without(wl, {ContentLength})) : l.name # ContentLength
        BY <4>1, WithoutFacts
      <4> QED
        BY <4>2 DEF wl
    <3>4. ValuesOf(Without(wire.lines, {ContentLength}), ContentLength) = <<>>
      BY <3>3, NoSuchValue
    <3> QED
      BY <1>9, <3>1, <3>4 DEF seen
  <2>2. seen = lengths
    <3>1. HyperLines(h.method, wire) = wire.lines
      BY <1>2, <2>1 DEF HyperLines
    <3> QED
      BY <3>1 DEF seen, lengths
  <2>3. wire.status \notin {204, 304}
    BY <1>6, <1>9, <2>2
  <2> QED
    BY <1>7, <1>9, <2>1, <2>2, <2>3
<1> HIDE DEF bytes, complete, length
<1> QED
  BY <1>3, <1>4, <1>6, <1>8, <1>9, NoConnectionTrailer
     DEF IsFramed, frame, wire, names, lengths, seen, bytes, complete, passed

\* A part of a file answers a GET for it, by the validator of the file.
LEMMA ProbeAnswered ==
  ASSUME NEW p, ProbeInput(p), Serve(p) = "part"
  PROVE  p.method = "GET" /\ p.range /\ p.if_range \in {"none", p.etag}
<1> DEFINE range == p.range /\ p.method # "HEAD"
           probe == TryCall(p.outcome, range)
           stale == p.if_range \notin {"none", p.etag}
           served == IF probe = "part" /\ stale THEN TryCall(p.outcome, FALSE) ELSE probe
<1>1. p.method \in {"GET", "HEAD"} /\ served = "part"
  BY DEF Serve, Misses
<1>2. p.outcome = "file"
  BY <1>1 DEF TryCall, ProbeInput, Misses
<1>3. TryCall(p.outcome, FALSE) = "whole" /\ probe = IF range THEN "part" ELSE "whole"
  BY <1>2 DEF TryCall
<1> QED
  BY <1>1, <1>3

\* A reply head agrees with the bytes behind it, for the client and for the write
\* watermark, but for the watermark of a 101 with a length, which waits for that
\* length; a file is answered in part for the request that may have it: for
\* every head and every request (handler.rs, framed_length).
THEOREM HeadIsFramedAlways == RulesSpec => []HeadIsFramed
<1>1. InputIsTaken => HeadIsFramed
  <2> SUFFICES ASSUME InputIsTaken
               PROVE  HeadIsFramed
    OBVIOUS
  <2>1. input.kind = "head" => IsFramed(input.of)
    BY RulesInputs, HeadFramed DEF InputIsTaken
  <2>2. ASSUME input.kind = "probe", Serve(input.of) = "part"
        PROVE  input.of.method = "GET" /\ input.of.range /\ input.of.if_range \in {"none", input.of.etag}
    <3>1. ProbeInput(input.of)
      BY <2>2, RulesInputs DEF InputIsTaken
    <3> QED
      BY <2>2, <3>1, ProbeAnswered
  <2> QED
    BY <2>1, <2>2 DEF HeadIsFramed
<1> QED
  BY <1>1, TakenThroughout, PTL

-----------------------------------------------------------------------------
(* Requests.                                                               *)

\* The lines that belong to a set.
LinesIn(lines, Q) == Kept(lines, {i \in DOMAIN lines : lines[i] \in Q})

LEMMA LinesInAppend ==
  ASSUME NEW L, NEW lines \in Seq(L), NEW l \in L, NEW Q
  PROVE  LinesIn(Append(lines, l), Q) = IF l \in Q THEN Append(LinesIn(lines, Q), l) ELSE LinesIn(lines, Q)
<1> DEFINE a == Append(lines, l)
           I == {i \in DOMAIN a : a[i] \in Q}
           J == {i \in DOMAIN lines : lines[i] \in Q}
           n == Len(lines) + 1
<1>1. /\ DOMAIN lines = 1 .. Len(lines) /\ a[n] = l /\ n \in DOMAIN a
      /\ \A i \in 1 .. Len(lines) : a[i] = lines[i] /\ i \in DOMAIN a
  BY AppendFacts
<1> HIDE DEF a
<1>2. n \in I <=> l \in Q
  BY <1>1
<1>3. \A i \in DOMAIN lines : i \in I <=> i \in J
  BY <1>1
<1> HIDE DEF I, J, n
<1>4. Kept(lines, I) = Kept(lines, J)
  BY <1>3, KeptSame
<1>5. Kept(a, I) = IF n \in I THEN Append(Kept(lines, I), l) ELSE Kept(lines, I)
  BY KeptAppend DEF a, n
<1>6. LinesIn(a, Q) = Kept(a, I) /\ LinesIn(lines, Q) = Kept(lines, J)
  BY DEF LinesIn, I, J
<1> QED
  BY <1>2, <1>4, <1>5, <1>6 DEF a

\* A selection that keeps every line of a name keeps its values.
LEMMA ValuesOfLinesIn ==
  ASSUME NEW L, NEW Q, NEW name, \A l \in L : l.name = name => l \in Q
  PROVE  \A lines \in Seq(L) : ValuesOf(LinesIn(lines, Q), name) = ValuesOf(lines, name)
<1> DEFINE P == {s \in Seq(L) : LinesIn(s, Q) \in Seq(L) /\ ValuesOf(LinesIn(s, Q), name) = ValuesOf(s, name)}
<1>1. <<>> \in P
  <2>1. LinesIn(<<>>, Q) = <<>>
    BY KeptOfNone DEF LinesIn
  <2> QED
    BY <2>1, EmptySeq
<1>2. ASSUME NEW s \in Seq(L), NEW l \in L, s \in P
      PROVE  Append(s, l) \in P
  <2> DEFINE k == LinesIn(s, Q)
             a == Append(s, l)
  <2>1. k \in Seq(L) /\ ValuesOf(k, name) = ValuesOf(s, name)
    BY <1>2
  <2>2. LinesIn(a, Q) = IF l \in Q THEN Append(k, l) ELSE k
    BY LinesInAppend
  <2>3. a \in Seq(L)
    BY AppendProperties
  <2>4. ValuesOf(a, name) = IF l.name = name THEN Append(ValuesOf(s, name), l.value) ELSE ValuesOf(s, name)
    BY ValuesAppend
  <2> HIDE DEF k, a
  <2>5. ValuesOf(Append(k, l), name) = IF l.name = name THEN Append(ValuesOf(k, name), l.value) ELSE ValuesOf(k, name)
    <3>1. k \in Seq(L) /\ l \in L
      BY <2>1
    <3> QED
      BY <3>1, ValuesAppend
  <2>6. Append(k, l) \in Seq(L)
    BY <2>1, AppendProperties
  <2>7. LinesIn(a, Q) \in Seq(L)
    BY <2>1, <2>2, <2>6
  <2>8. ValuesOf(LinesIn(a, Q), name) = ValuesOf(a, name)
    <3>1. CASE l \in Q
      BY <2>1, <2>2, <2>4, <2>5, <3>1
    <3>2. CASE l \notin Q
      BY <2>1, <2>2, <2>4, <3>2
    <3> QED
      BY <3>1, <3>2
  <2> QED
    BY <2>3, <2>7, <2>8 DEF a
<1>3. Seq(L) \subseteq P
  <2> HIDE DEF P
  <2> QED
    BY <1>1, <1>2, SeqInduction
<1> QED
  BY <1>3

\* The names of a map are those of its lines.
LEMMA KeysFacts ==
  ASSUME NEW L, NEW lines \in Seq(L)
  PROVE  /\ Keys(lines) \in Seq({l.name : l \in L})
         /\ \A i \in DOMAIN Keys(lines) : \E l \in ToSet(lines) : Keys(lines)[i] = l.name
<1> DEFINE N == {l.name : l \in L}
           I == {i \in DOMAIN lines : \A j \in 1 .. i - 1 : lines[j].name # lines[i].name}
           s == NamesIn(lines)
<1>1. s \in Seq(N)
  BY NamesType
<1>2. Keys(lines) = Kept(s, I)
  BY DEF Keys, NamesIn
<1>3. DOMAIN s = DOMAIN lines /\ \A i \in DOMAIN lines : s[i] = lines[i].name
  BY DEF NamesIn
<1> HIDE DEF N, I, s
<1>4. Kept(s, I) \in Seq(N) /\ ToSet(Kept(s, I)) = {s[i] : i \in I \cap DOMAIN s}
  BY <1>1, KeptType, ToSetOfKept
<1>5. ASSUME NEW i \in DOMAIN Keys(lines)
      PROVE  \E l \in ToSet(lines) : Keys(lines)[i] = l.name
  <2>1. Keys(lines)[i] \in ToSet(Kept(s, I))
    BY <1>2 DEF ToSet
  <2>2. PICK j \in DOMAIN lines : Keys(lines)[i] = s[j]
    BY <1>3, <1>4, <2>1
  <2> QED
    BY <1>3, <2>2 DEF ToSet
<1> QED
  BY <1>2, <1>4, <1>5 DEF N

\* Two safe names have two CGI names, and none is a variable of the server's own.
Dash == "_"
Dashed(name) == [i \in DOMAIN name |-> IF name[i] \in {"-", "."} THEN Dash ELSE name[i]]

LEMMA CgiNameFacts ==
  ASSUME NEW C, "HTTP_" \in C, Dash \in C, NEW a \in Seq(C)
  PROVE  /\ Dashed(a) \in Seq(C) /\ Len(Dashed(a)) = Len(a)
         /\ Len(CgiHeaderName(a)) = 1 + Len(a)
         /\ CgiHeaderName(a)[1] = "HTTP_"
         /\ \A i \in 1 .. Len(a) : CgiHeaderName(a)[1 + i] = Dashed(a)[i]
<1> DEFINE d == Dashed(a)
           h == <<"HTTP_">>
<1>1. Len(a) \in Nat /\ DOMAIN a = 1 .. Len(a) /\ \A i \in 1 .. Len(a) : a[i] \in C
  BY LenProperties, ElementOfSeq
<1>2. DOMAIN d = 1 .. Len(a) /\ d = [i \in 1 .. Len(a) |-> d[i]] /\ \A i \in 1 .. Len(a) : d[i] \in C
  BY <1>1 DEF Dashed
<1>3. CgiHeaderName(a) = h \o d
  BY DEF CgiHeaderName, Dashed, Dash
<1>4. h \in Seq(C) /\ Len(h) = 1 /\ h[1] = "HTTP_"
  BY OneIsSeq
<1> HIDE DEF d, h
<1>5. d \in Seq(C) /\ Len(d) = Len(a)
  BY <1>1, <1>2, MapType
<1>6. /\ Len(h \o d) = Len(h) + Len(d)
      /\ \A i \in 1 .. Len(h) + Len(d) : (h \o d)[i] = IF i <= Len(h) THEN h[i] ELSE d[i - Len(h)]
  BY <1>4, <1>5, ConcatProperties
<1>7. (h \o d)[1] = "HTTP_"
  <2> DEFINE n == Len(d)
  <2>1. n \in Nat
    BY <1>1, <1>5
  <2>2. \A i \in 1 .. 1 + n : (h \o d)[i] = IF i <= 1 THEN h[i] ELSE d[i - 1]
    BY <1>4, <1>6
  <2> HIDE DEF n
  <2>3. ASSUME NEW k, k = 1
        PROVE  (h \o d)[k] = h[k]
    <3>1. k \in 1 .. 1 + n /\ k <= 1
      BY <2>1, <2>3
    <3> QED
      BY <2>2, <3>1
  <2>4. (h \o d)[1] = h[1]
    BY <2>3
  <2> QED
    BY <1>4, <2>4
<1>8. ASSUME NEW i \in 1 .. Len(a)
      PROVE  (h \o d)[1 + i] = d[i]
  <2>1. ASSUME NEW k, k = 1 + i
        PROVE  (h \o d)[k] = d[i]
    <3> DEFINE n == Len(d)
    <3>1. n \in Nat /\ i \in 1 .. n
      BY <1>1, <1>5
    <3>2. \A j \in 1 .. 1 + n : (h \o d)[j] = IF j <= 1 THEN h[j] ELSE d[j - 1]
      BY <1>4, <1>6
    <3> HIDE DEF n
    <3>3. k \in 1 .. 1 + n /\ ~ (k <= 1) /\ k - 1 = i
      BY <2>1, <3>1
    <3> QED
      BY <3>2, <3>3
  <2> QED
    BY <2>1
<1> QED
  BY <1>3, <1>4, <1>5, <1>6, <1>7, <1>8 DEF d

LEMMA CgiNamesDiffer ==
  ASSUME NEW C, "HTTP_" \in C, Dash \in C, NEW a \in Seq(C), NEW b \in Seq(C), SafeFieldName(a), SafeFieldName(b),
         CgiHeaderName(a) = CgiHeaderName(b)
  PROVE  a = b
<1>1. /\ Len(CgiHeaderName(a)) = 1 + Len(a) /\ Len(CgiHeaderName(b)) = 1 + Len(b)
      /\ \A i \in 1 .. Len(a) : CgiHeaderName(a)[1 + i] = Dashed(a)[i]
      /\ \A i \in 1 .. Len(b) : CgiHeaderName(b)[1 + i] = Dashed(b)[i]
  BY CgiNameFacts
<1>2. /\ Len(a) \in Nat /\ DOMAIN a = 1 .. Len(a) /\ Len(b) \in Nat /\ DOMAIN b = 1 .. Len(b)
  BY LenProperties
<1>3. Len(a) = Len(b)
  <2> DEFINE n == Len(a)
             m == Len(b)
  <2>1. n \in Nat /\ m \in Nat /\ 1 + n = 1 + m
    BY <1>1, <1>2
  <2> HIDE DEF n, m
  <2>2. n = m
    BY <2>1
  <2> QED
    BY <2>2 DEF n, m
<1>4. ASSUME NEW i \in 1 .. Len(a)
      PROVE  a[i] = b[i]
  <2>1. Dashed(a)[i] = Dashed(b)[i]
    BY <1>1, <1>3
  <2>2. i \in DOMAIN a /\ i \in DOMAIN b
    BY <1>2, <1>3
  <2>3. a[i] \notin {Dash, "."} /\ b[i] \notin {Dash, "."}
    BY <2>2, Zenon DEF SafeFieldName, Marks, ToSet, Dash
  <2>4. /\ Dashed(a)[i] = IF a[i] \in {"-", "."} THEN Dash ELSE a[i]
        /\ Dashed(b)[i] = IF b[i] \in {"-", "."} THEN Dash ELSE b[i]
    BY <2>2 DEF Dashed
  <2> QED
    BY <2>1, <2>3, <2>4
<1> QED
  BY <1>3, <1>4, SeqEqual

\* The one value of a name is made of the values of its lines.
JoinedText(values, name) ==
  LET rest == [i \in DOMAIN Tail(values) |-> <<FieldLineSeparator(name), Tail(values)[i]>>]
  IN <<values[1]>> \o IF name \in Singletons THEN <<>> ELSE FlattenSeq(rest)

LEMMA JoinedOfValues == \A lines, name : JoinedField(lines, name) = JoinedText(ValuesOf(lines, name), name)
BY DEF JoinedField, JoinedText

\* Every field of safe names has a CGI variable, of its own value.
LEMMA HeaderVarsFacts ==
  ASSUME NEW C, "HTTP_" \in C, Dash \in C, NEW L, \A l \in L : l.name \in Seq(C) /\ SafeFieldName(l.name),
         NEW lines \in Seq(L), NEW length
  PROVE  /\ \A i \in DOMAIN Keys(lines) :
              CgiHeaderVars(lines, length)[CgiHeaderName(Keys(lines)[i])] = JoinedField(lines, Keys(lines)[i])
         /\ DOMAIN CgiHeaderVars(lines, length) =
              {CgiHeaderName(Keys(lines)[i]) : i \in DOMAIN Keys(lines)} \cup {<<"CONTENT_LENGTH">>}
         /\ \A i \in DOMAIN Keys(lines) : CgiHeaderName(Keys(lines)[i])[1] = "HTTP_"
         /\ CgiHeaderVars(lines, length)[<<"CONTENT_LENGTH">>] = <<length>>
<1> DEFINE keys == Keys(lines)
           puts(var) == {i \in DOMAIN keys : CgiHeaderName(keys[i]) = var}
           fields == {CgiHeaderName(keys[i]) : i \in DOMAIN keys}
           own == <<"CONTENT_LENGTH">>
           value(var) == IF var \in fields THEN JoinedField(lines, keys[Max(puts(var))]) ELSE <<length>>
           table == CgiHeaderVars(lines, length)
<1>1. keys \in Seq({l.name : l \in L})
  BY KeysFacts
<1>2. table = [var \in fields \cup {own} |-> value(var)]
  BY DEF CgiHeaderVars
<1> HIDE DEF keys, table
<1>3. Len(keys) \in Nat /\ DOMAIN keys = 1 .. Len(keys)
  BY <1>1, LenProperties
<1>4. ASSUME NEW i \in DOMAIN keys
      PROVE  keys[i] \in Seq(C) /\ SafeFieldName(keys[i])
  <2>1. keys[i] \in {l.name : l \in L}
    BY <1>1, <1>3, ElementOfSeq
  <2> QED
    BY <2>1
<1>5. ASSUME NEW i \in DOMAIN keys
      PROVE  CgiHeaderName(keys[i])[1] = "HTTP_"
  <2>1. keys[i] \in Seq(C)
    BY <1>4
  <2> QED
    BY <2>1, CgiNameFacts
<1>6. own \notin fields
  <2>1. own[1] = "CONTENT_LENGTH"
    OBVIOUS
  <2> HIDE DEF own
  <2> QED
    BY <1>5, <2>1
<1>7. ASSUME NEW i \in DOMAIN keys
      PROVE  keys[Max(puts(CgiHeaderName(keys[i])))] = keys[i]
  <2> DEFINE X == puts(CgiHeaderName(keys[i]))
             m == Max(X)
  <2>1. X \in SUBSET (0 .. Len(keys)) /\ X # {}
    BY <1>3
  <2>2. m \in X
    <3> HIDE DEF X
    <3> QED
      BY <1>3, <2>1, MaxFacts
  <2>3. m \in DOMAIN keys /\ CgiHeaderName(keys[m]) = CgiHeaderName(keys[i])
    BY <2>2
  <2> HIDE DEF m
  <2>4. /\ keys[m] \in Seq(C) /\ SafeFieldName(keys[m])
        /\ keys[i] \in Seq(C) /\ SafeFieldName(keys[i])
    BY <1>4, <2>3
  <2>5. keys[m] = keys[i]
    BY <2>3, <2>4, CgiNamesDiffer
  <2> QED
    BY <2>5 DEF m
<1>8. ASSUME NEW i \in DOMAIN keys
      PROVE  table[CgiHeaderName(keys[i])] = JoinedField(lines, keys[i])
  <2> DEFINE var == CgiHeaderName(keys[i])
  <2>1. var \in fields
    OBVIOUS
  <2>2. keys[Max(puts(var))] = keys[i]
    BY <1>7
  <2>3. value(var) = JoinedField(lines, keys[i])
    BY <2>1, <2>2
  <2> HIDE DEF var, value, fields, own
  <2>4. table[var] = value(var)
    BY <1>2, <2>1
  <2> QED
    BY <2>3, <2>4 DEF var
<1>9. table[own] = <<length>>
  <2>1. value(own) = <<length>>
    BY <1>6
  <2> HIDE DEF value, fields, own
  <2> QED
    BY <1>2, <2>1
<1>10. DOMAIN table = fields \cup {own}
  <2> HIDE DEF value, fields, own
  <2> QED
    BY <1>2
<1> QED
  BY <1>5, <1>8, <1>9, <1>10 DEF keys, table

\* A text is what stands before a mark, the mark, and what stands behind it.
LEMMA FindFacts ==
  ASSUME NEW C, NEW s \in Seq(C), NEW c
  PROVE  /\ Find(s, {c}, 1) \in 1 .. Len(s) + 1
         /\ \A i \in 1 .. Len(s) : i < Find(s, {c}, 1) => s[i] # c
         /\ Find(s, {c}, 1) <= Len(s) => s[Find(s, {c}, 1)] = c
         /\ c \in ToSet(s) <=> Find(s, {c}, 1) <= Len(s)
<1> DEFINE X == {i \in 1 .. Len(s) : s[i] \in {c}} \cup {Len(s) + 1}
           m == Min(X)
<1>1. Len(s) \in Nat /\ DOMAIN s = 1 .. Len(s)
  BY LenProperties
<1>2. X \in SUBSET Nat /\ X # {}
  BY <1>1
<1>3. m \in X /\ m \in Nat /\ \A x \in X : m <= x
  <2> HIDE DEF X
  <2> QED
    BY <1>2, MinFacts
<1>4. m = Find(s, {c}, 1)
  BY DEF Find
<1> HIDE DEF m
<1>5. m \in 1 .. Len(s) + 1
  BY <1>1, <1>3
<1>6. \A i \in 1 .. Len(s) : i < m => s[i] # c
  BY <1>1, <1>3
<1>7. m <= Len(s) => s[m] = c
  BY <1>1, <1>3
<1>8. c \in ToSet(s) <=> m <= Len(s)
  BY <1>1, <1>5, <1>6, <1>7 DEF ToSet
<1> QED
  BY <1>4, <1>5, <1>6, <1>7, <1>8

LEMMA TwoPartsJoin ==
  ASSUME NEW C, NEW s \in Seq(C), NEW c \in C, NEW mark, mark = Find(s, {c}, 1)
  PROVE  SubSeq(s, 1, mark - 1) \o (IF c \in ToSet(s) THEN <<c>> ELSE <<>>) \o SubSeq(s, mark + 1, Len(s)) = s
<1> DEFINE n == Len(s)
           a == SubSeq(s, 1, mark - 1)
           m == IF c \in ToSet(s) THEN <<c>> ELSE <<>>
           b == SubSeq(s, mark + 1, Len(s))
           k == Len(m)
<1>1. n \in Nat
  BY LenProperties
<1>2. /\ mark \in 1 .. n + 1
      /\ mark <= n => s[mark] = c
      /\ c \in ToSet(s) <=> mark <= n
  BY FindFacts
<1>3. m \in Seq(C) /\ k = (IF mark <= n THEN 1 ELSE 0) /\ (mark <= n => m[1] = c)
  <2>1. <<c>> \in Seq(C) /\ Len(<<c>>) = 1 /\ <<c>>[1] = c
    BY OneIsSeq
  <2>2. <<>> \in Seq(C) /\ Len(<<>>) = 0
    BY EmptySeq
  <2>3. CASE mark <= n
    <3>1. m = <<c>>
      BY <1>2, <2>3
    <3> HIDE DEF m
    <3> QED
      BY <2>1, <2>3, <3>1
  <2>4. CASE ~ (mark <= n)
    <3>1. m = <<>>
      BY <1>2, <2>4
    <3> HIDE DEF m
    <3> QED
      BY <2>2, <2>4, <3>1
  <2> QED
    BY <2>3, <2>4
<1>4. /\ a \in Seq(C) /\ Len(a) = mark - 1
      /\ \A i \in 1 .. mark - 1 : a[i] = s[i]
  <2> DEFINE hi == mark - 1
             lo == 1
  <2>1. lo \in Nat \ {0} /\ hi \in Nat /\ hi <= Len(s)
    BY <1>1, <1>2
  <2> HIDE DEF hi, lo
  <2>0. /\ SubSeq(s, lo, hi) \in Seq(C)
        /\ Len(SubSeq(s, lo, hi)) = IF lo <= hi THEN hi - lo + 1 ELSE 0
        /\ \A i \in 1 .. hi - lo + 1 : SubSeq(s, lo, hi)[i] = s[lo + i - 1]
    BY <2>1, SubSeqFacts
  <2>2. /\ a \in Seq(C)
        /\ Len(a) = IF 1 <= mark - 1 THEN mark - 1 - 1 + 1 ELSE 0
        /\ \A i \in 1 .. mark - 1 - 1 + 1 : a[i] = s[1 + i - 1]
    BY <2>0 DEF hi, lo
  <2> HIDE DEF a, n
  <2>3. Len(a) = mark - 1
    BY <1>1, <1>2, <2>2
  <2>4. ASSUME NEW i \in 1 .. mark - 1
        PROVE  a[i] = s[i]
    <3>1. i \in 1 .. mark - 1 - 1 + 1 /\ 1 + i - 1 = i
      BY <1>1, <1>2
    <3> QED
      BY <2>2, <3>1
  <2> QED
    BY <2>2, <2>3, <2>4
<1>5. /\ b \in Seq(C) /\ Len(b) = (IF mark <= n THEN n - mark ELSE 0)
      /\ \A i \in 1 .. n - mark : b[i] = s[mark + i]
  <2> DEFINE lo == mark + 1
             hi == n
  <2>1. lo \in Nat \ {0} /\ hi \in Nat /\ hi <= Len(s)
    BY <1>1, <1>2
  <2> HIDE DEF hi, lo
  <2>0. /\ SubSeq(s, lo, hi) \in Seq(C)
        /\ Len(SubSeq(s, lo, hi)) = IF lo <= hi THEN hi - lo + 1 ELSE 0
        /\ \A i \in 1 .. hi - lo + 1 : SubSeq(s, lo, hi)[i] = s[lo + i - 1]
    BY <2>1, SubSeqFacts
  <2>2. /\ b \in Seq(C)
        /\ Len(b) = IF mark + 1 <= n THEN n - (mark + 1) + 1 ELSE 0
        /\ \A i \in 1 .. n - (mark + 1) + 1 : b[i] = s[mark + 1 + i - 1]
    BY <2>0 DEF hi, lo
  <2> HIDE DEF b, n
  <2>3. Len(b) = IF mark <= n THEN n - mark ELSE 0
    BY <1>1, <1>2, <2>2
  <2>4. ASSUME NEW i \in 1 .. n - mark
        PROVE  b[i] = s[mark + i]
    <3>1. i \in 1 .. n - (mark + 1) + 1 /\ mark + 1 + i - 1 = mark + i
      BY <1>1, <1>2
    <3> QED
      BY <2>2, <3>1
  <2> QED
    BY <2>2, <2>3, <2>4
<1> DEFINE am == a \o m
           all == am \o b
<1> HIDE DEF a, m, b, k
<1>6. /\ am \in Seq(C) /\ Len(am) = Len(a) + Len(m)
      /\ \A i \in 1 .. Len(a) + Len(m) : am[i] = IF i <= Len(a) THEN a[i] ELSE m[i - Len(a)]
  BY <1>3, <1>4, ConcatProperties
<1> HIDE DEF am
<1>7. /\ all \in Seq(C) /\ Len(all) = Len(am) + Len(b)
      /\ \A i \in 1 .. Len(am) + Len(b) : all[i] = IF i <= Len(am) THEN am[i] ELSE b[i - Len(am)]
  <2>1. am \in Seq(C) /\ b \in Seq(C)
    BY <1>5, <1>6
  <2> QED
    BY <2>1, ConcatProperties
<1> DEFINE la == Len(a)
           lm == Len(m)
           lb == Len(b)
           lam == Len(am)
<1>8. /\ la = mark - 1 /\ lm = (IF mark <= n THEN 1 ELSE 0)
      /\ lb = (IF mark <= n THEN n - mark ELSE 0) /\ lam = la + lm
  BY <1>3, <1>4, <1>5, <1>6 DEF k
<1>9. /\ Len(all) = lam + lb
      /\ \A i \in 1 .. la + lm : am[i] = IF i <= la THEN a[i] ELSE m[i - la]
      /\ \A i \in 1 .. lam + lb : all[i] = IF i <= lam THEN am[i] ELSE b[i - lam]
  BY <1>6, <1>7
<1> HIDE DEF la, lm, lb, lam, all, n
<1>10. Len(all) = n
  BY <1>1, <1>2, <1>8, <1>9
<1>11. ASSUME NEW i \in 1 .. n
       PROVE  all[i] = s[i]
  <2>0. i \in 1 .. lam + lb
    BY <1>1, <1>2, <1>8
  <2>1. CASE i < mark
    <3>1. i <= lam /\ i \in 1 .. la + lm /\ i <= la /\ i \in 1 .. mark - 1
      BY <1>1, <1>2, <1>8, <2>1
    <3> QED
      BY <1>4, <1>9, <2>0, <3>1
  <2>2. CASE i = mark
    <3>0. mark <= n
      BY <2>2
    <3>3. la = mark - 1 /\ lm = 1 /\ lam = la + lm /\ mark \in 1 .. n
      BY <1>8, <2>2, <3>0
    <3>4. la = i - 1 /\ i \in Int
      BY <2>2, <3>3
    <3>5. la + lm = i /\ lam = i
      BY <3>3, <3>4
    <3>6. i - la = 1 /\ ~ (i <= la)
      BY <3>4
    <3>1. i <= lam /\ i \in 1 .. la + lm /\ ~ (i <= la) /\ i - la = 1 /\ mark <= n
      BY <3>0, <3>4, <3>5, <3>6
    <3>2. all[i] = m[1]
      BY <1>9, <2>0, <3>1
    <3> QED
      BY <1>2, <1>3, <2>2, <3>1, <3>2
  <2>3. CASE i > mark
    <3>1. ~ (i <= lam) /\ i - lam = i - mark /\ i - mark \in 1 .. n - mark /\ mark + (i - mark) = i
      BY <1>1, <1>2, <1>8, <2>3
    <3> QED
      BY <1>5, <1>9, <2>0, <3>1
  <2> QED
    BY <1>1, <1>2, <2>1, <2>2, <2>3
<1>12. all = s
  <2>1. Len(all) = Len(s) /\ \A i \in 1 .. Len(s) : all[i] = s[i]
    BY <1>10, <1>11 DEF n
  <2>2. all \in Seq(C)
    BY <1>7
  <2> QED
    BY <2>1, <2>2, SeqEqual
<1> QED
  BY <1>12 DEF all, am, a, m, b

\* The checks pass on the lines with a safe name, and nothing else.
Checked(http11, lines) == CheckRequest(http11, lines, TRUE)

LEMMA CheckedLines ==
  ASSUME NEW http11, NEW lines, Checked(http11, lines).status = 200
  PROVE  Checked(http11, lines).lines = Kept(lines, {i \in DOMAIN lines : SafeFieldName(lines[i].name)})
<1> DEFINE hosts == ValuesOf(lines, Host)
           safe == Kept(lines, {i \in DOMAIN lines : SafeFieldName(lines[i].name)})
           kept == IF TRUE THEN safe ELSE lines
           declared == ValuesOf(kept, ContentLength)
           authority == IF hosts = <<>> THEN "" ELSE hosts[1]
           passed == [status |-> 200, authority |-> authority, lines |-> kept]
           checked == Checked(http11, lines)
           many == Len(hosts) > 1 \/ (http11 /\ authority = "")
           large == declared # <<>> /\ declared[1] \in Nat /\ declared[1] > MaxBody
<1>0. checked = IF many THEN Rejection(400) ELSE IF large THEN Rejection(413) ELSE passed
  BY DEF CheckRequest, Checked
<1>1. checked \in {Rejection(400), Rejection(413), passed}
  <2> HIDE DEF many, large, passed, checked
  <2> QED
    BY <1>0
<1>2. Rejection(400).status = 400 /\ Rejection(413).status = 413
  BY DEF Rejection
<1>3. passed.lines = safe
  OBVIOUS
<1>4. checked.status = 200
  OBVIOUS
<1> HIDE DEF checked, passed, safe
<1>5. checked = passed
  <2>1. checked # Rejection(400)
    BY <1>2, <1>4
  <2>2. checked # Rejection(413)
    BY <1>2, <1>4
  <2> QED
    BY <1>1, <2>1, <2>2
<1> QED
  BY <1>3, <1>5 DEF checked, safe

\* The server's own variables, and those of the fields.
LEMMA ServerVariablesFacts ==
  ASSUME NEW uri, NEW lines, NEW length
  PROVE  LET cgi == CgiHeaderVars(lines, length)
             table == ServerVariables(uri, lines, length)
             mark == Find(uri, {"?"}, 1)
         IN /\ \A var \in DOMAIN cgi : table[var] = cgi[var]
            /\ <<"DOCUMENT_URI">> \notin DOMAIN cgi =>
                 table[<<"DOCUMENT_URI">>] = SubSeq(uri, 1, mark - 1)
            /\ <<"QUERY_STRING">> \notin DOMAIN cgi =>
                 table[<<"QUERY_STRING">>] = SubSeq(uri, mark + 1, Len(uri))
<1> DEFINE cgi == CgiHeaderVars(lines, length)
           table == ServerVariables(uri, lines, length)
           mark == Find(uri, {"?"}, 1)
           first(name) == IF ValuesOf(lines, name) = <<>> THEN <<>> ELSE <<ValuesOf(lines, name)[1]>>
           own == [REQUEST_URI |-> uri,
                   DOCUMENT_URI |-> SubSeq(uri, 1, mark - 1),
                   QUERY_STRING |-> SubSeq(uri, mark + 1, Len(uri)),
                   CONTENT_TYPE |-> first(<<"content-type">>),
                   AUTH_TYPE |-> first(<<"authorization">>)]
           named == {n \in DOMAIN own : n = "CONTENT_TYPE" => own[n] # <<>>}
           names == {<<n>> : n \in named}
           value(var) == IF var \in DOMAIN cgi THEN cgi[var] ELSE own[var[1]]
<1>1. table = [var \in DOMAIN cgi \cup names |-> value(var)]
  BY DEF ServerVariables
<1> HIDE DEF cgi, table, mark, first
<1>2. /\ own["DOCUMENT_URI"] = SubSeq(uri, 1, mark - 1)
      /\ own["QUERY_STRING"] = SubSeq(uri, mark + 1, Len(uri))
      /\ "DOCUMENT_URI" \in DOMAIN own /\ "QUERY_STRING" \in DOMAIN own
  OBVIOUS
<1> HIDE DEF own
<1>3. <<"DOCUMENT_URI">> \in names /\ <<"QUERY_STRING">> \in names
  <2>1. "DOCUMENT_URI" \in named /\ "QUERY_STRING" \in named
    BY <1>2
  <2> HIDE DEF named
  <2> QED
    BY <2>1
<1>4. <<"DOCUMENT_URI">>[1] = "DOCUMENT_URI" /\ <<"QUERY_STRING">>[1] = "QUERY_STRING"
  OBVIOUS
<1> HIDE DEF names
<1>5. ASSUME NEW var \in DOMAIN cgi
      PROVE  table[var] = cgi[var]
  BY <1>1
<1>6. ASSUME NEW var \in names, var \notin DOMAIN cgi
      PROVE  table[var] = own[var[1]]
  BY <1>1, <1>6
<1>7. ASSUME <<"DOCUMENT_URI">> \notin DOMAIN cgi
      PROVE  table[<<"DOCUMENT_URI">>] = SubSeq(uri, 1, mark - 1)
  BY <1>2, <1>3, <1>4, <1>6, <1>7
<1>8. ASSUME <<"QUERY_STRING">> \notin DOMAIN cgi
      PROVE  table[<<"QUERY_STRING">>] = SubSeq(uri, mark + 1, Len(uri))
  BY <1>2, <1>3, <1>4, <1>6, <1>8
<1> QED
  BY <1>5, <1>7, <1>8 DEF cgi, table, mark

\* The names of the server's own variables are no names of fields.
LEMMA OwnNames ==
  ASSUME NEW F, \A f \in F : f[1] = "HTTP_"
  PROVE  /\ <<"DOCUMENT_URI">> \notin F \cup {<<"CONTENT_LENGTH">>}
         /\ <<"QUERY_STRING">> \notin F \cup {<<"CONTENT_LENGTH">>}
<1> DEFINE d == <<"DOCUMENT_URI">>
           q == <<"QUERY_STRING">>
           c == <<"CONTENT_LENGTH">>
<1>1. d[1] = "DOCUMENT_URI" /\ q[1] = "QUERY_STRING" /\ c[1] = "CONTENT_LENGTH"
  OBVIOUS
<1> HIDE DEF d, q, c
<1>2. d \notin F \cup {c} /\ q \notin F \cup {c}
  BY <1>1
<1> QED
  BY <1>2 DEF d, q, c

\* Every CGI variable and every list of the Request object is that of one field,
\* and the URI is what the two variables of it say.
LEMMA RequestNamed ==
  ASSUME NEW r, RequestInput(r)
  PROVE  CgiNamesOneField(r)
<1> DEFINE checked == Checked(r.http11, r.lines)
           kept == checked.lines
           cgi == CgiHeaderVars(kept, 7)
           table == ServerVariables(r.uri, kept, 7)
           lists == HeaderLists(kept)
           keys == Keys(kept)
           C == STRING \cup {"HTTP_", Dash, "?"}
           L == ToSet(r.lines)
           Q == {l \in L : SafeFieldName(l.name)}
           mark == Find(r.uri, {"?"}, 1)
           doc == <<"DOCUMENT_URI">>
           query == <<"QUERY_STRING">>
           size == <<"CONTENT_LENGTH">>
<1>0. SUFFICES ASSUME checked.status = 200
               PROVE  /\ \A i \in DOMAIN lists :
                         /\ table[CgiHeaderName(lists[i].name)] = JoinedField(r.lines, lists[i].name)
                         /\ lists[i].values = ValuesOf(r.lines, lists[i].name)
                    /\ table[size] = <<7>>
                    /\ table[doc] \o (IF "?" \in ToSet(r.uri) THEN <<"?">> ELSE <<>>) \o table[query] = r.uri
  BY DEF CgiNamesOneField, Checked
<1>1. r.lines \in Seq(L) /\ r.uri \in Seq(STRING) /\ \A l \in L : l.name \in Seq(STRING)
  BY DEF RequestInput
<1>2. kept = LinesIn(r.lines, Q)
  <2>1. kept = Kept(r.lines, {i \in DOMAIN r.lines : SafeFieldName(r.lines[i].name)})
    <3> DEFINE h == r.http11
               s == r.lines
    <3>1. Checked(h, s).status = 200
      BY <1>0
    <3> HIDE DEF h, s
    <3>2. Checked(h, s).lines = Kept(s, {i \in DOMAIN s : SafeFieldName(s[i].name)})
      BY <3>1, CheckedLines
    <3> QED
      BY <3>2 DEF h, s
  <2>2. {i \in DOMAIN r.lines : SafeFieldName(r.lines[i].name)} = {i \in DOMAIN r.lines : r.lines[i] \in Q}
    BY DEF ToSet
  <2> QED
    BY <2>1, <2>2 DEF LinesIn
<1> HIDE DEF checked, C, L, Q
<1>3. kept \in Seq(Q)
  <2> DEFINE I == {i \in DOMAIN r.lines : r.lines[i] \in Q}
  <2>1. kept = Kept(r.lines, I)
    BY <1>2 DEF LinesIn
  <2>2. Kept(r.lines, I) \in Seq(L) /\ ToSet(Kept(r.lines, I)) = {r.lines[i] : i \in I \cap DOMAIN r.lines}
    BY <1>1, KeptType, ToSetOfKept
  <2>3. kept \in Seq(L) /\ ToSet(kept) \subseteq Q
    BY <2>1, <2>2
  <2>4. DOMAIN kept = 1 .. Len(kept) /\ Len(kept) \in Nat /\ kept = [i \in 1 .. Len(kept) |-> kept[i]]
    BY <2>3, LenProperties
  <2>5. \A i \in 1 .. Len(kept) : kept[i] \in Q
    BY <2>3, <2>4 DEF ToSet
  <2> HIDE DEF kept
  <2> QED
    BY <2>4, <2>5, MapType
<1>4. "HTTP_" \in C /\ Dash \in C /\ "?" \in C /\ STRING \subseteq C
  BY DEF C
<1>5. \A l \in Q : l.name \in Seq(C) /\ SafeFieldName(l.name)
  <2> SUFFICES ASSUME NEW l \in Q
               PROVE  l.name \in Seq(C) /\ SafeFieldName(l.name)
    OBVIOUS
  <2>1. SafeFieldName(l.name)
    BY DEF Q
  <2>2. l.name \in Seq(C)
    <3>1. l.name \in Seq(STRING)
      BY <1>1 DEF Q
    <3>2. STRING \subseteq C
      BY <1>4
    <3> QED
      BY <3>1, <3>2, SeqWider
  <2> QED
    BY <2>1, <2>2
<1>6. /\ \A i \in DOMAIN keys : cgi[CgiHeaderName(keys[i])] = JoinedField(kept, keys[i])
      /\ DOMAIN cgi = {CgiHeaderName(keys[i]) : i \in DOMAIN keys} \cup {size}
      /\ \A i \in DOMAIN keys : CgiHeaderName(keys[i])[1] = "HTTP_"
      /\ cgi[size] = <<7>>
  <2> HIDE DEF kept
  <2> DEFINE n == 7
  <2>1. "HTTP_" \in C /\ Dash \in C
    BY <1>4
  <2> HIDE DEF n
  <2>2. /\ \A i \in DOMAIN Keys(kept) :
             CgiHeaderVars(kept, n)[CgiHeaderName(Keys(kept)[i])] = JoinedField(kept, Keys(kept)[i])
        /\ DOMAIN CgiHeaderVars(kept, n) = {CgiHeaderName(Keys(kept)[i]) : i \in DOMAIN Keys(kept)} \cup {size}
        /\ \A i \in DOMAIN Keys(kept) : CgiHeaderName(Keys(kept)[i])[1] = "HTTP_"
        /\ CgiHeaderVars(kept, n)[size] = <<n>>
    BY <1>3, <1>5, <2>1, HeaderVarsFacts
  <2> QED
    BY <2>2 DEF n
<1>7. ASSUME NEW i \in DOMAIN keys
      PROVE  /\ ValuesOf(kept, keys[i]) = ValuesOf(r.lines, keys[i])
             /\ JoinedField(kept, keys[i]) = JoinedField(r.lines, keys[i])
  <2>1. PICK l \in ToSet(kept) : keys[i] = l.name
    <3> HIDE DEF kept
    <3>1. \A j \in DOMAIN Keys(kept) : \E l \in ToSet(kept) : Keys(kept)[j] = l.name
      BY <1>3, KeysFacts
    <3> QED
      BY <3>1
  <2>2. SafeFieldName(keys[i])
    <3>1. DOMAIN kept = 1 .. Len(kept) /\ \A j \in 1 .. Len(kept) : kept[j] \in Q
      BY <1>3, LenProperties, ElementOfSeq
    <3>2. l \in Q
      BY <3>1 DEF ToSet
    <3> QED
      BY <1>5, <2>1, <3>2
  <2>3. \A m \in L : m.name = keys[i] => m \in Q
    BY <2>2 DEF Q
  <2> HIDE DEF keys, kept
  <2>4. ValuesOf(LinesIn(r.lines, Q), keys[i]) = ValuesOf(r.lines, keys[i])
    BY <1>1, <2>3, ValuesOfLinesIn
  <2> QED
    BY <1>2, <2>4, JoinedOfValues
<1>8. /\ \A var \in DOMAIN cgi : table[var] = cgi[var]
      /\ doc \notin DOMAIN cgi => table[doc] = SubSeq(r.uri, 1, mark - 1)
      /\ query \notin DOMAIN cgi => table[query] = SubSeq(r.uri, mark + 1, Len(r.uri))
  BY ServerVariablesFacts
<1>9. doc \notin DOMAIN cgi /\ query \notin DOMAIN cgi
  <2> DEFINE F == {CgiHeaderName(keys[i]) : i \in DOMAIN keys}
  <2>1. \A f \in F : f[1] = "HTTP_"
    BY <1>6
  <2>2. DOMAIN cgi = F \cup {size}
    BY <1>6
  <2> HIDE DEF F
  <2> QED
    BY <2>1, <2>2, OwnNames
<1> HIDE DEF cgi, table, kept, mark, doc, query
<1>10. ASSUME NEW i \in DOMAIN lists
       PROVE  /\ table[CgiHeaderName(lists[i].name)] = JoinedField(r.lines, lists[i].name)
              /\ lists[i].values = ValuesOf(r.lines, lists[i].name)
  <2>1. i \in DOMAIN keys /\ lists[i].name = keys[i] /\ lists[i].values = ValuesOf(kept, keys[i])
    BY DEF HeaderLists
  <2> HIDE DEF lists, keys
  <2>2. CgiHeaderName(keys[i]) \in DOMAIN cgi
    BY <1>6, <2>1
  <2> QED
    BY <1>6, <1>7, <1>8, <2>1, <2>2
<1>11. table[size] = <<7>>
  <2>1. size \in DOMAIN cgi
    BY <1>6
  <2> HIDE DEF size
  <2> QED
    BY <1>6, <1>8, <2>1
<1>12. SubSeq(r.uri, 1, mark - 1) \o (IF "?" \in ToSet(r.uri) THEN <<"?">> ELSE <<>>)
         \o SubSeq(r.uri, mark + 1, Len(r.uri)) = r.uri
  <2> DEFINE s == r.uri
  <2>1. s \in Seq(C)
    <3>1. s \in Seq(STRING)
      BY <1>1
    <3>2. STRING \subseteq C
      BY <1>4
    <3> HIDE DEF s
    <3> QED
      BY <3>1, <3>2, SeqWider
  <2>2. "?" \in C
    BY <1>4
  <2>3. mark = Find(s, {"?"}, 1)
    BY DEF mark
  <2> HIDE DEF s
  <2>4. SubSeq(s, 1, mark - 1) \o (IF "?" \in ToSet(s) THEN <<"?">> ELSE <<>>) \o SubSeq(s, mark + 1, Len(s)) = s
    BY <2>1, <2>2, <2>3, TwoPartsJoin
  <2> QED
    BY <2>4 DEF s
<1> QED
  BY <1>8, <1>9, <1>10, <1>11, <1>12

-----------------------------------------------------------------------------
(* Paths.                                                                  *)

\* Where the pieces of a text end, and what piece ends there.
EndsIn(s, sep) == {i \in DOMAIN s : s[i] = sep} \cup {Len(s) + 1}
StartOf(s, sep, end) == Max({i \in EndsIn(s, sep) : i < end} \cup {0}) + 1
PiecesOf(s, sep) == [end \in 1 .. Len(s) + 1 |-> SubSeq(s, StartOf(s, sep, end), end - 1)]

LEMMA SplitUnfold == \A s, sep : Split(s, sep) = Kept(PiecesOf(s, sep), EndsIn(s, sep))
BY DEF Split, PiecesOf, StartOf, EndsIn

LEMMA StartFacts ==
  ASSUME NEW C, NEW s \in Seq(C), NEW sep, NEW end \in 1 .. Len(s) + 1
  PROVE  /\ StartOf(s, sep, end) \in 1 .. end
         /\ StartOf(s, sep, end) # 1 => StartOf(s, sep, end) - 1 \in EndsIn(s, sep)
         /\ \A i \in EndsIn(s, sep) : i < end => i < StartOf(s, sep, end)
<1> DEFINE E == EndsIn(s, sep)
           X == {i \in E : i < end} \cup {0}
           m == Max(X)
           n == end - 1
<1>1. Len(s) \in Nat /\ DOMAIN s = 1 .. Len(s)
  BY LenProperties
<1>2. E \subseteq 1 .. Len(s) + 1
  BY <1>1 DEF EndsIn
<1> HIDE DEF E
<1>3. X \in SUBSET (0 .. n) /\ X # {} /\ n \in Nat
  <2>1. n \in Nat
    BY <1>1
  <2>2. ASSUME NEW x \in X
        PROVE  x \in 0 .. n
    <3>1. CASE x = 0
      BY <2>1, <3>1
    <3>2. CASE x # 0
      <4>1. x \in E /\ x < end
        BY <3>2
      <4> QED
        BY <1>1, <1>2, <4>1
    <3> QED
      BY <3>1, <3>2
  <2>3. 0 \in X
    OBVIOUS
  <2> HIDE DEF X, n
  <2> QED
    BY <2>1, <2>2, <2>3
<1>4. m \in X /\ m \in 0 .. n /\ \A x \in X : x <= m
  <2> HIDE DEF X, n
  <2> QED
    BY <1>3, MaxFacts
<1> DEFINE st == StartOf(s, sep, end)
<1>5. st = m + 1
  BY DEF StartOf, E
<1> HIDE DEF m, st
<1>6. st \in 1 .. end /\ st - 1 = m
  BY <1>1, <1>4, <1>5
<1>7. st # 1 => st - 1 \in E
  BY <1>4, <1>5, <1>6
<1>8. ASSUME NEW i \in E, i < end
      PROVE  i < st
  <2>1. i <= m
    BY <1>4, <1>8
  <2>2. i \in Int /\ m \in Int
    BY <1>2, <1>4
  <2> QED
    BY <1>5, <2>1, <2>2
<1> QED
  BY <1>6, <1>7, <1>8 DEF E, st

LEMMA PieceFacts ==
  ASSUME NEW C, NEW s \in Seq(C), NEW sep, NEW end \in 1 .. Len(s) + 1
  PROVE  LET start == StartOf(s, sep, end)
             piece == PiecesOf(s, sep)[end]
         IN /\ piece \in Seq(C) /\ Len(piece) = end - start
            /\ \A i \in 1 .. end - start : piece[i] = s[start + i - 1]
<1> DEFINE start == StartOf(s, sep, end)
           last == end - 1
           piece == SubSeq(s, start, last)
<1>1. Len(s) \in Nat
  BY LenProperties
<1>2. start \in 1 .. end
  BY StartFacts
<1>3. PiecesOf(s, sep)[end] = piece
  BY DEF PiecesOf
<1> HIDE DEF start
<1>4. start \in Nat \ {0} /\ last \in Nat /\ last <= Len(s)
  BY <1>1, <1>2
<1> HIDE DEF last
<1>5. /\ piece \in Seq(C)
      /\ Len(piece) = IF start <= last THEN last - start + 1 ELSE 0
      /\ \A i \in 1 .. last - start + 1 : piece[i] = s[start + i - 1]
  BY <1>4, SubSeqFacts
<1> HIDE DEF piece
<1>6. Len(piece) = end - start
  BY <1>1, <1>2, <1>5 DEF last
<1>7. last - start + 1 = end - start
  BY <1>1, <1>2 DEF last
<1> QED
  BY <1>3, <1>5, <1>6, <1>7 DEF start

LEMMA PiecesType ==
  ASSUME NEW C, NEW s \in Seq(C), NEW sep
  PROVE  /\ PiecesOf(s, sep) \in Seq(Seq(C)) /\ Len(PiecesOf(s, sep)) = Len(s) + 1
         /\ Split(s, sep) \in Seq(Seq(C))
         /\ ToSet(Split(s, sep)) = {PiecesOf(s, sep)[i] : i \in EndsIn(s, sep)}
<1> DEFINE p == PiecesOf(s, sep)
           n == Len(s) + 1
           I == EndsIn(s, sep)
<1>1. Len(s) \in Nat /\ DOMAIN s = 1 .. Len(s) /\ n \in Nat
  BY LenProperties
<1>2. DOMAIN p = 1 .. n /\ p = [i \in 1 .. n |-> p[i]]
  BY DEF PiecesOf
<1>3. \A i \in 1 .. n : p[i] \in Seq(C)
  BY PieceFacts
<1>4. I \cap 1 .. n = I
  BY <1>1 DEF EndsIn
<1>5. Split(s, sep) = Kept(p, I)
  BY SplitUnfold
<1> HIDE DEF p, n, I
<1>6. p \in Seq(Seq(C)) /\ Len(p) = n
  BY <1>1, <1>2, <1>3, MapType
<1>7. Kept(p, I) \in Seq(Seq(C)) /\ ToSet(Kept(p, I)) = {p[i] : i \in I \cap DOMAIN p}
  BY <1>6, KeptType, ToSetOfKept
<1>8. I \cap DOMAIN p = I
  BY <1>2, <1>4
<1> QED
  BY <1>5, <1>6, <1>7, <1>8 DEF p, n, I

\* Two characters that stand together stand together in a piece, when neither
\* separates.
LEMMA SplitCovers ==
  ASSUME NEW C, NEW s \in Seq(C), NEW sep, NEW i \in 1 .. Len(s), i + 1 \in 1 .. Len(s), s[i] # sep, s[i + 1] # sep
  PROVE  \E t \in ToSet(Split(s, sep)) : \E j \in 1 .. Len(t) : j + 1 \in 1 .. Len(t) /\ t[j] = s[i] /\ t[j + 1] = s[i + 1]
<1> DEFINE E == EndsIn(s, sep)
           X == {e \in E : e > i}
           end == Min(X)
           start == StartOf(s, sep, end)
           t == PiecesOf(s, sep)[end]
           next == i + 1
<1>1. Len(s) \in Nat /\ DOMAIN s = 1 .. Len(s)
  BY LenProperties
<1>2. E \subseteq 1 .. Len(s) + 1 /\ Len(s) + 1 \in E /\ i \notin E /\ next \notin E
  BY <1>1 DEF EndsIn
<1>3. next \in 1 .. Len(s)
  OBVIOUS
<1> HIDE DEF E
<1>4. X \in SUBSET Nat /\ X # {}
  <2>1. \A x \in X : x \in Nat
    BY <1>1, <1>2
  <2>2. Len(s) + 1 \in X
    BY <1>1, <1>2
  <2> HIDE DEF X
  <2> QED
    BY <2>1, <2>2
<1>5. end \in X /\ end \in Nat /\ \A x \in X : end <= x
  <2> HIDE DEF X
  <2> QED
    BY <1>4, MinFacts
<1> HIDE DEF end
<1>6. end \in E /\ end > i /\ end \in 1 .. Len(s) + 1
  BY <1>2, <1>5
<1>7. end > next
  BY <1>2, <1>3, <1>6
<1>8. /\ start \in 1 .. end
      /\ start # 1 => start - 1 \in E
  BY <1>6, StartFacts DEF E
<1>9. start <= i
  <2>1. CASE start = 1
    BY <2>1
  <2>2. CASE start # 1
    <3>1. start - 1 \in E /\ start - 1 < end
      BY <1>6, <1>8, <2>2
    <3>2. ~ (start - 1 > i)
      <4> SUFFICES ASSUME start - 1 > i
                   PROVE  FALSE
        OBVIOUS
      <4>1. start - 1 \in X
        BY <3>1
      <4>2. end <= start - 1
        BY <1>5, <4>1
      <4> QED
        BY <1>6, <1>8, <4>2
    <3>3. start - 1 # i
      BY <1>2, <3>1
    <3> QED
      BY <1>6, <1>8, <3>2, <3>3
  <2> QED
    BY <2>1, <2>2
<1>10. Len(t) = end - start /\ \A k \in 1 .. end - start : t[k] = s[start + k - 1]
  BY <1>6, PieceFacts
<1>11. t \in ToSet(Split(s, sep))
  BY <1>6, PiecesType DEF E
<1> HIDE DEF start, t
<1> DEFINE j == i - start + 1
<1>12. j \in 1 .. end - start /\ j + 1 \in 1 .. end - start /\ start + j - 1 = i /\ start + (j + 1) - 1 = next
  BY <1>6, <1>7, <1>8, <1>9
<1>13. t[j] = s[i]
  BY <1>10, <1>12
<1>14. ASSUME NEW k, k = j + 1
       PROVE  t[k] = s[next]
  BY <1>10, <1>12, <1>14
<1> HIDE DEF j
<1>15. t[j + 1] = s[i + 1]
  BY <1>14
<1> QED
  BY <1>10, <1>11, <1>12, <1>13, <1>15

\* A text without the separator is one piece.
LEMMA SplitWhole ==
  ASSUME NEW C, NEW s \in Seq(C), NEW sep, sep \notin C
  PROVE  Split(s, sep)[1] = s /\ Split(s, sep) = Append(<<>>, s)
<1> DEFINE n == Len(s)
           I == EndsIn(s, sep)
           p == PiecesOf(s, sep)
           end == n + 1
           e == p[end]
           q == SubSeq(p, 1, n)
           start == StartOf(s, sep, end)
<1>1. n \in Nat /\ DOMAIN s = 1 .. n /\ \A i \in 1 .. n : s[i] \in C
  BY LenProperties, ElementOfSeq
<1>2. I = {end}
  BY <1>1 DEF EndsIn
<1>3. p \in Seq(Seq(C)) /\ Len(p) = end
  BY PiecesType
<1>4. end \in 1 .. Len(s) + 1
  BY <1>1
<1>5. /\ start \in 1 .. end
      /\ start # 1 => start - 1 \in I
      /\ e \in Seq(C) /\ Len(e) = end - start
      /\ \A i \in 1 .. end - start : e[i] = s[start + i - 1]
  <2> HIDE DEF end
  <2> QED
    BY <1>4, StartFacts, PieceFacts
<1> HIDE DEF I, p, e, start
<1>6. start = 1
  BY <1>1, <1>2, <1>5
<1>7. e = s
  <2>1. Len(e) = n
    BY <1>1, <1>5, <1>6
  <2>2. ASSUME NEW i \in 1 .. n
        PROVE  e[i] = s[i]
    <3>1. i \in 1 .. end - start /\ start + i - 1 = i
      BY <1>1, <1>6
    <3> QED
      BY <1>5, <3>1
  <2>3. Len(e) = Len(s) /\ \A i \in 1 .. Len(e) : e[i] = s[i]
    BY <2>1, <2>2
  <2> HIDE DEF n
  <2> QED
    BY <1>5, <2>3, SeqEqual
<1>8. q \in Seq(Seq(C)) /\ Len(q) = n /\ p = Append(q, e)
  <2>1. p[n + 1] \in Seq(C)
    BY <1>5 DEF e
  <2> QED
    BY <1>1, <1>3, <2>1, SubSeqProperties DEF e
<1> HIDE DEF q, n
<1>9. Kept(q, I) = <<>>
  <2>1. DOMAIN q = 1 .. n
    BY <1>8, LenProperties
  <2>2. I \cap DOMAIN q = {}
    BY <1>1, <1>2, <2>1
  <2> QED
    BY <1>8, <2>2, KeptNone
<1>10. Kept(p, I) = Append(<<>>, e)
  <2>1. Len(q) + 1 \in I
    BY <1>2, <1>8
  <2>2. Kept(Append(q, e), I) = IF Len(q) + 1 \in I THEN Append(Kept(q, I), e) ELSE Kept(q, I)
    BY <1>5, <1>8, KeptAppend
  <2> QED
    BY <1>8, <1>9, <2>1, <2>2
<1>11. Append(<<>>, e)[1] = e
  <2> DEFINE z == <<>>
  <2>1. z \in Seq(Seq(C)) /\ Len(z) = 0
    BY EmptySeq
  <2>2. e \in Seq(C)
    BY <1>5
  <2> HIDE DEF z
  <2>3. Append(z, e)[Len(z) + 1] = e
    BY <2>1, <2>2, AppendFacts
  <2>4. Len(z) + 1 = 1
    BY <2>1
  <2> QED
    BY <2>3, <2>4 DEF z
<1>12. Split(s, sep) = Kept(p, I)
  BY SplitUnfold DEF p, I
<1> QED
  BY <1>7, <1>10, <1>11, <1>12

\* What is compared with the forbidden suffixes is the name that Windows opens.
LEMMA OpenedAsServed ==
  ASSUME NEW C, NEW path \in Seq(C), "\\" \notin C, ":" \notin C
  PROVE  WindowsName(path) = ServedName(path)
<1> DEFINE slashes == [i \in DOMAIN path |-> IF path[i] = "\\" THEN "/" ELSE path[i]]
           segments == Split(path, "/")
           named == {i \in DOMAIN segments : segments[i] # <<>>}
           segment == segments[Max(named)]
           cs == {".", "sp"}
<1>1. slashes = path
  <2>1. DOMAIN path = 1 .. Len(path) /\ path = [i \in 1 .. Len(path) |-> path[i]] /\ \A i \in 1 .. Len(path) : path[i] \in C
    BY LenProperties, ElementOfSeq
  <2>2. \A i \in DOMAIN path : path[i] # "\\"
    BY <2>1
  <2> QED
    BY <2>1, <2>2
<1>2. /\ ServedName(path) = IF named = {} THEN <<>> ELSE Lower(TrimEnd(segment, cs))
      /\ WindowsName(path) = Lower(TrimEnd(IF named = {} THEN <<>> ELSE Split(segment, ":")[1], cs))
  <2>1. ServedName(path) = IF named = {} THEN <<>> ELSE Lower(TrimEnd(segment, cs))
    BY DEF ServedName
  <2> DEFINE opened(t) == LET pieces == Split(t, "/")
                              there == {i \in DOMAIN pieces : pieces[i] # <<>>}
                          IN Lower(TrimEnd(IF there = {} THEN <<>> ELSE Split(pieces[Max(there)], ":")[1], cs))
  <2>2. WindowsName(path) = opened(slashes)
    BY DEF WindowsName
  <2>3. opened(path) = Lower(TrimEnd(IF named = {} THEN <<>> ELSE Split(segment, ":")[1], cs))
    OBVIOUS
  <2> HIDE DEF slashes, opened
  <2>4. WindowsName(path) = opened(path)
    BY <1>1, <2>2
  <2> QED
    BY <2>1, <2>3, <2>4
<1>3. segments \in Seq(Seq(C))
  BY PiecesType
<1> HIDE DEF segments, cs
<1>4. CASE named = {}
  <2>1. TrimEnd(<<>>, cs) = <<>>
    <3> DEFINE z == <<>>
               t == TrimEnd(z, cs)
    <3>1. z \in Seq(C) /\ Len(z) = 0
      BY EmptySeq
    <3> HIDE DEF z
    <3>2. PICK m \in 0 .. Len(z) : t = SubSeq(z, 1, m) /\ t \in Seq(C) /\ Len(t) = m
      <4>1. z \in Seq(C)
        BY <3>1
      <4> QED
        BY <4>1, TrimEndFacts
    <3>3. Len(t) = 0 /\ t \in Seq(C)
      BY <3>1, <3>2
    <3> HIDE DEF t
    <3>4. t = <<>>
      BY <3>3, EmptySeq
    <3> QED
      BY <3>4 DEF t, z
  <2>2. Lower(<<>>) = <<>>
    <3>1. DOMAIN <<>> = {}
      BY EmptySeq, LenProperties
    <3> QED
      BY <3>1 DEF Lower
  <2>3. WindowsName(path) = Lower(TrimEnd(<<>>, cs)) /\ ServedName(path) = <<>>
    BY <1>2, <1>4
  <2> QED
    BY <2>1, <2>2, <2>3
<1>5. CASE named # {}
  <2>1. Len(segments) \in Nat /\ DOMAIN segments = 1 .. Len(segments) /\ \A i \in 1 .. Len(segments) : segments[i] \in Seq(C)
    BY <1>3, LenProperties, ElementOfSeq
  <2> DEFINE m == Max(named)
             n == Len(segments)
  <2>2. n \in Nat /\ named \in SUBSET (0 .. n)
    BY <2>1
  <2>3. m \in named
    <3> HIDE DEF named, n
    <3> QED
      BY <1>5, <2>2, MaxFacts
  <2>4. segments[m] \in Seq(C)
    BY <2>1, <2>3
  <2> HIDE DEF m
  <2>5. Split(segments[m], ":")[1] = segments[m]
    BY <2>4, SplitWhole
  <2>6. Split(segment, ":")[1] = segment
    BY <2>5 DEF m
  <2> HIDE DEF named
  <2> QED
    BY <1>2, <1>5, <2>6
<1> QED
  BY <1>4, <1>5

\* A path that is served opens no forbidden file.
LEMMA PathNamed ==
  ASSUME NEW path \in Seq(STRING), Eligible(path)
  PROVE  ~ MayNameForbidden(path)
<1> DEFINE C == ToSet(path)
<1>1. DOMAIN path = 1 .. Len(path) /\ Len(path) \in Nat /\ path = [i \in 1 .. Len(path) |-> path[i]]
  BY LenProperties
<1>2. path \in Seq(C)
  <2>1. \A i \in 1 .. Len(path) : path[i] \in C
    BY <1>1 DEF ToSet
  <2> HIDE DEF C
  <2> QED
    BY <1>1, <2>1, MapType
<1>3. "\\" \notin C /\ ":" \notin C
  BY DEF Eligible
<1> HIDE DEF C
<1>4. ASSUME NEW suffix \in Forbid
      PROVE  ~ IsSuffix(suffix, WindowsName(path))
  <2>1. WindowsName(path) = ServedName(path)
    BY <1>2, <1>3, OpenedAsServed
  <2>2. ~ IsSuffix(suffix, ServedName(path))
    BY DEF Eligible
  <2> QED
    BY <2>1, <2>2
<1>5. ASSUME NEW i \in DOMAIN path, path[i] = "~", At(path, i + 1) = "digit"
      PROVE  FALSE
  <2> DEFINE next == i + 1
  <2>1. next \in DOMAIN path /\ path[next] = "digit"
    BY <1>5 DEF At
  <2>2. i \in 1 .. Len(path) /\ i + 1 \in 1 .. Len(path) /\ path[i] # "/" /\ path[i + 1] # "/"
    BY <1>1, <1>5, <2>1
  <2> HIDE DEF next
  <2>3. \E t \in ToSet(Split(path, "/")) : \E j \in 1 .. Len(t) :
          j + 1 \in 1 .. Len(t) /\ t[j] = path[i] /\ t[j + 1] = path[i + 1]
    BY <1>2, <2>2, SplitCovers
  <2>4. PICK t \in ToSet(Split(path, "/")) : \E j \in 1 .. Len(t) :
          j + 1 \in 1 .. Len(t) /\ t[j] = path[i] /\ t[j + 1] = path[i + 1]
    BY <2>3
  <2>5. PICK j \in 1 .. Len(t) : j + 1 \in 1 .. Len(t) /\ t[j] = path[i] /\ t[j + 1] = path[i + 1]
    BY <2>4
  <2>6. DOMAIN t = 1 .. Len(t)
    <3> DEFINE segments == Split(path, "/")
    <3>1. segments \in Seq(Seq(C))
      BY <1>2, PiecesType
    <3> HIDE DEF segments
    <3>2. DOMAIN segments = 1 .. Len(segments) /\ \A k \in 1 .. Len(segments) : segments[k] \in Seq(C)
      BY <3>1, LenProperties, ElementOfSeq
    <3>3. t \in Seq(C)
      BY <3>2 DEF ToSet, segments
    <3> QED
      BY <3>3, LenProperties
  <2>7. t[j] = "~" /\ At(t, j + 1) = "digit" /\ j \in DOMAIN t
    BY <1>5, <2>1, <2>5, <2>6 DEF At, next
  <2> QED
    BY <2>4, <2>7 DEF Eligible
<1> QED
  BY <1>4, <1>5 DEF MayNameForbidden, ShortName

\* No other name stands for a field or a file: for every request and every path.
THEOREM AliasesRefusedAlways == RulesSpec => []AliasesRefused
<1>1. InputIsTaken => AliasesRefused
  <2> SUFFICES ASSUME InputIsTaken
               PROVE  AliasesRefused
    OBVIOUS
  <2>1. input.kind = "request" => CgiNamesOneField(input.of)
    BY RulesInputs, RequestNamed DEF InputIsTaken
  <2>2. ASSUME input.kind = "path", Eligible(input.of)
        PROVE  ~ MayNameForbidden(input.of)
    <3>1. input.of \in Seq(STRING)
      BY <2>2, RulesInputs DEF InputIsTaken
    <3> QED
      BY <2>2, <3>1, PathNamed
  <2> QED
    BY <2>1, <2>2 DEF AliasesRefused
<1> QED
  BY <1>1, TakenThroughout, PTL

-----------------------------------------------------------------------------
(* Metadata.                                                               *)

\* The fields of a client's lines, before the selection.
FieldValues(name, values) == FlattenSeq([i \in DOMAIN values |-> ContextValues(name, values[i])])
FieldOf(name, values) == [name |-> name, values |-> FieldValues(name, values)]
FieldsIn(lines) == [i \in DOMAIN Keys(lines) |-> FieldOf(Keys(lines)[i], ValuesOf(lines, Keys(lines)[i]))]

LEMMA MetadataUnfold ==
  ASSUME NEW lines
  PROVE  ContextMetadata(lines) =
           Kept(FieldsIn(lines), {i \in DOMAIN Keys(lines) : ~ Reserved(Keys(lines)[i]) /\ FieldsIn(lines)[i].values # <<>>})
BY DEF ContextMetadata, FieldsIn, FieldOf, FieldValues

LEMMA FieldsType ==
  ASSUME NEW lines, NEW L, lines \in Seq(L)
  PROVE  /\ DOMAIN FieldsIn(lines) = DOMAIN Keys(lines)
         /\ FieldsIn(lines) \in Seq(ToSet(FieldsIn(lines)))
         /\ \A i \in DOMAIN Keys(lines) : FieldsIn(lines)[i] = FieldOf(Keys(lines)[i], ValuesOf(lines, Keys(lines)[i]))
<1> DEFINE f == FieldsIn(lines)
           n == Len(Keys(lines))
<1>1. Keys(lines) \in Seq({l.name : l \in L})
  BY KeysFacts
<1>2. n \in Nat /\ DOMAIN Keys(lines) = 1 .. n
  BY <1>1, LenProperties
<1>3. /\ DOMAIN f = 1 .. n /\ f = [i \in 1 .. n |-> f[i]]
      /\ \A i \in 1 .. n : f[i] = FieldOf(Keys(lines)[i], ValuesOf(lines, Keys(lines)[i]))
  BY <1>2 DEF FieldsIn
<1> HIDE DEF f, n
<1>4. \A i \in 1 .. n : f[i] \in ToSet(f)
  BY <1>3 DEF ToSet
<1>5. f \in Seq(ToSet(f))
  BY <1>2, <1>3, <1>4, MapType
<1> QED
  BY <1>2, <1>3, <1>5 DEF f

\* What PHP is shown of any client's lines is what its Metadata class accepts.
LEMMA TextIsPrintable ==
  ASSUME NEW name, ~ IsBinary(name), NEW V, NEW values \in Seq(V)
  PROVE  \A v \in ToSet(FieldValues(name, values)) : Printable(v)
<1> DEFINE ss == [i \in DOMAIN values |-> ContextValues(name, values[i])]
           S == {v \in V : Printable(v)}
           n == Len(values)
<1>1. n \in Nat /\ DOMAIN values = 1 .. n /\ \A i \in 1 .. n : values[i] \in V
  BY LenProperties, ElementOfSeq
<1>2. ASSUME NEW i \in 1 .. n
      PROVE  ss[i] \in Seq(S)
  <2>1. ss[i] = IF Printable(values[i]) THEN <<values[i]>> ELSE <<>>
    BY <1>1 DEF ContextValues
  <2>2. CASE Printable(values[i])
    <3> DEFINE v == values[i]
    <3>1. v \in S
      BY <1>1, <2>2
    <3>2. ss[i] = <<v>>
      BY <2>1, <2>2
    <3> HIDE DEF v, S, ss
    <3>3. <<v>> \in Seq(S)
      BY <3>1, OneIsSeq
    <3> QED
      BY <3>2, <3>3
  <2>3. CASE ~ Printable(values[i])
    <3>1. ss[i] = <<>>
      BY <2>1, <2>3
    <3> HIDE DEF S, ss
    <3> QED
      BY <3>1, EmptySeq
  <2> QED
    BY <2>2, <2>3
<1>3. DOMAIN ss = 1 .. n /\ ss = [i \in 1 .. n |-> ss[i]]
  BY <1>1
<1> HIDE DEF ss, n
<1>4. ss \in Seq(Seq(S))
  <2> HIDE DEF S
  <2> QED
    BY <1>1, <1>2, <1>3, MapType
<1>5. FieldValues(name, values) \in Seq(S)
  <2> HIDE DEF S
  <2>1. FlattenSeq(ss) \in Seq(S)
    BY <1>4, FlattenType
  <2> QED
    BY <2>1 DEF FieldValues, ss
<1> DEFINE fv == FieldValues(name, values)
<1> HIDE DEF fv
<1>6. fv \in Seq(S)
  BY <1>5 DEF fv
<1>7. DOMAIN fv = 1 .. Len(fv) /\ \A i \in 1 .. Len(fv) : fv[i] \in S
  <2> HIDE DEF S
  <2> QED
    BY <1>6, LenProperties, ElementOfSeq
<1> QED
  BY <1>7 DEF ToSet, fv

LEMMA ShownIsValid ==
  ASSUME NEW lines, LinesInput(lines)
  PROVE  MetadataValid(ContextMetadata(lines))
<1> DEFINE L == ToSet(lines)
           keys == Keys(lines)
           fields == FieldsIn(lines)
           I == {i \in DOMAIN keys : ~ Reserved(keys[i]) /\ fields[i].values # <<>>}
<1>1. lines \in Seq(L)
  BY DEF LinesInput
<1>2. ToSet(ContextMetadata(lines)) \subseteq {fields[i] : i \in DOMAIN keys}
  <2>1. ContextMetadata(lines) = Kept(fields, I)
    BY MetadataUnfold
  <2> HIDE DEF I, L
  <2>2. fields \in Seq(ToSet(fields)) /\ DOMAIN fields = DOMAIN keys
    BY <1>1, FieldsType
  <2> HIDE DEF fields, keys
  <2>3. ToSet(Kept(fields, I)) = {fields[i] : i \in I \cap DOMAIN fields}
    BY <2>2, ToSetOfKept
  <2> QED
    BY <2>1, <2>2, <2>3
<1>3. ASSUME NEW i \in DOMAIN keys
      PROVE  /\ fields[i].name # <<>> /\ "X" \notin ToSet(fields[i].name)
             /\ IsBinary(fields[i].name) \/ \A v \in ToSet(fields[i].values) : Printable(v)
  <2> DEFINE values == ValuesOf(lines, keys[i])
             V == {l.value : l \in L}
  <2>1. fields[i] = FieldOf(keys[i], values)
    <3> HIDE DEF L
    <3> QED
      BY <1>1, FieldsType
  <2>2. PICK l \in L : keys[i] = l.name
    <3>1. \A j \in DOMAIN Keys(lines) : \E l \in ToSet(lines) : Keys(lines)[j] = l.name
      <4> HIDE DEF L
      <4> QED
        BY <1>1, KeysFacts
    <3> QED
      BY <3>1
  <2>3. keys[i] # <<>> /\ "X" \notin ToSet(keys[i])
    BY <2>2 DEF LinesInput
  <2>4. values \in Seq(V)
    <3> HIDE DEF L
    <3> QED
      BY <1>1, ValuesType
  <2> DEFINE name == keys[i]
  <2> HIDE DEF values, V, name
  <2>5. IsBinary(name) \/ \A v \in ToSet(FieldValues(name, values)) : Printable(v)
    BY <2>4, TextIsPrintable
  <2>6. fields[i].name = keys[i] /\ fields[i].values = FieldValues(name, values)
    BY <2>1 DEF FieldOf, name
  <2> QED
    BY <2>3, <2>5, <2>6 DEF name
<1> QED
  BY <1>2, <1>3 DEF MetadataValid

\* Two ways to put three texts in a row.
Associates(s, t, u) == (s \o t) \o u = s \o (t \o u)

LEMMA Reassociate ==
  ASSUME NEW S, NEW s \in Seq(S), NEW t \in Seq(S), NEW u \in Seq(S)
  PROVE  Associates(s, t, u)
BY ConcatAssociative DEF Associates

LEMMA ConcatAppend ==
  ASSUME NEW S, NEW s \in Seq(S), NEW t \in Seq(S), NEW e \in S
  PROVE  s \o Append(t, e) = Append(s \o t, e)
<1>1. <<e>> \in Seq(S)
  BY OneIsSeq
<1>2. Append(t, e) = t \o <<e>>
  BY AppendIsConcat
<1>3. s \o t \in Seq(S)
  BY ConcatProperties
<1>4. Append(s \o t, e) = (s \o t) \o <<e>>
  BY <1>3, AppendIsConcat
<1> DEFINE o == <<e>>
<1> HIDE DEF o
<1>5. o \in Seq(S)
  BY <1>1 DEF o
<1>6. Associates(s, t, o)
  BY <1>5, Reassociate
<1> QED
  BY <1>2, <1>4, <1>6 DEF o, Associates

\* One more line: its name is new or not.
LEMMA KeysAppend ==
  ASSUME NEW L, NEW lines \in Seq(L), NEW l \in L
  PROVE  Keys(Append(lines, l)) = IF \E m \in ToSet(lines) : m.name = l.name THEN Keys(lines) ELSE Append(Keys(lines), l.name)
<1> DEFINE a == Append(lines, l)
           n == Len(lines) + 1
           N == {m.name : m \in L}
           First(x) == {i \in DOMAIN x : \A j \in 1 .. i - 1 : x[j].name # x[i].name}
           I == First(a)
           J == First(lines)
           s == NamesIn(lines)
<1>1. /\ Len(lines) \in Nat /\ DOMAIN lines = 1 .. Len(lines) /\ a[n] = l /\ n \in DOMAIN a
      /\ \A i \in 1 .. Len(lines) : a[i] = lines[i] /\ i \in DOMAIN a
  BY AppendFacts
<1>2. NamesIn(a) = Append(s, l.name) /\ s \in Seq(N) /\ Len(s) = Len(lines)
  BY NamesAppend, NamesType
<1>3. Keys(a) = Kept(NamesIn(a), I) /\ Keys(lines) = Kept(s, J)
  BY DEF Keys, NamesIn
<1> HIDE DEF a
<1>4. n \in I <=> ~ \E m \in ToSet(lines) : m.name = l.name
  <2>1. n - 1 = Len(lines)
    BY <1>1
  <2>2. n \in I <=> \A j \in 1 .. Len(lines) : lines[j].name # l.name
    BY <1>1, <2>1
  <2> QED
    BY <1>1, <2>2 DEF ToSet
<1>5. \A i \in 1 .. Len(lines) : i \in I <=> i \in J
  <2> SUFFICES ASSUME NEW i \in 1 .. Len(lines)
               PROVE  i \in I <=> i \in J
    OBVIOUS
  <2>1. \A j \in 1 .. i - 1 : a[j] = lines[j]
    BY <1>1
  <2> QED
    BY <1>1, <2>1
<1>6. DOMAIN s = 1 .. Len(lines)
  BY <1>1 DEF NamesIn
<1> HIDE DEF I, J, n, s, N
<1>7. Kept(s, I) = Kept(s, J)
  BY <1>5, <1>6, KeptSame
<1>8. l.name \in N
  BY DEF N
<1> DEFINE x == l.name
<1> HIDE DEF x
<1>9. Kept(Append(s, x), I) = IF Len(s) + 1 \in I THEN Append(Kept(s, I), x) ELSE Kept(s, I)
  <2>1. x \in N /\ s \in Seq(N)
    BY <1>2, <1>8 DEF x
  <2> QED
    BY <2>1, KeptAppend
<1>10. Len(s) + 1 \in I <=> n \in I
  BY <1>2 DEF n
<1> QED
  BY <1>2, <1>3, <1>4, <1>7, <1>9, <1>10 DEF a, x

\* Lines of one new name behind others.
LEMMA KeysConcat ==
  ASSUME NEW L, NEW lines \in Seq(L), NEW name, \A m \in ToSet(lines) : m.name # name
  PROVE  \A b \in Seq({l \in L : l.name = name}) :
           b # <<>> => Keys(lines \o b) = Append(Keys(lines), name)
<1> DEFINE B == {l \in L : l.name = name}
           P == {b \in Seq(B) : b # <<>> => Keys(lines \o b) = Append(Keys(lines), name)}
<1>1. <<>> \in P
  BY EmptySeq
<1>2. ASSUME NEW b \in Seq(B), NEW l \in B, b \in P
      PROVE  Append(b, l) \in P
  <2> DEFINE s == lines \o b
             a == Append(b, l)
  <2>1. a \in Seq(B)
    BY AppendProperties
  <2>2. l \in L /\ l.name = name /\ b \in Seq(L)
    <3>1. B \subseteq L /\ l \in L /\ l.name = name
      OBVIOUS
    <3> HIDE DEF B
    <3>2. b \in Seq(L)
      BY <3>1, SeqWider
    <3> QED
      BY <3>1, <3>2
  <2>3. s \in Seq(L) /\ lines \o a = Append(s, l)
    <3>1. b \in Seq(L) /\ l \in L
      BY <2>2
    <3> QED
      BY <3>1, ConcatProperties, ConcatAppend
  <2>4. ToSet(s) = ToSet(lines) \cup ToSet(b)
    <3>1. b \in Seq(L)
      BY <2>2
    <3> QED
      BY <3>1, ToSetConcat
  <2> HIDE DEF s, a
  <2>5. Keys(Append(s, l)) = IF \E m \in ToSet(s) : m.name = l.name THEN Keys(s) ELSE Append(Keys(s), l.name)
    <3>1. s \in Seq(L) /\ l \in L
      BY <2>2, <2>3
    <3> QED
      BY <3>1, KeysAppend
  <2>6. CASE b = <<>>
    <3>1. s = lines
      BY <2>6, ConcatEmptySeq DEF s
    <3>2. ~ \E m \in ToSet(s) : m.name = l.name
      BY <2>2, <3>1
    <3>3. Keys(lines \o a) = Append(Keys(lines), name)
      BY <2>2, <2>3, <2>5, <3>1, <3>2
    <3> QED
      BY <2>1, <3>3 DEF a
  <2>7. CASE b # <<>>
    <3>1. DOMAIN b = 1 .. Len(b) /\ Len(b) \in Nat /\ Len(b) # 0 /\ \A i \in 1 .. Len(b) : b[i] \in B
      <4> HIDE DEF B
      <4> QED
        BY <2>7, LenProperties, EmptySeq, ElementOfSeq
    <3>2. 1 \in DOMAIN b /\ b[1] \in B
      BY <3>1
    <3>3. b[1] \in ToSet(s) /\ b[1].name = l.name
      BY <2>2, <2>4, <3>2 DEF ToSet
    <3>4. Keys(lines \o a) = Keys(s)
      BY <2>3, <2>5, <3>3
    <3>5. Keys(s) = Append(Keys(lines), name)
      BY <1>2, <2>7 DEF s
    <3> QED
      BY <2>1, <3>4, <3>5 DEF a
  <2> QED
    BY <2>6, <2>7
<1>3. Seq(B) \subseteq P
  <2> HIDE DEF P, B
  <2> QED
    BY <1>1, <1>2, SeqInduction
<1> QED
  BY <1>3

LEMMA ValuesConcat ==
  ASSUME NEW L, NEW lines \in Seq(L), NEW name
  PROVE  \A b \in Seq(L) : ValuesOf(lines \o b, name) = ValuesOf(lines, name) \o ValuesOf(b, name)
<1> DEFINE P == {b \in Seq(L) : ValuesOf(lines \o b, name) = ValuesOf(lines, name) \o ValuesOf(b, name)}
           V == {l.value : l \in L}
           v == ValuesOf(lines, name)
<1>1. v \in Seq(V) /\ \A b \in Seq(L) : ValuesOf(b, name) \in Seq(V)
  BY ValuesType
<1>2. \A l \in L : l.value \in V
  OBVIOUS
<1> HIDE DEF V
<1>3. <<>> \in P
  <2>1. lines \o <<>> = lines /\ v \o <<>> = v
    BY <1>1, ConcatEmptySeq
  <2>2. ValuesOf(<<>>, name) = <<>>
    BY ValuesOfNone
  <2> QED
    BY <2>1, <2>2, EmptySeq
<1>4. ASSUME NEW b \in Seq(L), NEW l \in L, b \in P
      PROVE  Append(b, l) \in P
  <2> DEFINE s == lines \o b
             w == ValuesOf(b, name)
             x == l.value
  <2>1. s \in Seq(L) /\ lines \o Append(b, l) = Append(s, l) /\ Append(b, l) \in Seq(L)
    BY ConcatProperties, ConcatAppend, AppendProperties
  <2>2. ValuesOf(s, name) = v \o w
    BY <1>4
  <2>3. w \in Seq(V) /\ x \in V
    BY <1>1, <1>2
  <2>4. ValuesOf(Append(b, l), name) = IF l.name = name THEN Append(w, x) ELSE w
    BY ValuesAppend
  <2> HIDE DEF s, v, w, x
  <2>5. ValuesOf(Append(s, l), name) = IF l.name = name THEN Append(ValuesOf(s, name), l.value) ELSE ValuesOf(s, name)
    BY <2>1, ValuesAppend
  <2>6. v \o Append(w, x) = Append(v \o w, x)
    BY <1>1, <2>3, ConcatAppend
  <2>7. ValuesOf(lines \o Append(b, l), name) = v \o ValuesOf(Append(b, l), name)
    <3>1. CASE l.name = name
      BY <2>1, <2>2, <2>4, <2>5, <2>6, <3>1 DEF x
    <3>2. CASE l.name # name
      BY <2>1, <2>2, <2>4, <2>5, <3>2
    <3> QED
      BY <3>1, <3>2
  <2> QED
    BY <2>1, <2>7 DEF v
<1>5. Seq(L) \subseteq P
  <2> HIDE DEF P
  <2> QED
    BY <1>3, <1>4, SeqInduction
<1> QED
  BY <1>5

\* Lines that come in groups, each of one name.
GroupsOf(R, L) ==
  \A r \in R : r.lines \in Seq(L) /\ r.lines # <<>> /\ \A l \in ToSet(r.lines) : l.name = r.name
GroupLines(groups) == [i \in DOMAIN groups |-> groups[i].lines]
LinesOf(groups) == FlattenSeq(GroupLines(groups))
DistinctNames(groups) == \A i, j \in DOMAIN groups : groups[i].name = groups[j].name => i = j

LEMMA LinesOfAppend ==
  ASSUME NEW L, NEW R, GroupsOf(R, L)
  PROVE  \A groups \in Seq(R), g \in R :
            LinesOf(groups) \in Seq(L) /\ LinesOf(Append(groups, g)) = LinesOf(groups) \o g.lines
<1> TAKE groups \in Seq(R), g \in R
<1> DEFINE a == Append(groups, g)
           n == Len(groups)
<1>1. /\ a \in Seq(R) /\ Len(a) = n + 1 /\ n \in Nat
      /\ \A i \in 1 .. n : a[i] = groups[i] /\ i \in DOMAIN a
      /\ a[n + 1] = g /\ n + 1 \in DOMAIN a
      /\ DOMAIN a = 1 .. n + 1 /\ DOMAIN groups = 1 .. n
  BY AppendFacts
<1>2. ASSUME NEW x \in Seq(R)
      PROVE  GroupLines(x) \in Seq(Seq(L)) /\ Len(GroupLines(x)) = Len(x)
  <2>1. DOMAIN x = 1 .. Len(x) /\ Len(x) \in Nat /\ \A i \in 1 .. Len(x) : x[i] \in R
    BY LenProperties, ElementOfSeq
  <2> DEFINE h == GroupLines(x)
  <2>2. DOMAIN h = 1 .. Len(x) /\ h = [i \in 1 .. Len(x) |-> h[i]] /\ \A i \in 1 .. Len(x) : h[i] \in Seq(L)
    BY <2>1 DEF GroupLines, GroupsOf
  <2> HIDE DEF h
  <2>3. h \in Seq(Seq(L)) /\ Len(h) = Len(x)
    BY <2>1, <2>2, MapType
  <2> QED
    BY <2>3 DEF h
<1>3. GroupLines(a)[n + 1] = g.lines /\ \A i \in 1 .. n : GroupLines(a)[i] = GroupLines(groups)[i]
  BY <1>1 DEF GroupLines
<1> HIDE DEF a
<1> DEFINE sf == GroupLines(groups)
           sa == GroupLines(a)
<1>4. /\ sf \in Seq(Seq(L)) /\ sa \in Seq(Seq(L)) /\ Len(sf) = n /\ Len(sa) = n + 1
      /\ sa[n + 1] = g.lines /\ \A i \in 1 .. n : sa[i] = sf[i]
  BY <1>1, <1>2, <1>3
<1> HIDE DEF sf, sa
<1>5. sa = Append(sf, g.lines)
  <2>1. Len(sa) = Len(sf) + 1 /\ sa[Len(sf) + 1] = g.lines /\ \A i \in 1 .. Len(sf) : sa[i] = sf[i]
    BY <1>4
  <2> QED
    BY <1>4, <2>1, GrownIsAppend
<1>6. FlattenSeq(Append(sf, g.lines)) = FlattenSeq(sf) \o g.lines
  <2>1. g.lines \in Seq(L)
    BY DEF GroupsOf
  <2> QED
    BY <1>4, <2>1, FlattenAppend
<1>7. FlattenSeq(sf) \in Seq(L)
  BY <1>4, FlattenType
<1> QED
  BY <1>5, <1>6, <1>7 DEF sf, sa, a, LinesOf

\* Lines of one name have all values of it.
LEMMA AllOfOneName ==
  ASSUME NEW L, NEW lines \in Seq(L), NEW name, \A l \in ToSet(lines) : l.name = name
  PROVE  ValuesOf(lines, name) = ValuesIn(lines) /\ lines \in Seq({l \in L : l.name = name})
<1> DEFINE V == {l.value : l \in L}
           I == Lines1(lines, name)
           v == ValuesIn(lines)
           B == {l \in L : l.name = name}
<1>1. /\ DOMAIN lines = 1 .. Len(lines) /\ Len(lines) \in Nat /\ lines = [i \in 1 .. Len(lines) |-> lines[i]]
      /\ \A i \in 1 .. Len(lines) : lines[i] \in L
  BY LenProperties, ElementOfSeq
<1>2. \A i \in 1 .. Len(lines) : lines[i].name = name
  BY <1>1 DEF ToSet
<1>3. v \in Seq(V)
  BY NamesType
<1>4. DOMAIN v = DOMAIN lines /\ I = DOMAIN lines
  BY <1>1, <1>2 DEF ValuesIn, Lines1
<1>5. \A i \in 1 .. Len(lines) : lines[i] \in B
  BY <1>1, <1>2
<1>6. ValuesOf(lines, name) = Kept(v, I)
  BY ValuesUnfold
<1> HIDE DEF V, I, v, B
<1>7. Kept(v, I) = v
  BY <1>3, <1>4, KeptAll
<1>8. lines \in Seq(B)
  BY <1>1, <1>5, MapType
<1> QED
  BY <1>6, <1>7, <1>8 DEF v, B

\* The names and the values of such lines are those of the groups.
LEMMA GroupsFacts ==
  ASSUME NEW L, NEW R, GroupsOf(R, L)
  PROVE  \A groups \in Seq(R) : DistinctNames(groups) =>
           /\ Keys(LinesOf(groups)) = NamesIn(groups)
           /\ \A l \in ToSet(LinesOf(groups)) : \E i \in DOMAIN groups : l.name = groups[i].name
           /\ \A i \in DOMAIN groups : ValuesOf(LinesOf(groups), groups[i].name) = ValuesIn(groups[i].lines)
<1> DEFINE Told(groups) ==
             /\ Keys(LinesOf(groups)) = NamesIn(groups)
             /\ \A l \in ToSet(LinesOf(groups)) : \E i \in DOMAIN groups : l.name = groups[i].name
             /\ \A i \in DOMAIN groups : ValuesOf(LinesOf(groups), groups[i].name) = ValuesIn(groups[i].lines)
           P == {groups \in Seq(R) : DistinctNames(groups) => Told(groups)}
<1>1. <<>> \in P
  <2>1. DOMAIN <<>> = {}
    BY EmptySeq, LenProperties
  <2>2. GroupLines(<<>>) = <<>> /\ NamesIn(<<>>) = <<>>
    BY <2>1 DEF GroupLines, NamesIn
  <2>3. LinesOf(<<>>) = <<>>
    BY <2>2, FlattenOfNone DEF LinesOf
  <2>4. Keys(<<>>) = <<>>
    <3> DEFINE I == {i \in DOMAIN <<>> : \A j \in 1 .. i - 1 : <<>>[j].name # <<>>[i].name}
    <3>1. Keys(<<>>) = Kept(NamesIn(<<>>), I)
      BY DEF Keys, NamesIn
    <3> HIDE DEF I
    <3> QED
      BY <2>2, <3>1, KeptOfNone
  <2> QED
    BY <2>1, <2>2, <2>3, <2>4, ToSetEmpty, EmptySeq
<1>2. ASSUME NEW groups \in Seq(R), NEW g \in R, groups \in P, DistinctNames(Append(groups, g))
      PROVE  Told(Append(groups, g))
  <2> DEFINE a == Append(groups, g)
             n == Len(groups)
             s == LinesOf(groups)
             b == g.lines
             name == g.name
             B == {l \in L : l.name = name}
  <2>1. /\ a \in Seq(R) /\ Len(a) = n + 1 /\ n \in Nat
        /\ DOMAIN groups = 1 .. n /\ DOMAIN a = 1 .. n + 1
        /\ \A i \in 1 .. n : a[i] = groups[i] /\ i \in DOMAIN a
        /\ a[n + 1] = g /\ n + 1 \in DOMAIN a
        /\ n + 1 \notin DOMAIN groups
        /\ \A i \in DOMAIN a : i \in 1 .. n \/ i = n + 1
    BY AppendFacts
  <2>2. s \in Seq(L) /\ LinesOf(a) = s \o b
    BY LinesOfAppend
  <2>3. NamesIn(a) = Append(NamesIn(groups), name)
    BY NamesAppend
  <2>4. b \in Seq(L) /\ b # <<>> /\ \A l \in ToSet(b) : l.name = name
    BY DEF GroupsOf
  <2> HIDE DEF a, n, s, b, name
  <2>5. \A i \in 1 .. n : groups[i].name # name
    <3> SUFFICES ASSUME NEW i \in 1 .. n, groups[i].name = name
                 PROVE  FALSE
      OBVIOUS
    <3>1. a[i].name = a[n + 1].name /\ i \in DOMAIN a
      BY <2>1 DEF name
    <3>2. i = n + 1
      BY <1>2, <2>1, <3>1 DEF DistinctNames, a
    <3> QED
      BY <2>1, <3>2
  <2>6. Told(groups)
    <3>1. DistinctNames(groups)
      <4> SUFFICES ASSUME NEW i \in DOMAIN groups, NEW j \in DOMAIN groups, groups[i].name = groups[j].name
                   PROVE  i = j
        BY DEF DistinctNames
      <4>1. i \in DOMAIN a /\ j \in DOMAIN a /\ a[i].name = a[j].name
        BY <2>1
      <4> QED
        BY <1>2, <4>1 DEF DistinctNames, a
    <3> QED
      BY <1>2, <3>1
  <2>7. \A l \in ToSet(s) : l.name # name
    BY <2>1, <2>5, <2>6 DEF s
  <2>8. ValuesOf(b, name) = ValuesIn(b) /\ b \in Seq(B)
    <3> HIDE DEF B
    <3>1. ValuesOf(b, name) = ValuesIn(b) /\ b \in Seq({l \in L : l.name = name})
      BY <2>4, AllOfOneName
    <3> QED
      BY <3>1 DEF B
  <2>9. Keys(s \o b) = Append(Keys(s), name)
    <3>1. \A c \in Seq(B) : c # <<>> => Keys(s \o c) = Append(Keys(s), name)
      BY <2>2, <2>7, KeysConcat
    <3> QED
      BY <2>4, <2>8, <3>1
  <2>10. Keys(LinesOf(a)) = NamesIn(a)
    BY <2>2, <2>3, <2>6, <2>9 DEF s
  <2>11. ToSet(s \o b) = ToSet(s) \cup ToSet(b)
    BY <2>2, <2>4, ToSetConcat
  <2>12. ASSUME NEW l \in ToSet(LinesOf(a))
         PROVE  \E i \in DOMAIN a : l.name = a[i].name
    <3>1. CASE l \in ToSet(s)
      <4>1. PICK i \in DOMAIN groups : l.name = groups[i].name
        BY <2>6, <3>1 DEF s
      <4> QED
        BY <2>1, <4>1
    <3>2. CASE l \in ToSet(b)
      <4>1. l.name = a[n + 1].name /\ n + 1 \in DOMAIN a
        BY <2>1, <2>4, <3>2 DEF name
      <4> QED
        BY <4>1
    <3> QED
      BY <2>2, <2>11, <3>1, <3>2
  <2>13. ASSUME NEW i \in DOMAIN a
         PROVE  ValuesOf(LinesOf(a), a[i].name) = ValuesIn(a[i].lines)
    <3>1. \A m : ValuesOf(s \o b, m) = ValuesOf(s, m) \o ValuesOf(b, m)
      BY <2>2, <2>4, ValuesConcat
    <3>2. \A m : ValuesOf(s, m) \in Seq({l.value : l \in L}) /\ ValuesOf(b, m) \in Seq({l.value : l \in L})
      BY <2>2, <2>4, ValuesType
    <3> DEFINE V == {l.value : l \in L}
    <3> HIDE DEF V
    <3>3. \A m : ValuesOf(s, m) \in Seq(V) /\ ValuesOf(b, m) \in Seq(V)
      BY <3>2 DEF V
    <3>4. CASE i \in 1 .. n
      <4> DEFINE m == groups[i].name
      <4>1. a[i] = groups[i] /\ m # name /\ ValuesOf(s, m) = ValuesIn(groups[i].lines)
        BY <2>1, <2>5, <2>6, <3>4 DEF s
      <4> HIDE DEF m
      <4>2. ValuesOf(b, m) = <<>>
        <5>1. \A l \in ToSet(b) : l.name # m
          BY <2>4, <4>1
        <5> QED
          BY <2>4, <5>1, NoSuchValue
      <4> DEFINE w == ValuesOf(s, m)
      <4>3. w \in Seq(V)
        BY <3>3
      <4> HIDE DEF w
      <4>4. w \o <<>> = w
        BY <4>3, ConcatEmptySeq
      <4> QED
        BY <2>2, <3>1, <4>1, <4>2, <4>4 DEF m, w
    <3>5. CASE i = n + 1
      <4>1. a[i].name = name /\ a[i].lines = b
        BY <2>1, <3>5 DEF name, b
      <4>2. ValuesOf(s, name) = <<>>
        BY <2>2, <2>7, NoSuchValue
      <4> DEFINE w == ValuesOf(b, name)
      <4>3. w \in Seq(V)
        BY <3>3
      <4> HIDE DEF w
      <4>4. <<>> \o w = w
        BY <4>3, ConcatEmptySeq
      <4> QED
        BY <2>2, <2>8, <3>1, <4>1, <4>2, <4>4 DEF w
    <3> QED
      BY <2>1, <3>4, <3>5
  <2> QED
    BY <2>10, <2>12, <2>13 DEF a
<1>3. ASSUME NEW groups \in Seq(R), NEW g \in R, groups \in P
      PROVE  Append(groups, g) \in P
  <2>1. Append(groups, g) \in Seq(R)
    BY AppendProperties
  <2> HIDE DEF Told
  <2> QED
    BY <1>2, <1>3, <2>1
<1>4. Seq(R) \subseteq P
  <2> HIDE DEF P
  <2> QED
    BY <1>1, <1>3, SeqInduction
<1> QED
  BY <1>4

\* A text with one more character has the same pieces before it.
LEMMA PiecesAppend ==
  ASSUME NEW C, NEW s \in Seq(C), NEW c \in C, NEW sep
  PROVE  /\ PiecesOf(Append(s, c), sep) = Append(PiecesOf(s, sep), PiecesOf(Append(s, c), sep)[Len(s) + 2])
         /\ PiecesOf(Append(s, c), sep)[Len(s) + 2] \in Seq(C)
<1> DEFINE a == Append(s, c)
           n == Len(s)
           p == PiecesOf(s, sep)
           q == PiecesOf(a, sep)
           I == EndsIn(s, sep)
           J == EndsIn(a, sep)
<1>1. /\ a \in Seq(C) /\ Len(a) = n + 1 /\ n \in Nat /\ Len(s) = n /\ DOMAIN s = 1 .. n /\ DOMAIN a = 1 .. n + 1
      /\ \A i \in 1 .. n : a[i] = s[i]
  BY AppendFacts
<1> HIDE DEF a, n
<1>2. p \in Seq(Seq(C)) /\ Len(p) = n + 1 /\ q \in Seq(Seq(C)) /\ Len(q) = n + 2
  <2>1. p \in Seq(Seq(C)) /\ Len(p) = Len(s) + 1 /\ q \in Seq(Seq(C)) /\ Len(q) = Len(a) + 1
    <3> HIDE DEF p, q
    <3>1. \A t \in Seq(C) : PiecesOf(t, sep) \in Seq(Seq(C)) /\ Len(PiecesOf(t, sep)) = Len(t) + 1
      BY PiecesType
    <3> QED
      BY <1>1, <3>1 DEF p, q
  <2> HIDE DEF p, q
  <2> QED
    BY <1>1, <2>1
<1>3. \A i \in 1 .. n : i \in I <=> i \in J
  BY <1>1 DEF EndsIn
<1>4. I \subseteq 1 .. n + 1 /\ J \subseteq 1 .. n + 2
  BY <1>1 DEF EndsIn
<1> HIDE DEF I, J
<1>5. ASSUME NEW end \in 1 .. n + 1
      PROVE  StartOf(a, sep, end) = StartOf(s, sep, end)
  <2>1. {i \in J : i < end} = {i \in I : i < end}
    <3>1. \A i \in J : i < end => i \in 1 .. n
      BY <1>1, <1>4
    <3>2. \A i \in I : i < end => i \in 1 .. n
      BY <1>1, <1>4
    <3> QED
      BY <1>3, <3>1, <3>2
  <2> QED
    BY <2>1 DEF StartOf, I, J
<1>6. ASSUME NEW end \in 1 .. n + 1
      PROVE  q[end] = p[end]
  <2> DEFINE st == StartOf(s, sep, end)
             x == p[end]
             y == q[end]
  <2>1. st = StartOf(a, sep, end)
    BY <1>5
  <2>2. end \in 1 .. Len(s) + 1 /\ end \in 1 .. Len(a) + 1
    BY <1>1
  <2>3. st \in 1 .. end /\ x \in Seq(C) /\ Len(x) = end - st /\ \A i \in 1 .. end - st : x[i] = s[st + i - 1]
    <3> HIDE DEF st, x, p
    <3>1. /\ StartOf(s, sep, end) \in 1 .. end /\ PiecesOf(s, sep)[end] \in Seq(C)
          /\ Len(PiecesOf(s, sep)[end]) = end - StartOf(s, sep, end)
          /\ \A i \in 1 .. end - StartOf(s, sep, end) : PiecesOf(s, sep)[end][i] = s[StartOf(s, sep, end) + i - 1]
      BY <2>2, StartFacts, PieceFacts
    <3> QED
      BY <3>1 DEF st, x, p
  <2>4. y \in Seq(C) /\ Len(y) = end - st /\ \A i \in 1 .. end - st : y[i] = a[st + i - 1]
    <3> HIDE DEF st, y, q
    <3>1. /\ PiecesOf(a, sep)[end] \in Seq(C)
          /\ Len(PiecesOf(a, sep)[end]) = end - StartOf(a, sep, end)
          /\ \A i \in 1 .. end - StartOf(a, sep, end) : PiecesOf(a, sep)[end][i] = a[StartOf(a, sep, end) + i - 1]
      <4>1. a \in Seq(C)
        BY <1>1
      <4>2. end \in 1 .. Len(a) + 1
        BY <2>2
      <4> QED
        BY <4>1, <4>2, PieceFacts
    <3> QED
      BY <2>1, <3>1 DEF y, q
  <2> HIDE DEF st, x, y
  <2>5. ASSUME NEW i \in 1 .. end - st
        PROVE  y[i] = x[i]
    <3>1. st + i - 1 \in 1 .. n
      BY <1>1, <2>3
    <3>2. a[st + i - 1] = s[st + i - 1]
      BY <1>1, <3>1
    <3> QED
      BY <2>3, <2>4, <3>2
  <2>6. Len(y) = Len(x) /\ \A i \in 1 .. Len(y) : y[i] = x[i]
    BY <2>3, <2>4, <2>5
  <2>7. y = x
    BY <2>3, <2>4, <2>6, SeqEqual
  <2> QED
    BY <2>7 DEF x, y
<1> HIDE DEF p, q
<1> DEFINE e == q[n + 2]
<1>7. q = Append(p, e) /\ e \in Seq(C)
  <2>1. q[Len(p) + 1] = e
    <3>1. Len(p) + 1 = n + 2
      BY <1>1, <1>2
    <3> QED
      BY <3>1
  <2>2. Len(q) = Len(p) + 1 /\ \A i \in 1 .. Len(p) : q[i] = p[i]
    BY <1>1, <1>2, <1>6
  <2> HIDE DEF e
  <2> QED
    BY <1>2, <2>1, <2>2, GrownIsAppend
<1> QED
  BY <1>7 DEF p, q, a, n

LEMMA SplitAtSeparator ==
  ASSUME NEW C, NEW s \in Seq(C), NEW sep \in C
  PROVE  Split(Append(s, sep), sep) = Append(Split(s, sep), <<>>)
<1> DEFINE a == Append(s, sep)
           n == Len(s)
           p == PiecesOf(s, sep)
           q == PiecesOf(a, sep)
           I == EndsIn(s, sep)
           J == EndsIn(a, sep)
           end == n + 2
           e == q[end]
           st == StartOf(a, sep, end)
<1>1. /\ a \in Seq(C) /\ Len(a) = n + 1 /\ n \in Nat /\ DOMAIN s = 1 .. n /\ DOMAIN a = 1 .. n + 1
      /\ \A i \in 1 .. n : a[i] = s[i]
      /\ a[n + 1] = sep
  BY AppendFacts
<1>2. p \in Seq(Seq(C)) /\ Len(p) = n + 1
  BY PiecesType
<1> HIDE DEF a, n
<1>3. \A i \in 1 .. n + 1 : i \in J <=> i \in I
  BY <1>1 DEF EndsIn, n
<1>4. end \in J /\ n + 1 \in J /\ J \subseteq 1 .. end
  BY <1>1 DEF EndsIn
<1>5. q = Append(p, e) /\ e \in Seq(C)
  BY PiecesAppend DEF a, n
<1>6. e = <<>>
  <2>1. end \in 1 .. Len(a) + 1
    BY <1>1
  <2> HIDE DEF end
  <2>2. /\ st \in 1 .. end /\ \A i \in J : i < end => i < st
        /\ e \in Seq(C) /\ Len(e) = end - st
    BY <1>1, <2>1, StartFacts, PieceFacts
  <2> HIDE DEF st, e, J
  <2>3. n + 1 < end /\ end = n + 2
    BY <1>1 DEF end
  <2>4. st = end
    BY <1>1, <1>4, <2>2, <2>3
  <2>5. Len(e) = 0
    BY <1>1, <2>2, <2>3, <2>4
  <2> QED
    BY <2>2, <2>5, EmptySeq
<1> HIDE DEF p, q, I, J, e
<1>7. Kept(p, J) = Kept(p, I)
  <2>1. DOMAIN p = 1 .. n + 1
    BY <1>2, LenProperties
  <2> QED
    BY <1>3, <2>1, KeptSame
<1>8. Kept(Append(p, e), J) = IF Len(p) + 1 \in J THEN Append(Kept(p, J), e) ELSE Kept(p, J)
  BY <1>2, <1>5, KeptAppend
<1>9. Len(p) + 1 \in J
  <2>1. Len(p) + 1 = end
    BY <1>1, <1>2
  <2> QED
    BY <1>4, <2>1
<1>10. Split(s, sep) = Kept(p, I) /\ Split(a, sep) = Kept(q, J)
  BY SplitUnfold DEF p, q, I, J
<1>11. Split(a, sep) = Append(Split(s, sep), e)
  BY <1>5, <1>7, <1>8, <1>9, <1>10
<1> QED
  BY <1>6, <1>11 DEF a

\* The last piece of a split text is last, the others are front.
SplitsAs(s, sep, front, last) == Split(s, sep) = Append(front, last)

LEMMA SplitWithin ==
  ASSUME NEW C, NEW s \in Seq(C), NEW sep, NEW c \in C, c # sep
  PROVE  \A v \in Seq(Seq(C)), t \in Seq(C) :
            SplitsAs(s, sep, v, t) => SplitsAs(Append(s, c), sep, v, Append(t, c))
<1> DEFINE a == Append(s, c)
           n == Len(s)
           p == PiecesOf(s, sep)
           q == PiecesOf(a, sep)
           I == EndsIn(s, sep)
           J == EndsIn(a, sep)
           next == n + 1
           end == n + 2
           e == q[end]
           x == p[next]
           p0 == SubSeq(p, 1, n)
           st == StartOf(s, sep, next)
<1>1. /\ a \in Seq(C) /\ Len(a) = next /\ n \in Nat /\ DOMAIN s = 1 .. n /\ DOMAIN a = 1 .. next
      /\ \A i \in 1 .. n : a[i] = s[i]
      /\ a[next] = c
  BY AppendFacts
<1>2. p \in Seq(Seq(C)) /\ Len(p) = next
  BY PiecesType
<1> HIDE DEF a, n
<1>3. \A i \in 1 .. n : i \in J <=> i \in I
  BY <1>1 DEF EndsIn, n
<1>4. end \in J /\ next \notin J /\ J \subseteq 1 .. end /\ next \in I /\ I \subseteq 1 .. next
  BY <1>1 DEF EndsIn, n
<1>5. q = Append(p, e) /\ e \in Seq(C)
  BY PiecesAppend DEF a, n
<1>6. /\ st \in 1 .. next /\ x \in Seq(C) /\ Len(x) = next - st
      /\ \A i \in 1 .. next - st : x[i] = s[st + i - 1]
  <2>1. next \in 1 .. Len(s) + 1
    BY <1>1 DEF n
  <2> HIDE DEF next
  <2> QED
    BY <2>1, StartFacts, PieceFacts
<1>7. st = StartOf(a, sep, end)
  <2>1. {i \in J : i < end} = {i \in I : i < next}
    <3> HIDE DEF I, J
    <3>1. ASSUME NEW i \in J, i < end
          PROVE  i \in I /\ i < next
      <4>1. i \in 1 .. n
        BY <1>1, <1>4, <3>1
      <4> QED
        BY <1>1, <1>3, <3>1, <4>1
    <3>2. ASSUME NEW i \in I, i < next
          PROVE  i \in J /\ i < end
      <4>1. i \in 1 .. n
        BY <1>1, <1>4, <3>2
      <4> QED
        BY <1>1, <1>3, <3>2, <4>1
    <3> QED
      BY <3>1, <3>2
  <2> QED
    BY <2>1 DEF StartOf
<1>8. /\ Len(e) = end - st
      /\ \A i \in 1 .. end - st : e[i] = a[st + i - 1]
  <2>1. end \in 1 .. Len(a) + 1
    BY <1>1
  <2> HIDE DEF end, st
  <2>2. /\ Len(e) = end - StartOf(a, sep, end)
        /\ \A i \in 1 .. end - StartOf(a, sep, end) : e[i] = a[StartOf(a, sep, end) + i - 1]
    BY <1>1, <2>1, PieceFacts
  <2> QED
    BY <1>7, <2>2
<1> HIDE DEF p, q, I, J, e, x, st
<1>9. e = Append(x, c)
  <2>1. Len(e) = Len(x) + 1
    BY <1>1, <1>6, <1>8
  <2>2. ASSUME NEW k, k = Len(x) + 1
        PROVE  e[k] = c
    <3>1. k \in 1 .. end - st /\ st + k - 1 = next
      BY <1>1, <1>6, <2>2
    <3> HIDE DEF next, end
    <3> QED
      BY <1>1, <1>8, <3>1
  <2>3. ASSUME NEW i \in 1 .. Len(x)
        PROVE  e[i] = x[i]
    <3>1. i \in 1 .. end - st /\ i \in 1 .. next - st /\ st + i - 1 \in 1 .. n
      BY <1>1, <1>6
    <3> HIDE DEF next, end
    <3>2. e[i] = a[st + i - 1] /\ x[i] = s[st + i - 1]
      BY <1>6, <1>8, <3>1
    <3> QED
      BY <1>1, <3>1, <3>2
  <2>4. e[Len(x) + 1] = c
    BY <2>2
  <2> HIDE DEF next, end
  <2> QED
    BY <1>5, <1>6, <2>1, <2>3, <2>4, GrownIsAppend
<1>10. p0 \in Seq(Seq(C)) /\ Len(p0) = n /\ p = Append(p0, x)
  <2>1. p[n + 1] \in Seq(C)
    BY <1>6 DEF x
  <2> QED
    BY <1>1, <1>2, <2>1, SubSeqProperties DEF x
<1> HIDE DEF p0
<1>11. Kept(p0, J) = Kept(p0, I) /\ Kept(p0, I) \in Seq(Seq(C))
  <2>1. DOMAIN p0 = 1 .. n
    BY <1>10, LenProperties
  <2> QED
    BY <1>3, <1>10, <2>1, KeptSame, KeptType
<1>12. Kept(p, I) = Append(Kept(p0, I), x) /\ Kept(p, J) = Kept(p0, J)
  <2>1. Len(p0) + 1 \in I /\ Len(p0) + 1 \notin J
    BY <1>4, <1>10
  <2>2. /\ Kept(Append(p0, x), I) = IF Len(p0) + 1 \in I THEN Append(Kept(p0, I), x) ELSE Kept(p0, I)
        /\ Kept(Append(p0, x), J) = IF Len(p0) + 1 \in J THEN Append(Kept(p0, J), x) ELSE Kept(p0, J)
    <3>1. p0 \in Seq(Seq(C)) /\ x \in Seq(C)
      BY <1>6, <1>10
    <3> QED
      BY <3>1, KeptAppend
  <2> QED
    BY <1>10, <2>1, <2>2
<1>13. Kept(q, J) = Append(Kept(p, J), e)
  <2>1. Len(p) + 1 = end
    BY <1>1, <1>2
  <2>2. Kept(Append(p, e), J) = IF Len(p) + 1 \in J THEN Append(Kept(p, J), e) ELSE Kept(p, J)
    <3>1. p \in Seq(Seq(C)) /\ e \in Seq(C)
      BY <1>2, <1>5
    <3> QED
      BY <3>1, KeptAppend
  <2> QED
    BY <1>4, <1>5, <2>1, <2>2
<1>14. Split(s, sep) = Kept(p, I) /\ Split(a, sep) = Kept(q, J)
  BY SplitUnfold DEF p, q, I, J
<1> DEFINE front == Kept(p0, I)
<1>15. Split(s, sep) = Append(front, x) /\ Split(a, sep) = Append(front, Append(x, c))
  BY <1>9, <1>11, <1>12, <1>13, <1>14
<1>16. front \in Seq(Seq(C)) /\ x \in Seq(C)
  BY <1>6, <1>11
<1>17. ASSUME NEW v \in Seq(Seq(C)), NEW t \in Seq(C), SplitsAs(s, sep, v, t)
       PROVE  SplitsAs(a, sep, v, Append(t, c))
  <2>1. Append(front, x) = Append(v, t)
    BY <1>15, <1>17 DEF SplitsAs
  <2> HIDE DEF front
  <2>2. front = v /\ x = t
    BY <1>16, <1>17, <2>1, AppendInjective
  <2> QED
    BY <1>15, <2>2 DEF SplitsAs
<1> QED
  BY <1>17 DEF a

LEMMA SplitJoin ==
  ASSUME NEW C, NEW s \in Seq(C), NEW sep \in C
  PROVE  \A t \in Seq({c \in C : c # sep}) : Split(Append(s, sep) \o t, sep) = Append(Split(s, sep), t)
<1> DEFINE D == {c \in C : c # sep}
           a == Append(s, sep)
           P == {t \in Seq(D) : Split(a \o t, sep) = Append(Split(s, sep), t)}
<1>1. a \in Seq(C) /\ Split(a, sep) = Append(Split(s, sep), <<>>)
  BY AppendProperties, SplitAtSeparator
<1>2. Split(s, sep) \in Seq(Seq(C))
  BY PiecesType
<1> HIDE DEF a
<1>3. <<>> \in P
  BY <1>1, ConcatEmptySeq, EmptySeq
<1>4. ASSUME NEW t \in Seq(D), NEW c \in D, t \in P
      PROVE  Append(t, c) \in P
  <2> DEFINE u == a \o t
             v == Split(s, sep)
  <2>1. c \in C /\ c # sep /\ Split(u, sep) = Append(v, t)
    BY <1>4
  <2>2. Append(t, c) \in Seq(D)
    <3> HIDE DEF D
    <3> QED
      BY AppendProperties
  <2>3. D \subseteq C
    OBVIOUS
  <2> HIDE DEF D
  <2>4. t \in Seq(C)
    BY <2>3, SeqWider
  <2>5. u \in Seq(C) /\ a \o Append(t, c) = Append(u, c)
    BY <1>1, <2>1, <2>4, ConcatProperties, ConcatAppend
  <2> HIDE DEF u, v
  <2>6. u \in Seq(C) /\ c \in C /\ c # sep /\ v \in Seq(Seq(C)) /\ t \in Seq(C)
    BY <1>2, <2>1, <2>4, <2>5 DEF v
  <2>7. Split(Append(u, c), sep) = Append(v, Append(t, c))
    <3>1. \A w \in Seq(Seq(C)), y \in Seq(C) :
            SplitsAs(u, sep, w, y) => SplitsAs(Append(u, c), sep, w, Append(y, c))
      BY <2>6, SplitWithin
    <3>2. SplitsAs(u, sep, v, t)
      BY <2>1 DEF SplitsAs
    <3>3. SplitsAs(Append(u, c), sep, v, Append(t, c))
      BY <2>6, <3>1, <3>2
    <3> QED
      BY <3>3 DEF SplitsAs
  <2>8. Split(a \o Append(t, c), sep) = Append(v, Append(t, c))
    BY <2>5, <2>7
  <2> QED
    BY <2>2, <2>8 DEF v
<1>5. Seq(D) \subseteq P
  <2> HIDE DEF P, D
  <2> QED
    BY <1>3, <1>4, SeqInduction
<1> QED
  BY <1>5 DEF a

\* A text without the characters to trim stays as it is, and with one before it
\* loses that one.
LEMMA TrimEndSame ==
  ASSUME NEW C, NEW s \in Seq(C), NEW cs, \A c \in C : c \notin cs
  PROVE  TrimEnd(s, cs) = s
<1> DEFINE t == TrimEnd(s, cs)
<1>1. PICK m \in 0 .. Len(s) :
        /\ t \in Seq(C) /\ Len(t) = m
        /\ \A i \in 1 .. m : t[i] = s[i]
        /\ \A i \in 1 .. Len(s) : m < i => s[i] \in cs
  BY TrimEndFacts
<1>2. Len(s) \in Nat /\ \A i \in 1 .. Len(s) : s[i] \in C
  BY LenProperties, ElementOfSeq
<1> HIDE DEF t
<1>3. m = Len(s)
  <2> SUFFICES ASSUME m # Len(s)
               PROVE  FALSE
    OBVIOUS
  <2>1. m < Len(s) /\ Len(s) \in 1 .. Len(s)
    BY <1>1, <1>2
  <2> QED
    BY <1>1, <1>2, <2>1
<1>4. Len(t) = Len(s) /\ \A i \in 1 .. Len(t) : t[i] = s[i]
  BY <1>1, <1>3
<1>5. t \in Seq(C)
  BY <1>1
<1>6. t = s
  BY <1>4, <1>5, SeqEqual
<1> QED
  BY <1>6 DEF t

LEMMA TrimSame ==
  ASSUME NEW C, NEW s \in Seq(C), NEW cs, \A c \in C : c \notin cs
  PROVE  Trim(s, cs) = s
<1> DEFINE r == Skip(s, cs, 1)
           n == Len(s)
<1>1. TrimEnd(s, cs) = s
  BY TrimEndSame
<1>2. n \in Nat /\ \A i \in 1 .. n : s[i] \in C
  BY LenProperties, ElementOfSeq
<1>3. /\ r \in Nat /\ r >= 1
      /\ \A i \in 1 .. n : i < r => s[i] \in cs
      /\ r <= n \/ r = IF 1 <= n THEN n + 1 ELSE 1
  BY SkipFacts
<1> HIDE DEF r, n
<1>4. r = 1
  <2>1. CASE n = 0
    BY <1>3, <2>1
  <2>2. CASE n # 0
    <3>1. 1 \in 1 .. n /\ s[1] \notin cs
      BY <1>2, <2>2
    <3>2. ~ (1 < r)
      BY <1>3, <3>1
    <3> QED
      BY <1>3, <3>2
  <2> QED
    BY <2>1, <2>2
<1>5. SubSeq(s, 1, n) = s
  BY SubSeqFull DEF n
<1> QED
  BY <1>1, <1>4, <1>5 DEF Trim, r, n

LEMMA TrimPadded ==
  ASSUME NEW C, NEW x \in Seq(C), NEW c, c \notin C
  PROVE  Trim(<<c>> \o x, {c}) = x
<1> DEFINE T == C \cup {c}
           o == <<c>>
           y == o \o x
           n == Len(x)
           t == TrimEnd(y, {c})
           r == Skip(t, {c}, 1)
<1>1. n \in Nat /\ \A i \in 1 .. n : x[i] \in C
  BY LenProperties, ElementOfSeq
<1>2. x \in Seq(T) /\ c \in T
  <2>1. C \subseteq T /\ c \in T
    OBVIOUS
  <2> HIDE DEF T
  <2> QED
    BY <2>1, SeqWider
<1>3. o \in Seq(T) /\ Len(o) = 1 /\ o[1] = c
  <2>1. c \in T
    BY <1>2
  <2> HIDE DEF T
  <2> QED
    BY <2>1, OneIsSeq
<1> HIDE DEF T, o, n
<1>4. /\ y \in Seq(T) /\ Len(y) = Len(o) + Len(x)
      /\ \A i \in 1 .. Len(o) + Len(x) : y[i] = IF i <= Len(o) THEN o[i] ELSE x[i - Len(o)]
  <2>1. o \in Seq(T) /\ x \in Seq(T)
    BY <1>2, <1>3
  <2> QED
    BY <2>1, ConcatProperties
<1> HIDE DEF y
<1>5. /\ Len(y) = n + 1
      /\ \A i \in 1 .. n + 1 : y[i] = IF i <= 1 THEN o[i] ELSE x[i - 1]
  BY <1>1, <1>3, <1>4 DEF n
<1>6. ASSUME NEW k, k = 1
      PROVE  y[k] = c
  <2>1. k \in 1 .. n + 1 /\ k <= 1
    BY <1>1, <1>6
  <2> QED
    BY <1>3, <1>5, <1>6, <2>1
<1>7. ASSUME NEW i \in 1 .. n, NEW k, k = i + 1
      PROVE  y[k] = x[i]
  <2>1. k \in 1 .. n + 1 /\ ~ (k <= 1) /\ k - 1 = i
    BY <1>1, <1>7
  <2> QED
    BY <1>5, <2>1
<1>8. PICK m \in 0 .. Len(y) :
        /\ t = SubSeq(y, 1, m) /\ t \in Seq(T) /\ Len(t) = m
        /\ \A i \in 1 .. m : t[i] = y[i]
        /\ m # 0 => y[m] \notin {c}
        /\ \A i \in 1 .. Len(y) : m < i => y[i] \in {c}
  BY <1>4, TrimEndFacts
<1> HIDE DEF t
<1>9. /\ r \in Nat /\ r >= 1
      /\ \A i \in 1 .. m : i < r => t[i] \in {c}
      /\ r <= m => t[r] \notin {c}
      /\ r <= m \/ r = IF 1 <= m THEN m + 1 ELSE 1
  <2>1. t \in Seq(T) /\ Len(t) = m
    BY <1>8
  <2>2. /\ r \in Nat /\ r >= 1
        /\ \A i \in 1 .. Len(t) : i < r => t[i] \in {c}
        /\ r <= Len(t) => t[r] \notin {c}
        /\ r <= Len(t) \/ r = IF 1 <= Len(t) THEN Len(t) + 1 ELSE 1
    BY <2>1, SkipFacts
  <2> QED
    BY <2>1, <2>2
<1> HIDE DEF r
<1>10. Trim(y, {c}) = SubSeq(t, r, m)
  BY <1>8 DEF Trim, t, r
<1> DEFINE z == SubSeq(t, r, m)
<1>11. /\ z \in Seq(T) /\ Len(z) = IF r <= m THEN m - r + 1 ELSE 0
       /\ \A i \in 1 .. m - r + 1 : z[i] = t[r + i - 1]
  <2>1. r \in Nat \ {0} /\ m \in Nat /\ m <= Len(t)
    BY <1>1, <1>5, <1>8, <1>9
  <2>2. t \in Seq(T)
    BY <1>8
  <2> QED
    BY <2>1, <2>2, SubSeqFacts
<1> HIDE DEF z
<1>12. CASE n = 0
  <2>1. m = 0
    <3> SUFFICES ASSUME m # 0
                 PROVE  FALSE
      OBVIOUS
    <3>1. m = 1
      BY <1>5, <1>8, <1>12
    <3> QED
      BY <1>6, <1>8, <3>1
  <2>2. Len(z) = 0
    BY <1>9, <1>11, <2>1
  <2>3. Len(x) = 0
    BY <1>12 DEF n
  <2>4. z = <<>> /\ x = <<>>
    BY <1>11, <2>2, <2>3, EmptySeq
  <2> QED
    BY <1>10, <2>4 DEF z, y, o
<1>13. CASE n # 0
  <2>1. m = n + 1
    <3> SUFFICES ASSUME m # n + 1
                 PROVE  FALSE
      OBVIOUS
    <3> DEFINE k == n + 1
    <3>1. m < k /\ k \in 1 .. Len(y) /\ n \in 1 .. n
      BY <1>1, <1>5, <1>8, <1>13
    <3>2. y[k] = x[n]
      BY <1>7, <3>1
    <3>3. y[k] = c
      <4> HIDE DEF k
      <4> QED
        BY <1>8, <3>1
    <3> QED
      BY <1>1, <3>1, <3>2, <3>3
  <2>2. r = 2
    <3>1. 1 \in 1 .. m /\ 2 \in 1 .. m /\ 1 \in 1 .. n
      BY <1>1, <1>13, <2>1
    <3>2. t[1] = c /\ t[2] = x[1]
      <4>1. ASSUME NEW k, k = 2
            PROVE  t[k] = x[1]
        <5>1. y[k] = x[1]
          BY <1>7, <3>1, <4>1
        <5> QED
          BY <1>8, <3>1, <4>1, <5>1
      <4>2. ASSUME NEW k, k = 1
            PROVE  t[k] = c
        BY <1>6, <1>8, <3>1, <4>2
      <4> QED
        BY <4>1, <4>2
    <3>3. r # 1
      <4> SUFFICES ASSUME r = 1
                   PROVE  FALSE
        OBVIOUS
      <4>1. r <= m
        BY <3>1
      <4> QED
        BY <1>9, <3>2, <4>1
    <3>4. ~ (2 < r)
      <4> SUFFICES ASSUME 2 < r
                   PROVE  FALSE
        OBVIOUS
      <4>1. t[2] \in {c}
        BY <1>9, <3>1
      <4> QED
        BY <1>1, <3>1, <3>2, <4>1
    <3> QED
      BY <1>9, <3>3, <3>4
  <2>3. Len(z) = n
    BY <1>1, <1>11, <2>1, <2>2
  <2>4. ASSUME NEW i \in 1 .. n
        PROVE  z[i] = x[i]
    <3> DEFINE k == i + 1
    <3>1. i \in 1 .. m - r + 1 /\ r + i - 1 = k /\ k \in 1 .. m
      BY <1>1, <2>1, <2>2
    <3>2. y[k] = x[i]
      BY <1>7
    <3> HIDE DEF k
    <3> QED
      BY <1>8, <1>11, <3>1, <3>2
  <2>5. z \in Seq(T) /\ x \in Seq(T) /\ Len(z) = Len(x) /\ \A i \in 1 .. Len(z) : z[i] = x[i]
    BY <1>2, <1>11, <2>3, <2>4 DEF n
  <2>6. z = x
    BY <2>5, SeqEqual
  <2> QED
    BY <1>10, <2>6 DEF z, y, o
<1> QED
  BY <1>12, <1>13

\* A function on the elements of a sequence.
Mapped(f, s) == [i \in DOMAIN s |-> f[s[i]]]

\* f takes S into T.
MapsInto(f, S, T) == \A x \in S : f[x] \in T

LEMMA MappedFacts ==
  ASSUME NEW S, NEW T, NEW f, MapsInto(f, S, T), NEW s \in Seq(S)
  PROVE  /\ Mapped(f, s) \in Seq(T) /\ Len(Mapped(f, s)) = Len(s)
         /\ \A e \in S : Mapped(f, Append(s, e)) = Append(Mapped(f, s), f[e])
<1> DEFINE M(x) == Mapped(f, x)
<1>1. ASSUME NEW x \in Seq(S)
      PROVE  M(x) \in Seq(T) /\ Len(M(x)) = Len(x) /\ \A i \in 1 .. Len(x) : M(x)[i] = f[x[i]]
  <2> DEFINE m == M(x)
             n == Len(x)
  <2>1. n \in Nat /\ DOMAIN x = 1 .. n /\ \A i \in 1 .. n : x[i] \in S
    BY LenProperties, ElementOfSeq
  <2>2. DOMAIN m = 1 .. n /\ m = [i \in 1 .. n |-> m[i]] /\ \A i \in 1 .. n : m[i] = f[x[i]]
    BY <2>1 DEF Mapped
  <2> HIDE DEF m, n
  <2>3. \A i \in 1 .. n : m[i] \in T
    BY <2>1, <2>2 DEF MapsInto
  <2>4. m \in Seq(T) /\ Len(m) = n
    BY <2>1, <2>2, <2>3, MapType
  <2> QED
    BY <2>2, <2>4 DEF m, n
<1>2. ASSUME NEW e \in S
      PROVE  M(Append(s, e)) = Append(M(s), f[e])
  <2> DEFINE a == Append(s, e)
             n == Len(s)
             g == M(a)
             h == M(s)
             x == f[e]
  <2>1. /\ a \in Seq(S) /\ n \in Nat /\ Len(a) = n + 1 /\ a[n + 1] = e
        /\ \A i \in 1 .. n : a[i] = s[i]
    BY AppendFacts
  <2> HIDE DEF a, n
  <2>2. g \in Seq(T) /\ Len(g) = n + 1 /\ \A i \in 1 .. n + 1 : g[i] = f[a[i]]
    BY <1>1, <2>1
  <2>3. h \in Seq(T) /\ Len(h) = n /\ \A i \in 1 .. n : h[i] = f[s[i]]
    BY <1>1 DEF n
  <2>4. ASSUME NEW k, k = n + 1
        PROVE  g[k] = x
    <3>1. k \in 1 .. n + 1 /\ a[k] = e
      BY <2>1, <2>4
    <3> QED
      BY <2>2, <3>1
  <2>5. \A i \in 1 .. n : g[i] = h[i]
    <3> SUFFICES ASSUME NEW i \in 1 .. n
                 PROVE  g[i] = h[i]
      OBVIOUS
    <3>1. i \in 1 .. n + 1
      BY <2>1
    <3> QED
      BY <2>1, <2>2, <2>3, <3>1
  <2> HIDE DEF g, h, x, M
  <2>6. g[Len(h) + 1] = x /\ Len(g) = Len(h) + 1 /\ \A i \in 1 .. Len(h) : g[i] = h[i]
    BY <2>2, <2>3, <2>4, <2>5
  <2>7. g = Append(h, x)
    BY <2>2, <2>3, <2>6, GrownIsAppend
  <2> QED
    BY <2>7 DEF g, h, x, a
<1> QED
  BY <1>1, <1>2

\* Base64: what was encoded is decoded to the byte.
Bytes == DOMAIN Letters
Codes == {"A", "B", "C", "D"}

LEMMA LettersFacts ==
  /\ Bytes = {"a", "sp", "nul", "comma"}
  /\ \A b \in Bytes : Letters[b] \in Codes
  /\ \A b, c \in Bytes : Letters[b] = Letters[c] => b = c
  /\ "=" \notin Codes /\ "sp" \notin Codes /\ "comma" \notin Codes
  /\ "none" \notin Bytes
BY DEF Bytes, Codes, Letters

LEMMA DecodeEncode ==
  ASSUME NEW x \in Seq(Bytes)
  PROVE  Encode(x) \in Seq(Codes) /\ Decode(Encode(x)) = x
<1> DEFINE e == Encode(x)
           n == Len(x)
<1>1. n \in Nat /\ DOMAIN x = 1 .. n /\ \A i \in 1 .. n : x[i] \in Bytes
  BY LenProperties, ElementOfSeq
<1>2. DOMAIN e = 1 .. n /\ e = [i \in 1 .. n |-> e[i]] /\ \A i \in 1 .. n : e[i] = Letters[x[i]]
  BY <1>1 DEF Encode
<1> HIDE DEF e, n
<1>3. \A i \in 1 .. n : e[i] \in Codes
  BY <1>1, <1>2, LettersFacts
<1>4. e \in Seq(Codes) /\ Len(e) = n
  BY <1>1, <1>2, <1>3, MapType
<1>5. TrimEnd(e, {"="}) = e
  <2>1. \A c \in Codes : c \notin {"="}
    BY LettersFacts
  <2> QED
    BY <1>4, <2>1, TrimEndSame
<1>6. ~ \E i \in DOMAIN e : \A b \in Bytes : Letters[b] # e[i]
  BY <1>1, <1>2
<1>7. ASSUME NEW i \in 1 .. n
      PROVE  (CHOOSE b \in Bytes : Letters[b] = e[i]) = x[i]
  <2>1. x[i] \in Bytes /\ Letters[x[i]] = e[i]
    BY <1>1, <1>2
  <2>2. \A b \in Bytes : Letters[b] = e[i] => b = x[i]
    BY <2>1, LettersFacts
  <2> QED
    BY <2>1, <2>2
<1>8. Decode(e) = [i \in DOMAIN e |-> CHOOSE b \in Bytes : Letters[b] = e[i]]
  <2> DEFINE t == TrimEnd(e, {"="})
  <2>1. Decode(e) = IF \E i \in DOMAIN t : \A b \in Bytes : Letters[b] # t[i] THEN None
                    ELSE [i \in DOMAIN t |-> CHOOSE b \in Bytes : Letters[b] = t[i]]
    BY Zenon DEF Decode, Bytes
  <2>2. t = e
    BY <1>5
  <2> HIDE DEF t
  <2> QED
    BY <1>6, <2>1, <2>2, ZenonT(30)
<1>9. x = [i \in 1 .. n |-> x[i]]
  BY <1>1
<1>10. Decode(e) = x
  BY <1>2, <1>7, <1>8, <1>9
<1> QED
  BY <1>4, <1>10 DEF e

\* A separator and a space between two texts.
Two(c, d) == <<c, d>>
One(d) == <<d>>
PutBehind(s, c, d, x) == s \o (Two(c, d) \o x) = Append(s, c) \o (One(d) \o x)

LEMMA PairConcat ==
  ASSUME NEW C, NEW s \in Seq(C), NEW x \in Seq(C), NEW c \in C, NEW d \in C
  PROVE  /\ Two(c, d) \o x \in Seq(C) /\ One(d) \o x \in Seq(C)
         /\ PutBehind(s, c, d, x)
<1> DEFINE oc == <<c>>
           od == <<d>>
           cd == <<c, d>>
           a == Append(s, c)
<1>1. oc \in Seq(C) /\ od \in Seq(C) /\ cd \in Seq(C)
  BY OneIsSeq, TwoIsSeq
<1>2. cd = Append(oc, d)
  BY AppendToFew
<1>3. a = s \o oc /\ Append(oc, d) = oc \o od
  BY <1>1, AppendIsConcat
<1> HIDE DEF oc, od, cd, a
<1>4. od \o x \in Seq(C) /\ cd \o x \in Seq(C)
  BY <1>1, ConcatProperties
<1>5. cd \o x = oc \o (od \o x)
  <2>1. Associates(oc, od, x)
    BY <1>1, Reassociate
  <2> QED
    BY <1>2, <1>3, <2>1 DEF Associates
<1>6. (s \o oc) \o (od \o x) = s \o (oc \o (od \o x))
  <2> DEFINE y == od \o x
  <2>1. y \in Seq(C)
    BY <1>4
  <2> HIDE DEF y
  <2>2. Associates(s, oc, y)
    BY <1>1, <2>1, Reassociate
  <2> QED
    BY <2>2 DEF y, Associates
<1> QED
  BY <1>3, <1>4, <1>5, <1>6 DEF cd, od, a, Two, One, PutBehind

\* What is read of the pieces of a joined value, what is written for values, and
\* the texts as a proxy puts them behind the first.
Decoded(pieces) == [i \in DOMAIN pieces |-> Decode(Trim(pieces[i], {"sp"}))]
Encoded(values) == [i \in DOMAIN values |-> Encode(values[i])]
Padded(rest) == [i \in DOMAIN rest |-> <<"comma", "sp">> \o rest[i]]

\* The value that a proxy makes of several.
JoinedOf(texts) == texts[1] \o FlattenSeq(Padded(Tail(texts)))

LEMMA DecodedAppend ==
  ASSUME NEW C, NEW pieces \in Seq(Seq(C)), NEW t \in Seq(C)
  PROVE  Decoded(Append(pieces, t)) = Append(Decoded(pieces), Decode(Trim(t, {"sp"})))
<1> DEFINE S == Seq(C)
           f == [x \in S |-> Decode(Trim(x, {"sp"}))]
           T == {f[x] : x \in S}
           a == Append(pieces, t)
<1>1. ASSUME NEW s \in Seq(S)
      PROVE  Decoded(s) = Mapped(f, s)
  <2>1. \A i \in DOMAIN s : s[i] \in S
    BY ElementOfSeq, LenProperties
  <2> HIDE DEF S
  <2>2. \A i \in DOMAIN s : f[s[i]] = Decode(Trim(s[i], {"sp"}))
    BY <2>1
  <2> HIDE DEF f
  <2> QED
    BY <2>2 DEF Decoded, Mapped
<1>2. a \in Seq(S)
  BY AppendProperties
<1>3. f[t] = Decode(Trim(t, {"sp"})) /\ t \in S
  OBVIOUS
<1>4. MapsInto(f, S, T)
  BY DEF MapsInto
<1>5. pieces \in Seq(S)
  OBVIOUS
<1> HIDE DEF S, f, T
<1>6. Mapped(f, Append(pieces, t)) = Append(Mapped(f, pieces), f[t])
  BY <1>3, <1>4, <1>5, MappedFacts
<1> QED
  BY <1>1, <1>2, <1>3, <1>5, <1>6

LEMMA EncodedFacts ==
  ASSUME NEW values \in Seq(Seq(Bytes))
  PROVE  /\ Encoded(values) \in Seq(Seq(Codes)) /\ Len(Encoded(values)) = Len(values)
         /\ \A b \in Seq(Bytes) : Encoded(Append(values, b)) = Append(Encoded(values), Encode(b))
<1> DEFINE S == Seq(Bytes)
           f == [x \in S |-> Encode(x)]
           T == Seq(Codes)
<1>1. ASSUME NEW s \in Seq(S)
      PROVE  Encoded(s) = Mapped(f, s)
  <2>1. \A i \in DOMAIN s : s[i] \in S
    BY ElementOfSeq, LenProperties
  <2> HIDE DEF S
  <2>2. \A i \in DOMAIN s : f[s[i]] = Encode(s[i])
    BY <2>1
  <2> HIDE DEF f
  <2> QED
    BY <2>2 DEF Encoded, Mapped
<1>2. \A b \in S : f[b] = Encode(b) /\ f[b] \in T
  BY DecodeEncode
<1>3. \A b \in S : Append(values, b) \in Seq(S)
  BY AppendProperties
<1>4. values \in Seq(S)
  OBVIOUS
<1>5. \A b \in Seq(Bytes) : b \in S
  OBVIOUS
<1>6. Mapped(f, values) \in Seq(T) /\ Len(Mapped(f, values)) = Len(values)
      /\ \A b \in S : Mapped(f, Append(values, b)) = Append(Mapped(f, values), f[b])
  <2>1. MapsInto(f, S, T)
    BY <1>2 DEF MapsInto
  <2> HIDE DEF S, f, T
  <2> QED
    BY <1>4, <2>1, MappedFacts
<1>7. Encoded(values) \in Seq(T) /\ Len(Encoded(values)) = Len(values)
  BY <1>1, <1>4, <1>6
<1>8. \A b \in S : Encoded(Append(values, b)) = Append(Encoded(values), Encode(b))
  <2> SUFFICES ASSUME NEW b \in S
               PROVE  Encoded(Append(values, b)) = Append(Encoded(values), Encode(b))
    OBVIOUS
  <2>1. Encoded(Append(values, b)) = Mapped(f, Append(values, b)) /\ Encoded(values) = Mapped(f, values)
    BY <1>1, <1>3, <1>4
  <2>2. f[b] = Encode(b)
    BY <1>2
  <2> HIDE DEF S, f
  <2> QED
    BY <1>6, <2>1, <2>2
<1> QED
  BY <1>7, <1>8

LEMMA PaddedFacts ==
  ASSUME NEW C, {"comma", "sp"} \subseteq C, NEW rest \in Seq(Seq(C))
  PROVE  /\ Padded(rest) \in Seq(Seq(C))
         /\ \A x \in Seq(C) : Padded(Append(rest, x)) = Append(Padded(rest), <<"comma", "sp">> \o x)
<1> DEFINE S == Seq(C)
           mark == <<"comma", "sp">>
           f == [x \in S |-> mark \o x]
<1>1. mark \in S
  BY TwoIsSeq
<1> HIDE DEF mark
<1>2. \A x \in S : f[x] = mark \o x /\ f[x] \in S
  BY <1>1, ConcatProperties
<1>3. ASSUME NEW s \in Seq(S)
      PROVE  Padded(s) = Mapped(f, s)
  <2>1. \A i \in DOMAIN s : s[i] \in S
    BY ElementOfSeq, LenProperties
  <2> HIDE DEF S
  <2>2. \A i \in DOMAIN s : f[s[i]] = mark \o s[i]
    BY <2>1
  <2> HIDE DEF f
  <2> QED
    BY <2>2 DEF Padded, Mapped, mark
<1>4. \A x \in S : Append(rest, x) \in Seq(S)
  BY AppendProperties
<1>5. rest \in Seq(S)
  OBVIOUS
<1> DEFINE g == Mapped(f, rest)
<1>6. g \in Seq(S) /\ \A x \in S : Mapped(f, Append(rest, x)) = Append(g, f[x])
  <2>1. MapsInto(f, S, S)
    BY <1>2 DEF MapsInto
  <2> HIDE DEF S, f
  <2> QED
    BY <1>5, <2>1, MappedFacts
<1>7. Padded(rest) = g
  BY <1>3, <1>5
<1>8. \A x \in S : Padded(Append(rest, x)) = Append(Padded(rest), mark \o x)
  <2> SUFFICES ASSUME NEW x \in S
               PROVE  Padded(Append(rest, x)) = Append(Padded(rest), mark \o x)
    OBVIOUS
  <2>1. Padded(Append(rest, x)) = Mapped(f, Append(rest, x))
    BY <1>3, <1>4
  <2>2. f[x] = mark \o x
    BY <1>2
  <2>3. Mapped(f, Append(rest, x)) = Append(g, f[x])
    BY <1>6
  <2> HIDE DEF S, f, g
  <2> QED
    BY <1>7, <2>1, <2>2, <2>3
<1> QED
  BY <1>6, <1>7, <1>8 DEF mark

LEMMA TailAppend ==
  ASSUME NEW S, NEW s \in Seq(S), NEW e \in S
  PROVE  /\ s # <<>> => Tail(s) \in Seq(S) /\ Tail(Append(s, e)) = Append(Tail(s), e) /\ Append(s, e)[1] = s[1]
         /\ Tail(Append(<<>>, e)) = <<>> /\ Append(<<>>, e)[1] = e
<1>1. ASSUME s # <<>>
      PROVE  Tail(s) \in Seq(S) /\ Tail(Append(s, e)) = Append(Tail(s), e) /\ Append(s, e)[1] = s[1]
  <2> DEFINE a == Append(s, e)
             g == Tail(a)
             h == Tail(s)
             n == Len(s)
  <2>1. /\ a \in Seq(S) /\ a # <<>> /\ n \in Nat /\ Len(a) = n + 1 /\ a[n + 1] = e
        /\ \A i \in 1 .. n : a[i] = s[i]
    BY AppendFacts
  <2>2. n # 0
    BY <1>1, EmptySeq
  <2>3. h \in Seq(S) /\ Len(h) = n - 1 /\ \A i \in 1 .. n - 1 : h[i] = s[i + 1]
    BY <1>1, HeadTailProperties
  <2> HIDE DEF a, n, h
  <2>4. g \in Seq(S) /\ Len(g) = n /\ \A i \in 1 .. n : g[i] = a[i + 1]
    <3>1. a \in Seq(S) /\ a # <<>>
      BY <2>1
    <3>2. Tail(a) \in Seq(S) /\ Len(Tail(a)) = Len(a) - 1 /\ \A i \in 1 .. Len(a) - 1 : Tail(a)[i] = a[i + 1]
      BY <3>1, HeadTailProperties
    <3>3. Len(a) - 1 = n
      BY <2>1
    <3> QED
      BY <3>2, <3>3
  <2> HIDE DEF g
  <2>5. Len(g) = Len(h) + 1 /\ g[Len(h) + 1] = e
    <3>1. n \in 1 .. n /\ Len(h) + 1 = n
      BY <2>1, <2>2, <2>3
    <3> QED
      BY <2>1, <2>4, <3>1
  <2>6. \A i \in 1 .. Len(h) : g[i] = h[i]
    <3> SUFFICES ASSUME NEW i \in 1 .. Len(h)
                 PROVE  g[i] = h[i]
      OBVIOUS
    <3>1. i \in 1 .. n - 1 /\ i \in 1 .. n /\ i + 1 \in 1 .. n
      BY <2>1, <2>2, <2>3
    <3> QED
      BY <2>1, <2>3, <2>4, <3>1
  <2>7. g = Append(h, e)
    BY <2>3, <2>4, <2>5, <2>6, GrownIsAppend
  <2>8. a[1] = s[1]
    <3>1. 1 \in 1 .. n
      BY <2>1, <2>2
    <3> QED
      BY <2>1, <3>1
  <2> QED
    BY <2>3, <2>7, <2>8 DEF a, g, h
<1>2. Tail(Append(<<>>, e)) = <<>> /\ Append(<<>>, e)[1] = e
  <2> DEFINE o == <<e>>
  <2>1. Append(<<>>, e) = o
    BY AppendToFew
  <2>2. o \in Seq(S) /\ Len(o) = 1 /\ o[1] = e
    BY OneIsSeq
  <2> HIDE DEF o
  <2>3. o # <<>>
    <3>1. Len(<<>>) = 0
      BY EmptySeq
    <3> QED
      BY <2>2, <3>1
  <2>4. Tail(o) \in Seq(S) /\ Len(Tail(o)) = 0
    BY <2>2, <2>3, HeadTailProperties
  <2>5. Tail(o) = <<>>
    BY <2>4, EmptySeq
  <2> QED
    BY <2>1, <2>2, <2>5
<1> QED
  BY <1>1, <1>2

LEMMA JoinedAppend ==
  ASSUME NEW C, {"comma", "sp"} \subseteq C, NEW texts \in Seq(Seq(C)), NEW x \in Seq(C)
  PROVE  /\ JoinedOf(Append(<<>>, x)) = x
         /\ texts # <<>> =>
              /\ JoinedOf(texts) \in Seq(C)
              /\ JoinedOf(Append(texts, x)) = Append(JoinedOf(texts), "comma") \o (<<"sp">> \o x)
<1>1. JoinedOf(Append(<<>>, x)) = x
  <2> DEFINE o == Append(<<>>, x)
             S == Seq(C)
  <2>1. Tail(o) = <<>> /\ o[1] = x
    <3>1. x \in S /\ texts \in Seq(S)
      OBVIOUS
    <3> HIDE DEF S
    <3> QED
      BY <3>1, TailAppend
  <2> HIDE DEF o
  <2>2. Padded(<<>>) = <<>>
    BY DEF Padded
  <2>3. x \o <<>> = x
    BY ConcatEmptySeq
  <2>4. JoinedOf(o) = o[1] \o FlattenSeq(Padded(Tail(o)))
    BY DEF JoinedOf
  <2>5. JoinedOf(o) = x \o <<>>
    BY <2>1, <2>2, <2>4, FlattenOfNone
  <2> QED
    BY <2>3, <2>5 DEF o
<1>2. ASSUME texts # <<>>
      PROVE  /\ JoinedOf(texts) \in Seq(C)
             /\ JoinedOf(Append(texts, x)) = Append(JoinedOf(texts), "comma") \o (<<"sp">> \o x)
  <2> DEFINE S == Seq(C)
             first == texts[1]
             rest == Tail(texts)
             mark == <<"comma", "sp">>
             flat == FlattenSeq(Padded(rest))
             more == mark \o x
  <2>1. rest \in Seq(S) /\ Tail(Append(texts, x)) = Append(rest, x) /\ Append(texts, x)[1] = first
    <3>1. x \in S /\ texts \in Seq(S)
      OBVIOUS
    <3> HIDE DEF S
    <3> QED
      BY <1>2, <3>1, TailAppend
  <2>2. first \in S
    <3>1. Len(texts) \in Nat /\ Len(texts) # 0
      BY <1>2, EmptySeq, LenProperties
    <3>2. 1 \in 1 .. Len(texts)
      BY <3>1
    <3> QED
      BY <3>2, ElementOfSeq
  <2>3. Padded(rest) \in Seq(Seq(C)) /\ Padded(Append(rest, x)) = Append(Padded(rest), more)
    <3>1. rest \in Seq(Seq(C))
      BY <2>1
    <3> HIDE DEF rest
    <3> QED
      BY <3>1, PaddedFacts
  <2>4. more \in Seq(C)
    <3>1. "comma" \in C /\ "sp" \in C
      OBVIOUS
    <3>2. Two("comma", "sp") \o x \in Seq(C)
      BY <3>1, PairConcat
    <3> QED
      BY <3>2 DEF Two
  <2> DEFINE p == Padded(rest)
  <2> HIDE DEF first, rest, mark
  <2>5. flat \in Seq(C)
    BY <2>3, FlattenType
  <2>6. FlattenSeq(Padded(Append(rest, x))) = flat \o more
    <3>1. p \in Seq(Seq(C)) /\ more \in Seq(C)
      BY <2>3, <2>4
    <3> HIDE DEF p, more
    <3>2. FlattenSeq(Append(p, more)) = FlattenSeq(p) \o more
      BY <3>1, FlattenAppend
    <3> QED
      BY <2>3, <3>2 DEF p
  <2> HIDE DEF flat, more, p
  <2> DEFINE j == first \o flat
  <2>7. j \in Seq(C) /\ first \o (flat \o more) = j \o more
    <3>1. first \in Seq(C) /\ flat \in Seq(C) /\ more \in Seq(C)
      BY <2>2, <2>4, <2>5
    <3>2. first \o flat \in Seq(C)
      BY <3>1, ConcatProperties
    <3>3. Associates(first, flat, more)
      BY <3>1, Reassociate
    <3> QED
      BY <3>2, <3>3 DEF Associates
  <2>8. JoinedOf(texts) = j /\ JoinedOf(Append(texts, x)) = j \o more
    <3>1. JoinedOf(texts) = j
      BY DEF JoinedOf, first, rest, flat
    <3>2. JoinedOf(Append(texts, x)) = first \o (flat \o more)
      BY <2>1, <2>6 DEF JoinedOf
    <3> QED
      BY <2>7, <3>1, <3>2
  <2> HIDE DEF j
  <2>9. j \o more = Append(j, "comma") \o (<<"sp">> \o x)
    <3>1. "comma" \in C /\ "sp" \in C /\ j \in Seq(C)
      BY <2>7
    <3>2. PutBehind(j, "comma", "sp", x)
      BY <3>1, PairConcat
    <3>3. mark = Two("comma", "sp") /\ <<"sp">> = One("sp")
      BY DEF mark, Two, One
    <3> QED
      BY <3>2, <3>3 DEF more, PutBehind
  <2> QED
    BY <2>7, <2>8, <2>9
<1> QED
  BY <1>1, <1>2

\* A binary list of any length, as a proxy joins it, is read value by value.
LEMMA JoinedDecoded ==
  /\ \A b \in Seq(Bytes) : Decoded(Split(Encode(b), "comma")) = <<b>>
  /\ \A values \in Seq(Seq(Bytes)) :
       values # <<>> => Decoded(Split(JoinedOf(Encoded(values)), "comma")) = values
<1> DEFINE C == Codes \cup {"comma", "sp"}
           S == Seq(Bytes)
           Reads(s, values) == s \in Seq(C) /\ Decoded(Split(s, "comma")) = values
           P == {values \in Seq(S) : values # <<>> => Reads(JoinedOf(Encoded(values)), values)}
<1>1. Codes \subseteq C /\ "comma" \in C /\ "sp" \in C /\ {"comma", "sp"} \subseteq C
  OBVIOUS
<1>2. ASSUME NEW b \in S
      PROVE  Reads(Encode(b), <<b>>)
  <2> DEFINE e == Encode(b)
  <2>1. e \in Seq(Codes) /\ Decode(e) = b
    BY DecodeEncode
  <2> HIDE DEF e
  <2>2. Split(e, "comma") = Append(<<>>, e)
    BY <2>1, LettersFacts, SplitWhole
  <2>3. Decoded(Append(<<>>, e)) = Append(Decoded(<<>>), Decode(Trim(e, {"sp"})))
    <3>1. <<>> \in Seq(Seq(Codes))
      BY EmptySeq
    <3> QED
      BY <2>1, <3>1, DecodedAppend
  <2>4. Decoded(<<>>) = <<>>
    BY DEF Decoded
  <2>5. Trim(e, {"sp"}) = e
    <3>1. \A c \in Codes : c \notin {"sp"}
      BY LettersFacts
    <3> QED
      BY <2>1, <3>1, TrimSame
  <2>6. Append(<<>>, b) = <<b>>
    BY AppendToFew
  <2>7. e \in Seq(C)
    <3> HIDE DEF C
    <3> QED
      BY <1>1, <2>1, SeqWider
  <2>8. Decoded(Split(e, "comma")) = <<b>>
    BY <2>1, <2>2, <2>3, <2>4, <2>5, <2>6
  <2> QED
    BY <2>7, <2>8 DEF e
<1>3. <<>> \in P
  BY EmptySeq
<1>4. ASSUME NEW values \in Seq(S), NEW b \in S, values \in P
      PROVE  Append(values, b) \in P
  <2> DEFINE texts == Encoded(values)
             x == Encode(b)
             more == Append(values, b)
             t == <<"sp">> \o x
  <2>1. x \in Seq(Codes) /\ Decode(x) = b
    BY DecodeEncode
  <2>2. texts \in Seq(Seq(Codes)) /\ Len(texts) = Len(values) /\ Encoded(more) = Append(texts, x)
    <3>1. values \in Seq(Seq(Bytes)) /\ b \in Seq(Bytes)
      OBVIOUS
    <3> QED
      BY <3>1, EncodedFacts
  <2>3. texts \in Seq(Seq(C)) /\ x \in Seq(C)
    <3> HIDE DEF C, texts, x
    <3>1. Seq(Codes) \subseteq Seq(C)
      BY <1>1, SeqWider
    <3> DEFINE A == Seq(Codes)
               B == Seq(C)
    <3>2. A \subseteq B /\ texts \in Seq(A) /\ x \in A
      BY <2>1, <2>2, <3>1
    <3> HIDE DEF A, B
    <3>3. texts \in Seq(B) /\ x \in B
      BY <3>2, SeqWider
    <3> QED
      BY <3>3 DEF B
  <2>4. more \in Seq(S) /\ more # <<>>
    BY AppendProperties
  <2> HIDE DEF texts, x, more, t
  <2>5. /\ JoinedOf(Append(<<>>, x)) = x
        /\ texts # <<>> =>
             /\ JoinedOf(texts) \in Seq(C)
             /\ JoinedOf(Append(texts, x)) = Append(JoinedOf(texts), "comma") \o (<<"sp">> \o x)
    <3> HIDE DEF C
    <3> QED
      BY <1>1, <2>3, JoinedAppend
  <2>6. texts = <<>> <=> values = <<>>
    BY <2>2, EmptySeq
  <2>7. CASE values = <<>>
    <3>1. more = <<b>>
      BY <2>7, AppendToFew DEF more
    <3>2. JoinedOf(Encoded(more)) = x
      BY <2>2, <2>5, <2>6, <2>7
    <3>3. Reads(x, <<b>>)
      BY <1>2 DEF x
    <3>4. Reads(JoinedOf(Encoded(more)), more)
      BY <3>1, <3>2, <3>3
    <3> QED
      BY <2>4, <3>4 DEF more
  <2>8. CASE values # <<>>
    <3> DEFINE j == JoinedOf(texts)
               n == JoinedOf(Encoded(more))
    <3>1. Reads(j, values)
      BY <2>8, <1>4 DEF texts
    <3>2. j \in Seq(C) /\ n = Append(j, "comma") \o t
      BY <2>2, <2>5, <2>6, <2>8 DEF t
    <3> DEFINE D == {c \in C : c # "comma"}
    <3>3. t \in Seq(D) /\ t \in Seq(C)
      <4>1. Codes \subseteq D /\ "sp" \in D /\ D \subseteq C
        BY LettersFacts
      <4> HIDE DEF D, C
      <4>2. x \in Seq(D)
        BY <2>1, <4>1, SeqWider
      <4>3. One("sp") \o x \in Seq(D)
        BY <4>1, <4>2, PairConcat
      <4>4. t \in Seq(D)
        BY <4>3 DEF t, One
      <4> QED
        BY <4>1, <4>4, SeqWider
    <3> HIDE DEF j, n
    <3>4. Split(Append(j, "comma") \o t, "comma") = Append(Split(j, "comma"), t)
      <4>1. \A u \in Seq(D) : Split(Append(j, "comma") \o u, "comma") = Append(Split(j, "comma"), u)
        <5>1. j \in Seq(C) /\ "comma" \in C
          BY <1>1, <3>2
        <5> HIDE DEF C
        <5> QED
          BY <5>1, SplitJoin
      <4> HIDE DEF D
      <4> QED
        BY <3>3, <4>1
    <3>5. Decoded(Append(Split(j, "comma"), t)) = Append(Decoded(Split(j, "comma")), Decode(Trim(t, {"sp"})))
      <4> DEFINE pieces == Split(j, "comma")
      <4> HIDE DEF C
      <4>1. pieces \in Seq(Seq(C))
        BY <3>2, PiecesType
      <4> HIDE DEF pieces
      <4>2. Decoded(Append(pieces, t)) = Append(Decoded(pieces), Decode(Trim(t, {"sp"})))
        BY <3>3, <4>1, DecodedAppend
      <4> QED
        BY <4>2 DEF pieces
    <3>6. Trim(t, {"sp"}) = x
      BY <2>1, LettersFacts, TrimPadded DEF t
    <3>7. n \in Seq(C)
      <4>1. Append(j, "comma") \in Seq(C)
        BY <1>1, <3>2, AppendProperties
      <4> HIDE DEF C
      <4> QED
        BY <3>2, <3>3, <4>1, ConcatProperties
    <3>8. Decoded(Split(n, "comma")) = more
      BY <2>1, <3>1, <3>2, <3>4, <3>5, <3>6 DEF more
    <3>9. Reads(n, more)
      BY <3>7, <3>8
    <3> QED
      BY <2>4, <3>9 DEF more, n
  <2> QED
    BY <2>7, <2>8
<1>5. Seq(S) \subseteq P
  <2> HIDE DEF P, S
  <2> QED
    BY <1>3, <1>4, SeqInduction
<1> QED
  BY <1>2, <1>5

LEMMA WithoutNoneSame ==
  ASSUME NEW values \in Seq(Seq(Bytes))
  PROVE  WithoutNone(values) = values
<1> DEFINE S == Seq(Bytes)
           I == {i \in DOMAIN values : values[i] # None}
<1>1. ASSUME NEW b \in S
      PROVE  b # None
  <2> SUFFICES ASSUME b = None
               PROVE  FALSE
    OBVIOUS
  <2>1. Len(b) = 1 /\ b[1] = "none"
    BY DEF None
  <2>2. 1 \in 1 .. Len(b)
    BY <2>1
  <2>3. b[1] \in Bytes
    BY <2>2, ElementOfSeq
  <2> QED
    BY <2>1, <2>3, LettersFacts
<1>2. \A i \in DOMAIN values : values[i] \in S
  BY ElementOfSeq, LenProperties
<1>3. values \in Seq(S)
  OBVIOUS
<1>4. DOMAIN values \subseteq I
  <2> HIDE DEF S
  <2> QED
    BY <1>1, <1>2
<1> HIDE DEF I, S
<1>5. Kept(values, I) = values
  BY <1>3, <1>4, KeptAll
<1> QED
  BY <1>5 DEF WithoutNone, I

\* Every line of a field gives one value.
EachRead(name, lines, values) ==
  DOMAIN lines = DOMAIN values /\ \A i \in DOMAIN values : ContextValues(name, lines[i]) = <<values[i]>>

LEMMA OneEach ==
  ASSUME NEW V, NEW values \in Seq(V), NEW name, NEW lines, EachRead(name, lines, values)
  PROVE  FieldValues(name, lines) = values
<1> DEFINE I == DOMAIN values
           f == [i \in DOMAIN lines |-> ContextValues(name, lines[i])]
<1>1. f = [i \in I |-> <<values[i]>>]
  BY DEF EachRead
<1>2. Chosen(values, I) = [i \in I |-> <<values[i]>>]
  BY DEF Chosen
<1>3. Kept(values, I) = values
  BY KeptAll
<1>4. Kept(values, I) = FlattenSeq(Chosen(values, I))
  BY KeptIsFlat
<1>5. f = Chosen(values, I)
  BY <1>1, <1>2
<1> HIDE DEF I, f
<1>6. FlattenSeq(f) = values
  BY <1>3, <1>4, <1>5
<1> QED
  BY <1>6 DEF FieldValues, f

LEMMA FlattenOfOne ==
  ASSUME NEW S, NEW x \in Seq(S)
  PROVE  FlattenSeq(<<x>>) = x
<1> DEFINE T == Seq(S)
           none == <<>>
<1>1. none \in Seq(T) /\ none \in Seq(S)
  BY EmptySeq
<1>2. Append(none, x) = <<x>>
  <2>1. x \in T
    OBVIOUS
  <2> HIDE DEF T
  <2> QED
    BY <2>1, AppendToFew
<1>3. FlattenSeq(none) = <<>>
  BY FlattenOfNone
<1>4. <<>> \o x = x
  BY ConcatEmptySeq
<1> HIDE DEF none
<1>5. FlattenSeq(Append(none, x)) = FlattenSeq(none) \o x
  BY <1>1, FlattenAppend
<1> QED
  BY <1>2, <1>3, <1>4, <1>5

LEMMA TextRead ==
  ASSUME NEW name, ~ IsBinary(name), NEW V, NEW values \in Seq(V), \A v \in ToSet(values) : Printable(v)
  PROVE  FieldValues(name, values) = values
<1>1. ASSUME NEW i \in DOMAIN values
      PROVE  ContextValues(name, values[i]) = <<values[i]>>
  <2>1. Printable(values[i])
    BY DEF ToSet
  <2> QED
    BY <2>1 DEF ContextValues
<1>2. EachRead(name, values, values)
  BY <1>1 DEF EachRead
<1> QED
  BY <1>2, OneEach

LEMMA BinaryRead ==
  ASSUME NEW name, IsBinary(name), NEW values \in Seq(Seq(Bytes))
  PROVE  /\ FieldValues(name, Encoded(values)) = values
         /\ values # <<>> => FieldValues(name, <<JoinedOf(Encoded(values))>>) = values
<1> DEFINE S == Seq(Bytes)
<1>1. \A text : ContextValues(name, text) = WithoutNone(Decoded(Split(text, "comma")))
  BY DEF ContextValues, Decoded
<1>2. \A b \in S : <<b>> \in Seq(S)
  <2> HIDE DEF S
  <2> QED
    BY OneIsSeq
<1>3. \A b \in S : ContextValues(name, Encode(b)) = <<b>>
  <2> SUFFICES ASSUME NEW b \in S
               PROVE  ContextValues(name, Encode(b)) = <<b>>
    OBVIOUS
  <2> DEFINE o == <<b>>
  <2>1. Decoded(Split(Encode(b), "comma")) = o
    BY JoinedDecoded
  <2>2. o \in Seq(Seq(Bytes))
    BY <1>2
  <2> HIDE DEF o
  <2>3. WithoutNone(o) = o
    BY <2>2, WithoutNoneSame
  <2> QED
    BY <1>1, <2>1, <2>3 DEF o
<1>4. FieldValues(name, Encoded(values)) = values
  <2>1. DOMAIN Encoded(values) = DOMAIN values /\ \A i \in DOMAIN values : Encoded(values)[i] = Encode(values[i])
    BY DEF Encoded
  <2>2. \A i \in DOMAIN values : values[i] \in S
    BY ElementOfSeq, LenProperties
  <2>3. EachRead(name, Encoded(values), values)
    <3> HIDE DEF S
    <3>1. ASSUME NEW i \in DOMAIN values
          PROVE  ContextValues(name, Encoded(values)[i]) = <<values[i]>>
      BY <1>3, <2>1, <2>2
    <3> QED
      BY <2>1, <3>1 DEF EachRead
  <2> QED
    BY <2>3, OneEach
<1>5. ASSUME values # <<>>
      PROVE  FieldValues(name, <<JoinedOf(Encoded(values))>>) = values
  <2> DEFINE j == JoinedOf(Encoded(values))
             o == <<j>>
  <2>1. Decoded(Split(j, "comma")) = values
    BY <1>5, JoinedDecoded
  <2>2. WithoutNone(values) = values
    BY WithoutNoneSame
  <2> HIDE DEF j
  <2>3. ContextValues(name, j) = values
    BY <1>1, <2>1, <2>2
  <2>4. FlattenSeq(<<values>>) = values
    BY FlattenOfOne
  <2>5. [i \in DOMAIN o |-> ContextValues(name, o[i])] = <<values>>
    BY <2>3
  <2>6. FieldValues(name, o) = FlattenSeq(<<values>>)
    BY <2>5 DEF FieldValues
  <2> QED
    BY <2>4, <2>6 DEF j
<1> QED
  BY <1>4, <1>5

\* What a call has collected: fields of legal names with at least one value
\* each, the values of a text printable.
NameChars == STRING \cup {"x"}
FieldNames == {n \in Seq(NameChars) : n # <<>> /\ "X" \notin ToSet(n) /\ ~ Reserved(n)}
Collectable(f) == f.values # <<>> /\ (IsBinary(f.name) \/ \A v \in ToSet(f.values) : Printable(v))
Fields == {f \in [name : FieldNames, values : Seq(Seq(Bytes))] : Collectable(f)}

\* The values that the other side must see of a field, the texts written for
\* them, and the lines these make.
Sent(f) == IF IsBinary(f.name) THEN f.values ELSE [v \in DOMAIN f.values |-> Trim(f.values[v], {"sp"})]
OnWire(f) ==
  [v \in DOMAIN f.values |-> IF IsBinary(f.name) THEN Encode(f.values[v]) ELSE Trim(f.values[v], {"sp"})]
WireLines(f) == [v \in DOMAIN f.values |-> [name |-> f.name, value |-> OnWire(f)[v]]]

LEMMA FieldFacts ==
  ASSUME NEW f \in Fields
  PROVE  /\ Sent(f) # <<>> /\ OnWire(f) # <<>>
         /\ DOMAIN OnWire(f) = DOMAIN f.values /\ DOMAIN f.values = 1 .. Len(f.values) /\ Len(f.values) \in Nat
         /\ IsBinary(f.name) \/ \A v \in ToSet(Sent(f)) : Printable(v)
         /\ FieldValues(f.name, OnWire(f)) = Sent(f)
         /\ IsBinary(f.name) => FieldValues(f.name, <<JoinedOf(OnWire(f))>>) = Sent(f)
<1> DEFINE values == f.values
           B == Seq(Bytes)
           n == Len(values)
<1>1. values \in Seq(B) /\ values # <<>> /\ (IsBinary(f.name) \/ \A v \in ToSet(values) : Printable(v))
  BY DEF Fields, Collectable
<1>2. n \in Nat /\ n # 0 /\ DOMAIN values = 1 .. n /\ \A i \in 1 .. n : values[i] \in B
  <2> HIDE DEF values, B
  <2> QED
    BY <1>1, EmptySeq, LenProperties, ElementOfSeq
<1>3. DOMAIN OnWire(f) = DOMAIN values /\ OnWire(f) # <<>>
  <2>1. DOMAIN OnWire(f) = 1 .. n /\ 1 \in 1 .. n
    BY <1>2 DEF OnWire
  <2>2. DOMAIN <<>> = {}
    OBVIOUS
  <2> QED
    BY <1>2, <2>1, <2>2
<1>4. CASE IsBinary(f.name)
  <2>1. Sent(f) = values /\ OnWire(f) = Encoded(values)
    BY <1>4 DEF Sent, OnWire, Encoded
  <2>2. /\ FieldValues(f.name, Encoded(values)) = values
        /\ FieldValues(f.name, <<JoinedOf(Encoded(values))>>) = values
    <3>1. values \in Seq(Seq(Bytes)) /\ values # <<>>
      BY <1>1
    <3> HIDE DEF values
    <3> QED
      BY <1>4, <3>1, BinaryRead
  <2> QED
    BY <1>1, <1>2, <1>3, <1>4, <2>1, <2>2
<1>5. CASE ~ IsBinary(f.name)
  <2> DEFINE sent == Sent(f)
  <2>1. sent = [v \in DOMAIN values |-> Trim(values[v], {"sp"})] /\ OnWire(f) = sent
    BY <1>5 DEF Sent, OnWire
  <2> HIDE DEF sent
  <2>2. DOMAIN sent = 1 .. n /\ sent = [v \in 1 .. n |-> sent[v]] /\ \A v \in 1 .. n : sent[v] = Trim(values[v], {"sp"})
    BY <1>2, <2>1
  <2>3. ASSUME NEW v \in 1 .. n
        PROVE  sent[v] \in B /\ Printable(sent[v])
    <3> DEFINE b == values[v]
    <3>1. b \in Seq(Bytes) /\ Printable(b)
      BY <1>1, <1>2, <1>5 DEF ToSet
    <3> HIDE DEF b
    <3>2. Trim(b, {"sp"}) \in Seq(Bytes) /\ ToSet(Trim(b, {"sp"})) \subseteq ToSet(b)
      BY <3>1, TrimType
    <3>3. sent[v] = Trim(b, {"sp"})
      BY <2>2 DEF b
    <3> QED
      BY <3>1, <3>2, <3>3 DEF Printable
  <2> HIDE DEF values, n, B
  <2>4. sent \in Seq(B)
    BY <1>2, <2>2, <2>3, MapType
  <2>5. \A v \in ToSet(sent) : Printable(v)
    BY <2>2, <2>3 DEF ToSet
  <2>6. FieldValues(f.name, sent) = sent
    BY <1>5, <2>4, <2>5, TextRead
  <2>7. sent # <<>>
    BY <1>3, <2>1
  <2> QED
    BY <1>2, <1>3, <1>5, <2>1, <2>5, <2>6, <2>7 DEF sent, values, n
<1> QED
  BY <1>4, <1>5

\* Lines that come field by field are shown as these fields.
FieldsOf(groups) == [i \in DOMAIN groups |-> FieldOf(groups[i].name, ValuesIn(groups[i].lines))]
AllShown(groups) ==
  \A i \in DOMAIN groups :
    ~ Reserved(groups[i].name) /\ FieldValues(groups[i].name, ValuesIn(groups[i].lines)) # <<>>

LEMMA MetadataOfGroups ==
  ASSUME NEW L, NEW R, GroupsOf(R, L), NEW groups \in Seq(R), DistinctNames(groups), AllShown(groups)
  PROVE  /\ LinesOf(groups) \in Seq(L)
         /\ ContextMetadata(LinesOf(groups)) = FieldsOf(groups)
<1> DEFINE lines == LinesOf(groups)
           keys == Keys(lines)
           n == Len(groups)
           fields == FieldsIn(lines)
           I == {i \in DOMAIN keys : ~ Reserved(keys[i]) /\ fields[i].values # <<>>}
<1>1. n \in Nat /\ DOMAIN groups = 1 .. n /\ \A i \in 1 .. n : groups[i] \in R
  BY LenProperties, ElementOfSeq
<1>2. lines \in Seq(L)
  <2> DEFINE g == GroupLines(groups)
  <2>1. DOMAIN g = 1 .. n /\ g = [i \in 1 .. n |-> g[i]] /\ \A i \in 1 .. n : g[i] = groups[i].lines
    BY <1>1 DEF GroupLines
  <2> HIDE DEF g, n
  <2>2. \A i \in 1 .. n : g[i] \in Seq(L)
    BY <1>1, <2>1 DEF GroupsOf
  <2> DEFINE T == Seq(L)
  <2>3. g \in Seq(T)
    <3>1. \A i \in 1 .. n : g[i] \in T
      BY <2>2
    <3> HIDE DEF T
    <3> QED
      BY <1>1, <2>1, <3>1, MapType
  <2>4. FlattenSeq(g) \in Seq(L)
    BY <2>3, FlattenType
  <2> QED
    BY <2>4 DEF LinesOf, g
<1>3. /\ keys = NamesIn(groups)
      /\ \A i \in DOMAIN groups : ValuesOf(lines, groups[i].name) = ValuesIn(groups[i].lines)
  BY GroupsFacts
<1>4. DOMAIN keys = DOMAIN groups /\ \A i \in DOMAIN groups : keys[i] = groups[i].name
  BY <1>3 DEF NamesIn
<1>5. fields = FieldsOf(groups)
  <2>1. fields = [i \in DOMAIN keys |-> FieldOf(keys[i], ValuesOf(lines, keys[i]))]
    BY DEF FieldsIn
  <2> HIDE DEF fields, keys, lines
  <2> QED
    BY <1>3, <1>4, <2>1 DEF FieldsOf
<1>6. ContextMetadata(lines) = Kept(fields, I)
  BY MetadataUnfold
<1>7. DOMAIN fields = DOMAIN groups
  BY <1>5 DEF FieldsOf
<1>8. DOMAIN fields \subseteq I
  <2>1. \A i \in DOMAIN groups : fields[i].values = FieldValues(groups[i].name, ValuesIn(groups[i].lines))
    BY <1>5 DEF FieldsOf, FieldOf
  <2> HIDE DEF fields, keys
  <2> QED
    BY <1>4, <1>7, <2>1 DEF AllShown
<1> DEFINE T == ToSet(fields)
<1>9. fields \in Seq(T)
  BY <1>2, FieldsType
<1> HIDE DEF I, T, fields
<1>10. Kept(fields, I) = fields
  BY <1>8, <1>9, KeptAll
<1> QED
  BY <1>2, <1>5, <1>6, <1>10

\* The lines of a field and of fields, as groups of one name each, and what the
\* other side must see of the fields.
WireGroup(f) == [name |-> f.name, lines |-> WireLines(f)]
WireGroups(fields) == [i \in DOMAIN fields |-> WireGroup(fields[i])]
AllWireLines == UNION {ToSet(WireLines(f)) : f \in Fields}
SentFields(fields) == [i \in DOMAIN fields |-> [name |-> fields[i].name, values |-> Sent(fields[i])]]

LEMMA WireLinesFacts ==
  ASSUME NEW f \in Fields
  PROVE  /\ WireLines(f) \in Seq(AllWireLines) /\ WireLines(f) # <<>>
         /\ \A l \in ToSet(WireLines(f)) : l.name = f.name
         /\ ValuesIn(WireLines(f)) = OnWire(f)
<1> DEFINE lines == WireLines(f)
           n == Len(f.values)
<1>1. n \in Nat /\ DOMAIN f.values = 1 .. n /\ DOMAIN OnWire(f) = 1 .. n /\ OnWire(f) # <<>>
  BY FieldFacts
<1>2. /\ DOMAIN lines = 1 .. n /\ lines = [i \in 1 .. n |-> lines[i]]
      /\ \A i \in 1 .. n : lines[i] = [name |-> f.name, value |-> OnWire(f)[i]]
  BY <1>1 DEF WireLines
<1>3. \A i \in 1 .. n : lines[i] \in AllWireLines
  BY <1>2 DEF AllWireLines, ToSet
<1>4. OnWire(f) = [i \in 1 .. n |-> OnWire(f)[i]]
  BY <1>1 DEF OnWire
<1> HIDE DEF lines, n
<1>5. lines \in Seq(AllWireLines) /\ Len(lines) = n
  BY <1>1, <1>2, <1>3, MapType
<1>6. \A l \in ToSet(lines) : l.name = f.name
  BY <1>2 DEF ToSet
<1>7. ValuesIn(lines) = OnWire(f)
  BY <1>2, <1>4 DEF ValuesIn
<1>8. lines # <<>>
  <2>1. ValuesIn(<<>>) = <<>>
    BY DEF ValuesIn
  <2> QED
    BY <1>1, <1>7, <2>1
<1> QED
  BY <1>5, <1>6, <1>7, <1>8 DEF lines

\* The lines of the collected fields are shown as what was sent.
LEMMA WireRead ==
  ASSUME NEW fields \in Seq(Fields), DistinctNames(fields)
  PROVE  /\ Wire(fields) \in Seq(AllWireLines)
         /\ ContextMetadata(Wire(fields)) = SentFields(fields)
         /\ Keys(Wire(fields)) = NamesIn(fields)
         /\ \A i \in DOMAIN fields : ValuesOf(Wire(fields), fields[i].name) = OnWire(fields[i])
<1> DEFINE L == AllWireLines
           R == {WireGroup(f) : f \in Fields}
           groups == WireGroups(fields)
           n == Len(fields)
<1>1. n \in Nat /\ DOMAIN fields = 1 .. n /\ \A i \in 1 .. n : fields[i] \in Fields
  BY LenProperties, ElementOfSeq
<1>2. /\ DOMAIN groups = 1 .. n /\ groups = [i \in 1 .. n |-> groups[i]]
      /\ \A i \in 1 .. n : groups[i] = WireGroup(fields[i])
  BY <1>1 DEF WireGroups
<1>3. /\ \A i \in 1 .. n : groups[i] \in R
      /\ \A i \in 1 .. n : groups[i].name = fields[i].name /\ groups[i].lines = WireLines(fields[i])
  BY <1>1, <1>2 DEF WireGroup
<1>4. GroupsOf(R, L)
  <2> SUFFICES ASSUME NEW f \in Fields
               PROVE  /\ WireGroup(f).lines \in Seq(L) /\ WireGroup(f).lines # <<>>
                      /\ \A l \in ToSet(WireGroup(f).lines) : l.name = WireGroup(f).name
    BY DEF GroupsOf
  <2> QED
    BY WireLinesFacts DEF WireGroup
<1> HIDE DEF groups, n, R
<1>5. groups \in Seq(R)
  BY <1>1, <1>2, <1>3, MapType
<1>6. DistinctNames(groups)
  BY <1>1, <1>2, <1>3 DEF DistinctNames
<1>7. \A i \in 1 .. n : ValuesIn(groups[i].lines) = OnWire(fields[i])
  BY <1>1, <1>3, WireLinesFacts
<1>8. \A i \in 1 .. n : FieldValues(groups[i].name, ValuesIn(groups[i].lines)) = Sent(fields[i])
  BY <1>1, <1>3, <1>7, FieldFacts
<1>9. AllShown(groups)
  <2>1. \A i \in 1 .. n : ~ Reserved(fields[i].name) /\ Sent(fields[i]) # <<>>
    BY <1>1, FieldFacts DEF Fields, FieldNames
  <2> QED
    BY <1>2, <1>3, <1>8, <2>1 DEF AllShown
<1>10. Wire(fields) = LinesOf(groups)
  <2>1. GroupLines(groups) = [f \in DOMAIN fields |-> [v \in DOMAIN fields[f].values |->
          [name |-> fields[f].name,
           value |-> IF IsBinary(fields[f].name) THEN Encode(fields[f].values[v])
                     ELSE Trim(fields[f].values[v], {"sp"})]]]
    <3>1. GroupLines(groups) = [i \in 1 .. n |-> WireLines(fields[i])]
      BY <1>2, <1>3 DEF GroupLines
    <3>2. \A f \in DOMAIN fields :
            WireLines(fields[f]) = [v \in DOMAIN fields[f].values |->
              [name |-> fields[f].name,
               value |-> IF IsBinary(fields[f].name) THEN Encode(fields[f].values[v])
                         ELSE Trim(fields[f].values[v], {"sp"})]]
      BY DEF WireLines, OnWire
    <3> QED
      BY <1>1, <3>1, <3>2
  <2> QED
    BY <2>1 DEF Wire, LinesOf
<1>11. /\ LinesOf(groups) \in Seq(L)
       /\ ContextMetadata(LinesOf(groups)) = FieldsOf(groups)
  BY <1>4, <1>5, <1>6, <1>9, MetadataOfGroups
<1>12. FieldsOf(groups) = SentFields(fields)
  <2>1. \A i \in 1 .. n : FieldOf(groups[i].name, ValuesIn(groups[i].lines)) = [name |-> fields[i].name, values |-> Sent(fields[i])]
    BY <1>3, <1>8 DEF FieldOf
  <2> QED
    BY <1>1, <1>2, <2>1 DEF FieldsOf, SentFields
<1>13. /\ Keys(LinesOf(groups)) = NamesIn(groups)
       /\ \A i \in DOMAIN groups : ValuesOf(LinesOf(groups), groups[i].name) = ValuesIn(groups[i].lines)
  BY <1>4, <1>5, <1>6, GroupsFacts
<1>14. NamesIn(groups) = NamesIn(fields)
  BY <1>1, <1>2, <1>3 DEF NamesIn
<1>15. \A i \in 1 .. n : ValuesOf(LinesOf(groups), fields[i].name) = OnWire(fields[i])
  BY <1>2, <1>3, <1>7, <1>13
<1> QED
  BY <1>1, <1>10, <1>11, <1>12, <1>13, <1>14, <1>15

\* The lines of one name behind a proxy: one line for a binary field.
ProxyLines(lines, n) ==
  IF IsBinary(n) THEN << [name |-> n, value |-> JoinedOf(ValuesOf(lines, n))] >>
  ELSE Kept(lines, {i \in DOMAIN lines : lines[i].name = n})
ProxyGroup(lines, n) == [name |-> n, lines |-> ProxyLines(lines, n)]
ProxyGroups(lines, fields) == [i \in DOMAIN fields |-> ProxyGroup(lines, fields[i].name)]

LEMMA JoinedLinesUnfold ==
  \A lines : JoinedLines(lines) = FlattenSeq([i \in DOMAIN Keys(lines) |-> ProxyLines(lines, Keys(lines)[i])])
BY DEF JoinedLines, ProxyLines, JoinedOf, Padded

LEMMA ProxyRead ==
  ASSUME NEW L, NEW lines \in Seq(L), NEW f \in Fields, ValuesOf(lines, f.name) = OnWire(f)
  PROVE  LET all == L \cup {[name |-> f.name, value |-> JoinedOf(OnWire(f))]}
             proxied == ProxyLines(lines, f.name)
         IN /\ proxied \in Seq(all) /\ proxied # <<>>
            /\ \A l \in ToSet(proxied) : l.name = f.name
            /\ FieldValues(f.name, ValuesIn(proxied)) = Sent(f)
<1> DEFINE n == f.name
           line == [name |-> n, value |-> JoinedOf(OnWire(f))]
           all == L \cup {line}
           proxied == ProxyLines(lines, n)
<1>1. CASE IsBinary(n)
  <2> DEFINE j == JoinedOf(OnWire(f))
             o == <<line>>
  <2>1. proxied = o
    BY <1>1 DEF ProxyLines
  <2>2. o \in Seq(all) /\ Len(o) = 1 /\ o[1] = line
    <3>1. line \in all
      OBVIOUS
    <3> HIDE DEF line, all
    <3> QED
      BY <3>1, OneIsSeq
  <2>3. FieldValues(n, <<j>>) = Sent(f)
    BY <1>1, FieldFacts
  <2>4. line.name = n /\ line.value = j
    OBVIOUS
  <2> HIDE DEF j, line, all
  <2>5. ValuesIn(o) = <<j>>
    BY <2>4 DEF ValuesIn
  <2>6. \A l \in ToSet(o) : l.name = n
    BY <2>4 DEF ToSet
  <2>7. o # <<>>
    OBVIOUS
  <2> HIDE DEF o, n, proxied
  <2> QED
    BY <2>1, <2>2, <2>3, <2>5, <2>6, <2>7 DEF n, proxied, all, line
<1>2. CASE ~ IsBinary(n)
  <2> DEFINE I == {i \in DOMAIN lines : lines[i].name = n}
             Q == {l \in L : l.name = n}
             k == Kept(lines, I)
  <2>1. proxied = k
    BY <1>2 DEF ProxyLines
  <2>2. I = {i \in DOMAIN lines : lines[i] \in Q}
    <3>1. \A i \in DOMAIN lines : lines[i] \in L
      BY ElementOfSeq, LenProperties
    <3> QED
      BY <3>1
  <2>3. k = LinesIn(lines, Q)
    BY <2>2 DEF LinesIn
  <2>4. \A l \in L : l.name = n => l \in Q
    OBVIOUS
  <2>5. k \in Seq(L) /\ ToSet(k) = {lines[i] : i \in I \cap DOMAIN lines}
    BY KeptType, ToSetOfKept
  <2>6. \A l \in ToSet(k) : l.name = n
    BY <2>5
  <2> HIDE DEF Q, k, n, I
  <2>7. ValuesOf(LinesIn(lines, Q), n) = ValuesOf(lines, n)
    BY <2>4, ValuesOfLinesIn
  <2>8. ValuesOf(k, n) = ValuesIn(k)
    BY <2>5, <2>6, AllOfOneName
  <2>9. ValuesIn(k) = OnWire(f)
    BY <2>3, <2>7, <2>8 DEF n
  <2>10. FieldValues(n, OnWire(f)) = Sent(f) /\ OnWire(f) # <<>>
    BY FieldFacts DEF n
  <2>11. k # <<>>
    <3>1. ValuesIn(<<>>) = <<>>
      BY DEF ValuesIn
    <3> QED
      BY <2>9, <2>10, <3>1
  <2>12. k \in Seq(all)
    <3>1. L \subseteq all
      OBVIOUS
    <3> HIDE DEF all
    <3> QED
      BY <2>5, <3>1, SeqWider
  <2> HIDE DEF proxied, line
  <2> QED
    BY <2>1, <2>6, <2>9, <2>10, <2>11, <2>12 DEF n, proxied, line
<1> QED
  BY <1>1, <1>2

\* They are still shown so when a proxy has joined the lines of a binary field.
LEMMA JoinedRead ==
  ASSUME NEW fields \in Seq(Fields), DistinctNames(fields)
  PROVE  ContextMetadata(JoinedLines(Wire(fields))) = SentFields(fields)
<1> DEFINE W == Wire(fields)
           Joint(f) == [name |-> f.name, value |-> JoinedOf(OnWire(f))]
           L == AllWireLines \cup {Joint(f) : f \in Fields}
           groups == ProxyGroups(W, fields)
           n == Len(fields)
           R == {groups[i] : i \in 1 .. n}
<1>1. n \in Nat /\ DOMAIN fields = 1 .. n /\ \A i \in 1 .. n : fields[i] \in Fields
  BY LenProperties, ElementOfSeq
<1>2. /\ W \in Seq(AllWireLines) /\ Keys(W) = NamesIn(fields)
      /\ \A i \in DOMAIN fields : ValuesOf(W, fields[i].name) = OnWire(fields[i])
  BY WireRead
<1>3. /\ DOMAIN groups = 1 .. n /\ groups = [i \in 1 .. n |-> groups[i]]
      /\ \A i \in 1 .. n : groups[i].name = fields[i].name /\ groups[i].lines = ProxyLines(W, fields[i].name)
      /\ \A i \in 1 .. n : groups[i] \in R
  BY <1>1 DEF ProxyGroups, ProxyGroup
<1>4. ASSUME NEW i \in 1 .. n
      PROVE  /\ groups[i].lines \in Seq(L) /\ groups[i].lines # <<>>
             /\ \A l \in ToSet(groups[i].lines) : l.name = groups[i].name
             /\ FieldValues(groups[i].name, ValuesIn(groups[i].lines)) = Sent(fields[i])
  <2> DEFINE f == fields[i]
             all == AllWireLines \cup {[name |-> f.name, value |-> JoinedOf(OnWire(f))]}
             proxied == ProxyLines(W, f.name)
  <2>1. f \in Fields /\ ValuesOf(W, f.name) = OnWire(f)
    BY <1>1, <1>2
  <2>2. all \subseteq L
    BY <2>1
  <2> HIDE DEF f, W
  <2>3. /\ proxied \in Seq(all) /\ proxied # <<>>
        /\ \A l \in ToSet(proxied) : l.name = f.name
        /\ FieldValues(f.name, ValuesIn(proxied)) = Sent(f)
    BY <1>2, <2>1, ProxyRead
  <2> HIDE DEF all, L, groups
  <2>4. proxied \in Seq(L)
    BY <2>2, <2>3, SeqWider
  <2>5. groups[i].name = f.name /\ groups[i].lines = proxied
    BY <1>3 DEF f
  <2> QED
    BY <2>3, <2>4, <2>5 DEF f
<1> HIDE DEF groups, W, L
<1>5. GroupsOf(R, L)
  BY <1>4 DEF GroupsOf
<1> HIDE DEF R, n
<1>6. groups \in Seq(R)
  BY <1>1, <1>3, MapType
<1>7. DistinctNames(groups)
  BY <1>1, <1>3 DEF DistinctNames
<1>8. AllShown(groups)
  <2>1. \A i \in 1 .. n : ~ Reserved(fields[i].name) /\ Sent(fields[i]) # <<>>
    BY <1>1, FieldFacts DEF Fields, FieldNames
  <2> QED
    BY <1>3, <1>4, <2>1 DEF AllShown
<1>9. ContextMetadata(LinesOf(groups)) = FieldsOf(groups)
  BY <1>5, <1>6, <1>7, <1>8, MetadataOfGroups
<1>10. FieldsOf(groups) = SentFields(fields)
  <2>1. \A i \in 1 .. n : FieldOf(groups[i].name, ValuesIn(groups[i].lines)) = [name |-> fields[i].name, values |-> Sent(fields[i])]
    BY <1>3, <1>4 DEF FieldOf
  <2> QED
    BY <1>1, <1>3, <2>1 DEF FieldsOf, SentFields
<1>11. JoinedLines(W) = LinesOf(groups)
  <2> DEFINE keys == Keys(W)
  <2>1. DOMAIN keys = 1 .. n /\ \A i \in 1 .. n : keys[i] = fields[i].name
    BY <1>1, <1>2 DEF NamesIn
  <2> HIDE DEF keys
  <2>2. GroupLines(groups) = [i \in DOMAIN keys |-> ProxyLines(W, keys[i])]
    BY <1>3, <2>1 DEF GroupLines
  <2>3. JoinedLines(W) = FlattenSeq([i \in DOMAIN keys |-> ProxyLines(W, keys[i])])
    BY JoinedLinesUnfold DEF keys
  <2> QED
    BY <2>2, <2>3 DEF LinesOf
<1> QED
  BY <1>9, <1>10, <1>11 DEF W

LEMMA SentIsValid ==
  ASSUME NEW fields \in Seq(Fields)
  PROVE  MetadataValid(SentFields(fields))
<1> DEFINE sent == SentFields(fields)
<1>1. ASSUME NEW s \in ToSet(sent)
      PROVE  /\ s.name # <<>> /\ "X" \notin ToSet(s.name)
             /\ IsBinary(s.name) \/ \A v \in ToSet(s.values) : Printable(v)
  <2>1. PICK i \in DOMAIN fields : s = [name |-> fields[i].name, values |-> Sent(fields[i])]
    BY DEF SentFields, ToSet
  <2> DEFINE f == fields[i]
  <2>2. f \in Fields
    BY ElementOfSeq, LenProperties
  <2>3. s.name = f.name /\ s.values = Sent(f)
    BY <2>1
  <2> HIDE DEF f
  <2>4. f.name # <<>> /\ "X" \notin ToSet(f.name)
    BY <2>2 DEF Fields, FieldNames
  <2>5. IsBinary(f.name) \/ \A v \in ToSet(Sent(f)) : Printable(v)
    BY <2>2, FieldFacts
  <2> QED
    BY <2>3, <2>4, <2>5
<1> QED
  BY <1>1 DEF MetadataValid

\* One more addition leaves fields that can be sent, no two of one name.
Sendable(fields) == fields \in Seq(Fields) /\ DistinctNames(fields)

LEMMA LoweredFacts ==
  ASSUME NEW name \in Seq(STRING)
  PROVE  Lowered(name) \in Seq(NameChars) /\ "X" \notin ToSet(Lowered(name))
<1> DEFINE l == Lowered(name)
           n == Len(name)
<1>1. n \in Nat /\ DOMAIN name = 1 .. n /\ \A i \in 1 .. n : name[i] \in STRING
  BY LenProperties, ElementOfSeq
<1>2. DOMAIN l = 1 .. n /\ l = [i \in 1 .. n |-> l[i]] /\ \A i \in 1 .. n : l[i] = IF name[i] = "X" THEN "x" ELSE name[i]
  BY <1>1 DEF Lowered
<1> HIDE DEF l, n
<1>3. \A i \in 1 .. n : l[i] \in NameChars /\ l[i] # "X"
  <2> SUFFICES ASSUME NEW i \in 1 .. n
               PROVE  l[i] \in NameChars /\ l[i] # "X"
    OBVIOUS
  <2>1. CASE name[i] = "X"
    <3>1. l[i] = "x"
      BY <1>2, <2>1
    <3>2. l[i] \in NameChars
      BY <3>1 DEF NameChars
    <3>3. "x" # "X"
      OBVIOUS
    <3> QED
      BY <3>1, <3>2, <3>3
  <2>2. CASE name[i] # "X"
    BY <1>1, <1>2, <2>2 DEF NameChars
  <2> QED
    BY <2>1, <2>2
<1>4. l \in Seq(NameChars)
  BY <1>1, <1>2, <1>3, MapType
<1>5. "X" \notin ToSet(l)
  BY <1>2, <1>3 DEF ToSet
<1> QED
  BY <1>4, <1>5 DEF l

LEMMA AddIsSendable ==
  ASSUME NEW fields, Sendable(fields), NEW add, add.name \in Seq(STRING), add.value \in Seq(Bytes)
  PROVE  Sendable(AddCore(fields, add))
<1> DEFINE name == Lowered(add.name)
           value == add.value
           found == {i \in DOMAIN fields : fields[i].name = name}
           n == Len(fields)
           B == Seq(Bytes)
           refused == \/ ~ GrpcName(name) \/ Reserved(name) \/ add.binary # IsBinary(name)
                      \/ ~ (add.binary \/ Printable(add.value))
           next == AddCore(fields, add)
<1>1. /\ fields \in Seq(Fields) /\ n \in Nat /\ DOMAIN fields = 1 .. n
      /\ \A i \in 1 .. n : fields[i] \in Fields
  BY LenProperties, ElementOfSeq DEF Sendable
<1>2. name \in Seq(NameChars) /\ "X" \notin ToSet(name)
  BY LoweredFacts
<1>3. next = IF refused THEN fields
             ELSE IF found = {} THEN Append(fields, [name |-> name, values |-> <<add.value>>])
             ELSE [fields EXCEPT ![Min(found)].values = Append(@, add.value)]
  BY DEF AddCore
<1>4. ASSUME ~ refused
      PROVE  name \in FieldNames /\ (IsBinary(name) \/ Printable(value))
  BY <1>2, <1>4 DEF FieldNames, GrpcName
<1> HIDE DEF name, refused, next
<1>5. CASE refused
  BY <1>3, <1>5 DEF next
<1>6. CASE ~ refused /\ found = {}
  <2> DEFINE values == <<value>>
             f == [name |-> name, values |-> values]
  <2>1. values \in Seq(B) /\ Len(values) = 1 /\ values[1] = value
    <3>1. value \in B
      OBVIOUS
    <3> HIDE DEF value, B
    <3> QED
      BY <3>1, OneIsSeq
  <2>2. values # <<>> /\ \A v \in ToSet(values) : v = value
    BY DEF ToSet
  <2> HIDE DEF values
  <2>3. f \in Fields
    BY <1>4, <1>6, <2>1, <2>2 DEF Fields, Collectable
  <2>4. f.name = name
    OBVIOUS
  <2>5. next = Append(fields, f)
    BY <1>3, <1>6 DEF values
  <2> HIDE DEF f
  <2>6. /\ Append(fields, f) \in Seq(Fields) /\ DOMAIN Append(fields, f) = 1 .. n + 1
        /\ \A i \in 1 .. n : Append(fields, f)[i] = fields[i]
        /\ Append(fields, f)[n + 1] = f
    BY <1>1, <2>3, AppendFacts
  <2>7. \A i \in 1 .. n : fields[i].name # name
    BY <1>1, <1>6
  <2> DEFINE a == Append(fields, f)
  <2> HIDE DEF a
  <2>8. /\ a \in Seq(Fields) /\ DOMAIN a = 1 .. n + 1
        /\ \A i \in 1 .. n + 1 : (i \in 1 .. n /\ a[i] = fields[i]) \/ (i = n + 1 /\ a[i] = f)
    BY <1>1, <2>6 DEF a
  <2>9. DistinctNames(a)
    <3> SUFFICES ASSUME NEW i \in 1 .. n + 1, NEW j \in 1 .. n + 1, a[i].name = a[j].name
                 PROVE  i = j
      BY <2>8 DEF DistinctNames
    <3>1. \A k, m \in 1 .. n : fields[k].name = fields[m].name => k = m
      BY <1>1 DEF Sendable, DistinctNames
    <3> HIDE DEF n
    <3> QED
      BY <2>4, <2>7, <2>8, <3>1
  <2> QED
    BY <2>5, <2>8, <2>9 DEF Sendable, a, next
<1>7. CASE ~ refused /\ found # {}
  <2> DEFINE m == Min(found)
             f == fields[m]
             values == Append(f.values, value)
             g == [name |-> f.name, values |-> values]
  <2>1. m \in found
    <3>1. found \in SUBSET Nat
      BY <1>1
    <3> HIDE DEF found
    <3> QED
      BY <1>7, <3>1, MinFacts
  <2>2. m \in 1 .. n /\ f.name = name /\ f \in Fields
    BY <1>1, <2>1
  <2>3. next = [fields EXCEPT ![m].values = Append(@, value)]
    BY <1>3, <1>7
  <2> DEFINE h == [f EXCEPT !.values = values]
  <2>4. next = [fields EXCEPT ![m] = h]
    BY <2>3
  <2>5. f = [name |-> f.name, values |-> f.values] /\ f.values \in Seq(B)
    BY <2>2 DEF Fields
  <2>6. h = g
    <3>1. \A x, v, w : [[name |-> x, values |-> v] EXCEPT !.values = w] = [name |-> x, values |-> w]
      OBVIOUS
    <3> HIDE DEF f, values
    <3> QED
      BY <2>5, <3>1
  <2> HIDE DEF m, h
  <2>7. /\ DOMAIN next = 1 .. n /\ next = [i \in 1 .. n |-> next[i]]
        /\ \A i \in 1 .. n : next[i] = IF i = m THEN g ELSE fields[i]
    <3> HIDE DEF g, n
    <3>1. next = [fields EXCEPT ![m] = g]
      BY <2>4, <2>6
    <3> QED
      BY <1>1, <2>2, <3>1
  <2>8. values \in Seq(B) /\ values # <<>> /\ \A v \in ToSet(values) : v \in ToSet(f.values) \/ v = value
    <3> DEFINE old == f.values
    <3>1. old \in Seq(B) /\ value \in B
      BY <2>5
    <3> HIDE DEF old, value, B
    <3>2. Append(old, value) \in Seq(B) /\ Append(old, value) # <<>>
      BY <3>1, AppendFacts
    <3>3. ToSet(Append(old, value)) = ToSet(old) \cup {value}
      BY <3>1, ToSetAppend
    <3> QED
      BY <3>2, <3>3 DEF old
  <2>9. g \in Fields
    <3>1. g.name \in FieldNames /\ g.values = values
      BY <1>4, <1>7, <2>2
    <3>2. IsBinary(g.name) \/ \A v \in ToSet(values) : Printable(v)
      BY <1>4, <1>7, <2>2, <2>8 DEF Fields, Collectable
    <3> HIDE DEF values, f
    <3> QED
      BY <2>8, <3>1, <3>2 DEF Fields, Collectable
  <2>10. \A i \in 1 .. n : next[i] \in Fields /\ next[i].name = fields[i].name
    <3>1. g.name = f.name
      OBVIOUS
    <3>2. fields[m].name = f.name
      OBVIOUS
    <3> HIDE DEF g, f, n
    <3> QED
      BY <1>1, <2>7, <2>9, <3>1, <3>2
  <2> HIDE DEF g, n
  <2>11. next \in Seq(Fields)
    BY <1>1, <2>7, <2>10, MapType
  <2>12. DistinctNames(next)
    <3>1. \A k, l \in 1 .. n : fields[k].name = fields[l].name => k = l
      BY <1>1 DEF Sendable, DistinctNames
    <3> QED
      BY <2>7, <2>10, <3>1 DEF DistinctNames
  <2> QED
    BY <2>11, <2>12 DEF Sendable, next
<1> QED
  BY <1>5, <1>6, <1>7

\* g holds what a call has collected after each of its additions.
Collects(g, adds) ==
  g = [n \in 0 .. Len(adds) |-> IF n = 0 THEN <<>> ELSE AddCore(g[n - 1], adds[n])]
CollectTable(adds) == CHOOSE g : Collects(g, adds)

LEMMA CollectedUnfold == \A adds : Collected(adds) = CollectTable(adds)[Len(adds)]
BY DEF Collected, CollectTable, Collects

LEMMA CollectTableExists ==
  ASSUME NEW A, NEW adds \in Seq(A)
  PROVE  Collects(CollectTable(adds), adds)
<1> DEFINE P == {s \in Seq(A) : \E g : Collects(g, s)}
<1>1. <<>> \in P
  <2> DEFINE g == [n \in 0 .. 0 |-> <<>>]
  <2>1. Len(<<>>) = 0 /\ \A n \in 0 .. 0 : n = 0
    OBVIOUS
  <2>2. Collects(g, <<>>)
    BY <2>1 DEF Collects
  <2> QED
    BY <2>2, EmptySeq
<1>2. ASSUME NEW s \in Seq(A), NEW e \in A, s \in P
      PROVE  Append(s, e) \in P
  <2> DEFINE a == Append(s, e)
             n == Len(s)
  <2>1. PICK g : Collects(g, s)
    BY <1>2
  <2>2. /\ a \in Seq(A) /\ Len(a) = n + 1 /\ a[n + 1] = e /\ n \in Nat
        /\ \A i \in 1 .. n : a[i] = s[i]
    BY AppendFacts
  <2> DEFINE h == [i \in 0 .. n + 1 |-> IF i = n + 1 THEN AddCore(g[n], e) ELSE g[i]]
  <2> HIDE DEF a, n
  <2>3. ASSUME NEW i \in 0 .. n + 1
        PROVE  h[i] = IF i = 0 THEN <<>> ELSE AddCore(h[i - 1], a[i])
    <3>1. CASE i = n + 1
      <4>1. h[i] = AddCore(g[n], e) /\ i # 0 /\ i - 1 = n /\ a[i] = e
        BY <2>2, <3>1
      <4>2. n \in 0 .. n + 1 /\ n # n + 1
        BY <2>2
      <4>3. h[n] = g[n]
        BY <4>2
      <4> HIDE DEF h
      <4> QED
        BY <4>1, <4>3
    <3>2. CASE i # n + 1
      <4>1. i \in 0 .. n
        BY <2>2, <3>2
      <4>2. h[i] = g[i]
        BY <3>2
      <4>3. g[i] = IF i = 0 THEN <<>> ELSE AddCore(g[i - 1], s[i])
        BY <2>1, <4>1 DEF Collects, n
      <4>4. i # 0 => i \in 1 .. n /\ i - 1 \in 0 .. n + 1 /\ i - 1 # n + 1
        BY <2>2, <4>1
      <4>5. i # 0 => h[i - 1] = g[i - 1] /\ a[i] = s[i]
        BY <2>2, <4>4
      <4> HIDE DEF h
      <4> QED
        BY <4>2, <4>3, <4>5
    <3> QED
      BY <3>1, <3>2
  <2>4. h = [i \in 0 .. n + 1 |-> IF i = 0 THEN <<>> ELSE AddCore(h[i - 1], a[i])]
    BY <2>3
  <2> HIDE DEF h
  <2>5. Collects(h, a)
    BY <2>2, <2>4 DEF Collects
  <2> QED
    BY <2>2, <2>5 DEF a
<1>3. Seq(A) \subseteq P
  <2> HIDE DEF P
  <2> QED
    BY <1>1, <1>2, SeqInduction
<1> QED
  BY <1>3 DEF CollectTable

LEMMA CollectedIsSendable ==
  ASSUME NEW adds, AddsInput(adds)
  PROVE  Sendable(Collected(adds))
<1> DEFINE A == ToSet(adds)
           g == CollectTable(adds)
           n == Len(adds)
           P == {m \in Nat : m <= n => Sendable(g[m])}
<1>1. adds \in Seq(A) /\ \A a \in A : a.name \in Seq(STRING) /\ a.value \in Seq(Bytes)
  BY DEF AddsInput, Bytes
<1> HIDE DEF A
<1>2. n \in Nat /\ \A i \in 1 .. n : adds[i] \in A
  BY <1>1, LenProperties, ElementOfSeq
<1>3. Collects(g, adds) /\ Collected(adds) = g[n]
  BY <1>1, CollectTableExists, CollectedUnfold
<1> HIDE DEF g
<1>4. \A m \in 0 .. n : g[m] = IF m = 0 THEN <<>> ELSE AddCore(g[m - 1], adds[m])
  BY <1>3 DEF Collects
<1> HIDE DEF n
<1>5. 0 \in P
  <2>1. 0 \in 0 .. n
    BY <1>2
  <2>2. g[0] = <<>>
    BY <1>4, <2>1
  <2>3. <<>> \in Seq(Fields) /\ DOMAIN <<>> = {}
    BY EmptySeq
  <2>4. Sendable(<<>>)
    BY <2>3 DEF Sendable, DistinctNames
  <2> QED
    BY <2>2, <2>4
<1>6. ASSUME NEW m \in Nat, m \in P
      PROVE  m + 1 \in P
  <2> SUFFICES ASSUME m + 1 <= n
               PROVE  Sendable(g[m + 1])
    OBVIOUS
  <2>1. m <= n /\ m + 1 \in 0 .. n /\ m + 1 \in 1 .. n /\ m + 1 # 0 /\ (m + 1) - 1 = m
    BY <1>2
  <2>2. Sendable(g[m])
    BY <1>6, <2>1
  <2>3. g[m + 1] = AddCore(g[m], adds[m + 1])
    BY <1>4, <2>1
  <2> DEFINE add == adds[m + 1]
             before == g[m]
  <2>4. add.name \in Seq(STRING) /\ add.value \in Seq(Bytes)
    BY <1>1, <1>2, <2>1
  <2> HIDE DEF add, before
  <2>5. Sendable(AddCore(before, add))
    <3>1. Sendable(before)
      BY <2>2 DEF before
    <3> QED
      BY <2>4, <3>1, AddIsSendable
  <2> QED
    BY <2>3, <2>5 DEF add, before
<1>7. Nat \subseteq P
  <2> HIDE DEF P
  <2> QED
    BY <1>5, <1>6, SetInduction
<1>8. n \in P /\ n <= n
  BY <1>2, <1>7
<1> QED
  BY <1>3, <1>8

LEMMA AddsRoundTrip ==
  ASSUME NEW adds, AddsInput(adds)
  PROVE  LET fields == Collected(adds)
             trim(f) == IF IsBinary(f.name) THEN f.values
                        ELSE [v \in DOMAIN f.values |-> Trim(f.values[v], {"sp"})]
             sent == [i \in DOMAIN fields |-> [name |-> fields[i].name, values |-> trim(fields[i])]]
         IN /\ ContextMetadata(Wire(fields)) = sent
            /\ ContextMetadata(JoinedLines(Wire(fields))) = sent
            /\ MetadataValid(sent)
<1> DEFINE fields == Collected(adds)
<1>1. fields \in Seq(Fields) /\ DistinctNames(fields)
  BY CollectedIsSendable DEF Sendable
<1> HIDE DEF fields
<1>2. /\ ContextMetadata(Wire(fields)) = SentFields(fields)
      /\ ContextMetadata(JoinedLines(Wire(fields))) = SentFields(fields)
      /\ MetadataValid(SentFields(fields))
  BY <1>1, WireRead, JoinedRead, SentIsValid
<1> QED
  BY <1>2 DEF fields, SentFields, Sent

\* Metadata survives the wire, joined by a proxy or not, and PHP is shown only
\* what its Metadata class accepts (php/call.rs, php/values.rs).
THEOREM MetadataRoundTripsAlways == RulesSpec => []MetadataRoundTrips
<1>1. InputIsTaken => MetadataRoundTrips
  <2> SUFFICES ASSUME InputIsTaken
               PROVE  MetadataRoundTrips
    OBVIOUS
  <2>1. ASSUME input.kind = "adds"
        PROVE  AddsInput(input.of)
    BY <2>1, RulesInputs DEF InputIsTaken
  <2>2. ASSUME input.kind = "lines"
        PROVE  MetadataValid(ContextMetadata(input.of))
    BY <2>2, RulesInputs, ShownIsValid DEF InputIsTaken
  <2> QED
    BY <2>1, <2>2, AddsRoundTrip DEF MetadataRoundTrips
<1> QED
  BY <1>1, TakenThroughout, PTL

-----------------------------------------------------------------------------
(* The server.                                                             *)

\* What main's place says of its loops.
PlaceInv ==
  /\ main \in {"observer", "pool", "plugin"} => startup
  /\ main = "observer" => at = 1 /\ pools = 0 /\ running = 0
  /\ main = "pool" => at <= Plugins /\ pools = at - 1 /\ running = at - 1
  /\ main = "plugin" => at <= Plugins /\ pools = at /\ running = at - 1
  /\ main = "abandon" => ~startup
  /\ main \notin {"observer", "pool", "plugin"} /\ startup => running = Plugins
  /\ main = "join" => at <= running + 1
  /\ main = "wait" => at <= pools + 1

\* A plugin that main has joined.
Joined(p) == plugin[p] = "over" /\ (result[p] = "error" => failed)

\* main's loop is past the plugins.
PastPlugins == main \in {"watch", "close", "wait", "module", "return"}

\* What main knows of the threads it has joined.
JoinInv ==
  /\ main = "join" => \A p \in 1 .. (at - 1) : Joined(p)
  /\ PastPlugins => \A p \in 1 .. running : Joined(p)
  /\ PastPlugins /\ main # "watch" => observer # "serve" /\ (observer = "error" => failed)

\* A gRPC call ends with its connection; a plugin that ends with a counted
\* request, or has cut one, reports it.
Reported(p) ==
  /\ p \in Grpc /\ conn[p] = "none" => request[p] = "none"
  /\ plugin[p] = "ending" /\ request[p] = "counted" => result[p] = "error"
  /\ plugin[p] = "over" /\ cut[p] => result[p] = "error"

DrainInv == \A p \in Each : Reported(p)

\* PHP is shut down last, and with no thread in it.
ModuleInv ==
  /\ main = "return" <=> ~module
  /\ ModuleOutlivesThreads

IInv == TypeOK /\ PlaceInv /\ JoinInv /\ DrainInv /\ ModuleInv /\ ExitCodeTells

\* Expanded everywhere.
USE DEF progress, control, signals, drain, traffic, world, sapi, Each, Goto


-----------------------------------------------------------------------------
LEMMA InitKeeps == Init => IInv
<1> SUFFICES ASSUME Init
             PROVE  IInv
  OBVIOUS
<1>1. MainTypes
  BY ServerConstants DEF Init, MainTypes, Main
<1>2. FlagTypes
  BY DEF Init, FlagTypes
<1>3. ThreadTypes
  BY DEF Init, ThreadTypes, Stage
<1>4. PlaceInv
  BY DEF Init, PlaceInv
<1>5. JoinInv
  BY DEF Init, JoinInv, PastPlugins
<1>6. DrainInv
  BY DEF Init, DrainInv, Reported
<1>7. ModuleInv
  BY DEF Init, ModuleInv, ModuleOutlivesThreads
<1>8. ExitCodeTells
  BY DEF Init, ExitCodeTells, Running
<1> QED
  BY <1>1, <1>2, <1>3, <1>4, <1>5, <1>6, <1>7, <1>8 DEF IInv, TypeOK

-----------------------------------------------------------------------------
(* The exits.                                                              *)

\* A forced exit changes nothing else, and its code is never 0.
LEMMA ForceExitKeeps ==
  ASSUME NEW code \in {1, 70, 130}, IInv, code = 70 => boot_failed, ForceExit(code)
  PROVE  IInv'
<1>1. MainTypes'
  BY DEF ForceExit, IInv, TypeOK, MainTypes
<1>2. FlagTypes' /\ ThreadTypes'
  BY DEF ForceExit, IInv, TypeOK, FlagTypes, ThreadTypes
<1>3. PlaceInv' /\ JoinInv' /\ DrainInv' /\ ModuleInv'
  BY DEF ForceExit, IInv, PlaceInv, JoinInv, PastPlugins, Joined, DrainInv, Reported, ModuleInv,
         ModuleOutlivesThreads
<1>4. ExitCodeTells'
  BY DEF ForceExit, ExitCodeTells
<1> QED
  BY <1>1, <1>2, <1>3, <1>4 DEF IInv, TypeOK

LEMMA ForcedCodeTells == ForcedCode \in {1, 70} /\ (ForcedCode = 70 => boot_failed)
  BY DEF ForcedCode

\* main returns 0 only after everything that code 0 stands for.
LEMMA ReturnKeeps ==
  ASSUME IInv, exit = Running, Return
  PROVE  IInv'
<1>1. CASE exit' = 0
  <2>1. startup /\ ~boot_failed /\ ~failed /\ main = "return"
    BY <1>1 DEF Return, ForceExit
  <2>2. ~module /\ running = Plugins /\ observer # "error"
    BY <2>1 DEF IInv, PlaceInv, JoinInv, PastPlugins, ModuleInv
  <2>3. \A p \in Each : plugin[p] = "over" /\ result[p] # "error"
    BY <2>1, <2>2 DEF IInv, JoinInv, PastPlugins, Joined
  <2>4. \A p \in Each : result[p] = "ok" /\ ~cut[p]
    BY <2>3 DEF IInv, TypeOK, ThreadTypes, DrainInv, Reported
  <2>5. ExitCodeTells'
    BY <1>1, <2>1, <2>2, <2>3, <2>4 DEF Return, ForceExit, ExitCodeTells
  <2>6. MainTypes'
    BY <1>1 DEF Return, ForceExit, IInv, TypeOK, MainTypes
  <2>7. FlagTypes' /\ ThreadTypes'
    BY DEF Return, ForceExit, IInv, TypeOK, FlagTypes, ThreadTypes
  <2>8. PlaceInv' /\ JoinInv' /\ DrainInv' /\ ModuleInv'
    BY DEF Return, ForceExit, IInv, PlaceInv, JoinInv, PastPlugins, Joined, DrainInv,
           Reported, ModuleInv, ModuleOutlivesThreads
  <2> QED
    BY <2>5, <2>6, <2>7, <2>8 DEF IInv, TypeOK
<1>2. CASE exit' # 0
  <2>1. exit' \in {1, 70} /\ (exit' = 70 => boot_failed)
    BY <1>2 DEF Return, ForceExit
  <2>2. ForceExit(exit')
    BY DEF Return, ForceExit
  <2> QED
    BY <2>1, <2>2, ForceExitKeeps
<1> QED
  BY <1>1, <1>2

LEMMA ConsoleKeeps ==
  ASSUME IInv, exit = Running, Console
  PROVE  IInv'
<1>1. CASE ForceExit(130)
  BY <1>1, ForceExitKeeps
<1>2. CASE UNCHANGED <<control, told, timer, due, world, sapi, exit>> /\ asked' = TRUE
  <2>1. MainTypes' /\ FlagTypes' /\ ThreadTypes'
    BY <1>2 DEF IInv, TypeOK, MainTypes, FlagTypes, ThreadTypes
  <2>2. PlaceInv' /\ JoinInv' /\ DrainInv' /\ ModuleInv' /\ ExitCodeTells'
    BY <1>2 DEF IInv, PlaceInv, JoinInv, PastPlugins, Joined, DrainInv, Reported, ModuleInv,
                ModuleOutlivesThreads, ExitCodeTells
  <2> QED
    BY <2>1, <2>2 DEF IInv, TypeOK
<1> QED
  BY <1>1, <1>2 DEF Console

LEMMA TimerFiresKeeps ==
  ASSUME IInv, exit = Running, TimerFires
  PROVE  IInv'
  BY ForceExitKeeps, ForcedCodeTells DEF TimerFires

-----------------------------------------------------------------------------
(* The main thread.                                                        *)

LEMMA StartObserverKeeps ==
  ASSUME IInv, exit = Running, StartObserver
  PROVE  IInv'
<1>a. at' = 1 /\ pools' = 0 /\ running' = 0
  BY DEF StartObserver, FailStartup, IInv, PlaceInv
<1>b. \/ main' = "pool" /\ startup'
      \/ main' = "arm" /\ ~startup'
  BY DEF StartObserver, FailStartup, IInv, PlaceInv
<1>1. MainTypes'
  BY <1>a, <1>b, ServerConstants DEF StartObserver, IInv, TypeOK, MainTypes, Main
<1>2. FlagTypes'
  BY DEF StartObserver, FailStartup, IInv, TypeOK, FlagTypes
<1>3. ThreadTypes'
  BY DEF StartObserver, FailStartup, IInv, TypeOK, ThreadTypes, Stage
<1>4. PlaceInv'
  BY <1>a, <1>b, ServerConstants DEF PlaceInv
<1>5. JoinInv'
  BY DEF StartObserver, FailStartup, IInv, TypeOK, MainTypes, ThreadTypes,
         PlaceInv, JoinInv, PastPlugins, Joined
<1>6. DrainInv'
  BY DEF StartObserver, FailStartup, IInv, DrainInv, Reported
<1>7. ModuleInv'
  BY DEF StartObserver, FailStartup, IInv, TypeOK, ThreadTypes, ModuleInv,
         ModuleOutlivesThreads
<1>8. ExitCodeTells'
  BY DEF StartObserver, IInv, ExitCodeTells, Running
<1> QED
  BY <1>1, <1>2, <1>3, <1>4, <1>5, <1>6, <1>7, <1>8 DEF IInv, TypeOK

LEMMA StartPoolKeeps ==
  ASSUME IInv, exit = Running, StartPool
  PROVE  IInv'
<1>a. at \in Each /\ pools = at - 1 /\ running = at - 1
  BY DEF StartPool, IInv, TypeOK, MainTypes, PlaceInv
<1>1. MainTypes'
  <2>1. main' \in Main /\ at' = at /\ running' = running /\ exit' = exit
    BY DEF StartPool, Main
  <2>2. pools' \in {at, pools}
    BY DEF StartPool
  <2> QED
    BY <1>a, <2>1, <2>2 DEF IInv, TypeOK, MainTypes
<1>2. FlagTypes'
  BY DEF StartPool, IInv, TypeOK, FlagTypes
<1>3. ThreadTypes'
  <2>1. php' \in [Each -> {"none", "gated", "live", "over"}]
    BY <1>a DEF StartPool, IInv, TypeOK, ThreadTypes
  <2>2. stopping' \in [Each -> BOOLEAN]
    BY <1>a DEF StartPool, IInv, TypeOK, ThreadTypes
  <2> QED
    BY <2>1, <2>2 DEF StartPool, IInv, TypeOK, ThreadTypes
<1>4. PlaceInv'
  BY ServerConstants DEF StartPool, IInv, TypeOK, MainTypes, PlaceInv
<1>5. JoinInv'
  BY DEF StartPool, IInv, TypeOK, MainTypes, ThreadTypes, PlaceInv, JoinInv,
         PastPlugins, Joined
<1>6. DrainInv'
  BY DEF StartPool, IInv, DrainInv, Reported
<1>7. ModuleInv'
  BY DEF StartPool, IInv, TypeOK, ThreadTypes, ModuleInv, ModuleOutlivesThreads
<1>8. ExitCodeTells'
  BY DEF StartPool, IInv, ExitCodeTells, Running
<1> QED
  BY <1>1, <1>2, <1>3, <1>4, <1>5, <1>6, <1>7, <1>8 DEF IInv, TypeOK

LEMMA AbandonPoolKeeps ==
  ASSUME IInv, exit = Running, AbandonPool
  PROVE  IInv'
<1>1. MainTypes'
  BY ServerConstants DEF AbandonPool, IInv, TypeOK, MainTypes, Main
<1>2. FlagTypes'
  BY DEF AbandonPool, IInv, TypeOK, FlagTypes
<1>3. ThreadTypes'
  BY DEF AbandonPool, IInv, TypeOK, ThreadTypes, Stage
<1>4. PlaceInv'
  BY ServerConstants DEF AbandonPool, IInv, TypeOK, MainTypes, PlaceInv
<1>5. JoinInv'
  BY DEF AbandonPool, IInv, TypeOK, MainTypes, ThreadTypes, PlaceInv, JoinInv,
         PastPlugins, Joined
<1>6. DrainInv'
  BY DEF AbandonPool, IInv, DrainInv, Reported
<1>7. ModuleInv'
  BY DEF AbandonPool, IInv, TypeOK, ThreadTypes, ModuleInv, ModuleOutlivesThreads
<1>8. ExitCodeTells'
  BY DEF AbandonPool, IInv, ExitCodeTells, Running
<1> QED
  BY <1>1, <1>2, <1>3, <1>4, <1>5, <1>6, <1>7, <1>8 DEF IInv, TypeOK

LEMMA StartPluginKeeps ==
  ASSUME IInv, exit = Running, StartPlugin
  PROVE  IInv'
<1>a. at \in Each /\ pools = at /\ running = at - 1
  BY DEF StartPlugin, IInv, TypeOK, MainTypes, PlaceInv
<1>1. MainTypes'
  <2>1. main' \in Main /\ at' \in 1 .. Plugins + 1
    BY <1>a, ServerConstants DEF StartPlugin, FailStartup, Main
  <2>2. pools' = pools /\ running' \in {at, running} /\ exit' = exit
    BY DEF StartPlugin
  <2> QED
    BY <1>a, <2>1, <2>2 DEF IInv, TypeOK, MainTypes
<1>2. FlagTypes'
  BY DEF StartPlugin, FailStartup, IInv, TypeOK, FlagTypes
<1>3. ThreadTypes'
  <2>1. plugin' \in [Each -> Stage]
    BY <1>a DEF StartPlugin, IInv, TypeOK, ThreadTypes, Stage
  <2> QED
    BY <2>1 DEF StartPlugin, IInv, TypeOK, ThreadTypes
<1>4. PlaceInv'
  <2>1. CASE main' = "pool"
    BY <1>a, <2>1, ServerConstants DEF StartPlugin, FailStartup, IInv, PlaceInv
  <2>2. CASE main' = "poll"
    BY <1>a, <2>2, ServerConstants DEF StartPlugin, FailStartup, IInv, PlaceInv
  <2>3. CASE main' = "arm"
    BY <1>a, <2>3, ServerConstants DEF StartPlugin, FailStartup, IInv, PlaceInv
  <2> QED
    BY <2>1, <2>2, <2>3 DEF StartPlugin, FailStartup
<1>5. JoinInv'
  BY DEF StartPlugin, FailStartup, IInv, TypeOK, MainTypes, ThreadTypes, PlaceInv,
         JoinInv, PastPlugins, Joined
<1>6. DrainInv'
  <2>1. \A p \in Each : plugin'[p] = plugin[p] \/ plugin'[p] = "serve"
    BY <1>a DEF StartPlugin, IInv, TypeOK, ThreadTypes
  <2> QED
    BY <2>1 DEF StartPlugin, IInv, DrainInv, Reported
<1>7. ModuleInv'
  BY DEF StartPlugin, FailStartup, IInv, TypeOK, ThreadTypes, ModuleInv,
         ModuleOutlivesThreads
<1>8. ExitCodeTells'
  BY DEF StartPlugin, IInv, ExitCodeTells, Running
<1> QED
  BY <1>1, <1>2, <1>3, <1>4, <1>5, <1>6, <1>7, <1>8 DEF IInv, TypeOK

LEMMA StopPollingKeeps ==
  ASSUME IInv, exit = Running, StopPolling
  PROVE  IInv'
<1>1. MainTypes'
  BY ServerConstants DEF StopPolling, IInv, TypeOK, MainTypes, Main
<1>2. FlagTypes'
  BY DEF StopPolling, IInv, TypeOK, FlagTypes
<1>3. ThreadTypes'
  BY DEF StopPolling, IInv, TypeOK, ThreadTypes, Stage
<1>4. PlaceInv'
  BY ServerConstants DEF StopPolling, IInv, TypeOK, MainTypes, PlaceInv
<1>5. JoinInv'
  BY DEF StopPolling, IInv, TypeOK, MainTypes, ThreadTypes, PlaceInv, JoinInv,
         PastPlugins, Joined
<1>6. DrainInv'
  BY DEF StopPolling, IInv, DrainInv, Reported
<1>7. ModuleInv'
  BY DEF StopPolling, IInv, TypeOK, ThreadTypes, ModuleInv, ModuleOutlivesThreads
<1>8. ExitCodeTells'
  BY DEF StopPolling, IInv, ExitCodeTells, Running
<1> QED
  BY <1>1, <1>2, <1>3, <1>4, <1>5, <1>6, <1>7, <1>8 DEF IInv, TypeOK

LEMMA ArmTimerKeeps ==
  ASSUME IInv, exit = Running, ArmTimer
  PROVE  IInv'
<1>1. CASE ForceExit(1)
  BY <1>1, ForceExitKeeps
<1>2. CASE ~ForceExit(1)
  <2>1. main = "arm" /\ main' = "tell" /\ at' = 1
        /\ UNCHANGED <<startup, pools, running, asked, told, due, world, sapi, exit>>
    BY <1>2 DEF ArmTimer
  <2>2. MainTypes'
    BY <2>1, ServerConstants DEF IInv, TypeOK, MainTypes, Main
  <2>3. timer' = TRUE /\ failed' = ObserverOver
    BY <1>2 DEF ArmTimer
  <2>4. FlagTypes' /\ ThreadTypes'
    BY <2>1, <2>3 DEF ObserverOver, IInv, TypeOK, FlagTypes, ThreadTypes
  <2>5. PlaceInv'
    BY <2>1 DEF IInv, PlaceInv
  <2>6. JoinInv'
    BY <2>1 DEF JoinInv, PastPlugins
  <2>7. DrainInv' /\ ModuleInv' /\ ExitCodeTells'
    BY <2>1 DEF IInv, DrainInv, Reported, ModuleInv, ModuleOutlivesThreads, ExitCodeTells
  <2> QED
    BY <2>2, <2>4, <2>5, <2>6, <2>7 DEF IInv, TypeOK
<1> QED
  BY <1>1, <1>2

LEMMA TellPluginsKeeps ==
  ASSUME IInv, exit = Running, TellPlugins
  PROVE  IInv'
<1>1. MainTypes'
  BY ServerConstants DEF TellPlugins, IInv, TypeOK, MainTypes, Main
<1>2. FlagTypes'
  BY DEF TellPlugins, IInv, TypeOK, FlagTypes
<1>3. ThreadTypes'
  BY DEF TellPlugins, IInv, TypeOK, ThreadTypes, Stage
<1>4. PlaceInv'
  BY ServerConstants DEF TellPlugins, IInv, TypeOK, MainTypes, PlaceInv
<1>5. JoinInv'
  BY DEF TellPlugins, IInv, TypeOK, MainTypes, ThreadTypes, PlaceInv, JoinInv,
         PastPlugins, Joined
<1>6. DrainInv'
  BY DEF TellPlugins, IInv, DrainInv, Reported
<1>7. ModuleInv'
  BY DEF TellPlugins, IInv, TypeOK, ThreadTypes, ModuleInv, ModuleOutlivesThreads
<1>8. ExitCodeTells'
  BY DEF TellPlugins, IInv, ExitCodeTells, Running
<1> QED
  BY <1>1, <1>2, <1>3, <1>4, <1>5, <1>6, <1>7, <1>8 DEF IInv, TypeOK

LEMMA JoinPluginKeeps ==
  ASSUME IInv, exit = Running, JoinPlugin
  PROVE  IInv'
<1>1. MainTypes'
  BY ServerConstants DEF JoinPlugin, Fold, IInv, TypeOK, MainTypes, PlaceInv, Main
<1>2. FlagTypes'
  BY DEF JoinPlugin, Fold, IInv, TypeOK, FlagTypes
<1>3. ThreadTypes'
  BY DEF JoinPlugin, Fold, IInv, TypeOK, ThreadTypes, Stage
<1>4. PlaceInv'
  BY ServerConstants DEF JoinPlugin, Fold, IInv, TypeOK, MainTypes, PlaceInv
<1>5. JoinInv'
  <2>1. CASE main' = "join"
    <3>1. \A p \in 1 .. (at' - 1) : plugin[p] = "over" /\ (result[p] = "error" => failed')
      <4>1. main = "join" /\ at' = at + 1 /\ plugin[at] = "over" /\ at \in Nat
        BY <2>1 DEF JoinPlugin, IInv, TypeOK, MainTypes
      <4>2. (failed \/ result[at] = "error") => failed'
        BY <2>1 DEF JoinPlugin, Fold
      <4>3. \A p \in 1 .. (at - 1) : plugin[p] = "over" /\ (result[p] = "error" => failed)
        BY <4>1 DEF IInv, JoinInv, Joined
      <4>4. \A p \in 1 .. (at' - 1) : p \in 1 .. (at - 1) \/ p = at
        BY <4>1
      <4> QED
        BY <4>1, <4>2, <4>3, <4>4
    <3> QED
      BY <2>1, <3>1 DEF JoinPlugin, JoinInv, Joined, PastPlugins
  <2>2. CASE main' = "watch"
    <3>1. \A p \in 1 .. running : p \in 1 .. (at - 1)
      BY <2>2 DEF JoinPlugin, IInv, TypeOK, MainTypes
    <3> QED
      BY <2>2, <3>1 DEF JoinPlugin, IInv, JoinInv, Joined, PastPlugins
  <2> QED
    BY <2>1, <2>2 DEF JoinPlugin
<1>6. DrainInv'
  BY DEF JoinPlugin, Fold, IInv, DrainInv, Reported
<1>7. ModuleInv'
  BY DEF JoinPlugin, Fold, IInv, TypeOK, ThreadTypes, ModuleInv,
         ModuleOutlivesThreads
<1>8. ExitCodeTells'
  BY DEF JoinPlugin, IInv, ExitCodeTells, Running
<1> QED
  BY <1>1, <1>2, <1>3, <1>4, <1>5, <1>6, <1>7, <1>8 DEF IInv, TypeOK

LEMMA JoinObserverKeeps ==
  ASSUME IInv, exit = Running, JoinObserver
  PROVE  IInv'
<1>1. MainTypes'
  BY ServerConstants DEF JoinObserver, Fold, IInv, TypeOK, MainTypes, Main
<1>2. FlagTypes'
  BY DEF JoinObserver, Fold, IInv, TypeOK, FlagTypes
<1>3. ThreadTypes'
  BY DEF JoinObserver, Fold, IInv, TypeOK, ThreadTypes, Stage
<1>4. PlaceInv'
  BY ServerConstants DEF JoinObserver, Fold, IInv, TypeOK, MainTypes, PlaceInv
<1>5. JoinInv'
  BY DEF JoinObserver, Fold, IInv, TypeOK, MainTypes, ThreadTypes, PlaceInv,
         JoinInv, PastPlugins, Joined
<1>6. DrainInv'
  BY DEF JoinObserver, Fold, IInv, DrainInv, Reported
<1>7. ModuleInv'
  BY DEF JoinObserver, Fold, IInv, TypeOK, ThreadTypes, ModuleInv,
         ModuleOutlivesThreads
<1>8. ExitCodeTells'
  BY DEF JoinObserver, IInv, ExitCodeTells, Running
<1> QED
  BY <1>1, <1>2, <1>3, <1>4, <1>5, <1>6, <1>7, <1>8 DEF IInv, TypeOK

LEMMA StopPoolsKeeps ==
  ASSUME IInv, exit = Running, StopPools
  PROVE  IInv'
<1>1. MainTypes'
  BY ServerConstants DEF StopPools, IInv, TypeOK, MainTypes, Main
<1>2. FlagTypes'
  BY DEF StopPools, IInv, TypeOK, FlagTypes
<1>3. ThreadTypes'
  BY DEF StopPools, IInv, TypeOK, ThreadTypes, Stage
<1>4. PlaceInv'
  BY ServerConstants DEF StopPools, IInv, TypeOK, MainTypes, PlaceInv
<1>5. JoinInv'
  BY DEF StopPools, IInv, TypeOK, MainTypes, ThreadTypes, PlaceInv, JoinInv,
         PastPlugins, Joined
<1>6. DrainInv'
  BY DEF StopPools, IInv, DrainInv, Reported
<1>7. ModuleInv'
  BY DEF StopPools, IInv, TypeOK, ThreadTypes, ModuleInv, ModuleOutlivesThreads
<1>8. ExitCodeTells'
  BY DEF StopPools, IInv, ExitCodeTells, Running
<1> QED
  BY <1>1, <1>2, <1>3, <1>4, <1>5, <1>6, <1>7, <1>8 DEF IInv, TypeOK

LEMMA JoinPoolKeeps ==
  ASSUME IInv, exit = Running, JoinPool
  PROVE  IInv'
<1>1. CASE ForceExit(ForcedCode)
  BY <1>1, ForceExitKeeps, ForcedCodeTells
<1>2. CASE ~ForceExit(ForcedCode)
  <2>1. UNCHANGED <<progress, signals, world, sapi, exit>>
    BY <1>2 DEF JoinPool
  <2>2. /\ main = "wait" /\ at \in 1 .. Plugins + 1
        /\ \/ main' = "wait" /\ at <= pools /\ at' = at + 1
           \/ main' = "module" /\ at' = 1
    BY <1>2 DEF JoinPool, IInv, TypeOK, MainTypes
  <2>3. MainTypes'
    BY <2>1, <2>2, ServerConstants DEF IInv, TypeOK, MainTypes, Main
  <2>4. FlagTypes' /\ ThreadTypes'
    BY <2>1 DEF IInv, TypeOK, FlagTypes, ThreadTypes
  <2>5. PlaceInv'
    BY <2>1, <2>2 DEF IInv, TypeOK, MainTypes, PlaceInv
  <2>6. JoinInv'
    BY <2>1, <2>2 DEF IInv, JoinInv, PastPlugins, Joined
  <2>7. DrainInv' /\ ExitCodeTells'
    BY <2>1 DEF IInv, DrainInv, Reported, ExitCodeTells
  <2>8. ModuleInv'
    BY <2>1, <2>2 DEF IInv, ModuleInv, ModuleOutlivesThreads
  <2> QED
    BY <2>3, <2>4, <2>5, <2>6, <2>7, <2>8 DEF IInv, TypeOK
<1> QED
  BY <1>1, <1>2

LEMMA DropModuleKeeps ==
  ASSUME IInv, exit = Running, DropModule
  PROVE  IInv'
<1>1. CASE ForceExit(1)
  BY <1>1, ForceExitKeeps
<1>2. CASE ~ForceExit(1)
  <2>1. /\ main = "module" /\ main' = "return" /\ at' = 1 /\ module' = FALSE
        /\ UNCHANGED <<startup, failed, pools, running, signals, world, php, boot_failed,
                       stopping, exit>>
    BY <1>2 DEF DropModule
  <2>2. ~ActiveThreads
    BY <1>2 DEF DropModule
  <2>3. MainTypes'
    BY <2>1, ServerConstants DEF IInv, TypeOK, MainTypes, Main
  <2>4. FlagTypes' /\ ThreadTypes'
    BY <2>1 DEF IInv, TypeOK, FlagTypes, ThreadTypes
  <2>5. PlaceInv'
    BY <2>1 DEF IInv, PlaceInv
  <2>6. JoinInv'
    BY <2>1 DEF IInv, JoinInv, PastPlugins, Joined
  <2>7. DrainInv'
    BY <2>1 DEF IInv, DrainInv, Reported
  <2>8. ModuleInv'
    BY <2>1, <2>2 DEF ActiveThreads, ModuleInv, ModuleOutlivesThreads
  <2>9. ExitCodeTells'
    BY <2>1 DEF ExitCodeTells, Running
  <2> QED
    BY <2>3, <2>4, <2>5, <2>6, <2>7, <2>8, <2>9 DEF IInv, TypeOK
<1> QED
  BY <1>1, <1>2

-----------------------------------------------------------------------------
(* The timer, the observer and the PHP threads.                            *)

LEMMA DeadlinePassesKeeps ==
  ASSUME IInv, exit = Running, DeadlinePasses
  PROVE  IInv'
<1>1. MainTypes'
  BY DEF DeadlinePasses, IInv, TypeOK, MainTypes
<1>2. FlagTypes'
  BY DEF DeadlinePasses, IInv, TypeOK, FlagTypes
<1>3. ThreadTypes'
  BY DEF DeadlinePasses, IInv, TypeOK, ThreadTypes, Stage
<1>4. PlaceInv'
  BY DEF DeadlinePasses, IInv, PlaceInv
<1>5. JoinInv'
  BY DEF DeadlinePasses, IInv, JoinInv, PastPlugins, Joined
<1>6. DrainInv'
  BY DEF DeadlinePasses, IInv, DrainInv, Reported
<1>7. ModuleInv'
  BY DEF DeadlinePasses, IInv, TypeOK, ThreadTypes, ModuleInv,
         ModuleOutlivesThreads
<1>8. ExitCodeTells'
  BY DEF DeadlinePasses, IInv, ExitCodeTells, Running
<1> QED
  BY <1>1, <1>2, <1>3, <1>4, <1>5, <1>6, <1>7, <1>8 DEF IInv, TypeOK

LEMMA ObserverEndsKeeps ==
  ASSUME IInv, exit = Running, ObserverEnds
  PROVE  IInv'
<1>1. MainTypes'
  BY DEF ObserverEnds, IInv, TypeOK, MainTypes
<1>2. FlagTypes'
  BY DEF ObserverEnds, IInv, TypeOK, FlagTypes
<1>3. ThreadTypes'
  BY DEF ObserverEnds, IInv, TypeOK, ThreadTypes, Stage
<1>4. PlaceInv'
  BY DEF ObserverEnds, IInv, PlaceInv
<1>5. JoinInv'
  BY DEF ObserverEnds, IInv, JoinInv, PastPlugins, Joined
<1>6. DrainInv'
  BY DEF ObserverEnds, IInv, DrainInv, Reported
<1>7. ModuleInv'
  BY DEF ObserverEnds, IInv, TypeOK, ThreadTypes, ModuleInv, ModuleOutlivesThreads
<1>8. ExitCodeTells'
  BY DEF ObserverEnds, IInv, ExitCodeTells, Running
<1> QED
  BY <1>1, <1>2, <1>3, <1>4, <1>5, <1>6, <1>7, <1>8 DEF IInv, TypeOK

LEMMA BootFailsKeeps ==
  ASSUME NEW p \in Each, IInv, exit = Running, BootFails(p)
  PROVE  IInv'
<1>1. MainTypes'
  BY DEF BootFails, IInv, TypeOK, MainTypes
<1>2. FlagTypes'
  BY DEF BootFails, IInv, TypeOK, FlagTypes
<1>3. ThreadTypes'
  BY DEF BootFails, IInv, TypeOK, ThreadTypes, Stage
<1>4. PlaceInv'
  BY DEF BootFails, IInv, PlaceInv
<1>5. JoinInv'
  BY DEF BootFails, IInv, TypeOK, JoinInv, PastPlugins, Joined, ThreadTypes,
         MainTypes
<1>6. DrainInv'
  BY DEF BootFails, IInv, DrainInv, Reported
<1>7. ModuleInv'
  BY DEF BootFails, IInv, TypeOK, ThreadTypes, ModuleInv, ModuleOutlivesThreads
<1>8. ExitCodeTells'
  BY DEF BootFails, IInv, ExitCodeTells, Running
<1> QED
  BY <1>1, <1>2, <1>3, <1>4, <1>5, <1>6, <1>7, <1>8 DEF IInv, TypeOK

LEMMA ThreadEndsKeeps ==
  ASSUME NEW p \in Each, IInv, exit = Running, ThreadEnds(p)
  PROVE  IInv'
<1>1. MainTypes'
  BY DEF ThreadEnds, IInv, TypeOK, MainTypes
<1>2. FlagTypes'
  BY DEF ThreadEnds, IInv, TypeOK, FlagTypes
<1>3. ThreadTypes'
  BY DEF ThreadEnds, IInv, TypeOK, ThreadTypes, Stage
<1>4. PlaceInv'
  BY DEF ThreadEnds, IInv, PlaceInv
<1>5. JoinInv'
  BY DEF ThreadEnds, IInv, TypeOK, JoinInv, PastPlugins, Joined, ThreadTypes,
         MainTypes
<1>6. DrainInv'
  BY DEF ThreadEnds, IInv, DrainInv, Reported
<1>7. ModuleInv'
  BY DEF ThreadEnds, IInv, TypeOK, ThreadTypes, ModuleInv, ModuleOutlivesThreads
<1>8. ExitCodeTells'
  BY DEF ThreadEnds, IInv, ExitCodeTells, Running
<1> QED
  BY <1>1, <1>2, <1>3, <1>4, <1>5, <1>6, <1>7, <1>8 DEF IInv, TypeOK

-----------------------------------------------------------------------------
(* The plugin threads and their traffic.                                   *)

\* A step of one plugin, or of its client, leaves main and the other plugins
\* alone.
LEMMA PluginMoves ==
  ASSUME NEW p \in Each, IInv, exit = Running,
         UNCHANGED <<control, signals, observer, sapi, exit>>,
         ThreadTypes',
         \A q \in Each \ {p} :
           /\ plugin'[q] = plugin[q] /\ result'[q] = result[q] /\ conn'[q] = conn[q]
           /\ request'[q] = request[q] /\ cut'[q] = cut[q],
         plugin[p] = "over" => plugin'[p] = "over" /\ result'[p] = result[p],
         Reported(p)'
  PROVE  IInv'
<1>1. MainTypes' /\ FlagTypes' /\ PlaceInv'
  BY DEF IInv, TypeOK, MainTypes, FlagTypes, PlaceInv
<1>2. \A q \in Each : Joined(q) => Joined(q)'
  BY DEF Joined
<1>3. JoinInv'
  <2>1. 1 .. running \subseteq Each /\ 1 .. (at - 1) \subseteq Each
    BY ServerConstants DEF IInv, TypeOK, MainTypes
  <2>2. main = "join" => \A q \in 1 .. (at - 1) : Joined(q)'
    BY <1>2, <2>1 DEF IInv, JoinInv
  <2>3. PastPlugins => \A q \in 1 .. running : Joined(q)'
    BY <1>2, <2>1 DEF IInv, JoinInv
  <2>4. main' = main /\ at' = at /\ running' = running /\ observer' = observer /\ failed' = failed
    OBVIOUS
  <2> QED
    BY <2>2, <2>3, <2>4 DEF IInv, JoinInv, PastPlugins
<1>4. DrainInv'
  BY DEF IInv, DrainInv, Reported
<1>5. ModuleInv' /\ ExitCodeTells'
  BY DEF IInv, ModuleInv, ModuleOutlivesThreads, ExitCodeTells, Running
<1> QED
  BY <1>1, <1>3, <1>4, <1>5 DEF IInv, TypeOK

LEMMA StopAcceptingKeeps ==
  ASSUME NEW p \in Each, IInv, exit = Running, StopAccepting(p)
  PROVE  IInv'
<1>1. UNCHANGED <<control, signals, observer, sapi, exit>>
  BY DEF StopAccepting
<1>2. ThreadTypes'
  <2>1. plugin' \in [Each -> Stage]
    BY DEF StopAccepting, Enter, IInv, TypeOK, ThreadTypes, Stage
  <2>2. fatal' \in [Each -> BOOLEAN]
    BY DEF StopAccepting, IInv, TypeOK, ThreadTypes
  <2>3. result' \in [Each -> {"ok", "error"}]
    BY DEF StopAccepting, Enter, IInv, TypeOK, ThreadTypes
  <2> QED
    BY <2>1, <2>2, <2>3 DEF StopAccepting, IInv, TypeOK, ThreadTypes
<1>3. \A q \in Each \ {p} :
        /\ plugin'[q] = plugin[q] /\ result'[q] = result[q] /\ conn'[q] = conn[q]
        /\ request'[q] = request[q] /\ cut'[q] = cut[q]
  BY DEF StopAccepting, Enter, IInv, TypeOK, ThreadTypes
<1>4. plugin[p] = "over" => plugin'[p] = "over" /\ result'[p] = result[p]
  BY DEF StopAccepting
<1>5. Reported(p)'
  BY DEF StopAccepting, Enter, IInv, TypeOK, ThreadTypes, DrainInv, Reported
<1> QED
  BY <1>1, <1>2, <1>3, <1>4, <1>5, PluginMoves

LEMMA GracePassesKeeps ==
  ASSUME NEW p \in Each, IInv, exit = Running, GracePasses(p)
  PROVE  IInv'
<1>1. UNCHANGED <<control, signals, observer, sapi, exit>>
  BY DEF GracePasses
<1>2. ThreadTypes'
  BY DEF GracePasses, IInv, TypeOK, ThreadTypes
<1>3. \A q \in Each \ {p} :
        /\ plugin'[q] = plugin[q] /\ result'[q] = result[q] /\ conn'[q] = conn[q]
        /\ request'[q] = request[q] /\ cut'[q] = cut[q]
  BY DEF GracePasses, IInv, TypeOK, ThreadTypes
<1>4. plugin[p] = "over" => plugin'[p] = "over" /\ result'[p] = result[p]
  BY DEF GracePasses
<1>5. Reported(p)'
  BY DEF GracePasses, IInv, TypeOK, ThreadTypes, DrainInv, Reported
<1> QED
  BY <1>1, <1>2, <1>3, <1>4, <1>5, PluginMoves

LEMMA DrainStepKeeps ==
  ASSUME NEW p \in Each, IInv, exit = Running, DrainStep(p)
  PROVE  IInv'
<1>1. UNCHANGED <<control, signals, observer, sapi, exit>>
  BY DEF DrainStep
<1>2. ThreadTypes'
  BY DEF DrainStep, Enter, IInv, TypeOK, ThreadTypes, Stage
<1>3. \A q \in Each \ {p} :
        /\ plugin'[q] = plugin[q] /\ result'[q] = result[q] /\ conn'[q] = conn[q]
        /\ request'[q] = request[q] /\ cut'[q] = cut[q]
  BY DEF DrainStep, Enter, IInv, TypeOK, ThreadTypes
<1>4. plugin[p] = "over" => plugin'[p] = "over" /\ result'[p] = result[p]
  BY DEF DrainStep
<1>5. Reported(p)'
  BY DEF DrainStep, Enter, IInv, TypeOK, ThreadTypes, DrainInv, Reported
<1> QED
  BY <1>1, <1>2, <1>3, <1>4, <1>5, PluginMoves

LEMMA CountStrandedKeeps ==
  ASSUME NEW p \in Each, IInv, exit = Running, CountStranded(p)
  PROVE  IInv'
<1>1. UNCHANGED <<control, signals, observer, sapi, exit>>
  BY DEF CountStranded, Report
<1>2. ThreadTypes'
  <2>1. plugin' \in [Each -> Stage]
    BY DEF CountStranded, Report, Enter, Stranded, IInv, TypeOK, ThreadTypes,
         Stage
  <2>2. result' \in [Each -> {"ok", "error"}]
    BY DEF CountStranded, Report, Enter, Stranded, IInv, TypeOK, ThreadTypes
  <2> QED
    BY <2>1, <2>2 DEF CountStranded, Report, IInv, TypeOK, ThreadTypes
<1>3. \A q \in Each \ {p} :
        /\ plugin'[q] = plugin[q] /\ result'[q] = result[q] /\ conn'[q] = conn[q]
        /\ request'[q] = request[q] /\ cut'[q] = cut[q]
  BY DEF CountStranded, Report, Enter, Stranded, IInv, TypeOK, ThreadTypes
<1>4. plugin[p] = "over" => plugin'[p] = "over" /\ result'[p] = result[p]
  BY DEF CountStranded
<1>5. Reported(p)'
  BY DEF CountStranded, Report, Enter, Stranded, IInv, TypeOK, ThreadTypes,
       DrainInv, Reported
<1> QED
  BY <1>1, <1>2, <1>3, <1>4, <1>5, PluginMoves

LEMMA GrpcDrainedKeeps ==
  ASSUME NEW p \in Each, IInv, exit = Running, GrpcDrained(p)
  PROVE  IInv'
<1>1. UNCHANGED <<control, signals, observer, sapi, exit>>
  BY DEF GrpcDrained, Report
<1>2. ThreadTypes'
  <2>1. plugin' \in [Each -> Stage]
    BY DEF GrpcDrained, Report, Enter, IInv, TypeOK, ThreadTypes, Stage
  <2>2. result' \in [Each -> {"ok", "error"}]
    BY DEF GrpcDrained, Report, Enter, IInv, TypeOK, ThreadTypes
  <2> QED
    BY <2>1, <2>2 DEF GrpcDrained, Report, IInv, TypeOK, ThreadTypes
<1>3. \A q \in Each \ {p} :
        /\ plugin'[q] = plugin[q] /\ result'[q] = result[q] /\ conn'[q] = conn[q]
        /\ request'[q] = request[q] /\ cut'[q] = cut[q]
  BY DEF GrpcDrained, Report, Enter, IInv, TypeOK, ThreadTypes
<1>4. plugin[p] = "over" => plugin'[p] = "over" /\ result'[p] = result[p]
  BY DEF GrpcDrained
<1>5. Reported(p)'
  BY DEF GrpcDrained, Report, Enter, IInv, TypeOK, ThreadTypes, DrainInv, Reported
<1> QED
  BY <1>1, <1>2, <1>3, <1>4, <1>5, PluginMoves

LEMMA DropRuntimeKeeps ==
  ASSUME NEW p \in Each, IInv, exit = Running, DropRuntime(p)
  PROVE  IInv'
<1>1. UNCHANGED <<control, signals, observer, sapi, exit>>
  BY DEF DropRuntime
<1>2. ThreadTypes'
  <2>1. plugin' \in [Each -> Stage]
    BY DEF DropRuntime, Enter, IInv, TypeOK, ThreadTypes, Stage
  <2>2. cut' \in [Each -> BOOLEAN]
    BY DEF DropRuntime, IInv, TypeOK, ThreadTypes
  <2>3. conn' \in [Each -> {"none", "http1", "http2"}]
    BY DEF DropRuntime, IInv, TypeOK, ThreadTypes
  <2>4. request' \in [Each -> {"none", "counted", "late"}]
    BY DEF DropRuntime, IInv, TypeOK, ThreadTypes
  <2> QED
    BY <2>1, <2>2, <2>3, <2>4 DEF DropRuntime, IInv, TypeOK, ThreadTypes
<1>3. \A q \in Each \ {p} :
        /\ plugin'[q] = plugin[q] /\ result'[q] = result[q] /\ conn'[q] = conn[q]
        /\ request'[q] = request[q] /\ cut'[q] = cut[q]
  BY DEF DropRuntime, Enter, IInv, TypeOK, ThreadTypes
<1>4. plugin[p] = "over" => plugin'[p] = "over" /\ result'[p] = result[p]
  BY DEF DropRuntime
<1>5. Reported(p)'
  BY DEF DropRuntime, Enter, IInv, TypeOK, ThreadTypes, DrainInv, Reported
<1> QED
  BY <1>1, <1>2, <1>3, <1>4, <1>5, PluginMoves

LEMMA ConnectKeeps ==
  ASSUME NEW p \in Each, IInv, exit = Running, Connect(p)
  PROVE  IInv'
<1>1. UNCHANGED <<control, signals, observer, sapi, exit>>
  BY DEF Connect
<1>2. ThreadTypes'
  BY DEF Connect, IInv, TypeOK, ThreadTypes
<1>3. \A q \in Each \ {p} :
        /\ plugin'[q] = plugin[q] /\ result'[q] = result[q] /\ conn'[q] = conn[q]
        /\ request'[q] = request[q] /\ cut'[q] = cut[q]
  BY DEF Connect, IInv, TypeOK, ThreadTypes
<1>4. plugin[p] = "over" => plugin'[p] = "over" /\ result'[p] = result[p]
  BY DEF Connect
<1>5. Reported(p)'
  BY DEF Connect, IInv, TypeOK, ThreadTypes, DrainInv, Reported
<1> QED
  BY <1>1, <1>2, <1>3, <1>4, <1>5, PluginMoves

LEMMA BeginRequestKeeps ==
  ASSUME NEW p \in Each, IInv, exit = Running, BeginRequest(p)
  PROVE  IInv'
<1>1. UNCHANGED <<control, signals, observer, sapi, exit>>
  BY DEF BeginRequest
<1>2. ThreadTypes'
  BY DEF BeginRequest, IInv, TypeOK, ThreadTypes
<1>3. \A q \in Each \ {p} :
        /\ plugin'[q] = plugin[q] /\ result'[q] = result[q] /\ conn'[q] = conn[q]
        /\ request'[q] = request[q] /\ cut'[q] = cut[q]
  BY DEF BeginRequest, IInv, TypeOK, ThreadTypes
<1>4. plugin[p] = "over" => plugin'[p] = "over" /\ result'[p] = result[p]
  BY DEF BeginRequest
<1>5. Reported(p)'
  BY DEF BeginRequest, IInv, TypeOK, ThreadTypes, DrainInv, Reported
<1> QED
  BY <1>1, <1>2, <1>3, <1>4, <1>5, PluginMoves

LEMMA EndRequestKeeps ==
  ASSUME NEW p \in Each, IInv, exit = Running, EndRequest(p)
  PROVE  IInv'
<1>1. UNCHANGED <<control, signals, observer, sapi, exit>>
  BY DEF EndRequest
<1>2. ThreadTypes'
  BY DEF EndRequest, IInv, TypeOK, ThreadTypes
<1>3. \A q \in Each \ {p} :
        /\ plugin'[q] = plugin[q] /\ result'[q] = result[q] /\ conn'[q] = conn[q]
        /\ request'[q] = request[q] /\ cut'[q] = cut[q]
  BY DEF EndRequest, IInv, TypeOK, ThreadTypes
<1>4. plugin[p] = "over" => plugin'[p] = "over" /\ result'[p] = result[p]
  BY DEF EndRequest
<1>5. Reported(p)'
  BY DEF EndRequest, IInv, TypeOK, ThreadTypes, DrainInv, Reported
<1> QED
  BY <1>1, <1>2, <1>3, <1>4, <1>5, PluginMoves

LEMMA DisconnectKeeps ==
  ASSUME NEW p \in Each, IInv, exit = Running, Disconnect(p)
  PROVE  IInv'
<1>1. UNCHANGED <<control, signals, observer, sapi, exit>>
  BY DEF Disconnect
<1>2. ThreadTypes'
  <2>1. conn' \in [Each -> {"none", "http1", "http2"}]
    BY DEF Disconnect, IInv, TypeOK, ThreadTypes
  <2>2. request' \in [Each -> {"none", "counted", "late"}]
    BY DEF Disconnect, IInv, TypeOK, ThreadTypes
  <2> QED
    BY <2>1, <2>2 DEF Disconnect, IInv, TypeOK, ThreadTypes
<1>3. \A q \in Each \ {p} :
        /\ plugin'[q] = plugin[q] /\ result'[q] = result[q] /\ conn'[q] = conn[q]
        /\ request'[q] = request[q] /\ cut'[q] = cut[q]
  BY DEF Disconnect, IInv, TypeOK, ThreadTypes
<1>4. plugin[p] = "over" => plugin'[p] = "over" /\ result'[p] = result[p]
  BY DEF Disconnect
<1>5. Reported(p)'
  BY DEF Disconnect, IInv, TypeOK, ThreadTypes, DrainInv, Reported
<1> QED
  BY <1>1, <1>2, <1>3, <1>4, <1>5, PluginMoves

-----------------------------------------------------------------------------
(* The theorems.                                                           *)

LEMMA MainKeeps ==
  ASSUME IInv, exit = Running, Startup \/ Shutdown
  PROVE  IInv'
<1>1. CASE Startup
  BY <1>1, StartObserverKeeps, StartPoolKeeps, AbandonPoolKeeps, StartPluginKeeps DEF Startup
<1>2. CASE Shutdown
  BY <1>2, StopPollingKeeps, ArmTimerKeeps, TellPluginsKeeps, JoinPluginKeeps,
     JoinObserverKeeps, StopPoolsKeeps, JoinPoolKeeps, DropModuleKeeps, ReturnKeeps
     DEF Shutdown
<1> QED
  BY <1>1, <1>2

LEMMA PluginKeeps ==
  ASSUME NEW p \in Each, IInv, exit = Running, Plugin(p) \/ Traffic(p) \/ Php(p)
  PROVE  IInv'
<1>1. CASE Plugin(p)
  BY <1>1, StopAcceptingKeeps, GracePassesKeeps, DrainStepKeeps, CountStrandedKeeps,
     GrpcDrainedKeeps, DropRuntimeKeeps DEF Plugin
<1>2. CASE Traffic(p)
  BY <1>2, ConnectKeeps, BeginRequestKeeps, EndRequestKeeps, DisconnectKeeps DEF Traffic
<1>3. CASE Php(p)
  BY <1>3, BootFailsKeeps, ThreadEndsKeeps DEF Php
<1> QED
  BY <1>1, <1>2, <1>3

LEMMA NextKeeps ==
  ASSUME IInv, [Next]_vars
  PROVE  IInv'
<1>1. CASE UNCHANGED vars
  <2>1. MainTypes' /\ FlagTypes' /\ ThreadTypes'
    BY <1>1 DEF vars, IInv, TypeOK, MainTypes, FlagTypes, ThreadTypes
  <2>2. PlaceInv' /\ JoinInv' /\ DrainInv' /\ ModuleInv' /\ ExitCodeTells'
    BY <1>1 DEF vars, IInv, PlaceInv, JoinInv, PastPlugins, Joined, DrainInv, Reported,
                ModuleInv, ModuleOutlivesThreads, ExitCodeTells
  <2> QED
    BY <2>1, <2>2 DEF IInv, TypeOK
<1>2. CASE exit = Running /\ (Startup \/ Shutdown)
  BY <1>2, MainKeeps
<1>3. CASE exit = Running /\ (Console \/ DeadlinePasses \/ TimerFires \/ ObserverEnds)
  BY <1>3, ConsoleKeeps, DeadlinePassesKeeps, TimerFiresKeeps, ObserverEndsKeeps
<1>4. CASE exit = Running /\ \E p \in Each : Plugin(p) \/ Traffic(p) \/ Php(p)
  BY <1>4, PluginKeeps
<1> QED
  BY <1>1, <1>2, <1>3, <1>4 DEF Next

\* The inductive invariant holds of every behaviour of serve() and of the
\* threads that it starts (src/worker.rs).
THEOREM ServerInvariance == Spec => []IInv
<1> QED
  BY InitKeeps, NextKeeps, PTL DEF Spec

\* Every stage, flag, place of main and exit code stays in its type.
THEOREM ServerTypeCorrect == Spec => []TypeOK
<1>1. IInv => TypeOK
  BY DEF IInv
<1> QED
  BY <1>1, ServerInvariance, PTL

\* The code that serve() decides at its end hides nothing of what happened
\* before in other threads (src/worker.rs).
THEOREM ExitCodeIsTrue == Spec => []ExitCodeTells
<1>1. IInv => ExitCodeTells
  BY DEF IInv
<1> QED
  BY <1>1, ServerInvariance, PTL

\* PHP is shut down after the last of its threads, joined or abandoned
\* (src/worker.rs, the drop of the PHP module).
THEOREM PhpGoesLast == Spec => []ModuleOutlivesThreads
<1>1. IInv => ModuleOutlivesThreads
  BY DEF IInv, ModuleInv
<1> QED
  BY <1>1, ServerInvariance, PTL

-----------------------------------------------------------------------------
(* The pid file of Startup, for every set of processes and every list of   *)
(* listeners.  The inductive invariant PidInv says which stages have the   *)
(* file open, and that there is at most one process in them.               *)

ProcessStage ==
  {"off", "created", "boot", "serving", "leaving", "dropped", "closed", "ended", "killed"}

\* The stages in which a process owns a pid file that names it.
Owning == {"boot", "serving", "leaving", "dropped"}

StartupTyped ==
  /\ stage \in [Processes -> ProcessStage]
  /\ pidfile \in Processes \cup {"none", "empty"}
  /\ lock \in Processes \cup {"none"}
  /\ bound \in [Addresses -> Processes \cup {"none", "foreign"}]
  /\ unlinked \in SUBSET Processes

\* The file is open in exactly the process between its creation and its close.
FileInv ==
  /\ \A p \in Processes : stage[p] = "created" => lock = p /\ pidfile = "empty"
  /\ \A p \in Processes : stage[p] \in Owning => lock = p /\ pidfile = p
  /\ lock \in Processes => stage[lock] \in Owning \cup {"created"}

\* Only a process that owns its file has a listener.
BoundInv ==
  \A a \in Addresses : bound[a] \in Processes => stage[bound[a]] \in Owning \ {"dropped"}

LeftInv ==
  \A p \in Processes :
    pidfile = p /\ lock = "none" => p \in unlinked \/ stage[p] \in {"closed", "killed"}

PidInv == StartupTyped /\ FileInv /\ BoundInv /\ LeftInv

LEMMA StartupInitKeeps == StartupInit => PidInv
BY StartupConstants
DEF StartupInit, PidInv, StartupTyped, FileInv, BoundInv, LeftInv, ProcessStage, Owning

\* A process moves, and neither its file nor its listeners with it.
LEMMA MoveKeeps ==
  ASSUME PidInv, NEW p \in Processes, NEW s \in ProcessStage, MoveTo(p, s),
         UNCHANGED <<pidfile, lock, bound, unlinked>>,
         \/ stage[p] = "off" /\ s = "ended"
         \/ stage[p] \in Owning \ {"dropped"} /\ s \in Owning \ {"dropped"}
  PROVE  PidInv'
<1>1. stage' \in [Processes -> ProcessStage] /\ stage'[p] = s
      /\ \A q \in Processes \ {p} : stage'[q] = stage[q]
  BY DEF PidInv, StartupTyped, MoveTo
<1>2. StartupTyped'
  BY <1>1 DEF PidInv, StartupTyped
<1>3. FileInv' /\ BoundInv'
  BY <1>1, StartupConstants DEF PidInv, FileInv, BoundInv, Owning, StartupTyped, Addresses
<1>4. LeftInv'
  BY <1>1, StartupConstants DEF PidInv, FileInv, LeftInv, Owning, StartupTyped
<1> QED
  BY <1>2, <1>3, <1>4 DEF PidInv

LEMMA CreateKeeps ==
  ASSUME PidInv, NEW p \in Processes, Create(p)
  PROVE  PidInv'
<1>1. CASE pidfile = "none"
  <2>1. stage' \in [Processes -> ProcessStage] /\ stage'[p] = "created"
        /\ \A q \in Processes \ {p} : stage'[q] = stage[q]
    BY <1>1 DEF Create, PidInv, StartupTyped, MoveTo, ProcessStage
  <2>2. lock = "none"
    BY <1>1, StartupConstants DEF PidInv, StartupTyped, FileInv, Owning
  <2>3. pidfile' = "empty" /\ lock' = p /\ UNCHANGED <<bound, unlinked>>
    BY <1>1 DEF Create
  <2>4. StartupTyped'
    BY <2>1, <2>3 DEF PidInv, StartupTyped
  <2>5. FileInv'
    BY <2>1, <2>2, <2>3, StartupConstants DEF PidInv, FileInv, Owning
  <2>6. BoundInv' /\ LeftInv'
    BY <2>1, <2>3, StartupConstants
    DEF PidInv, FileInv, BoundInv, LeftInv, Owning, Addresses, Create
  <2> QED
    BY <2>4, <2>5, <2>6 DEF PidInv
<1>2. CASE pidfile # "none"
  BY <1>2, MoveKeeps DEF Create, ProcessStage
<1> QED
  BY <1>1, <1>2

LEMMA WriteKeeps ==
  ASSUME PidInv, NEW p \in Processes, Write(p)
  PROVE  PidInv'
<1>1. stage[p] = "created" /\ lock = p /\ pidfile = "empty" /\ UNCHANGED <<bound, unlinked>>
  BY DEF Write, PidInv, FileInv
<1>2. PICK s \in {"boot", "closed"} :
        /\ MoveTo(p, s)
        /\ IF s = "boot" THEN pidfile' = p /\ lock' = lock ELSE lock' = "none" /\ pidfile' = pidfile
  BY DEF Write
<1>3. stage' \in [Processes -> ProcessStage] /\ stage'[p] = s
      /\ \A q \in Processes \ {p} : stage'[q] = stage[q]
  BY <1>2 DEF PidInv, StartupTyped, MoveTo, ProcessStage
<1>4. StartupTyped'
  BY <1>1, <1>2, <1>3 DEF PidInv, StartupTyped
<1>5. FileInv' /\ LeftInv'
  BY <1>1, <1>2, <1>3, StartupConstants DEF PidInv, FileInv, LeftInv, Owning
<1>6. BoundInv'
  BY <1>1, <1>3, StartupConstants DEF PidInv, FileInv, BoundInv, Owning, Addresses
<1> QED
  BY <1>4, <1>5, <1>6 DEF PidInv

LEMMA BindKeeps ==
  ASSUME PidInv, NEW p \in Processes, Bind(p)
  PROVE  PidInv'
<1> DEFINE a == Listeners[NextListener(p)]
<1>1. CASE bound[a] = "none"
  <2>1. bound' = [bound EXCEPT ![a] = p] /\ UNCHANGED <<stage, pidfile, lock, unlinked>>
    BY <1>1 DEF Bind
  <2>2. \A b \in Addresses : bound'[b] = bound[b] \/ bound'[b] = p
    BY <2>1 DEF PidInv, StartupTyped
  <2>3. StartupTyped'
    BY <2>1, <2>2 DEF PidInv, StartupTyped, Addresses
  <2>4. FileInv' /\ LeftInv'
    BY <2>1 DEF PidInv, FileInv, LeftInv
  <2>5. BoundInv'
    BY <2>1, <2>2 DEF Bind, PidInv, BoundInv, Owning, Addresses
  <2> QED
    BY <2>3, <2>4, <2>5 DEF PidInv
<1>2. CASE bound[a] # "none"
  BY <1>2, MoveKeeps DEF Bind, ProcessStage, Owning
<1> QED
  BY <1>1, <1>2

LEMMA DropKeeps ==
  ASSUME PidInv, NEW p \in Processes, DropPlugins(p)
  PROVE  PidInv'
<1>1. stage' \in [Processes -> ProcessStage] /\ stage'[p] = "dropped"
      /\ \A q \in Processes \ {p} : stage'[q] = stage[q]
  BY DEF DropPlugins, PidInv, StartupTyped, MoveTo, ProcessStage
<1>2. UNCHANGED <<pidfile, lock, unlinked>> /\ stage[p] = "leaving"
  BY DEF DropPlugins
<1>3. \A b \in Addresses : bound'[b] = "none" \/ (bound'[b] = bound[b] /\ bound[b] # p)
  BY DEF DropPlugins, Release, PidInv, StartupTyped
<1>4. bound' \in [Addresses -> Processes \cup {"none", "foreign"}]
  BY DEF DropPlugins, Release, PidInv, StartupTyped, Addresses
<1>5. StartupTyped' /\ FileInv' /\ LeftInv'
  BY <1>1, <1>2, <1>4, StartupConstants
  DEF PidInv, StartupTyped, FileInv, LeftInv, Owning, Addresses
<1>6. BoundInv'
  BY <1>1, <1>3, StartupConstants DEF PidInv, BoundInv, Owning, Addresses
<1> QED
  BY <1>5, <1>6 DEF PidInv

LEMMA CloseKeeps ==
  ASSUME PidInv, NEW p \in Processes, CloseFile(p)
  PROVE  PidInv'
<1>1. stage' \in [Processes -> ProcessStage] /\ stage'[p] = "closed"
      /\ \A q \in Processes \ {p} : stage'[q] = stage[q]
  BY DEF CloseFile, PidInv, StartupTyped, MoveTo, ProcessStage
<1>2. /\ lock' = "none" /\ UNCHANGED <<pidfile, bound, unlinked>>
      /\ lock = p /\ pidfile = p /\ stage[p] = "dropped"
  BY DEF CloseFile, PidInv, FileInv, Owning
<1>3. StartupTyped' /\ FileInv' /\ LeftInv'
  BY <1>1, <1>2, StartupConstants DEF PidInv, StartupTyped, FileInv, LeftInv, Owning, Addresses
<1>4. BoundInv'
  BY <1>1, <1>2, StartupConstants DEF PidInv, BoundInv, Owning, Addresses
<1> QED
  BY <1>3, <1>4 DEF PidInv

LEMMA RemoveKeeps ==
  ASSUME PidInv, NEW p \in Processes, RemoveFile(p)
  PROVE  PidInv'
<1>1. stage' \in [Processes -> ProcessStage] /\ stage'[p] = "ended"
      /\ \A q \in Processes \ {p} : stage'[q] = stage[q]
  BY DEF RemoveFile, PidInv, StartupTyped, MoveTo, ProcessStage
<1>2. UNCHANGED <<lock, bound>> /\ stage[p] = "closed"
  BY DEF RemoveFile
<1>3. BoundInv'
  BY <1>1, <1>2, StartupConstants DEF PidInv, BoundInv, Owning, Addresses
<1>4. CASE Removable /\ pidfile' = "none" /\ UNCHANGED unlinked
  <2>1. StartupTyped' /\ FileInv' /\ LeftInv'
    BY <1>1, <1>2, <1>4, StartupConstants
    DEF PidInv, StartupTyped, FileInv, LeftInv, Owning, Removable, Addresses
  <2> QED
    BY <1>3, <2>1 DEF PidInv
<1>5. CASE unlinked' = unlinked \cup {p} /\ UNCHANGED pidfile
  <2>1. StartupTyped' /\ FileInv' /\ LeftInv'
    BY <1>1, <1>2, <1>5, StartupConstants
  DEF PidInv, StartupTyped, FileInv, LeftInv, Owning, Addresses
  <2> QED
    BY <1>3, <2>1 DEF PidInv
<1> QED
  BY <1>4, <1>5 DEF RemoveFile

LEMMA KilledKeeps ==
  ASSUME PidInv, NEW p \in Processes, Killed(p)
  PROVE  PidInv'
<1>1. stage' \in [Processes -> ProcessStage] /\ stage'[p] = "killed"
      /\ \A q \in Processes \ {p} : stage'[q] = stage[q]
  BY DEF Killed, PidInv, StartupTyped, MoveTo, ProcessStage
<1>2. UNCHANGED <<pidfile, unlinked>> /\ lock' = (IF lock = p THEN "none" ELSE lock)
  BY DEF Killed
<1>3. \A b \in Addresses : bound'[b] = "none" \/ (bound'[b] = bound[b] /\ bound[b] # p)
  BY DEF Killed, Release, PidInv, StartupTyped
<1>4. bound' \in [Addresses -> Processes \cup {"none", "foreign"}]
  BY DEF Killed, Release, PidInv, StartupTyped, Addresses
<1>5. StartupTyped' /\ FileInv' /\ LeftInv'
  BY <1>1, <1>2, <1>4, StartupConstants
  DEF PidInv, StartupTyped, FileInv, LeftInv, Owning, Addresses
<1>6. BoundInv'
  BY <1>1, <1>3, StartupConstants DEF PidInv, BoundInv, Owning, Addresses
<1> QED
  BY <1>5, <1>6 DEF PidInv

LEMMA DeleteKeeps == PidInv /\ OperatorDeletes => PidInv'
BY StartupConstants
DEF OperatorDeletes, Removable, PidInv, StartupTyped, FileInv, BoundInv, LeftInv, Owning, Addresses

\* Only one process at a time is between its boot and its end, whatever others
\* start beside it (pidfile.rs, create_new and the sharing mode).
THEOREM StartupInvariance == StartupSpec => []PidInv
<1>1. PidInv /\ [StartupNext]_startup_vars => PidInv'
  <2> SUFFICES ASSUME PidInv, [StartupNext]_startup_vars PROVE PidInv'
    OBVIOUS
  <2>1. ASSUME NEW p \in Processes, PrepareFails(p) \/ StartServing(p) \/ ServeReturns(p)
        PROVE  PidInv'
    BY <2>1, MoveKeeps DEF PrepareFails, StartServing, ServeReturns, ProcessStage, Owning
  <2>2. CASE UNCHANGED startup_vars
    BY <2>2 DEF startup_vars, PidInv, StartupTyped, FileInv, BoundInv, LeftInv, Addresses
  <2> QED
    BY <2>1, <2>2, CreateKeeps, WriteKeeps, BindKeeps, DropKeeps, CloseKeeps, RemoveKeeps,
       KilledKeeps, DeleteKeeps
    DEF StartupNext
<1> QED
  BY <1>1, StartupInitKeeps, PTL DEF StartupSpec

\* Whoever listens is named by the pid file and has it open, for any number of
\* processes that share a configuration, through failed starts, kills and an
\* operator who deletes the file; and a file that nobody has open was left by a
\* process that was killed or could not remove it (pidfile.rs, main.rs).
THEOREM PidFileIsTrue == StartupSpec => []PidFileTells
<1>1. PidInv => PidFileTells
  BY DEF PidInv, FileInv, BoundInv, LeftInv, PidFileTells, Owning
<1> QED
  BY <1>1, StartupInvariance, PTL
=============================================================================
