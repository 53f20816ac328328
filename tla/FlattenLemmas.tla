--------------------------- MODULE FlattenLemmas ---------------------------
(***************************************************************************)
(* What FlattenSeq of the community modules does, for sequences of every   *)
(* length: its local recursive function exists and is unique, it is the    *)
(* join of the parts, and it may be taken from the head or from the tail.  *)
(* The inductions are over sets, by WFMin.                                 *)
(***************************************************************************)
EXTENDS SequencesExt, SequenceTheorems, WellFoundedInduction, TLAPS

(***************************************************************************)
(* Induction over the naturals, for a set instead of a predicate.          *)
(***************************************************************************)
LEMMA SetInduction ==
  ASSUME NEW T, 0 \in T, \A n \in Nat : n \in T => n + 1 \in T
  PROVE  Nat \subseteq T
<1> DEFINE R == {ss \in Nat \X Nat : ss[1] < ss[2]}
           B == Nat \ T
<1> SUFFICES ASSUME B # {} PROVE FALSE
  OBVIOUS
<1>1. IsWellFoundedOn(R, Nat)
  BY NatLessThanWellFounded DEF OpToRel
<1>2. B \subseteq Nat
  OBVIOUS
<1>3. PICK x \in B : \A y \in B : ~(<<y, x>> \in R)
  <2> HIDE DEF B, R
  <2> QED
    BY <1>1, <1>2, WFMin
<1>4. x \in Nat \ {0} /\ x - 1 \in Nat /\ x - 1 < x /\ (x - 1) + 1 = x
  OBVIOUS
<1>5. x - 1 \in B
  BY <1>4
<1> QED
  BY <1>3, <1>4, <1>5

-----------------------------------------------------------------------------
(* FlattenSeq.                                                             *)

\* Its local function: f[i] is the first i sequences, joined.
Joins(f, ss, n) == f = [i \in 1 .. n |-> IF i = 1 THEN ss[i] ELSE f[i - 1] \o ss[i]]

\* There is such a function, for every sequence of sequences.
LEMMA JoinsExists ==
  ASSUME NEW ss, NEW n \in Nat
  PROVE  \E f : Joins(f, ss, n)
<1> DEFINE T == {m \in Nat : \E f : Joins(f, ss, m)}
<1>1. 0 \in T
  <2>1. Joins([i \in 1 .. 0 |-> 0], ss, 0)
    BY DEF Joins
  <2> QED
    BY <2>1
<1>2. ASSUME NEW m \in Nat, m \in T PROVE m + 1 \in T
  <2>1. PICK f : Joins(f, ss, m)
    BY <1>2
  <2> DEFINE last == IF m = 0 THEN ss[1] ELSE f[m] \o ss[m + 1]
             g == [i \in 1 .. m + 1 |-> IF i = m + 1 THEN last ELSE f[i]]
  <2>2. ASSUME NEW i \in 1 .. m + 1
        PROVE  g[i] = IF i = 1 THEN ss[i] ELSE g[i - 1] \o ss[i]
    <3>1. CASE i = m + 1
      <4>1. CASE m = 0
        BY <3>1, <4>1
      <4>2. CASE m # 0
        <5>1. i # 1 /\ i - 1 = m /\ m \in 1 .. m + 1 /\ m # m + 1
          BY <3>1, <4>2
        <5>2. g[m] = f[m] /\ g[i] = f[m] \o ss[m + 1]
          BY <3>1, <4>2, <5>1
        <5> QED
          BY <3>1, <5>1, <5>2
      <4> QED
        BY <4>1, <4>2
    <3>2. CASE i # m + 1
      <4>1. i \in 1 .. m /\ g[i] = f[i]
        BY <3>2
      <4>2. f[i] = IF i = 1 THEN ss[i] ELSE f[i - 1] \o ss[i]
        BY <2>1, <4>1 DEF Joins
      <4>3. i # 1 => i - 1 \in 1 .. m + 1 /\ i - 1 # m + 1
        BY <4>1
      <4> QED
        BY <4>1, <4>2, <4>3
    <3> QED
      BY <3>1, <3>2
  <2>3. g = [i \in 1 .. m + 1 |-> g[i]]
    OBVIOUS
  <2>4. Joins(g, ss, m + 1)
    <3> HIDE DEF g
    <3> QED
      BY <2>2, <2>3 DEF Joins
  <2> QED
    BY <2>4
<1>3. Nat \subseteq T
  <2> HIDE DEF T
  <2> QED
    BY <1>1, <1>2, SetInduction
<1> QED
  BY <1>3

\* FlattenSeq is its last value.
LEMMA FlattenIs ==
  ASSUME NEW ss, Len(ss) \in Nat
  PROVE  \E f : /\ Joins(f, ss, Len(ss))
                /\ FlattenSeq(ss) = IF Len(ss) = 0 THEN ss ELSE f[Len(ss)]
<1> DEFINE fl == CHOOSE f : Joins(f, ss, Len(ss))
<1>1. Joins(fl, ss, Len(ss))
  BY JoinsExists
<1>2. FlattenSeq(ss) = IF Len(ss) = 0 THEN ss ELSE fl[Len(ss)]
  BY DEF FlattenSeq, Joins
<1> QED
  BY <1>1, <1>2

\* Where two sequences begin alike so do their joins.
LEMMA JoinsAgree ==
  ASSUME NEW ss, NEW tt, NEW n \in Nat, NEW m \in Nat, NEW f, NEW g,
         n <= m, \A i \in 1 .. n : tt[i] = ss[i], Joins(f, ss, n), Joins(g, tt, m)
  PROVE  \A i \in 1 .. n : f[i] = g[i]
<1> DEFINE T == {i \in Nat : i \in 1 .. n => f[i] = g[i]}
<1>1. 0 \in T
  OBVIOUS
<1>2. ASSUME NEW i \in Nat, i \in T PROVE i + 1 \in T
  <2> SUFFICES ASSUME i + 1 \in 1 .. n PROVE f[i + 1] = g[i + 1]
    OBVIOUS
  <2>1. i + 1 \in 1 .. n /\ i + 1 \in 1 .. m /\ (i + 1) - 1 = i /\ (i + 1 # 1 => i \in 1 .. n)
        /\ tt[i + 1] = ss[i + 1]
    OBVIOUS
  <2>2. /\ f[i + 1] = IF i + 1 = 1 THEN ss[i + 1] ELSE f[(i + 1) - 1] \o ss[i + 1]
        /\ g[i + 1] = IF i + 1 = 1 THEN tt[i + 1] ELSE g[(i + 1) - 1] \o tt[i + 1]
    BY <2>1 DEF Joins
  <2>3. i + 1 # 1 => f[i] = g[i]
    BY <1>2, <2>1
  <2> QED
    BY <2>1, <2>2, <2>3
<1>3. Nat \subseteq T
  <2> HIDE DEF T
  <2> QED
    BY <1>1, <1>2, SetInduction
<1> QED
  BY <1>3

\* Nothing joined is nothing.
LEMMA FlattenEmpty == FlattenSeq(<<>>) = <<>>
  BY FlattenIs

\* One more sequence is joined at the end.
LEMMA FlattenLonger ==
  ASSUME NEW n \in Nat, NEW ss, NEW tt, Len(ss) = n, Len(tt) = n + 1,
         \A i \in 1 .. n : tt[i] = ss[i]
  PROVE  FlattenSeq(tt) = IF n = 0 THEN tt[n + 1] ELSE FlattenSeq(ss) \o tt[n + 1]
<1>1. PICK f : Joins(f, ss, n) /\ FlattenSeq(ss) = IF n = 0 THEN ss ELSE f[n]
  BY FlattenIs
<1>2. PICK g : Joins(g, tt, n + 1) /\ FlattenSeq(tt) = g[n + 1]
  <2>1. n + 1 \in Nat /\ n + 1 # 0
    OBVIOUS
  <2> QED
    BY <2>1, FlattenIs
<1>3. g[n + 1] = IF n = 0 THEN tt[n + 1] ELSE g[n] \o tt[n + 1]
  <2>1. n + 1 \in 1 .. n + 1 /\ (n + 1) - 1 = n /\ (n + 1 = 1 <=> n = 0)
    OBVIOUS
  <2>2. g[n + 1] = IF n + 1 = 1 THEN tt[n + 1] ELSE g[(n + 1) - 1] \o tt[n + 1]
    BY <1>2, <2>1 DEF Joins
  <2> QED
    BY <2>1, <2>2
<1>4. n + 1 \in Nat /\ n <= n + 1
  OBVIOUS
<1>5. \A i \in 1 .. n : f[i] = g[i]
  BY <1>1, <1>2, <1>4, JoinsAgree
<1> QED
  BY <1>1, <1>2, <1>3, <1>5

\* The join of Append.
LEMMA FlattenAppend ==
  ASSUME NEW S, NEW ss \in Seq(Seq(S)), NEW s \in Seq(S)
  PROVE  FlattenSeq(Append(ss, s)) = FlattenSeq(ss) \o s
<1> DEFINE tt == Append(ss, s)
           n == Len(ss)
<1>1. /\ n \in Nat /\ Len(tt) = n + 1 /\ tt[n + 1] = s
      /\ \A i \in 1 .. n : tt[i] = ss[i]
  BY AppendProperties, LenProperties
<1>2. FlattenSeq(tt) = IF n = 0 THEN s ELSE FlattenSeq(ss) \o s
  <2> HIDE DEF tt
  <2> QED
    BY <1>1, FlattenLonger
<1>3. CASE n = 0
  <2>1. ss = <<>>
    BY <1>3, EmptySeq
  <2> QED
    BY <1>2, <1>3, <2>1, FlattenEmpty, ConcatEmptySeq
<1>4. CASE n # 0
  BY <1>2, <1>4
<1> QED
  BY <1>3, <1>4

\* What is joined is a sequence; by induction on how many are joined, a
\* longer one being a shorter one and one more.
LEMMA FlattenType ==
  ASSUME NEW S, NEW ss \in Seq(Seq(S))
  PROVE  FlattenSeq(ss) \in Seq(S)
<1> DEFINE T == {n \in Nat : \A tt \in Seq(Seq(S)) : Len(tt) = n => FlattenSeq(tt) \in Seq(S)}
<1>1. 0 \in T
  <2> SUFFICES ASSUME NEW tt \in Seq(Seq(S)), Len(tt) = 0 PROVE FlattenSeq(tt) \in Seq(S)
    OBVIOUS
  <2>1. tt = <<>>
    BY EmptySeq
  <2> QED
    BY <2>1, FlattenEmpty, EmptySeq
<1>2. ASSUME NEW n \in Nat, n \in T PROVE n + 1 \in T
  <2> SUFFICES ASSUME NEW tt \in Seq(Seq(S)), Len(tt) = n + 1 PROVE FlattenSeq(tt) \in Seq(S)
    OBVIOUS
  <2>1. PICK uu \in Seq(Seq(S)), u \in Seq(S) : tt = Append(uu, u)
    <3>1. tt # <<>>
      BY EmptySeq
    <3> QED
      BY <3>1, SequenceEmptyOrAppend
  <2>2. Len(uu) = n
    BY <2>1, AppendProperties, LenProperties
  <2>3. FlattenSeq(uu) \in Seq(S)
    BY <1>2, <2>2
  <2> QED
    BY <2>1, <2>3, FlattenAppend, ConcatProperties
<1>3. Nat \subseteq T
  <2> HIDE DEF T
  <2> QED
    BY <1>1, <1>2, SetInduction
<1> QED
  BY <1>3, LenProperties

\* The head may be joined last.
HeadFirst(ss) == FlattenSeq(ss) = Head(ss) \o FlattenSeq(Tail(ss))

\* What is appended does not disturb the head.
LEMMA HeadFirstAppend ==
  ASSUME NEW S, NEW uu \in Seq(Seq(S)), uu # <<>>, NEW u \in Seq(S), HeadFirst(uu)
  PROVE  HeadFirst(Append(uu, u))
<1>1. Head(Append(uu, u)) = Head(uu) /\ Tail(Append(uu, u)) = Append(Tail(uu), u)
  BY HeadTailAppend
<1>2. Head(uu) \in Seq(S) /\ Tail(uu) \in Seq(Seq(S))
  BY HeadTailProperties
<1>3. FlattenSeq(Append(Tail(uu), u)) = FlattenSeq(Tail(uu)) \o u
  BY <1>2, FlattenAppend
<1>4. FlattenSeq(Append(uu, u)) = FlattenSeq(uu) \o u
  BY FlattenAppend
<1>5. PICK a \in Seq(S), b \in Seq(S) : a = Head(uu) /\ b = FlattenSeq(Tail(uu))
  BY <1>2, FlattenType
<1>6. (a \o b) \o u = a \o (b \o u)
  OBVIOUS
<1> QED
  BY <1>1, <1>3, <1>4, <1>5, <1>6 DEF HeadFirst

\* The head comes first, then the join of the others.
LEMMA FlattenHead ==
  ASSUME NEW S, NEW ss \in Seq(Seq(S)), ss # <<>>
  PROVE  FlattenSeq(ss) = Head(ss) \o FlattenSeq(Tail(ss))
<1> DEFINE T == {n \in Nat : \A tt \in Seq(Seq(S)) : Len(tt) = n /\ tt # <<>> => HeadFirst(tt)}
<1>1. 0 \in T
  BY EmptySeq
<1>2. ASSUME NEW n \in Nat, n \in T PROVE n + 1 \in T
  <2> SUFFICES ASSUME NEW tt \in Seq(Seq(S)), Len(tt) = n + 1, tt # <<>>
               PROVE  HeadFirst(tt)
    OBVIOUS
  <2>1. PICK uu \in Seq(Seq(S)), u \in Seq(S) : tt = Append(uu, u)
    BY SequenceEmptyOrAppend
  <2>2. Len(uu) = n
    BY <2>1, AppendProperties, LenProperties
  <2>3. CASE uu = <<>>
    <3>1. Head(tt) = u /\ Tail(tt) = <<>>
      BY <2>1, <2>3, HeadTailAppend
    <3>2. FlattenSeq(tt) = FlattenSeq(uu) \o u
      BY <2>1, FlattenAppend
    <3> QED
      BY <2>3, <3>1, <3>2, FlattenEmpty, ConcatEmptySeq DEF HeadFirst
  <2>4. CASE uu # <<>>
    <3>1. HeadFirst(uu)
      BY <1>2, <2>2, <2>4
    <3> QED
      BY <2>1, <2>4, <3>1, HeadFirstAppend
  <2> QED
    BY <2>3, <2>4
<1>3. Nat \subseteq T
  <2> HIDE DEF T
  <2> QED
    BY <1>1, <1>2, SetInduction
<1>4. HeadFirst(ss)
  BY <1>3, LenProperties
<1> QED
  BY <1>4 DEF HeadFirst

\* ss and tt may be joined each for itself.
FlattenSplit(ss, tt) == FlattenSeq(ss \o tt) = FlattenSeq(ss) \o FlattenSeq(tt)

\* One more sequence in the second part.
LEMMA FlattenSplitAppend ==
  ASSUME NEW S, NEW ss \in Seq(Seq(S)), NEW uu \in Seq(Seq(S)), NEW u \in Seq(S),
         FlattenSplit(ss, uu)
  PROVE  FlattenSplit(ss, Append(uu, u))
<1>1. ss \o Append(uu, u) = Append(ss \o uu, u)
  <2>1. ASSUME NEW U, NEW a \in Seq(U), NEW b \in Seq(U), NEW e \in U
        PROVE  a \o Append(b, e) = Append(a \o b, e)
    OBVIOUS
  <2> QED
    BY <2>1
<1>2. ss \o uu \in Seq(Seq(S))
  BY ConcatProperties
<1>3. FlattenSeq(Append(ss \o uu, u)) = FlattenSeq(ss \o uu) \o u
  BY <1>2, FlattenAppend
<1>4. FlattenSeq(Append(uu, u)) = FlattenSeq(uu) \o u
  BY FlattenAppend
<1>5. PICK a \in Seq(S), b \in Seq(S) : a = FlattenSeq(ss) /\ b = FlattenSeq(uu)
  BY FlattenType
<1>6. (a \o b) \o u = a \o (b \o u)
  OBVIOUS
<1> QED
  BY <1>1, <1>3, <1>4, <1>5, <1>6 DEF FlattenSplit

\* Sequences may be joined in two parts.
LEMMA FlattenConcat ==
  ASSUME NEW S, NEW ss \in Seq(Seq(S)), NEW tt \in Seq(Seq(S))
  PROVE  FlattenSeq(ss \o tt) = FlattenSeq(ss) \o FlattenSeq(tt)
<1> DEFINE T == {n \in Nat : \A rr \in Seq(Seq(S)) : Len(rr) = n => FlattenSplit(ss, rr)}
<1>1. 0 \in T
  <2> SUFFICES ASSUME NEW rr \in Seq(Seq(S)), Len(rr) = 0 PROVE FlattenSplit(ss, rr)
    OBVIOUS
  <2>1. rr = <<>>
    BY EmptySeq
  <2>2. FlattenSeq(ss) \in Seq(S)
    BY FlattenType
  <2>3. ss \o rr = ss /\ FlattenSeq(ss) \o <<>> = FlattenSeq(ss)
    BY <2>1, <2>2, ConcatEmptySeq
  <2> QED
    BY <2>1, <2>3, FlattenEmpty DEF FlattenSplit
<1>2. ASSUME NEW n \in Nat, n \in T PROVE n + 1 \in T
  <2> SUFFICES ASSUME NEW rr \in Seq(Seq(S)), Len(rr) = n + 1
               PROVE  FlattenSplit(ss, rr)
    OBVIOUS
  <2>1. PICK uu \in Seq(Seq(S)), u \in Seq(S) : rr = Append(uu, u)
    <3>1. rr # <<>>
      BY EmptySeq
    <3> QED
      BY <3>1, SequenceEmptyOrAppend
  <2>2. Len(uu) = n
    BY <2>1, AppendProperties, LenProperties
  <2>3. FlattenSplit(ss, uu)
    BY <1>2, <2>2
  <2> QED
    BY <2>1, <2>3, FlattenSplitAppend
<1>3. Nat \subseteq T
  <2> HIDE DEF T
  <2> QED
    BY <1>1, <1>2, SetInduction
<1>4. FlattenSplit(ss, tt)
  BY <1>3, LenProperties
<1> QED
  BY <1>4 DEF FlattenSplit
=============================================================================
