---------------------------- MODULE SequenceFacts ----------------------------
(***************************************************************************)
(* Facts about flattened sequences and sums of the community modules that   *)
(* proofs about several components need, and induction in a form that takes *)
(* a set and not a predicate: what is to be shown of every number is shown  *)
(* to be the set of the numbers it holds for.                               *)
(***************************************************************************)
EXTENDS Integers, SequencesExt, SequenceTheorems, FiniteSetTheorems, WellFoundedInduction, TLAPS

(* A set of numbers that is not empty has a least element.                  *)
LEMMA LeastNumber ==
  ASSUME NEW T \in SUBSET Nat, T # {}
  PROVE  \E x \in T : \A y \in T : x <= y
<1> DEFINE R == OpToRel(<, Nat)
<1>1. IsWellFoundedOn(R, Nat)
  BY NatLessThanWellFounded
<1>2. \A x, y \in Nat : <<x, y>> \in R <=> x < y
  BY DEF OpToRel
<1> HIDE DEF R
<1>3. PICK x \in T : \A y \in T : ~ (<<y, x>> \in R)
  BY <1>1, WFMin
<1>4. ASSUME NEW y \in T PROVE x <= y
  <2>1. ~ (<<y, x>> \in R) /\ x \in Nat /\ y \in Nat
    BY <1>3
  <2>2. ~ (y < x)
    BY <1>2, <2>1
  <2>3. QED
    BY <2>1, <2>2
<1>5. QED
  BY <1>4

(* Induction: a set with 0 and the successor of each of its numbers.        *)
LEMMA EveryNumber ==
  ASSUME NEW S, 0 \in S, \A n \in Nat : n \in S => n + 1 \in S
  PROVE  \A n \in Nat : n \in S
<1> SUFFICES ASSUME Nat \ S # {} PROVE FALSE
  OBVIOUS
<1>1. PICK x \in Nat \ S : \A y \in Nat \ S : x <= y
  BY LeastNumber
<1>2. x # 0 /\ x - 1 \in Nat /\ x - 1 \notin Nat \ S
  BY <1>1
<1>3. QED
  BY <1>1, <1>2

-----------------------------------------------------------------------------
(* FlattenSeq(s) is the last of the sequences that append one part of s     *)
(* after the other: the recursive function of its definition exists.        *)
Parts(f, s) ==
    /\ f[0] = <<>>
    /\ \A i \in 1 .. Len(s) : f[i] = f[i - 1] \o s[i]

LEMMA FlattenUnfolds ==
  ASSUME NEW s, Len(s) \in Nat, Len(s) # 0
  PROVE  \E g : /\ g = [i \in 1 .. Len(s) |-> IF i = 1 THEN s[i] ELSE g[i - 1] \o s[i]]
                /\ FlattenSeq(s) = g[Len(s)]
<1> DEFINE Fits(g, m) == g = [i \in 1 .. m |-> IF i = 1 THEN s[i] ELSE g[i - 1] \o s[i]]
           H == {m \in Nat : \E g : Fits(g, m)}
<1>1. 0 \in H
  <2>1. Fits([i \in 1 .. 0 |-> s[i]], 0)
    OBVIOUS
  <2>2. QED
    BY <2>1
<1>2. ASSUME NEW m \in Nat, m \in H PROVE m + 1 \in H
  <2>1. PICK g : Fits(g, m)
    BY <1>2
  <2> DEFINE h == [i \in 1 .. m + 1 |-> IF i <= m THEN g[i] ELSE IF i = 1 THEN s[i] ELSE g[i - 1] \o s[i]]
  <2>2. DOMAIN h = 1 .. m + 1
    OBVIOUS
  <2>3. \A i \in 1 .. m + 1 : i # 1 => h[i - 1] = g[i - 1]
    OBVIOUS
  <2>4. \A i \in 1 .. m : g[i] = IF i = 1 THEN s[i] ELSE g[i - 1] \o s[i]
    BY <2>1
  <2>5. \A i \in 1 .. m + 1 : h[i] = IF i = 1 THEN s[i] ELSE g[i - 1] \o s[i]
    BY <2>4
  <2> HIDE DEF h
  <2>6. \A i \in 1 .. m + 1 : h[i] = IF i = 1 THEN s[i] ELSE h[i - 1] \o s[i]
    BY <2>3, <2>5
  <2>7. h = [i \in 1 .. m + 1 |-> h[i]]
    BY <2>2 DEF h
  <2>8. h = [i \in 1 .. m + 1 |-> IF i = 1 THEN s[i] ELSE h[i - 1] \o s[i]]
    BY <2>6, <2>7
  <2>9. \E f : Fits(f, m + 1)
    BY <2>8
  <2>10. m + 1 \in Nat
    OBVIOUS
  <2> HIDE DEF Fits
  <2>11. QED
    BY <2>9, <2>10
<1>3. Len(s) \in H
  <2> HIDE DEF H
  <2> QED BY <1>1, <1>2, EveryNumber
<1>4. \E g : Fits(g, Len(s))
  BY <1>3
<1>5. Fits(CHOOSE g : Fits(g, Len(s)), Len(s))
  BY <1>4
<1>6. FlattenSeq(s) = (CHOOSE g : Fits(g, Len(s)))[Len(s)]
  BY DEF FlattenSeq
<1>7. QED
  BY <1>5, <1>6

LEMMA FlattenSteps ==
  ASSUME NEW S, NEW s \in Seq(Seq(S))
  PROVE  \E f \in [0 .. Len(s) -> Seq(S)] : Parts(f, s) /\ FlattenSeq(s) = f[Len(s)]
<1> DEFINE n == Len(s)
<1>0. n \in Nat /\ \A i \in 1 .. n : s[i] \in Seq(S)
  BY LenProperties, ElementOfSeq
<1>1. CASE n = 0
  <2>1. s = <<>>
    BY <1>1, EmptySeq
  <2>2. FlattenSeq(s) = <<>>
    BY <1>1, <2>1 DEF FlattenSeq
  <2> DEFINE f == [i \in 0 .. n |-> <<>>]
  <2>3. f \in [0 .. n -> Seq(S)]
    BY EmptySeq
  <2>4. Parts(f, s) /\ f[n] = <<>>
    BY <1>0, <1>1 DEF Parts
  <2>5. QED
    BY <2>2, <2>3, <2>4
<1>2. CASE n # 0
  <2>1. PICK g : /\ g = [i \in 1 .. n |-> IF i = 1 THEN s[i] ELSE g[i - 1] \o s[i]]
                 /\ FlattenSeq(s) = g[n]
    BY <1>0, <1>2, FlattenUnfolds
  <2> HIDE DEF n
  <2> DEFINE H == {m \in Nat : m + 1 <= n => g[m + 1] \in Seq(S)}
  <2>2. 0 \in H
    <3>1. 1 <= n => g[1] = s[1] /\ 1 \in 1 .. n
      BY <1>0, <2>1
    <3>2. QED
      BY <1>0, <3>1
  <2>3. ASSUME NEW m \in Nat, m \in H PROVE m + 1 \in H
    <3>1. ASSUME m + 1 + 1 <= n PROVE g[m + 1 + 1] \in Seq(S)
      <4>1. m + 1 + 1 \in 1 .. n /\ m + 1 + 1 # 1 /\ (m + 1 + 1) - 1 = m + 1
        BY <1>0, <3>1
      <4>2. g[m + 1 + 1] = g[m + 1] \o s[m + 1 + 1]
        BY <2>1, <4>1
      <4>3. g[m + 1] \in Seq(S) /\ s[m + 1 + 1] \in Seq(S)
        BY <1>0, <2>3, <3>1, <4>1
      <4>4. QED
        BY <4>2, <4>3, ConcatProperties
    <3>2. QED
      BY <3>1
  <2>4. \A m \in Nat : m \in H
    <3> HIDE DEF H
    <3> QED BY <2>2, <2>3, EveryNumber
  <2>5. ASSUME NEW i \in 1 .. n PROVE g[i] \in Seq(S)
    <3>1. i - 1 \in H /\ (i - 1) + 1 = i /\ i <= n
      BY <1>0, <2>4
    <3>2. QED
      BY <3>1
  <2> DEFINE f == [i \in 0 .. n |-> IF i = 0 THEN <<>> ELSE g[i]]
  <2>6. f \in [0 .. n -> Seq(S)]
    BY <1>0, <2>5, EmptySeq
  <2>7. f[0] = <<>> /\ f[n] = g[n]
    BY <1>0, <1>2
  <2>8. ASSUME NEW i \in 1 .. n PROVE f[i] = f[i - 1] \o s[i]
    <3>1. f[i] = g[i]
      BY <1>0
    <3>2. CASE i = 1
      <4>1. f[i - 1] = <<>> /\ g[i] = s[i] /\ s[i] \in Seq(S)
        BY <1>0, <2>1, <3>2
      <4>2. QED
        BY <3>1, <4>1, ConcatEmptySeq
    <3>3. CASE i # 1
      <4>1. f[i - 1] = g[i - 1]
        BY <1>0, <3>3
      <4>2. g[i] = g[i - 1] \o s[i]
        BY <2>1, <3>3
      <4>3. QED
        BY <3>1, <4>1, <4>2
    <3>4. QED
      BY <3>2, <3>3
  <2> HIDE DEF f
  <2>9. Parts(f, s)
    BY <2>7, <2>8 DEF Parts, n
  <2>10. QED
    BY <2>1, <2>6, <2>7, <2>9 DEF n
<1>3. QED
  BY <1>1, <1>2

(* The first m parts of s lie in t, part i behind place o[i], and nothing   *)
(* else does.                                                               *)
Laid(o, s, m, t) ==
    /\ \A i \in 1 .. m : \A k \in 1 .. Len(s[i]) :
          o[i] + k \in 1 .. Len(t) /\ t[o[i] + k] = s[i][k]
    /\ \A q \in 1 .. Len(t) : \E i \in 1 .. m : \E k \in 1 .. Len(s[i]) : q = o[i] + k

LEMMA LaidNext ==
  ASSUME NEW S, NEW s \in Seq(Seq(S)), NEW m \in Nat, m + 1 <= Len(s), NEW t \in Seq(S),
         NEW o, Laid(o, s, m, t), o[m + 1] = Len(t), \A i \in 1 .. Len(s) : o[i] \in Nat
  PROVE  Laid(o, s, m + 1, t \o s[m + 1])
<1> DEFINE u == t \o s[m + 1]
<1>1. Len(s) \in Nat /\ m + 1 \in 1 .. Len(s) /\ s[m + 1] \in Seq(S)
  <2>1. Len(s) \in Nat
    BY LenProperties
  <2>2. m + 1 \in 1 .. Len(s)
    BY <2>1
  <2>3. QED
    BY <2>1, <2>2, ElementOfSeq
<1>2. Len(t) \in Nat /\ Len(s[m + 1]) \in Nat
  BY <1>1, LenProperties
<1>3. /\ Len(u) = Len(t) + Len(s[m + 1])
      /\ \A k \in 1 .. Len(t) : u[k] = t[k]
      /\ \A k \in 1 .. Len(s[m + 1]) : u[Len(t) + k] = s[m + 1][k]
  BY <1>1, <1>2, ConcatProperties
<1> HIDE DEF u
<1>4. ASSUME NEW i \in 1 .. m + 1, NEW k \in 1 .. Len(s[i])
      PROVE  o[i] + k \in 1 .. Len(u) /\ u[o[i] + k] = s[i][k]
  <2>1. CASE i = m + 1
    <3>1. k \in 1 .. Len(s[m + 1])
      BY <2>1
    <3>2. Len(t) + k \in 1 .. Len(u) /\ u[Len(t) + k] = s[m + 1][k]
      <4>1. u[Len(t) + k] = s[m + 1][k]
        BY <1>3, <3>1
      <4>2. Len(t) + k \in 1 .. Len(u)
        BY <1>2, <1>3, <3>1
      <4>3. QED
        BY <4>1, <4>2
    <3>3. QED
      BY <2>1, <3>2
  <2>2. CASE i # m + 1
    <3>1. i \in 1 .. m
      BY <2>2
    <3>2. o[i] + k \in 1 .. Len(t) /\ t[o[i] + k] = s[i][k]
      BY <3>1 DEF Laid
    <3>3. \A q \in 1 .. Len(t) : q \in 1 .. Len(u) /\ u[q] = t[q]
      BY <1>2, <1>3
    <3>4. QED
      BY <3>2, <3>3, Zenon
  <2>3. QED
    BY <2>1, <2>2
<1>5. ASSUME NEW q \in 1 .. Len(u)
      PROVE  \E i \in 1 .. m + 1 : \E k \in 1 .. Len(s[i]) : q = o[i] + k
  <2>1. CASE q <= Len(t)
    <3>1. q \in 1 .. Len(t)
      BY <1>2, <1>3, <2>1
    <3>2. PICK i \in 1 .. m : \E k \in 1 .. Len(s[i]) : q = o[i] + k
      BY <3>1 DEF Laid
    <3>3. i \in 1 .. m + 1
      OBVIOUS
    <3>4. QED
      BY <3>2, <3>3
  <2>2. CASE ~(q <= Len(t))
    <3>1. q - Len(t) \in 1 .. Len(s[m + 1]) /\ q = Len(t) + (q - Len(t))
      BY <1>2, <1>3, <2>2
    <3>2. m + 1 \in 1 .. m + 1
      OBVIOUS
    <3>3. QED
      BY <3>1, <3>2
  <2>3. QED
    BY <2>1, <2>2
<1>6. QED
  BY <1>4, <1>5 DEF Laid, u

LEMMA FlattenPlaces ==
  ASSUME NEW S, NEW s \in Seq(Seq(S))
  PROVE  /\ FlattenSeq(s) \in Seq(S)
         /\ \E o \in [1 .. Len(s) -> Nat] : Laid(o, s, Len(s), FlattenSeq(s))
<1>1. PICK f \in [0 .. Len(s) -> Seq(S)] : Parts(f, s) /\ FlattenSeq(s) = f[Len(s)]
  BY FlattenSteps
<1>2. Len(s) \in Nat
  BY LenProperties
<1>3. \A i \in 0 .. Len(s) : Len(f[i]) \in Nat /\ f[i] \in Seq(S)
  BY <1>1, LenProperties
<1> DEFINE o == [i \in 1 .. Len(s) |-> Len(f[i - 1])]
<1>4. \A i \in 1 .. Len(s) : o[i] = Len(f[i - 1]) /\ o[i] \in Nat
  <2>1. \A i \in 1 .. Len(s) : i - 1 \in 0 .. Len(s)
    BY <1>2
  <2>2. QED
    BY <1>3, <2>1
<1>5. o \in [1 .. Len(s) -> Nat]
  BY <1>4
<1> HIDE DEF o
<1> DEFINE H == {m \in Nat : m <= Len(s) => Laid(o, s, m, f[m])}
<1>6. 0 \in H
  <2>1. f[0] = <<>> /\ Len(<<>>) = 0
    BY <1>1 DEF Parts
  <2>2. Laid(o, s, 0, f[0])
    BY <2>1 DEF Laid
  <2>3. QED
    BY <2>2
<1>7. ASSUME NEW m \in Nat, m \in H PROVE m + 1 \in H
  <2> SUFFICES ASSUME m + 1 <= Len(s) PROVE Laid(o, s, m + 1, f[m + 1])
    OBVIOUS
  <2>1. Laid(o, s, m, f[m])
    BY <1>2, <1>7
  <2> HIDE DEF H
  <2>2. m + 1 \in 1 .. Len(s) /\ m \in 0 .. Len(s) /\ (m + 1) - 1 = m
    BY <1>2
  <2>3. f[m + 1] = f[m] \o s[m + 1]
    BY <1>1, <2>2 DEF Parts
  <2>4. o[m + 1] = Len(f[m]) /\ f[m] \in Seq(S)
    BY <1>3, <1>4, <2>2
  <2>5. Laid(o, s, m + 1, f[m] \o s[m + 1])
    BY <1>4, <2>1, <2>4, LaidNext
  <2>6. QED
    BY <2>3, <2>5
<1>8. Len(s) \in H
  <2> HIDE DEF H
  <2> QED BY <1>2, <1>6, <1>7, EveryNumber
<1>9. Laid(o, s, Len(s), f[Len(s)])
  BY <1>2, <1>8
<1>10. f[Len(s)] \in Seq(S)
  BY <1>2, <1>3
<1>11. QED
  BY <1>1, <1>5, <1>9, <1>10

LEMMA LastPlace ==
  ASSUME NEW S, NEW s \in Seq(S), NEW e \in S
  PROVE  Append(s, e) = [i \in 1 .. Len(s) + 1 |-> IF i = Len(s) + 1 THEN e ELSE s[i]]
<1> DEFINE t == [i \in 1 .. Len(s) + 1 |-> IF i = Len(s) + 1 THEN e ELSE s[i]]
<1>1. /\ Len(s) \in Nat /\ \A i \in 1 .. Len(s) : s[i] \in S
      /\ Append(s, e) \in Seq(S) /\ Len(Append(s, e)) = Len(s) + 1
      /\ Append(s, e)[Len(s) + 1] = e /\ \A i \in 1 .. Len(s) : Append(s, e)[i] = s[i]
  BY LenProperties, ElementOfSeq, AppendProperties
<1>2. \A i \in 1 .. Len(s) + 1 : i \in 1 .. Len(s) \/ i = Len(s) + 1
  BY <1>1
<1>3. t \in Seq(S) /\ Len(t) = Len(s) + 1
  BY <1>1, <1>2
<1>4. \A i \in 1 .. Len(s) + 1 : t[i] = Append(s, e)[i]
  BY <1>1, <1>2
<1> HIDE DEF t
<1>5. t = Append(s, e)
  BY <1>1, <1>3, <1>4, SeqEqual
<1>6. QED
  BY <1>5 DEF t

(* One part more at the end, and bytes added to the last part.              *)
LEMMA FlattenAppended ==
  ASSUME NEW S, NEW s \in Seq(Seq(S)), NEW e \in Seq(S)
  PROVE  FlattenSeq(Append(s, e)) = FlattenSeq(s) \o e
<1> DEFINE t == Append(s, e)
<1>1. /\ Len(s) \in Nat /\ t \in Seq(Seq(S)) /\ Len(t) = Len(s) + 1 /\ t[Len(s) + 1] = e
      /\ \A i \in 1 .. Len(s) : t[i] = s[i]
  BY LenProperties, AppendProperties
<1> HIDE DEF t
<1>2. PICK f : Parts(f, s) /\ FlattenSeq(s) = f[Len(s)]
  BY FlattenSteps
<1>3. PICK g : Parts(g, t) /\ FlattenSeq(t) = g[Len(t)]
  BY <1>1, FlattenSteps
<1> DEFINE H == {m \in Nat : m <= Len(s) => f[m] = g[m]}
<1>4. 0 \in H
  BY <1>2, <1>3 DEF Parts
<1>5. ASSUME NEW m \in Nat, m \in H PROVE m + 1 \in H
  <2> SUFFICES ASSUME m + 1 <= Len(s) PROVE f[m + 1] = g[m + 1]
    OBVIOUS
  <2>0. m <= Len(s) => f[m] = g[m]
    BY <1>5
  <2> HIDE DEF H
  <2>1. Len(s) \in Nat /\ Len(t) = Len(s) + 1
    BY <1>1
  <2>2. m <= Len(s) /\ m + 1 \in 1 .. Len(s) /\ m + 1 \in 1 .. Len(t) /\ (m + 1) - 1 = m
    BY <2>1
  <2>3. f[m] = g[m]
    BY <2>0, <2>2
  <2>4. f[m + 1] = f[m] \o s[m + 1] /\ g[m + 1] = g[m] \o t[m + 1]
    BY <1>2, <1>3, <2>2 DEF Parts
  <2>5. QED
    BY <1>1, <2>2, <2>3, <2>4
<1>6. Len(s) \in H
  <2> HIDE DEF H
  <2> QED BY <1>1, <1>4, <1>5, EveryNumber
<1>7. f[Len(s)] = g[Len(s)]
  BY <1>1, <1>6
<1>8. Len(t) \in 1 .. Len(t) /\ Len(t) - 1 = Len(s)
  BY <1>1
<1>9. g[Len(t)] = g[Len(s)] \o e
  BY <1>1, <1>3, <1>8 DEF Parts
<1>10. QED
  BY <1>2, <1>3, <1>7, <1>9 DEF t

LEMMA FlattenGrown ==
  ASSUME NEW S, NEW s \in Seq(Seq(S)), NEW e \in Seq(S), NEW b \in Seq(S)
  PROVE  FlattenSeq(Append(s, e \o b)) = FlattenSeq(Append(s, e)) \o b
<1>1. FlattenSeq(s) \in Seq(S) /\ e \o b \in Seq(S)
  BY FlattenPlaces, ConcatProperties
<1>2. (FlattenSeq(s) \o e) \o b = FlattenSeq(s) \o (e \o b)
  BY <1>1, ConcatAssociative
<1>3. QED
  BY <1>1, <1>2, FlattenAppended

-----------------------------------------------------------------------------
(* SumFunctionOnSet(f, S), the sum of f over a finite set S, is what the    *)
(* recursive function of its definition gives: it exists, and the order in  *)
(* which it takes the elements does not matter.                             *)
Picked(s) == CHOOSE x \in s : TRUE

Sums(g, f, S) ==
    /\ g[{}] = 0
    /\ \A s \in SUBSET S : s # {} => g[s] = f[Picked(s)] + g[s \ {Picked(s)}]

(* Taking an element from a finite set.                                     *)
LEMMA OneLess ==
  ASSUME NEW S, IsFiniteSet(S), NEW s \in SUBSET S
  PROVE  /\ IsFiniteSet(s) /\ Cardinality(s) \in Nat
         /\ Cardinality(s) = 0 <=> s = {}
         /\ s # {} => Picked(s) \in s
         /\ \A y \in s : s \ {y} \in SUBSET S /\ Cardinality(s \ {y}) = Cardinality(s) - 1
<1>1. IsFiniteSet(s) /\ Cardinality(s) \in Nat
  BY FS_Subset, FS_CardinalityType
<1>2. Cardinality(s) = 0 <=> s = {}
  BY <1>1, FS_EmptySet
<1>3. s # {} => Picked(s) \in s
  BY DEF Picked
<1>4. \A y \in s : s \ {y} \in SUBSET S /\ Cardinality(s \ {y}) = Cardinality(s) - 1
  BY <1>1, FS_RemoveElement
<1>5. QED
  BY <1>1, <1>2, <1>3, <1>4

LEMMA SumUnfolds ==
  ASSUME NEW S, IsFiniteSet(S), NEW f
  PROVE  \E g : /\ g = [s \in SUBSET S |->
                           IF s = {} THEN 0 ELSE f[Picked(s)] + g[s \ {Picked(s)}]]
                /\ SumFunctionOnSet(f, S) = g[S]
<1> DEFINE Body(g) == [s \in SUBSET S |-> IF s = {} THEN 0 ELSE f[Picked(s)] + g[s \ {Picked(s)}]]
           Fits(g, n) == \A s \in SUBSET S : Cardinality(s) <= n => g[s] = Body(g)[s]
           H == {n \in Nat : \E g : g = [s \in SUBSET S |-> g[s]] /\ Fits(g, n)}
<1>1. 0 \in H
  <2> DEFINE g == [s \in SUBSET S |-> 0]
  <2>1. ASSUME NEW s \in SUBSET S, Cardinality(s) <= 0 PROVE g[s] = Body(g)[s]
    BY <2>1, OneLess
  <2>2. g = [s \in SUBSET S |-> g[s]]
    OBVIOUS
  <2>3. Fits(g, 0)
    BY <2>1
  <2> HIDE DEF g, Fits
  <2>4. QED
    BY <2>2, <2>3
<1>2. ASSUME NEW n \in Nat, n \in H PROVE n + 1 \in H
  <2>1. PICK g : Fits(g, n)
    BY <1>2
  <2> DEFINE h == [s \in SUBSET S |-> IF Cardinality(s) <= n THEN g[s] ELSE Body(g)[s]]
  <2>2. ASSUME NEW s \in SUBSET S, Cardinality(s) <= n + 1 PROVE h[s] = Body(h)[s]
    <3>1. Cardinality(s) \in Nat
      BY OneLess
    <3>2. h[s] = Body(g)[s]
      BY <2>1, <3>1
    <3>3. CASE s = {}
      BY <3>2, <3>3
    <3>4. CASE s # {}
      <4>1. s \ {Picked(s)} \in SUBSET S /\ Cardinality(s \ {Picked(s)}) <= n
        BY <2>2, <3>1, <3>4, OneLess
      <4>2. h[s \ {Picked(s)}] = g[s \ {Picked(s)}]
        BY <4>1
      <4> HIDE DEF h
      <4>3. QED
        BY <3>2, <3>4, <4>2
    <3>5. QED
      BY <3>3, <3>4
  <2>3. h = [s \in SUBSET S |-> h[s]]
    OBVIOUS
  <2> HIDE DEF h
  <2>4. Fits(h, n + 1)
    BY <2>2
  <2> HIDE DEF Fits
  <2>5. QED
    BY <2>3, <2>4
<1>3. Cardinality(S) \in Nat /\ \A s \in SUBSET S : Cardinality(s) <= Cardinality(S)
  BY FS_Subset, FS_CardinalityType
<1>4. Cardinality(S) \in H
  <2> HIDE DEF H
  <2> QED BY <1>1, <1>2, <1>3, EveryNumber
<1>5. PICK g : g = [s \in SUBSET S |-> g[s]] /\ Fits(g, Cardinality(S))
  BY <1>4
<1>6. g = Body(g)
  BY <1>3, <1>5
<1> DEFINE iter == CHOOSE it : it = Body(it)
<1>7. iter = Body(iter)
  <2> HIDE DEF Body
  <2> QED BY <1>6
<1>8. SumFunctionOnSet(f, S) = iter[S]
  BY DEF SumFunctionOnSet, FoldFunctionOnSet, MapThenFoldSet, Picked
<1>9. QED
  <2> HIDE DEF iter
  <2> QED BY <1>7, <1>8

LEMMA SumIs ==
  ASSUME NEW S, IsFiniteSet(S), NEW f, \A x \in S : f[x] \in Nat
  PROVE  \E g \in [SUBSET S -> Nat] : Sums(g, f, S) /\ SumFunctionOnSet(f, S) = g[S]
<1>1. PICK g : /\ g = [s \in SUBSET S |-> IF s = {} THEN 0 ELSE f[Picked(s)] + g[s \ {Picked(s)}]]
               /\ SumFunctionOnSet(f, S) = g[S]
  BY SumUnfolds
<1>2. Sums(g, f, S)
  <2>1. g[{}] = 0
    BY <1>1
  <2>2. \A s \in SUBSET S : s # {} => g[s] = f[Picked(s)] + g[s \ {Picked(s)}]
    BY <1>1
  <2>3. QED
    BY <2>1, <2>2 DEF Sums
<1> DEFINE H == {n \in Nat : \A s \in SUBSET S : Cardinality(s) <= n => g[s] \in Nat}
<1>3. 0 \in H
  <2>1. ASSUME NEW s \in SUBSET S, Cardinality(s) <= 0 PROVE g[s] \in Nat
    <3>1. s = {}
      BY <2>1, OneLess
    <3>2. g[{}] = 0
      BY <1>2 DEF Sums
    <3>3. QED
      BY <3>1, <3>2
  <2>2. QED
    BY <2>1
<1>4. ASSUME NEW n \in Nat, n \in H PROVE n + 1 \in H
  <2>1. ASSUME NEW s \in SUBSET S, Cardinality(s) <= n + 1 PROVE g[s] \in Nat
    <3>1. CASE s = {}
      BY <1>2, <3>1 DEF Sums
    <3>2. CASE s # {}
      <4>1. Picked(s) \in S /\ s \ {Picked(s)} \in SUBSET S /\ Cardinality(s \ {Picked(s)}) <= n
        BY <2>1, <3>2, OneLess
      <4>2. g[s \ {Picked(s)}] \in Nat /\ f[Picked(s)] \in Nat
        BY <1>4, <4>1
      <4>3. g[s] = f[Picked(s)] + g[s \ {Picked(s)}]
        BY <1>2, <3>2 DEF Sums
      <4>4. QED
        BY <4>2, <4>3
    <3>3. QED
      BY <3>1, <3>2
  <2>2. QED
    BY <2>1
<1>5. Cardinality(S) \in Nat /\ \A s \in SUBSET S : Cardinality(s) <= Cardinality(S)
  BY FS_Subset, FS_CardinalityType
<1>6. Cardinality(S) \in H
  <2> HIDE DEF H
  <2> QED BY <1>3, <1>4, <1>5, EveryNumber
<1>7. \A s \in SUBSET S : g[s] \in Nat
  BY <1>5, <1>6
<1>8. g \in [SUBSET S -> Nat]
  BY <1>1, <1>7
<1>9. QED
  BY <1>1, <1>2, <1>8

(* The same values give the same sum.                                       *)
LEMMA SumsAgree ==
  ASSUME NEW S, IsFiniteSet(S), NEW T \in SUBSET S, NEW f, NEW e, \A x \in T : f[x] = e[x],
         NEW g, NEW h, Sums(g, f, S), Sums(h, e, T)
  PROVE  \A s \in SUBSET T : g[s] = h[s]
<1>1. IsFiniteSet(T) /\ Cardinality(T) \in Nat /\ \A s \in SUBSET T : Cardinality(s) <= Cardinality(T)
  BY FS_Subset, FS_CardinalityType
<1> DEFINE H == {n \in Nat : \A s \in SUBSET T : Cardinality(s) <= n => g[s] = h[s]}
<1>2. 0 \in H
  <2>1. ASSUME NEW s \in SUBSET T, Cardinality(s) <= 0 PROVE g[s] = h[s]
    <3>1. s = {}
      BY <1>1, <2>1, OneLess
    <3>2. g[{}] = 0 /\ h[{}] = 0
      BY DEF Sums
    <3>3. QED
      BY <3>1, <3>2
  <2>2. QED
    BY <2>1
<1>3. ASSUME NEW n \in Nat, n \in H PROVE n + 1 \in H
  <2>1. ASSUME NEW s \in SUBSET T, Cardinality(s) <= n + 1 PROVE g[s] = h[s]
    <3>1. CASE s = {}
      BY <3>1 DEF Sums
    <3>2. CASE s # {}
      <4>1. Picked(s) \in T /\ s \ {Picked(s)} \in SUBSET T /\ Cardinality(s \ {Picked(s)}) <= n
        BY <1>1, <2>1, <3>2, OneLess
      <4>2. g[s \ {Picked(s)}] = h[s \ {Picked(s)}] /\ f[Picked(s)] = e[Picked(s)]
        BY <1>3, <4>1
      <4>3. s \in SUBSET S
        OBVIOUS
      <4>4. QED
        BY <3>2, <4>2, <4>3 DEF Sums
    <3>3. QED
      BY <3>1, <3>2
  <2>2. QED
    BY <2>1
<1>4. Cardinality(T) \in H
  <2> HIDE DEF H
  <2> QED BY <1>1, <1>2, <1>3, EveryNumber
<1>5. QED
  BY <1>1, <1>4

(* Any element may be taken first, and a part sums up to no more.           *)
LEMMA SumsTake ==
  ASSUME NEW S, IsFiniteSet(S), NEW f, \A x \in S : f[x] \in Nat,
         NEW g \in [SUBSET S -> Nat], Sums(g, f, S)
  PROVE  \A y \in S : g[S] = f[y] + g[S \ {y}]
<1> DEFINE H == {n \in Nat : \A s \in SUBSET S : Cardinality(s) <= n =>
                     \A y \in s : g[s] = f[y] + g[s \ {y}]}
<1>1. 0 \in H
  <2>1. ASSUME NEW s \in SUBSET S, Cardinality(s) <= 0 PROVE s = {}
    BY <2>1, OneLess
  <2>2. QED
    BY <2>1
<1>2. ASSUME NEW n \in Nat, n \in H PROVE n + 1 \in H
  <2>1. ASSUME NEW s \in SUBSET S, Cardinality(s) <= n + 1, NEW y \in s PROVE g[s] = f[y] + g[s \ {y}]
    <3> DEFINE p == Picked(s)
    <3>1. /\ p \in s /\ g[s] = f[p] + g[s \ {p}]
          /\ s \ {p} \in SUBSET S /\ Cardinality(s \ {p}) <= n
          /\ s \ {y} \in SUBSET S /\ Cardinality(s \ {y}) <= n
      BY <2>1, OneLess DEF Sums
    <3> HIDE DEF p
    <3>2. CASE y = p
      BY <3>1, <3>2
    <3>3. CASE y # p
      <4>1. y \in s \ {p} /\ p \in s \ {y} /\ (s \ {p}) \ {y} = (s \ {y}) \ {p}
        BY <3>1, <3>3
      <4>2. g[s \ {p}] = f[y] + g[(s \ {p}) \ {y}]
        BY <1>2, <3>1, <4>1
      <4>3. g[s \ {y}] = f[p] + g[(s \ {y}) \ {p}]
        BY <1>2, <3>1, <4>1
      <4>4. f[p] \in Nat /\ f[y] \in Nat /\ g[(s \ {y}) \ {p}] \in Nat
        BY <3>1
      <4> DEFINE r == g[(s \ {y}) \ {p}]
      <4>5. g[s] = f[p] + g[s \ {p}] /\ g[s \ {p}] = f[y] + r /\ g[s \ {y}] = f[p] + r
        BY <3>1, <4>1, <4>2, <4>3
      <4>6. f[p] \in Nat /\ f[y] \in Nat /\ r \in Nat
        BY <4>4
      <4> HIDE DEF r
      <4>7. f[p] + (f[y] + r) = f[y] + (f[p] + r)
        BY <4>6
      <4>8. QED
        BY <4>5, <4>7
    <3>4. QED
      BY <3>2, <3>3
  <2>2. QED
    BY <2>1
<1>3. Cardinality(S) \in Nat
  BY FS_CardinalityType
<1>4. Cardinality(S) \in H
  <2> HIDE DEF H
  <2> QED BY <1>1, <1>2, <1>3, EveryNumber
<1>5. QED
  BY <1>3, <1>4

LEMMA SumEmpty ==
  ASSUME NEW f
  PROVE  SumFunctionOnSet(f, {}) = 0
BY SumUnfolds, FS_EmptySet

LEMMA SumType ==
  ASSUME NEW S, IsFiniteSet(S), NEW f, \A x \in S : f[x] \in Nat
  PROVE  SumFunctionOnSet(f, S) \in Nat
<1>1. PICK g \in [SUBSET S -> Nat] : SumFunctionOnSet(f, S) = g[S]
  BY SumIs
<1>2. QED
  BY <1>1

LEMMA SumSame ==
  ASSUME NEW S, IsFiniteSet(S), NEW f, NEW e, \A x \in S : f[x] \in Nat /\ f[x] = e[x]
  PROVE  SumFunctionOnSet(f, S) = SumFunctionOnSet(e, S)
<1>1. PICK g \in [SUBSET S -> Nat] : Sums(g, f, S) /\ SumFunctionOnSet(f, S) = g[S]
  BY SumIs
<1>2. PICK h \in [SUBSET S -> Nat] : Sums(h, e, S) /\ SumFunctionOnSet(e, S) = h[S]
  BY SumIs
<1>3. g[S] = h[S]
  BY <1>1, <1>2, SumsAgree
<1>4. QED
  BY <1>1, <1>2, <1>3

LEMMA SumTakes ==
  ASSUME NEW S, IsFiniteSet(S), NEW f, \A x \in S : f[x] \in Nat, NEW y \in S
  PROVE  SumFunctionOnSet(f, S) = f[y] + SumFunctionOnSet(f, S \ {y})
<1>1. PICK g \in [SUBSET S -> Nat] : Sums(g, f, S) /\ SumFunctionOnSet(f, S) = g[S]
  BY SumIs
<1>0. Sums(g, f, S)
  BY <1>1
<1>7. \A x \in S : g[S] = f[x] + g[S \ {x}]
  BY <1>0, SumsTake
<1> DEFINE T == S \ {y}
<1>2. T \in SUBSET S /\ IsFiniteSet(T)
  BY FS_Subset
<1> HIDE DEF T
<1>3. PICK h \in [SUBSET T -> Nat] : Sums(h, f, T) /\ SumFunctionOnSet(f, T) = h[T]
  BY <1>2, SumIs
<1>4. g[T] = h[T]
  BY <1>1, <1>2, <1>3, SumsAgree
<1>5. g[S] = f[y] + g[T]
  BY <1>7 DEF T
<1>6. QED
  BY <1>1, <1>3, <1>4, <1>5 DEF T

LEMMA SumOfPart ==
  ASSUME NEW S, IsFiniteSet(S), NEW f, \A x \in S : f[x] \in Nat, NEW T \in SUBSET S
  PROVE  SumFunctionOnSet(f, T) <= SumFunctionOnSet(f, S)
<1> DEFINE H == {n \in Nat : \A s \in SUBSET S : Cardinality(s) <= n =>
                     \A t \in SUBSET s : SumFunctionOnSet(f, t) <= SumFunctionOnSet(f, s)}
<1>1. \A s \in SUBSET S : IsFiniteSet(s) /\ SumFunctionOnSet(f, s) \in Nat
  BY SumType, FS_Subset
<1>2. 0 \in H
  <2>1. ASSUME NEW s \in SUBSET S, Cardinality(s) <= 0, NEW t \in SUBSET s
        PROVE  SumFunctionOnSet(f, t) <= SumFunctionOnSet(f, s)
    <3>1. t = s
      BY <2>1, OneLess
    <3>2. QED
      BY <1>1, <3>1
  <2>2. QED
    BY <2>1
<1>3. ASSUME NEW n \in Nat, n \in H PROVE n + 1 \in H
  <2>1. ASSUME NEW s \in SUBSET S, Cardinality(s) <= n + 1, NEW t \in SUBSET s
        PROVE  SumFunctionOnSet(f, t) <= SumFunctionOnSet(f, s)
    <3>1. CASE t = s
      BY <1>1, <3>1
    <3>2. CASE t # s
      <4>1. PICK y \in s : y \notin t
        BY <3>2
      <4>2. t \in SUBSET (s \ {y}) /\ s \ {y} \in SUBSET S /\ Cardinality(s \ {y}) <= n
        BY <2>1, <4>1, OneLess
      <4>3. SumFunctionOnSet(f, t) <= SumFunctionOnSet(f, s \ {y})
        BY <1>3, <4>2
      <4>4. SumFunctionOnSet(f, s) = f[y] + SumFunctionOnSet(f, s \ {y})
        BY <1>1, SumTakes
      <4>5. /\ f[y] \in Nat /\ SumFunctionOnSet(f, t) \in Nat
            /\ SumFunctionOnSet(f, s \ {y}) \in Nat
        BY <1>1, <4>2
      <4>6. QED
        BY <4>3, <4>4, <4>5
    <3>3. QED
      BY <3>1, <3>2
  <2>2. QED
    BY <2>1
<1>4. Cardinality(S) \in Nat
  BY FS_CardinalityType
<1>5. Cardinality(S) \in H
  <2> HIDE DEF H
  <2> QED BY <1>2, <1>3, <1>4, EveryNumber
<1>6. QED
  BY <1>4, <1>5
=============================================================================
