---------------------------- MODULE SequenceLemmas ----------------------------
(***************************************************************************)
(* Facts about numbers and about FlattenSeq that the proofs cite.  The     *)
(* least-number principle for sets stands for an induction: the least      *)
(* counterexample of a statement is contradicted by its predecessor.       *)
(***************************************************************************)
EXTENDS SequencesExt, SequenceTheorems, WellFoundedInduction, TLAPS

\* A set of natural numbers that is not empty has a least element.
LEMMA LeastNumber ==
  ASSUME NEW T \in SUBSET Nat, T # {}
  PROVE  \E m \in T : \A k \in T : m <= k
<1> DEFINE R == OpToRel(<, Nat)
<1>1. IsWellFoundedOn(R, Nat)
  BY NatLessThanWellFounded
<1>2. \A x, y \in Nat : x < y => <<x, y>> \in R
  BY DEF OpToRel
<1> HIDE DEF R
<1>3. PICK m \in T : \A y \in T : ~ (<<y, m>> \in R)
  BY <1>1, WFMin
<1>4. ASSUME NEW k \in T PROVE m <= k
  <2>1. k \in Nat /\ m \in Nat
    OBVIOUS
  <2>2. ~ (k < m)
    BY <1>2, <1>3, <2>1, Zenon
  <2> QED
    BY <2>1, <2>2
<1> QED
  BY <1>4

-----------------------------------------------------------------------------
\* f[i] is what the first i sequences of ss amount to.
Flattens(f, ss, n) ==
  \A i \in 1..n : f[i] = IF i = 1 THEN ss[i] ELSE f[i - 1] \o ss[i]

\* There is one such function at most.
LEMMA FlattensUnique ==
  ASSUME NEW ss, NEW tt, NEW f, NEW g, NEW n \in Nat,
         Flattens(f, ss, n), Flattens(g, tt, n), \A i \in 1..n : ss[i] = tt[i]
  PROVE  \A i \in 1..n : f[i] = g[i]
<1> DEFINE T == {i \in 1..n : f[i] # g[i]}
<1> SUFFICES ASSUME T # {} PROVE FALSE
  OBVIOUS
<1>1. T \in SUBSET Nat
  OBVIOUS
<1>2. PICK m \in T : \A k \in T : m <= k
  BY <1>1, LeastNumber
<1>3. m \in 1..n /\ f[m] # g[m]
  OBVIOUS
<1>4. m # 1
  BY <1>3 DEF Flattens
<1>5. m - 1 \in 1..n /\ ~(m <= m - 1)
  BY <1>3, <1>4
<1>6. f[m - 1] = g[m - 1]
  BY <1>2, <1>5
<1>7. f[m] = f[m - 1] \o ss[m] /\ g[m] = g[m - 1] \o tt[m] /\ ss[m] = tt[m]
  BY <1>3, <1>4 DEF Flattens
<1> QED
  BY <1>3, <1>6, <1>7

\* There is one for every length.
LEMMA FlattensExists ==
  ASSUME NEW S, NEW ss \in Seq(Seq(S)), NEW n \in 1..Len(ss)
  PROVE  \E f \in [1..n -> Seq(S)] : Flattens(f, ss, n)
<1> DEFINE T == {k \in 1..Len(ss) : ~ \E f \in [1..k -> Seq(S)] : Flattens(f, ss, k)}
<1> SUFFICES ASSUME T # {} PROVE FALSE
  OBVIOUS
<1>1. T \in SUBSET Nat
  OBVIOUS
<1>2. PICK m \in T : \A k \in T : m <= k
  <2> HIDE DEF T
  <2> QED
    BY <1>1, LeastNumber
<1>3. m \in 1..Len(ss) /\ ~ \E f \in [1..m -> Seq(S)] : Flattens(f, ss, m)
  BY <1>2
<1>4. \A i \in 1..Len(ss) : ss[i] \in Seq(S)
  OBVIOUS
<1>5. CASE m = 1
  <2>1. [i \in 1..m |-> ss[1]] \in [1..m -> Seq(S)]
    BY <1>3, <1>4
  <2>2. Flattens([i \in 1..m |-> ss[1]], ss, m)
    BY <1>5 DEF Flattens
  <2> QED
    BY <1>3, <2>1, <2>2
<1>6. CASE m # 1
  <2>1. m - 1 \in 1..Len(ss) /\ ~(m <= m - 1)
    BY <1>3, <1>6
  <2>2. PICK f \in [1..(m - 1) -> Seq(S)] : Flattens(f, ss, m - 1)
    BY <1>2, <2>1
  <2> DEFINE g == [i \in 1..m |-> IF i = m THEN f[m - 1] \o ss[m] ELSE f[i]]
  <2>3. f[m - 1] \o ss[m] \in Seq(S)
    <3>1. f[m - 1] \in Seq(S) /\ ss[m] \in Seq(S)
      BY <1>3, <1>4, <1>6
    <3> QED
      BY <3>1, ConcatProperties
  <2>4. g \in [1..m -> Seq(S)]
    BY <1>3, <2>3
  <2>5. ASSUME NEW i \in 1..m PROVE g[i] = IF i = 1 THEN ss[i] ELSE g[i - 1] \o ss[i]
    <3>1. CASE i = m
      <4>1. m \in 1..m /\ m - 1 \in 1..m /\ m - 1 # m
        BY <1>3, <1>6
      <4>2. g[m - 1] = f[m - 1] /\ g[m] = f[m - 1] \o ss[m]
        BY <4>1
      <4> QED
        BY <1>6, <3>1, <4>2
    <3>2. CASE i # m
      <4>1. i \in 1..(m - 1)
        BY <1>3, <3>2
      <4>2. i # 1 => i - 1 \in 1..m /\ i - 1 # m
        BY <1>3, <4>1
      <4>3. g[i] = f[i] /\ (i # 1 => g[i - 1] = f[i - 1])
        BY <3>2, <4>2
      <4>4. f[i] = IF i = 1 THEN ss[i] ELSE f[i - 1] \o ss[i]
        BY <2>2, <4>1 DEF Flattens
      <4> QED
        BY <4>3, <4>4
    <3> QED
      BY <3>1, <3>2
  <2>6. Flattens(g, ss, m)
    BY <2>5 DEF Flattens
  <2> QED
    BY <1>3, <2>4, <2>6
<1> QED
  BY <1>5, <1>6

\* FlattenSeq is what any such function says of the whole.
LEMMA FlattenByFcn ==
  ASSUME NEW S, NEW ss \in Seq(Seq(S)), ss # <<>>,
         NEW f, Flattens(f, ss, Len(ss))
  PROVE  FlattenSeq(ss) = f[Len(ss)]
<1> DEFINE n == Len(ss)
           Rec(h) == [i \in 1..n |-> IF i = 1 THEN ss[i] ELSE h[i - 1] \o ss[i]]
           c == CHOOSE h : h = Rec(h)
<1>1. n \in Nat /\ n # 0 /\ n \in 1..n
  OBVIOUS
<1>2. FlattenSeq(ss) = c[n]
  BY <1>1 DEF FlattenSeq
<1>3. PICK g \in [1..n -> Seq(S)] : Flattens(g, ss, n)
  BY <1>1, FlattensExists
<1>4. g = Rec(g)
  BY <1>3 DEF Flattens
<1>5. c = Rec(c)
  <2> HIDE DEF Rec
  <2> QED
    BY <1>4
<1>6. Flattens(c, ss, n)
  <2> HIDE DEF c
  <2> QED
    BY <1>5 DEF Flattens
<1>7. c[n] = f[n]
  <2> HIDE DEF c
  <2> QED
    BY <1>1, <1>6, FlattensUnique
<1> QED
  BY <1>2, <1>7

-----------------------------------------------------------------------------
LEMMA FlattenEmpty == FlattenSeq(<<>>) = <<>>
  BY DEF FlattenSeq

\* To flatten one sequence more is to append it.
LEMMA FlattenAppend ==
  ASSUME NEW S, NEW ss \in Seq(Seq(S)), NEW s \in Seq(S)
  PROVE  FlattenSeq(Append(ss, s)) = FlattenSeq(ss) \o s /\ FlattenSeq(ss) \in Seq(S)
<1> DEFINE tt == Append(ss, s)
           n  == Len(ss)
<1>1. /\ tt \in Seq(Seq(S)) /\ Len(tt) = n + 1 /\ tt # <<>> /\ n \in Nat
      /\ tt[n + 1] = s /\ \A i \in 1..n : tt[i] = ss[i]
  BY AppendProperties
<1>2. ss = <<>> <=> n = 0
  OBVIOUS
<1> HIDE DEF tt, n
<1>3. PICK g \in [1..(n + 1) -> Seq(S)] : Flattens(g, tt, n + 1)
  <2>1. n + 1 \in 1..Len(tt)
    BY <1>1
  <2> QED
    BY <1>1, <2>1, FlattensExists
<1>4. FlattenSeq(tt) = g[n + 1]
  BY <1>1, <1>3, FlattenByFcn
<1>5. CASE n = 0
  <2>1. ss = <<>> /\ FlattenSeq(ss) = <<>>
    BY <1>2, <1>5, FlattenEmpty
  <2>2. g[1] = s /\ FlattenSeq(tt) = s
    BY <1>1, <1>3, <1>4, <1>5 DEF Flattens
  <2>3. <<>> \o s = s /\ <<>> \in Seq(S)
    BY ConcatEmptySeq
  <2> QED
    BY <2>1, <2>2, <2>3 DEF tt
<1>6. CASE n # 0
  <2>1. ss # <<>> /\ n \in 1..(n + 1) /\ n + 1 \in 1..(n + 1) /\ n + 1 # 1 /\ (n + 1) - 1 = n
    BY <1>2, <1>1, <1>6
  <2>2. Flattens(g, ss, n)
    <3>1. \A i \in 1..n : i \in 1..(n + 1) /\ tt[i] = ss[i]
      BY <1>1
    <3>2. \A i \in 1..n : g[i] = IF i = 1 THEN tt[i] ELSE g[i - 1] \o tt[i]
      BY <1>3, <3>1 DEF Flattens
    <3> QED
      BY <3>1, <3>2 DEF Flattens
  <2>3. FlattenSeq(ss) = g[n]
    BY <2>1, <2>2, FlattenByFcn DEF n
  <2>4. g[n + 1] = g[n] \o s
    BY <1>1, <1>3, <2>1 DEF Flattens
  <2>5. g[n] \in Seq(S)
    BY <1>3, <2>1
  <2> QED
    BY <1>4, <2>3, <2>4, <2>5 DEF tt
<1> QED
  BY <1>5, <1>6

\* Flattening a sequence of sequences gives a sequence.
LEMMA FlattenType ==
  ASSUME NEW S, NEW ss \in Seq(Seq(S))
  PROVE  FlattenSeq(ss) \in Seq(S)
<1>1. <<>> \in Seq(S)
  OBVIOUS
<1> QED
  BY <1>1, FlattenAppend

\* To append to the second part of a concatenation is to append to it.
LEMMA AppendToConcat ==
  ASSUME NEW S, NEW a \in Seq(S), NEW b \in Seq(S), NEW e \in S
  PROVE  a \o Append(b, e) = Append(a \o b, e)
  OBVIOUS

LEMMA Regroup ==
  ASSUME NEW S, NEW a \in Seq(S), NEW b \in Seq(S), NEW c \in Seq(S),
         NEW ab, ab = a \o b, NEW bc, bc = b \o c
  PROVE  ab \o c = a \o bc
  BY ConcatAssociative

\* Flattening goes through concatenation.
LEMMA FlattenConcat ==
  ASSUME NEW S, NEW aa \in Seq(Seq(S)), NEW bb \in Seq(Seq(S))
  PROVE  FlattenSeq(aa \o bb) = FlattenSeq(aa) \o FlattenSeq(bb)
<1> DEFINE part(k) == SubSeq(bb, 1, k)
           Splits(k) == FlattenSeq(aa \o part(k)) = FlattenSeq(aa) \o FlattenSeq(part(k))
           T == {k \in 0..Len(bb) : ~ Splits(k)}
<1>1. Len(bb) \in Nat /\ \A i \in 1..Len(bb) : bb[i] \in Seq(S)
  OBVIOUS
<1>2. \A k \in 0..Len(bb) : part(k) \in Seq(Seq(S))
  <2> TAKE k \in 0..Len(bb)
  <2>1. 1 \in Int /\ k \in Int /\ \A i \in 1..k : bb[i] \in Seq(S)
    BY <1>1
  <2> QED
    BY <2>1, SubSeqProperties
<1>3. Splits(0)
  <2>1. part(0) = <<>> /\ aa \o <<>> = aa
    BY <1>1, ConcatEmptySeq, SubSeqEmpty
  <2>2. FlattenSeq(aa) \o <<>> = FlattenSeq(aa)
    BY FlattenType, ConcatEmptySeq
  <2> QED
    BY <2>1, <2>2, FlattenEmpty
<1>4. ASSUME NEW k \in 1..Len(bb), Splits(k - 1) PROVE Splits(k)
  <2>1. part(k) = Append(part(k - 1), bb[k])
    <3>1. k \in Nat /\ 1 \in 1..Len(bb) /\ k \in 1..Len(bb)
      BY <1>1
    <3>2. SubSeq(bb, 1, k) = SubSeq(bb, 1, k - 1) \o <<bb[k]>>
      BY <3>1, SubSeqRecursiveSecond
    <3>3. k - 1 \in 0..Len(bb) /\ bb[k] \in Seq(S)
      BY <1>1, <3>1
    <3>4. part(k - 1) \in Seq(Seq(S))
      BY <1>2, <3>3
    <3>5. Append(part(k - 1), bb[k]) = part(k - 1) \o <<bb[k]>>
      <4> HIDE DEF part
      <4> QED
        BY <3>3, <3>4, AppendIsConcat
    <3> QED
      BY <3>2, <3>5
  <2> DEFINE p == part(k - 1)
             e == bb[k]
  <2>2. p \in Seq(Seq(S)) /\ e \in Seq(S)
    BY <1>1, <1>2
  <2>3. FlattenSeq(aa \o p) = FlattenSeq(aa) \o FlattenSeq(p)
    BY <1>4
  <2>4. part(k) = Append(p, e)
    BY <2>1
  <2> HIDE DEF p, e
  <2>5. aa \o Append(p, e) = Append(aa \o p, e)
    BY <2>2, AppendToConcat
  <2>6. FlattenSeq(Append(aa \o p, e)) = FlattenSeq(aa \o p) \o e
    BY <2>2, ConcatProperties, FlattenAppend
  <2>7. FlattenSeq(Append(p, e)) = FlattenSeq(p) \o e
    BY <2>2, FlattenAppend
  <2>8. FlattenSeq(aa) \in Seq(S) /\ FlattenSeq(p) \in Seq(S) /\ e \in Seq(S)
    BY <2>2, FlattenType
  <2>9. FlattenSeq(aa \o p) \o e = FlattenSeq(aa) \o FlattenSeq(Append(p, e))
    BY <2>3, <2>7, <2>8, Regroup, SMTT(60)
  <2> QED
    BY <2>4, <2>5, <2>6, <2>9
<1>5. T = {}
  <2> SUFFICES ASSUME T # {} PROVE FALSE
    OBVIOUS
  <2> HIDE DEF Splits
  <2>1. T \in SUBSET Nat
    BY <1>1
  <2>2. PICK m \in T : \A k \in T : m <= k
    BY <2>1, LeastNumber
  <2>3. m \in 0..Len(bb) /\ ~Splits(m) /\ m # 0
    BY <1>3
  <2>4. m \in 1..Len(bb) /\ m - 1 \in 0..Len(bb) /\ ~(m <= m - 1)
    BY <1>1, <2>3
  <2>5. Splits(m - 1)
    BY <2>2, <2>4
  <2> QED
    BY <1>4, <2>3, <2>4, <2>5
<1>6. Splits(Len(bb))
  <2> HIDE DEF Splits
  <2> QED
    BY <1>1, <1>5
<1>7. part(Len(bb)) = bb
  BY SubSeqFull
<1> QED
  BY <1>6, <1>7
=============================================================================
