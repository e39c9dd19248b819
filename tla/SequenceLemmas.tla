--------------------------- MODULE SequenceLemmas ---------------------------
(***************************************************************************)
(* Facts about numbers and sequences that the proofs of several modules    *)
(* cite: induction over a set of numbers, the largest index of a set, and  *)
(* what FlattenSeq returns.  None is about the program.                    *)
(***************************************************************************)
EXTENDS Integers, Sequences, SequencesExt, SequenceTheorems, WellFoundedInduction, TLAPS

LEMMA LeastNatural ==
  ASSUME NEW T \in SUBSET Nat, T # {}
  PROVE  \E x \in T : \A y \in T : x <= y
<1> DEFINE R == {ss \in Nat \X Nat : ss[1] < ss[2]}
<1>1. IsWellFoundedOn(R, Nat)
  BY NatLessThanWellFounded DEF OpToRel
<1>2. PICK x \in T : \A y \in T : ~ (<<y, x>> \in R)
  BY <1>1, WFMin
<1>3. \A y \in T : <<y, x>> \in R <=> y < x
  OBVIOUS
<1>4. x \in Nat /\ \A y \in T : y \in Nat
  OBVIOUS
<1> HIDE DEF R
<1>5. \A y \in T : ~ (y < x)
  BY <1>2, <1>3
<1> QED
  BY <1>4, <1>5

\* Induction, for a set in the place of a predicate.
LEMMA NatSetInduction ==
  ASSUME NEW S, 0 \in S, \A n \in Nat : n \in S => n + 1 \in S
  PROVE  \A n \in Nat : n \in S
<1>1. SUFFICES ASSUME NEW n \in Nat, n \notin S
               PROVE  FALSE
  OBVIOUS
<1>2. PICK x \in Nat \ S : \A y \in Nat \ S : x <= y
  <2>1. Nat \ S \in SUBSET Nat /\ Nat \ S # {}
    BY <1>1
  <2> QED
    BY <2>1, LeastNatural
<1>3. x # 0 /\ x - 1 \in Nat
  BY <1>2
<1>4. x - 1 \in S
  BY <1>2, <1>3
<1> QED
  BY <1>2, <1>3, <1>4

\* Max of the community modules is a CHOOSE: a set of indices has one.
LEMMA LargestIndex ==
  ASSUME NEW n \in Nat, NEW W \in SUBSET (1 .. n), W # {}
  PROVE  Max(W) \in W /\ \A x \in W : x <= Max(W)
<1> DEFINE T == {n - x : x \in W}
<1>1. T \in SUBSET Nat /\ T # {}
  <2>1. \A x \in W : x \in Int /\ n - x \in Nat
    OBVIOUS
  <2> QED
    BY <2>1
<1>2. PICK t \in T : \A y \in T : t <= y
  BY <1>1, LeastNatural
<1>3. PICK x \in W : t = n - x
  BY <1>2
<1>4. \A y \in W : n - x <= n - y
  BY <1>2, <1>3
<1>5. \A y \in W : x >= y
  BY <1>4
<1>6. Max(W) \in W /\ \A y \in W : Max(W) >= y
  BY <1>5 DEF Max
<1> QED
  BY <1>6
-----------------------------------------------------------------------------
(* FlattenSeq.                                                             *)

InBlocks(x, ss, n) == \E b \in 1 .. n : \E p \in 1 .. Len(ss[b]) : x = ss[b][p]

InOrder(x, y, ss, n) ==
  \E b, c \in 1 .. n : \E p \in 1 .. Len(ss[b]), q \in 1 .. Len(ss[c]) :
    x = ss[b][p] /\ y = ss[c][q] /\ (b < c \/ (b = c /\ p < q))

\* out is the first n sequences of ss one after the other, as far as its
\* elements and their order go.
Flattens(out, ss, n) ==
  /\ \A i \in 1 .. Len(out) : InBlocks(out[i], ss, n)
  /\ \A b \in 1 .. n : \A p \in 1 .. Len(ss[b]) : \E i \in 1 .. Len(out) : out[i] = ss[b][p]
  /\ \A i, j \in 1 .. Len(out) : i < j => InOrder(out[i], out[j], ss, n)

LEMMA FlattensMore ==
  ASSUME NEW S, NEW ss \in Seq(Seq(S)), NEW n \in Nat, n + 1 <= Len(ss),
         NEW out \in Seq(S), Flattens(out, ss, n)
  PROVE  out \o ss[n + 1] \in Seq(S) /\ Flattens(out \o ss[n + 1], ss, n + 1)
<1> DEFINE t == ss[n + 1]
           all == out \o t
<1>1. t \in Seq(S) /\ Len(t) \in Nat /\ Len(out) \in Nat /\ Len(ss) \in Nat
  BY ElementOfSeq, LenProperties
<1>2. /\ all \in Seq(S) /\ Len(all) = Len(out) + Len(t)
      /\ \A i \in 1 .. Len(out) + Len(t) :
           all[i] = IF i <= Len(out) THEN out[i] ELSE t[i - Len(out)]
  BY <1>1, ConcatProperties
<1>3. n + 1 \in 1 .. n + 1 /\ \A b \in 1 .. n : b \in 1 .. n + 1 /\ b < n + 1
  OBVIOUS
<1> HIDE DEF all
<1>4. \A i \in 1 .. Len(all) :
        \/ i \in 1 .. Len(out) /\ all[i] = out[i]
        \/ i > Len(out) /\ i - Len(out) \in 1 .. Len(t) /\ all[i] = t[i - Len(out)]
  BY <1>1, <1>2
<1>5. ASSUME NEW i \in 1 .. Len(all)
      PROVE  InBlocks(all[i], ss, n + 1)
  <2>1. CASE i \in 1 .. Len(out) /\ all[i] = out[i]
    <3>1. InBlocks(out[i], ss, n)
      BY <2>1 DEF Flattens
    <3> QED
      BY <1>3, <2>1, <3>1 DEF InBlocks
  <2>2. CASE i - Len(out) \in 1 .. Len(t) /\ all[i] = t[i - Len(out)]
    BY <1>3, <2>2 DEF InBlocks
  <2> QED
    BY <1>4, <2>1, <2>2
<1>6. ASSUME NEW b \in 1 .. n + 1, NEW p \in 1 .. Len(ss[b])
      PROVE  \E i \in 1 .. Len(all) : all[i] = ss[b][p]
  <2>1. CASE b = n + 1
    <3>1. p \in 1 .. Len(t)
      BY <2>1
    <3> HIDE DEF t
    <3>2. Len(out) + p \in 1 .. Len(out) + Len(t) /\ ~ (Len(out) + p <= Len(out))
          /\ (Len(out) + p) - Len(out) = p
      BY <1>1, <3>1
    <3>3. Len(out) + p \in 1 .. Len(all) /\ all[Len(out) + p] = t[p]
      BY <1>2, <3>2
    <3> QED
      BY <2>1, <3>3 DEF t
  <2>2. CASE b # n + 1
    <3>1. b \in 1 .. n
      BY <2>2
    <3>2. PICK i \in 1 .. Len(out) : out[i] = ss[b][p]
      BY <3>1 DEF Flattens
    <3>3. i \in 1 .. Len(all) /\ all[i] = out[i]
      BY <1>1, <1>2
    <3> QED
      BY <3>2, <3>3
  <2> QED
    BY <2>1, <2>2
<1>7. ASSUME NEW i \in 1 .. Len(all), NEW j \in 1 .. Len(all), i < j
      PROVE  InOrder(all[i], all[j], ss, n + 1)
  <2>1. CASE j <= Len(out)
    <3>1. i \in 1 .. Len(out) /\ j \in 1 .. Len(out) /\ all[i] = out[i] /\ all[j] = out[j]
      BY <1>1, <1>2, <1>7, <2>1
    <3>2. InOrder(out[i], out[j], ss, n)
      BY <1>7, <3>1 DEF Flattens
    <3> QED
      BY <1>3, <3>1, <3>2 DEF InOrder
  <2>2. CASE i <= Len(out) /\ j > Len(out)
    <3>1. /\ i \in 1 .. Len(out) /\ all[i] = out[i]
          /\ j - Len(out) \in 1 .. Len(t) /\ all[j] = t[j - Len(out)]
      BY <1>1, <1>2, <2>2
    <3>2. PICK b \in 1 .. n : \E p \in 1 .. Len(ss[b]) : out[i] = ss[b][p]
      BY <3>1 DEF Flattens, InBlocks
    <3> QED
      BY <1>3, <3>1, <3>2 DEF InOrder
  <2>3. CASE i > Len(out)
    <3>1. /\ i - Len(out) \in 1 .. Len(t) /\ all[i] = t[i - Len(out)]
          /\ j - Len(out) \in 1 .. Len(t) /\ all[j] = t[j - Len(out)]
          /\ i - Len(out) < j - Len(out)
      BY <1>1, <1>2, <1>7, <2>3
    <3> QED
      BY <1>3, <3>1 DEF InOrder
  <2> QED
    BY <1>1, <2>1, <2>2, <2>3
<1> QED
  BY <1>2, <1>5, <1>6, <1>7 DEF Flattens, all

\* The recursive function by which FlattenSeq is defined exists.
LEMMA FlattenRecursion ==
  ASSUME NEW ss
  PROVE  \A n \in Nat :
           \E f : f = [i \in 1 .. n |-> IF i = 1 THEN ss[i] ELSE f[i - 1] \o ss[i]]
<1> DEFINE Rec(f, n) == [i \in 1 .. n |-> IF i = 1 THEN ss[i] ELSE f[i - 1] \o ss[i]]
           S == {n \in Nat : \E f : f = Rec(f, n)}
<1>1. 0 \in S
  <2> DEFINE f == [i \in 1 .. 0 |-> 0]
  <2>1. f = Rec(f, 0)
    OBVIOUS
  <2> QED
    BY <2>1
<1>2. ASSUME NEW n \in Nat, n \in S
      PROVE  n + 1 \in S
  <2>1. PICK f : f = Rec(f, n)
    BY <1>2
  <2> DEFINE h == [i \in 1 .. n + 1 |->
                     IF i <= n THEN f[i] ELSE IF i = 1 THEN ss[i] ELSE f[i - 1] \o ss[i]]
  <2>2. ASSUME NEW i \in 1 .. n + 1
        PROVE  h[i] = IF i = 1 THEN ss[i] ELSE h[i - 1] \o ss[i]
    <3>1. i # 1 => i - 1 \in 1 .. n + 1 /\ i - 1 <= n /\ h[i - 1] = f[i - 1]
      OBVIOUS
    <3>2. CASE i <= n
      <4>1. h[i] = f[i] /\ i \in 1 .. n
        BY <3>2
      <4>2. f[i] = IF i = 1 THEN ss[i] ELSE f[i - 1] \o ss[i]
        BY <2>1, <4>1
      <4> HIDE DEF h
      <4> QED
        BY <3>1, <4>1, <4>2
    <3>3. CASE ~ (i <= n)
      <4>1. h[i] = IF i = 1 THEN ss[i] ELSE f[i - 1] \o ss[i]
        BY <3>3
      <4> HIDE DEF h
      <4> QED
        BY <3>1, <4>1
    <3> QED
      BY <3>2, <3>3
  <2>3. h = [i \in 1 .. n + 1 |-> h[i]]
    OBVIOUS
  <2> HIDE DEF h
  <2>4. h = Rec(h, n + 1)
    BY <2>2, <2>3
  <2>5. \E g : g = Rec(g, n + 1)
    BY <2>4
  <2> HIDE DEF Rec
  <2> QED
    BY <2>5
<1> HIDE DEF S
<1>3. \A n \in Nat : n \in S
  BY <1>1, <1>2, NatSetInduction
<1> QED
  BY <1>3 DEF S

\* FlattenSeq gives the elements of the sequences, in their order.
LEMMA FlattenProperties ==
  ASSUME NEW S, NEW ss \in Seq(Seq(S))
  PROVE  FlattenSeq(ss) \in Seq(S) /\ Flattens(FlattenSeq(ss), ss, Len(ss))
<1>1. Len(ss) \in Nat
  BY LenProperties
<1>2. CASE Len(ss) = 0
  <2>1. FlattenSeq(ss) = ss /\ ss = <<>>
    BY <1>2, EmptySeq DEF FlattenSeq
  <2> QED
    BY <1>2, <2>1 DEF Flattens
<1>3. CASE Len(ss) # 0
  <2> DEFINE f == CHOOSE g : g = [i \in 1 .. Len(ss) |-> IF i = 1 THEN ss[i] ELSE g[i - 1] \o ss[i]]
  <2>1. FlattenSeq(ss) = f[Len(ss)]
    BY <1>3 DEF FlattenSeq
  <2>2. f = [i \in 1 .. Len(ss) |-> IF i = 1 THEN ss[i] ELSE f[i - 1] \o ss[i]]
    BY <1>1, FlattenRecursion
  <2> HIDE DEF f
  <2> DEFINE T == {n \in Nat : n + 1 <= Len(ss) => f[n + 1] \in Seq(S) /\ Flattens(f[n + 1], ss, n + 1)}
  <2>3. 0 \in T
    <3>1. f[1] = ss[1] /\ ss[1] \in Seq(S) /\ 0 + 1 = 1
      BY <1>1, <1>3, <2>2, ElementOfSeq
    <3>2. Len(ss[1]) \in Nat
      BY <3>1, LenProperties
    <3>3. Flattens(ss[1], ss, 1)
      BY <3>2 DEF Flattens, InBlocks, InOrder
    <3> QED
      BY <3>1, <3>3
  <2>4. ASSUME NEW n \in Nat, n \in T
        PROVE  n + 1 \in T
    <3> SUFFICES ASSUME (n + 1) + 1 <= Len(ss)
                 PROVE  f[(n + 1) + 1] \in Seq(S) /\ Flattens(f[(n + 1) + 1], ss, (n + 1) + 1)
      OBVIOUS
    <3>1. f[n + 1] \in Seq(S) /\ Flattens(f[n + 1], ss, n + 1)
      BY <1>1, <2>4
    <3>2. f[(n + 1) + 1] = f[n + 1] \o ss[(n + 1) + 1]
      <4>1. (n + 1) + 1 \in 1 .. Len(ss) /\ (n + 1) + 1 # 1 /\ ((n + 1) + 1) - 1 = n + 1
        BY <1>1
      <4> QED
        BY <2>2, <4>1
    <3> QED
      BY <3>1, <3>2, FlattensMore
  <2> HIDE DEF T
  <2>5. \A n \in Nat : n \in T
    BY <2>3, <2>4, NatSetInduction
  <2>6. Len(ss) - 1 \in Nat /\ (Len(ss) - 1) + 1 = Len(ss)
    BY <1>1, <1>3
  <2>7. Len(ss) - 1 \in T
    BY <2>5, <2>6
  <2> QED
    BY <1>1, <2>1, <2>6, <2>7 DEF T
<1> QED
  BY <1>2, <1>3
=============================================================================
