---------------------------- MODULE FoldTheorems ----------------------------
(***************************************************************************)
(* What a left fold preserves.  The commands of a connection run over      *)
(* their arguments one after the other, which the models write with        *)
(* FoldLeft.  FoldLeft is a recursive function on sets of positions; this  *)
(* module takes the operator folded as a constant, so that the theorem is  *)
(* cited for an operator of a model through INSTANCE, and proves it from   *)
(* the well-foundedness of the order on the natural numbers.  The text of  *)
(* a number, the other recursion of the models, follows at the end.        *)
(***************************************************************************)
EXTENDS Integers, Sequences

LOCAL INSTANCE WellFoundedInduction
LOCAL INSTANCE TLAPS

CONSTANT Op(_, _)

\* FoldLeft of Op over seq, the definition of the community modules spelt out
Top(s) == CHOOSE x \in s : \A y \in s : x >= y
IsIter(iter, base, seq, D) ==
    iter = [s \in SUBSET D |-> IF s = {} THEN base
                               ELSE Op(iter[s \ {Top(s)}], seq[Top(s)])]
Iter(base, seq) == CHOOSE iter : IsIter(iter, base, seq, DOMAIN seq)
Fold(base, seq) == Iter(base, seq)[DOMAIN seq]

\* A set of natural numbers that is not empty has a least element.
LEMMA NatLeast ==
    ASSUME NEW T, T \subseteq Nat, T # {}
    PROVE  \E n \in T : \A m \in T : n <= m
<1>1. IsWellFoundedOn(OpToRel(<, Nat), Nat)
  BY NatLessThanWellFounded
<1>2. PICK n \in T : \A m \in T : ~(<<m, n>> \in OpToRel(<, Nat))
  BY <1>1, WFMin
<1>3. \A m \in T : ~(m < n)
  BY <1>2 DEF OpToRel
<1> QED BY <1>3

\* Induction up to n over the members of a set.
LEMMA SetInduction ==
    ASSUME NEW n \in Nat, NEW P, 0 \in P, \A i \in 1..n : i - 1 \in P => i \in P
    PROVE  \A i \in 0..n : i \in P
<1> DEFINE T == {i \in 0..n : i \notin P}
<1> SUFFICES ASSUME T # {} PROVE FALSE
  OBVIOUS
<1>1. PICK m \in T : \A k \in T : m <= k
  <2>1. T \subseteq Nat
    OBVIOUS
  <2> HIDE DEF T
  <2> QED BY <2>1, NatLeast
<1>2. m # 0 /\ m - 1 \in 0..n
  OBVIOUS
<1>3. m - 1 \in P
  BY <1>1, <1>2
<1> QED BY <1>2, <1>3

\* The maximum of a set of numbers up to k + 1 that holds k + 1.
LEMMA MaxTop ==
    ASSUME NEW k \in Nat, NEW s \in SUBSET (1..(k + 1)), k + 1 \in s
    PROVE  Top(s) = k + 1
<1>1. \A y \in s : k + 1 >= y
  OBVIOUS
<1>2. \A x \in s : (\A y \in s : x >= y) => x = k + 1
  OBVIOUS
<1>3. Top(s) \in s /\ \A y \in s : Top(s) >= y
  BY <1>1, Zenon DEF Top
<1> QED BY <1>2, <1>3

\* The recursive function of the fold over positions 1 to n exists.
LEMMA IterExists ==
    ASSUME NEW base, NEW seq, NEW n \in Nat
    PROVE  \E g : IsIter(g, base, seq, 1..n)
<1> DEFINE Is(g, k) == IsIter(g, base, seq, 1..k)
           P == {k \in 0..n : \E g : Is(g, k)}
<1>1. 0 \in P
  <2> DEFINE g == [s \in SUBSET (1..0) |-> base]
  <2>1. Is(g, 0)
    BY DEF IsIter
  <2> QED BY <2>1
<1>2. ASSUME NEW k \in 1..n, k - 1 \in P PROVE k \in P
  <2>1. PICK g : Is(g, k - 1)
    BY <1>2
  <2> DEFINE h == [s \in SUBSET (1..k) |->
                     IF k \in s THEN Op(g[s \ {k}], seq[k]) ELSE g[s]]
  <2>2. ASSUME NEW s \in SUBSET (1..k)
        PROVE  h[s] = IF s = {} THEN base ELSE Op(h[s \ {Top(s)}], seq[Top(s)])
    <3>1. CASE k \in s
      <4>1. Top(s) = k
        <5>1. (k - 1) \in Nat /\ (k - 1) + 1 = k
          OBVIOUS
        <5> QED BY <5>1, <3>1, MaxTop
      <4>2. s \ {k} \in SUBSET (1..k) /\ k \notin s \ {k}
        OBVIOUS
      <4>3. h[s \ {k}] = g[s \ {k}]
        BY <4>2
      <4> QED BY <3>1, <4>1, <4>3
    <3>2. CASE k \notin s
      <4>1. s \in SUBSET (1..(k - 1))
        BY <3>2
      <4>2. g[s] = IF s = {} THEN base ELSE Op(g[s \ {Top(s)}], seq[Top(s)])
        BY <2>1, <4>1 DEF IsIter
      <4>3. /\ s \ {Top(s)} \in SUBSET (1..k)
            /\ k \notin s \ {Top(s)}
        BY <3>2
      <4>4. h[s \ {Top(s)}] = g[s \ {Top(s)}] /\ h[s] = g[s]
        BY <4>3, <3>2
      <4> QED BY <4>2, <4>4
    <3> QED BY <3>1, <3>2
  <2>3. Is(h, k)
    BY <2>2 DEF IsIter
  <2>4. k \in 0..n
    OBVIOUS
  <2> HIDE DEF Is, h
  <2> QED BY <2>3, <2>4
<1>3. n \in P
  <2> HIDE DEF P
  <2> QED BY <1>1, <1>2, SetInduction
<1> QED BY <1>3

\* A fold is reached step by step: h holds what it is after each element.
LEMMA FoldSteps ==
    ASSUME NEW base, NEW seq, NEW n \in Nat, DOMAIN seq = 1..n
    PROVE  \E h : /\ h[0] = base
                  /\ \A i \in 1..n : h[i] = Op(h[i - 1], seq[i])
                  /\ h[n] = Fold(base, seq)
<1> DEFINE g == Iter(base, seq)
           h == [i \in 0..n |-> g[1..i]]
<1>1. g = [s \in SUBSET (1..n) |->
             IF s = {} THEN base ELSE Op(g[s \ {Top(s)}], seq[Top(s)])]
  <2>1. \E f : IsIter(f, base, seq, DOMAIN seq)
    BY IterExists
  <2>2. IsIter(g, base, seq, DOMAIN seq)
    BY <2>1, Zenon DEF Iter
  <2> QED BY <2>2 DEF IsIter
<1>2. g[1..n] = Fold(base, seq)
  BY DEF Fold
<1> HIDE DEF g
<1>3. g[1..0] = base
  BY <1>1
<1>4. ASSUME NEW i \in 1..n PROVE g[1..i] = Op(g[1..(i - 1)], seq[i])
  <2>1. Top(1..i) = i
    <3>1. (i - 1) \in Nat /\ (i - 1) + 1 = i /\ i \in 1..i
      OBVIOUS
    <3>2. (1..i) \in SUBSET (1..((i - 1) + 1)) /\ (i - 1) + 1 \in 1..i
      BY <3>1
    <3> QED BY <3>1, <3>2, MaxTop
  <2>2. (1..i) \ {i} = 1..(i - 1) /\ (1..i) \in SUBSET (1..n) /\ 1..i # {}
    <3>1. \A x : x \in (1..i) \ {i} <=> x \in 1..(i - 1)
      OBVIOUS
    <3>2. i \in 1..i /\ \A x \in 1..i : x \in 1..n
      OBVIOUS
    <3> QED BY <3>1, <3>2, Zenon
  <2> QED BY <1>1, <2>1, <2>2
<1>5. ASSUME NEW i \in 0..n PROVE h[i] = g[1..i]
  OBVIOUS
<1>6. ASSUME NEW i \in 1..n PROVE h[i] = Op(h[i - 1], seq[i])
  <2>1. i \in 0..n /\ i - 1 \in 0..n
    OBVIOUS
  <2> HIDE DEF h
  <2> QED BY <1>4, <1>5, <2>1
<1>7. h[0] = base /\ h[n] = Fold(base, seq)
  <2>1. 0 \in 0..n /\ n \in 0..n
    OBVIOUS
  <2> HIDE DEF h
  <2> QED BY <1>2, <1>3, <1>5, <2>1
<1> HIDE DEF h
<1> QED BY <1>6, <1>7

\* A fold ends in S[n] when it starts in S[0] and its step with the i-th
\* element leads from S[i - 1] to S[i]: the rule by which do_sub and
\* rem_all_sub keep the tables over any number of arguments and entries,
\* merge_frames its frames and construct_frames its pieces.
THEOREM FoldStays ==
    ASSUME NEW base, NEW seq, NEW n \in Nat, DOMAIN seq = 1..n,
           NEW S, base \in S[0],
           \A i \in 1..n : \A x \in S[i - 1] : Op(x, seq[i]) \in S[i]
    PROVE  Fold(base, seq) \in S[n]
<1>1. PICK h : /\ h[0] = base
               /\ \A i \in 1..n : h[i] = Op(h[i - 1], seq[i])
               /\ h[n] = Fold(base, seq)
  BY FoldSteps
<1> DEFINE P == {i \in 0..n : h[i] \in S[i]}
<1>2. 0 \in P
  BY <1>1
<1>3. ASSUME NEW i \in 1..n, i - 1 \in P PROVE i \in P
  BY <1>1, <1>3
<1>4. n \in P
  <2> HIDE DEF P
  <2> QED BY <1>2, <1>3, SetInduction
<1> QED BY <1>1, <1>4

\* A fold is the last value of any function that follows its steps.
LEMMA FoldIs ==
    ASSUME NEW base, NEW seq, NEW n \in Nat, DOMAIN seq = 1..n,
           NEW h, h[0] = base, \A i \in 1..n : h[i] = Op(h[i - 1], seq[i])
    PROVE  Fold(base, seq) = h[n]
<1> DEFINE S == [i \in 0..n |-> {h[i]}]
<1>1. \A i \in 0..n : S[i] = {h[i]}
  OBVIOUS
<1> HIDE DEF S
<1>2. base \in S[0] /\ \A i \in 1..n : \A x \in S[i - 1] : Op(x, seq[i]) \in S[i]
  <2>1. 0 \in 0..n /\ \A i \in 1..n : i \in 0..n /\ i - 1 \in 0..n
    OBVIOUS
  <2>2. ASSUME NEW i \in 1..n, NEW x \in S[i - 1] PROVE Op(x, seq[i]) \in S[i]
    <3>1. x = h[i - 1]
      BY <1>1, <2>1
    <3> QED BY <1>1, <2>1, <3>1
  <2> QED BY <1>1, <2>1, <2>2
<1>3. Fold(base, seq) \in S[n]
  BY <1>2, FoldStays
<1> QED BY <1>1, <1>3

-----------------------------------------------------------------------------
(* Numbers as text *)

\* the recursion of NatText on the numbers up to n
TextStep(g, m) == IF m < 10 THEN <<48 + m>> ELSE Append(g[m \div 10], 48 + (m % 10))
TextTo(g, n)   == g = [m \in 0..n |-> TextStep(g, m)]

\* A digit more of a number's text depends on the text of its tenth only.
LEMMA TextStepLocal ==
    ASSUME NEW m \in Nat, NEW g, NEW h, m >= 10 => g[m \div 10] = h[m \div 10]
    PROVE  TextStep(g, m) = TextStep(h, m)
BY DEF TextStep

\* The tenth of a number of two digits or more is smaller.
LEMMA Tenth == \A m \in Nat : m >= 10 => m \div 10 \in 0..(m - 1)
OBVIOUS

\* The texts of the numbers up to n exist.
LEMMA TextToExists ==
    ASSUME NEW n \in Nat PROVE \E g : TextTo(g, n)
<1> DEFINE P == {k \in 0..n : \E g : TextTo(g, k)}
<1>1. 0 \in P
  <2> DEFINE g == [m \in 0..0 |-> TextStep(<<>>, m)]
  <2>1. \A m \in 0..0 : TextStep(<<>>, m) = TextStep(g, m)
    <3> HIDE DEF g
    <3> QED BY DEF TextStep
  <2>2. TextTo(g, 0)
    BY Zenon, <2>1 DEF TextTo
  <2> QED BY <2>2
<1>2. ASSUME NEW k \in 1..n, k - 1 \in P PROVE k \in P
  <2>1. PICK g : TextTo(g, k - 1)
    BY <1>2
  <2> DEFINE h == [m \in 0..k |-> TextStep(g, m)]
  <2>2. ASSUME NEW m \in 0..(k - 1) PROVE h[m] = g[m]
    <3>1. m \in 0..k
      OBVIOUS
    <3> QED BY Zenon, <2>1, <3>1 DEF TextTo
  <2> HIDE DEF h
  <2>3. ASSUME NEW m \in 0..k PROVE TextStep(g, m) = TextStep(h, m)
    <3>1. m >= 10 => m \div 10 \in 0..(k - 1)
      BY Tenth
    <3> QED BY <2>2, <3>1, TextStepLocal
  <2>5. TextTo(h, k)
    BY Zenon, <2>3 DEF TextTo, h
  <2> QED BY <2>5
<1> HIDE DEF P
<1>3. n \in P
  BY <1>1, <1>2, SetInduction
<1> QED BY <1>3 DEF P

\* Two functions that give the texts of the numbers agree where both do.
LEMMA TextToUnique ==
    ASSUME NEW n \in Nat, NEW k \in 0..n, NEW g, NEW h, TextTo(g, n), TextTo(h, k)
    PROVE  \A m \in 0..k : g[m] = h[m]
<1> DEFINE T == {m \in 0..k : g[m] # h[m]}
<1> SUFFICES ASSUME T # {} PROVE FALSE
  OBVIOUS
<1>0. T \subseteq Nat
  OBVIOUS
<1> HIDE DEF T
<1>1. PICK m \in T : \A j \in T : m <= j
  BY <1>0, NatLeast
<1>2. m \in 0..k /\ m \in 0..n
  BY DEF T
<1>3. g[m] = TextStep(g, m) /\ h[m] = TextStep(h, m)
  BY Zenon, <1>2 DEF TextTo
<1>4. m >= 10 => g[m \div 10] = h[m \div 10]
  BY <1>1, <1>2, Tenth DEF T
<1>5. g[m] = h[m]
  BY <1>2, <1>3, <1>4, TextStepLocal
<1> QED BY <1>5 DEF T

\* f gives the text of every number, as NatText does (int64_to_string)
IsText(f) == f = [n \in Nat |-> TextStep(f, n)]

\* There is a function that does: the text of a number is the text of its
\* tenth and one digit more.
LEMMA TextExists == \E f : IsText(f)
<1> DEFINE G(n) == CHOOSE g : TextTo(g, n)
           f == [n \in Nat |-> G(n)[n]]
<1>1. \A n \in Nat : TextTo(G(n), n)
  BY TextToExists
<1> HIDE DEF G
<1>2. ASSUME NEW n \in Nat PROVE G(n)[n] = TextStep(f, n)
  <2>1. n \in 0..n
    OBVIOUS
  <2>2. G(n)[n] = TextStep(G(n), n)
    BY Zenon, <1>1, <2>1 DEF TextTo
  <2>3. ASSUME n >= 10 PROVE G(n)[n \div 10] = f[n \div 10]
    <3>1. n \div 10 \in Nat /\ n \div 10 \in 0..n /\ n \div 10 \in 0..(n \div 10)
      BY <2>3, Tenth
    <3>2. G(n)[n \div 10] = G(n \div 10)[n \div 10]
      BY <1>1, <3>1, TextToUnique
    <3> QED BY <3>1, <3>2
  <2> HIDE DEF f
  <2> QED BY <2>2, <2>3, TextStepLocal
<1>3. f = [n \in Nat |-> TextStep(f, n)]
  BY Zenon, <1>2
<1> HIDE DEF f
<1> QED BY <1>3 DEF IsText

\* The text of a number is bytes.
LEMMA TextIsBytes ==
    ASSUME NEW f, IsText(f)
    PROVE  \A n \in Nat : f[n] \in Seq(Nat)
<1> DEFINE T == {n \in Nat : f[n] \notin Seq(Nat)}
<1> SUFFICES ASSUME T # {} PROVE FALSE
  OBVIOUS
<1>0. T \subseteq Nat
  OBVIOUS
<1> HIDE DEF T
<1>1. PICK n \in T : \A j \in T : n <= j
  BY <1>0, NatLeast
<1>2. n \in Nat
  BY <1>0
<1>3. n >= 10 => f[n \div 10] \in Seq(Nat)
  BY <1>1, <1>2, Tenth DEF T
<1>4. TextStep(f, n) \in Seq(Nat)
  <2>1. n % 10 \in Nat /\ 48 + (n % 10) \in Nat
    BY <1>2
  <2> QED BY <1>2, <1>3, <2>1 DEF TextStep
<1>5. f[n] = TextStep(f, n)
  BY Zenon, <1>2 DEF IsText
<1> QED BY <1>1, <1>2, <1>4, <1>5 DEF T
=============================================================================
