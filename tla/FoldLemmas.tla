------------------------------ MODULE FoldLemmas ------------------------------
(***************************************************************************)
(* Induction over the numbers without a predicate, and folds over          *)
(* sequences: a fold is the last of a chain of values, one for each        *)
(* element, so that what every step keeps the fold has.  The lemmas speak  *)
(* of the function behind FoldLeft (fl below) and of the steps as          *)
(* functions (G), as an operator cannot be a parameter.                    *)
(***************************************************************************)
EXTENDS Integers, SequencesExt, FiniteSetTheorems, SequenceTheorems,
        WellFoundedInduction, TLAPS

\* Any numbers there are have a least one ...
LEMMA LeastNumber ==
  ASSUME NEW T \in SUBSET Nat, T # {}
  PROVE  \E n \in T : \A m \in T : n <= m
<1> DEFINE R == OpToRel(<, Nat)
<1>1. IsWellFoundedOn(R, Nat)
  BY NatLessThanWellFounded
<1>2. \A m, n \in Nat : m < n => <<m, n>> \in R
  BY DEF OpToRel
<1> HIDE DEF R
<1>3. PICK n \in T : \A m \in T : <<m, n>> \notin R
  BY <1>1, WFMin
<1>4. ASSUME NEW m \in T PROVE n <= m
  <2>1. m \in Nat /\ n \in Nat
    OBVIOUS
  <2>2. ~(m < n)
    BY <1>2, <1>3, <2>1
  <2> QED
    BY <2>1, <2>2
<1> QED
  BY <1>4

\* ... so a set with 0 in it and the successor of each number has them all.
LEMMA SetInduction ==
  ASSUME NEW S, 0 \in S, \A n \in Nat : n \in S => n + 1 \in S
  PROVE  Nat \subseteq S
<1> SUFFICES ASSUME Nat \ S # {} PROVE FALSE
  OBVIOUS
<1>1. PICK n \in Nat \ S : \A m \in Nat \ S : n <= m
  BY LeastNumber
<1>2. n - 1 \in Nat /\ n - 1 \in S /\ n = (n - 1) + 1
  BY <1>1
<1> QED
  BY <1>1, <1>2

\* Of finitely many numbers one is the greatest, and one of any the least.
LEMMA MaxIs ==
  ASSUME NEW n \in Nat, NEW s \in SUBSET (1 .. n), s # {}
  PROVE  Max(s) \in s /\ \A y \in s : y <= Max(s)
<1> DEFINE T == {n - x : x \in s}
<1>1. T \in SUBSET Nat /\ T # {}
  OBVIOUS
<1>2. PICK t \in T : \A u \in T : t <= u
  BY <1>1, LeastNumber
<1>3. PICK x \in s : t = n - x
  OBVIOUS
<1>4. \A y \in s : x >= y
  <2> SUFFICES ASSUME NEW y \in s PROVE x >= y
    OBVIOUS
  <2>1. n - y \in T
    OBVIOUS
  <2>2. t <= n - y
    BY <1>2, <2>1
  <2> QED
    BY <1>3, <2>2
<1> HIDE DEF T
<1>5. Max(s) = CHOOSE z \in s : \A y \in s : z >= y
  BY DEF Max
<1>6. Max(s) \in s /\ \A y \in s : Max(s) >= y
  BY <1>4, <1>5
<1> QED
  BY <1>6

LEMMA MinIs ==
  ASSUME NEW s \in SUBSET Nat, s # {}
  PROVE  Min(s) \in s /\ \A y \in s : Min(s) <= y
<1>1. \E x \in s : \A y \in s : x <= y
  BY LeastNumber
<1> QED
  BY <1>1 DEF Min

\* A fold over a sequence exists, by the number of its elements: G says what each of
\* them makes of the values so far.
Folded(g, n, V, base, G) ==
  /\ g \in [SUBSET (1 .. n) -> V]
  /\ \A s \in SUBSET (1 .. n) : g[s] = IF s = {} THEN base ELSE G[Max(s)][g[s \ {Max(s)}]]

LEMMA FoldExists ==
  ASSUME NEW n \in Nat, NEW V, NEW base \in V, NEW G \in [1 .. n -> [V -> V]]
  PROVE  \E g : Folded(g, n, V, base, G)
<1> DEFINE Folds(g, k) == Folded(g, k, V, base, G)
           E == {k \in Nat : k <= n => \E g : Folds(g, k)}
<1> HIDE DEF Folds
<1>0. \A k \in Nat : k \in E <=> (k <= n => \E g : Folds(g, k))
  OBVIOUS
<1> HIDE DEF E
<1>1. 0 \in E
  <2>1. Folds([s \in SUBSET (1 .. 0) |-> base], 0)
    BY DEF Folds, Folded
  <2> QED
    BY <1>0, <2>1
<1>2. ASSUME NEW k \in Nat, k \in E PROVE k + 1 \in E
  <2> SUFFICES ASSUME k + 1 <= n PROVE \E g : Folds(g, k + 1)
    BY <1>0
  <2>0. PICK g : Folds(g, k)
    BY <1>0, <1>2
  <2>1. /\ g \in [SUBSET (1 .. k) -> V]
        /\ \A s \in SUBSET (1 .. k) :
             g[s] = IF s = {} THEN base ELSE G[Max(s)][g[s \ {Max(s)}]]
    BY <2>0 DEF Folds, Folded
  <2> DEFINE h == [s \in SUBSET (1 .. k + 1) |->
                     IF k + 1 \in s THEN G[k + 1][g[s \ {k + 1}]] ELSE g[s]]
  <2>2. ASSUME NEW s \in SUBSET (1 .. k + 1)
        PROVE  /\ s \ {k + 1} \in SUBSET (1 .. k)
               /\ k + 1 \notin s => s \in SUBSET (1 .. k)
               /\ k + 1 \in s => s # {} /\ Max(s) = k + 1
               /\ h[s] \in V
    <3>1. s \ {k + 1} \in SUBSET (1 .. k) /\ (k + 1 \notin s => s \in SUBSET (1 .. k))
      OBVIOUS
    <3>2. ASSUME k + 1 \in s PROVE Max(s) = k + 1
      <4>1. k + 1 \in Nat /\ s # {}
        BY <3>2
      <4>2. Max(s) \in s /\ k + 1 <= Max(s)
        BY <3>2, <4>1, MaxIs
      <4> DEFINE x == Max(s)
      <4> HIDE DEF x
      <4>3. x \in 1 .. k + 1 /\ k + 1 <= x
        BY <4>2 DEF x
      <4>4. x = k + 1
        BY <4>3
      <4> QED
        BY <4>4 DEF x
    <3>3. h[s] \in V
      <4>1. G[k + 1] \in [V -> V] /\ g \in [SUBSET (1 .. k) -> V]
        BY <2>1
      <4> QED
        BY <3>1, <4>1
    <3> QED
      BY <3>1, <3>2, <3>3
  <2>3. ASSUME NEW s \in SUBSET (1 .. k + 1)
        PROVE  h[s] = IF s = {} THEN base ELSE G[Max(s)][h[s \ {Max(s)}]]
    <3>1. CASE k + 1 \in s
      <4>1. s \ {k + 1} \in SUBSET (1 .. k + 1) /\ k + 1 \notin s \ {k + 1}
        OBVIOUS
      <4>2. h[s] = G[k + 1][g[s \ {k + 1}]] /\ h[s \ {k + 1}] = g[s \ {k + 1}]
        BY <3>1, <4>1
      <4>3. s # {} /\ Max(s) = k + 1
        BY <2>2, <3>1
      <4> HIDE DEF h
      <4> QED
        BY <4>2, <4>3
    <3>2. CASE k + 1 \notin s
      <4>1. s \in SUBSET (1 .. k) /\ h[s] = g[s]
        BY <2>2, <3>2
      <4>2. CASE s = {}
        BY <2>1, <4>1, <4>2
      <4>3. CASE s # {}
        <5>1. s \ {Max(s)} \in SUBSET (1 .. k + 1) /\ k + 1 \notin s \ {Max(s)}
          BY <3>2
        <5>2. h[s \ {Max(s)}] = g[s \ {Max(s)}]
          BY <5>1
        <5>3. g[s] = G[Max(s)][g[s \ {Max(s)}]]
          BY <2>1, <4>1, <4>3
        <5> HIDE DEF h
        <5> QED
          BY <4>1, <4>3, <5>2, <5>3
      <4> QED
        BY <4>2, <4>3
    <3> QED
      BY <3>1, <3>2
  <2>4. h \in [SUBSET (1 .. k + 1) -> V]
    BY <2>2
  <2> HIDE DEF h
  <2>5. Folds(h, k + 1)
    BY <2>3, <2>4 DEF Folds, Folded
  <2> QED
    BY <2>5
<1>3. n \in E
  BY <1>1, <1>2, SetInduction
<1> QED
  <2>1. \E g : Folds(g, n)
    BY <1>0, <1>3
  <2> QED
    BY <2>1 DEF Folds

\* The values of a fold over a sequence, one after each element.
Folding(a, n, V, base, G) ==
  /\ a[0] = base
  /\ \A i \in 1 .. n : a[i] = G[i][a[i - 1]]
  /\ \A i \in 0 .. n : a[i] \in V

FoldValues(fl, n, V, base, G) == \E a : Folding(a, n, V, base, G) /\ a[n] = fl[1 .. n]

LEMMA FoldSteps ==
  ASSUME NEW n \in Nat, NEW V, NEW base \in V, NEW G \in [1 .. n -> [V -> V]], NEW fl,
         \A s \in SUBSET (1 .. n) :
           /\ s = {} => fl[s] = base
           /\ s # {} /\ fl[s \ {Max(s)}] \in V => fl[s] = G[Max(s)][fl[s \ {Max(s)}]]
  PROVE  FoldValues(fl, n, V, base, G)
<1> DEFINE a == [i \in 0 .. n |-> fl[1 .. i]]
<1>1. a[0] = base
  <2>1. 1 .. 0 = {} /\ {} \in SUBSET (1 .. n)
    OBVIOUS
  <2>2. fl[{}] = base
    BY <2>1
  <2> QED
    BY <2>1, <2>2
<1>2. ASSUME NEW i \in 1 .. n, a[i - 1] \in V
      PROVE  a[i] = G[i][a[i - 1]] /\ a[i] \in V
  <2>1. (1 .. i) \in SUBSET (1 .. n) /\ 1 .. i # {} /\ (1 .. i) \ {i} = 1 .. (i - 1)
    <3>1. (1 .. i) \ {i} = 1 .. (i - 1)
      OBVIOUS
    <3>2. i \in 1 .. i
      OBVIOUS
    <3>3. 1 .. i \subseteq 1 .. n
      OBVIOUS
    <3> QED
      BY <3>1, <3>2, <3>3
  <2>2. Max(1 .. i) = i
    <3> DEFINE x == Max(1 .. i)
    <3>1. x \in 1 .. i /\ \A y \in 1 .. i : y <= x
      BY <2>1, MaxIs
    <3> HIDE DEF x
    <3>2. x = i
      BY <3>1
    <3> QED
      BY <3>2 DEF x
  <2>3. i - 1 \in 0 .. n /\ i \in 0 .. n
    OBVIOUS
  <2>4. a[i - 1] = fl[1 .. (i - 1)] /\ a[i] = fl[1 .. i]
    BY <2>3
  <2> HIDE DEF a
  <2>5. fl[1 .. (i - 1)] \in V
    BY <1>2, <2>4
  <2>6. fl[1 .. i] = G[i][fl[1 .. (i - 1)]]
    BY <2>1, <2>2, <2>5
  <2>7. G[i] \in [V -> V]
    OBVIOUS
  <2>8. G[i][fl[1 .. (i - 1)]] \in V
    BY <2>5, <2>7
  <2> QED
    BY <2>4, <2>6, <2>8
<1>3. a[n] = fl[1 .. n]
  OBVIOUS
<1> HIDE DEF a
<1> DEFINE E == {i \in Nat : i <= n => a[i] \in V}
<1>4. 0 \in E
  BY <1>1
<1>5. ASSUME NEW i \in Nat, i \in E PROVE i + 1 \in E
  <2> SUFFICES ASSUME i + 1 <= n PROVE a[i + 1] \in V
    OBVIOUS
  <2>1. i + 1 \in 1 .. n /\ (i + 1) - 1 = i /\ a[i] \in V
    BY <1>5
  <2> QED
    BY <1>2, <2>1
<1>6. Nat \subseteq E
  BY <1>4, <1>5, SetInduction
<1>7. \A i \in 0 .. n : a[i] \in V
  BY <1>6
<1>8. \A i \in 1 .. n : a[i - 1] \in V
  BY <1>7
<1>9. Folding(a, n, V, base, G)
  BY <1>1, <1>2, <1>7, <1>8 DEF Folding
<1> QED
  BY <1>3, <1>9 DEF FoldValues
=============================================================================
