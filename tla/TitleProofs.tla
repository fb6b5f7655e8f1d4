---------------------------- MODULE TitleProofs ----------------------------
(***************************************************************************)
(* Theorems about TitleFiles, for any number of releases, discs, failures  *)
(* and commands: a disc stays until a removal names it, what is the user's *)
(* is kept, and what an operation reports without a warning is so.  The    *)
(* inductive invariant says how far the one operation that has the lock    *)
(* is: every step of its phases so far has been done or is left to do.     *)
(***************************************************************************)
EXTENDS TitleFiles, FiniteSetTheorems, SequenceTheorems, WellFoundedInduction, TLAPS

-----------------------------------------------------------------------------
(* Sequences of steps. *)

\* Any numbers there are have a least one ...
LEMMA LeastNumber ==
  ASSUME NEW T \in SUBSET Nat, T # {}
  PROVE  \E n \in T : \A m \in T : n <= m
<1> DEFINE R == OpToRel(<, Nat)
<1>1. IsWellFoundedOn(R, Nat)
  BY NatLessThanWellFounded
<1>2. \A m, n \in Nat : m < n => <<m, n>> \in R
  BY DEF OpToRel
<1> HIDE DEF R
<1>3. PICK n \in T : \A m \in T : <<m, n>> \notin R
  BY <1>1, WFMin
<1>4. ASSUME NEW m \in T PROVE n <= m
  <2>1. m \in Nat /\ n \in Nat
    OBVIOUS
  <2>2. ~(m < n)
    BY <1>2, <1>3, <2>1
  <2> QED
    BY <2>1, <2>2
<1> QED
  BY <1>4

\* ... so a set with 0 in it and the successor of each number has them all.
LEMMA SetInduction ==
  ASSUME NEW S, 0 \in S, \A n \in Nat : n \in S => n + 1 \in S
  PROVE  Nat \subseteq S
<1> SUFFICES ASSUME Nat \ S # {} PROVE FALSE
  OBVIOUS
<1>1. PICK n \in Nat \ S : \A m \in Nat \ S : n <= m
  BY LeastNumber
<1>2. n - 1 \in Nat /\ n - 1 \in S /\ n = (n - 1) + 1
  BY <1>1
<1> QED
  BY <1>1, <1>2

\* FlattenSeq is defined by recursion over the sequences.
Unrolled(f, ss, m) == \A i \in 1 .. m : f[i] = IF i = 1 THEN ss[i] ELSE f[i - 1] \o ss[i]
LEMMA FlattenExists ==
  ASSUME NEW X, NEW ss \in Seq(Seq(X)), NEW m \in Nat
  PROVE  m <= Len(ss) => \E f \in [1 .. m -> Seq(X)] : Unrolled(f, ss, m)
<1> DEFINE Good(f, k) == f \in [1 .. k -> Seq(X)] /\ Unrolled(f, ss, k)
           E == {k \in Nat : k <= Len(ss) => \E f : Good(f, k)}
<1> HIDE DEF Good
<1>0. \A k \in Nat : k \in E <=> (k <= Len(ss) => \E f : Good(f, k))
  OBVIOUS
<1> HIDE DEF E
<1>1. 0 \in E
  <2>1. Good([i \in 1 .. 0 |-> <<>>], 0)
    BY DEF Good, Unrolled
  <2> QED
    BY <1>0, <2>1
<1>2. ASSUME NEW k \in Nat, k \in E PROVE k + 1 \in E
  <2> SUFFICES ASSUME k + 1 <= Len(ss) PROVE \E f : Good(f, k + 1)
    BY <1>0
  <2>1. Len(ss) \in Nat /\ \A i \in 1 .. Len(ss) : ss[i] \in Seq(X)
    BY LenProperties, ElementOfSeq
  <2>2. PICK f : Good(f, k)
    BY <1>2, <1>0, <2>1
  <2> DEFINE x == IF k = 0 THEN ss[k + 1] ELSE f[k] \o ss[k + 1]
             g == [i \in 1 .. k + 1 |-> IF i = k + 1 THEN x ELSE f[i]]
  <2>3. x \in Seq(X)
    BY <2>1, <2>2, ConcatProperties DEF Good
  <2>4. g \in [1 .. k + 1 -> Seq(X)]
    BY <2>2, <2>3 DEF Good
  <2>5. ASSUME NEW i \in 1 .. k + 1
        PROVE  g[i] = IF i = 1 THEN ss[i] ELSE g[i - 1] \o ss[i]
    <3>1. CASE i = k + 1
      BY <3>1
    <3>2. CASE i # k + 1
      <4>1. i \in 1 .. k /\ (i # 1 => i - 1 \in 1 .. k)
        BY <3>2
      <4>2. g[i] = f[i] /\ (i # 1 => g[i - 1] = f[i - 1])
        BY <4>1
      <4> QED
        BY <2>2, <4>1, <4>2 DEF Good, Unrolled
    <3> QED
      BY <3>1, <3>2
  <2>6. Good(g, k + 1)
    BY <2>4, <2>5 DEF Good, Unrolled
  <2> QED
    BY <2>6
<1>3. m \in E
  BY <1>1, <1>2, SetInduction
<1> QED
  BY <1>3, <1>0 DEF Good

\* Steps flattened are of the same set, and none is lost.
LEMMA FlattenProperties ==
  ASSUME NEW X, NEW ss \in Seq(Seq(X))
  PROVE  /\ FlattenSeq(ss) \in Seq(X)
         /\ \A i \in 1 .. Len(ss) : Range(ss[i]) \subseteq Range(FlattenSeq(ss))
<1> DEFINE n == Len(ss)
<1>1. n \in Nat /\ DOMAIN ss = 1 .. n /\ \A i \in 1 .. n : ss[i] \in Seq(X)
  BY LenProperties, ElementOfSeq
<1>2. CASE n = 0
  <2>1. FlattenSeq(ss) = ss /\ ss = <<>>
    BY <1>2, EmptySeq DEF FlattenSeq
  <2> QED
    BY <1>2, <2>1, EmptySeq
<1>3. CASE n # 0
  <2> DEFINE Fix(f) == f = [i \in 1 .. n |-> IF i = 1 THEN ss[i] ELSE f[i - 1] \o ss[i]]
             fl == CHOOSE f : Fix(f)
  <2>1. FlattenSeq(ss) = fl[n]
    BY <1>3 DEF FlattenSeq
  <2>2. Fix(fl)
    <3>1. PICK f \in [1 .. n -> Seq(X)] : Unrolled(f, ss, n)
      BY <1>1, FlattenExists
    <3>2. Fix(f)
      BY <3>1 DEF Unrolled
    <3> QED
      BY <3>2
  <2>3. \A i \in 1 .. n : fl[i] = IF i = 1 THEN ss[i] ELSE fl[i - 1] \o ss[i]
    BY <2>2
  <2> HIDE DEF fl
  <2> DEFINE E == {m \in Nat : m + 1 <= n =>
                     /\ fl[m + 1] \in Seq(X)
                     /\ \A i \in 1 .. m + 1 : Range(ss[i]) \subseteq Range(fl[m + 1])}
  <2>4. 0 \in E
    BY <1>1, <2>3
  <2>5. ASSUME NEW m \in Nat, m \in E PROVE m + 1 \in E
    <3> SUFFICES ASSUME (m + 1) + 1 <= n
                 PROVE  /\ fl[(m + 1) + 1] \in Seq(X)
                        /\ \A i \in 1 .. (m + 1) + 1 :
                             Range(ss[i]) \subseteq Range(fl[(m + 1) + 1])
      OBVIOUS
    <3>1. fl[(m + 1) + 1] = fl[m + 1] \o ss[(m + 1) + 1]
      <4>1. (m + 1) + 1 \in 1 .. n /\ (m + 1) + 1 # 1 /\ ((m + 1) + 1) - 1 = m + 1
        BY <1>1
      <4> QED
        BY <2>3, <4>1
    <3>2. fl[m + 1] \in Seq(X) /\ ss[(m + 1) + 1] \in Seq(X)
      BY <1>1, <2>5
    <3>3. /\ fl[(m + 1) + 1] \in Seq(X)
          /\ Range(fl[(m + 1) + 1]) = Range(fl[m + 1]) \cup Range(ss[(m + 1) + 1])
      BY <3>1, <3>2, ConcatProperties, RangeConcatenation
    <3>4. \A i \in 1 .. (m + 1) + 1 : i = (m + 1) + 1 \/ i \in 1 .. m + 1
      OBVIOUS
    <3>5. \A i \in 1 .. m + 1 : Range(ss[i]) \subseteq Range(fl[m + 1])
      BY <1>1, <2>5
    <3> QED
      BY <3>3, <3>4, <3>5
  <2> HIDE DEF E
  <2>6. n - 1 \in E
    <3>1. Nat \subseteq E
      BY <2>4, <2>5, SetInduction
    <3>2. n - 1 \in Nat
      BY <1>1, <1>3
    <3> QED
      BY <3>1, <3>2
  <2>7. (n - 1) + 1 = n
    BY <1>1
  <2> QED
    BY <1>1, <2>1, <2>6, <2>7 DEF E
<1> QED
  BY <1>2, <1>3

-----------------------------------------------------------------------------
(* Discs and titles. *)

\* A disc is known by its release and its number.
LEMMA VcdPair ==
  ASSUME NEW v \in Vcds
  PROVE  /\ v[1] \in Releases /\ v[1] \in Nat /\ v[2] \in Nat \ {0}
         /\ DiscCount[v[1]] \in Nat \ {0} /\ v[2] \in 1 .. DiscCount[v[1]]
         /\ v = <<v[1], v[2]>>
<1>1. PICK r \in Releases : v \in {r} \X (1 .. DiscCount[r])
  BY DEF Vcds
<1>2. r \in 1 .. Len(DiscCount) /\ DiscCount[r] \in Nat \ {0} /\ Len(DiscCount) \in Nat
  BY TitleFilesAssumption, LenProperties, ElementOfSeq DEF Releases
<1> QED
  BY <1>1, <1>2

LEMMA VcdOf ==
  ASSUME NEW r \in Releases, NEW i \in 1 .. DiscCount[r]
  PROVE  <<r, i>> \in Vcds
  BY DEF Vcds

\* There are finitely many.
LEMMA VcdsFinite == IsFiniteSet(Vcds)
<1> DEFINE f == [r \in Releases |-> {r} \X (1 .. DiscCount[r])]
           F == {{r} \X (1 .. DiscCount[r]) : r \in Releases}
<1>1. IsFiniteSet(Releases)
  <2>1. Releases = 1 .. Len(DiscCount) /\ Len(DiscCount) \in Nat
    BY TitleFilesAssumption, LenProperties DEF Releases
  <2> QED
    BY <2>1, FS_Interval
<1>2. f \in Surjection(Releases, F)
  BY DEF Surjection
<1> HIDE DEF f
<1>3. IsFiniteSet(F)
  <2> HIDE DEF F
  <2> QED
    BY <1>1, <1>2, FS_Surjection
<1>4. ASSUME NEW T \in F PROVE IsFiniteSet(T)
  <2>1. PICK r \in Releases : T = {r} \X (1 .. DiscCount[r])
    OBVIOUS
  <2>2. DiscCount[r] \in Nat
    BY TitleFilesAssumption, LenProperties, ElementOfSeq DEF Releases
  <2>3. IsFiniteSet(1 .. DiscCount[r])
    BY <2>2, FS_Interval
  <2>4. IsFiniteSet({r})
    BY FS_Singleton
  <2> QED
    BY <2>1, <2>3, <2>4, FS_Product
<1> HIDE DEF F
<1>5. IsFiniteSet(UNION F)
  BY <1>3, <1>4, FS_UNION
<1> QED
  BY <1>5 DEF F, Vcds

\* Ordering a set of discs loses none and adds none.
LEMMA InOrder ==
  ASSUME NEW S \in SUBSET Vcds
  PROVE  /\ InDiscOrder(S) \in Seq(S) /\ InDiscOrder(S) \in Seq(Vcds)
         /\ Range(InDiscOrder(S)) = S
<1> DEFINE n == Cardinality(S)
           Below(v) == {w \in S : Before(w, v)}
           rank == [v \in S |-> Cardinality(Below(v))]
<1>1. IsFiniteSet(S) /\ n \in Nat
  BY VcdsFinite, FS_Subset, FS_CardinalityType
<1>2. ASSUME NEW v \in S
      PROVE  /\ IsFiniteSet(Below(v)) /\ Below(v) \subseteq S /\ v \notin Below(v)
             /\ Cardinality(Below(v)) \in Nat /\ Cardinality(Below(v)) < n
  <2>1. Below(v) \in SUBSET S /\ v \notin Below(v)
    BY VcdPair DEF Before
  <2> HIDE DEF Below
  <2>2. /\ IsFiniteSet(Below(v)) /\ Cardinality(Below(v)) <= n
        /\ (n = Cardinality(Below(v)) => S = Below(v))
    BY <1>1, <2>1, FS_Subset
  <2>3. Cardinality(Below(v)) \in Nat
    BY <2>2, FS_CardinalityType
  <2> QED
    BY <1>1, <2>1, <2>2, <2>3
<1>3. ASSUME NEW v \in S, NEW w \in S, Before(w, v)
      PROVE  Cardinality(Below(w)) < Cardinality(Below(v))
  <2>1. Below(w) \in SUBSET Below(v)
    BY <1>3, VcdPair DEF Before
  <2>2. w \in Below(v) /\ w \notin Below(w)
    BY <1>3, VcdPair DEF Before
  <2>3. Cardinality(Below(v)) \in Nat /\ Cardinality(Below(w)) \in Nat /\ IsFiniteSet(Below(v))
    BY <1>2
  <2> HIDE DEF Below
  <2>4. /\ Cardinality(Below(w)) <= Cardinality(Below(v))
        /\ (Cardinality(Below(v)) = Cardinality(Below(w)) => Below(v) = Below(w))
    BY <2>1, <2>3, FS_Subset
  <2> QED
    BY <2>2, <2>3, <2>4
<1>4. ASSUME NEW v \in S, NEW w \in S, v # w
      PROVE  Before(v, w) \/ Before(w, v)
  BY <1>4, VcdPair DEF Before
<1> HIDE DEF Below
<1>5. ASSUME NEW v \in S, NEW w \in S, rank[v] = rank[w]
      PROVE  v = w
  <2>1. /\ Cardinality(Below(v)) = Cardinality(Below(w))
        /\ Cardinality(Below(v)) \in Nat /\ Cardinality(Below(w)) \in Nat
    BY <1>2, <1>5
  <2>2. ~Before(v, w) /\ ~Before(w, v)
    BY <1>3, <2>1
  <2> QED
    BY <1>4, <2>2
<1>6. rank \in [S -> 0 .. n - 1]
  BY <1>1, <1>2
<1>7. rank \in Surjection(S, 0 .. n - 1)
  <2>1. rank \in Injection(S, 0 .. n - 1)
    BY <1>5, <1>6 DEF Injection, IsInjective
  <2>2. IsFiniteSet(0 .. n - 1) /\ Cardinality(0 .. n - 1) = n
    BY <1>1, FS_Interval
  <2> HIDE DEF rank
  <2> QED
    BY <2>1, <2>2, FS_Injection
<1>8. ASSUME NEW i \in 1 .. n
      PROVE  InDiscOrder(S)[i] \in S /\ rank[InDiscOrder(S)[i]] = i - 1
  <2>1. i - 1 \in 0 .. n - 1
    BY <1>1
  <2>2. \E v \in S : rank[v] = i - 1
    BY <1>7, <2>1 DEF Surjection
  <2>3. InDiscOrder(S)[i] = CHOOSE v \in S : Cardinality(Below(v)) = i - 1
    BY DEF InDiscOrder, Below
  <2> QED
    BY <2>2, <2>3
<1>9. InDiscOrder(S) \in [1 .. n -> S]
  <2> DEFINE at(i) == CHOOSE v \in S : Cardinality({w \in S : Before(w, v)}) = i - 1
  <2>1. InDiscOrder(S) = [i \in 1 .. n |-> at(i)]
    BY DEF InDiscOrder
  <2> HIDE DEF at
  <2>2. ASSUME NEW i \in 1 .. n PROVE at(i) \in S
    BY <1>8, <2>1
  <2> QED
    BY <2>1, <2>2
<1>10. InDiscOrder(S) \in Seq(S)
  BY <1>1, <1>9, SeqDef
<1>11. ASSUME NEW v \in S PROVE v \in Range(InDiscOrder(S))
  <2>1. rank[v] + 1 \in 1 .. n /\ (rank[v] + 1) - 1 = rank[v]
    BY <1>1, <1>6
  <2>2. InDiscOrder(S)[rank[v] + 1] = v
    BY <1>5, <1>8, <2>1
  <2> QED
    BY <1>9, <2>1, <2>2 DEF Range
<1>12. Range(InDiscOrder(S)) \subseteq S
  BY <1>10, RangeOfSeq
<1> QED
  BY <1>10, <1>11, <1>12, SeqMonotonic

\* A title on the drive is of discs that are, at least one of them.
LEMMA ScannedTitles ==
  ASSUME NEW g \in ScanPOPS
  PROVE  g \in Seq(Vcds) \ {<<>>} /\ g[1] \in Vcds /\ 1 \in DOMAIN g
<1>1. PICK v \in Present : g = InDiscOrder({w \in Present : SameTitle(v, w)})
  BY DEF ScanPOPS
<1>2. {w \in Present : SameTitle(v, w)} \in SUBSET Vcds /\ v \in {w \in Present : SameTitle(v, w)}
  BY DEF Present, SameTitle
<1>3. g \in Seq(Vcds) /\ v \in Range(g)
  BY <1>1, <1>2, InOrder
<1>4. g # <<>>
  BY <1>3 DEF Range
<1>5. 1 \in 1 .. Len(g)
  BY <1>3, <1>4, EmptySeq
<1> QED
  BY <1>3, <1>4, <1>5, ElementOfSeq, LenProperties

\* A release has a disc.
LEMMA ReleaseDiscs ==
  ASSUME NEW r \in Releases
  PROVE  /\ DiscsOf(r) \in Seq(Vcds) \ {<<>>} /\ DOMAIN DiscsOf(r) = 1 .. DiscCount[r]
         /\ \A i \in 1 .. DiscCount[r] : DiscsOf(r)[i] = <<r, i>>
         /\ DiscCount[r] \in Nat \ {0} /\ Len(DiscsOf(r)) = DiscCount[r]
<1>1. DiscCount[r] \in Nat \ {0}
  BY TitleFilesAssumption, LenProperties, ElementOfSeq DEF Releases
<1>2. DiscsOf(r) \in [1 .. DiscCount[r] -> Vcds]
  BY VcdOf DEF DiscsOf
<1>3. DiscsOf(r) \in Seq(Vcds)
  BY <1>1, <1>2, SeqDef
<1>4. DOMAIN DiscsOf(r) = 1 .. DiscCount[r] /\ Len(DiscsOf(r)) = DiscCount[r]
  BY <1>1, <1>2, <1>3, LenProperties
<1>5. DiscsOf(r) # <<>>
  BY <1>1, <1>3, <1>4, EmptySeq
<1> QED
  BY <1>1, <1>3, <1>4, <1>5 DEF DiscsOf

-----------------------------------------------------------------------------
(* Operations. *)

\* A step of an operation is about a file, or tidies a directory.
Work == [do : {"write", "delete"}, at : Files] \cup [do : {"tidy"}, at : Dirs]
Phases == {"lock", "vcd", "support", "launcher"}
Ops ==
  [kind : {"idle", "install", "remove", "repair"}, names : Seq(Vcds),
   wide : BOOLEAN, launcher : BOOLEAN, phase : Phases,
   todo : Seq(Work), writing : BOOLEAN, body : SUBSET Lines, warned : BOOLEAN]

\* What a phase writes, and what a removal deletes.
Written(phase) ==
  CASE phase = "vcd" -> {"vcd"} [] phase = "support" -> {"discs", "vmcdir", "cheats"}
    [] OTHER -> {"elf", "cfg"}
Deleted(phase) ==
  CASE phase = "vcd" -> {"vcd"} [] phase = "support" -> {"discs", "vmcdir"}
    [] OTHER -> {"elf", "cfg"}

\* Every step is about a disc the operation names, and the launcher's about the
\* first one but in a repair.
Expected(o, phase) ==
  {x \in Work :
     /\ o.kind # "idle" /\ x.at[2] \in Range(o.names)
     /\ phase = "launcher" /\ o.kind # "repair" => x.at[2] = o.names[1]
     /\ o.kind = "repair" => phase = "launcher"
     /\ o.kind = "install" /\ phase = "launcher" => o.launcher
     /\ IF o.kind = "remove" THEN x.do # "write" /\ (x.do = "delete" => x.at[1] \in Deleted(phase))
        ELSE x.do = "write" /\ x.at[1] \in Written(phase)}

\* A step that is there on a condition.
LEMMA Optional ==
  ASSUME NEW X, NEW b, NEW x, b => x \in X
  PROVE  /\ (IF b THEN <<x>> ELSE <<>>) \in Seq(X)
         /\ b => x \in Range(IF b THEN <<x>> ELSE <<>>)
<1>1. CASE b
  <2>1. <<x>> \in Seq(X) /\ <<x>>[1] = x /\ 1 \in DOMAIN <<x>>
    BY <1>1
  <2> QED
    BY <1>1, <2>1 DEF Range
<1>2. CASE ~b
  BY <1>2, EmptySeq
<1> QED
  BY <1>1, <1>2

LEMMA RangePrepend ==
  ASSUME NEW X, NEW a \in X, NEW s \in Seq(X)
  PROVE  Range(<<a>> \o s) = Range(s) \cup {a}
<1> DEFINE one == <<a>>
<1>1. one \in Seq(X) /\ Range(one) = {a}
  BY DEF Range
<1> HIDE DEF one
<1>2. Range(one \o s) = Range(one) \cup Range(s)
  BY <1>1, RangeConcatenation
<1> QED
  BY <1>1, <1>2 DEF one

LEMMA TwoSteps ==
  ASSUME NEW X, NEW a \in X, NEW b \in X
  PROVE  <<a, b>> \in Seq(X) /\ a \in Range(<<a, b>>) /\ b \in Range(<<a, b>>)
<1>1. <<a, b>> \in Seq(X) /\ <<a, b>>[1] = a /\ <<a, b>>[2] = b /\ DOMAIN <<a, b>> = 1 .. 2
  OBVIOUS
<1> QED
  BY <1>1 DEF Range

LEMMA ThreeSteps ==
  ASSUME NEW X, NEW a \in X, NEW b \in X, NEW c \in X
  PROVE  <<a, b, c>> \in Seq(X) /\ a \in Range(<<a, b, c>>) /\ b \in Range(<<a, b, c>>)
<1>1. /\ <<a, b, c>> \in Seq(X) /\ <<a, b, c>>[1] = a /\ <<a, b, c>>[2] = b
      /\ DOMAIN <<a, b, c>> = 1 .. 3
  OBVIOUS
<1> QED
  BY <1>1 DEF Range

LEMMA ConcatThree ==
  ASSUME NEW X, NEW a \in Seq(X), NEW b \in Seq(X), NEW c \in Seq(X)
  PROVE  /\ a \o b \o c \in Seq(X)
         /\ Range(a \o b \o c) = Range(a) \cup Range(b) \cup Range(c)
<1>1. a \o b \in Seq(X)
  BY ConcatProperties
<1>2. Range(a \o b) = Range(a) \cup Range(b)
  BY RangeConcatenation
<1>3. a \o b \o c \in Seq(X)
  BY <1>1, ConcatProperties
<1>4. Range(a \o b \o c) = Range(a \o b) \cup Range(c)
  BY ZenonT(30), <1>1, RangeConcatenation
<1> QED
  BY <1>2, <1>3, <1>4

\* The steps of each disc, flattened.
LEMMA FlattenSteps ==
  ASSUME NEW X, NEW n \in Nat, NEW f \in [1 .. n -> Seq(X)]
  PROVE  /\ FlattenSeq(f) \in Seq(X)
         /\ \A i \in 1 .. n : Range(f[i]) \subseteq Range(FlattenSeq(f))
<1>1. f \in Seq(Seq(X))
  BY SeqDef
<1>2. Len(f) = n
  BY <1>1, LenProperties
<1> QED
  BY <1>1, <1>2, FlattenProperties

\* A step about a file of a disc.
LEMMA FileStep ==
  ASSUME NEW v \in Vcds, NEW k \in Kinds, NEW w \in {"write", "delete"}
  PROVE  /\ Do(w, <<k, v>>) \in Work /\ Do(w, <<k, v>>).do = w
         /\ Do(w, <<k, v>>).at[1] = k /\ Do(w, <<k, v>>).at[2] = v
         /\ <<k, v>> \in Files
<1>1. <<k, v>> \in Files
  BY DEF Files
<1> QED
  BY <1>1 DEF Do, Work
LEMMA DirStep ==
  ASSUME NEW v \in Vcds, NEW k \in {"POPS", "APPS"}
  PROVE  /\ Do("tidy", <<k, v>>) \in Work /\ Do("tidy", <<k, v>>).do = "tidy"
         /\ Do("tidy", <<k, v>>).at[2] = v
<1>1. <<k, v>> \in Dirs
  BY DEF Dirs
<1> QED
  BY <1>1 DEF Do, Work

\* The discs an operation names.
LEMMA Named ==
  ASSUME NEW o \in Ops
  PROVE  /\ Len(o.names) \in Nat /\ DOMAIN o.names = 1 .. Len(o.names)
         /\ \A i \in DOMAIN o.names : o.names[i] \in Vcds /\ o.names[i] \in Range(o.names)
         /\ o.names # <<>> => 1 \in DOMAIN o.names
<1>1. o.names \in Seq(Vcds)
  BY DEF Ops
<1>2. /\ Len(o.names) \in Nat /\ DOMAIN o.names = 1 .. Len(o.names)
      /\ \A i \in DOMAIN o.names : o.names[i] \in Vcds
      /\ o.names # <<>> => Len(o.names) \in Nat \ {0}
  BY <1>1, LenProperties, ElementOfSeq, EmptySeq
<1> QED
  BY <1>2 DEF Range

\* What an install or a repair writes, and what a removal deletes and tidies.
LEMMA WriteExpected ==
  ASSUME NEW o, NEW phase, NEW v \in Vcds, v \in Range(o.names), NEW k \in Written(phase),
         o.kind \in {"install", "repair"}, o.kind = "repair" => phase = "launcher",
         o.kind = "install" /\ phase = "launcher" => o.launcher /\ v = o.names[1]
  PROVE  Do("write", <<k, v>>) \in Expected(o, phase)
<1> DEFINE x == Do("write", <<k, v>>)
<1>1. x \in Work /\ x.do = "write" /\ x.at[1] = k /\ x.at[2] = v
  <2>1. k \in Kinds
    BY DEF Written, Kinds
  <2> QED
    BY <2>1, FileStep
<1> HIDE DEF x
<1>2. x \in Expected(o, phase)
  BY <1>1 DEF Expected
<1> QED
  BY <1>2 DEF x
LEMMA DeleteExpected ==
  ASSUME NEW o, NEW phase, NEW v \in Vcds, v \in Range(o.names), NEW k \in Deleted(phase),
         o.kind = "remove", phase = "launcher" => v = o.names[1]
  PROVE  Do("delete", <<k, v>>) \in Expected(o, phase)
<1> DEFINE x == Do("delete", <<k, v>>)
<1>1. x \in Work /\ x.do = "delete" /\ x.at[1] = k /\ x.at[2] = v
  <2>1. k \in Kinds
    BY DEF Deleted, Kinds
  <2> QED
    BY <2>1, FileStep
<1> HIDE DEF x
<1>2. x \in Expected(o, phase)
  BY <1>1 DEF Expected
<1> QED
  BY <1>2 DEF x
LEMMA TidyExpected ==
  ASSUME NEW o, NEW phase, NEW v \in Vcds, v \in Range(o.names), NEW k \in {"POPS", "APPS"},
         o.kind = "remove", phase = "launcher" => v = o.names[1]
  PROVE  Do("tidy", <<k, v>>) \in Expected(o, phase)
<1> DEFINE x == Do("tidy", <<k, v>>)
<1>1. x \in Work /\ x.do = "tidy" /\ x.at[2] = v
  BY DirStep
<1> HIDE DEF x
<1>2. x \in Expected(o, phase)
  BY <1>1 DEF Expected
<1> QED
  BY <1>2 DEF x

\* The steps are of those expected, and all of them.
LEMMA InstallSteps ==
  ASSUME NEW o \in Ops, o.kind = "install", o.names # <<>>
  PROVE  /\ \A phase \in Phases : Steps(o, phase) \in Seq(Expected(o, phase))
         /\ \A i \in DOMAIN o.names :
              /\ Do("write", <<"vcd", o.names[i]>>) \in Range(Steps(o, "vcd"))
              /\ Len(o.names) > 1 =>
                   Do("write", <<"discs", o.names[i]>>) \in Range(Steps(o, "support"))
              /\ i > 1 => Do("write", <<"vmcdir", o.names[i]>>) \in Range(Steps(o, "support"))
              /\ o.wide => Do("write", <<"cheats", o.names[i]>>) \in Range(Steps(o, "support"))
         /\ o.launcher => /\ Do("write", <<"elf", o.names[1]>>) \in Range(Steps(o, "launcher"))
                          /\ Do("write", <<"cfg", o.names[1]>>) \in Range(Steps(o, "launcher"))
<1> DEFINE n == Len(o.names)
<1>1. /\ n \in Nat /\ DOMAIN o.names = 1 .. n /\ 1 \in DOMAIN o.names
      /\ \A i \in DOMAIN o.names : o.names[i] \in Vcds /\ o.names[i] \in Range(o.names)
  BY Named
<1>2. /\ VcdWrites(o) \in Seq(Expected(o, "vcd"))
      /\ \A i \in DOMAIN o.names : Do("write", <<"vcd", o.names[i]>>) \in Range(VcdWrites(o))
  <2>1. ASSUME NEW i \in 1 .. n
        PROVE  Do("write", <<"vcd", o.names[i]>>) \in Expected(o, "vcd")
    BY <1>1, WriteExpected DEF Written
  <2>2. VcdWrites(o) \in [1 .. n -> Expected(o, "vcd")]
    BY <1>1, <2>1 DEF VcdWrites
  <2>3. VcdWrites(o) \in Seq(Expected(o, "vcd"))
    BY <1>1, <2>2, SeqDef
  <2> QED
    BY <1>1, <2>3 DEF VcdWrites, Range
<1>3. /\ SupportWrites(o) \in Seq(Expected(o, "support"))
      /\ \A i \in DOMAIN o.names :
           /\ Len(o.names) > 1 => Do("write", <<"discs", o.names[i]>>) \in Range(SupportWrites(o))
           /\ i > 1 => Do("write", <<"vmcdir", o.names[i]>>) \in Range(SupportWrites(o))
           /\ o.wide => Do("write", <<"cheats", o.names[i]>>) \in Range(SupportWrites(o))
  <2> DEFINE X == Expected(o, "support")
             d(i) == IF Len(o.names) > 1 THEN <<Do("write", <<"discs", o.names[i]>>)>> ELSE <<>>
             m(i) == IF i > 1 THEN <<Do("write", <<"vmcdir", o.names[i]>>)>> ELSE <<>>
             c(i) == IF o.wide THEN <<Do("write", <<"cheats", o.names[i]>>)>> ELSE <<>>
             of == [i \in 1 .. n |-> d(i) \o m(i) \o c(i)]
  <2>1. SupportWrites(o) = FlattenSeq(of)
    BY <1>1 DEF SupportWrites
  <2>2. ASSUME NEW i \in 1 .. n, NEW k \in {"discs", "vmcdir", "cheats"}
        PROVE  Do("write", <<k, o.names[i]>>) \in X
    BY <1>1, WriteExpected DEF Written
  <2> HIDE DEF X
  <2>3. ASSUME NEW i \in 1 .. n
        PROVE  /\ d(i) \in Seq(X) /\ m(i) \in Seq(X) /\ c(i) \in Seq(X)
               /\ Len(o.names) > 1 => Do("write", <<"discs", o.names[i]>>) \in Range(d(i))
               /\ i > 1 => Do("write", <<"vmcdir", o.names[i]>>) \in Range(m(i))
               /\ o.wide => Do("write", <<"cheats", o.names[i]>>) \in Range(c(i))
    <3>1. d(i) \in Seq(X) /\ (Len(o.names) > 1 => Do("write", <<"discs", o.names[i]>>) \in Range(d(i)))
      BY <2>2, Optional
    <3>2. m(i) \in Seq(X) /\ (i > 1 => Do("write", <<"vmcdir", o.names[i]>>) \in Range(m(i)))
      BY <2>2, Optional
    <3>3. c(i) \in Seq(X) /\ (o.wide => Do("write", <<"cheats", o.names[i]>>) \in Range(c(i)))
      BY <2>2, Optional
    <3> QED
      BY <3>1, <3>2, <3>3
  <2> HIDE DEF d, m, c
  <2>4. ASSUME NEW i \in 1 .. n
        PROVE  /\ d(i) \o m(i) \o c(i) \in Seq(X)
               /\ Range(d(i) \o m(i) \o c(i)) = Range(d(i)) \cup Range(m(i)) \cup Range(c(i))
    <3>1. d(i) \in Seq(X) /\ m(i) \in Seq(X) /\ c(i) \in Seq(X)
      BY <2>3
    <3> QED
      BY ONLY <3>1, ConcatThree
  <2>5. of \in [1 .. n -> Seq(X)]
    BY <2>4
  <2>6. ASSUME NEW i \in 1 .. n
        PROVE  Range(d(i)) \cup Range(m(i)) \cup Range(c(i)) \subseteq Range(FlattenSeq(of))
    <3>1. Range(of[i]) \subseteq Range(FlattenSeq(of))
      BY <1>1, <2>5, FlattenSteps
    <3>2. of[i] = d(i) \o m(i) \o c(i)
      OBVIOUS
    <3> QED
      BY <2>4, <3>1, <3>2
  <2>7. FlattenSeq(of) \in Seq(X)
    BY <1>1, <2>5, FlattenSteps
  <2> HIDE DEF of
  <2> QED
    BY <1>1, <2>1, <2>3, <2>6, <2>7 DEF X
<1>4. o.launcher => /\ LauncherWrites(o.names[1]) \in Seq(Expected(o, "launcher"))
                    /\ Do("write", <<"elf", o.names[1]>>) \in Range(LauncherWrites(o.names[1]))
                    /\ Do("write", <<"cfg", o.names[1]>>) \in Range(LauncherWrites(o.names[1]))
  <2> SUFFICES ASSUME o.launcher
               PROVE  /\ LauncherWrites(o.names[1]) \in Seq(Expected(o, "launcher"))
                      /\ Do("write", <<"elf", o.names[1]>>) \in Range(LauncherWrites(o.names[1]))
                      /\ Do("write", <<"cfg", o.names[1]>>) \in Range(LauncherWrites(o.names[1]))
    OBVIOUS
  <2>1. ASSUME NEW k \in {"elf", "cfg"}
        PROVE  Do("write", <<k, o.names[1]>>) \in Expected(o, "launcher")
    BY <1>1, WriteExpected DEF Written
  <2> QED
    BY <2>1, TwoSteps DEF LauncherWrites
<1>5. /\ Steps(o, "lock") = <<>> /\ Steps(o, "vcd") = VcdWrites(o)
      /\ Steps(o, "support") = SupportWrites(o)
      /\ Steps(o, "launcher") = IF o.launcher THEN LauncherWrites(o.names[1]) ELSE <<>>
  BY DEF Steps
<1> QED
  BY <1>2, <1>3, <1>4, <1>5, EmptySeq DEF Phases

LEMMA RemoveSteps ==
  ASSUME NEW o \in Ops, o.kind = "remove", o.names # <<>>
  PROVE  /\ \A phase \in Phases : Steps(o, phase) \in Seq(Expected(o, phase))
         /\ \A i \in DOMAIN o.names :
              /\ Do("delete", <<"vcd", o.names[i]>>) \in Range(Steps(o, "vcd"))
              /\ Do("delete", <<"discs", o.names[i]>>) \in Range(Steps(o, "support"))
              /\ Do("delete", <<"vmcdir", o.names[i]>>) \in Range(Steps(o, "support"))
         /\ Do("delete", <<"elf", o.names[1]>>) \in Range(Steps(o, "launcher"))
         /\ Do("delete", <<"cfg", o.names[1]>>) \in Range(Steps(o, "launcher"))
<1> DEFINE n == Len(o.names)
<1>1. /\ n \in Nat /\ DOMAIN o.names = 1 .. n /\ 1 \in DOMAIN o.names
      /\ \A i \in DOMAIN o.names : o.names[i] \in Vcds /\ o.names[i] \in Range(o.names)
  BY Named
<1>2. /\ VcdDeletes(o) \in Seq(Expected(o, "vcd"))
      /\ \A i \in DOMAIN o.names : Do("delete", <<"vcd", o.names[i]>>) \in Range(VcdDeletes(o))
  <2>1. ASSUME NEW i \in 1 .. n
        PROVE  Do("delete", <<"vcd", o.names[i]>>) \in Expected(o, "vcd")
    BY <1>1, DeleteExpected DEF Deleted
  <2>2. VcdDeletes(o) \in [1 .. n -> Expected(o, "vcd")]
    BY <1>1, <2>1 DEF VcdDeletes
  <2>3. VcdDeletes(o) \in Seq(Expected(o, "vcd"))
    BY <1>1, <2>2, SeqDef
  <2> QED
    BY <1>1, <2>3 DEF VcdDeletes, Range
<1>3. /\ SupportDeletes(o) \in Seq(Expected(o, "support"))
      /\ \A i \in DOMAIN o.names : \A k \in {"discs", "vmcdir"} :
           Do("delete", <<k, o.names[i]>>) \in Range(SupportDeletes(o))
  <2> DEFINE X == Expected(o, "support")
             of(v) == <<Do("delete", <<"discs", v>>), Do("delete", <<"vmcdir", v>>),
                        Do("tidy", <<"POPS", v>>)>>
             all == [i \in 1 .. n |-> of(o.names[i])]
  <2>1. SupportDeletes(o) = FlattenSeq(all)
    BY <1>1 DEF SupportDeletes
  <2>2. ASSUME NEW i \in 1 .. n
        PROVE  /\ of(o.names[i]) \in Seq(X)
               /\ \A k \in {"discs", "vmcdir"} :
                    Do("delete", <<k, o.names[i]>>) \in Range(of(o.names[i]))
    <3>1. /\ Do("delete", <<"discs", o.names[i]>>) \in X
          /\ Do("delete", <<"vmcdir", o.names[i]>>) \in X
      BY <1>1, DeleteExpected DEF Deleted
    <3>2. Do("tidy", <<"POPS", o.names[i]>>) \in X
      BY <1>1, TidyExpected
    <3> HIDE DEF X
    <3> QED
      BY <3>1, <3>2, ThreeSteps
  <2> HIDE DEF of, X
  <2>3. all \in [1 .. n -> Seq(X)]
    BY <2>2
  <2>4. /\ FlattenSeq(all) \in Seq(X)
        /\ \A i \in 1 .. n : Range(all[i]) \subseteq Range(FlattenSeq(all))
    BY <1>1, <2>3, FlattenSteps
  <2>5. \A i \in 1 .. n : all[i] = of(o.names[i])
    OBVIOUS
  <2> HIDE DEF all
  <2> QED
    BY <1>1, <2>1, <2>2, <2>4, <2>5 DEF X
<1>4. /\ LauncherDeletes(o.names[1]) \in Seq(Expected(o, "launcher"))
      /\ \A k \in {"elf", "cfg"} :
           Do("delete", <<k, o.names[1]>>) \in Range(LauncherDeletes(o.names[1]))
  <2>1. /\ Do("delete", <<"elf", o.names[1]>>) \in Expected(o, "launcher")
        /\ Do("delete", <<"cfg", o.names[1]>>) \in Expected(o, "launcher")
    BY <1>1, DeleteExpected DEF Deleted
  <2>2. Do("tidy", <<"APPS", o.names[1]>>) \in Expected(o, "launcher")
    BY <1>1, TidyExpected
  <2> QED
    BY <2>1, <2>2, ThreeSteps DEF LauncherDeletes
<1>5. /\ Steps(o, "lock") = <<>> /\ Steps(o, "vcd") = VcdDeletes(o)
      /\ Steps(o, "support") = SupportDeletes(o)
      /\ Steps(o, "launcher") = LauncherDeletes(o.names[1])
  BY DEF Steps
<1> QED
  BY <1>2, <1>3, <1>4, <1>5, EmptySeq DEF Phases

LEMMA RepairSteps ==
  ASSUME NEW o \in Ops, o.kind = "repair", o.names # <<>>
  PROVE  /\ \A phase \in Phases : Steps(o, phase) \in Seq(Expected(o, phase))
         /\ \A i \in DOMAIN o.names :
              /\ Do("write", <<"elf", o.names[i]>>) \in Range(Steps(o, "launcher"))
              /\ Do("write", <<"cfg", o.names[i]>>) \in Range(Steps(o, "launcher"))
<1> DEFINE n == Len(o.names)
           X == Expected(o, "launcher")
           all == [i \in 1 .. n |-> LauncherWrites(o.names[i])]
<1>1. /\ n \in Nat /\ DOMAIN o.names = 1 .. n
      /\ \A i \in DOMAIN o.names : o.names[i] \in Vcds /\ o.names[i] \in Range(o.names)
  BY Named
<1>2. /\ Steps(o, "lock") = <<>> /\ Steps(o, "vcd") = <<>> /\ Steps(o, "support") = <<>>
      /\ Steps(o, "launcher") = FlattenSeq(all)
  BY <1>1 DEF Steps
<1>3. ASSUME NEW i \in 1 .. n
      PROVE  /\ LauncherWrites(o.names[i]) \in Seq(X)
             /\ \A k \in {"elf", "cfg"} :
                  Do("write", <<k, o.names[i]>>) \in Range(LauncherWrites(o.names[i]))
  <2>1. /\ Do("write", <<"elf", o.names[i]>>) \in X
        /\ Do("write", <<"cfg", o.names[i]>>) \in X
    BY <1>1, WriteExpected DEF Written
  <2> HIDE DEF X
  <2> QED
    BY <2>1, TwoSteps DEF LauncherWrites
<1> HIDE DEF X
<1>4. all \in [1 .. n -> Seq(X)]
  BY <1>3
<1>5. /\ FlattenSeq(all) \in Seq(X)
      /\ \A i \in 1 .. n : Range(all[i]) \subseteq Range(FlattenSeq(all))
  BY <1>1, <1>4, FlattenSteps
<1>6. \A i \in 1 .. n : all[i] = LauncherWrites(o.names[i])
  OBVIOUS
<1> HIDE DEF all
<1> QED
  BY <1>1, <1>2, <1>3, <1>5, <1>6, EmptySeq DEF X, Phases

-----------------------------------------------------------------------------
(* The inductive invariant. *)

Shape ==
  /\ disk \in [Files -> SUBSET Lines] /\ dirs \subseteq Dirs
  /\ op \in [Threads -> Ops] /\ lock \in Threads \cup {"free"}
  /\ catalog \subseteq Seq(Vcds) \ {<<>>}
  /\ faults \in Nat /\ mine \subseteq Files

\* An operation past the lock has it; one that waits for it has done nothing.
Waiting(o) == o.phase = "lock" /\ ~o.writing /\ o.todo = <<>> /\ ~o.warned
Turn ==
  \A t \in Threads :
    /\ IF lock = t THEN op[t].phase # "lock" ELSE Waiting(op[t])
    /\ op[t].kind = "idle" => op[t] = Idle
    /\ op[t].kind # "idle" => op[t].names # <<>>

\* What is left to do is of the phase's steps.
Follows ==
  \A t \in Threads : op[t].todo \in Seq(Range(Steps(op[t], op[t].phase)))

\* An install is of a release; a repair that goes on has not failed.
Installing ==
  \A t \in Threads :
    /\ op[t].kind = "install" => \E r \in Releases : op[t].names = DiscsOf(r)
    /\ op[t].kind = "repair" => ~op[t].warned

\* A file half written has been emptied, and is the step at hand.
HalfWritten ==
  \A t \in Threads : op[t].writing => At(t, "write") /\ disk[Where(t)] = Part

\* A file is in a directory that exists.
Housed == \A d \in Dirs : \A f \in In(d) : Exists(f) => d \in dirs

\* What there is of the user's is a card or codes.
Belongings ==
  /\ \A f \in mine : f[1] \in {"card", "cheats"}
  /\ \A v \in Vcds : disk[<<"card", v>>] \subseteq Whole

\* What a step is for has been done.
Holds(x) ==
  /\ x.do = "write" => IF x.at[1] = "cheats" THEN "ours" \in disk[x.at]
                       ELSE disk[x.at] = Whole
  /\ x.do = "delete" => disk[x.at] = None

\* Every step of the phases so far has been done or is still to be.
Reached(phase) ==
  CASE phase = "lock" -> {} [] phase = "vcd" -> {"vcd"}
    [] phase = "support" -> {"vcd", "support"} [] OTHER -> {"vcd", "support", "launcher"}
Left(o, x) == x \in Range(o.todo)
Progress ==
  \A t \in Threads : ~op[t].warned =>
    \A q \in Reached(op[t].phase) : \A x \in Range(Steps(op[t], q)) : Left(op[t], x) \/ Holds(x)

\* A repair is alone, and goes over every title that may need it.
Listed(v) == Boots(v) /\ (faults = 0 => disk[<<"elf", v>>] = Whole)
Repairing ==
  /\ \A t \in Threads : op[t].kind = "repair" => t = "setup"
  /\ op["setup"].kind # "idle" => \A t \in Threads \ {"setup"} : op[t] = Idle
  /\ op["setup"].kind = "repair" =>
       \A g \in ScanPOPS : g[1] \in Range(op["setup"].names) \/ Listed(g[1])

\* Before anything has failed, an entry without its program is one that is being
\* written or removed.
Pending(t, v) == Left(op[t], Do("write", <<"elf", v>>)) \/ Left(op[t], Do("delete", <<"cfg", v>>))
Entries ==
  faults = 0 =>
    /\ \A t \in Threads : ~op[t].warned
    /\ \A v \in Vcds : Boots(v) => disk[<<"elf", v>>] = Whole \/ \E t \in Threads : Pending(t, v)

Control == Shape /\ Turn /\ Follows /\ Installing
TInv ==
  /\ Control /\ HalfWritten /\ Housed /\ Belongings /\ UserFilesKept
  /\ Progress /\ Repairing /\ Entries

-----------------------------------------------------------------------------
(* The operation of a thread, and the lock. *)

\* The steps depend on what the operation is, not on how far it is.
LEMMA SameSteps ==
  ASSUME NEW o, NEW p, NEW q, o.kind = p.kind, o.names = p.names, o.wide = p.wide,
         o.launcher = p.launcher
  PROVE  Steps(o, q) = Steps(p, q)
  BY DEF Steps, VcdWrites, SupportWrites, VcdDeletes, SupportDeletes

LEMMA StepsExpected ==
  ASSUME NEW o \in Ops, NEW q \in Phases, o.kind # "idle" => o.names # <<>>
  PROVE  /\ Steps(o, q) \in Seq(Expected(o, q)) /\ Steps(o, q) \in Seq(Work)
         /\ Range(Steps(o, q)) \subseteq Expected(o, q)
<1>1. Steps(o, q) \in Seq(Expected(o, q))
  <2>1. CASE o.kind = "idle"
    <3>1. Steps(o, q) = <<>>
      BY <2>1 DEF Steps
    <3> QED
      BY <3>1, EmptySeq
  <2>2. o.kind \in {"idle", "install", "remove", "repair"}
    BY DEF Ops
  <2> QED
    BY <2>1, <2>2, InstallSteps, RemoveSteps, RepairSteps
<1>2. Expected(o, q) \subseteq Work
  BY DEF Expected
<1>3. Steps(o, q) \in Seq(Work)
  BY <1>1, <1>2, SeqMonotonic
<1> QED
  BY <1>1, <1>3, RangeOfSeq

\* The step at hand is one the operation should take, and no other thread's
\* operation is at one.
LEMMA AtHand ==
  ASSUME Control, NEW t \in Threads, op[t].todo # <<>>
  PROVE  /\ Head(op[t].todo) \in Expected(op[t], op[t].phase)
         /\ Head(op[t].todo) \in Range(Steps(op[t], op[t].phase))
         /\ lock = t /\ op[t].phase # "lock" /\ op[t].kind # "idle"
         /\ Tail(op[t].todo) \in Seq(Range(Steps(op[t], op[t].phase)))
         /\ Tail(op[t].todo) \in Seq(Work)
         /\ Range(op[t].todo) = Range(Tail(op[t].todo)) \cup {Head(op[t].todo)}
         /\ Head(op[t].todo) \in Work
         /\ \A u \in Threads \ {t} : Waiting(op[u])
<1>1. op[t] \in Ops /\ op[t].phase \in Phases /\ op[t].todo \in Seq(Work)
  BY DEF Control, Shape, Ops
<1>2. lock = t /\ op[t].phase # "lock" /\ \A u \in Threads \ {t} : Waiting(op[u])
  BY DEF Control, Turn, Waiting
<1>3. op[t].kind # "idle"
  BY <1>2 DEF Control, Turn, Idle
<1>4. op[t].todo \in Seq(Range(Steps(op[t], op[t].phase)))
  BY DEF Control, Follows
<1>5. Range(Steps(op[t], op[t].phase)) \subseteq Expected(op[t], op[t].phase)
  BY <1>1, <1>3, StepsExpected DEF Control, Turn
<1>6. /\ Head(op[t].todo) \in Range(Steps(op[t], op[t].phase))
      /\ Tail(op[t].todo) \in Seq(Range(Steps(op[t], op[t].phase)))
  BY <1>4, HeadTailProperties
<1>7. Head(op[t].todo) \in Work /\ Tail(op[t].todo) \in Seq(Work)
  BY <1>1, HeadTailProperties
<1>8. Range(op[t].todo) = Range(Tail(op[t].todo)) \cup {Head(op[t].todo)}
  <2>1. op[t].todo = <<Head(op[t].todo)>> \o Tail(op[t].todo)
    BY <1>1
  <2> QED
    BY <1>7, <2>1, RangePrepend
<1> QED
  BY <1>2, <1>3, <1>5, <1>6, <1>7, <1>8

\* One thread's operation changes, and the lock goes with it.
Becomes(t, o) == op' = [op EXCEPT ![t] = o]
LEMMA OneMoves ==
  ASSUME Control, NEW t \in Threads, NEW o \in Ops, Becomes(t, o),
         IF lock' = t THEN o.phase # "lock" ELSE Waiting(o),
         lock' \in {lock, t, "free"}, lock' # lock => lock \in {t, "free"},
         o.kind = "idle" => o = Idle, o.kind # "idle" => o.names # <<>>,
         o.todo \in Seq(Range(Steps(o, o.phase))),
         o.kind = "install" => \E r \in Releases : o.names = DiscsOf(r),
         o.kind = "repair" => ~o.warned
  PROVE  /\ op' \in [Threads -> Ops] /\ lock' \in Threads \cup {"free"}
         /\ Turn' /\ Follows' /\ Installing'
<1>1. op \in [Threads -> Ops] /\ lock \in Threads \cup {"free"} /\ "free" \notin Threads
  BY DEF Control, Shape, Threads
<1>2. op'[t] = o /\ \A u \in Threads \ {t} : op'[u] = op[u]
  BY <1>1 DEF Becomes
<1>3. op' \in [Threads -> Ops] /\ lock' \in Threads \cup {"free"}
  BY <1>1 DEF Becomes
<1>4. Turn'
  BY <1>1, <1>2 DEF Control, Turn
<1>5. Follows'
  BY <1>1, <1>2 DEF Control, Follows
<1>6. Installing'
  BY <1>1, <1>2 DEF Control, Installing
<1> QED
  BY <1>3, <1>4, <1>5, <1>6

\* What every move of a thread's operation keeps.
Moved == op' \in [Threads -> Ops] /\ lock' \in Threads \cup {"free"} /\ Turn' /\ Follows' /\ Installing'

LEMMA IdleOp ==
  Idle \in Ops /\ Waiting(Idle) /\ \A q : Steps(Idle, q) = <<>>
<1>1. <<>> \in Seq(Vcds) /\ <<>> \in Seq(Work)
  BY EmptySeq
<1> QED
  BY <1>1 DEF Idle, Ops, Waiting, Steps, Phases, None

\* The step at hand is done.
LEMMA PopMoves ==
  ASSUME Control, NEW t \in Threads, op[t].todo # <<>>,
         op' = [op EXCEPT ![t] = Done(@)], lock' = lock
  PROVE  /\ Moved
         /\ \A u \in Threads \ {t} : op'[u] = op[u]
         /\ op'[t].todo = Tail(op[t].todo) /\ op'[t].phase = op[t].phase
         /\ op'[t].warned = op[t].warned /\ ~op'[t].writing
         /\ op'[t].kind = op[t].kind /\ op'[t].names = op[t].names
         /\ \A q : Steps(op'[t], q) = Steps(op[t], q)
<1> DEFINE o == Done(op[t])
<1>1. /\ op[t] \in Ops /\ op \in [Threads -> Ops]
      /\ lock = t /\ op[t].phase # "lock" /\ op[t].kind # "idle" /\ op[t].names # <<>>
      /\ Tail(op[t].todo) \in Seq(Work)
      /\ Tail(op[t].todo) \in Seq(Range(Steps(op[t], op[t].phase)))
  BY AtHand DEF Control, Shape, Turn
<1>2. /\ o \in Ops /\ o.todo = Tail(op[t].todo) /\ o.phase = op[t].phase /\ o.kind = op[t].kind
      /\ o.names = op[t].names /\ o.wide = op[t].wide /\ o.launcher = op[t].launcher
      /\ o.warned = op[t].warned /\ ~o.writing
  BY <1>1 DEF Done, Ops, None
<1>3. \A q : Steps(o, q) = Steps(op[t], q)
  BY <1>2, SameSteps
<1>4. Becomes(t, o)
  BY DEF Becomes
<1> HIDE DEF o
<1>5. /\ op[t].kind = "install" => \E r \in Releases : op[t].names = DiscsOf(r)
      /\ op[t].kind = "repair" => ~op[t].warned
  BY DEF Control, Installing
<1>6. Moved
  BY <1>1, <1>2, <1>3, <1>4, <1>5, OneMoves DEF Moved
<1>7. op'[t] = o /\ \A u \in Threads \ {t} : op'[u] = op[u]
  BY <1>1, <1>4 DEF Becomes
<1> QED
  BY <1>2, <1>3, <1>6, <1>7

\* A write begins.
LEMMA BeginMoves ==
  ASSUME Control, NEW t \in Threads, op[t].todo # <<>>, NEW b \in SUBSET Lines,
         op' = [op EXCEPT ![t].writing = TRUE, ![t].body = b], lock' = lock
  PROVE  /\ Moved
         /\ \A u \in Threads \ {t} : op'[u] = op[u]
         /\ op'[t].todo = op[t].todo /\ op'[t].phase = op[t].phase
         /\ op'[t].warned = op[t].warned /\ op'[t].writing /\ op'[t].body = b
         /\ op'[t].kind = op[t].kind /\ op'[t].names = op[t].names
         /\ \A q : Steps(op'[t], q) = Steps(op[t], q)
<1> DEFINE o == [op[t] EXCEPT !.writing = TRUE, !.body = b]
<1>1. /\ op[t] \in Ops /\ op \in [Threads -> Ops]
      /\ lock = t /\ op[t].phase # "lock" /\ op[t].kind # "idle" /\ op[t].names # <<>>
      /\ op[t].todo \in Seq(Range(Steps(op[t], op[t].phase)))
  BY AtHand DEF Control, Shape, Turn, Follows
<1>2. /\ o \in Ops /\ o.todo = op[t].todo /\ o.phase = op[t].phase /\ o.kind = op[t].kind
      /\ o.names = op[t].names /\ o.wide = op[t].wide /\ o.launcher = op[t].launcher
      /\ o.warned = op[t].warned /\ o.writing /\ o.body = b
  BY <1>1 DEF Ops
<1>3. Becomes(t, o)
  BY <1>1 DEF Becomes
<1> HIDE DEF o
<1>4. \A q : Steps(o, q) = Steps(op[t], q)
  BY <1>2, SameSteps
<1>5. /\ op[t].kind = "install" => \E r \in Releases : op[t].names = DiscsOf(r)
      /\ op[t].kind = "repair" => ~op[t].warned
  BY DEF Control, Installing
<1>6. Moved
  BY <1>1, <1>2, <1>4, <1>3, <1>5, OneMoves DEF Moved
<1>7. op'[t] = o /\ \A u \in Threads \ {t} : op'[u] = op[u]
  BY <1>1, <1>3 DEF Becomes
<1> QED
  BY <1>2, <1>4, <1>6, <1>7

\* An operation comes to its next partition, or to its first with the lock.
LEMMA EnterMoves ==
  ASSUME Control, NEW t \in Threads, op[t].kind # "idle",
         NEW q \in {"vcd", "support", "launcher"},
         op' = [op EXCEPT ![t] = InPhase(@, q)], lock' = t, lock \in {t, "free"}
  PROVE  /\ Moved
         /\ \A u \in Threads \ {t} : op'[u] = op[u]
         /\ op'[t].todo = Steps(op[t], q) /\ op'[t].phase = q
         /\ op'[t].warned = op[t].warned /\ ~op'[t].writing
         /\ op'[t].kind = op[t].kind /\ op'[t].names = op[t].names
         /\ \A p : Steps(op'[t], p) = Steps(op[t], p)
<1> DEFINE o == InPhase(op[t], q)
<1>1. op[t] \in Ops /\ op \in [Threads -> Ops] /\ op[t].names # <<>> /\ q \in Phases
  BY DEF Control, Shape, Turn, Phases
<1>2. Steps(op[t], q) \in Seq(Work) /\ Steps(op[t], q) \in Seq(Range(Steps(op[t], q)))
  BY <1>1, StepsExpected, SeqOfRange
<1>3. /\ o \in Ops /\ o.todo = Steps(op[t], q) /\ o.phase = q /\ o.kind = op[t].kind
      /\ o.names = op[t].names /\ o.wide = op[t].wide /\ o.launcher = op[t].launcher
      /\ o.warned = op[t].warned /\ ~o.writing
  BY <1>1, <1>2 DEF InPhase, Ops, None
<1>4. \A p : Steps(o, p) = Steps(op[t], p)
  BY <1>3, SameSteps
<1>5. Becomes(t, o)
  BY DEF Becomes
<1> HIDE DEF o
<1>6. /\ op[t].kind = "install" => \E r \in Releases : op[t].names = DiscsOf(r)
      /\ op[t].kind = "repair" => ~op[t].warned
  BY DEF Control, Installing
<1>7. Moved
  BY <1>1, <1>2, <1>3, <1>4, <1>5, <1>6, OneMoves DEF Moved
<1>8. op'[t] = o /\ \A u \in Threads \ {t} : op'[u] = op[u]
  BY <1>1, <1>5 DEF Becomes
<1> QED
  BY <1>3, <1>4, <1>7, <1>8

\* An operation is over.
LEMMA EndMoves ==
  ASSUME Control, NEW t \in Threads, lock = t,
         op' = [op EXCEPT ![t] = Idle], lock' = "free"
  PROVE  Moved /\ op'[t] = Idle /\ \A u \in Threads \ {t} : op'[u] = op[u]
<1>1. op \in [Threads -> Ops] /\ Becomes(t, Idle)
  BY DEF Control, Shape, Becomes
<1>2. Idle \in Ops /\ Waiting(Idle) /\ Idle.kind = "idle" /\ Idle.todo \in Seq(Range(Steps(Idle, Idle.phase)))
  BY IdleOp, EmptySeq DEF Idle
<1>3. lock' # t
  BY DEF Threads
<1>4. Moved
  BY <1>1, <1>2, <1>3, OneMoves DEF Moved
<1> QED
  BY <1>1, <1>4 DEF Becomes

\* A failure ends it, or goes on to the launcher with a warning.
LEMMA FailMoves ==
  ASSUME Control, NEW t \in Threads, op[t].todo # <<>>, Fail(t)
  PROVE  /\ Moved
         /\ \A u \in Threads \ {t} : op'[u] = op[u]
         /\ \/ op'[t] = Idle
            \/ /\ op'[t].warned /\ ~op'[t].writing /\ op'[t].phase = "launcher"
               /\ op'[t].kind = op[t].kind /\ op'[t].names = op[t].names
               /\ op[t].phase # "vcd" /\ op[t].kind # "repair"
<1>1. /\ op[t] \in Ops /\ op \in [Threads -> Ops] /\ op[t].phase \in Phases
      /\ lock = t /\ op[t].phase # "lock" /\ op[t].kind # "idle" /\ op[t].names # <<>>
  BY AtHand DEF Control, Shape, Turn, Ops
<1>2. CASE op[t].phase = "vcd" \/ op[t].kind = "repair"
  <2>1. op' = [op EXCEPT ![t] = Idle] /\ lock' = "free"
    BY <1>2 DEF Fail, Failed
  <2> QED
    BY <1>1, <2>1, EndMoves
<1>3. CASE op[t].phase # "vcd" /\ op[t].kind # "repair"
  <2> DEFINE o == Failed(op[t])
  <2>1. Steps(op[t], "launcher") \in Seq(Work) /\ <<>> \in Seq(Work)
        /\ Steps(op[t], "launcher") \in Seq(Range(Steps(op[t], "launcher")))
        /\ <<>> \in Seq(Range(Steps(op[t], "launcher")))
    BY <1>1, StepsExpected, SeqOfRange, EmptySeq DEF Phases
  <2>2. op[t].phase \in {"support", "launcher"}
    BY <1>1, <1>3 DEF Phases
  <2>3. /\ o \in Ops /\ o.phase = "launcher" /\ o.kind = op[t].kind
        /\ o.names = op[t].names /\ o.wide = op[t].wide /\ o.launcher = op[t].launcher
        /\ o.warned /\ ~o.writing /\ o.todo \in {Steps(op[t], "launcher"), <<>>}
    <3>1. CASE op[t].phase = "support"
      BY <1>1, <1>3, <2>1, <3>1 DEF Failed, InPhase, Ops, None, Phases
    <3>2. CASE op[t].phase = "launcher"
      BY <1>1, <1>3, <2>1, <3>2 DEF Failed, Ops, None, Phases
    <3> QED
      BY <2>2, <3>1, <3>2
  <2>4. o # Idle
    BY <2>3 DEF Idle
  <2>5. Becomes(t, o) /\ lock' = lock
    BY <2>4 DEF Becomes, Fail
  <2>6. \A p : Steps(o, p) = Steps(op[t], p)
    BY <2>3, SameSteps
  <2> HIDE DEF o
  <2>7. /\ op[t].kind = "install" => \E r \in Releases : op[t].names = DiscsOf(r)
        /\ op[t].kind = "repair" => ~op[t].warned
    BY DEF Control, Installing
  <2>8. o.todo \in Seq(Range(Steps(o, o.phase)))
    BY <2>1, <2>3, <2>6
  <2>9. o.kind # "repair"
    BY <1>3, <2>3
  <2>10. Moved
    BY <1>1, <2>3, <2>5, <2>7, <2>8, <2>9, OneMoves DEF Moved
  <2>11. op'[t] = o /\ \A u \in Threads \ {t} : op'[u] = op[u]
    BY <1>1, <2>5 DEF Becomes
  <2> QED
    BY <1>3, <2>3, <2>10, <2>11
<1> QED
  BY <1>2, <1>3

\* One begins.
LEMMA StartMoves ==
  ASSUME Control, NEW t \in Threads, op[t] = Idle, NEW o \in Ops, Waiting(o),
         o.kind # "idle", o.names # <<>>,
         o.kind = "install" => \E r \in Releases : o.names = DiscsOf(r),
         op' = [op EXCEPT ![t] = o], lock' = lock
  PROVE  Moved /\ op'[t] = o /\ \A u \in Threads \ {t} : op'[u] = op[u]
<1>1. op \in [Threads -> Ops] /\ Becomes(t, o) /\ lock # t /\ lock \in Threads \cup {"free"}
  BY DEF Control, Shape, Becomes, Turn, Idle
<1>2. o.todo \in Seq(Range(Steps(o, o.phase))) /\ ~o.warned
  BY EmptySeq DEF Waiting
<1>3. Moved
  BY <1>1, <1>2, OneMoves DEF Moved
<1> QED
  BY <1>1, <1>3 DEF Becomes

-----------------------------------------------------------------------------
(* What an operation has done, step by step. *)

LEMMA NoneLeft ==
  ASSUME NEW o, o.todo = <<>>, NEW x
  PROVE  ~Left(o, x)
<1>1. Range(<<>>) = {}
  BY DEF Range
<1> QED
  BY <1>1 DEF Left

\* Only the operation that has the lock has got anywhere.
LEMMA ProgressOne ==
  ASSUME NEW t \in Threads, \A u \in Threads \ {t} : op'[u].phase = "lock",
         ~op'[t].warned =>
           \A q \in Reached(op'[t].phase) : \A x \in Range(Steps(op'[t], q)) :
             Left(op'[t], x) \/ Holds(x)'
  PROVE  Progress'
<1>1. ASSUME NEW u \in Threads \ {t} PROVE Reached(op'[u].phase) = {}
  BY DEF Reached
<1> QED
  BY <1>1 DEF Progress

\* Nothing that was done is undone by a step done, and it is done itself.
LEMMA PopProgress ==
  ASSUME Control, Progress, NEW t \in Threads, op[t].todo # <<>>,
         op' = [op EXCEPT ![t] = Done(@)], lock' = lock,
         NEW h, h = Head(op[t].todo), ~op[t].warned => Holds(h)',
         \A q \in Phases : \A x \in Range(Steps(op[t], q)) :
           Holds(x) => Holds(x)' \/ x = h
  PROVE  Progress'
<1>1. \A u \in Threads \ {t} : op'[u].phase = "lock"
  <2>1. \A u \in Threads \ {t} : op'[u] = op[u]
    BY PopMoves
  <2>2. \A u \in Threads \ {t} : Waiting(op[u])
    BY AtHand
  <2> QED
    BY <2>1, <2>2 DEF Waiting
<1>2. /\ op'[t].todo = Tail(op[t].todo) /\ op'[t].phase = op[t].phase
      /\ op'[t].warned = op[t].warned
      /\ \A q : Steps(op'[t], q) = Steps(op[t], q)
  BY PopMoves
<1>3. Range(op[t].todo) = Range(op'[t].todo) \cup {h}
  BY <1>2, AtHand
<1>4. ASSUME ~op'[t].warned, NEW q \in Reached(op'[t].phase), NEW x \in Range(Steps(op'[t], q))
      PROVE  Left(op'[t], x) \/ Holds(x)'
  <2>1. x \in Range(Steps(op[t], q)) /\ q \in Reached(op[t].phase) /\ ~op[t].warned
    BY <1>2, <1>4
  <2>2. q \in Phases
    BY <2>1 DEF Reached, Phases
  <2>3. Left(op[t], x) \/ Holds(x)
    BY <2>1 DEF Progress
  <2>4. CASE Left(op[t], x)
    BY <1>3, <2>1, <2>4 DEF Left
  <2>5. CASE Holds(x)
    BY <2>1, <2>2, <2>5
  <2> QED
    BY <2>3, <2>4, <2>5
<1> QED
  BY <1>1, <1>4, ProgressOne

\* A write that begins undoes what is to be done still.
LEMMA BeginProgress ==
  ASSUME Control, Progress, NEW t \in Threads, op[t].todo # <<>>,
         NEW b \in SUBSET Lines,
         op' = [op EXCEPT ![t].writing = TRUE, ![t].body = b], lock' = lock,
         \A q \in Phases : \A x \in Range(Steps(op[t], q)) :
           Holds(x) => Holds(x)' \/ x = Head(op[t].todo)
  PROVE  Progress'
<1>1. \A u \in Threads \ {t} : op'[u].phase = "lock"
  <2>1. \A u \in Threads \ {t} : op'[u] = op[u]
    BY BeginMoves
  <2>2. \A u \in Threads \ {t} : Waiting(op[u])
    BY AtHand
  <2> QED
    BY <2>1, <2>2 DEF Waiting
<1>2. /\ op'[t].todo = op[t].todo /\ op'[t].phase = op[t].phase
      /\ op'[t].warned = op[t].warned
      /\ \A q : Steps(op'[t], q) = Steps(op[t], q)
  BY BeginMoves
<1>3. Head(op[t].todo) \in Range(op[t].todo)
  BY AtHand
<1>4. ASSUME ~op'[t].warned, NEW q \in Reached(op'[t].phase), NEW x \in Range(Steps(op'[t], q))
      PROVE  Left(op'[t], x) \/ Holds(x)'
  <2>1. x \in Range(Steps(op[t], q)) /\ q \in Reached(op[t].phase) /\ ~op[t].warned
    BY <1>2, <1>4
  <2>2. q \in Phases
    BY <2>1 DEF Reached, Phases
  <2>3. Left(op[t], x) \/ Holds(x)
    BY <2>1 DEF Progress
  <2>4. CASE Left(op[t], x)
    BY <1>2, <2>4 DEF Left
  <2>5. CASE Holds(x)
    BY <1>2, <1>3, <2>1, <2>2, <2>5 DEF Left
  <2> QED
    BY <2>3, <2>4, <2>5
<1> QED
  BY <1>1, <1>4, ProgressOne

\* At the next partition, what was to do has been done.
LEMMA EnterProgress ==
  ASSUME Control, Progress, NEW t \in Threads, op[t].kind # "idle", op[t].todo = <<>>,
         NEW q \in {"vcd", "support", "launcher"},
         \/ op[t].phase = "lock" /\ q = "vcd"
         \/ op[t].phase = "vcd" /\ q = "support"
         \/ op[t].phase = "support" /\ q = "launcher",
         op' = [op EXCEPT ![t] = InPhase(@, q)], lock' = t, lock \in {t, "free"},
         UNCHANGED disk
  PROVE  Progress'
<1>1. \A u \in Threads \ {t} : op'[u].phase = "lock"
  BY EnterMoves DEF Control, Turn, Waiting, Threads
<1>2. /\ op'[t].todo = Steps(op[t], q) /\ op'[t].phase = q
      /\ op'[t].warned = op[t].warned
      /\ \A p : Steps(op'[t], p) = Steps(op[t], p)
  BY EnterMoves
<1>3. Reached(q) = Reached(op[t].phase) \cup {q}
  BY DEF Reached
<1>4. ASSUME ~op'[t].warned, NEW p \in Reached(op'[t].phase), NEW x \in Range(Steps(op'[t], p))
      PROVE  Left(op'[t], x) \/ Holds(x)'
  <2>1. CASE p = q
    BY <1>2, <1>4, <2>1 DEF Left
  <2>2. CASE p \in Reached(op[t].phase)
    <3>1. Left(op[t], x) \/ Holds(x)
      BY <1>2, <1>4, <2>2 DEF Progress
    <3>2. Holds(x)
      BY <3>1, NoneLeft
    <3> QED
      BY <3>2 DEF Holds
  <2> QED
    BY <1>2, <1>3, <1>4, <2>1, <2>2
<1> QED
  BY <1>1, <1>4, ProgressOne

\* A failure ends the operation, or is warned of.
LEMMA FailProgress ==
  ASSUME Control, NEW t \in Threads, op[t].todo # <<>>, Fail(t)
  PROVE  Progress'
<1>1. \A u \in Threads \ {t} : op'[u].phase = "lock"
  <2>1. \A u \in Threads \ {t} : op'[u] = op[u]
    BY FailMoves
  <2>2. \A u \in Threads \ {t} : Waiting(op[u])
    BY AtHand
  <2> QED
    BY <2>1, <2>2 DEF Waiting
<1>2. op'[t].warned \/ Reached(op'[t].phase) = {}
  BY FailMoves DEF Idle, Reached
<1> QED
  BY <1>1, <1>2, ProgressOne

\* Two steps about one file are the same step.
LEMMA SameStep ==
  ASSUME NEW o, NEW p, NEW q, NEW x \in Expected(o, p), NEW y \in Expected(o, q), x.at = y.at,
         x.do # "tidy", y.do # "tidy"
  PROVE  x = y
<1>1. x.do = y.do
  BY DEF Expected, Work
<1> QED
  BY <1>1 DEF Expected, Work

-----------------------------------------------------------------------------
(* Steps that write nothing. *)

Kept(f) == IF f[1] = "card" THEN disk[f] = Whole ELSE "codes" \in disk[f]
Rewrites(t, f) == op[t].writing /\ Where(t) = f /\ "codes" \in op[t].body

\* Where nothing is written, nothing is undone.
LEMMA QuietKeeps ==
  ASSUME TInv, Moved, UNCHANGED << disk, dirs >>, mine' \subseteq mine,
         faults' \in Nat, faults' = 0 => faults = 0,
         catalog' \subseteq Seq(Vcds) \ {<<>>},
         \A t \in Threads : op'[t].writing => op'[t] = op[t],
         \A f \in mine' : \A t \in Threads : Rewrites(t, f) => op'[t] = op[t],
         Progress', Repairing',
         faults' = 0 => \A t \in Threads : ~op'[t].warned,
         \A t \in Threads : \A v \in Vcds : faults' = 0 /\ Pending(t, v) => Pending(t, v)'
  PROVE  TInv'
<1>1. Control'
  BY DEF TInv, Control, Shape, Moved
<1>2. HalfWritten'
  BY DEF TInv, HalfWritten, At, Where
<1>3. Housed'
  BY DEF TInv, Housed, Exists
<1>4. Belongings'
  BY DEF TInv, Belongings
<1>5. UserFilesKept'
  <2>1. \A f \in mine' : Kept(f)' \/ \E t \in Threads : Rewrites(t, f)'
    BY DEF TInv, UserFilesKept, Kept, Rewrites, Where
  <2> QED
    BY <2>1 DEF UserFilesKept, Kept, Rewrites
<1>6. Entries'
  BY DEF TInv, Entries, Boots
<1> QED
  BY <1>1, <1>2, <1>3, <1>4, <1>5, <1>6 DEF TInv

\* A repair goes on as it was, or is over.
LEMMA QuietRepair ==
  ASSUME Repairing, UNCHANGED disk, faults' = 0 => faults = 0,
         \A t \in Threads : \/ op'[t] = Idle
                            \/ op'[t].kind = op[t].kind /\ op'[t].names = op[t].names,
         \A t \in Threads : op[t] = Idle => op'[t] = Idle
  PROVE  Repairing'
<1>1. ScanPOPS' = ScanPOPS
  BY DEF ScanPOPS, Present, Exists
<1>2. \A v : Listed(v) => Listed(v)'
  BY DEF Listed, Boots
<1>3. "setup" \in Threads /\ Idle.kind = "idle"
  BY DEF Threads, Idle
<1>4. \A t \in Threads : op'[t].kind = "repair" => t = "setup"
  BY <1>3 DEF Repairing
<1>5. op'["setup"].kind # "idle" => \A t \in Threads \ {"setup"} : op'[t] = Idle
  BY <1>3 DEF Repairing
<1>6. op'["setup"].kind = "repair" =>
        \A g \in ScanPOPS' : g[1] \in Range(op'["setup"].names) \/ Listed(g[1])'
  BY <1>1, <1>2, <1>3 DEF Repairing
<1> QED
  BY <1>4, <1>5, <1>6 DEF Repairing

\* What is left of a phase is of the kind the phase is for.
LEMMA LeftExpected ==
  ASSUME Control, NEW t \in Threads, NEW x, Left(op[t], x)
  PROVE  /\ x \in Expected(op[t], op[t].phase) /\ x \in Range(Steps(op[t], op[t].phase))
         /\ op[t].todo # <<>>
<1>1. op[t].todo # <<>>
  BY NoneLeft
<1>2. op[t] \in Ops /\ op[t].phase \in Phases /\ op[t].names # <<>>
  BY <1>1, AtHand DEF Control, Shape, Turn, Ops
<1>3. x \in Range(Steps(op[t], op[t].phase))
  BY RangeOfSeq DEF Left, Control, Follows
<1> QED
  BY <1>1, <1>2, <1>3, StepsExpected

\* An entry and its program are written, and removed, in the last phase.
LEMMA PendingPhase ==
  ASSUME Control, NEW t \in Threads, NEW v \in Vcds, Pending(t, v)
  PROVE  op[t].phase = "launcher"
<1>1. PICK x \in {Do("write", <<"elf", v>>), Do("delete", <<"cfg", v>>)} : Left(op[t], x)
  BY DEF Pending
<1>2. x \in Expected(op[t], op[t].phase) /\ op[t].phase # "lock" /\ op[t].phase \in Phases
  BY <1>1, LeftExpected, AtHand DEF Control, Shape, Ops
<1>3. x.do \in {"write", "delete"} /\ x.at[1] \in {"elf", "cfg"}
  BY <1>1 DEF Do
<1>4. x.at[1] \in Written(op[t].phase) \/ x.at[1] \in Deleted(op[t].phase)
  BY <1>2, <1>3 DEF Expected
<1> QED
  BY <1>2, <1>3, <1>4 DEF Written, Deleted, Phases

LEMMA StillPending ==
  ASSUME NEW t \in Threads, NEW v \in Vcds, NEW u \in Threads, Pending(t, v),
         t = u => op[u].todo = <<>>,
         \A w \in Threads \ {u} : op'[w] = op[w]
  PROVE  Pending(t, v)'
<1>1. t # u
  BY NoneLeft DEF Pending
<1> QED
  BY <1>1 DEF Pending, Left

LEMMA UntouchedKeeps ==
  ASSUME TInv, UNCHANGED << disk, dirs, op, lock, faults, mine >>,
         catalog' \subseteq Seq(Vcds) \ {<<>>}
  PROVE  TInv'
<1>1. Moved
  BY DEF Moved, TInv, Control, Shape, Turn, Follows, Installing
<1>2. Progress'
  BY DEF TInv, Progress, Left, Holds
<1>3. Repairing'
  BY QuietRepair DEF TInv
<1>4. \A t \in Threads : \A v \in Vcds : Pending(t, v) => Pending(t, v)'
  BY DEF Pending, Left
<1>5. faults = 0 => \A t \in Threads : ~op'[t].warned
  BY DEF TInv, Entries
<1>6. faults \in Nat
  BY DEF TInv, Control, Shape
<1> QED
  BY <1>1, <1>2, <1>3, <1>4, <1>5, <1>6, QuietKeeps

LEMMA LoadKeeps ==
  ASSUME TInv, LoadCatalog
  PROVE  TInv'
<1>1. ScanPOPS \subseteq Seq(Vcds) \ {<<>>}
  BY ScannedTitles
<1> QED
  BY <1>1, UntouchedKeeps DEF LoadCatalog

\* An operation that takes the lock, or comes to its next partition.
LEMMA EnterKeeps ==
  ASSUME TInv, NEW t \in Threads, TakeLock(t) \/ NextPart(t)
  PROVE  TInv'
<1>1. /\ UNCHANGED << disk, dirs, catalog, faults, mine >>
      /\ op[t].todo = <<>> /\ op[t].kind # "idle" /\ ~op[t].writing
      /\ lock \in {t, "free"} /\ lock' = t
  <2>1. Turn /\ HalfWritten
    BY DEF TInv, Control
  <2>2. CASE TakeLock(t)
    BY <2>1, <2>2 DEF TakeLock, Turn, Waiting
  <2>3. CASE NextPart(t)
    <3>1. op[t].todo = <<>> /\ op[t].phase # "lock" /\ UNCHANGED << disk, dirs, lock, catalog, faults, mine >>
      BY <2>3 DEF NextPart
    <3>2. lock = t
      BY <2>1, <3>1 DEF Turn, Waiting
    <3>3. ~op[t].writing
      BY <2>1, <3>1 DEF HalfWritten, At
    <3>4. op[t].kind # "idle"
      BY <2>1, <3>1 DEF Turn, Idle
    <3> QED
      BY <3>1, <3>2, <3>3, <3>4
  <2> QED
    BY <2>2, <2>3
<1>2. PICK q \in {"vcd", "support", "launcher"} :
        /\ \/ op[t].phase = "lock" /\ q = "vcd"
           \/ op[t].phase = "vcd" /\ q = "support"
           \/ op[t].phase = "support" /\ q = "launcher"
        /\ op' = [op EXCEPT ![t] = InPhase(@, q)]
  BY DEF TakeLock, NextPart, NextPhase
<1>3. Control /\ Progress /\ Repairing
  BY DEF TInv
<1>4. /\ Moved /\ \A u \in Threads \ {t} : op'[u] = op[u]
      /\ op'[t].warned = op[t].warned /\ ~op'[t].writing
      /\ op'[t].kind = op[t].kind /\ op'[t].names = op[t].names
  BY <1>1, <1>2, <1>3, EnterMoves
<1>5. Progress'
  BY <1>1, <1>2, <1>3, EnterProgress
<1>6. Repairing'
  <2>1. op[t] # Idle
    BY <1>1 DEF Idle
  <2> QED
    BY <1>1, <1>3, <1>4, <2>1, QuietRepair
<1>7. \A u \in Threads : \A v \in Vcds : Pending(u, v) => Pending(u, v)'
  BY <1>1, <1>4, StillPending
<1>8. faults = 0 => \A u \in Threads : ~op'[u].warned
  BY <1>4 DEF TInv, Entries
<1>9. \A u \in Threads : op'[u].writing => op'[u] = op[u]
  BY <1>4
<1>10. \A f \in mine' : \A u \in Threads : Rewrites(u, f) => op'[u] = op[u]
  BY <1>1, <1>4 DEF Rewrites
<1>11. faults \in Nat /\ catalog \subseteq Seq(Vcds) \ {<<>>}
  BY <1>3 DEF Control, Shape
<1> QED
  BY <1>1, <1>4, <1>5, <1>6, <1>7, <1>8, <1>9, <1>10, <1>11, QuietKeeps

\* An operation that is over, or cut short before it wrote.
LEMMA EndKeeps ==
  ASSUME TInv, NEW t \in Threads, End(t)
  PROVE  TInv'
<1>1. Control /\ Repairing /\ HalfWritten
  BY DEF TInv
<1>2. /\ UNCHANGED << disk, dirs, catalog, faults, mine >>
      /\ op[t].todo = <<>> /\ op[t].kind # "idle" /\ op[t].phase = "launcher"
      /\ op' = [op EXCEPT ![t] = Idle] /\ lock' = "free"
  BY DEF End, Finished
<1>3. lock = t /\ ~op[t].writing
  BY <1>1, <1>2 DEF Control, Turn, Waiting, HalfWritten, At
<1>4. Moved /\ op'[t] = Idle /\ \A u \in Threads \ {t} : op'[u] = op[u]
  BY <1>1, <1>2, <1>3, EndMoves
<1>5. Progress'
  <2>1. \A u \in Threads \ {t} : op'[u].phase = "lock"
    BY <1>1, <1>3, <1>4 DEF Control, Turn, Waiting
  <2>2. Reached(op'[t].phase) = {}
    BY <1>4 DEF Idle, Reached
  <2> QED
    BY <2>1, <2>2, ProgressOne
<1>6. Repairing'
  BY <1>1, <1>2, <1>4, QuietRepair
<1>7. \A u \in Threads : \A v \in Vcds : Pending(u, v) => Pending(u, v)'
  BY <1>2, <1>4, StillPending
<1>8. faults = 0 => \A u \in Threads : ~op'[u].warned
  BY <1>4 DEF TInv, Entries, Idle
<1>9. \A u \in Threads : op'[u].writing => op'[u] = op[u]
  BY <1>4 DEF Idle
<1>10. \A f \in mine' : \A u \in Threads : Rewrites(u, f) => op'[u] = op[u]
  BY <1>3, <1>4 DEF Rewrites
<1>11. faults \in Nat /\ catalog \subseteq Seq(Vcds) \ {<<>>}
  BY <1>1 DEF Control, Shape
<1> QED
  BY <1>2, <1>4, <1>5, <1>6, <1>7, <1>8, <1>9, <1>10, <1>11, QuietKeeps

\* A step that fails before it has changed anything, a disc in the way.
LEMMA FailKeeps ==
  ASSUME TInv, NEW t \in Threads, StepFails(t) \/ VcdInTheWay(t)
  PROVE  TInv'
<1>1. Control /\ Repairing
  BY DEF TInv
<1>2. /\ UNCHANGED << disk, dirs, catalog, mine >> /\ Fail(t)
      /\ op[t].todo # <<>> /\ ~op[t].writing
      /\ \/ faults' = faults + 1
         \/ faults' = faults /\ op[t].phase = "vcd"
  BY DEF StepFails, VcdInTheWay, Fail, At
<1>3. op[t] # Idle
  BY <1>2 DEF Idle
<1>4. /\ Moved /\ \A u \in Threads \ {t} : op'[u] = op[u]
      /\ \/ op'[t] = Idle
         \/ /\ op'[t].warned /\ ~op'[t].writing /\ op'[t].phase = "launcher"
            /\ op'[t].kind = op[t].kind /\ op'[t].names = op[t].names /\ op[t].phase # "vcd"
  BY <1>1, <1>2, FailMoves
<1>5. Progress'
  BY <1>1, <1>2, FailProgress
<1>6. faults \in Nat /\ faults' \in Nat /\ (faults' = 0 => faults = 0)
      /\ (faults' = 0 => op[t].phase = "vcd" /\ op'[t] = Idle)
  BY <1>1, <1>2, <1>4 DEF Control, Shape
<1>7. Repairing'
  BY <1>1, <1>2, <1>3, <1>4, <1>6, QuietRepair
<1>8. ASSUME NEW u \in Threads, NEW v \in Vcds, faults' = 0, Pending(u, v)
      PROVE  Pending(u, v)'
  <2>1. u # t
    BY <1>1, <1>6, <1>8, PendingPhase
  <2> QED
    BY <1>4, <1>8, <2>1 DEF Pending, Left
<1>9. faults' = 0 => \A u \in Threads : ~op'[u].warned
  BY <1>4, <1>6 DEF TInv, Entries, Idle
<1>10. \A u \in Threads : op'[u].writing => op'[u] = op[u]
  BY <1>4 DEF Idle
<1>11. \A f \in mine' : \A u \in Threads : Rewrites(u, f) => op'[u] = op[u]
  BY <1>2, <1>4 DEF Rewrites
<1>12. catalog \subseteq Seq(Vcds) \ {<<>>}
  BY <1>1 DEF Control, Shape
<1> QED
  BY <1>2, <1>4, <1>5, <1>6, <1>7, <1>8, <1>9, <1>10, <1>11, <1>12, QuietKeeps

\* A step there is nothing to do for, or whose failure is not told.
LEMMA SkipKeeps ==
  ASSUME TInv, NEW t \in Threads, CheatThere(t) \/ TidyFails(t)
  PROVE  TInv'
<1>1. Control /\ Repairing /\ HalfWritten /\ Progress
  BY DEF TInv
<1> DEFINE h == Head(op[t].todo)
<1>2. /\ UNCHANGED << disk, dirs, catalog, mine, lock >> /\ op' = [op EXCEPT ![t] = Done(@)]
      /\ op[t].todo # <<>> /\ faults' \in {faults, faults + 1}
      /\ \/ h.do = "tidy" \/ (h.do = "write" /\ h.at[1] = "cheats" /\ "ours" \in disk[h.at])
  BY DEF CheatThere, TidyFails, At, Where
<1>3. ~op[t].writing
  BY <1>1 DEF CheatThere, TidyFails, HalfWritten, At
<1>4. op[t] # Idle
  BY <1>2 DEF Idle
<1>5. /\ Moved /\ \A u \in Threads \ {t} : op'[u] = op[u]
      /\ op'[t].todo = Tail(op[t].todo) /\ op'[t].warned = op[t].warned /\ ~op'[t].writing
      /\ op'[t].kind = op[t].kind /\ op'[t].names = op[t].names
  BY <1>1, <1>2, PopMoves
<1>6. Range(op[t].todo) = Range(op'[t].todo) \cup {h} /\ h \in Work
  BY <1>1, <1>2, <1>5, AtHand
<1>7. \A v : h # Do("write", <<"elf", v>>) /\ h # Do("delete", <<"cfg", v>>)
  BY <1>2 DEF Do
<1>8. Holds(h)
  BY <1>2 DEF Holds
<1> HIDE DEF h
<1>9. Progress'
  <2>1. \A x : Holds(x) => Holds(x)'
    BY <1>2 DEF Holds
  <2> QED
    BY <1>1, <1>2, <1>8, <2>1, PopProgress DEF h
<1>10. faults \in Nat /\ faults' \in Nat /\ (faults' = 0 => faults = 0)
  BY <1>1, <1>2 DEF Control, Shape
<1>11. Repairing'
  BY <1>1, <1>2, <1>4, <1>5, <1>10, QuietRepair
<1>12. \A u \in Threads : \A v \in Vcds : Pending(u, v) => Pending(u, v)'
  BY <1>5, <1>6, <1>7 DEF Pending, Left
<1>13. faults' = 0 => \A u \in Threads : ~op'[u].warned
  BY <1>5, <1>10 DEF TInv, Entries
<1>14. \A u \in Threads : op'[u].writing => op'[u] = op[u]
  BY <1>5
<1>15. \A f \in mine' : \A u \in Threads : Rewrites(u, f) => op'[u] = op[u]
  BY <1>3, <1>5 DEF Rewrites
<1>16. catalog \subseteq Seq(Vcds) \ {<<>>}
  BY <1>1 DEF Control, Shape
<1> QED
  BY <1>2, <1>5, <1>9, <1>10, <1>11, <1>12, <1>13, <1>14, <1>15, <1>16, QuietKeeps

\* An operation that begins: it waits for the lock.
LEMMA StartKeeps ==
  ASSUME TInv, NEW t \in Threads, NEW o \in Ops, Start(t, o), Waiting(o), o.kind # "idle",
         o.names # <<>>, o.kind = "install" => \E r \in Releases : o.names = DiscsOf(r),
         IF o.kind = "repair"
         THEN /\ t = "setup" /\ AllIdle
              /\ \A g \in ScanPOPS : g[1] \in Range(o.names) \/ Listed(g[1])
         ELSE t # "setup"
  PROVE  TInv'
<1>1. Control /\ Repairing
  BY DEF TInv
<1>2. /\ UNCHANGED << disk, dirs, lock, catalog, faults, mine >>
      /\ op[t] = Idle /\ op["setup"] = Idle /\ op' = [op EXCEPT ![t] = o]
  BY DEF Start
<1>3. Moved /\ op'[t] = o /\ \A u \in Threads \ {t} : op'[u] = op[u]
  BY <1>1, <1>2, StartMoves
<1>4. Progress'
  <2>1. ASSUME NEW u \in Threads, ~op'[u].warned, NEW q \in Reached(op'[u].phase),
               NEW x \in Range(Steps(op'[u], q))
        PROVE  Left(op'[u], x) \/ Holds(x)'
    <3>1. u # t
      BY <1>3, <2>1 DEF Waiting, Reached
    <3>2. Left(op[u], x) \/ Holds(x)
      BY <1>3, <2>1, <3>1 DEF TInv, Progress
    <3> QED
      BY <1>2, <1>3, <3>1, <3>2 DEF Holds
  <2> QED
    BY <2>1 DEF Progress
<1>5. Repairing'
  <2>1. ScanPOPS' = ScanPOPS /\ \A v : Listed(v) => Listed(v)'
    BY <1>2 DEF ScanPOPS, Present, Exists, Listed, Boots
  <2>2. "setup" \in Threads /\ Idle.kind = "idle"
    BY DEF Threads, Idle
  <2>3. CASE o.kind = "repair"
    <3>1. \A u \in Threads \ {"setup"} : op'[u] = Idle
      BY <1>3, <2>3 DEF AllIdle
    <3> QED
      BY <1>3, <2>1, <2>2, <2>3, <3>1 DEF Repairing
  <2>4. CASE o.kind # "repair"
    BY <1>1, <1>2, <1>3, <2>2, <2>4 DEF Repairing
  <2> QED
    BY <2>3, <2>4
<1>6. \A u \in Threads : \A v \in Vcds : Pending(u, v) => Pending(u, v)'
  <2>1. op[t].todo = <<>>
    BY <1>2 DEF Idle
  <2> QED
    BY <1>3, <2>1, StillPending
<1>7. faults = 0 => \A u \in Threads : ~op'[u].warned
  BY <1>3 DEF TInv, Entries, Waiting
<1>8. \A u \in Threads : op'[u].writing => op'[u] = op[u]
  BY <1>3 DEF Waiting
<1>9. \A f \in mine' : \A u \in Threads : Rewrites(u, f) => op'[u] = op[u]
  BY <1>2, <1>3 DEF Rewrites, Idle
<1>10. faults \in Nat /\ catalog \subseteq Seq(Vcds) \ {<<>>}
  BY <1>1 DEF Control, Shape
<1> QED
  BY <1>2, <1>3, <1>4, <1>5, <1>6, <1>7, <1>8, <1>9, <1>10, QuietKeeps

LEMMA InstallKeeps ==
  ASSUME TInv, NEW r \in Releases, NEW choice \in Options[r], StartInstall(r, choice)
  PROVE  TInv'
<1> DEFINE o == [Idle EXCEPT !.kind = "install", !.names = DiscsOf(r),
                             !.wide = choice[1], !.launcher = choice[2]]
<1>1. DiscsOf(r) \in Seq(Vcds) \ {<<>>}
  BY ReleaseDiscs
<1>2. choice[1] \in BOOLEAN /\ choice[2] \in BOOLEAN
  BY TitleFilesAssumption
<1>3. <<>> \in Seq(Work)
  BY EmptySeq
<1>4. o \in Ops /\ Waiting(o) /\ o.kind = "install" /\ o.names = DiscsOf(r)
  BY <1>1, <1>2, <1>3 DEF Idle, Ops, Waiting, Phases, None
<1>5. Start("queue", o)
  BY DEF StartInstall
<1> HIDE DEF o
<1>6. "queue" \in Threads /\ "queue" # "setup"
  BY DEF Threads
<1> QED
  BY <1>1, <1>4, <1>5, <1>6, StartKeeps

LEMMA RemoveKeeps ==
  ASSUME TInv, NEW g \in catalog, StartRemove(g)
  PROVE  TInv'
<1> DEFINE o == [Idle EXCEPT !.kind = "remove", !.names = g]
<1>1. g \in Seq(Vcds) \ {<<>>}
  BY DEF TInv, Control, Shape
<1>2. <<>> \in Seq(Work)
  BY EmptySeq
<1>3. o \in Ops /\ Waiting(o) /\ o.kind = "remove" /\ o.names = g
  BY <1>1, <1>2 DEF Idle, Ops, Waiting, Phases, None
<1>4. Start("screen", o)
  BY DEF StartRemove
<1> HIDE DEF o
<1>5. "screen" \in Threads /\ "screen" # "setup"
  BY DEF Threads
<1> QED
  BY <1>1, <1>3, <1>4, <1>5, StartKeeps

\* A repair names every title whose entry is missing; the others' entries, with
\* nobody at work, have their programs.
LEMMA RepairKeeps ==
  ASSUME TInv, StartRepair
  PROVE  TInv'
<1> DEFINE want == {TitleOf[Key(g)[1]] : g \in Missing}
           all == {launcherVCD(g) : g \in {h \in ScanPOPS : TitleOf[Key(h)[1]] \in want}}
           o == [Idle EXCEPT !.kind = "repair", !.names = InDiscOrder(all)]
<1>1. AllIdle /\ Missing # {} /\ Start("setup", o)
  BY DEF StartRepair
<1>2. all \in SUBSET Vcds
  BY ScannedTitles DEF launcherVCD
<1>3. \A g \in Missing : g \in ScanPOPS /\ g[1] \in all
  BY DEF Missing, launcherVCD
<1> HIDE DEF all
<1>4. InDiscOrder(all) \in Seq(Vcds) /\ Range(InDiscOrder(all)) = all
  BY <1>2, InOrder
<1>5. InDiscOrder(all) # <<>>
  <2>1. Range(<<>>) = {}
    BY DEF Range
  <2> QED
    BY <1>1, <1>3, <1>4, <2>1
<1>6. <<>> \in Seq(Work)
  BY EmptySeq
<1>7. o \in Ops /\ Waiting(o) /\ o.kind = "repair" /\ o.names = InDiscOrder(all)
  BY <1>4, <1>6 DEF Idle, Ops, Waiting, Phases, None
<1> HIDE DEF o
<1>8. ASSUME NEW g \in ScanPOPS, g[1] \notin all PROVE Listed(g[1])
  <2>1. Boots(g[1])
    BY <1>3, <1>8 DEF Missing, launcherVCD
  <2>2. g[1] \in Vcds
    BY ScannedTitles
  <2>3. \A t \in Threads : ~Pending(t, g[1])
    <3>1. \A t \in Threads : op[t].todo = <<>>
      BY <1>1 DEF AllIdle, Idle
    <3> QED
      BY <3>1, NoneLeft DEF Pending
  <2>4. faults = 0 => disk[<<"elf", g[1]>>] = Whole
    BY <2>1, <2>2, <2>3 DEF TInv, Entries
  <2> QED
    BY <2>1, <2>4 DEF Listed
<1>9. "setup" \in Threads
  BY DEF Threads
<1> QED
  BY <1>1, <1>4, <1>5, <1>7, <1>8, <1>9, StartKeeps

LEMMA CrashKeeps ==
  ASSUME TInv, Crash
  PROVE  TInv'
<1>1. Control /\ Repairing
  BY DEF TInv
<1>2. /\ UNCHANGED << disk, dirs >> /\ faults' = faults + 1 /\ faults \in Nat
      /\ op' = [t \in Threads |-> Idle] /\ lock' = "free" /\ catalog' = {}
      /\ mine' = mine \ {Where(t) : t \in {u \in Threads : op[u].writing}}
  BY <1>1 DEF Crash, Control, Shape
<1>3. \A t \in Threads : op'[t] = Idle
  BY <1>2
<1>4. /\ Idle.kind = "idle" /\ Idle.phase = "lock" /\ Idle.todo = <<>> /\ ~Idle.writing
      /\ <<>> \in Seq(Range(Steps(Idle, Idle.phase)))
  BY EmptySeq DEF Idle
<1>5. Moved
  <2>1. op' \in [Threads -> Ops] /\ lock' \in Threads \cup {"free"}
    BY <1>2, IdleOp
  <2>2. Turn'
    BY <1>2, <1>3, <1>4, IdleOp DEF Turn, Threads
  <2>3. Follows' /\ Installing'
    BY <1>3, <1>4 DEF Follows, Installing
  <2> QED
    BY <2>1, <2>2, <2>3 DEF Moved
<1>6. Progress'
  BY <1>3, <1>4 DEF Progress, Reached
<1>7. Repairing'
  BY <1>1, <1>2, <1>3, QuietRepair
<1>8. \A f \in mine' : \A t \in Threads : ~Rewrites(t, f)
  BY <1>2 DEF Rewrites
<1> QED
  BY <1>2, <1>3, <1>4, <1>5, <1>6, <1>7, <1>8, QuietKeeps

-----------------------------------------------------------------------------
(* Steps that write. *)

\* What the step at hand is about, and that no other thread's is under way.
LEMMA HandKinds ==
  ASSUME TInv, NEW t \in Threads, op[t].todo # <<>>, NEW h, h = Head(op[t].todo), h.do # "tidy"
  PROVE  /\ h \in Work /\ h.at \in Files /\ h.at[1] # "card" /\ h.at[2] \in Range(op[t].names)
         /\ h.do = "delete" => op[t].kind = "remove" /\ h.at[1] # "cheats" /\ ~op[t].writing
         /\ h.do = "write" => op[t].kind # "remove"
         /\ op[t].kind = "repair" => h.at[1] # "vcd"
         /\ op[t] # Idle /\ h = Do(h.do, h.at)
         /\ \A u \in Threads \ {t} : ~op[u].writing
<1>1. /\ h \in Expected(op[t], op[t].phase) /\ h \in Work /\ op[t] # Idle
      /\ op[t].phase \in Phases /\ op[t].phase # "lock"
      /\ \A u \in Threads \ {t} : ~op[u].writing
  BY AtHand DEF TInv, Control, Shape, Ops, Waiting, Idle
<1>2. h.at \in Files /\ h.do \in {"write", "delete"} /\ h = Do(h.do, h.at)
  BY <1>1 DEF Work, Do
<1>3. h.at[1] \in Written(op[t].phase) \/ (h.at[1] \in Deleted(op[t].phase) /\ op[t].kind = "remove")
  BY <1>1, <1>2 DEF Expected
<1>4. h.at[2] \in Range(op[t].names) /\ (h.do = "delete" => op[t].kind = "remove" /\ h.at[1] \in Deleted(op[t].phase))
      /\ (h.do = "write" => op[t].kind # "remove")
      /\ (op[t].kind = "repair" => op[t].phase = "launcher")
  BY <1>1, <1>2 DEF Expected
<1>5. h.do = "delete" => ~op[t].writing
  BY DEF TInv, HalfWritten, At
<1>6. h.at[1] # "card" /\ (h.at[1] \in Deleted(op[t].phase) => h.at[1] # "cheats")
      /\ (op[t].phase = "launcher" => h.at[1] # "vcd")
  BY <1>3 DEF Written, Deleted
<1> QED
  BY <1>1, <1>2, <1>4, <1>5, <1>6

\* A file and the directory it is in.
LEMMA InDirs ==
  ASSUME NEW d \in Dirs
  PROVE  In(d) \subseteq Files /\ \A f \in In(d) : d \in DirOf(f)
<1>1. d[2] \in Vcds
  BY DEF Dirs
<1> QED
  BY <1>1 DEF In, DirOf, Files, Kinds, SupportKinds

\* A repair writes only the entries of the discs it names.
LEMMA WriteRepair ==
  ASSUME TInv, NEW t \in Threads, op[t].todo # <<>>, NEW h, h = Head(op[t].todo),
         h.do # "tidy" \/ op[t].kind # "repair",
         op[t].kind = "repair" => \A f \in Files : f # h.at => disk'[f] = disk[f],
         faults' = 0 => faults = 0,
         \A u \in Threads \ {t} : op'[u] = op[u],
         op'[t] = Idle \/ (op'[t].kind = op[t].kind /\ op'[t].names = op[t].names)
  PROVE  Repairing'
<1>1. /\ Control /\ Repairing /\ "setup" \in Threads /\ Idle.kind = "idle" /\ op[t] # Idle
      /\ op[t].kind # "idle"
  BY AtHand DEF TInv, Threads, Idle
<1>2. \A u \in Threads : op'[u].kind = "repair" => u = "setup"
  BY <1>1 DEF Repairing
<1>3. op'["setup"].kind # "idle" => \A u \in Threads \ {"setup"} : op'[u] = Idle
  BY <1>1 DEF Repairing
<1>4. ASSUME op'["setup"].kind = "repair", NEW g \in ScanPOPS'
      PROVE  g[1] \in Range(op'["setup"].names) \/ Listed(g[1])'
  <2>1. t = "setup" /\ op[t].kind = "repair" /\ op'["setup"].names = op[t].names
    <3>1. op["setup"].kind = "repair"
      BY <1>1, <1>4
    <3>2. t = "setup"
      BY <1>1, <3>1 DEF Repairing
    <3> QED
      BY <1>1, <1>4, <3>1, <3>2
  <2>2. h.at[1] # "vcd" /\ h.at[2] \in Range(op[t].names)
    BY <2>1, HandKinds
  <2>3. Present' = Present
    <3>1. ASSUME NEW v \in Vcds PROVE disk'[<<"vcd", v>>] = disk[<<"vcd", v>>]
      <4>1. <<"vcd", v>> \in Files /\ <<"vcd", v>>[1] = "vcd"
        BY DEF Files, Kinds
      <4> QED
        BY <2>1, <2>2, <4>1
    <3> QED
      BY <3>1 DEF Present, Exists
  <2>4. ScanPOPS' = ScanPOPS
    BY <2>3 DEF ScanPOPS
  <2>5. g \in ScanPOPS /\ (g[1] \in Range(op["setup"].names) \/ Listed(g[1]))
    BY <1>1, <2>1, <2>4, <1>4 DEF Repairing
  <2>6. CASE g[1] \notin Range(op[t].names) /\ Listed(g[1])
    <3>1. g[1] \in Vcds
      BY <2>5, ScannedTitles
    <3>2. ASSUME NEW k \in {"elf", "cfg"} PROVE disk'[<<k, g[1]>>] = disk[<<k, g[1]>>]
      <4>1. <<k, g[1]>> \in Files /\ <<k, g[1]>>[2] = g[1]
        BY <3>1 DEF Files, Kinds
      <4> QED
        BY <2>1, <2>2, <2>6, <4>1
    <3> QED
      BY <2>6, <3>2 DEF Listed, Boots
  <2> QED
    BY <2>1, <2>5, <2>6
<1> QED
  BY <1>2, <1>3, <1>4 DEF Repairing

\* One file written or deleted.
LEMMA FileKeeps ==
  ASSUME TInv, NEW t \in Threads, op[t].todo # <<>>, NEW h, h = Head(op[t].todo), h.do # "tidy",
         NEW c \in SUBSET Lines, disk' = [disk EXCEPT ![h.at] = c],
         dirs' = dirs \/ dirs' = dirs \cup DirOf(h.at),
         c = None \/ Exists(h.at) \/ dirs' = dirs \cup DirOf(h.at),
         mine' \subseteq mine, UNCHANGED catalog, faults' \in Nat, faults' = 0 => faults = 0,
         Moved, \A u \in Threads \ {t} : op'[u] = op[u],
         op'[t] = Idle \/ (op'[t].kind = op[t].kind /\ op'[t].names = op[t].names),
         op'[t].writing => op'[t].todo = op[t].todo /\ c = Part /\ h.do = "write",
         h.at \in mine' => "codes" \in c \/ (op'[t].writing /\ "codes" \in op'[t].body),
         Progress',
         faults' = 0 =>
           /\ \A u \in Threads : ~op'[u].warned
           /\ \A v \in Vcds : Boots(v)' => disk'[<<"elf", v>>] = Whole \/ \E u \in Threads : Pending(u, v)'
  PROVE  TInv'
<1>1. /\ h.at \in Files /\ h.at[1] # "card" /\ \A u \in Threads \ {t} : ~op[u].writing
  BY HandKinds
<1>2. /\ disk \in [Files -> SUBSET Lines] /\ dirs \subseteq Dirs /\ mine \subseteq Files
      /\ catalog \subseteq Seq(Vcds) \ {<<>>}
  BY DEF TInv, Control, Shape
<1>3. disk'[h.at] = c /\ \A f \in Files : f # h.at => disk'[f] = disk[f]
  BY <1>1, <1>2
<1>4. Control'
  <2>1. disk' \in [Files -> SUBSET Lines]
    BY <1>1, <1>2
  <2>2. dirs' \subseteq Dirs /\ mine' \subseteq Files
    BY <1>2 DEF DirOf
  <2> QED
    BY <1>2, <2>1, <2>2 DEF Control, Shape, Moved
<1>5. HalfWritten'
  <2>1. ASSUME op'[t].writing
        PROVE  op'[t].todo # <<>> /\ Head(op'[t].todo).do = "write" /\ disk'[Head(op'[t].todo).at] = Part
    BY <1>3, <2>1
  <2> QED
    BY <1>1, <2>1 DEF HalfWritten, At, Where
<1>6. Housed'
  <2>1. ASSUME NEW d \in Dirs, NEW f \in In(d), disk'[f] # None PROVE d \in dirs'
    <3>1. f \in Files /\ d \in DirOf(f)
      BY InDirs
    <3>2. CASE f # h.at
      BY <1>3, <2>1, <3>1, <3>2 DEF TInv, Housed, Exists
    <3>3. CASE f = h.at
      BY <1>3, <2>1, <3>1, <3>3 DEF TInv, Housed, Exists
    <3> QED
      BY <3>2, <3>3
  <2> QED
    BY <2>1 DEF Housed, Exists
<1>7. Belongings'
  <2>1. ASSUME NEW v \in Vcds PROVE disk'[<<"card", v>>] = disk[<<"card", v>>]
    <3>1. <<"card", v>> \in Files /\ <<"card", v>>[1] = "card"
      BY DEF Files, Kinds
    <3> QED
      BY <1>1, <1>3, <3>1
  <2> QED
    BY <2>1 DEF TInv, Belongings
<1>8. UserFilesKept'
  <2>1. ASSUME NEW f \in mine' PROVE Kept(f)' \/ \E u \in Threads : Rewrites(u, f)'
    <3>1. f \in Files /\ f \in mine
      BY <1>2
    <3>2. CASE f = h.at
      <4>1. "codes" \in c => Kept(f)'
        BY <1>1, <1>3, <3>2 DEF Kept
      <4>2. op'[t].writing /\ "codes" \in op'[t].body => Rewrites(t, f)'
        BY <3>2 DEF Rewrites, Where
      <4> QED
        BY <3>2, <4>1, <4>2
    <3>3. CASE f # h.at
      <4>1. \A u \in Threads : ~Rewrites(u, f)
        BY <1>1, <3>3 DEF Rewrites, Where
      <4>2. Kept(f)
        BY <3>1, <4>1 DEF TInv, UserFilesKept, Kept, Rewrites
      <4> QED
        BY <1>3, <3>1, <3>3, <4>2 DEF Kept
    <3> QED
      BY <3>2, <3>3
  <2> QED
    BY <2>1 DEF UserFilesKept, Kept, Rewrites
<1>9. Repairing'
  BY <1>3, WriteRepair
<1>10. Entries'
  BY DEF Entries
<1> QED
  BY <1>4, <1>5, <1>6, <1>7, <1>8, <1>9, <1>10 DEF TInv

\* Writing a file undoes no step but the one at hand.
LEMMA Undoes ==
  ASSUME TInv, NEW t \in Threads, op[t].todo # <<>>, NEW h, h = Head(op[t].todo), h.do # "tidy",
         \A f \in Files : f # h.at => disk'[f] = disk[f]
  PROVE  \A q \in Phases : \A x \in Range(Steps(op[t], q)) : Holds(x) => Holds(x)' \/ x = h
<1>1. op[t] \in Ops /\ op[t].names # <<>> /\ op[t].phase \in Phases /\ h \in Expected(op[t], op[t].phase)
  BY AtHand DEF TInv, Control, Shape, Turn, Ops
<1>2. ASSUME NEW q \in Phases, NEW x \in Range(Steps(op[t], q)), Holds(x), x # h
      PROVE  Holds(x)'
  <2>1. x \in Expected(op[t], q) /\ x \in Work
    BY <1>1, StepsExpected DEF Expected
  <2>2. CASE x.do = "tidy"
    BY <2>2 DEF Holds
  <2>3. CASE x.do # "tidy"
    <3>1. x.at \in Files
      BY <2>1, <2>3 DEF Work
    <3>2. x.at # h.at
      BY <1>1, <1>2, <2>1, <2>3, SameStep
    <3> QED
      BY <1>2, <3>1, <3>2 DEF Holds
  <2> QED
    BY <2>2, <2>3
<1> QED
  BY <1>2

LEMMA BeginKeeps ==
  ASSUME TInv, NEW t \in Threads, BeginWrite(t)
  PROVE  TInv'
<1> DEFINE h == Head(op[t].todo)
           b == disk[h.at]
<1>1. /\ op[t].todo # <<>> /\ h.do = "write" /\ ~op[t].writing
      /\ op' = [op EXCEPT ![t].writing = TRUE, ![t].body = b]
      /\ disk' = [disk EXCEPT ![h.at] = Part] /\ dirs' = dirs \cup DirOf(h.at)
      /\ UNCHANGED << lock, catalog, faults, mine >>
  BY DEF BeginWrite, At, Where
<1> HIDE DEF h
<1>2. h = Head(op[t].todo)
  BY DEF h
<1>3. /\ h.at \in Files /\ h.at[1] # "card" /\ \A u \in Threads \ {t} : ~op[u].writing
      /\ op[t] # Idle /\ h = Do("write", h.at)
  BY <1>1, <1>2, HandKinds
<1>4. Control /\ Progress /\ disk \in [Files -> SUBSET Lines] /\ faults \in Nat
  BY DEF TInv, Control, Shape
<1>5. b \in SUBSET Lines /\ Part \in SUBSET Lines /\ Part # Whole /\ Part # None
  BY <1>3, <1>4 DEF Part, Lines, Whole, None
<1> HIDE DEF b
<1>6. /\ Moved /\ \A u \in Threads \ {t} : op'[u] = op[u]
      /\ op'[t].todo = op[t].todo /\ op'[t].warned = op[t].warned /\ op'[t].writing
      /\ op'[t].body = b /\ op'[t].kind = op[t].kind /\ op'[t].names = op[t].names
  BY <1>1, <1>4, <1>5, BeginMoves
<1>7. disk'[h.at] = Part /\ \A f \in Files : f # h.at => disk'[f] = disk[f]
  BY <1>1, <1>3, <1>4
<1>8. Progress'
  <2>1. \A q \in Phases : \A x \in Range(Steps(op[t], q)) : Holds(x) => Holds(x)' \/ x = h
    BY <1>1, <1>2, <1>7, Undoes
  <2> QED
    BY <1>1, <1>2, <1>4, <1>5, <2>1, BeginProgress
<1>9. h.at \in mine => "codes" \in b
  <2>1. ASSUME h.at \in mine PROVE "codes" \in b
    <3>1. h.at[1] # "card" /\ \A u \in Threads : ~Rewrites(u, h.at)
      BY <1>1, <1>3 DEF Rewrites
    <3>2. Kept(h.at)
      BY <2>1, <3>1 DEF TInv, UserFilesKept, Kept, Rewrites
    <3> QED
      BY <3>1, <3>2 DEF Kept, b
  <2> QED
    BY <2>1
<1>10. ASSUME faults = 0, NEW v \in Vcds, Boots(v)'
       PROVE  disk'[<<"elf", v>>] = Whole \/ \E u \in Threads : Pending(u, v)'
  <2>1. <<"cfg", v>> \in Files /\ <<"elf", v>> \in Files
    BY DEF Files, Kinds
  <2>2. \A u \in Threads : Pending(u, v) => Pending(u, v)'
    BY <1>6 DEF Pending, Left
  <2>3. CASE h.at = <<"elf", v>>
    <3>1. h \in Range(op[t].todo)
      BY <1>1, <1>2, <1>4, AtHand
    <3>2. Pending(t, v)
      BY <1>3, <2>3, <3>1 DEF Pending, Left
    <3> QED
      BY <2>2, <3>2
  <2>4. CASE h.at # <<"elf", v>>
    <3>1. disk[<<"cfg", v>>] = Whole
      BY <1>5, <1>7, <1>10, <2>1 DEF Boots
    <3>2. disk[<<"elf", v>>] = Whole \/ \E u \in Threads : Pending(u, v)
      BY <1>10, <3>1 DEF TInv, Entries, Boots
    <3> QED
      BY <1>7, <2>1, <2>2, <2>4, <3>2
  <2> QED
    BY <2>3, <2>4
<1>11. faults = 0 => \A u \in Threads : ~op'[u].warned
  BY <1>6 DEF TInv, Entries
<1> QED
  BY <1>1, <1>2, <1>4, <1>5, <1>6, <1>8, <1>9, <1>10, <1>11, FileKeeps

\* The program an entry boots is written before the entry, and deleted before it.
LEMMA ProgramFirst ==
  ASSUME TInv, NEW t \in Threads, op[t].todo # <<>>, NEW h, h = Head(op[t].todo),
         ~op[t].warned, NEW v \in Vcds
  PROVE  /\ h = Do("write", <<"cfg", v>>) =>
              Left(op[t], Do("write", <<"elf", v>>)) \/ disk[<<"elf", v>>] = Whole
         /\ h = Do("delete", <<"elf", v>>) =>
              Left(op[t], Do("delete", <<"cfg", v>>)) \/ disk[<<"cfg", v>>] = None
<1>1. /\ op[t] \in Ops /\ op[t].names # <<>> /\ op[t].phase \in Phases
      /\ h \in Expected(op[t], op[t].phase) /\ h.do \in {"write", "delete", "tidy"}
      /\ op[t].phase # "lock"
  BY AtHand DEF TInv, Control, Shape, Turn, Ops, Work
<1>2. ASSUME h.do # "tidy", h.at[1] \in {"elf", "cfg"}
      PROVE  op[t].phase = "launcher"
  <2>1. h.at[1] \in Written(op[t].phase) \/ h.at[1] \in Deleted(op[t].phase)
    BY <1>1, <1>2 DEF Expected
  <2> QED
    BY <1>1, <1>2, <2>1 DEF Written, Deleted, Phases
<1>3. ASSUME NEW x \in Range(Steps(op[t], "launcher")), op[t].phase = "launcher"
      PROVE  Left(op[t], x) \/ Holds(x)
  BY <1>3 DEF TInv, Progress, Reached
<1>4. ASSUME h = Do("write", <<"cfg", v>>)
      PROVE  Left(op[t], Do("write", <<"elf", v>>)) \/ disk[<<"elf", v>>] = Whole
  <2>1. h.do = "write" /\ h.at[1] = "cfg" /\ h.at[2] = v
    BY <1>4 DEF Do
  <2>2. op[t].phase = "launcher"
    BY <1>2, <2>1
  <2>3. v \in Range(op[t].names) /\ op[t].kind \in {"install", "repair"}
        /\ (op[t].kind = "install" => op[t].launcher /\ v = op[t].names[1])
    BY <1>1, <2>1, <2>2 DEF Expected, Ops
  <2>4. Do("write", <<"elf", v>>) \in Range(Steps(op[t], "launcher"))
    <3>1. CASE op[t].kind = "install"
      BY <1>1, <2>3, <3>1, InstallSteps
    <3>2. CASE op[t].kind = "repair"
      <4>1. PICK i \in DOMAIN op[t].names : v = op[t].names[i]
        BY <2>3 DEF Range
      <4> QED
        BY <1>1, <3>2, <4>1, RepairSteps
    <3> QED
      BY <2>3, <3>1, <3>2
  <2> QED
    BY <1>3, <2>2, <2>4 DEF Holds, Do
<1>5. ASSUME h = Do("delete", <<"elf", v>>)
      PROVE  Left(op[t], Do("delete", <<"cfg", v>>)) \/ disk[<<"cfg", v>>] = None
  <2>1. h.do = "delete" /\ h.at[1] = "elf" /\ h.at[2] = v
    BY <1>5 DEF Do
  <2>2. op[t].phase = "launcher"
    BY <1>2, <2>1
  <2>3. op[t].kind = "remove" /\ v = op[t].names[1]
    BY <1>1, <2>1, <2>2 DEF Expected
  <2>4. Do("delete", <<"cfg", v>>) \in Range(Steps(op[t], "launcher"))
    BY <1>1, <2>3, RemoveSteps
  <2> QED
    BY <1>3, <2>2, <2>4 DEF Holds, Do
<1> QED
  BY <1>4, <1>5

\* A step that has done what it is for.
LEMMA DoneKeeps ==
  ASSUME TInv, NEW t \in Threads, op[t].todo # <<>>, NEW h, h = Head(op[t].todo), h.do # "tidy",
         NEW c \in SUBSET Lines, disk' = [disk EXCEPT ![h.at] = c],
         op' = [op EXCEPT ![t] = Done(@)], UNCHANGED << dirs, lock, catalog, faults, mine >>,
         c = None \/ Exists(h.at), Holds(h)', h.at \in mine => "codes" \in c
  PROVE  TInv'
<1>1. /\ h.at \in Files /\ h = Do(h.do, h.at) /\ op[t] # Idle /\ h \in Work
  BY HandKinds
<1>2. Control /\ Progress /\ disk \in [Files -> SUBSET Lines] /\ faults \in Nat
  BY DEF TInv, Control, Shape
<1>3. /\ Moved /\ \A u \in Threads \ {t} : op'[u] = op[u]
      /\ op'[t].todo = Tail(op[t].todo) /\ op'[t].warned = op[t].warned /\ ~op'[t].writing
      /\ op'[t].kind = op[t].kind /\ op'[t].names = op[t].names
  BY <1>2, PopMoves
<1>4. disk'[h.at] = c /\ \A f \in Files : f # h.at => disk'[f] = disk[f]
  BY <1>1, <1>2
<1>5. Progress'
  <2>1. \A q \in Phases : \A x \in Range(Steps(op[t], q)) : Holds(x) => Holds(x)' \/ x = h
    BY <1>4, Undoes
  <2> QED
    BY <1>2, <2>1, PopProgress
<1>6. ASSUME NEW x, Left(op[t], x), x # h PROVE Left(op'[t], x)
  BY <1>2, <1>3, <1>6, AtHand DEF Left
<1>7. ASSUME NEW u \in Threads, NEW v \in Vcds, Pending(u, v),
             h # Do("write", <<"elf", v>>), h # Do("delete", <<"cfg", v>>)
      PROVE  Pending(u, v)'
  BY <1>3, <1>6, <1>7 DEF Pending, Left
<1>8. ASSUME faults = 0, NEW v \in Vcds, Boots(v)'
      PROVE  disk'[<<"elf", v>>] = Whole \/ \E u \in Threads : Pending(u, v)'
  <2>1. <<"cfg", v>> \in Files /\ <<"elf", v>> \in Files /\ ~op[t].warned /\ Whole # None
    BY <1>8 DEF Files, Kinds, TInv, Entries, Whole, None
  <2>2. disk'[<<"cfg", v>>] = Whole
    BY <1>8 DEF Boots
  <2>3. CASE h.at = <<"elf", v>>
    <3>1. CASE h.do = "write"
      BY <1>4, <2>3, <3>1 DEF Holds
    <3>2. CASE h.do = "delete"
      <4>1. disk[<<"cfg", v>>] = Whole
        BY <1>4, <2>1, <2>2, <2>3
      <4>2. Left(op[t], Do("delete", <<"cfg", v>>))
        BY <1>1, <2>1, <2>3, <3>2, <4>1, ProgramFirst
      <4>3. Pending(t, v)'
        BY <1>6, <2>3, <4>2 DEF Pending, Left, Do
      <4> QED
        BY <4>3
    <3> QED
      BY <1>1, <3>1, <3>2 DEF Work
  <2>4. CASE h.at = <<"cfg", v>>
    <3>1. h.do = "write"
      BY <1>1, <1>4, <2>1, <2>2, <2>4 DEF Holds, Work
    <3>2. CASE Left(op[t], Do("write", <<"elf", v>>))
      <4>1. Pending(t, v)'
        BY <1>6, <2>4, <3>2 DEF Pending, Left, Do
      <4> QED
        BY <4>1
    <3>3. CASE disk[<<"elf", v>>] = Whole
      BY <1>4, <2>1, <2>4, <3>3
    <3> QED
      BY <1>1, <2>1, <2>4, <3>1, <3>2, <3>3, ProgramFirst
  <2>5. CASE h.at # <<"elf", v>> /\ h.at # <<"cfg", v>>
    <3>1. disk[<<"cfg", v>>] = Whole /\ disk'[<<"elf", v>>] = disk[<<"elf", v>>]
      BY <1>4, <2>1, <2>2, <2>5
    <3>2. disk[<<"elf", v>>] = Whole \/ \E u \in Threads : Pending(u, v)
      BY <1>8, <3>1 DEF TInv, Entries, Boots
    <3>3. h # Do("write", <<"elf", v>>) /\ h # Do("delete", <<"cfg", v>>)
      BY <2>5 DEF Do
    <3> QED
      BY <1>7, <3>1, <3>2, <3>3
  <2> QED
    BY <2>3, <2>4, <2>5
<1>9. faults = 0 => \A u \in Threads : ~op'[u].warned
  BY <1>3 DEF TInv, Entries
<1> QED
  BY <1>2, <1>3, <1>5, <1>8, <1>9, FileKeeps

LEMMA EndWriteKeeps ==
  ASSUME TInv, NEW t \in Threads, EndWrite(t)
  PROVE  TInv'
<1>1. PICK h : h = Head(op[t].todo)
  OBVIOUS
<1> DEFINE c == Contents(h.at, op[t].body)
<1>2. /\ op[t].todo # <<>> /\ h.do = "write" /\ disk[h.at] = Part /\ op[t].writing
      /\ disk' = [disk EXCEPT ![h.at] = c] /\ op' = [op EXCEPT ![t] = Done(@)]
      /\ UNCHANGED << dirs, lock, catalog, faults, mine >>
  BY <1>1 DEF EndWrite, TInv, HalfWritten, At, Where
<1>3. h.at \in Files /\ h.at[1] # "card" /\ \A u \in Threads \ {t} : ~op[u].writing
  BY <1>1, <1>2, HandKinds
<1>4. op[t].body \in SUBSET Lines /\ disk \in [Files -> SUBSET Lines]
  BY DEF TInv, Control, Shape, Ops
<1>5. c \in SUBSET Lines
  BY <1>4 DEF Contents, Lines, Whole
<1>6. Exists(h.at)
  BY <1>2 DEF Exists, Part, None
<1>7. Holds(h)'
  <2>1. disk'[h.at] = c
    BY <1>2, <1>3, <1>4
  <2>2. h.do # "delete" /\ (h.at[1] = "cheats" => "ours" \in c) /\ (h.at[1] # "cheats" => c = Whole)
    BY <1>2 DEF Contents
  <2> HIDE DEF c
  <2> QED
    BY <2>1, <2>2 DEF Holds
<1>8. h.at \in mine => "codes" \in c
  <2>1. ASSUME h.at \in mine PROVE "codes" \in c
    <3>1. ~Kept(h.at)
      BY <1>2, <1>3 DEF Kept, Part
    <3>2. PICK u \in Threads : Rewrites(u, h.at)
      BY <2>1, <3>1 DEF TInv, UserFilesKept, Kept, Rewrites
    <3>3. u = t /\ "codes" \in op[t].body
      BY <1>3, <3>2 DEF Rewrites
    <3>4. h.at[1] = "cheats"
      BY <1>3, <2>1 DEF TInv, Belongings
    <3> QED
      BY <3>3, <3>4 DEF Contents
  <2> QED
    BY <2>1
<1> HIDE DEF c
<1>9. h.do # "tidy"
  BY <1>2
<1> QED
  BY <1>1, <1>2, <1>5, <1>6, <1>7, <1>8, <1>9, DoneKeeps

LEMMA DeleteKeeps ==
  ASSUME TInv, NEW t \in Threads, Delete(t)
  PROVE  TInv'
<1>1. PICK h : h = Head(op[t].todo)
  OBVIOUS
<1>2. /\ op[t].todo # <<>> /\ h.do = "delete" /\ h.do # "tidy"
      /\ disk' = [disk EXCEPT ![h.at] = None] /\ op' = [op EXCEPT ![t] = Done(@)]
      /\ UNCHANGED << dirs, lock, catalog, faults, mine >>
  BY <1>1 DEF Delete, At, Where
<1>3. h.at \in Files /\ h.at[1] # "card" /\ h.at[1] # "cheats"
  BY <1>1, <1>2, HandKinds
<1>4. disk \in [Files -> SUBSET Lines] /\ None \in SUBSET Lines
  BY DEF TInv, Control, Shape, None
<1>5. Holds(h)'
  <2>1. disk'[h.at] = None
    BY <1>2, <1>3, <1>4
  <2> QED
    BY <1>2, <2>1 DEF Holds
<1>6. h.at \notin mine
  BY <1>3 DEF TInv, Belongings
<1> QED
  BY <1>1, <1>2, <1>4, <1>5, <1>6, DoneKeeps

LEMMA WriteFailsKeeps ==
  ASSUME TInv, NEW t \in Threads, WriteFails(t)
  PROVE  TInv'
<1> DEFINE h == Head(op[t].todo)
<1>1. /\ op[t].todo # <<>> /\ h.do = "write" /\ Fail(t) /\ faults' = faults + 1
      /\ disk' = [disk EXCEPT ![h.at] = None] /\ mine' = mine \ {h.at}
      /\ UNCHANGED << dirs, catalog >>
  BY DEF WriteFails, Fail, TInv, HalfWritten, At, Where
<1> HIDE DEF h
<1>2. h = Head(op[t].todo) /\ h.do # "tidy"
  BY <1>1 DEF h
<1>3. Control /\ faults' \in Nat /\ faults' # 0
  BY <1>1 DEF TInv, Control, Shape
<1>4. /\ Moved /\ \A u \in Threads \ {t} : op'[u] = op[u]
      /\ \/ op'[t] = Idle
         \/ ~op'[t].writing /\ op'[t].kind = op[t].kind /\ op'[t].names = op[t].names
  BY <1>1, <1>3, FailMoves
<1>5. ~op'[t].writing
  BY <1>4 DEF Idle
<1>6. Progress'
  BY <1>1, <1>3, FailProgress
<1>7. None \in SUBSET Lines /\ h.at \notin mine' /\ mine' \subseteq mine
  BY <1>1 DEF None
<1> QED
  BY <1>1, <1>2, <1>3, <1>4, <1>5, <1>6, <1>7, FileKeeps

\* Tidying takes nothing away but a CHEATS.TXT with the program's own line only.
LEMMA TidyKeeps ==
  ASSUME TInv, NEW t \in Threads, Tidy(t)
  PROVE  TInv'
<1>1. PICK h : h = Head(op[t].todo)
  OBVIOUS
<1>2. /\ op[t].todo # <<>> /\ h.do = "tidy" /\ op' = [op EXCEPT ![t] = Done(@)]
      /\ disk' = [f \in Files |-> IF f \in In(h.at) \ LeftIn(h.at) THEN None ELSE disk[f]]
      /\ dirs' = IF LeftIn(h.at) = {} THEN dirs \ {h.at} ELSE dirs
      /\ UNCHANGED << lock, catalog, faults, mine >>
  BY <1>1 DEF Tidy, At, Where
<1>3. /\ Control /\ Progress /\ disk \in [Files -> SUBSET Lines] /\ dirs \subseteq Dirs
      /\ mine \subseteq Files /\ catalog \subseteq Seq(Vcds) \ {<<>>} /\ faults \in Nat
  BY DEF TInv, Control, Shape
<1>4. /\ op[t].kind = "remove" /\ h.at \in Dirs /\ op[t] \in Ops /\ op[t] # Idle
      /\ op[t].names # <<>> /\ \A u \in Threads \ {t} : ~op[u].writing
  <2>1. /\ h \in Expected(op[t], op[t].phase) /\ h \in Work /\ op[t] \in Ops
        /\ op[t].kind # "idle" /\ \A u \in Threads \ {t} : ~op[u].writing
    BY <1>1, <1>2, <1>3, AtHand DEF Control, Shape, Waiting
  <2>2. op[t].kind = "remove" /\ h.at \in Dirs
    BY <1>2, <2>1 DEF Expected, Work
  <2>3. op[t] # Idle /\ op[t].names # <<>>
    BY <1>3, <2>1 DEF Idle, Control, Turn
  <2> QED
    BY <2>1, <2>2, <2>3
<1>5. \A u \in Threads : ~op[u].writing
  BY <1>1, <1>2, <1>4 DEF TInv, HalfWritten, At
<1>6. /\ Moved /\ \A u \in Threads \ {t} : op'[u] = op[u]
      /\ op'[t].todo = Tail(op[t].todo) /\ op'[t].warned = op[t].warned /\ ~op'[t].writing
      /\ op'[t].kind = op[t].kind /\ op'[t].names = op[t].names
  BY <1>2, <1>3, PopMoves
<1>7. ASSUME NEW f \in Files
      PROVE  \/ disk'[f] = disk[f]
             \/ f[1] = "cheats" /\ disk[f] = {"file", "ours"} /\ disk'[f] = None
  BY <1>2 DEF LeftIn, Exists
<1>8. Control'
  <2>1. disk' \in [Files -> SUBSET Lines] /\ dirs' \subseteq Dirs
    BY <1>2, <1>3 DEF None
  <2> QED
    BY <1>2, <1>3, <1>6, <2>1 DEF Control, Shape, Moved
<1>9. HalfWritten'
  BY <1>5, <1>6 DEF HalfWritten
<1>10. Housed'
  <2>1. ASSUME NEW d \in Dirs, NEW f \in In(d), disk'[f] # None PROVE d \in dirs'
    <3>1. f \in Files /\ disk[f] # None /\ d \in dirs
      BY <1>7, <2>1, InDirs DEF TInv, Housed, Exists
    <3>2. d = h.at => f \in LeftIn(h.at)
      BY <1>2, <2>1, <3>1
    <3> QED
      BY <1>2, <3>1, <3>2
  <2> QED
    BY <2>1 DEF Housed, Exists
<1>11. Belongings'
  <2>1. ASSUME NEW v \in Vcds PROVE disk'[<<"card", v>>] = disk[<<"card", v>>]
    <3>1. <<"card", v>> \in Files /\ <<"card", v>>[1] = "card"
      BY DEF Files, Kinds
    <3> QED
      BY <1>7, <3>1
  <2> QED
    BY <1>2, <2>1 DEF TInv, Belongings
<1>12. UserFilesKept'
  <2>1. ASSUME NEW f \in mine' PROVE Kept(f)'
    <3>1. f \in Files /\ f \in mine
      BY <1>2, <1>3
    <3>2. Kept(f)
      BY <1>5, <3>1 DEF TInv, UserFilesKept, Kept
    <3>3. disk'[f] = disk[f]
      BY <1>7, <3>1, <3>2 DEF Kept
    <3> QED
      BY <3>2, <3>3 DEF Kept
  <2> QED
    BY <2>1 DEF UserFilesKept, Kept
<1>13. Progress'
  <2>1. ASSUME NEW q \in Phases, NEW x \in Range(Steps(op[t], q)), Holds(x)
        PROVE  Holds(x)'
    <3>1. x \in Expected(op[t], q)
      BY <1>3, <1>4, <2>1, StepsExpected
    <3>2. x.do # "write" /\ (x.do = "delete" => x.at \in Files)
      BY <1>4, <3>1 DEF Expected, Work
    <3>3. x.do = "delete" => disk'[x.at] = None
      BY <1>7, <2>1, <3>2 DEF Holds
    <3> QED
      BY <3>2, <3>3 DEF Holds
  <2>2. Holds(h)'
    BY <1>2 DEF Holds
  <2> QED
    BY <1>1, <1>2, <1>3, <2>1, <2>2, PopProgress
<1>14. Repairing'
  BY <1>1, <1>2, <1>4, <1>6, WriteRepair
<1>15. Entries'
  <2>1. ASSUME NEW v \in Vcds, NEW k \in {"elf", "cfg"} PROVE disk'[<<k, v>>] = disk[<<k, v>>]
    <3>1. <<k, v>> \in Files /\ <<k, v>>[1] = k
      BY DEF Files, Kinds
    <3> QED
      BY <1>7, <3>1
  <2>2. ASSUME NEW x, x.do # "tidy", Left(op[t], x) PROVE Left(op'[t], x)
    <3>1. Range(op[t].todo) = Range(op'[t].todo) \cup {h}
      BY <1>1, <1>2, <1>3, <1>6, AtHand
    <3> QED
      BY <1>2, <2>2, <3>1 DEF Left
  <2>3. ASSUME NEW u \in Threads, NEW v \in Vcds, Pending(u, v) PROVE Pending(u, v)'
    BY <1>6, <2>2, <2>3 DEF Pending, Left, Do
  <2>4. \A v \in Vcds : Boots(v)' <=> Boots(v)
    BY <2>1 DEF Boots
  <2>5. faults = 0 => \A u \in Threads : ~op'[u].warned
    BY <1>6 DEF TInv, Entries
  <2>6. ASSUME faults = 0, NEW v \in Vcds, Boots(v)'
        PROVE  disk'[<<"elf", v>>] = Whole \/ \E u \in Threads : Pending(u, v)'
    BY <2>1, <2>3, <2>4, <2>6 DEF TInv, Entries
  <2> QED
    BY <1>2, <2>5, <2>6 DEF Entries
<1> QED
  BY <1>8, <1>9, <1>10, <1>11, <1>12, <1>13, <1>14, <1>15 DEF TInv

\* A card or a code written between commands.
LEMMA UserKeeps ==
  ASSUME TInv, NEW f \in Files, NEW what \in SUBSET Lines, UserWrites(f, what),
         IF f[1] = "card" THEN what = Whole ELSE f[1] = "cheats" /\ "codes" \in what
  PROVE  TInv'
<1>1. /\ disk \in [Files -> SUBSET Lines] /\ dirs \subseteq Dirs /\ mine \subseteq Files
      /\ Control /\ faults \in Nat
  BY DEF TInv, Control, Shape
<1>2. /\ disk' = [disk EXCEPT ![f] = @ \cup what] /\ dirs' = dirs \cup DirOf(f)
      /\ mine' = mine \cup {f} /\ UNCHANGED << op, lock, catalog, faults >>
      /\ \A t \in Threads : op[t] = Idle
  BY DEF UserWrites, AllIdle
<1>3. /\ disk'[f] = disk[f] \cup what /\ \A e \in Files : e # f => disk'[e] = disk[e]
      /\ f[1] \in {"card", "cheats"}
  BY <1>1, <1>2
<1>4. /\ Idle.kind = "idle" /\ Idle.phase = "lock" /\ Idle.todo = <<>> /\ ~Idle.writing /\ ~Idle.warned
  BY DEF Idle
<1>5. Control'
  <2>1. disk' \in [Files -> SUBSET Lines] /\ dirs' \subseteq Dirs /\ mine' \subseteq Files
    BY <1>1, <1>2 DEF DirOf
  <2> QED
    BY <1>1, <1>2, <2>1 DEF Control, Shape, Turn, Follows, Installing
<1>6. HalfWritten' /\ Progress' /\ Repairing'
  <2>1. \A t \in Threads : op'[t] = Idle
    BY <1>2
  <2>2. HalfWritten' /\ Progress'
    BY <1>4, <2>1 DEF HalfWritten, Progress, Reached
  <2>3. "setup" \in Threads
    BY DEF Threads
  <2>4. Repairing'
    BY <1>4, <2>1, <2>3 DEF Repairing
  <2> QED
    BY <2>2, <2>4
<1>7. Housed'
  <2>1. ASSUME NEW d \in Dirs, NEW e \in In(d), disk'[e] # None PROVE d \in dirs'
    <3>1. e \in Files /\ d \in DirOf(e)
      BY InDirs
    <3> QED
      BY <1>2, <1>3, <2>1, <3>1 DEF TInv, Housed, Exists
  <2> QED
    BY <2>1 DEF Housed, Exists
<1>8. Belongings'
  <2>1. ASSUME NEW v \in Vcds PROVE disk'[<<"card", v>>] \subseteq Whole
    <3>1. <<"card", v>> \in Files /\ <<"card", v>>[1] = "card" /\ disk[<<"card", v>>] \subseteq Whole
      BY DEF Files, Kinds, TInv, Belongings
    <3> QED
      BY <1>3, <3>1
  <2> QED
    BY <1>2, <1>3, <2>1 DEF TInv, Belongings
<1>9. UserFilesKept'
  <2>1. ASSUME NEW e \in mine' PROVE Kept(e)'
    <3>1. CASE e = f
      <4>1. CASE f[1] = "card"
        <5>1. f = <<"card", f[2]>> /\ f[2] \in Vcds
          BY <4>1 DEF Files
        <5>2. disk[f] \subseteq Whole
          BY <5>1 DEF TInv, Belongings
        <5> QED
          BY <1>3, <3>1, <4>1, <5>2 DEF Kept
      <4>2. CASE f[1] # "card"
        BY <1>3, <3>1, <4>2 DEF Kept
      <4> QED
        BY <4>1, <4>2
    <3>2. CASE e # f
      <4>1. e \in mine /\ e \in Files
        BY <1>1, <1>2, <3>2
      <4>2. Kept(e)
        BY <1>2, <1>4, <4>1 DEF TInv, UserFilesKept, Kept
      <4> QED
        BY <1>3, <3>2, <4>1, <4>2 DEF Kept
    <3> QED
      BY <3>1, <3>2
  <2> QED
    BY <2>1 DEF UserFilesKept, Kept
<1>10. Entries'
  <2>1. ASSUME NEW v \in Vcds, NEW k \in {"elf", "cfg"} PROVE disk'[<<k, v>>] = disk[<<k, v>>]
    <3>1. <<k, v>> \in Files /\ <<k, v>>[1] = k
      BY DEF Files, Kinds
    <3> QED
      BY <1>3, <3>1
  <2> QED
    BY <1>2, <2>1 DEF TInv, Entries, Boots, Pending, Left
<1> QED
  BY <1>5, <1>6, <1>7, <1>8, <1>9, <1>10 DEF TInv

LEMMA ConsoleKeeps ==
  ASSUME TInv, NEW v \in Played, Play(v) \/ WriteCodes(v)
  PROVE  TInv'
<1>1. v \in Vcds
  BY TitleFilesAssumption
<1>2. CASE Play(v)
  <2>1. CardDir(v) \in Vcds
    <3>1. <<v[1], 1>> \in Vcds
      BY <1>1, VcdPair, VcdOf
    <3> QED
      BY <1>1, <3>1 DEF CardDir
  <2>2. <<"card", CardDir(v)>> \in Files /\ <<"card", CardDir(v)>>[1] = "card" /\ Whole \in SUBSET Lines
    BY <2>1 DEF Files, Kinds, Whole, Lines
  <2>3. UserWrites(<<"card", CardDir(v)>>, Whole)
    BY <1>2 DEF Play
  <2> QED
    BY <2>2, <2>3, UserKeeps
<1>3. CASE WriteCodes(v)
  <2>1. <<"cheats", v>> \in Files /\ <<"cheats", v>>[1] = "cheats" /\ {"file", "codes"} \in SUBSET Lines
    BY <1>1 DEF Files, Kinds, Lines
  <2>2. UserWrites(<<"cheats", v>>, {"file", "codes"})
    BY <1>3 DEF WriteCodes
  <2> QED
    BY <2>1, <2>2, UserKeeps
<1> QED
  BY <1>2, <1>3

-----------------------------------------------------------------------------
(* The theorems. *)

LEMMA InitInvariant == Init => TInv
<1> SUFFICES ASSUME Init PROVE TInv
  OBVIOUS
<1>1. /\ disk = [f \in Files |-> None] /\ dirs = {} /\ op = [t \in Threads |-> Idle]
      /\ lock = "free" /\ catalog = {} /\ faults = 0 /\ mine = {}
  BY DEF Init
<1>2. \A t \in Threads : op[t] = Idle
  BY <1>1
<1>3. /\ Idle.kind = "idle" /\ Idle.phase = "lock" /\ Idle.todo = <<>> /\ ~Idle.writing /\ ~Idle.warned
      /\ <<>> \in Seq(Range(Steps(Idle, Idle.phase))) /\ "setup" \in Threads /\ "free" \notin Threads
  BY EmptySeq DEF Idle, Threads
<1>4. \A f \in Files : disk[f] = None
  BY <1>1
<1>5. Control
  <2>1. Shape
    BY <1>1, IdleOp DEF Shape, None
  <2>2. Turn
    BY <1>1, <1>2, <1>3, IdleOp DEF Turn
  <2>3. Follows /\ Installing
    BY <1>2, <1>3 DEF Follows, Installing
  <2> QED
    BY <2>1, <2>2, <2>3 DEF Control
<1>6. HalfWritten /\ Progress
  BY <1>2, <1>3 DEF HalfWritten, Progress, Reached
<1>7. Repairing
  BY <1>2, <1>3 DEF Repairing
<1>8. Housed
  BY <1>4, InDirs DEF Housed, Exists
<1>9. Belongings /\ UserFilesKept
  <2>1. ASSUME NEW v \in Vcds PROVE disk[<<"card", v>>] \subseteq Whole
    <3>1. <<"card", v>> \in Files
      BY DEF Files, Kinds
    <3> QED
      BY <1>4, <3>1 DEF None
  <2> QED
    BY <1>1, <2>1 DEF Belongings, UserFilesKept
<1>10. Entries
  <2>1. ASSUME NEW v \in Vcds PROVE ~Boots(v)
    <3>1. <<"cfg", v>> \in Files /\ None # Whole
      BY DEF Files, Kinds, None, Whole
    <3> QED
      BY <1>4, <3>1 DEF Boots
  <2> QED
    BY <1>2, <1>3, <2>1 DEF Entries
<1> QED
  BY <1>5, <1>6, <1>7, <1>8, <1>9, <1>10 DEF TInv

LEMMA NextInvariant == TInv /\ [Next]_vars => TInv'
<1> SUFFICES ASSUME TInv, [Next]_vars PROVE TInv'
  OBVIOUS
<1>1. CASE \E r \in Releases : \E o \in Options[r] : StartInstall(r, o)
  BY <1>1, InstallKeeps
<1>2. CASE \E g \in catalog : StartRemove(g)
  BY <1>2, RemoveKeeps
<1>3. CASE StartRepair
  BY <1>3, RepairKeeps
<1>4. CASE LoadCatalog
  BY <1>4, LoadKeeps
<1>5. ASSUME NEW t \in Threads, Step(t)
      PROVE  TInv'
  <2>1. CASE TakeLock(t) \/ NextPart(t)
    BY <2>1, EnterKeeps
  <2>2. CASE End(t)
    BY <2>2, EndKeeps
  <2>3. CASE StepFails(t) \/ VcdInTheWay(t)
    BY <2>3, FailKeeps
  <2>4. CASE CheatThere(t) \/ TidyFails(t)
    BY <2>4, SkipKeeps
  <2>5. CASE BeginWrite(t)
    BY <2>5, BeginKeeps
  <2>6. CASE EndWrite(t)
    BY <2>6, EndWriteKeeps
  <2>7. CASE WriteFails(t)
    BY <2>7, WriteFailsKeeps
  <2>8. CASE Delete(t)
    BY <2>8, DeleteKeeps
  <2>9. CASE Tidy(t)
    BY <2>9, TidyKeeps
  <2> QED
    BY <1>5, <2>1, <2>2, <2>3, <2>4, <2>5, <2>6, <2>7, <2>8, <2>9 DEF Step
<1>6. CASE Crash
  BY <1>6, CrashKeeps
<1>7. CASE \E v \in Played : Play(v) \/ WriteCodes(v)
  BY <1>7, ConsoleKeeps
<1>8. CASE UNCHANGED vars
  <2>1. catalog \subseteq Seq(Vcds) \ {<<>>}
    BY DEF TInv, Control, Shape
  <2> QED
    BY <1>8, <2>1, UntouchedKeeps DEF vars
<1> QED
  BY <1>1, <1>2, <1>3, <1>4, <1>5, <1>6, <1>7, <1>8 DEF Next

\* The invariant holds of every drive, catalog and sequence of commands.
THEOREM TitleInductive == Spec => []TInv
<1>1. Init => TInv
  BY InitInvariant
<1>2. TInv /\ [Next]_vars => TInv'
  BY NextInvariant
<1> QED
  BY <1>1, <1>2, PTL DEF Spec

\* An entry is of a release's first disc, or of one that a repair was to make it for.
Entry(k, v) == k \in {"elf", "cfg"} /\ Exists(<<k, v>>)
LInv ==
  /\ repaired \subseteq Vcds
  /\ \A v \in Vcds : \A k \in {"elf", "cfg"} : Entry(k, v) => v[2] = 1 \/ v \in repaired
  /\ \A t \in Threads : op[t].kind = "repair" => Range(op[t].names) \subseteq repaired

\* Steps that make no entry, nor an operation.
LEMMA EntriesStay ==
  ASSUME LInv, UNCHANGED repaired,
         \A v \in Vcds : \A k \in {"elf", "cfg"} : Entry(k, v)' => Entry(k, v),
         \A t \in Threads : op'[t].kind = "repair" =>
           op[t].kind = "repair" /\ op'[t].names = op[t].names
  PROVE  LInv'
BY DEF LInv

\* An operation that goes on, fails or ends names what it named.
Goes(t) ==
  \E o \in {Idle} \cup {p \in Ops : p.kind = op[t].kind /\ p.names = op[t].names} :
    op' = [op EXCEPT ![t] = o]
LEMMA GoesOn ==
  ASSUME TInv, NEW t \in Threads, Step(t)
  PROVE  Goes(t)
<1>1. op \in [Threads -> Ops]
  BY DEF TInv, Control, Shape
<1>2. /\ \A q : InPhase(op[t], q).kind = op[t].kind /\ InPhase(op[t], q).names = op[t].names
      /\ Done(op[t]).kind = op[t].kind /\ Done(op[t]).names = op[t].names
      /\ \/ Failed(op[t]) = Idle
         \/ Failed(op[t]).kind = op[t].kind /\ Failed(op[t]).names = op[t].names
  BY <1>1 DEF InPhase, Done, Failed, Ops
<1>3. PICK o : /\ op' = [op EXCEPT ![t] = o]
               /\ o = Idle \/ (o.kind = op[t].kind /\ o.names = op[t].names)
  <2>1. CASE TakeLock(t) \/ NextPart(t)
    BY <1>2, <2>1 DEF TakeLock, NextPart
  <2>2. CASE End(t)
    BY <2>2 DEF End
  <2>3. CASE StepFails(t) \/ VcdInTheWay(t) \/ WriteFails(t)
    BY <1>2, <2>3 DEF StepFails, VcdInTheWay, WriteFails, Fail
  <2>4. CASE CheatThere(t) \/ EndWrite(t) \/ Delete(t) \/ Tidy(t) \/ TidyFails(t)
    BY <1>2, <2>4 DEF CheatThere, EndWrite, Delete, Tidy, TidyFails
  <2>5. CASE BeginWrite(t)
    <3> DEFINE o == [op[t] EXCEPT !.writing = TRUE, !.body = disk[Where(t)]]
    <3>1. o.kind = op[t].kind /\ o.names = op[t].names
      BY <1>1 DEF Ops
    <3>2. op' = [op EXCEPT ![t] = o]
      BY <2>5 DEF BeginWrite
    <3> QED
      BY <3>1, <3>2
  <2> QED
    BY <2>1, <2>2, <2>3, <2>4, <2>5 DEF Step
<1>4. op'[t] = o /\ o \in Ops
  <2>1. op' \in [Threads -> Ops]
    BY NextInvariant DEF TInv, Control, Shape, Next
  <2> QED
    BY <1>1, <1>3, <2>1
<1> QED
  BY <1>3, <1>4 DEF Goes

LEMMA StepEntries ==
  ASSUME TInv, LInv, NEW t \in Threads, Step(t)
  PROVE  LInv'
<1> DEFINE h == Head(op[t].todo)
<1>1. op \in [Threads -> Ops] /\ disk \in [Files -> SUBSET Lines]
  BY DEF TInv, Control, Shape
<1>2. UNCHANGED repaired
  BY DEF Step, TakeLock, NextPart, End, StepFails, VcdInTheWay, CheatThere, BeginWrite, EndWrite,
     WriteFails, Delete, Tidy, TidyFails, Fail
<1>3. ASSUME NEW u \in Threads, op'[u].kind = "repair"
      PROVE  op[u].kind = "repair" /\ op'[u].names = op[u].names
  <2>1. PICK o \in {Idle} \cup {p \in Ops : p.kind = op[t].kind /\ p.names = op[t].names} :
               op' = [op EXCEPT ![t] = o]
    BY GoesOn DEF Goes
  <2>2. Idle.kind # "repair"
    BY DEF Idle
  <2> QED
    BY <1>1, <1>3, <2>1, <2>2
<1>4. ASSUME NEW v \in Vcds, NEW k \in {"elf", "cfg"}, Exists(<<k, v>>)', ~Exists(<<k, v>>)
      PROVE  v[2] = 1 \/ v \in repaired
  <2> DEFINE f == <<k, v>>
  <2>1. f \in Files /\ f[1] = k /\ f[2] = v /\ disk[f] = None /\ disk'[f] # None
    BY <1>4 DEF Files, Kinds, Exists
  <2> HIDE DEF f
  <2>2. BeginWrite(t) \/ EndWrite(t)
    BY <1>1, <2>1 DEF Step, TakeLock, NextPart, End, StepFails, VcdInTheWay, CheatThere,
       WriteFails, Delete, Tidy, TidyFails, Fail
  <2>3. op[t].todo # <<>> /\ h.do = "write" /\ \E c : disk' = [disk EXCEPT ![h.at] = c]
    BY <2>2 DEF BeginWrite, EndWrite, At, Where, TInv, HalfWritten
  <2> HIDE DEF h
  <2>4. h.at = f
    BY <1>1, <2>1, <2>3
  <2>5. h \in Expected(op[t], op[t].phase) /\ op[t].phase \in Phases \ {"lock"}
    BY <1>1, <2>3, AtHand DEF h, TInv, Ops
  <2>6. /\ v \in Range(op[t].names) /\ k \in Written(op[t].phase)
        /\ op[t].kind \in {"install", "repair"}
        /\ op[t].phase = "launcher" /\ op[t].kind = "install" => v = op[t].names[1]
    <3>1. op[t].kind \in {"idle", "install", "remove", "repair"}
      BY <1>1 DEF Ops
    <3> QED
      BY <2>1, <2>3, <2>4, <2>5, <3>1 DEF Expected
  <2>7. op[t].phase = "launcher"
    BY <2>5, <2>6 DEF Written, Phases
  <2>8. CASE op[t].kind = "repair"
    BY <2>6, <2>8 DEF LInv
  <2>9. CASE op[t].kind = "install"
    <3>1. PICK r \in Releases : op[t].names = DiscsOf(r)
      BY <2>9 DEF TInv, Control, Installing
    <3>2. v = op[t].names[1]
      BY <2>6, <2>7, <2>9
    <3>3. DiscsOf(r)[1] = <<r, 1>>
      BY ReleaseDiscs
    <3>4. v = <<r, 1>>
      BY <3>1, <3>2, <3>3
    <3> QED
      BY <3>4
  <2> QED
    BY <2>6, <2>8, <2>9
<1> QED
  BY <1>2, <1>3, <1>4 DEF LInv, Entry

LEMMA NextEntries == TInv /\ LInv /\ [Next]_vars => LInv'
<1> SUFFICES ASSUME TInv, LInv, [Next]_vars PROVE LInv'
  OBVIOUS
<1>1. op \in [Threads -> Ops] /\ disk \in [Files -> SUBSET Lines]
  BY DEF TInv, Control, Shape
<1>2. ASSUME NEW t \in Threads, NEW o, o.kind # "repair", Start(t, o), UNCHANGED repaired PROVE LInv'
  <2>1. op' = [op EXCEPT ![t] = o] /\ UNCHANGED disk
    BY <1>2 DEF Start
  <2>2. \A u \in Threads : op'[u].kind = "repair" => op[u].kind = "repair" /\ op'[u].names = op[u].names
    BY <1>1, <1>2, <2>1
  <2> QED
    BY <1>2, <2>1, <2>2, EntriesStay DEF Entry, Exists
<1>3. CASE \E r \in Releases : \E o \in Options[r] : StartInstall(r, o)
  <2>1. PICK r \in Releases : \E o \in Options[r] : StartInstall(r, o)
    BY <1>3
  <2>2. PICK o \in Options[r] : StartInstall(r, o)
    BY <2>1
  <2> DEFINE p == [Idle EXCEPT !.kind = "install", !.names = DiscsOf(r), !.wide = o[1], !.launcher = o[2]]
  <2>3. p.kind # "repair" /\ Start("queue", p) /\ UNCHANGED repaired /\ "queue" \in Threads
    BY <2>2 DEF StartInstall, Idle, Threads
  <2> HIDE DEF p
  <2> QED
    BY <1>2, <2>3
<1>4. CASE \E g \in catalog : StartRemove(g)
  <2>1. PICK g \in catalog : StartRemove(g)
    BY <1>4
  <2> DEFINE p == [Idle EXCEPT !.kind = "remove", !.names = g]
  <2>2. p.kind # "repair" /\ Start("screen", p) /\ UNCHANGED repaired /\ "screen" \in Threads
    BY <2>1 DEF StartRemove, Idle, Threads
  <2> HIDE DEF p
  <2> QED
    BY <1>2, <2>2
<1>5. CASE StartRepair
  <2> DEFINE want == {TitleOf[Key(g)[1]] : g \in Missing}
             all == {launcherVCD(g) : g \in {h \in ScanPOPS : TitleOf[Key(h)[1]] \in want}}
             o == [Idle EXCEPT !.kind = "repair", !.names = InDiscOrder(all)]
  <2>1. Start("setup", o) /\ repaired' = repaired \cup all
    BY <1>5 DEF StartRepair
  <2>2. all \in SUBSET Vcds
    BY ScannedTitles DEF launcherVCD
  <2>3. Range(InDiscOrder(all)) = all
    BY <2>2, InOrder
  <2>4. o.names = InDiscOrder(all)
    BY DEF Idle
  <2> HIDE DEF all, o
  <2>5. op' = [op EXCEPT !["setup"] = o] /\ UNCHANGED disk
    BY <2>1 DEF Start
  <2>6. \A u \in Threads : op'[u].kind = "repair" => Range(op'[u].names) \subseteq repaired'
    BY <1>1, <2>1, <2>3, <2>4, <2>5 DEF LInv
  <2> QED
    BY <2>1, <2>2, <2>5, <2>6 DEF LInv, Entry, Exists
<1>6. ASSUME NEW t \in Threads, Step(t) PROVE LInv'
  BY <1>6, StepEntries
<1>7. CASE Crash
  <2>1. UNCHANGED << disk, repaired >> /\ \A t \in Threads : op'[t] = Idle
    BY <1>7 DEF Crash
  <2>2. Idle.kind # "repair"
    BY DEF Idle
  <2> QED
    BY <2>1, <2>2, EntriesStay DEF Entry, Exists
<1>8. CASE \E v \in Played : Play(v) \/ WriteCodes(v)
  <2>1. PICK k \in {"card", "cheats"} : \E u, what : UserWrites(<<k, u>>, what)
    BY <1>8 DEF Play, WriteCodes
  <2> PICK u, what : UserWrites(<<k, u>>, what)
    BY <2>1
  <2>2. UNCHANGED << op, repaired >> /\ disk' = [disk EXCEPT ![<<k, u>>] = @ \cup what]
    BY DEF UserWrites
  <2>3. \A w \in Vcds : \A j \in {"elf", "cfg"} : disk'[<<j, w>>] = disk[<<j, w>>]
    BY <1>1, <2>2 DEF Files, Kinds
  <2> QED
    BY <2>2, <2>3, EntriesStay DEF Entry, Exists
<1>9. CASE LoadCatalog \/ UNCHANGED vars
  <2>1. UNCHANGED << op, disk, repaired >>
    BY <1>9 DEF LoadCatalog, vars
  <2> QED
    BY <2>1, EntriesStay DEF Entry, Exists
<1> QED
  BY <1>3, <1>4, <1>5, <1>6, <1>7, <1>8, <1>9 DEF Next

\* Where entries are, on every drive.
THEOREM EntriesKnown == Spec => []LInv
<1>1. Init => LInv
  <2> SUFFICES ASSUME Init PROVE LInv
    OBVIOUS
  <2>1. ASSUME NEW v \in Vcds, NEW k \in {"elf", "cfg"} PROVE ~Entry(k, v)
    <3>1. <<k, v>> \in Files
      BY DEF Files, Kinds
    <3> QED
      BY <3>1 DEF Init, Entry, Exists
  <2>2. \A t \in Threads : op[t].kind # "repair"
    BY DEF Init, Idle
  <2> QED
    BY <2>1, <2>2 DEF Init, LInv
<1> QED
  BY <1>1, NextEntries, TitleInductive, PTL DEF Spec

\* "Anything else in the directory is the user's" (remove.go:220).
THEOREM UsersStay == Spec => []UserFilesKept
<1>1. TInv => UserFilesKept
  BY DEF TInv
<1> QED
  BY <1>1, TitleInductive, PTL

\* Types, the lock, and files in directories that exist (remove.go:236).
THEOREM TitleTypes == Spec => []FTypeOK
<1>1. TInv /\ LInv => FTypeOK
  <2> SUFFICES ASSUME TInv, LInv PROVE FTypeOK
    OBVIOUS
  <2>1. /\ disk \in [Files -> SUBSET Lines] /\ dirs \subseteq Dirs /\ op \in [Threads -> Ops]
        /\ lock \in Threads \cup {"free"} /\ catalog \subseteq Seq(Vcds) /\ mine \subseteq Files
        /\ repaired \subseteq Vcds
    BY DEF TInv, LInv, Control, Shape
  <2>2. Ops \subseteq Operations
    <3>1. Work \subseteq [do : {"write", "delete", "tidy"}, at : Files \cup Dirs]
      BY DEF Work
    <3>2. Seq(Work) \subseteq Seq([do : {"write", "delete", "tidy"}, at : Files \cup Dirs])
      BY <3>1, SeqMonotonic
    <3> QED
      BY <3>2 DEF Ops, Operations, Phases
  <2>3. op \in [Threads -> Operations]
    BY <2>1, <2>2
  <2>4. \A t \in Threads : lock = t <=> op[t].phase # "lock"
    BY DEF TInv, Control, Turn, Waiting
  <2>5. \A d \in Dirs : \A f \in In(d) : Exists(f) => d \in dirs
    BY DEF TInv, Housed
  <2> QED
    BY <2>1, <2>3, <2>4, <2>5 DEF FTypeOK
<1> QED
  BY <1>1, TitleInductive, EntriesKnown, PTL

\* At the end, without a warning, all of it has been done.
LEMMA AllDone ==
  ASSUME TInv, NEW t \in Threads, Finished(op[t]), ~op[t].warned
  PROVE  /\ op[t] \in Ops /\ op[t].names # <<>>
         /\ \A q \in {"vcd", "support", "launcher"} : \A x \in Range(Steps(op[t], q)) : Holds(x)
<1>1. op[t].phase = "launcher" /\ op[t].todo = <<>> /\ op[t].kind # "idle"
  BY DEF Finished
<1>2. op[t] \in Ops /\ op[t].names # <<>>
  BY <1>1 DEF TInv, Control, Shape, Turn
<1>3. ASSUME NEW q \in {"vcd", "support", "launcher"}, NEW x \in Range(Steps(op[t], q))
      PROVE  Holds(x)
  <2>1. q \in Reached(op[t].phase)
    BY <1>1 DEF Reached
  <2>2. Left(op[t], x) \/ Holds(x)
    BY <1>3, <2>1 DEF TInv, Progress
  <2> QED
    BY <1>1, <2>2, NoneLeft
<1> QED
  BY <1>2, <1>3

LEMMA HoldsFile ==
  ASSUME NEW k, NEW v
  PROVE  /\ Holds(Do("write", <<k, v>>)) =>
              IF k = "cheats" THEN "ours" \in disk[<<k, v>>] ELSE disk[<<k, v>>] = Whole
         /\ Holds(Do("delete", <<k, v>>)) => disk[<<k, v>>] = None
  BY DEF Holds, Do

\* An install that ends without a warning leaves a title that is all there.
THEOREM InstallsWhole == Spec => []InstalledIsWhole
<1>1. TInv => InstalledIsWhole
  <2> SUFFICES ASSUME TInv, NEW t \in Threads, op[t].kind = "install", Finished(op[t]), ~op[t].warned
               PROVE  /\ \A i \in DOMAIN op[t].names :
                           /\ disk[<<"vcd", op[t].names[i]>>] = Whole
                           /\ Len(op[t].names) > 1 => disk[<<"discs", op[t].names[i]>>] = Whole
                           /\ i > 1 => CardDir(op[t].names[i]) = op[t].names[1]
                           /\ op[t].wide => "ours" \in disk[<<"cheats", op[t].names[i]>>]
                      /\ op[t].launcher =>
                           disk[<<"elf", op[t].names[1]>>] = Whole /\ Boots(op[t].names[1])
    BY DEF InstalledIsWhole
  <2>1. /\ op[t] \in Ops /\ op[t].names # <<>>
        /\ \A q \in {"vcd", "support", "launcher"} : \A x \in Range(Steps(op[t], q)) : Holds(x)
    BY AllDone
  <2>2. PICK r \in Releases : op[t].names = DiscsOf(r)
    BY DEF TInv, Control, Installing
  <2>3. /\ Len(op[t].names) = DiscCount[r] /\ DiscCount[r] \in Nat \ {0}
        /\ DOMAIN op[t].names = 1 .. DiscCount[r]
        /\ \A i \in 1 .. DiscCount[r] : op[t].names[i] = <<r, i>> /\ <<r, i>> \in Vcds
    BY <2>2, ReleaseDiscs, VcdOf
  <2>4. ASSUME NEW i \in DOMAIN op[t].names
        PROVE  /\ disk[<<"vcd", op[t].names[i]>>] = Whole
               /\ Len(op[t].names) > 1 => disk[<<"discs", op[t].names[i]>>] = Whole
               /\ i > 1 => disk[<<"vmcdir", op[t].names[i]>>] = Whole
               /\ op[t].wide => "ours" \in disk[<<"cheats", op[t].names[i]>>]
    <3> DEFINE v == op[t].names[i]
    <3>1. Holds(Do("write", <<"vcd", v>>))
      BY <2>1, InstallSteps
    <3>2. Len(op[t].names) > 1 => Holds(Do("write", <<"discs", v>>))
      BY <2>1, InstallSteps
    <3>3. i > 1 => Holds(Do("write", <<"vmcdir", v>>))
      BY <2>1, InstallSteps
    <3>4. op[t].wide => Holds(Do("write", <<"cheats", v>>))
      BY <2>1, InstallSteps
    <3> HIDE DEF v
    <3>5. /\ disk[<<"vcd", v>>] = Whole
          /\ Len(op[t].names) > 1 => disk[<<"discs", v>>] = Whole
          /\ i > 1 => disk[<<"vmcdir", v>>] = Whole
          /\ op[t].wide => "ours" \in disk[<<"cheats", v>>]
      BY <3>1, <3>2, <3>3, <3>4, HoldsFile
    <3> QED
      BY <3>5 DEF v
  <2>5. ASSUME NEW i \in DOMAIN op[t].names, i > 1
        PROVE  CardDir(op[t].names[i]) = op[t].names[1]
    <3>1. i \in Nat /\ Len(op[t].names) > 1 /\ 1 \in DOMAIN op[t].names
      BY <2>3, <2>5
    <3>2. op[t].names[i] = <<r, i>> /\ op[t].names[1] = <<r, 1>> /\ <<r, 1>> \in Vcds
      BY <2>3, <3>1
    <3>3. disk[<<"vmcdir", <<r, i>>>>] = Whole /\ disk[<<"discs", <<r, 1>>>>] = Whole
      BY <2>4, <2>5, <3>1, <3>2
    <3>4. <<"POPS", <<r, 1>>>> \in dirs
      <4>1. <<"POPS", <<r, 1>>>> \in Dirs /\ <<"discs", <<r, 1>>>> \in In(<<"POPS", <<r, 1>>>>)
        BY <3>2 DEF Dirs, In, SupportKinds
      <4>2. Exists(<<"discs", <<r, 1>>>>)
        BY <3>3 DEF Exists, Whole, None
      <4> QED
        BY <4>1, <4>2 DEF TInv, Housed
    <3> QED
      BY <2>5, <3>2, <3>3, <3>4 DEF CardDir
  <2>6. ASSUME op[t].launcher
        PROVE  disk[<<"elf", op[t].names[1]>>] = Whole /\ Boots(op[t].names[1])
    <3>1. /\ Holds(Do("write", <<"elf", op[t].names[1]>>))
          /\ Holds(Do("write", <<"cfg", op[t].names[1]>>))
      BY <2>1, <2>6, InstallSteps
    <3>2. disk[<<"elf", op[t].names[1]>>] = Whole /\ disk[<<"cfg", op[t].names[1]>>] = Whole
      BY <3>1, HoldsFile
    <3> QED
      BY <3>2 DEF Boots
  <2> QED
    BY <2>4, <2>5, <2>6
<1> QED
  BY <1>1, TitleInductive, PTL

\* What a removal or a repair reports without a warning is so: of a removal no disc, no
\* support file and no entry is left but those of later names that RemovedIsGone lists,
\* which the code does not look for; after a repair every title has its entry.
THEOREM ReportsHold == Spec => []ReportedIsDone
<1>1. TInv /\ LInv => RemovedIsGone
  <2> SUFFICES ASSUME TInv, LInv, NEW t \in Threads, op[t].kind = "remove", Finished(op[t]), ~op[t].warned
               PROVE  /\ \A i \in DOMAIN op[t].names : \A k \in {"vcd", "discs", "vmcdir"} :
                           ~Exists(<<k, op[t].names[i]>>)
                      /\ \A i \in DOMAIN op[t].names : \A k \in {"elf", "cfg"} :
                           Exists(<<k, op[t].names[i]>>) =>
                             i # 1 /\ (op[t].names[i][2] = 1 \/ op[t].names[i] \in repaired)
    BY DEF RemovedIsGone
  <2>1. /\ op[t] \in Ops /\ op[t].names # <<>>
        /\ \A q \in {"vcd", "support", "launcher"} : \A x \in Range(Steps(op[t], q)) : Holds(x)
    BY AllDone
  <2>2. ASSUME NEW i \in DOMAIN op[t].names, NEW k \in {"vcd", "discs", "vmcdir"}
        PROVE  ~Exists(<<k, op[t].names[i]>>)
    <3>1. Holds(Do("delete", <<k, op[t].names[i]>>))
      BY <2>1, RemoveSteps
    <3> QED
      BY <3>1, HoldsFile DEF Exists
  <2>3. ASSUME NEW k \in {"elf", "cfg"}
        PROVE  ~Exists(<<k, op[t].names[1]>>)
    <3>1. Holds(Do("delete", <<k, op[t].names[1]>>))
      BY <2>1, RemoveSteps
    <3> QED
      BY <3>1, HoldsFile DEF Exists
  <2>4. ASSUME NEW i \in DOMAIN op[t].names, NEW k \in {"elf", "cfg"}, Exists(<<k, op[t].names[i]>>)
        PROVE  i # 1 /\ (op[t].names[i][2] = 1 \/ op[t].names[i] \in repaired)
    <3>1. op[t].names[i] \in Vcds
      BY <2>1, ElementOfSeq, LenProperties DEF Ops
    <3> QED
      BY <2>3, <2>4, <3>1 DEF LInv, Entry
  <2> QED
    BY <2>2, <2>4
<1>2. TInv => RepairedIsListed
  <2> SUFFICES ASSUME TInv, op["setup"].kind = "repair", Finished(op["setup"]), NEW g \in ScanPOPS
               PROVE  Boots(g[1]) /\ (faults = 0 => disk[<<"elf", g[1]>>] = Whole)
    BY DEF RepairedIsListed
  <2>1. "setup" \in Threads /\ ~op["setup"].warned
    BY DEF Threads, TInv, Control, Installing
  <2>2. /\ op["setup"] \in Ops /\ op["setup"].names # <<>>
        /\ \A x \in Range(Steps(op["setup"], "launcher")) : Holds(x)
    BY <2>1, AllDone
  <2>3. CASE g[1] \in Range(op["setup"].names)
    <3>1. PICK i \in DOMAIN op["setup"].names : g[1] = op["setup"].names[i]
      BY <2>3 DEF Range
    <3>2. Holds(Do("write", <<"elf", g[1]>>)) /\ Holds(Do("write", <<"cfg", g[1]>>))
      BY <2>2, <3>1, RepairSteps
    <3>3. disk[<<"elf", g[1]>>] = Whole /\ disk[<<"cfg", g[1]>>] = Whole
      BY <3>2, HoldsFile
    <3> QED
      BY <3>3 DEF Boots
  <2>4. CASE Listed(g[1])
    BY <2>4 DEF Listed
  <2> QED
    BY <2>3, <2>4 DEF TInv, Repairing
<1> QED
  BY <1>1, <1>2, TitleInductive, EntriesKnown, PTL DEF ReportedIsDone

\* A disc on the drive stays as it is until a removal names it.
THEOREM DiscsKept == Spec => DiscsStay
<1> DEFINE Stay == \A v \in Vcds :
                     disk[<<"vcd", v>>] = Whole /\ disk'[<<"vcd", v>>] # Whole =>
                       \E t \in Threads : op[t].kind = "remove" /\ v \in Range(op[t].names)
<1>1. TInv /\ [Next]_vars => [Stay]_vars
  <2> SUFFICES ASSUME TInv, Next, NEW v \in Vcds, disk[<<"vcd", v>>] = Whole,
                      disk'[<<"vcd", v>>] # Whole
               PROVE  \E t \in Threads : op[t].kind = "remove" /\ v \in Range(op[t].names)
    OBVIOUS
  <2> DEFINE f == <<"vcd", v>>
  <2>1. /\ f \in Files /\ f[1] = "vcd" /\ f[2] = v /\ disk \in [Files -> SUBSET Lines]
        /\ Part # Whole /\ Whole # None
    BY DEF Files, Kinds, TInv, Control, Shape, Part, Whole, None
  <2>2. disk[f] = Whole /\ disk'[f] # disk[f]
    OBVIOUS
  <2> HIDE DEF f
  <2>3. ~\E u \in Played : Play(u) \/ WriteCodes(u)
    <3>1. ASSUME NEW u \in Played, Play(u) \/ WriteCodes(u) PROVE FALSE
      <4>1. \E what : UserWrites(<<"card", CardDir(u)>>, what) \/ UserWrites(<<"cheats", u>>, what)
        BY <3>1 DEF Play, WriteCodes
      <4> QED
        BY <2>1, <2>2, <4>1 DEF UserWrites
    <3> QED
      BY <3>1
  <2>4. PICK t \in Threads : BeginWrite(t) \/ EndWrite(t) \/ WriteFails(t) \/ Delete(t) \/ Tidy(t)
    BY <2>2, <2>3 DEF Next, Step, StartInstall, StartRemove, StartRepair, Start, LoadCatalog,
       TakeLock, NextPart, End, StepFails, VcdInTheWay, CheatThere, TidyFails, Crash
  <2>5. PICK h : h = Head(op[t].todo)
    OBVIOUS
  <2>6. op[t].todo # <<>>
    BY <2>4 DEF BeginWrite, EndWrite, WriteFails, Delete, Tidy, TInv, HalfWritten, At
  <2>7. CASE Delete(t)
    <3>1. h.do = "delete" /\ disk' = [disk EXCEPT ![h.at] = None]
      BY <2>5, <2>7 DEF Delete, At, Where
    <3>2. f = h.at
      BY <2>1, <2>2, <3>1
    <3> QED
      BY <2>1, <2>5, <2>6, <3>1, <3>2, HandKinds
  <2>8. CASE Tidy(t)
    <3>1. disk'[f] = None /\ f \notin LeftIn(h.at) /\ f \in In(h.at)
      BY <2>1, <2>2, <2>5, <2>8 DEF Tidy, Where
    <3> QED
      BY <2>1, <2>2, <3>1 DEF LeftIn, Exists
  <2>9. CASE EndWrite(t) \/ WriteFails(t)
    <3>1. disk[h.at] = Part /\ \E c : disk' = [disk EXCEPT ![h.at] = c]
      BY <2>5, <2>9 DEF EndWrite, WriteFails, TInv, HalfWritten, Where
    <3> QED
      BY <2>1, <2>2, <3>1
  <2>10. CASE BeginWrite(t)
    <3>1. /\ h.do = "write" /\ disk' = [disk EXCEPT ![h.at] = Part]
          /\ ~(op[t].phase = "vcd" /\ Exists(h.at))
      BY <2>5, <2>10 DEF BeginWrite, At, Where
    <3>2. f = h.at
      BY <2>1, <2>2, <3>1
    <3>3. op[t].phase # "vcd"
      BY <2>1, <2>2, <3>1, <3>2 DEF Exists
    <3>4. h \in Expected(op[t], op[t].phase) /\ op[t].phase # "lock"
      BY <2>5, <2>6, AtHand DEF TInv
    <3>5. h.at[1] \in Written(op[t].phase)
      BY <3>1, <3>4 DEF Expected
    <3> QED
      BY <2>1, <3>2, <3>3, <3>5 DEF Written
  <2> QED
    BY <2>4, <2>7, <2>8, <2>9, <2>10
<1> QED
  BY <1>1, TitleInductive, PTL DEF Spec, DiscsStay

=============================================================================
