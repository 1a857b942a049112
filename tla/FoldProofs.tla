------------------------------ MODULE FoldProofs ------------------------------
(***************************************************************************)
(* Induction and sums, for the modules of proofs.                          *)
(*                                                                         *)
(* An induction theorem takes a predicate as its parameter, which no       *)
(* prover here can supply.  A least counterexample does the same work: it  *)
(* is an element of a set, and LeastNumber is first-order.  So a sum over  *)
(* a finite set, which is the value of a recursive function, exists and    *)
(* does not depend on the order in which its elements are chosen, and so a *)
(* FoldLeft over a sequence is the last of the values it passes through;    *)
(* and a finite set of integers has an enumeration in order.                *)
(***************************************************************************)
EXTENDS Integers, FiniteSetsExt, FiniteSetTheorems, WellFoundedInduction, TLAPS

LEMMA LeastNumber ==
    ASSUME NEW D \in SUBSET Nat, D # {}
    PROVE  \E n \in D : \A m \in D : n <= m
<1>1. PICK n \in D : \A m \in D : ~(<<m, n>> \in OpToRel(<, Nat))
  BY NatLessThanWellFounded, WFMin
<1>2. \A m \in D : ~(m < n)
  BY <1>1 DEF OpToRel
<1>3. QED
  BY <1>2

(* A property that passes from all smaller subsets of a finite set to each *)
(* subset holds of the set itself; "bad" are the subsets without it.       *)
LEMMA NoSmallest ==
    ASSUME NEW S, IsFiniteSet(S), NEW bad \in SUBSET SUBSET S,
           \A T \in bad : \E R \in bad : Cardinality(R) < Cardinality(T)
    PROVE  bad = {}
<1> SUFFICES ASSUME bad # {} PROVE FALSE
  OBVIOUS
<1> DEFINE sizes == {Cardinality(T) : T \in bad}
<1>1. \A T \in bad : Cardinality(T) \in Nat
  BY FS_Subset, FS_CardinalityType
<1>2. sizes \in SUBSET Nat /\ sizes # {}
  BY <1>1
<1>3. PICK n \in sizes : \A m \in sizes : n <= m
  <2> HIDE DEF sizes
  <2>1. QED
    BY <1>2, LeastNumber
<1>4. PICK T \in bad : Cardinality(T) = n
  OBVIOUS
<1>5. PICK R \in bad : Cardinality(R) < Cardinality(T)
  OBVIOUS
<1>6. QED
  BY <1>1, <1>3, <1>4, <1>5

-------------------------------------------------------------------------------
(* MapThenSumSet picks the elements one by one. *)
Pick(T) == CHOOSE x \in T : TRUE
IsSum(g, f, S) ==
    g = [T \in SUBSET S |-> IF T = {} THEN 0 ELSE f[Pick(T)] + g[T \ {Pick(T)}]]

LEMMA PickIsIn == ASSUME NEW T, T # {} PROVE Pick(T) \in T
  BY DEF Pick

(* There is such a function on the subsets of at most n elements. *)
Upto(S, n) == {T \in SUBSET S : Cardinality(T) <= n}
IsSumUpto(g, f, S, n) ==
    g = [T \in Upto(S, n) |-> IF T = {} THEN 0 ELSE f[Pick(T)] + g[T \ {Pick(T)}]]

LEMMA SmallerSubset ==
    ASSUME NEW S, IsFiniteSet(S), NEW T \in SUBSET S, NEW x \in T
    PROVE  /\ IsFiniteSet(T) /\ Cardinality(T) \in Nat
           /\ T \ {x} \in SUBSET S /\ IsFiniteSet(T \ {x})
           /\ Cardinality(T \ {x}) = Cardinality(T) - 1 /\ Cardinality(T \ {x}) \in Nat
           /\ Cardinality(T \ {x}) < Cardinality(T)
<1>1. IsFiniteSet(T)
  BY FS_Subset
<1>2. /\ IsFiniteSet(T \ {x}) /\ Cardinality(T \ {x}) = Cardinality(T) - 1
  BY <1>1, FS_RemoveElement
<1>3. Cardinality(T) \in Nat /\ Cardinality(T \ {x}) \in Nat
  BY <1>1, <1>2, FS_CardinalityType
<1>4. QED
  BY <1>1, <1>2, <1>3

LEMMA SumUptoExists ==
    ASSUME NEW S, IsFiniteSet(S), NEW f, NEW n \in Nat
    PROVE  \E g : IsSumUpto(g, f, S, n)
<1> DEFINE bad == {k \in Nat : ~\E g : IsSumUpto(g, f, S, k)}
<1> SUFFICES ASSUME bad # {} PROVE FALSE
  OBVIOUS
<1>1. PICK k \in bad : \A m \in bad : k <= m
  <2>1. bad \in SUBSET Nat
    OBVIOUS
  <2> HIDE DEF bad
  <2>2. QED
    BY <2>1, LeastNumber
<1>2. k \in Nat /\ ~\E g : IsSumUpto(g, f, S, k)
  OBVIOUS
<1>3. CASE k = 0
  <2>1. \A T \in Upto(S, 0) : T = {}
    <3> TAKE T \in Upto(S, 0)
    <3>1. IsFiniteSet(T) /\ Cardinality(T) \in Nat /\ Cardinality(T) <= 0
      BY FS_Subset, FS_CardinalityType DEF Upto
    <3>2. QED
      BY <3>1, FS_EmptySet
  <2>2. IsSumUpto([T \in Upto(S, 0) |-> 0], f, S, 0)
    BY <2>1 DEF IsSumUpto
  <2>3. QED
    BY <1>2, <1>3, <2>2
<1>4. CASE k # 0
  <2>1. k - 1 \in Nat /\ k - 1 \notin bad
    BY <1>1, <1>2, <1>4
  <2>2. PICK g : IsSumUpto(g, f, S, k - 1)
    BY <2>1
  <2> DEFINE h == [T \in Upto(S, k) |->
                      IF T = {} THEN 0 ELSE f[Pick(T)] + g[T \ {Pick(T)}]]
  <2>3. ASSUME NEW T \in Upto(S, k), T # {}
        PROVE  T \ {Pick(T)} \in Upto(S, k - 1)
    BY <1>2, <2>3, PickIsIn, SmallerSubset DEF Upto
  <2>4. ASSUME NEW T \in Upto(S, k - 1)
        PROVE  T \in Upto(S, k) /\ h[T] = g[T]
    <3>1. T \in Upto(S, k)
      <4>1. Cardinality(T) \in Nat
        BY FS_Subset, FS_CardinalityType DEF Upto
      <4>2. QED
        BY <1>2, <2>1, <4>1 DEF Upto
    <3>2. g[T] = IF T = {} THEN 0 ELSE f[Pick(T)] + g[T \ {Pick(T)}]
      BY <2>2 DEF IsSumUpto
    <3>3. QED
      BY <3>1, <3>2
  <2>5. \A T \in Upto(S, k) : T # {} => h[T \ {Pick(T)}] = g[T \ {Pick(T)}]
    BY <2>3, <2>4
  <2>6. h = [T \in Upto(S, k) |-> IF T = {} THEN 0 ELSE f[Pick(T)] + h[T \ {Pick(T)}]]
    <3> DEFINE r(T) == IF T = {} THEN 0 ELSE f[Pick(T)] + g[T \ {Pick(T)}]
               q(T) == IF T = {} THEN 0 ELSE f[Pick(T)] + h[T \ {Pick(T)}]
    <3>1. \A T \in Upto(S, k) : r(T) = q(T)
      BY <2>5
    <3> HIDE DEF r, q
    <3>2. [T \in Upto(S, k) |-> r(T)] = [T \in Upto(S, k) |-> q(T)]
      BY <3>1
    <3>3. QED
      BY <3>2 DEF r, q
  <2>7. IsSumUpto(h, f, S, k)
    BY <2>6 DEF IsSumUpto
  <2>8. QED
    BY <1>2, <2>7
<1>5. QED
  BY <1>3, <1>4

LEMMA SumExists ==
    ASSUME NEW S, IsFiniteSet(S), NEW f
    PROVE  \E g : IsSum(g, f, S)
<1>1. Cardinality(S) \in Nat
  BY FS_CardinalityType
<1>2. Upto(S, Cardinality(S)) = SUBSET S
  BY FS_Subset DEF Upto
<1>3. PICK g : IsSumUpto(g, f, S, Cardinality(S))
  BY <1>1, SumUptoExists
<1>4. QED
  BY <1>2, <1>3 DEF IsSumUpto, IsSum

(* Any two such functions agree where both are defined, if what they sum   *)
(* up agrees.                                                              *)
LEMMA SumIsUnique ==
    ASSUME NEW S, NEW R, NEW f, NEW e, NEW g, NEW h,
           IsSum(g, f, S), IsSum(h, e, R), NEW T, IsFiniteSet(T), T \subseteq S, T \subseteq R,
           \A x \in T : f[x] = e[x]
    PROVE  g[T] = h[T]
<1> DEFINE bad == {U \in SUBSET T : g[U] # h[U]}
<1>1. ASSUME NEW U \in bad PROVE \E V \in bad : Cardinality(V) < Cardinality(U)
  <2>1. /\ U \in SUBSET S /\ U \in SUBSET R /\ g[U] # h[U]
    OBVIOUS
  <2>2. /\ g[U] = IF U = {} THEN 0 ELSE f[Pick(U)] + g[U \ {Pick(U)}]
        /\ h[U] = IF U = {} THEN 0 ELSE e[Pick(U)] + h[U \ {Pick(U)}]
    BY <2>1 DEF IsSum
  <2>3. U # {} /\ Pick(U) \in T /\ Pick(U) \in U
    BY <2>1, <2>2, PickIsIn
  <2>4. g[U \ {Pick(U)}] # h[U \ {Pick(U)}]
    BY <2>1, <2>2, <2>3
  <2>5. U \ {Pick(U)} \in bad
    BY <2>4
  <2>6. Cardinality(U \ {Pick(U)}) < Cardinality(U)
    BY <2>3, SmallerSubset
  <2>7. QED
    BY <2>5, <2>6
<1>2. bad = {}
  <2>1. bad \in SUBSET SUBSET T
    OBVIOUS
  <2> HIDE DEF bad
  <2>2. QED
    BY <1>1, <2>1, NoSmallest
<1>3. QED
  BY <1>2

(* The sum does not depend on which element is picked first. *)
LEMMA SumStep ==
    ASSUME NEW S, IsFiniteSet(S), NEW f, \A x \in S : f[x] \in Int, NEW g, IsSum(g, f, S)
    PROVE  \A T \in SUBSET S :
              g[T] \in Int /\ \A x \in T : g[T] = f[x] + g[T \ {x}]
<1> DEFINE P(T) == g[T] \in Int /\ \A x \in T : g[T] = f[x] + g[T \ {x}]
           bad == {T \in SUBSET S : ~P(T)}
<1>1. ASSUME NEW T \in bad, \A R \in SUBSET S : Cardinality(R) < Cardinality(T) => P(R)
      PROVE  FALSE
  <2>1. T \in SUBSET S /\ ~P(T)
    OBVIOUS
  <2>2. g[T] = IF T = {} THEN 0 ELSE f[Pick(T)] + g[T \ {Pick(T)}]
    BY <2>1 DEF IsSum
  <2>3. T # {}
    BY <2>1, <2>2
  <2> DEFINE c == Pick(T)
  <2>4. c \in T /\ c \in S /\ f[c] \in Int
    BY <2>1, <2>3, PickIsIn
  <2>5. g[T] = f[c] + g[T \ {c}]
    BY <2>2, <2>3
  <2> HIDE DEF c
  <2>6. \A x \in T : P(T \ {x})
    <3> TAKE x \in T
    <3>1. T \ {x} \in SUBSET S /\ Cardinality(T \ {x}) < Cardinality(T)
      BY <2>1, SmallerSubset
    <3>2. QED
      BY <1>1, <3>1
  <2>7. g[T] \in Int
    <3>1. g[T \ {c}] \in Int
      BY <2>4, <2>6
    <3>2. QED
      BY <2>4, <2>5, <3>1
  <2>8. ASSUME NEW x \in T PROVE g[T] = f[x] + g[T \ {x}]
    <3>1. CASE x = c
      BY <2>5, <3>1
    <3>2. CASE x # c
      <4>1. x \in T \ {c} /\ c \in T \ {x} /\ f[x] \in Int
        BY <2>1, <2>4, <3>2
      <4>2. (T \ {c}) \ {x} = (T \ {x}) \ {c}
        OBVIOUS
      <4>3. g[T \ {c}] = f[x] + g[(T \ {c}) \ {x}]
        BY <2>4, <2>6, <4>1
      <4>4. g[T \ {x}] = f[c] + g[(T \ {x}) \ {c}]
        BY <2>6, <4>1
      <4>5. g[(T \ {c}) \ {x}] \in Int
        <5> DEFINE R == T \ {c}
        <5>1. R \in SUBSET S /\ x \in R /\ Cardinality(R) < Cardinality(T)
          BY <2>1, <2>4, <4>1, SmallerSubset
        <5>2. Cardinality(T) \in Nat
          BY <2>1, FS_Subset, FS_CardinalityType
        <5> HIDE DEF R
        <5>3. /\ R \ {x} \in SUBSET S /\ Cardinality(R \ {x}) < Cardinality(R)
              /\ Cardinality(R) \in Nat /\ Cardinality(R \ {x}) \in Nat
          BY <5>1, SmallerSubset
        <5>4. Cardinality(R \ {x}) < Cardinality(T)
          BY <5>1, <5>2, <5>3
        <5>5. P(R \ {x})
          BY <1>1, <5>3, <5>4
        <5>6. QED
          BY <5>5 DEF R
      <4>6. g[T \ {c}] = f[x] + g[(T \ {c}) \ {x}] /\ g[T \ {x}] = f[c] + g[(T \ {c}) \ {x}]
        BY <4>2, <4>3, <4>4
      <4>7. g[T] = f[c] + g[T \ {c}] /\ f[c] \in Int /\ f[x] \in Int
        BY <2>4, <2>5, <4>1
      <4> HIDE DEF P, bad
      <4>8. QED
        BY <4>5, <4>6, <4>7
    <3>3. QED
      BY <3>1, <3>2
  <2>9. QED
    BY <2>1, <2>7, <2>8
<1>2. \A T \in bad : \E R \in bad : Cardinality(R) < Cardinality(T)
  BY <1>1
<1>3. bad = {}
  <2>1. bad \in SUBSET SUBSET S
    OBVIOUS
  <2> HIDE DEF bad
  <2>2. QED
    BY <1>2, <2>1, NoSmallest
<1>4. QED
  BY <1>3

-------------------------------------------------------------------------------
(* The sum of f[x], for x in S. *)
SumOf(f, S) == (CHOOSE g : IsSum(g, f, S))[S]

LEMMA SumOfIs ==
    ASSUME NEW S, IsFiniteSet(S), NEW f, NEW R, S \subseteq R, NEW g, IsSum(g, f, R)
    PROVE  SumOf(f, S) = g[S]
<1> DEFINE h == CHOOSE k : IsSum(k, f, S)
<1>1. IsSum(h, f, S)
  BY SumExists
<1> HIDE DEF h
<1>2. h[S] = g[S]
  BY <1>1, SumIsUnique
<1>3. QED
  BY <1>2 DEF SumOf, h

LEMMA SumOfEmpty == ASSUME NEW f PROVE SumOf(f, {}) = 0
<1>1. IsFiniteSet({})
  BY FS_EmptySet
<1>2. PICK g : IsSum(g, f, {})
  BY <1>1, SumExists
<1>3. g[{}] = 0
  BY <1>2 DEF IsSum
<1>4. QED
  BY <1>1, <1>2, <1>3, SumOfIs

LEMMA SumOfType ==
    ASSUME NEW S, IsFiniteSet(S), NEW f, \A x \in S : f[x] \in Int
    PROVE  SumOf(f, S) \in Int
<1>1. PICK g : IsSum(g, f, S)
  BY SumExists
<1>2. g[S] \in Int
  BY <1>1, SumStep
<1>3. QED
  BY <1>1, <1>2, SumOfIs

LEMMA SumOfAdd ==
    ASSUME NEW S, IsFiniteSet(S), NEW x, x \notin S, NEW f,
           \A y \in S \cup {x} : f[y] \in Int
    PROVE  SumOf(f, S \cup {x}) = f[x] + SumOf(f, S)
<1> DEFINE R == S \cup {x}
<1>1. IsFiniteSet(R)
  BY FS_AddElement
<1>2. PICK g : IsSum(g, f, R)
  BY <1>1, SumExists
<1>3. g[R] = f[x] + g[R \ {x}]
  <2>1. x \in R /\ R \in SUBSET R /\ \A y \in R : f[y] \in Int
    OBVIOUS
  <2> HIDE DEF R
  <2>2. QED
    BY <1>1, <1>2, <2>1, SumStep
<1>4. R \ {x} = S /\ S \subseteq R /\ R \subseteq R
  OBVIOUS
<1>5. SumOf(f, R) = g[R] /\ SumOf(f, S) = g[S]
  <2> HIDE DEF R
  <2>1. QED
    BY <1>1, <1>2, <1>4, SumOfIs
<1>6. QED
  BY <1>3, <1>4, <1>5

LEMMA SumOfSame ==
    ASSUME NEW S, IsFiniteSet(S), NEW f, NEW e, \A x \in S : f[x] = e[x]
    PROVE  SumOf(f, S) = SumOf(e, S)
<1>1. PICK g : IsSum(g, f, S)
  BY SumExists
<1>2. PICK h : IsSum(h, e, S)
  BY SumExists
<1>3. g[S] = h[S]
  BY <1>1, <1>2, SumIsUnique
<1>4. QED
  BY <1>1, <1>2, <1>3, SumOfIs

(* A finite set of integers has a greatest element. *)
LEMMA FiniteMax ==
    ASSUME NEW S \in SUBSET Int, IsFiniteSet(S), S # {}
    PROVE  Max(S) \in S /\ \A y \in S : y <= Max(S)
<1> DEFINE bad == {T \in SUBSET S : T # {} /\ ~\E x \in T : \A y \in T : y <= x}
<1>1. ASSUME NEW T \in bad PROVE \E R \in bad : Cardinality(R) < Cardinality(T)
  <2>1. PICK x \in T : TRUE
    OBVIOUS
  <2> DEFINE R == T \ {x}
  <2>2. R \in SUBSET S /\ Cardinality(R) < Cardinality(T)
    BY SmallerSubset
  <2>3. R # {}
    OBVIOUS
  <2>4. ASSUME NEW z \in R, \A y \in R : y <= z PROVE FALSE
    <3>1. CASE x <= z
      BY <2>4, <3>1
    <3>2. CASE ~(x <= z)
      <4>1. \A y \in T : y <= x
        BY <2>4, <3>2
      <4>2. QED
        BY <4>1
    <3>3. QED
      BY <3>1, <3>2
  <2>5. QED
    BY <2>2, <2>3, <2>4
<1>2. bad = {}
  <2>1. bad \in SUBSET SUBSET S
    OBVIOUS
  <2> HIDE DEF bad
  <2>2. QED
    BY <1>1, <2>1, NoSmallest
<1>3. PICK x \in S : \A y \in S : y <= x
  BY <1>2
<1>4. \A y \in S : x >= y
  BY <1>3
<1>5. \E z \in S : \A y \in S : z >= y
  BY <1>4
<1>6. Max(S) \in S /\ \A y \in S : Max(S) >= y
  BY <1>5 DEF Max
<1>7. QED
  BY <1>6

-------------------------------------------------------------------------------
(* FoldLeft takes the positions of a sequence from the last to the first.  *)
(* Its step is given here as a function of a position and a value.         *)
IsFold(h, base, step, n) ==
    h = [T \in SUBSET (1 .. n) |-> IF T = {} THEN base ELSE step[<<Max(T), h[T \ {Max(T)}]>>]]

LEMMA MaxOfRange ==
    ASSUME NEW n \in Nat, NEW T \in SUBSET (1 .. n), T # {}
    PROVE  /\ Max(T) \in T /\ \A y \in T : y <= Max(T)
           /\ n \in T => Max(T) = n
<1>1. T \in SUBSET Int /\ IsFiniteSet(T)
  <2>1. 1 \in Int /\ n \in Int
    OBVIOUS
  <2>2. IsFiniteSet(1 .. n)
    BY <2>1, FS_Interval
  <2>3. IsFiniteSet(T)
    BY <2>2, FS_Subset
  <2>4. QED
    BY <2>3
<1>2. Max(T) \in T /\ \A y \in T : y <= Max(T)
  BY <1>1, FiniteMax
<1>3. ASSUME n \in T PROVE Max(T) = n
  <2>1. Max(T) \in 1 .. n /\ n <= Max(T)
    BY <1>2, <1>3
  <2>2. QED
    BY <2>1
<1>4. QED
  BY <1>2, <1>3

(* There is such a function ... *)
LEMMA FoldExists ==
    ASSUME NEW n \in Nat, NEW V, NEW base \in V, NEW step \in [(1 .. n) \X V -> V]
    PROVE  \E h \in [SUBSET (1 .. n) -> V] : IsFold(h, base, step, n)
<1> DEFINE F(k) == \E h \in [SUBSET (1 .. k) -> V] : IsFold(h, base, step, k)
           bad == {k \in 0 .. n : ~F(k)}
<1>0. SUFFICES ASSUME bad # {} PROVE FALSE
  <2>1. n \in 0 .. n
    OBVIOUS
  <2> SUFFICES ASSUME ~F(n) PROVE n \in bad
    OBVIOUS
  <2> HIDE DEF F
  <2>2. QED
    BY <2>1
<1>1. PICK k \in bad : \A m \in bad : k <= m
  <2>1. bad \in SUBSET Nat
    <3> HIDE DEF F
    <3>1. QED
      OBVIOUS
  <2> HIDE DEF bad
  <2>2. QED
    BY <1>0, <2>1, LeastNumber
<1>2. k \in 0 .. n /\ ~F(k) /\ \A m \in 0 .. n : ~F(m) => k <= m
  <2> HIDE DEF F
  <2>1. QED
    BY <1>1
<1>3. CASE k = 0
  <2> DEFINE h == [T \in SUBSET (1 .. 0) |-> base]
  <2>1. \A T \in SUBSET (1 .. 0) : T = {}
    OBVIOUS
  <2>2. h \in [SUBSET (1 .. 0) -> V]
    OBVIOUS
  <2>3. IsFold(h, base, step, 0)
    BY <2>1 DEF IsFold
  <2>4. QED
    BY <1>2, <1>3, <2>2, <2>3
<1>4. CASE k # 0
  <2> DEFINE j == k - 1
  <2>1. j \in 0 .. n /\ F(j) /\ k = j + 1 /\ k \in 1 .. n /\ j \in Nat /\ k \in Nat
    <3> HIDE DEF F
    <3>1. QED
      BY <1>2, <1>4
  <2>2. PICK g \in [SUBSET (1 .. j) -> V] : IsFold(g, base, step, j)
    BY <2>1
  <2> HIDE DEF j
  <2> DEFINE h == [T \in SUBSET (1 .. k) |->
                      IF k \in T THEN step[<<k, g[T \ {k}]>>] ELSE g[T]]
  <2>3. ASSUME NEW T \in SUBSET (1 .. k)
        PROVE  /\ T \ {k} \in SUBSET (1 .. j)
               /\ (k \notin T => T \in SUBSET (1 .. j))
    BY <2>1
  <2>4. ASSUME NEW T \in SUBSET (1 .. j) PROVE T \in SUBSET (1 .. k) /\ k \notin T /\ h[T] = g[T]
    <3>1. T \in SUBSET (1 .. k) /\ k \notin T
      BY <2>1
    <3>2. QED
      BY <3>1
  <2>5. h \in [SUBSET (1 .. k) -> V]
    <3>1. \A T \in SUBSET (1 .. k) : h[T] \in V
      <4> TAKE T \in SUBSET (1 .. k)
      <4>1. CASE k \in T
        <5>1. g[T \ {k}] \in V
          BY <2>3
        <5>2. <<k, g[T \ {k}]>> \in (1 .. n) \X V
          BY <2>1, <5>1
        <5>3. QED
          BY <4>1, <5>2
      <4>2. CASE k \notin T
        BY <2>3, <4>2
      <4>3. QED
        BY <4>1, <4>2
    <3>2. QED
      BY <3>1
  <2>6. ASSUME NEW T \in SUBSET (1 .. k)
        PROVE  h[T] = IF T = {} THEN base ELSE step[<<Max(T), h[T \ {Max(T)}]>>]
    <3>1. CASE k \in T
      <4>1. Max(T) = k
        BY <2>1, <3>1, MaxOfRange
      <4>2. h[T \ {k}] = g[T \ {k}] /\ h[T] = step[<<k, g[T \ {k}]>>]
        BY <2>3, <2>4, <3>1
      <4> HIDE DEF h
      <4>3. QED
        BY <3>1, <4>1, <4>2
    <3>2. CASE k \notin T
      <4>1. T \in SUBSET (1 .. j) /\ h[T] = g[T]
        BY <2>3, <2>4, <3>2
      <4>2. g[T] = IF T = {} THEN base ELSE step[<<Max(T), g[T \ {Max(T)}]>>]
        BY <2>2, <4>1 DEF IsFold
      <4>3. h[T \ {Max(T)}] = g[T \ {Max(T)}]
        <5>1. T \ {Max(T)} \in SUBSET (1 .. j)
          BY <4>1
        <5>2. QED
          BY <2>4, <5>1
      <4> HIDE DEF h
      <4>4. QED
        BY <4>1, <4>2, <4>3
    <3>3. QED
      BY <3>1, <3>2
  <2>7. IsFold(h, base, step, k)
    <3> DEFINE q(T) == IF T = {} THEN base ELSE step[<<Max(T), h[T \ {Max(T)}]>>]
    <3>1. \A T \in SUBSET (1 .. k) : h[T] = q(T)
      BY <2>6
    <3>2. h = [T \in SUBSET (1 .. k) |-> h[T]]
      BY <2>5
    <3> HIDE DEF h, q
    <3>3. h = [T \in SUBSET (1 .. k) |-> q(T)]
      BY <3>1, <3>2
    <3>4. QED
      BY <3>3 DEF q, IsFold
  <2> HIDE DEF h
  <2>8. QED
    BY <1>2, <2>5, <2>7
<1>5. QED
  BY <1>3, <1>4

(* ... which is found along the prefixes of the sequence. *)
LEMMA Prefix ==
    ASSUME NEW n \in Nat, NEW k \in 1 .. n
    PROVE  /\ 1 .. k \in SUBSET (1 .. n) /\ 1 .. k # {} /\ Max(1 .. k) = k
           /\ (1 .. k) \ {k} = 1 .. (k - 1) /\ k - 1 \in 0 .. n
<1>1. k \in Int /\ k - 1 \in Int /\ k \in Nat /\ k \in 1 .. k /\ k - 1 \in 0 .. n
  OBVIOUS
<1>2. 1 .. k \in SUBSET (1 .. n)
  OBVIOUS
<1>3. Max(1 .. k) = k
  BY <1>1, <1>2, MaxOfRange
<1>4. \A x \in Int : x \in 1 .. (k - 1) <=> x \in 1 .. k /\ x # k
  BY <1>1
<1>5. (1 .. k) \ {k} = 1 .. (k - 1)
  BY <1>1, <1>4
<1>6. QED
  BY <1>1, <1>2, <1>3, <1>5

LEMMA FoldIsLast ==
    ASSUME NEW n \in Nat, NEW h, NEW c, h[{}] = c[0],
           \A k \in 1 .. n : h[1 .. (k - 1)] = c[k - 1] => h[1 .. k] = c[k]
    PROVE  h[1 .. n] = c[n]
<1> DEFINE bad == {k \in 0 .. n : h[1 .. k] # c[k]}
<1>0. SUFFICES ASSUME bad # {} PROVE FALSE
  OBVIOUS
<1>1. PICK k \in bad : \A m \in bad : k <= m
  <2>1. bad \in SUBSET Nat
    OBVIOUS
  <2> HIDE DEF bad
  <2>2. QED
    BY <1>0, <2>1, LeastNumber
<1>2. k \in 0 .. n /\ h[1 .. k] # c[k]
  OBVIOUS
<1>3. CASE k = 0
  <2>1. 1 .. 0 = {}
    OBVIOUS
  <2>2. QED
    BY <1>2, <1>3, <2>1
<1>4. CASE k # 0
  <2>1. k - 1 \in 0 .. n /\ k \in 1 .. n /\ ~(k <= k - 1)
    BY <1>2, <1>4
  <2>2. k - 1 \notin bad
    BY <1>1, <2>1
  <2>3. QED
    BY <1>2, <2>1, <2>2
<1>5. QED
  BY <1>3, <1>4

-------------------------------------------------------------------------------
(* What passes from each number of a range to the next holds at all. *)
LEMMA Reaches ==
    ASSUME NEW n \in Nat, NEW Good, 0 \in Good, \A k \in 1 .. n : k - 1 \in Good => k \in Good
    PROVE  \A k \in 0 .. n : k \in Good
<1> DEFINE bad == {k \in 0 .. n : k \notin Good}
<1>1. SUFFICES ASSUME bad # {} PROVE FALSE
  OBVIOUS
<1>2. PICK k \in bad : \A j \in bad : k <= j
  <2>1. bad \in SUBSET Nat /\ bad # {}
    BY <1>1
  <2> HIDE DEF bad
  <2>2. QED
    BY <2>1, LeastNumber
<1>3. k \in 1 .. n /\ k - 1 \in 0 .. n /\ ~(k <= k - 1)
  BY <1>2
<1>4. k - 1 \in Good
  BY <1>2, <1>3
<1>5. QED
  BY <1>2, <1>3, <1>4

(* A finite set of integers can be enumerated in order. *)
LEMMA OrderedExists ==
    ASSUME NEW S \in SUBSET Int, IsFiniteSet(S)
    PROVE  \E s \in [1 .. Cardinality(S) -> S] : \A i, j \in DOMAIN s : i < j => s[i] < s[j]
<1> DEFINE G(T) == \E s \in [1 .. Cardinality(T) -> T] : \A i, j \in DOMAIN s : i < j => s[i] < s[j]
           bad == {T \in SUBSET S : ~G(T)}
<1>1. ASSUME NEW T \in bad
      PROVE  \E R \in bad : Cardinality(R) < Cardinality(T)
  <2>1. T \in SUBSET Int /\ IsFiniteSet(T) /\ Cardinality(T) \in Nat /\ T \in SUBSET S
    BY FS_Subset, FS_CardinalityType
  <2>2. T # {}
    <3> SUFFICES ASSUME T = {} PROVE G(T)
      OBVIOUS
    <3>1. Cardinality(T) = 0
      BY FS_EmptySet
    <3>2. 1 .. 0 = {}
      OBVIOUS
    <3> DEFINE s == [k \in 1 .. 0 |-> 0]
    <3>3. s \in [1 .. 0 -> T] /\ DOMAIN s = {}
      BY <3>2
    <3> HIDE DEF s
    <3>4. QED
      BY <3>1, <3>3
  <2>3. PICK m \in T : \A y \in T : y <= m
    BY <2>1, <2>2, FiniteMax
  <2> DEFINE R == T \ {m}
             n == Cardinality(R)
  <2>4. IsFiniteSet(R) /\ n \in Nat /\ Cardinality(T) = n + 1
    <3>1. IsFiniteSet(R) /\ n = Cardinality(T) - 1
      BY <2>1, FS_RemoveElement
    <3>2. n \in Nat
      BY <3>1, FS_CardinalityType
    <3>3. QED
      BY <2>1, <3>1, <3>2
  <2>5. SUFFICES ASSUME G(R) PROVE G(T)
    <3>1. ~G(T)
      OBVIOUS
    <3> HIDE DEF G
    <3>2. R \in SUBSET S /\ Cardinality(R) < Cardinality(T)
      BY <2>1, <2>4
    <3>3. QED
      BY <3>1, <3>2
  <2>6. PICK r \in [1 .. n -> R] : \A i, j \in 1 .. n : i < j => r[i] < r[j]
    BY <2>5
  <2> HIDE DEF n
  <2> DEFINE s == [k \in 1 .. n + 1 |-> IF k = n + 1 THEN m ELSE r[k]]
  <2>7. \A k \in 1 .. n + 1 : k \in 1 .. n \/ k = n + 1
    BY <2>4
  <2>8. s \in [1 .. n + 1 -> T]
    BY <2>6, <2>7
  <2>9. ASSUME NEW i \in 1 .. n + 1, NEW j \in 1 .. n + 1, i < j PROVE s[i] < s[j]
    <3>1. i \in 1 .. n
      BY <2>4, <2>9
    <3>2. s[i] = r[i]
      BY <2>4, <3>1
    <3>3. CASE j \in 1 .. n
      <4>1. s[j] = r[j]
        BY <2>4, <3>3
      <4>2. QED
        BY <2>6, <2>9, <3>1, <3>2, <3>3, <4>1
    <3>4. CASE j = n + 1
      <4>1. s[j] = m
        BY <3>4
      <4>2. r[i] \in T /\ r[i] # m
        BY <2>6, <3>1
      <4>3. r[i] <= m /\ r[i] \in Int /\ m \in Int
        BY <2>1, <2>3, <4>2
      <4> HIDE DEF s
      <4>4. QED
        BY <3>2, <4>1, <4>2, <4>3
    <3>5. QED
      BY <2>7, <3>3, <3>4
  <2>10. DOMAIN s = 1 .. n + 1
    OBVIOUS
  <2> HIDE DEF s
  <2>11. QED
    BY <2>4, <2>8, <2>9, <2>10 DEF n
<1> HIDE DEF G
<1>2. bad = {}
  BY <1>1, NoSmallest
<1>3. G(S)
  BY <1>2
<1>4. QED
  BY <1>3 DEF G

(* A finite set that is strictly and totally ordered: the members below    *)
(* each number its members from 0 on, and listed by these numbers they are *)
(* in order, each at its place.                                            *)
LEMMA RankIsPlace ==
    ASSUME NEW S, IsFiniteSet(S), NEW below,
           \A x \in S : below[x] \subseteq S \ {x},
           \A x \in S : \A y \in below[x] : below[y] \subseteq below[x],
           \A x, y \in S : x # y => x \in below[y] \/ y \in below[x],
           NEW s, s = [i \in 1 .. Cardinality(S) |-> CHOOSE x \in S : Cardinality(below[x]) = i - 1]
    PROVE  /\ s \in [1 .. Cardinality(S) -> S] /\ Cardinality(S) \in Nat
           /\ \A i, j \in 1 .. Cardinality(S) : i < j => s[i] \in below[s[j]]
           /\ \A x \in S : \E i \in 1 .. Cardinality(S) : s[i] = x
<1> DEFINE n == Cardinality(S)
           rank == [x \in S |-> Cardinality(below[x])]
<1>1. n \in Nat
  BY FS_CardinalityType
<1>2. ASSUME NEW x \in S
      PROVE  IsFiniteSet(below[x]) /\ rank[x] \in Nat /\ rank[x] <= n - 1
  <2>1. IsFiniteSet(S \ {x}) /\ Cardinality(S \ {x}) = n - 1
    BY FS_RemoveElement
  <2>2. IsFiniteSet(below[x]) /\ Cardinality(below[x]) <= n - 1
    BY <2>1, FS_Subset
  <2>3. QED
    BY <2>2, FS_CardinalityType
<1>3. ASSUME NEW x \in S, NEW y \in S, y \in below[x] PROVE rank[y] < rank[x]
  <2>1. below[y] \subseteq below[x] /\ y \notin below[y]
    BY <1>3
  <2>2. IsFiniteSet(below[x]) /\ below[y] # below[x]
    BY <1>2, <1>3, <2>1
  <2>3. QED
    BY <1>2, <2>1, <2>2, FS_Subset
<1>4. ASSUME NEW x \in S, NEW y \in S, x # y PROVE rank[x] # rank[y]
  BY <1>2, <1>3, <1>4
<1>5. \A i \in 1 .. n : \E x \in S : rank[x] = i - 1
  <2> DEFINE T == 0 .. n - 1
  <2>1. IsFiniteSet(T) /\ Cardinality(T) = n
    <3>1. 0 \in Int /\ n - 1 \in Int /\ (0 > n - 1 <=> n = 0) /\ n - 1 - 0 + 1 = n
      BY <1>1
    <3> HIDE DEF n
    <3>2. QED
      BY <3>1, FS_Interval
  <2>2. rank \in [S -> T]
    BY <1>1, <1>2
  <2>3. rank \in Injection(S, T)
    BY <1>4, <2>2 DEF Injection, IsInjective
  <2>4. rank \in Surjection(S, T)
    BY <2>1, <2>3, FS_Injection
  <2> SUFFICES ASSUME NEW i \in 1 .. n PROVE \E x \in S : rank[x] = i - 1
    OBVIOUS
  <2>5. i - 1 \in T
    BY <1>1
  <2>6. QED
    BY <2>4, <2>5 DEF Surjection
<1>6. ASSUME NEW i \in 1 .. n PROVE s[i] \in S /\ rank[s[i]] = i - 1
  <2>1. \E x \in S : Cardinality(below[x]) = i - 1
    BY <1>5
  <2>2. QED
    BY <2>1
<1>7. s \in [1 .. n -> S]
  BY <1>6
<1>8. ASSUME NEW i \in 1 .. n, NEW j \in 1 .. n, i < j PROVE s[i] \in below[s[j]]
  <2>1. s[i] \in S /\ s[j] \in S /\ rank[s[i]] = i - 1 /\ rank[s[j]] = j - 1
    BY <1>6
  <2>2. ~(rank[s[j]] < rank[s[i]]) /\ s[i] # s[j]
    BY <1>1, <1>8, <2>1
  <2>3. QED
    BY <1>3, <2>1, <2>2
<1>9. ASSUME NEW x \in S PROVE \E i \in 1 .. n : s[i] = x
  <2>1. PICK i \in 1 .. n : i = rank[x] + 1
    BY <1>1, <1>2
  <2>2. s[i] \in S /\ rank[s[i]] = i - 1 /\ i - 1 = rank[x]
    BY <1>2, <1>6, <2>1
  <2>3. QED
    BY <1>4, <2>2
<1>10. QED
  BY <1>1, <1>7, <1>8, <1>9

(* The values of a fold along the prefixes of its sequence. *)
Along(c, h, n) ==
    /\ c[0] = h[{}] /\ c[n] = h[1 .. n] /\ {} \in SUBSET (1 .. n)
    /\ \A k \in 1 .. n : /\ 1 .. k \in SUBSET (1 .. n) /\ 1 .. k # {} /\ Max(1 .. k) = k
                         /\ c[k] = h[1 .. k] /\ c[k - 1] = h[(1 .. k) \ {k}]

LEMMA AlongPrefixes ==
    ASSUME NEW n \in Nat, NEW h, NEW c, c = [k \in 0 .. n |-> h[1 .. k]]
    PROVE  Along(c, h, n)
<1>1. 0 \in 0 .. n /\ n \in 0 .. n /\ 1 .. 0 = {}
  OBVIOUS
<1>2. ASSUME NEW k \in 1 .. n
      PROVE  /\ 1 .. k \in SUBSET (1 .. n) /\ 1 .. k # {} /\ Max(1 .. k) = k
             /\ c[k] = h[1 .. k] /\ c[k - 1] = h[(1 .. k) \ {k}]
  <2>1. /\ 1 .. k \in SUBSET (1 .. n) /\ 1 .. k # {} /\ Max(1 .. k) = k
        /\ (1 .. k) \ {k} = 1 .. (k - 1) /\ k - 1 \in 0 .. n /\ k \in 0 .. n
    BY Prefix
  <2>2. QED
    BY <2>1
<1>3. QED
  BY <1>1, <1>2 DEF Along

(* A sum that adds the element it picks last is the same sum. *)
IsSumBack(g, f, S) ==
    g = [T \in SUBSET S |-> IF T = {} THEN 0 ELSE g[T \ {Pick(T)}] + f[Pick(T)]]

LEMMA SumBackExists ==
    ASSUME NEW S, IsFiniteSet(S), NEW f, \A x \in S : f[x] \in Int
    PROVE  \E g : IsSumBack(g, f, S)
<1>1. PICK g : IsSum(g, f, S)
  BY SumExists
<1>2. \A T \in SUBSET S : g[T] \in Int
  BY <1>1, SumStep
<1> DEFINE q(T) == IF T = {} THEN 0 ELSE f[Pick(T)] + g[T \ {Pick(T)}]
           r(T) == IF T = {} THEN 0 ELSE g[T \ {Pick(T)}] + f[Pick(T)]
<1>3. ASSUME NEW T \in SUBSET S PROVE q(T) = r(T)
  <2>1. CASE T # {}
    <3>1. Pick(T) \in S /\ T \ {Pick(T)} \in SUBSET S
      BY <2>1, PickIsIn
    <3>2. f[Pick(T)] \in Int /\ g[T \ {Pick(T)}] \in Int
      BY <1>2, <3>1
    <3>3. QED
      BY <3>2
  <2>2. QED
    BY <2>1
<1>4. g = [T \in SUBSET S |-> q(T)]
  BY <1>1 DEF IsSum
<1> HIDE DEF q, r
<1>5. g = [T \in SUBSET S |-> r(T)]
  BY <1>3, <1>4
<1>6. QED
  BY <1>5 DEF r, IsSumBack

LEMMA SumBackIs ==
    ASSUME NEW S, IsFiniteSet(S), NEW f, \A x \in S : f[x] \in Int, NEW h, IsSumBack(h, f, S)
    PROVE  h[S] = SumOf(f, S)
<1>1. PICK g : IsSum(g, f, S)
  BY SumExists
<1>2. \A T \in SUBSET S : g[T] \in Int
  BY <1>1, SumStep
<1> DEFINE bad == {T \in SUBSET S : h[T] # g[T]}
<1>3. ASSUME NEW T \in bad PROVE \E R \in bad : Cardinality(R) < Cardinality(T)
  <2>1. T \in SUBSET S /\ h[T] # g[T]
    OBVIOUS
  <2>2. /\ h[T] = IF T = {} THEN 0 ELSE h[T \ {Pick(T)}] + f[Pick(T)]
        /\ g[T] = IF T = {} THEN 0 ELSE f[Pick(T)] + g[T \ {Pick(T)}]
    BY <1>1, <2>1 DEF IsSum, IsSumBack
  <2>3. T # {}
    BY <2>1, <2>2
  <2>4. Pick(T) \in T /\ Pick(T) \in S
    BY <2>1, <2>3, PickIsIn
  <2> DEFINE R == T \ {Pick(T)}
  <2>5. R \in SUBSET S /\ Cardinality(R) < Cardinality(T)
    BY <2>1, <2>4, SmallerSubset
  <2>6. g[R] \in Int /\ f[Pick(T)] \in Int
    BY <1>2, <2>4, <2>5
  <2>7. h[R] # g[R]
    BY <2>1, <2>2, <2>3, <2>6
  <2>8. QED
    BY <2>5, <2>7
<1>4. bad = {}
  <2>1. bad \in SUBSET SUBSET S
    OBVIOUS
  <2> HIDE DEF bad
  <2>2. QED
    BY <1>3, <2>1, NoSmallest
<1>5. h[S] = g[S]
  BY <1>4
<1>6. QED
  BY <1>1, <1>5, SumOfIs

(* A function of a finite set takes finitely many values. *)
LEMMA FiniteImage ==
    ASSUME NEW S, IsFiniteSet(S), NEW f, NEW T, T \subseteq {f[x] : x \in S}
    PROVE  IsFiniteSet(T)
<1> DEFINE g == [x \in S |-> f[x]]
           R == {f[x] : x \in S}
<1>1. g \in Surjection(S, R)
  BY DEF Surjection
<1> HIDE DEF g
<1>2. IsFiniteSet(R)
  BY <1>1, FS_Surjection
<1>3. QED
  BY <1>2, FS_Subset

LEMMA SumOfZero ==
    ASSUME NEW S, IsFiniteSet(S), NEW f, \A x \in S : f[x] = 0
    PROVE  SumOf(f, S) = 0
<1>1. PICK g : IsSum(g, f, S)
  BY SumExists
<1> DEFINE bad == {T \in SUBSET S : g[T] # 0}
<1>2. ASSUME NEW T \in bad PROVE \E R \in bad : Cardinality(R) < Cardinality(T)
  <2>1. T \in SUBSET S /\ g[T] # 0
    OBVIOUS
  <2>2. g[T] = IF T = {} THEN 0 ELSE f[Pick(T)] + g[T \ {Pick(T)}]
    BY <1>1, <2>1 DEF IsSum
  <2>3. T # {}
    BY <2>1, <2>2
  <2>4. Pick(T) \in T /\ f[Pick(T)] = 0
    BY <2>1, <2>3, PickIsIn
  <2> DEFINE R == T \ {Pick(T)}
  <2>5. R \in SUBSET S /\ Cardinality(R) < Cardinality(T)
    BY <2>1, <2>4, SmallerSubset
  <2>6. g[T] = 0 + g[R]
    BY <2>2, <2>3, <2>4
  <2>7. g[R] # 0
    BY <2>1, <2>6
  <2>8. QED
    BY <2>5, <2>7
<1>3. bad = {}
  <2>1. bad \in SUBSET SUBSET S
    OBVIOUS
  <2> HIDE DEF bad
  <2>2. QED
    BY <1>2, <2>1, NoSmallest
<1>4. QED
  BY <1>1, <1>3, SumOfIs

LEMMA SumOfOneMore ==
    ASSUME NEW S, IsFiniteSet(S), NEW x \in S, NEW d \in Int, NEW e, NEW g,
           \A y \in S : e[y] \in Int, \A y \in S : g[y] = IF y = x THEN e[y] + d ELSE e[y]
    PROVE  SumOf(g, S) = SumOf(e, S) + d
<1> DEFINE R == S \ {x}
<1>1. IsFiniteSet(R) /\ x \notin R /\ S = R \cup {x}
  BY FS_Subset
<1>2. /\ \A y \in R \cup {x} : e[y] \in Int /\ g[y] \in Int
      /\ \A y \in R : g[y] = e[y] 
      /\ g[x] = e[x] + d /\ e[x] \in Int
  BY <1>1
<1> HIDE DEF R
<1>3. SumOf(g, S) = g[x] + SumOf(g, R) /\ SumOf(e, S) = e[x] + SumOf(e, R)
  BY <1>1, <1>2, SumOfAdd
<1>4. SumOf(g, R) = SumOf(e, R) /\ SumOf(e, R) \in Int
  BY <1>1, <1>2, SumOfSame, SumOfType
<1>5. QED
  BY <1>2, <1>3, <1>4

LEMMA SameCode ==
    ASSUME NEW m \in Nat, NEW a \in Nat, NEW b \in Nat, NEW c \in Nat, NEW d \in Nat,
           b < m, d < m, a * m + b = c * m + d
    PROVE  a = c /\ b = d
<1>1. ASSUME NEW x \in Nat, NEW y \in Nat, x < y PROVE y * m >= x * m + m
  <2>1. PICK k \in Nat : y = x + 1 + k
    <3>1. y - x - 1 \in Nat /\ y = x + 1 + (y - x - 1)
      BY <1>1
    <3>2. QED
      BY <3>1
  <2>2. (x + 1 + k) * m = x * m + m + k * m /\ k * m \in Nat /\ x * m \in Nat
    OBVIOUS
  <2>3. QED
    BY <2>1, <2>2
<1>2. a * m \in Nat /\ c * m \in Nat
  OBVIOUS
<1>3. ~(a < c) /\ ~(c < a)
  BY <1>1, <1>2
<1>4. a = c
  BY <1>3
<1>5. QED
  BY <1>2, <1>4

LEMMA PairCode ==
    ASSUME NEW m \in Nat, NEW i \in 1 .. m, NEW j \in 1 .. m, NEW k \in 1 .. m, NEW l \in 1 .. m,
           i * m + j = k * m + l
    PROVE  i = k /\ j = l
<1>1. PICK x, y : x = i * m /\ y = k * m
  OBVIOUS
<1>2. x \in Nat /\ y \in Nat
  BY <1>1
<1>3. j - 1 \in Nat /\ l - 1 \in Nat /\ j - 1 < m /\ l - 1 < m /\ x + (j - 1) = y + (l - 1)
  BY <1>1, <1>2
<1>4. i \in Nat /\ k \in Nat /\ i * m + (j - 1) = k * m + (l - 1)
  BY <1>1, <1>3
<1>5. i = k /\ j - 1 = l - 1
  BY <1>3, <1>4, SameCode
<1>6. QED
  BY <1>5

LEMMA ShareType == ASSUME NEW x \in Int, NEW d \in Nat \ {0} PROVE x \div d \in Int
  OBVIOUS

LEMMA LeastIs ==
    ASSUME NEW S \in SUBSET Nat, S # {}
    PROVE  Min(S) \in S
<1>1. \E x \in S : \A y \in S : x <= y
  BY LeastNumber
<1>2. QED
  BY <1>1 DEF Min

Placed(S, below) == [i \in 1 .. Cardinality(S) |-> CHOOSE x \in S : Cardinality(below[x]) = i - 1]

LEMMA PlacedIs ==
    ASSUME NEW S, IsFiniteSet(S), NEW below,
           \A x \in S : below[x] \subseteq S \ {x},
           \A x \in S : \A y \in below[x] : below[y] \subseteq below[x],
           \A x, y \in S : x # y => x \in below[y] \/ y \in below[x]
    PROVE  /\ Placed(S, below) \in [1 .. Cardinality(S) -> S] /\ Cardinality(S) \in Nat
           /\ \A i, j \in 1 .. Cardinality(S) : i < j => Placed(S, below)[i] \in below[Placed(S, below)[j]]
           /\ \A x \in S : \E i \in 1 .. Cardinality(S) : Placed(S, below)[i] = x
<1> DEFINE s == Placed(S, below)
<1>1. s = [i \in 1 .. Cardinality(S) |-> CHOOSE x \in S : Cardinality(below[x]) = i - 1]
  BY DEF Placed
<1>2. QED
  BY <1>1, RankIsPlace, ZenonT(30)

===============================================================================
