------------------------------ MODULE DataLemmas ------------------------------
(***************************************************************************)
(* Facts about data that the proofs of several components need.            *)
(*                                                                         *)
(* A nonempty set of naturals has a least element and, if it is bounded, a *)
(* greatest one, and Min and Max of FiniteSetsExt are these.  From the     *)
(* least element follows induction, stated for sets: the set of the        *)
(* numbers, or of the subsets of a finite set, that have a property.  With *)
(* it: folds over finite sets are well defined, sums do not depend on the  *)
(* order of their summands, a filtered sequence keeps its order, and a     *)
(* finite set has one sequence in ascending order.                         *)
(***************************************************************************)
EXTENDS Integers, Sequences, SequencesExt, FiniteSetsExt, FiniteSetTheorems,
        SequenceTheorems, WellFoundedInduction, TLAPS

\* A nonempty set of naturals has a least element.
LEMMA LeastNatural ==
    ASSUME NEW S \in SUBSET Nat, S # {}
    PROVE  \E x \in S : \A y \in S : x <= y
<1> DEFINE R == OpToRel(<, Nat)
<1>1. R = {p \in Nat \X Nat : p[1] < p[2]}
  BY DEF OpToRel
<1>2. IsWellFoundedOn(R, Nat)
  BY NatLessThanWellFounded
<1> HIDE DEF R
<1>3. PICK x \in S : \A y \in S : <<y, x>> \notin R
  BY <1>2, WFMin
<1>4. ASSUME NEW y \in S PROVE x <= y
  <2>1. x \in Nat /\ y \in Nat
    OBVIOUS
  <2>2. <<y, x>> \notin R
    BY <1>3
  <2>3. y < x => <<y, x>> \in R
    BY <1>1, <2>1
  <2> QED BY <2>1, <2>2, <2>3
<1> QED BY <1>4

\* Min of a nonempty set of naturals is its least element.
LEMMA MinIsLeast ==
    ASSUME NEW S \in SUBSET Nat, S # {}
    PROVE  Min(S) \in S /\ \A y \in S : Min(S) <= y
BY LeastNatural DEF Min

\* Max of a nonempty bounded set of naturals is its greatest element.
LEMMA MaxIsGreatest ==
    ASSUME NEW n \in Nat, NEW S \in SUBSET (0..n), S # {}
    PROVE  Max(S) \in S /\ \A y \in S : Max(S) >= y
<1> DEFINE D == {n - x : x \in S}
<1>1. D \in SUBSET Nat /\ D # {}
  OBVIOUS
<1>2. PICK d \in D : \A e \in D : d <= e
  BY <1>1, LeastNatural
<1>3. PICK m \in S : d = n - m
  OBVIOUS
<1>4. \A y \in S : m >= y
  <2>1. TAKE y \in S
  <2>2. n - m <= n - y
    BY <1>2, <1>3
  <2> QED BY <2>2
<1> QED BY <1>4 DEF Max

-----------------------------------------------------------------------------
(* Induction and folds.                                                    *)

\* Induction over the natural numbers, for the set of those that have a property.
LEMMA NaturalsReached ==
    ASSUME NEW P \in SUBSET Nat, 0 \in P, \A n \in P : n + 1 \in P
    PROVE  P = Nat
<1> SUFFICES ASSUME Nat \ P # {} PROVE FALSE
  OBVIOUS
<1>1. PICK n \in Nat \ P : \A m \in Nat \ P : n <= m
  BY LeastNatural
<1>2. n # 0 /\ n - 1 \in Nat
  OBVIOUS
<1>3. n - 1 \in P
  BY <1>1, <1>2
<1> QED BY <1>1, <1>2, <1>3

\* Induction over the subsets of a finite set: a subset has a property if those
\* with one element less have it.
LEMMA SubsetsReached ==
    ASSUME NEW K, IsFiniteSet(K), NEW P \in SUBSET SUBSET K,
           \A T \in SUBSET K : (\A x \in T : T \ {x} \in P) => T \in P
    PROVE  P = SUBSET K
<1> DEFINE Small(n) == {T \in SUBSET K : Cardinality(T) = n}
           C == {n \in Nat : Small(n) \subseteq P}
<1>1. \A T \in SUBSET K : IsFiniteSet(T) /\ Cardinality(T) \in Nat
  BY FS_Subset, FS_CardinalityType
<1>2. 0 \in C
  <2> SUFFICES ASSUME NEW T \in SUBSET K, Cardinality(T) = 0 PROVE T \in P
    OBVIOUS
  <2>1. T = {}
    BY <1>1, FS_EmptySet
  <2> QED BY <2>1
<1>3. ASSUME NEW n \in C PROVE n + 1 \in C
  <2> SUFFICES ASSUME NEW T \in SUBSET K, Cardinality(T) = n + 1 PROVE T \in P
    BY <1>3
  <2>1. ASSUME NEW x \in T PROVE T \ {x} \in P
    <3>1. n \in Nat /\ IsFiniteSet(T) /\ T \ {x} \in SUBSET K
      BY <1>1, <1>3
    <3>2. Cardinality(T \ {x}) = Cardinality(T) - 1
      BY <3>1, FS_RemoveElement
    <3>3. Cardinality(T \ {x}) = n
      BY <3>1, <3>2
    <3> QED BY <1>3, <3>1, <3>3
  <2> QED BY <2>1
<1> HIDE DEF C
<1>4. C = Nat
  BY <1>2, <1>3, NaturalsReached DEF C
<1> QED BY <1>1, <1>4 DEF C

\* g is the fold over the subsets of K that takes the element ch[s] from s and
\* goes on with st.
IsFold(g, K, V, base, ch, st) ==
    /\ g \in [SUBSET K -> V]
    /\ \A s \in SUBSET K : g[s] = IF s = {} THEN base ELSE st[<<s, g[s \ {ch[s]}]>>]

\* A fold over a finite set is well defined.
LEMMA FoldExists ==
    ASSUME NEW K, IsFiniteSet(K), NEW V, NEW base \in V, NEW ch,
           \A s \in SUBSET K : s # {} => ch[s] \in s,
           NEW st, \A s \in SUBSET K, v \in V : st[<<s, v>>] \in V
    PROVE  \E g : IsFold(g, K, V, base, ch, st)
<1> DEFINE Dom(n) == {s \in SUBSET K : Cardinality(s) <= n}
           Step(g, s) == IF s = {} THEN base ELSE st[<<s, g[s \ {ch[s]}]>>]
           Good(n, g) == /\ g \in [Dom(n) -> V]
                         /\ \A s \in Dom(n) : g[s] = Step(g, s)
           C == {n \in Nat : \E g : Good(n, g)}
<1>1. \A T \in SUBSET K : IsFiniteSet(T) /\ Cardinality(T) \in Nat /\ Cardinality(T) <= Cardinality(K)
  BY FS_Subset, FS_CardinalityType
<1>2. 0 \in C
  <2> DEFINE g == [s \in Dom(0) |-> base]
  <2>1. \A s \in Dom(0) : s = {}
    BY <1>1, FS_EmptySet
  <2>2. Good(0, g)
    BY <2>1
  <2> QED BY <2>2
<1>3. ASSUME NEW n \in C PROVE n + 1 \in C
  <2>1. PICK g : Good(n, g)
    BY <1>3
  <2> DEFINE h == [s \in Dom(n + 1) |-> Step(g, s)]
  <2>2. \A s \in Dom(n + 1) : s # {} => s \ {ch[s]} \in Dom(n)
    <3> SUFFICES ASSUME NEW s \in SUBSET K, Cardinality(s) <= n + 1, s # {}
                 PROVE  s \ {ch[s]} \in Dom(n)
      OBVIOUS
    <3>1. Cardinality(s \ {ch[s]}) = Cardinality(s) - 1
      BY <1>1, FS_RemoveElement
    <3> QED BY <1>1, <1>3, <3>1
  <2>3. h \in [Dom(n + 1) -> V]
    BY <2>1, <2>2
  <2>4. \A s \in Dom(n) : s \in Dom(n + 1) /\ h[s] = g[s]
    <3>1. \A s \in Dom(n) : s \in Dom(n + 1)
      BY <1>1, <1>3
    <3> QED BY <2>1, <3>1
  <2>5. \A s \in Dom(n + 1) : h[s] = Step(h, s)
    BY <2>2, <2>4
  <2>6. Good(n + 1, h)
    BY <2>3, <2>5
  <2> HIDE DEF Good
  <2> QED BY <1>3, <2>6
<1>4. C = Nat
  <2> HIDE DEF C
  <2>1. C \in SUBSET Nat
    BY DEF C
  <2> QED BY <1>2, <1>3, <2>1, NaturalsReached
<1>5. Cardinality(K) \in Nat
  BY <1>1
<1>6. PICK g : Good(Cardinality(K), g)
  BY <1>4, <1>5
<1>7. Dom(Cardinality(K)) = SUBSET K
  BY <1>1
<1>8. g \in [SUBSET K -> V] /\ \A s \in SUBSET K : g[s] = Step(g, s)
  BY <1>6, <1>7
<1> QED BY <1>8 DEF IsFold

-----------------------------------------------------------------------------
(* Sums over finite sets.                                                  *)

\* What SumFunctionOnSet computes: the value at K of a function on the subsets.
Sums(g, f, K) ==
    \A s \in SUBSET K :
        g[s] = IF s = {} THEN 0
                         ELSE f[CHOOSE x \in s : TRUE] + g[s \ {CHOOSE x \in s : TRUE}]

\* The sum of natural numbers over a finite set is well defined.
LEMMA SumDefined ==
    ASSUME NEW K, IsFiniteSet(K), NEW f, \A k \in K : f[k] \in Nat
    PROVE  \E g \in [SUBSET K -> Nat] : Sums(g, f, K) /\ SumFunctionOnSet(f, K) = g[K]
<1> DEFINE ch == [s \in SUBSET K |-> CHOOSE x \in s : TRUE]
           st == [p \in (SUBSET K) \X Nat |-> IF p[1] = {} THEN 0 ELSE f[ch[p[1]]] + p[2]]
           Body(g) == [s \in SUBSET K |->
                         IF s = {} THEN 0
                         ELSE f[CHOOSE x \in s : TRUE] + g[s \ {CHOOSE x \in s : TRUE}]]
           iter == CHOOSE g : g = Body(g)
<1>1. \A s \in SUBSET K : s # {} => ch[s] \in s
  OBVIOUS
<1>2. \A s \in SUBSET K, v \in Nat : st[<<s, v>>] \in Nat
  BY <1>1
<1>3. PICK g : IsFold(g, K, Nat, 0, ch, st)
  <2> HIDE DEF ch, st
  <2> QED BY <1>1, <1>2, FoldExists
<1>4. g = Body(g)
  <2>1. g \in [SUBSET K -> Nat]
    BY <1>3 DEF IsFold
  <2>2. \A s \in SUBSET K : g[s] = Body(g)[s]
    <3> SUFFICES ASSUME NEW s \in SUBSET K, s # {} PROVE g[s] = Body(g)[s]
      BY <1>3 DEF IsFold
    <3>1. s \ {ch[s]} \in SUBSET K /\ g[s \ {ch[s]}] \in Nat
      BY <1>3 DEF IsFold
    <3>2. g[s] = st[<<s, g[s \ {ch[s]}]>>]
      BY <1>3 DEF IsFold
    <3> QED BY <3>1, <3>2
  <2> QED BY <2>1, <2>2
<1>5. iter = Body(iter)
  <2> HIDE DEF Body
  <2> QED BY <1>4
<1>6. SumFunctionOnSet(f, K) = iter[K]
  BY DEF SumFunctionOnSet, FoldFunctionOnSet, MapThenFoldSet
<1>7. Sums(iter, f, K)
  BY <1>5 DEF Sums
<1>8. iter \in [SUBSET K -> Nat]
  <2> HIDE DEF iter
  <2> DEFINE P == {s \in SUBSET K : iter[s] \in Nat}
  <2>1. \A T \in SUBSET K : (\A x \in T : T \ {x} \in P) => T \in P
    <3> SUFFICES ASSUME NEW T \in SUBSET K, \A x \in T : T \ {x} \in P PROVE iter[T] \in Nat
      OBVIOUS
    <3>1. CASE T = {}
      <4>1. iter[T] = 0
        BY <1>7, <3>1 DEF Sums
      <4> QED BY <4>1
    <3>2. CASE T # {}
      <4> DEFINE c == CHOOSE x \in T : TRUE
      <4>1. c \in T /\ f[c] \in Nat
        BY <3>2
      <4>2. iter[T \ {c}] \in Nat
        BY <4>1
      <4>3. iter[T] = f[c] + iter[T \ {c}]
        BY <1>7, <3>2 DEF Sums
      <4> HIDE DEF c
      <4> QED BY <4>1, <4>2, <4>3
    <3> QED BY <3>1, <3>2
  <2> HIDE DEF P
  <2>2. P = SUBSET K
    <3>1. P \in SUBSET SUBSET K
      BY DEF P
    <3> QED BY <2>1, <3>1, SubsetsReached
  <2>3. DOMAIN iter = SUBSET K /\ iter = [s \in SUBSET K |-> iter[s]]
    BY <1>5
  <2> QED BY <2>2, <2>3 DEF P
<1> QED BY <1>6, <1>7, <1>8

\* Two such functions of equal summands are equal.
LEMMA SumsUnique ==
    ASSUME NEW K, IsFiniteSet(K), NEW f, NEW h, \A k \in K : f[k] = h[k],
           NEW g, Sums(g, f, K), NEW j, Sums(j, h, K)
    PROVE  \A s \in SUBSET K : g[s] = j[s]
<1> DEFINE P == {s \in SUBSET K : g[s] = j[s]}
<1>1. ASSUME NEW T \in SUBSET K, \A x \in T : T \ {x} \in P
      PROVE  T \in P
  <2>1. CASE T = {}
    <3>1. g[T] = 0 /\ j[T] = 0
      BY <2>1 DEF Sums
    <3> QED BY <3>1
  <2>2. CASE T # {}
    <3> DEFINE c == CHOOSE x \in T : TRUE
    <3>1. c \in T /\ f[c] = h[c] /\ g[T \ {c}] = j[T \ {c}]
      BY <1>1, <2>2
    <3>2. g[T] = f[c] + g[T \ {c}] /\ j[T] = h[c] + j[T \ {c}]
      BY <2>2 DEF Sums
    <3> HIDE DEF c
    <3> QED BY <3>1, <3>2
  <2> QED BY <2>1, <2>2
<1>2. P = SUBSET K
  <2>1. P \in SUBSET SUBSET K
    OBVIOUS
  <2> HIDE DEF P
  <2> QED BY <1>1, <2>1, SubsetsReached
<1> QED BY <1>2

\* The sum over a part of the set is the value there of the same function.
LEMMA SumOfPart ==
    ASSUME NEW K, IsFiniteSet(K), NEW f, \A k \in K : f[k] \in Nat,
           NEW g, Sums(g, f, K), NEW T \in SUBSET K
    PROVE  SumFunctionOnSet(f, T) = g[T]
<1>1. IsFiniteSet(T) /\ \A k \in T : f[k] \in Nat
  BY FS_Subset
<1>2. PICK j \in [SUBSET T -> Nat] : Sums(j, f, T) /\ SumFunctionOnSet(f, T) = j[T]
  BY <1>1, SumDefined
<1>3. Sums(g, f, T)
  BY DEF Sums
<1>4. g[T] = j[T]
  BY <1>1, <1>2, <1>3, SumsUnique
<1> QED BY <1>2, <1>4

\* A sum of natural numbers is one, and equal summands give equal sums.
LEMMA SumAgrees ==
    ASSUME NEW K, IsFiniteSet(K), NEW f, NEW h,
           \A k \in K : f[k] \in Nat /\ f[k] = h[k]
    PROVE  SumFunctionOnSet(f, K) \in Nat /\ SumFunctionOnSet(f, K) = SumFunctionOnSet(h, K)
<1>1. PICK g \in [SUBSET K -> Nat] : Sums(g, f, K) /\ SumFunctionOnSet(f, K) = g[K]
  BY SumDefined
<1>2. \A k \in K : h[k] \in Nat
  OBVIOUS
<1>3. PICK j \in [SUBSET K -> Nat] : Sums(j, h, K) /\ SumFunctionOnSet(h, K) = j[K]
  BY <1>2, SumDefined
<1>4. g[K] = j[K]
  BY <1>1, <1>3, SumsUnique
<1> QED BY <1>1, <1>3, <1>4

\* Any element may be taken out of a sum first.
LEMMA SumTakes ==
    ASSUME NEW K, IsFiniteSet(K), NEW f, \A k \in K : f[k] \in Nat, NEW x \in K
    PROVE  SumFunctionOnSet(f, K) = f[x] + SumFunctionOnSet(f, K \ {x})
<1>1. PICK g \in [SUBSET K -> Nat] : Sums(g, f, K) /\ SumFunctionOnSet(f, K) = g[K]
  BY SumDefined
<1> DEFINE P == {T \in SUBSET K : \A y \in T : g[T] = f[y] + g[T \ {y}]}
<1>2. ASSUME NEW T \in SUBSET K, \A y \in T : T \ {y} \in P
      PROVE  T \in P
  <2> SUFFICES ASSUME NEW y \in T PROVE g[T] = f[y] + g[T \ {y}]
    OBVIOUS
  <2> DEFINE c == CHOOSE z \in T : TRUE
  <2>1. c \in T
    OBVIOUS
  <2>2. g[T] = f[c] + g[T \ {c}]
    BY <1>1 DEF Sums
  <2> HIDE DEF c
  <2>3. CASE c = y
    BY <2>2, <2>3
  <2>4. CASE c # y
    <3>1. T \ {c} \in P /\ T \ {y} \in P /\ y \in T \ {c} /\ c \in T \ {y}
      BY <1>2, <2>1, <2>4
    <3>2. /\ g[T \ {c}] = f[y] + g[(T \ {c}) \ {y}]
          /\ g[T \ {y}] = f[c] + g[(T \ {y}) \ {c}]
      BY <3>1
    <3>3. (T \ {c}) \ {y} = (T \ {y}) \ {c}
      OBVIOUS
    <3>4. f[y] \in Nat /\ f[c] \in Nat /\ g[(T \ {c}) \ {y}] \in Nat
      BY <2>1
    <3> HIDE DEF P
    <3>5. g[T] = f[c] + (f[y] + g[(T \ {c}) \ {y}])
      BY <2>2, <3>2
    <3>6. g[T \ {y}] = f[c] + g[(T \ {c}) \ {y}]
      BY <3>2, <3>3
    <3> QED BY <3>4, <3>5, <3>6
  <2> QED BY <2>3, <2>4
<1>3. P = SUBSET K
  <2>1. P \in SUBSET SUBSET K
    OBVIOUS
  <2> HIDE DEF P
  <2> QED BY <1>2, <2>1, SubsetsReached
<1>4. g[K] = f[x] + g[K \ {x}]
  BY <1>3
<1>5. SumFunctionOnSet(f, K \ {x}) = g[K \ {x}]
  BY <1>1, SumOfPart
<1> QED BY <1>1, <1>4, <1>5

\* A summand that changes changes the sum by as much, and is a part of it.
LEMMA SumChanges ==
    ASSUME NEW K, IsFiniteSet(K), NEW f, NEW h, \A k \in K : f[k] \in Nat /\ h[k] \in Nat,
           NEW x \in K, \A k \in K \ {x} : f[k] = h[k]
    PROVE  /\ SumFunctionOnSet(f, K) + h[x] = SumFunctionOnSet(h, K) + f[x]
           /\ f[x] <= SumFunctionOnSet(f, K)
<1> DEFINE R == K \ {x}
<1>1. IsFiniteSet(R)
  BY FS_RemoveElement
<1>2. SumFunctionOnSet(f, R) \in Nat /\ SumFunctionOnSet(f, R) = SumFunctionOnSet(h, R)
  <2>1. \A k \in R : f[k] \in Nat /\ f[k] = h[k]
    OBVIOUS
  <2> HIDE DEF R
  <2> QED BY <1>1, <2>1, SumAgrees
<1>3. SumFunctionOnSet(f, K) = f[x] + SumFunctionOnSet(f, R)
  BY SumTakes
<1>4. SumFunctionOnSet(h, K) = h[x] + SumFunctionOnSet(h, R)
  BY SumTakes
<1>5. f[x] \in Nat /\ h[x] \in Nat
  OBVIOUS
<1> HIDE DEF R
<1> QED BY <1>2, <1>3, <1>4, <1>5

\* Summands that are zero may be left out.
LEMMA SumLeavesOut ==
    ASSUME NEW K, IsFiniteSet(K), NEW f, \A k \in K : f[k] \in Nat,
           NEW S \in SUBSET K, \A k \in K \ S : f[k] = 0
    PROVE  SumFunctionOnSet(f, K) = SumFunctionOnSet(f, S)
<1>1. PICK g \in [SUBSET K -> Nat] : Sums(g, f, K) /\ SumFunctionOnSet(f, K) = g[K]
  BY SumDefined
<1> DEFINE P == {T \in SUBSET K : g[T] = g[T \cap S]}
<1>2. ASSUME NEW T \in SUBSET K, \A y \in T : T \ {y} \in P
      PROVE  T \in P
  <2>1. CASE T \subseteq S
    <3>1. T \cap S = T
      BY <2>1
    <3> QED BY <3>1
  <2>2. ASSUME NEW y \in T, y \notin S PROVE T \in P
    <3>1. IsFiniteSet(T) /\ \A k \in T : f[k] \in Nat
      BY FS_Subset
    <3>2. SumFunctionOnSet(f, T) = f[y] + SumFunctionOnSet(f, T \ {y})
      BY <3>1, SumTakes
    <3>3. g[T] = f[y] + g[T \ {y}]
      BY <1>1, <3>2, SumOfPart
    <3>4. g[T \ {y}] = g[(T \ {y}) \cap S]
      BY <1>2, <2>2
    <3>5. (T \ {y}) \cap S = T \cap S
      BY <2>2
    <3>6. f[y] = 0 /\ g[T \ {y}] \in Nat
      BY <2>2
    <3>7. g[T] = g[T \cap S]
      <4> HIDE DEF P
      <4>1. g[T] = g[T \ {y}]
        BY <3>3, <3>6
      <4>2. g[T \ {y}] = g[T \cap S]
        BY <3>4, <3>5
      <4> QED BY <4>1, <4>2
    <3> QED BY <3>7
  <2> QED BY <2>1, <2>2
<1>3. P = SUBSET K
  <2>1. P \in SUBSET SUBSET K
    OBVIOUS
  <2> HIDE DEF P
  <2> QED BY <1>2, <2>1, SubsetsReached
<1>4. g[K] = g[S]
  <2>1. K \in P /\ K \cap S = S
    BY <1>3
  <2> QED BY <2>1
<1> QED BY <1>1, <1>4, SumOfPart

\* The sum of no numbers.
LEMMA SumOfNothing == \A f : SumFunctionOnSet(f, {}) = 0
<1> SUFFICES ASSUME NEW f PROVE SumFunctionOnSet(f, {}) = 0
  OBVIOUS
<1>1. IsFiniteSet({}) /\ \A k \in {} : f[k] \in Nat
  BY FS_EmptySet
<1>2. PICK g \in [SUBSET {} -> Nat] : Sums(g, f, {}) /\ SumFunctionOnSet(f, {}) = g[{}]
  BY <1>1, SumDefined
<1> QED BY <1>2 DEF Sums

-----------------------------------------------------------------------------
(* Filtered sequences.                                                     *)

\* The sequence s without the mentions of k.
Kept(s, k) ==
    FoldLeft(LAMBDA kept, h : IF h = k THEN kept ELSE Append(kept, h), <<>>, s)

\* t is the first n elements of s without k: t[i] is s[at[i]].
IsKept(t, s, n, k, at) ==
    /\ at \in [1..Len(t) -> 1..n]
    /\ \A i, j \in 1..Len(t) : i < j => at[i] < at[j]
    /\ \A i \in 1..Len(t) : t[i] = s[at[i]] /\ t[i] # k
    /\ \A j \in 1..n : s[j] # k => \E i \in 1..Len(t) : at[i] = j

\* One more element, which is k or is kept.
LEMMA KeptStep ==
    ASSUME NEW S, NEW s \in Seq(S), NEW k, NEW n \in Nat, n + 1 <= Len(s),
           NEW t \in Seq(S), NEW at, IsKept(t, s, n, k, at),
           NEW u, u = IF s[n + 1] = k THEN t ELSE Append(t, s[n + 1])
    PROVE  u \in Seq(S) /\ \E b : IsKept(u, s, n + 1, k, b)
<1>1. s[n + 1] \in S
  BY ElementOfSeq
<1>2. CASE s[n + 1] = k
  <2>1. IsKept(t, s, n + 1, k, at)
    <3>1. \A j \in 1..(n + 1) : s[j] # k => j \in 1..n
      BY <1>2
    <3> QED BY <3>1 DEF IsKept
  <2> QED BY <1>2, <2>1
<1>3. CASE s[n + 1] # k
  <2> DEFINE b == [i \in 1..(Len(t) + 1) |-> IF i = Len(t) + 1 THEN n + 1 ELSE at[i]]
  <2>1. /\ u \in Seq(S) /\ Len(u) = Len(t) + 1 /\ u[Len(t) + 1] = s[n + 1]
        /\ Len(t) \in Nat /\ \A i \in 1..Len(t) : u[i] = t[i]
    BY <1>1, <1>3, AppendProperties
  <2>2. b \in [1..Len(u) -> 1..(n + 1)]
    BY <2>1 DEF IsKept
  <2>3. \A i, j \in 1..Len(u) : i < j => b[i] < b[j]
    <3> SUFFICES ASSUME NEW i \in 1..Len(u), NEW j \in 1..Len(u), i < j PROVE b[i] < b[j]
      OBVIOUS
    <3>1. i \in 1..Len(t) /\ b[i] = at[i] /\ at[i] \in 1..n
      <4>1. Len(u) = Len(t) + 1 /\ Len(t) \in Nat /\ i \in Nat /\ j \in Nat /\ i < j /\ j <= Len(u)
        BY <2>1
      <4>2. i \in 1..Len(t)
        BY <4>1
      <4>3. b[i] = at[i]
        BY <4>1, <4>2
      <4>4. at[i] \in 1..n
        BY <4>2 DEF IsKept
      <4> QED BY <4>2, <4>3, <4>4
    <3>2. CASE j = Len(t) + 1
      BY <2>1, <3>1, <3>2
    <3>3. CASE j # Len(t) + 1
      <4>1. j \in 1..Len(t) /\ b[j] = at[j]
        BY <2>1, <3>3
      <4> QED BY <3>1, <4>1 DEF IsKept
    <3> QED BY <3>2, <3>3
  <2>4. \A i \in 1..Len(u) : u[i] = s[b[i]] /\ u[i] # k
    BY <1>3, <2>1 DEF IsKept
  <2>5. \A j \in 1..(n + 1) : s[j] # k => \E i \in 1..Len(u) : b[i] = j
    <3> SUFFICES ASSUME NEW j \in 1..(n + 1), s[j] # k PROVE \E i \in 1..Len(u) : b[i] = j
      OBVIOUS
    <3>1. CASE j = n + 1
      <4>1. Len(t) + 1 \in 1..Len(u) /\ b[Len(t) + 1] = n + 1
        BY <2>1
      <4> QED BY <3>1, <4>1
    <3>2. CASE j # n + 1
      <4>1. PICK i \in 1..Len(t) : at[i] = j
        BY <3>2 DEF IsKept
      <4>2. i \in 1..Len(u) /\ b[i] = j
        BY <2>1, <4>1
      <4> QED BY <4>2
    <3> QED BY <3>1, <3>2
  <2> HIDE DEF b
  <2>6. IsKept(u, s, n + 1, k, b)
    BY <2>2, <2>3, <2>4, <2>5 DEF IsKept
  <2> QED BY <2>1, <2>6
<1> QED BY <1>2, <1>3

\* Kept is the sequence without k, in the order it has.
LEMMA KeptIs ==
    ASSUME NEW S, NEW s \in Seq(S), NEW k
    PROVE  Kept(s, k) \in Seq(S) /\ \E at : IsKept(Kept(s, k), s, Len(s), k, at)
<1> DEFINE D == 1..Len(s)
           ch == [T \in SUBSET D |-> Max(T)]
           Next1(T, v) == IF s[Max(T)] = k THEN v ELSE Append(v, s[Max(T)])
           st == [p \in (SUBSET D) \X Seq(S) |-> IF p[1] = {} THEN <<>> ELSE Next1(p[1], p[2])]
           Body(g) == [T \in SUBSET D |->
                         IF T = {} THEN <<>> ELSE Next1(T, g[T \ {Max(T)}])]
           iter == CHOOSE g : g = Body(g)
<1>1. Len(s) \in Nat /\ D = DOMAIN s /\ IsFiniteSet(D) /\ <<>> \in Seq(S)
  <2>1. Len(s) \in Nat /\ D = DOMAIN s /\ <<>> \in Seq(S)
    OBVIOUS
  <2> QED BY <2>1, FS_Interval
<1>2. \A T \in SUBSET D : T # {} => Max(T) \in T /\ s[Max(T)] \in S
  <2> SUFFICES ASSUME NEW T \in SUBSET D, T # {} PROVE Max(T) \in T /\ s[Max(T)] \in S
    OBVIOUS
  <2>1. T \in SUBSET (0..Len(s))
    BY <1>1
  <2>2. Max(T) \in T
    BY <1>1, <2>1, MaxIsGreatest
  <2> QED BY <2>2, ElementOfSeq
<1>3. \A T \in SUBSET D : T # {} => ch[T] \in T
  BY <1>2
<1>4. \A T \in SUBSET D, v \in Seq(S) : st[<<T, v>>] \in Seq(S)
  <2> SUFFICES ASSUME NEW T \in SUBSET D, NEW v \in Seq(S) PROVE st[<<T, v>>] \in Seq(S)
    OBVIOUS
  <2>1. T # {} => Next1(T, v) \in Seq(S)
    BY <1>2
  <2>2. st[<<T, v>>] = IF T = {} THEN <<>> ELSE Next1(T, v)
    OBVIOUS
  <2> HIDE DEF Next1, st
  <2> QED BY <1>1, <2>1, <2>2
<1>5. PICK g : IsFold(g, D, Seq(S), <<>>, ch, st)
  <2> HIDE DEF ch, st, D
  <2> QED BY <1>1, <1>3, <1>4, FoldExists
<1>6. g = Body(g)
  <2>1. g \in [SUBSET D -> Seq(S)]
    BY <1>5 DEF IsFold
  <2>2. \A T \in SUBSET D : g[T] = Body(g)[T]
    <3> SUFFICES ASSUME NEW T \in SUBSET D, T # {} PROVE g[T] = Body(g)[T]
      BY <1>5 DEF IsFold
    <3>1. T \ {ch[T]} \in SUBSET D /\ g[T \ {ch[T]}] \in Seq(S) /\ ch[T] = Max(T)
      BY <2>1
    <3>2. g[T] = st[<<T, g[T \ {ch[T]}]>>]
      BY <1>5 DEF IsFold
    <3> QED BY <3>1, <3>2
  <2> QED BY <2>1, <2>2
<1>7. iter = Body(iter)
  <2> HIDE DEF Body
  <2> QED BY <1>6
<1>8. Kept(s, k) = iter[D]
  BY <1>1 DEF Kept, FoldLeft, MapThenFoldSet
<1> HIDE DEF iter
<1> DEFINE P == {n \in Nat : n <= Len(s) =>
                    iter[1..n] \in Seq(S) /\ \E at : IsKept(iter[1..n], s, n, k, at)}
<1>9. 0 \in P
  <2>1. 1..0 = {} /\ iter[{}] = <<>>
    BY <1>7
  <2> DEFINE none == [i \in {} |-> 0]
  <2>2. IsKept(<<>>, s, 0, k, none)
    BY DEF IsKept
  <2> QED BY <1>1, <2>1, <2>2
<1>10. ASSUME NEW n \in P PROVE n + 1 \in P
  <2> SUFFICES ASSUME n + 1 <= Len(s)
               PROVE  iter[1..(n + 1)] \in Seq(S) /\ \E at : IsKept(iter[1..(n + 1)], s, n + 1, k, at)
    OBVIOUS
  <2> DEFINE T == 1..(n + 1)
  <2>1. n \in Nat /\ n <= Len(s)
    BY <1>1
  <2>2. T \in SUBSET D /\ T # {} /\ Max(T) = n + 1 /\ T \ {n + 1} = 1..n
    <3>1. T \in SUBSET D /\ T # {} /\ n + 1 \in T
      <4>1. \A i \in T : i \in D
        BY <1>1, <2>1
      <4>2. n + 1 \in T
        BY <2>1
      <4> QED BY <4>1, <4>2
    <3>2. T \in SUBSET (0..Len(s))
      BY <1>1, <3>1
    <3>3. Max(T) \in T /\ \A y \in T : Max(T) >= y
      <4> HIDE DEF T
      <4> QED BY <1>1, <3>1, <3>2, MaxIsGreatest
    <3>4. Max(T) \in Nat /\ Max(T) <= n + 1 /\ Max(T) >= n + 1
      BY <2>1, <3>1, <3>3
    <3>5. T \ {n + 1} = 1..n
      BY <2>1
    <3> QED BY <2>1, <3>1, <3>4, <3>5
  <2>3. iter[T] = IF s[n + 1] = k THEN iter[1..n] ELSE Append(iter[1..n], s[n + 1])
    BY <1>7, <2>2
  <2>4. iter[1..n] \in Seq(S)
    BY <2>1
  <2>5. PICK at : IsKept(iter[1..n], s, n, k, at)
    BY <2>1
  <2> HIDE DEF T
  <2>6. iter[T] \in Seq(S) /\ \E b : IsKept(iter[T], s, n + 1, k, b)
    BY <2>1, <2>3, <2>4, <2>5, KeptStep
  <2> QED BY <2>6 DEF T
<1>11. P = Nat
  <2>1. P \in SUBSET Nat
    OBVIOUS
  <2> HIDE DEF P
  <2> QED BY <1>9, <1>10, <2>1, NaturalsReached
<1> QED BY <1>1, <1>8, <1>11

-----------------------------------------------------------------------------
(* Sequences in ascending order.                                           *)

\* The first n elements of s are in ascending order of rank.
Ascends(s, n, rank) == \A i, j \in 1..n : i < j => rank[s[i]] < rank[s[j]]

\* The first n elements of a are among the first m of b.
Among(a, n, b, m) == \A i \in 1..n : \E j \in 1..m : b[j] = a[i]

\* a and b have the same first n elements.
Agree(a, b, n) == \A i \in 1..n : a[i] = b[i]

\* Where two ascending sequences differ first, the greater element is not in the
\* other sequence.
LEMMA AscendingDiffer ==
    ASSUME NEW S, NEW rank, \A x \in S : rank[x] \in Nat,
           NEW n \in Nat, NEW m \in Nat, NEW a \in [1..n -> S], NEW b \in [1..m -> S],
           Ascends(a, n, rank), NEW i \in 1..n, i \in 1..m,
           \A e \in 1..n : e < i => a[e] = b[e],
           NEW h \in 1..n, a[h] = b[i], a[i] # b[i], Ascends(b, m, rank)
    PROVE  rank[a[i]] < rank[b[i]]
<1>1. \A e \in 1..n : a[e] \in S
  OBVIOUS
<1>2. \A e \in 1..m : b[e] \in S
  OBVIOUS
<1>3. ASSUME h < i PROVE FALSE
  <2>1. h \in 1..m /\ b[h] = b[i]
    BY <1>3
  <2>2. rank[b[h]] < rank[b[i]]
    BY <1>3, <2>1 DEF Ascends
  <2>3. rank[b[i]] \in Nat
    BY <1>2
  <2> QED BY <2>1, <2>2, <2>3
<1>4. i < h
  BY <1>3
<1>5. rank[a[i]] < rank[a[h]]
  BY <1>4 DEF Ascends
<1> QED BY <1>5

\* Two ascending sequences of the same elements agree as far as both go.
LEMMA AscendingAgree ==
    ASSUME NEW S, NEW rank, \A x \in S : rank[x] \in Nat,
           NEW n \in Nat, NEW m \in Nat, NEW a \in [1..n -> S], NEW b \in [1..m -> S],
           n <= m, Ascends(a, n, rank), Ascends(b, m, rank),
           Among(a, n, b, m), Among(b, m, a, n)
    PROVE  Agree(a, b, n)
<1> DEFINE D == {i \in 1..n : a[i] # b[i]}
<1>1. ASSUME D # {} PROVE FALSE
  <2>1. D \in SUBSET Nat
    OBVIOUS
  <2>2. PICK i \in D : \A e \in D : i <= e
    BY <1>1, <2>1, LeastNatural
  <2>3. i \in 1..n /\ i \in 1..m /\ a[i] # b[i]
    BY <2>2
  <2>4. \A e \in 1..n : e < i => a[e] = b[e]
    BY <2>2
  <2>5. \A e \in 1..m : e < i => b[e] = a[e]
    BY <2>3, <2>4
  <2>6. PICK h \in 1..n : a[h] = b[i]
    BY <2>3 DEF Among
  <2>7. PICK j \in 1..m : b[j] = a[i]
    BY <2>3 DEF Among
  <2> HIDE DEF D
  <2>8. rank[a[i]] < rank[b[i]]
    BY <2>3, <2>4, <2>6, AscendingDiffer
  <2>9. rank[b[i]] < rank[a[i]]
    BY <2>3, <2>5, <2>7, AscendingDiffer
  <2>10. rank[a[i]] \in Nat /\ rank[b[i]] \in Nat
    BY <2>3
  <2>11. \A x, y \in Nat : ~(x < y /\ y < x)
    OBVIOUS
  <2> QED BY <2>8, <2>9, <2>10, <2>11, Zenon
<1> QED BY <1>1 DEF Agree

\* The shorter one is as long as the other.
LEMMA AscendingLength ==
    ASSUME NEW S, NEW rank, \A x \in S : rank[x] \in Nat,
           NEW n \in Nat, NEW m \in Nat, NEW a \in [1..n -> S], NEW b \in [1..m -> S],
           n <= m, Ascends(a, n, rank), Ascends(b, m, rank),
           Among(a, n, b, m), Among(b, m, a, n)
    PROVE  n = m
<1> SUFFICES ASSUME n < m PROVE FALSE
  OBVIOUS
<1>1. Agree(a, b, n)
  BY AscendingAgree
<1>2. m \in 1..m
  OBVIOUS
<1>3. PICK i \in 1..n : a[i] = b[m]
  BY <1>2 DEF Among
<1>4. i \in 1..m /\ i < m /\ b[i] = b[m]
  BY <1>1, <1>3 DEF Agree
<1>5. rank[b[i]] < rank[b[m]]
  BY <1>2, <1>4 DEF Ascends
<1>6. rank[b[m]] \in Nat
  BY <1>2
<1> QED BY <1>4, <1>5, <1>6

\* Two ascending sequences of the same elements are equal.
LEMMA AscendingUnique ==
    ASSUME NEW S, NEW rank, \A x \in S : rank[x] \in Nat,
           NEW n \in Nat, NEW m \in Nat, NEW a \in [1..n -> S], NEW b \in [1..m -> S],
           Ascends(a, n, rank), Ascends(b, m, rank),
           Among(a, n, b, m), Among(b, m, a, n)
    PROVE  a = b
<1>1. n <= m => n = m
  BY AscendingLength
<1>2. m <= n => m = n
  BY AscendingLength
<1>3. n = m
  BY <1>1, <1>2
<1>4. Agree(a, b, n)
  <2>1. n <= m
    BY <1>3
  <2> QED BY <2>1, AscendingAgree
<1> QED BY <1>3, <1>4 DEF Agree

-----------------------------------------------------------------------------
(* Listings of a finite set.                                               *)

\* A listing of a finite set names its elements once and nothing else.
LEMMA ListingIs ==
    ASSUME NEW S, IsFiniteSet(S), NEW s \in SetToSeqs(S)
    PROVE  /\ s \in Seq(S) /\ s \in [1..Len(s) -> S] /\ ToSet(s) = S
           /\ \A i, j \in 1..Len(s) : s[i] = s[j] => i = j
<1> DEFINE D == 1..Cardinality(S)
<1>1. s \in [D -> S] /\ \A i, j \in D : i # j => s[i] # s[j]
  BY DEF SetToSeqs
<1>2. Cardinality(S) \in Nat
  BY FS_CardinalityType
<1>3. s \in Seq(S) /\ Len(s) = Cardinality(S) /\ DOMAIN s = D
  BY <1>1, <1>2
<1>4. IsFiniteSet(D) /\ Cardinality(D) = Cardinality(S)
  BY <1>2, FS_Interval
<1>5. s \in Injection(D, S)
  BY <1>1 DEF Injection, IsInjective
<1>6. s \in Surjection(D, S)
  BY <1>4, <1>5, FS_Injection
<1>7. ToSet(s) = S
  BY <1>1, <1>3, <1>6 DEF Surjection, ToSet
<1> QED BY <1>1, <1>3, <1>7

\* A listing is as long as the set is large.
LEMMA ListingLength ==
    ASSUME NEW S, NEW n \in Nat, NEW s \in [1..n -> S],
           \A i, j \in 1..n : s[i] = s[j] => i = j,
           \A x \in S : \E i \in 1..n : s[i] = x
    PROVE  Cardinality(S) = n
<1>1. s \in Bijection(1..n, S)
  BY DEF Bijection, Injection, Surjection, IsInjective
<1> QED BY <1>1, FS_CountingElements DEF ExistsBijection

=============================================================================
