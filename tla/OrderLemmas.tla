----------------------------- MODULE OrderLemmas -----------------------------
(***************************************************************************)
(* Numbers in their order: least elements, induction as a statement about  *)
(* a set, and the rank of a number in a finite set.  The proofs about      *)
(* pages use them: a query that sorts by a key and cuts at a position      *)
(* returns the elements of certain ranks.                                  *)
(***************************************************************************)
EXTENDS Integers, FiniteSetTheorems, WellFoundedInduction, TLAPS

NatLess == {pair \in Nat \X Nat : pair[1] < pair[2]}

\* Every set of numbers that is not empty has a least one.
LEMMA LeastNumber ==
  ASSUME NEW T, T \subseteq Nat, T # {}
  PROVE  \E x \in T : \A y \in T : x <= y
<1>1. IsWellFoundedOn(NatLess, Nat)
  BY NatLessThanWellFounded DEF OpToRel, NatLess
<1>2. PICK x \in T : \A y \in T : <<y, x>> \notin NatLess
  BY <1>1, WFMin
<1>3. ASSUME NEW y \in T PROVE x <= y
  <2>1. <<y, x>> \in Nat \X Nat /\ <<y, x>> \notin NatLess
    BY <1>2
  <2> QED
    BY <2>1 DEF NatLess
<1> QED
  BY <1>3

\* Induction: a set that has 0 and every successor of its elements.
LEMMA SuccessorClosed ==
  ASSUME NEW T, 0 \in T, \A n \in Nat : n \in T => n + 1 \in T
  PROVE  Nat \subseteq T
<1> SUFFICES ASSUME Nat \ T # {} PROVE FALSE
  OBVIOUS
<1>1. PICK n \in Nat \ T : \A m \in Nat \ T : n <= m
  BY LeastNumber
<1>2. n # 0 /\ n - 1 \in Nat
  BY <1>1
<1>3. n - 1 \in T
  BY <1>1, <1>2
<1> QED
  BY <1>1, <1>2, <1>3

\* A step repeated n times from base.
Orbit(S, step, base, n) ==
    {f \in [0..n -> S] : /\ f[0] = base
                        /\ \A k \in 0..(n - 1) : f[k + 1] = step[f[k]]}

\* What is defined by repeating a step exists, as far as one likes.
LEMMA Iterates ==
  ASSUME NEW S, NEW step \in [S -> S], NEW base \in S, NEW n \in Nat
  PROVE  Orbit(S, step, base, n) # {}
<1> DEFINE Good(f, m) == f[0] = base /\ \A k \in 0..(m - 1) : f[k + 1] = step[f[k]]
           T == {m \in Nat : \E f \in [0..m -> S] : Good(f, m)}
<1>1. 0 \in T
  <2>1. [k \in 0..0 |-> base] \in [0..0 -> S] /\ Good([k \in 0..0 |-> base], 0)
    OBVIOUS
  <2> HIDE DEF Good
  <2> QED
    BY <2>1
<1>2. ASSUME NEW m \in Nat, m \in T PROVE m + 1 \in T
  <2>1. PICK f \in [0..m -> S] : Good(f, m)
    BY <1>2
  <2> DEFINE g == [k \in 0..(m + 1) |-> IF k = m + 1 THEN step[f[m]] ELSE f[k]]
  <2>2. g \in [0..(m + 1) -> S]
    OBVIOUS
  <2>3. g[0] = base
    BY <2>1
  <2>4. ASSUME NEW k \in 0..m PROVE g[k + 1] = step[g[k]]
    <3>1. g[k] = f[k]
      OBVIOUS
    <3>2. CASE k = m
      BY <3>1, <3>2
    <3>3. CASE k # m
      <4>1. k \in 0..(m - 1) /\ k + 1 \in 0..m
        BY <3>3
      <4> QED
        BY <2>1, <3>1, <4>1
    <3> QED
      BY <3>2, <3>3
  <2>5. Good(g, m + 1)
    <3> HIDE DEF g
    <3> QED
      BY <2>3, <2>4
  <2> HIDE DEF g, Good
  <2> QED
    BY <2>2, <2>5
<1> HIDE DEF T
<1>3. n \in T
  BY <1>1, <1>2, SuccessorClosed
<1> QED
  BY <1>3 DEF T, Orbit

-----------------------------------------------------------------------------
(* Ranks.                                                                  *)

\* How many elements of a set come before a number.
RankIn(S, t) == Cardinality({u \in S : u < t})

LEMMA RankType ==
  ASSUME NEW S, IsFiniteSet(S), NEW t
  PROVE  /\ RankIn(S, t) \in Nat
         /\ IsFiniteSet({u \in S : u < t})
<1>1. {u \in S : u < t} \in SUBSET S
  OBVIOUS
<1> QED
  BY <1>1, FS_Subset, FS_CardinalityType DEF RankIn

\* Whoever comes first has the smaller rank.
LEMMA RankGrows ==
  ASSUME NEW S \in SUBSET Nat, IsFiniteSet(S), NEW t \in S, NEW u \in Nat, t < u
  PROVE  RankIn(S, t) < RankIn(S, u)
<1> DEFINE B(x) == {y \in S : y < x}
<1>1. B(t) \cup {t} \in SUBSET B(u) /\ t \notin B(t)
  <2>1. ASSUME NEW y \in S, y < t PROVE y < u
    BY <2>1
  <2>2. t \in Nat /\ ~(t < t)
    OBVIOUS
  <2> QED
    BY <2>1, <2>2
<1>2. IsFiniteSet(B(t)) /\ IsFiniteSet(B(u)) /\ RankIn(S, t) \in Nat /\ RankIn(S, u) \in Nat
  BY RankType
<1> HIDE DEF B
<1>3. Cardinality(B(t) \cup {t}) = Cardinality(B(t)) + 1
  BY <1>1, <1>2, FS_AddElement
<1>4. Cardinality(B(t) \cup {t}) <= Cardinality(B(u))
  BY <1>1, <1>2, FS_Subset
<1>5. RankIn(S, t) = Cardinality(B(t)) /\ RankIn(S, u) = Cardinality(B(u))
  BY DEF RankIn, B
<1> QED
  BY <1>2, <1>3, <1>4, <1>5

LEMMA RankBelowSize ==
  ASSUME NEW S \in SUBSET Nat, IsFiniteSet(S), NEW t \in S
  PROVE  RankIn(S, t) \in 0..(Cardinality(S) - 1)
<1> DEFINE B == {y \in S : y < t}
<1>1. B \cup {t} \in SUBSET S /\ t \notin B
  OBVIOUS
<1>2. IsFiniteSet(B) /\ RankIn(S, t) = Cardinality(B) /\ Cardinality(B) \in Nat
  BY RankType DEF RankIn
<1> HIDE DEF B
<1>3. Cardinality(B \cup {t}) = Cardinality(B) + 1
  BY <1>1, <1>2, FS_AddElement
<1>4. Cardinality(B \cup {t}) <= Cardinality(S)
  BY <1>1, FS_Subset
<1>5. Cardinality(S) \in Nat
  BY FS_CardinalityType
<1> QED
  BY <1>2, <1>3, <1>4, <1>5

\* The ranks are the numbers below the size, each of one element.
LEMMA RankIsBijection ==
  ASSUME NEW S \in SUBSET Nat, IsFiniteSet(S)
  PROVE  /\ \A t, u \in S : RankIn(S, t) = RankIn(S, u) => t = u
         /\ \A n \in 0..(Cardinality(S) - 1) : \E t \in S : RankIn(S, t) = n
<1> DEFINE N == Cardinality(S)
           R == 0..(N - 1)
           f == [t \in S |-> RankIn(S, t)]
<1>1. ASSUME NEW t \in S, NEW u \in S, RankIn(S, t) = RankIn(S, u) PROVE t = u
  <2>1. RankIn(S, t) \in Nat /\ t \in Nat /\ u \in Nat
    BY RankType
  <2>2. t < u => RankIn(S, t) < RankIn(S, u)
    BY RankGrows
  <2>3. u < t => RankIn(S, u) < RankIn(S, t)
    BY RankGrows
  <2> QED
    BY <1>1, <2>1, <2>2, <2>3
<1>2. N \in Nat /\ IsFiniteSet(R) /\ Cardinality(R) = N
  <2>1. N \in Nat
    BY FS_CardinalityType
  <2> HIDE DEF N
  <2> QED
    BY <2>1, FS_Interval
<1>3. f \in [S -> R]
  BY RankBelowSize
<1> HIDE DEF R
<1>4. f \in Injection(S, R)
  BY <1>1, <1>3 DEF Injection, IsInjective
<1>5. f \in Surjection(S, R)
  BY <1>2, <1>4, FS_Injection
<1>6. \A n \in R : \E t \in S : f[t] = n
  BY <1>5 DEF Surjection
<1> QED
  BY <1>1, <1>6 DEF R

\* A page: the elements of some consecutive ranks.  It is full when the set goes
\* on behind it.
RankPage(S, pos, size) == {t \in S : RankIn(S, t) \in pos..(pos + size - 1)}

LEMMA RankPageSize ==
  ASSUME NEW S \in SUBSET Nat, IsFiniteSet(S), NEW pos \in Nat, NEW size \in Nat
  PROVE  /\ IsFiniteSet(RankPage(S, pos, size))
         /\ Cardinality(RankPage(S, pos, size)) \in 0..size
         /\ pos + size <= Cardinality(S) => Cardinality(RankPage(S, pos, size)) = size
<1> DEFINE P == RankPage(S, pos, size)
           R == pos..(pos + size - 1)
           f == [t \in P |-> RankIn(S, t)]
<1>1. P \in SUBSET S /\ Cardinality(S) \in Nat
  BY FS_CardinalityType DEF RankPage
<1>2. IsFiniteSet(P) /\ Cardinality(P) \in Nat
  BY <1>1, FS_Subset, FS_CardinalityType
<1>3. IsFiniteSet(R) /\ Cardinality(R) = size
  BY FS_Interval
<1>4. f \in [P -> R]
  BY DEF RankPage
<1>5. f \in Injection(P, R)
  <2>1. \A t, u \in P : f[t] = f[u] => t = u
    BY <1>1, RankIsBijection
  <2> HIDE DEF P, R, f
  <2> QED
    BY <1>4, <2>1 DEF Injection, IsInjective
<1>6. Cardinality(P) <= size
  BY <1>3, <1>5, FS_Injection
<1>7. ASSUME pos + size <= Cardinality(S) PROVE Cardinality(P) = size
  <2>1. ASSUME NEW n \in R PROVE \E t \in P : f[t] = n
    <3>1. n \in 0..(Cardinality(S) - 1)
      BY <1>1, <1>7
    <3>2. PICK t \in S : RankIn(S, t) = n
      BY <3>1, RankIsBijection
    <3> QED
      BY <3>2 DEF RankPage
  <2> HIDE DEF P, R, f
  <2>2. f \in Surjection(P, R)
    BY <1>4, <2>1 DEF Surjection
  <2> QED
    BY <1>3, <1>5, <2>2, FS_Injection
<1> QED
  BY <1>2, <1>6, <1>7
=============================================================================
