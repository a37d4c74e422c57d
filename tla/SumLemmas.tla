------------------------------ MODULE SumLemmas ------------------------------
(* Least elements and sums of finite sets: what the proofs of Scheduler and    *)
(* Policy share.                                                               *)
EXTENDS Integers, FiniteSetsExt, FiniteSetTheorems, TLAPS

\* A set of subsets of a finite set has an element that contains no other.
LEMMA SmallestSubset ==
  ASSUME NEW S, IsFiniteSet(S), NEW P, P \subseteq SUBSET S, P # {}
  PROVE  \E s \in P : \A t \in P : t \subseteq s => t = s
<1>1. IsWellFoundedOn(StrictSubsetOrdering(S), SUBSET S)
  BY FS_StrictSubsetOrderingWellFounded, FS_FiniteSubsetsOfFinite
<1>2. PICK s \in P : \A t \in P : ~(<<t, s>> \in StrictSubsetOrdering(S))
  BY <1>1, WFMin
<1>3. \A t \in P : t \subseteq s => t = s
  BY <1>2 DEF StrictSubsetOrdering
<1> QED
  BY <1>3

\* A finite set of numbers has a least element, which Min finds.
LEMMA Least ==
  ASSUME NEW S, IsFiniteSet(S)
  PROVE  S \subseteq Nat /\ S # {} => Min(S) \in S /\ \A n \in S : Min(S) <= n
<1> DEFINE HasLeast(s) == \E m \in s : \A n \in s : m <= n
           Bad == {s \in SUBSET S : s \subseteq Nat /\ s # {} /\ ~HasLeast(s)}
<1>1. ASSUME NEW s \in Bad, \A t \in Bad : t \subseteq s => t = s PROVE FALSE
  <2>1. PICK y \in s : TRUE
    OBVIOUS
  <2>2. s \ {y} # {}
    BY <1>1, <2>1
  <2>3. HasLeast(s \ {y})
    <3>1. s \ {y} \in SUBSET S /\ s \ {y} \subseteq s /\ s \ {y} # s
      BY <1>1, <2>1
    <3>2. s \ {y} \notin Bad
      BY <1>1, <3>1
    <3> QED
      BY <2>2, <3>1, <3>2
  <2>4. PICK m \in s \ {y} : \A n \in s \ {y} : m <= n
    BY <2>3
  <2>5. CASE m <= y
    BY <2>4, <2>5
  <2>6. CASE ~(m <= y)
    <3>1. \A n \in s : y <= n
      BY <2>1, <2>4, <2>6
    <3> QED
      BY <2>1, <3>1
  <2> QED
    BY <2>5, <2>6
<1>2. Bad = {}
  <2>1. Bad \subseteq SUBSET S
    OBVIOUS
  <2> HIDE DEF Bad
  <2> QED
    BY <1>1, <2>1, SmallestSubset
<1>3. S \subseteq Nat /\ S # {} => \E m \in S : \A n \in S : m <= n
  BY <1>2
<1> QED
  BY <1>3, Zenon DEF Min

-----------------------------------------------------------------------------
(* Sums over finite sets.                                                  *)

\* The sum of f over S: what the model means by the memory a set of jobs needs.
SumOf(f, S) == MapThenSumSet(LAMBDA x : f[x], S)

\* The recursion behind it takes out one element after another.
Picked(s)     == CHOOSE x \in s : TRUE
Rest(s)       == s \ {Picked(s)}
Sums(f, S, g) ==
  g = [s \in SUBSET S |-> IF s = {} THEN 0 ELSE f[Picked(s)] + g[Rest(s)]]
Summing(f, S) == CHOOSE g : Sums(f, S, g)

LEMMA SumIsRecursive == ASSUME NEW f, NEW S PROVE SumOf(f, S) = Summing(f, S)[S]
  BY DEF SumOf, MapThenSumSet, MapThenFoldSet, Summing, Sums, Picked, Rest

LEMMA RestSmaller ==
  ASSUME NEW s, s # {} PROVE Picked(s) \in s /\ Rest(s) \subseteq s /\ Rest(s) # s
<1>1. Picked(s) \in s
  BY Zenon DEF Picked
<1> QED
  BY <1>1 DEF Rest

\* The recursion has exactly one solution.
LEMMA SumsUnique ==
  ASSUME NEW f, NEW D, IsFiniteSet(D), NEW S \in SUBSET D
  PROVE  /\ Sums(f, S, Summing(f, S))
         /\ \A g : Sums(f, S, g) => g[S] = SumOf(f, S)
<1> DEFINE Good(s) == /\ Sums(f, s, Summing(f, s))
                      /\ \A g : Sums(f, s, g) => g[s] = SumOf(f, s)
           Bad == {s \in SUBSET D : ~Good(s)}
<1>1. CASE Bad = {}
  <2>1. Good(S)
    BY <1>1
  <2> QED
    BY <2>1
<1>2. CASE Bad # {}
  <2>1. PICK s \in Bad : \A t \in Bad : t \subseteq s => t = s
    <3>1. Bad \subseteq SUBSET D
      OBVIOUS
    <3> HIDE DEF Bad
    <3> QED
      BY <1>2, <3>1, SmallestSubset
  <2>2. \A t : t \subseteq s /\ t # s => Good(t)
    BY <2>1
  <2> HIDE DEF Good
  <2>3. ASSUME NEW h, Sums(f, s, h), NEW t, t \subseteq s, t # s PROVE h[t] = SumOf(f, t)
    <3> DEFINE k == [u \in SUBSET t |-> h[u]]
    <3>1. ASSUME NEW u \in SUBSET t
          PROVE  k[u] = IF u = {} THEN 0 ELSE f[Picked(u)] + k[Rest(u)]
      <4>1. u # {} => Rest(u) \in SUBSET t
        BY RestSmaller
      <4>2. h[u] = IF u = {} THEN 0 ELSE f[Picked(u)] + h[Rest(u)]
        BY <2>3 DEF Sums
      <4> QED
        BY <4>1, <4>2
    <3>2. Sums(f, t, k)
      BY <3>1 DEF Sums
    <3>3. k[t] = SumOf(f, t)
      BY <2>2, <2>3, <3>2 DEF Good
    <3> QED
      BY <3>3
  <2>4. ASSUME NEW t, t \subseteq s, t # s
        PROVE  SumOf(f, t) = IF t = {} THEN 0 ELSE f[Picked(t)] + SumOf(f, Rest(t))
    <3> DEFINE h == Summing(f, t)
    <3>1. Sums(f, t, h)
      BY <2>2, <2>4 DEF Good
    <3>2. h[t] = IF t = {} THEN 0 ELSE f[Picked(t)] + h[Rest(t)]
      BY <3>1 DEF Sums
    <3>3. t # {} => h[Rest(t)] = SumOf(f, Rest(t))
      <4> SUFFICES ASSUME t # {} PROVE h[Rest(t)] = SumOf(f, Rest(t))
        OBVIOUS
      <4> DEFINE r == Rest(t)
                 k == [u \in SUBSET r |-> h[u]]
      <4>1. r \subseteq t /\ r \subseteq s /\ r # s
        BY RestSmaller, <2>4
      <4>2. ASSUME NEW u \in SUBSET r
            PROVE  k[u] = IF u = {} THEN 0 ELSE f[Picked(u)] + k[Rest(u)]
        <5>1. u # {} => Rest(u) \in SUBSET r
          BY RestSmaller
        <5>2. h[u] = IF u = {} THEN 0 ELSE f[Picked(u)] + h[Rest(u)]
          BY <3>1, <4>1 DEF Sums
        <5> QED
          BY <5>1, <5>2
      <4>3. Sums(f, r, k)
        BY <4>2 DEF Sums
      <4>4. k[r] = SumOf(f, r)
        BY <2>2, <4>1, <4>3 DEF Good
      <4> QED
        BY <4>4
    <3> QED
      BY <3>2, <3>3, SumIsRecursive
  <2> DEFINE g == [t \in SUBSET s |-> IF t = {} THEN 0 ELSE f[Picked(t)] + SumOf(f, Rest(t))]
  <2>5. ASSUME NEW t \in SUBSET s, t # {} PROVE g[Rest(t)] = SumOf(f, Rest(t))
    <3>1. Rest(t) \subseteq s /\ Rest(t) # s
      BY <2>5, RestSmaller
    <3>2. SumOf(f, Rest(t)) = IF Rest(t) = {} THEN 0
                              ELSE f[Picked(Rest(t))] + SumOf(f, Rest(Rest(t)))
      BY <2>4, <3>1
    <3> QED
      BY <3>1, <3>2
  <2>6. Sums(f, s, g)
    BY <2>5 DEF Sums
  <2>7. Sums(f, s, Summing(f, s))
    BY <2>6, Zenon DEF Summing
  <2>8. ASSUME NEW h, Sums(f, s, h)
        PROVE  h[s] = IF s = {} THEN 0 ELSE f[Picked(s)] + SumOf(f, Rest(s))
    <3>1. h[s] = IF s = {} THEN 0 ELSE f[Picked(s)] + h[Rest(s)]
      BY <2>8 DEF Sums
    <3>2. s # {} => h[Rest(s)] = SumOf(f, Rest(s))
      BY <2>3, <2>8, RestSmaller
    <3> QED
      BY <3>1, <3>2
  <2>9. Good(s)
    BY <2>7, <2>8, SumIsRecursive DEF Good
  <2> QED
    BY <2>1, <2>9 DEF Good
<1> QED
  BY <1>1, <1>2

LEMMA SumStep ==
  ASSUME NEW f, NEW S, IsFiniteSet(S)
  PROVE  SumOf(f, S) = IF S = {} THEN 0 ELSE f[Picked(S)] + SumOf(f, Rest(S))
<1> DEFINE g == Summing(f, S)
<1>1. Sums(f, S, g)
  BY SumsUnique
<1>2. g[S] = IF S = {} THEN 0 ELSE f[Picked(S)] + g[Rest(S)]
  BY <1>1 DEF Sums
<1>3. ASSUME S # {} PROVE g[Rest(S)] = SumOf(f, Rest(S))
  <2> DEFINE r == Rest(S)
             k == [u \in SUBSET r |-> g[u]]
  <2>1. r \in SUBSET S
    BY <1>3, RestSmaller
  <2>2. ASSUME NEW u \in SUBSET r
        PROVE  k[u] = IF u = {} THEN 0 ELSE f[Picked(u)] + k[Rest(u)]
    <3>1. u # {} => Rest(u) \in SUBSET r
      BY RestSmaller
    <3>2. g[u] = IF u = {} THEN 0 ELSE f[Picked(u)] + g[Rest(u)]
      BY <1>1, <2>1 DEF Sums
    <3> QED
      BY <3>1, <3>2
  <2>3. Sums(f, r, k)
    BY <2>2 DEF Sums
  <2>4. k[r] = SumOf(f, r)
    BY <2>1, <2>3, SumsUnique
  <2> QED
    BY <2>4
<1> QED
  BY <1>2, <1>3, SumIsRecursive

\* The sum is a number, does not depend on the order of the elements ...
LEMMA SumType ==
  ASSUME NEW D, IsFiniteSet(D), NEW f \in [D -> Nat], NEW S \in SUBSET D
  PROVE  SumOf(f, S) \in Nat
<1> DEFINE Bad == {s \in SUBSET D : SumOf(f, s) \notin Nat}
<1>1. Bad \subseteq SUBSET D
  OBVIOUS
<1>2. ASSUME NEW s \in Bad, \A t \in Bad : t \subseteq s => t = s PROVE FALSE
  <2>1. IsFiniteSet(s)
    BY FS_Subset
  <2>2. CASE s = {}
    <3>1. SumOf(f, s) = 0
      BY <2>1, <2>2, SumStep
    <3> QED
      BY <3>1
  <2>3. CASE s # {}
    <3>1. f[Picked(s)] \in Nat /\ SumOf(f, Rest(s)) \in Nat
      BY <1>2, <2>3, RestSmaller
    <3>2. SumOf(f, s) = f[Picked(s)] + SumOf(f, Rest(s))
      BY <2>1, <2>3, SumStep
    <3> QED
      BY <3>1, <3>2
  <2> QED
    BY <2>2, <2>3
<1>3. Bad = {}
  <2> HIDE DEF Bad
  <2> QED
    BY <1>1, <1>2, SmallestSubset
<1> QED
  BY <1>3

LEMMA SumTakeOut ==
  ASSUME NEW D, IsFiniteSet(D), NEW f \in [D -> Nat], NEW S \in SUBSET D, NEW y \in S
  PROVE  SumOf(f, S) = f[y] + SumOf(f, S \ {y})
<1> DEFINE Bad == {s \in SUBSET D : \E z \in s : SumOf(f, s) # f[z] + SumOf(f, s \ {z})}
<1>1. Bad \subseteq SUBSET D
  OBVIOUS
<1>2. ASSUME NEW s \in Bad, \A t \in Bad : t \subseteq s => t = s PROVE FALSE
  <2>1. PICK z \in s : SumOf(f, s) # f[z] + SumOf(f, s \ {z})
    OBVIOUS
  <2> DEFINE x == Picked(s)
             r == (s \ {x}) \ {z}
  <2>2. x \in s /\ IsFiniteSet(s)
    BY FS_Subset, RestSmaller
  <2>3. SumOf(f, s) = f[x] + SumOf(f, s \ {x})
    BY <2>2, SumStep DEF Rest
  <2>4. x # z
    BY <2>1, <2>3
  <2>5. \A t \in SUBSET s : t # s => \A u \in t : SumOf(f, t) = f[u] + SumOf(f, t \ {u})
    BY <1>2
  <2>6. SumOf(f, s \ {x}) = f[z] + SumOf(f, r)
    BY <2>2, <2>4, <2>5
  <2>7. SumOf(f, s \ {z}) = f[x] + SumOf(f, r)
    <3>1. (s \ {z}) \ {x} = r
      OBVIOUS
    <3> QED
      BY <2>2, <2>4, <2>5, <3>1
  <2>8. f[x] \in Nat /\ f[z] \in Nat /\ SumOf(f, r) \in Nat
    BY <2>2, SumType
  <2> QED
    BY <2>1, <2>3, <2>6, <2>7, <2>8
<1>3. Bad = {}
  <2> HIDE DEF Bad
  <2> QED
    BY <1>1, <1>2, SmallestSubset
<1> QED
  BY <1>3

\* ... and does not grow when elements are left out.
LEMMA SumMonotonic ==
  ASSUME NEW D, IsFiniteSet(D), NEW f \in [D -> Nat], NEW S \in SUBSET D, NEW T \in SUBSET S
  PROVE  SumOf(f, T) <= SumOf(f, S)
<1> DEFINE Bad == {s \in SUBSET D : \E t \in SUBSET s : ~(SumOf(f, t) <= SumOf(f, s))}
<1>1. Bad \subseteq SUBSET D
  OBVIOUS
<1>2. ASSUME NEW s \in Bad, \A t \in Bad : t \subseteq s => t = s PROVE FALSE
  <2>1. PICK t \in SUBSET s : ~(SumOf(f, t) <= SumOf(f, s))
    OBVIOUS
  <2>2. SumOf(f, t) \in Nat /\ SumOf(f, s) \in Nat
    BY SumType
  <2>3. t # s
    BY <2>1, <2>2
  <2>4. PICK y \in s : y \notin t
    BY <2>3
  <2>5. SumOf(f, t) <= SumOf(f, s \ {y})
    BY <1>2, <2>4
  <2>6. SumOf(f, s) = f[y] + SumOf(f, s \ {y})
    BY SumTakeOut
  <2>7. f[y] \in Nat /\ SumOf(f, s \ {y}) \in Nat
    BY SumType
  <2> QED
    BY <2>1, <2>2, <2>5, <2>6, <2>7
<1>3. Bad = {}
  <2> HIDE DEF Bad
  <2> QED
    BY <1>1, <1>2, SmallestSubset
<1> QED
  BY <1>3

\* Putting one more element in adds at most what it counts.
LEMMA SumPutIn ==
  ASSUME NEW D, IsFiniteSet(D), NEW f \in [D -> Nat], NEW S \in SUBSET D, NEW y \in D
  PROVE  SumOf(f, S \cup {y}) <= SumOf(f, S) + f[y]
<1> DEFINE old == SumOf(f, S)
           new == SumOf(f, S \cup {y})
<1> SUFFICES new <= old + f[y]
  OBVIOUS
<1>1. old \in Nat /\ f[y] \in Nat
  BY SumType
<1>2. CASE y \in S
  <2>1. S \cup {y} = S
    BY <1>2
  <2>2. new = old
    BY <2>1
  <2> HIDE DEF old, new
  <2> QED
    BY <1>1, <2>2
<1>3. CASE y \notin S
  <2>1. (S \cup {y}) \ {y} = S
    BY <1>3
  <2>2. new = f[y] + SumOf(f, (S \cup {y}) \ {y})
    BY SumTakeOut
  <2>3. new = f[y] + old
    BY <2>1, <2>2
  <2> HIDE DEF old, new
  <2> QED
    BY <1>1, <2>3
<1> QED
  BY <1>2, <1>3
=============================================================================
