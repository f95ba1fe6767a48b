----------------------------- MODULE PackagesProofs -----------------------------
(***************************************************************************)
(* What the operators of Packages return for every input: sorting and      *)
(* filtering, the loop over the events, one group's package, and what a    *)
(* placed package has to do with what the ledger emitted.                  *)
(***************************************************************************)
EXTENDS Packages, FiniteSetTheorems, SequenceTheorems, WellFoundedInduction, TLAPS

-----------------------------------------------------------------------------
(* Induction over numbers, for sets *)

\* A set that holds 0 and the successor of each number it holds has every number.
LEMMA NumbersFill ==
    ASSUME NEW S, 0 \in S, \A n \in Nat : n \in S => n + 1 \in S
    PROVE  \A n \in Nat : n \in S
<1> DEFINE R == {y \in Nat \X Nat : y[1] < y[2]}
           T == Nat \ S
<1> SUFFICES ASSUME T # {} PROVE FALSE
    OBVIOUS
<1>1. IsWellFoundedOn(R, Nat)
    <2>1. OpToRel(<, Nat) = R
        BY DEF OpToRel
    <2> QED BY <2>1, NatLessThanWellFounded
<1>2. PICK n \in T : \A z \in T : <<z, n>> \notin R
    <2>1. T \subseteq Nat /\ T # {}
        OBVIOUS
    <2> HIDE DEF R, T
    <2> QED BY <1>1, <2>1, WFMin
<1>3. n \in Nat /\ n # 0
    OBVIOUS
<1>4. n - 1 \in Nat /\ <<n - 1, n>> \in R
    BY <1>3
<1>5. n - 1 \in S
    BY <1>2, <1>4
<1> QED BY <1>3, <1>4, <1>5

-----------------------------------------------------------------------------
(* Sorting *)

\* f lists the set S of integers in ascending order, n of them.
Rising(f, n, S) ==
    /\ f \in [1..n -> S]
    /\ \A i, j \in 1..n : i < j => f[i] < f[j]
    /\ \A x \in S : \E i \in 1..n : f[i] = x

Rank(S, x) == Cardinality({y \in S : y <= x})

\* Ranks are between 1 and the number of elements, and grow with them.
LEMMA RankGrows ==
    ASSUME NEW S \in SUBSET Int, IsFiniteSet(S)
    PROVE  /\ \A x \in S : Rank(S, x) \in 1..Cardinality(S)
           /\ \A x, y \in S : x < y => Rank(S, x) < Rank(S, y)
<1>1. Cardinality(S) \in Nat
    BY FS_CardinalityType
<1>2. ASSUME NEW x \in S PROVE Rank(S, x) \in 1..Cardinality(S)
    <2> DEFINE D == {y \in S : y <= x}
    <2>1. D \in SUBSET S /\ x \in D
        OBVIOUS
    <2>2. IsFiniteSet(D) /\ Cardinality(D) <= Cardinality(S)
        BY <2>1, FS_Subset
    <2>3. Cardinality(D) \in Nat /\ Cardinality(D) # 0
        BY <2>1, <2>2, FS_CardinalityType, FS_EmptySet
    <2> QED BY <1>1, <2>2, <2>3 DEF Rank
<1>3. ASSUME NEW x \in S, NEW y \in S, x < y PROVE Rank(S, x) < Rank(S, y)
    <2> DEFINE D == {z \in S : z <= x}
               E == {z \in S : z <= y}
    <2>1. D \in SUBSET E /\ y \in E /\ y \notin D /\ E \in SUBSET S
        <3>1. x \in Int /\ y \in Int /\ \A z \in S : z \in Int
            OBVIOUS
        <3>2. \A z \in S : z <= x => z <= y
            BY <1>3, <3>1
        <3>3. ~(y <= x) /\ y <= y
            BY <1>3, <3>1
        <3> QED BY <3>2, <3>3
    <2>2. IsFiniteSet(E)
        BY <2>1, FS_Subset
    <2>3. Cardinality(D) <= Cardinality(E) /\ Cardinality(E) # Cardinality(D) /\ IsFiniteSet(D)
        BY <2>1, <2>2, FS_Subset
    <2>4. Cardinality(D) \in Nat /\ Cardinality(E) \in Nat
        BY <2>2, <2>3, FS_CardinalityType
    <2>5. Rank(S, x) = Cardinality(D) /\ Rank(S, y) = Cardinality(E)
        BY DEF Rank
    <2> HIDE DEF D, E
    <2> QED BY <2>3, <2>4, <2>5
<1> QED BY <1>2, <1>3

\* Ascending lists a finite set of integers in ascending order.
LEMMA AscendingRises ==
    ASSUME NEW S \in SUBSET Int, IsFiniteSet(S)
    PROVE  Cardinality(S) \in Nat /\ Rising(Ascending(S), Cardinality(S), S)
<1> DEFINE c == Cardinality(S)
           f == [x \in S |-> Rank(S, x)]
           order == Ascending(S)
<1>1. c \in Nat
    BY FS_CardinalityType
<1>r. \A x, y \in S : x < y => Rank(S, x) < Rank(S, y)
    BY RankGrows
<1>2. f \in Injection(S, 1..c)
    <2>1. f \in [S -> 1..c]
        BY RankGrows
    <2>2. ASSUME NEW x \in S, NEW y \in S, f[x] = f[y] PROVE x = y
        <3>1. Rank(S, x) = Rank(S, y) /\ Rank(S, x) \in Nat /\ Rank(S, y) \in Nat
            BY <1>1, <2>2, RankGrows
        <3>2. ~(x < y) /\ ~(y < x)
            BY <3>1, RankGrows
        <3> QED BY <3>2
    <2> QED BY <2>1, <2>2 DEF Injection, IsInjective
<1>3. IsFiniteSet(1..c) /\ Cardinality(1..c) = c
    BY <1>1, FS_Interval
<1>4. f \in Surjection(S, 1..c)
    BY <1>2, <1>3, FS_Injection
<1>5. \A n \in 1..c : \E x \in S : Rank(S, x) = n
    BY <1>4 DEF Surjection
<1>6. order = [n \in 1..c |-> CHOOSE x \in S : Rank(S, x) = n]
    BY DEF Ascending, Rank
<1>7. \A n \in 1..c : order[n] \in S /\ Rank(S, order[n]) = n
    BY <1>5, <1>6
<1>8. ASSUME NEW i \in 1..c, NEW j \in 1..c, i < j PROVE order[i] < order[j]
    <2>1. order[i] \in S /\ order[j] \in S /\ Rank(S, order[i]) = i /\ Rank(S, order[j]) = j
        BY <1>7
    <2> HIDE DEF order
    <2>2. order[i] \in Int /\ order[j] \in Int
        BY <2>1
    <2>3. i \in Int /\ j \in Int
        BY <1>1
    <2>4. ~(order[j] < order[i])
        <3> SUFFICES ASSUME order[j] < order[i] PROVE FALSE
            OBVIOUS
        <3>1. Rank(S, order[j]) < Rank(S, order[i])
            BY <1>r, <2>1
        <3> QED BY <1>8, <2>1, <2>3, <3>1
    <2>5. order[i] # order[j]
        BY <1>8, <2>1, <2>3
    <2> QED BY <2>2, <2>4, <2>5
<1>9. ASSUME NEW x \in S PROVE \E i \in 1..c : order[i] = x
    <2>1. Rank(S, x) \in 1..c
        BY RankGrows
    <2>2. f[x] = f[order[Rank(S, x)]]
        BY <1>7, <2>1
    <2>3. order[Rank(S, x)] = x
        BY <1>2, <1>7, <2>1, <2>2 DEF Injection, IsInjective
    <2> QED BY <2>1, <2>3
<1> HIDE DEF order
<1>10. order \in [1..c -> S]
    BY <1>6, <1>7
<1> QED BY <1>1, <1>8, <1>9, <1>10 DEF Rising, order

\* And only one sequence does: what lists a set in ascending order is Ascending.
LEMMA RisingIsAscending ==
    ASSUME NEW S \in SUBSET Int, NEW n \in Nat, NEW f, Rising(f, n, S)
    PROVE  IsFiniteSet(S) /\ Cardinality(S) = n /\ f = Ascending(S)
<1>1. /\ f \in [1..n -> S]
      /\ \A i, j \in 1..n : i < j => f[i] < f[j]
      /\ \A x \in S : \E i \in 1..n : f[i] = x
    BY DEF Rising
<1>2. \A i, j \in 1..n : f[i] = f[j] => i = j
    <2> SUFFICES ASSUME NEW i \in 1..n, NEW j \in 1..n, i < j, f[i] = f[j] PROVE FALSE
        OBVIOUS
    <2>1. f[i] < f[j] /\ f[i] \in Int
        BY <1>1
    <2> QED BY <2>1
<1>3. ExistsBijection(1..n, S)
    <2>1. f \in Bijection(1..n, S)
        BY <1>1, <1>2 DEF Bijection, Injection, Surjection, IsInjective
    <2> QED BY <2>1 DEF ExistsBijection
<1>4. IsFiniteSet(S) /\ Cardinality(S) = n
    BY <1>3, FS_NatBijection, FS_CountingElements
<1>5. ASSUME NEW k \in 1..n PROVE Rank(S, f[k]) = k
    <2> DEFINE D == {y \in S : y <= f[k]}
               g == [i \in 1..k |-> f[i]]
    <2>1. ASSUME NEW i \in 1..k PROVE i \in 1..n /\ f[i] \in D
        <3>1. i \in 1..n /\ (i < k \/ i = k)
            OBVIOUS
        <3>2. f[i] \in S /\ f[i] \in Int /\ f[k] \in Int /\ (f[i] < f[k] \/ f[i] = f[k])
            BY <1>1, <3>1
        <3> QED BY <3>1, <3>2
    <2>2. ASSUME NEW y \in D PROVE \E i \in 1..k : g[i] = y
        <3>1. PICK i \in 1..n : f[i] = y
            BY <1>1
        <3>2. ~(k < i)
            <4>1. f[i] <= f[k] /\ f[i] \in Int /\ f[k] \in Int
                BY <1>1, <3>1
            <4>2. k < i => f[k] < f[i]
                BY <1>1
            <4> QED BY <4>1, <4>2
        <3>3. i \in 1..k
            BY <3>2
        <3> QED BY <3>1, <3>3
    <2>3. \A i, j \in 1..k : g[i] = g[j] => i = j
        BY <1>2, <2>1
    <2>4. g \in [1..k -> D]
        BY <2>1
    <2> HIDE DEF D, g
    <2>5. g \in Bijection(1..k, D)
        BY <2>2, <2>3, <2>4 DEF Bijection, Injection, Surjection, IsInjective
    <2>6. Cardinality(D) = k
        BY <2>5, FS_CountingElements DEF ExistsBijection
    <2> QED BY <2>6 DEF D, Rank
<1>6. \A x, y \in S : x < y => Rank(S, x) < Rank(S, y)
    BY <1>4, RankGrows
<1>7. ASSUME NEW k \in 1..n PROVE f[k] = Ascending(S)[k]
    <2>1. Ascending(S)[k] = CHOOSE x \in S : Rank(S, x) = k
        BY <1>4 DEF Ascending, Rank
    <2>2. f[k] \in S /\ Rank(S, f[k]) = k
        BY <1>1, <1>5
    <2>3. ASSUME NEW x \in S, Rank(S, x) = k PROVE x = f[k]
        <3>1. ~(x < f[k]) /\ ~(f[k] < x)
            <4>1. k \in Int /\ ~(k < k)
                OBVIOUS
            <4>2. x < f[k] => k < k
                BY <1>6, <2>2, <2>3
            <4>3. f[k] < x => k < k
                BY <1>6, <2>2, <2>3
            <4> QED BY <4>1, <4>2, <4>3
        <3>2. x \in Int /\ f[k] \in Int
            BY <2>2
        <3> QED BY <3>1, <3>2
    <2> QED BY <2>1, <2>2, <2>3
<1>8. DOMAIN Ascending(S) = 1..n /\ DOMAIN f = 1..n
    BY <1>1, <1>4 DEF Ascending
<1>9. Ascending(S) = [k \in 1..n |-> Ascending(S)[k]]
    BY <1>4 DEF Ascending
<1> QED BY <1>1, <1>4, <1>7, <1>9

-----------------------------------------------------------------------------
(* Filtering *)

\* Any list of the kept indices in ascending order tells what Kept returns.
LEMMA KeptAlong ==
    ASSUME NEW s, NEW I \in SUBSET Int, NEW n \in Nat, NEW f, Rising(f, n, I)
    PROVE  Kept(s, I) = [k \in 1..n |-> s[f[k]]]
<1>1. f = Ascending(I) /\ f \in [1..n -> I]
    BY RisingIsAscending DEF Rising
<1> QED BY <1>1 DEF Kept

\* Some of the first n numbers can be listed in ascending order.
LEMMA IndicesRise ==
    ASSUME NEW n \in Nat, NEW I \in SUBSET (1..n)
    PROVE  /\ I \in SUBSET Int /\ IsFiniteSet(I)
           /\ Cardinality(I) \in Nat /\ Rising(Ascending(I), Cardinality(I), I)
<1>1. IsFiniteSet(I)
    <2>1. IsFiniteSet(1..n)
        BY FS_Interval
    <2> QED BY <2>1, FS_Subset
<1>2. I \in SUBSET Int
    OBVIOUS
<1> QED BY <1>1, <1>2, AscendingRises

\* What is kept of a sequence is one of the same elements.
LEMMA KeptType ==
    ASSUME NEW T, NEW s \in Seq(T), NEW I \in SUBSET (DOMAIN s)
    PROVE  /\ Kept(s, I) \in Seq(T)
           /\ \A k \in DOMAIN Kept(s, I) : \E i \in I : Kept(s, I)[k] = s[i]
           /\ \A i \in I : \E k \in DOMAIN Kept(s, I) : Kept(s, I)[k] = s[i]
           /\ I = {} <=> Kept(s, I) = <<>>
<1>1. /\ Len(s) \in Nat /\ DOMAIN s = 1..Len(s)
      /\ I \in SUBSET (1..Len(s))
    BY LenProperties
<1> DEFINE f == Ascending(I)
           n == Cardinality(I)
<1>2. n \in Nat /\ Rising(f, n, I) /\ I \in SUBSET Int
    BY <1>1, IndicesRise
<1> HIDE DEF f, n
<1>3. Kept(s, I) = [k \in 1..n |-> s[f[k]]]
    BY <1>2, KeptAlong
<1>4. \A k \in 1..n : f[k] \in I
    BY <1>2 DEF Rising
<1>5. \A i \in I : \E k \in 1..n : f[k] = i
    BY <1>2 DEF Rising
<1>6. \A i \in I : s[i] \in T
    BY <1>1, ElementOfSeq
<1> DEFINE t == [k \in 1..n |-> s[f[k]]]
<1>7. t \in [1..n -> T]
    BY <1>4, <1>6
<1>8. t \in Seq(T)
    BY <1>2, <1>7, SeqDef
<1>9. \A k \in 1..n : t[k] = s[f[k]]
    OBVIOUS
<1>10. DOMAIN t = 1..n
    OBVIOUS
<1>11. I = {} <=> t = <<>>
    <2>1. I = {} => 1..n = {}
        BY <1>4
    <2>2. 1..n = {} => t = <<>>
        BY <1>8, <1>10, LenProperties, EmptySeq
    <2>3. I # {} => 1..n # {}
        BY <1>5
    <2>4. 1..n # {} => t # <<>>
        BY <1>8, <1>10, LenProperties, EmptySeq
    <2> QED BY <2>1, <2>2, <2>3, <2>4
<1> HIDE DEF t
<1> QED BY <1>3, <1>4, <1>5, <1>8, <1>9, <1>10, <1>11 DEF t

\* Indices of a, then of what follows it.
Beside(a, I, J) == I \cup {Len(a) + j : j \in J}

\* Keeping from a concatenation is keeping from both parts.
LEMMA KeptConcat ==
    ASSUME NEW T, NEW a \in Seq(T), NEW b \in Seq(T),
           NEW I \in SUBSET (DOMAIN a), NEW J \in SUBSET (DOMAIN b)
    PROVE  Kept(a \o b, Beside(a, I, J)) = Kept(a, I) \o Kept(b, J)
<1> USE DEF Beside
<1> DEFINE l == Len(a)
           K == I \cup {l + j : j \in J}
           f == Ascending(I)
           m == Cardinality(I)
           g == Ascending(J)
           n == Cardinality(J)
           h == [k \in 1..(m + n) |-> IF k <= m THEN f[k] ELSE l + g[k - m]]
<1>1. /\ l \in Nat /\ DOMAIN a = 1..l /\ Len(b) \in Nat /\ DOMAIN b = 1..Len(b)
      /\ a \o b \in Seq(T) /\ Len(a \o b) = l + Len(b)
      /\ \A i \in 1..(l + Len(b)) : (a \o b)[i] = IF i <= l THEN a[i] ELSE b[i - l]
    BY LenProperties, ConcatProperties
<1>2. /\ I \in SUBSET Int /\ m \in Nat /\ Rising(f, m, I)
      /\ J \in SUBSET Int /\ n \in Nat /\ Rising(g, n, J)
    BY <1>1, IndicesRise
<1> HIDE DEF f, g, m, n, l
<1>3. /\ f \in [1..m -> I] /\ \A i, j \in 1..m : i < j => f[i] < f[j]
      /\ \A x \in I : \E i \in 1..m : f[i] = x
    BY <1>2 DEF Rising
<1>4. /\ g \in [1..n -> J] /\ \A i, j \in 1..n : i < j => g[i] < g[j]
      /\ \A x \in J : \E i \in 1..n : g[i] = x
    BY <1>2 DEF Rising
<1>5. /\ \A i \in I : i \in 1..l
      /\ \A j \in J : j \in 1..Len(b)
    BY <1>1
<1>6. \A k \in 1..(m + n) : \/ /\ k \in 1..m /\ k <= m
                                /\ h[k] = f[k] /\ f[k] \in I
                             \/ /\ ~(k <= m) /\ k - m \in 1..n
                                /\ h[k] = l + g[k - m] /\ g[k - m] \in J
    <2> TAKE k \in 1..(m + n)
    <2>1. CASE k <= m
        <3>1. k \in 1..m
            BY <1>2, <2>1
        <3> QED BY <1>3, <2>1, <3>1
    <2>2. CASE ~(k <= m)
        <3>1. k - m \in 1..n
            BY <1>2, <2>2
        <3> QED BY <1>4, <2>2, <3>1
    <2> QED BY <2>1, <2>2
<1> HIDE DEF h
<1>7. h \in [1..(m + n) -> K]
    <2>1. \A k \in 1..(m + n) : h[k] \in K
        BY <1>6
    <2> QED BY <2>1 DEF h
<1>8. ASSUME NEW i \in 1..(m + n), NEW j \in 1..(m + n), i < j PROVE h[i] < h[j]
    <2>1. CASE j <= m
        <3>1. i \in 1..m /\ j \in 1..m /\ i <= m
            BY <1>2, <1>8, <2>1
        <3> QED BY <1>3, <1>6, <1>8, <2>1, <3>1
    <2>2. CASE ~(i <= m)
        <3>1. i - m \in 1..n /\ j - m \in 1..n /\ i - m < j - m /\ ~(j <= m)
            BY <1>2, <1>8, <2>2
        <3>2. g[i - m] < g[j - m] /\ g[i - m] \in Int /\ g[j - m] \in Int
            BY <1>2, <1>4, <3>1
        <3> QED BY <1>1, <1>6, <2>2, <3>1, <3>2
    <2>3. CASE i <= m /\ ~(j <= m)
        <3>1. h[i] \in 1..l
            BY <1>5, <1>6, <2>3
        <3>2. g[j - m] \in 1..Len(b) /\ h[j] = l + g[j - m]
            BY <1>5, <1>6, <2>3
        <3> QED BY <1>1, <3>1, <3>2
    <2> QED BY <2>1, <2>2, <2>3
<1>9. ASSUME NEW x \in K PROVE \E k \in 1..(m + n) : h[k] = x
    <2>1. CASE x \in I
        <3>1. PICK i \in 1..m : f[i] = x
            BY <1>3, <2>1
        <3>2. i \in 1..(m + n) /\ i <= m
            BY <1>2
        <3> QED BY <1>6, <3>1, <3>2
    <2>2. CASE x \notin I
        <3>1. PICK y \in J : x = l + y
            BY <2>2
        <3>2. PICK i \in 1..n : g[i] = y
            BY <1>4
        <3>3. m + i \in 1..(m + n) /\ ~(m + i <= m) /\ (m + i) - m = i
            BY <1>2
        <3> QED BY <1>6, <3>1, <3>2, <3>3
    <2> QED BY <2>1, <2>2
<1>10. K \in SUBSET Int /\ m + n \in Nat
    BY <1>1, <1>2
<1> HIDE DEF K
<1>11. Rising(h, m + n, K)
    BY <1>7, <1>8, <1>9 DEF Rising
<1>12. Kept(a \o b, K) = [k \in 1..(m + n) |-> (a \o b)[h[k]]]
    <2>1. \A w : Kept(w, K) = [k \in 1..(m + n) |-> w[h[k]]]
        BY <1>10, <1>11, KeptAlong
    <2> QED BY <2>1, Zenon
<1>13. /\ Kept(a, I) = [k \in 1..m |-> a[f[k]]]
       /\ Kept(b, J) = [k \in 1..n |-> b[g[k]]]
    BY <1>2, KeptAlong
<1>14. Kept(a, I) \in Seq(T) /\ Kept(b, J) \in Seq(T)
    BY KeptType
<1>15. Len(Kept(a, I)) = m /\ Len(Kept(b, J)) = n
    BY <1>2, <1>13, <1>14, LenProperties
<1> DEFINE c == Kept(a, I) \o Kept(b, J)
<1>16. /\ c \in Seq(T) /\ Len(c) = m + n
       /\ \A k \in 1..(m + n) : c[k] = IF k <= m THEN Kept(a, I)[k] ELSE Kept(b, J)[k - m]
    BY <1>14, <1>15, ConcatProperties
<1> HIDE DEF c
<1>17. ASSUME NEW k \in 1..(m + n) PROVE c[k] = (a \o b)[h[k]]
    <2>1. CASE k <= m
        <3>1. k \in 1..m /\ h[k] = f[k] /\ f[k] \in 1..l
            BY <1>5, <1>6, <2>1
        <3>2. f[k] \in 1..(l + Len(b)) /\ f[k] <= l
            BY <1>1, <3>1
        <3>3. (a \o b)[f[k]] = a[f[k]]
            BY <1>1, <3>2
        <3>4. Kept(a, I)[k] = a[f[k]]
            BY <1>13, <3>1
        <3> QED BY <1>16, <2>1, <3>1, <3>3, <3>4
    <2>2. CASE ~(k <= m)
        <3>1. k - m \in 1..n /\ h[k] = l + g[k - m] /\ g[k - m] \in 1..Len(b)
            BY <1>5, <1>6, <2>2
        <3>2. l + g[k - m] \in 1..(l + Len(b)) /\ ~(l + g[k - m] <= l) /\ (l + g[k - m]) - l = g[k - m]
            BY <1>1, <3>1
        <3>3. (a \o b)[h[k]] = b[g[k - m]]
            BY <1>1, <3>1, <3>2
        <3>4. Kept(b, J)[k - m] = b[g[k - m]]
            BY <1>13, <3>1
        <3> QED BY <1>16, <2>2, <3>3, <3>4
    <2> QED BY <2>1, <2>2
<1>18. c = [k \in 1..(m + n) |-> (a \o b)[h[k]]]
    <2>1. c = [k \in 1..(m + n) |-> c[k]]
        BY <1>16, LenProperties
    <2> QED BY <1>17, <2>1
<1> QED BY <1>12, <1>18 DEF K, c, l

\* Keeping from what was kept is keeping from the whole.
LEMMA KeptOfKept ==
    ASSUME NEW T, NEW s \in Seq(T), NEW I \in SUBSET (DOMAIN s), NEW J \in SUBSET I,
           NEW K \in SUBSET (1..Cardinality(I)),
           \A k \in 1..Cardinality(I) : k \in K <=> Ascending(I)[k] \in J
    PROVE  Kept(Kept(s, I), K) = Kept(s, J)
<1> DEFINE f == Ascending(I)
           m == Cardinality(I)
           g == Ascending(K)
           n == Cardinality(K)
           h == [k \in 1..n |-> f[g[k]]]
<1>1. I \in SUBSET Int /\ m \in Nat /\ Rising(f, m, I)
    <2>1. Len(s) \in Nat /\ I \in SUBSET (1..Len(s))
        BY LenProperties
    <2> QED BY <2>1, IndicesRise
<1>2. K \in SUBSET Int /\ n \in Nat /\ Rising(g, n, K)
    BY <1>1, IndicesRise
<1>3. \A k \in 1..m : k \in K <=> f[k] \in J
    OBVIOUS
<1>4. /\ f \in [1..m -> I] /\ \A i, j \in 1..m : i < j => f[i] < f[j]
      /\ \A x \in I : \E i \in 1..m : f[i] = x
    BY <1>1 DEF Rising
<1>5. /\ g \in [1..n -> K] /\ \A i, j \in 1..n : i < j => g[i] < g[j]
      /\ \A x \in K : \E i \in 1..n : g[i] = x
    BY <1>2 DEF Rising
<1>6. K \in SUBSET (1..m)
    OBVIOUS
<1> HIDE DEF f, m, g, n
<1>7. Rising(h, n, J)
    <2>1. \A k \in 1..n : h[k] = f[g[k]] /\ g[k] \in K /\ g[k] \in 1..m /\ h[k] \in J
        BY <1>3, <1>5, <1>6
    <2>2. h \in [1..n -> J]
        BY <2>1
    <2>3. \A i, j \in 1..n : i < j => h[i] < h[j]
        BY <1>4, <1>5, <2>1
    <2>4. ASSUME NEW x \in J PROVE \E k \in 1..n : h[k] = x
        <3>1. PICK i \in 1..m : f[i] = x
            BY <1>4
        <3>2. PICK k \in 1..n : g[k] = i
            BY <1>3, <1>5, <3>1
        <3> QED BY <2>1, <3>1, <3>2
    <2> HIDE DEF h
    <2> QED BY <2>2, <2>3, <2>4 DEF Rising
<1>8. J \in SUBSET Int
    BY <1>1
<1>9. Kept(s, J) = [k \in 1..n |-> s[h[k]]]
    <2> HIDE DEF h
    <2> QED BY <1>2, <1>7, <1>8, KeptAlong
<1>10. Kept(s, I) = [k \in 1..m |-> s[f[k]]]
    BY <1>1, KeptAlong
<1>11. \A w : Kept(w, K) = [k \in 1..n |-> w[g[k]]]
    BY <1>2, KeptAlong
<1>12. \A k \in 1..n : Kept(s, I)[g[k]] = s[h[k]]
    BY <1>5, <1>6, <1>10
<1>13. Kept(Kept(s, I), K) = [k \in 1..n |-> Kept(s, I)[g[k]]]
    BY <1>11, Zenon
<1> QED BY <1>9, <1>12, <1>13

-----------------------------------------------------------------------------
(* Joining *)

\* The partial results of Joined, and that they exist.
JoinedUpTo(ss, n, u) == u = [i \in 0..n |-> IF i = 0 THEN <<>> ELSE u[i - 1] \o ss[i]]

\* Joined goes through its sequences one by one.
LEMMA JoinedSteps ==
    ASSUME NEW T, NEW ss \in Seq(Seq(T))
    PROVE  \E u \in [0..Len(ss) -> Seq(T)] :
            /\ u[0] = <<>> /\ u[Len(ss)] = Joined(ss)
            /\ \A i \in 1..Len(ss) : u[i] = u[i - 1] \o ss[i]
<1> DEFINE l == Len(ss)
           G == {n \in Nat : n <= l => \E u : JoinedUpTo(ss, n, u)}
<1>0. l \in Nat
    BY LenProperties
<1> HIDE DEF l
<1>1. 0 \in G
    <2> DEFINE u == [i \in 0..0 |-> <<>>]
    <2>1. JoinedUpTo(ss, 0, u)
        BY DEF JoinedUpTo
    <2> QED BY <2>1
<1>2. ASSUME NEW n \in Nat, n \in G PROVE n + 1 \in G
    <2> SUFFICES ASSUME n + 1 <= l PROVE \E u : JoinedUpTo(ss, n + 1, u)
        OBVIOUS
    <2>1. PICK u : JoinedUpTo(ss, n, u)
        BY <1>0, <1>2
    <2> DEFINE v == [i \in 0..(n + 1) |-> IF i = n + 1 THEN u[n] \o ss[n + 1] ELSE u[i]]
    <2>2. u = [i \in 0..n |-> IF i = 0 THEN <<>> ELSE u[i - 1] \o ss[i]]
        BY <2>1 DEF JoinedUpTo
    <2>3. ASSUME NEW i \in 0..(n + 1)
          PROVE  v[i] = IF i = 0 THEN <<>> ELSE v[i - 1] \o ss[i]
        <3>1. CASE i = n + 1
            <4>1. i # 0 /\ i - 1 = n /\ n \in 0..(n + 1) /\ n # n + 1
                BY <3>1
            <4>2. v[i] = u[n] \o ss[i]
                BY <3>1
            <4>3. v[n] = u[n]
                BY <4>1
            <4> HIDE DEF v
            <4> QED BY <4>1, <4>2, <4>3
        <3>2. CASE i # n + 1
            <4>1. i \in 0..n /\ v[i] = u[i]
                BY <3>2
            <4>2. i # 0 => v[i - 1] = u[i - 1]
                BY <4>1
            <4>3. u[i] = IF i = 0 THEN <<>> ELSE u[i - 1] \o ss[i]
                BY <2>2, <4>1
            <4> QED BY <4>1, <4>2, <4>3
        <3> QED BY <3>1, <3>2
    <2>4. JoinedUpTo(ss, n + 1, v)
        <3>1. v = [i \in 0..(n + 1) |-> v[i]]
            OBVIOUS
        <3> HIDE DEF v
        <3> QED BY <2>3, <3>1 DEF JoinedUpTo
    <2> QED BY <2>4
<1>3. \E u : JoinedUpTo(ss, l, u)
    <2> HIDE DEF G
    <2>1. l \in G
        BY <1>0, <1>1, <1>2, NumbersFill
    <2> QED BY <1>0, <2>1 DEF G
<1> DEFINE u == CHOOSE f : JoinedUpTo(ss, l, f)
<1>4. JoinedUpTo(ss, l, u)
    BY <1>3
<1>5. Joined(ss) = u[l]
    BY DEF Joined, JoinedUpTo, l
<1> HIDE DEF u
<1>6. /\ u[0] = <<>>
      /\ \A i \in 1..l : u[i] = u[i - 1] \o ss[i]
    <2>1. \A i \in 0..l : u[i] = IF i = 0 THEN <<>> ELSE u[i - 1] \o ss[i]
        BY <1>4 DEF JoinedUpTo
    <2>2. 0 \in 0..l /\ \A i \in 1..l : i \in 0..l /\ i # 0
        BY <1>0
    <2> QED BY <2>1, <2>2
<1> DEFINE H == {n \in Nat : n <= l => u[n] \in Seq(T)}
<1>7. 0 \in H
    BY <1>0, <1>6, EmptySeq
<1>8. ASSUME NEW n \in Nat, n \in H PROVE n + 1 \in H
    <2> SUFFICES ASSUME n + 1 <= l PROVE u[n + 1] \in Seq(T)
        OBVIOUS
    <2>1. u[n] \in Seq(T) /\ n + 1 \in 1..l /\ (n + 1) - 1 = n
        BY <1>0, <1>8
    <2>2. ss[n + 1] \in Seq(T)
        BY <2>1, ElementOfSeq DEF l
    <2>3. u[n + 1] = u[n] \o ss[n + 1]
        BY <1>6, <2>1
    <2> QED BY <2>1, <2>2, <2>3, ConcatProperties
<1>9. \A n \in Nat : n \in H
    <2> HIDE DEF H
    <2> QED BY <1>7, <1>8, NumbersFill
<1>10. u \in [0..l -> Seq(T)]
    <2>1. \A i \in 0..l : u[i] \in Seq(T)
        BY <1>0, <1>9
    <2>2. u = [i \in 0..l |-> u[i]]
        BY <1>4 DEF JoinedUpTo
    <2> QED BY <2>1, <2>2
<1> QED BY <1>5, <1>6, <1>10 DEF l

-----------------------------------------------------------------------------
(* Gathering: what g makes of the elements of a sequence that are in M *)

Where(s, M) == {j \in DOMAIN s : s[j] \in M}

Gather(s, M, g) == [k \in DOMAIN Kept(s, Where(s, M)) |-> g[Kept(s, Where(s, M))[k]]]

\* g is a function from M to P.
Maps(g, M, P) == g \in [M -> P]

\* Element by element: what is kept at place k.
LEMMA KeptAt ==
    ASSUME NEW s, NEW I
    PROVE  /\ DOMAIN Kept(s, I) = 1..Cardinality(I)
           /\ \A k \in 1..Cardinality(I) : Kept(s, I)[k] = s[Ascending(I)[k]]
BY DEF Kept, Ascending

\* What is gathered from a sequence is a sequence; nothing when nothing is in M.
LEMMA GatherForm ==
    ASSUME NEW T, NEW M, NEW P, NEW g, Maps(g, M, P), NEW s \in Seq(T)
    PROVE  /\ Gather(s, M, g) \in Seq(P) /\ Len(Gather(s, M, g)) = Len(Kept(s, Where(s, M)))
           /\ Gather(s, M, g) = <<>> <=> \A j \in DOMAIN s : s[j] \notin M
<1> DEFINE I == Where(s, M)
           t == Kept(s, I)
           r == [k \in DOMAIN t |-> g[t[k]]]
<1>1. I \in SUBSET (DOMAIN s)
    BY DEF Where
<1>2. /\ t \in Seq(T) /\ \A k \in DOMAIN t : \E i \in I : t[k] = s[i]
      /\ I = {} <=> t = <<>>
    BY <1>1, KeptType
<1>3. \A i \in I : s[i] \in M
    BY DEF Where
<1>4. I = {} <=> \A j \in DOMAIN s : s[j] \notin M
    BY DEF Where
<1>5. Gather(s, M, g) = r
    BY DEF Gather
<1> HIDE DEF I, t
<1>6. DOMAIN t = 1..Len(t) /\ Len(t) \in Nat
    BY <1>2, LenProperties
<1>7. r \in [1..Len(t) -> P]
    BY <1>2, <1>3, <1>6 DEF Maps
<1>8. r \in Seq(P) /\ Len(r) = Len(t)
    <2>1. r \in Seq(P) /\ DOMAIN r = 1..Len(t)
        BY <1>6, <1>7, SeqDef
    <2> HIDE DEF r
    <2> QED BY <1>6, <2>1, LenProperties
<1>9. r = <<>> <=> t = <<>>
    <2> HIDE DEF r
    <2> QED BY <1>2, <1>6, <1>8, EmptySeq
<1> HIDE DEF r
<1> QED BY <1>2, <1>4, <1>5, <1>8, <1>9 DEF t, I

\* What is gathered is a sequence.
LEMMA GatherType ==
    ASSUME NEW T, NEW M, NEW P, NEW g, Maps(g, M, P), NEW s \in Seq(T)
    PROVE  Gather(s, M, g) \in Seq(P) /\ Len(Gather(s, M, g)) = Len(Kept(s, Where(s, M)))
<1>1. /\ Gather(s, M, g) \in Seq(P) /\ Len(Gather(s, M, g)) = Len(Kept(s, Where(s, M)))
      /\ Gather(s, M, g) = <<>> <=> \A j \in DOMAIN s : s[j] \notin M
    BY GatherForm
<1> QED BY <1>1

\* Nothing is gathered when nothing is in M, and something when something is.
LEMMA GatherNothing ==
    ASSUME NEW T, NEW M, NEW P, NEW g, Maps(g, M, P), NEW s \in Seq(T)
    PROVE  /\ (\A j \in DOMAIN s : s[j] \notin M) => Gather(s, M, g) = <<>>
           /\ Gather(s, M, g) = <<>> => \A j \in DOMAIN s : s[j] \notin M
<1>1. /\ Gather(s, M, g) \in Seq(P) /\ Len(Gather(s, M, g)) = Len(Kept(s, Where(s, M)))
      /\ Gather(s, M, g) = <<>> <=> \A j \in DOMAIN s : s[j] \notin M
    BY GatherForm
<1> QED BY <1>1

\* Where the elements of a concatenation are in M.
LEMMA WhereConcat ==
    ASSUME NEW T, NEW M, NEW a \in Seq(T), NEW b \in Seq(T)
    PROVE  Where(a \o b, M) = Beside(a, Where(a, M), Where(b, M))
<1> USE DEF Beside
<1> DEFINE I == Where(a, M)
           J == Where(b, M)
           w == a \o b
           l == Len(a)
<1>1. /\ l \in Nat /\ DOMAIN a = 1..l /\ Len(b) \in Nat /\ DOMAIN b = 1..Len(b)
      /\ DOMAIN w = 1..(l + Len(b))
      /\ \A i \in 1..(l + Len(b)) : w[i] = IF i <= l THEN a[i] ELSE b[i - l]
    BY LenProperties, ConcatProperties
<1> HIDE DEF l, w
<1>2. \A i \in Where(w, M) : i \in I \/ \E j \in J : i = l + j
    <2> TAKE i \in Where(w, M)
    <2>1. i \in 1..(l + Len(b)) /\ w[i] \in M
        BY <1>1 DEF Where
    <2>2. CASE i <= l
        BY <1>1, <2>1, <2>2 DEF Where
    <2>3. CASE ~(i <= l)
        <3>1. i - l \in DOMAIN b /\ w[i] = b[i - l] /\ i = l + (i - l)
            BY <1>1, <2>1, <2>3
        <3>2. i - l \in J
            BY <2>1, <3>1 DEF Where
        <3> QED BY <3>1, <3>2
    <2> QED BY <2>2, <2>3
<1>3. \A i \in I : i \in Where(w, M)
    BY <1>1 DEF Where
<1>4. \A j \in J : l + j \in Where(w, M)
    <2> TAKE j \in J
    <2>1. j \in 1..Len(b) /\ b[j] \in M
        BY <1>1 DEF Where
    <2>2. l + j \in 1..(l + Len(b)) /\ ~(l + j <= l) /\ (l + j) - l = j
        BY <1>1, <2>1
    <2>3. l + j \in DOMAIN w /\ w[l + j] = b[j]
        BY <1>1, <2>2
    <2> QED BY <2>1, <2>3 DEF Where
<1> HIDE DEF I, J
<1>5. Where(w, M) = I \cup {l + j : j \in J}
    BY <1>2, <1>3, <1>4
<1> QED BY <1>5 DEF w, I, J, l

\* Keeping what is in M from a concatenation.
LEMMA KeptWhereConcat ==
    ASSUME NEW T, NEW M, NEW a \in Seq(T), NEW b \in Seq(T)
    PROVE  Kept(a \o b, Where(a \o b, M)) = Kept(a, Where(a, M)) \o Kept(b, Where(b, M))
<1> DEFINE I == Where(a, M)
           J == Where(b, M)
<1>1. I \in SUBSET (DOMAIN a) /\ J \in SUBSET (DOMAIN b)
    BY DEF Where
<1>2. Where(a \o b, M) = Beside(a, I, J)
    BY WhereConcat
<1> HIDE DEF I, J
<1>3. Kept(a \o b, Beside(a, I, J)) = Kept(a, I) \o Kept(b, J)
    BY <1>1, KeptConcat
<1> QED BY <1>2, <1>3, Zenon DEF I, J

\* Gathering from a concatenation is gathering from both parts.
LEMMA GatherConcat ==
    ASSUME NEW T, NEW M, NEW P, NEW g, Maps(g, M, P), NEW a \in Seq(T), NEW b \in Seq(T)
    PROVE  Gather(a \o b, M, g) = Gather(a, M, g) \o Gather(b, M, g)
<1> DEFINE ka == Kept(a, Where(a, M))
           kb == Kept(b, Where(b, M))
           both == ka \o kb
           pa == Gather(a, M, g)
           pb == Gather(b, M, g)
           w == pa \o pb
<1>1. Kept(a \o b, Where(a \o b, M)) = both
    BY KeptWhereConcat
<1>2. Gather(a \o b, M, g) = [k \in DOMAIN both |-> g[both[k]]]
    <2> HIDE DEF both
    <2> QED BY <1>1, Zenon DEF Gather
<1>3. pa = [k \in DOMAIN ka |-> g[ka[k]]] /\ pb = [k \in DOMAIN kb |-> g[kb[k]]]
    BY DEF Gather
<1>4. ka \in Seq(T) /\ kb \in Seq(T)
    <2>1. Where(a, M) \in SUBSET (DOMAIN a) /\ Where(b, M) \in SUBSET (DOMAIN b)
        BY DEF Where
    <2> QED BY <2>1, KeptType
<1>5. pa \in Seq(P) /\ Len(pa) = Len(ka) /\ pb \in Seq(P) /\ Len(pb) = Len(kb)
    <2>0. \A s \in Seq(T) : Gather(s, M, g) \in Seq(P) /\ Len(Gather(s, M, g)) = Len(Kept(s, Where(s, M)))
        BY GatherType
    <2>1. pa \in Seq(P) /\ Len(pa) = Len(ka)
        BY <2>0
    <2>2. pb \in Seq(P) /\ Len(pb) = Len(kb)
        BY <2>0
    <2> QED BY <2>1, <2>2
<1> HIDE DEF ka, kb, pa, pb
<1> DEFINE n == Len(ka) + Len(kb)
<1>6. /\ Len(ka) \in Nat /\ DOMAIN ka = 1..Len(ka) /\ Len(kb) \in Nat /\ DOMAIN kb = 1..Len(kb)
      /\ DOMAIN both = 1..n
      /\ \A i \in 1..n : both[i] = IF i <= Len(ka) THEN ka[i] ELSE kb[i - Len(ka)]
    BY <1>4, LenProperties, ConcatProperties
<1>7. /\ DOMAIN w = 1..n /\ w \in [1..n -> P]
      /\ \A i \in 1..n : w[i] = IF i <= Len(ka) THEN pa[i] ELSE pb[i - Len(ka)]
    <2>1. w \in Seq(P) /\ Len(w) = n
        <3>1. w \in Seq(P) /\ Len(w) = Len(pa) + Len(pb)
            BY <1>5, ConcatProperties
        <3> HIDE DEF w
        <3> QED BY <1>5, <3>1
    <2>2. DOMAIN w = 1..n /\ w \in [1..n -> P]
        <3> HIDE DEF w
        <3> QED BY <2>1, LenProperties
    <2>3. \A i \in 1..n : w[i] = IF i <= Len(ka) THEN pa[i] ELSE pb[i - Len(ka)]
        BY <1>5, ConcatProperties
    <2> QED BY <2>2, <2>3
<1> HIDE DEF both, w, n
<1>8. ASSUME NEW i \in 1..n PROVE w[i] = g[both[i]]
    <2>0. i \in Nat /\ i >= 1
        BY <1>6 DEF n
    <2>1. CASE i <= Len(ka)
        <3>1. i \in DOMAIN ka
            BY <1>6, <2>0, <2>1
        <3> QED BY <1>3, <1>6, <1>7, <2>1, <3>1
    <2>2. CASE ~(i <= Len(ka))
        <3>1. i - Len(ka) \in DOMAIN kb
            BY <1>6, <2>0, <2>2 DEF n
        <3> QED BY <1>3, <1>6, <1>7, <2>2, <3>1
    <2> QED BY <2>1, <2>2
<1>9. w = [k \in DOMAIN both |-> g[both[k]]]
    BY <1>6, <1>7, <1>8
<1> QED BY <1>2, <1>9 DEF w, pa, pb

\* Place by place, two rows of sequences yield the same.
Alike(xs, M, g, ys, N, h) ==
    /\ Len(xs) = Len(ys)
    /\ \A i \in 1..Len(xs) : Gather(xs[i], M, g) = Gather(ys[i], N, h)

\* Gathering from sequences in a row: two rows that yield the same at every place
\* yield the same when joined.
LEMMA GatherJoined ==
    ASSUME NEW T, NEW M, NEW P, NEW g, Maps(g, M, P), NEW xs \in Seq(Seq(T)),
           NEW U, NEW N, NEW h, Maps(h, N, P), NEW ys \in Seq(Seq(U)),
           Alike(xs, M, g, ys, N, h)
    PROVE  Gather(Joined(xs), M, g) = Gather(Joined(ys), N, h)
<1>0. Len(xs) = Len(ys) /\ \A i \in 1..Len(xs) : Gather(xs[i], M, g) = Gather(ys[i], N, h)
    BY DEF Alike
<1>1. PICK u \in [0..Len(xs) -> Seq(T)] :
            /\ u[0] = <<>> /\ u[Len(xs)] = Joined(xs)
            /\ \A i \in 1..Len(xs) : u[i] = u[i - 1] \o xs[i]
    BY JoinedSteps
<1>2. PICK v \in [0..Len(ys) -> Seq(U)] :
            /\ v[0] = <<>> /\ v[Len(ys)] = Joined(ys)
            /\ \A i \in 1..Len(ys) : v[i] = v[i - 1] \o ys[i]
    BY JoinedSteps
<1>3. PICK l : l = Len(xs)
    OBVIOUS
<1>4. l \in Nat /\ l = Len(ys)
    BY <1>0, <1>3, LenProperties
<1> DEFINE H == {n \in Nat : n <= l => Gather(u[n], M, g) = Gather(v[n], N, h)}
<1>5. 0 \in H
    <2>1. Gather(<<>>, M, g) = <<>> /\ Gather(<<>>, N, h) = <<>>
        <3>1. <<>> \in Seq(T) /\ <<>> \in Seq(U) /\ DOMAIN <<>> = {}
            BY EmptySeq, LenProperties
        <3>2. \A s \in Seq(T) : (\A j \in DOMAIN s : s[j] \notin M) => Gather(s, M, g) = <<>>
            BY GatherNothing
        <3>3. \A s \in Seq(U) : (\A j \in DOMAIN s : s[j] \notin N) => Gather(s, N, h) = <<>>
            BY GatherNothing
        <3> QED BY <3>1, <3>2, <3>3
    <2>2. Gather(u[0], M, g) = Gather(v[0], N, h)
        BY <1>1, <1>2, <2>1
    <2> QED BY <2>2
<1>6. ASSUME NEW n \in Nat, n \in H PROVE n + 1 \in H
    <2> SUFFICES ASSUME n + 1 <= l PROVE Gather(u[n + 1], M, g) = Gather(v[n + 1], N, h)
        OBVIOUS
    <2>1. n + 1 \in 1..l /\ (n + 1) - 1 = n /\ n \in 0..l
        BY <1>4
    <2>2. u[n] \in Seq(T) /\ v[n] \in Seq(U) /\ xs[n + 1] \in Seq(T) /\ ys[n + 1] \in Seq(U)
        BY <1>1, <1>2, <1>3, <1>4, <2>1, ElementOfSeq
    <2>3. u[n + 1] = u[n] \o xs[n + 1] /\ v[n + 1] = v[n] \o ys[n + 1]
        BY <1>1, <1>2, <1>3, <1>4, <2>1
    <2>4. \A a, b \in Seq(T) : Gather(a \o b, M, g) = Gather(a, M, g) \o Gather(b, M, g)
        BY GatherConcat
    <2>5. \A a, b \in Seq(U) : Gather(a \o b, N, h) = Gather(a, N, h) \o Gather(b, N, h)
        BY GatherConcat
    <2>6. Gather(xs[n + 1], M, g) = Gather(ys[n + 1], N, h)
        BY <1>0, <1>3, <2>1
    <2>7. Gather(u[n], M, g) = Gather(v[n], N, h)
        BY <1>4, <1>6, <2>1
    <2>8. /\ Gather(u[n + 1], M, g) = Gather(u[n], M, g) \o Gather(xs[n + 1], M, g)
          /\ Gather(v[n + 1], N, h) = Gather(v[n], N, h) \o Gather(ys[n + 1], N, h)
        BY <2>2, <2>3, <2>4, <2>5
    <2> QED BY <2>6, <2>7, <2>8
<1>7. l \in H
    <2> HIDE DEF H
    <2> QED BY <1>4, <1>5, <1>6, NumbersFill
<1> QED BY <1>1, <1>2, <1>3, <1>4, <1>7

\* A row of sequences of which only number k may have anything in M.
LEMMA GatherOne ==
    ASSUME NEW T, NEW M, NEW P, NEW g, Maps(g, M, P), NEW xs \in Seq(Seq(T)), NEW k,
           \A i \in 1..Len(xs) : i # k => Gather(xs[i], M, g) = <<>>
    PROVE  Gather(Joined(xs), M, g) = IF k \in 1..Len(xs) THEN Gather(xs[k], M, g) ELSE <<>>
<1>1. PICK u \in [0..Len(xs) -> Seq(T)] :
            /\ u[0] = <<>> /\ u[Len(xs)] = Joined(xs)
            /\ \A i \in 1..Len(xs) : u[i] = u[i - 1] \o xs[i]
    BY JoinedSteps
<1>2. PICK l : l = Len(xs)
    OBVIOUS
<1>3. l \in Nat
    BY <1>2, LenProperties
<1>4. PICK r : r = Gather(xs[k], M, g)
    OBVIOUS
<1>5. k \in 1..l => r \in Seq(P)
    <2> SUFFICES ASSUME k \in 1..l PROVE r \in Seq(P)
        OBVIOUS
    <2>1. xs[k] \in Seq(T)
        BY <1>2, ElementOfSeq
    <2> QED BY <1>4, <2>1, GatherType
<1> DEFINE H == {n \in Nat : n <= l => /\ k \in 1..n => Gather(u[n], M, g) = r
                                       /\ k \notin 1..n => Gather(u[n], M, g) = <<>>}
<1>6. 0 \in H
    <2>1. <<>> \in Seq(T) /\ DOMAIN <<>> = {}
        BY EmptySeq, LenProperties
    <2>2. Gather(<<>>, M, g) = <<>>
        <3>1. \A s \in Seq(T) : (\A j \in DOMAIN s : s[j] \notin M) => Gather(s, M, g) = <<>>
            BY GatherNothing
        <3> QED BY <2>1, <3>1
    <2>3. k \notin 1..0
        OBVIOUS
    <2> QED BY <1>1, <2>2, <2>3
<1>7. ASSUME NEW n \in Nat, n \in H PROVE n + 1 \in H
    <2> SUFFICES ASSUME n + 1 <= l
                 PROVE  /\ k \in 1..(n + 1) => Gather(u[n + 1], M, g) = r
                        /\ k \notin 1..(n + 1) => Gather(u[n + 1], M, g) = <<>>
        OBVIOUS
    <2>1. n + 1 \in 1..l /\ (n + 1) - 1 = n /\ n \in 0..l /\ n <= l
        BY <1>3
    <2>2. u[n] \in Seq(T) /\ xs[n + 1] \in Seq(T) /\ u[n + 1] = u[n] \o xs[n + 1]
        BY <1>1, <1>2, <1>3, <2>1, ElementOfSeq
    <2>3. PICK x, y : x = Gather(u[n], M, g) /\ y = Gather(xs[n + 1], M, g)
        OBVIOUS
    <2>4. Gather(u[n + 1], M, g) = x \o y
        <3>1. \A a, b \in Seq(T) : Gather(a \o b, M, g) = Gather(a, M, g) \o Gather(b, M, g)
            BY GatherConcat
        <3> QED BY <2>2, <2>3, <3>1
    <2>5. x \in Seq(P) /\ y \in Seq(P)
        BY <2>2, <2>3, GatherType
    <2>6. /\ k \in 1..n => x = r
          /\ k \notin 1..n => x = <<>>
        BY <1>7, <2>1, <2>3
    <2>7. /\ k # n + 1 => y = <<>>
          /\ k = n + 1 => y = r
        BY <1>2, <1>4, <2>1, <2>3
    <2>8. x \o <<>> = x /\ <<>> \o y = y
        BY <2>5, ConcatEmptySeq
    <2>9. k \in 1..(n + 1) <=> k \in 1..n \/ k = n + 1
        OBVIOUS
    <2>10. ~(n + 1 \in 1..n)
        OBVIOUS
    <2> QED BY <2>4, <2>6, <2>7, <2>8, <2>9, <2>10
<1>8. l \in H
    <2> HIDE DEF H
    <2> QED BY <1>3, <1>6, <1>7, NumbersFill
<1>9. l <= l
    BY <1>3
<1> QED BY <1>1, <1>2, <1>4, <1>8, <1>9

\* Element by element, two sequences yield the same.
Matched(s, M, g, t, N, h) ==
    /\ Len(s) = Len(t)
    /\ \A i \in 1..Len(s) : (s[i] \in M) = (t[i] \in N) /\ (s[i] \in M => g[s[i]] = h[t[i]])

\* Gathering from a mapped sequence is gathering from the sequence.
LEMMA GatherMapped ==
    ASSUME NEW T, NEW M, NEW P, NEW g, Maps(g, M, P), NEW s \in Seq(T),
           NEW U, NEW N, NEW h, Maps(h, N, P), NEW t \in Seq(U),
           Matched(s, M, g, t, N, h)
    PROVE  Gather(s, M, g) = Gather(t, N, h)
<1>0. /\ Len(s) = Len(t)
      /\ \A i \in 1..Len(s) : (s[i] \in M) = (t[i] \in N) /\ (s[i] \in M => g[s[i]] = h[t[i]])
    BY DEF Matched
<1>1. DOMAIN s = 1..Len(s) /\ DOMAIN t = 1..Len(s) /\ Len(s) \in Nat
    BY <1>0, LenProperties
<1>2. Where(s, M) = Where(t, N) /\ Where(s, M) \in SUBSET (1..Len(s))
    BY <1>0, <1>1 DEF Where
<1>3. PICK I : I = Where(s, M)
    OBVIOUS
<1>4. PICK m, f : m = Cardinality(I) /\ f = Ascending(I)
    OBVIOUS
<1>5. /\ DOMAIN Kept(s, I) = 1..m /\ \A k \in 1..m : Kept(s, I)[k] = s[f[k]]
      /\ DOMAIN Kept(t, I) = 1..m /\ \A k \in 1..m : Kept(t, I)[k] = t[f[k]]
    BY <1>4, KeptAt
<1>6. \A k \in 1..m : f[k] \in I
    BY <1>1, <1>2, <1>3, <1>4, IndicesRise DEF Rising
<1>7. /\ Gather(s, M, g) = [k \in 1..m |-> g[Kept(s, I)[k]]]
      /\ Gather(t, N, h) = [k \in 1..m |-> h[Kept(t, I)[k]]]
    BY <1>2, <1>3, <1>5 DEF Gather
<1>8. ASSUME NEW k \in 1..m PROVE g[Kept(s, I)[k]] = h[Kept(t, I)[k]]
    <2>1. f[k] \in 1..Len(s) /\ s[f[k]] \in M
        BY <1>1, <1>3, <1>6 DEF Where
    <2>2. g[s[f[k]]] = h[t[f[k]]]
        BY <1>0, <2>1
    <2> QED BY <1>5, <2>2
<1> QED BY <1>7, <1>8

\* Gathering from what was kept of a sequence, where M leaves out nothing that is in N.
LEMMA GatherKept ==
    ASSUME NEW T, NEW M, NEW s \in Seq(T), NEW N, NEW P, NEW h, Maps(h, N, P),
           NEW I \in SUBSET (DOMAIN s), \A i \in DOMAIN s : s[i] \in N => i \in I
    PROVE  Gather(Kept(s, I), N, h) = Gather(s, N, h)
<1>1. DOMAIN s = 1..Len(s) /\ Len(s) \in Nat
    BY LenProperties
<1>2. PICK J : J = Where(s, N)
    OBVIOUS
<1>3. PICK K : K = Where(Kept(s, I), N)
    OBVIOUS
<1>4. J \in SUBSET I /\ \A i \in I : i \in J <=> s[i] \in N
    BY <1>2 DEF Where
<1>5. /\ DOMAIN Kept(s, I) = 1..Cardinality(I)
      /\ \A k \in 1..Cardinality(I) : Kept(s, I)[k] = s[Ascending(I)[k]]
    BY KeptAt
<1>6. \A k \in 1..Cardinality(I) : Ascending(I)[k] \in I
    BY <1>1, IndicesRise DEF Rising
<1>7. K \in SUBSET (1..Cardinality(I))
    BY <1>3, <1>5 DEF Where
<1>8. \A k \in 1..Cardinality(I) : k \in K <=> Ascending(I)[k] \in J
    BY <1>3, <1>4, <1>5, <1>6 DEF Where
<1>9. Kept(Kept(s, I), K) = Kept(s, J)
    BY <1>4, <1>7, <1>8, KeptOfKept
<1> QED BY <1>2, <1>3, <1>9 DEF Gather

-----------------------------------------------------------------------------
(* One transcript: what the ledger emits of it, and what the raw reader reads *)

LogItems == [segment : Segments, contract : Contracts, item : Logs]

\* What the ledger emits from a contract's calls of one intent under a name.
Emitting(c, s, n) ==
    {x \in LogItems : x.contract = c /\ x.segment = s /\ x.item.kind = "misc" /\ x.item.name = n}

ItemPart(c, s, n) == [x \in Emitting(c, s, n) |-> x.item.part]

\* The same among the logs of one transcript.
Logging(n) == {l \in Logs : l.kind = "misc" /\ l.name = n}

LogPart(n) == [l \in Logging(n) |-> l.part]

Both == {"guaranteed", "fallible"}

\* The values contractActivity lists, and those it lists under a name.
Entries == [action : Nat, entry : EntryPoints, transcript : Both, name : Names, part : Parts]

Under(n) == {x \in Entries : x.name = n}

EntryPart(n) == [x \in Under(n) |-> x.part]

\* Those it lists of one kind of transcript come from a call that has it.
ListedFrom(t, s, c, which) ==
    {x \in Entries : /\ x.action \in CallsTo(t, s, c) /\ x.transcript = which
                     /\ x.entry = t.intents[s].actions[x.action].entry
                     /\ t.intents[s].actions[x.action][which] # None}

\* Misc logs have a name and a payload.
LEMMA MiscFields == \A l \in Logs : l.kind = "misc" => l.name \in Names /\ l.part \in Parts
BY DEF Logs, MiscLogs

\* The payloads of each of these are payloads.
LEMMA PartMaps ==
    ASSUME NEW c, NEW s, NEW n
    PROVE  /\ Maps(ItemPart(c, s, n), Emitting(c, s, n), Parts)
           /\ Maps(LogPart(n), Logging(n), Parts)
           /\ Maps(EntryPart(n), Under(n), Parts)
<1>1. \A x \in Emitting(c, s, n) : x.item.part \in Parts
    BY MiscFields DEF Emitting, LogItems
<1>2. \A l \in Logging(n) : l.part \in Parts
    BY MiscFields DEF Logging
<1>3. \A x \in Under(n) : x.part \in Parts
    BY DEF Under, Entries
<1> QED BY <1>1, <1>2, <1>3 DEF Maps, ItemPart, LogPart, EntryPart

\* What a transaction's intents hold.
LEMMA ActionTypes ==
    ASSUME NEW t, IsTx(t), NEW s \in DOMAIN t.intents
    PROVE  /\ s \in Segments /\ t.intents[s].actions \in Seq(Actions)
           /\ \A k \in DOMAIN t.intents[s].actions :
                /\ k \in Nat /\ t.intents[s].actions[k].kind \in {"call", "update"}
                /\ t.intents[s].actions[k].contract \in Contracts
                /\ t.intents[s].actions[k].entry \in EntryPoints
                /\ \A which \in Both : t.intents[s].actions[k][which] # None =>
                        t.intents[s].actions[k][which].logs \in Seq(Logs)
<1>1. s \in Segments /\ t.intents[s] \in Intents
    BY DEF IsTx, IsIntentMap
<1>2. PICK a : a = t.intents[s].actions
    OBVIOUS
<1>3. a \in Seq(Actions)
    BY <1>1, <1>2 DEF Intents
<1>4. ASSUME NEW k \in DOMAIN a
      PROVE  /\ k \in Nat /\ a[k].kind \in {"call", "update"} /\ a[k].contract \in Contracts
             /\ a[k].entry \in EntryPoints
             /\ \A which \in Both : a[k][which] # None => a[k][which].logs \in Seq(Logs)
    <2>1. k \in 1..Len(a) /\ Len(a) \in Nat
        BY <1>3, LenProperties
    <2>2. a[k] \in Actions
        BY <1>3, <2>1, ElementOfSeq
    <2>3. a[k].guaranteed \in Transcripts \cup {None} /\ a[k].fallible \in Transcripts \cup {None}
        BY <2>2 DEF Actions
    <2>4. \A which \in Both : a[k][which] # None => a[k][which] \in Transcripts
        BY <2>3 DEF Both
    <2>5. \A x \in Transcripts : x.logs \in Seq(Logs)
        BY DEF Transcripts
    <2>6. k \in Nat
        BY <2>1
    <2>7. a[k].kind \in {"call", "update"} /\ a[k].contract \in Contracts /\ a[k].entry \in EntryPoints
        BY <2>2 DEF Actions
    <2> QED BY <2>4, <2>5, <2>6, <2>7
<1> QED BY <1>1, <1>2, <1>3, <1>4

\* What one transcript logs and emits.
LEMMA ItemsType ==
    ASSUME NEW t, IsTx(t), NEW s \in DOMAIN t.intents, NEW k \in DOMAIN t.intents[s].actions,
           NEW which \in Both
    PROVE  Items(t, s, k, which) \in Seq(LogItems)
<1> DEFINE a == t.intents[s].actions[k]
           logs == a[which].logs
<1>1. CASE a.kind # "call" \/ a[which] = None
    <2>1. Items(t, s, k, which) = <<>>
        BY <1>1 DEF Items
    <2> QED BY <2>1, EmptySeq
<1>2. CASE ~(a.kind # "call" \/ a[which] = None)
    <2> DEFINE r == [j \in DOMAIN logs |-> [segment |-> s, contract |-> a.contract, item |-> logs[j]]]
    <2>1. Items(t, s, k, which) = r
        BY <1>2 DEF Items
    <2>2. s \in Segments /\ a.contract \in Contracts /\ logs \in Seq(Logs)
        BY <1>2, ActionTypes
    <2> HIDE DEF a, logs
    <2>3. DOMAIN logs = 1..Len(logs) /\ Len(logs) \in Nat /\ \A j \in DOMAIN logs : logs[j] \in Logs
        BY <2>2, LenProperties, ElementOfSeq
    <2>4. r \in [1..Len(logs) -> LogItems]
        BY <2>2, <2>3 DEF LogItems
    <2>5. r \in Seq(LogItems)
        BY <2>3, <2>4, SeqDef
    <2> QED BY <2>1, <2>5
<1> QED BY <1>1, <1>2

\* The readable logs of a transcript are some of its logs, and all of its Misc logs when
\* all of them can be read.
LEMMA ReadableIsKept ==
    ASSUME NEW x, x # None, x.logs \in Seq(Logs)
    PROVE  \E I \in SUBSET (DOMAIN x.logs) :
            /\ Readable(x) = Kept(x.logs, I)
            /\ \A j \in I : x.logs[j].kind = "misc"
            /\ (\A j \in DOMAIN x.logs : x.logs[j].kind \notin {"garbled", "misshaped"})
                    => \A j \in DOMAIN x.logs : x.logs[j].kind = "misc" => j \in I
<1> DEFINE I == Legible(x.logs)
<1>1. /\ Readable(x) = Kept(x.logs, I)
      /\ I \subseteq DOMAIN x.logs /\ \A j \in I : x.logs[j].kind = "misc"
    BY DEF Readable, Legible
<1>2. ASSUME \A j \in DOMAIN x.logs : x.logs[j].kind \notin {"garbled", "misshaped"},
             NEW j \in DOMAIN x.logs, x.logs[j].kind = "misc"
      PROVE  j \in I
    <2>1. DOMAIN x.logs = 1..Len(x.logs) /\ Len(x.logs) \in Nat
        BY LenProperties
    <2>2. \A i \in 1..j : i \in DOMAIN x.logs
        BY <2>1
    <2>3. \A i \in DOMAIN x.logs : x.logs[i].kind # "garbled" /\ x.logs[i].kind # "misshaped"
        BY <1>2
    <2> QED BY <1>2, <2>2, <2>3 DEF Legible
<1> QED BY <1>1, <1>2

\* The listed values of one call come from it.
LEMMA PartsOfType ==
    ASSUME NEW t, IsTx(t), NEW s \in DOMAIN t.intents, NEW c, NEW k \in CallsTo(t, s, c), NEW which \in Both
    PROVE  PartsOf(t, s, k, which) \in Seq(ListedFrom(t, s, c, which))
<1> DEFINE a == t.intents[s].actions[k]
           logs == Readable(a[which])
           r == [j \in DOMAIN logs |-> [action |-> k, entry |-> a.entry, transcript |-> which,
                                        name |-> logs[j].name, part |-> logs[j].part]]
<1>1. PartsOf(t, s, k, which) = r
    BY DEF PartsOf
<1>2. CASE a[which] = None
    <2>1. logs = <<>>
        BY <1>2 DEF Readable
    <2>2. DOMAIN logs = {}
        BY <2>1, EmptySeq, LenProperties
    <2>3. r = <<>>
        <3>1. r = [j \in {} |-> 0]
            BY <2>2
        <3> QED BY <3>1
    <2> QED BY <1>1, <2>3, EmptySeq
<1>3. CASE a[which] # None
    <2>1. k \in DOMAIN t.intents[s].actions
        BY DEF CallsTo
    <2>2. k \in Nat /\ a.entry \in EntryPoints /\ a[which].logs \in Seq(Logs)
        BY <1>3, <2>1, ActionTypes
    <2>3. PICK w : w = a[which].logs
        OBVIOUS
    <2>4. PICK I \in SUBSET (DOMAIN w) : logs = Kept(w, I) /\ \A j \in I : w[j].kind = "misc"
        BY <1>3, <2>2, <2>3, ReadableIsKept
    <2>5. w \in Seq(Logs)
        BY <2>2, <2>3
    <2>6. /\ logs \in Seq(Logs)
          /\ \A j \in DOMAIN logs : \E i \in I : logs[j] = w[i]
        <3>1. /\ Kept(w, I) \in Seq(Logs)
              /\ \A j \in DOMAIN Kept(w, I) : \E i \in I : Kept(w, I)[j] = w[i]
            BY <2>5, KeptType
        <3> HIDE DEF logs
        <3> QED BY <2>4, <3>1
    <2>7. \A j \in DOMAIN logs : logs[j].name \in Names /\ logs[j].part \in Parts
        <3> HIDE DEF logs
        <3>1. DOMAIN w = 1..Len(w) /\ \A i \in DOMAIN w : w[i] \in Logs
            BY <2>5, LenProperties, ElementOfSeq
        <3> QED BY <2>4, <2>6, <3>1, MiscFields
    <2> HIDE DEF logs
    <2>8. DOMAIN logs = 1..Len(logs) /\ Len(logs) \in Nat
        BY <2>6, LenProperties
    <2>9. ASSUME NEW j \in DOMAIN logs PROVE r[j] \in ListedFrom(t, s, c, which)
        <3>1. r[j] \in Entries
            BY <2>2, <2>7, <2>9 DEF Entries
        <3>2. /\ r[j].action = k /\ r[j].transcript = which /\ r[j].entry = a.entry
            BY <2>9
        <3> HIDE DEF r
        <3> QED BY <1>3, <3>1, <3>2 DEF ListedFrom
    <2>10. r \in [1..Len(logs) -> ListedFrom(t, s, c, which)]
        BY <2>8, <2>9
    <2>11. r \in Seq(ListedFrom(t, s, c, which))
        BY <2>8, <2>10, SeqDef
    <2> QED BY <1>1, <2>11
<1> QED BY <1>2, <1>3

\* Of the readable calls of an intent, what is listed under a name is what is emitted.
LEMMA CallGather ==
    ASSUME NEW t, IsTx(t), NEW s \in DOMAIN t.intents, NEW c, NEW n, ~Unreadable(t, s, c),
           NEW k \in DOMAIN t.intents[s].actions, NEW which \in Both
    PROVE  Gather(Items(t, s, k, which), Emitting(c, s, n), ItemPart(c, s, n))
            = Gather(IF k \in CallsTo(t, s, c) THEN PartsOf(t, s, k, which) ELSE <<>>, Under(n), EntryPart(n))
<1> DEFINE a == t.intents[s].actions[k]
           logs == a[which].logs
           its == Items(t, s, k, which)
           M == Emitting(c, s, n)
           g == ItemPart(c, s, n)
           listed == IF k \in CallsTo(t, s, c) THEN PartsOf(t, s, k, which) ELSE <<>>
<1>1. /\ Maps(g, M, Parts) /\ Maps(EntryPart(n), Under(n), Parts)
      /\ Maps(LogPart(n), Logging(n), Parts)
    BY PartMaps
<1>2. its \in Seq(LogItems)
    BY ItemsType
<1>3. DOMAIN <<>> = {} /\ <<>> \in Seq(Entries) /\ <<>> \in Seq(LogItems)
    BY EmptySeq, LenProperties
<1>4. Gather(<<>>, Under(n), EntryPart(n)) = <<>> /\ Gather(<<>>, M, g) = <<>>
    <2>1. \A x \in Seq(Entries) : (\A j \in DOMAIN x : x[j] \notin Under(n)) => Gather(x, Under(n), EntryPart(n)) = <<>>
        BY <1>1, GatherNothing
    <2>2. \A x \in Seq(LogItems) : (\A j \in DOMAIN x : x[j] \notin M) => Gather(x, M, g) = <<>>
        BY <1>1, GatherNothing
    <2> QED BY <1>3, <2>1, <2>2
<1>5. CASE a.kind # "call" \/ a[which] = None
    <2>1. its = <<>>
        BY <1>5 DEF Items
    <2>2. listed = <<>>
        <3>1. CASE a.kind # "call"
            <4>1. k \notin CallsTo(t, s, c)
                BY <3>1 DEF CallsTo
            <4> QED BY <4>1
        <3>2. CASE a[which] = None
            <4>1. Readable(a[which]) = <<>>
                BY <3>2 DEF Readable
            <4>2. PartsOf(t, s, k, which) = [j \in {} |-> 0]
                BY <1>3, <4>1 DEF PartsOf
            <4> QED BY <4>2
        <3> QED BY <1>5, <3>1, <3>2
    <2> QED BY <1>4, <2>1, <2>2
<1>6. CASE a.kind = "call" /\ a[which] # None /\ a.contract # c
    <2>1. listed = <<>>
        BY <1>6 DEF CallsTo
    <2>2. \A j \in DOMAIN its : its[j] \notin M
        BY <1>6 DEF Items, Emitting
    <2>3. Gather(its, M, g) = <<>>
        BY <1>1, <1>2, <2>2, GatherNothing
    <2> QED BY <1>4, <2>1, <2>3
<1>7. CASE a.kind = "call" /\ a[which] # None /\ a.contract = c
    <2>1. k \in CallsTo(t, s, c) /\ listed = PartsOf(t, s, k, which)
        BY <1>7 DEF CallsTo
    <2>2. logs \in Seq(Logs) /\ s \in Segments /\ c \in Contracts
        BY <1>7, ActionTypes
    <2>3. \A j \in DOMAIN logs : logs[j].kind \notin {"garbled", "misshaped"}
        BY <1>7, <2>1 DEF Unreadable, Both
    <2>4. PICK w : w = logs
        OBVIOUS
    <2>5. PICK I \in SUBSET (DOMAIN w) :
            /\ Readable(a[which]) = Kept(w, I) /\ \A j \in I : w[j].kind = "misc"
            /\ \A j \in DOMAIN w : w[j].kind = "misc" => j \in I
        BY <1>7, <2>2, <2>3, <2>4, ReadableIsKept
    <2>6. w \in Seq(Logs) /\ DOMAIN w = 1..Len(w) /\ Len(w) \in Nat /\ \A j \in DOMAIN w : w[j] \in Logs
        BY <2>2, <2>4, LenProperties, ElementOfSeq
    <2>7. Gather(its, M, g) = Gather(w, Logging(n), LogPart(n))
        <3>1. its = [j \in DOMAIN w |-> [segment |-> s, contract |-> c, item |-> w[j]]]
            BY <1>7, <2>4 DEF Items
        <3>2. DOMAIN its = DOMAIN w
            BY <3>1
        <3>3. Len(its) = Len(w)
            BY <1>2, <2>6, <3>2, LenProperties
        <3>4. ASSUME NEW i \in 1..Len(its)
              PROVE  (its[i] \in M) = (w[i] \in Logging(n)) /\ (its[i] \in M => g[its[i]] = LogPart(n)[w[i]])
            <4>1. i \in DOMAIN w /\ w[i] \in Logs
                BY <2>6, <3>3
            <4>2. /\ its[i] = [segment |-> s, contract |-> c, item |-> w[i]]
                  /\ its[i].segment = s /\ its[i].contract = c /\ its[i].item = w[i]
                BY <3>1, <4>1
            <4>3. its[i] \in LogItems
                BY <2>2, <4>1, <4>2 DEF LogItems
            <4>4. its[i] \in M <=> w[i] \in Logging(n)
                BY <4>1, <4>2, <4>3 DEF Emitting, Logging
            <4>5. its[i] \in M => g[its[i]] = w[i].part
                BY <4>2 DEF ItemPart
            <4>6. w[i] \in Logging(n) => LogPart(n)[w[i]] = w[i].part
                BY DEF LogPart
            <4> QED BY <4>4, <4>5, <4>6
        <3>5. w \in Seq(Logs) /\ Maps(g, M, Parts) /\ Maps(LogPart(n), Logging(n), Parts)
            BY <1>1, <2>6
        <3> HIDE DEF M, g, its
        <3>6. Matched(its, M, g, w, Logging(n), LogPart(n))
            BY <3>3, <3>4 DEF Matched
        <3> QED BY <1>2, <3>5, <3>6, GatherMapped
    <2>8. Gather(Kept(w, I), Logging(n), LogPart(n)) = Gather(w, Logging(n), LogPart(n))
        <3>1. \A i \in DOMAIN w : w[i] \in Logging(n) => i \in I
            BY <2>5 DEF Logging
        <3> QED BY <1>1, <2>6, <3>1, GatherKept
    <2>9. PICK v : v = Kept(w, I)
        OBVIOUS
    <2>10. v \in Seq(Logs) /\ \A j \in DOMAIN v : \E i \in I : v[j] = w[i]
        BY <2>6, <2>9, KeptType
    <2>11. DOMAIN v = 1..Len(v) /\ Len(v) \in Nat
        BY <2>10, LenProperties
    <2>12. listed = [j \in DOMAIN v |-> [action |-> k, entry |-> a.entry, transcript |-> which,
                                         name |-> v[j].name, part |-> v[j].part]]
        BY <2>1, <2>5, <2>9 DEF PartsOf
    <2>13. listed \in Seq(Entries)
        <3>1. ListedFrom(t, s, c, which) \subseteq Entries
            BY DEF ListedFrom
        <3>2. listed \in Seq(ListedFrom(t, s, c, which))
            BY <2>1, PartsOfType
        <3> QED BY <3>1, <3>2
    <2>14. Gather(v, Logging(n), LogPart(n)) = Gather(listed, Under(n), EntryPart(n))
        <3> HIDE DEF listed
        <3>1. DOMAIN listed = DOMAIN v
            BY <2>12
        <3>2. Len(listed) = Len(v)
            BY <2>11, <2>13, <3>1, LenProperties
        <3>3. ASSUME NEW i \in 1..Len(v)
              PROVE  /\ (v[i] \in Logging(n)) = (listed[i] \in Under(n))
                     /\ v[i] \in Logging(n) => LogPart(n)[v[i]] = EntryPart(n)[listed[i]]
            <4>1. i \in DOMAIN v
                BY <2>11
            <4>2. listed[i].name = v[i].name /\ listed[i].part = v[i].part
                BY <2>12, <4>1
            <4>3. v[i] \in Logs /\ v[i].kind = "misc"
                BY <2>5, <2>6, <2>10, <4>1
            <4>4. listed[i] \in Entries
                BY <2>13, <3>2, <4>1, ElementOfSeq
            <4>5. v[i] \in Logging(n) <=> listed[i] \in Under(n)
                BY <4>2, <4>3, <4>4 DEF Logging, Under
            <4>6. v[i] \in Logging(n) => LogPart(n)[v[i]] = v[i].part
                BY DEF LogPart
            <4>7. listed[i] \in Under(n) => EntryPart(n)[listed[i]] = v[i].part
                BY <4>2 DEF EntryPart
            <4> QED BY <4>5, <4>6, <4>7
        <3>4. Matched(v, Logging(n), LogPart(n), listed, Under(n), EntryPart(n))
            BY <3>2, <3>3 DEF Matched
        <3> QED BY <1>1, <2>10, <2>13, <3>4, GatherMapped
    <2>15. Gather(its, M, g) = Gather(listed, Under(n), EntryPart(n))
        <3> HIDE DEF its, listed, M, g
        <3> QED BY <2>7, <2>8, <2>9, <2>14
    <2> QED BY <2>15
<1> QED BY <1>5, <1>6, <1>7

-----------------------------------------------------------------------------
(* One intent *)

\* What an intent's transcripts of one kind emit, and what is listed of them.
Emits(t, s, which) == Joined([k \in DOMAIN t.intents[s].actions |-> Items(t, s, k, which)])

Lists(t, s, c, which) ==
    Joined([k \in DOMAIN t.intents[s].actions |->
                IF k \in CallsTo(t, s, c) THEN PartsOf(t, s, k, which) ELSE <<>>])

\* Joining sequences over T gives one over T.
LEMMA JoinedType == ASSUME NEW T, NEW ss \in Seq(Seq(T)) PROVE Joined(ss) \in Seq(T)
<1>1. Len(ss) \in Nat
    BY LenProperties
<1>2. PICK u \in [0..Len(ss) -> Seq(T)] :
            /\ u[0] = <<>> /\ u[Len(ss)] = Joined(ss)
            /\ \A i \in 1..Len(ss) : u[i] = u[i - 1] \o ss[i]
    BY JoinedSteps
<1>3. Len(ss) \in 0..Len(ss)
    BY <1>1
<1> QED BY <1>2, <1>3

\* Both are sequences, the second of values listed from calls.
LEMMA IntentRows ==
    ASSUME NEW t, IsTx(t), NEW s \in DOMAIN t.intents, NEW c, NEW which \in Both,
           NEW l, l = Len(t.intents[s].actions),
           NEW its, its = [k \in DOMAIN t.intents[s].actions |-> Items(t, s, k, which)],
           NEW listed, listed = [k \in DOMAIN t.intents[s].actions |->
                                    IF k \in CallsTo(t, s, c) THEN PartsOf(t, s, k, which) ELSE <<>>]
    PROVE  /\ l \in Nat /\ DOMAIN t.intents[s].actions = 1..l
           /\ its \in Seq(Seq(LogItems)) /\ Len(its) = l
           /\ listed \in Seq(Seq(ListedFrom(t, s, c, which))) /\ Len(listed) = l
<1>1. l \in Nat /\ DOMAIN t.intents[s].actions = 1..l
    BY ActionTypes, LenProperties
<1>2. its \in [1..l -> Seq(LogItems)]
    BY <1>1, ItemsType
<1>3. listed \in [1..l -> Seq(ListedFrom(t, s, c, which))]
    <2>1. <<>> \in Seq(ListedFrom(t, s, c, which))
        BY EmptySeq
    <2>2. \A k \in CallsTo(t, s, c) : PartsOf(t, s, k, which) \in Seq(ListedFrom(t, s, c, which))
        BY PartsOfType
    <2> QED BY <1>1, <2>1, <2>2
<1>4. its \in Seq(Seq(LogItems)) /\ listed \in Seq(Seq(ListedFrom(t, s, c, which)))
    BY <1>1, <1>2, <1>3, SeqDef
<1>5. DOMAIN its = 1..l /\ DOMAIN listed = 1..l
    BY <1>2, <1>3
<1> QED BY <1>1, <1>4, <1>5, LenProperties

\* What an intent emits and what is listed of it are sequences.
LEMMA IntentTypes ==
    ASSUME NEW t, IsTx(t), NEW s \in DOMAIN t.intents, NEW c, NEW which \in Both
    PROVE  /\ Emits(t, s, which) \in Seq(LogItems)
           /\ Lists(t, s, c, which) \in Seq(ListedFrom(t, s, c, which))
           /\ Lists(t, s, c, which) \in Seq(Entries)
<1>1. PICK its : its = [k \in DOMAIN t.intents[s].actions |-> Items(t, s, k, which)]
    OBVIOUS
<1>2. PICK listed : listed = [k \in DOMAIN t.intents[s].actions |->
                                IF k \in CallsTo(t, s, c) THEN PartsOf(t, s, k, which) ELSE <<>>]
    OBVIOUS
<1>3. its \in Seq(Seq(LogItems)) /\ listed \in Seq(Seq(ListedFrom(t, s, c, which)))
    BY <1>1, <1>2, IntentRows
<1>4. Joined(its) \in Seq(LogItems) /\ Joined(listed) \in Seq(ListedFrom(t, s, c, which))
    BY <1>3, JoinedType
<1>5. Emits(t, s, which) = Joined(its) /\ Lists(t, s, c, which) = Joined(listed)
    BY <1>1, <1>2 DEF Emits, Lists
<1>6. ListedFrom(t, s, c, which) \subseteq Entries
    BY DEF ListedFrom
<1>7. \A x : x \in Seq(ListedFrom(t, s, c, which)) => x \in Seq(Entries)
    BY <1>6
<1> QED BY <1>4, <1>5, <1>7

\* What is listed of a readable intent under a name is what it emits under it.
LEMMA IntentGather ==
    ASSUME NEW t, IsTx(t), NEW s \in DOMAIN t.intents, NEW c, NEW n, ~Unreadable(t, s, c), NEW which \in Both
    PROVE  Gather(Emits(t, s, which), Emitting(c, s, n), ItemPart(c, s, n))
            = Gather(Lists(t, s, c, which), Under(n), EntryPart(n))
<1>1. PICK its : its = [k \in DOMAIN t.intents[s].actions |-> Items(t, s, k, which)]
    OBVIOUS
<1>2. PICK listed : listed = [k \in DOMAIN t.intents[s].actions |->
                                IF k \in CallsTo(t, s, c) THEN PartsOf(t, s, k, which) ELSE <<>>]
    OBVIOUS
<1>3. PICK l : l = Len(t.intents[s].actions)
    OBVIOUS
<1>4. /\ l \in Nat /\ DOMAIN t.intents[s].actions = 1..l
      /\ its \in Seq(Seq(LogItems)) /\ Len(its) = l
      /\ listed \in Seq(Seq(ListedFrom(t, s, c, which))) /\ Len(listed) = l
    BY <1>1, <1>2, <1>3, IntentRows
<1>5. listed \in Seq(Seq(Entries))
    <2>1. ListedFrom(t, s, c, which) \subseteq Entries
        BY DEF ListedFrom
    <2>2. \A x : x \in Seq(ListedFrom(t, s, c, which)) => x \in Seq(Entries)
        BY <2>1
    <2> QED BY <1>4, <2>2
<1>6. PICK M, g, N, h : M = Emitting(c, s, n) /\ g = ItemPart(c, s, n) /\ N = Under(n) /\ h = EntryPart(n)
    OBVIOUS
<1>7. Maps(g, M, Parts) /\ Maps(h, N, Parts)
    BY <1>6, PartMaps
<1>8. ASSUME NEW i \in 1..Len(its) PROVE Gather(its[i], M, g) = Gather(listed[i], N, h)
    <2>1. i \in DOMAIN t.intents[s].actions
        BY <1>4
    <2>2. its[i] = Items(t, s, i, which)
        BY <1>1, <2>1
    <2>3. listed[i] = IF i \in CallsTo(t, s, c) THEN PartsOf(t, s, i, which) ELSE <<>>
        BY <1>2, <2>1
    <2> QED BY <1>6, <2>1, <2>2, <2>3, CallGather
<1>9. Gather(Joined(its), M, g) = Gather(Joined(listed), N, h)
    <2>1. its \in Seq(Seq(LogItems)) /\ Len(its) = Len(listed)
        BY <1>4
    <2>2. Alike(its, M, g, listed, N, h)
        BY <1>8, <2>1 DEF Alike
    <2> QED BY <1>5, <1>7, <2>1, <2>2, GatherJoined
<1> QED BY <1>1, <1>2, <1>6, <1>9 DEF Emits, Lists

\* Of a phase, what is emitted by one intent's contract calls under a name comes from
\* that intent.
LEMMA PhaseGather ==
    ASSUME NEW t, IsTx(t), NEW segments \in SUBSET (DOMAIN t.intents), NEW which \in Both,
           NEW c, NEW s \in Segments, NEW n
    PROVE  /\ Phase(t, segments, which) \in Seq(LogItems)
           /\ Gather(Phase(t, segments, which), Emitting(c, s, n), ItemPart(c, s, n))
                = IF s \in segments THEN Gather(Emits(t, s, which), Emitting(c, s, n), ItemPart(c, s, n)) ELSE <<>>
<1>1. PICK xs : xs = [x \in Segments |-> IF x \in segments THEN Emits(t, x, which) ELSE <<>>]
    OBVIOUS
<1>2. Phase(t, segments, which) = Joined(xs)
    BY <1>1 DEF Phase, Emits
<1>3. <<>> \in Seq(LogItems) /\ DOMAIN <<>> = {}
    BY EmptySeq, LenProperties
<1>4. xs \in [Segments -> Seq(LogItems)]
    BY <1>1, <1>3, IntentTypes
<1>5. Segments = 1..MaxSegment /\ MaxSegment \in Nat
    BY SegmentAssumption DEF Segments
<1>6. xs \in Seq(Seq(LogItems)) /\ Len(xs) = MaxSegment
    <2>1. xs \in Seq(Seq(LogItems)) /\ DOMAIN xs = 1..MaxSegment
        BY <1>4, <1>5, SeqDef
    <2> QED BY <1>5, <2>1, LenProperties
<1>7. PICK M, g : M = Emitting(c, s, n) /\ g = ItemPart(c, s, n)
    OBVIOUS
<1>8. Maps(g, M, Parts)
    BY <1>7, PartMaps
<1>9. Gather(<<>>, M, g) = <<>>
    <2>1. \A x \in Seq(LogItems) : (\A j \in DOMAIN x : x[j] \notin M) => Gather(x, M, g) = <<>>
        BY <1>8, GatherNothing
    <2> QED BY <1>3, <2>1
<1>10. ASSUME NEW i \in 1..Len(xs), i # s PROVE Gather(xs[i], M, g) = <<>>
    <2>1. CASE i \in segments
        <3>1. i \in DOMAIN t.intents /\ xs[i] = Emits(t, i, which)
            BY <1>1, <1>5, <1>6, <2>1
        <3>2. PICK its : its = [k \in DOMAIN t.intents[i].actions |-> Items(t, i, k, which)]
            OBVIOUS
        <3>3. its \in Seq(Seq(LogItems))
            <4>1. PICK a : a = t.intents[i].actions
                OBVIOUS
            <4>2. a \in Seq(Actions)
                BY <3>1, <4>1, ActionTypes
            <4>3. DOMAIN a = 1..Len(a) /\ Len(a) \in Nat
                BY <4>2, LenProperties
            <4>4. its \in [1..Len(a) -> Seq(LogItems)]
                BY <3>1, <3>2, <4>1, <4>3, ItemsType
            <4> QED BY <4>3, <4>4, SeqDef
        <3>4. ASSUME NEW k \in 1..Len(its) PROVE its[k] \in Seq({x \in LogItems : x.segment = i})
            <4>1. k \in DOMAIN its /\ its[k] \in Seq(LogItems)
                BY <3>3, <3>4, LenProperties, ElementOfSeq
            <4>2. k \in DOMAIN t.intents[i].actions /\ its[k] = Items(t, i, k, which)
                BY <3>2, <4>1
            <4>3. \A j \in DOMAIN its[k] : its[k][j].segment = i
                <5>1. PICK y : y = its[k]
                    OBVIOUS
                <5>2. CASE y = <<>>
                    BY <1>3, <5>1, <5>2
                <5>3. CASE y # <<>>
                    <6>1. PICK a, w : a = t.intents[i].actions[k].contract
                                      /\ w = t.intents[i].actions[k][which].logs
                        OBVIOUS
                    <6>2. y = [j \in DOMAIN w |-> [segment |-> i, contract |-> a, item |-> w[j]]]
                        BY <4>2, <5>1, <5>3, <6>1 DEF Items
                    <6> QED BY <5>1, <6>2
                <5> QED BY <5>2, <5>3
            <4>4. DOMAIN its[k] = 1..Len(its[k]) /\ Len(its[k]) \in Nat
                BY <4>1, LenProperties
            <4>5. \A j \in 1..Len(its[k]) : its[k][j] \in {x \in LogItems : x.segment = i}
                BY <4>1, <4>3, <4>4, ElementOfSeq
            <4>6. its[k] \in [1..Len(its[k]) -> {x \in LogItems : x.segment = i}]
                <5>1. its[k] \in [1..Len(its[k]) -> LogItems]
                    BY <4>1, LenProperties
                <5> QED BY <4>5, <5>1
            <4> QED BY <4>4, <4>6, SeqDef
        <3>5. its \in Seq(Seq({x \in LogItems : x.segment = i}))
            <4>1. DOMAIN its = 1..Len(its) /\ Len(its) \in Nat /\ its \in [1..Len(its) -> Seq(LogItems)]
                BY <3>3, LenProperties
            <4>2. its \in [1..Len(its) -> Seq({x \in LogItems : x.segment = i})]
                BY <3>4, <4>1
            <4> QED BY <4>1, <4>2, SeqDef
        <3>6. PICK T : T = {x \in LogItems : x.segment = i}
            OBVIOUS
        <3>7. xs[i] \in Seq(T)
            <4>1. Joined(its) \in Seq(T)
                BY <3>5, <3>6, JoinedType
            <4> QED BY <3>1, <3>2, <4>1 DEF Emits
        <3>8. \A j \in DOMAIN xs[i] : xs[i][j] \notin M
            <4>1. \A j \in DOMAIN xs[i] : xs[i][j] \in T
                BY <3>7, LenProperties, ElementOfSeq
            <4> QED BY <1>7, <1>10, <3>6, <4>1 DEF Emitting
        <3> QED BY <1>8, <3>7, <3>8, GatherNothing
    <2>2. CASE i \notin segments
        <3>1. xs[i] = <<>>
            BY <1>1, <1>5, <1>6, <2>2
        <3> QED BY <1>9, <3>1
    <2> QED BY <2>1, <2>2
<1>11. Gather(Joined(xs), M, g) = IF s \in 1..Len(xs) THEN Gather(xs[s], M, g) ELSE <<>>
    BY <1>6, <1>8, <1>10, GatherOne
<1>12. s \in 1..Len(xs) /\ xs[s] = IF s \in segments THEN Emits(t, s, which) ELSE <<>>
    BY <1>1, <1>5, <1>6
<1>13. Joined(xs) \in Seq(LogItems)
    BY <1>6, JoinedType
<1> QED BY <1>2, <1>7, <1>9, <1>11, <1>12, <1>13

-----------------------------------------------------------------------------
(* What the ledger emits *)

\* The events of one group, and their payloads.
OfGroup(k) == {e \in Events : GroupKey(e) = k}

EventPart(k) == [e \in OfGroup(k) |-> e.value.part]

Group(net, c, n, h, s) == [network |-> net, contract |-> c, name |-> n, hash |-> h, segment |-> s]

\* Everything a transaction's transcripts emit.
AllItems(t, succeeded) == Phase(t, DOMAIN t.intents, "guaranteed") \o Phase(t, succeeded, "fallible")

\* The payloads of a group's events are payloads.
LEMMA EventPartMaps == ASSUME NEW k PROVE Maps(EventPart(k), OfGroup(k), Parts)
<1>1. \A e \in OfGroup(k) : e.value.part \in Parts
    BY DEF OfGroup, Events, Values
<1> QED BY <1>1 DEF Maps, EventPart

\* Every emitted event is one Misc item, numbered by where it stands.
LEMMA EmissionsAre ==
    ASSUME NEW t, IsTx(t), NEW succeeded \in SUBSET (DOMAIN t.intents), NEW net, NEW h, NEW from,
           NEW all, all = AllItems(t, succeeded),
           NEW J, J = {j \in DOMAIN all : all[j].item.kind = "misc"}
    PROVE  /\ all \in Seq(LogItems) /\ J \in SUBSET (DOMAIN all)
           /\ Cardinality(J) \in Nat /\ Rising(Ascending(J), Cardinality(J), J)
           /\ DOMAIN Emissions(t, succeeded, net, h, from) = 1..Cardinality(J)
           /\ \A n \in 1..Cardinality(J) :
                LET x == all[Ascending(J)[n]] IN
                /\ x \in LogItems /\ x.item.kind = "misc" /\ x.item.name \in Names /\ x.item.part \in Parts
                /\ Emissions(t, succeeded, net, h, from)[n]
                    = Event(net, x.contract, h, x.segment, from + Ascending(J)[n], Value(x.item.name, x.item.part))
<1>1. all \in Seq(LogItems)
    <2>1. "guaranteed" \in Both /\ "fallible" \in Both
        BY DEF Both
    <2>2. DOMAIN t.intents \in SUBSET (DOMAIN t.intents)
        OBVIOUS
    <2>3. 1 \in Segments
        BY SegmentAssumption DEF Segments
    <2>4. \A segments \in SUBSET (DOMAIN t.intents), which \in Both : Phase(t, segments, which) \in Seq(LogItems)
        BY <2>3, PhaseGather
    <2>5. /\ Phase(t, DOMAIN t.intents, "guaranteed") \in Seq(LogItems)
          /\ Phase(t, succeeded, "fallible") \in Seq(LogItems)
        BY <2>1, <2>2, <2>4
    <2> QED BY <2>5, ConcatProperties DEF AllItems
<1>2. DOMAIN all = 1..Len(all) /\ Len(all) \in Nat /\ \A j \in DOMAIN all : all[j] \in LogItems
    BY <1>1, LenProperties, ElementOfSeq
<1>3. J \in SUBSET (DOMAIN all) /\ J \in SUBSET (1..Len(all))
    BY <1>2
<1>4. Cardinality(J) \in Nat /\ Rising(Ascending(J), Cardinality(J), J)
    BY <1>2, <1>3, IndicesRise
<1>5. DOMAIN Ascending(J) = 1..Cardinality(J)
    BY DEF Ascending
<1>6. Emissions(t, succeeded, net, h, from) = [n \in 1..Cardinality(J) |->
            Event(net, all[Ascending(J)[n]].contract, h, all[Ascending(J)[n]].segment, from + Ascending(J)[n],
                  Value(all[Ascending(J)[n]].item.name, all[Ascending(J)[n]].item.part))]
    BY <1>5 DEF Emissions, AllItems
<1>7. \A n \in 1..Cardinality(J) : Ascending(J)[n] \in J
    BY <1>4 DEF Rising
<1>8. \A j \in J : /\ all[j] \in LogItems /\ all[j].item.kind = "misc"
                   /\ all[j].item.name \in Names /\ all[j].item.part \in Parts
    <2>1. \A j \in J : all[j] \in LogItems /\ all[j].item.kind = "misc"
        BY <1>2
    <2>2. \A x \in LogItems : x.item \in Logs
        BY DEF LogItems
    <2> QED BY <2>1, <2>2, MiscFields
<1> QED BY <1>1, <1>3, <1>4, <1>6, <1>7, <1>8

\* Emitted events are events of this transaction, in the order of their positions.
LEMMA EmissionTypes ==
    ASSUME NEW t, IsTx(t), NEW succeeded \in SUBSET (DOMAIN t.intents),
           NEW net \in Networks, NEW h \in Hashes, NEW from \in Nat
    PROVE  /\ Emissions(t, succeeded, net, h, from) \in Seq(Events)
           /\ \A i \in DOMAIN Emissions(t, succeeded, net, h, from) :
                LET e == Emissions(t, succeeded, net, h, from)[i] IN
                /\ e.network = net /\ e.hash = h /\ e.segment \in Segments /\ ~e.value.long
                /\ e.position \in Nat /\ e.position > from
           /\ \A i, j \in DOMAIN Emissions(t, succeeded, net, h, from) : i < j =>
                Emissions(t, succeeded, net, h, from)[i].position < Emissions(t, succeeded, net, h, from)[j].position
<1>1. PICK all : all = AllItems(t, succeeded)
    OBVIOUS
<1>2. PICK J : J = {j \in DOMAIN all : all[j].item.kind = "misc"}
    OBVIOUS
<1>3. PICK m, f : m = Cardinality(J) /\ f = Ascending(J)
    OBVIOUS
<1>4. PICK ems : ems = Emissions(t, succeeded, net, h, from)
    OBVIOUS
<1>5. /\ all \in Seq(LogItems) /\ J \in SUBSET (DOMAIN all)
      /\ m \in Nat /\ Rising(f, m, J) /\ DOMAIN ems = 1..m
      /\ \A n \in 1..m :
            /\ all[f[n]] \in LogItems /\ all[f[n]].item.name \in Names /\ all[f[n]].item.part \in Parts
            /\ ems[n] = Event(net, all[f[n]].contract, h, all[f[n]].segment, from + f[n],
                              Value(all[f[n]].item.name, all[f[n]].item.part))
    BY <1>1, <1>2, <1>3, <1>4, EmissionsAre
<1>6. /\ \A n \in 1..m : f[n] \in J
      /\ \A i, j \in 1..m : i < j => f[i] < f[j]
    BY <1>5 DEF Rising
<1>7. \A n \in 1..m : f[n] \in Nat /\ f[n] > 0
    <2>1. DOMAIN all = 1..Len(all) /\ Len(all) \in Nat
        BY <1>5, LenProperties
    <2> QED BY <1>5, <1>6, <2>1
<1>8. ASSUME NEW i \in 1..m
      PROVE  /\ ems[i] \in Events
             /\ ems[i].network = net /\ ems[i].hash = h /\ ems[i].segment \in Segments /\ ~ems[i].value.long
             /\ ems[i].position = from + f[i]
    <2>1. PICK x : x = all[f[i]]
        OBVIOUS
    <2>2. x \in LogItems /\ x.item.name \in Names /\ x.item.part \in Parts
        BY <1>5, <2>1
    <2>3. x.contract \in Contracts /\ x.segment \in Segments
        BY <2>2 DEF LogItems
    <2>4. ems[i] = [network |-> net, contract |-> x.contract, hash |-> h, segment |-> x.segment,
                    position |-> from + f[i],
                    value |-> [name |-> x.item.name, part |-> x.item.part, long |-> FALSE]]
        BY <1>5, <2>1 DEF Event, Value
    <2>5. from + f[i] \in Int /\ x.segment \in Nat
        BY <1>7, <2>3 DEF Segments
    <2>6. ems[i] \in Events
        BY <2>2, <2>3, <2>4, <2>5 DEF Events, Values
    <2> QED BY <2>3, <2>4, <2>6
<1>9. ems \in Seq(Events)
    <2>1. ems = [n \in 1..m |-> ems[n]]
        <3>1. DOMAIN ems = DOMAIN Emissions(t, succeeded, net, h, from)
            BY <1>4
        <3>2. ems = [n \in DOMAIN ems |-> ems[n]]
            BY <1>4 DEF Emissions
        <3> QED BY <1>5, <3>2
    <2>2. ems \in [1..m -> Events]
        BY <1>8, <2>1
    <2> QED BY <1>5, <2>2, SeqDef
<1>10. \A i \in 1..m : ems[i].position \in Nat /\ ems[i].position > from
    BY <1>7, <1>8
<1>11. ASSUME NEW i \in 1..m, NEW j \in 1..m, i < j PROVE ems[i].position < ems[j].position
    <2>1. f[i] < f[j] /\ f[i] \in Nat /\ f[j] \in Nat
        BY <1>6, <1>7, <1>11
    <2> QED BY <1>8, <2>1
<1> QED BY <1>4, <1>5, <1>8, <1>9, <1>10, <1>11

\* The payloads a group's events carry are those its intent's calls emit under the name.
LEMMA EmissionGather ==
    ASSUME NEW t, IsTx(t), NEW succeeded \in SUBSET (DOMAIN t.intents),
           NEW net \in Networks, NEW h \in Hashes, NEW from \in Nat, NEW c, NEW s, NEW n
    PROVE  Gather(Emissions(t, succeeded, net, h, from), OfGroup(Group(net, c, n, h, s)),
                  EventPart(Group(net, c, n, h, s)))
            = Gather(AllItems(t, succeeded), Emitting(c, s, n), ItemPart(c, s, n))
<1>1. PICK all : all = AllItems(t, succeeded)
    OBVIOUS
<1>2. PICK J : J = {j \in DOMAIN all : all[j].item.kind = "misc"}
    OBVIOUS
<1>3. PICK m, f : m = Cardinality(J) /\ f = Ascending(J)
    OBVIOUS
<1>4. PICK ems : ems = Emissions(t, succeeded, net, h, from)
    OBVIOUS
<1>5. /\ all \in Seq(LogItems) /\ J \in SUBSET (DOMAIN all)
      /\ m \in Nat /\ Rising(f, m, J) /\ DOMAIN ems = 1..m
      /\ \A i \in 1..m :
            /\ all[f[i]] \in LogItems /\ all[f[i]].item.kind = "misc"
            /\ ems[i] = Event(net, all[f[i]].contract, h, all[f[i]].segment, from + f[i],
                              Value(all[f[i]].item.name, all[f[i]].item.part))
    BY <1>1, <1>2, <1>3, <1>4, EmissionsAre
<1>6. PICK v : v = Kept(all, J)
    OBVIOUS
<1>7. v \in Seq(LogItems) /\ DOMAIN v = 1..m /\ \A i \in 1..m : v[i] = all[f[i]]
    <2>1. Kept(all, J) \in Seq(LogItems)
        BY <1>5, KeptType
    <2>2. /\ DOMAIN Kept(all, J) = 1..Cardinality(J)
          /\ \A i \in 1..Cardinality(J) : Kept(all, J)[i] = all[Ascending(J)[i]]
        BY KeptAt
    <2> QED BY <1>3, <1>6, <2>1, <2>2
<1>8. ems \in Seq(Events)
    BY <1>4, EmissionTypes
<1>9. Len(v) = m /\ Len(ems) = m
    BY <1>5, <1>7, <1>8, LenProperties
<1>10. PICK M, g, k : M = Emitting(c, s, n) /\ g = ItemPart(c, s, n) /\ k = Group(net, c, n, h, s)
    OBVIOUS
<1>11. PICK N, p : N = OfGroup(k) /\ p = EventPart(k)
    OBVIOUS
<1>12. Maps(g, M, Parts) /\ Maps(p, N, Parts)
    BY <1>10, <1>11, PartMaps, EventPartMaps
<1>13. ASSUME NEW i \in 1..Len(ems)
       PROVE  (ems[i] \in N) = (v[i] \in M) /\ (ems[i] \in N => p[ems[i]] = g[v[i]])
    <2>1. i \in 1..m /\ i \in 1..Len(ems)
        BY <1>9
    <2>2. PICK x : x = v[i]
        OBVIOUS
    <2>3. x \in LogItems /\ x.item.kind = "misc"
        BY <1>5, <1>7, <2>1, <2>2
    <2>4. ems[i] = [network |-> net, contract |-> x.contract, hash |-> h, segment |-> x.segment,
                    position |-> from + f[i],
                    value |-> [name |-> x.item.name, part |-> x.item.part, long |-> FALSE]]
        BY <1>5, <1>7, <2>1, <2>2 DEF Event, Value
    <2>5. /\ ems[i].network = net /\ ems[i].contract = x.contract /\ ems[i].hash = h
          /\ ems[i].segment = x.segment /\ ems[i].value.name = x.item.name /\ ems[i].value.part = x.item.part
        BY <2>4
    <2>6. ems[i] \in Events
        BY <1>8, <2>1, ElementOfSeq
    <2>7. GroupKey(ems[i]) = k <=> x.contract = c /\ x.segment = s /\ x.item.name = n
        BY <1>10, <2>5 DEF GroupKey, Group
    <2>8. ems[i] \in N <=> x \in M
        BY <1>10, <1>11, <2>3, <2>6, <2>7 DEF OfGroup, Emitting
    <2>9. ems[i] \in N => p[ems[i]] = x.item.part
        BY <1>11, <2>5 DEF EventPart
    <2>10. x \in M => g[x] = x.item.part
        BY <1>10 DEF ItemPart
    <2> QED BY <2>2, <2>8, <2>9, <2>10
<1>14. Gather(ems, N, p) = Gather(v, M, g)
    <2>1. Matched(ems, N, p, v, M, g)
        BY <1>9, <1>13 DEF Matched
    <2> QED BY <1>7, <1>8, <1>12, <2>1, GatherMapped
<1>15. Gather(v, M, g) = Gather(all, M, g)
    <2>1. \A i \in DOMAIN all : all[i] \in M => i \in J
        BY <1>2, <1>10 DEF Emitting
    <2> QED BY <1>5, <1>6, <1>12, <2>1, GatherKept
<1> QED BY <1>1, <1>4, <1>10, <1>11, <1>14, <1>15

-----------------------------------------------------------------------------
(* What the raw transaction shows of one package *)

\* The activity of one intent, and what RawParts makes of it.
LEMMA RawGather ==
    ASSUME NEW t, IsTx(t), NEW target, NEW s \in DOMAIN t.intents
    PROVE  /\ Activity(t, s, target.contract)
                = Lists(t, s, target.contract, "guaranteed") \o Lists(t, s, target.contract, "fallible")
           /\ Activity(t, s, target.contract) \in Seq(Entries)
           /\ Named(t, target, s) = Where(Activity(t, s, target.contract), Under(target.name))
           /\ RawParts(t, target, s)
                = Gather(Activity(t, s, target.contract), Under(target.name), EntryPart(target.name))
<1>1. PICK acts, c, n : acts = Activity(t, s, target.contract) /\ c = target.contract /\ n = target.name
    OBVIOUS
<1>2. acts = Lists(t, s, c, "guaranteed") \o Lists(t, s, c, "fallible")
    BY <1>1 DEF Activity, Lists
<1>3. acts \in Seq(Entries)
    <2>1. "guaranteed" \in Both /\ "fallible" \in Both
        BY DEF Both
    <2>2. Lists(t, s, c, "guaranteed") \in Seq(Entries) /\ Lists(t, s, c, "fallible") \in Seq(Entries)
        BY <2>1, IntentTypes
    <2> QED BY <1>2, <2>2, ConcatProperties
<1>4. DOMAIN acts = 1..Len(acts) /\ Len(acts) \in Nat /\ \A j \in DOMAIN acts : acts[j] \in Entries
    BY <1>3, LenProperties, ElementOfSeq
<1>5. PICK I : I = Named(t, target, s)
    OBVIOUS
<1>6. I = {j \in DOMAIN acts : acts[j].name = n}
    BY <1>1, <1>5 DEF Named
<1>7. I = Where(acts, Under(n))
    BY <1>4, <1>6 DEF Where, Under
<1>8. PICK named : named = Kept(acts, I)
    OBVIOUS
<1>9. \A j \in DOMAIN named : named[j] \in Under(n)
    <2>1. I \in SUBSET (DOMAIN acts)
        BY <1>6
    <2>2. \A j \in DOMAIN named : \E i \in I : named[j] = acts[i]
        BY <1>3, <1>8, <2>1, KeptType
    <2> QED BY <1>7, <2>2 DEF Where
<1>10. RawParts(t, target, s) = [j \in DOMAIN named |-> named[j].part]
    BY <1>1, <1>5, <1>8 DEF RawParts
<1>11. Gather(acts, Under(n), EntryPart(n)) = [j \in DOMAIN named |-> EntryPart(n)[named[j]]]
    BY <1>7, <1>8 DEF Gather
<1>12. \A j \in DOMAIN named : EntryPart(n)[named[j]] = named[j].part
    BY <1>9 DEF EntryPart
<1>13. RawParts(t, target, s) = Gather(acts, Under(n), EntryPart(n))
    BY <1>10, <1>11, <1>12
<1> QED BY <1>1, <1>2, <1>3, <1>5, <1>7, <1>13

\* RawParts in two halves: the guaranteed transcripts', then the fallible ones'.
LEMMA RawHalves ==
    ASSUME NEW t, IsTx(t), NEW target, NEW s \in DOMAIN t.intents
    PROVE  \E a, b \in Seq(Parts) :
            /\ a = Gather(Lists(t, s, target.contract, "guaranteed"), Under(target.name), EntryPart(target.name))
            /\ b = Gather(Lists(t, s, target.contract, "fallible"), Under(target.name), EntryPart(target.name))
            /\ RawParts(t, target, s) = a \o b
<1>1. PICK c, n, N, h : c = target.contract /\ n = target.name /\ N = Under(n) /\ h = EntryPart(n)
    OBVIOUS
<1>2. PICK x, y : x = Lists(t, s, c, "guaranteed") /\ y = Lists(t, s, c, "fallible")
    OBVIOUS
<1>3. Maps(h, N, Parts)
    BY <1>1, PartMaps
<1>4. x \in Seq(Entries) /\ y \in Seq(Entries)
    <2>1. "guaranteed" \in Both /\ "fallible" \in Both
        BY DEF Both
    <2> QED BY <1>2, <2>1, IntentTypes
<1>5. Gather(x \o y, N, h) = Gather(x, N, h) \o Gather(y, N, h)
    BY <1>3, <1>4, GatherConcat
<1>6. Gather(x, N, h) \in Seq(Parts) /\ Gather(y, N, h) \in Seq(Parts)
    BY <1>3, <1>4, GatherType
<1>7. RawParts(t, target, s) = Gather(x \o y, N, h)
    <2>1. /\ Activity(t, s, c) = x \o y
          /\ RawParts(t, target, s) = Gather(Activity(t, s, c), N, h)
        BY <1>1, <1>2, RawGather
    <2> QED BY <2>1, Zenon
<1> QED BY <1>1, <1>2, <1>5, <1>6, <1>7

\* What one intent's calls emit under a name, when the phases of the given segments run.
LEMMA EmittedHalves ==
    ASSUME NEW t, IsTx(t), NEW succeeded \in SUBSET (DOMAIN t.intents), NEW c, NEW n, NEW s \in Segments
    PROVE  \E M, g :
            /\ M = Emitting(c, s, n) /\ g = ItemPart(c, s, n)
            /\ AllItems(t, succeeded) \in Seq(LogItems)
            /\ Gather(AllItems(t, succeeded), M, g) \in Seq(Parts)
            /\ s \notin DOMAIN t.intents => Gather(AllItems(t, succeeded), M, g) = <<>>
            /\ s \in DOMAIN t.intents =>
                Gather(AllItems(t, succeeded), M, g)
                    = Gather(Emits(t, s, "guaranteed"), M, g)
                        \o (IF s \in succeeded THEN Gather(Emits(t, s, "fallible"), M, g) ELSE <<>>)
<1>0. PICK M, g : M = Emitting(c, s, n) /\ g = ItemPart(c, s, n)
    OBVIOUS
<1>1. PICK x, y : x = Phase(t, DOMAIN t.intents, "guaranteed") /\ y = Phase(t, succeeded, "fallible")
    OBVIOUS
<1>2. "guaranteed" \in Both /\ "fallible" \in Both /\ DOMAIN t.intents \in SUBSET (DOMAIN t.intents)
    BY DEF Both
<1>3. Maps(g, M, Parts)
    BY <1>0, PartMaps
<1>4. /\ x \in Seq(LogItems)
      /\ Gather(x, M, g) = IF s \in DOMAIN t.intents THEN Gather(Emits(t, s, "guaranteed"), M, g) ELSE <<>>
    BY <1>0, <1>1, <1>2, PhaseGather
<1>5. /\ y \in Seq(LogItems)
      /\ Gather(y, M, g) = IF s \in succeeded THEN Gather(Emits(t, s, "fallible"), M, g) ELSE <<>>
    BY <1>0, <1>1, <1>2, PhaseGather
<1>6. Gather(x \o y, M, g) = Gather(x, M, g) \o Gather(y, M, g)
    <2>1. \A v, w \in Seq(LogItems) : Gather(v \o w, M, g) = Gather(v, M, g) \o Gather(w, M, g)
        BY <1>3, GatherConcat
    <2> QED BY <1>4, <1>5, <2>1
<1>7. Gather(x, M, g) \in Seq(Parts) /\ Gather(y, M, g) \in Seq(Parts)
    BY <1>3, <1>4, <1>5, GatherType
<1>8. AllItems(t, succeeded) = x \o y
    BY <1>1 DEF AllItems
<1>9. x \o y \in Seq(LogItems)
    BY <1>4, <1>5, ConcatProperties
<1>10. PICK u, v : u = Gather(x, M, g) /\ v = Gather(y, M, g)
    OBVIOUS
<1>11. u \o v \in Seq(Parts)
    BY <1>7, <1>10, ConcatProperties
<1>12. Gather(AllItems(t, succeeded), M, g) = u \o v
    BY <1>6, <1>8, <1>10
<1>13. s \notin DOMAIN t.intents => u \o v = <<>>
    <2> SUFFICES ASSUME s \notin DOMAIN t.intents PROVE u \o v = <<>>
        OBVIOUS
    <2>1. u = <<>> /\ v = <<>>
        BY <1>4, <1>5, <1>10
    <2>2. <<>> \o <<>> = <<>>
        BY EmptySeq, ConcatEmptySeq
    <2> QED BY <2>1, <2>2
<1> QED BY <1>0, <1>4, <1>5, <1>8, <1>9, <1>10, <1>11, <1>12, <1>13

\* A package whose placement holds has the parts the raw transaction lists under its
\* name, all of them from guaranteed transcripts.
LEMMA PlacedRaw ==
    ASSUME NEW t, IsTx(t), NEW target, NEW s, NEW parts, PlacementOK(t, target, s, parts)
    PROVE  /\ s \in DOMAIN t.intents /\ ~Unreadable(t, s, target.contract)
           /\ parts = RawParts(t, target, s)
           /\ Gather(Lists(t, s, target.contract, "fallible"), Under(target.name), EntryPart(target.name)) = <<>>
<1>1. s \in DOMAIN t.intents /\ ~Unreadable(t, s, target.contract)
    BY DEF PlacementOK
<1>2. PICK acts, c, n, named : /\ acts = Activity(t, s, target.contract) /\ c = target.contract
                               /\ n = target.name /\ named = Named(t, target, s)
    OBVIOUS
<1>3. PICK x, y : x = Lists(t, s, c, "guaranteed") /\ y = Lists(t, s, c, "fallible")
    OBVIOUS
<1>4. acts = x \o y /\ acts \in Seq(Entries) /\ named = Where(acts, Under(n))
    BY <1>1, <1>2, <1>3, RawGather
<1>5. "guaranteed" \in Both /\ "fallible" \in Both
    BY DEF Both
<1>6. /\ x \in Seq(ListedFrom(t, s, c, "guaranteed")) /\ x \in Seq(Entries)
      /\ y \in Seq(ListedFrom(t, s, c, "fallible")) /\ y \in Seq(Entries)
    BY <1>1, <1>3, <1>5, IntentTypes
<1>7. /\ \A k \in CallsTo(t, s, c) : t.intents[s].actions[k].entry = target.entry
            => t.intents[s].actions[k].guaranteed # None /\ t.intents[s].actions[k].fallible = None
      /\ \A j \in named : acts[j].entry = target.entry
      /\ LET expected == Kept(acts, {j \in named : acts[j].entry = target.entry
                                                    /\ acts[j].transcript = "guaranteed"})
         IN parts = [j \in DOMAIN expected |-> expected[j].part]
    BY <1>2 DEF PlacementOK
<1>8. /\ Len(x) \in Nat /\ DOMAIN x = 1..Len(x) /\ Len(y) \in Nat /\ DOMAIN y = 1..Len(y)
      /\ DOMAIN acts = 1..(Len(x) + Len(y))
      /\ \A i \in 1..(Len(x) + Len(y)) : acts[i] = IF i <= Len(x) THEN x[i] ELSE y[i - Len(x)]
    BY <1>4, <1>6, LenProperties, ConcatProperties
<1>9. ASSUME NEW j \in DOMAIN y PROVE y[j] \notin Under(n)
    <2> SUFFICES ASSUME y[j] \in Under(n) PROVE FALSE
        OBVIOUS
    <2>1. PICK k : k = Len(x) + j
        OBVIOUS
    <2>2. k \in DOMAIN acts /\ acts[k] = y[j]
        BY <1>8, <2>1
    <2>3. k \in named
        BY <1>4, <2>2 DEF Where
    <2>4. y[j] \in ListedFrom(t, s, c, "fallible")
        BY <1>6, <1>8, ElementOfSeq
    <2>5. PICK a : a = y[j].action
        OBVIOUS
    <2>6. a \in CallsTo(t, s, c) /\ y[j].entry = t.intents[s].actions[a].entry
          /\ t.intents[s].actions[a]["fallible"] # None
        BY <2>4, <2>5 DEF ListedFrom
    <2>7. y[j].entry = target.entry
        BY <1>7, <2>2, <2>3
    <2> QED BY <1>7, <2>6, <2>7
<1>10. PICK N, h : N = Under(n) /\ h = EntryPart(n)
    OBVIOUS
<1>11. Gather(y, N, h) = <<>>
    <2>1. Maps(h, N, Parts)
        BY <1>10, PartMaps
    <2> QED BY <1>6, <1>9, <1>10, <2>1, GatherNothing
<1>12. {j \in named : acts[j].entry = target.entry /\ acts[j].transcript = "guaranteed"} = named
    <2>1. ASSUME NEW j \in named PROVE acts[j].transcript = "guaranteed"
        <3>1. j \in DOMAIN acts /\ acts[j] \in Under(n)
            BY <1>4 DEF Where
        <3>2. CASE j <= Len(x)
            <4>1. j \in DOMAIN x /\ acts[j] = x[j]
                BY <1>8, <3>1, <3>2
            <4>2. x[j] \in ListedFrom(t, s, c, "guaranteed")
                BY <1>6, <1>8, <4>1, ElementOfSeq
            <4> QED BY <4>1, <4>2 DEF ListedFrom
        <3>3. CASE ~(j <= Len(x))
            <4>1. j - Len(x) \in DOMAIN y /\ acts[j] = y[j - Len(x)]
                BY <1>8, <3>1, <3>3
            <4> QED BY <1>9, <3>1, <4>1
        <3> QED BY <3>2, <3>3
    <2> QED BY <1>7, <2>1
<1>13. parts = RawParts(t, target, s)
    <2>1. PICK e : e = Kept(acts, named)
        OBVIOUS
    <2>2. parts = [j \in DOMAIN e |-> e[j].part]
        BY <1>7, <1>12, <2>1
    <2> QED BY <1>2, <2>1, <2>2 DEF RawParts
<1> QED BY <1>1, <1>2, <1>3, <1>10, <1>11, <1>13

\* A package whose placement holds is whole: whatever phases of the transaction ran, it
\* is exactly what the ledger emitted from its intent under its name.
LEMMA PlacedIsEmitted ==
    ASSUME NEW t, IsTx(t), NEW succeeded \in SUBSET (DOMAIN t.intents), NEW target, NEW s, NEW parts,
           PlacementOK(t, target, s, parts)
    PROVE  parts = Gather(AllItems(t, succeeded), Emitting(target.contract, s, target.name),
                          ItemPart(target.contract, s, target.name))
<1>1. PICK c, n : c = target.contract /\ n = target.name
    OBVIOUS
<1>2. PICK N, h : N = Under(n) /\ h = EntryPart(n)
    OBVIOUS
<1>3. /\ s \in DOMAIN t.intents /\ ~Unreadable(t, s, c) /\ parts = RawParts(t, target, s)
      /\ Gather(Lists(t, s, c, "fallible"), N, h) = <<>>
    BY <1>1, <1>2, PlacedRaw
<1>4. PICK a, b : a = Gather(Lists(t, s, c, "guaranteed"), N, h) /\ b = Gather(Lists(t, s, c, "fallible"), N, h)
    OBVIOUS
<1>5. a \in Seq(Parts) /\ b \in Seq(Parts) /\ parts = a \o b
    BY <1>1, <1>2, <1>3, <1>4, RawHalves
<1>6. "guaranteed" \in Both /\ "fallible" \in Both
    BY DEF Both
<1>8. s \in Segments
    BY <1>3, ActionTypes
<1>m. PICK M, g :
            /\ M = Emitting(c, s, n) /\ g = ItemPart(c, s, n)
            /\ s \notin DOMAIN t.intents => Gather(AllItems(t, succeeded), M, g) = <<>>
            /\ s \in DOMAIN t.intents =>
                Gather(AllItems(t, succeeded), M, g)
                    = Gather(Emits(t, s, "guaranteed"), M, g)
                        \o (IF s \in succeeded THEN Gather(Emits(t, s, "fallible"), M, g) ELSE <<>>)
    BY <1>8, EmittedHalves
<1>7. Gather(Emits(t, s, "guaranteed"), M, g) = a /\ Gather(Emits(t, s, "fallible"), M, g) = b
    BY <1>1, <1>2, <1>3, <1>4, <1>6, <1>m, IntentGather
<1>9. Gather(AllItems(t, succeeded), M, g) = a \o (IF s \in succeeded THEN b ELSE <<>>)
    BY <1>3, <1>7, <1>m
<1>10. b = <<>>
    BY <1>3, <1>4
<1> QED BY <1>1, <1>m, <1>5, <1>9, <1>10

\* What a readable intent emitted under a name is listed under it.
LEMMA EmittedIsListed ==
    ASSUME NEW t, IsTx(t), NEW succeeded \in SUBSET (DOMAIN t.intents), NEW target, NEW s \in Segments,
           s \in DOMAIN t.intents => ~Unreadable(t, s, target.contract),
           Gather(AllItems(t, succeeded), Emitting(target.contract, s, target.name),
                  ItemPart(target.contract, s, target.name)) # <<>>
    PROVE  s \in DOMAIN t.intents /\ RawParts(t, target, s) # <<>>
<1>1. PICK c, n : c = target.contract /\ n = target.name
    OBVIOUS
<1>2. PICK N, h : N = Under(n) /\ h = EntryPart(n)
    OBVIOUS
<1>m. PICK M, g :
            /\ M = Emitting(c, s, n) /\ g = ItemPart(c, s, n)
            /\ s \notin DOMAIN t.intents => Gather(AllItems(t, succeeded), M, g) = <<>>
            /\ s \in DOMAIN t.intents =>
                Gather(AllItems(t, succeeded), M, g)
                    = Gather(Emits(t, s, "guaranteed"), M, g)
                        \o (IF s \in succeeded THEN Gather(Emits(t, s, "fallible"), M, g) ELSE <<>>)
    BY EmittedHalves
<1>3. s \in DOMAIN t.intents
    BY <1>1, <1>m
<1>4. PICK a, b : a = Gather(Lists(t, s, c, "guaranteed"), N, h) /\ b = Gather(Lists(t, s, c, "fallible"), N, h)
    OBVIOUS
<1>5. a \in Seq(Parts) /\ b \in Seq(Parts) /\ RawParts(t, target, s) = a \o b
    BY <1>1, <1>2, <1>3, <1>4, RawHalves
<1>6. "guaranteed" \in Both /\ "fallible" \in Both
    BY DEF Both
<1>7. Gather(Emits(t, s, "guaranteed"), M, g) = a /\ Gather(Emits(t, s, "fallible"), M, g) = b
    BY <1>1, <1>2, <1>3, <1>4, <1>6, <1>m, IntentGather
<1>8. Gather(AllItems(t, succeeded), M, g) = a \o (IF s \in succeeded THEN b ELSE <<>>)
    BY <1>3, <1>7, <1>m
<1>9. ASSUME a \o b = <<>> PROVE a = <<>> /\ b = <<>>
    <2>1. Len(a \o b) = Len(a) + Len(b) /\ Len(a) \in Nat /\ Len(b) \in Nat
        BY <1>5, ConcatProperties, LenProperties
    <2>2. Len(a \o b) = 0
        BY <1>9, EmptySeq
    <2> QED BY <1>5, <2>1, <2>2, EmptySeq
<1>10. a \o <<>> = a
    BY <1>5, ConcatEmptySeq
<1> QED BY <1>1, <1>m, <1>3, <1>5, <1>8, <1>9, <1>10

-----------------------------------------------------------------------------
(* The loop over the events *)

With(I, i) == I \cup {i}

\* Keeping one more element, after all others.
LEMMA KeptAppend ==
    ASSUME NEW T, NEW s \in Seq(T), NEW n \in Nat, n + 1 \in DOMAIN s, NEW I \in SUBSET (1..n)
    PROVE  Kept(s, With(I, n + 1)) = Append(Kept(s, I), s[n + 1])
<1> DEFINE m == Cardinality(I)
           f == Ascending(I)
           K == With(I, n + 1)
           h == [k \in 1..(m + 1) |-> IF k <= m THEN f[k] ELSE n + 1]
<1>1. DOMAIN s = 1..Len(s) /\ Len(s) \in Nat
    BY LenProperties
<1>2. I \in SUBSET (DOMAIN s)
    BY <1>1
<1>3. m \in Nat /\ Rising(f, m, I) /\ I \in SUBSET Int
    BY IndicesRise
<1> HIDE DEF m, f
<1>4. /\ f \in [1..m -> I] /\ \A i, j \in 1..m : i < j => f[i] < f[j]
      /\ \A x \in I : \E i \in 1..m : f[i] = x
    BY <1>3 DEF Rising
<1>5. \A k \in 1..(m + 1) : \/ k \in 1..m /\ h[k] = f[k] /\ f[k] \in I /\ k # m + 1
                            \/ k = m + 1 /\ h[k] = n + 1
    BY <1>3, <1>4
<1>6. DOMAIN h = 1..(m + 1) /\ h = [k \in 1..(m + 1) |-> h[k]]
    OBVIOUS
<1> HIDE DEF h
<1>7. h \in [1..(m + 1) -> K]
    BY <1>5, <1>6 DEF With
<1>8. ASSUME NEW i \in 1..(m + 1), NEW j \in 1..(m + 1), i < j PROVE h[i] < h[j]
    <2>1. i # m + 1
        BY <1>3, <1>8
    <2>2. CASE j = m + 1
        <3>1. h[i] \in 1..n /\ h[j] = n + 1
            BY <1>5, <2>1, <2>2
        <3> QED BY <3>1
    <2>3. CASE j # m + 1
        BY <1>4, <1>5, <1>8, <2>1, <2>3
    <2> QED BY <2>2, <2>3
<1>9. ASSUME NEW x \in K PROVE \E k \in 1..(m + 1) : h[k] = x
    <2>1. CASE x \in I
        <3>1. PICK i \in 1..m : f[i] = x
            BY <1>4, <2>1
        <3>2. i \in 1..(m + 1) /\ i # m + 1
            BY <1>3
        <3> QED BY <1>5, <3>1, <3>2
    <2>2. CASE x = n + 1
        <3>1. m + 1 \in 1..(m + 1) /\ m + 1 \notin 1..m
            BY <1>3
        <3> QED BY <1>5, <2>2, <3>1
    <2> QED BY <2>1, <2>2 DEF With
<1>10. K \in SUBSET Int /\ m + 1 \in Nat
    BY <1>3 DEF With
<1> HIDE DEF K
<1>11. Rising(h, m + 1, K)
    BY <1>7, <1>8, <1>9 DEF Rising
<1>12. Kept(s, K) = [k \in 1..(m + 1) |-> s[h[k]]]
    BY <1>10, <1>11, KeptAlong
<1>13. Kept(s, I) = [k \in 1..m |-> s[f[k]]]
    BY <1>3, KeptAlong
<1>14. Kept(s, I) \in Seq(T)
    BY <1>2, KeptType
<1>15. PICK t : t = Kept(s, I)
    OBVIOUS
<1>16. t \in Seq(T) /\ Len(t) = m /\ s[n + 1] \in T
    BY <1>1, <1>3, <1>13, <1>14, <1>15, LenProperties, ElementOfSeq
<1>17. PICK y : y = s[n + 1]
    OBVIOUS
<1>18. Append(t, y) = [k \in 1..(m + 1) |-> IF k = m + 1 THEN y ELSE t[k]]
    <2>1. /\ Append(t, y) \in Seq(T) /\ Len(Append(t, y)) = m + 1
          /\ \A i \in 1..m : Append(t, y)[i] = t[i]
          /\ Append(t, y)[m + 1] = y
        BY <1>16, <1>17, AppendProperties
    <2>2. DOMAIN Append(t, y) = 1..(m + 1)
        BY <2>1, LenProperties
    <2>3. \A k \in 1..(m + 1) : k = m + 1 \/ k \in 1..m
        BY <1>3
    <2>4. Append(t, y) = [k \in 1..(m + 1) |-> Append(t, y)[k]]
        BY <2>1, <2>2, LenProperties
    <2> QED BY <2>1, <2>3, <2>4
<1>19. \A k \in 1..(m + 1) : s[h[k]] = IF k = m + 1 THEN y ELSE t[k]
    BY <1>5, <1>13, <1>15, <1>17
<1> QED BY <1>12, <1>15, <1>17, <1>18, <1>19 DEF K

\* The turns of the loop that take an event of group k, and the groups so far.
Turns(evs, options, k, n) == {i \in 1..n : OptedIn(evs[i], options) /\ GroupKey(evs[i]) = k}

KeysOf(evs, options, n) == {GroupKey(evs[i]) : i \in {j \in 1..n : OptedIn(evs[j], options)}}

\* An event that checkEvent refuses, or one group too many.
Fails(evs, options, n) ==
    \/ \E i \in 1..n : ~SourceOK(evs[i])
    \/ Cardinality(KeysOf(evs, options, n)) > options.maxGroups

\* The loop's state after n events, told from the events alone.
LoopState(evs, options, n, a) ==
    /\ a = [groups |-> a.groups, ignored |-> a.ignored, error |-> a.error]
    /\ a.error \in BOOLEAN /\ IsFiniteSet(KeysOf(evs, options, n))
    /\ a.error <=> Fails(evs, options, n)
    /\ ~a.error => /\ a.groups = [k \in DOMAIN a.groups |-> a.groups[k]]
                   /\ DOMAIN a.groups = KeysOf(evs, options, n)
                   /\ \A k \in KeysOf(evs, options, n) : a.groups[k] = Kept(evs, Turns(evs, options, k, n))

\* One turn, case by case.
Turn(a, e, options, b) ==
    /\ b = [groups |-> b.groups, ignored |-> b.ignored, error |-> b.error] /\ b.error \in BOOLEAN
    /\ a.error => b = a
    /\ ~a.error /\ ~SourceOK(e) => b.error
    /\ ~a.error /\ SourceOK(e) /\ ~OptedIn(e, options) => ~b.error /\ b.groups = a.groups
    /\ ~a.error /\ SourceOK(e) /\ OptedIn(e, options) /\ GroupKey(e) \in DOMAIN a.groups =>
         ~b.error /\ b.groups = [a.groups EXCEPT ![GroupKey(e)] = Append(@, e)]
    /\ ~a.error /\ SourceOK(e) /\ OptedIn(e, options) /\ GroupKey(e) \notin DOMAIN a.groups =>
         /\ b.error <=> Cardinality(DOMAIN a.groups) >= options.maxGroups
         /\ ~b.error => b.groups = [k \in DOMAIN a.groups \cup {GroupKey(e)} |->
                                         IF k = GroupKey(e) THEN <<e>> ELSE a.groups[k]]

\* TakeEvent makes such a turn.
LEMMA TurnCases ==
    ASSUME NEW a, a = [groups |-> a.groups, ignored |-> a.ignored, error |-> a.error], a.error \in BOOLEAN,
           NEW e, NEW options
    PROVE  \E b : b = TakeEvent(a, e, options) /\ Turn(a, e, options, b)
<1>0. PICK b : b = TakeEvent(a, e, options)
    OBVIOUS
<1> SUFFICES Turn(a, e, options, b)
    BY <1>0
<1>1. CASE a.error
    <2>1. b = a
        BY <1>0, <1>1 DEF TakeEvent
    <2> QED BY <1>1, <2>1 DEF Turn
<1>2. CASE ~a.error /\ ~SourceOK(e)
    <2>1. b = [a EXCEPT !.error = TRUE]
        BY <1>0, <1>2 DEF TakeEvent
    <2>2. b = [groups |-> a.groups, ignored |-> a.ignored, error |-> TRUE]
        BY <2>1
    <2> QED BY <1>2, <2>2 DEF Turn
<1>3. CASE ~a.error /\ SourceOK(e) /\ ~OptedIn(e, options)
    <2>1. b = [a EXCEPT !.ignored = @ + 1]
        BY <1>0, <1>3 DEF TakeEvent
    <2>2. b = [groups |-> a.groups, ignored |-> a.ignored + 1, error |-> FALSE]
        BY <1>3, <2>1
    <2> QED BY <1>3, <2>2 DEF Turn
<1>4. CASE ~a.error /\ SourceOK(e) /\ OptedIn(e, options) /\ GroupKey(e) \in DOMAIN a.groups
    <2>1. b = [a EXCEPT !.groups[GroupKey(e)] = Append(@, e)]
        BY <1>0, <1>4 DEF TakeEvent
    <2>2. b = [groups |-> [a.groups EXCEPT ![GroupKey(e)] = Append(@, e)], ignored |-> a.ignored, error |-> FALSE]
        BY <1>4, <2>1
    <2> QED BY <1>4, <2>2 DEF Turn
<1>5. CASE ~a.error /\ SourceOK(e) /\ OptedIn(e, options) /\ GroupKey(e) \notin DOMAIN a.groups
    <2>1. CASE Cardinality(DOMAIN a.groups) >= options.maxGroups
        <3>1. b = [a EXCEPT !.error = TRUE]
            BY <1>0, <1>5, <2>1 DEF TakeEvent
        <3>2. b = [groups |-> a.groups, ignored |-> a.ignored, error |-> TRUE]
            BY <3>1
        <3> QED BY <1>5, <2>1, <3>2 DEF Turn
    <2>2. CASE ~(Cardinality(DOMAIN a.groups) >= options.maxGroups)
        <3> DEFINE more == [k \in DOMAIN a.groups \cup {GroupKey(e)} |->
                                                IF k = GroupKey(e) THEN <<e>> ELSE a.groups[k]]
        <3>1. b = [a EXCEPT !.groups = more]
            BY <1>0, <1>5, <2>2 DEF TakeEvent
        <3> HIDE DEF more
        <3>2. b = [groups |-> more, ignored |-> a.ignored, error |-> FALSE]
            BY <1>5, <3>1
        <3> QED BY <1>5, <2>2, <3>2 DEF more, Turn
    <2> QED BY <2>1, <2>2
<1> QED BY <1>1, <1>2, <1>3, <1>4, <1>5

\* The keys and turns of one more event.
MoreTurns(evs, options, n, e, key, old, new) ==
    /\ e = evs[n + 1] /\ key = GroupKey(e)
    /\ old = KeysOf(evs, options, n) /\ new = KeysOf(evs, options, n + 1)
    /\ new = IF OptedIn(e, options) THEN old \cup {key} ELSE old
    /\ \A k : Turns(evs, options, k, n + 1)
                = IF OptedIn(e, options) /\ key = k THEN With(Turns(evs, options, k, n), n + 1)
                  ELSE Turns(evs, options, k, n)
    /\ (\E i \in 1..(n + 1) : ~SourceOK(evs[i])) <=> (\E i \in 1..n : ~SourceOK(evs[i])) \/ ~SourceOK(e)

\* They are those of the events before it and its own.
LEMMA OneMoreEvent ==
    ASSUME NEW evs, NEW options, NEW n \in Nat
    PROVE  \E e, key, old, new : MoreTurns(evs, options, n, e, key, old, new)
<1>0. PICK e : e = evs[n + 1]
    OBVIOUS
<1>1. /\ \A i \in 1..(n + 1) : i \in 1..n \/ i = n + 1
      /\ \A i \in 1..n : i \in 1..(n + 1)
      /\ n + 1 \in 1..(n + 1)
    OBVIOUS
<1> SUFFICES MoreTurns(evs, options, n, e, GroupKey(e), KeysOf(evs, options, n), KeysOf(evs, options, n + 1))
    OBVIOUS
<1>2. CASE OptedIn(e, options)
    <2>1. KeysOf(evs, options, n + 1) = KeysOf(evs, options, n) \cup {GroupKey(e)}
        BY <1>0, <1>1, <1>2 DEF KeysOf
    <2>2. ASSUME NEW k PROVE Turns(evs, options, k, n + 1)
                = IF GroupKey(e) = k THEN With(Turns(evs, options, k, n), n + 1) ELSE Turns(evs, options, k, n)
        <3>1. CASE GroupKey(e) = k
            BY <1>1, <1>2, <1>0, <3>1 DEF Turns, With
        <3>2. CASE GroupKey(e) # k
            BY <1>1, <1>2, <1>0, <3>2 DEF Turns
        <3> QED BY <3>1, <3>2
    <2> QED BY <1>0, <1>1, <1>2, <2>1, <2>2 DEF MoreTurns
<1>3. CASE ~OptedIn(e, options)
    <2>1. KeysOf(evs, options, n + 1) = KeysOf(evs, options, n)
        BY <1>0, <1>1, <1>3 DEF KeysOf
    <2>2. ASSUME NEW k PROVE Turns(evs, options, k, n + 1) = Turns(evs, options, k, n)
        BY <1>0, <1>1, <1>3 DEF Turns
    <2> QED BY <1>0, <1>1, <1>3, <2>1, <2>2 DEF MoreTurns
<1> QED BY <1>2, <1>3

\* One turn keeps what LoopState says.
LEMMA TurnKeeps ==
    ASSUME NEW evs \in Seq(Events), NEW options \in Options, NEW n \in Nat, n + 1 \in DOMAIN evs,
           NEW a, LoopState(evs, options, n, a),
           NEW b, b = TakeEvent(a, evs[n + 1], options)
    PROVE  LoopState(evs, options, n + 1, b)
<1>2. PICK e, key, old, new : MoreTurns(evs, options, n, e, key, old, new)
    BY OneMoreEvent
<1>1. /\ e = evs[n + 1] /\ key = GroupKey(e)
      /\ old = KeysOf(evs, options, n) /\ new = KeysOf(evs, options, n + 1)
    BY <1>2 DEF MoreTurns
<1>3. /\ a = [groups |-> a.groups, ignored |-> a.ignored, error |-> a.error] /\ a.error \in BOOLEAN
      /\ IsFiniteSet(old)
      /\ a.error <=> Fails(evs, options, n)
      /\ ~a.error => /\ a.groups = [k \in DOMAIN a.groups |-> a.groups[k]] /\ DOMAIN a.groups = old
                     /\ \A k \in old : a.groups[k] = Kept(evs, Turns(evs, options, k, n))
    BY <1>1 DEF LoopState
<1>4a. Turn(a, e, options, b)
    BY <1>1, <1>3, TurnCases
<1>4. /\ b = [groups |-> b.groups, ignored |-> b.ignored, error |-> b.error] /\ b.error \in BOOLEAN
      /\ a.error => b = a
      /\ ~a.error /\ ~SourceOK(e) => b.error
      /\ ~a.error /\ SourceOK(e) /\ ~OptedIn(e, options) => ~b.error /\ b.groups = a.groups
      /\ ~a.error /\ SourceOK(e) /\ OptedIn(e, options) /\ key \in DOMAIN a.groups =>
            ~b.error /\ b.groups = [a.groups EXCEPT ![key] = Append(@, e)]
      /\ ~a.error /\ SourceOK(e) /\ OptedIn(e, options) /\ key \notin DOMAIN a.groups =>
            /\ b.error <=> Cardinality(DOMAIN a.groups) >= options.maxGroups
            /\ ~b.error => b.groups = [k \in DOMAIN a.groups \cup {key} |-> IF k = key THEN <<e>> ELSE a.groups[k]]
    BY <1>1, <1>4a DEF Turn
<1>5. /\ new = IF OptedIn(e, options) THEN old \cup {key} ELSE old
      /\ \A k : Turns(evs, options, k, n + 1)
            = IF OptedIn(e, options) /\ key = k THEN With(Turns(evs, options, k, n), n + 1)
              ELSE Turns(evs, options, k, n)
      /\ (\E i \in 1..(n + 1) : ~SourceOK(evs[i])) <=> (\E i \in 1..n : ~SourceOK(evs[i])) \/ ~SourceOK(e)
    BY <1>2 DEF MoreTurns
<1>6. /\ IsFiniteSet(new) /\ Cardinality(old) \in Nat /\ Cardinality(new) \in Nat
      /\ Cardinality(new) = IF OptedIn(e, options) /\ key \notin old THEN Cardinality(old) + 1 ELSE Cardinality(old)
    <2>1. IsFiniteSet(old \cup {key})
          /\ Cardinality(old \cup {key}) = IF key \in old THEN Cardinality(old) ELSE Cardinality(old) + 1
        BY <1>3, FS_AddElement
    <2> QED BY <1>3, <1>5, <2>1, FS_CardinalityType
<1>7. options.maxGroups \in Nat
    BY DEF Options
<1>8. \A k : /\ Turns(evs, options, k, n) \in SUBSET (1..n)
             /\ Kept(evs, With(Turns(evs, options, k, n), n + 1)) = Append(Kept(evs, Turns(evs, options, k, n)), e)
    <2>1. \A k : Turns(evs, options, k, n) \in SUBSET (1..n)
        BY DEF Turns
    <2> QED BY <1>1, <2>1, KeptAppend
<1>9. b.error <=> Fails(evs, options, n + 1)
    <2>1. Fails(evs, options, n) <=> (\E i \in 1..n : ~SourceOK(evs[i])) \/ Cardinality(old) > options.maxGroups
        BY <1>1 DEF Fails
    <2>2. Fails(evs, options, n + 1) <=>
            (\E i \in 1..n : ~SourceOK(evs[i])) \/ ~SourceOK(e) \/ Cardinality(new) > options.maxGroups
        BY <1>1, <1>5 DEF Fails
    <2>3. CASE a.error
        <3>1. Cardinality(old) <= Cardinality(new)
            BY <1>6
        <3>2. b.error
            BY <1>4, <2>3
        <3>3. (\E i \in 1..n : ~SourceOK(evs[i])) \/ Cardinality(old) > options.maxGroups
            BY <1>3, <2>1, <2>3
        <3> QED BY <1>6, <1>7, <2>2, <3>1, <3>2, <3>3
    <2>4. CASE ~a.error /\ ~SourceOK(e)
        BY <1>4, <2>2, <2>4
    <2>5. CASE ~a.error /\ SourceOK(e) /\ ~OptedIn(e, options)
        BY <1>3, <1>4, <1>6, <2>1, <2>2, <2>5
    <2>6. CASE ~a.error /\ SourceOK(e) /\ OptedIn(e, options) /\ key \in old
        BY <1>3, <1>4, <1>6, <2>1, <2>2, <2>6
    <2>7. CASE ~a.error /\ SourceOK(e) /\ OptedIn(e, options) /\ key \notin old
        <3>1. b.error <=> Cardinality(old) >= options.maxGroups
            BY <1>3, <1>4, <2>7
        <3> QED BY <1>3, <1>6, <1>7, <2>1, <2>2, <2>7, <3>1
    <2> QED BY <2>3, <2>4, <2>5, <2>6, <2>7
<1>10. ASSUME ~b.error
       PROVE  /\ b.groups = [k \in DOMAIN b.groups |-> b.groups[k]] /\ DOMAIN b.groups = new
              /\ \A k \in new : b.groups[k] = Kept(evs, Turns(evs, options, k, n + 1))
    <2>1. ~a.error /\ SourceOK(e)
        BY <1>3, <1>4, <1>10
    <2>2. CASE ~OptedIn(e, options)
        BY <1>3, <1>4, <1>5, <2>1, <2>2
    <2>3. CASE OptedIn(e, options) /\ key \in old
        <3>1. b.groups = [a.groups EXCEPT ![key] = Append(@, e)] /\ new = old
            BY <1>3, <1>4, <1>5, <2>1, <2>3
        <3>2. b.groups = [k \in old |-> IF k = key THEN Append(a.groups[k], e) ELSE a.groups[k]]
            BY <1>3, <2>1, <3>1
        <3>3. ASSUME NEW k \in new PROVE b.groups[k] = Kept(evs, Turns(evs, options, k, n + 1))
            <4>1. CASE k = key
                <5>1. b.groups[k] = Append(Kept(evs, Turns(evs, options, k, n)), e)
                    BY <1>3, <2>1, <3>1, <3>2, <4>1
                <5>2. Turns(evs, options, k, n + 1) = With(Turns(evs, options, k, n), n + 1)
                    BY <1>5, <2>3, <4>1
                <5> QED BY <1>8, <5>1, <5>2
            <4>2. CASE k # key
                BY <1>3, <1>5, <2>1, <3>1, <3>2, <4>2
            <4> QED BY <4>1, <4>2
        <3> QED BY <3>1, <3>2, <3>3
    <2>4. CASE OptedIn(e, options) /\ key \notin old
        <3>1. /\ b.groups = [k \in old \cup {key} |-> IF k = key THEN <<e>> ELSE a.groups[k]]
              /\ new = old \cup {key}
            BY <1>3, <1>4, <1>5, <1>10, <2>1, <2>4
        <3>2. ASSUME NEW k \in new PROVE b.groups[k] = Kept(evs, Turns(evs, options, k, n + 1))
            <4>1. CASE k = key
                <5>1. Turns(evs, options, k, n + 1) = With(Turns(evs, options, k, n), n + 1)
                    BY <1>5, <2>4, <4>1
                <5>2. Turns(evs, options, k, n) = {}
                    BY <1>1, <2>4, <4>1 DEF Turns, KeysOf
                <5>3. Kept(evs, {}) = <<>>
                    BY KeptType
                <5>4. Append(<<>>, e) = <<e>>
                    OBVIOUS
                <5>5. b.groups[k] = <<e>>
                    BY <3>1, <4>1
                <5>6. Kept(evs, Turns(evs, options, k, n + 1)) = Append(Kept(evs, Turns(evs, options, k, n)), e)
                    BY <1>8, <5>1
                <5> QED BY <5>2, <5>3, <5>4, <5>5, <5>6
            <4>2. CASE k # key
                BY <1>3, <1>5, <2>1, <3>1, <4>2
            <4> QED BY <4>1, <4>2
        <3> QED BY <3>1, <3>2
    <2> QED BY <2>2, <2>3, <2>4
<1> QED BY <1>1, <1>4, <1>6, <1>9, <1>10 DEF LoopState

\* The loop has not begun.
LEMMA LoopBegins ==
    ASSUME NEW evs, NEW options \in Options
    PROVE  LoopState(evs, options, 0, NoGroups)
<1>1. 1..0 = {}
    OBVIOUS
<1>2. KeysOf(evs, options, 0) = {}
    BY <1>1 DEF KeysOf
<1>3. IsFiniteSet({}) /\ Cardinality({}) = 0 /\ options.maxGroups \in Nat
    BY FS_EmptySet DEF Options
<1>4. ~Fails(evs, options, 0)
    BY <1>1, <1>2, <1>3 DEF Fails
<1>5. /\ NoGroups = [groups |-> NoGroups.groups, ignored |-> NoGroups.ignored, error |-> NoGroups.error]
      /\ NoGroups.error = FALSE /\ NoGroups.groups = [k \in {} |-> <<>>] /\ DOMAIN NoGroups.groups = {}
    BY DEF NoGroups
<1>6. [k \in {} |-> <<>>] = [k \in {} |-> NoGroups.groups[k]]
    OBVIOUS
<1> QED BY <1>2, <1>3, <1>4, <1>5, <1>6 DEF LoopState

LoopUpTo(evs, options, n, u) ==
    u = [i \in 0..n |-> IF i = 0 THEN NoGroups ELSE TakeEvent(u[i - 1], evs[i], options)]

\* What the loop leaves behind is told by the events alone.
LEMMA LoopHolds ==
    ASSUME NEW evs \in Seq(Events), NEW options \in Options
    PROVE  LoopState(evs, options, Len(evs), Loop(evs, options)[Len(evs)])
<1>1. PICK l : l = Len(evs)
    OBVIOUS
<1>2. l \in Nat /\ DOMAIN evs = 1..l
    BY <1>1, LenProperties
<1> DEFINE G == {n \in Nat : n <= l => \E u : LoopUpTo(evs, options, n, u)}
<1>3. 0 \in G
    <2> DEFINE u == [i \in 0..0 |-> NoGroups]
    <2>1. LoopUpTo(evs, options, 0, u)
        BY DEF LoopUpTo
    <2> QED BY <2>1
<1>4. ASSUME NEW n \in Nat, n \in G PROVE n + 1 \in G
    <2> SUFFICES ASSUME n + 1 <= l PROVE \E u : LoopUpTo(evs, options, n + 1, u)
        OBVIOUS
    <2>1. PICK u : LoopUpTo(evs, options, n, u)
        BY <1>2, <1>4
    <2> DEFINE v == [i \in 0..(n + 1) |-> IF i = n + 1 THEN TakeEvent(u[n], evs[n + 1], options) ELSE u[i]]
    <2>2. u = [i \in 0..n |-> IF i = 0 THEN NoGroups ELSE TakeEvent(u[i - 1], evs[i], options)]
        BY <2>1 DEF LoopUpTo
    <2>3. ASSUME NEW i \in 0..(n + 1)
          PROVE  v[i] = IF i = 0 THEN NoGroups ELSE TakeEvent(v[i - 1], evs[i], options)
        <3>1. CASE i = n + 1
            <4>1. i # 0 /\ i - 1 = n /\ n \in 0..(n + 1) /\ n # n + 1
                BY <3>1
            <4>2. v[i] = TakeEvent(u[n], evs[i], options)
                BY <3>1
            <4>3. v[n] = u[n]
                BY <4>1
            <4> HIDE DEF v
            <4> QED BY <4>1, <4>2, <4>3
        <3>2. CASE i # n + 1
            <4>1. i \in 0..n /\ v[i] = u[i]
                BY <3>2
            <4>2. i # 0 => v[i - 1] = u[i - 1]
                BY <4>1
            <4>3. u[i] = IF i = 0 THEN NoGroups ELSE TakeEvent(u[i - 1], evs[i], options)
                BY <2>2, <4>1
            <4> QED BY <4>1, <4>2, <4>3
        <3> QED BY <3>1, <3>2
    <2>4. LoopUpTo(evs, options, n + 1, v)
        <3>1. v = [i \in 0..(n + 1) |-> v[i]]
            OBVIOUS
        <3> HIDE DEF v
        <3> QED BY <2>3, <3>1 DEF LoopUpTo
    <2> QED BY <2>4
<1>5. \E u : LoopUpTo(evs, options, l, u)
    <2> HIDE DEF G
    <2>1. l \in G
        BY <1>2, <1>3, <1>4, NumbersFill
    <2> QED BY <1>2, <2>1 DEF G
<1> DEFINE u == CHOOSE f : LoopUpTo(evs, options, l, f)
<1>6. LoopUpTo(evs, options, l, u)
    BY <1>5
<1>7. Loop(evs, options) = u
    BY <1>1 DEF Loop, LoopUpTo
<1> HIDE DEF u
<1>8. \A i \in 0..l : u[i] = IF i = 0 THEN NoGroups ELSE TakeEvent(u[i - 1], evs[i], options)
    BY <1>6 DEF LoopUpTo
<1> DEFINE H == {n \in Nat : n <= l => LoopState(evs, options, n, u[n])}
<1>9. 0 \in H
    <2>1. u[0] = NoGroups
        BY <1>2, <1>8
    <2> QED BY <2>1, LoopBegins
<1>10. ASSUME NEW n \in Nat, n \in H PROVE n + 1 \in H
    <2> SUFFICES ASSUME n + 1 <= l PROVE LoopState(evs, options, n + 1, u[n + 1])
        OBVIOUS
    <2>1. n + 1 \in 1..l /\ n + 1 \in 0..l /\ n + 1 # 0 /\ (n + 1) - 1 = n /\ n <= l
        BY <1>2
    <2>2. u[n + 1] = TakeEvent(u[n], evs[n + 1], options)
        BY <1>8, <2>1
    <2>3. LoopState(evs, options, n, u[n])
        BY <1>10, <2>1
    <2> QED BY <1>2, <2>1, <2>2, <2>3, TurnKeeps
<1>11. l \in H
    <2> HIDE DEF H
    <2> QED BY <1>2, <1>9, <1>10, NumbersFill
<1> QED BY <1>1, <1>2, <1>7, <1>11

\* An image of a finite set is finite and no larger.
LEMMA ImageFinite ==
    ASSUME NEW I, IsFiniteSet(I), NEW f
    PROVE  IsFiniteSet({f[i] : i \in I}) /\ Cardinality({f[i] : i \in I}) <= Cardinality(I)
<1> DEFINE T == {f[i] : i \in I}
           g == [i \in I |-> f[i]]
<1>1. g \in Surjection(I, T)
    BY DEF Surjection
<1> HIDE DEF T, g
<1>2. IsFiniteSet(T) /\ Cardinality(T) <= Cardinality(I)
    BY <1>1, FS_Surjection
<1> QED BY <1>2 DEF T

\* What readPackages returns, told from the events alone.
ReadAs(evs, options, l, R) ==
    /\ l = Len(evs) /\ R = ReadPackages(evs, options)
    /\ R.error \in BOOLEAN
    /\ R.error <=> l > options.maxEvents \/ Fails(evs, options, l)
    /\ R.error => DOMAIN R.packages = {}
    /\ ~R.error => /\ DOMAIN R.packages = KeysOf(evs, options, l)
                   /\ \A k \in KeysOf(evs, options, l) : R.packages[k] = Evaluate(Kept(evs, Turns(evs, options, k, l)))

\* readPackages returns that.
LEMMA ReadIs ==
    ASSUME NEW evs \in Seq(Events), NEW options \in Options
    PROVE  \E l, R : ReadAs(evs, options, l, R)
<1>1. PICK l, R, end : l = Len(evs) /\ R = ReadPackages(evs, options) /\ end = Loop(evs, options)[l]
    OBVIOUS
<1>2. LoopState(evs, options, l, end)
    BY <1>1, LoopHolds
<1>3. l \in Nat /\ options.maxEvents \in Nat
    BY <1>1, LenProperties DEF Options
<1>4. CASE l > options.maxEvents \/ end.error
    <2>1. R = [error |-> TRUE, packages |-> [k \in {} |-> <<>>], ignored |-> 0]
        BY <1>1, <1>4 DEF ReadPackages
    <2>2. R.error = TRUE /\ R.packages = [k \in {} |-> <<>>]
        BY <2>1
    <2>3. DOMAIN R.packages = {}
        BY <2>2
    <2> QED BY <1>1, <1>2, <1>4, <2>2, <2>3 DEF ReadAs, LoopState
<1>5. CASE ~(l > options.maxEvents \/ end.error)
    <2>1. R = [error |-> FALSE, ignored |-> end.ignored,
               packages |-> [k \in DOMAIN end.groups |-> Evaluate(end.groups[k])]]
        BY <1>1, <1>5 DEF ReadPackages
    <2>2. R.error = FALSE /\ R.packages = [k \in DOMAIN end.groups |-> Evaluate(end.groups[k])]
        BY <2>1
    <2>3. /\ DOMAIN end.groups = KeysOf(evs, options, l)
          /\ \A k \in KeysOf(evs, options, l) : end.groups[k] = Kept(evs, Turns(evs, options, k, l))
          /\ ~Fails(evs, options, l)
        BY <1>2, <1>5 DEF LoopState
    <2>4. \A k \in KeysOf(evs, options, l) : R.packages[k] = Evaluate(Kept(evs, Turns(evs, options, k, l)))
        BY <2>2, <2>3
    <2> QED BY <1>1, <1>5, <2>2, <2>3, <2>4 DEF ReadAs
<1> QED BY <1>4, <1>5

-----------------------------------------------------------------------------
(* One group's package *)

\* An event is its fields.
LEMMA EventFields ==
    ASSUME NEW d \in Events
    PROVE  /\ d = [network |-> d.network, contract |-> d.contract, hash |-> d.hash,
                   segment |-> d.segment, position |-> d.position, value |-> d.value]
           /\ d.network \in Networks /\ d.contract \in Contracts /\ d.hash \in Hashes
           /\ d.segment \in Nat /\ d.position \in Int
           /\ d.value = [name |-> d.value.name, part |-> d.value.part, long |-> d.value.long]
           /\ d.value.name \in Names /\ d.value.part \in Parts /\ d.value.long \in BOOLEAN
BY DEF Events, Values

\* Two events of one group are the same when position and value are.
LEMMA SameEvent ==
    ASSUME NEW d \in Events, NEW e \in Events, GroupKey(d) = GroupKey(e)
    PROVE  d = e <=> d.position = e.position /\ d.value = e.value
<1>1. /\ d.network = e.network /\ d.contract = e.contract
      /\ d.hash = e.hash /\ d.segment = e.segment
    BY DEF GroupKey
<1> QED BY <1>1, EventFields

\* The well-formed deliveries of a group, and their positions.
Formed(ds) == {j \in DOMAIN ds : ~ds[j].value.long}

Places(ds) == {ds[i].position : i \in Formed(ds)}

\* f is the first well-formed delivery of its position.
IsFirst(ds, f) ==
    /\ f \in Formed(ds)
    /\ \A j \in Formed(ds) : ds[j].position = ds[f].position => f <= j

\* A position with a well-formed delivery has a first one, which FirstAt takes.
LEMMA FirstTaken ==
    ASSUME NEW ds \in Seq(Events), NEW pos \in Places(ds)
    PROVE  \E f : IsFirst(ds, f) /\ ds[f].position = pos /\ FirstAt(ds, pos) = ds[f]
<1>1. PICK I : I = {i \in Formed(ds) : ds[i].position = pos}
    OBVIOUS
<1>2. PICK l : l = Len(ds)
    OBVIOUS
<1>3. l \in Nat /\ DOMAIN ds = 1..l
    BY <1>2, LenProperties
<1>4. I \in SUBSET (1..l) /\ I # {}
    BY <1>1, <1>3 DEF Formed, Places
<1>5. PICK n, g : n = Cardinality(I) /\ n \in Nat /\ Rising(g, n, I)
    BY <1>3, <1>4, IndicesRise
<1>6. n # 0 /\ 1 \in 1..n /\ g[1] \in I /\ \A i \in I : g[1] <= i
    <2>1. PICK x \in I : TRUE
        BY <1>4
    <2>2. PICK i \in 1..n : g[i] = x
        BY <1>5 DEF Rising
    <2>3. 1 \in 1..n /\ n # 0
        BY <1>5, <2>2
    <2>4. g[1] \in I
        BY <1>5, <2>3 DEF Rising
    <2>5. ASSUME NEW y \in I PROVE g[1] <= y
        <3>1. PICK j \in 1..n : g[j] = y
            BY <1>5 DEF Rising
        <3>2. g[1] \in Nat /\ g[j] \in Nat /\ (j = 1 \/ 1 < j)
            <4>1. \A z \in I : z \in Nat
                BY <1>3, <1>4
            <4>2. j = 1 \/ 1 < j
                OBVIOUS
            <4> QED BY <2>4, <3>1, <4>1, <4>2
        <3>3. 1 < j => g[1] < g[j]
            BY <1>5, <2>3 DEF Rising
        <3> QED BY <3>1, <3>2, <3>3
    <2> QED BY <2>3, <2>4, <2>5
<1>7. PICK f : f = g[1]
    OBVIOUS
<1>8. f \in I /\ \A i \in I : f <= i
    BY <1>6, <1>7
<1>9. IsFirst(ds, f) /\ ds[f].position = pos
    BY <1>1, <1>8 DEF IsFirst
<1>10. FirstAt(ds, pos) = ds[f]
    <2>1. \A i \in DOMAIN ds :
            (/\ ds[i].position = pos /\ ~ds[i].value.long
             /\ \A j \in DOMAIN ds : ds[j].position = pos /\ ~ds[j].value.long => i <= j) <=> i = f
        <3>1. \A i \in DOMAIN ds : i \in Nat
            BY <1>3
        <3>2. \A i \in DOMAIN ds : i \in I <=> ds[i].position = pos /\ ~ds[i].value.long
            BY <1>1 DEF Formed
        <3>3. f \in DOMAIN ds
            BY <1>3, <1>4, <1>8
        <3> QED BY <1>8, <3>1, <3>2, <3>3
    <2>2. f \in DOMAIN ds
        BY <1>3, <1>4, <1>8
    <2> QED BY <2>1, <2>2 DEF FirstAt
<1> QED BY <1>9, <1>10

\* The positions of a group's well-formed deliveries are finitely many integers.
LEMMA PlacesFinite ==
    ASSUME NEW ds \in Seq(Events)
    PROVE  Places(ds) \in SUBSET Int /\ IsFiniteSet(Places(ds))
<1>1. PICK l : l = Len(ds)
    OBVIOUS
<1>2. l \in Nat /\ DOMAIN ds = 1..l
    BY <1>1, LenProperties
<1>3. \A i \in DOMAIN ds : ds[i] \in Events /\ ds[i].position \in Int
    <2>1. \A i \in 1..l : ds[i] \in Events
        BY <1>1, ElementOfSeq
    <2> QED BY <1>2, <2>1, EventFields
<1>4. Formed(ds) \in SUBSET (1..l)
    BY <1>2 DEF Formed
<1>5. IsFiniteSet(Formed(ds))
    BY <1>2, <1>4, IndicesRise
<1> DEFINE f == [i \in Formed(ds) |-> ds[i].position]
<1>6. Places(ds) = {f[i] : i \in Formed(ds)}
    BY DEF Places
<1> HIDE DEF f
<1>7. IsFiniteSet(Places(ds))
    BY <1>5, <1>6, ImageFinite
<1>8. Places(ds) \in SUBSET Int
    BY <1>3 DEF Places, Formed
<1> QED BY <1>7, <1>8

\* Two deliveries of one identity differ, or one is malformed.
Clash(ds) ==
    \E i, j \in DOMAIN ds : ds[i].value.long \/ (ds[i].position = ds[j].position /\ ds[i] # ds[j])

\* The package of one group: its positions are those of the well-formed deliveries in
\* ascending order, each part is that of the first such delivery of its position.
PackageOf(ds, n, pkg) ==
    /\ pkg = Evaluate(ds)
    /\ n \in Nat /\ Rising(pkg.positions, n, Places(ds)) /\ pkg.positions = Ascending(Places(ds))
    /\ pkg.parts \in Seq(Parts) /\ DOMAIN pkg.parts = 1..n /\ DOMAIN pkg.positions = 1..n
    /\ \A k \in 1..n : \E f : /\ IsFirst(ds, f) /\ ds[f].position = pkg.positions[k]
                              /\ pkg.parts[k] = ds[f].value.part
    /\ pkg.status \in {"accepted", "rejected"}
    /\ pkg.status = "rejected" <=> Clash(ds)

\* A group's deliveries conflict when one identity has two contents, or one is malformed.
LEMMA ConflictIsClash ==
    ASSUME NEW ds \in Seq(Events), \A i, j \in DOMAIN ds : GroupKey(ds[i]) = GroupKey(ds[j])
    PROVE  Conflicting(ds) <=> Clash(ds)
<1>1. \A i \in DOMAIN ds : ds[i] \in Events
    BY ElementOfSeq
<1>2. \A i, j \in DOMAIN ds : ds[i] = ds[j] <=> ds[i].position = ds[j].position /\ ds[i].value = ds[j].value
    BY <1>1, SameEvent
<1>3. CASE \E i \in DOMAIN ds : ds[i].value.long
    BY <1>3 DEF Conflicting, Clash
<1>4. CASE \A i \in DOMAIN ds : ~ds[i].value.long
    <2>1. \A i \in DOMAIN ds : \E f \in DOMAIN ds :
            ds[f].position = ds[i].position /\ FirstAt(ds, ds[i].position) = ds[f]
        <3>1. TAKE i \in DOMAIN ds
        <3>2. ds[i].position \in Places(ds)
            BY <1>4 DEF Places, Formed
        <3>3. PICK f : IsFirst(ds, f) /\ ds[f].position = ds[i].position /\ FirstAt(ds, ds[i].position) = ds[f]
            BY <3>2, FirstTaken
        <3> QED BY <3>3 DEF IsFirst, Formed
    <2>2. Conflicting(ds) <=> \E i \in DOMAIN ds : ds[i].value # FirstAt(ds, ds[i].position).value
        BY <1>4 DEF Conflicting
    <2>3. Clash(ds) <=> \E i, j \in DOMAIN ds : ds[i].position = ds[j].position /\ ds[i] # ds[j]
        BY <1>4 DEF Clash
    <2>4. ASSUME NEW i \in DOMAIN ds, ds[i].value # FirstAt(ds, ds[i].position).value PROVE Clash(ds)
        <3>1. PICK f \in DOMAIN ds : ds[f].position = ds[i].position /\ FirstAt(ds, ds[i].position) = ds[f]
            BY <2>1
        <3>2. ds[i] # ds[f]
            BY <2>4, <3>1
        <3> QED BY <2>3, <3>1, <3>2
    <2>5. ASSUME NEW i \in DOMAIN ds, NEW j \in DOMAIN ds, ds[i].position = ds[j].position, ds[i] # ds[j]
          PROVE  Conflicting(ds)
        <3>1. PICK f \in DOMAIN ds : ds[f].position = ds[i].position /\ FirstAt(ds, ds[i].position) = ds[f]
            BY <2>1
        <3>2. ds[i].value # ds[j].value
            BY <1>2, <2>5
        <3>3. ds[i].value # ds[f].value \/ ds[j].value # ds[f].value
            BY <3>2
        <3> QED BY <2>2, <2>5, <3>1, <3>3
    <2> QED BY <2>2, <2>3, <2>4, <2>5
<1> QED BY <1>3, <1>4

\* evaluate makes such a package.
LEMMA EvaluateIs ==
    ASSUME NEW ds \in Seq(Events), \A i, j \in DOMAIN ds : GroupKey(ds[i]) = GroupKey(ds[j])
    PROVE  \E n, pkg : PackageOf(ds, n, pkg)
<1>1. PICK pkg, order : pkg = Evaluate(ds) /\ order = Ascending(Places(ds))
    OBVIOUS
<1>2. InOrder(ds) = order
    BY <1>1 DEF InOrder, Places, Formed
<1>3. pkg = [positions |-> order, parts |-> [k \in DOMAIN order |-> FirstAt(ds, order[k]).value.part],
             status |-> IF Conflicting(ds) THEN "rejected" ELSE "accepted", deliveries |-> Len(ds)]
    BY <1>1, <1>2 DEF Evaluate
<1>4. /\ pkg.positions = order /\ pkg.parts = [k \in DOMAIN order |-> FirstAt(ds, order[k]).value.part]
      /\ pkg.status = IF Conflicting(ds) THEN "rejected" ELSE "accepted"
    BY <1>3
<1>5. PICK n : n \in Nat /\ Rising(order, n, Places(ds))
    BY <1>1, PlacesFinite, AscendingRises
<1>6. DOMAIN order = 1..n /\ \A k \in 1..n : order[k] \in Places(ds)
    BY <1>5 DEF Rising
<1>7. \A k \in 1..n : \E f : /\ IsFirst(ds, f) /\ ds[f].position = order[k]
                             /\ FirstAt(ds, order[k]).value.part = ds[f].value.part
                             /\ ds[f].value.part \in Parts
    <2>1. TAKE k \in 1..n
    <2>2. PICK f : IsFirst(ds, f) /\ ds[f].position = order[k] /\ FirstAt(ds, order[k]) = ds[f]
        BY <1>6, FirstTaken
    <2>3. ds[f] \in Events
        BY <2>2, ElementOfSeq DEF IsFirst, Formed
    <2> QED BY <2>2, <2>3, EventFields
<1>8. pkg.parts \in [1..n -> Parts]
    BY <1>4, <1>6, <1>7
<1>9. pkg.parts \in Seq(Parts)
    BY <1>5, <1>8, SeqDef
<1>10. \A k \in 1..n : \E f : /\ IsFirst(ds, f) /\ ds[f].position = pkg.positions[k]
                              /\ pkg.parts[k] = ds[f].value.part
    BY <1>4, <1>6, <1>7
<1>11. pkg.status = "rejected" <=> Clash(ds)
    BY <1>4, ConflictIsClash
<1>12. pkg.status \in {"accepted", "rejected"}
    BY <1>4
<1> QED BY <1>1, <1>4, <1>5, <1>6, <1>8, <1>9, <1>10, <1>11, <1>12 DEF PackageOf

\* ds are the opted-in deliveries of group k.
GroupOf(evs, options, k, ds) ==
    /\ ds = Kept(evs, Turns(evs, options, k, Len(evs))) /\ ds \in Seq(Events)
    /\ \A i \in DOMAIN ds : /\ OptedIn(ds[i], options) /\ GroupKey(ds[i]) = k
                            /\ \E j \in 1..Len(evs) : ds[i] = evs[j]
    /\ \A j \in 1..Len(evs) : OptedIn(evs[j], options) /\ GroupKey(evs[j]) = k =>
            \E i \in DOMAIN ds : ds[i] = evs[j]

\* The turns of a group take its deliveries.
LEMMA TurnsAreGroup ==
    ASSUME NEW evs \in Seq(Events), NEW options, NEW k
    PROVE  \E ds : GroupOf(evs, options, k, ds)
<1>1. PICK l, I, ds : l = Len(evs) /\ I = Turns(evs, options, k, l) /\ ds = Kept(evs, I)
    OBVIOUS
<1>2. l \in Nat /\ DOMAIN evs = 1..l
    BY <1>1, LenProperties
<1>3. /\ I \in SUBSET (DOMAIN evs)
      /\ \A i \in DOMAIN evs : i \in I <=> OptedIn(evs[i], options) /\ GroupKey(evs[i]) = k
    BY <1>1, <1>2 DEF Turns
<1>4. /\ ds \in Seq(Events)
      /\ \A i \in DOMAIN ds : \E j \in I : ds[i] = evs[j]
      /\ \A j \in I : \E i \in DOMAIN ds : ds[i] = evs[j]
    BY <1>1, <1>3, KeptType
<1> QED BY <1>1, <1>2, <1>3, <1>4 DEF GroupOf

\* A package that was read: of deliveries ds of group k, at n positions.
PackageRead(evs, options, R, k, ds, n) ==
    /\ GroupOf(evs, options, k, ds)
    /\ PackageOf(ds, n, R.packages[k])

\* Every package of a read is of such deliveries.
LEMMA PackagesAre ==
    ASSUME NEW evs \in Seq(Events), NEW options \in Options, NEW l, NEW R, ReadAs(evs, options, l, R), ~R.error,
           NEW k \in KeysOf(evs, options, l)
    PROVE  \E ds, n : PackageRead(evs, options, R, k, ds, n)
<1>1. PICK ds : GroupOf(evs, options, k, ds)
    BY TurnsAreGroup
<1>2. ds \in Seq(Events) /\ \A i, j \in DOMAIN ds : GroupKey(ds[i]) = GroupKey(ds[j])
    BY <1>1 DEF GroupOf
<1>3. PICK n, pkg : PackageOf(ds, n, pkg)
    BY <1>2, EvaluateIs
<1>4. pkg = Evaluate(ds)
    BY <1>3 DEF PackageOf
<1>5. R.packages[k] = Evaluate(ds)
    BY <1>1 DEF ReadAs, GroupOf
<1> QED BY <1>1, <1>3, <1>4, <1>5 DEF PackageRead

\* The deliveries come once per position, in order, well-formed.
Clean(ds) ==
    /\ \A i \in DOMAIN ds : ~ds[i].value.long
    /\ \A i, j \in DOMAIN ds : i < j => ds[i].position < ds[j].position

\* Such a group's package is accepted and has its payloads in that order.
LEMMA CleanPackage ==
    ASSUME NEW ds \in Seq(Events), NEW n, NEW pkg, PackageOf(ds, n, pkg), Clean(ds)
    PROVE  pkg.status = "accepted" /\ n = Len(ds) /\ pkg.parts = [i \in DOMAIN ds |-> ds[i].value.part]
<1>1. PICK l : l = Len(ds)
    OBVIOUS
<1>2. l \in Nat /\ DOMAIN ds = 1..l
    BY <1>1, LenProperties
<1>3. \A i \in 1..l : ds[i].position \in Int
    <2>1. \A i \in 1..l : ds[i] \in Events
        BY <1>1, ElementOfSeq
    <2> QED BY <2>1, EventFields
<1>4. Formed(ds) = 1..l
    BY <1>2 DEF Clean, Formed
<1> DEFINE f == [i \in 1..l |-> ds[i].position]
<1>5. Rising(f, l, Places(ds))
    <2>1. f \in [1..l -> Places(ds)]
        BY <1>4 DEF Places
    <2>2. \A x \in Places(ds) : \E i \in 1..l : f[i] = x
        BY <1>4 DEF Places
    <2>3. \A i, j \in 1..l : i < j => f[i] < f[j]
        BY <1>2 DEF Clean
    <2> HIDE DEF f
    <2> QED BY <2>1, <2>2, <2>3 DEF Rising
<1>6. Places(ds) \in SUBSET Int
    BY PlacesFinite
<1> HIDE DEF f
<1>7. f = Ascending(Places(ds))
    BY <1>2, <1>5, <1>6, RisingIsAscending
<1>8. pkg.positions = f /\ DOMAIN pkg.parts = 1..n /\ DOMAIN pkg.positions = 1..n /\ n \in Nat
    BY <1>7 DEF PackageOf
<1>9. 1..n = 1..l
    BY <1>8 DEF f
<1>10. n = l
    BY <1>2, <1>8, <1>9
<1>11. \A i, j \in 1..l : ds[i].position = ds[j].position => i = j
    <2>1. \A i, j \in 1..l : i < j => ds[i].position # ds[j].position
        BY <1>2, <1>3 DEF Clean
    <2>2. \A i, j \in 1..l : i = j \/ i < j \/ j < i
        BY <1>2
    <2> QED BY <2>1, <2>2
<1>12. \A k \in 1..l : pkg.parts[k] = ds[k].value.part
    <2>1. TAKE k \in 1..l
    <2>2. PICK i : IsFirst(ds, i) /\ ds[i].position = pkg.positions[k] /\ pkg.parts[k] = ds[i].value.part
        BY <1>10 DEF PackageOf
    <2>3. i \in 1..l /\ ds[i].position = ds[k].position
        BY <1>4, <1>8, <2>2 DEF IsFirst, f
    <2> QED BY <1>11, <2>2, <2>3
<1>13. pkg.parts = [i \in DOMAIN ds |-> ds[i].value.part]
    <2>1. pkg.parts = [i \in 1..l |-> pkg.parts[i]]
        BY <1>8, <1>10, LenProperties DEF PackageOf
    <2> QED BY <1>2, <1>12, <2>1
<1>14. ~Clash(ds)
    <2>1. \A i, j \in DOMAIN ds : ds[i].position = ds[j].position => ds[i] = ds[j]
        BY <1>2, <1>11
    <2> QED BY <2>1 DEF Clash, Clean
<1> QED BY <1>1, <1>10, <1>13, <1>14 DEF PackageOf

-----------------------------------------------------------------------------
(* The raw transaction as reader input *)

\* The elements of s that are in M.
Those(s, M) == Kept(s, Where(s, M))

Id(M) == [x \in M |-> x]

\* Gathering by the identity takes those elements.
LEMMA GatherId ==
    ASSUME NEW T, NEW M, NEW s \in Seq(T)
    PROVE  /\ Maps(Id(M), M, M)
           /\ Gather(s, M, Id(M)) = Those(s, M) /\ Those(s, M) \in Seq(T)
           /\ \A k \in DOMAIN Those(s, M) : Those(s, M)[k] \in M
<1>1. Where(s, M) \in SUBSET (DOMAIN s)
    BY DEF Where
<1>2. /\ Those(s, M) \in Seq(T)
      /\ \A k \in DOMAIN Those(s, M) : \E i \in Where(s, M) : Those(s, M)[k] = s[i]
    BY <1>1, KeptType DEF Those
<1>3. \A k \in DOMAIN Those(s, M) : Those(s, M)[k] \in M
    BY <1>2 DEF Where
<1>4. PICK t : t = Those(s, M)
    OBVIOUS
<1>5. Gather(s, M, Id(M)) = [k \in DOMAIN t |-> Id(M)[t[k]]]
    BY <1>4 DEF Gather, Those
<1>6. \A k \in DOMAIN t : Id(M)[t[k]] = t[k]
    BY <1>3, <1>4 DEF Id
<1>7. t = [k \in DOMAIN t |-> t[k]]
    BY <1>2, <1>4, LenProperties
<1>8. Gather(s, M, Id(M)) = t
    BY <1>5, <1>6, <1>7
<1> QED BY <1>2, <1>3, <1>4, <1>8 DEF Maps, Id

\* Gathering parts is reading off the parts of those elements.
LEMMA PartsOfThose ==
    ASSUME NEW k, NEW s \in Seq(Events)
    PROVE  Gather(s, OfGroup(k), EventPart(k)) = [i \in DOMAIN Those(s, OfGroup(k)) |-> Those(s, OfGroup(k))[i].value.part]
<1>1. \A i \in DOMAIN Those(s, OfGroup(k)) : Those(s, OfGroup(k))[i] \in OfGroup(k)
    BY GatherId
<1>2. \A i \in DOMAIN Those(s, OfGroup(k)) :
        EventPart(k)[Those(s, OfGroup(k))[i]] = Those(s, OfGroup(k))[i].value.part
    BY <1>1 DEF EventPart
<1> QED BY <1>2 DEF Gather, Those

\* The events of one intent.
Row(t, net, c, h, s) ==
    [j \in DOMAIN Activity(t, s, c) |->
        Event(net, c, h, s, j - 1, Value(Activity(t, s, c)[j].name, Activity(t, s, c)[j].part))]

\* The events partEventsFromTransaction can make.
RawEvents(t, net, c, h) ==
    {e \in Events : /\ e.network = net /\ e.contract = c /\ e.hash = h
                    /\ e.segment \in DOMAIN t.intents /\ e.position \in Nat /\ ~e.value.long}

\* What a row holds.
RowShape(t, net, c, h, s, act, row) ==
    /\ act = Activity(t, s, c) /\ act \in Seq(Entries)
    /\ row = Row(t, net, c, h, s) /\ row \in Seq(RawEvents(t, net, c, h)) /\ row \in Seq(Events)
    /\ Len(row) = Len(act)
    /\ \A j \in 1..Len(act) : row[j] = Event(net, c, h, s, j - 1, Value(act[j].name, act[j].part))
    /\ \A j \in 1..Len(act) : row[j] \in RawEvents(t, net, c, h) /\ row[j].position = j - 1

\* A row holds one event for each entry of the intent's activity.
LEMMA RowIs ==
    ASSUME NEW t, IsTx(t), NEW net \in Networks, NEW c \in Contracts, NEW h \in Hashes, NEW s \in DOMAIN t.intents
    PROVE  \E act, row : RowShape(t, net, c, h, s, act, row)
<1>1. PICK act, row, l : act = Activity(t, s, c) /\ row = Row(t, net, c, h, s) /\ l = Len(act)
    OBVIOUS
<1> DEFINE target == [contract |-> c, name |-> None]
<1>2. act \in Seq(Entries)
    <2>1. Activity(t, s, target.contract) \in Seq(Entries)
        BY RawGather
    <2> QED BY <1>1, <2>1
<1>3. l \in Nat /\ DOMAIN act = 1..l
    BY <1>1, <1>2, LenProperties
<1>4. row = [j \in 1..l |-> Event(net, c, h, s, j - 1, Value(act[j].name, act[j].part))]
    BY <1>1, <1>3 DEF Row
<1>5. s \in Nat
    BY ActionTypes, SegmentAssumption DEF Segments
<1>6. \A j \in 1..l : /\ row[j] = Event(net, c, h, s, j - 1, Value(act[j].name, act[j].part))
                      /\ row[j] \in RawEvents(t, net, c, h) /\ row[j].position = j - 1
    <2>1. TAKE j \in 1..l
    <2>2. act[j] \in Entries
        BY <1>1, <1>2, ElementOfSeq
    <2>3. act[j].name \in Names /\ act[j].part \in Parts
        BY <2>2 DEF Entries
    <2>4. PICK v : v = Value(act[j].name, act[j].part)
        OBVIOUS
    <2>5. v \in Values /\ v.long = FALSE
        BY <2>3, <2>4 DEF Value, Values
    <2>6. row[j] = [network |-> net, contract |-> c, hash |-> h, segment |-> s, position |-> j - 1, value |-> v]
        BY <1>4, <2>4 DEF Event
    <2>7. j - 1 \in Nat /\ j - 1 \in Int
        BY <1>3
    <2>8. row[j] \in Events
        BY <1>5, <2>5, <2>6, <2>7 DEF Events
    <2> QED BY <1>4, <2>5, <2>6, <2>7, <2>8 DEF RawEvents
<1>7. row \in [1..l -> RawEvents(t, net, c, h)]
    BY <1>4, <1>6
<1>8. row \in Seq(RawEvents(t, net, c, h))
    BY <1>3, <1>7, SeqDef
<1>9. RawEvents(t, net, c, h) \subseteq Events
    BY DEF RawEvents
<1>10. row \in Seq(Events)
    BY <1>8, <1>9, SeqMonotonic
<1>11. Len(row) = l
    <2>1. DOMAIN row = 1..l
        BY <1>4
    <2> QED BY <1>3, <1>8, <2>1, LenProperties
<1> QED BY <1>1, <1>2, <1>6, <1>8, <1>10, <1>11 DEF RowShape

\* Those elements of a sequence whose positions increase come in increasing positions.
LEMMA ThoseClean ==
    ASSUME NEW s \in Seq(Events), NEW M,
           \A i \in DOMAIN s : s[i] \in M => ~s[i].value.long,
           \A i, j \in DOMAIN s : i < j => s[i].position < s[j].position
    PROVE  Clean(Those(s, M))
<1>1. PICK l, I : l = Len(s) /\ I = Where(s, M)
    OBVIOUS
<1>2. l \in Nat /\ DOMAIN s = 1..l /\ I \in SUBSET (1..l)
    BY <1>1, LenProperties DEF Where
<1>3. PICK m, f : m = Cardinality(I) /\ f = Ascending(I) /\ m \in Nat /\ Rising(f, m, I) /\ I \in SUBSET Int
    BY <1>2, IndicesRise
<1>4. Those(s, M) = [k \in 1..m |-> s[f[k]]]
    BY <1>1, <1>3, KeptAlong DEF Those
<1>5. \A k \in 1..m : f[k] \in DOMAIN s /\ s[f[k]] \in M
    BY <1>1, <1>2, <1>3 DEF Rising, Where
<1>6. \A i, j \in 1..m : i < j => f[i] < f[j]
    BY <1>3 DEF Rising
<1> QED BY <1>4, <1>5, <1>6 DEF Clean

\* One row, asked for a group: the payloads its intent logs under the name, in order.
LEMMA RowGroup ==
    ASSUME NEW t, IsTx(t), NEW net \in Networks, NEW c \in Contracts, NEW h \in Hashes, NEW s \in DOMAIN t.intents,
           NEW n, NEW act, NEW row, RowShape(t, net, c, h, s, act, row),
           NEW k, k = Group(net, c, n, h, s)
    PROVE  /\ Gather(row, OfGroup(k), EventPart(k)) = Gather(act, Under(n), EntryPart(n))
           /\ Clean(Those(row, OfGroup(k)))
<1>1. PICK l : l = Len(act)
    OBVIOUS
<1>2. /\ l \in Nat /\ DOMAIN act = 1..l /\ DOMAIN row = 1..l
      /\ act \in Seq(Entries) /\ row \in Seq(Events) /\ Len(row) = l
    BY <1>1, LenProperties DEF RowShape
<1>3. \A j \in 1..l : act[j] \in Entries
    BY <1>1, <1>2, ElementOfSeq
<1>4. \A j \in 1..l : /\ row[j] \in Events
                      /\ row[j] = Event(net, c, h, s, j - 1, Value(act[j].name, act[j].part))
                      /\ row[j].position = j - 1 /\ ~row[j].value.long
    BY <1>1 DEF RowShape, RawEvents
<1>5. \A j \in 1..l : /\ (row[j] \in OfGroup(k)) = (act[j] \in Under(n))
                      /\ row[j] \in OfGroup(k) => EventPart(k)[row[j]] = EntryPart(n)[act[j]]
    <2>1. TAKE j \in 1..l
    <2>2. /\ row[j].network = net /\ row[j].contract = c /\ row[j].hash = h /\ row[j].segment = s
          /\ row[j].value.name = act[j].name /\ row[j].value.part = act[j].part
        <3>1. PICK v : v = Value(act[j].name, act[j].part)
            OBVIOUS
        <3>2. row[j] = [network |-> net, contract |-> c, hash |-> h, segment |-> s, position |-> j - 1, value |-> v]
            BY <1>4, <3>1 DEF Event
        <3>3. v.name = act[j].name /\ v.part = act[j].part
            BY <3>1 DEF Value
        <3> QED BY <3>2, <3>3
    <2>3. GroupKey(row[j]) = Group(net, c, act[j].name, h, s)
        BY <2>2 DEF GroupKey, Group
    <2>4. row[j] \in OfGroup(k) <=> GroupKey(row[j]) = k
        BY <1>4 DEF OfGroup
    <2>5. GroupKey(row[j]) = k <=> act[j].name = n
        BY <2>3 DEF Group
    <2>6. act[j] \in Under(n) <=> act[j].name = n
        BY <1>3 DEF Under
    <2>7. row[j] \in OfGroup(k) => EventPart(k)[row[j]] = row[j].value.part
        BY DEF EventPart
    <2>8. act[j] \in Under(n) => EntryPart(n)[act[j]] = act[j].part
        BY DEF EntryPart
    <2> QED BY <2>2, <2>4, <2>5, <2>6, <2>7, <2>8
<1>6. Matched(row, OfGroup(k), EventPart(k), act, Under(n), EntryPart(n))
    BY <1>1, <1>2, <1>5 DEF Matched
<1>7. Maps(EventPart(k), OfGroup(k), Parts) /\ Maps(EntryPart(n), Under(n), Parts)
    BY EventPartMaps, PartMaps
<1>8. Gather(row, OfGroup(k), EventPart(k)) = Gather(act, Under(n), EntryPart(n))
    BY <1>2, <1>6, <1>7, GatherMapped
<1>9. \A i, j \in DOMAIN row : i < j => row[i].position < row[j].position
    BY <1>2, <1>4
<1>10. \A i \in DOMAIN row : row[i] \in OfGroup(k) => ~row[i].value.long
    BY <1>2, <1>4
<1>11. Clean(Those(row, OfGroup(k)))
    BY <1>2, <1>9, <1>10, ThoseClean
<1> QED BY <1>8, <1>11

\* The rows of every segment.
Rows(t, net, c, h) == [s \in Segments |-> IF s \notin DOMAIN t.intents THEN <<>> ELSE Row(t, net, c, h, s)]

\* partEventsFromTransaction joins rows of such events.
LEMMA RowsType ==
    ASSUME NEW t, IsTx(t), NEW net \in Networks, NEW c \in Contracts, NEW h \in Hashes
    PROVE  /\ Rows(t, net, c, h) \in Seq(Seq(RawEvents(t, net, c, h)))
           /\ Rows(t, net, c, h) \in Seq(Seq(Events))
           /\ Len(Rows(t, net, c, h)) = MaxSegment
           /\ PartEvents(t, net, c, h) = Joined(Rows(t, net, c, h))
           /\ PartEvents(t, net, c, h) \in Seq(RawEvents(t, net, c, h))
           /\ PartEvents(t, net, c, h) \in Seq(Events)
<1>1. PICK rows, T : rows = Rows(t, net, c, h) /\ T = RawEvents(t, net, c, h)
    OBVIOUS
<1>2. MaxSegment \in Nat /\ rows = [s \in 1..MaxSegment |-> IF s \notin DOMAIN t.intents THEN <<>> ELSE Row(t, net, c, h, s)]
    BY <1>1, SegmentAssumption DEF Rows, Segments
<1>3. T \subseteq Events
    BY <1>1 DEF RawEvents
<1>4. \A s \in 1..MaxSegment : rows[s] \in Seq(T) /\ rows[s] \in Seq(Events)
    <2>1. TAKE s \in 1..MaxSegment
    <2>2. CASE s \notin DOMAIN t.intents
        <3>1. rows[s] = <<>>
            BY <1>2, <2>2
        <3> QED BY <3>1, EmptySeq
    <2>3. CASE s \in DOMAIN t.intents
        <3>1. rows[s] = Row(t, net, c, h, s)
            BY <1>2, <2>3
        <3>2. PICK act, row : RowShape(t, net, c, h, s, act, row)
            BY <2>3, RowIs
        <3> QED BY <1>1, <3>1, <3>2 DEF RowShape
    <2> QED BY <2>2, <2>3
<1>5. rows \in [1..MaxSegment -> Seq(T)] /\ rows \in [1..MaxSegment -> Seq(Events)]
    BY <1>2, <1>4
<1>6. rows \in Seq(Seq(T)) /\ rows \in Seq(Seq(Events))
    BY <1>2, <1>5, SeqDef
<1>7. Len(rows) = MaxSegment
    <2>1. DOMAIN rows = 1..MaxSegment
        BY <1>2
    <2> QED BY <1>2, <1>6, <2>1, LenProperties
<1>8. PartEvents(t, net, c, h) = Joined(rows)
    BY <1>1 DEF PartEvents, Rows, Row
<1>9. Joined(rows) \in Seq(T) /\ Joined(rows) \in Seq(Events)
    BY <1>6, JoinedType
<1> QED BY <1>1, <1>6, <1>7, <1>8, <1>9

\* partEventsFromTransaction's events of a group: those of its intent's row.
LEMMA RowsGroup ==
    ASSUME NEW t, IsTx(t), NEW net \in Networks, NEW target, target.contract \in Contracts, NEW h \in Hashes,
           NEW s \in DOMAIN t.intents
    PROVE  \E k, pe, ds :
            /\ k = Group(net, target.contract, target.name, h, s) /\ pe = PartEvents(t, net, target.contract, h)
            /\ ds = Those(pe, OfGroup(k)) /\ ds \in Seq(Events) /\ Clean(ds)
            /\ RawParts(t, target, s) = [i \in DOMAIN ds |-> ds[i].value.part]
<1>1. PICK k, pe, c, n, M :
        /\ c = target.contract /\ n = target.name
        /\ k = Group(net, c, n, h, s) /\ pe = PartEvents(t, net, c, h) /\ M = OfGroup(k)
    OBVIOUS
<1>2. PICK xs : xs = Rows(t, net, c, h)
    OBVIOUS
<1>3. /\ xs \in Seq(Seq(Events)) /\ Len(xs) = MaxSegment
      /\ pe = Joined(xs) /\ pe \in Seq(Events)
    BY <1>1, <1>2, RowsType
<1>4. s \in 1..MaxSegment /\ MaxSegment \in Nat
    BY ActionTypes, SegmentAssumption DEF Segments
<1>5. PICK act, row : RowShape(t, net, c, h, s, act, row)
    BY <1>1, RowIs
<1>6. xs[s] = row
    BY <1>2, <1>4, <1>5 DEF Rows, Segments, RowShape
<1>7. \A i \in 1..Len(xs) : i # s => Gather(xs[i], M, Id(M)) = <<>>
    <2> SUFFICES ASSUME NEW i \in 1..MaxSegment, i # s PROVE Gather(xs[i], M, Id(M)) = <<>>
        BY <1>3
    <2>1. xs[i] \in Seq(Events)
        BY <1>3, ElementOfSeq
    <2>2. \A j \in DOMAIN xs[i] : xs[i][j] \notin M
        <3>1. CASE i \notin DOMAIN t.intents
            BY <1>2, <3>1 DEF Rows, Segments
        <3>2. CASE i \in DOMAIN t.intents
            <4>1. PICK act2, row2 : RowShape(t, net, c, h, i, act2, row2)
                BY <1>1, <3>2, RowIs
            <4>2. xs[i] = row2
                BY <1>2, <3>2, <4>1 DEF Rows, Segments, RowShape
            <4>3. DOMAIN row2 = 1..Len(act2)
                BY <4>1, LenProperties DEF RowShape
            <4>4. \A j \in DOMAIN row2 : row2[j].segment = i
                BY <4>1, <4>3 DEF RowShape, Event
            <4>5. \A e \in M : e.segment = s
                BY <1>1 DEF OfGroup, GroupKey, Group
            <4> QED BY <4>2, <4>4, <4>5
        <3> QED BY <3>1, <3>2
    <2>3. Maps(Id(M), M, M)
        BY <2>1, GatherId
    <2> QED BY <2>1, <2>2, <2>3, GatherNothing
<1>8. Maps(Id(M), M, M)
    BY <1>3, GatherId
<1>9. Gather(Joined(xs), M, Id(M)) = IF s \in 1..Len(xs) THEN Gather(xs[s], M, Id(M)) ELSE <<>>
    BY <1>3, <1>7, <1>8, GatherOne
<1>10. row \in Seq(Events) /\ act \in Seq(Entries) /\ act = Activity(t, s, c)
    BY <1>5 DEF RowShape
<1>11. Those(pe, M) = Those(row, M)
    <2>1. Gather(pe, M, Id(M)) = Gather(row, M, Id(M))
        BY <1>3, <1>4, <1>6, <1>9
    <2>2. Gather(pe, M, Id(M)) = Those(pe, M) /\ Gather(row, M, Id(M)) = Those(row, M)
        BY <1>3, <1>10, GatherId
    <2> QED BY <2>1, <2>2
<1>12. Gather(row, M, EventPart(k)) = Gather(act, Under(n), EntryPart(n)) /\ Clean(Those(row, M))
    BY <1>1, <1>5, RowGroup
<1>13. RawParts(t, target, s) = Gather(act, Under(n), EntryPart(n))
    BY <1>1, <1>10, RawGather
<1>14. PICK ds : ds = Those(pe, M)
    OBVIOUS
<1>15. Gather(row, M, EventPart(k)) = [i \in DOMAIN ds |-> ds[i].value.part]
    BY <1>1, <1>10, <1>11, <1>14, PartsOfThose
<1>16. ds \in Seq(Events)
    BY <1>3, <1>14, GatherId
<1>17. Clean(ds)
    BY <1>11, <1>12, <1>14
<1>18. RawParts(t, target, s) = [i \in DOMAIN ds |-> ds[i].value.part]
    BY <1>12, <1>13, <1>15
<1> QED BY <1>1, <1>14, <1>16, <1>17, <1>18

\* The caller asks for the target's packages only.
Asks(options, target, net) ==
    /\ options \in Options /\ options.optIns = {<<target.contract, target.name>>}
    /\ options.network \in {None, net}

\* k is a group of the target, and its turns are its events.
TargetTurns(evs, options, target, net, h, s, k) ==
    /\ k = Group(net, target.contract, target.name, h, s)
    /\ Turns(evs, options, k, Len(evs)) = Where(evs, OfGroup(k))
    /\ \A j \in DOMAIN evs : GroupKey(evs[j]) = k => OptedIn(evs[j], options)

\* Such a caller's turns for a group of the target are its events.
LEMMA TurnsWhere ==
    ASSUME NEW evs \in Seq(Events), NEW options, NEW target, NEW net, Asks(options, target, net), NEW h, NEW s
    PROVE  \E k : TargetTurns(evs, options, target, net, h, s, k)
<1>1. PICK k, l : k = Group(net, target.contract, target.name, h, s) /\ l = Len(evs)
    OBVIOUS
<1>2. l \in Nat /\ DOMAIN evs = 1..l
    BY <1>1, LenProperties
<1>3. \A j \in 1..l : evs[j] \in Events
    BY <1>1, ElementOfSeq
<1>4. \A j \in 1..l : GroupKey(evs[j]) = k => OptedIn(evs[j], options)
    <2>1. \A j \in 1..l : GroupKey(evs[j]) = k =>
            evs[j].contract = target.contract /\ evs[j].value.name = target.name /\ evs[j].network = net
        BY <1>1 DEF GroupKey, Group
    <2> QED BY <2>1 DEF OptedIn, Asks
<1>5. Turns(evs, options, k, l) = Where(evs, OfGroup(k))
    BY <1>2, <1>3, <1>4 DEF Turns, Where, OfGroup
<1> QED BY <1>1, <1>2, <1>4, <1>5 DEF TargetTurns

\* The intents that log the target's name.
RawIntents(t, target) == {s \in DOMAIN t.intents : RawParts(t, target, s) # <<>>}

\* What readPackages makes of partEventsFromTransaction's events.
RawRead(t, target, net, h, options, pe, R) ==
    /\ pe = PartEvents(t, net, target.contract, h) /\ R = ReadPackages(pe, options)
    /\ R.error \in BOOLEAN
    /\ R.error => Len(pe) > options.maxEvents \/ Cardinality(RawIntents(t, target)) > options.maxGroups
    /\ R.error => DOMAIN R.packages = {}
    /\ ~R.error => DOMAIN R.packages = {Group(net, target.contract, target.name, h, s) : s \in RawIntents(t, target)}
    /\ ~R.error => \A s \in RawIntents(t, target) :
            /\ R.packages[Group(net, target.contract, target.name, h, s)].status = "accepted"
            /\ R.packages[Group(net, target.contract, target.name, h, s)].parts = RawParts(t, target, s)

\* The raw transaction reads as one accepted package for every intent that logs the name.
LEMMA RawReadIs ==
    ASSUME NEW t, IsTx(t), NEW net \in Networks, NEW target, target.contract \in Contracts, NEW h \in Hashes,
           NEW options, Asks(options, target, net)
    PROVE  \E pe, R : RawRead(t, target, net, h, options, pe, R)
<1>1. PICK pe, c, n, S : /\ c = target.contract /\ n = target.name /\ pe = PartEvents(t, net, c, h)
                         /\ S = RawIntents(t, target)
    OBVIOUS
<1>2. pe \in Seq(RawEvents(t, net, c, h)) /\ pe \in Seq(Events)
    BY <1>1, RowsType
<1>3. options \in Options
    BY DEF Asks
<1>4. PICK l, R : ReadAs(pe, options, l, R)
    BY <1>2, <1>3, ReadIs
<1>5. l = Len(pe) /\ l \in Nat /\ DOMAIN pe = 1..l
    BY <1>2, <1>4, LenProperties DEF ReadAs
<1>6. \A i \in 1..l : pe[i] \in RawEvents(t, net, c, h)
    BY <1>2, <1>5, ElementOfSeq
<1>7. S \in SUBSET Segments /\ S \in SUBSET (DOMAIN t.intents) /\ IsFiniteSet(S)
    <2>1. S \in SUBSET (DOMAIN t.intents)
        BY <1>1 DEF RawIntents
    <2>2. S \in SUBSET (1..MaxSegment)
        BY <2>1, ActionTypes DEF Segments
    <2> QED BY <2>1, <2>2, IndicesRise, SegmentAssumption DEF Segments
<1> DEFINE key == [s \in DOMAIN t.intents |-> Group(net, c, n, h, s)]
<1>8. \A s \in DOMAIN t.intents :
        /\ s \in S <=> \E i \in 1..l : GroupKey(pe[i]) = key[s]
        /\ \A i \in 1..l : GroupKey(pe[i]) = key[s] => OptedIn(pe[i], options)
        /\ RawParts(t, target, s) = [i \in DOMAIN Those(pe, OfGroup(key[s])) |-> Those(pe, OfGroup(key[s]))[i].value.part]
        /\ Those(pe, OfGroup(key[s])) \in Seq(Events) /\ Clean(Those(pe, OfGroup(key[s])))
        /\ Kept(pe, Turns(pe, options, key[s], l)) = Those(pe, OfGroup(key[s]))
    <2>1. TAKE s \in DOMAIN t.intents
    <2>2. PICK k, pf, ds : /\ k = Group(net, c, n, h, s) /\ pf = pe
                           /\ ds = Those(pf, OfGroup(k)) /\ ds \in Seq(Events) /\ Clean(ds)
                           /\ RawParts(t, target, s) = [i \in DOMAIN ds |-> ds[i].value.part]
        BY <1>1, RowsGroup
    <2>3. k = key[s]
        BY <2>2
    <2>4. /\ Turns(pe, options, k, l) = Where(pe, OfGroup(k))
          /\ \A j \in DOMAIN pe : GroupKey(pe[j]) = k => OptedIn(pe[j], options)
        <3>1. PICK x : TargetTurns(pe, options, target, net, h, s, x)
            BY <1>2, TurnsWhere
        <3> QED BY <1>1, <1>5, <2>2, <3>1 DEF TargetTurns
    <2>5. Where(pe, OfGroup(k)) = {} <=> ds = <<>>
        <3>1. Where(pe, OfGroup(k)) \in SUBSET (DOMAIN pe)
            BY DEF Where
        <3> QED BY <1>2, <2>2, <3>1, KeptType DEF Those
    <2>6. RawParts(t, target, s) = <<>> <=> ds = <<>>
        <3>1. ds = <<>> <=> DOMAIN ds = {}
            <4>1. DOMAIN ds = 1..Len(ds) /\ Len(ds) \in Nat
                BY <2>2, LenProperties
            <4>2. CASE ds = <<>>
                BY <4>2
            <4>3. CASE ds # <<>>
                <5>1. Len(ds) \in Nat \ {0}
                    BY <2>2, <4>3, EmptySeq
                <5>2. 1 \in DOMAIN ds
                    BY <4>1, <5>1
                <5> QED BY <4>3, <5>2
            <4> QED BY <4>2, <4>3
        <3>2. CASE ds = <<>>
            <4>1. DOMAIN ds = {}
                BY <3>1, <3>2
            <4>2. [i \in DOMAIN ds |-> ds[i].value.part] = <<>>
                BY <4>1
            <4> QED BY <2>2, <3>2, <4>2
        <3>3. CASE ds # <<>>
            <4>1. DOMAIN RawParts(t, target, s) # {}
                BY <2>2, <3>1, <3>3
            <4> QED BY <3>3, <4>1
        <3> QED BY <3>2, <3>3
    <2>7. \A i \in 1..l : GroupKey(pe[i]) = k <=> i \in Where(pe, OfGroup(k))
        <3>1. \A i \in 1..l : pe[i] \in Events
            BY <1>6 DEF RawEvents
        <3> QED BY <1>5, <3>1 DEF Where, OfGroup
    <2>8. s \in S <=> \E i \in 1..l : GroupKey(pe[i]) = k
        <3>1. s \in S <=> RawParts(t, target, s) # <<>>
            BY <1>1 DEF RawIntents
        <3>2. Where(pe, OfGroup(k)) \subseteq 1..l
            BY <1>5 DEF Where
        <3> QED BY <2>5, <2>6, <2>7, <3>1, <3>2
    <2>9. Kept(pe, Turns(pe, options, k, l)) = ds
        BY <2>2, <2>4 DEF Those
    <2> HIDE DEF key
    <2> QED BY <1>5, <2>2, <2>3, <2>4, <2>8, <2>9
<1>9. KeysOf(pe, options, l) = {key[s] : s \in S}
    <2>1. \A i \in 1..l : OptedIn(pe[i], options) => \E s \in S : GroupKey(pe[i]) = key[s]
        <3>1. TAKE i \in 1..l
        <3>2. HAVE OptedIn(pe[i], options)
        <3>3. PICK s : s = pe[i].segment
            OBVIOUS
        <3>4. pe[i].value.name = n
            BY <1>1, <3>2 DEF OptedIn, Asks
        <3>5. s \in DOMAIN t.intents /\ GroupKey(pe[i]) = Group(net, c, n, h, s)
            BY <1>6, <3>3, <3>4 DEF RawEvents, GroupKey, Group
        <3>6. GroupKey(pe[i]) = key[s]
            BY <3>5
        <3> HIDE DEF key
        <3> QED BY <1>8, <3>5, <3>6
    <2> HIDE DEF key
    <2>2. \A s \in S : \E i \in {j \in 1..l : OptedIn(pe[j], options)} : key[s] = GroupKey(pe[i])
        BY <1>7, <1>8
    <2> QED BY <2>1, <2>2 DEF KeysOf
<1>10. \A i \in 1..l : SourceOK(pe[i])
    <2>1. \A i \in 1..l : pe[i].segment \in Segments /\ pe[i].position \in Nat
        BY <1>6, ActionTypes DEF RawEvents
    <2> QED BY <2>1 DEF SourceOK
<1>11. R.error => l > options.maxEvents \/ Cardinality(S) > options.maxGroups
    <2>1. Cardinality({key[s] : s \in S}) <= Cardinality(S) /\ IsFiniteSet({key[s] : s \in S})
        <3> HIDE DEF key
        <3> QED BY <1>7, ImageFinite
    <2>2. R.error => l > options.maxEvents \/ Cardinality({key[s] : s \in S}) > options.maxGroups
        BY <1>4, <1>9, <1>10 DEF ReadAs, Fails
    <2>3. PICK a, b : a = Cardinality({key[s] : s \in S}) /\ b = Cardinality(S)
        OBVIOUS
    <2>4. a \in Nat /\ b \in Nat /\ a <= b /\ options.maxGroups \in Nat
        BY <1>3, <1>7, <2>1, <2>3, FS_CardinalityType DEF Options
    <2> QED BY <2>2, <2>3, <2>4
<1>12. ASSUME ~R.error, NEW s \in S
       PROVE  R.packages[key[s]].status = "accepted" /\ R.packages[key[s]].parts = RawParts(t, target, s)
    <2> HIDE DEF key
    <2>1. key[s] \in KeysOf(pe, options, l)
        BY <1>9
    <2>2. PICK ds, m : PackageRead(pe, options, R, key[s], ds, m)
        BY <1>2, <1>3, <1>4, <1>12, <2>1, PackagesAre
    <2>3. PackageOf(ds, m, R.packages[key[s]]) /\ ds = Kept(pe, Turns(pe, options, key[s], l))
        BY <1>5, <2>2 DEF PackageRead, GroupOf
    <2>4. s \in DOMAIN t.intents
        BY <1>7
    <2>5. /\ ds = Those(pe, OfGroup(key[s])) /\ ds \in Seq(Events) /\ Clean(ds)
          /\ RawParts(t, target, s) = [i \in DOMAIN ds |-> ds[i].value.part]
        BY <1>8, <2>3, <2>4
    <2> QED BY <2>3, <2>5, CleanPackage
<1>13. \A s \in S : key[s] = Group(net, c, n, h, s)
    BY <1>7
<1>14. ~R.error => DOMAIN R.packages = {Group(net, c, n, h, s) : s \in S}
    <2>1. {key[s] : s \in S} = {Group(net, c, n, h, s) : s \in S}
        BY <1>13
    <2> HIDE DEF key
    <2> QED BY <1>4, <1>9, <2>1 DEF ReadAs
<1> HIDE DEF key
<1>15. R.error \in BOOLEAN /\ R = ReadPackages(pe, options) /\ (R.error => DOMAIN R.packages = {})
    BY <1>4 DEF ReadAs
<1>16. ~R.error => \A s \in S : /\ R.packages[Group(net, c, n, h, s)].status = "accepted"
                                /\ R.packages[Group(net, c, n, h, s)].parts = RawParts(t, target, s)
    BY <1>12, <1>13
<1> QED BY <1>1, <1>5, <1>11, <1>14, <1>15, <1>16 DEF RawRead

-----------------------------------------------------------------------------
(* More events *)

\* The groups met so far are finitely many.
LEMMA KeysFinite ==
    ASSUME NEW evs, NEW options, NEW n \in Nat
    PROVE  IsFiniteSet(KeysOf(evs, options, n))
<1> DEFINE I == {j \in 1..n : OptedIn(evs[j], options)}
           f == [i \in I |-> GroupKey(evs[i])]
<1>1. KeysOf(evs, options, n) = {f[i] : i \in I}
    BY DEF KeysOf
<1>2. I \in SUBSET (1..n)
    OBVIOUS
<1> HIDE DEF I, f
<1>3. IsFiniteSet(I)
    BY <1>2, IndicesRise
<1> QED BY <1>1, <1>3, ImageFinite

\* More events never repair a read: an error stays one, and a rejected package stays rejected.
LEMMA LongerRead ==
    ASSUME NEW options \in Options, NEW a \in Seq(Events), NEW b \in Seq(Events), NEW m, NEW n, NEW R, NEW S,
           ReadAs(a, options, m, R), ReadAs(b, options, n, S), m <= n, \A i \in 1..m : b[i] = a[i]
    PROVE  /\ R.error => S.error
           /\ ~S.error => \A k \in DOMAIN R.packages :
                /\ k \in DOMAIN S.packages
                /\ R.packages[k].status = "rejected" => S.packages[k].status = "rejected"
<1>1. m \in Nat /\ n \in Nat /\ m = Len(a) /\ n = Len(b)
    BY LenProperties DEF ReadAs
<1>2. \A i \in 1..m : i \in 1..n
    BY <1>1
<1>3. KeysOf(a, options, m) \subseteq KeysOf(b, options, n)
    BY <1>2 DEF KeysOf
<1>4. PICK p, q : p = Cardinality(KeysOf(a, options, m)) /\ q = Cardinality(KeysOf(b, options, n))
    OBVIOUS
<1>5. p \in Nat /\ q \in Nat /\ p <= q
    <2>1. IsFiniteSet(KeysOf(b, options, n)) /\ IsFiniteSet(KeysOf(a, options, m))
        BY <1>1, KeysFinite
    <2> QED BY <1>3, <1>4, <2>1, FS_Subset, FS_CardinalityType
<1>6. options.maxEvents \in Nat /\ options.maxGroups \in Nat
    BY DEF Options
<1>7. R.error => S.error
    <2>1. CASE m > options.maxEvents
        <3>1. n > options.maxEvents
            BY <1>1, <1>6, <2>1
        <3> QED BY <3>1 DEF ReadAs
    <2>2. CASE \E i \in 1..m : ~SourceOK(a[i])
        <3>1. \E i \in 1..n : ~SourceOK(b[i])
            BY <1>2, <2>2
        <3> QED BY <3>1 DEF ReadAs, Fails
    <2>3. CASE p > options.maxGroups
        <3>1. q > options.maxGroups
            BY <1>5, <1>6, <2>3
        <3> QED BY <1>4, <3>1 DEF ReadAs, Fails
    <2> QED BY <1>4, <2>1, <2>2, <2>3 DEF ReadAs, Fails
<1>8. ASSUME ~S.error, NEW k \in DOMAIN R.packages
      PROVE  /\ k \in DOMAIN S.packages
             /\ R.packages[k].status = "rejected" => S.packages[k].status = "rejected"
    <2>1. ~R.error
        BY <1>7, <1>8
    <2>2. k \in KeysOf(a, options, m) /\ k \in KeysOf(b, options, n)
        BY <1>3, <1>8, <2>1 DEF ReadAs
    <2>3. PICK ds, x : PackageRead(a, options, R, k, ds, x)
        BY <2>1, <2>2, PackagesAre
    <2>4. PICK es, y : PackageRead(b, options, S, k, es, y)
        BY <1>8, <2>2, PackagesAre
    <2>5. \A i \in DOMAIN ds : \E j \in DOMAIN es : es[j] = ds[i]
        BY <1>1, <1>2, <2>3, <2>4 DEF PackageRead, GroupOf
    <2>6. Clash(ds) => Clash(es)
        <3>1. ASSUME NEW i \in DOMAIN ds, NEW j \in DOMAIN ds,
                     ds[i].value.long \/ (ds[i].position = ds[j].position /\ ds[i] # ds[j])
              PROVE  Clash(es)
            <4>1. PICK u, v \in DOMAIN es : es[u] = ds[i] /\ es[v] = ds[j]
                BY <2>5
            <4> QED BY <3>1, <4>1 DEF Clash
        <3> QED BY <3>1 DEF Clash
    <2>7. k \in DOMAIN S.packages
        BY <1>8, <2>2 DEF ReadAs
    <2> QED BY <2>3, <2>4, <2>6, <2>7 DEF PackageRead, PackageOf
<1> QED BY <1>7, <1>8

\* What an intent logs under a name is payloads.
LEMMA RawType ==
    ASSUME NEW t, IsTx(t), NEW target, NEW s \in DOMAIN t.intents
    PROVE  RawParts(t, target, s) \in Seq(Parts)
<1>1. PICK act : act = Activity(t, s, target.contract) /\ act \in Seq(Entries)
                 /\ RawParts(t, target, s) = Gather(act, Under(target.name), EntryPart(target.name))
    BY RawGather
<1>2. Maps(EntryPart(target.name), Under(target.name), Parts)
    BY PartMaps
<1> QED BY <1>1, <1>2, GatherType

-----------------------------------------------------------------------------
(* The verdict on a raw transaction *)

\* What verifyTransactionPackages verifies.
VerdictAs(t, target, net, h, st, V) ==
    /\ V = VerifiedPackages(t, target, net, h, st)
    /\ \A k \in DOMAIN V : st \in Included /\ \E s \in RawIntents(t, target) :
            /\ k = Group(net, target.contract, target.name, h, s)
            /\ V[k] = RawParts(t, target, s) /\ PlacementOK(t, target, s, V[k])
    /\ /\ Len(PartEvents(t, net, target.contract, h)) <= MaxEvents
       /\ Cardinality(RawIntents(t, target)) <= MaxGroups
       => ~ReadTransaction(t, target, net, h).error
    /\ st \in Included /\ ~ReadTransaction(t, target, net, h).error
       => \A s \in RawIntents(t, target) : PlacementOK(t, target, s, RawParts(t, target, s)) =>
            Group(net, target.contract, target.name, h, s) \in DOMAIN V

\* It verifies the raw packages whose placement holds, all of them unless the reader
\* throws, which it does not within its limits.
LEMMA VerdictIs ==
    ASSUME NEW t, IsTx(t), NEW net \in Networks, NEW h \in Hashes,
           NEW target \in [contract : Contracts, entry : EntryPoints, name : Names], NEW st
    PROVE  \E V : VerdictAs(t, target, net, h, st, V)
<1>1. PICK options : options = [optIns |-> {<<target.contract, target.name>>}, network |-> None,
                                maxEvents |-> MaxEvents, maxGroups |-> MaxGroups]
    OBVIOUS
<1>2. target.contract \in Contracts /\ target.name \in Names
    OBVIOUS
<1>3. Asks(options, target, net)
    <2>1. {<<target.contract, target.name>>} \in SUBSET (Contracts \X Names)
        BY <1>2
    <2>2. options \in Options
        BY <1>1, <2>1, LimitsAssumption DEF Options
    <2> QED BY <1>1, <2>2 DEF Asks
<1>4. PICK pe, R : RawRead(t, target, net, h, options, pe, R)
    BY <1>2, <1>3, RawReadIs
<1>5. pe = PartEvents(t, net, target.contract, h) /\ R = ReadPackages(pe, options)
    BY <1>4 DEF RawRead
<1> DEFINE good == {k \in DOMAIN R.packages :
                        /\ st \in Included /\ R.packages[k].status = "accepted"
                        /\ PlacementOK(t, target, k.segment, R.packages[k].parts)}
<1>6. VerifiedPackages(t, target, net, h, st) = [k \in good |-> R.packages[k].parts]
    BY <1>1, <1>5 DEF VerifiedPackages, ReadTransaction
<1>7. PICK V : V = [k \in good |-> R.packages[k].parts]
    OBVIOUS
<1>8. \A s : Group(net, target.contract, target.name, h, s).segment = s
    BY DEF Group
<1>9. \A k \in DOMAIN V : st \in Included /\ \E s \in RawIntents(t, target) :
            /\ k = Group(net, target.contract, target.name, h, s)
            /\ V[k] = RawParts(t, target, s) /\ PlacementOK(t, target, s, V[k])
    <2>1. TAKE k \in DOMAIN V
    <2>2. /\ k \in DOMAIN R.packages /\ st \in Included /\ V[k] = R.packages[k].parts
          /\ PlacementOK(t, target, k.segment, V[k])
        BY <1>7
    <2>3. ~R.error
        BY <1>4, <2>2 DEF RawRead
    <2>4. PICK s \in RawIntents(t, target) : k = Group(net, target.contract, target.name, h, s)
        BY <1>4, <2>2, <2>3 DEF RawRead
    <2>5. R.packages[k].parts = RawParts(t, target, s)
        BY <1>4, <2>3, <2>4 DEF RawRead
    <2> QED BY <1>8, <2>2, <2>4, <2>5
<1>a. R = ReadTransaction(t, target, net, h)
    BY <1>1, <1>5 DEF ReadTransaction
<1>b. ASSUME Len(pe) <= MaxEvents, Cardinality(RawIntents(t, target)) <= MaxGroups PROVE ~R.error
    <2>1. options.maxEvents = MaxEvents /\ options.maxGroups = MaxGroups
        BY <1>1
    <2>2. Len(pe) \in Nat /\ MaxEvents \in Nat /\ MaxGroups \in Nat /\ Cardinality(RawIntents(t, target)) \in Nat
        <3>1. pe \in Seq(Events)
            BY <1>2, <1>5, RowsType
        <3>2. RawIntents(t, target) \in SUBSET (1..MaxSegment)
            BY ActionTypes DEF RawIntents, Segments
        <3>3. Cardinality(RawIntents(t, target)) \in Nat
            BY <3>2, IndicesRise, SegmentAssumption
        <3> QED BY <3>1, <3>3, LenProperties, LimitsAssumption
    <2> QED BY <1>4, <1>b, <2>1, <2>2 DEF RawRead
<1>10. ASSUME ~R.error, st \in Included,
              NEW s \in RawIntents(t, target), PlacementOK(t, target, s, RawParts(t, target, s))
       PROVE  Group(net, target.contract, target.name, h, s) \in DOMAIN V
    <2>1. PICK k : k = Group(net, target.contract, target.name, h, s)
        OBVIOUS
    <2>2. /\ k \in DOMAIN R.packages /\ R.packages[k].status = "accepted"
          /\ R.packages[k].parts = RawParts(t, target, s)
        BY <1>4, <1>10, <2>1 DEF RawRead
    <2>3. k.segment = s
        BY <1>8, <2>1
    <2> QED BY <1>7, <1>10, <2>1, <2>2, <2>3
<1> HIDE DEF good
<1>11. V = VerifiedPackages(t, target, net, h, st)
    BY <1>6, <1>7
<1> QED BY <1>5, <1>9, <1>a, <1>b, <1>10, <1>11 DEF VerdictAs

-----------------------------------------------------------------------------
(* What the guard accepts, the reader reads back *)

\* Keeping everything keeps a sequence.
LEMMA KeptAll == ASSUME NEW T, NEW s \in Seq(T) PROVE Kept(s, DOMAIN s) = s
<1> DEFINE n == Len(s)
           f == [k \in 1..n |-> k]
<1>1. n \in Nat /\ DOMAIN s = 1..n /\ s = [k \in 1..n |-> s[k]]
    BY LenProperties
<1> HIDE DEF n
<1>2. Rising(f, n, DOMAIN s) /\ DOMAIN s \in SUBSET Int
    BY <1>1 DEF Rising
<1>3. Kept(s, DOMAIN s) = [k \in 1..n |-> s[f[k]]]
    <2>1. PICK I \in SUBSET Int, m \in Nat : I = DOMAIN s /\ m = n
        BY <1>1, <1>2
    <2>a. PICK g : g = f
        OBVIOUS
    <2> HIDE DEF f
    <2>2. Rising(g, m, I)
        BY <1>2, <2>1, <2>a
    <2>3. Kept(s, I) = [k \in 1..m |-> s[g[k]]]
        BY <2>2, KeptAlong
    <2> QED BY <2>1, <2>a, <2>3
<1>4. [k \in 1..n |-> s[f[k]]] = [k \in 1..n |-> s[k]]
    OBVIOUS
<1> QED BY <1>1, <1>3, <1>4

\* Joining sequences of one element gives the sequence of these elements.
LEMMA JoinedSingles ==
    ASSUME NEW T, NEW x \in Seq(T), NEW ss \in Seq(Seq(T)), Len(ss) = Len(x),
           \A i \in 1..Len(x) : ss[i] = <<x[i]>>
    PROVE  Joined(ss) = x
<1>1. PICK u \in [0..Len(ss) -> Seq(T)] :
            /\ u[0] = <<>> /\ u[Len(ss)] = Joined(ss)
            /\ \A i \in 1..Len(ss) : u[i] = u[i - 1] \o ss[i]
    BY JoinedSteps
<1> DEFINE l == Len(x)
           G == {n \in Nat : n <= l => Len(u[n]) = n /\ \A k \in 1..n : u[n][k] = x[k]}
<1>2. l \in Nat /\ DOMAIN x = 1..l /\ l = Len(ss)
    BY LenProperties
<1>3. 0 \in G
    BY <1>1, <1>2, EmptySeq
<1>4. ASSUME NEW n \in Nat, n \in G PROVE n + 1 \in G
    <2> SUFFICES ASSUME n + 1 <= l PROVE n + 1 \in G
        OBVIOUS
    <2> HIDE DEF l
    <2>1. n + 1 \in 1..l /\ (n + 1) - 1 = n /\ n \in 0..Len(ss) /\ n + 1 \in 0..Len(ss)
        BY <1>2
    <2>2. u[n + 1] = u[n] \o <<x[n + 1]>> /\ u[n] \in Seq(T) /\ x[n + 1] \in T
        BY <1>1, <1>2, <2>1, ElementOfSeq
    <2>3. <<x[n + 1]>> \in Seq(T) /\ Len(<<x[n + 1]>>) = 1
        BY <2>2
    <2>4. Len(u[n]) = n /\ \A k \in 1..n : u[n][k] = x[k]
        BY <1>2, <1>4
    <2>5. PICK v, w : v = u[n] /\ w = <<x[n + 1]>>
        OBVIOUS
    <2>6. Len(v \o w) = n + 1 /\ \A k \in 1..(n + 1) : (v \o w)[k] = IF k <= n THEN v[k] ELSE w[k - n]
        BY <2>2, <2>3, <2>4, <2>5, ConcatProperties
    <2>7. \A k \in 1..(n + 1) : u[n + 1][k] = x[k]
        <3> SUFFICES ASSUME NEW k \in 1..(n + 1) PROVE u[n + 1][k] = x[k]
            OBVIOUS
        <3>1. CASE k <= n
            BY <2>2, <2>4, <2>5, <2>6, <3>1
        <3>2. CASE ~(k <= n)
            <4>1. k = n + 1 /\ k - n = 1
                BY <3>2
            <4>2. u[n + 1][k] = w[1]
                BY <2>2, <2>5, <2>6, <3>2, <4>1
            <4> QED BY <2>5, <4>1, <4>2
        <3> QED BY <3>1, <3>2
    <2> QED BY <2>2, <2>5, <2>6, <2>7
<1>5. l \in G
    <2> HIDE DEF G, l
    <2> QED BY <1>2, <1>3, <1>4, NumbersFill
<1>6. u[l] \in Seq(T) /\ Len(u[l]) = l /\ \A k \in 1..l : u[l][k] = x[k]
    BY <1>1, <1>2, <1>5
<1>7. u[l] = x
    <2>1. PICK v : v = u[l]
        OBVIOUS
    <2>2. v = [k \in 1..l |-> v[k]] /\ x = [k \in 1..l |-> x[k]]
        BY <1>6, <2>1, LenProperties
    <2> QED BY <1>6, <2>1, <2>2
<1> QED BY <1>1, <1>7

\* Joining empty sequences gives the empty one.
LEMMA JoinedNothing ==
    ASSUME NEW T, NEW ss \in Seq(Seq(T)), \A i \in 1..Len(ss) : ss[i] = <<>>
    PROVE  Joined(ss) = <<>>
<1>1. PICK u \in [0..Len(ss) -> Seq(T)] :
            /\ u[0] = <<>> /\ u[Len(ss)] = Joined(ss)
            /\ \A i \in 1..Len(ss) : u[i] = u[i - 1] \o ss[i]
    BY JoinedSteps
<1> DEFINE l == Len(ss)
           G == {n \in Nat : n <= l => u[n] = <<>>}
<1>2. l \in Nat
    BY LenProperties
<1>3. 0 \in G
    BY <1>1
<1>4. ASSUME NEW n \in Nat, n \in G PROVE n + 1 \in G
    <2> SUFFICES ASSUME n + 1 <= l PROVE u[n + 1] = <<>>
        OBVIOUS
    <2>1. n + 1 \in 1..l /\ (n + 1) - 1 = n
        BY <1>2
    <2>2. u[n] = <<>>
        BY <1>2, <1>4
    <2> HIDE DEF G
    <2>4. ss[n + 1] = <<>> /\ u[n + 1] = u[n] \o ss[n + 1]
        <3>1. n + 1 \in 1..Len(ss)
            BY <2>1
        <3> QED BY <1>1, <2>1, <3>1
    <2>3. u[n + 1] = <<>> \o <<>>
        BY <2>2, <2>4
    <2> QED BY <2>3, EmptySeq, ConcatEmptySeq
<1>5. l \in G
    <2> HIDE DEF G, l
    <2> QED BY <1>2, <1>3, <1>4, NumbersFill
<1> QED BY <1>1, <1>2, <1>5

\* What the reader lists for part k of a package.
Own(pkg, k) == [action |-> k, entry |-> pkg.entry, transcript |-> "guaranteed",
                name |-> pkg.name, part |-> pkg.parts[k]]

\* Action k at segment s is the call that emits part k of the package, and lists as that.
OwnCall(t, pkg, s, k) ==
    /\ k \in CallsTo(t, s, pkg.contract)
    /\ t.intents[s].actions[k].entry = pkg.entry
    /\ t.intents[s].actions[k].guaranteed # None /\ t.intents[s].actions[k].fallible = None
    /\ t.intents[s].actions[k].guaranteed.logs = <<Misc(pkg.name, pkg.parts[k])>>
    /\ PartsOf(t, s, k, "guaranteed") = <<Own(pkg, k)>>
    /\ PartsOf(t, s, k, "fallible") = <<>>

\* Each action of a guarded intent is a call that lists its own part, in the guaranteed
\* transcript, and nothing else.
LEMMA GuardedCall ==
    ASSUME NEW t, IsTx(t), NEW pkg \in Packages, IntentCarries(t, pkg), NEW s, s = pkg.segment
    PROVE  /\ s \in DOMAIN t.intents /\ pkg.parts \in Seq(Parts)
           /\ Len(t.intents[s].actions) = Len(pkg.parts)
           /\ DOMAIN t.intents[s].actions = DOMAIN pkg.parts
           /\ \A k \in DOMAIN t.intents[s].actions : OwnCall(t, pkg, s, k)
<1>1. s \in DOMAIN t.intents /\ pkg.parts \in Seq(Parts)
    BY DEF IntentCarries, Packages
<1>2. Len(t.intents[s].actions) = Len(pkg.parts) /\ \A k \in DOMAIN pkg.parts : CallCarries(t.intents[s].actions[k], pkg, k)
    BY DEF IntentCarries
<1>3. t.intents[s].actions \in Seq(Actions)
    BY <1>1, ActionTypes
<1>4. DOMAIN t.intents[s].actions = DOMAIN pkg.parts
    <2>1. PICK a, p : a = t.intents[s].actions /\ p = pkg.parts
        OBVIOUS
    <2>2. DOMAIN a = 1..Len(a) /\ DOMAIN p = 1..Len(p)
        BY <1>1, <1>3, <2>1, LenProperties
    <2> QED BY <1>2, <2>1, <2>2
<1>5. ASSUME NEW k \in DOMAIN t.intents[s].actions PROVE OwnCall(t, pkg, s, k)
    <2>1. PICK a, p : a = t.intents[s].actions[k] /\ p = pkg.parts[k]
        OBVIOUS
    <2>2. /\ a.kind = "call" /\ a.contract = pkg.contract /\ a.entry = pkg.entry
          /\ a.fallible = None /\ a.guaranteed # None /\ a.guaranteed.logs = <<Misc(pkg.name, p)>>
        BY <1>2, <1>4, <2>1 DEF CallCarries
    <2>3. k \in CallsTo(t, s, pkg.contract)
        BY <2>1, <2>2 DEF CallsTo
    <2>4. p \in Parts /\ pkg.name \in Names
        <3>1. k \in 1..Len(pkg.parts)
            BY <1>1, <1>4, LenProperties
        <3> QED BY <1>1, <2>1, <3>1, ElementOfSeq DEF Packages
    <2>5. PICK m \in Logs : m = Misc(pkg.name, p)
        BY <2>4 DEF Misc, Logs, MiscLogs
    <2>6. m.kind = "misc" /\ m.name = pkg.name /\ m.part = p
        BY <2>5 DEF Misc
    <2>7. PICK x : x = a.guaranteed
        OBVIOUS
    <2>8. x # None /\ x.logs = <<m>>
        BY <2>2, <2>5, <2>7
    <2>9. Readable(x) = <<m>>
        <3>0. <<m>> \in Seq(Logs)
            BY <2>5
        <3>1. PICK l \in Seq(Logs) : l = <<m>>
            BY <3>0
        <3>2. DOMAIN l = {1} /\ l[1] = m
            BY <3>1
        <3>3. Legible(l) = DOMAIN l
            BY <2>6, <3>2 DEF Legible
        <3>4. Readable(x) = Kept(l, DOMAIN l)
            BY <2>8, <3>1, <3>3 DEF Readable
        <3> QED BY <3>1, <3>4, KeptAll
    <2>10. PartsOf(t, s, k, "guaranteed") = <<Own(pkg, k)>>
        <3>1. PICK l : l = <<m>>
            OBVIOUS
        <3>2. PartsOf(t, s, k, "guaranteed")
                = [j \in DOMAIN l |-> [action |-> k, entry |-> a.entry, transcript |-> "guaranteed",
                                       name |-> l[j].name, part |-> l[j].part]]
            BY <2>1, <2>7, <2>9, <3>1 DEF PartsOf
        <3>3. DOMAIN l = {1} /\ l[1] = m
            BY <3>1
        <3>4. PICK o : o = [action |-> k, entry |-> a.entry, transcript |-> "guaranteed",
                            name |-> m.name, part |-> m.part]
            OBVIOUS
        <3>5. PartsOf(t, s, k, "guaranteed") = [j \in 1..1 |-> o]
            BY <3>2, <3>3, <3>4
        <3>6. o = Own(pkg, k)
            BY <2>1, <2>2, <2>6, <3>4 DEF Own
        <3> QED BY <3>5, <3>6
    <2>11. PartsOf(t, s, k, "fallible") = <<>>
        <3>1. Readable(None) = <<>>
            BY DEF Readable
        <3>2. PICK l : l = Readable(None)
            OBVIOUS
        <3>3. DOMAIN l = {}
            BY <3>1, <3>2
        <3>4. PartsOf(t, s, k, "fallible")
                = [j \in DOMAIN l |-> [action |-> k, entry |-> a.entry, transcript |-> "fallible",
                                       name |-> l[j].name, part |-> l[j].part]]
            BY <2>1, <2>2, <3>2 DEF PartsOf
        <3> QED BY <3>3, <3>4
    <2> QED BY <2>1, <2>2, <2>3, <2>10, <2>11 DEF OwnCall
<1> QED BY <1>1, <1>2, <1>4, <1>5

\* The activity of a guarded intent is the package's parts, one after another.
LEMMA GuardedActivity ==
    ASSUME NEW t, IsTx(t), NEW pkg \in Packages, IntentCarries(t, pkg)
    PROVE  \E x \in Seq(Entries) :
            /\ x = Activity(t, pkg.segment, pkg.contract)
            /\ DOMAIN x = DOMAIN pkg.parts /\ \A k \in DOMAIN x : x[k] = Own(pkg, k)
<1>1. PICK s, c, p, acts : /\ s = pkg.segment /\ c = pkg.contract /\ p = pkg.parts
                           /\ acts = t.intents[s].actions
    OBVIOUS
<1>2. /\ s \in DOMAIN t.intents /\ p \in Seq(Parts) /\ Len(acts) = Len(p) /\ DOMAIN acts = DOMAIN p
      /\ \A k \in DOMAIN acts : /\ k \in CallsTo(t, s, c)
                                /\ PartsOf(t, s, k, "guaranteed") = <<Own(pkg, k)>>
                                /\ PartsOf(t, s, k, "fallible") = <<>>
    <2>1. /\ s \in DOMAIN t.intents /\ pkg.parts \in Seq(Parts)
          /\ Len(t.intents[s].actions) = Len(pkg.parts)
          /\ DOMAIN t.intents[s].actions = DOMAIN pkg.parts
          /\ \A k \in DOMAIN t.intents[s].actions : OwnCall(t, pkg, s, k)
        BY <1>1, GuardedCall
    <2> QED BY <1>1, <2>1 DEF OwnCall
<1>3. PICK l \in Nat : l = Len(p) /\ DOMAIN p = 1..l
    BY <1>2, LenProperties
<1>4. "guaranteed" \in Both /\ "fallible" \in Both
    BY DEF Both
<1>5. ASSUME NEW which \in Both
      PROVE  \E ls : /\ ls \in Seq(Seq(Entries)) /\ Len(ls) = l /\ Lists(t, s, c, which) = Joined(ls)
                     /\ \A k \in 1..l : ls[k] = PartsOf(t, s, k, which)
    <2>1. PICK n, its, ls :
            /\ n = Len(t.intents[s].actions)
            /\ its = [k \in DOMAIN t.intents[s].actions |-> Items(t, s, k, which)]
            /\ ls = [k \in DOMAIN t.intents[s].actions |->
                        IF k \in CallsTo(t, s, c) THEN PartsOf(t, s, k, which) ELSE <<>>]
        OBVIOUS
    <2>2. ls \in Seq(Seq(ListedFrom(t, s, c, which))) /\ Len(ls) = n
        BY <1>2, <2>1, IntentRows
    <2>3. Seq(ListedFrom(t, s, c, which)) \subseteq Seq(Entries)
        <3>1. ListedFrom(t, s, c, which) \subseteq Entries
            BY DEF ListedFrom
        <3> QED BY <3>1, SeqMonotonic
    <2>4. ls \in Seq(Seq(Entries))
        BY <2>2, <2>3, SeqMonotonic
    <2>5. Lists(t, s, c, which) = Joined(ls)
        BY <2>1 DEF Lists
    <2>6. \A k \in 1..l : ls[k] = PartsOf(t, s, k, which)
        BY <1>1, <1>2, <1>3, <2>1
    <2> QED BY <1>1, <1>2, <1>3, <2>1, <2>2, <2>4, <2>5, <2>6
<1>6. PICK g : /\ g \in Seq(Seq(Entries)) /\ Len(g) = l /\ Lists(t, s, c, "guaranteed") = Joined(g)
               /\ \A k \in 1..l : g[k] = PartsOf(t, s, k, "guaranteed")
    BY <1>4, <1>5
<1>7. PICK f : /\ f \in Seq(Seq(Entries)) /\ Len(f) = l /\ Lists(t, s, c, "fallible") = Joined(f)
               /\ \A k \in 1..l : f[k] = PartsOf(t, s, k, "fallible")
    BY <1>4, <1>5
<1>8. Lists(t, s, c, "fallible") = <<>>
    <2>1. \A k \in 1..Len(f) : f[k] = <<>>
        BY <1>2, <1>3, <1>7
    <2> QED BY <1>7, <2>1, JoinedNothing
<1>9. PICK x : x = [k \in 1..l |-> Own(pkg, k)]
    OBVIOUS
<1>10. x \in Seq(Entries) /\ Len(x) = l
    <2>1. ASSUME NEW k \in 1..l PROVE x[k] \in Entries
        <3>1. p[k] \in Parts /\ pkg.entry \in EntryPoints /\ pkg.name \in Names
            BY <1>2, <1>3, ElementOfSeq DEF Packages
        <3>2. x[k] = Own(pkg, k)
            BY <1>9
        <3>3. Own(pkg, k) \in Entries
            BY <1>1, <1>3, <1>4, <3>1 DEF Own, Entries
        <3> QED BY <3>2, <3>3
    <2>2. x \in [1..l -> Entries]
        <3>1. x = [k \in 1..l |-> x[k]]
            BY <1>9
        <3> QED BY <2>1, <3>1
    <2> QED BY <1>3, <2>2, SeqDef
<1>11. Lists(t, s, c, "guaranteed") = x
    <2>1. \A k \in 1..Len(x) : g[k] = <<x[k]>>
        BY <1>2, <1>3, <1>6, <1>9, <1>10
    <2>2. Joined(g) = x
        BY <1>6, <1>10, <2>1, JoinedSingles
    <2> QED BY <1>6, <2>2
<1>12. Activity(t, s, c) = Lists(t, s, c, "guaranteed") \o Lists(t, s, c, "fallible")
    BY DEF Activity, Lists
<1>13. x \o <<>> = x
    BY <1>10, ConcatEmptySeq
<1>14. Activity(t, s, c) = x
    BY <1>8, <1>11, <1>12, <1>13
<1> QED BY <1>1, <1>3, <1>9, <1>10, <1>14

\* A transaction the guard passes has each package cleanly placed: the reader finds its
\* parts, and nothing else under the name, at its segment.
LEMMA GuardedIsPlaced ==
    ASSUME NEW t, IsTx(t), NEW pkg \in Packages, IntentCarries(t, pkg),
           NEW target, target.contract = pkg.contract, target.entry = pkg.entry, target.name = pkg.name
    PROVE  /\ PlacementOK(t, target, pkg.segment, pkg.parts)
           /\ RawParts(t, target, pkg.segment) = pkg.parts
<1>0. PICK s : s = pkg.segment
    OBVIOUS
<1>1. PICK c, p, a : s = pkg.segment /\ c = pkg.contract /\ p = pkg.parts /\ a = t.intents[s].actions
    BY <1>0
<1>2. /\ s \in DOMAIN t.intents /\ p \in Seq(Parts) /\ DOMAIN a = DOMAIN p
      /\ \A k \in DOMAIN a : /\ a[k].entry = pkg.entry
                             /\ a[k].guaranteed # None /\ a[k].fallible = None
                             /\ a[k].guaranteed.logs = <<Misc(pkg.name, p[k])>>
    <2>1. /\ s \in DOMAIN t.intents /\ pkg.parts \in Seq(Parts)
          /\ DOMAIN t.intents[s].actions = DOMAIN pkg.parts
          /\ \A k \in DOMAIN t.intents[s].actions : OwnCall(t, pkg, s, k)
        BY <1>0, GuardedCall
    <2> QED BY <1>1, <2>1 DEF OwnCall
<1>3. PICK x \in Seq(Entries) : /\ x = Activity(t, s, c) /\ DOMAIN x = DOMAIN p
                                /\ \A k \in DOMAIN x : x[k] = Own(pkg, k)
    BY <1>1, GuardedActivity
<1>4. CallsTo(t, s, c) \subseteq DOMAIN a
    BY <1>1 DEF CallsTo
<1>5. ~Unreadable(t, s, c)
    <2> SUFFICES ASSUME Unreadable(t, s, c) PROVE FALSE
        OBVIOUS
    <2>1. PICK k \in CallsTo(t, s, c), which \in {"guaranteed", "fallible"} :
            /\ t.intents[s].actions[k][which] # None
            /\ \E j \in DOMAIN t.intents[s].actions[k][which].logs :
                t.intents[s].actions[k][which].logs[j].kind \in {"garbled", "misshaped"}
        BY DEF Unreadable
    <2>2. which = "guaranteed" /\ k \in DOMAIN a /\ t.intents[s].actions = a
        BY <1>1, <1>2, <1>4, <2>1
    <2>3. PICK m : m = Misc(pkg.name, p[k])
        OBVIOUS
    <2>4. PICK l : l = a[k].guaranteed.logs
        OBVIOUS
    <2>5. l = <<m>> /\ m.kind = "misc"
        BY <1>2, <2>2, <2>3, <2>4 DEF Misc
    <2>6. \E j \in DOMAIN l : l[j].kind \in {"garbled", "misshaped"}
        BY <2>1, <2>2, <2>4
    <2>7. m.kind = "misc" /\ DOMAIN l = {1} /\ l[1] = m
        BY <2>5
    <2>8. \A j \in DOMAIN l : l[j].kind = "misc"
        BY <2>7
    <2> QED BY <2>6, <2>8
<1>6. \A k \in DOMAIN x : /\ x[k].name = pkg.name /\ x[k].entry = pkg.entry
                          /\ x[k].transcript = "guaranteed" /\ x[k].part = p[k]
    <2>1. TAKE k \in DOMAIN x
    <2>2. PICK o : o = Own(pkg, k)
        OBVIOUS
    <2>3. x[k] = o
        BY <1>3, <2>2
    <2>4. o.name = pkg.name /\ o.entry = pkg.entry /\ o.transcript = "guaranteed" /\ o.part = p[k]
        BY <1>1, <2>2 DEF Own
    <2> QED BY <2>3, <2>4
<1>7. Named(t, target, s) = DOMAIN x
    BY <1>1, <1>3, <1>6 DEF Named
<1>8. {j \in DOMAIN x : x[j].entry = target.entry /\ x[j].transcript = "guaranteed"} = DOMAIN x
    BY <1>6
<1>9. Kept(x, DOMAIN x) = x
    BY KeptAll
<1>10. p = [j \in DOMAIN x |-> x[j].part]
    <2>1. p = [j \in DOMAIN p |-> p[j]]
        BY <1>2, LenProperties
    <2> QED BY <1>3, <1>6, <2>1
<1>11. PlacementOK(t, target, s, p)
    <2>1. PICK e : e = Kept(x, {j \in DOMAIN x : x[j].entry = target.entry /\ x[j].transcript = "guaranteed"})
        OBVIOUS
    <2>2. p = [j \in DOMAIN e |-> e[j].part]
        BY <1>8, <1>9, <1>10, <2>1
    <2>3. \A k \in CallsTo(t, s, c) : a[k].entry = target.entry => a[k].guaranteed # None /\ a[k].fallible = None
        BY <1>2, <1>4
    <2>4. \A j \in DOMAIN x : x[j].entry = target.entry
        BY <1>6
    <2>5. PICK named : named = Named(t, target, s)
        OBVIOUS
    <2>6. /\ e = Kept(x, {j \in named : x[j].entry = target.entry /\ x[j].transcript = "guaranteed"})
          /\ \A j \in named : x[j].entry = target.entry
        BY <1>7, <2>1, <2>4, <2>5
    <2>7. /\ c = target.contract /\ a = t.intents[s].actions
        BY <1>1
    <2> QED BY <1>2, <1>3, <1>5, <2>2, <2>3, <2>5, <2>6, <2>7 DEF PlacementOK
<1> QED BY <1>1, <1>11, PlacedRaw

\* A guarded transaction of the target reads back: unless the reader throws, each package
\* is among the verified ones, with its parts.
LEMMA GuardedIsVerified ==
    ASSUME NEW t, IsTx(t), NEW pkg \in Packages, IntentCarries(t, pkg),
           NEW target \in [contract : Contracts, entry : EntryPoints, name : Names],
           pkg.contract = target.contract, pkg.entry = target.entry, pkg.name = target.name,
           NEW net \in Networks, NEW h \in Hashes, NEW st \in Included,
           ~ReadTransaction(t, target, net, h).error
    PROVE  \E k \in DOMAIN VerifiedPackages(t, target, net, h, st) :
                k.segment = pkg.segment /\ VerifiedPackages(t, target, net, h, st)[k] = pkg.parts
<1>1. PICK V : VerdictAs(t, target, net, h, st, V)
    BY VerdictIs
<1>2. PICK s, p : s = pkg.segment /\ p = pkg.parts
    OBVIOUS
<1>3. PlacementOK(t, target, s, p) /\ RawParts(t, target, s) = p
    BY <1>2, GuardedIsPlaced
<1>4. s \in RawIntents(t, target)
    <2>1. s \in DOMAIN t.intents
        BY <1>3 DEF PlacementOK
    <2>2. p # <<>>
        BY <1>2 DEF IntentCarries
    <2> QED BY <1>3, <2>1, <2>2 DEF RawIntents
<1>5. PICK k : k = Group(net, target.contract, target.name, h, s)
    OBVIOUS
<1>6. k \in DOMAIN V /\ k.segment = s
    BY <1>1, <1>3, <1>4, <1>5 DEF VerdictAs, Group
<1>7. \E q \in RawIntents(t, target) : k = Group(net, target.contract, target.name, h, q) /\ V[k] = RawParts(t, target, q)
    BY <1>1, <1>6 DEF VerdictAs
<1>8. V[k] = p
    BY <1>3, <1>5, <1>7 DEF Group
<1>9. V = VerifiedPackages(t, target, net, h, st)
    BY <1>1 DEF VerdictAs
<1> QED BY <1>2, <1>6, <1>8, <1>9
=============================================================================
