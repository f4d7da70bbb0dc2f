----------------------------- MODULE ListProofs -----------------------------
(***************************************************************************)
(* What the provers need to know of least numbers, of the sizes of sets    *)
(* and of lists from which elements are removed.                           *)
(***************************************************************************)
EXTENDS Lists, TLAPS, FiniteSetTheorems, SequenceTheorems, WellFoundedInduction

\* A set of natural numbers has a least one.
LEMMA LeastExists ==
    ASSUME NEW T, T \subseteq Nat, T # {}
    PROVE  \E x \in T : \A y \in T : x <= y
<1>1. PICK x \in T : \A y \in T : ~(<<y, x>> \in OpToRel(<, Nat))
    BY WFMin, NatLessThanWellFounded, Zenon
<1>2. \A y \in T : ~(y < x)
    BY <1>1, Zenon DEF OpToRel
<1>3. \A y \in T : y \in Nat /\ x \in Nat
    OBVIOUS
<1> QED
    BY <1>2, <1>3

\* An interval counts its numbers, and sets apart count together.
LEMMA IntervalCounted == ASSUME NEW m \in Nat PROVE IsFiniteSet(1 .. m) /\ Cardinality(1 .. m) = m
BY FS_Interval

LEMMA DisjointCounted ==
    ASSUME NEW A, NEW B, IsFiniteSet(A), IsFiniteSet(B), A \cap B = {}
    PROVE  Cardinality(A \cup B) = Cardinality(A) + Cardinality(B)
<1>1. Cardinality(A \cap B) = 0
    BY FS_EmptySet
<1>2. Cardinality(A) \in Nat /\ Cardinality(B) \in Nat
    BY FS_CardinalityType
<1>3. Cardinality(A \cup B) = Cardinality(A) + Cardinality(B) - Cardinality(A \cap B)
    BY FS_Union
<1> QED
    BY <1>1, <1>2, <1>3

Increasing(f, m) == \A i, j \in 1 .. m : i < j => f[i] < f[j]

\* A finite set of numbers can be counted in increasing order: an element's
\* number is how many are not above it.
LEMMA CountedUpwards ==
    ASSUME NEW n \in Nat, NEW K \in SUBSET (1 .. n)
    PROVE  /\ IsFiniteSet(K) /\ Cardinality(K) \in Nat
           /\ \E f \in [1 .. Cardinality(K) -> K] : Increasing(f, Cardinality(K))
<1>1. IsFiniteSet(1 .. n)
    BY FS_Interval
<1>2. IsFiniteSet(K) /\ Cardinality(K) \in Nat
    BY <1>1, FS_Subset, FS_CardinalityType
<1> DEFINE upto(k) == {j \in K : j <= k}
           rank == [k \in K |-> Cardinality(upto(k))]
<1>3. ASSUME NEW k \in K PROVE /\ IsFiniteSet(upto(k)) /\ rank[k] \in 1 .. Cardinality(K)
    <2>1. upto(k) \in SUBSET K /\ k \in upto(k)
        BY <1>3
    <2>2. /\ IsFiniteSet(upto(k)) /\ Cardinality(upto(k)) \in Nat
          /\ Cardinality(upto(k)) <= Cardinality(K)
        BY <1>2, <2>1, FS_Subset, FS_CardinalityType
    <2>3. Cardinality(upto(k)) # 0
        BY <2>1, <2>2, FS_EmptySet
    <2> QED
        BY <1>2, <2>2, <2>3
<1>4. ASSUME NEW k \in K, NEW j \in K, k < j PROVE rank[k] < rank[j]
    <2>0. \A x \in K : x \in Int
        OBVIOUS
    <2>4. (\A x \in K : x <= k => x <= j) /\ j <= j /\ ~(j <= k)
        BY <1>4, <2>0
    <2>1. upto(k) \in SUBSET upto(j) /\ j \in upto(j) /\ j \notin upto(k)
        BY <2>4, Zenon
    <2>2. Cardinality(upto(k)) <= Cardinality(upto(j)) /\ Cardinality(upto(k)) # Cardinality(upto(j))
        BY <1>3, <2>1, FS_Subset
    <2>3. rank[k] \in Nat /\ rank[j] \in Nat
        BY <1>2, <1>3
    <2> QED
        BY <2>2, <2>3
<1> HIDE DEF upto
<1>5. rank \in [K -> 1 .. Cardinality(K)]
    BY <1>3
<1>6. PICK g : g = rank
    OBVIOUS
<1>7. /\ g \in [K -> 1 .. Cardinality(K)]
      /\ \A k, j \in K : k < j => g[k] < g[j]
    BY <1>4, <1>5, <1>6
<1> HIDE DEF rank
<1>8. \A k, j \in K : k \in Int /\ j \in Int /\ g[k] \in Int /\ g[j] \in Int
    BY <1>2, <1>7
<1>9. g \in Injection(K, 1 .. Cardinality(K))
    BY <1>7, <1>8 DEF Injection, IsInjective
<1>10. IsFiniteSet(1 .. Cardinality(K)) /\ Cardinality(1 .. Cardinality(K)) = Cardinality(K)
    BY <1>2, FS_Interval
<1>11. g \in Surjection(K, 1 .. Cardinality(K))
    BY <1>9, <1>10, FS_Injection
<1>12. \A i \in 1 .. Cardinality(K) : \E k \in K : g[k] = i
    BY <1>11 DEF Surjection
<1> DEFINE f == [i \in 1 .. Cardinality(K) |-> CHOOSE k \in K : g[k] = i]
<1>13. \A i \in 1 .. Cardinality(K) : f[i] \in K /\ g[f[i]] = i
    BY <1>12
<1>14. f \in [1 .. Cardinality(K) -> K]
    BY <1>13
<1>15. Increasing(f, Cardinality(K))
    <2> SUFFICES ASSUME NEW i \in 1 .. Cardinality(K), NEW j \in 1 .. Cardinality(K), i < j
        PROVE f[i] < f[j]
        BY DEF Increasing
    <2>1. PICK a \in K, b \in K : a = f[i] /\ b = f[j] /\ g[a] = i /\ g[b] = j
        BY <1>13
    <2>2. a \in Int /\ b \in Int /\ i \in Int /\ j \in Int
        OBVIOUS
    <2>3. ~(a = b) /\ ~(b < a)
        BY <1>7, <2>1, <2>2
    <2> QED
        BY <2>1, <2>2, <2>3
<1> QED
    BY <1>2, <1>14, <1>15

\* Pick(s, K) is a sequence of the elements at the places in K, each once.
LEMMA Picked ==
    ASSUME NEW S, NEW s \in Seq(S), NEW K \in SUBSET DOMAIN s
    PROVE  /\ Pick(s, K) \in Seq(S)
           /\ \A i \in DOMAIN Pick(s, K) : \E k \in K : Pick(s, K)[i] = s[k]
           /\ \A k \in K : \E i \in DOMAIN Pick(s, K) : Pick(s, K)[i] = s[k]
           /\ (\A k, j \in DOMAIN s : s[k] = s[j] => k = j)
                => \A i, j \in DOMAIN Pick(s, K) : Pick(s, K)[i] = Pick(s, K)[j] => i = j
<1>1. Len(s) \in Nat /\ DOMAIN s = 1 .. Len(s) /\ K \in SUBSET (1 .. Len(s))
    OBVIOUS
<1>2. PICK n \in Nat : n = Cardinality(K)
    BY <1>1, CountedUpwards
<1>3. IsFiniteSet(K) /\ \E g \in [1 .. n -> K] : Increasing(g, n)
    BY <1>1, <1>2, CountedUpwards
<1>4. PICK f : f = CHOOSE g \in [1 .. n -> K] : \A i, j \in DOMAIN g : i < j => g[i] < g[j]
    OBVIOUS
<1>5. f \in [1 .. n -> K] /\ \A i, j \in 1 .. n : i < j => f[i] < f[j]
    <2>1. \E g \in [1 .. n -> K] : \A i, j \in DOMAIN g : i < j => g[i] < g[j]
        BY <1>3 DEF Increasing
    <2> QED
        BY <1>4, <2>1
<1>6. \A i, j \in 1 .. n : f[i] = f[j] => i = j
    <2> SUFFICES ASSUME NEW i \in 1 .. n, NEW j \in 1 .. n, f[i] = f[j] PROVE i = j
        OBVIOUS
    <2>1. i \in Int /\ j \in Int /\ f[i] \in Int /\ f[j] \in Int
        BY <1>1, <1>5
    <2> QED
        BY <1>5, <2>1
<1>7. f \in Injection(1 .. n, K)
    BY <1>5, <1>6 DEF Injection, IsInjective
<1>8. IsFiniteSet(1 .. n) /\ Cardinality(1 .. n) = n
    BY FS_Interval
<1>9. \A k \in K : \E i \in 1 .. n : f[i] = k
    <2>1. f \in Surjection(1 .. n, K)
        BY <1>2, <1>3, <1>7, <1>8, FS_Injection
    <2> QED
        BY <2>1 DEF Surjection
<1>10. Pick(s, K) = [i \in 1 .. n |-> s[f[i]]]
    BY <1>2, <1>4 DEF Pick
<1>11. \A i \in 1 .. n : s[f[i]] \in S
    BY <1>1, <1>5
<1>12. PICK p : p = Pick(s, K)
    OBVIOUS
<1>13. p \in Seq(S) /\ DOMAIN p = 1 .. n /\ \A i \in 1 .. n : p[i] = s[f[i]]
    BY <1>10, <1>11, <1>12
<1>14. \A i \in DOMAIN p : \E k \in K : p[i] = s[k]
    BY <1>5, <1>13
<1>15. \A k \in K : \E i \in DOMAIN p : p[i] = s[k]
    BY <1>9, <1>13
<1>16. ASSUME \A k, j \in DOMAIN s : s[k] = s[j] => k = j
       PROVE  \A i, j \in DOMAIN p : p[i] = p[j] => i = j
    BY <1>1, <1>5, <1>6, <1>13, <1>16
<1> QED
    BY <1>12, <1>13, <1>14, <1>15, <1>16

-----------------------------------------------------------------------------
(***************************************************************************)
(* What is in a list, and whether it is there once.                        *)
(***************************************************************************)
Has(s, e) == \E i \in DOMAIN s : s[i] = e
Distinct(s) == \A i, j \in DOMAIN s : s[i] = s[j] => i = j

\* One more at the end.
LEMMA HasAppended ==
    ASSUME NEW S, NEW s \in Seq(S), NEW x \in S
    PROVE  /\ Append(s, x) \in Seq(S)
           /\ \A e : Has(Append(s, x), e) <=> Has(s, e) \/ e = x
           /\ Distinct(s) /\ ~Has(s, x) => Distinct(Append(s, x))
<1>1. PICK a : a = Append(s, x)
    OBVIOUS
<1>2. /\ a \in Seq(S) /\ DOMAIN a = 1 .. Len(s) + 1 /\ DOMAIN s = 1 .. Len(s)
      /\ Len(s) \in Nat
      /\ \A i \in 1 .. Len(s) : a[i] = s[i]
      /\ a[Len(s) + 1] = x
    BY <1>1
<1>3. \A e : Has(a, e) <=> Has(s, e) \/ e = x
    BY <1>2 DEF Has
<1>4. Distinct(s) /\ ~Has(s, x) => Distinct(a)
    BY <1>2 DEF Has, Distinct
<1> QED
    BY <1>1, <1>2, <1>3, <1>4

\* Two lists in one.
LEMMA HasJoined ==
    ASSUME NEW S, NEW s \in Seq(S), NEW t \in Seq(S)
    PROVE  /\ s \o t \in Seq(S)
           /\ \A e : Has(s \o t, e) <=> Has(s, e) \/ Has(t, e)
           /\ Distinct(s \o t) <=> /\ Distinct(s) /\ Distinct(t)
                                   /\ \A e : ~(Has(s, e) /\ Has(t, e))
<1>1. PICK c : c = s \o t
    OBVIOUS
<1>2. /\ c \in Seq(S) /\ Len(s) \in Nat /\ Len(t) \in Nat
      /\ DOMAIN c = 1 .. Len(s) + Len(t) /\ DOMAIN s = 1 .. Len(s) /\ DOMAIN t = 1 .. Len(t)
      /\ \A i \in 1 .. Len(s) : c[i] = s[i] /\ i \in DOMAIN c
      /\ \A i \in 1 .. Len(t) : c[Len(s) + i] = t[i] /\ Len(s) + i \in DOMAIN c
      /\ \A i \in DOMAIN c : i \in DOMAIN s \/ (i - Len(s) \in DOMAIN t /\ i = Len(s) + (i - Len(s)))
    BY <1>1, ConcatProperties
<1>3. \A e : Has(c, e) <=> Has(s, e) \/ Has(t, e)
    BY <1>2 DEF Has
<1>4. ASSUME Distinct(c) PROVE Distinct(s) /\ Distinct(t) /\ \A e : ~(Has(s, e) /\ Has(t, e))
    <2>1. Distinct(s)
        BY <1>2, <1>4 DEF Distinct
    <2>2. Distinct(t)
        <3> SUFFICES ASSUME NEW i \in DOMAIN t, NEW j \in DOMAIN t, t[i] = t[j] PROVE i = j
            BY DEF Distinct
        <3>1. c[Len(s) + i] = c[Len(s) + j] /\ Len(s) + i \in DOMAIN c /\ Len(s) + j \in DOMAIN c
            BY <1>2
        <3>2. Len(s) + i = Len(s) + j
            BY <1>4, <3>1 DEF Distinct
        <3> QED
            BY <1>2, <3>2
    <2>3. ASSUME NEW e, Has(s, e), Has(t, e) PROVE FALSE
        <3>1. PICK i \in DOMAIN s : s[i] = e
            BY <2>3 DEF Has
        <3>2. PICK j \in DOMAIN t : t[j] = e
            BY <2>3 DEF Has
        <3>4. c[i] = c[Len(s) + j] /\ i \in DOMAIN c /\ Len(s) + j \in DOMAIN c
            BY <1>2, <3>1, <3>2
        <3>3. i = Len(s) + j
            BY <1>4, <3>4 DEF Distinct
        <3> QED
            BY <1>2, <3>3
    <2> QED
        BY <2>1, <2>2, <2>3
<1>5. ASSUME Distinct(s), Distinct(t), \A e : ~(Has(s, e) /\ Has(t, e)) PROVE Distinct(c)
    <2> SUFFICES ASSUME NEW i \in DOMAIN c, NEW j \in DOMAIN c, c[i] = c[j] PROVE i = j
        BY DEF Distinct
    <2>1. \A k \in DOMAIN c : \/ k \in DOMAIN s /\ c[k] = s[k] /\ Has(s, c[k])
                             \/ /\ k - Len(s) \in DOMAIN t /\ c[k] = t[k - Len(s)]
                                /\ Has(t, c[k]) /\ k \in Int
        BY <1>2 DEF Has
    <2>2. CASE i \in DOMAIN s /\ j \in DOMAIN s
        BY <1>2, <1>5, <2>2 DEF Distinct
    <2>3. CASE i - Len(s) \in DOMAIN t /\ j - Len(s) \in DOMAIN t /\ i \notin DOMAIN s /\ j \notin DOMAIN s
        <3>1. t[i - Len(s)] = t[j - Len(s)] /\ i \in Int /\ j \in Int
            BY <1>2, <2>1, <2>3
        <3>2. i - Len(s) = j - Len(s)
            BY <1>5, <2>3, <3>1 DEF Distinct
        <3> QED
            BY <1>2, <3>1, <3>2
    <2> QED
        BY <1>5, <2>1, <2>2, <2>3
<1> QED
    BY <1>1, <1>2, <1>3, <1>4, <1>5

\* What a condition leaves of a list.
LEMMA HasRetained ==
    ASSUME NEW S, NEW s \in Seq(S), NEW T
    PROVE  /\ Retain(s, T) \in Seq(S)
           /\ \A e : Has(Retain(s, T), e) <=> Has(s, e) /\ e \in T
           /\ Distinct(s) => Distinct(Retain(s, T))
<1>1. PICK K \in SUBSET DOMAIN s : K = {i \in DOMAIN s : s[i] \in T}
    OBVIOUS
<1>2. PICK r : r = Pick(s, K)
    OBVIOUS
<1>3. r = Retain(s, T)
    BY <1>1, <1>2 DEF Retain
<1>4. /\ r \in Seq(S)
      /\ \A i \in DOMAIN r : \E k \in K : r[i] = s[k]
      /\ \A k \in K : \E i \in DOMAIN r : r[i] = s[k]
      /\ (\A k, j \in DOMAIN s : s[k] = s[j] => k = j)
            => \A i, j \in DOMAIN r : r[i] = r[j] => i = j
    BY <1>2, Picked
<1>5. \A e : Has(r, e) <=> Has(s, e) /\ e \in T
    BY <1>1, <1>4 DEF Has
<1>6. Distinct(s) => Distinct(r)
    BY <1>4 DEF Distinct
<1> QED
    BY <1>3, <1>4, <1>5, <1>6

\* The first leaves a list.
LEMMA HasTail ==
    ASSUME NEW S, NEW s \in Seq(S), s # <<>>
    PROVE  /\ Head(s) \in S /\ Tail(s) \in Seq(S)
           /\ \A e : Has(s, e) <=> e = Head(s) \/ Has(Tail(s), e)
           /\ Distinct(s) => Distinct(Tail(s)) /\ ~Has(Tail(s), Head(s))
<1>1. PICK t : t = Tail(s)
    OBVIOUS
<1>2. /\ t \in Seq(S) /\ Len(s) \in Nat /\ Len(s) >= 1
      /\ DOMAIN t = 1 .. Len(s) - 1 /\ DOMAIN s = 1 .. Len(s)
      /\ \A i \in 1 .. Len(s) - 1 : t[i] = s[i + 1] /\ i + 1 \in DOMAIN s
      /\ Head(s) = s[1] /\ s[1] \in S
    BY <1>1
<1>3. \A i \in DOMAIN s : i = 1 \/ (i - 1 \in DOMAIN t /\ t[i - 1] = s[i])
    BY <1>2
<1>4. ASSUME NEW e PROVE Has(s, e) <=> (e = s[1] \/ Has(t, e))
    <2>1. ASSUME NEW i \in DOMAIN s, s[i] = e PROVE e = s[1] \/ Has(t, e)
        BY <1>3, <2>1 DEF Has
    <2>2. ASSUME NEW i \in DOMAIN t, t[i] = e PROVE Has(s, e)
        BY <1>2, <2>2 DEF Has
    <2>3. 1 \in DOMAIN s
        BY <1>2
    <2> QED
        BY <2>1, <2>2, <2>3 DEF Has
<1>5. ASSUME Distinct(s) PROVE Distinct(t) /\ ~Has(t, s[1])
    <2>1. Distinct(t)
        <3> SUFFICES ASSUME NEW i \in DOMAIN t, NEW j \in DOMAIN t, t[i] = t[j] PROVE i = j
            BY DEF Distinct
        <3>1. s[i + 1] = s[j + 1] /\ i + 1 \in DOMAIN s /\ j + 1 \in DOMAIN s
            BY <1>2
        <3>2. i + 1 = j + 1
            BY <1>5, <3>1 DEF Distinct
        <3> QED
            BY <1>2, <3>2
    <2>2. ASSUME NEW i \in DOMAIN t, t[i] = s[1] PROVE FALSE
        <3>1. i + 1 = 1
            BY <1>2, <1>5, <2>2 DEF Distinct
        <3> QED
            BY <1>2, <3>1
    <2> QED
        BY <2>1, <2>2 DEF Has
<1> QED
    BY <1>1, <1>2, <1>4, <1>5
=============================================================================
