---------------------------- MODULE Merkle_proofs ----------------------------
(***************************************************************************)
(* What a Merkle root says, for lists of any length: it is the same in     *)
(* whatever order the leaves are listed, and no two sets of leaves have    *)
(* the same root.  The levels are computed by recursion; the induction is  *)
(* done on sets of numbers, since their order is well-founded.             *)
(***************************************************************************)
EXTENDS Merkle, FiniteSetTheorems, FunctionTheorems, SequenceTheorems, TLAPS

-----------------------------------------------------------------------------
(* Induction.                                                              *)

LEMMA LeastElement ==
    ASSUME NEW S \in SUBSET Nat, S # {}
    PROVE  \E m \in S : \A k \in S : m <= k
<1>1. PICK R : IsWellFoundedOn(R, Nat) /\ \A x, y \in Nat : x < y => <<x, y>> \in R
    <2>1. \A x, y \in Nat : x < y => <<x, y>> \in OpToRel(<, Nat)
        BY DEF OpToRel
    <2> QED
        BY <2>1, NatLessThanWellFounded, Zenon
<1>2. \E x \in S : \A y \in S : ~ (<<y, x>> \in R)
    <2>1. S \subseteq Nat /\ S # {} /\ IsWellFoundedOn(R, Nat)
        BY <1>1
    <2> QED
        BY <2>1, WFMin, Zenon
<1>3. PICK m \in S : \A y \in S : ~ (<<y, m>> \in R)
    BY <1>2
<1>4. \A k \in S : k \in Nat /\ m \in Nat /\ ~(k < m)
    BY <1>1, <1>3
<1> QED
    BY <1>4

LEMMA SetInduction ==
    ASSUME NEW S, 0 \in S, \A n \in Nat : n \in S => n + 1 \in S
    PROVE  \A n \in Nat : n \in S
<1> DEFINE T == {n \in Nat : n \notin S}
<1>1. SUFFICES ASSUME T # {} PROVE FALSE
    OBVIOUS
<1>2. PICK m \in T : \A k \in T : m <= k
    BY <1>1, LeastElement
<1>3. m # 0 /\ m - 1 \in Nat
    BY <1>2
<1>4. m - 1 \notin T
    BY <1>2, <1>3
<1>5. m - 1 \in S /\ m = (m - 1) + 1
    BY <1>3, <1>4
<1> QED
    BY <1>2, <1>3, <1>5

-----------------------------------------------------------------------------
(* Sorting.                                                                *)

\* Sorting rearranges: entry k of the result is the one whose place is k.
LEMMA SortedRearranges ==
    ASSUME NEW n \in Nat, NEW s \in [1 .. n -> Nat], Len(s) = n,
           \A i, j \in 1 .. n : s[i] = s[j] => i = j
    PROVE  \E p \in [1 .. n -> 1 .. n] :
                /\ Sorted(s) = [k \in 1 .. n |-> s[p[k]]]
                /\ \A k, l \in 1 .. n : k < l => p[k] # p[l] /\ s[p[k]] < s[p[l]]
<1> DEFINE I == 1 .. n
           upTo(i) == {j \in I : s[j] < s[i] \/ (s[j] = s[i] /\ j <= i)}
           place == [i \in I |-> Cardinality(upTo(i))]
<1>1. IsFiniteSet(I) /\ Cardinality(I) = n
    BY FS_Interval
<1>2. \A i \in I : upTo(i) \in SUBSET I /\ upTo(i) # {} /\ IsFiniteSet(upTo(i))
    <2>1. \A i \in I : upTo(i) \in SUBSET I /\ i \in upTo(i)
        OBVIOUS
    <2> HIDE DEF upTo
    <2> QED
        BY <1>1, <2>1, FS_Subset
<1>3. place \in [I -> I]
    <2>1. ASSUME NEW i \in I PROVE Cardinality(upTo(i)) \in I
        <3> DEFINE U == upTo(i)
        <3>1. U \in SUBSET I /\ U # {} /\ IsFiniteSet(U)
            BY <1>2
        <3> HIDE DEF upTo, U
        <3>2. Cardinality(U) \in Nat /\ Cardinality(U) # 0
            BY <3>1, FS_CardinalityType, FS_EmptySet
        <3>3. Cardinality(U) <= n
            <4> HIDE DEF I
            <4> QED
                BY <1>1, <3>1, FS_Subset
        <3>4. Cardinality(U) \in I
            BY <3>2, <3>3
        <3> QED
            BY <3>4 DEF U
    <2> QED
        BY <2>1
<1>4. ASSUME NEW i \in I, NEW j \in I, s[i] < s[j] PROVE place[i] < place[j]
    <2>1. upTo(i) \in SUBSET upTo(j) /\ upTo(i) # upTo(j)
        <3>1. s[i] \in Nat /\ s[j] \in Nat
            OBVIOUS
        <3>2. j \in upTo(j) /\ j \notin upTo(i)
            BY <1>4, <3>1
        <3>3. \A k \in upTo(i) : k \in upTo(j)
            BY <1>4, <3>1
        <3> QED
            BY <3>2, <3>3
    <2>2. Cardinality(upTo(i)) <= Cardinality(upTo(j))
          /\ Cardinality(upTo(i)) # Cardinality(upTo(j))
        <3> HIDE DEF upTo
        <3> QED
            BY <1>2, <2>1, FS_Subset
    <2>3. place[i] \in I /\ place[j] \in I
        BY <1>3
    <2> HIDE DEF upTo
    <2> QED
        BY <2>2, <2>3
<1>5. \A i \in I : Place(s, i) = place[i]
    BY DEF Place
<1> HIDE DEF place
<1>6. \A i, j \in I : place[i] = place[j] => i = j
    <2>1. ASSUME NEW i \in I, NEW j \in I, i # j PROVE place[i] # place[j]
        <3>1. s[i] \in Nat /\ s[j] \in Nat /\ s[i] # s[j]
            BY <2>1
        <3>2. s[i] < s[j] \/ s[j] < s[i]
            BY <3>1
        <3>3. place[i] < place[j] \/ place[j] < place[i]
            BY <1>4, <3>2
        <3> QED
            BY <1>3, <3>3
    <2> QED
        BY <2>1
<1>7. \A k \in I : \E i \in I : place[i] = k
    <2> HIDE DEF I
    <2>1. place \in Injection(I, I)
        BY <1>3, <1>6, Fun_IsInj
    <2>2. place \in Surjection(I, I)
        BY <1>1, <2>1, FS_Injection
    <2> QED
        BY <2>2, Fun_SurjectionProperties
<1> DEFINE p == [k \in I |-> CHOOSE i \in I : place[i] = k]
<1>8. p \in [I -> I] /\ \A k \in I : place[p[k]] = k
    BY <1>7
<1> HIDE DEF p
<1>9. Sorted(s) = [k \in I |-> s[p[k]]]
    <2> DEFINE entry(k) == CHOOSE i \in 1 .. Len(s) : Place(s, i) = k
    <2>1. Sorted(s) = [k \in 1 .. Len(s) |-> s[entry(k)]]
        BY DEF Sorted
    <2>2. ASSUME NEW k \in I PROVE entry(k) = p[k]
        <3>1. p[k] \in 1 .. Len(s) /\ Place(s, p[k]) = k
            BY <1>5, <1>8
        <3>2. \A i \in 1 .. Len(s) : Place(s, i) = k => i = p[k]
            BY <1>5, <1>6, <3>1
        <3> QED
            BY <3>1, <3>2
    <2> HIDE DEF entry
    <2> QED
        BY <2>1, <2>2
<1>10. ASSUME NEW k \in I, NEW l \in I, k < l PROVE p[k] # p[l] /\ s[p[k]] < s[p[l]]
    <2>1. p[k] \in I /\ p[l] \in I /\ place[p[k]] = k /\ place[p[l]] = l
        BY <1>8
    <2>2. s[p[k]] \in Nat /\ s[p[l]] \in Nat
        BY <2>1
    <2>3. ~(s[p[l]] < s[p[k]])
        BY <1>4, <1>10, <2>1
    <2>4. p[k] # p[l]
        BY <1>10, <2>1
    <2>5. s[p[k]] # s[p[l]]
        BY <2>1, <2>4
    <2> QED
        BY <2>2, <2>3, <2>4, <2>5
<1> QED
    BY <1>8, <1>9, <1>10

\* Every finite set can be listed.
LEMMA ListingExists ==
    ASSUME NEW S, IsFiniteSet(S)
    PROVE  \E u : u \in Listings(S)
<1> DEFINE I == 1 .. Cardinality(S)
<1>1. PICK u : u \in Bijection(I, S)
    BY FS_CardinalityType DEF ExistsBijection
<1>2. u \in [I -> S] /\ \A i, j \in I : u[i] = u[j] => i = j
    <2> HIDE DEF I
    <2> QED
        BY <1>1, Fun_BijectionProperties
<1> QED
    BY <1>2 DEF Listings

\* A listing has its length, and its entries are the elements of the set.
LEMMA ListingReachesAll ==
    ASSUME NEW S, IsFiniteSet(S), NEW u \in Listings(S)
    PROVE  \A e \in S : \E i \in 1 .. Cardinality(S) : u[i] = e
<1> DEFINE I == 1 .. Cardinality(S)
<1>1. IsFiniteSet(I) /\ Cardinality(I) = Cardinality(S)
    BY FS_CardinalityType, FS_Interval
<1>2. u \in Injection(I, S)
    BY Fun_IsInj DEF Listings
<1> HIDE DEF I
<1>3. u \in Surjection(I, S)
    BY <1>1, <1>2, FS_Injection
<1>4. \A e \in S : \E i \in I : u[i] = e
    BY <1>3, Fun_SurjectionProperties
<1> QED
    BY <1>4 DEF I

LEMMA ListingHasAll ==
    ASSUME NEW S, IsFiniteSet(S), NEW u \in Listings(S)
    PROVE  /\ Cardinality(S) \in Nat
           /\ Len(u) = Cardinality(S)
           /\ u \in [1 .. Cardinality(S) -> S]
           /\ \A i, j \in 1 .. Cardinality(S) : u[i] = u[j] => i = j
<1> DEFINE n == Cardinality(S)
<1>1. n \in Nat
    BY FS_CardinalityType
<1>2. u \in [1 .. n -> S] /\ \A i, j \in 1 .. n : u[i] = u[j] => i = j
    BY DEF Listings
<1>3. u \in Seq(S)
    BY <1>1, <1>2, SeqDef
<1>4. Len(u) = n
    BY <1>1, <1>2, <1>3, LenProperties
<1> QED
    BY <1>1, <1>2, <1>4

Increasing(q, n) == \A i, j \in 1 .. n : i < j => q[i] < q[j]

\* The leaves are those of an increasing listing ...
LEMMA LeavesAreSorted ==
    ASSUME NEW S \in SUBSET Nat, IsFiniteSet(S), NEW u \in Listings(S)
    PROVE  \E q \in Listings(S) :
                /\ Increasing(q, Cardinality(S))
                /\ SortedLeaves(u) = [i \in 1 .. Cardinality(S) |-> Leaf(q[i])]
<1> DEFINE n == Cardinality(S)
           q == Sorted(u)
<1>1. /\ n \in Nat /\ Len(u) = n
      /\ u \in [1 .. n -> Nat] /\ u \in [1 .. n -> S]
      /\ \A i, j \in 1 .. n : u[i] = u[j] => i = j
    <2>1. u \in [1 .. n -> S]
        BY ListingHasAll
    <2>2. u \in [1 .. n -> Nat]
        BY <2>1
    <2> QED
        BY <2>1, <2>2, ListingHasAll
<1> HIDE DEF n
<1>2. PICK p \in [1 .. n -> 1 .. n] :
            /\ q = [k \in 1 .. n |-> u[p[k]]]
            /\ \A k, l \in 1 .. n : k < l => p[k] # p[l] /\ u[p[k]] < u[p[l]]
    <2> HIDE DEF q
    <2>1. \E p \in [1 .. n -> 1 .. n] :
            /\ Sorted(u) = [k \in 1 .. n |-> u[p[k]]]
            /\ \A k, l \in 1 .. n : k < l => p[k] # p[l] /\ u[p[k]] < u[p[l]]
        BY <1>1, SortedRearranges
    <2> QED
        BY <2>1 DEF q
<1>3. q \in [1 .. n -> S]
    BY <1>1, <1>2
<1>4. \A i, j \in 1 .. n : q[i] = q[j] => i = j
    <2>1. ASSUME NEW i \in 1 .. n, NEW j \in 1 .. n, i # j PROVE q[i] # q[j]
        <3>1. i < j \/ j < i
            BY <1>1, <2>1
        <3>2. p[i] # p[j] /\ p[i] \in 1 .. n /\ p[j] \in 1 .. n
            BY <1>2, <2>1, <3>1
        <3>3. u[p[i]] # u[p[j]]
            BY <1>1, <3>2
        <3> QED
            BY <1>2, <3>3
    <2> QED
        BY <2>1
<1>5. q \in Listings(S)
    BY <1>3, <1>4 DEF Listings, n
<1>6. Increasing(q, n)
    BY <1>2 DEF Increasing
<1>7. SortedLeaves(u) = [i \in 1 .. n |-> Leaf(q[i])]
    BY <1>1 DEF SortedLeaves
<1> QED
    BY <1>5, <1>6, <1>7 DEF n

\* ... and there is only one.
LEMMA OneIncreasingListing ==
    ASSUME NEW S \in SUBSET Nat, IsFiniteSet(S),
           NEW q \in Listings(S), NEW r \in Listings(S),
           Increasing(q, Cardinality(S)), Increasing(r, Cardinality(S))
    PROVE  q = r
<1> DEFINE n == Cardinality(S)
           Differ == {k \in 1 .. n : q[k] # r[k]}
<1>1. /\ n \in Nat
      /\ q \in [1 .. n -> Nat] /\ r \in [1 .. n -> Nat]
      /\ q \in [1 .. n -> S] /\ r \in [1 .. n -> S]
      /\ \A x \in S : \E i \in 1 .. n : q[i] = x
      /\ \A x \in S : \E i \in 1 .. n : r[i] = x
    <2>1. \A x \in S : (\E i \in 1 .. n : q[i] = x) /\ (\E i \in 1 .. n : r[i] = x)
        BY ListingReachesAll
    <2>2. n \in Nat /\ q \in [1 .. n -> S] /\ r \in [1 .. n -> S]
        BY ListingHasAll
    <2> HIDE DEF n
    <2> QED
        BY <2>1, <2>2
<1>2. SUFFICES ASSUME Differ # {} PROVE FALSE
    BY <1>1
<1>3. PICK k \in Differ : \A j \in Differ : k <= j
    <2>1. Differ \in SUBSET Nat
        OBVIOUS
    <2> HIDE DEF Differ
    <2> QED
        BY <1>2, <2>1, LeastElement
<1>4. /\ k \in 1 .. n /\ q[k] # r[k] /\ q[k] \in Nat /\ r[k] \in Nat
      /\ \A j \in 1 .. n : j < k => q[j] = r[j]
    <2>1. k \in 1 .. n /\ q[k] # r[k]
        BY <1>3
    <2>2. q[k] \in Nat /\ r[k] \in Nat
        BY <1>1, <2>1
    <2>3. ASSUME NEW j \in 1 .. n, j < k PROVE q[j] = r[j]
        <3>1. j \notin Differ
            BY <1>1, <1>3, <2>1, <2>3
        <3> QED
            BY <3>1
    <2> QED
        BY <2>1, <2>2, <2>3
<1>5. CASE q[k] < r[k]
    <2>1. PICK j \in 1 .. n : r[j] = q[k]
        BY <1>1, <1>4
    <2>2. r[j] < r[k] /\ j # k
        BY <1>4, <1>5, <2>1
    <2>3. j < k
        <3>1. k < j => r[k] < r[j]
            BY <1>4 DEF Increasing
        <3>2. j < k \/ k < j
            BY <1>1, <1>4, <2>2
        <3>3. r[j] \in Nat /\ r[k] \in Nat
            BY <1>1, <1>4
        <3> QED
            BY <2>2, <3>1, <3>2, <3>3
    <2>4. q[j] < q[k] /\ q[j] = q[k]
        BY <1>4, <2>1, <2>3 DEF Increasing
    <2> QED
        BY <1>4, <2>4
<1>6. CASE r[k] < q[k]
    <2>1. PICK j \in 1 .. n : q[j] = r[k]
        BY <1>1, <1>4
    <2>2. q[j] < q[k] /\ j # k
        BY <1>4, <1>6, <2>1
    <2>3. j < k
        <3>1. k < j => q[k] < q[j]
            BY <1>4 DEF Increasing
        <3>2. j < k \/ k < j
            BY <1>1, <1>4, <2>2
        <3>3. q[j] \in Nat /\ q[k] \in Nat
            BY <1>1, <1>4
        <3> QED
            BY <2>2, <3>1, <3>2, <3>3
    <2>4. r[j] < r[k] /\ r[j] = r[k]
        BY <1>4, <2>1, <2>3 DEF Increasing
    <2> QED
        BY <1>4, <2>4
<1> QED
    BY <1>4, <1>5, <1>6

\* The order of the query makes no difference to the leaves.
LEMMA LeavesAreOfTheSet ==
    ASSUME NEW S \in SUBSET Nat, IsFiniteSet(S), NEW u \in Listings(S), NEW v \in Listings(S)
    PROVE  SortedLeaves(u) = SortedLeaves(v)
<1>1. PICK q \in Listings(S) :
            /\ Increasing(q, Cardinality(S))
            /\ SortedLeaves(u) = [i \in 1 .. Cardinality(S) |-> Leaf(q[i])]
    BY LeavesAreSorted
<1>2. PICK r \in Listings(S) :
            /\ Increasing(r, Cardinality(S))
            /\ SortedLeaves(v) = [i \in 1 .. Cardinality(S) |-> Leaf(r[i])]
    BY LeavesAreSorted
<1>3. q = r
    BY <1>1, <1>2, OneIncreasingListing
<1> QED
    BY <1>1, <1>2, <1>3
-----------------------------------------------------------------------------
(* The levels exist.                                                       *)

\* The first n + 1 levels over x.
FirstLevels(g, x, n) ==
    g = [k \in 0 .. n |-> IF k = 0 THEN x ELSE Level(g[k - 1])]

LEMMA FirstLevelsExist ==
    ASSUME NEW x
    PROVE  \A n \in Nat : \E g : FirstLevels(g, x, n)
<1> DEFINE T == {n \in Nat : \E g : FirstLevels(g, x, n)}
<1>1. 0 \in T
    <2>1. FirstLevels([k \in 0 .. 0 |-> x], x, 0)
        BY DEF FirstLevels
    <2> QED
        BY <2>1
<1>2. ASSUME NEW n \in Nat, n \in T PROVE n + 1 \in T
    <2>1. PICK g : FirstLevels(g, x, n)
        BY <1>2
    <2> DEFINE h == [k \in 0 .. n + 1 |-> IF k = n + 1 THEN Level(g[n]) ELSE g[k]]
    <2>2. \A k \in 0 .. n : g[k] = IF k = 0 THEN x ELSE Level(g[k - 1])
        BY <2>1 DEF FirstLevels
    <2>3. \A k \in 0 .. n : h[k] = g[k]
        OBVIOUS
    <2>4. ASSUME NEW k \in 0 .. n + 1
          PROVE  h[k] = IF k = 0 THEN x ELSE Level(h[k - 1])
        <3>1. CASE k = n + 1
            BY <2>3, <3>1
        <3>2. CASE k \in 0 .. n
            <4>1. k = 0 \/ k - 1 \in 0 .. n
                BY <3>2
            <4> QED
                BY <2>2, <2>3, <3>2, <4>1
        <3> QED
            BY <3>1, <3>2
    <2>5. h = [k \in 0 .. n + 1 |-> IF k = 0 THEN x ELSE Level(h[k - 1])]
        BY <2>4
    <2>6. FirstLevels(h, x, n + 1)
        BY <2>5 DEF FirstLevels
    <2> HIDE DEF h
    <2> QED
        BY <2>6
<1> HIDE DEF T
<1>3. \A n \in Nat : n \in T
    BY <1>1, <1>2, SetInduction
<1> QED
    BY <1>3 DEF T

LEMMA FirstLevelsAgree ==
    ASSUME NEW x
    PROVE  \A k \in Nat : \A m, n \in Nat : \A g, h :
                /\ k <= m /\ k <= n
                /\ FirstLevels(g, x, m) /\ FirstLevels(h, x, n)
                => g[k] = h[k]
<1> DEFINE Agree(k) == \A m, n \in Nat : \A g, h :
                /\ k <= m /\ k <= n
                /\ FirstLevels(g, x, m) /\ FirstLevels(h, x, n)
                => g[k] = h[k]
           T == {k \in Nat : Agree(k)}
<1>1. Agree(0)
    BY DEF FirstLevels
<1>2. ASSUME NEW k \in Nat, Agree(k) PROVE Agree(k + 1)
    <2> SUFFICES ASSUME NEW m \in Nat, NEW n \in Nat, NEW g, NEW h,
                        k + 1 <= m, k + 1 <= n,
                        FirstLevels(g, x, m), FirstLevels(h, x, n)
                 PROVE  g[k + 1] = h[k + 1]
        OBVIOUS
    <2>1. g[k] = h[k]
        BY <1>2
    <2>2. g[k + 1] = Level(g[k]) /\ h[k + 1] = Level(h[k])
        BY DEF FirstLevels
    <2> QED
        BY <2>1, <2>2
<1> HIDE DEF Agree
<1>3. 0 \in T /\ \A k \in Nat : k \in T => k + 1 \in T
    BY <1>1, <1>2
<1> HIDE DEF T
<1>4. \A k \in Nat : k \in T
    BY <1>3, SetInduction
<1>5. \A k \in Nat : Agree(k)
    BY <1>4 DEF T
<1> QED
    BY <1>5 DEF Agree

\* Levels is the function its definition says.
LEMMA LevelsAreRecursive ==
    ASSUME NEW x
    PROVE  \A k \in Nat : Levels(x)[k] = IF k = 0 THEN x ELSE Level(Levels(x)[k - 1])
<1> DEFINE first(n) == CHOOSE g : FirstLevels(g, x, n)
           level == [n \in Nat |-> first(n)[n]]
<1>1. \A n \in Nat : FirstLevels(first(n), x, n)
    BY FirstLevelsExist
<1> HIDE DEF first
<1>2. ASSUME NEW n \in Nat
      PROVE  level[n] = IF n = 0 THEN x ELSE Level(level[n - 1])
    <2>1. first(n)[n] = IF n = 0 THEN x ELSE Level(first(n)[n - 1])
        BY <1>1 DEF FirstLevels
    <2>2. ASSUME n # 0 PROVE first(n)[n - 1] = first(n - 1)[n - 1]
        BY <1>1, <2>2, FirstLevelsAgree
    <2> QED
        BY <2>1, <2>2
<1>3. level = [n \in Nat |-> IF n = 0 THEN x ELSE Level(level[n - 1])]
    BY <1>2
<1> HIDE DEF level
<1>4. Levels(x) = [n \in Nat |-> IF n = 0 THEN x ELSE Level(Levels(x)[n - 1])]
    BY <1>3 DEF Levels
<1> QED
    BY <1>4
-----------------------------------------------------------------------------
(* Each level halves the one below it, and hashes all of it.               *)

IsRow(x, m) == m \in Nat \ {0} /\ x = [i \in 1 .. m |-> x[i]]

LEMMA RowLength == ASSUME NEW x, NEW m, IsRow(x, m) PROVE Len(x) = m
<1> DEFINE S == {x[i] : i \in 1 .. m}
<1>1. m \in Nat /\ x \in [1 .. m -> S]
    <2>1. m \in Nat /\ x = [i \in 1 .. m |-> x[i]] /\ \A i \in 1 .. m : x[i] \in S
        BY DEF IsRow
    <2> HIDE DEF S
    <2> QED
        BY <2>1
<1> HIDE DEF S
<1>2. x \in Seq(S)
    BY <1>1, SeqDef
<1> QED
    BY <1>1, <1>2, LenProperties

Entries(x) == {x[i] : i \in 1 .. Len(x)}

\* The nodes from which nodes were computed.
Children(E) == UNION {y.node : y \in E}

LEMMA LevelHashesAll ==
    ASSUME NEW x, NEW m, IsRow(x, m)
    PROVE  /\ IsRow(Level(x), (m + 1) \div 2)
           /\ \A y \in Entries(Level(x)) : y = [node |-> y.node]
           /\ Children(Entries(Level(x))) = Entries(x)
<1> DEFINE h == (m + 1) \div 2
           other(i) == IF 2 * i > m THEN x[2 * i - 1] ELSE x[2 * i]
<1>1. Len(x) = m /\ m \in Nat \ {0} /\ h \in Nat \ {0}
    BY RowLength DEF IsRow
<1>2. Level(x) = [i \in 1 .. h |-> Node(x[2 * i - 1], other(i))]
    BY <1>1 DEF Level
<1>3. IsRow(Level(x), h)
    <2> HIDE DEF h, other
    <2> QED
        BY <1>1, <1>2 DEF IsRow
<1>4. Len(Level(x)) = h
    BY <1>3, RowLength
<1>5. \A i \in 1 .. h : /\ Level(x)[i] = [node |-> Level(x)[i].node]
                        /\ Level(x)[i].node = {x[2 * i - 1], other(i)}
    <2> SUFFICES ASSUME NEW i \in 1 .. h
                 PROVE  /\ Level(x)[i] = [node |-> Level(x)[i].node]
                        /\ Level(x)[i].node = {x[2 * i - 1], other(i)}
        OBVIOUS
    <2> HIDE DEF h, other
    <2>1. Level(x)[i] = Node(x[2 * i - 1], other(i))
        BY <1>2
    <2>2. Level(x)[i] = [node |-> {x[2 * i - 1], other(i)}]
        BY <2>1 DEF Node
    <2> QED
        BY <2>2
<1>6. \A y \in Entries(Level(x)) : y = [node |-> y.node]
    BY <1>4, <1>5 DEF Entries
<1>7. \A i \in 1 .. h : 2 * i - 1 \in 1 .. m /\ (2 * i > m \/ 2 * i \in 1 .. m)
    BY <1>1
<1>8. ASSUME NEW e \in Children(Entries(Level(x))) PROVE e \in Entries(x)
    <2>1. PICK i \in 1 .. h : e \in Level(x)[i].node
        BY <1>4 DEF Children, Entries
    <2>2. e = x[2 * i - 1] \/ (e = x[2 * i] /\ ~(2 * i > m))
        BY <1>5, <2>1
    <2> QED
        BY <1>1, <1>7, <2>2 DEF Entries
<1>9. ASSUME NEW e \in Entries(x) PROVE e \in Children(Entries(Level(x)))
    <2>1. PICK j \in 1 .. m : e = x[j]
        BY <1>1 DEF Entries
    <2> DEFINE i == (j + 1) \div 2
    <2>2. i \in 1 .. h /\ (j = 2 * i - 1 \/ (j = 2 * i /\ ~(2 * i > m)))
        BY <1>1
    <2>3. e \in {x[2 * i - 1], other(i)}
        BY <2>1, <2>2
    <2>4. e \in Level(x)[i].node /\ Level(x)[i] \in Entries(Level(x))
        <3> HIDE DEF i, h, other
        <3> QED
            BY <1>4, <1>5, <2>2, <2>3 DEF Entries
    <2> QED
        BY <2>4 DEF Children
<1> QED
    BY <1>3, <1>6, <1>8, <1>9

LEMMA LevelsAreRows ==
    ASSUME NEW x, NEW n, IsRow(x, n)
    PROVE  \A k \in Nat : LET row == Levels(x)[k] IN
                /\ IsRow(row, Len(row))
                /\ Len(row) = 1 \/ Len(row) + k <= n
<1> DEFINE L == Levels(x)
           T == {k \in Nat : /\ IsRow(L[k], Len(L[k]))
                             /\ Len(L[k]) = 1 \/ Len(L[k]) + k <= n}
<1>1. 0 \in T
    <2>1. L[0] = x
        BY LevelsAreRecursive
    <2>2. Len(x) = n /\ n \in Nat \ {0}
        BY RowLength DEF IsRow
    <2> HIDE DEF L
    <2> QED
        BY <2>1, <2>2
<1>2. ASSUME NEW k \in T PROVE k + 1 \in T
    <2> DEFINE row == L[k]
               m == Len(row)
    <2>1. k \in Nat /\ IsRow(row, m) /\ (m = 1 \/ m + k <= n)
        OBVIOUS
    <2>2. L[k + 1] = Level(row)
        BY <2>1, LevelsAreRecursive
    <2> HIDE DEF L, row, m
    <2>3. IsRow(Level(row), (m + 1) \div 2)
        BY <2>1, LevelHashesAll
    <2>4. Len(L[k + 1]) = (m + 1) \div 2 /\ IsRow(L[k + 1], Len(L[k + 1]))
        BY <2>2, <2>3, RowLength
    <2>5. m \in Nat \ {0} /\ n \in Nat
        BY <2>1 DEF IsRow
    <2>6. (m + 1) \div 2 = 1 \/ (m + 1) \div 2 + (k + 1) <= n
        BY <2>1, <2>5
    <2>7. k + 1 \in Nat /\ (Len(L[k + 1]) = 1 \/ Len(L[k + 1]) + (k + 1) <= n)
        BY <2>1, <2>4, <2>6
    <2> QED
        BY <2>4, <2>7
<1> HIDE DEF T
<1>3. \A k \in Nat : k \in T
    BY <1>1, <1>2, SetInduction
<1> QED
    BY <1>3 DEF T

\* There is a top, and so TopNode is the node of one.
LEMMA TopExists ==
    ASSUME NEW x, NEW n, IsRow(x, n)
    PROVE  \E p \in Nat : IsTop(Levels(x), p) /\ TopNode(x) = Levels(x)[p][1]
<1> DEFINE L == Levels(x)
           T == {k \in Nat : Len(L[k]) = 1}
<1>1. n \in Nat \ {0} /\ Len(x) = n
    BY RowLength DEF IsRow
<1>2. \A k \in Nat : Len(L[k]) \in Nat \ {0} /\ (Len(L[k]) = 1 \/ Len(L[k]) + k <= n)
    BY LevelsAreRows DEF IsRow
<1> HIDE DEF L
<1>3. n \in T
    BY <1>1, <1>2
<1>4. PICK p \in T : \A k \in T : p <= k
    <2>1. T \in SUBSET Nat
        OBVIOUS
    <2> HIDE DEF T
    <2> QED
        BY <1>3, <2>1, LeastElement
<1>5. \A j \in 0 .. p - 1 : Len(L[j]) > 1
    <2> SUFFICES ASSUME NEW j \in 0 .. p - 1 PROVE Len(L[j]) > 1
        OBVIOUS
    <2>1. p \in Nat /\ j \in Nat /\ j < p
        BY <1>4
    <2>2. Len(L[j]) # 1
        BY <1>4, <2>1
    <2>3. Len(L[j]) \in Nat \ {0}
        BY <1>2, <2>1
    <2> DEFINE l == Len(L[j])
    <2>4. l \in Nat /\ l # 0 /\ l # 1
        BY <2>2, <2>3
    <2> HIDE DEF l
    <2>5. l > 1
        BY <2>4
    <2> QED
        BY <2>5 DEF l
<1>6. p \in 0 .. Len(x) /\ IsTop(L, p)
    BY <1>1, <1>3, <1>4, <1>5 DEF IsTop
<1> DEFINE q == CHOOSE k \in 0 .. Len(x) : IsTop(L, k)
<1>7. q \in 0 .. Len(x) /\ IsTop(L, q)
    BY <1>6
<1>8. TopNode(x) = L[q][1]
    BY DEF TopNode, L
<1> HIDE DEF q
<1> QED
    BY <1>1, <1>7, <1>8 DEF L
-----------------------------------------------------------------------------
(* A root determines its leaves.                                           *)

IsLeafRow(x, m) == IsRow(x, m) /\ \A i \in 1 .. m : x[i] = [leaf |-> x[i].leaf]

\* From equal tops downwards: the trees have equal levels, so none ends before
\* the other, and at the bottom they have the same leaves.
LEMMA EqualTopsEqualLeaves ==
    ASSUME NEW x, NEW m, IsLeafRow(x, m), NEW y, NEW n, IsLeafRow(y, n),
           NEW p \in Nat, IsTop(Levels(x), p), NEW q \in Nat, IsTop(Levels(y), q),
           Levels(x)[p][1] = Levels(y)[q][1], p <= q
    PROVE  Entries(x) = Entries(y)
<1> DEFINE L == Levels(x)
           M == Levels(y)
           T == {j \in Nat : j <= p => Entries(L[p - j]) = Entries(M[q - j])}
<1>1. \A k \in Nat : /\ IsRow(L[k], Len(L[k])) /\ L[k + 1] = Level(L[k])
                     /\ IsRow(M[k], Len(M[k])) /\ M[k + 1] = Level(M[k])
    <2> SUFFICES ASSUME NEW k \in Nat
                 PROVE  /\ IsRow(L[k], Len(L[k])) /\ L[k + 1] = Level(L[k])
                        /\ IsRow(M[k], Len(M[k])) /\ M[k + 1] = Level(M[k])
        OBVIOUS
    <2>1. IsRow(x, m) /\ IsRow(y, n)
        BY DEF IsLeafRow
    <2>2. IsRow(L[k], Len(L[k])) /\ IsRow(M[k], Len(M[k]))
        BY <2>1, LevelsAreRows
    <2>3. k + 1 \in Nat /\ k + 1 # 0 /\ (k + 1) - 1 = k
        OBVIOUS
    <2> HIDE DEF L, M
    <2>4. L[k + 1] = Level(L[k]) /\ M[k + 1] = Level(M[k])
        BY <2>3, LevelsAreRecursive DEF L, M
    <2> QED
        BY <2>2, <2>4
<1>2. /\ Len(L[p]) = 1 /\ Len(M[q]) = 1 /\ L[p][1] = M[q][1]
      /\ L[0] = x /\ M[0] = y
    BY LevelsAreRecursive DEF IsTop
<1> HIDE DEF L, M
<1>3. 0 \in T
    <2>1. Entries(L[p]) = {L[p][1]} /\ Entries(M[q]) = {M[q][1]}
        BY <1>2 DEF Entries
    <2> QED
        BY <1>2, <2>1
<1>4. ASSUME NEW j \in T PROVE j + 1 \in T
    <2>1. SUFFICES ASSUME j + 1 <= p
                   PROVE  Entries(L[p - (j + 1)]) = Entries(M[q - (j + 1)])
        OBVIOUS
    <2> DEFINE a == p - (j + 1)
               b == q - (j + 1)
    <2>2. j \in Nat /\ a \in Nat /\ b \in Nat /\ a + 1 = p - j /\ b + 1 = q - j
        BY <2>1
    <2>3. Entries(L[a + 1]) = Entries(M[b + 1])
        BY <2>1, <2>2
    <2> HIDE DEF a, b
    <2>4. /\ Children(Entries(L[a + 1])) = Entries(L[a])
          /\ Children(Entries(M[b + 1])) = Entries(M[b])
        BY <1>1, <2>2, LevelHashesAll
    <2>5. Entries(L[a]) = Entries(M[b])
        BY <2>3, <2>4
    <2> QED
        BY <2>5 DEF a, b
<1> HIDE DEF T
<1>5. p \in T
    BY <1>3, <1>4, SetInduction
<1>6. Entries(L[0]) = Entries(M[q - p])
    BY <1>5 DEF T
<1>7. CASE p = q
    BY <1>2, <1>6, <1>7
<1>8. CASE p # q
    <2>1. q - p - 1 \in Nat /\ q - p = (q - p - 1) + 1
        BY <1>8
    <2> DEFINE a == q - p - 1
    <2>2. \A e \in Entries(M[q - p]) : e = [node |-> e.node]
        <3>1. IsRow(M[a], Len(M[a])) /\ M[a + 1] = Level(M[a])
            BY <1>1, <2>1
        <3>2. \A e \in Entries(Level(M[a])) : e = [node |-> e.node]
            BY <3>1, LevelHashesAll
        <3> QED
            BY <2>1, <3>1, <3>2
    <2>3. x[1] \in Entries(x) /\ x[1] = [leaf |-> x[1].leaf]
        BY RowLength DEF IsLeafRow, IsRow, Entries
    <2>4. [leaf |-> x[1].leaf] = [node |-> x[1].node]
        BY <1>2, <1>6, <2>2, <2>3
    <2>5. DOMAIN [leaf |-> x[1].leaf] = {"leaf"} /\ DOMAIN [node |-> x[1].node] = {"node"}
        OBVIOUS
    <2> QED
        BY <2>4, <2>5
<1> QED
    BY <1>7, <1>8

\* The two kinds of root: no leaves, or the top of the tree over the sorted leaves.
LEMMA RootOfNone ==
    ASSUME NEW u \in Listings({})
    PROVE  Root(u) = ZeroRoot
<1>1. Len(u) = 0
    BY ListingHasAll, FS_EmptySet
<1>2. SortedLeaves(u) = <<>>
    BY <1>1 DEF SortedLeaves
<1> QED
    BY <1>2 DEF Root

LEMMA RootOfSome ==
    ASSUME NEW S \in SUBSET Nat, IsFiniteSet(S), S # {}, NEW u \in Listings(S)
    PROVE  /\ Root(u) = TopNode(SortedLeaves(u))
           /\ IsLeafRow(SortedLeaves(u), Cardinality(S))
           /\ Entries(SortedLeaves(u)) = {Leaf(e) : e \in S}
<1> DEFINE n == Cardinality(S)
           leaves == SortedLeaves(u)
<1>1. n \in Nat \ {0}
    BY FS_CardinalityType, FS_EmptySet
<1>2. PICK q \in Listings(S) : leaves = [i \in 1 .. n |-> Leaf(q[i])]
    BY LeavesAreSorted
<1>3. \A e : e \in S <=> \E i \in 1 .. n : q[i] = e
    <2>1. q \in Listings(S)
        BY <1>2
    <2> HIDE DEF leaves
    <2>2. q \in [1 .. n -> S]
        BY <2>1 DEF Listings
    <2>3. \A e \in S : \E i \in 1 .. n : q[i] = e
        BY <2>1, ListingReachesAll
    <2> HIDE DEF n
    <2> QED
        BY <2>2, <2>3
<1> HIDE DEF n, leaves
<1>4. IsRow(leaves, n)
    BY <1>1, <1>2 DEF IsRow
<1>5. Len(leaves) = n
    BY <1>4, RowLength
<1>6. IsLeafRow(leaves, n)
    <2>1. ASSUME NEW i \in 1 .. n PROVE leaves[i] = [leaf |-> leaves[i].leaf]
        <3>1. leaves[i] = [leaf |-> q[i]]
            BY <1>2 DEF Leaf
        <3> QED
            BY <3>1
    <2> QED
        BY <1>4, <2>1 DEF IsLeafRow
<1>7. Entries(leaves) = {Leaf(e) : e \in S}
    BY <1>2, <1>3, <1>5 DEF Entries
<1>8. leaves # <<>>
    BY <1>1, <1>5
<1>9. Root(u) = TopNode(leaves)
    BY <1>8 DEF Root, leaves
<1> QED
    BY <1>6, <1>7, <1>9 DEF n, leaves

\* The root of some leaves is not the root of none.
LEMMA RootIsNotZero ==
    ASSUME NEW S \in SUBSET (Nat \ {0}), IsFiniteSet(S), S # {}, NEW u \in Listings(S)
    PROVE  Root(u) # ZeroRoot
<1> DEFINE x == SortedLeaves(u)
           n == Cardinality(S)
<1>1. /\ S \in SUBSET Nat /\ Root(u) = TopNode(x) /\ IsRow(x, n)
      /\ Entries(x) = {Leaf(e) : e \in S}
    BY RootOfSome DEF IsLeafRow
<1> HIDE DEF x, n
<1>2. PICK p \in Nat : IsTop(Levels(x), p) /\ TopNode(x) = Levels(x)[p][1]
    BY <1>1, TopExists
<1>3. Len(Levels(x)[p]) = 1 /\ TopNode(x) \in Entries(Levels(x)[p])
    BY <1>2 DEF IsTop, Entries
<1>4. CASE p = 0
    <2>1. Levels(x)[p] = x
        BY <1>4, LevelsAreRecursive
    <2>2. PICK e \in S : TopNode(x) = Leaf(e)
        BY <1>1, <1>3, <2>1
    <2>3. e # 0 /\ TopNode(x).leaf = e /\ ZeroRoot.leaf = 0
        BY <2>2 DEF Leaf, ZeroRoot
    <2> QED
        BY <1>1, <2>3
<1>5. CASE p # 0
    <2>1. p - 1 \in Nat /\ Levels(x)[p] = Level(Levels(x)[p - 1])
        BY <1>5, LevelsAreRecursive
    <2>2. IsRow(Levels(x)[p - 1], Len(Levels(x)[p - 1]))
        BY <1>1, <2>1, LevelsAreRows
    <2>3. TopNode(x) = [node |-> TopNode(x).node]
        BY <1>3, <2>1, <2>2, LevelHashesAll
    <2>4. DOMAIN TopNode(x) = {"node"} /\ DOMAIN ZeroRoot = {"leaf"}
        BY <2>3 DEF ZeroRoot
    <2> QED
        BY <1>1, <2>4
<1> QED
    BY <1>4, <1>5

-----------------------------------------------------------------------------
(* The theorems.                                                           *)

\* Whoever lists the rows, and in whatever order, computes the same root.
THEOREM RootIsOfTheSet ==
    ASSUME NEW S \in SUBSET Nat, IsFiniteSet(S), NEW u \in Listings(S), NEW v \in Listings(S)
    PROVE  Root(u) = Root(v)
BY LeavesAreOfTheSet DEF Root

\* A root stands for one set of leaves only, of whatever size.
THEOREM RootDeterminesLeaves ==
    ASSUME NEW S \in SUBSET (Nat \ {0}), IsFiniteSet(S), NEW u \in Listings(S),
           NEW T \in SUBSET (Nat \ {0}), IsFiniteSet(T), NEW v \in Listings(T),
           Root(u) = Root(v)
    PROVE  S = T
<1>1. CASE S = {} \/ T = {}
    BY <1>1, RootOfNone, RootIsNotZero
<1>2. CASE S # {} /\ T # {}
    <2> DEFINE x == SortedLeaves(u)
               y == SortedLeaves(v)
               m == Cardinality(S)
               n == Cardinality(T)
    <2>1. /\ TopNode(x) = TopNode(y)
          /\ IsLeafRow(x, m) /\ Entries(x) = {Leaf(e) : e \in S}
          /\ IsLeafRow(y, n) /\ Entries(y) = {Leaf(e) : e \in T}
        <3>1. S \in SUBSET Nat /\ T \in SUBSET Nat
            OBVIOUS
        <3> QED
            BY <1>2, <3>1, RootOfSome
    <2> HIDE DEF x, y, m, n
    <2>2. PICK p \in Nat : IsTop(Levels(x), p) /\ TopNode(x) = Levels(x)[p][1]
        BY <2>1, TopExists DEF IsLeafRow
    <2>3. PICK q \in Nat : IsTop(Levels(y), q) /\ TopNode(y) = Levels(y)[q][1]
        BY <2>1, TopExists DEF IsLeafRow
    <2>4. Entries(x) = Entries(y)
        <3>1. Levels(x)[p][1] = Levels(y)[q][1]
            BY <2>1, <2>2, <2>3
        <3>2. CASE p <= q
            BY <2>1, <2>2, <2>3, <3>1, <3>2, EqualTopsEqualLeaves
        <3>3. CASE q <= p
            BY <2>1, <2>2, <2>3, <3>1, <3>3, EqualTopsEqualLeaves
        <3> QED
            BY <3>2, <3>3
    <2>5. {Leaf(e) : e \in S} = {Leaf(e) : e \in T}
        BY <2>1, <2>4
    <2>6. ASSUME NEW d, NEW e, Leaf(d) = Leaf(e) PROVE d = e
        <3>1. [leaf |-> d].leaf = [leaf |-> e].leaf
            BY <2>6 DEF Leaf
        <3> QED
            BY <3>1
    <2>7. \A e : e \in S <=> Leaf(e) \in {Leaf(d) : d \in S}
        BY <2>6
    <2>8. \A e : e \in T <=> Leaf(e) \in {Leaf(d) : d \in T}
        BY <2>6
    <2> QED
        BY <2>5, <2>7, <2>8
<1> QED
    BY <1>1, <1>2
=============================================================================
