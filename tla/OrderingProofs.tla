--------------------------- MODULE OrderingProofs ---------------------------
(***************************************************************************)
(* What Sorted and Filtered return, and the two facts about numbers that   *)
(* the proofs of several components reason with in the place of induction: *)
(* a set of numbers has a least one, and an increasing enumeration of 1..n *)
(* is the identity.                                                        *)
(***************************************************************************)
EXTENDS Ordering, FiniteSetTheorems, WellFoundedInduction, TLAPS

(* A set of numbers has a least one. *)
LEMMA LeastNatural ==
    ASSUME NEW T \in SUBSET Nat, T # {}
    PROVE  \E x \in T : \A y \in T : x <= y
<1> DEFINE R == OpToRel(<, Nat)
<1>1. IsWellFoundedOn(R, Nat)
    BY NatLessThanWellFounded
<1>2. \A a, b \in Nat : <<a, b>> \in R <=> a < b
    BY DEF OpToRel
<1> HIDE DEF R
<1>3. PICK x \in T : \A y \in T : ~(<<y, x>> \in R)
    BY <1>1, WFMin
<1>4. ASSUME NEW y \in T PROVE x <= y
    <2>1. x \in Nat /\ y \in Nat
        OBVIOUS
    <2>2. ~(y < x)
        BY <1>2, <1>3, <2>1
    <2> QED BY <2>1, <2>2
<1> QED BY <1>4

(* An increasing map of 1..n onto 1..m is the identity. *)
IncreasesOnto(f, n, m) ==
    /\ n \in Nat /\ m \in Nat /\ f \in [1..n -> 1..m]
    /\ \A i, j \in 1..n : i < j => f[i] < f[j]
    /\ \A k \in 1..m : \E i \in 1..n : f[i] = k

LEMMA IncreasingOnto ==
    ASSUME NEW n, NEW m, NEW f, IncreasesOnto(f, n, m)
    PROVE  n = m /\ \A i \in 1..n : f[i] = i
<1> USE DEF IncreasesOnto
<1>1. \A i \in 1..n : f[i] = i
    <2> SUFFICES ASSUME NEW b \in 1..n, f[b] # b PROVE FALSE
        OBVIOUS
    <2> DEFINE T == {i \in 1..n : f[i] # i}
    <2>1. T \in SUBSET Nat /\ b \in T
        OBVIOUS
    <2>2. PICK i \in T : \A y \in T : i <= y
        BY <2>1, LeastNatural
    <2>3. i \in 1..n /\ f[i] # i /\ f[i] \in 1..m /\ \A j \in 1..n : j < i => f[j] = j
        BY <2>2
    <2>4. f[i] > i
        <3>1. CASE i = 1
            BY <2>3, <3>1
        <3>2. CASE i # 1
            <4>1. i - 1 \in 1..n /\ i - 1 < i /\ f[i - 1] = i - 1
                BY <2>3, <3>2
            <4>2. f[i - 1] < f[i]
                BY <2>3, <4>1
            <4> QED BY <2>3, <4>1, <4>2
        <3> QED BY <3>1, <3>2
    <2>5. i \in 1..m
        BY <2>3, <2>4
    <2>6. PICK k \in 1..n : f[k] = i
        BY <2>5
    <2>7. CASE k < i
        BY <2>3, <2>6, <2>7
    <2>8. CASE k = i
        BY <2>3, <2>6, <2>8
    <2>9. CASE k > i
        <3>1. f[i] < f[k]
            BY <2>3, <2>9
        <3> QED BY <2>3, <2>4, <2>6, <3>1
    <2> QED BY <2>3, <2>7, <2>8, <2>9
<1>2. n <= m
    <2>1. CASE n = 0
        BY <2>1
    <2>2. CASE n # 0
        <3>1. n \in 1..n
            BY <2>2
        <3>2. f[n] = n /\ f[n] \in 1..m
            BY <1>1, <3>1
        <3> QED BY <3>2
    <2> QED BY <2>1, <2>2
<1>3. m <= n
    <2>1. CASE m = 0
        BY <2>1
    <2>2. CASE m # 0
        <3>1. PICK k \in 1..n : f[k] = m
            BY <2>2
        <3> QED BY <1>1, <3>1
    <2> QED BY <2>1, <2>2
<1> QED BY <1>1, <1>2, <1>3

-----------------------------------------------------------------------------
(* How many of S are not above x. *)
Place(S, x) == Cardinality({y \in S : y <= x})

(* Places increase with the numbers, so they are 1..Cardinality(S), each    *)
(* once.                                                                   *)
LEMMA PlacesIncrease ==
    ASSUME NEW S \in SUBSET Nat, IsFiniteSet(S)
    PROVE  /\ Cardinality(S) \in Nat
           /\ \A x \in S : Place(S, x) \in 1..Cardinality(S)
           /\ \A x, y \in S : x < y => Place(S, x) < Place(S, y)
           /\ \A k \in 1..Cardinality(S) : \E x \in S : Place(S, x) = k
<1> DEFINE n == Cardinality(S)
           Upto(x) == {y \in S : y <= x}
<1>1. n \in Nat
    BY FS_CardinalityType
<1>2. ASSUME NEW x \in S
      PROVE  IsFiniteSet(Upto(x)) /\ Place(S, x) = Cardinality(Upto(x)) /\ Place(S, x) \in 1..n
    <2>1. Upto(x) \in SUBSET S /\ x \in Upto(x)
        OBVIOUS
    <2>2. IsFiniteSet(Upto(x)) /\ Cardinality(Upto(x)) <= n
        BY <2>1, FS_Subset
    <2>3. Cardinality(Upto(x)) \in Nat /\ Cardinality(Upto(x)) # 0
        BY <2>1, <2>2, FS_CardinalityType, FS_EmptySet
    <2>4. Place(S, x) = Cardinality(Upto(x))
        BY DEF Place
    <2> HIDE DEF n, Upto
    <2> QED BY <1>1, <2>2, <2>3, <2>4
<1>3. ASSUME NEW x \in S, NEW y \in S, x < y PROVE Place(S, x) < Place(S, y)
    <2>1. Upto(x) \in SUBSET Upto(y) /\ y \in Upto(y) /\ y \notin Upto(x)
        <3>1. x \in Nat /\ y \in Nat /\ \A z \in S : z \in Nat
            OBVIOUS
        <3>2. \A z \in Upto(x) : z \in S /\ z <= y
            BY <1>3, <3>1
        <3>3. Upto(x) \subseteq Upto(y)
            BY <3>2
        <3>4. y \in Upto(y)
            BY <3>1
        <3>5. y \notin Upto(x)
            BY <1>3, <3>1
        <3> HIDE DEF Upto
        <3> QED BY <3>3, <3>4, <3>5
    <2>2. Cardinality(Upto(x)) <= Cardinality(Upto(y)) /\ Cardinality(Upto(y)) # Cardinality(Upto(x))
        BY <1>2, <2>1, FS_Subset
    <2> HIDE DEF n, Upto
    <2> QED BY <1>1, <1>2, <2>2
<1>4. \A k \in 1..n : \E x \in S : Place(S, x) = k
    <2> DEFINE r == [x \in S |-> Place(S, x)]
    <2> HIDE DEF n, Upto
    <2>1. r \in [S -> 1..n]
        BY <1>2
    <2>2. r \in Injection(S, 1..n)
        <3>1. ASSUME NEW x \in S, NEW y \in S, r[x] = r[y] PROVE x = y
            <4>1. x \in Nat /\ y \in Nat /\ Place(S, x) = Place(S, y) /\ Place(S, x) \in 1..n
                BY <1>2, <3>1
            <4>2. ~(x < y) /\ ~(y < x)
                BY <1>1, <1>3, <4>1
            <4> QED BY <4>1, <4>2
        <3> HIDE DEF r
        <3> QED BY <2>1, <3>1 DEF Injection, IsInjective
    <2>3. IsFiniteSet(1..n) /\ Cardinality(1..n) = n
        BY <1>1, FS_Interval
    <2>4. r \in Surjection(S, 1..n)
        BY <2>2, <2>3, FS_Injection DEF n
    <2> QED BY <2>4 DEF Surjection
<1> QED BY <1>1, <1>2, <1>3, <1>4

(* Sorted lists every number of the set, in ascending order. *)
LEMMA SortedLists ==
    ASSUME NEW S \in SUBSET Nat, IsFiniteSet(S)
    PROVE  /\ Cardinality(S) \in Nat
           /\ Sorted(S) \in [1..Cardinality(S) -> S]
           /\ \A i, j \in 1..Cardinality(S) : i < j => Sorted(S)[i] < Sorted(S)[j]
           /\ \A x \in S : \E k \in 1..Cardinality(S) : Sorted(S)[k] = x
<1> DEFINE n == Cardinality(S)
           s == Sorted(S)
<1>1. s = [k \in 1..n |-> CHOOSE x \in S : Place(S, x) = k]
    BY DEF Sorted, Place
<1>2. /\ n \in Nat
      /\ \A x \in S : Place(S, x) \in 1..n
      /\ \A x, y \in S : x < y => Place(S, x) < Place(S, y)
      /\ \A k \in 1..n : \E x \in S : Place(S, x) = k
    BY PlacesIncrease
<1> HIDE DEF n, s
<1>3. \A k \in 1..n : s[k] \in S /\ Place(S, s[k]) = k
    BY <1>1, <1>2
<1>4. s \in [1..n -> S]
    BY <1>1, <1>3
<1>5. ASSUME NEW x \in S, NEW y \in S, Place(S, x) < Place(S, y) PROVE x < y
    <2>1. x \in Nat /\ y \in Nat /\ Place(S, x) \in 1..n /\ Place(S, y) \in 1..n
        BY <1>2
    <2>2. x # y /\ ~(y < x)
        BY <1>2, <1>5, <2>1
    <2> QED BY <2>1, <2>2
<1>6. ASSUME NEW i \in 1..n, NEW j \in 1..n, i < j PROVE s[i] < s[j]
    BY <1>3, <1>5, <1>6
<1>7. ASSUME NEW x \in S PROVE \E k \in 1..n : s[k] = x
    <2>1. Place(S, x) \in 1..n /\ x \in Nat
        BY <1>2
    <2>2. s[Place(S, x)] \in S /\ Place(S, s[Place(S, x)]) = Place(S, x)
        BY <1>3, <2>1
    <2>3. s[Place(S, x)] \in Nat
        BY <2>2
    <2>4. ~(s[Place(S, x)] < x) /\ ~(x < s[Place(S, x)])
        <3>1. \A a, b \in 1..n : a < b => a # b
            BY <1>2
        <3>2. ASSUME NEW y \in S, Place(S, y) = Place(S, x) PROVE ~(y < x) /\ ~(x < y)
            BY <1>2, <3>1, <3>2
        <3> QED BY <2>2, <3>2
    <2>5. s[Place(S, x)] = x
        BY <2>1, <2>3, <2>4
    <2> QED BY <2>1, <2>5
<1> QED BY <1>2, <1>4, <1>6, <1>7 DEF n, s

(* Sorted puts each number at its place. *)
LEMMA SortedPlaces ==
    ASSUME NEW S \in SUBSET Nat, IsFiniteSet(S)
    PROVE  /\ \A k \in 1..Cardinality(S) :
                 Sorted(S)[k] \in S /\ Place(S, Sorted(S)[k]) = k
           /\ \A x \in S : Sorted(S)[Place(S, x)] = x
<1> DEFINE n == Cardinality(S)
           s == Sorted(S)
<1>1. s = [k \in 1..n |-> CHOOSE x \in S : Place(S, x) = k]
    BY DEF Sorted, Place
<1>2. /\ n \in Nat
      /\ \A x \in S : Place(S, x) \in 1..n
      /\ \A x, y \in S : x < y => Place(S, x) < Place(S, y)
      /\ \A k \in 1..n : \E x \in S : Place(S, x) = k
    BY PlacesIncrease
<1> HIDE DEF n, s
<1>3. \A k \in 1..n : s[k] \in S /\ Place(S, s[k]) = k
    BY <1>1, <1>2
<1>4. ASSUME NEW x \in S PROVE s[Place(S, x)] = x
    <2>1. Place(S, x) \in 1..n /\ x \in Nat
        BY <1>2
    <2>2. s[Place(S, x)] \in S /\ Place(S, s[Place(S, x)]) = Place(S, x)
        BY <1>3, <2>1
    <2>3. ASSUME NEW y \in S, Place(S, y) = Place(S, x) PROVE y = x
        <3>1. y \in Nat /\ Place(S, y) \in Nat
            BY <1>2, <2>1, <2>3
        <3>2. ~(y < x) /\ ~(x < y)
            BY <1>2, <2>1, <2>3, <3>1
        <3> QED BY <2>1, <3>1, <3>2
    <2> QED BY <2>2, <2>3
<1> QED BY <1>3, <1>4 DEF n, s

(* No other increasing list has the same numbers. *)
LEMMA SortedAlone ==
    ASSUME NEW S \in SUBSET Nat, IsFiniteSet(S), NEW n \in Nat, NEW f \in [1..n -> S],
           \A i, j \in 1..n : i < j => f[i] < f[j],
           \A x \in S : \E i \in 1..n : f[i] = x
    PROVE  n = Cardinality(S) /\ \A i \in 1..n : f[i] = Sorted(S)[i]
<1> DEFINE m == Cardinality(S)
           g == [i \in 1..n |-> Place(S, f[i])]
<1>1. /\ m \in Nat
      /\ \A x \in S : Place(S, x) \in 1..m
      /\ \A x, y \in S : x < y => Place(S, x) < Place(S, y)
      /\ \A k \in 1..m : \E x \in S : Place(S, x) = k
    BY PlacesIncrease
<1>2. \A i \in 1..n : f[i] \in S /\ g[i] = Place(S, f[i])
    OBVIOUS
<1> HIDE DEF m
<1>3. IncreasesOnto(g, n, m)
    <2>1. g \in [1..n -> 1..m]
        BY <1>1, <1>2
    <2> HIDE DEF g
    <2>2. \A i, j \in 1..n : i < j => g[i] < g[j]
        <3>1. ASSUME NEW i \in 1..n, NEW j \in 1..n, i < j PROVE g[i] < g[j]
            <4>1. f[i] < f[j] /\ f[i] \in S /\ f[j] \in S
                BY <1>2, <3>1
            <4>2. Place(S, f[i]) < Place(S, f[j])
                BY <1>1, <4>1
            <4> QED BY <1>2, <4>2
        <3> QED BY <3>1
    <2>3. \A k \in 1..m : \E i \in 1..n : g[i] = k
        <3>1. ASSUME NEW k \in 1..m PROVE \E i \in 1..n : g[i] = k
            <4>1. PICK x \in S : Place(S, x) = k
                BY <1>1
            <4>2. PICK i \in 1..n : f[i] = x
                OBVIOUS
            <4> QED BY <1>2, <4>1, <4>2
        <3> QED BY <3>1
    <2> QED BY <1>1, <2>1, <2>2, <2>3 DEF IncreasesOnto
<1>4. n = m /\ \A i \in 1..n : g[i] = i
    BY <1>3, IncreasingOnto
<1>5. \A i \in 1..n : Sorted(S)[Place(S, f[i])] = f[i]
    BY <1>2, SortedPlaces
<1> HIDE DEF g
<1> QED BY <1>2, <1>4, <1>5 DEF m

(* Filtered holds the elements at the positions, and no other. *)
LEMMA FilteredElements ==
    ASSUME NEW P \in SUBSET Nat, IsFiniteSet(P), NEW list
    PROVE  /\ Cardinality(P) \in Nat
           /\ DOMAIN Filtered(list, P) = 1..Cardinality(P)
           /\ \A k \in DOMAIN Filtered(list, P) : \E i \in P : Filtered(list, P)[k] = list[i]
           /\ \A i \in P : \E k \in DOMAIN Filtered(list, P) : Filtered(list, P)[k] = list[i]
<1>1. /\ Cardinality(P) \in Nat
      /\ Sorted(P) \in [1..Cardinality(P) -> P]
      /\ \A x \in P : \E k \in 1..Cardinality(P) : Sorted(P)[k] = x
    BY SortedLists
<1>2. Filtered(list, P) = [k \in 1..Cardinality(P) |-> list[Sorted(P)[k]]]
    BY DEF Filtered
<1>3. /\ DOMAIN Filtered(list, P) = 1..Cardinality(P)
      /\ \A k \in 1..Cardinality(P) : Filtered(list, P)[k] = list[Sorted(P)[k]]
    BY <1>2
<1>4. \A k \in 1..Cardinality(P) : Sorted(P)[k] \in P
    BY <1>1
<1>5. ASSUME NEW i \in P
      PROVE  \E k \in DOMAIN Filtered(list, P) : Filtered(list, P)[k] = list[i]
    <2>1. PICK k \in 1..Cardinality(P) : Sorted(P)[k] = i
        BY <1>1
    <2> QED BY <1>3, <2>1
<1> QED BY <1>1, <1>3, <1>4, <1>5

(* A filter that drops nothing changes nothing. *)
LEMMA FilteredWhole ==
    ASSUME NEW n \in Nat, NEW list
    PROVE  Filtered(list, 1..n) = [k \in 1..n |-> list[k]]
<1>1. 1..n \in SUBSET Nat /\ IsFiniteSet(1..n) /\ Cardinality(1..n) = n
    BY FS_Interval
<1>2. IncreasesOnto(Sorted(1..n), n, n)
    BY <1>1, SortedLists DEF IncreasesOnto
<1>3. \A k \in 1..n : Sorted(1..n)[k] = k
    BY <1>2, IncreasingOnto
<1> QED BY <1>1, <1>3 DEF Filtered

=============================================================================
