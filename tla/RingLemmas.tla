----------------------------- MODULE RingLemmas -----------------------------
(***************************************************************************)
(* Facts that the proofs about descriptor rings and frame lists use: least  *)
(* and greatest elements, the places of a sequence, the members of a finite *)
(* set in the order of their ranks, and the index of a ring that wraps      *)
(* around once.                                                            *)
(***************************************************************************)
EXTENDS Integers, FiniteSetsExt, Functions, FiniteSetTheorems, WellFoundedInduction, TLAPS

\* A non-empty set of natural numbers has a least element.
LEMMA LeastNat ==
    ASSUME NEW T, T \subseteq Nat, T # {}
    PROVE  \E x \in T : \A y \in T : x <= y
<1> DEFINE Less == OpToRel(<, Nat)
<1>1. \E x \in T : \A y \in T : ~(<<y, x>> \in Less)
  <2>1. IsWellFoundedOn(Less, Nat)
    BY NatLessThanWellFounded
  <2> HIDE DEF Less
  <2> QED
    BY <2>1, WFMin
<1>2. PICK x \in T : \A y \in T : ~(<<y, x>> \in Less)
  BY <1>1
<1>3. \A y \in T : y < x => <<y, x>> \in Less
  <2> TAKE y \in T
  <2> HAVE y < x
  <2>1. <<y, x>> \in Nat \X Nat
    OBVIOUS
  <2>2. <<y, x>>[1] < <<y, x>>[2]
    OBVIOUS
  <2> QED
    BY <2>1, <2>2, Zenon DEF OpToRel
<1>4. \A y \in T : ~(y < x)
  <2> HIDE DEF Less
  <2> QED
    BY <1>2, <1>3, Zenon
<1>5. \A y \in T : x <= y
  BY <1>4
<1> QED
  BY <1>5

\* Max (FiniteSetsExt) of a non-empty bounded set of natural numbers is its
\* greatest element.
LEMMA MaxOfBounded ==
    ASSUME NEW d \in Nat, NEW T, T \subseteq 0..d, T # {}
    PROVE  Max(T) \in T /\ \A y \in T : y <= Max(T)
<1> DEFINE U == {d - x : x \in T}
<1>1. \E x \in U : \A y \in U : x <= y
  <2>1. \A x \in T : x \in 0..d /\ d - x \in Nat
    OBVIOUS
  <2>2. U \subseteq Nat /\ U # {}
    BY <2>1
  <2> HIDE DEF U
  <2> QED
    BY <2>2, LeastNat
<1>2. \E x \in T : \A y \in T : x >= y
  BY <1>1
<1> QED
  BY <1>2 DEF Max

\* Min of two natural numbers is one of them and no larger than either.
LEMMA MinOfTwo ==
    ASSUME NEW a \in Nat, NEW b \in Nat
    PROVE  Min({a, b}) = IF a <= b THEN a ELSE b
  BY DEF Min

\* The slot of a ring of n slots that is m places after p.
LEMMA PlacesAfter ==
    ASSUME NEW n \in Nat \ {0}, NEW p \in 0..n - 1, NEW m \in 0..n
    PROVE  /\ (p + m) % n = IF p + m < n THEN p + m ELSE p + m - n
           /\ (p + m) % n \in 0..n - 1
  OBVIOUS

\* How many places slot i of a ring of n slots is after slot p.
LEMMA PlacesBetween ==
    ASSUME NEW n \in Nat \ {0}, NEW i \in 0..n - 1, NEW p \in 0..n - 1
    PROVE  /\ (i - p) % n = IF i >= p THEN i - p ELSE i - p + n
           /\ (i - p) % n \in 0..n - 1
  OBVIOUS

\* The slot that is (i - p) % n places after p is i.
LEMMA PlaceOf ==
    ASSUME NEW n \in Nat \ {0}, NEW p \in 0..n - 1, NEW i \in 0..n - 1
    PROVE  (p + ((i - p) % n)) % n = i
<1> DEFINE k == (i - p) % n
           u == (p + k) % n
<1>1. k = (IF i >= p THEN i - p ELSE i - p + n) /\ k \in 0..n - 1
  BY PlacesBetween
<1> HIDE DEF k
<1>2. k \in 0..n
  BY <1>1
<1>3. u = IF p + k < n THEN p + k ELSE p + k - n
  BY <1>2, PlacesAfter
<1> HIDE DEF u
<1>4. u = i
  BY <1>1, <1>3
<1> QED
  BY <1>4 DEF u, k

\* The slot m places after p is m places after it.
LEMMA PlaceAt ==
    ASSUME NEW n \in Nat \ {0}, NEW p \in 0..n - 1, NEW m \in 0..n - 1
    PROVE  (((p + m) % n) - p) % n = m
<1> DEFINE s == (p + m) % n
           v == (s - p) % n
<1>1. m \in 0..n
  OBVIOUS
<1>2. s = (IF p + m < n THEN p + m ELSE p + m - n) /\ s \in 0..n - 1
  BY <1>1, PlacesAfter
<1> HIDE DEF s
<1>3. v = IF s >= p THEN s - p ELSE s - p + n
  BY <1>2, PlacesBetween
<1> HIDE DEF v
<1>4. v = m
  BY <1>2, <1>3
<1> QED
  BY <1>4 DEF v, s

\* Moving the start of a ring by m slots.
LEMMA PlacesShift ==
    ASSUME NEW n \in Nat \ {0}, NEW p \in 0..n - 1, NEW i \in 0..n - 1, NEW m \in 0..n
    PROVE  (i - ((p + m) % n)) % n =
              IF (i - p) % n >= m THEN ((i - p) % n) - m ELSE ((i - p) % n) - m + n
<1> DEFINE k == (i - p) % n
           s == (p + m) % n
<1>1. k = (IF i >= p THEN i - p ELSE i - p + n) /\ k \in 0..n - 1
  BY PlacesBetween
<1>2. s = (IF p + m < n THEN p + m ELSE p + m - n) /\ s \in 0..n - 1
  BY PlacesAfter
<1>3. (i - s) % n = IF i >= s THEN i - s ELSE i - s + n
  BY <1>2, PlacesBetween
<1> HIDE DEF k, s
<1>4. (i - s) % n = IF k >= m THEN k - m ELSE k - m + n
  BY <1>1, <1>2, <1>3
<1> QED
  BY <1>4 DEF k, s

\* Two moves around a ring that together go around it once at most.
LEMMA PlacesAdd ==
    ASSUME NEW n \in Nat \ {0}, NEW p \in 0..n - 1, NEW m \in 0..n, NEW k \in 0..n, m + k <= n
    PROVE  (((p + m) % n) + k) % n = (p + (m + k)) % n
<1> DEFINE s == (p + m) % n
           u == (s + k) % n
           v == (p + (m + k)) % n
<1>1. s = (IF p + m < n THEN p + m ELSE p + m - n) /\ s \in 0..n - 1
  BY PlacesAfter
<1>2. m + k \in 0..n
  OBVIOUS
<1>3. v = IF p + (m + k) < n THEN p + (m + k) ELSE p + (m + k) - n
  BY <1>2, PlacesAfter
<1> HIDE DEF s, v
<1>4. u = IF s + k < n THEN s + k ELSE s + k - n
  BY <1>1, PlacesAfter
<1> HIDE DEF u
<1>5. u = v
  BY <1>1, <1>3, <1>4
<1> QED
  BY <1>5 DEF s, u, v

\* The elements of a set of numbers by their rank.
ByRank(I) ==
    [k \in 1..Cardinality(I) |-> CHOOSE i \in I : Cardinality({j \in I : j <= i}) = k]

\* Each is there once, in ascending order.
LEMMA InOrderOfRank ==
    ASSUME NEW d \in Nat, NEW I, I \subseteq 0..d
    PROVE  /\ IsFiniteSet(I) /\ Cardinality(I) \in Nat
           /\ ByRank(I) \in Bijection(1..Cardinality(I), I)
           /\ \A a, b \in 1..Cardinality(I) : a < b => ByRank(I)[a] < ByRank(I)[b]
<1> DEFINE n == Cardinality(I)
           Upto(i) == {j \in I : j <= i}
           rank == [i \in I |-> Cardinality(Upto(i))]
<1>1. IsFiniteSet(I) /\ n \in Nat /\ I \subseteq Int
  <2>1. IsFiniteSet(0..d)
    BY FS_Interval
  <2>2. IsFiniteSet(I)
    BY <2>1, FS_Subset
  <2> QED
    BY <2>2, FS_CardinalityType
<1>2. ASSUME NEW i \in I
      PROVE  /\ IsFiniteSet(Upto(i)) /\ Cardinality(Upto(i)) \in 1..n
             /\ \A j \in I : j < i => Cardinality(Upto(j)) < Cardinality(Upto(i))
  <2>1. IsFiniteSet(Upto(i)) /\ Cardinality(Upto(i)) <= n
    BY <1>1, FS_Subset
  <2>2. Cardinality(Upto(i)) \in Nat
    BY <2>1, FS_CardinalityType
  <2>3. i \in Upto(i)
    BY <1>1
  <2>4. Cardinality(Upto(i)) # 0
    BY <2>1, <2>3, FS_EmptySet
  <2>5. ASSUME NEW j \in I, j < i PROVE Cardinality(Upto(j)) < Cardinality(Upto(i))
    <3>0. i \in Int /\ j \in Int /\ \A a \in I : a \in Int
      BY <1>1
    <3>1. Upto(j) \subseteq Upto(i) /\ i \notin Upto(j)
      <4>1. ~(i <= j) /\ \A a \in I : a <= j => a <= i
        BY <2>5, <3>0
      <4> QED
        BY <4>1, Zenon
    <3>2. /\ IsFiniteSet(Upto(j)) /\ Cardinality(Upto(j)) <= Cardinality(Upto(i))
          /\ Cardinality(Upto(j)) # Cardinality(Upto(i))
      <4> HIDE DEF Upto
      <4>1. Upto(j) \in SUBSET Upto(i) /\ Upto(i) # Upto(j)
        BY <2>3, <3>1
      <4> QED
        BY <2>1, <4>1, FS_Subset
    <3>3. Cardinality(Upto(j)) \in Nat
      BY <3>2, FS_CardinalityType
    <3> QED
      BY <2>2, <3>2, <3>3
  <2> QED
    BY <1>1, <2>1, <2>2, <2>4, <2>5
<1> HIDE DEF Upto
<1>3. rank \in [I -> 1..n] /\ \A i, j \in I : rank[i] = rank[j] => i = j
  <2>1. rank \in [I -> 1..n]
    BY <1>2
  <2>2. ASSUME NEW i \in I, NEW j \in I, rank[i] = rank[j] PROVE i = j
    <3>1. rank[i] = Cardinality(Upto(i)) /\ rank[j] = Cardinality(Upto(j))
      OBVIOUS
    <3>2. ~(i < j) /\ ~(j < i)
      BY <1>1, <1>2, <2>2, <3>1
    <3> QED
      BY <1>1, <3>2
  <2> QED
    BY <2>1, <2>2
<1>4. rank \in Surjection(I, 1..n)
  <2>1. rank \in Injection(I, 1..n)
    BY <1>3 DEF Injection, IsInjective
  <2>2. IsFiniteSet(1..n) /\ Cardinality(1..n) = n
    BY <1>1, FS_Interval
  <2> QED
    BY <2>1, <2>2, FS_Injection
<1> DEFINE p == [k \in 1..n |-> CHOOSE i \in I : Cardinality(Upto(i)) = k]
<1>5. ASSUME NEW k \in 1..n PROVE p[k] \in I /\ rank[p[k]] = k
  <2>1. \E i \in I : rank[i] = k
    BY <1>4 DEF Surjection
  <2>2. \E i \in I : Cardinality(Upto(i)) = k
    BY <2>1
  <2> QED
    BY <2>2
<1>6. p \in Bijection(1..n, I)
  <2> HIDE DEF p, rank
  <2>1. p \in [1..n -> I]
    BY <1>5 DEF p
  <2>2. \A a, b \in 1..n : p[a] = p[b] => a = b
    BY <1>5
  <2>3. \A i \in I : \E k \in 1..n : p[k] = i
    <3> TAKE i \in I
    <3>1. rank[i] \in 1..n
      BY <1>3
    <3>2. p[rank[i]] = i
      BY <1>3, <1>5, <3>1
    <3> QED
      BY <3>1, <3>2
  <2> QED
    BY <2>1, <2>2, <2>3 DEF Bijection, Injection, Surjection, IsInjective
<1>7. ASSUME NEW a \in 1..n, NEW b \in 1..n, a < b PROVE p[a] < p[b]
  <2>1. p[a] \in I /\ p[b] \in I /\ rank[p[a]] = a /\ rank[p[b]] = b
    BY <1>5
  <2> DEFINE x == p[a]
             y == p[b]
  <2>2. x \in I /\ y \in I /\ Cardinality(Upto(x)) = a /\ Cardinality(Upto(y)) = b
    BY <2>1
  <2> HIDE DEF x, y
  <2>3. ~(y < x)
    <3>1. ASSUME y < x PROVE FALSE
      <4>1. Cardinality(Upto(y)) < Cardinality(Upto(x))
        BY <1>2, <2>2, <3>1
      <4> QED
        BY <1>7, <2>2, <4>1
    <3> QED
      BY <3>1
  <2>4. x # y /\ x \in Int /\ y \in Int
    BY <1>1, <1>7, <2>2
  <2>5. x < y
    BY <2>3, <2>4
  <2> QED
    BY <2>5 DEF x, y
<1>8. p = ByRank(I)
  BY DEF ByRank, Upto
<1> HIDE DEF p
<1> QED
  BY <1>1, <1>6, <1>7, <1>8

\* A function that is changed at one place, if that place is in its domain, keeps
\* its type.
LEMMA ExceptTyped ==
    ASSUME NEW D, NEW T, NEW g \in [D -> T], NEW x, NEW v, x \in D => v \in T
    PROVE  [g EXCEPT ![x] = v] \in [D -> T]
  OBVIOUS

=============================================================================
