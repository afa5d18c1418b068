---------------------------- MODULE SearchProofs ----------------------------
(***************************************************************************)
(* How carpets are found, for any shelves, sizes, words and indexes: an    *)
(* offer does not depend on the order of the shelves, everybody reads a    *)
(* plain size alike, the distance of two words is the least number of      *)
(* edits between them, and a word with at most two errors finds its        *)
(* carpet.                                                                 *)
(***************************************************************************)
EXTENDS ShopWindow, FiniteSetTheorems, FunctionTheorems, SequenceTheorems, TLAPS

(***************************************************************************)
(* The ranking of carpets                                                  *)
(***************************************************************************)
\* What a comparison of a sort has to be: by some key, not by the places.
Weak(in, before) ==
  /\ \A i \in in : <<i, i>> \notin before
  /\ \A i, j, k \in in : <<i, j>> \in before /\ <<j, k>> \in before => <<i, k>> \in before
  /\ \A i, j, k \in in : <<i, j>> \notin before /\ <<j, k>> \notin before
                           => <<i, k>> \notin before

\* The same rows in another order.
Pairing(in2, before2, in, before, p) ==
  /\ p \in Bijection(in2, in)
  /\ \A i, j \in in2 : <<i, j>> \in before2 <=> <<p[i], p[j]>> \in before

Lower(in, before, i) == {j \in in : <<j, i>> \in before}
Upper(in, before, i) == {j \in in : <<i, j>> \notin before}

\* Any two places are in order, and what is ahead of a place is ahead of all
\* behind it.
LEMMA AheadIsLinear ==
  ASSUME NEW in \in SUBSET Nat, NEW before, Weak(in, before),
         NEW i \in in, NEW j \in in, i # j
  PROVE  /\ i \in Ahead(in, before, j) \/ j \in Ahead(in, before, i)
         /\ i \notin Ahead(in, before, i)
         /\ i \in Ahead(in, before, j) => Ahead(in, before, i) \subseteq Ahead(in, before, j)
<1>1. i \in Ahead(in, before, j) \/ j \in Ahead(in, before, i)
  BY DEF Ahead
<1>2. i \notin Ahead(in, before, i)
  BY DEF Ahead, Weak
<1>3. ASSUME i \in Ahead(in, before, j), NEW k \in Ahead(in, before, i)
      PROVE  k \in Ahead(in, before, j)
  <2>1. k \in in /\ k \in Nat /\ i \in Nat /\ j \in Nat
    BY DEF Ahead
  <2>2. <<i, j>> \in before \/ (i < j /\ <<j, i>> \notin before)
    BY <1>3 DEF Ahead
  <2>3. <<k, i>> \in before \/ (k < i /\ <<i, k>> \notin before)
    BY <1>3 DEF Ahead
  <2>4. <<k, j>> \in before \/ (k < j /\ <<j, k>> \notin before)
    <3>1. CASE <<i, j>> \in before /\ <<k, i>> \in before
      BY <2>1, <3>1 DEF Weak
    <3>2. CASE <<i, j>> \in before /\ <<i, k>> \notin before
      BY <2>1, <3>2 DEF Weak
    <3>3. CASE <<j, i>> \notin before /\ <<k, i>> \in before
      BY <2>1, <3>3 DEF Weak
    <3>4. CASE i < j /\ <<j, i>> \notin before /\ k < i /\ <<i, k>> \notin before
      BY <2>1, <3>4 DEF Weak
    <3> QED
      BY <2>2, <2>3, <3>1, <3>2, <3>3, <3>4
  <2> QED
    BY <2>1, <2>4 DEF Ahead
<1> QED
  BY <1>1, <1>2, <1>3

\* The numbers of places ahead are all different, so every rank is taken.
LEMMA EveryRankIsTaken ==
  ASSUME NEW in \in SUBSET Nat, IsFiniteSet(in), NEW before, Weak(in, before),
         NEW n \in 1 .. Cardinality(in)
  PROVE  \E i \in in : Cardinality(Ahead(in, before, i)) = n - 1
<1> DEFINE m == Cardinality(in)
           f == [i \in in |-> Cardinality(Ahead(in, before, i))]
<1>1. m \in Nat /\ n \in Nat /\ n - 1 \in 0 .. m - 1
  BY FS_CardinalityType
<1>2. ASSUME NEW i \in in
      PROVE  /\ IsFiniteSet(Ahead(in, before, i)) /\ f[i] \in Nat
             /\ f[i] \in 0 .. m - 1
  <2>1. Ahead(in, before, i) \subseteq in \ {i}
    BY DEF Ahead, Weak
  <2>2. IsFiniteSet(in \ {i}) /\ Cardinality(in \ {i}) = m - 1
    BY FS_RemoveElement
  <2>3. /\ IsFiniteSet(Ahead(in, before, i))
        /\ Cardinality(Ahead(in, before, i)) <= Cardinality(in \ {i})
    BY <2>1, <2>2, FS_Subset
  <2>4. Cardinality(Ahead(in, before, i)) \in Nat
    BY <2>3, FS_CardinalityType
  <2> QED
    BY <1>1, <2>2, <2>3, <2>4
<1>3. ASSUME NEW i \in in, NEW j \in in, i \in Ahead(in, before, j), i # j
      PROVE  f[i] # f[j]
  <2>1. /\ Ahead(in, before, i) \subseteq Ahead(in, before, j)
        /\ i \notin Ahead(in, before, i)
    BY <1>3, AheadIsLinear
  <2>2. f[i] = f[j] => Ahead(in, before, j) = Ahead(in, before, i)
    BY <1>2, <2>1, FS_Subset
  <2> QED
    BY <1>3, <2>1, <2>2
<1>4. f \in Injection(in, 0 .. m - 1)
  <2>1. \A i, j \in in : f[i] = f[j] => i = j
    BY <1>3, AheadIsLinear
  <2>2. f \in [in -> 0 .. m - 1]
    BY <1>2
  <2> HIDE DEF f, m
  <2> QED
    BY <2>1, <2>2 DEF Injection, IsInjective
<1>5. IsFiniteSet(0 .. m - 1) /\ Cardinality(0 .. m - 1) = m
  BY <1>1, FS_Interval
<1>6. f \in Surjection(in, 0 .. m - 1)
  BY <1>4, <1>5, FS_Injection
<1>7. \E i \in in : f[i] = n - 1
  <2> HIDE DEF f, m
  <2> QED
    BY <1>1, <1>6 DEF Surjection
<1> QED
  BY <1>7

\* So a set of numbers has a least one: the first, when nothing is compared.
LEMMA LeastOfSome ==
  ASSUME NEW T \in SUBSET Nat, IsFiniteSet(T), T # {}
  PROVE  \E r \in T : \A t \in T : ~ t < r
<1>1. Weak(T, {})
  BY DEF Weak
<1>2. 1 \in 1 .. Cardinality(T)
  BY FS_CardinalityType, FS_EmptySet
<1>3. PICK r \in T : Cardinality(Ahead(T, {}, r)) = 1 - 1
  BY <1>1, <1>2, EveryRankIsTaken
<1>4. IsFiniteSet(Ahead(T, {}, r))
  BY FS_Subset DEF Ahead
<1>5. Ahead(T, {}, r) = {}
  BY <1>3, <1>4, FS_EmptySet
<1> QED
  BY <1>5 DEF Ahead

\* Who is sorted to a place has as many ahead of it as the place says.
LEMMA SortedPlaces ==
  ASSUME NEW in \in SUBSET Nat, IsFiniteSet(in), NEW before, Weak(in, before)
  PROVE  /\ DOMAIN Sorted(in, before) = 1 .. Cardinality(in)
         /\ \A n \in 1 .. Cardinality(in) :
              /\ Sorted(in, before)[n] \in in
              /\ Cardinality(Ahead(in, before, Sorted(in, before)[n])) = n - 1
BY EveryRankIsTaken DEF Sorted

\* Who is at a place has fewer before it, and more not after it.
LEMMA Between ==
  ASSUME NEW in \in SUBSET Nat, IsFiniteSet(in), NEW before, Weak(in, before),
         NEW n \in 1 .. Cardinality(in)
  PROVE  LET i == Sorted(in, before)[n]
         IN  /\ i \in in
             /\ Cardinality(Lower(in, before, i)) \in Nat
             /\ Cardinality(Upper(in, before, i)) \in Nat
             /\ Cardinality(Lower(in, before, i)) <= n - 1
             /\ n <= Cardinality(Upper(in, before, i))
<1> DEFINE i == Sorted(in, before)[n]
           A == Ahead(in, before, i)
<1>1. i \in in /\ Cardinality(A) = n - 1
  BY SortedPlaces
<1> HIDE DEF i
<1>2. /\ Lower(in, before, i) \subseteq A /\ A \cup {i} \subseteq Upper(in, before, i)
      /\ i \notin A /\ A \subseteq in
      /\ Lower(in, before, i) \subseteq in /\ Upper(in, before, i) \subseteq in
  <2>1. \A j \in in : <<j, i>> \in before => <<i, j>> \notin before
    BY <1>1 DEF Weak
  <2>2. i \in Nat /\ <<i, i>> \notin before
    BY <1>1 DEF Weak
  <2>3. A \subseteq in /\ Lower(in, before, i) \subseteq A /\ i \notin A
    BY <2>2 DEF Ahead, Lower
  <2>4. A \cup {i} \subseteq Upper(in, before, i)
    BY <1>1, <2>1, <2>2 DEF Ahead, Upper
  <2> QED
    BY <2>3, <2>4 DEF Lower, Upper
<1>3. /\ IsFiniteSet(A) /\ IsFiniteSet(Lower(in, before, i))
      /\ IsFiniteSet(Upper(in, before, i))
  BY <1>2, FS_Subset
<1>4. Cardinality(Lower(in, before, i)) <= Cardinality(A)
  BY <1>2, <1>3, FS_Subset
<1>5. /\ Cardinality(A \cup {i}) = Cardinality(A) + 1
      /\ Cardinality(A \cup {i}) <= Cardinality(Upper(in, before, i))
  BY <1>2, <1>3, FS_AddElement, FS_Subset
<1>6. /\ Cardinality(Lower(in, before, i)) \in Nat
      /\ Cardinality(Upper(in, before, i)) \in Nat
  BY <1>3, FS_CardinalityType
<1>7. n \in Nat /\ Cardinality(A) = n - 1
  BY <1>1, FS_CardinalityType
<1> HIDE DEF A
<1>8. Cardinality(Lower(in, before, i)) <= n - 1 /\ n <= Cardinality(Upper(in, before, i))
  BY <1>4, <1>5, <1>6, <1>7
<1> QED
  BY <1>1, <1>6, <1>8 DEF i

\* Two lists of places that are the same rows in another order have, place by
\* place, rows that are not before each other.
LEMMA SamePlace ==
  ASSUME NEW in \in SUBSET Nat, IsFiniteSet(in), NEW before, Weak(in, before),
         NEW in2 \in SUBSET Nat, IsFiniteSet(in2), NEW before2, Weak(in2, before2),
         NEW p, Pairing(in2, before2, in, before, p)
  PROVE  /\ Cardinality(in2) = Cardinality(in)
         /\ \A n \in 1 .. Cardinality(in) :
              /\ p[Sorted(in2, before2)[n]] \in in /\ Sorted(in, before)[n] \in in
              /\ <<p[Sorted(in2, before2)[n]], Sorted(in, before)[n]>> \notin before
              /\ <<Sorted(in, before)[n], p[Sorted(in2, before2)[n]]>> \notin before
<1>1. Cardinality(in2) = Cardinality(in)
  BY FS_Bijection, Fun_ExistsBij DEF Pairing
<1>2. ASSUME NEW n \in 1 .. Cardinality(in)
      PROVE  /\ p[Sorted(in2, before2)[n]] \in in /\ Sorted(in, before)[n] \in in
             /\ <<p[Sorted(in2, before2)[n]], Sorted(in, before)[n]>> \notin before
             /\ <<Sorted(in, before)[n], p[Sorted(in2, before2)[n]]>> \notin before
  <2> DEFINE h == Sorted(in2, before2)[n]
             i == p[h]
             k == Sorted(in, before)[n]
  <2>1. /\ h \in in2
        /\ Cardinality(Lower(in2, before2, h)) \in Nat
        /\ Cardinality(Upper(in2, before2, h)) \in Nat
        /\ Cardinality(Lower(in2, before2, h)) <= n - 1
        /\ n <= Cardinality(Upper(in2, before2, h))
    BY <1>1, Between
  <2>2. /\ k \in in
        /\ Cardinality(Lower(in, before, k)) \in Nat
        /\ Cardinality(Upper(in, before, k)) \in Nat
        /\ Cardinality(Lower(in, before, k)) <= n - 1
        /\ n <= Cardinality(Upper(in, before, k))
    BY Between
  <2>3. n \in Nat /\ p \in [in2 -> in] /\ IsInjective(p)
        /\ \A y \in in : \E x \in in2 : p[x] = y
    BY FS_CardinalityType DEF Pairing, Bijection, Injection, Surjection
  <2>4. i \in in
    BY <2>1, <2>3
  <2> HIDE DEF h, k
  <2>5. /\ IsFiniteSet(Lower(in, before, i)) /\ IsFiniteSet(Upper(in, before, i))
        /\ IsFiniteSet(Lower(in, before, k)) /\ IsFiniteSet(Upper(in, before, k))
        /\ IsFiniteSet(Lower(in2, before2, h)) /\ IsFiniteSet(Upper(in2, before2, h))
    BY FS_Subset DEF Lower, Upper
  <2>6. /\ Cardinality(Lower(in, before, i)) = Cardinality(Lower(in2, before2, h))
        /\ Cardinality(Upper(in, before, i)) = Cardinality(Upper(in2, before2, h))
    <3>1. ASSUME NEW S2, NEW S, S2 \subseteq in2, S \subseteq in, IsFiniteSet(S2),
                 \A x \in in2 : x \in S2 <=> p[x] \in S
          PROVE  Cardinality(S) = Cardinality(S2)
      <4> DEFINE g == [x \in S2 |-> p[x]]
      <4>1. g \in [S2 -> S]
        BY <2>3, <3>1
      <4>2. \A x, y \in S2 : g[x] = g[y] => x = y
        BY <2>3, <3>1 DEF IsInjective
      <4>3. \A y \in S : \E x \in S2 : g[x] = y
        BY <2>3, <3>1
      <4> HIDE DEF g
      <4>4. g \in Bijection(S2, S)
        BY <4>1, <4>2, <4>3 DEF Bijection, Injection, Surjection, IsInjective
      <4> QED
        BY <3>1, <4>4, FS_Subset, FS_Bijection, Fun_ExistsBij
    <3>2. \A x \in in2 : x \in Lower(in2, before2, h) <=> p[x] \in Lower(in, before, i)
      BY <2>1, <2>3 DEF Pairing, Lower
    <3>3. \A x \in in2 : x \in Upper(in2, before2, h) <=> p[x] \in Upper(in, before, i)
      BY <2>1, <2>3 DEF Pairing, Upper
    <3>4. /\ Lower(in, before, i) \subseteq in /\ Lower(in2, before2, h) \subseteq in2
          /\ Upper(in, before, i) \subseteq in /\ Upper(in2, before2, h) \subseteq in2
      BY DEF Lower, Upper
    <3> QED
      BY <2>5, <3>1, <3>2, <3>3, <3>4
  <2> HIDE DEF i
  <2>7. ASSUME NEW x \in in, NEW y \in in, <<x, y>> \in before
        PROVE  Upper(in, before, x) \subseteq Lower(in, before, y)
    BY <2>7 DEF Upper, Lower, Weak
  <2>8. ASSUME NEW x \in in, NEW y \in in, <<x, y>> \in before,
               n <= Cardinality(Upper(in, before, x)),
               Cardinality(Upper(in, before, x)) \in Nat,
               Cardinality(Lower(in, before, y)) \in Nat,
               Cardinality(Lower(in, before, y)) <= n - 1
        PROVE  FALSE
    <3>1. IsFiniteSet(Lower(in, before, y))
      BY FS_Subset DEF Lower
    <3>2. Cardinality(Upper(in, before, x)) <= Cardinality(Lower(in, before, y))
      BY <2>7, <2>8, <3>1, FS_Subset
    <3> QED
      BY <2>3, <2>8, <3>2
  <2>9. <<i, k>> \notin before
    BY <2>1, <2>2, <2>4, <2>6, <2>8
  <2>10. <<k, i>> \notin before
    BY <2>1, <2>2, <2>4, <2>6, <2>8
  <2> QED
    BY <2>2, <2>4, <2>9, <2>10 DEF h, i, k
<1> QED
  BY <1>1, <1>2

\* The same rows in another order: their sorted places pair off, and the rows of
\* a pair are not before each other.
LEMMA Reordered ==
  ASSUME NEW D \in SUBSET Nat, IsFiniteSet(D), NEW p \in [D -> D], IsInjective(p),
         NEW in \in SUBSET D, NEW before, Weak(in, before),
         NEW in2, in2 = {i \in D : p[i] \in in},
         NEW before2, \A i, j \in in2 : <<i, j>> \in before2 <=> <<p[i], p[j]>> \in before
  PROVE  \E m \in Nat :
           /\ DOMAIN Sorted(in, before) = 1 .. m /\ DOMAIN Sorted(in2, before2) = 1 .. m
           /\ \A n \in 1 .. m :
                /\ Sorted(in, before)[n] \in in /\ Sorted(in2, before2)[n] \in in2
                /\ <<p[Sorted(in2, before2)[n]], Sorted(in, before)[n]>> \notin before
                /\ <<Sorted(in, before)[n], p[Sorted(in2, before2)[n]]>> \notin before
<1> DEFINE g == [i \in in2 |-> p[i]]
<1>1. p \in Injection(D, D)
  BY DEF Injection
<1>2. p \in Surjection(D, D)
  BY <1>1, FS_Injection
<1>3. /\ g \in [in2 -> in] /\ \A i, j \in in2 : g[i] = g[j] => i = j
      /\ \A y \in in : \E i \in in2 : g[i] = y
  BY <1>2 DEF Surjection, IsInjective
<1>4. /\ IsFiniteSet(in) /\ IsFiniteSet(in2) /\ in \in SUBSET Nat /\ in2 \in SUBSET Nat
  BY FS_Subset
<1>5. \A i, j \in in2 : <<i, j>> \in before2 <=> <<g[i], g[j]>> \in before
  OBVIOUS
<1>6. \A i \in in2 : g[i] = p[i]
  OBVIOUS
<1> HIDE DEF g
<1>7. g \in Bijection(in2, in)
  BY <1>3 DEF Bijection, Injection, Surjection, IsInjective
<1>8. Weak(in2, before2)
  <2>1. \A i \in in2 : g[i] \in in
    BY <1>3
  <2>2. \A i \in in2 : <<i, i>> \notin before2
    BY <1>5, <2>1 DEF Weak
  <2>3. ASSUME NEW i \in in2, NEW j \in in2, NEW k \in in2,
               <<i, j>> \in before2, <<j, k>> \in before2
        PROVE  <<i, k>> \in before2
    <3>1. <<g[i], g[j]>> \in before /\ <<g[j], g[k]>> \in before
      BY <1>5, <2>3
    <3>2. g[i] \in in /\ g[j] \in in /\ g[k] \in in
      BY <2>1
    <3>3. <<g[i], g[k]>> \in before
      BY <3>1, <3>2 DEF Weak
    <3> QED
      BY <1>5, <3>3
  <2>4. ASSUME NEW i \in in2, NEW j \in in2, NEW k \in in2,
               <<i, j>> \notin before2, <<j, k>> \notin before2
        PROVE  <<i, k>> \notin before2
    <3>1. <<g[i], g[j]>> \notin before /\ <<g[j], g[k]>> \notin before
      BY <1>5, <2>4
    <3>2. g[i] \in in /\ g[j] \in in /\ g[k] \in in
      BY <2>1
    <3>3. <<g[i], g[k]>> \notin before
      BY <3>1, <3>2 DEF Weak
    <3> QED
      BY <1>5, <3>3
  <2> QED
    BY <2>2, <2>3, <2>4 DEF Weak
<1>9. /\ Cardinality(in2) = Cardinality(in)
      /\ \A n \in 1 .. Cardinality(in) :
           /\ g[Sorted(in2, before2)[n]] \in in /\ Sorted(in, before)[n] \in in
           /\ <<g[Sorted(in2, before2)[n]], Sorted(in, before)[n]>> \notin before
           /\ <<Sorted(in, before)[n], g[Sorted(in2, before2)[n]]>> \notin before
  <2>1. Pairing(in2, before2, in, before, g)
    BY <1>5, <1>7 DEF Pairing
  <2> QED
    BY <1>4, <1>8, <2>1, SamePlace
<1>10. /\ DOMAIN Sorted(in, before) = 1 .. Cardinality(in)
       /\ DOMAIN Sorted(in2, before2) = 1 .. Cardinality(in)
       /\ \A n \in 1 .. Cardinality(in) : Sorted(in2, before2)[n] \in in2
  BY <1>4, <1>8, <1>9, SortedPlaces
<1>11. Cardinality(in) \in Nat
  BY <1>4, FS_CardinalityType
<1> QED
  BY <1>6, <1>9, <1>10, <1>11, ZenonT(60)

\* Every square within the limit has a nearest root.
LEMMA SomeRoot ==
  ASSUME NEW s \in 1 .. SquareBeyond
  PROVE  \E r \in 0 .. RootBeyond : NearestRoot(r, s)
<1> DEFINE Above(r) == 40000 * s < (2 * r + 1) * (2 * r + 1)
           T == {r \in 0 .. RootBeyond : Above(r)}
<1>1. Above(RootBeyond)
  BY DEF RootBeyond, SquareBeyond
<1>2. ~ Above(0)
  BY DEF SquareBeyond
<1>3. ASSUME NEW r \in Nat, Above(r), ~ Above(r - 1)
      PROVE  NearestRoot(r, s)
  <2> s \in Int
    BY DEF SquareBeyond
  <2>1. 2 * (r - 1) + 1 = 2 * r - 1
    OBVIOUS
  <2>2. ~ (40000 * s < (2 * r - 1) * (2 * r - 1))
    BY <1>3, <2>1
  <2>3. (2 * r - 1) * (2 * r - 1) <= 40000 * s
    <3>1. (2 * r - 1) * (2 * r - 1) \in Int /\ 40000 * s \in Int
      OBVIOUS
    <3> QED
      BY <2>2, <3>1
  <2> QED
    BY <1>3, <2>3 DEF NearestRoot
<1> HIDE DEF Above
<1>4. RootBeyond \in Nat /\ SquareBeyond \in Nat
  BY DEF RootBeyond, SquareBeyond
<1>5. T \in SUBSET Nat /\ IsFiniteSet(T) /\ T \subseteq 0 .. RootBeyond
  <2>1. IsFiniteSet(0 .. RootBeyond)
    BY <1>4, FS_Interval
  <2>2. T \subseteq 0 .. RootBeyond
    OBVIOUS
  <2> HIDE DEF T
  <2>3. T \in SUBSET Nat
    BY <1>4, <2>2
  <2> QED
    BY <2>1, <2>2, <2>3, FS_Subset
<1>6. PICK r \in T : \A t \in T : ~ t < r
  <2>1. RootBeyond \in T
    BY <1>1, <1>4
  <2> QED
    BY <1>5, <2>1, LeastOfSome
<1>7. r \in 0 .. RootBeyond /\ Above(r) /\ r # 0
  BY <1>2, <1>5, <1>6
<1>8. r - 1 \in 0 .. RootBeyond /\ r - 1 < r
  BY <1>4, <1>7
<1>9. ~ Above(r - 1)
  BY <1>4, <1>6, <1>7, <1>8
<1> QED
  <2>1. r \in Nat
    BY <1>4, <1>7
  <2> QED
    BY <1>3, <1>7, <1>9, <2>1

\* toFixed(2) of any square is a number.
LEMMA RootIsANumber ==
  ASSUME NEW s \in Squares, s \in Nat
  PROVE  RoundedRoot[s] \in Nat
<1>1. CASE s = 0 \/ s > SquareBeyond
  BY <1>1 DEF RoundedRoot
<1>2. CASE s # 0 /\ ~ s > SquareBeyond
  <2>1. RoundedRoot[s] = CHOOSE r \in 0 .. RootBeyond : NearestRoot(r, s)
    BY <1>2 DEF RoundedRoot
  <2>2. s \in 1 .. SquareBeyond
    <3>1. SquareBeyond \in Nat
      BY DEF SquareBeyond
    <3> QED
      BY <1>2, <3>1
  <2>3. \E r \in 0 .. RootBeyond : NearestRoot(r, s)
    BY <2>2, SomeRoot
  <2>4. RoundedRoot[s] \in 0 .. RootBeyond
    BY <2>1, <2>3
  <2>5. RootBeyond \in Nat
    BY DEF RootBeyond
  <2> QED
    BY <2>4, <2>5
<1> QED
  BY <1>1, <1>2

\* How far a row of a shelf is from a wanted size is a number.
LEMMA DistanceIsANumber ==
  ASSUME NEW q \in Wanted, NEW shelf \in Shelves, NEW i \in DOMAIN shelf
  PROVE  DistanceCm(q, shelf[i]) \in Nat
<1> DEFINE row == shelf[i]
           s == CalculateDistance(q, row)
           square(w, l) == (w - q.w) * (w - q.w) + (l - q.l) * (l - q.l)
<1>1. /\ q.w \in Nat /\ q.l \in Nat /\ row.w \in Int /\ row.l \in Int
  <2>1. row \in ShelfRow
    BY SearchAssumption
  <2> HIDE DEF row
  <2>2. row.w \in Nat /\ row.l \in Int
    BY <2>1 DEF ShelfRow
  <2>3. q \in [w : Nat, l : Nat]
    BY SearchAssumption
  <2> QED
    BY <2>2, <2>3
<1>2. ASSUME NEW x \in Int PROVE x * x \in Nat
  OBVIOUS
<1>3. ASSUME NEW w \in Int, NEW l \in Int PROVE square(w, l) \in Nat
  <2>1. w - q.w \in Int /\ l - q.l \in Int
    BY <1>1
  <2> QED
    BY <1>2, <2>1
<1>4. s \in Nat
  <2>2. s = Least({square(row.w, row.l), square(row.l, row.w)})
    BY DEF CalculateDistance
  <2> HIDE DEF row, square
  <2>1. square(row.w, row.l) \in Nat /\ square(row.l, row.w) \in Nat
    BY <1>1, <1>3
  <2> HIDE DEF s
  <2> QED
    BY <2>1, <2>2 DEF Least
<1>5. s \in Squares
  BY DEF Squares, Range
<1> HIDE DEF s
<1>6. DistanceCm(q, row) = RoundedRoot[s]
  BY DEF DistanceCm, s
<1> QED
  BY <1>4, <1>5, <1>6, RootIsANumber

\* What is known of the rows of a shelf.
LEMMA RowFacts ==
  ASSUME NEW q \in Wanted, NEW shelf \in Shelves
  PROVE  /\ DOMAIN shelf \in SUBSET Nat /\ IsFiniteSet(DOMAIN shelf)
         /\ \A i \in DOMAIN shelf :
              /\ shelf[i].price \in Nat /\ shelf[i].l \in Int
              /\ shelf[i].carpet \in Nat /\ DistanceCm(q, shelf[i]) \in Nat
<1>1. shelf \in Seq(ShelfRow)
  BY SearchAssumption
<1>2. DOMAIN shelf = 1 .. Len(shelf) /\ Len(shelf) \in Nat
  BY <1>1
<1>3. DOMAIN shelf \in SUBSET Nat /\ IsFiniteSet(DOMAIN shelf)
  BY <1>2, FS_Interval
<1>4. ASSUME NEW i \in DOMAIN shelf
      PROVE  /\ shelf[i].price \in Nat /\ shelf[i].l \in Int
             /\ shelf[i].carpet \in Nat /\ DistanceCm(q, shelf[i]) \in Nat
  <2>1. shelf[i] \in ShelfRow
    BY <1>1
  <2>2. /\ shelf[i].price \in Nat /\ shelf[i].l \in Int /\ shelf[i].carpet \in Nat
    BY <2>1 DEF ShelfRow
  <2> QED
    BY <2>2, DistanceIsANumber
<1> QED
  BY <1>3, <1>4

\* Two sorted lists of places show the same rows.
Alike(q, shelf, other, order, order2) ==
  \E m \in Nat :
    /\ DOMAIN order = 1 .. m /\ DOMAIN order2 = 1 .. m
    /\ \A n \in 1 .. m : Shown(q, other[order2[n]]) = Shown(q, shelf[order[n]])

\* Rolls are sorted by their price and length, and nothing else of them is shown.
LEMMA RollsAlike ==
  ASSUME NEW q \in Wanted, NEW shelf \in Shelves,
         NEW p \in [DOMAIN shelf -> DOMAIN shelf], IsInjective(p),
         NEW other, other = [i \in DOMAIN shelf |-> shelf[p[i]]]
  PROVE  Alike(q, shelf, other, SearchMetrajRolls(q, shelf), SearchMetrajRolls(q, other))
<1> DEFINE D == DOMAIN shelf
           in == {i \in D : FitsRoll(q, shelf[i])}
           before == {x \in in \X in : CheaperRoll(shelf[x[1]], shelf[x[2]])}
           in2 == {i \in DOMAIN other : FitsRoll(q, other[i])}
           before2 == {x \in in2 \X in2 : CheaperRoll(other[x[1]], other[x[2]])}
<1>1. /\ D \in SUBSET Nat /\ IsFiniteSet(D)
      /\ \A i \in D : /\ shelf[i].price \in Nat /\ shelf[i].l \in Int
                       /\ shelf[i].carpet \in Nat /\ DistanceCm(q, shelf[i]) \in Nat
  BY RowFacts
<1>2. \A i, j \in in : <<i, j>> \in before <=> CheaperRoll(shelf[i], shelf[j])
  OBVIOUS
<1>3. DOMAIN other = D /\ \A i \in D : p[i] \in D /\ other[i] = shelf[p[i]]
  OBVIOUS
<1>4. in2 = {i \in D : p[i] \in in}
  BY <1>3
<1>5. \A i, j \in in2 : <<i, j>> \in before2 <=> CheaperRoll(other[i], other[j])
  OBVIOUS
<1>6. \A i, j \in in2 : <<i, j>> \in before2 <=> <<p[i], p[j]>> \in before
  BY <1>2, <1>3, <1>4, <1>5
<1>7. in \subseteq D /\ \A i \in in : FitsRoll(q, shelf[i])
  OBVIOUS
<1>8. /\ SearchMetrajRolls(q, shelf) = Sorted(in, before)
      /\ SearchMetrajRolls(q, other) = Sorted(in2, before2)
  BY DEF SearchMetrajRolls
<1> HIDE DEF D, in, before, in2, before2
<1>9. Weak(in, before)
  <2>1. \A i \in in : <<i, i>> \notin before
    BY <1>1, <1>2, <1>7 DEF CheaperRoll
  <2>2. \A i, j, k \in in : <<i, j>> \in before /\ <<j, k>> \in before => <<i, k>> \in before
    <3>1. ASSUME NEW i \in in, NEW j \in in, NEW k \in in,
                 <<i, j>> \in before, <<j, k>> \in before
          PROVE  <<i, k>> \in before
      BY <1>1, <1>2, <1>7, <3>1 DEF CheaperRoll
    <3> QED
      BY <3>1
  <2>3. \A i, j, k \in in : <<i, j>> \notin before /\ <<j, k>> \notin before
                            => <<i, k>> \notin before
    <3>1. ASSUME NEW i \in in, NEW j \in in, NEW k \in in,
                 <<i, j>> \notin before, <<j, k>> \notin before
          PROVE  <<i, k>> \notin before
      BY <1>1, <1>2, <1>7, <3>1 DEF CheaperRoll
    <3> QED
      BY <3>1
  <2> QED
    BY <2>1, <2>2, <2>3 DEF Weak
<1>10. PICK m \in Nat :
         /\ DOMAIN Sorted(in, before) = 1 .. m /\ DOMAIN Sorted(in2, before2) = 1 .. m
         /\ \A n \in 1 .. m :
              /\ Sorted(in, before)[n] \in in /\ Sorted(in2, before2)[n] \in in2
              /\ <<p[Sorted(in2, before2)[n]], Sorted(in, before)[n]>> \notin before
              /\ <<Sorted(in, before)[n], p[Sorted(in2, before2)[n]]>> \notin before
  BY <1>1, <1>3, <1>4, <1>6, <1>7, <1>9, Reordered, ZenonT(60) DEF D
<1>11. ASSUME NEW i \in in2, NEW k \in in, <<p[i], k>> \notin before, <<k, p[i]>> \notin before
       PROVE  Shown(q, other[i]) = Shown(q, shelf[k])
  <2>1. i \in D /\ p[i] \in in /\ other[i] = shelf[p[i]]
    BY <1>3, <1>4
  <2>2. shelf[p[i]].price = shelf[k].price /\ shelf[p[i]].l = shelf[k].l
    <3>1. k \in D /\ p[i] \in D
      BY <1>7, <2>1
    <3>2. ~ CheaperRoll(shelf[p[i]], shelf[k]) /\ ~ CheaperRoll(shelf[k], shelf[p[i]])
      BY <1>2, <1>11, <2>1
    <3> QED
      BY <1>1, <3>1, <3>2 DEF CheaperRoll
  <2>3. shelf[p[i]].kind = "METRAJ" /\ shelf[k].kind = "METRAJ"
    BY <1>7, <2>1 DEF FitsRoll
  <2> QED
    BY <2>1, <2>2, <2>3 DEF Shown
<1> QED
  <2>1. \A n \in 1 .. m : Shown(q, other[Sorted(in2, before2)[n]])
                            = Shown(q, shelf[Sorted(in, before)[n]])
    BY <1>10, <1>11
  <2> QED
    BY <1>8, <1>10, <2>1 DEF Alike

\* Pieces are sorted by all that is shown of them.
LEMMA PiecesAlike ==
  ASSUME NEW q \in Wanted, NEW shelf \in Shelves,
         NEW kind \in {"READY", "OVAL"},
         NEW p \in [DOMAIN shelf -> DOMAIN shelf], IsInjective(p),
         NEW other, other = [i \in DOMAIN shelf |-> shelf[p[i]]]
  PROVE  Alike(q, shelf, other, RankCandidates(q, shelf, kind), RankCandidates(q, other, kind))
<1> DEFINE D == DOMAIN shelf
           in == {i \in D : IsNear(q, shelf[i], kind)}
           before == {x \in in \X in : RanksBefore(q, shelf[x[1]], shelf[x[2]])}
           in2 == {i \in DOMAIN other : IsNear(q, other[i], kind)}
           before2 == {x \in in2 \X in2 : RanksBefore(q, other[x[1]], other[x[2]])}
<1>1. /\ D \in SUBSET Nat /\ IsFiniteSet(D)
      /\ \A i \in D : /\ shelf[i].price \in Nat /\ shelf[i].l \in Int
                       /\ shelf[i].carpet \in Nat /\ DistanceCm(q, shelf[i]) \in Nat
  BY RowFacts
<1>2. \A i, j \in in : <<i, j>> \in before <=> RanksBefore(q, shelf[i], shelf[j])
  OBVIOUS
<1>3. DOMAIN other = D /\ \A i \in D : p[i] \in D /\ other[i] = shelf[p[i]]
  OBVIOUS
<1>4. in2 = {i \in D : p[i] \in in}
  BY <1>3
<1>5. \A i, j \in in2 : <<i, j>> \in before2 <=> RanksBefore(q, other[i], other[j])
  OBVIOUS
<1>6. \A i, j \in in2 : <<i, j>> \in before2 <=> <<p[i], p[j]>> \in before
  BY <1>2, <1>3, <1>4, <1>5
<1>7. in \subseteq D /\ \A i \in in : IsNear(q, shelf[i], kind)
  OBVIOUS
<1>8. /\ RankCandidates(q, shelf, kind) = Sorted(in, before)
      /\ RankCandidates(q, other, kind) = Sorted(in2, before2)
  BY DEF RankCandidates
<1> HIDE DEF D, in, before, in2, before2
<1>9. Weak(in, before)
  <2>1. \A i \in in : <<i, i>> \notin before
    BY <1>1, <1>2, <1>7 DEF RanksBefore, NearerOrCheaper
  <2>2. \A i, j, k \in in : <<i, j>> \in before /\ <<j, k>> \in before => <<i, k>> \in before
    <3>1. ASSUME NEW i \in in, NEW j \in in, NEW k \in in,
                 <<i, j>> \in before, <<j, k>> \in before
          PROVE  <<i, k>> \in before
      BY <1>1, <1>2, <1>7, <3>1 DEF RanksBefore, NearerOrCheaper
    <3> QED
      BY <3>1
  <2>3. \A i, j, k \in in : <<i, j>> \notin before /\ <<j, k>> \notin before
                            => <<i, k>> \notin before
    <3>1. ASSUME NEW i \in in, NEW j \in in, NEW k \in in,
                 <<i, j>> \notin before, <<j, k>> \notin before
          PROVE  <<i, k>> \notin before
      BY <1>1, <1>2, <1>7, <3>1 DEF RanksBefore, NearerOrCheaper
    <3> QED
      BY <3>1
  <2> QED
    BY <2>1, <2>2, <2>3 DEF Weak
<1>10. PICK m \in Nat :
         /\ DOMAIN Sorted(in, before) = 1 .. m /\ DOMAIN Sorted(in2, before2) = 1 .. m
         /\ \A n \in 1 .. m :
              /\ Sorted(in, before)[n] \in in /\ Sorted(in2, before2)[n] \in in2
              /\ <<p[Sorted(in2, before2)[n]], Sorted(in, before)[n]>> \notin before
              /\ <<Sorted(in, before)[n], p[Sorted(in2, before2)[n]]>> \notin before
  BY <1>1, <1>3, <1>4, <1>6, <1>7, <1>9, Reordered, ZenonT(60) DEF D
<1>11. ASSUME NEW i \in in2, NEW k \in in, <<p[i], k>> \notin before, <<k, p[i]>> \notin before
       PROVE  Shown(q, other[i]) = Shown(q, shelf[k])
  <2>1. i \in D /\ p[i] \in in /\ other[i] = shelf[p[i]]
    BY <1>3, <1>4
  <2>2. /\ shelf[p[i]].price = shelf[k].price /\ shelf[p[i]].carpet = shelf[k].carpet
        /\ DistanceCm(q, shelf[p[i]]) = DistanceCm(q, shelf[k])
    <3>1. k \in D /\ p[i] \in D
      BY <1>7, <2>1
    <3>2. ~ RanksBefore(q, shelf[p[i]], shelf[k]) /\ ~ RanksBefore(q, shelf[k], shelf[p[i]])
      BY <1>2, <1>11, <2>1
    <3> QED
      <4> DEFINE a == shelf[p[i]]
                 b == shelf[k]
      <4>1. /\ a.price \in Nat /\ a.carpet \in Nat /\ DistanceCm(q, a) \in Nat
            /\ b.price \in Nat /\ b.carpet \in Nat /\ DistanceCm(q, b) \in Nat
        BY <1>1, <3>1
      <4>2. ~ RanksBefore(q, a, b) /\ ~ RanksBefore(q, b, a)
        BY <3>2
      <4> HIDE DEF a, b
      <4>3. a.price = b.price /\ a.carpet = b.carpet /\ DistanceCm(q, a) = DistanceCm(q, b)
        BY <4>1, <4>2 DEF RanksBefore, NearerOrCheaper
      <4> QED
        BY <4>3 DEF a, b
  <2>3. shelf[p[i]].kind # "METRAJ" /\ shelf[k].kind # "METRAJ"
    BY <1>7, <2>1 DEF IsNear
  <2> QED
    BY <2>1, <2>2, <2>3 DEF Shown
<1> QED
  <2>1. \A n \in 1 .. m : Shown(q, other[Sorted(in2, before2)[n]])
                            = Shown(q, shelf[Sorted(in, before)[n]])
    BY <1>10, <1>11
  <2> QED
    BY <1>8, <1>10, <2>1 DEF Alike

\* A sorted list is a function on its places.
LEMMA SortedIsFunction ==
  ASSUME NEW in, NEW before
  PROVE  Sorted(in, before) = [n \in DOMAIN Sorted(in, before) |-> Sorted(in, before)[n]]
BY DEF Sorted

\* Nothing is found on the one shelf when nothing is found on the other.
LEMMA AlikeEmpty ==
  ASSUME NEW q, NEW shelf, NEW other, NEW order, NEW order2,
         Alike(q, shelf, other, order, order2),
         order = [n \in DOMAIN order |-> order[n]],
         order2 = [n \in DOMAIN order2 |-> order2[n]]
  PROVE  order = <<>> <=> order2 = <<>>
<1>1. PICK m \in Nat : DOMAIN order = 1 .. m /\ DOMAIN order2 = 1 .. m
  BY DEF Alike
<1>2. ASSUME NEW f, f = [n \in DOMAIN f |-> f[n]], DOMAIN f = 1 .. m
      PROVE  f = <<>> <=> m = 0
  <2>1. DOMAIN <<>> = {} /\ <<>> = [n \in {} |-> n]
    OBVIOUS
  <2>2. 1 .. m = {} <=> m = 0
    OBVIOUS
  <2>3. m = 0 => f = [n \in {} |-> n]
    BY <1>2, <2>2
  <2>4. f = <<>> => m = 0
    BY <1>2, <2>1, <2>2
  <2> QED
    BY <2>1, <2>3, <2>4
<1> QED
  BY <1>1, <1>2

\* Rolls, pieces and ovals are each the same, and so is what is offered.
LEMMA SameOffer ==
  ASSUME NEW q \in Wanted, NEW shelf \in Shelves, NEW other \in Orders(shelf)
  PROVE  ExecuteFallbackSearch(q, other) = ExecuteFallbackSearch(q, shelf)
<1>1. PICK p \in [DOMAIN shelf -> DOMAIN shelf] :
        IsInjective(p) /\ other = [i \in DOMAIN shelf |-> shelf[p[i]]]
  BY DEF Orders
<1> DEFINE rolls == SearchMetrajRolls(q, shelf)
           ready == RankCandidates(q, shelf, "READY")
           oval == RankCandidates(q, shelf, "OVAL")
           found == IF rolls # <<>> THEN rolls ELSE IF ready # <<>> THEN ready ELSE oval
           rolls2 == SearchMetrajRolls(q, other)
           ready2 == RankCandidates(q, other, "READY")
           oval2 == RankCandidates(q, other, "OVAL")
           found2 == IF rolls2 # <<>> THEN rolls2 ELSE IF ready2 # <<>> THEN ready2 ELSE oval2
<1>2. Alike(q, shelf, other, rolls, rolls2)
  BY <1>1, RollsAlike
<1>3. Alike(q, shelf, other, ready, ready2) /\ Alike(q, shelf, other, oval, oval2)
  BY <1>1, PiecesAlike
<1>4. /\ rolls = [n \in DOMAIN rolls |-> rolls[n]] /\ rolls2 = [n \in DOMAIN rolls2 |-> rolls2[n]]
      /\ ready = [n \in DOMAIN ready |-> ready[n]] /\ ready2 = [n \in DOMAIN ready2 |-> ready2[n]]
  BY SortedIsFunction DEF SearchMetrajRolls, RankCandidates
<1>5. /\ ExecuteFallbackSearch(q, shelf) = [n \in DOMAIN found |-> Shown(q, shelf[found[n]])]
      /\ ExecuteFallbackSearch(q, other) = [n \in DOMAIN found2 |-> Shown(q, other[found2[n]])]
  BY DEF ExecuteFallbackSearch
<1> HIDE DEF rolls, ready, oval, rolls2, ready2, oval2
<1>6. (rolls = <<>> <=> rolls2 = <<>>) /\ (ready = <<>> <=> ready2 = <<>>)
  BY <1>2, <1>3, <1>4, AlikeEmpty
<1>7. Alike(q, shelf, other, found, found2)
  BY <1>2, <1>3, <1>6
<1> HIDE DEF found, found2
<1>8. /\ DOMAIN found2 = DOMAIN found
      /\ \A n \in DOMAIN found : Shown(q, other[found2[n]]) = Shown(q, shelf[found[n]])
  BY <1>7 DEF Alike
<1> QED
  BY <1>5, <1>8

(***************************************************************************)
(* The sizes that are written                                              *)
(***************************************************************************)
\* A number of whole hundreds.
LEMMA Hundreds ==
  ASSUME NEW n \in Nat, n % 100 = 0
  PROVE  n \div 100 \in Nat /\ n = 100 * (n \div 100)
OBVIOUS

\* Rounding leaves a multiple as it is.
LEMMA NearestOfMultiple ==
  ASSUME NEW k \in Nat
  PROVE  /\ Nearest(10 * k, 10) = k /\ Nearest(100 * k, 10) = 10 * k
         /\ Nearest(100 * k, 100) = k
<1>1. (2 * (10 * k) + 10) \div (2 * 10) = k
  BY SMTT(30)
<1>2. (2 * (100 * k) + 10) \div (2 * 10) = 10 * k
  BY SMTT(30)
<1>3. (2 * (100 * k) + 100) \div (2 * 100) = k
  BY SMTT(30)
<1> QED
  BY <1>1, <1>2, <1>3 DEF Nearest

\* What the readers make of a plain number.
ReadAs(n, cm) ==
  /\ cm \in 100 .. 900 /\ ParseTokenToCm(n) = cm
  /\ n < 1500 => cm = n
  /\ ~ n < 1500 => Nearest(n, 100) = cm /\ n \div 100 = cm /\ ~ n < 5000
  /\ Nearest(ParseDimensionToMm(n), 10) = cm
  /\ Nearest(NormalizeDimension(n), 10) = cm
  /\ ~ n >= 50000 /\ (n >= 2000 <=> ~ n < 1500)

\* A plain number of each of the two ranges.
LEMMA PlainCentimetres ==
  ASSUME NEW n \in Nat, InCentimetres(n)
  PROVE  ReadAs(n, Centimetres(n))
<1>0. 100 <= n /\ n <= 900
  BY SMT DEF InCentimetres
<1>1. n <= 900 /\ n < 1000 /\ n < 1500 /\ ~ n >= 2000 /\ ~ n >= 50000 /\ n <= 1500
  BY <1>0
<1>2. Centimetres(n) = n
  BY <1>1 DEF Centimetres
<1>3. ParseDimensionToMm(n) = 10 * n /\ NormalizeDimension(n) = 10 * n
  BY <1>1 DEF ParseDimensionToMm, NormalizeDimension
<1>4. Nearest(10 * n, 10) = n
  BY NearestOfMultiple
<1>5. ParseTokenToCm(n) = n
  BY <1>1 DEF ParseTokenToCm
<1> QED
  BY <1>0, <1>1, <1>2, <1>3, <1>4, <1>5 DEF ReadAs

LEMMA PlainHundredths ==
  ASSUME NEW n \in Nat, InHundredths(n)
  PROVE  ReadAs(n, Centimetres(n))
<1> DEFINE cm == n \div 100
<1>0. n % 100 = 0 /\ 10000 <= n /\ n <= 49900
  BY SMT DEF InHundredths
<1>1. /\ ~ n <= 900 /\ ~ n <= 1500 /\ ~ n < 1500 /\ ~ n < 1000 /\ ~ n < 4000
      /\ ~ n < 5000 /\ ~ n < 10000 /\ n < 100000 /\ n <= 150000
      /\ ~ n >= 50000 /\ n >= 2000
  BY <1>0
<1>2. Centimetres(n) = cm
  BY <1>1 DEF Centimetres
<1>3. cm \in Nat /\ n = 100 * cm
  BY <1>0, Hundreds
<1>4. ParseTokenToCm(n) = cm
  BY <1>0, <1>1 DEF ParseTokenToCm
<1> HIDE DEF cm
<1>5. cm \in 100 .. 900
  BY <1>0, <1>3
<1>6. ParseDimensionToMm(n) = Nearest(n, 10) /\ NormalizeDimension(n) = Nearest(n, 10)
  BY <1>1 DEF ParseDimensionToMm, NormalizeDimension
<1>7. Nearest(n, 10) = 10 * cm /\ Nearest(10 * cm, 10) = cm /\ Nearest(n, 100) = cm
  BY <1>3, NearestOfMultiple
<1>8. n \div 100 = cm
  BY DEF cm
<1> QED
  BY <1>1, <1>2, <1>4, <1>5, <1>6, <1>7, <1>8 DEF ReadAs

LEMMA PlainNumber ==
  ASSUME NEW n \in Nat, Plain(n)
  PROVE  ReadAs(n, Centimetres(n))
<1>1. InCentimetres(n) \/ InHundredths(n)
  BY Zenon DEF Plain
<1> QED
  BY <1>1, PlainCentimetres, PlainHundredths, Zenon

\* Two plain numbers are one size to every reader.
LEMMA PlainSize ==
  ASSUME NEW a \in Nat, Plain(a), NEW b \in Nat, Plain(b)
  PROVE  SameSize(SizeAnswer(a, b), {Centimetres(a), Centimetres(b)})
<1> DEFINE x == Centimetres(a)
           y == Centimetres(b)
           read == SizeAnswer(a, b)
<1> HIDE DEF x, y
<1>1. /\ x \in 100 .. 900 /\ ParseTokenToCm(a) = x
      /\ a < 1500 => x = a
      /\ ~ a < 1500 => Nearest(a, 100) = x /\ a \div 100 = x /\ ~ a < 5000
      /\ Nearest(ParseDimensionToMm(a), 10) = x /\ Nearest(NormalizeDimension(a), 10) = x
      /\ ~ a >= 50000 /\ (a >= 2000 <=> ~ a < 1500)
  BY PlainNumber DEF x, ReadAs
<1>2. /\ y \in 100 .. 900 /\ ParseTokenToCm(b) = y
      /\ b < 1500 => y = b
      /\ ~ b < 1500 => Nearest(b, 100) = y /\ b \div 100 = y /\ ~ b < 5000
      /\ Nearest(ParseDimensionToMm(b), 10) = y /\ Nearest(NormalizeDimension(b), 10) = y
      /\ ~ b >= 50000 /\ (b >= 2000 <=> ~ b < 1500)
  BY PlainNumber DEF y, ReadAs
<1>3. read.parse = {x, y}
  <2>1. Parse(a, b) = {x, y}
    <3> DEFINE both == {ParseTokenToCm(a), ParseTokenToCm(b)}
               inRange == \A d \in both : d \in 40 .. 5000
    <3>1. Parse(a, b) = IF inRange THEN both ELSE {None}
      BY DEF Parse
    <3>2. both = {x, y}
      <4>1. ParseTokenToCm(a) = x /\ ParseTokenToCm(b) = y
        BY <1>1, <1>2
      <4> QED
        BY <4>1
    <3>3. inRange
      <4>1. /\ ParseTokenToCm(a) = x /\ x \in 100 .. 900
            /\ ParseTokenToCm(b) = y /\ y \in 100 .. 900
        BY <1>1, <1>2
      <4> QED
        BY <4>1, SMTT(60)
    <3> HIDE DEF both, inRange
    <3> QED
      BY <3>1, <3>2, <3>3
  <2> QED
    BY <2>1 DEF SizeAnswer
<1>4. read.extract = {x, y}
  <2>1. ~ (~ b < 1500 /\ x >= 50 /\ b < 5000)
    BY <1>2
  <2>2. ExtractSizes(a, b) = {x, y}
    BY <1>1, <1>2, <2>1 DEF ExtractSizes
  <2> QED
    BY <2>2 DEF SizeAnswer
<1>5. read.import = {x, y} /\ read.basko = {x, y}
  <2>1. {Nearest(ParseDimensionToMm(n), 10) : n \in {a, b}} = {x, y}
    BY <1>1, <1>2
  <2>2. {Nearest(NormalizeDimension(n), 10) : n \in {a, b}} = {x, y}
    BY <1>1, <1>2
  <2> QED
    BY <2>1, <2>2 DEF SizeAnswer
<1>6. read.shown = {x, y}
  <2>1. NormalizeCarpetData(a, b) = {x, y}
    BY <1>1, <1>2 DEF NormalizeCarpetData
  <2> QED
    BY <2>1 DEF SizeAnswer
<1>7. read.area = x * y
  <2>1. ParseAreaFromSize(a, b) = x * y
    BY <1>1, <1>2 DEF ParseAreaFromSize
  <2> QED
    BY <2>1 DEF SizeAnswer
<1> HIDE DEF read
<1>8. {read.parse, read.extract, read.import, read.basko, read.shown} = {{x, y}}
  BY <1>3, <1>4, <1>5, <1>6
<1> QED
  BY <1>7, <1>8 DEF read, x, y, SameSize

(***************************************************************************)
(* The table of distances                                                  *)
(***************************************************************************)
\* What holds of nothing, and of a number's successor when it holds of the number,
\* holds of every number: the least exception would have a predecessor.
LEMMA Counting ==
  ASSUME NEW T, 0 \in T, \A n \in Nat : n \in T => n + 1 \in T
  PROVE  Nat \subseteq T
<1> SUFFICES ASSUME NEW n \in Nat, n \notin T
             PROVE  FALSE
  OBVIOUS
<1> DEFINE others == {k \in 0 .. n : k \notin T}
<1>1. others \in SUBSET Nat /\ IsFiniteSet(others) /\ n \in others
  <2>1. IsFiniteSet(0 .. n)
    BY FS_Interval
  <2> QED
    BY <2>1, FS_Subset
<1>2. PICK r \in others : \A t \in others : ~ t < r
  BY <1>1, LeastOfSome
<1>3. r \in Nat /\ r <= n /\ r # 0
  OBVIOUS
<1>4. r - 1 \in Nat /\ r - 1 \notin others
  BY <1>2, <1>3
<1>5. r - 1 \in T
  BY <1>3, <1>4
<1> QED
  BY <1>3, <1>4, <1>5

\* The least of three numbers, and of two.
LEMMA LeastOfThree ==
  ASSUME NEW x \in Nat, NEW y \in Nat, NEW z \in Nat
  PROVE  /\ Least({x, y, z}) \in {x, y, z} /\ Least({x, y, z}) \in Nat
         /\ Least({x, y, z}) <= x /\ Least({x, y, z}) <= y /\ Least({x, y, z}) <= z
<1> DEFINE S == {x, y, z}
<1>1. \E m \in S : \A n \in S : m <= n
  OBVIOUS
<1>2. Least(S) \in S /\ \A n \in S : Least(S) <= n
  BY <1>1 DEF Least
<1> QED
  BY <1>2

\* The cells of the table, and what a cell holds when the others hold f.
Grid(a, b) == (0 .. Len(a)) \X (0 .. Len(b))
Cell(a, b, f, p) ==
  IF p[1] = 0 THEN p[2]
  ELSE IF p[2] = 0 THEN p[1]
  ELSE Least({f[<<p[1] - 1, p[2]>>] + 1, f[<<p[1], p[2] - 1>>] + 1,
              f[<<p[1] - 1, p[2] - 1>>] + IF a[p[1]] = b[p[2]] THEN 0 ELSE 1})

\* The table of the model is a table of such cells, if there is one.
LEMMA TmpChosen ==
  ASSUME NEW a, NEW b
  PROVE  Tmp(a, b) = CHOOSE f : f = [p \in Grid(a, b) |-> Cell(a, b, f, p)]
BY DEF Tmp, Grid, Cell

LEMMA CellIsANumber ==
  ASSUME NEW a, NEW b, Len(a) \in Nat, Len(b) \in Nat, NEW f \in [Grid(a, b) -> Nat],
         NEW p \in Grid(a, b)
  PROVE  Cell(a, b, f, p) \in Nat
<1>1. p[1] \in Nat /\ p[2] \in Nat /\ p[1] <= Len(a) /\ p[2] <= Len(b)
  BY DEF Grid
<1>2. CASE p[1] = 0 \/ p[2] = 0
  BY <1>1, <1>2 DEF Cell
<1>3. CASE p[1] # 0 /\ p[2] # 0
  <2>1. /\ <<p[1] - 1, p[2]>> \in Grid(a, b) /\ <<p[1], p[2] - 1>> \in Grid(a, b)
        /\ <<p[1] - 1, p[2] - 1>> \in Grid(a, b)
    BY <1>1, <1>3 DEF Grid
  <2>2. /\ f[<<p[1] - 1, p[2]>>] + 1 \in Nat /\ f[<<p[1], p[2] - 1>>] + 1 \in Nat
        /\ f[<<p[1] - 1, p[2] - 1>>] + (IF a[p[1]] = b[p[2]] THEN 0 ELSE 1) \in Nat
    BY <2>1, SMTT(60)
  <2> QED
    BY <1>3, <2>2, LeastOfThree DEF Cell
<1> QED
  BY <1>2, <1>3

\* A cell takes from those that are nearer to the corner only.
LEMMA CellLooksBack ==
  ASSUME NEW a, NEW b, Len(a) \in Nat, Len(b) \in Nat, NEW f, NEW g, NEW p \in Grid(a, b),
         \A q \in Grid(a, b) : q[1] + q[2] < p[1] + p[2] => f[q] = g[q]
  PROVE  Cell(a, b, f, p) = Cell(a, b, g, p)
<1>1. p[1] \in Nat /\ p[2] \in Nat /\ p[1] <= Len(a) /\ p[2] <= Len(b)
  BY DEF Grid
<1>2. CASE p[1] = 0 \/ p[2] = 0
  BY <1>1, <1>2 DEF Cell
<1>3. CASE p[1] # 0 /\ p[2] # 0
  <2>1. /\ <<p[1] - 1, p[2]>> \in Grid(a, b) /\ <<p[1], p[2] - 1>> \in Grid(a, b)
        /\ <<p[1] - 1, p[2] - 1>> \in Grid(a, b)
    BY <1>1, <1>3 DEF Grid
  <2>2. /\ f[<<p[1] - 1, p[2]>>] = g[<<p[1] - 1, p[2]>>]
        /\ f[<<p[1], p[2] - 1>>] = g[<<p[1], p[2] - 1>>]
        /\ f[<<p[1] - 1, p[2] - 1>>] = g[<<p[1] - 1, p[2] - 1>>]
    BY <1>1, <2>1, SMTT(60)
  <2> QED
    BY <1>3, <2>2 DEF Cell
<1> QED
  BY <1>2, <1>3

\* The table is filled in from the corner, so that there is one.
LEMMA TableExists ==
  ASSUME NEW a, NEW b, Len(a) \in Nat, Len(b) \in Nat
  PROVE  \E f \in [Grid(a, b) -> Nat] : f = [p \in Grid(a, b) |-> Cell(a, b, f, p)]
<1> DEFINE G == Grid(a, b)
           Filled(k) == \E f \in [G -> Nat] :
                          \A p \in G : p[1] + p[2] < k => f[p] = Cell(a, b, f, p)
           T == {k \in Nat : Filled(k)}
<1>1. 0 \in T
  <2>1. [p \in G |-> 0] \in [G -> Nat]
    OBVIOUS
  <2>2. \A p \in G : ~ p[1] + p[2] < 0
    BY DEF Grid
  <2> QED
    BY <2>1, <2>2
<1>2. ASSUME NEW k \in Nat, k \in T
      PROVE  k + 1 \in T
  <2>1. PICK f \in [G -> Nat] : \A p \in G : p[1] + p[2] < k => f[p] = Cell(a, b, f, p)
    BY <1>2
  <2> DEFINE g == [p \in G |-> IF p[1] + p[2] = k THEN Cell(a, b, f, p) ELSE f[p]]
  <2>2. g \in [G -> Nat]
    BY CellIsANumber
  <2>3. ASSUME NEW p \in G, p[1] + p[2] < k + 1
        PROVE  g[p] = Cell(a, b, g, p)
    <3>1. p[1] \in Nat /\ p[2] \in Nat
      BY DEF Grid
    <3>2. \A q \in G : q[1] + q[2] < p[1] + p[2] => f[q] = g[q]
      <4> SUFFICES ASSUME NEW q \in G, q[1] + q[2] < p[1] + p[2]
                   PROVE  f[q] = g[q]
        OBVIOUS
      <4>1. q[1] \in Nat /\ q[2] \in Nat
        BY DEF Grid
      <4> QED
        BY <2>3, <3>1, <4>1
    <3>3. Cell(a, b, f, p) = Cell(a, b, g, p)
      BY <3>2, CellLooksBack
    <3>4. g[p] = Cell(a, b, f, p)
      BY <2>1, <2>3, <3>1
    <3> QED
      BY <3>3, <3>4
  <2> HIDE DEF g
  <2> QED
    BY <2>2, <2>3
<1> HIDE DEF Filled
<1>3. Nat \subseteq T
  BY <1>1, <1>2, Counting
<1>4. Filled(Len(a) + Len(b) + 1)
  BY <1>3
<1>5. PICK f \in [G -> Nat] :
         \A p \in G : p[1] + p[2] < Len(a) + Len(b) + 1 => f[p] = Cell(a, b, f, p)
  BY <1>4 DEF Filled
<1>6. ASSUME NEW p \in G
      PROVE  f[p] = Cell(a, b, f, p)
  <2>1. p[1] \in Nat /\ p[2] \in Nat /\ p[1] <= Len(a) /\ p[2] <= Len(b)
    BY DEF Grid
  <2> QED
    BY <1>5, <2>1
<1>7. f = [p \in G |-> Cell(a, b, f, p)]
  BY <1>6
<1> QED
  BY <1>7

\* So the table holds in every cell what the program computes for it, a number.
LEMMA TableTyped ==
  ASSUME NEW a, NEW b, Len(a) \in Nat, Len(b) \in Nat
  PROVE  /\ Tmp(a, b) \in [Grid(a, b) -> Nat]
         /\ \A p \in Grid(a, b) : Tmp(a, b)[p] = Cell(a, b, Tmp(a, b), p)
<1> DEFINE G == Grid(a, b)
           t == Tmp(a, b)
<1>1. t = [p \in G |-> Cell(a, b, t, p)]
  <2>1. \E f : f = [p \in Grid(a, b) |-> Cell(a, b, f, p)]
    BY TableExists
  <2> QED
    BY <2>1, TmpChosen
<1> HIDE DEF t
<1>2. PICK f \in [G -> Nat] : f = [p \in G |-> Cell(a, b, f, p)]
  BY TableExists
<1> DEFINE T == {k \in Nat : \A p \in G : p[1] + p[2] < k => t[p] = f[p]}
<1>3. 0 \in T
  BY DEF Grid
<1>4. ASSUME NEW k \in Nat, k \in T
      PROVE  k + 1 \in T
  <2> SUFFICES ASSUME NEW p \in G, p[1] + p[2] < k + 1
               PROVE  t[p] = f[p]
    OBVIOUS
  <2>1. p[1] \in Nat /\ p[2] \in Nat
    BY DEF Grid
  <2>2. \A q \in G : q[1] + q[2] < p[1] + p[2] => t[q] = f[q]
    <3> SUFFICES ASSUME NEW q \in G, q[1] + q[2] < p[1] + p[2]
                 PROVE  t[q] = f[q]
      OBVIOUS
    <3>1. q[1] \in Nat /\ q[2] \in Nat
      BY DEF Grid
    <3> QED
      BY <1>4, <2>1, <3>1, SMTT(60)
  <2>3. Cell(a, b, t, p) = Cell(a, b, f, p)
    BY <2>2, CellLooksBack
  <2>4. t[p] = Cell(a, b, t, p) /\ f[p] = Cell(a, b, f, p)
    BY <1>1, <1>2
  <2> QED
    BY <2>3, <2>4
<1>5. Nat \subseteq T
  BY <1>3, <1>4, Counting
<1>6. \A p \in G : t[p] = f[p]
  <2> SUFFICES ASSUME NEW p \in G
               PROVE  t[p] = f[p]
    OBVIOUS
  <2>1. p[1] + p[2] \in Nat /\ p[1] + p[2] + 1 \in Nat
    BY DEF Grid
  <2>2. p[1] + p[2] + 1 \in T
    BY <1>5, <2>1
  <2> QED
    BY <2>1, <2>2
<1>7. t = f
  BY <1>1, <1>2, <1>6
<1> QED
  BY <1>2, <1>7 DEF t

\* The distance of the first i letters of a from the first j of b.
Far(a, b, i, j) == Tmp(a, b)[<<i, j>>]

\* What is beside a cell.
FarStep(a, b, i, j) ==
  /\ Far(a, b, i, j) <= Far(a, b, i - 1, j) + 1
  /\ Far(a, b, i, j) <= Far(a, b, i, j - 1) + 1
  /\ Far(a, b, i, j) <= Far(a, b, i - 1, j - 1) + 1
  /\ a[i] = b[j] => Far(a, b, i, j) <= Far(a, b, i - 1, j - 1)
  /\ \/ Far(a, b, i, j) = Far(a, b, i - 1, j) + 1
     \/ Far(a, b, i, j) = Far(a, b, i, j - 1) + 1
     \/ Far(a, b, i, j) = Far(a, b, i - 1, j - 1) + 1
     \/ a[i] = b[j] /\ Far(a, b, i, j) = Far(a, b, i - 1, j - 1)

\* The first row and column are counted, the other cells follow from those beside them.
LEMMA FarFacts ==
  ASSUME NEW a, NEW b, Len(a) \in Nat, Len(b) \in Nat,
         NEW i \in 0 .. Len(a), NEW j \in 0 .. Len(b)
  PROVE  /\ Far(a, b, i, j) \in Nat
         /\ i = 0 => Far(a, b, i, j) = j
         /\ j = 0 => Far(a, b, i, j) = i
         /\ i # 0 /\ j # 0 => FarStep(a, b, i, j)
<1>1. <<i, j>> \in Grid(a, b)
  BY DEF Grid
<1>2. Far(a, b, i, j) = Cell(a, b, Tmp(a, b), <<i, j>>) /\ Far(a, b, i, j) \in Nat
  BY <1>1, TableTyped DEF Far
<1>3. i = 0 => Far(a, b, i, j) = j
  BY <1>2 DEF Cell
<1>4. j = 0 => Far(a, b, i, j) = i
  BY <1>2 DEF Cell
<1>5. ASSUME i # 0, j # 0
      PROVE  FarStep(a, b, i, j)
  <2>1. /\ <<i - 1, j>> \in Grid(a, b) /\ <<i, j - 1>> \in Grid(a, b)
        /\ <<i - 1, j - 1>> \in Grid(a, b)
    BY <1>5 DEF Grid
  <2>2. /\ Far(a, b, i - 1, j) \in Nat /\ Far(a, b, i, j - 1) \in Nat
        /\ Far(a, b, i - 1, j - 1) \in Nat
    BY <2>1, TableTyped DEF Far
  <2> DEFINE c == IF a[i] = b[j] THEN 0 ELSE 1
  <2>3. c \in {0, 1} /\ (c = 0 <=> a[i] = b[j])
    OBVIOUS
  <2>4. Far(a, b, i, j) = Least({Far(a, b, i - 1, j) + 1, Far(a, b, i, j - 1) + 1,
                                 Far(a, b, i - 1, j - 1) + c})
    BY <1>2, <1>5 DEF Cell, Far
  <2> HIDE DEF c
  <2>5. /\ Far(a, b, i - 1, j) + 1 \in Nat /\ Far(a, b, i, j - 1) + 1 \in Nat
        /\ Far(a, b, i - 1, j - 1) + c \in Nat
    BY <2>2, <2>3, SMTT(60)
  <2>6. /\ Far(a, b, i, j) <= Far(a, b, i - 1, j) + 1
        /\ Far(a, b, i, j) <= Far(a, b, i, j - 1) + 1
        /\ Far(a, b, i, j) <= Far(a, b, i - 1, j - 1) + c
        /\ Far(a, b, i, j) \in {Far(a, b, i - 1, j) + 1, Far(a, b, i, j - 1) + 1,
                                 Far(a, b, i - 1, j - 1) + c}
    BY <2>4, <2>5, LeastOfThree
  <2> QED
    BY <1>2, <2>2, <2>3, <2>6, SMTT(60) DEF FarStep
<1> QED
  BY <1>2, <1>3, <1>4, <1>5

\* A letter more is at most one edit more.
LEMMA FarGrows ==
  ASSUME NEW a, NEW b, Len(a) \in Nat, Len(b) \in Nat,
         NEW i \in 0 .. Len(a), NEW j \in 1 .. Len(b)
  PROVE  Far(a, b, i, j) <= Far(a, b, i, j - 1) + 1
<1>1. j \in 0 .. Len(b) /\ j - 1 \in 0 .. Len(b)
  OBVIOUS
<1>2. CASE i = 0
  <2>1. Far(a, b, i, j) = j /\ Far(a, b, i, j - 1) = j - 1
    BY <1>1, <1>2, FarFacts
  <2> QED
    BY <2>1
<1>3. CASE i # 0
  BY <1>1, <1>3, FarFacts DEF FarStep
<1> QED
  BY <1>2, <1>3

\* And at most one less.
LEMMA FarShrinks ==
  ASSUME NEW a, NEW b, Len(a) \in Nat, Len(b) \in Nat, NEW j \in 1 .. Len(b)
  PROVE  \A i \in 0 .. Len(a) : Far(a, b, i, j - 1) <= Far(a, b, i, j) + 1
<1> DEFINE Holds(i) == i \in 0 .. Len(a) => Far(a, b, i, j - 1) <= Far(a, b, i, j) + 1
           T == {i \in Nat : Holds(i)}
<1>0. j \in 0 .. Len(b) /\ j - 1 \in 0 .. Len(b) /\ j # 0
  OBVIOUS
<1>1. 0 \in T
  <2>1. 0 \in 0 .. Len(a)
    OBVIOUS
  <2>2. Far(a, b, 0, j) = j /\ Far(a, b, 0, j - 1) = j - 1
    BY <1>0, <2>1, FarFacts
  <2> QED
    BY <2>2
<1>2. ASSUME NEW n \in Nat, n \in T
      PROVE  n + 1 \in T
  <2> SUFFICES ASSUME n + 1 \in 0 .. Len(a)
               PROVE  Far(a, b, n + 1, j - 1) <= Far(a, b, n + 1, j) + 1
    OBVIOUS
  <2>1. n \in 0 .. Len(a) /\ n + 1 # 0 /\ (n + 1) - 1 = n
    OBVIOUS
  <2>2. Far(a, b, n, j - 1) <= Far(a, b, n, j) + 1
    BY <1>2, <2>1
  <2>3. /\ Far(a, b, n, j) \in Nat /\ Far(a, b, n, j - 1) \in Nat
        /\ Far(a, b, n + 1, j) \in Nat /\ Far(a, b, n + 1, j - 1) \in Nat
    BY <1>0, <2>1, FarFacts
  <2>4. FarStep(a, b, n + 1, j)
    BY <1>0, <2>1, FarFacts
  <2>5. Far(a, b, n + 1, j - 1) <= Far(a, b, n, j - 1) + 1
    <3>1. CASE j - 1 = 0
      <4>1. Far(a, b, n + 1, j - 1) = n + 1 /\ Far(a, b, n, j - 1) = n
        BY <1>0, <2>1, <3>1, FarFacts
      <4> QED
        BY <4>1
    <3>2. CASE j - 1 # 0
      <4>1. FarStep(a, b, n + 1, j - 1)
        BY <1>0, <2>1, <3>2, FarFacts
      <4> QED
        BY <2>1, <4>1 DEF FarStep
    <3> QED
      BY <3>1, <3>2
  <2> QED
    BY <2>1, <2>2, <2>3, <2>4, <2>5 DEF FarStep
<1>3. Nat \subseteq T
  BY <1>1, <1>2, Counting
<1> QED
  BY <1>3

\* Two words that end in the same n letters differ no more than where the ends begin.
Follows(a, s, t, d, e, c, n) ==
  /\ d + n <= Len(t) /\ e + n <= Len(s)
  /\ \A m \in 1 .. n : t[d + m] = s[e + m]
  /\ \A i \in 0 .. Len(a) : Far(a, t, i, d) <= Far(a, s, i, e) + c

LEMMA FarFollows ==
  ASSUME NEW a, NEW s, NEW t, Len(a) \in Nat, Len(s) \in Nat, Len(t) \in Nat,
         NEW d \in Nat, NEW e \in Nat, NEW c \in Nat, NEW n \in Nat,
         Follows(a, s, t, d, e, c, n)
  PROVE  \A i \in 0 .. Len(a) : \A m \in 0 .. n :
           Far(a, t, i, d + m) <= Far(a, s, i, e + m) + c
<1> DEFINE Holds(i, m) == Far(a, t, i, d + m) <= Far(a, s, i, e + m) + c
           T == {k \in Nat : \A i \in 0 .. Len(a) : \A m \in 0 .. n : i + m < k => Holds(i, m)}
<1>1. 0 \in T
  OBVIOUS
<1>2. ASSUME NEW k \in Nat, k \in T
      PROVE  k + 1 \in T
  <2> SUFFICES ASSUME NEW i \in 0 .. Len(a), NEW m \in 0 .. n, i + m < k + 1
               PROVE  Holds(i, m)
    OBVIOUS
  <2>1. d + m \in 0 .. Len(t) /\ e + m \in 0 .. Len(s) /\ d \in 0 .. Len(t) /\ e \in 0 .. Len(s)
    BY DEF Follows
  <2>2. CASE m = 0
    BY <2>2 DEF Follows
  <2>3. CASE i = 0
    <3>1. Far(a, t, 0, d) <= Far(a, s, 0, e) + c
      BY <2>3 DEF Follows
    <3>2. Far(a, t, 0, d) = d /\ Far(a, s, 0, e) = e
      BY <2>1, <2>3, FarFacts
    <3>3. Far(a, t, 0, d + m) = d + m /\ Far(a, s, 0, e + m) = e + m
      BY <2>1, <2>3, FarFacts
    <3> QED
      BY <2>3, <3>1, <3>2, <3>3
  <2>4. CASE i # 0 /\ m # 0
    <3> DEFINE y == d + m
               x == e + m
    <3>1. /\ i - 1 \in 0 .. Len(a) /\ m - 1 \in 0 .. n
          /\ y - 1 \in 0 .. Len(t) /\ x - 1 \in 0 .. Len(s)
          /\ y \in 0 .. Len(t) /\ x \in 0 .. Len(s)
          /\ d + (m - 1) = y - 1 /\ e + (m - 1) = x - 1
          /\ y # 0 /\ x # 0
      BY <2>1, <2>4
    <3>2. (i - 1) + m < k /\ i + (m - 1) < k /\ (i - 1) + (m - 1) < k
      BY <2>4
    <3>3. Holds(i - 1, m) /\ Holds(i, m - 1) /\ Holds(i - 1, m - 1)
      <4> HIDE DEF Holds
      <4>1. \A i2 \in 0 .. Len(a) : \A m2 \in 0 .. n : i2 + m2 < k => Holds(i2, m2)
        BY <1>2
      <4> QED
        BY <3>1, <3>2, <4>1
    <3>4. /\ Far(a, t, i - 1, y) <= Far(a, s, i - 1, x) + c
          /\ Far(a, t, i, y - 1) <= Far(a, s, i, x - 1) + c
          /\ Far(a, t, i - 1, y - 1) <= Far(a, s, i - 1, x - 1) + c
      BY <3>1, <3>3
    <3>5. t[y] = s[x]
      BY <2>4 DEF Follows
    <3> HIDE DEF x, y
    <3>6. FarStep(a, t, i, y) /\ FarStep(a, s, i, x)
      BY <2>4, <3>1, FarFacts
    <3>7. /\ Far(a, t, i - 1, y) \in Nat /\ Far(a, s, i - 1, x) \in Nat
          /\ Far(a, t, i, y - 1) \in Nat /\ Far(a, s, i, x - 1) \in Nat
          /\ Far(a, t, i - 1, y - 1) \in Nat /\ Far(a, s, i - 1, x - 1) \in Nat
          /\ Far(a, t, i, y) \in Nat /\ Far(a, s, i, x) \in Nat
      BY <3>1, FarFacts
    <3>8. Far(a, t, i, y) <= Far(a, s, i, x) + c
      <4>1. CASE Far(a, s, i, x) = Far(a, s, i - 1, x) + 1
        <5>1. Far(a, t, i, y) <= Far(a, t, i - 1, y) + 1
          BY <3>6 DEF FarStep
        <5> QED
          <6>1. Far(a, t, i - 1, y) <= Far(a, s, i - 1, x) + c
            BY <3>4
          <6>2. Far(a, t, i - 1, y) \in Nat /\ Far(a, s, i - 1, x) \in Nat
            BY <3>7
          <6>3. Far(a, t, i, y) \in Nat /\ Far(a, s, i, x) \in Nat
            BY <3>7
          <6> QED
            BY <4>1, <5>1, <6>1, <6>2, <6>3, SMTT(30)
      <4>2. CASE Far(a, s, i, x) = Far(a, s, i, x - 1) + 1
        <5>1. Far(a, t, i, y) <= Far(a, t, i, y - 1) + 1
          BY <3>6 DEF FarStep
        <5> QED
          <6>1. Far(a, t, i, y - 1) <= Far(a, s, i, x - 1) + c
            BY <3>4
          <6>2. Far(a, t, i, y - 1) \in Nat /\ Far(a, s, i, x - 1) \in Nat
            BY <3>7
          <6>3. Far(a, t, i, y) \in Nat /\ Far(a, s, i, x) \in Nat
            BY <3>7
          <6> QED
            BY <4>2, <5>1, <6>1, <6>2, <6>3, SMTT(30)
      <4>3. CASE Far(a, s, i, x) = Far(a, s, i - 1, x - 1) + 1
        <5>1. Far(a, t, i, y) <= Far(a, t, i - 1, y - 1) + 1
          BY <3>6 DEF FarStep
        <5> QED
          <6>1. Far(a, t, i - 1, y - 1) <= Far(a, s, i - 1, x - 1) + c
            BY <3>4
          <6>2. Far(a, t, i - 1, y - 1) \in Nat /\ Far(a, s, i - 1, x - 1) \in Nat
            BY <3>7
          <6>3. Far(a, t, i, y) \in Nat /\ Far(a, s, i, x) \in Nat
            BY <3>7
          <6> QED
            BY <4>3, <5>1, <6>1, <6>2, <6>3, SMTT(30)
      <4>4. CASE a[i] = s[x] /\ Far(a, s, i, x) = Far(a, s, i - 1, x - 1)
        <5>1. Far(a, t, i, y) <= Far(a, t, i - 1, y - 1)
          BY <3>5, <3>6, <4>4 DEF FarStep
        <5> QED
          <6>1. Far(a, t, i - 1, y - 1) <= Far(a, s, i - 1, x - 1) + c
            BY <3>4
          <6>2. Far(a, t, i - 1, y - 1) \in Nat /\ Far(a, s, i - 1, x - 1) \in Nat
            BY <3>7
          <6>3. Far(a, t, i, y) \in Nat /\ Far(a, s, i, x) \in Nat
            BY <3>7
          <6> QED
            BY <4>4, <5>1, <6>1, <6>2, <6>3, SMTT(30)
      <4> QED
        BY <3>6, <4>1, <4>2, <4>3, <4>4 DEF FarStep
    <3> QED
      BY <3>8 DEF x, y
  <2> QED
    BY <2>2, <2>3, <2>4
<1>3. Nat \subseteq T
  BY <1>1, <1>2, Counting
<1> SUFFICES ASSUME NEW i \in 0 .. Len(a), NEW m \in 0 .. n
             PROVE  Holds(i, m)
  OBVIOUS
<1>4. i + m + 1 \in Nat /\ i + m < i + m + 1
  OBVIOUS
<1>5. i + m + 1 \in T
  BY <1>3, <1>4
<1> HIDE DEF Holds
<1> QED
  BY <1>4, <1>5

\* Words that begin alike are equally far while they are alike.
LEMMA FarAlike ==
  ASSUME NEW a, NEW s, NEW t, Len(a) \in Nat, Len(s) \in Nat, Len(t) \in Nat,
         NEW n \in Nat, n <= Len(s), n <= Len(t), \A m \in 1 .. n : t[m] = s[m]
  PROVE  \A i \in 0 .. Len(a) : \A m \in 0 .. n : Far(a, t, i, m) <= Far(a, s, i, m)
<1>1. Follows(a, s, t, 0, 0, 0, n)
  <2>1. ASSUME NEW i \in 0 .. Len(a)
        PROVE  Far(a, t, i, 0) <= Far(a, s, i, 0) + 0
    <3>1. 0 \in 0 .. Len(t) /\ 0 \in 0 .. Len(s)
      OBVIOUS
    <3>2. Far(a, t, i, 0) = i /\ Far(a, s, i, 0) = i
      BY <3>1, FarFacts
    <3> QED
      BY <3>2
  <2> QED
    BY <2>1 DEF Follows
<1>2. \A i \in 0 .. Len(a) : \A m \in 0 .. n : Far(a, t, i, 0 + m) <= Far(a, s, i, 0 + m) + 0
  BY <1>1, FarFollows
<1> SUFFICES ASSUME NEW i \in 0 .. Len(a), NEW m \in 0 .. n
             PROVE  Far(a, t, i, m) <= Far(a, s, i, m)
  OBVIOUS
<1>3. Far(a, s, i, m) \in Nat /\ 0 + m = m
  BY FarFacts, SMTT(60)
<1> QED
  BY <1>2, <1>3

(***************************************************************************)
(* Edits change the distance by one                                        *)
(***************************************************************************)
\* Intervals that begin and are alike end alike.
LEMMA SameEnd ==
  ASSUME NEW m \in Nat, NEW n \in Nat, 1 .. m = 1 .. n
  PROVE  m = n
<1>1. m # 0 => m \in 1 .. n
  OBVIOUS
<1>2. n # 0 => n \in 1 .. m
  OBVIOUS
<1> QED
  BY <1>1, <1>2

\* A word is a sequence of letters, not too long.
LEMMA WordFacts ==
  ASSUME NEW w \in Words
  PROVE  /\ Len(w) \in Nat /\ Len(w) <= MaxWord
         /\ DOMAIN w = 1 .. Len(w) /\ w \in [1 .. Len(w) -> Letters]
<1>1. PICK n \in 0 .. MaxWord : w \in [1 .. n -> Letters]
  BY DEF Words
<1>2. n \in Nat /\ n <= MaxWord
  BY SearchAssumption
<1>3. w \in Seq(Letters)
  BY <1>1, <1>2, SeqDef
<1>4. Len(w) \in Nat /\ DOMAIN w = 1 .. Len(w)
  BY <1>3, LenProperties
<1>5. DOMAIN w = 1 .. n
  BY <1>1
<1>6. Len(w) = n
  BY <1>2, <1>4, <1>5, SameEnd
<1> QED
  BY <1>1, <1>2, <1>4, <1>6

\* The letters of a word without one of them.
LEMMA WithoutFacts ==
  ASSUME NEW s \in Words, NEW t \in Words, NEW p \in DOMAIN s, t = Without(s, p)
  PROVE  /\ p \in 1 .. Len(s) /\ Len(t) = Len(s) - 1
         /\ \A m \in 1 .. p - 1 : t[m] = s[m]
         /\ \A m \in 1 .. Len(s) - p : t[(p - 1) + m] = s[p + m]
<1>1. /\ Len(s) \in Nat /\ DOMAIN s = 1 .. Len(s)
      /\ Len(t) \in Nat /\ DOMAIN t = 1 .. Len(t)
  BY WordFacts
<1>2. DOMAIN t = 1 .. Len(s) - 1
  BY DEF Without
<1>3. p \in 1 .. Len(s) /\ Len(s) - 1 \in Nat
  BY <1>1, SMTT(60)
<1>4. Len(t) = Len(s) - 1
  BY <1>1, <1>2, <1>3, SameEnd
<1>5. ASSUME NEW j \in 1 .. Len(s) - 1
      PROVE  t[j] = s[IF j < p THEN j ELSE j + 1]
  BY DEF Without
<1>6. ASSUME NEW m \in 1 .. p - 1
      PROVE  t[m] = s[m]
  BY <1>1, <1>3, <1>5
<1>7. ASSUME NEW m \in 1 .. Len(s) - p
      PROVE  t[(p - 1) + m] = s[p + m]
  <2>1. /\ (p - 1) + m \in 1 .. Len(s) - 1 /\ ~ (p - 1) + m < p
        /\ ((p - 1) + m) + 1 = p + m
    BY <1>1, <1>3
  <2>2. t[(p - 1) + m] = s[((p - 1) + m) + 1]
    BY <1>5, <2>1
  <2> QED
    BY <2>1, <2>2
<1> QED
  BY <1>3, <1>4, <1>6, <1>7

\* Without a letter, a word is one nearer or farther at most: up to the letter the rows
\* are the same, behind it they follow from there.
LEMMA RemovalIsOne ==
  ASSUME NEW a \in Words, NEW s \in Words, NEW t \in Words, NEW p \in DOMAIN s,
         t = Without(s, p), NEW i \in 0 .. Len(a)
  PROVE  /\ Far(a, t, i, Len(t)) <= Far(a, s, i, Len(s)) + 1
         /\ Far(a, s, i, Len(s)) <= Far(a, t, i, Len(t)) + 1
<1>1. Len(a) \in Nat /\ Len(s) \in Nat /\ Len(t) \in Nat
  BY WordFacts
<1>2. /\ p \in 1 .. Len(s) /\ Len(t) = Len(s) - 1
      /\ \A m \in 1 .. p - 1 : t[m] = s[m]
      /\ \A m \in 1 .. Len(s) - p : t[(p - 1) + m] = s[p + m]
  BY WithoutFacts
<1> DEFINE n == Len(s) - p
<1>3. /\ n \in Nat /\ p \in Nat /\ p - 1 \in Nat /\ p - 1 <= Len(s) /\ p - 1 <= Len(t)
      /\ (p - 1) + n = Len(t) /\ p + n = Len(s) /\ p \in 0 .. Len(s)
      /\ p - 1 \in 0 .. p - 1 /\ p - 1 \in 0 .. Len(t) /\ p - 1 \in 0 .. Len(s)
      /\ n \in 0 .. n
  BY <1>1, <1>2, SMTT(60)
<1>4. \A k \in 0 .. Len(a) : Far(a, t, k, p - 1) <= Far(a, s, k, p - 1)
  BY <1>1, <1>2, <1>3, FarAlike
<1>5. \A k \in 0 .. Len(a) : Far(a, s, k, p - 1) <= Far(a, t, k, p - 1)
  BY <1>1, <1>2, <1>3, FarAlike
<1>6. \A k \in 0 .. Len(a) : /\ Far(a, s, k, p - 1) \in Nat /\ Far(a, t, k, p - 1) \in Nat
                             /\ Far(a, s, k, p) \in Nat
  BY <1>1, <1>3, FarFacts
<1>7. ASSUME NEW k \in 0 .. Len(a)
      PROVE  /\ Far(a, t, k, p - 1) <= Far(a, s, k, p) + 1
             /\ Far(a, s, k, p) <= Far(a, t, k, p - 1) + 1
  <2>1. Far(a, s, k, p) <= Far(a, s, k, p - 1) + 1
    BY <1>1, <1>2, FarGrows
  <2>2. Far(a, s, k, p - 1) <= Far(a, s, k, p) + 1
    BY <1>1, <1>2, FarShrinks
  <2> QED
    BY <1>4, <1>5, <1>6, <2>1, <2>2
<1>8. Follows(a, s, t, p - 1, p, 1, n)
  <2>1. \A m \in 1 .. n : t[(p - 1) + m] = s[p + m]
    BY <1>2
  <2>2. \A k \in 0 .. Len(a) : Far(a, t, k, p - 1) <= Far(a, s, k, p) + 1
    BY <1>7
  <2>3. (p - 1) + n <= Len(t) /\ p + n <= Len(s)
    BY <1>1, <1>3, SMTT(60)
  <2> HIDE DEF n
  <2> QED
    BY <2>1, <2>2, <2>3 DEF Follows
<1>9. Follows(a, t, s, p, p - 1, 1, n)
  <2>1. \A m \in 1 .. n : s[p + m] = t[(p - 1) + m]
    BY <1>2
  <2>2. \A k \in 0 .. Len(a) : Far(a, s, k, p) <= Far(a, t, k, p - 1) + 1
    BY <1>7
  <2>3. (p - 1) + n <= Len(t) /\ p + n <= Len(s)
    BY <1>1, <1>3, SMTT(60)
  <2> HIDE DEF n
  <2> QED
    BY <2>1, <2>2, <2>3 DEF Follows
<1> HIDE DEF n
<1>10. Far(a, t, i, (p - 1) + n) <= Far(a, s, i, p + n) + 1
  BY <1>1, <1>3, <1>8, FarFollows
<1>11. Far(a, s, i, p + n) <= Far(a, t, i, (p - 1) + n) + 1
  BY <1>1, <1>3, <1>9, FarFollows
<1> QED
  BY <1>3, <1>10, <1>11

\* With another letter in its place, too.
LEMMA ReplacementIsOne ==
  ASSUME NEW a \in Words, NEW s \in Words, NEW t \in Words, Len(s) = Len(t),
         NEW p \in DOMAIN s, \A j \in DOMAIN s \ {p} : s[j] = t[j], NEW i \in 0 .. Len(a)
  PROVE  Far(a, t, i, Len(t)) <= Far(a, s, i, Len(s)) + 1
<1>1. Len(a) \in Nat /\ Len(s) \in Nat /\ Len(t) \in Nat /\ DOMAIN s = 1 .. Len(s)
  BY WordFacts
<1> DEFINE n == Len(s) - p
<1>2. /\ n \in Nat /\ p \in Nat /\ p - 1 \in Nat /\ p - 1 <= Len(s) /\ p - 1 <= Len(t)
      /\ p + n = Len(t) /\ p + n = Len(s) /\ p \in 0 .. Len(s) /\ p \in 0 .. Len(t)
      /\ p - 1 \in 0 .. p - 1 /\ p - 1 \in 0 .. Len(t) /\ p - 1 \in 0 .. Len(s)
      /\ n \in 0 .. n /\ p \in 1 .. Len(s) /\ p \in 1 .. Len(t) /\ p # 0
  BY <1>1
<1>3. \A m \in 1 .. p - 1 : t[m] = s[m]
  BY <1>1, <1>2
<1>4. \A k \in 0 .. Len(a) : Far(a, t, k, p - 1) <= Far(a, s, k, p - 1)
  BY <1>1, <1>2, <1>3, FarAlike
<1> DEFINE Holds(k) == k \in 0 .. Len(a) => Far(a, t, k, p) <= Far(a, s, k, p) + 1
           T == {k \in Nat : Holds(k)}
<1>5. 0 \in T
  <2>1. 0 \in 0 .. Len(a)
    BY <1>1
  <2>2. Far(a, t, 0, p) = p /\ Far(a, s, 0, p) = p
    BY <1>1, <1>2, <2>1, FarFacts
  <2> QED
    BY <1>2, <2>2
<1>6. ASSUME NEW k \in Nat, k \in T
      PROVE  k + 1 \in T
  <2> SUFFICES ASSUME k + 1 \in 0 .. Len(a)
               PROVE  Far(a, t, k + 1, p) <= Far(a, s, k + 1, p) + 1
    OBVIOUS
  <2>1. k \in 0 .. Len(a) /\ (k + 1) - 1 = k /\ k + 1 # 0
    BY <1>1
  <2>2. Far(a, t, k, p) <= Far(a, s, k, p) + 1
    BY <1>6, <2>1
  <2>3. FarStep(a, t, k + 1, p) /\ FarStep(a, s, k + 1, p)
    BY <1>1, <1>2, <2>1, FarFacts
  <2>4. /\ Far(a, t, k, p - 1) <= Far(a, s, k, p - 1)
        /\ Far(a, t, k + 1, p - 1) <= Far(a, s, k + 1, p - 1)
    BY <1>4, <2>1
  <2>5. /\ Far(a, t, k, p - 1) \in Nat /\ Far(a, s, k, p - 1) \in Nat
        /\ Far(a, t, k + 1, p - 1) \in Nat /\ Far(a, s, k + 1, p - 1) \in Nat
        /\ Far(a, t, k, p) \in Nat /\ Far(a, s, k, p) \in Nat
    BY <1>1, <1>2, <2>1, FarFacts
  <2>6. Far(a, t, k + 1, p) \in Nat /\ Far(a, s, k + 1, p) \in Nat
    BY <1>1, <1>2, <2>1, FarFacts
  <2>7. /\ Far(a, t, k + 1, p) <= Far(a, t, k, p) + 1
        /\ Far(a, t, k + 1, p) <= Far(a, t, k + 1, p - 1) + 1
        /\ Far(a, t, k + 1, p) <= Far(a, t, k, p - 1) + 1
    BY <2>1, <2>3 DEF FarStep
  <2>8. \/ Far(a, s, k + 1, p) = Far(a, s, k, p) + 1
        \/ Far(a, s, k + 1, p) = Far(a, s, k + 1, p - 1) + 1
        \/ Far(a, s, k + 1, p) = Far(a, s, k, p - 1) + 1
        \/ Far(a, s, k + 1, p) = Far(a, s, k, p - 1)
    BY <2>1, <2>3 DEF FarStep
  <2>9. CASE Far(a, s, k + 1, p) = Far(a, s, k, p) + 1
    <3>1. Far(a, t, k + 1, p) <= Far(a, t, k, p) + 1
      BY <2>7
    <3>2. Far(a, t, k, p) <= Far(a, s, k, p) + 1
      BY <2>2, <2>4
    <3>3. Far(a, t, k, p) \in Nat /\ Far(a, s, k, p) \in Nat
      BY <2>5
    <3> QED
      BY <2>6, <2>9, <3>1, <3>2, <3>3
  <2>10. CASE Far(a, s, k + 1, p) = Far(a, s, k + 1, p - 1) + 1
    <3>1. Far(a, t, k + 1, p) <= Far(a, t, k + 1, p - 1) + 1
      BY <2>7
    <3>2. Far(a, t, k + 1, p - 1) <= Far(a, s, k + 1, p - 1)
      BY <2>2, <2>4
    <3>3. Far(a, t, k + 1, p - 1) \in Nat /\ Far(a, s, k + 1, p - 1) \in Nat
      BY <2>5
    <3> QED
      BY <2>6, <2>10, <3>1, <3>2, <3>3
  <2>11. CASE \/ Far(a, s, k + 1, p) = Far(a, s, k, p - 1) + 1
              \/ Far(a, s, k + 1, p) = Far(a, s, k, p - 1)
    <3>1. Far(a, t, k + 1, p) <= Far(a, t, k, p - 1) + 1
      BY <2>7
    <3>2. Far(a, t, k, p - 1) <= Far(a, s, k, p - 1)
      BY <2>2, <2>4
    <3>3. Far(a, t, k, p - 1) \in Nat /\ Far(a, s, k, p - 1) \in Nat
      BY <2>5
    <3> QED
      BY <2>6, <2>11, <3>1, <3>2, <3>3
  <2> QED
    BY <2>8, <2>9, <2>10, <2>11
<1>7. Nat \subseteq T
  BY <1>5, <1>6, Counting
<1>8. \A k \in 0 .. Len(a) : Far(a, t, k, p) <= Far(a, s, k, p) + 1
  BY <1>1, <1>7
<1>9. Follows(a, s, t, p, p, 1, n)
  <2>1. \A m \in 1 .. n : t[p + m] = s[p + m]
    BY <1>1, <1>2
  <2>2. p + n <= Len(t) /\ p + n <= Len(s)
    BY <1>1, <1>2
  <2> HIDE DEF n
  <2> QED
    BY <1>8, <2>1, <2>2 DEF Follows
<1> HIDE DEF n, T, Holds
<1>10. Far(a, t, i, p + n) <= Far(a, s, i, p + n) + 1
  BY <1>1, <1>2, <1>9, FarFollows
<1> QED
  BY <1>2, <1>10

\* A word edited once is one farther at most, from any other.
LEMMA EditIsOne ==
  ASSUME NEW a \in Words, NEW s \in Words, NEW t \in Words, OneEdit(s, t)
  PROVE  GetLevenshteinDistance(a, t) <= GetLevenshteinDistance(a, s) + 1
<1>1. Len(a) \in 0 .. Len(a) /\ GetLevenshteinDistance(a, t) = Far(a, t, Len(a), Len(t))
      /\ GetLevenshteinDistance(a, s) = Far(a, s, Len(a), Len(s))
  BY WordFacts DEF GetLevenshteinDistance, Far
<1>2. CASE \E p \in DOMAIN s : t = Without(s, p)
  BY <1>1, <1>2, RemovalIsOne
<1>3. CASE \E p \in DOMAIN t : s = Without(t, p)
  BY <1>1, <1>3, RemovalIsOne
<1>4. CASE DOMAIN s = DOMAIN t /\ \E p \in DOMAIN s : \A j \in DOMAIN s \ {p} : s[j] = t[j]
  <2>1. Len(s) = Len(t)
    BY <1>4, WordFacts
  <2> QED
    BY <1>1, <1>4, <2>1, ReplacementIsOne
<1> QED
  BY <1>2, <1>3, <1>4 DEF OneEdit

\* A word is no edit from itself: the diagonal of its table is 0.
LEMMA NoEditIsNone ==
  ASSUME NEW a \in Words
  PROVE  GetLevenshteinDistance(a, a) = 0
<1>1. Len(a) \in Nat
  BY WordFacts
<1> DEFINE Holds(k) == k \in 0 .. Len(a) => Far(a, a, k, k) = 0
           T == {k \in Nat : Holds(k)}
<1>2. 0 \in T
  BY <1>1, FarFacts
<1>3. ASSUME NEW k \in Nat, k \in T
      PROVE  k + 1 \in T
  <2> SUFFICES ASSUME k + 1 \in 0 .. Len(a)
               PROVE  Far(a, a, k + 1, k + 1) = 0
    OBVIOUS
  <2>1. k \in 0 .. Len(a) /\ (k + 1) - 1 = k /\ k + 1 # 0
    BY <1>1
  <2>2. Far(a, a, k, k) = 0
    BY <1>3, <2>1
  <2>3. FarStep(a, a, k + 1, k + 1) /\ Far(a, a, k + 1, k + 1) \in Nat
    BY <1>1, <2>1, FarFacts
  <2>4. Far(a, a, k + 1, k + 1) <= Far(a, a, k, k)
    BY <2>1, <2>3 DEF FarStep
  <2> QED
    BY <2>2, <2>3, <2>4
<1>4. Nat \subseteq T
  BY <1>2, <1>3, Counting
<1>5. Far(a, a, Len(a), Len(a)) = 0
  BY <1>1, <1>4
<1> QED
  BY <1>5 DEF GetLevenshteinDistance, Far

(***************************************************************************)
(* As few edits as the distance suffice                                    *)
(***************************************************************************)
\* Words, as sequences.
LEMMA WordIsSeq ==
  ASSUME NEW w
  PROVE  w \in Words <=> w \in Seq(Letters) /\ Len(w) <= MaxWord
<1>1. ASSUME w \in Words
      PROVE  w \in Seq(Letters) /\ Len(w) <= MaxWord
  BY <1>1, WordFacts, SeqDef
<1>2. ASSUME w \in Seq(Letters), Len(w) <= MaxWord
      PROVE  w \in Words
  <2>1. Len(w) \in 0 .. MaxWord /\ w \in [1 .. Len(w) -> Letters]
    BY <1>2, SearchAssumption, LenProperties
  <2> QED
    BY <2>1 DEF Words
<1> QED
  BY <1>1, <1>2

\* A sequence without one of its letters.
LEMMA WithoutIs ==
  ASSUME NEW s \in Seq(Letters), NEW p \in 1 .. Len(s)
  PROVE  /\ Without(s, p) \in Seq(Letters) /\ Len(Without(s, p)) = Len(s) - 1
         /\ \A j \in 1 .. Len(s) - 1 : Without(s, p)[j] = s[IF j < p THEN j ELSE j + 1]
<1>1. Len(s) \in Nat /\ s \in [1 .. Len(s) -> Letters]
  BY LenProperties
<1>2. ASSUME NEW j \in 1 .. Len(s) - 1
      PROVE  /\ (IF j < p THEN j ELSE j + 1) \in 1 .. Len(s)
             /\ Without(s, p)[j] = s[IF j < p THEN j ELSE j + 1]
  <2>1. (IF j < p THEN j ELSE j + 1) \in 1 .. Len(s)
    BY <1>1
  <2> QED
    BY <2>1 DEF Without
<1>3. Without(s, p) \in [1 .. Len(s) - 1 -> Letters]
  BY <1>1, <1>2 DEF Without
<1>4. Len(s) - 1 \in Nat
  BY <1>1
<1>5. Without(s, p) \in Seq(Letters)
  BY <1>3, <1>4, SeqDef
<1>6. 1 .. Len(Without(s, p)) = 1 .. Len(s) - 1 /\ Len(Without(s, p)) \in Nat
  BY <1>3, <1>5, LenProperties
<1>7. Len(Without(s, p)) = Len(s) - 1
  BY <1>4, <1>6, SameEnd
<1> QED
  BY <1>2, <1>5, <1>7

\* An edit is one with the same letter written after both words, too.
LEMMA RemovalWithMore ==
  ASSUME NEW s \in Seq(Letters), NEW x \in Letters, NEW p \in 1 .. Len(s)
  PROVE  Append(Without(s, p), x) = Without(Append(s, x), p) /\ p \in DOMAIN Append(s, x)
<1> DEFINE t == Without(s, p)
           s2 == Append(s, x)
           t2 == Append(t, x)
           u == Without(s2, p)
<1>1. Len(s) \in Nat
  BY LenProperties
<1>2. /\ t \in Seq(Letters) /\ Len(t) = Len(s) - 1
      /\ \A j \in 1 .. Len(s) - 1 : t[j] = s[IF j < p THEN j ELSE j + 1]
  BY WithoutIs
<1>3. /\ s2 \in Seq(Letters) /\ Len(s2) = Len(s) + 1
      /\ \A j \in 1 .. Len(s) : s2[j] = s[j]
      /\ s2[Len(s) + 1] = x
  BY AppendProperties
<1> HIDE DEF t, s2
<1>4. /\ t2 \in Seq(Letters) /\ Len(t2) = Len(s)
      /\ \A j \in 1 .. Len(s) - 1 : t2[j] = t[j]
      /\ t2[Len(s)] = x
  <2>1. /\ t2 \in Seq(Letters) /\ Len(t2) = Len(t) + 1
        /\ \A j \in 1 .. Len(t) : t2[j] = t[j]
        /\ t2[Len(t) + 1] = x
    BY <1>2, AppendProperties
  <2>2. Len(t) + 1 = Len(s)
    BY <1>1, <1>2
  <2> QED
    BY <1>2, <2>1, <2>2
<1>5. p \in 1 .. Len(s2)
  BY <1>1, <1>3
<1>6. /\ u \in Seq(Letters) /\ Len(u) = Len(s)
      /\ \A j \in 1 .. Len(s) : u[j] = s2[IF j < p THEN j ELSE j + 1]
  <2>1. /\ u \in Seq(Letters) /\ Len(u) = Len(s2) - 1
        /\ \A j \in 1 .. Len(s2) - 1 : u[j] = s2[IF j < p THEN j ELSE j + 1]
    BY <1>3, <1>5, WithoutIs
  <2>2. Len(s2) - 1 = Len(s)
    BY <1>1, <1>3
  <2> QED
    BY <2>1, <2>2
<1> HIDE DEF u, t2
<1>7. ASSUME NEW j \in 1 .. Len(s)
      PROVE  t2[j] = u[j]
  <2>1. CASE j = Len(s)
    <3>1. ~ j < p /\ j + 1 = Len(s) + 1
      BY <1>1, <2>1
    <3>2. u[j] = s2[j + 1]
      BY <1>6, <3>1
    <3> QED
      BY <1>3, <1>4, <2>1, <3>1, <3>2
  <2>2. CASE j # Len(s)
    <3>1. j \in 1 .. Len(s) - 1 /\ (IF j < p THEN j ELSE j + 1) \in 1 .. Len(s)
      BY <1>1, <2>2
    <3>2. t2[j] = s[IF j < p THEN j ELSE j + 1]
      BY <1>2, <1>4, <3>1
    <3>3. u[j] = s[IF j < p THEN j ELSE j + 1]
      BY <1>3, <1>6, <3>1
    <3> QED
      BY <3>2, <3>3
  <2> QED
    BY <2>1, <2>2
<1>8. t2 = u
  BY <1>4, <1>6, <1>7, SeqEqual
<1>9. p \in DOMAIN s2
  BY <1>3, <1>5, LenProperties
<1> QED
  BY <1>8, <1>9 DEF t2, t, u, s2

LEMMA EditWithMore ==
  ASSUME NEW s \in Seq(Letters), NEW t \in Seq(Letters), NEW x \in Letters, OneEdit(s, t)
  PROVE  OneEdit(Append(s, x), Append(t, x))
<1>1. /\ Len(s) \in Nat /\ DOMAIN s = 1 .. Len(s)
      /\ Len(t) \in Nat /\ DOMAIN t = 1 .. Len(t)
  BY LenProperties
<1>2. CASE \E p \in DOMAIN s : t = Without(s, p)
  BY <1>1, <1>2, RemovalWithMore, ZenonT(60) DEF OneEdit
<1>3. CASE \E p \in DOMAIN t : s = Without(t, p)
  BY <1>1, <1>3, RemovalWithMore, ZenonT(60) DEF OneEdit
<1>4. CASE DOMAIN s = DOMAIN t /\ \E p \in DOMAIN s : \A j \in DOMAIN s \ {p} : s[j] = t[j]
  <2>1. Len(s) = Len(t)
    BY <1>1, <1>4, SameEnd
  <2>2. PICK p \in DOMAIN s : \A j \in DOMAIN s \ {p} : s[j] = t[j]
    BY <1>4
  <2>3. /\ Append(s, x) \in Seq(Letters) /\ Len(Append(s, x)) = Len(s) + 1
        /\ \A j \in 1 .. Len(s) : Append(s, x)[j] = s[j]
        /\ Append(s, x)[Len(s) + 1] = x
    BY AppendProperties
  <2>4. /\ Append(t, x) \in Seq(Letters) /\ Len(Append(t, x)) = Len(s) + 1
        /\ \A j \in 1 .. Len(s) : Append(t, x)[j] = t[j]
        /\ Append(t, x)[Len(s) + 1] = x
    BY <2>1, AppendProperties
  <2>5. DOMAIN Append(s, x) = 1 .. Len(s) + 1 /\ DOMAIN Append(t, x) = 1 .. Len(s) + 1
    BY <2>3, <2>4, LenProperties
  <2>6. ASSUME NEW j \in 1 .. Len(s) + 1, j # p
        PROVE  Append(s, x)[j] = Append(t, x)[j]
    <3>1. CASE j = Len(s) + 1
      BY <2>3, <2>4, <3>1
    <3>2. CASE j # Len(s) + 1
      <4>1. j \in 1 .. Len(s)
        BY <1>1, <3>2
      <4>2. s[j] = t[j]
        BY <1>1, <2>2, <2>6, <4>1
      <4> QED
        BY <2>3, <2>4, <4>1, <4>2
    <3> QED
      BY <3>1, <3>2
  <2>7. p \in DOMAIN Append(s, x)
    BY <1>1, <2>5
  <2> QED
    BY <2>5, <2>6, <2>7 DEF OneEdit
<1> QED
  BY <1>2, <1>3, <1>4 DEF OneEdit

\* Writing a letter, erasing it, and writing another one, at the end.
LEMMA EditsAtTheEnd ==
  ASSUME NEW s \in Seq(Letters), NEW x \in Letters, NEW y \in Letters
  PROVE  /\ OneEdit(Append(s, x), s) /\ OneEdit(s, Append(s, x))
         /\ OneEdit(Append(s, x), Append(s, y))
<1>1. Len(s) \in Nat /\ DOMAIN s = 1 .. Len(s)
  BY LenProperties
<1>2. /\ Append(s, x) \in Seq(Letters) /\ Len(Append(s, x)) = Len(s) + 1
      /\ \A j \in 1 .. Len(s) : Append(s, x)[j] = s[j]
  BY AppendProperties
<1>3. /\ Append(s, y) \in Seq(Letters) /\ Len(Append(s, y)) = Len(s) + 1
      /\ \A j \in 1 .. Len(s) : Append(s, y)[j] = s[j]
  BY AppendProperties
<1>4. /\ DOMAIN Append(s, x) = 1 .. Len(s) + 1 /\ DOMAIN Append(s, y) = 1 .. Len(s) + 1
      /\ Len(s) + 1 \in 1 .. Len(s) + 1
  BY <1>1, <1>2, <1>3, LenProperties
<1>5. Without(Append(s, x), Len(s) + 1) = s
  <2> DEFINE u == Without(Append(s, x), Len(s) + 1)
  <2>1. /\ u \in Seq(Letters) /\ Len(u) = Len(s)
        /\ \A j \in 1 .. Len(s) : u[j] = Append(s, x)[IF j < Len(s) + 1 THEN j ELSE j + 1]
    <3>1. (Len(s) + 1) - 1 = Len(s)
      BY <1>1
    <3>2. /\ u \in Seq(Letters) /\ Len(u) = (Len(s) + 1) - 1
          /\ \A j \in 1 .. (Len(s) + 1) - 1 :
               u[j] = Append(s, x)[IF j < Len(s) + 1 THEN j ELSE j + 1]
      BY <1>2, <1>4, WithoutIs, ZenonT(60)
    <3> QED
      BY <3>1, <3>2
  <2> HIDE DEF u
  <2>2. ASSUME NEW j \in 1 .. Len(s)
        PROVE  u[j] = s[j]
    <3>1. j < Len(s) + 1
      BY <1>1
    <3> QED
      BY <1>2, <2>1, <3>1
  <2>3. u = s
    BY <2>1, <2>2, SeqEqual
  <2> QED
    BY <2>3 DEF u
<1>6. ASSUME NEW j \in 1 .. Len(s) + 1, j # Len(s) + 1
      PROVE  Append(s, x)[j] = Append(s, y)[j]
  <2>1. j \in 1 .. Len(s)
    BY <1>1, <1>6
  <2> QED
    BY <1>2, <1>3, <2>1
<1>7. OneEdit(Append(s, x), Append(s, y))
  BY <1>4, <1>6 DEF OneEdit
<1> QED
  BY <1>4, <1>5, <1>7 DEF OneEdit

(***************************************************************************)
(* Ways: so many edits from a word to another, never longer than both.     *)
(***************************************************************************)
Way(s, t, k, f) ==
  /\ f \in [0 .. k -> Seq(Letters)] /\ f[0] = s /\ f[k] = t
  /\ \A n \in 1 .. k : OneEdit(f[n - 1], f[n])
  /\ \A n \in 0 .. k : Len(f[n]) <= Len(s) \/ Len(f[n]) <= Len(t)
Leads(s, t, k) == \E f : Way(s, t, k, f)

\* A way is one with the same letter after all its words; and an edit more at its end,
\* or at its beginning, makes it a way that is one longer.
LEMMA LeadsWithMore ==
  ASSUME NEW s \in Seq(Letters), NEW t \in Seq(Letters), NEW k \in Nat, NEW x \in Letters,
         Leads(s, t, k)
  PROVE  Leads(Append(s, x), Append(t, x), k)
<1>1. PICK f : Way(s, t, k, f)
  BY DEF Leads
<1> DEFINE g == [n \in 0 .. k |-> Append(f[n], x)]
<1>2. \A n \in 0 .. k : f[n] \in Seq(Letters)
  BY <1>1 DEF Way
<1>3. ASSUME NEW w \in Seq(Letters)
      PROVE  Append(w, x) \in Seq(Letters) /\ Len(Append(w, x)) = Len(w) + 1 /\ Len(w) \in Nat
  BY AppendProperties, LenProperties
<1>4. g \in [0 .. k -> Seq(Letters)]
  BY <1>2, <1>3
<1>5. g[0] = Append(s, x) /\ g[k] = Append(t, x)
  BY <1>1 DEF Way
<1>6. ASSUME NEW n \in 1 .. k
      PROVE  OneEdit(g[n - 1], g[n])
  <2>1. n - 1 \in 0 .. k /\ n \in 0 .. k
    OBVIOUS
  <2>2. OneEdit(f[n - 1], f[n])
    BY <1>1 DEF Way
  <2>3. OneEdit(Append(f[n - 1], x), Append(f[n], x))
    BY <1>2, <2>1, <2>2, EditWithMore
  <2> QED
    BY <2>1, <2>3
<1>7. ASSUME NEW n \in 0 .. k
      PROVE  Len(g[n]) <= Len(Append(s, x)) \/ Len(g[n]) <= Len(Append(t, x))
  <2>1. Len(f[n]) <= Len(s) \/ Len(f[n]) <= Len(t)
    BY <1>1 DEF Way
  <2>2. /\ Len(g[n]) = Len(f[n]) + 1 /\ Len(f[n]) \in Nat
        /\ Len(Append(s, x)) = Len(s) + 1 /\ Len(s) \in Nat
        /\ Len(Append(t, x)) = Len(t) + 1 /\ Len(t) \in Nat
    BY <1>2, <1>3
  <2> QED
    BY <2>1, <2>2
<1> HIDE DEF g
<1> QED
  BY <1>4, <1>5, <1>6, <1>7 DEF Way, Leads

LEMMA LeadsOn ==
  ASSUME NEW s \in Seq(Letters), NEW t \in Seq(Letters), NEW u \in Seq(Letters), NEW k \in Nat,
         Leads(s, t, k), OneEdit(t, u), Len(t) <= Len(u)
  PROVE  Leads(s, u, k + 1)
<1>1. PICK f : Way(s, t, k, f)
  BY DEF Leads
<1> DEFINE g == [n \in 0 .. k + 1 |-> IF n = k + 1 THEN u ELSE f[n]]
<1>2. \A n \in 0 .. k + 1 : n = k + 1 \/ n \in 0 .. k
  OBVIOUS
<1>3. g \in [0 .. k + 1 -> Seq(Letters)]
  BY <1>1, <1>2 DEF Way
<1>4. g[0] = s /\ g[k + 1] = u /\ \A n \in 0 .. k : g[n] = f[n]
  BY <1>1 DEF Way
<1> HIDE DEF g
<1>5. ASSUME NEW n \in 1 .. k + 1
      PROVE  OneEdit(g[n - 1], g[n])
  <2>1. CASE n = k + 1
    <3>1. n - 1 = k /\ k \in 0 .. k
      BY <2>1
    <3> QED
      BY <1>1, <1>4, <2>1, <3>1 DEF Way
  <2>2. CASE n # k + 1
    <3>1. n \in 1 .. k /\ n \in 0 .. k /\ n - 1 \in 0 .. k
      BY <2>2
    <3> QED
      BY <1>1, <1>4, <3>1 DEF Way
  <2> QED
    BY <2>1, <2>2
<1>6. ASSUME NEW n \in 0 .. k + 1
      PROVE  Len(g[n]) <= Len(s) \/ Len(g[n]) <= Len(u)
  <2>1. Len(u) \in Nat /\ Len(t) \in Nat
    BY LenProperties
  <2>2. CASE n = k + 1
    BY <1>4, <2>1, <2>2
  <2>3. CASE n \in 0 .. k
    <3>1. Len(f[n]) <= Len(s) \/ Len(f[n]) <= Len(t)
      BY <1>1, <2>3 DEF Way
    <3>2. Len(f[n]) \in Nat /\ g[n] = f[n]
      BY <1>1, <1>4, <2>3, LenProperties DEF Way
    <3> QED
      BY <2>1, <3>1, <3>2
  <2> QED
    BY <1>2, <2>2, <2>3
<1> QED
  BY <1>3, <1>4, <1>5, <1>6 DEF Way, Leads

LEMMA LeadsFrom ==
  ASSUME NEW s \in Seq(Letters), NEW t \in Seq(Letters), NEW u \in Seq(Letters), NEW k \in Nat,
         Leads(s, t, k), OneEdit(u, s), Len(s) <= Len(u)
  PROVE  Leads(u, t, k + 1)
<1>1. PICK f : Way(s, t, k, f)
  BY DEF Leads
<1> DEFINE g == [n \in 0 .. k + 1 |-> IF n = 0 THEN u ELSE f[n - 1]]
<1>2. \A n \in 0 .. k + 1 : n = 0 \/ n - 1 \in 0 .. k
  OBVIOUS
<1>3. g \in [0 .. k + 1 -> Seq(Letters)]
  BY <1>1, <1>2 DEF Way
<1>4. g[0] = u /\ g[k + 1] = t /\ \A n \in 1 .. k + 1 : g[n] = f[n - 1]
  BY <1>1 DEF Way
<1> HIDE DEF g
<1>5. ASSUME NEW n \in 1 .. k + 1
      PROVE  OneEdit(g[n - 1], g[n])
  <2>1. CASE n = 1
    <3>1. g[n - 1] = u /\ g[n] = s
      BY <1>1, <1>4, <2>1 DEF Way
    <3> QED
      BY <3>1
  <2>2. CASE n # 1
    <3>1. n - 1 \in 1 .. k /\ n - 1 \in 1 .. k + 1
      BY <2>2
    <3>2. OneEdit(f[(n - 1) - 1], f[n - 1])
      BY <1>1, <3>1 DEF Way
    <3> QED
      BY <1>4, <3>1, <3>2
  <2> QED
    BY <2>1, <2>2
<1>6. ASSUME NEW n \in 0 .. k + 1
      PROVE  Len(g[n]) <= Len(u) \/ Len(g[n]) <= Len(t)
  <2>1. Len(u) \in Nat /\ Len(s) \in Nat
    BY LenProperties
  <2>2. CASE n = 0
    BY <1>4, <2>1, <2>2
  <2>3. CASE n # 0
    <3>1. n - 1 \in 0 .. k /\ g[n] = f[n - 1]
      BY <1>4, <2>3
    <3>2. Len(f[n - 1]) <= Len(s) \/ Len(f[n - 1]) <= Len(t)
      BY <1>1, <3>1 DEF Way
    <3>3. Len(f[n - 1]) \in Nat
      BY <1>1, <3>1, LenProperties DEF Way
    <3> QED
      BY <2>1, <3>1, <3>2, <3>3
  <2> QED
    BY <2>2, <2>3
<1> QED
  BY <1>3, <1>4, <1>5, <1>6 DEF Way, Leads

\* The first i letters, which grow by one letter each.
Begin(w, i) == SubSeq(w, 1, i)

LEMMA BeginFacts ==
  ASSUME NEW w \in Seq(Letters), NEW i \in 0 .. Len(w)
  PROVE  /\ Begin(w, i) \in Seq(Letters) /\ Len(Begin(w, i)) = i
         /\ Begin(w, 0) = <<>> /\ Begin(w, Len(w)) = w
         /\ i # 0 => /\ w[i] \in Letters /\ i - 1 \in 0 .. Len(w)
                     /\ Begin(w, i) = Append(Begin(w, i - 1), w[i])
<1>1. Len(w) \in Nat /\ w \in [1 .. Len(w) -> Letters]
  BY LenProperties
<1>2. ASSUME NEW k \in 0 .. Len(w)
      PROVE  /\ Begin(w, k) \in Seq(Letters) /\ Len(Begin(w, k)) = k
             /\ \A j \in 1 .. k : Begin(w, k)[j] = w[j]
  <2>1. k \in Int /\ 1 \in Int /\ k - 1 + 1 = k /\ \A j \in 1 .. k : w[j] \in Letters
    BY <1>1
  <2>2. /\ Begin(w, k) \in Seq(Letters)
        /\ Len(Begin(w, k)) = IF 1 <= k THEN k - 1 + 1 ELSE 0
        /\ \A j \in 1 .. k - 1 + 1 : Begin(w, k)[j] = w[1 + j - 1]
    BY <2>1, SubSeqProperties DEF Begin
  <2>3. \A j \in 1 .. k : 1 + j - 1 = j
    BY <1>1
  <2> QED
    BY <2>1, <2>2, <2>3
<1>3. Begin(w, 0) = <<>>
  BY <1>1, <1>2, EmptySeq
<1>4. Begin(w, Len(w)) = w
  BY <1>1, <1>2, SeqEqual
<1>5. ASSUME i # 0
      PROVE  /\ w[i] \in Letters /\ i - 1 \in 0 .. Len(w)
             /\ Begin(w, i) = Append(Begin(w, i - 1), w[i])
  <2>1. w[i] \in Letters /\ i - 1 \in 0 .. Len(w) /\ i \in 1 .. Len(w)
    BY <1>1, <1>5
  <2> DEFINE u == Begin(w, i - 1)
             v == Append(u, w[i])
  <2>2. /\ u \in Seq(Letters) /\ Len(u) = i - 1 /\ \A j \in 1 .. i - 1 : u[j] = w[j]
    BY <1>2, <2>1
  <2> HIDE DEF u
  <2>3. /\ v \in Seq(Letters) /\ Len(v) = Len(u) + 1 /\ v[Len(u) + 1] = w[i]
        /\ \A j \in 1 .. Len(u) : v[j] = u[j]
    BY <2>1, <2>2, AppendProperties
  <2> HIDE DEF v
  <2>4. Len(v) = i /\ v[i] = w[i] /\ \A j \in 1 .. i - 1 : v[j] = w[j]
    BY <2>1, <2>2, <2>3
  <2>5. ASSUME NEW j \in 1 .. i
        PROVE  v[j] = w[j]
    <3>1. j = i \/ j \in 1 .. i - 1
      BY <1>1
    <3> QED
      BY <2>4, <3>1
  <2>6. Begin(w, i) = v
    BY <1>2, <2>3, <2>4, <2>5, SeqEqual
  <2> QED
    BY <2>1, <2>6 DEF u, v
<1> QED
  BY <1>2, <1>3, <1>4, <1>5

\* The way of no letters.
LEMMA NoWay == Leads(<<>>, <<>>, 0)
<1> DEFINE f == [n \in 0 .. 0 |-> <<>>]
<1>1. <<>> \in Seq(Letters) /\ Len(<<>>) = 0
  BY EmptySeq
<1>2. Way(<<>>, <<>>, 0, f)
  BY <1>1 DEF Way
<1> QED
  BY <1>2 DEF Leads

\* One more row or column of the table is one more step of the way.
LEMMA WayOfCell ==
  ASSUME NEW a \in Seq(Letters), NEW b \in Seq(Letters), NEW i \in 0 .. Len(a),
         NEW j \in 0 .. Len(b),
         i # 0 => Leads(Begin(a, i - 1), Begin(b, j), Far(a, b, i - 1, j)),
         j # 0 => Leads(Begin(a, i), Begin(b, j - 1), Far(a, b, i, j - 1)),
         i # 0 /\ j # 0 => Leads(Begin(a, i - 1), Begin(b, j - 1), Far(a, b, i - 1, j - 1))
  PROVE  Leads(Begin(a, i), Begin(b, j), Far(a, b, i, j))
<1>1. Len(a) \in Nat /\ Len(b) \in Nat
  BY LenProperties
<1>2. /\ Begin(a, i) \in Seq(Letters) /\ Len(Begin(a, i)) = i /\ Begin(a, 0) = <<>>
      /\ i # 0 => /\ a[i] \in Letters /\ i - 1 \in 0 .. Len(a)
                  /\ Begin(a, i) = Append(Begin(a, i - 1), a[i])
  BY BeginFacts
<1>3. /\ Begin(b, j) \in Seq(Letters) /\ Len(Begin(b, j)) = j /\ Begin(b, 0) = <<>>
      /\ j # 0 => /\ b[j] \in Letters /\ j - 1 \in 0 .. Len(b)
                  /\ Begin(b, j) = Append(Begin(b, j - 1), b[j])
  BY BeginFacts
<1>4. i # 0 => Begin(a, i - 1) \in Seq(Letters) /\ Len(Begin(a, i - 1)) = i - 1
  BY <1>2, BeginFacts
<1>5. j # 0 => Begin(b, j - 1) \in Seq(Letters) /\ Len(Begin(b, j - 1)) = j - 1
  BY <1>3, BeginFacts
<1>6. ASSUME i # 0, Far(a, b, i, j) = Far(a, b, i - 1, j) + 1
      PROVE  Leads(Begin(a, i), Begin(b, j), Far(a, b, i, j))
  <2>1. OneEdit(Begin(a, i), Begin(a, i - 1))
    BY <1>2, <1>4, <1>6, EditsAtTheEnd
  <2>2. Far(a, b, i - 1, j) \in Nat
    BY <1>1, <1>2, <1>6, FarFacts
  <2>3. Len(Begin(a, i - 1)) <= Len(Begin(a, i))
    BY <1>1, <1>2, <1>4, <1>6
  <2> QED
    BY <1>2, <1>3, <1>4, <1>6, <2>1, <2>2, <2>3, LeadsFrom
<1>7. ASSUME j # 0, Far(a, b, i, j) = Far(a, b, i, j - 1) + 1
      PROVE  Leads(Begin(a, i), Begin(b, j), Far(a, b, i, j))
  <2>1. OneEdit(Begin(b, j - 1), Begin(b, j))
    BY <1>3, <1>5, <1>7, EditsAtTheEnd
  <2>2. Far(a, b, i, j - 1) \in Nat
    BY <1>1, <1>3, <1>7, FarFacts
  <2>3. Len(Begin(b, j - 1)) <= Len(Begin(b, j))
    BY <1>1, <1>3, <1>5, <1>7
  <2> QED
    BY <1>2, <1>3, <1>5, <1>7, <2>1, <2>2, <2>3, LeadsOn
<1>8. ASSUME i # 0, j # 0, \/ Far(a, b, i, j) = Far(a, b, i - 1, j - 1) + 1
                           \/ a[i] = b[j] /\ Far(a, b, i, j) = Far(a, b, i - 1, j - 1)
      PROVE  Leads(Begin(a, i), Begin(b, j), Far(a, b, i, j))
  <2> DEFINE u == Append(Begin(b, j - 1), a[i])
  <2>1. Far(a, b, i - 1, j - 1) \in Nat
    BY <1>1, <1>2, <1>3, <1>8, FarFacts
  <2>2. Leads(Begin(a, i), u, Far(a, b, i - 1, j - 1))
    BY <1>2, <1>4, <1>5, <1>8, <2>1, LeadsWithMore
  <2>3. u \in Seq(Letters) /\ Len(u) = Len(Begin(b, j - 1)) + 1
    BY <1>2, <1>5, <1>8, AppendProperties
  <2>4. OneEdit(u, Begin(b, j))
    BY <1>2, <1>3, <1>5, <1>8, EditsAtTheEnd
  <2>5. Len(u) <= Len(Begin(b, j))
    BY <1>1, <1>3, <1>5, <1>8, <2>3
  <2>6. CASE Far(a, b, i, j) = Far(a, b, i - 1, j - 1) + 1
    <3> HIDE DEF u
    <3> QED
      BY <1>2, <1>3, <2>1, <2>2, <2>3, <2>4, <2>5, <2>6, LeadsOn
  <2>7. CASE a[i] = b[j] /\ Far(a, b, i, j) = Far(a, b, i - 1, j - 1)
    BY <1>3, <1>8, <2>2, <2>7
  <2> QED
    BY <1>8, <2>6, <2>7
<1>9. CASE i = 0 /\ j = 0
  <2>1. Far(a, b, i, j) = 0
    BY <1>1, <1>9, FarFacts
  <2> QED
    BY <1>2, <1>3, <1>9, <2>1, NoWay
<1>10. CASE i = 0 /\ j # 0
  <2>1. Far(a, b, i, j) = j /\ Far(a, b, i, j - 1) = j - 1
    BY <1>1, <1>3, <1>10, FarFacts
  <2>2. Far(a, b, i, j) = Far(a, b, i, j - 1) + 1
    BY <1>1, <2>1
  <2> QED
    BY <1>7, <1>10, <2>2
<1>11. CASE i # 0 /\ j = 0
  <2>1. Far(a, b, i, j) = i
    BY <1>1, <1>11, FarFacts
  <2>2. i - 1 \in 0 .. Len(a)
    BY <1>2, <1>11
  <2>3. Far(a, b, i - 1, j) = i - 1
    BY <1>1, <1>11, <2>2, FarFacts
  <2>4. Far(a, b, i, j) = Far(a, b, i - 1, j) + 1
    BY <1>1, <2>1, <2>3
  <2> QED
    BY <1>6, <1>11, <2>4
<1>12. CASE i # 0 /\ j # 0
  <2>1. FarStep(a, b, i, j)
    BY <1>1, <1>12, FarFacts
  <2> QED
    BY <1>6, <1>7, <1>8, <1>12, <2>1 DEF FarStep
<1> QED
  BY <1>9, <1>10, <1>11, <1>12

\* Cell by cell, the table tells the length of a way: from word to word in the end.
LEMMA WayOfTable ==
  ASSUME NEW a \in Seq(Letters), NEW b \in Seq(Letters)
  PROVE  Leads(a, b, GetLevenshteinDistance(a, b))
<1> DEFINE Holds(i, j) == Leads(Begin(a, i), Begin(b, j), Far(a, b, i, j))
           T == {k \in Nat : \A i \in 0 .. Len(a) : \A j \in 0 .. Len(b) :
                               i + j < k => Holds(i, j)}
<1>1. Len(a) \in Nat /\ Len(b) \in Nat
  BY LenProperties
<1>2. 0 \in T
  BY <1>1
<1>3. ASSUME NEW k \in Nat, k \in T
      PROVE  k + 1 \in T
  <2> SUFFICES ASSUME NEW i \in 0 .. Len(a), NEW j \in 0 .. Len(b), i + j < k + 1
               PROVE  Holds(i, j)
    BY <1>3
  <2> HIDE DEF Holds
  <2>1. \A m \in 0 .. Len(a) : \A n \in 0 .. Len(b) : m + n < k => Holds(m, n)
    BY <1>3
  <2>2. i # 0 => Holds(i - 1, j)
    <3>1. i # 0 => i - 1 \in 0 .. Len(a) /\ (i - 1) + j < k
      BY <1>1
    <3> QED
      BY <2>1, <3>1
  <2>3. j # 0 => Holds(i, j - 1)
    <3>1. j # 0 => j - 1 \in 0 .. Len(b) /\ i + (j - 1) < k
      BY <1>1
    <3> QED
      BY <2>1, <3>1
  <2>4. i # 0 /\ j # 0 => Holds(i - 1, j - 1)
    <3>1. i # 0 /\ j # 0 => i - 1 \in 0 .. Len(a) /\ j - 1 \in 0 .. Len(b)
                            /\ (i - 1) + (j - 1) < k
      BY <1>1
    <3> QED
      BY <2>1, <3>1
  <2> QED
    BY <2>2, <2>3, <2>4, WayOfCell DEF Holds
<1>4. Nat \subseteq T
  BY <1>2, <1>3, Counting
<1>5. /\ Len(a) + Len(b) + 1 \in Nat /\ Len(a) + Len(b) < Len(a) + Len(b) + 1
      /\ Len(a) \in 0 .. Len(a) /\ Len(b) \in 0 .. Len(b)
  BY <1>1
<1> HIDE DEF Holds
<1>6. Holds(Len(a), Len(b))
  <2>1. Len(a) + Len(b) + 1 \in T
    BY <1>4, <1>5
  <2> QED
    BY <1>5, <2>1
<1>7. Begin(a, Len(a)) = a /\ Begin(b, Len(b)) = b
  BY <1>5, BeginFacts
<1> QED
  BY <1>6, <1>7 DEF Holds, GetLevenshteinDistance, Far

\* No more edits than the longer word has letters.
LEMMA FewEdits ==
  ASSUME NEW a \in Words, NEW b \in Words
  PROVE  GetLevenshteinDistance(a, b) \in 0 .. MaxWord
<1>1. /\ Len(a) \in Nat /\ Len(b) \in Nat /\ Len(a) <= MaxWord /\ Len(b) <= MaxWord
      /\ MaxWord \in Nat
  BY WordFacts, SearchAssumption
<1> DEFINE Holds(i) == i \in 0 .. Len(a) =>
                         \A j \in 0 .. Len(b) : Far(a, b, i, j) <= i \/ Far(a, b, i, j) <= j
           T == {i \in Nat : Holds(i)}
<1>2. 0 \in T
  <2>1. \A j \in 0 .. Len(b) : Far(a, b, 0, j) = j
    BY <1>1, FarFacts
  <2> QED
    BY <1>1, <2>1
<1>3. ASSUME NEW k \in Nat, k \in T
      PROVE  k + 1 \in T
  <2> SUFFICES ASSUME k + 1 \in 0 .. Len(a), NEW j \in 0 .. Len(b)
               PROVE  Far(a, b, k + 1, j) <= k + 1 \/ Far(a, b, k + 1, j) <= j
    OBVIOUS
  <2>1. k \in 0 .. Len(a) /\ (k + 1) - 1 = k /\ k + 1 # 0
    BY <1>1
  <2>2. CASE j = 0
    <3>1. Far(a, b, k + 1, j) = k + 1
      BY <1>1, <2>2, FarFacts
    <3> QED
      BY <3>1
  <2>3. CASE j # 0
    <3>1. j - 1 \in 0 .. Len(b)
      BY <1>1, <2>3
    <3>2. Far(a, b, k, j - 1) <= k \/ Far(a, b, k, j - 1) <= j - 1
      BY <1>3, <2>1, <3>1
    <3>3. Far(a, b, k + 1, j) \in Nat /\ Far(a, b, k, j - 1) \in Nat
      BY <1>1, <2>1, <3>1, FarFacts
    <3>4. FarStep(a, b, k + 1, j)
      BY <1>1, <2>1, <2>3, FarFacts
    <3>5. Far(a, b, k + 1, j) <= Far(a, b, k, j - 1) + 1
      BY <2>1, <3>4 DEF FarStep
    <3> QED
      BY <3>2, <3>3, <3>5
  <2> QED
    BY <2>2, <2>3
<1>4. Nat \subseteq T
  BY <1>2, <1>3, Counting
<1>5. Len(a) \in 0 .. Len(a) /\ Len(b) \in 0 .. Len(b)
  BY <1>1
<1>6. Far(a, b, Len(a), Len(b)) <= Len(a) \/ Far(a, b, Len(a), Len(b)) <= Len(b)
  BY <1>1, <1>4, <1>5
<1>7. Far(a, b, Len(a), Len(b)) \in Nat
  BY <1>1, <1>5, FarFacts
<1>8. Far(a, b, Len(a), Len(b)) \in 0 .. MaxWord
  BY <1>1, <1>6, <1>7
<1> QED
  BY <1>8 DEF GetLevenshteinDistance, Far

\* The words one edit beyond a set of words, and the balls that Around makes of them.
Grown(ball) == ball \cup {t \in Words : \E s \in ball : OneEdit(s, t)}

LEMMA BallsExist ==
  ASSUME NEW a
  PROVE  \E f : f = [k \in 0 .. MaxWord |-> IF k = 0 THEN {a} ELSE Grown(f[k - 1])]
<1> DEFINE K == 0 .. MaxWord
           Right(f, k) == f[k] = IF k = 0 THEN {a} ELSE Grown(f[k - 1])
           Built(n) == \E f : /\ DOMAIN f = K /\ f = [k \in K |-> f[k]]
                              /\ \A k \in K : k < n => Right(f, k)
           T == {n \in Nat : Built(n)}
<1>1. MaxWord \in Nat
  BY SearchAssumption
<1>2. 0 \in T
  <2> DEFINE f == [k \in K |-> {}]
  <2>1. DOMAIN f = K /\ f = [k \in K |-> f[k]] /\ \A k \in K : ~ k < 0
    OBVIOUS
  <2> HIDE DEF f
  <2> QED
    BY <2>1
<1>3. ASSUME NEW n \in Nat, n \in T
      PROVE  n + 1 \in T
  <2>1. PICK f : DOMAIN f = K /\ f = [k \in K |-> f[k]] /\ \A k \in K : k < n => Right(f, k)
    BY <1>3
  <2> DEFINE g == [k \in K |-> IF k # n THEN f[k] ELSE IF n = 0 THEN {a} ELSE Grown(f[n - 1])]
  <2>2. DOMAIN g = K /\ g = [k \in K |-> g[k]]
    OBVIOUS
  <2>3. /\ \A k \in K : k # n => g[k] = f[k]
        /\ n \in K => g[n] = IF n = 0 THEN {a} ELSE Grown(f[n - 1])
    OBVIOUS
  <2> HIDE DEF g
  <2>4. ASSUME NEW k \in K, k < n + 1
        PROVE  Right(g, k)
    <3>1. CASE k = n
      <4>1. k # 0 => n - 1 \in K /\ n - 1 # n
        BY <1>1, <3>1
      <4> QED
        BY <2>3, <3>1, <4>1
    <3>2. CASE k # n
      <4>1. k < n /\ (k # 0 => k - 1 \in K /\ k - 1 # n)
        BY <1>1, <2>4, <3>2
      <4>2. Right(f, k)
        BY <2>1, <4>1
      <4> QED
        BY <2>3, <3>2, <4>1, <4>2
    <3> QED
      BY <3>1, <3>2
  <2>5. Built(n + 1)
    <3> HIDE DEF Right
    <3> QED
      BY <2>2, <2>4
  <2> HIDE DEF Built
  <2> QED
    BY <2>5
<1> HIDE DEF Built
<1>4. Nat \subseteq T
  BY <1>2, <1>3, Counting
<1>5. Built(MaxWord + 1)
  <2>1. MaxWord + 1 \in Nat
    BY <1>1
  <2> QED
    BY <1>4, <2>1
<1>6. PICK f : /\ DOMAIN f = K /\ f = [k \in K |-> f[k]]
               /\ \A k \in K : k < MaxWord + 1 => Right(f, k)
  BY <1>5 DEF Built
<1>7. \A k \in K : Right(f, k)
  <2>1. \A k \in K : k < MaxWord + 1
    BY <1>1
  <2> HIDE DEF Right, K
  <2> QED
    BY <1>6, <2>1
<1>8. [k \in K |-> f[k]] = [k \in K |-> IF k = 0 THEN {a} ELSE Grown(f[k - 1])]
  BY <1>7
<1> QED
  BY <1>6, <1>8

LEMMA AroundIs ==
  ASSUME NEW a
  PROVE  /\ DOMAIN Around(a) = 0 .. MaxWord /\ Around(a)[0] = {a}
         /\ \A k \in 1 .. MaxWord : Around(a)[k] = Grown(Around(a)[k - 1])
<1> DEFINE B == CHOOSE f : f = [k \in 0 .. MaxWord |-> IF k = 0 THEN {a} ELSE Grown(f[k - 1])]
<1>1. Around(a) = B
  BY DEF Around, Grown
<1>2. B = [k \in 0 .. MaxWord |-> IF k = 0 THEN {a} ELSE Grown(B[k - 1])]
  BY BallsExist
<1> HIDE DEF B
<1>3. /\ DOMAIN B = 0 .. MaxWord
      /\ \A k \in 0 .. MaxWord : B[k] = IF k = 0 THEN {a} ELSE Grown(B[k - 1])
  BY <1>2
<1>4. B[0] = {a}
  <2>1. 0 \in 0 .. MaxWord
    BY SearchAssumption
  <2> QED
    BY <1>3, <2>1
<1>5. ASSUME NEW k \in 1 .. MaxWord
      PROVE  B[k] = Grown(B[k - 1])
  <2>1. k \in 0 .. MaxWord /\ k # 0
    OBVIOUS
  <2> QED
    BY <1>3, <2>1
<1> QED
  BY <1>1, <1>3, <1>4, <1>5

\* No word is nearer than its distance ...
LEMMA AroundIsNear ==
  ASSUME NEW a \in Words
  PROVE  \A k \in 0 .. MaxWord : \A b \in Around(a)[k] :
           b \in Words /\ GetLevenshteinDistance(a, b) <= k
<1> DEFINE Holds(k) == k \in 0 .. MaxWord => \A b \in Around(a)[k] :
                         b \in Words /\ GetLevenshteinDistance(a, b) <= k
           T == {k \in Nat : Holds(k)}
<1>1. MaxWord \in Nat
  BY SearchAssumption
<1>2. 0 \in T
  <2>1. Around(a)[0] = {a}
    BY <1>1, AroundIs
  <2>2. GetLevenshteinDistance(a, a) = 0
    BY NoEditIsNone
  <2> QED
    BY <2>1, <2>2
<1>3. ASSUME NEW k \in Nat, k \in T
      PROVE  k + 1 \in T
  <2> SUFFICES ASSUME k + 1 \in 0 .. MaxWord, NEW b \in Around(a)[k + 1]
               PROVE  b \in Words /\ GetLevenshteinDistance(a, b) <= k + 1
    OBVIOUS
  <2>1. k \in 0 .. MaxWord /\ (k + 1) - 1 = k /\ k + 1 \in 1 .. MaxWord
    BY <1>1
  <2>2. \A s \in Around(a)[k] : s \in Words /\ GetLevenshteinDistance(a, s) <= k
    BY <1>3, <2>1
  <2>3. Around(a)[k + 1] = Grown(Around(a)[k])
    BY <2>1, AroundIs
  <2>4. CASE b \in Around(a)[k]
    BY <2>2, <2>4, FewEdits
  <2>5. CASE b \in Words /\ \E s \in Around(a)[k] : OneEdit(s, b)
    <3>1. PICK s \in Around(a)[k] : OneEdit(s, b)
      BY <2>5
    <3>2. s \in Words /\ GetLevenshteinDistance(a, s) <= k
      BY <2>2
    <3>3. GetLevenshteinDistance(a, b) <= GetLevenshteinDistance(a, s) + 1
      BY <2>5, <3>1, <3>2, EditIsOne
    <3>4. /\ GetLevenshteinDistance(a, b) \in 0 .. MaxWord
          /\ GetLevenshteinDistance(a, s) \in 0 .. MaxWord
      BY <2>5, <3>2, FewEdits
    <3> QED
      BY <1>1, <2>5, <3>2, <3>3, <3>4
  <2> QED
    BY <2>3, <2>4, <2>5 DEF Grown
<1>4. Nat \subseteq T
  BY <1>2, <1>3, Counting
<1>5. \A k \in 0 .. MaxWord : k \in T
  BY <1>1, <1>4
<1> QED
  BY <1>5

\* ... and every word is as near.
LEMMA NearIsAround ==
  ASSUME NEW a \in Words, NEW b \in Words
  PROVE  b \in Around(a)[GetLevenshteinDistance(a, b)]
<1> DEFINE d == GetLevenshteinDistance(a, b)
<1>1. MaxWord \in Nat /\ d \in 0 .. MaxWord /\ d \in Nat
  BY SearchAssumption, FewEdits
<1> HIDE DEF d
<1>2. Leads(a, b, d)
  BY WordIsSeq, WayOfTable DEF d
<1>3. PICK f : Way(a, b, d, f)
  BY <1>2 DEF Leads
<1>4. \A k \in 0 .. d : f[k] \in Words
  <2> SUFFICES ASSUME NEW k \in 0 .. d
               PROVE  f[k] \in Words
    OBVIOUS
  <2>1. f[k] \in Seq(Letters) /\ (Len(f[k]) <= Len(a) \/ Len(f[k]) <= Len(b))
    BY <1>3 DEF Way
  <2>2. Len(f[k]) \in Nat
    BY <2>1, LenProperties
  <2>3. Len(f[k]) <= MaxWord
    BY <1>1, <2>1, <2>2, WordFacts
  <2> QED
    BY <2>1, <2>3, WordIsSeq
<1> DEFINE Holds(k) == k \in 0 .. d => f[k] \in Around(a)[k]
           T == {k \in Nat : Holds(k)}
<1>5. 0 \in T
  <2>1. f[0] = a /\ Around(a)[0] = {a}
    BY <1>3, AroundIs DEF Way
  <2> QED
    BY <2>1
<1>6. ASSUME NEW k \in Nat, k \in T
      PROVE  k + 1 \in T
  <2> SUFFICES ASSUME k + 1 \in 0 .. d
               PROVE  f[k + 1] \in Around(a)[k + 1]
    OBVIOUS
  <2>1. k \in 0 .. d /\ (k + 1) - 1 = k /\ k + 1 \in 1 .. MaxWord
        /\ k + 1 \in 1 .. d
    BY <1>1
  <2>2. f[k] \in Around(a)[k]
    BY <1>6, <2>1
  <2>3. OneEdit(f[k], f[k + 1])
    BY <1>3, <2>1 DEF Way
  <2>4. Around(a)[k + 1] = Grown(Around(a)[k])
    BY <2>1, AroundIs
  <2> QED
    BY <1>4, <2>1, <2>2, <2>3, <2>4 DEF Grown
<1>7. Nat \subseteq T
  BY <1>5, <1>6, Counting
<1>8. f[d] \in Around(a)[d]
  <2>1. d \in T /\ d \in 0 .. d
    BY <1>1, <1>7
  <2> QED
    BY <2>1
<1> QED
  BY <1>3, <1>8 DEF Way, d

\* The rank of the first ball a word is in.
LEMMA FewestEdits ==
  ASSUME NEW a \in Words, NEW b \in Words
  PROVE  Least({k \in DOMAIN Around(a) : b \in Around(a)[k]}) = GetLevenshteinDistance(a, b)
<1> DEFINE S == {k \in DOMAIN Around(a) : b \in Around(a)[k]}
           d == GetLevenshteinDistance(a, b)
<1>1. MaxWord \in Nat /\ d \in 0 .. MaxWord
  BY SearchAssumption, FewEdits
<1>2. d \in S
  BY <1>1, NearIsAround, AroundIs
<1>3. \A k \in S : k \in 0 .. MaxWord /\ d <= k
  BY AroundIsNear, AroundIs
<1> HIDE DEF S, d
<1>4. Least(S) \in S /\ \A k \in S : Least(S) <= k
  BY <1>2, <1>3 DEF Least
<1>5. Least(S) = d
  <2>1. Least(S) \in 0 .. MaxWord /\ d <= Least(S) /\ Least(S) <= d
    BY <1>2, <1>3, <1>4
  <2> QED
    BY <1>1, <2>1
<1> QED
  BY <1>5 DEF S, d

(***************************************************************************)
(* Words that are corrected                                                *)
(***************************************************************************)
\* A word becomes the known one that is nearer than all others, if it is long enough
\* and has at most two errors.
LEMMA Corrected ==
  ASSUME NEW word \in Words, NEW terms \in Seq(Words), NEW name \in Range(terms),
         Len(word) >= 3, GetLevenshteinDistance(word, name) <= 2,
         \A t \in Range(terms) \ {name} :
           GetLevenshteinDistance(word, t) > GetLevenshteinDistance(word, name)
  PROVE  CorrectTypos(word, terms) = name
<1> DEFINE dist(i) == GetLevenshteinDistance(word, terms[i])
           near == {i \in DOMAIN terms : GetLevenshteinDistance(word, terms[i]) < 3}
           best == {i \in near : \A j \in near : dist(i) <= dist(j)}
<1>1. Len(terms) \in Nat /\ DOMAIN terms = 1 .. Len(terms) /\ terms \in [1 .. Len(terms) -> Words]
  BY LenProperties
<1>2. MaxWord \in Nat /\ Len(word) \in Nat
  BY SearchAssumption, WordFacts
<1>3. \A i \in DOMAIN terms : /\ dist(i) \in Nat /\ terms[i] \in Range(terms)
                              /\ terms[i] \in Words
  BY <1>1, <1>2, FewEdits DEF Range
<1>4. PICK n \in DOMAIN terms : terms[n] = name
  BY DEF Range
<1>5. name \in Words /\ GetLevenshteinDistance(word, name) \in Nat
  BY <1>3, <1>4
<1>6. CASE word \in Range(terms)
  <2>1. GetLevenshteinDistance(word, word) = 0
    BY NoEditIsNone
  <2>2. word = name
    BY <1>5, <1>6, <2>1
  <2> QED
    BY <1>6, <2>2 DEF CorrectTypos
<1>7. CASE word \notin Range(terms)
  <2>1. n \in near
    BY <1>4, <1>5
  <2>2. \A i \in DOMAIN terms : dist(n) <= dist(i) /\ (dist(i) <= dist(n) => terms[i] = name)
    BY <1>3, <1>4, <1>5
  <2>3. n \in best /\ \A i \in best : terms[i] = name
    BY <2>1, <2>2
  <2>4. best \in SUBSET Nat /\ IsFiniteSet(best)
    <3>1. best \subseteq 1 .. Len(terms)
      BY <1>1
    <3>2. IsFiniteSet(1 .. Len(terms))
      BY <1>1, FS_Interval
    <3> HIDE DEF best
    <3>3. best \subseteq Nat
      BY <1>1, <3>1
    <3> QED
      BY <3>1, <3>2, <3>3, FS_Subset
  <2>5. Least(best) \in best
    <3> HIDE DEF best
    <3>1. PICK r \in best : \A t \in best : ~ t < r
      BY <2>3, <2>4, LeastOfSome
    <3>2. \A t \in best : r <= t
      BY <2>4, <3>1
    <3> QED
      BY <3>2 DEF Least
  <2>6. terms[Least(best)] = name
    BY <2>3, <2>5
  <2>7. ~ Len(word) < 3 /\ near # {}
    BY <1>2, <2>1
  <2> QED
    BY <1>7, <2>6, <2>7 DEF CorrectTypos
<1> QED
  BY <1>6, <1>7

\* With one known word, all or nothing.
LEMMA OneTerm ==
  ASSUME NEW a \in Words, NEW b \in Words
  PROVE  CorrectTypos(a, <<b>>) =
           IF Len(a) >= 3 /\ GetLevenshteinDistance(a, b) <= 2 THEN b ELSE a
<1>1. <<b>> \in Seq(Words) /\ Range(<<b>>) = {b} /\ DOMAIN <<b>> = {1} /\ <<b>>[1] = b
  BY DEF Range
<1>2. MaxWord \in Nat /\ Len(a) \in Nat /\ GetLevenshteinDistance(a, b) \in Nat
  BY SearchAssumption, WordFacts, FewEdits
<1>3. CASE Len(a) >= 3 /\ GetLevenshteinDistance(a, b) <= 2
  BY <1>1, <1>3, Corrected
<1>4. CASE ~ Len(a) >= 3
  BY <1>2, <1>4 DEF CorrectTypos
<1>5. CASE ~ GetLevenshteinDistance(a, b) <= 2
  <2>1. {i \in DOMAIN <<b>> : GetLevenshteinDistance(a, <<b>>[i]) < 3} = {}
    BY <1>1, <1>2, <1>5
  <2> QED
    BY <1>5, <2>1 DEF CorrectTypos
<1> QED
  BY <1>3, <1>4, <1>5

\* What is answered of two words.
LEMMA FewestIsRead ==
  ASSUME NEW a \in Words, NEW b \in Words
  PROVE  LET ball == Around(a)
             fewest == Least({k \in DOMAIN ball : b \in ball[k]})
         IN /\ WordAnswer(a, b).distance = fewest
            /\ WordAnswer(a, b).corrected = IF Len(a) >= 3 /\ fewest <= 2 THEN b ELSE a
BY FewestEdits, OneTerm DEF WordAnswer

(***************************************************************************)
(* The search in words                                                     *)
(***************************************************************************)
\* The sum over a set of one element, or of none.
Sums(value, S, it) ==
  it = [s \in SUBSET S |->
          IF s = {} THEN 0
          ELSE LET x == CHOOSE x \in s : TRUE IN value[x] + it[s \ {x}]]
Total(value, S) == (CHOOSE it : Sums(value, S, it))[S]

LEMMA OneSummand ==
  ASSUME NEW value, NEW S, \A y \in S : S = {y} /\ value[y] \in Nat
  PROVE  Total(value, S) \in Nat
<1> DEFINE zero == [s \in SUBSET S |-> IF s = {} THEN 0 ELSE value[CHOOSE x \in s : TRUE]]
           sum == CHOOSE it : Sums(value, S, it)
<1>1. \A s \in SUBSET S : s = {} \/ \E y \in S : s = {y} /\ s = S /\ value[y] \in Nat
  OBVIOUS
<1>2. Sums(value, S, zero)
  <2>1. ASSUME NEW s \in SUBSET S, s # {}
        PROVE  LET x == CHOOSE x \in s : TRUE IN
               value[x] = value[x] + zero[s \ {x}]
    <3>1. PICK y \in S : s = {y} /\ value[y] \in Nat
      BY <1>1, <2>1
    <3>2. (CHOOSE x \in s : TRUE) = y
      BY <3>1
    <3>3. zero[s \ {y}] = 0
      BY <3>1
    <3> QED
      BY <3>1, <3>2, <3>3
  <2> QED
    BY <2>1 DEF Sums
<1> HIDE DEF zero
<1>3. Sums(value, S, sum)
  BY <1>2
<1> HIDE DEF sum
<1>4. sum[{}] = 0
  BY <1>3 DEF Sums
<1>5. ASSUME NEW y \in S
      PROVE  sum[S] = value[y] + 0
  <2>1. S = {y} /\ S \in SUBSET S /\ S # {} /\ (CHOOSE x \in S : TRUE) = y
    BY <1>5
  <2>2. sum[S] = value[y] + sum[S \ {y}]
    BY <1>3, <2>1 DEF Sums
  <2> QED
    BY <1>4, <2>1, <2>2
<1>6. sum[S] \in Nat
  <2>1. CASE S = {}
    BY <1>4, <2>1
  <2>2. CASE S # {}
    BY <1>5, <2>2
  <2> QED
    BY <2>1, <2>2
<1> QED
  BY <1>6 DEF sum, Total

\* The points for the tag a word stands for, and for the size that is asked for.
LEMMA TagSum ==
  ASSUME NEW S \in SUBSET DOMAIN Weight, \A x, y \in S : x = y
  PROVE  MapThenSumSet(LAMBDA tag : Weight[tag], S) \in Nat
<1>1. MapThenSumSet(LAMBDA tag : Weight[tag], S) = Total(Weight, S)
  BY DEF MapThenSumSet, MapThenFoldSet, Total, Sums
<1>2. \A y \in S : S = {y} /\ Weight[y] \in Nat
  BY DEF Weight
<1> QED
  BY <1>1, <1>2, OneSummand

LEMMA SizePointsIsANumber ==
  ASSUME NEW item, NEW size
  PROVE  SizePoints(item, size) \in Nat
BY DEF SizePoints

SizesSum(item, S) == MapThenSumSet(LAMBDA size : SizePoints(item, size), S)

LEMMA SizeSum ==
  ASSUME NEW item, NEW S, \A x, y \in S : x = y
  PROVE  SizesSum(item, S) \in Nat
<1> DEFINE value == [x \in S |-> SizePoints(item, x)]
           Mine(it) == it = [s \in SUBSET S |->
                  IF s = {} THEN 0
                  ELSE LET x == CHOOSE x \in s : TRUE IN SizePoints(item, x) + it[s \ {x}]]
<1>1. SizesSum(item, S) = (CHOOSE it : Mine(it))[S]
  BY DEF SizesSum, MapThenSumSet, MapThenFoldSet
<1>2. ASSUME NEW it
      PROVE  Mine(it) <=> Sums(value, S, it)
  <2>1. ASSUME NEW s \in SUBSET S, s # {}
        PROVE  SizePoints(item, CHOOSE x \in s : TRUE) = value[CHOOSE x \in s : TRUE]
    BY <2>1
  <2> HIDE DEF value
  <2> QED
    BY <2>1 DEF Sums
<1>3. (CHOOSE it : Mine(it)) = (CHOOSE it : Sums(value, S, it))
  <2> HIDE DEF Mine, value
  <2> QED
    BY <1>2
<1>4. \A y \in S : S = {y} /\ value[y] \in Nat
  BY SizePointsIsANumber
<1>5. Total(value, S) \in Nat
  BY <1>4, OneSummand
<1> QED
  BY <1>1, <1>3, <1>5 DEF Total

\* Whoever is sorted has a place.
LEMMA EveryoneIsSorted ==
  ASSUME NEW in \in SUBSET Nat, IsFiniteSet(in), NEW before, Weak(in, before), NEW i \in in
  PROVE  \E n \in DOMAIN Sorted(in, before) : Sorted(in, before)[n] = i
<1> DEFINE m == Cardinality(in)
           rank == Cardinality(Ahead(in, before, i))
<1>1. m \in Nat
  BY FS_CardinalityType
<1>2. ASSUME NEW k \in in
      PROVE  /\ IsFiniteSet(Ahead(in, before, k))
             /\ Cardinality(Ahead(in, before, k)) \in Nat
             /\ Cardinality(Ahead(in, before, k)) <= m - 1
  <2>1. Ahead(in, before, k) \subseteq in \ {k}
    BY DEF Ahead, Weak
  <2>2. IsFiniteSet(in \ {k}) /\ Cardinality(in \ {k}) = m - 1
    BY FS_RemoveElement
  <2>3. /\ IsFiniteSet(Ahead(in, before, k))
        /\ Cardinality(Ahead(in, before, k)) <= Cardinality(in \ {k})
    BY <2>1, <2>2, FS_Subset
  <2> QED
    BY <2>2, <2>3, FS_CardinalityType
<1>3. rank + 1 \in 1 .. m /\ (rank + 1) - 1 = rank
  BY <1>1, <1>2
<1> DEFINE k == Sorted(in, before)[rank + 1]
<1>4. k \in in /\ Cardinality(Ahead(in, before, k)) = rank
  BY <1>3, SortedPlaces
<1> HIDE DEF k
<1>5. ASSUME NEW x \in in, NEW y \in in, x \in Ahead(in, before, y), x # y
      PROVE  Cardinality(Ahead(in, before, x)) # Cardinality(Ahead(in, before, y))
  <2>1. /\ Ahead(in, before, x) \subseteq Ahead(in, before, y)
        /\ x \notin Ahead(in, before, x)
    BY <1>5, AheadIsLinear
  <2>2. Cardinality(Ahead(in, before, x)) = Cardinality(Ahead(in, before, y))
          => Ahead(in, before, y) = Ahead(in, before, x)
    BY <1>2, <2>1, FS_Subset
  <2> QED
    BY <1>5, <2>1, <2>2
<1>6. k = i
  BY <1>4, <1>5, AheadIsLinear
<1>7. rank + 1 \in DOMAIN Sorted(in, before)
  BY <1>3, SortedPlaces
<1> QED
  BY <1>6, <1>7 DEF k

\* The points for a word are a number.
LEMMA QuotientIsANumber ==
  ASSUME NEW x \in Nat, NEW y \in Nat, y > 0
  PROVE  Nearest(x, y) \in Nat
<1> DEFINE p == 2 * x + y
           q == 2 * y
<1>1. p \in Nat /\ q \in Nat /\ q > 0
  OBVIOUS
<1> HIDE DEF p, q
<1>2. p \div q \in Nat
  BY <1>1
<1> QED
  BY <1>2 DEF Nearest, p, q

LEMMA TrigramIsANumber ==
  ASSUME NEW a \in Words, NEW b \in Words
  PROVE  TrigramPoints(a, b) \in Nat
<1> DEFINE places == {i \in 1 .. Len(b) + 2 : GetTrigrams(b)[i] \in Range(GetTrigrams(a))}
           common == Cardinality(places)
           all == Len(a) + Len(b) + 4
<1>1. Len(a) \in Nat /\ Len(b) \in Nat
  BY WordFacts
<1>2. IsFiniteSet(places)
  <2>1. IsFiniteSet(1 .. Len(b) + 2)
    BY <1>1, FS_Interval
  <2> QED
    BY <2>1, FS_Subset
<1>3. common \in Nat /\ all \in Nat /\ all > 0
  BY <1>1, <1>2, FS_CardinalityType
<1> HIDE DEF common, all
<1>4. 120 * common \in Nat
  BY <1>3
<1>5. Nearest(120 * common, all) \in Nat
  BY <1>3, <1>4, QuotientIsANumber
<1> QED
  BY <1>5 DEF TrigramPoints, common, all

\* Whoever has the name that is looked for has points.
LEMMA WordPointsAre ==
  ASSUME NEW item, item.name \in Words, NEW token \in Words
  PROVE  /\ WordPoints(item, token) \in Nat
         /\ item.name = token => WordPoints(item, token) >= 150
<1> DEFINE t == TrigramPoints(token, item.name)
           points(is, n) == IF is THEN n ELSE 0
<1>1. t \in Nat
  BY TrigramIsANumber
<1>2. ASSUME NEW is, NEW n \in Nat
      PROVE  points(is, n) \in Nat
  OBVIOUS
<1> HIDE DEF t
<1>3. ASSUME NEW p1 \in Nat, NEW p2 \in Nat, NEW p3 \in Nat, NEW p4 \in Nat, NEW p5 \in Nat,
             NEW p6 \in Nat, NEW p7 \in Nat, NEW p8 \in Nat, NEW p9 \in Nat
      PROVE  /\ p1 + p2 + p3 + p4 + p5 + p6 + p7 + p8 + p9 + t \in Nat
             /\ p1 + p2 + p3 + p4 + p5 + p6 + p7 + p8 + p9 + t >= p1
  BY <1>1
<1> QED
  BY <1>2, <1>3 DEF WordPoints, t

\* What is asked of the index, and what its carpets are.
Asked(query) ==
  /\ query.token \in Words
  /\ query.tags \subseteq DOMAIN Weight /\ \A x, y \in query.tags : x = y
  /\ \A x, y \in query.sizes : x = y

\* So are the points of a carpet, and whoever has the name has some.
LEMMA ScoreIs ==
  ASSUME NEW item, item.name \in Words, NEW query, Asked(query)
  PROVE  /\ Score(item, query) \in Nat
         /\ item.name = query.token => Score(item, query) > 0
<1> DEFINE tagged == query.tags \cap item.tags
           t == MapThenSumSet(LAMBDA tag : Weight[tag], tagged)
           s == SizesSum(item, query.sizes)
           w == WordPoints(item, query.token)
<1>1. tagged \in SUBSET DOMAIN Weight /\ \A x, y \in tagged : x = y
  BY DEF Asked
<1>2. t \in Nat
  BY <1>1, TagSum
<1>3. s \in Nat
  <2>1. \A x, y \in query.sizes : x = y
    BY DEF Asked
  <2> QED
    BY <2>1, SizeSum
<1>4. w \in Nat /\ (item.name = query.token => w >= 150)
  BY WordPointsAre DEF Asked
<1>5. Score(item, query) = t + w + s
  BY DEF Score, SizesSum
<1> HIDE DEF t, s, w
<1> QED
  BY <1>2, <1>3, <1>4, <1>5

\* A carpet of the index.
LEMMA RowOfIndex ==
  ASSUME NEW index \in Indexes, NEW i \in DOMAIN index
  PROVE  /\ Len(index) \in Nat /\ DOMAIN index = 1 .. Len(index) /\ i \in 1 .. Len(index)
         /\ index[i].name \in Words /\ index[i].code \in Words /\ index[i].brand \in Words
         /\ index[i].likes \in Nat /\ IsFiniteSet(index[i].pieces)
         /\ BuildSearchIndex(index[i]).name = index[i].name
         /\ (\E p \in index[i].pieces : p.on)
              => \E p \in BuildSearchIndex(index[i]).pieces : p.stock > 0
<1> DEFINE row == index[i]
           seen == BuildSearchIndex(row)
<1>1. index \in Seq(IndexRow)
  BY IndexAssumption
<1>2. Len(index) \in Nat /\ DOMAIN index = 1 .. Len(index) /\ row \in IndexRow
  BY <1>1, LenProperties
<1>3. IsFiniteSet(row.pieces)
  BY IndexAssumption
<1> HIDE DEF row
<1>4. /\ row.name \in Words /\ row.code \in Words /\ row.brand \in Words /\ row.likes \in Nat
  BY <1>2 DEF IndexRow
<1> DEFINE stock(p) == Cardinality({x \in row.pieces : x.on /\ x.w = p.w /\ x.l = p.l})
<1>5. /\ seen.name = row.name
      /\ seen.pieces = {[w |-> p.w, l |-> p.l, stock |-> stock(p)] : p \in row.pieces}
  BY <1>2 DEF BuildSearchIndex, IndexRow
<1>6. ASSUME NEW p \in row.pieces, p.on
      PROVE  \E x \in seen.pieces : x.stock > 0
  <2> DEFINE S == {x \in row.pieces : x.on /\ x.w = p.w /\ x.l = p.l}
             sale == [w |-> p.w, l |-> p.l, stock |-> stock(p)]
  <2>1. p \in S
    BY <1>6
  <2>2. IsFiniteSet(S)
    BY <1>3, FS_Subset
  <2>3. Cardinality(S) \in Nat /\ Cardinality(S) # 0
    BY <2>1, <2>2, FS_CardinalityType, FS_EmptySet
  <2>4. sale \in seen.pieces
    BY <1>5
  <2>5. sale.stock > 0
    BY <2>3
  <2> HIDE DEF sale
  <2> QED
    BY <2>4, <2>5
<1> HIDE DEF seen
<1> QED
  BY <1>2, <1>3, <1>4, <1>5, <1>6 DEF row, seen

\* The words of an index: every name is one of them.
LEMMA TermsAre ==
  ASSUME NEW index \in Indexes
  PROVE  /\ TermsOf(index) \in Seq(Words)
         /\ \A i \in DOMAIN index : index[i].name \in Range(TermsOf(index))
<1> DEFINE size == 3 * Len(index)
<1>1. index \in Seq(IndexRow) /\ Len(index) \in Nat /\ DOMAIN index = 1 .. Len(index)
      /\ size \in Nat
  BY IndexAssumption, LenProperties
<1>2. ASSUME NEW n \in 1 .. size
      PROVE  TermsOf(index)[n] \in Words
  <2> DEFINE k == (n + 2) \div 3
  <2>1. k \in 1 .. Len(index)
    BY <1>1
  <2> HIDE DEF k
  <2>2. index[k].name \in Words /\ index[k].code \in Words /\ index[k].brand \in Words
    BY <1>1, <2>1, RowOfIndex
  <2>3. TermsOf(index)[n] = CASE n % 3 = 1 -> index[k].name
                              [] n % 3 = 2 -> index[k].code [] OTHER -> index[k].brand
    BY DEF TermsOf, k
  <2> QED
    BY <2>2, <2>3
<1>3. DOMAIN TermsOf(index) = 1 .. size
  BY DEF TermsOf
<1>4. TermsOf(index) \in [1 .. size -> Words]
  <2>1. TermsOf(index) = [n \in 1 .. size |-> TermsOf(index)[n]]
    BY DEF TermsOf
  <2> HIDE DEF size
  <2> QED
    BY <1>2, <2>1
<1>5. TermsOf(index) \in Seq(Words)
  <2> HIDE DEF size
  <2> QED
    BY <1>1, <1>4, SeqDef
<1>6. ASSUME NEW i \in DOMAIN index
      PROVE  index[i].name \in Range(TermsOf(index))
  <2> DEFINE n == 3 * i - 2
  <2>1. n \in 1 .. size /\ n % 3 = 1 /\ (n + 2) \div 3 = i
    BY <1>1
  <2> HIDE DEF n, size
  <2>2. TermsOf(index)[n] = index[i].name
    BY <2>1 DEF TermsOf, size
  <2> QED
    BY <1>3, <2>1, <2>2 DEF Range
<1> QED
  BY <1>5, <1>6

\* The sort of the search: more points, then more likes.
Better(points, index, i, j) ==
  \/ points[i] > points[j]
  \/ points[i] = points[j] /\ index[i].likes > index[j].likes

LEMMA BetterIsWeak ==
  ASSUME NEW found, NEW points, NEW index,
         \A i \in found : points[i] \in Nat /\ index[i].likes \in Nat
  PROVE  Weak(found, {p \in found \X found : Better(points, index, p[1], p[2])})
<1> DEFINE before == {p \in found \X found : Better(points, index, p[1], p[2])}
<1>1. \A i, j \in found : <<i, j>> \in before <=> Better(points, index, i, j)
  OBVIOUS
<1> HIDE DEF before
<1>2. \A i \in found : <<i, i>> \notin before
  BY <1>1 DEF Better
<1>3. ASSUME NEW i \in found, NEW j \in found, NEW k \in found,
             Better(points, index, i, j), Better(points, index, j, k)
      PROVE  Better(points, index, i, k)
  BY <1>3 DEF Better
<1>4. ASSUME NEW i \in found, NEW j \in found, NEW k \in found,
             ~ Better(points, index, i, j), ~ Better(points, index, j, k)
      PROVE  ~ Better(points, index, i, k)
  BY <1>4 DEF Better
<1>5. Weak(found, before)
  BY <1>1, <1>2, <1>3, <1>4 DEF Weak
<1> QED
  BY <1>5 DEF before

\* The word is corrected to the name, so the carpet has points, and a place in the answer.
LEMMA TypoFinds ==
  ASSUME NEW index \in Indexes, NEW word \in Words, NEW sizes, NEW onlyAvailable,
         \A x, y \in sizes : x = y, NEW i \in DOMAIN index,
         Len(word) >= 3, GetLevenshteinDistance(word, index[i].name) <= 2,
         \A t \in Range(TermsOf(index)) \ {index[i].name} :
           GetLevenshteinDistance(word, t) > GetLevenshteinDistance(word, index[i].name),
         onlyAvailable => \E p \in index[i].pieces : p.on
  PROVE  index[i] \in Range(SearchFor(index, word, sizes, onlyAvailable))
<1> DEFINE read == ParseQuery(CorrectTypos(word, TermsOf(index)))
           query == [token |-> read.token, tags |-> read.tags, sizes |-> sizes]
           seen == [k \in DOMAIN index |-> BuildSearchIndex(index[k])]
           points == [k \in DOMAIN index |-> Score(seen[k], query)]
           found == {k \in DOMAIN index :
                       /\ points[k] > 0
                       /\ onlyAvailable => \E p \in seen[k].pieces : p.stock > 0}
           before == {p \in found \X found : Better(points, index, p[1], p[2])}
           order == Sorted(found, before)
<1>1. SearchFor(index, word, sizes, onlyAvailable) = [n \in DOMAIN order |-> index[order[n]]]
  BY DEF SearchFor, Better
<1>2. /\ index[i].name \in Words /\ TermsOf(index) \in Seq(Words)
      /\ index[i].name \in Range(TermsOf(index))
  BY RowOfIndex, TermsAre
<1>3. CorrectTypos(word, TermsOf(index)) = index[i].name
  BY <1>2, Corrected
<1>4. Asked(query) /\ query.token = index[i].name
  <2>1. read.token = index[i].name
    BY <1>3 DEF ParseQuery
  <2>2. read.tags \subseteq DOMAIN Weight /\ \A x, y \in read.tags : x = y
    BY <1>3, IndexAssumption DEF ParseQuery
  <2> HIDE DEF read
  <2> QED
    BY <1>2, <2>1, <2>2 DEF Asked
<1> HIDE DEF query
<1>5. ASSUME NEW k \in DOMAIN index
      PROVE  /\ points[k] \in Nat /\ index[k].likes \in Nat /\ k \in 1 .. Len(index)
             /\ index[k].name = query.token => points[k] > 0
  <2>1. seen[k].name = index[k].name /\ seen[k].name \in Words
    BY RowOfIndex
  <2>2. Score(seen[k], query) \in Nat /\ (seen[k].name = query.token => Score(seen[k], query) > 0)
    BY <1>4, <2>1, ScoreIs
  <2> HIDE DEF seen
  <2> QED
    BY <2>1, <2>2, RowOfIndex
<1>6. i \in found
  <2>1. onlyAvailable => \E p \in seen[i].pieces : p.stock > 0
    BY RowOfIndex
  <2> HIDE DEF seen, points
  <2> QED
    BY <1>4, <1>5, <2>1
<1>7. found \in SUBSET Nat /\ IsFiniteSet(found)
  <2>1. found \subseteq 1 .. Len(index) /\ Len(index) \in Nat
    BY RowOfIndex
  <2> HIDE DEF found
  <2>2. IsFiniteSet(1 .. Len(index))
    <3>1. 1 \in Int /\ Len(index) \in Int
      BY <2>1
    <3> QED
      BY <3>1, FS_Interval
  <2>3. found \subseteq Nat
    BY <2>1
  <2> QED
    BY <2>1, <2>2, <2>3, FS_Subset
<1>8. \A k \in found : k \in DOMAIN index
  OBVIOUS
<1> HIDE DEF found, points
<1>9. Weak(found, before)
  BY <1>5, <1>8, BetterIsWeak
<1> HIDE DEF before
<1>10. PICK n \in DOMAIN order : order[n] = i
  BY <1>6, <1>7, <1>9, EveryoneIsSorted
<1> HIDE DEF order
<1> QED
  BY <1>1, <1>10 DEF Range

\* The same, with the distances written as the property writes them.
LEMMA SearchedRight ==
  ASSUME NEW index \in Indexes, NEW word \in Words, NEW sizes, NEW onlyAvailable,
         \A x, y \in sizes : x = y
  PROVE  LET ball == Around(word)
             at(t) == Least({k \in DOMAIN ball : t \in ball[k]})
         IN \A i \in DOMAIN index :
              LET item == index[i] IN
              /\ Len(word) >= 3 /\ at(item.name) <= 2
              /\ \A t \in Range(TermsOf(index)) \ {item.name} : at(t) > at(item.name)
              /\ onlyAvailable => \E p \in item.pieces : p.on
              => item \in Range(SearchFor(index, word, sizes, onlyAvailable))
<1> DEFINE ball == Around(word)
           at(t) == Least({k \in DOMAIN ball : t \in ball[k]})
<1>1. ASSUME NEW t \in Words
      PROVE  at(t) = GetLevenshteinDistance(word, t)
  BY FewestEdits
<1> HIDE DEF at
<1>2. ASSUME NEW i \in DOMAIN index,
             Len(word) >= 3, at(index[i].name) <= 2,
             \A t \in Range(TermsOf(index)) \ {index[i].name} : at(t) > at(index[i].name),
             onlyAvailable => \E p \in index[i].pieces : p.on
      PROVE  index[i] \in Range(SearchFor(index, word, sizes, onlyAvailable))
  <2>1. index[i].name \in Words /\ \A t \in Range(TermsOf(index)) : t \in Words
    <3>1. index[i].name \in Words /\ TermsOf(index) \in Seq(Words)
      BY RowOfIndex, TermsAre
    <3> QED
      BY <3>1, LenProperties DEF Range
  <2>2. /\ GetLevenshteinDistance(word, index[i].name) <= 2
        /\ \A t \in Range(TermsOf(index)) \ {index[i].name} :
             GetLevenshteinDistance(word, t) > GetLevenshteinDistance(word, index[i].name)
    BY <1>1, <1>2, <2>1
  <2> QED
    BY <1>2, <2>2, TypoFinds
<1> QED
  BY <1>2 DEF at

(***************************************************************************)
(* What is answered                                                        *)
(***************************************************************************)
\* What was asked may be asked, and what is answered is what the search finds.
AnswerInv ==
  /\ part # "search" => answer = {}
  /\ part = "search" => question \in Questions
  /\ answer # {} /\ question.kind = "shelf" =>
       answer = {ExecuteFallbackSearch(question.q, question.shelf)}
  /\ answer # {} /\ question.kind = "size" =>
       answer = {SizeAnswer(question.a, question.b)}
  /\ answer # {} /\ question.kind = "words" =>
       answer = {WordAnswer(question.a, question.b)}
  /\ answer # {} /\ question.kind = "search" =>
       answer = {SearchFor(question.index, question.word, question.sizes,
                           question.onlyAvailable)}

LEMMA InitAnswer == Init => AnswerInv
BY DEF Init, SearchInit, AnswerInv

LEMMA NextAnswer == AnswerInv /\ [Next /\ UNCHANGED part]_vars => AnswerInv'
<1> SUFFICES ASSUME AnswerInv, [Next /\ UNCHANGED part]_vars
             PROVE  AnswerInv'
  OBVIOUS
<1>1. CASE part = "search" /\ SearchNext /\ UNCHANGED part
  <2>1. answer = {} /\ UNCHANGED <<question, part>> /\ question \in Questions
    BY <1>1 DEF SearchNext, Answer, AnswerInv
  <2>2. question.kind = "shelf" =>
          answer' = {ExecuteFallbackSearch(question.q, question.shelf)}
    BY <1>1 DEF SearchNext, Answer
  <2>3. question.kind = "size" => answer' = {SizeAnswer(question.a, question.b)}
    BY <1>1 DEF SearchNext, Answer
  <2>4. question.kind = "words" => answer' = {WordAnswer(question.a, question.b)}
    BY <1>1 DEF SearchNext, Answer
  <2>5. question.kind = "search" =>
          answer' = {SearchFor(question.index, question.word, question.sizes,
                               question.onlyAvailable)}
    BY <1>1 DEF SearchNext, Answer
  <2> QED
    BY <1>1, <2>1, <2>2, <2>3, <2>4, <2>5 DEF AnswerInv
<1>2. CASE UNCHANGED <<question, answer, part>>
  BY <1>2 DEF AnswerInv
<1> QED
  BY <1>1, <1>2 DEF Next, vars, searchVars

LEMMA AnswersKept == Spec => []AnswerInv
<1>1. Init => AnswerInv
  BY InitAnswer
<1>2. AnswerInv /\ [Next /\ UNCHANGED part]_vars => AnswerInv'
  BY NextAnswer
<1> QED
  BY <1>1, <1>2, PTL DEF Spec

\* In whatever order the database returns the shelves, executeFallbackSearch
\* offers the same carpets in the same order.
THEOREM OffersAreDeterministic == Spec => []RankingDeterministic
<1>1. AnswerInv => RankingDeterministic
  <2> SUFFICES ASSUME AnswerInv, answer # {}, question.kind = "shelf",
                      NEW found \in answer, NEW shelf \in Orders(question.shelf)
               PROVE  ExecuteFallbackSearch(question.q, shelf) = found
    BY DEF RankingDeterministic, Answers
  <2>1. question \in Questions
    BY DEF AnswerInv
  <2>2. question.q \in Wanted /\ question.shelf \in Shelves
    BY <2>1 DEF Questions
  <2>3. found = ExecuteFallbackSearch(question.q, question.shelf)
    BY DEF AnswerInv
  <2> QED
    BY <2>2, <2>3, SameOffer
<1> QED
  BY <1>1, AnswersKept, PTL

\* The search, the import, BASKO and the prices read a plain size as the same one.
THEOREM ReadersAgree == Spec => []SizesAgree
<1>1. AnswerInv => SizesAgree
  <2> SUFFICES ASSUME AnswerInv, answer # {}, question.kind = "size", NEW read \in answer,
                      Plain(question.a), Plain(question.b)
               PROVE  SameSize(read, {Centimetres(question.a), Centimetres(question.b)})
    BY DEF SizesAgree, Answers
  <2>1. question \in Questions
    BY DEF AnswerInv
  <2>2. question.a \in Nat /\ question.b \in Nat
    BY <2>1, SearchAssumption DEF Questions
  <2>3. read = SizeAnswer(question.a, question.b)
    BY DEF AnswerInv
  <2> QED
    BY <2>2, <2>3, PlainSize
<1> QED
  BY <1>1, AnswersKept, PTL

\* getLevenshteinDistance computes what it is named for: the least number of letters
\* to remove, insert or replace between two words, none of them too long to be read.
THEOREM DistanceIsFewestEdits ==
  \A a, b \in Words :
    GetLevenshteinDistance(a, b) = Least({k \in DOMAIN Around(a) : b \in Around(a)[k]})
BY FewestEdits

\* Sizes, words and typing errors are read right: the readers of a plain size agree, a
\* distance is the least number of edits, a word is corrected to a known one at most two
\* edits away, and with at most two errors it finds the carpet whose name it is.
THEOREM EverythingIsReadRight == Spec => []ReadsRight
<1>1. AnswerInv => EditsAreFewest
  <2> SUFFICES ASSUME AnswerInv, answer # {}, question.kind = "words", NEW read \in answer
               PROVE  LET ball == Around(question.a)
                          fewest == Least({k \in DOMAIN ball : question.b \in ball[k]})
                      IN /\ read.distance = fewest
                         /\ read.corrected = IF Len(question.a) >= 3 /\ fewest <= 2
                                             THEN question.b ELSE question.a
    BY DEF EditsAreFewest, Answers
  <2>1. question.a \in Words /\ question.b \in Words
    BY DEF AnswerInv, Questions
  <2>2. read = WordAnswer(question.a, question.b)
    BY DEF AnswerInv
  <2> QED
    BY <2>1, <2>2, FewestIsRead
<1>2. AnswerInv => TypoStillFinds
  <2> SUFFICES ASSUME AnswerInv, answer # {}, question.kind = "search", NEW found \in answer
               PROVE  LET ball == Around(question.word)
                          at(t) == Least({k \in DOMAIN ball : t \in ball[k]})
                      IN \A i \in DOMAIN question.index :
                           LET item == question.index[i] IN
                           /\ Len(question.word) >= 3 /\ at(item.name) <= 2
                           /\ \A t \in Range(TermsOf(question.index)) \ {item.name} :
                                at(t) > at(item.name)
                           /\ question.onlyAvailable => \E p \in item.pieces : p.on
                           => item \in Range(found)
    BY DEF TypoStillFinds, Answers
  <2>1. question \in Questions
    BY DEF AnswerInv
  <2>2. /\ question.index \in Indexes /\ question.word \in Words
        /\ \A x, y \in question.sizes : x = y
    BY <2>1 DEF Questions
  <2>3. found = SearchFor(question.index, question.word, question.sizes,
                          question.onlyAvailable)
    BY DEF AnswerInv
  <2> QED
    BY <2>2, <2>3, SearchedRight
<1>3. SizesAgree /\ EditsAreFewest /\ TypoStillFinds => ReadsRight
  BY DEF ReadsRight
<1> QED
  BY <1>1, <1>2, <1>3, AnswersKept, ReadersAgree, PTL
=============================================================================
