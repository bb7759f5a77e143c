--------------------------- MODULE CdrListsProofs ---------------------------
(***************************************************************************)
(* A set of ids listed in the order of a sequence: each once, and in the   *)
(* order in which they first come there.                                   *)
(***************************************************************************)
EXTENDS CdrLists, TLAPS, FiniteSetTheorems, SequenceTheorems

LEMMA FiniteRange ==
  ASSUME NEW X, NEW s \in Seq(X)
  PROVE  /\ IsFiniteSet(ToSet(s)) /\ ToSet(s) \subseteq X
         /\ \A x \in ToSet(s) : \E k \in 1..Len(s) : s[k] = x
         /\ Cardinality(ToSet(s)) <= Len(s)
<1>. DEFINE f == [k \in 1..Len(s) |-> s[k]]
<1>1. Len(s) \in Nat /\ DOMAIN s = 1..Len(s) /\ \A k \in 1..Len(s) : s[k] \in X
  OBVIOUS
<1>2. f \in Surjection(1..Len(s), ToSet(s))
  BY <1>1 DEF ToSet, Surjection
<1>3. IsFiniteSet(1..Len(s)) /\ Cardinality(1..Len(s)) = Len(s)
  <2>1. PICK n : n = Len(s)
    OBVIOUS
  <2>2. 1 \in Int /\ n \in Int /\ n >= 0
    BY <1>1, <2>1
  <2>3. IsFiniteSet(1..n) /\ Cardinality(1..n) = IF 1 > n THEN 0 ELSE n - 1 + 1
    BY <2>2, FS_Interval
  <2>4. Cardinality(1..n) = n
    BY <2>2, <2>3
  <2>. QED  BY <2>1, <2>3, <2>4
<1>4. IsFiniteSet(ToSet(s)) /\ Cardinality(ToSet(s)) <= Len(s)
  BY <1>2, <1>3, FS_Surjection
<1>. QED  BY <1>1, <1>4 DEF ToSet

RankBy(T, key) == [x \in T |-> Cardinality({y \in T : key[y] <= key[x]})]

\* Ranks by a key that tells the members apart are 1, 2, ... without a gap.
LEMMA RankProperties ==
  ASSUME NEW T, IsFiniteSet(T), NEW key \in [T -> Int],
         \A x, y \in T : x # y => key[x] # key[y],
         NEW rank, rank = RankBy(T, key)
  PROVE  /\ Cardinality(T) \in Nat
         /\ \A x \in T : rank[x] \in 1..Cardinality(T)
         /\ \A x, y \in T : key[x] < key[y] => rank[x] < rank[y]
         /\ \A k \in 1..Cardinality(T) : \E x \in T : rank[x] = k
<1>. DEFINE Upto(x) == {y \in T : key[y] <= key[x]}
            n == Cardinality(T)
<1>1. n \in Nat
  BY FS_CardinalityType
<1>2. ASSUME NEW x \in T
      PROVE  /\ IsFiniteSet(Upto(x)) /\ Cardinality(Upto(x)) \in 1..n
             /\ rank[x] = Cardinality(Upto(x))
  <2>1. IsFiniteSet(Upto(x)) /\ Cardinality(Upto(x)) <= n
    <3>1. Upto(x) \subseteq T
      OBVIOUS
    <3>. QED  BY <3>1, FS_Subset
  <2>2. x \in Upto(x)
    OBVIOUS
  <2>3. Cardinality(Upto(x)) \in Nat /\ Cardinality(Upto(x)) # 0
    BY <2>1, <2>2, FS_CardinalityType, FS_EmptySet
  <2>4. rank[x] = Cardinality(Upto(x))
    BY Zenon DEF RankBy
  <2>. HIDE DEF Upto
  <2>. QED  BY <1>1, <2>1, <2>3, <2>4
<1>3. ASSUME NEW x \in T, NEW y \in T, key[x] < key[y]
      PROVE  rank[x] < rank[y]
  <2>1. y \notin Upto(x) /\ Upto(x) \cup {y} \subseteq Upto(y)
    BY <1>3
  <2>2. /\ Cardinality(Upto(x) \cup {y}) = Cardinality(Upto(x)) + 1
        /\ Cardinality(Upto(x) \cup {y}) <= Cardinality(Upto(y))
    <3>1. IsFiniteSet(Upto(x)) /\ IsFiniteSet(Upto(y))
      BY <1>2
    <3>. HIDE DEF Upto
    <3>. QED  BY <2>1, <3>1, FS_AddElement, FS_Subset
  <2>3. /\ rank[x] = Cardinality(Upto(x)) /\ rank[y] = Cardinality(Upto(y))
        /\ rank[x] \in Nat /\ rank[y] \in Nat
    <3>1. rank[x] = Cardinality(Upto(x)) /\ Cardinality(Upto(x)) \in 1..n
      BY <1>2
    <3>2. rank[y] = Cardinality(Upto(y)) /\ Cardinality(Upto(y)) \in 1..n
      BY <1>2
    <3>. HIDE DEF Upto
    <3>. QED  BY <1>1, <3>1, <3>2
  <2>. HIDE DEF Upto
  <2>. QED  BY <2>2, <2>3
<1>4. \A x \in T : rank[x] \in 1..n
  <2>1. SUFFICES ASSUME NEW x \in T  PROVE rank[x] \in 1..n
    OBVIOUS
  <2>2. Cardinality(Upto(x)) \in 1..n /\ rank[x] = Cardinality(Upto(x))
    BY <1>2
  <2>. HIDE DEF Upto
  <2>. QED  BY <2>2
<1>. HIDE DEF Upto
<1>5. rank \in Injection(T, 1..n)
  <2>1. rank \in [T -> 1..n]
    BY <1>4 DEF RankBy
  <2>2. \A x, y \in T : x # y => rank[x] # rank[y]
    <3>1. SUFFICES ASSUME NEW x \in T, NEW y \in T, x # y  PROVE rank[x] # rank[y]
      OBVIOUS
    <3>2. key[x] < key[y] \/ key[y] < key[x]
      BY <3>1
    <3>. QED  BY <1>1, <1>3, <1>4, <3>2
  <2>. QED  BY <2>1, <2>2 DEF Injection, IsInjective
<1>6. IsFiniteSet(1..n) /\ Cardinality(1..n) = n
  BY <1>1, FS_Interval
<1>7. rank \in Surjection(T, 1..n)
  BY <1>5, <1>6, FS_Injection
<1>8. \A k \in 1..n : \E x \in T : rank[x] = k
  BY <1>7 DEF Surjection
<1>. QED  BY <1>1, <1>3, <1>4, <1>8

LEMMA LeastByKey ==
  ASSUME NEW T, IsFiniteSet(T), T # {}, NEW key \in [T -> Int],
         \A x, y \in T : x # y => key[x] # key[y]
  PROVE  \E m \in T : \A n \in T : key[m] <= key[n]
<1>. DEFINE rank == RankBy(T, key)
<1>1. rank = RankBy(T, key)
  OBVIOUS
<1>. HIDE DEF rank
<1>2. /\ Cardinality(T) \in Nat
      /\ \A x \in T : rank[x] \in 1..Cardinality(T)
      /\ \A x, y \in T : key[x] < key[y] => rank[x] < rank[y]
      /\ \A k \in 1..Cardinality(T) : \E x \in T : rank[x] = k
  BY <1>1, RankProperties
<1>3. 1 \in 1..Cardinality(T)
  BY <1>2, FS_EmptySet
<1>4. PICK m \in T : rank[m] = 1
  BY <1>2, <1>3
<1>5. \A n \in T : ~(key[n] < key[m])
  BY <1>2, <1>4
<1>. QED  BY <1>5

LEMMA LeastInteger ==
  ASSUME NEW T, IsFiniteSet(T), T \subseteq Int, T # {}
  PROVE  \E m \in T : \A n \in T : m <= n
<1>. DEFINE key == [x \in T |-> x]
<1>1. key \in [T -> Int] /\ \A x, y \in T : x # y => key[x] # key[y]
  OBVIOUS
<1>2. \A x \in T : key[x] = x
  OBVIOUS
<1>. HIDE DEF key
<1>3. \E m \in T : \A n \in T : key[m] <= key[n]
  BY <1>1, LeastByKey
<1>. QED  BY <1>2, <1>3

\* A member's place is where it first comes.
LEMMA PlaceProperties ==
  ASSUME NEW X, NEW s \in Seq(X), NEW x \in ToSet(s)
  PROVE  /\ Place(s, x) \in 1..Len(s) /\ s[Place(s, x)] = x
         /\ \A j \in 1..(Place(s, x) - 1) : s[j] # x
<1>. DEFINE At1(n) == n \in 1..Len(s) /\ s[n] = x
            T == {n \in 1..Len(s) : s[n] = x}
<1>1. PICK k \in 1..Len(s) : s[k] = x
  BY FiniteRange
<1>2. T # {} /\ IsFiniteSet(T) /\ T \subseteq Int
  <2>1. Len(s) \in Nat
    OBVIOUS
  <2>2. IsFiniteSet(1..Len(s))
    BY <2>1, FS_Interval
  <2>3. T \subseteq 1..Len(s)
    OBVIOUS
  <2>4. IsFiniteSet(T)
    BY <2>2, <2>3, FS_Subset
  <2>. QED  BY <1>1, <2>1, <2>4
<1>3. PICK m \in T : \A n \in T : m <= n
  <2>. HIDE DEF T
  <2>. QED  BY <1>2, LeastInteger
<1>4. \E n \in DOMAIN s : s[n] = x /\ \A j \in 1..(n - 1) : s[j] # x
  <2>1. m \in 1..Len(s) /\ s[m] = x /\ \A n \in 1..Len(s) : s[n] = x => m <= n
    BY <1>3
  <2>2. \A j \in 1..(m - 1) : j \in 1..Len(s) /\ ~(m <= j)
    BY <2>1
  <2>. QED  BY <2>1, <2>2
<1>. QED  BY <1>4 DEF Place

\* All of S, each at the rank that its place in s has among theirs.
IsListing(l, S, s) ==
  /\ l \in Seq(S) /\ Len(l) = Cardinality(S)
  /\ \A k \in 1..Len(l) : Cardinality({y \in S : Place(s, y) <= Place(s, l[k])}) = k
  /\ \A x \in S : \E k \in 1..Len(l) : l[k] = x
  /\ \A j, k \in 1..Len(l) : j < k => Place(s, l[j]) < Place(s, l[k])

LEMMA ListedRanks ==
  ASSUME NEW X, NEW s \in Seq(X), NEW S, S \subseteq ToSet(s), NEW l, l = Listed(S, s)
  PROVE  IsListing(l, S, s)
<1>. DEFINE key == [x \in S |-> Place(s, x)]
            rank == RankBy(S, key)
            n == Cardinality(S)
<1>1. IsFiniteSet(S)
  BY FiniteRange, FS_Subset
<1>2. /\ key \in [S -> Int] /\ \A x \in S : key[x] = Place(s, x)
      /\ \A x, y \in S : x # y => key[x] # key[y]
  <2>1. \A x \in S : Place(s, x) \in 1..Len(s) /\ s[Place(s, x)] = x
    BY PlaceProperties
  <2>. QED  BY <2>1
<1>3. \A x \in S : rank[x] = Cardinality({y \in S : Place(s, y) <= Place(s, x)})
  BY Zenon DEF RankBy
<1>4. rank = RankBy(S, key)
  OBVIOUS
<1>. HIDE DEF key, rank
<1>5. /\ n \in Nat /\ \A x \in S : rank[x] \in 1..n
      /\ \A x, y \in S : key[x] < key[y] => rank[x] < rank[y]
      /\ \A k \in 1..n : \E x \in S : rank[x] = k
  BY <1>1, <1>2, <1>4, RankProperties
<1>6. \A k \in 1..n : l[k] \in S /\ rank[l[k]] = k
  <2>1. SUFFICES ASSUME NEW k \in 1..n  PROVE l[k] \in S /\ rank[l[k]] = k
    BY <2>1
  <2>2. l[k] = CHOOSE x \in S : Cardinality({y \in S : Place(s, y) <= Place(s, x)}) = k
    BY Zenon DEF Listed
  <2>3. \E x \in S : Cardinality({y \in S : Place(s, y) <= Place(s, x)}) = k
    BY <1>3, <1>5
  <2>4. l[k] \in S /\ Cardinality({y \in S : Place(s, y) <= Place(s, l[k])}) = k
    BY <2>2, <2>3
  <2>. QED  BY <1>3, <2>4
<1>7. l \in Seq(S) /\ Len(l) = n
  <2>1. l \in [1..n -> S]
    BY <1>6 DEF Listed
  <2>. QED  BY <1>5, <2>1, SeqDef
<1>8. \A k \in 1..n : Cardinality({y \in S : Place(s, y) <= Place(s, l[k])}) = k
  BY <1>3, <1>6
<1>9. \A x \in S : rank[x] \in 1..n /\ l[rank[x]] = x
  <2>1. SUFFICES ASSUME NEW x \in S  PROVE rank[x] \in 1..n /\ l[rank[x]] = x
    OBVIOUS
  <2>2. PICK k : k = rank[x] /\ k \in 1..n
    BY <1>5
  <2>3. PICK y : y = l[k] /\ y \in S /\ rank[y] = k
    BY <1>6, <2>2
  <2>4. ~(key[x] < key[y]) /\ ~(key[y] < key[x])
    BY <1>5, <2>2, <2>3
  <2>5. x = y
    BY <1>2, <2>3, <2>4
  <2>. QED  BY <2>2, <2>3, <2>5
<1>10. ASSUME NEW j \in 1..n, NEW k \in 1..n, j < k
       PROVE  Place(s, l[j]) < Place(s, l[k])
  <2>1. ~(key[l[k]] < key[l[j]]) /\ l[j] # l[k]
    BY <1>5, <1>6, <1>10
  <2>2. key[l[j]] < key[l[k]]
    BY <1>2, <1>6, <2>1
  <2>. QED  BY <1>2, <1>6, <2>2
<1>. QED  BY <1>7, <1>8, <1>9, <1>10 DEF IsListing

LEMMA ListedProperties ==
  ASSUME NEW X, NEW s \in Seq(X), NEW S, S \subseteq ToSet(s)
  PROVE  /\ Listed(S, s) \in Seq(S)
         /\ \A j, k \in DOMAIN Listed(S, s) :
              j < k => Place(s, Listed(S, s)[j]) < Place(s, Listed(S, s)[k])
<1>1. PICK l : l = Listed(S, s)
  OBVIOUS
<1>2. l \in Seq(S) /\ \A j, k \in 1..Len(l) : j < k => Place(s, l[j]) < Place(s, l[k])
  BY <1>1, ListedRanks DEF IsListing
<1>. QED  BY <1>1, <1>2

\* Members that come in the order of s, before others that repeat them, are
\* listed as s.
LEMMA ListedAgain ==
  ASSUME NEW X, NEW s \in Seq(X), \A j, k \in 1..Len(s) : s[j] = s[k] => j = k,
         NEW r \in Seq(ToSet(s)), Len(r) >= Len(s), \A k \in 1..Len(s) : r[k] = s[k]
  PROVE  Listed(ToSet(s), r) = s
<1>1. PICK S, n : S = ToSet(s) /\ n = Len(s) /\ n \in Nat
  OBVIOUS
<1>2. \A k \in 1..n : s[k] \in S
  BY <1>1 DEF ToSet
<1>3. \A x \in S : \E k \in 1..n : s[k] = x
  BY <1>1, FiniteRange
<1>4. S \subseteq ToSet(r)
  <2>1. SUFFICES ASSUME NEW x \in S  PROVE x \in ToSet(r)
    OBVIOUS
  <2>2. PICK k \in 1..n : s[k] = x
    BY <1>3
  <2>3. k \in 1..Len(r) /\ r[k] = x /\ DOMAIN r = 1..Len(r)
    BY <1>1, <2>2
  <2>. QED  BY <2>3 DEF ToSet
<1>5. \A k \in 1..n : Place(r, s[k]) = k
  <2>1. SUFFICES ASSUME NEW k \in 1..n  PROVE Place(r, s[k]) = k
    OBVIOUS
  <2>2. PICK p : p = Place(r, s[k])
    OBVIOUS
  <2>3. p \in 1..Len(r) /\ r[p] = s[k] /\ \A j \in 1..(p - 1) : r[j] # s[k]
    <3>1. s[k] \in ToSet(r)
      BY <1>2, <1>4
    <3>. QED  BY <2>2, <3>1, PlaceProperties
  <2>4. r[k] = s[k]
    BY <1>1
  <2>5. ~(k \in 1..(p - 1))
    BY <2>3, <2>4
  <2>6. p \in 1..n
    <3>1. p \in Int /\ p >= 1 /\ k \in Int /\ k >= 1 /\ k <= n
      BY <1>1, <2>3
    <3>2. p <= k
      BY <2>5, <3>1
    <3>. QED  BY <1>1, <3>1, <3>2
  <2>7. s[p] = s[k]
    BY <1>1, <2>3, <2>6
  <2>. QED  BY <1>1, <2>2, <2>6, <2>7
<1>6. \A m \in 1..n : Cardinality({y \in S : Place(r, y) <= m}) = m
  <2>1. SUFFICES ASSUME NEW m \in 1..n  PROVE Cardinality({y \in S : Place(r, y) <= m}) = m
    OBVIOUS
  <2>. DEFINE f == [k \in 1..m |-> s[k]]
              U == {y \in S : Place(r, y) <= m}
  <2>2. \A k \in 1..m : k \in 1..n /\ f[k] = s[k]
    BY <1>1
  <2>3. f \in [1..m -> U]
    <3>1. \A k \in 1..m : s[k] \in U
      BY <1>2, <1>5, <2>2
    <3>. QED  BY <3>1
  <2>4. \A j, k \in 1..m : f[j] = f[k] => j = k
    BY <1>1, <2>2
  <2>5. \A y \in U : \E k \in 1..m : f[k] = y
    <3>1. SUFFICES ASSUME NEW y \in U  PROVE \E k \in 1..m : f[k] = y
      OBVIOUS
    <3>2. PICK k \in 1..n : s[k] = y
      BY <1>3
    <3>3. k \in 1..m
      BY <1>5, <3>2
    <3>. QED  BY <2>2, <3>2, <3>3
  <2>. HIDE DEF f, U
  <2>6. f \in Bijection(1..m, U)
    BY <2>3, <2>4, <2>5 DEF Bijection, Injection, Surjection, IsInjective
  <2>7. IsFiniteSet(1..m) /\ Cardinality(1..m) = m
    BY FS_Interval
  <2>8. Cardinality(U) = m
    BY <2>6, <2>7, FS_Bijection DEF ExistsBijection
  <2>. QED  BY <2>8 DEF U
<1>7. PICK l : l = Listed(S, r)
  OBVIOUS
<1>8. /\ l \in Seq(S) /\ Len(l) = Cardinality(S)
      /\ \A k \in 1..Len(l) : Cardinality({y \in S : Place(r, y) <= Place(r, l[k])}) = k
  <2>1. r \in Seq(S)
    BY <1>1
  <2>2. IsListing(l, S, r)
    BY <1>4, <1>7, <2>1, ListedRanks
  <2>. QED  BY Zenon, <2>2 DEF IsListing
<1>9. Cardinality(S) = n
  <2>1. CASE n = 0
    <3>1. S = {}
      BY <1>3, <2>1
    <3>. QED  BY <2>1, <3>1, FS_EmptySet
  <2>2. CASE n # 0
    <3>1. n \in 1..n
      BY <1>1, <2>2
    <3>2. Cardinality({y \in S : Place(r, y) <= n}) = n
      BY <1>6, <3>1
    <3>3. {y \in S : Place(r, y) <= n} = S
      <4>1. \A y \in S : Place(r, y) \in 1..n
        BY <1>3, <1>5
      <4>. QED  BY <1>1, <4>1
    <3>. QED  BY <3>2, <3>3
  <2>. QED  BY <2>1, <2>2
<1>10. \A k \in 1..n : l[k] = s[k]
  <2>1. SUFFICES ASSUME NEW k \in 1..n  PROVE l[k] = s[k]
    OBVIOUS
  <2>2. l[k] \in S /\ Cardinality({y \in S : Place(r, y) <= Place(r, l[k])}) = k
    BY <1>8, <1>9
  <2>3. PICK m \in 1..n : s[m] = l[k]
    BY <1>3, <2>2
  <2>4. Place(r, l[k]) = m
    BY <1>5, <2>3
  <2>5. Cardinality({y \in S : Place(r, y) <= m}) = k
    BY <2>2, <2>4
  <2>. QED  BY <1>6, <2>3, <2>5
<1>. QED  BY <1>1, <1>7, <1>8, <1>9, <1>10

-----------------------------------------------------------------------------
(* Recursion over the naturals.                                            *)

LEMMA EveryNatural ==
  ASSUME NEW T, 0 \in T, \A n \in Nat : n \in T => n + 1 \in T
  PROVE  \A n \in Nat : n \in T
<1>1. SUFFICES ASSUME NEW n \in Nat, n \notin T  PROVE FALSE
  OBVIOUS
<1>. DEFINE Out == {m \in 0..n : m \notin T}
<1>2. Out # {} /\ Out \subseteq Int /\ IsFiniteSet(Out)
  <2>1. IsFiniteSet(0..n) /\ Out \subseteq 0..n
    BY FS_Interval
  <2>. QED  BY <1>1, <2>1, FS_Subset
<1>3. PICK m \in Out : \A k \in Out : m <= k
  <2>. HIDE DEF Out
  <2>. QED  BY <1>2, LeastInteger
<1>4. m \in 0..n /\ m # 0 /\ m \notin T
  OBVIOUS
<1>5. m - 1 \in Nat /\ m - 1 \in 0..n /\ ~(m <= m - 1)
  BY <1>4
<1>6. m - 1 \in T
  BY <1>3, <1>5
<1>. QED  BY <1>4, <1>5, <1>6

\* FlattenSeq goes through ss from its first sequence on.
Flattens(g, ss, n) ==
  /\ g = [i \in 1..n |-> g[i]]
  /\ \A i \in 1..n : g[i] = IF i = 1 THEN ss[i] ELSE g[i - 1] \o ss[i]

LEMMA FlattenExists ==
  ASSUME NEW ss
  PROVE  \A n \in Nat : \E g : Flattens(g, ss, n)
<1>. DEFINE T == {n \in Nat : \E g : Flattens(g, ss, n)}
<1>1. 0 \in T
  <2>1. Flattens([i \in 1..0 |-> 0], ss, 0)
    BY DEF Flattens
  <2>. QED  BY <2>1
<1>2. ASSUME NEW n \in Nat, n \in T  PROVE n + 1 \in T
  <2>1. PICK g : Flattens(g, ss, n)
    BY <1>2
  <2>. DEFINE h == [i \in 1..(n + 1) |->
                      IF i = 1 THEN ss[i] ELSE IF i \in 1..n THEN g[i] ELSE g[i - 1] \o ss[i]]
  <2>2. h = [i \in 1..(n + 1) |-> h[i]]
    OBVIOUS
  <2>3. ASSUME NEW i \in 1..(n + 1), i # 1  PROVE h[i] = h[i - 1] \o ss[i]
    <3>1. i - 1 \in 1..n /\ i - 1 \in 1..(n + 1)
      BY <2>3
    <3>2. h[i - 1] = g[i - 1]
      BY <2>1, <3>1 DEF Flattens
    <3>3. CASE i \in 1..n
      BY <2>1, <2>3, <3>2, <3>3 DEF Flattens
    <3>4. CASE i \notin 1..n
      BY <2>3, <3>2, <3>4
    <3>. QED  BY <3>3, <3>4
  <2>4. 1 \in 1..(n + 1) => h[1] = ss[1]
    OBVIOUS
  <2>. HIDE DEF h
  <2>5. Flattens(h, ss, n + 1)
    BY <2>2, <2>3, <2>4 DEF Flattens
  <2>. QED  BY <2>5
<1>. HIDE DEF T
<1>3. \A n \in Nat : n \in T
  BY <1>1, <1>2, EveryNatural
<1>. QED  BY <1>3 DEF T

\* It begins with the first of the sequences and has only what is in them.
LEMMA FlattenProperties ==
  ASSUME NEW X, NEW ss \in Seq(Seq(X))
  PROVE  /\ FlattenSeq(ss) \in Seq(X)
         /\ ss # <<>> =>
              /\ Len(FlattenSeq(ss)) >= Len(ss[1])
              /\ \A k \in 1..Len(ss[1]) : FlattenSeq(ss)[k] = ss[1][k]
<1>1. CASE ss = <<>>
  <2>1. Len(ss) = 0
    BY <1>1
  <2>2. FlattenSeq(ss) = ss
    BY <2>1 DEF FlattenSeq
  <2>3. FlattenSeq(ss) \in Seq(X)
    <3>1. <<>> \in Seq(X)
      OBVIOUS
    <3>. QED  BY Zenon, <1>1, <2>2, <3>1
  <2>. QED  BY Zenon, <1>1, <2>3
<1>2. CASE ss # <<>>
  <2>. DEFINE G == CHOOSE g : g = [i \in 1..Len(ss) |-> IF i = 1 THEN ss[i] ELSE g[i - 1] \o ss[i]]
  <2>1. Len(ss) \in Nat /\ Len(ss) # 0 /\ \A i \in 1..Len(ss) : ss[i] \in Seq(X)
    BY <1>2
  <2>2. FlattenSeq(ss) = G[Len(ss)]
    BY <2>1 DEF FlattenSeq
  <2>3. PICK g : Flattens(g, ss, Len(ss))
    BY <2>1, FlattenExists
  <2>4. g = [i \in 1..Len(ss) |-> IF i = 1 THEN ss[i] ELSE g[i - 1] \o ss[i]]
    BY <2>3 DEF Flattens
  <2>5. G = [i \in 1..Len(ss) |-> IF i = 1 THEN ss[i] ELSE G[i - 1] \o ss[i]]
    BY <2>4
  <2>. HIDE DEF G
  <2>. DEFINE Good(r) == /\ r \in Seq(X) /\ Len(r) >= Len(ss[1])
                         /\ \A k \in 1..Len(ss[1]) : r[k] = ss[1][k]
              T == {n \in Nat : n + 1 \in 1..Len(ss) => Good(G[n + 1])}
  <2>6. 0 \in T
    <3>1. G[1] = ss[1]
      BY <2>1, <2>5
    <3>. QED  BY <2>1, <3>1
  <2>7. ASSUME NEW n \in Nat, n \in T  PROVE n + 1 \in T
    <3>1. SUFFICES ASSUME n + 2 \in 1..Len(ss)  PROVE Good(G[n + 2])
      OBVIOUS
    <3>2. PICK a, b : a = G[n + 1] /\ b = ss[n + 2]
      OBVIOUS
    <3>3. G[n + 2] = a \o b
      <4>1. n + 2 \in 1..Len(ss) /\ n + 2 # 1 /\ (n + 2) - 1 = n + 1
        BY <3>1
      <4>2. G[n + 2] = G[(n + 2) - 1] \o ss[n + 2]
        BY <2>5, <4>1
      <4>. QED  BY <3>2, <4>1, <4>2
    <3>5. Good(a) /\ b \in Seq(X)
      <4>1. n + 1 \in 1..Len(ss)
        BY <2>1, <3>1
      <4>. QED  BY <2>1, <2>7, <3>1, <3>2, <4>1
    <3>4. /\ a \o b \in Seq(X) /\ Len(a \o b) = Len(a) + Len(b)
          /\ Len(a) \in Nat /\ Len(b) \in Nat /\ Len(ss[1]) \in Nat
          /\ \A k \in 1..Len(a) : (a \o b)[k] = a[k]
      <4>1. a \in Seq(X) /\ b \in Seq(X) /\ ss[1] \in Seq(X)
        BY <2>1, <3>5
      <4>2. /\ a \o b \in Seq(X) /\ Len(a \o b) = Len(a) + Len(b)
            /\ \A k \in 1..(Len(a) + Len(b)) : (a \o b)[k] = IF k <= Len(a) THEN a[k] ELSE b[k - Len(a)]
        BY <4>1, ConcatProperties
      <4>3. Len(a) \in Nat /\ Len(b) \in Nat /\ Len(ss[1]) \in Nat
        BY <4>1, LenProperties
      <4>. QED  BY <4>2, <4>3
    <3>6. Good(a \o b)
      <4>1. Len(a \o b) >= Len(ss[1])
        BY <3>4, <3>5
      <4>2. \A k \in 1..Len(ss[1]) : k \in 1..Len(a)
        BY <3>4, <3>5
      <4>. QED  BY <3>4, <3>5, <4>1, <4>2
    <3>. QED  BY <3>3, <3>6
  <2>. HIDE DEF T
  <2>8. \A n \in Nat : n \in T
    BY <2>6, <2>7, EveryNatural
  <2>9. Len(ss) - 1 \in T
    BY <2>1, <2>8
  <2>10. Good(G[Len(ss)])
    BY <2>1, <2>9 DEF T
  <2>. QED  BY <1>2, <2>2, <2>10
<1>. QED  BY <1>1, <1>2
=============================================================================
