-------------------------- MODULE PcapBuildProofs ---------------------------
(***************************************************************************)
(* For every way of storing a call: every step keeps its types, the answer *)
(* is a stable merge of all that was read, a pcap built by name holds the  *)
(* call's packets only, no packet in it is torn, and none is missing of    *)
(* what archives hold that were not cut off, damaged, gone or unread.  The *)
(* facts about sorting, ListingRanks and what follows from it, serve the   *)
(* merge, the joining of chunks and the ordering of sources.               *)
(***************************************************************************)
EXTENDS PcapBuild, TLAPS, FiniteSetTheorems, SequenceTheorems

Triples == Int \X Int \X Int

LEMMA BeforeIsLinear ==
  ASSUME NEW x \in Triples, NEW y \in Triples
  PROVE  /\ ~Before(x, x)
         /\ x # y => Before(x, y) \/ Before(y, x)
         /\ \A z \in Triples : Before(z, x) /\ Before(x, y) => Before(z, y)
BY DEF Before, Triples

\* An element's rank is its place, and an earlier element has a lower one.
LEMMA RankProperties ==
  ASSUME NEW T, IsFiniteSet(T), T \subseteq Triples
  PROVE  /\ Cardinality(T) \in Nat
         /\ \A x \in T : Rank(T, x) \in 1..Cardinality(T)
         /\ \A x, y \in T : Before(x, y) => Rank(T, x) < Rank(T, y)
<1>. DEFINE Below(x) == {y \in T : Before(y, x)}
<1>1. Cardinality(T) \in Nat
  BY FS_CardinalityType
<1>2. ASSUME NEW x \in T
      PROVE  /\ IsFiniteSet(Below(x))
             /\ Cardinality(Below(x)) \in 0..(Cardinality(T) - 1)
  <2>1. /\ IsFiniteSet(T \ {x})
        /\ Cardinality(T \ {x}) = Cardinality(T) - 1
    BY FS_RemoveElement
  <2>2. Below(x) \subseteq T \ {x}
    BY BeforeIsLinear
  <2>3. IsFiniteSet(Below(x)) /\ Cardinality(Below(x)) <= Cardinality(T) - 1
    BY <2>1, <2>2, FS_Subset
  <2>. QED  BY <1>1, <2>3, FS_CardinalityType
<1>3. ASSUME NEW x \in T, NEW y \in T, Before(x, y)
      PROVE  Cardinality(Below(x)) < Cardinality(Below(y))
  <2>1. x \notin Below(x)
    BY BeforeIsLinear
  <2>2. Below(x) \cup {x} \subseteq Below(y)
    BY <1>3, BeforeIsLinear
  <2>3. Cardinality(Below(x) \cup {x}) = Cardinality(Below(x)) + 1
    BY <1>2, <2>1, FS_AddElement
  <2>4. Cardinality(Below(x) \cup {x}) <= Cardinality(Below(y))
    BY <1>2, <2>2, FS_Subset
  <2>. HIDE DEF Below
  <2>5. Cardinality(Below(x)) \in Nat /\ Cardinality(Below(y)) \in Nat
    BY <1>1, <1>2
  <2>. QED  BY <2>3, <2>4, <2>5
<1>4. ASSUME NEW x \in T
      PROVE  Rank(T, x) = Cardinality(Below(x)) + 1
  BY Zenon DEF Rank
<1>. HIDE DEF Below
<1>. QED  BY <1>1, <1>2, <1>3, <1>4

\* Each element stands at its rank.
LEMMA ListingRanks ==
  ASSUME NEW T, IsFiniteSet(T), T \subseteq Triples
  PROVE  /\ Cardinality(T) \in Nat
         /\ \A k \in 1..Cardinality(T) : Listing(T)[k] \in T /\ Rank(T, Listing(T)[k]) = k
         /\ \A x \in T : Rank(T, x) \in 1..Cardinality(T) /\ Listing(T)[Rank(T, x)] = x
<1>. DEFINE n == Cardinality(T)
            rank == [x \in T |-> Rank(T, x)]
<1>1. n \in Nat /\ rank \in [T -> 1..n]
  BY RankProperties
<1>2. \A x, y \in T : x # y => rank[x] # rank[y]
  BY RankProperties, BeforeIsLinear
<1>3. rank \in Injection(T, 1..n)
  BY <1>1, <1>2 DEF Injection, IsInjective
<1>4. IsFiniteSet(1..n) /\ Cardinality(1..n) = n
  BY <1>1, FS_Interval
<1>5. rank \in Surjection(T, 1..n)
  BY <1>3, <1>4, FS_Injection
<1>6. \A k \in 1..n : \E x \in T : Rank(T, x) = k
  BY <1>5 DEF Surjection
<1>7. \A k \in 1..n : Listing(T)[k] \in T /\ Rank(T, Listing(T)[k]) = k
  BY <1>6 DEF Listing
<1>8. ASSUME NEW x \in T
      PROVE  Rank(T, x) \in 1..n /\ Listing(T)[Rank(T, x)] = x
  <2>1. Rank(T, x) \in 1..n
    BY RankProperties
  <2>2. PICK y : y = Listing(T)[Rank(T, x)]
    OBVIOUS
  <2>3. y \in T /\ Rank(T, y) = Rank(T, x)
    BY <1>7, <2>1, <2>2
  <2>4. rank[x] = rank[y]
    BY <2>3
  <2>. QED  BY <1>2, <2>1, <2>2, <2>3, <2>4
<1>. QED  BY <1>1, <1>7, <1>8

\* Listing is what it says: all of T, once, in order.
LEMMA ListingProperties ==
  ASSUME NEW T, IsFiniteSet(T), T \subseteq Triples
  PROVE  /\ Cardinality(T) \in Nat
         /\ Listing(T) \in [1..Cardinality(T) -> T]
         /\ \A i, j \in 1..Cardinality(T) : i < j => Before(Listing(T)[i], Listing(T)[j])
<1>. DEFINE n == Cardinality(T)
<1>1. n \in Nat
  BY FS_CardinalityType
<1>7. \A k \in 1..n : Listing(T)[k] \in T /\ Rank(T, Listing(T)[k]) = k
  BY ListingRanks
<1>8. Listing(T) \in [1..n -> T]
  BY <1>7 DEF Listing
<1>9. ASSUME NEW i \in 1..n, NEW j \in 1..n, i < j
      PROVE  Before(Listing(T)[i], Listing(T)[j])
  <2>. DEFINE x == Listing(T)[i]
              y == Listing(T)[j]
  <2>1. x \in T /\ y \in T /\ Rank(T, x) = i /\ Rank(T, y) = j
    BY <1>7
  <2>. HIDE DEF x, y
  <2>2. x # y /\ ~Before(y, x)
    BY <2>1, <1>9, <1>1, RankProperties
  <2>3. Before(x, y)
    BY <2>1, <2>2, BeforeIsLinear
  <2>. QED  BY <2>3 DEF x, y
<1>. QED  BY <1>1, <1>8, <1>9

\* The elements that come before some bound are listed alike.
LEMMA ListingPrefix ==
  ASSUME NEW U, IsFiniteSet(U), U \subseteq Triples, NEW T, T \subseteq U,
         \A x \in T, y \in U : Before(y, x) => y \in T
  PROVE  /\ IsFiniteSet(T) /\ Cardinality(T) \in Nat /\ Cardinality(U) \in Nat
         /\ Cardinality(T) <= Cardinality(U)
         /\ \A k \in 1..Cardinality(T) : Listing(T)[k] = Listing(U)[k] /\ Listing(T)[k] \in T
<1>1. /\ IsFiniteSet(T) /\ Cardinality(T) \in Nat /\ Cardinality(U) \in Nat
      /\ Cardinality(T) <= Cardinality(U)
  BY FS_Subset, FS_CardinalityType
<1>2. \A x \in T : Rank(T, x) = Rank(U, x)
  <2>1. SUFFICES ASSUME NEW x \in T
                 PROVE  {y \in T : Before(y, x)} = {y \in U : Before(y, x)}
    BY <2>1 DEF Rank
  <2>. QED  OBVIOUS
<1>3. ASSUME NEW k \in 1..Cardinality(T)
      PROVE  Listing(T)[k] = Listing(U)[k] /\ Listing(T)[k] \in T
  <2>1. PICK x : x = Listing(T)[k]
    OBVIOUS
  <2>2. x \in T /\ Rank(T, x) = k
    BY <1>1, <2>1, ListingRanks
  <2>3. Rank(U, x) = k /\ x \in U
    BY <1>2, <2>2
  <2>4. Listing(U)[k] = x
    BY <2>3, ListingRanks
  <2>. QED  BY <2>1, <2>2, <2>4
<1>. QED  BY <1>1, <1>3

-----------------------------------------------------------------------------
(* Finite sets of positions.                                               *)

LEMMA FiniteImage ==
  ASSUME NEW n \in Nat, NEW f
  PROVE  IsFiniteSet({f[e] : e \in 1..n})
<1>. DEFINE g == [e \in 1..n |-> f[e]]
<1>1. g \in Surjection(1..n, {f[e] : e \in 1..n})
  BY DEF Surjection
<1>2. IsFiniteSet(1..n)
  BY FS_Interval
<1>. QED  BY <1>1, <1>2, FS_Surjection

LEMMA FiniteUnion ==
  ASSUME NEW n \in Nat, NEW f, \A e \in 1..n : IsFiniteSet(f[e])
  PROVE  IsFiniteSet(UNION {f[e] : e \in 1..n})
<1>1. IsFiniteSet({f[e] : e \in 1..n})
  BY FiniteImage
<1>. QED  BY <1>1, FS_UNION

\* Pairs of a place and a place within it, with a first key, make a listing.
LEMMA FinitePositions ==
  ASSUME NEW n \in Nat, NEW m, \A e \in 1..n : m[e] \in Nat,
         NEW T, \A x \in T : /\ x \in Triples
                             /\ x[2] \in 1..n /\ x[3] \in 1..m[x[2]],
         NEW key, \A x \in T : x[1] = key[x[2]][x[3]]
  PROVE  IsFiniteSet(T) /\ T \subseteq Triples
<1>. DEFINE row == [e \in 1..n |-> [j \in 1..m[e] |-> <<key[e][j], e, j>>]]
            f == [e \in 1..n |-> {row[e][j] : j \in 1..m[e]}]
<1>1. \A e \in 1..n : IsFiniteSet(f[e])
  BY FiniteImage
<1>2. IsFiniteSet(UNION {f[e] : e \in 1..n})
  <2>. HIDE DEF f
  <2>. QED  BY <1>1, FiniteUnion
<1>3. \A x \in T : x \in UNION {f[e] : e \in 1..n}
  <2>1. SUFFICES ASSUME NEW x \in T
                 PROVE  x \in f[x[2]]
    BY <2>1
  <2>2. x = <<key[x[2]][x[3]], x[2], x[3]>>
    BY DEF Triples
  <2>3. x = row[x[2]][x[3]]
    BY <2>2
  <2>. QED  BY <2>3
<1>. QED  BY <1>2, <1>3, FS_Subset

-----------------------------------------------------------------------------
(* Slicing keeps a body a body, and brings in no item from elsewhere.      *)

Own(b) == \A j \in DOMAIN b : b[j] \in Half => b[j][1].call = Me

Within(r, b) == r \in Body /\ \A j \in DOMAIN r : \E i \in DOMAIN b : r[j] = b[i]

LEMMA WithinOwn ==
  ASSUME NEW r, NEW b, Within(r, b), Own(b)
  PROVE  Own(r)
BY DEF Within, Own

LEMMA WithinItself ==
  ASSUME NEW b \in Body
  PROVE  Within(b, b)
BY DEF Within

LEMMA WithinTransitive ==
  ASSUME NEW r, NEW b, NEW c, Within(r, b), Within(b, c)
  PROVE  Within(r, c)
BY DEF Within

LEMMA EmptyWithin ==
  ASSUME NEW b
  PROVE  Within(<<>>, b)
<1>1. <<>> \in Body /\ Len(<<>>) = 0
  BY EmptySeq DEF Body
<1>2. DOMAIN <<>> = 1..0
  BY <1>1, LenProperties DEF Body
<1>. QED  BY <1>1, <1>2 DEF Within

LEMMA TailWithin ==
  ASSUME NEW b \in Body, b # <<>>
  PROVE  Within(Tail(b), b)
<1>. DEFINE S == Half \cup {Header, Lzo}
<1>1. b \in Seq(S)
  BY DEF Body
<1>. HIDE DEF S
<1>2. /\ Tail(b) \in Seq(S) /\ Len(Tail(b)) = Len(b) - 1
      /\ \A i \in 1..Len(Tail(b)) : Tail(b)[i] = b[i + 1]
  BY <1>1, HeadTailProperties
<1>3. /\ Len(b) \in Nat /\ DOMAIN b = 1..Len(b)
      /\ Len(Tail(b)) \in Nat /\ DOMAIN Tail(b) = 1..Len(Tail(b))
  BY <1>1, <1>2, LenProperties
<1>4. Tail(b) \in Body
  BY <1>2 DEF S, Body
<1>. QED  BY <1>2, <1>3, <1>4 DEF Within

LEMMA SubSeqWithin ==
  ASSUME NEW b \in Body, NEW m \in Nat \ {0}, NEW n \in 0..Len(b)
  PROVE  Within(SubSeq(b, m, n), b)
<1>. DEFINE S == Half \cup {Header, Lzo}
<1>1. b \in Seq(S)
  BY DEF Body
<1>. HIDE DEF S
<1>2. Len(b) \in Nat /\ DOMAIN b = 1..Len(b) /\ \A i \in 1..Len(b) : b[i] \in S
  BY <1>1, LenProperties
<1>3. \A i \in m..n : b[i] \in S
  BY <1>2
<1>4. /\ SubSeq(b, m, n) \in Seq(S)
      /\ Len(SubSeq(b, m, n)) = IF m <= n THEN n - m + 1 ELSE 0
      /\ \A i \in 1..(n - m + 1) : SubSeq(b, m, n)[i] = b[m + i - 1]
  BY <1>2, <1>3, SubSeqProperties
<1>5. DOMAIN SubSeq(b, m, n) = 1..Len(SubSeq(b, m, n))
  BY <1>4, LenProperties
<1>6. SubSeq(b, m, n) \in Body
  BY <1>4 DEF S, Body
<1>7. ASSUME NEW j \in DOMAIN SubSeq(b, m, n)
      PROVE  \E i \in DOMAIN b : SubSeq(b, m, n)[j] = b[i]
  <2>1. m <= n /\ j \in 1..(n - m + 1)
    BY <1>2, <1>4, <1>5, <1>7
  <2>2. m + j - 1 \in 1..Len(b)
    BY <1>2, <2>1
  <2>. QED  BY <1>2, <1>4, <2>1, <2>2
<1>. QED  BY <1>6, <1>7 DEF Within

LEMMA StripsWithin ==
  ASSUME NEW b \in Body
  PROVE  Within(StripChunk(b), b) /\ Within(Records(b), b)
<1>1. Within(StripChunk(b), b)
  BY TailWithin, WithinItself DEF StripChunk, StartsWith
<1>2. Within(Decompressed(b), b)
  BY TailWithin, WithinItself DEF Decompressed, StartsWith
<1>3. Decompressed(b) \in Body
  BY <1>2 DEF Within
<1>4. Within(Records(b), Decompressed(b))
  BY <1>3, TailWithin, WithinItself DEF Records, StartsWith
<1>. QED  BY <1>1, <1>2, <1>4, WithinTransitive

-----------------------------------------------------------------------------
(* What is read from an archive.                                           *)

Item == Half \cup {Header, Lzo}

LEMMA BodyDomain ==
  ASSUME NEW b \in Body
  PROVE  Len(b) \in Nat /\ DOMAIN b = 1..Len(b) /\ \A j \in 1..Len(b) : b[j] \in Item
<1>1. b \in Seq(Item)
  BY DEF Body, Item
<1>. QED  BY <1>1, LenProperties

LEMMA TarDomain ==
  ASSUME NEW a \in Seq(File)
  PROVE  /\ Len(a) \in Nat /\ DOMAIN a = 1..Len(a)
         /\ \A e \in 1..Len(a) : a[e] \in File /\ a[e].body \in Body
<1>1. Len(a) \in Nat /\ DOMAIN a = 1..Len(a) /\ \A e \in 1..Len(a) : a[e] \in File
  BY LenProperties
<1>. QED  BY <1>1 DEF File

LEMMA FunctionIsSequence ==
  ASSUME NEW n \in Nat, NEW S, NEW f \in [1..n -> S]
  PROVE  f \in Seq(S)
BY SeqDef

\* The places of the named chunks' items, and the chunks joined along them.
Named(a) == {e \in DOMAIN a : IsNamed(a[e])}
Places(a) == UNION {{<<0, e, j>> : j \in DOMAIN StripChunk(a[e].body)} : e \in Named(a)}

IsJoined(r, a) ==
  /\ r \in Body /\ Len(r) = Cardinality(Places(a))
  /\ \A k \in 1..Len(r) : /\ Listing(Places(a))[k] \in Places(a)
                          /\ r[k] = StripChunk(a[Listing(Places(a))[k][2]].body)[Listing(Places(a))[k][3]]

LEMMA PlacesProperties ==
  ASSUME NEW a \in Seq(File)
  PROVE  /\ IsFiniteSet(Places(a)) /\ Places(a) \subseteq Triples
         /\ \A x : x \in Places(a) <=> /\ x = <<0, x[2], x[3]>> /\ x[2] \in Named(a)
                                       /\ x[3] \in 1..Len(StripChunk(a[x[2]].body))
<1>. DEFINE chunk == [e \in DOMAIN a |-> StripChunk(a[e].body)]
            m == [e \in DOMAIN a |-> Len(chunk[e])]
            key == [e \in DOMAIN a |-> [j \in 1..m[e] |-> 0]]
<1>1. /\ Len(a) \in Nat /\ DOMAIN a = 1..Len(a)
      /\ \A e \in DOMAIN a : a[e].body \in Body
  BY TarDomain
<1>2. ASSUME NEW e \in DOMAIN a
      PROVE  m[e] \in Nat /\ DOMAIN StripChunk(a[e].body) = 1..m[e]
  BY <1>1, StripsWithin, BodyDomain DEF Within
<1>3. \A x : x \in Places(a) <=> \E e \in Named(a) : \E j \in DOMAIN StripChunk(a[e].body) : x = <<0, e, j>>
  BY DEF Places
<1>4. Named(a) \subseteq DOMAIN a
  BY DEF Named
<1>5. \A x : x \in Places(a) <=> /\ x = <<0, x[2], x[3]>> /\ x[2] \in Named(a)
                                 /\ x[3] \in 1..m[x[2]]
  <2>. HIDE DEF m
  <2>. QED  BY <1>2, <1>3, <1>4
<1>6. \A x \in Places(a) : /\ x \in Triples /\ x[2] \in 1..Len(a) /\ x[3] \in 1..m[x[2]]
                           /\ x[1] = key[x[2]][x[3]]
  <2>1. SUFFICES ASSUME NEW x \in Places(a)
                 PROVE  /\ x \in Triples /\ x[2] \in 1..Len(a) /\ x[3] \in 1..m[x[2]]
                        /\ x[1] = key[x[2]][x[3]]
    BY <2>1
  <2>2. x = <<0, x[2], x[3]>> /\ x[2] \in DOMAIN a /\ x[3] \in 1..m[x[2]]
    BY <1>4, <1>5
  <2>3. m[x[2]] \in Nat
    BY <1>2, <2>2
  <2>. HIDE DEF m
  <2>4. x[2] \in Int /\ x[3] \in Int /\ x[1] = 0
    BY <1>1, <2>2, <2>3
  <2>5. x \in Triples
    BY <2>2, <2>4 DEF Triples
  <2>. QED  BY <1>1, <2>2, <2>4, <2>5
<1>7. IsFiniteSet(Places(a)) /\ Places(a) \subseteq Triples
  <2>1. \A e \in 1..Len(a) : m[e] \in Nat
    BY <1>1, <1>2
  <2>. HIDE DEF m, key
  <2>. QED  BY <1>1, <1>6, <2>1, FinitePositions
<1>8. \A e \in Named(a) : m[e] = Len(StripChunk(a[e].body))
  BY <1>4
<1>. HIDE DEF m
<1>. QED  BY <1>5, <1>7, <1>8

LEMMA NamedChunksJoin ==
  ASSUME NEW a \in Seq(File)
  PROVE  IsJoined(NamedChunks(a), a)
<1>. DEFINE T == Places(a)
            l == Listing(T)
            r == [k \in DOMAIN l |-> StripChunk(a[l[k][2]].body)[l[k][3]]]
<1>1. IsFiniteSet(T) /\ T \subseteq Triples
  BY PlacesProperties
<1>2. Cardinality(T) \in Nat /\ l \in [1..Cardinality(T) -> T]
  BY <1>1, ListingProperties
<1>3. NamedChunks(a) = r
  BY DEF NamedChunks, Places, Named
<1>4. ASSUME NEW k \in 1..Cardinality(T)
      PROVE  l[k] \in T /\ r[k] = StripChunk(a[l[k][2]].body)[l[k][3]] /\ r[k] \in Item
  <2>1. l[k] \in T /\ r[k] = StripChunk(a[l[k][2]].body)[l[k][3]]
    BY <1>2
  <2>2. l[k][2] \in Named(a) /\ l[k][3] \in 1..Len(StripChunk(a[l[k][2]].body))
    BY <2>1, PlacesProperties
  <2>3. a[l[k][2]].body \in Body
    BY <2>2, TarDomain DEF Named
  <2>4. StripChunk(a[l[k][2]].body) \in Body
    BY <2>3, StripsWithin DEF Within
  <2>. QED  BY <2>1, <2>2, <2>4, BodyDomain
<1>5. r \in Seq(Item) /\ DOMAIN r = 1..Cardinality(T)
  <2>1. r \in [1..Cardinality(T) -> Item]
    <3>1. DOMAIN r = 1..Cardinality(T) /\ r = [k \in DOMAIN r |-> r[k]]
      BY <1>2
    <3>. HIDE DEF r, l, T
    <3>. QED  BY <1>4, <3>1
  <2>. HIDE DEF r, T
  <2>. QED  BY <1>2, <2>1, FunctionIsSequence
<1>6. r \in Body /\ Len(r) = Cardinality(T)
  <2>. HIDE DEF r, T
  <2>. QED  BY <1>2, <1>5, LenProperties DEF Item, Body
<1>. HIDE DEF r
<1>. QED  BY <1>3, <1>4, <1>6 DEF IsJoined

\* The joined chunks are a body, each item of which stands in a named file.
LEMMA NamedChunksFrom ==
  ASSUME NEW a \in Seq(File)
  PROVE  /\ NamedChunks(a) \in Body
         /\ \A k \in DOMAIN NamedChunks(a) : \E e \in DOMAIN a :
              IsNamed(a[e]) /\ \E j \in DOMAIN a[e].body : NamedChunks(a)[k] = a[e].body[j]
<1>1. NamedChunks(a) \in Body
  BY NamedChunksJoin DEF IsJoined
<1>2. ASSUME NEW k \in DOMAIN NamedChunks(a)
      PROVE  \E e \in DOMAIN a : IsNamed(a[e]) /\ \E j \in DOMAIN a[e].body : NamedChunks(a)[k] = a[e].body[j]
  <2>1. PICK x : x = Listing(Places(a))[k]
    OBVIOUS
  <2>2. x \in Places(a) /\ NamedChunks(a)[k] = StripChunk(a[x[2]].body)[x[3]]
    BY <1>1, <2>1, BodyDomain, NamedChunksJoin DEF IsJoined
  <2>3. x[2] \in DOMAIN a /\ IsNamed(a[x[2]]) /\ x[3] \in 1..Len(StripChunk(a[x[2]].body))
    BY <2>2, PlacesProperties DEF Named
  <2>4. Within(StripChunk(a[x[2]].body), a[x[2]].body)
    BY <2>3, TarDomain, StripsWithin
  <2>5. x[3] \in DOMAIN StripChunk(a[x[2]].body)
    BY <2>3, <2>4, BodyDomain DEF Within
  <2>. QED  BY <2>2, <2>3, <2>4, <2>5 DEF Within
<1>. QED  BY <1>1, <1>2

\* The first pcap is the first.
LEMMA PcapFirst ==
  ASSUME NEW a \in Seq(File), Pcaps(a) # {}
  PROVE  \E e \in Pcaps(a) : /\ FirstPcap(a) = a[e].body /\ a[e].body \in Body
                             /\ \A f \in Pcaps(a) : e <= f
<1>. DEFINE row == [e \in DOMAIN a |-> <<0, 0, e>>]
            T == {<<0, 0, e>> : e \in Pcaps(a)}
            all == {row[e] : e \in 1..Len(a)}
<1>1. Len(a) \in Nat /\ DOMAIN a = 1..Len(a) /\ \A e \in 1..Len(a) : a[e].body \in Body
  BY TarDomain
<1>2. Pcaps(a) \subseteq 1..Len(a)
  BY <1>1 DEF Pcaps
<1>3. IsFiniteSet(all)
  <2>. HIDE DEF row
  <2>. QED  BY <1>1, FiniteImage
<1>4. T \subseteq all /\ T \subseteq Triples
  BY <1>1, <1>2 DEF Triples
<1>5. IsFiniteSet(T)
  <2>. HIDE DEF T, all
  <2>. QED  BY <1>3, <1>4, FS_Subset
<1>6. T # {}
  OBVIOUS
<1>7. /\ Listing(T)[1] \in T
      /\ \A x \in T : x = Listing(T)[1] \/ Before(Listing(T)[1], x)
  <2>. HIDE DEF T
  <2>1. Cardinality(T) \in Nat /\ Cardinality(T) # 0 /\ Listing(T) \in [1..Cardinality(T) -> T]
    BY <1>4, <1>5, <1>6, ListingProperties, FS_EmptySet
  <2>2. 1 \in 1..Cardinality(T)
    BY <2>1
  <2>3. ASSUME NEW x \in T
        PROVE  x = Listing(T)[1] \/ Before(Listing(T)[1], x)
    <3>1. Rank(T, x) \in 1..Cardinality(T) /\ Listing(T)[Rank(T, x)] = x
      BY <1>4, <1>5, ListingRanks
    <3>2. PICK k \in 1..Cardinality(T) : Listing(T)[k] = x
      BY <3>1
    <3>3. k = 1 \/ 1 < k
      BY <2>1
    <3>. QED  BY <1>4, <1>5, <2>2, <3>2, <3>3, ListingProperties
  <2>. QED  BY <2>1, <2>2, <2>3
<1>8. PICK e \in Pcaps(a) : Listing(T)[1] = <<0, 0, e>>
  BY <1>7
<1>9. Listing(T)[1][3] = e
  <2>. HIDE DEF T
  <2>. QED  BY <1>8
<1>10. FirstPcap(a) = a[e].body
  BY <1>9 DEF FirstPcap
<1>11. ASSUME NEW f \in Pcaps(a)
       PROVE  e <= f
  <2>1. <<0, 0, f>> \in T
    OBVIOUS
  <2>2. <<0, 0, f>> = <<0, 0, e>> \/ Before(<<0, 0, e>>, <<0, 0, f>>)
    <3>. HIDE DEF T
    <3>. QED  BY <1>7, <1>8, <2>1
  <2>3. e \in Nat /\ f \in Nat
    BY <1>1, <1>2
  <2>. QED  BY <2>2, <2>3 DEF Before
<1>. QED  BY <1>1, <1>2, <1>10, <1>11

LEMMA PcapBody ==
  ASSUME NEW a \in Seq(File), Pcaps(a) # {}
  PROVE  FirstPcap(a) \in Body
BY PcapFirst

\* Whatever is asked of an archive, the answer is a body.
LEMMA ChunkBody ==
  ASSUME NEW a \in Seq(File), NEW slice \in Slice
  PROVE  Chunk(a, slice) \in Body
<1>1. CASE slice.kind = "ByName"
  BY <1>1, NamedChunksFrom DEF Chunk
<1>2. CASE slice.kind = "Full"
  BY <1>2, PcapBody, EmptyWithin DEF Chunk, Within
<1>3. CASE slice.kind = "From"
  <2>1. slice.pos \in Nat
    BY <1>3 DEF Slice
  <2>2. CASE Pcaps(a) = {} \/ slice.pos > Len(FirstPcap(a))
    BY <1>3, <2>2, EmptyWithin DEF Chunk, Within
  <2>3. CASE ~(Pcaps(a) = {} \/ slice.pos > Len(FirstPcap(a)))
    <3>1. FirstPcap(a) \in Body
      BY <2>3, PcapBody
    <3>2. Len(FirstPcap(a)) \in Nat
      BY <3>1, BodyDomain
    <3>3. slice.pos + 1 \in Nat \ {0} /\ Len(FirstPcap(a)) \in 0..Len(FirstPcap(a))
      BY <2>1, <3>2
    <3>. QED  BY <1>3, <2>3, <3>1, <3>3, SubSeqWithin DEF Chunk, Within
  <2>. QED  BY <2>2, <2>3
<1>. QED  BY <1>1, <1>2, <1>3 DEF Slice

\* The files named after the call hold its packets only.
OwnNamed(a) == \A k \in DOMAIN a : a[k].base = <<Me>> => Own(a[k].body)

LEMMA ChunkOwn ==
  ASSUME NEW a \in Seq(File), OwnNamed(a)
  PROVE  Own(NamedChunks(a))
<1>1. SUFFICES ASSUME NEW k \in DOMAIN NamedChunks(a), NamedChunks(a)[k] \in Half
               PROVE  NamedChunks(a)[k][1].call = Me
  BY <1>1 DEF Own
<1>2. PICK e \in DOMAIN a : /\ IsNamed(a[e])
                            /\ \E j \in DOMAIN a[e].body : NamedChunks(a)[k] = a[e].body[j]
  BY NamedChunksFrom
<1>3. PICK j \in DOMAIN a[e].body : NamedChunks(a)[k] = a[e].body[j]
  BY <1>2
<1>4. Own(a[e].body)
  BY <1>2 DEF OwnNamed, IsNamed
<1>. QED  BY <1>1, <1>3, <1>4 DEF Own

-----------------------------------------------------------------------------
(* An archive read while it is being written.                              *)

\* r is the beginning of b.
Begins(r, b) == r \in Body /\ Len(r) <= Len(b) /\ \A i \in 1..Len(r) : r[i] = b[i]

\* c is what there is of tar a when its file e is written; its last file is cut.
IsCut(c, a, e) ==
  /\ c \in Seq(File) /\ DOMAIN c = 1..e /\ 1..e \subseteq DOMAIN a
  /\ \A i \in 1..e : /\ c[i].base = a[i].base /\ c[i].ext = a[i].ext
                     /\ Begins(c[i].body, a[i].body)
                     /\ i # e => c[i] = a[i]

LEMMA BeginsProperties ==
  ASSUME NEW b \in Body
  PROVE  /\ Begins(b, b) /\ Begins(<<>>, b)
         /\ \A n \in 0..Len(b) : Begins(SubSeq(b, 1, n), b)
         /\ \A r : Begins(r, b) => Within(r, b)
<1>1. Len(b) \in Nat /\ DOMAIN b = 1..Len(b) /\ b \in Seq(Item)
  BY BodyDomain DEF Body, Item
<1>2. <<>> \in Body /\ Len(<<>>) = 0
  BY EmptySeq DEF Body
<1>3. Begins(b, b) /\ Begins(<<>>, b)
  BY <1>1, <1>2 DEF Begins
<1>4. ASSUME NEW n \in 0..Len(b)
      PROVE  Begins(SubSeq(b, 1, n), b)
  <2>1. \A i \in 1..n : b[i] \in Item
    BY <1>1, BodyDomain
  <2>2. /\ Len(SubSeq(b, 1, n)) = IF 1 <= n THEN n - 1 + 1 ELSE 0
        /\ \A i \in 1..(n - 1 + 1) : SubSeq(b, 1, n)[i] = b[1 + i - 1]
    BY <1>1, <2>1, SubSeqProperties
  <2>3. SubSeq(b, 1, n) \in Body
    BY SubSeqWithin DEF Within
  <2>. QED  BY <1>1, <2>2, <2>3 DEF Begins
<1>5. ASSUME NEW r, Begins(r, b)
      PROVE  Within(r, b)
  <2>1. r \in Body /\ DOMAIN r = 1..Len(r) /\ Len(r) \in Nat
    BY <1>5, BodyDomain DEF Begins
  <2>. QED  BY <1>1, <1>5, <2>1 DEF Begins, Within
<1>. QED  BY <1>3, <1>4, <1>5

LEMMA CutShape ==
  ASSUME NEW a \in Seq(File), NEW c \in CutOff(a)
  PROVE  \E e \in Nat : IsCut(c, a, e)
<1>1. Len(a) \in Nat /\ DOMAIN a = 1..Len(a) /\ \A e \in 1..Len(a) : a[e] \in File /\ a[e].body \in Body
  BY TarDomain
<1>2. CASE c = <<>>
  <2>1. c \in Seq(File) /\ Len(c) = 0
    BY <1>2, EmptySeq
  <2>2. DOMAIN c = 1..0
    BY <2>1, LenProperties
  <2>3. 1..0 = {}
    OBVIOUS
  <2>4. IsCut(c, a, 0)
    BY <2>1, <2>2, <2>3 DEF IsCut
  <2>. QED  BY <2>4
<1>3. CASE c # <<>>
  <2>1. PICK e \in DOMAIN a : \E n \in 0..Len(a[e].body) : c = CutAt(a, e, n)
    BY <1>3 DEF CutOff
  <2>2. PICK n \in 0..Len(a[e].body) : c = CutAt(a, e, n)
    BY <2>1
  <2>. DEFINE s == SubSeq(a, 1, e)
              b == SubSeq(a[e].body, 1, n)
  <2>3. e \in 1..Len(a) /\ a[e] \in File /\ a[e].body \in Body
    BY <1>1
  <2>4. /\ s \in Seq(File) /\ Len(s) = e
        /\ \A i \in 1..e : s[i] = a[i]
    <3>1. \A i \in 1..e : a[i] \in File
      BY <1>1, <2>3
    <3>2. /\ s \in Seq(File) /\ Len(s) = IF 1 <= e THEN e - 1 + 1 ELSE 0
          /\ \A i \in 1..(e - 1 + 1) : s[i] = a[1 + i - 1]
      BY <2>3, <3>1, SubSeqProperties
    <3>. HIDE DEF s
    <3>. QED  BY <2>3, <3>2
  <2>5. Begins(b, a[e].body)
    BY <2>3, BeginsProperties
  <2>6. b \in Body
    BY <2>5 DEF Begins
  <2>7. DOMAIN s = 1..e
    <3>. HIDE DEF s
    <3>. QED  BY <2>4, LenProperties
  <2>8. c = [s EXCEPT ![e] = CutFile(a[e], n)]
    BY <2>2 DEF CutAt
  <2>. HIDE DEF s, b
  <2>9. DOMAIN c = 1..e /\ (\A i \in 1..e : i # e => c[i] = a[i]) /\ c[e] = CutFile(a[e], n)
    BY <2>3, <2>4, <2>7, <2>8
  <2>10. c[e] \in File /\ c[e].base = a[e].base /\ c[e].ext = a[e].ext /\ c[e].body = b
    <3>1. c[e] = [base |-> a[e].base, ext |-> a[e].ext, body |-> b]
      BY <2>9 DEF CutFile, b
    <3>2. /\ a[e].base \in Seq({Me, "x"})
          /\ a[e].ext \in {"", ".pcap", ".pcap#", "other"}
      BY <2>3 DEF File
    <3>3. \A x \in Seq({Me, "x"}), y \in {"", ".pcap", ".pcap#", "other"}, z \in Body :
            [base |-> x, ext |-> y, body |-> z] \in File
      BY DEF File
    <3>4. c[e] \in File
      BY <2>6, <3>1, <3>2, <3>3
    <3>. QED  BY <3>1, <3>4
  <2>11. c \in Seq(File)
    <3>1. \A i \in 1..e : c[i] \in File
      BY <1>1, <2>3, <2>9, <2>10
    <3>2. c \in [1..e -> File]
      BY <2>8, <2>7, <2>9, <3>1
    <3>. QED  BY <2>3, <3>2, FunctionIsSequence
  <2>12. ASSUME NEW i \in 1..e
         PROVE  /\ c[i].base = a[i].base /\ c[i].ext = a[i].ext
                /\ Begins(c[i].body, a[i].body)
    <3>1. CASE i = e
      BY <3>1, <2>5, <2>10
    <3>2. CASE i # e
      BY <1>1, <2>3, <2>9, <3>2, BeginsProperties
    <3>. QED  BY <3>1, <3>2
  <2>13. e \in Nat /\ 1..e \subseteq DOMAIN a
    BY <1>1, <2>3
  <2>14. IsCut(c, a, e)
    BY <2>9, <2>11, <2>12, <2>13 DEF IsCut
  <2>. QED  BY <2>13, <2>14
<1>. QED  BY <1>2, <1>3

\* A tar cut off is a tar, and brings no one else's packets under the name.
LEMMA CutOffTar ==
  ASSUME NEW a \in Seq(File), NEW c \in CutOff(a)
  PROVE  c \in Seq(File) /\ (OwnNamed(a) => OwnNamed(c))
<1>1. PICK e \in Nat : IsCut(c, a, e)
  BY CutShape
<1>2. c \in Seq(File)
  BY <1>1 DEF IsCut
<1>3. ASSUME OwnNamed(a), NEW k \in DOMAIN c, c[k].base = <<Me>>
      PROVE  Own(c[k].body)
  <2>1. k \in DOMAIN a /\ a[k].base = <<Me>> /\ Begins(c[k].body, a[k].body)
    BY <1>1, <1>3 DEF IsCut
  <2>2. a[k].body \in Body
    BY <2>1, TarDomain
  <2>. QED  BY <1>3, <2>1, <2>2, BeginsProperties, WithinOwn DEF OwnNamed
<1>. QED  BY <1>2, <1>3 DEF OwnNamed

-----------------------------------------------------------------------------
(* Cutting an archive off cuts its chunks off: a chunk of what is there is *)
(* the beginning of the whole one, but that a file of which only the       *)
(* header is there keeps it.                                               *)

Cuts(r, b) == /\ r \in Body /\ Len(r) <= Len(b)
              /\ \A i \in 1..Len(r) : r[i] = b[i] \/ (i = Len(r) /\ r[i] = Header)

LEMMA BeginsCuts ==
  ASSUME NEW b \in Body, NEW r, Begins(r, b)
  PROVE  Cuts(r, b)
BY DEF Begins, Cuts

LEMMA PcapCut ==
  ASSUME NEW d \in Seq(File), NEW e \in Nat, NEW c, IsCut(c, d, e), Pcaps(c) # {}
  PROVE  Pcaps(d) # {} /\ Begins(FirstPcap(c), FirstPcap(d))
<1>1. c \in Seq(File) /\ DOMAIN c = 1..e /\ 1..e \subseteq DOMAIN d
  BY DEF IsCut
<1>2. Pcaps(c) = Pcaps(d) \cap 1..e
  BY <1>1 DEF IsCut, Pcaps
<1>3. Pcaps(d) # {}
  BY <1>2
<1>4. PICK x \in Pcaps(c) : FirstPcap(c) = c[x].body /\ \A f \in Pcaps(c) : x <= f
  BY <1>1, PcapFirst
<1>5. PICK y \in Pcaps(d) : FirstPcap(d) = d[y].body /\ \A f \in Pcaps(d) : y <= f
  BY <1>3, PcapFirst
<1>6. x \in 1..e /\ x \in Pcaps(d) /\ y <= x /\ y \in Nat \ {0}
  BY <1>2, <1>4, <1>5, TarDomain DEF Pcaps
<1>7. y \in Pcaps(c)
  BY <1>2, <1>5, <1>6
<1>8. x = y
  BY <1>4, <1>6, <1>7
<1>. QED  BY <1>3, <1>4, <1>5, <1>6, <1>8 DEF IsCut

LEMMA FromCut ==
  ASSUME NEW b \in Body, NEW r, Begins(r, b), NEW n \in Nat, n <= Len(r)
  PROVE  Begins(SubSeq(r, n + 1, Len(r)), SubSeq(b, n + 1, Len(b)))
<1>1. /\ r \in Body /\ r \in Seq(Item) /\ Len(r) \in Nat
      /\ b \in Seq(Item) /\ Len(b) \in Nat /\ Len(r) <= Len(b)
      /\ \A i \in 1..Len(r) : r[i] = b[i] /\ r[i] \in Item
      /\ \A i \in 1..Len(b) : b[i] \in Item
  BY BodyDomain DEF Begins, Body, Item
<1>2. /\ Len(SubSeq(r, n + 1, Len(r))) = Len(r) - n
      /\ \A i \in 1..(Len(r) - n) : SubSeq(r, n + 1, Len(r))[i] = r[n + i]
  <2>1. \A i \in (n + 1)..Len(r) : r[i] \in Item
    BY <1>1
  <2>2. /\ Len(SubSeq(r, n + 1, Len(r))) = IF n + 1 <= Len(r) THEN Len(r) - (n + 1) + 1 ELSE 0
        /\ \A i \in 1..(Len(r) - (n + 1) + 1) : SubSeq(r, n + 1, Len(r))[i] = r[(n + 1) + i - 1]
    BY <1>1, <2>1, SubSeqProperties
  <2>. QED  BY <1>1, <2>2
<1>3. /\ Len(SubSeq(b, n + 1, Len(b))) = Len(b) - n
      /\ \A i \in 1..(Len(b) - n) : SubSeq(b, n + 1, Len(b))[i] = b[n + i]
  <2>1. \A i \in (n + 1)..Len(b) : b[i] \in Item
    BY <1>1
  <2>2. /\ Len(SubSeq(b, n + 1, Len(b))) = IF n + 1 <= Len(b) THEN Len(b) - (n + 1) + 1 ELSE 0
        /\ \A i \in 1..(Len(b) - (n + 1) + 1) : SubSeq(b, n + 1, Len(b))[i] = b[(n + 1) + i - 1]
    BY <1>1, <2>1, SubSeqProperties
  <2>. QED  BY <1>1, <2>2
<1>4. SubSeq(r, n + 1, Len(r)) \in Body
  BY <1>1, SubSeqWithin DEF Within
<1>. QED  BY <1>1, <1>2, <1>3, <1>4 DEF Begins

\* Stripping a beginning: its header alone is kept.
LEMMA StripCut ==
  ASSUME NEW b \in Body, NEW r, Begins(r, b)
  PROVE  Cuts(StripChunk(r), StripChunk(b)) /\ Len(StripChunk(r)) \in Nat
<1>1. /\ r \in Body /\ r \in Seq(Item) /\ Len(r) \in Nat
      /\ b \in Seq(Item) /\ Len(b) \in Nat /\ Len(r) <= Len(b)
      /\ \A i \in 1..Len(r) : r[i] = b[i]
  BY BodyDomain DEF Begins, Body, Item
<1>2. \A x \in Seq(Item) : x # <<>> =>
        /\ Len(x) \in Nat \ {0} /\ Head(x) = x[1] /\ Len(Tail(x)) = Len(x) - 1
        /\ \A i \in 1..Len(Tail(x)) : Tail(x)[i] = x[i + 1]
  BY HeadTailProperties, EmptySeq
<1>3. StripChunk(r) \in Body
  BY <1>1, StripsWithin DEF Within
<1>4. CASE StripChunk(r) = r /\ StripChunk(b) = b
  BY <1>1, <1>4 DEF Cuts
<1>5. CASE StartsWith(b, Header) /\ Len(b) > 1
  <2>1. StripChunk(b) = Tail(b) /\ b # <<>> /\ b[1] = Header
    BY <1>1, <1>2, <1>5 DEF StripChunk, StartsWith
  <2>2. CASE r = <<>>
    <3>1. StripChunk(r) = r /\ Len(r) = 0
      BY <2>2, EmptySeq DEF StripChunk, StartsWith
    <3>. QED  BY <1>1, <1>2, <2>1, <3>1 DEF Cuts
  <2>3. CASE r # <<>> /\ Len(r) = 1
    <3>1. StripChunk(r) = r /\ r[1] = Header
      BY <1>1, <2>1, <2>3 DEF StripChunk
    <3>2. Len(Tail(b)) = Len(b) - 1
      BY <1>1, <1>2, <2>1
    <3>3. Len(r) <= Len(Tail(b)) /\ \A i \in 1..Len(r) : i = Len(r) /\ r[i] = Header
      BY <1>1, <1>5, <2>3, <3>1, <3>2
    <3>. QED  BY <1>1, <2>1, <3>1, <3>3 DEF Cuts
  <2>4. CASE r # <<>> /\ Len(r) # 1
    <3>5. Len(r) \in Nat \ {0} /\ Head(r) = r[1]
      BY <1>1, <1>2, <2>4
    <3>6. 1 \in 1..Len(r)
      BY <3>5
    <3>7. r[1] = Header
      BY <1>1, <2>1, <3>6
    <3>8. Len(r) > 1
      <4>1. PICK n \in Nat \ {0} : n = Len(r)
        BY <3>5
      <4>2. n # 1
        BY Zenon, <2>4, <4>1
      <4>3. n > 1
        BY <4>2
      <4>. QED  BY <4>1, <4>3
    <3>9. StartsWith(r, Header)
      BY Zenon, <2>4, <3>5, <3>7 DEF StartsWith
    <3>1. Len(r) > 1 /\ StartsWith(r, Header)
      BY <3>8, <3>9
    <3>2. StripChunk(r) = Tail(r)
      BY <3>1 DEF StripChunk
    <3>3. Len(Tail(r)) = Len(r) - 1 /\ Len(Tail(b)) = Len(b) - 1
      BY <1>1, <1>2, <2>1, <2>4
    <3>4. \A i \in 1..(Len(r) - 1) : Tail(r)[i] = Tail(b)[i]
      BY <1>1, <1>2, <2>1, <2>4, <3>3
    <3>. QED  BY <1>1, <1>3, <2>1, <3>2, <3>3, <3>4 DEF Cuts
  <2>. QED  BY <2>2, <2>3, <2>4
<1>6. CASE ~(StartsWith(b, Header) /\ Len(b) > 1)
  <2>1. ~(StartsWith(r, Header) /\ Len(r) > 1)
    <3>1. SUFFICES ASSUME StartsWith(r, Header), Len(r) > 1 PROVE FALSE
      BY <3>1
    <3>2. r # <<>> /\ r[1] = Header /\ Len(b) > 1
      BY <1>1, <1>2, <3>1 DEF StartsWith
    <3>3. b # <<>> /\ b[1] = Header
      BY <1>1, <3>2, <3>1, EmptySeq
    <3>. QED  BY <1>1, <1>2, <1>6, <3>2, <3>3 DEF StartsWith
  <2>. QED  BY <1>4, <1>6, <2>1 DEF StripChunk
<1>. QED  BY <1>3, <1>5, <1>6, BodyDomain

LEMMA NamedCut ==
  ASSUME NEW d \in Seq(File), NEW e \in Nat, NEW c, IsCut(c, d, e)
  PROVE  Cuts(NamedChunks(c), NamedChunks(d))
<1>. DEFINE C == Places(c)
            D == Places(d)
            rest(i) == StripChunk(c[i].body)
            full(i) == StripChunk(d[i].body)
<1>1. c \in Seq(File) /\ DOMAIN c = 1..e /\ 1..e \subseteq DOMAIN d
  BY DEF IsCut
<1>2. Named(c) = Named(d) \cap 1..e
  BY <1>1 DEF IsCut, Named, IsNamed
<1>3. ASSUME NEW i \in Named(c)
      PROVE  Cuts(rest(i), full(i)) /\ Len(rest(i)) \in Nat /\ (i # e => rest(i) = full(i))
  <2>1. i \in 1..e /\ Begins(c[i].body, d[i].body) /\ (i # e => c[i] = d[i])
    BY <1>2, <1>3 DEF IsCut
  <2>2. d[i].body \in Body
    BY <1>1, <2>1, TarDomain
  <2>. QED  BY <2>1, <2>2, StripCut
<1>4. ASSUME NEW i \in Named(d)
      PROVE  Len(full(i)) \in Nat
  <2>1. d[i].body \in Body
    BY TarDomain DEF Named
  <2>. QED  BY <2>1, StripsWithin, BodyDomain DEF Within
<1>5. \A x : x \in C <=> x = <<0, x[2], x[3]>> /\ x[2] \in Named(c) /\ x[3] \in 1..Len(rest(x[2]))
  BY <1>1, PlacesProperties
<1>6. \A x : x \in D <=> x = <<0, x[2], x[3]>> /\ x[2] \in Named(d) /\ x[3] \in 1..Len(full(x[2]))
  BY PlacesProperties
<1>7. /\ IsFiniteSet(C) /\ C \subseteq Triples /\ IsFiniteSet(D) /\ D \subseteq Triples
      /\ IsJoined(NamedChunks(c), c) /\ IsJoined(NamedChunks(d), d)
  BY <1>1, PlacesProperties, NamedChunksJoin
<1>. HIDE DEF C, D, rest, full
<1>8. ASSUME NEW x \in C
      PROVE  x \in D
  <2>1. x[2] \in Named(c) /\ x[2] \in Named(d)
    BY <1>2, <1>5
  <2>2. Len(rest(x[2])) <= Len(full(x[2])) /\ Len(rest(x[2])) \in Nat /\ Len(full(x[2])) \in Nat
    BY <1>3, <1>4, <2>1 DEF Cuts
  <2>. QED  BY <1>5, <1>6, <2>1, <2>2
<1>9. ASSUME NEW x \in C, NEW y \in D, Before(y, x)
      PROVE  y \in C
  <2>1. /\ x[1] = 0 /\ x[2] \in Named(c) /\ x[2] \in 1..e /\ x[3] \in 1..Len(rest(x[2]))
        /\ Len(rest(x[2])) \in Nat
    BY <1>2, <1>3, <1>5
  <2>2. /\ y[1] = 0 /\ y[2] \in Named(d) /\ y[2] \in Nat \ {0} /\ y[3] \in 1..Len(full(y[2]))
        /\ y = <<0, y[2], y[3]>> /\ Len(full(y[2])) \in Nat
    BY <1>4, <1>6, TarDomain DEF Named
  <2>3. y[2] < x[2] \/ (y[2] = x[2] /\ y[3] < x[3])
    BY <1>9, <2>1, <2>2 DEF Before
  <2>4. y[2] \in Named(c)
    BY <1>2, <2>1, <2>2, <2>3
  <2>5. y[3] \in 1..Len(rest(y[2]))
    <3>1. CASE y[2] < x[2]
      <4>1. y[2] # e
        BY <2>1, <2>2, <3>1
      <4>. QED  BY <1>3, <2>2, <2>4, <4>1
    <3>2. CASE y[2] = x[2] /\ y[3] < x[3]
      BY <2>1, <2>2, <3>2
    <3>. QED  BY <2>3, <3>1, <3>2
  <2>. QED  BY <1>5, <2>2, <2>4, <2>5
<1>10. /\ Cardinality(C) \in Nat /\ Cardinality(D) \in Nat /\ Cardinality(C) <= Cardinality(D)
       /\ \A k \in 1..Cardinality(C) : Listing(C)[k] = Listing(D)[k] /\ Listing(C)[k] \in C
  BY <1>7, <1>8, <1>9, ListingPrefix
<1>11. /\ NamedChunks(c) \in Body /\ Len(NamedChunks(c)) = Cardinality(C)
       /\ Len(NamedChunks(d)) = Cardinality(D)
       /\ \A k \in 1..Cardinality(C) : NamedChunks(c)[k] = rest(Listing(C)[k][2])[Listing(C)[k][3]]
       /\ \A k \in 1..Cardinality(D) : NamedChunks(d)[k] = full(Listing(D)[k][2])[Listing(D)[k][3]]
  BY <1>7 DEF IsJoined, C, D, rest, full
<1>12. ASSUME NEW k \in 1..Cardinality(C)
       PROVE  \/ NamedChunks(c)[k] = NamedChunks(d)[k]
              \/ k = Cardinality(C) /\ NamedChunks(c)[k] = Header
  <2>1. PICK x : x = Listing(C)[k]
    OBVIOUS
  <2>2. x \in C /\ x = Listing(D)[k] /\ k \in 1..Cardinality(D)
    BY <1>10, <2>1
  <2>3. x[2] \in Named(c) /\ x[3] \in 1..Len(rest(x[2])) /\ x[2] \in 1..e
    BY <1>2, <1>5, <2>2
  <2>4. NamedChunks(c)[k] = rest(x[2])[x[3]] /\ NamedChunks(d)[k] = full(x[2])[x[3]]
    BY <1>11, <2>1, <2>2
  <2>5. CASE rest(x[2])[x[3]] = full(x[2])[x[3]]
    BY <2>4, <2>5
  <2>6. CASE rest(x[2])[x[3]] # full(x[2])[x[3]]
    <3>1. x[3] = Len(rest(x[2])) /\ rest(x[2])[x[3]] = Header /\ x[2] = e
      BY <1>3, <2>3, <2>6 DEF Cuts
    <3>2. ASSUME k # Cardinality(C)
          PROVE  FALSE
      <4>1. k + 1 \in 1..Cardinality(C) /\ k < k + 1
        BY <1>10, <3>2
      <4>2. PICK z : z = Listing(C)[k + 1]
        OBVIOUS
      <4>3. z \in C /\ Before(x, z)
        BY <1>7, <1>10, <2>1, <4>1, <4>2, ListingProperties
      <4>4. /\ z[1] = 0 /\ z[2] \in 1..e /\ z[3] \in 1..Len(rest(z[2])) /\ z[2] \in Named(c)
            /\ x[1] = 0
        BY <1>2, <1>5, <2>2, <4>3
      <4>5. Len(rest(e)) \in Nat
        BY <1>3, <2>3, <3>1
      <4>6. z[2] = e /\ z[3] > x[3]
        BY <3>1, <2>3, <4>3, <4>4 DEF Before
      <4>. QED  BY <3>1, <4>4, <4>5, <4>6
    <3>. QED  BY <2>4, <3>1, <3>2
  <2>. QED  BY <2>5, <2>6
<1>. QED  BY <1>10, <1>11, <1>12 DEF Cuts

LEMMA ChunkCut ==
  ASSUME NEW d \in Seq(File), NEW c \in CutOff(d), NEW slice \in Slice
  PROVE  Cuts(Chunk(c, slice), Chunk(d, slice))
<1>1. PICK e \in Nat : IsCut(c, d, e)
  BY CutShape
<1>2. c \in Seq(File) /\ Chunk(d, slice) \in Body
  BY <1>1, ChunkBody DEF IsCut
<1>3. CASE Chunk(c, slice) = <<>>
  BY <1>2, <1>3, BeginsProperties, BeginsCuts
<1>4. CASE slice.kind = "ByName"
  BY <1>1, <1>4, NamedCut DEF Chunk
<1>5. CASE slice.kind = "Full" /\ Pcaps(c) # {}
  <2>1. Pcaps(d) # {} /\ Begins(FirstPcap(c), FirstPcap(d))
    BY <1>1, <1>5, PcapCut
  <2>. QED  BY <1>5, <2>1, PcapBody, BeginsCuts DEF Chunk
<1>6. CASE slice.kind = "From" /\ Pcaps(c) # {} /\ ~(slice.pos > Len(FirstPcap(c)))
  <2>1. Pcaps(d) # {} /\ Begins(FirstPcap(c), FirstPcap(d)) /\ FirstPcap(d) \in Body
    BY <1>1, <1>6, PcapCut, PcapBody
  <2>2. /\ slice.pos \in Nat /\ Len(FirstPcap(c)) \in Nat /\ Len(FirstPcap(d)) \in Nat
        /\ Len(FirstPcap(c)) <= Len(FirstPcap(d))
    BY <1>6, <2>1, BodyDomain DEF Slice, Begins
  <2>3. slice.pos <= Len(FirstPcap(c)) /\ ~(slice.pos > Len(FirstPcap(d)))
    BY <1>6, <2>2
  <2>4. Begins(SubSeq(FirstPcap(c), slice.pos + 1, Len(FirstPcap(c))),
               SubSeq(FirstPcap(d), slice.pos + 1, Len(FirstPcap(d))))
    BY <2>1, <2>2, <2>3, FromCut
  <2>5. Begins(Chunk(c, slice), Chunk(d, slice))
    BY <1>6, <2>1, <2>3, <2>4 DEF Chunk
  <2>. QED  BY <1>2, <2>5, BeginsCuts
<1>7. slice.kind \in {"From", "Full", "ByName"}
  BY DEF Slice
<1>. QED  BY <1>3, <1>4, <1>5, <1>6, <1>7 DEF Chunk

\* Too short for a record, and without a half.
Short(r) == Len(r) \in Nat /\ Len(r) <= 1 /\ (Len(r) = 1 => r[1] = Header)

Peel(b, mark) == IF StartsWith(b, mark) THEN Tail(b) ELSE b

LEMMA PeelCuts ==
  ASSUME NEW b \in Body, NEW r \in Body, Cuts(r, b) \/ Short(r), NEW mark
  PROVE  /\ Peel(r, mark) \in Body /\ Peel(b, mark) \in Body
         /\ Cuts(Peel(r, mark), Peel(b, mark)) \/ Short(Peel(r, mark))
<1>1. /\ r \in Seq(Item) /\ Len(r) \in Nat /\ b \in Seq(Item) /\ Len(b) \in Nat
  BY BodyDomain DEF Body, Item
<1>2. \A x \in Seq(Item) : x # <<>> =>
        /\ Len(x) \in Nat \ {0} /\ Head(x) = x[1] /\ Len(Tail(x)) = Len(x) - 1
        /\ \A i \in 1..Len(Tail(x)) : Tail(x)[i] = x[i + 1]
  BY HeadTailProperties, EmptySeq
<1>3. Peel(r, mark) \in Body /\ Peel(b, mark) \in Body
  BY TailWithin DEF Peel, StartsWith, Within
<1>4. CASE Short(r)
  <2>1. CASE StartsWith(r, mark)
    <3>1. Peel(r, mark) = Tail(r) /\ Len(r) \in Nat \ {0} /\ Len(Tail(r)) = Len(r) - 1
      BY <1>1, <1>2, <2>1 DEF Peel, StartsWith
    <3>2. Len(Tail(r)) = 0
      BY <1>4, <3>1 DEF Short
    <3>. QED  BY <1>3, <3>1, <3>2 DEF Short
  <2>. QED  BY <1>3, <1>4, <2>1 DEF Peel
<1>5. CASE ~Short(r)
  <2>1. /\ Cuts(r, b) /\ Len(r) # 0 /\ Len(r) <= Len(b)
    BY <1>1, <1>5 DEF Short, Cuts
  <2>2. r # <<>> /\ b # <<>>
    BY <1>1, <2>1, EmptySeq
  <2>3. r[1] = b[1]
    <3>1. 1 \in 1..Len(r)
      BY <1>1, <2>1
    <3>2. r[1] = b[1] \/ (1 = Len(r) /\ r[1] = Header)
      BY <2>1, <3>1 DEF Cuts
    <3>3. ~(Len(r) <= 1 /\ (Len(r) = 1 => r[1] = Header))
      BY <1>1, <1>5 DEF Short
    <3>4. Len(r) <= 1 => Len(r) = 1
      <4>1. PICK n \in Nat : n = Len(r)
        BY <1>1
      <4>2. n # 0
        BY Zenon, <2>1, <4>1
      <4>3. n <= 1 => n = 1
        BY <4>2
      <4>. QED  BY Zenon, <4>1, <4>3
    <3>5. Len(r) = 1 => Len(r) <= 1
      OBVIOUS
    <3>. QED  BY Zenon, <3>2, <3>3, <3>4, <3>5
  <2>4. StartsWith(r, mark) <=> StartsWith(b, mark)
    <3>1. Head(r) = r[1] /\ Head(b) = b[1]
      BY <1>1, <1>2, <2>2
    <3>. QED  BY Zenon, <2>2, <2>3, <3>1 DEF StartsWith
  <2>5. CASE StartsWith(r, mark)
    <3>1. Peel(r, mark) = Tail(r) /\ Peel(b, mark) = Tail(b)
      BY <2>4, <2>5 DEF Peel
    <3>2. /\ Len(Tail(r)) = Len(r) - 1 /\ Len(Tail(b)) = Len(b) - 1
          /\ \A i \in 1..Len(Tail(r)) : Tail(r)[i] = r[i + 1]
          /\ \A i \in 1..Len(Tail(b)) : Tail(b)[i] = b[i + 1]
      BY <1>1, <1>2, <2>2
    <3>3. ASSUME NEW i \in 1..Len(Tail(r))
          PROVE  Tail(r)[i] = Tail(b)[i] \/ (i = Len(Tail(r)) /\ Tail(r)[i] = Header)
      <4>1. i + 1 \in 1..Len(r) /\ i \in 1..Len(Tail(b)) /\ (i + 1 = Len(r) => i = Len(Tail(r)))
        <5>1. PICK n \in Nat, m \in Nat : n = Len(r) /\ m = Len(b)
          BY <1>1
        <5>2. n <= m /\ Len(Tail(r)) = n - 1 /\ Len(Tail(b)) = m - 1 /\ i \in 1..(n - 1)
          BY <2>1, <3>2, <5>1
        <5>3. i + 1 \in 1..n /\ i \in 1..(m - 1) /\ (i + 1 = n => i = n - 1)
          BY <5>2
        <5>. QED  BY <5>1, <5>2, <5>3
      <4>2. r[i + 1] = b[i + 1] \/ (i + 1 = Len(r) /\ r[i + 1] = Header)
        BY <2>1, <4>1 DEF Cuts
      <4>. QED  BY <3>2, <4>1, <4>2
    <3>4. Len(Tail(r)) <= Len(Tail(b))
      <4>1. PICK n \in Nat, m \in Nat : n = Len(r) /\ m = Len(b)
        BY <1>1
      <4>. QED  BY <2>1, <3>2, <4>1
    <3>5. Tail(r) \in Body
      BY <1>3, <3>1
    <3>6. Cuts(Tail(r), Tail(b))
      BY <3>3, <3>4, <3>5 DEF Cuts
    <3>. QED  BY <1>3, <3>1, <3>6
  <2>6. CASE ~StartsWith(r, mark)
    BY <1>3, <2>1, <2>4, <2>6 DEF Peel
  <2>. QED  BY <1>3, <2>5, <2>6
<1>. QED  BY <1>3, <1>4, <1>5

\* What is complete in a cut stream is complete, and the same, in the whole one.
LEMMA StraightCut ==
  ASSUME NEW b \in Body, NEW r, Cuts(r, b), Straight(b)
  PROVE  Straight(r)
<1>. DEFINE R == Records(r)
            B == Records(b)
<1>1. r \in Body
  BY DEF Cuts
<1>2. /\ Records(r) = Peel(Peel(r, Lzo), Header)
      /\ Records(b) = Peel(Peel(b, Lzo), Header)
  BY DEF Records, Decompressed, Peel
<1>3. /\ Peel(r, Lzo) \in Body /\ Peel(b, Lzo) \in Body
      /\ Cuts(Peel(r, Lzo), Peel(b, Lzo)) \/ Short(Peel(r, Lzo))
  BY <1>1, PeelCuts
<1>4. R \in Body /\ B \in Body /\ (Cuts(R, B) \/ Short(R))
  <2>. HIDE DEF R, B
  <2>. QED  BY <1>2, <1>3, PeelCuts DEF R, B
<1>5. Len(R) \in Nat /\ Len(B) \in Nat
  BY <1>4, BodyDomain
<1>6. SUFFICES ASSUME NEW j \in Complete(r)
               PROVE  /\ R[2 * j - 1] = <<RecordAt(r, j), 1>>
                      /\ R[2 * j] = <<RecordAt(r, j), 2>>
  BY <1>6 DEF Straight
<1>7. j \in 1..(Len(R) \div 2) /\ \A i \in 1..(2 * j) : R[i] \in Half
  BY DEF Complete
<1>8. RecordAt(r, j) = R[2 * j - 1][1] /\ RecordAt(b, j) = B[2 * j - 1][1]
  BY DEF RecordAt
<1>9. /\ j \in Complete(b) <=> j \in 1..(Len(B) \div 2) /\ \A i \in 1..(2 * j) : B[i] \in Half
      /\ j \in Complete(b) => /\ B[2 * j - 1] = <<RecordAt(b, j), 1>>
                              /\ B[2 * j] = <<RecordAt(b, j), 2>>
  BY DEF Complete, Straight
<1>. HIDE DEF R, B
<1>10. 2 * j <= Len(R) /\ j \in Nat \ {0}
  BY <1>5, <1>7
<1>11. Cuts(R, B)
  BY <1>4, <1>5, <1>10 DEF Short
<1>12. \A i \in 1..(2 * j) : R[i] = B[i]
  <2>1. SUFFICES ASSUME NEW i \in 1..(2 * j) PROVE R[i] = B[i]
    BY <2>1
  <2>2. i \in 1..Len(R) /\ R[i] # Header
    BY <1>5, <1>7, <1>10, MarkAssumption
  <2>. QED  BY <1>11, <2>2 DEF Cuts
<1>13. Len(R) <= Len(B)
  BY <1>11 DEF Cuts
<1>14. j \in 1..(Len(B) \div 2)
  BY <1>5, <1>10, <1>13
<1>15. j \in Complete(b)
  BY <1>7, <1>9, <1>12, <1>14
<1>16. 2 * j - 1 \in 1..(2 * j) /\ 2 * j \in 1..(2 * j)
  BY <1>10
<1>17. R[2 * j - 1] = B[2 * j - 1] /\ R[2 * j] = B[2 * j]
  BY <1>12, <1>16
<1>. QED  BY <1>8, <1>9, <1>15, <1>17

-----------------------------------------------------------------------------
(* The lists of sources.                                                   *)

RowSource(k) == src(RowArchive(install, k), RowSlice(install, k))

\* The rows whose archive is there, all of them.
LEMMA PartsAreSources ==
  ASSUME install \in Install
  PROVE  /\ FromParts \in Seq(Source)
         /\ \A i \in DOMAIN FromParts : \E k \in DOMAIN install.parts : FromParts[i] = RowSource(k)
         /\ \A k \in DOMAIN install.parts : Found(RowArchive(install, k)) =>
              \E i \in DOMAIN FromParts : FromParts[i] = RowSource(k)
<1>. DEFINE parts == install.parts
            kept == {k \in DOMAIN parts : Found(<<parts[k].minute, parts[k].type>>)}
            row == [k \in DOMAIN parts |-> <<TypeNumber(parts[k].type), k, 0>>]
            T == {<<TypeNumber(parts[k].type), k, 0>> : k \in kept}
            all == {row[k] : k \in 1..Len(parts)}
            l == Listing(T)
            r == [i \in DOMAIN l |-> src(<<parts[l[i][2]].minute, parts[l[i][2]].type>>,
                                         From(parts[l[i][2]].pos))]
<1>1. parts \in Seq(Part)
  BY DEF Install
<1>2. /\ Len(parts) \in Nat /\ DOMAIN parts = 1..Len(parts)
      /\ \A k \in 1..Len(parts) : parts[k] \in Part
  BY <1>1, LenProperties
<1>3. \A k \in 1..Len(parts) : TypeNumber(parts[k].type) \in Int
  BY <1>2 DEF TypeNumber, Part, Type
<1>4. IsFiniteSet(all)
  <2>. HIDE DEF parts, row
  <2>. QED  BY <1>2, FiniteImage
<1>5. ASSUME NEW x \in T
      PROVE  x \in all /\ x \in Triples /\ x[2] \in 1..Len(parts)
  <2>1. PICK k \in kept : x = <<TypeNumber(parts[k].type), k, 0>>
    BY <1>5
  <2>2. k \in DOMAIN parts
    OBVIOUS
  <2>. HIDE DEF parts, T, kept
  <2>3. k \in 1..Len(parts) /\ TypeNumber(parts[k].type) \in Int /\ x = row[k]
    BY <1>2, <1>3, <2>1, <2>2
  <2>4. x \in Triples /\ x[2] \in 1..Len(parts)
    BY <2>1, <2>3 DEF Triples
  <2>. HIDE DEF row
  <2>5. x \in all
    BY <2>3
  <2>. QED  BY <2>4, <2>5
<1>6. T \subseteq all /\ T \subseteq Triples
  <2>. HIDE DEF T, all
  <2>. QED  BY <1>5
<1>7. Cardinality(T) \in Nat /\ l \in [1..Cardinality(T) -> T]
  <2>. HIDE DEF T, all
  <2>. QED  BY <1>4, <1>6, FS_Subset, ListingProperties
<1>8. \A k \in 1..Len(parts) : src(<<parts[k].minute, parts[k].type>>, From(parts[k].pos)) \in Source
  <2>. HIDE DEF parts
  <2>. QED  BY <1>2 DEF Part, src, From, Source, Slice, Archive
<1>9. \A i \in 1..Cardinality(T) : l[i][2] \in 1..Len(parts)
  <2>. HIDE DEF T, l, parts
  <2>. QED  BY <1>5, <1>7
<1>10. r \in [1..Cardinality(T) -> Source]
  <2>. HIDE DEF T, l, parts
  <2>. QED  BY <1>7, <1>8, <1>9
<1>11. r \in Seq(Source) /\ DOMAIN r = 1..Cardinality(T)
  <2>. HIDE DEF r, T
  <2>. QED  BY <1>7, <1>10, FunctionIsSequence
<1>12. FromParts = r
  BY DEF FromParts
<1>13. \A k : src(<<parts[k].minute, parts[k].type>>, From(parts[k].pos)) = RowSource(k)
  BY DEF RowSource, RowArchive, RowSlice, From
<1>14. \A k \in DOMAIN parts : Found(RowArchive(install, k)) => <<TypeNumber(parts[k].type), k, 0>> \in T
  BY DEF RowArchive
<1>15. \A x \in T : \E i \in 1..Cardinality(T) : l[i] = x
  <2>. HIDE DEF T, all
  <2>1. IsFiniteSet(T)
    BY <1>4, <1>6, FS_Subset
  <2>. QED  BY <1>6, <2>1, ListingRanks
<1>. HIDE DEF T, l, parts
<1>16. \A i \in 1..Cardinality(T) : r[i] = RowSource(l[i][2])
  BY <1>7, <1>13
<1>. HIDE DEF r
<1>17. \A i \in DOMAIN r : \E k \in DOMAIN parts : r[i] = RowSource(k)
  BY <1>2, <1>9, <1>11, <1>16
<1>18. ASSUME NEW k \in DOMAIN parts, Found(RowArchive(install, k))
       PROVE  \E i \in DOMAIN r : r[i] = RowSource(k)
  <2>1. PICK i \in 1..Cardinality(T) : l[i] = <<TypeNumber(parts[k].type), k, 0>>
    BY <1>14, <1>15, <1>18
  <2>2. l[i][2] = k
    BY <2>1
  <2>. QED  BY <1>11, <1>16, <2>2
<1>. QED  BY <1>11, <1>12, <1>17, <1>18 DEF parts

LEMMA OrderedAreSources ==
  ASSUME NEW S \in SUBSET Archive, NEW slice \in Slice
  PROVE  /\ Ordered(S, slice) \in Seq(Source)
         /\ \A k \in DOMAIN Ordered(S, slice) : Ordered(S, slice)[k].slice = slice
         /\ \A a \in S : a[2] \in {"sip", "rtp"} =>
              \E k \in DOMAIN Ordered(S, slice) : Ordered(S, slice)[k] = src(a, slice)
<1>. DEFINE T == {<<a[1], TypeNumber(a[2]), 0>> : a \in S}
            minute(m) == {<<m, 0, 0>>, <<m, 1, 0>>, <<m, 2, 0>>, <<m, 3, 0>>}
            f == [i \in 1..(LastMinute + 1) |-> minute(i - 1)]
            l == Listing(T)
            r == [k \in DOMAIN l |-> src(<<l[k][1], IF l[k][2] = 0 THEN "sip" ELSE "rtp">>, slice)]
<1>1. LastMinute + 1 \in Nat
  BY MinuteAssumption
<1>2. \A a \in Archive : a[1] \in 0..LastMinute /\ TypeNumber(a[2]) \in {0, 1, 2, 3}
  BY DEF Archive, Type, TypeNumber
<1>3. IsFiniteSet(UNION {f[i] : i \in 1..(LastMinute + 1)})
  <2>1. \A i \in 1..(LastMinute + 1) : IsFiniteSet(f[i])
    <3>1. SUFFICES ASSUME NEW i \in 1..(LastMinute + 1)
                   PROVE  IsFiniteSet(minute(i - 1))
      BY <3>1
    <3>. DEFINE m == i - 1
                two == {<<m, 0, 0>>, <<m, 1, 0>>}
                three == two \cup {<<m, 2, 0>>}
    <3>2. IsFiniteSet({<<m, 0, 0>>})
      BY FS_Singleton
    <3>3. IsFiniteSet({<<m, 0, 0>>} \cup {<<m, 1, 0>>})
      BY <3>2, FS_AddElement
    <3>6. IsFiniteSet(two)
      BY <3>3
    <3>7. IsFiniteSet(three)
      BY <3>6, FS_AddElement
    <3>4. IsFiniteSet(three \cup {<<m, 3, 0>>})
      BY <3>7, FS_AddElement
    <3>5. three \cup {<<m, 3, 0>>} = minute(m)
      OBVIOUS
    <3>. QED  BY <3>4, <3>5
  <2>. HIDE DEF f
  <2>. QED  BY <1>1, <2>1, FiniteUnion
<1>4. ASSUME NEW x \in T
      PROVE  /\ x \in Triples /\ x[1] \in 0..LastMinute
             /\ x \in UNION {f[i] : i \in 1..(LastMinute + 1)}
  <2>1. PICK a \in S : x = <<a[1], TypeNumber(a[2]), 0>>
    OBVIOUS
  <2>4. x[1] \in 0..LastMinute /\ x \in minute(x[1])
    BY <1>2, <2>1
  <2>2. x[1] + 1 \in 1..(LastMinute + 1) /\ x \in f[x[1] + 1]
    BY <2>4, MinuteAssumption
  <2>3. x \in Triples /\ x[1] \in 0..LastMinute
    BY <1>2, <2>1, MinuteAssumption DEF Triples
  <2>. HIDE DEF f
  <2>. QED  BY <2>2, <2>3
<1>5. Cardinality(T) \in Nat /\ l \in [1..Cardinality(T) -> T]
  <2>. HIDE DEF T, f
  <2>1. T \subseteq UNION {f[i] : i \in 1..(LastMinute + 1)} /\ T \subseteq Triples
    BY <1>4
  <2>. QED  BY <1>3, <2>1, FS_Subset, ListingProperties
<1>6. \A k \in 1..Cardinality(T) : l[k][1] \in 0..LastMinute
  <2>. HIDE DEF T, l
  <2>. QED  BY <1>4, <1>5
<1>7. r \in [1..Cardinality(T) -> Source] /\ \A k \in 1..Cardinality(T) : r[k].slice = slice
  <2>. HIDE DEF T, l
  <2>. QED  BY <1>5, <1>6 DEF src, Source, Archive, Type
<1>8. r \in Seq(Source) /\ DOMAIN r = 1..Cardinality(T)
  <2>. HIDE DEF r, T
  <2>. QED  BY <1>5, <1>7, FunctionIsSequence
<1>9. Ordered(S, slice) = r
  BY DEF Ordered
<1>10. \A a \in S : <<a[1], TypeNumber(a[2]), 0>> \in T
  OBVIOUS
<1>11. \A x \in T : \E k \in 1..Cardinality(T) : l[k] = x
  <2>. HIDE DEF T, f
  <2>1. T \subseteq UNION {f[i] : i \in 1..(LastMinute + 1)} /\ T \subseteq Triples
    BY <1>4
  <2>. QED  BY <1>3, <2>1, FS_Subset, ListingRanks
<1>12. ASSUME NEW a \in S, a[2] \in {"sip", "rtp"}
       PROVE  \E k \in 1..Cardinality(T) : r[k] = src(a, slice)
  <2>. HIDE DEF T
  <2>1. PICK k \in 1..Cardinality(T) : l[k] = <<a[1], TypeNumber(a[2]), 0>>
    BY <1>10, <1>11
  <2>2. l[k][1] = a[1] /\ l[k][2] = TypeNumber(a[2])
    BY <2>1
  <2>3. a[2] = IF l[k][2] = 0 THEN "sip" ELSE "rtp"
    BY <1>12, <2>2 DEF TypeNumber
  <2>4. a = <<a[1], a[2]>>
    BY DEF Archive
  <2>5. r[k] = src(<<l[k][1], IF l[k][2] = 0 THEN "sip" ELSE "rtp">>, slice)
    BY <1>5
  <2>. HIDE DEF r, l
  <2>. QED  BY <2>2, <2>3, <2>4, <2>5
<1>. HIDE DEF r
<1>. QED  BY <1>7, <1>8, <1>9, <1>12

-----------------------------------------------------------------------------
(* The merge.                                                              *)

LEMMA RecordProperties ==
  ASSUME NEW b \in Body
  PROVE  /\ Len(Records(b)) \div 2 \in Nat
         /\ Complete(b) \subseteq 1..(Len(Records(b)) \div 2)
         /\ \A j \in Complete(b) : /\ RecordAt(b, j) \in Packet
                                   /\ Own(b) => RecordAt(b, j).call = Me
<1>1. Within(Records(b), b) /\ Records(b) \in Body
  BY StripsWithin DEF Within
<1>2. Len(Records(b)) \in Nat
  BY <1>1, BodyDomain
<1>3. Len(Records(b)) \div 2 \in Nat /\ 2 * (Len(Records(b)) \div 2) <= Len(Records(b))
  BY <1>2
<1>4. Complete(b) \subseteq 1..(Len(Records(b)) \div 2)
  BY DEF Complete
<1>5. ASSUME NEW j \in Complete(b)
      PROVE  RecordAt(b, j) \in Packet /\ (Own(b) => RecordAt(b, j).call = Me)
  <2>1. j \in 1..(Len(Records(b)) \div 2) /\ \A i \in 1..(2 * j) : Records(b)[i] \in Half
    BY DEF Complete
  <2>2. 2 * j - 1 \in 1..(2 * j) /\ 2 * j - 1 \in 1..Len(Records(b))
    BY <1>2, <1>3, <2>1
  <2>3. Records(b)[2 * j - 1] \in Half
    BY <2>1, <2>2
  <2>4. 2 * j - 1 \in DOMAIN Records(b)
    BY <1>1, <2>2, BodyDomain
  <2>5. Own(b) => Own(Records(b))
    BY <1>1, WithinOwn
  <2>. QED  BY <2>3, <2>4, <2>5 DEF RecordAt, Half, Own
<1>. QED  BY <1>3, <1>4, <1>5

\* Rows of distinct last two columns are as many as there are such pairs.
LEMMA PairsCount ==
  ASSUME NEW P, NEW T, IsFiniteSet(T),
         \A x \in T : <<x[2], x[3]>> \in P,
         \A p \in P : \E x \in T : p = <<x[2], x[3]>>,
         \A x, y \in T : x[2] = y[2] /\ x[3] = y[3] => x = y
  PROVE  Cardinality(P) = Cardinality(T)
<1>. DEFINE g == [x \in T |-> <<x[2], x[3]>>]
<1>1. g \in [T -> P]
  OBVIOUS
<1>2. \A x, y \in T : g[x] = g[y] => x = y
  OBVIOUS
<1>3. \A p \in P : \E x \in T : g[x] = p
  OBVIOUS
<1>. HIDE DEF g
<1>4. g \in Bijection(T, P)
  BY <1>1, <1>2, <1>3 DEF Bijection, Injection, Surjection, IsInjective
<1>5. ExistsBijection(T, P)
  BY <1>4 DEF ExistsBijection
<1>. QED  BY <1>5, FS_Bijection

\* As many packets as records, each behind those that come sooner.
Placed(m) ==
  /\ Len(m) = Cardinality(Taken)
  /\ \A r \in Taken : m[Cardinality({q \in Taken : Sooner(q, r)}) + 1] = At(r)

LEMMA MergedProperties ==
  ASSUME blobs \in Seq(Body)
  PROVE  /\ Merged \in Seq(Packet)
         /\ Placed(Merged)
         /\ (\A k \in DOMAIN blobs : Own(blobs[k])) => \A i \in DOMAIN Merged : Merged[i].call = Me
         /\ \A i \in DOMAIN Merged : \E k \in DOMAIN blobs : \E j \in Complete(blobs[k]) :
              Merged[i] = RecordAt(blobs[k], j)
         /\ \A k \in DOMAIN blobs : \A j \in Complete(blobs[k]) : \E i \in DOMAIN Merged :
              Merged[i] = RecordAt(blobs[k], j)
<1>. DEFINE m == [k \in DOMAIN blobs |-> Len(Records(blobs[k])) \div 2]
            key == [k \in DOMAIN blobs |-> [j \in 1..m[k] |-> RecordAt(blobs[k], j).ts]]
            T == UNION {{<<RecordAt(blobs[k], j).ts, k, j>> : j \in Complete(blobs[k])} :
                          k \in DOMAIN blobs}
            l == Listing(T)
            r == [i \in DOMAIN l |-> RecordAt(blobs[l[i][2]], l[i][3])]
<1>1. Len(blobs) \in Nat /\ DOMAIN blobs = 1..Len(blobs) /\ \A k \in 1..Len(blobs) : blobs[k] \in Body
  BY LenProperties
<1>2. ASSUME NEW k \in 1..Len(blobs)
      PROVE  /\ m[k] \in Nat /\ Complete(blobs[k]) \subseteq 1..m[k]
             /\ \A j \in Complete(blobs[k]) :
                  /\ RecordAt(blobs[k], j) \in Packet /\ RecordAt(blobs[k], j).ts \in Nat
                  /\ Own(blobs[k]) => RecordAt(blobs[k], j).call = Me
  BY <1>1, RecordProperties, PacketAssumption
<1>3. ASSUME NEW x \in T
      PROVE  /\ x \in Triples /\ x[2] \in 1..Len(blobs)
             /\ x[3] \in Complete(blobs[x[2]]) /\ x[1] = RecordAt(blobs[x[2]], x[3]).ts
  <2>1. PICK k \in DOMAIN blobs : \E j \in Complete(blobs[k]) : x = <<RecordAt(blobs[k], j).ts, k, j>>
    BY <1>3
  <2>2. PICK j \in Complete(blobs[k]) : x = <<RecordAt(blobs[k], j).ts, k, j>>
    BY <2>1
  <2>3. k \in 1..Len(blobs) /\ k \in Int /\ j \in Int /\ RecordAt(blobs[k], j).ts \in Int
    BY <1>1, <1>2
  <2>. HIDE DEF T
  <2>. QED  BY <2>2, <2>3 DEF Triples
<1>4. IsFiniteSet(T) /\ T \subseteq Triples
  <2>1. \A k \in 1..Len(blobs) : m[k] \in Nat
    BY <1>2
  <2>2. \A x \in T : x[3] \in 1..m[x[2]] /\ x[1] = key[x[2]][x[3]]
    <3>. HIDE DEF T, m
    <3>. QED  BY <1>1, <1>2, <1>3
  <2>. HIDE DEF T, m, key
  <2>. QED  BY <1>1, <1>3, <2>1, <2>2, FinitePositions
<1>10. \A k \in DOMAIN blobs : \A j \in Complete(blobs[k]) : <<RecordAt(blobs[k], j).ts, k, j>> \in T
  OBVIOUS
<1>. HIDE DEF T, m, key
<1>11. \A x \in T : \E i \in 1..Cardinality(T) : Listing(T)[i] = x
  BY <1>4, ListingRanks
<1>5. /\ Cardinality(T) \in Nat /\ l \in [1..Cardinality(T) -> T]
      /\ \A i, j \in 1..Cardinality(T) : i < j => Before(l[i], l[j])
  BY <1>4, ListingProperties
<1>12. \A x \in T : \E i \in 1..Cardinality(T) : l[i] = x
  BY <1>11
<1>. HIDE DEF l
<1>13. ASSUME NEW i \in 1..Cardinality(T)
       PROVE  \E k \in DOMAIN blobs : \E j \in Complete(blobs[k]) : r[i] = RecordAt(blobs[k], j)
  <2>1. l[i] \in T /\ r[i] = RecordAt(blobs[l[i][2]], l[i][3])
    BY <1>5
  <2>2. l[i][2] \in DOMAIN blobs /\ l[i][3] \in Complete(blobs[l[i][2]])
    BY <1>1, <1>3, <2>1
  <2>. QED  BY <2>1, <2>2
<1>14. ASSUME NEW k \in DOMAIN blobs, NEW j \in Complete(blobs[k])
       PROVE  \E i \in 1..Cardinality(T) : r[i] = RecordAt(blobs[k], j)
  <2>1. PICK i \in 1..Cardinality(T) : l[i] = <<RecordAt(blobs[k], j).ts, k, j>>
    BY <1>10, <1>12
  <2>2. l[i][2] = k /\ l[i][3] = j
    BY <2>1
  <2>. QED  BY <1>5, <2>2
<1>6. \A i \in 1..Cardinality(T) : r[i] \in Packet /\ r[i].ts = l[i][1] /\ l[i][1] \in Nat
                                  /\ ((\A k \in DOMAIN blobs : Own(blobs[k])) => r[i].call = Me)
  BY <1>1, <1>2, <1>3, <1>5
<1>7. r \in Seq(Packet) /\ DOMAIN r = 1..Cardinality(T)
  <2>1. r \in [1..Cardinality(T) -> Packet]
    BY <1>5, <1>6
  <2>. HIDE DEF r
  <2>. QED  BY <1>5, <2>1, FunctionIsSequence
<1>8. /\ \A x \in T : <<x[2], x[3]>> \in Taken /\ At(<<x[2], x[3]>>).ts = x[1]
      /\ \A q \in Taken : \E x \in T : q = <<x[2], x[3]>>
      /\ \A x, y \in T : x[2] = y[2] /\ x[3] = y[3] => x = y
  <2>1. ASSUME NEW x \in T
        PROVE  <<x[2], x[3]>> \in Taken /\ At(<<x[2], x[3]>>).ts = x[1]
    BY <1>1, <1>3 DEF Taken, At
  <2>2. ASSUME NEW q \in Taken
        PROVE  \E x \in T : q = <<x[2], x[3]>>
    <3>1. PICK k \in DOMAIN blobs : \E j \in Complete(blobs[k]) : q = <<k, j>>
      BY <2>2 DEF Taken
    <3>2. PICK j \in Complete(blobs[k]) : q = <<k, j>>
      BY <3>1
    <3>3. <<RecordAt(blobs[k], j).ts, k, j>> \in T
      BY <1>10
    <3>. QED  BY <3>2, <3>3
  <2>3. ASSUME NEW x \in T, NEW y \in T, x[2] = y[2], x[3] = y[3]
        PROVE  x = y
    <3>1. x = <<x[1], x[2], x[3]>> /\ y = <<y[1], y[2], y[3]>>
      BY <1>3 DEF Triples
    <3>2. x[1] = y[1]
      BY <1>3, <2>3
    <3>. QED  BY Zenon, <2>3, <3>1, <3>2
  <2>. QED  BY <2>1, <2>2, <2>3
<1>15. Cardinality(Taken) = Cardinality(T)
  BY <1>4, <1>8, PairsCount
<1>16. ASSUME NEW q \in Taken
       PROVE  r[Cardinality({p \in Taken : Sooner(p, q)}) + 1] = At(q)
  <2>. DEFINE P == {p \in Taken : Sooner(p, q)}
  <2>1. PICK x \in T : q = <<x[2], x[3]>>
    BY <1>8
  <2>. DEFINE B == {y \in T : Before(y, x)}
  <2>2. \A y \in T : Before(y, x) <=> Sooner(<<y[2], y[3]>>, q)
    BY <1>8, <2>1 DEF Before, Sooner
  <2>3. IsFiniteSet(B)
    BY <1>4, FS_Subset
  <2>4. \A y \in B : <<y[2], y[3]>> \in P
    BY <1>8, <2>2
  <2>5. \A p \in P : \E y \in B : p = <<y[2], y[3]>>
    BY <1>8, <2>2
  <2>6. \A y, z \in B : y[2] = z[2] /\ y[3] = z[3] => y = z
    BY <1>8
  <2>7. Rank(T, x) = Cardinality(B) + 1
    BY DEF Rank
  <2>. HIDE DEF P, B
  <2>8. Cardinality(P) = Cardinality(B)
    BY <2>3, <2>4, <2>5, <2>6, PairsCount
  <2>9. Rank(T, x) \in 1..Cardinality(T) /\ l[Rank(T, x)] = x
    BY <1>4, ListingRanks DEF l
  <2>10. r[Rank(T, x)] = RecordAt(blobs[x[2]], x[3])
    BY <1>5, <2>9
  <2>11. At(q) = RecordAt(blobs[x[2]], x[3])
    BY <2>1 DEF At
  <2>12. Cardinality(P) + 1 = Rank(T, x)
    BY <2>7, <2>8
  <2>. HIDE DEF r
  <2>13. r[Cardinality(P) + 1] = At(q)
    BY Zenon, <2>10, <2>11, <2>12
  <2>. QED  BY <2>13 DEF P
<1>9. Merged = r
  BY DEF Merged, ByTime, l, T
<1>. HIDE DEF r
<1>17. Placed(r)
  <2>1. Len(r) = Cardinality(Taken)
    BY <1>5, <1>7, <1>15, LenProperties
  <2>. QED  BY <1>16, <2>1 DEF Placed
<1>. QED  BY <1>6, <1>7, <1>9, <1>13, <1>14, <1>17

-----------------------------------------------------------------------------
(* The inductive invariant.                                                *)

\* Until it reads, the handler holds nothing.
Early ==
  pc \in {"idle", "parts", "fbasename", "range", "scan"} =>
    sources = <<>> /\ blobs = <<>> /\ packets = <<>>

Chosen == pc \in {"range", "scan"} => mode # "none"

\* Archives are deleted, never rewritten.
AsWritten == \A a \in Archive : Found(a) => disk[a] = install.disk[a]

ByNameOnly == mode = "fbasename" => \A k \in DOMAIN sources : sources[k].slice = ByName

OwnBlobs == mode = "fbasename" => \A k \in DOMAIN blobs : Own(blobs[k])

\* Nothing is read or answered after the answer.
Final == status = "ok" => pc = "answered"

IInv == TypeOK /\ Early /\ Final /\ Chosen /\ AsWritten /\ ByNameOnly /\ OwnBlobs /\ InOrder /\ PureByName

LEMMA InstallTyped ==
  ASSUME TypeOK
  PROVE  install \in Install
BY InstallAssumption DEF TypeOK

LEMMA EmptyDomain == DOMAIN <<>> = {}
<1>1. <<>> \in Seq({}) /\ Len(<<>>) = 0
  BY EmptySeq
<1>2. DOMAIN <<>> = 1..0
  BY <1>1, LenProperties
<1>. QED  BY <1>2

LEMMA InitIInv == Init => IInv
<1>1. SUFFICES ASSUME Init PROVE IInv
  BY <1>1
<1>2. install \in Install
  BY <1>1, InstallAssumption DEF Init
<1>3. disk \in [Archive -> Seq(File) \cup {None}]
  BY <1>1, <1>2 DEF Init, Install
<1>4. TypeOK
  BY <1>1, <1>3, EmptySeq DEF Init, TypeOK
<1>. QED  BY <1>1, <1>4, EmptyDomain
            DEF Init, IInv, Early, Final, Chosen, AsWritten, ByNameOnly, OwnBlobs, InOrder, PureByName

\* Where the packets are looked for.
LEMMA ScanFinds ==
  ASSUME IInv, Scan
  PROVE  /\ sources' \in Seq(Source)
         /\ mode = "fbasename" => \A k \in DOMAIN sources' : sources'[k].slice = ByName
<1>1. mode \in {"parts", "fbasename", "minutes"}
  BY DEF IInv, TypeOK, Chosen, Scan
<1>2. ByName \in Slice /\ Full \in Slice
  BY DEF ByName, Full, Slice
<1>3. CASE mode = "parts"
  <2>1. sources' = FromParts
    BY <1>3 DEF Scan
  <2>. QED  BY <1>3, <2>1, PartsAreSources, InstallTyped DEF IInv
<1>4. CASE mode = "fbasename"
  <2>1. sources' = FromFbasename
    BY <1>4 DEF Scan
  <2>. QED  BY <1>2, <2>1, OrderedAreSources DEF FromFbasename, Wanted
<1>5. CASE mode = "minutes"
  <2>1. sources' = FromMinutes
    BY <1>5 DEF Scan
  <2>. QED  BY <1>2, <1>5, <2>1, OrderedAreSources DEF FromMinutes, Wanted
<1>. QED  BY <1>1, <1>3, <1>4, <1>5

\* What is read of an archive, cut off or not.
LEMMA ReadBlob ==
  ASSUME IInv, sources # <<>>, Found(Head(sources).archive),
         NEW a \in {disk[Head(sources).archive]} \cup CutOff(disk[Head(sources).archive])
  PROVE  /\ Chunk(a, Head(sources).slice) \in Body
         /\ mode = "fbasename" => Own(Chunk(a, Head(sources).slice))
<1>. DEFINE s == Head(sources)
            d == disk[s.archive]
<1>1. s \in Source /\ s = sources[1] /\ 1 \in DOMAIN sources
  <2>1. sources \in Seq(Source)
    BY DEF IInv, TypeOK
  <2>2. Head(sources) \in Source /\ Len(sources) \in Nat \ {0}
    BY <2>1, HeadTailProperties, EmptySeq
  <2>3. DOMAIN sources = 1..Len(sources)
    BY <2>1, LenProperties
  <2>. QED  BY <2>2, <2>3
<1>2. s.archive \in Archive /\ s.slice \in Slice
  BY <1>1 DEF Source
<1>3. d \in Seq(File) /\ d = install.disk[s.archive] /\ install.disk[s.archive] # None
  BY <1>2 DEF IInv, TypeOK, AsWritten, Found
<1>4. OwnNamed(d)
  <2>1. install \in Installs
    BY DEF IInv, TypeOK
  <2>2. \A k \in DOMAIN install.disk[s.archive] : install.disk[s.archive][k].base = <<Me>> =>
          \A j \in DOMAIN install.disk[s.archive][k].body :
            install.disk[s.archive][k].body[j] \in Half =>
              install.disk[s.archive][k].body[j][1].call = Me
    BY <1>2, <1>3, <2>1, InstallAssumption
  <2>. HIDE DEF s, d
  <2>. QED  BY <1>3, <2>2 DEF OwnNamed, Own
<1>5. a \in Seq(File) /\ OwnNamed(a)
  BY <1>3, <1>4, CutOffTar
<1>6. ASSUME mode = "fbasename"
      PROVE  Own(Chunk(a, s.slice))
  <2>1. s.slice = ByName
    BY <1>1, <1>6 DEF IInv, ByNameOnly
  <2>2. Chunk(a, ByName) = NamedChunks(a)
    BY DEF Chunk, ByName
  <2>. QED  BY <1>5, <2>1, <2>2, ChunkOwn
<1>. QED  BY <1>2, <1>5, <1>6, ChunkBody

\* Reading on leaves the rest of the sources.
LEMMA RestOfSources ==
  ASSUME IInv, sources # <<>>
  PROVE  /\ Tail(sources) \in Seq(Source)
         /\ mode = "fbasename" => \A k \in DOMAIN Tail(sources) : Tail(sources)[k].slice = ByName
<1>1. sources \in Seq(Source)
  BY DEF IInv, TypeOK
<1>2. /\ Tail(sources) \in Seq(Source) /\ Len(Tail(sources)) = Len(sources) - 1
      /\ \A i \in 1..Len(Tail(sources)) : Tail(sources)[i] = sources[i + 1]
  BY <1>1, HeadTailProperties
<1>3. /\ DOMAIN sources = 1..Len(sources) /\ Len(sources) \in Nat
      /\ DOMAIN Tail(sources) = 1..Len(Tail(sources)) /\ Len(Tail(sources)) \in Nat
  BY <1>1, <1>2, LenProperties
<1>. QED  BY <1>2, <1>3 DEF IInv, ByNameOnly

\* The order of the answer speaks of the blobs and the answer.
LEMMA SameMerge ==
  ASSUME InOrder, UNCHANGED <<blobs, packets>>, status' = "ok" => status = "ok"
  PROVE  InOrder'
<1>1. Taken' = Taken /\ \A r : At(r)' = At(r)
  BY DEF Taken, At
<1>2. \A q, r : Sooner(q, r)' <=> Sooner(q, r)
  BY <1>1 DEF Sooner
<1>. QED  BY <1>1, <1>2 DEF InOrder

\* A step that reads nothing and answers no packets, and moves on if it asks.
LEMMA AskingKeeps ==
  ASSUME IInv, Receive \/ FetchParts \/ FetchFbasename \/ FetchRange \/ CleanCdr
  PROVE  IInv'
<1>1. UNCHANGED <<install, disk, sources, blobs, packets, lost>>
  BY DEF Receive, FetchParts, FetchFbasename, FetchRange, CleanCdr
<1>2. /\ cdr_exists' \in BOOLEAN /\ (status' = "ok" => status = "ok" /\ pc' = pc)
      /\ pc' \in {"parts", "fbasename", "range", "scan", "answered"} \cup {pc}
      /\ status' \in {"none", "ok", "not_found", "error", "timeout", "forbidden"}
      /\ mode' \in {"none", "parts", "fbasename", "minutes"}
      /\ pc' # "answered" /\ pc' # pc => pc \in {"idle", "parts", "fbasename", "range"}
      /\ mode' # mode => pc = "fbasename"
      /\ pc' \in {"range", "scan"} => mode' # "none"
  <2>. DEFINE Goal == /\ cdr_exists' \in BOOLEAN /\ (status' = "ok" => status = "ok" /\ pc' = pc)
                      /\ pc' \in {"parts", "fbasename", "range", "scan", "answered"} \cup {pc}
                      /\ status' \in {"none", "ok", "not_found", "error", "timeout", "forbidden"}
                      /\ mode' \in {"none", "parts", "fbasename", "minutes"}
                      /\ pc' # "answered" /\ pc' # pc => pc \in {"idle", "parts", "fbasename", "range"}
                      /\ mode' # mode => pc = "fbasename"
                      /\ pc' \in {"range", "scan"} => mode' # "none"
  <2>1. CASE Receive
    BY <2>1 DEF Receive, Goes, Respond, IInv, TypeOK, Final, Chosen
  <2>2. CASE FetchParts
    BY <2>2 DEF FetchParts, Goes, Respond, IInv, TypeOK, Final, Chosen
  <2>3. CASE FetchFbasename
    <3>1. mode' \in {"parts", "fbasename", "minutes"} /\ pc' \in {"scan", "range"}
      BY <2>3 DEF FetchFbasename, Goes
    <3>2. pc = "fbasename" /\ UNCHANGED <<status, cdr_exists>>
      BY <2>3 DEF FetchFbasename, Goes
    <3>. QED  BY <3>1, <3>2 DEF IInv, TypeOK, Final
  <2>4. CASE FetchRange
    BY <2>4 DEF FetchRange, Goes, Respond, IInv, TypeOK, Final, Chosen
  <2>5. CASE CleanCdr
    BY <2>5 DEF CleanCdr, IInv, TypeOK, Chosen
  <2>. QED  BY <2>1, <2>2, <2>3, <2>4, <2>5
<1>3. TypeOK'
  <2>1. TypeOK
    BY DEF IInv
  <2>2. pc' \in {"idle", "parts", "fbasename", "range", "scan", "read", "answered"}
    BY <1>2, <2>1 DEF TypeOK
  <2>. QED  BY <1>1, <1>2, <2>1, <2>2 DEF TypeOK
<1>4. Early' /\ Final' /\ Chosen'
  BY <1>1, <1>2 DEF IInv, Early, Final, Chosen
<1>5. AsWritten' /\ InOrder'
  BY <1>1, <1>2, SameMerge DEF IInv, AsWritten, Found
<1>6. ByNameOnly' /\ OwnBlobs' /\ PureByName'
  <2>1. CASE mode' = mode
    BY <1>1, <2>1 DEF IInv, ByNameOnly, OwnBlobs, PureByName
  <2>2. CASE mode' # mode
    <3>1. sources' = <<>> /\ blobs' = <<>> /\ packets' = <<>>
      BY <1>1, <1>2, <2>2 DEF IInv, Early
    <3>. QED  BY <3>1, EmptyDomain DEF ByNameOnly, OwnBlobs, PureByName
  <2>. QED  BY <2>1, <2>2
<1>. QED  BY <1>3, <1>4, <1>5, <1>6 DEF IInv

LEMMA ScanKeeps == IInv /\ Scan => IInv'
<1>1. SUFFICES ASSUME IInv, Scan PROVE IInv'
  BY <1>1
<1>2. UNCHANGED <<install, disk, cdr_exists, mode, blobs, packets>> /\ lost' \subseteq Archive
  BY <1>1 DEF Scan
<1>3. pc = "scan" /\ pc' \in {"read", "answered"} /\ status' \in {"not_found", status}
  BY <1>1 DEF Scan, Respond, Goes
<1>4. /\ sources' \in Seq(Source)
      /\ mode = "fbasename" => \A k \in DOMAIN sources' : sources'[k].slice = ByName
  BY <1>1, ScanFinds
<1>5. TypeOK'
  BY <1>1, <1>2, <1>3, <1>4 DEF IInv, TypeOK
<1>6. Early' /\ Final' /\ Chosen' /\ ByNameOnly'
  BY <1>1, <1>2, <1>3, <1>4 DEF IInv, Early, Final, Chosen, ByNameOnly
<1>7. AsWritten' /\ OwnBlobs' /\ InOrder' /\ PureByName'
  BY <1>1, <1>2, <1>3, SameMerge DEF IInv, AsWritten, Found, OwnBlobs, PureByName
<1>. QED  BY <1>5, <1>6, <1>7 DEF IInv

\* A damaged stream is a body without an item of anybody's.
LEMMA DamagedProperties ==
  /\ Damaged \in Body /\ Own(Damaged)
  /\ Complete(Damaged) = {} /\ Straight(Damaged)
<1>1. Damaged \in Body /\ Len(Damaged) = 2 /\ DOMAIN Damaged = 1..2
  BY DEF Damaged, Body
<1>2. Own(Damaged)
  BY <1>1, MarkAssumption DEF Damaged, Own
<1>3. Complete(Damaged) = {}
  <2>1. StartsWith(Damaged, Lzo)
    BY DEF Damaged, StartsWith
  <2>2. Tail(Damaged) = <<Lzo>>
    BY DEF Damaged
  <2>3. Decompressed(Damaged) = <<Lzo>>
    BY <2>1, <2>2 DEF Decompressed
  <2>4. Records(Damaged) \in {<<>>, <<Lzo>>}
    BY <2>3 DEF Records
  <2>5. Len(Records(Damaged)) \in {0, 1}
    BY <2>4
  <2>6. 0 \div 2 = 0 /\ 1 \div 2 = 0
    OBVIOUS
  <2>7. Len(Records(Damaged)) \div 2 = 0
    BY Zenon, <2>5, <2>6
  <2>. QED  BY <2>7 DEF Complete
<1>. QED  BY <1>1, <1>2, <1>3 DEF Straight

LEMMA ReadKeeps == IInv /\ (ReadFails \/ ReadArchive) => IInv'
<1>1. SUFFICES ASSUME IInv, ReadFails \/ ReadArchive PROVE IInv'
  BY <1>1
<1>2. /\ UNCHANGED <<install, disk, cdr_exists, pc, status, mode, packets>>
      /\ sources # <<>> /\ sources' = Tail(sources) /\ pc = "read"
  BY <1>1 DEF ReadFails, ReadArchive
<1>3. blobs' = blobs \/ \E b \in Body : blobs' = Append(blobs, b) /\ (mode = "fbasename" => Own(b))
  <2>1. CASE ReadFails
    BY <2>1 DEF ReadFails
  <2>2. CASE ReadArchive
    <3>. DEFINE s == Head(sources)
    <3>1. Found(s.archive)
      BY <2>2 DEF ReadArchive
    <3>2. CASE \E a \in {disk[s.archive]} \cup CutOff(disk[s.archive]) :
                 blobs' = Append(blobs, Chunk(a, s.slice))
      BY <1>1, <1>2, <3>1, <3>2, ReadBlob
    <3>3. CASE blobs' = Append(blobs, Damaged)
      BY <3>3, DamagedProperties
    <3>. QED  BY <2>2, <3>2, <3>3 DEF ReadArchive
  <2>. QED  BY <1>1, <2>1, <2>2
<1>4. lost' \subseteq Archive
  <2>1. Head(sources).archive \in Archive
    <3>1. sources \in Seq(Source) /\ sources # <<>>
      BY <1>1, <1>2 DEF IInv, TypeOK
    <3>2. Head(sources) \in Source
      BY <3>1, HeadTailProperties, EmptySeq
    <3>. QED  BY <3>2 DEF Source
  <2>2. lost' = lost \/ lost' = lost \cup {Head(sources).archive}
    BY <1>1 DEF ReadFails, ReadArchive, Loses
  <2>. QED  BY <1>1, <2>1, <2>2 DEF IInv, TypeOK
<1>5. blobs' \in Seq(Body) /\ OwnBlobs'
  <2>1. CASE blobs' = blobs
    BY <1>1, <1>2, <2>1 DEF IInv, TypeOK, OwnBlobs
  <2>2. CASE \E b \in Body : blobs' = Append(blobs, b) /\ (mode = "fbasename" => Own(b))
    <3>1. PICK b \in Body : blobs' = Append(blobs, b) /\ (mode = "fbasename" => Own(b))
      BY <2>2
    <3>2. blobs \in Seq(Body) /\ Len(blobs) \in Nat /\ DOMAIN blobs = 1..Len(blobs)
      BY <1>1, LenProperties DEF IInv, TypeOK
    <3>3. /\ blobs' \in Seq(Body) /\ Len(blobs') = Len(blobs) + 1
          /\ \A i \in 1..Len(blobs) : blobs'[i] = blobs[i]
          /\ blobs'[Len(blobs) + 1] = b
      BY <3>1, <3>2, AppendProperties
    <3>4. DOMAIN blobs' = 1..(Len(blobs) + 1)
      BY <3>3, LenProperties
    <3>. QED  BY <1>1, <1>2, <3>1, <3>2, <3>3, <3>4 DEF IInv, OwnBlobs
  <2>. QED  BY <1>3, <2>1, <2>2
<1>6. /\ sources' \in Seq(Source)
      /\ mode = "fbasename" => \A k \in DOMAIN sources' : sources'[k].slice = ByName
  BY <1>1, <1>2, RestOfSources
<1>7. TypeOK'
  BY <1>1, <1>2, <1>4, <1>5, <1>6 DEF IInv, TypeOK
<1>8. Early' /\ Final' /\ Chosen' /\ ByNameOnly'
  BY <1>1, <1>2, <1>6 DEF IInv, Early, Final, Chosen, ByNameOnly
<1>9. AsWritten' /\ InOrder' /\ PureByName'
  BY <1>1, <1>2 DEF IInv, Final, AsWritten, Found, InOrder, PureByName
<1>. QED  BY <1>5, <1>7, <1>8, <1>9 DEF IInv

LEMMA MergeKeeps == IInv /\ Merge => IInv'
<1>1. SUFFICES ASSUME IInv, Merge PROVE IInv'
  BY <1>1
<1>2. /\ UNCHANGED <<install, disk, cdr_exists, mode, sources, blobs, lost>>
      /\ pc' = "answered" /\ status' \in {"ok", "not_found"}
      /\ (status' = "not_found" /\ packets' = packets) \/ packets' = Merged
  BY <1>1 DEF Merge, Respond
<1>3. blobs \in Seq(Body)
  BY <1>1 DEF IInv, TypeOK
<1>8. packets' \in Seq(Packet)
  BY <1>1, <1>2, <1>3, MergedProperties DEF IInv, TypeOK
<1>9. InOrder'
  <2>1. Taken' = Taken /\ \A r : At(r)' = At(r)
    BY <1>2 DEF Taken, At
  <2>2. \A q, r : Sooner(q, r)' <=> Sooner(q, r)
    BY <2>1 DEF Sooner
  <2>3. status' = "ok" => packets' = Merged /\ Placed(Merged)
    BY <1>2, <1>3, MergedProperties
  <2>. QED  BY <2>1, <2>2, <2>3 DEF InOrder, Placed
<1>4. packets' \in Seq(Packet) /\ InOrder'
  BY <1>8, <1>9
<1>5. PureByName'
  BY <1>1, <1>2, <1>3, MergedProperties DEF IInv, OwnBlobs, PureByName
<1>6. TypeOK'
  BY <1>1, <1>2, <1>4 DEF IInv, TypeOK
<1>7. Early' /\ Final' /\ Chosen' /\ AsWritten' /\ ByNameOnly' /\ OwnBlobs'
  BY <1>1, <1>2 DEF IInv, Early, Final, Chosen, AsWritten, Found, ByNameOnly, OwnBlobs
<1>. QED  BY <1>4, <1>5, <1>6, <1>7 DEF IInv

LEMMA CleanDiskKeeps == IInv /\ CleanDisk => IInv'
<1>1. SUFFICES ASSUME IInv, CleanDisk PROVE IInv'
  BY <1>1
<1>2. UNCHANGED <<install, cdr_exists, pc, status, mode, sources, blobs, packets, lost>>
  BY <1>1 DEF CleanDisk
<1>3. PICK m : disk' = [a \in Archive |-> IF a[1] = m THEN None ELSE disk[a]]
  BY <1>1 DEF CleanDisk
<1>4. disk' \in [Archive -> Seq(File) \cup {None}]
  BY <1>1, <1>3 DEF IInv, TypeOK
<1>5. AsWritten'
  BY <1>1, <1>2, <1>3 DEF IInv, AsWritten, Found
<1>6. TypeOK'
  BY <1>1, <1>2, <1>4 DEF IInv, TypeOK
<1>7. Early' /\ Final' /\ Chosen' /\ ByNameOnly' /\ OwnBlobs' /\ InOrder' /\ PureByName'
  BY <1>1, <1>2, SameMerge DEF IInv, Early, Final, Chosen, ByNameOnly, OwnBlobs, PureByName
<1>. QED  BY <1>5, <1>6, <1>7 DEF IInv

LEMMA NextIInv == IInv /\ [Next]_vars => IInv'
<1>1. SUFFICES ASSUME IInv, [Next]_vars PROVE IInv'
  BY <1>1
<1>2. CASE Receive \/ FetchParts \/ FetchFbasename \/ FetchRange \/ CleanCdr
  BY <1>1, <1>2, AskingKeeps
<1>3. CASE Scan
  BY <1>1, <1>3, ScanKeeps
<1>4. CASE ReadFails \/ ReadArchive
  BY <1>1, <1>4, ReadKeeps
<1>5. CASE Merge
  BY <1>1, <1>5, MergeKeeps
<1>6. CASE CleanDisk
  BY <1>1, <1>6, CleanDiskKeeps
<1>7. CASE UNCHANGED vars
  BY <1>1, <1>7, SameMerge DEF vars, IInv, TypeOK, Early, Final, Chosen, AsWritten, Found, ByNameOnly,
                               OwnBlobs, PureByName
<1>. QED  BY <1>1, <1>2, <1>3, <1>4, <1>5, <1>6, <1>7 DEF Next, Build

-----------------------------------------------------------------------------

\* The inductive invariant holds in every reachable state.
THEOREM Inductive == Spec => []IInv
BY InitIInv, NextIInv, PTL DEF Spec

\* Every state is well typed: whatever is stored, a source names an archive
\* that can exist, and what is merged are packets.
THEOREM TypeCorrect == Spec => []TypeOK
<1>1. IInv => TypeOK
  BY DEF IInv
<1>. QED  BY <1>1, Inductive, PTL

\* The pcap is a stable merge by time of every record that was read, over
\* however many archives, offset rows and cut files.
THEOREM TimeOrdered == Spec => []InOrder
<1>1. IInv => InOrder
  BY DEF IInv
<1>. QED  BY <1>1, Inductive, PTL

\* A pcap built by name holds packets of the named call only, cut files included.
THEOREM NamedIsPure == Spec => []PureByName
<1>1. IInv => PureByName
  BY DEF IInv
<1>. QED  BY <1>1, Inductive, PTL

-----------------------------------------------------------------------------
(* No record is torn: what is looked up is a stream of records, so that    *)
(* what was read of it, cut off or not, is one up to its end.              *)

Stream(s) == s.slice \in {Full, ByName} \/ \E k \in DOMAIN install.parts : s = RowSource(k)

Streams == \A k \in DOMAIN sources : Stream(sources[k])
StraightBlobs == \A k \in DOMAIN blobs : Straight(blobs[k])

TInv == Streams /\ StraightBlobs /\ NothingTorn

\* The records stand in the body as they are, behind its marks.
LEMMA RecordsShift ==
  ASSUME NEW b \in Body
  PROVE  \E o \in Nat : /\ Len(Records(b)) + o = Len(b)
                        /\ \A i \in 1..Len(Records(b)) : Records(b)[i] = b[i + o]
<1>1. ASSUME NEW x \in Body, NEW mark
      PROVE  /\ Peel(x, mark) \in Body
             /\ \E o \in Nat : /\ Len(Peel(x, mark)) + o = Len(x)
                               /\ \A i \in 1..Len(Peel(x, mark)) : Peel(x, mark)[i] = x[i + o]
  <2>1. x \in Seq(Item) /\ Len(x) \in Nat
    BY BodyDomain DEF Body, Item
  <2>2. CASE StartsWith(x, mark)
    <3>1. Peel(x, mark) = Tail(x) /\ x # <<>> /\ Tail(x) \in Body
      BY <2>2, TailWithin DEF Peel, StartsWith, Within
    <3>2. /\ Len(Tail(x)) = Len(x) - 1
          /\ \A i \in 1..Len(Tail(x)) : Tail(x)[i] = x[i + 1]
      BY <2>1, <3>1, HeadTailProperties
    <3>3. Len(Tail(x)) + 1 = Len(x) /\ 1 \in Nat
      BY <2>1, <3>2
    <3>. QED  BY <3>1, <3>2, <3>3
  <2>3. CASE ~StartsWith(x, mark)
    <3>1. Peel(x, mark) = x
      BY <2>3 DEF Peel
    <3>2. Len(x) + 0 = Len(x) /\ \A i \in 1..Len(x) : x[i] = x[i + 0]
      BY <2>1
    <3>. QED  BY <3>1, <3>2
  <2>. QED  BY <2>2, <2>3
<1>. DEFINE d == Peel(b, Lzo)
            r == Peel(d, Header)
<1>2. d \in Body /\ r \in Body
  <2>1. d \in Body
    BY <1>1
  <2>. HIDE DEF d
  <2>. QED  BY <1>1, <2>1
<1>3. Records(b) = r
  BY DEF Records, Decompressed, Peel
<1>4. PICK o1 \in Nat : Len(d) + o1 = Len(b) /\ \A i \in 1..Len(d) : d[i] = b[i + o1]
  BY <1>1
<1>. HIDE DEF d
<1>5. PICK o2 \in Nat : Len(r) + o2 = Len(d) /\ \A i \in 1..Len(r) : r[i] = d[i + o2]
  BY <1>1, <1>2
<1>. HIDE DEF r
<1>6. Len(r) \in Nat /\ Len(d) \in Nat /\ Len(b) \in Nat
  BY <1>2, BodyDomain
<1>7. o1 + o2 \in Nat /\ Len(r) + (o1 + o2) = Len(b)
  BY <1>4, <1>5, <1>6
<1>8. \A i \in 1..Len(r) : r[i] = b[i + (o1 + o2)]
  <2>1. SUFFICES ASSUME NEW i \in 1..Len(r) PROVE r[i] = b[i + (o1 + o2)]
    BY <2>1
  <2>2. i + o2 \in 1..Len(d) /\ (i + o2) + o1 = i + (o1 + o2)
    BY <1>5, <1>6
  <2>. QED  BY <1>4, <1>5, <2>2
<1>. QED  BY <1>3, <1>7, <1>8

LEMMA PairInBlob ==
  ASSUME NEW b \in Body, Straight(b), NEW j \in Complete(b)
  PROVE  \E i \in 1..(Len(b) - 1) : b[i] = <<RecordAt(b, j), 1>> /\ b[i + 1] = <<RecordAt(b, j), 2>>
<1>1. PICK o \in Nat : /\ Len(Records(b)) + o = Len(b)
                       /\ \A i \in 1..Len(Records(b)) : Records(b)[i] = b[i + o]
  BY RecordsShift
<1>2. j \in 1..(Len(Records(b)) \div 2) /\ Len(Records(b)) \in Nat
  BY StripsWithin, BodyDomain DEF Complete, Within
<1>3. /\ 2 * j - 1 \in 1..Len(Records(b)) /\ 2 * j \in 1..Len(Records(b))
      /\ 2 * j - 1 + o \in 1..(Len(b) - 1) /\ (2 * j - 1 + o) + 1 = 2 * j + o
  BY <1>1, <1>2
<1>4. /\ Records(b)[2 * j - 1] = <<RecordAt(b, j), 1>>
      /\ Records(b)[2 * j] = <<RecordAt(b, j), 2>>
  BY DEF Straight
<1>. QED  BY <1>1, <1>3, <1>4

\* The next source, and what was written to its archive.
LEMMA NextSource ==
  ASSUME IInv, sources # <<>>, Found(Head(sources).archive)
  PROVE  /\ 1 \in DOMAIN sources /\ Head(sources) = sources[1]
         /\ Head(sources) \in Source /\ install \in Installs
         /\ disk[Head(sources).archive] \in Seq(File)
         /\ disk[Head(sources).archive] = install.disk[Head(sources).archive]
         /\ install.disk[Head(sources).archive] # None
<1>1. sources \in Seq(Source) /\ install \in Installs
  BY DEF IInv, TypeOK
<1>2. /\ Head(sources) \in Source /\ Len(sources) \in Nat \ {0} /\ Head(sources) = sources[1]
      /\ DOMAIN sources = 1..Len(sources)
  BY <1>1, HeadTailProperties, EmptySeq, LenProperties
<1>3. Head(sources).archive \in Archive
  BY <1>2 DEF Source
<1>. QED  BY <1>1, <1>2, <1>3 DEF IInv, TypeOK, AsWritten, Found

LEMMA ReadStraight ==
  ASSUME IInv, Streams, sources # <<>>, Found(Head(sources).archive),
         NEW a \in {disk[Head(sources).archive]} \cup CutOff(disk[Head(sources).archive])
  PROVE  Straight(Chunk(a, Head(sources).slice))
<1>1. PICK s : s = Head(sources)
  OBVIOUS
<1>2. PICK d : d = disk[s.archive]
  OBVIOUS
<1>3. /\ s \in Source /\ Stream(s) /\ install \in Installs
      /\ d \in Seq(File) /\ d = install.disk[s.archive] /\ d # None
  BY <1>1, <1>2, NextSource DEF Streams
<1>4. s.archive \in Archive /\ s.slice \in Slice
  BY <1>3 DEF Source
<1>5. Straight(Chunk(d, s.slice))
  <2>1. CASE s.slice \in {Full, ByName}
    BY <1>3, <1>4, <2>1, StreamAssumption
  <2>2. CASE \E k \in DOMAIN install.parts : s = RowSource(k)
    <3>1. PICK k \in DOMAIN install.parts : s = RowSource(k)
      BY <2>2
    <3>2. s.archive = RowArchive(install, k) /\ s.slice = RowSlice(install, k)
      BY <3>1 DEF RowSource, src
    <3>. QED  BY <1>3, <1>4, <3>2, StreamAssumption
  <2>. QED  BY <1>3, <2>1, <2>2 DEF Stream
<1>6. CASE a \in CutOff(d)
  <2>1. Cuts(Chunk(a, s.slice), Chunk(d, s.slice)) /\ Chunk(d, s.slice) \in Body
    BY <1>3, <1>4, <1>6, ChunkCut, ChunkBody
  <2>2. Straight(Chunk(a, s.slice))
    BY <1>5, <2>1, StraightCut
  <2>. QED  BY <1>1, <2>2
<1>. QED  BY <1>1, <1>2, <1>5, <1>6

LEMMA ScanStreams ==
  ASSUME IInv, Scan
  PROVE  Streams'
<1>1. mode \in {"parts", "fbasename", "minutes"} /\ install \in Install /\ UNCHANGED install
  BY InstallTyped DEF IInv, TypeOK, Chosen, Scan
<1>2. ByName \in Slice /\ Full \in Slice
  BY DEF ByName, Full, Slice
<1>3. CASE mode = "parts"
  <2>1. sources' = FromParts
    BY <1>3 DEF Scan
  <2>2. \A i \in DOMAIN sources' : \E k \in DOMAIN install.parts : sources'[i] = RowSource(k)
    BY <1>1, <2>1, PartsAreSources
  <2>3. \A k : RowSource(k)' = RowSource(k)
    BY <1>1 DEF RowSource, RowArchive, RowSlice, src
  <2>. QED  BY <1>1, <2>2, <2>3 DEF Streams, Stream
<1>4. CASE mode = "fbasename"
  <2>1. sources' = FromFbasename
    BY <1>4 DEF Scan
  <2>2. \A i \in DOMAIN sources' : sources'[i].slice = ByName
    BY <1>2, <2>1, OrderedAreSources DEF FromFbasename, Wanted
  <2>. QED  BY <2>2 DEF Streams, Stream, ByName, Full
<1>5. CASE mode = "minutes"
  <2>1. sources' = FromMinutes
    BY <1>5 DEF Scan
  <2>2. \A i \in DOMAIN sources' : sources'[i].slice = Full
    BY <1>2, <2>1, OrderedAreSources DEF FromMinutes, Wanted
  <2>. QED  BY <2>2 DEF Streams, Stream, ByName, Full
<1>. QED  BY <1>1, <1>3, <1>4, <1>5

\* Reading on: the other sources move up, and the blobs grow.
LEMMA ReadOn ==
  ASSUME IInv, ReadFails \/ ReadArchive
  PROVE  /\ UNCHANGED <<install, disk, pc, status, mode, packets>> /\ pc = "read" /\ sources # <<>>
         /\ \A i \in DOMAIN sources' : i + 1 \in DOMAIN sources /\ sources'[i] = sources[i + 1]
         /\ \A i \in DOMAIN sources : i = 1 \/ (i - 1 \in DOMAIN sources' /\ sources'[i - 1] = sources[i])
         /\ \A i \in DOMAIN blobs : i \in DOMAIN blobs' /\ blobs'[i] = blobs[i]
         /\ blobs' # blobs => \E a \in {disk[Head(sources).archive]} \cup CutOff(disk[Head(sources).archive]) :
              /\ Found(Head(sources).archive)
              /\ \A i \in DOMAIN blobs' :
                   i \in DOMAIN blobs \/ blobs'[i] \in {Chunk(a, Head(sources).slice), Damaged}
         /\ lost \subseteq lost'
         /\ Head(sources).archive \notin lost' =>
              /\ Found(Head(sources).archive)
              /\ \E i \in DOMAIN blobs' : blobs'[i] = Chunk(disk[Head(sources).archive], Head(sources).slice)
<1>1. /\ UNCHANGED <<install, disk, pc, status, mode, packets>> /\ pc = "read" /\ sources # <<>>
      /\ sources' = Tail(sources)
  BY DEF ReadFails, ReadArchive
<1>2. sources \in Seq(Source) /\ blobs \in Seq(Body)
  BY DEF IInv, TypeOK
<1>3. /\ Len(sources) \in Nat /\ DOMAIN sources = 1..Len(sources)
      /\ DOMAIN sources' = 1..(Len(sources) - 1)
      /\ \A i \in 1..(Len(sources) - 1) : sources'[i] = sources[i + 1]
  <2>1. /\ Tail(sources) \in Seq(Source) /\ Len(Tail(sources)) = Len(sources) - 1
        /\ \A i \in 1..Len(Tail(sources)) : Tail(sources)[i] = sources[i + 1]
    BY <1>1, <1>2, HeadTailProperties
  <2>. QED  BY <1>1, <1>2, <2>1, LenProperties
<1>4. /\ \A i \in DOMAIN sources' : i + 1 \in DOMAIN sources /\ sources'[i] = sources[i + 1]
      /\ \A i \in DOMAIN sources : i = 1 \/ (i - 1 \in DOMAIN sources' /\ sources'[i - 1] = sources[i])
  <2>1. ASSUME NEW i \in DOMAIN sources, i # 1
        PROVE  i - 1 \in 1..(Len(sources) - 1) /\ (i - 1) + 1 = i
    BY <1>3, <2>1
  <2>2. \A i \in 1..(Len(sources) - 1) : i + 1 \in 1..Len(sources)
    BY <1>3
  <2>. QED  BY <1>3, <2>1, <2>2
<1>5. CASE ReadFails
  <2>1. blobs' = blobs /\ lost' = lost \cup {Head(sources).archive}
    BY <1>5 DEF ReadFails, Loses
  <2>. QED  BY <1>1, <1>4, <2>1
<1>6. CASE ReadArchive
  <2>1. PICK s : s = Head(sources)
    OBVIOUS
  <2>2. PICK d : d = disk[s.archive]
    OBVIOUS
  <2>3. /\ Found(s.archive)
        /\ \/ blobs' = Append(blobs, Chunk(d, s.slice)) /\ lost' = lost
           \/ blobs' = Append(blobs, Damaged) /\ lost' = lost \cup {s.archive}
           \/ /\ \E a \in CutOff(d) : blobs' = Append(blobs, Chunk(a, s.slice))
              /\ lost' = lost \cup {s.archive}
    BY <1>6, <2>1, <2>2 DEF ReadArchive, Loses
  <2>7. PICK a \in {d} \cup CutOff(d) : \E c \in {Chunk(a, s.slice), Damaged} :
          /\ blobs' = Append(blobs, c)
          /\ s.archive \notin lost' => a = d /\ c = Chunk(a, s.slice)
    BY <2>3
  <2>4. PICK b \in {Chunk(a, s.slice), Damaged} :
          /\ blobs' = Append(blobs, b)
          /\ s.archive \notin lost' => a = d /\ b = Chunk(a, s.slice)
    BY <2>7
  <2>5. b \in Body /\ lost \subseteq lost'
    BY <1>1, <2>1, <2>2, <2>3, ReadBlob, DamagedProperties
  <2>6. /\ \A i \in DOMAIN blobs : i \in DOMAIN blobs' /\ blobs'[i] = blobs[i]
        /\ \A i \in DOMAIN blobs' : i \in DOMAIN blobs \/ blobs'[i] = b
        /\ \E i \in DOMAIN blobs' : blobs'[i] = b
    <3>1. /\ blobs' \in Seq(Body) /\ Len(blobs') = Len(blobs) + 1
          /\ \A i \in 1..Len(blobs) : blobs'[i] = blobs[i]
          /\ blobs'[Len(blobs) + 1] = b
      BY <1>2, <2>4, <2>5, AppendProperties
    <3>2. /\ Len(blobs) \in Nat /\ DOMAIN blobs = 1..Len(blobs)
          /\ DOMAIN blobs' = 1..(Len(blobs) + 1)
      BY <1>2, <3>1, LenProperties
    <3>. QED  BY <3>1, <3>2
  <2>. QED  BY <1>1, <1>4, <2>1, <2>2, <2>3, <2>4, <2>5, <2>6
<1>. QED  BY <1>5, <1>6

LEMMA NextTInv == IInv /\ TInv /\ [Next]_vars => TInv'
<1>1. SUFFICES ASSUME IInv, TInv, [Next]_vars PROVE TInv'
  BY <1>1
<1>2. CASE UNCHANGED <<install, sources, blobs, packets>>
  BY <1>1, <1>2 DEF TInv, Streams, Stream, StraightBlobs, NothingTorn, RowSource, RowArchive, RowSlice, src
<1>3. CASE Scan
  <2>1. Streams'
    BY <1>1, <1>3, ScanStreams
  <2>2. UNCHANGED <<blobs, packets>>
    BY <1>3 DEF Scan
  <2>. QED  BY <1>1, <2>1, <2>2 DEF TInv, StraightBlobs, NothingTorn
<1>4. CASE ReadFails \/ ReadArchive
  <2>1. /\ UNCHANGED <<install, packets>> /\ sources # <<>>
        /\ \A i \in DOMAIN sources' : i + 1 \in DOMAIN sources /\ sources'[i] = sources[i + 1]
        /\ \A i \in DOMAIN blobs : i \in DOMAIN blobs' /\ blobs'[i] = blobs[i]
    BY <1>1, <1>4, ReadOn
  <2>2. Streams'
    BY <1>1, <2>1 DEF TInv, Streams, Stream, RowSource, RowArchive, RowSlice, src
  <2>3. StraightBlobs'
    <3>1. CASE blobs' = blobs
      BY <1>1, <3>1 DEF TInv, StraightBlobs
    <3>2. CASE blobs' # blobs
      <4>1. PICK a \in {disk[Head(sources).archive]} \cup CutOff(disk[Head(sources).archive]) :
              /\ Found(Head(sources).archive)
              /\ \A i \in DOMAIN blobs' :
                   i \in DOMAIN blobs \/ blobs'[i] \in {Chunk(a, Head(sources).slice), Damaged}
        BY <1>1, <1>4, <3>2, ReadOn
      <4>2. Straight(Chunk(a, Head(sources).slice)) /\ Straight(Damaged)
        BY <1>1, <2>1, <4>1, ReadStraight, DamagedProperties DEF TInv
      <4>. QED  BY <1>1, <2>1, <4>1, <4>2 DEF TInv, StraightBlobs
    <3>. QED  BY <3>1, <3>2
  <2>4. NothingTorn'
    <3>1. SUFFICES ASSUME NEW i \in DOMAIN packets
                   PROVE  \E k \in DOMAIN blobs' : \E j \in 1..(Len(blobs'[k]) - 1) :
                            blobs'[k][j] = <<packets[i], 1>> /\ blobs'[k][j + 1] = <<packets[i], 2>>
      BY <2>1, <3>1 DEF NothingTorn
    <3>2. PICK k \in DOMAIN blobs : \E j \in 1..(Len(blobs[k]) - 1) :
            blobs[k][j] = <<packets[i], 1>> /\ blobs[k][j + 1] = <<packets[i], 2>>
      BY <1>1 DEF TInv, NothingTorn
    <3>3. k \in DOMAIN blobs' /\ blobs'[k] = blobs[k]
      BY <2>1
    <3>. QED  BY <3>2, <3>3
  <2>. QED  BY <2>2, <2>3, <2>4 DEF TInv
<1>5. CASE Merge
  <2>1. UNCHANGED <<install, sources, blobs>> /\ (packets' = packets \/ packets' = Merged)
    BY <1>5 DEF Merge
  <2>2. blobs \in Seq(Body) /\ StraightBlobs
    BY <1>1 DEF IInv, TypeOK, TInv
  <2>3. \A k \in DOMAIN blobs : blobs[k] \in Body
    BY <2>2, LenProperties
  <2>4. \A i \in DOMAIN Merged : \E k \in DOMAIN blobs : \E j \in 1..(Len(blobs[k]) - 1) :
          blobs[k][j] = <<Merged[i], 1>> /\ blobs[k][j + 1] = <<Merged[i], 2>>
    <3>1. SUFFICES ASSUME NEW i \in DOMAIN Merged
                   PROVE  \E k \in DOMAIN blobs : \E j \in 1..(Len(blobs[k]) - 1) :
                            blobs[k][j] = <<Merged[i], 1>> /\ blobs[k][j + 1] = <<Merged[i], 2>>
      BY <3>1
    <3>2. PICK k \in DOMAIN blobs : \E j \in Complete(blobs[k]) : Merged[i] = RecordAt(blobs[k], j)
      BY <2>2, MergedProperties
    <3>3. PICK j \in Complete(blobs[k]) : Merged[i] = RecordAt(blobs[k], j)
      BY <3>2
    <3>4. \E x \in 1..(Len(blobs[k]) - 1) : /\ blobs[k][x] = <<RecordAt(blobs[k], j), 1>>
                                            /\ blobs[k][x + 1] = <<RecordAt(blobs[k], j), 2>>
      BY <2>2, <2>3, PairInBlob DEF StraightBlobs
    <3>. QED  BY <3>3, <3>4
  <2>5. NothingTorn'
    BY <1>1, <2>1, <2>4 DEF TInv, NothingTorn
  <2>6. Streams' /\ StraightBlobs'
    BY <1>1, <2>1 DEF TInv, Streams, Stream, StraightBlobs, RowSource, RowArchive, RowSlice, src
  <2>. QED  BY <2>5, <2>6 DEF TInv
<1>6. \/ Scan \/ ReadFails \/ ReadArchive \/ Merge
      \/ UNCHANGED <<install, sources, blobs, packets>>
  BY <1>1 DEF Next, Build, Receive, FetchParts, FetchFbasename, FetchRange, CleanDisk, CleanCdr, vars
<1>. QED  BY <1>2, <1>3, <1>4, <1>5, <1>6

\* Every packet of the answer was read with both halves, whatever was cut off.
THEOREM RecordsAreWhole == Spec => []NothingTorn
<1>1. Init => TInv
  BY EmptyDomain DEF Init, TInv, Streams, StraightBlobs, NothingTorn
<1>2. TInv => NothingTorn
  BY DEF TInv
<1>. QED  BY <1>1, <1>2, NextTInv, Inductive, PTL DEF Spec

-----------------------------------------------------------------------------
(* Nothing is missing: all that the mode calls for, of the archives that   *)
(* are not lost, is still to be read or is a blob.                         *)

Planned(s) ==
  /\ install.disk[s.archive] # None
  /\ \/ mode = "parts" /\ \E k \in DOMAIN install.parts : s = RowSource(k)
     \/ /\ mode = "fbasename" /\ s.slice = ByName
        /\ s.archive[1] \in Minutes /\ s.archive[2] \in {"sip", "rtp"}

Content(s) == Chunk(install.disk[s.archive], s.slice)

Looked(s) == \/ \E i \in DOMAIN sources : sources[i] = s
             \/ \E i \in DOMAIN blobs : blobs[i] = Content(s)

Answers(s) == \A j \in Complete(Content(s)) : \E i \in DOMAIN packets : packets[i] = RecordAt(Content(s), j)

Path == /\ mode = "parts" => HasOffsets
        /\ mode = "fbasename" => ~HasOffsets /\ install.fbasename # None

Kept(s) == Planned(s) /\ s.archive \notin lost

Reading == pc = "read" => \A s \in Source : Kept(s) => Looked(s)

Done == status = "ok" => \A s \in Source : Kept(s) => Answers(s)

WInv == Path /\ Reading /\ Done

\* What is planned depends on what is stored and on the mode alone.
LEMMA SamePlan ==
  ASSUME UNCHANGED <<install, mode>>
  PROVE  /\ \A s : Planned(s)' <=> Planned(s)
         /\ \A s : Content(s)' = Content(s)
         /\ Path' <=> Path
<1>1. \A s : Content(s)' = Content(s)
  BY DEF Content
<1>2. \A k : RowSource(k)' = RowSource(k)
  BY DEF RowSource, RowArchive, RowSlice, src
<1>3. Minutes' = Minutes
  BY DEF Minutes
<1>4. \A s : Planned(s)' <=> Planned(s)
  BY <1>2, <1>3 DEF Planned
<1>5. Path' <=> Path
  BY DEF Path, HasOffsets
<1>. QED  BY <1>1, <1>4, <1>5

LEMMA ChooseKeepsWhole ==
  ASSUME IInv, WInv, FetchFbasename
  PROVE  WInv'
<1>1. /\ UNCHANGED <<install, disk, status>>
      /\ pc = "fbasename" /\ pc' \in {"scan", "range"}
  BY DEF FetchFbasename, Goes
<1>2. PICK fb \in {install.fbasename, None} :
        mode' = IF HasOffsets THEN "parts" ELSE IF fb # None THEN "fbasename" ELSE "minutes"
  BY DEF FetchFbasename
<1>3. Path'
  BY <1>1, <1>2 DEF Path, HasOffsets
<1>4. Reading'
  BY <1>1 DEF Reading
<1>5. Done'
  BY <1>1 DEF IInv, Final, Done
<1>. QED  BY <1>3, <1>4, <1>5 DEF WInv

\* A step that reads nothing and does not answer.
LEMMA AskingKeepsWhole ==
  ASSUME IInv, WInv, Receive \/ FetchParts \/ FetchRange
  PROVE  WInv'
<1>1. /\ UNCHANGED <<install, mode>> /\ pc' # "read" /\ pc # "answered"
      /\ status' = status \/ status' \in {"forbidden", "error", "timeout", "not_found"}
  BY DEF Receive, FetchParts, FetchRange, Goes, Respond
<1>2. status' # "ok"
  BY <1>1 DEF IInv, Final
<1>. QED  BY <1>1, <1>2, SamePlan DEF WInv, Reading, Done

\* A step of VoIPmonitor's.
LEMMA CleaningKeepsWhole ==
  ASSUME IInv, WInv, CleanDisk \/ CleanCdr \/ UNCHANGED vars
  PROVE  WInv'
<1>1. UNCHANGED <<install, mode, pc, status, sources, blobs, packets, lost>>
  BY DEF CleanDisk, CleanCdr, vars
<1>2. /\ \A s : Kept(s)' <=> Kept(s)
      /\ \A s : Content(s)' = Content(s)
      /\ Path'
  BY <1>1, SamePlan DEF WInv, Kept
<1>3. \A s : Looked(s)' <=> Looked(s)
  BY <1>1, <1>2 DEF Looked
<1>4. \A s : Answers(s)' <=> Answers(s)
  BY <1>1, <1>2 DEF Answers
<1>6. Reading'
  BY <1>1, <1>2, <1>3 DEF WInv, Reading
<1>7. Done'
  BY <1>1, <1>2, <1>4 DEF WInv, Done
<1>. QED  BY <1>2, <1>6, <1>7 DEF WInv

\* All that is planned is found.
LEMMA ScanKeepsWhole ==
  ASSUME IInv, WInv, Scan
  PROVE  WInv'
<1>1. /\ UNCHANGED <<install, disk, mode>> /\ pc = "scan"
      /\ status' \in {"not_found", status}
      /\ lost' = {a \in Archive : ~Found(a)}
  BY DEF Scan, Respond, Goes
<1>2. install \in Install
  BY InstallTyped DEF IInv
<1>3. /\ \A s : Planned(s)' <=> Planned(s)
      /\ Path'
  BY <1>1, SamePlan DEF WInv
<1>4. Done'
  BY <1>1 DEF IInv, Final, Done
<1>5. ASSUME NEW s \in Source, Planned(s), s.archive \notin lost'
      PROVE  \E i \in DOMAIN sources' : sources'[i] = s
  <2>1. Found(s.archive) /\ s.archive \in Archive
    BY <1>1, <1>5 DEF Source
  <2>2. CASE mode = "parts"
    <3>1. sources' = FromParts
      BY <2>2 DEF Scan
    <3>2. PICK k \in DOMAIN install.parts : s = RowSource(k)
      BY <1>5, <2>2 DEF Planned
    <3>3. s.archive = RowArchive(install, k)
      BY <3>2 DEF RowSource, src
    <3>. QED  BY <1>2, <2>1, <3>1, <3>2, <3>3, PartsAreSources
  <2>3. CASE mode = "fbasename"
    <3>1. sources' = Ordered(Wanted({"sip", "rtp"}), ByName)
      BY <2>3 DEF Scan, FromFbasename
    <3>2. /\ s.slice = ByName /\ s.archive[2] \in {"sip", "rtp"}
          /\ s.archive \in Wanted({"sip", "rtp"})
      BY <1>5, <2>1, <2>3 DEF Planned, Wanted
    <3>3. s = src(s.archive, ByName) /\ ByName \in Slice
      BY <3>2 DEF Source, src, ByName, Slice
    <3>4. Wanted({"sip", "rtp"}) \in SUBSET Archive
      BY DEF Wanted
    <3>5. PICK W \in SUBSET Archive : W = Wanted({"sip", "rtp"})
      BY <3>4
    <3>6. \E k \in DOMAIN Ordered(W, ByName) : Ordered(W, ByName)[k] = src(s.archive, ByName)
      <4>1. \A slice \in Slice : \A a \in W : a[2] \in {"sip", "rtp"} =>
              \E k \in DOMAIN Ordered(W, slice) : Ordered(W, slice)[k] = src(a, slice)
        BY OrderedAreSources
      <4>2. s.archive \in W
        BY <3>2, <3>5
      <4>. QED  BY Zenon, <3>2, <3>3, <4>1, <4>2
    <3>. QED  BY Zenon, <3>1, <3>3, <3>5, <3>6
  <2>. QED  BY <1>5, <2>2, <2>3 DEF Planned
<1>6. Reading'
  BY <1>1, <1>3, <1>5 DEF Reading, Looked, Kept
<1>. QED  BY <1>3, <1>4, <1>6 DEF WInv

LEMMA HeadOf ==
  ASSUME IInv, sources # <<>>
  PROVE  Head(sources) = sources[1]
<1>1. sources \in Seq(Source)
  BY DEF IInv, TypeOK
<1>. QED  BY <1>1, HeadTailProperties

LEMMA ReadKeepsWhole ==
  ASSUME IInv, WInv, ReadFails \/ ReadArchive
  PROVE  WInv'
<1>1. /\ UNCHANGED <<install, disk, pc, status, mode, packets>> /\ pc = "read" /\ sources # <<>>
      /\ lost \subseteq lost'
      /\ \A i \in DOMAIN sources : i = 1 \/ (i - 1 \in DOMAIN sources' /\ sources'[i - 1] = sources[i])
      /\ \A i \in DOMAIN blobs : i \in DOMAIN blobs' /\ blobs'[i] = blobs[i]
  BY ReadOn
<1>2. /\ \A s : Planned(s)' <=> Planned(s)
      /\ \A s : Content(s)' = Content(s)
      /\ Path'
  BY <1>1, SamePlan DEF WInv
<1>4. Done'
  BY <1>1 DEF IInv, Final, Done
<1>5. ASSUME NEW s \in Source, Looked(s), s.archive \notin lost'
      PROVE  Looked(s)'
  <2>1. CASE \E i \in DOMAIN blobs : blobs[i] = Content(s)
    BY <1>1, <1>2, <2>1 DEF Looked
  <2>2. CASE \E i \in DOMAIN sources : sources[i] = s
    <3>1. PICK i \in DOMAIN sources : sources[i] = s
      BY <2>2
    <3>2. CASE i = 1
      <4>1. /\ Found(Head(sources).archive)
            /\ \E x \in DOMAIN blobs' : blobs'[x] = Chunk(disk[Head(sources).archive], Head(sources).slice)
        BY <1>1, <1>5, <3>1, <3>2, HeadOf, ReadOn
      <4>2. Head(sources) = s /\ disk[s.archive] = install.disk[s.archive]
        BY <1>1, <3>1, <3>2, <4>1, NextSource
      <4>3. \E x \in DOMAIN blobs' : blobs'[x] = Content(s)
        BY <4>1, <4>2 DEF Content
      <4>. QED  BY <1>2, <4>3 DEF Looked
    <3>3. CASE i # 1
      BY <1>1, <3>1, <3>3 DEF Looked
    <3>. QED  BY <3>2, <3>3
  <2>. QED  BY <1>5, <2>1, <2>2 DEF Looked
<1>6. Reading'
  BY <1>1, <1>2, <1>5 DEF WInv, Reading, Kept
<1>. QED  BY <1>2, <1>4, <1>6 DEF WInv

LEMMA MergeKeepsWhole ==
  ASSUME IInv, WInv, Merge
  PROVE  WInv'
<1>1. /\ UNCHANGED <<install, mode, sources, blobs, lost>>
      /\ pc = "read" /\ sources = <<>> /\ pc' = "answered"
      /\ status' = "ok" => packets' = Merged
  BY DEF Merge, Respond
<1>2. /\ \A s : Planned(s)' <=> Planned(s)
      /\ \A s : Content(s)' = Content(s)
      /\ Path'
  BY <1>1, SamePlan DEF WInv
<1>3. Reading'
  BY <1>1 DEF Reading
<1>4. ASSUME NEW s \in Source, Kept(s), status' = "ok"
      PROVE  Answers(s)'
  <2>1. Looked(s)
    BY <1>1, <1>4 DEF WInv, Reading
  <2>2. PICK k \in DOMAIN blobs : blobs[k] = Content(s)
    BY <1>1, <2>1, EmptyDomain DEF Looked
  <2>3. blobs \in Seq(Body)
    BY DEF IInv, TypeOK
  <2>4. \A j \in Complete(Content(s)) : \E i \in DOMAIN Merged : Merged[i] = RecordAt(Content(s), j)
    BY <2>2, <2>3, MergedProperties
  <2>. QED  BY <1>1, <1>2, <1>4, <2>4 DEF Answers
<1>5. Done'
  BY <1>1, <1>2, <1>4 DEF Done, Kept
<1>. QED  BY <1>2, <1>3, <1>5 DEF WInv

\* What the property asks for is in what was planned.
LEMMA NothingMissing ==
  ASSUME IInv, WInv
  PROVE  WholeCall
<1>1. SUFFICES ASSUME status = "ok", mode \in {"parts", "fbasename"},
                      NEW p \in Packet, p.call = Me, Stored(p)
               PROVE  \E i \in DOMAIN packets : packets[i] = p
  BY <1>1 DEF WholeCall
<1>2. PICK a \in Archive \ lost : a[2] \in {"sip", "rtp"} /\ install.disk[a] # None
                                  /\ Holds(install.disk[a], p)
  BY <1>1 DEF Stored
<1>3. install \in Installs
  BY DEF IInv, TypeOK
<1>4. ASSUME NEW s \in Source, Planned(s), s.archive = a, Gives(Content(s), p)
      PROVE  \E i \in DOMAIN packets : packets[i] = p
  <2>1. Answers(s)
    BY <1>1, <1>2, <1>4 DEF WInv, Done, Kept
  <2>. QED  BY <1>4, <2>1 DEF Gives, Answers
<1>5. \/ \E k \in DOMAIN install.parts : /\ RowArchive(install, k) = a
                                         /\ Gives(Chunk(install.disk[a], RowSlice(install, k)), p)
      \/ /\ \A k \in DOMAIN install.parts : install.parts[k].type = "graph"
         /\ install.fbasename # None =>
              /\ a[1] \in (install.calldate \div Seconds)..(install.callend \div Seconds)
              /\ Gives(Chunk(install.disk[a], ByName), p)
  BY <1>1, <1>2, <1>3, WholeAssumption
<1>6. CASE mode = "parts"
  <2>1. ~ \A k \in DOMAIN install.parts : install.parts[k].type = "graph"
    BY <1>6 DEF WInv, Path, HasOffsets
  <2>2. PICK k \in DOMAIN install.parts : /\ RowArchive(install, k) = a
                                          /\ Gives(Chunk(install.disk[a], RowSlice(install, k)), p)
    BY <1>5, <2>1
  <2>. DEFINE s == RowSource(k)
  <2>3. s.archive = a /\ s.slice = RowSlice(install, k)
    BY <2>2 DEF RowSource, src
  <2>4. s \in Source
    <3>1. install.parts \in Seq(Part)
      BY InstallTyped DEF IInv, Install
    <3>2. install.parts[k] \in Part
      BY <3>1, LenProperties
    <3>3. RowSlice(install, k) \in Slice
      BY <3>2 DEF RowSlice, Slice, Part
    <3>. QED  BY <2>2, <3>3 DEF RowSource, src, Source
  <2>5. Planned(s)
    BY <1>2, <1>6, <2>3 DEF Planned
  <2>6. Gives(Content(s), p)
    BY <2>2, <2>3 DEF Content
  <2>. HIDE DEF s
  <2>. QED  BY <1>4, <2>3, <2>4, <2>5, <2>6
<1>7. CASE mode = "fbasename"
  <2>1. /\ \A k \in DOMAIN install.parts : install.parts[k].type = "graph"
        /\ install.fbasename # None
    BY <1>7 DEF WInv, Path, HasOffsets
  <2>2. /\ a[1] \in (install.calldate \div Seconds)..(install.callend \div Seconds)
        /\ Gives(Chunk(install.disk[a], ByName), p)
    BY <1>2, <1>5, <2>1 DEF RowArchive
  <2>. DEFINE s == src(a, ByName)
  <2>3. s.archive = a /\ s.slice = ByName
    BY DEF src
  <2>4. s \in Source
    BY DEF src, Source, Slice, ByName
  <2>5. Planned(s)
    BY <1>2, <1>3, <1>7, <2>2, <2>3 DEF Planned, Minutes, floor_to_minute
  <2>6. Gives(Content(s), p)
    BY <2>2, <2>3 DEF Content
  <2>. HIDE DEF s
  <2>. QED  BY <1>4, <2>3, <2>4, <2>5, <2>6
<1>. QED  BY <1>1, <1>6, <1>7

\* A pcap built by offsets or by name has every SIP and RTP packet of the call
\* that is in an archive not cut off, damaged, gone or unread, whatever became
\* of the others.
THEOREM NothingLeftOut == Spec => []WholeCall
<1>1. Init => WInv
  BY DEF Init, WInv, Path, Reading, Done
<1>2. IInv /\ WInv /\ [Next]_vars => WInv'
  <2>1. SUFFICES ASSUME IInv, WInv, [Next]_vars PROVE WInv'
    BY <2>1
  <2>. QED  BY <2>1, ChooseKeepsWhole, AskingKeepsWhole, CleaningKeepsWhole, ScanKeepsWhole,
               ReadKeepsWhole, MergeKeepsWhole DEF Next, Build
<1>3. IInv /\ WInv => WholeCall
  BY NothingMissing
<1>. QED  BY <1>1, <1>2, <1>3, Inductive, PTL DEF Spec
=============================================================================
