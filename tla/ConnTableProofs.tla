-------------------------- MODULE ConnTableProofs --------------------------
(***************************************************************************)
(* Proofs about module ConnTable, for every number of buckets, channels    *)
(* and members and every set of IDs: the table is exact, the loops stand   *)
(* on live channels and miss none, whatever the application does in their  *)
(* callbacks.                                                              *)
(***************************************************************************)
EXTENDS ConnTable, FiniteSetTheorems, TLAPS

USE IdsAssumption, SizeAssumption, ChannelsAssumption

-----------------------------------------------------------------------------
(* Tables *)

Buckets == 0 .. Size - 1

\* t holds the channels S, each once and in the bucket of its ID g.
Table(t, S, g) ==
  /\ t \in [Buckets -> Seq(Channel)]
  /\ \A b \in Buckets : \A i \in 1 .. Len(t[b]) :
       t[b][i] \in S /\ Bucket(g[t[b][i]]) = b
  /\ \A b \in Buckets : \A i, j \in 1 .. Len(t[b]) :
       t[b][i] = t[b][j] => i = j
  /\ \A c \in S : \E i \in 1 .. Len(t[Bucket(g[c])]) : t[Bucket(g[c])][i] = c

\* ihash_iter and ihash_next come to d at c or later.
AtOrBehind(t, c, d) ==
  \E b, k \in Buckets : \E i \in 1 .. Len(t[b]), j \in 1 .. Len(t[k]) :
    /\ t[b][i] = c /\ t[k][j] = d
    /\ b < k \/ (b = k /\ i <= j)

IdOf == [c \in Channel |-> ch[c].id]

\* A set of natural numbers has a smallest element: the first bucket that is
\* in use, or the first item with an ID.
LEMMA Smallest ==
  ASSUME NEW T \in SUBSET Nat, T # {}
  PROVE  \E m \in T : \A y \in T : m <= y
  <1> DEFINE R == StrictSubsetOrdering(Nat)
             S == FiniteSubsetsOf(Nat)
             U == {1 .. n : n \in T}
  <1>1. U \subseteq S
    <2>1. \A n \in T : 1 .. n \in SUBSET Nat /\ IsFiniteSet(1 .. n)
      BY FS_Interval
    <2> QED BY <2>1 DEF FiniteSubsetsOf
  <1>2. U # {} /\ IsWellFoundedOn(R, S)
    BY FS_StrictSubsetOrderingWellFounded
  <1>3. PICK x \in U : \A y \in U : ~ (<<y, x>> \in R)
    <2> HIDE DEF R, S, U
    <2> QED BY <1>1, <1>2, WFMin
  <1>4. PICK m \in T : x = 1 .. m
    OBVIOUS
  <1>5. ASSUME NEW y \in T, y < m PROVE FALSE
    <2>1. 1 .. y \subseteq 1 .. m /\ m \in 1 .. m /\ m \notin 1 .. y
      BY <1>5
    <2>2. <<1 .. y, 1 .. m>> \in R
      BY <2>1 DEF StrictSubsetOrdering
    <2> QED BY <1>3, <1>4, <2>2
  <1> QED BY <1>5

LEMMA BucketInBuckets ==
  ASSUME NEW id \in Nat
  PROVE  Bucket(id) \in Buckets
  BY DEF Bucket, Buckets

\* A channel has one place in the table.
LEMMA PlaceIsUnique ==
  ASSUME NEW t, NEW S, NEW g, Table(t, S, g),
         NEW b \in Buckets, NEW k \in Buckets,
         NEW i \in 1 .. Len(t[b]), NEW j \in 1 .. Len(t[k]),
         t[b][i] = t[k][j]
  PROVE  b = k /\ i = j
  <1>1. b = k
    BY DEF Table
  <1> QED BY <1>1 DEF Table

\* The items of a table.
LEMMA ItemsFacts ==
  ASSUME NEW t, NEW S \in SUBSET Channel, NEW g \in [Channel -> Nat],
         Table(t, S, g)
  PROVE  Items(t) = S
  <1>1. DOMAIN t = Buckets /\ \A b \in Buckets : t[b] \in Seq(Channel)
    BY DEF Table
  <1>2. \A b \in Buckets : ToSet(t[b]) = {t[b][i] : i \in 1 .. Len(t[b])}
    BY <1>1 DEF ToSet
  <1>3. ASSUME NEW c \in Items(t) PROVE c \in S
    <2>1. PICK b \in Buckets : c \in ToSet(t[b])
      BY <1>1 DEF Items
    <2>2. PICK i \in 1 .. Len(t[b]) : c = t[b][i]
      BY <1>2, <2>1
    <2> QED BY <2>2 DEF Table
  <1>4. ASSUME NEW c \in S PROVE c \in Items(t)
    <2>1. g[c] \in Nat
      OBVIOUS
    <2>2. Bucket(g[c]) \in Buckets
      BY <2>1, BucketInBuckets
    <2>3. PICK i \in 1 .. Len(t[Bucket(g[c])]) : t[Bucket(g[c])][i] = c
      BY DEF Table
    <2>4. c \in ToSet(t[Bucket(g[c])])
      BY <1>2, <2>2, <2>3
    <2> QED BY <1>1, <2>2, <2>4 DEF Items
  <1> QED BY <1>3, <1>4

\* What ihash_get, ihash_del and ihash_next find in a chain.
LEMMA ChosenIsFirst ==
  ASSUME NEW n \in Nat, NEW I \in SUBSET (1 .. n), NEW i \in I,
         \A j \in I : j = i
  PROVE  I # {} /\ Min(I) = i
  <1>1. Min(I) = CHOOSE x \in I : \A y \in I : x <= y
    BY DEF Min
  <1>2. \E x \in I : \A y \in I : x <= y
    OBVIOUS
  <1> DEFINE m == CHOOSE x \in I : \A y \in I : x <= y
  <1>3. m \in I
    BY <1>2
  <1> HIDE DEF m
  <1>4. m = i
    BY <1>3
  <1> QED BY <1>1, <1>4 DEF m

LEMMA FoundById ==
  ASSUME NEW t, NEW S \in SUBSET Channel, IdOf \in [Channel -> Nat],
         Table(t, S, IdOf), NEW c \in S,
         \A d \in S : ch[d].id = ch[c].id => d = c
  PROVE  LET chain == t[Bucket(ch[c].id)]
             pos   == SelectInSeq(chain, LAMBDA d : ch[d].id = ch[c].id)
         IN  pos \in 1 .. Len(chain) /\ chain[pos] = c
  <1> DEFINE chain == t[Bucket(ch[c].id)]
             I == {i \in 1 .. Len(chain) : ch[chain[i]].id = ch[c].id}
             pos == SelectInSeq(chain, LAMBDA d : ch[d].id = ch[c].id)
  <1>1. IdOf[c] = ch[c].id /\ ch[c].id \in Nat
    BY DEF IdOf
  <1>2. Bucket(ch[c].id) \in Buckets
    BY <1>1, BucketInBuckets
  <1>3. PICK i \in 1 .. Len(chain) : chain[i] = c
    BY <1>1 DEF Table
  <1>4. Len(chain) \in Nat
    BY <1>2 DEF Table
  <1>5. \A j \in I : j = i
    <2> SUFFICES ASSUME NEW j \in I PROVE j = i
      OBVIOUS
    <2>1. chain[j] \in S
      BY <1>2 DEF Table
    <2>2. chain[j] = c
      BY <2>1
    <2> QED BY <1>2, <1>3, <2>2 DEF Table
  <1>6. i \in I /\ I \in SUBSET (1 .. Len(chain))
    BY <1>3
  <1>7. pos = IF I # {} THEN Min(I) ELSE 0
    BY DEF SelectInSeq
  <1> HIDE DEF I, pos, chain
  <1>8. I # {} /\ Min(I) = i
    BY <1>4, <1>5, <1>6, ChosenIsFirst
  <1>9. pos = i
    BY <1>7, <1>8
  <1>10. pos \in 1 .. Len(chain) /\ chain[pos] = c
    BY <1>3, <1>9
  <1> QED BY <1>10 DEF pos, chain

LEMMA FoundItself ==
  ASSUME NEW t, NEW S \in SUBSET Channel, IdOf \in [Channel -> Nat],
         Table(t, S, IdOf), NEW c \in S
  PROVE  LET chain == t[Bucket(ch[c].id)]
             pos   == SelectInSeq(chain, LAMBDA d : d = c)
         IN  pos \in 1 .. Len(chain) /\ chain[pos] = c
  <1> DEFINE chain == t[Bucket(ch[c].id)]
             I == {i \in 1 .. Len(chain) : chain[i] = c}
             pos == SelectInSeq(chain, LAMBDA d : d = c)
  <1>1. IdOf[c] = ch[c].id /\ ch[c].id \in Nat
    BY DEF IdOf
  <1>2. Bucket(ch[c].id) \in Buckets
    BY <1>1, BucketInBuckets
  <1>3. PICK i \in 1 .. Len(chain) : chain[i] = c
    BY <1>1 DEF Table
  <1>4. Len(chain) \in Nat
    BY <1>2 DEF Table
  <1>5. \A j \in I : j = i
    BY <1>2, <1>3 DEF Table
  <1>6. i \in I /\ I \in SUBSET (1 .. Len(chain))
    BY <1>3
  <1>7. pos = IF I # {} THEN Min(I) ELSE 0
    BY DEF SelectInSeq
  <1> HIDE DEF I, pos, chain
  <1>8. I # {} /\ Min(I) = i
    BY <1>4, <1>5, <1>6, ChosenIsFirst
  <1>9. pos = i
    BY <1>7, <1>8
  <1>10. pos \in 1 .. Len(chain) /\ chain[pos] = c
    BY <1>3, <1>9
  <1> QED BY <1>10 DEF pos, chain

\* The first bucket from b on that is in use.
LEMMA FirstFromFacts ==
  ASSUME NEW t \in [Buckets -> Seq(Channel)], NEW b \in 0 .. Size
  PROVE  \/ /\ FirstFrom(t, b) = NULL
            /\ \A k \in Buckets : b <= k => Len(t[k]) = 0
         \/ \E k \in Buckets :
              /\ b <= k /\ Len(t[k]) # 0 /\ FirstFrom(t, b) = t[k][1]
              /\ \A j \in Buckets : b <= j /\ j < k => Len(t[j]) = 0
  <1> DEFINE used == {i \in b .. (Size - 1) : t[i] # << >>}
             k == CHOOSE i \in used : \A j \in used : i <= j
  <1>1. FirstFrom(t, b) = IF used = {} THEN NULL ELSE Head(t[k])
    BY DEF FirstFrom
  <1>2. \A i \in Buckets : /\ t[i] \in Seq(Channel)
                           /\ Len(t[i]) = 0 <=> t[i] = << >>
    OBVIOUS
  <1>3. \A i : i \in used <=> i \in Buckets /\ b <= i /\ Len(t[i]) # 0
    BY <1>2 DEF Buckets
  <1>4. used # {} => k \in used /\ \A j \in used : k <= j
    <2> SUFFICES ASSUME used # {}
                 PROVE  \E i \in used : \A j \in used : i <= j
      OBVIOUS
    <2>1. used \in SUBSET Nat
      OBVIOUS
    <2> HIDE DEF used
    <2> QED BY <2>1, Smallest
  <1> HIDE DEF k, used
  <1>5. CASE used = {}
    BY <1>1, <1>3, <1>5
  <1>6. CASE used # {}
    <2>1. k \in Buckets /\ b <= k /\ Len(t[k]) # 0
      BY <1>3, <1>4, <1>6
    <2>2. FirstFrom(t, b) = t[k][1]
      <3>1. Head(t[k]) = t[k][1]
        BY <1>2, <2>1
      <3> QED BY <1>1, <1>6, <3>1
    <2>3. ASSUME NEW j \in Buckets, b <= j, j < k PROVE Len(t[j]) = 0
      <3>1. ASSUME Len(t[j]) # 0 PROVE FALSE
        <4>1. j \in used
          BY <1>3, <2>3, <3>1
        <4>2. k <= j
          BY <1>4, <1>6, <4>1
        <4> QED BY <2>1, <2>3, <4>2 DEF Buckets
      <3> QED BY <3>1
    <2> QED BY <2>1, <2>2, <2>3
  <1> QED BY <1>5, <1>6

\* The order of the loops is that of the places.
LEMMA OrderOfPlaces ==
  ASSUME NEW t, NEW S, NEW g, Table(t, S, g),
         NEW b \in Buckets, NEW k \in Buckets,
         NEW i \in 1 .. Len(t[b]), NEW j \in 1 .. Len(t[k])
  PROVE  AtOrBehind(t, t[b][i], t[k][j]) <=> b < k \/ (b = k /\ i <= j)
  <1>1. ASSUME AtOrBehind(t, t[b][i], t[k][j])
        PROVE  b < k \/ (b = k /\ i <= j)
    <2>1. PICK b2, k2 \in Buckets :
            \E i2 \in 1 .. Len(t[b2]), j2 \in 1 .. Len(t[k2]) :
              /\ t[b2][i2] = t[b][i] /\ t[k2][j2] = t[k][j]
              /\ b2 < k2 \/ (b2 = k2 /\ i2 <= j2)
      BY <1>1 DEF AtOrBehind
    <2>2. PICK i2 \in 1 .. Len(t[b2]), j2 \in 1 .. Len(t[k2]) :
              /\ t[b2][i2] = t[b][i] /\ t[k2][j2] = t[k][j]
              /\ b2 < k2 \/ (b2 = k2 /\ i2 <= j2)
      BY <2>1
    <2>3. b2 = b /\ i2 = i
      BY <2>2, PlaceIsUnique
    <2>4. k2 = k /\ j2 = j
      BY <2>2, PlaceIsUnique
    <2> QED BY <2>2, <2>3, <2>4
  <1> QED BY <1>1 DEF AtOrBehind

\* Every channel of the table has a place.
LEMMA HasPlace ==
  ASSUME NEW t, NEW S \in SUBSET Channel, NEW g \in [Channel -> Nat],
         Table(t, S, g), NEW c \in S
  PROVE  /\ Bucket(g[c]) \in Buckets
         /\ \E i \in 1 .. Len(t[Bucket(g[c])]) : t[Bucket(g[c])][i] = c
  <1>1. g[c] \in Nat
    OBVIOUS
  <1> QED BY <1>1, BucketInBuckets DEF Table

\* ihash_next goes to the channel right behind, which is in the table.
LEMMA NextFacts ==
  ASSUME NEW t, NEW S \in SUBSET Channel, IdOf \in [Channel -> Nat],
         Table(t, S, IdOf), NEW c \in S
  PROVE  LET n == NextItem(t, c)
         IN  \/ n = NULL /\ \A d \in S : AtOrBehind(t, c, d) => d = c
             \/ /\ n \in S
                /\ \A d \in S :
                     AtOrBehind(t, n, d) <=> AtOrBehind(t, c, d) /\ d # c
  <1> DEFINE b == Bucket(ch[c].id)
             chain == t[b]
             pos == SelectInSeq(chain, LAMBDA d : d = c)
             n == NextItem(t, c)
  <1>1. pos \in 1 .. Len(chain) /\ chain[pos] = c
    BY FoundItself
  <1>2. n = IF pos < Len(chain) THEN chain[pos + 1] ELSE FirstFrom(t, b + 1)
    BY DEF NextItem
  <1>3. b \in Buckets
    <2>1. IdOf[c] = ch[c].id
      BY DEF IdOf
    <2> QED BY <2>1, HasPlace
  <1>4. t \in [Buckets -> Seq(Channel)]
    BY DEF Table
  <1>5. Len(chain) \in Nat /\ chain \in Seq(Channel)
    BY <1>3, <1>4
  <1> HIDE DEF b, chain, pos, n
  <1>6. chain = t[b]
    BY DEF chain
  <1>7. ASSUME NEW d \in S
        PROVE  \E k \in Buckets : \E j \in 1 .. Len(t[k]) :
                 /\ t[k][j] = d
                 /\ AtOrBehind(t, c, d) <=> b < k \/ (b = k /\ pos <= j)
                 /\ d = c <=> b = k /\ pos = j
    <2> DEFINE k == Bucket(IdOf[d])
    <2>1. k \in Buckets
      BY HasPlace
    <2>2. PICK j \in 1 .. Len(t[k]) : t[k][j] = d
      BY HasPlace
    <2> HIDE DEF k
    <2>3. AtOrBehind(t, t[b][pos], t[k][j]) <=> b < k \/ (b = k /\ pos <= j)
      BY <1>1, <1>3, <1>6, <2>1, OrderOfPlaces
    <2>4. d = c <=> b = k /\ pos = j
      BY <1>1, <1>3, <1>6, <2>1, <2>2, PlaceIsUnique
    <2> QED BY <1>1, <1>6, <2>1, <2>2, <2>3, <2>4
  <1>8. CASE pos < Len(chain)
    <2>1. pos + 1 \in 1 .. Len(t[b]) /\ n = t[b][pos + 1]
      BY <1>1, <1>2, <1>5, <1>6, <1>8
    <2>2. n \in S
      BY <1>3, <2>1 DEF Table
    <2>3. ASSUME NEW d \in S
          PROVE  AtOrBehind(t, n, d) <=> AtOrBehind(t, c, d) /\ d # c
      <3>1. PICK k \in Buckets : \E j \in 1 .. Len(t[k]) :
                 /\ t[k][j] = d
                 /\ AtOrBehind(t, c, d) <=> b < k \/ (b = k /\ pos <= j)
                 /\ d = c <=> b = k /\ pos = j
        BY <1>7
      <3>2. PICK j \in 1 .. Len(t[k]) :
                 /\ t[k][j] = d
                 /\ AtOrBehind(t, c, d) <=> b < k \/ (b = k /\ pos <= j)
                 /\ d = c <=> b = k /\ pos = j
        BY <3>1
      <3>3. AtOrBehind(t, n, d) <=> b < k \/ (b = k /\ pos + 1 <= j)
        BY <1>3, <2>1, <3>2, OrderOfPlaces
      <3>4. b < k \/ (b = k /\ pos + 1 <= j)
              <=> (b < k \/ (b = k /\ pos <= j)) /\ ~(b = k /\ pos = j)
        BY <1>1, <1>3, <1>5, <3>2 DEF Buckets
      <3> QED BY <3>2, <3>3, <3>4
    <2> QED BY <2>2, <2>3 DEF n
  <1>9. CASE ~(pos < Len(chain))
    <2>1. n = FirstFrom(t, b + 1) /\ b + 1 \in 0 .. Size
      BY <1>2, <1>3, <1>9 DEF Buckets
    <2>2. pos = Len(t[b])
      BY <1>1, <1>5, <1>6, <1>9
    <2>3. CASE /\ n = NULL
               /\ \A k \in Buckets : b + 1 <= k => Len(t[k]) = 0
      <3>1. ASSUME NEW d \in S, AtOrBehind(t, c, d) PROVE d = c
        <4>1. PICK k \in Buckets : \E j \in 1 .. Len(t[k]) :
                 /\ b < k \/ (b = k /\ pos <= j)
                 /\ d = c <=> b = k /\ pos = j
          BY <1>7, <3>1
        <4>2. PICK j \in 1 .. Len(t[k]) :
                 /\ b < k \/ (b = k /\ pos <= j)
                 /\ d = c <=> b = k /\ pos = j
          BY <4>1
        <4>3. ~(b < k)
          <5>1. Len(t[k]) # 0
            BY <1>4, <4>2
          <5> QED BY <1>3, <2>3, <4>1, <5>1 DEF Buckets
        <4> QED BY <1>1, <1>5, <2>2, <4>2, <4>3
      <3> QED BY <2>3, <3>1 DEF n
    <2>4. CASE \E k \in Buckets :
              /\ b + 1 <= k /\ Len(t[k]) # 0 /\ n = t[k][1]
              /\ \A j \in Buckets : b + 1 <= j /\ j < k => Len(t[j]) = 0
      <3>1. PICK k \in Buckets :
              /\ b + 1 <= k /\ Len(t[k]) # 0 /\ n = t[k][1]
              /\ \A j \in Buckets : b + 1 <= j /\ j < k => Len(t[j]) = 0
        BY <2>4
      <3>2. 1 \in 1 .. Len(t[k])
        BY <1>4, <3>1
      <3>3. n \in S
        BY <3>1, <3>2 DEF Table
      <3>4. ASSUME NEW d \in S
            PROVE  AtOrBehind(t, n, d) <=> AtOrBehind(t, c, d) /\ d # c
        <4>1. PICK k2 \in Buckets : \E j \in 1 .. Len(t[k2]) :
                 /\ t[k2][j] = d
                 /\ AtOrBehind(t, c, d) <=> b < k2 \/ (b = k2 /\ pos <= j)
                 /\ d = c <=> b = k2 /\ pos = j
          BY <1>7
        <4>2. PICK j \in 1 .. Len(t[k2]) :
                 /\ t[k2][j] = d
                 /\ AtOrBehind(t, c, d) <=> b < k2 \/ (b = k2 /\ pos <= j)
                 /\ d = c <=> b = k2 /\ pos = j
          BY <4>1
        <4>3. AtOrBehind(t, n, d) <=> k < k2 \/ (k = k2 /\ 1 <= j)
          BY <3>1, <3>2, <4>2, OrderOfPlaces
        <4>4. Len(t[k2]) \in Nat /\ Len(t[k2]) # 0
          BY <1>4, <4>2
        <4>5. ~(b + 1 <= k2 /\ k2 < k)
          BY <3>1, <4>4
        <4>6. k < k2 \/ (k = k2 /\ 1 <= j)
              <=> (b < k2 \/ (b = k2 /\ pos <= j)) /\ ~(b = k2 /\ pos = j)
          BY <1>1, <1>3, <1>5, <1>6, <2>2, <3>1, <4>2, <4>4, <4>5 DEF Buckets
        <4> QED BY <4>2, <4>3, <4>6
      <3> QED BY <3>3, <3>4 DEF n
    <2> QED BY <1>4, <2>1, <2>3, <2>4, FirstFromFacts
  <1> QED BY <1>8, <1>9

\* ihash_iter starts with the first channel of the table.
LEMMA FirstFacts ==
  ASSUME NEW t, NEW S \in SUBSET Channel, NEW g \in [Channel -> Nat],
         Table(t, S, g)
  PROVE  \/ First(t) = NULL /\ S = {}
         \/ First(t) \in S /\ \A d \in S : AtOrBehind(t, First(t), d)
  <1>1. t \in [Buckets -> Seq(Channel)]
    BY DEF Table
  <1>2. First(t) = FirstFrom(t, 0) /\ 0 \in 0 .. Size
    BY DEF First
  <1>3. CASE /\ First(t) = NULL
             /\ \A k \in Buckets : 0 <= k => Len(t[k]) = 0
    <2>1. ASSUME NEW d \in S PROVE FALSE
      <3>1. PICK k \in Buckets : \E j \in 1 .. Len(t[k]) : t[k][j] = d
        BY HasPlace
      <3> QED BY <1>1, <1>3, <3>1 DEF Buckets
    <2> QED BY <1>3, <2>1
  <1>4. CASE \E k \in Buckets :
              /\ 0 <= k /\ Len(t[k]) # 0 /\ First(t) = t[k][1]
              /\ \A j \in Buckets : 0 <= j /\ j < k => Len(t[j]) = 0
    <2>1. PICK k \in Buckets :
              /\ 0 <= k /\ Len(t[k]) # 0 /\ First(t) = t[k][1]
              /\ \A j \in Buckets : 0 <= j /\ j < k => Len(t[j]) = 0
      BY <1>4
    <2>2. 1 \in 1 .. Len(t[k])
      BY <1>1, <2>1
    <2>3. ASSUME NEW d \in S PROVE AtOrBehind(t, First(t), d)
      <3>1. PICK k2 \in Buckets : \E j \in 1 .. Len(t[k2]) : t[k2][j] = d
        BY HasPlace
      <3>2. PICK j \in 1 .. Len(t[k2]) : t[k2][j] = d
        BY <3>1
      <3>3. Len(t[k2]) \in Nat /\ Len(t[k2]) # 0
        BY <1>1, <3>2
      <3>4. k < k2 \/ (k = k2 /\ 1 <= j)
        BY <2>1, <3>2, <3>3 DEF Buckets
      <3> QED BY <2>1, <2>2, <3>2, <3>4, OrderOfPlaces
    <2> QED BY <2>1, <2>2, <2>3 DEF Table
  <1> QED BY <1>1, <1>2, <1>3, <1>4, FirstFromFacts

LEMMA ConcatFacts ==
  ASSUME NEW s \in Seq(Channel), NEW u \in Seq(Channel)
  PROVE  /\ s \o u \in Seq(Channel)
         /\ Len(s \o u) = Len(s) + Len(u)
         /\ \A i \in 1 .. Len(s) + Len(u) :
              (s \o u)[i] = IF i <= Len(s) THEN s[i] ELSE u[i - Len(s)]
  OBVIOUS

\* A chain without its item at p.
LEMMA RemovedFacts ==
  ASSUME NEW s \in Seq(Channel), NEW p \in 1 .. Len(s)
  PROVE  /\ RemoveAt(s, p) \in Seq(Channel)
         /\ Len(RemoveAt(s, p)) = Len(s) - 1
         /\ \A i \in 1 .. Len(s) - 1 :
              RemoveAt(s, p)[i] = IF i < p THEN s[i] ELSE s[i + 1]
  <1> DEFINE u == SubSeq(s, 1, p - 1)
             v == SubSeq(s, p + 1, Len(s))
  <1>1. /\ u \in Seq(Channel) /\ Len(u) = p - 1
        /\ \A i \in 1 .. p - 1 : u[i] = s[i]
    OBVIOUS
  <1>2. /\ v \in Seq(Channel) /\ Len(v) = Len(s) - p
        /\ \A i \in 1 .. Len(s) - p : v[i] = s[i + p]
    OBVIOUS
  <1>3. RemoveAt(s, p) = u \o v
    BY DEF RemoveAt
  <1> HIDE DEF u, v
  <1>4. /\ u \o v \in Seq(Channel)
        /\ Len(u \o v) = Len(u) + Len(v)
        /\ \A i \in 1 .. Len(u) + Len(v) :
              (u \o v)[i] = IF i <= Len(u) THEN u[i] ELSE v[i - Len(u)]
    BY <1>1, <1>2, ConcatFacts
  <1>5. Len(s) \in Nat
    OBVIOUS
  <1>6. ASSUME NEW i \in 1 .. Len(s) - 1
        PROVE  RemoveAt(s, p)[i] = IF i < p THEN s[i] ELSE s[i + 1]
    <2>1. (u \o v)[i] = IF i <= p - 1 THEN u[i] ELSE v[i - (p - 1)]
      BY <1>1, <1>2, <1>4, <1>5
    <2>2. CASE i < p
      BY <1>1, <1>3, <2>1, <2>2
    <2>3. CASE ~(i < p)
      <3>1. i - (p - 1) \in 1 .. Len(s) - p
        BY <1>5, <2>3
      <3>2. v[i - (p - 1)] = s[(i - (p - 1)) + p]
        BY <1>2, <3>1
      <3>3. (i - (p - 1)) + p = i + 1
        BY <1>5
      <3> QED BY <1>3, <2>1, <2>3, <3>2, <3>3
    <2> QED BY <2>2, <2>3
  <1> QED BY <1>1, <1>2, <1>3, <1>4, <1>5, <1>6

\* ihash_del takes out the channel with this ID and keeps the others in
\* their order.
LEMMA DelFacts ==
  ASSUME NEW t, NEW S \in SUBSET Channel, IdOf \in [Channel -> Nat],
         Table(t, S, IdOf), NEW c \in S,
         \A d \in S : ch[d].id = ch[c].id => d = c
  PROVE  /\ Table(Del(t, ch[c].id), S \ {c}, IdOf)
         /\ \A d, e \in S \ {c} :
              AtOrBehind(t, d, e) => AtOrBehind(Del(t, ch[c].id), d, e)
  <1> DEFINE B == Bucket(ch[c].id)
             p == SelectInSeq(t[B], LAMBDA d : ch[d].id = ch[c].id)
             u == Del(t, ch[c].id)
  <1>1. p \in 1 .. Len(t[B]) /\ t[B][p] = c
    BY FoundById
  <1>2. B \in Buckets
    <2>1. IdOf[c] = ch[c].id
      BY DEF IdOf
    <2> QED BY <2>1, HasPlace
  <1>3. t \in [Buckets -> Seq(Channel)]
    BY DEF Table
  <1>4. u = IF p = 0 THEN t ELSE [t EXCEPT ![B] = RemoveAt(@, p)]
    BY DEF Del
  <1> HIDE DEF B, p, u
  <1>5. t[B] \in Seq(Channel) /\ Len(t[B]) \in Nat /\ p # 0
    BY <1>1, <1>2, <1>3
  <1>6. /\ RemoveAt(t[B], p) \in Seq(Channel)
        /\ Len(RemoveAt(t[B], p)) = Len(t[B]) - 1
        /\ \A i \in 1 .. Len(t[B]) - 1 :
             RemoveAt(t[B], p)[i] = IF i < p THEN t[B][i] ELSE t[B][i + 1]
    BY <1>1, <1>5, RemovedFacts
  <1>7. /\ u \in [Buckets -> Seq(Channel)]
        /\ u[B] = RemoveAt(t[B], p)
        /\ \A k \in Buckets : k # B => u[k] = t[k]
    BY <1>2, <1>3, <1>4, <1>5, <1>6
  <1>8. ASSUME NEW k \in Buckets, NEW j \in 1 .. Len(u[k])
        PROVE  \E i \in 1 .. Len(t[k]) :
                 /\ u[k][j] = t[k][i]
                 /\ i = IF k = B /\ p <= j THEN j + 1 ELSE j
    <2>1. CASE k # B
      BY <1>7, <2>1
    <2>2. CASE k = B
      <3>1. j \in 1 .. Len(t[B]) - 1
        BY <1>6, <1>7, <2>2
      <3>2. u[k][j] = IF j < p THEN t[B][j] ELSE t[B][j + 1]
        BY <1>6, <1>7, <2>2, <3>1
      <3>3. j \in 1 .. Len(t[B]) /\ j + 1 \in 1 .. Len(t[B])
        BY <1>5, <3>1
      <3> QED BY <1>1, <1>5, <2>2, <3>2, <3>3
    <2> QED BY <2>1, <2>2
  <1>9. ASSUME NEW k \in Buckets, NEW i \in 1 .. Len(t[k]), t[k][i] # c
        PROVE  \E j \in 1 .. Len(u[k]) :
                 /\ u[k][j] = t[k][i]
                 /\ j = IF k = B /\ p < i THEN i - 1 ELSE i
    <2>1. CASE k # B
      BY <1>7, <2>1
    <2>2. CASE k = B
      <3>1. i # p
        BY <1>1, <1>9, <2>2
      <3> DEFINE j == IF p < i THEN i - 1 ELSE i
      <3>2. j \in 1 .. Len(t[B]) - 1
        BY <1>1, <1>5, <2>2, <3>1
      <3>3. u[k][j] = IF j < p THEN t[B][j] ELSE t[B][j + 1]
        BY <1>6, <1>7, <2>2, <3>2
      <3>4. u[k][j] = t[k][i]
        BY <1>1, <1>5, <2>2, <3>1, <3>3
      <3> QED BY <1>6, <1>7, <2>2, <3>2, <3>4
    <2> QED BY <2>1, <2>2
  <1>10. ASSUME NEW k \in Buckets, NEW j \in 1 .. Len(u[k])
         PROVE  u[k][j] \in S \ {c} /\ Bucket(IdOf[u[k][j]]) = k
    <2>1. PICK i \in 1 .. Len(t[k]) :
                 /\ u[k][j] = t[k][i]
                 /\ i = IF k = B /\ p <= j THEN j + 1 ELSE j
      BY <1>8
    <2>2. t[k][i] \in S /\ Bucket(IdOf[t[k][i]]) = k
      BY DEF Table
    <2>3. t[k][i] # c
      <3>1. SUFFICES ASSUME t[k][i] = c PROVE FALSE
        OBVIOUS
      <3>2. k = B /\ i = p
        BY <1>1, <1>2, <3>1, PlaceIsUnique
      <3>3. Len(u[k]) \in Nat
        BY <1>7
      <3> QED BY <1>1, <1>5, <2>1, <3>2, <3>3
    <2> QED BY <2>1, <2>2, <2>3
  <1>11. ASSUME NEW k \in Buckets,
                NEW i \in 1 .. Len(u[k]), NEW j \in 1 .. Len(u[k]),
                u[k][i] = u[k][j]
         PROVE  i = j
    <2>1. PICK i2 \in 1 .. Len(t[k]) :
                 /\ u[k][i] = t[k][i2]
                 /\ i2 = IF k = B /\ p <= i THEN i + 1 ELSE i
      BY <1>8
    <2>2. PICK j2 \in 1 .. Len(t[k]) :
                 /\ u[k][j] = t[k][j2]
                 /\ j2 = IF k = B /\ p <= j THEN j + 1 ELSE j
      BY <1>8
    <2>3. i2 = j2
      <3>1. t[k][i2] = t[k][j2]
        BY <1>11, <2>1, <2>2
      <3> QED BY <3>1, PlaceIsUnique
    <2>4. Len(u[k]) \in Nat
      BY <1>7
    <2> QED BY <1>1, <1>5, <2>1, <2>2, <2>3, <2>4
  <1>12. ASSUME NEW d \in S \ {c}
         PROVE  \E j \in 1 .. Len(u[Bucket(IdOf[d])]) : u[Bucket(IdOf[d])][j] = d
    <2> DEFINE k == Bucket(IdOf[d])
    <2>1. k \in Buckets
      BY HasPlace
    <2>2. PICK i \in 1 .. Len(t[k]) : t[k][i] = d
      BY HasPlace
    <2> QED BY <1>9, <2>1, <2>2
  <1>13. Table(u, S \ {c}, IdOf)
    BY <1>7, <1>10, <1>11, <1>12 DEF Table
  <1>14. ASSUME NEW d \in S \ {c}, NEW e \in S \ {c}, AtOrBehind(t, d, e)
         PROVE  AtOrBehind(u, d, e)
    <2>1. PICK b, k \in Buckets :
            \E i \in 1 .. Len(t[b]), j \in 1 .. Len(t[k]) :
              /\ t[b][i] = d /\ t[k][j] = e
              /\ b < k \/ (b = k /\ i <= j)
      BY <1>14 DEF AtOrBehind
    <2>2. PICK i \in 1 .. Len(t[b]), j \in 1 .. Len(t[k]) :
              /\ t[b][i] = d /\ t[k][j] = e
              /\ b < k \/ (b = k /\ i <= j)
      BY <2>1
    <2>3. PICK i2 \in 1 .. Len(u[b]) :
                 /\ u[b][i2] = t[b][i]
                 /\ i2 = IF b = B /\ p < i THEN i - 1 ELSE i
      BY <1>9, <2>2
    <2>4. PICK j2 \in 1 .. Len(u[k]) :
                 /\ u[k][j2] = t[k][j]
                 /\ j2 = IF k = B /\ p < j THEN j - 1 ELSE j
      BY <1>9, <2>2
    <2>5. b < k \/ (b = k /\ i2 <= j2)
      <3>1. Len(t[b]) \in Nat /\ Len(t[k]) \in Nat
        BY <1>3
      <3> QED BY <1>1, <1>5, <2>2, <2>3, <2>4, <3>1
    <2> QED BY <2>2, <2>3, <2>4, <2>5 DEF AtOrBehind
  <1> QED BY <1>13, <1>14 DEF u

\* ihash_put enters a channel in front of its bucket.
LEMMA PutFacts ==
  ASSUME NEW t, NEW S \in SUBSET Channel, NEW g \in [Channel -> Nat],
         Table(t, S, g), NEW c \in Channel, c \notin S, NEW id \in Nat
  PROVE  /\ Table(Put(t, c, id), S \cup {c}, [g EXCEPT ![c] = id])
         /\ \A d, e \in S :
              AtOrBehind(t, d, e) => AtOrBehind(Put(t, c, id), d, e)
  <1> DEFINE B == Bucket(id)
             u == Put(t, c, id)
             f == [g EXCEPT ![c] = id]
  <1>1. B \in Buckets
    BY BucketInBuckets
  <1>2. t \in [Buckets -> Seq(Channel)]
    BY DEF Table
  <1>3. u = [t EXCEPT ![B] = <<c>> \o @]
    BY DEF Put
  <1>4. f[c] = id /\ \A d \in S : f[d] = g[d] /\ d # c
    OBVIOUS
  <1>5. Bucket(f[c]) = B
    BY <1>4
  <1> HIDE DEF B, u, f
  <1>6. <<c>> \in Seq(Channel) /\ Len(<<c>>) = 1 /\ <<c>>[1] = c
    OBVIOUS
  <1>7. t[B] \in Seq(Channel) /\ Len(t[B]) \in Nat
    BY <1>1, <1>2
  <1>8. /\ <<c>> \o t[B] \in Seq(Channel)
        /\ Len(<<c>> \o t[B]) = 1 + Len(t[B])
        /\ \A i \in 1 .. 1 + Len(t[B]) :
             (<<c>> \o t[B])[i] = IF i <= 1 THEN <<c>>[i] ELSE t[B][i - 1]
    BY <1>6, <1>7, ConcatFacts
  <1>9. /\ u \in [Buckets -> Seq(Channel)]
        /\ u[B] = <<c>> \o t[B]
        /\ \A k \in Buckets : k # B => u[k] = t[k]
    BY <1>1, <1>2, <1>3, <1>8
  <1>10. 1 \in 1 .. Len(u[B]) /\ u[B][1] = c
    BY <1>6, <1>7, <1>8, <1>9
  <1>11. ASSUME NEW k \in Buckets, NEW j \in 1 .. Len(u[k])
         PROVE  \/ k = B /\ j = 1
                \/ \E i \in 1 .. Len(t[k]) :
                     u[k][j] = t[k][i] /\ i = IF k = B THEN j - 1 ELSE j
    <2>1. CASE k # B
      BY <1>9, <2>1
    <2>2. CASE k = B
      <3>1. j \in 1 .. 1 + Len(t[B])
        BY <1>8, <1>9, <2>2
      <3>2. u[k][j] = IF j <= 1 THEN <<c>>[j] ELSE t[B][j - 1]
        BY <1>8, <1>9, <2>2, <3>1
      <3>3. CASE j # 1
        <4>1. j - 1 \in 1 .. Len(t[k]) /\ ~(j <= 1)
          BY <1>7, <2>2, <3>1, <3>3
        <4> QED BY <2>2, <3>2, <4>1
      <3> QED BY <2>2, <3>3
    <2> QED BY <2>1, <2>2
  <1>12. ASSUME NEW k \in Buckets, NEW i \in 1 .. Len(t[k])
         PROVE  \E j \in 1 .. Len(u[k]) :
                  u[k][j] = t[k][i] /\ j = IF k = B THEN i + 1 ELSE i
    <2>1. CASE k # B
      BY <1>9, <2>1
    <2>2. CASE k = B
      <3>1. i + 1 \in 1 .. 1 + Len(t[B]) /\ ~(i + 1 <= 1) /\ (i + 1) - 1 = i
        BY <1>7, <2>2
      <3>2. u[k][i + 1] = t[B][(i + 1) - 1]
        BY <1>8, <1>9, <2>2, <3>1
      <3>3. i + 1 \in 1 .. Len(u[k])
        BY <1>8, <1>9, <2>2, <3>1
      <3> QED BY <2>2, <3>1, <3>2, <3>3
    <2> QED BY <2>1, <2>2
  <1>13. ASSUME NEW k \in Buckets, NEW j \in 1 .. Len(u[k])
         PROVE  u[k][j] \in S \cup {c} /\ Bucket(f[u[k][j]]) = k
    <2>1. CASE k = B /\ j = 1
      BY <1>5, <1>10, <2>1
    <2>2. CASE \E i \in 1 .. Len(t[k]) : u[k][j] = t[k][i]
      <3>1. PICK i \in 1 .. Len(t[k]) : u[k][j] = t[k][i]
        BY <2>2
      <3>2. t[k][i] \in S /\ Bucket(g[t[k][i]]) = k
        BY DEF Table
      <3> QED BY <1>4, <3>1, <3>2
    <2> QED BY <1>11, <2>1, <2>2
  <1>14. ASSUME NEW k \in Buckets, NEW i \in 1 .. Len(t[k])
         PROVE  t[k][i] # c
    BY DEF Table
  <1>15. ASSUME NEW k \in Buckets,
                NEW i \in 1 .. Len(u[k]), NEW j \in 1 .. Len(u[k]),
                u[k][i] = u[k][j]
         PROVE  i = j
    <2>1. Len(u[k]) \in Nat
      BY <1>9
    <2>2. CASE k = B /\ i = 1
      BY <1>10, <1>11, <1>14, <1>15, <2>2
    <2>3. CASE k = B /\ j = 1
      BY <1>10, <1>11, <1>14, <1>15, <2>3
    <2>4. CASE ~(k = B /\ i = 1) /\ ~(k = B /\ j = 1)
      <3>1. PICK i2 \in 1 .. Len(t[k]) :
              u[k][i] = t[k][i2] /\ i2 = IF k = B THEN i - 1 ELSE i
        BY <1>11, <2>4
      <3>2. PICK j2 \in 1 .. Len(t[k]) :
              u[k][j] = t[k][j2] /\ j2 = IF k = B THEN j - 1 ELSE j
        BY <1>11, <2>4
      <3>3. i2 = j2
        <4>1. t[k][i2] = t[k][j2]
          BY <1>15, <3>1, <3>2
        <4> QED BY <4>1, PlaceIsUnique
      <3> QED BY <2>1, <3>1, <3>2, <3>3
    <2> QED BY <2>2, <2>3, <2>4
  <1>16. ASSUME NEW d \in S \cup {c}
         PROVE  \E j \in 1 .. Len(u[Bucket(f[d])]) : u[Bucket(f[d])][j] = d
    <2>1. CASE d = c
      BY <1>5, <1>10, <2>1
    <2>2. CASE d \in S
      <3> DEFINE k == Bucket(g[d])
      <3>1. k \in Buckets /\ Bucket(f[d]) = k
        BY <1>4, <2>2, HasPlace
      <3>2. PICK i \in 1 .. Len(t[k]) : t[k][i] = d
        BY <2>2, HasPlace
      <3> QED BY <1>12, <3>1, <3>2
    <2> QED BY <2>1, <2>2
  <1>17. Table(u, S \cup {c}, f)
    BY <1>9, <1>13, <1>15, <1>16 DEF Table
  <1>18. ASSUME NEW d \in S, NEW e \in S, AtOrBehind(t, d, e)
         PROVE  AtOrBehind(u, d, e)
    <2>1. PICK b, k \in Buckets :
            \E i \in 1 .. Len(t[b]), j \in 1 .. Len(t[k]) :
              /\ t[b][i] = d /\ t[k][j] = e
              /\ b < k \/ (b = k /\ i <= j)
      BY <1>18 DEF AtOrBehind
    <2>2. PICK i \in 1 .. Len(t[b]), j \in 1 .. Len(t[k]) :
              /\ t[b][i] = d /\ t[k][j] = e
              /\ b < k \/ (b = k /\ i <= j)
      BY <2>1
    <2>3. PICK i2 \in 1 .. Len(u[b]) :
            u[b][i2] = t[b][i] /\ i2 = IF b = B THEN i + 1 ELSE i
      BY <1>12
    <2>4. PICK j2 \in 1 .. Len(u[k]) :
            u[k][j2] = t[k][j] /\ j2 = IF k = B THEN j + 1 ELSE j
      BY <1>12
    <2>5. b < k \/ (b = k /\ i2 <= j2)
      BY <1>2, <2>2, <2>3, <2>4
    <2> QED BY <2>2, <2>3, <2>4, <2>5 DEF AtOrBehind
  <1> QED BY <1>17, <1>18 DEF u, f

-----------------------------------------------------------------------------
(* The inductive invariant *)

AnyMember == CHOOSE m \in Members : TRUE

\* The channels are created one after the other.
Types ==
  /\ ch \in [Channel -> [status : {"unused", "live", "freed"}, id : Nat,
                         closing : BOOLEAN, member : Members \cup {AnyMember}]]
  /\ created \in 0 .. Channels
  /\ \A c \in Channel : created < c => ch[c].status = "unused"
  /\ loop \in {"none", "retrans", "part", "free"}
  /\ inside \in BOOLEAN

\* What the table holds: outside of ghl_free_room, the live channels.
Entered ==
  /\ Items(h) \subseteq Channel
  /\ Table(h, Items(h), IdOf)
  /\ loop # "free" => Items(h) = Live

Distinct == \A c, d \in Live : ch[c].id = ch[d].id => c = d

\* The pointers of the loops, and what each loop leaves behind.
Pointers ==
  /\ iter # NULL => iter \in Live
  /\ todel # NULL => todel \in Live \ owed
  /\ loop \in {"none", "free"} => todel = NULL
  /\ loop = "none" => iter = NULL /\ ~inside
  /\ leaving # {} => loop = "part"
  /\ inside /\ loop = "part" => iter = todel /\ iter # NULL
  /\ inside /\ loop = "retrans" => iter = NULL
  /\ ~inside /\ iter # NULL => iter # todel

\* What a loop has yet to look at is not before its current item.
Ahead ==
  /\ owed \subseteq Items(h)
  /\ \A d \in owed : iter # NULL /\ AtOrBehind(h, iter, d)

\* ghl_free_room: the channels before the current one are freed.
Freeing ==
  loop = "free" =>
    /\ present = {}
    /\ Live = owed
    /\ iter # NULL => \A d \in Items(h) : AtOrBehind(h, iter, d) => d \in owed

\* A channel with a member that is gone is one that a loop will free.
Leaving ==
  \A c \in Live :
    \/ loop = "free"
    \/ ch[c].member \in present
    \/ ch[c].member \in leaving /\ (c \in owed \/ c = todel)

Inv ==
  Types /\ Entered /\ Distinct /\ Pointers /\ Ahead /\ Freeing /\ Leaving

\* The parts of Types about the channel structures.
ChannelTypes ==
  /\ ch \in [Channel -> [status : {"unused", "live", "freed"}, id : Nat,
                         closing : BOOLEAN, member : Members \cup {AnyMember}]]
  /\ created \in 0 .. Channels
  /\ \A c \in Channel : created < c => ch[c].status = "unused"

LEMMA ChannelFacts ==
  ASSUME ChannelTypes
  PROVE  /\ IdOf \in [Channel -> Nat]
         /\ Live \subseteq Channel /\ NULL \notin Channel
         /\ \A c \in Channel : /\ IdOf[c] = ch[c].id
                               /\ c \in Live <=> ch[c].status = "live"
  BY DEF ChannelTypes, IdOf, Live, Channel, NULL

LEMMA InitKeeps ==
  ASSUME Init
  PROVE  Inv
  <1>1. ChannelTypes
    BY DEF Init, ChannelTypes, AnyMember
  <1>2. Types
    BY <1>1 DEF Types, ChannelTypes, Init
  <1>3. Live = {}
    BY DEF Init, Live
  <1>4. Table(h, {}, IdOf)
    <2>1. h = [b \in Buckets |-> << >>]
      BY DEF Init, Buckets
    <2>2. h \in [Buckets -> Seq(Channel)] /\ \A b \in Buckets : Len(h[b]) = 0
      BY <2>1
    <2> QED BY <2>2 DEF Table
  <1>5. Items(h) = {}
    <2>1. {} \in SUBSET Channel
      OBVIOUS
    <2> QED BY <1>1, <1>4, <2>1, ChannelFacts, ItemsFacts
  <1>6. Entered /\ Distinct
    BY <1>3, <1>4, <1>5 DEF Entered, Distinct
  <1>7. Pointers /\ Ahead /\ Freeing /\ Leaving
    BY <1>3 DEF Init, Pointers, Ahead, Freeing, Leaving
  <1> QED BY <1>2, <1>6, <1>7 DEF Inv

\* A new channel goes to the head of a chain: the loop that waits for the
\* application has passed that place, or will come to it.
LEMMA OpenKeeps ==
  ASSUME Inv, NEW id \in Ids, NEW m \in Members, Open(id, m)
  PROVE  Inv'
  <1> DEFINE c == created + 1
  <1>1. ChannelTypes
    BY DEF Inv, Types, ChannelTypes
  <1>2. /\ c \in Channel /\ id \in Nat
        /\ ch' = [ch EXCEPT ![c] = [status |-> "live", id |-> id,
                                    closing |-> FALSE, member |-> m]]
        /\ h' = Put(h, c, id) /\ created' = c
        /\ m \in present /\ \A d \in Live : ch[d].id # id
    BY DEF Open
  <1>3. /\ present' = present /\ loop' = loop /\ iter' = iter
        /\ todel' = todel /\ inside' = inside /\ leaving' = leaving
        /\ owed' = owed
    BY DEF Open, loopVars
  <1>4. loop # "free" /\ Items(h) = Live
    BY <1>2 DEF Inv, Freeing, Entered
  <1>5. c \notin Live
    <2>1. created < c
      BY <1>1 DEF ChannelTypes
    <2>2. ch[c].status = "unused"
      BY <1>1, <1>2, <2>1 DEF ChannelTypes
    <2> QED BY <1>1, <1>2, <2>2, ChannelFacts
  <1>6. ChannelTypes'
    <2>1. ch' \in [Channel -> [status : {"unused", "live", "freed"}, id : Nat,
                         closing : BOOLEAN, member : Members \cup {AnyMember}]]
      BY <1>1, <1>2 DEF ChannelTypes
    <2>2. created' \in 0 .. Channels
      BY <1>1, <1>2 DEF ChannelTypes, Channel
    <2>3. ASSUME NEW d \in Channel, created' < d
          PROVE  ch'[d].status = "unused"
      <3>1. created < d /\ d # c
        BY <1>1, <1>2, <2>3 DEF ChannelTypes, Channel
      <3>2. ch[d].status = "unused"
        BY <1>1, <3>1 DEF ChannelTypes
      <3> QED BY <1>1, <1>2, <3>1, <3>2 DEF ChannelTypes
    <2> QED BY <2>1, <2>2, <2>3 DEF ChannelTypes
  <1> HIDE DEF c
  <1>7. \A d \in Channel : d # c => ch'[d] = ch[d]
    BY <1>1, <1>2 DEF ChannelTypes
  <1>8. ch'[c].status = "live" /\ ch'[c].id = id /\ ch'[c].member = m
    BY <1>1, <1>2 DEF ChannelTypes
  <1>9. Live' = Live \cup {c}
    BY <1>2, <1>7, <1>8 DEF Live
  <1>10. IdOf' = [IdOf EXCEPT ![c] = id]
    <2>1. IdOf' = [d \in Channel |-> ch'[d].id]
      BY DEF IdOf
    <2>2. \A d \in Channel : ch'[d].id = IF d = c THEN id ELSE IdOf[d]
      BY <1>7, <1>8 DEF IdOf
    <2>3. [IdOf EXCEPT ![c] = id]
            = [d \in Channel |-> IF d = c THEN id ELSE IdOf[d]]
      BY DEF IdOf
    <2> QED BY <2>1, <2>2, <2>3
  <1>11. /\ Live \in SUBSET Channel /\ IdOf \in [Channel -> Nat]
         /\ Table(h, Live, IdOf)
    BY <1>1, <1>4, ChannelFacts DEF Inv, Entered
  <1>12. /\ Table(h', Live', IdOf')
         /\ \A d, e \in Live : AtOrBehind(h, d, e) => AtOrBehind(h', d, e)
    BY <1>2, <1>5, <1>9, <1>10, <1>11, PutFacts
  <1>13. Live' \in SUBSET Channel /\ IdOf' \in [Channel -> Nat]
    BY <1>2, <1>9, <1>10, <1>11
  <1>14. Items(h') = Live'
    BY <1>12, <1>13, ItemsFacts
  <1>15. Types'
    BY <1>3, <1>6 DEF Inv, Types, ChannelTypes
  <1>16. Entered'
    BY <1>12, <1>13, <1>14 DEF Entered
  <1>17. Distinct'
    <2> SUFFICES ASSUME NEW d \in Live', NEW e \in Live', ch'[d].id = ch'[e].id
                 PROVE  d = e
      BY DEF Distinct
    <2>1. CASE d \in Live /\ e \in Live
      BY <1>5, <1>7, <1>11, <2>1 DEF Inv, Distinct
    <2>2. CASE d = c \/ e = c
      BY <1>2, <1>7, <1>8, <1>9, <1>11, <2>2
    <2> QED BY <1>9, <2>1, <2>2
  <1>18. Pointers'
    BY <1>3, <1>9 DEF Inv, Pointers
  <1>19. Ahead'
    BY <1>3, <1>4, <1>9, <1>12, <1>14 DEF Inv, Ahead, Pointers
  <1>20. Freeing'
    BY <1>3, <1>4 DEF Freeing
  <1>21. Leaving'
    <2> SUFFICES ASSUME NEW d \in Live'
                 PROVE  \/ ch'[d].member \in present
                        \/ ch'[d].member \in leaving /\ (d \in owed \/ d = todel)
      BY <1>3 DEF Leaving
    <2>1. CASE d = c
      BY <1>2, <1>8, <2>1
    <2>2. CASE d \in Live /\ d # c
      <3>1. ch'[d].member = ch[d].member
        BY <1>7, <1>11, <2>2
      <3> QED BY <1>4, <2>2, <3>1 DEF Inv, Leaving
    <2> QED BY <1>9, <2>1, <2>2
  <1> QED BY <1>15, <1>16, <1>17, <1>18, <1>19, <1>20, <1>21 DEF Inv

\* A channel that is marked as closing is where it was.
LEMMA MarkKeeps ==
  ASSUME ChannelTypes, NEW c \in Channel,
         ch' = [ch EXCEPT ![c].closing = TRUE], created' = created
  PROVE  /\ ChannelTypes' /\ IdOf' = IdOf /\ Live' = Live
         /\ \A d \in Channel : /\ ch'[d].id = ch[d].id
                               /\ ch'[d].member = ch[d].member
  <1>1. ch' \in [Channel -> [status : {"unused", "live", "freed"}, id : Nat,
                         closing : BOOLEAN, member : Members \cup {AnyMember}]]
    BY DEF ChannelTypes
  <1>2. \A d \in Channel : /\ ch'[d].status = ch[d].status
                           /\ ch'[d].id = ch[d].id
                           /\ ch'[d].member = ch[d].member
    BY DEF ChannelTypes
  <1>3. IdOf' = IdOf /\ Live' = Live
    BY <1>2 DEF IdOf, Live
  <1>4. ChannelTypes'
    BY <1>1, <1>2 DEF ChannelTypes
  <1> QED BY <1>2, <1>3, <1>4

LEMMA CloseKeeps ==
  ASSUME Inv, NEW c \in Channel, Close(c)
  PROVE  Inv'
  <1>1. ChannelTypes
    BY DEF Inv, Types, ChannelTypes
  <1>2. /\ ChannelTypes' /\ IdOf' = IdOf /\ Live' = Live
        /\ \A d \in Channel : /\ ch'[d].id = ch[d].id
                              /\ ch'[d].member = ch[d].member
    BY <1>1, MarkKeeps DEF Close
  <1>3. /\ h' = h /\ present' = present /\ loop' = loop /\ iter' = iter
        /\ todel' = todel /\ inside' = inside /\ leaving' = leaving
        /\ owed' = owed
    BY DEF Close, loopVars
  <1>4. Live \subseteq Channel
    BY <1>1, ChannelFacts
  <1>5. Types'
    BY <1>2, <1>3 DEF Inv, Types, ChannelTypes
  <1>6. Entered' /\ Distinct'
    BY <1>2, <1>3, <1>4 DEF Inv, Entered, Distinct
  <1>7. Pointers' /\ Ahead' /\ Freeing'
    BY <1>2, <1>3 DEF Inv, Pointers, Ahead, Freeing
  <1>8. Leaving'
    BY <1>2, <1>3, <1>4 DEF Inv, Leaving
  <1> QED BY <1>5, <1>6, <1>7, <1>8 DEF Inv

\* A loop starts at the first channel, with all of them to look at.
LEMMA BeginKeeps ==
  ASSUME Inv, NEW name \in {"retrans", "part", "free"}, NEW gone,
         Begin(name, gone),
         gone # {} => name = "part",
         name = "free" => present' = {},
         \A c \in Live : name = "free" \/ ch[c].member \in present'
                                       \/ ch[c].member \in gone
  PROVE  Inv'
  <1>1. ChannelTypes
    BY DEF Inv, Types, ChannelTypes
  <1>2. /\ h' = h /\ ch' = ch /\ created' = created /\ todel' = todel
        /\ inside' = inside /\ loop = "none" /\ loop' = name
        /\ iter' = First(h) /\ leaving' = gone /\ owed' = Items(h)
    BY DEF Begin
  <1>3. Live' = Live /\ IdOf' = IdOf
    BY <1>2 DEF Live, IdOf
  <1>4. /\ todel = NULL /\ ~inside /\ Items(h) = Live
        /\ Live \in SUBSET Channel /\ Table(h, Live, IdOf)
    BY <1>1, <1>2, ChannelFacts DEF Inv, Pointers, Entered
  <1>5. \/ First(h) = NULL /\ Live = {}
        \/ First(h) \in Live /\ \A d \in Live : AtOrBehind(h, First(h), d)
    BY <1>1, <1>4, ChannelFacts, FirstFacts
  <1>6. NULL \notin Live
    BY <1>1, ChannelFacts
  <1>7. Types'
    BY <1>2 DEF Inv, Types
  <1>8. Entered' /\ Distinct'
    BY <1>2, <1>3, <1>4 DEF Inv, Entered, Distinct
  <1>9. Pointers'
    BY <1>2, <1>3, <1>4, <1>5 DEF Pointers
  <1>10. Ahead'
    BY <1>2, <1>4, <1>5, <1>6 DEF Ahead
  <1>11. Freeing'
    BY <1>2, <1>3, <1>4 DEF Freeing
  <1>12. Leaving'
    BY <1>2, <1>3, <1>4 DEF Leaving
  <1> QED BY <1>7, <1>8, <1>9, <1>10, <1>11, <1>12 DEF Inv

LEMMA StartKeeps ==
  ASSUME Inv, StartRetrans \/ StartFree \/ \E m \in Members : StartPart(m)
  PROVE  Inv'
  <1>1. loop = "none" => \A c \in Live : ch[c].member \in present
    BY DEF Inv, Leaving, Pointers
  <1>2. CASE StartRetrans
    <2>1. Begin("retrans", {}) /\ present' = present /\ loop = "none"
      BY <1>2 DEF StartRetrans, Begin
    <2> QED BY <1>1, <2>1, BeginKeeps
  <1>3. CASE StartFree
    <2>1. Begin("free", {}) /\ present' = {}
      BY <1>3 DEF StartFree
    <2> QED BY <2>1, BeginKeeps
  <1>4. CASE \E m \in Members : StartPart(m)
    <2>1. PICK m \in Members : StartPart(m)
      BY <1>4
    <2>2. Begin("part", {m}) /\ present' = present \ {m} /\ loop = "none"
      BY <2>1 DEF StartPart, Begin
    <2>3. \A c \in Live : ch[c].member \in present' \/ ch[c].member \in {m}
      BY <1>1, <2>2
    <2> QED BY <2>2, <2>3, BeginKeeps
  <1> QED BY <1>2, <1>3, <1>4

-----------------------------------------------------------------------------
(* The iterations *)

\* A freed channel structure.
LEMMA FreedFacts ==
  ASSUME ChannelTypes, NEW c \in Channel,
         ch' = [ch EXCEPT ![c].status = "freed"], created' = created,
         c \in Live
  PROVE  /\ ChannelTypes' /\ IdOf' = IdOf /\ Live' = Live \ {c}
         /\ \A d \in Channel : /\ ch'[d].id = ch[d].id
                               /\ ch'[d].member = ch[d].member
  <1>1. ch' \in [Channel -> [status : {"unused", "live", "freed"}, id : Nat,
                         closing : BOOLEAN, member : Members \cup {AnyMember}]]
    BY DEF ChannelTypes
  <1>2. \A d \in Channel : /\ ch'[d].id = ch[d].id
                           /\ ch'[d].member = ch[d].member
                           /\ d # c => ch'[d].status = ch[d].status
    BY DEF ChannelTypes
  <1>3. ch'[c].status = "freed" /\ ch[c].status = "live"
    BY DEF ChannelTypes, Live
  <1>4. IdOf' = IdOf
    BY <1>2 DEF IdOf
  <1>5. Live' = Live \ {c}
    BY <1>2, <1>3 DEF Live
  <1>6. ChannelTypes'
    BY <1>1, <1>2, <1>3 DEF ChannelTypes
  <1> QED BY <1>2, <1>4, <1>5, <1>6

\* The channel of the iteration before leaves the table and is freed; the
\* others keep their order.
LEMMA FreeTodelFacts ==
  ASSUME Inv, loop \in {"retrans", "part"}, FreeTodel, created' = created
  PROVE  /\ ChannelTypes' /\ IdOf' = IdOf /\ Live' = Live \ {todel}
         /\ Items(h') = Live' /\ Table(h', Live', IdOf) /\ Distinct'
         /\ owed \subseteq Live'
         /\ \A d, e \in Live' : AtOrBehind(h, d, e) => AtOrBehind(h', d, e)
         /\ \A d \in Channel : ch'[d].member = ch[d].member
  <1>1. ChannelTypes
    BY DEF Inv, Types, ChannelTypes
  <1>2. /\ Items(h) = Live /\ Table(h, Live, IdOf)
        /\ Live \in SUBSET Channel /\ IdOf \in [Channel -> Nat]
        /\ NULL \notin Channel
    BY <1>1, ChannelFacts DEF Inv, Entered
  <1>3. owed \subseteq Live \ {todel}
    BY <1>2 DEF Inv, Ahead, Pointers
  <1>4. /\ ChannelTypes' /\ IdOf' = IdOf /\ Live' = Live \ {todel}
        /\ \A d \in Channel : /\ ch'[d].id = ch[d].id
                              /\ ch'[d].member = ch[d].member
    <2>1. CASE todel = NULL
      <3>1. ch' = ch
        BY <2>1 DEF FreeTodel
      <3> QED BY <1>1, <1>2, <2>1, <3>1 DEF ChannelTypes, IdOf, Live
    <2>2. CASE todel # NULL
      <3>1. todel \in Live /\ ch' = [ch EXCEPT ![todel].status = "freed"]
        BY <2>2 DEF FreeTodel, Inv, Pointers
      <3> QED BY <1>1, <1>2, <3>1, FreedFacts
    <2> QED BY <2>1, <2>2
  <1>5. /\ Table(h', Live \ {todel}, IdOf)
        /\ \A d, e \in Live \ {todel} :
             AtOrBehind(h, d, e) => AtOrBehind(h', d, e)
    <2>1. CASE todel = NULL
      <3>1. h' = h /\ Live \ {todel} = Live
        BY <1>2, <2>1 DEF FreeTodel, WithoutTodel
      <3> QED BY <1>2, <3>1
    <2>2. CASE todel # NULL
      <3>1. todel \in Live /\ h' = Del(h, ch[todel].id)
        BY <2>2 DEF FreeTodel, WithoutTodel, Inv, Pointers
      <3>2. \A d \in Live : ch[d].id = ch[todel].id => d = todel
        BY <3>1 DEF Inv, Distinct
      <3> QED BY <1>2, <3>1, <3>2, DelFacts
    <2> QED BY <2>1, <2>2
  <1>6. Items(h') = Live'
    BY <1>2, <1>4, <1>5, ItemsFacts
  <1>7. Distinct'
    BY <1>2, <1>4 DEF Inv, Distinct
  <1> QED BY <1>3, <1>4, <1>5, <1>6, <1>7

\* An iteration that goes on behind the current channel.
LEMMA VisitFacts ==
  ASSUME Inv, Visit
  PROVE  LET n == NextItem(h', iter)
         IN  /\ iter \in Live'
             /\ \/ n = NULL /\ owed \ {iter} = {}
                \/ /\ n \in Live' /\ n # iter
                   /\ \A d \in owed \ {iter} : AtOrBehind(h', n, d)
  <1>1. ChannelTypes
    BY DEF Inv, Types, ChannelTypes
  <1>2. /\ IdOf \in [Channel -> Nat] /\ Live \in SUBSET Channel
        /\ loop \in {"retrans", "part"} /\ FreeTodel /\ created' = created
        /\ ~inside /\ iter # NULL
    BY <1>1, ChannelFacts DEF Visit
  <1>3. /\ Live' = Live \ {todel} /\ Table(h', Live', IdOf)
        /\ owed \subseteq Live'
        /\ \A d, e \in Live' : AtOrBehind(h, d, e) => AtOrBehind(h', d, e)
    BY <1>2, FreeTodelFacts
  <1>4. iter \in Live' /\ Live' \in SUBSET Channel
    BY <1>2, <1>3 DEF Inv, Pointers
  <1> DEFINE n == NextItem(h', iter)
  <1>5. \/ n = NULL /\ \A d \in Live' : AtOrBehind(h', iter, d) => d = iter
        \/ /\ n \in Live'
           /\ \A d \in Live' :
                AtOrBehind(h', n, d) <=> AtOrBehind(h', iter, d) /\ d # iter
    BY <1>2, <1>3, <1>4, NextFacts
  <1> HIDE DEF n
  <1>6. \A d \in owed : d \in Live' /\ AtOrBehind(h', iter, d)
    BY <1>3, <1>4 DEF Inv, Ahead
  <1>7. n \in Live' => AtOrBehind(h', n, n)
    <2> SUFFICES ASSUME n \in Live' PROVE AtOrBehind(h', n, n)
      OBVIOUS
    <2>1. PICK b \in Buckets : \E i \in 1 .. Len(h'[b]) : h'[b][i] = n
      BY <1>2, <1>3, <1>4, HasPlace
    <2>2. PICK i \in 1 .. Len(h'[b]) : h'[b][i] = n
      BY <2>1
    <2>3. b = b /\ i <= i
      BY <1>3 DEF Table
    <2> QED BY <2>2, <2>3 DEF AtOrBehind
  <1> QED BY <1>4, <1>5, <1>6, <1>7 DEF n

LEMMA GoOnKeeps ==
  ASSUME Inv, Visit, LookedAt, inside' = FALSE, iter' = NextItem(h', iter),
         todel' = iter \/ (todel' = NULL /\ ~OfLeaving(iter))
  PROVE  Inv'
  <1>1. /\ loop \in {"retrans", "part"} /\ FreeTodel /\ created' = created
        /\ present' = present /\ loop' = loop /\ leaving' = leaving
        /\ ~inside /\ iter # NULL /\ owed' = owed \ {iter}
    BY DEF Visit, LookedAt
  <1>2. /\ ChannelTypes' /\ IdOf' = IdOf /\ Live' = Live \ {todel}
        /\ Items(h') = Live' /\ Table(h', Live', IdOf) /\ Distinct'
        /\ owed \subseteq Live'
        /\ \A d \in Channel : ch'[d].member = ch[d].member
    BY <1>1, FreeTodelFacts
  <1>3. /\ iter \in Live'
        /\ \/ iter' = NULL /\ owed \ {iter} = {}
           \/ /\ iter' \in Live' /\ iter' # iter
              /\ \A d \in owed \ {iter} : AtOrBehind(h', iter', d)
    BY VisitFacts
  <1>4. Live \subseteq Channel /\ NULL \notin Channel
    BY ChannelFacts DEF Inv, Types, ChannelTypes
  <1>5. Types'
    <2>1. inside' \in BOOLEAN /\ loop' \in {"none", "retrans", "part", "free"}
      BY <1>1 DEF Inv, Types
    <2> QED BY <1>1, <1>2, <2>1 DEF Inv, Types, ChannelTypes
  <1>6. Entered'
    BY <1>2, <1>4 DEF Entered
  <1>7. Pointers'
    <2>1. todel' # NULL => todel' \in Live' \ owed'
      BY <1>1, <1>3
    <2>2. iter' # NULL => iter' \in Live' /\ iter' # todel'
      BY <1>3
    <2> QED BY <1>1, <2>1, <2>2 DEF Inv, Pointers
  <1>8. Ahead'
    BY <1>1, <1>2, <1>3, <1>4 DEF Ahead
  <1>9. Freeing'
    BY <1>1 DEF Freeing
  <1>10. Leaving'
    <2> SUFFICES ASSUME NEW d \in Live'
                 PROVE  \/ ch'[d].member \in present
                        \/ ch'[d].member \in leaving /\ (d \in owed' \/ d = todel')
      BY <1>1 DEF Leaving
    <2>1. d \in Live /\ d # todel /\ ch'[d].member = ch[d].member
      BY <1>2, <1>4
    <2>2. ch[d].member \in present \/ (ch[d].member \in leaving /\ d \in owed)
      BY <1>1, <2>1 DEF Inv, Leaving
    <2>3. d = iter /\ ch[d].member \in leaving => d = todel'
      BY DEF OfLeaving
    <2> QED BY <1>1, <2>1, <2>2, <2>3
  <1> QED BY <1>2, <1>5, <1>6, <1>7, <1>8, <1>9, <1>10 DEF Inv

\* The loop waits for the callback at a channel of the member that leaves.
LEMMA WaitKeeps ==
  ASSUME Inv, Visit, LookedAt, loop = "part", inside' = TRUE,
         iter' = iter, todel' = iter
  PROVE  Inv'
  <1>1. /\ loop \in {"retrans", "part"} /\ FreeTodel /\ created' = created
        /\ present' = present /\ loop' = loop /\ leaving' = leaving
        /\ ~inside /\ iter # NULL /\ owed' = owed \ {iter}
    BY DEF Visit, LookedAt
  <1>2. /\ ChannelTypes' /\ IdOf' = IdOf /\ Live' = Live \ {todel}
        /\ Items(h') = Live' /\ Table(h', Live', IdOf) /\ Distinct'
        /\ owed \subseteq Live'
        /\ \A d, e \in Live' : AtOrBehind(h, d, e) => AtOrBehind(h', d, e)
        /\ \A d \in Channel : ch'[d].member = ch[d].member
    BY <1>1, FreeTodelFacts
  <1>3. iter \in Live'
    BY VisitFacts
  <1>4. Live \subseteq Channel /\ NULL \notin Channel
    BY ChannelFacts DEF Inv, Types, ChannelTypes
  <1>5. Types'
    BY <1>1, <1>2 DEF Inv, Types, ChannelTypes
  <1>6. Entered'
    BY <1>2, <1>4 DEF Entered
  <1>7. Pointers'
    BY <1>1, <1>3 DEF Inv, Pointers
  <1>8. Ahead'
    <2> SUFFICES ASSUME NEW d \in owed'
                 PROVE  d \in Items(h') /\ AtOrBehind(h', iter, d)
      BY <1>1 DEF Ahead
    <2>1. d \in owed /\ d \in Live'
      BY <1>1, <1>2
    <2>2. AtOrBehind(h, iter, d)
      BY <2>1 DEF Inv, Ahead
    <2> QED BY <1>2, <1>3, <2>1, <2>2
  <1>9. Freeing'
    BY <1>1 DEF Freeing
  <1>10. Leaving'
    <2> SUFFICES ASSUME NEW d \in Live'
                 PROVE  \/ ch'[d].member \in present
                        \/ ch'[d].member \in leaving /\ (d \in owed' \/ d = todel')
      BY <1>1 DEF Leaving
    <2>1. d \in Live /\ d # todel /\ ch'[d].member = ch[d].member
      BY <1>2, <1>4
    <2>2. ch[d].member \in present \/ (ch[d].member \in leaving /\ d \in owed)
      BY <1>1, <2>1 DEF Inv, Leaving
    <2> QED BY <1>1, <2>1, <2>2
  <1> QED BY <1>2, <1>5, <1>6, <1>7, <1>8, <1>9, <1>10 DEF Inv

LEMMA TimesOutKeeps ==
  ASSUME Inv, TimesOut
  PROVE  Inv'
  <1>1. /\ Visit /\ loop = "retrans" /\ FreeTodel /\ created' = created
        /\ present' = present /\ loop' = loop /\ leaving' = leaving
        /\ ~inside /\ iter # NULL /\ owed' = {} /\ iter' = NULL /\ todel' = iter
        /\ inside' = ~ch[iter].closing
    BY DEF TimesOut, Visit
  <1>2. /\ ChannelTypes' /\ IdOf' = IdOf /\ Live' = Live \ {todel}
        /\ Items(h') = Live' /\ Table(h', Live', IdOf) /\ Distinct'
        /\ \A d \in Channel : ch'[d].member = ch[d].member
    BY <1>1, FreeTodelFacts
  <1>3. iter \in Live'
    BY <1>1, VisitFacts
  <1>4. Live \subseteq Channel /\ NULL \notin Channel
    BY ChannelFacts DEF Inv, Types, ChannelTypes
  <1>5. Types'
    <2>1. inside' \in BOOLEAN
      BY <1>1
    <2> QED BY <1>1, <1>2, <2>1 DEF Inv, Types, ChannelTypes
  <1>6. Entered'
    BY <1>2, <1>4 DEF Entered
  <1>7. Pointers'
    BY <1>1, <1>3 DEF Inv, Pointers
  <1>8. Ahead' /\ Freeing'
    BY <1>1 DEF Ahead, Freeing
  <1>9. Leaving'
    <2> SUFFICES ASSUME NEW d \in Live' PROVE ch'[d].member \in present
      BY <1>1 DEF Leaving
    <2>1. d \in Live /\ ch'[d].member = ch[d].member
      BY <1>2, <1>4
    <2>2. leaving = {}
      BY <1>1 DEF Inv, Pointers
    <2> QED BY <1>1, <2>1, <2>2 DEF Inv, Leaving
  <1> QED BY <1>2, <1>5, <1>6, <1>7, <1>8, <1>9 DEF Inv

LEMMA EndLoopKeeps ==
  ASSUME Inv, EndLoop
  PROVE  Inv'
  <1>1. /\ loop \in {"retrans", "part"} /\ FreeTodel /\ created' = created
        /\ present' = present /\ loop' = "none" /\ leaving' = {}
        /\ iter = NULL /\ iter' = NULL /\ todel' = NULL
        /\ ~inside /\ inside' = inside /\ owed' = owed
    BY DEF EndLoop
  <1>2. /\ ChannelTypes' /\ IdOf' = IdOf /\ Live' = Live \ {todel}
        /\ Items(h') = Live' /\ Table(h', Live', IdOf) /\ Distinct'
        /\ \A d \in Channel : ch'[d].member = ch[d].member
    BY <1>1, FreeTodelFacts
  <1>3. Live \subseteq Channel
    BY ChannelFacts DEF Inv, Types, ChannelTypes
  <1>4. owed = {}
    BY <1>1 DEF Inv, Ahead
  <1>5. Types'
    BY <1>1, <1>2 DEF Inv, Types, ChannelTypes
  <1>6. Entered'
    BY <1>2, <1>3 DEF Entered
  <1>7. Pointers' /\ Ahead' /\ Freeing'
    BY <1>1, <1>4 DEF Pointers, Ahead, Freeing
  <1>8. Leaving'
    <2> SUFFICES ASSUME NEW d \in Live' PROVE ch'[d].member \in present
      BY <1>1 DEF Leaving
    <2>1. d \in Live /\ d # todel /\ ch'[d].member = ch[d].member
      BY <1>2, <1>3
    <2> QED BY <1>1, <1>4, <2>1 DEF Inv, Leaving
  <1> QED BY <1>2, <1>5, <1>6, <1>7, <1>8 DEF Inv

-----------------------------------------------------------------------------
(* ghl_free_room *)

LEMMA AnnounceKeeps ==
  ASSUME Inv, Announce
  PROVE  Inv'
  <1>1. /\ loop = "free" /\ iter # NULL /\ inside' = TRUE
        /\ ch' = [ch EXCEPT ![iter].closing = TRUE]
        /\ h' = h /\ created' = created /\ present' = present /\ loop' = loop
        /\ iter' = iter /\ todel' = todel /\ leaving' = leaving /\ owed' = owed
    BY DEF Announce
  <1>2. ChannelTypes
    BY DEF Inv, Types, ChannelTypes
  <1>3. iter \in Channel
    BY <1>1, <1>2, ChannelFacts DEF Inv, Pointers
  <1>4. /\ ChannelTypes' /\ IdOf' = IdOf /\ Live' = Live
        /\ \A d \in Channel : /\ ch'[d].id = ch[d].id
                              /\ ch'[d].member = ch[d].member
    BY <1>1, <1>2, <1>3, MarkKeeps
  <1>5. Live \subseteq Channel
    BY <1>2, ChannelFacts
  <1>6. Types'
    BY <1>1, <1>4 DEF Inv, Types, ChannelTypes
  <1>7. Entered' /\ Distinct'
    BY <1>1, <1>4, <1>5 DEF Inv, Entered, Distinct
  <1>8. Pointers' /\ Ahead' /\ Freeing' /\ Leaving'
    BY <1>1, <1>4 DEF Inv, Pointers, Ahead, Freeing, Leaving
  <1> QED BY <1>6, <1>7, <1>8 DEF Inv

LEMMA DiscardKeeps ==
  ASSUME Inv, Discard
  PROVE  Inv'
  <1>1. /\ loop = "free" /\ iter # NULL /\ ~inside /\ owed' = owed \ {iter}
        /\ ch' = [ch EXCEPT ![iter].status = "freed"]
        /\ iter' = NextItem(h, iter)
        /\ h' = h /\ created' = created /\ present' = present /\ loop' = loop
        /\ todel' = todel /\ inside' = inside /\ leaving' = leaving
    BY DEF Discard, LookedAt
  <1>2. ChannelTypes
    BY DEF Inv, Types, ChannelTypes
  <1>3. /\ iter \in Live /\ iter \in Channel /\ Live = owed /\ present = {}
        /\ todel = NULL /\ leaving = {}
    BY <1>1, <1>2, ChannelFacts DEF Inv, Pointers, Freeing
  <1>4. /\ ChannelTypes' /\ IdOf' = IdOf /\ Live' = Live \ {iter}
        /\ \A d \in Channel : /\ ch'[d].id = ch[d].id
                              /\ ch'[d].member = ch[d].member
    BY <1>1, <1>2, <1>3, FreedFacts
  <1>5. /\ Live \subseteq Channel /\ IdOf \in [Channel -> Nat]
        /\ NULL \notin Channel
    BY <1>2, ChannelFacts
  <1>6. /\ Items(h) \in SUBSET Channel /\ Table(h, Items(h), IdOf)
        /\ owed \subseteq Items(h) /\ iter \in Items(h)
    BY <1>3 DEF Inv, Entered, Ahead
  <1> DEFINE n == NextItem(h, iter)
  <1>7. \/ n = NULL /\ \A d \in Items(h) : AtOrBehind(h, iter, d) => d = iter
        \/ /\ n \in Items(h)
           /\ \A d \in Items(h) :
                AtOrBehind(h, n, d) <=> AtOrBehind(h, iter, d) /\ d # iter
    BY <1>5, <1>6, NextFacts
  <1> HIDE DEF n
  <1>8. n = iter'
    BY <1>1 DEF n
  <1>9. /\ \A d \in owed : AtOrBehind(h, iter, d)
        /\ \A d \in Items(h) : AtOrBehind(h, iter, d) => d \in owed
    BY <1>1 DEF Inv, Ahead, Freeing
  <1>10. \/ n = NULL /\ owed' = {}
         \/ /\ n \in owed' /\ n \in Live'
            /\ \A d \in Items(h) : AtOrBehind(h, n, d) <=> d \in owed'
    <2>1. CASE n = NULL /\ \A d \in Items(h) : AtOrBehind(h, iter, d) => d = iter
      BY <1>1, <1>6, <1>9, <2>1
    <2>2. CASE /\ n \in Items(h)
               /\ \A d \in Items(h) :
                    AtOrBehind(h, n, d) <=> AtOrBehind(h, iter, d) /\ d # iter
      <3>1. \A d \in Items(h) : AtOrBehind(h, n, d) <=> d \in owed'
        BY <1>1, <1>6, <1>9, <2>2
      <3>2. AtOrBehind(h, n, n)
        <4>1. PICK b \in Buckets : \E i \in 1 .. Len(h[b]) : h[b][i] = n
          BY <1>5, <1>6, <2>2, HasPlace
        <4>2. PICK i \in 1 .. Len(h[b]) : h[b][i] = n
          BY <4>1
        <4>3. b = b /\ i <= i
          BY <1>6 DEF Table
        <4> QED BY <4>2, <4>3 DEF AtOrBehind
      <3>3. n \in owed' /\ n \in Live'
        BY <1>1, <1>3, <1>4, <2>2, <3>1, <3>2
      <3> QED BY <3>1, <3>3
    <2> QED BY <1>7, <2>1, <2>2
  <1>11. Types'
    BY <1>1, <1>4 DEF Inv, Types, ChannelTypes
  <1>12. Entered'
    BY <1>1, <1>4, <1>6 DEF Entered
  <1>13. Distinct'
    BY <1>4, <1>5 DEF Inv, Distinct
  <1>14. Pointers'
    BY <1>1, <1>3, <1>8, <1>10 DEF Pointers
  <1>15. Ahead'
    <2>1. owed' \subseteq Items(h')
      BY <1>1, <1>6
    <2>2. \A d \in owed' : iter' # NULL /\ AtOrBehind(h', iter', d)
      BY <1>1, <1>4, <1>5, <1>6, <1>8, <1>10
    <2> QED BY <2>1, <2>2 DEF Ahead
  <1>16. Freeing'
    <2>1. present' = {} /\ Live' = owed'
      BY <1>1, <1>3, <1>4
    <2>2. iter' # NULL => \A d \in Items(h') : AtOrBehind(h', iter', d) => d \in owed'
      BY <1>1, <1>8, <1>10
    <2> QED BY <2>1, <2>2 DEF Freeing
  <1>17. Leaving'
    BY <1>1 DEF Leaving
  <1> QED BY <1>11, <1>12, <1>13, <1>14, <1>15, <1>16, <1>17 DEF Inv

LEMMA EndFreeKeeps ==
  ASSUME Inv, EndFree
  PROVE  Inv'
  <1>1. /\ loop = "free" /\ ~inside /\ iter = NULL /\ loop' = "none"
        /\ h' = [b \in DOMAIN h |-> << >>]
        /\ ch' = ch /\ created' = created /\ present' = present
        /\ iter' = iter /\ todel' = todel /\ inside' = inside
        /\ leaving' = leaving /\ owed' = owed
    BY DEF EndFree
  <1>2. ChannelTypes
    BY DEF Inv, Types, ChannelTypes
  <1>3. Live' = Live /\ IdOf' = IdOf
    BY <1>1 DEF Live, IdOf
  <1>4. Live = {} /\ owed = {} /\ todel = NULL /\ leaving = {}
    BY <1>1 DEF Inv, Freeing, Ahead, Pointers
  <1>5. Table(h', {}, IdOf)
    <2>1. DOMAIN h = Buckets
      BY DEF Inv, Entered, Table
    <2>2. h' \in [Buckets -> Seq(Channel)] /\ \A b \in Buckets : Len(h'[b]) = 0
      BY <1>1, <2>1
    <2> QED BY <2>2 DEF Table
  <1>6. Items(h') = {}
    <2>1. {} \in SUBSET Channel
      OBVIOUS
    <2> QED BY <1>2, <1>5, <2>1, ChannelFacts, ItemsFacts
  <1>7. Types'
    BY <1>1 DEF Inv, Types
  <1>8. Entered' /\ Distinct'
    BY <1>3, <1>4, <1>5, <1>6 DEF Entered, Distinct
  <1>9. Pointers' /\ Ahead' /\ Freeing' /\ Leaving'
    BY <1>1, <1>3, <1>4 DEF Pointers, Ahead, Freeing, Leaving
  <1> QED BY <1>7, <1>8, <1>9 DEF Inv

-----------------------------------------------------------------------------
\* The PART loop goes on behind the channel it waited at, past what the
\* application has opened meanwhile.
LEMMA ReturnKeeps ==
  ASSUME Inv, Return
  PROVE  Inv'
  <1>1. /\ inside /\ inside' = FALSE
        /\ loop = "part" => iter' = NextItem(h, iter)
        /\ loop = "free" => iter' = iter
        /\ loop = "retrans" => iter' = NULL
        /\ h' = h /\ ch' = ch /\ created' = created /\ present' = present
        /\ loop' = loop /\ todel' = todel /\ leaving' = leaving /\ owed' = owed
    BY DEF Return
  <1>2. ChannelTypes
    BY DEF Inv, Types, ChannelTypes
  <1>3. Live' = Live /\ IdOf' = IdOf
    BY <1>1 DEF Live, IdOf
  <1>4. loop \in {"retrans", "part", "free"}
    BY <1>1 DEF Inv, Types, Pointers
  <1>5. Types'
    BY <1>1 DEF Inv, Types
  <1>6. Entered' /\ Distinct' /\ Leaving'
    BY <1>1, <1>3 DEF Inv, Entered, Distinct, Leaving
  <1>7. CASE loop = "part"
    <2>1. /\ Live \in SUBSET Channel /\ IdOf \in [Channel -> Nat]
          /\ Table(h, Live, IdOf) /\ Items(h) = Live
      BY <1>2, <1>7, ChannelFacts DEF Inv, Entered
    <2>2. iter = todel /\ iter \in Live /\ iter \notin owed
      BY <1>1, <1>7 DEF Inv, Pointers
    <2> DEFINE n == NextItem(h, iter)
    <2>3. \/ n = NULL /\ \A d \in Live : AtOrBehind(h, iter, d) => d = iter
          \/ /\ n \in Live
             /\ \A d \in Live :
                  AtOrBehind(h, n, d) <=> AtOrBehind(h, iter, d) /\ d # iter
      BY <2>1, <2>2, NextFacts
    <2> HIDE DEF n
    <2>4. iter' = n
      BY <1>1, <1>7 DEF n
    <2>5. \A d \in owed : d \in Live /\ d # iter /\ AtOrBehind(h, iter, d)
      BY <2>1, <2>2 DEF Inv, Ahead
    <2>6. n # iter
      <3>1. ASSUME n \in Live PROVE AtOrBehind(h, n, n)
        <4>1. PICK b \in Buckets : \E i \in 1 .. Len(h[b]) : h[b][i] = n
          BY <2>1, <3>1, HasPlace
        <4>2. PICK i \in 1 .. Len(h[b]) : h[b][i] = n
          BY <4>1
        <4>3. b = b /\ i <= i
          BY <2>1 DEF Table
        <4> QED BY <4>2, <4>3 DEF AtOrBehind
      <3>2. iter # NULL
        BY <1>2, <2>2, ChannelFacts
      <3> QED BY <2>3, <3>1, <3>2
    <2>7. Pointers'
      <3>1. iter' # NULL => iter' \in Live /\ iter' # todel
        BY <2>2, <2>3, <2>4, <2>6
      <3> QED BY <1>1, <1>3, <1>7, <3>1 DEF Inv, Pointers
    <2>8. Ahead'
      <3>1. \A d \in owed : n # NULL /\ AtOrBehind(h, n, d)
        <4>1. NULL \notin Live
          BY <1>2, ChannelFacts
        <4> QED BY <2>3, <2>5, <4>1
      <3>2. owed \subseteq Items(h)
        BY DEF Inv, Ahead
      <3> QED BY <1>1, <2>4, <3>1, <3>2 DEF Ahead
    <2>9. Freeing'
      BY <1>1, <1>7 DEF Freeing
    <2> QED BY <1>5, <1>6, <2>7, <2>8, <2>9 DEF Inv
  <1>8. CASE loop = "free"
    <2>1. Pointers'
      BY <1>1, <1>3, <1>8 DEF Inv, Pointers
    <2>2. Ahead' /\ Freeing'
      BY <1>1, <1>3, <1>8 DEF Inv, Ahead, Freeing
    <2> QED BY <1>5, <1>6, <2>1, <2>2 DEF Inv
  <1>9. CASE loop = "retrans"
    <2>1. iter = NULL
      BY <1>1, <1>9 DEF Inv, Pointers
    <2>2. Pointers' /\ Ahead' /\ Freeing'
      BY <1>1, <1>3, <1>9, <2>1 DEF Inv, Pointers, Ahead, Freeing
    <2> QED BY <1>5, <1>6, <2>2 DEF Inv
  <1> QED BY <1>4, <1>7, <1>8, <1>9

LEMMA NextKeeps ==
  ASSUME Inv, [Next]_vars
  PROVE  Inv'
  <1>1. ASSUME NEW id \in Ids, NEW m \in Members, Open(id, m) PROVE Inv'
    BY <1>1, OpenKeeps
  <1>2. ASSUME NEW c \in Channel, Close(c) PROVE Inv'
    BY <1>2, CloseKeeps
  <1>3. CASE StartRetrans \/ StartFree \/ \E m \in Members : StartPart(m)
    BY <1>3, StartKeeps
  <1>4. CASE Pass
    <2>1. /\ Visit /\ LookedAt /\ iter' = NextItem(h', iter)
          /\ todel' = NULL /\ ~OfLeaving(iter) /\ inside' = inside
      BY <1>4 DEF Pass
    <2>2. inside' = FALSE
      BY <2>1 DEF Visit, Inv, Types
    <2> QED BY <2>1, <2>2, GoOnKeeps
  <1>5. CASE Closed
    <2>1. /\ Visit /\ LookedAt /\ iter' = NextItem(h', iter)
          /\ todel' = iter /\ inside' = inside
      BY <1>5 DEF Closed
    <2>2. inside' = FALSE
      BY <2>1 DEF Visit, Inv, Types
    <2> QED BY <2>1, <2>2, GoOnKeeps
  <1>6. CASE TimesOut
    BY <1>6, TimesOutKeeps
  <1>7. CASE Leaves
    <2>1. /\ Visit /\ LookedAt /\ loop = "part" /\ todel' = iter
          /\ inside' = ~ch[iter].closing
          /\ iter' = IF inside' THEN iter ELSE NextItem(h', iter)
      BY <1>7 DEF Leaves
    <2>2. CASE inside'
      <3>1. inside' = TRUE
        BY <2>1, <2>2
      <3> QED BY <2>1, <2>2, <3>1, WaitKeeps
    <2>3. CASE ~inside'
      <3>1. inside' = FALSE
        BY <2>1, <2>3
      <3> QED BY <2>1, <2>3, <3>1, GoOnKeeps
    <2> QED BY <2>2, <2>3
  <1>8. CASE EndLoop
    BY <1>8, EndLoopKeeps
  <1>9. CASE Announce
    BY <1>9, AnnounceKeeps
  <1>10. CASE Discard
    BY <1>10, DiscardKeeps
  <1>11. CASE EndFree
    BY <1>11, EndFreeKeeps
  <1>12. CASE Return
    BY <1>12, ReturnKeeps
  <1>13. CASE UNCHANGED vars
    BY <1>13 DEF vars, loopVars, Inv, Types, Entered, Distinct, Pointers,
                 Ahead, Freeing, Leaving, Live, IdOf
  <1> QED BY <1>1, <1>2, <1>3, <1>4, <1>5, <1>6, <1>7, <1>8, <1>9, <1>10,
             <1>11, <1>12, <1>13 DEF Next, LoopStep

-----------------------------------------------------------------------------
(* Theorems *)

\* What the proofs below rest on: where the items are, where the pointers of
\* a loop may stand, and what a loop has left to do, in every state.
THEOREM Invariance == Spec => []Inv
  <1>1. Init => Inv
    BY InitKeeps
  <1>2. Inv /\ [Next]_vars => Inv'
    BY NextKeeps
  <1> QED BY <1>1, <1>2, PTL DEF Spec

\* Between the loops and in their callbacks the table holds exactly the live
\* channels, each once, and ihash_get finds each by its ID.
THEOREM TableHoldsTheLive == Spec => []TableIsExact
  <1>1. Inv => TableIsExact
    <2> SUFFICES ASSUME Inv, loop # "free" PROVE
            /\ Items(h) = Live
            /\ \A b, d \in DOMAIN h : \A i \in DOMAIN h[b], j \in DOMAIN h[d] :
                 h[b][i] = h[d][j] => b = d /\ i = j
            /\ \A c \in Live : Get(h, ch[c].id) = c
      BY DEF TableIsExact
    <2>1. ChannelTypes
      BY DEF Inv, Types, ChannelTypes
    <2>2. /\ Items(h) = Live /\ Table(h, Live, IdOf)
          /\ Live \in SUBSET Channel /\ IdOf \in [Channel -> Nat]
      BY <2>1, ChannelFacts DEF Inv, Entered
    <2>3. /\ DOMAIN h = Buckets
          /\ \A b \in Buckets : DOMAIN h[b] = 1 .. Len(h[b])
      BY <2>2 DEF Table
    <2>4. \A b, d \in DOMAIN h : \A i \in DOMAIN h[b], j \in DOMAIN h[d] :
            h[b][i] = h[d][j] => b = d /\ i = j
      BY <2>2, <2>3, PlaceIsUnique
    <2>5. ASSUME NEW c \in Live PROVE Get(h, ch[c].id) = c
      <3> DEFINE chain == h[Bucket(ch[c].id)]
                 pos == SelectInSeq(chain, LAMBDA d : ch[d].id = ch[c].id)
      <3>1. \A d \in Live : ch[d].id = ch[c].id => d = c
        BY DEF Inv, Distinct
      <3>2. pos \in 1 .. Len(chain) /\ chain[pos] = c
        BY <2>2, <3>1, FoundById
      <3>3. Get(h, ch[c].id) = IF pos = 0 THEN NULL ELSE chain[pos]
        BY DEF Get
      <3> HIDE DEF chain, pos
      <3> QED BY <3>2, <3>3
    <2> QED BY <2>2, <2>4, <2>5
  <1> QED BY <1>1, Invariance, PTL

\* The loops stand on live channels only, and free no channel twice.
THEOREM PointersAreLive == Spec => []IteratorIsValid
  <1>1. Inv => IteratorIsValid
    BY DEF Inv, Pointers, IteratorIsValid
  <1> QED BY <1>1, Invariance, PTL

\* No channel outlives its member, outside of the loop that frees it.
THEOREM ChannelsHaveMembers == Spec => []NoneOfAbsent
  <1>1. Inv => NoneOfAbsent
    BY DEF Inv, Leaving, Pointers, NoneOfAbsent
  <1> QED BY <1>1, Invariance, PTL

\* A loop at the end of the table has looked at all it started with, however
\* many channels it freed and the application opened.
THEOREM NoneIsSkipped == Spec => []LoopVisitsAll
  <1>1. Inv => LoopVisitsAll
    BY DEF Inv, Ahead, LoopVisitsAll
  <1> QED BY <1>1, Invariance, PTL
=============================================================================
