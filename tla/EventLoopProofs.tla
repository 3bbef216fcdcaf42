-------------------------- MODULE EventLoopProofs --------------------------
(***************************************************************************)
(* Proofs about module EventLoop, for all intervals and every number of    *)
(* joins and lookup replies: the steps of the loop are steps of module     *)
(* Session, the list of timers is what it should be, and select does not   *)
(* sleep longer than the most frequent timer makes it.                     *)
(***************************************************************************)
EXTENDS EventLoop, SessionProofs, FiniteSetTheorems

USE IntervalsAssumption, TicksAssumption

-----------------------------------------------------------------------------
(* Ordered lists of timers *)

Entries == [timer : AllTimers, left : Nat]

Sorted(l) ==
  \A i, j \in 1 .. Len(l) : i < j =>
    l[i].timer # l[j].timer /\ l[i].left <= l[j].left

\* No timer has more time left than when it was created.
Bounded(l) == \A i \in 1 .. Len(l) : l[i].left <= Interval(l[i].timer)

Good(l) == l \in Seq(Entries) /\ Sorted(l) /\ Bounded(l)

\* A set of natural numbers has a smallest element: induction on the length
\* of a sequence looks at the first place where a formula fails.
LEMMA Smallest ==
  ASSUME NEW T \in SUBSET Nat, T # {}
  PROVE  \E m \in T : \A y \in T : m <= y
  <1> DEFINE R == StrictSubsetOrdering(Nat)
             S == FiniteSubsetsOf(Nat)
             U == {1 .. n : n \in T}
  <1>1. U \subseteq S
    <2>1. \A n \in T : 1 .. n \in SUBSET Nat /\ IsFiniteSet(1 .. n)
      BY FS_Interval
    <2> QED BY <2>1 DEF FiniteSubsetsOf
  <1>2. U # {} /\ IsWellFoundedOn(R, S)
    BY FS_StrictSubsetOrderingWellFounded
  <1>3. PICK x \in U : \A y \in U : ~ (<<y, x>> \in R)
    <2> HIDE DEF R, S, U
    <2> QED BY <1>1, <1>2, WFMin
  <1>4. PICK m \in T : x = 1 .. m
    OBVIOUS
  <1>5. ASSUME NEW y \in T, y < m PROVE FALSE
    <2>1. 1 .. y \subseteq 1 .. m /\ m \in 1 .. m /\ m \notin 1 .. y
      BY <1>5
    <2>2. <<1 .. y, 1 .. m>> \in R
      BY <2>1 DEF StrictSubsetOrdering
    <2> QED BY <1>3, <1>4, <2>2
  <1> QED BY <1>5

LEMMA IntervalIsNat ==
  ASSUME NEW t \in AllTimers
  PROVE  Interval(t) \in Nat
  <1>1. t.fun \in Funs
    BY DEF AllTimers
  <1>2. /\ HelloInterval \in Nat /\ RetransCheck \in Nat
        /\ RoominfoInterval \in Nat /\ ServconnLimit \in Nat
        /\ JoinLimit \in Nat
    BY DEF Intervals
  <1>3. CASE t.fun = "do_hello"
    BY <1>2, <1>3 DEF Interval
  <1>4. CASE t.fun = "do_conn_retrans"
    BY <1>2, <1>4 DEF Interval
  <1>5. CASE t.fun = "do_roominfo_query"
    BY <1>2, <1>5 DEF Interval
  <1>6. CASE t.fun = "handle_servconn_timeout"
    BY <1>2, <1>6 DEF Interval
  <1>7. CASE t.fun = "handle_room_join_timeout"
    BY <1>2, <1>7 DEF Interval
  <1> QED BY <1>1, <1>3, <1>4, <1>5, <1>6, <1>7 DEF Funs

LEMMA TimersOfFacts ==
  ASSUME NEW l \in Seq(Entries)
  PROVE  /\ TimersOf(l) = {l[i].timer : i \in 1 .. Len(l)}
         /\ TimersOf(l) \subseteq AllTimers
  <1>1. DOMAIN l = 1 .. Len(l)
    OBVIOUS
  <1>2. TimersOf(l) = {l[i].timer : i \in 1 .. Len(l)}
    BY <1>1 DEF TimersOf, ToSet
  <1>3. \A i \in 1 .. Len(l) : l[i] \in Entries
    OBVIOUS
  <1>4. \A i \in 1 .. Len(l) : l[i].timer \in AllTimers
    BY <1>3 DEF Entries
  <1> QED BY <1>2, <1>4

\* Which timers are at the place of which others says enough of an ordered
\* list: it is ordered again when an entry is added behind all the others.
LEMMA SortedAppend ==
  ASSUME NEW l \in Seq(Entries), Sorted(l), NEW e \in Entries,
         \A k \in 1 .. Len(l) : l[k].timer # e.timer /\ l[k].left <= e.left
  PROVE  Append(l, e) \in Seq(Entries) /\ Sorted(Append(l, e))
  <1> DEFINE m == Append(l, e)
  <1>1. /\ m \in Seq(Entries) /\ Len(m) = Len(l) + 1 /\ m[Len(l) + 1] = e
        /\ \A k \in 1 .. Len(l) : m[k] = l[k]
    OBVIOUS
  <1>2. Len(l) \in Nat
    OBVIOUS
  <1> HIDE DEF m
  <1>3. ASSUME NEW i \in 1 .. Len(m), NEW j \in 1 .. Len(m), i < j
        PROVE  m[i].timer # m[j].timer /\ m[i].left <= m[j].left
    <2>1. i \in 1 .. Len(l) /\ m[i] = l[i]
      BY <1>1, <1>2, <1>3
    <2>2. CASE j = Len(l) + 1
      BY <1>1, <2>1, <2>2
    <2>3. CASE j # Len(l) + 1
      <3>1. j \in 1 .. Len(l) /\ m[j] = l[j]
        BY <1>1, <1>2, <2>3
      <3> QED BY <1>3, <2>1, <3>1 DEF Sorted
    <2> QED BY <2>2, <2>3
  <1> QED BY <1>1, <1>3 DEF Sorted, m

\* f gives what Only keeps of the first entries of l, up to entry n.
KeptTable(l, ts, n, f) ==
  f = [i \in 0 .. n |->
         IF i = 0 THEN << >>
         ELSE IF l[i].timer \in ts THEN Append(f[i - 1], l[i])
         ELSE f[i - 1]]

\* The recursion of Only has a solution.
LEMMA KeptExists ==
  ASSUME NEW l, NEW ts, NEW n \in Nat
  PROVE  \E f : KeptTable(l, ts, n, f)
  <1> DEFINE T == {m \in Nat : ~ \E f : KeptTable(l, ts, m, f)}
  <1>1. SUFFICES ASSUME T # {} PROVE FALSE
    OBVIOUS
  <1>2. PICK m \in T : \A y \in T : m <= y
    <2>1. T \in SUBSET Nat
      OBVIOUS
    <2> HIDE DEF T
    <2> QED BY <1>1, <2>1, Smallest
  <1>3. CASE m = 0
    <2> DEFINE f == [i \in 0 .. 0 |-> << >>]
    <2>1. KeptTable(l, ts, 0, f)
      BY DEF KeptTable
    <2> QED BY <1>3, <2>1
  <1>4. CASE m # 0
    <2>1. m - 1 \in Nat /\ m - 1 \notin T
      BY <1>2, <1>4
    <2>2. PICK g : KeptTable(l, ts, m - 1, g)
      BY <2>1
    <2> DEFINE last == IF l[m].timer \in ts THEN Append(g[m - 1], l[m])
                                            ELSE g[m - 1]
               h == [i \in 0 .. m |-> IF i = m THEN last ELSE g[i]]
    <2>3. ASSUME NEW i \in 0 .. m
          PROVE  h[i] = IF i = 0 THEN << >>
                        ELSE IF l[i].timer \in ts THEN Append(h[i - 1], l[i])
                        ELSE h[i - 1]
      <3>1. CASE i = m
        <4>1. h[i] = last /\ h[i - 1] = g[m - 1]
          BY <1>4, <2>1, <3>1
        <4> HIDE DEF h
        <4> QED BY <1>4, <3>1, <4>1
      <3>2. CASE i # m
        <4>1. i \in 0 .. m - 1 /\ (i # 0 => i - 1 \in 0 .. m /\ i - 1 # m)
          BY <2>1, <3>2
        <4>2. h[i] = g[i] /\ (i # 0 => h[i - 1] = g[i - 1])
          BY <3>2, <4>1
        <4>3. g[i] = IF i = 0 THEN << >>
                     ELSE IF l[i].timer \in ts THEN Append(g[i - 1], l[i])
                     ELSE g[i - 1]
          BY <2>2, <4>1 DEF KeptTable
        <4> HIDE DEF h
        <4> QED BY <4>2, <4>3
      <3> QED BY <3>1, <3>2
    <2>4. KeptTable(l, ts, m, h)
      <3>1. h = [i \in 0 .. m |-> h[i]]
        OBVIOUS
      <3> HIDE DEF h
      <3> QED BY <2>3, <3>1 DEF KeptTable
    <2> HIDE DEF h
    <2> QED BY <1>2, <2>4
  <1> QED BY <1>3, <1>4

\* Only keeps the order, and exactly the entries of the given timers.
LEMMA OnlyFacts ==
  ASSUME NEW l, Good(l), NEW ts
  PROVE  Good(Only(l, ts)) /\ TimersOf(Only(l, ts)) = TimersOf(l) \cap ts
  <1> DEFINE n == Len(l)
             f == CHOOSE g : KeptTable(l, ts, n, g)
             Fine(i) ==
               /\ f[i] \in Seq(Entries) /\ Sorted(f[i])
               /\ \A k \in 1 .. Len(f[i]) :
                    \E j \in 1 .. i : f[i][k] = l[j] /\ l[j].timer \in ts
               /\ \A j \in 1 .. i : l[j].timer \in ts =>
                    \E k \in 1 .. Len(f[i]) : f[i][k] = l[j]
             T == {i \in 0 .. n : ~Fine(i)}
  <1>1. Only(l, ts) = f[n]
    BY DEF Only, KeptTable
  <1>2. n \in Nat /\ l \in Seq(Entries) /\ \A i \in 1 .. n : l[i] \in Entries
    BY DEF Good
  <1> HIDE DEF n
  <1>3. KeptTable(l, ts, n, f)
    <2>1. \E g : KeptTable(l, ts, n, g)
      BY <1>2, KeptExists
    <2> QED BY <2>1
  <1> HIDE DEF f
  <1>4. \A i \in 0 .. n :
          f[i] = IF i = 0 THEN << >>
                 ELSE IF l[i].timer \in ts THEN Append(f[i - 1], l[i])
                 ELSE f[i - 1]
    BY <1>3 DEF KeptTable
  <1>5. T = {}
    <2> SUFFICES ASSUME T # {} PROVE FALSE
      OBVIOUS
    <2>1. PICK m \in T : \A y \in T : m <= y
      <3>1. T \in SUBSET Nat
        OBVIOUS
      <3> HIDE DEF T
      <3> QED BY <3>1, Smallest
    <2>2. m # 0
      <3> SUFFICES ASSUME m = 0 PROVE FALSE
        OBVIOUS
      <3>1. f[0] = << >> /\ f[0] \in Seq(Entries) /\ Len(f[0]) = 0
        <4>1. f[0] = << >>
          BY <1>2, <1>4
        <4> QED BY <4>1
      <3>2. Fine(0)
        BY <3>1 DEF Sorted
      <3> QED BY <2>1, <3>2
    <2>3. m \in 1 .. n /\ m - 1 \in 0 .. n /\ ~(m <= m - 1)
      BY <1>2, <2>1, <2>2
    <2>4. Fine(m - 1)
      BY <2>1, <2>3
    <2> DEFINE g == f[m - 1]
    <2>5. /\ g \in Seq(Entries) /\ Sorted(g)
          /\ \A k \in 1 .. Len(g) :
               \E j \in 1 .. m - 1 : g[k] = l[j] /\ l[j].timer \in ts
          /\ \A j \in 1 .. m - 1 : l[j].timer \in ts =>
               \E k \in 1 .. Len(g) : g[k] = l[j]
      BY <2>4
    <2>6. f[m] = IF l[m].timer \in ts THEN Append(g, l[m]) ELSE g
      BY <1>4, <2>3
    <2> HIDE DEF g
    <2>7. CASE l[m].timer \notin ts
      <3>1. f[m] = g
        BY <2>6, <2>7
      <3>2. \A k \in 1 .. Len(g) :
              \E j \in 1 .. m : g[k] = l[j] /\ l[j].timer \in ts
        BY <2>3, <2>5
      <3>3. \A j \in 1 .. m : l[j].timer \in ts =>
              \E k \in 1 .. Len(g) : g[k] = l[j]
        <4> SUFFICES ASSUME NEW j \in 1 .. m, l[j].timer \in ts
                     PROVE  \E k \in 1 .. Len(g) : g[k] = l[j]
          OBVIOUS
        <4>1. j \in 1 .. m - 1
          BY <2>3, <2>7
        <4> QED BY <2>5, <4>1
      <3>4. Fine(m)
        BY <2>5, <3>1, <3>2, <3>3
      <3> QED BY <2>1, <3>4
    <2>8. CASE l[m].timer \in ts
      <3>1. f[m] = Append(g, l[m]) /\ l[m] \in Entries
        BY <1>2, <2>3, <2>6, <2>8
      <3>2. \A k \in 1 .. Len(g) :
              g[k].timer # l[m].timer /\ g[k].left <= l[m].left
        <4> SUFFICES ASSUME NEW k \in 1 .. Len(g)
                     PROVE g[k].timer # l[m].timer /\ g[k].left <= l[m].left
          OBVIOUS
        <4>1. PICK j \in 1 .. m - 1 : g[k] = l[j]
          BY <2>5
        <4>2. j \in 1 .. Len(l) /\ m \in 1 .. Len(l) /\ j < m
          BY <1>2, <2>3 DEF n
        <4> QED BY <4>1, <4>2 DEF Good, Sorted
      <3>3. f[m] \in Seq(Entries) /\ Sorted(f[m])
        BY <2>5, <3>1, <3>2, SortedAppend
      <3>4. /\ Len(f[m]) = Len(g) + 1 /\ f[m][Len(g) + 1] = l[m]
            /\ Len(g) \in Nat
            /\ \A k \in 1 .. Len(g) : f[m][k] = g[k]
        BY <2>5, <3>1
      <3>5. \A k \in 1 .. Len(f[m]) :
              \E j \in 1 .. m : f[m][k] = l[j] /\ l[j].timer \in ts
        <4> SUFFICES ASSUME NEW k \in 1 .. Len(f[m])
              PROVE \E j \in 1 .. m : f[m][k] = l[j] /\ l[j].timer \in ts
          OBVIOUS
        <4>1. CASE k = Len(g) + 1
          BY <2>3, <2>8, <3>4, <4>1
        <4>2. CASE k # Len(g) + 1
          <5>1. k \in 1 .. Len(g)
            BY <3>4, <4>2
          <5>2. PICK j \in 1 .. m - 1 : g[k] = l[j] /\ l[j].timer \in ts
            BY <2>5, <5>1
          <5>3. j \in 1 .. m
            BY <2>3
          <5> QED BY <3>4, <5>1, <5>2, <5>3
        <4> QED BY <4>1, <4>2
      <3>6. \A j \in 1 .. m : l[j].timer \in ts =>
              \E k \in 1 .. Len(f[m]) : f[m][k] = l[j]
        <4> SUFFICES ASSUME NEW j \in 1 .. m, l[j].timer \in ts
                     PROVE \E k \in 1 .. Len(f[m]) : f[m][k] = l[j]
          OBVIOUS
        <4>1. CASE j = m
          BY <3>4, <4>1
        <4>2. CASE j # m
          <5>1. j \in 1 .. m - 1
            BY <2>3, <4>2
          <5>2. PICK k \in 1 .. Len(g) : g[k] = l[j]
            BY <2>5, <5>1
          <5>3. k \in 1 .. Len(f[m])
            BY <3>4
          <5> QED BY <3>4, <5>2, <5>3
        <4> QED BY <4>1, <4>2
      <3>7. Fine(m)
        BY <3>3, <3>5, <3>6
      <3> QED BY <2>1, <3>7
    <2> QED BY <2>7, <2>8
  <1>6. Fine(n)
    BY <1>2, <1>5
  <1> DEFINE r == f[n]
  <1>7. /\ r \in Seq(Entries) /\ Sorted(r)
        /\ \A k \in 1 .. Len(r) :
             \E j \in 1 .. n : r[k] = l[j] /\ l[j].timer \in ts
        /\ \A j \in 1 .. n : l[j].timer \in ts =>
             \E k \in 1 .. Len(r) : r[k] = l[j]
    BY <1>6
  <1> HIDE DEF r
  <1>8. Bounded(r)
    BY <1>7 DEF Good, Bounded, n
  <1>9. TimersOf(r) = TimersOf(l) \cap ts
    <2>1. TimersOf(r) = {r[k].timer : k \in 1 .. Len(r)}
      BY <1>7, TimersOfFacts
    <2>2. TimersOf(l) = {l[j].timer : j \in 1 .. n}
      BY <1>2, TimersOfFacts DEF n
    <2>3. ASSUME NEW t \in TimersOf(r) PROVE t \in TimersOf(l) \cap ts
      <3>1. PICK k \in 1 .. Len(r) : t = r[k].timer
        BY <2>1
      <3>2. PICK j \in 1 .. n : r[k] = l[j] /\ l[j].timer \in ts
        BY <1>7
      <3> QED BY <2>2, <3>1, <3>2
    <2>4. ASSUME NEW t \in TimersOf(l) \cap ts PROVE t \in TimersOf(r)
      <3>1. PICK j \in 1 .. n : t = l[j].timer
        BY <2>2
      <3>2. PICK k \in 1 .. Len(r) : r[k] = l[j]
        BY <1>7, <3>1
      <3> QED BY <2>1, <3>1, <3>2
    <2> QED BY <2>3, <2>4
  <1> QED BY <1>1, <1>7, <1>8, <1>9 DEF Good, r

\* Where ghl_new_timer puts a timer: before the first entry that does not
\* expire earlier, or at the end.
Place(l, d) == SelectInSeq(l, LAMBDA e : e.left >= d)

LEMMA PlaceFacts ==
  ASSUME NEW l, Good(l), NEW d \in Nat
  PROVE  \/ /\ Place(l, d) = 0
            /\ \A i \in 1 .. Len(l) : l[i].left < d
         \/ /\ Place(l, d) \in 1 .. Len(l)
            /\ \A i \in 1 .. Place(l, d) - 1 : l[i].left < d
            /\ \A i \in Place(l, d) .. Len(l) : d <= l[i].left
  <1> DEFINE I == {i \in 1 .. Len(l) : l[i].left >= d}
             pos == Place(l, d)
  <1>1. pos = IF I # {} THEN Min(I) ELSE 0
    BY DEF Place, SelectInSeq
  <1>2. \A i \in 1 .. Len(l) : l[i].left \in Nat
    <2>1. \A i \in 1 .. Len(l) : l[i] \in Entries
      BY DEF Good
    <2> QED BY <2>1 DEF Entries
  <1>3. Len(l) \in Nat
    BY DEF Good
  <1> HIDE DEF pos
  <1>4. CASE I = {}
    <2>1. pos = 0
      BY <1>1, <1>4
    <2>2. \A i \in 1 .. Len(l) : l[i].left < d
      BY <1>2, <1>4
    <2> QED BY <2>1, <2>2 DEF pos
  <1>5. CASE I # {}
    <2>1. Min(I) \in I /\ \A y \in I : Min(I) <= y
      <3>1. SUFFICES \E m \in I : \A y \in I : m <= y
        BY DEF Min
      <3>2. I \in SUBSET Nat
        OBVIOUS
      <3> HIDE DEF I
      <3> QED BY <1>5, <3>2, Smallest
    <2>2. pos \in I /\ \A y \in I : pos <= y
      BY <1>1, <1>5, <2>1
    <2>3. pos \in 1 .. Len(l) /\ d <= l[pos].left
      BY <1>2, <2>2
    <2>4. \A i \in 1 .. pos - 1 : l[i].left < d
      BY <1>2, <1>3, <2>2, <2>3
    <2>5. \A i \in pos .. Len(l) : d <= l[i].left
      <3> SUFFICES ASSUME NEW i \in pos .. Len(l) PROVE d <= l[i].left
        OBVIOUS
      <3>1. i \in 1 .. Len(l) /\ (i = pos \/ pos < i)
        BY <1>3, <2>3
      <3>2. l[pos].left <= l[i].left
        BY <1>2, <2>3, <3>1 DEF Good, Sorted
      <3> QED BY <1>2, <2>3, <3>1, <3>2
    <2> QED BY <2>3, <2>4, <2>5 DEF pos
  <1> QED BY <1>4, <1>5

LEMMA ConcatFacts ==
  ASSUME NEW s \in Seq(Entries), NEW t \in Seq(Entries)
  PROVE  /\ s \o t \in Seq(Entries)
         /\ Len(s \o t) = Len(s) + Len(t)
         /\ \A i \in 1 .. Len(s) + Len(t) :
              (s \o t)[i] = IF i <= Len(s) THEN s[i] ELSE t[i - Len(s)]
  OBVIOUS

\* A list with an entry e inserted at p.
LEMMA InsertAtFacts ==
  ASSUME NEW l \in Seq(Entries), NEW p \in 1 .. Len(l), NEW e \in Entries
  PROVE  /\ InsertAt(l, p, e) \in Seq(Entries)
         /\ Len(InsertAt(l, p, e)) = Len(l) + 1
         /\ \A i \in 1 .. Len(l) + 1 :
              InsertAt(l, p, e)[i] = IF i < p THEN l[i]
                                     ELSE IF i = p THEN e ELSE l[i - 1]
  <1> DEFINE a == SubSeq(l, 1, p - 1)
             b == <<e>>
             c == SubSeq(l, p, Len(l))
             ab == a \o b
             m == ab \o c
  <1>1. InsertAt(l, p, e) = m
    BY DEF InsertAt
  <1>2. Len(l) \in Nat
    OBVIOUS
  <1>3. a \in Seq(Entries) /\ Len(a) = p - 1 /\ \A i \in 1 .. p - 1 : a[i] = l[i]
    OBVIOUS
  <1>4. b \in Seq(Entries) /\ Len(b) = 1 /\ b[1] = e
    OBVIOUS
  <1>5. /\ c \in Seq(Entries) /\ Len(c) = Len(l) - (p - 1)
        /\ \A i \in 1 .. Len(l) - (p - 1) : c[i] = l[i + (p - 1)]
    OBVIOUS
  <1> HIDE DEF a, b, c
  <1>6. /\ ab \in Seq(Entries) /\ Len(ab) = p /\ ab[p] = e
        /\ \A i \in 1 .. p - 1 : ab[i] = l[i]
    <2>1. /\ ab \in Seq(Entries) /\ Len(ab) = Len(a) + Len(b)
          /\ \A i \in 1 .. Len(a) + Len(b) :
               ab[i] = IF i <= Len(a) THEN a[i] ELSE b[i - Len(a)]
      BY <1>3, <1>4, ConcatFacts
    <2> HIDE DEF ab
    <2> QED BY <1>2, <1>3, <1>4, <2>1
  <1> HIDE DEF ab
  <1>7. /\ m \in Seq(Entries) /\ Len(m) = Len(l) + 1
        /\ \A i \in 1 .. p : m[i] = ab[i]
        /\ \A i \in p + 1 .. Len(l) + 1 : m[i] = c[i - p]
    <2>1. /\ m \in Seq(Entries) /\ Len(m) = Len(ab) + Len(c)
          /\ \A i \in 1 .. Len(ab) + Len(c) :
               m[i] = IF i <= Len(ab) THEN ab[i] ELSE c[i - Len(ab)]
      BY <1>5, <1>6, ConcatFacts
    <2> HIDE DEF m
    <2> QED BY <1>2, <1>5, <1>6, <2>1
  <1> HIDE DEF m
  <1>8. ASSUME NEW i \in 1 .. Len(l) + 1
        PROVE  m[i] = IF i < p THEN l[i] ELSE IF i = p THEN e ELSE l[i - 1]
    <2>1. CASE i <= p
      BY <1>6, <1>7, <2>1
    <2>2. CASE i > p
      <3>1. i \in p + 1 .. Len(l) + 1 /\ i - p \in 1 .. Len(l) - (p - 1)
            /\ (i - p) + (p - 1) = i - 1
        BY <1>2, <2>2
      <3> QED BY <1>5, <1>7, <3>1
    <2> QED BY <2>1, <2>2
  <1> QED BY <1>1, <1>7, <1>8

\* ghl_new_timer keeps the order.
LEMMA InsertFacts ==
  ASSUME NEW l, Good(l), NEW t \in AllTimers, t \notin TimersOf(l)
  PROVE  Good(Insert(l, t)) /\ TimersOf(Insert(l, t)) = TimersOf(l) \cup {t}
  <1> DEFINE d == Interval(t)
             e == New(t)
             n == Len(l)
             pos == Place(l, d)
             r == Insert(l, t)
  <1>1. d \in Nat
    BY IntervalIsNat
  <1>2. e \in Entries /\ e.timer = t /\ e.left = d
    BY <1>1 DEF New, Entries
  <1>3. r = IF pos = 0 THEN Append(l, e) ELSE InsertAt(l, pos, e)
    BY DEF Insert, Place
  <1>4. /\ n \in Nat /\ l \in Seq(Entries)
        /\ \A i \in 1 .. n : l[i].left \in Nat /\ l[i].timer # t
    <2>1. \A i \in 1 .. n : l[i] \in Entries
      BY DEF Good
    <2>2. \A i \in 1 .. n : l[i].left \in Nat
      BY <2>1 DEF Entries
    <2>3. l \in Seq(Entries) /\ n \in Nat
      BY DEF Good
    <2>4. TimersOf(l) = {l[i].timer : i \in 1 .. n}
      BY <2>3, TimersOfFacts
    <2>5. \A i \in 1 .. n : l[i].timer # t
      BY <2>4
    <2> QED BY <2>2, <2>3, <2>5
  <1>5. /\ \A i, j \in 1 .. n : i < j =>
             l[i].timer # l[j].timer /\ l[i].left <= l[j].left
        /\ \A i \in 1 .. n : l[i].left <= Interval(l[i].timer)
    BY DEF Good, Sorted, Bounded
  <1>6. \/ /\ pos = 0
           /\ \A i \in 1 .. n : l[i].left < d
        \/ /\ pos \in 1 .. n
           /\ \A i \in 1 .. pos - 1 : l[i].left < d
           /\ \A i \in pos .. n : d <= l[i].left
    BY <1>1, PlaceFacts
  <1> DEFINE p == IF pos = 0 THEN n + 1 ELSE pos
  <1>7. /\ p \in 1 .. n + 1
        /\ \A i \in 1 .. p - 1 : l[i].left < d
        /\ \A i \in p .. n : d <= l[i].left
    <2> HIDE DEF d, n, pos
    <2>1. CASE pos = 0
      BY <1>4, <1>6, <2>1
    <2>2. CASE pos # 0
      <3>1. p = pos
        BY <2>2
      <3> HIDE DEF p
      <3> QED BY <1>4, <1>6, <2>2, <3>1
    <2> QED BY <2>1, <2>2
  <1> HIDE DEF d, e, n, pos
  <1>8. /\ r \in Seq(Entries) /\ Len(r) = n + 1
        /\ \A i \in 1 .. n + 1 :
             r[i] = IF i < p THEN l[i] ELSE IF i = p THEN e ELSE l[i - 1]
    <2>1. CASE pos = 0
      BY <1>2, <1>3, <1>4, <2>1 DEF n
    <2>2. CASE pos # 0
      <3>1. pos \in 1 .. Len(l) /\ p = pos /\ r = InsertAt(l, pos, e)
        BY <1>3, <1>6, <2>2 DEF n
      <3> HIDE DEF p, r
      <3> QED BY <1>2, <1>4, <3>1, InsertAtFacts DEF n
    <2> QED BY <2>1, <2>2
  <1> HIDE DEF p, r
  <1>9. Sorted(r)
    <2> SUFFICES ASSUME NEW i \in 1 .. n + 1, NEW j \in 1 .. n + 1, i < j
                 PROVE  r[i].timer # r[j].timer /\ r[i].left <= r[j].left
      BY <1>8 DEF Sorted
    <2>1. CASE j < p
      <3>1. /\ i \in 1 .. n /\ j \in 1 .. n
            /\ r[i] = l[i] /\ r[j] = l[j]
        BY <1>4, <1>7, <1>8, <2>1
      <3> QED BY <1>5, <3>1
    <2>2. CASE j = p
      <3>1. i \in 1 .. n /\ i \in 1 .. p - 1 /\ r[i] = l[i] /\ r[j] = e
        BY <1>4, <1>7, <1>8, <2>2
      <3> QED BY <1>1, <1>2, <1>4, <1>7, <3>1
    <2>3. CASE j > p
      <3>1. j - 1 \in 1 .. n /\ r[j] = l[j - 1] /\ j - 1 \in p .. n
        BY <1>4, <1>7, <1>8, <2>3
      <3>2. CASE i < p
        <4>1. i \in 1 .. n /\ r[i] = l[i] /\ i < j - 1
          BY <1>4, <1>7, <1>8, <2>3, <3>2
        <4> QED BY <1>5, <3>1, <4>1
      <3>3. CASE i = p
        <4>1. r[i] = e
          BY <1>8, <3>3
        <4> QED BY <1>2, <1>4, <1>7, <3>1, <4>1
      <3>4. CASE i > p
        <4>1. i - 1 \in 1 .. n /\ r[i] = l[i - 1] /\ i - 1 < j - 1
          BY <1>4, <1>7, <1>8, <3>4
        <4> QED BY <1>5, <3>1, <4>1
      <3> QED BY <1>7, <3>2, <3>3, <3>4
    <2> QED BY <1>7, <2>1, <2>2, <2>3
  <1>10. Bounded(r)
    <2> SUFFICES ASSUME NEW i \in 1 .. n + 1
                 PROVE  r[i].left <= Interval(r[i].timer)
      BY <1>8 DEF Bounded
    <2>1. CASE i < p
      <3>1. i \in 1 .. n /\ r[i] = l[i]
        BY <1>4, <1>7, <1>8, <2>1
      <3> QED BY <1>5, <3>1
    <2>2. CASE i = p
      <3>1. r[i].left = d /\ Interval(r[i].timer) = d
        BY <1>2, <1>8, <2>2 DEF d
      <3> QED BY <1>1, <3>1
    <2>3. CASE i > p
      <3>1. i - 1 \in 1 .. n /\ r[i] = l[i - 1]
        BY <1>4, <1>7, <1>8, <2>3
      <3> QED BY <1>5, <3>1
    <2> QED BY <1>7, <2>1, <2>2, <2>3
  <1>11. TimersOf(r) = TimersOf(l) \cup {t}
    <2>1. TimersOf(r) = {r[i].timer : i \in 1 .. n + 1}
      BY <1>8, TimersOfFacts
    <2>2. TimersOf(l) = {l[i].timer : i \in 1 .. n}
      BY <1>4, TimersOfFacts DEF n
    <2>3. ASSUME NEW x \in TimersOf(r) PROVE x \in TimersOf(l) \cup {t}
      <3>1. PICK i \in 1 .. n + 1 : x = r[i].timer
        BY <2>1
      <3>2. CASE i < p
        <4>1. i \in 1 .. n /\ r[i] = l[i]
          BY <1>4, <1>7, <1>8, <3>2
        <4> QED BY <2>2, <3>1, <4>1
      <3>3. CASE i = p
        BY <1>2, <1>8, <3>1, <3>3
      <3>4. CASE i > p
        <4>1. i - 1 \in 1 .. n /\ r[i] = l[i - 1]
          BY <1>4, <1>7, <1>8, <3>4
        <4> QED BY <2>2, <3>1, <4>1
      <3> QED BY <1>7, <3>2, <3>3, <3>4
    <2>4. t \in TimersOf(r)
      BY <1>2, <1>7, <1>8, <2>1
    <2>5. ASSUME NEW x \in TimersOf(l) PROVE x \in TimersOf(r)
      <3>1. PICK i \in 1 .. n : x = l[i].timer
        BY <2>2
      <3>2. CASE i < p
        <4>1. i \in 1 .. n + 1 /\ r[i] = l[i]
          BY <1>4, <1>8, <3>2
        <4> QED BY <2>1, <3>1, <4>1
      <3>3. CASE i >= p
        <4>1. i + 1 \in 1 .. n + 1 /\ r[i + 1] = l[i]
          BY <1>4, <1>7, <1>8, <3>3
        <4> QED BY <2>1, <3>1, <4>1
      <3> QED BY <1>7, <3>2, <3>3
    <2> QED BY <2>3, <2>4, <2>5
  <1> QED BY <1>8, <1>9, <1>10, <1>11 DEF Good, r

-----------------------------------------------------------------------------
(* The loop as module Session *)

\* Every step of the loop is one of Session, or leaves its handles alone.
LEMMA LoopStepsAreSteps == [LoopNext]_allVars => [Next]_vars
  <1> SUFFICES ASSUME [LoopNext]_allVars PROVE [Next]_vars
    OBVIOUS
  <1>1. CASE StartServ \/ StartJoin \/ Stop
    BY <1>1 DEF StartServ, StartJoin, Stop, Next
  <1>2. CASE Call \/ TimersDone \/ Wake \/ Interrupted \/ Return \/ Tick
    BY <1>2 DEF Call, TimersDone, Wake, Interrupted, Return, Tick
  <1>3. CASE Fire
    BY <1>3 DEF Fire, FirePeriodic, FireJoin, FireServconn, Next
  <1>4. CASE Read
    BY <1>4 DEF Read, ReadRoom, ReadPeer, ReadServ, Next
  <1>5. CASE \E s \in Sockets : Arrive(s)
    BY <1>5 DEF Arrive
  <1>6. CASE UNCHANGED allVars
    BY <1>6 DEF allVars
  <1> QED BY <1>1, <1>2, <1>3, <1>4, <1>5, <1>6 DEF LoopNext

\* The event loop, whatever it reads, fires and waits for, behaves as the
\* handles of module Session: the safety part of ImplementsSession.
THEOREM LoopIsSession == LoopSpec => Spec
  <1>1. LoopInit => Init
    BY DEF LoopInit
  <1> QED BY <1>1, LoopStepsAreSteps, PTL DEF LoopSpec, Spec

-----------------------------------------------------------------------------
(* The inductive invariant *)

\* The list is ordered, and holds the timers of the handles.
ListInv == Good(list) /\ TimersOf(list) = timers

\* Timers are due only while ghl_process fires them.
DueInv ==
  /\ pc \in {"app", "timers", "select", "net"}
  /\ due \subseteq timers
  /\ pc # "timers" => due = {}
  /\ pc = "timers" => serv = "live"

SleepInv == sleep \in Nat /\ sleep <= TicksPerSecond * RetransCheck

LoopInv == ListInv /\ DueInv /\ SleepInv

\* Only ghl_new_serv and ghl_join_room create timers.
LEMMA TimersOnlyGo ==
  ASSUME \/ AppFreesServ \/ LeaveRoom \/ JoinTimeout \/ ServconnTimeout
         \/ Members \/ JoinFailed \/ RoomLost \/ LookupReply
         \/ LoginReply \/ AuthFail \/ ServerLost \/ UNCHANGED vars
  PROVE  timers' \subseteq timers
  <1>1. CASE AppFreesServ \/ ServconnTimeout
    BY <1>1 DEF AppFreesServ, ServconnTimeout, FreeServ
  <1>2. CASE LeaveRoom \/ JoinTimeout \/ RoomLost
    BY <1>2 DEF LeaveRoom, JoinTimeout, RoomLost
  <1>3. CASE Members \/ JoinFailed
    BY <1>3 DEF Members, JoinFailed, Stopped
  <1>4. CASE LookupReply \/ ServerLost \/ UNCHANGED vars
    BY <1>4 DEF LookupReply, ServerLost, vars
  <1>5. CASE LoginReply
    BY <1>5 DEF LoginReply, AfterLogin
  <1>6. CASE AuthFail
    BY <1>6 DEF AuthFail, FreeServ
  <1> QED BY <1>1, <1>2, <1>3, <1>4, <1>5, <1>6

LEMMA KeptIsGood ==
  ASSUME ListInv, list' = Kept, timers' \subseteq timers
  PROVE  ListInv'
  <1>1. Good(list) /\ TimersOf(list) = timers
    BY DEF ListInv
  <1>2. Good(Only(list, timers'))
        /\ TimersOf(Only(list, timers')) = TimersOf(list) \cap timers'
    BY <1>1, OnlyFacts
  <1>3. Good(list') /\ TimersOf(list') = timers'
    BY <1>1, <1>2 DEF Kept
  <1> QED BY <1>3 DEF ListInv

LEMMA PeriodicTimers ==
  /\ Periodic \subseteq AllTimers /\ ServconnTimer \in AllTimers
  /\ \A r \in 0 .. MaxJoins : JoinTimer(r) \in AllTimers
  /\ ServconnTimer \notin Periodic
  /\ Periodic = {Timer("do_hello", 0), Timer("do_conn_retrans", 0),
                 Timer("do_roominfo_query", 0)}
  /\ Timer("do_hello", 0) # Timer("do_conn_retrans", 0)
  /\ Timer("do_hello", 0) # Timer("do_roominfo_query", 0)
  /\ Timer("do_conn_retrans", 0) # Timer("do_roominfo_query", 0)
  BY TimersDiffer DEF Periodic, Timer

LEMMA EmptyIsGood == Good(<< >>) /\ TimersOf(<< >>) = {}
  BY DEF Good, Sorted, Bounded, TimersOf, ToSet

\* ghl_new_serv creates four timers.
LEMMA StartServList ==
  ASSUME StartServ
  PROVE  ListInv'
  <1> DEFINE t1 == Timer("do_hello", 0)
             t2 == Timer("do_conn_retrans", 0)
             t3 == Timer("do_roominfo_query", 0)
             l1 == Insert(<< >>, t1)
             l2 == Insert(l1, t2)
             l3 == Insert(l2, t3)
             l4 == Insert(l3, ServconnTimer)
  <1>1. list' = l4 /\ timers' = Periodic \cup {ServconnTimer}
    BY DEF StartServ, NewServ
  <1>2. /\ t1 \in AllTimers /\ t2 \in AllTimers /\ t3 \in AllTimers
        /\ ServconnTimer \in AllTimers /\ ServconnTimer \notin {t1, t2, t3}
        /\ t1 # t2 /\ t1 # t3 /\ t2 # t3
        /\ Periodic = {t1, t2, t3}
    BY PeriodicTimers
  <1> HIDE DEF t1, t2, t3
  <1>3. Good(l1) /\ TimersOf(l1) = {t1}
    BY <1>2, EmptyIsGood, InsertFacts
  <1> HIDE DEF l1
  <1>4. Good(l2) /\ TimersOf(l2) = {t1, t2}
    BY <1>2, <1>3, InsertFacts
  <1> HIDE DEF l2
  <1>5. Good(l3) /\ TimersOf(l3) = {t1, t2, t3}
    BY <1>2, <1>4, InsertFacts
  <1> HIDE DEF l3
  <1>6. Good(l4) /\ TimersOf(l4) = {t1, t2, t3, ServconnTimer}
    BY <1>2, <1>5, InsertFacts
  <1> HIDE DEF l4
  <1>7. Good(list') /\ TimersOf(list') = timers'
    BY <1>1, <1>2, <1>6
  <1> QED BY <1>7 DEF ListInv

\* ghl_join_room creates one; the room had none.
LEMMA StartJoinList ==
  ASSUME Invariants, ListInv, StartJoin
  PROVE  ListInv' /\ timers \subseteq timers'
  <1> DEFINE t == JoinTimer(joins')
  <1>1. /\ list' = Insert(list, t) /\ timers' = timers \cup {t}
        /\ joins' = joins + 1 /\ joins < MaxJoins /\ room = 0
    BY DEF StartJoin, JoinRoom, NewTimer
  <1>2. joins' \in 0 .. MaxJoins /\ joins' # 0
    BY <1>1, JoinsAssumption DEF Invariants, TypeOK, CountersOK
  <1>3. t \in AllTimers
    BY <1>2, PeriodicTimers
  <1>4. t \notin timers
    BY <1>1, <1>2 DEF Invariants, TimersAreOwned
  <1>5. Good(list) /\ TimersOf(list) = timers
    BY DEF ListInv
  <1> HIDE DEF t
  <1>6. Good(Insert(list, t)) /\ TimersOf(Insert(list, t)) = timers \cup {t}
    BY <1>3, <1>4, <1>5, InsertFacts
  <1>7. Good(list') /\ TimersOf(list') = timers'
    BY <1>1, <1>6
  <1> QED BY <1>1, <1>7 DEF ListInv

\* A periodic timer is replaced by its successor.
LEMMA FirePeriodicList ==
  ASSUME Invariants, ListInv, DueInv, NEW t \in Periodic, FirePeriodic(t)
  PROVE  ListInv' /\ timers' = timers
  <1>1. list' = Insert(Without(list, t), t) /\ timers' = timers
    BY DEF FirePeriodic, Renewed, vars
  <1>2. t \in AllTimers /\ Good(list) /\ TimersOf(list) = timers
    BY PeriodicTimers DEF ListInv
  <1>3. t \in timers
    <2>1. serv = "live"
      BY DEF FirePeriodic, Fires, DueInv
    <2> QED BY <2>1 DEF Invariants, TimersAreOwned
  <1> DEFINE l == Without(list, t)
  <1>4. Good(l) /\ TimersOf(l) = timers \ {t}
    BY <1>2, OnlyFacts DEF Without
  <1> HIDE DEF l
  <1>5. Good(Insert(l, t)) /\ TimersOf(Insert(l, t)) = timers
    BY <1>2, <1>3, <1>4, InsertFacts
  <1>6. Good(list') /\ TimersOf(list') = timers'
    BY <1>1, <1>5 DEF l
  <1> QED BY <1>1, <1>6 DEF ListInv

\* As time passes, the order stays: a timer that has expired stays at 0.
LEMMA TickList ==
  ASSUME ListInv, Tick
  PROVE  ListInv'
  <1> DEFINE n == Len(list)
  <1>1. /\ list \in Seq(Entries) /\ n \in Nat
        /\ \A i \in 1 .. n : list[i] \in Entries
    BY DEF ListInv, Good
  <1>2. list' = [i \in 1 .. n |-> [list[i] EXCEPT !.left = Less(@)]]
        /\ timers' = timers
    BY <1>1 DEF Tick, vars
  <1>3. ASSUME NEW i \in 1 .. n
        PROVE  /\ list'[i] \in Entries
               /\ list'[i].timer = list[i].timer
               /\ list'[i].left = Less(list[i].left)
               /\ list[i].left \in Nat
               /\ Less(list[i].left) <= list[i].left
    <2>1. list[i].left \in Nat /\ list[i].timer \in AllTimers
      BY <1>1 DEF Entries
    <2>2. Less(list[i].left) \in Nat /\ Less(list[i].left) <= list[i].left
      BY <2>1 DEF Less
    <2>3. list'[i] = [list[i] EXCEPT !.left = Less(@)]
      BY <1>2
    <2>4. list'[i] = [timer |-> list[i].timer, left |-> Less(list[i].left)]
      BY <1>1, <2>3 DEF Entries
    <2> QED BY <2>1, <2>2, <2>4 DEF Entries
  <1>4. list' \in Seq(Entries) /\ Len(list') = n
    BY <1>1, <1>2, <1>3
  <1> HIDE DEF n
  <1>5. Sorted(list')
    <2> SUFFICES ASSUME NEW i \in 1 .. n, NEW j \in 1 .. n, i < j
                 PROVE  /\ list'[i].timer # list'[j].timer
                        /\ list'[i].left <= list'[j].left
      BY <1>4 DEF Sorted
    <2>1. list[i].timer # list[j].timer /\ list[i].left <= list[j].left
      BY DEF ListInv, Good, Sorted, n
    <2>2. Less(list[i].left) <= Less(list[j].left)
      BY <1>3, <2>1 DEF Less
    <2> QED BY <1>3, <2>1, <2>2
  <1>6. Bounded(list')
    <2> SUFFICES ASSUME NEW i \in 1 .. n
                 PROVE  list'[i].left <= Interval(list'[i].timer)
      BY <1>4 DEF Bounded
    <2>1. list[i].left <= Interval(list[i].timer)
      BY DEF ListInv, Good, Bounded, n
    <2>2. list[i].timer \in AllTimers /\ Interval(list[i].timer) \in Nat
      BY <1>1, IntervalIsNat DEF Entries
    <2>3. /\ list[i].left \in Nat /\ Less(list[i].left) \in Nat
          /\ Less(list[i].left) <= list[i].left
      BY <1>3 DEF Less
    <2>4. Less(list[i].left) <= Interval(list[i].timer)
      BY <2>1, <2>2, <2>3
    <2> QED BY <1>3, <2>4
  <1>7. TimersOf(list') = TimersOf(list)
    <2>1. TimersOf(list') = {list'[i].timer : i \in 1 .. n}
      BY <1>4, TimersOfFacts
    <2>2. TimersOf(list) = {list[i].timer : i \in 1 .. n}
      BY <1>1, TimersOfFacts DEF n
    <2> QED BY <1>3, <2>1, <2>2
  <1>8. Good(list') /\ TimersOf(list') = timers'
    BY <1>2, <1>4, <1>5, <1>6, <1>7 DEF ListInv, Good
  <1> QED BY <1>8 DEF ListInv

\* Every step keeps the list.
LEMMA ListStep ==
  ASSUME Invariants, ListInv, DueInv, [LoopNext]_allVars
  PROVE  ListInv'
  <1>1. CASE StartServ
    BY <1>1, StartServList
  <1>2. CASE StartJoin
    BY <1>2, StartJoinList
  <1>3. CASE Stop
    BY <1>3, TimersOnlyGo, KeptIsGood DEF Stop, Effect
  <1>4. CASE \E t \in Periodic : FirePeriodic(t)
    BY <1>4, FirePeriodicList
  <1>5. CASE FireJoin
    BY <1>5, TimersOnlyGo, KeptIsGood DEF FireJoin, Effect
  <1>6. CASE FireServconn
    BY <1>6, TimersOnlyGo, KeptIsGood DEF FireServconn, Effect
  <1>7. CASE ReadRoom
    BY <1>7, TimersOnlyGo, KeptIsGood DEF ReadRoom, AfterRead
  <1>8. CASE ReadPeer
    BY <1>8, TimersOnlyGo, KeptIsGood DEF ReadPeer, AfterRead
  <1>9. CASE ReadServ
    BY <1>9, TimersOnlyGo, KeptIsGood DEF ReadServ, AfterRead
  <1>10. CASE Tick
    BY <1>10, TickList
  <1>11. CASE \/ Call \/ TimersDone \/ Wake \/ Interrupted \/ Return
              \/ (\E s \in Sockets : Arrive(s)) \/ UNCHANGED allVars
    <2>1. list' = list /\ timers' = timers
      BY <1>11 DEF Call, TimersDone, Wake, Interrupted, Return, Arrive,
         allVars, loopVars, vars
    <2> QED BY <2>1 DEF ListInv, Good, Sorted, Bounded, TimersOf
  <1> QED BY <1>1, <1>2, <1>3, <1>4, <1>5, <1>6, <1>7, <1>8, <1>9, <1>10,
         <1>11 DEF LoopNext, Fire, Read

\* Every step keeps the timers that are due.
LEMMA DueStep ==
  ASSUME Invariants, ListInv, DueInv, [LoopNext]_allVars
  PROVE  DueInv'
  <1>1. CASE StartServ \/ StartJoin \/ Stop
    <2>1. pc = "app" /\ pc' = "app" /\ due' = due
      BY <1>1 DEF StartServ, StartJoin, Stop
    <2> QED BY <2>1 DEF DueInv
  <1>2. CASE Call
    <2>1. pc' = "timers" /\ due' = ExpiredTimers /\ serv = "live"
          /\ serv' = serv /\ timers' = timers
      BY <1>2 DEF Call, vars, servVars
    <2>2. ExpiredTimers \subseteq TimersOf(list)
      BY DEF ExpiredTimers, TimersOf
    <2> QED BY <2>1, <2>2 DEF DueInv, ListInv
  <1>3. CASE \E t \in Periodic : FirePeriodic(t)
    <2>1. PICK t \in Periodic : FirePeriodic(t)
      BY <1>3
    <2>2. pc = "timers" /\ pc' = pc /\ due' = (due \ {t}) \cap timers'
          /\ serv' = serv
      BY <2>1 DEF FirePeriodic, Fires, DueAfter, vars, servVars
    <2> QED BY <2>2 DEF DueInv
  <1>4. CASE FireJoin
    <2>1. pc = "timers" /\ pc' = pc /\ serv' = serv
          /\ due' = (due \ {JoinTimer(room)}) \cap timers'
      BY <1>4 DEF FireJoin, Fires, DueAfter, JoinTimeout, servVars
    <2> QED BY <2>1 DEF DueInv
  <1>5. CASE FireServconn
    BY <1>5 DEF FireServconn, DueInv
  <1>6. CASE TimersDone
    <2>1. due = {} /\ due' = due /\ pc' \in {"select", "net"}
      BY <1>6 DEF TimersDone
    <2> QED BY <2>1 DEF DueInv
  <1>7. CASE Wake \/ Interrupted \/ Return
    <2>1. pc # "timers" /\ pc' \in {"app", "net"} /\ due' = due
      BY <1>7 DEF Wake, Interrupted, Return
    <2> QED BY <2>1 DEF DueInv
  <1>8. CASE Read
    <2>1. pc = "net" /\ pc' = "net" /\ due' = due
      BY <1>8 DEF Read, ReadRoom, ReadPeer, ReadServ, Turn, AfterRead
    <2> QED BY <2>1 DEF DueInv
  <1>9. CASE (\E s \in Sockets : Arrive(s)) \/ Tick \/ UNCHANGED allVars
    <2>1. pc' = pc /\ due' = due /\ timers' = timers /\ serv' = serv
      BY <1>9 DEF Arrive, Tick, allVars, loopVars, vars, servVars
    <2> QED BY <2>1 DEF DueInv
  <1> QED BY <1>1, <1>2, <1>3, <1>4, <1>5, <1>6, <1>7, <1>8, <1>9
         DEF LoopNext, Fire

\* The first timer of the list expires no later than the retransmission
\* check, which is in the list as long as the server handle lives.
LEMMA WaitIsBounded ==
  ASSUME Invariants, ListInv, serv = "live"
  PROVE  Wait \in Nat /\ Wait <= TicksPerSecond * RetransCheck
  <1> DEFINE t == Timer("do_conn_retrans", 0)
  <1>1. /\ list \in Seq(Entries) /\ Sorted(list) /\ Bounded(list)
        /\ TimersOf(list) = {list[i].timer : i \in 1 .. Len(list)}
    BY TimersOfFacts DEF ListInv, Good
  <1>2. t \in timers
    <2>1. t \in Periodic
      BY PeriodicTimers
    <2> QED BY <2>1 DEF Invariants, TimersAreOwned
  <1>3. PICK i \in 1 .. Len(list) : list[i].timer = t
    BY <1>1, <1>2 DEF ListInv
  <1>4. list[i].left <= RetransCheck
    <2>1. Interval(list[i].timer) = RetransCheck
      BY <1>3 DEF Interval, Timer
    <2> QED BY <1>1, <2>1 DEF Bounded
  <1>5. /\ 1 \in 1 .. Len(list) /\ list[1].left \in Nat
        /\ list[i].left \in Nat
    <2>1. 1 \in 1 .. Len(list) /\ list[1] \in Entries /\ list[i] \in Entries
      BY <1>1
    <2> QED BY <2>1 DEF Entries
  <1>6. list[1].left <= list[i].left
    <2>1. i = 1 \/ 1 < i
      BY <1>5
    <2> QED BY <1>1, <1>5, <2>1 DEF Sorted
  <1>7. RetransCheck \in Nat /\ TicksPerSecond \in Nat
    BY DEF Intervals
  <1>8. Wait = list[1].left * TicksPerSecond
    BY <1>1 DEF Wait
  <1>9. \A a, b, k \in Nat : a <= b => a * k \in Nat /\ a * k <= k * b
    <2> SUFFICES ASSUME NEW a \in Nat, NEW b \in Nat, NEW k \in Nat, a <= b
                 PROVE  a * k \in Nat /\ a * k <= k * b
      OBVIOUS
    <2>1. PICK e \in Nat : b = a + e
      <3>1. b - a \in Nat /\ b = a + (b - a)
        OBVIOUS
      <3> QED BY <3>1
    <2>2. k * b = a * k + e * k /\ e * k \in Nat /\ a * k \in Nat
      BY <2>1
    <2> QED BY <2>2
  <1>10. list[1].left <= RetransCheck
    BY <1>4, <1>5, <1>6, <1>7
  <1> QED BY <1>5, <1>7, <1>8, <1>9, <1>10

LEMMA SleepStep ==
  ASSUME Invariants, ListInv, DueInv, SleepInv, [LoopNext]_allVars
  PROVE  SleepInv'
  <1>1. TicksPerSecond * RetransCheck \in Nat
    BY DEF Intervals
  <1>2. CASE TimersDone
    <2>1. sleep' = sleep \/ sleep' = Wait
      BY <1>2 DEF TimersDone
    <2>2. serv = "live"
      BY <1>2 DEF TimersDone, DueInv
    <2> QED BY <2>1, <2>2, WaitIsBounded DEF SleepInv
  <1>3. CASE Wake \/ Interrupted
    <2>1. sleep' = 0
      BY <1>3 DEF Wake, Interrupted
    <2> QED BY <1>1, <2>1 DEF SleepInv
  <1>4. CASE Tick
    <2>1. sleep' = Less(sleep)
      BY <1>4 DEF Tick
    <2> HIDE DEF TicksAssumption, IntervalsAssumption
    <2> QED BY <1>1, <2>1 DEF SleepInv, Less
  <1>5. CASE \/ StartServ \/ StartJoin \/ Stop \/ Call \/ Fire \/ Read
             \/ Return \/ (\E s \in Sockets : Arrive(s)) \/ UNCHANGED allVars
    <2>1. sleep' = sleep
      BY <1>5 DEF StartServ, StartJoin, Stop, Call, Fire, FirePeriodic,
         FireJoin, FireServconn, Read, ReadRoom, ReadPeer, ReadServ,
         AfterRead, Return, Arrive, allVars, loopVars
    <2> QED BY <2>1 DEF SleepInv
  <1> QED BY <1>2, <1>3, <1>4, <1>5 DEF LoopNext

LEMMA InitLoop == LoopInit => LoopInv
  <1> SUFFICES ASSUME LoopInit PROVE LoopInv
    OBVIOUS
  <1>1. list = << >> /\ timers = {} /\ due = {} /\ pc = "app" /\ sleep = 0
    BY DEF LoopInit, Init
  <1>2. TicksPerSecond * RetransCheck \in Nat
    BY DEF Intervals
  <1>3. ListInv
    BY <1>1, EmptyIsGood DEF ListInv
  <1>4. DueInv
    BY <1>1 DEF DueInv
  <1>5. SleepInv
    BY <1>1, <1>2 DEF SleepInv
  <1> QED BY <1>3, <1>4, <1>5 DEF LoopInv

-----------------------------------------------------------------------------
(* The theorems *)

\* The handles and the list are consistent in every state of the loop: the
\* invariants of Session hold of it, and the list, the timers that are due and
\* the sleep are inductive on top of them.
THEOREM LoopInvariance == LoopSpec => [](Invariants /\ LoopInv)
  <1>1. LoopInit => Invariants /\ LoopInv
    BY InitInvariants, InitLoop DEF LoopInit
  <1>2. Invariants /\ LoopInv /\ [LoopNext]_allVars => (Invariants /\ LoopInv)'
    <2> SUFFICES ASSUME Invariants, LoopInv, [LoopNext]_allVars
                 PROVE  (Invariants /\ LoopInv)'
      OBVIOUS
    <2>1. Invariants'
      BY LoopStepsAreSteps, InvariantsStep
    <2>2. ListInv' /\ DueInv' /\ SleepInv'
      BY ListStep, DueStep, SleepStep DEF LoopInv
    <2> QED BY <2>1, <2>2 DEF LoopInv
  <1> QED BY <1>1, <1>2, PTL DEF LoopSpec

\* The list of timers holds each pending timer once, in the order in which
\* they expire, and no timer that is still to fire has been freed.
THEOREM TimersInOrder == LoopSpec => []ListIsOrdered
  <1>1. LoopInv => ListIsOrdered
    <2> SUFFICES ASSUME LoopInv PROVE ListIsOrdered
      OBVIOUS
    <2>1. DOMAIN list = 1 .. Len(list)
      BY DEF LoopInv, ListInv, Good
    <2> QED BY <2>1 DEF LoopInv, ListInv, DueInv, Good, Sorted, ListIsOrdered
  <1> QED BY LoopInvariance, <1>1, PTL

\* Although the unit of the timeout is wrong, select does not sleep longer
\* than TicksPerSecond retransmission checks.
THEOREM SleepBounded == LoopSpec => []SleepIsBounded
  <1>1. LoopInv => SleepIsBounded
    BY DEF LoopInv, SleepInv, SleepIsBounded
  <1> QED BY LoopInvariance, <1>1, PTL
=============================================================================
