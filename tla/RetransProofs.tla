--------------------------- MODULE RetransProofs ---------------------------
(***************************************************************************)
(* Proofs about module Retrans, for every number of channels, all          *)
(* intervals and window sizes that the assumptions allow and checks that   *)
(* come as late as they like: packets are sent again in time, a silent     *)
(* peer is given up, and the round-trip estimate is kept.                  *)
(***************************************************************************)
EXTENDS Retrans, Integers, FiniteSetTheorems, TLAPS

-----------------------------------------------------------------------------
(* Numbers and sets of numbers *)

LEMMA LaterSum ==
  ASSUME NEW x \in Nat, NEW z \in Nat, NEW a \in Nat, NEW b \in Nat,
         NEW K \in Nat, NEW L \in Nat,
         z + b <= x + a, x + a + 1 <= K, K <= L
  PROVE  z + b + 1 <= L
  OBVIOUS

LEMMA Monotone ==
  ASSUME NEW a \in Nat, NEW b \in Nat, NEW r \in Nat, a <= b
  PROVE  a * r <= b * r
  OBVIOUS

LEMMA OneMore ==
  ASSUME NEW a \in Nat, NEW r \in Nat
  PROVE  (a + 1) * r = a * r + r
  OBVIOUS

LEMMA TickSum ==
  ASSUME NEW x \in Nat, NEW a \in Nat, NEW b \in Nat, b + 1 = a
  PROVE  (x + 1) + b <= x + a
  OBVIOUS

LEMMA TickBound ==
  ASSUME NEW x \in Nat, NEW a \in Nat, NEW b \in Nat, NEW K \in Nat,
         b + 1 = a, x + a + 1 <= K
  PROVE  (x + 1) + b + 1 <= K
  OBVIOUS

\* A set of natural numbers has a smallest element: the first packet for
\* which a claim about the estimates fails.
LEMMA Smallest ==
  ASSUME NEW T \in SUBSET Nat, T # {}
  PROVE  \E m \in T : \A y \in T : m <= y
  <1> DEFINE R == StrictSubsetOrdering(Nat)
             S == FiniteSubsetsOf(Nat)
             U == {1 .. n : n \in T}
  <1>1. U \subseteq S
    <2>1. \A n \in T : 1 .. n \in SUBSET Nat /\ IsFiniteSet(1 .. n)
      BY FS_Interval
    <2> QED BY <2>1 DEF FiniteSubsetsOf
  <1>2. U # {} /\ IsWellFoundedOn(R, S)
    BY FS_StrictSubsetOrderingWellFounded
  <1>3. PICK x \in U : \A y \in U : ~ (<<y, x>> \in R)
    <2> HIDE DEF R, S, U
    <2> QED BY <1>1, <1>2, WFMin
  <1>4. PICK m \in T : x = 1 .. m
    OBVIOUS
  <1>5. ASSUME NEW y \in T, y < m PROVE FALSE
    <2>1. 1 .. y \subseteq 1 .. m /\ m \in 1 .. m /\ m \notin 1 .. y
      BY <1>5
    <2>2. <<1 .. y, 1 .. m>> \in R
      BY <2>1 DEF StrictSubsetOrdering
    <2> QED BY <1>3, <1>4, <2>2
  <1> QED BY <1>5

\* A finite set of natural numbers has a largest element: the timeout that a
\* channel takes over from its packets.
LEMMA Largest ==
  ASSUME NEW T \in SUBSET Nat, IsFiniteSet(T), T # {}
  PROVE  \E m \in T : \A y \in T : y <= m
  <1> DEFINE R == StrictSubsetOrdering(Nat)
             S == FiniteSubsetsOf(Nat)
             Above(n) == {y \in T : n < y}
             U == {Above(n) : n \in T}
  <1>1. U \subseteq S
    <2>1. \A n \in T : Above(n) \in SUBSET Nat /\ IsFiniteSet(Above(n))
      <3> SUFFICES ASSUME NEW n \in T PROVE IsFiniteSet(Above(n))
        OBVIOUS
      <3>1. Above(n) \subseteq T
        OBVIOUS
      <3> HIDE DEF Above
      <3> QED BY <3>1, FS_Subset
    <2> QED BY <2>1 DEF FiniteSubsetsOf
  <1>2. U # {} /\ IsWellFoundedOn(R, S)
    BY FS_StrictSubsetOrderingWellFounded
  <1>3. PICK x \in U : \A y \in U : ~ (<<y, x>> \in R)
    <2> HIDE DEF R, S, U
    <2> QED BY <1>1, <1>2, WFMin
  <1>4. PICK m \in T : x = Above(m)
    OBVIOUS
  <1>5. ASSUME NEW y \in T, m < y PROVE FALSE
    <2>1. Above(y) \subseteq Above(m) /\ y \in Above(m) /\ y \notin Above(y)
      <3>1. m \in Nat /\ y \in Nat /\ \A z \in T : z \in Nat
        OBVIOUS
      <3>2. \A z \in T : y < z => m < z
        BY <1>5, <3>1
      <3>3. \A z : z \in Above(y) => z \in Above(m)
        BY <3>2
      <3>4. y \in Above(m)
        BY <1>5
      <3>5. y \notin Above(y)
        BY <3>1
      <3> QED BY <3>3, <3>4, <3>5
    <2>2. <<Above(y), Above(m)>> \in R
      BY <2>1 DEF StrictSubsetOrdering
    <2> QED BY <1>3, <1>4, <2>2
  <1> QED BY <1>5

USE ChansAssumption, WindowAssumption, BoundsAssumption, TimesAssumption

LEMMA IntervalFacts == Interval \in Nat \ {0} /\ Interval = RetransCheck + MaxLate
  BY DEF Interval

USE IntervalFacts

-----------------------------------------------------------------------------
(* The round-trip estimate *)

\* update_rto keeps the estimate positive: the weights add up to 1024.
LEMMA EstimateFacts ==
  ASSUME NEW old \in Nat, NEW rtt \in Nat
  PROVE  Estimate(old, rtt) \in Nat \ {0}
  <1> DEFINE r == Larger(rtt, 1)
  <1>1. r \in Nat /\ r >= 1
    BY DEF Larger
  <1> HIDE DEF r
  <1>2. Estimate(old, rtt) = IF old = 0 THEN r ELSE Average(old, r)
    BY DEF Estimate, r
  <1>3. CASE old = 0
    BY <1>1, <1>2, <1>3
  <1>4. CASE old # 0
    <2>1. old * 820 + r * 204 \in Nat /\ old * 820 + r * 204 >= 1024
      BY <1>1, <1>4
    <2>2. Average(old, r) \in Nat \ {0}
      BY <2>1 DEF Average
    <2> QED BY <1>2, <1>4, <2>2
  <1> QED BY <1>3, <1>4

LEMMA TimeoutFacts ==
  ASSUME NEW est \in Nat
  PROVE  Timeout(est) \in Nat \ {0}
  <1>1. (1536 * est) \div 1024 \in Nat
    OBVIOUS
  <1> QED BY <1>1 DEF Timeout, Larger, Smaller

\* f holds the estimates after each of the first n packets.
Estimates(c, ps, n, f) ==
  f = [i \in 0 .. n |->
        IF i = 0 THEN srtt[c]
        ELSE IF \E p \in ps : p.off = i - 1 /\ ~p.retrans
        THEN Estimate(f[i - 1], (CHOOSE p \in ps : p.off = i - 1).age)
        ELSE f[i - 1]]

LEMMA EstimatesExist ==
  ASSUME NEW c, NEW ps, NEW n \in Nat
  PROVE  \E f : Estimates(c, ps, n, f)
  <1> DEFINE T == {m \in Nat : ~ \E f : Estimates(c, ps, m, f)}
  <1>1. SUFFICES ASSUME T # {} PROVE FALSE
    OBVIOUS
  <1>2. PICK m \in T : \A y \in T : m <= y
    <2>1. T \in SUBSET Nat
      OBVIOUS
    <2> HIDE DEF T
    <2> QED BY <1>1, <2>1, Smallest
  <1> DEFINE After(i, x) ==
               IF \E p \in ps : p.off = i - 1 /\ ~p.retrans
               THEN Estimate(x, (CHOOSE p \in ps : p.off = i - 1).age)
               ELSE x
  <1>3. \A k \in Nat : \A f : Estimates(c, ps, k, f) <=>
          f = [i \in 0 .. k |-> IF i = 0 THEN srtt[c] ELSE After(i, f[i - 1])]
    BY DEF Estimates
  <1> HIDE DEF After
  <1>4. CASE m = 0
    <2> DEFINE f == [i \in 0 .. 0 |-> srtt[c]]
    <2>1. f = [i \in 0 .. 0 |-> IF i = 0 THEN srtt[c] ELSE After(i, f[i - 1])]
      OBVIOUS
    <2>2. Estimates(c, ps, 0, f)
      BY <1>3, <2>1
    <2> QED BY <1>4, <2>2
  <1>5. CASE m # 0
    <2>1. m - 1 \in Nat /\ m - 1 \notin T
      BY <1>2, <1>5
    <2>2. PICK g : Estimates(c, ps, m - 1, g)
      BY <2>1
    <2>3. g = [i \in 0 .. m - 1 |-> IF i = 0 THEN srtt[c] ELSE After(i, g[i - 1])]
      BY <1>3, <2>1, <2>2
    <2> DEFINE f == [i \in 0 .. m |-> IF i = m THEN After(m, g[m - 1]) ELSE g[i]]
    <2>4. ASSUME NEW i \in 0 .. m
          PROVE  f[i] = IF i = 0 THEN srtt[c] ELSE After(i, f[i - 1])
      <3>1. CASE i = m
        <4>1. f[i] = After(m, g[m - 1]) /\ f[i - 1] = g[m - 1]
          BY <1>5, <2>1, <3>1
        <4> QED BY <1>5, <3>1, <4>1
      <3>2. CASE i # m
        <4>1. i \in 0 .. m - 1 /\ f[i] = g[i]
          BY <3>2
        <4>2. i # 0 => f[i - 1] = g[i - 1]
          BY <4>1
        <4>3. g[i] = IF i = 0 THEN srtt[c] ELSE After(i, g[i - 1])
          BY <2>3, <4>1
        <4> QED BY <4>1, <4>2, <4>3
      <3> QED BY <3>1, <3>2
    <2>5. f = [i \in 0 .. m |-> f[i]]
      OBVIOUS
    <2> HIDE DEF f
    <2>6. f = [i \in 0 .. m |-> IF i = 0 THEN srtt[c] ELSE After(i, f[i - 1])]
      BY <2>4, <2>5
    <2>7. Estimates(c, ps, m, f)
      BY <1>3, <2>6
    <2> QED BY <2>7
  <1> QED BY <1>4, <1>5

\* The samples make a new estimate, and a positive one of a positive one.
LEMMA SampledFacts ==
  ASSUME NEW c, NEW ps, srtt[c] \in Nat, next[c] \in Nat,
         \A p \in ps : p.age \in Nat
  PROVE  Sampled(c, ps) \in Nat /\ (srtt[c] > 0 => Sampled(c, ps) > 0)
  <1> DEFINE n == next[c]
             f == CHOOSE g : Estimates(c, ps, n, g)
  <1>1. Sampled(c, ps) = f[n]
    BY DEF Sampled, Estimates
  <1>2. Estimates(c, ps, n, f)
    BY EstimatesExist
  <1> HIDE DEF f
  <1> DEFINE Good(x) == x \in Nat /\ (srtt[c] > 0 => x > 0)
             T == {m \in 0 .. n : ~ Good(f[m])}
  <1>3. SUFFICES ASSUME T # {} PROVE FALSE
    BY <1>1
  <1>4. PICK m \in T : \A y \in T : m <= y
    <2>1. T \in SUBSET Nat
      OBVIOUS
    <2> HIDE DEF T
    <2> QED BY <1>3, <2>1, Smallest
  <1>5. m \in 0 .. n /\ ~ Good(f[m])
    OBVIOUS
  <1>6. \A k \in 0 .. m - 1 : Good(f[k])
    BY <1>4, <1>5
  <1>7. f[m] = IF m = 0 THEN srtt[c]
               ELSE IF \E p \in ps : p.off = m - 1 /\ ~p.retrans
               THEN Estimate(f[m - 1], (CHOOSE p \in ps : p.off = m - 1).age)
               ELSE f[m - 1]
    BY <1>2, <1>5 DEF Estimates
  <1> HIDE DEF T
  <1>8. CASE m = 0
    BY <1>5, <1>7, <1>8
  <1>9. CASE m # 0
    <2>1. Good(f[m - 1])
      BY <1>5, <1>6, <1>9
    <2>2. CASE \E p \in ps : p.off = m - 1 /\ ~p.retrans
      <3> DEFINE q == CHOOSE p \in ps : p.off = m - 1
      <3>1. q \in ps
        BY <2>2
      <3>2. f[m] = Estimate(f[m - 1], q.age)
        BY <1>7, <1>9, <2>2
      <3> HIDE DEF q
      <3>3. q.age \in Nat
        BY <3>1
      <3>4. f[m] \in Nat \ {0}
        BY <2>1, <3>2, <3>3, EstimateFacts
      <3> QED BY <1>5, <3>4
    <2>3. CASE ~ \E p \in ps : p.off = m - 1 /\ ~p.retrans
      BY <1>5, <1>7, <1>9, <2>1, <2>3
    <2> QED BY <2>2, <2>3
  <1> QED BY <1>8, <1>9

-----------------------------------------------------------------------------
(* The inductive invariant *)

Packets == [off : Nat, age : Nat, rto : Nat \ {0}, retrans : BOOLEAN,
            did_fast_retrans : BOOLEAN]

Types ==
  /\ cstate \in [Chan -> {"none", "open", "closing"}]
  /\ next \in [Chan -> 0 .. MaxSendq]
  /\ sendq \in [Chan -> SUBSET Packets]
  /\ ts_ack \in [Chan -> 0 .. ConnTimeout + 1]
  /\ rto \in [Chan -> Nat \ {0}]
  /\ srtt \in [Chan -> Nat]
  /\ check \in 0 .. Interval
  /\ silence \in [Chan -> Nat]
  /\ passed \in [Chan -> Nat]

\* A send queue holds the packet at snd_una unless it is empty.
QueueInv ==
  \A c \in Chan :
    /\ IsFiniteSet(sendq[c])
    /\ \A p \in sendq[c] : p.off < next[c]
    /\ sendq[c] = {} => next[c] = 0 /\ silence[c] = 0
    /\ sendq[c] # {} => 0 \in Offsets(c)
    /\ cstate[c] = "none" => sendq[c] = {} /\ ts_ack[c] = 0

\* The channels before c that may have been dropped in the last x units.
Skipped(c, x) == {d \in 1 .. c - 1 : ts_ack[d] <= x}

\* Channel c is late by x, and at each check since then do_conn_retrans has
\* dropped another channel before it.
Late(c, x) ==
  x + check + 1 <= (Cardinality(Skipped(c, x)) + 1) * Interval

Prompt ==
  NoStarvation =>
    \A c \in Chan : \A p \in sendq[c] : p.age >= p.rto => Late(c, p.age - p.rto)

\* A packet is as late as the checks that have ended before its channel.
Behind ==
  \A c \in Chan : \A p \in sendq[c] :
    p.age >= p.rto => (p.age - p.rto) + check + 1 <= (passed[c] + 1) * Interval

\* The time that ghl_conn_send gains with each packet.
Round == ConnTimeout + Chans * Interval

\* The silence up to the last packet, and what has passed since then: first on
\* the clock of the channel, then because the check does not come to it.
Patient ==
  NoStarvation => \A c \in Chan :
    sendq[c] # {} =>
      \/ silence[c] <= (next[c] - 1) * Round + Smaller(ts_ack[c], ConnTimeout)
      \/ /\ ts_ack[c] = ConnTimeout + 1
         /\ \E y \in Nat :
              /\ silence[c] = (next[c] - 1) * Round + ConnTimeout + 1 + y
              /\ Late(c, y)

Inv == Types /\ QueueInv /\ Behind /\ Prompt /\ Patient

-----------------------------------------------------------------------------
(* Being late *)

LEMMA SkippedFacts ==
  ASSUME Types, NEW c \in Chan, NEW x \in Nat
  PROVE  /\ IsFiniteSet(Skipped(c, x))
         /\ Cardinality(Skipped(c, x)) \in 0 .. c - 1
  <1>1. c \in Nat /\ c >= 1 /\ c - 1 \in Nat
    BY DEF Chan
  <1>2. IsFiniteSet(1 .. c - 1) /\ Cardinality(1 .. c - 1) = c - 1
    BY <1>1, FS_Interval
  <1>3. Skipped(c, x) \subseteq 1 .. c - 1
    BY DEF Skipped
  <1>4. /\ IsFiniteSet(Skipped(c, x))
        /\ Cardinality(Skipped(c, x)) <= Cardinality(1 .. c - 1)
    BY <1>2, <1>3, FS_Subset
  <1>5. Cardinality(Skipped(c, x)) \in Nat
    BY <1>4, FS_CardinalityType
  <1> QED BY <1>1, <1>2, <1>4, <1>5

\* No channel is late for longer than a check for each channel.
LEMMA LateIsBounded ==
  ASSUME Types, NEW c \in Chan, NEW x \in Nat, Late(c, x)
  PROVE  x + 1 <= Chans * Interval
  <1> DEFINE k == Cardinality(Skipped(c, x))
  <1>1. k \in 0 .. c - 1 /\ c \in 1 .. Chans
    BY SkippedFacts DEF Chan
  <1> HIDE DEF k
  <1>2. (k + 1) * Interval <= Chans * Interval
    <2>1. k + 1 \in Nat /\ k + 1 <= Chans
      BY <1>1
    <2> QED BY <2>1, Monotone
  <1>3. x + check + 1 <= (k + 1) * Interval
    BY DEF Late, k
  <1>4. check \in Nat
    BY DEF Types
  <1>5. k + 1 \in Nat
    BY <1>1
  <1>6. (k + 1) * Interval \in Nat /\ Chans * Interval \in Nat
    BY <1>5
  <1> QED BY <1>2, <1>3, <1>4, <1>6

\* The clock goes on with the packet, and no channel becomes less skipped.
LEMMA LateGoesOn ==
  ASSUME Types, Types', NEW c \in Chan, NEW x \in Nat, NEW z \in Nat, Late(c, x),
         z + check' <= x + check,
         \A d \in Chan : ts_ack[d] <= x => ts_ack'[d] <= z
  PROVE  Late(c, z)'
  <1> DEFINE k == Cardinality(Skipped(c, x))
             l == Cardinality(Skipped(c, z)')
  <1>1. k \in 0 .. c - 1 /\ IsFiniteSet(Skipped(c, x))
    BY SkippedFacts
  <1>2. IsFiniteSet(Skipped(c, z)') /\ l \in Nat
    <2>1. Skipped(c, z)' \subseteq 1 .. c - 1 /\ IsFiniteSet(1 .. c - 1)
      BY FS_Interval DEF Skipped, Chan
    <2>2. IsFiniteSet(Skipped(c, z)')
      BY <2>1, FS_Subset
    <2> QED BY <2>2, FS_CardinalityType
  <1>3. Skipped(c, x) \subseteq Skipped(c, z)'
    BY DEF Skipped, Chan
  <1>4. k <= l
    BY <1>2, <1>3, FS_Subset
  <1> HIDE DEF k, l
  <1>5. (k + 1) * Interval <= (l + 1) * Interval
    <2>1. k + 1 \in Nat /\ l + 1 \in Nat /\ k + 1 <= l + 1
      BY <1>1, <1>2, <1>4
    <2> QED BY <2>1, Monotone
  <1>6. x + check + 1 <= (k + 1) * Interval
    BY DEF Late, k
  <1>7. check \in Nat /\ check' \in Nat
    BY DEF Types
  <1>8. z + check' + 1 <= (l + 1) * Interval
    <2> DEFINE K == (k + 1) * Interval
               L == (l + 1) * Interval
    <2>1. K \in Nat /\ L \in Nat
      <3>1. k + 1 \in Nat /\ l + 1 \in Nat
        BY <1>1, <1>2
      <3> QED BY <3>1
    <2>2. K <= L /\ x + check + 1 <= K
      BY <1>5, <1>6
    <2> HIDE DEF K, L
    <2>3. z + check' + 1 <= L
      BY <1>7, <2>1, <2>2, LaterSum
    <2> QED BY <2>3 DEF L
  <1> QED BY <1>8 DEF Late, l

\* A packet that has just become late has a check ahead.
LEMMA LateBegins ==
  ASSUME Types', NEW c \in Chan, check' < Interval
  PROVE  Late(c, 0)'
  <1> DEFINE l == Cardinality(Skipped(c, 0)')
  <1>1. l \in Nat
    <2>1. Skipped(c, 0)' \subseteq 1 .. c - 1 /\ IsFiniteSet(1 .. c - 1)
      BY FS_Interval DEF Skipped, Chan
    <2>2. IsFiniteSet(Skipped(c, 0)')
      BY <2>1, FS_Subset
    <2> QED BY <2>2, FS_CardinalityType
  <1> HIDE DEF l
  <1>2. 1 * Interval <= (l + 1) * Interval
    <2>1. l + 1 \in Nat /\ 1 <= l + 1
      BY <1>1
    <2> QED BY <2>1, Monotone
  <1>3. check' \in Nat
    BY DEF Types
  <1>4. 0 + check' + 1 <= (l + 1) * Interval
    <2>1. (l + 1) * Interval \in Nat
      <3>1. l + 1 \in Nat
        BY <1>1
      <3> QED BY <3>1
    <2> QED BY <1>2, <1>3, <2>1
  <1> QED BY <1>4 DEF Late, l

\* A check that does not come to a channel drops one before it, and the same
\* one is not dropped again for longer than any channel can be late.
LEMMA LateAtCheck ==
  ASSUME NoStarvation, Inv, Types', DoConnRetrans, NEW c \in Chan,
         cstate[c] # "none", c \notin Reached, NEW x \in Nat, Late(c, x)
  PROVE  Late(c, x)'
  <1> DEFINE T == {d \in 1 .. c - 1 : TimedOut(d)}
  <1>1. T # {} /\ T \in SUBSET Nat
    BY DEF Reached
  <1>2. PICK d \in T : \A e \in T : d <= e
    <2> HIDE DEF T
    <2> QED BY <1>1, Smallest
  <1>3. d \in 1 .. c - 1 /\ d \in Chan /\ TimedOut(d)
    BY DEF Chan
  <1>4. \A e \in 1 .. d - 1 : ~TimedOut(e)
    BY <1>2, <1>3 DEF Chan
  <1> HIDE DEF T
  <1>5. d \in Ended
    BY <1>3, <1>4 DEF Ended, Reached, TimedOut
  <1>6. ts_ack[d] \in Nat /\ ts_ack[d] > x
    <2>1. ts_ack[d] \in Nat /\ ts_ack[d] > ConnTimeout
      BY <1>3 DEF Inv, Types, TimedOut
    <2>2. x + 1 <= Chans * Interval
      BY LateIsBounded DEF Inv
    <2>3. Chans * Interval \in Nat
      BY IntervalFacts
    <2>4. Chans * Interval <= ConnTimeout
      <3>1. Chans # 1
        BY <1>3 DEF Chan
      <3> QED BY <3>1 DEF NoStarvation
    <2> DEFINE W == Chans * Interval
    <2> HIDE DEF W
    <2> QED BY <2>1, <2>2, <2>3, <2>4 DEF W
  <1>7. /\ check \in Nat /\ check' = Interval
        /\ ts_ack' = [e \in Chan |-> IF e \in Ended THEN 0 ELSE ts_ack[e]]
    BY IntervalFacts DEF DoConnRetrans, Inv, Types
  <1> DEFINE S == Skipped(c, x)
             k == Cardinality(S)
             l == Cardinality(Skipped(c, x)')
  <1>8. S \cup {d} \subseteq Skipped(c, x)' /\ d \notin S
    <2>1. \A e \in 1 .. c - 1 : e \in Chan
      BY DEF Chan
    <2>2. ts_ack'[d] = 0
      BY <1>3, <1>5, <1>7
    <2>3. \A e \in S : ts_ack'[e] <= x
      BY <1>7, <2>1 DEF Skipped
    <2> QED BY <1>3, <1>6, <2>2, <2>3 DEF Skipped
  <1>9. IsFiniteSet(S) /\ k \in Nat
    BY SkippedFacts DEF Inv
  <1>10. IsFiniteSet(Skipped(c, x)') /\ l \in Nat
    <2>1. Skipped(c, x)' \subseteq 1 .. c - 1 /\ IsFiniteSet(1 .. c - 1)
      BY FS_Interval DEF Skipped, Chan
    <2>2. IsFiniteSet(Skipped(c, x)')
      BY <2>1, FS_Subset
    <2> QED BY <2>2, FS_CardinalityType
  <1>11. k + 1 <= l
    <2>1. Cardinality(S \cup {d}) = k + 1
      BY <1>8, <1>9, FS_AddElement
    <2>2. Cardinality(S \cup {d}) <= l
      BY <1>8, <1>10, FS_Subset
    <2> QED BY <2>1, <2>2
  <1> HIDE DEF S, k, l
  <1>12. ((k + 1) + 1) * Interval <= (l + 1) * Interval
    <2>1. (k + 1) + 1 \in Nat /\ l + 1 \in Nat /\ (k + 1) + 1 <= l + 1
      BY <1>9, <1>10, <1>11
    <2> QED BY <2>1, Monotone
  <1>13. ((k + 1) + 1) * Interval = (k + 1) * Interval + Interval
    <2>1. k + 1 \in Nat
      BY <1>9
    <2> QED BY <2>1, OneMore
  <1>14. x + check + 1 <= (k + 1) * Interval
    BY DEF Late, k, S
  <1>15. x + check' + 1 <= (l + 1) * Interval
    <2>1. (k + 1) * Interval \in Nat /\ (l + 1) * Interval \in Nat
      <3>1. k + 1 \in Nat /\ l + 1 \in Nat
        BY <1>9, <1>10
      <3> QED BY <3>1
    <2> QED BY <1>7, <1>12, <1>13, <1>14, <2>1
  <1> QED BY <1>15 DEF Late, l

\* Nothing else makes a channel less late.
LEMMA LateStays ==
  ASSUME Types, Types', check' = check,
         \A d \in Chan : ts_ack'[d] = ts_ack[d] \/ ts_ack'[d] = 0,
         NEW c \in Chan, NEW x \in Nat, Late(c, x)
  PROVE  Late(c, x)'
  <1>1. x + check' <= x + check
    BY DEF Types
  <1>2. \A d \in Chan : ts_ack[d] <= x => ts_ack'[d] <= x
    OBVIOUS
  <1> QED BY <1>1, <1>2, LateGoesOn

-----------------------------------------------------------------------------
(* Silence *)

LEMMA Window ==
  ASSUME Types, QueueInv, NEW c \in Chan
  PROVE  /\ next[c] \in Nat /\ next[c] <= MaxSendq /\ sendq[c] \in SUBSET Packets
         /\ sendq[c] # {} => next[c] >= 1
  <1>1. /\ next[c] \in Nat /\ next[c] <= MaxSendq
        /\ sendq[c] \in SUBSET Packets
    BY DEF Types
  <1>2. ASSUME sendq[c] # {} PROVE next[c] >= 1
    <2>1. PICK p \in sendq[c] : p.off = 0
      BY <1>2 DEF QueueInv, Offsets
    <2>2. p.off < next[c]
      BY DEF QueueInv
    <2> QED BY <1>1, <2>1, <2>2
  <1> QED BY <1>1, <1>2

LEMMA RoundFacts ==
  /\ Chans * Interval \in Nat /\ Round \in Nat
  /\ \A n \in Nat : n >= 1 => n * Round = (n - 1) * Round + Round
                              /\ (n - 1) * Round \in Nat /\ n * Round \in Nat
  <1>1. Chans * Interval \in Nat
    OBVIOUS
  <1>2. Round \in Nat
    BY <1>1 DEF Round
  <1> HIDE DEF Round
  <1>3. ASSUME NEW n \in Nat, n >= 1
        PROVE  n * Round = (n - 1) * Round + Round
               /\ (n - 1) * Round \in Nat /\ n * Round \in Nat
    <2>1. n - 1 \in Nat /\ (n - 1) + 1 = n
      BY <1>3
    <2>2. ((n - 1) + 1) * Round = (n - 1) * Round + Round
      BY <1>2, <2>1, OneMore
    <2>3. (n - 1) * Round \in Nat /\ n * Round \in Nat
      BY <1>2, <2>1
    <2> QED BY <2>1, <2>2, <2>3
  <1> QED BY <1>1, <1>2, <1>3

\* What Patient says in one number: a round for each packet in the window.
LEMMA SilenceIsBounded ==
  ASSUME Types, QueueInv, NoStarvation, Patient, NEW c \in Chan, sendq[c] # {}
  PROVE  silence[c] <= next[c] * Round
  <1> DEFINE B == (next[c] - 1) * Round
             W == Chans * Interval
  <1>1. next[c] * Round = B + Round /\ B \in Nat /\ next[c] * Round \in Nat
    BY Window, RoundFacts
  <1>2. Round = ConnTimeout + W /\ W \in Nat
    BY RoundFacts DEF Round
  <1>3. silence[c] \in Nat /\ ts_ack[c] \in Nat
    BY DEF Types
  <1>4. CASE silence[c] <= B + Smaller(ts_ack[c], ConnTimeout)
    <2>1. Smaller(ts_ack[c], ConnTimeout) <= ConnTimeout
          /\ Smaller(ts_ack[c], ConnTimeout) \in Nat
      BY <1>3 DEF Smaller
    <2> HIDE DEF B, W
    <2> QED BY <1>1, <1>2, <1>3, <1>4, <2>1
  <1>5. CASE \E y \in Nat : silence[c] = B + ConnTimeout + 1 + y /\ Late(c, y)
    <2>1. PICK y \in Nat : silence[c] = B + ConnTimeout + 1 + y /\ Late(c, y)
      BY <1>5
    <2>2. y + 1 <= W
      BY <2>1, LateIsBounded
    <2> HIDE DEF B, W
    <2> QED BY <1>1, <1>2, <2>1, <2>2
  <1> QED BY <1>4, <1>5 DEF Patient

-----------------------------------------------------------------------------
(* The application and the peer *)

LEMMA InitKeeps ==
  ASSUME Init
  PROVE  Inv
  <1>1. Types
    BY DEF Init, Types
  <1>2. QueueInv
    <2>1. IsFiniteSet({})
      BY FS_EmptySet
    <2> QED BY <2>1 DEF Init, QueueInv
  <1>3. Behind /\ Prompt /\ Patient
    BY DEF Init, Behind, Prompt, Patient
  <1> QED BY <1>1, <1>2, <1>3 DEF Inv

LEMMA StateKeeps ==
  ASSUME Inv, NEW c \in Chan, Connect(c) \/ Close(c)
  PROVE  Inv'
  <1>1. /\ next' = next /\ sendq' = sendq /\ ts_ack' = ts_ack /\ rto' = rto
        /\ srtt' = srtt /\ check' = check /\ silence' = silence
        /\ passed' = passed
    BY DEF Connect, Close
  <1>2. cstate \in [Chan -> {"none", "open", "closing"}]
    BY DEF Inv, Types
  <1>3. cstate' \in [Chan -> {"none", "open", "closing"}]
    BY <1>2 DEF Connect, Close
  <1>4. \A d \in Chan : cstate'[d] = "none" => cstate[d] = "none"
    BY <1>2 DEF Connect, Close
  <1>5. Types'
    BY <1>1, <1>3 DEF Inv, Types
  <1>6. QueueInv'
    BY <1>1, <1>4 DEF Inv, QueueInv, Offsets
  <1>7. Prompt' /\ Patient'
    BY <1>1 DEF Inv, Prompt, Patient, Late, Skipped
  <1>8. Behind'
    BY <1>1 DEF Inv, Behind
  <1> QED BY <1>5, <1>6, <1>7, <1>8 DEF Inv

LEMMA SendKeeps ==
  ASSUME Inv, NEW c \in Chan, Send(c)
  PROVE  Inv'
  <1> DEFINE new == Pkt(next[c], rto[c])
  <1>1. /\ cstate[c] = "open" /\ next[c] < MaxSendq
        /\ next' = [next EXCEPT ![c] = @ + 1]
        /\ sendq' = [sendq EXCEPT ![c] = @ \cup {new}]
        /\ ts_ack' = IF sendq[c] = {} THEN ts_ack ELSE [ts_ack EXCEPT ![c] = 0]
        /\ cstate' = cstate /\ rto' = rto /\ srtt' = srtt /\ check' = check
        /\ silence' = silence /\ passed' = passed
    BY DEF Send, MaySend
  <1>2. Types /\ QueueInv
    BY DEF Inv
  <1>3. /\ next[c] \in Nat /\ rto[c] \in Nat \ {0} /\ new \in Packets
        /\ new.off = next[c] /\ new.age = 0 /\ new.rto = rto[c]
    BY <1>2 DEF Types, Pkt, Packets
  <1> HIDE DEF new
  <1>4. /\ next'[c] = next[c] + 1 /\ sendq'[c] = sendq[c] \cup {new}
        /\ \A d \in Chan \ {c} : next'[d] = next[d] /\ sendq'[d] = sendq[d]
        /\ \A d \in Chan \ {c} : ts_ack'[d] = ts_ack[d]
        /\ sendq[c] = {} => ts_ack'[c] = ts_ack[c]
        /\ sendq[c] # {} => ts_ack'[c] = 0
    BY <1>1, <1>2 DEF Types
  <1>5. Types'
    <2>1. next' \in [Chan -> 0 .. MaxSendq]
      BY <1>1, <1>2, <1>3 DEF Types
    <2>2. sendq' \in [Chan -> SUBSET Packets]
      BY <1>1, <1>2, <1>3 DEF Types
    <2>3. ts_ack' \in [Chan -> 0 .. ConnTimeout + 1]
      BY <1>1, <1>2 DEF Types
    <2> QED BY <1>1, <1>2, <2>1, <2>2, <2>3 DEF Types
  <1>6. QueueInv'
    <2> SUFFICES ASSUME NEW d \in Chan
                 PROVE  /\ IsFiniteSet(sendq'[d])
                        /\ \A p \in sendq'[d] : p.off < next'[d]
                        /\ sendq'[d] = {} => next'[d] = 0 /\ silence'[d] = 0
                        /\ sendq'[d] # {} => \E p \in sendq'[d] : p.off = 0
                        /\ cstate'[d] = "none" =>
                             sendq'[d] = {} /\ ts_ack'[d] = 0
      BY DEF QueueInv, Offsets
    <2>1. CASE d # c
      BY <1>1, <1>2, <1>4, <2>1 DEF QueueInv, Offsets
    <2>2. CASE d = c
      <3>1. IsFiniteSet(sendq'[c])
        <4>1. IsFiniteSet(sendq[c])
          BY <1>2 DEF QueueInv
        <4>2. IsFiniteSet(sendq[c] \cup {new})
          BY <4>1, FS_AddElement
        <4> QED BY <1>4, <4>2
      <3>2. \A p \in sendq[c] : p \in Packets /\ p.off < next[c]
        BY <1>2 DEF QueueInv, Types
      <3>3. \A p \in sendq'[c] : p.off < next'[c]
        BY <1>3, <1>4, <3>2 DEF Packets
      <3>4. \E p \in sendq'[c] : p.off = 0
        BY <1>2, <1>3, <1>4 DEF QueueInv, Offsets
      <3> QED BY <1>1, <1>4, <2>2, <3>1, <3>3, <3>4
    <2> QED BY <2>1, <2>2
  <1>7. \A d \in Chan : ts_ack'[d] = ts_ack[d] \/ ts_ack'[d] = 0
    BY <1>4
  <1>8. Prompt'
    <2> SUFFICES ASSUME NoStarvation, NEW d \in Chan, NEW p \in sendq'[d],
                        p.age >= p.rto
                 PROVE  Late(d, p.age - p.rto)'
      BY DEF Prompt
    <2>1. p \in Packets
      BY <1>5 DEF Types
    <2>2. p \in sendq[d]
      BY <1>3, <1>4, <2>1
    <2>3. Late(d, p.age - p.rto) /\ p.age - p.rto \in Nat
      BY <2>1, <2>2 DEF Inv, Prompt, Packets
    <2> QED BY <1>1, <1>2, <1>5, <1>7, <2>3, LateStays
  <1>10. Behind'
    <2> SUFFICES ASSUME NEW d \in Chan, NEW p \in sendq'[d], p.age >= p.rto
                 PROVE  (p.age - p.rto) + check + 1 <= (passed[d] + 1) * Interval
      BY <1>1 DEF Behind
    <2>1. p \in Packets
      BY <1>5 DEF Types
    <2>2. p \in sendq[d]
      BY <1>3, <1>4, <2>1
    <2> QED BY <2>2 DEF Inv, Behind
  <1>9. Patient'
    <2> SUFFICES ASSUME NoStarvation, NEW d \in Chan, sendq'[d] # {}
                 PROVE  \/ silence[d] <= (next'[d] - 1) * Round
                                            + Smaller(ts_ack'[d], ConnTimeout)
                        \/ /\ ts_ack'[d] = ConnTimeout + 1
                           /\ \E y \in Nat :
                                /\ silence[d] = (next'[d] - 1) * Round
                                                    + ConnTimeout + 1 + y
                                /\ Late(d, y)'
      BY <1>1 DEF Patient
    <2>1. CASE d # c
      <3>1. next'[d] = next[d] /\ sendq[d] # {} /\ ts_ack'[d] = ts_ack[d]
        BY <1>4, <2>1
      <3>2. \A y \in Nat : Late(d, y) => Late(d, y)'
        BY <1>1, <1>2, <1>5, <1>7, LateStays
      <3> QED BY <3>1, <3>2 DEF Inv, Patient
    <2>2. CASE d = c /\ sendq[c] = {}
      <3>1. silence[c] = 0 /\ next'[c] - 1 = 0
        BY <1>2, <1>3, <1>4, <2>2 DEF QueueInv
      <3>2. Smaller(ts_ack'[c], ConnTimeout) \in Nat
        BY <1>5 DEF Types, Smaller
      <3>3. 0 * Round = 0
        BY RoundFacts
      <3> QED BY <2>2, <3>1, <3>2, <3>3
    <2>3. CASE d = c /\ sendq[c] # {}
      <3>1. silence[c] <= next[c] * Round
        BY <1>2, <2>3, SilenceIsBounded DEF Inv
      <3>2. next'[c] - 1 = next[c] /\ Smaller(ts_ack'[c], ConnTimeout) = 0
        BY <1>3, <1>4, <2>3 DEF Smaller
      <3>3. next[c] * Round \in Nat
        BY <1>3, RoundFacts
      <3> QED BY <2>3, <3>1, <3>2, <3>3
    <2> QED BY <2>1, <2>2, <2>3
  <1> QED BY <1>5, <1>6, <1>8, <1>9, <1>10 DEF Inv

LEMMA ImageIsFinite ==
  ASSUME NEW S, IsFiniteSet(S), NEW f
  PROVE  IsFiniteSet({f[x] : x \in S})
  <1> DEFINE T == {f[x] : x \in S}
             g == [x \in S |-> f[x]]
  <1>1. g \in Surjection(S, T)
    BY DEF Surjection
  <1> HIDE DEF T, g
  <1>2. IsFiniteSet(T)
    BY <1>1, FS_Surjection
  <1> QED BY <1>2 DEF T

LEMMA SampleFacts ==
  ASSUME Types, NEW c \in Chan, NEW ps \in SUBSET sendq[c], Sample(c, ps)
  PROVE  /\ srtt' \in [Chan -> Nat] /\ rto' \in [Chan -> Nat \ {0}]
         /\ \A d \in Chan : srtt[d] > 0 => srtt'[d] > 0
  <1>1. CASE \A p \in ps : p.retrans
    <2>1. srtt' = srtt /\ rto' = rto
      BY <1>1 DEF Sample
    <2> QED BY <2>1 DEF Types
  <1>2. CASE ~ \A p \in ps : p.retrans
    <2>1. /\ srtt' = [srtt EXCEPT ![c] = Sampled(c, ps)]
          /\ rto' = [rto EXCEPT ![c] = Timeout(srtt'[c])]
      BY <1>2 DEF Sample
    <2>2. \A p \in ps : p.age \in Nat
      BY DEF Types, Packets
    <2>3. Sampled(c, ps) \in Nat /\ (srtt[c] > 0 => Sampled(c, ps) > 0)
      BY <2>2, SampledFacts DEF Types
    <2>4. /\ srtt' \in [Chan -> Nat] /\ srtt'[c] = Sampled(c, ps)
          /\ \A d \in Chan \ {c} : srtt'[d] = srtt[d]
      BY <2>1, <2>3 DEF Types
    <2>5. Timeout(srtt'[c]) \in Nat \ {0}
      BY <2>3, <2>4, TimeoutFacts
    <2>6. rto' \in [Chan -> Nat \ {0}]
      BY <2>1, <2>5 DEF Types
    <2> QED BY <2>3, <2>4, <2>6
  <1> QED BY <1>1, <1>2

\* An acknowledgement of everything before una: the packet at una, which the
\* peer has not received, is the oldest one left.
LEMMA AcknowledgeKeeps ==
  ASSUME Inv, NEW c \in Chan, cstate[c] # "none",
         NEW una \in Expected(c), NEW removed \in SUBSET sendq[c],
         NEW kept \in SUBSET Packets, IsFiniteSet(kept),
         Acknowledge(c, una, removed, kept),
         \A p \in sendq[c] : p.off < una => p \in removed,
         \A q \in kept : \E p \in sendq[c] \ removed :
           p.off = q.off /\ p.rto = q.rto /\ (q.age = p.age \/ q.age = 0),
         una = next[c] \/ \E q \in kept : q.off = una,
         una = 0 => ts_ack' = ts_ack,
         ts_ack' = ts_ack \/ ts_ack' = [ts_ack EXCEPT ![c] = 0]
  PROVE  Inv'
  <1> DEFINE moved == {[p EXCEPT !.off = @ - una] : p \in kept}
  <1>1. /\ next' = [next EXCEPT ![c] = @ - una]
        /\ sendq' = [sendq EXCEPT ![c] = moved]
        /\ Sample(c, removed)
        /\ silence' = IF removed = {} THEN silence ELSE [silence EXCEPT ![c] = 0]
        /\ cstate' = cstate /\ check' = check /\ passed' = passed
    BY DEF Acknowledge
  <1>2. Types /\ QueueInv
    BY DEF Inv
  <1>3. /\ next[c] \in Nat /\ next[c] <= MaxSendq
        /\ \A p \in sendq[c] : p \in Packets /\ p.off < next[c]
    BY <1>2, Window DEF QueueInv
  <1>4. una \in Nat /\ una <= next[c]
    <2>1. CASE una = next[c]
      BY <1>3, <2>1
    <2>2. CASE una \in Offsets(c)
      <3>1. PICK p \in sendq[c] : p.off = una
        BY <2>2 DEF Offsets
      <3>2. p \in Packets /\ una < next[c]
        BY <1>3, <3>1
      <3>3. una \in Nat
        BY <3>1, <3>2 DEF Packets
      <3> QED BY <1>3, <3>2, <3>3
    <2> QED BY <2>1, <2>2 DEF Expected
  <1>5. \A q \in kept : q.off \in Nat /\ una <= q.off /\ q.off < next[c]
    <2> SUFFICES ASSUME NEW q \in kept
                 PROVE  q.off \in Nat /\ una <= q.off /\ q.off < next[c]
      OBVIOUS
    <2>1. PICK p \in sendq[c] \ removed : p.off = q.off
      OBVIOUS
    <2>2. p.off \in Nat /\ p.off < next[c]
      BY <1>3, <2>1 DEF Packets
    <2>3. ~(p.off < una)
      BY <2>1
    <2> QED BY <1>4, <2>1, <2>2, <2>3
  <1>6. ASSUME NEW q \in kept
        PROVE  LET p == [q EXCEPT !.off = @ - una]
               IN  /\ p \in Packets /\ p.off = q.off - una
                   /\ p.age = q.age /\ p.rto = q.rto
    <2>1. q \in Packets /\ q.off - una \in Nat
      BY <1>4, <1>5
    <2> QED BY <2>1 DEF Packets
  <1>7. ASSUME NEW p \in moved
        PROVE  p \in Packets /\ \E q \in kept :
                 p.off = q.off - una /\ p.age = q.age /\ p.rto = q.rto
    <2>1. PICK q \in kept : p = [q EXCEPT !.off = @ - una]
      OBVIOUS
    <2>2. /\ p \in Packets /\ p.off = q.off - una
          /\ p.age = q.age /\ p.rto = q.rto
      BY <1>6, <2>1
    <2> QED BY <2>2
  <1>8. IsFiniteSet(moved)
    <2> DEFINE f == [q \in kept |-> [q EXCEPT !.off = @ - una]]
    <2>1. moved = {f[q] : q \in kept}
      OBVIOUS
    <2> HIDE DEF f, moved
    <2> QED BY <2>1, ImageIsFinite
  <1>9. (\E q \in kept : q.off = una) => \E p \in moved : p.off = 0
    <2> SUFFICES ASSUME NEW q \in kept, q.off = una
                 PROVE  \E p \in moved : p.off = 0
      OBVIOUS
    <2>1. [q EXCEPT !.off = @ - una].off = q.off - una
      BY <1>6
    <2>2. q.off - una = 0
      BY <1>4
    <2> QED BY <2>1, <2>2
  <1>10. moved # {} => \E p \in moved : p.off = 0
    <2> SUFFICES ASSUME NEW q \in kept PROVE \E r \in kept : r.off = una
      BY <1>9
    <2>1. una # next[c]
      BY <1>3, <1>4, <1>5
    <2> QED BY <2>1
  <1>11. moved = {} => una = next[c]
    BY <1>9
  <1> HIDE DEF moved
  <1>12. /\ next'[c] = next[c] - una /\ sendq'[c] = moved
         /\ \A d \in Chan \ {c} : next'[d] = next[d] /\ sendq'[d] = sendq[d]
    BY <1>1, <1>2 DEF Types
  <1>13. /\ removed # {} => silence'[c] = 0
         /\ removed = {} => silence'[c] = silence[c]
         /\ \A d \in Chan \ {c} : silence'[d] = silence[d]
    BY <1>1, <1>2 DEF Types
  <1>14. /\ \A d \in Chan : ts_ack'[d] = ts_ack[d] \/ ts_ack'[d] = 0
         /\ \A d \in Chan \ {c} : ts_ack'[d] = ts_ack[d]
    BY <1>2 DEF Types
  <1>15. removed = {} => una = 0
    <2> SUFFICES ASSUME una # 0 PROVE removed # {}
      OBVIOUS
    <2>1. next[c] # 0
      BY <1>3, <1>4
    <2>2. PICK p \in sendq[c] : p.off = 0
      BY <1>2, <2>1 DEF QueueInv, Offsets
    <2>3. p.off < una
      BY <1>4, <2>2
    <2> QED BY <2>3
  <1>16. Types'
    <2>1. next' \in [Chan -> 0 .. MaxSendq]
      <3>1. next[c] - una \in 0 .. MaxSendq
        BY <1>3, <1>4
      <3> QED BY <1>1, <1>2, <3>1 DEF Types
    <2>2. sendq' \in [Chan -> SUBSET Packets]
      <3>1. moved \in SUBSET Packets
        BY <1>7
      <3> QED BY <1>1, <1>2, <3>1 DEF Types
    <2>3. ts_ack' \in [Chan -> 0 .. ConnTimeout + 1]
      BY <1>2 DEF Types
    <2>4. silence' \in [Chan -> Nat]
      BY <1>1, <1>2 DEF Types
    <2>5. srtt' \in [Chan -> Nat] /\ rto' \in [Chan -> Nat \ {0}]
      BY <1>1, <1>2, SampleFacts
    <2> QED BY <1>1, <1>2, <2>1, <2>2, <2>3, <2>4, <2>5 DEF Types
  <1>17. QueueInv'
    <2> SUFFICES ASSUME NEW d \in Chan
                 PROVE  /\ IsFiniteSet(sendq'[d])
                        /\ \A p \in sendq'[d] : p.off < next'[d]
                        /\ sendq'[d] = {} => next'[d] = 0 /\ silence'[d] = 0
                        /\ sendq'[d] # {} => \E p \in sendq'[d] : p.off = 0
                        /\ cstate'[d] = "none" =>
                             sendq'[d] = {} /\ ts_ack'[d] = 0
      BY DEF QueueInv, Offsets
    <2>1. CASE d # c
      BY <1>1, <1>2, <1>12, <1>13, <1>14, <2>1 DEF QueueInv, Offsets
    <2>2. CASE d = c
      <3>1. \A p \in moved : p.off < next[c] - una
        <4> SUFFICES ASSUME NEW p \in moved PROVE p.off < next[c] - una
          OBVIOUS
        <4>1. PICK q \in kept : p.off = q.off - una
          BY <1>7
        <4>2. q.off \in Nat /\ q.off < next[c]
          BY <1>5
        <4> QED BY <1>3, <1>4, <4>1, <4>2
      <3>2. moved = {} => next[c] - una = 0 /\ silence'[c] = 0
        <4> SUFFICES ASSUME moved = {}
                     PROVE  next[c] - una = 0 /\ silence'[c] = 0
          OBVIOUS
        <4>1. una = next[c]
          BY <1>11
        <4>2. removed = {} => next[c] = 0
          BY <1>15, <4>1
        <4>3. next[c] = 0 => silence[c] = 0
          <5>1. next[c] = 0 => sendq[c] = {}
            BY <1>2, Window
          <5> QED BY <1>2, <5>1 DEF QueueInv
        <4> QED BY <1>3, <1>13, <4>1, <4>2, <4>3
      <3> QED BY <1>1, <1>8, <1>10, <1>12, <2>2, <3>1, <3>2
    <2> QED BY <2>1, <2>2
  <1>18. ASSUME NEW d \in Chan, NEW p \in sendq'[d], p.age >= p.rto
         PROVE  \E q \in sendq[d] : q.age = p.age /\ q.rto = p.rto
    <2>1. p \in Packets
      BY <1>16 DEF Types
    <2>2. \E q \in sendq[d] : q.age = p.age /\ q.rto = p.rto
      <3>1. CASE d # c
        BY <1>12, <3>1
      <3>2. CASE d = c
        <4>1. PICK k \in kept : p.age = k.age /\ p.rto = k.rto
          BY <1>7, <1>12, <3>2
        <4>2. PICK q \in sendq[c] : q.rto = k.rto /\ (k.age = q.age \/ k.age = 0)
          OBVIOUS
        <4>3. k.age # 0
          BY <1>18, <2>1, <4>1 DEF Packets
        <4> QED BY <3>2, <4>1, <4>2, <4>3
      <3> QED BY <3>1, <3>2
    <2> QED BY <2>2
  <1>20. Behind'
    <2> SUFFICES ASSUME NEW d \in Chan, NEW p \in sendq'[d], p.age >= p.rto
                 PROVE  (p.age - p.rto) + check + 1 <= (passed[d] + 1) * Interval
      BY <1>1 DEF Behind
    <2>1. PICK q \in sendq[d] : q.age = p.age /\ q.rto = p.rto
      BY <1>18
    <2> QED BY <2>1 DEF Inv, Behind
  <1>21. Prompt'
    <2> SUFFICES ASSUME NoStarvation, NEW d \in Chan, NEW p \in sendq'[d],
                        p.age >= p.rto
                 PROVE  Late(d, p.age - p.rto)'
      BY DEF Prompt
    <2>1. p \in Packets
      BY <1>16 DEF Types
    <2>2. PICK q \in sendq[d] : q.age = p.age /\ q.rto = p.rto
      BY <1>18
    <2>3. Late(d, p.age - p.rto)
      BY <2>2 DEF Inv, Prompt
    <2>4. p.age - p.rto \in Nat
      BY <2>1 DEF Packets
    <2> QED BY <1>1, <1>2, <1>14, <1>16, <2>3, <2>4, LateStays
  <1>19. Patient'
    <2> SUFFICES ASSUME NoStarvation, NEW d \in Chan, sendq'[d] # {}
                 PROVE  \/ silence'[d] <= (next'[d] - 1) * Round
                                            + Smaller(ts_ack'[d], ConnTimeout)
                        \/ /\ ts_ack'[d] = ConnTimeout + 1
                           /\ \E y \in Nat :
                                /\ silence'[d] = (next'[d] - 1) * Round
                                                    + ConnTimeout + 1 + y
                                /\ Late(d, y)'
      BY DEF Patient
    <2>1. CASE d # c \/ removed = {}
      <3>1. /\ next'[d] = next[d] /\ ts_ack'[d] = ts_ack[d]
            /\ silence'[d] = silence[d]
        <4>1. CASE d # c
          BY <1>12, <1>13, <1>14, <4>1
        <4>2. CASE d = c /\ removed = {}
          BY <1>3, <1>12, <1>13, <1>15, <4>2
        <4> QED BY <2>1, <4>1, <4>2
      <3>2. sendq[d] # {}
        <4>1. CASE d # c
          BY <1>12, <4>1
        <4>2. CASE d = c
          BY <1>7, <1>12, <4>2
        <4> QED BY <4>1, <4>2
      <3>3. \A y \in Nat : Late(d, y) => Late(d, y)'
        BY <1>1, <1>2, <1>14, <1>16, LateStays
      <3> QED BY <3>1, <3>2, <3>3 DEF Inv, Patient
    <2>2. CASE d = c /\ removed # {}
      <3>1. silence'[c] = 0
        BY <1>13, <2>2
      <3>2. next'[c] \in Nat /\ next'[c] >= 1
        BY <1>16, <1>17, <2>2, Window DEF Types, QueueInv, Offsets
      <3>3. (next'[c] - 1) * Round \in Nat
        BY <3>2, RoundFacts
      <3>4. Smaller(ts_ack'[c], ConnTimeout) \in Nat
        BY <1>16 DEF Types, Smaller
      <3> QED BY <2>2, <3>1, <3>3, <3>4
    <2> QED BY <2>1, <2>2
  <1> QED BY <1>16, <1>17, <1>19, <1>20, <1>21 DEF Inv

LEMMA FastRetransFacts ==
  ASSUME NEW p \in Packets, NEW seq
  PROVE  /\ FastRetrans(p, seq) \in Packets
         /\ FastRetrans(p, seq).off = p.off /\ FastRetrans(p, seq).rto = p.rto
         /\ FastRetrans(p, seq).age = p.age \/ FastRetrans(p, seq).age = 0
  <1>1. CASE p.off < seq /\ ~p.did_fast_retrans
    <2> DEFINE q == [p EXCEPT !.age = 0, !.retrans = TRUE,
                              !.did_fast_retrans = TRUE]
    <2>1. FastRetrans(p, seq) = q
      BY <1>1 DEF FastRetrans
    <2>2. q \in Packets
      BY DEF Packets
    <2>3. q.off = p.off /\ q.rto = p.rto /\ q.age = 0
      BY DEF Packets
    <2> QED BY <2>1, <2>2, <2>3
  <1>2. CASE ~(p.off < seq /\ ~p.did_fast_retrans)
    <2>1. FastRetrans(p, seq) = p
      BY <1>2 DEF FastRetrans
    <2> QED BY <2>1
  <1> QED BY <1>1, <1>2

LEMMA RecvAckKeeps ==
  ASSUME Inv, NEW c \in Chan, RecvAck(c)
  PROVE  Inv'
  <1>1. PICK una \in Expected(c) : \E seq \in (0 .. (next[c] - 1)) \ {una} :
          LET removed == {p \in sendq[c] : p.off < una \/ p.off = seq} IN
          /\ cstate[c] # "none"
          /\ Acknowledge(c, una, removed,
                         {FastRetrans(p, seq) : p \in sendq[c] \ removed})
          /\ ts_ack' = IF una > 0 THEN [ts_ack EXCEPT ![c] = 0] ELSE ts_ack
    BY DEF RecvAck
  <1>2. PICK seq \in (0 .. (next[c] - 1)) \ {una} :
          LET removed == {p \in sendq[c] : p.off < una \/ p.off = seq} IN
          /\ cstate[c] # "none"
          /\ Acknowledge(c, una, removed,
                         {FastRetrans(p, seq) : p \in sendq[c] \ removed})
          /\ ts_ack' = IF una > 0 THEN [ts_ack EXCEPT ![c] = 0] ELSE ts_ack
    BY <1>1
  <1> DEFINE removed == {p \in sendq[c] : p.off < una \/ p.off = seq}
             kept == {FastRetrans(p, seq) : p \in sendq[c] \ removed}
  <1>3. /\ cstate[c] # "none" /\ Acknowledge(c, una, removed, kept)
        /\ ts_ack' = IF una > 0 THEN [ts_ack EXCEPT ![c] = 0] ELSE ts_ack
    BY <1>2
  <1>4. removed \in SUBSET sendq[c]
        /\ \A p \in sendq[c] : p.off < una => p \in removed
    OBVIOUS
  <1>5. \A p \in sendq[c] : p \in Packets
    BY DEF Inv, Types
  <1>6. kept \in SUBSET Packets
    BY <1>5, FastRetransFacts
  <1>7. IsFiniteSet(kept)
    <2> DEFINE S == sendq[c] \ removed
               f == [p \in S |-> FastRetrans(p, seq)]
    <2>1. kept = {f[p] : p \in S}
      OBVIOUS
    <2>2. IsFiniteSet(S)
      <3>1. IsFiniteSet(sendq[c]) /\ S \subseteq sendq[c]
        BY DEF Inv, QueueInv
      <3> HIDE DEF S
      <3> QED BY <3>1, FS_Subset
    <2> HIDE DEF S, f, kept
    <2> QED BY <2>1, <2>2, ImageIsFinite
  <1>8. \A q \in kept : \E p \in sendq[c] \ removed :
           p.off = q.off /\ p.rto = q.rto /\ (q.age = p.age \/ q.age = 0)
    <2> SUFFICES ASSUME NEW p \in sendq[c] \ removed
                 PROVE  /\ p.off = FastRetrans(p, seq).off
                        /\ p.rto = FastRetrans(p, seq).rto
                        /\ \/ FastRetrans(p, seq).age = p.age
                           \/ FastRetrans(p, seq).age = 0
      OBVIOUS
    <2> QED BY <1>5, FastRetransFacts
  <1>9. una = next[c] \/ \E q \in kept : q.off = una
    <2> SUFFICES ASSUME una # next[c] PROVE \E q \in kept : q.off = una
      OBVIOUS
    <2>1. PICK p \in sendq[c] : p.off = una
      BY DEF Expected, Offsets
    <2>2. p.off \in Nat /\ ~(p.off < una) /\ p.off # seq
      BY <1>5, <2>1 DEF Packets
    <2>3. p \in sendq[c] \ removed
      BY <2>2
    <2>4. FastRetrans(p, seq) \in kept /\ FastRetrans(p, seq).off = una
      BY <1>5, <2>1, <2>3, FastRetransFacts
    <2> QED BY <2>4
  <1> HIDE DEF removed, kept
  <1>10. una = 0 => ts_ack' = ts_ack
    BY <1>3
  <1>11. ts_ack' = ts_ack \/ ts_ack' = [ts_ack EXCEPT ![c] = 0]
    BY <1>3
  <1> QED BY <1>3, <1>4, <1>6, <1>7, <1>8, <1>9, <1>10, <1>11, AcknowledgeKeeps

LEMMA RecvDataKeeps ==
  ASSUME Inv, NEW c \in Chan, RecvData(c)
  PROVE  Inv'
  <1>1. PICK una \in Expected(c) \ {0} :
          LET removed == {p \in sendq[c] : p.off < una} IN
          /\ cstate[c] = "open"
          /\ Acknowledge(c, una, removed, sendq[c] \ removed)
          /\ UNCHANGED ts_ack
    BY DEF RecvData
  <1> DEFINE removed == {p \in sendq[c] : p.off < una}
             kept == sendq[c] \ removed
  <1>2. /\ cstate[c] # "none" /\ Acknowledge(c, una, removed, kept)
        /\ ts_ack' = ts_ack
    BY <1>1
  <1>3. removed \in SUBSET sendq[c]
        /\ \A p \in sendq[c] : p.off < una => p \in removed
    OBVIOUS
  <1>4. kept \in SUBSET Packets
    BY DEF Inv, Types
  <1>5. IsFiniteSet(kept)
    <2>1. IsFiniteSet(sendq[c]) /\ kept \subseteq sendq[c]
      BY DEF Inv, QueueInv
    <2> HIDE DEF kept
    <2> QED BY <2>1, FS_Subset
  <1>6. \A q \in kept : \E p \in sendq[c] \ removed :
           p.off = q.off /\ p.rto = q.rto /\ (q.age = p.age \/ q.age = 0)
    OBVIOUS
  <1>7. una = next[c] \/ \E q \in kept : q.off = una
    <2> SUFFICES ASSUME una # next[c] PROVE \E q \in kept : q.off = una
      OBVIOUS
    <2>1. PICK p \in sendq[c] : p.off = una
      BY DEF Expected, Offsets
    <2>2. p.off \in Nat
      BY <2>1 DEF Inv, Types, Packets
    <2>3. ~(p.off < una)
      BY <2>1, <2>2
    <2> QED BY <2>1, <2>3
  <1> HIDE DEF removed, kept
  <1> QED BY <1>2, <1>3, <1>4, <1>5, <1>6, <1>7, AcknowledgeKeeps

-----------------------------------------------------------------------------
(* The clock *)

LEMMA TickKeeps ==
  ASSUME Inv, Tick
  PROVE  Inv'
  <1>1. /\ check > 0 /\ check' = check - 1
        /\ sendq' = [c \in Chan |-> {[p EXCEPT !.age = @ + 1] : p \in sendq[c]}]
        /\ ts_ack' = [c \in Chan |-> IF cstate[c] = "none" THEN 0
                                     ELSE Smaller(ts_ack[c] + 1, ConnTimeout + 1)]
        /\ silence' = [c \in Chan |-> IF sendq[c] = {} THEN 0 ELSE silence[c] + 1]
        /\ cstate' = cstate /\ next' = next /\ rto' = rto /\ srtt' = srtt
        /\ passed' = passed
    BY DEF Tick
  <1>2. Types /\ QueueInv
    BY DEF Inv
  <1>3. \A c \in Chan : \A p \in sendq[c] : p \in Packets
    BY <1>2 DEF Types
  <1>4. ASSUME NEW c \in Chan, NEW p \in sendq'[c]
        PROVE  \E q \in sendq[c] : /\ p \in Packets /\ q \in Packets
                                   /\ p.off = q.off /\ p.rto = q.rto
                                   /\ p.age = q.age + 1
    <2>1. PICK q \in sendq[c] : p = [q EXCEPT !.age = @ + 1]
      BY <1>1
    <2>2. q \in Packets
      BY <1>3
    <2> QED BY <2>1, <2>2 DEF Packets
  <1>5. \A c \in Chan : sendq'[c] = {} <=> sendq[c] = {}
    BY <1>1
  <1>6. check \in Nat /\ check' \in Nat /\ check' < Interval
        /\ check' + 1 = check
    BY <1>1, <1>2 DEF Types
  <1>7. Types'
    <2>1. sendq' \in [Chan -> SUBSET Packets]
      <3>1. \A c \in Chan : sendq'[c] \in SUBSET Packets
        BY <1>4
      <3> QED BY <1>1, <3>1
    <2>2. ts_ack' \in [Chan -> 0 .. ConnTimeout + 1]
      <3>1. \A c \in Chan : Smaller(ts_ack[c] + 1, ConnTimeout + 1)
                              \in 0 .. ConnTimeout + 1
        BY <1>2 DEF Types, Smaller
      <3> QED BY <1>1, <3>1
    <2>3. silence' \in [Chan -> Nat]
      <3>1. \A c \in Chan : silence[c] + 1 \in Nat
        BY <1>2 DEF Types
      <3> QED BY <1>1, <3>1
    <2>4. check' \in 0 .. Interval
      BY <1>6
    <2> QED BY <1>1, <1>2, <2>1, <2>2, <2>3, <2>4 DEF Types
  <1>8. QueueInv'
    <2> SUFFICES ASSUME NEW c \in Chan
                 PROVE  /\ IsFiniteSet(sendq'[c])
                        /\ \A p \in sendq'[c] : p.off < next'[c]
                        /\ sendq'[c] = {} => next'[c] = 0 /\ silence'[c] = 0
                        /\ sendq'[c] # {} => \E p \in sendq'[c] : p.off = 0
                        /\ cstate'[c] = "none" =>
                             sendq'[c] = {} /\ ts_ack'[c] = 0
      BY DEF QueueInv, Offsets
    <2>1. IsFiniteSet(sendq'[c])
      <3> DEFINE f == [p \in sendq[c] |-> [p EXCEPT !.age = @ + 1]]
      <3>1. sendq'[c] = {f[p] : p \in sendq[c]}
        BY <1>1
      <3>2. IsFiniteSet(sendq[c])
        BY <1>2 DEF QueueInv
      <3> HIDE DEF f
      <3>3. IsFiniteSet({f[p] : p \in sendq[c]})
        BY <3>2, ImageIsFinite
      <3> QED BY <3>1, <3>3
    <2>2. \A p \in sendq'[c] : p.off < next'[c]
      <3> SUFFICES ASSUME NEW p \in sendq'[c] PROVE p.off < next'[c]
        OBVIOUS
      <3>1. PICK q \in sendq[c] : p.off = q.off
        BY <1>4
      <3> QED BY <1>1, <1>2, <3>1 DEF QueueInv
    <2>3. sendq'[c] # {} => \E p \in sendq'[c] : p.off = 0
      <3> SUFFICES ASSUME sendq'[c] # {} PROVE \E p \in sendq'[c] : p.off = 0
        OBVIOUS
      <3>1. PICK q \in sendq[c] : q.off = 0
        BY <1>2, <1>5 DEF QueueInv, Offsets
      <3>2. [q EXCEPT !.age = @ + 1].off = 0
        BY <1>3, <3>1 DEF Packets
      <3> QED BY <1>1, <3>2
    <2>4. sendq'[c] = {} => next'[c] = 0 /\ silence'[c] = 0
      BY <1>1, <1>2, <1>5 DEF QueueInv
    <2>5. cstate'[c] = "none" => sendq'[c] = {} /\ ts_ack'[c] = 0
      BY <1>1, <1>2, <1>5 DEF QueueInv
    <2> QED BY <2>1, <2>2, <2>3, <2>4, <2>5
  <1>9. ASSUME NEW c \in Chan, NEW x \in Nat, Late(c, x)
        PROVE  Late(c, x + 1)'
    <2>1. (x + 1) + check' <= x + check
      BY <1>6, TickSum
    <2>2. \A d \in Chan : ts_ack[d] <= x => ts_ack'[d] <= x + 1
      <3> SUFFICES ASSUME NEW d \in Chan, ts_ack[d] <= x
                   PROVE  ts_ack'[d] <= x + 1
        OBVIOUS
      <3>1. ts_ack[d] \in Nat
        BY <1>2 DEF Types
      <3>2. Smaller(ts_ack[d] + 1, ConnTimeout + 1) <= ts_ack[d] + 1
        BY <3>1 DEF Smaller
      <3>3. Smaller(ts_ack[d] + 1, ConnTimeout + 1) \in Nat
        BY <3>1 DEF Smaller
      <3> QED BY <1>1, <3>1, <3>2, <3>3
    <2>3. x + 1 \in Nat
      OBVIOUS
    <2> QED BY <1>2, <1>7, <1>9, <2>1, <2>2, <2>3, LateGoesOn
  <1>10. Prompt'
    <2> SUFFICES ASSUME NoStarvation, NEW c \in Chan, NEW p \in sendq'[c],
                        p.age >= p.rto
                 PROVE  Late(c, p.age - p.rto)'
      BY DEF Prompt
    <2>1. PICK q \in sendq[c] : /\ p \in Packets /\ q \in Packets
                                /\ p.off = q.off /\ p.rto = q.rto
                                /\ p.age = q.age + 1
      BY <1>4
    <2>2. q.age \in Nat /\ q.rto \in Nat
      BY <2>1 DEF Packets
    <2>3. CASE q.age >= q.rto
      <3>1. Late(c, q.age - q.rto)
        BY <2>3 DEF Inv, Prompt
      <3>2. q.age - q.rto \in Nat
        BY <2>2, <2>3
      <3>3. Late(c, (q.age - q.rto) + 1)'
        BY <1>9, <3>1, <3>2
      <3>4. (q.age - q.rto) + 1 = p.age - p.rto
        BY <2>1, <2>2
      <3> QED BY <3>3, <3>4
    <2>4. CASE ~(q.age >= q.rto)
      <3>1. p.age - p.rto = 0
        BY <2>1, <2>2, <2>4
      <3>2. Late(c, 0)'
        BY <1>6, <1>7, LateBegins
      <3> QED BY <3>1, <3>2
    <2> QED BY <2>3, <2>4
  <1>11. Patient'
    <2> SUFFICES ASSUME NoStarvation, NEW c \in Chan, sendq'[c] # {}
                 PROVE  \/ silence'[c] <= (next'[c] - 1) * Round
                                            + Smaller(ts_ack'[c], ConnTimeout)
                        \/ /\ ts_ack'[c] = ConnTimeout + 1
                           /\ \E y \in Nat :
                                /\ silence'[c] = (next'[c] - 1) * Round
                                                    + ConnTimeout + 1 + y
                                /\ Late(c, y)'
      BY DEF Patient
    <2> DEFINE B == (next[c] - 1) * Round
    <2>1. B \in Nat
      BY <1>2, <1>5, Window, RoundFacts
    <2>2. /\ silence'[c] = silence[c] + 1 /\ silence[c] \in Nat
          /\ (next'[c] - 1) * Round = B
          /\ ts_ack'[c] = Smaller(ts_ack[c] + 1, ConnTimeout + 1)
          /\ ts_ack[c] \in 0 .. ConnTimeout + 1
      BY <1>1, <1>2, <1>5 DEF Types, QueueInv
    <2>3. \/ silence[c] <= B + Smaller(ts_ack[c], ConnTimeout)
          \/ /\ ts_ack[c] = ConnTimeout + 1
             /\ \E y \in Nat : silence[c] = B + ConnTimeout + 1 + y /\ Late(c, y)
      BY <1>5 DEF Inv, Patient
    <2> HIDE DEF B
    <2>4. CASE /\ silence[c] <= B + Smaller(ts_ack[c], ConnTimeout)
               /\ ts_ack[c] < ConnTimeout
      <3>1. silence'[c] <= B + Smaller(ts_ack'[c], ConnTimeout)
        BY <2>1, <2>2, <2>4 DEF Smaller
      <3> QED BY <2>2, <3>1
    <2>5. CASE /\ silence[c] <= B + Smaller(ts_ack[c], ConnTimeout)
               /\ ~(ts_ack[c] < ConnTimeout)
      <3>1. silence[c] <= B + ConnTimeout /\ ts_ack'[c] = ConnTimeout + 1
            /\ Smaller(ts_ack'[c], ConnTimeout) = ConnTimeout
        BY <2>1, <2>2, <2>5 DEF Smaller
      <3>2. CASE silence[c] < B + ConnTimeout
        <4>1. silence'[c] <= B + ConnTimeout
          BY <2>1, <2>2, <3>2
        <4> QED BY <2>2, <3>1, <4>1
      <3>3. CASE silence[c] = B + ConnTimeout
        <4>1. silence'[c] = B + ConnTimeout + 1 + 0
          BY <2>1, <2>2, <3>3
        <4>2. Late(c, 0)'
          BY <1>6, <1>7, LateBegins
        <4> QED BY <2>2, <3>1, <4>1, <4>2
      <3> QED BY <2>1, <2>2, <3>1, <3>2, <3>3
    <2>6. CASE /\ ts_ack[c] = ConnTimeout + 1
               /\ \E y \in Nat : silence[c] = B + ConnTimeout + 1 + y /\ Late(c, y)
      <3>1. PICK y \in Nat : silence[c] = B + ConnTimeout + 1 + y /\ Late(c, y)
        BY <2>6
      <3>2. Late(c, y + 1)' /\ y + 1 \in Nat
        BY <1>9, <3>1
      <3>3. silence'[c] = B + ConnTimeout + 1 + (y + 1)
        BY <2>1, <2>2, <3>1
      <3>4. ts_ack'[c] = ConnTimeout + 1
        BY <2>2, <2>6 DEF Smaller
      <3> QED BY <2>2, <3>2, <3>3, <3>4
    <2> QED BY <2>3, <2>4, <2>5, <2>6
  <1>12. Behind'
    <2> SUFFICES ASSUME NEW c \in Chan, NEW p \in sendq'[c], p.age >= p.rto
                 PROVE  (p.age - p.rto) + check' + 1 <= (passed[c] + 1) * Interval
      BY <1>1 DEF Behind
    <2>1. PICK q \in sendq[c] : /\ p \in Packets /\ q \in Packets
                                /\ p.off = q.off /\ p.rto = q.rto
                                /\ p.age = q.age + 1
      BY <1>4
    <2>2. q.age \in Nat /\ q.rto \in Nat
      BY <2>1 DEF Packets
    <2>3. passed[c] + 1 \in Nat /\ 1 <= passed[c] + 1
      BY <1>2 DEF Types
    <2>4. 1 * Interval <= (passed[c] + 1) * Interval
          /\ (passed[c] + 1) * Interval \in Nat
      BY <2>3, Monotone
    <2> DEFINE K == (passed[c] + 1) * Interval
    <2>5. CASE q.age >= q.rto
      <3>1. (q.age - q.rto) + check + 1 <= K
        BY <2>5 DEF Inv, Behind
      <3>2. K \in Nat
        BY <2>4
      <3>3. p.age - p.rto = (q.age - q.rto) + 1 /\ q.age - q.rto \in Nat
        BY <2>1, <2>2, <2>5
      <3> DEFINE x == q.age - q.rto
      <3> HIDE DEF K, x
      <3>4. (x + 1) + check' + 1 <= K
        BY <1>6, <3>1, <3>2, <3>3, TickBound DEF x
      <3>5. (p.age - p.rto) + check' + 1 <= K
        BY <3>3, <3>4 DEF x
      <3> QED BY <3>5 DEF K
    <2>6. CASE ~(q.age >= q.rto)
      <3>1. p.age - p.rto = 0
        BY <2>1, <2>2, <2>6
      <3>2. K \in Nat /\ Interval <= K
        BY <2>4
      <3> HIDE DEF K
      <3>3. (p.age - p.rto) + check' + 1 <= K
        BY <1>6, <3>1, <3>2
      <3> QED BY <3>3 DEF K
    <2> QED BY <2>5, <2>6
  <1> QED BY <1>7, <1>8, <1>10, <1>11, <1>12 DEF Inv

-----------------------------------------------------------------------------
(* do_conn_retrans *)

LEMMA ResentFacts ==
  ASSUME NEW p \in Packets
  PROVE  /\ Resent(p) \in Packets /\ Resent(p).off = p.off
         /\ Expired(p) => Resent(p).age = 0
         /\ ~Expired(p) => Resent(p) = p
  <1>1. CASE Expired(p)
    <2> DEFINE q == [p EXCEPT !.rto = 2 * @, !.age = 0, !.retrans = TRUE]
    <2>1. Resent(p) = q
      BY <1>1 DEF Resent
    <2>2. p.rto \in Nat \ {0}
      BY DEF Packets
    <2>3. 2 * p.rto \in Nat \ {0}
      BY <2>2
    <2>4. q \in Packets
      BY <2>3 DEF Packets
    <2>5. q.off = p.off /\ q.age = 0
      BY DEF Packets
    <2> QED BY <1>1, <2>1, <2>4, <2>5
  <1>2. CASE ~Expired(p)
    BY <1>2 DEF Resent
  <1> QED BY <1>1, <1>2

\* The timeout that the channel takes over is one that occurs.
LEMMA BackedOffFacts ==
  ASSUME Types, QueueInv, NEW c \in Chan
  PROVE  BackedOff(c) \in Nat \ {0}
  <1> DEFINE E == {q \in sendq[c] : Expired(q)}
             longer == {2 * p.rto : p \in E}
             T == longer \cup {rto[c]}
  <1>1. \A p \in E : p.rto \in Nat \ {0}
    BY DEF Types, Packets
  <1>2. T \in SUBSET (Nat \ {0})
    <2>1. \A p \in E : 2 * p.rto \in Nat \ {0}
      BY <1>1
    <2>2. rto[c] \in Nat \ {0}
      BY DEF Types
    <2> HIDE DEF E
    <2> QED BY <2>1, <2>2
  <1>3. IsFiniteSet(T)
    <2> DEFINE f == [p \in E |-> 2 * p.rto]
    <2>1. IsFiniteSet(E)
      <3>1. IsFiniteSet(sendq[c]) /\ E \subseteq sendq[c]
        BY DEF QueueInv
      <3> HIDE DEF E
      <3> QED BY <3>1, FS_Subset
    <2>2. longer = {f[p] : p \in E}
      OBVIOUS
    <2> HIDE DEF f, longer, E
    <2>3. IsFiniteSet(longer)
      BY <2>1, <2>2, ImageIsFinite
    <2> QED BY <2>3, FS_AddElement
  <1>4. T # {}
    OBVIOUS
  <1>5. BackedOff(c) = CHOOSE x \in T : \A y \in T : y <= x
    BY DEF BackedOff
  <1> HIDE DEF T
  <1>6. \E x \in T : \A y \in T : y <= x
    BY <1>2, <1>3, <1>4, Largest
  <1>7. BackedOff(c) \in T
    BY <1>5, <1>6
  <1> QED BY <1>2, <1>7

\* A channel that the loop comes to sends its late packets again, and has not
\* run out its own clock; for one that it does not come to, another is dropped.
LEMMA RetransKeeps ==
  ASSUME Inv, DoConnRetrans
  PROVE  Inv'
  <1>1. /\ check' = Interval /\ Free(Ended)
        /\ sendq' = [c \in Chan |->
             IF c \in Ended THEN {}
             ELSE IF c \in Reached THEN {Resent(p) : p \in sendq[c]}
             ELSE sendq[c]]
        /\ rto' = [c \in Chan |->
             IF c \in Ended THEN InitRto
             ELSE IF c \in Reached THEN BackedOff(c) ELSE rto[c]]
        /\ ts_ack' = [c \in Chan |-> IF c \in Ended THEN 0 ELSE ts_ack[c]]
        /\ passed' = [c \in Chan |->
             IF cstate[c] # "none" /\ c \notin Reached THEN passed[c] + 1 ELSE 0]
    BY DEF DoConnRetrans
  <1>2. /\ cstate' = [c \in Chan |-> IF c \in Ended THEN "none" ELSE cstate[c]]
        /\ next' = [c \in Chan |-> IF c \in Ended THEN 0 ELSE next[c]]
        /\ srtt' = [c \in Chan |-> IF c \in Ended THEN 0 ELSE srtt[c]]
        /\ silence' = [c \in Chan |-> IF c \in Ended THEN 0 ELSE silence[c]]
    BY <1>1 DEF Free
  <1>3. Types /\ QueueInv
    BY DEF Inv
  <1>4. \A c \in Chan : \A p \in sendq[c] : p \in Packets
    BY <1>3 DEF Types
  <1>5. \A c \in Chan : BackedOff(c) \in Nat \ {0}
    BY <1>3, BackedOffFacts
  <1>6. \A c \in Chan : \A p \in sendq[c] : Resent(p) \in Packets
    BY <1>4, ResentFacts
  <1>7. Types'
    <2>1. cstate' \in [Chan -> {"none", "open", "closing"}]
      BY <1>2, <1>3 DEF Types
    <2>2. next' \in [Chan -> 0 .. MaxSendq]
      BY <1>2, <1>3 DEF Types
    <2>3. sendq' \in [Chan -> SUBSET Packets]
      <3>1. \A c \in Chan : sendq'[c] \in SUBSET Packets
        BY <1>1, <1>4, <1>6
      <3> QED BY <1>1, <3>1
    <2>4. ts_ack' \in [Chan -> 0 .. ConnTimeout + 1]
      BY <1>1, <1>3 DEF Types
    <2>5. rto' \in [Chan -> Nat \ {0}]
      BY <1>1, <1>3, <1>5 DEF Types
    <2>6. srtt' \in [Chan -> Nat]
      BY <1>2, <1>3 DEF Types
    <2>7. silence' \in [Chan -> Nat]
      BY <1>2, <1>3 DEF Types
    <2>8. check' \in 0 .. Interval
      BY <1>1
    <2>9. passed' \in [Chan -> Nat]
      BY <1>1, <1>3 DEF Types
    <2> QED BY <2>1, <2>2, <2>3, <2>4, <2>5, <2>6, <2>7, <2>8, <2>9 DEF Types
  <1>8. ASSUME NEW c \in Chan, sendq'[c] # {}
        PROVE  /\ c \notin Ended /\ sendq[c] # {} /\ cstate[c] # "none"
               /\ next'[c] = next[c] /\ silence'[c] = silence[c]
               /\ ts_ack'[c] = ts_ack[c]
    <2>1. c \notin Ended
      BY <1>1, <1>8
    <2>2. sendq[c] # {}
      BY <1>1, <1>8, <2>1
    <2>3. cstate[c] # "none"
      BY <1>3, <2>2 DEF QueueInv
    <2> QED BY <1>1, <1>2, <2>1, <2>2, <2>3
  <1>9. QueueInv'
    <2> SUFFICES ASSUME NEW c \in Chan
                 PROVE  /\ IsFiniteSet(sendq'[c])
                        /\ \A p \in sendq'[c] : p.off < next'[c]
                        /\ sendq'[c] = {} => next'[c] = 0 /\ silence'[c] = 0
                        /\ sendq'[c] # {} => \E p \in sendq'[c] : p.off = 0
                        /\ cstate'[c] = "none" =>
                             sendq'[c] = {} /\ ts_ack'[c] = 0
      BY DEF QueueInv, Offsets
    <2>1. CASE c \in Ended
      <3>1. sendq'[c] = {} /\ next'[c] = 0 /\ silence'[c] = 0 /\ ts_ack'[c] = 0
        BY <1>1, <1>2, <2>1
      <3>2. IsFiniteSet({})
        BY FS_EmptySet
      <3> QED BY <3>1, <3>2
    <2>2. CASE c \notin Ended /\ c \in Reached
      <3>1. /\ sendq'[c] = {Resent(p) : p \in sendq[c]}
            /\ next'[c] = next[c] /\ silence'[c] = silence[c]
            /\ cstate'[c] = cstate[c] /\ ts_ack'[c] = ts_ack[c]
        BY <1>1, <1>2, <2>2
      <3>2. IsFiniteSet(sendq'[c])
        <4> DEFINE f == [p \in sendq[c] |-> Resent(p)]
        <4>1. sendq'[c] = {f[p] : p \in sendq[c]}
          BY <3>1
        <4>2. IsFiniteSet(sendq[c])
          BY <1>3 DEF QueueInv
        <4> HIDE DEF f
        <4>3. IsFiniteSet({f[p] : p \in sendq[c]})
          BY <4>2, ImageIsFinite
        <4> QED BY <4>1, <4>3
      <3>3. \A p \in sendq'[c] : p.off < next'[c]
        <4> SUFFICES ASSUME NEW p \in sendq[c] PROVE Resent(p).off < next[c]
          BY <3>1
        <4> QED BY <1>3, <1>4, ResentFacts DEF QueueInv
      <3>4. sendq'[c] # {} => \E p \in sendq'[c] : p.off = 0
        <4> SUFFICES ASSUME sendq'[c] # {} PROVE \E p \in sendq'[c] : p.off = 0
          OBVIOUS
        <4>1. PICK p \in sendq[c] : p.off = 0
          BY <1>3, <1>8 DEF QueueInv, Offsets
        <4>2. Resent(p).off = 0
          BY <1>4, <4>1, ResentFacts
        <4> QED BY <3>1, <4>2
      <3>5. sendq'[c] = {} => sendq[c] = {}
        BY <3>1
      <3>6. sendq[c] = {} => sendq'[c] = {}
        BY <3>1
      <3>7. /\ sendq[c] = {} => next[c] = 0 /\ silence[c] = 0
            /\ cstate[c] = "none" => sendq[c] = {} /\ ts_ack[c] = 0
        BY <1>3 DEF QueueInv
      <3> QED BY <3>1, <3>2, <3>3, <3>4, <3>5, <3>6, <3>7
    <2>3. CASE c \notin Ended /\ c \notin Reached
      <3>1. /\ sendq'[c] = sendq[c] /\ ts_ack'[c] = ts_ack[c]
            /\ next'[c] = next[c] /\ silence'[c] = silence[c]
            /\ cstate'[c] = cstate[c]
        BY <1>1, <1>2, <2>3
      <3> QED BY <1>3, <3>1 DEF QueueInv, Offsets
    <2> QED BY <2>1, <2>2, <2>3
  <1>10. ASSUME NEW c \in Chan, NEW p \in sendq'[c], p.age >= p.rto
         PROVE  c \notin Reached /\ cstate[c] # "none" /\ p \in sendq[c]
    <2>1. /\ c \notin Ended /\ cstate[c] # "none"
      BY <1>8
    <2>2. ASSUME c \in Reached PROVE FALSE
      <3>1. PICK q \in sendq[c] : p = Resent(q)
        BY <1>1, <2>1, <2>2
      <3>2. q \in Packets /\ q.off < next[c] /\ next[c] <= MaxSendq
            /\ next[c] \in Nat
        BY <1>3, <1>4, Window DEF QueueInv
      <3>3. q.off <= MaxInTransit
        BY <3>2 DEF Packets
      <3>4. CASE Expired(q)
        <4>1. p.age = 0 /\ p \in Packets
          BY <3>1, <3>2, <3>4, ResentFacts
        <4>2. p.rto \in Nat \ {0}
          BY <4>1 DEF Packets
        <4> QED BY <1>10, <4>1, <4>2
      <3>5. CASE ~Expired(q)
        <4>1. p = q
          BY <3>1, <3>2, <3>5, ResentFacts
        <4> QED BY <1>10, <3>3, <3>5, <4>1 DEF Expired
      <3> QED BY <3>4, <3>5
    <2>3. p \in sendq[c]
      BY <1>1, <2>1, <2>2
    <2> QED BY <2>1, <2>2, <2>3
  <1>12. Behind'
    <2> SUFFICES ASSUME NEW c \in Chan, NEW p \in sendq'[c], p.age >= p.rto
                 PROVE  (p.age - p.rto) + Interval + 1 <= (passed'[c] + 1) * Interval
      BY <1>1 DEF Behind
    <2>1. c \notin Reached /\ cstate[c] # "none" /\ p \in sendq[c]
      BY <1>10
    <2>2. passed'[c] = passed[c] + 1 /\ passed[c] \in Nat
      BY <1>1, <1>3, <2>1 DEF Types
    <2> DEFINE K == (passed[c] + 1) * Interval
    <2>3. (p.age - p.rto) + check + 1 <= K
      BY <2>1 DEF Inv, Behind
    <2>4. (passed'[c] + 1) * Interval = K + Interval /\ K \in Nat
      <3>1. passed[c] + 1 \in Nat
        BY <2>2
      <3>2. K \in Nat
        BY <3>1
      <3>3. ((passed[c] + 1) + 1) * Interval = K + Interval
        BY <3>1, OneMore
      <3> QED BY <2>2, <3>2, <3>3
    <2>5. p.age - p.rto \in Nat /\ check \in Nat
      <3>1. p.age \in Nat /\ p.rto \in Nat
        BY <1>4, <2>1 DEF Packets
      <3> QED BY <1>3, <3>1 DEF Types
    <2> HIDE DEF K
    <2>6. (p.age - p.rto) + Interval + 1 <= K + Interval
      BY <2>3, <2>4, <2>5
    <2> QED BY <2>4, <2>6
  <1>13. Prompt'
    <2> SUFFICES ASSUME NoStarvation, NEW c \in Chan, NEW p \in sendq'[c],
                        p.age >= p.rto
                 PROVE  Late(c, p.age - p.rto)'
      BY DEF Prompt
    <2>1. c \notin Reached /\ cstate[c] # "none" /\ p \in sendq[c]
      BY <1>10
    <2>2. Late(c, p.age - p.rto)
      BY <2>1 DEF Inv, Prompt
    <2>3. p.age - p.rto \in Nat
      <3>1. p.age \in Nat /\ p.rto \in Nat
        BY <1>4, <2>1 DEF Packets
      <3> QED BY <3>1
    <2> QED BY <1>7, <2>1, <2>2, <2>3, LateAtCheck
  <1>11. Patient'
    <2> SUFFICES ASSUME NoStarvation, NEW c \in Chan, sendq'[c] # {}
                 PROVE  \/ silence'[c] <= (next'[c] - 1) * Round
                                            + Smaller(ts_ack'[c], ConnTimeout)
                        \/ /\ ts_ack'[c] = ConnTimeout + 1
                           /\ \E y \in Nat :
                                /\ silence'[c] = (next'[c] - 1) * Round
                                                    + ConnTimeout + 1 + y
                                /\ Late(c, y)'
      BY DEF Patient
    <2>1. /\ c \notin Ended /\ sendq[c] # {} /\ cstate[c] # "none"
          /\ next'[c] = next[c] /\ silence'[c] = silence[c]
          /\ ts_ack'[c] = ts_ack[c]
      BY <1>8
    <2>2. CASE silence[c] <= (next[c] - 1) * Round
                               + Smaller(ts_ack[c], ConnTimeout)
      BY <2>1, <2>2
    <2>3. CASE /\ ts_ack[c] = ConnTimeout + 1
               /\ \E y \in Nat :
                    /\ silence[c] = (next[c] - 1) * Round + ConnTimeout + 1 + y
                    /\ Late(c, y)
      <3>1. c \notin Reached
        <4>1. ts_ack[c] > ConnTimeout
          BY <2>3
        <4> QED BY <2>1, <4>1 DEF Ended, TimedOut
      <3>2. \A y \in Nat : Late(c, y) => Late(c, y)'
        BY <1>7, <2>1, <3>1, LateAtCheck
      <3> QED BY <2>1, <2>3, <3>2
    <2> QED BY <2>1, <2>2, <2>3 DEF Inv, Patient
  <1> QED BY <1>7, <1>9, <1>11, <1>12, <1>13 DEF Inv

-----------------------------------------------------------------------------
(* The theorems *)

LEMMA NextKeeps ==
  ASSUME Inv, [Next]_vars
  PROVE  Inv'
  <1>1. ASSUME NEW c \in Chan, Connect(c) \/ Close(c) PROVE Inv'
    BY <1>1, StateKeeps
  <1>2. ASSUME NEW c \in Chan, Send(c) PROVE Inv'
    BY <1>2, SendKeeps
  <1>3. ASSUME NEW c \in Chan, RecvAck(c) PROVE Inv'
    BY <1>3, RecvAckKeeps
  <1>4. ASSUME NEW c \in Chan, RecvData(c) PROVE Inv'
    BY <1>4, RecvDataKeeps
  <1>5. CASE DoConnRetrans
    BY <1>5, RetransKeeps
  <1>6. CASE Tick
    BY <1>6, TickKeeps
  <1>7. CASE UNCHANGED vars
    <2>1. /\ cstate' = cstate /\ next' = next /\ sendq' = sendq /\ rto' = rto
          /\ ts_ack' = ts_ack /\ srtt' = srtt /\ check' = check
          /\ silence' = silence /\ passed' = passed
      BY <1>7 DEF vars, chVars
    <2>2. Types' /\ QueueInv'
      BY <2>1 DEF Inv, Types, QueueInv, Offsets
    <2>3. Behind' /\ Prompt' /\ Patient'
      BY <2>1 DEF Inv, Behind, Prompt, Patient, Late, Skipped
    <2> QED BY <2>2, <2>3 DEF Inv
  <1> QED BY <1>1, <1>2, <1>3, <1>4, <1>5, <1>6, <1>7 DEF Next

\* The types, the queues, and how late a packet or a channel may be.
THEOREM Invariance == Spec => []Inv
  <1>1. Init => Inv
    BY InitKeeps
  <1>2. Inv /\ [Next]_vars => Inv'
    BY NextKeeps
  <1> QED BY <1>1, <1>2, PTL DEF Spec

\* A packet that is not acknowledged is sent again at the first check that comes
\* to its channel, however late the checks are; and if they come often enough
\* for no channel to time out twice meanwhile, the loop, which stops at a channel
\* that it drops, keeps it waiting for one check for each channel at most.
THEOREM SentAgainInTime == Spec => []RetransmitInTime
  <1>1. Inv => RetransmitInTime
    <2> SUFFICES ASSUME Inv, NEW c \in Chan, NEW p \in sendq[c]
                 PROVE  /\ p.age < p.rto + (passed[c] + 1) * Interval
                        /\ NoStarvation => p.age < p.rto + Chans * Interval
      BY DEF RetransmitInTime
    <2>1. p.age \in Nat /\ p.rto \in Nat /\ check \in Nat
      BY DEF Inv, Types, Packets
    <2>2. Chans * Interval \in Nat /\ (passed[c] + 1) * Interval \in Nat
      <3>1. passed[c] + 1 \in Nat
        BY DEF Inv, Types
      <3> QED BY <3>1, RoundFacts
    <2>3. ASSUME NEW W \in Nat, p.age >= p.rto => (p.age - p.rto) + 1 <= W
          PROVE  p.age < p.rto + W
      BY <2>1, <2>3
    <2>4. p.age >= p.rto => (p.age - p.rto) + 1 <= (passed[c] + 1) * Interval
      <3> SUFFICES ASSUME p.age >= p.rto
                   PROVE  (p.age - p.rto) + 1 <= (passed[c] + 1) * Interval
        OBVIOUS
      <3> DEFINE K == (passed[c] + 1) * Interval
      <3>1. (p.age - p.rto) + check + 1 <= K
        BY DEF Inv, Behind
      <3>2. K \in Nat
        BY <2>2
      <3> HIDE DEF K
      <3>3. (p.age - p.rto) + 1 <= K
        BY <2>1, <3>1, <3>2
      <3> QED BY <3>3 DEF K
    <2>5. NoStarvation => (p.age >= p.rto => (p.age - p.rto) + 1 <= Chans * Interval)
      <3> SUFFICES ASSUME NoStarvation, p.age >= p.rto
                   PROVE  (p.age - p.rto) + 1 <= Chans * Interval
        OBVIOUS
      <3>1. Late(c, p.age - p.rto)
        BY DEF Inv, Prompt
      <3>2. p.age - p.rto \in Nat
        BY <2>1
      <3> QED BY <3>1, <3>2, LateIsBounded DEF Inv
    <2> QED BY <2>2, <2>3, <2>4, <2>5
  <1> QED BY <1>1, Invariance, PTL

\* A silent peer is given up in bounded time, however the application sends.
THEOREM SilentPeerIsGivenUp == Spec => []GivesUp
  <1>1. Inv => GivesUp
    <2> SUFFICES ASSUME Inv, NoStarvation, NEW c \in Chan
                 PROVE  silence[c] <= GiveUpTime
      BY DEF GivesUp
    <2>1. GiveUpTime = MaxSendq * Round /\ Round \in Nat
      BY RoundFacts DEF GiveUpTime, Round
    <2>2. silence[c] \in Nat /\ next[c] \in Nat /\ next[c] <= MaxSendq
      BY Window DEF Inv, Types
    <2> HIDE DEF Round
    <2>3. next[c] * Round <= MaxSendq * Round
      BY <2>1, <2>2, Monotone
    <2>4. MaxSendq * Round \in Nat /\ next[c] * Round \in Nat
      BY <2>1, <2>2
    <2>5. CASE sendq[c] = {}
      <3>1. silence[c] = 0
        BY <2>5 DEF Inv, QueueInv
      <3> QED BY <2>1, <2>4, <3>1
    <2>6. CASE sendq[c] # {}
      <3>1. silence[c] <= next[c] * Round
        BY <2>6, SilenceIsBounded DEF Inv
      <3> QED BY <2>1, <2>2, <2>3, <2>4, <3>1
    <2> QED BY <2>5, <2>6
  <1> QED BY <1>1, Invariance, PTL

\* The round-trip estimate of a channel, once there is one, does not come back
\* to 0, which stands for no sample, as long as the channel lives.
THEOREM EstimateStays == Spec => EstimateIsKept
  <1>1. ASSUME Inv, [Next]_vars, NEW c \in Chan, srtt[c] > 0, cstate'[c] # "none"
        PROVE  srtt'[c] > 0
    <2>1. CASE \/ \E d \in Chan : Connect(d) \/ Send(d) \/ Close(d)
               \/ Tick \/ UNCHANGED vars
      <3>1. srtt' = srtt
        BY <2>1 DEF Connect, Send, Close, Tick, vars, chVars
      <3> QED BY <1>1, <3>1
    <2>2. ASSUME NEW d \in Chan, RecvAck(d) PROVE srtt'[c] > 0
      <3>1. PICK una \in Expected(d) : \E seq \in (0 .. (next[d] - 1)) \ {una} :
              Sample(d, {p \in sendq[d] : p.off < una \/ p.off = seq})
        BY <2>2 DEF RecvAck, Acknowledge
      <3>2. PICK seq : Sample(d, {p \in sendq[d] : p.off < una \/ p.off = seq})
        BY <3>1
      <3>3. {p \in sendq[d] : p.off < una \/ p.off = seq} \in SUBSET sendq[d]
        OBVIOUS
      <3> QED BY <1>1, <3>2, <3>3, SampleFacts DEF Inv
    <2>3. ASSUME NEW d \in Chan, RecvData(d) PROVE srtt'[c] > 0
      <3>1. PICK una : Sample(d, {p \in sendq[d] : p.off < una})
        BY <2>3 DEF RecvData, Acknowledge
      <3>2. {p \in sendq[d] : p.off < una} \in SUBSET sendq[d]
        OBVIOUS
      <3> QED BY <1>1, <3>1, <3>2, SampleFacts DEF Inv
    <2>4. CASE DoConnRetrans
      <3>1. /\ cstate' = [d \in Chan |-> IF d \in Ended THEN "none" ELSE cstate[d]]
            /\ srtt' = [d \in Chan |-> IF d \in Ended THEN 0 ELSE srtt[d]]
        BY <2>4 DEF DoConnRetrans, Free
      <3> QED BY <1>1, <3>1
    <2> QED BY <1>1, <2>1, <2>2, <2>3, <2>4 DEF Next
  <1>2. Inv /\ Inv' /\ [Next]_vars =>
          [\A c \in Chan : srtt[c] > 0 /\ cstate'[c] # "none" => srtt'[c] > 0]_vars
    BY <1>1
  <1> QED BY <1>2, Invariance, PTL DEF Spec, EstimateIsKept
=============================================================================
