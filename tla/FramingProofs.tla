--------------------------- MODULE FramingProofs ---------------------------
(***************************************************************************)
(* Proofs about module Framing, for every size of header, message and      *)
(* block and every number of messages: unless a read is torn, messages are *)
(* handled whole and in order, and no connection is taken for lost before  *)
(* all of it has been handled.                                             *)
(***************************************************************************)
EXTENDS Framing, Integers, FiniteSetTheorems, TLAPS

USE SizesAssumption

-----------------------------------------------------------------------------
(* Where the messages start *)

Positions == 1 .. MaxMsgs + 1

\* The length of message k of s, 0 behind the last one.
Size(s, k) == IF k <= Len(s) THEN s[k] ELSE 0

\* g gives the start of each message of s, up to message n.
Table(s, n, g) ==
  g = [k \in 1 .. n |-> IF k = 1 THEN 0
                        ELSE g[k - 1] + Header + Size(s, k - 1)]

StartOf(s) == CHOOSE g : Table(s, MaxMsgs + 1, g)

\* A set of natural numbers has a smallest element: induction on the length
\* of a sequence looks at the first place where a formula fails.
LEMMA Smallest ==
  ASSUME NEW T \in SUBSET Nat, T # {}
  PROVE  \E m \in T : \A y \in T : m <= y
  <1> DEFINE R == StrictSubsetOrdering(Nat)
             S == FiniteSubsetsOf(Nat)
             U == {1 .. n : n \in T}
  <1>1. U \subseteq S
    <2>1. \A n \in T : 1 .. n \in SUBSET Nat /\ IsFiniteSet(1 .. n)
      BY FS_Interval
    <2> QED BY <2>1 DEF FiniteSubsetsOf
  <1>2. U # {} /\ IsWellFoundedOn(R, S)
    BY FS_StrictSubsetOrderingWellFounded
  <1>3. PICK x \in U : \A y \in U : ~ (<<y, x>> \in R)
    <2> HIDE DEF R, S, U
    <2> QED BY <1>1, <1>2, WFMin
  <1>4. PICK m \in T : x = 1 .. m
    OBVIOUS
  <1>5. ASSUME NEW y \in T, y < m PROVE FALSE
    <2>1. 1 .. y \subseteq 1 .. m /\ m \in 1 .. m /\ m \notin 1 .. y
      BY <1>5
    <2>2. <<1 .. y, 1 .. m>> \in R
      BY <2>1 DEF StrictSubsetOrdering
    <2> QED BY <1>3, <1>4, <2>2
  <1> QED BY <1>5

\* The recursion of Start has a solution.
LEMMA TableExists ==
  ASSUME NEW s \in Seq(Bodies), NEW n \in Nat \ {0}
  PROVE  \E g : Table(s, n, g)
  <1> DEFINE T == {m \in Nat \ {0} : ~ \E g : Table(s, m, g)}
  <1>1. SUFFICES ASSUME T # {} PROVE FALSE
    OBVIOUS
  <1>2. PICK m \in T : \A y \in T : m <= y
    <2>1. T \in SUBSET Nat
      OBVIOUS
    <2> HIDE DEF T
    <2> QED BY <1>1, <2>1, Smallest
  <1>3. CASE m = 1
    <2> DEFINE g == [k \in 1 .. 1 |-> 0]
    <2>1. Table(s, 1, g)
      BY DEF Table
    <2> QED BY <1>3, <2>1
  <1>4. CASE m # 1
    <2>1. m - 1 \in Nat \ {0} /\ m - 1 \notin T
      BY <1>2, <1>4
    <2>2. PICK g : Table(s, m - 1, g)
      BY <2>1
    <2> DEFINE last == g[m - 1] + Header + Size(s, m - 1)
               h == [k \in 1 .. m |-> IF k = m THEN last ELSE g[k]]
    <2>3. ASSUME NEW k \in 1 .. m
          PROVE  h[k] = IF k = 1 THEN 0
                        ELSE h[k - 1] + Header + Size(s, k - 1)
      <3>1. CASE k = m
        <4>1. h[k] = last /\ h[k - 1] = g[m - 1]
          BY <1>4, <2>1, <3>1
        <4> HIDE DEF h
        <4> QED BY <1>4, <3>1, <4>1
      <3>2. CASE k # m
        <4>1. k \in 1 .. m - 1 /\ k # 1 => k - 1 \in 1 .. m /\ k - 1 # m
          BY <2>1, <3>2
        <4>2. h[k] = g[k] /\ (k # 1 => h[k - 1] = g[k - 1])
          BY <2>1, <3>2
        <4>3. k \in 1 .. m - 1
          BY <2>1, <3>2
        <4>4. g[k] = IF k = 1 THEN 0 ELSE g[k - 1] + Header + Size(s, k - 1)
          BY <2>2, <4>3 DEF Table
        <4> HIDE DEF h
        <4> QED BY <4>2, <4>4
      <3> QED BY <3>1, <3>2
    <2>4. Table(s, m, h)
      <3>1. h = [k \in 1 .. m |-> h[k]]
        OBVIOUS
      <3> HIDE DEF h
      <3> QED BY <2>3, <3>1 DEF Table
    <2> HIDE DEF h
    <2> QED BY <1>2, <2>4
  <1> QED BY <1>3, <1>4

\* Each message starts where the one before it ends.
LEMMA StartStep ==
  ASSUME NEW s \in Seq(Bodies)
  PROVE  /\ StartOf(s)[1] = 0
         /\ \A k \in 2 .. MaxMsgs + 1 :
              StartOf(s)[k] = StartOf(s)[k - 1] + Header + Size(s, k - 1)
  <1>1. MaxMsgs + 1 \in Nat \ {0}
    OBVIOUS
  <1> DEFINE g == StartOf(s)
  <1>2. Table(s, MaxMsgs + 1, g)
    <2>1. \E h : Table(s, MaxMsgs + 1, h)
      BY <1>1, TableExists
    <2> QED BY <2>1 DEF StartOf
  <1> HIDE DEF g
  <1>3. /\ g[1] = 0
        /\ \A k \in 2 .. MaxMsgs + 1 :
             g[k] = g[k - 1] + Header + Size(s, k - 1)
    <2>1. \A k \in Positions : g[k] = IF k = 1 THEN 0
                                ELSE g[k - 1] + Header + Size(s, k - 1)
      BY <1>2 DEF Table, Positions
    <2> QED BY <2>1 DEF Positions
  <1> QED BY <1>3 DEF g

LEMMA SizeIsNat ==
  ASSUME NEW s \in Seq(Bodies), NEW k \in Nat \ {0}
  PROVE  Size(s, k) \in Nat
  <1>1. CASE k <= Len(s)
    <2>1. s[k] \in Bodies
      BY <1>1
    <2>2. Size(s, k) = s[k]
      BY <1>1 DEF Size
    <2> QED BY <2>1, <2>2
  <1>2. CASE ~(k <= Len(s))
    BY <1>2 DEF Size
  <1> QED BY <1>1, <1>2

\* The starts are positions, and they grow with every message.
LEMMA StartGrows ==
  ASSUME NEW s \in Seq(Bodies)
  PROVE  /\ \A k \in Positions : StartOf(s)[k] \in Nat
         /\ \A j, k \in Positions : j < k => StartOf(s)[j] < StartOf(s)[k]
  <1> DEFINE g == StartOf(s)
             Good(k) == /\ g[k] \in Nat
                        /\ \A j \in Positions : j < k => g[j] < g[k]
             T == {k \in Positions : ~Good(k)}
  <1>1. /\ g[1] = 0
        /\ \A k \in 2 .. MaxMsgs + 1 :
             g[k] = g[k - 1] + Header + Size(s, k - 1)
    BY StartStep
  <1> HIDE DEF g
  <1>2. T = {}
    <2> SUFFICES ASSUME T # {} PROVE FALSE
      OBVIOUS
    <2>1. PICK m \in T : \A y \in T : m <= y
      <3>1. T \in SUBSET Nat
        BY DEF Positions
      <3> HIDE DEF T
      <3> QED BY <3>1, Smallest
    <2>2. m \in Positions /\ m # 1
      BY <1>1, <2>1 DEF Positions
    <2>3. m - 1 \in Positions /\ m \in 2 .. MaxMsgs + 1
      BY <2>2 DEF Positions
    <2>4. Good(m - 1)
      BY <2>1, <2>3 DEF Positions
    <2>5. g[m] = g[m - 1] + Header + Size(s, m - 1)
      BY <1>1, <2>3
    <2>6. Size(s, m - 1) \in Nat
      BY <2>3, SizeIsNat DEF Positions
    <2>7. g[m] \in Nat /\ g[m - 1] < g[m]
      BY <2>4, <2>5, <2>6
    <2>8. \A j \in Positions : j < m => g[j] < g[m]
      <3> SUFFICES ASSUME NEW j \in Positions, j < m PROVE g[j] < g[m]
        OBVIOUS
      <3>1. CASE j = m - 1
        BY <2>7, <3>1
      <3>2. CASE j # m - 1
        <4>1. j < m - 1
          BY <2>3, <3>2 DEF Positions
        <4>2. g[j] < g[m - 1] /\ g[j] \in Nat
          <5>1. j \notin T
            BY <2>1, <4>1, <2>3 DEF Positions
          <5> QED BY <2>4, <4>1, <5>1
        <4> QED BY <2>4, <2>7, <4>2
      <3> QED BY <3>1, <3>2
    <2> QED BY <2>1, <2>7, <2>8
  <1>3. \A k \in Positions : Good(k)
    BY <1>2
  <1> QED BY <1>3 DEF g

\* A message that is added starts where the last one ends, and moves none.
LEMMA StartAppend ==
  ASSUME NEW s \in Seq(Bodies), NEW len \in Bodies, Len(s) < MaxMsgs
  PROVE  /\ \A k \in 1 .. Len(s) + 1 :
              StartOf(Append(s, len))[k] = StartOf(s)[k]
         /\ StartOf(Append(s, len))[Len(s) + 2]
              = StartOf(s)[Len(s) + 1] + Header + len
  <1> DEFINE u == Append(s, len)
             g == StartOf(s)
             h == StartOf(u)
             T == {k \in 1 .. Len(s) + 1 : h[k] # g[k]}
  <1>1. /\ u \in Seq(Bodies) /\ Len(u) = Len(s) + 1 /\ u[Len(s) + 1] = len
        /\ \A k \in 1 .. Len(s) : u[k] = s[k]
    OBVIOUS
  <1> HIDE DEF u
  <1>2. /\ g[1] = 0
        /\ \A k \in 2 .. MaxMsgs + 1 :
             g[k] = g[k - 1] + Header + Size(s, k - 1)
    BY StartStep
  <1>3. /\ h[1] = 0
        /\ \A k \in 2 .. MaxMsgs + 1 :
             h[k] = h[k - 1] + Header + Size(u, k - 1)
    BY <1>1, StartStep
  <1> HIDE DEF g, h
  <1>4. T = {}
    <2> SUFFICES ASSUME T # {} PROVE FALSE
      OBVIOUS
    <2>1. PICK m \in T : \A y \in T : m <= y
      <3>1. T \in SUBSET Nat
        OBVIOUS
      <3> HIDE DEF T
      <3> QED BY <3>1, Smallest
    <2>2. m \in 2 .. Len(s) + 1
      BY <1>2, <1>3, <2>1
    <2>3. m - 1 \in 1 .. Len(s) /\ m \in 2 .. MaxMsgs + 1 /\ m - 1 \notin T
      BY <2>1, <2>2
    <2>4. h[m - 1] = g[m - 1]
      BY <2>3
    <2>5. Size(u, m - 1) = Size(s, m - 1)
      BY <1>1, <2>3 DEF Size
    <2>6. h[m] = g[m]
      BY <1>2, <1>3, <2>3, <2>4, <2>5
    <2> QED BY <2>1, <2>6
  <1>5. \A k \in 1 .. Len(s) + 1 : h[k] = g[k]
    BY <1>4
  <1>6. h[Len(s) + 2] = g[Len(s) + 1] + Header + len
    <2>1. Len(s) + 2 \in 2 .. MaxMsgs + 1 /\ (Len(s) + 2) - 1 = Len(s) + 1
      OBVIOUS
    <2>2. Size(u, Len(s) + 1) = len
      BY <1>1 DEF Size
    <2> QED BY <1>3, <1>5, <2>1, <2>2
  <1> QED BY <1>5, <1>6 DEF g, h, u

LEMMA StartIsTable == Start = StartOf(sent) /\ Start' = StartOf(sent')
  BY DEF Start, StartOf, Table, Size

-----------------------------------------------------------------------------
(* The inductive invariant *)

TypeInv ==
  /\ sent \in Seq(Bodies) /\ Len(sent) <= MaxMsgs
  /\ total \in Nat /\ arrived \in Nat /\ pos \in Nat /\ want \in Nat
  /\ ended \in BOOLEAN /\ torn \in BOOLEAN
  /\ pc \in {"app", "header", "body", "lost"}
  /\ errno \in Errors
  /\ delivered \in Seq(Nat)

\* What has been taken has arrived, what has arrived was sent, and nothing is
\* dropped before the server has closed the connection; a header has its size.
BytesInv ==
  /\ pos <= arrived /\ arrived <= total
  /\ total <= StartOf(sent)[Len(sent) + 1]
  /\ ~ended => total = StartOf(sent)[Len(sent) + 1]
  /\ pc = "header" => want = Header

\* The message to be read next.
Following == Len(delivered) + 1

\* As long as no read was torn, recv is at the start of the message behind
\* the last one that was handled, or at its body.
Aligned ==
  /\ Len(delivered) <= Len(sent)
  /\ \A i \in 1 .. Len(delivered) : delivered[i] = i
  /\ pc # "body" => pos = StartOf(sent)[Following]
  /\ pc = "body" => /\ Following <= Len(sent)
                    /\ pos = StartOf(sent)[Following] + Header
                    /\ want = sent[Following]
  /\ pc = "lost" => AtEnd /\ pos = arrived

FrameInv == TypeInv /\ BytesInv /\ (~torn => Aligned)

LEMMA InitFrame == Init => FrameInv
  <1> SUFFICES ASSUME Init PROVE FrameInv
    OBVIOUS
  <1>1. sent = << >> /\ sent \in Seq(Bodies) /\ Len(sent) = 0
        /\ delivered = << >> /\ delivered \in Seq(Nat) /\ Len(delivered) = 0
    BY DEF Init
  <1>2. StartOf(sent)[1] = 0
    BY <1>1, StartStep
  <1>3. TypeInv
    <2>1. ended \in BOOLEAN /\ torn \in BOOLEAN
      BY DEF Init
    <2>2. /\ total \in Nat /\ arrived \in Nat /\ pos \in Nat /\ want \in Nat
          /\ pc \in {"app", "header", "body", "lost"}
          /\ errno \in Errors
      BY DEF Init, Errors
    <2>3. Len(sent) <= MaxMsgs
      BY <1>1
    <2> QED BY <1>1, <2>1, <2>2, <2>3 DEF TypeInv
  <1>4. BytesInv
    BY <1>1, <1>2 DEF Init, BytesInv
  <1>5. Aligned
    BY <1>1, <1>2 DEF Init, Aligned, Following
  <1> QED
    BY <1>3, <1>4, <1>5 DEF FrameInv

\* What the invariant needs when the sequence of messages does not change.
LEMMA SameMessages ==
  ASSUME sent' = sent
  PROVE  StartOf(sent)' = StartOf(sent)
  BY DEF StartOf, Table, Size

LEMMA ServerSendFrame ==
  ASSUME FrameInv, NEW len \in Bodies, ServerSend(len)
  PROVE  FrameInv'
  <1> DEFINE n == Len(sent)
             g == StartOf(sent)
             h == StartOf(sent')
  <1>1. /\ sent \in Seq(Bodies) /\ n \in Nat /\ n < MaxMsgs
        /\ sent' = Append(sent, len)
    BY DEF FrameInv, TypeInv, ServerSend
  <1>2. /\ sent' \in Seq(Bodies) /\ Len(sent') = n + 1
        /\ \A k \in 1 .. n : sent'[k] = sent[k]
    BY <1>1
  <1>3. (\A k \in 1 .. n + 1 : h[k] = g[k]) /\ h[n + 2] = g[n + 1] + Header + len
    BY <1>1, StartAppend
  <1>4. h[Len(sent') + 1] = g[n + 1] + Header + len
    BY <1>1, <1>2, <1>3
  <1>5. g[n + 1] \in Nat
    BY <1>1, StartGrows DEF Positions
  <1> HIDE DEF n, g, h
  <1>6. TypeInv'
    BY <1>1, <1>2 DEF FrameInv, TypeInv, ServerSend
  <1>7. BytesInv'
    <2>1. total = g[n + 1] /\ pos <= arrived /\ arrived <= total
      BY DEF FrameInv, BytesInv, ServerSend, g, n
    <2>2. /\ total' = total + Header + len /\ arrived' = arrived
          /\ pos' = pos /\ ended' = ended /\ ended = FALSE
      BY DEF ServerSend, FrameInv, TypeInv
    <2>3. total \in Nat /\ arrived \in Nat /\ pos \in Nat
      BY DEF FrameInv, TypeInv
    <2>4. total' = h[Len(sent') + 1] /\ pos <= arrived /\ arrived <= total'
      BY <1>4, <1>5, <2>1, <2>2, <2>3
    <2>5. pc' = "header" => want' = Header
      BY DEF FrameInv, BytesInv, ServerSend
    <2> QED BY <2>2, <2>3, <2>4, <2>5 DEF BytesInv, h
  <1>8. ~torn' => Aligned'
    <2> SUFFICES ASSUME ~torn' PROVE Aligned'
      OBVIOUS
    <2>1. /\ delivered' = delivered /\ pos' = pos /\ pc' = pc /\ want' = want
          /\ torn' = torn /\ ~AtEnd
      BY DEF ServerSend, AtEnd, FrameInv, TypeInv
    <2>2. Aligned
      BY <2>1 DEF FrameInv
    <2>3. Len(delivered) \in Nat /\ Following \in 1 .. n + 1
          /\ Following' = Following
      BY <1>1, <2>1, <2>2 DEF Following, Aligned, FrameInv, TypeInv, n
    <2>4. h[Following'] = g[Following]
      BY <1>3, <2>3
    <2>5. Len(delivered') <= Len(sent')
          /\ \A i \in 1 .. Len(delivered') : delivered'[i] = i
      BY <1>1, <1>2, <2>1, <2>2, <2>3 DEF Aligned, n
    <2>6. pc' # "body" => pos' = h[Following']
      BY <2>1, <2>2, <2>4 DEF Aligned, g
    <2>7. pc' = "body" => /\ Following' <= Len(sent')
                          /\ pos' = h[Following'] + Header
                          /\ want' = sent'[Following']
      BY <1>1, <1>2, <2>1, <2>2, <2>3, <2>4 DEF Aligned, g, n
    <2>8. pc' # "lost"
      BY <2>1, <2>2 DEF Aligned
    <2> QED BY <2>5, <2>6, <2>7, <2>8 DEF Aligned, h
  <1> QED BY <1>6, <1>7, <1>8 DEF FrameInv

\* The server closes the connection, and bytes arrive: no reader takes part.
LEMMA NetworkFrame ==
  ASSUME FrameInv, ServerClose \/ Arrive
  PROVE  FrameInv'
  <1>1. /\ sent' = sent /\ delivered' = delivered /\ pos' = pos /\ pc' = pc
        /\ want' = want /\ errno' = errno /\ torn' = torn
    BY DEF ServerClose, Arrive, serverVars
  <1>2. StartOf(sent)' = StartOf(sent)
    BY <1>1, SameMessages
  <1>3. /\ total' \in Nat /\ arrived' \in Nat /\ ended' \in BOOLEAN
        /\ arrived <= arrived' /\ arrived' <= total' /\ total' <= total
        /\ ~ended' => ~ended /\ total' = total
        /\ pos <= arrived'
    <2>1. /\ total \in Nat /\ arrived \in Nat /\ pos \in Nat
          /\ ended \in BOOLEAN /\ pos <= arrived /\ arrived <= total
      BY DEF FrameInv, TypeInv, BytesInv
    <2>2. CASE ServerClose
      <3>1. ended' = TRUE /\ total' \in arrived .. total /\ arrived' = arrived
        BY <2>2 DEF ServerClose
      <3> QED BY <2>1, <3>1
    <2>3. CASE Arrive
      <3>1. /\ ended' = ended /\ total' = total
            /\ arrived < total /\ arrived' = arrived + 1
        BY <2>3 DEF Arrive, serverVars
      <3>2. arrived' <= total
        BY <2>1, <3>1
      <3> QED BY <2>1, <3>1, <3>2
    <2> QED BY <2>2, <2>3
  <1>4. ~AtEnd
    BY DEF ServerClose, Arrive, AtEnd, FrameInv, TypeInv, BytesInv
  <1>5. TypeInv'
    BY <1>1, <1>3 DEF FrameInv, TypeInv
  <1>6. BytesInv'
    <2>1. StartOf(sent)[Len(sent) + 1] \in Nat
      BY StartGrows DEF FrameInv, TypeInv, Positions
    <2> QED BY <1>1, <1>2, <1>3, <2>1 DEF FrameInv, TypeInv, BytesInv
  <1>7. ~torn' => Aligned'
    <2> SUFFICES ASSUME ~torn' PROVE Aligned'
      OBVIOUS
    <2>1. Aligned
      BY <1>1 DEF FrameInv
    <2>2. Following' = Following /\ pc # "lost"
      BY <1>1, <1>4, <2>1 DEF Following, Aligned
    <2> QED BY <1>1, <1>2, <2>1, <2>2 DEF Aligned
  <1> QED BY <1>5, <1>6, <1>7 DEF FrameInv

\* errno changes, or a read begins.
LEMMA AppFrame ==
  ASSUME FrameInv, OtherCallFails \/ Call
  PROVE  FrameInv'
  <1>1. /\ sent' = sent /\ delivered' = delivered /\ pos' = pos
        /\ total' = total /\ ended' = ended /\ arrived' = arrived
        /\ torn' = torn /\ errno' \in Errors
        /\ pc = "app" /\ want' \in Nat
        /\ \/ pc' = "app"
           \/ pc' = "header" /\ want' = Header
    BY DEF OtherCallFails, Call, serverVars, FrameInv, TypeInv
  <1>2. StartOf(sent)' = StartOf(sent)
    BY <1>1, SameMessages
  <1>3. TypeInv'
    BY <1>1 DEF FrameInv, TypeInv
  <1>4. BytesInv'
    BY <1>1, <1>2 DEF FrameInv, BytesInv
  <1>5. ~torn' => Aligned'
    <2> SUFFICES ASSUME ~torn' PROVE Aligned'
      OBVIOUS
    <2>1. Aligned /\ Following' = Following
      BY <1>1 DEF FrameInv, Following
    <2> QED BY <1>1, <1>2, <2>1 DEF Aligned
  <1> QED BY <1>3, <1>4, <1>5 DEF FrameInv

-----------------------------------------------------------------------------
(* The reads *)

\* Where the reader is aligned, it knows the message that it is about to read:
\* the header tells its length, and that length is accepted.
LEMMA HeaderTells ==
  ASSUME TypeInv, NEW k \in 1 .. Len(sent), NEW p, p = StartOf(sent)[k]
  PROVE  /\ Lengths(p) = {sent[k]}
         /\ MessageAt(p) = k
         /\ Accepted(sent[k]) /\ BodySize(sent[k]) = sent[k]
  <1>1. sent \in Seq(Bodies) /\ Len(sent) <= MaxMsgs
    BY DEF TypeInv
  <1>2. Start = StartOf(sent)
    BY StartIsTable
  <1>3. \A j \in 1 .. Len(sent) : StartOf(sent)[j] = p => j = k
    <2> SUFFICES ASSUME NEW j \in 1 .. Len(sent), j # k
                 PROVE  StartOf(sent)[j] # StartOf(sent)[k]
      OBVIOUS
    <2>1. j \in Positions /\ k \in Positions /\ (j < k \/ k < j)
      BY <1>1 DEF Positions
    <2>2. StartOf(sent)[j] \in Nat /\ StartOf(sent)[k] \in Nat
      BY <1>1, <2>1, StartGrows
    <2>3. StartOf(sent)[j] < StartOf(sent)[k]
          \/ StartOf(sent)[k] < StartOf(sent)[j]
      BY <1>1, <2>1, StartGrows
    <2> QED BY <2>2, <2>3
  <1>4. \A j : StartsAt(j, p) <=> j = k
    BY <1>1, <1>2, <1>3 DEF StartsAt
  <1>5. {j \in 1 .. Len(sent) : StartsAt(j, p)} = {k}
    BY <1>4
  <1>6. Lengths(p) = {sent[k]}
    <2>1. k \in 1 .. MaxMsgs
      BY <1>1
    <2> QED BY <1>4, <1>5, <2>1 DEF Lengths
  <1>7. MessageAt(p) = k
    BY <1>5 DEF MessageAt
  <1>8. Accepted(sent[k]) /\ BodySize(sent[k]) = sent[k]
    <2>1. sent[k] \in Bodies /\ sent[k] \in Nat
      <3>1. sent[k] \in Bodies
        BY <1>1
      <3> QED BY <3>1
    <2>2. Header + sent[k] <= MaxSize /\ sent[k] % Block = 0
      BY <2>1
    <2>3. sent[k] + Header = Header + sent[k]
      BY <2>1
    <2> QED BY <2>2, <2>3 DEF Accepted, BodySize
  <1> QED BY <1>6, <1>7, <1>8

\* Where more has arrived, another message was sent.
LEMMA MessageThere ==
  ASSUME TypeInv, BytesInv, Aligned, NEW p, p < arrived,
         p = StartOf(sent)[Following]
  PROVE  Following \in 1 .. Len(sent)
  <1>1. Len(delivered) \in Nat /\ Len(sent) \in Nat
        /\ Len(delivered) <= Len(sent)
    BY DEF TypeInv, Aligned
  <1>2. SUFFICES ASSUME Following = Len(sent) + 1 PROVE FALSE
    BY <1>1 DEF Following
  <1>3. Len(sent) + 1 \in Positions /\ sent \in Seq(Bodies)
    BY <1>1 DEF TypeInv, Positions
  <1>4. StartOf(sent)[Len(sent) + 1] \in Nat
    BY <1>3, StartGrows
  <1>5. arrived <= p /\ p \in Nat
    BY <1>2, <1>4 DEF BytesInv, TypeInv
  <1> QED BY <1>5 DEF TypeInv

\* A length that a header may tell is a number.
LEMMA LengthsAreNat ==
  ASSUME TypeInv, NEW p, NEW len \in Lengths(p)
  PROVE  len \in Nat
  <1>1. CASE \E k \in 1 .. MaxMsgs : StartsAt(k, p)
    <2>1. PICK j \in 1 .. Len(sent) : len = sent[j]
      BY <1>1 DEF Lengths
    <2>2. sent[j] \in Bodies
      BY DEF TypeInv
    <2> QED BY <2>1, <2>2
  <1>2. CASE ~ \E k \in 1 .. MaxMsgs : StartsAt(k, p)
    BY <1>2 DEF Lengths
  <1> QED BY <1>1, <1>2

LEMMA ReadHeaderFrame ==
  ASSUME FrameInv, ReadHeader
  PROVE  FrameInv'
  <1>1. /\ sent' = sent /\ delivered' = delivered /\ total' = total
        /\ ended' = ended /\ arrived' = arrived /\ errno' = errno
        /\ torn' = torn /\ pc = "header" /\ pos' = pos + Header
    BY DEF ReadHeader, serverVars
  <1>2. PICK len \in Lengths(pos) :
          IF Accepted(len) THEN pc' = "body" /\ want' = BodySize(len)
                           ELSE pc' = "lost" /\ want' = 0
    BY DEF ReadHeader
  <1>3. len \in Nat
    BY LengthsAreNat DEF FrameInv
  <1>4. StartOf(sent)' = StartOf(sent)
    BY <1>1, SameMessages
  <1>5. pos' \in Nat /\ pc' \in {"body", "lost"} /\ want' \in Nat
    BY <1>1, <1>2, <1>3 DEF FrameInv, TypeInv, BodySize
  <1>6. TypeInv'
    BY <1>1, <1>5 DEF FrameInv, TypeInv
  <1>7. BytesInv'
    <2>1. arrived - pos >= want
      BY DEF ReadHeader, Ready
    <2>2. want = Header /\ arrived \in Nat /\ pos \in Nat
      BY <1>1 DEF FrameInv, TypeInv, BytesInv
    <2>3. pos + Header <= arrived /\ pc' # "header"
      BY <1>5, <2>1, <2>2
    <2> QED BY <1>1, <1>4, <2>3 DEF FrameInv, BytesInv
  <1>8. ~torn' => Aligned'
    <2> SUFFICES ASSUME ~torn' PROVE Aligned'
      OBVIOUS
    <2>1. Aligned /\ Following' = Following
      BY <1>1 DEF FrameInv, Following
    <2>2. pos = StartOf(sent)[Following]
      BY <1>1, <2>1 DEF Aligned
    <2>3. Following \in 1 .. Len(sent)
      <3>1. pos < arrived
        <4>1. arrived - pos >= want /\ want = Header
          BY <1>1 DEF ReadHeader, Ready, FrameInv, BytesInv
        <4>2. arrived \in Nat /\ pos \in Nat /\ Header \in Nat \ {0}
          BY DEF FrameInv, TypeInv
        <4> QED BY <4>1, <4>2
      <3> QED BY <2>1, <2>2, <3>1, MessageThere DEF FrameInv
    <2>4. /\ Lengths(pos) = {sent[Following]}
          /\ Accepted(sent[Following])
          /\ BodySize(sent[Following]) = sent[Following]
      BY <2>2, <2>3, HeaderTells DEF FrameInv
    <2>5. pc' = "body" /\ want' = sent[Following]
      BY <1>2, <2>4
    <2> QED BY <1>1, <1>4, <2>1, <2>2, <2>3, <2>5 DEF Aligned
  <1> QED BY <1>6, <1>7, <1>8 DEF FrameInv

LEMMA ReadBodyFrame ==
  ASSUME FrameInv, ReadBody
  PROVE  FrameInv'
  <1> DEFINE m == MessageAt(pos - Header)
  <1>1. /\ sent' = sent /\ total' = total /\ ended' = ended
        /\ arrived' = arrived /\ errno' = errno /\ torn' = torn
        /\ pc = "body" /\ pc' = "app" /\ want' = 0 /\ pos' = pos + want
        /\ delivered' = Append(delivered, m)
    BY DEF ReadBody, serverVars
  <1>2. m \in Nat
    <2> DEFINE from == {k \in 1 .. Len(sent) : StartsAt(k, pos - Header)}
    <2>1. from # {} => (CHOOSE k \in from : TRUE) \in from
      OBVIOUS
    <2>2. from \in SUBSET Nat
      OBVIOUS
    <2>3. m = IF from = {} THEN 0 ELSE CHOOSE k \in from : TRUE
      BY DEF MessageAt
    <2> HIDE DEF from, m
    <2> QED BY <2>1, <2>2, <2>3
  <1> HIDE DEF m
  <1>3. StartOf(sent)' = StartOf(sent)
    BY <1>1, SameMessages
  <1>4. /\ delivered' \in Seq(Nat) /\ Len(delivered') = Len(delivered) + 1
        /\ delivered'[Len(delivered) + 1] = m
        /\ \A i \in 1 .. Len(delivered) : delivered'[i] = delivered[i]
    BY <1>1, <1>2 DEF FrameInv, TypeInv
  <1>5. TypeInv'
    BY <1>1, <1>4 DEF FrameInv, TypeInv
  <1>6. BytesInv'
    <2>1. arrived - pos >= want
      BY DEF ReadBody, Ready
    <2>2. arrived \in Nat /\ pos \in Nat /\ want \in Nat
      BY DEF FrameInv, TypeInv
    <2>3. pos + want <= arrived
      BY <2>1, <2>2
    <2> QED BY <1>1, <1>3, <2>3 DEF FrameInv, BytesInv
  <1>7. ~torn' => Aligned'
    <2> SUFFICES ASSUME ~torn' PROVE Aligned'
      OBVIOUS
    <2> DEFINE k == Following
    <2>1. Aligned
      BY <1>1 DEF FrameInv
    <2>2. /\ k \in 1 .. Len(sent) /\ k = Len(delivered) + 1
          /\ pos = StartOf(sent)[k] + Header /\ want = sent[k]
      BY <1>1, <2>1 DEF Aligned, Following, FrameInv, TypeInv
    <2>3. sent \in Seq(Bodies) /\ Len(sent) <= MaxMsgs
          /\ Len(delivered) \in Nat
      BY DEF FrameInv, TypeInv
    <2> HIDE DEF k
    <2>4. k \in Positions /\ k + 1 \in 2 .. MaxMsgs + 1 /\ (k + 1) - 1 = k
      BY <2>2, <2>3 DEF Positions
    <2>5. StartOf(sent)[k] \in Nat
      BY <2>3, <2>4, StartGrows
    <2>6. m = k
      <3>1. pos - Header = StartOf(sent)[k]
        BY <2>2, <2>5
      <3> QED BY <2>2, <3>1, HeaderTells DEF FrameInv, m
    <2>7. StartOf(sent)[k + 1] = StartOf(sent)[k] + Header + sent[k]
      BY <2>2, <2>3, <2>4, StartStep DEF Size
    <2>8. Following' = k + 1 /\ Len(delivered') = k
      BY <1>4, <2>2 DEF Following
    <2>9. pos' = StartOf(sent)[k + 1]
      BY <1>1, <2>2, <2>7
    <2>10. \A i \in 1 .. Len(delivered') : delivered'[i] = i
      BY <1>4, <2>1, <2>2, <2>3, <2>6, <2>8 DEF Aligned
    <2>11. Len(delivered') <= Len(sent')
      BY <1>1, <2>2, <2>8
    <2>12. pos' = StartOf(sent)'[Following']
      BY <1>3, <2>8, <2>9
    <2> QED BY <1>1, <2>10, <2>11, <2>12 DEF Aligned
  <1> QED BY <1>5, <1>6, <1>7 DEF FrameInv

\* A read that fails without tearing a message has taken nothing; unless a
\* signal interrupted it, the connection has ended.
LEMMA ReadFailsFrame ==
  ASSUME FrameInv, ReadInterrupted \/ ReadAtEnd
  PROVE  FrameInv'
  <1>1. PICK e \in Errors :
          /\ ReadFails(e) /\ Waiting
          /\ e = "EINTR" \/ AtEnd \/ arrived # pos
    BY DEF ReadInterrupted, ReadAtEnd, FrameInv, TypeInv, Errors
  <1>2. /\ sent' = sent /\ delivered' = delivered /\ total' = total
        /\ ended' = ended /\ arrived' = arrived
        /\ pos' = arrived /\ errno' = e /\ want' = 0
        /\ pc' = IF Ignored(e) THEN "app" ELSE "lost"
    BY <1>1 DEF ReadFails, serverVars
  <1>3. torn' = (torn \/ arrived > pos \/ pc = "body")
    BY <1>1 DEF ReadFails
  <1>4. torn' \in BOOLEAN
    BY <1>3
  <1>5. StartOf(sent)' = StartOf(sent)
    BY <1>2, SameMessages
  <1>6. pc' \in {"app", "lost"}
    BY <1>2
  <1>7. TypeInv'
    BY <1>1, <1>2, <1>4, <1>6 DEF FrameInv, TypeInv
  <1>8. BytesInv'
    BY <1>2, <1>5, <1>6 DEF FrameInv, TypeInv, BytesInv
  <1>9. ~torn' => Aligned'
    <2> SUFFICES ASSUME ~torn' PROVE Aligned'
      OBVIOUS
    <2>1. ~torn /\ ~(arrived > pos) /\ pc # "body"
      BY <1>3
    <2>2. pos = arrived
      BY <2>1 DEF FrameInv, TypeInv, BytesInv
    <2>3. Aligned /\ Following' = Following
      BY <1>2, <2>1 DEF FrameInv, Following
    <2>4. pos' = StartOf(sent)[Following]
      BY <1>2, <2>1, <2>2, <2>3 DEF Aligned
    <2>5. pc' = "lost" => AtEnd'
      BY <1>1, <1>2, <2>2 DEF AtEnd, Ignored
    <2> QED BY <1>2, <1>5, <1>6, <2>3, <2>4, <2>5 DEF Aligned
  <1> QED BY <1>7, <1>8, <1>9 DEF FrameInv

LEMMA NextFrame == FrameInv /\ [Next]_vars => FrameInv'
  <1> SUFFICES ASSUME FrameInv, [Next]_vars PROVE FrameInv'
    OBVIOUS
  <1>1. CASE Next
    BY <1>1, ServerSendFrame, NetworkFrame, AppFrame, ReadHeaderFrame,
       ReadBodyFrame, ReadFailsFrame DEF Next
  <1>2. CASE UNCHANGED vars
    <2>1. /\ sent' = sent /\ delivered' = delivered /\ total' = total
          /\ ended' = ended /\ arrived' = arrived /\ pos' = pos
          /\ errno' = errno /\ want' = want /\ pc' = pc /\ torn' = torn
      BY <1>2 DEF vars, serverVars
    <2>2. StartOf(sent)' = StartOf(sent)
      BY <2>1, SameMessages
    <2>3. TypeInv'
      BY <2>1 DEF FrameInv, TypeInv
    <2>4. BytesInv'
      BY <2>1, <2>2 DEF FrameInv, BytesInv
    <2>5. ~torn' => Aligned'
      BY <2>1, <2>2 DEF FrameInv, Aligned, Following, AtEnd
    <2> QED BY <2>3, <2>4, <2>5 DEF FrameInv
  <1> QED BY <1>1, <1>2

-----------------------------------------------------------------------------
(* The theorems *)

\* The reader stays aligned with the messages until a read is torn: the
\* inductive invariant.
THEOREM ReaderIsAligned == Spec => []FrameInv
  BY InitFrame, NextFrame, PTL DEF Spec

\* Messages are handled whole, each once and in order, wherever gcrp_read and
\* gsp_read are cut, until a read is torn.
THEOREM MessagesInOrder == Spec => []InOrder
  <1>1. FrameInv => InOrder
    BY DEF FrameInv, Aligned, InOrder
  <1> QED BY ReaderIsAligned, <1>1, PTL

\* ghl_process takes a connection for lost only at its end, and after it has
\* handled everything that was sent whole, until a read is torn.
THEOREM LostAfterTheLast == Spec => []LossIsReal
  <1>1. FrameInv => LossIsReal
    <2> SUFFICES ASSUME FrameInv, pc = "lost", ~torn PROVE
          /\ AtEnd
          /\ \A k \in 1 .. Len(sent) : Start[k] + Header + sent[k] <= total =>
               \E i \in 1 .. Len(delivered) : delivered[i] = k
      BY DEF LossIsReal
    <2>1. Aligned /\ TypeInv
      BY DEF FrameInv
    <2>2. AtEnd /\ total = StartOf(sent)[Following]
      BY <2>1 DEF Aligned, AtEnd
    <2>3. ASSUME NEW k \in 1 .. Len(sent),
                 Start[k] + Header + sent[k] <= total
          PROVE  \E i \in 1 .. Len(delivered) : delivered[i] = k
      <3>1. /\ sent \in Seq(Bodies) /\ Len(sent) <= MaxMsgs
            /\ Len(delivered) \in Nat /\ Len(delivered) <= Len(sent)
        BY <2>1 DEF TypeInv, Aligned
      <3>2. /\ Following \in Positions /\ k + 1 \in Positions
            /\ k + 1 \in 2 .. MaxMsgs + 1 /\ (k + 1) - 1 = k
        BY <3>1 DEF Following, Positions
      <3>3. StartOf(sent)[k + 1] = StartOf(sent)[k] + Header + sent[k]
        BY <3>1, <3>2, StartStep DEF Size
      <3>4. StartOf(sent)[k + 1] <= StartOf(sent)[Following]
        BY <2>2, <2>3, <3>3, StartIsTable
      <3>5. ~ (Following < k + 1)
        <4>1. /\ StartOf(sent)[k + 1] \in Nat
              /\ StartOf(sent)[Following] \in Nat
              /\ Following < k + 1 =>
                   StartOf(sent)[Following] < StartOf(sent)[k + 1]
          BY <3>1, <3>2, StartGrows
        <4> QED BY <3>4, <4>1
      <3>6. k \in 1 .. Len(delivered)
        BY <3>1, <3>5 DEF Following
      <3> QED BY <2>1, <3>6 DEF Aligned
    <2> QED BY <2>2, <2>3
  <1> QED BY ReaderIsAligned, <1>1, PTL
=============================================================================
