---------------------------- MODULE VConnProofs ----------------------------
(***************************************************************************)
(* Proofs about VConn, for every window size, timeout and message bound:   *)
(* what the application gets is what was sent, in order; and no packet     *)
(* that was accepted for sending is lost silently.                         *)
(***************************************************************************)
EXTENDS VConn, TLAPS

USE EndAssumption, WindowAssumption, TimeoutAssumption

-----------------------------------------------------------------------------
(* The inductive invariant *)

\* No two packets of a queue have the same sequence number.
Distinct(q) == \A p, r \in q : p.seq = r.seq => p = r

\* q holds every packet from lo up to n - 1, none before lo, and not packet n.
Contiguous(q, lo, n) ==
  /\ lo <= n
  /\ n \notin Seqs(q)
  /\ \A s \in lo .. (n - 1) : s \in Seqs(q)
  /\ \A p \in q : p.seq >= lo

\* insert_pkt, update_next and try_deliver keep the receive queue of a channel
\* contiguous between rcv_next_deliver and rcv_next.
QueueInv ==
  \A e \in End :
    /\ Distinct(recvq[e])
    /\ cstate[e] # "freed" =>
         Contiguous(recvq[e], rcv_next_deliver[e], rcv_next[e])

\* Packet s carries message s + 1, wherever the packet is.
Numbered(q, bound) ==
  \A p \in q : p.len > 0 => p.msg = p.seq + 1 /\ p.seq < bound

\* What is queued or under way is what the sender has sent.
SeqIsCount == \A e \in End : snd_next[e] = sent[e]
SendqNumbered ==
  \A e \in End : \A p \in sendq[e] : p.msg = p.seq + 1 /\ p.seq < sent[e]
NetNumbered ==
  \A m \in net :
    m.type = "DATA" => m.msg = m.seq1 + 1 /\ m.seq1 < sent[Peer(m.to)]
RecvqNumbered == \A e \in End : Numbered(recvq[e], sent[Peer(e)])

\* Until its channel is over, an application has been handed exactly the
\* packets before rcv_next_deliver.
GotUpTo ==
  \A e \in End :
    cstate[e] \notin {"CLOSING_OUT", "freed"} =>
      Len(got[e]) = rcv_next_deliver[e]

StreamInv ==
  SeqIsCount /\ SendqNumbered /\ NetNumbered /\ RecvqNumbered /\ GotUpTo

IInv == TypeOK /\ QueueInv /\ StreamInv /\ PrefixDelivered

-----------------------------------------------------------------------------
(* Lemmas about the operators *)

LEMMA PeerOfPeer == \A e \in End : Peer(e) \in End /\ Peer(Peer(e)) = e
  BY DEF Peer, End

\* insert_pkt adds the packet's sequence number and no second packet for it.
LEMMA InsertFacts ==
  ASSUME NEW q \in SUBSET RecvPkt, Distinct(q), NEW p \in RecvPkt
  PROVE  /\ Insert(q, p) \in SUBSET RecvPkt
         /\ Distinct(Insert(q, p))
         /\ Seqs(Insert(q, p)) = Seqs(q) \cup {p.seq}
         /\ q \subseteq Insert(q, p)
         /\ Insert(q, p) \subseteq q \cup {p}
  BY DEF Insert, Seqs, Distinct, RecvPkt

\* update_next stops at the first packet that is missing.
LEMMA FirstMissingFacts ==
  ASSUME NEW q, NEW next \in Nat, NEW n \in FirstMissing(q, next)
  PROVE  /\ n \in Nat
         /\ next <= n
         /\ n \notin Seqs(q)
         /\ \A s \in next .. (n - 1) : s \in Seqs(q)
  BY DEF FirstMissing

\* The packets handed over from lo to hi - 1 carry the messages lo + 1 to hi.
LEMMA PayloadsNumbered ==
  ASSUME NEW q \in SUBSET RecvPkt, NEW lo \in Nat, NEW hi \in Nat, lo <= hi,
         \A s \in lo .. (hi - 1) : s \in Seqs(q),
         \A p \in q : p.seq \in lo .. (hi - 1) => p.msg = p.seq + 1
  PROVE  Payloads(q, lo, hi) = [i \in 1 .. (hi - lo) |-> lo + i]
  <1>1. ASSUME NEW i \in 1 .. (hi - lo)
        PROVE  (CHOOSE p \in q : p.seq = lo + i - 1).msg = lo + i
    <2>1. lo + i - 1 \in lo .. (hi - 1)
      OBVIOUS
    <2>2. \E p \in q : p.seq = lo + i - 1
      BY <2>1 DEF Seqs
    <2>3. PICK r \in q : r = CHOOSE p \in q : p.seq = lo + i - 1
      BY <2>2
    <2>4. r.seq = lo + i - 1
      BY <2>2, <2>3
    <2> QED BY <2>1, <2>3, <2>4
  <1> QED BY <1>1 DEF Payloads

\* Appending the messages Len(g) + 1 to hi to an ordered stream orders it up
\* to hi.
LEMMA AppendInOrder ==
  ASSUME NEW g \in Seq(Nat), NEW hi \in Nat, Len(g) <= hi,
         \A i \in 1 .. Len(g) : g[i] = i,
         NEW h, h = g \o [i \in 1 .. (hi - Len(g)) |-> Len(g) + i]
  PROVE  h \in Seq(Nat) /\ Len(h) = hi /\ \A i \in 1 .. hi : h[i] = i
  <1> DEFINE t == [i \in 1 .. (hi - Len(g)) |-> Len(g) + i]
  <1>1. t \in Seq(Nat) /\ Len(t) = hi - Len(g)
    OBVIOUS
  <1>2. g \o t \in Seq(Nat) /\ Len(g \o t) = hi
    BY <1>1
  <1>3. ASSUME NEW i \in 1 .. hi PROVE (g \o t)[i] = i
    <2>1. CASE i <= Len(g)
      BY <1>1, <2>1
    <2>2. CASE i > Len(g)
      BY <1>1, <2>2
    <2> QED BY <2>1, <2>2
  <1> QED BY <1>2, <1>3

-----------------------------------------------------------------------------
(* try_deliver *)

\* What try_deliver leaves behind for end e, from the queue q, the next
\* expected number n and the state st it is called with.
DeliverPost(e, q, n, st, out) ==
  /\ cstate' \in {[cstate EXCEPT ![e] = st],
                 [cstate EXCEPT ![e] = "CLOSING_OUT"]}
  /\ recvq' = [recvq EXCEPT ![e] = recvq'[e]]
  /\ recvq'[e] \in SUBSET RecvPkt
  /\ Distinct(recvq'[e])
  /\ \A p \in recvq'[e] : \E r \in q :
       p.seq = r.seq /\ p.msg = r.msg /\ (p.len > 0 <=> r.len > 0)
  /\ rcv_next_deliver' = [rcv_next_deliver EXCEPT ![e] = rcv_next_deliver'[e]]
  /\ rcv_next_deliver'[e] \in rcv_next_deliver[e] .. n
  /\ Contiguous(recvq'[e], rcv_next_deliver'[e], n)
  /\ \E k \in rcv_next_deliver[e] .. n :
       /\ \A p \in q : p.seq \in rcv_next_deliver[e] .. (k - 1) => p.len > 0
       /\ got' = [got EXCEPT ![e] = @ \o Payloads(q, rcv_next_deliver[e], k)]
       /\ cstate'[e] # "CLOSING_OUT" => k = rcv_next_deliver'[e]
  /\ \/ net' = net \cup out
     \/ net' = net \cup out \cup {Fin(Peer(e), n)}
  /\ fins' \in [End -> Nat]
  /\ closed' \in [End -> BOOLEAN]
  /\ refusals' \in [End -> Nat]

LEMMA DeliverFacts ==
  ASSUME TypeOK,
         NEW e \in End, NEW q \in SUBSET RecvPkt, NEW n \in Nat,
         NEW st \in {"ESTABLISHED", "CLOSING_IN"}, NEW out,
         Distinct(q), Contiguous(q, rcv_next_deliver[e], n),
         TryDeliver(e, q, n, st, out)
  PROVE  DeliverPost(e, q, n, st, out)
  <1> DEFINE lo == rcv_next_deliver[e]
  <1>t. /\ lo \in Nat
        /\ rcv_next_deliver \in [End -> Nat]
        /\ recvq \in [End -> SUBSET RecvPkt]
        /\ cstate \in [End -> {"none", "ESTABLISHED", "CLOSING_IN",
                              "CLOSING_OUT", "freed"}]
        /\ fins \in [End -> Nat] /\ closed \in [End -> BOOLEAN]
        /\ refusals \in [End -> Nat]
    BY DEF TypeOK, ReceiverTypes, ControlTypes, HistoryTypes
  <1>r. \A p \in q : p \in RecvPkt /\ p.seq \in Nat /\ p.len \in Nat
    BY DEF RecvPkt
  <1>1. PICK stop \in lo .. n :
          /\ \A p \in q : p.seq \in lo .. (stop - 1) => p.len > 0
          /\ got' = [got EXCEPT ![e] = @ \o Payloads(q, lo, stop)]
          /\ \/ stop = n /\ TakesAll(e, q, n, st, out)
             \/ stop < n /\ LeavesRest(e, q, stop, st, out)
             \/ stop < n /\ MeetsFin(e, q, n, stop, out)
             \/ ClosesInCallback(e, q, n, out)
    BY DEF TryDeliver
  \* Everything before n has left the queue.
  <1>2. ASSUME Consumed(e, q, n)
        PROVE  /\ recvq' = [recvq EXCEPT ![e] = recvq'[e]]
               /\ recvq'[e] \in SUBSET RecvPkt
               /\ Distinct(recvq'[e])
               /\ \A p \in recvq'[e] : \E r \in q :
                    p.seq = r.seq /\ p.msg = r.msg /\ (p.len > 0 <=> r.len > 0)
               /\ rcv_next_deliver' =
                    [rcv_next_deliver EXCEPT ![e] = rcv_next_deliver'[e]]
               /\ rcv_next_deliver'[e] = n
               /\ n \in lo .. n
               /\ Contiguous(recvq'[e], rcv_next_deliver'[e], n)
    <2>1. recvq'[e] = {p \in q : p.seq >= n} /\ rcv_next_deliver'[e] = n
      BY <1>2, <1>t DEF Consumed
    <2>2. Distinct(recvq'[e])
      BY <2>1 DEF Distinct
    <2>3. Contiguous(recvq'[e], n, n)
      BY <2>1, <1>r DEF Contiguous, Seqs
    <2>4. n \in lo .. n
      BY <1>t DEF Contiguous
    <2> QED BY <1>2, <1>r, <2>1, <2>2, <2>3, <2>4 DEF Consumed
  <1>3. CASE stop = n /\ TakesAll(e, q, n, st, out)
    BY <1>1, <1>2, <1>3, <1>t DEF DeliverPost, TakesAll
  <1>4. CASE stop < n /\ LeavesRest(e, q, stop, st, out)
    <2>p. PICK p \in q : \E left \in 1 .. p.len :
            /\ p.seq = stop
            /\ recvq' = [recvq EXCEPT ![e] =
                 {r \in q : r.seq > stop} \cup {[p EXCEPT !.len = left]}]
      BY <1>4 DEF LeavesRest
    <2>1. PICK left \in 1 .. p.len :
            /\ p.seq = stop
            /\ recvq' = [recvq EXCEPT ![e] =
                 {r \in q : r.seq > stop} \cup {[p EXCEPT !.len = left]}]
      BY <2>p
    <2> DEFINE h == [p EXCEPT !.len = left]
    <2>2. /\ h \in RecvPkt /\ h.seq = stop /\ h.msg = p.msg
          /\ p.len > 0 /\ h.len > 0
      <3>1. p.len \in Nat /\ left \in Nat /\ left > 0
        BY <2>1, <1>r DEF RecvPkt
      <3>2. h.len = left /\ h \in RecvPkt /\ h.seq = stop /\ h.msg = p.msg
        BY <2>1, <3>1, <1>r DEF RecvPkt
      <3>3. p.len > 0
        BY <3>1
      <3> QED BY <3>1, <3>2, <3>3
    <2>3. /\ recvq'[e] = {r \in q : r.seq > stop} \cup {h}
          /\ rcv_next_deliver'[e] = stop
          /\ rcv_next_deliver' = [rcv_next_deliver EXCEPT ![e] = stop]
      BY <1>4, <2>1, <1>t DEF LeavesRest
    <2> HIDE DEF h
    <2>4. recvq'[e] \in SUBSET RecvPkt /\ Distinct(recvq'[e])
      BY <2>2, <2>3, <1>r DEF Distinct
    <2>5. \A x \in recvq'[e] : \E r \in q :
             x.seq = r.seq /\ x.msg = r.msg /\ (x.len > 0 <=> r.len > 0)
      <3>1. ASSUME NEW x \in recvq'[e] PROVE x = h \/ x \in q
        BY <2>3
      <3>2. h.seq = p.seq /\ h.msg = p.msg /\ (h.len > 0 <=> p.len > 0)
        BY <2>1, <2>2
      <3> QED BY <3>1, <3>2
    <2>6. Contiguous(recvq'[e], stop, n)
      BY <1>4, <2>2, <2>3, <1>r, <1>t DEF Contiguous, Seqs
    <2>7. recvq' = [recvq EXCEPT ![e] = recvq'[e]]
      BY <2>1, <2>3
    <2>8. refusals' \in [End -> Nat] /\ UNCHANGED <<fins, closed>>
      BY <1>4, <1>t DEF LeavesRest
    <2>9. cstate' = [cstate EXCEPT ![e] = st] /\ net' = net \cup out
      BY <1>4 DEF LeavesRest
    <2> QED BY <1>1, <1>t, <2>3, <2>4, <2>5, <2>6, <2>7, <2>8, <2>9
            DEF DeliverPost
  <1>5. CASE MeetsFin(e, q, n, stop, out)
    <2>1. fins' \in [End -> Nat] /\ cstate'[e] = "CLOSING_OUT"
      BY <1>5, <1>t DEF MeetsFin
    <2> QED BY <1>1, <1>2, <1>5, <1>t, <2>1 DEF DeliverPost, MeetsFin
  <1>6. CASE ClosesInCallback(e, q, n, out)
    <2>1. closed' \in [End -> BOOLEAN] /\ cstate'[e] = "CLOSING_OUT"
      BY <1>6, <1>t DEF ClosesInCallback
    <2> QED BY <1>1, <1>2, <1>6, <1>t, <2>1 DEF DeliverPost, ClosesInCallback
  <1> QED BY <1>1, <1>3, <1>4, <1>5, <1>6

-----------------------------------------------------------------------------
(* Every action keeps the invariant *)

LEMMA InitIInv == Init => IInv
  <1> SUFFICES ASSUME Init PROVE IInv
    OBVIOUS
  <1> USE DEF Init
  <1>1. TypeOK
    BY DEF TypeOK, SenderTypes, ReceiverTypes, ControlTypes, HistoryTypes
  <1>2. QueueInv
    BY DEF QueueInv, Distinct, Contiguous, Seqs
  <1>3. StreamInv
    BY PeerOfPeer DEF StreamInv, SeqIsCount, SendqNumbered, NetNumbered,
       RecvqNumbered, Numbered, GotUpTo
  <1>4. PrefixDelivered
    BY PeerOfPeer DEF PrefixDelivered, InOrder
  <1> QED BY <1>1, <1>2, <1>3, <1>4 DEF IInv

LEMMA MessageTypes ==
  /\ \A e \in End : Init_(e) \in Message /\ Init_(e).type = "INITCONN"
  /\ \A e \in End, s, n \in Nat :
       Ack(e, s, n) \in Message /\ Ack(e, s, n).type = "ACK"
  /\ \A e \in End, n \in Nat :
       Fin(e, n) \in Message /\ Fin(e, n).type = "FIN"
  /\ \A e \in End, p \in SendPkt, n \in Nat :
       /\ Data(e, p, n) \in Message
       /\ Data(e, p, n).type = "DATA" /\ Data(e, p, n).to = e
       /\ Data(e, p, n).seq1 = p.seq /\ Data(e, p, n).msg = p.msg
  BY DEF Init_, Ack, Fin, Data, Message, SendPkt

\* Data messages added to the network, if any, are numbered like the packets.
LEMMA NetKeeps ==
  ASSUME NetNumbered, NEW out,
         \A m \in out : m.type = "DATA" =>
           m.msg = m.seq1 + 1 /\ m.seq1 < sent'[Peer(m.to)],
         \A e \in End : sent[e] \in Nat /\ sent'[e] \in Nat /\ sent[e] <= sent'[e],
         net \in SUBSET Message,
         net' = net \cup out
  PROVE  NetNumbered'
  <1>1. ASSUME NEW m \in net, m.type = "DATA"
        PROVE  m.msg = m.seq1 + 1 /\ m.seq1 < sent'[Peer(m.to)]
    <2>1. Peer(m.to) \in End /\ m.seq1 \in Nat
      BY PeerOfPeer DEF Message
    <2>2. m.msg = m.seq1 + 1 /\ m.seq1 < sent[Peer(m.to)]
      BY <1>1 DEF NetNumbered
    <2> QED BY <2>1, <2>2
  <1> QED BY <1>1 DEF NetNumbered

\* Messages other than DATA need no number.
LEMMA NetKeepsControl ==
  ASSUME NetNumbered, NEW out, \A m \in out : m.type # "DATA",
         UNCHANGED sent, net' = net \cup out
  PROVE  NetNumbered'
  BY DEF NetNumbered

\* A channel appears, with empty queues.
LEMMA OpenKeeps ==
  ASSUME IInv, NEW e \in End, cstate[e] = "none",
         cstate' = [cstate EXCEPT ![e] = "ESTABLISHED"],
         idle' = [idle EXCEPT ![e] = 0],
         NEW out \in SUBSET {Init_(Acceptor)}, net' = net \cup out,
         UNCHANGED <<sndVars, rcvVars, appVars>>
  PROVE  IInv'
  <1>t. SenderTypes /\ ReceiverTypes /\ ControlTypes /\ HistoryTypes
    BY DEF IInv, TypeOK
  <1>a. UNCHANGED sndVars /\ UNCHANGED rcvVars /\ UNCHANGED appVars
    OBVIOUS
  <1>1. TypeOK'
    <2>1. SenderTypes'
      BY <1>t, <1>a DEF SenderTypes, sndVars, appVars
    <2>2. ReceiverTypes'
      BY <1>t, <1>a DEF ReceiverTypes, rcvVars, appVars
    <2>3. ControlTypes'
      BY <1>t, MessageTypes DEF ControlTypes, End
    <2>4. HistoryTypes'
      BY <1>t, <1>a DEF HistoryTypes, appVars
    <2> QED BY <2>1, <2>2, <2>3, <2>4 DEF TypeOK
  <1>2. QueueInv'
    BY <1>t, <1>a DEF IInv, ControlTypes, QueueInv, rcvVars
  <1>3. StreamInv'
    <2>1. SeqIsCount' /\ SendqNumbered' /\ RecvqNumbered'
      BY <1>a DEF IInv, StreamInv, SeqIsCount, SendqNumbered, RecvqNumbered,
         sndVars, rcvVars, appVars
    <2>2. NetNumbered'
      <3>1. NetNumbered /\ UNCHANGED sent /\ \A m \in out : m.type # "DATA"
        BY <1>a, MessageTypes DEF IInv, StreamInv, appVars, End
      <3> QED BY <3>1, NetKeepsControl
    <2>3. GotUpTo'
      BY <1>t, <1>a DEF IInv, StreamInv, GotUpTo, ControlTypes, rcvVars, appVars
    <2> QED BY <2>1, <2>2, <2>3 DEF StreamInv
  <1>4. PrefixDelivered'
    BY <1>a DEF IInv, PrefixDelivered, InOrder, appVars
  <1> QED BY <1>1, <1>2, <1>3, <1>4 DEF IInv

LEMMA SendKeeps ==
  ASSUME IInv, NEW e \in End, NEW len \in Lens, Send(e, len)
  PROVE  IInv'
  <1> DEFINE p == [seq |-> snd_next[e], msg |-> sent[e] + 1, len |-> len,
                   xmit |-> InWindow(snd_next[e], snd_una[e]), fast |-> FALSE]
             out == IF p.xmit THEN {Data(Peer(e), p, rcv_next[e])} ELSE {}
  <1>t. SenderTypes /\ ReceiverTypes /\ ControlTypes /\ HistoryTypes
    BY DEF IInv, TypeOK
  <1>1. p \in SendPkt /\ p.seq = sent[e] /\ p.msg = sent[e] + 1
    BY <1>t, BoundAssumption
       DEF IInv, SenderTypes, StreamInv, SeqIsCount, SendPkt, InWindow
  <1>2. /\ snd_next' = [snd_next EXCEPT ![e] = @ + 1]
        /\ sent' = [sent EXCEPT ![e] = @ + 1]
    BY DEF Send
  <1>3. idle' = IF sendq[e] = {} THEN idle ELSE [idle EXCEPT ![e] = 0]
    BY DEF Send
  <1>4. sendq' = [sendq EXCEPT ![e] = Insert(@, p)]
    BY DEF Send
  <1>5. net' = net \cup out
    BY DEF Send
  <1>6. UNCHANGED <<cstate, snd_una, rcv_next, rcv_next_deliver, recvq, finseq,
                    got, fins, closed, refusals>>
    BY DEF Send, rcvVars
  <1>7. \A m \in out : /\ m \in Message
                       /\ m.msg = m.seq1 + 1 /\ m.seq1 = sent[e]
                       /\ Peer(m.to) = e
    BY <1>t, <1>1, MessageTypes, PeerOfPeer DEF ReceiverTypes
  <1> HIDE DEF p, out
  <1>8. \A d \in End : sent'[d] \in Nat /\ sent[d] <= sent'[d]
    BY <1>t, <1>2 DEF SenderTypes
  <1>9. TypeOK'
    <2>1. sendq' \in [End -> SUBSET SendPkt]
      BY <1>t, <1>1, <1>4 DEF SenderTypes, Insert
    <2>2. SenderTypes'
      <3>1. snd_next' \in [End -> Nat]
        BY <1>t, <1>2 DEF SenderTypes
      <3>2. sent' \in [End -> Nat]
        BY <1>t, <1>2 DEF SenderTypes
      <3>3. snd_una' \in [End -> Nat]
        BY <1>t, <1>6 DEF SenderTypes
      <3> QED BY <2>1, <3>1, <3>2, <3>3 DEF SenderTypes
    <2>3. ReceiverTypes'
      BY <1>t, <1>6 DEF ReceiverTypes
    <2>4. ControlTypes'
      BY <1>t, <1>3, <1>5, <1>6, <1>7 DEF ControlTypes
    <2>5. HistoryTypes'
      BY <1>t, <1>6 DEF HistoryTypes
    <2> QED BY <2>2, <2>3, <2>4, <2>5 DEF TypeOK
  <1>10. QueueInv'
    BY <1>6 DEF IInv, QueueInv
  <1>11. StreamInv'
    <2>1. SeqIsCount'
      BY <1>t, <1>2 DEF IInv, SenderTypes, StreamInv, SeqIsCount
    <2>2. SendqNumbered'
      <3> SUFFICES ASSUME NEW d \in End, NEW r \in sendq'[d]
                   PROVE  r.msg = r.seq + 1 /\ r.seq < sent'[d]
        BY DEF SendqNumbered
      <3>1. r \in sendq[d] \/ (d = e /\ r = p)
        BY <1>t, <1>4 DEF SenderTypes, Insert
      <3>2. CASE r \in sendq[d]
        BY <1>t, <1>8, <3>2
           DEF IInv, SenderTypes, StreamInv, SendqNumbered, SendPkt
      <3>3. CASE d = e /\ r = p
        BY <1>t, <1>1, <1>2, <3>3 DEF SenderTypes
      <3> QED BY <3>1, <3>2, <3>3
    <2>3. NetNumbered'
      <3>1. \A m \in out : m.type = "DATA" =>
              m.msg = m.seq1 + 1 /\ m.seq1 < sent'[Peer(m.to)]
        BY <1>t, <1>2, <1>7 DEF SenderTypes
      <3>2. NetNumbered /\ net \in SUBSET Message /\ sent \in [End -> Nat]
        BY <1>t DEF IInv, StreamInv, SenderTypes, ControlTypes
      <3> QED BY <1>5, <1>8, <3>1, <3>2, NetKeeps
    <2>4. RecvqNumbered'
      <3> SUFFICES ASSUME NEW d \in End, NEW r \in recvq'[d], r.len > 0
                   PROVE  r.msg = r.seq + 1 /\ r.seq < sent'[Peer(d)]
        BY DEF RecvqNumbered, Numbered
      <3>1. r \in recvq[d] /\ r.seq \in Nat
        BY <1>t, <1>6 DEF ReceiverTypes, RecvPkt
      <3>2. r.msg = r.seq + 1 /\ r.seq < sent[Peer(d)]
        BY <3>1 DEF IInv, StreamInv, RecvqNumbered, Numbered
      <3>3. /\ Peer(d) \in End /\ sent[Peer(d)] \in Nat
            /\ sent'[Peer(d)] \in Nat /\ sent[Peer(d)] <= sent'[Peer(d)]
        BY <1>t, <1>8, PeerOfPeer DEF SenderTypes
      <3> QED BY <3>1, <3>2, <3>3
    <2>5. GotUpTo'
      BY <1>6 DEF IInv, StreamInv, GotUpTo
    <2> QED BY <2>1, <2>2, <2>3, <2>4, <2>5 DEF StreamInv
  <1>12. PrefixDelivered'
    <2> SUFFICES ASSUME NEW d \in End PROVE InOrder(d)'
      BY DEF PrefixDelivered
    <2>1. InOrder(d) /\ got'[d] = got[d] /\ Len(got[d]) \in Nat
      BY <1>t, <1>6 DEF IInv, PrefixDelivered, ReceiverTypes
    <2>2. /\ Peer(d) \in End /\ sent[Peer(d)] \in Nat
          /\ sent'[Peer(d)] \in Nat /\ sent[Peer(d)] <= sent'[Peer(d)]
      BY <1>t, <1>8, PeerOfPeer DEF SenderTypes
    <2> QED BY <2>1, <2>2 DEF InOrder
  <1> QED BY <1>9, <1>10, <1>11, <1>12 DEF IInv

LEMMA CloseKeeps ==
  ASSUME IInv, NEW e \in End, Close(e)
  PROVE  IInv'
  <1>t. SenderTypes /\ ReceiverTypes /\ ControlTypes /\ HistoryTypes
    BY DEF IInv, TypeOK
  <1>1. /\ cstate' = [cstate EXCEPT ![e] = "CLOSING_OUT"]
        /\ closed' = [closed EXCEPT ![e] = TRUE]
        /\ net' = net \cup {Fin(Peer(e), rcv_next[e])}
        /\ cstate[e] # "freed"
    BY DEF Close, IsOpen
  <1>2. UNCHANGED <<snd_una, snd_next, sendq, rcv_next, rcv_next_deliver, recvq,
                    finseq, idle, sent, got, fins, refusals>>
    BY DEF Close, sndVars, rcvVars
  <1>3. /\ Fin(Peer(e), rcv_next[e]) \in Message
        /\ Fin(Peer(e), rcv_next[e]).type = "FIN"
    BY <1>t, MessageTypes, PeerOfPeer DEF ReceiverTypes
  <1>4. TypeOK'
    <2>1. SenderTypes'
      BY <1>t, <1>2 DEF SenderTypes
    <2>2. ReceiverTypes'
      BY <1>t, <1>2 DEF ReceiverTypes
    <2>3. ControlTypes'
      BY <1>t, <1>1, <1>2, <1>3 DEF ControlTypes
    <2>4. HistoryTypes'
      BY <1>t, <1>1, <1>2 DEF HistoryTypes
    <2> QED BY <2>1, <2>2, <2>3, <2>4 DEF TypeOK
  <1>5. QueueInv'
    BY <1>t, <1>1, <1>2 DEF IInv, ControlTypes, QueueInv
  <1>6. StreamInv'
    <2>1. SeqIsCount' /\ SendqNumbered' /\ RecvqNumbered'
      BY <1>2 DEF IInv, StreamInv, SeqIsCount, SendqNumbered, RecvqNumbered
    <2>2. NetNumbered'
      <3> DEFINE out == {Fin(Peer(e), rcv_next[e])}
      <3>1. NetNumbered /\ UNCHANGED sent /\ net' = net \cup out
        BY <1>1, <1>2 DEF IInv, StreamInv
      <3>2. \A m \in out : m.type # "DATA"
        BY <1>3
      <3> HIDE DEF out
      <3> QED BY <3>1, <3>2, NetKeepsControl
    <2>3. GotUpTo'
      BY <1>t, <1>1, <1>2 DEF IInv, StreamInv, GotUpTo, ControlTypes
    <2> QED BY <2>1, <2>2, <2>3 DEF StreamInv
  <1>7. PrefixDelivered'
    BY <1>2 DEF IInv, PrefixDelivered, InOrder
  <1> QED BY <1>4, <1>5, <1>6, <1>7 DEF IInv

-----------------------------------------------------------------------------
(* The receiving side: a packet is queued, and what can be is delivered *)

\* Queueing a packet at or after rcv_next keeps the queue contiguous.
LEMMA QueuedContiguous ==
  ASSUME NEW r \in SUBSET RecvPkt, NEW lo \in Nat, NEW next \in Nat,
         Distinct(r), Contiguous(r, lo, next),
         NEW p \in RecvPkt, p.seq >= next,
         NEW n \in FirstMissing(Insert(r, p), next)
  PROVE  Contiguous(Insert(r, p), lo, n)
  <1> DEFINE q == Insert(r, p)
  <1>1. /\ n \in Nat /\ next <= n /\ n \notin Seqs(q)
        /\ \A s \in next .. (n - 1) : s \in Seqs(q)
    BY FirstMissingFacts
  <1>2. /\ q \in SUBSET RecvPkt /\ q \subseteq r \cup {p} /\ r \subseteq q
        /\ Seqs(r) \subseteq Seqs(q)
    BY InsertFacts
  <1>3. \A s \in lo .. (n - 1) : s \in Seqs(q)
    <2> SUFFICES ASSUME NEW s \in lo .. (n - 1) PROVE s \in Seqs(q)
      OBVIOUS
    <2>1. CASE s < next
      BY <1>2, <2>1 DEF Contiguous
    <2>2. CASE s >= next
      BY <1>1, <2>2
    <2> QED BY <2>1, <2>2
  <1>4. \A x \in q : x.seq >= lo
    <2>1. p.seq \in Nat /\ lo <= next
      BY DEF RecvPkt, Contiguous
    <2> QED BY <1>2, <2>1 DEF Contiguous
  <1>5. lo <= n
    BY <1>1 DEF Contiguous
  <1> HIDE DEF q
  <1>6. Contiguous(q, lo, n)
    BY <1>1, <1>3, <1>4, <1>5 DEF Contiguous
  <1> QED BY <1>6 DEF q

\* A packet that is in the stream is queued at end e, and try_deliver runs.
Arrives(e, p, n, st, out) ==
  /\ IsOpen(e)
  /\ p \in RecvPkt /\ p.seq >= rcv_next[e]
  /\ p.len > 0 => p.msg = p.seq + 1 /\ p.seq < sent[Peer(e)]
  /\ n \in FirstMissing(Insert(recvq[e], p), rcv_next[e])
  /\ rcv_next' = [rcv_next EXCEPT ![e] = n]
  /\ st \in {"ESTABLISHED", "CLOSING_IN"}
  /\ TryDeliver(e, Insert(recvq[e], p), n, st, out)
  /\ UNCHANGED sent

LEMMA ArrivalFacts ==
  ASSUME IInv, NEW e \in End, NEW p, NEW n, NEW st, NEW out,
         Arrives(e, p, n, st, out)
  PROVE  /\ n \in Nat
         /\ DeliverPost(e, Insert(recvq[e], p), n, st, out)
         /\ Insert(recvq[e], p) \in SUBSET RecvPkt
         /\ Contiguous(Insert(recvq[e], p), rcv_next_deliver[e], n)
         /\ Numbered(Insert(recvq[e], p), sent[Peer(e)])
  <1> DEFINE q == Insert(recvq[e], p)
  <1>t. /\ recvq[e] \in SUBSET RecvPkt /\ rcv_next[e] \in Nat
        /\ rcv_next_deliver[e] \in Nat
    BY DEF IInv, TypeOK, ReceiverTypes
  <1>1. /\ Distinct(recvq[e])
        /\ Contiguous(recvq[e], rcv_next_deliver[e], rcv_next[e])
    BY DEF IInv, QueueInv, Arrives, IsOpen
  <1>2. p \in RecvPkt /\ p.seq >= rcv_next[e] /\ n \in FirstMissing(q, rcv_next[e])
    BY DEF Arrives
  <1>3. n \in Nat
    BY <1>t, <1>2, FirstMissingFacts
  <1>4. q \in SUBSET RecvPkt /\ Distinct(q) /\ q \subseteq recvq[e] \cup {p}
    BY <1>t, <1>1, <1>2, InsertFacts
  <1>5. Contiguous(q, rcv_next_deliver[e], n)
    BY <1>t, <1>1, <1>2, QueuedContiguous
  <1>6. Numbered(q, sent[Peer(e)])
    <2>1. Numbered(recvq[e], sent[Peer(e)])
      BY DEF IInv, StreamInv, RecvqNumbered
    <2>2. p.len > 0 => p.msg = p.seq + 1 /\ p.seq < sent[Peer(e)]
      BY DEF Arrives
    <2> QED BY <1>4, <2>1, <2>2 DEF Numbered
  <1>7. TryDeliver(e, q, n, st, out) /\ st \in {"ESTABLISHED", "CLOSING_IN"}
    BY DEF Arrives
  <1>8. TypeOK
    BY DEF IInv
  <1> HIDE DEF q
  <1>9. DeliverPost(e, q, n, st, out)
    BY <1>3, <1>4, <1>5, <1>7, <1>8, DeliverFacts
  <1> QED BY <1>3, <1>4, <1>5, <1>6, <1>9 DEF q

\* The application at e has been handed the messages 1 to k.
LEMMA ArrivalGot ==
  ASSUME IInv, NEW e \in End, NEW p, NEW n, NEW st, NEW out,
         Arrives(e, p, n, st, out)
  PROVE  \E k \in rcv_next_deliver[e] .. n :
           /\ got' = [got EXCEPT ![e] = got'[e]]
           /\ got'[e] \in Seq(Nat)
           /\ Len(got'[e]) = k
           /\ k <= sent[Peer(e)]
           /\ \A i \in 1 .. k : got'[e][i] = i
           /\ cstate'[e] # "CLOSING_OUT" => k = rcv_next_deliver'[e]
  <1> DEFINE q == Insert(recvq[e], p)
             lo == rcv_next_deliver[e]
  <1>t. /\ got \in [End -> Seq(Nat)] /\ lo \in Nat
        /\ sent[Peer(e)] \in Nat
    BY PeerOfPeer DEF IInv, TypeOK, ReceiverTypes, SenderTypes
  <1>1. n \in Nat /\ DeliverPost(e, q, n, st, out) /\ q \in SUBSET RecvPkt
    BY ArrivalFacts
  <1>2. Contiguous(q, lo, n)
    BY ArrivalFacts
  <1>3. Numbered(q, sent[Peer(e)])
    BY ArrivalFacts
  <1> HIDE DEF q
  <1>4. PICK k \in lo .. n :
          /\ \A r \in q : r.seq \in lo .. (k - 1) => r.len > 0
          /\ got' = [got EXCEPT ![e] = @ \o Payloads(q, lo, k)]
          /\ cstate'[e] # "CLOSING_OUT" => k = rcv_next_deliver'[e]
    BY <1>1 DEF DeliverPost
  <1>5. Len(got[e]) = lo /\ \A i \in 1 .. Len(got[e]) : got[e][i] = i
    BY DEF IInv, StreamInv, GotUpTo, Arrives, IsOpen, PrefixDelivered, InOrder
  <1>6. Payloads(q, lo, k) = [i \in 1 .. (k - lo) |-> lo + i]
    <2>1. \A s \in lo .. (k - 1) : s \in Seqs(q)
      BY <1>1, <1>2, <1>t DEF Contiguous
    <2>2. \A r \in q : r.seq \in lo .. (k - 1) => r.msg = r.seq + 1
      BY <1>3, <1>4 DEF Numbered
    <2>3. k \in Nat /\ lo <= k
      BY <1>1, <1>t
    <2> QED BY <1>1, <1>t, <2>1, <2>2, <2>3, PayloadsNumbered
  <1>7. got'[e] = got[e] \o [i \in 1 .. (k - Len(got[e])) |-> Len(got[e]) + i]
    BY <1>4, <1>5, <1>6, <1>t
  <1>8. /\ got'[e] \in Seq(Nat) /\ Len(got'[e]) = k
        /\ \A i \in 1 .. k : got'[e][i] = i
    <2> DEFINE g == got[e]
               h == got'[e]
    <2>1. /\ g \in Seq(Nat) /\ k \in Nat /\ Len(g) <= k
          /\ \A i \in 1 .. Len(g) : g[i] = i
      BY <1>t, <1>1, <1>5
    <2>2. h = g \o [i \in 1 .. (k - Len(g)) |-> Len(g) + i]
      BY <1>7
    <2> HIDE DEF g, h
    <2>3. h \in Seq(Nat) /\ Len(h) = k /\ \A i \in 1 .. k : h[i] = i
      BY <2>1, <2>2, AppendInOrder
    <2> QED BY <2>3 DEF h
  <1>9. k <= sent[Peer(e)]
    <2>1. CASE k = lo
      BY <2>1, <1>5, PeerOfPeer DEF IInv, PrefixDelivered, InOrder
    <2>2. CASE k > lo
      <3>1. k - 1 \in lo .. (n - 1)
        BY <2>2, <1>1, <1>t
      <3>2. PICK r \in q : r.seq = k - 1
        BY <3>1, <1>2 DEF Contiguous, Seqs
      <3>3. r.len > 0
        BY <3>1, <3>2, <1>4, <1>1, <1>t
      <3> QED BY <3>2, <3>3, <1>3, <1>1, <1>t DEF Numbered
    <2> QED BY <2>1, <2>2, <1>1, <1>t
  <1>10. got' = [got EXCEPT ![e] = got'[e]]
    BY <1>4, <1>t
  <1> QED BY <1>4, <1>8, <1>9, <1>10

\* What a delivery does to the invariant, whatever else the handler did to the
\* send queue and the clock.
LEMMA ArrivalKeeps ==
  ASSUME IInv, NEW e \in End, NEW p, NEW n, NEW st, NEW out,
         Arrives(e, p, n, st, out),
         finseq' \in [End -> Nat],
         out \in SUBSET Message, \A m \in out : m.type # "DATA"
  PROVE  /\ ReceiverTypes' /\ HistoryTypes'
         /\ cstate' \in [End -> {"none", "ESTABLISHED", "CLOSING_IN",
                               "CLOSING_OUT", "freed"}]
         /\ net' \in SUBSET Message /\ NetNumbered'
         /\ QueueInv' /\ RecvqNumbered' /\ GotUpTo' /\ PrefixDelivered'
  <1> DEFINE q == Insert(recvq[e], p)
  <1>t. SenderTypes /\ ReceiverTypes /\ ControlTypes /\ HistoryTypes
    BY DEF IInv, TypeOK
  <1>1. /\ n \in Nat /\ DeliverPost(e, q, n, st, out) /\ q \in SUBSET RecvPkt
        /\ Numbered(q, sent[Peer(e)])
    BY ArrivalFacts
  <1> HIDE DEF q
  <1>2. PICK k \in rcv_next_deliver[e] .. n :
           /\ got' = [got EXCEPT ![e] = got'[e]]
           /\ got'[e] \in Seq(Nat)
           /\ Len(got'[e]) = k
           /\ k <= sent[Peer(e)]
           /\ \A i \in 1 .. k : got'[e][i] = i
           /\ cstate'[e] # "CLOSING_OUT" => k = rcv_next_deliver'[e]
    BY ArrivalGot
  <1>3. /\ rcv_next' = [rcv_next EXCEPT ![e] = n] /\ UNCHANGED sent
        /\ IsOpen(e) /\ st \in {"ESTABLISHED", "CLOSING_IN"}
    BY DEF Arrives
  <1>4. /\ recvq' = [recvq EXCEPT ![e] = recvq'[e]]
        /\ recvq'[e] \in SUBSET RecvPkt
        /\ Distinct(recvq'[e])
        /\ rcv_next_deliver' =
             [rcv_next_deliver EXCEPT ![e] = rcv_next_deliver'[e]]
        /\ rcv_next_deliver'[e] \in rcv_next_deliver[e] .. n
        /\ Contiguous(recvq'[e], rcv_next_deliver'[e], n)
    BY <1>1 DEF DeliverPost
  <1>5. /\ cstate' \in {[cstate EXCEPT ![e] = st],
                       [cstate EXCEPT ![e] = "CLOSING_OUT"]}
        /\ HistoryTypes'
    BY <1>1 DEF DeliverPost, HistoryTypes
  <1>6. \A r \in recvq'[e] : \E x \in q :
           r.seq = x.seq /\ r.msg = x.msg /\ (r.len > 0 => x.len > 0)
    BY <1>1 DEF DeliverPost
  <1>7. ReceiverTypes'
    <2>1. rcv_next_deliver' \in [End -> Nat]
      <3>1. rcv_next_deliver'[e] \in Nat
        BY <1>t, <1>1, <1>4 DEF ReceiverTypes
      <3> QED BY <1>t, <1>4, <3>1 DEF ReceiverTypes
    <2>2. rcv_next' \in [End -> Nat]
      BY <1>t, <1>1, <1>3 DEF ReceiverTypes
    <2>3. recvq' \in [End -> SUBSET RecvPkt]
      BY <1>t, <1>4 DEF ReceiverTypes
    <2>4. got' \in [End -> Seq(Nat)]
      BY <1>t, <1>2 DEF ReceiverTypes
    <2> QED BY <2>1, <2>2, <2>3, <2>4 DEF ReceiverTypes
  <1>8. cstate' \in [End -> {"none", "ESTABLISHED", "CLOSING_IN",
                            "CLOSING_OUT", "freed"}]
    BY <1>t, <1>3, <1>5 DEF ControlTypes
  <1>9. net' \in SUBSET Message /\ NetNumbered'
    <2> DEFINE f == Fin(Peer(e), n)
    <2>1. f \in Message /\ f.type = "FIN"
      BY <1>1, MessageTypes, PeerOfPeer
    <2>2. net' = net \cup out \/ net' = net \cup out \cup {f}
      BY <1>1 DEF DeliverPost
    <2> HIDE DEF f
    <2>3. PICK more \in {{}, {f}} : net' = net \cup (out \cup more)
      <3>1. CASE net' = net \cup out
        <4>1. net' = net \cup (out \cup {})
          BY <3>1
        <4> QED BY <4>1
      <3>2. CASE net' = net \cup out \cup {f}
        <4>1. net' = net \cup (out \cup {f})
          BY <3>2
        <4> QED BY <4>1
      <3> QED BY <2>2, <3>1, <3>2
    <2>4. \A m \in out \cup more : m \in Message /\ m.type # "DATA"
      BY <2>1, <2>3
    <2>5. NetNumbered
      BY DEF IInv, StreamInv
    <2>6. NetNumbered'
      BY <1>3, <2>3, <2>4, <2>5, NetKeepsControl
    <2> QED BY <1>t, <2>3, <2>4, <2>6 DEF ControlTypes
  <1>10. QueueInv'
    <2> SUFFICES ASSUME NEW d \in End
                 PROVE  /\ Distinct(recvq'[d])
                        /\ cstate'[d] # "freed" =>
                             Contiguous(recvq'[d], rcv_next_deliver'[d], rcv_next'[d])
      BY DEF QueueInv
    <2>1. CASE d = e
      BY <2>1, <1>t, <1>3, <1>4 DEF ReceiverTypes
    <2>2. CASE d # e
      <3>1. /\ recvq'[d] = recvq[d] /\ rcv_next'[d] = rcv_next[d]
            /\ rcv_next_deliver'[d] = rcv_next_deliver[d]
            /\ cstate'[d] = cstate[d]
        BY <2>2, <1>t, <1>3, <1>4, <1>5 DEF ReceiverTypes, ControlTypes
      <3> QED BY <3>1 DEF IInv, QueueInv
    <2> QED BY <2>1, <2>2
  <1>11. RecvqNumbered'
    <2> SUFFICES ASSUME NEW d \in End PROVE Numbered(recvq'[d], sent[Peer(d)])
      BY <1>3 DEF RecvqNumbered
    <2>1. CASE d = e
      BY <2>1, <1>1, <1>6 DEF Numbered
    <2>2. CASE d # e
      BY <2>2, <1>t, <1>4
         DEF IInv, StreamInv, RecvqNumbered, ReceiverTypes
    <2> QED BY <2>1, <2>2
  <1>12. GotUpTo'
    <2> SUFFICES ASSUME NEW d \in End, cstate'[d] \notin {"CLOSING_OUT", "freed"}
                 PROVE  Len(got'[d]) = rcv_next_deliver'[d]
      BY DEF GotUpTo
    <2>1. CASE d = e
      BY <2>1, <1>2
    <2>2. CASE d # e
      <3>1. /\ got'[d] = got[d] /\ cstate'[d] = cstate[d]
            /\ rcv_next_deliver'[d] = rcv_next_deliver[d]
        BY <2>2, <1>t, <1>2, <1>4, <1>5 DEF ReceiverTypes, ControlTypes
      <3> QED BY <3>1 DEF IInv, StreamInv, GotUpTo
    <2> QED BY <2>1, <2>2
  <1>13. PrefixDelivered'
    <2> SUFFICES ASSUME NEW d \in End PROVE InOrder(d)'
      BY DEF PrefixDelivered
    <2>1. CASE d = e
      BY <2>1, <1>2, <1>3 DEF InOrder
    <2>2. CASE d # e
      <3>1. got'[d] = got[d]
        BY <2>2, <1>t, <1>2 DEF ReceiverTypes
      <3> QED BY <3>1, <1>3 DEF IInv, PrefixDelivered, InOrder
    <2> QED BY <2>1, <2>2
  <1> QED BY <1>5, <1>7, <1>8, <1>9, <1>10, <1>11, <1>12, <1>13

-----------------------------------------------------------------------------
(* The message handlers *)

\* Packets leave a send queue, or change in their flags only.
LEMMA SendqKeeps ==
  ASSUME IInv, NEW e \in End, UNCHANGED sent,
         sendq' = [sendq EXCEPT ![e] = sendq'[e]],
         \A r \in sendq'[e] :
           r \in SendPkt /\ \E p \in sendq[e] : r.seq = p.seq /\ r.msg = p.msg
  PROVE  sendq' \in [End -> SUBSET SendPkt] /\ SendqNumbered'
  <1>t. sendq \in [End -> SUBSET SendPkt]
    BY DEF IInv, TypeOK, SenderTypes
  <1>1. sendq' \in [End -> SUBSET SendPkt]
    BY <1>t
  <1>2. ASSUME NEW d \in End, NEW r \in sendq'[d]
        PROVE  r.msg = r.seq + 1 /\ r.seq < sent'[d]
    <2>1. PICK p \in sendq[d] : r.seq = p.seq /\ r.msg = p.msg
      BY <1>t, <1>2
    <2> QED BY <2>1 DEF IInv, StreamInv, SendqNumbered
  <1> QED BY <1>1, <1>2 DEF SendqNumbered

LEMMA RecvDataKeeps ==
  ASSUME IInv, NEW e \in End, NEW m \in net, RecvData(e, m)
  PROVE  IInv'
  <1> DEFINE p == [seq |-> m.seq1, msg |-> m.msg, len |-> m.len]
             q == Insert(recvq[e], p)
             una == Upto(snd_una[e], m.seq2)
  <1>t. SenderTypes /\ ReceiverTypes /\ ControlTypes /\ HistoryTypes
    BY DEF IInv, TypeOK
  <1>m. /\ m \in Message /\ m.seq1 \in Nat /\ m.seq2 \in Nat /\ m.msg \in Nat
        /\ m.len \in Nat
    BY <1>t DEF ControlTypes, Message
  <1>1. /\ m.type = "DATA" /\ m.to = e /\ m.len > 0 /\ IsOpen(e)
        /\ snd_una' = [snd_una EXCEPT ![e] = Upto(@, m.seq2)]
        /\ sendq' = [sendq EXCEPT ![e] = @ \ Acked(@, snd_una'[e])]
        /\ UNCHANGED <<snd_next, finseq, idle, sent>>
    BY DEF RecvData
  <1>2. SenderTypes' /\ SeqIsCount' /\ SendqNumbered'
    <2>1. snd_una' \in [End -> Nat]
      BY <1>t, <1>m, <1>1 DEF SenderTypes, Upto
    <2>2. sendq' \in [End -> SUBSET SendPkt] /\ SendqNumbered'
      <3>1. sendq' = [sendq EXCEPT ![e] = sendq'[e]]
        BY <1>t, <1>1 DEF SenderTypes
      <3>2. \A r \in sendq'[e] : r \in SendPkt /\ r \in sendq[e]
        BY <1>t, <1>1 DEF SenderTypes
      <3> QED BY <1>1, <3>1, <3>2, SendqKeeps
    <2>3. SeqIsCount' /\ snd_next' \in [End -> Nat] /\ sent' \in [End -> Nat]
      BY <1>t, <1>1 DEF IInv, StreamInv, SeqIsCount, SenderTypes
    <2> QED BY <2>1, <2>2, <2>3 DEF SenderTypes
  <1>3. CASE Acceptable(e, m.seq1) /\ ~PastFin(e, m.seq1)
    <2>1. PICK n \in FirstMissing(q, rcv_next[e]) :
            /\ rcv_next' = [rcv_next EXCEPT ![e] = n]
            /\ TryDeliver(e, q, n, cstate[e], {Ack(Peer(e), m.seq1, n)})
      BY <1>3 DEF RecvData
    <2> DEFINE out == {Ack(Peer(e), m.seq1, n)}
    <2>2. Arrives(e, p, n, cstate[e], out)
      <3>1. p \in RecvPkt /\ p.seq = m.seq1 /\ p.msg = m.msg /\ p.len = m.len
        BY <1>m DEF RecvPkt
      <3>2. m.seq1 >= rcv_next[e]
        BY <1>3 DEF Acceptable
      <3>3. m.msg = m.seq1 + 1 /\ m.seq1 < sent[Peer(e)]
        BY <1>1 DEF IInv, StreamInv, NetNumbered
      <3>4. cstate[e] \in {"ESTABLISHED", "CLOSING_IN"}
        BY <1>1 DEF IsOpen
      <3> HIDE DEF p, out
      <3> QED BY <1>1, <2>1, <3>1, <3>2, <3>3, <3>4 DEF Arrives, out
    <2>3. n \in Nat
      BY <2>2, ArrivalFacts
    <2>4. out \in SUBSET Message /\ \A x \in out : x.type # "DATA"
      BY <1>m, <2>3, MessageTypes, PeerOfPeer
    <2>5. finseq' \in [End -> Nat]
      BY <1>t, <1>1 DEF ReceiverTypes
    <2> HIDE DEF p, out
    <2>6. /\ ReceiverTypes' /\ HistoryTypes'
          /\ cstate' \in [End -> {"none", "ESTABLISHED", "CLOSING_IN",
                                "CLOSING_OUT", "freed"}]
          /\ net' \in SUBSET Message /\ NetNumbered'
          /\ QueueInv' /\ RecvqNumbered' /\ GotUpTo' /\ PrefixDelivered'
      BY <2>2, <2>4, <2>5, ArrivalKeeps
    <2>7. ControlTypes'
      BY <1>t, <1>1, <2>6 DEF ControlTypes
    <2> QED BY <1>2, <2>6, <2>7 DEF IInv, TypeOK, StreamInv
  <1>4. CASE ~(Acceptable(e, m.seq1) /\ ~PastFin(e, m.seq1))
    <2>1. UNCHANGED <<cstate, rcv_next, rcv_next_deliver, recvq, net, got, fins,
                      closed, refusals>>
      BY <1>4 DEF RecvData
    <2>2. ReceiverTypes' /\ ControlTypes' /\ HistoryTypes'
      BY <1>t, <1>1, <2>1 DEF ReceiverTypes, ControlTypes, HistoryTypes
    <2>3. QueueInv'
      BY <2>1 DEF IInv, QueueInv
    <2>4. NetNumbered' /\ RecvqNumbered' /\ GotUpTo'
      BY <1>1, <2>1 DEF IInv, StreamInv, NetNumbered, RecvqNumbered, GotUpTo
    <2>5. PrefixDelivered'
      BY <1>1, <2>1 DEF IInv, PrefixDelivered, InOrder
    <2> QED BY <1>2, <2>2, <2>3, <2>4, <2>5 DEF IInv, TypeOK, StreamInv
  <1> QED BY <1>3, <1>4

LEMMA RecvFinKeeps ==
  ASSUME IInv, NEW e \in End, NEW m \in net, RecvFin(e, m)
  PROVE  IInv'
  <1> DEFINE p == [seq |-> rcv_next[e], msg |-> 0, len |-> 0]
  <1>t. SenderTypes /\ ReceiverTypes /\ ControlTypes /\ HistoryTypes
    BY DEF IInv, TypeOK
  <1>1. PICK n \in FirstMissing(Insert(recvq[e], p), rcv_next[e]) :
          /\ rcv_next' = [rcv_next EXCEPT ![e] = n]
          /\ TryDeliver(e, Insert(recvq[e], p), n, "CLOSING_IN", {})
    BY DEF RecvFin
  <1>2. /\ cstate[e] = "ESTABLISHED"
        /\ finseq' = [finseq EXCEPT ![e] = m.seq1]
        /\ UNCHANGED <<snd_una, snd_next, sendq, idle, sent>>
    BY DEF RecvFin, sndVars
  <1>3. Arrives(e, p, n, "CLOSING_IN", {})
    <2>1. p \in RecvPkt /\ p.seq = rcv_next[e] /\ p.len = 0 /\ p.seq \in Nat
      BY <1>t DEF ReceiverTypes, RecvPkt
    <2>2. IsOpen(e)
      BY <1>2 DEF IsOpen
    <2> HIDE DEF p
    <2> QED BY <1>1, <1>2, <2>1, <2>2 DEF Arrives
  <1>4. finseq' \in [End -> Nat]
    BY <1>t, <1>2 DEF ReceiverTypes, ControlTypes, Message
  <1> HIDE DEF p
  <1>5. /\ ReceiverTypes' /\ HistoryTypes'
        /\ cstate' \in [End -> {"none", "ESTABLISHED", "CLOSING_IN",
                              "CLOSING_OUT", "freed"}]
        /\ net' \in SUBSET Message /\ NetNumbered'
        /\ QueueInv' /\ RecvqNumbered' /\ GotUpTo' /\ PrefixDelivered'
    <2>1. {} \in SUBSET Message /\ \A x \in {} : x.type # "DATA"
      OBVIOUS
    <2> QED BY <1>3, <1>4, <2>1, ArrivalKeeps
  <1>6. SenderTypes' /\ ControlTypes'
    BY <1>t, <1>2, <1>5 DEF SenderTypes, ControlTypes
  <1>7. SeqIsCount' /\ SendqNumbered'
    BY <1>2 DEF IInv, StreamInv, SeqIsCount, SendqNumbered
  <1> QED BY <1>5, <1>6, <1>7 DEF IInv, TypeOK, StreamInv

\* Data messages built from packets of the send queue are well-formed.
LEMMA DataKeeps ==
  ASSUME IInv, NEW e \in End, NEW out \in SUBSET sendq[e], UNCHANGED sent,
         net' = net \cup {Data(Peer(e), p, rcv_next[e]) : p \in out}
  PROVE  net' \in SUBSET Message /\ NetNumbered'
  <1> DEFINE new == {Data(Peer(e), p, rcv_next[e]) : p \in out}
  <1>t. /\ sendq[e] \in SUBSET SendPkt /\ net \in SUBSET Message
        /\ rcv_next[e] \in Nat /\ sent \in [End -> Nat]
    BY DEF IInv, TypeOK, SenderTypes, ReceiverTypes, ControlTypes
  <1>1. ASSUME NEW m \in new
        PROVE  /\ m \in Message
               /\ m.msg = m.seq1 + 1 /\ m.seq1 < sent[Peer(m.to)]
    <2>1. PICK p \in out : m = Data(Peer(e), p, rcv_next[e])
      BY <1>1
    <2>2. p \in SendPkt /\ p.msg = p.seq + 1 /\ p.seq < sent[e]
      BY <1>t, <2>1 DEF IInv, StreamInv, SendqNumbered
    <2>3. Peer(e) \in End /\ Peer(Peer(e)) = e
      BY PeerOfPeer
    <2>4. /\ m \in Message /\ m.to = Peer(e)
          /\ m.seq1 = p.seq /\ m.msg = p.msg
      BY <1>t, <2>1, <2>2, <2>3, MessageTypes
    <2> QED BY <2>2, <2>3, <2>4
  <1>2. NetNumbered /\ \A d \in End : sent'[d] \in Nat /\ sent[d] <= sent'[d]
    BY <1>t DEF IInv, StreamInv
  <1>3. net' = net \cup new /\ UNCHANGED sent
    OBVIOUS
  <1> HIDE DEF new
  <1>4. NetNumbered'
    BY <1>1, <1>2, <1>3, <1>t, NetKeeps
  <1> QED BY <1>1, <1>3, <1>4, <1>t

LEMMA RecvAckKeeps ==
  ASSUME IInv, NEW e \in End, NEW m \in net, RecvAck(e, m)
  PROVE  IInv'
  <1> DEFINE una     == Upto(snd_una[e], m.seq2)
             removed == RemovedByAck(sendq[e], m.seq1, una)
             first   == {p \in sendq[e] : ~p.xmit /\ InWindow(p.seq, una)}
             kept    == sendq[e] \ removed
             again   == {p \in kept : p.seq < m.seq1 /\ ~p.fast}
             out     == first \cup again
             marked  == {[p EXCEPT !.xmit = @ \/ p \in out,
                                   !.fast = @ \/ p \in again] : p \in kept}
  <1>t. SenderTypes /\ ReceiverTypes /\ ControlTypes /\ HistoryTypes
    BY DEF IInv, TypeOK
  <1>1. /\ snd_una' = [snd_una EXCEPT ![e] = una]
        /\ idle' = IF Restart(e, una) THEN [idle EXCEPT ![e] = 0] ELSE idle
        /\ sendq' = [sendq EXCEPT ![e] = marked]
        /\ net' = net \cup {Data(Peer(e), p, rcv_next[e]) : p \in out}
    BY DEF RecvAck
  <1>2. UNCHANGED <<cstate, snd_next, rcv_next, rcv_next_deliver, recvq, finseq,
                    sent, got, fins, closed, refusals>>
    BY DEF RecvAck, rcvVars, appVars
  <1>3. out \in SUBSET sendq[e] /\ kept \in SUBSET sendq[e]
    OBVIOUS
  <1>4. \A r \in marked :
          r \in SendPkt /\ \E p \in sendq[e] : r.seq = p.seq /\ r.msg = p.msg
    <2> SUFFICES ASSUME NEW r \in marked
                 PROVE  /\ r \in SendPkt
                        /\ \E p \in sendq[e] : r.seq = p.seq /\ r.msg = p.msg
      OBVIOUS
    <2>1. PICK p \in kept : r = [p EXCEPT !.xmit = @ \/ p \in out,
                                         !.fast = @ \/ p \in again]
      OBVIOUS
    <2>2. p \in sendq[e] /\ p \in SendPkt
      BY <1>t, <1>3 DEF SenderTypes
    <2> DEFINE x == p.xmit \/ p \in out
               f == p.fast \/ p \in again
    <2>3. x \in BOOLEAN /\ f \in BOOLEAN
      BY Zenon
    <2>4. r = [p EXCEPT !.xmit = x, !.fast = f]
      BY <2>1
    <2> HIDE DEF x, f
    <2>5. r \in SendPkt /\ r.seq = p.seq /\ r.msg = p.msg
      BY <2>2, <2>3, <2>4 DEF SendPkt
    <2> QED BY <2>2, <2>5
  <1>5. una \in Nat
    BY <1>t DEF SenderTypes, ControlTypes, Message, Upto
  <1> HIDE DEF una, removed, first, kept, again, out, marked
  <1>6. sendq' \in [End -> SUBSET SendPkt] /\ SendqNumbered'
    <2>1. sendq'[e] = marked /\ sendq' = [sendq EXCEPT ![e] = sendq'[e]]
      BY <1>t, <1>1 DEF SenderTypes
    <2>2. UNCHANGED sent
      BY <1>2
    <2> QED BY <1>4, <2>1, <2>2, SendqKeeps
  <1>7. net' \in SUBSET Message /\ NetNumbered'
    BY <1>1, <1>2, <1>3, DataKeeps
  <1>8. TypeOK'
    <2>1. snd_una' \in [End -> Nat]
      BY <1>t, <1>1, <1>5 DEF SenderTypes
    <2>2. SenderTypes'
      BY <1>t, <1>2, <1>6, <2>1 DEF SenderTypes
    <2>3. idle' \in [End -> 0 .. (ConnTimeout + 1)]
      BY <1>t, <1>1 DEF ControlTypes
    <2>4. ControlTypes'
      BY <1>t, <1>2, <1>7, <2>3 DEF ControlTypes
    <2>5. ReceiverTypes'
      BY <1>t, <1>2 DEF ReceiverTypes
    <2>6. HistoryTypes'
      BY <1>t, <1>2 DEF HistoryTypes
    <2> QED BY <2>2, <2>4, <2>5, <2>6 DEF TypeOK
  <1>9. QueueInv'
    BY <1>2 DEF IInv, QueueInv
  <1>10. StreamInv'
    <2>1. SeqIsCount' /\ RecvqNumbered' /\ GotUpTo'
      BY <1>2 DEF IInv, StreamInv, SeqIsCount, RecvqNumbered, GotUpTo
    <2> QED BY <1>6, <1>7, <2>1 DEF StreamInv
  <1>11. PrefixDelivered'
    BY <1>2 DEF IInv, PrefixDelivered, InOrder
  <1> QED BY <1>8, <1>9, <1>10, <1>11 DEF IInv

\* A message that end e sends while its channel is freed: a packet of its
\* stream, or a FIN.
Word(e, m) ==
  /\ m \in Message /\ m.to = Peer(e) /\ m.type \in {"DATA", "FIN"}
  /\ m.seq2 = rcv_next[e]
  /\ m.type = "DATA" => m.msg = m.seq1 + 1 /\ m.seq1 < sent'[e]

\* Packets of the send queue make such messages.
LEMMA DataWords ==
  ASSUME IInv, NEW e \in End, NEW due \in SUBSET sendq[e],
         sent'[e] \in Nat, sent[e] <= sent'[e],
         NEW m \in {Data(Peer(e), p, rcv_next[e]) : p \in due}
  PROVE  Word(e, m)
  <1>t. /\ sendq[e] \in SUBSET SendPkt /\ rcv_next[e] \in Nat
        /\ sent[e] \in Nat /\ Peer(e) \in End
    BY PeerOfPeer DEF IInv, TypeOK, SenderTypes, ReceiverTypes
  <1>1. PICK p \in due : m = Data(Peer(e), p, rcv_next[e])
    OBVIOUS
  <1>2. p \in SendPkt /\ p.msg = p.seq + 1 /\ p.seq < sent[e]
    BY <1>t, <1>1 DEF IInv, StreamInv, SendqNumbered
  <1>3. /\ m \in Message /\ m.type = "DATA" /\ m.to = Peer(e)
        /\ m.seq1 = p.seq /\ m.msg = p.msg
    BY <1>t, <1>1, <1>2, MessageTypes
  <1>4. m.seq2 = rcv_next[e]
    BY <1>1 DEF Data
  <1>5. p.seq \in Nat
    BY <1>2 DEF SendPkt
  <1> QED BY <1>t, <1>2, <1>3, <1>4, <1>5 DEF Word

\* What conn_free and the callback before it do to the counters and the
\* network, when the handler has sent `out'.
Departs(e, out) ==
  /\ cstate' = [cstate EXCEPT ![e] = "freed"]
  /\ sendq' = [sendq EXCEPT ![e] = {}]
  /\ recvq' = [recvq EXCEPT ![e] = {}]
  /\ fins' \in {fins, [fins EXCEPT ![e] = @ + 1]}
  /\ \E n \in Nat : /\ snd_next' = [snd_next EXCEPT ![e] = @ + n]
                    /\ sent' = [sent EXCEPT ![e] = @ + n]
  /\ \E more : /\ net' = net \cup out \cup more
               /\ \A m \in more : Word(e, m)

LEMMA LastWordsFacts ==
  ASSUME IInv, NEW e \in End, NEW out, LastWords(e, out)
  PROVE  /\ \E n \in Nat : /\ snd_next' = [snd_next EXCEPT ![e] = @ + n]
                           /\ sent' = [sent EXCEPT ![e] = @ + n]
         /\ \E more : /\ net' = net \cup out \cup more
                      /\ \A m \in more : Word(e, m)
  <1>t. /\ rcv_next[e] \in Nat /\ sent \in [End -> Nat]
        /\ snd_next[e] = sent[e] /\ sent[e] \in Nat /\ Peer(e) \in End
    BY PeerOfPeer DEF IInv, TypeOK, SenderTypes, ReceiverTypes, StreamInv,
       SeqIsCount
  <1> DEFINE Pkts(k, ls) ==
               {[seq |-> snd_next[e] + i - 1, msg |-> sent[e] + i,
                 len |-> ls[i], xmit |-> TRUE, fast |-> FALSE] : i \in 1 .. k}
             Now(k, ls) == {p \in Pkts(k, ls) : InWindow(p.seq, snd_una[e])}
             Steps(k, ls, f) ==
               /\ snd_next' = [snd_next EXCEPT ![e] = @ + k]
               /\ sent' = [sent EXCEPT ![e] = @ + k]
               /\ net' = net \cup out
                     \cup {Data(Peer(e), p, rcv_next[e]) : p \in Now(k, ls)} \cup f
  <1>0. \E k \in 0 .. (MaxMsgs[e] - sent[e]) : \E ls \in [1 .. k -> Lens] :
          \E f \in SUBSET {Fin(Peer(e), rcv_next[e])} : Steps(k, ls, f)
    BY DEF LastWords
  <1>n. PICK n \in 0 .. (MaxMsgs[e] - sent[e]) : \E ls \in [1 .. n -> Lens] :
          \E f \in SUBSET {Fin(Peer(e), rcv_next[e])} : Steps(n, ls, f)
    BY <1>0
  <1>1. PICK lens \in [1 .. n -> Lens], fin \in SUBSET {Fin(Peer(e), rcv_next[e])} :
          Steps(n, lens, fin)
    BY <1>n
  <1> DEFINE now == Now(n, lens)
             words == {Data(Peer(e), p, rcv_next[e]) : p \in now} \cup fin
  <1>2. n \in Nat
    BY BoundAssumption, <1>t
  <1>3. /\ snd_next' = [snd_next EXCEPT ![e] = @ + n]
        /\ sent' = [sent EXCEPT ![e] = @ + n]
        /\ net' = net \cup out \cup words
    BY <1>1
  <1>4. sent'[e] = sent[e] + n
    BY <1>t, <1>3
  <1>5. ASSUME NEW p \in now
        PROVE  p \in SendPkt /\ p.msg = p.seq + 1 /\ p.seq < sent'[e]
    <2>1. PICK i \in 1 .. n :
            p = [seq |-> snd_next[e] + i - 1, msg |-> sent[e] + i,
                 len |-> lens[i], xmit |-> TRUE, fast |-> FALSE]
      OBVIOUS
    <2>2. lens[i] \in Nat /\ i \in Nat /\ i >= 1 /\ i <= n
      <3>1. lens[i] \in Lens
        OBVIOUS
      <3>2. i \in Nat /\ i >= 1 /\ i <= n
        BY <1>2
      <3> HIDE DEF now, words
      <3>3. Lens \subseteq Nat
        BY BoundAssumption
      <3> QED BY <3>1, <3>2, <3>3
    <2>3. /\ p.seq = sent[e] + i - 1 /\ p.msg = sent[e] + i
          /\ p.seq \in Nat /\ p.msg \in Nat
      BY <1>t, <2>1, <2>2
    <2>4. p \in SendPkt
      BY <1>t, <2>1, <2>2, <2>3 DEF SendPkt
    <2> QED BY <1>t, <1>2, <1>4, <2>2, <2>3, <2>4
  <1>6. ASSUME NEW m \in words PROVE Word(e, m)
    <2>1. CASE m \in fin
      <3>1. m = Fin(Peer(e), rcv_next[e])
        BY <2>1
      <3>2. m \in Message /\ m.to = Peer(e) /\ m.type = "FIN"
        BY <1>t, <3>1, MessageTypes DEF Fin
      <3>3. m.seq2 = rcv_next[e]
        BY <3>1 DEF Fin
      <3> QED BY <3>2, <3>3 DEF Word
    <2>2. CASE m \notin fin
      <3>1. PICK p \in now : m = Data(Peer(e), p, rcv_next[e])
        BY <2>2
      <3>2. p \in SendPkt /\ p.msg = p.seq + 1 /\ p.seq < sent'[e]
        BY <1>5
      <3> HIDE DEF now
      <3>3. /\ m \in Message /\ m.type = "DATA" /\ m.to = Peer(e)
            /\ m.seq1 = p.seq /\ m.msg = p.msg
        BY <1>t, <3>1, <3>2, MessageTypes
      <3>4. m.seq2 = rcv_next[e]
        BY <3>1 DEF Data
      <3> QED BY <3>2, <3>3, <3>4 DEF Word
    <2> QED BY <2>1, <2>2
  <1> HIDE DEF words
  <1> QED BY <1>2, <1>3, <1>6

LEMMA FreeFacts ==
  ASSUME IInv, NEW e \in End, NEW out, Free(e, out)
  PROVE  Departs(e, out)
  <1>t. snd_next \in [End -> Nat] /\ sent \in [End -> Nat]
    BY DEF IInv, TypeOK, SenderTypes
  <1>1. /\ cstate' = [cstate EXCEPT ![e] = "freed"]
        /\ sendq' = [sendq EXCEPT ![e] = {}]
        /\ recvq' = [recvq EXCEPT ![e] = {}]
        /\ fins' \in {fins, [fins EXCEPT ![e] = @ + 1]}
    BY DEF Free
  <1>2. CASE LastWords(e, out)
    <2>1. /\ \E n \in Nat : /\ snd_next' = [snd_next EXCEPT ![e] = @ + n]
                            /\ sent' = [sent EXCEPT ![e] = @ + n]
          /\ \E more : /\ net' = net \cup out \cup more
                       /\ \A m \in more : Word(e, m)
      BY <1>2, LastWordsFacts
    <2> QED BY <1>1, <2>1 DEF Departs
  <1>3. CASE net' = net \cup out /\ UNCHANGED <<snd_next, sent>>
    <2>1. /\ snd_next' = [snd_next EXCEPT ![e] = @ + 0]
          /\ sent' = [sent EXCEPT ![e] = @ + 0]
      BY <1>t, <1>3
    <2> DEFINE none == {}
    <2>2. net' = net \cup out \cup none /\ \A m \in none : Word(e, m)
      BY <1>3
    <2> HIDE DEF none
    <2>3. \E n \in Nat : /\ snd_next' = [snd_next EXCEPT ![e] = @ + n]
                         /\ sent' = [sent EXCEPT ![e] = @ + n]
      BY <2>1
    <2>4. \E more : /\ net' = net \cup out \cup more
                   /\ \A m \in more : Word(e, m)
      BY <2>2
    <2> QED BY <1>1, <2>3, <2>4 DEF Departs
  <1> QED BY <1>2, <1>3 DEF Free

\* The network of a step that sends such messages.
LEMMA WordsKeep ==
  ASSUME IInv, NEW e \in End, NEW n \in Nat, NEW words,
         sent' = [sent EXCEPT ![e] = @ + n],
         net' = net \cup words, \A m \in words : Word(e, m)
  PROVE  net' \in SUBSET Message /\ NetNumbered'
  <1>t. sent \in [End -> Nat] /\ net \in SUBSET Message
    BY DEF IInv, TypeOK, SenderTypes, ControlTypes
  <1>1. \A d \in End : sent[d] \in Nat /\ sent'[d] \in Nat /\ sent[d] <= sent'[d]
    BY <1>t
  <1>2. ASSUME NEW m \in words
        PROVE  /\ m \in Message
               /\ m.type = "DATA" => m.msg = m.seq1 + 1 /\ m.seq1 < sent'[Peer(m.to)]
    <2>1. Word(e, m)
      OBVIOUS
    <2>2. Peer(m.to) = e
      BY <2>1, PeerOfPeer DEF Word
    <2> QED BY <2>1, <2>2 DEF Word
  <1>3. NetNumbered
    BY DEF IInv, StreamInv
  <1>4. NetNumbered'
    BY <1>t, <1>1, <1>2, <1>3, NetKeeps
  <1> QED BY <1>t, <1>2, <1>4

\* The channel is freed, or nothing but its clock changes.
LEMMA EndKeeps ==
  ASSUME IInv, NEW e \in End, NEW n \in Nat,
         \/ /\ cstate' = [cstate EXCEPT ![e] = "freed"]
            /\ sendq' = [sendq EXCEPT ![e] = {}]
            /\ recvq' = [recvq EXCEPT ![e] = {}]
         \/ UNCHANGED <<cstate, sendq, recvq>>,
         fins' \in {fins, [fins EXCEPT ![e] = @ + 1]},
         snd_next' = [snd_next EXCEPT ![e] = @ + n],
         sent' = [sent EXCEPT ![e] = @ + n],
         idle' \in [End -> 0 .. (ConnTimeout + 1)],
         net' \in SUBSET Message, NetNumbered',
         UNCHANGED <<snd_una, rcv_next, rcv_next_deliver, finseq, got, closed,
                     refusals>>
  PROVE  IInv'
  <1>t. SenderTypes /\ ReceiverTypes /\ ControlTypes /\ HistoryTypes
    BY DEF IInv, TypeOK
  <1>1. /\ cstate' \in {cstate, [cstate EXCEPT ![e] = "freed"]}
        /\ sendq' \in {sendq, [sendq EXCEPT ![e] = {}]}
        /\ recvq' = recvq \/ /\ recvq' = [recvq EXCEPT ![e] = {}]
                             /\ cstate' = [cstate EXCEPT ![e] = "freed"]
    OBVIOUS
  <1>s. \A d \in End : /\ sent[d] \in Nat /\ sent'[d] \in Nat
                       /\ sent[d] <= sent'[d]
                       /\ snd_next[d] = sent[d] => snd_next'[d] = sent'[d]
    BY <1>t DEF SenderTypes
  <1>2. SenderTypes'
    <2>1. snd_next' \in [End -> Nat] /\ sent' \in [End -> Nat]
      BY <1>t DEF SenderTypes
    <2>2. sendq' \in [End -> SUBSET SendPkt]
      BY <1>t, <1>1 DEF SenderTypes
    <2> QED BY <1>t, <2>1, <2>2 DEF SenderTypes
  <1>3. ReceiverTypes'
    BY <1>t, <1>1 DEF ReceiverTypes
  <1>4. ControlTypes'
    BY <1>t, <1>1 DEF ControlTypes
  <1>5. HistoryTypes'
    BY <1>t, <1>1 DEF HistoryTypes
  <1>6. QueueInv'
    <2> SUFFICES ASSUME NEW d \in End
                 PROVE  /\ Distinct(recvq'[d])
                        /\ cstate'[d] # "freed" =>
                             Contiguous(recvq'[d], rcv_next_deliver[d], rcv_next[d])
      BY DEF QueueInv
    <2>1. \/ recvq'[d] = recvq[d]
          \/ recvq'[d] = {} /\ cstate'[d] = "freed"
      BY <1>t, <1>1 DEF ReceiverTypes, ControlTypes
    <2>2. cstate'[d] # "freed" => cstate[d] # "freed"
      BY <1>t, <1>1 DEF ControlTypes
    <2>3. /\ Distinct(recvq[d])
          /\ cstate[d] # "freed" =>
               Contiguous(recvq[d], rcv_next_deliver[d], rcv_next[d])
      BY DEF IInv, QueueInv
    <2>4. Distinct({})
      BY DEF Distinct
    <2> QED BY <2>1, <2>2, <2>3, <2>4
  <1>7. SeqIsCount'
    BY <1>s DEF IInv, StreamInv, SeqIsCount
  <1>8. SendqNumbered'
    <2> SUFFICES ASSUME NEW d \in End, NEW p \in sendq'[d]
                 PROVE  p.msg = p.seq + 1 /\ p.seq < sent'[d]
      BY DEF SendqNumbered
    <2>1. p \in sendq[d] /\ p \in SendPkt
      BY <1>t, <1>1 DEF SenderTypes
    <2>2. p.msg = p.seq + 1 /\ p.seq < sent[d]
      BY <2>1 DEF IInv, StreamInv, SendqNumbered
    <2>3. p.seq \in Nat
      BY <2>1 DEF SendPkt
    <2> QED BY <1>s, <2>2, <2>3
  <1>9. RecvqNumbered'
    <2> SUFFICES ASSUME NEW d \in End, NEW p \in recvq'[d], p.len > 0
                 PROVE  p.msg = p.seq + 1 /\ p.seq < sent'[Peer(d)]
      BY DEF RecvqNumbered, Numbered
    <2>1. p \in recvq[d] /\ p \in RecvPkt
      BY <1>t, <1>1 DEF ReceiverTypes
    <2>2. p.msg = p.seq + 1 /\ p.seq < sent[Peer(d)]
      BY <2>1 DEF IInv, StreamInv, RecvqNumbered, Numbered
    <2>3. p.seq \in Nat /\ Peer(d) \in End
      BY <2>1, PeerOfPeer DEF RecvPkt
    <2> QED BY <1>s, <2>2, <2>3
  <1>10. GotUpTo'
    BY <1>t, <1>1 DEF IInv, StreamInv, GotUpTo, ControlTypes
  <1>11. PrefixDelivered'
    <2> SUFFICES ASSUME NEW d \in End PROVE InOrder(d)'
      BY DEF PrefixDelivered
    <2>1. InOrder(d) /\ Len(got[d]) \in Nat
      BY <1>t DEF IInv, PrefixDelivered, ReceiverTypes
    <2>2. Peer(d) \in End
      BY PeerOfPeer
    <2> QED BY <1>s, <2>1, <2>2 DEF InOrder
  <1> QED BY <1>2, <1>3, <1>4, <1>5, <1>6, <1>7, <1>8, <1>9, <1>10, <1>11
          DEF IInv, TypeOK, StreamInv

\* The channel is freed after packets of its send queue were sent again.
LEMMA FreeKeeps ==
  ASSUME IInv, NEW e \in End, NEW due \in SUBSET sendq[e],
         Free(e, {Data(Peer(e), p, rcv_next[e]) : p \in due}),
         idle' \in [End -> 0 .. (ConnTimeout + 1)],
         UNCHANGED <<snd_una, rcv_next, rcv_next_deliver, finseq, got, closed,
                     refusals>>
  PROVE  IInv'
  <1> DEFINE out == {Data(Peer(e), p, rcv_next[e]) : p \in due}
  <1>1. Departs(e, out)
    BY FreeFacts
  <1>2. PICK n \in Nat : /\ snd_next' = [snd_next EXCEPT ![e] = @ + n]
                         /\ sent' = [sent EXCEPT ![e] = @ + n]
    BY <1>1 DEF Departs
  <1>3. PICK more : net' = net \cup out \cup more /\ \A m \in more : Word(e, m)
    BY <1>1 DEF Departs
  <1>4. sent'[e] \in Nat /\ sent[e] <= sent'[e]
    BY <1>2 DEF IInv, TypeOK, SenderTypes
  <1>5. ASSUME NEW m \in out PROVE Word(e, m)
    BY <1>4, DataWords
  <1>u. UNCHANGED <<snd_una, rcv_next, rcv_next_deliver, finseq, got, closed,
                    refusals>>
    OBVIOUS
  <1> HIDE DEF out
  <1> DEFINE words == out \cup more
  <1>6. net' = net \cup words /\ \A m \in words : Word(e, m)
    BY <1>3, <1>5
  <1> HIDE DEF words
  <1>7. net' \in SUBSET Message /\ NetNumbered'
    BY <1>2, <1>6, WordsKeep
  <1>8. /\ cstate' = [cstate EXCEPT ![e] = "freed"]
        /\ sendq' = [sendq EXCEPT ![e] = {}]
        /\ recvq' = [recvq EXCEPT ![e] = {}]
        /\ fins' \in {fins, [fins EXCEPT ![e] = @ + 1]}
    BY <1>1 DEF Departs
  <1> QED BY <1>2, <1>7, <1>8, <1>u, EndKeeps

LEMMA CheckKeeps ==
  ASSUME IInv, NEW e \in End, Check(e)
  PROVE  IInv'
  <1>t. /\ idle \in [End -> 0 .. (ConnTimeout + 1)]
        /\ snd_next \in [End -> Nat] /\ sent \in [End -> Nat]
    BY DEF IInv, TypeOK, ControlTypes, SenderTypes
  <1>1. PICK due \in SUBSET Retransmittable(e) :
          \/ Free(e, {Data(Peer(e), p, rcv_next[e]) : p \in due})
          \/ /\ net' = net \cup {Data(Peer(e), p, rcv_next[e]) : p \in due}
             /\ UNCHANGED <<cstate, sendq, recvq, fins, snd_next, sent>>
    BY DEF Check
  <1>2. due \in SUBSET sendq[e]
    BY DEF Retransmittable
  <1>3. UNCHANGED <<snd_una, rcv_next, rcv_next_deliver, finseq, got, closed,
                    refusals>>
    BY DEF Check
  <1>5. idle' \in [End -> 0 .. (ConnTimeout + 1)]
    BY <1>t DEF Check
  <1>6. CASE Free(e, {Data(Peer(e), p, rcv_next[e]) : p \in due})
    BY <1>2, <1>3, <1>5, <1>6, FreeKeeps
  <1>7. CASE /\ net' = net \cup {Data(Peer(e), p, rcv_next[e]) : p \in due}
             /\ UNCHANGED <<cstate, sendq, recvq, fins, snd_next, sent>>
    <2>1. net' \in SUBSET Message /\ NetNumbered'
      BY <1>2, <1>7, DataKeeps
    <2>2. /\ snd_next' = [snd_next EXCEPT ![e] = @ + 0]
          /\ sent' = [sent EXCEPT ![e] = @ + 0]
      BY <1>t, <1>7
    <2>3. 0 \in Nat
      OBVIOUS
    <2>4. UNCHANGED <<cstate, sendq, recvq>> /\ fins' \in {fins, [fins EXCEPT ![e] = @ + 1]}
      BY <1>7
    <2> QED BY <1>3, <1>5, <2>1, <2>2, <2>3, <2>4, EndKeeps
  <1> QED BY <1>1, <1>6, <1>7

LEMMA LeaveRoomKeeps ==
  ASSUME IInv, NEW e \in End, LeaveRoom(e)
  PROVE  IInv'
  <1>1. /\ Free(e, {})
        /\ UNCHANGED <<snd_una, rcv_next, rcv_next_deliver, finseq, got, closed,
                       refusals>>
    BY DEF LeaveRoom
  <1>2. idle' \in [End -> 0 .. (ConnTimeout + 1)]
    BY DEF IInv, TypeOK, ControlTypes, LeaveRoom
  <1>3. {} \in SUBSET sendq[e] /\ {Data(Peer(e), p, rcv_next[e]) : p \in {}} = {}
    OBVIOUS
  <1> QED BY <1>1, <1>2, <1>3, FreeKeeps

-----------------------------------------------------------------------------
(* What the proofs of further properties start from *)

States == {"none", "ESTABLISHED", "CLOSING_IN", "CLOSING_OUT", "freed"}

LEMMA ControlFacts ==
  ASSUME IInv
  PROVE  /\ cstate \in [End -> States]
         /\ fins \in [End -> Nat] /\ closed \in [End -> BOOLEAN]
         /\ rcv_next \in [End -> Nat] /\ rcv_next_deliver \in [End -> Nat]
         /\ recvq \in [End -> SUBSET RecvPkt]
         /\ sendq \in [End -> SUBSET SendPkt]
         /\ snd_next \in [End -> Nat] /\ snd_una \in [End -> Nat]
         /\ sent \in [End -> Nat] /\ got \in [End -> Seq(Nat)]
         /\ net \in SUBSET Message
  BY DEF IInv, TypeOK, SenderTypes, ReceiverTypes, ControlTypes, HistoryTypes,
     States

\* Every action, the choice of the message received made visible.
LEMMA NextActions ==
  ASSUME Next
  PROVE  \/ Connect
         \/ \E e \in End :
              \/ \E len \in Lens : Send(e, len)
              \/ Close(e)
              \/ \E m \in net : \/ RecvInit(e, m) \/ RecvData(e, m)
                                \/ RecvAck(e, m) \/ RecvFin(e, m)
              \/ Check(e)
              \/ LeaveRoom(e)
  BY DEF Next, Receive

\* The two ways a message leaves the receive queue: handle_conn_data_msg
\* dropped it or queued it, and handle_conn_fin_msg queued its FIN.
DataArrives(e, m) ==
  \E n : Arrives(e, [seq |-> m.seq1, msg |-> m.msg, len |-> m.len], n,
                 cstate[e], {Ack(Peer(e), m.seq1, n)})

FinArrives(e) ==
  \E n : Arrives(e, [seq |-> rcv_next[e], msg |-> 0, len |-> 0], n,
                 "CLOSING_IN", {})

LEMMA RecvDataSplits ==
  ASSUME IInv, NEW e \in End, NEW m \in net, RecvData(e, m)
  PROVE  \/ /\ Acceptable(e, m.seq1)
            /\ DataArrives(e, m)
         \/ UNCHANGED <<cstate, rcv_next, rcv_next_deliver, recvq, net, got,
                        fins, closed, refusals>>
  <1> DEFINE p == [seq |-> m.seq1, msg |-> m.msg, len |-> m.len]
  <1>1. CASE Acceptable(e, m.seq1) /\ ~PastFin(e, m.seq1)
    <2>1. PICK n \in FirstMissing(Insert(recvq[e], p), rcv_next[e]) :
            /\ rcv_next' = [rcv_next EXCEPT ![e] = n]
            /\ TryDeliver(e, Insert(recvq[e], p), n, cstate[e],
                          {Ack(Peer(e), m.seq1, n)})
      BY <1>1 DEF RecvData
    <2>2. /\ p \in RecvPkt /\ p.seq = m.seq1 /\ p.msg = m.msg /\ p.len = m.len
      BY ControlFacts DEF RecvPkt, Message
    <2>3. m.seq1 >= rcv_next[e]
      BY <1>1 DEF Acceptable
    <2>4. m.msg = m.seq1 + 1 /\ m.seq1 < sent[Peer(e)]
      BY DEF RecvData, IInv, StreamInv, NetNumbered
    <2>5. cstate[e] \in {"ESTABLISHED", "CLOSING_IN"} /\ UNCHANGED sent
      BY DEF RecvData, IsOpen
    <2> HIDE DEF p
    <2>6. Arrives(e, p, n, cstate[e], {Ack(Peer(e), m.seq1, n)})
      BY <2>1, <2>2, <2>3, <2>4, <2>5 DEF Arrives, IsOpen
    <2> QED BY <1>1, <2>6 DEF DataArrives, p
  <1>2. CASE ~(Acceptable(e, m.seq1) /\ ~PastFin(e, m.seq1))
    BY <1>2 DEF RecvData
  <1> QED BY <1>1, <1>2

LEMMA RecvFinSplits ==
  ASSUME IInv, NEW e \in End, NEW m \in net, RecvFin(e, m)
  PROVE  FinArrives(e)
  <1> DEFINE p == [seq |-> rcv_next[e], msg |-> 0, len |-> 0]
  <1>1. PICK n \in FirstMissing(Insert(recvq[e], p), rcv_next[e]) :
          /\ rcv_next' = [rcv_next EXCEPT ![e] = n]
          /\ TryDeliver(e, Insert(recvq[e], p), n, "CLOSING_IN", {})
    BY DEF RecvFin
  <1>2. IsOpen(e) /\ UNCHANGED sent
    BY DEF RecvFin, IsOpen
  <1>3. p \in RecvPkt /\ p.seq = rcv_next[e] /\ p.len = 0 /\ p.seq \in Nat
    BY ControlFacts DEF RecvPkt
  <1> HIDE DEF p
  <1>4. Arrives(e, p, n, "CLOSING_IN", {})
    BY <1>1, <1>2, <1>3 DEF Arrives
  <1> QED BY <1>4 DEF FinArrives, p

-----------------------------------------------------------------------------
(* The theorems *)

LEMMA NextKeeps == IInv /\ [Next]_vars => IInv'
  <1> SUFFICES ASSUME IInv, [Next]_vars PROVE IInv'
    OBVIOUS
  <1>1. CASE Connect
    <2>1. {Init_(Acceptor)} \in SUBSET {Init_(Acceptor)} /\ Initiator \in End
      BY DEF End
    <2> DEFINE out == {Init_(Acceptor)}
    <2>2. net' = net \cup out
      BY <1>1 DEF Connect
    <2> HIDE DEF out
    <2> QED BY <1>1, <2>1, <2>2, OpenKeeps DEF Connect, out
  <1>2. ASSUME NEW e \in End, NEW len \in Lens, Send(e, len) PROVE IInv'
    BY <1>2, SendKeeps
  <1>3. ASSUME NEW e \in End, Close(e) PROVE IInv'
    BY <1>3, CloseKeeps
  <1>4. ASSUME NEW e \in End, Receive(e) PROVE IInv'
    <2>1. PICK m \in net : \/ RecvInit(e, m) \/ RecvData(e, m)
                           \/ RecvAck(e, m) \/ RecvFin(e, m)
      BY <1>4 DEF Receive
    <2>2. CASE RecvInit(e, m)
      <3>1. {} \in SUBSET {Init_(Acceptor)} /\ net' = net \cup {}
        BY <2>2 DEF RecvInit
      <3> QED BY <2>2, <3>1, OpenKeeps DEF RecvInit
    <2>3. CASE RecvData(e, m)
      BY <2>3, RecvDataKeeps
    <2>4. CASE RecvAck(e, m)
      BY <2>4, RecvAckKeeps
    <2>5. CASE RecvFin(e, m)
      BY <2>5, RecvFinKeeps
    <2> QED BY <2>1, <2>2, <2>3, <2>4, <2>5
  <1>5. ASSUME NEW e \in End, Check(e) PROVE IInv'
    BY <1>5, CheckKeeps
  <1>6. ASSUME NEW e \in End, LeaveRoom(e) PROVE IInv'
    BY <1>6, LeaveRoomKeeps
  <1>7. CASE UNCHANGED vars
    <2>1. UNCHANGED <<cstate, snd_una, snd_next, sendq, rcv_next,
                      rcv_next_deliver, recvq, finseq, idle, net, sent, got,
                      fins, closed, refusals>>
      BY <1>7 DEF vars, sndVars, rcvVars, appVars
    <2>2. TypeOK'
      BY <2>1 DEF IInv, TypeOK, SenderTypes, ReceiverTypes, ControlTypes,
         HistoryTypes
    <2>3. QueueInv' /\ PrefixDelivered'
      BY <2>1 DEF IInv, QueueInv, PrefixDelivered, InOrder
    <2>4. StreamInv'
      BY <2>1 DEF IInv, StreamInv, SeqIsCount, SendqNumbered, NetNumbered,
         RecvqNumbered, GotUpTo
    <2> QED BY <2>2, <2>3, <2>4 DEF IInv
  <1> QED BY <1>1, <1>2, <1>3, <1>4, <1>5, <1>6, <1>7 DEF Next

\* The invariant holds in every reachable state.
THEOREM Invariance == Spec => []IInv
  BY InitIInv, NextKeeps, PTL DEF Spec

\* Every variable of the two channels keeps its type: whatever arrives, no
\* sequence number of struct ghl_ch_s and none on the wire is ever negative.
THEOREM TypeCorrect == Spec => []TypeOK
  <1>1. IInv => TypeOK
    BY DEF IInv
  <1> QED BY Invariance, <1>1, PTL

\* try_deliver hands an application a prefix of what the peer's application
\* passed to ghl_conn_send, for every window size, message bound and timeout.
THEOREM DeliveredIsPrefix == Spec => []PrefixDelivered
  <1>1. IInv => PrefixDelivered
    BY DEF IInv
  <1> QED BY Invariance, <1>1, PTL
-----------------------------------------------------------------------------
(* Acknowledgements: an acknowledgement number is one the peer has reached,
   and a packet is off the send queue only when the peer has it. *)

\* End e has queued or handed on packet s, or a FIN in its place.
Known(e, s) == s < rcv_next_deliver[e] \/ s \in Seqs(recvq[e])

\* A message carries a rcv_next its sender has reached.
AckBound == \A m \in net : m.seq2 <= rcv_next[Peer(m.to)]

\* The packet an ACK answers has been received, for as long as there is a
\* channel at the end that sent the ACK.
AckHeld ==
  \A m \in net :
    m.type = "ACK" /\ cstate[Peer(m.to)] # "freed" => Known(Peer(m.to), m.seq1)

\* Packet s of end e is not, and never was, the one its peer expects next.
NeverNext(e, s) ==
  /\ s # snd_una[e]
  /\ s # rcv_next[Peer(e)]
  /\ \A x \in net : x.to = e /\ x.type # "INITCONN" => x.seq2 # s

\* An ACK that answers a packet past the gap (seq1 beyond seq2) answers one
\* the receiver's rcv_next steps over when the gap is filled.
AckSkips ==
  \A m \in net : m.type = "ACK" /\ m.seq2 <= m.seq1 => NeverNext(m.to, m.seq1)

\* Packet s of end e was acknowledged by the seq1 field of an ACK.
AckedAlone(e, s) ==
  \E m \in net :
    m.type = "ACK" /\ m.to = e /\ m.seq1 = s /\ m.seq2 <= snd_una[e]

\* A packet is queued, or before snd_una, or was acknowledged alone.
SendqComplete ==
  \A e \in End : cstate[e] # "freed" =>
    \A s \in 0 .. (snd_next[e] - 1) :
      s < snd_una[e] \/ s \in Seqs(sendq[e]) \/ AckedAlone(e, s)

AckInv == AckBound /\ AckNumberReached /\ AckHeld /\ AckSkips /\ SendqComplete

-----------------------------------------------------------------------------
(* What any step does to the acknowledgements *)

\* What a message sent in this step by end e says.
Tells(e, m) ==
  /\ m \in Message /\ m.to = Peer(e)
  /\ m.seq2 <= rcv_next'[e]
  /\ m.type # "INITCONN" => m.seq2 = rcv_next'[e]
  /\ m.type = "ACK" =>
       cstate'[e] # "freed" /\ m.seq1 >= rcv_next[e] /\ Known(e, m.seq1)'

\* Only end e moves, and it sends `out'.
Moves(e, out) ==
  /\ \A d \in End \ {e} :
       /\ rcv_next'[d] = rcv_next[d] /\ snd_una'[d] = snd_una[d]
       /\ snd_next'[d] = snd_next[d] /\ sendq'[d] = sendq[d]
       /\ rcv_next_deliver'[d] = rcv_next_deliver[d] /\ recvq'[d] = recvq[d]
       /\ cstate'[d] = cstate[d]
  /\ net' = net \cup out
  /\ \A m \in out : Tells(e, m)

\* The receiving side of e never forgets a packet it has.
Receives(e) ==
  /\ rcv_next[e] <= rcv_next'[e]
  /\ cstate'[e] = "freed" => rcv_next'[e] = rcv_next[e]
  /\ cstate'[e] # "freed" =>
       /\ cstate[e] # "freed"
       /\ \A s \in Nat : Known(e, s) => Known(e, s)'

\* The sending side of e lets a packet go only when it is acknowledged.
Releases(e) ==
  /\ snd_una[e] <= snd_una'[e]
  /\ \/ snd_una'[e] = snd_una[e]
     \/ \E m \in net :
          m.to = e /\ m.type # "INITCONN" /\ snd_una'[e] = m.seq2
  /\ cstate'[e] # "freed" =>
       \A s \in 0 .. (snd_next'[e] - 1) :
         \/ s \in Seqs(sendq'[e])
         \/ s < snd_una'[e]
         \/ s < snd_next[e] /\ s \notin Seqs(sendq[e])
         \/ \E m \in net :
              m.type = "ACK" /\ m.to = e /\ m.seq1 = s /\ m.seq2 <= snd_una'[e]

AckStep(e, out) == Moves(e, out) /\ Receives(e) /\ Releases(e)

\* The types the proofs below need.
LEMMA SeqTypes ==
  ASSUME IInv
  PROVE  /\ rcv_next \in [End -> Nat] /\ rcv_next_deliver \in [End -> Nat]
         /\ snd_una \in [End -> Nat] /\ snd_next \in [End -> Nat]
         /\ recvq \in [End -> SUBSET RecvPkt]
         /\ sendq \in [End -> SUBSET SendPkt]
         /\ \A m \in net : /\ m \in Message /\ m.to \in End /\ Peer(m.to) \in End
                           /\ m.seq1 \in Nat /\ m.seq2 \in Nat
         /\ \A e \in End : \A p \in recvq[e] : p.seq \in Nat
         /\ \A e \in End : \A p \in sendq[e] : p.seq \in Nat
  <1>t. SenderTypes /\ ReceiverTypes /\ net \in SUBSET Message
    BY DEF IInv, TypeOK, ControlTypes
  <1>1. ASSUME NEW m \in net
        PROVE  /\ m \in Message /\ m.to \in End /\ Peer(m.to) \in End
               /\ m.seq1 \in Nat /\ m.seq2 \in Nat
    BY <1>t, PeerOfPeer DEF Message
  <1>2. \A e \in End : \A p \in recvq[e] : p.seq \in Nat
    BY <1>t DEF ReceiverTypes, RecvPkt
  <1>3. \A e \in End : \A p \in sendq[e] : p.seq \in Nat
    BY <1>t DEF SenderTypes, SendPkt
  <1> QED BY <1>t, <1>1, <1>2, <1>3 DEF SenderTypes, ReceiverTypes

\* While there is a channel, rcv_next is a packet it does not hold, and it
\* holds every packet before.
LEMMA NextNotHeld ==
  ASSUME IInv, NEW e \in End, cstate[e] # "freed"
  PROVE  /\ ~Known(e, rcv_next[e])
         /\ \A s \in Nat : s < rcv_next[e] => Known(e, s)
  <1>1. Contiguous(recvq[e], rcv_next_deliver[e], rcv_next[e])
    BY DEF IInv, QueueInv
  <1>2. rcv_next[e] \in Nat /\ rcv_next_deliver[e] \in Nat
    BY SeqTypes
  <1> QED BY <1>1, <1>2 DEF Contiguous, Known

-----------------------------------------------------------------------------
(* The acknowledgement invariant survives any such step *)

LEMMA AckStepBounds ==
  ASSUME IInv, IInv', AckInv, NEW e \in End, NEW out, AckStep(e, out)
  PROVE  AckBound' /\ AckNumberReached'
  <1>t. /\ rcv_next \in [End -> Nat] /\ rcv_next' \in [End -> Nat]
        /\ snd_una \in [End -> Nat] /\ snd_una' \in [End -> Nat]
        /\ \A m \in net : m.to \in End /\ Peer(m.to) \in End /\ m.seq2 \in Nat
        /\ \A m \in net' : m.to \in End /\ Peer(m.to) \in End /\ m.seq2 \in Nat
    BY PeerOfPeer DEF IInv, TypeOK, SenderTypes, ReceiverTypes, ControlTypes, Message
  <1>1. \A d \in End : rcv_next[d] <= rcv_next'[d]
    BY <1>t DEF AckStep, Moves, Receives
  <1>2. AckBound'
    <2> SUFFICES ASSUME NEW m \in net' PROVE m.seq2 <= rcv_next'[Peer(m.to)]
      BY DEF AckBound
    <2>1. CASE m \in net
      BY <1>t, <1>1, <2>1 DEF AckInv, AckBound
    <2>2. CASE m \in out
      BY <2>2, PeerOfPeer DEF AckStep, Moves, Tells
    <2> QED BY <2>1, <2>2 DEF AckStep, Moves
  <1>3. AckNumberReached'
    <2> SUFFICES ASSUME NEW d \in End PROVE snd_una'[d] <= rcv_next'[Peer(d)]
      BY DEF AckNumberReached
    <2>1. /\ snd_una[d] <= rcv_next[Peer(d)] /\ Peer(d) \in End
          /\ rcv_next[Peer(d)] <= rcv_next'[Peer(d)]
      BY <1>1, PeerOfPeer DEF AckInv, AckNumberReached
    <2>2. CASE snd_una'[d] = snd_una[d]
      BY <1>t, <2>1, <2>2
    <2>3. CASE snd_una'[d] # snd_una[d]
      <3>1. PICK m \in net : m.to = d /\ snd_una'[d] = m.seq2
        BY <2>3 DEF AckStep, Moves, Releases
      <3>2. m.seq2 <= rcv_next[Peer(d)]
        BY <3>1 DEF AckInv, AckBound
      <3> QED BY <1>t, <2>1, <3>1, <3>2
    <2> QED BY <2>2, <2>3
  <1> QED BY <1>2, <1>3

LEMMA AckStepHeld ==
  ASSUME IInv, IInv', AckInv, NEW e \in End, NEW out, AckStep(e, out)
  PROVE  AckHeld'
  <1> SUFFICES ASSUME NEW m \in net', m.type = "ACK",
                      cstate'[Peer(m.to)] # "freed"
               PROVE  Known(Peer(m.to), m.seq1)'
    BY DEF AckHeld
  <1>1. CASE m \in out
    BY <1>1, PeerOfPeer DEF AckStep, Moves, Tells
  <1>2. CASE m \in net
    <2>1. Peer(m.to) \in End /\ m.seq1 \in Nat
      BY <1>2, SeqTypes
    <2>2. CASE Peer(m.to) = e
      <3>1. cstate[e] # "freed"
        BY <2>2 DEF AckStep, Receives
      <3>2. Known(e, m.seq1)
        BY <1>2, <2>2, <3>1 DEF AckInv, AckHeld
      <3> QED BY <2>1, <2>2, <3>2 DEF AckStep, Receives
    <2>3. CASE Peer(m.to) # e
      <3>1. /\ cstate'[Peer(m.to)] = cstate[Peer(m.to)]
            /\ recvq'[Peer(m.to)] = recvq[Peer(m.to)]
            /\ rcv_next_deliver'[Peer(m.to)] = rcv_next_deliver[Peer(m.to)]
        BY <2>1, <2>3 DEF AckStep, Moves
      <3> QED BY <1>2, <3>1 DEF AckInv, AckHeld, Known
    <2> QED BY <2>2, <2>3
  <1> QED BY <1>1, <1>2 DEF AckStep, Moves

LEMMA AckStepSkips ==
  ASSUME IInv, IInv', AckInv, NEW e \in End, NEW out, AckStep(e, out)
  PROVE  AckSkips'
  <1> SUFFICES ASSUME NEW m \in net', m.type = "ACK", m.seq2 <= m.seq1
               PROVE  NeverNext(m.to, m.seq1)'
    BY DEF AckSkips
  <1> DEFINE d == m.to
             r == Peer(m.to)
             s == m.seq1
  <1>t. /\ rcv_next[r] \in Nat /\ rcv_next'[r] \in Nat
        /\ snd_una[d] \in Nat /\ snd_una'[d] \in Nat
        /\ s \in Nat /\ m.seq2 \in Nat
        /\ d \in End /\ r \in End /\ Peer(d) = r /\ Peer(r) = d /\ d # r
        /\ \A x \in net : x.seq2 \in Nat
    <2>1. m \in Message /\ net \in SUBSET Message
      BY DEF IInv, TypeOK, ControlTypes
    <2>2. d \in End /\ r \in End /\ Peer(r) = d /\ d # r
      BY <2>1, PeerOfPeer DEF Message, Peer, End
    <2> QED BY <2>1, <2>2 DEF Message, IInv, TypeOK, SenderTypes, ReceiverTypes
  <1>o. /\ net' = net \cup out
        /\ \A x \in out : x.to = d /\ x.type # "INITCONN" => x.seq2 = rcv_next'[r]
        /\ snd_una'[d] = snd_una[d] \/ \E x \in net :
             x.to = d /\ x.type # "INITCONN" /\ snd_una'[d] = x.seq2
    <2>1. ASSUME NEW x \in out, x.to = d, x.type # "INITCONN"
          PROVE  x.seq2 = rcv_next'[r]
      BY <1>t, <2>1, PeerOfPeer DEF AckStep, Moves, Tells
    <2> QED BY <1>t, <2>1 DEF AckStep, Moves, Releases
  \* It is enough that packet s was not expected before and is not now.
  <1>1. ASSUME s # snd_una[d], s # rcv_next'[r],
               \A x \in net : x.to = d /\ x.type # "INITCONN" => x.seq2 # s
        PROVE  NeverNext(m.to, m.seq1)'
    <2>1. snd_una'[d] # s
      BY <1>o, <1>1
    <2>2. \A x \in net' : x.to = d /\ x.type # "INITCONN" => x.seq2 # s
      BY <1>o, <1>1
    <2> QED BY <1>1, <2>1, <2>2 DEF NeverNext
  <1>2. CASE m \in net
    <2>1. NeverNext(d, s)
      BY <1>2 DEF AckInv, AckSkips
    <2>2. s # rcv_next'[r]
      <3>1. CASE rcv_next'[r] = rcv_next[r]
        BY <2>1, <3>1 DEF NeverNext
      <3>2. CASE rcv_next'[r] # rcv_next[r]
        <4>1. r = e /\ cstate'[r] # "freed" /\ cstate[r] # "freed"
          BY <1>t, <3>2 DEF AckStep, Moves, Receives
        <4>2. Known(r, s)
          BY <1>2, <4>1 DEF AckInv, AckHeld
        <4>3. Known(r, s)'
          BY <1>t, <4>1, <4>2 DEF AckStep, Receives
        <4>4. ~Known(r, rcv_next[r])'
          <5>1. Contiguous(recvq'[r], rcv_next_deliver'[r], rcv_next'[r])
            BY <1>t, <4>1 DEF IInv, QueueInv
          <5>2. rcv_next_deliver'[r] \in Nat
            BY <1>t DEF IInv, TypeOK, ReceiverTypes
          <5> QED BY <1>t, <5>1, <5>2 DEF Contiguous, Known
        <4> QED BY <4>3, <4>4
      <3> QED BY <3>1, <3>2
    <2> QED BY <1>1, <2>1, <2>2 DEF NeverNext
  <1>3. CASE m \in out
    <2>1. /\ r = e /\ m.seq2 = rcv_next'[r] /\ cstate'[r] # "freed"
          /\ s >= rcv_next[r] /\ Known(r, s)'
      BY <1>3, <1>t, PeerOfPeer DEF AckStep, Moves, Tells
    \* The packet is past the gap, so beyond everything acknowledged so far.
    <2>2. s > rcv_next[r] /\ s # rcv_next'[r]
      <3>1. Contiguous(recvq'[r], rcv_next_deliver'[r], rcv_next'[r])
        BY <1>t, <2>1 DEF IInv, QueueInv
      <3>2. rcv_next_deliver'[r] \in Nat /\ rcv_next[r] <= rcv_next'[r]
        BY <1>t, <2>1 DEF IInv, TypeOK, ReceiverTypes, AckStep, Receives
      <3> QED BY <1>t, <2>1, <3>1, <3>2 DEF Contiguous, Known
    <2>3. snd_una[d] <= rcv_next[r]
      BY <1>t DEF AckInv, AckNumberReached
    <2>4. \A x \in net : x.to = d => x.seq2 <= rcv_next[r]
      BY <1>t DEF AckInv, AckBound
    <2> QED BY <1>1, <1>t, <2>2, <2>3, <2>4
  <1> QED BY <1>2, <1>3, <1>o

LEMMA AckStepComplete ==
  ASSUME IInv, IInv', AckInv, NEW e \in End, NEW out, AckStep(e, out)
  PROVE  SendqComplete'
  <1> SUFFICES ASSUME NEW d \in End, cstate'[d] # "freed",
                      NEW s \in 0 .. (snd_next'[d] - 1)
               PROVE  \/ s < snd_una'[d] \/ s \in Seqs(sendq'[d])
                      \/ AckedAlone(d, s)'
    BY DEF SendqComplete, Seqs
  <1>t. /\ snd_una[d] \in Nat /\ snd_una'[d] \in Nat
        /\ snd_next[d] \in Nat /\ snd_next'[d] \in Nat
        /\ \A m \in net : m.seq2 \in Nat
    <2>1. net \in SUBSET Message
      BY DEF IInv, TypeOK, ControlTypes
    <2> QED BY <2>1 DEF Message, IInv, TypeOK, SenderTypes
  <1>n. net \subseteq net' /\ snd_una[d] <= snd_una'[d] /\ cstate[d] # "freed"
    BY <1>t DEF AckStep, Moves, Receives, Releases
  <1>1. ASSUME s < snd_next[d], s \notin Seqs(sendq[d])
        PROVE  s < snd_una'[d] \/ AckedAlone(d, s)'
    <2>1. s < snd_una[d] \/ AckedAlone(d, s)
      BY <1>1, <1>t, <1>n DEF AckInv, SendqComplete
    <2>2. CASE s < snd_una[d]
      BY <2>2, <1>t, <1>n
    <2>3. CASE AckedAlone(d, s)
      BY <2>3, <1>t, <1>n DEF AckedAlone
    <2> QED BY <2>1, <2>2, <2>3
  <1>2. CASE d = e
    <2>1. \/ s \in Seqs(sendq'[d])
          \/ s < snd_una'[d]
          \/ s < snd_next[d] /\ s \notin Seqs(sendq[d])
          \/ \E m \in net :
               m.type = "ACK" /\ m.to = d /\ m.seq1 = s /\ m.seq2 <= snd_una'[d]
      BY <1>2 DEF AckStep, Releases
    <2> QED BY <1>1, <1>n, <2>1 DEF AckedAlone
  <1>3. CASE d # e
    <2>1. snd_next'[d] = snd_next[d] /\ sendq'[d] = sendq[d]
      BY <1>3 DEF AckStep, Moves
    <2> QED BY <1>1, <1>t, <2>1
  <1> QED BY <1>2, <1>3

LEMMA AckStepKeeps ==
  ASSUME IInv, IInv', AckInv, NEW e \in End, NEW out, AckStep(e, out)
  PROVE  AckInv'
  BY AckStepBounds, AckStepHeld, AckStepSkips, AckStepComplete DEF AckInv

-----------------------------------------------------------------------------
(* Every action is such a step *)

LEMMA MessageFields ==
  /\ Init_(Acceptor) \in Message /\ Init_(Acceptor).to = Acceptor
  /\ Init_(Acceptor).type = "INITCONN" /\ Init_(Acceptor).seq2 = 0
  /\ \A e \in End, s, n \in Nat :
       /\ Ack(e, s, n) \in Message /\ Ack(e, s, n).to = e
       /\ Ack(e, s, n).type = "ACK"
       /\ Ack(e, s, n).seq1 = s /\ Ack(e, s, n).seq2 = n
  /\ \A e \in End, n \in Nat :
       /\ Fin(e, n) \in Message /\ Fin(e, n).to = e
       /\ Fin(e, n).type = "FIN" /\ Fin(e, n).seq2 = n
  /\ \A e \in End, p \in SendPkt, n \in Nat :
       /\ Data(e, p, n) \in Message /\ Data(e, p, n).to = e
       /\ Data(e, p, n).type = "DATA"
       /\ Data(e, p, n).seq1 = p.seq /\ Data(e, p, n).seq2 = n
  BY DEF Init_, Ack, Fin, Data, Message, SendPkt, End

\* The counters stand still and the queues too, unless the channel is freed.
LEMMA QuietStep ==
  ASSUME IInv, NEW e \in End, NEW out,
         UNCHANGED <<snd_una, rcv_next, rcv_next_deliver>>,
         \A d \in End \ {e} : /\ cstate'[d] = cstate[d]
                              /\ snd_next'[d] = snd_next[d]
                              /\ recvq'[d] = recvq[d] /\ sendq'[d] = sendq[d],
         cstate'[e] # "freed" =>
           /\ cstate[e] # "freed"
           /\ snd_next'[e] = snd_next[e]
           /\ recvq'[e] = recvq[e] /\ sendq'[e] = sendq[e],
         net' = net \cup out,
         \A m \in out : /\ m \in Message /\ m.to = Peer(e) /\ m.type # "ACK"
                        /\ m.seq2 <= rcv_next[e]
                        /\ m.type # "INITCONN" => m.seq2 = rcv_next[e]
  PROVE  AckStep(e, out)
  <1>t. /\ rcv_next[e] \in Nat /\ snd_una[e] \in Nat /\ snd_next[e] \in Nat
    BY SeqTypes
  <1>u. /\ snd_una' = snd_una /\ rcv_next' = rcv_next
        /\ rcv_next_deliver' = rcv_next_deliver
    OBVIOUS
  <1>1. Moves(e, out)
    <2>1. \A m \in out : Tells(e, m)
      BY <1>u DEF Tells
    <2> QED BY <1>u, <2>1 DEF Moves
  <1>2. Receives(e)
    BY <1>t DEF Receives, Known
  <1>3. Releases(e)
    BY <1>t DEF Releases, Seqs
  <1> QED BY <1>1, <1>2, <1>3 DEF AckStep

LEMMA ConnectMoves ==
  ASSUME IInv, Connect
  PROVE  AckStep(Initiator, {Init_(Acceptor)})
  <1> DEFINE out == {Init_(Acceptor)}
  <1>1. Initiator \in End /\ Peer(Initiator) = Acceptor
    BY DEF End, Peer
  <1>2. /\ UNCHANGED <<snd_una, snd_next, rcv_next, rcv_next_deliver>>
        /\ UNCHANGED <<recvq, sendq>>
        /\ cstate' = [cstate EXCEPT ![Initiator] = "ESTABLISHED"]
        /\ cstate[Initiator] # "freed"
        /\ net' = net \cup out
    BY DEF Connect, sndVars, rcvVars
  <1>3. \A d \in End \ {Initiator} : cstate'[d] = cstate[d]
    BY <1>2 DEF IInv, TypeOK, ControlTypes
  <1>4. rcv_next[Initiator] \in Nat
    BY <1>1, SeqTypes
  <1>5. \A m \in out :
          /\ m \in Message /\ m.to = Peer(Initiator) /\ m.type # "ACK"
          /\ m.seq2 <= rcv_next[Initiator]
          /\ m.type # "INITCONN" => m.seq2 = rcv_next[Initiator]
    BY <1>1, <1>4, MessageFields
  <1> HIDE DEF out
  <1>6. AckStep(Initiator, out)
    BY <1>1, <1>2, <1>3, <1>5, QuietStep
  <1> QED BY <1>6 DEF out

LEMMA RecvInitMoves ==
  ASSUME IInv, NEW e \in End, NEW m \in net, RecvInit(e, m)
  PROVE  AckStep(e, {})
  <1>1. /\ UNCHANGED <<snd_una, snd_next, rcv_next, rcv_next_deliver>>
        /\ UNCHANGED <<recvq, sendq>>
        /\ cstate' = [cstate EXCEPT ![e] = "ESTABLISHED"]
        /\ cstate[e] # "freed"
        /\ net' = net \cup {}
    BY DEF RecvInit, sndVars, rcvVars
  <1>2. \A d \in End \ {e} : cstate'[d] = cstate[d]
    BY <1>1 DEF IInv, TypeOK, ControlTypes
  <1> QED BY <1>1, <1>2, QuietStep

LEMMA CloseMoves ==
  ASSUME IInv, NEW e \in End, Close(e)
  PROVE  AckStep(e, {Fin(Peer(e), rcv_next[e])})
  <1> DEFINE out == {Fin(Peer(e), rcv_next[e])}
  <1>1. /\ UNCHANGED <<snd_una, snd_next, rcv_next, rcv_next_deliver>>
        /\ UNCHANGED <<recvq, sendq>>
        /\ cstate' = [cstate EXCEPT ![e] = "CLOSING_OUT"]
        /\ cstate[e] # "freed"
        /\ net' = net \cup out
    BY DEF Close, IsOpen, sndVars, rcvVars
  <1>2. \A d \in End \ {e} : cstate'[d] = cstate[d]
    BY <1>1 DEF IInv, TypeOK, ControlTypes
  <1>3. rcv_next[e] \in Nat
    BY SeqTypes
  <1>4. \A m \in out : /\ m \in Message /\ m.to = Peer(e) /\ m.type # "ACK"
                       /\ m.seq2 <= rcv_next[e]
                       /\ m.type # "INITCONN" => m.seq2 = rcv_next[e]
    BY <1>3, MessageFields, PeerOfPeer
  <1> HIDE DEF out
  <1>5. AckStep(e, out)
    BY <1>1, <1>2, <1>4, QuietStep
  <1> QED BY <1>5 DEF out

\* Packets sent again carry the current rcv_next.
LEMMA DataTells ==
  ASSUME IInv, NEW e \in End, NEW due \in SUBSET sendq[e],
         NEW m \in {Data(Peer(e), p, rcv_next[e]) : p \in due}
  PROVE  /\ m \in Message /\ m.to = Peer(e) /\ m.type = "DATA"
         /\ m.seq2 = rcv_next[e] /\ m.seq2 \in Nat
  <1>1. PICK p \in due : m = Data(Peer(e), p, rcv_next[e])
    OBVIOUS
  <1>2. p \in SendPkt /\ rcv_next[e] \in Nat /\ Peer(e) \in End
    BY <1>1, SeqTypes, PeerOfPeer
  <1> QED BY <1>1, <1>2, MessageFields

\* The channel of e is freed.
LEMMA FreeMoves ==
  ASSUME IInv, NEW e \in End, NEW due \in SUBSET sendq[e],
         Free(e, {Data(Peer(e), p, rcv_next[e]) : p \in due}),
         UNCHANGED <<snd_una, rcv_next, rcv_next_deliver>>
  PROVE  \E out : AckStep(e, out)
  <1> DEFINE out == {Data(Peer(e), p, rcv_next[e]) : p \in due}
  <1>t. /\ cstate \in [End -> States] /\ rcv_next[e] \in Nat
        /\ recvq \in [End -> SUBSET RecvPkt] /\ sendq \in [End -> SUBSET SendPkt]
        /\ snd_next \in [End -> Nat]
    BY ControlFacts
  <1>1. Departs(e, out)
    BY FreeFacts
  <1>2. ASSUME NEW m \in out
        PROVE  m \in Message /\ m.to = Peer(e) /\ m.type = "DATA" /\ m.seq2 = rcv_next[e]
    BY DataTells
  <1> HIDE DEF out
  <1>3. PICK more : net' = net \cup out \cup more /\ \A m \in more : Word(e, m)
    BY <1>1 DEF Departs
  <1> DEFINE words == out \cup more
  <1>4. net' = net \cup words
    BY <1>3
  <1>5. ASSUME NEW m \in words
        PROVE  /\ m \in Message /\ m.to = Peer(e) /\ m.type # "ACK"
               /\ m.seq2 <= rcv_next[e] /\ m.seq2 = rcv_next[e]
    <2>1. m \in Message /\ m.to = Peer(e) /\ m.type # "ACK" /\ m.seq2 = rcv_next[e]
      BY <1>2, <1>3 DEF Word
    <2> QED BY <1>t, <2>1
  <1> HIDE DEF words
  <1>6. \A d \in End \ {e} : /\ cstate'[d] = cstate[d]
                             /\ snd_next'[d] = snd_next[d]
                             /\ recvq'[d] = recvq[d] /\ sendq'[d] = sendq[d]
    BY <1>t, <1>1 DEF Departs
  <1>7. cstate'[e] = "freed"
    BY <1>t, <1>1 DEF Departs
  <1> QED BY <1>4, <1>5, <1>6, <1>7, QuietStep

LEMMA CheckMoves ==
  ASSUME IInv, NEW e \in End, Check(e)
  PROVE  \E out : AckStep(e, out)
  <1>1. PICK due \in SUBSET Retransmittable(e) :
          \/ Free(e, {Data(Peer(e), p, rcv_next[e]) : p \in due})
          \/ /\ net' = net \cup {Data(Peer(e), p, rcv_next[e]) : p \in due}
             /\ UNCHANGED <<cstate, sendq, recvq, snd_next>>
    BY DEF Check
  <1>2. due \in SUBSET sendq[e]
    BY DEF Retransmittable
  <1>3. /\ cstate[e] # "freed"
        /\ UNCHANGED <<snd_una, rcv_next, rcv_next_deliver>>
    BY DEF Check, InTable
  <1>4. CASE Free(e, {Data(Peer(e), p, rcv_next[e]) : p \in due})
    BY <1>2, <1>3, <1>4, FreeMoves
  <1>5. CASE /\ net' = net \cup {Data(Peer(e), p, rcv_next[e]) : p \in due}
             /\ UNCHANGED <<cstate, sendq, recvq, snd_next>>
    <2> DEFINE out == {Data(Peer(e), p, rcv_next[e]) : p \in due}
    <2>1. ASSUME NEW m \in out
          PROVE  /\ m \in Message /\ m.to = Peer(e) /\ m.type # "ACK"
                 /\ m.seq2 <= rcv_next[e] /\ m.seq2 = rcv_next[e]
      BY <1>2, DataTells
    <2>2. net' = net \cup out
      BY <1>5
    <2> HIDE DEF out
    <2> QED BY <1>3, <1>5, <2>1, <2>2, QuietStep
  <1> QED BY <1>1, <1>4, <1>5

LEMMA LeaveRoomMoves ==
  ASSUME IInv, NEW e \in End, LeaveRoom(e)
  PROVE  \E out : AckStep(e, out)
  <1>1. Free(e, {}) /\ UNCHANGED <<snd_una, rcv_next, rcv_next_deliver>>
    BY DEF LeaveRoom
  <1>2. {} \in SUBSET sendq[e] /\ {Data(Peer(e), p, rcv_next[e]) : p \in {}} = {}
    OBVIOUS
  <1> QED BY <1>1, <1>2, FreeMoves

LEMMA SendMoves ==
  ASSUME IInv, NEW e \in End, NEW len \in Lens, Send(e, len)
  PROVE  \E out : AckStep(e, out)
  <1> DEFINE p == [seq |-> snd_next[e], msg |-> sent[e] + 1, len |-> len,
                   xmit |-> InWindow(snd_next[e], snd_una[e]), fast |-> FALSE]
             out == IF p.xmit THEN {Data(Peer(e), p, rcv_next[e])} ELSE {}
  <1>t. /\ snd_next \in [End -> Nat] /\ snd_una[e] \in Nat /\ rcv_next[e] \in Nat
        /\ sendq \in [End -> SUBSET SendPkt] /\ sent[e] \in Nat
        /\ cstate[e] # "freed"
    BY DEF IInv, TypeOK, SenderTypes, ReceiverTypes, Send, MaySend, IsOpen
  <1>1. p \in SendPkt /\ p.seq = snd_next[e]
    BY <1>t, BoundAssumption DEF SendPkt, InWindow
  <1>2. /\ snd_next' = [snd_next EXCEPT ![e] = @ + 1]
        /\ sendq' = [sendq EXCEPT ![e] = Insert(@, p)]
        /\ net' = net \cup out
        /\ UNCHANGED <<cstate, snd_una, rcv_next, rcv_next_deliver, recvq>>
    BY DEF Send, rcvVars
  <1>3. \A m \in out : Tells(e, m)
    <2>1. \A m \in out : m = Data(Peer(e), p, rcv_next[e])
      OBVIOUS
    <2> HIDE DEF p, out
    <2> QED BY <1>t, <1>1, <1>2, <2>1, MessageFields, PeerOfPeer DEF Tells
  <1> HIDE DEF p, out
  <1>4. Moves(e, out)
    BY <1>t, <1>2, <1>3 DEF Moves
  <1>5. Receives(e)
    BY <1>t, <1>2 DEF Receives, Known
  <1>6. Releases(e)
    <2>1. snd_next'[e] = snd_next[e] + 1 /\ sendq'[e] = Insert(sendq[e], p)
      BY <1>t, <1>2
    <2>2. Seqs(sendq[e]) \cup {snd_next[e]} \subseteq Seqs(sendq'[e])
      BY <1>1, <2>1 DEF Insert, Seqs
    <2>3. \A s \in 0 .. (snd_next'[e] - 1) :
            s = snd_next[e] \/ s \in Seqs(sendq[e])
              \/ (s < snd_next[e] /\ s \notin Seqs(sendq[e]))
      BY <1>t, <2>1
    <2> QED BY <1>t, <1>2, <2>2, <2>3 DEF Releases
  <1> QED BY <1>4, <1>5, <1>6 DEF AckStep

-----------------------------------------------------------------------------
(* A packet arrives *)

\* try_deliver hands over what it takes from the queue, and keeps the rest.
LEMMA DeliverHolds ==
  ASSUME TypeOK, NEW e \in End, NEW q \in SUBSET RecvPkt, NEW n \in Nat,
         NEW st, NEW out, Contiguous(q, rcv_next_deliver[e], n),
         TryDeliver(e, q, n, st, out)
  PROVE  \A s \in Nat :
           s < rcv_next_deliver[e] \/ s \in Seqs(q) => Known(e, s)'
  <1> DEFINE lo == rcv_next_deliver[e]
  <1>t. /\ lo \in Nat /\ rcv_next_deliver \in [End -> Nat]
        /\ recvq \in [End -> SUBSET RecvPkt] /\ lo <= n
        /\ \A p \in q : p \in RecvPkt /\ p.seq \in Nat
    BY DEF TypeOK, ReceiverTypes, RecvPkt, Contiguous
  <1>1. PICK stop \in lo .. n :
          \/ Consumed(e, q, n)
          \/ LeavesRest(e, q, stop, st, out)
    BY DEF TryDeliver, TakesAll, MeetsFin, ClosesInCallback
  <1>2. CASE Consumed(e, q, n)
    <2>1. rcv_next_deliver'[e] = n /\ recvq'[e] = {p \in q : p.seq >= n}
      BY <1>2, <1>t DEF Consumed
    <2> QED BY <2>1, <1>t DEF Known, Seqs
  <1>3. CASE LeavesRest(e, q, stop, st, out)
    <2>1. PICK p \in q : \E left \in 1 .. p.len :
            /\ p.seq = stop
            /\ recvq' = [recvq EXCEPT ![e] =
                 {r \in q : r.seq > stop} \cup {[p EXCEPT !.len = left]}]
      BY <1>3 DEF LeavesRest
    <2>2. PICK left \in 1 .. p.len :
            /\ p.seq = stop
            /\ recvq' = [recvq EXCEPT ![e] =
                 {r \in q : r.seq > stop} \cup {[p EXCEPT !.len = left]}]
      BY <2>1
    <2> DEFINE h == [p EXCEPT !.len = left]
    <2>3. h.seq = stop
      BY <2>2, <1>t DEF RecvPkt
    <2>4. /\ recvq'[e] = {r \in q : r.seq > stop} \cup {h}
          /\ rcv_next_deliver'[e] = stop
      BY <1>3, <2>2, <1>t DEF LeavesRest
    <2> HIDE DEF h
    <2> QED BY <2>3, <2>4, <1>t DEF Known, Seqs
  <1> QED BY <1>1, <1>2, <1>3

\* The receiving side when a packet arrives and is, perhaps, acknowledged.
LEMMA ArrivalMoves ==
  ASSUME IInv, NEW e \in End, NEW p, NEW n, NEW st, NEW out,
         Arrives(e, p, n, st, out),
         out \in {{}, {Ack(Peer(e), p.seq, n)}}
  PROVE  /\ Receives(e)
         /\ \E all : /\ net' = net \cup all
                     /\ \A m \in all : Tells(e, m)
         /\ \A d \in End \ {e} :
              /\ rcv_next'[d] = rcv_next[d]
              /\ rcv_next_deliver'[d] = rcv_next_deliver[d]
              /\ recvq'[d] = recvq[d] /\ cstate'[d] = cstate[d]
         /\ cstate'[e] # "freed"
  <1> DEFINE q == Insert(recvq[e], p)
  <1>t. /\ rcv_next \in [End -> Nat] /\ rcv_next_deliver \in [End -> Nat]
        /\ recvq \in [End -> SUBSET RecvPkt] /\ TypeOK
        /\ cstate \in [End -> {"none", "ESTABLISHED", "CLOSING_IN",
                              "CLOSING_OUT", "freed"}]
    BY DEF IInv, TypeOK, ReceiverTypes, ControlTypes
  <1>1. /\ n \in Nat /\ DeliverPost(e, q, n, st, out) /\ q \in SUBSET RecvPkt
        /\ Contiguous(q, rcv_next_deliver[e], n)
    BY ArrivalFacts
  <1>2. /\ rcv_next' = [rcv_next EXCEPT ![e] = n] /\ cstate[e] # "freed"
        /\ st \in {"ESTABLISHED", "CLOSING_IN"}
        /\ TryDeliver(e, q, n, st, out)
        /\ p \in RecvPkt /\ p.seq \in Nat /\ p.seq >= rcv_next[e]
        /\ n \in FirstMissing(q, rcv_next[e])
    BY DEF Arrives, IsOpen, RecvPkt
  <1>3. Seqs(recvq[e]) \cup {p.seq} = Seqs(q)
    BY DEF Insert, Seqs
  <1>4. rcv_next[e] <= n
    BY <1>1, <1>2, <1>t, FirstMissingFacts
  <1> HIDE DEF q
  <1>5. \A s \in Nat : s < rcv_next_deliver[e] \/ s \in Seqs(q) => Known(e, s)'
    BY <1>1, <1>2, <1>t, DeliverHolds
  <1>6. /\ cstate'[e] # "freed"
        /\ \A d \in End \ {e} :
              /\ rcv_next'[d] = rcv_next[d]
              /\ rcv_next_deliver'[d] = rcv_next_deliver[d]
              /\ recvq'[d] = recvq[d] /\ cstate'[d] = cstate[d]
    BY <1>t, <1>1, <1>2 DEF DeliverPost
  <1>7. Receives(e)
    BY <1>t, <1>2, <1>3, <1>4, <1>5, <1>6 DEF Receives, Known
  <1>8. \E all : net' = net \cup all /\ \A m \in all : Tells(e, m)
    <2> DEFINE f == Fin(Peer(e), n)
               a == Ack(Peer(e), p.seq, n)
    <2>1. Tells(e, f)
      BY <1>t, <1>1, <1>2, MessageFields, PeerOfPeer DEF Tells
    <2>2. Tells(e, a)
      <3>1. Known(e, p.seq)'
        BY <1>2, <1>3, <1>5
      <3> QED BY <3>1, <1>t, <1>1, <1>2, <1>6, MessageFields, PeerOfPeer DEF Tells
    <2>3. net' = net \cup out \/ net' = net \cup out \cup {f}
      BY <1>1 DEF DeliverPost
    <2>4. \A m \in out : Tells(e, m)
      BY <2>2
    <2> HIDE DEF f, a
    <2>5. CASE net' = net \cup out
      BY <2>4, <2>5
    <2>6. CASE net' = net \cup out \cup {f}
      <3> DEFINE all == out \cup {f}
      <3>1. net' = net \cup all /\ \A m \in all : Tells(e, m)
        BY <2>1, <2>4, <2>6
      <3> HIDE DEF all
      <3> QED BY <3>1
    <2> QED BY <2>3, <2>5, <2>6
  <1> QED BY <1>6, <1>7, <1>8

LEMMA RecvDataMoves ==
  ASSUME IInv, NEW e \in End, NEW m \in net, RecvData(e, m)
  PROVE  \E out : AckStep(e, out)
  <1>t. /\ snd_una \in [End -> Nat] /\ snd_next \in [End -> Nat]
        /\ sendq \in [End -> SUBSET SendPkt]
        /\ rcv_next \in [End -> Nat]
        /\ m \in Message /\ m.seq1 \in Nat /\ m.seq2 \in Nat /\ m.msg \in Nat
        /\ m.len \in Nat
    BY DEF IInv, TypeOK, SenderTypes, ReceiverTypes, ControlTypes, Message
  <1>1. /\ m.type = "DATA" /\ m.to = e /\ m.len > 0 /\ IsOpen(e)
        /\ snd_una' = [snd_una EXCEPT ![e] = Upto(@, m.seq2)]
        /\ sendq' = [sendq EXCEPT ![e] = @ \ Acked(@, snd_una'[e])]
        /\ UNCHANGED <<snd_next, sent>>
    BY DEF RecvData
  <1>2. Releases(e)
    <2>1. snd_una'[e] = Upto(snd_una[e], m.seq2)
      BY <1>1, <1>t
    <2>2. sendq'[e] = sendq[e] \ Acked(sendq[e], snd_una'[e])
      BY <1>1, <1>t
    <2>3. /\ snd_una[e] <= snd_una'[e]
          /\ snd_una'[e] = snd_una[e] \/ snd_una'[e] = m.seq2
      BY <2>1, <1>t DEF Upto
    <2>4. \A s \in Seqs(sendq[e]) : s \in Seqs(sendq'[e]) \/ s < snd_una'[e]
      BY <2>2 DEF Seqs, Acked
    <2>5. \A s \in 0 .. (snd_next'[e] - 1) :
            \/ s \in Seqs(sendq'[e])
            \/ s < snd_una'[e]
            \/ s < snd_next[e] /\ s \notin Seqs(sendq[e])
      <3>1. snd_next'[e] = snd_next[e] /\ snd_next[e] \in Nat
        BY <1>1, <1>t
      <3> QED BY <2>4, <3>1
    <2>6. m.to = e /\ m.type # "INITCONN"
      BY <1>1
    <2> QED BY <2>3, <2>5, <2>6 DEF Releases
  <1>3. \A d \in End \ {e} :
          /\ snd_una'[d] = snd_una[d] /\ snd_next'[d] = snd_next[d]
          /\ sendq'[d] = sendq[d]
    BY <1>1, <1>t
  <1>4. CASE DataArrives(e, m)
    <2> DEFINE p == [seq |-> m.seq1, msg |-> m.msg, len |-> m.len]
    <2>1. PICK n : Arrives(e, p, n, cstate[e], {Ack(Peer(e), m.seq1, n)})
      BY <1>4 DEF DataArrives
    <2>2. p.seq = m.seq1
      OBVIOUS
    <2> HIDE DEF p
    <2> DEFINE out == {Ack(Peer(e), m.seq1, n)}
    <2>3. Arrives(e, p, n, cstate[e], out) /\ out \in {{}, {Ack(Peer(e), p.seq, n)}}
      BY <2>1, <2>2
    <2> HIDE DEF out
    <2>4. PICK all : net' = net \cup all /\ \A x \in all : Tells(e, x)
      BY <2>3, ArrivalMoves
    <2>5. /\ Receives(e)
          /\ \A d \in End \ {e} :
               /\ rcv_next'[d] = rcv_next[d]
               /\ rcv_next_deliver'[d] = rcv_next_deliver[d]
               /\ recvq'[d] = recvq[d] /\ cstate'[d] = cstate[d]
      BY <2>3, ArrivalMoves
    <2>6. Moves(e, all)
      BY <1>3, <2>4, <2>5 DEF Moves
    <2> QED BY <1>2, <2>5, <2>6 DEF AckStep
  <1>5. CASE UNCHANGED <<cstate, rcv_next, rcv_next_deliver, recvq, net>>
    <2>2. Moves(e, {})
      BY <1>3, <1>5 DEF Moves
    <2>3. Receives(e)
      BY <1>1, <1>t, <1>5 DEF Receives, Known, IsOpen
    <2> QED BY <1>2, <2>2, <2>3 DEF AckStep
  <1> QED BY <1>4, <1>5, RecvDataSplits

LEMMA RecvFinMoves ==
  ASSUME IInv, NEW e \in End, NEW m \in net, RecvFin(e, m)
  PROVE  \E out : AckStep(e, out)
  <1> DEFINE p == [seq |-> rcv_next[e], msg |-> 0, len |-> 0]
  <1>t. /\ snd_una \in [End -> Nat] /\ snd_next \in [End -> Nat]
        /\ rcv_next \in [End -> Nat]
    BY SeqTypes
  <1>1. PICK n : Arrives(e, p, n, "CLOSING_IN", {})
    BY RecvFinSplits DEF FinArrives
  <1>2. UNCHANGED <<snd_una, snd_next, sendq>>
    BY DEF RecvFin, sndVars
  <1> HIDE DEF p
  <1>5. {} \in {{}, {Ack(Peer(e), p.seq, n)}}
    OBVIOUS
  <1>6. PICK all : net' = net \cup all /\ \A x \in all : Tells(e, x)
    BY <1>1, <1>5, ArrivalMoves
  <1>7. /\ Receives(e)
        /\ \A d \in End \ {e} :
             /\ rcv_next'[d] = rcv_next[d]
             /\ rcv_next_deliver'[d] = rcv_next_deliver[d]
             /\ recvq'[d] = recvq[d] /\ cstate'[d] = cstate[d]
    BY <1>1, <1>5, ArrivalMoves
  <1>8. Moves(e, all)
    BY <1>2, <1>6, <1>7 DEF Moves
  <1>9. Releases(e)
    BY <1>2, <1>t DEF Releases
  <1> QED BY <1>7, <1>8, <1>9 DEF AckStep

LEMMA RecvAckMoves ==
  ASSUME IInv, NEW e \in End, NEW m \in net, RecvAck(e, m)
  PROVE  \E out : AckStep(e, out)
  <1> DEFINE una     == Upto(snd_una[e], m.seq2)
             removed == RemovedByAck(sendq[e], m.seq1, una)
             first   == {p \in sendq[e] : ~p.xmit /\ InWindow(p.seq, una)}
             kept    == sendq[e] \ removed
             again   == {p \in kept : p.seq < m.seq1 /\ ~p.fast}
             resent  == first \cup again
             marked  == {[p EXCEPT !.xmit = @ \/ p \in resent,
                                   !.fast = @ \/ p \in again] : p \in kept}
             out     == {Data(Peer(e), p, rcv_next[e]) : p \in resent}
  <1>t. /\ snd_una \in [End -> Nat] /\ snd_next \in [End -> Nat]
        /\ sendq \in [End -> SUBSET SendPkt]
        /\ rcv_next \in [End -> Nat] /\ m.seq2 \in Nat
        /\ \A p \in sendq[e] : p \in SendPkt
    BY SeqTypes
  <1>1. /\ m.type = "ACK" /\ m.to = e /\ InTable(e)
        /\ snd_una' = [snd_una EXCEPT ![e] = una]
        /\ sendq' = [sendq EXCEPT ![e] = marked]
        /\ net' = net \cup out
        /\ UNCHANGED <<cstate, snd_next, rcv_next, rcv_next_deliver, recvq>>
    BY DEF RecvAck, rcvVars
  <1>2. resent \in SUBSET sendq[e]
    OBVIOUS
  <1>3. \A x \in out : Tells(e, x)
    <2> SUFFICES ASSUME NEW x \in out PROVE Tells(e, x)
      OBVIOUS
    <2>1. x \in {Data(Peer(e), p, rcv_next[e]) : p \in resent}
      OBVIOUS
    <2> HIDE DEF resent, out
    <2>2. /\ x \in Message /\ x.to = Peer(e) /\ x.type = "DATA"
          /\ x.seq2 = rcv_next[e] /\ x.seq2 \in Nat
      BY <1>2, <2>1, DataTells
    <2>3. rcv_next'[e] = rcv_next[e]
      BY <1>1
    <2> HIDE DEF una, removed, first, kept, again, marked
    <2> QED BY <2>2, <2>3 DEF Tells
  <1>4. Seqs(kept) \subseteq Seqs(marked)
    <2> SUFFICES ASSUME NEW p \in kept PROVE \E r \in marked : r.seq = p.seq
      BY DEF Seqs
    <2> DEFINE r == [p EXCEPT !.xmit = @ \/ p \in resent,
                              !.fast = @ \/ p \in again]
    <2>1. p \in SendPkt
      BY <1>t
    <2>2. r \in marked
      OBVIOUS
    <2>3. r.seq = p.seq
      BY <2>1 DEF SendPkt
    <2> HIDE DEF r, marked
    <2> QED BY <2>2, <2>3
  <1>5. \A s \in Seqs(sendq[e]) : s \in Seqs(kept) \/ s = m.seq1 \/ s < una
    BY DEF RemovedByAck, Acked, Seqs
  <1>6. /\ snd_una[e] <= una /\ una \in Nat /\ m.seq2 <= una
        /\ una = snd_una[e] \/ una = m.seq2
    BY <1>t DEF Upto
  <1> HIDE DEF una, removed, first, kept, again, resent, marked, out
  <1>7. Moves(e, out)
    BY <1>1, <1>3, <1>t DEF Moves
  <1>8. Receives(e)
    BY <1>1, <1>t DEF Receives, Known, InTable
  <1>9. Releases(e)
    <2>1. /\ snd_una'[e] = una /\ sendq'[e] = marked
          /\ snd_next'[e] = snd_next[e] /\ snd_next[e] \in Nat
      BY <1>1, <1>t
    <2> QED BY <1>1, <1>4, <1>5, <1>6, <2>1 DEF Releases
  <1> QED BY <1>7, <1>8, <1>9 DEF AckStep
-----------------------------------------------------------------------------
(* The theorems *)

LEMMA InitAckInv == Init => AckInv
  <1> SUFFICES ASSUME Init PROVE AckInv
    OBVIOUS
  <1>1. AckBound /\ AckHeld /\ AckSkips
    BY DEF Init, AckBound, AckHeld, AckSkips
  <1>2. AckNumberReached
    BY PeerOfPeer DEF Init, AckNumberReached
  <1>3. SendqComplete
    BY DEF Init, SendqComplete
  <1> QED BY <1>1, <1>2, <1>3 DEF AckInv

LEMMA NextKeepsAck == IInv /\ AckInv /\ [Next]_vars => AckInv'
  <1> SUFFICES ASSUME IInv, AckInv, [Next]_vars PROVE AckInv'
    OBVIOUS
  <1>i. IInv'
    BY NextKeeps
  <1>1. CASE Next
    <2>1. \E e \in End : \E out : AckStep(e, out)
      <3>1. CASE Connect
        BY <3>1, ConnectMoves DEF End
      <3>2. ASSUME NEW e \in End, NEW len \in Lens, Send(e, len)
            PROVE  \E out : AckStep(e, out)
        BY <3>2, SendMoves
      <3>3. ASSUME NEW e \in End, Close(e) PROVE \E out : AckStep(e, out)
        BY <3>3, CloseMoves
      <3>4. ASSUME NEW e \in End, NEW m \in net,
                   \/ RecvInit(e, m) \/ RecvData(e, m)
                   \/ RecvAck(e, m) \/ RecvFin(e, m)
            PROVE  \E out : AckStep(e, out)
        BY <3>4, RecvInitMoves, RecvDataMoves, RecvAckMoves, RecvFinMoves
      <3>5. ASSUME NEW e \in End, Check(e) PROVE \E out : AckStep(e, out)
        BY <3>5, CheckMoves
      <3>6. ASSUME NEW e \in End, LeaveRoom(e) PROVE \E out : AckStep(e, out)
        BY <3>6, LeaveRoomMoves
      <3> QED BY <1>1, <3>1, <3>2, <3>3, <3>4, <3>5, <3>6, NextActions
    <2> QED BY <1>i, <2>1, AckStepKeeps
  <1>2. CASE UNCHANGED vars
    <2>1. UNCHANGED <<cstate, snd_una, snd_next, sendq, rcv_next,
                      rcv_next_deliver, recvq, net>>
      BY <1>2 DEF vars, sndVars, rcvVars
    <2> QED BY <2>1 DEF AckInv, AckBound, AckNumberReached, AckHeld, AckSkips,
               NeverNext, SendqComplete, AckedAlone, Known
  <1> QED BY <1>1, <1>2

\* The invariant about acknowledgements holds in every reachable state.
THEOREM AckInvariance == Spec => [](IInv /\ AckInv)
  BY InitIInv, NextKeeps, InitAckInv, NextKeepsAck, PTL DEF Spec

\* snd_una never runs ahead of the peer's rcv_next, in whatever order the
\* ACK, DATA and FIN messages that carry it are handled, for every window.
\* This is about the number only: rcv_next counts the place of a FIN, and
\* single packets are acknowledged beside it (NothingLostSilently).
THEOREM AckNumberIsReached == Spec => []AckNumberReached
  <1>1. AckInv => AckNumberReached
    BY DEF AckInv
  <1> QED BY AckInvariance, <1>1, PTL

\* handle_conn_ack_msg never removes the packet at snd_una by the seq1 field
\* of an ACK alone, so an empty send queue means that all is acknowledged.
THEOREM OldestStaysQueued == Spec => []OldestIsQueued
  <1>1. IInv /\ AckInv => OldestIsQueued
    <2> SUFFICES ASSUME IInv, AckInv, NEW e \in End, cstate[e] # "freed",
                        snd_una[e] < snd_next[e]
                 PROVE  snd_una[e] \in Seqs(sendq[e])
      BY DEF OldestIsQueued
    <2>1. snd_una[e] \in Nat /\ snd_next[e] \in Nat
      BY SeqTypes
    <2>2. snd_una[e] \in Seqs(sendq[e]) \/ AckedAlone(e, snd_una[e])
      BY <2>1 DEF AckInv, SendqComplete
    <2>3. ~AckedAlone(e, snd_una[e])
      BY DEF AckInv, AckSkips, AckedAlone, NeverNext
    <2> QED BY <2>2, <2>3
  <1> QED BY AckInvariance, <1>1, PTL

-----------------------------------------------------------------------------
(* A FIN is sent, and so is queued, only when its sender is closed. *)

Over(e) == cstate[e] \in {"CLOSING_OUT", "freed"}

FinInv ==
  /\ \A m \in net : m.type = "FIN" => Over(Peer(m.to))
  /\ \A e \in End : \A p \in recvq[e] : p.len = 0 => Over(Peer(e))

\* A step that sends and queues no FIN of an open channel.
LEMMA FinStep ==
  ASSUME FinInv, net \in SUBSET Message,
         \A d \in End : Over(d) => Over(d)',
         \A m \in net' : m \in net \/ (m.type = "FIN" => Over(Peer(m.to))'),
         \A d \in End : \A p \in recvq'[d] : p.len = 0 => Over(Peer(d))
  PROVE  FinInv'
  <1>1. ASSUME NEW m \in net', m.type = "FIN" PROVE Over(Peer(m.to))'
    <2>1. CASE m \in net
      BY <1>1, <2>1, PeerOfPeer DEF FinInv, Message
    <2> QED BY <1>1, <2>1
  <1>2. ASSUME NEW d \in End, NEW p \in recvq'[d], p.len = 0
        PROVE  Over(Peer(d))'
    BY <1>2, PeerOfPeer
  <1> QED BY <1>1, <1>2 DEF FinInv

LEMMA ArrivalFin ==
  ASSUME IInv, FinInv, NEW e \in End, NEW p, NEW n, NEW st, NEW out,
         Arrives(e, p, n, st, out), p.len = 0 => Over(Peer(e)),
         \A m \in out : m.type # "FIN"
  PROVE  FinInv'
  <1> DEFINE q == Insert(recvq[e], p)
  <1>t. /\ cstate \in [End -> States] /\ net \in SUBSET Message
        /\ recvq \in [End -> SUBSET RecvPkt]
    BY ControlFacts
  <1>1. DeliverPost(e, q, n, st, out) /\ q \in SUBSET RecvPkt /\ n \in Nat
    BY ArrivalFacts
  <1>2. q \subseteq recvq[e] \cup {p}
    BY DEF Insert
  <1>3. TryDeliver(e, q, n, st, out) /\ ~Over(e)
    BY DEF Arrives, IsOpen, Over
  <1> HIDE DEF q
  <1>4. \/ cstate' = [cstate EXCEPT ![e] = st] /\ net' = net \cup out
        \/ /\ cstate' = [cstate EXCEPT ![e] = "CLOSING_OUT"]
           /\ net' = net \cup out \/ net' = net \cup out \cup {Fin(Peer(e), n)}
    BY <1>3 DEF TryDeliver, TakesAll, LeavesRest, MeetsFin, ClosesInCallback
  <1>5. \A d \in End : Over(d) => Over(d)'
    BY <1>t, <1>3, <1>4 DEF Over
  <1>6. ASSUME NEW m \in net' PROVE m \in net \/ (m.type = "FIN" => Over(Peer(m.to))')
    <2>1. CASE m \in net \cup out
      BY <2>1
    <2>2. CASE m = Fin(Peer(e), n) /\ cstate' = [cstate EXCEPT ![e] = "CLOSING_OUT"]
      <3>1. Peer(m.to) = e
        BY <2>2, PeerOfPeer DEF Fin
      <3>2. cstate'[e] = "CLOSING_OUT"
        BY <1>t, <2>2
      <3> QED BY <3>1, <3>2 DEF Over
    <2> QED BY <1>4, <2>1, <2>2
  <1>7. ASSUME NEW d \in End, NEW x \in recvq'[d], x.len = 0
        PROVE  Over(Peer(d))
    <2>1. CASE d = e
      <3>1. PICK r \in q : x.len > 0 <=> r.len > 0
        BY <1>1, <1>7, <2>1 DEF DeliverPost
      <3>2. r.len = 0
        BY <1>1, <1>7, <3>1 DEF RecvPkt
      <3> QED BY <1>2, <2>1, <3>2 DEF FinInv
    <2>2. CASE d # e
      <3>1. x \in recvq[d]
        BY <1>t, <1>1, <1>7, <2>2 DEF DeliverPost
      <3> QED BY <1>7, <3>1 DEF FinInv
    <2> QED BY <2>1, <2>2
  <1> QED BY <1>t, <1>5, <1>6, <1>7, FinStep

\* The channel of e is freed.
LEMMA FreeFin ==
  ASSUME IInv, FinInv, NEW e \in End, NEW due \in SUBSET sendq[e],
         Free(e, {Data(Peer(e), p, rcv_next[e]) : p \in due})
  PROVE  FinInv'
  <1> DEFINE out == {Data(Peer(e), p, rcv_next[e]) : p \in due}
  <1>t. /\ cstate \in [End -> States] /\ net \in SUBSET Message
        /\ recvq \in [End -> SUBSET RecvPkt]
    BY ControlFacts
  <1>1. Departs(e, out)
    BY FreeFacts
  <1>2. ASSUME NEW m \in out PROVE m.to = Peer(e)
    BY DataTells
  <1> HIDE DEF out
  <1>3. PICK more : net' = net \cup out \cup more /\ \A m \in more : Word(e, m)
    BY <1>1 DEF Departs
  <1>4. cstate' = [cstate EXCEPT ![e] = "freed"] /\ recvq' = [recvq EXCEPT ![e] = {}]
    BY <1>1 DEF Departs
  <1>5. Over(e)' /\ \A d \in End : Over(d) => Over(d)'
    BY <1>t, <1>4 DEF Over
  <1>6. ASSUME NEW m \in net' PROVE m \in net \/ (m.type = "FIN" => Over(Peer(m.to))')
    <2>1. CASE m \in out \cup more
      <3>1. Peer(m.to) = e
        BY <1>2, <1>3, <2>1, PeerOfPeer DEF Word
      <3> QED BY <1>5, <3>1
    <2> QED BY <1>3, <2>1
  <1>7. \A d \in End : \A p \in recvq'[d] : p.len = 0 => Over(Peer(d))
    BY <1>t, <1>4 DEF FinInv
  <1> QED BY <1>t, <1>5, <1>6, <1>7, FinStep

LEMMA NextKeepsFin == IInv /\ FinInv /\ [Next]_vars => FinInv'
  <1> SUFFICES ASSUME IInv, FinInv, [Next]_vars PROVE FinInv'
    OBVIOUS
  <1>t. /\ cstate \in [End -> States] /\ net \in SUBSET Message
        /\ rcv_next \in [End -> Nat] /\ sendq \in [End -> SUBSET SendPkt]
    BY ControlFacts
  \* Nothing is queued, and no FIN is sent.
  <1>q. ASSUME NEW out, net' = net \cup out, \A m \in out : m.type # "FIN",
               UNCHANGED recvq, \A d \in End : Over(d) => Over(d)'
        PROVE  FinInv'
    BY <1>t, <1>q, FinStep DEF FinInv
  <1>n. ASSUME UNCHANGED <<net, recvq>>, \A d \in End : Over(d) => Over(d)'
        PROVE  FinInv'
    BY <1>t, <1>n, FinStep DEF FinInv
  <1>o. ASSUME NEW e \in End, cstate[e] = "none",
               cstate' = [cstate EXCEPT ![e] = "ESTABLISHED"]
        PROVE  \A d \in End : Over(d) => Over(d)'
    BY <1>o, <1>t DEF Over
  <1>d. ASSUME NEW e \in End, NEW due \in SUBSET sendq[e],
               net' = net \cup {Data(Peer(e), p, rcv_next[e]) : p \in due},
               UNCHANGED <<recvq, cstate>>
        PROVE  FinInv'
    <2> DEFINE out == {Data(Peer(e), p, rcv_next[e]) : p \in due}
    <2>1. ASSUME NEW m \in out PROVE m.type # "FIN"
      BY DataTells
    <2>2. net' = net \cup out /\ UNCHANGED recvq
      BY <1>d
    <2> HIDE DEF out
    <2>3. \A d \in End : Over(d) => Over(d)'
      BY <1>d DEF Over
    <2> QED BY <1>q, <2>1, <2>2, <2>3
  <1>1. CASE Connect
    <2> DEFINE out == {Init_(Acceptor)}
    <2>1. /\ net' = net \cup out /\ UNCHANGED recvq
          /\ cstate[Initiator] = "none" /\ Initiator \in End
          /\ cstate' = [cstate EXCEPT ![Initiator] = "ESTABLISHED"]
      BY <1>1 DEF Connect, rcvVars, End
    <2>2. \A m \in out : m.type # "FIN"
      BY MessageFields
    <2> HIDE DEF out
    <2>3. \A d \in End : Over(d) => Over(d)'
      BY <1>o, <2>1
    <2> QED BY <1>q, <2>1, <2>2, <2>3
  <1>2. ASSUME NEW e \in End, NEW len \in Lens, Send(e, len) PROVE FinInv'
    <2> DEFINE p == [seq |-> snd_next[e], msg |-> sent[e] + 1, len |-> len,
                     xmit |-> InWindow(snd_next[e], snd_una[e]), fast |-> FALSE]
               out == IF p.xmit THEN {Data(Peer(e), p, rcv_next[e])} ELSE {}
    <2>1. net' = net \cup out /\ UNCHANGED <<recvq, cstate>>
      BY <1>2 DEF Send, rcvVars
    <2>2. \A m \in out : m.type # "FIN"
      BY DEF Data
    <2> HIDE DEF out
    <2>3. \A d \in End : Over(d) => Over(d)'
      BY <2>1 DEF Over
    <2> QED BY <1>q, <2>1, <2>2, <2>3
  <1>3. ASSUME NEW e \in End, Close(e) PROVE FinInv'
    <2> DEFINE f == Fin(Peer(e), rcv_next[e])
    <2>1. /\ net' = net \cup {f} /\ UNCHANGED recvq
          /\ cstate' = [cstate EXCEPT ![e] = "CLOSING_OUT"]
      BY <1>3 DEF Close, rcvVars
    <2>2. Peer(f.to) = e
      BY PeerOfPeer DEF Fin
    <2> HIDE DEF f
    <2>3. Over(e)' /\ \A d \in End : Over(d) => Over(d)'
      BY <1>t, <2>1 DEF Over
    <2>4. \A m \in net' : m \in net \/ (m.type = "FIN" => Over(Peer(m.to))')
      BY <2>1, <2>2, <2>3
    <2> QED BY <1>t, <2>1, <2>3, <2>4, FinStep DEF FinInv
  <1>4. ASSUME NEW e \in End, NEW m \in net, RecvInit(e, m) PROVE FinInv'
    <2>1. /\ net' = net /\ UNCHANGED recvq
          /\ cstate[e] = "none"
          /\ cstate' = [cstate EXCEPT ![e] = "ESTABLISHED"]
      BY <1>4 DEF RecvInit, rcvVars
    <2>2. \A d \in End : Over(d) => Over(d)'
      BY <1>o, <2>1
    <2> QED BY <1>n, <2>1, <2>2
  <1>5. ASSUME NEW e \in End, NEW m \in net, RecvData(e, m) PROVE FinInv'
    <2> DEFINE p == [seq |-> m.seq1, msg |-> m.msg, len |-> m.len]
    <2>1. CASE DataArrives(e, m)
      <3>1. PICK n : Arrives(e, p, n, cstate[e], {Ack(Peer(e), m.seq1, n)})
        BY <2>1 DEF DataArrives
      <3>2. p.len # 0
        BY <1>5, <1>t DEF RecvData
      <3>3. \A x \in {Ack(Peer(e), m.seq1, n)} : x.type # "FIN"
        BY DEF Ack
      <3> HIDE DEF p
      <3> QED BY <3>1, <3>2, <3>3, ArrivalFin
    <2>2. CASE UNCHANGED <<cstate, recvq, net>>
      <3>1. \A d \in End : Over(d) => Over(d)'
        BY <2>2 DEF Over
      <3> QED BY <1>n, <2>2, <3>1
    <2> QED BY <1>5, <2>1, <2>2, RecvDataSplits
  <1>6. ASSUME NEW e \in End, NEW m \in net, RecvAck(e, m) PROVE FinInv'
    <2> DEFINE una     == Upto(snd_una[e], m.seq2)
               removed == RemovedByAck(sendq[e], m.seq1, una)
               first   == {p \in sendq[e] : ~p.xmit /\ InWindow(p.seq, una)}
               kept    == sendq[e] \ removed
               again   == {p \in kept : p.seq < m.seq1 /\ ~p.fast}
               due     == first \cup again
    <2>1. net' = net \cup {Data(Peer(e), p, rcv_next[e]) : p \in due}
      BY <1>6 DEF RecvAck
    <2>2. due \in SUBSET sendq[e] /\ UNCHANGED <<recvq, cstate>>
      BY <1>6 DEF RecvAck, rcvVars
    <2> HIDE DEF due
    <2> QED BY <1>d, <2>1, <2>2
  <1>7. ASSUME NEW e \in End, NEW m \in net, RecvFin(e, m) PROVE FinInv'
    <2> DEFINE p == [seq |-> rcv_next[e], msg |-> 0, len |-> 0]
    <2>1. PICK n : Arrives(e, p, n, "CLOSING_IN", {})
      BY <1>7, RecvFinSplits DEF FinArrives
    <2>2. Over(Peer(e))
      BY <1>7 DEF RecvFin, FinInv
    <2> HIDE DEF p
    <2> QED BY <2>1, <2>2, ArrivalFin
  <1>8. ASSUME NEW e \in End, Check(e) PROVE FinInv'
    <2>1. PICK due \in SUBSET Retransmittable(e) :
            \/ Free(e, {Data(Peer(e), p, rcv_next[e]) : p \in due})
            \/ /\ net' = net \cup {Data(Peer(e), p, rcv_next[e]) : p \in due}
               /\ UNCHANGED <<recvq, cstate>>
      BY <1>8 DEF Check
    <2>2. due \in SUBSET sendq[e]
      BY DEF Retransmittable
    <2> QED BY <1>d, <2>1, <2>2, FreeFin
  <1>9. ASSUME NEW e \in End, LeaveRoom(e) PROVE FinInv'
    <2>1. Free(e, {}) /\ {} \in SUBSET sendq[e]
      BY <1>9 DEF LeaveRoom
    <2>2. {Data(Peer(e), p, rcv_next[e]) : p \in {}} = {}
      OBVIOUS
    <2> QED BY <2>1, <2>2, FreeFin
  <1>10. CASE UNCHANGED vars
    BY <1>10 DEF vars, rcvVars, FinInv, Over
  <1> QED BY <1>1, <1>2, <1>3, <1>4, <1>5, <1>6, <1>7, <1>8, <1>9, <1>10,
             NextActions

\* While an end is open and the peer has its channel, no packet accepted by
\* ghl_conn_send is lost: it is in the send queue, or the peer has this very
\* packet, and not a FIN that took its place.  It holds of all three ways a
\* packet leaves the queue: the acknowledgement number of an ACK, the number
\* of the one packet an ACK answers, and the acknowledgement in a DATA message.
THEOREM NothingLostSilently == Spec => []NoSilentLoss
  <1>1. IInv /\ AckInv /\ FinInv => NoSilentLoss
    <2> SUFFICES ASSUME IInv, AckInv, FinInv, NEW e \in End,
                        IsOpen(e), InTable(Peer(e)),
                        NEW s \in 0 .. (snd_next[e] - 1)
                 PROVE  s \in Seqs(sendq[e]) \/ Held(Peer(e), s)
      BY DEF NoSilentLoss
    <2>1. /\ Peer(e) \in End /\ Peer(Peer(e)) = e /\ cstate[e] # "freed"
          /\ cstate[Peer(e)] # "freed"
      BY PeerOfPeer DEF IsOpen, InTable
    <2>2. s < snd_una[e] \/ s \in Seqs(sendq[e]) \/ AckedAlone(e, s)
      BY <2>1 DEF AckInv, SendqComplete
    <2>3. ASSUME Known(Peer(e), s) PROVE Held(Peer(e), s)
      <3>1. \A p \in recvq[Peer(e)] : p.len > 0
        <4>1. ~Over(e)
          BY DEF Over, IsOpen
        <4>2. \A p \in recvq[Peer(e)] : p.len \in Nat /\ p.len # 0
          BY <2>1, <4>1, ControlFacts DEF FinInv, RecvPkt
        <4> QED BY <4>2
      <3> QED BY <2>3, <3>1 DEF Known, Held, Seqs
    <2>4. CASE s < snd_una[e]
      <3>1. /\ snd_una[e] <= rcv_next[Peer(e)] /\ snd_una[e] \in Nat
            /\ rcv_next[Peer(e)] \in Nat /\ s \in Nat /\ snd_next[e] \in Nat
        BY <2>1, SeqTypes DEF AckInv, AckNumberReached
      <3>2. s < rcv_next[Peer(e)]
        BY <2>4, <3>1
      <3> QED BY <2>1, <2>3, <3>1, <3>2, NextNotHeld
    <2>5. CASE AckedAlone(e, s)
      BY <2>1, <2>3, <2>5 DEF AckInv, AckHeld, AckedAlone
    <2> QED BY <2>2, <2>4, <2>5
  <1>2. Init => FinInv
    BY DEF Init, FinInv
  <1> QED BY AckInvariance, NextKeepsFin, <1>1, <1>2, PTL DEF Spec
=============================================================================
