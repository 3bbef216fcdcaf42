------------------------ MODULE VConnStreamProofs ------------------------
(***************************************************************************)
(* Proofs about what the two applications see of a virtual connection: it  *)
(* implements the stream of ReliableStream, and its end is told once; and  *)
(* about the queues behind it: what is queued to be sent was transmitted,  *)
(* and what is queued to be read is bounded.                               *)
(***************************************************************************)
EXTENDS VConnProofs, FiniteSetTheorems

USE EndAssumption, WindowAssumption, TimeoutAssumption

-----------------------------------------------------------------------------
(* Lemmas about steps *)

\* What a delivery at end e leaves of the channel's state.
LEMMA ArrivalState ==
  ASSUME IInv, NEW e \in End, NEW p, NEW n, NEW st, NEW out,
         Arrives(e, p, n, st, out)
  PROVE  /\ cstate' \in {[cstate EXCEPT ![e] = st],
                        [cstate EXCEPT ![e] = "CLOSING_OUT"]}
         /\ st \in {"ESTABLISHED", "CLOSING_IN"}
         /\ IsOpen(e)
         /\ n \in Nat
         /\ net' = net \cup out \/ net' = net \cup out \cup {Fin(Peer(e), n)}
  BY ArrivalFacts DEF DeliverPost, Arrives

-----------------------------------------------------------------------------
(* The end of a channel is told once *)

\* The end of e's channel has been told of as often as its state says.
Told(e) ==
  fins[e] + (IF closed[e] THEN 1 ELSE 0) =
    (IF cstate[e] \in {"CLOSING_OUT", "freed"} THEN 1 ELSE 0)

LEMMA ToldOnceIsTold == ToldOnce <=> \A e \in End : Told(e)
  BY DEF ToldOnce, Told

LEMMA DeliverTells ==
  ASSUME IInv, ToldOnce, NEW e \in End, NEW p, NEW n, NEW st, NEW out,
         Arrives(e, p, n, st, out)
  PROVE  ToldOnce'
  <1> DEFINE q == Insert(recvq[e], p)
  <1>t. /\ cstate \in [End -> States]
        /\ fins \in [End -> Nat] /\ closed \in [End -> BOOLEAN]
    BY ControlFacts
  <1>1. /\ IsOpen(e) /\ st \in {"ESTABLISHED", "CLOSING_IN"}
        /\ TryDeliver(e, q, n, st, out)
    BY DEF Arrives
  <1>2. Told(e) /\ fins[e] = 0 /\ closed[e] = FALSE
    BY <1>1, <1>t, ToldOnceIsTold DEF Told, IsOpen
  <1> HIDE DEF q
  <1>3. \/ /\ cstate' = [cstate EXCEPT ![e] = st]
           /\ UNCHANGED <<fins, closed>>
        \/ /\ cstate' = [cstate EXCEPT ![e] = "CLOSING_OUT"]
           /\ fins' = [fins EXCEPT ![e] = @ + 1] /\ UNCHANGED closed
        \/ /\ cstate' = [cstate EXCEPT ![e] = "CLOSING_OUT"]
           /\ closed' = [closed EXCEPT ![e] = TRUE] /\ UNCHANGED fins
    BY <1>1 DEF TryDeliver, TakesAll, LeavesRest, MeetsFin, ClosesInCallback
  <1>4. ASSUME NEW d \in End PROVE Told(d)'
    <2>1. Told(d)
      BY ToldOnceIsTold
    <2>2. CASE d = e
      BY <1>t, <1>1, <1>2, <1>3, <2>2 DEF Told
    <2>3. CASE d # e
      <3>1. fins'[d] = fins[d] /\ closed'[d] = closed[d] /\ cstate'[d] = cstate[d]
        BY <1>t, <1>3, <2>3
      <3> QED BY <2>1, <3>1 DEF Told
    <2> QED BY <2>2, <2>3
  <1> QED BY <1>4 DEF ToldOnce, Told

LEMMA FreeTells ==
  ASSUME IInv, ToldOnce, NEW e \in End, NEW out, InTable(e), Free(e, out),
         UNCHANGED closed
  PROVE  ToldOnce'
  <1>t. /\ cstate \in [End -> States]
        /\ fins \in [End -> Nat] /\ closed \in [End -> BOOLEAN]
    BY ControlFacts
  <1>1. /\ cstate' = [cstate EXCEPT ![e] = "freed"]
        /\ fins' = IF IsOpen(e) THEN [fins EXCEPT ![e] = @ + 1] ELSE fins
    BY DEF Free
  <1>2. ASSUME NEW d \in End PROVE Told(d)'
    <2>1. Told(d)
      BY ToldOnceIsTold
    <2>2. CASE d = e
      BY <1>t, <1>1, <2>1, <2>2 DEF Told, IsOpen, InTable
    <2>3. CASE d # e
      <3>1. fins'[d] = fins[d] /\ closed'[d] = closed[d] /\ cstate'[d] = cstate[d]
        BY <1>t, <1>1, <2>3
      <3> QED BY <2>1, <3>1 DEF Told
    <2> QED BY <2>2, <2>3
  <1> QED BY <1>2 DEF ToldOnce, Told

LEMMA OpenTells ==
  ASSUME IInv, ToldOnce, NEW e \in End, cstate[e] = "none",
         cstate' = [cstate EXCEPT ![e] = "ESTABLISHED"],
         UNCHANGED <<fins, closed>>
  PROVE  ToldOnce'
  <1>1. cstate \in [End -> States]
    BY ControlFacts
  <1>2. \A d \in End : cstate'[d] \in {"CLOSING_OUT", "freed"} <=>
                         cstate[d] \in {"CLOSING_OUT", "freed"}
    BY <1>1
  <1> QED BY <1>2 DEF ToldOnce

LEMMA CloseTells ==
  ASSUME IInv, ToldOnce, NEW e \in End, Close(e)
  PROVE  ToldOnce'
  <1>t. /\ cstate \in [End -> States]
        /\ fins \in [End -> Nat] /\ closed \in [End -> BOOLEAN]
    BY ControlFacts
  <1>1. /\ cstate' = [cstate EXCEPT ![e] = "CLOSING_OUT"]
        /\ closed' = [closed EXCEPT ![e] = TRUE] /\ IsOpen(e)
        /\ UNCHANGED fins
    BY DEF Close
  <1>2. ASSUME NEW d \in End PROVE Told(d)'
    <2>1. Told(d)
      BY ToldOnceIsTold
    <2>2. CASE d = e
      <3>1. fins[e] = 0
        BY <1>t, <1>1, <2>1, <2>2 DEF Told, IsOpen
      <3> QED BY <1>t, <1>1, <2>2, <3>1 DEF Told
    <2>3. CASE d # e
      <3>1. fins'[d] = fins[d] /\ closed'[d] = closed[d] /\ cstate'[d] = cstate[d]
        BY <1>t, <1>1, <2>3
      <3> QED BY <2>1, <3>1 DEF Told
    <2> QED BY <2>2, <2>3
  <1> QED BY <1>2 DEF ToldOnce, Told

LEMMA NextTells == IInv /\ ToldOnce /\ [Next]_vars => ToldOnce'
  <1> SUFFICES ASSUME IInv, ToldOnce, [Next]_vars PROVE ToldOnce'
    OBVIOUS
  <1>0. ASSUME UNCHANGED <<cstate, fins, closed>> PROVE ToldOnce'
    BY <1>0 DEF ToldOnce
  <1>1. CASE Connect
    <2>1. /\ Initiator \in End /\ cstate[Initiator] = "none"
          /\ cstate' = [cstate EXCEPT ![Initiator] = "ESTABLISHED"]
          /\ UNCHANGED <<fins, closed>>
      BY <1>1 DEF Connect, appVars, End
    <2> QED BY <2>1, OpenTells
  <1>2. ASSUME NEW e \in End, NEW len \in Lens, Send(e, len) PROVE ToldOnce'
    BY <1>0, <1>2 DEF Send
  <1>3. ASSUME NEW e \in End, Close(e) PROVE ToldOnce'
    BY <1>3, CloseTells
  <1>4. ASSUME NEW e \in End, NEW m \in net, RecvInit(e, m) PROVE ToldOnce'
    BY <1>4, OpenTells DEF RecvInit, appVars
  <1>5. ASSUME NEW e \in End, NEW m \in net, RecvData(e, m) PROVE ToldOnce'
    BY <1>0, <1>5, RecvDataSplits, DeliverTells DEF DataArrives
  <1>6. ASSUME NEW e \in End, NEW m \in net, RecvAck(e, m) PROVE ToldOnce'
    BY <1>0, <1>6 DEF RecvAck, appVars
  <1>7. ASSUME NEW e \in End, NEW m \in net, RecvFin(e, m) PROVE ToldOnce'
    BY <1>7, RecvFinSplits, DeliverTells DEF FinArrives
  <1>8. ASSUME NEW e \in End, Check(e) PROVE ToldOnce'
    BY <1>0, <1>8, FreeTells DEF Check
  <1>9. ASSUME NEW e \in End, LeaveRoom(e) PROVE ToldOnce'
    BY <1>9, FreeTells DEF LeaveRoom
  <1>10. CASE UNCHANGED vars
    BY <1>0, <1>10 DEF vars, appVars
  <1> QED BY <1>1, <1>2, <1>3, <1>4, <1>5, <1>6, <1>7, <1>8, <1>9, <1>10,
             NextActions

\* However a channel ends (ghl_conn_close, the peer's FIN, the timeout, the
\* room left), its application closed it or got one GHL_EV_CONN_FIN.
THEOREM EndIsToldOnce == Spec => []ToldOnce
  <1>1. Init => ToldOnce
    BY DEF Init, ToldOnce
  <1> QED BY Invariance, <1>1, NextTells, PTL DEF Spec
-----------------------------------------------------------------------------
(* What is queued to be sent was transmitted *)

\* A packet of end e that was transmitted.
Transmitted(e, p, msgs) ==
  p.xmit /\ \E m \in msgs : m.type = "DATA" /\ m.to = Peer(e) /\ m.seq1 = p.seq

\* The packets of a queue are old packets, perhaps marked, and the network
\* forgets nothing.
LEMMA OldTransmitted ==
  ASSUME QueuedIsTransmitted, net \subseteq net',
         \A e \in End : \A r \in sendq'[e] :
           Transmitted(e, r, net') \/
             \E p \in sendq[e] : r.seq = p.seq /\ (p.xmit => r.xmit)
  PROVE  QueuedIsTransmitted'
  BY DEF QueuedIsTransmitted, Transmitted

LEMMA SendTransmits ==
  ASSUME IInv, QueuedIsTransmitted, NEW e \in End, NEW len \in Lens, Send(e, len)
  PROVE  QueuedIsTransmitted'
  <1> DEFINE p == [seq |-> snd_next[e], msg |-> sent[e] + 1, len |-> len,
                   xmit |-> InWindow(snd_next[e], snd_una[e]), fast |-> FALSE]
             out == IF p.xmit THEN {Data(Peer(e), p, rcv_next[e])} ELSE {}
  <1>t. /\ sendq \in [End -> SUBSET SendPkt] /\ snd_next[e] \in Nat
        /\ snd_una[e] \in Nat /\ sent[e] \in Nat /\ rcv_next[e] \in Nat
    BY ControlFacts
  <1>1. p.xmit /\ p.seq = snd_next[e] /\ p \in SendPkt
    <2>1. snd_next[e] - snd_una[e] < MaxSendq
      BY DEF Send, MaySend
    <2>2. InWindow(snd_next[e], snd_una[e])
      BY <1>t, <2>1 DEF InWindow
    <2>3. len \in Nat
      BY BoundAssumption
    <2> QED BY <1>t, <2>2, <2>3 DEF SendPkt
  <1>2. sendq' = [sendq EXCEPT ![e] = Insert(@, p)] /\ net' = net \cup out
    BY DEF Send
  <1>3. \E m \in net' : m.type = "DATA" /\ m.to = Peer(e) /\ m.seq1 = p.seq
    <2>1. Data(Peer(e), p, rcv_next[e]) \in net'
      BY <1>1, <1>2
    <2> HIDE DEF p
    <2> QED BY <1>1, <1>t, <2>1, MessageTypes, PeerOfPeer
  <1> HIDE DEF p, out
  <1>4. \A d \in End : \A r \in sendq'[d] :
           Transmitted(d, r, net') \/
             \E x \in sendq[d] : r.seq = x.seq /\ (x.xmit => r.xmit)
    <2> SUFFICES ASSUME NEW d \in End, NEW r \in sendq'[d], r \notin sendq[d]
                 PROVE  Transmitted(d, r, net')
      OBVIOUS
    <2>1. d = e /\ r = p
      BY <1>t, <1>2 DEF Insert
    <2> QED BY <1>1, <1>3, <2>1 DEF Transmitted
  <1>5. net \subseteq net'
    BY <1>2
  <1> QED BY <1>4, <1>5, OldTransmitted

LEMMA RecvAckTransmits ==
  ASSUME IInv, QueuedIsTransmitted, NEW e \in End, NEW m \in net, RecvAck(e, m)
  PROVE  QueuedIsTransmitted'
  <1> DEFINE una     == Upto(snd_una[e], m.seq2)
             removed == RemovedByAck(sendq[e], m.seq1, una)
             first   == {p \in sendq[e] : ~p.xmit /\ InWindow(p.seq, una)}
             kept    == sendq[e] \ removed
             again   == {p \in kept : p.seq < m.seq1 /\ ~p.fast}
             marked  == {[p EXCEPT !.xmit = @ \/ p \in first \cup again,
                                   !.fast = @ \/ p \in again] : p \in kept}
             out     == {Data(Peer(e), p, rcv_next[e]) : p \in first \cup again}
  <1>t. sendq \in [End -> SUBSET SendPkt]
    BY ControlFacts
  <1>1. sendq' = [sendq EXCEPT ![e] = marked] /\ net' = net \cup out
    BY DEF RecvAck
  <1>2. ASSUME NEW r \in marked
        PROVE  \E p \in sendq[e] : r.seq = p.seq /\ (p.xmit => r.xmit)
    <2>1. PICK p \in kept : r = [p EXCEPT !.xmit = @ \/ p \in first \cup again,
                                         !.fast = @ \/ p \in again]
      BY <1>2
    <2>2. p \in sendq[e] /\ p \in SendPkt
      BY <1>t
    <2> DEFINE x == p.xmit \/ p \in first \cup again
               f == p.fast \/ p \in again
    <2>3. r = [p EXCEPT !.xmit = x, !.fast = f]
      BY <2>1
    <2>4. p.xmit => x
      OBVIOUS
    <2> HIDE DEF x, f, una, removed, first, kept, again
    <2>5. r.seq = p.seq /\ r.xmit = x
      BY <2>2, <2>3 DEF SendPkt
    <2> QED BY <2>2, <2>4, <2>5
  <1> HIDE DEF una, removed, first, kept, again, marked, out
  <1>3. \A d \in End : \A r \in sendq'[d] :
           Transmitted(d, r, net') \/
             \E p \in sendq[d] : r.seq = p.seq /\ (p.xmit => r.xmit)
    <2> SUFFICES ASSUME NEW d \in End, NEW r \in sendq'[d]
                 PROVE  \E p \in sendq[d] : r.seq = p.seq /\ (p.xmit => r.xmit)
      OBVIOUS
    <2>1. CASE d = e
      BY <1>t, <1>1, <1>2, <2>1
    <2>2. CASE d # e
      BY <1>t, <1>1, <2>2
    <2> QED BY <2>1, <2>2
  <1>4. net \subseteq net'
    BY <1>1
  <1> QED BY <1>3, <1>4, OldTransmitted

\* Any other step takes packets off the send queues, if it changes them.
LEMMA FewerTransmits ==
  ASSUME QueuedIsTransmitted, net \subseteq net',
         \A e \in End : sendq'[e] \subseteq sendq[e]
  PROVE  QueuedIsTransmitted'
  BY DEF QueuedIsTransmitted

LEMMA NextTransmits ==
  IInv /\ QueuedIsTransmitted /\ [Next]_vars => QueuedIsTransmitted'
  <1> SUFFICES ASSUME IInv, QueuedIsTransmitted, [Next]_vars
               PROVE  QueuedIsTransmitted'
    OBVIOUS
  <1>t. sendq \in [End -> SUBSET SendPkt]
    BY ControlFacts
  <1>0. ASSUME net \subseteq net', UNCHANGED sendq PROVE QueuedIsTransmitted'
    BY <1>0, FewerTransmits
  <1>f. ASSUME NEW e \in End, NEW out, Free(e, out)
        PROVE  QueuedIsTransmitted'
    <2>1. sendq' = [sendq EXCEPT ![e] = {}] /\ net \subseteq net'
      BY <1>f, FreeFacts DEF Departs
    <2> QED BY <2>1, <1>t, FewerTransmits
  <1>a. ASSUME NEW e \in End, NEW p, NEW n, NEW st, NEW out,
               Arrives(e, p, n, st, out)
        PROVE  net \subseteq net'
    BY <1>a, ArrivalState
  <1>1. CASE Connect
    BY <1>0, <1>1 DEF Connect, sndVars
  <1>2. ASSUME NEW e \in End, NEW len \in Lens, Send(e, len)
        PROVE  QueuedIsTransmitted'
    BY <1>2, SendTransmits
  <1>3. ASSUME NEW e \in End, Close(e) PROVE QueuedIsTransmitted'
    BY <1>0, <1>3 DEF Close, sndVars
  <1>4. ASSUME NEW e \in End, NEW m \in net, RecvInit(e, m)
        PROVE  QueuedIsTransmitted'
    BY <1>0, <1>4 DEF RecvInit, sndVars
  <1>5. ASSUME NEW e \in End, NEW m \in net, RecvData(e, m)
        PROVE  QueuedIsTransmitted'
    <2>1. net \subseteq net'
      BY <1>5, <1>a, RecvDataSplits DEF DataArrives
    <2>2. sendq' = [sendq EXCEPT ![e] = @ \ Acked(@, snd_una'[e])]
      BY <1>5 DEF RecvData
    <2> QED BY <1>t, <2>1, <2>2, FewerTransmits
  <1>6. ASSUME NEW e \in End, NEW m \in net, RecvAck(e, m)
        PROVE  QueuedIsTransmitted'
    BY <1>6, RecvAckTransmits
  <1>7. ASSUME NEW e \in End, NEW m \in net, RecvFin(e, m)
        PROVE  QueuedIsTransmitted'
    <2>1. net \subseteq net'
      BY <1>7, <1>a, RecvFinSplits DEF FinArrives
    <2>2. UNCHANGED sendq
      BY <1>7 DEF RecvFin, sndVars
    <2> QED BY <1>0, <2>1, <2>2
  <1>8. ASSUME NEW e \in End, Check(e) PROVE QueuedIsTransmitted'
    <2>1. PICK due \in SUBSET Retransmittable(e) :
            \/ Free(e, {Data(Peer(e), p, rcv_next[e]) : p \in due})
            \/ /\ net' = net \cup {Data(Peer(e), p, rcv_next[e]) : p \in due}
               /\ UNCHANGED sendq
      BY <1>8 DEF Check
    <2>2. CASE UNCHANGED sendq /\ net \subseteq net'
      BY <1>0, <2>2
    <2> QED BY <1>f, <2>1, <2>2
  <1>9. ASSUME NEW e \in End, LeaveRoom(e) PROVE QueuedIsTransmitted'
    BY <1>f, <1>9 DEF LeaveRoom
  <1>10. CASE UNCHANGED vars
    BY <1>0, <1>10 DEF vars, sndVars
  <1> QED BY <1>1, <1>2, <1>3, <1>4, <1>5, <1>6, <1>7, <1>8, <1>9, <1>10,
             NextActions

\* ghl_conn_send accepts no packet that is outside the transmission window,
\* so the retransmission check finds no packet with xmit_ts = 0 to skip,
\* whenever the send queue's limit is at most the window's.
THEOREM NothingWaitsForWindow == Spec => []QueuedIsTransmitted
  <1>1. Init => QueuedIsTransmitted
    BY DEF Init, QueuedIsTransmitted
  <1> QED BY Invariance, <1>1, NextTransmits, PTL DEF Spec

-----------------------------------------------------------------------------
(* What is queued to be read is bounded *)

\* Data is queued less than a window past the limit on undelivered packets.
QueuedNear ==
  \A e \in End : \A p \in recvq[e] :
    /\ p.seq >= rcv_next_deliver[e]
    /\ p.len > 0 =>
         p.seq < rcv_next_deliver[e] + (MaxUndelivered + MaxInTransit - 1)

LEMMA ArrivalNear ==
  ASSUME IInv, QueuedNear, NEW e \in End, NEW p, NEW n, NEW st, NEW out,
         Arrives(e, p, n, st, out),
         p.len > 0 =>
           p.seq < rcv_next_deliver[e] + (MaxUndelivered + MaxInTransit - 1)
  PROVE  QueuedNear'
  <1> DEFINE q == Insert(recvq[e], p)
             room == MaxUndelivered + MaxInTransit - 1
  <1>t. /\ rcv_next_deliver \in [End -> Nat] /\ room \in Nat
        /\ recvq \in [End -> SUBSET RecvPkt] /\ cstate \in [End -> States]
    BY ControlFacts
  <1>1. DeliverPost(e, q, n, st, out) /\ n \in Nat
    BY ArrivalFacts
  <1>2. /\ recvq' = [recvq EXCEPT ![e] = recvq'[e]]
        /\ recvq'[e] \in SUBSET RecvPkt
        /\ rcv_next_deliver' =
             [rcv_next_deliver EXCEPT ![e] = rcv_next_deliver'[e]]
        /\ rcv_next_deliver'[e] \in rcv_next_deliver[e] .. n
        /\ \A r \in recvq'[e] : r.seq >= rcv_next_deliver'[e]
        /\ \A r \in recvq'[e] : \E x \in q :
             r.seq = x.seq /\ (r.len > 0 => x.len > 0)
    BY <1>1 DEF DeliverPost, Contiguous
  <1>3. \A x \in q : x.len > 0 => x.seq < rcv_next_deliver[e] + room
    BY DEF Insert, QueuedNear
  <1>4. ASSUME NEW d \in End, NEW r \in recvq'[d]
        PROVE  /\ r.seq >= rcv_next_deliver'[d]
               /\ r.len > 0 => r.seq < rcv_next_deliver'[d] + room
    <2>1. CASE d = e
      <3>1. r.seq \in Nat
        BY <1>2, <2>1 DEF RecvPkt
      <3>2. r.len > 0 => r.seq < rcv_next_deliver[e] + room
        BY <1>2, <1>3, <1>4, <2>1
      <3> HIDE DEF q, room
      <3>3. /\ rcv_next_deliver[e] \in Nat /\ rcv_next_deliver'[e] \in Nat
            /\ rcv_next_deliver[e] <= rcv_next_deliver'[e]
        BY <1>t, <1>1, <1>2
      <3> QED BY <1>t, <1>2, <1>4, <2>1, <3>1, <3>2, <3>3
    <2>2. CASE d # e
      <3>1. recvq'[d] = recvq[d] /\ rcv_next_deliver'[d] = rcv_next_deliver[d]
        BY <1>t, <1>2, <2>2
      <3> QED BY <1>4, <3>1 DEF QueuedNear
    <2> QED BY <2>1, <2>2
  <1> QED BY <1>4 DEF QueuedNear

LEMMA FewerNear ==
  ASSUME QueuedNear, UNCHANGED rcv_next_deliver,
         \A e \in End : recvq'[e] \subseteq recvq[e]
  PROVE  QueuedNear'
  BY DEF QueuedNear

LEMMA NextNear == IInv /\ QueuedNear /\ [Next]_vars => QueuedNear'
  <1> SUFFICES ASSUME IInv, QueuedNear, [Next]_vars PROVE QueuedNear'
    OBVIOUS
  <1>t. recvq \in [End -> SUBSET RecvPkt]
    BY ControlFacts
  <1>0. ASSUME UNCHANGED <<recvq, rcv_next_deliver>> PROVE QueuedNear'
    BY <1>0, FewerNear
  <1>f. ASSUME NEW e \in End, NEW out, Free(e, out), UNCHANGED rcv_next_deliver
        PROVE  QueuedNear'
    BY <1>f, <1>t, FewerNear DEF Free
  <1>1. CASE Connect
    BY <1>0, <1>1 DEF Connect, rcvVars
  <1>2. ASSUME NEW e \in End, NEW len \in Lens, Send(e, len) PROVE QueuedNear'
    BY <1>0, <1>2 DEF Send, rcvVars
  <1>3. ASSUME NEW e \in End, Close(e) PROVE QueuedNear'
    BY <1>0, <1>3 DEF Close, rcvVars
  <1>4. ASSUME NEW e \in End, NEW m \in net, RecvInit(e, m) PROVE QueuedNear'
    BY <1>0, <1>4 DEF RecvInit, rcvVars
  <1>5. ASSUME NEW e \in End, NEW m \in net, RecvData(e, m) PROVE QueuedNear'
    <2> DEFINE p == [seq |-> m.seq1, msg |-> m.msg, len |-> m.len]
    <2>1. CASE Acceptable(e, m.seq1) /\ DataArrives(e, m)
      <3>1. PICK n : Arrives(e, p, n, cstate[e], {Ack(Peer(e), m.seq1, n)})
        BY <2>1 DEF DataArrives
      <3>2. p.seq < rcv_next_deliver[e] + (MaxUndelivered + MaxInTransit - 1)
        <4>1. /\ rcv_next[e] \in Nat /\ rcv_next_deliver[e] \in Nat
              /\ m.seq1 \in Nat
          BY ControlFacts DEF Message
        <4> QED BY <2>1, <4>1 DEF Acceptable
      <3> HIDE DEF p
      <3> QED BY <3>1, <3>2, ArrivalNear
    <2>2. CASE UNCHANGED <<recvq, rcv_next_deliver>>
      BY <1>0, <2>2
    <2> QED BY <1>5, <2>1, <2>2, RecvDataSplits
  <1>6. ASSUME NEW e \in End, NEW m \in net, RecvAck(e, m) PROVE QueuedNear'
    BY <1>0, <1>6 DEF RecvAck, rcvVars
  <1>7. ASSUME NEW e \in End, NEW m \in net, RecvFin(e, m) PROVE QueuedNear'
    <2> DEFINE p == [seq |-> rcv_next[e], msg |-> 0, len |-> 0]
    <2>1. PICK n : Arrives(e, p, n, "CLOSING_IN", {})
      BY <1>7, RecvFinSplits DEF FinArrives
    <2>2. ~(p.len > 0)
      OBVIOUS
    <2> HIDE DEF p
    <2> QED BY <2>1, <2>2, ArrivalNear
  <1>8. ASSUME NEW e \in End, Check(e) PROVE QueuedNear'
    BY <1>0, <1>f, <1>8 DEF Check
  <1>9. ASSUME NEW e \in End, LeaveRoom(e) PROVE QueuedNear'
    BY <1>f, <1>9 DEF LeaveRoom
  <1>10. CASE UNCHANGED vars
    BY <1>0, <1>10 DEF vars, rcvVars
  <1> QED BY <1>1, <1>2, <1>3, <1>4, <1>5, <1>6, <1>7, <1>8, <1>9, <1>10,
             NextActions

\* Packets with distinct sequence numbers are no more than the numbers.
LEMMA DistinctCount ==
  ASSUME NEW q \in SUBSET RecvPkt, Distinct(q), NEW lo \in Nat, NEW room \in Nat,
         \A p \in q : p.seq >= lo /\ p.seq < lo + room
  PROVE  Cardinality(q) <= room
  <1> DEFINE seq == [p \in q |-> p.seq]
             hi == lo + room - 1
  <1>1. \A p \in q : p.seq \in lo .. hi
    BY DEF RecvPkt
  <1>2. seq \in Injection(q, lo .. hi)
    BY <1>1 DEF Injection, IsInjective, Distinct
  <1>3. IsFiniteSet(lo .. hi) /\ Cardinality(lo .. hi) = room
    BY FS_Interval
  <1>4. IsFiniteSet(q) /\ Cardinality(q) <= Cardinality(lo .. hi)
    BY <1>2, <1>3, FS_Injection
  <1> QED BY <1>3, <1>4

\* An application that does not read costs less than MaxUndelivered +
\* MaxInTransit queued packets, for every limit and window (gp2pp.h).
THEOREM BufferIsBounded == Spec => []BufferBound
  <1>1. Init => QueuedNear
    BY DEF Init, QueuedNear
  <1>2. IInv /\ QueuedNear => BufferBound
    <2> SUFFICES ASSUME IInv, QueuedNear, NEW e \in End
                 PROVE  Cardinality({p \in recvq[e] : p.len > 0})
                          < MaxUndelivered + MaxInTransit
      BY DEF BufferBound
    <2> DEFINE q == {p \in recvq[e] : p.len > 0}
               lo == rcv_next_deliver[e]
               room == MaxUndelivered + MaxInTransit - 1
    <2>1. q \in SUBSET RecvPkt /\ Distinct(q) /\ lo \in Nat /\ room \in Nat
      BY ControlFacts DEF IInv, QueueInv, Distinct
    <2>2. \A p \in q : p.seq >= lo /\ p.seq < lo + room
      BY DEF QueuedNear
    <2> HIDE DEF q, lo, room
    <2>3. Cardinality(q) <= room
      BY <2>1, <2>2, DistinctCount
    <2>4. IsFiniteSet(q)
      <3>1. \A p \in q : p.seq \in Nat
        BY <2>1 DEF RecvPkt
      <3>2. [p \in q |-> p.seq] \in Injection(q, lo .. (lo + room))
        BY <2>1, <2>2, <3>1 DEF Injection, IsInjective, Distinct
      <3> QED BY <2>1, <3>2, FS_Injection, FS_Interval
    <2>5. Cardinality(q) \in Nat
      BY <2>4, FS_CardinalityType
    <2> QED BY <2>3, <2>5 DEF q, room
  <1> QED BY Invariance, <1>1, <1>2, NextNear, PTL DEF Spec
-----------------------------------------------------------------------------
(* The connection implements the stream of ReliableStream *)

\* An INITCONN comes from the initiator, whose channel exists by then.
InitSent ==
  \A m \in net : m.type = "INITCONN" =>
    m.to = Acceptor /\ cstate[Initiator] # "none"

\* The phase of a channel in a given state.
PhaseOf(st) == CASE st = "none" -> "none"
                 [] st \in {"ESTABLISHED", "CLOSING_IN"} -> "open"
                 [] OTHER -> "done"

LEMMA PhaseIs ==
  /\ Phase = [d \in End |-> PhaseOf(cstate[d])]
  /\ \A d \in End : IsOpen(d) => Phase[d] = "open"
  <1>1. ASSUME NEW d \in End
        PROVE  Phase[d] = PhaseOf(cstate[d])
    BY DEF Phase, PhaseOf, IsOpen
  <1>2. \A d \in End : IsOpen(d) => PhaseOf(cstate[d]) = "open"
    BY DEF PhaseOf, IsOpen
  <1>3. Phase = [d \in End |-> Phase[d]]
    BY DEF Phase
  <1> QED BY <1>1, <1>2, <1>3

LEMMA PhaseNext ==
  ASSUME cstate \in [End -> States], NEW e \in End, NEW st,
         cstate' = [cstate EXCEPT ![e] = st]
  PROVE  Phase' = [Phase EXCEPT ![e] = PhaseOf(st)]
  <1>1. Phase' = [d \in End |-> PhaseOf(cstate'[d])]
    <2>1. ASSUME NEW d \in End PROVE Phase'[d] = PhaseOf(cstate'[d])
      BY DEF Phase, PhaseOf, IsOpen
    <2>2. Phase' = [d \in End |-> Phase'[d]]
      BY DEF Phase
    <2> QED BY <2>1, <2>2
  <1>2. Phase = [d \in End |-> PhaseOf(cstate[d])]
    BY PhaseIs
  <1> QED BY <1>1, <1>2

\* The same state, or one with the same meaning for the stream.
LEMMA PhaseSame ==
  ASSUME cstate \in [End -> States], NEW e \in End, NEW st,
         cstate' = [cstate EXCEPT ![e] = st], PhaseOf(st) = PhaseOf(cstate[e])
  PROVE  Phase' = Phase
  <1>1. Phase' = [Phase EXCEPT ![e] = PhaseOf(st)]
    BY PhaseNext
  <1>2. Phase = [d \in End |-> PhaseOf(cstate[d])]
    BY PhaseIs
  <1> QED BY <1>1, <1>2

\* A stream in order is the sequence of its positions.
LEMMA InOrderIs ==
  ASSUME NEW g \in Seq(Nat), NEW k \in Nat, Len(g) = k,
         \A i \in 1 .. k : g[i] = i
  PROVE  g = [i \in 1 .. k |-> i]
  OBVIOUS

LEMMA SidesAreEnds ==
  /\ Stream!Side = End
  /\ \A e \in End : Stream!Opposite(e) = Peer(e)
  BY DEF Stream!Side, End, Stream!Opposite, Peer

StreamStep == Stream!StreamNext \/ UNCHANGED <<Phase, sent, got>>

\* What a delivery hands over is the next part of the stream.
LEMMA ArrivalReads ==
  ASSUME IInv, NEW e \in End, NEW p, NEW n, NEW st, NEW out,
         Arrives(e, p, n, st, out)
  PROVE  StreamStep
  <1>t. /\ cstate \in [End -> States] /\ sent \in [End -> Nat]
        /\ got \in [End -> Seq(Nat)] /\ rcv_next_deliver[e] \in Nat
    BY ControlFacts
  <1>1. /\ cstate' \in {[cstate EXCEPT ![e] = st],
                       [cstate EXCEPT ![e] = "CLOSING_OUT"]}
        /\ st \in {"ESTABLISHED", "CLOSING_IN"}
        /\ IsOpen(e) /\ n \in Nat
    BY ArrivalState
  <1>2. PICK k \in rcv_next_deliver[e] .. n :
           /\ got' = [got EXCEPT ![e] = got'[e]]
           /\ got'[e] \in Seq(Nat)
           /\ Len(got'[e]) = k
           /\ k <= sent[Peer(e)]
           /\ \A i \in 1 .. k : got'[e][i] = i
    BY ArrivalGot
  <1>3. Len(got[e]) = rcv_next_deliver[e]
    BY <1>1 DEF IInv, StreamInv, GotUpTo, IsOpen
  <1>4. k \in Nat /\ sent[Peer(e)] \in Nat
    BY <1>t, <1>1, <1>2, PeerOfPeer
  <1>5. k \in Len(got[e]) .. sent[Stream!Opposite(e)]
    BY <1>t, <1>2, <1>3, <1>4, SidesAreEnds
  <1>6. got'[e] = [i \in 1 .. k |-> i]
    BY <1>2, <1>4, InOrderIs
  <1>7. got' = [got EXCEPT ![e] = [i \in 1 .. k |-> i]]
    BY <1>2, <1>6
  <1>8. UNCHANGED Phase \/ Phase' = [Phase EXCEPT ![e] = "done"]
    <2>1. CASE cstate' = [cstate EXCEPT ![e] = st]
      <3>1. PhaseOf(st) = PhaseOf(cstate[e])
        BY <1>1 DEF PhaseOf, IsOpen
      <3> QED BY <1>t, <2>1, <3>1, PhaseSame
    <2>2. CASE cstate' = [cstate EXCEPT ![e] = "CLOSING_OUT"]
      <3>1. PhaseOf("CLOSING_OUT") = "done"
        BY DEF PhaseOf
      <3>2. Phase' = [Phase EXCEPT ![e] = PhaseOf("CLOSING_OUT")]
        BY <1>t, <2>2, PhaseNext
      <3> QED BY <3>1, <3>2
    <2> QED BY <1>1, <2>1, <2>2
  <1>9. Phase[e] = "open" /\ UNCHANGED sent
    BY <1>1, PhaseIs DEF Arrives
  <1>10. Stream!Read(e)
    BY <1>5, <1>7, <1>8, <1>9 DEF Stream!Read
  <1> QED BY <1>10, SidesAreEnds DEF StreamStep, Stream!StreamNext

\* A channel that is freed, or closed, while it was open finishes the stream,
\* and its application may have written in the callback that told it so.
LEMMA EndFinishes ==
  ASSUME IInv, NEW e \in End, InTable(e), NEW st \in {"CLOSING_OUT", "freed"},
         cstate' = [cstate EXCEPT ![e] = st], UNCHANGED got,
         NEW n \in Nat, sent' = [sent EXCEPT ![e] = @ + n],
         n > 0 => IsOpen(e)
  PROVE  StreamStep
  <1>t. cstate \in [End -> States] /\ sent \in [End -> Nat]
    BY ControlFacts
  <1>1. PhaseOf(st) = "done"
    BY DEF PhaseOf
  <1>2. CASE IsOpen(e)
    <2>0. Phase' = [Phase EXCEPT ![e] = PhaseOf(st)]
      BY <1>t, PhaseNext
    <2>1. Phase[e] = "open" /\ Phase' = [Phase EXCEPT ![e] = "done"]
      BY <1>1, <1>2, <2>0, PhaseIs
    <2>2. sent'[e] = sent[e] + n /\ sent[e] \in Nat
      BY <1>t
    <2>3. sent' = [sent EXCEPT ![e] = sent'[e]]
      BY <1>t
    <2>5. sent'[e] \in Nat /\ sent'[e] >= sent[e]
      BY <2>2
    <2>4. Stream!Finish(e)
      BY <2>1, <2>3, <2>5 DEF Stream!Finish
    <2> QED BY <2>4, SidesAreEnds DEF StreamStep, Stream!StreamNext
  <1>3. CASE ~IsOpen(e)
    <2>1. PhaseOf(cstate[e]) = "done"
      BY <1>3 DEF PhaseOf, IsOpen, InTable
    <2>2. Phase' = Phase
      BY <1>t, <1>1, <2>1, PhaseSame
    <2>3. UNCHANGED sent
      BY <1>t, <1>3
    <2> QED BY <2>2, <2>3 DEF StreamStep
  <1> QED BY <1>2, <1>3

\* conn_free ends the stream.
LEMMA FreeFinishes ==
  ASSUME IInv, NEW e \in End, NEW out, InTable(e), Free(e, out), UNCHANGED got
  PROVE  StreamStep
  <1>t. sent \in [End -> Nat]
    BY ControlFacts
  <1>1. cstate' = [cstate EXCEPT ![e] = "freed"]
    BY DEF Free
  <1>2. CASE IsOpen(e)
    <2>1. PICK n \in Nat : sent' = [sent EXCEPT ![e] = @ + n]
      BY FreeFacts DEF Departs
    <2> QED BY <1>1, <1>2, <2>1, EndFinishes
  <1>3. CASE ~IsOpen(e)
    <2>1. sent' = [sent EXCEPT ![e] = @ + 0]
      BY <1>t, <1>3 DEF Free
    <2>2. 0 \in Nat /\ ~(0 > 0)
      OBVIOUS
    <2> QED BY <1>1, <2>1, <2>2, EndFinishes
  <1> QED BY <1>2, <1>3

\* A channel appears at an end.
LEMMA OpenOpens ==
  ASSUME IInv, NEW e \in End, cstate[e] = "none",
         cstate' = [cstate EXCEPT ![e] = "ESTABLISHED"],
         e = Acceptor => cstate[Initiator] # "none",
         UNCHANGED <<sent, got>>
  PROVE  StreamStep
  <1>t. cstate \in [End -> States] /\ Initiator \in End
    BY ControlFacts DEF End
  <1>1. /\ Phase[e] = "none" /\ PhaseOf("ESTABLISHED") = "open"
        /\ e = Acceptor => Phase[Initiator] # "none"
    BY <1>t, PhaseIs DEF PhaseOf
  <1>2. Phase' = [Phase EXCEPT ![e] = "open"]
    BY <1>t, <1>1, PhaseNext
  <1>3. Stream!Open(e)
    BY <1>1, <1>2 DEF Stream!Open
  <1> QED BY <1>3, SidesAreEnds DEF StreamStep, Stream!StreamNext

LEMMA NothingChanges ==
  ASSUME UNCHANGED <<cstate, sent, got>>
  PROVE  StreamStep
  BY DEF StreamStep, Phase, IsOpen

\* Every step of the connection is a step of the stream, or none.
LEMMA NextImplements == IInv /\ InitSent /\ [Next]_vars => StreamStep
  <1> SUFFICES ASSUME IInv, InitSent, [Next]_vars PROVE StreamStep
    OBVIOUS
  <1>1. CASE Connect
    <2>1. /\ Initiator \in End /\ cstate[Initiator] = "none"
          /\ cstate' = [cstate EXCEPT ![Initiator] = "ESTABLISHED"]
          /\ Initiator # Acceptor
          /\ UNCHANGED <<sent, got>>
      BY <1>1 DEF Connect, appVars, End
    <2> QED BY <2>1, OpenOpens
  <1>2. ASSUME NEW e \in End, NEW len \in Lens, Send(e, len) PROVE StreamStep
    <2>1. /\ IsOpen(e) /\ UNCHANGED <<cstate, got>>
          /\ sent' = [sent EXCEPT ![e] = @ + 1]
      BY <1>2 DEF Send, MaySend
    <2>2. Phase[e] = "open" /\ Phase' = Phase
      BY <2>1, PhaseIs DEF Phase, IsOpen
    <2>3. Stream!Write(e)
      BY <2>1, <2>2 DEF Stream!Write
    <2> QED BY <2>3, SidesAreEnds DEF StreamStep, Stream!StreamNext
  <1>3. ASSUME NEW e \in End, Close(e) PROVE StreamStep
    <2>1. /\ InTable(e) /\ cstate' = [cstate EXCEPT ![e] = "CLOSING_OUT"]
          /\ UNCHANGED <<sent, got>>
      BY <1>3 DEF Close, IsOpen, InTable
    <2>2. sent' = [sent EXCEPT ![e] = @ + 0] /\ 0 \in Nat /\ ~(0 > 0)
      BY <2>1, ControlFacts
    <2> QED BY <2>1, <2>2, EndFinishes
  <1>4. ASSUME NEW e \in End, NEW m \in net, RecvInit(e, m) PROVE StreamStep
    <2>1. /\ m.type = "INITCONN" /\ m.to = e /\ cstate[e] = "none"
          /\ cstate' = [cstate EXCEPT ![e] = "ESTABLISHED"]
          /\ UNCHANGED <<sent, got>>
      BY <1>4 DEF RecvInit, appVars
    <2>2. cstate[Initiator] # "none"
      BY <2>1 DEF InitSent
    <2> QED BY <2>1, <2>2, OpenOpens
  <1>5. ASSUME NEW e \in End, NEW m \in net, RecvData(e, m) PROVE StreamStep
    <2>1. CASE DataArrives(e, m)
      BY <2>1, ArrivalReads DEF DataArrives
    <2>2. CASE UNCHANGED <<cstate, got>>
      BY <1>5, <2>2, NothingChanges DEF RecvData
    <2> QED BY <1>5, <2>1, <2>2, RecvDataSplits
  <1>6. ASSUME NEW e \in End, NEW m \in net, RecvAck(e, m) PROVE StreamStep
    BY <1>6, NothingChanges DEF RecvAck, appVars
  <1>7. ASSUME NEW e \in End, NEW m \in net, RecvFin(e, m) PROVE StreamStep
    BY <1>7, RecvFinSplits, ArrivalReads DEF FinArrives
  <1>8. ASSUME NEW e \in End, Check(e) PROVE StreamStep
    <2>1. InTable(e) /\ UNCHANGED got
      BY <1>8 DEF Check
    <2>2. ASSUME NEW out, Free(e, out) PROVE StreamStep
      BY <2>1, <2>2, FreeFinishes
    <2>3. CASE UNCHANGED <<cstate, sent>>
      BY <2>1, <2>3, NothingChanges
    <2> QED BY <1>8, <2>2, <2>3 DEF Check
  <1>9. ASSUME NEW e \in End, LeaveRoom(e) PROVE StreamStep
    BY <1>9, FreeFinishes DEF LeaveRoom
  <1>10. CASE UNCHANGED vars
    BY <1>10, NothingChanges DEF vars, appVars
  <1> QED BY <1>1, <1>2, <1>3, <1>4, <1>5, <1>6, <1>7, <1>8, <1>9, <1>10,
             NextActions

\* A step that sends no INITCONN keeps InitSent: no channel goes back to
\* not being there.
LEMMA InitSentKept ==
  ASSUME InitSent, NEW out, net' = net \cup out,
         \A m \in out : m.type # "INITCONN",
         cstate[Initiator] # "none" => cstate'[Initiator] # "none"
  PROVE  InitSent'
  BY DEF InitSent

LEMMA NextInitSent == IInv /\ InitSent /\ [Next]_vars => InitSent'
  <1> SUFFICES ASSUME IInv, InitSent, [Next]_vars PROVE InitSent'
    OBVIOUS
  <1>t. /\ cstate \in [End -> States] /\ Initiator \in End
        /\ rcv_next \in [End -> Nat] /\ sendq \in [End -> SUBSET SendPkt]
    BY ControlFacts DEF End
  <1>c. ASSUME NEW e \in End, NEW st \in States \ {"none"},
               cstate' = [cstate EXCEPT ![e] = st]
        PROVE  cstate[Initiator] # "none" => cstate'[Initiator] # "none"
    BY <1>t, <1>c
  <1>0. ASSUME UNCHANGED <<cstate, net>> PROVE InitSent'
    BY <1>0 DEF InitSent
  <1>a. ASSUME NEW e \in End, NEW p, NEW n, NEW st, NEW out,
               Arrives(e, p, n, st, out), \A m \in out : m.type # "INITCONN"
        PROVE  InitSent'
    <2>1. /\ cstate' \in {[cstate EXCEPT ![e] = st],
                         [cstate EXCEPT ![e] = "CLOSING_OUT"]}
          /\ st \in {"ESTABLISHED", "CLOSING_IN"} /\ n \in Nat
          /\ net' = net \cup out \/ net' = net \cup out \cup {Fin(Peer(e), n)}
      BY <1>a, ArrivalState
    <2>2. cstate[Initiator] # "none" => cstate'[Initiator] # "none"
      BY <1>c, <2>1 DEF States
    <2>3. Fin(Peer(e), n).type # "INITCONN"
      BY <2>1, PeerOfPeer, MessageTypes
    <2> QED BY <1>a, <2>1, <2>2, <2>3 DEF InitSent
  <1>d. ASSUME NEW e \in End, NEW due \in SUBSET sendq[e],
               net' = net \cup {Data(Peer(e), p, rcv_next[e]) : p \in due},
               cstate[Initiator] # "none" => cstate'[Initiator] # "none"
        PROVE  InitSent'
    <2> DEFINE out == {Data(Peer(e), p, rcv_next[e]) : p \in due}
    <2>1. ASSUME NEW m \in out PROVE m.type # "INITCONN"
      BY <1>t, PeerOfPeer, MessageTypes
    <2>2. net' = net \cup out
      BY <1>d
    <2> HIDE DEF out
    <2> QED BY <1>d, <2>1, <2>2, InitSentKept
  <1>1. CASE Connect
    <2>1. /\ net' = net \cup {Init_(Acceptor)}
          /\ cstate' = [cstate EXCEPT ![Initiator] = "ESTABLISHED"]
      BY <1>1 DEF Connect
    <2>2. Init_(Acceptor).to = Acceptor /\ cstate'[Initiator] # "none"
      BY <1>t, <2>1 DEF Init_
    <2> QED BY <2>1, <2>2 DEF InitSent
  <1>2. ASSUME NEW e \in End, NEW len \in Lens, Send(e, len) PROVE InitSent'
    <2> DEFINE p == [seq |-> snd_next[e], msg |-> sent[e] + 1, len |-> len,
                     xmit |-> InWindow(snd_next[e], snd_una[e]), fast |-> FALSE]
               out == IF p.xmit THEN {Data(Peer(e), p, rcv_next[e])} ELSE {}
    <2>1. net' = net \cup out /\ UNCHANGED cstate
      BY <1>2 DEF Send
    <2>2. \A m \in out : m.type # "INITCONN"
      BY DEF Data
    <2> HIDE DEF out
    <2> QED BY <2>1, <2>2, InitSentKept
  <1>3. ASSUME NEW e \in End, Close(e) PROVE InitSent'
    <2> DEFINE out == {Fin(Peer(e), rcv_next[e])}
    <2>1. net' = net \cup out /\ cstate' = [cstate EXCEPT ![e] = "CLOSING_OUT"]
      BY <1>3 DEF Close
    <2>2. \A m \in out : m.type # "INITCONN"
      BY DEF Fin
    <2> HIDE DEF out
    <2>3. cstate[Initiator] # "none" => cstate'[Initiator] # "none"
      BY <1>c, <2>1 DEF States
    <2> QED BY <2>1, <2>2, <2>3, InitSentKept
  <1>4. ASSUME NEW e \in End, NEW m \in net, RecvInit(e, m) PROVE InitSent'
    <2>1. UNCHANGED net /\ cstate' = [cstate EXCEPT ![e] = "ESTABLISHED"]
      BY <1>4 DEF RecvInit
    <2>2. cstate[Initiator] # "none" => cstate'[Initiator] # "none"
      BY <1>c, <2>1 DEF States
    <2> QED BY <2>1, <2>2 DEF InitSent
  <1>5. ASSUME NEW e \in End, NEW m \in net, RecvData(e, m) PROVE InitSent'
    <2>1. CASE DataArrives(e, m)
      <3>1. PICK n : Arrives(e, [seq |-> m.seq1, msg |-> m.msg, len |-> m.len],
                             n, cstate[e], {Ack(Peer(e), m.seq1, n)})
        BY <2>1 DEF DataArrives
      <3>2. \A x \in {Ack(Peer(e), m.seq1, n)} : x.type # "INITCONN"
        BY DEF Ack
      <3> QED BY <1>a, <3>1, <3>2
    <2>2. CASE UNCHANGED <<cstate, net>>
      BY <1>0, <2>2
    <2> QED BY <1>5, <2>1, <2>2, RecvDataSplits
  <1>6. ASSUME NEW e \in End, NEW m \in net, RecvAck(e, m) PROVE InitSent'
    <2> DEFINE una     == Upto(snd_una[e], m.seq2)
               removed == RemovedByAck(sendq[e], m.seq1, una)
               first   == {p \in sendq[e] : ~p.xmit /\ InWindow(p.seq, una)}
               kept    == sendq[e] \ removed
               again   == {p \in kept : p.seq < m.seq1 /\ ~p.fast}
               due     == first \cup again
    <2>1. net' = net \cup {Data(Peer(e), p, rcv_next[e]) : p \in due}
      BY <1>6 DEF RecvAck
    <2>2. due \in SUBSET sendq[e] /\ UNCHANGED cstate
      BY <1>6 DEF RecvAck
    <2> HIDE DEF due
    <2> QED BY <1>d, <2>1, <2>2
  <1>7. ASSUME NEW e \in End, NEW m \in net, RecvFin(e, m) PROVE InitSent'
    <2>1. PICK n : Arrives(e, [seq |-> rcv_next[e], msg |-> 0, len |-> 0], n,
                           "CLOSING_IN", {})
      BY <1>7, RecvFinSplits DEF FinArrives
    <2>2. \A x \in {} : x.type # "INITCONN"
      OBVIOUS
    <2> QED BY <1>a, <2>1, <2>2
  <1>f. ASSUME NEW e \in End, NEW due \in SUBSET sendq[e],
               Free(e, {Data(Peer(e), p, rcv_next[e]) : p \in due})
        PROVE  InitSent'
    <2> DEFINE out == {Data(Peer(e), p, rcv_next[e]) : p \in due}
    <2>1. Departs(e, out)
      BY <1>f, FreeFacts
    <2>2. ASSUME NEW m \in out PROVE m.type # "INITCONN"
      BY <1>t, PeerOfPeer, MessageTypes
    <2> HIDE DEF out
    <2>3. PICK more : net' = net \cup out \cup more /\ \A m \in more : Word(e, m)
      BY <2>1 DEF Departs
    <2> DEFINE words == out \cup more
    <2>4. net' = net \cup words
      BY <2>3
    <2>5. \A m \in words : m.type # "INITCONN"
      BY <2>2, <2>3 DEF Word
    <2> HIDE DEF words
    <2>6. cstate[Initiator] # "none" => cstate'[Initiator] # "none"
      BY <1>c, <2>1 DEF States, Departs
    <2> QED BY <2>4, <2>5, <2>6, InitSentKept
  <1>8. ASSUME NEW e \in End, Check(e) PROVE InitSent'
    <2>1. PICK due \in SUBSET Retransmittable(e) :
            \/ Free(e, {Data(Peer(e), p, rcv_next[e]) : p \in due})
            \/ /\ net' = net \cup {Data(Peer(e), p, rcv_next[e]) : p \in due}
               /\ UNCHANGED cstate
      BY <1>8 DEF Check
    <2>2. due \in SUBSET sendq[e]
      BY DEF Retransmittable
    <2> QED BY <1>d, <1>f, <2>1, <2>2
  <1>9. ASSUME NEW e \in End, LeaveRoom(e) PROVE InitSent'
    <2>1. Free(e, {}) /\ {} \in SUBSET sendq[e]
      BY <1>9 DEF LeaveRoom
    <2>2. {Data(Peer(e), p, rcv_next[e]) : p \in {}} = {}
      OBVIOUS
    <2> QED BY <1>f, <2>1, <2>2
  <1>10. CASE UNCHANGED vars
    BY <1>0, <1>10 DEF vars
  <1> QED BY <1>1, <1>2, <1>3, <1>4, <1>5, <1>6, <1>7, <1>8, <1>9, <1>10,
             NextActions

\* Over a network that loses, repeats and reorders, the two channels behave
\* as the stream of ReliableStream does, step by step.
THEOREM ConnectionIsStream == Spec => ImplementsStream
  <1>1. Init => InitSent
    BY DEF Init, InitSent
  <1>2. Init => Stream!StreamInit
    <2> SUFFICES ASSUME Init PROVE Stream!StreamInit
      OBVIOUS
    <2>1. Phase = [e \in End |-> "none"]
      BY PhaseIs DEF Init, PhaseOf
    <2> QED BY <2>1, SidesAreEnds DEF Init, Stream!StreamInit
  <1>3. StreamStep => [Stream!StreamNext]_(Stream!streamVars)
    BY DEF StreamStep, Stream!streamVars
  <1> QED BY Invariance, NextInitSent, NextImplements, <1>1, <1>2, <1>3, PTL
          DEF Spec, ImplementsStream, Stream!StreamSpec
=============================================================================
