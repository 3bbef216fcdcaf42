------------------------------- MODULE VConn -------------------------------
(***************************************************************************)
(* One virtual connection ("virtual TCP" over UDP) of libgarena: the two   *)
(* channel structures (struct ghl_ch_s), one at each peer, the CONN_DATA,  *)
(* CONN_ACK and CONN_FIN messages between them, the API calls of the two   *)
(* applications, and the periodic retransmission check.                    *)
(*                                                                         *)
(* The library is single-threaded and event-driven, so one action is one   *)
(* API call or one whole message/timer handler, the callbacks it makes     *)
(* into the application included.                                          *)
(*                                                                         *)
(* UDP loses, duplicates and reorders.  `net' is the set of the messages   *)
(* ever sent: a message may be received any number of times, at any later  *)
(* moment, or never.                                                       *)
(*                                                                         *)
(* Time.  Each end measures time in retransmission checks                  *)
(* (GP2PP_CONN_RETRANS_CHECK): idle[e] is the number of checks since       *)
(* ch->ts_ack was set.  Whether the retransmission timer of a packet has   *)
(* expired at a check is left open, because the round-trip estimate and    *)
(* its exponential backoff are not part of this module.                    *)
(*                                                                         *)
(* The connection table (two channels under one connection ID, a           *)
(* duplicated INITCONN) is not part of this module either: the acceptor    *)
(* handles INITCONN once.                                                  *)
(***************************************************************************)
EXTENDS Integers, Sequences, FiniteSets

CONSTANTS
  Initiator, Acceptor,  \* the two peers
  MaxSendq,             \* GP2PP_MAX_SENDQ
  MaxInTransit,         \* GP2PP_MAX_IN_TRANSIT
  MaxUndelivered,       \* GP2PP_MAX_UNDELIVERED
  ConnTimeout,          \* GP2PP_CONN_TIMEOUT, in retransmission checks
  Lens,                 \* the payload lengths the applications send
  MaxMsgs,              \* bound: messages the application at each end sends
  MaxRefusals           \* bound: times an application leaves data unread

End == {Initiator, Acceptor}

Peer(e) == IF e = Initiator THEN Acceptor ELSE Initiator

\* gp2pp.h: the send queue limit and the transmission window are both 65536,
\* so a packet accepted by ghl_conn_send is always inside the window.
ASSUME EndAssumption == Initiator # Acceptor
ASSUME WindowAssumption ==
  /\ MaxSendq \in Nat \ {0}
  /\ MaxInTransit \in Nat
  /\ MaxSendq <= MaxInTransit
  /\ MaxUndelivered \in Nat \ {0}
ASSUME TimeoutAssumption == ConnTimeout \in Nat
ASSUME BoundAssumption ==
  /\ Lens \subseteq Nat
  /\ MaxMsgs \in [End -> Nat]
  /\ MaxRefusals \in Nat

VARIABLES
  cstate,            \* ch->cstate; "none" and "freed": no channel structure
  snd_una,           \* ch->snd_una
  snd_next,          \* ch->snd_next
  rcv_next,          \* ch->rcv_next
  rcv_next_deliver,  \* ch->rcv_next_deliver
  finseq,            \* ch->finseq
  sendq,             \* ch->sendq, as a set of packets with distinct seq
  recvq,             \* ch->recvq, as a set of packets with distinct seq
  idle,              \* checks since ch->ts_ack was set, up to ConnTimeout + 1
  net,               \* every GP2PP message sent so far
  sent,              \* history: number of messages sent by the application
  got,               \* history: messages handed to the application
  fins,              \* history: GHL_EV_CONN_FIN events signalled
  closed,            \* history: ghl_conn_close called before GHL_EV_CONN_FIN
  refusals           \* history: callbacks that left data unread

sndVars == <<snd_una, snd_next, sendq>>
rcvVars == <<rcv_next, rcv_next_deliver, recvq, finseq>>
appVars == <<sent, got, fins, closed, refusals>>
vars == <<cstate, sndVars, rcvVars, idle, net, appVars>>

-----------------------------------------------------------------------------
(* Packets, messages and queues *)

\* ghl_ch_pkt_t in a send queue.  msg stands for the payload: the number of
\* the ghl_conn_send call that produced it.  xmit is xmit_ts != 0, fast is
\* did_fast_retrans.
SendPkt == [seq : Nat, msg : Nat, len : Nat, xmit : BOOLEAN, fast : BOOLEAN]

\* ghl_ch_pkt_t in a receive queue; len = 0 marks the place of a FIN.
RecvPkt == [seq : Nat, msg : Nat, len : Nat]

Message ==
  [type : {"INITCONN", "DATA", "ACK", "FIN"}, to : End,
   seq1 : Nat, seq2 : Nat, msg : Nat, len : Nat]

Init_(e) ==
  [type |-> "INITCONN", to |-> e, seq1 |-> 0, seq2 |-> 0, msg |-> 0, len |-> 0]

\* Mutant: the acknowledgement number follows the packet just received.
AckOfLast(e, seq, next) ==
  [type |-> "ACK", to |-> e, seq1 |-> seq, seq2 |-> seq + 1, msg |-> 0,
   len |-> 0]

Ack(e, seq, next) ==
  [type |-> "ACK", to |-> e, seq1 |-> seq, seq2 |-> next, msg |-> 0, len |-> 0]

\* Mutant: the FIN names the last packet received instead of the next one.
FinOfLast(e, next) ==
  [type |-> "FIN", to |-> e, seq1 |-> next - 1, seq2 |-> next - 1, msg |-> 0,
   len |-> 0]

\* The FIN carries the closer's rcv_next in both fields.
Fin(e, next) ==
  [type |-> "FIN", to |-> e, seq1 |-> next, seq2 |-> next, msg |-> 0, len |-> 0]

\* xmit_packet: a DATA message carries its own sequence number and the
\* sender's rcv_next.
Data(e, p, next) ==
  [type |-> "DATA", to |-> e, seq1 |-> p.seq, seq2 |-> next,
   msg |-> p.msg, len |-> p.len]

Seqs(q) == {p.seq : p \in q}

\* insert_pkt: a packet whose sequence number is already queued is dropped.
Insert(q, p) == IF p.seq \in Seqs(q) THEN q ELSE q \cup {p}

\* update_next: the first sequence number from `next' on that is not queued.
FirstMissing(q, next) ==
  {n \in next .. (next + MaxInTransit) :
     /\ n \notin Seqs(q)
     /\ \A s \in next .. (n - 1) : s \in Seqs(q)}

Upto(x, y) == IF x < y THEN y ELSE x

InTable(e) == cstate[e] \in {"ESTABLISHED", "CLOSING_IN", "CLOSING_OUT"}

\* The application may still use the channel.
IsOpen(e) == cstate[e] \in {"ESTABLISHED", "CLOSING_IN"}

\* Mutant: the transmission window is one packet shorter.
InShortWindow(seq, una) == seq - una < MaxInTransit - 1

InWindow(seq, una) == seq - una < MaxInTransit

\* Mutant: data is accepted on any channel that still exists.
MaySendWhenClosing(e) ==
  InTable(e) /\ snd_next[e] - snd_una[e] < MaxSendq

\* ghl_conn_send fails on a channel that is CLOSING_OUT or whose send queue
\* is full; a channel that is CLOSING_IN still accepts data.
MaySend(e) == IsOpen(e) /\ snd_next[e] - snd_una[e] < MaxSendq

-----------------------------------------------------------------------------
Init ==
  /\ cstate = [e \in End |-> "none"]
  /\ snd_una = [e \in End |-> 0]
  /\ snd_next = [e \in End |-> 0]
  /\ rcv_next = [e \in End |-> 0]
  /\ rcv_next_deliver = [e \in End |-> 0]
  /\ finseq = [e \in End |-> 0]
  /\ sendq = [e \in End |-> {}]
  /\ recvq = [e \in End |-> {}]
  /\ idle = [e \in End |-> 0]
  /\ net = {}
  /\ sent = [e \in End |-> 0]
  /\ got = [e \in End |-> << >>]
  /\ fins = [e \in End |-> 0]
  /\ closed = [e \in End |-> FALSE]
  /\ refusals = [e \in End |-> 0]

-----------------------------------------------------------------------------
(* API calls *)

\* ghl_conn_connect: the initiator's channel is established at once; the
\* INITCONN message is sent once and never confirmed.
Connect ==
  /\ cstate[Initiator] = "none"
  /\ cstate' = [cstate EXCEPT ![Initiator] = "ESTABLISHED"]
  /\ idle' = [idle EXCEPT ![Initiator] = 0]
  /\ net' = net \cup {Init_(Acceptor)}
  /\ UNCHANGED <<sndVars, rcvVars, appVars>>

\* ghl_conn_send.  The acknowledgement clock restarts only when the queue was
\* not empty.
Send(e, len) ==
  LET p == [seq |-> snd_next[e], msg |-> sent[e] + 1, len |-> len,
            xmit |-> InWindow(snd_next[e], snd_una[e]), fast |-> FALSE]
  IN
  /\ MaySend(e)
  /\ sent[e] < MaxMsgs[e]
  /\ snd_next' = [snd_next EXCEPT ![e] = @ + 1]
  /\ sent' = [sent EXCEPT ![e] = @ + 1]
  /\ idle' = IF sendq[e] = {} THEN idle ELSE [idle EXCEPT ![e] = 0]
  /\ sendq' = [sendq EXCEPT ![e] = Insert(@, p)]
  /\ net' = IF p.xmit THEN net \cup {Data(Peer(e), p, rcv_next[e])} ELSE net
  /\ UNCHANGED <<cstate, snd_una, rcvVars, got, fins, closed, refusals>>

\* ghl_conn_close: four FINs at once (one element of net: any number of them
\* may be received), then the channel waits for its send queue to empty.
Close(e) ==
  /\ IsOpen(e)
  /\ cstate' = [cstate EXCEPT ![e] = "CLOSING_OUT"]
  /\ closed' = [closed EXCEPT ![e] = TRUE]
  /\ net' = net \cup {Fin(Peer(e), rcv_next[e])}
  /\ UNCHANGED <<sndVars, rcvVars, idle, sent, got, fins, refusals>>

-----------------------------------------------------------------------------
(* Delivery to the application *)

\* Mutant: the queue is read from its newest packet.
PayloadsReversed(q, lo, hi) ==
  [i \in 1 .. (hi - lo) |-> (CHOOSE p \in q : p.seq = hi - i).msg]

\* The payloads queued from sequence number lo up to hi - 1, in order.
Payloads(q, lo, hi) ==
  [i \in 1 .. (hi - lo) |-> (CHOOSE p \in q : p.seq = lo + i - 1).msg]

\* The loop of try_deliver has consumed every packet before n.
Consumed(e, q, n) ==
  /\ rcv_next_deliver' = [rcv_next_deliver EXCEPT ![e] = n]
  /\ recvq' = [recvq EXCEPT ![e] = {p \in q : p.seq >= n}]

\* The application takes every packet.
TakesAll(e, q, n, st, out) ==
  /\ Consumed(e, q, n)
  /\ cstate' = [cstate EXCEPT ![e] = st]
  /\ net' = net \cup out
  /\ UNCHANGED <<fins, closed, refusals>>

\* The application leaves `left' units of packet `stop' unread: the packet
\* stays at the head of the queue, shortened, and the loop ends.
LeavesRest(e, q, stop, st, out) ==
  /\ refusals[e] < MaxRefusals
  /\ rcv_next_deliver' = [rcv_next_deliver EXCEPT ![e] = stop]
  /\ \E p \in q : \E left \in 1 .. p.len :
       /\ p.seq = stop
       /\ recvq' = [recvq EXCEPT ![e] =
            {r \in q : r.seq > stop} \cup {[p EXCEPT !.len = left]}]
  /\ cstate' = [cstate EXCEPT ![e] = st]
  /\ net' = net \cup out
  /\ refusals' = [refusals EXCEPT ![e] = @ + 1]
  /\ UNCHANGED <<fins, closed>>

\* Packet `stop' is a FIN: the application is told, and the packets behind
\* the FIN are discarded.
MeetsFin(e, q, n, stop, out) ==
  /\ \E p \in q : p.seq = stop /\ p.len = 0
  /\ Consumed(e, q, n)
  /\ cstate' = [cstate EXCEPT ![e] = "CLOSING_OUT"]
  /\ fins' = [fins EXCEPT ![e] = @ + 1]
  /\ net' = net \cup out
  /\ UNCHANGED <<closed, refusals>>

\* The application calls ghl_conn_close in the callback for packet stop - 1,
\* which it takes: the packets behind it are discarded, a FIN too.
ClosesInCallback(e, q, n, out) ==
  /\ Consumed(e, q, n)
  /\ cstate' = [cstate EXCEPT ![e] = "CLOSING_OUT"]
  /\ closed' = [closed EXCEPT ![e] = TRUE]
  /\ net' = net \cup out \cup {Fin(Peer(e), n)}
  /\ UNCHANGED <<fins, refusals>>

\* Mutant: the loop ends after one packet.
TryDeliverOne(e, q, n, st, out) ==
  \E stop \in {n, rcv_next_deliver[e] + 1} :
    /\ stop <= n /\ stop <= rcv_next_deliver[e] + 1
    /\ got' = [got EXCEPT ![e] =
                 @ \o Payloads(q, rcv_next_deliver[e], stop)]
    /\ TakesAll(e, q, stop, st, out)

\* try_deliver when the queue is q, the next expected sequence number n and
\* the state st, after the handler has sent `out': the packets before n are
\* offered in order, and the application takes those before `stop' whole.
TryDeliver(e, q, n, st, out) ==
  \E stop \in rcv_next_deliver[e] .. n :
    /\ \A p \in q :
         p.seq \in rcv_next_deliver[e] .. (stop - 1) => p.len > 0
    /\ got' = [got EXCEPT ![e] =
                 @ \o Payloads(q, rcv_next_deliver[e], stop)]
    /\ \/ stop = n /\ TakesAll(e, q, n, st, out)
       \/ stop < n /\ LeavesRest(e, q, stop, st, out)
       \/ stop < n /\ MeetsFin(e, q, n, stop, out)
       \/ /\ rcv_next_deliver[e] < stop /\ stop < n
          /\ ClosesInCallback(e, q, n, out)

-----------------------------------------------------------------------------
(* Message handlers *)

\* handle_initconn_msg
RecvInit(e, m) ==
  /\ m.type = "INITCONN" /\ m.to = e
  /\ cstate[e] = "none"
  /\ cstate' = [cstate EXCEPT ![e] = "ESTABLISHED"]
  /\ idle' = [idle EXCEPT ![e] = 0]
  /\ UNCHANGED <<sndVars, rcvVars, net, appVars>>

\* Mutant: an acknowledgement number covers the packet it names.
AckedTooMany(q, una) == {p \in q : p.seq <= una}

\* The packets an acknowledgement number covers leave the send queue.
Acked(q, una) == {p \in q : p.seq < una}

\* Mutant: the limit on undelivered packets is not applied.
AcceptableUnlimited(e, seq) ==
  /\ seq >= rcv_next[e]
  /\ seq - rcv_next[e] < MaxInTransit

\* handle_conn_data_msg tests a DATA message against the receive window.
Acceptable(e, seq) ==
  /\ seq >= rcv_next[e]
  /\ rcv_next[e] - rcv_next_deliver[e] < MaxUndelivered
  /\ seq - rcv_next[e] < MaxInTransit

\* ... and a DATA message past the FIN is ignored.
PastFin(e, seq) == cstate[e] = "CLOSING_IN" /\ seq > finseq[e]

\* handle_conn_data_msg: the piggybacked acknowledgement is applied first
\* (without restarting the acknowledgement clock); then the packet is queued,
\* acknowledged and offered, or dropped without an answer.  An empty payload
\* is ignored altogether.
RecvData(e, m) ==
  /\ m.type = "DATA" /\ m.to = e
  /\ m.len > 0
  /\ IsOpen(e)
  /\ snd_una' = [snd_una EXCEPT ![e] = Upto(@, m.seq2)]
  /\ sendq' = [sendq EXCEPT ![e] = @ \ Acked(@, snd_una'[e])]
  /\ IF Acceptable(e, m.seq1) /\ ~PastFin(e, m.seq1)
     THEN LET q == Insert(recvq[e],
                          [seq |-> m.seq1, msg |-> m.msg, len |-> m.len])
          IN \E n \in FirstMissing(q, rcv_next[e]) :
               /\ rcv_next' = [rcv_next EXCEPT ![e] = n]
               /\ TryDeliver(e, q, n, cstate[e], {Ack(Peer(e), m.seq1, n)})
     ELSE UNCHANGED <<cstate, rcv_next, rcv_next_deliver, recvq, net,
                      got, fins, closed, refusals>>
  /\ UNCHANGED <<snd_next, finseq, idle, sent>>

\* Mutant: a repeated acknowledgement restarts the clock too.
RestartAlways(e, una) == una >= snd_una[e]

\* Only an acknowledgement of something new restarts the clock.
Restart(e, una) == una > snd_una[e]

\* Mutant: an ACK acknowledges the packets up to the one it answers.
RemovedByAckUpTo(q, seq, una) == {p \in q : p.seq <= seq} \cup Acked(q, una)

\* An ACK acknowledges everything before una and the one packet seq.
RemovedByAck(q, seq, una) == {p \in q : p.seq = seq} \cup Acked(q, una)

\* handle_conn_ack_msg: the acknowledged packets leave the queue, packets that
\* waited for the window are transmitted, and the packets before seq1 that are
\* still queued are retransmitted, once each.
RecvAck(e, m) ==
  LET una     == Upto(snd_una[e], m.seq2)
      removed == RemovedByAck(sendq[e], m.seq1, una)
      first   == {p \in sendq[e] : ~p.xmit /\ InWindow(p.seq, una)}
      kept    == sendq[e] \ removed
      again   == {p \in kept : p.seq < m.seq1 /\ ~p.fast}
  IN
  /\ m.type = "ACK" /\ m.to = e
  /\ InTable(e)
  /\ snd_una' = [snd_una EXCEPT ![e] = una]
  /\ idle' = IF Restart(e, una) THEN [idle EXCEPT ![e] = 0] ELSE idle
  /\ sendq' = [sendq EXCEPT ![e] =
       {[p EXCEPT !.xmit = @ \/ p \in first \cup again,
                  !.fast = @ \/ p \in again] : p \in kept}]
  /\ net' = net \cup {Data(Peer(e), p, rcv_next[e]) : p \in first \cup again}
  /\ UNCHANGED <<cstate, snd_next, rcvVars, appVars>>

\* handle_conn_fin_msg: the FIN has no sequence number of its own, so it is
\* queued at rcv_next, whatever the peer has sent before it.
RecvFin(e, m) ==
  /\ m.type = "FIN" /\ m.to = e
  /\ cstate[e] = "ESTABLISHED"
  /\ LET q == Insert(recvq[e], [seq |-> rcv_next[e], msg |-> 0, len |-> 0])
     IN \E n \in FirstMissing(q, rcv_next[e]) :
          /\ rcv_next' = [rcv_next EXCEPT ![e] = n]
          /\ TryDeliver(e, q, n, "CLOSING_IN", {})
  /\ finseq' = [finseq EXCEPT ![e] = m.seq1]
  /\ UNCHANGED <<sndVars, idle, sent>>

Receive(e) ==
  \E m \in net :
    RecvInit(e, m) \/ RecvData(e, m) \/ RecvAck(e, m) \/ RecvFin(e, m)

-----------------------------------------------------------------------------
(* The retransmission timer, and leaving the room *)

\* do_conn_retrans and the PART loop signal GHL_EV_CONN_FIN while the channel
\* is still open: in that callback the application may pass further messages
\* to ghl_conn_send and then call ghl_conn_close.  What these transmit goes
\* out behind `out', and the queue they fill is freed with the channel.
\* (ghl_free_room closes the channel first: the case of no message, no close.)
LastWords(e, out) ==
  \E n \in 0 .. (MaxMsgs[e] - sent[e]) :
  \E lens \in [1 .. n -> Lens] :
  \E fin \in SUBSET {Fin(Peer(e), rcv_next[e])} :
    LET more == {[seq |-> snd_next[e] + i - 1, msg |-> sent[e] + i,
                  len |-> lens[i], xmit |-> TRUE, fast |-> FALSE] : i \in 1 .. n}
        now  == {p \in more : InWindow(p.seq, snd_una[e])}
    IN
    /\ n > 0 => snd_next[e] + n - snd_una[e] <= MaxSendq
    /\ snd_next' = [snd_next EXCEPT ![e] = @ + n]
    /\ sent' = [sent EXCEPT ![e] = @ + n]
    /\ net' = net \cup out \cup {Data(Peer(e), p, rcv_next[e]) : p \in now}
                  \cup fin

\* Mutant: the event is signalled whatever the state of the channel.
FreeAndTell(e, out) ==
  /\ cstate' = [cstate EXCEPT ![e] = "freed"]
  /\ sendq' = [sendq EXCEPT ![e] = {}]
  /\ recvq' = [recvq EXCEPT ![e] = {}]
  /\ fins' = [fins EXCEPT ![e] = @ + 1]
  /\ net' = net \cup out
  /\ UNCHANGED <<snd_next, sent>>

\* conn_free after the handler has sent `out', with a GHL_EV_CONN_FIN event
\* unless the channel is CLOSING_OUT.
Free(e, out) ==
  /\ cstate' = [cstate EXCEPT ![e] = "freed"]
  /\ sendq' = [sendq EXCEPT ![e] = {}]
  /\ recvq' = [recvq EXCEPT ![e] = {}]
  /\ \/ /\ IsOpen(e)
        /\ fins' = [fins EXCEPT ![e] = @ + 1]
        /\ LastWords(e, out)
     \/ /\ ~IsOpen(e)
        /\ net' = net \cup out
        /\ UNCHANGED <<fins, snd_next, sent>>

\* The packets do_conn_retrans looks at: transmitted, and not too far ahead.
Retransmittable(e) ==
  {p \in sendq[e] : p.xmit /\ p.seq - snd_una[e] <= MaxInTransit}

ClosedAndEmpty(e) == sendq[e] = {} /\ cstate[e] = "CLOSING_OUT"

\* Mutant: a channel that is closing never times out.
TimedOutIfOpen(e, now) == IsOpen(e) /\ sendq[e] # {} /\ now > ConnTimeout

TimedOut(e, now) == sendq[e] # {} /\ now > ConnTimeout

\* do_conn_retrans for one channel: the packets in `due' (those whose timer
\* has expired) are sent again.  Then a channel that has waited too long for
\* an acknowledgement is dropped, and a closing channel with an empty send
\* queue is freed.
Check(e) ==
  LET now == IF idle[e] <= ConnTimeout THEN idle[e] + 1 ELSE idle[e] IN
  /\ InTable(e)
  /\ \E due \in SUBSET Retransmittable(e) :
       LET again == {Data(Peer(e), p, rcv_next[e]) : p \in due} IN
       \/ /\ TimedOut(e, now) \/ ClosedAndEmpty(e)
          /\ Free(e, again)
          /\ idle' = [idle EXCEPT ![e] = 0]
       \/ /\ ~(TimedOut(e, now) \/ ClosedAndEmpty(e))
          /\ net' = net \cup again
          /\ idle' = [idle EXCEPT ![e] = now]
          /\ UNCHANGED <<cstate, sendq, recvq, fins, snd_next, sent>>
  /\ UNCHANGED <<snd_una, rcv_next, rcv_next_deliver, finseq, got, closed,
                 refusals>>

\* ghl_free_room (the room is left or lost) or the peer's PART: the channel
\* is freed at once, without a word of the library to the peer.
LeaveRoom(e) ==
  /\ InTable(e)
  /\ Free(e, {})
  /\ idle' = [idle EXCEPT ![e] = 0]
  /\ UNCHANGED <<snd_una, rcv_next, rcv_next_deliver, finseq, got, closed,
                 refusals>>

-----------------------------------------------------------------------------
Next ==
  \/ Connect
  \/ \E e \in End :
       \/ \E len \in Lens : Send(e, len)
       \/ Close(e)
       \/ Receive(e)
       \/ Check(e)
       \/ LeaveRoom(e)

Spec == Init /\ [][Next]_vars

\* ghl_process runs the retransmission timer, which rearms itself, for as
\* long as the application keeps calling it.  Nothing is assumed of the
\* network or of the applications.
TimerFairness == \A e \in End : WF_vars(Check(e))
FairSpec == Spec /\ TimerFairness

\* The network in the end delivers a message that changes something.
NetworkFairness == \A e \in End : WF_vars(Receive(e))
NetFairSpec == FairSpec /\ NetworkFairness

\* GP2PP_CONN_TIMEOUT is long for the network: by the check that can exceed it,
\* whatever was under way has arrived.  Nobody leaves the room.
Settled == \A e \in End : ~ENABLED <<Receive(e)>>_vars
PromptCheck(e) == (Settled \/ idle[e] < ConnTimeout) /\ Check(e)
PromptNext ==
  \/ Connect
  \/ \E e \in End :
       \/ \E len \in Lens : Send(e, len)
       \/ Close(e)
       \/ Receive(e)
       \/ PromptCheck(e)
PromptSpec ==
  /\ Init /\ [][PromptNext]_vars
  /\ \A e \in End : WF_vars(PromptCheck(e))
  /\ NetworkFairness

-----------------------------------------------------------------------------
(* Properties *)

SenderTypes ==
  /\ snd_una \in [End -> Nat]
  /\ snd_next \in [End -> Nat]
  /\ sendq \in [End -> SUBSET SendPkt]
  /\ sent \in [End -> Nat]
ReceiverTypes ==
  /\ rcv_next \in [End -> Nat]
  /\ rcv_next_deliver \in [End -> Nat]
  /\ finseq \in [End -> Nat]
  /\ recvq \in [End -> SUBSET RecvPkt]
  /\ got \in [End -> Seq(Nat)]
ControlTypes ==
  /\ cstate \in [End -> {"none", "ESTABLISHED", "CLOSING_IN", "CLOSING_OUT",
                         "freed"}]
  /\ idle \in [End -> 0 .. (ConnTimeout + 1)]
  /\ net \in SUBSET Message
HistoryTypes ==
  /\ fins \in [End -> Nat]
  /\ closed \in [End -> BOOLEAN]
  /\ refusals \in [End -> Nat]

\* Every variable keeps its type; in particular no sequence number, not even
\* the one a FIN carries, is ever negative.
TypeOK == SenderTypes /\ ReceiverTypes /\ ControlTypes /\ HistoryTypes

\* Whatever UDP loses, repeats or reorders, and wherever an application stops
\* reading or closes, what try_deliver has handed to an application is a
\* prefix of what the other application has passed to ghl_conn_send.
InOrder(e) ==
  /\ Len(got[e]) <= sent[Peer(e)]
  /\ \A i \in 1 .. Len(got[e]) : got[e][i] = i
PrefixDelivered == \A e \in End : InOrder(e)

\* The three places that take packets off a send queue (both kinds of
\* acknowledgement in handle_conn_ack_msg, the piggybacked one in
\* handle_conn_data_msg) never take one the peer has not got: while this end
\* is open and the peer's channel exists, a packet ghl_conn_send accepted is
\* in the send queue, in the peer's receive queue, or behind the peer's
\* rcv_next_deliver.  A FIN queued in the place of a lost packet does not
\* count for it.
Held(e, s) ==
  s < rcv_next_deliver[e] \/ \E p \in recvq[e] : p.seq = s /\ p.len > 0
NoSilentLoss ==
  \A e \in End : IsOpen(e) /\ InTable(Peer(e)) =>
    \A s \in 0 .. (snd_next[e] - 1) :
      s \in Seqs(sendq[e]) \/ Held(Peer(e), s)

\* A channel that is over was either closed by its application beforehand or
\* announced to it by one GHL_EV_CONN_FIN, never both and never twice:
\* try_deliver, do_conn_retrans, ghl_free_room and the PART loop all signal
\* the event.
ToldOnce ==
  \A e \in End :
    fins[e] + (IF closed[e] THEN 1 ELSE 0) =
      (IF cstate[e] \in {"CLOSING_OUT", "freed"} THEN 1 ELSE 0)

\* An application that stops reading costs bounded memory.  The limit on
\* undelivered packets is tested before a packet is queued and so can be
\* overshot, but by less than a window.
BufferBound ==
  \A e \in End :
    Cardinality({p \in recvq[e] : p.len > 0}) < MaxUndelivered + MaxInTransit

\* The acknowledgement number an end has taken over never passes the peer's
\* rcv_next, although ACK, DATA and FIN messages carry it late, repeated and
\* out of order.  (rcv_next counts the place of a FIN, which may be that of a
\* lost packet; what the peer holds of each packet is NoSilentLoss.)
AckNumberReached == \A e \in End : snd_una[e] <= rcv_next[Peer(e)]

\* The oldest unacknowledged packet is always still queued, although single
\* packets leave the queue by the SEQ field of an ACK.  So an empty queue
\* means that everything was acknowledged, which do_conn_retrans relies on
\* when it frees a closing channel.
OldestIsQueued ==
  \A e \in End : cstate[e] # "freed" /\ snd_una[e] < snd_next[e] =>
    snd_una[e] \in Seqs(sendq[e])

\* do_conn_retrans skips packets that were never transmitted.  With the
\* limits of gp2pp.h there are none: everything queued has been transmitted.
QueuedIsTransmitted ==
  \A e \in End : \A p \in sendq[e] :
    p.xmit /\ \E m \in net : m.type = "DATA" /\ m.to = Peer(e) /\ m.seq1 = p.seq

\* The connection implements the stream the two applications rely on.
Phase == [e \in End |-> CASE cstate[e] = "none" -> "none"
                          [] IsOpen(e) -> "open"
                          [] OTHER -> "done"]
Stream == INSTANCE ReliableStream WITH phase <- Phase
ImplementsStream == Stream!StreamSpec

\* Data waiting for an acknowledgement does not wait for ever: it is
\* acknowledged, or do_conn_retrans drops the connection.
QueueDrains ==
  \A e \in End : sendq[e] # {} ~> sendq[e] = {}

\* The resources of a closed channel are freed in the end, whatever the peer
\* and the network do (ghl_conn_close, do_conn_retrans).
CloseEnds ==
  \A e \in End : cstate[e] = "CLOSING_OUT" ~> cstate[e] = "freed"

\* In a network that in the end delivers what changes something, and where it
\* does so before a connection timeout runs out, all that is sent arrives and
\* is acknowledged, and the connection lives on, unless an application closes
\* it: applications that read what they are offered never find the two ends
\* waiting for each other, at the send queue limit or for an acknowledgement
\* of handle_conn_data_msg.  A connection that times out does not count as
\* delivered.
AllDelivered ==
  \A e \in End :
    sent[e] > 0 ~>
      \/ /\ Len(got[Peer(e)]) = sent[e]
         /\ sendq[e] = {}
         /\ \A d \in End : IsOpen(d)
      \/ \E d \in End : closed[d]
=============================================================================
