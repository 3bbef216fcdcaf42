------------------------------ MODULE Retrans ------------------------------
(***************************************************************************)
(* The clock of the sending side: when do_conn_retrans sends a packet      *)
(* again, how the retransmission timeout follows the round-trip time and   *)
(* backs off, and when a connection is given up.  Module VConn leaves all  *)
(* of this open.  Here are all the channels of one room, because           *)
(* do_conn_retrans goes through them in one loop that it may leave early.  *)
(*                                                                         *)
(* Time is relative: a variable or field holds the time since a timestamp  *)
(* of the code was set.  The unit is that of garena_now.  Sequence numbers *)
(* are relative to ch->snd_una.  A retransmission check may be late by up  *)
(* to MaxLate: ghl_process finds the timer expired only when it is called, *)
(* and its blocking mode sleeps too long (SleepIsBounded of module         *)
(* EventLoop) unless something arrives.                                    *)
(*                                                                         *)
(* External: the peer.  Its acknowledgements are lost, late, repeated and  *)
(* out of order, but it acknowledges nothing that it has not received, and *)
(* the next number it expects is not one that it has received.             *)
(***************************************************************************)
EXTENDS Naturals, FiniteSets

CONSTANTS
  Chans,         \* number of channels, in the order in which ihash_iter goes
  MaxSendq,      \* GP2PP_MAX_SENDQ
  MaxInTransit,  \* GP2PP_MAX_IN_TRANSIT
  InitRto,       \* GP2PP_INIT_RTO
  LBound,        \* GP2PP_LBOUND
  UBound,        \* GP2PP_UBOUND
  ConnTimeout,   \* GP2PP_CONN_TIMEOUT
  RetransCheck,  \* GP2PP_CONN_RETRANS_CHECK
  MaxLate,       \* time from the expiry of conn_retrans_timer to the check
  MaxSends       \* bound: packets the application sends on each channel

Chan == 1 .. Chans

ASSUME ChansAssumption == Chans \in Nat
ASSUME WindowAssumption ==
  MaxSendq \in Nat \ {0} /\ MaxInTransit \in Nat /\ MaxSendq <= MaxInTransit
ASSUME BoundsAssumption ==
  /\ InitRto \in Nat \ {0} /\ LBound \in Nat \ {0} /\ UBound \in Nat
  /\ LBound <= InitRto /\ InitRto <= UBound
ASSUME TimesAssumption ==
  RetransCheck \in Nat \ {0} /\ MaxLate \in Nat /\ ConnTimeout \in Nat
\* The longest time from one check to the next.
Interval == RetransCheck + MaxLate

ASSUME SendsAssumption == MaxSends \in [Chan -> Nat]

VARIABLES
  cstate,   \* "none", "open" (ESTABLISHED, CLOSING_IN) or "closing" (_OUT)
  next,     \* ch->snd_next - ch->snd_una
  sendq,    \* ch->sendq
  ts_ack,   \* time since ch->ts_ack, up to ConnTimeout + 1
  rto,      \* ch->rto
  srtt,     \* ch->srtt, 0 before the first sample
  check,    \* time until do_conn_retrans runs at the latest
  sent,     \* number of packets sent
  passed,   \* history: the last checks that ended before the channel
  silence   \* history: time that data has waited for any acknowledgement

chVars == <<cstate, next, sendq, ts_ack, rto, srtt>>
vars == <<chVars, check, sent, passed, silence>>

\* ghl_ch_pkt_t: off is seq - ch->snd_una, age the time since xmit_ts.
Pkt(off, timeout) ==
  [off |-> off, age |-> 0, rto |-> timeout, retrans |-> FALSE,
   did_fast_retrans |-> FALSE]

Larger(x, y) == IF x < y THEN y ELSE x
Smaller(x, y) == IF x < y THEN x ELSE y

Offsets(c) == {p.off : p \in sendq[c]}

-----------------------------------------------------------------------------
Init ==
  /\ cstate = [c \in Chan |-> "none"]
  /\ next = [c \in Chan |-> 0]
  /\ sendq = [c \in Chan |-> {}]
  /\ ts_ack = [c \in Chan |-> 0]
  /\ rto = [c \in Chan |-> InitRto]
  /\ srtt = [c \in Chan |-> 0]
  /\ check = Interval
  /\ sent = [c \in Chan |-> 0]
  /\ passed = [c \in Chan |-> 0]
  /\ silence = [c \in Chan |-> 0]

\* ghl_conn_connect, or the INITCONN of a peer.
Connect(c) ==
  /\ cstate[c] = "none"
  /\ cstate' = [cstate EXCEPT ![c] = "open"]
  /\ UNCHANGED <<next, sendq, ts_ack, rto, srtt, check, sent, passed, silence>>

MaySend(c) == cstate[c] = "open" /\ next[c] < MaxSendq

\* ghl_conn_send: the acknowledgement clock restarts only if the queue was not
\* empty.
Send(c) ==
  /\ MaySend(c)
  /\ sent[c] < MaxSends[c]
  /\ sent' = [sent EXCEPT ![c] = @ + 1]
  /\ next' = [next EXCEPT ![c] = @ + 1]
  /\ sendq' = [sendq EXCEPT ![c] = @ \cup {Pkt(next[c], rto[c])}]
  /\ ts_ack' = IF sendq[c] = {} THEN ts_ack ELSE [ts_ack EXCEPT ![c] = 0]
  /\ UNCHANGED <<cstate, rto, srtt, check, passed, silence>>

\* ghl_conn_close, or the end of the peer's stream.
Close(c) ==
  /\ cstate[c] = "open"
  /\ cstate' = [cstate EXCEPT ![c] = "closing"]
  /\ UNCHANGED <<next, sendq, ts_ack, rto, srtt, check, sent, passed, silence>>

\* conn_free of the channels cs; the place is that of a later channel, whose
\* fields the code sets when it is created.
Free(cs) ==
  /\ cstate' = [c \in Chan |-> IF c \in cs THEN "none" ELSE cstate[c]]
  /\ next' = [c \in Chan |-> IF c \in cs THEN 0 ELSE next[c]]
  /\ srtt' = [c \in Chan |-> IF c \in cs THEN 0 ELSE srtt[c]]
  /\ silence' = [c \in Chan |-> IF c \in cs THEN 0 ELSE silence[c]]

-----------------------------------------------------------------------------
(* The round-trip estimate *)

\* Mutant: each product is shifted by itself.
AverageOfShifted(old, rtt) == (old * 820) \div 1024 + (rtt * 204) \div 1024

\* GP2PP_ALPHA is 820 / 1024.
Average(old, rtt) == (old * 820 + rtt * 204) \div 1024

\* update_rto: the new ch->srtt; a round-trip time of 0 counts as 1.
Estimate(old, rtt) ==
  IF old = 0 THEN Larger(rtt, 1) ELSE Average(old, Larger(rtt, 1))

\* ... and the ch->rto that follows; GP2PP_BETA is 1536 / 1024.
Timeout(est) == Larger(LBound, Smaller(UBound, (1536 * est) \div 1024))

\* update_rto for each of the packets ps that was sent once, oldest first: the
\* ch->srtt that the last one leaves.
Sampled(c, ps) ==
  LET est[i \in 0 .. next[c]] ==
        IF i = 0 THEN srtt[c]
        ELSE IF \E p \in ps : p.off = i - 1 /\ ~p.retrans
        THEN Estimate(est[i - 1], (CHOOSE p \in ps : p.off = i - 1).age)
        ELSE est[i - 1]
  IN  est[next[c]]

\* The packets ps are removed: one that was sent twice gives no sample.
Sample(c, ps) ==
  IF \A p \in ps : p.retrans THEN UNCHANGED <<srtt, rto>>
  ELSE /\ srtt' = [srtt EXCEPT ![c] = Sampled(c, ps)]
       /\ rto' = [rto EXCEPT ![c] = Timeout(srtt'[c])]

-----------------------------------------------------------------------------
(* Acknowledgements *)

\* What the peer may expect next: a packet that it has not acknowledged.
Expected(c) == Offsets(c) \cup {next[c]}

\* snd_una moves on by una, and the packets `removed' leave the queue of which
\* `kept' remains.
Acknowledge(c, una, removed, kept) ==
  /\ next' = [next EXCEPT ![c] = @ - una]
  /\ sendq' = [sendq EXCEPT ![c] = {[p EXCEPT !.off = @ - una] : p \in kept}]
  /\ Sample(c, removed)
  /\ silence' = IF removed = {} THEN silence ELSE [silence EXCEPT ![c] = 0]
  /\ UNCHANGED <<cstate, check, sent, passed>>

\* do_fast_retrans, once for each packet.
FastRetrans(p, seq) ==
  IF p.off < seq /\ ~p.did_fast_retrans
  THEN [p EXCEPT !.age = 0, !.retrans = TRUE, !.did_fast_retrans = TRUE]
  ELSE p

\* handle_conn_ack_msg: packet seq and all before una have been received.
RecvAck(c) ==
  \E una \in Expected(c) : \E seq \in (0 .. (next[c] - 1)) \ {una} :
    LET removed == {p \in sendq[c] : p.off < una \/ p.off = seq} IN
    /\ cstate[c] # "none"
    /\ Acknowledge(c, una, removed,
                   {FastRetrans(p, seq) : p \in sendq[c] \ removed})
    /\ ts_ack' = IF una > 0 THEN [ts_ack EXCEPT ![c] = 0] ELSE ts_ack

\* handle_conn_data_msg: the acknowledgement that comes with data does not
\* restart the clock.
RecvData(c) ==
  \E una \in Expected(c) \ {0} :
    LET removed == {p \in sendq[c] : p.off < una} IN
    /\ cstate[c] = "open"
    /\ Acknowledge(c, una, removed, sendq[c] \ removed)
    /\ UNCHANGED ts_ack

-----------------------------------------------------------------------------
(* do_conn_retrans *)

\* Mutant: a connection that is being closed does not time out.
TimedOutIfOpen(c) ==
  cstate[c] = "open" /\ sendq[c] # {} /\ ts_ack[c] > ConnTimeout

TimedOut(c) == cstate[c] # "none" /\ sendq[c] # {} /\ ts_ack[c] > ConnTimeout

\* The loop ends at the first channel that times out.
Reached ==
  {c \in Chan : cstate[c] # "none" /\ \A d \in 1 .. (c - 1) : ~TimedOut(d)}

Ended ==
  {c \in Reached : TimedOut(c) \/ (sendq[c] = {} /\ cstate[c] = "closing")}

\* Mutant: a packet is sent again only once.
ExpiredOnce(p) == p.off <= MaxInTransit /\ p.age >= p.rto /\ ~p.retrans

Expired(p) == p.off <= MaxInTransit /\ p.age >= p.rto

\* Sent again, with twice the timeout.
Resent(p) ==
  IF Expired(p)
  THEN [p EXCEPT !.rto = 2 * @, !.age = 0, !.retrans = TRUE]
  ELSE p

\* The channel takes over the longest timeout of a packet sent again.
BackedOff(c) ==
  LET longer == {2 * p.rto : p \in {q \in sendq[c] : Expired(q)}}
  IN  CHOOSE x \in longer \cup {rto[c]} :
        \A y \in longer \cup {rto[c]} : y <= x

\* The timer has expired RetransCheck after the last check.
DoConnRetrans ==
  /\ check <= MaxLate
  /\ check' = Interval
  /\ Free(Ended)
  /\ sendq' = [c \in Chan |->
       IF c \in Ended THEN {}
       ELSE IF c \in Reached THEN {Resent(p) : p \in sendq[c]} ELSE sendq[c]]
  /\ rto' = [c \in Chan |->
       IF c \in Ended THEN InitRto
       ELSE IF c \in Reached THEN BackedOff(c) ELSE rto[c]]
  /\ ts_ack' = [c \in Chan |-> IF c \in Ended THEN 0 ELSE ts_ack[c]]
  /\ passed' = [c \in Chan |->
       IF cstate[c] # "none" /\ c \notin Reached THEN passed[c] + 1 ELSE 0]
  /\ UNCHANGED sent

-----------------------------------------------------------------------------
\* A unit of time passes, unless the check is as late as it may be.
Tick ==
  /\ check > 0
  /\ check' = check - 1
  /\ sendq' = [c \in Chan |-> {[p EXCEPT !.age = @ + 1] : p \in sendq[c]}]
  /\ ts_ack' = [c \in Chan |->
       IF cstate[c] = "none" THEN 0
       ELSE Smaller(ts_ack[c] + 1, ConnTimeout + 1)]
  /\ silence' = [c \in Chan |->
       IF sendq[c] = {} THEN 0 ELSE silence[c] + 1]
  /\ UNCHANGED <<cstate, next, rto, srtt, sent, passed>>

Next ==
  \/ \E c \in Chan :
       Connect(c) \/ Send(c) \/ Close(c) \/ RecvAck(c) \/ RecvData(c)
  \/ DoConnRetrans
  \/ Tick

Spec == Init /\ [][Next]_vars

-----------------------------------------------------------------------------
(* Properties *)

\* The checks come often enough that no channel before it times out twice
\* while a channel waits for its turn.
NoStarvation == Chans = 1 \/ Chans * Interval <= ConnTimeout

\* A packet that is not acknowledged is sent again at the first check that
\* comes to its channel after its timeout, however late the checks are.
\* do_conn_retrans skips the channels behind one that it drops; but if the
\* checks come often enough, no channel is dropped twice while a packet waits,
\* so it waits for one check for each channel at most.
RetransmitInTime ==
  \A c \in Chan : \A p \in sendq[c] :
    /\ p.age < p.rto + (passed[c] + 1) * Interval
    /\ NoStarvation => p.age < p.rto + Chans * Interval

\* A silent peer is given up, however the application sends and however late
\* the checks are: ghl_conn_send restarts the connection timeout, but only
\* until the send queue is full.
GiveUpTime == MaxSendq * (ConnTimeout + Chans * Interval)
GivesUp == NoStarvation => \A c \in Chan : silence[c] <= GiveUpTime

\* srtt = 0 stands for no sample.  The average of two positive times, rounded
\* down, does not come back to 0 as long as the channel lives.
EstimateIsKept ==
  [][\A c \in Chan : srtt[c] > 0 /\ cstate'[c] # "none" => srtt'[c] > 0]_vars

\* PROTOCOL:919 says that packets are kept until they are acknowledged, to
\* retransmit them after a timeout.  A channel that is dropped with data in
\* its queue would have sent the oldest packet more than once.
RetransmittedBeforeDrop ==
  [][\A c \in Chan :
       TimedOut(c) /\ cstate'[c] = "none" =>
         \E p \in sendq[c] : p.off = 0 /\ p.retrans]_vars
=============================================================================
