# libgarena in TLA+

libgarena is a C client library for the Garena gaming network: it logs in to
the main server, joins a room, exchanges presence messages with the other
members and carries virtual UDP packets and virtual TCP connections between
them over one UDP socket. This directory holds TLA+ models of the library,
TLC configurations that check them on small instances and TLAPS proofs.

`src/...` below is a path in the repository; `ghl.c` is `src/src/ghl.c`.

## Inventory

The library is single-threaded. The application calls `ghl_process` in a
loop; it runs the expired timers, then reads at most one message from each of
the room socket (TCP), the peer socket (UDP) and the main server socket (TCP).
Handlers call back into the application (`signal_event`), and the application
may call the API from such a callback. So a step of the system is one API call,
one message handler or one timer handler; what makes it hard is not threads but
the peers and servers (each its own process), the network between them, the
order of timers and messages, and re-entrancy.

| Component | State | Operations | Interacts with | Correct when |
|---|---|---|---|---|
| Virtual connection (`ghl.c` 917-1056, 1075-1082, 1228-1315, 1337-1390, 1405-1471, 1577-1834) | `ghl_ch_t`: `cstate`, `snd_una`, `snd_next`, `rcv_next`, `rcv_next_deliver`, `finseq`, `ts_ack`, `rto`, send and receive queue | connect, send, close; INITCONN, DATA, ACK, FIN handlers; retransmission check | the peer's channel over UDP; the application by callbacks; freed with the room or the member | the applications see a FIFO stream with one end notice; nothing acknowledged is lost; no wedge; resources freed |
| Connection table, IDs (`ghl.c` 470, `gp2pp.c` 436) | `rh->conns`, a counter | put, get, delete, new ID | virtual connections, room | a message reaches the channel it was meant for |
| Retransmission timeout (`ghl.c` 1436-1447, 1732-1747) | `rto`, `srtt`, per-packet `rto`, `ts_ack` | estimate, back off, time out | virtual connections, clock | bounded; a live peer is not timed out |
| Server connection (`ghl.c` 137-346, 626-732, 875-898, 1395-1403, 1493-1556) | `auth_ok`, `lookup_ok`, `connected`, `servconn_timeout`, `need_free`, sockets | create, login reply, lookup reply, auth failure, timeout, free | main server over TCP and UDP, timers, room | one outcome is signalled, once; a failed handle is freed, a connected one is not |
| Room and members (`ghl.c` 367-494, 1145-1174, 1890-2115) | `ghl_room_t`: `members`, `me`, `joined`, `timeout`, `conns` | join, leave, MEMBERS, JOIN_FAILED, JOIN, PART, TALK, VPN on/off, timeout, disconnection | room server over TCP, timers, connections | the member table follows the server's; handles are freed once and not used afterwards |
| Peer addresses (`ghl.c` 1176-1214, 1319-1335, 1474-1479, 1836-1888) | `conn_ok`, effective address of each member | HELLO request, reply, periodic hello | members, peer clients | `conn_ok` means the peer can be reached |
| Timers and event loop (`ghl.c` 598-609, 626-732, 778-867) | the ordered list `timers` | new, free, run the expired ones | every component with a timer | timers fire in order and never after their owner is freed; periodic timers never stop |
| Room usage counts (`ghl.c` 82-89, 1481-1491, 1558-1575) | a table from rooms to counts | query, reply | main server | last reply wins |
| GP2PP, GCRP, GSP codecs (`gp2pp.c`, `gcrp.c`, `gsp.c`) | dispatch tables | read, decode, dispatch, encode | all of the above | what is encoded is decoded |
| Lists and hash tables (`util.c`) | | add, delete, iterate | all | iteration with deletion is safe |

Hard behaviours: UDP loss, repetition and reordering on every peer message; a
FIN without a sequence number; acknowledgements of two kinds; an application
that refuses data or closes in a callback; timers racing replies (server
connection, room join); a room lost while connections are open.

## The virtual connection: VConn

`VConn.tla` models both ends of one connection. Each field of `ghl_ch_t` is a
function from the two ends; a queue is a set of packets, since `insert_pkt`
keeps it sorted and without duplicates. `net` is the set of messages ever
sent: receiving does not remove a message, so loss, repetition, delay and
reordering are all there.

| Action | Code |
|---|---|
| `Connect`, `Send`, `Close` | `ghl_conn_connect`, `ghl_conn_send`, `ghl_conn_close` |
| `Receive` = `RecvInit`, `RecvData`, `RecvAck`, `RecvFin` | `handle_initconn_msg`, `handle_conn_data_msg`, `handle_conn_ack_msg` with `do_fast_retrans`, `handle_conn_fin_msg` |
| `TryDeliver` (part of `RecvData`, `RecvFin`) | `try_deliver`; its four alternatives are the ways the loop can end: everything taken, data left unread, a FIN met, the application closed in the callback |
| `Check` | one channel's turn in `do_conn_retrans` |
| `LastWords` (part of `Check`, `LeaveRoom`) | what the application sends in the CONN_FIN callback of a channel that is about to be freed |
| `LeaveRoom` | `ghl_free_room`, or the PART of the peer |

What is abstracted:

* Whether the retransmission timer of a packet has expired at a check is left
  open (`due` is any subset of the transmitted packets), so the checks hold
  for any round-trip estimate. `idle` counts the checks since `ts_ack` was set;
  it stands for the comparison with `GP2PP_CONN_TIMEOUT`.
* The payload is the number of the `ghl_conn_send` call; its length matters
  only for zero (ignored by the receiver) and for a partial read.
* An application that sends in the CONN_RECV callback is the same as one that
  sends right after it: `try_deliver` reads nothing that a send changes.
  Closing in it is not the same and is modelled (`ClosesInCallback`), and so
  are sending and closing in the CONN_FIN callback of a channel that times out
  or whose peer parts, which is still open then (`LastWords`): what is sent may
  arrive, and is never sent again. (`try_deliver` and `ghl_free_room` close the
  channel before they signal.)
* One channel times out at a time and the `break` of `do_conn_retrans` only
  delays the others to the next check.
* Not here: a second INITCONN, two channels under one ID, a failing `sendto`
  or `malloc`, sequence numbers past 2^31.

`ReliableStream.tla` is what the two applications may rely on: two message
streams, each delivered in order and without gaps, an end that each
application either asks for or is told of once. `VConn` implements it with
`phase` as the refinement of `cstate` (`ImplementsStream`).

### Runs (VConn)

| Run | Instance | Shows |
|---|---|---|
| `VConn_safety` | windows of 2, undelivered limit 1, 3 messages one way and 1 the other, two refusals, timeout at once | `TypeOK`, `PrefixDelivered`, `NoSilentLoss`, `ToldOnce`, `BufferBound`, `AckNumberReached`, `OldestIsQueued`, `QueuedIsTransmitted`, `ImplementsStream` |
| `VConn_liveness` | 2 + 1 messages, some of length zero, timeout after one check | `QueueDrains`, `CloseEnds` |
| `VConn_delivery` | 3 + 1 messages, windows of 2, undelivered limit 1, a network that is faster than the connection timeout | `AllDelivered` |

Three messages with windows of two fill the send queue, open a gap in the
receive queue, exceed the undelivered limit and leave data behind a FIN; one
message the other way gives piggybacked acknowledgements something to
acknowledge. Deadlock is not checked: both channels end up freed.

`NoSilentLoss` is about single packets: what an open sender no longer queues,
the peer has handed over or holds with its data; a FIN that took the place of
a lost packet is not enough. `AckNumberReached` is about the acknowledgement
number only, which counts that place.

Fairness. `FairSpec` assumes only that an application keeps calling
`ghl_process`, so that the retransmission timer, which rearms itself, fires
again and again (`WF(Check)`); `PeriodicForever` of `EventLoop` shows it of
the timer. `AllDelivered` is checked under `PromptSpec`: nobody leaves the
room, a message that would change something is in the end received, and the
network is faster than the connection timeout, that is, the check that may
exceed `ConnTimeout` comes only after every message under way that would change
something was received (`Settled`; it may be received again later). The last
one is what a `GP2PP_CONN_TIMEOUT` of 30 seconds is there for. Without it every
connection may time out, and a property that let that pass would also let pass
two ends that wait for each other. Under it a connection that is given up
counts as a failure: all that was sent is delivered and acknowledged, and both
channels stay open, unless an application closes one. What
is shown is that the send queue limit and the acknowledgements, lost in part,
never leave the two ends waiting. The other two limits do not bind in this run:
the window cannot, with a send queue that is no longer than it
(`QueuedIsTransmitted`), and the undelivered limit does only if an application
leaves data unread, and then it may stop the connection for good (next
section). The applications of this run read what they are offered.

### Where code and documentation differ (VConn)

These were met while modelling; the model has the behaviour, no run refutes
the sentence.

* `ghl.h:67` to 70 promise another event for data an application left unread.
  `try_deliver` runs only when another packet is accepted or a FIN comes, and at
  the undelivered limit none is accepted.
* `PROTOCOL:931` asks for a CONN ACK for every CONN DATA received.
  `handle_conn_data_msg` (`ghl.c:1824`) answers only packets it queues. If the
  ACK of the last packet is lost, its retransmissions are never answered and
  the sender drops the connection although everything arrived.
* `ghl.c:971` announces that `ghl_conn_close` still retransmits what is queued.
  The receiver places the FIN at its own `rcv_next` (`ghl.c:1652`) and ends the
  channel there, so queued data that arrives after the FIN is lost.

### Proofs (VConn)

`VConnProofs.tla` proves for every window size, timeout, message bound and
set of lengths, from the assumptions of `VConn` on its constants only:

* `TypeCorrect`: `Spec => []TypeOK`;
* `DeliveredIsPrefix`: `Spec => []PrefixDelivered`.

`PrefixDelivered` alone is not inductive: that the next payload handed over is
the right one depends on what the receive queue, and before that the network
and the peer's send queue, hold. `IInv` adds that each queue has no two packets
with one number and no gap between `rcv_next_deliver` and `rcv_next`
(`QueueInv`), and that wherever a packet with payload is (send queue, network,
receive queue) packet s carries message s + 1 and has been sent, and that an
application whose channel is not over has been handed exactly the packets
before `rcv_next_deliver` (`StreamInv`). One lemma per action shows that it
keeps `IInv`; the lemmas about `Insert`, `FirstMissing` and `TryDeliver` carry
the argument about contiguity and order.

The second part of the module is about acknowledgements: `AckNumberIsReached`,
`OldestStaysQueued` and `NothingLostSilently`. The difficulty is the two kinds
of acknowledgement. The `seq2` of any message acknowledges everything before
it; the `seq1` of an ACK takes a single packet out of the middle of the queue,
and such an ACK may come arbitrarily late. So `AckInv` adds to `IInv` that no
message carries a `seq2` its sender has not reached (`AckBound`), that the
packet an ACK answers is held by the receiver as long as it has a channel
(`AckHeld`), and that a packet which is missing from the queue was acknowledged
alone (`SendqComplete`). `OldestStaysQueued` needs one more fact, `AckSkips`:
a packet that was acknowledged alone, past a gap, never is the one at
`snd_una`, because no message will ever carry its number as `seq2`; the
`rcv_next` of its receiver steps over it when the gap is filled. The steps are
treated alike: `AckStep` says what any step does to the acknowledgements, one
lemma per action shows it, and one lemma shows that it keeps `AckInv`.
`NothingLostSilently` needs in addition that a FIN does not stand for a packet:
`FinInv` says that a FIN is under way or in a receive queue only when the
channel it comes from is over, so an open sender's packets are held with their
data.

`VConnStreamProofs.tla` proves what the applications and the memory see:
`EndIsToldOnce`, `NothingWaitsForWindow`, `BufferIsBounded` (a cardinality
argument: the undelivered packets have distinct numbers in an interval) and
`ConnectionIsStream`, the refinement: `Spec => ImplementsStream`. Each step of
the connection is mapped to a step of `ReliableStream` or a stutter, with
`DeliveredIsPrefix` for the deliveries and `InitSent`, that an INITCONN was
sent by an initiator whose channel exists, for the order of the two phases.

So every safety property that the runs of `VConn` check is proved, and only
the liveness ones are model-checked only.

## The handles and their timers: Session

`Session.tla` models the server handle from `ghl_new_serv` to `ghl_free_serv`,
the room handle from `ghl_join_room` to `ghl_free_room`, and the list of
timers that refer to them. A room handle is the number of the `ghl_join_room`
call that created it, so that a handle of an earlier room is told from the
present one.

| Action | Code |
|---|---|
| `NewServ`, `AppFreesServ`, `JoinRoom`, `LeaveRoom` | `ghl_new_serv`, `ghl_free_serv`, `ghl_join_room`, `ghl_leave_room` |
| `LoginReply`, `AuthFail` | `handle_auth` |
| `LookupReply` | `handle_ip_lookup` |
| `ServconnTimeout`, `JoinTimeout` | the two timeout handlers, with the freeing that `ghl_process` does after them |
| `Members`, `JoinFailed` | `handle_room_join` |
| `ServerLost`, `RoomLost` | a connection that `ghl_process` finds closed |

What is abstracted: when a timer expires (a pending one may fire at any
moment); what the three periodic timers do, since they only replace
themselves; and the members and connections of a room, which are in `Room`. An
API call that the application makes in a callback at the end of a handler is
the next action. Frees in the middle of a handler (`need_free`) are part of
its action. The main server answers the login at most once; its lookup reply
is a UDP message, lost or repeated; a room server answers each join at most
once; either may close its connection at any time.

| Run | Instance | Shows |
|---|---|---|
| `session` | 3 joins, 2 lookup replies | `TypeOK`, `TimersAreOwned`, `JoinOutcome`, `ConnectedIsAnnounced`, `ConnectEnds`, `JoinEnds` |
| `session_outcome` | 1 join, 1 lookup reply | `SuccessIsFinal` fails |

Three joins allow a room that failed, one that was lost and a third one, each
with its own timer; the second lookup reply is the repeated one. Deadlock is
not checked: a freed server handle is the end. `FairSpec` assumes of the
application that it goes on calling `ghl_process`, so that a pending timer
fires in the end (weak fairness of the two timeout handlers), and nothing of
the servers.

`SuccessIsFinal`: `ghl.h:91` says of the connection event that the connection
is completed or has failed. The timer that announces the failure is stopped by
`handle_auth` only when the lookup has already been answered.
`handle_ip_lookup` (`ghl.c:1546`) completes the connection without stopping
it, so that a handle whose lookup reply comes after its login reply is freed,
with a failure event, when the timer expires. `TimersAreOwned` and
`ConnectedIsAnnounced` hold all the same, and `ConnectEnds` asks for some
outcome only.

`SessionProofs.tla` proves, for every number of joins and lookups,
`TypeCorrect`, `TimersOwned`, `OneOutcome` and `ConnectedAnnounced`: the four
invariants of the run. The inductive invariant, `Invariants`, is these four and
`JoinedIsAnswered`, that the server of a room that has joined has answered:
without it a second answer could add an event to the history of a joined room.
`JoinOutcome` also needs `TimersAreOwned`: a join timer still pending for a
joined room would report it as failed. There is one lemma per invariant with
one case per action, and lemmas on what an event adds to a history.
`ConnectEnds` and `JoinEnds` are liveness and stay with TLC.

## The members of a room: Room

`Room.tla` models the clients of one room and the room server. The server and
the network are external: a server that tells each client of joins, parts and
VPN switches in one order over TCP, and may echo a client's own join; a UDP
network that loses, repeats and reorders. `stays` counts how often a user has
joined and so tells apart the `ghl_member_t` structures that a user gets one
after the other.

| Action | Code |
|---|---|
| `JoinRoom`, `FreeRoom`, `ToggleVpn` | `ghl_join_room`, `ghl_free_room`, `ghl_togglevpn` |
| `ReceiveRoom` = `Members`, `Join`, `Part`, `SwitchVpn` | `handle_room_join` and `handle_room_activity` |
| `DoHello`, `ReceiveReq`, `ReceiveRep` | `do_hello`, `handle_peer_msg` |
| `Connect`, `ReceiveInitConn`, `FreeConn` | `ghl_conn_connect`, `handle_initconn_msg`, the frees of `do_conn_retrans` |
| `Free`, `ConnFromId`, `NewConnId` | `ihash_del` with `conn_free`, `ghl_conn_from_id`, `gp2pp_new_conn_id` |

`members` and `conns` are sequences, newest first, because that is what
`ihash_put` and `ihash_get` make of two entries with one key: the newest hides
the older, and `ihash_del` removes the newest. `Free` is written with this
difference between the entry that is removed and the structure that is freed.

What is abstracted: addresses (a message to a member reaches that client), the
external address learned from a HELLO, TALK and the messages on a connection
(those are `VConn`).

| Run | Instance | Shows |
|---|---|---|
| `room` | 2 clients that may each join twice, one opens a connection, INITCONN repeated, 1 VPN switch; constraints `IdsDiffer`, `SwitchesAreApart` | `TypeOK`, `MembersFollow`, `ConnsHaveMembers`, `TwoIsBothWays`, `Meet` |
| `room_conn_id` | 2 clients, 2 IDs, both open connections | `IdIdentifies` fails |

Two clients are enough for a table to miss, repeat or keep a member, since the
server's order is per user; two joins are enough for a message of an earlier
stay to meet the structure of the next one. HELLO and INITCONN messages are
late, lost and repeated. `MCRoom` has one more bound, `SwitchesAreApart`: in a
behaviour with a VPN switch no connection is opened, since the handlers of the
one read nothing that those of the other set, and one client at most joins
again.

`ConnsHaveMembers` is false when two channels of a table have one ID: the table
may then keep a freed channel. `handle_initconn_msg` (`ghl.c:1616`) does not
exclude this; a repeated INITCONN leads to it, and two openers do
(`room_conn_id`). So the property is shown for the behaviours up to the first
such state and no further: the constraint `IdsDiffer` of the run ends the
exploration there. The run has the INITCONN that comes twice, late, after its
channel was freed, in a later stay of its sender or of its receiver. Without the
constraint TLC finds it violated.

`TwoIsBothWays` speaks of messages at any time: a HELLO does not say of which
stay it is, so a late reply to an earlier stay sets the `conn_ok` of the
present one, in the code as in the model. A client joins again (`JoinRoom`) only
after the server has noticed the end of its last stay; a join before that is
one that the server answers later.

Fairness (for `Meet`): `ghl_process` goes on reading the room socket and
running the hello timer (weak fairness of `ReceiveRoom` and `DoHello`), the
server notices a client that left (weak fairness of `ServerPart`), and a HELLO
that is sent again and again arrives again and again (strong fairness of the
two receptions). Without the last one nothing can be said of two clients whose
messages are all lost.

Proofs. `RoomProofs.tla` proves `TypeCorrect` and `OkIsMutual`
(`TwoIsBothWays`) and `TableFollowsServer` (`MembersFollow`), for every finite or infinite set of clients, every number of
stays and switches, and with INITCONN repeated or not.

* `Types` is stronger than `TypeOK`: a client's list of members can be only at
  the head of its stream, and only until it has joined. Without it a MEMBERS
  message could come upon a table that is not empty.
* `PeerInv`: a HELLO reply in the network shows that its sender had been
  reached by the client it is for, so the flag of 2 that it sets is deserved.
* `FollowInv`: for every client in the server's room there is a `Path`, the
  tables it will have after each message of its stream: each message fits the
  table before it (a JOIN is of a user who is not in it, a PART and a switch of
  one who is), and the path ends at the server's table. A server step makes the
  path longer, a message that is read makes it shorter at the other end.

The streams are of any length, so both need induction; the library's induction
theorems cannot be instantiated here, and the proofs look instead at the
smallest place where the claim fails (`Smallest`, from the well-foundedness of
finite sets). For the same reason `Seen` and `Ordered` in `Room` are recursive
functions and choices, not folds and sorts.

`ConnsHaveMembers` is false without an assumption on IDs.
`MembersOutliveConns` shows it for every behaviour in which no client ever has two channels with one ID (`IdsDiffer`): then `Free`
removes the entries of exactly the channels that are freed (`FreeDistinct`), and
a step either keeps the members of the channels or frees the channels with them
(`HeldInv`). It holds for any number of openers and with INITCONN messages
that are repeated or late; that the IDs do differ is not proved, since the code
does not see to it.

Where code and documentation differ:

* `ghl.h:256` explains `conn_ok` as direct bidirectional communication.
  `handle_peer_msg` (`ghl.c:1858`) sets it to 1 on a HELLO request, which shows
  one direction only, and `ghl_conn_connect` accepts 1. `TwoIsBothWays` holds
  of the value 2.
* `PROTOCOL:891` says that the connection ID identifies the virtual connection.
  Each client numbers the connections it opens from the same counter value
  (`gp2pp.c:437`) and looks messages up by the ID alone, so that two clients
  that open a connection to each other at the same time use one ID for both,
  and each handles the other's messages on the wrong channel (`IdIdentifies`).

## The event loop: EventLoop

`EventLoop.tla` puts `Session` under the loop that drives it. `Session` lets a
pending timer fire at any moment and assumes that it fires in the end; here a
timer fires when `ghl_process` finds it expired in the ordered list, a message
is handled when `ghl_process` reads its socket, and the API is called between
two calls of `ghl_process`. `ImplementsSession` is the refinement: every
behaviour of the loop is one of `Session`'s `FairSpec`, its liveness included,
so what `session` checks and `SessionProofs` proves holds of the loop.

| State, action | Code |
|---|---|
| `list` | the list `timers`, each with the time left (relative, 0 once expired) |
| `Insert`, `Kept` | `ghl_new_timer`, `ghl_free_timer` with `llist_add_before`, `llist_del_item` |
| `Call`, `FirePeriodic`, `FireJoin`, `FireServconn` | the timer loop of `ghl_process`, which starts over after each timer; `due` are the timers that had expired when it was called (`now`) |
| `TimersDone`, `Wait`, `Wake`, `Interrupted` | `ghl_fill_tv` and `select` in the blocking mode |
| `ReadRoom`, `ReadPeer`, `ReadServ`, `Return` | the three sockets, in this order |
| `StartServ`, `StartJoin`, `Stop` | the API calls that create and free timers |
| `Arrive`, `Tick` | a socket becomes readable; 1/100 s passes |

| Run | Instance | Shows |
|---|---|---|
| `eventloop` | 1 join, 1 lookup reply, intervals of 1 to 3 ticks, 2 ticks in a second | `ListIsOrdered`, `SleepIsBounded`, `ImplementsSession`, `PeriodicForever`, `ProcessReturns` |

Three different intervals and two equal ones give every order of two timers,
ties, and timers that expire together; a tick may come between any two steps,
also in the middle of `ghl_process`. One join is enough: `Session` itself is
checked with three. Deadlock is not checked: a freed server handle is the end.

Fairness. The application calls `ghl_process` again and again, `ghl_process`
takes its next step, the clock ticks, and a read ends, which is an assumption
on the servers: the sockets block (`set_nonblock`, `ghl.c:1245`, does
nothing), so a server that sends a part of a message and no more stops every
timer. Nothing is assumed of what arrives, and a signal may interrupt every
`select`.

`EventLoopProofs.tla` proves, for all intervals, `LoopIsSession` (the safety
part of `ImplementsSession`: every step of the loop is one of `Session` or
leaves it alone), `TimersInOrder` (`ListIsOrdered`) and `SleepBounded`
(`SleepIsBounded`). Because of the refinement, the invariants of
`SessionProofs` hold in the loop, and the rest builds on them: a timer that
`ghl_new_timer` inserts was not in the list (`TimersAreOwned`), and the
periodic check is in it while the server handle lives. The inductive part is
`LoopInv`: the list is ordered, holds exactly the timers of the handles, and
none has more time left than its interval (`Bounded`, which `SleepBounded`
rests on); timers are due only while `ghl_process` fires them. The lemmas
`InsertFacts` and `OnlyFacts` say what `ghl_new_timer` and `ghl_free_timer` do
to an ordered list. `Only` is `SelectSeq` as a recursive function, which
a proof can expand. What needs fairness (`PeriodicForever`, `ProcessReturns`,
the timeouts of `Session`) is model-checked only.

Where code and documentation differ: `ghl_fill_tv` (`ghl.c:592`) says that it
gives the time until the next timer, and stores 1/100 s as seconds
(`ghl.c:605`), so that a blocking `ghl_process` does not process the timer or the
network activity "whatever comes first" (`ghl.c:612`). `SleepIsBounded` says what is left: the sleep is too
long by the factor `TicksPerSecond`, and bounded by that of the most frequent
timer. (The
intervals of `ghl.h:24`, 111 and 125 are documented in seconds and used in
1/100 s.)

## The retransmission clock: Retrans

`VConn` leaves open when a retransmission timer expires and counts checks
instead of time. `Retrans.tla` is the other half: the sending side of all the
channels of a room, with a clock, and the peer reduced to acknowledgements
that it may send, in any order and repeated. Times are relative to the
timestamps of the code, sequence numbers to `snd_una`.

The checks are not punctual. A check comes `RetransCheck` after the one before,
or later by up to `MaxLate`: the timer is found expired only when the
application calls `ghl_process`, and the blocking mode may sleep up to
`TicksPerSecond * RetransCheck` (`SleepIsBounded` of `EventLoop`), so that
`MaxLate` is at least `(TicksPerSecond - 1) * RetransCheck`, 49.5 seconds, when
nothing else wakes it. `Interval` is the longest time between two checks.

| State, action | Code |
|---|---|
| `Connect`, `Send`, `Close` | `ghl_conn_connect` or an INITCONN, `ghl_conn_send`, `ghl_conn_close` or a FIN |
| `RecvAck`, `RecvData` | `handle_conn_ack_msg` with `do_fast_retrans`; the acknowledgement part of `handle_conn_data_msg` |
| `Estimate`, `Average`, `Timeout` | `update_rto`, in its integer arithmetic |
| `DoConnRetrans` | the whole `do_conn_retrans`, which leaves its loop at the first channel that times out |
| `Tick` | `garena_now` |

| Run | Instance | Shows |
|---|---|---|
| `retrans` | 2 channels, 1 and 2 packets, send queue 2, timeouts 1 to 3, connection timeout 4, a check each tick or one tick late | `RetransmitInTime`, `GivesUp`, `EstimateIsKept` |
| `retrans_idle` | the same with punctual checks and connection timeout 3 | `RetransmittedBeforeDrop` fails |

Two channels are enough for one to be skipped because the other is dropped, two
packets on one of them for a send to restart the connection timeout, and a
check may be late by a whole interval. The windows
of the code are equal (`GP2PP_MAX_SENDQ`, `GP2PP_MAX_IN_TRANSIT`), and the
model assumes no more than `MaxSendq <= MaxInTransit`: then every packet is
sent at once. The intervals keep the order that the code's have.

`RetransProofs.tla` proves all three properties, for any number of channels and
all intervals and windows that the assumptions allow: `SentAgainInTime`
(`RetransmitInTime`), `SilentPeerIsGivenUp` (`GivesUp`) and `EstimateStays`
(`EstimateIsKept`). None is inductive. That a packet is late by x says nothing
of how late it will be if the next check does not come to its channel either.
`Late` counts: when a channel is late by x, at each check since then the loop
has stopped at a channel before it, a different one each time, because a
dropped channel needs `ConnTimeout` to be dropped again
(`NoStarvation`: `Chans = 1` or
`Chans * Interval <= ConnTimeout`). The channels that can have been dropped
are those with a young `ts_ack` (`Skipped`), and at the check one more joins them
(`LateAtCheck`). `Patient` puts the silence of a peer together from a round for
each packet of the window, the clock of the channel, and how late the check that
ends it is. `EstimateStays` is about any series of samples: `Sampled` is a
recursive function over the packets, and its value is positive because the
weights 820 and 204 add up to 1024 (`EstimateFacts`), for which the proof looks
at the smallest place where an estimate is 0. `Inv` was checked with TLC on the
instance of `retrans` first.

`RetransmitInTime` has two parts. However late the checks are, a packet waits
for its timeout and one `Interval` for each check in a row that skipped its
channel (`passed`) and the one that does not. If the checks come often enough
(`NoStarvation`), it waits for one interval for each channel at most. The
condition is not always true of the program: with `GP2PP_CONN_TIMEOUT` = 3000
and punctual checks it allows 60 channels, but a blocking `ghl_process` that
nothing else wakes has intervals of up to 5000, and then it is true of a single
channel only. `GivesUp`, under the same condition: although each send restarts
the connection timeout, a silent peer is given up, because the send queue fills.
`RetransmittedBeforeDrop`: `PROTOCOL:919` says that packets are kept until they
are acknowledged, to be retransmitted after a timeout. `ghl_conn_send`
(`ghl.c:1042`) restarts the timeout when the queue is *not* empty; a packet
that is sent after 30 idle seconds is dropped, with its connection, at the
next check unless the ACK is faster.

## The stream of messages: Framing

`Framing.tla` models how messages are taken from a TCP connection: `gcrp_read`
and `gsp_read`, two blocking `recv` calls with `MSG_WAITALL`, and what
`ghl_process` makes of one that fails, which it decides by `errno`. The bytes
of a connection are counted, not represented; a header read where none starts
tells any length.

| State, action | Code |
|---|---|
| `ReadHeader`, `Lengths`, `Accepted` | the first `recv`, the length and its tests |
| `ReadBody`, `MessageAt` | the second `recv`; `gcrp_input`, `gsp_input` |
| `ReadInterrupted`, `ReadAtEnd`, `Ignored` | a read that fails; `ghl.c:695`, 723 |
| `OtherCallFails` | another call leaves its `errno`: `select` (`ghl.c:678`), a send, one of the application |
| `ServerSend`, `ServerClose`, `Arrive` | external: the server, TCP |

| Run | Instance | Shows |
|---|---|---|
| `framing` | header 2, bodies 0 and 2, blocks of 2, buffer of 4, 3 messages | `InOrder`, `LossIsReal`, `LossIsNoticed`, `AllHandled` |

The instance has an empty body, one that fills the buffer, and room for a
misread header that is accepted and one that is refused. Fairness: what was
sent arrives, and the application goes on calling `ghl_process`. Deadlock is
not checked: a lost connection is the end.

`FramingProofs.tla` proves `MessagesInOrder` (`InOrder`) and
`LostAfterTheLast` (`LossIsReal`) for every size of header, buffer and block,
every set of bodies that fit and every number of messages. The invariant
`FrameInv` says where the reader is: at the start of the message behind the last
one handled, or at its body, until a read is torn. That a header then tells the
length of that message, and no other, rests on `StartGrows`: no two messages
start at one position. `Start` is defined by recursion over the messages, and
the lemmas about it look at the smallest message for which they fail.

The properties say where the code is right and, by their conditions, where it
is not: a signal that interrupts `recv` inside a message loses the alignment
(`torn`; both functions are marked "XXX FIXME handle partial reads"), and a
connection that has ended goes unnoticed as long as `errno` is `EINTR` or
`EWOULDBLOCK` from another call, because `recv` does not set it when it returns
0. `ghl.h:83` says without a condition that GHL_EV_ROOM_DISC is received when
the connection is lost (`EndIsNoticed`); TLC finds that violated. So
`LossIsNoticed` and `AllHandled` have the condition that `errno` is in the end
neither of the two.

A header read where no message starts tells any length up to the buffer size
here. In the code it may also be one that GCRP turns into -1, which its test
(`gcrp.c:106`) lets pass: `recv` then writes behind the buffer, and no property
says anything of what follows, since all of them end at `torn`.

## The hash table and its loops: ConnTable

`ConnTable.tla` models `ihash` as chains in buckets, and the three loops that
free channels while they go through `rh->conns`. In two of them a channel is
freed one iteration late (`todel`), so that `ihash_next` still finds it; all
call the application, which opens and closes connections meanwhile.

| State, action | Code |
|---|---|
| `Put`, `Get`, `Del`, `First`, `NextItem` | `ihash_put`, `ihash_get`, `ihash_del`, `ihash_iter`, `ihash_next` |
| `Open`, `Close` | `ghl_conn_connect` or INITCONN, `ghl_conn_close` or FIN |
| `StartRetrans`, `Pass`, `Closed`, `TimesOut` | `do_conn_retrans` |
| `StartPart`, `Pass`, `Leaves` | PART in `handle_room_activity` |
| `StartFree`, `Announce`, `Discard`, `EndFree` | `ghl_free_room`, `ihash_free` |
| `Return` | the CONN_FIN callback returns |

| Run | Instance | Shows |
|---|---|---|
| `conntable` | 2 buckets, IDs 0, 1, 2, 4, 3 channels, 2 members | `TableIsExact`, `IteratorIsValid`, `NoneOfAbsent`, `LoopVisitsAll`, `LoopsEnd` |

Three of the IDs share a bucket: a chain loses its first, middle or last item
during the loop, and one opened in a callback comes before or after the current
item. Fairness: the library runs its loops, and the callback returns.

Assumed: IDs do not collide (`room_conn_id` shows that they may), and the
application opens no connection to a member whose PART it was told of. An
application that does so in a callback of that PART leaves a channel whose
member is freed.

`ConnTableProofs.tla` proves the four safety properties for any number of
buckets, IDs, channels and members: `TableHoldsTheLive` (`TableIsExact`),
`PointersAreLive` (`IteratorIsValid`), `ChannelsHaveMembers` (`NoneOfAbsent`) and
`NoneIsSkipped` (`LoopVisitsAll`). The items of the chains are in one order of
places, bucket first (`AtOrBehind`); `PutFacts`, `DelFacts`, `FirstFacts` and
`NextFacts` say what the functions of `ihash` do to it. The inductive
invariant `Inv` says which channels the table holds (`Entered`, `Distinct`),
where the pointers of the loops may point (`Pointers`: the deferred `todel` is
live, has been visited and is not the current item), that what a loop has yet to
visit is behind its current item (`Ahead`), what `ghl_free_room` leaves
(`Freeing`), and that a channel whose member has left is still to be freed
(`Leaving`). The order is needed because a callback changes the chains under the
loop: `PutFacts` and `DelFacts` show that inserting and removing never moves an
item that is still to come in front of the current one. The only assumptions are
those of the model. `Inv` was checked with TLC on the instance of `conntable` first.

## Done and to come

Modules: `VConn`, `ReliableStream`, `Session`, `Room`, `EventLoop`, `Retrans`,
`Framing`, `ConnTable`; proofs: `VConnProofs`, `VConnStreamProofs`,
`SessionProofs`, `RoomProofs`, `FramingProofs`, `EventLoopProofs`,
`ConnTableProofs`, `RetransProofs`. Every safety property of the passing runs is
proved, with `ConnsHaveMembers` of `Room` for tables without collisions of IDs.
Three runs refute a sentence of the documentation: `session_outcome`,
`room_conn_id`, `retrans_idle`. What remains is what the next section lists.

## Out of reach and left out

Liveness (`QueueDrains`, `CloseEnds`, `AllDelivered`, `ConnectEnds`,
`JoinEnds`, `Meet`, `PeriodicForever`, `ProcessReturns`, `LossIsNoticed`,
`AllHandled`, `LoopsEnd`, and the fairness part of `ImplementsSession`) rests on
fairness and is checked by TLC only.

Not modelled:

* the encoding of messages and the cryptographic session: calls of other
  libraries without a state of their own;
* the library's set-up and its failures, and every `malloc` and `sendto` that
  fails;
* the room usage counts: a table that the last reply overwrites;
* the congestion fields of a channel (`flightsize`, `cwnd`, `ssthresh`), which
  are set and never read, except in log lines;
* API calls from a callback in the middle of a handler, except sends and
  closes in the CONN_RECV and CONN_FIN callbacks: leaving the room or freeing the server
  handle there frees what the handler goes on to use (`ghl.c:698`), and the
  documentation does not say that it is allowed;
* the wrap of sequence numbers at 2^32.
