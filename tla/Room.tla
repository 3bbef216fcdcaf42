-------------------------------- MODULE Room --------------------------------
(***************************************************************************)
(* The clients of one room: how the member table of each (rh->members)     *)
(* follows the room server, how members find each other by HELLO messages  *)
(* (conn_ok), and which virtual connections the connection table           *)
(* (rh->conns) holds as members come and go.  What happens on a connection *)
(* is module VConn, the outcome of a join module Session.                  *)
(*                                                                         *)
(* One action is one API call, one message handler or one timer handler of *)
(* a client.  A user's ID is the client itself; `stay' tells apart the     *)
(* member structures that a user gets, one after the other, by joining     *)
(* again.  Addresses are left out: a message that is sent to a member is   *)
(* sent to that client.                                                    *)
(*                                                                         *)
(* External: the room server answers a join with the list of members, and  *)
(* tells the others of joins, parts and VPN switches, in one order that    *)
(* every client sees; it may tell the client that joins, too.  UDP loses,  *)
(* repeats and reorders.                                                   *)
(***************************************************************************)
EXTENDS Integers, FiniteSets, Sequences, SequencesExt

CONSTANTS
  Clients,      \* the users
  Initiators,   \* those whose applications open connections
  Repeats,      \* whether the network repeats INITCONN messages
  ConnIds,      \* number of connection IDs (2^15 in the code)
  MaxStays,     \* bound: joins of a user
  MaxConns,     \* bound: connections opened by a user
  MaxToggles    \* bound: VPN switches

ASSUME InitiatorsAssumption == Initiators \subseteq Clients
ASSUME RepeatsAssumption == Repeats \in BOOLEAN
ASSUME ConnIdsAssumption == ConnIds \in Nat \ {0}
ASSUME BoundsAssumption == /\ MaxStays \in Nat
                           /\ MaxConns \in Nat
                           /\ MaxToggles \in Nat

VARIABLES
  present,   \* server: the users in the room
  stays,     \* server: number of times each user has joined
  vpn,       \* server: whether the VPN of each user is enabled
  stream,    \* messages on the TCP connection to each client
  room,      \* client: "out", "joining" or "in" (rh, rh->joined)
  members,   \* client: rh->members, newest first
  conns,     \* client: rh->conns; of those with one ID the newest comes first
  opened,    \* client: current_id of gp2pp_new_conn_id
  net,       \* UDP messages under way
  reached,   \* history: pairs of clients, a HELLO of the first reached the second
  toggles    \* number of VPN switches

serverVars == <<present, stays, vpn, stream, toggles>>
vars == <<serverVars, room, members, conns, opened, net, reached>>

-----------------------------------------------------------------------------
(* Messages and structures *)

Info(u) == [user |-> u, stay |-> stays[u], vpn |-> vpn[u]]

MembersMsg(infos) == [kind |-> "MEMBERS", infos |-> infos]
JoinMsg(info) == [kind |-> "JOIN", info |-> info]
PartMsg(u) == [kind |-> "PART", user |-> u]
VpnMsg(u, v) == [kind |-> IF v THEN "STARTVPN" ELSE "STOPVPN", user |-> u]

HelloReq(from, to) == [kind |-> "HELLO_REQ", from |-> from, to |-> to]
HelloRep(from, to) == [kind |-> "HELLO_REP", from |-> from, to |-> to]
InitConn(from, to, id) ==
  [kind |-> "INITCONN", from |-> from, to |-> to, id |-> id]

\* member_extract: conn_ok is 0 at first.
Member(info) ==
  [user |-> info.user, stay |-> info.stay, vpn |-> info.vpn, ok |-> 0]

\* ihash_get on rh->members: the position of the newest structure of u, or 0.
Find(c, u) == SelectInSeq(members[c], LAMBDA r : r.user = u)
Known(c, u) == Find(c, u) # 0
MemberFromId(c, u) == members[c][Find(c, u)]
Others(c) == {r.user : r \in ToSet(members[c])} \ {c}

\* change is made to the structure of u, if there is one.
Change(c, u, change(_)) ==
  members' = IF Known(c, u) THEN [members EXCEPT ![c][Find(c, u)] = change(@)]
                            ELSE members

-----------------------------------------------------------------------------
(* The connection table *)

\* A channel with the member r; `opener' (history) is the client that opened
\* the connection.
Channel(id, r, opener) ==
  [id |-> id, user |-> r.user, stay |-> r.stay, freed |-> FALSE,
   opener |-> opener]

\* The channel that a message with this ID is for: ihash_get finds the newest.
ConnFromId(c, id) == SelectInSeq(conns[c], LAMBDA ch : ch.id = id)

\* The sequence of the numbers in S, the smallest first.
Ordered(S) ==
  CHOOSE f \in [1 .. Cardinality(S) -> S] :
    \A i, j \in DOMAIN f : i < j => f[i] < f[j]

\* ihash_del and conn_free for each channel of `gone', a set of positions:
\* ihash_del removes the newest entry with that ID, conn_free frees the
\* channel that was meant.
Free(table, gone) ==
  LET SameId(i, S) == Cardinality({j \in S : table[j].id = table[i].id})
      kept == Ordered({i \in DOMAIN table :
                         SameId(i, 1 .. i) > SameId(i, gone)})
  IN  [k \in DOMAIN kept |->
        [table[kept[k]] EXCEPT !.freed = @ \/ kept[k] \in gone]]

\* Mutant: the first ID is 1.
IdFromOne(n) == (n % ConnIds) + 1

\* gp2pp_new_conn_id, the n-th call of a client: every client counts alike.
NewConnId(n) == n % ConnIds

-----------------------------------------------------------------------------
Init ==
  /\ present = {}
  /\ stays = [u \in Clients |-> 0]
  /\ vpn = [u \in Clients |-> FALSE]
  /\ stream = [c \in Clients |-> << >>]
  /\ room = [c \in Clients |-> "out"]
  /\ members = [c \in Clients |-> << >>]
  /\ conns = [c \in Clients |-> << >>]
  /\ opened = [c \in Clients |-> 0]
  /\ net = {}
  /\ reached = {}
  /\ toggles = 0

-----------------------------------------------------------------------------
(* The room server (external) *)

Linked == {c \in present : room[c] # "out"}

\* msg goes to every client of `to'.
Told(to, msg) ==
  [c \in Clients |-> IF c \in to THEN Append(stream[c], msg) ELSE stream[c]]

\* The server lets c in, and may announce c to c itself.
ServerJoin(c) ==
  /\ room[c] = "joining" /\ c \notin present
  /\ stays[c] < MaxStays
  /\ present' = present \cup {c}
  /\ stays' = [stays EXCEPT ![c] = @ + 1]
  /\ vpn' = [vpn EXCEPT ![c] = FALSE]
  /\ LET infos == {Info(u)' : u \in present'}
         join == JoinMsg(Info(c)')
     IN  \E echo \in {<< >>, <<join>>} :
           stream' = [Told(Linked, join)
                        EXCEPT ![c] = <<MembersMsg(infos)>> \o echo]
  /\ UNCHANGED <<room, members, conns, opened, net, reached, toggles>>

\* The server notices that c has left.
ServerPart(c) ==
  /\ c \in present /\ room[c] = "out"
  /\ present' = present \ {c}
  /\ stream' = Told(Linked, PartMsg(c))
  /\ UNCHANGED <<stays, vpn, room, members, conns, opened, net, reached,
                 toggles>>

\* ghl_togglevpn, and the server tells the others.
ToggleVpn(c) ==
  /\ c \in present /\ room[c] = "in"
  /\ toggles < MaxToggles
  /\ toggles' = toggles + 1
  /\ vpn' = [vpn EXCEPT ![c] = ~@]
  /\ stream' = Told(Linked \ {c}, VpnMsg(c, vpn'[c]))
  /\ UNCHANGED <<present, stays, room, members, conns, opened, net, reached>>

-----------------------------------------------------------------------------
(* Joining and leaving *)

\* ghl_join_room.  The code does not ask whether the server has noticed the end
\* of the last stay; nothing but `room' changes until it has, so a join that
\* comes before is put off.
JoinRoom(c) ==
  /\ room[c] = "out" /\ c \notin present
  /\ stays[c] < MaxStays
  /\ room' = [room EXCEPT ![c] = "joining"]
  /\ UNCHANGED <<serverVars, members, conns, opened, net, reached>>

\* ghl_free_room, after ghl_leave_room, the loss of the room server or a join
\* that failed.
FreeRoom(c) ==
  /\ room[c] # "out"
  /\ room' = [room EXCEPT ![c] = "out"]
  /\ members' = [members EXCEPT ![c] = << >>]
  /\ conns' = [conns EXCEPT ![c] = << >>]
  /\ stream' = [stream EXCEPT ![c] = << >>]
  /\ UNCHANGED <<present, stays, vpn, opened, net, reached, toggles>>

-----------------------------------------------------------------------------
(* Messages of the room server *)

\* send_hello to every member of `to'
Hello(c, to) == {HelloReq(c, u) : u \in to}

\* The next message of the room server.
Receive(c, kind) ==
  /\ stream[c] # << >> /\ Head(stream[c]).kind = kind
  /\ stream' = [stream EXCEPT ![c] = Tail(@)]
  /\ UNCHANGED <<present, stays, vpn, opened, reached, toggles>>

\* handle_room_join, GCRP_MSG_MEMBERS
Members(c) ==
  /\ Receive(c, "MEMBERS")
  /\ room' = [room EXCEPT ![c] = "in"]
  /\ members' = [members EXCEPT ![c] =
                   SetToSeq({Member(i) : i \in Head(stream[c]).infos}) \o @]
  /\ net' = net \cup Hello(c, Others(c)')
  /\ UNCHANGED conns

\* Mutant: a client that joins lists itself again.
JoinedAny(c, info) == <<Member(info)>>

\* A client ignores its own join.
Joined(c, info) == IF info.user = c THEN << >> ELSE <<Member(info)>>

\* handle_room_activity, GCRP_MSG_JOIN
Join(c) ==
  /\ Receive(c, "JOIN")
  /\ LET joined == Joined(c, Head(stream[c]).info)
     IN  /\ members' = [members EXCEPT ![c] = joined \o @]
         /\ net' = net \cup Hello(c, {r.user : r \in ToSet(joined)})
  /\ UNCHANGED <<room, conns>>

\* Mutant: the last channel found is not freed.
AllButOldest(table, r) ==
  {i \in DOMAIN table :
     /\ table[i].user = r.user /\ table[i].stay = r.stay
     /\ \E j \in DOMAIN table : j > i /\ table[j].user = r.user}

\* The channels with the member r.
ChannelsOf(table, r) ==
  {i \in DOMAIN table : table[i].user = r.user /\ table[i].stay = r.stay}

\* handle_room_activity, GCRP_MSG_PART
Part(c) ==
  /\ Receive(c, "PART")
  /\ LET u == Head(stream[c]).user
     IN  IF Known(c, u)
           THEN /\ members' = [members EXCEPT ![c] = RemoveAt(@, Find(c, u))]
                /\ conns' = [conns EXCEPT ![c] =
                               Free(@, ChannelsOf(@, MemberFromId(c, u)))]
           ELSE UNCHANGED <<members, conns>>
  /\ UNCHANGED <<room, net>>

\* handle_room_activity, GCRP_MSG_STARTVPN and GCRP_MSG_STOPVPN
SwitchVpn(c, kind) ==
  /\ Receive(c, kind)
  /\ LET Switch(r) == [r EXCEPT !.vpn = (kind = "STARTVPN")]
     IN  Change(c, Head(stream[c]).user, Switch)
  /\ UNCHANGED <<room, conns, net>>

ReceiveRoom(c) ==
  \/ Members(c) \/ Join(c) \/ Part(c)
  \/ SwitchVpn(c, "STARTVPN") \/ SwitchVpn(c, "STOPVPN")

-----------------------------------------------------------------------------
(* HELLO messages *)

\* What is left under way of a message that arrives.
Left(msg) ==
  IF msg.kind = "INITCONN" /\ ~Repeats THEN {net \ {msg}}
                                       ELSE {net, net \ {msg}}

\* do_hello
DoHello(c) ==
  /\ room[c] # "out"
  /\ net' = net \cup Hello(c, Others(c))
  /\ UNCHANGED <<serverVars, room, members, conns, opened, reached>>

\* Mutant: a request is taken for a proof of both directions.
OkAtOnce(ok) == 2

\* conn_ok after a HELLO request.
OkAfterReq(ok) == IF ok = 0 THEN 1 ELSE ok

\* Mutant: a member that is known to be reachable gets no answer.
ReplyToNew(c, r) == IF r.ok = 0 THEN {HelloRep(c, r.user)} ELSE {}

\* The answer to a HELLO request of the member r.
Reply(c, r) == {HelloRep(c, r.user)}

\* handle_peer_msg, GP2PP_MSG_HELLO_REQ; a message of an unknown user is
\* ignored.
ReceiveReq(c, from) ==
  LET msg == HelloReq(from, c)
      Heard(r) == [r EXCEPT !.ok = OkAfterReq(@)]
  IN  /\ msg \in net
      /\ reached' = reached \cup {<<from, c>>}
      /\ \E left \in Left(msg) :
           net' = left \cup IF Known(c, from)
                              THEN Reply(c, MemberFromId(c, from)) ELSE {}
      /\ Change(c, from, Heard)
      /\ UNCHANGED <<serverVars, room, conns, opened>>

\* handle_peer_msg, GP2PP_MSG_HELLO_REP
ReceiveRep(c, from) ==
  LET msg == HelloRep(from, c)
      Answered(r) == [r EXCEPT !.ok = 2]
  IN  /\ msg \in net
      /\ reached' = reached \cup {<<from, c>>}
      /\ net' \in Left(msg)
      /\ Change(c, from, Answered)
      /\ UNCHANGED <<serverVars, room, conns, opened>>

\* A HELLO message is lost.
Lose(msg) ==
  /\ msg.kind \in {"HELLO_REQ", "HELLO_REP"}
  /\ net' = net \ {msg}
  /\ UNCHANGED <<serverVars, room, members, conns, opened, reached>>

-----------------------------------------------------------------------------
(* Connections *)

Put(c, channel) == conns' = [conns EXCEPT ![c] = <<channel>> \o @]

\* ghl_conn_connect: the member must have been heard of.
Connect(c, r) ==
  /\ c \in Initiators
  /\ opened[c] < MaxConns
  /\ r.ok # 0
  /\ LET id == NewConnId(opened[c])
     IN  /\ Put(c, Channel(id, r, c))
         /\ net' = net \cup {InitConn(c, r.user, id)}
  /\ opened' = [opened EXCEPT ![c] = @ + 1]
  /\ UNCHANGED <<serverVars, room, members, reached>>

\* handle_initconn_msg
ReceiveInitConn(c, msg) ==
  /\ msg.kind = "INITCONN" /\ msg.to = c
  /\ net' \in Left(msg)
  /\ IF Known(c, msg.from)
       THEN Put(c, Channel(msg.id, MemberFromId(c, msg.from), msg.from))
       ELSE UNCHANGED conns
  /\ UNCHANGED <<serverVars, room, members, opened, reached>>

\* do_conn_retrans frees a channel that has timed out or is closed (VConn).
FreeConn(c, i) ==
  /\ conns' = [conns EXCEPT ![c] = Free(@, {i})]
  /\ UNCHANGED <<serverVars, room, members, opened, net, reached>>

-----------------------------------------------------------------------------
Next ==
  \/ \E c \in Clients :
       \/ ServerJoin(c) \/ ServerPart(c) \/ ToggleVpn(c)
       \/ JoinRoom(c) \/ FreeRoom(c) \/ ReceiveRoom(c) \/ DoHello(c)
       \/ \E from \in Clients : ReceiveReq(c, from) \/ ReceiveRep(c, from)
       \/ \E r \in ToSet(members[c]) : Connect(c, r)
       \/ \E msg \in net : ReceiveInitConn(c, msg)
       \/ \E i \in DOMAIN conns[c] : FreeConn(c, i)
  \/ \E msg \in net : Lose(msg)

Spec == Init /\ [][Next]_vars

\* ghl_process goes on reading the room socket and running the hello timer,
\* the server answers, and a HELLO that is sent again and again arrives again
\* and again.
Fairness ==
  \A c \in Clients :
    /\ WF_vars(ServerPart(c)) /\ WF_vars(ReceiveRoom(c)) /\ WF_vars(DoHello(c))
    /\ \A from \in Clients \ {c} : /\ SF_vars(ReceiveReq(c, from))
                                   /\ SF_vars(ReceiveRep(c, from))

FairSpec == Spec /\ Fairness

-----------------------------------------------------------------------------
(* Properties *)

\* Every variable keeps its type.
TypeOK ==
  /\ present \subseteq Clients
  /\ stays \in [Clients -> 0 .. MaxStays]
  /\ vpn \in [Clients -> BOOLEAN]
  /\ room \in [Clients -> {"out", "joining", "in"}]
  /\ \A c \in Clients :
       /\ members[c] \in Seq([user : Clients, stay : 1 .. MaxStays,
                              vpn : BOOLEAN, ok : 0 .. 2])
       /\ conns[c] \in Seq([user : Clients, stay : 1 .. MaxStays,
                            id : 0 .. ConnIds - 1, freed : BOOLEAN,
                            opener : Clients])
       /\ room[c] # "in" => members[c] = << >> /\ conns[c] = << >>
  /\ opened \in [Clients -> 0 .. MaxConns]
  /\ reached \subseteq Clients \X Clients
  /\ toggles \in 0 .. MaxToggles

\* A table of infos after the client has read one more message, as it should.
After(infos, msg) ==
  CASE msg.kind = "MEMBERS" -> infos \cup msg.infos
    [] msg.kind = "JOIN" -> infos \cup {msg.info}
    [] msg.kind = "PART" -> {i \in infos : i.user # msg.user}
    [] OTHER -> {IF i.user = msg.user
                   THEN [i EXCEPT !.vpn = (msg.kind = "STARTVPN")]
                   ELSE i : i \in infos}

View(c) == {[user |-> r.user, stay |-> r.stay, vpn |-> r.vpn] :
              r \in ToSet(members[c])}

\* What View(c) will be when c has read all that is in its stream.
Seen(c) ==
  LET s[k \in 0 .. Len(stream[c])] ==
        IF k = 0 THEN View(c) ELSE After(s[k - 1], stream[c][k])
  IN  s[Len(stream[c])]

\* The member table of a client, with the messages that it has still to read,
\* is the server's: each user once, with the structure of its last join and
\* the state of its VPN.  A client is not told of its own VPN, and sees itself
\* with the one that the list gave.  The list is a snapshot, taken between the
\* joins, parts and switches of others.
MembersFollow ==
  \A c \in Linked :
    /\ {i \in Seen(c) : i.user # c} = {Info(u) : u \in present \ {c}}
    /\ \A i, j \in DOMAIN members[c] :
         members[c][i].user = members[c][j].user => i = j

\* No two channels of a client's table have the same connection ID.
IdsDiffer ==
  \A c \in Clients : \A i, j \in 1 .. Len(conns[c]) :
    conns[c][i].id = conns[c][j].id => i = j

\* A channel's member pointer is to a structure that is in the member table,
\* and the connection table holds no freed channel, when members part and join
\* again, channels are freed one by one and INITCONN messages arrive late or
\* twice: as long as IdsDiffer, which handle_initconn_msg (ghl.c:1616) does not
\* look after.
ConnsHaveMembers ==
  \A c \in Clients : \A i \in DOMAIN conns[c] :
    LET ch == conns[c][i]
    IN  /\ ~ch.freed
        /\ \E r \in ToSet(members[c]) :
             r.user = ch.user /\ r.stay = ch.stay

\* conn_ok is 2 only if messages have arrived in both directions.
TwoIsBothWays ==
  \A c \in Clients : \A r \in ToSet(members[c]) :
    r.ok = 2 => <<c, r.user>> \in reached /\ <<r.user, c>> \in reached

\* Two clients that stay in the room find each other, however many HELLO
\* messages are lost or come before the other is known.
Meet ==
  \A c, u \in Clients :
    c # u /\ <>[]({c, u} \subseteq present)
      => <>[](\E r \in ToSet(members[c]) : r.user = u /\ r.ok = 2)

\* The connection ID identifies the virtual connection (PROTOCOL:891): a
\* message that c sends on a channel with d is handled, if at all, on d's
\* channel of the same connection.
IdIdentifies ==
  \A c, d \in Clients : \A i \in DOMAIN conns[c] :
    LET found == ConnFromId(d, conns[c][i].id)
    IN  conns[c][i].user = d /\ found # 0 =>
          conns[d][found].opener = conns[c][i].opener
=============================================================================
