------------------------------ MODULE Session ------------------------------
(***************************************************************************)
(* The handles of libgarena and the timers that refer to them: the server  *)
(* handle (ghl_serv_t) from ghl_new_serv to ghl_free_serv, the room handle *)
(* (ghl_room_t) from ghl_join_room to ghl_free_room, and who frees which   *)
(* timer when.                                                             *)
(*                                                                         *)
(* One action is one API call, one message handler or one timer handler    *)
(* together with what ghl_process does around it.  An API call that the    *)
(* application makes in a callback at the end of a handler is the action   *)
(* that follows.  The time at which a timer expires is left open: a        *)
(* pending timer may fire at any moment.  The three periodic timers (hello,*)
(* connection retransmission, room information) replace themselves when    *)
(* they fire and change nothing else here; they matter when they are       *)
(* freed.  Which members and connections a room has is module Room.        *)
(*                                                                         *)
(* External: the main server answers the login at most once and may refuse *)
(* at any time; its reply to the address lookup is a UDP message that may  *)
(* be lost or repeated.  The room server answers a join once.  Either may  *)
(* close its connection.                                                   *)
(***************************************************************************)
EXTENDS Naturals, Sequences

CONSTANTS
  MaxJoins,    \* bound: calls of ghl_join_room
  MaxLookups   \* bound: lookup replies received

ASSUME JoinsAssumption == MaxJoins \in Nat
ASSUME LookupsAssumption == MaxLookups \in Nat

\* A room handle is the number of the ghl_join_room call; 0 is NULL.
Rooms == 1 .. MaxJoins

VARIABLES
  serv,              \* the server handle: "none", "live" or "freed"
  auth_ok,           \* serv->auth_ok
  lookup_ok,         \* serv->lookup_ok
  connected,         \* serv->connected
  servsock,          \* whether serv->servsock is open
  servconn_timeout,  \* whether the pointer serv->servconn_timeout is set
  room,              \* serv->room
  joined,            \* rh->joined of that room
  timeout,           \* whether the pointer rh->timeout of that room is set
  timers,            \* the timers in the list of ghl_process
  servEvents,        \* history: results of GHL_EV_SERVCONN
  roomEvents,        \* history: GHL_EV_ME_JOIN and GHL_EV_ROOM_DISC, per room
  joins,             \* history: rooms the application asked to join
  lookups,           \* number of lookup replies received
  said,              \* what the main server has said: "login", "refused"
  answered           \* the rooms whose server has answered the join

servVars == <<serv, auth_ok, lookup_ok, connected, servsock, servconn_timeout>>
roomVars == <<room, joined, timeout>>
external == <<lookups, said, answered>>
vars == <<servVars, roomVars, timers, servEvents, roomEvents, joins, external>>

Timer(fun, of) == [fun |-> fun, of |-> of]
Periodic == {Timer(f, 0) : f \in {"do_hello", "do_conn_retrans",
                                  "do_roominfo_query"}}
ServconnTimer == Timer("handle_servconn_timeout", 0)
JoinTimer(r) == Timer("handle_room_join_timeout", r)

-----------------------------------------------------------------------------
Init ==
  /\ serv = "none"
  /\ auth_ok = FALSE /\ lookup_ok = FALSE /\ connected = FALSE
  /\ servsock = FALSE
  /\ servconn_timeout = FALSE
  /\ room = 0 /\ joined = FALSE /\ timeout = FALSE
  /\ timers = {}
  /\ servEvents = << >>
  /\ roomEvents = [r \in Rooms |-> << >>]
  /\ joins = 0
  /\ lookups = 0
  /\ said = {}
  /\ answered = {}

\* ghl_new_serv: the login and the address lookup are under way, and the four
\* timers of the server handle are pending.
NewServ ==
  /\ serv = "none"
  /\ serv' = "live"
  /\ servsock' = TRUE
  /\ servconn_timeout' = TRUE
  /\ timers' = Periodic \cup {ServconnTimer}
  /\ UNCHANGED <<auth_ok, lookup_ok, connected, roomVars, servEvents,
                 roomEvents, joins, external>>

-----------------------------------------------------------------------------
(* Freeing *)

\* The join timer that rh->timeout points to, if any.
RoomTimer == IF timeout THEN {JoinTimer(room)} ELSE {}

\* ghl_free_room.
FreeRoom == room' = 0 /\ joined' = FALSE /\ timeout' = FALSE

Signal(event) == roomEvents' = [roomEvents EXCEPT ![room] = Append(@, event)]

\* Mutant: the join timer is left pending.
LeftPending(t, r) == t

\* The join timer of room r is freed.
Stopped(t, r) == t \ {JoinTimer(r)}

\* ghl_free_serv when serv->servconn_timeout points to the timers `servconn':
\* the room goes with the server handle, without an event of its own.
FreeServ(servconn) ==
  /\ serv' = "freed"
  /\ servsock' = FALSE
  /\ servconn_timeout' = FALSE
  /\ FreeRoom
  /\ timers' = timers \ (Periodic \cup servconn \cup RoomTimer)
  /\ UNCHANGED <<auth_ok, lookup_ok, connected>>

\* The application frees the server handle.
AppFreesServ ==
  /\ serv = "live"
  /\ FreeServ(IF servconn_timeout THEN {ServconnTimer} ELSE {})
  /\ UNCHANGED <<servEvents, roomEvents, joins, external>>

-----------------------------------------------------------------------------
(* The connection to the main server *)

\* Mutant: one of the two replies is enough.
ReadyWithOne(auth, lookup) == auth \/ lookup

\* serv->connected once the login and the lookup have been answered.
Ready(auth, lookup) == auth /\ lookup

\* Mutant: the timer is stopped by the login reply alone.
StoppedByLogin(t, ready) == t \ {ServconnTimer}

\* handle_auth stops the connection timer only when it completes the
\* connection.
AfterLogin(t, ready) == IF ready THEN t \ {ServconnTimer} ELSE t

\* handle_auth, GSP_MSG_LOGIN_REPLY
LoginReply ==
  /\ serv = "live" /\ servsock
  /\ "login" \notin said
  /\ said' = said \cup {"login"}
  /\ auth_ok' = TRUE
  /\ connected' = Ready(TRUE, lookup_ok)
  /\ timers' = AfterLogin(timers, connected')
  /\ servconn_timeout' = (servconn_timeout /\ ~connected')
  /\ servEvents' = IF connected' THEN Append(servEvents, "SUCCESS")
                                 ELSE servEvents
  /\ UNCHANGED <<serv, lookup_ok, servsock, roomVars, roomEvents, joins,
                 lookups, answered>>

\* handle_auth, GSP_MSG_AUTH_FAIL: a handle that is connected lives on
\* without the main server, another one fails and is freed.
AuthFail ==
  /\ serv = "live" /\ servsock
  /\ "refused" \notin said
  /\ said' = said \cup {"refused"}
  /\ \/ /\ connected
        /\ servsock' = FALSE
        /\ UNCHANGED <<serv, auth_ok, lookup_ok, connected, servconn_timeout,
                       roomVars, timers, servEvents>>
     \/ /\ ~connected
        /\ servEvents' = Append(servEvents, "FAILURE")
        /\ FreeServ({ServconnTimer})
  /\ UNCHANGED <<roomEvents, joins, lookups, answered>>

\* ghl_process: the main server's connection is lost, "but we don't care".
ServerLost ==
  /\ serv = "live" /\ servsock
  /\ servsock' = FALSE
  /\ UNCHANGED <<serv, auth_ok, lookup_ok, connected, servconn_timeout,
                 roomVars, timers, servEvents, roomEvents, joins,
                 external>>

\* handle_ip_lookup: the connection timer is not touched.
LookupReply ==
  /\ serv = "live"
  /\ lookups < MaxLookups
  /\ lookups' = lookups + 1
  /\ lookup_ok' = TRUE
  /\ connected' = Ready(auth_ok, TRUE)
  /\ servEvents' = IF connected' THEN Append(servEvents, "SUCCESS")
                                 ELSE servEvents
  /\ UNCHANGED <<serv, auth_ok, servsock, servconn_timeout, roomVars, timers,
                 roomEvents, joins, said, answered>>

\* handle_servconn_timeout: the application is told of the failure, and
\* ghl_process frees the timer, then the server handle (need_free).
ServconnTimeout ==
  /\ ServconnTimer \in timers
  /\ servEvents' = Append(servEvents, "FAILURE")
  /\ FreeServ({ServconnTimer})
  /\ UNCHANGED <<roomEvents, joins, external>>

-----------------------------------------------------------------------------
(* The room *)

\* Mutant: the join timer is not created.
Untimed(r) == {}

\* The timer that ghl_join_room creates.
NewTimer(r) == {JoinTimer(r)}

\* ghl_join_room
JoinRoom ==
  /\ serv = "live" /\ connected
  /\ room = 0
  /\ joins < MaxJoins
  /\ joins' = joins + 1
  /\ room' = joins'
  /\ joined' = FALSE
  /\ timeout' = TRUE
  /\ timers' = timers \cup NewTimer(joins')
  /\ UNCHANGED <<servVars, servEvents, roomEvents, external>>

\* ghl_leave_room, when the PART could be sent.
LeaveRoom ==
  /\ room # 0
  /\ FreeRoom
  /\ timers' = timers \ RoomTimer
  /\ UNCHANGED <<servVars, servEvents, roomEvents, joins, external>>

\* handle_room_join, GCRP_MSG_MEMBERS with this client in the list
Members ==
  /\ room # 0 /\ room \notin answered
  /\ answered' = answered \cup {room}
  /\ timers' = Stopped(timers, room)
  /\ timeout' = FALSE
  /\ joined' = TRUE
  /\ Signal("JOINED")
  /\ UNCHANGED <<servVars, room, servEvents, joins, lookups, said>>

\* handle_room_join, GCRP_MSG_JOIN_FAILED, or GCRP_MSG_MEMBERS without this
\* client
JoinFailed ==
  /\ room # 0 /\ room \notin answered
  /\ answered' = answered \cup {room}
  /\ timers' = Stopped(timers, room)
  /\ Signal("FAILED")
  /\ FreeRoom
  /\ UNCHANGED <<servVars, servEvents, joins, lookups, said>>

\* Mutant: the event of a member that leaves stands for the lost room.
PartEvent == "PART"

\* Mutant: a lost room is reported as a failed join, joined or not.
FailedAnyway == "FAILED"

LossEvent == IF joined THEN "DISC" ELSE "FAILED"

\* ghl_process: the room server's connection is lost.
RoomLost ==
  /\ room # 0
  /\ timers' = timers \ RoomTimer
  /\ Signal(LossEvent)
  /\ FreeRoom
  /\ UNCHANGED <<servVars, servEvents, joins, external>>

\* handle_room_join_timeout: rh->timeout is cleared before ghl_free_room, and
\* ghl_process frees the timer.
JoinTimeout ==
  /\ JoinTimer(room) \in timers
  /\ timers' = timers \ {JoinTimer(room)}
  /\ Signal("FAILED")
  /\ FreeRoom
  /\ UNCHANGED <<servVars, servEvents, joins, external>>

-----------------------------------------------------------------------------
Next ==
  \/ NewServ \/ AppFreesServ
  \/ LoginReply \/ AuthFail \/ ServerLost \/ LookupReply \/ ServconnTimeout
  \/ JoinRoom \/ LeaveRoom \/ Members \/ JoinFailed \/ RoomLost \/ JoinTimeout

Spec == Init /\ [][Next]_vars

\* A pending timer fires in the end, if the application goes on calling
\* ghl_process.  Nothing is assumed of the servers.
FairSpec == Spec /\ WF_vars(ServconnTimeout) /\ WF_vars(JoinTimeout)

-----------------------------------------------------------------------------
(* Properties *)

Funs == {"do_hello", "do_conn_retrans", "do_roominfo_query",
         "handle_servconn_timeout", "handle_room_join_timeout"}

AllTimers == [fun : Funs, of : 0 .. MaxJoins]
ServHistories == Seq({"SUCCESS", "FAILURE"})
RoomHistories == [Rooms -> Seq({"JOINED", "FAILED", "DISC"})]

FlagsOK ==
  /\ serv \in {"none", "live", "freed"}
  /\ auth_ok \in BOOLEAN /\ lookup_ok \in BOOLEAN /\ connected \in BOOLEAN
  /\ servsock \in BOOLEAN /\ servconn_timeout \in BOOLEAN
  /\ joined \in BOOLEAN /\ timeout \in BOOLEAN

CountersOK ==
  /\ joins \in 0 .. MaxJoins
  /\ room \in 0 .. joins
  /\ lookups \in 0 .. MaxLookups
  /\ said \subseteq {"login", "refused"}
  /\ answered \subseteq 1 .. joins

HistoriesOK ==
  /\ timers \subseteq AllTimers
  /\ servEvents \in ServHistories
  /\ roomEvents \in RoomHistories

\* Every variable keeps its type; a room handle is 0 or one that was created.
TypeOK == FlagsOK /\ CountersOK /\ HistoriesOK

\* A timer handler dereferences the handle it was created with, and
\* ghl_free_timer the timer it is given.  So the list holds timers of live
\* handles only, the pointers in the handles are exactly those to timers in the
\* list, and the periodic timers run as long as the server handle lives: after
\* any race of replies, refusals, timeouts, disconnections and API calls.
TimersAreOwned ==
  /\ \A t \in Periodic : t \in timers <=> serv = "live"
  /\ ServconnTimer \in timers <=> servconn_timeout
  /\ servconn_timeout => serv = "live"
  /\ \A r \in 0 .. MaxJoins : JoinTimer(r) \in timers <=> (timeout /\ r = room)
  /\ timeout => room # 0 /\ ~joined
  /\ room # 0 => serv = "live"

\* The application learns at most one outcome of a ghl_join_room, and has
\* learnt it exactly when the room is no longer pending; only a room that it
\* was in is reported lost, once, and nothing is reported of a room after that
\* (GHL_EV_ME_JOIN and GHL_EV_ROOM_DISC, ghl.h:27-31, 82-88).
JoinOutcome ==
  \A r \in Rooms :
    /\ roomEvents[r] \in {<< >>, <<"JOINED">>, <<"FAILED">>,
                          <<"JOINED", "DISC">>}
    /\ r = room =>
         roomEvents[r] = IF joined THEN <<"JOINED">> ELSE << >>
    /\ r > joins => roomEvents[r] = << >>

\* Whichever reply comes first, `connected' means that both have come and
\* that the application has been told so (ghl.h:205).
ConnectedIsAnnounced ==
  /\ connected <=> auth_ok /\ lookup_ok
  /\ connected <=> \E i \in 1 .. Len(servEvents) : servEvents[i] = "SUCCESS"

\* A connection attempt has an outcome, even if no server ever answers.
ConnectEnds ==
  serv = "live" /\ servEvents = << >> ~> serv = "freed" \/ servEvents # << >>

\* A join attempt has an outcome, even if the room server never answers.
JoinEnds ==
  \A r \in Rooms : room = r /\ ~joined ~> room # r \/ joined

\* GHL_EV_SERVCONN says that the connection is completed or has failed
\* (ghl.h:91): one that is completed does not fail afterwards.
SuccessIsFinal ==
  \A i, j \in 1 .. Len(servEvents) :
    servEvents[i] = "SUCCESS" /\ i < j => servEvents[j] # "FAILURE"
=============================================================================
