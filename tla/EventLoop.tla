----------------------------- MODULE EventLoop -----------------------------
(***************************************************************************)
(* ghl_process, the ordered list of timers and the clock, around the       *)
(* handles of module Session: an action of Session happens here when the   *)
(* application calls the API, when ghl_process finds the timer expired, or *)
(* when it reads the message.                                              *)
(*                                                                         *)
(* Time is relative: a timer has a remaining time, 0 once it has expired,  *)
(* and time passes at any moment, in the middle of ghl_process too.  The   *)
(* application calls ghl_process in its blocking mode or with a set of     *)
(* sockets that are readable, and calls the API between two calls of       *)
(* ghl_process.                                                            *)
(*                                                                         *)
(* A socket is readable or not; what a message says, or that the           *)
(* connection is lost, is decided when it is read.  The reads are blocking *)
(* and wait for the whole message (MSG_WAITALL), so a read is the moment   *)
(* at which the rest of the message is there.                              *)
(***************************************************************************)
EXTENDS Session, SequencesExt

CONSTANTS
  HelloInterval,     \* GP2PP_HELLO_INTERVAL
  RetransCheck,      \* GP2PP_CONN_RETRANS_CHECK
  RoominfoInterval,  \* GHL_ROOMINFO_QUERY_INTERVAL
  ServconnLimit,     \* GHL_SERVCONN_TIMEOUT
  JoinLimit,         \* GHL_JOIN_TIMEOUT
  TicksPerSecond     \* garena_now counts 1/100 s

Intervals ==
  {HelloInterval, RetransCheck, RoominfoInterval, ServconnLimit, JoinLimit}

ASSUME IntervalsAssumption == Intervals \subseteq Nat \ {0}
ASSUME TicksAssumption == TicksPerSecond \in Nat \ {0}

Sockets == {"room", "peer", "serv"}
NULL == {"NULL"}

VARIABLES
  list,      \* the list `timers': each timer with the time until it expires
  due,       \* the timers that had expired when ghl_process was called
  pc,        \* where ghl_process is; "app" outside of it
  fds,       \* the argument of ghl_process, then the sockets still to read
  sleep,     \* time that select will still wait
  readable   \* the sockets with something to read

loopVars == <<list, due, pc, fds, sleep, readable>>
allVars == <<vars, loopVars>>

Interval(t) ==
  CASE t.fun = "do_hello" -> HelloInterval
    [] t.fun = "do_conn_retrans" -> RetransCheck
    [] t.fun = "do_roominfo_query" -> RoominfoInterval
    [] t.fun = "handle_servconn_timeout" -> ServconnLimit
    [] t.fun = "handle_room_join_timeout" -> JoinLimit

New(t) == [timer |-> t, left |-> Interval(t)]

\* room, peersock and servsock, in the order in which ghl_process reads them.
Open(s) ==
  CASE s = "room" -> room # 0
    [] s = "peer" -> serv = "live"
    [] s = "serv" -> servsock

-----------------------------------------------------------------------------
(* The list of timers *)

\* Mutant: the new timer goes to the end.
AtTail(l, t) == Append(l, New(t))

\* ghl_new_timer: before the first timer that does not expire earlier.
Insert(l, t) ==
  LET pos == SelectInSeq(l, LAMBDA e : e.left >= Interval(t))
  IN  IF pos = 0 THEN Append(l, New(t)) ELSE InsertAt(l, pos, New(t))

TimersOf(l) == {e.timer : e \in ToSet(l)}

\* The entries of l with a timer of ts, in the same order: SelectSeq, as a
\* recursive function that a proof can expand.
Only(l, ts) ==
  LET kept[i \in 0 .. Len(l)] ==
        IF i = 0 THEN << >>
        ELSE IF l[i].timer \in ts THEN Append(kept[i - 1], l[i])
        ELSE kept[i - 1]
  IN  kept[Len(l)]

Without(l, t) == Only(l, TimersOf(l) \ {t})

\* Mutant: the timer of a room that is freed stays.
KeptWithRoom == Only(list, timers' \cup {t \in TimersOf(list) : t.of # 0})

\* ghl_free_timer, for the timers that the step frees.
Kept == Only(list, timers')

\* Mutant: do_hello returns without a new timer.
Gone(l, t) ==
  IF t.fun = "do_hello" THEN Without(l, t) ELSE Insert(Without(l, t), t)

\* A periodic handler creates its next timer; the old one is freed.
Renewed(l, t) == Insert(Without(l, t), t)

Expired(e) == e.left = 0
FirstDue == list[SelectInSeq(list, LAMBDA e : e.timer \in due)].timer

-----------------------------------------------------------------------------
LoopInit ==
  /\ Init
  /\ list = << >> /\ due = {}
  /\ pc = "app" /\ fds = {} /\ sleep = 0
  /\ readable = {}

\* What a step of Session does to the sockets and the list.
Effect ==
  /\ list' = Kept
  /\ readable' = {s \in readable : Open(s)'}

(* The application *)

StartServ ==
  /\ pc = "app"
  /\ NewServ
  /\ LET l1 == Insert(<< >>, Timer("do_hello", 0))
         l2 == Insert(l1, Timer("do_conn_retrans", 0))
         l3 == Insert(l2, Timer("do_roominfo_query", 0))
     IN  list' = Insert(l3, ServconnTimer)
  /\ UNCHANGED <<due, pc, fds, sleep, readable>>

StartJoin ==
  /\ pc = "app"
  /\ JoinRoom
  /\ list' = Insert(list, JoinTimer(joins'))
  /\ UNCHANGED <<due, pc, fds, sleep, readable>>

Stop ==
  /\ pc = "app"
  /\ AppFreesServ \/ LeaveRoom
  /\ Effect
  /\ UNCHANGED <<due, pc, fds, sleep>>

ExpiredTimers == {e.timer : e \in {x \in ToSet(list) : Expired(x)}}

\* ghl_process is called.
Call ==
  /\ pc = "app" /\ serv = "live"
  /\ pc' = "timers"
  /\ due' = ExpiredTimers
  /\ fds' \in {NULL} \cup SUBSET readable
  /\ UNCHANGED <<vars, list, sleep, readable>>

-----------------------------------------------------------------------------
(* ghl_process: the timers *)

\* Mutant: the timer that has fired is found again.
StillDue(t) == due

\* The timers still to fire after the handler of t.
DueAfter(t) == (due \ {t}) \cap timers'

Fires(t) == pc = "timers" /\ due # {} /\ t = FirstDue

FirePeriodic(t) ==
  /\ Fires(t) /\ t \in Periodic
  /\ UNCHANGED vars
  /\ list' = Renewed(list, t)
  /\ due' = DueAfter(t)
  /\ UNCHANGED <<pc, fds, sleep, readable>>

FireJoin ==
  /\ Fires(JoinTimer(room))
  /\ JoinTimeout
  /\ Effect
  /\ due' = DueAfter(JoinTimer(room))
  /\ UNCHANGED <<pc, fds, sleep>>

\* need_free: the server handle is freed, and ghl_process returns -1.
FireServconn ==
  /\ Fires(ServconnTimer)
  /\ ServconnTimeout
  /\ Effect
  /\ due' = {} /\ pc' = "app" /\ fds' = {}
  /\ UNCHANGED sleep

Fire == (\E t \in Periodic : FirePeriodic(t)) \/ FireJoin \/ FireServconn

\* Mutant: the wait is that for the last timer of the list.
WaitForLast == Last(list).left * TicksPerSecond

\* ghl_fill_tv: the time until the first timer, in 1/100 s, is stored as a
\* number of seconds.
Wait == Head(list).left * TicksPerSecond

\* Every expired timer has fired.
TimersDone ==
  /\ pc = "timers" /\ due = {}
  /\ IF fds = NULL
       THEN pc' = "select" /\ sleep' = Wait /\ fds' = {}
       ELSE pc' = "net" /\ UNCHANGED <<sleep, fds>>
  /\ UNCHANGED <<vars, list, due, readable>>

-----------------------------------------------------------------------------
(* ghl_process: select and the sockets *)

Wake ==
  /\ pc = "select" /\ (readable # {} \/ sleep = 0)
  /\ pc' = "net" /\ fds' = readable /\ sleep' = 0
  /\ UNCHANGED <<vars, list, due, readable>>

\* A signal interrupts select: ghl_process returns -1.
Interrupted ==
  /\ pc = "select"
  /\ pc' = "app" /\ sleep' = 0
  /\ UNCHANGED <<vars, list, due, fds, readable>>

\* The sockets that ghl_process has still to read.
ToRead == {s \in fds : Open(s)}

Turn(s) == pc = "net" /\ s \in ToRead

\* What a step of Session does to the timers, once the socket has been read.
AfterRead(s) ==
  /\ fds' = fds \ {s}
  /\ list' = Kept
  /\ readable' = {q \in readable \ {s} : Open(q)'}
  /\ UNCHANGED <<due, pc, sleep>>

\* The answer to the join, a lost connection, or another message.
ReadRoom ==
  /\ Turn("room")
  /\ Members \/ JoinFailed \/ RoomLost \/ UNCHANGED vars
  /\ AfterRead("room")

ReadPeer ==
  /\ Turn("peer") /\ "room" \notin ToRead
  /\ LookupReply \/ UNCHANGED vars
  /\ AfterRead("peer")

ReadServ ==
  /\ Turn("serv") /\ ToRead = {"serv"}
  /\ LoginReply \/ AuthFail \/ ServerLost \/ UNCHANGED vars
  /\ AfterRead("serv")

Read == ReadRoom \/ ReadPeer \/ ReadServ

Return ==
  /\ pc = "net" /\ ToRead = {}
  /\ pc' = "app" /\ fds' = {}
  /\ UNCHANGED <<vars, list, due, sleep, readable>>

-----------------------------------------------------------------------------
(* The environment *)

Arrive(s) ==
  /\ Open(s) /\ s \notin readable
  /\ readable' = readable \cup {s}
  /\ UNCHANGED <<vars, list, due, pc, fds, sleep>>

\* The remaining time, 0 once the timer has expired.
Less(n) == IF n = 0 THEN 0 ELSE n - 1

\* 1/100 s passes.
Tick ==
  /\ serv = "live"
  /\ list' = [i \in DOMAIN list |-> [list[i] EXCEPT !.left = Less(@)]]
  /\ sleep' = Less(sleep)
  /\ UNCHANGED <<vars, due, pc, fds, readable>>

-----------------------------------------------------------------------------
LoopNext ==
  \/ StartServ \/ StartJoin \/ Stop \/ Call
  \/ Fire \/ TimersDone
  \/ Wake \/ Interrupted \/ Read \/ Return
  \/ \E s \in Sockets : Arrive(s)
  \/ Tick

LoopSpec == LoopInit /\ [][LoopNext]_allVars

\* The application calls ghl_process again and again, ghl_process goes on, time
\* passes, and a server that starts a message also ends it.  Nothing is assumed
\* of what the servers send, nor of signals.
LoopFairness ==
  /\ WF_allVars(Call) /\ WF_allVars(Tick)
  /\ WF_allVars(Fire) /\ WF_allVars(TimersDone)
  /\ WF_allVars(Wake) /\ WF_allVars(Read) /\ WF_allVars(Return)

FairLoopSpec == LoopSpec /\ LoopFairness

-----------------------------------------------------------------------------
(* Properties *)

\* The list holds each pending timer once, in the order in which they expire,
\* whoever created or freed timers between; so ghl_fill_tv, which looks at the
\* head only, sees the next one, and the loop of ghl_process never comes upon
\* a timer that a handler before has freed.
ListIsOrdered ==
  /\ TimersOf(list) = timers
  /\ \A i, j \in DOMAIN list : i < j =>
       list[i].timer # list[j].timer /\ list[i].left <= list[j].left
  /\ due \subseteq timers

\* ghl_fill_tv stores 1/100 s as seconds, so select sleeps TicksPerSecond times
\* too long if nothing arrives.  But the check of do_conn_retrans, the most
\* frequent one, is always in the list, and the sleep never longer than that
\* makes it.
SleepIsBounded == sleep <= TicksPerSecond * RetransCheck

\* The handles behave as module Session says, including that a pending timeout
\* fires in the end: what is assumed there follows from the list, the clock and
\* the loop, whatever arrives on the sockets.
ImplementsSession == FairSpec

\* The retransmission check, the hello and the room information query go on as
\* long as the server handle lives, even if there is always something to read
\* or signals keep interrupting select.
PeriodicForever ==
  \A t \in Periodic :
    []<>(serv # "live") \/ []<><<FirePeriodic(t)>>_allVars

\* ghl_process returns: the timer loop ends although the handlers create new
\* timers and ghl_process starts over after each one, and select wakes up.
ProcessReturns == pc # "app" ~> pc = "app"
=============================================================================
