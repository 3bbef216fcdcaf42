--------------------------- MODULE SessionProofs ---------------------------
(***************************************************************************)
(* Proofs about module Session, for every number of joins and lookup       *)
(* replies: the four invariants that the run checks.  Together they are    *)
(* inductive.                                                              *)
(***************************************************************************)
EXTENDS Session, TLAPS

\* The timers are told apart by their functions and rooms.
LEMMA TimersDiffer ==
  /\ ServconnTimer \notin Periodic
  /\ \A r : JoinTimer(r) \notin Periodic /\ JoinTimer(r) # ServconnTimer
  /\ \A r, s : JoinTimer(r) = JoinTimer(s) => r = s
  /\ Periodic \subseteq AllTimers
  /\ ServconnTimer \in AllTimers
  /\ \A r \in 0 .. MaxJoins : JoinTimer(r) \in AllTimers
BY JoinsAssumption
   DEF Periodic, ServconnTimer, JoinTimer, Timer, Funs, AllTimers

\* What is appended to a history belongs to it.
LEMMA EventsGrow ==
  /\ \A s \in ServHistories :
       /\ Append(s, "SUCCESS") \in ServHistories
       /\ Append(s, "FAILURE") \in ServHistories
  /\ \A f \in RoomHistories, r \in Rooms, e \in {"JOINED", "FAILED", "DISC"} :
       [f EXCEPT ![r] = Append(@, e)] \in RoomHistories
<1>1. \A s \in ServHistories :
        /\ Append(s, "SUCCESS") \in ServHistories
        /\ Append(s, "FAILURE") \in ServHistories
  BY DEF ServHistories
<1>2. ASSUME NEW f \in RoomHistories, NEW r \in Rooms,
             NEW e \in {"JOINED", "FAILED", "DISC"}
      PROVE  [f EXCEPT ![r] = Append(@, e)] \in RoomHistories
  <2>1. Append(f[r], e) \in Seq({"JOINED", "FAILED", "DISC"})
    BY DEF RoomHistories
  <2> QED
    BY <2>1 DEF RoomHistories
<1> QED
  BY <1>1, <1>2

\* A room that is joined is one whose server has answered: it answers once.
JoinedIsAnswered == joined => room # 0 /\ room \in answered

Invariants ==
  /\ TypeOK
  /\ TimersAreOwned
  /\ JoinedIsAnswered
  /\ JoinOutcome
  /\ ConnectedIsAnnounced

\* The initial state satisfies them: there is nothing yet.
LEMMA InitInvariants == Init => Invariants
<1> SUFFICES ASSUME Init PROVE Invariants
  OBVIOUS
<1>1. TypeOK
  <2>1. servEvents \in ServHistories
    BY DEF Init, ServHistories
  <2>2. << >> \in Seq({"JOINED", "FAILED", "DISC"})
    OBVIOUS
  <2>3. roomEvents \in RoomHistories
    BY <2>2 DEF Init, RoomHistories
  <2>4. FlagsOK
    BY DEF Init, FlagsOK
  <2>5. CountersOK
    BY JoinsAssumption, LookupsAssumption DEF Init, CountersOK
  <2> QED
    BY <2>1, <2>3, <2>4, <2>5 DEF Init, TypeOK, HistoriesOK
<1>2. TimersAreOwned
  BY TimersDiffer DEF Init, TimersAreOwned
<1>3. JoinOutcome
  BY DEF Init, JoinOutcome, Rooms
<1>4. ConnectedIsAnnounced
  BY DEF Init, ConnectedIsAnnounced
<1> QED
  BY <1>1, <1>2, <1>3, <1>4 DEF Invariants, JoinedIsAnswered, Init

\* The room handle in use is one of Rooms, and so is the next one.
LEMMA RoomInRooms ==
  TypeOK => /\ room # 0 => room \in Rooms
            /\ room \in 0 .. MaxJoins
            /\ joins < MaxJoins => joins + 1 \in 1 .. MaxJoins
BY JoinsAssumption DEF TypeOK, CountersOK, Rooms

\* The histories that a join can have.
LEMMA ShortHistories ==
  /\ Append(<< >>, "JOINED") = <<"JOINED">>
  /\ Append(<< >>, "FAILED") = <<"FAILED">>
  /\ Append(<<"JOINED">>, "DISC") = <<"JOINED", "DISC">>
<1> DEFINE h == Append(<<"JOINED">>, "DISC")
<1>1. /\ h \in Seq({"JOINED", "DISC"})
      /\ Len(h) = 2 /\ h[1] = "JOINED" /\ h[2] = "DISC"
  OBVIOUS
<1> HIDE DEF h
<1>2. h = <<"JOINED", "DISC">>
  BY <1>1
<1>3. /\ Append(<< >>, "JOINED") = <<"JOINED">>
      /\ Append(<< >>, "FAILED") = <<"FAILED">>
  OBVIOUS
<1> QED
  BY <1>2, <1>3 DEF h

\* A step that reports nothing of a room keeps JoinOutcome.
LEMMA SilentStep ==
  ASSUME TypeOK, JoinOutcome, roomEvents' = roomEvents,
         \/ room' = 0 /\ joins' = joins
         \/ room' = room /\ joined' = joined /\ joins' = joins
         \/ room' = joins + 1 /\ joined' = FALSE /\ joins' = joins + 1
  PROVE  JoinOutcome'
BY JoinsAssumption DEF TypeOK, CountersOK, JoinOutcome, Rooms

\* A step that reports the right event of the room keeps JoinOutcome.
LEMMA SignalStep ==
  ASSUME TypeOK, JoinOutcome, room # 0, NEW event, Signal(event),
         joins' = joins,
         \/ ~joined /\ event = "JOINED" /\ room' = room /\ joined' = TRUE
         \/ ~joined /\ event = "FAILED" /\ room' = 0
         \/ joined /\ event = "DISC" /\ room' = 0
  PROVE  JoinOutcome'
<1>1. room \in Rooms /\ room <= joins
  BY RoomInRooms, JoinsAssumption DEF TypeOK, CountersOK
<1>2. roomEvents'[room] = Append(roomEvents[room], event)
  BY <1>1 DEF Signal, TypeOK, HistoriesOK, RoomHistories
<1>3. \A r \in Rooms \ {room} : roomEvents'[r] = roomEvents[r]
  BY DEF Signal, TypeOK, HistoriesOK, RoomHistories
<1>4. roomEvents[room] = IF joined THEN <<"JOINED">> ELSE << >>
  BY <1>1 DEF JoinOutcome
<1>5. roomEvents'[room] = IF joined THEN <<"JOINED", "DISC">>
                          ELSE IF event = "JOINED" THEN <<"JOINED">>
                          ELSE <<"FAILED">>
  BY <1>2, <1>4, ShortHistories DEF TypeOK, FlagsOK
<1>6. ASSUME NEW r \in Rooms
      PROVE  /\ roomEvents'[r] \in {<< >>, <<"JOINED">>, <<"FAILED">>,
                                    <<"JOINED", "DISC">>}
             /\ r = room' => roomEvents'[r] = IF joined' THEN <<"JOINED">>
                                                         ELSE << >>
             /\ r > joins' => roomEvents'[r] = << >>
  <2>1. CASE r = room
    BY <2>1, <1>1, <1>5 DEF TypeOK, FlagsOK, CountersOK, Rooms
  <2>2. CASE r # room
    BY <2>2, <1>3 DEF JoinOutcome, Rooms
  <2> QED
    BY <2>1, <2>2
<1> QED
  BY <1>6 DEF JoinOutcome

\* Every step keeps the types of the flags.
LEMMA FlagsStep ==
  TypeOK /\ [Next]_vars => FlagsOK'
<1> SUFFICES ASSUME TypeOK, [Next]_vars PROVE FlagsOK'
  OBVIOUS
<1> USE DEF TypeOK, FlagsOK
<1>1. CASE NewServ
  BY <1>1 DEF NewServ, roomVars, external
<1>2. CASE AppFreesServ
  BY <1>2
     DEF AppFreesServ, FreeServ, FreeRoom, servVars, roomVars, external,
         RoomTimer
<1>3. CASE LoginReply
  BY <1>3 DEF LoginReply, roomVars, AfterLogin, Ready
<1>4. CASE AuthFail
  BY <1>4 DEF AuthFail, FreeServ, FreeRoom, RoomTimer, roomVars
<1>5. CASE ServerLost
  BY <1>5 DEF ServerLost, roomVars, external
<1>6. CASE LookupReply
  BY <1>6 DEF LookupReply, roomVars, Ready
<1>7. CASE ServconnTimeout
  BY <1>7 DEF ServconnTimeout, FreeServ, FreeRoom, RoomTimer, external
<1>8. CASE JoinRoom
  BY <1>8 DEF JoinRoom, servVars, external, NewTimer
<1>9. CASE LeaveRoom
  BY <1>9 DEF LeaveRoom, servVars, external, FreeRoom, RoomTimer
<1>10. CASE Members
  BY <1>10 DEF Members, servVars, Stopped, Signal
<1>11. CASE JoinFailed
  BY <1>11 DEF JoinFailed, servVars, Stopped, Signal, FreeRoom
<1>12. CASE RoomLost
  BY <1>12
     DEF RoomLost, servVars, external, RoomTimer, Signal, LossEvent,
         FreeRoom
<1>13. CASE JoinTimeout
  BY <1>13 DEF JoinTimeout, servVars, external, Signal, FreeRoom
<1>14. CASE UNCHANGED vars
  BY <1>14 DEF vars, servVars, roomVars, external
<1> QED
  BY <1>1, <1>2, <1>3, <1>4, <1>5, <1>6, <1>7, <1>8, <1>9, <1>10, <1>11,
     <1>12, <1>13, <1>14
     DEF Next

\* Every step keeps the types of the counters.
LEMMA CountersStep ==
  TypeOK /\ [Next]_vars => CountersOK'
<1> SUFFICES ASSUME TypeOK, [Next]_vars PROVE CountersOK'
  OBVIOUS
<1> USE DEF TypeOK, CountersOK, Rooms
<1>1. CASE NewServ
  BY <1>1, JoinsAssumption, LookupsAssumption DEF NewServ, roomVars, external
<1>2. CASE AppFreesServ
  BY <1>2, JoinsAssumption, LookupsAssumption
     DEF AppFreesServ, FreeServ, FreeRoom, servVars, roomVars, external,
         RoomTimer
<1>3. CASE LoginReply
  BY <1>3, JoinsAssumption, LookupsAssumption
     DEF LoginReply, roomVars, AfterLogin, Ready
<1>4. CASE AuthFail
  BY <1>4, JoinsAssumption, LookupsAssumption
     DEF AuthFail, FreeServ, FreeRoom, RoomTimer, roomVars
<1>5. CASE ServerLost
  BY <1>5, JoinsAssumption, LookupsAssumption
     DEF ServerLost, roomVars, external
<1>6. CASE LookupReply
  BY <1>6, JoinsAssumption, LookupsAssumption
     DEF LookupReply, roomVars, Ready
<1>7. CASE ServconnTimeout
  BY <1>7, JoinsAssumption, LookupsAssumption
     DEF ServconnTimeout, FreeServ, FreeRoom, RoomTimer, external
<1>8. CASE JoinRoom
  BY <1>8, JoinsAssumption, LookupsAssumption
     DEF JoinRoom, servVars, external, NewTimer
<1>9. CASE LeaveRoom
  BY <1>9, JoinsAssumption, LookupsAssumption
     DEF LeaveRoom, servVars, external, FreeRoom, RoomTimer
<1>10. CASE Members
  BY <1>10, JoinsAssumption, LookupsAssumption
     DEF Members, servVars, Stopped, Signal
<1>11. CASE JoinFailed
  BY <1>11, JoinsAssumption, LookupsAssumption
     DEF JoinFailed, servVars, Stopped, Signal, FreeRoom
<1>12. CASE RoomLost
  BY <1>12, JoinsAssumption, LookupsAssumption
     DEF RoomLost, servVars, external, RoomTimer, Signal, LossEvent,
         FreeRoom
<1>13. CASE JoinTimeout
  BY <1>13, JoinsAssumption, LookupsAssumption
     DEF JoinTimeout, servVars, external, Signal, FreeRoom
<1>14. CASE UNCHANGED vars
  BY <1>14 DEF vars, servVars, roomVars, external
<1> QED
  BY <1>1, <1>2, <1>3, <1>4, <1>5, <1>6, <1>7, <1>8, <1>9, <1>10, <1>11,
     <1>12, <1>13, <1>14
     DEF Next

\* Every step keeps the types of the timers and of the histories.
LEMMA HistoriesStep ==
  TypeOK /\ TimersAreOwned /\ [Next]_vars => HistoriesOK'
<1> SUFFICES ASSUME TypeOK, TimersAreOwned, [Next]_vars PROVE HistoriesOK'
  OBVIOUS
<1> USE DEF TypeOK, TimersAreOwned, HistoriesOK
<1>1. CASE NewServ
  BY <1>1, EventsGrow, RoomInRooms, TimersDiffer
     DEF NewServ, roomVars, external
<1>2. CASE AppFreesServ
  BY <1>2, EventsGrow, RoomInRooms, TimersDiffer
     DEF AppFreesServ, FreeServ, FreeRoom, servVars, roomVars, external,
         RoomTimer
<1>3. CASE LoginReply
  BY <1>3, EventsGrow, RoomInRooms, TimersDiffer
     DEF LoginReply, roomVars, AfterLogin, Ready
<1>4. CASE AuthFail
  BY <1>4, EventsGrow, RoomInRooms, TimersDiffer
     DEF AuthFail, FreeServ, FreeRoom, RoomTimer, roomVars
<1>5. CASE ServerLost
  BY <1>5, EventsGrow, RoomInRooms, TimersDiffer
     DEF ServerLost, roomVars, external
<1>6. CASE LookupReply
  BY <1>6, EventsGrow, RoomInRooms, TimersDiffer
     DEF LookupReply, roomVars, Ready
<1>7. CASE ServconnTimeout
  BY <1>7, EventsGrow, RoomInRooms, TimersDiffer
     DEF ServconnTimeout, FreeServ, FreeRoom, RoomTimer, external
<1>8. CASE JoinRoom
  BY <1>8, EventsGrow, RoomInRooms, TimersDiffer
     DEF JoinRoom, servVars, external, NewTimer
<1>9. CASE LeaveRoom
  BY <1>9, EventsGrow, RoomInRooms, TimersDiffer
     DEF LeaveRoom, servVars, external, FreeRoom, RoomTimer
<1>10. CASE Members
  BY <1>10, EventsGrow, RoomInRooms, TimersDiffer
     DEF Members, servVars, Stopped, Signal
<1>11. CASE JoinFailed
  BY <1>11, EventsGrow, RoomInRooms, TimersDiffer
     DEF JoinFailed, servVars, Stopped, Signal, FreeRoom
<1>12. CASE RoomLost
  BY <1>12, EventsGrow, RoomInRooms, TimersDiffer
     DEF RoomLost, servVars, external, RoomTimer, Signal, LossEvent,
         FreeRoom
<1>13. CASE JoinTimeout
  BY <1>13, EventsGrow, RoomInRooms, TimersDiffer
     DEF JoinTimeout, servVars, external, Signal, FreeRoom
<1>14. CASE UNCHANGED vars
  BY <1>14 DEF vars, servVars, roomVars, external
<1> QED
  BY <1>1, <1>2, <1>3, <1>4, <1>5, <1>6, <1>7, <1>8, <1>9, <1>10, <1>11,
     <1>12, <1>13, <1>14
     DEF Next

\* Every step keeps the timers with their owners.
LEMMA TimersStep ==
  TypeOK /\ TimersAreOwned /\ [Next]_vars => TimersAreOwned'
<1> SUFFICES ASSUME TypeOK, TimersAreOwned, [Next]_vars PROVE TimersAreOwned'
  OBVIOUS
<1> USE DEF TypeOK, FlagsOK, CountersOK, TimersAreOwned
<1>1. CASE NewServ
  BY <1>1, TimersDiffer, RoomInRooms, JoinsAssumption
     DEF NewServ, roomVars, external
<1>2. CASE AppFreesServ
  BY <1>2, TimersDiffer, RoomInRooms, JoinsAssumption
     DEF AppFreesServ, FreeServ, FreeRoom, servVars, roomVars, external,
         RoomTimer
<1>3. CASE LoginReply
  BY <1>3, TimersDiffer, RoomInRooms, JoinsAssumption
     DEF LoginReply, roomVars, AfterLogin, Ready
<1>4. CASE AuthFail
  BY <1>4, TimersDiffer, RoomInRooms, JoinsAssumption
     DEF AuthFail, FreeServ, FreeRoom, RoomTimer, roomVars
<1>5. CASE ServerLost
  BY <1>5, TimersDiffer, RoomInRooms, JoinsAssumption
     DEF ServerLost, roomVars, external
<1>6. CASE LookupReply
  BY <1>6, TimersDiffer, RoomInRooms, JoinsAssumption
     DEF LookupReply, roomVars, Ready
<1>7. CASE ServconnTimeout
  BY <1>7, TimersDiffer, RoomInRooms, JoinsAssumption
     DEF ServconnTimeout, FreeServ, FreeRoom, RoomTimer, external
<1>8. CASE JoinRoom
  BY <1>8, TimersDiffer, RoomInRooms, JoinsAssumption
     DEF JoinRoom, servVars, external, NewTimer
<1>9. CASE LeaveRoom
  BY <1>9, TimersDiffer, RoomInRooms, JoinsAssumption
     DEF LeaveRoom, servVars, external, FreeRoom, RoomTimer
<1>10. CASE Members
  BY <1>10, TimersDiffer, RoomInRooms, JoinsAssumption
     DEF Members, servVars, Stopped, Signal
<1>11. CASE JoinFailed
  BY <1>11, TimersDiffer, RoomInRooms, JoinsAssumption
     DEF JoinFailed, servVars, Stopped, Signal, FreeRoom
<1>12. CASE RoomLost
  BY <1>12, TimersDiffer, RoomInRooms, JoinsAssumption
     DEF RoomLost, servVars, external, RoomTimer, Signal, LossEvent,
         FreeRoom
<1>13. CASE JoinTimeout
  BY <1>13, TimersDiffer, RoomInRooms, JoinsAssumption
     DEF JoinTimeout, servVars, external, Signal, FreeRoom
<1>14. CASE UNCHANGED vars
  BY <1>14 DEF vars, servVars, roomVars, external
<1> QED
  BY <1>1, <1>2, <1>3, <1>4, <1>5, <1>6, <1>7, <1>8, <1>9, <1>10, <1>11,
     <1>12, <1>13, <1>14
     DEF Next

\* Every step keeps joined rooms answered.
LEMMA AnsweredStep ==
  TypeOK /\ JoinedIsAnswered /\ [Next]_vars => JoinedIsAnswered'
<1> SUFFICES ASSUME TypeOK, JoinedIsAnswered, [Next]_vars
             PROVE  JoinedIsAnswered'
  OBVIOUS
<1> USE DEF TypeOK, FlagsOK, CountersOK, JoinedIsAnswered
<1>1. CASE NewServ
  BY <1>1, JoinsAssumption DEF NewServ, roomVars, external
<1>2. CASE AppFreesServ
  BY <1>2, JoinsAssumption
     DEF AppFreesServ, FreeServ, FreeRoom, servVars, roomVars, external,
         RoomTimer
<1>3. CASE LoginReply
  BY <1>3, JoinsAssumption DEF LoginReply, roomVars, AfterLogin, Ready
<1>4. CASE AuthFail
  BY <1>4, JoinsAssumption
     DEF AuthFail, FreeServ, FreeRoom, RoomTimer, roomVars
<1>5. CASE ServerLost
  BY <1>5, JoinsAssumption DEF ServerLost, roomVars, external
<1>6. CASE LookupReply
  BY <1>6, JoinsAssumption DEF LookupReply, roomVars, Ready
<1>7. CASE ServconnTimeout
  BY <1>7, JoinsAssumption
     DEF ServconnTimeout, FreeServ, FreeRoom, RoomTimer, external
<1>8. CASE JoinRoom
  BY <1>8, JoinsAssumption DEF JoinRoom, servVars, external, NewTimer
<1>9. CASE LeaveRoom
  BY <1>9, JoinsAssumption
     DEF LeaveRoom, servVars, external, FreeRoom, RoomTimer
<1>10. CASE Members
  BY <1>10, JoinsAssumption DEF Members, servVars, Stopped, Signal
<1>11. CASE JoinFailed
  BY <1>11, JoinsAssumption
     DEF JoinFailed, servVars, Stopped, Signal, FreeRoom
<1>12. CASE RoomLost
  BY <1>12, JoinsAssumption
     DEF RoomLost, servVars, external, RoomTimer, Signal, LossEvent,
         FreeRoom
<1>13. CASE JoinTimeout
  BY <1>13, JoinsAssumption
     DEF JoinTimeout, servVars, external, Signal, FreeRoom
<1>14. CASE UNCHANGED vars
  BY <1>14 DEF vars, servVars, roomVars, external
<1> QED
  BY <1>1, <1>2, <1>3, <1>4, <1>5, <1>6, <1>7, <1>8, <1>9, <1>10, <1>11,
     <1>12, <1>13, <1>14
     DEF Next

\* Every step keeps the history of joins.
LEMMA OutcomeStep ==
  TypeOK /\ TimersAreOwned /\ JoinedIsAnswered /\ JoinOutcome /\ [Next]_vars
    => JoinOutcome'
<1> SUFFICES ASSUME TypeOK, TimersAreOwned, JoinedIsAnswered, JoinOutcome,
                    [Next]_vars
             PROVE  JoinOutcome'
  OBVIOUS
<1>1. CASE NewServ
  BY <1>1, SilentStep DEF NewServ, roomVars, external
<1>2. CASE AppFreesServ
  BY <1>2, SilentStep
     DEF AppFreesServ, FreeServ, FreeRoom, servVars, roomVars, external,
         RoomTimer
<1>3. CASE LoginReply
  BY <1>3, SilentStep DEF LoginReply, roomVars, AfterLogin, Ready
<1>4. CASE AuthFail
  BY <1>4, SilentStep DEF AuthFail, FreeServ, FreeRoom, RoomTimer, roomVars
<1>5. CASE ServerLost
  BY <1>5, SilentStep DEF ServerLost, roomVars, external
<1>6. CASE LookupReply
  BY <1>6, SilentStep DEF LookupReply, roomVars, Ready
<1>7. CASE ServconnTimeout
  BY <1>7, SilentStep
     DEF ServconnTimeout, FreeServ, FreeRoom, RoomTimer, external
<1>8. CASE JoinRoom
  BY <1>8, SilentStep DEF JoinRoom, servVars, external, NewTimer
<1>9. CASE LeaveRoom
  BY <1>9, SilentStep DEF LeaveRoom, servVars, external, FreeRoom, RoomTimer
<1>10. CASE Members
  BY <1>10, SignalStep, RoomInRooms
     DEF Members, servVars, TypeOK, FlagsOK, JoinedIsAnswered
<1>11. CASE JoinFailed
  BY <1>11, SignalStep, RoomInRooms
     DEF JoinFailed, servVars, FreeRoom, TypeOK, FlagsOK, JoinedIsAnswered
<1>12. CASE RoomLost
  BY <1>12, SignalStep, RoomInRooms
     DEF RoomLost, servVars, LossEvent, FreeRoom, TypeOK, FlagsOK
<1>13. CASE JoinTimeout
  BY <1>13, SignalStep, RoomInRooms
     DEF JoinTimeout, servVars, FreeRoom, TypeOK, FlagsOK, TimersAreOwned
<1>14. CASE UNCHANGED vars
  BY <1>14, SilentStep DEF vars, roomVars
<1> QED
  BY <1>1, <1>2, <1>3, <1>4, <1>5, <1>6, <1>7, <1>8, <1>9, <1>10, <1>11,
     <1>12, <1>13, <1>14
     DEF Next

\* Every step keeps `connected' announced.
LEMMA AnnouncedStep ==
  TypeOK /\ ConnectedIsAnnounced /\ [Next]_vars => ConnectedIsAnnounced'
<1> SUFFICES ASSUME TypeOK, ConnectedIsAnnounced, [Next]_vars
             PROVE  ConnectedIsAnnounced'
  OBVIOUS
<1> USE DEF TypeOK, FlagsOK, HistoriesOK, ServHistories,
           ConnectedIsAnnounced
<1>1. CASE NewServ
  BY <1>1 DEF NewServ, roomVars, external
<1>2. CASE AppFreesServ
  BY <1>2
     DEF AppFreesServ, FreeServ, FreeRoom, servVars, roomVars, external,
         RoomTimer
<1>3. CASE LoginReply
  BY <1>3 DEF LoginReply, roomVars, AfterLogin, Ready
<1>4. CASE AuthFail
  BY <1>4 DEF AuthFail, FreeServ, FreeRoom, RoomTimer, roomVars
<1>5. CASE ServerLost
  BY <1>5 DEF ServerLost, roomVars, external
<1>6. CASE LookupReply
  BY <1>6 DEF LookupReply, roomVars, Ready
<1>7. CASE ServconnTimeout
  BY <1>7 DEF ServconnTimeout, FreeServ, FreeRoom, RoomTimer, external
<1>8. CASE JoinRoom
  BY <1>8 DEF JoinRoom, servVars, external, NewTimer
<1>9. CASE LeaveRoom
  BY <1>9 DEF LeaveRoom, servVars, external, FreeRoom, RoomTimer
<1>10. CASE Members
  BY <1>10 DEF Members, servVars, Stopped, Signal
<1>11. CASE JoinFailed
  BY <1>11 DEF JoinFailed, servVars, Stopped, Signal, FreeRoom
<1>12. CASE RoomLost
  BY <1>12
     DEF RoomLost, servVars, external, RoomTimer, Signal, LossEvent,
         FreeRoom
<1>13. CASE JoinTimeout
  BY <1>13 DEF JoinTimeout, servVars, external, Signal, FreeRoom
<1>14. CASE UNCHANGED vars
  BY <1>14 DEF vars, servVars, roomVars, external
<1> QED
  BY <1>1, <1>2, <1>3, <1>4, <1>5, <1>6, <1>7, <1>8, <1>9, <1>10, <1>11,
     <1>12, <1>13, <1>14
     DEF Next

\* Every step keeps the invariants.
LEMMA InvariantsStep == Invariants /\ [Next]_vars => Invariants'
BY FlagsStep, CountersStep, HistoriesStep, TimersStep, AnsweredStep,
   OutcomeStep, AnnouncedStep
   DEF Invariants, TypeOK

LEMMA Invariance == Spec => []Invariants
<1>1. Init => Invariants
  BY InitInvariants
<1>2. Invariants /\ [Next]_vars => Invariants'
  BY InvariantsStep
<1> QED
  BY <1>1, <1>2, PTL DEF Spec

\* Every variable of the handles keeps its type.
THEOREM TypeCorrect == Spec => []TypeOK
<1>1. Invariants => TypeOK
  BY DEF Invariants
<1> QED
  BY <1>1, Invariance, PTL

\* The timer list and the handles refer to each other correctly, whatever the
\* order of replies, refusals, timeouts, losses and API calls: no handler is
\* called with a freed handle, and no timer is freed twice.
THEOREM TimersOwned == Spec => []TimersAreOwned
<1>1. Invariants => TimersAreOwned
  BY DEF Invariants
<1> QED
  BY <1>1, Invariance, PTL

\* A join has one outcome, and a room is reported lost once and only after it
\* was joined.
THEOREM OneOutcome == Spec => []JoinOutcome
<1>1. Invariants => JoinOutcome
  BY DEF Invariants
<1> QED
  BY <1>1, Invariance, PTL

\* The application can join rooms exactly when both replies have come and it
\* has been told that it is connected.
THEOREM ConnectedAnnounced == Spec => []ConnectedIsAnnounced
<1>1. Invariants => ConnectedIsAnnounced
  BY DEF Invariants
<1> QED
  BY <1>1, Invariance, PTL
=============================================================================
