--------------------------- MODULE ReliableStream ---------------------------
(***************************************************************************)
(* What a virtual connection of libgarena promises to the two applications *)
(* that use it: each end is opened once, messages sent at one end come out *)
(* of the other end in the order they were sent, without gaps, duplicates  *)
(* or inventions, and nothing is sent or handed over at an end once that   *)
(* end is finished.  Nothing is promised about how much of the stream      *)
(* arrives: either end may finish at any time.                             *)
(*                                                                         *)
(* Message n is the n-th message an application sends, so the stream sent  *)
(* at an end is <<1, ..., sent[e]>>.                                       *)
(***************************************************************************)
EXTENDS Naturals, Sequences

CONSTANTS
  Initiator,    \* the end that calls ghl_conn_connect
  Acceptor      \* the end that gets GHL_EV_CONN_INCOMING

VARIABLES
  phase,        \* phase[e] \in {"none", "open", "done"}
  sent,         \* sent[e]: how many messages the application at e has sent
  got           \* got[e]: the messages handed to the application at e

streamVars == <<phase, sent, got>>

Side == {Initiator, Acceptor}

Opposite(e) == IF e = Initiator THEN Acceptor ELSE Initiator

StreamInit ==
  /\ phase = [e \in Side |-> "none"]
  /\ sent = [e \in Side |-> 0]
  /\ got = [e \in Side |-> << >>]

\* The acceptor's end exists only after the initiator has opened its own.
Open(e) ==
  /\ phase[e] = "none"
  /\ e = Acceptor => phase[Initiator] # "none"
  /\ phase' = [phase EXCEPT ![e] = "open"]
  /\ UNCHANGED <<sent, got>>

Write(e) ==
  /\ phase[e] = "open"
  /\ sent' = [sent EXCEPT ![e] = @ + 1]
  /\ UNCHANGED <<phase, got>>

\* The application is handed the next messages of the stream, if any, and may
\* learn in the same step that the stream is finished.
Read(e) ==
  /\ phase[e] = "open"
  /\ \E n \in Len(got[e]) .. sent[Opposite(e)] :
       got' = [got EXCEPT ![e] = [i \in 1 .. n |-> i]]
  /\ \/ UNCHANGED phase
     \/ phase' = [phase EXCEPT ![e] = "done"]
  /\ UNCHANGED sent

\* The application may still write as it learns that the stream is finished.
Finish(e) ==
  /\ phase[e] = "open"
  /\ phase' = [phase EXCEPT ![e] = "done"]
  /\ sent'[e] \in Nat /\ sent'[e] >= sent[e]
  /\ sent' = [sent EXCEPT ![e] = sent'[e]]
  /\ UNCHANGED got

StreamNext == \E e \in Side : Open(e) \/ Write(e) \/ Read(e) \/ Finish(e)

StreamSpec == StreamInit /\ [][StreamNext]_streamVars
=============================================================================
