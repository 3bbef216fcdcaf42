------------------------------ MODULE Framing ------------------------------
(***************************************************************************)
(* How ghl_process takes messages from the TCP connection to a server:     *)
(* gcrp_read for the room server, gsp_read for the main server, and what   *)
(* it makes of a read that fails.  A message is a header, which tells the  *)
(* length, and a body; each is read by one recv that waits for all of it   *)
(* (MSG_WAITALL) unless the connection ends or a signal is caught.  Bytes  *)
(* arrive one by one; what they say is left to modules Session and Room.   *)
(*                                                                         *)
(* Positions count the bytes of the connection.  A header is read where a  *)
(* message starts, or, once the alignment has been lost, elsewhere; the    *)
(* length it tells is then any number.                                     *)
(*                                                                         *)
(* External: the server sends messages as gcrp_output and gsp_output build *)
(* them, and may close the connection anywhere.  recv that is interrupted  *)
(* before the first byte fails with EINTR, later it returns what it has;   *)
(* it returns what it has, or 0, at the end of the connection; errno is    *)
(* set in the first case only.  The sockets are blocking, so recv itself   *)
(* never sets EWOULDBLOCK; another call of the library or the application  *)
(* may leave errno at any value.                                           *)
(***************************************************************************)
EXTENDS Naturals, Sequences

CONSTANTS
  Header,    \* size of the header (gcrp_hdr_t; the size field of GSP)
  MaxSize,   \* GCRP_MAX_MSGSIZE, GSP_MAX_MSGSIZE
  Block,     \* the body is a multiple of this: 1 for GCRP, 16 for GSP
  Bodies,    \* the sizes of the bodies that the server sends
  MaxMsgs    \* bound: messages that the server sends

ASSUME SizesAssumption ==
  /\ Header \in Nat \ {0} /\ MaxSize \in Nat /\ Block \in Nat \ {0}
  /\ MaxMsgs \in Nat
  /\ Bodies \subseteq Nat
  /\ \A len \in Bodies : Header + len <= MaxSize /\ len % Block = 0

VARIABLES
  sent,       \* server: the sizes of the bodies sent
  total,      \* server: number of bytes sent
  ended,      \* server: whether it has closed the connection
  arrived,    \* number of bytes that have arrived
  pos,        \* number of bytes that recv has taken
  pc,         \* "app", in the recv of the "header" or "body", or "lost"
  want,       \* the number of bytes that this recv waits for
  errno,      \* a member of Errors
  torn,       \* history: a read has failed with a part of a message taken
  delivered   \* history: the messages handled, 0 for one that was not sent

serverVars == <<sent, total, ended>>
vars == <<serverVars, arrived, pos, pc, want, errno, torn, delivered>>

Errors == {"EINTR", "EWOULDBLOCK", "other"}

\* The position at which message k starts.
Start[k \in 1 .. MaxMsgs + 1] ==
  IF k = 1 THEN 0
  ELSE Start[k - 1] + Header + IF k - 1 <= Len(sent) THEN sent[k - 1] ELSE 0

StartsAt(k, p) == k \in 1 .. Len(sent) /\ Start[k] = p

AtEnd == ended /\ arrived = total
Waiting == pc \in {"header", "body"}
Ready == arrived - pos >= want

-----------------------------------------------------------------------------
Init ==
  /\ sent = << >> /\ total = 0 /\ ended = FALSE
  /\ arrived = 0 /\ pos = 0
  /\ pc = "app" /\ want = 0
  /\ errno = "other"
  /\ torn = FALSE
  /\ delivered = << >>

(* The server and the network *)

ServerSend(len) ==
  /\ ~ended /\ Len(sent) < MaxMsgs
  /\ sent' = Append(sent, len)
  /\ total' = total + Header + len
  /\ UNCHANGED <<ended, arrived, pos, pc, want, errno, torn, delivered>>

\* The last bytes that were sent may be dropped.
ServerClose ==
  /\ ~ended
  /\ ended' = TRUE
  /\ total' \in arrived .. total
  /\ UNCHANGED <<sent, arrived, pos, pc, want, errno, torn, delivered>>

Arrive ==
  /\ arrived < total
  /\ arrived' = arrived + 1
  /\ UNCHANGED <<serverVars, pos, pc, want, errno, torn, delivered>>

-----------------------------------------------------------------------------
(* ghl_process *)

\* A call outside of these reads fails: select, by a signal, a send, or one of
\* the application.
OtherCallFails ==
  /\ pc = "app"
  /\ errno' \in Errors
  /\ UNCHANGED <<serverVars, arrived, pos, pc, want, torn, delivered>>

\* The socket is readable, and a message is read.
Call ==
  /\ pc = "app" /\ (arrived > pos \/ AtEnd)
  /\ pc' = "header" /\ want' = Header
  /\ UNCHANGED <<serverVars, arrived, pos, errno, torn, delivered>>

\* What the header at p tells.  (A header read elsewhere may also give GCRP the
\* length -1, which gcrp.c:106 accepts: recv then writes behind the buffer, and
\* nothing is said of what follows.)
Lengths(p) ==
  IF \E k \in 1 .. MaxMsgs : StartsAt(k, p)
  THEN {sent[k] : k \in {j \in 1 .. Len(sent) : StartsAt(j, p)}}
  ELSE 0 .. MaxSize

\* Mutant: a message that fills the buffer is refused.
AcceptedLess(len) == len + Header < MaxSize /\ len % Block = 0

\* The length that a header may tell.
Accepted(len) == len + Header <= MaxSize /\ len % Block = 0

\* Mutant: the type, which the length of GCRP counts, is read again.
BodyAndType(len) == len + 1

BodySize(len) == len

\* The whole header has arrived.
ReadHeader ==
  /\ pc = "header" /\ Ready
  /\ pos' = pos + Header
  /\ \E len \in Lengths(pos) :
       IF Accepted(len) THEN pc' = "body" /\ want' = BodySize(len)
                        ELSE pc' = "lost" /\ want' = 0
  /\ UNCHANGED <<serverVars, arrived, errno, torn, delivered>>

\* The message that gcrp_input or gsp_input finds behind the header at p: its
\* number, or 0 if the server sent none there.
MessageAt(p) ==
  LET from == {k \in 1 .. Len(sent) : StartsAt(k, p)}
  IN  IF from = {} THEN 0 ELSE CHOOSE k \in from : TRUE

\* The whole body has arrived, and the message is handled.
ReadBody ==
  /\ pc = "body" /\ Ready
  /\ pos' = pos + want
  /\ pc' = "app" /\ want' = 0
  /\ delivered' = Append(delivered, MessageAt(pos - Header))
  /\ UNCHANGED <<serverVars, arrived, errno, torn>>

\* Mutant: a read that fails is never taken for a lost connection.
AlwaysIgnored(e) == TRUE

\* ghl_process takes a read that fails for a lost connection, by errno.
Ignored(e) == e \in {"EINTR", "EWOULDBLOCK"}

\* recv fails, or returns less than it was asked for: what it has taken is
\* gone, and errno is e.
ReadFails(e) ==
  /\ pos' = arrived
  /\ errno' = e
  /\ torn' = (torn \/ arrived > pos \/ pc = "body")
  /\ pc' = IF Ignored(e) THEN "app" ELSE "lost"
  /\ want' = 0
  /\ UNCHANGED <<serverVars, arrived, delivered>>

ReadInterrupted ==
  /\ Waiting /\ ~Ready /\ ~AtEnd
  /\ ReadFails(IF arrived = pos THEN "EINTR" ELSE errno)

ReadAtEnd ==
  /\ Waiting /\ ~Ready /\ AtEnd
  /\ ReadFails(errno)

-----------------------------------------------------------------------------
Next ==
  \/ (\E len \in Bodies : ServerSend(len)) \/ ServerClose \/ Arrive
  \/ OtherCallFails
  \/ Call \/ ReadHeader \/ ReadBody \/ ReadInterrupted \/ ReadAtEnd

Spec == Init /\ [][Next]_vars

\* What is sent arrives, and ghl_process goes on.
Fairness ==
  /\ WF_vars(Arrive)
  /\ WF_vars(Call)
  /\ WF_vars(ReadHeader) /\ WF_vars(ReadBody) /\ WF_vars(ReadAtEnd)

FairSpec == Spec /\ Fairness

-----------------------------------------------------------------------------
(* Properties *)

\* The messages are handled whole, each once and in order, wherever the
\* network cuts them; unless a read was interrupted, or the connection ended,
\* inside a message: then the alignment is lost, and what is read afterwards
\* is no message ("XXX FIXME handle partial reads", gcrp.c:99, gsp.c:91).
InOrder ==
  ~torn => \A i \in 1 .. Len(delivered) : delivered[i] = i

\* A connection is taken for lost only if it has ended, and then everything
\* the server sent whole has been handled; or, again, after a read was
\* interrupted inside a message.
LossIsReal ==
  pc = "lost" /\ ~torn =>
    /\ AtEnd
    /\ \A k \in 1 .. Len(sent) : Start[k] + Header + sent[k] <= total =>
         \E i \in 1 .. Len(delivered) : delivered[i] = k

\* GHL_EV_ROOM_DISC is "received when the connection to the room server is
\* lost" (ghl.h:83); not so whatever call failed before (LossIsNoticed).
EndIsNoticed == ended ~> pc = "lost"

\* So it is if errno does not stay at the EINTR or EWOULDBLOCK of an earlier
\* call, which has nothing to do with this socket.
LossIsNoticed == <>[](errno = "other") => EndIsNoticed

\* Under the same condition every message that was sent is handled, or else the
\* connection is lost or was interrupted inside a message.
AllHandled ==
  <>[](errno = "other") =>
    \A k \in 1 .. MaxMsgs :
      Len(sent) >= k ~> pc = "lost" \/ torn \/ Len(delivered) >= k
=============================================================================
