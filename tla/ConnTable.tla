----------------------------- MODULE ConnTable -----------------------------
(***************************************************************************)
(* The connection table rh->conns as the hash table it is (util.c), and    *)
(* the loops that free channels while they go through it: do_conn_retrans, *)
(* the PART of a member and ghl_free_room.  They keep a pointer to the     *)
(* current item, the first two free a channel one iteration late, and all  *)
(* call the application, which may open and close connections before it    *)
(* returns.                                                                *)
(*                                                                         *)
(* An item of the table is the channel it holds.  Why a channel times out, *)
(* or has nothing left to send, is modules VConn and Retrans.              *)
(*                                                                         *)
(* Assumed here: a new connection ID is not in use (run room_conn_id of    *)
(* module Room shows where that fails), and the application opens no       *)
(* connection to a member after the PART event of that member, or while    *)
(* the room is being freed.                                                *)
(***************************************************************************)
EXTENDS Naturals, FiniteSets, SequencesExt

CONSTANTS
  Ids,       \* connection IDs
  Size,      \* HASH_SIZE
  Members,   \* the other members of the room
  Channels   \* bound: the channels that may be created, one after the other

ASSUME IdsAssumption == Ids \subseteq Nat
ASSUME SizeAssumption == Size \in Nat \ {0}
ASSUME ChannelsAssumption == Channels \in Nat

Channel == 1 .. Channels
NULL == 0

VARIABLES
  h,        \* conns->h: the chain of each bucket
  ch,       \* the channel structures
  created,  \* number of channels created
  present,  \* rh->members
  loop,     \* "none", "retrans", "part" or "free"
  iter,     \* the current item of the loop, or NULL
  todel,    \* the channel to free, or NULL
  inside,   \* whether the loop waits for the CONN_FIN callback to return
  leaving,  \* the members that the running PART is about
  owed      \* history: channels of the table that the loop has yet to look at

loopVars == <<loop, iter, todel, inside, leaving, owed>>
vars == <<h, ch, created, present, loopVars>>

-----------------------------------------------------------------------------
(* util.c *)

\* ihash_func(key) % ihash->size, for IDs below 2^8.
Bucket(id) == id % Size

Items(table) == UNION {ToSet(table[b]) : b \in DOMAIN table}

\* ihash_put: at the head of the chain.
Put(table, c, id) == [table EXCEPT ![Bucket(id)] = <<c>> \o @]

\* ihash_get: the first item with this ID, or NULL.
Get(table, id) ==
  LET pos == SelectInSeq(table[Bucket(id)], LAMBDA c : ch[c].id = id)
  IN  IF pos = 0 THEN NULL ELSE table[Bucket(id)][pos]

\* ihash_del: the first item with this ID.
Del(table, id) ==
  LET pos == SelectInSeq(table[Bucket(id)], LAMBDA c : ch[c].id = id)
  IN  IF pos = 0 THEN table
      ELSE [table EXCEPT ![Bucket(id)] = RemoveAt(@, pos)]

\* The first item from bucket b on, or NULL.
FirstFrom(table, b) ==
  LET used == {i \in b .. (Size - 1) : table[i] # << >>}
  IN  IF used = {} THEN NULL
      ELSE Head(table[CHOOSE i \in used : \A j \in used : i <= j])

\* ihash_iter
First(table) == FirstFrom(table, 0)

\* Mutant: the search goes on in the same bucket.
NextFromSame(table, c) ==
  LET chain == table[Bucket(ch[c].id)]
      pos   == SelectInSeq(chain, LAMBDA d : d = c)
  IN  IF pos < Len(chain) THEN chain[pos + 1]
      ELSE FirstFrom(table, Bucket(ch[c].id))

\* Mutant: the rest of the chain is skipped.
NextBucket(table, c) == FirstFrom(table, Bucket(ch[c].id) + 1)

\* ihash_next: the rest of the chain, then the buckets behind it.
NextItem(table, c) ==
  LET chain == table[Bucket(ch[c].id)]
      pos   == SelectInSeq(chain, LAMBDA d : d = c)
  IN  IF pos < Len(chain) THEN chain[pos + 1]
      ELSE FirstFrom(table, Bucket(ch[c].id) + 1)

-----------------------------------------------------------------------------
Init ==
  /\ h = [b \in 0 .. (Size - 1) |-> << >>]
  /\ ch = [c \in Channel |-> [status |-> "unused", id |-> 0, closing |-> FALSE,
                              member |-> CHOOSE m \in Members : TRUE]]
  /\ created = 0
  /\ present = Members
  /\ loop = "none" /\ iter = NULL /\ todel = NULL /\ inside = FALSE
  /\ leaving = {} /\ owed = {}

Live == {c \in Channel : ch[c].status = "live"}

\* The application runs: outside of the loops, or in a callback.
AppRuns == loop = "none" \/ inside

\* ghl_conn_connect, or an INITCONN message when no loop runs.
Open(id, m) ==
  LET c == created + 1 IN
  /\ AppRuns
  /\ m \in present
  /\ c \in Channel
  /\ \A d \in Live : ch[d].id # id
  /\ created' = c
  /\ ch' = [ch EXCEPT ![c] = [status |-> "live", id |-> id, closing |-> FALSE,
                              member |-> m]]
  /\ h' = Put(h, c, id)
  /\ UNCHANGED <<present, loopVars>>

\* Mutant: the channel is freed at once.
CloseFrees(c) ==
  /\ AppRuns
  /\ c \in Live /\ ~ch[c].closing
  /\ ch' = [ch EXCEPT ![c].closing = TRUE, ![c].status = "freed"]
  /\ h' = Del(h, ch[c].id)
  /\ UNCHANGED <<created, present, loopVars>>

\* ghl_conn_close, or the end of the peer's stream: CLOSING_OUT.
Close(c) ==
  /\ AppRuns
  /\ c \in Live /\ ~ch[c].closing
  /\ ch' = [ch EXCEPT ![c].closing = TRUE]
  /\ UNCHANGED <<h, created, present, loopVars>>

-----------------------------------------------------------------------------
(* The loops *)

Begin(name, gone) ==
  /\ loop = "none"
  /\ loop' = name
  /\ iter' = First(h)
  /\ leaving' = gone
  /\ owed' = Items(h)
  /\ UNCHANGED <<h, ch, created, todel, inside>>

StartRetrans == Begin("retrans", {}) /\ UNCHANGED present

\* handle_room_activity, GCRP_MSG_PART: the member leaves the table first.
StartPart(m) ==
  /\ m \in present
  /\ Begin("part", {m})
  /\ present' = present \ {m}

\* ghl_free_room: the members are freed first.
StartFree ==
  /\ Begin("free", {})
  /\ present' = {}

\* Mutant: the channel is freed, and stays in the table.
FreeOnly == h

\* ihash_del for the channel of the iteration before.
WithoutTodel == IF todel = NULL THEN h ELSE Del(h, ch[todel].id)

\* ... and conn_free.
FreeTodel ==
  /\ h' = WithoutTodel
  /\ ch' = IF todel = NULL THEN ch
           ELSE [ch EXCEPT ![todel].status = "freed"]

\* An iteration: the channel of the one before is freed, and the loop looks
\* at the channel `iter'.
Visit ==
  /\ loop \in {"retrans", "part"} /\ ~inside /\ iter # NULL
  /\ FreeTodel
  /\ UNCHANGED <<created, present, loop, leaving>>

LookedAt == owed' = owed \ {iter}

\* Mutant: a channel that is closing stays when its member leaves.
OpenOfLeaving(c) == ch[c].member \in leaving /\ ~ch[c].closing

OfLeaving(c) == ch[c].member \in leaving

\* The channel stays.
Pass ==
  /\ Visit /\ LookedAt
  /\ ~OfLeaving(iter)
  /\ todel' = NULL
  /\ iter' = NextItem(h', iter)
  /\ UNCHANGED inside

\* do_conn_retrans: a closing channel with nothing left to send.
Closed ==
  /\ Visit /\ LookedAt
  /\ loop = "retrans" /\ ch[iter].closing
  /\ todel' = iter
  /\ iter' = NextItem(h', iter)
  /\ UNCHANGED inside

\* do_conn_retrans: the channel has timed out, and the loop ends.  The
\* channels behind it wait for the next check.
TimesOut ==
  /\ Visit
  /\ loop = "retrans"
  /\ todel' = iter
  /\ iter' = NULL
  /\ inside' = ~ch[iter].closing
  /\ owed' = {}

\* PART: a channel with the member.
Leaves ==
  /\ Visit /\ LookedAt
  /\ loop = "part" /\ OfLeaving(iter)
  /\ todel' = iter
  /\ inside' = ~ch[iter].closing
  /\ iter' = IF inside' THEN iter ELSE NextItem(h', iter)

\* ghl_free_room: the application is told that a channel ends.
Announce ==
  /\ loop = "free" /\ ~inside /\ iter # NULL
  /\ ~ch[iter].closing
  /\ ch' = [ch EXCEPT ![iter].closing = TRUE]
  /\ inside' = TRUE
  /\ UNCHANGED <<h, created, present, loop, iter, todel, leaving, owed>>

\* ghl_free_room: the channel is freed, and its item stays for the moment.
Discard ==
  /\ loop = "free" /\ ~inside /\ iter # NULL /\ LookedAt
  /\ ch[iter].closing
  /\ ch' = [ch EXCEPT ![iter].status = "freed"]
  /\ iter' = NextItem(h, iter)
  /\ UNCHANGED <<h, created, present, loop, todel, inside, leaving>>

\* The CONN_FIN callback returns.
Return ==
  /\ inside
  /\ inside' = FALSE
  /\ iter' = CASE loop = "part" -> NextItem(h, iter)
               [] loop = "free" -> iter
               [] loop = "retrans" -> NULL
  /\ UNCHANGED <<h, ch, created, present, loop, todel, leaving, owed>>

\* The end of the list.
EndLoop ==
  /\ loop \in {"retrans", "part"} /\ ~inside /\ iter = NULL
  /\ FreeTodel
  /\ todel' = NULL
  /\ loop' = "none" /\ leaving' = {}
  /\ UNCHANGED <<created, present, iter, inside, owed>>

\* ghl_free_room: ihash_free, and the room is gone.
EndFree ==
  /\ loop = "free" /\ ~inside /\ iter = NULL
  /\ h' = [b \in DOMAIN h |-> << >>]
  /\ loop' = "none"
  /\ UNCHANGED <<ch, created, present, iter, todel, inside, leaving, owed>>

-----------------------------------------------------------------------------
LoopStep ==
  \/ Pass \/ Closed \/ TimesOut \/ Leaves \/ EndLoop
  \/ Announce \/ Discard \/ EndFree

Next ==
  \/ \E id \in Ids, m \in Members : Open(id, m)
  \/ \E c \in Channel : Close(c)
  \/ StartRetrans \/ StartFree \/ \E m \in Members : StartPart(m)
  \/ LoopStep \/ Return

Spec == Init /\ [][Next]_vars

\* The library runs its loops to the end, and the callback returns.
Fairness == WF_vars(LoopStep) /\ WF_vars(Return)

FairSpec == Spec /\ Fairness

-----------------------------------------------------------------------------
\* The table holds exactly the live channels, each of them once, whatever
\* was opened and freed in the middle of a loop: ihash_get finds each by its
\* ID, which it can only do in the bucket of the ID.  ghl_free_room alone
\* leaves freed channels in the table, until it frees the table.
TableIsExact ==
  loop # "free" =>
    /\ Items(h) = Live
    /\ \A b, d \in DOMAIN h : \A i \in DOMAIN h[b], j \in DOMAIN h[d] :
         h[b][i] = h[d][j] => b = d /\ i = j
    /\ \A c \in Live : Get(h, ch[c].id) = c

\* The loops never stand on a freed item, nor free one twice: the current
\* item and the channel to free are in the table whatever the application
\* did in the callback, and no pointer is left when a loop has ended.
IteratorIsValid == {iter, todel} \ {NULL} \subseteq Live

\* Once the PART of a member is handled, or the room is freed, no channel
\* points to the structure of a member that is gone.
NoneOfAbsent ==
  loop = "none" => \A c \in Live : ch[c].member \in present

\* A loop that reaches the end of the table has looked at every channel that
\* was there when it started: freeing one and opening others skips none.
LoopVisitsAll == loop # "none" /\ iter = NULL => owed = {}

\* The loops end, although callbacks add channels to the table meanwhile.
LoopsEnd == loop # "none" ~> loop = "none"
=============================================================================
