----------------------------- MODULE RoomProofs -----------------------------
(***************************************************************************)
(* Proofs about module Room, for every set of clients and every bound: the *)
(* types, that the member table of every client follows the room server,   *)
(* what a conn_ok of 2 stands for, and which channels outlive a member.    *)
(***************************************************************************)
EXTENDS Room, FiniteSetTheorems, TLAPS

USE InitiatorsAssumption, RepeatsAssumption, ConnIdsAssumption,
    BoundsAssumption

-----------------------------------------------------------------------------
(* Types *)

Infos == [user : Clients, stay : 1 .. MaxStays, vpn : BOOLEAN]

Structs == [user : Clients, stay : 1 .. MaxStays, vpn : BOOLEAN, ok : 0 .. 2]

Chans == [user : Clients, stay : 1 .. MaxStays, id : 0 .. ConnIds - 1,
          freed : BOOLEAN, opener : Clients]

Lists == {S \in SUBSET Infos : IsFiniteSet(S)}

ServerMsgs == [kind : {"MEMBERS"}, infos : Lists]
                \cup [kind : {"JOIN"}, info : Infos]
                \cup [kind : {"PART", "STARTVPN", "STOPVPN"}, user : Clients]

PeerMsgs == [kind : {"HELLO_REQ", "HELLO_REP"}, from : Clients, to : Clients]
              \cup [kind : {"INITCONN"}, from : Clients, to : Clients,
                    id : 0 .. ConnIds - 1]

ServerTypes ==
  /\ present \in SUBSET Clients /\ IsFiniteSet(present)
  /\ stays \in [Clients -> 0 .. MaxStays]
  /\ vpn \in [Clients -> BOOLEAN]
  /\ toggles \in 0 .. MaxToggles
  /\ \A u \in present : stays[u] # 0

StreamTypes == stream \in [Clients -> Seq(ServerMsgs)]

ClientTypes ==
  /\ room \in [Clients -> {"out", "joining", "in"}]
  /\ members \in [Clients -> Seq(Structs)]
  /\ conns \in [Clients -> Seq(Chans)]
  /\ opened \in [Clients -> 0 .. MaxConns]

NetTypes == net \in SUBSET PeerMsgs /\ reached \in SUBSET (Clients \X Clients)

\* Where a client is while it joins, and what it can find in its stream: a
\* list only at the head, and only until it is in.
Phase(c) ==
  /\ room[c] = "out" => stream[c] = << >>
  /\ room[c] # "in" => members[c] = << >> /\ conns[c] = << >>
  /\ room[c] = "joining" /\ c \notin present => stream[c] = << >>
  /\ room[c] = "joining" /\ c \in present =>
       stream[c] # << >> /\ stream[c][1].kind = "MEMBERS"
  /\ room[c] = "in" =>
       /\ c \in present
       /\ \A k \in 1 .. Len(stream[c]) : stream[c][k].kind # "MEMBERS"
  /\ \A k \in 2 .. Len(stream[c]) : stream[c][k].kind # "MEMBERS"

Phases == \A c \in Clients : Phase(c)

Types == ServerTypes /\ StreamTypes /\ ClientTypes /\ NetTypes /\ Phases

-----------------------------------------------------------------------------
(* Lemmas about the operators *)

\* A set of numbers has a smallest one; induction comes from this.
LEMMA Smallest ==
  ASSUME NEW T \in SUBSET Nat, T # {}
  PROVE  \E m \in T : \A y \in T : m <= y
  <1> DEFINE R == StrictSubsetOrdering(Nat)
             S == FiniteSubsetsOf(Nat)
             U == {1 .. n : n \in T}
  <1>1. U \subseteq S
    <2>1. \A n \in T : 1 .. n \in SUBSET Nat /\ IsFiniteSet(1 .. n)
      BY FS_Interval
    <2> QED BY <2>1 DEF FiniteSubsetsOf
  <1>2. U # {} /\ IsWellFoundedOn(R, S)
    BY FS_StrictSubsetOrderingWellFounded
  <1>3. PICK x \in U : \A y \in U : ~ (<<y, x>> \in R)
    <2> HIDE DEF R, S, U
    <2> QED BY <1>1, <1>2, WFMin
  <1>4. PICK m \in T : x = 1 .. m
    OBVIOUS
  <1>5. ASSUME NEW y \in T, y < m PROVE FALSE
    <2>1. 1 .. y \subseteq 1 .. m /\ m \in 1 .. m /\ m \notin 1 .. y
      BY <1>5
    <2>2. <<1 .. y, 1 .. m>> \in R
      BY <2>1 DEF StrictSubsetOrdering
    <2> QED BY <1>3, <1>4, <2>2
  <1> QED BY <1>5

\* The sequence that SetToSeq makes of a finite set has each element once.
LEMMA SetToSeqFacts ==
  ASSUME NEW S, IsFiniteSet(S)
  PROVE  /\ SetToSeq(S) \in Seq(S)
         /\ \A x \in S : \E i \in DOMAIN SetToSeq(S) : SetToSeq(S)[i] = x
         /\ \A i, j \in DOMAIN SetToSeq(S) :
              SetToSeq(S)[i] = SetToSeq(S)[j] => i = j
  <1> DEFINE n == Cardinality(S)
             f == SetToSeq(S)
  <1>1. n \in Nat /\ ExistsBijection(1 .. n, S)
    BY FS_CardinalityType
  <1>2. f \in [1 .. n -> S] /\ IsInjective(f)
    BY <1>1 DEF SetToSeq, ExistsBijection, Bijection, Injection
  <1>3. f \in Surjection(1 .. n, S)
    <2>1. f \in Injection(1 .. n, S)
      BY <1>2 DEF Injection
    <2>2. IsFiniteSet(1 .. n) /\ Cardinality(1 .. n) = n
      BY <1>1, FS_Interval
    <2> QED BY <2>1, <2>2, FS_Injection
  <1> HIDE DEF f, n
  <1>4. f \in Seq(S) /\ DOMAIN f = 1 .. n
    BY <1>1, <1>2
  <1>5. f \in Seq(S)
        /\ (\A x \in S : \E i \in DOMAIN f : f[i] = x)
        /\ (\A i, j \in DOMAIN f : f[i] = f[j] => i = j)
    BY <1>2, <1>3, <1>4 DEF Surjection, IsInjective
  <1> QED BY <1>5 DEF f

\* Find is the position of a structure of u, if there is one.
LEMMA FindFacts ==
  ASSUME NEW c \in Clients, NEW u, members \in [Clients -> Seq(Structs)]
  PROVE  /\ Known(c, u) => /\ Find(c, u) \in 1 .. Len(members[c])
                           /\ members[c][Find(c, u)].user = u
         /\ ~Known(c, u) => \A i \in 1 .. Len(members[c]) :
                              members[c][i].user # u
  <1> DEFINE I == {i \in 1 .. Len(members[c]) : members[c][i].user = u}
  <1>1. Find(c, u) = IF I # {} THEN Min(I) ELSE 0
    BY DEF Find, SelectInSeq
  <1>2. I # {} => Min(I) \in I
    <2>1. SUFFICES ASSUME I # {} PROVE \E m \in I : \A y \in I : m <= y
      BY DEF Min
    <2>2. I \in SUBSET Nat
      OBVIOUS
    <2> HIDE DEF I
    <2> QED BY <2>1, <2>2, Smallest
  <1>3. 0 \notin I /\ I \subseteq 1 .. Len(members[c])
    OBVIOUS
  <1> QED BY <1>1, <1>2, <1>3 DEF Known

\* What is left of a sequence after RemoveAt.
LEMMA RemoveAtFacts ==
  ASSUME NEW S, NEW s \in Seq(S), NEW p \in 1 .. Len(s)
  PROVE  /\ RemoveAt(s, p) \in Seq(S)
         /\ Len(RemoveAt(s, p)) = Len(s) - 1
         /\ \A i \in 1 .. Len(s) - 1 :
              RemoveAt(s, p)[i] = s[IF i < p THEN i ELSE i + 1]
  <1> DEFINE a == SubSeq(s, 1, p - 1)
             b == SubSeq(s, p + 1, Len(s))
  <1>1. a \in Seq(S) /\ Len(a) = p - 1 /\ \A i \in 1 .. p - 1 : a[i] = s[i]
    OBVIOUS
  <1>2. /\ b \in Seq(S) /\ Len(b) = Len(s) - p
        /\ \A i \in 1 .. Len(s) - p : b[i] = s[p + i]
    OBVIOUS
  <1> HIDE DEF a, b
  <1>3. /\ a \o b \in Seq(S) /\ Len(a \o b) = Len(s) - 1
        /\ \A i \in 1 .. Len(s) - 1 :
             (a \o b)[i] = IF i < p THEN a[i] ELSE b[i - (p - 1)]
    BY <1>1, <1>2
  <1>4. RemoveAt(s, p) = a \o b
    BY DEF RemoveAt, a, b
  <1>5. ASSUME NEW i \in 1 .. Len(s) - 1
        PROVE  (a \o b)[i] = s[IF i < p THEN i ELSE i + 1]
    BY <1>1, <1>2, <1>3
  <1> QED BY <1>3, <1>4, <1>5

\* The numbers of a finite set can be put in order.
LEMMA OrderedFacts ==
  ASSUME NEW n \in Nat, NEW S \in SUBSET (1 .. n)
  PROVE  /\ Cardinality(S) \in Nat
         /\ Ordered(S) \in [1 .. Cardinality(S) -> S]
         /\ \A i \in S : \E k \in 1 .. Cardinality(S) : Ordered(S)[k] = i
         /\ \A i, j \in 1 .. Cardinality(S) :
              Ordered(S)[i] = Ordered(S)[j] => i = j
  <1> DEFINE N == Cardinality(S)
             Below(i) == {j \in S : j <= i}
             rank == [i \in S |-> Cardinality(Below(i))]
             f == [k \in 1 .. N |-> CHOOSE i \in S : rank[i] = k]
  <1>0. \A i \in S : i \in Nat
    OBVIOUS
  <1>1. IsFiniteSet(S) /\ N \in Nat
    <2>1. IsFiniteSet(1 .. n)
      BY FS_Interval
    <2> QED BY <2>1, FS_Subset, FS_CardinalityType
  <1>2. ASSUME NEW i \in S
        PROVE  IsFiniteSet(Below(i)) /\ rank[i] \in 1 .. N
    <2>1. Below(i) \in SUBSET S /\ i \in Below(i)
      OBVIOUS
    <2> HIDE DEF Below
    <2>2. IsFiniteSet(Below(i)) /\ Cardinality(Below(i)) <= N
      BY <1>1, <2>1, FS_Subset
    <2>3. Cardinality(Below(i)) \in Nat /\ Cardinality(Below(i)) # 0
      BY <2>1, <2>2, FS_CardinalityType, FS_EmptySet
    <2> QED BY <1>1, <2>2, <2>3
  <1>3. ASSUME NEW i \in S, NEW j \in S, i < j PROVE rank[i] < rank[j]
    <2>1. Below(i) \in SUBSET Below(j) /\ Below(i) # Below(j)
      <3>1. i \in Nat /\ j \in Nat
        BY <1>0
      <3>2. j \in Below(j) /\ j \notin Below(i)
        BY <1>3, <3>1
      <3>3. \A x \in Below(i) : x \in Below(j)
        BY <1>0, <1>3, <3>1
      <3> QED BY <3>2, <3>3
    <2>2. IsFiniteSet(Below(j)) /\ rank[i] \in 1 .. N /\ rank[j] \in 1 .. N
      BY <1>2
    <2> HIDE DEF Below
    <2>3. Cardinality(Below(i)) <= Cardinality(Below(j))
          /\ Cardinality(Below(i)) # Cardinality(Below(j))
      BY <2>1, <2>2, FS_Subset
    <2> QED BY <2>2, <2>3
  <1> HIDE DEF rank
  <1>4. rank \in Surjection(S, 1 .. N)
    <2>1. \A i, j \in S : rank[i] = rank[j] => i = j
      <3> SUFFICES ASSUME NEW i \in S, NEW j \in S, i # j
                   PROVE  rank[i] # rank[j]
        OBVIOUS
      <3>0. i # j
        OBVIOUS
      <3>1. rank[i] \in Nat /\ rank[j] \in Nat /\ (i < j \/ j < i)
        <4>1. i \in Nat /\ j \in Nat
          BY <1>0
        <4>2. rank[i] \in 1 .. N /\ rank[j] \in 1 .. N
          BY <1>2
        <4> QED BY <3>0, <4>1, <4>2
      <3> QED BY <1>3, <3>1
    <2>2. rank \in [S -> 1 .. N]
      BY <1>2 DEF rank
    <2>3. rank \in Injection(S, 1 .. N)
      BY <2>1, <2>2 DEF Injection, IsInjective
    <2>4. IsFiniteSet(1 .. N) /\ Cardinality(1 .. N) = N
      BY <1>1, FS_Interval
    <2> QED BY <2>3, <2>4, FS_Injection
  <1>5. \A k \in 1 .. N : f[k] \in S /\ rank[f[k]] = k
    BY <1>4 DEF Surjection
  <1> HIDE DEF f
  <1>6. \A i, j \in 1 .. N : i < j => f[i] < f[j]
    <2> SUFFICES ASSUME NEW i \in 1 .. N, NEW j \in 1 .. N, i < j
                 PROVE  f[i] < f[j]
      OBVIOUS
    <2>1. f[i] \in S /\ f[j] \in S /\ f[i] # f[j]
      BY <1>5
    <2>2. ~ (f[j] < f[i])
      <3>1. f[j] < f[i] => rank[f[j]] < rank[f[i]]
        BY <1>3, <2>1
      <3>2. rank[f[j]] = j /\ rank[f[i]] = i
        BY <1>5
      <3> QED BY <3>1, <3>2
    <2>3. f[i] \in Nat /\ f[j] \in Nat
      BY <1>0, <2>1
    <2> QED BY <2>1, <2>2, <2>3
  <1>7. f \in [1 .. N -> S]
    BY <1>5 DEF f
  <1>8. /\ Ordered(S) \in [1 .. N -> S]
        /\ \A i, j \in 1 .. N : i < j => Ordered(S)[i] < Ordered(S)[j]
    BY <1>6, <1>7 DEF Ordered
  <1>9. /\ Ordered(S) \in Surjection(1 .. N, S)
        /\ Ordered(S) \in Injection(1 .. N, S)
    <2>1. Ordered(S) \in Injection(1 .. N, S)
      <3>1. ASSUME NEW i \in 1 .. N, NEW j \in 1 .. N, i # j
            PROVE  Ordered(S)[i] # Ordered(S)[j]
        <4>1. Ordered(S)[i] \in Nat /\ Ordered(S)[j] \in Nat
          <5>1. Ordered(S)[i] \in S /\ Ordered(S)[j] \in S
            BY <1>8
          <5> QED BY <1>0, <5>1
        <4> QED BY <1>8, <3>1, <4>1
      <3> QED BY <1>8, <3>1 DEF Injection, IsInjective
    <2>2. IsFiniteSet(1 .. N) /\ Cardinality(1 .. N) = N
      BY <1>1, FS_Interval
    <2> QED BY <1>1, <2>1, <2>2, FS_Injection
  <1> QED BY <1>1, <1>8, <1>9 DEF Surjection, Injection, IsInjective

\* A table after Free consists of entries of the one before.
LEMMA FreeFacts ==
  ASSUME NEW table \in Seq(Chans), NEW gone
  PROVE  /\ Free(table, gone) \in Seq(Chans)
         /\ table = << >> => Free(table, gone) = << >>
  <1> DEFINE kept == {i \in DOMAIN table :
                        Cardinality({j \in 1 .. i : table[j].id = table[i].id})
                          > Cardinality({j \in gone : table[j].id = table[i].id})}
             f == Ordered(kept)
             n == Cardinality(kept)
  <1>1. kept \in SUBSET (1 .. Len(table)) /\ Len(table) \in Nat
    OBVIOUS
  <1>2. Free(table, gone) =
          [k \in DOMAIN f |-> [table[f[k]] EXCEPT !.freed = @ \/ f[k] \in gone]]
    BY DEF Free
  <1>3. table = << >> => kept = {}
    OBVIOUS
  <1> HIDE DEF kept
  <1>4. n \in Nat /\ f \in [1 .. n -> kept]
    BY <1>1, OrderedFacts
  <1> HIDE DEF f
  <1>5. ASSUME NEW k \in 1 .. n
        PROVE  [table[f[k]] EXCEPT !.freed = @ \/ f[k] \in gone] \in Chans
    <2>1. f[k] \in 1 .. Len(table)
      BY <1>1, <1>4
    <2>2. table[f[k]] \in Chans
      BY <2>1
    <2> QED BY <2>2 DEF Chans
  <1>6. Free(table, gone) \in Seq(Chans) /\ Len(Free(table, gone)) = n
    BY <1>2, <1>4, <1>5
  <1>7. table = << >> => n = 0
    BY <1>3, FS_EmptySet DEF n
  <1> QED BY <1>6, <1>7

\* What Told makes of the streams.
LEMMA ToldFacts ==
  ASSUME StreamTypes, NEW to, NEW msg \in ServerMsgs
  PROVE  /\ Told(to, msg) \in [Clients -> Seq(ServerMsgs)]
         /\ \A c \in Clients : c \notin to => Told(to, msg)[c] = stream[c]
         /\ \A c \in to \cap Clients :
              /\ Told(to, msg)[c] = Append(stream[c], msg)
              /\ Len(Told(to, msg)[c]) = Len(stream[c]) + 1
              /\ Told(to, msg)[c][Len(stream[c]) + 1] = msg
              /\ \A k \in 1 .. Len(stream[c]) :
                   Told(to, msg)[c][k] = stream[c][k]
  <1>1. \A c \in Clients : stream[c] \in Seq(ServerMsgs)
    BY DEF StreamTypes
  <1>2. ASSUME NEW c \in Clients
        PROVE  /\ Append(stream[c], msg) \in Seq(ServerMsgs)
               /\ Len(Append(stream[c], msg)) = Len(stream[c]) + 1
               /\ Append(stream[c], msg)[Len(stream[c]) + 1] = msg
               /\ \A k \in 1 .. Len(stream[c]) :
                    Append(stream[c], msg)[k] = stream[c][k]
    BY <1>1
  <1>3. \A c \in Clients :
          Told(to, msg)[c] = IF c \in to THEN Append(stream[c], msg)
                                         ELSE stream[c]
    BY DEF Told
  <1>4. Told(to, msg) \in [Clients -> Seq(ServerMsgs)]
    BY <1>1, <1>2 DEF Told
  <1> QED BY <1>2, <1>3, <1>4

\* A member that is told of something has its list in the stream or before it.
LEMMA ToldPhase ==
  ASSUME StreamTypes, Phases, room \in [Clients -> {"out", "joining", "in"}],
         present \in SUBSET Clients,
         NEW to \in SUBSET Linked, NEW msg \in ServerMsgs,
         msg.kind # "MEMBERS", NEW c \in Clients,
         stream'[c] = Told(to, msg)[c], room'[c] = room[c], members'[c] = members[c],
         conns'[c] = conns[c], c \in present' <=> c \in present
  PROVE  Phase(c)'
  <1>1. /\ c \in to => /\ Len(stream'[c]) = Len(stream[c]) + 1
                       /\ stream'[c][Len(stream[c]) + 1] = msg
                       /\ \A k \in 1 .. Len(stream[c]) :
                            stream'[c][k] = stream[c][k]
                       /\ room[c] # "out" /\ c \in present
        /\ c \notin to => stream'[c] = stream[c]
        /\ stream'[c] \in Seq(ServerMsgs)
    <2>1. Told(to, msg)[c] \in Seq(ServerMsgs)
      BY ToldFacts
    <2> QED BY <2>1, ToldFacts DEF Linked
  <1>2. Phase(c) /\ stream[c] \in Seq(ServerMsgs)
    BY DEF Phases, StreamTypes
  <1>3. CASE c \notin to
    BY <1>1, <1>2, <1>3 DEF Phase
  <1>4. CASE c \in to
    <2>1. stream'[c] # << >> /\ Len(stream[c]) \in Nat
      BY <1>1, <1>2, <1>4
    <2>2. room[c] = "joining" =>
            stream[c] # << >> /\ stream'[c][1].kind = "MEMBERS"
      BY <1>1, <1>2, <1>4 DEF Phase
    <2>3. room[c] = "in" =>
            \A k \in 1 .. Len(stream'[c]) : stream'[c][k].kind # "MEMBERS"
      BY <1>1, <1>2, <1>4 DEF Phase
    <2>4. \A k \in 2 .. Len(stream'[c]) : stream'[c][k].kind # "MEMBERS"
      BY <1>1, <1>2, <1>4 DEF Phase
    <2> QED BY <1>1, <1>2, <1>4, <2>1, <2>2, <2>3, <2>4 DEF Phase
  <1> QED BY <1>3, <1>4

LEMMA InfoType ==
  ASSUME ServerTypes, NEW u \in present
  PROVE  Info(u) \in Infos
  BY DEF ServerTypes, Info, Infos

\* The messages of the room server.
LEMMA MsgTypes ==
  /\ \A i \in Infos : JoinMsg(i) \in ServerMsgs /\ JoinMsg(i).kind = "JOIN"
                      /\ JoinMsg(i).info = i
  /\ \A S \in Lists : MembersMsg(S) \in ServerMsgs
                      /\ MembersMsg(S).kind = "MEMBERS"
                      /\ MembersMsg(S).infos = S
  /\ \A u \in Clients : PartMsg(u) \in ServerMsgs /\ PartMsg(u).kind = "PART"
                        /\ PartMsg(u).user = u
  /\ \A u \in Clients, v \in BOOLEAN :
       VpnMsg(u, v) \in ServerMsgs /\ VpnMsg(u, v).user = u
       /\ VpnMsg(u, v).kind = IF v THEN "STARTVPN" ELSE "STOPVPN"
  <1>1. \A i \in Infos : JoinMsg(i) \in [kind : {"JOIN"}, info : Infos]
                         /\ JoinMsg(i).kind = "JOIN" /\ JoinMsg(i).info = i
    BY DEF JoinMsg
  <1>2. \A S \in Lists :
          MembersMsg(S) \in [kind : {"MEMBERS"}, infos : Lists]
          /\ MembersMsg(S).kind = "MEMBERS" /\ MembersMsg(S).infos = S
    BY DEF MembersMsg
  <1>3. \A u \in Clients :
          PartMsg(u) \in [kind : {"PART", "STARTVPN", "STOPVPN"},
                          user : Clients]
          /\ PartMsg(u).kind = "PART" /\ PartMsg(u).user = u
    BY DEF PartMsg
  <1>4. \A u \in Clients, v \in BOOLEAN :
          VpnMsg(u, v) \in [kind : {"PART", "STARTVPN", "STOPVPN"},
                            user : Clients]
          /\ VpnMsg(u, v).user = u
          /\ VpnMsg(u, v).kind = IF v THEN "STARTVPN" ELSE "STOPVPN"
    BY DEF VpnMsg
  <1> QED BY <1>1, <1>2, <1>3, <1>4 DEF ServerMsgs

-----------------------------------------------------------------------------
(* Types: one lemma per action *)

LEMMA InitTypes == Init => Types
  <1> SUFFICES ASSUME Init PROVE Types
    OBVIOUS
  <1>1. ServerTypes
    BY FS_EmptySet DEF Init, ServerTypes
  <1>2. StreamTypes
    <2>1. << >> \in Seq(ServerMsgs)
      OBVIOUS
    <2> QED BY <2>1 DEF Init, StreamTypes
  <1>3. ClientTypes
    <2>1. << >> \in Seq(Structs) /\ << >> \in Seq(Chans)
      OBVIOUS
    <2> QED BY <2>1 DEF Init, ClientTypes
  <1>4. NetTypes
    BY DEF Init, NetTypes
  <1>5. Phases
    BY DEF Init, Phases, Phase
  <1> QED BY <1>1, <1>2, <1>3, <1>4, <1>5 DEF Types

\* The member list that the server sends to c, and what it tells the others.
LEMMA ServerJoinFacts ==
  ASSUME Types, NEW c \in Clients, ServerJoin(c)
  PROVE  /\ ServerTypes'
         /\ c \notin present /\ present' = present \cup {c}
         /\ \A u \in present' : Info(u)' \in Infos
         /\ \A u \in present : Info(u)' = Info(u)
         /\ {Info(u)' : u \in present'} \in Lists
         /\ \E echo \in {<< >>, <<JoinMsg(Info(c)')>>} :
              stream' = [Told(Linked, JoinMsg(Info(c)'))
                          EXCEPT ![c] = <<MembersMsg({Info(u)' : u \in present'})>>
                                          \o echo]
  <1>1. c \notin present /\ present' = present \cup {c}
    BY DEF ServerJoin
  <1>2. ServerTypes'
    <2>1. IsFiniteSet(present')
      BY <1>1, FS_AddElement DEF Types, ServerTypes
    <2>2. stays' \in [Clients -> 0 .. MaxStays] /\ vpn' \in [Clients -> BOOLEAN]
      BY DEF ServerJoin, Types, ServerTypes
    <2>3. \A u \in present' : stays'[u] # 0
      BY <1>1 DEF ServerJoin, Types, ServerTypes
    <2> QED BY <1>1, <2>1, <2>2, <2>3 DEF ServerJoin, Types, ServerTypes
  <1>3. \A u \in present' : Info(u)' \in Infos
    BY <1>2 DEF ServerTypes, Info, Infos
  <1>4. \A u \in present : Info(u)' = Info(u)
    BY <1>1 DEF ServerJoin, Types, ServerTypes, Info
  <1>5. {Info(u)' : u \in present'} \in Lists
    <2> DEFINE S == {Info(u)' : u \in present'}
               f == [u \in present' |-> Info(u)']
    <2>1. f \in Surjection(present', S)
      BY DEF Surjection
    <2>2. IsFiniteSet(present')
      BY <1>2 DEF ServerTypes
    <2>3. S \in SUBSET Infos
      BY <1>3
    <2> HIDE DEF S, f
    <2>4. IsFiniteSet(S)
      BY <2>1, <2>2, FS_Surjection
    <2>5. S \in Lists
      BY <2>3, <2>4 DEF Lists
    <2> QED BY <2>5 DEF S
  <1>6. \E echo \in {<< >>, <<JoinMsg(Info(c)')>>} :
          stream' = [Told(Linked, JoinMsg(Info(c)'))
                      EXCEPT ![c] = <<MembersMsg({Info(u)' : u \in present'})>>
                                      \o echo]
    BY DEF ServerJoin
  <1> QED BY <1>1, <1>2, <1>3, <1>4, <1>5, <1>6

\* The streams after a join: c has its list, the others are told.
LEMMA ServerJoinStream ==
  ASSUME Types, NEW c \in Clients, ServerJoin(c)
  PROVE  LET infos == {Info(u)' : u \in present'}
             join == JoinMsg(Info(c)')
         IN  /\ infos \in Lists /\ join \in ServerMsgs
             /\ stream' \in [Clients -> Seq(ServerMsgs)]
             /\ stream'[c][1] = MembersMsg(infos)
             /\ \/ Len(stream'[c]) = 1
                \/ Len(stream'[c]) = 2 /\ stream'[c][2] = join
             /\ \A d \in Clients \ {c} : stream'[d] = Told(Linked, join)[d]
  <1> DEFINE infos == {Info(u)' : u \in present'}
             join == JoinMsg(Info(c)')
             list == MembersMsg(infos)
  <1>1. infos \in Lists /\ Info(c)' \in Infos
    BY ServerJoinFacts
  <1>2. PICK echo \in {<< >>, <<join>>} :
          stream' = [Told(Linked, join) EXCEPT ![c] = <<list>> \o echo]
    BY ServerJoinFacts
  <1> HIDE DEF infos
  <1>3. join \in ServerMsgs /\ list \in ServerMsgs
    BY <1>1, MsgTypes
  <1> HIDE DEF join, list
  <1>4. /\ <<list>> \o echo \in Seq(ServerMsgs)
        /\ (<<list>> \o echo)[1] = list
        /\ \/ Len(<<list>> \o echo) = 1
           \/ Len(<<list>> \o echo) = 2 /\ (<<list>> \o echo)[2] = join
    <2>1. CASE echo = << >>
      BY <1>3, <2>1
    <2>2. CASE echo = <<join>>
      BY <1>3, <2>2
    <2> QED BY <2>1, <2>2
  <1>5. Told(Linked, join) \in [Clients -> Seq(ServerMsgs)]
    BY <1>3, ToldFacts DEF Types
  <1>6. /\ stream' \in [Clients -> Seq(ServerMsgs)]
        /\ stream'[c] = <<list>> \o echo
        /\ \A d \in Clients \ {c} : stream'[d] = Told(Linked, join)[d]
    <2> DEFINE q == <<list>> \o echo
               told == Told(Linked, join)
    <2>1. stream' = [told EXCEPT ![c] = q] /\ q \in Seq(ServerMsgs)
          /\ told \in [Clients -> Seq(ServerMsgs)]
      BY <1>2, <1>4, <1>5
    <2> HIDE DEF q, told
    <2>2. /\ stream' \in [Clients -> Seq(ServerMsgs)]
          /\ stream'[c] = q
          /\ \A d \in Clients \ {c} : stream'[d] = told[d]
      BY <2>1
    <2> QED BY <2>2 DEF q, told
  <1>7. /\ infos \in Lists /\ join \in ServerMsgs
        /\ stream' \in [Clients -> Seq(ServerMsgs)]
        /\ stream'[c][1] = list
        /\ \/ Len(stream'[c]) = 1
           \/ Len(stream'[c]) = 2 /\ stream'[c][2] = join
        /\ \A d \in Clients \ {c} : stream'[d] = Told(Linked, join)[d]
    BY <1>1, <1>3, <1>4, <1>6
  <1> QED BY <1>7 DEF infos, join, list

LEMMA ServerJoinTypes ==
  ASSUME Types, NEW c \in Clients, ServerJoin(c)
  PROVE  Types'
  <1> DEFINE infos == {Info(u)' : u \in present'}
             join == JoinMsg(Info(c)')
  <1>0. /\ infos \in Lists /\ join \in ServerMsgs
        /\ stream' \in [Clients -> Seq(ServerMsgs)]
        /\ stream'[c][1] = MembersMsg(infos)
        /\ \/ Len(stream'[c]) = 1
           \/ Len(stream'[c]) = 2 /\ stream'[c][2] = join
        /\ \A d \in Clients \ {c} : stream'[d] = Told(Linked, join)[d]
    BY ServerJoinStream
  <1>1. ServerTypes' /\ present' = present \cup {c} /\ Info(c)' \in Infos
    BY ServerJoinFacts
  <1> HIDE DEF infos
  <1>2. StreamTypes'
    BY <1>0 DEF StreamTypes
  <1>3. ClientTypes' /\ NetTypes'
    BY DEF Types, ClientTypes, NetTypes, ServerJoin
  <1>4. ASSUME NEW d \in Clients PROVE Phase(d)'
    <2>1. /\ room' = room /\ members' = members /\ conns' = conns
          /\ room[c] = "joining"
      BY DEF ServerJoin
    <2>2. join.kind = "JOIN"
      BY <1>1, MsgTypes
    <2>3. CASE d = c
      <3>1. stream'[c][1].kind = "MEMBERS"
        BY <1>0, MsgTypes
      <3>2. stream'[c] # << >> /\ \A k \in 2 .. Len(stream'[c]) :
              stream'[c][k].kind # "MEMBERS"
        BY <1>0, <2>2
      <3>3. members[c] = << >> /\ conns[c] = << >>
        BY <2>1 DEF Types, Phases, Phase
      <3> QED BY <1>1, <2>1, <2>3, <3>1, <3>2, <3>3 DEF Phase
    <2>4. CASE d # c
      <3>1. stream'[d] = Told(Linked, join)[d] /\ (d \in present' <=> d \in present)
        BY <1>0, <1>1, <2>4
      <3> QED BY <1>0, <2>1, <2>2, <3>1, ToldPhase
                 DEF Types, ClientTypes, ServerTypes
    <2> QED BY <2>3, <2>4
  <1> QED BY <1>1, <1>2, <1>3, <1>4 DEF Types, Phases

LEMMA ServerPartTypes ==
  ASSUME Types, NEW c \in Clients, ServerPart(c)
  PROVE  Types'
  <1>1. PartMsg(c) \in ServerMsgs /\ PartMsg(c).kind = "PART"
    BY MsgTypes
  <1>2. stream' = Told(Linked, PartMsg(c))
    BY DEF ServerPart
  <1>3. ServerTypes'
    <2>1. IsFiniteSet(present \ {c})
      BY FS_RemoveElement DEF Types, ServerTypes
    <2> QED BY <2>1 DEF ServerPart, Types, ServerTypes
  <1>4. StreamTypes'
    BY <1>1, <1>2, ToldFacts DEF Types, StreamTypes
  <1>5. ClientTypes' /\ NetTypes'
    BY DEF Types, ClientTypes, NetTypes, ServerPart
  <1>6. ASSUME NEW d \in Clients PROVE Phase(d)'
    <2>1. CASE d = c
      <3>1. c \notin Linked /\ room[c] = "out"
        BY DEF ServerPart, Linked
      <3>2. stream'[c] = stream[c]
        BY <1>1, <1>2, <3>1, ToldFacts DEF Types
      <3> QED BY <2>1, <3>1, <3>2 DEF ServerPart, Types, Phases, Phase
    <2>2. CASE d # c
      <3>1. d \in present' <=> d \in present
        BY <2>2 DEF ServerPart
      <3>2. room' = room /\ members' = members /\ conns' = conns
        BY DEF ServerPart
      <3> QED BY <1>1, <1>2, <3>1, <3>2, ToldPhase
              DEF Types, ClientTypes, ServerTypes
    <2> QED BY <2>1, <2>2
  <1> QED BY <1>3, <1>4, <1>5, <1>6 DEF Types, Phases

LEMMA ToggleVpnTypes ==
  ASSUME Types, NEW c \in Clients, ToggleVpn(c)
  PROVE  Types'
  <1> DEFINE msg == VpnMsg(c, vpn'[c])
  <1>1. vpn' \in [Clients -> BOOLEAN]
    BY DEF ToggleVpn, Types, ServerTypes
  <1>2. msg \in ServerMsgs /\ msg.kind # "MEMBERS"
    BY <1>1, MsgTypes
  <1>3. stream' = Told(Linked \ {c}, msg)
    BY DEF ToggleVpn
  <1> HIDE DEF msg
  <1>4. ServerTypes'
    BY <1>1 DEF ToggleVpn, Types, ServerTypes
  <1>5. StreamTypes'
    BY <1>2, <1>3, ToldFacts DEF Types, StreamTypes
  <1>6. ClientTypes' /\ NetTypes'
    BY DEF Types, ClientTypes, NetTypes, ToggleVpn
  <1>7. ASSUME NEW d \in Clients PROVE Phase(d)'
    <2>1. room' = room /\ members' = members /\ conns' = conns
          /\ present' = present
      BY DEF ToggleVpn
    <2> QED BY <1>2, <1>3, <2>1, ToldPhase DEF Types, ClientTypes, ServerTypes
  <1> QED BY <1>4, <1>5, <1>6, <1>7 DEF Types, Phases

LEMMA JoinRoomTypes ==
  ASSUME Types, NEW c \in Clients, JoinRoom(c)
  PROVE  Types'
  <1>1. ServerTypes' /\ StreamTypes' /\ NetTypes'
    BY DEF Types, ServerTypes, StreamTypes, NetTypes, JoinRoom, serverVars
  <1>2. ClientTypes'
    BY DEF Types, ClientTypes, JoinRoom
  <1>3. Phases'
    BY DEF Types, ClientTypes, Phases, Phase, JoinRoom, serverVars
  <1> QED BY <1>1, <1>2, <1>3 DEF Types

LEMMA FreeRoomTypes ==
  ASSUME Types, NEW c \in Clients, FreeRoom(c)
  PROVE  Types'
  <1>1. << >> \in Seq(Structs) /\ << >> \in Seq(Chans) /\ << >> \in Seq(ServerMsgs)
    OBVIOUS
  <1>2. ServerTypes' /\ NetTypes'
    BY DEF Types, ServerTypes, NetTypes, FreeRoom
  <1>3. StreamTypes'
    BY <1>1 DEF Types, StreamTypes, FreeRoom
  <1>4. ClientTypes'
    BY <1>1 DEF Types, ClientTypes, FreeRoom
  <1>5. Phases'
    BY DEF Types, ClientTypes, StreamTypes, Phases, Phase, FreeRoom
  <1> QED BY <1>2, <1>3, <1>4, <1>5 DEF Types

\* The message that c reads, and what it leaves of the stream.
LEMMA ReceiveFacts ==
  ASSUME Types, NEW c \in Clients, NEW kind, Receive(c, kind)
  PROVE  /\ Len(stream[c]) \in Nat \ {0}
         /\ Head(stream[c]) = stream[c][1]
         /\ stream[c][1] \in ServerMsgs /\ stream[c][1].kind = kind
         /\ Len(stream'[c]) = Len(stream[c]) - 1
         /\ \A k \in 1 .. Len(stream[c]) - 1 :
              stream'[c][k] = stream[c][k + 1]
         /\ \A d \in Clients \ {c} : stream'[d] = stream[d]
         /\ StreamTypes' /\ ServerTypes'
  <1>1. /\ stream[c] \in Seq(ServerMsgs) /\ stream[c] # << >>
        /\ Head(stream[c]).kind = kind
        /\ stream' = [stream EXCEPT ![c] = Tail(stream[c])]
    BY DEF Types, StreamTypes, Receive
  <1>2. /\ Tail(stream[c]) \in Seq(ServerMsgs)
        /\ Len(Tail(stream[c])) = Len(stream[c]) - 1
        /\ \A k \in 1 .. Len(stream[c]) - 1 :
             Tail(stream[c])[k] = stream[c][k + 1]
    BY <1>1
  <1>3. ServerTypes'
    BY DEF Types, ServerTypes, Receive
  <1>4. /\ stream' \in [Clients -> Seq(ServerMsgs)]
        /\ stream'[c] = Tail(stream[c])
        /\ \A d \in Clients \ {c} : stream'[d] = stream[d]
    <2> DEFINE q == Tail(stream[c])
    <2>1. stream' = [stream EXCEPT ![c] = q] /\ q \in Seq(ServerMsgs)
      BY <1>1, <1>2
    <2> HIDE DEF q
    <2>2. /\ stream' \in [Clients -> Seq(ServerMsgs)]
          /\ stream'[c] = q
          /\ \A d \in Clients \ {c} : stream'[d] = stream[d]
      BY <2>1 DEF Types, StreamTypes
    <2> QED BY <2>2 DEF q
  <1>5. StreamTypes'
    BY <1>4 DEF StreamTypes
  <1>6. Len(stream[c]) \in Nat \ {0} /\ Head(stream[c]) = stream[c][1]
        /\ stream[c][1] \in ServerMsgs
    BY <1>1
  <1> QED BY <1>1, <1>2, <1>3, <1>4, <1>5, <1>6

\* Only the list finds a client that is not in the room.
LEMMA ReceivePhase ==
  ASSUME Types, NEW c \in Clients, NEW kind, Receive(c, kind),
         NEW d \in Clients,
         \/ kind # "MEMBERS" /\ room' = room
         \/ kind = "MEMBERS" /\ room' = [room EXCEPT ![c] = "in"],
         d # c => members'[d] = members[d] /\ conns'[d] = conns[d]
  PROVE  /\ Phase(d)'
         /\ room[c] = IF kind = "MEMBERS" THEN "joining" ELSE "in"
         /\ room'[c] = "in"
  <1>1. Phase(c) /\ Phase(d) /\ room[c] \in {"out", "joining", "in"}
        /\ room[d] \in {"out", "joining", "in"} /\ present' = present
    BY DEF Types, Phases, ClientTypes, Receive
  <1>2. stream[c] # << >> /\ stream[c][1].kind = kind
        /\ Len(stream[c]) \in Nat \ {0}
    BY ReceiveFacts DEF Receive
  <1>3. room[c] = IF kind = "MEMBERS" THEN "joining" ELSE "in"
    BY <1>1, <1>2 DEF Phase
  <1>4. room'[c] = "in" /\ (d # c => room'[d] = room[d])
    BY <1>1, <1>3 DEF Types, ClientTypes
  <1>5. c \in present
    BY <1>1, <1>2, <1>3 DEF Phase
  <1>6. CASE d = c
    <2>1. \A k \in 1 .. Len(stream'[c]) : stream'[c][k].kind # "MEMBERS"
      <3> SUFFICES ASSUME NEW k \in 1 .. Len(stream'[c])
                   PROVE  stream'[c][k].kind # "MEMBERS"
        OBVIOUS
      <3>1. k + 1 \in 2 .. Len(stream[c]) /\ stream'[c][k] = stream[c][k + 1]
        BY <1>2, ReceiveFacts
      <3> QED BY <1>1, <3>1 DEF Phase
    <2>2. c \in present' /\ room'[c] = "in" /\ Len(stream'[c]) \in Nat
      BY <1>1, <1>2, <1>4, <1>5, ReceiveFacts
    <2>3. \A k \in 2 .. Len(stream'[c]) : stream'[c][k].kind # "MEMBERS"
      BY <2>1, <2>2
    <2>4. Phase(c)'
      BY <2>1, <2>2, <2>3 DEF Phase
    <2> QED BY <1>3, <1>4, <1>6, <2>4
  <1>7. CASE d # c
    <2>1. stream'[d] = stream[d]
      BY <1>7, ReceiveFacts
    <2>2. Phase(d) /\ room'[d] = room[d] /\ members'[d] = members[d]
          /\ conns'[d] = conns[d] /\ present' = present
      BY <1>1, <1>4, <1>7
    <2>3. Phase(d)'
      BY <2>1, <2>2 DEF Phase
    <2> QED BY <1>3, <1>4, <2>3
  <1> QED BY <1>3, <1>4, <1>6, <1>7

\* The list becomes the table: a structure for each of its entries.
LEMMA MembersFacts ==
  ASSUME Types, NEW c \in Clients, Members(c)
  PROVE  LET infos == stream[c][1].infos
         IN  /\ infos \in Lists
             /\ members[c] = << >>
             /\ members'[c] \in Seq(Structs)
             /\ \A d \in Clients \ {c} : members'[d] = members[d]
             /\ \A x \in infos : \E i \in 1 .. Len(members'[c]) :
                  members'[c][i] = Member(x)
             /\ \A i \in 1 .. Len(members'[c]) : \E x \in infos :
                  members'[c][i] = Member(x)
             /\ \A i, j \in 1 .. Len(members'[c]) :
                  members'[c][i] = members'[c][j] => i = j
  <1> DEFINE infos == stream[c][1].infos
             S == {Member(i) : i \in infos}
             q == SetToSeq(S)
  <1>1. Receive(c, "MEMBERS") /\ room' = [room EXCEPT ![c] = "in"]
        /\ members' = [members EXCEPT ![c] =
                         SetToSeq({Member(i) : i \in Head(stream[c]).infos})
                           \o members[c]]
    BY DEF Members, Types, ClientTypes
  <1>2. /\ stream[c][1] \in ServerMsgs /\ stream[c][1].kind = "MEMBERS"
        /\ Head(stream[c]) = stream[c][1]
    BY <1>1, ReceiveFacts
  <1>3. infos \in Lists
    BY <1>2 DEF ServerMsgs
  <1>4. members[c] = << >>
    <2>1. room[c] = "joining"
      <3>1. Phase(c) /\ room[c] \in {"out", "joining", "in"}
        BY DEF Types, Phases, ClientTypes
      <3>2. stream[c] # << >> /\ 1 \in 1 .. Len(stream[c])
        BY <1>1, ReceiveFacts DEF Receive
      <3> QED BY <1>2, <3>1, <3>2 DEF Phase
    <2> QED BY <2>1 DEF Types, Phases, Phase
  <1>5. IsFiniteSet(S) /\ S \in SUBSET Structs
    <2> DEFINE f == [i \in infos |-> Member(i)]
    <2>1. f \in Surjection(infos, S)
      BY DEF Surjection
    <2>2. IsFiniteSet(infos)
      BY <1>3 DEF Lists
    <2>3. S \in SUBSET Structs
      BY <1>3 DEF Lists, Infos, Structs, Member
    <2> HIDE DEF S, f
    <2> QED BY <2>1, <2>2, <2>3, FS_Surjection
  <1>6. \A x \in infos : Member(x) \in S
    OBVIOUS
  <1>7. \A x \in S : \E i \in infos : x = Member(i)
    OBVIOUS
  <1>8. members' = [members EXCEPT ![c] = q \o << >>]
    BY <1>1, <1>2, <1>4
  <1> HIDE DEF S, infos
  <1>9. /\ q \in Seq(S)
        /\ \A x \in S : \E i \in DOMAIN q : q[i] = x
        /\ \A i, j \in DOMAIN q : q[i] = q[j] => i = j
    BY <1>5, SetToSeqFacts
  <1> HIDE DEF q
  <1>10. q \in Seq(Structs) /\ q \o << >> = q /\ DOMAIN q = 1 .. Len(q)
    BY <1>5, <1>9
  <1>11. members'[c] = q /\ \A d \in Clients \ {c} : members'[d] = members[d]
    BY <1>8, <1>10 DEF Types, ClientTypes
  <1>12. \A i \in 1 .. Len(q) : q[i] \in S
    BY <1>9, <1>10
  <1>13. /\ infos \in Lists /\ members[c] = << >>
         /\ members'[c] \in Seq(Structs)
         /\ \A d \in Clients \ {c} : members'[d] = members[d]
         /\ \A x \in infos : \E i \in 1 .. Len(members'[c]) :
              members'[c][i] = Member(x)
         /\ \A i \in 1 .. Len(members'[c]) : \E x \in infos :
              members'[c][i] = Member(x)
         /\ \A i, j \in 1 .. Len(members'[c]) :
              members'[c][i] = members'[c][j] => i = j
    <2>1. \A x \in infos : \E i \in 1 .. Len(q) : q[i] = Member(x)
      BY <1>6, <1>9, <1>10
    <2>2. \A i \in 1 .. Len(q) : \E x \in infos : q[i] = Member(x)
      BY <1>7, <1>12
    <2>3. \A i, j \in 1 .. Len(q) : q[i] = q[j] => i = j
      BY <1>9, <1>10
    <2>4. members'[c] = q
      BY <1>11
    <2> QED BY <1>3, <1>4, <1>10, <1>11, <2>1, <2>2, <2>3, <2>4
  <1> QED BY <1>13 DEF infos

\* A member that joins comes first.
LEMMA JoinFacts ==
  ASSUME Types, NEW c \in Clients, Join(c)
  PROVE  LET info == stream[c][1].info
         IN  /\ info \in Infos
             /\ \A d \in Clients \ {c} : members'[d] = members[d]
             /\ info.user = c => members'[c] = members[c] /\ net' = net
             /\ info.user # c =>
                  /\ members'[c] \in Seq(Structs)
                  /\ Len(members'[c]) = Len(members[c]) + 1
                  /\ members'[c][1] = Member(info)
                  /\ \A i \in 1 .. Len(members[c]) :
                       members'[c][i + 1] = members[c][i]
                  /\ net' = net \cup Hello(c, {info.user})
  <1> DEFINE info == stream[c][1].info
             r == Member(info)
  <1>1. /\ Receive(c, "JOIN")
        /\ members' = [members EXCEPT ![c] =
                         Joined(c, Head(stream[c]).info) \o members[c]]
        /\ net' = net \cup
                    Hello(c, {s.user : s \in ToSet(Joined(c, Head(stream[c]).info))})
    BY DEF Join, Types, ClientTypes
  <1>2. /\ stream[c][1] \in ServerMsgs /\ stream[c][1].kind = "JOIN"
        /\ Head(stream[c]) = stream[c][1]
    BY <1>1, ReceiveFacts
  <1>3. info \in Infos
    BY <1>2 DEF ServerMsgs
  <1>4. /\ members' = [members EXCEPT ![c] = Joined(c, info) \o members[c]]
        /\ net' = net \cup Hello(c, {s.user : s \in ToSet(Joined(c, info))})
    BY <1>1, <1>2
  <1>5. members[c] \in Seq(Structs) /\ members \in [Clients -> Seq(Structs)]
    BY DEF Types, ClientTypes
  <1>6. r \in Structs /\ r.user = info.user
    BY <1>3 DEF Infos, Structs, Member
  <1> HIDE DEF info, r
  <1>7. \A d \in Clients \ {c} : members'[d] = members[d]
    BY <1>4, <1>5
  <1>8. CASE info.user = c
    <2>1. Joined(c, info) = << >>
      BY <1>8 DEF Joined
    <2>2. << >> \o members[c] = members[c]
      BY <1>5
    <2>3. {s.user : s \in ToSet(Joined(c, info))} = {}
      BY <2>1 DEF ToSet
    <2>4. net' = net
      BY <1>4, <2>3 DEF Hello
    <2>5. members'[c] = members[c]
      BY <1>4, <1>5, <2>1, <2>2
    <2> QED BY <1>3, <1>7, <1>8, <2>4, <2>5 DEF info
  <1>9. CASE info.user # c
    <2>1. Joined(c, info) = <<r>>
      BY <1>9 DEF Joined, r
    <2>2. /\ <<r>> \o members[c] \in Seq(Structs)
          /\ Len(<<r>> \o members[c]) = Len(members[c]) + 1
          /\ (<<r>> \o members[c])[1] = r
          /\ \A i \in 1 .. Len(members[c]) :
               (<<r>> \o members[c])[i + 1] = members[c][i]
      BY <1>5, <1>6
    <2>3. ToSet(<<r>>) = {r}
      BY DEF ToSet
    <2>4. {s.user : s \in ToSet(Joined(c, info))} = {info.user}
      BY <1>6, <2>1, <2>3
    <2>5. members'[c] = <<r>> \o members[c]
      BY <1>4, <1>5, <2>1
    <2>6. /\ info \in Infos /\ info.user # c
          /\ \A d \in Clients \ {c} : members'[d] = members[d]
          /\ members'[c] \in Seq(Structs)
          /\ Len(members'[c]) = Len(members[c]) + 1
          /\ members'[c][1] = r
          /\ \A i \in 1 .. Len(members[c]) :
               members'[c][i + 1] = members[c][i]
          /\ net' = net \cup Hello(c, {info.user})
      BY <1>3, <1>4, <1>7, <1>9, <2>2, <2>4, <2>5
    <2> QED BY <2>6 DEF info, r
  <1> QED BY <1>8, <1>9

\* A member that parts: its newest structure is removed, its channels freed.
LEMMA PartFacts ==
  ASSUME Types, NEW c \in Clients, Part(c)
  PROVE  LET u == stream[c][1].user
             p == Find(c, u)
         IN  /\ u \in Clients
             /\ \A d \in Clients \ {c} : members'[d] = members[d]
                                         /\ conns'[d] = conns[d]
             /\ ~Known(c, u) =>
                  members'[c] = members[c] /\ conns'[c] = conns[c]
             /\ Known(c, u) =>
                  /\ p \in 1 .. Len(members[c]) /\ members[c][p].user = u
                  /\ members'[c] \in Seq(Structs)
                  /\ Len(members'[c]) = Len(members[c]) - 1
                  /\ \A i \in 1 .. Len(members[c]) - 1 :
                       members'[c][i] = members[c][IF i < p THEN i ELSE i + 1]
                  /\ conns'[c] = Free(conns[c],
                                      ChannelsOf(conns[c], members[c][p]))
                  /\ conns'[c] \in Seq(Chans)
  <1> DEFINE u == stream[c][1].user
             p == Find(c, u)
  <1>1. /\ Receive(c, "PART")
        /\ Known(c, Head(stream[c]).user) =>
             /\ members' = [members EXCEPT ![c] =
                              RemoveAt(members[c], Find(c, Head(stream[c]).user))]
             /\ conns' = [conns EXCEPT ![c] =
                            Free(conns[c],
                                 ChannelsOf(conns[c],
                                   MemberFromId(c, Head(stream[c]).user)))]
        /\ ~Known(c, Head(stream[c]).user) =>
             members' = members /\ conns' = conns
    BY DEF Part, Types, ClientTypes
  <1>2. /\ stream[c][1] \in ServerMsgs /\ stream[c][1].kind = "PART"
        /\ Head(stream[c]) = stream[c][1]
    BY <1>1, ReceiveFacts
  <1>3. u \in Clients
    BY <1>2 DEF ServerMsgs
  <1>4. /\ members[c] \in Seq(Structs) /\ members \in [Clients -> Seq(Structs)]
        /\ conns[c] \in Seq(Chans) /\ conns \in [Clients -> Seq(Chans)]
    BY DEF Types, ClientTypes
  <1>5. /\ Known(c, u) =>
             /\ members' = [members EXCEPT ![c] = RemoveAt(members[c], p)]
             /\ conns' = [conns EXCEPT ![c] =
                            Free(conns[c], ChannelsOf(conns[c], members[c][p]))]
        /\ ~Known(c, u) => members' = members /\ conns' = conns
    BY <1>1, <1>2 DEF MemberFromId
  <1> HIDE DEF u
  <1>6. Known(c, u) => p \in 1 .. Len(members[c]) /\ members[c][p].user = u
    BY <1>4, FindFacts
  <1>7. CASE ~Known(c, u)
    BY <1>3, <1>5, <1>7 DEF u
  <1>8. CASE Known(c, u)
    <2> HIDE DEF p
    <2> DEFINE m == RemoveAt(members[c], p)
               t == Free(conns[c], ChannelsOf(conns[c], members[c][p]))
    <2>1. /\ m \in Seq(Structs) /\ Len(m) = Len(members[c]) - 1
          /\ \A i \in 1 .. Len(members[c]) - 1 :
               m[i] = members[c][IF i < p THEN i ELSE i + 1]
      BY <1>4, <1>6, <1>8, RemoveAtFacts
    <2>2. t \in Seq(Chans)
      BY <1>4, FreeFacts
    <2>3. members' = [members EXCEPT ![c] = m] /\ conns' = [conns EXCEPT ![c] = t]
      BY <1>5, <1>8
    <2> HIDE DEF m, t
    <2>4. /\ members'[c] = m /\ conns'[c] = t
          /\ \A d \in Clients \ {c} : members'[d] = members[d]
                                      /\ conns'[d] = conns[d]
      BY <1>4, <2>3
    <2>5. t = Free(conns[c], ChannelsOf(conns[c], members[c][p]))
      BY DEF t
    <2> QED BY <1>3, <1>6, <1>8, <2>1, <2>2, <2>4, <2>5 DEF u, p
  <1> QED BY <1>7, <1>8

\* The VPN flag of the structure that is found is set.
LEMMA SwitchFacts ==
  ASSUME Types, NEW c \in Clients, NEW kind, SwitchVpn(c, kind)
  PROVE  LET u == stream[c][1].user
             p == Find(c, u)
         IN  /\ \A d \in Clients \ {c} : members'[d] = members[d]
             /\ ~Known(c, u) => members'[c] = members[c]
             /\ Known(c, u) =>
                  /\ p \in 1 .. Len(members[c]) /\ members[c][p].user = u
                  /\ Len(members'[c]) = Len(members[c])
                  /\ members'[c] \in Seq(Structs)
                  /\ \A i \in 1 .. Len(members[c]) :
                       members'[c][i] =
                         IF i = p
                           THEN [members[c][i] EXCEPT !.vpn = (kind = "STARTVPN")]
                           ELSE members[c][i]
  <1> DEFINE u == stream[c][1].user
             p == Find(c, u)
             r == [members[c][p] EXCEPT !.vpn = (kind = "STARTVPN")]
  <1>1. Receive(c, kind)
    BY DEF SwitchVpn
  <1>2. Head(stream[c]) = stream[c][1]
    BY <1>1, ReceiveFacts
  <1>3. /\ members[c] \in Seq(Structs) /\ members \in [Clients -> Seq(Structs)]
    BY DEF Types, ClientTypes
  <1>4. members' = IF Known(c, u)
                     THEN [members EXCEPT ![c] = [members[c] EXCEPT ![p] = r]]
                     ELSE members
    BY <1>2, <1>3 DEF SwitchVpn, Change
  <1>5. Known(c, u) => p \in 1 .. Len(members[c]) /\ members[c][p].user = u
    BY <1>3, FindFacts
  <1>6. CASE ~Known(c, u)
    BY <1>4, <1>6
  <1>7. CASE Known(c, u)
    <2>1. members[c][p] \in Structs
      BY <1>3, <1>5, <1>7
    <2>2. r \in Structs
      BY <2>1 DEF Structs
    <2> DEFINE m == [members[c] EXCEPT ![p] = r]
    <2> HIDE DEF r, p, u
    <2>3. /\ m \in Seq(Structs) /\ Len(m) = Len(members[c])
          /\ \A i \in 1 .. Len(members[c]) :
               m[i] = IF i = p THEN r ELSE members[c][i]
      BY <1>3, <1>5, <1>7, <2>2
    <2>4. members' = [members EXCEPT ![c] = m]
      BY <1>4, <1>7
    <2> HIDE DEF m
    <2>5. members'[c] = m /\ \A d \in Clients \ {c} : members'[d] = members[d]
      BY <1>3, <2>4
    <2>6. \A i \in 1 .. Len(members[c]) :
            members'[c][i] =
              IF i = p THEN [members[c][i] EXCEPT !.vpn = (kind = "STARTVPN")]
                       ELSE members[c][i]
      BY <2>3, <2>5 DEF r
    <2> QED BY <1>5, <1>7, <2>3, <2>5, <2>6 DEF p, u
  <1> QED BY <1>6, <1>7

\* What a HELLO message changes: the conn_ok of a structure of its sender.
Heard(c, u, ok) ==
  /\ \A d \in Clients \ {c} : members'[d] = members[d]
  /\ members'[c] \in Seq(Structs)
  /\ Len(members'[c]) = Len(members[c])
  /\ \A i \in 1 .. Len(members[c]) :
       \/ members'[c][i] = members[c][i]
       \/ /\ members[c][i].user = u
          /\ members'[c][i] =
               [members[c][i] EXCEPT
                  !.ok = IF ok = 2 \/ members[c][i].ok = 2 THEN 2 ELSE 1]

LEMMA HelloFacts ==
  ASSUME Types, NEW c \in Clients, NEW u \in Clients
  PROVE  /\ ReceiveReq(c, u) => Heard(c, u, 1)
         /\ ReceiveRep(c, u) => Heard(c, u, 2)
  <1> DEFINE p == Find(c, u)
  <1>1. members[c] \in Seq(Structs) /\ members \in [Clients -> Seq(Structs)]
    BY DEF Types, ClientTypes
  <1>2. Known(c, u) => /\ p \in 1 .. Len(members[c])
                       /\ members[c][p].user = u /\ members[c][p] \in Structs
    BY <1>1, FindFacts
  <1>3. ASSUME NEW ok \in {1, 2}, NEW r \in Structs, Known(c, u),
               r = [members[c][p] EXCEPT
                      !.ok = IF ok = 2 \/ members[c][p].ok = 2 THEN 2 ELSE 1],
               members' = [members EXCEPT ![c] = [members[c] EXCEPT ![p] = r]]
        PROVE  Heard(c, u, ok)
    <2> DEFINE m == [members[c] EXCEPT ![p] = r]
    <2> HIDE DEF p
    <2>1. /\ m \in Seq(Structs) /\ Len(m) = Len(members[c])
          /\ \A i \in 1 .. Len(members[c]) :
               m[i] = IF i = p THEN r ELSE members[c][i]
      BY <1>1, <1>2, <1>3
    <2>2. members' = [members EXCEPT ![c] = m]
      BY <1>3
    <2> HIDE DEF m
    <2>3. members'[c] = m /\ \A d \in Clients \ {c} : members'[d] = members[d]
      BY <1>1, <2>2
    <2> QED BY <1>2, <1>3, <2>1, <2>3 DEF Heard
  <1>4. ASSUME members' = members, NEW ok PROVE Heard(c, u, ok)
    BY <1>1, <1>4 DEF Heard
  <1>5. ASSUME ReceiveReq(c, u) PROVE Heard(c, u, 1)
    <2>1. members' = IF Known(c, u)
                       THEN [members EXCEPT ![c] =
                              [members[c] EXCEPT ![p] =
                                 [members[c][p] EXCEPT
                                    !.ok = OkAfterReq(members[c][p].ok)]]]
                       ELSE members
      BY <1>1, <1>2, <1>5 DEF ReceiveReq, Change
    <2>2. CASE Known(c, u)
      <3> DEFINE r == [members[c][p] EXCEPT !.ok = OkAfterReq(members[c][p].ok)]
      <3>1. r = [members[c][p] EXCEPT
                   !.ok = IF 1 = 2 \/ members[c][p].ok = 2 THEN 2 ELSE 1]
        BY <1>2, <2>2 DEF OkAfterReq, Structs
      <3>2. r \in Structs
        BY <1>2, <2>2 DEF OkAfterReq, Structs
      <3>3. members' = [members EXCEPT ![c] = [members[c] EXCEPT ![p] = r]]
        BY <2>1, <2>2
      <3> HIDE DEF r, p
      <3> QED BY <1>3, <2>2, <3>1, <3>2, <3>3
    <2> QED BY <1>4, <2>1, <2>2
  <1>6. ASSUME ReceiveRep(c, u) PROVE Heard(c, u, 2)
    <2>1. members' = IF Known(c, u)
                       THEN [members EXCEPT ![c] =
                              [members[c] EXCEPT ![p] =
                                 [members[c][p] EXCEPT !.ok = 2]]]
                       ELSE members
      BY <1>1, <1>2, <1>6 DEF ReceiveRep, Change
    <2>2. CASE Known(c, u)
      <3> DEFINE r == [members[c][p] EXCEPT !.ok = 2]
      <3>1. r = [members[c][p] EXCEPT
                   !.ok = IF 2 = 2 \/ members[c][p].ok = 2 THEN 2 ELSE 1]
        OBVIOUS
      <3>2. r \in Structs
        BY <1>2, <2>2 DEF Structs
      <3>3. members' = [members EXCEPT ![c] = [members[c] EXCEPT ![p] = r]]
        BY <2>1, <2>2
      <3> HIDE DEF r, p
      <3> QED BY <1>3, <2>2, <3>1, <3>2, <3>3
    <2> QED BY <1>4, <2>1, <2>2
  <1> QED BY <1>5, <1>6

LEMMA PeerMsgTypes ==
  /\ \A u, v \in Clients : HelloReq(u, v) \in PeerMsgs /\ HelloRep(u, v) \in PeerMsgs
  /\ \A u, v \in Clients, id \in 0 .. ConnIds - 1 : InitConn(u, v, id) \in PeerMsgs
  /\ \A c \in Clients : \A to \in SUBSET Clients : Hello(c, to) \in SUBSET PeerMsgs
  <1>1. /\ \A u, v \in Clients :
             HelloReq(u, v) \in PeerMsgs /\ HelloRep(u, v) \in PeerMsgs
        /\ \A u, v \in Clients, id \in 0 .. ConnIds - 1 :
             InitConn(u, v, id) \in PeerMsgs
    BY DEF PeerMsgs, HelloReq, HelloRep, InitConn
  <1> QED BY <1>1 DEF Hello

\* The member table of one client changes within its type.
LEMMA MembersType ==
  ASSUME Types, NEW c \in Clients,
         members' \in [Clients -> Seq(Structs)] \/
           (\E q : members' = [members EXCEPT ![c] = q]),
         members'[c] \in Seq(Structs),
         \A d \in Clients \ {c} : members'[d] = members[d]
  PROVE  members' \in [Clients -> Seq(Structs)]
  <1>1. CASE \E q : members' = [members EXCEPT ![c] = q]
    <2>1. PICK q : members' = [members EXCEPT ![c] = q]
      BY <1>1
    <2>2. members \in [Clients -> Seq(Structs)]
      BY DEF Types, ClientTypes
    <2>3. members'[c] = q
      BY <2>1, <2>2
    <2> QED BY <2>1, <2>2, <2>3
  <1> QED BY <1>1

LEMMA OthersType ==
  ASSUME NEW c \in Clients, members' \in [Clients -> Seq(Structs)]
  PROVE  Others(c)' \in SUBSET Clients
  <1>1. \A r \in ToSet(members'[c]) : r \in Structs
    BY DEF ToSet
  <1> QED BY <1>1 DEF Others, Structs

LEMMA MembersTypes ==
  ASSUME Types, NEW c \in Clients, Members(c)
  PROVE  Types'
  <1>1. /\ Receive(c, "MEMBERS") /\ room' = [room EXCEPT ![c] = "in"]
        /\ \E q : members' = [members EXCEPT ![c] = q]
        /\ net' = net \cup Hello(c, Others(c)') /\ conns' = conns
        /\ opened' = opened /\ reached' = reached
    BY DEF Members, Receive
  <1>2. /\ members'[c] \in Seq(Structs)
        /\ \A d \in Clients \ {c} : members'[d] = members[d]
    BY MembersFacts
  <1>3. members' \in [Clients -> Seq(Structs)]
    BY <1>1, <1>2, MembersType
  <1>4. ClientTypes'
    BY <1>1, <1>3 DEF Types, ClientTypes
  <1>5. NetTypes'
    BY <1>1, <1>3, OthersType, PeerMsgTypes DEF Types, NetTypes
  <1>6. Phases'
    BY <1>1, <1>2, ReceivePhase DEF Phases
  <1> QED BY <1>1, <1>4, <1>5, <1>6, ReceiveFacts DEF Types

LEMMA JoinTypes ==
  ASSUME Types, NEW c \in Clients, Join(c)
  PROVE  Types'
  <1>1. /\ Receive(c, "JOIN") /\ room' = room /\ conns' = conns
        /\ \E q : members' = [members EXCEPT ![c] = q]
        /\ opened' = opened /\ reached' = reached
    BY DEF Join, Receive
  <1> DEFINE info == stream[c][1].info
  <1>2. /\ info \in Infos
        /\ \A d \in Clients \ {c} : members'[d] = members[d]
        /\ info.user = c => members'[c] = members[c] /\ net' = net
        /\ info.user # c => /\ members'[c] \in Seq(Structs)
                            /\ net' = net \cup Hello(c, {info.user})
    BY JoinFacts
  <1>3. members'[c] \in Seq(Structs)
    BY <1>2 DEF Types, ClientTypes
  <1>4. members' \in [Clients -> Seq(Structs)]
    BY <1>1, <1>2, <1>3, MembersType
  <1>5. ClientTypes'
    BY <1>1, <1>4 DEF Types, ClientTypes
  <1>6. NetTypes'
    <2>1. {info.user} \in SUBSET Clients
      BY <1>2 DEF Infos
    <2> HIDE DEF info
    <2> QED BY <1>1, <1>2, <2>1, PeerMsgTypes DEF Types, NetTypes
  <1>7. Phases'
    BY <1>1, <1>2, ReceivePhase DEF Phases
  <1> QED BY <1>1, <1>5, <1>6, <1>7, ReceiveFacts DEF Types

LEMMA PartTypes ==
  ASSUME Types, NEW c \in Clients, Part(c)
  PROVE  Types'
  <1>1. /\ Receive(c, "PART") /\ room' = room /\ net' = net
        /\ opened' = opened /\ reached' = reached
        /\ \/ members' = members /\ conns' = conns
           \/ /\ \E q : members' = [members EXCEPT ![c] = q]
              /\ \E t : conns' = [conns EXCEPT ![c] = t]
    BY DEF Part, Receive
  <1>2. /\ \A d \in Clients \ {c} : members'[d] = members[d]
                                    /\ conns'[d] = conns[d]
        /\ \/ members'[c] = members[c] /\ conns'[c] = conns[c]
           \/ members'[c] \in Seq(Structs) /\ conns'[c] \in Seq(Chans)
    BY PartFacts
  <1>3. members'[c] \in Seq(Structs) /\ conns'[c] \in Seq(Chans)
    BY <1>2 DEF Types, ClientTypes
  <1>4. members' \in [Clients -> Seq(Structs)]
    <2>1. members \in [Clients -> Seq(Structs)]
      BY DEF Types, ClientTypes
    <2> QED BY <1>1, <1>2, <1>3, <2>1, MembersType
  <1>5. conns' \in [Clients -> Seq(Chans)]
    <2>1. conns \in [Clients -> Seq(Chans)]
      BY DEF Types, ClientTypes
    <2>2. CASE conns' = conns
      BY <2>1, <2>2
    <2>3. CASE \E t : conns' = [conns EXCEPT ![c] = t]
      <3>1. PICK t : conns' = [conns EXCEPT ![c] = t]
        BY <2>3
      <3>2. conns'[c] = t
        BY <2>1, <3>1
      <3> QED BY <1>3, <2>1, <3>1, <3>2
    <2> QED BY <1>1, <2>2, <2>3
  <1>6. ClientTypes' /\ NetTypes'
    BY <1>1, <1>4, <1>5 DEF Types, ClientTypes, NetTypes
  <1>7. Phases'
    BY <1>1, <1>2, ReceivePhase DEF Phases
  <1> QED BY <1>1, <1>6, <1>7, ReceiveFacts DEF Types

LEMMA SwitchVpnTypes ==
  ASSUME Types, NEW c \in Clients, NEW kind, SwitchVpn(c, kind),
         kind # "MEMBERS"
  PROVE  Types'
  <1>1. /\ Receive(c, kind) /\ room' = room /\ net' = net /\ conns' = conns
        /\ opened' = opened /\ reached' = reached
        /\ \/ members' = members
           \/ \E q : members' = [members EXCEPT ![c] = q]
    BY DEF SwitchVpn, Receive, Change
  <1>2. /\ \A d \in Clients \ {c} : members'[d] = members[d]
        /\ members'[c] = members[c] \/ members'[c] \in Seq(Structs)
    BY SwitchFacts
  <1>3. members' \in [Clients -> Seq(Structs)]
    <2>1. members \in [Clients -> Seq(Structs)]
      BY DEF Types, ClientTypes
    <2>2. members'[c] \in Seq(Structs)
      BY <1>2, <2>1
    <2> QED BY <1>1, <1>2, <2>1, <2>2, MembersType
  <1>4. ClientTypes' /\ NetTypes'
    BY <1>1, <1>3 DEF Types, ClientTypes, NetTypes
  <1>5. Phases'
    BY <1>1, <1>2, ReceivePhase DEF Phases
  <1> QED BY <1>1, <1>4, <1>5, ReceiveFacts DEF Types

\* What is left of the network, or is added to it.
LEMMA LeftFacts ==
  ASSUME NEW msg, NEW left \in Left(msg)
  PROVE  left \in SUBSET net
  BY DEF Left

LEMMA DoHelloTypes ==
  ASSUME Types, NEW c \in Clients, DoHello(c)
  PROVE  Types'
  <1>1. /\ UNCHANGED <<present, stays, vpn, stream, toggles, room, members,
                       conns, opened, reached>>
        /\ net' = net \cup Hello(c, Others(c))
    BY DEF DoHello, serverVars
  <1>2. Others(c) \in SUBSET Clients
    <2>1. \A r \in ToSet(members[c]) : r \in Structs
      BY DEF Types, ClientTypes, ToSet
    <2> QED BY <2>1 DEF Others, Structs
  <1>3. net' \in SUBSET PeerMsgs
    BY <1>1, <1>2, PeerMsgTypes DEF Types, NetTypes
  <1> QED BY <1>1, <1>3 DEF Types, ServerTypes, StreamTypes, ClientTypes,
             NetTypes, Phases, Phase

LEMMA HelloTypes ==
  ASSUME Types, NEW c \in Clients, NEW u \in Clients,
         ReceiveReq(c, u) \/ ReceiveRep(c, u)
  PROVE  Types'
  <1>1. /\ UNCHANGED <<present, stays, vpn, stream, toggles, room, conns,
                       opened>>
        /\ reached' = reached \cup {<<u, c>>}
        /\ members' = members \/ \E q : members' = [members EXCEPT ![c] = q]
    BY DEF ReceiveReq, ReceiveRep, Change, serverVars
  <1>2. net' \in SUBSET PeerMsgs
    <2>1. CASE ReceiveReq(c, u)
      <3>1. PICK left \in Left(HelloReq(u, c)) :
              net' = left \cup IF Known(c, u) THEN Reply(c, MemberFromId(c, u))
                                              ELSE {}
        BY <2>1 DEF ReceiveReq
      <3>2. Known(c, u) => Reply(c, MemberFromId(c, u)) = {HelloRep(c, u)}
        BY FindFacts DEF Types, ClientTypes, Reply, MemberFromId
      <3> QED BY <3>1, <3>2, LeftFacts, PeerMsgTypes DEF Types, NetTypes
    <2>2. CASE ReceiveRep(c, u)
      <3>1. net' \in Left(HelloRep(u, c))
        BY <2>2 DEF ReceiveRep
      <3> QED BY <3>1, LeftFacts DEF Types, NetTypes
    <2> QED BY <2>1, <2>2
  <1>3. /\ \A d \in Clients \ {c} : members'[d] = members[d]
        /\ members'[c] \in Seq(Structs) /\ Len(members'[c]) = Len(members[c])
    BY HelloFacts DEF Heard
  <1>4. members' \in [Clients -> Seq(Structs)]
    <2>1. members \in [Clients -> Seq(Structs)]
      BY DEF Types, ClientTypes
    <2> QED BY <1>1, <1>3, <2>1, MembersType
  <1>5. \A d \in Clients : members[d] = << >> => members'[d] = << >>
    <2>1. members[c] = << >> => members'[c] = << >>
      BY <1>3
    <2> QED BY <1>3, <2>1
  <1>6. Phases'
    BY <1>1, <1>5 DEF Types, Phases, Phase
  <1>7. NetTypes'
    BY <1>1, <1>2 DEF Types, NetTypes
  <1>8. ServerTypes' /\ StreamTypes' /\ ClientTypes'
    BY <1>1, <1>4 DEF Types, ServerTypes, StreamTypes, ClientTypes
  <1> QED BY <1>6, <1>7, <1>8 DEF Types

LEMMA LoseTypes ==
  ASSUME Types, NEW msg \in net, Lose(msg)
  PROVE  Types'
  <1>1. /\ UNCHANGED <<present, stays, vpn, stream, toggles, room, members,
                       conns, opened, reached>>
        /\ net' = net \ {msg}
    BY DEF Lose, serverVars
  <1>2. NetTypes'
    BY <1>1 DEF Types, NetTypes
  <1>3. ServerTypes' /\ StreamTypes' /\ ClientTypes' /\ Phases'
    BY <1>1 DEF Types, ServerTypes, StreamTypes, ClientTypes, Phases, Phase
  <1> QED BY <1>2, <1>3 DEF Types

\* The connection table of one client changes.
LEMMA ConnsTypes ==
  ASSUME Types, NEW c \in Clients, NEW t \in Seq(Chans),
         conns' = [conns EXCEPT ![c] = t],
         t # << >> => room[c] = "in",
         UNCHANGED <<present, stays, vpn, stream, toggles, room, members,
                     reached>>,
         opened' \in [Clients -> 0 .. MaxConns], net' \in SUBSET PeerMsgs
  PROVE  Types'
  <1>1. conns' \in [Clients -> Seq(Chans)]
    BY DEF Types, ClientTypes
  <1>2. conns'[c] = t /\ \A d \in Clients \ {c} : conns'[d] = conns[d]
    BY DEF Types, ClientTypes
  <1>3. \A d \in Clients : room[d] # "in" => conns'[d] = << >>
    BY <1>2 DEF Types, Phases, Phase
  <1>4. Phases'
    BY <1>3 DEF Types, Phases, Phase
  <1> QED BY <1>1, <1>4
          DEF Types, ServerTypes, StreamTypes, ClientTypes, NetTypes

LEMMA NewConnIdType == \A n \in Nat : NewConnId(n) \in 0 .. ConnIds - 1
  BY DEF NewConnId

LEMMA PutTypes ==
  ASSUME Types, NEW c \in Clients, NEW r \in ToSet(members[c]),
         NEW id \in 0 .. ConnIds - 1, NEW opener \in Clients
  PROVE  /\ r \in Structs
         /\ <<Channel(id, r, opener)>> \o conns[c] \in Seq(Chans)
         /\ room[c] = "in"
  <1>1. r \in Structs /\ members[c] # << >>
    BY DEF Types, ClientTypes, ToSet
  <1>2. Channel(id, r, opener) \in Chans
    BY <1>1 DEF Channel, Chans, Structs
  <1>3. conns[c] \in Seq(Chans)
    BY DEF Types, ClientTypes
  <1> HIDE DEF Channel
  <1> QED BY <1>1, <1>2, <1>3 DEF Types, Phases, Phase

LEMMA ConnectTypes ==
  ASSUME Types, NEW c \in Clients, NEW r \in ToSet(members[c]), Connect(c, r)
  PROVE  Types'
  <1> DEFINE id == NewConnId(opened[c])
             t == <<Channel(id, r, c)>> \o conns[c]
  <1>1. opened[c] \in 0 .. MaxConns /\ opened[c] < MaxConns
    BY DEF Types, ClientTypes, Connect
  <1>2. id \in 0 .. ConnIds - 1
    BY <1>1, NewConnIdType
  <1>3. conns' = [conns EXCEPT ![c] = t] /\ net' = net \cup {InitConn(c, r.user, id)}
    BY DEF Connect, Put, Types, ClientTypes
  <1> HIDE DEF id
  <1>4. t \in Seq(Chans) /\ r \in Structs /\ room[c] = "in"
    BY <1>2, PutTypes
  <1>5. net' \in SUBSET PeerMsgs
    BY <1>2, <1>3, <1>4, PeerMsgTypes DEF Types, NetTypes, Structs
  <1>6. opened' \in [Clients -> 0 .. MaxConns]
    BY <1>1 DEF Connect, Types, ClientTypes
  <1>7. UNCHANGED <<present, stays, vpn, stream, toggles, room, members, reached>>
    BY DEF Connect, serverVars
  <1> HIDE DEF t
  <1> QED BY <1>3, <1>4, <1>5, <1>6, <1>7, ConnsTypes

LEMMA ReceiveInitConnTypes ==
  ASSUME Types, NEW c \in Clients, NEW msg \in net, ReceiveInitConn(c, msg)
  PROVE  Types'
  <1>1. /\ msg.from \in Clients /\ msg.id \in 0 .. ConnIds - 1
    <2>1. msg \in PeerMsgs /\ msg.kind = "INITCONN"
      BY DEF Types, NetTypes, ReceiveInitConn
    <2> QED BY <2>1 DEF PeerMsgs
  <1>2. net' \in SUBSET PeerMsgs
    BY LeftFacts DEF ReceiveInitConn, Types, NetTypes
  <1>3. UNCHANGED <<present, stays, vpn, stream, toggles, room, members, reached,
                    opened>>
    BY DEF ReceiveInitConn, serverVars
  <1>4. opened' \in [Clients -> 0 .. MaxConns]
    BY <1>3 DEF Types, ClientTypes
  <1>5. CASE Known(c, msg.from)
    <2> DEFINE r == MemberFromId(c, msg.from)
               t == <<Channel(msg.id, r, msg.from)>> \o conns[c]
    <2>1. r \in ToSet(members[c])
      <3>1. members \in [Clients -> Seq(Structs)]
        BY DEF Types, ClientTypes
      <3>2. Find(c, msg.from) \in 1 .. Len(members[c])
        BY <1>1, <1>5, <3>1, FindFacts
      <3>3. DOMAIN members[c] = 1 .. Len(members[c])
        BY <3>1
      <3> QED BY <3>2, <3>3 DEF MemberFromId, ToSet
    <2>2. conns' = [conns EXCEPT ![c] = t]
      BY <1>5 DEF ReceiveInitConn, Put, Types, ClientTypes
    <2> HIDE DEF r
    <2>3. t \in Seq(Chans) /\ room[c] = "in"
      BY <1>1, <2>1, PutTypes
    <2> HIDE DEF t
    <2> QED BY <1>2, <1>3, <1>4, <2>2, <2>3, ConnsTypes
  <1>6. CASE ~Known(c, msg.from)
    <2>1. conns' = conns
      BY <1>6 DEF ReceiveInitConn
    <2> QED BY <1>2, <1>3, <2>1 DEF Types, ServerTypes, StreamTypes,
               ClientTypes, NetTypes, Phases, Phase
  <1> QED BY <1>5, <1>6

LEMMA FreeConnTypes ==
  ASSUME Types, NEW c \in Clients, NEW i \in DOMAIN conns[c], FreeConn(c, i)
  PROVE  Types'
  <1> DEFINE t == Free(conns[c], {i})
  <1>1. conns[c] \in Seq(Chans)
    BY DEF Types, ClientTypes
  <1>2. t \in Seq(Chans)
    BY <1>1, FreeFacts
  <1>3. conns' = [conns EXCEPT ![c] = t]
    BY DEF FreeConn, Types, ClientTypes
  <1>4. room[c] = "in"
    <2>1. conns[c] # << >>
      BY <1>1
    <2> QED BY <2>1 DEF Types, Phases, Phase
  <1>5. /\ UNCHANGED <<present, stays, vpn, stream, toggles, room, members,
                       reached>>
        /\ opened' \in [Clients -> 0 .. MaxConns] /\ net' \in SUBSET PeerMsgs
    BY DEF FreeConn, serverVars, Types, ClientTypes, NetTypes
  <1> HIDE DEF t
  <1> QED BY <1>2, <1>3, <1>4, <1>5, ConnsTypes

\* The actions of a step.
LEMMA NextActions ==
  ASSUME Next
  PROVE  \/ \E c \in Clients :
              \/ ServerJoin(c) \/ ServerPart(c) \/ ToggleVpn(c)
              \/ JoinRoom(c) \/ FreeRoom(c) \/ DoHello(c)
              \/ Members(c) \/ Join(c) \/ Part(c)
              \/ \E kind \in {"STARTVPN", "STOPVPN"} : SwitchVpn(c, kind)
              \/ \E u \in Clients : ReceiveReq(c, u) \/ ReceiveRep(c, u)
              \/ \E r \in ToSet(members[c]) : Connect(c, r)
              \/ \E msg \in net : ReceiveInitConn(c, msg)
              \/ \E i \in DOMAIN conns[c] : FreeConn(c, i)
         \/ \E msg \in net : Lose(msg)
  BY DEF Next, ReceiveRoom

LEMMA NextTypes ==
  ASSUME Types, [Next]_vars
  PROVE  Types'
  <1>1. CASE Next
    BY <1>1, NextActions, ServerJoinTypes, ServerPartTypes, ToggleVpnTypes,
       JoinRoomTypes, FreeRoomTypes, DoHelloTypes, MembersTypes, JoinTypes,
       PartTypes, SwitchVpnTypes, HelloTypes, ConnectTypes,
       ReceiveInitConnTypes, FreeConnTypes, LoseTypes
  <1>2. CASE UNCHANGED vars
    BY <1>2 DEF vars, serverVars, Types, ServerTypes, StreamTypes,
       ClientTypes, NetTypes, Phases, Phase
  <1> QED BY <1>1, <1>2

\* Every variable keeps its type, and the client that is not yet in a room
\* has no members and no channels (ghl_room_t).
THEOREM TypeCorrect == Spec => []TypeOK
  <1>1. Types => TypeOK
    BY DEF Types, ServerTypes, ClientTypes, NetTypes, Phases, Phase, TypeOK,
       Structs, Chans
  <1>2. Spec => []Types
    BY InitTypes, NextTypes, PTL DEF Spec
  <1> QED BY <1>1, <1>2, PTL

-----------------------------------------------------------------------------
(* What a conn_ok of 2 stands for *)

\* No client sends to itself, and an answer is to a request that was heard.
Fair(m) ==
  /\ m.from # m.to
  /\ m.kind = "HELLO_REP" => <<m.to, m.from>> \in reached

\* A member of c with conn_ok 2 has been heard, and hears; c itself is never
\* heard of.
Known2(c, r) ==
  /\ r.ok = 2 => <<c, r.user>> \in reached /\ <<r.user, c>> \in reached
  /\ r.user = c => r.ok = 0

PeerInv ==
  /\ \A m \in net : Fair(m)
  /\ \A c \in Clients : \A i \in 1 .. Len(members[c]) : Known2(c, members[c][i])

\* A structure is an old one, but for its flag, or it is new.
FromOld(c) ==
  \A i \in 1 .. Len(members'[c]) :
    \/ members'[c][i].ok = 0
    \/ \E j \in 1 .. Len(members[c]) :
         /\ members'[c][i].user = members[c][j].user
         /\ members'[c][i].ok = members[c][j].ok

LEMMA PeerStep ==
  ASSUME PeerInv, reached \in SUBSET reached',
         \A m \in net' \ net : Fair(m)',
         \A c \in Clients : FromOld(c) \/
           \A i \in 1 .. Len(members'[c]) : Known2(c, members[c][i])'
  PROVE  PeerInv'
  <1>1. \A m \in net' : Fair(m)'
    BY DEF PeerInv, Fair
  <1>2. ASSUME NEW c \in Clients, NEW i \in 1 .. Len(members'[c])
        PROVE  Known2(c, members[c][i])'
    <2>1. CASE FromOld(c)
      <3>1. CASE members'[c][i].ok = 0
        BY <3>1 DEF Known2
      <3>2. ASSUME NEW j \in 1 .. Len(members[c]),
                   members'[c][i].user = members[c][j].user,
                   members'[c][i].ok = members[c][j].ok
            PROVE  Known2(c, members[c][i])'
        <4>1. Known2(c, members[c][j])
          BY DEF PeerInv
        <4> QED BY <3>2, <4>1 DEF Known2
      <3> QED BY <2>1, <3>1, <3>2 DEF FromOld
    <2> QED BY <1>2, <2>1
  <1> QED BY <1>1, <1>2 DEF PeerInv

\* Steps that change no member and add no message.
LEMMA PeerQuiet ==
  ASSUME PeerInv, net' \in SUBSET net, members' = members,
         reached \in SUBSET reached'
  PROVE  PeerInv'
  <1>1. \A c \in Clients : FromOld(c)
    BY DEF FromOld
  <1> QED BY <1>1, PeerStep

LEMMA HelloIsFair ==
  ASSUME NEW c \in Clients, NEW to, c \notin to, NEW m \in Hello(c, to)
  PROVE  Fair(m)
  BY DEF Hello, HelloReq, Fair

\* The structures of other clients are what they were.
LEMMA FromSame ==
  ASSUME Types, NEW c \in Clients,
         members'[c] = members[c]
  PROVE  FromOld(c)
  BY DEF FromOld

LEMMA MembersPeers ==
  ASSUME Types, PeerInv, NEW c \in Clients, Members(c)
  PROVE  PeerInv'
  <1>1. net' = net \cup Hello(c, Others(c)') /\ reached' = reached
    BY DEF Members, Receive
  <1>2. \A m \in net' \ net : Fair(m)'
    <2>1. c \notin Others(c)'
      BY DEF Others
    <2> QED BY <1>1, <2>1 DEF Hello, HelloReq, Fair
  <1>3. FromOld(c)
    <2>1. \A i \in 1 .. Len(members'[c]) :
            \E x \in stream[c][1].infos : members'[c][i] = Member(x)
      BY MembersFacts
    <2>2. ASSUME NEW i \in 1 .. Len(members'[c])
          PROVE  members'[c][i].ok = 0
      <3>1. PICK x \in stream[c][1].infos : members'[c][i] = Member(x)
        BY <2>1
      <3>2. Member(x).ok = 0
        BY DEF Member
      <3> QED BY <3>1, <3>2
    <2> QED BY <2>2 DEF FromOld
  <1>4. \A d \in Clients : FromOld(d)
    BY <1>3, MembersFacts, FromSame
  <1> QED BY <1>1, <1>2, <1>4, PeerStep

LEMMA JoinPeers ==
  ASSUME Types, PeerInv, NEW c \in Clients, Join(c)
  PROVE  PeerInv'
  <1> DEFINE info == stream[c][1].info
  <1>1. reached' = reached
    BY DEF Join, Receive
  <1>2. /\ \A d \in Clients \ {c} : members'[d] = members[d]
        /\ info.user = c => members'[c] = members[c] /\ net' = net
        /\ info.user # c =>
             /\ Len(members'[c]) = Len(members[c]) + 1
             /\ members'[c][1] = Member(info)
             /\ \A i \in 1 .. Len(members[c]) : members'[c][i + 1] = members[c][i]
             /\ net' = net \cup Hello(c, {info.user})
    BY JoinFacts
  <1> HIDE DEF info
  <1>3. \A m \in net' \ net : Fair(m)'
    BY <1>2 DEF Hello, HelloReq, Fair
  <1>4. FromOld(c)
    <2>1. CASE info.user = c
      BY <1>2, <2>1, FromSame
    <2>2. CASE info.user # c
      <3> SUFFICES ASSUME NEW i \in 1 .. Len(members'[c])
                   PROVE  \/ members'[c][i].ok = 0
                          \/ \E j \in 1 .. Len(members[c]) :
                               members'[c][i] = members[c][j]
        BY DEF FromOld
      <3>0. Len(members[c]) \in Nat
        BY DEF Types, ClientTypes
      <3>1. CASE i = 1
        BY <1>2, <2>2, <3>1 DEF Member
      <3>2. CASE i # 1
        <4>1. i - 1 \in 1 .. Len(members[c]) /\ (i - 1) + 1 = i
          BY <1>2, <2>2, <3>0, <3>2
        <4>2. members'[c][(i - 1) + 1] = members[c][i - 1]
          BY <1>2, <2>2, <4>1
        <4> QED BY <4>1, <4>2
      <3> QED BY <3>1, <3>2
    <2> QED BY <2>1, <2>2
  <1>5. \A d \in Clients : FromOld(d)
    BY <1>2, <1>4, FromSame
  <1> QED BY <1>1, <1>3, <1>5, PeerStep

LEMMA PartPeers ==
  ASSUME Types, PeerInv, NEW c \in Clients, Part(c)
  PROVE  PeerInv'
  <1> DEFINE u == stream[c][1].user
             p == Find(c, u)
  <1>1. net' = net /\ reached' = reached
    BY DEF Part, Receive
  <1>2. /\ \A d \in Clients \ {c} : members'[d] = members[d]
        /\ ~Known(c, u) => members'[c] = members[c]
        /\ Known(c, u) =>
             /\ p \in 1 .. Len(members[c])
             /\ Len(members'[c]) = Len(members[c]) - 1
             /\ \A i \in 1 .. Len(members[c]) - 1 :
                  members'[c][i] = members[c][IF i < p THEN i ELSE i + 1]
    BY PartFacts
  <1> HIDE DEF u, p
  <1>3. FromOld(c)
    <2>1. CASE ~Known(c, u)
      BY <1>2, <2>1, FromSame
    <2>2. CASE Known(c, u)
      <3> SUFFICES ASSUME NEW i \in 1 .. Len(members'[c])
                   PROVE  \E j \in 1 .. Len(members[c]) :
                            members'[c][i] = members[c][j]
        BY DEF FromOld
      <3>1. Len(members[c]) \in Nat
        BY DEF Types, ClientTypes
      <3>2. (IF i < p THEN i ELSE i + 1) \in 1 .. Len(members[c])
        BY <1>2, <2>2, <3>1
      <3> QED BY <1>2, <2>2, <3>2
    <2> QED BY <2>1, <2>2
  <1>4. \A d \in Clients : FromOld(d)
    BY <1>2, <1>3, FromSame
  <1> QED BY <1>1, <1>4, PeerStep

LEMMA SwitchPeers ==
  ASSUME Types, PeerInv, NEW c \in Clients, NEW kind, SwitchVpn(c, kind)
  PROVE  PeerInv'
  <1> DEFINE u == stream[c][1].user
             p == Find(c, u)
  <1>1. net' = net /\ reached' = reached
    BY DEF SwitchVpn, Receive
  <1>2. /\ \A d \in Clients \ {c} : members'[d] = members[d]
        /\ ~Known(c, u) => members'[c] = members[c]
        /\ Known(c, u) =>
             /\ Len(members'[c]) = Len(members[c])
             /\ \A i \in 1 .. Len(members[c]) :
                  members'[c][i] =
                    IF i = p
                      THEN [members[c][i] EXCEPT !.vpn = (kind = "STARTVPN")]
                      ELSE members[c][i]
    BY SwitchFacts
  <1> HIDE DEF u, p
  <1>3. \A i \in 1 .. Len(members[c]) : members[c][i] \in Structs
    BY DEF Types, ClientTypes
  <1>4. FromOld(c)
    <2>1. CASE ~Known(c, u)
      BY <1>2, <2>1, FromSame
    <2>2. CASE Known(c, u)
      <3>1. \A i \in 1 .. Len(members[c]) :
              /\ members'[c][i].user = members[c][i].user
              /\ members'[c][i].ok = members[c][i].ok
        BY <1>2, <1>3, <2>2 DEF Structs
      <3> QED BY <1>2, <2>2, <3>1 DEF FromOld
    <2> QED BY <2>1, <2>2
  <1>5. \A d \in Clients : FromOld(d)
    BY <1>2, <1>4, FromSame
  <1> QED BY <1>1, <1>5, PeerStep

LEMMA HelloPeers ==
  ASSUME Types, PeerInv, NEW c \in Clients, NEW u \in Clients,
         ReceiveReq(c, u) \/ ReceiveRep(c, u)
  PROVE  PeerInv'
  <1>1. reached' = reached \cup {<<u, c>>}
    BY DEF ReceiveReq, ReceiveRep
  <1>2. c # u
    BY DEF ReceiveReq, ReceiveRep, PeerInv, Fair, HelloReq, HelloRep
  <1>3. \A m \in net' \ net : Fair(m)'
    <2>1. CASE ReceiveReq(c, u)
      <3>1. PICK left \in Left(HelloReq(u, c)) :
              net' = left \cup IF Known(c, u) THEN Reply(c, MemberFromId(c, u))
                                              ELSE {}
        BY <2>1 DEF ReceiveReq
      <3>2. Known(c, u) => Reply(c, MemberFromId(c, u)) = {HelloRep(c, u)}
        BY FindFacts DEF Types, ClientTypes, Reply, MemberFromId
      <3>3. \A m \in net' \ net : m = HelloRep(c, u)
        BY <3>1, <3>2, LeftFacts
      <3> QED BY <1>1, <1>2, <3>3 DEF HelloRep, Fair
    <2>2. CASE ReceiveRep(c, u)
      <3>1. net' \in SUBSET net
        BY <2>2, LeftFacts DEF ReceiveRep
      <3> QED BY <3>1
    <2> QED BY <2>1, <2>2
  <1>4. ASSUME NEW ok \in {1, 2}, Heard(c, u, ok),
               ok = 2 => <<c, u>> \in reached,
               NEW i \in 1 .. Len(members'[c])
        PROVE  Known2(c, members[c][i])'
    <2>1. Known2(c, members[c][i]) /\ members[c][i] \in Structs
      BY <1>4 DEF Heard, PeerInv, Types, ClientTypes
    <2>2. CASE members'[c][i] = members[c][i]
      BY <1>1, <2>1, <2>2 DEF Known2
    <2>3. CASE /\ members[c][i].user = u
               /\ members'[c][i] =
                    [members[c][i] EXCEPT
                       !.ok = IF ok = 2 \/ members[c][i].ok = 2 THEN 2 ELSE 1]
      <3>1. /\ members'[c][i].user = u
            /\ members'[c][i].ok = 2 => ok = 2 \/ members[c][i].ok = 2
        BY <2>1, <2>3 DEF Structs
      <3> QED BY <1>1, <1>2, <1>4, <2>1, <2>3, <3>1 DEF Known2
    <2> QED BY <1>4, <2>2, <2>3 DEF Heard
  <1>5. ReceiveRep(c, u) => <<c, u>> \in reached
    BY DEF ReceiveRep, PeerInv, Fair, HelloRep
  <1>6. \A i \in 1 .. Len(members'[c]) : Known2(c, members[c][i])'
    BY <1>4, <1>5, HelloFacts
  <1>7. \A d \in Clients \ {c} : members'[d] = members[d]
    BY HelloFacts DEF Heard
  <1>8. \A d \in Clients \ {c} : FromOld(d)
    BY <1>7, FromSame
  <1>9. reached \in SUBSET reached'
    BY <1>1
  <1> QED BY <1>3, <1>6, <1>8, <1>9, PeerStep

LEMMA FreeRoomPeers ==
  ASSUME Types, PeerInv, NEW c \in Clients, FreeRoom(c)
  PROVE  PeerInv'
  <1>1. net' = net /\ reached' = reached
    BY DEF FreeRoom
  <1>2. members'[c] = << >> /\ \A d \in Clients \ {c} : members'[d] = members[d]
    BY DEF FreeRoom, Types, ClientTypes
  <1>3. FromOld(c)
    BY <1>2 DEF FromOld
  <1>4. \A d \in Clients : FromOld(d)
    BY <1>2, <1>3, FromSame
  <1> QED BY <1>1, <1>4, PeerStep

\* Nobody in the table of c but others: a connection is to another client.
LEMMA ConnectPeers ==
  ASSUME Types, PeerInv, NEW c \in Clients, NEW r \in ToSet(members[c]),
         Connect(c, r)
  PROVE  PeerInv' /\ r.user # c
  <1>1. members' = members /\ reached' = reached /\ r.ok # 0
        /\ net' = net \cup {InitConn(c, r.user, NewConnId(opened[c]))}
    BY DEF Connect
  <1>2. PICK i \in 1 .. Len(members[c]) : r = members[c][i]
    BY DEF ToSet, Types, ClientTypes
  <1>3. r.user # c
    BY <1>1, <1>2 DEF PeerInv, Known2
  <1>4. \A m \in net' \ net : Fair(m)'
    BY <1>1, <1>3 DEF InitConn, Fair
  <1>5. \A d \in Clients : FromOld(d)
    BY <1>1, FromSame
  <1> QED BY <1>1, <1>3, <1>4, <1>5, PeerStep

LEMMA DoHelloPeers ==
  ASSUME Types, PeerInv, NEW c \in Clients, DoHello(c)
  PROVE  PeerInv'
  <1>1. members' = members /\ reached' = reached
        /\ net' = net \cup Hello(c, Others(c))
    BY DEF DoHello
  <1>2. \A m \in net' \ net : Fair(m)'
    <2>1. c \notin Others(c)
      BY DEF Others
    <2> QED BY <1>1, <2>1 DEF Hello, HelloReq, Fair
  <1>3. \A d \in Clients : FromOld(d)
    BY <1>1, FromSame
  <1> QED BY <1>1, <1>2, <1>3, PeerStep

LEMMA NextPeers ==
  ASSUME Types, PeerInv, [Next]_vars
  PROVE  PeerInv'
  <1>1. ASSUME NEW c \in Clients,
               \/ ServerJoin(c) \/ ServerPart(c) \/ ToggleVpn(c) \/ JoinRoom(c)
               \/ \E i \in DOMAIN conns[c] : FreeConn(c, i)
        PROVE  PeerInv'
    <2>1. net' = net /\ members' = members /\ reached' = reached
      BY <1>1 DEF ServerJoin, ServerPart, ToggleVpn, JoinRoom, FreeConn
    <2> QED BY <2>1, PeerQuiet
  <1>2. ASSUME NEW msg \in net,
               Lose(msg) \/ \E c \in Clients : ReceiveInitConn(c, msg)
        PROVE  PeerInv'
    <2>1. net' \in SUBSET net /\ members' = members /\ reached' = reached
      BY <1>2, LeftFacts DEF Lose, ReceiveInitConn
    <2> QED BY <2>1, PeerQuiet
  <1>3. CASE UNCHANGED vars
    BY <1>3, PeerQuiet DEF vars
  <1>4. CASE Next
    BY <1>1, <1>2, <1>4, NextActions, FreeRoomPeers, DoHelloPeers,
       MembersPeers, JoinPeers, PartPeers, SwitchPeers, HelloPeers, ConnectPeers
  <1> QED BY <1>3, <1>4

THEOREM Invariance == Spec => [](Types /\ PeerInv)
  <1>1. Init => PeerInv
    BY DEF Init, PeerInv
  <1> QED BY <1>1, InitTypes, NextTypes, NextPeers, PTL DEF Spec

\* conn_ok is 2 only if HELLO messages have arrived in both directions,
\* however they are lost, repeated and reordered (handle_peer_msg).
THEOREM OkIsMutual == Spec => []TwoIsBothWays
  <1>1. Types /\ PeerInv => TwoIsBothWays
    <2> SUFFICES ASSUME Types, PeerInv, NEW c \in Clients,
                        NEW r \in ToSet(members[c]), r.ok = 2
                 PROVE  <<c, r.user>> \in reached /\ <<r.user, c>> \in reached
      BY DEF TwoIsBothWays
    <2>1. PICK i \in 1 .. Len(members[c]) : r = members[c][i]
      BY DEF ToSet, Types, ClientTypes
    <2> QED BY <2>1 DEF PeerInv, Known2
  <1> QED BY <1>1, Invariance, PTL
-----------------------------------------------------------------------------
(* The member table of a client, with the messages that the client has still
   to read, is the table of the server.  The proof follows the table message
   by message: a path is the sequence of the tables that the client will
   have. *)

\* Those of S that are not c's own.
NotOf(c, S) == {i \in S : i.user # c}

LEMMA AfterFacts ==
  ASSUME NEW S \in SUBSET Infos, NEW msg \in ServerMsgs
  PROVE  /\ msg.kind = "MEMBERS" => msg.infos \in Lists
                                    /\ After(S, msg) = S \cup msg.infos
         /\ msg.kind = "JOIN" => msg.info \in Infos
                                 /\ After(S, msg) = S \cup {msg.info}
         /\ msg.kind = "PART" => msg.user \in Clients
                                 /\ After(S, msg) = {i \in S : i.user # msg.user}
         /\ msg.kind \in {"STARTVPN", "STOPVPN"} =>
              /\ msg.user \in Clients
              /\ After(S, msg) =
                   {IF i.user = msg.user
                      THEN [i EXCEPT !.vpn = (msg.kind = "STARTVPN")]
                      ELSE i : i \in S}
         /\ msg.kind \in {"MEMBERS", "JOIN", "PART", "STARTVPN", "STOPVPN"}
         /\ After(S, msg) \in SUBSET Infos
  <1>1. CASE msg \in [kind : {"MEMBERS"}, infos : Lists]
    <2>1. msg.kind = "MEMBERS" /\ msg.infos \in Lists
      BY <1>1
    <2>2. After(S, msg) = S \cup msg.infos
      BY <2>1 DEF After
    <2> QED BY <2>1, <2>2 DEF Lists
  <1>2. CASE msg \in [kind : {"JOIN"}, info : Infos]
    <2>1. msg.kind = "JOIN" /\ msg.info \in Infos
      BY <1>2
    <2>2. After(S, msg) = S \cup {msg.info}
      BY <2>1 DEF After
    <2> QED BY <2>1, <2>2
  <1>3. CASE msg \in [kind : {"PART", "STARTVPN", "STOPVPN"}, user : Clients]
    <2>1. msg.kind \in {"PART", "STARTVPN", "STOPVPN"} /\ msg.user \in Clients
      BY <1>3
    <2>2. CASE msg.kind = "PART"
      <3>1. After(S, msg) = {i \in S : i.user # msg.user}
        BY <2>2 DEF After
      <3> QED BY <2>1, <2>2, <3>1
    <2>3. CASE msg.kind \in {"STARTVPN", "STOPVPN"}
      <3>1. After(S, msg) =
              {IF i.user = msg.user
                 THEN [i EXCEPT !.vpn = (msg.kind = "STARTVPN")]
                 ELSE i : i \in S}
        BY <2>3 DEF After
      <3>2. \A i \in Infos : [i EXCEPT !.vpn = (msg.kind = "STARTVPN")] \in Infos
        BY DEF Infos
      <3>3. After(S, msg) \in SUBSET Infos
        BY <3>1, <3>2
      <3> QED BY <2>1, <2>3, <3>1, <3>3
    <2> QED BY <2>1, <2>2, <2>3
  <1> QED BY <1>1, <1>2, <1>3 DEF ServerMsgs

\* Of a table that is filtered, a message makes the table that it makes of
\* the whole one, filtered.
LEMMA AfterFiltered ==
  ASSUME NEW S \in SUBSET Infos, NEW msg \in ServerMsgs, NEW c
  PROVE  NotOf(c, After(NotOf(c, S), msg)) = NotOf(c, After(S, msg))
  <1> DEFINE N == NotOf(c, S)
  <1>1. N \in SUBSET Infos /\ \A i \in S : i \in N <=> i.user # c
    BY DEF NotOf
  <1>2. \A i \in N : i \in S
    BY DEF NotOf
  <1> HIDE DEF N
  <1>3. CASE msg.kind \in {"MEMBERS", "JOIN", "PART"}
    <2>1. CASE msg.kind = "MEMBERS"
      <3>1. After(N, msg) = N \cup msg.infos /\ After(S, msg) = S \cup msg.infos
        BY <1>1, <2>1, AfterFacts
      <3>2. \A x : x \in NotOf(c, N \cup msg.infos)
                     <=> x \in NotOf(c, S \cup msg.infos)
        BY <1>1, <1>2 DEF NotOf
      <3>3. NotOf(c, N \cup msg.infos) = NotOf(c, S \cup msg.infos)
        BY <3>2
      <3> QED BY <3>1, <3>3 DEF N
    <2>2. CASE msg.kind = "JOIN"
      <3>1. After(N, msg) = N \cup {msg.info} /\ After(S, msg) = S \cup {msg.info}
        BY <1>1, <2>2, AfterFacts
      <3>2. \A x : x \in NotOf(c, N \cup {msg.info})
                     <=> x \in NotOf(c, S \cup {msg.info})
        BY <1>1, <1>2 DEF NotOf
      <3>3. NotOf(c, N \cup {msg.info}) = NotOf(c, S \cup {msg.info})
        BY <3>2
      <3> QED BY <3>1, <3>3 DEF N
    <2>3. CASE msg.kind = "PART"
      <3>1. /\ After(N, msg) = {i \in N : i.user # msg.user}
            /\ After(S, msg) = {i \in S : i.user # msg.user}
        BY <1>1, <2>3, AfterFacts
      <3>2. \A x : x \in NotOf(c, {i \in N : i.user # msg.user})
                     <=> x \in NotOf(c, {i \in S : i.user # msg.user})
        BY <1>1, <1>2 DEF NotOf
      <3>3. NotOf(c, {i \in N : i.user # msg.user})
              = NotOf(c, {i \in S : i.user # msg.user})
        BY <3>2
      <3> QED BY <3>1, <3>3 DEF N
    <2> QED BY <1>3, <2>1, <2>2, <2>3
  <1>4. CASE msg.kind \in {"STARTVPN", "STOPVPN"}
    <2> DEFINE g(i) == IF i.user = msg.user
                         THEN [i EXCEPT !.vpn = (msg.kind = "STARTVPN")]
                         ELSE i
    <2>1. \A i \in Infos : g(i).user = i.user
      BY DEF Infos
    <2>2. After(N, msg) = {g(i) : i \in N} /\ After(S, msg) = {g(i) : i \in S}
      <3>1. \A T : After(T, msg) = {g(i) : i \in T}
        BY <1>4 DEF After
      <3> QED BY <3>1
    <2> HIDE DEF g
    <2>3. \A x : x \in NotOf(c, After(N, msg)) <=>
                   \E i \in N : x = g(i) /\ x.user # c
      BY <2>2 DEF NotOf
    <2>4. \A x : x \in NotOf(c, After(S, msg)) <=>
                   \E i \in S : x = g(i) /\ x.user # c
      BY <2>2 DEF NotOf
    <2>5. \A x : x \in NotOf(c, After(N, msg)) <=> x \in NotOf(c, After(S, msg))
      BY <1>1, <1>2, <2>1, <2>3, <2>4
    <2> QED BY <2>5 DEF N
  <1>5. msg.kind \in {"MEMBERS", "JOIN", "PART", "STARTVPN", "STOPVPN"}
    BY AfterFacts
  <1> QED BY <1>3, <1>4, <1>5 DEF N

-----------------------------------------------------------------------------
(* Paths *)

\* The server announces nobody whom c has in its table, and lists nobody twice.
Fits(c, S, msg) ==
  /\ msg.kind = "JOIN" /\ msg.info.user # c =>
       \A i \in S : i.user # msg.info.user
  /\ msg.kind = "MEMBERS" =>
       \A i, j \in msg.infos : i.user = j.user => i = j

\* The others in the room.
OtherInfos(c) == {Info(u) : u \in present \ {c}}

\* The tables of the others that c will have, up to the server's.
Path(c, t) ==
  /\ t \in [0 .. Len(stream[c]) -> SUBSET Infos]
  /\ t[0] = NotOf(c, View(c))
  /\ \A k \in 1 .. Len(stream[c]) :
       /\ t[k] = NotOf(c, After(t[k - 1], stream[c][k]))
       /\ Fits(c, t[k - 1], stream[c][k])
  /\ t[Len(stream[c])] = OtherInfos(c)

\* Each user has one structure.
Single(c) ==
  \A i, j \in 1 .. Len(members[c]) :
    members[c][i].user = members[c][j].user => i = j

FollowInv == \A c \in Linked : Single(c) /\ \E t : Path(c, t)

\* The entry of a structure.
Entry(r) == [user |-> r.user, stay |-> r.stay, vpn |-> r.vpn]

LEMMA ViewFacts ==
  ASSUME NEW c, members[c] \in Seq(Structs)
  PROVE  /\ View(c) \in SUBSET Infos
         /\ \A x : x \in View(c) <=>
                     \E i \in 1 .. Len(members[c]) : x = Entry(members[c][i])
  <1>1. \A x : x \in View(c) <=>
                 \E i \in 1 .. Len(members[c]) : x = Entry(members[c][i])
    BY DEF View, ToSet, Entry
  <1>2. \A i \in 1 .. Len(members[c]) : Entry(members[c][i]) \in Infos
    <2> SUFFICES ASSUME NEW i \in 1 .. Len(members[c])
                 PROVE  Entry(members[c][i]) \in Infos
      OBVIOUS
    <2>1. members[c][i] \in Structs
      OBVIOUS
    <2> QED BY <2>1 DEF Entry, Structs, Infos
  <1> QED BY <1>1, <1>2

LEMMA OtherInfosType ==
  ASSUME ServerTypes, NEW c
  PROVE  OtherInfos(c) \in SUBSET Infos
  BY InfoType DEF OtherInfos

\* The server sends c another message.
LEMMA PathLonger ==
  ASSUME Types, Types', NEW c \in Clients, NEW t, Path(c, t),
         NEW msg \in ServerMsgs,
         Len(stream'[c]) = Len(stream[c]) + 1,
         stream'[c][Len(stream[c]) + 1] = msg,
         \A k \in 1 .. Len(stream[c]) : stream'[c][k] = stream[c][k],
         View(c)' = View(c),
         Fits(c, OtherInfos(c), msg),
         OtherInfos(c)' = NotOf(c, After(OtherInfos(c), msg))
  PROVE  \E s : Path(c, s)'
  <1> DEFINE n == Len(stream[c])
  <1>1. n \in Nat /\ Len(stream'[c]) = n + 1
    BY DEF Types, StreamTypes
  <1>2. OtherInfos(c)' \in SUBSET Infos
    <2>1. \A u \in present' : Info(u)' \in Infos
      BY DEF Types, ServerTypes, Info, Infos
    <2> QED BY <2>1 DEF OtherInfos
  <1>3. /\ t \in [0 .. n -> SUBSET Infos] /\ t[0] = NotOf(c, View(c))
        /\ t[n] = OtherInfos(c)
        /\ \A k \in 1 .. n : /\ t[k] = NotOf(c, After(t[k - 1], stream[c][k]))
                             /\ Fits(c, t[k - 1], stream[c][k])
    BY DEF Path
  <1> HIDE DEF n
  <1>4. PICK s : /\ s \in [0 .. n + 1 -> SUBSET Infos]
                 /\ s[n + 1] = OtherInfos(c)'
                 /\ \A k \in 0 .. n : s[k] = t[k]
    <2> DEFINE u == [k \in 0 .. n + 1 |->
                      IF k <= n THEN t[k] ELSE OtherInfos(c)']
    <2>1. /\ u \in [0 .. n + 1 -> SUBSET Infos] /\ u[n + 1] = OtherInfos(c)'
          /\ \A k \in 0 .. n : u[k] = t[k]
      BY <1>1, <1>2, <1>3
    <2> QED BY <2>1
  <1>5. ASSUME NEW k \in 1 .. n + 1
        PROVE  /\ s[k] = NotOf(c, After(s[k - 1], stream'[c][k]))
               /\ Fits(c, s[k - 1], stream'[c][k])
    <2>1. CASE k = n + 1
      <3>1. s[k - 1] = OtherInfos(c) /\ stream'[c][k] = msg
        BY <1>1, <1>3, <1>4, <2>1 DEF n
      <3> QED BY <1>4, <2>1, <3>1
    <2>2. CASE k # n + 1
      <3>1. k \in 1 .. n /\ k - 1 \in 0 .. n
        BY <1>1, <2>2
      <3>2. stream'[c][k] = stream[c][k]
        BY <3>1 DEF n
      <3> QED BY <1>3, <1>4, <3>1, <3>2
    <2> QED BY <2>1, <2>2
  <1>6. s[0] = NotOf(c, View(c)')
    BY <1>1, <1>3, <1>4
  <1>7. Path(c, s)'
    BY <1>1, <1>4, <1>5, <1>6 DEF Path
  <1> QED BY <1>7

\* c reads the first message.
LEMMA PathShorter ==
  ASSUME Types, NEW c \in Clients, NEW kind, Receive(c, kind),
         NEW t, Path(c, t),
         NotOf(c, View(c)') = NotOf(c, After(NotOf(c, View(c)), stream[c][1]))
  PROVE  \E s : Path(c, s)'
  <1> DEFINE n == Len(stream[c])
  <1>1. /\ n \in Nat \ {0} /\ Len(stream'[c]) = n - 1
        /\ \A k \in 1 .. n - 1 : stream'[c][k] = stream[c][k + 1]
    BY ReceiveFacts
  <1>2. OtherInfos(c)' = OtherInfos(c)
    BY DEF Receive, OtherInfos, Info
  <1>3. /\ t \in [0 .. n -> SUBSET Infos] /\ t[0] = NotOf(c, View(c))
        /\ t[n] = OtherInfos(c)
        /\ \A k \in 1 .. n : /\ t[k] = NotOf(c, After(t[k - 1], stream[c][k]))
                             /\ Fits(c, t[k - 1], stream[c][k])
    BY DEF Path
  <1> HIDE DEF n
  <1>4. PICK s : /\ s \in [0 .. n - 1 -> SUBSET Infos]
                 /\ \A k \in 0 .. n - 1 : s[k] = t[k + 1]
    <2> DEFINE u == [k \in 0 .. n - 1 |-> t[k + 1]]
    <2>1. /\ u \in [0 .. n - 1 -> SUBSET Infos]
          /\ \A k \in 0 .. n - 1 : u[k] = t[k + 1]
      BY <1>1, <1>3
    <2> QED BY <2>1
  <1>5. ASSUME NEW k \in 1 .. n - 1
        PROVE  /\ s[k] = NotOf(c, After(s[k - 1], stream'[c][k]))
               /\ Fits(c, s[k - 1], stream'[c][k])
    <2>1. k + 1 \in 1 .. n /\ (k + 1) - 1 = k /\ (k - 1) + 1 = k
          /\ k \in 0 .. n - 1 /\ k - 1 \in 0 .. n - 1
      BY <1>1
    <2>2. s[k] = t[k + 1] /\ s[k - 1] = t[k] /\ stream'[c][k] = stream[c][k + 1]
      BY <1>1, <1>4, <2>1
    <2>3. /\ t[k + 1] = NotOf(c, After(t[(k + 1) - 1], stream[c][k + 1]))
          /\ Fits(c, t[(k + 1) - 1], stream[c][k + 1])
      BY <1>3, <2>1
    <2> QED BY <2>1, <2>2, <2>3
  <1>6. s[0] = NotOf(c, View(c)')
    <2>1. 1 \in 1 .. n /\ 1 - 1 = 0 /\ 0 \in 0 .. n - 1 /\ 0 + 1 = 1
      BY <1>1
    <2>2. t[1] = NotOf(c, After(t[1 - 1], stream[c][1]))
      BY <1>3, <2>1
    <2>3. s[0] = t[1]
      BY <1>4, <2>1
    <2> QED BY <1>3, <2>1, <2>2, <2>3
  <1>7. s[n - 1] = OtherInfos(c)'
    <2>1. n - 1 \in 0 .. n - 1 /\ (n - 1) + 1 = n
      BY <1>1
    <2> QED BY <1>2, <1>3, <1>4, <2>1
  <1>8. Path(c, s)'
    BY <1>1, <1>4, <1>5, <1>6, <1>7 DEF Path
  <1> QED BY <1>8

\* Nothing changes for c.
LEMMA PathSame ==
  ASSUME NEW c, NEW t, Path(c, t), stream'[c] = stream[c], View(c)' = View(c),
         OtherInfos(c)' = OtherInfos(c)
  PROVE  Path(c, t)'
  BY DEF Path, NotOf, Fits, After

\* What a step does to clients that it does not concern.
LEMMA FollowSame ==
  ASSUME NEW c, Single(c) /\ \E t : Path(c, t),
         stream'[c] = stream[c], members'[c] = members[c],
         OtherInfos(c)' = OtherInfos(c)
  PROVE  Single(c)' /\ \E t : Path(c, t)'
  <1>1. View(c)' = View(c)
    BY DEF View
  <1>2. PICK t : Path(c, t)
    OBVIOUS
  <1>3. Path(c, t)'
    BY <1>1, <1>2, PathSame
  <1>4. Single(c)'
    BY DEF Single
  <1> QED BY <1>3, <1>4

-----------------------------------------------------------------------------
(* The server *)

\* The path of a client that is told of something.
LEMMA ToldFollows ==
  ASSUME Types, Types', FollowInv, NEW to, NEW c \in Linked \cap to,
         NEW msg \in ServerMsgs, stream'[c] = Told(to, msg)[c],
         members'[c] = members[c], Fits(c, OtherInfos(c), msg),
         OtherInfos(c)' = NotOf(c, After(OtherInfos(c), msg))
  PROVE  Single(c)' /\ \E t : Path(c, t)'
  <1>1. c \in Clients
    BY DEF Linked, Types, ServerTypes
  <1>2. /\ Len(stream'[c]) = Len(stream[c]) + 1
        /\ stream'[c][Len(stream[c]) + 1] = msg
        /\ \A k \in 1 .. Len(stream[c]) : stream'[c][k] = stream[c][k]
    BY <1>1, ToldFacts DEF Types
  <1>3. PICK t : Path(c, t)
    BY DEF FollowInv
  <1>4. View(c)' = View(c)
    BY DEF View
  <1>5. \E s : Path(c, s)'
    BY <1>1, <1>2, <1>3, <1>4, PathLonger
  <1>6. Single(c)'
    BY DEF FollowInv, Single
  <1> QED BY <1>5, <1>6

LEMMA ServerJoinFollows ==
  ASSUME Types, Types', FollowInv, NEW c \in Clients, ServerJoin(c)
  PROVE  FollowInv'
  <1> DEFINE infos == {Info(u)' : u \in present'}
             join == JoinMsg(Info(c)')
  <1>1. /\ infos \in Lists /\ join \in ServerMsgs
        /\ stream' \in [Clients -> Seq(ServerMsgs)]
        /\ stream'[c][1] = MembersMsg(infos)
        /\ \/ Len(stream'[c]) = 1
           \/ Len(stream'[c]) = 2 /\ stream'[c][2] = join
        /\ \A d \in Clients \ {c} : stream'[d] = Told(Linked, join)[d]
    BY ServerJoinStream
  <1>2. /\ c \notin present /\ present' = present \cup {c}
        /\ \A u \in present' : Info(u)' \in Infos
        /\ \A u \in present : Info(u)' = Info(u)
    BY ServerJoinFacts
  <1>3. Info(c)' \in Infos /\ join.kind = "JOIN" /\ join.info = Info(c)'
        /\ MembersMsg(infos).kind = "MEMBERS" /\ MembersMsg(infos).infos = infos
        /\ MembersMsg(infos) \in ServerMsgs
    BY <1>1, <1>2, MsgTypes
  <1>4. members' = members /\ room' = room /\ room[c] = "joining"
    BY DEF ServerJoin
  <1>5. \A u \in present' : Info(u)'.user = u
    BY DEF Info
  <1> SUFFICES ASSUME NEW d \in Linked'
               PROVE  Single(d)' /\ \E t : Path(d, t)'
    BY DEF FollowInv
  <1>6. CASE d = c
    <2>1. members[c] = << >>
      BY <1>4 DEF Types, Phases, Phase
    <2>2. Single(c)'
      BY <1>4, <2>1 DEF Single
    <2>3. View(c)' = {}
      BY <1>4, <2>1 DEF View, ToSet
    <2>4. NotOf(c, After({}, MembersMsg(infos))) = NotOf(c, infos)
      <3> DEFINE list == MembersMsg(infos)
      <3>1. list \in ServerMsgs /\ list.kind = "MEMBERS" /\ list.infos = infos
        BY <1>3
      <3> HIDE DEF infos, list
      <3>2. {} \in SUBSET Infos
        OBVIOUS
      <3>3. After({}, list) = {} \cup infos
        BY <3>1, <3>2, AfterFacts
      <3> QED BY <3>3 DEF list
    <2>5. OtherInfos(c)' = NotOf(c, infos)
      BY <1>5 DEF OtherInfos, NotOf
    <2>6. OtherInfos(c)' \in SUBSET Infos
      BY <1>2 DEF OtherInfos
    <2>7. NotOf(c, After(OtherInfos(c)', join)) = OtherInfos(c)'
      <3>1. After(OtherInfos(c)', join) = OtherInfos(c)' \cup {Info(c)'}
        BY <1>1, <1>3, <2>6, AfterFacts
      <3>2. Info(c)'.user = c
        BY <1>2, <1>5
      <3>3. NotOf(c, OtherInfos(c)') = OtherInfos(c)'
        BY <2>5 DEF NotOf
      <3> QED BY <3>1, <3>2, <3>3 DEF NotOf
    <2>8. Fits(c, {}, MembersMsg(infos))
      BY <1>3, <1>5 DEF Fits
    <2>9. Fits(c, OtherInfos(c)', join)
      BY <1>2, <1>3, <1>5 DEF Fits
    <2> HIDE DEF infos, join
    <2> DEFINE n == Len(stream'[c])
    <2>10. PICK t : /\ t \in [0 .. n -> SUBSET Infos]
                    /\ t[0] = {}
                    /\ \A k \in 1 .. n : t[k] = OtherInfos(c)'
      <3> DEFINE u == [k \in 0 .. n |-> IF k = 0 THEN {} ELSE OtherInfos(c)']
      <3>1. /\ u \in [0 .. n -> SUBSET Infos]
            /\ u[0] = {}
            /\ \A k \in 1 .. n : u[k] = OtherInfos(c)'
        BY <1>1, <2>6
      <3> QED BY <3>1
    <2>11. NotOf(c, {}) = {}
      BY DEF NotOf
    <2>12. ASSUME NEW k \in 1 .. n
           PROVE  /\ t[k] = NotOf(c, After(t[k - 1], stream'[c][k]))
                  /\ Fits(c, t[k - 1], stream'[c][k])
      <3>1. CASE k = 1
        <4>1. t[k - 1] = {} /\ stream'[c][k] = MembersMsg(infos)
              /\ t[k] = OtherInfos(c)'
          BY <1>1, <2>10, <3>1
        <4> QED BY <2>4, <2>5, <2>8, <4>1
      <3>2. CASE k = 2
        <4>1. stream'[c][k] = join /\ t[k - 1] = OtherInfos(c)'
          BY <1>1, <2>10, <3>2
        <4> QED BY <2>7, <2>9, <2>10, <4>1
      <3>3. k = 1 \/ k = 2
        <4>1. n = 1 \/ n = 2
          BY <1>1
        <4> HIDE DEF n
        <4> QED BY <4>1
      <3> QED BY <3>1, <3>2, <3>3
    <2>13. t[n] = OtherInfos(c)' /\ t[0] = NotOf(c, View(c)')
      BY <1>1, <2>3, <2>10, <2>11
    <2>14. Path(c, t)'
      BY <2>10, <2>12, <2>13 DEF Path
    <2> QED BY <1>6, <2>2, <2>14
  <1>7. CASE d # c
    <2>1. d \in Linked
      BY <1>2, <1>4, <1>7 DEF Linked
    <2>2. d \in Clients
      BY <2>1 DEF Linked, Types, ServerTypes
    <2>3. OtherInfos(d)' = OtherInfos(d) \cup {Info(c)'}
      BY <1>2, <1>7 DEF OtherInfos
    <2>4. NotOf(d, After(OtherInfos(d), join)) = OtherInfos(d) \cup {Info(c)'}
      <3>1. OtherInfos(d) \in SUBSET Infos
        BY OtherInfosType DEF Types
      <3>2. After(OtherInfos(d), join) = OtherInfos(d) \cup {Info(c)'}
        BY <1>1, <1>3, <3>1, AfterFacts
      <3>3. \A i \in OtherInfos(d) : i.user # d
        BY DEF OtherInfos, Info
      <3>4. Info(c)'.user # d
        BY <1>2, <1>5, <1>7
      <3> QED BY <3>2, <3>3, <3>4 DEF NotOf
    <2>5. Fits(d, OtherInfos(d), join)
      <3>1. \A i \in OtherInfos(d) : i.user # c
        BY <1>2 DEF OtherInfos, Info
      <3>2. join.info.user = c /\ join.kind = "JOIN"
        BY <1>2, <1>3, <1>5
      <3> QED BY <3>1, <3>2 DEF Fits
    <2>6. stream'[d] = Told(Linked, join)[d]
      BY <1>1, <1>7, <2>2
    <2> HIDE DEF join
    <2> QED BY <1>1, <1>4, <2>1, <2>3, <2>4, <2>5, <2>6, ToldFollows
  <1> QED BY <1>6, <1>7

LEMMA ServerPartFollows ==
  ASSUME Types, Types', FollowInv, NEW c \in Clients, ServerPart(c)
  PROVE  FollowInv'
  <1>1. /\ present' = present \ {c} /\ stays' = stays /\ vpn' = vpn
        /\ members' = members /\ room' = room /\ room[c] = "out"
        /\ stream' = Told(Linked, PartMsg(c))
    BY DEF ServerPart
  <1>2. PartMsg(c) \in ServerMsgs /\ PartMsg(c).kind = "PART"
        /\ PartMsg(c).user = c
    BY MsgTypes
  <1> SUFFICES ASSUME NEW d \in Linked'
               PROVE  Single(d)' /\ \E t : Path(d, t)'
    BY DEF FollowInv
  <1>3. d \in Linked /\ d # c
    BY <1>1 DEF Linked
  <1>4. \A u : Info(u)' = Info(u)
    BY <1>1 DEF Info
  <1>5. OtherInfos(d)' = {i \in OtherInfos(d) : i.user # c}
    BY <1>1, <1>4 DEF OtherInfos, Info
  <1>6. NotOf(d, After(OtherInfos(d), PartMsg(c)))
          = {i \in OtherInfos(d) : i.user # c}
    <2>1. OtherInfos(d) \in SUBSET Infos
      BY OtherInfosType DEF Types
    <2>2. After(OtherInfos(d), PartMsg(c)) = {i \in OtherInfos(d) : i.user # c}
      BY <1>2, <2>1, AfterFacts
    <2>3. \A i \in OtherInfos(d) : i.user # d
      BY DEF OtherInfos, Info
    <2> QED BY <2>2, <2>3 DEF NotOf
  <1>7. Fits(d, OtherInfos(d), PartMsg(c))
    BY <1>2 DEF Fits
  <1> QED BY <1>1, <1>2, <1>3, <1>5, <1>6, <1>7, ToldFollows

LEMMA ToggleVpnFollows ==
  ASSUME Types, Types', FollowInv, NEW c \in Clients, ToggleVpn(c)
  PROVE  FollowInv'
  <1> DEFINE msg == VpnMsg(c, vpn'[c])
  <1>1. /\ present' = present /\ stays' = stays /\ members' = members
        /\ room' = room /\ stream' = Told(Linked \ {c}, msg)
        /\ \A u \in Clients \ {c} : vpn'[u] = vpn[u]
    BY DEF ToggleVpn, Types, ServerTypes
  <1>2. vpn'[c] \in BOOLEAN
    BY DEF Types, ServerTypes
  <1>3. /\ msg \in ServerMsgs /\ msg.user = c
        /\ msg.kind = IF vpn'[c] THEN "STARTVPN" ELSE "STOPVPN"
    BY <1>2, MsgTypes
  <1> HIDE DEF msg
  <1> SUFFICES ASSUME NEW d \in Linked'
               PROVE  Single(d)' /\ \E t : Path(d, t)'
    BY DEF FollowInv
  <1>4. d \in Linked /\ d \in Clients
    BY <1>1 DEF Linked, Types, ServerTypes
  <1>5. \A u \in Clients \ {c} : Info(u)' = Info(u)
    BY <1>1 DEF Info
  <1>6. Info(c)' = [Info(c) EXCEPT !.vpn = vpn'[c]]
    BY <1>1 DEF Info
  <1>7. present \in SUBSET Clients
    BY DEF Types, ServerTypes
  <1>8. CASE d = c
    <2>1. OtherInfos(d)' = OtherInfos(d)
      BY <1>1, <1>5, <1>7, <1>8 DEF OtherInfos
    <2>2. stream'[d] = stream[d]
      BY <1>1, <1>3, <1>4, <1>8, ToldFacts DEF Types
    <2> QED BY <1>1, <1>4, <2>1, <2>2, FollowSame DEF FollowInv
  <1>9. CASE d # c
    <2>1. OtherInfos(d) \in SUBSET Infos
      BY OtherInfosType DEF Types
    <2> DEFINE g(i) == IF i.user = c THEN [i EXCEPT !.vpn = vpn'[c]] ELSE i
    <2>2. After(OtherInfos(d), msg) = {g(i) : i \in OtherInfos(d)}
      <3>1. (msg.kind = "STARTVPN") = vpn'[c]
        BY <1>2, <1>3
      <3>2. msg.kind \in {"STARTVPN", "STOPVPN"}
        BY <1>3
      <3>3. After(OtherInfos(d), msg) =
              {IF i.user = msg.user
                 THEN [i EXCEPT !.vpn = (msg.kind = "STARTVPN")]
                 ELSE i : i \in OtherInfos(d)}
        BY <1>3, <2>1, <3>2, AfterFacts
      <3> QED BY <1>3, <3>1, <3>3
    <2>3. \A u \in present : g(Info(u)) = Info(u)' /\ Info(u).user = u
                             /\ Info(u)'.user = u
      <3> SUFFICES ASSUME NEW u \in present
                   PROVE  g(Info(u)) = Info(u)' /\ Info(u).user = u
                          /\ Info(u)'.user = u
        OBVIOUS
      <3>1. Info(u).user = u /\ Info(u)'.user = u
        BY DEF Info
      <3> QED BY <1>5, <1>6, <1>7, <3>1
    <2> HIDE DEF g
    <2>4. \A x : x \in After(OtherInfos(d), msg)
                   <=> \E u \in present \ {d} : x = Info(u)'
      BY <2>2, <2>3 DEF OtherInfos
    <2>5. OtherInfos(d)' = NotOf(d, After(OtherInfos(d), msg))
      BY <1>1, <2>3, <2>4 DEF OtherInfos, NotOf
    <2>6. Fits(d, OtherInfos(d), msg)
      BY <1>3 DEF Fits
    <2>7. d \in Linked \cap (Linked \ {c})
      BY <1>4, <1>9
    <2> QED BY <1>1, <1>3, <2>5, <2>6, <2>7, ToldFollows
  <1> QED BY <1>8, <1>9

-----------------------------------------------------------------------------
(* The clients *)

\* A client that reads goes on one table along its path.
LEMMA ReadFollows ==
  ASSUME Types, FollowInv, NEW c \in Clients, NEW kind, Receive(c, kind),
         \/ kind # "MEMBERS" /\ room' = room
         \/ kind = "MEMBERS" /\ room' = [room EXCEPT ![c] = "in"],
         \A d \in Clients \ {c} : members'[d] = members[d],
         c \in Linked /\ (\E t : Path(c, t)) =>
           /\ Single(c)'
           /\ NotOf(c, View(c)') = NotOf(c, After(NotOf(c, View(c)), stream[c][1]))
  PROVE  FollowInv'
  <1>1. /\ room[c] # "out" /\ room'[c] # "out"
        /\ \A d \in Clients \ {c} : room'[d] = room[d]
    <2>1. CASE kind # "MEMBERS" /\ room' = room
      <3>1. room[c] # "out"
        <4>1. stream[c] # << >>
          BY DEF Receive
        <4> QED BY <4>1 DEF Types, Phases, Phase
      <3> QED BY <2>1, <3>1
    <2>2. CASE kind = "MEMBERS" /\ room' = [room EXCEPT ![c] = "in"]
      <3>1. room[c] # "out"
        <4>1. stream[c] # << >>
          BY DEF Receive
        <4> QED BY <4>1 DEF Types, Phases, Phase
      <3> QED BY <2>2, <3>1 DEF Types, ClientTypes
    <2> QED BY <2>1, <2>2
  <1>2. present' = present /\ stays' = stays /\ vpn' = vpn
    BY DEF Receive
  <1>3. Linked' = Linked /\ present \in SUBSET Clients
    BY <1>1, <1>2 DEF Linked, Types, ServerTypes
  <1>4. \A d : OtherInfos(d)' = OtherInfos(d)
    BY <1>2 DEF OtherInfos, Info
  <1> SUFFICES ASSUME NEW d \in Linked
               PROVE  Single(d)' /\ \E t : Path(d, t)'
    BY <1>3 DEF FollowInv
  <1>5. d \in Clients
    BY <1>3 DEF Linked
  <1>6. CASE d = c
    <2>1. PICK t : Path(c, t)
      BY <1>6 DEF FollowInv
    <2>2. /\ Single(c)'
          /\ NotOf(c, View(c)') = NotOf(c, After(NotOf(c, View(c)), stream[c][1]))
      BY <1>6, <2>1
    <2>3. \E s : Path(c, s)'
      BY <2>1, <2>2, PathShorter
    <2> QED BY <1>6, <2>2, <2>3
  <1>7. CASE d # c
    <2>1. stream'[d] = stream[d] /\ members'[d] = members[d]
      BY <1>5, <1>7, ReceiveFacts
    <2> QED BY <1>4, <2>1, FollowSame DEF FollowInv
  <1> QED BY <1>6, <1>7

\* What a path says of the next message.
LEMMA PathHead ==
  ASSUME Types, NEW c \in Clients, NEW kind, Receive(c, kind),
         \E t : Path(c, t)
  PROVE  /\ Fits(c, NotOf(c, View(c)), stream[c][1])
         /\ stream[c][1] \in ServerMsgs /\ stream[c][1].kind = kind
         /\ View(c) \in SUBSET Infos
         /\ NotOf(c, After(NotOf(c, View(c)), stream[c][1]))
              = NotOf(c, After(View(c), stream[c][1]))
  <1>1. PICK t : Path(c, t)
    OBVIOUS
  <1>2. /\ Len(stream[c]) \in Nat \ {0}
        /\ stream[c][1] \in ServerMsgs /\ stream[c][1].kind = kind
    BY ReceiveFacts
  <1>3. t[0] = NotOf(c, View(c))
    BY <1>1 DEF Path
  <1>4. Fits(c, t[0], stream[c][1])
    <2>1. 1 \in 1 .. Len(stream[c]) /\ 1 - 1 = 0
      BY <1>2
    <2>2. Fits(c, t[1 - 1], stream[c][1])
      BY <1>1, <2>1 DEF Path
    <2> QED BY <2>1, <2>2
  <1>5. View(c) \in SUBSET Infos
    <2>1. members[c] \in Seq(Structs)
      BY DEF Types, ClientTypes
    <2> QED BY <2>1, ViewFacts
  <1> QED BY <1>2, <1>3, <1>4, <1>5, AfterFiltered

LEMMA EntryOfMember == \A x \in Infos : Entry(Member(x)) = x /\ Member(x).user = x.user
  BY DEF Entry, Member, Infos

LEMMA MembersFollows ==
  ASSUME Types, Types', FollowInv, NEW c \in Clients, Members(c)
  PROVE  FollowInv'
  <1> DEFINE infos == stream[c][1].infos
  <1>1. Receive(c, "MEMBERS") /\ room' = [room EXCEPT ![c] = "in"]
    BY DEF Members
  <1>2. /\ infos \in Lists
        /\ members[c] = << >>
        /\ members'[c] \in Seq(Structs)
        /\ \A d \in Clients \ {c} : members'[d] = members[d]
        /\ \A x \in infos : \E i \in 1 .. Len(members'[c]) :
             members'[c][i] = Member(x)
        /\ \A i \in 1 .. Len(members'[c]) : \E x \in infos :
             members'[c][i] = Member(x)
        /\ \A i, j \in 1 .. Len(members'[c]) :
             members'[c][i] = members'[c][j] => i = j
    BY MembersFacts
  <1>3. ASSUME \E t : Path(c, t)
        PROVE  /\ Single(c)'
               /\ NotOf(c, View(c)')
                    = NotOf(c, After(NotOf(c, View(c)), stream[c][1]))
    <2>1. /\ Fits(c, NotOf(c, View(c)), stream[c][1])
          /\ stream[c][1] \in ServerMsgs /\ stream[c][1].kind = "MEMBERS"
          /\ View(c) \in SUBSET Infos
          /\ NotOf(c, After(NotOf(c, View(c)), stream[c][1]))
               = NotOf(c, After(View(c), stream[c][1]))
      BY <1>1, <1>3, PathHead
    <2>2. \A x, y \in infos : x.user = y.user => x = y
      BY <2>1 DEF Fits
    <2>3. View(c) = {}
      BY <1>2 DEF View, ToSet
    <2>4. After(View(c), stream[c][1]) = infos
      <3>1. After(View(c), stream[c][1]) = View(c) \cup infos
        BY <2>1, AfterFacts
      <3> QED BY <2>3, <3>1
    <2> HIDE DEF infos
    <2>5. \A x \in infos : x \in Infos
      BY <1>2 DEF Lists
    <2>6. Single(c)'
      <3> SUFFICES ASSUME NEW i \in 1 .. Len(members'[c]),
                          NEW j \in 1 .. Len(members'[c]),
                          members'[c][i].user = members'[c][j].user
                   PROVE  i = j
        BY DEF Single
      <3>1. PICK x \in infos : members'[c][i] = Member(x)
        BY <1>2
      <3>2. PICK y \in infos : members'[c][j] = Member(y)
        BY <1>2
      <3>3. x.user = y.user
        BY <2>5, <3>1, <3>2, EntryOfMember
      <3> QED BY <1>2, <2>2, <3>1, <3>2, <3>3
    <2>7. \A x : x \in View(c)' <=> x \in infos
      <3>1. \A x : x \in View(c)' <=>
                     \E i \in 1 .. Len(members'[c]) : x = Entry(members'[c][i])
        BY DEF View, ToSet, Entry
      <3>2. ASSUME NEW x \in infos
            PROVE  \E i \in 1 .. Len(members'[c]) : x = Entry(members'[c][i])
        <4>1. PICK i \in 1 .. Len(members'[c]) : members'[c][i] = Member(x)
          BY <1>2
        <4>2. x = Entry(Member(x))
          BY <2>5, EntryOfMember
        <4> QED BY <4>1, <4>2
      <3>3. ASSUME NEW i \in 1 .. Len(members'[c])
            PROVE  Entry(members'[c][i]) \in infos
        <4>1. PICK x \in infos : members'[c][i] = Member(x)
          BY <1>2
        <4> QED BY <2>5, <4>1, EntryOfMember
      <3> QED BY <3>1, <3>2, <3>3
    <2>8. View(c)' = infos
      BY <2>7
    <2> QED BY <2>1, <2>4, <2>6, <2>8
  <1> QED BY <1>1, <1>2, <1>3, ReadFollows

LEMMA JoinFollows ==
  ASSUME Types, Types', FollowInv, NEW c \in Clients, Join(c)
  PROVE  FollowInv'
  <1> DEFINE info == stream[c][1].info
             n == Len(members[c])
  <1>1. Receive(c, "JOIN") /\ room' = room
    BY DEF Join
  <1>2. /\ info \in Infos
        /\ \A d \in Clients \ {c} : members'[d] = members[d]
        /\ info.user = c => members'[c] = members[c]
        /\ info.user # c =>
             /\ Len(members'[c]) = n + 1
             /\ members'[c][1] = Member(info)
             /\ \A i \in 1 .. n : members'[c][i + 1] = members[c][i]
    BY JoinFacts
  <1>3. ASSUME c \in Linked, \E t : Path(c, t)
        PROVE  /\ Single(c)'
               /\ NotOf(c, View(c)')
                    = NotOf(c, After(NotOf(c, View(c)), stream[c][1]))
    <2>1. /\ Fits(c, NotOf(c, View(c)), stream[c][1])
          /\ stream[c][1] \in ServerMsgs /\ stream[c][1].kind = "JOIN"
          /\ View(c) \in SUBSET Infos
          /\ NotOf(c, After(NotOf(c, View(c)), stream[c][1]))
               = NotOf(c, After(View(c), stream[c][1]))
      BY <1>1, <1>3, PathHead
    <2>2. After(View(c), stream[c][1]) = View(c) \cup {info}
      BY <2>1, AfterFacts
    <2>3. Single(c)
      BY <1>3 DEF FollowInv
    <2>4. /\ members[c] \in Seq(Structs)
          /\ \A x : x \in View(c) <=>
                      \E i \in 1 .. n : x = Entry(members[c][i])
      <3>1. members[c] \in Seq(Structs)
        BY DEF Types, ClientTypes
      <3> QED BY <3>1, ViewFacts
    <2>5. n \in Nat
      BY <2>4
    <2>6. info.user # c => \A i \in View(c) : i.user # info.user
      BY <2>1 DEF Fits, NotOf
    <2> HIDE DEF info, n
    <2>7. CASE info.user = c
      <3>1. members'[c] = members[c]
        BY <1>2, <2>7
      <3>2. View(c)' = View(c) /\ Single(c)'
        BY <2>3, <3>1 DEF View, Single
      <3>3. NotOf(c, View(c) \cup {info}) = NotOf(c, View(c))
        BY <2>7 DEF NotOf
      <3> QED BY <2>1, <2>2, <3>2, <3>3
    <2>8. CASE info.user # c
      <3>0. \A i \in 1 .. n + 1 : i # 1 =>
              /\ i - 1 \in 1 .. n
              /\ members'[c][i] = members[c][i - 1]
        <4> SUFFICES ASSUME NEW i \in 1 .. n + 1, i # 1
                     PROVE  /\ i - 1 \in 1 .. n
                            /\ members'[c][i] = members[c][i - 1]
          OBVIOUS
        <4>1. i - 1 \in 1 .. n /\ (i - 1) + 1 = i
          BY <2>5
        <4>2. members'[c][(i - 1) + 1] = members[c][i - 1]
          BY <1>2, <2>8, <4>1
        <4> QED BY <4>1, <4>2
      <3>1. \A x : x \in View(c)' <=>
                     \E i \in 1 .. n + 1 : x = Entry(members'[c][i])
        <4>1. \A x : x \in View(c)' <=>
                \E i \in 1 .. Len(members'[c]) : x = Entry(members'[c][i])
          <5>1. members'[c] \in Seq(Structs)
            BY DEF Types, ClientTypes
          <5> QED BY <5>1 DEF View, ToSet, Entry
        <4> QED BY <1>2, <2>8, <4>1
      <3>2. Entry(members'[c][1]) = info
        BY <1>2, <2>8, EntryOfMember
      <3>3. \A x : x \in View(c)' <=> x = info \/ x \in View(c)
        <4>1. ASSUME NEW x \in View(c)' PROVE x = info \/ x \in View(c)
          <5>1. PICK i \in 1 .. n + 1 : x = Entry(members'[c][i])
            BY <3>1
          <5> QED BY <2>4, <3>0, <3>2, <5>1
        <4>2. info \in View(c)'
          BY <2>5, <3>1, <3>2
        <4>3. ASSUME NEW x \in View(c) PROVE x \in View(c)'
          <5>1. PICK i \in 1 .. n : x = Entry(members[c][i])
            BY <2>4
          <5>2. i + 1 \in 1 .. n + 1 /\ members'[c][i + 1] = members[c][i]
            BY <1>2, <2>5, <2>8
          <5> QED BY <3>1, <5>1, <5>2
        <4> QED BY <4>1, <4>2, <4>3
      <3>4. View(c)' = View(c) \cup {info}
        BY <3>3
      <3>5. \A i \in 1 .. n : members[c][i].user # info.user
        <4>1. \A i \in 1 .. n : Entry(members[c][i]) \in View(c)
          BY <2>4
        <4>2. \A i \in 1 .. n : Entry(members[c][i]).user = members[c][i].user
          BY DEF Entry
        <4> QED BY <2>6, <2>8, <4>1, <4>2
      <3>6. Single(c)'
        <4> SUFFICES ASSUME NEW i \in 1 .. n + 1, NEW j \in 1 .. n + 1,
                            members'[c][i].user = members'[c][j].user
                     PROVE  i = j
          BY <1>2, <2>8 DEF Single
        <4>1. members'[c][1].user = info.user
          BY <1>2, <2>8, EntryOfMember
        <4>2. CASE i = 1 \/ j = 1
          BY <3>0, <3>5, <4>1, <4>2
        <4>3. CASE i # 1 /\ j # 1
          <5>1. /\ i - 1 \in 1 .. n /\ members'[c][i] = members[c][i - 1]
                /\ j - 1 \in 1 .. n /\ members'[c][j] = members[c][j - 1]
            BY <3>0, <4>3
          <5>2. members[c][i - 1].user = members[c][j - 1].user
            BY <5>1
          <5>3. i - 1 = j - 1
            BY <2>3, <5>1, <5>2 DEF Single, n
          <5> QED BY <5>3
        <4> QED BY <4>2, <4>3
      <3> QED BY <2>1, <2>2, <3>4, <3>6
    <2> QED BY <2>7, <2>8
  <1> QED BY <1>1, <1>2, <1>3, ReadFollows

LEMMA PartFollows ==
  ASSUME Types, Types', FollowInv, NEW c \in Clients, Part(c)
  PROVE  FollowInv'
  <1> DEFINE u == stream[c][1].user
             p == Find(c, u)
             n == Len(members[c])
  <1>1. Receive(c, "PART") /\ room' = room
    BY DEF Part
  <1>2. /\ u \in Clients
        /\ \A d \in Clients \ {c} : members'[d] = members[d]
        /\ ~Known(c, u) => members'[c] = members[c]
        /\ Known(c, u) =>
             /\ p \in 1 .. n /\ members[c][p].user = u
             /\ Len(members'[c]) = n - 1
             /\ \A i \in 1 .. n - 1 :
                  members'[c][i] = members[c][IF i < p THEN i ELSE i + 1]
    BY PartFacts
  <1>3. ASSUME c \in Linked, \E t : Path(c, t)
        PROVE  /\ Single(c)'
               /\ NotOf(c, View(c)')
                    = NotOf(c, After(NotOf(c, View(c)), stream[c][1]))
    <2>1. /\ stream[c][1] \in ServerMsgs /\ stream[c][1].kind = "PART"
          /\ View(c) \in SUBSET Infos
          /\ NotOf(c, After(NotOf(c, View(c)), stream[c][1]))
               = NotOf(c, After(View(c), stream[c][1]))
      BY <1>1, <1>3, PathHead
    <2>2. After(View(c), stream[c][1]) = {i \in View(c) : i.user # u}
      BY <2>1, AfterFacts
    <2>3. Single(c)
      BY <1>3 DEF FollowInv
    <2>4. /\ members[c] \in Seq(Structs) /\ members'[c] \in Seq(Structs)
          /\ members \in [Clients -> Seq(Structs)]
      BY DEF Types, ClientTypes
    <2>5. \A x : x \in View(c) <=> \E i \in 1 .. n : x = Entry(members[c][i])
      BY <2>4, ViewFacts
    <2>6. \A i \in 1 .. n : Entry(members[c][i]).user = members[c][i].user
      BY DEF Entry
    <2>7. n \in Nat
      BY <2>4
    <2>8. CASE ~Known(c, u)
      <3>1. members'[c] = members[c]
        BY <1>2, <2>8
      <3>2. View(c)' = View(c) /\ Single(c)'
        BY <2>3, <3>1 DEF View, Single
      <3>3. \A i \in 1 .. n : members[c][i].user # u
        BY <2>4, <2>8, FindFacts
      <3>4. {i \in View(c) : i.user # u} = View(c)
        BY <2>5, <2>6, <3>3
      <3> QED BY <2>1, <2>2, <3>2, <3>4
    <2>9. CASE Known(c, u)
      <3> HIDE DEF u, p
      <3> DEFINE f == [i \in 1 .. n - 1 |-> IF i < p THEN i ELSE i + 1]
      <3>1. /\ \A i \in 1 .. n - 1 : /\ f[i] \in 1 .. n /\ f[i] # p
                                     /\ members'[c][i] = members[c][f[i]]
            /\ \A i, j \in 1 .. n - 1 : f[i] = f[j] => i = j
            /\ \A j \in 1 .. n : j # p => \E i \in 1 .. n - 1 : f[i] = j
        <4>1. \A i \in 1 .. n - 1 : /\ f[i] \in 1 .. n /\ f[i] # p
                                    /\ members'[c][i] = members[c][f[i]]
          BY <1>2, <2>7, <2>9
        <4>2. \A i, j \in 1 .. n - 1 : f[i] = f[j] => i = j
          BY <1>2, <2>7, <2>9
        <4>3. ASSUME NEW j \in 1 .. n, j # p
              PROVE  \E i \in 1 .. n - 1 : f[i] = j
          <5>1. CASE j < p
            BY <1>2, <2>7, <2>9, <5>1
          <5>2. CASE j > p
            <6>1. j - 1 \in 1 .. n - 1 /\ f[j - 1] = j
              BY <1>2, <2>7, <2>9, <5>2
            <6> QED BY <6>1
          <5>3. p \in 1 .. n
            BY <1>2, <2>9
          <5>4. j < p \/ j > p
            BY <4>3, <5>3
          <5> QED BY <5>1, <5>2, <5>4
        <4> QED BY <4>1, <4>2, <4>3
      <3> HIDE DEF f
      <3>2. \A x : x \in View(c)' <=>
                     \E i \in 1 .. n - 1 : x = Entry(members'[c][i])
        <4>1. \A x : x \in View(c)' <=>
                       \E i \in 1 .. Len(members'[c]) : x = Entry(members'[c][i])
          BY <2>4 DEF View, ToSet, Entry
        <4> QED BY <1>2, <2>9, <4>1
      <3>3. \A i \in 1 .. n : i # p => members[c][i].user # u
        BY <1>2, <2>3, <2>9 DEF Single
      <3>4. \A x : x \in View(c)' <=> x \in View(c) /\ x.user # u
        <4>1. ASSUME NEW x \in View(c)' PROVE x \in View(c) /\ x.user # u
          <5>1. PICK i \in 1 .. n - 1 : x = Entry(members'[c][i])
            BY <3>2
          <5>2. x = Entry(members[c][f[i]]) /\ f[i] \in 1 .. n /\ f[i] # p
            BY <3>1, <5>1
          <5> QED BY <2>5, <2>6, <3>3, <5>2
        <4>2. ASSUME NEW x \in View(c), x.user # u PROVE x \in View(c)'
          <5>1. PICK j \in 1 .. n : x = Entry(members[c][j])
            BY <2>5
          <5>2. j # p
            BY <1>2, <2>6, <2>9, <4>2, <5>1
          <5>3. PICK i \in 1 .. n - 1 : f[i] = j
            BY <3>1, <5>2
          <5> QED BY <3>1, <3>2, <5>1, <5>3
        <4> QED BY <4>1, <4>2
      <3>5. View(c)' = {i \in View(c) : i.user # u}
        BY <3>4
      <3>6. Single(c)'
        <4> SUFFICES ASSUME NEW i \in 1 .. n - 1, NEW j \in 1 .. n - 1,
                            members'[c][i].user = members'[c][j].user
                     PROVE  i = j
          BY <1>2, <2>9 DEF Single
        <4>1. members[c][f[i]].user = members[c][f[j]].user
          BY <3>1
        <4>2. f[i] = f[j]
          BY <2>3, <3>1, <4>1 DEF Single
        <4> QED BY <3>1, <4>2
      <3> QED BY <2>1, <2>2, <3>5, <3>6 DEF u
    <2> QED BY <2>8, <2>9
  <1> QED BY <1>1, <1>2, <1>3, ReadFollows

LEMMA SwitchFollows ==
  ASSUME Types, Types', FollowInv, NEW c \in Clients,
         NEW kind \in {"STARTVPN", "STOPVPN"}, SwitchVpn(c, kind)
  PROVE  FollowInv'
  <1> DEFINE u == stream[c][1].user
             p == Find(c, u)
             n == Len(members[c])
             g(i) == IF i.user = u THEN [i EXCEPT !.vpn = (kind = "STARTVPN")]
                                   ELSE i
  <1>1. Receive(c, kind) /\ room' = room
    BY DEF SwitchVpn
  <1>2. /\ \A d \in Clients \ {c} : members'[d] = members[d]
        /\ ~Known(c, u) => members'[c] = members[c]
        /\ Known(c, u) =>
             /\ p \in 1 .. n /\ members[c][p].user = u
             /\ Len(members'[c]) = n
             /\ \A i \in 1 .. n :
                  members'[c][i] =
                    IF i = p
                      THEN [members[c][i] EXCEPT !.vpn = (kind = "STARTVPN")]
                      ELSE members[c][i]
    BY SwitchFacts
  <1>3. ASSUME c \in Linked, \E t : Path(c, t)
        PROVE  /\ Single(c)'
               /\ NotOf(c, View(c)')
                    = NotOf(c, After(NotOf(c, View(c)), stream[c][1]))
    <2>1. /\ stream[c][1] \in ServerMsgs /\ stream[c][1].kind = kind
          /\ View(c) \in SUBSET Infos
          /\ NotOf(c, After(NotOf(c, View(c)), stream[c][1]))
               = NotOf(c, After(View(c), stream[c][1]))
      BY <1>1, <1>3, PathHead
    <2>2. After(View(c), stream[c][1]) = {g(i) : i \in View(c)}
      <3> DEFINE msg == stream[c][1]
      <3>1. msg \in ServerMsgs /\ msg.kind = kind
        BY <2>1
      <3> HIDE DEF msg
      <3>2. After(View(c), msg) =
              {IF i.user = msg.user
                 THEN [i EXCEPT !.vpn = (msg.kind = "STARTVPN")]
                 ELSE i : i \in View(c)}
        BY <2>1, <3>1, AfterFacts
      <3> QED BY <3>1, <3>2 DEF msg
    <2>3. Single(c)
      BY <1>3 DEF FollowInv
    <2>4. /\ members[c] \in Seq(Structs) /\ members'[c] \in Seq(Structs)
          /\ members \in [Clients -> Seq(Structs)]
      BY DEF Types, ClientTypes
    <2>5. \A x : x \in View(c) <=> \E i \in 1 .. n : x = Entry(members[c][i])
      BY <2>4, ViewFacts
    <2>6. \A i \in 1 .. n : Entry(members[c][i]).user = members[c][i].user
      BY DEF Entry
    <2>7. CASE ~Known(c, u)
      <3>1. members'[c] = members[c]
        BY <1>2, <2>7
      <3>2. View(c)' = View(c) /\ Single(c)'
        BY <2>3, <3>1 DEF View, Single
      <3>3. \A i \in 1 .. n : members[c][i].user # u
        BY <2>4, <2>7, FindFacts
      <3>4. \A i \in View(c) : g(i) = i
        BY <2>5, <2>6, <3>3
      <3>5. {g(i) : i \in View(c)} = View(c)
        BY <3>4
      <3> QED BY <2>1, <2>2, <3>2, <3>5
    <2>8. CASE Known(c, u)
      <3>1. \A i \in 1 .. n : i # p => members[c][i].user # u
        BY <1>2, <2>3, <2>8 DEF Single
      <3>2. ASSUME NEW i \in 1 .. n
            PROVE  /\ Entry(members'[c][i]) = g(Entry(members[c][i]))
                   /\ members'[c][i].user = members[c][i].user
        <4>1. members[c][i] \in Structs
          BY <2>4
        <4>2. CASE i = p
          <5>1. members'[c][i] =
                  [members[c][i] EXCEPT !.vpn = (kind = "STARTVPN")]
            BY <1>2, <2>8, <4>2
          <5>2. Entry(members[c][i]).user = u
            BY <1>2, <2>6, <2>8, <4>2
          <5> HIDE DEF u, p, n
          <5>3. g(Entry(members[c][i])) =
                  [Entry(members[c][i]) EXCEPT !.vpn = (kind = "STARTVPN")]
            BY <5>2
          <5> QED BY <4>1, <5>1, <5>3 DEF Entry, Structs
        <4>3. CASE i # p
          <5>1. members'[c][i] = members[c][i]
            BY <1>2, <2>8, <4>3
          <5>2. Entry(members[c][i]).user # u
            BY <2>6, <3>1, <4>3
          <5> QED BY <5>1, <5>2
        <4> QED BY <4>2, <4>3
      <3>3. \A x : x \in View(c)' <=>
                     \E i \in 1 .. n : x = Entry(members'[c][i])
        <4>1. \A x : x \in View(c)' <=>
                       \E i \in 1 .. Len(members'[c]) : x = Entry(members'[c][i])
          BY <2>4 DEF View, ToSet, Entry
        <4> QED BY <1>2, <2>8, <4>1
      <3> HIDE DEF g
      <3>4. \A x : x \in View(c)' <=> x \in {g(i) : i \in View(c)}
        <4>1. \A x : x \in {g(i) : i \in View(c)}
                       <=> \E i \in 1 .. n : x = g(Entry(members[c][i]))
          BY <2>5
        <4>2. \A x : (\E i \in 1 .. n : x = Entry(members'[c][i]))
                       <=> \E i \in 1 .. n : x = g(Entry(members[c][i]))
          BY <3>2
        <4> HIDE DEF n
        <4> QED BY <3>3, <4>1, <4>2
      <3>5. View(c)' = {g(i) : i \in View(c)}
        BY <3>4
      <3>6. Single(c)'
        <4> SUFFICES ASSUME NEW i \in 1 .. n, NEW j \in 1 .. n,
                            members'[c][i].user = members'[c][j].user
                     PROVE  i = j
          BY <1>2, <2>8 DEF Single
        <4>1. members[c][i].user = members[c][j].user
          BY <3>2
        <4> QED BY <2>3, <4>1 DEF Single
      <3> QED BY <2>1, <2>2, <3>5, <3>6
    <2> QED BY <2>7, <2>8
  <1>4. kind # "MEMBERS"
    OBVIOUS
  <1> QED BY <1>1, <1>2, <1>3, <1>4, ReadFollows

\* conn_ok is not part of what is followed.
LEMMA HelloFollows ==
  ASSUME Types, Types', FollowInv, NEW c \in Clients, NEW u \in Clients,
         ReceiveReq(c, u) \/ ReceiveRep(c, u)
  PROVE  FollowInv'
  <1>1. /\ UNCHANGED <<present, stays, vpn, stream, room>>
        /\ \E ok : Heard(c, u, ok)
    BY HelloFacts DEF ReceiveReq, ReceiveRep, serverVars
  <1>2. PICK ok : Heard(c, u, ok)
    BY <1>1
  <1> SUFFICES ASSUME NEW d \in Linked
               PROVE  Single(d)' /\ \E t : Path(d, t)'
    BY <1>1 DEF FollowInv, Linked
  <1>3. d \in Clients
    BY DEF Linked, Types, ServerTypes
  <1>4. OtherInfos(d)' = OtherInfos(d) /\ stream'[d] = stream[d]
    BY <1>1 DEF OtherInfos, Info
  <1>5. CASE d # c
    <2>1. members'[d] = members[d]
      BY <1>2, <1>3, <1>5 DEF Heard
    <2> QED BY <1>4, <2>1, FollowSame DEF FollowInv
  <1>6. CASE d = c
    <2>1. /\ members[c] \in Seq(Structs) /\ members'[c] \in Seq(Structs)
          /\ Len(members'[c]) = Len(members[c])
      BY <1>2 DEF Types, ClientTypes, Heard
    <2>2. ASSUME NEW i \in 1 .. Len(members[c])
          PROVE  /\ Entry(members'[c][i]) = Entry(members[c][i])
                 /\ members'[c][i].user = members[c][i].user
      <3>1. members[c][i] \in Structs
        BY <2>1
      <3>2. /\ members'[c][i].user = members[c][i].user
            /\ members'[c][i].stay = members[c][i].stay
            /\ members'[c][i].vpn = members[c][i].vpn
        BY <1>2, <3>1 DEF Heard, Structs
      <3> QED BY <3>2 DEF Entry
    <2>3. View(c)' = View(c)
      <3>1. \A x : x \in View(c) <=>
                     \E i \in 1 .. Len(members[c]) : x = Entry(members[c][i])
        BY <2>1, ViewFacts
      <3>2. \A x : x \in View(c)' <=>
                     \E i \in 1 .. Len(members'[c]) : x = Entry(members'[c][i])
        BY <2>1 DEF View, ToSet, Entry
      <3>3. \A x : x \in View(c)' <=> x \in View(c)
        BY <2>1, <2>2, <3>1, <3>2
      <3> QED BY <3>3
    <2>4. Single(c) /\ \E t : Path(c, t)
      BY <1>6 DEF FollowInv
    <2>5. Single(c)'
      BY <2>1, <2>2, <2>4 DEF Single
    <2>6. \E t : Path(c, t)'
      BY <1>4, <1>6, <2>3, <2>4, PathSame
    <2> QED BY <1>6, <2>5, <2>6
  <1> QED BY <1>5, <1>6

\* Steps on nothing that the table is made of.
LEMMA FollowQuiet ==
  ASSUME FollowInv, UNCHANGED <<present, stays, vpn, stream, members>>,
         Linked' \subseteq Linked
  PROVE  FollowInv'
  <1>1. \A d : OtherInfos(d)' = OtherInfos(d)
    BY DEF OtherInfos, Info
  <1> QED BY <1>1, FollowSame DEF FollowInv

LEMMA JoinRoomFollows ==
  ASSUME Types, FollowInv, NEW c \in Clients, JoinRoom(c)
  PROVE  FollowInv'
  <1>1. /\ UNCHANGED <<present, stays, vpn, stream, members>>
        /\ c \notin present
        /\ \A d \in Clients \ {c} : room'[d] = room[d]
    BY DEF JoinRoom, serverVars, Types, ClientTypes
  <1>2. Linked' \subseteq Linked
    BY <1>1 DEF Linked, Types, ServerTypes
  <1> QED BY <1>1, <1>2, FollowQuiet

LEMMA FreeRoomFollows ==
  ASSUME Types, FollowInv, NEW c \in Clients, FreeRoom(c)
  PROVE  FollowInv'
  <1>1. /\ UNCHANGED <<present, stays, vpn>>
        /\ \A d \in Clients \ {c} : /\ room'[d] = room[d]
                                    /\ stream'[d] = stream[d]
                                    /\ members'[d] = members[d]
        /\ room'[c] = "out"
    BY DEF FreeRoom, Types, ClientTypes, StreamTypes
  <1>2. Linked' \subseteq Linked /\ c \notin Linked' /\ Linked' \subseteq Clients
    BY <1>1 DEF Linked, Types, ServerTypes
  <1>3. \A d : OtherInfos(d)' = OtherInfos(d)
    BY <1>1 DEF OtherInfos, Info
  <1> QED BY <1>1, <1>2, <1>3, FollowSame DEF FollowInv

LEMMA NextFollows ==
  ASSUME Types, FollowInv, [Next]_vars
  PROVE  FollowInv'
  <1>0. Types'
    BY NextTypes
  <1>1. ASSUME NEW c \in Clients,
               \/ DoHello(c)
               \/ \E r \in ToSet(members[c]) : Connect(c, r)
               \/ \E msg \in net : ReceiveInitConn(c, msg)
               \/ \E i \in DOMAIN conns[c] : FreeConn(c, i)
        PROVE  FollowInv'
    <2>1. UNCHANGED <<present, stays, vpn, stream, members, room>>
      BY <1>1 DEF DoHello, Connect, ReceiveInitConn, FreeConn, serverVars
    <2> QED BY <2>1, FollowQuiet DEF Linked
  <1>2. ASSUME NEW msg \in net, Lose(msg) PROVE FollowInv'
    <2>1. UNCHANGED <<present, stays, vpn, stream, members, room>>
      BY <1>2 DEF Lose, serverVars
    <2> QED BY <2>1, FollowQuiet DEF Linked
  <1>3. CASE UNCHANGED vars
    <2>1. UNCHANGED <<present, stays, vpn, stream, members, room>>
      BY <1>3 DEF vars, serverVars
    <2> QED BY <2>1, FollowQuiet DEF Linked
  <1>4. CASE Next
    BY <1>0, <1>1, <1>2, <1>4, NextActions, ServerJoinFollows,
       ServerPartFollows, ToggleVpnFollows, JoinRoomFollows, FreeRoomFollows,
       MembersFollows, JoinFollows, PartFollows, SwitchFollows, HelloFollows
  <1> QED BY <1>3, <1>4

-----------------------------------------------------------------------------
(* Where the path ends *)

\* The tables that c will have, its own entry included.
Tables(c, f, m) ==
  f = [k \in 0 .. m |-> IF k = 0 THEN View(c)
                                 ELSE After(f[k - 1], stream[c][k])]

LEMMA TablesExist ==
  ASSUME NEW c, NEW n \in Nat
  PROVE  \E f : Tables(c, f, n)
  <1> DEFINE T == {m \in Nat : ~ \E f : Tables(c, f, m)}
  <1>1. SUFFICES ASSUME T # {} PROVE FALSE
    OBVIOUS
  <1>2. T \in SUBSET Nat
    OBVIOUS
  <1>3. PICK m \in T : \A y \in T : m <= y
    <2> HIDE DEF T
    <2> QED BY <1>1, <1>2, Smallest
  <1>4. CASE m = 0
    <2> DEFINE f == [k \in 0 .. 0 |-> View(c)]
    <2>1. Tables(c, f, 0)
      BY DEF Tables
    <2> QED BY <1>4, <2>1
  <1>5. CASE m # 0
    <2>1. m - 1 \in Nat /\ m - 1 \notin T
      BY <1>3, <1>5
    <2>2. PICK g : Tables(c, g, m - 1)
      BY <2>1
    <2> DEFINE f == [k \in 0 .. m |-> IF k = m THEN After(g[m - 1], stream[c][m])
                                               ELSE g[k]]
    <2>3. ASSUME NEW k \in 0 .. m
          PROVE  f[k] = IF k = 0 THEN View(c) ELSE After(f[k - 1], stream[c][k])
      <3>1. CASE k = m
        <4>1. f[k] = After(g[m - 1], stream[c][m])
          BY <3>1
        <4>2. f[m - 1] = g[m - 1]
          BY <2>1
        <4> HIDE DEF f
        <4> QED BY <1>5, <3>1, <4>1, <4>2
      <3>2. CASE k = 0
        <4>1. f[0] = g[0]
          BY <1>5
        <4>2. g[0] = View(c)
          BY <2>1, <2>2 DEF Tables
        <4> HIDE DEF f
        <4> QED BY <3>2, <4>1, <4>2
      <3>3. CASE k # m /\ k # 0
        <4>1. k \in 0 .. m - 1 /\ k - 1 \in 0 .. m /\ k - 1 # m
          BY <2>1, <3>3
        <4>2. f[k] = g[k] /\ f[k - 1] = g[k - 1]
          BY <3>3, <4>1
        <4>3. g[k] = After(g[k - 1], stream[c][k])
          BY <2>2, <3>3, <4>1 DEF Tables
        <4> HIDE DEF f
        <4> QED BY <3>3, <4>2, <4>3
      <3> QED BY <3>1, <3>2, <3>3
    <2>4. Tables(c, f, m)
      <3>1. f = [k \in 0 .. m |-> f[k]]
        OBVIOUS
      <3> HIDE DEF f
      <3> QED BY <2>3, <3>1 DEF Tables
    <2> HIDE DEF f
    <2> QED BY <1>3, <2>4
  <1> QED BY <1>4, <1>5

\* The path is what is left of these tables without c.
LEMMA TablesFiltered ==
  ASSUME Types, NEW c \in Clients, NEW t, Path(c, t),
         NEW f, Tables(c, f, Len(stream[c])),
         NEW k \in 0 .. Len(stream[c])
  PROVE  f[k] \in SUBSET Infos /\ NotOf(c, f[k]) = t[k]
  <1> DEFINE n == Len(stream[c])
             Good(m) == f[m] \in SUBSET Infos /\ NotOf(c, f[m]) = t[m]
             T == {m \in 0 .. n : ~Good(m)}
  <1>1. SUFFICES ASSUME T # {} PROVE FALSE
    OBVIOUS
  <1>2. T \in SUBSET Nat
    OBVIOUS
  <1>3. PICK m \in T : \A y \in T : m <= y
    <2> HIDE DEF T
    <2> QED BY <1>1, <1>2, Smallest
  <1>4. stream[c] \in Seq(ServerMsgs) /\ members[c] \in Seq(Structs)
    BY DEF Types, StreamTypes, ClientTypes
  <1>5. n \in Nat /\ \A j \in 1 .. n : stream[c][j] \in ServerMsgs
    BY <1>4
  <1>6. CASE m = 0
    <2>1. f[0] = View(c)
      BY <1>5 DEF Tables
    <2>2. t[0] = NotOf(c, View(c)) /\ View(c) \in SUBSET Infos
      BY <1>4, ViewFacts DEF Path
    <2> QED BY <1>3, <1>6, <2>1, <2>2
  <1>7. CASE m # 0
    <2>1. m \in 1 .. n /\ m - 1 \in 0 .. n /\ ~(m <= m - 1)
      BY <1>3, <1>5, <1>7
    <2>2. Good(m - 1)
      BY <1>3, <2>1
    <2>3. f[m] = After(f[m - 1], stream[c][m])
      BY <2>1 DEF Tables
    <2>4. t[m] = NotOf(c, After(t[m - 1], stream[c][m]))
      BY <2>1 DEF Path
    <2>5. f[m] \in SUBSET Infos
      <3>1. f[m - 1] \in SUBSET Infos /\ stream[c][m] \in ServerMsgs
        BY <1>5, <2>1, <2>2
      <3> HIDE DEF n, Good, T
      <3>2. After(f[m - 1], stream[c][m]) \in SUBSET Infos
        BY <3>1, AfterFacts
      <3> QED BY <2>3, <3>2
    <2>6. NotOf(c, f[m]) = t[m]
      BY <1>5, <2>1, <2>2, <2>3, <2>4, AfterFiltered
    <2> QED BY <1>3, <2>5, <2>6
  <1> QED BY <1>6, <1>7

LEMMA SeenIsEnd ==
  ASSUME Types, NEW c \in Clients, NEW t, Path(c, t)
  PROVE  NotOf(c, Seen(c)) = OtherInfos(c)
  <1> DEFINE n == Len(stream[c])
             s == CHOOSE f : Tables(c, f, n)
  <1>1. n \in Nat
    BY DEF Types, StreamTypes
  <1>2. Seen(c) = s[n]
    BY DEF Seen, Tables
  <1> HIDE DEF n
  <1>3. Tables(c, s, n)
    BY <1>1, TablesExist
  <1> HIDE DEF s
  <1>4. NotOf(c, s[n]) = t[n]
    BY <1>1, <1>3, TablesFiltered DEF n
  <1> QED BY <1>2, <1>4 DEF Path, n

\* What a client knows of the others, with the messages that it has still to
\* read, is what the server knows of them, and each user has one structure:
\* handle_room_join and handle_room_activity neither miss nor repeat a member
\* of the room, whatever joins, parts and switches come between.
THEOREM TableFollowsServer == Spec => []MembersFollow
  <1>1. Init => FollowInv
    BY DEF Init, FollowInv, Linked
  <1>2. Types /\ FollowInv => MembersFollow
    <2> SUFFICES ASSUME Types, FollowInv, NEW c \in Linked
                 PROVE  /\ {i \in Seen(c) : i.user # c}
                             = {Info(u) : u \in present \ {c}}
                        /\ \A i, j \in DOMAIN members[c] :
                             members[c][i].user = members[c][j].user => i = j
      BY DEF MembersFollow
    <2>1. c \in Clients
      BY DEF Linked, Types, ServerTypes
    <2>2. PICK t : Path(c, t)
      BY DEF FollowInv
    <2>3. NotOf(c, Seen(c)) = OtherInfos(c)
      BY <2>1, <2>2, SeenIsEnd
    <2>4. DOMAIN members[c] = 1 .. Len(members[c])
      BY <2>1 DEF Types, ClientTypes
    <2>5. Single(c)
      BY DEF FollowInv
    <2> QED BY <2>3, <2>4, <2>5 DEF NotOf, OtherInfos, Single
  <1>3. Spec => []Types
    BY InitTypes, NextTypes, PTL DEF Spec
  <1> QED BY <1>1, <1>2, <1>3, NextFollows, PTL DEF Spec

-----------------------------------------------------------------------------
(* Channels and members, as long as no two channels of a client have one ID. *)

\* Then ihash_del removes the entry of the channel that conn_free frees.
LEMMA FreeDistinct ==
  ASSUME NEW table \in Seq(Chans), NEW gone \in SUBSET (1 .. Len(table)),
         \A i, j \in 1 .. Len(table) : table[i].id = table[j].id => i = j
  PROVE  \E f \in [1 .. Len(Free(table, gone)) -> (1 .. Len(table)) \ gone] :
           /\ \A i, j \in DOMAIN f : f[i] = f[j] => i = j
           /\ \A k \in DOMAIN f : Free(table, gone)[k] = table[f[k]]
  <1> DEFINE Same(i, S) == {j \in S : table[j].id = table[i].id}
             kept == {i \in DOMAIN table :
                        Cardinality(Same(i, 1 .. i)) > Cardinality(Same(i, gone))}
             f == Ordered(kept)
             n == Cardinality(kept)
  <1>1. DOMAIN table = 1 .. Len(table) /\ Len(table) \in Nat
    OBVIOUS
  <1>2. kept = (1 .. Len(table)) \ gone
    <2>1. ASSUME NEW i \in 1 .. Len(table)
          PROVE  /\ Cardinality(Same(i, 1 .. i)) = 1
                 /\ Cardinality(Same(i, gone)) = IF i \in gone THEN 1 ELSE 0
      <3>1. Same(i, 1 .. i) = {i}
        OBVIOUS
      <3>2. Same(i, gone) = IF i \in gone THEN {i} ELSE {}
        OBVIOUS
      <3>3. Cardinality({i}) = 1 /\ Cardinality({}) = 0
        BY FS_Singleton, FS_EmptySet
      <3> QED BY <3>1, <3>2, <3>3
    <2> HIDE DEF Same
    <2> QED BY <1>1, <2>1
  <1>3. Free(table, gone) =
          [k \in DOMAIN f |-> [table[f[k]] EXCEPT !.freed = @ \/ f[k] \in gone]]
    BY DEF Free
  <1> HIDE DEF kept
  <1>4. /\ n \in Nat /\ f \in [1 .. n -> kept]
        /\ \A i, j \in 1 .. n : f[i] = f[j] => i = j
    BY <1>1, <1>2, OrderedFacts
  <1> HIDE DEF f, n
  <1>5. Len(Free(table, gone)) = n
    BY <1>3, <1>4
  <1>6. ASSUME NEW k \in 1 .. n
        PROVE  Free(table, gone)[k] = table[f[k]]
    <2>1. f[k] \in 1 .. Len(table) /\ f[k] \notin gone
      BY <1>2, <1>4
    <2>2. table[f[k]] \in Chans
      BY <2>1
    <2>3. [table[f[k]] EXCEPT !.freed = @ \/ FALSE] = table[f[k]]
      BY <2>2 DEF Chans
    <2>4. Free(table, gone)[k] = [table[f[k]] EXCEPT !.freed = @ \/ f[k] \in gone]
      BY <1>3, <1>4
    <2>5. (f[k] \in gone) = FALSE
      BY <2>1
    <2> QED BY <2>3, <2>4, <2>5
  <1> QED BY <1>2, <1>4, <1>5, <1>6

\* The channels of c have members, and none was freed.
Held(c) ==
  \A i \in 1 .. Len(conns[c]) :
    /\ ~conns[c][i].freed
    /\ \E j \in 1 .. Len(members[c]) :
         /\ members[c][j].user = conns[c][i].user
         /\ members[c][j].stay = conns[c][i].stay

HeldInv == \A c \in Clients : Held(c)

\* No channel is new, and no member structure is lost.
Kept(c) ==
  /\ \A i \in 1 .. Len(conns'[c]) : \E k \in 1 .. Len(conns[c]) :
       conns'[c][i] = conns[c][k]
  /\ \A j \in 1 .. Len(members[c]) : \E k \in 1 .. Len(members'[c]) :
       /\ members'[c][k].user = members[c][j].user
       /\ members'[c][k].stay = members[c][j].stay

LEMMA HeldStep ==
  ASSUME HeldInv, \A c \in Clients : Kept(c) \/ Held(c)'
  PROVE  HeldInv'
  <1> SUFFICES ASSUME NEW c \in Clients PROVE Held(c)'
    BY DEF HeldInv
  <1>1. CASE Kept(c)
    <2> SUFFICES ASSUME NEW i \in 1 .. Len(conns'[c])
                 PROVE  /\ ~conns'[c][i].freed
                        /\ \E j \in 1 .. Len(members'[c]) :
                             /\ members'[c][j].user = conns'[c][i].user
                             /\ members'[c][j].stay = conns'[c][i].stay
      BY DEF Held
    <2>1. PICK k \in 1 .. Len(conns[c]) : conns'[c][i] = conns[c][k]
      BY <1>1 DEF Kept
    <2>2. ~conns[c][k].freed
      BY DEF HeldInv, Held
    <2>3. PICK j \in 1 .. Len(members[c]) :
            /\ members[c][j].user = conns[c][k].user
            /\ members[c][j].stay = conns[c][k].stay
      BY DEF HeldInv, Held
    <2>4. PICK l \in 1 .. Len(members'[c]) :
            /\ members'[c][l].user = members[c][j].user
            /\ members'[c][l].stay = members[c][j].stay
      BY <1>1 DEF Kept
    <2> QED BY <2>1, <2>2, <2>3, <2>4
  <1> QED BY <1>1

LEMMA KeptSame ==
  ASSUME NEW c \in Clients, members'[c] = members[c], conns'[c] = conns[c]
  PROVE  Kept(c)
  BY DEF Kept

LEMMA MembersHeld ==
  ASSUME Types, NEW c \in Clients, Members(c)
  PROVE  \A d \in Clients : Kept(d)
  <1>1. conns' = conns
    BY DEF Members
  <1>2. members[c] = << >> /\ \A d \in Clients \ {c} : members'[d] = members[d]
    BY MembersFacts
  <1>3. Kept(c)
    BY <1>1, <1>2 DEF Kept
  <1> QED BY <1>1, <1>2, <1>3, KeptSame

LEMMA JoinHeld ==
  ASSUME Types, NEW c \in Clients, Join(c)
  PROVE  \A d \in Clients : Kept(d)
  <1> DEFINE info == stream[c][1].info
  <1>1. conns' = conns
    BY DEF Join
  <1>2. /\ \A d \in Clients \ {c} : members'[d] = members[d]
        /\ info.user = c => members'[c] = members[c]
        /\ info.user # c =>
             /\ Len(members'[c]) = Len(members[c]) + 1
             /\ \A i \in 1 .. Len(members[c]) : members'[c][i + 1] = members[c][i]
    BY JoinFacts
  <1> HIDE DEF info
  <1>3. Kept(c)
    <2>1. CASE info.user = c
      BY <1>1, <1>2, <2>1, KeptSame
    <2>2. CASE info.user # c
      <3>1. Len(members[c]) \in Nat
        BY DEF Types, ClientTypes
      <3>2. \A j \in 1 .. Len(members[c]) :
              j + 1 \in 1 .. Len(members'[c]) /\ members'[c][j + 1] = members[c][j]
        BY <1>2, <2>2, <3>1
      <3> QED BY <1>1, <3>2 DEF Kept
    <2> QED BY <2>1, <2>2
  <1> QED BY <1>1, <1>2, <1>3, KeptSame

\* The channels of the member that parts are freed; the others have another one.
LEMMA PartHeld ==
  ASSUME Types, IdsDiffer, HeldInv, NEW c \in Clients, Part(c)
  PROVE  HeldInv'
  <1> DEFINE u == stream[c][1].user
             p == Find(c, u)
             gone == ChannelsOf(conns[c], members[c][p])
  <1>1. /\ \A d \in Clients \ {c} : members'[d] = members[d] /\ conns'[d] = conns[d]
        /\ ~Known(c, u) => members'[c] = members[c] /\ conns'[c] = conns[c]
        /\ Known(c, u) =>
             /\ p \in 1 .. Len(members[c])
             /\ Len(members'[c]) = Len(members[c]) - 1
             /\ \A i \in 1 .. Len(members[c]) - 1 :
                  members'[c][i] = members[c][IF i < p THEN i ELSE i + 1]
             /\ conns'[c] = Free(conns[c], gone)
    BY PartFacts
  <1>2. conns[c] \in Seq(Chans) /\ Len(members[c]) \in Nat
    BY DEF Types, ClientTypes
  <1>3. /\ gone \in SUBSET (1 .. Len(conns[c]))
        /\ \A i \in (1 .. Len(conns[c])) \ gone :
             ~(/\ conns[c][i].user = members[c][p].user
               /\ conns[c][i].stay = members[c][p].stay)
    BY <1>2 DEF ChannelsOf
  <1> HIDE DEF u, p, gone
  <1>4. ASSUME Known(c, u) PROVE Held(c)'
    <2>1. PICK f \in [1 .. Len(conns'[c]) -> (1 .. Len(conns[c])) \ gone] :
            \A k \in DOMAIN f : conns'[c][k] = conns[c][f[k]]
      <3>1. \A i, j \in 1 .. Len(conns[c]) :
              conns[c][i].id = conns[c][j].id => i = j
        BY DEF IdsDiffer
      <3>2. \E f \in [1 .. Len(Free(conns[c], gone))
                       -> (1 .. Len(conns[c])) \ gone] :
              /\ \A i, j \in DOMAIN f : f[i] = f[j] => i = j
              /\ \A k \in DOMAIN f : Free(conns[c], gone)[k] = conns[c][f[k]]
        BY <1>2, <1>3, <3>1, FreeDistinct
      <3>3. conns'[c] = Free(conns[c], gone)
        BY <1>1, <1>4
      <3> QED BY <3>2, <3>3
    <2> SUFFICES ASSUME NEW k \in 1 .. Len(conns'[c])
                 PROVE  /\ ~conns'[c][k].freed
                        /\ \E j \in 1 .. Len(members'[c]) :
                             /\ members'[c][j].user = conns'[c][k].user
                             /\ members'[c][j].stay = conns'[c][k].stay
      BY DEF Held
    <2>2. f[k] \in (1 .. Len(conns[c])) \ gone /\ conns'[c][k] = conns[c][f[k]]
      BY <2>1
    <2> DEFINE i == f[k]
    <2> HIDE DEF i
    <2>3. i \in (1 .. Len(conns[c])) \ gone /\ conns'[c][k] = conns[c][i]
      BY <2>2 DEF i
    <2>4. ~conns[c][i].freed
      BY <2>3 DEF HeldInv, Held
    <2>5. PICK j \in 1 .. Len(members[c]) :
            /\ members[c][j].user = conns[c][i].user
            /\ members[c][j].stay = conns[c][i].stay
      BY <2>3 DEF HeldInv, Held
    <2>6. j # p
      BY <1>3, <2>3, <2>5
    <2>7. \E l \in 1 .. Len(members'[c]) : members'[c][l] = members[c][j]
      <3>1. CASE j < p
        <4>1. j \in 1 .. Len(members[c]) - 1
          BY <1>1, <1>2, <1>4, <3>1
        <4> QED BY <1>1, <1>4, <3>1, <4>1
      <3>2. CASE ~(j < p)
        <4>1. j - 1 \in 1 .. Len(members[c]) - 1 /\ ~(j - 1 < p) /\ (j - 1) + 1 = j
          BY <1>1, <1>2, <1>4, <2>6, <3>2
        <4>2. members'[c][j - 1] = members[c][(j - 1) + 1]
          BY <1>1, <1>4, <4>1
        <4> QED BY <1>1, <1>4, <4>1, <4>2
      <3> QED BY <3>1, <3>2
    <2> QED BY <2>3, <2>4, <2>5, <2>7
  <1>5. Kept(c) \/ Held(c)'
    BY <1>1, <1>4, KeptSame
  <1> QED BY <1>1, <1>5, KeptSame, HeldStep

LEMMA SwitchHeld ==
  ASSUME Types, NEW c \in Clients, NEW kind, SwitchVpn(c, kind)
  PROVE  \A d \in Clients : Kept(d)
  <1> DEFINE u == stream[c][1].user
             p == Find(c, u)
  <1>1. conns' = conns
    BY DEF SwitchVpn
  <1>2. /\ \A d \in Clients \ {c} : members'[d] = members[d]
        /\ ~Known(c, u) => members'[c] = members[c]
        /\ Known(c, u) =>
             /\ Len(members'[c]) = Len(members[c])
             /\ \A i \in 1 .. Len(members[c]) :
                  members'[c][i] =
                    IF i = p
                      THEN [members[c][i] EXCEPT !.vpn = (kind = "STARTVPN")]
                      ELSE members[c][i]
    BY SwitchFacts
  <1> HIDE DEF u, p
  <1>3. \A i \in 1 .. Len(members[c]) : members[c][i] \in Structs
    BY DEF Types, ClientTypes
  <1>4. Kept(c)
    <2>1. CASE ~Known(c, u)
      BY <1>1, <1>2, <2>1, KeptSame
    <2>2. CASE Known(c, u)
      <3>1. \A i \in 1 .. Len(members[c]) :
              /\ members'[c][i].user = members[c][i].user
              /\ members'[c][i].stay = members[c][i].stay
        BY <1>2, <1>3, <2>2 DEF Structs
      <3> QED BY <1>1, <1>2, <2>2, <3>1 DEF Kept
    <2> QED BY <2>1, <2>2
  <1> QED BY <1>1, <1>2, <1>4, KeptSame

LEMMA HelloHeld ==
  ASSUME Types, NEW c \in Clients, NEW u \in Clients,
         ReceiveReq(c, u) \/ ReceiveRep(c, u)
  PROVE  \A d \in Clients : Kept(d)
  <1>1. conns' = conns
    BY DEF ReceiveReq, ReceiveRep
  <1>2. \A i \in 1 .. Len(members[c]) : members[c][i] \in Structs
    BY DEF Types, ClientTypes
  <1>3. ASSUME NEW ok, Heard(c, u, ok)
        PROVE  Kept(c) /\ \A d \in Clients \ {c} : members'[d] = members[d]
    <2>1. ASSUME NEW i \in 1 .. Len(members[c])
          PROVE  /\ members'[c][i].user = members[c][i].user
                 /\ members'[c][i].stay = members[c][i].stay
      BY <1>2, <1>3 DEF Heard, Structs
    <2>2. Len(members'[c]) = Len(members[c])
          /\ \A d \in Clients \ {c} : members'[d] = members[d]
      BY <1>3 DEF Heard
    <2> QED BY <1>1, <2>1, <2>2 DEF Kept
  <1>4. Kept(c) /\ \A d \in Clients \ {c} : members'[d] = members[d]
    BY <1>3, HelloFacts
  <1> QED BY <1>1, <1>4, KeptSame

LEMMA FreeRoomHeld ==
  ASSUME Types, HeldInv, NEW c \in Clients, FreeRoom(c)
  PROVE  HeldInv'
  <1>1. /\ conns'[c] = << >>
        /\ \A d \in Clients \ {c} : members'[d] = members[d] /\ conns'[d] = conns[d]
    BY DEF FreeRoom, Types, ClientTypes
  <1>2. Held(c)'
    BY <1>1 DEF Held
  <1> QED BY <1>1, <1>2, KeptSame, HeldStep

\* A new channel is with a structure of the table.
LEMMA PutHeld ==
  ASSUME Types, HeldInv, NEW c \in Clients, NEW r \in ToSet(members[c]),
         NEW id, NEW opener, Put(c, Channel(id, r, opener)), members' = members
  PROVE  HeldInv'
  <1> DEFINE new == Channel(id, r, opener)
  <1>1. /\ new.freed = FALSE /\ new.user = r.user /\ new.stay = r.stay
    BY DEF Channel
  <1>2. conns' = [conns EXCEPT ![c] = <<new>> \o conns[c]]
    BY DEF Put, Types, ClientTypes
  <1> HIDE DEF new
  <1>3. PICK j \in 1 .. Len(members[c]) : r = members[c][j]
    <2>1. DOMAIN members[c] = 1 .. Len(members[c])
      BY DEF Types, ClientTypes
    <2> QED BY <2>1 DEF ToSet
  <1>4. conns[c] \in Seq(Chans) /\ conns \in [Clients -> Seq(Chans)]
    BY DEF Types, ClientTypes
  <1>5. /\ Len(<<new>> \o conns[c]) = Len(conns[c]) + 1
        /\ (<<new>> \o conns[c])[1] = new
        /\ \A i \in 2 .. Len(conns[c]) + 1 :
             (<<new>> \o conns[c])[i] = conns[c][i - 1]
    BY <1>4
  <1>6. conns'[c] = <<new>> \o conns[c]
        /\ \A d \in Clients \ {c} : conns'[d] = conns[d]
    BY <1>2, <1>4
  <1>7. Held(c)'
    <2> SUFFICES ASSUME NEW i \in 1 .. Len(conns'[c])
                 PROVE  /\ ~conns'[c][i].freed
                        /\ \E k \in 1 .. Len(members[c]) :
                             /\ members[c][k].user = conns'[c][i].user
                             /\ members[c][k].stay = conns'[c][i].stay
      BY DEF Held
    <2>1. CASE i = 1
      <3>1. conns'[c][i] = new
        BY <1>5, <1>6, <2>1
      <3> QED BY <1>1, <1>3, <3>1
    <2>2. CASE i # 1
      <3>1. i \in 2 .. Len(conns[c]) + 1 /\ i - 1 \in 1 .. Len(conns[c])
        BY <1>4, <1>5, <1>6, <2>2
      <3>2. conns'[c][i] = conns[c][i - 1]
        BY <1>5, <1>6, <3>1
      <3> QED BY <3>1, <3>2 DEF HeldInv, Held
    <2> QED BY <2>1, <2>2
  <1> QED BY <1>6, <1>7, KeptSame, HeldStep

LEMMA ReceiveInitConnHeld ==
  ASSUME Types, HeldInv, NEW c \in Clients, NEW msg \in net,
         ReceiveInitConn(c, msg)
  PROVE  HeldInv'
  <1>1. members' = members /\ msg.kind = "INITCONN"
    BY DEF ReceiveInitConn
  <1>2. CASE Known(c, msg.from)
    <2> DEFINE r == MemberFromId(c, msg.from)
    <2>1. Put(c, Channel(msg.id, r, msg.from))
      BY <1>2 DEF ReceiveInitConn
    <2>2. r \in ToSet(members[c])
      <3>1. members \in [Clients -> Seq(Structs)]
        BY DEF Types, ClientTypes
      <3>2. Find(c, msg.from) \in 1 .. Len(members[c])
        BY <1>2, <3>1, FindFacts
      <3>3. DOMAIN members[c] = 1 .. Len(members[c])
        BY <3>1
      <3> QED BY <3>2, <3>3 DEF MemberFromId, ToSet
    <2> HIDE DEF r
    <2> QED BY <1>1, <2>1, <2>2, PutHeld
  <1>3. CASE ~Known(c, msg.from)
    <2>1. conns' = conns
      BY <1>3 DEF ReceiveInitConn
    <2> QED BY <1>1, <2>1, KeptSame, HeldStep
  <1> QED BY <1>2, <1>3

LEMMA FreeConnHeld ==
  ASSUME Types, IdsDiffer, HeldInv, NEW c \in Clients, NEW i \in DOMAIN conns[c],
         FreeConn(c, i)
  PROVE  HeldInv'
  <1> DEFINE gone == {i}
  <1>1. conns[c] \in Seq(Chans) /\ conns \in [Clients -> Seq(Chans)]
    BY DEF Types, ClientTypes
  <1>2. /\ members' = members /\ conns'[c] = Free(conns[c], gone)
        /\ \A d \in Clients \ {c} : conns'[d] = conns[d]
    BY <1>1 DEF FreeConn
  <1>3. \A k, l \in 1 .. Len(conns[c]) : conns[c][k].id = conns[c][l].id => k = l
    BY DEF IdsDiffer
  <1>4. gone \in SUBSET (1 .. Len(conns[c]))
    BY <1>1
  <1> HIDE DEF gone
  <1>5. \E f \in [1 .. Len(Free(conns[c], gone)) -> (1 .. Len(conns[c])) \ gone] :
          /\ \A k, l \in DOMAIN f : f[k] = f[l] => k = l
          /\ \A k \in DOMAIN f : Free(conns[c], gone)[k] = conns[c][f[k]]
    <2>1. conns[c] \in Seq(Chans)
      BY <1>1
    <2> QED BY <1>3, <1>4, <2>1, FreeDistinct
  <1>6. PICK f \in [1 .. Len(conns'[c]) -> (1 .. Len(conns[c])) \ gone] :
          \A k \in DOMAIN f : conns'[c][k] = conns[c][f[k]]
    BY <1>2, <1>5
  <1>7. \A k \in 1 .. Len(conns'[c]) :
          f[k] \in 1 .. Len(conns[c]) /\ conns'[c][k] = conns[c][f[k]]
    BY <1>6
  <1>8. Kept(c)
    BY <1>2, <1>7 DEF Kept
  <1> QED BY <1>2, <1>8, KeptSame, HeldStep

LEMMA NextHeld ==
  ASSUME Types, IdsDiffer, HeldInv, [Next]_vars
  PROVE  HeldInv'
  <1>1. ASSUME NEW c \in Clients,
               \/ ServerJoin(c) \/ ServerPart(c) \/ ToggleVpn(c) \/ JoinRoom(c)
               \/ DoHello(c)
        PROVE  HeldInv'
    <2>1. members' = members /\ conns' = conns
      BY <1>1 DEF ServerJoin, ServerPart, ToggleVpn, JoinRoom, DoHello
    <2> QED BY <2>1, KeptSame, HeldStep
  <1>2. ASSUME NEW msg \in net, Lose(msg) PROVE HeldInv'
    <2>1. members' = members /\ conns' = conns
      BY <1>2 DEF Lose
    <2> QED BY <2>1, KeptSame, HeldStep
  <1>3. CASE UNCHANGED vars
    BY <1>3, KeptSame, HeldStep DEF vars
  <1>4. ASSUME NEW c \in Clients, NEW r \in ToSet(members[c]), Connect(c, r)
        PROVE  HeldInv'
    <2>1. /\ Put(c, Channel(NewConnId(opened[c]), r, c))
          /\ members' = members
      BY <1>4 DEF Connect
    <2> QED BY <2>1, PutHeld
  <1>5. ASSUME NEW c \in Clients,
               \/ Members(c) \/ Join(c)
               \/ \E kind \in {"STARTVPN", "STOPVPN"} : SwitchVpn(c, kind)
               \/ \E u \in Clients : ReceiveReq(c, u) \/ ReceiveRep(c, u)
        PROVE  HeldInv'
    <2>1. \A d \in Clients : Kept(d)
      BY <1>5, MembersHeld, JoinHeld, SwitchHeld, HelloHeld
    <2> QED BY <2>1, HeldStep
  <1>6. CASE Next
    BY <1>1, <1>2, <1>4, <1>5, <1>6, NextActions, FreeRoomHeld, PartHeld,
       ReceiveInitConnHeld, FreeConnHeld
  <1> QED BY <1>3, <1>6

LEMMA HeldFacts ==
  ASSUME Types, HeldInv
  PROVE  ConnsHaveMembers
  <1> SUFFICES ASSUME NEW c \in Clients, NEW i \in DOMAIN conns[c]
               PROVE  /\ ~conns[c][i].freed
                      /\ \E r \in ToSet(members[c]) :
                           r.user = conns[c][i].user /\ r.stay = conns[c][i].stay
    BY DEF ConnsHaveMembers
  <1>1. i \in 1 .. Len(conns[c]) /\ DOMAIN members[c] = 1 .. Len(members[c])
    BY DEF Types, ClientTypes
  <1>2. PICK j \in 1 .. Len(members[c]) :
          /\ members[c][j].user = conns[c][i].user
          /\ members[c][j].stay = conns[c][i].stay
    BY <1>1 DEF HeldInv, Held
  <1>3. members[c][j] \in ToSet(members[c])
    BY <1>1 DEF ToSet
  <1>4. ~conns[c][i].freed
    BY <1>1 DEF HeldInv, Held
  <1> QED BY <1>2, <1>3, <1>4

\* As long as no client has two channels with one ID, no channel outlives its
\* member and none that was freed stays in the connection table: PART,
\* do_conn_retrans and handle_initconn_msg keep the two tables together, in
\* whatever order the messages of the server and of the peers come.
THEOREM MembersOutliveConns == Spec /\ []IdsDiffer => []ConnsHaveMembers
  <1>1. Init => HeldInv
    BY DEF Init, HeldInv, Held
  <1>2. Types /\ IdsDiffer /\ HeldInv /\ [Next]_vars => HeldInv'
    BY NextHeld
  <1>3. Types /\ HeldInv => ConnsHaveMembers
    BY HeldFacts
  <1> QED BY <1>1, <1>2, <1>3, Invariance, PTL DEF Spec
=============================================================================
