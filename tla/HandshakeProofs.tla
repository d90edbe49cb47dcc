---------------------------- MODULE HandshakeProofs ----------------------------
(***************************************************************************)
(* Nobody gets a slot who was not cleared, and a challenge is that of one  *)
(* client on one server, in every table, slot and client that holds it:    *)
(* for all tables, clients, servers and times, however late the packets.   *)
(***************************************************************************)
EXTENDS Handshake, SharedLemmas

-----------------------------------------------------------------------------
(* The invariant *)

\* A number is in one row of one server, a row with a number belongs to a
\* client, and of the rows of a client at most one is open.
RowsInv ==
    /\ \A s \in Server, r \in 1 .. Rows :
          rows[s][r].number # 0 <=> rows[s][r].address \in Client
    /\ \A s, t \in Server : \A i, j \in 1 .. Rows :
          rows[s][i].number # 0 /\ rows[s][i].number = rows[t][j].number
             => s = t /\ i = j
    /\ \A s \in Server : \A i, j \in 1 .. Rows :
          /\ rows[s][i].number # 0 /\ rows[s][j].number # 0
          /\ rows[s][i].address = rows[s][j].address
          /\ ~rows[s][i].connected /\ ~rows[s][j].connected
         => i = j

\* Number n is a challenge that s gave away to c.
Given(n, s, c) ==
    /\ n # 0
    /\ \A t \in Server, r \in 1 .. Rows : rows[t][r].number = n =>
          t = s /\ rows[t][r].address = c /\ rows[t][r].cleared # "no"
    /\ \A t \in Server, k \in Slots : slots[t][k].challenge = n =>
          t = s /\ slots[t][k].who = c

GivenInv ==
    /\ \A m \in net : m.kind \in {"challengeResponse", "connect"} =>
          Given(m.number, m.server, m.client)
    /\ \A c \in Client :
          /\ client[c].state # "DISCONNECTED" => client[c].server \in Server
          /\ client[c].state \in {"CHALLENGING", "CONNECTED"} =>
                Given(client[c].challenge, client[c].server, c)

\* A slot has the challenge of no row but its own client's on its own server,
\* however long that row, or the slot, has been out of use.
SlotRows ==
    \A t \in Server, k \in Slots : slots[t][k].challenge # 0 =>
        \A u \in Server, r \in 1 .. Rows :
            rows[u][r].number = slots[t][k].challenge =>
               u = t /\ rows[u][r].address = slots[t][k].who

\* A client has one slot of a server in use at most.
SlotsInv ==
    \A s \in Server : \A k \in Slots :
        /\ slots[s][k].state # "FREE" => slots[s][k].who \in Client
        /\ slots[s][k].state = "LIVE" => slots[s][k].cleared # "no"
        /\ \A j \in Slots :
              /\ slots[s][j].state # "FREE" /\ slots[s][k].state # "FREE"
              /\ slots[s][j].who = slots[s][k].who
             => j = k

IInv == TypeOK /\ RowsInv /\ GivenInv /\ SlotRows /\ SlotsInv /\ FullBeforeLost

USE TablesAssumption, SecondsAssumption, PeopleAssumption

-----------------------------------------------------------------------------
(* Choices *)

LEMMA MinType ==
  ASSUME NEW S \in SUBSET Nat, S # {}
  PROVE  Min(S) \in S
BY LeastNumber DEF Min

LEMMA FreshType ==
  ASSUME Numbers \ InUse # {}
  PROVE  Fresh \in Numbers /\ Fresh # 0 /\ Fresh \notin InUse
<1>1. Numbers \ InUse \in SUBSET Nat
  BY DEF Numbers
<1>2. Fresh \in Numbers \ InUse
  BY <1>1, MinType DEF Fresh
<1>3. QED
  BY <1>2 DEF Numbers

LEMMA RowOfType ==
  ASSUME NEW s \in Server, NEW n, RowOf(s, n) # {}
  PROVE  Min(RowOf(s, n)) \in 1 .. Rows /\ rows[s][Min(RowOf(s, n))].number = n
<1>1. RowOf(s, n) \in SUBSET Nat
  BY DEF RowOf
<1>2. Min(RowOf(s, n)) \in RowOf(s, n)
  BY <1>1, MinType
<1>3. QED
  BY <1>2 DEF RowOf

LEMMA OpenType ==
  ASSUME NEW s \in Server, NEW c, Open(s, c) # {}
  PROVE  /\ Min(Open(s, c)) \in 1 .. Rows
         /\ rows[s][Min(Open(s, c))].address = c
         /\ ~rows[s][Min(Open(s, c))].connected
<1>1. Open(s, c) \in SUBSET Nat
  BY DEF Open
<1>2. Min(Open(s, c)) \in Open(s, c)
  BY <1>1, MinType
<1>3. QED
  BY <1>2 DEF Open

\* The slot that SV_DirectConnect chooses is the client's own, if it has one in
\* use, and not in use otherwise.
LEMMA ChoiceType ==
  ASSUME NEW s \in Server, NEW c, Choice(s, c) # {}
  PROVE  /\ Min(Choice(s, c)) \in Slots
         /\ \/ slots[s][Min(Choice(s, c))].who = c
            \/ \A k \in Slots : slots[s][k].who = c => slots[s][k].state = "FREE"
         /\ \A k \in Slots : slots[s][k].who = c /\ slots[s][k].state # "FREE"
               => slots[s][Min(Choice(s, c))].who = c
                  /\ slots[s][Min(Choice(s, c))].state # "FREE"
<1> DEFINE own == {k \in Earlier(s, c) : slots[s][k].state # "FREE"}
           free == {k \in Slots : slots[s][k].state = "FREE"}
<1>1. own \in SUBSET Nat /\ free \in SUBSET Nat /\ own \subseteq Slots
  BY DEF Earlier, Slots
<1>2. CASE own # {}
  <2>1. Min(own) \in own /\ Choice(s, c) = {Min(own)}
    BY <1>1, <1>2, MinType DEF Choice
  <2>2. Min(Choice(s, c)) = Min(own)
    <3>1. {Min(own)} \in SUBSET Nat
      BY <1>1, <2>1
    <3>2. QED
      BY <2>1, <3>1, MinType
  <2>3. QED
    BY <2>1, <2>2 DEF Earlier
<1>3. CASE own = {}
  <2>1. free # {} /\ Choice(s, c) = {Min(free)}
    BY <1>3 DEF Choice
  <2>2. Min(free) \in free
    BY <1>1, <2>1, MinType
  <2>3. Min(Choice(s, c)) = Min(free)
    <3>1. {Min(free)} \in SUBSET Nat
      BY <1>1, <2>2
    <3>2. QED
      BY <2>1, <3>1, MinType
  <2>4. \A k \in Slots : slots[s][k].who = c => slots[s][k].state = "FREE"
    BY <1>3 DEF Earlier
  <2>5. QED
    BY <2>2, <2>3, <2>4
<1>4. QED
  BY <1>2, <1>3

-----------------------------------------------------------------------------
(* Types *)

PacketRecord == [kind : {"getchallenge", "connect", "bye", "needcdkey",
                         "challengeResponse", "connectResponse", "error", "drop"},
                 client : Client, server : Server, number : Numbers \cup {0}]

LEMMA PacketType ==
  ASSUME NEW kind \in {"getchallenge", "connect", "bye", "needcdkey",
                       "challengeResponse", "connectResponse", "error", "drop"},
         NEW c \in Client, NEW s \in Server, NEW n \in Numbers \cup {0}
  PROVE  /\ Packet(kind, c, s, n) \in PacketRecord
         /\ Packet(kind, c, s, n).kind = kind
         /\ Packet(kind, c, s, n).client = c
         /\ Packet(kind, c, s, n).server = s
         /\ Packet(kind, c, s, n).number = n
BY DEF Packet, PacketRecord

LEMMA FarewellType ==
  ASSUME TypeOK, GivenInv, NEW c \in Client
  PROVE  /\ Farewell(c) \subseteq PacketRecord
         /\ \A m \in Farewell(c) : m.kind = "bye" /\ m.client = c
<1>1. CASE client[c].state = "CONNECTED"
  <2>1. client[c].server \in Server /\ client[c].challenge \in Numbers \cup {0}
    BY <1>1 DEF TypeOK, GivenInv, ClientRecord
  <2>2. Farewell(c) = {Packet("bye", c, client[c].server, client[c].challenge)}
    BY <1>1 DEF Farewell
  <2>3. QED
    BY <2>1, <2>2, PacketType
<1>2. CASE client[c].state # "CONNECTED"
  BY <1>2 DEF Farewell
<1>3. QED
  BY <1>1, <1>2

LEMMA RecordTypes ==
  /\ EmptyRow \in RowRecord
  /\ EmptySlot \in SlotRecord
  /\ \A n \in 0 .. MaxAttempts : Disconnected(n) \in ClientRecord
<1>1. EmptyRow \in RowRecord
  BY DEF EmptyRow, RowRecord, Clearances
<1>2. EmptySlot \in SlotRecord
  BY DEF EmptySlot, SlotRecord, Clearances
<1>3. \A n \in 0 .. MaxAttempts : Disconnected(n) \in ClientRecord
  BY DEF Disconnected, ClientRecord
<1>4. QED
  BY <1>1, <1>2, <1>3

LEMMA InitInv == Init => IInv
<1> SUFFICES ASSUME Init PROVE IInv
  OBVIOUS
<1>1. /\ \A c \in Client : client[c] = Disconnected(0)
      /\ \A s \in Server, r \in 1 .. Rows : rows[s][r] = EmptyRow
      /\ \A s \in Server, k \in Slots : slots[s][k] = EmptySlot
      /\ net = {} /\ asks = {}
  BY DEF Init
<1>2. TypeOK
  <2>1. client \in [Client -> ClientRecord]
    BY RecordTypes DEF Init
  <2>2. rows \in [Server -> [1 .. Rows -> RowRecord]]
    BY RecordTypes DEF Init
  <2>3. slots \in [Server -> [Slots -> SlotRecord]]
    BY RecordTypes DEF Init
  <2>4. QED
    BY <1>1, <2>1, <2>2, <2>3 DEF TypeOK
<1>3. RowsInv /\ FullBeforeLost
  BY <1>1 DEF RowsInv, FullBeforeLost, EmptyRow
<1>4. GivenInv
  BY <1>1 DEF GivenInv, Disconnected
<1>5. SlotsInv
  BY <1>1 DEF SlotsInv, EmptySlot
<1>6. SlotRows
  BY <1>1 DEF SlotRows, EmptySlot
<1>7. QED
  BY <1>2, <1>3, <1>4, <1>5, <1>6 DEF IInv

LEMMA Elements ==
  ASSUME TypeOK
  PROVE  /\ \A c \in Client : client[c] \in ClientRecord
         /\ \A s \in Server, r \in 1 .. Rows : rows[s][r] \in RowRecord
         /\ \A s \in Server, k \in Slots : slots[s][k] \in SlotRecord
BY DEF TypeOK

\* One record of a table changes.
LEMMA ClientType ==
  ASSUME TypeOK, NEW c \in Client, NEW new \in ClientRecord
  PROVE  [client EXCEPT ![c] = new] \in [Client -> ClientRecord]
BY DEF TypeOK

LEMMA RowType ==
  ASSUME TypeOK, NEW s \in Server, NEW r \in 1 .. Rows, NEW new \in RowRecord
  PROVE  [rows EXCEPT ![s][r] = new] \in [Server -> [1 .. Rows -> RowRecord]]
BY DEF TypeOK

LEMMA SlotType ==
  ASSUME TypeOK, NEW s \in Server, NEW k \in Slots, NEW new \in SlotRecord
  PROVE  [slots EXCEPT ![s][k] = new] \in [Server -> [Slots -> SlotRecord]]
BY DEF TypeOK

LEMMA ConnectType ==
  ASSUME TypeOK, GivenInv, NEW c \in Client, NEW s \in Server, Connect(c, s)
  PROVE  TypeOK'
<1> DEFINE new == [state |-> "CONNECTING", server |-> s, challenge |-> 0,
                   since |-> Resend, attempts |-> client[c].attempts + 1]
<1>1. new \in ClientRecord
  BY DEF ClientRecord, Connect, TypeOK
<1>2. client' \in [Client -> ClientRecord]
  BY <1>1, ClientType DEF Connect
<1>3. net' \subseteq PacketRecord
  BY FarewellType DEF Connect, TypeOK, PacketRecord
<1>4. QED
  BY <1>2, <1>3 DEF TypeOK, Connect, PacketRecord

LEMMA DisconnectType ==
  ASSUME TypeOK, GivenInv, NEW c \in Client, Disconnect(c)
  PROVE  TypeOK'
<1>1. Reset(c) \in ClientRecord
  BY RecordTypes DEF Reset, TypeOK, ClientRecord
<1>2. client' \in [Client -> ClientRecord]
  BY <1>1, ClientType DEF Disconnect
<1>3. net' \subseteq PacketRecord
  BY FarewellType DEF Disconnect, TypeOK, PacketRecord
<1>4. QED
  BY <1>2, <1>3 DEF TypeOK, Disconnect, PacketRecord

\* The packet CL_CheckForResend sends.
Request(c) == IF client[c].state = "CONNECTING"
                THEN Packet("getchallenge", c, client[c].server, 0)
                ELSE Packet("connect", c, client[c].server, client[c].challenge)

LEMMA ResendType ==
  ASSUME TypeOK, GivenInv, NEW c \in Client, CheckForResend(c)
  PROVE  TypeOK'
<1>1. client[c].server \in Server /\ client[c].challenge \in Numbers \cup {0}
  BY DEF CheckForResend, GivenInv, TypeOK, ClientRecord
<1>2. Request(c) \in PacketRecord
  BY <1>1, PacketType DEF Request
<1>3. net' = net \cup {Request(c)}
  BY DEF CheckForResend, Request
<1>4. client' \in [Client -> ClientRecord]
  <2>1. client' = [client EXCEPT ![c] = [client[c] EXCEPT !.since = 0]]
    BY DEF CheckForResend
  <2>2. [client[c] EXCEPT !.since = 0] \in ClientRecord
    <3>1. client[c] \in ClientRecord /\ 0 \in 0 .. Resend
      BY Elements
    <3>2. QED
      BY <3>1 DEF ClientRecord
  <2>3. QED
    BY <2>1, <2>2, ClientType
<1>5. QED
  BY <1>2, <1>3, <1>4 DEF TypeOK, CheckForResend, PacketRecord

LEMMA MessageType ==
  ASSUME TypeOK, NEW m \in net
  PROVE  /\ m \in PacketRecord
         /\ m.client \in Client /\ m.server \in Server /\ m.number \in Numbers \cup {0}
BY DEF TypeOK, PacketRecord

LEMMA ChallengeResponseType ==
  ASSUME TypeOK, NEW m \in net, ChallengeResponse(m.client, m)
  PROVE  TypeOK'
<1> DEFINE c == m.client
           new == IF client[c].state = "CONNECTING" THEN Answered(c, m) ELSE client[c]
<1>1. c \in Client /\ m.server \in Server /\ m.number \in Numbers \cup {0}
  BY MessageType
<1>2. new \in ClientRecord
  <2>1. client[c] \in ClientRecord /\ Resend \in 0 .. Resend
    BY <1>1, Elements
  <2>2. QED
    BY <1>1, <2>1 DEF ClientRecord, Answered
<1>3. client' = [client EXCEPT ![c] = new]
  BY <1>1 DEF ChallengeResponse
<1> HIDE DEF new
<1>4. client' \in [Client -> ClientRecord]
  BY <1>1, <1>2, <1>3, ClientType
<1>5. QED
  BY <1>4 DEF TypeOK, ChallengeResponse

LEMMA ConnectResponseType ==
  ASSUME TypeOK, NEW m \in net, ConnectResponse(m.client, m)
  PROVE  TypeOK'
<1> DEFINE c == m.client
<1>1. c \in Client /\ m.server \in Server
  BY MessageType
<1>2. CASE Acceptable(c, m)
  <2>1. client' = [client EXCEPT ![c] = [client[c] EXCEPT !.state = "CONNECTED",
                                                          !.since = 0]]
    BY <1>1, <1>2 DEF ConnectResponse, TypeOK
  <2>2. [client[c] EXCEPT !.state = "CONNECTED", !.since = 0] \in ClientRecord
    <3>1. client[c] \in ClientRecord /\ 0 \in 0 .. Resend
      BY <1>1, Elements
    <3>2. QED
      BY <3>1 DEF ClientRecord
  <2>3. client' \in [Client -> ClientRecord]
    BY <1>1, <2>1, <2>2, ClientType
  <2>4. \A k \in Slots : [slots[m.server][k] EXCEPT !.heard = TRUE] \in SlotRecord
    <3>1. \A k \in Slots : slots[m.server][k] \in SlotRecord
      BY <1>1, Elements
    <3>2. QED
      BY <3>1 DEF SlotRecord
  <2>5. slots' \in [Server -> [Slots -> SlotRecord]]
    <3> DEFINE table == [k \in Slots |->
                  IF slots[m.server][k].who = c
                    THEN [slots[m.server][k] EXCEPT !.heard = TRUE]
                    ELSE slots[m.server][k]]
    <3>1. slots' = [slots EXCEPT ![m.server] = table]
      BY <1>1, <1>2 DEF ConnectResponse, TypeOK
    <3>2. table \in [Slots -> SlotRecord]
      BY <1>1, <2>4, Elements
    <3> HIDE DEF table
    <3>3. QED
      BY <1>1, <3>1, <3>2 DEF TypeOK
  <2>6. QED
    BY <2>3, <2>5 DEF TypeOK, ConnectResponse
<1>3. CASE ~Acceptable(c, m)
  BY <1>3 DEF TypeOK, ConnectResponse
<1>4. QED
  BY <1>2, <1>3

LEMMA RefusalType ==
  ASSUME TypeOK, GivenInv, NEW m \in net, Refusal(m.client, m)
  PROVE  TypeOK'
<1> DEFINE c == m.client
<1>1. c \in Client
  BY MessageType
<1>2. Reset(c) \in ClientRecord
  BY <1>1, RecordTypes DEF Reset, TypeOK, ClientRecord
<1>3. client' \in [Client -> ClientRecord]
  <2>1. client' = [client EXCEPT ![c] = Reset(c)] \/ client' = client
    BY DEF Refusal
  <2>2. QED
    BY <1>1, <1>2, <2>1, ClientType DEF TypeOK
<1>4. net' \subseteq PacketRecord
  <2>1. net' \subseteq net \cup Farewell(c)
    BY DEF Refusal
  <2>2. QED
    BY <1>1, <2>1, FarewellType DEF TypeOK, PacketRecord
<1>5. QED
  BY <1>3, <1>4 DEF TypeOK, PacketRecord, Refusal

\* SV_GetChallenge, by its parts: the table with a row for the client, which
\* is the one it had or a new one at the end.
Table(s, c) == IF Open(s, c) # {} THEN rows[s] ELSE Renewed(s, c)
At(s, c) == IF Open(s, c) # {} THEN Min(Open(s, c)) ELSE Rows

LEMMA NewRowType ==
  ASSUME TypeOK, NEW c \in Client, Numbers \ InUse # {}
  PROVE  /\ NewRow(c) \in RowRecord
         /\ NewRow(c).number = Fresh /\ NewRow(c).address = c
         /\ ~NewRow(c).connected
<1>1. Fresh \in Numbers /\ EmptyRow \in RowRecord
  BY FreshType, RecordTypes
<1>2. QED
  BY <1>1 DEF NewRow, EmptyRow, RowRecord

LEMMA RenewedType ==
  ASSUME TypeOK, NEW c \in Client, NEW s \in Server, Numbers \ InUse # {}
  PROVE  /\ Renewed(s, c) \in [1 .. Rows -> RowRecord]
         /\ \A i \in 1 .. Rows : i # Rows => Renewed(s, c)[i] = rows[s][i + 1]
         /\ Renewed(s, c)[Rows] = NewRow(c)
<1>1. NewRow(c) \in RowRecord
  BY NewRowType
<1>2. \A i \in 1 .. Rows : i < Rows => rows[s][i + 1] \in RowRecord
  BY Elements
<1>3. Rows \in 1 .. Rows
  OBVIOUS
<1>4. QED
  BY <1>1, <1>2, <1>3 DEF Renewed

LEMMA TableType ==
  ASSUME TypeOK, RowsInv, NEW s \in Server, NEW c \in Client,
         Open(s, c) # {} \/ Numbers \ InUse # {}
  PROVE  /\ Table(s, c) \in [1 .. Rows -> RowRecord]
         /\ At(s, c) \in 1 .. Rows
         /\ Table(s, c)[At(s, c)].address = c
         /\ Table(s, c)[At(s, c)].number # 0
         /\ Table(s, c)[At(s, c)].number \in Numbers
         /\ ~Table(s, c)[At(s, c)].connected
         /\ \/ Open(s, c) # {} /\ Table(s, c) = rows[s]
            \/ /\ Open(s, c) = {} /\ At(s, c) = Rows
               /\ Fresh \in Numbers /\ Fresh # 0 /\ Fresh \notin InUse
               /\ \A i \in 1 .. Rows : i # Rows => Table(s, c)[i] = rows[s][i + 1]
               /\ Table(s, c)[Rows] = NewRow(c)
<1>1. CASE Open(s, c) # {}
  <2>1. Table(s, c) = rows[s] /\ At(s, c) = Min(Open(s, c))
    BY <1>1 DEF Table, At
  <2>2. /\ At(s, c) \in 1 .. Rows /\ rows[s][At(s, c)].address = c
        /\ ~rows[s][At(s, c)].connected
    BY <1>1, <2>1, OpenType
  <2>3. rows[s][At(s, c)].number # 0
    BY <2>2 DEF RowsInv
  <2>4. rows[s] \in [1 .. Rows -> RowRecord] /\ rows[s][At(s, c)] \in RowRecord
    BY <2>2 DEF TypeOK
  <2>5. rows[s][At(s, c)].number \in Numbers
    BY <2>3, <2>4 DEF RowRecord
  <2>6. QED
    BY <1>1, <2>1, <2>2, <2>3, <2>4, <2>5
<1>2. CASE Open(s, c) = {}
  <2>1. Table(s, c) = Renewed(s, c) /\ At(s, c) = Rows
    BY <1>2 DEF Table, At
  <2>2. Rows \in 1 .. Rows
    OBVIOUS
  <2>3. QED
    BY <1>2, <2>1, <2>2, RenewedType, NewRowType, FreshType
<1>3. QED
  BY <1>1, <1>2

\* What SV_GetChallenge does: it asks the authorize server, or gives the
\* number away.
Asks(s, m, table, r) ==
    /\ asks' = asks \cup {[server |-> s, number |-> table[r].number]}
    /\ rows' = [rows EXCEPT ![s] = table]
    /\ net' = net \ {m}

Gives(s, m, table, r, how) ==
    /\ rows' = [rows EXCEPT ![s] = [table EXCEPT
                                      ![r] = [table[r] EXCEPT !.cleared = how]]]
    /\ net' = (net \ {m}) \cup
                {Packet("challengeResponse", m.client, s, table[r].number)}
    /\ asks' = asks

LEMMA GetChallengeParts ==
  ASSUME TypeOK, RowsInv, NEW m \in net, GetChallenge(m.server, m)
  PROVE  LET c == m.client
             s == m.server
         IN  /\ Open(s, c) # {} \/ Numbers \ InUse # {}
             /\ \/ Asks(s, m, Table(s, c), At(s, c))
                \/ \E how \in Clearances \ {"no"} :
                      Gives(s, m, Table(s, c), At(s, c), how)
<1> DEFINE c == m.client
           s == m.server
           table == Table(s, c)
           r == At(s, c)
<1>1. c \in Client /\ s \in Server
  BY MessageType
<1>2. Open(s, c) # {} \/ Numbers \ InUse # {}
  BY DEF GetChallenge
<1>3. CASE ~AnswersAtOnce(c, table[r])
  BY <1>2, <1>3 DEF GetChallenge, Table, At, Asks
<1>4. CASE AnswersAtOnce(c, table[r])
  <2> DEFINE how == Clearance(c, table[r])
  <2>1. how \in Clearances \ {"no"}
    BY <1>4 DEF AnswersAtOnce, Clearance, Clearances
  <2>2. /\ rows' = [rows EXCEPT ![s] = [table EXCEPT ![r].cleared = how]]
        /\ net' = (net \ {m}) \cup {Packet("challengeResponse", c, s, table[r].number)}
        /\ asks' = asks
    BY <1>4 DEF GetChallenge, Table, At
  <2>3. table \in [1 .. Rows -> RowRecord]
    BY <1>1, <1>2, TableType
  <2> HIDE DEF how, table, r
  <2>4. [table EXCEPT ![r].cleared = how]
          = [table EXCEPT ![r] = [table[r] EXCEPT !.cleared = how]]
    BY <2>3
  <2>5. Gives(s, m, table, r, how)
    BY <2>2, <2>4 DEF Gives
  <2>6. QED
    BY <1>2, <2>1, <2>5 DEF table, r
<1>5. QED
  BY <1>3, <1>4

LEMMA GetChallengeType ==
  ASSUME TypeOK, RowsInv, NEW m \in net, GetChallenge(m.server, m)
  PROVE  TypeOK'
<1> DEFINE c == m.client
           s == m.server
           table == Table(s, c)
           r == At(s, c)
<1>1. c \in Client /\ s \in Server
  BY MessageType
<1>2. /\ table \in [1 .. Rows -> RowRecord] /\ r \in 1 .. Rows
      /\ table[r].number \in Numbers /\ table[r] \in RowRecord
  <2>1. /\ table \in [1 .. Rows -> RowRecord] /\ r \in 1 .. Rows
        /\ table[r].number \in Numbers
    BY <1>1, GetChallengeParts, TableType
  <2>2. QED
    BY <2>1
<1>3. client' = client /\ slots' = slots
  BY DEF GetChallenge
<1>4. CASE Asks(s, m, table, r)
  <2>1. rows' \in [Server -> [1 .. Rows -> RowRecord]]
    BY <1>1, <1>2, <1>4 DEF Asks, TypeOK
  <2>2. QED
    BY <1>1, <1>2, <1>3, <1>4, <2>1 DEF Asks, TypeOK
<1>5. ASSUME NEW how \in Clearances, Gives(s, m, table, r, how)
      PROVE  TypeOK'
  <2>1. [table[r] EXCEPT !.cleared = how] \in RowRecord
    BY <1>2 DEF RowRecord
  <2>2. [table EXCEPT ![r] = [table[r] EXCEPT !.cleared = how]]
           \in [1 .. Rows -> RowRecord]
    BY <1>2, <2>1
  <2>3. rows' \in [Server -> [1 .. Rows -> RowRecord]]
    BY <1>1, <1>5, <2>2 DEF Gives, TypeOK
  <2>4. Packet("challengeResponse", c, s, table[r].number) \in PacketRecord
    BY <1>1, <1>2, PacketType
  <2>5. net' \subseteq PacketRecord
    BY <1>5, <2>4 DEF Gives, TypeOK, PacketRecord
  <2>6. QED
    BY <1>3, <1>5, <2>3, <2>5 DEF Gives, TypeOK, PacketRecord
<1>6. QED
  BY <1>4, <1>5, GetChallengeParts

\* SV_AuthorizeIpPacket, by its parts.
Accepts(a, r) ==
    /\ rows' = [rows EXCEPT ![a.server][r] =
                  [rows[a.server][r] EXCEPT !.cleared = "accepted"]]
    /\ \/ net' = net
       \/ net' = net \cup {Packet("challengeResponse", rows[a.server][r].address,
                                  a.server, a.number)}

Refuses(a, r, kind) ==
    /\ rows' = [rows EXCEPT ![a.server] = Wiped(a.server, r)]
    /\ net' = net \cup {Packet(kind, rows[a.server][r].address, a.server, 0)}

LEMMA AuthorizeParts ==
  ASSUME TypeOK, RowsInv, NEW a \in asks, NEW verdict, AuthorizeIpPacket(a, verdict)
  PROVE  /\ asks' = asks \ {a} /\ client' = client /\ slots' = slots
         /\ a.server \in Server /\ a.number \in Numbers /\ a.number # 0
         /\ \/ rows' = rows /\ net' = net
            \/ \E r \in 1 .. Rows :
                  /\ rows[a.server][r].number = a.number
                  /\ rows[a.server][r].address \in Client
                  /\ \/ Accepts(a, r)
                     \/ \E kind \in {"error", "needcdkey"} : Refuses(a, r, kind)
<1> DEFINE s == a.server
           r == Min(RowOf(s, a.number))
<1>1. s \in Server /\ a.number \in Numbers /\ a.number # 0
  BY DEF TypeOK, Numbers
<1>2. asks' = asks \ {a} /\ client' = client /\ slots' = slots
  BY DEF AuthorizeIpPacket
<1>3. CASE RowOf(s, a.number) = {}
  BY <1>1, <1>2, <1>3 DEF AuthorizeIpPacket
<1>4. CASE RowOf(s, a.number) # {}
  <2>1. r \in 1 .. Rows /\ rows[s][r].number = a.number
    BY <1>1, <1>4, RowOfType
  <2>2. rows[s][r].address \in Client
    BY <1>1, <2>1 DEF RowsInv
  <2>3. CASE verdict = "accept"
    <3>1. /\ rows' = [rows EXCEPT ![s][r].cleared = "accepted"]
          /\ net' = IF rows[s][r].connected THEN net ELSE net \cup
                 {Packet("challengeResponse", rows[s][r].address, s, a.number)}
      BY <1>4, <2>3 DEF AuthorizeIpPacket
    <3>2. rows' = [rows EXCEPT ![s][r] = [rows[s][r] EXCEPT !.cleared = "accepted"]]
      BY <1>1, <2>1, <3>1 DEF TypeOK
    <3>3. Accepts(a, r)
      BY <3>1, <3>2 DEF Accepts
    <3>4. QED
      BY <1>1, <1>2, <2>1, <2>2, <3>3
  <2>4. CASE verdict # "accept"
    <3>1. \E kind \in {"error", "needcdkey"} : Refuses(a, r, kind)
      BY <1>4, <2>4 DEF AuthorizeIpPacket, Refuses
    <3>2. QED
      BY <1>1, <1>2, <2>1, <2>2, <3>1
  <2>5. QED
    BY <2>3, <2>4
<1>5. QED
  BY <1>3, <1>4

LEMMA WipedType ==
  ASSUME TypeOK, NEW s \in Server, NEW r \in 1 .. Rows
  PROVE  /\ Wiped(s, r) \in [1 .. Rows -> RowRecord]
         /\ Wiped(s, r)[1] = EmptyRow
         /\ \A i \in 1 .. Rows : i # 1 /\ i <= r => Wiped(s, r)[i] = rows[s][i - 1]
         /\ \A i \in 1 .. Rows : i > r => Wiped(s, r)[i] = rows[s][i]
<1>1. EmptyRow \in RowRecord
  BY RecordTypes
<1>2. \A i \in 1 .. Rows : rows[s][i] \in RowRecord
  BY Elements
<1>3. \A i \in 1 .. Rows : i # 1 => i - 1 \in 1 .. Rows
  OBVIOUS
<1>4. QED
  BY <1>1, <1>2, <1>3 DEF Wiped

LEMMA AuthorizeType ==
  ASSUME TypeOK, RowsInv, NEW a \in asks, NEW verdict, AuthorizeIpPacket(a, verdict)
  PROVE  TypeOK'
<1>1. /\ asks' = asks \ {a} /\ client' = client /\ slots' = slots
      /\ a.server \in Server /\ a.number \in Numbers
  BY AuthorizeParts
<1>2. CASE rows' = rows /\ net' = net
  BY <1>1, <1>2 DEF TypeOK
<1>3. ASSUME NEW r \in 1 .. Rows, rows[a.server][r].address \in Client,
             Accepts(a, r)
      PROVE  TypeOK'
  <2>1. [rows[a.server][r] EXCEPT !.cleared = "accepted"] \in RowRecord
    <3>1. rows[a.server][r] \in RowRecord
      BY <1>1, Elements
    <3>2. QED
      BY <3>1 DEF RowRecord, Clearances
  <2>2. rows' \in [Server -> [1 .. Rows -> RowRecord]]
    BY <1>1, <1>3, <2>1, RowType DEF Accepts
  <2>3. net' \subseteq PacketRecord
    BY <1>1, <1>3, PacketType DEF Accepts, TypeOK, PacketRecord
  <2>4. QED
    BY <1>1, <2>2, <2>3 DEF TypeOK, PacketRecord
<1>4. ASSUME NEW r \in 1 .. Rows, rows[a.server][r].address \in Client,
             NEW kind \in {"error", "needcdkey"}, Refuses(a, r, kind)
      PROVE  TypeOK'
  <2>1. rows' \in [Server -> [1 .. Rows -> RowRecord]]
    BY <1>1, <1>4, WipedType DEF Refuses, TypeOK
  <2>2. net' \subseteq PacketRecord
    BY <1>1, <1>4, PacketType DEF Refuses, TypeOK, PacketRecord
  <2>3. QED
    BY <1>1, <2>1, <2>2 DEF TypeOK, PacketRecord
<1>5. QED
  BY <1>2, <1>3, <1>4, AuthorizeParts

\* SV_DirectConnect, by its parts.
Admitted(s, m, r) ==
    [state |-> "LIVE", who |-> m.client, challenge |-> m.number, since |-> 0,
     gone |-> 0, heard |-> FALSE, cleared |-> rows[s][r].cleared]

Joins(m, r) ==
    rows' = [rows EXCEPT ![m.server][r] =
               [rows[m.server][r] EXCEPT !.connected = TRUE]]

Answers(m, kind) == net' = (net \ {m}) \cup {Packet(kind, m.client, m.server, 0)}

LEMMA DirectConnectParts ==
  ASSUME TypeOK, RowsInv, NEW m \in net, NEW verdict,
         DirectConnect(m.server, m, verdict)
  PROVE  /\ client' = client /\ asks' = asks
         /\ \/ rows' = rows /\ slots' = slots /\ net' = net \ {m}
            \/ rows' = rows /\ slots' = slots /\ Answers(m, "error")
            \/ \E r \in 1 .. Rows :
                  /\ rows[m.server][r].number = m.number
                  /\ rows[m.server][r].address = m.client
                  /\ Joins(m, r)
                  /\ \/ slots' = slots /\ Answers(m, "error")
                     \/ /\ Choice(m.server, m.client) # {}
                        /\ \/ /\ slots' = [slots EXCEPT ![m.server]
                                    [Min(Choice(m.server, m.client))] =
                                       [EmptySlot EXCEPT !.who = m.client]]
                              /\ Answers(m, "error")
                           \/ /\ slots' = [slots EXCEPT ![m.server]
                                    [Min(Choice(m.server, m.client))] =
                                       Admitted(m.server, m, r)]
                              /\ Answers(m, "connectResponse")
<1> DEFINE c == m.client
           s == m.server
           r == Min(RowOf(s, m.number))
           known == RowOf(s, m.number) # {} /\ rows[s][r].address = c
<1>1. c \in Client /\ s \in Server
  BY MessageType
<1>2. client' = client /\ asks' = asks
  BY DEF DirectConnect
<1>3. CASE TooSoon(s, c)
  BY <1>2, <1>3 DEF DirectConnect
<1>4. CASE ~TooSoon(s, c) /\ ~known
  BY <1>2, <1>4 DEF DirectConnect, Answers
<1>5. CASE ~TooSoon(s, c) /\ known
  <2>1. /\ r \in 1 .. Rows
        /\ rows[s][r].number = m.number
        /\ rows[s][r].address = c
    BY <1>1, <1>5, RowOfType
  <2>2. rows' = [rows EXCEPT ![s][r].connected = TRUE]
    BY <1>5 DEF DirectConnect
  <2>3. Joins(m, r)
    BY <1>1, <2>1, <2>2 DEF Joins, TypeOK
  <2>4. CASE verdict = "gate" \/ Choice(s, c) = {}
    <3>1. slots' = slots /\ Answers(m, "error")
      BY <1>5, <2>4 DEF DirectConnect, Answers
    <3>2. QED
      BY <1>2, <2>1, <2>3, <3>1
  <2>5. CASE ~(verdict = "gate" \/ Choice(s, c) = {}) /\ verdict = "game"
    <3>1. /\ slots' = [slots EXCEPT ![s][Min(Choice(s, c))] =
                          [EmptySlot EXCEPT !.who = c]]
          /\ Answers(m, "error")
      BY <1>5, <2>5 DEF DirectConnect, Answers
    <3>2. QED
      BY <1>2, <2>1, <2>3, <2>5, <3>1
  <2>6. CASE ~(verdict = "gate" \/ Choice(s, c) = {}) /\ verdict # "game"
    <3>1. /\ slots' = [slots EXCEPT ![s][Min(Choice(s, c))] = Admitted(s, m, r)]
          /\ Answers(m, "connectResponse")
      BY <1>5, <2>6 DEF DirectConnect, Answers, Admitted
    <3>2. QED
      BY <1>2, <2>1, <2>3, <2>6, <3>1
  <2>7. QED
    BY <2>4, <2>5, <2>6
<1>6. QED
  BY <1>3, <1>4, <1>5

LEMMA SlotTypes ==
  ASSUME TypeOK, NEW m \in net, NEW r \in 1 .. Rows
  PROVE  /\ Admitted(m.server, m, r) \in SlotRecord
         /\ [EmptySlot EXCEPT !.who = m.client] \in SlotRecord
<1>1. /\ m.client \in Client /\ m.server \in Server
      /\ m.number \in Numbers \cup {0}
  BY MessageType
<1>2. rows[m.server][r].cleared \in Clearances
  BY <1>1, Elements DEF RowRecord
<1>3. Admitted(m.server, m, r) \in SlotRecord
  BY <1>1, <1>2 DEF Admitted, SlotRecord
<1>4. [EmptySlot EXCEPT !.who = m.client] \in SlotRecord
  BY <1>1, RecordTypes DEF SlotRecord
<1>5. QED
  BY <1>3, <1>4

LEMMA DirectConnectType ==
  ASSUME TypeOK, RowsInv, NEW m \in net, NEW verdict,
         DirectConnect(m.server, m, verdict)
  PROVE  TypeOK'
<1> DEFINE c == m.client
           s == m.server
<1>1. c \in Client /\ s \in Server
  BY MessageType
<1>2. client' = client /\ asks' = asks
  BY DirectConnectParts
<1>3. net' \subseteq PacketRecord
  <2>1. Packet("error", c, s, 0) \in PacketRecord
        /\ Packet("connectResponse", c, s, 0) \in PacketRecord
    BY <1>1, PacketType
  <2>2. net' = net \ {m} \/ Answers(m, "error") \/ Answers(m, "connectResponse")
    BY DirectConnectParts
  <2>3. net \subseteq PacketRecord
    BY DEF TypeOK, PacketRecord
  <2>4. QED
    BY <2>1, <2>2, <2>3 DEF Answers
<1>4. rows' \in [Server -> [1 .. Rows -> RowRecord]]
  <2>1. ASSUME NEW r \in 1 .. Rows, Joins(m, r)
        PROVE  rows' \in [Server -> [1 .. Rows -> RowRecord]]
    <3>1. rows[s][r] \in RowRecord
      BY <1>1, Elements
    <3>2. [rows[s][r] EXCEPT !.connected = TRUE] \in RowRecord
      BY <3>1 DEF RowRecord
    <3>3. QED
      BY <1>1, <2>1, <3>2, RowType DEF Joins
  <2>2. CASE rows' = rows
    BY <2>2 DEF TypeOK
  <2>3. QED
    BY <2>1, <2>2, DirectConnectParts
<1>5. slots' \in [Server -> [Slots -> SlotRecord]]
  <2>1. CASE slots' = slots
    BY <2>1 DEF TypeOK
  <2>2. ASSUME NEW new \in SlotRecord, Choice(s, c) # {},
               slots' = [slots EXCEPT ![s][Min(Choice(s, c))] = new]
        PROVE  slots' \in [Server -> [Slots -> SlotRecord]]
    <3>1. Min(Choice(s, c)) \in Slots
      BY <1>1, <2>2, ChoiceType
    <3>2. QED
      BY <1>1, <2>2, <3>1, SlotType
  <2>3. QED
    BY <2>1, <2>2, SlotTypes, DirectConnectParts
<1>6. QED
  BY <1>2, <1>3, <1>4, <1>5 DEF TypeOK, PacketRecord

\* A slot becomes a zombie.
Fading(slot) == [slot EXCEPT !.state = "ZOMBIE", !.gone = 0, !.heard = FALSE]

LEMMA ZombieType ==
  ASSUME TypeOK, NEW s \in Server, NEW k \in Slots
  PROVE  /\ Zombie(s, k) = [slots EXCEPT ![s][k] = Fading(slots[s][k])]
         /\ Zombie(s, k) \in [Server -> [Slots -> SlotRecord]]
<1>1. slots[s][k] \in SlotRecord /\ 0 \in 0 .. ZombieTime
  BY Elements
<1>2. Fading(slots[s][k]) \in SlotRecord
  BY <1>1 DEF Fading, SlotRecord
<1>3. Zombie(s, k) = [slots EXCEPT ![s][k] = Fading(slots[s][k])]
  BY DEF Zombie, Fading, TypeOK
<1>4. QED
  BY <1>2, <1>3, SlotType

\* SV_PacketEvent with the client's "disconnect", by its parts.
LEMMA ByeParts ==
  ASSUME TypeOK, NEW m \in net, Bye(m.server, m)
  PROVE  /\ client' = client /\ asks' = asks /\ rows' = rows /\ net' = net \ {m}
         /\ \/ slots' = slots
            \/ \E k \in Slots : /\ slots[m.server][k].state = "LIVE"
                                /\ slots' = Zombie(m.server, k)
<1> DEFINE mine == {k \in Slots : /\ slots[m.server][k].state = "LIVE"
                                  /\ slots[m.server][k].who = m.client
                                  /\ slots[m.server][k].challenge = m.number}
<1>1. mine \in SUBSET Nat
  BY DEF Slots
<1>2. CASE mine = {}
  BY <1>2 DEF Bye
<1>3. CASE mine # {}
  <2>1. Min(mine) \in mine
    BY <1>1, <1>3, MinType
  <2>2. slots' = Zombie(m.server, Min(mine))
    BY <1>3 DEF Bye
  <2>3. QED
    BY <2>1, <2>2 DEF Bye
<1>4. QED
  BY <1>2, <1>3

LEMMA ByeType ==
  ASSUME TypeOK, NEW m \in net, Bye(m.server, m)
  PROVE  TypeOK'
<1>1. slots' \in [Server -> [Slots -> SlotRecord]]
  BY ByeParts, ZombieType, MessageType DEF TypeOK
<1>2. /\ client' = client /\ asks' = asks /\ rows' = rows /\ net' = net \ {m}
  BY ByeParts
<1>3. QED
  BY <1>1, <1>2 DEF TypeOK

LEMMA DropType ==
  ASSUME TypeOK, SlotsInv, NEW s \in Server, NEW k \in Slots, DropClient(s, k)
  PROVE  TypeOK'
<1>1. slots' \in [Server -> [Slots -> SlotRecord]]
  BY ZombieType DEF DropClient
<1>2. slots[s][k].who \in Client /\ slots[s][k].challenge \in Numbers \cup {0}
  <2>1. slots[s][k].who \in Client
    BY DEF SlotsInv, DropClient
  <2>2. QED
    BY <2>1, Elements DEF SlotRecord
<1>3. net' \subseteq PacketRecord
  BY <1>2, PacketType DEF DropClient, TypeOK, PacketRecord
<1>4. QED
  BY <1>1, <1>3 DEF DropClient, TypeOK, PacketRecord

\* One second, by its parts.
LEMMA AgedType ==
  ASSUME NEW slot \in SlotRecord
  PROVE  /\ Aged(slot) \in SlotRecord
         /\ Aged(slot).state = slot.state \/ Aged(slot).state = "FREE"
         /\ Aged(slot).who = slot.who /\ Aged(slot).challenge = slot.challenge
         /\ Aged(slot).heard = slot.heard /\ Aged(slot).cleared = slot.cleared
<1> DEFINE over == slot.state = "ZOMBIE" /\ slot.gone >= ZombieTime
           since == Older(slot.since, ReconnectLimit)
           gone == IF over \/ slot.state # "ZOMBIE" THEN 0 ELSE slot.gone + 1
           state == IF over THEN "FREE" ELSE slot.state
<1>1. since \in 0 .. ReconnectLimit
  BY DEF SlotRecord, Older
<1>2. gone \in 0 .. ZombieTime
  BY DEF SlotRecord
<1>3. state \in {"FREE", "ZOMBIE", "LIVE"} /\ (state = slot.state \/ state = "FREE")
  BY DEF SlotRecord
<1>4. Aged(slot) = [slot EXCEPT !.since = since, !.state = state, !.gone = gone]
  BY DEF Aged
<1> HIDE DEF since, gone, state
<1>5. QED
  BY <1>1, <1>2, <1>3, <1>4 DEF SlotRecord

LEMMA TickParts ==
  ASSUME TypeOK, Tick
  PROVE  /\ net' = net /\ asks' = asks
         /\ TypeOK'
         /\ \A c \in Client :
               /\ client'[c].state = client[c].state
               /\ client'[c].server = client[c].server
               /\ client'[c].challenge = client[c].challenge
               /\ client'[c].attempts = client[c].attempts
         /\ \A s \in Server, r \in 1 .. Rows :
               /\ rows'[s][r].number = rows[s][r].number
               /\ rows'[s][r].address = rows[s][r].address
               /\ rows'[s][r].connected = rows[s][r].connected
               /\ rows'[s][r].cleared = rows[s][r].cleared
         /\ \A s \in Server, k \in Slots : slots'[s][k] = Aged(slots[s][k])
<1>1. net' = net /\ asks' = asks
  BY DEF Tick
<1>2. ASSUME NEW c \in Client
      PROVE  /\ client'[c] \in ClientRecord
             /\ client'[c].state = client[c].state
             /\ client'[c].server = client[c].server
             /\ client'[c].challenge = client[c].challenge
             /\ client'[c].attempts = client[c].attempts
  <2>1. client[c] \in ClientRecord
    BY Elements
  <2>2. Older(client[c].since, Resend) \in 0 .. Resend
    BY <2>1 DEF Older, ClientRecord
  <2>3. client'[c] = client[c]
          \/ client'[c] = [client[c] EXCEPT !.since = Older(client[c].since, Resend)]
    BY DEF Tick
  <2>4. QED
    BY <2>1, <2>2, <2>3 DEF ClientRecord
<1>3. ASSUME NEW s \in Server, NEW r \in 1 .. Rows
      PROVE  /\ rows'[s][r] \in RowRecord
             /\ rows'[s][r].number = rows[s][r].number
             /\ rows'[s][r].address = rows[s][r].address
             /\ rows'[s][r].connected = rows[s][r].connected
             /\ rows'[s][r].cleared = rows[s][r].cleared
  <2>1. rows[s][r] \in RowRecord
    BY Elements
  <2>2. Older(rows[s][r].asked, AuthTimeout + 1) \in 0 .. AuthTimeout + 1
    BY <2>1 DEF Older, RowRecord
  <2>3. rows'[s][r] = rows[s][r]
          \/ rows'[s][r] = [rows[s][r] EXCEPT
                              !.asked = Older(rows[s][r].asked, AuthTimeout + 1)]
    BY DEF Tick
  <2>4. QED
    BY <2>1, <2>2, <2>3 DEF RowRecord
<1>4. \A s \in Server, k \in Slots : slots'[s][k] = Aged(slots[s][k])
  BY DEF Tick
<1>5. TypeOK'
  <2>1. client' \in [Client -> ClientRecord]
    BY <1>2 DEF Tick
  <2>2. rows' \in [Server -> [1 .. Rows -> RowRecord]]
    BY <1>3 DEF Tick
  <2>3. slots' \in [Server -> [Slots -> SlotRecord]]
    BY <1>4, AgedType, Elements DEF Tick
  <2>4. QED
    BY <1>1, <2>1, <2>2, <2>3 DEF TypeOK
<1>6. QED
  BY <1>1, <1>2, <1>3, <1>4, <1>5

LEMMA LossType ==
  ASSUME TypeOK, (\E m \in net : Lose(m)) \/ (\E a \in asks : Silent(a))
  PROVE  TypeOK'
<1>1. /\ client' = client /\ rows' = rows /\ slots' = slots
      /\ net' \subseteq net /\ asks' \subseteq asks
  BY DEF Lose, Silent
<1>2. QED
  BY <1>1 DEF TypeOK

-----------------------------------------------------------------------------
(* The challenge table, step by step *)

\* Rows with number n were there before, and stay cleared.
Keeps(n) ==
    \A t \in Server, i \in 1 .. Rows : rows'[t][i].number = n =>
        \E j \in 1 .. Rows :
            /\ rows[t][j].number = n
            /\ rows[t][j].address = rows'[t][i].address
            /\ rows[t][j].cleared # "no" => rows'[t][i].cleared # "no"

RowsKept == \A n \in InUse : n # 0 => Keeps(n)

LEMMA SameRows ==
  ASSUME rows' = rows, RowsInv, FullBeforeLost
  PROVE  RowsInv' /\ FullBeforeLost' /\ RowsKept
<1>1. RowsInv' /\ FullBeforeLost'
  BY DEF RowsInv, FullBeforeLost
<1>2. RowsKept
  BY DEF RowsKept, Keeps
<1>3. QED
  BY <1>1, <1>2

\* Only flags of rows change.
LEMMA FlaggedRows ==
  ASSUME RowsInv, FullBeforeLost,
         \A s \in Server, r \in 1 .. Rows :
            /\ rows'[s][r].number = rows[s][r].number
            /\ rows'[s][r].address = rows[s][r].address
            /\ rows[s][r].connected => rows'[s][r].connected
            /\ rows[s][r].cleared # "no" => rows'[s][r].cleared # "no"
  PROVE  RowsInv' /\ FullBeforeLost' /\ RowsKept
<1>1. RowsInv'
  BY DEF RowsInv
<1>2. FullBeforeLost'
  BY DEF FullBeforeLost
<1>3. RowsKept
  BY DEF RowsKept, Keeps
<1>4. QED
  BY <1>1, <1>2, <1>3

LEMMA JoinedRows ==
  ASSUME TypeOK, RowsInv, FullBeforeLost, NEW m \in net, NEW r \in 1 .. Rows, Joins(m, r)
  PROVE  RowsInv' /\ FullBeforeLost' /\ RowsKept
<1>1. \A s \in Server, i \in 1 .. Rows :
         rows'[s][i] = rows[s][i]
           \/ rows'[s][i] = [rows[s][i] EXCEPT !.connected = TRUE]
  BY MessageType DEF Joins, TypeOK
<1>2. \A s \in Server, i \in 1 .. Rows :
         /\ rows'[s][i].number = rows[s][i].number
         /\ rows'[s][i].address = rows[s][i].address
         /\ rows[s][i].connected => rows'[s][i].connected
         /\ rows[s][i].cleared # "no" => rows'[s][i].cleared # "no"
  <2>1. \A s \in Server, i \in 1 .. Rows : rows[s][i] \in RowRecord
    BY Elements
  <2>2. \A row \in RowRecord :
           LET new == [row EXCEPT !.connected = TRUE]
           IN  /\ new.number = row.number /\ new.address = row.address
               /\ new.connected /\ new.cleared = row.cleared
    BY DEF RowRecord
  <2>3. SUFFICES ASSUME NEW s \in Server, NEW i \in 1 .. Rows
                  PROVE  /\ rows'[s][i].number = rows[s][i].number
                         /\ rows'[s][i].address = rows[s][i].address
                         /\ rows[s][i].connected => rows'[s][i].connected
                         /\ rows[s][i].cleared # "no" => rows'[s][i].cleared # "no"
    OBVIOUS
  <2>4. CASE rows'[s][i] = rows[s][i]
    BY <2>4
  <2>5. CASE rows'[s][i] = [rows[s][i] EXCEPT !.connected = TRUE]
    <3> DEFINE row == rows[s][i]
    <3>1. row \in RowRecord
      BY <2>1
    <3> HIDE DEF row
    <3>2. LET new == [row EXCEPT !.connected = TRUE]
         IN  /\ new.number = row.number /\ new.address = row.address
             /\ new.connected /\ new.cleared = row.cleared
      BY <2>2, <3>1
    <3>3. QED
      BY <2>5, <3>2 DEF row
  <2>6. QED
    BY <1>1, <2>4, <2>5
<1>3. QED
  BY <1>2, FlaggedRows

LEMMA AcceptedRows ==
  ASSUME TypeOK, RowsInv, FullBeforeLost, NEW a \in asks, NEW r \in 1 .. Rows,
         a.server \in Server, Accepts(a, r)
  PROVE  /\ RowsInv' /\ FullBeforeLost' /\ RowsKept
         /\ rows'[a.server][r].cleared # "no"
         /\ \A s \in Server, i \in 1 .. Rows :
               /\ rows'[s][i].number = rows[s][i].number
               /\ rows'[s][i].address = rows[s][i].address
               /\ rows'[s][i].connected = rows[s][i].connected
<1>1. /\ \A s \in Server, i \in 1 .. Rows :
            rows'[s][i] = rows[s][i]
              \/ rows'[s][i] = [rows[s][i] EXCEPT !.cleared = "accepted"]
      /\ rows'[a.server][r] = [rows[a.server][r] EXCEPT !.cleared = "accepted"]
  BY DEF Accepts, TypeOK
<1>2. \A s \in Server, i \in 1 .. Rows :
         /\ rows'[s][i].number = rows[s][i].number
         /\ rows'[s][i].address = rows[s][i].address
         /\ rows'[s][i].connected = rows[s][i].connected
         /\ rows[s][i].cleared # "no" => rows'[s][i].cleared # "no"
  <2>1. \A s \in Server, i \in 1 .. Rows : rows[s][i] \in RowRecord
    BY Elements
  <2>2. \A row \in RowRecord :
           LET new == [row EXCEPT !.cleared = "accepted"]
           IN  /\ new.number = row.number /\ new.address = row.address
               /\ new.cleared # "no" /\ new.connected = row.connected
    BY DEF RowRecord
  <2>3. SUFFICES ASSUME NEW s \in Server, NEW i \in 1 .. Rows
                  PROVE  /\ rows'[s][i].number = rows[s][i].number
                         /\ rows'[s][i].address = rows[s][i].address
                         /\ rows'[s][i].connected = rows[s][i].connected
                         /\ rows[s][i].cleared # "no" => rows'[s][i].cleared # "no"
    OBVIOUS
  <2>4. CASE rows'[s][i] = rows[s][i]
    BY <2>4
  <2>5. CASE rows'[s][i] = [rows[s][i] EXCEPT !.cleared = "accepted"]
    <3> DEFINE row == rows[s][i]
    <3>1. row \in RowRecord
      BY <2>1
    <3> HIDE DEF row
    <3>2. LET new == [row EXCEPT !.cleared = "accepted"]
         IN  /\ new.number = row.number /\ new.address = row.address
             /\ new.cleared # "no" /\ new.connected = row.connected
      BY <2>2, <3>1
    <3>3. QED
      BY <2>5, <3>2 DEF row
  <2>6. QED
    BY <1>1, <2>4, <2>5
<1>3. rows'[a.server][r].cleared # "no"
  BY <1>1, Elements DEF RowRecord
<1>4. QED
  BY <1>2, <1>3, FlaggedRows

\* The row that the authorize server refused goes, the older ones move up.
LEMMA RefusedRows ==
  ASSUME TypeOK, RowsInv, FullBeforeLost, NEW a \in asks, NEW r \in 1 .. Rows,
         a.server \in Server, NEW kind, Refuses(a, r, kind)
  PROVE  /\ RowsInv' /\ FullBeforeLost' /\ RowsKept
         /\ \A t \in Server : t # a.server => rows'[t] = rows[t]
         /\ \A i \in 1 .. Rows : rows'[a.server][i] = EmptyRow
               \/ \E j \in 1 .. Rows : j # r /\ rows'[a.server][i] = rows[a.server][j]
<1> DEFINE s == a.server
           new == rows'[s]
           old == rows[s]
<1>1. \A t \in Server : t # s => rows'[t] = rows[t]
  BY DEF Refuses, TypeOK
<1>2. /\ new[1] = EmptyRow
      /\ \A i \in 1 .. Rows : i # 1 /\ i <= r => new[i] = old[i - 1]
      /\ \A i \in 1 .. Rows : i > r => new[i] = old[i]
  <2>1. new = Wiped(s, r)
    BY DEF Refuses, TypeOK
  <2>2. QED
    BY <2>1, WipedType
<1>3. EmptyRow.number = 0 /\ EmptyRow.address \notin Client
  BY DEF EmptyRow
<1> HIDE DEF new, old
\* Where the row at i comes from.
<1> DEFINE from(i) == IF i <= r THEN i - 1 ELSE i
<1>4. ASSUME NEW i \in 1 .. Rows
      PROVE  /\ new[i] = EmptyRow \/ (from(i) \in 1 .. Rows /\ from(i) # r
                                      /\ new[i] = old[from(i)])
             /\ \A j \in 1 .. Rows : from(i) = from(j) => i = j \/ new[i] = EmptyRow
                                                              \/ new[j] = EmptyRow
  BY <1>2
<1>5. \A i \in 1 .. Rows : new[i].number # 0 =>
         from(i) \in 1 .. Rows /\ from(i) # r /\ new[i] = old[from(i)]
  BY <1>3, <1>4
<1>6. \A i, j \in 1 .. Rows : new[i].number # 0 /\ new[j].number # 0
                                 /\ from(i) = from(j) => i = j
  BY <1>3, <1>4
<1>7. \A i \in 1 .. Rows : new[i] = EmptyRow
         \/ \E j \in 1 .. Rows : j # r /\ new[i] = old[j]
  BY <1>4
<1>8. FullBeforeLost'
  <2>1. ASSUME NEW i \in 1 .. Rows, NEW j \in 1 .. Rows, i < j, new[j].number = 0
        PROVE  new[i].number = 0
    <3>1. CASE i = 1
      BY <1>2, <1>3, <3>1
    <3>2. CASE i # 1
      <4>1. from(i) \in 1 .. Rows /\ from(j) \in 1 .. Rows /\ from(i) < from(j)
            /\ new[i] = old[from(i)] /\ new[j] = old[from(j)]
        BY <1>2, <2>1, <3>2
      <4> HIDE DEF from
      <4>2. QED
        BY <2>1, <4>1 DEF FullBeforeLost, old
    <3>3. QED
      BY <3>1, <3>2
  <2>2. QED
    BY <1>1, <2>1 DEF FullBeforeLost, new
<1> HIDE DEF from
<1>9. RowsInv'
  <2>1. \A t \in Server, i \in 1 .. Rows :
           rows'[t][i].number # 0 <=> rows'[t][i].address \in Client
    <3>1. \A i \in 1 .. Rows : new[i].number # 0 <=> new[i].address \in Client
      BY <1>3, <1>7 DEF RowsInv, old
    <3>2. QED
      BY <1>1, <3>1 DEF RowsInv, new
  <2>2. ASSUME NEW t \in Server, NEW u \in Server,
               NEW i \in 1 .. Rows, NEW j \in 1 .. Rows,
               rows'[t][i].number # 0, rows'[t][i].number = rows'[u][j].number
        PROVE  t = u /\ i = j
    <3>1. \E x \in 1 .. Rows : rows'[t][i] = rows[t][x] /\ (t # s => x = i)
                               /\ (t = s => x = from(i))
      BY <1>1, <1>5, <2>2 DEF new, old
    <3>2. \E y \in 1 .. Rows : rows'[u][j] = rows[u][y] /\ (u # s => y = j)
                               /\ (u = s => y = from(j))
      BY <1>1, <1>5, <2>2 DEF new, old
    <3>3. t = u /\ (t # s => i = j) /\ (t = s => from(i) = from(j))
      BY <2>2, <3>1, <3>2 DEF RowsInv
    <3>4. QED
      BY <1>6, <2>2, <3>3 DEF new
  <2>3. ASSUME NEW t \in Server, NEW i \in 1 .. Rows, NEW j \in 1 .. Rows,
               rows'[t][i].number # 0, rows'[t][j].number # 0,
               rows'[t][i].address = rows'[t][j].address,
               ~rows'[t][i].connected, ~rows'[t][j].connected
        PROVE  i = j
    <3>1. CASE t # s
      BY <1>1, <2>3, <3>1 DEF RowsInv
    <3>2. CASE t = s
      <4>1. /\ from(i) \in 1 .. Rows /\ new[i] = old[from(i)]
            /\ from(j) \in 1 .. Rows /\ new[j] = old[from(j)]
        BY <1>5, <2>3, <3>2 DEF new
      <4>2. from(i) = from(j)
        BY <2>3, <3>2, <4>1 DEF RowsInv, new, old
      <4>3. QED
        BY <1>6, <2>3, <3>2, <4>2 DEF new
    <3>3. QED
      BY <3>1, <3>2
  <2>4. QED
    BY <2>1, <2>2, <2>3 DEF RowsInv
<1>10. RowsKept
  <2>1. ASSUME NEW n, n # 0 PROVE Keeps(n)
    <3>1. \A i \in 1 .. Rows : new[i].number = n =>
             \E j \in 1 .. Rows : new[i] = old[j]
      BY <1>3, <1>7, <2>1
    <3>2. QED
      BY <1>1, <3>1 DEF Keeps, new, old
  <2>2. QED
    BY <2>1 DEF RowsKept
<1>11. QED
  BY <1>1, <1>7, <1>8, <1>9, <1>10 DEF new, old

\* What SV_GetChallenge makes of the table: the row for the client is known or
\* new, and a new one moves the others up.
Challenged(s, c, r) ==
    \/ /\ r \in 1 .. Rows /\ Open(s, c) # {}
       /\ \A i \in 1 .. Rows :
             /\ rows'[s][i].number = rows[s][i].number
             /\ rows'[s][i].address = rows[s][i].address
             /\ rows'[s][i].connected = rows[s][i].connected
             /\ rows[s][i].cleared # "no" => rows'[s][i].cleared # "no"
    \/ /\ r = Rows /\ Open(s, c) = {}
       /\ Fresh \in Numbers /\ Fresh # 0 /\ Fresh \notin InUse
       /\ \A i \in 1 .. Rows : i # Rows => rows'[s][i] = rows[s][i + 1]
       /\ rows'[s][Rows].number = Fresh /\ rows'[s][Rows].address = c
       /\ ~rows'[s][Rows].connected

LEMMA ChallengedParts ==
  ASSUME TypeOK, RowsInv, NEW m \in net, GetChallenge(m.server, m)
  PROVE  LET c == m.client
             s == m.server
             r == At(s, c)
         IN  /\ client' = client /\ slots' = slots
             /\ r \in 1 .. Rows /\ rows'[s][r].number \in Numbers
             /\ rows'[s][r].number # 0 /\ rows'[s][r].address = c
             /\ Challenged(s, c, r)
             /\ \A t \in Server : t # s => rows'[t] = rows[t]
             /\ \/ /\ asks' = asks \cup {[server |-> s, number |-> rows'[s][r].number]}
                   /\ net' = net \ {m}
                \/ /\ rows'[s][r].cleared # "no"
                   /\ net' = (net \ {m}) \cup
                        {Packet("challengeResponse", c, s, rows'[s][r].number)}
                   /\ asks' = asks
<1> DEFINE c == m.client
           s == m.server
           r == At(s, c)
           table == Table(s, c)
<1>1. c \in Client /\ s \in Server
  BY MessageType
<1>2. /\ table \in [1 .. Rows -> RowRecord]
      /\ r \in 1 .. Rows
      /\ table[r].address = c
      /\ table[r].number # 0
      /\ table[r].number \in Numbers
      /\ \/ Open(s, c) # {} /\ table = rows[s]
         \/ /\ Open(s, c) = {} /\ r = Rows
            /\ Fresh \in Numbers /\ Fresh # 0 /\ Fresh \notin InUse
            /\ \A i \in 1 .. Rows : i # Rows => table[i] = rows[s][i + 1]
            /\ table[Rows] = NewRow(c)
  BY <1>1, GetChallengeParts, TableType
<1>3. Open(s, c) = {} =>
         /\ NewRow(c).number = Fresh /\ NewRow(c).address = c
         /\ ~NewRow(c).connected
  BY <1>1, GetChallengeParts, NewRowType
<1>4. client' = client /\ slots' = slots
  BY DEF GetChallenge
<1>5. Asks(s, m, table, r) \/ \E how \in Clearances \ {"no"} : Gives(s, m, table, r, how)
  BY GetChallengeParts
<1> HIDE DEF table, r
<1>6. \A t \in Server : t # s => rows'[t] = rows[t]
  BY <1>5 DEF Asks, Gives, TypeOK
<1>7. CASE Asks(s, m, table, r)
  <2>1. rows'[s] = table
    BY <1>1, <1>7 DEF Asks, TypeOK
  <2>2. Challenged(s, c, r)
    BY <1>2, <1>3, <2>1 DEF Challenged
  <2>3. QED
    BY <1>2, <1>4, <1>6, <1>7, <2>1, <2>2 DEF Asks, r
<1>8. ASSUME NEW how \in Clearances \ {"no"}, Gives(s, m, table, r, how)
      PROVE  /\ Challenged(s, c, r)
             /\ rows'[s][r].number = table[r].number
             /\ rows'[s][r].address = c
             /\ rows'[s][r].cleared # "no"
  <2> DEFINE row == [table[r] EXCEPT !.cleared = how]
  <2>1. /\ row.number = table[r].number /\ row.address = table[r].address
        /\ row.connected = table[r].connected
        /\ row.cleared # "no"
    <3>1. table[r] \in RowRecord
      BY <1>2
    <3>2. QED
      BY <3>1 DEF RowRecord
  <2>2. rows'[s] = [table EXCEPT ![r] = row]
    BY <1>1, <1>8 DEF Gives, TypeOK
  <2> HIDE DEF row
  <2>3. /\ rows'[s][r] = row
        /\ \A i \in 1 .. Rows : i # r => rows'[s][i] = table[i]
    BY <1>2, <2>2
  <2>4. Challenged(s, c, r)
    <3>1. CASE Open(s, c) # {}
      BY SMTT(20), <1>2, <2>1, <2>3, <3>1 DEF Challenged
    <3>2. CASE Open(s, c) = {}
      BY <1>2, <1>3, <2>1, <2>3, <3>2 DEF Challenged
    <3>3. QED
      BY <3>1, <3>2
  <2>5. QED
    BY <1>2, <2>1, <2>3, <2>4
<1>9. ASSUME NEW how \in Clearances \ {"no"}, Gives(s, m, table, r, how)
      PROVE  /\ net' = (net \ {m}) \cup
                   {Packet("challengeResponse", c, s, table[r].number)}
             /\ asks' = asks
  BY <1>9 DEF Gives
<1>10. QED
  BY <1>2, <1>4, <1>5, <1>6, <1>7, <1>8, <1>9 DEF r

LEMMA ChallengedRows ==
  ASSUME TypeOK, RowsInv, FullBeforeLost, NEW s \in Server, NEW c \in Client, NEW r,
         Challenged(s, c, r), \A t \in Server : t # s => rows'[t] = rows[t]
  PROVE  RowsInv' /\ FullBeforeLost' /\ RowsKept
<1>1. CASE Open(s, c) # {}
  <2>1. \A t \in Server, i \in 1 .. Rows :
           /\ rows'[t][i].number = rows[t][i].number
           /\ rows'[t][i].address = rows[t][i].address
           /\ rows[t][i].connected => rows'[t][i].connected
           /\ rows[t][i].cleared # "no" => rows'[t][i].cleared # "no"
    BY <1>1 DEF Challenged
  <2>2. QED
    BY <2>1, FlaggedRows
<1>2. CASE Open(s, c) = {}
  <2> DEFINE new == rows'[s]
             old == rows[s]
  <2>1. /\ \A i \in 1 .. Rows : i # Rows => i + 1 \in 1 .. Rows /\ new[i] = old[i + 1]
        /\ new[Rows].number = Fresh /\ new[Rows].address = c
        /\ Fresh # 0 /\ Rows \in 1 .. Rows /\ Fresh \notin InUse
    BY <1>2 DEF Challenged
  <2>2. \A t \in Server, i \in 1 .. Rows : rows[t][i].number # Fresh
    BY <2>1 DEF InUse
  <2>3. \A i \in 1 .. Rows : old[i].address = c => old[i].connected
    BY <1>2 DEF Open
  <2> HIDE DEF new, old
  <2>4. FullBeforeLost'
    <3>1. ASSUME NEW i \in 1 .. Rows, NEW j \in 1 .. Rows, i < j, new[j].number = 0
          PROVE  new[i].number = 0
      <4>1. /\ i + 1 \in 1 .. Rows /\ j + 1 \in 1 .. Rows /\ i + 1 < j + 1
            /\ new[i] = old[i + 1] /\ new[j] = old[j + 1]
        BY <2>1, <3>1
      <4>2. QED
        BY <3>1, <4>1 DEF FullBeforeLost, old
    <3>2. QED
      BY <3>1 DEF FullBeforeLost, new
  <2>5. RowsInv'
    <3>1. \A t \in Server, i \in 1 .. Rows :
             rows'[t][i].number # 0 <=> rows'[t][i].address \in Client
      <4>1. \A i \in 1 .. Rows : new[i].number # 0 <=> new[i].address \in Client
        BY <2>1 DEF RowsInv, old
      <4>2. QED
        BY <4>1 DEF RowsInv, new
    <3>2. ASSUME NEW t \in Server, NEW u \in Server,
                 NEW i \in 1 .. Rows, NEW j \in 1 .. Rows,
                 rows'[t][i].number # 0, rows'[t][i].number = rows'[u][j].number
          PROVE  t = u /\ i = j
      <4>1. \/ t = s /\ i = Rows /\ rows'[t][i].number = Fresh
            \/ \E x \in 1 .. Rows : rows'[t][i] = rows[t][x] /\ (t # s => x = i)
                                    /\ (t = s => x = i + 1)
        BY <2>1 DEF new, old
      <4>2. \/ u = s /\ j = Rows /\ rows'[u][j].number = Fresh
            \/ \E y \in 1 .. Rows : rows'[u][j] = rows[u][y] /\ (u # s => y = j)
                                    /\ (u = s => y = j + 1)
        BY <2>1 DEF new, old
      <4>3. CASE rows'[t][i].number = Fresh
        BY <2>2, <3>2, <4>1, <4>2, <4>3
      <4>4. CASE rows'[t][i].number # Fresh
        <5>1. t = u /\ (t # s => i = j) /\ (t = s => i + 1 = j + 1)
          BY <3>2, <4>1, <4>2, <4>4 DEF RowsInv
        <5>2. QED
          BY <5>1
      <4>5. QED
        BY <4>3, <4>4
    <3>3. ASSUME NEW t \in Server, NEW i \in 1 .. Rows, NEW j \in 1 .. Rows,
                 rows'[t][i].number # 0, rows'[t][j].number # 0,
                 rows'[t][i].address = rows'[t][j].address,
                 ~rows'[t][i].connected, ~rows'[t][j].connected
          PROVE  i = j
      <4>1. CASE t # s
        BY <3>3, <4>1 DEF RowsInv
      <4>2. CASE t = s
        <5>1. /\ i # Rows => new[i] = old[i + 1] /\ i + 1 \in 1 .. Rows
              /\ j # Rows => new[j] = old[j + 1] /\ j + 1 \in 1 .. Rows
              /\ new[Rows].address = c
          BY <2>1
        <5>2. CASE i = Rows \/ j = Rows
          BY <2>3, <3>3, <4>2, <5>1, <5>2 DEF new
        <5>3. CASE i # Rows /\ j # Rows
          <6>1. i + 1 = j + 1
            BY <3>3, <4>2, <5>1, <5>3 DEF RowsInv, new, old
          <6>2. QED
            BY <6>1
        <5>4. QED
          BY <5>2, <5>3
      <4>3. QED
        BY <4>1, <4>2
    <3>4. QED
      BY <3>1, <3>2, <3>3 DEF RowsInv
  <2>6. RowsKept
    <3>1. ASSUME NEW n, n \in InUse PROVE Keeps(n)
      <4>1. n # Fresh
        BY <2>1, <3>1
      <4>2. \A i \in 1 .. Rows : new[i].number = n =>
               \E j \in 1 .. Rows : new[i] = old[j]
        BY <2>1, <4>1
      <4>3. QED
        BY <4>2 DEF Keeps, new, old
    <3>2. QED
      BY <3>1 DEF RowsKept
  <2>7. QED
    BY <2>4, <2>5, <2>6
<1>3. QED
  BY <1>1, <1>2

-----------------------------------------------------------------------------
(* Nobody is admitted who was not cleared *)

\* The challenge of a slot is the one it had before, or that of a row.
SlotsKept ==
    \A t \in Server, k \in Slots : slots'[t][k].challenge # 0 =>
        \/ \E j \in Slots : /\ slots[t][j].challenge = slots'[t][k].challenge
                            /\ slots[t][j].who = slots'[t][k].who
        \/ \E r \in 1 .. Rows : /\ rows[t][r].number = slots'[t][k].challenge
                                 /\ rows[t][r].address = slots'[t][k].who

\* Number n is a challenge that s gave away to c, after the step.
GivenNext(n, s, c) ==
    /\ n # 0
    /\ \A t \in Server, r \in 1 .. Rows : rows'[t][r].number = n =>
          t = s /\ rows'[t][r].address = c /\ rows'[t][r].cleared # "no"
    /\ \A t \in Server, k \in Slots : slots'[t][k].challenge = n =>
          t = s /\ slots'[t][k].who = c

LEMMA InUseHas ==
  /\ \A m \in net : m.number \in InUse
  /\ \A c \in Client : client[c].challenge \in InUse
  /\ \A s \in Server, k \in Slots : slots[s][k].challenge \in InUse
  /\ \A s \in Server, r \in 1 .. Rows : rows[s][r].number \in InUse
BY DEF InUse

LEMMA GivenStays ==
  ASSUME RowsKept, SlotsKept, NEW n \in InUse, NEW s, NEW c, Given(n, s, c)
  PROVE  GivenNext(n, s, c)
<1>1. \A t \in Server, r \in 1 .. Rows : rows'[t][r].number = n =>
         t = s /\ rows'[t][r].address = c /\ rows'[t][r].cleared # "no"
  BY DEF RowsKept, Keeps, Given
<1>2. \A t \in Server, k \in Slots : slots'[t][k].challenge = n =>
         t = s /\ slots'[t][k].who = c
  BY DEF SlotsKept, Given
<1>3. QED
  BY <1>1, <1>2 DEF Given, GivenNext

LEMMA SameSlots ==
  ASSUME \A s \in Server, k \in Slots :
            /\ slots'[s][k].challenge = slots[s][k].challenge
            /\ slots'[s][k].who = slots[s][k].who
  PROVE  SlotsKept
BY DEF SlotsKept

LEMMA SlotRowsStep ==
  ASSUME RowsInv, SlotRows, RowsKept, SlotsKept
  PROVE  SlotRows'
<1>1. ASSUME NEW t \in Server, NEW k \in Slots, NEW u \in Server, NEW r \in 1 .. Rows,
             slots'[t][k].challenge # 0, rows'[u][r].number = slots'[t][k].challenge
      PROVE  u = t /\ rows'[u][r].address = slots'[t][k].who
  <2> DEFINE n == slots'[t][k].challenge
             c == slots'[t][k].who
  <2>1. \/ \E j \in Slots : slots[t][j].challenge = n /\ slots[t][j].who = c
        \/ \E i \in 1 .. Rows : rows[t][i].number = n /\ rows[t][i].address = c
    BY <1>1 DEF SlotsKept
  <2>2. n \in InUse
    BY <2>1, InUseHas
  <2>3. PICK i \in 1 .. Rows : /\ rows[u][i].number = n
                              /\ rows[u][i].address = rows'[u][r].address
    BY <1>1, <2>2 DEF RowsKept, Keeps
  <2> HIDE DEF n, c
  <2>4. u = t /\ rows[u][i].address = c
    <3>1. CASE \E j \in Slots : slots[t][j].challenge = n /\ slots[t][j].who = c
      BY <1>1, <2>3, <3>1 DEF SlotRows, n
    <3>2. CASE \E j \in 1 .. Rows : rows[t][j].number = n /\ rows[t][j].address = c
      BY <1>1, <2>3, <3>2 DEF RowsInv, n
    <3>3. QED
      BY <2>1, <3>1, <3>2
  <2>5. QED
    BY <2>3, <2>4 DEF c
<1>2. QED
  BY <1>1 DEF SlotRows

\* A client that goes on with its challenge, or has none.
GoesOn(c) ==
    /\ client'[c].state # "DISCONNECTED" => client'[c].server \in Server
    /\ client'[c].state \in {"CHALLENGING", "CONNECTED"} =>
          \/ /\ client[c].state \in {"CHALLENGING", "CONNECTED"}
             /\ client'[c].server = client[c].server
             /\ client'[c].challenge = client[c].challenge
          \/ GivenNext(client'[c].challenge, client'[c].server, c)

LEMMA GivenStep ==
  ASSUME TypeOK, GivenInv, RowsKept, SlotsKept,
         \A m \in net' : m.kind \in {"challengeResponse", "connect"} =>
            m \in net \/ GivenNext(m.number, m.server, m.client),
         \A c \in Client : GoesOn(c)
  PROVE  GivenInv'
<1>1. ASSUME NEW m \in net', m.kind \in {"challengeResponse", "connect"}
      PROVE  GivenNext(m.number, m.server, m.client)
  <2>1. CASE m \in net
    <3>1. Given(m.number, m.server, m.client) /\ m.number \in InUse
      BY <1>1, <2>1, InUseHas DEF GivenInv
    <3>2. QED
      BY <3>1, GivenStays
  <2>2. CASE GivenNext(m.number, m.server, m.client)
    BY <2>2
  <2>3. QED
    BY <1>1, <2>1, <2>2
<1>2. ASSUME NEW c \in Client, client'[c].state \in {"CHALLENGING", "CONNECTED"}
      PROVE  GivenNext(client'[c].challenge, client'[c].server, c)
  <2>1. CASE /\ client[c].state \in {"CHALLENGING", "CONNECTED"}
             /\ client'[c].server = client[c].server
             /\ client'[c].challenge = client[c].challenge
    <3>1. Given(client[c].challenge, client[c].server, c) /\ client[c].challenge \in InUse
      BY <2>1, InUseHas DEF GivenInv
    <3>2. QED
      BY <2>1, <3>1, GivenStays
  <2>2. QED
    BY <1>2, <2>1 DEF GoesOn
<1>3. QED
  <2>1. \A m \in net' : m.kind \in {"challengeResponse", "connect"} =>
           Given(m.number, m.server, m.client)'
    BY <1>1 DEF GivenNext, Given
  <2>2. \A c \in Client : client'[c].state \in {"CHALLENGING", "CONNECTED"} =>
           Given(client[c].challenge, client[c].server, c)'
    BY <1>2 DEF GivenNext, Given
  <2>3. QED
    BY <2>1, <2>2 DEF GivenInv, GoesOn

\* One slot changes.
LEMMA SlotsStep ==
  ASSUME SlotsInv, NEW s \in Server, NEW k \in Slots, NEW new,
         slots'[s][k] = new,
         \A t \in Server, j \in Slots : t # s \/ j # k => slots'[t][j] = slots[t][j],
         new.state # "FREE" => new.who \in Client,
         new.state = "LIVE" => new.cleared # "no",
         \A j \in Slots : new.state # "FREE" /\ slots[s][j].state # "FREE"
                            /\ slots[s][j].who = new.who => j = k
  PROVE  SlotsInv'
BY DEF SlotsInv

LEMMA FadingSlot ==
  ASSUME TypeOK, SlotsInv, NEW s \in Server, NEW k \in Slots,
         slots[s][k].state = "LIVE", slots' = Zombie(s, k)
  PROVE  SlotsInv'
<1>1. slots' = [slots EXCEPT ![s][k] = Fading(slots[s][k])]
  BY ZombieType
<1>2. /\ Fading(slots[s][k]).state = "ZOMBIE"
      /\ Fading(slots[s][k]).who = slots[s][k].who
  BY Elements DEF Fading, SlotRecord
<1>3. slots[s][k].who \in Client
  BY DEF SlotsInv
<1>4. \A j \in Slots : slots[s][j].state # "FREE" /\ slots[s][j].who = slots[s][k].who
                          => j = k
  BY DEF SlotsInv
<1> DEFINE new == Fading(slots[s][k])
<1>5. /\ new.state # "FREE" => new.who \in Client
      /\ new.state = "LIVE" => new.cleared # "no"
  BY <1>2, <1>3
<1>6. \A j \in Slots : new.state # "FREE" /\ slots[s][j].state # "FREE"
                            /\ slots[s][j].who = new.who => j = k
  BY <1>2, <1>4
<1>7. /\ slots'[s][k] = new
      /\ \A t \in Server, j \in Slots : t # s \/ j # k => slots'[t][j] = slots[t][j]
  BY <1>1 DEF TypeOK
<1> HIDE DEF new
<1>8. QED
  BY <1>5, <1>6, <1>7, SlotsStep

LEMMA ConnectKeeps ==
  ASSUME IInv, NEW c \in Client, NEW s \in Server, Connect(c, s)
  PROVE  IInv'
<1> USE DEF IInv
<1>1. TypeOK'
  BY ConnectType
<1>2. rows' = rows /\ slots' = slots /\ asks' = asks
  BY DEF Connect
<1>3. RowsInv' /\ FullBeforeLost' /\ RowsKept /\ SlotsKept /\ SlotRows'
  BY <1>2, SameRows, SameSlots, SlotRowsStep
<1>4. \A m \in net' : m \in net \/ m.kind = "bye"
  BY FarewellType DEF Connect
<1>5. \A d \in Client : GoesOn(d)
  BY DEF GoesOn, Connect, GivenInv, TypeOK
<1>6. GivenInv'
  BY <1>2, <1>3, <1>4, <1>5, GivenStep
<1>7. SlotsInv'
  BY <1>2 DEF SlotsInv
<1>8. QED
  BY <1>1, <1>3, <1>6, <1>7

LEMMA DisconnectKeeps ==
  ASSUME IInv, NEW c \in Client, Disconnect(c)
  PROVE  IInv'
<1> USE DEF IInv
<1>1. TypeOK'
  BY DisconnectType
<1>2. rows' = rows /\ slots' = slots /\ asks' = asks
  BY DEF Disconnect
<1>3. RowsInv' /\ FullBeforeLost' /\ RowsKept /\ SlotsKept /\ SlotRows'
  BY <1>2, SameRows, SameSlots, SlotRowsStep
<1>4. \A m \in net' : m \in net \/ m.kind = "bye"
  BY FarewellType DEF Disconnect
<1>5. \A d \in Client : GoesOn(d)
  BY DEF GoesOn, Disconnect, Reset, Disconnected, GivenInv, TypeOK
<1>6. GivenInv'
  BY <1>2, <1>3, <1>4, <1>5, GivenStep
<1>7. SlotsInv'
  BY <1>2 DEF SlotsInv
<1>8. QED
  BY <1>1, <1>3, <1>6, <1>7

LEMMA ResendParts ==
  ASSUME TypeOK, GivenInv, NEW c \in Client, CheckForResend(c)
  PROVE  /\ rows' = rows /\ slots' = slots /\ asks' = asks
         /\ net' = net \cup {Request(c)}
         /\ Request(c).client = c /\ Request(c).server = client[c].server
         /\ Request(c).number \in Numbers \cup {0}
         /\ \/ client[c].state = "CONNECTING" /\ Request(c).kind = "getchallenge"
            \/ /\ client[c].state = "CHALLENGING" /\ Request(c).kind = "connect"
               /\ Request(c).number = client[c].challenge
         /\ client[c].since = Resend
         /\ client'[c].since # Resend
         /\ \A d \in Client :
               /\ client'[d].state = client[d].state
               /\ client'[d].server = client[d].server
               /\ client'[d].challenge = client[d].challenge
               /\ client'[d].attempts = client[d].attempts
               /\ d # c => client'[d].since = client[d].since
<1>1. client[c].server \in Server /\ client[c].challenge \in Numbers \cup {0}
  BY DEF CheckForResend, GivenInv, TypeOK, ClientRecord
<1>2. /\ Request(c).client = c /\ Request(c).server = client[c].server
      /\ Request(c).number \in Numbers \cup {0}
      /\ \/ client[c].state = "CONNECTING" /\ Request(c).kind = "getchallenge"
         \/ /\ client[c].state = "CHALLENGING" /\ Request(c).kind = "connect"
            /\ Request(c).number = client[c].challenge
  BY <1>1, PacketType DEF Request, CheckForResend
<1>3. /\ client'[c] = [client[c] EXCEPT !.since = 0]
      /\ \A d \in Client : d # c => client'[d] = client[d]
  BY DEF CheckForResend, TypeOK
<1>4. /\ client'[c].state = client[c].state
      /\ client'[c].server = client[c].server
      /\ client'[c].challenge = client[c].challenge
      /\ client'[c].attempts = client[c].attempts
      /\ client'[c].since = 0
  BY <1>3, Elements DEF ClientRecord
<1>5. Resend # 0
  OBVIOUS
<1>6. net' = net \cup {Request(c)} /\ client[c].since = Resend
  BY DEF CheckForResend, Request
<1>7. QED
  BY <1>2, <1>3, <1>4, <1>5, <1>6 DEF CheckForResend

LEMMA ResendKeeps ==
  ASSUME IInv, NEW c \in Client, CheckForResend(c)
  PROVE  IInv'
<1> USE DEF IInv
<1>1. TypeOK'
  BY ResendType
<1>2. rows' = rows /\ slots' = slots /\ asks' = asks
  BY ResendParts
<1>3. RowsInv' /\ FullBeforeLost' /\ RowsKept /\ SlotsKept /\ SlotRows'
  BY <1>2, SameRows, SameSlots, SlotRowsStep
<1>4. \A m \in net' : m \in net \/ m = Request(c)
  BY ResendParts
<1>6. Request(c).kind # "challengeResponse"
  BY ResendParts
<1>7. \A d \in Client : GoesOn(d)
  BY ResendParts DEF GoesOn, GivenInv
<1>8. \A m \in net' : m.kind \in {"challengeResponse", "connect"} =>
            m \in net \/ GivenNext(m.number, m.server, m.client)
  <2>1. ASSUME NEW m \in net', m.kind \in {"challengeResponse", "connect"}, m \notin net
        PROVE  GivenNext(m.number, m.server, m.client)
    <3>1. m = Request(c) /\ m.kind = "connect"
      BY <1>4, <1>6, <2>1
    <3>2. /\ m.number = client[c].challenge
          /\ m.server = client[c].server /\ m.client = c
      BY <3>1, ResendParts
    <3>3. client[c].state = "CHALLENGING"
      BY <3>1, ResendParts
    <3>4. Given(m.number, m.server, m.client)
      BY <3>2, <3>3 DEF GivenInv
    <3>5. m.number \in InUse
      BY <3>2, InUseHas
    <3>6. QED
      BY <1>3, <3>4, <3>5, GivenStays
  <2>2. QED
    BY <2>1
<1>9. GivenInv'
  BY <1>2, <1>3, <1>7, <1>8, GivenStep
<1>10. SlotsInv'
  BY <1>2 DEF SlotsInv
<1>11. QED
  BY <1>1, <1>3, <1>9, <1>10

LEMMA ChallengeResponseKeeps ==
  ASSUME IInv, NEW m \in net, m.kind = "challengeResponse",
         ChallengeResponse(m.client, m)
  PROVE  IInv'
<1> USE DEF IInv
<1>1. TypeOK'
  BY ChallengeResponseType
<1>2. rows' = rows /\ slots' = slots /\ asks' = asks /\ net' = net \ {m}
  BY DEF ChallengeResponse
<1>3. RowsInv' /\ FullBeforeLost' /\ RowsKept /\ SlotsKept /\ SlotRows'
  BY <1>2, SameRows, SameSlots, SlotRowsStep
<1>4. \A d \in Client : GoesOn(d)
  <2> DEFINE c == m.client
  <2>1. c \in Client /\ m.server \in Server
    BY MessageType
  <2>2. \A d \in Client : d # c => client'[d] = client[d]
    BY DEF ChallengeResponse, TypeOK
  <2>3. CASE client[c].state # "CONNECTING"
    <3>1. client'[c] = client[c]
      BY <2>1, <2>3 DEF ChallengeResponse, TypeOK
    <3>2. QED
      BY <2>2, <3>1 DEF GoesOn, GivenInv
  <2>4. CASE client[c].state = "CONNECTING"
    <3>1. client'[c] = Answered(c, m)
      BY <2>1, <2>4 DEF ChallengeResponse, TypeOK
    <3>2. client'[c].challenge = m.number /\ client'[c].server = m.server
      BY <2>1, <3>1, Elements DEF Answered, ClientRecord
    <3>3. Given(m.number, m.server, m.client) /\ m.number \in InUse
      BY InUseHas DEF GivenInv
    <3>4. GivenNext(m.number, m.server, m.client)
      BY <1>3, <3>3, GivenStays
    <3>5. QED
      BY <2>1, <2>2, <3>2, <3>4 DEF GoesOn, GivenInv
  <2>5. QED
    BY <2>3, <2>4
<1>5. GivenInv'
  BY <1>2, <1>3, <1>4, GivenStep
<1>6. SlotsInv'
  BY <1>2 DEF SlotsInv
<1>7. QED
  BY <1>1, <1>3, <1>5, <1>6

\* A connectResponse changes flags only.
LEMMA ConnectResponseParts ==
  ASSUME TypeOK, NEW m \in net, ConnectResponse(m.client, m)
  PROVE  /\ rows' = rows /\ asks' = asks /\ net' = net \ {m}
         /\ \/ client' = client /\ slots' = slots
            \/ /\ Acceptable(m.client, m)
               /\ client'[m.client].state = "CONNECTED"
               /\ client'[m.client].server = client[m.client].server
               /\ client'[m.client].challenge = client[m.client].challenge
               /\ client'[m.client].attempts = client[m.client].attempts
               /\ \A d \in Client : d # m.client => client'[d] = client[d]
               /\ \A k \in Slots : slots[m.server][k].who = m.client =>
                     slots'[m.server][k].heard
               /\ \A s \in Server, k \in Slots :
                     /\ slots'[s][k].state = slots[s][k].state
                     /\ slots'[s][k].who = slots[s][k].who
                     /\ slots'[s][k].challenge = slots[s][k].challenge
                     /\ slots'[s][k].cleared = slots[s][k].cleared
                     /\ slots[s][k].heard => slots'[s][k].heard
<1> DEFINE c == m.client
<1>1. c \in Client /\ m.server \in Server
  BY MessageType
<1>2. CASE Acceptable(c, m)
  <2>1. /\ client'[c] = [client[c] EXCEPT !.state = "CONNECTED", !.since = 0]
        /\ \A d \in Client : d # c => client'[d] = client[d]
    BY <1>1, <1>2 DEF ConnectResponse, TypeOK
  <2>2. \A s \in Server, k \in Slots :
           slots'[s][k] = IF s = m.server /\ slots[s][k].who = c
                            THEN [slots[s][k] EXCEPT !.heard = TRUE] ELSE slots[s][k]
    <3> DEFINE table == [k \in Slots |-> IF slots[m.server][k].who = c
                                          THEN [slots[m.server][k] EXCEPT !.heard = TRUE]
                                          ELSE slots[m.server][k]]
    <3>1. slots' = [slots EXCEPT ![m.server] = table]
      BY <1>1, <1>2 DEF ConnectResponse, TypeOK
    <3>2. \A s \in Server : slots'[s] = IF s = m.server THEN table ELSE slots[s]
      BY <1>1, <3>1 DEF TypeOK
    <3>3. \A k \in Slots : table[k] = IF slots[m.server][k].who = c
                                          THEN [slots[m.server][k] EXCEPT !.heard = TRUE]
                                          ELSE slots[m.server][k]
      OBVIOUS
    <3> HIDE DEF table
    <3>4. QED
      BY <1>1, <3>2, <3>3
  <2>3. /\ client'[c].state = "CONNECTED"
        /\ client'[c].server = client[c].server
        /\ client'[c].challenge = client[c].challenge
        /\ client'[c].attempts = client[c].attempts
    BY <1>1, <2>1, Elements DEF ClientRecord
  <2>4. \A slot \in SlotRecord :
           LET new == [slot EXCEPT !.heard = TRUE]
           IN  /\ new.state = slot.state /\ new.who = slot.who
               /\ new.challenge = slot.challenge /\ new.cleared = slot.cleared
               /\ new.heard
    BY DEF SlotRecord
  <2>5. ASSUME NEW s \in Server, NEW k \in Slots
        PROVE  /\ slots'[s][k].state = slots[s][k].state
               /\ slots'[s][k].who = slots[s][k].who
               /\ slots'[s][k].challenge = slots[s][k].challenge
               /\ slots'[s][k].cleared = slots[s][k].cleared
               /\ slots[s][k].heard => slots'[s][k].heard
               /\ s = m.server /\ slots[s][k].who = c => slots'[s][k].heard
    <3> DEFINE slot == slots[s][k]
    <3>1. slot \in SlotRecord
      BY Elements
    <3>2. slots'[s][k] = slot \/ slots'[s][k] = [slot EXCEPT !.heard = TRUE]
      BY <2>2
    <3>3. s = m.server /\ slot.who = c => slots'[s][k] = [slot EXCEPT !.heard = TRUE]
      BY <2>2
    <3> HIDE DEF slot
    <3>4. /\ slots'[s][k].state = slot.state
          /\ slots'[s][k].who = slot.who
          /\ slots'[s][k].challenge = slot.challenge
          /\ slots'[s][k].cleared = slot.cleared
          /\ slot.heard => slots'[s][k].heard
      BY <2>4, <3>1, <3>2
    <3>5. s = m.server /\ slot.who = c => slots'[s][k].heard
      BY <2>4, <3>1, <3>3
    <3>6. QED
      BY <3>4, <3>5 DEF slot
  <2>6. QED
    BY <1>1, <1>2, <2>1, <2>3, <2>5 DEF ConnectResponse
<1>3. CASE ~Acceptable(c, m)
  BY <1>3 DEF ConnectResponse
<1>4. QED
  BY <1>2, <1>3

LEMMA ConnectResponseKeeps ==
  ASSUME IInv, NEW m \in net, ConnectResponse(m.client, m)
  PROVE  IInv'
<1> USE DEF IInv
<1>1. TypeOK'
  BY ConnectResponseType
<1>2. rows' = rows /\ asks' = asks /\ net' = net \ {m}
  BY ConnectResponseParts
<1>3. RowsInv' /\ FullBeforeLost' /\ RowsKept /\ SlotsKept /\ SlotRows'
  BY <1>2, SameRows, ConnectResponseParts, SameSlots, SlotRowsStep
<1>4. \A d \in Client : GoesOn(d)
  <2>1. CASE client' = client
    BY <2>1 DEF GoesOn, GivenInv
  <2>2. CASE client' # client
    <3>1. /\ client[m.client].state = "CHALLENGING"
          /\ client'[m.client].state = "CONNECTED"
          /\ client'[m.client].server = client[m.client].server
          /\ client'[m.client].challenge = client[m.client].challenge
          /\ \A d \in Client : d # m.client => client'[d] = client[d]
      BY <2>2, ConnectResponseParts DEF Acceptable
    <3>2. QED
      BY <3>1 DEF GoesOn, GivenInv
  <2>3. QED
    BY <2>1, <2>2
<1>5. GivenInv'
  BY <1>2, <1>3, <1>4, GivenStep
<1>6. SlotsInv'
  <2>1. \A s \in Server, k \in Slots :
           /\ slots'[s][k].state = slots[s][k].state
           /\ slots'[s][k].who = slots[s][k].who
           /\ slots'[s][k].cleared = slots[s][k].cleared
    BY ConnectResponseParts
  <2>2. QED
    BY <2>1 DEF SlotsInv
<1>7. QED
  BY <1>1, <1>3, <1>5, <1>6

LEMMA RefusalParts ==
  ASSUME TypeOK, NEW m \in net, Refusal(m.client, m)
  PROVE  /\ rows' = rows /\ slots' = slots /\ asks' = asks
         /\ net' \subseteq (net \ {m}) \cup Farewell(m.client)
         /\ \/ client' = client
            \/ /\ client'[m.client] = Disconnected(client[m.client].attempts)
               /\ \A d \in Client : d # m.client => client'[d] = client[d]
               /\ m.kind = "drop" => client[m.client].state = "CONNECTED"
BY MessageType DEF Refusal, Reset, TypeOK

LEMMA RefusalKeeps ==
  ASSUME IInv, NEW m \in net, Refusal(m.client, m)
  PROVE  IInv'
<1> USE DEF IInv
<1>1. TypeOK'
  BY RefusalType
<1>2. rows' = rows /\ slots' = slots /\ asks' = asks
  BY RefusalParts
<1>3. RowsInv' /\ FullBeforeLost' /\ RowsKept /\ SlotsKept /\ SlotRows'
  BY <1>2, SameRows, SameSlots, SlotRowsStep
<1>4. \A x \in net' : x \in net \/ x.kind = "bye"
  BY RefusalParts, FarewellType, MessageType
<1>5. \A d \in Client : GoesOn(d)
  <2>1. \A d \in Client : client'[d] = client[d]
           \/ client'[d].state = "DISCONNECTED"
    <3>1. \A n : Disconnected(n).state = "DISCONNECTED"
      BY DEF Disconnected
    <3>2. QED
      BY <3>1, RefusalParts
  <2>2. QED
    BY <2>1 DEF GoesOn, GivenInv
<1>6. GivenInv'
  BY <1>2, <1>3, <1>4, <1>5, GivenStep
<1>7. SlotsInv'
  BY <1>2 DEF SlotsInv
<1>8. QED
  BY <1>1, <1>3, <1>6, <1>7

LEMMA SameClients ==
  ASSUME GivenInv, client' = client
  PROVE  \A d \in Client : GoesOn(d)
BY DEF GoesOn, GivenInv

LEMMA GetChallengeKeeps ==
  ASSUME IInv, NEW m \in net, GetChallenge(m.server, m)
  PROVE  IInv'
<1> USE DEF IInv
<1> DEFINE c == m.client
           s == m.server
           r == At(s, c)
           n == rows'[s][r].number
<1>1. TypeOK'
  BY GetChallengeType
<1>2. c \in Client /\ s \in Server
  BY MessageType
<1>3. /\ client' = client /\ slots' = slots
      /\ r \in 1 .. Rows /\ n \in Numbers /\ n # 0 /\ rows'[s][r].address = c
      /\ Challenged(s, c, r)
      /\ \A t \in Server : t # s => rows'[t] = rows[t]
  BY ChallengedParts
<1>4. RowsInv' /\ FullBeforeLost' /\ RowsKept /\ SlotsKept /\ SlotRows'
  BY <1>2, <1>3, ChallengedRows, SameSlots, SlotRowsStep
<1>5. \A t \in Server, i \in 1 .. Rows : rows'[t][i].number = n => t = s /\ i = r
  BY <1>2, <1>3, <1>4 DEF RowsInv
<1>6. \A d \in Client : GoesOn(d)
  BY <1>3, SameClients
<1>7. GivenInv'
  <2>1. CASE asks' = asks \cup {[server |-> s, number |-> n]} /\ net' = net \ {m}
    <3>1. \A x \in net' : x \in net
      BY <2>1
    <3>2. QED
      BY <1>4, <1>6, <3>1, GivenStep
  <2>2. CASE /\ rows'[s][r].cleared # "no" /\ asks' = asks
             /\ net' = (net \ {m}) \cup {Packet("challengeResponse", c, s, n)}
    <3>1. GivenNext(n, s, c)
      <4>1. \A t \in Server, k \in Slots : slots'[t][k].challenge = n =>
               t = s /\ slots'[t][k].who = c
        BY <1>2, <1>3, <1>4 DEF SlotRows
      <4>2. QED
        BY <1>3, <1>5, <2>2, <4>1 DEF GivenNext
    <3>2. LET p == Packet("challengeResponse", c, s, n)
          IN  p.number = n /\ p.server = s /\ p.client = c
      BY DEF Packet
    <3>3. \A x \in net' : x \in net \/ GivenNext(x.number, x.server, x.client)
      BY <2>2, <3>1, <3>2
    <3>4. QED
      BY <1>4, <1>6, <2>2, <3>3, GivenStep
  <2>3. QED
    BY <2>1, <2>2, ChallengedParts
<1>8. SlotsInv'
  BY <1>3 DEF SlotsInv
<1>9. QED
  BY <1>1, <1>4, <1>7, <1>8

LEMMA AuthorizeKeeps ==
  ASSUME IInv, NEW a \in asks, NEW verdict, AuthorizeIpPacket(a, verdict)
  PROVE  IInv'
<1> USE DEF IInv
<1>1. TypeOK'
  BY AuthorizeType
<1>2. /\ client' = client /\ slots' = slots
      /\ a.server \in Server /\ a.number \in Numbers /\ a.number # 0
  BY AuthorizeParts
<1>3. \A d \in Client : GoesOn(d)
  BY <1>2, SameClients
<1>4. SlotsInv'
  BY <1>2 DEF SlotsInv
<1>5. CASE rows' = rows /\ net' = net
  <2>1. RowsInv' /\ FullBeforeLost' /\ RowsKept /\ SlotsKept /\ SlotRows'
    BY <1>2, <1>5, SameRows, SameSlots, SlotRowsStep
  <2>2. GivenInv'
    BY <1>2, <1>3, <1>5, <2>1, GivenStep
  <2>3. QED
    BY <1>1, <1>4, <2>1, <2>2
<1>6. ASSUME NEW r \in 1 .. Rows, rows[a.server][r].number = a.number, Accepts(a, r)
      PROVE  IInv'
  <2>1. /\ RowsInv' /\ FullBeforeLost' /\ RowsKept
        /\ rows'[a.server][r].cleared # "no"
        /\ rows'[a.server][r].number = a.number
        /\ rows'[a.server][r].address = rows[a.server][r].address
    BY <1>2, <1>6, AcceptedRows
  <2> DEFINE c == rows[a.server][r].address
  <2>2. SlotsKept /\ SlotRows'
    BY <1>2, <2>1, SameSlots, SlotRowsStep
  <2>3. GivenNext(a.number, a.server, c)
    <3>1. \A t \in Server, k \in Slots : slots'[t][k].challenge = a.number =>
             t = a.server /\ slots'[t][k].who = c
      BY <1>2, <2>1, <2>2 DEF SlotRows
    <3>2. \A t \in Server, i \in 1 .. Rows : rows'[t][i].number = a.number =>
             t = a.server /\ rows'[t][i].address = c /\ rows'[t][i].cleared # "no"
      BY <1>2, <2>1 DEF RowsInv
    <3>3. QED
      BY <1>2, <3>1, <3>2 DEF GivenNext
  <2>4. \A x \in net' : x \in net
           \/ (x.number = a.number /\ x.server = a.server /\ x.client = c)
    BY <1>6 DEF Accepts, Packet
  <2>5. GivenInv'
    BY <1>3, <2>1, <2>2, <2>3, <2>4, GivenStep
  <2>6. QED
    BY <1>1, <1>4, <2>1, <2>2, <2>5
<1>7. ASSUME NEW r \in 1 .. Rows, NEW kind \in {"error", "needcdkey"}, Refuses(a, r, kind)
      PROVE  IInv'
  <2>1. RowsInv' /\ FullBeforeLost' /\ RowsKept /\ SlotsKept /\ SlotRows'
    BY <1>2, <1>7, RefusedRows, SameSlots, SlotRowsStep
  <2>2. \A x \in net' : x \in net \/ x.kind = kind
    BY <1>7 DEF Refuses, Packet
  <2>3. GivenInv'
    BY <1>2, <1>3, <2>1, <2>2, GivenStep
  <2>4. QED
    BY <1>1, <1>4, <2>1, <2>3
<1>8. QED
  BY <1>5, <1>6, <1>7, AuthorizeParts

LEMMA DirectConnectKeeps ==
  ASSUME IInv, NEW m \in net, m.kind = "connect", NEW verdict,
         DirectConnect(m.server, m, verdict)
  PROVE  IInv'
<1> USE DEF IInv
<1> DEFINE c == m.client
           s == m.server
<1>1. TypeOK'
  BY DirectConnectType
<1>2. c \in Client /\ s \in Server
  BY MessageType
<1>3. client' = client
  BY DirectConnectParts
<1>4. RowsInv' /\ FullBeforeLost' /\ RowsKept
  <2>1. rows' = rows \/ \E r \in 1 .. Rows : Joins(m, r)
    BY DirectConnectParts
  <2>2. QED
    BY <2>1, SameRows, JoinedRows
<1>5. \A x \in net' : x \in net \/ x.kind \in {"error", "connectResponse"}
  <2>1. net' = net \ {m} \/ Answers(m, "error") \/ Answers(m, "connectResponse")
    BY DirectConnectParts
  <2>2. QED
    BY <2>1 DEF Answers, Packet
<1>6. \A d \in Client : GoesOn(d)
  BY <1>3, SameClients
<1>7. SlotsKept
  <2>1. CASE slots' = slots
    BY <2>1, SameSlots
  <2>2. ASSUME NEW k, NEW new, slots' = [slots EXCEPT ![s][k] = new], new.who = c,
               new.challenge # 0 => \E r \in 1 .. Rows :
                  rows[s][r].number = new.challenge /\ rows[s][r].address = c
        PROVE  SlotsKept
    <3>1. \A t \in Server, j \in Slots :
             slots'[t][j] = slots[t][j] \/ (t = s /\ slots'[t][j] = new)
      BY <1>2, <2>2 DEF TypeOK
    <3>2. QED
      BY <2>2, <3>1 DEF SlotsKept
  <2>3. \A r : Admitted(s, m, r).who = c /\ Admitted(s, m, r).challenge = m.number
    BY DEF Admitted
  <2>4. [EmptySlot EXCEPT !.who = c].who = c
        /\ [EmptySlot EXCEPT !.who = c].challenge = 0
    BY DEF EmptySlot
  <2>5. QED
    <3> DEFINE k == Min(Choice(s, c))
    <3>1. ASSUME NEW r \in 1 .. Rows, rows[s][r].number = m.number,
                 rows[s][r].address = c,
                 slots' = [slots EXCEPT ![s][k] = Admitted(s, m, r)]
          PROVE  SlotsKept
      BY <2>2, <2>3, <3>1
    <3>2. CASE slots' = [slots EXCEPT ![s][k] = [EmptySlot EXCEPT !.who = c]]
      BY <2>2, <2>4, <3>2
    <3>3. QED
      BY <2>1, <3>1, <3>2, DirectConnectParts
<1>8. SlotRows'
  BY <1>4, <1>7, SlotRowsStep
<1>9. GivenInv'
  BY <1>4, <1>5, <1>6, <1>7, GivenStep
<1>10. SlotsInv'
  <2> DEFINE k == Min(Choice(s, c))
  <2>1. CASE slots' = slots
    BY <2>1 DEF SlotsInv
  <2>2. ASSUME NEW new, Choice(s, c) # {}, slots' = [slots EXCEPT ![s][k] = new],
               new.who = c, new.state = "LIVE" => new.cleared # "no"
        PROVE  SlotsInv'
    <3>1. /\ k \in Slots
          /\ \A j \in Slots : slots[s][j].who = c /\ slots[s][j].state # "FREE"
                => slots[s][k].who = c /\ slots[s][k].state # "FREE"
      BY <1>2, <2>2, ChoiceType
    <3>2. \A j \in Slots : slots[s][j].state # "FREE" /\ slots[s][j].who = c => j = k
      BY <1>2, <3>1 DEF SlotsInv
    <3> HIDE DEF k
    <3>3. /\ slots'[s][k] = new
          /\ \A t \in Server, j \in Slots :
                t # s \/ j # k => slots'[t][j] = slots[t][j]
      BY <1>2, <2>2, <3>1 DEF TypeOK
    <3>4. \A j \in Slots : new.state # "FREE" /\ slots[s][j].state # "FREE"
                            /\ slots[s][j].who = new.who => j = k
      BY <2>2, <3>2
    <3>5. new.state # "FREE" => new.who \in Client
      BY <1>2, <2>2
    <3>6. QED
      BY <1>2, <2>2, <3>1, <3>3, <3>4, <3>5, SlotsStep
  <2>3. ASSUME NEW r \in 1 .. Rows, rows[s][r].number = m.number
        PROVE  /\ Admitted(s, m, r).who = c
               /\ Admitted(s, m, r).cleared # "no"
    BY <1>2, <2>3 DEF Admitted, GivenInv, Given
  <2>4. [EmptySlot EXCEPT !.who = c].who = c
        /\ [EmptySlot EXCEPT !.who = c].state = "FREE"
    BY DEF EmptySlot
  <2>5. QED
    <3>1. CASE \E r \in 1 .. Rows :
                  /\ rows[s][r].number = m.number
                  /\ Choice(s, c) # {}
                  /\ slots' = [slots EXCEPT ![s][k] = Admitted(s, m, r)]
      BY <2>2, <2>3, <3>1
    <3>2. CASE /\ Choice(s, c) # {}
               /\ slots' = [slots EXCEPT ![s][k] = [EmptySlot EXCEPT !.who = c]]
      BY <2>2, <2>4, <3>2
    <3>3. QED
      BY <2>1, <3>1, <3>2, DirectConnectParts
<1>11. QED
  BY <1>1, <1>4, <1>8, <1>9, <1>10

LEMMA ZombieKeeps ==
  ASSUME IInv, TypeOK', NEW s \in Server, NEW k \in Slots,
         client' = client, rows' = rows,
         \A m \in net' : m \in net \/ m.kind = "drop",
         \/ slots' = slots
         \/ slots[s][k].state = "LIVE" /\ slots' = Zombie(s, k)
  PROVE  IInv'
<1> USE DEF IInv
<1>1. RowsInv' /\ FullBeforeLost' /\ RowsKept
  BY SameRows
<1>2. \A d \in Client : GoesOn(d)
  BY SameClients
<1>3. SlotsKept /\ SlotRows'
  <2>1. CASE slots' = slots
    BY <1>1, <2>1, SameSlots, SlotRowsStep
  <2>2. CASE slots[s][k].state = "LIVE" /\ slots' = Zombie(s, k)
    <3>1. slots' = [slots EXCEPT ![s][k] = Fading(slots[s][k])]
      BY <2>2, ZombieType
    <3>2. /\ Fading(slots[s][k]).who = slots[s][k].who
          /\ Fading(slots[s][k]).challenge = slots[s][k].challenge
      BY Elements DEF Fading, SlotRecord
    <3>3. \A t \in Server, j \in Slots : slots'[t][j] = slots[t][j]
             \/ (t = s /\ j = k /\ slots'[t][j] = Fading(slots[s][k]))
      BY <3>1 DEF TypeOK
    <3>4. SlotsKept
      BY <3>2, <3>3, SameSlots
    <3>5. QED
      BY <1>1, <3>4, SlotRowsStep
  <2>3. QED
    BY <2>1, <2>2
<1>4. GivenInv'
  BY <1>1, <1>2, <1>3, GivenStep
<1>5. SlotsInv'
  <2>1. CASE slots' = slots
    BY <2>1 DEF SlotsInv
  <2>2. QED
    BY <2>1, FadingSlot
<1>6. QED
  BY <1>1, <1>3, <1>4, <1>5

LEMMA ByeKeeps ==
  ASSUME IInv, NEW m \in net, Bye(m.server, m)
  PROVE  IInv'
<1>1. TypeOK'
  BY ByeType DEF IInv
<1>2. client' = client /\ rows' = rows /\ asks' = asks /\ net' = net \ {m}
  BY ByeParts DEF IInv
<1>3. m.server \in Server
  BY MessageType DEF IInv
<1>4. \E k \in Slots : slots' = slots \/ (slots[m.server][k].state = "LIVE"
                                          /\ slots' = Zombie(m.server, k))
  <2>1. 0 \in Slots
    BY DEF Slots
  <2>2. QED
    BY <2>1, ByeParts DEF IInv
<1>5. QED
  BY <1>1, <1>2, <1>3, <1>4, ZombieKeeps

LEMMA DropKeeps ==
  ASSUME IInv, NEW s \in Server, NEW k \in Slots, DropClient(s, k)
  PROVE  IInv'
<1>1. TypeOK'
  BY DropType DEF IInv
<1>2. \A m \in net' : m \in net \/ m.kind = "drop"
  BY DEF DropClient, Packet
<1>3. QED
  BY <1>1, <1>2, ZombieKeeps DEF DropClient

LEMMA TickKeeps ==
  ASSUME IInv, Tick
  PROVE  IInv'
<1> USE DEF IInv
<1>1. TypeOK' /\ net' = net /\ asks' = asks
  BY TickParts
<1>2. RowsInv' /\ FullBeforeLost' /\ RowsKept
  BY TickParts, FlaggedRows
<1>3. \A d \in Client : GoesOn(d)
  BY TickParts DEF GoesOn, GivenInv
<1>4. SlotsKept /\ SlotRows'
  <2>1. \A s \in Server, k \in Slots :
           /\ slots'[s][k].challenge = slots[s][k].challenge
           /\ slots'[s][k].who = slots[s][k].who
    BY TickParts, AgedType, Elements
  <2>2. QED
    BY <1>2, <2>1, SameSlots, SlotRowsStep
<1>5. GivenInv'
  BY <1>1, <1>2, <1>3, <1>4, GivenStep
<1>6. SlotsInv'
  <2>1. \A s \in Server, k \in Slots :
           /\ slots'[s][k].state = slots[s][k].state \/ slots'[s][k].state = "FREE"
           /\ slots'[s][k].who = slots[s][k].who
           /\ slots'[s][k].cleared = slots[s][k].cleared
    BY TickParts, AgedType, Elements
  <2>2. QED
    BY <2>1 DEF SlotsInv
<1>7. QED
  BY <1>1, <1>2, <1>4, <1>5, <1>6

LEMMA LossKeeps ==
  ASSUME IInv, (\E m \in net : Lose(m)) \/ (\E a \in asks : Silent(a))
  PROVE  IInv'
<1> USE DEF IInv
<1>1. TypeOK'
  BY LossType
<1>2. /\ client' = client /\ rows' = rows /\ slots' = slots
      /\ net' \subseteq net /\ asks' \subseteq asks
  BY DEF Lose, Silent
<1>3. RowsInv' /\ FullBeforeLost' /\ RowsKept /\ SlotsKept /\ SlotRows'
  BY <1>2, SameRows, SameSlots, SlotRowsStep
<1>4. \A d \in Client : GoesOn(d)
  BY <1>2, SameClients
<1>5. GivenInv'
  BY <1>2, <1>3, <1>4, GivenStep
<1>6. SlotsInv'
  BY <1>2 DEF SlotsInv
<1>7. QED
  BY <1>1, <1>3, <1>5, <1>6

LEMMA NextKeeps ==
  ASSUME IInv, [Next]_vars
  PROVE  IInv'
<1>1. CASE UNCHANGED vars
  BY <1>1 DEF vars, IInv, TypeOK, RowsInv, GivenInv, Given, SlotRows, SlotsInv,
              FullBeforeLost
<1>2. ASSUME NEW c \in Client, NEW s \in Server, Connect(c, s) PROVE IInv'
  BY <1>2, ConnectKeeps
<1>3. ASSUME NEW c \in Client, Disconnect(c) PROVE IInv'
  BY <1>3, DisconnectKeeps
<1>4. ASSUME NEW c \in Client, CheckForResend(c) PROVE IInv'
  BY <1>4, ResendKeeps
<1>5. ASSUME NEW m \in net, Receive(m) PROVE IInv'
  <2>1. CASE m.kind = "getchallenge" /\ GetChallenge(m.server, m)
    BY <2>1, GetChallengeKeeps
  <2>2. CASE m.kind = "connect" /\ \E verdict \in {"admit", "gate", "game"} :
                                      DirectConnect(m.server, m, verdict)
    BY <2>2, DirectConnectKeeps
  <2>3. CASE m.kind = "bye" /\ Bye(m.server, m)
    BY <2>3, ByeKeeps
  <2>4. CASE m.kind = "challengeResponse" /\ ChallengeResponse(m.client, m)
    BY <2>4, ChallengeResponseKeeps
  <2>5. CASE m.kind = "connectResponse" /\ ConnectResponse(m.client, m)
    BY <2>5, ConnectResponseKeeps
  <2>6. CASE m.kind \in {"error", "needcdkey", "drop"} /\ Refusal(m.client, m)
    BY <2>6, RefusalKeeps
  <2>7. QED
    BY <1>5, <2>1, <2>2, <2>3, <2>4, <2>5, <2>6 DEF Receive
<1>6. ASSUME NEW a \in asks, NEW v \in Verdicts, AuthorizeIpPacket(a, v) PROVE IInv'
  BY <1>6, AuthorizeKeeps
<1>7. ASSUME NEW s \in Server, NEW k \in Slots, DropClient(s, k) PROVE IInv'
  BY <1>7, DropKeeps
<1>8. CASE Tick
  BY <1>8, TickKeeps
<1>9. CASE (\E m \in net : Lose(m)) \/ (\E a \in asks : Silent(a))
  BY <1>9, LossKeeps
<1>10. QED
  BY <1>1, <1>2, <1>3, <1>4, <1>5, <1>6, <1>7, <1>8, <1>9 DEF Next

\* Every reachable state is sound as far as admission goes.
LEMMA Invariance == Spec => []IInv
<1>1. Init => IInv
  BY InitInv
<1>2. IInv /\ [Next]_vars => IInv'
  BY NextKeeps
<1>3. QED
  BY <1>1, <1>2, PTL DEF Spec

\* SV_DirectConnect gives no slot to a client that was neither accepted by the
\* authorize server, nor exempt, nor kept waiting longer than the timeout,
\* whatever packets of whatever attempt come in whatever order.
THEOREM Admission == Spec => []AdmittedWasCleared
<1>1. IInv => AdmittedWasCleared
  BY DEF IInv, SlotsInv, AdmittedWasCleared
<1>2. QED
  BY <1>1, Invariance, PTL

\* A client has one open row in SV_GetChallenge's table, a row in use is pushed
\* out of a full table only, and the challenge that a client takes from any
\* challengeResponse, the key of its netchan, is that of no row and no slot but
\* its own on its own server, however late the packets and however the tables
\* overflow.
THEOREM Challenges == Spec => []ChallengesSound
<1>1. IInv => OneOpenRow
  BY DEF IInv, RowsInv, OneOpenRow
<1>2. IInv => OwnChallenge
  BY DEF IInv, GivenInv, Given, OwnChallenge, RowOf
<1>3. IInv => ChallengesSound
  BY <1>1, <1>2 DEF IInv, ChallengesSound
<1>4. QED
  BY <1>3, Invariance, PTL
================================================================================
