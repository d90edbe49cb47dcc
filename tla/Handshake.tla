------------------------------- MODULE Handshake -------------------------------
(***************************************************************************)
(* How a client gets a slot on a server.  CL_CheckForResend repeats        *)
(* "getchallenge", then "connect", until an answer comes; the server keeps *)
(* a table of the challenges it gave out, asks the authorize server about  *)
(* the player if it was built to, answers with "challengeResponse", and    *)
(* SV_DirectConnect trades the challenge for a slot and "connectResponse". *)
(* All of it travels in connectionless packets, which carry nothing to     *)
(* tell one attempt from another.                                          *)
(*                                                                         *)
(* Clients are told apart by their address; how addresses, ports and       *)
(* qports are matched is in ServerClients.  Times are in seconds.  The     *)
(* pings, PunkBuster and the game may refuse anyone.                       *)
(***************************************************************************)
EXTENDS Integers, FiniteSets

CONSTANTS
    Client, Server,
    Exempt,          \* clients on the server's LAN, or a build without
                     \* authorization: CODUO_DISABLE_SERVER_AUTH
    Rows,            \* MAX_CHALLENGES
    MaxClients,      \* sv_maxclients
    Resend,          \* CL_CONNECT_RESEND_MSEC, 3 s
    ReconnectLimit,  \* sv_reconnectlimit, 3 s
    AuthTimeout,     \* SERVER_AUTHORIZE_TIMEOUT_MSEC, 5 s
    ZombieTime,      \* sv_zombietime, 2 s
    Verdicts,        \* what the authorize server may say
    Prompt,          \* nothing is under way longer than a second, nor from
                     \* one attempt into the next
    MaxAttempts,     \* bound: "connect" commands of one client
    MaxNumber,       \* bound: challenges that can be told apart
    MaxUnderWay,     \* bound: packets under way when a client sends one more
    Nobody

ASSUME TablesAssumption == {Rows, MaxClients} \subseteq Nat \ {0}
ASSUME SecondsAssumption ==
    /\ Resend \in Nat \ {0}
    /\ {ReconnectLimit, AuthTimeout, ZombieTime, MaxAttempts, MaxNumber,
        MaxUnderWay} \subseteq Nat
ASSUME PeopleAssumption ==
    /\ Exempt \subseteq Client /\ Nobody \notin Client \cup Server
    /\ Verdicts \subseteq {"accept", "needcdkey", "deny"}
    /\ Prompt \in BOOLEAN

VARIABLES
    client,          \* cls and clc
    rows,            \* svs.challenges of each server, the oldest first
    slots,           \* svs.clients of each server
    net,             \* the packets under way
    asks             \* getIpAuthorize requests not yet answered

vars == <<client, rows, slots, net, asks>>

-----------------------------------------------------------------------------
Slots == 0 .. MaxClients - 1
Numbers == 1 .. MaxNumber
Clearances == {"no", "exempt", "accepted", "timedout"}

\* client_t, challenge_t and the part of clientConnection_t that counts here;
\* cleared is history: by what right a row's number was given away.
SlotRecord == [state : {"FREE", "ZOMBIE", "LIVE"}, who : Client \cup {Nobody},
               challenge : Numbers \cup {0}, since : 0 .. ReconnectLimit,
               gone : 0 .. ZombieTime, heard : BOOLEAN, cleared : Clearances]
RowRecord == [number : Numbers \cup {0}, address : Client \cup {Nobody},
              asked : 0 .. AuthTimeout + 1, connected : BOOLEAN,
              cleared : Clearances]
ClientRecord == [state : {"DISCONNECTED", "CONNECTING", "CHALLENGING", "CONNECTED"},
                 server : Server \cup {Nobody}, challenge : Numbers \cup {0},
                 since : 0 .. Resend, attempts : 0 .. MaxAttempts]

EmptyRow == [number |-> 0, address |-> Nobody, asked |-> 0, connected |-> FALSE,
             cleared |-> "no"]
EmptySlot == [state |-> "FREE", who |-> Nobody, challenge |-> 0,
              since |-> ReconnectLimit, gone |-> 0, heard |-> FALSE,
              cleared |-> "no"]
Disconnected(attempts) == [state |-> "DISCONNECTED", server |-> Nobody,
                           challenge |-> 0, since |-> 0, attempts |-> attempts]

TypeOK ==
    /\ client \in [Client -> ClientRecord]
    /\ rows \in [Server -> [1 .. Rows -> RowRecord]]
    /\ slots \in [Server -> [Slots -> SlotRecord]]
    /\ net \subseteq [kind : {"getchallenge", "connect", "bye", "needcdkey",
                              "challengeResponse", "connectResponse", "error",
                              "drop"},
                      client : Client, server : Server,
                      number : Numbers \cup {0}]
    /\ asks \subseteq [server : Server, number : Numbers]

Init ==
    /\ client = [c \in Client |-> Disconnected(0)]
    /\ rows = [s \in Server |-> [r \in 1 .. Rows |-> EmptyRow]]
    /\ slots = [s \in Server |-> [k \in Slots |-> EmptySlot]]
    /\ net = {} /\ asks = {}

Packet(kind, c, s, number) ==
    [kind |-> kind, client |-> c, server |-> s, number |-> number]

InUse == {rows[s][r].number : s \in Server, r \in 1 .. Rows}
         \cup {client[c].challenge : c \in Client}
         \cup {m.number : m \in net} \cup {a.number : a \in asks}
         \cup {slots[s][k].challenge : s \in Server, k \in Slots}
Min(S) == CHOOSE n \in S : \A k \in S : n <= k

\* A number that no one knows, for rand() ^ svs.time.
Fresh == Min(Numbers \ InUse)

-----------------------------------------------------------------------------
(* The client. *)

\* CL_Disconnect; a connected client says so, three times, unacknowledged.
Farewell(c) ==
    IF client[c].state = "CONNECTED"
      THEN {Packet("bye", c, client[c].server, client[c].challenge)} ELSE {}
Reset(c) == Disconnected(client[c].attempts)

Quiet(c) == Prompt => /\ \A m \in net : m.client # c
                      /\ asks = {}

\* CL_Connect_f: the "connect" command.
Connect(c, s) ==
    /\ client[c].attempts < MaxAttempts
    /\ Quiet(c)
    /\ client' = [client EXCEPT ![c] =
          [state |-> "CONNECTING", server |-> s, challenge |-> 0,
           since |-> Resend, attempts |-> client[c].attempts + 1]]
    /\ net' = net \cup Farewell(c)
    /\ UNCHANGED <<rows, slots, asks>>

\* The "disconnect" command, a lost server (CL_CheckTimeout), or a
\* "disconnect" packet after three silent seconds (CL_DisconnectPacket).
Disconnect(c) ==
    /\ client[c].state # "DISCONNECTED"
    /\ Quiet(c)
    /\ client' = [client EXCEPT ![c] = Reset(c)]
    /\ net' = net \cup Farewell(c)
    /\ UNCHANGED <<rows, slots, asks>>

\* CL_CheckForResend
CheckForResend(c) ==
    /\ client[c].state \in {"CONNECTING", "CHALLENGING"}
    /\ client[c].since = Resend
    /\ Cardinality(net \cup asks) <= MaxUnderWay
    /\ client' = [client EXCEPT ![c].since = 0]
    /\ net' = net \cup {IF client[c].state = "CONNECTING"
                          THEN Packet("getchallenge", c, client[c].server, 0)
                          ELSE Packet("connect", c, client[c].server,
                                      client[c].challenge)}
    /\ UNCHANGED <<rows, slots, asks>>

AnsweredMutant(c, m) == [client[c] EXCEPT !.state = "CHALLENGING",
    !.challenge = m.number, !.since = Resend]
\* The client after a challengeResponse, which it takes from anyone; its
\* "connect" goes to whoever sent it, at once.
Answered(c, m) == [client[c] EXCEPT !.state = "CHALLENGING",
    !.challenge = m.number, !.since = Resend, !.server = m.server]

ChallengeResponse(c, m) ==
    /\ client' = [client EXCEPT ![c] =
          IF @.state = "CONNECTING" THEN Answered(c, m) ELSE @]
    /\ net' = net \ {m}
    /\ UNCHANGED <<rows, slots, asks>>

\* A connectResponse counts while challenging, from that server.
Acceptable(c, m) ==
    client[c].state = "CHALLENGING" /\ m.server = client[c].server

\* Both sides begin a fresh netchan; heard: this slot's client has begun its.
ConnectResponse(c, m) ==
    /\ IF Acceptable(c, m)
         THEN /\ client' = [client EXCEPT ![c].state = "CONNECTED",
                                          ![c].since = 0]
              /\ slots' = [slots EXCEPT ![m.server] =
                    [k \in Slots |-> IF @[k].who = c THEN [@[k] EXCEPT !.heard = TRUE]
                                                     ELSE @[k]]]
         ELSE UNCHANGED <<client, slots>>
    /\ net' = net \ {m}
    /\ UNCHANGED <<rows, asks>>

\* "error" from the server of the moment ends any attempt or connection, and
\* so does its "w" command, which only the netchan of that connection brings;
\* "needcdkey" does when the key is no good, else authorization is asked again.
Refusal(c, m) ==
    LET concerns ==
          /\ client[c].state # "DISCONNECTED"
          /\ m.server = client[c].server
          /\ m.kind = "needcdkey" => client[c].state # "CONNECTED"
          /\ m.kind = "drop" => /\ client[c].state = "CONNECTED"
                                /\ client[c].challenge = m.number
    IN  /\ \/ concerns /\ client' = [client EXCEPT ![c] = Reset(c)]
                       /\ net' = (net \ {m}) \cup Farewell(c)
           \/ (concerns => m.kind = "needcdkey") /\ net' = net \ {m}
              /\ UNCHANGED client
        /\ UNCHANGED <<rows, slots, asks>>

-----------------------------------------------------------------------------
(* The server. *)

\* The rows SV_GetChallenge may use again for an address.
Open(s, c) == {r \in 1 .. Rows : rows[s][r].address = c /\ ~rows[s][r].connected}

NewRow(c) == [EmptyRow EXCEPT !.number = Fresh, !.address = c]

\* The new row takes the place of the oldest.
Renewed(s, c) ==
    [r \in 1 .. Rows |-> IF r < Rows THEN rows[s][r + 1] ELSE NewRow(c)]

AnswersAtOnceMutant(c, row) == TRUE
AnswersAtOnceNeverMutant(c, row) == c \in Exempt
\* Whether SV_GetChallenge answers without the authorize server's word: the
\* wait counts from the row's first request, not from this one.
AnswersAtOnce(c, row) == c \in Exempt \/ row.asked > AuthTimeout

\* History: by what right a row's number was given away.
Clearance(c, row) ==
    IF c \in Exempt THEN "exempt"
    ELSE IF row.asked > AuthTimeout THEN "timedout" ELSE row.cleared

\* SV_GetChallenge: the row still open for the address, or the oldest one.
GetChallenge(s, m) ==
    LET c == m.client
        open == Open(s, c)
        table == IF open # {} THEN rows[s] ELSE Renewed(s, c)
        r == IF open # {} THEN Min(open) ELSE Rows
    IN  /\ open # {} \/ Numbers \ InUse # {}
        /\ IF ~AnswersAtOnce(c, table[r])
             THEN /\ asks' = asks \cup {[server |-> s, number |-> table[r].number]}
                  /\ rows' = [rows EXCEPT ![s] = table]
                  /\ net' = net \ {m}
             ELSE /\ rows' = [rows EXCEPT ![s] = [table EXCEPT
                                          ![r].cleared = Clearance(c, table[r])]]
                  /\ net' = (net \ {m}) \cup
                       {Packet("challengeResponse", c, s, table[r].number)}
                  /\ UNCHANGED asks
        /\ UNCHANGED <<client, slots>>

RowOf(s, number) == {r \in 1 .. Rows : rows[s][r].number = number}

\* memset(challenge, 0, sizeof(*challenge)): the row is the oldest again.
Wiped(s, r) ==
    [i \in 1 .. Rows |-> IF i = 1 THEN EmptyRow
                         ELSE IF i <= r THEN rows[s][i - 1] ELSE rows[s][i]]

\* SV_AuthorizeIpPacket: the authorize server's answer to a request, whose row
\* may be gone, or its client in the game already.
AuthorizeIpPacket(a, verdict) ==
    LET s == a.server
        r == Min(RowOf(s, a.number))
        row == rows[s][r]
    IN  /\ asks' = asks \ {a}
        /\ IF RowOf(s, a.number) = {}
             THEN UNCHANGED <<rows, net>>
             ELSE IF verdict = "accept"
             THEN /\ rows' = [rows EXCEPT ![s][r].cleared = "accepted"]
                  /\ net' = IF row.connected THEN net ELSE net \cup
                       {Packet("challengeResponse", row.address, s, a.number)}
             ELSE /\ rows' = [rows EXCEPT ![s] = Wiped(s, r)]
                  /\ net' = net \cup
                       {Packet(IF verdict = "deny" THEN "error" ELSE "needcdkey",
                               row.address, s, 0)}
        /\ UNCHANGED <<client, slots>>

Earlier(s, c) == {k \in Slots : slots[s][k].who = c}

\* The first slot that ever held this client, in use or not, decides.
TooSoon(s, c) == Earlier(s, c) # {} /\ slots[s][Min(Earlier(s, c))].since < ReconnectLimit

ChoiceMutant(s, c) ==
    LET free == {k \in Slots : slots[s][k].state = "FREE"}
    IN  IF free # {} THEN {Min(free)} ELSE {}
\* The slot for a client: the one it has, or the first free one.
Choice(s, c) ==
    LET own == {k \in Earlier(s, c) : slots[s][k].state # "FREE"}
        free == {k \in Slots : slots[s][k].state = "FREE"}
    IN  IF own # {} THEN {Min(own)} ELSE IF free # {} THEN {Min(free)} ELSE {}

\* SV_DirectConnect.  The gate (ping limits, PunkBuster) comes before the slot
\* is chosen, the game's own verdict after its old owner has been freed.
DirectConnect(s, m, verdict) ==
    LET c == m.client
        r == Min(RowOf(s, m.number))
        known == RowOf(s, m.number) # {} /\ rows[s][r].address = c
        k == Min(Choice(s, c))
        Reply(kind) == (net \ {m}) \cup {Packet(kind, c, s, 0)}
    IN  /\ IF TooSoon(s, c)
             THEN net' = net \ {m} /\ UNCHANGED <<rows, slots>>
             ELSE IF ~known
             THEN net' = Reply("error") /\ UNCHANGED <<rows, slots>>
             ELSE /\ rows' = [rows EXCEPT ![s][r].connected = TRUE]
                  /\ IF verdict = "gate" \/ Choice(s, c) = {}
                       THEN net' = Reply("error") /\ UNCHANGED slots
                       ELSE IF verdict = "game"
                       THEN /\ net' = Reply("error")
                            /\ slots' = [slots EXCEPT ![s][k] =
                                  [EmptySlot EXCEPT !.who = c]]
                       ELSE /\ net' = Reply("connectResponse")
                            /\ slots' = [slots EXCEPT ![s][k] =
                                  [state |-> "LIVE", who |-> c, challenge |-> m.number,
                                   since |-> 0, gone |-> 0, heard |-> FALSE,
                                   cleared |-> rows[s][r].cleared]]
        /\ UNCHANGED <<client, asks>>

\* SV_DropClient.  It does not put the challenge row up for use again: the
\* code that would needs a client without an entity.
Zombie(s, k) == [slots EXCEPT ![s][k].state = "ZOMBIE", ![s][k].gone = 0,
                                   ![s][k].heard = FALSE]

\* The client's "disconnect", which only decodes with this slot's challenge.
Bye(s, m) ==
    LET mine == {k \in Slots : /\ slots[s][k].state = "LIVE"
                               /\ slots[s][k].who = m.client
                               /\ slots[s][k].challenge = m.number}
    IN  /\ slots' = IF mine = {} THEN slots ELSE Zombie(s, Min(mine))
        /\ net' = net \ {m}
        /\ UNCHANGED <<client, rows, asks>>

\* The server drops a client of its own accord.
DropClient(s, k) ==
    /\ slots[s][k].state = "LIVE"
    /\ slots' = Zombie(s, k)
    /\ net' = net \cup {Packet("drop", slots[s][k].who, s, slots[s][k].challenge)}
    /\ UNCHANGED <<client, rows, asks>>

-----------------------------------------------------------------------------
Older(age, limit) == IF age < limit THEN age + 1 ELSE age

AgedMutant(slot) ==
    LET over == slot.state = "ZOMBIE" /\ slot.gone > ZombieTime
    IN  [slot EXCEPT !.since = Older(@, ReconnectLimit),
                     !.state = IF over THEN "FREE" ELSE @,
                     !.gone = IF over \/ slot.state # "ZOMBIE" THEN 0 ELSE @ + 1]
\* SV_CheckTimeouts, a second later: a zombie goes when it is older than
\* ZombieTime.
Aged(slot) ==
    LET over == slot.state = "ZOMBIE" /\ slot.gone >= ZombieTime
    IN  [slot EXCEPT !.since = Older(@, ReconnectLimit),
                     !.state = IF over THEN "FREE" ELSE @,
                     !.gone = IF over \/ slot.state # "ZOMBIE" THEN 0 ELSE @ + 1]

\* One more second for everyone.
Tick ==
    /\ Prompt => net = {} /\ asks = {}
    /\ client' = [c \in Client |->
          IF client[c].state \in {"CONNECTING", "CHALLENGING"}
            THEN [client[c] EXCEPT !.since = Older(@, Resend)] ELSE client[c]]
    /\ rows' = [s \in Server |-> [r \in 1 .. Rows |->
          IF rows[s][r].number = 0 THEN rows[s][r]
          ELSE [rows[s][r] EXCEPT !.asked = Older(@, AuthTimeout + 1)]]]
    /\ slots' = [s \in Server |-> [k \in Slots |-> Aged(slots[s][k])]]
    /\ UNCHANGED <<net, asks>>

Receive(m) ==
    \/ m.kind = "getchallenge" /\ GetChallenge(m.server, m)
    \/ m.kind = "connect" /\ \E verdict \in {"admit", "gate", "game"} :
                                DirectConnect(m.server, m, verdict)
    \/ m.kind = "bye" /\ Bye(m.server, m)
    \/ m.kind = "challengeResponse" /\ ChallengeResponse(m.client, m)
    \/ m.kind = "connectResponse" /\ ConnectResponse(m.client, m)
    \/ m.kind \in {"error", "needcdkey", "drop"} /\ Refusal(m.client, m)

\* The network, and the authorize server, may lose anything.
Lose(m) == net' = net \ {m} /\ UNCHANGED <<client, rows, slots, asks>>
Silent(a) == asks' = asks \ {a} /\ UNCHANGED <<client, rows, slots, net>>

Next ==
    \/ \E c \in Client, s \in Server : Connect(c, s)
    \/ \E c \in Client : Disconnect(c) \/ CheckForResend(c)
    \/ \E m \in net : Receive(m) \/ Lose(m)
    \/ \E a \in asks : (\E v \in Verdicts : AuthorizeIpPacket(a, v)) \/ Silent(a)
    \/ \E s \in Server, k \in Slots : DropClient(s, k)
    \/ Tick

Spec == Init /\ [][Next]_vars

\* A packet sent again and again gets through, once the clock goes on; so
\* the frames of the client, and the server's, run.
Fairness ==
    /\ WF_vars(Tick)
    /\ \A c \in Client :
          /\ WF_vars(CheckForResend(c))
          /\ \A kind \in {"getchallenge", "connect", "challengeResponse",
                           "connectResponse", "error"} :
                SF_vars(\E m \in net : m.kind = kind /\ m.client = c /\ Receive(m))
    /\ WF_vars(\E m \in net : Receive(m) \/ Lose(m))
    /\ WF_vars(\E a \in asks : Silent(a))
FairSpec == Spec /\ Fairness

-----------------------------------------------------------------------------
(* Properties *)

\* However often a client asks, it has one challenge open on a server, and no
\* challenge is given out twice (SV_GetChallenge looks for an open row first).
OneOpenRow ==
    \A s \in Server : \A i, j \in {r \in 1 .. Rows : rows[s][r].number # 0} :
        i # j => /\ rows[s][i].number # rows[s][j].number
                 /\ rows[s][i].address # rows[s][j].address
                    \/ rows[s][i].connected \/ rows[s][j].connected

\* No slot goes to a client that was neither accepted by the authorize server,
\* nor exempt, nor left waiting by it longer than the timeout: although
\* SV_DirectConnect asks for the number only, SV_GetChallenge and
\* SV_AuthorizeIpPacket give the number away to no one else.
AdmittedWasCleared ==
    \A s \in Server, k \in Slots : slots[s][k].state = "LIVE" => slots[s][k].cleared # "no"

\* A row in use is pushed out of a table only when every row is in use: those
\* that SV_AuthorizeIpPacket wiped are taken first (SV_GetChallenge looks for
\* the oldest time, and theirs is 0).
FullBeforeLost ==
    \A s \in Server : \A i, j \in 1 .. Rows :
        i < j /\ rows[s][j].number = 0 => rows[s][i].number = 0

\* The challenge a client holds, the key its packets are encoded with, is that
\* of no row or slot but its own on the server it sends them to, although a
\* late challengeResponse is taken from any address (CL_ConnectionlessPacket
\* takes the address along with the number), a late connectResponse answers
\* another attempt, and rows are pushed out and wiped while they are in use.
OwnChallenge ==
    \A c \in Client : client[c].state \in {"CHALLENGING", "CONNECTED"} =>
        \A s \in Server :
            /\ \A r \in RowOf(s, client[c].challenge) :
                  s = client[c].server /\ rows[s][r].address = c
            /\ \A k \in Slots : slots[s][k].challenge = client[c].challenge =>
                  s = client[c].server /\ slots[s][k].who = c

\* When no packet is late, a connected client and the live slot it has on its
\* server belong to the same connection: the slot was not set up again after
\* the client began its netchan, and both use the same challenge, the key all
\* further packets are encoded with.
SameConnection ==
    \A c \in Client, k \in Slots : client[c].state = "CONNECTED" =>
        LET slot == slots[client[c].server][k]
        IN  slot.state = "LIVE" /\ slot.who = c =>
                slot.heard /\ slot.challenge = client[c].challenge

\* A client that tries to connect does not try for ever: it gets in or is told
\* why not, though any packet may be lost, the authorize server may not answer
\* (if it does, it says yes or no: after "needcdkey" the client asks again) and
\* the server ignores connect packets that come too soon after a connect.
GetsAnAnswer == \A c \in Client :
    client[c].state \in {"CONNECTING", "CHALLENGING"} ~>
        client[c].state \in {"CONNECTED", "DISCONNECTED"}

\* Challenges under packets as late as they like and tables that overflow: one
\* open row for a client, nothing pushed out while there is room, and no
\* challenge that two clients or two servers take for theirs.
ChallengesSound == TypeOK /\ OneOpenRow /\ FullBeforeLost /\ OwnChallenge
================================================================================
