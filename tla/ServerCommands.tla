--------------------------- MODULE ServerCommands ---------------------------
(***************************************************************************)
(* server/engine/server_commands.c and its callers: the stream of          *)
(* commands ("print this", "configstring i is now v", "disconnect") from   *)
(* the server to one client, kept in a ring until acknowledged and         *)
(* repeated in every snapshot until then.  A command that was never sent   *)
(* may still be replaced by a newer one or culled; one that was sent must  *)
(* not change, because its text is also the key of the packets that        *)
(* acknowledge it.  Messages travel over a Channel each way.               *)
(***************************************************************************)
EXTENDS Channel, FiniteSets

CONSTANTS
    Command,          \* [type, key, value] records: the texts the game issues
    Index, Value,     \* configstring numbers and contents
    RingSize,         \* MAX_RELIABLE_COMMANDS, 64, on both sides
    UnreliableLimit,  \* SERVER_COMMAND_UNRELIABLE_BACKLOG_LIMIT, 32
    MessageRoom,      \* how many commands fit a message of MAX_MSGLEN bytes
    MaxCommands,      \* bound: reliableSequence stays below it
    MaxMessages,      \* bound: messages the server sends
    MaxMaps,          \* bound: maps the server loads
    InFlight          \* bound: messages under way in one direction

ASSUME RingAssumption ==
    /\ RingSize \in Nat \ {0}
    /\ UnreliableLimit \in 1 .. RingSize - 1
    /\ MessageRoom \in Nat \ {0}

ASSUME InFlightAssumption == InFlight \in Nat \ {0}
ASSUME BoundsAssumption == {MaxCommands, MaxMessages, MaxMaps} \subseteq Nat

\* Only SV_SetConfigstring issues "d".
ASSUME CommandAssumption == \A c \in Command : c.type # "d"

VARIABLES
    (* the server *)
    client,               \* client_t of this client, see ClientRecord
    map,                  \* the high four bits of sv_serverId: one per map
    configstrings,        \* sv_configstrings
    (* the wire *)
    toClient, toServer,
    (* the client: clientConnection_t, cl and cgame's cgs *)
    serverId,             \* cl.serverId: the map of its last gamestate
    serverMessageSequence,
    serverCommandSequence,
    serverCommands,       \* clc.serverCommands, a ring of RingSize texts
    snapshot,             \* cl.snap.serverCommandSequence, 0 if there is none
    executed,             \* clc.lastExecutedServerCommand
    gameState,            \* cl.gameState, the client's configstrings
    failure,              \* "none", or why Com_Error left the game
    (* history *)
    firstSent,            \* the text each command number was first sent with
    intact,               \* no command was skipped or overwritten unacknowledged
    carried               \* a map ended with commands not executed yet

historyVars == <<firstSent, intact, carried>>
serverVars == <<client, map, configstrings, historyVars>>
clientVars == <<serverId, serverMessageSequence, serverCommandSequence,
                serverCommands, snapshot, executed, gameState, failure>>
vars == <<serverVars, toClient, toServer, clientVars>>

Send(channel, m) == Sent(channel, InFlight, m)

-----------------------------------------------------------------------------
(* The ring and the rules of replacement *)

Slots == 0 .. RingSize - 1
Slot(n) == n % RingSize          \* n & (RingSize - 1), a power of two

NoText == [type |-> "", key |-> 0, value |-> 0]
Drop == [type |-> "w", key |-> 0, value |-> 0]      \* w "reason"
ConfigCommand(i, v) == [type |-> "d", key |-> i, value |-> v]
Text == Command \cup {NoText, Drop}
          \cup {ConfigCommand(i, v) : i \in Index, v \in Value}

\* The game issues each type of command with one setting of "reliable" only.
IsReliable(c) == c.type \notin {"e", "f", "h", "c", "s"}

Min(S) == CHOOSE n \in S : \A m \in S : n <= m
Max(S) == CHOOSE n \in S : \A m \in S : n >= m

ClientRecord ==
    [state : {"CONNECTED", "PRIMED", "ACTIVE", "ZOMBIE"},
     ring : [Slots -> [text : Text, reliable : BOOLEAN]],
     reliableSequence : Nat,
     reliableSent : Nat,
     reliableAcknowledge : Nat,
     deferredDrop : BOOLEAN,         \* deferredDropReason # NULL
     outgoingSequence : Nat,
     gamestateMessageNum : Int]

Backlog(cl) == cl.reliableSequence - cl.reliableAcknowledge
Unsent(cl) == cl.reliableSent + 1 .. cl.reliableSequence
Unacknowledged(cl) == cl.reliableAcknowledge + 1 .. cl.reliableSequence
Pending(cl, n) == cl.ring[Slot(n)]

\* Whether c, still to be issued, makes the pending text old pointless.
Supersedes(c, old) ==
    /\ c.type = old.type
    /\ c.type \notin {"x", "y", "z"}
    /\ \/ c = old
       \/ c.type \in {"a", "b", "o", "p", "q", "r", "t"}
       \/ c.type \in {"d", "v"} /\ c.key = old.key

ReplaceableMutant(cl, c) ==
    {n \in Unacknowledged(cl) : Supersedes(c, Pending(cl, n).text)}

\* SV_CanReplaceServerCommand
Replaceable(cl, c) ==
    {n \in Unsent(cl) : /\ Pending(cl, n).reliable
                        /\ Supersedes(c, Pending(cl, n).text)}

CullMutant(cl) == [cl EXCEPT !.reliableSequence = cl.reliableSent]
CullOffByOneMutant(cl) == [cl EXCEPT !.reliableSequence = cl.reliableSent - 1]

\* The place of n among the numbers of S.
Rank(S, n) == Cardinality({m \in S : m <= n})

\* SV_CullIgnorableServerCommands.  Numbers that share a slot with a newer
\* one (backlog above RingSize) are reliable and stay where they are.
Cull(cl) ==
    LET kept == {n \in Unsent(cl) : Pending(cl, n).reliable}
        place(n) == cl.reliableSent + Rank(kept, n)
    IN  [cl EXCEPT
          !.reliableSequence = @ - (Cardinality(Unsent(cl)) - Cardinality(kept)),
          !.ring = [s \in Slots |->
              IF \E n \in kept : Slot(place(n)) = s
                THEN Pending(cl, CHOOSE n \in kept : Slot(place(n)) = s)
                ELSE cl.ring[s]]]

\* SV_AddServerCommand makes room: number one more command, or close the gap
\* that the replaced command leaves.
MakeRoom(cl, c) ==
    IF Replaceable(cl, c) = {}
      THEN [cl EXCEPT !.reliableSequence = @ + 1]
      ELSE LET moved == {Slot(n) : n \in Min(Replaceable(cl, c)) ..
                                          cl.reliableSequence - 1}
           IN  [cl EXCEPT !.ring = [s \in Slots |->
                   IF s \in moved THEN cl.ring[Slot(s + 1)] ELSE cl.ring[s]]]

\* The newest command; when the backlog just passed the ring's size, the
\* command that disconnects instead.
Write(cl, c) ==
    LET overflow == Backlog(cl) = RingSize + 1
        slot     == Slot(cl.reliableSequence)
    IN  [cl EXCEPT
          !.ring[slot] = IF overflow
                           THEN [text |-> Drop, reliable |-> TRUE]
                           ELSE [text |-> c, reliable |-> IsReliable(c)],
          !.deferredDrop = @ \/ (overflow /\ cl.state # "ZOMBIE")]

\* SV_AddServerCommand
Add(cl, c) ==
    LET crowded == Backlog(cl) >= UnreliableLimit \/ cl.state # "ACTIVE"
        culled  == IF crowded THEN Cull(cl) ELSE cl
    IN  IF crowded /\ ~IsReliable(c)
          THEN culled
          ELSE Write(MakeRoom(culled, c), c)

\* SV_DropClient
DropClient(cl) ==
    IF cl.state = "ZOMBIE"
      THEN cl
      ELSE Add([cl EXCEPT !.state = "ZOMBIE", !.deferredDrop = FALSE], Drop)

-----------------------------------------------------------------------------
(* Before the first message *)

\* SV_DirectConnect and CL_Connect: both sides start at nothing; the client's
\* first packet asks for a gamestate by naming no map.
Init ==
    /\ client = [state |-> "CONNECTED",
                 ring |-> [s \in Slots |-> [text |-> NoText, reliable |-> FALSE]],
                 reliableSequence |-> 0, reliableSent |-> 0,
                 reliableAcknowledge |-> 0, deferredDrop |-> FALSE,
                 outgoingSequence |-> 1, gamestateMessageNum |-> -1]
    /\ map = 1
    /\ configstrings \in [Index -> Value]
    /\ toClient = <<>> /\ toServer = <<>>
    /\ serverId = 0
    /\ serverMessageSequence = 0
    /\ serverCommandSequence = 0
    /\ serverCommands = [s \in Slots |-> NoText]
    /\ snapshot = 0
    /\ executed = 0
    /\ gameState = [i \in Index |-> 0]
    /\ failure = "none"
    /\ firstSent = <<>>
    /\ intact = TRUE
    /\ carried = FALSE

-----------------------------------------------------------------------------
(* The server issues commands *)

\* The backlog may not pass the ring's size without a slot being overwritten.
Issue(cl) ==
    /\ cl.reliableSequence <= MaxCommands
    /\ client' = cl
    /\ intact' = (intact /\ Backlog(cl) <= RingSize)
    /\ UNCHANGED <<map, firstSent, carried, toClient, toServer, clientVars>>

\* SV_GameSendServerCommand and the broadcasts of SV_SendServerCommand.
SendServerCommand(c) ==
    /\ client.state \in {"PRIMED", "ACTIVE"}
    /\ Issue(Add(client, c))
    /\ UNCHANGED configstrings

SetConfigstringMutant(i, v) ==
    /\ v # configstrings[i]
    /\ configstrings' = [configstrings EXCEPT ![i] = v]
    /\ IF client.state = "ACTIVE"
         THEN Issue(Add(client, ConfigCommand(i, v)))
         ELSE Issue(client)

\* SV_SetConfigstring with a value that fits one command.
SetConfigstring(i, v) ==
    /\ v # configstrings[i]
    /\ configstrings' = [configstrings EXCEPT ![i] = v]
    /\ IF client.state \in {"PRIMED", "ACTIVE"}
         THEN Issue(Add(client, ConfigCommand(i, v)))
         ELSE Issue(client)

\* Time-out, kick, or the client's own "disconnect" command.
Disconnect ==
    /\ client.state # "ZOMBIE"
    /\ Issue(DropClient(client))
    /\ UNCHANGED configstrings

\* SV_SpawnServer: the configstrings of the new map are set while sv.state is
\* SS_LOADING, so they reach the client in its next gamestate only.
SpawnServer ==
    /\ map < MaxMaps
    /\ map' = map + 1
    /\ configstrings' \in [Index -> Value]
    /\ client' = [client EXCEPT
                    !.state = IF @ = "ZOMBIE" THEN @ ELSE "CONNECTED"]
    /\ carried' = (carried \/ executed # client.reliableSequence)
    /\ UNCHANGED <<firstSent, intact, toClient, toServer, clientVars>>

-----------------------------------------------------------------------------
(* The server sends *)

\* SV_UpdateServerCommandsToClient: what the message carries.
Repeated(cl) == [n \in Unacknowledged(cl) |-> Pending(cl, n).text]

MarkSentMutant(cl) == cl
MarkSent(cl) == [cl EXCEPT !.reliableSent = cl.reliableSequence]

\* History: the numbers sent for the first time get their text.
RecordSent(cl) ==
    firstSent' = [n \in 1 .. cl.reliableSequence |->
                    IF n <= Len(firstSent) THEN firstSent[n]
                                           ELSE Pending(cl, n).text]

\* SV_SendMessageToClient: a deferred drop happens after the message was
\* written and before it is transmitted.
Transmit(cl, kind, commands) ==
    LET left == IF cl.deferredDrop THEN DropClient(cl) ELSE cl
    IN  /\ cl.outgoingSequence <= MaxMessages
        /\ client' = [left EXCEPT !.outgoingSequence = @ + 1]
        /\ intact' = (intact /\ Backlog(left) <= RingSize)
        /\ toClient' = Send(toClient,
              [num |-> cl.outgoingSequence, kind |-> kind,
               commands |-> commands, map |-> map,
               sequence |-> cl.reliableSequence,
               configstrings |-> configstrings])

Fits(commands) == Cardinality(DOMAIN commands) <= MessageRoom

\* SV_UpdateServerCommandsToClient_PreventOverflow
Fitting(cl) ==
    [n \in {m \in Unacknowledged(cl) :
              m <= cl.reliableAcknowledge + MessageRoom}
        |-> Pending(cl, n).text]

\* SV_SendClientSnapshot.  A client that is not in the game gets no command
\* and no snapshot; its messages still count as received.
SendClientSnapshot ==
    /\ IF client.state \in {"ACTIVE", "ZOMBIE"}
         THEN /\ RecordSent(client)
              /\ IF Fits(Repeated(client))
                   THEN Transmit(MarkSent(client), "snapshot", Repeated(client))
                   ELSE Transmit(MarkSent(client), "commands", Fitting(client))
         ELSE /\ Transmit(client, "commands", <<>>)
              /\ UNCHANGED firstSent
    /\ UNCHANGED <<map, configstrings, carried, toServer, clientVars>>

\* SV_SendClientGameState, for a client whose fields cl are up to date.
SendClientGameState(cl) ==
    LET primed == [MarkSent(cl) EXCEPT
                     !.state = "PRIMED",
                     !.gamestateMessageNum = cl.outgoingSequence]
    IN  /\ RecordSent(cl)
        /\ Transmit(primed,
                    IF Fits(Repeated(cl)) THEN "gamestate" ELSE "truncated",
                    Repeated(cl))

-----------------------------------------------------------------------------
(* The server receives *)

DecodableMutant(cl, m) ==
    cl.reliableSequence - m.reliableAcknowledge <= RingSize

\* SV_PacketEvent: an acknowledgement a whole ring behind is not decoded (the
\* text that is its key is gone) and everything counts as acknowledged.
Decodable(cl, m) == cl.reliableSequence - m.reliableAcknowledge < RingSize

\* SV_UserMove: the first move of a client that loaded the map.
UserMove(cl) == [cl EXCEPT !.state = IF @ = "PRIMED" THEN "ACTIVE" ELSE @]

\* SV_ExecuteClientMessage, as far as it moves the stream.
Execute(cl, m) ==
    IF cl.state # "ZOMBIE" /\ m.serverId # map
         /\ m.messageAcknowledge > cl.gamestateMessageNum
      THEN SendClientGameState(cl)
      ELSE /\ client' = IF m.serverId = map /\ m.move THEN UserMove(cl) ELSE cl
           /\ UNCHANGED <<firstSent, intact, toClient>>

ReceiveFromClient(i) ==
    LET m == toServer[i]
    IN  /\ toServer' = After(toServer, i)
        /\ IF Decodable(client, m)
             THEN Execute([client EXCEPT
                             !.reliableAcknowledge = m.reliableAcknowledge], m)
             ELSE /\ client' = [client EXCEPT
                                  !.reliableAcknowledge = @ + Backlog(client)]
                  /\ intact' = FALSE
                  /\ UNCHANGED <<firstSent, toClient>>
        /\ UNCHANGED <<map, configstrings, carried, clientVars>>

-----------------------------------------------------------------------------
(* The client *)

\* CL_ParseCommandString over all commands of a message.
News(m) == {n \in DOMAIN m.commands : n > serverCommandSequence}

Stored(m) ==
    [s \in Slots |->
        LET here == {n \in News(m) : Slot(n) = s}
        IN  IF here = {} THEN serverCommands[s] ELSE m.commands[Max(here)]]

Newest(m) == IF News(m) = {} THEN serverCommandSequence ELSE Max(News(m))

\* CL_ParseServerMessage with nothing but commands, nops and the end.
ParseCommands(m) ==
    /\ m.kind = "commands"
    /\ serverCommandSequence' = Newest(m)
    /\ UNCHANGED <<serverId, snapshot, gameState, failure>>

\* CL_ParseSnapshot: the snapshot waits for the commands before it.
ParseSnapshot(m) ==
    /\ m.kind = "snapshot"
    /\ serverCommandSequence' = Newest(m)
    /\ snapshot' = Newest(m)
    /\ UNCHANGED <<serverId, gameState, failure>>

\* CL_ParseGamestate: everything about the last map is forgotten, but not
\* which commands were executed.
ParseGamestate(m) ==
    /\ m.kind = "gamestate"
    /\ serverCommandSequence' = m.sequence
    /\ snapshot' = 0
    /\ serverId' = m.map
    /\ gameState' = m.configstrings
    /\ UNCHANGED failure

\* A gamestate that does not end inside its message is an error.
ParseTruncated(m) ==
    /\ m.kind = "truncated"
    /\ failure' = "bad gamestate"
    /\ UNCHANGED <<serverId, serverCommandSequence, snapshot, gameState>>

\* CL_PacketEvent
ReceiveFromServer(i) ==
    LET m == toClient[i]
    IN  /\ failure = "none"
        /\ toClient' = After(toClient, i)
        /\ serverMessageSequence' = m.num
        /\ serverCommands' = Stored(m)
        /\ \/ ParseCommands(m)
           \/ ParseSnapshot(m)
           \/ ParseGamestate(m)
           \/ ParseTruncated(m)
        /\ UNCHANGED <<serverVars, toServer, executed>>

\* CL_WritePacket: the rest of the packet is encoded with the text of the
\* command it acknowledges.
SendPacket ==
    /\ failure = "none"
    /\ toServer' = Send(toServer,
          [serverId |-> serverId,
           messageAcknowledge |-> serverMessageSequence,
           reliableAcknowledge |-> serverCommandSequence,
           key |-> serverCommands[Slot(serverCommandSequence)],
           move |-> serverId # 0])
    /\ UNCHANGED <<serverVars, toClient, clientVars>>

\* CL_GetServerCommand
Held(n) == serverCommands[Slot(n)]
CycledOut(n) == n <= serverCommandSequence - RingSize

\* CL_ConfigstringModified, for each of these commands in order.
ConfigstringsAfter(numbers) ==
    LET sets(i) == {n \in numbers : Held(n).type = "d" /\ Held(n).key = i}
    IN  [i \in Index |-> IF sets(i) = {} THEN gameState[i]
                                         ELSE Held(Max(sets(i))).value]

\* CG_ExecuteNewServerCommands: cgame runs the commands up to its snapshot,
\* in order, until one disconnects or is no longer held.
ExecuteNewServerCommands ==
    LET drops == {n \in executed + 1 .. snapshot : Held(n).type = "w"}
        last  == IF drops = {} THEN snapshot ELSE Min(drops)
    IN  /\ failure = "none"
        /\ executed < snapshot
        /\ IF CycledOut(executed + 1)
             THEN /\ failure' = "cycled out"
                  /\ UNCHANGED <<executed, gameState>>
             ELSE /\ executed' = last
                  /\ gameState' = ConfigstringsAfter(executed + 1 .. last)
                  /\ failure' = IF drops = {} THEN "none" ELSE "disconnected"
    /\ UNCHANGED <<serverVars, toClient, toServer, serverId,
                   serverMessageSequence, serverCommandSequence,
                   serverCommands, snapshot>>

Next ==
    \/ \E c \in Command : SendServerCommand(c)
    \/ \E i \in Index, v \in Value : SetConfigstring(i, v)
    \/ Disconnect
    \/ SpawnServer
    \/ SendClientSnapshot
    \/ \E i \in 1 .. Len(toServer) : ReceiveFromClient(i)
    \/ \E i \in 1 .. Len(toClient) : ReceiveFromServer(i)
    \/ SendPacket
    \/ ExecuteNewServerCommands

Spec == Init /\ [][Next]_vars

-----------------------------------------------------------------------------
(* Properties *)

\* The values each field may hold.
TypeOK ==
    /\ client \in ClientRecord
    /\ map \in Nat
    /\ configstrings \in [Index -> Value]
    /\ serverId \in Nat
    /\ serverMessageSequence \in Nat
    /\ serverCommandSequence \in Nat
    /\ serverCommands \in [Slots -> Text]
    /\ snapshot \in Nat
    /\ executed \in Nat
    /\ firstSent \in Seq(Text)
    /\ {intact, carried} \subseteq BOOLEAN

\* A command that was sent keeps its number and its text from then until a
\* later one is acknowledged or needs its slot: replacing and culling touch
\* unsent commands only.
SentIsFrozen ==
    intact => \A n \in 1 .. Len(firstSent) :
        /\ n >= client.reliableAcknowledge
        /\ n > client.reliableSequence - RingSize
        => Pending(client, n).text = firstSent[n]

\* Whenever the server decodes a packet, the text it takes from its ring is
\* the text the client encoded with.
KeysAgree ==
    intact => \A i \in 1 .. Len(toServer) :
        Decodable(client, toServer[i]) =>
            toServer[i].key =
                Pending(client, toServer[i].reliableAcknowledge).text

\* Every command cgame may still fetch (CL_GetServerCommand) is the one the
\* server sent under that number, as long as every acknowledgement was decoded,
\* no slot overwritten and no gamestate given up halfway.
Faithful ==
    \A n \in executed + 1 .. serverCommandSequence :
        n > serverCommandSequence - RingSize =>
            serverCommands[Slot(n)] = firstSent[n]
HoldsWhatWasSent == intact /\ failure # "bad gamestate" => Faithful

\* What CL_GetServerCommand's two errors ("not received", "cycled out") say
\* of a client that is not being dropped.  The code does not keep it: see
\* Decodable.
FetchesReceived ==
    client.state # "ZOMBIE" /\ ~client.deferredDrop => Faithful

\* The order in which the two sides' counters must stay.
CountersOrdered ==
    intact => /\ executed <= serverCommandSequence
              /\ snapshot <= serverCommandSequence
              /\ client.reliableAcknowledge <= serverCommandSequence
              /\ serverCommandSequence <= client.reliableSent
              /\ client.reliableSent <= client.reliableSequence

\* A client that is in the game and has executed everything has the
\* configstrings of the server, unless commands of an earlier map were still
\* to be executed when it ended: cgame runs those on top of the gamestate.
Drained ==
    /\ client.state = "ACTIVE" /\ serverId = map
    /\ executed = client.reliableSequence
ConfigstringsConverge == intact /\ ~carried /\ Drained => gameState = configstrings

\* A reliable command leaves the queue only by being sent or by a command
\* that supersedes it, and that one is reliable too.
ReliableStays ==
    [][\A n \in Unsent(client) :
         LET entry == Pending(client, n)
         IN  (entry.reliable /\ intact') =>
               \/ n <= client'.reliableSent
               \/ \E k \in Unsent(client') :
                    /\ Pending(client', k).reliable
                    /\ Supersedes(Pending(client', k).text, entry.text)
                       \/ Pending(client', k).text = entry.text]_client

\* The counters of SV_AddServerCommand, SV_UpdateServerCommandsToClient,
\* SV_PacketEvent and CL_ParseServerMessage keep their types and their order.
WellFormed == TypeOK /\ CountersOrdered

\* The slots of SV_AddServerCommand's ring, those culled and replaced included:
\* what went out is still there for the next message and for the codec.
RingHeld == SentIsFrozen /\ HoldsWhatWasSent

-----------------------------------------------------------------------------
(* The inductive invariant behind them *)

\* The text that command number n went out with.
SentText(texts, n) == IF n = 0 THEN NoText ELSE texts[n]

QueueType(cl, texts) ==
    /\ cl \in ClientRecord
    /\ texts \in Seq(Text)
    /\ Len(texts) = cl.reliableSent
    /\ cl.reliableSent <= cl.reliableSequence
    /\ \A s \in Slots : cl.ring[s].reliable => IsReliable(cl.ring[s].text)

AllReliable(cl) == \A n \in Unsent(cl) : Pending(cl, n).reliable

\* A backlog that passed the limit is reliable throughout, so no command that
\* was sent moves back into a slot when SV_CullIgnorableServerCommands runs.
QueueInv(cl, texts) ==
    /\ cl.reliableAcknowledge <= cl.reliableSent
    /\ Backlog(cl) <= RingSize
    /\ Backlog(cl) > UnreliableLimit => AllReliable(cl)
    /\ \A n \in 0 .. cl.reliableSent :
          n >= cl.reliableAcknowledge /\ n > cl.reliableSequence - RingSize
            => Pending(cl, n).text = SentText(texts, n)

MessageType(m) ==
    /\ m.kind \in {"commands", "snapshot", "gamestate", "truncated"}
    /\ m.num \in Nat /\ m.sequence \in Nat /\ m.map \in Nat
    /\ DOMAIN m.commands \subseteq 1 .. m.sequence
    /\ \A n \in DOMAIN m.commands : m.commands[n] \in Text

PacketType(p) == p.reliableAcknowledge \in Nat

StreamType ==
    /\ TypeOK
    /\ QueueType(client, firstSent)
    /\ IsSequence(toClient) /\ \A i \in 1 .. Len(toClient) : MessageType(toClient[i])
    /\ IsSequence(toServer) /\ \A i \in 1 .. Len(toServer) : PacketType(toServer[i])

\* A message goes on where the client stands, at number, or repeats what it has.
Continues(m, sent, texts, number) ==
    /\ \A n \in DOMAIN m.commands :
          /\ n <= sent
          /\ m.commands[n] = texts[n]
          /\ number + 1 .. n \subseteq DOMAIN m.commands
    /\ m.kind = "gamestate" =>
          /\ number <= m.sequence
          /\ m.sequence <= sent
          /\ number + 1 .. m.sequence \subseteq DOMAIN m.commands

\* No number in m is above k.
UpToNumber(m, k) ==
    /\ \A n \in DOMAIN m.commands : n <= k
    /\ m.kind = "gamestate" => m.sequence <= k

\* The messages under way to a client that stands at number.
ToClientInv(channel, sent, texts, number) ==
    \A i \in 1 .. Len(channel) :
        /\ Continues(channel[i], sent, texts, number)
        /\ channel[i].kind = "gamestate" =>
              \A j \in 1 .. i - 1 : UpToNumber(channel[j], channel[i].sequence)

\* The packets under way from it, to a server that knows of acknowledged.
ToServerInv(channel, acknowledged, texts, number) ==
    \A i \in 1 .. Len(channel) :
        LET n == channel[i].reliableAcknowledge
        IN  /\ acknowledged <= n
            /\ n <= number
            /\ channel[i].key = SentText(texts, n)
            /\ \A j \in 1 .. i - 1 : channel[j].reliableAcknowledge <= n

HeldInv ==
    failure # "bad gamestate" =>
        \A n \in 0 .. serverCommandSequence :
            n > serverCommandSequence - RingSize =>
                serverCommands[Slot(n)] = SentText(firstSent, n)

StreamInv ==
    /\ QueueInv(client, firstSent)
    /\ client.reliableAcknowledge <= serverCommandSequence
    /\ serverCommandSequence <= client.reliableSent
    /\ executed <= serverCommandSequence
    /\ snapshot <= serverCommandSequence
    /\ ToClientInv(toClient, client.reliableSent, firstSent, serverCommandSequence)
    /\ ToServerInv(toServer, client.reliableAcknowledge, firstSent,
                   serverCommandSequence)
    /\ HeldInv

IInv == StreamType /\ (intact => StreamInv)
=============================================================================
