--------------------------- MODULE ClientCommands ---------------------------
(***************************************************************************)
(* The stream of commands from a client to the server ("userinfo ...",     *)
(* "say ...", "disconnect"): CL_AddReliableCommand keeps them in a ring,   *)
(* CL_WritePacket repeats those the server has not acknowledged, and       *)
(* SV_ClientCommand executes each number once.  The text of the last       *)
(* command the server executed is the key of everything it sends back.     *)
(* Messages travel over a Channel each way.                                *)
(***************************************************************************)
EXTENDS Channel, FiniteSetsExt

CONSTANTS
    Text,             \* what the client may issue
    Leave,            \* the text that is the "disconnect" command
    Empty,            \* the text of length 0
    RingSize,         \* CODUO_RELIABLE_COMMAND_COUNT, 64
    MaxCommands,      \* bound: commands issued
    InFlight          \* bound: messages under way in one direction

ASSUME LeaveAssumption == Leave \in Text /\ Leave # Empty
ASSUME RingAssumption == RingSize \in Nat \ {0}
ASSUME InFlightAssumption == InFlight \in Nat \ {0}
ASSUME BoundsAssumption == MaxCommands \in Nat

VARIABLES
    (* the client: clientConnection_t *)
    reliableSequence,
    reliableAcknowledge,
    reliableCommands,     \* a ring of RingSize buffers
    failure,              \* "none", or the error that ended the connection
    (* the wire *)
    toServer, toClient,
    (* the server: client_t of this client *)
    state,                \* "ACTIVE" or "ZOMBIE"
    lastClientCommand,
    lastClientCommandString, \* a buffer
    dropReason,           \* why the server dropped it
    (* history *)
    issued,               \* issued[n] is what command number n was given as
    executed,             \* what the server executed, in order
    intact                \* every command had a text, and fewer than RingSize
                          \* were ever outstanding

clientVars == <<reliableSequence, reliableAcknowledge, reliableCommands,
                failure, issued, intact>>
serverVars == <<state, lastClientCommand, lastClientCommandString, dropReason,
                executed>>
vars == <<clientVars, serverVars, toServer, toClient>>

Send(channel, m) == Sent(channel, InFlight, m)

-----------------------------------------------------------------------------
NoText == "no text"                     \* zeros

\* A buffer holds a text and, where that is empty, shows the codec what an
\* earlier text left behind its terminator.
Zeroed == [text |-> NoText, behind |-> NoText]
WrittenMutant(buffer, text) ==
    [text |-> text,
     behind |-> IF buffer.text = Empty THEN buffer.behind ELSE buffer.text]
Written(buffer, text) ==
    [text |-> text,
     behind |-> IF text # Empty THEN NoText
                ELSE IF buffer.text = Empty THEN buffer.behind
                                            ELSE buffer.text]

\* Texts written one after the other: only the last one that shows and the
\* last one matter.
Overwritten(buffer, texts) ==
    LET Shows  == {k \in DOMAIN texts : texts[k] # Empty}
        before == IF Shows = {} THEN buffer
                                ELSE Written(buffer, texts[Max(Shows)])
    IN  Written(before, texts[Len(texts)])

Slots == 0 .. RingSize - 1
Slot(n) == n % RingSize                 \* n & (RingSize - 1)
Outstanding == reliableSequence - reliableAcknowledge

Init ==
    /\ reliableSequence = 0
    /\ reliableAcknowledge = 0
    /\ reliableCommands = [s \in Slots |-> Zeroed]
    /\ failure = "none"
    /\ toServer = <<>> /\ toClient = <<>>
    /\ state = "ACTIVE"
    /\ lastClientCommand = 0
    /\ lastClientCommandString = Zeroed
    /\ dropReason = "none"
    /\ issued = <<>>
    /\ executed = <<>>
    /\ intact = TRUE

-----------------------------------------------------------------------------
(* The client *)

\* CL_AddReliableCommand's guard.
Overflow == Outstanding > RingSize

AddReliableCommand(text) ==
    /\ failure = "none"
    /\ reliableSequence < MaxCommands
    /\ IF Overflow
         THEN /\ failure' = "EXE_ERR_CLIENT_CMD_OVERFLOW"
              /\ UNCHANGED <<reliableSequence, reliableCommands, issued, intact>>
         ELSE /\ reliableSequence' = reliableSequence + 1
              /\ reliableCommands' =
                    [reliableCommands EXCEPT
                       ![Slot(reliableSequence + 1)] = Written(@, text)]
              /\ issued' = Append(issued, text)
              /\ intact' = (intact /\ text # Empty /\ Outstanding + 1 < RingSize)
              /\ UNCHANGED failure
    /\ UNCHANGED <<reliableAcknowledge, serverVars, toServer, toClient>>

\* The commands CL_WritePacket puts into every packet.
Repeated ==
    [n \in reliableAcknowledge + 1 .. reliableSequence |->
        reliableCommands[Slot(n)].text]

SendPacket ==
    /\ failure = "none"
    /\ toServer' = Send(toServer,
          [first |-> reliableAcknowledge + 1, last |-> reliableSequence,
           commands |-> Repeated])
    /\ UNCHANGED <<clientVars, serverVars, toClient>>

\* CL_PacketEvent: the acknowledgement, then the key it selects.
TooOldMutant(acknowledge) == acknowledge < reliableSequence
TooOld(acknowledge) == acknowledge < reliableSequence - RingSize

KeyMutant(acknowledge) == reliableCommands[Slot(reliableAcknowledge)]
\* CL_Netchan_Decode
Key(acknowledge) == reliableCommands[Slot(acknowledge)]

ReceiveFromServer(i) ==
    LET m == toClient[i]
    IN  /\ failure = "none"
        /\ toClient' = After(toClient, i)
        /\ IF TooOld(m.acknowledge)
             THEN reliableAcknowledge' = reliableSequence /\ UNCHANGED failure
             ELSE /\ reliableAcknowledge' = m.acknowledge
                  /\ failure' = IF m.key = Key(m.acknowledge)
                                  THEN "none" ELSE "illegible server message"
        /\ UNCHANGED <<reliableSequence, reliableCommands, issued, intact,
                       serverVars, toServer>>

-----------------------------------------------------------------------------
(* The server *)

\* The commands of a message that SV_ClientCommand does not skip.
Fresh(m) == {n \in m.first .. m.last : n > lastClientCommand}

\* Executing stops at a command that makes the client a zombie.
UpTo(m) == Min({n \in Fresh(m) : n = m.last \/ m.commands[n] = Leave})

TextsMutant(m) == [k \in 1 .. UpTo(m) - lastClientCommand |->
                      m.commands[m.first + k - 1]]
\* The texts it executes of a message that continues the stream.
Texts(m) == [k \in 1 .. UpTo(m) - lastClientCommand |->
                m.commands[lastClientCommand + k]]

\* The first fresh command is not the next one.
Lost(m) == lastClientCommand + 1 \notin Fresh(m)

\* SV_ExecuteClientMessage's loop over SV_ClientCommand.
ReceiveFromClient(i) ==
    LET m == toServer[i]
    IN  /\ toServer' = After(toServer, i)
        /\ IF state = "ZOMBIE" \/ Fresh(m) = {}
             THEN UNCHANGED serverVars
             ELSE IF Lost(m)
               THEN /\ state' = "ZOMBIE"
                    /\ dropReason' = "EXE_LOSTRELIABLECOMMANDS"
                    /\ UNCHANGED <<lastClientCommand, lastClientCommandString,
                                   executed>>
               ELSE /\ lastClientCommand' = UpTo(m)
                    /\ lastClientCommandString' =
                          Overwritten(lastClientCommandString, Texts(m))
                    /\ executed' = executed \o Texts(m)
                    /\ IF m.commands[UpTo(m)] = Leave
                         THEN /\ state' = "ZOMBIE"
                              /\ dropReason' = "EXE_DISCONNECTED"
                         ELSE UNCHANGED <<state, dropReason>>
        /\ UNCHANGED <<clientVars, toClient>>

\* SV_SendMessageToClient with SV_Netchan_Encode: the acknowledgement is in
\* the clear, the rest is encoded with the text of the command it names.
SendMessage ==
    /\ toClient' = Send(toClient, [acknowledge |-> lastClientCommand,
                                   key |-> lastClientCommandString])
    /\ UNCHANGED <<clientVars, serverVars, toServer>>

ReceiveAny == \E i \in 1 .. Len(toServer) : ReceiveFromClient(i)
ReceiveAnswer == \E i \in 1 .. Len(toClient) : ReceiveFromServer(i)

Next ==
    \/ \E text \in Text : AddReliableCommand(text)
    \/ SendPacket
    \/ ReceiveAnswer
    \/ ReceiveAny
    \/ SendMessage

Spec == Init /\ [][Next]_vars

\* Both programs send again and again (CL_SendCmd and SV_SendClientMessages
\* run every frame), and the network does not lose everything.
Fairness ==
    /\ WF_vars(SendPacket) /\ WF_vars(SendMessage)
    /\ WF_vars(ReceiveAny) /\ WF_vars(ReceiveAnswer)

FairSpec == Spec /\ Fairness

-----------------------------------------------------------------------------
(* Properties *)

\* Only an empty text shows what is behind it.
Buffer ==
    LET Shown == (Text \ {Empty}) \cup {NoText}
    IN  [text : Shown, behind : {NoText}] \cup [text : {Empty}, behind : Shown]

\* The values each field may hold.
TypeOK ==
    /\ {reliableSequence, reliableAcknowledge, lastClientCommand} \subseteq Nat
    /\ reliableCommands \in [Slots -> Buffer]
    /\ lastClientCommandString \in Buffer
    /\ state \in {"ACTIVE", "ZOMBIE"}
    /\ issued \in Seq(Text)
    /\ executed \in Seq(Text)
    /\ intact \in BOOLEAN

\* SV_ClientCommand executes what CL_AddReliableCommand was given: every
\* number once, in order, with its own text.
ExecutesIssued ==
    intact => /\ Len(executed) <= Len(issued)
              /\ executed = SubSeq(issued, 1, Len(executed))

\* A message from the server is always decoded with the text it was encoded
\* with, and no command is taken for lost.
Legible ==
    intact => /\ failure = "none"
              /\ dropReason # "EXE_LOSTRELIABLECOMMANDS"

\* The client never believes more acknowledged than the server executed.
AcknowledgedIsExecuted == intact => reliableAcknowledge <= lastClientCommand

\* CL_AddReliableCommand's overflow error is raised before an outstanding
\* command is overwritten.  It is not: see Overflow.
NoneOverwritten ==
    \A n \in reliableAcknowledge + 1 .. reliableSequence :
        reliableCommands[Slot(n)].text = issued[n]

\* Every command is executed in the end, or the client has left.
EventuallyExecuted ==
    \A n \in 1 .. MaxCommands :
        (reliableSequence >= n) ~>
            (lastClientCommand >= n \/ state = "ZOMBIE" \/ ~intact)

-----------------------------------------------------------------------------
(* The inductive invariant behind them *)

\* The buffer that command number n was written to, if it has a text.
BufferOf(n) ==
    IF n = 0 THEN Zeroed ELSE [text |-> issued[n], behind |-> NoText]

CountsInv ==
    /\ Len(issued) = reliableSequence
    /\ Len(executed) = lastClientCommand
    /\ lastClientCommand <= reliableSequence

RingInv ==
    /\ \A n \in 1 .. reliableSequence : reliableCommands[Slot(n)].text \in Text
    /\ intact =>
         /\ Outstanding < RingSize
         /\ \A n \in 1 .. reliableSequence : issued[n] # Empty
         /\ \A n \in 0 .. reliableSequence :
              n > reliableSequence - RingSize =>
                reliableCommands[Slot(n)] = BufferOf(n)

\* What a packet under way to the server says.
PacketInv(m) ==
    /\ m.first \in Nat \ {0}
    /\ m.last \in Nat
    /\ m.last <= reliableSequence
    /\ \A n \in m.first .. m.last : m.commands[n] \in Text
    /\ intact => /\ m.first <= lastClientCommand + 1
                 /\ \A n \in m.first .. m.last : m.commands[n] = issued[n]

\* What a message under way to the client says.
AnswerInv(m) ==
    /\ m.acknowledge \in Nat
    /\ m.acknowledge <= lastClientCommand
    /\ intact => /\ reliableAcknowledge <= m.acknowledge
                 /\ m.key = BufferOf(m.acknowledge)

ToServerInv ==
    /\ IsSequence(toServer)
    /\ \A i \in 1 .. Len(toServer) : PacketInv(toServer[i])

ToClientInv ==
    /\ IsSequence(toClient)
    /\ \A i \in 1 .. Len(toClient) : AnswerInv(toClient[i])
    /\ \A i, j \in 1 .. Len(toClient) :
          i < j => toClient[i].acknowledge <= toClient[j].acknowledge

ServerInv == intact => lastClientCommandString = BufferOf(lastClientCommand)

IInv == /\ TypeOK /\ CountsInv /\ RingInv
        /\ ToServerInv /\ ToClientInv /\ ServerInv
        /\ ExecutesIssued /\ Legible /\ AcknowledgedIsExecuted
=============================================================================
