----------------------------- MODULE PacketPump -----------------------------
(***************************************************************************)
(* The event loop of a client and what depends on the order it handles     *)
(* packets in: qcommon/com_event_queue.c and com_event_loop.c,             *)
(* CL_PacketEvent of client/engine/client/cgame_frame.c, the handling of a *)
(* gamestate, which runs the event loop again before it loads the map      *)
(* (CL_DownloadsComplete), and the recording of demos                      *)
(* (demo_recording.c).  The server's side is SV_ExecuteClientMessage,      *)
(* SV_SendClientGameState and SV_SendClientSnapshot for one client.        *)
(* Packets may be lost in both directions but keep their order, as         *)
(* OrderedChannel promises.  No pak is missing, so that every gamestate    *)
(* goes on to CL_DownloadsComplete.                                        *)
(***************************************************************************)
EXTENDS Integers, Sequences, SequencesExt

CONSTANTS
    PushSize,      \* SYS_EVENT_QUEUE_COUNT, 4096
    MaxSequence,   \* bound: messages of the server
    MaxMaps,       \* bound: maps
    MaxCommands,   \* bound: reliable server commands
    MaxUp,         \* bound: packets of the client under way
    MaxRecords     \* bound: "record" commands

ASSUME PacketPumpAssumption ==
    /\ {PushSize, MaxMaps} \subseteq Nat \ {0}
    /\ {MaxSequence, MaxCommands, MaxUp, MaxRecords} \subseteq Nat

VARIABLES
    server,        \* the client_t
    client,        \* cls, clc and cl
    demo,          \* the demo being recorded, and its file
    pushed,        \* com_pushEvents: packets moved there by Com_PushEvent
    real,          \* packets Sys_GetEvent has or will have, oldest first
    up,            \* packets of the client under way, oldest first
    loading        \* gamestates whose handling is suspended, innermost last

vars == <<server, client, demo, pushed, real, up, loading>>

None == -1         \* SERVER_DELTA_MESSAGE_NONE; no gamestate sent yet

\* A server message: its number, what it is, the map it belongs to, the
\* snapshot it is a difference to, and the commands first..upto it carries.
Message ==
    [seq : 1 .. MaxSequence, kind : {"gamestate", "snapshot", "plain"},
     map : 1 .. MaxMaps, base : {None} \cup 1 .. MaxSequence,
     first : 1 .. MaxCommands + 1, upto : 0 .. MaxCommands]

\* A client packet: serverId, messageAcknowledge, reliableAcknowledge, whether
\* it has user commands and whether these allow a difference.
Packet == [id : 0 .. MaxMaps, ack : 0 .. MaxSequence,
           commands : 0 .. MaxCommands, move : BOOLEAN, delta : BOOLEAN]

Init ==
    /\ server = [map |-> 1, phase |-> "connected", gamestate |-> None,
                 delta |-> None, acked |-> 0, issued |-> 0, next |-> 1]
    /\ client = [phase |-> "connected", map |-> 0, cgame |-> 0, incoming |-> 0,
                 message |-> 0, commands |-> 0, snap |-> 0]
    /\ demo = [recording |-> FALSE, waiting |-> FALSE, started |-> 0,
               head |-> [seq |-> 0, map |-> 0, commands |-> 0], file |-> <<>>]
    /\ pushed = <<>> /\ real = <<>> /\ up = <<>> /\ loading = <<>>

-----------------------------------------------------------------------------
(* The server. *)

\* Netchan_Transmit: the message arrives or is lost.
Send(message) ==
    \/ real' = Append(real, message)
    \/ real' = real

\* Gamestates and snapshots repeat the commands the client has not
\* acknowledged; a client not in the game is sent no commands otherwise.
Contents(s, kind) ==
    [seq |-> s.next, kind |-> kind, map |-> s.map,
     base |-> IF kind = "snapshot" THEN s.delta ELSE None,
     first |-> IF kind = "plain" THEN 1 ELSE s.acked + 1,
     upto |-> IF kind = "plain" THEN 0 ELSE s.issued]

SendSnapshot ==
    /\ server.next <= MaxSequence
    /\ LET kind == IF server.phase = "active" THEN "snapshot" ELSE "plain"
       IN  Send(Contents(server, kind))
    /\ server' = [server EXCEPT !.next = @ + 1]
    /\ UNCHANGED <<client, demo, pushed, up, loading>>

AddCommand ==
    /\ server.issued < MaxCommands
    /\ server.phase # "connected"
    /\ server' = [server EXCEPT !.issued = @ + 1]
    /\ UNCHANGED <<client, demo, pushed, real, up, loading>>

\* SV_SpawnServer: the client has to ask for the new gamestate.
ChangeMap ==
    /\ server.map < MaxMaps
    /\ server.gamestate # None
    /\ server' = [server EXCEPT !.map = @ + 1, !.phase = "connected"]
    /\ UNCHANGED <<client, demo, pushed, real, up, loading>>

ResendWithoutAckMutant(s, p) == TRUE

\* The client is past the last gamestate sent and still on another map.
LostGamestate(s, p) == p.ack > s.gamestate

Entered(s, p) ==
    LET active == s.phase # "connected" /\ p.move
    IN  [s EXCEPT !.phase = IF active THEN "active" ELSE @,
                  !.delta = IF p.move /\ s.phase = "active" /\ p.delta THEN p.ack
                            ELSE IF p.move THEN None ELSE @]

\* SV_PacketEvent and SV_ExecuteClientMessage.
ServerReceives ==
    /\ up # <<>>
    /\ LET p == Head(up)
           s == [server EXCEPT !.acked = p.commands]
       IN  \/ /\ p.id = s.map
              /\ server' = Entered(s, p)
              /\ UNCHANGED real
           \/ /\ p.id # s.map /\ LostGamestate(s, p)
              /\ s.next <= MaxSequence
              /\ Send(Contents(s, "gamestate"))
              /\ server' = [s EXCEPT !.phase = "primed", !.delta = None,
                                     !.gamestate = s.next, !.next = @ + 1]
           \/ /\ p.id # s.map /\ ~LostGamestate(s, p)
              /\ server' = s
              /\ UNCHANGED real
    /\ up' = Tail(up)
    /\ UNCHANGED <<client, demo, pushed, loading>>

-----------------------------------------------------------------------------
(* The client's events. *)

RoomMutant(queue) == IF Len(queue) > PushSize THEN Tail(queue) ELSE queue

\* A full ring loses its oldest event.
Room(queue) == IF Len(queue) >= PushSize THEN Tail(queue) ELSE queue

\* Com_PushEvent, from Com_PumpMessageLoop and Com_Milliseconds.
PushEvent ==
    /\ real # <<>>
    /\ pushed' = Append(Room(pushed), Head(real))
    /\ real' = Tail(real)
    /\ UNCHANGED <<server, client, demo, up, loading>>

NextEventMutant == IF real # <<>> THEN "real" ELSE "pushed"

\* Com_GetEvent.
NextEvent == IF pushed # <<>> THEN "pushed" ELSE "real"

\* A record of the demo file: the message, and the number written with it.
Record(m, number) == [number |-> number, message |-> m]

\* CL_WriteDemoMessage, with the number of the message last received.
Written(d, m, number) == [d EXCEPT !.file = Append(@, Record(m, number))]

WriteBeforeParseMutant(d) == FALSE

WriteBeforeParse(d) == d.recording /\ ~d.waiting
WriteAfterParse(d, before) == ~before /\ d.recording /\ ~d.waiting

KeepSnapshotMutant(c, m) ==
    [c EXCEPT !.phase = "loading", !.map = m.map, !.commands = m.upto]

\* CL_ParseGamestate up to the call of CL_InitDownloads.
Gamestate(c, m) ==
    [c EXCEPT !.phase = "loading", !.map = m.map, !.commands = m.upto, !.snap = 0]

\* CL_ParseCommandString for each command, then CL_ParseSnapshot.
Parsed(c, m) ==
    [c EXCEPT !.commands = IF m.upto > @ THEN m.upto ELSE @,
              !.snap = IF m.kind = "snapshot" THEN m.seq ELSE @]

\* A snapshot that is no difference is what a new demo waits for.
Waited(d, m) ==
    [d EXCEPT !.waiting = @ /\ ~(m.kind = "snapshot" /\ m.base = None)]

\* CL_PacketEvent.  The handling of a gamestate is suspended in the event loop
\* of CL_DownloadsComplete; any other message is handled at once, whether in
\* the loop of a frame or in that one.
PacketEvent ==
    /\ pushed \o real # <<>>
    /\ LET m == Head(IF NextEvent = "pushed" THEN pushed ELSE real)
           received == [client EXCEPT !.incoming = m.seq, !.message = m.seq]
           before == WriteBeforeParse(demo)
           early == IF before THEN Written(demo, m, m.seq) ELSE demo
           late == Waited(early, m)
       IN  \/ /\ m.seq <= client.incoming
              /\ UNCHANGED <<client, demo, loading>>
           \/ /\ m.seq > client.incoming /\ m.kind = "gamestate"
              /\ client' = Gamestate(received, m)
              /\ demo' = early
              /\ loading' = Append(loading, [message |-> m, before |-> before])
           \/ /\ m.seq > client.incoming /\ m.kind # "gamestate"
              /\ client' = Parsed(received, m)
              /\ demo' = IF WriteAfterParse(late, before) THEN Written(late, m, m.seq)
                                                          ELSE late
              /\ UNCHANGED loading
    /\ IF NextEvent = "pushed" THEN pushed' = Tail(pushed) /\ UNCHANGED real
                               ELSE real' = Tail(real) /\ UNCHANGED pushed
    /\ UNCHANGED <<server, up>>

UsesDelta(c, d) == c.snap # 0 /\ ~d.waiting /\ c.message = c.snap

\* CL_WritePacket; the packet may be lost.
WritePacket(c, d, move) ==
    LET p == [id |-> c.map, ack |-> c.message, commands |-> c.commands,
              move |-> move, delta |-> move /\ UsesDelta(c, d)]
    IN  \/ Len(up) < MaxUp /\ up' = Append(up, p)
        \/ up' = up

\* There is no event (yet): the nested loop ends, and the rest of
\* CL_DownloadsComplete and of the suspended CL_PacketEvent follows.
LoadMap ==
    /\ loading # <<>> /\ pushed = <<>>
    /\ LET top == Last(loading)
           c == IF client.phase = "loading"
                THEN [client EXCEPT !.phase = "primed", !.cgame = client.map]
                ELSE client
       IN  /\ client' = c
           /\ IF client.phase = "loading" THEN WritePacket(c, demo, FALSE)
                                          ELSE UNCHANGED up
           /\ demo' = IF WriteAfterParse(demo, top.before)
                      THEN Written(demo, top.message, client.message) ELSE demo
    /\ loading' = Front(loading)
    /\ UNCHANGED <<server, pushed, real>>

-----------------------------------------------------------------------------
(* The client's frame, outside of any packet. *)

\* CL_SetCGameTime and CL_FirstSnapshot.
FirstSnapshot ==
    /\ loading = <<>>
    /\ client.phase = "primed" /\ client.snap # 0
    /\ client' = [client EXCEPT !.phase = "active"]
    /\ UNCHANGED <<server, demo, pushed, real, up, loading>>

\* CL_SendCmd; there are user commands once the map is loaded.
SendCmd ==
    /\ loading = <<>>
    /\ WritePacket(client, demo, client.phase \in {"primed", "active"})
    /\ UNCHANGED <<server, client, demo, pushed, real, loading>>

\* CL_Record_f: the header is a gamestate made from the client's own.
StartRecording ==
    /\ loading = <<>>
    /\ ~demo.recording /\ client.phase = "active"
    /\ demo.started < MaxRecords
    /\ demo' = [recording |-> TRUE, waiting |-> TRUE, started |-> demo.started + 1,
                head |-> [seq |-> client.message, map |-> client.map,
                          commands |-> client.commands],
                file |-> <<>>]
    /\ UNCHANGED <<server, client, pushed, real, up, loading>>

\* CL_StopRecord_f leaves clc.demoWaiting as it is.
StopRecording ==
    /\ loading = <<>>
    /\ demo.recording
    /\ demo' = [demo EXCEPT !.recording = FALSE]
    /\ UNCHANGED <<server, client, pushed, real, up, loading>>

-----------------------------------------------------------------------------
Next ==
    \/ SendSnapshot \/ AddCommand \/ ChangeMap \/ ServerReceives
    \/ PushEvent \/ PacketEvent \/ LoadMap
    \/ FirstSnapshot \/ SendCmd \/ StartRecording \/ StopRecording

Spec == Init /\ [][Next]_vars

-----------------------------------------------------------------------------
Waiting == pushed \o real

\* Types of all variables.
ServerRecord ==
    [map : 1 .. MaxMaps, phase : {"connected", "primed", "active"},
     gamestate : {None} \cup 1 .. MaxSequence,
     delta : {None} \cup 1 .. MaxSequence, acked : 0 .. MaxCommands,
     issued : 0 .. MaxCommands, next : 1 .. MaxSequence + 1]
ClientRecord ==
    [phase : {"connected", "loading", "primed", "active"},
     map : 0 .. MaxMaps, cgame : 0 .. MaxMaps,
     incoming : 0 .. MaxSequence, message : 0 .. MaxSequence,
     commands : 0 .. MaxCommands, snap : 0 .. MaxSequence]
FileRecord == [number : 0 .. MaxSequence, message : Message]
DemoRecord ==
    [recording : BOOLEAN, waiting : BOOLEAN, started : 0 .. MaxRecords,
     head : [seq : 0 .. MaxSequence, map : 0 .. MaxMaps, commands : 0 .. MaxCommands],
     file : Seq(FileRecord)]
Suspended == [message : Message, before : BOOLEAN]

TypeOK ==
    /\ server \in ServerRecord
    /\ client \in ClientRecord
    /\ demo \in DemoRecord
    /\ pushed \in Seq(Message) /\ Len(pushed) <= PushSize
    /\ real \in Seq(Message)
    /\ up \in Seq(Packet)
    /\ loading \in Seq(Suspended)

\* Events pushed back are taken again before newer ones (Com_GetEvent): what
\* waits is in the order the server sent it, so that no packet is thrown away
\* for its number.
InArrivalOrder ==
    \A i \in DOMAIN Waiting :
        /\ Waiting[i].seq > client.incoming
        /\ \A j \in 1 .. i - 1 : Waiting[j].seq < Waiting[i].seq

\* The event loop of CL_DownloadsComplete may handle packets inside of the
\* handling of a gamestate, but never another gamestate: the server repeats a
\* gamestate or sends that of a new map only when the client acknowledged a
\* message after the last one (server_client_message.c:556).
NoNestedGamestate ==
    /\ Len(loading) <= 1
    /\ loading # <<>> => client.phase = "loading" /\ client.map = Last(loading).message.map

\* The snapshot shown is of the map that is loaded, whatever was handled while
\* it was loading.
SnapshotOfMap ==
    client.phase = "active" =>
        /\ client.cgame = client.map
        /\ client.snap > server.gamestate \/ client.map # server.map

\* cgame_frame.c:696: a demo holds the messages in the order they were
\* received, each under its own number, though a gamestate's handling may
\* include that of later messages.
DemoInOrder ==
    \A i \in DOMAIN demo.file :
        /\ demo.file[i].number = demo.file[i].message.seq
        /\ demo.file[i].number > (IF i = 1 THEN demo.head.seq ELSE demo.file[i - 1].number)

\* cgame_frame.c:698 calls the snapshot a demo waits for "self-contained":
\* later snapshots of the demo are differences to snapshots of the demo.
DemoDecodes ==
    \A i \in DOMAIN demo.file :
        LET m == demo.file[i].message
        IN  m.base # None => \E j \in 1 .. i - 1 : demo.file[j].number = m.base

\* The messages of a demo continue its header: no server command between is
\* missing and no snapshot belongs to a map whose gamestate is missing.
DemoContinues ==
    \A i \in DOMAIN demo.file :
        LET m == demo.file[i].message
            map == IF i = 1 THEN demo.head.map ELSE demo.file[i - 1].message.map
            known == {demo.head.commands} \cup {demo.file[j].message.upto : j \in 1 .. i - 1}
        IN  m.kind = "snapshot" => m.map = map /\ \E k \in known : m.first <= k + 1

\* The Com_EventLoop that CL_ParseGamestate runs (in CL_InitDownloads) handles
\* packets in the order in which they came, and never a second gamestate.
EventsInOrder == TypeOK /\ InArrivalOrder /\ NoNestedGamestate
=============================================================================
