------------------------------ MODULE Snapshots ------------------------------
(***************************************************************************)
(* server/engine/server_snapshot_send.c, SV_BuildClientSnapshot of         *)
(* server_snapshot_archive.c and CL_ParseSnapshot of                       *)
(* client/engine/client/server_message_entities.c: what a client sees of   *)
(* the world.  The server writes each snapshot as a difference to one the  *)
(* client has acknowledged.  Both sides keep the latest snapshots in rings *)
(* of frames; a frame refers to consecutive entries of an entity ring and  *)
(* of a client ring, which on the server all clients share.  Messages may  *)
(* be lost but keep their order (Channel).  One client is modelled         *)
(* in full; the others only fill the shared rings.                         *)
(***************************************************************************)
EXTENDS Channel, FiniteSets, FiniteSetsExt

CONSTANTS
    Kind,          \* the two kinds of records, entities and clients
    Number,        \* entity and client numbers
    Value,         \* states of an entity or a client
    Removed,       \* a record that is gone
    World,         \* what there may be to see: [Kind -> [numbers -> Value]]
    OtherWorld,    \* what the other clients see
    Frames,        \* SERVER_CLIENT_SNAPSHOT_FRAME_COUNT, 32
    MaxDelta,      \* SV_SNAPSHOT_MAX_DELTA_FRAMES, 28
    RingSize,      \* numEntityStateSnapshots, numClientSnapshots
    ParseRing,     \* CODUO_PARSE_RING_COUNT, 2048
    Margin,        \* CL_SNAPSHOT_PARSE_SAFETY_MARGIN, 128
    Checked,       \* the kinds whose server ring is checked before use
    Ahead,         \* bound: snapshots of the others for one of this client
    MaxMessages,   \* bound: messages to the client
    MaxMaps,       \* bound: maps
    InFlight       \* bound: messages under way to the client

ASSUME SnapshotsAssumption ==
    /\ Number \subseteq Nat /\ IsFiniteSet(Number) /\ Number # {}
    /\ Value # {} /\ Removed \notin Value
    /\ \A w \in World \cup OtherWorld : \A k \in Kind :
          DOMAIN w[k] \subseteq Number /\ w[k] \in [DOMAIN w[k] -> Value]
    /\ Frames \in Nat \ {0} /\ MaxDelta \in 0 .. Frames - 1
    /\ RingSize \in [Kind -> Nat \ {0}]
    /\ ParseRing \in Nat \ {0} /\ Margin \in 0 .. ParseRing
    /\ Checked \subseteq Kind
    /\ {Ahead, MaxMessages, MaxMaps} \subseteq Nat

ASSUME InFlightAssumption == InFlight \in Nat \ {0}

VARIABLES
    server,        \* the client_t, and the rings of svs
    client,        \* clientActive_t, see Init
    toClient,      \* messages under way, oldest first
    toServer,      \* the packet under way: a set of at most one
    others         \* snapshots the others got since this client's last one

vars == <<server, client, toClient, toServer, others>>

Send(channel, m) == Sent(channel, InFlight, m)

NoDelta == 0
Entry == [number : Number, value : Value]
Slot(n, size) == n % size

\* A frame: where its records of each kind are, and how many.
Frame == [Kind -> [first : Nat, count : Nat]]
NoFrame == [k \in Kind |-> [first |-> 0, count |-> 0]]

\* An entry of cl.snapshots.  "world", here and in messages, is history: what
\* the server built the snapshot from.
NoSnapshot == [valid |-> FALSE, message |-> 0, frame |-> NoFrame, world |-> <<>>]

-----------------------------------------------------------------------------
(* Records in rings *)

\* The records of a world, by number.
Sorted(S) ==
    CHOOSE q \in [1 .. Cardinality(S) -> S] :
       \A i, j \in DOMAIN q : i < j => q[i] < q[j]
Listed(records) ==
    [i \in 1 .. Cardinality(DOMAIN records) |->
        LET n == Sorted(DOMAIN records)[i]
        IN  [number |-> n, value |-> records[n]]]

\* A ring and the counter of the records ever put into it.
Put(r, size, entry) ==
    [ring |-> [r.ring EXCEPT ![Slot(r.next, size)] = entry], next |-> r.next + 1]

\* All entries put in, one after the other: a slot has the last one it got.
PutAll(r, size, entries) ==
    LET Into(s) == {i \in DOMAIN entries : Slot(r.next + i - 1, size) = s}
    IN  [ring |-> [s \in 0 .. size - 1 |->
                     IF Into(s) = {} THEN r.ring[s] ELSE entries[Max(Into(s))]],
         next |-> r.next + Len(entries)]

\* The records a frame refers to, as they are now.
At(r, size, f) ==
    [i \in 1 .. f.count |-> r.ring[Slot(f.first + i - 1, size)]]

Numbers(entries) == {entries[i].number : i \in DOMAIN entries}
ValueOf(entries, n) ==
    entries[CHOOSE i \in DOMAIN entries : entries[i].number = n].value
Contents(entries) == [n \in Numbers(entries) |-> ValueOf(entries, n)]

\* SV_EmitPacketEntities, SV_EmitPacketClients: what is new, what differs and
\* what is gone.  Equal records are not mentioned.
Difference(old, new) ==
    [n \in {m \in Numbers(old) \cup Numbers(new) :
              \/ m \notin Numbers(old) \/ m \notin Numbers(new)
              \/ ValueOf(old, m) # ValueOf(new, m)} |->
        IF n \in Numbers(new) THEN ValueOf(new, n) ELSE Removed]

-----------------------------------------------------------------------------
(* The server *)

EmptyRing(size) == [ring |-> [s \in 0 .. size - 1 |-> CHOOSE e \in Entry : TRUE],
                    next |-> 0]

Init ==
    /\ server = [state |-> "connected", map |-> 1, out |-> 1,
                 acknowledge |-> 0,        \* messageAcknowledge
                 gamestate |-> -1,         \* gamestateMessageNum
                 delta |-> NoDelta,        \* deltaMessage
                 frames |-> [s \in 0 .. Frames - 1 |-> NoFrame],
                 rings |-> [k \in Kind |-> EmptyRing(RingSize[k])]]
    /\ client = [map |-> 0,                \* cl.serverId
                 message |-> 0,            \* serverMessageSequence
                 snap |-> 0,               \* cl.snap.messageNum, 0 for none
                 snapshots |-> [s \in 0 .. Frames - 1 |-> NoSnapshot],
                 parsed |-> [k \in Kind |-> EmptyRing(ParseRing)]]
    /\ toClient = <<>> /\ toServer = {}
    /\ others = 0

\* SV_BuildClientSnapshot: the new frame goes into the slot of the message
\* that will carry it.
BuildClientSnapshot(s, world) ==
    [s EXCEPT
      !.frames[Slot(s.out, Frames)] =
         [k \in Kind |-> [first |-> s.rings[k].next,
                          count |-> Cardinality(DOMAIN world[k])]],
      !.rings = [k \in Kind |->
                   PutAll(s.rings[k], RingSize[k], Listed(world[k]))]]

HeldMutant(s, f) == TRUE

\* The entries of an old frame are still in the rings that are checked.
Held(s, f) == \A k \in Checked : f[k].first >= s.rings[k].next - RingSize[k]

DeltaFrameMutant(s) ==
    IF /\ s.delta > NoDelta /\ s.state = "active"
       /\ Held(s, s.frames[Slot(s.delta, Frames)])
      THEN s.out - s.delta
      ELSE NoDelta

\* SV_WriteSnapshotToClient: how many messages back the difference refers, or
\* NoDelta.
DeltaFrame(s) ==
    IF /\ s.delta > NoDelta /\ s.state = "active"
       /\ s.out - s.delta <= MaxDelta
       /\ Held(s, s.frames[Slot(s.delta, Frames)])
      THEN s.out - s.delta
      ELSE NoDelta

WriteSnapshotToClient(s, world) ==
    LET distance == DeltaFrame(s)
        old == IF distance = NoDelta THEN NoFrame
                                     ELSE s.frames[Slot(s.delta, Frames)]
        new == s.frames[Slot(s.out, Frames)]
    IN  [kind |-> "snapshot", number |-> s.out, distance |-> distance,
         map |-> s.map, world |-> world,
         difference |-> [k \in Kind |->
            Difference(At(s.rings[k], RingSize[k], old[k]),
                       At(s.rings[k], RingSize[k], new[k]))]]

\* A message that carries no snapshot.
Bare(kind, s) ==
    [kind |-> kind, number |-> s.out, distance |-> NoDelta, map |-> s.map,
     world |-> <<>>, difference |-> <<>>]

Post(message) ==
    /\ server.out <= MaxMessages
    /\ toClient' = Send(toClient, message)

\* SV_SendClientSnapshot.  A message that overflows is sent without the
\* snapshot that was built for it; a client that is not active gets none.
SendClientSnapshot(world) ==
    /\ server.state = "active"
    /\ LET s == BuildClientSnapshot(server, world) IN
          /\ \/ Post(WriteSnapshotToClient(s, world))
             \/ Post(Bare("commands", s))
          /\ server' = [s EXCEPT !.out = @ + 1]
    /\ others' = 0
    /\ UNCHANGED <<client, toServer>>

\* A snapshot for another client.
SendOther(world) ==
    /\ others < Ahead /\ server.out <= MaxMessages
    /\ others' = others + 1
    /\ server' = [server EXCEPT !.rings = [k \in Kind |->
                    PutAll(server.rings[k], RingSize[k], Listed(world[k]))]]
    /\ UNCHANGED <<client, toClient, toServer>>

\* SV_SpawnServer: the rings are new, the frames are not.
SpawnServer ==
    /\ server.map < MaxMaps
    /\ server' = [server EXCEPT
                    !.map = @ + 1, !.state = "connected",
                    !.rings = [k \in Kind |-> EmptyRing(RingSize[k])]]
    /\ others' = 0
    /\ UNCHANGED <<client, toClient, toServer>>

-----------------------------------------------------------------------------
(* Packets from the client *)

\* SV_UserMove.  A client's first move makes it active, without a delta.
UserMove(s, wantsDelta) ==
    CASE s.state = "active" ->
           [s EXCEPT !.delta = IF wantsDelta THEN s.acknowledge ELSE NoDelta]
      [] s.state = "primed" ->
           [s EXCEPT !.state = "active", !.delta = NoDelta]
      [] OTHER -> [s EXCEPT !.delta = NoDelta]

\* SV_ExecuteClientMessage.  A client of another map gets the gamestate, at
\* most once until it has acknowledged a later message.
ReceiveFromClient(p) ==
    LET s == [server EXCEPT !.acknowledge = p.acknowledge]
    IN  /\ toServer' = toServer \ {p}
        /\ IF p.map # s.map
             THEN IF p.acknowledge > s.gamestate
                    THEN /\ Post(Bare("gamestate", s))
                         /\ server' = [s EXCEPT !.state = "primed", !.out = @ + 1,
                                                !.gamestate = s.out]
                    ELSE server' = s /\ UNCHANGED toClient
             ELSE /\ server' = UserMove(s, p.delta)
                  /\ UNCHANGED toClient
        /\ UNCHANGED <<client, others>>

-----------------------------------------------------------------------------
(* The client *)

SendPacketMutant ==
    /\ toServer' = {[acknowledge |-> client.message, map |-> client.map,
                     delta |-> client.snap # 0]}
    /\ UNCHANGED <<server, client, toClient, others>>

\* CL_WritePacket: a move that asks for a difference to the last message, if
\* that held a snapshot.  A packet that is still under way is lost.
SendPacket ==
    /\ toServer' = {[acknowledge |-> client.message, map |-> client.map,
                     delta |-> client.snap # 0 /\ client.snap = client.message]}
    /\ UNCHANGED <<server, client, toClient, others>>

Base(c, m) == c.snapshots[Slot(m.number - m.distance, Frames)]

\* CL_ParseSnapshot: whether the snapshot a difference refers to is there.
BaseValid(c, m) == Base(c, m).valid /\ Base(c, m).message = m.number - m.distance

BaseHeldMutant(c, m) == TRUE

BaseHeld(c, m) ==
    \A k \in Kind : c.parsed[k].next - Base(c, m).frame[k].first
                       <= ParseRing - Margin

Valid(c, m) == m.distance = NoDelta \/ (BaseValid(c, m) /\ BaseHeld(c, m))

\* CL_ParsePacketEntities, CL_ParsePacketClients: the old records and the
\* difference are merged by number; an unchanged record is copied from the
\* ring at the moment its turn comes.
Merged(r, f, difference) ==
    LET old == At(r, ParseRing, f)
        present == Numbers(old) \cup DOMAIN difference
        Index(n) == CHOOSE i \in DOMAIN old : old[i].number = n
        Step(s, n) ==
           IF n \in DOMAIN difference
             THEN IF difference[n] = Removed
                    THEN s
                    ELSE Put(s, ParseRing, [number |-> n, value |-> difference[n]])
             ELSE Put(s, ParseRing, s.ring[Slot(f.first + Index(n) - 1, ParseRing)])
        merged[i \in 0 .. Cardinality(present)] ==
           IF i = 0 THEN r ELSE Step(merged[i - 1], Sorted(present)[i])
    IN  merged[Cardinality(present)]

\* The snapshots of the messages between the last one and this one are void.
Skipped(c, n) == {q \in c.snap + 1 .. n - 1 : n - q < Frames}

Invalidated(c, n) ==
    [c EXCEPT !.snapshots = [s \in 0 .. Frames - 1 |->
       IF \E q \in Skipped(c, n) : Slot(q, Frames) = s
         THEN [c.snapshots[s] EXCEPT !.valid = FALSE] ELSE c.snapshots[s]]]

ParseSnapshotMutant(c, m) ==
    IF Valid(c, m)
      THEN [c EXCEPT !.snap = m.number,
                     !.snapshots[Slot(m.number - m.distance, Frames)] =
                        [valid |-> TRUE, message |-> m.number,
                         frame |-> NoFrame, world |-> m.world]]
      ELSE c

ParseSnapshot(c, m) ==
    LET old == IF m.distance = NoDelta THEN NoFrame ELSE Base(c, m).frame
        parsed == [k \in Kind |-> Merged(c.parsed[k], old[k], m.difference[k])]
        frame == [k \in Kind |-> [first |-> c.parsed[k].next,
                                  count |-> parsed[k].next - c.parsed[k].next]]
        after == [c EXCEPT !.parsed = parsed]
    IN  IF Valid(c, m)
          THEN [Invalidated(after, m.number) EXCEPT
                  !.snap = m.number,
                  !.snapshots[Slot(m.number, Frames)] =
                     [valid |-> TRUE, message |-> m.number, frame |-> frame,
                      world |-> m.world]]
          ELSE after

\* CL_ParseGamestate, CL_ClearState
ParseGamestate(c, m) ==
    [c EXCEPT !.map = m.map, !.snap = 0,
              !.snapshots = [s \in 0 .. Frames - 1 |-> NoSnapshot],
              !.parsed = [k \in Kind |-> EmptyRing(ParseRing)]]

\* CL_ParseServerMessage; the messages before this one were lost.
ReceiveFromServer(i) ==
    LET m == toClient[i]
        c == [client EXCEPT !.message = m.number]
    IN  /\ client' = CASE m.kind = "snapshot"  -> ParseSnapshot(c, m)
                       [] m.kind = "gamestate" -> ParseGamestate(c, m)
                       [] m.kind = "commands"  -> c
        /\ toClient' = After(toClient, i)
        /\ UNCHANGED <<server, toServer, others>>

-----------------------------------------------------------------------------
Next ==
    \/ \E w \in World : SendClientSnapshot(w)
    \/ \E w \in OtherWorld : SendOther(w)
    \/ SpawnServer
    \/ \E p \in toServer : ReceiveFromClient(p)
    \/ \E i \in DOMAIN toClient : ReceiveFromServer(i)
    \/ SendPacket

Spec == Init /\ [][Next]_vars

-----------------------------------------------------------------------------
(* Properties *)

TypeOK ==
    /\ server.state \in {"connected", "primed", "active"}
    /\ server.frames \in [0 .. Frames - 1 -> Frame]
    /\ server.delta \in 0 .. server.out - 1
    /\ client.snap <= client.message /\ client.message < server.out
    /\ \A s \in 0 .. Frames - 1 : client.snapshots[s].valid =>
          Slot(client.snapshots[s].message, Frames) = s
    /\ others \in 0 .. Ahead

\* CL_GetSnapshot: the snapshots cgame can still ask for.
GetSnapshot ==
    {x \in {client.snapshots[s] : s \in 0 .. Frames - 1} :
       /\ x.valid /\ client.snap - x.message < Frames
       /\ \A k \in Kind : client.parsed[k].next - x.frame[k].first < ParseRing}

\* CL_ParseSnapshot: "a frame parsed against a lost or aged delta parent is
\* dropped".  Whatever cgame gets for a message is what the server built for it.
AsBuilt ==
    /\ \A k \in Kind : client.parsed[k].ring \in [0 .. ParseRing - 1 -> Entry]
    /\ \A x \in GetSnapshot : \A k \in Kind :
          Contents(At(client.parsed[k], ParseRing, x.frame[k])) = x.world[k]

\* CL_ParseSnapshot calls it "not supposed to happen!": a difference to a
\* snapshot the client does not have, whichever message comes next.
BasesValid ==
    \A i \in DOMAIN toClient :
       toClient[i].kind = "snapshot" /\ toClient[i].distance # NoDelta
       /\ ~(\E j \in 1 .. i - 1 : toClient[j].kind = "gamestate")
         => BaseValid(client, toClient[i])

\* SV_WriteSnapshotToClient names as the base of a difference only what
\* CL_ParseSnapshot will find.
BasesHeld == TypeOK /\ BasesValid
=============================================================================
