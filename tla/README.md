# Verification of Open CoD:UO's multiplayer engine

The repository rebuilds the *Call of Duty: United Offensive* multiplayer client
and dedicated server in C. Most of it is gameplay, rendering and I/O. The part
with protocol state, where the order of events decides what happens, is the
network engine: `src/src/qcommon`, `src/src/server/engine` and
`src/src/client/engine/client`. This directory models that part in TLA+, checks
small instances with TLC and proves the transports, both command streams, the
handshake, the client slots, the bases of snapshots and the client's event loop
with TLAPS. The scripting engine's threads, strings and memory, which are a
protocol of their own inside the server, are modelled as well.

Source paths below are relative to `src/src/` of the repository.

## 1. Inventory

Both programs are single-threaded: each runs frames, and within a frame first
empties the event queue (packets, commands), then runs the game and sends.
Concurrency is therefore between machines: two programs, and a network that
loses, repeats, delays and reorders packets. Everything else that is hard comes
from rings, windows and counters with a limit, from records that outlive what
they describe, and from operations that call each other (a drop inside a send,
a send inside a drop).

| component | state | operations | what makes it correct |
|---|---|---|---|
| netchan (`qcommon/netchan.c`) | sequence numbers, the message being sent in fragments, the one being reassembled | `Netchan_Transmit`, `Netchan_TransmitNextFragment`, `Netchan_Process` | messages arrive whole, in order, at most once |
| server command stream (`server/engine/server_commands.c`, `server_configstrings.c`, `server_snapshot_send.c`, `server_client_gamestate.c`; client: `server_message_entities.c`, `server_commands.c`, cgame) | a ring of 64 commands and three counters per client; the client's ring, counters, configstrings | issue, replace, cull, send, gamestate, snapshot, acknowledge, execute | what was sent never changes; both sides agree on codec keys; reliable commands arrive; configstrings converge |
| client command stream (`reliable_commands.c`, `cgame_frame.c`, `client_netchan.c`; server: `server_client_message.c`) | a ring of 64 commands; last executed number and text | `CL_AddReliableCommand`, `CL_WritePacket`, `SV_ClientCommand` | each command once, in order, with its text; answers stay decodable; everything is executed in the end |
| server client slots (`server_connect.c`, `server_client_maintenance.c`, `server_client_release.c`, `server_packet.c`, ...) | `svs.clients`, script arrays, the game VM's clients | connect, packet, drop, kick, time-out scan, map change | no leaked or shared script array; the game and the server agree; packets reach the right slot; slots come free |
| challenges, authorization (`server_authorize.c`, `server_connect.c`) | `svs.challenges`, a table of 1024 rows | getchallenge, authorize answer, time-out, connect | a number belongs to one client; nobody gets in who was not cleared; no row is pushed out while there is room |
| client connection states (`client_lifecycle.c`, `connectionless.c`) | `cls.state`, retry timers, `clc.challenge` | connect, retry, challenge and connect responses, errors, disconnect | a client gets in or an answer; its challenge is its own; when nothing is late, its netchan and its slot belong to the same connection |
| downloads (`server_download.c`, `download_protocol.c`, `server_message_entities.c`) | a window of 8 blocks per client; the client's file, name and list | begin, next, stop, retransmit, redirect, the end | blocks in order, window never overrun, a pak under its own name, all paks in the end |
| snapshots and deltas (`server_snapshot_send.c`, `server_snapshot_archive.c`, `server_message_entities.c`) | 32 frames per client, rings of records shared by all clients | build, difference, acknowledge, parse | a difference refers only to what both sides still hold; the client sees what was built |
| event queue, loopback, demo recording (`com_event_queue.c`, `com_event_loop.c`, `net_loopback.c`, `cgame_frame.c`, `demo_recording.c`) | the pushed events, two rings, the demo file | push, pump, nested pump; send, get; record, write, stop | packets are handled in the order they came; a ring loses only what was overwritten; a demo is in order |
| script threads (`scripting/script_notify.c`, `script_thread.c`, `script_vm.cpp`, `script_variable.c`) | the stack of running threads, time lists, wait and pause buckets, reference counts | call, thread, wait, waittill, endon, notify, free entity, set time, shutdown | no leak, no dangling reference, no lost or doubly ended thread |
| script strings and memory (`scripting/script_string.c`, `script_memory.c`) | hash slots that are rings and a free list at once; trees of free runs threaded through the arena | intern, find, release, transfer, shut down; allocate, free, grow | every string found and counted; no block dealt out twice or lost |
| command buffer, cvars | text buffer, latched values | add, insert, execute, wait; set, latch | not modelled |
| hunk | two stacks with marks and temporaries | allocate, swap, clear to mark | not modelled |
| master heartbeat | time of the next one | heartbeat, on-demand | not modelled |
| game and cgame rules, renderer, sound, ui, filesystem, collision | floating-point state, devices | | out of scope |

How they interact: `SV_PacketEvent` finds the slot, gives the packet to the
netchan, decodes it with a key from the *server command* ring, and executes the
*client commands* in it, one of which may drop the client, which issues a server
command. `SV_SendMessageToClient` encodes with the text of the last *client
command*. So the two command streams are each other's keys, and both ride on the
netchan, which is why the netchan comes first and why the frozenness of ring
slots is the central property of both streams.

`PROJECT.json` lists the hazards with their lines.

`SV_DirectConnect` is where the handshake hands over: `Handshake` models how a
client comes to send a `connect` packet with a valid challenge, `ServerClients`
which slot it gets. The gamestate that a new client is sent goes through the
server's command stream, starts its downloads, and pumps the event loop on the
client, inside of which the next packets are handled (`PacketPump`).

## 2. Modules

| module | models | role |
|---|---|---|
| `OrderedChannel` | what a transport promises: numbered messages, delivered unchanged, at most once, in order, or lost | abstract specification |
| `Netchan` | one direction of a netchan over UDP | refines `OrderedChannel` |
| `Loopback` | one direction of the ring between client and server of one process | refines `OrderedChannel` |
| `Channel` | one direction of a connection as seen above the netchan: the messages under way | extended by `ServerCommands`, `ClientCommands` and `Snapshots`; behaves like `OrderedChannel` |
| `ServerCommands` | server to client commands with one client | extends `Channel` |
| `ClientCommands` | client to server commands and the key of the answers | extends `Channel` |
| `ServerClients` | the slots of all clients | |
| `Handshake` | challenges, authorization and connecting | precedes `ServerClients` |
| `FileCopy` | a file copied block by block, saved whole | abstract specification |
| `Download` | both ends of a download | refines `FileCopy`; uses `OrderedChannel` and what `ClientCommands` provides |
| `Snapshots` | snapshots as differences, with all the rings they live in | extends `Channel` |
| `PacketPump` | the client's event loop, nested in a gamestate, and a demo being recorded | uses channels that behave like `OrderedChannel` |
| `ScriptThreads` | script threads and the objects they hang on | |
| `Arena` | what an allocator promises | abstract specification |
| `ScriptMemory` | the buddy allocator and its threaded trees | refines `Arena` |
| `ScriptStrings` | the table of interned strings | |
| `*Proofs`, `SharedLemmas` | | theorems, and the lemmas they share |
| `MC*` | constants for TLC | |

`MCTransport` and `MCScriptStore` each put two independent machines into one
run: a variable that never changes says which of the two is running. Nothing is
composed by that; it lets one search visit both.

Invariants that belong together are conjunctions of named parts (`SlotsAgree`,
`ThreadsLinked`, `ArenaSound` and so on, at the end of each module); the parts
say what they mean, the runs name the conjunctions. The type invariant is one of
the parts wherever the runs do not name it.

### Netchan

`net` is the set of all packets ever sent; `Process` takes any of them, any
number of times. That one action is loss, duplication, delay and reordering.
Messages are sequences of bytes; in the model a byte names its message and its
place, so any splice shows. `Short` is `MSG_WriteShort`/`MSG_ReadShort` with its
wrap. `Transmit` carries its callers' guard (`SV_SendClientMessages` and
`CL_WritePacket` transmit a new message only when no fragment is left).
`TransmitImmediately` is what two callers do instead: the drop of an unpure
client and `SV_FinalMessage` send at once. `SpecImmediate` includes it; there
whole messages are not guaranteed, because the rest of an abandoned message is
replaced under the same sequence number, but `BytesInPlace` still is.

### ServerCommands

The record `client` is the part of `client_t` this stream uses, the ring with
its counters included; the operators `Replaceable`, `Cull`, `MakeRoom`, `Write`
and `Add` are the functions of `server_commands.c` on that record, and
`DropClient`, `Transmit`, `SendClientGameState` compose them as the C functions
call each other (a deferred drop adds a command *after* the message is written).
Commands are records `[type, key, value]`: the type is the first letter, on which
the rules of replacement depend, the key is a configstring number. Texts are
compared, never formatted. `Command` holds no "d": only `SV_SetConfigstring` issues
that one (`CommandAssumption`). `ReceiveFromServer` is one message: its commands
(`Stored`, `Newest`), then one of `ParseCommands`, `ParseSnapshot`,
`ParseGamestate`, `ParseTruncated` for the rest. That a snapshot's delta may refer
to a frame no longer held, and is then dropped, is not modelled; like a lost
message, it only delays.

Things a reader of the code should know, found while modelling:

- The ring holds 64 commands, but only 63 may be outstanding: the slot of the
  acknowledged command is the codec's key (`Decodable`).
- Unreliable commands are added only below a backlog of 32 (`UnreliableLimit <
  RingSize`), so culling never meets a slot that was used twice.
- Whether a command is reliable is a function of its letter in all callers
  (`IsReliable`).
- `SV_UpdateServerCommandsToClient` marks every command sent even when only a
  prefix fitted the message; this is safe, since "sent" only forbids changes.

`intact` is history: FALSE once a ring slot was overwritten or skipped
unacknowledged. After that the code itself drops the client, or (finding 1)
fails to.

### ClientCommands

A buffer is a text and what an older text left behind its terminator
(`MSG_WriteReliableCommandToBuffer` writes over the old text and the codec reads
up to the terminator, but uses the first byte in any case). `Written` models
that, which matters for empty commands; `Overwritten` is several texts written in
turn. `ReceiveFromClient` is the loop of
`SV_ExecuteClientMessage` over `SV_ClientCommand`: skip, execute, or drop for a
gap; stop at a zombie. `CL_ChangeReliableCommand` and `CL_MakeMonkeyDoLaundry`
never run (their flag is never set) and are left out. Commands are at most 1024
bytes everywhere and the normalisation of text by `MSG_WriteString` /
`MSG_ReadString` is idempotent, so a text is one value on both sides.

### ServerClients

`slot` is `svs.clients`, free slots included with the stale address they keep,
because `SV_DirectConnect` reads it. Times are ages (`svs.realTime -
lastPacketTime`), saturating one above the largest limit: all comparisons are
with limits, so larger ages are not told apart. `newest` is history: where the
last accepted connection of an address and qport went.

`Frame` is `SV_Frame` as far as it concerns slots: time advances and
`SV_CheckTimeouts` scans. `NewGame` is the common part of `SV_SpawnServer` and
`SV_MapRestart_f`: the old game's shutdown may exchange all script arrays
(`SV_FreeClientScriptPers`, which it calls unless the script asked to keep
them), the warm-up frames advance time, the new game is told of each live client
and may reject it, and, because `sv.state` is `SS_LOADING`, it does not hear of
the drop. The game's choice, reject or not, is free.

Not modelled: the challenge and ping gates of `SV_DirectConnect` (they only
refuse), `lastPacketTime` in the future (the clock never goes back), a drop of a
free slot by the script (the game names connected clients only), heartbeats,
`SV_ChangeMaxClients`, shutdown.

### Loopback

A ring of `RingSize` messages and two counters, of which the writer never looks
at the reader's. The counters are unbounded (2^31 messages do not occur); the
contents are opaque, except that some are too long and refused. A fragmented
message of more than a ring of fragments would lose its first ones; the code
sends at most 16,384 bytes in 13 fragments unless the message is near
`MAX_MSGLEN`, and `OrderedChannel` allows the loss.

### Handshake

A client is an address; what ports and qports do is in `ServerClients`. The rows
of the challenge table are a sequence from the oldest to the newest, which is
what `SV_GetChallenge`'s search for the oldest comes to. One field of a row is
history: `cleared`, by what right its number was given away. A new number is one
that nobody holds any more; `MaxNumber` bounds how many there are, and
`GetChallenge` waits when none is left. Times are in seconds and are ages. Refusals that depend on what is not modelled (pings, PunkBuster, the
game, bans) may happen or not. `Prompt` says that a packet is under way for no
longer than a second and never from one attempt into the next. UDP promises no such
thing, so only `handshake_live` assumes it: `SameConnection` is false without it
(section 5), and `GetsAnAnswer` is checked there. `ChallengesSound` and
`AdmittedWasCleared` are checked, and proved, without it.
`Exempt` clients are those `SV_GetChallenge` answers without asking: the LAN, or
everyone in the default build (`CODUO_DISABLE_SERVER_AUTH`). The reset of a row
in `SV_DropClient` needs a client without an entity and does not happen, so each
connection uses up a row; the table's size is what bounds that.

Not modelled: the ban file, the cache of kicked GUIDs, autoupdate servers, the
loopback client, demos.

### Download

`download` is `client_t.download*`. A snapshot may carry several blocks; the
client takes a message's records one at a time, and the server may act between
two of them. The server waits when the channel is full: messages are lost only by
`Lose`. A command of two words has an underscore (`wwwdl_ack`). What kind of connection it is (which paks the
client lacks, which the server gives away, whether it redirects, whether
messages are lost) is in `session` and does not change. `Parse` is
`CL_ParseServerMessage` and `CL_ParseDownload`, `NextDownload_f` the server's
`SV_NextDownload_f`. `Prompt`
again says that everything under way arrives before a timer runs out; without it
answers come late, and what the code does then is part of the model.

Not modelled: `wwwDlDisconnected` and URLs handed to the system, checksum
failures, autoupdate, read errors, a map change during a download.

Things found while modelling: a server that redirects sends nothing at all to a
client that does not follow (`cl_wwwDownload 0`), for ever. A redirect that
failed is tried again but never falls back in band. A pak the client cannot
write is asked for again and again. Block numbers wrap at 2^15, so a pak of
64 MB or more never completes; in band, a pak that cannot be written lets a later
one be saved under a wrong name (section 5).

### Snapshots

One client is modelled in full; the others only advance the shared rings
(`Ahead` records between two snapshots at most). A world is a function from
numbers to values for each of the two kinds of records. A message carries the
world it was built from as history, and `AsBuilt` compares it with what the
client holds. `Checked` is `{entities}` because that is the one ring
`SV_WriteSnapshotToClient` checks. Bounds stand for the code's: 3 of 32 frames,
a `MaxDelta` of 2 (28), rings of a few records (the server's entity ring has
2048 per client, the client's parse ring 2048), a `Margin` of 1 (128). Records go
into the server's rings one at a time; `PutAll` says what a whole snapshot's worth
of them leaves: every slot has the last one it got.

Not modelled: visibility (what a world is), the archive for kill cams, rate
control.

### PacketPump

`CL_DownloadsComplete` runs the event loop again before it loads the map, so a
packet can be handled inside the handling of a gamestate. `NextEvent`,
`PushEvent` and `Room` are the queue of `com_event_queue.c` into which packets go
that are read while somebody only asks for the time. The nested loop ends when no
event is there, as the code's does. The demo file is a sequence of what
`CL_WriteDemoMessage` writes. Packets are lost but not reordered, which the
netchan sees to.

Not modelled: disconnects, playback, missing paks (see `Download`).

### ScriptThreads

A heap of numbered objects (threads, entities, level) with counts; lists are
newest first, as the code links them. Each handler of `script_notify.c` is an
operator on the heap, and an opcode composes them as the C functions call each
other. `Matching` lets `waittillmatch` skip a frame whose arguments differ,
whatever they are. `wrong` becomes TRUE when a handler finds an entry it relies
on missing, which the C code does not test. Time keys have `TimeKeys` values
(2^24); `OnTime` speaks of what happens short of the wrap. A thread hit by its
own `endon` while it is the one that notifies is not ended; that is how the code
is, and `EndOnEnds` says so.

### ScriptMemory and ScriptStrings

Both keep the links as the code keeps them, since what can go wrong is in them.
`ScriptMemory` scores, inserts and removes as `MT_AddMemoryNode` and
`MT_RemoveMemoryNode` do. `refused` is the size of the request that was just
refused, if one was, so that `Arena` can say of that very size that it is invalid or
that no free run would hold it. `ScriptStrings` takes the hash of a text as given and
the arena as inexhaustible; the table after a failed allocation is not modelled
(`Scr_TerminalError` ends the game then), nor is the `Com_Error` for a reference
count that overflows (`script_string.c:95`), which comes after the owner's bit was
set: `MaxReferences` keeps the counts below it. `held` and `claimed` are the callers'
side: who holds which references.

## 3. Runs

All bounds are constants in the `.cfg` files.

| run | states | what it shows |
|---|---|---|
| `transport` | 69,806 | fragments of two bytes, messages of 1, 3, 4 (an exact multiple) and 5 bytes, three messages; or eight messages through a ring of three: intact, in order, and both refine `OrderedChannel` |
| `server_commands` | 1,020,116 | an unreliable type (`e`) and configstrings over a ring of 3, one command per message, two maps |
| `server_commands_skipped` | violation | finding 1 |
| `client_commands` | 138,934 | ring of 3, four commands, empty ones and disconnect; every command is executed in the end |
| `server_clients` | 49,444 | two slots, one private, two qports and two ports at one address, test clients; the slots of silent clients come free |
| `download` | 8,800 | a pak of five blocks through a window of four, with losses and timers at any time; four paks in turn, in band or redirected, two not writable, one refused |
| `snapshots` | 622,974 | five messages over two maps with rings of three frames |
| `handshake` | 1,404,148 | packets and answers as late as they like: an exempt client and one to be cleared on a server with two rows, which overflow, and one slot; or a client between two servers; all verdicts |
| `handshake_live` | 79,670 | nothing is late: one client, three attempts, the times in the order of the code's, "accept" and "deny"; it is answered in the end |
| `packet_pump` | 936,194 | six messages, two maps, a queue of two |
| `script_threads` | 113,560 | three threads, an entity and level, two delays over a frame of two milliseconds |
| `script_store` | 124,542 | sixteen blocks, six sizes, five runs out; or four texts, three of one hash, four slots, two owners |

**Configurations beside the runs.** They show behaviour of the code that a
reader should know, each by a counterexample to a property that is otherwise
plausible (section 5), or explore a variant: `MCTransportImmediate` (abandoned
messages: order holds, and every byte is still where it was sent from, though
whole messages are not promised any more), `MCClientCommandsOverflow`,
`MCServerClientsTestZombies`, `MCDownloadNext`, `MCDownloadUnwritable`,
`MCDownloadRedirectLate`, `MCDownloadGameState`, `MCSnapshotsClients`, `MCSnapshotsCrowd`,
`MCPacketPumpDecodes`, `MCPacketPumpContinues`.

**Why the bounds are enough.** Messages of up to three fragments cover first,
middle and last fragment and the empty last one; three messages let an old, a
current and a new one meet. A ring of 3 wraps and overflows; the unreliable
limit of 2 lies below it as 32 below 64. Two messages in flight allow a stale
one and a current one; a full channel loses its oldest, so loss of any message
is possible, and `After` loses those overtaken. Two maps give packets of the old
and the new. Two slots with a free, a zombie and a live one among them in turn,
and one NAT address with two ports and two qports, are what the routing rule can
confuse; the times are small numbers, and where an order between them matters
(`handshake_live`) it is the code's. A window of four and a pak of five make the
window wrap. Rings of three frames and five messages make every frame's slot be
used again. Three script threads are a caller, a callee and one that waits for
them. An arena of sixteen blocks has runs of five lengths; three strings of one
hash make a ring that has a middle, and four slots let it grow into a slot another
hash needs and leave one free, so that `Evict` walks the ring over more than one link.
In the scenes of `handshake` the exempt client's connections use up both rows, so that
the other's row is pushed out while it waits for the authorize server, while it holds the
challenge and while it is in the game; answers come for rows that are gone, or whose
client is in the game already. The crowd has one packet under way at a time, besides
the questions to the authorize server; packets that overtake each other are in the
other scene. `handshake_live` leaves "needcdkey" out: a client whose key the authorize
server never accepts, and whose own check of it does, asks again each time, for ever.

**Constraints and deadlock.** `InGame` in the `ServerCommands` runs stops the
search in states where `intact` is already FALSE or the client has failed: both
are permanent and every property is then vacuous. Deadlock is not checked where
the bounds (`MaxMessages`, `MaxCommands`, `MaxAttempts`) or a finished client end
the behaviour; the script machines and `ServerClients` have no such end and check
it.

**Fairness.** `ClientCommands!Fairness`: both programs send every frame for as
long as they run (`CL_SendCmd`, `SV_SendClientMessages`), and the network does
not lose every packet: weak fairness of sending and of receiving some message.
Receiving stays enabled once a message is in the channel, because a full
channel replaces messages rather than emptying. `ServerClients!FairSpec`: the
server runs frames. (`SV_CheckPaused` stops the clock of a listen server with
one player; nothing is claimed then.) `Download!Fairness`: frames and snapshots
go on (weak), a block that is sent again and again arrives and a transfer that
is begun again and again succeeds (strong, since losses disable them in between).
`Handshake!Fairness`: the clock goes on and the client's frames run (weak), and
each kind of packet gets through when it is sent again and again (strong).
Nothing else is fair: nobody has to connect, send or leave.

## 4. Proofs

Each `*Proofs` module extends the module that TLC checks, so both speak of the
same definitions. Every invariant proved is a consequence of an inductive one,
`IInv`, for which each module has `Initially`/`Init => IInv`, one lemma per action
(or per operator that an action is made of) and `Invariance`.

**The transports.** `TransportProofs`, for all message sets, fragment sizes, buffer
sizes and numbers of messages: `TypeCorrect`, `Intact` (`DeliveredIntact`),
`InOrder` (`DeliveredInOrder`), `Refinement` (`ImplementsOrderedChannel`). The
assumptions are that the fragment size is positive and fits a short, that a
message's length is at most 2^15, and that no multiple of the fragment size is
2^15 (2^15 is not divisible by 1300), so no offset wraps. That a delivered message
is right depends on the reassembly buffer, that on the packets in the network,
those on the message being cut up; so `IInv` adds `SenderInv` (one message per
sequence number, fragments cut at multiples of the fragment size), `NetInv` (each
packet carries its stretch of `sent[seq]`, and a short fragment ends it),
`ReassemblyInv` (the buffer is a beginning of `sent[fragmentSequence]`) and
`DeliveredUpToIncoming`. The key lemmas say that a beginning extended by the
adjacent stretch is a longer beginning, and that a beginning which reaches the end
is the message. The refinement maps `Transmit` to `Send`, an accepting `Process`
to `Deliver`, everything else to a stutter.

For rings of any size and readers of any pace:
`MissesOnlyOverwritten` (`SkippedWereOverwritten`) and `LoopbackIsOrderedChannel`
(`RingImplementsOrderedChannel`). What is in slot n of the ring is the last
message sent with that remainder, hence one less than a ring old.

**Downloads.** `TransportProofs` too, for any set of paks, sizes, window and budget
of blocks and any session that is `Tame`: `ServerAnswers` (`ServerHolds`),
`PaksSavedWhole` (`SavedWhole`), `PakRefinement` (`ImplementsFileCopy`). `Tame`
says which connections the code answers for, and each part of it is needed: findings
4, 5 and 10 violate `SavedWhole` in sessions that lack just that part.

- In band the client can write the paks it lacks (10), and either nothing is lost and
  no timer runs out early, or the client lacks one pak only (4). So the theorems cover
  a single pak over a network that loses and delays anything, and any number of paks
  over one that does not.
- With redirects no timer runs out early (5). Messages may be lost, and whether the
  client can write the paks does not matter.

`PakIInv` is `PakTyped` and, as the server redirects or not, one of two invariants:

- `InBand`. A block does not name its pak, so what must be kept is that each one under
  way is one of the pak that its receiver takes it for. `WantsMore` (the
  client has asked for a pak and the server has not begun it) divides the life of a
  connection, and `Phases` says what else holds then: the last block of the old pak is
  acknowledged before the new one is asked for, and no block that is under way then can
  pass for one of it. `CommandsFit` says that the "nextdl"s under way are those that the
  server waits for, each once and in order, which is why it never drops the client for a
  "broken download"; `RecordsFit` that a block with the number the client waits
  for has the data of that number. This is where the 16-bit block numbers matter:
  two numbers no more than a window apart agree in 16 bits only if they are
  equal (`Window <= ShortLimit`). `ClientCopies` says that what was written is a beginning
  of the pak, `ServerServes` that the window holds what the file has at those places.
- `ByRedirect`. The exchange is a cycle of phases: the client has asked (`Wishing`); the
  server answered with a refusal or the gamestate (`Waiting`), or repeats the URL
  (`Offering`); it was taken and the transfer goes on (`Following`); it ended well
  (`Ending`) or badly (`Withdrawing`, `Again`). Each phase says what exactly is under way
  in both directions.

Every step is also a step of `FileCopy` or leaves its variables alone (`Copies`, one
lemma for each kind: `CopyStays`, `CopyBegins`, `CopyGrows`, `CopySaved`), which is the
refinement. The session `InTurn(FALSE)` of the run `download` is not `Tame` (its third
pak cannot be written; the fourth is refused): that nothing goes wrong there, with two
of the paks unwritable at the end of the list, TLC shows and no theorem.

**The client's commands.** `ClientCommandsProofs`, for every ring size, set of
texts, channel capacity and number of commands: `TypeCorrect`, `Executes`
(`ExecutesIssued`), `AlwaysLegible` (`Legible`), `Acknowledged`
(`AcknowledgedIsExecuted`). The last three speak of `intact`: no command was empty
and fewer than `RingSize` were outstanding. Finding 2 is why they must. `IInv`
joins them with `CountsInv` (the counters count what was issued and executed),
`RingInv` (every number less than a ring old has its own text in its slot),
`ToServerInv` (a packet continues the stream, and repeats what was issued),
`ToClientInv` (acknowledgements arrive in order, and each is encoded with the text
it names) and `ServerInv` (the server's buffer holds the text of its last
command). The argument is a cycle, which is why none of them is inductive alone:
acknowledgements name executed commands, so the ring still holds their texts, so
packets repeat what was issued without a gap, so what is executed is what was
issued, so acknowledgements name executed commands.

**The server's commands.** `ServerCommandsProofs`, for every ring size, limit of
unreliable commands below it, set of commands, message room, channel capacity and
number of maps: `CountersStayOrdered` (`WellFormed`), `SentStaysSent` (`RingHeld`),
`SameKey` (`KeysAgree`), `ReliableIsKept` (`ReliableStays`, an action property).
Again they speak of `intact`, and finding 1 is why. The argument has two halves:

- *The queue.* `SV_AddServerCommand` may cull, close a gap or write over the slot
  behind the last. `QueueInv` says that a backlog above the limit is reliable
  throughout. Hence culling either meets a backlog whose numbers all have slots of
  their own (`SpanApart`), and moves unsent ones down in order (`Ranks`), or it
  culls nothing; in both cases no slot of a command that was sent is touched
  (`CullKeeps`, `EnteredKeeps`, `AddKeeps`), and each reliable command is still
  there or superseded (`Survives`).
- *The cycle.* Acknowledged is at most received, received at most sent. A message
  starts at the acknowledged number and has no gaps (`WithoutGaps`), so it goes on
  where the client stands (`Continues`); so what the client stores are the texts
  as first sent, without a hole (`StoredHolds`); so the packet it answers with is
  encoded with the text that the server's slot of that number still has
  (`SentText`), and its acknowledgement is at most what was received. Messages
  that were overtaken are lost, so neither number goes back (`ToClientInv`,
  `ToServerInv`); a gamestate in the channel is never behind what is in front
  of it.

*Configstrings converge.* `Converges` (`ConfigstringsConverge`): whatever is lost,
replaced or culled, a client in the game that has executed everything has the
server's configstrings, unless commands of the map before were still to be
executed when it ended. What the server issued at number n is what was sent if n
was sent and what waits in the queue otherwise (`StreamText`). `ConfigInv` says of
that stream, from any number on that the client may be at:

- `UpToDate`: the last command that sets a configstring, if there is one, sets the
  server's value;
- `LeadsTo`: where there is none, the client's value is the server's already. This
  holds for the client's strings and, from its own number on, for each gamestate of
  this map that is under way (`Suffices`), since the client will start over there;
- `Settled`: "d" commands are reliable, so culling never drops the last one, and
  what `SV_AddServerCommand` replaces is older than what replaces it;
- `MapInv`: no gamestate of this map is under way, and none has been received, as
  long as the client is only connected. `SV_SetConfigstring` sends a connected client
  nothing; the gamestate that it still has to get carries everything.

It needs `SentIsFrozen` and `WithoutGaps` of the cycle above: what the client
executes is the stream, without a hole.

**The handshake.** `HandshakeProofs`, for any number of clients, servers, rows and
slots and any times, and without a hypothesis on the network: packets may be late,
lost or of another attempt, tables may overflow.

- `Admission` (`AdmittedWasCleared`): nobody gets a slot who was not cleared.
- `Challenges` (`ChallengesSound`): one open row for a client on a server
  (`OneOpenRow`), no row pushed out while an empty one is left (`FullBeforeLost`),
  and the challenge a client holds is that of no row and no slot but its own on its
  own server (`OwnChallenge`).

Both follow from one `IInv`. A number that was given away, be it under way in a
`challengeResponse` or `connect` or held by a client, is in no row but that of its
server and address, given away by right, and in no slot but theirs (`GivenInv`). That
cannot be kept without knowing who a row's number may belong to when it is given away:
`RowsInv` says that a number is in one row, and `SlotRows` that a slot with that
challenge, even one long free, is of the same server and address. A step keeps both
because rows come from rows (`RowsKept`) and a slot's challenge from a slot or from a
row of the same table (`SlotsKept`), and a new number is one that nobody knows.
`SlotsInv` says that an address has one slot in use. Assumed is only that numbers
which anybody still knows are not drawn again (`Fresh`).

**The event loop and demos.** `PacketPumpProofs`, for queues, rings and numbers of
any size: `Events` (`EventsInOrder`), `Snapshot` (`SnapshotOfMap`), `Demo`
(`DemoInOrder`). Why a nested event loop does no harm follows from numbers:

- `OrderInv`: what was pushed is older than what is in the socket, and both are
  newer than what was handled;
- `UpInv`: a packet of the client that acknowledges this map's gamestate is of this
  map, so the server never sends a second gamestate before the first is handled;
- `GamestateInv`: at most one gamestate is under way, of a newer map than the
  client's, and no snapshot is behind it, since the client is not active for the
  server;
- `LoadingInv`: the handling of gamestates is never nested, and while one goes on
  no snapshot is under way: the client sends no move before it is done;
- `SnapInv`: a snapshot that is shown came after the last gamestate;
- `DemoInv`: the file is in order and ends before the message being handled, which
  is why a message that is written before or after its parsing is in it once.

**The bases of snapshots.** `SnapshotsProofs`, for any worlds, any number of frames,
any `MaxDelta` below it and rings of any size: `Bases` (`BasesHeld`), a snapshot is
written as a difference only to one that the client still has when it parses it.
The client's slot for the base must survive until then: it is voided when a later
message is parsed and a message between was lost, reused after as many messages as
there are frames, and cleared by a gamestate. `IInv` follows a base from the
acknowledgement to its use:

- `Has`: the client has the snapshot of message n, in the slot of n and not void;
- `Arrives`: a packet under way asks only for a base that the client has, as long
  as it is not too old to be named, and one that acknowledges more than the last
  gamestate is of the client's map;
- `EndsInv`: so has what the server recorded as `deltaMessage`, while it takes the
  client to be active, which it does only for the map the client has;
- `Fits` and `Before`: so has each snapshot under way; no snapshot is behind a
  gamestate, and what is under way is newer than what the client got. A base less
  than `Frames` messages old stays in its slot (`SlotsDiffer`), and the messages
  that are void by a loss are newer than all the client has.

The rings of records play no part in it: that a base's records are gone from one
makes the client drop the difference.

They are what `Built` (`AsBuilt`) is about: whatever cgame gets for a message is
what the server built for it. It is false of the rings as they are (findings 7 and 8), so the
theorem has a hypothesis about their room, `Roomy(most)`, where `most` bounds the
records of one snapshot: a server ring whose old frames are not checked before use
holds what comes into it during `MaxDelta` messages of this client, and no two
snapshots differ by more new records than `Margin`. A dedicated server has room for
this if no client is served less often than the others: with n clients, n records a
snapshot and `Ahead` = n - 1, 28 messages and the next snapshot are 28 n^2 + n of the
32 n^2 records. `MCSnapshots.cfg` satisfies `Roomy`, the configurations of the two findings do not.
`RecordsInv` adds to `IInv`:

- `Shows`: a frame refers to the records of its world, in order of their numbers,
  until the ring has come round (`ShowsKept`), for the frames of the server
  (`FrameShows`) and the snapshots of the client (`Kept`);
- `Near`: how far a server ring can have got since a frame, counted in messages;
- `Right`: the difference under way is the one between the worlds of its base and
  of itself. The base is the client's entry for that message, whose world is
  the one the server's frame was built from.

`MergedShows` is the lemma about the client's merge. It writes the ring it reads
from; that it never overwrites an old record before its turn is an argument about
places: the records written before the turn of number n are at most those of the old
world below n and the new ones, which are at most `Margin` (`RankBound`). What a merge
runs through is an induction over the numbers, by the least-number principle (`MergeRun`).

**The client slots.** `ServerClientsProofs`, for any number of slots, addresses,
ports and limits of time: `Agreement` (`SlotsAgree`), `Reaches` (`Reachable`). The
names of script arrays are one more than the slots, so that `Scr_AllocArray`
always finds an unused one; that it does is a counting argument. `SV_FreeClientScriptPers` renews the arrays one
slot after the other while the slots behind still hold theirs; its lemma is an
induction over the slots by the least-number principle. `Reachable` needs the
stronger fact that of all slots with an address and qport, free ones included, the
newest is the first, so that no scan meets another before it (`Latest`).

`SharedLemmas` derives the least-number principle from the well-foundedness of
finite sets (the library's induction theorems take an operator and cannot be
instantiated), shows that numbers less than a ring apart have different slots, and
says what sending and receiving do to a channel, message by message.

Constants are assumed to be as the named assumptions say, no more: `RingAssumption`,
`InFlightAssumption` and so on, which TLC evaluates in every run. `BoundsAssumption`
only types the bounds that keep TLC's state space finite; no proof uses their
values.

Only model-checked: `SpecImmediate`, `SameConnection`, downloads that are not `Tame`,
snapshots in rings that are not `Roomy`, and the properties of `ScriptThreads`, `ScriptMemory` and
`ScriptStrings`. Out of the prover's reach, and left to TLC: liveness under fairness
(`EventuallyExecuted`, `SilentAreFreed`, `EventuallyCopied`, `GetsAnAnswer`), ENABLED,
and what the recursive operators of the script modules compute.

## 5. Findings and observations

One run expects a violation:

1. **Skipped server commands** (`server/engine/server_packet.c:571`). With exactly
   64 commands outstanding, a packet's acknowledgement is not used; instead all
   commands count as acknowledged. The overflow that drops a client needs 65.
   The client goes on without those commands, or fetches what an older command
   left in the slot.

The configurations beside the runs show, with the property TLC finds violated:

2. **Overwritten client command** (`client/engine/client/reliable_commands.c:23`,
   `MCClientCommandsOverflow`, `NoneOverwritten`). The guard admits a 65th
   outstanding command, which overwrites the oldest.
3. **Zombies of test clients** (`server/engine/server_client_maintenance.c:93`,
   `MCServerClientsTestZombies`, `ZombiesAreFreed`). Test clients are exempt from
   the whole scan, so a kicked one never becomes `CS_FREE` and its slot is lost
   until the server stops.
4. **A block of the wrong pak** (`client/engine/client/server_message_entities.c:873`,
   `MCDownloadNext`, `SavedWhole`). Nothing in a block names its pak: a repeated
   block of a pak the client has finished is taken for the next one's.
5. **A redirect of the wrong pak** (`server_message_entities.c:748`,
   `MCDownloadRedirectLate`, `SavedWhole`). The same for a redirect repeated
   before its acknowledgement was executed, when the transfer is over by then.
6. **The lost gamestate** (`server/engine/server_download.c:86`,
   `MCDownloadGameState`, `EventuallyLoading`). The gamestate that answers
   `donedl` is sent once; the client's server id is current already, so nothing
   asks for it again.
7. **The unchecked ring of clients** (`server/engine/server_snapshot_send.c:214`,
   `MCSnapshotsClients`, `AsBuilt`). Only the entity ring is checked before a
   frame is used as a base; a client served less often than the others gets
   differences to overwritten records.
8. **A crowd of new entities** (`server_message_entities.c:515`,
   `MCSnapshotsCrowd`, `AsBuilt`). More new entities in one snapshot than the
   margin of 128 overwrite the records they are merged with.
9. **Demos that begin too early** (`client/engine/client/cgame_frame.c:994`,
   `MCPacketPumpDecodes`, `DemoDecodes`; `:700`, `MCPacketPumpContinues`,
   `DemoContinues`). Recording starts with the first complete snapshot, also when
   that was already under way, so a later difference may refer to a snapshot that
   is not in the file; and commands acknowledged before it are in neither the
   header nor the file.
10. **A pak that cannot be written** (`server_message_entities.c:899`,
    `MCDownloadUnwritable`, `SavedWhole`). The client says `stopdl` and asks for the
    next pak, but blocks of the one it gave up are still under way. Those with a
    number above 0 make it ask for block 0 again (`retransdl 0`), once each; the server
    repeats the first blocks of the second pak. The client may have finished that pak by
    then, and takes them for the third's. No message need be lost.

Without a configuration: when a `connectResponse` is late, a client may begin its
netchan under a challenge that its slot no longer has, or before the slot is set up
again (`SameConnection` is false without `Prompt`), and has to time out and connect
anew; the reconnect limit is read from the first *matching*
slot, which may be free; a map change leaves test clients in `CS_CONNECTED` for
good; the time keys of script threads wrap after 4 h 39 min of server time, and in
that frame the lists between the old and the new key are passed by; an
allocation that fails leaves the string table changed.

## 6. What could come next

The hunk and the command buffer (small stacks and buffers), the x, y and z chunks
of long configstrings through the replacement rules, the archive of snapshots,
and proofs for the script modules as far as they need no induction over data.

Modules that are proved about contain no RECURSIVE operator.

## 7. Not modelled, and why

- Bit packing, Huffman coding, entity field deltas: pure functions of one value.
- Game and cgame rules, physics, animation, collision: floating-point state.
- Renderer, sound, ui, filesystem: devices and files, no protocol state. These and
  the game rules are by far the largest part of the repository, which is why the
  models stand for a small share of its lines.
- The script compiler, expressions, variables and built-ins: sequential and large.
- Flood protection, user commands and pure checks inside `SV_ExecuteClientMessage`,
  except where they drop a client or change its state.
- Command buffer and cvars, hunk, master heartbeat: sequential or periodic, without
  a protocol between actors; left out in favour of the parts above.
