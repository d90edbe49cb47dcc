---------------------------- MODULE ServerClients ----------------------------
(***************************************************************************)
(* The server's client slots, svs.clients: SV_DirectConnect admits a       *)
(* client into a slot, SV_PacketEvent finds the slot a packet belongs to   *)
(* by the base address and the qport (a NAT may translate the port at any  *)
(* time), SV_DropClient turns it into a zombie, SV_CheckTimeouts frees     *)
(* zombies and the slots of silent clients, and a new map keeps the live   *)
(* ones.  Along with its slot a live client owns a script array, and the   *)
(* game VM has been told of it.                                            *)
(*                                                                         *)
(* Time passes in frames.  Of lastPacketTime and lastConnectTime the model *)
(* keeps their ages, svs.realTime minus the field, up to Ages.             *)
(***************************************************************************)
EXTENDS Integers, FiniteSetsExt

CONSTANTS
    MaxClients,       \* sv_maxclients
    PrivateClients,   \* sv_privateClients
    Base, Port, QPort,\* addresses without port, UDP ports, client ids
    Timeout,          \* sv_timeout, 240 s
    ZombieTime,       \* sv_zombietime, 2 s
    ReconnectLimit,   \* sv_reconnectlimit, 3 s
    DropScans,        \* SERVER_TIMEOUT_DROP_SCANS, 5
    FrameTime,        \* what one SV_Frame may add to svs.realTime
    TestClients,      \* whether the game adds test clients
    NoAddress         \* the base of a slot no network client uses

ASSUME ClientsAssumption ==
    MaxClients \in Nat \ {0} /\ PrivateClients \in 0 .. MaxClients
ASSUME TimesAssumption ==
    /\ {Timeout, ZombieTime, ReconnectLimit, DropScans} \subseteq Nat
    /\ FrameTime \subseteq Nat \ {0} /\ FrameTime # {}
ASSUME AddressAssumption == NoAddress \notin Base /\ TestClients \in BOOLEAN

VARIABLES
    slot,             \* svs.clients
    scriptArrays,     \* the allocated script arrays
    inGame,           \* the slots the game VM has connected
    newest            \* history: the slot of the newest connection of an
                      \* address and qport, or None

vars == <<slot, scriptArrays, inGame, newest>>

-----------------------------------------------------------------------------
Slots == 0 .. MaxClients - 1
None == -1
Ages == Max({Timeout, ZombieTime}) + 1   \* and any age above
Identity == Base \X QPort               \* what tells clients apart

Live(c) == c.state \in {"CONNECTED", "PRIMED", "ACTIVE"}
LiveSlots == {s \in Slots : Live(slot[s])}

\* memset(&emptyClient, 0, ...)
EmptyClient ==
    [state |-> "FREE", base |-> NoAddress, port |-> None, qport |-> None,
     isTestClient |-> FALSE, silence |-> Ages, connected |-> ReconnectLimit,
     timeoutCount |-> 0, scriptId |-> 0]

\* A server that has been up for a while, without clients.
Init ==
    /\ slot = [s \in Slots |-> EmptyClient]
    /\ scriptArrays = {}
    /\ inGame = {}
    /\ newest = [k \in Identity |-> None]

\* Scr_AllocArray
Unused(arrays) == CHOOSE id \in 1 .. MaxClients + 1 : id \notin arrays

DroppedMutant(c) == [c EXCEPT !.state = "ZOMBIE"]
\* SV_FreeClient and SV_DropClient of a live client, but for the game's part.
Dropped(c) == [c EXCEPT !.state = "ZOMBIE", !.scriptId = 0]
ArraysOf(clients) == {slot[s].scriptId : s \in clients}

-----------------------------------------------------------------------------
(* SV_DirectConnect *)

SimilarMutant(base, port, qport) ==
    {s \in Slots : slot[s].base = base /\ slot[s].port = port}
\* The slots, in use or not, that look like an earlier connection of the sender.
Similar(base, port, qport) ==
    {s \in Slots : /\ slot[s].base = base
                   /\ slot[s].qport = qport \/ slot[s].port = port}

TooSoon(similar) ==
    similar # {} /\ slot[Min(similar)].connected < ReconnectLimit

\* The slot for the new client: the one it already has, or the first free one.
Choice(similar, private) ==
    LET Old == {s \in similar : slot[s].state # "FREE"}
        Free == {s \in Slots : /\ slot[s].state = "FREE"
                               /\ private \/ s >= PrivateClients}
    IN  IF Old # {} THEN Min(Old) ELSE IF Free # {} THEN Min(Free) ELSE None

FreedMutant(s) == {}
\* SV_FreeClient, for the live client whose slot s is used again.
Freed(s) == {t \in {s} : Live(slot[t])}

\* What SV_DirectConnect leaves in slot s: the client as it enters, or, when
\* the game rejects it, an unused slot that keeps the address.
Admit(s, client, entering, rejected) ==
    LET left == scriptArrays \ ArraysOf(Freed(s))
        id == Unused(left)
    IN  IF rejected
          THEN /\ slot' = [slot EXCEPT ![s] = client]
               /\ scriptArrays' = left
               /\ inGame' = inGame \ Freed(s)
          ELSE /\ slot' = [slot EXCEPT ![s] = [entering EXCEPT
                              !.silence = 0, !.connected = 0, !.scriptId = id]]
               /\ scriptArrays' = left \cup {id}
               /\ inGame' = (inGame \ Freed(s)) \cup {s}

DirectConnect(base, port, qport, private, rejected) ==
    LET similar == Similar(base, port, qport)
        s == Choice(similar, private)
        client == [EmptyClient EXCEPT !.base = base, !.port = port,
                                      !.qport = qport]
    IN  /\ ~TooSoon(similar)
        /\ s # None
        /\ Admit(s, client, [client EXCEPT !.state = "CONNECTED"], rejected)
        /\ newest' = IF rejected THEN newest
                                 ELSE [newest EXCEPT ![<<base, qport>>] = s]

\* SV_AddTestClient: SV_DirectConnect from an address like no other, the
\* gamestate and the first move in one go.
AddTestClient(rejected) ==
    LET s == Choice({}, FALSE)
    IN  /\ TestClients
        /\ s # None
        /\ Admit(s, EmptyClient,
                 [EmptyClient EXCEPT !.state = "ACTIVE", !.isTestClient = TRUE],
                 rejected)
        /\ UNCHANGED newest

-----------------------------------------------------------------------------
(* SV_PacketEvent *)

Addressees(base, port, qport) ==
    {s \in Slots : /\ slot[s].state # "FREE"
                   /\ slot[s].base = base
                   /\ slot[s].qport = qport}

\* The effect of a message SV_ExecuteClientMessage reads: a gamestate is sent,
\* the client enters the world, or neither.
Executed(c, content) ==
    CASE content = "outdated server id" -> [c EXCEPT !.state = "PRIMED"]
      [] content = "move" /\ c.state = "PRIMED" -> [c EXCEPT !.state = "ACTIVE"]
      [] OTHER -> c

\* "stale": Netchan_Process refuses it, or its acknowledgement is discarded.
Content == {"stale", "outdated server id", "move"}

PacketEvent(base, port, qport, content) ==
    LET to == Addressees(base, port, qport)
        s == Min(to)
        c == [slot[s] EXCEPT !.port = port]
    IN  /\ to # {}
        /\ slot' = [slot EXCEPT ![s] =
              IF content = "stale" \/ c.state = "ZOMBIE"
                THEN c
                ELSE Executed([c EXCEPT !.silence = 0], content)]
        /\ UNCHANGED <<scriptArrays, inGame, newest>>

-----------------------------------------------------------------------------
(* The end of a client *)

\* SV_DropClient while a game runs: a disconnect, a lost command, an overflow,
\* the script's kick.
DropClient(s) ==
    /\ Live(slot[s])
    /\ slot' = [slot EXCEPT ![s] = Dropped(@)]
    /\ scriptArrays' = scriptArrays \ ArraysOf({s})
    /\ inGame' = inGame \ {s}
    /\ UNCHANGED newest

\* SV_KickClient, of a zombie too.
KickClient(s) ==
    /\ slot[s].state # "FREE"
    /\ slot' = [slot EXCEPT ![s] =
                  [IF Live(@) THEN Dropped(@) ELSE @ EXCEPT !.silence = 0]]
    /\ scriptArrays' = scriptArrays \ ArraysOf({s} \cap LiveSlots)
    /\ inGame' = inGame \ ({s} \cap LiveSlots)
    /\ UNCHANGED newest

-----------------------------------------------------------------------------
(* SV_Frame: time passes and SV_CheckTimeouts scans every slot *)

Aged(c, d) == [c EXCEPT !.silence = Min({@ + d, Ages}),
                        !.connected = Min({@ + d, ReconnectLimit})]

OverZombie(c) ==
    ~c.isTestClient /\ c.state = "ZOMBIE" /\ c.silence > ZombieTime
Overdue(c) == ~c.isTestClient /\ Live(c) /\ c.silence > Timeout
TimedOutMutant(c) == FALSE
TimedOut(c) == Overdue(c) /\ c.timeoutCount + 1 > DropScans

CountedMutant(c) == 0
Counted(c) == IF c.isTestClient THEN c.timeoutCount
              ELSE IF Overdue(c) THEN c.timeoutCount + 1
              ELSE IF OverZombie(c) THEN c.timeoutCount
              ELSE 0

Scanned(c) ==
    [c EXCEPT !.timeoutCount = Counted(c),
              !.state = IF OverZombie(c) \/ TimedOut(c) THEN "FREE" ELSE @,
              !.scriptId = IF TimedOut(c) THEN 0 ELSE @]

Frame(d) ==
    LET lost == {s \in Slots : TimedOut(Aged(slot[s], d))}
    IN  /\ slot' = [s \in Slots |-> Scanned(Aged(slot[s], d))]
        /\ scriptArrays' = scriptArrays \ ArraysOf(lost)
        /\ inGame' = inGame \ lost
        /\ UNCHANGED newest

-----------------------------------------------------------------------------
(* A new game: SV_SpawnServer and SV_MapRestart_f *)

\* SV_FreeClientScriptPers, for slot s: a live client gives its script array back
\* and is given another.
Renewal(r, s) ==
    LET left == r.arrays \ {slot[s].scriptId}
        id == Unused(left)
    IN  IF Live(slot[s])
          THEN [slot |-> [r.slot EXCEPT ![s].scriptId = id],
                arrays |-> left \cup {id}]
          ELSE r

\* The slots and arrays after it did the first n.
Renewed[n \in 0 .. MaxClients] ==
    IF n = 0 THEN [slot |-> slot, arrays |-> scriptArrays]
             ELSE Renewal(Renewed[n - 1], n - 1)

\* On a new map a client must fetch the gamestate first; after a restart of
\* the map those in the world stay in it.
Entered(c, spawned) ==
    IF spawned THEN [c EXCEPT !.state = "CONNECTED"] ELSE c

\* The old game is gone with all it knew; keep is its scriptExitParam.  The new
\* one is told of the live clients while sv.state is SS_LOADING: it does not
\* hear of the end of those it rejects.
NewGame(d, keep, rejects, spawned) ==
    LET r == Renewed[IF keep THEN 0 ELSE MaxClients]
        After(s) == LET c == Aged(r.slot[s], d)
                    IN  IF s \in rejects THEN Dropped(c)
                        ELSE IF Live(c) THEN Entered(c, spawned) ELSE c
    IN  /\ rejects \subseteq LiveSlots
        /\ slot' = [s \in Slots |-> After(s)]
        /\ scriptArrays' = r.arrays \ {r.slot[s].scriptId : s \in rejects}
        /\ inGame' = LiveSlots \ rejects
        /\ UNCHANGED newest

SpawnServer(d, keep, rejects) == NewGame(d, keep, rejects, TRUE)
MapRestart(d, keep, rejects) == NewGame(d, keep, rejects, FALSE)

Connect ==
    \E base \in Base, port \in Port, qport \in QPort, private, rejected \in BOOLEAN :
        DirectConnect(base, port, qport, private, rejected)
AddTest == \E rejected \in BOOLEAN : AddTestClient(rejected)
Packet ==
    \E base \in Base, port \in Port, qport \in QPort, content \in Content :
        PacketEvent(base, port, qport, content)
Drop == \E s \in Slots : DropClient(s)
Kick == \E s \in Slots : KickClient(s)
Scan == \E d \in FrameTime : Frame(d)
Spawn ==
    \E d \in FrameTime, keep \in BOOLEAN, rejects \in SUBSET Slots :
        SpawnServer(d, keep, rejects)
Restart ==
    \E d \in FrameTime, keep \in BOOLEAN, rejects \in SUBSET Slots :
        MapRestart(d, keep, rejects)

Next == Connect \/ AddTest \/ Packet \/ Drop \/ Kick \/ Scan \/ Spawn \/ Restart

Spec == Init /\ [][Next]_vars

\* Com_Frame runs SV_Frame for as long as the server runs; nothing else is
\* bound to happen.
FairSpec == Spec /\ WF_vars(Scan)

-----------------------------------------------------------------------------
(* Properties *)

\* The values each field may hold.
TypeOK ==
    /\ slot \in [Slots ->
          [state : {"FREE", "ZOMBIE", "CONNECTED", "PRIMED", "ACTIVE"},
           base : Base \cup {NoAddress}, port : Port \cup {None},
           qport : QPort \cup {None}, isTestClient : BOOLEAN,
           silence : 0 .. Ages, connected : 0 .. ReconnectLimit,
           timeoutCount : 0 .. DropScans + 1, scriptId : 0 .. MaxClients + 1]]
    /\ scriptArrays \subseteq 1 .. MaxClients + 1
    /\ inGame \subseteq Slots
    /\ newest \in [Identity -> Slots \cup {None}]

\* Every live client owns a script array of its own, no other slot holds one,
\* and none is left without an owner (Scr_AllocArray, Scr_FreeValue).
ScriptArraysOwned ==
    /\ scriptArrays = ArraysOf(LiveSlots)
    /\ \A s, t \in LiveSlots :
          slot[s].scriptId = slot[t].scriptId => s = t
    /\ \A s \in Slots \ LiveSlots : slot[s].scriptId = 0

\* The game VM and the server agree on who is connected: GAME_CLIENT_CONNECT
\* and GAME_CLIENT_DISCONNECT come in pairs, whatever ends a client.
GameAgrees == inGame = LiveSlots

\* SV_PacketEvent delivers a client's packets to the slot of its latest
\* SV_DirectConnect, not to the remains of an earlier one with the same
\* identity, wherever the free slots were and whatever the NAT did to the port.
Reachable ==
    \A k \in Identity :
        LET s == newest[k]
        IN  s # None /\ slot[s].state # "FREE"
              /\ slot[s].base = k[1] /\ slot[s].qport = k[2]
            => \A port \in Port : Min(Addressees(k[1], port, k[2])) = s

\* A packet, a connection or a kick in slot s.
Heard(s) == slot[s].silence = 0

\* A slot whose network client is silent is free in the end, zombie or not.
SilentAreFreed ==
    \A s \in Slots :
        (slot[s].state # "FREE" /\ ~slot[s].isTestClient /\ ~Heard(s)) ~>
            (slot[s].state = "FREE" \/ Heard(s))

\* The zombie aging of SV_CheckTimeouts: a zombie's slot is free in the end.
ZombiesAreFreed ==
    \A s \in Slots :
        (slot[s].state = "ZOMBIE" /\ ~Heard(s)) ~>
            (slot[s].state # "ZOMBIE" \/ Heard(s))

\* What SV_DirectConnect, SV_DropClient, SV_FreeClient and SV_SpawnServer keep
\* of a slot in three places agrees: client_t, the script arrays and the game.
SlotsAgree == TypeOK /\ ScriptArraysOwned /\ GameAgrees
=============================================================================
