--------------------------- MODULE PacketPumpProofs ---------------------------
(***************************************************************************)
(* For all sizes of the event queue and any number of messages, maps and   *)
(* commands: packets are handled in the order they came, no gamestate is   *)
(* handled inside of another, the snapshot shown belongs to the map that   *)
(* is loaded, and a demo holds the messages in their order.                *)
(***************************************************************************)
EXTENDS PacketPump, SequenceTheorems, TLAPS

-----------------------------------------------------------------------------
(* The invariant *)

In(queue) == {queue[i] : i \in 1 .. Len(queue)}
Increasing(queue) ==
    \A i, j \in 1 .. Len(queue) : i < j => queue[i].seq < queue[j].seq

\* The messages that wait in either queue.
Pending == In(pushed) \cup In(real)

\* What was moved to com_pushEvents is older than what Sys_GetEvent has.
OrderInv ==
    /\ Increasing(pushed) /\ Increasing(real)
    /\ \A x \in In(pushed), y \in In(real) : x.seq < y.seq
    /\ \A x \in Pending : client.incoming < x.seq /\ x.seq < server.next
    /\ client.incoming < server.next
    /\ client.message = client.incoming
    /\ server.gamestate < server.next

\* The packets of the client acknowledge what it has received, and those after
\* the last gamestate know the client's map.
UpInv ==
    \A p \in In(up) :
        /\ p.ack <= client.message /\ p.id <= client.map
        /\ p.delta => p.ack # 0
        /\ p.ack > server.gamestate => p.id = client.map

\* A gamestate under way is the last one sent, it is of a map the client does
\* not have, and no snapshot follows it before the client has handled it.
GamestateInv ==
    /\ client.map <= server.map
    /\ client.incoming < server.gamestate => client.map # server.map
    /\ \A x \in Pending :
          /\ x.kind = "gamestate" <=> x.seq = server.gamestate
          /\ x.map <= server.map
          /\ x.kind = "gamestate" =>
                /\ client.map < x.map /\ server.phase # "active"
                /\ \A y \in Pending : y.kind = "snapshot" => y.seq < x.seq

\* While a map is loaded, the server waits for the client to ask for it.
LoadingInv ==
    /\ Len(loading) <= 1
    /\ client.phase = "loading" <=> loading # <<>>
    /\ loading # <<>> =>
          /\ client.map = loading[1].message.map
          /\ server.gamestate = loading[1].message.seq
          /\ server.gamestate <= client.incoming
          /\ server.phase # "active"
          /\ \A x \in Pending : x.kind # "snapshot"
          /\ \A p \in In(up) : p.ack < server.gamestate /\ p.id < client.map
          /\ loading[1].before <=> demo.recording /\ ~demo.waiting

SnapInv ==
    /\ client.phase \in {"primed", "active"} => client.cgame = client.map
    /\ client.phase = "active" => client.snap # 0
    /\ client.snap <= client.message
    /\ client.snap # 0 => client.snap > server.gamestate \/ client.map # server.map

\* The records of a demo are in their order and none is later than n.
DemoSound(d, n) ==
    /\ d.head.seq <= n
    /\ \A i \in 1 .. Len(d.file) :
          /\ d.file[i].number = d.file[i].message.seq
          /\ d.file[i].number > (IF i = 1 THEN d.head.seq ELSE d.file[i - 1].number)
          /\ d.file[i].number <= n

DemoInv == DemoSound(demo, client.message)

IInv == TypeOK /\ OrderInv /\ UpInv /\ GamestateInv /\ LoadingInv /\ SnapInv /\ DemoInv

USE PacketPumpAssumption

-----------------------------------------------------------------------------
(* Queues *)

LEMMA InType ==
  ASSUME NEW S, NEW queue \in Seq(S)
  PROVE  /\ Len(queue) \in Nat /\ DOMAIN queue = 1 .. Len(queue)
         /\ \A i \in 1 .. Len(queue) : queue[i] \in S
         /\ \A x \in In(queue) : x \in S
         /\ queue = <<>> <=> Len(queue) = 0
BY LenProperties, EmptySeq DEF In

LEMMA InHead ==
  ASSUME NEW S, NEW queue \in Seq(S), queue # <<>>
  PROVE  /\ Head(queue) \in In(queue) /\ Head(queue) \in S
         /\ Tail(queue) \in Seq(S) /\ Len(Tail(queue)) = Len(queue) - 1
         /\ In(Tail(queue)) \subseteq In(queue)
         /\ In(queue) = In(Tail(queue)) \cup {Head(queue)}
         /\ Increasing(queue) =>
               /\ Increasing(Tail(queue))
               /\ \A x \in In(Tail(queue)) : Head(queue).seq < x.seq
<1>1. /\ Head(queue) \in S /\ Head(queue) = queue[1]
      /\ Tail(queue) \in Seq(S) /\ Len(Tail(queue)) = Len(queue) - 1
      /\ \A i \in 1 .. Len(Tail(queue)) : Tail(queue)[i] = queue[i + 1]
      /\ Len(queue) \in Nat \ {0}
  BY HeadTailProperties, InType
<1>2. PICK n \in Nat \ {0} : n = Len(queue)
  BY <1>1
<1>3. Len(Tail(queue)) = n - 1
  BY <1>1, <1>2
<1>4. Head(queue) \in In(queue)
  BY <1>1, <1>2 DEF In
<1>5. ASSUME NEW x \in In(Tail(queue))
      PROVE  /\ x \in In(queue)
             /\ Increasing(queue) => Head(queue).seq < x.seq
  <2>1. PICK i \in 1 .. n - 1 : x = Tail(queue)[i]
    BY <1>3 DEF In
  <2>2. i + 1 \in 1 .. n /\ x = queue[i + 1] /\ 1 \in 1 .. n /\ 1 < i + 1
    BY <1>1, <1>3, <2>1
  <2>3. QED
    BY <1>1, <1>2, <2>2 DEF In, Increasing
<1>6. ASSUME NEW x \in In(queue) PROVE x \in In(Tail(queue)) \cup {Head(queue)}
  <2>1. PICK i \in 1 .. n : x = queue[i]
    BY <1>2 DEF In
  <2>2. CASE i = 1
    BY <1>1, <2>1, <2>2
  <2>3. CASE i # 1
    <3>1. i - 1 \in 1 .. n - 1 /\ (i - 1) + 1 = i
      BY <2>3
    <3>2. Tail(queue)[i - 1] = queue[i]
      BY <1>1, <1>3, <3>1
    <3>3. QED
      BY <1>3, <2>1, <3>1, <3>2 DEF In
  <2>4. QED
    BY <2>2, <2>3
<1>7. ASSUME Increasing(queue) PROVE Increasing(Tail(queue))
  <2>1. ASSUME NEW i \in 1 .. n - 1, NEW j \in 1 .. n - 1, i < j
        PROVE  Tail(queue)[i].seq < Tail(queue)[j].seq
    <3>1. i + 1 \in 1 .. n /\ j + 1 \in 1 .. n /\ i + 1 < j + 1
      BY <2>1
    <3>2. Tail(queue)[i] = queue[i + 1] /\ Tail(queue)[j] = queue[j + 1]
      BY <1>1, <1>3
    <3>3. QED
      BY <1>2, <1>7, <3>1, <3>2 DEF Increasing
  <2>2. QED
    BY <1>3, <2>1 DEF Increasing
<1>8. QED
  BY <1>1, <1>4, <1>5, <1>6, <1>7

LEMMA InAppend ==
  ASSUME NEW S, NEW queue \in Seq(S), NEW m \in S
  PROVE  /\ Append(queue, m) \in Seq(S) /\ Len(Append(queue, m)) = Len(queue) + 1
         /\ In(Append(queue, m)) = In(queue) \cup {m}
         /\ Increasing(queue) /\ (\A x \in In(queue) : x.seq < m.seq) =>
               Increasing(Append(queue, m))
<1>1. PICK n \in Nat : n = Len(queue)
  BY InType
<1>2. PICK new : new = Append(queue, m)
  OBVIOUS
<1>3. /\ new \in Seq(S) /\ Len(new) = n + 1
      /\ \A i \in 1 .. n : new[i] = queue[i]
      /\ new[n + 1] = m
  BY <1>1, <1>2, AppendProperties
<1>4. In(new) = In(queue) \cup {m}
  <2>1. ASSUME NEW x \in In(new) PROVE x \in In(queue) \cup {m}
    <3>1. PICK i \in 1 .. n + 1 : x = new[i]
      BY <1>3 DEF In
    <3>2. CASE i = n + 1
      BY <1>3, <3>1, <3>2
    <3>3. CASE i # n + 1
      <4>1. i \in 1 .. n
        BY <3>3
      <4>2. QED
        BY <1>1, <1>3, <3>1, <4>1 DEF In
    <3>4. QED
      BY <3>2, <3>3
  <2>2. ASSUME NEW x \in In(queue) PROVE x \in In(new)
    <3>1. PICK i \in 1 .. n : x = queue[i]
      BY <1>1 DEF In
    <3>2. i \in 1 .. n + 1 /\ x = new[i]
      BY <1>3, <3>1
    <3>3. QED
      BY <1>3, <3>2 DEF In
  <2>3. n + 1 \in 1 .. n + 1
    OBVIOUS
  <2>4. m \in In(new)
    BY <1>3, <2>3 DEF In
  <2>5. QED
    BY <2>1, <2>2, <2>4
<1>5. ASSUME Increasing(queue), \A x \in In(queue) : x.seq < m.seq
      PROVE  Increasing(new)
  <2>1. ASSUME NEW i \in 1 .. n + 1, NEW j \in 1 .. n + 1, i < j
        PROVE  new[i].seq < new[j].seq
    <3>1. i \in 1 .. n /\ new[i] = queue[i] /\ queue[i] \in In(queue)
      <4>1. i \in 1 .. n
        BY <2>1
      <4>2. QED
        BY <1>1, <1>3, <4>1 DEF In
    <3>2. CASE j = n + 1
      BY <1>3, <1>5, <3>1, <3>2
    <3>3. CASE j # n + 1
      <4>1. j \in 1 .. n /\ new[j] = queue[j]
        <5>1. j \in 1 .. n
          BY <3>3
        <5>2. QED
          BY <1>3, <5>1
      <4>2. QED
        BY <1>1, <1>5, <2>1, <3>1, <4>1 DEF Increasing
    <3>4. QED
      BY <3>2, <3>3
  <2>2. QED
    BY <1>3, <2>1 DEF Increasing
<1>6. QED
  BY <1>1, <1>2, <1>3, <1>4, <1>5

LEMMA InEmpty == In(<<>>) = {} /\ Increasing(<<>>)
BY DEF In, Increasing

LEMMA InitInv == Init => IInv
<1> SUFFICES ASSUME Init PROVE IInv
  OBVIOUS
<1> USE DEF Init
<1>1. In(pushed) = {} /\ In(real) = {} /\ In(up) = {} /\ Pending = {}
      /\ Increasing(pushed) /\ Increasing(real)
  BY InEmpty DEF Pending
<1>2. TypeOK
  <2>1. server \in ServerRecord
    BY DEF ServerRecord
  <2>2. client \in ClientRecord
    BY DEF ClientRecord
  <2>3. demo \in DemoRecord
    <3>1. <<>> \in Seq(FileRecord)
      BY EmptySeq
    <3>2. QED
      BY <3>1 DEF DemoRecord
  <2>4. pushed \in Seq(Message) /\ Len(pushed) <= PushSize /\ real \in Seq(Message)
        /\ up \in Seq(Packet) /\ loading \in Seq(Suspended)
    BY EmptySeq
  <2>5. QED
    BY <2>1, <2>2, <2>3, <2>4 DEF TypeOK
<1>3. OrderInv
  BY <1>1 DEF OrderInv, None
<1>4. UpInv /\ GamestateInv
  BY <1>1 DEF UpInv, GamestateInv, None
<1>5. LoadingInv
  BY DEF LoadingInv
<1>6. SnapInv /\ DemoInv
  BY DEF SnapInv, DemoInv, DemoSound
<1>7. QED
  BY <1>2, <1>3, <1>4, <1>5, <1>6 DEF IInv

-----------------------------------------------------------------------------
(* What the server does *)

LEMMA ServerType ==
  ASSUME TypeOK
  PROVE  /\ server.map \in 1 .. MaxMaps
         /\ server.phase \in {"connected", "primed", "active"}
         /\ server.gamestate \in Int /\ server.gamestate <= MaxSequence
         /\ server.gamestate >= -1
         /\ server.next \in 1 .. MaxSequence + 1
         /\ server.acked \in 0 .. MaxCommands /\ server.issued \in 0 .. MaxCommands
<1>1. server \in ServerRecord
  BY DEF TypeOK
<1>2. /\ server.map \in 1 .. MaxMaps
      /\ server.phase \in {"connected", "primed", "active"}
      /\ server.gamestate \in {None} \cup 1 .. MaxSequence
      /\ server.next \in 1 .. MaxSequence + 1
      /\ server.acked \in 0 .. MaxCommands /\ server.issued \in 0 .. MaxCommands
  BY <1>1 DEF ServerRecord
<1>3. /\ server.gamestate \in Int /\ server.gamestate <= MaxSequence
      /\ server.gamestate >= -1
  <2>1. MaxSequence \in Nat
    OBVIOUS
  <2>2. CASE server.gamestate = None
    BY ONLY <2>1, <2>2 DEF None
  <2>3. CASE server.gamestate \in 1 .. MaxSequence
    BY ONLY <2>1, <2>3
  <2>4. QED
    BY <1>2, <2>2, <2>3
<1>4. QED
  BY <1>2, <1>3

LEMMA ClientType ==
  ASSUME TypeOK
  PROVE  /\ client.map \in 0 .. MaxMaps /\ client.cgame \in 0 .. MaxMaps
         /\ client.incoming \in 0 .. MaxSequence /\ client.message \in 0 .. MaxSequence
         /\ client.snap \in 0 .. MaxSequence /\ client.commands \in 0 .. MaxCommands
         /\ client.phase \in {"connected", "loading", "primed", "active"}
BY DEF TypeOK, ClientRecord

LEMMA QueueType ==
  ASSUME TypeOK
  PROVE  /\ \A x \in Pending : x \in Message
         /\ \A x \in Message : /\ x.seq \in 1 .. MaxSequence /\ x.map \in 1 .. MaxMaps
                               /\ x.upto \in 0 .. MaxCommands
                               /\ x.kind \in {"gamestate", "snapshot", "plain"}
         /\ \A p \in In(up) : p \in Packet
         /\ \A p \in Packet : /\ p.ack \in 0 .. MaxSequence /\ p.id \in 0 .. MaxMaps
                              /\ p.commands \in 0 .. MaxCommands
                              /\ p.move \in BOOLEAN /\ p.delta \in BOOLEAN
<1>1. \A x \in Pending : x \in Message
  BY InType DEF TypeOK, Pending
<1>2. \A p \in In(up) : p \in Packet
  BY InType DEF TypeOK
<1>3. QED
  BY <1>1, <1>2 DEF Message, Packet

LEMMA ContentsType ==
  ASSUME NEW s \in ServerRecord, s.next <= MaxSequence,
         NEW kind \in {"gamestate", "snapshot", "plain"}
  PROVE  /\ Contents(s, kind) \in Message
         /\ Contents(s, kind).seq = s.next /\ Contents(s, kind).kind = kind
         /\ Contents(s, kind).map = s.map
<1>1. /\ s.next \in 1 .. MaxSequence /\ s.map \in 1 .. MaxMaps
      /\ s.delta \in {None} \cup 1 .. MaxSequence
      /\ s.acked \in 0 .. MaxCommands /\ s.issued \in 0 .. MaxCommands
  BY DEF ServerRecord
<1>2. s.acked + 1 \in 1 .. MaxCommands + 1
  BY <1>1
<1>3. QED
  BY <1>1, <1>2 DEF Contents, Message

\* A message that is sent is the newest.
LEMMA SendOrder ==
  ASSUME TypeOK, OrderInv, NEW m \in Message, m.seq = server.next, Send(m),
         pushed' = pushed
  PROVE  /\ real' \in Seq(Message)
         /\ Increasing(pushed') /\ Increasing(real')
         /\ \A x \in In(pushed'), y \in In(real') : x.seq < y.seq
         /\ Pending' \subseteq Pending \cup {m}
<1>1. \A x \in Pending : x.seq < m.seq
  BY DEF OrderInv
<1>2. \A x \in In(pushed), y \in In(real) : x.seq < y.seq
  BY DEF OrderInv
<1>3. CASE real' = real
  BY <1>3 DEF OrderInv, TypeOK, Pending
<1>4. CASE real' = Append(real, m)
  <2>1. /\ real' \in Seq(Message) /\ In(real') = In(real) \cup {m}
        /\ Increasing(real')
    BY <1>1, <1>4, InAppend DEF TypeOK, OrderInv, Pending
  <2>2. Increasing(pushed')
    BY DEF OrderInv
  <2>3. \A x \in In(pushed'), y \in In(real') : x.seq < y.seq
    BY <1>1, <1>2, <2>1 DEF Pending
  <2>4. Pending' \subseteq Pending \cup {m}
    BY <2>1 DEF Pending
  <2>5. QED
    BY <2>1, <2>2, <2>3, <2>4
<1>5. QED
  BY <1>3, <1>4 DEF Send

LEMMA SendSnapshotInv ==
  ASSUME IInv, SendSnapshot
  PROVE  IInv'
<1> USE DEF IInv
<1> DEFINE kind == IF server.phase = "active" THEN "snapshot" ELSE "plain"
<1>1. PICK m : m = Contents(server, kind)
  OBVIOUS
<1>2. /\ server.next <= MaxSequence /\ server \in ServerRecord
      /\ kind \in {"gamestate", "snapshot", "plain"} /\ kind # "gamestate"
      /\ kind = "snapshot" => server.phase = "active"
  BY DEF SendSnapshot, TypeOK
<1>3. m \in Message /\ m.seq = server.next /\ m.kind = kind /\ m.map = server.map
  BY <1>1, <1>2, ContentsType
<1>4. /\ Send(m)
      /\ UNCHANGED <<client, demo, pushed, up, loading>>
  BY <1>1 DEF SendSnapshot
<1>5. /\ server' \in ServerRecord /\ server'.next = server.next + 1
      /\ server'.map = server.map /\ server'.phase = server.phase
      /\ server'.gamestate = server.gamestate
  BY <1>2 DEF SendSnapshot, ServerRecord
<1>6. /\ real' \in Seq(Message)
      /\ Increasing(pushed') /\ Increasing(real')
      /\ \A x \in In(pushed'), y \in In(real') : x.seq < y.seq
      /\ Pending' \subseteq Pending \cup {m}
  BY <1>3, <1>4, SendOrder
<1> HIDE DEF kind
<1>7. TypeOK'
  BY <1>4, <1>5, <1>6 DEF TypeOK
<1>8. OrderInv'
  <2>1. ASSUME NEW x \in Pending'
        PROVE  client.incoming < x.seq /\ x.seq < server.next + 1
    <3>1. server.next \in Int /\ client.incoming \in Int
          /\ client.incoming < server.next
      BY ServerType, ClientType DEF OrderInv
    <3>2. CASE x = m
      BY <1>3, <3>1, <3>2
    <3>3. CASE x \in Pending
      <4>1. x.seq \in Int
        BY <3>3, QueueType
      <4>2. client.incoming < x.seq /\ x.seq < server.next
        BY <3>3 DEF OrderInv
      <4>3. QED
        BY <3>1, <4>1, <4>2
    <3>4. QED
      BY <1>6, <3>2, <3>3
  <2>2. client.incoming < server.next + 1 /\ server.gamestate < server.next + 1
    BY ServerType, ClientType DEF OrderInv
  <2>3. QED
    BY <1>4, <1>5, <1>6, <2>1, <2>2 DEF OrderInv
<1>9. UpInv'
  BY <1>4, <1>5 DEF UpInv
<1>10. GamestateInv'
  <2>1. \A x \in Pending' :
           /\ x.kind = "gamestate" <=> x.seq = server.gamestate
           /\ x.map <= server.map
    BY SMTT(20), <1>2, <1>3, <1>6, ServerType DEF GamestateInv, OrderInv
  <2>2. ASSUME NEW x \in Pending', x.kind = "gamestate"
        PROVE  /\ client.map < x.map /\ server.phase # "active"
               /\ \A y \in Pending' : y.kind = "snapshot" => y.seq < x.seq
    <3>1. x \in Pending
      BY <1>2, <1>3, <1>6, <2>2
    <3>2. server.phase # "active" /\ m.kind # "snapshot" /\ client.map < x.map
      BY <1>2, <1>3, <2>2, <3>1 DEF GamestateInv
    <3>3. QED
      BY <1>6, <2>2, <3>1, <3>2 DEF GamestateInv
  <2>3. QED
    BY <1>4, <1>5, <2>1, <2>2 DEF GamestateInv
<1>11. LoadingInv'
  BY <1>2, <1>3, <1>4, <1>5, <1>6 DEF LoadingInv
<1>12. SnapInv' /\ DemoInv'
  BY <1>4, <1>5 DEF SnapInv, DemoInv
<1>13. QED
  BY <1>7, <1>8, <1>9, <1>10, <1>11, <1>12

\* Only the server's own record changes, not what it sent, and its phase to
\* "active" only when the client has handled the gamestate.
LEMMA ServerStepInv ==
  ASSUME IInv, UNCHANGED <<client, demo, pushed, real, loading>>,
         server' \in ServerRecord, up' \in Seq(Packet), In(up') \subseteq In(up),
         server'.next = server.next, server'.gamestate = server.gamestate,
         server.map <= server'.map,
         server'.phase = "active" =>
            \/ server.phase = "active"
            \/ loading = <<>> /\ \A x \in Pending : x.kind # "gamestate"
  PROVE  IInv'
<1> USE DEF IInv
<1>1. Pending' = Pending
  BY DEF Pending
<1>2. TypeOK'
  BY DEF TypeOK
<1>3. OrderInv'
  BY <1>1 DEF OrderInv
<1>4. UpInv'
  BY DEF UpInv
<1>5. client.map <= server'.map
      /\ (client.map # server.map => client.map # server'.map)
      /\ \A x \in Pending : x.map <= server'.map
  <2>1. server'.map \in Int /\ server.map \in Int /\ client.map \in Int
    <3>1. server'.map \in Int
      BY DEF ServerRecord
    <3>2. server.map \in 1 .. MaxMaps /\ client.map \in 0 .. MaxMaps
      BY ServerType, ClientType
    <3>3. QED
      BY <3>1, <3>2
  <2>2. \A x \in Pending : x.map \in Int /\ x.map <= server.map
    BY QueueType DEF GamestateInv
  <2>3. QED
    BY <2>1, <2>2 DEF GamestateInv
<1>6. GamestateInv'
  BY <1>1, <1>5 DEF GamestateInv
<1>7. LoadingInv'
  BY <1>1 DEF LoadingInv
<1>8. SnapInv' /\ DemoInv'
  BY <1>5 DEF SnapInv, DemoInv
<1>9. QED
  BY <1>2, <1>3, <1>4, <1>6, <1>7, <1>8

LEMMA AddCommandInv ==
  ASSUME IInv, AddCommand
  PROVE  IInv'
<1>1. /\ server' \in ServerRecord /\ server'.next = server.next
      /\ server'.gamestate = server.gamestate /\ server'.map = server.map
      /\ server'.phase = server.phase
  <2>1. server \in ServerRecord
    BY DEF IInv, TypeOK
  <2>2. server.issued + 1 \in 0 .. MaxCommands
    BY <2>1, ServerType DEF IInv, AddCommand
  <2>3. server' = [server EXCEPT !.issued = server.issued + 1]
    BY DEF AddCommand
  <2>4. QED
    BY <2>1, <2>2, <2>3 DEF ServerRecord
<1>2. server.map <= server'.map
  BY <1>1, ServerType DEF IInv
<1>3. QED
  BY <1>1, <1>2, ServerStepInv DEF AddCommand, IInv, TypeOK

LEMMA ChangeMapInv ==
  ASSUME IInv, ChangeMap
  PROVE  IInv'
<1>1. /\ server' \in ServerRecord /\ server'.next = server.next
      /\ server'.gamestate = server.gamestate /\ server'.map = server.map + 1
      /\ server'.phase = "connected"
  <2>1. server \in ServerRecord
    BY DEF IInv, TypeOK
  <2>2. server.map + 1 \in 1 .. MaxMaps
    BY <2>1, ServerType DEF IInv, ChangeMap
  <2>3. server' = [server EXCEPT !.map = server.map + 1, !.phase = "connected"]
    BY DEF ChangeMap
  <2>4. QED
    BY <2>1, <2>2, <2>3 DEF ServerRecord
<1>2. server.map <= server'.map
  BY <1>1, ServerType DEF IInv
<1>3. QED
  BY <1>1, <1>2, ServerStepInv DEF ChangeMap, IInv, TypeOK

\* Entered: the packet knows the server's map, so the client has handled its
\* gamestate.
LEMMA EnteredInv ==
  ASSUME IInv, ServerReceives, NEW p \in In(up), p.id = server.map,
         NEW s \in ServerRecord, s.next = server.next, s.gamestate = server.gamestate,
         s.map = server.map, server' = s, UNCHANGED real,
         up' \in Seq(Packet), In(up') \subseteq In(up)
  PROVE  IInv'
<1>1. /\ p \in Packet /\ p.id <= client.map
      /\ p.id \in Int /\ client.map \in Int /\ server.map \in Int
  <2>1. p \in Packet /\ p.id \in 0 .. MaxMaps
    BY QueueType DEF IInv
  <2>2. server.map \in 1 .. MaxMaps
    BY ServerType DEF IInv
  <2>3. client.map \in 0 .. MaxMaps
    BY ClientType DEF IInv
  <2>4. p.id <= client.map
    BY DEF IInv, UpInv
  <2>5. QED
    BY <2>1, <2>2, <2>3, <2>4
<1>2. client.map = server.map
  BY <1>1 DEF IInv, GamestateInv
<1>3. loading = <<>>
  <2>1. ~(p.id < client.map)
    BY <1>1, <1>2
  <2>2. QED
    BY <2>1 DEF IInv, LoadingInv
<1>4. ASSUME NEW x \in Pending PROVE x.kind # "gamestate"
  <2>1. x.map \in Int /\ x.map <= server.map
    BY QueueType DEF IInv, GamestateInv
  <2>2. ~(client.map < x.map)
    BY <1>1, <1>2, <2>1
  <2>3. QED
    BY <2>2 DEF IInv, GamestateInv
<1>5. server.map <= server'.map
  BY <1>1
<1>6. UNCHANGED <<client, demo, pushed, real, loading>>
  BY DEF ServerReceives
<1>7. QED
  BY <1>3, <1>4, <1>5, <1>6, ServerStepInv

\* SV_SendClientGameState: the client is past the last gamestate and asks from
\* another map.
LEMMA GamestateSentInv ==
  ASSUME IInv, NEW p \in In(up), p.id # server.map, p.ack > server.gamestate,
         NEW m \in Message, m.seq = server.next, m.map = server.map,
         m.kind = "gamestate", Send(m),
         UNCHANGED <<client, demo, pushed, loading>>,
         server' \in ServerRecord, server'.next = server.next + 1,
         server'.gamestate = server.next, server'.map = server.map,
         server'.phase = "primed",
         up' \in Seq(Packet), In(up') \subseteq In(up)
  PROVE  IInv'
<1> USE DEF IInv
<1>1. /\ p \in Packet /\ p.ack \in Int /\ p.id \in Int
      /\ server.map \in Int /\ client.map \in Int
      /\ server.next \in Int /\ server.gamestate \in Int
      /\ client.incoming \in Int /\ client.message \in Int
  <2>1. p \in Packet /\ p.ack \in 0 .. MaxSequence /\ p.id \in 0 .. MaxMaps
    BY QueueType
  <2>2. server.map \in 1 .. MaxMaps /\ server.next \in 1 .. MaxSequence + 1
        /\ server.gamestate \in Int
    BY ServerType
  <2>3. client.map \in 0 .. MaxMaps /\ client.incoming \in 0 .. MaxSequence
        /\ client.message \in 0 .. MaxSequence
    BY ClientType
  <2>4. p.ack \in Int /\ p.id \in Int
    BY <2>1
  <2>5. server.map \in Int /\ server.next \in Int
    BY <2>2
  <2>6. client.map \in Int /\ client.incoming \in Int /\ client.message \in Int
    BY <2>3
  <2>7. QED
    BY <2>1, <2>2, <2>4, <2>5, <2>6
<1>2. /\ client.map < server.map
      /\ server.gamestate < client.incoming
      /\ client.incoming < server.next
  <2>1. p.id = client.map /\ p.ack <= client.message
        /\ client.map # server.map /\ p.ack > server.gamestate
    BY DEF UpInv
  <2>2. client.map <= server.map /\ client.message = client.incoming
        /\ client.incoming < server.next
    BY DEF GamestateInv, OrderInv
  <2>3. QED
    BY ONLY <1>1, <2>1, <2>2
<1>3. loading = <<>>
  <2>1. ~(p.ack < server.gamestate)
    BY ONLY <1>1, p.ack > server.gamestate
  <2>2. QED
    BY <2>1 DEF LoadingInv
<1>4. /\ real' \in Seq(Message)
      /\ Increasing(pushed') /\ Increasing(real')
      /\ \A x \in In(pushed'), y \in In(real') : x.seq < y.seq
      /\ Pending' \subseteq Pending \cup {m}
  BY SendOrder
<1>5. ASSUME NEW x \in Pending
      PROVE  /\ x.kind # "gamestate" /\ x.seq \in Int
             /\ client.incoming < x.seq /\ x.seq < server.next
             /\ x.map <= server.map
  <2>1. /\ x.seq \in Int /\ client.incoming < x.seq /\ x.seq < server.next
        /\ x.map <= server.map
    BY QueueType DEF OrderInv, GamestateInv
  <2>2. x.seq # server.gamestate
    BY <1>1, <1>2, <2>1
  <2>3. QED
    BY <2>1, <2>2 DEF GamestateInv
<1>6. TypeOK'
  BY <1>4 DEF TypeOK
<1>7. OrderInv'
  <2>1. ASSUME NEW x \in Pending'
        PROVE  client.incoming < x.seq /\ x.seq < server.next + 1
    <3>1. CASE x = m
      BY <1>1, <1>2, <3>1
    <3>2. CASE x \in Pending
      <4>1. x.seq \in Int /\ client.incoming < x.seq /\ x.seq < server.next
        BY <1>5, <3>2
      <4>2. QED
        BY ONLY <1>1, <4>1
    <3>3. QED
      BY <1>4, <3>1, <3>2
  <2>2. client.incoming < server.next + 1 /\ server.next < server.next + 1
    BY ONLY <1>1, <1>2
  <2>3. client.message = client.incoming
    BY DEF OrderInv
  <2>4. QED
    BY <1>4, <2>1, <2>2, <2>3 DEF OrderInv
<1>8. UpInv'
  <2>1. ASSUME NEW q \in In(up)
        PROVE  /\ q.ack <= client.message /\ q.id <= client.map
               /\ (q.delta => q.ack # 0) /\ ~(q.ack > server.next)
    <3>1. q.ack \in Int
      BY QueueType
    <3>2. q.ack <= client.message /\ q.id <= client.map /\ (q.delta => q.ack # 0)
          /\ client.message = client.incoming
      BY DEF UpInv, OrderInv
    <3>3. QED
      BY <1>1, <1>2, <3>1, <3>2
  <2>2. QED
    BY <2>1 DEF UpInv
<1>9. GamestateInv'
  <2>1. ASSUME NEW x \in Pending'
        PROVE  /\ x.kind = "gamestate" <=> x.seq = server.next
               /\ x.map <= server.map
               /\ x.kind = "gamestate" =>
                     /\ client.map < x.map
                     /\ \A y \in Pending' : y.kind = "snapshot" => y.seq < x.seq
    <3>1. CASE x = m
      <4>1. x.map <= server.map /\ client.map < x.map
        BY <1>1, <1>2, <3>1
      <4>2. \A y \in Pending' : y.kind = "snapshot" => y.seq < x.seq
        BY <1>4, <1>5, <3>1
      <4>3. QED
        BY <3>1, <4>1, <4>2
    <3>2. CASE x \in Pending
      <4>1. x.kind # "gamestate" /\ x.map <= server.map /\ x.seq \in Int
            /\ x.seq < server.next
        BY <1>5, <3>2
      <4>2. x.seq # server.next
        BY <1>1, <4>1
      <4>3. QED
        BY <4>1, <4>2
    <3>3. QED
      BY <1>4, <3>1, <3>2
  <2>2. client.map <= server.map /\ client.map # server.map
    BY ONLY <1>1, <1>2
  <2>3. QED
    BY <2>1, <2>2 DEF GamestateInv
<1>10. LoadingInv'
  BY <1>3 DEF LoadingInv
<1>11. SnapInv'
  BY <1>1, <1>2 DEF SnapInv
<1>12. DemoInv'
  BY DEF DemoInv
<1>13. QED
  BY <1>6, <1>7, <1>8, <1>9, <1>10, <1>11, <1>12

LEMMA ServerReceivesInv ==
  ASSUME IInv, ServerReceives
  PROVE  IInv'
<1>1. up \in Seq(Packet) /\ up # <<>> /\ server \in ServerRecord
  BY DEF IInv, TypeOK, ServerReceives
<1>2. PICK p : p = Head(up)
  OBVIOUS
<1>3. /\ p \in In(up) /\ p \in Packet
      /\ up' \in Seq(Packet) /\ In(up') \subseteq In(up)
  BY <1>1, <1>2, InHead DEF ServerReceives
<1>4. PICK s : s = [server EXCEPT !.acked = p.commands]
  OBVIOUS
<1>5. /\ s \in ServerRecord /\ s.next = server.next /\ s.gamestate = server.gamestate
      /\ s.map = server.map /\ s.phase = server.phase
  <2>1. p.commands \in 0 .. MaxCommands
    BY <1>3, QueueType DEF IInv
  <2>2. QED
    BY <1>1, <1>4, <2>1 DEF ServerRecord
<1>6. CASE /\ p.id = s.map
           /\ server' = Entered(s, p)
           /\ UNCHANGED real
  <2>1. p.delta => p.ack # 0
    BY <1>3 DEF IInv, UpInv
  <2>2. p.ack \in 0 .. MaxSequence /\ p.delta \in BOOLEAN /\ p.move \in BOOLEAN
    BY <1>3, QueueType DEF IInv
  <2>3. PICK phase : phase = IF s.phase # "connected" /\ p.move THEN "active" ELSE s.phase
    OBVIOUS
  <2>4. PICK delta : delta = IF p.move /\ s.phase = "active" /\ p.delta THEN p.ack
                             ELSE IF p.move THEN None ELSE s.delta
    OBVIOUS
  <2>5. phase \in {"connected", "primed", "active"}
    BY <1>5, <2>3 DEF ServerRecord
  <2>6. s.delta \in {None} \cup 1 .. MaxSequence
    BY <1>5 DEF ServerRecord
  <2>7. delta \in {None} \cup 1 .. MaxSequence
    <3>1. CASE p.move /\ s.phase = "active" /\ p.delta
      BY <2>1, <2>2, <2>4, <3>1
    <3>2. CASE ~(p.move /\ s.phase = "active" /\ p.delta)
      BY <2>4, <2>6, <3>2
    <3>3. QED
      BY <3>1, <3>2
  <2>8. Entered(s, p) = [s EXCEPT !.phase = phase, !.delta = delta]
    BY <2>3, <2>4 DEF Entered
  <2>9. PICK new : new = Entered(s, p)
    OBVIOUS
  <2>10. /\ new \in ServerRecord /\ new.next = server.next
         /\ new.gamestate = server.gamestate /\ new.map = server.map
    BY <1>5, <2>5, <2>7, <2>8, <2>9 DEF ServerRecord
  <2>11. server' = new /\ p.id = server.map
    BY <1>5, <1>6, <2>9
  <2>12. QED
    BY <1>3, <1>6, <2>10, <2>11, EnteredInv
<1>7. CASE /\ p.id # s.map /\ LostGamestate(s, p)
           /\ s.next <= MaxSequence
           /\ Send(Contents(s, "gamestate"))
           /\ server' = [s EXCEPT !.phase = "primed", !.delta = None,
                                  !.gamestate = s.next, !.next = @ + 1]
  <2>1. PICK m : m = Contents(s, "gamestate")
    OBVIOUS
  <2>2. m \in Message /\ m.seq = server.next /\ m.kind = "gamestate"
        /\ m.map = server.map
    BY <1>5, <1>7, <2>1, ContentsType
  <2>3. p.id # server.map /\ p.ack > server.gamestate
    BY <1>5, <1>7 DEF LostGamestate
  <2>4. s.next \in 1 .. MaxSequence /\ s.next + 1 \in 1 .. MaxSequence + 1
    BY <1>5, <1>7, ServerType DEF IInv
  <2>5. server' = [s EXCEPT !.phase = "primed", !.delta = None,
                            !.gamestate = s.next, !.next = s.next + 1]
    BY <1>7
  <2>6. /\ server' \in ServerRecord /\ server'.next = server.next + 1
        /\ server'.gamestate = server.next /\ server'.map = server.map
        /\ server'.phase = "primed"
    BY <1>5, <2>4, <2>5 DEF ServerRecord
  <2>7. UNCHANGED <<client, demo, pushed, loading>> /\ Send(m)
    BY <1>7, <2>1 DEF ServerReceives
  <2>8. QED
    BY <1>3, <2>2, <2>3, <2>6, <2>7, GamestateSentInv
<1>8. CASE /\ p.id # s.map /\ ~LostGamestate(s, p)
           /\ server' = s
           /\ UNCHANGED real
  <2>1. server.map <= server'.map
    BY <1>5, <1>8, ServerType DEF IInv
  <2>2. UNCHANGED <<client, demo, pushed, real, loading>>
    BY <1>8 DEF ServerReceives
  <2>3. QED
    BY <1>3, <1>5, <1>8, <2>1, <2>2, ServerStepInv
<1>9. QED
  BY <1>2, <1>4, <1>6, <1>7, <1>8 DEF ServerReceives

-----------------------------------------------------------------------------
(* What the client does *)

\* Com_PushEvent: the oldest event of Sys_GetEvent becomes the newest of
\* com_pushEvents, whose oldest is lost when the ring is full.
LEMMA PushEventInv ==
  ASSUME IInv, PushEvent
  PROVE  IInv'
<1> USE DEF IInv
<1>1. /\ real \in Seq(Message) /\ pushed \in Seq(Message) /\ real # <<>>
      /\ Increasing(real) /\ Increasing(pushed)
      /\ Len(pushed) <= PushSize /\ PushSize \in Nat \ {0}
  BY DEF TypeOK, OrderInv, PushEvent
<1>2. PICK m : m = Head(real)
  OBVIOUS
<1>3. PICK q : q = Room(pushed)
  OBVIOUS
<1>4. /\ m \in In(real) /\ m \in Message /\ real' = Tail(real)
      /\ real' \in Seq(Message) /\ In(real') \subseteq In(real)
      /\ Increasing(real') /\ \A x \in In(real') : m.seq < x.seq
  BY <1>1, <1>2, InHead DEF PushEvent
<1>5. /\ q \in Seq(Message) /\ Increasing(q) /\ In(q) \subseteq In(pushed)
      /\ Len(q) + 1 <= PushSize /\ Len(q) \in Nat
  <2>1. CASE Len(pushed) >= PushSize
    <3>1. pushed # <<>> /\ Len(pushed) \in Nat
      BY <1>1, <2>1, InType
    <3>2. q = Tail(pushed)
      BY <1>3, <2>1 DEF Room
    <3>3. /\ q \in Seq(Message) /\ Increasing(q) /\ In(q) \subseteq In(pushed)
          /\ Len(q) = Len(pushed) - 1
      BY <1>1, <3>1, <3>2, InHead
    <3>4. Len(q) \in Nat
      BY <3>3, InType
    <3>5. QED
      BY <1>1, <3>1, <3>3, <3>4
  <2>2. CASE ~(Len(pushed) >= PushSize)
    <3>1. q = pushed /\ Len(pushed) \in Nat
      BY <1>1, <1>3, <2>2, InType DEF Room
    <3>2. QED
      BY <1>1, <2>2, <3>1
  <2>3. QED
    BY <2>1, <2>2
<1>6. \A x \in In(q) : x.seq < m.seq
  BY <1>4, <1>5 DEF OrderInv
<1>7. /\ pushed' \in Seq(Message) /\ Len(pushed') <= PushSize
      /\ In(pushed') = In(q) \cup {m} /\ Increasing(pushed')
  <2>1. pushed' = Append(q, m)
    BY <1>2, <1>3 DEF PushEvent
  <2>2. QED
    BY <1>4, <1>5, <1>6, <2>1, InAppend
<1>8. Pending' \subseteq Pending
  BY <1>4, <1>5, <1>7 DEF Pending
<1>9. UNCHANGED <<server, client, demo, up, loading>>
  BY DEF PushEvent
<1>10. TypeOK'
  BY <1>4, <1>7, <1>9 DEF TypeOK
<1>11. \A x \in In(pushed'), y \in In(real') : x.seq < y.seq
  BY <1>4, <1>5, <1>7 DEF OrderInv
<1>12. OrderInv'
  BY <1>4, <1>7, <1>8, <1>9, <1>11 DEF OrderInv
<1>13. UpInv' /\ GamestateInv'
  BY <1>8, <1>9 DEF UpInv, GamestateInv
<1>14. LoadingInv'
  BY <1>8, <1>9 DEF LoadingInv
<1>15. SnapInv' /\ DemoInv'
  BY <1>9 DEF SnapInv, DemoInv
<1>16. QED
  BY <1>10, <1>12, <1>13, <1>14, <1>15

LEMMA DemoType ==
  ASSUME NEW d \in DemoRecord
  PROVE  /\ d.file \in Seq(FileRecord) /\ Len(d.file) \in Nat
         /\ d.recording \in BOOLEAN /\ d.waiting \in BOOLEAN
         /\ d.head.seq \in 0 .. MaxSequence
         /\ \A i \in 1 .. Len(d.file) : d.file[i].number \in 0 .. MaxSequence
<1>1. d.file \in Seq(FileRecord) /\ d.recording \in BOOLEAN /\ d.waiting \in BOOLEAN
      /\ d.head.seq \in 0 .. MaxSequence
  BY DEF DemoRecord
<1>2. \A i \in 1 .. Len(d.file) : d.file[i] \in FileRecord
  BY <1>1, InType
<1>3. QED
  BY <1>1, <1>2, InType DEF FileRecord

\* CL_WriteDemoMessage of a message later than all in the file.
LEMMA WrittenSound ==
  ASSUME NEW d \in DemoRecord, NEW n \in Int, DemoSound(d, n),
         NEW m \in Message, m.seq > n
  PROVE  LET w == Written(d, m, m.seq)
         IN  /\ w \in DemoRecord /\ DemoSound(w, m.seq)
             /\ w.recording = d.recording /\ w.waiting = d.waiting
<1>1. PICK k \in Nat : k = Len(d.file)
  BY DemoType
<1>2. PICK r : r = Record(m, m.seq)
  OBVIOUS
<1>3. PICK file : file = Append(d.file, r)
  OBVIOUS
<1>4. PICK w : w = Written(d, m, m.seq)
  OBVIOUS
<1>5. m.seq \in 1 .. MaxSequence
  BY DEF Message
<1>6. r \in FileRecord /\ r.number = m.seq /\ r.message = m
  BY <1>2, <1>5 DEF Record, FileRecord
<1>7. /\ file \in Seq(FileRecord) /\ Len(file) = k + 1
      /\ \A i \in 1 .. k : file[i] = d.file[i]
      /\ file[k + 1] = r
  BY <1>1, <1>3, <1>6, DemoType, AppendProperties
<1>8. w = [d EXCEPT !.file = file]
  BY <1>2, <1>3, <1>4 DEF Written
<1>9. /\ w \in DemoRecord /\ w.file = file /\ w.head = d.head
      /\ w.recording = d.recording /\ w.waiting = d.waiting
  BY <1>7, <1>8 DEF DemoRecord
<1>10. d.head.seq \in Int /\ d.head.seq <= n
  BY DemoType DEF DemoSound
<1>11. ASSUME NEW i \in 1 .. k + 1
       PROVE  /\ file[i].number = file[i].message.seq
              /\ file[i].number > (IF i = 1 THEN d.head.seq ELSE file[i - 1].number)
              /\ file[i].number <= m.seq
  <2>1. CASE i = k + 1 /\ i = 1
    BY <1>5, <1>6, <1>7, <1>10, <2>1
  <2>2. CASE i = k + 1 /\ i # 1
    <3>1. i - 1 \in 1 .. k /\ i - 1 = k
      BY <2>2
    <3>2. d.file[k].number \in Int /\ d.file[k].number <= n
      BY <1>1, <3>1, DemoType DEF DemoSound
    <3>3. file[i - 1] = d.file[k]
      BY <1>7, <3>1
    <3>4. d.file[k].number < m.seq
      BY <1>5, <3>2
    <3>5. QED
      BY <1>5, <1>6, <1>7, <2>2, <3>3, <3>4
  <2>3. CASE i # k + 1
    <3>1. i \in 1 .. k /\ file[i] = d.file[i]
      <4>1. i \in 1 .. k
        BY <2>3
      <4>2. QED
        BY <1>7, <4>1
    <3>2. /\ d.file[i].number = d.file[i].message.seq
          /\ d.file[i].number > (IF i = 1 THEN d.head.seq ELSE d.file[i - 1].number)
          /\ d.file[i].number <= n /\ d.file[i].number \in Int
      BY <1>1, <3>1, DemoType DEF DemoSound
    <3>3. file[i].number <= m.seq
      BY <1>5, <3>1, <3>2
    <3>4. i # 1 => file[i - 1] = d.file[i - 1]
      <4>1. i # 1 => i - 1 \in 1 .. k
        BY <3>1
      <4>2. QED
        BY <1>7, <4>1
    <3>5. QED
      BY <3>1, <3>2, <3>3, <3>4
  <2>4. QED
    BY <2>1, <2>2, <2>3
<1>12. d.head.seq <= m.seq
  BY <1>5, <1>10
<1>13. DemoSound(w, m.seq)
  BY <1>7, <1>9, <1>11, <1>12 DEF DemoSound
<1>14. QED
  BY <1>4, <1>9, <1>13

LEMMA LaterSound ==
  ASSUME NEW d \in DemoRecord, NEW n \in Int, DemoSound(d, n), NEW k \in Int, n <= k
  PROVE  DemoSound(d, k)
<1>1. d.head.seq \in Int /\ d.head.seq <= n
  BY DemoType DEF DemoSound
<1>2. d.head.seq <= k
  BY <1>1
<1>3. ASSUME NEW i \in 1 .. Len(d.file) PROVE d.file[i].number <= k
  <2>1. d.file[i].number \in Int /\ d.file[i].number <= n /\ n <= k
    BY DemoType DEF DemoSound
  <2>2. QED
    BY ONLY <2>1, n \in Int, k \in Int
<1>4. QED
  BY <1>2, <1>3 DEF DemoSound

LEMMA WaitedSound ==
  ASSUME NEW d \in DemoRecord, NEW n, DemoSound(d, n), NEW m \in Message
  PROVE  LET w == Waited(d, m)
         IN  /\ w \in DemoRecord /\ DemoSound(w, n) /\ w.recording = d.recording
             /\ m.kind # "snapshot" => w.waiting = d.waiting
<1>1. PICK b : b = (d.waiting /\ ~(m.kind = "snapshot" /\ m.base = None))
  OBVIOUS
<1>2. b \in BOOLEAN /\ (m.kind # "snapshot" => b = d.waiting)
  <2>1. d.waiting \in BOOLEAN
    BY DemoType
  <2>2. QED
    BY <1>1, <2>1
<1>3. PICK w : w = Waited(d, m)
  OBVIOUS
<1>4. w = [d EXCEPT !.waiting = b]
  BY <1>1, <1>3 DEF Waited
<1>5. w \in DemoRecord /\ w.recording = d.recording /\ w.waiting = b
      /\ w.file = d.file /\ w.head = d.head
  BY <1>2, <1>4 DEF DemoRecord
<1>6. DemoSound(w, n)
  BY <1>5 DEF DemoSound
<1>7. QED
  BY <1>2, <1>3, <1>5, <1>6

\* What CL_PacketEvent does with the message at the head of the queues.
Received(m) == [client EXCEPT !.incoming = m.seq, !.message = m.seq]
Early(m) == IF WriteBeforeParse(demo) THEN Written(demo, m, m.seq) ELSE demo
Begins(m) ==
    /\ m.kind = "gamestate"
    /\ client' = Gamestate(Received(m), m)
    /\ demo' = Early(m)
    /\ loading' = Append(loading, [message |-> m, before |-> WriteBeforeParse(demo)])
Handles(m) ==
    /\ m.kind # "gamestate"
    /\ client' = Parsed(Received(m), m)
    /\ demo' = LET late == Waited(Early(m), m)
               IN  IF WriteAfterParse(late, WriteBeforeParse(demo))
                   THEN Written(late, m, m.seq) ELSE late
    /\ UNCHANGED loading

\* The message taken is older than all that wait, so that it is never thrown
\* away for its number.
LEMMA PacketEventParts ==
  ASSUME IInv, PacketEvent
  PROVE  \E m \in Message :
            /\ m \in Pending
            /\ pushed' \in Seq(Message) /\ Len(pushed') <= PushSize
            /\ real' \in Seq(Message)
            /\ Increasing(pushed') /\ Increasing(real')
            /\ \A x \in In(pushed'), y \in In(real') : x.seq < y.seq
            /\ Pending' \subseteq Pending
            /\ \A x \in Pending' : m.seq < x.seq
            /\ UNCHANGED <<server, up>>
            /\ Begins(m) \/ Handles(m)
<1>1. /\ real \in Seq(Message) /\ pushed \in Seq(Message) /\ Len(pushed) <= PushSize
      /\ Increasing(real) /\ Increasing(pushed)
  BY DEF IInv, TypeOK, OrderInv
<1>2. PICK m : m = Head(IF NextEvent = "pushed" THEN pushed ELSE real)
  OBVIOUS
<1>3. /\ m \in Message /\ m \in Pending
      /\ pushed' \in Seq(Message) /\ Len(pushed') <= PushSize /\ real' \in Seq(Message)
      /\ Increasing(pushed') /\ Increasing(real')
      /\ In(pushed') \subseteq In(pushed) /\ In(real') \subseteq In(real)
      /\ \A x \in In(pushed') \cup In(real') : m.seq < x.seq
  <2>1. CASE pushed # <<>>
    <3>1. m = Head(pushed) /\ pushed' = Tail(pushed) /\ real' = real
      BY <1>2, <2>1 DEF NextEvent, PacketEvent
    <3>2. /\ m \in In(pushed) /\ m \in Message
          /\ pushed' \in Seq(Message) /\ Len(pushed') = Len(pushed) - 1
          /\ In(pushed') \subseteq In(pushed) /\ Increasing(pushed')
          /\ \A x \in In(pushed') : m.seq < x.seq
      BY <1>1, <2>1, <3>1, InHead
    <3>3. Len(pushed') <= PushSize
      BY <1>1, <3>2, InType
    <3>4. \A y \in In(real) : m.seq < y.seq
      BY <3>2 DEF IInv, OrderInv
    <3>5. QED
      BY <1>1, <3>1, <3>2, <3>3, <3>4 DEF Pending
  <2>2. CASE pushed = <<>>
    <3>1. m = Head(real) /\ real' = Tail(real) /\ pushed' = pushed
      BY <1>2, <2>2 DEF NextEvent, PacketEvent
    <3>2. real # <<>>
      <4>1. pushed \o real = real
        BY <1>1, <2>2, ConcatEmptySeq
      <4>2. QED
        BY <4>1 DEF PacketEvent
    <3>3. /\ m \in In(real) /\ m \in Message /\ real' \in Seq(Message)
          /\ In(real') \subseteq In(real) /\ Increasing(real')
          /\ \A x \in In(real') : m.seq < x.seq
      BY <1>1, <3>1, <3>2, InHead
    <3>4. In(pushed') = {}
      BY <2>2, <3>1, InEmpty
    <3>5. QED
      BY <1>1, <3>1, <3>3, <3>4 DEF Pending
  <2>3. QED
    BY <2>1, <2>2
<1>4. \A x \in In(pushed'), y \in In(real') : x.seq < y.seq
  BY <1>3 DEF IInv, OrderInv
<1>5. Pending' \subseteq Pending /\ \A x \in Pending' : m.seq < x.seq
  BY <1>3 DEF Pending
<1>6. ~(m.seq <= client.incoming)
  <2>1. m.seq \in 1 .. MaxSequence /\ client.incoming \in 0 .. MaxSequence
    BY <1>3, QueueType, ClientType DEF IInv
  <2>2. client.incoming < m.seq
    BY <1>3 DEF IInv, OrderInv
  <2>3. QED
    BY <2>1, <2>2
<1>7. UNCHANGED <<server, up>>
  BY DEF PacketEvent
<1>8. \/ /\ m.kind = "gamestate"
         /\ client' = Gamestate([client EXCEPT !.incoming = m.seq, !.message = m.seq], m)
         /\ demo' = IF WriteBeforeParse(demo) THEN Written(demo, m, m.seq) ELSE demo
         /\ loading' = Append(loading, [message |-> m, before |-> WriteBeforeParse(demo)])
      \/ /\ m.kind # "gamestate"
         /\ client' = Parsed([client EXCEPT !.incoming = m.seq, !.message = m.seq], m)
         /\ demo' = LET late == Waited(IF WriteBeforeParse(demo)
                                       THEN Written(demo, m, m.seq) ELSE demo, m)
                    IN  IF WriteAfterParse(late, WriteBeforeParse(demo))
                        THEN Written(late, m, m.seq) ELSE late
         /\ UNCHANGED loading
  BY <1>2, <1>6 DEF PacketEvent
<1>9. Begins(m) \/ Handles(m)
  BY <1>8 DEF Begins, Handles, Received, Early
<1>10. QED
  BY <1>3, <1>4, <1>5, <1>7, <1>9

\* What the demo is after a message that was not in it.
LEMMA EarlySound ==
  ASSUME IInv, NEW m \in Message, m \in Pending
  PROVE  /\ Early(m) \in DemoRecord /\ DemoSound(Early(m), m.seq)
         /\ Early(m).recording = demo.recording /\ Early(m).waiting = demo.waiting
         /\ ~WriteBeforeParse(demo) => DemoSound(Early(m), client.message)
<1>1. /\ demo \in DemoRecord /\ client.message \in Int /\ m.seq \in Int
      /\ DemoSound(demo, client.message)
  BY SMTT(20), ClientType, QueueType DEF IInv, TypeOK, DemoInv
<1>2. m.seq > client.message
  <2>1. client.incoming < m.seq /\ client.message = client.incoming
    BY DEF IInv, OrderInv
  <2>2. QED
    BY <1>1, <2>1
<1>3. CASE WriteBeforeParse(demo)
  <2>1. Early(m) = Written(demo, m, m.seq)
    BY <1>3 DEF Early
  <2>2. QED
    BY <1>1, <1>2, <1>3, <2>1, WrittenSound
<1>4. CASE ~WriteBeforeParse(demo)
  <2>1. Early(m) = demo
    BY <1>4 DEF Early
  <2>2. DemoSound(demo, m.seq)
    BY <1>1, <1>2, LaterSound
  <2>3. QED
    BY <1>1, <2>1, <2>2
<1>5. QED
  BY <1>3, <1>4

\* The handling of a gamestate up to the event loop of CL_DownloadsComplete.
LEMMA BeginsInv ==
  ASSUME IInv, NEW m \in Message, m \in Pending,
         pushed' \in Seq(Message), Len(pushed') <= PushSize, real' \in Seq(Message),
         Increasing(pushed'), Increasing(real'),
         \A x \in In(pushed'), y \in In(real') : x.seq < y.seq,
         Pending' \subseteq Pending, \A x \in Pending' : m.seq < x.seq,
         UNCHANGED <<server, up>>, Begins(m)
  PROVE  IInv'
<1>1. /\ m.seq \in 1 .. MaxSequence /\ m.map \in 1 .. MaxMaps
      /\ m.upto \in 0 .. MaxCommands /\ m.kind = "gamestate"
  BY QueueType DEF IInv, Begins
<1>2. /\ client.incoming \in Int /\ client.message \in Int /\ client.map \in Int
  <2>1. client.incoming \in 0 .. MaxSequence /\ client.message \in 0 .. MaxSequence
        /\ client.map \in 0 .. MaxMaps
    BY ClientType DEF IInv
  <2>2. QED
    BY <2>1
<1>3. server.map \in Int /\ server.gamestate \in Int /\ server.next \in Int
  <2>1. server.map \in 1 .. MaxMaps /\ server.next \in 1 .. MaxSequence + 1
        /\ server.gamestate \in Int
    BY ServerType DEF IInv
  <2>2. QED
    BY <2>1
<1>4. /\ client.incoming < m.seq /\ m.seq < server.next
      /\ client.message = client.incoming
      /\ m.seq = server.gamestate /\ m.map <= server.map /\ client.map < m.map
      /\ server.phase # "active"
      /\ \A y \in Pending : y.kind = "snapshot" => y.seq < m.seq
  BY <1>1 DEF IInv, OrderInv, GamestateInv
<1>5. loading = <<>>
  <2>1. ~(server.gamestate <= client.incoming)
    BY <1>2, <1>3, <1>4
  <2>2. QED
    BY <2>1 DEF IInv, LoadingInv
<1>6. PICK x : x = [message |-> m, before |-> WriteBeforeParse(demo)]
  OBVIOUS
<1>7. /\ x \in Suspended /\ x.message = m
      /\ x.before = (demo.recording /\ ~demo.waiting)
  <2>1. demo.recording \in BOOLEAN /\ demo.waiting \in BOOLEAN
    BY DemoType DEF IInv, TypeOK
  <2>2. WriteBeforeParse(demo) \in BOOLEAN
    BY <2>1 DEF WriteBeforeParse
  <2>3. QED
    BY <1>6, <2>2 DEF Suspended, WriteBeforeParse
<1>8. loading' = <<x>>
  <2>1. loading' = Append(<<>>, x)
    BY <1>5, <1>6 DEF Begins
  <2>2. QED
    BY <2>1
<1>9. /\ loading' \in Seq(Suspended) /\ Len(loading') = 1 /\ loading'[1] = x
      /\ loading' # <<>>
  BY <1>7, <1>8
<1>10. /\ client' \in ClientRecord /\ client'.phase = "loading" /\ client'.map = m.map
       /\ client'.incoming = m.seq /\ client'.message = m.seq /\ client'.snap = 0
  <2>1. client \in ClientRecord
    BY DEF IInv, TypeOK
  <2>2. client' = [[client EXCEPT !.incoming = m.seq, !.message = m.seq] EXCEPT
                      !.phase = "loading", !.map = m.map, !.commands = m.upto, !.snap = 0]
    BY DEF Begins, Gamestate, Received
  <2>3. PICK c : c = [client EXCEPT !.incoming = m.seq, !.message = m.seq]
    OBVIOUS
  <2>4. c \in ClientRecord /\ c.incoming = m.seq /\ c.message = m.seq
    <3>1. m.seq \in 0 .. MaxSequence
      BY <1>1
    <3>2. QED
      BY <2>1, <2>3, <3>1 DEF ClientRecord
  <2>5. m.map \in 0 .. MaxMaps /\ 0 \in 0 .. MaxSequence
    BY <1>1
  <2>6. client' = [c EXCEPT !.phase = "loading", !.map = m.map, !.commands = m.upto,
                            !.snap = 0]
    BY <2>2, <2>3
  <2>7. QED
    BY <1>1, <2>4, <2>5, <2>6 DEF ClientRecord
<1>11. /\ demo' \in DemoRecord /\ DemoSound(demo', m.seq)
       /\ demo'.recording = demo.recording /\ demo'.waiting = demo.waiting
  BY EarlySound DEF Begins
<1>12. TypeOK'
  BY <1>9, <1>10, <1>11 DEF IInv, TypeOK
<1>13. OrderInv'
  <2>1. \A y \in Pending' : m.seq < y.seq /\ y.seq < server.next
    BY DEF IInv, OrderInv
  <2>2. server.gamestate < server.next
    BY DEF IInv, OrderInv
  <2>3. QED
    BY <1>4, <1>10, <2>1, <2>2 DEF OrderInv
<1>14. ASSUME NEW q \in In(up)
       PROVE  /\ q.ack < m.seq /\ q.id < m.map /\ (q.delta => q.ack # 0)
              /\ q.ack <= m.seq /\ q.id <= m.map /\ ~(q.ack > m.seq)
  <2>1. q.ack \in 0 .. MaxSequence /\ q.id \in 0 .. MaxMaps
    BY QueueType DEF IInv
  <2>2. q.ack <= client.message /\ q.id <= client.map /\ (q.delta => q.ack # 0)
    BY DEF IInv, UpInv
  <2>3. client.message < m.seq /\ client.map < m.map
    BY <1>4
  <2>4. q.ack < m.seq /\ q.id < m.map
    BY ONLY <1>1, <1>2, <2>1, <2>2, <2>3
  <2>5. QED
    BY ONLY <1>1, <2>1, <2>2, <2>4
<1>15. UpInv'
  BY <1>4, <1>10, <1>14 DEF UpInv
<1>16. ASSUME NEW y \in Pending'
       PROVE  /\ y.kind # "gamestate" /\ y.kind # "snapshot"
              /\ y.seq # server.gamestate /\ y.map <= server.map
  <2>1. y \in Pending /\ y.seq \in Int /\ m.seq < y.seq
    BY QueueType DEF IInv
  <2>2. y.seq # server.gamestate /\ ~(y.seq < m.seq)
    BY <1>1, <1>4, <2>1
  <2>3. QED
    BY <1>4, <2>1, <2>2 DEF IInv, GamestateInv
<1>17. GamestateInv'
  <2>1. ~(m.seq < server.gamestate)
    BY <1>1, <1>4
  <2>2. QED
    BY <1>4, <1>10, <1>16, <2>1 DEF GamestateInv
<1>18. LoadingInv'
  <2>1. server.gamestate <= m.seq
    BY <1>1, <1>4
  <2>2. x.before <=> demo'.recording /\ ~demo'.waiting
    BY <1>7, <1>11
  <2>3. QED
    BY <1>4, <1>7, <1>9, <1>10, <1>14, <1>16, <2>1, <2>2 DEF LoadingInv
<1>19. SnapInv'
  BY <1>1, <1>10 DEF SnapInv
<1>20. DemoInv'
  BY <1>10, <1>11 DEF DemoInv
<1>21. QED
  BY <1>12, <1>13, <1>15, <1>17, <1>18, <1>19, <1>20 DEF IInv

\* Any other message: commands and perhaps a snapshot, written to the demo
\* before or after, but not twice.
LEMMA HandlesDemo ==
  ASSUME IInv, NEW m \in Message, m \in Pending, Handles(m)
  PROVE  /\ demo' \in DemoRecord /\ DemoSound(demo', m.seq)
         /\ m.kind # "snapshot" =>
               demo'.recording = demo.recording /\ demo'.waiting = demo.waiting
<1>1. PICK early : early = Early(m)
  OBVIOUS
<1>2. /\ early \in DemoRecord /\ DemoSound(early, m.seq)
      /\ early.recording = demo.recording /\ early.waiting = demo.waiting
      /\ ~WriteBeforeParse(demo) => DemoSound(early, client.message)
  BY <1>1, EarlySound
<1>3. PICK late : late = Waited(early, m)
  OBVIOUS
<1>4. /\ late \in DemoRecord /\ DemoSound(late, m.seq) /\ late.recording = early.recording
      /\ m.kind # "snapshot" => late.waiting = early.waiting
  BY <1>2, <1>3, WaitedSound
<1>5. demo' = IF WriteAfterParse(late, WriteBeforeParse(demo))
              THEN Written(late, m, m.seq) ELSE late
  BY <1>1, <1>3 DEF Handles
<1>6. CASE WriteAfterParse(late, WriteBeforeParse(demo))
  <2>1. DemoSound(early, client.message)
    BY <1>2, <1>6 DEF WriteAfterParse
  <2>2. DemoSound(late, client.message)
    BY <1>2, <1>3, <2>1, WaitedSound
  <2>3. client.message \in Int /\ client.incoming < m.seq /\ client.message = client.incoming
    <3>1. client.message \in 0 .. MaxSequence
      BY ClientType DEF IInv
    <3>2. client.incoming < m.seq /\ client.message = client.incoming
      BY DEF IInv, OrderInv
    <3>3. QED
      BY <3>1, <3>2
  <2>4. m.seq > client.message
    BY <2>3
  <2>5. demo' = Written(late, m, m.seq)
    BY <1>5, <1>6
  <2>6. QED
    BY <1>2, <1>4, <2>2, <2>3, <2>4, <2>5, WrittenSound
<1>7. CASE ~WriteAfterParse(late, WriteBeforeParse(demo))
  BY <1>2, <1>4, <1>5, <1>7
<1>8. QED
  BY <1>6, <1>7

LEMMA HandlesClient ==
  ASSUME IInv, NEW m \in Message, m \in Pending, Handles(m)
  PROVE  /\ client' \in ClientRecord /\ client'.phase = client.phase
         /\ client'.map = client.map /\ client'.cgame = client.cgame
         /\ client'.incoming = m.seq /\ client'.message = m.seq
         /\ client'.snap = IF m.kind = "snapshot" THEN m.seq ELSE client.snap
<1>1. /\ client \in ClientRecord /\ m.seq \in 0 .. MaxSequence
      /\ m.upto \in 0 .. MaxCommands
  <2>1. m.seq \in 1 .. MaxSequence /\ m.upto \in 0 .. MaxCommands
    BY QueueType DEF IInv
  <2>2. QED
    BY <2>1 DEF IInv, TypeOK
<1>2. PICK c : c = Received(m)
  OBVIOUS
<1>3. /\ c \in ClientRecord /\ c.phase = client.phase /\ c.map = client.map
      /\ c.cgame = client.cgame /\ c.incoming = m.seq /\ c.message = m.seq
      /\ c.snap = client.snap
  BY <1>1, <1>2 DEF Received, ClientRecord
<1>4. PICK commands : commands = IF m.upto > c.commands THEN m.upto ELSE c.commands
  OBVIOUS
<1>5. PICK snap : snap = IF m.kind = "snapshot" THEN m.seq ELSE c.snap
  OBVIOUS
<1>6. commands \in 0 .. MaxCommands /\ snap \in 0 .. MaxSequence
  BY <1>1, <1>3, <1>4, <1>5 DEF ClientRecord
<1>7. client' = [c EXCEPT !.commands = commands, !.snap = snap]
  BY <1>2, <1>4, <1>5 DEF Handles, Parsed
<1>8. QED
  BY <1>3, <1>5, <1>6, <1>7 DEF ClientRecord

LEMMA HandlesInv ==
  ASSUME IInv, NEW m \in Message, m \in Pending,
         pushed' \in Seq(Message), Len(pushed') <= PushSize, real' \in Seq(Message),
         Increasing(pushed'), Increasing(real'),
         \A x \in In(pushed'), y \in In(real') : x.seq < y.seq,
         Pending' \subseteq Pending, \A x \in Pending' : m.seq < x.seq,
         UNCHANGED <<server, up>>, Handles(m)
  PROVE  IInv'
<1>1. m.seq \in 1 .. MaxSequence /\ m.kind # "gamestate"
  BY QueueType DEF IInv, Handles
<1>2. client.incoming \in Int /\ client.message \in Int /\ client.snap \in Int
  <2>1. client.incoming \in 0 .. MaxSequence /\ client.message \in 0 .. MaxSequence
        /\ client.snap \in 0 .. MaxSequence
    BY ClientType DEF IInv
  <2>2. QED
    BY <2>1
<1>3. server.gamestate \in Int /\ server.next \in Int
  <2>1. server.next \in 1 .. MaxSequence + 1 /\ server.gamestate \in Int
    BY ServerType DEF IInv
  <2>2. QED
    BY <2>1
<1>4. /\ client.incoming < m.seq /\ m.seq < server.next
      /\ client.message = client.incoming /\ m.seq # server.gamestate
  BY <1>1 DEF IInv, OrderInv, GamestateInv
<1>5. /\ client' \in ClientRecord /\ client'.phase = client.phase
      /\ client'.map = client.map /\ client'.cgame = client.cgame
      /\ client'.incoming = m.seq /\ client'.message = m.seq
      /\ client'.snap = IF m.kind = "snapshot" THEN m.seq ELSE client.snap
  BY HandlesClient
<1>6. /\ demo' \in DemoRecord /\ DemoSound(demo', m.seq)
      /\ m.kind # "snapshot" =>
            demo'.recording = demo.recording /\ demo'.waiting = demo.waiting
  BY HandlesDemo
<1>7. UNCHANGED loading
  BY DEF Handles
<1>8. TypeOK'
  BY <1>5, <1>6, <1>7 DEF IInv, TypeOK
<1>9. OrderInv'
  <2>1. \A y \in Pending' : m.seq < y.seq /\ y.seq < server.next
    BY DEF IInv, OrderInv
  <2>2. server.gamestate < server.next
    BY DEF IInv, OrderInv
  <2>3. QED
    BY <1>4, <1>5, <2>1, <2>2 DEF OrderInv
<1>10. UpInv'
  <2>1. ASSUME NEW q \in In(up) PROVE q.ack <= m.seq
    <3>1. q.ack \in Int
      <4>1. q.ack \in 0 .. MaxSequence
        BY QueueType DEF IInv
      <4>2. QED
        BY <4>1
    <3>2. q.ack <= client.message
      BY DEF IInv, UpInv
    <3>3. QED
      BY <1>1, <1>2, <1>4, <3>1, <3>2
  <2>2. QED
    BY <1>5, <2>1 DEF IInv, UpInv
<1>11. m.seq < server.gamestate => client.incoming < server.gamestate
  BY <1>1, <1>2, <1>3, <1>4
<1>12. GamestateInv'
  BY <1>5, <1>11 DEF IInv, GamestateInv
<1>13. LoadingInv'
  <2>1. CASE loading = <<>>
    BY <1>5, <1>7, <2>1 DEF IInv, LoadingInv
  <2>2. CASE loading # <<>>
    <3>1. m.kind # "snapshot"
      BY <2>2 DEF IInv, LoadingInv
    <3>2. demo'.recording = demo.recording /\ demo'.waiting = demo.waiting
      BY <1>6, <3>1
    <3>3. server.gamestate <= m.seq
      <4>1. server.gamestate <= client.incoming
        BY <2>2 DEF IInv, LoadingInv
      <4>2. QED
        BY <1>1, <1>2, <1>3, <1>4, <4>1
    <3>4. QED
      BY <1>5, <1>7, <2>2, <3>2, <3>3 DEF IInv, LoadingInv
  <2>3. QED
    BY <2>1, <2>2
<1>14. SnapInv'
  <2>1. client'.phase = "active" => client'.snap # 0
    BY <1>1, <1>5 DEF IInv, SnapInv
  <2>2. client'.snap <= m.seq
    <3>1. client.snap <= client.message
      BY DEF IInv, SnapInv
    <3>2. client.snap <= m.seq /\ m.seq <= m.seq
      BY <1>1, <1>2, <1>4, <3>1
    <3>3. QED
      BY <1>5, <3>2
  <2>3. client'.snap # 0 => client'.snap > server.gamestate \/ client.map # server.map
    <3>1. CASE m.kind = "snapshot"
      <4>1. m.seq > server.gamestate \/ m.seq < server.gamestate
        BY <1>1, <1>3, <1>4
      <4>2. m.seq < server.gamestate => client.map # server.map
        BY <1>11 DEF IInv, GamestateInv
      <4>3. QED
        BY <1>5, <3>1, <4>1, <4>2
    <3>2. CASE m.kind # "snapshot"
      BY <1>5, <3>2 DEF IInv, SnapInv
    <3>3. QED
      BY <3>1, <3>2
  <2>4. client'.phase \in {"primed", "active"} => client'.cgame = client'.map
    BY <1>5 DEF IInv, SnapInv
  <2>5. QED
    BY <1>5, <2>1, <2>2, <2>3, <2>4 DEF SnapInv
<1>15. DemoInv'
  BY <1>5, <1>6 DEF DemoInv
<1>16. QED
  BY <1>8, <1>9, <1>10, <1>12, <1>13, <1>14, <1>15 DEF IInv

LEMMA PacketEventInv ==
  ASSUME IInv, PacketEvent
  PROVE  IInv'
<1>1. PICK m \in Message :
         /\ m \in Pending
         /\ pushed' \in Seq(Message) /\ Len(pushed') <= PushSize
         /\ real' \in Seq(Message)
         /\ Increasing(pushed') /\ Increasing(real')
         /\ \A x \in In(pushed'), y \in In(real') : x.seq < y.seq
         /\ Pending' \subseteq Pending
         /\ \A x \in Pending' : m.seq < x.seq
         /\ UNCHANGED <<server, up>>
         /\ Begins(m) \/ Handles(m)
  BY PacketEventParts
<1>2. CASE Begins(m)
  BY <1>1, <1>2, BeginsInv
<1>3. CASE Handles(m)
  BY <1>1, <1>3, HandlesInv
<1>4. QED
  BY <1>1, <1>2, <1>3

\* CL_WritePacket acknowledges what the client has received.
LEMMA WritePacketUp ==
  ASSUME IInv, NEW c \in ClientRecord, c.map = client.map, c.message = client.message,
         NEW move \in BOOLEAN, WritePacket(c, demo, move)
  PROVE  /\ up' \in Seq(Packet)
         /\ \A p \in In(up') :
               /\ p.ack <= client.message /\ p.id <= client.map
               /\ p.delta => p.ack # 0
               /\ p.ack > server.gamestate => p.id = client.map
<1>1. PICK p : p = [id |-> c.map, ack |-> c.message, commands |-> c.commands,
                    move |-> move, delta |-> move /\ UsesDelta(c, demo)]
  OBVIOUS
<1>2. /\ c.map \in 0 .. MaxMaps /\ c.message \in 0 .. MaxSequence
      /\ c.commands \in 0 .. MaxCommands
  BY DEF ClientRecord
<1>3. (move /\ UsesDelta(c, demo)) \in BOOLEAN
  BY DEF UsesDelta
<1>4. p \in Packet
  BY <1>1, <1>2, <1>3 DEF Packet
<1>5. p.delta => p.ack # 0
  BY <1>1, <1>2 DEF UsesDelta
<1>6. p.ack = client.message /\ p.id = client.map
  BY <1>1
<1>7. p.ack <= client.message /\ p.id <= client.map
  BY <1>2, <1>6
<1>8. up \in Seq(Packet)
  BY DEF IInv, TypeOK
<1>9. CASE up' = up
  BY <1>8, <1>9 DEF IInv, UpInv
<1>10. CASE up' = Append(up, p)
  <2>1. up' \in Seq(Packet) /\ In(up') = In(up) \cup {p}
    BY <1>4, <1>8, <1>10, InAppend
  <2>2. QED
    BY <1>5, <1>6, <1>7, <2>1 DEF IInv, UpInv
<1>11. QED
  BY <1>1, <1>9, <1>10 DEF WritePacket

\* At most one gamestate is being handled.
LEMMA OneLoading ==
  ASSUME IInv, loading # <<>>
  PROVE  Len(loading) = 1 /\ Last(loading) = loading[1]
<1>1. loading \in Seq(Suspended) /\ Len(loading) <= 1
  BY DEF IInv, TypeOK, LoadingInv
<1>2. PICK n \in Nat : n = Len(loading)
  BY <1>1, InType
<1>3. n # 0
  BY <1>1, <1>2, InType
<1>4. n = 1
  BY ONLY <1>1, <1>2, <1>3
<1>5. QED
  BY <1>2, <1>4 DEF Last

\* The nested event loop is over: the map is loaded, and the gamestate is not
\* written to the demo a second time.
LEMMA LoadMapInv ==
  ASSUME IInv, LoadMap
  PROVE  IInv'
<1>1. PICK x : x = loading[1]
  OBVIOUS
<1>2. /\ loading # <<>> /\ loading \in Seq(Suspended) /\ Len(loading) <= 1
      /\ client.phase = "loading"
      /\ x.before <=> demo.recording /\ ~demo.waiting
  BY <1>1 DEF IInv, TypeOK, LoadingInv, LoadMap
<1>3. Len(loading) = 1
  BY <1>2, OneLoading
<1>4. Last(loading) = x
  BY <1>1, <1>2, OneLoading
<1>5. loading' = <<>>
  <2>1. loading' = SubSeq(loading, 1, 0)
    BY <1>3 DEF LoadMap, Front
  <2>2. QED
    BY <1>2, <2>1, SubSeqProperties, EmptySeq
<1>6. demo' = demo
  BY <1>2, <1>4 DEF LoadMap, WriteAfterParse
<1>7. UNCHANGED <<server, pushed, real>>
  BY DEF LoadMap
<1>8. PICK c : c = [client EXCEPT !.phase = "primed", !.cgame = client.map]
  OBVIOUS
<1>9. client' = c /\ WritePacket(c, demo, FALSE)
  BY <1>2, <1>8 DEF LoadMap
<1>10. /\ c \in ClientRecord /\ c.phase = "primed" /\ c.cgame = client.map
       /\ c.map = client.map /\ c.incoming = client.incoming
       /\ c.message = client.message /\ c.snap = client.snap
  <2>1. client \in ClientRecord
    BY DEF IInv, TypeOK
  <2>2. client.map \in 0 .. MaxMaps
    BY ClientType DEF IInv
  <2>3. QED
    BY <1>8, <2>1, <2>2 DEF ClientRecord
<1>11. /\ up' \in Seq(Packet)
       /\ \A p \in In(up') :
             /\ p.ack <= client.message /\ p.id <= client.map
             /\ p.delta => p.ack # 0
             /\ p.ack > server.gamestate => p.id = client.map
  BY <1>9, <1>10, WritePacketUp
<1>12. Pending' = Pending
  BY <1>7 DEF Pending
<1>13. TypeOK'
  BY <1>5, <1>6, <1>7, <1>9, <1>10, <1>11, EmptySeq DEF IInv, TypeOK
<1>14. OrderInv'
  BY <1>7, <1>9, <1>10, <1>12 DEF IInv, OrderInv
<1>15. UpInv'
  BY <1>7, <1>9, <1>10, <1>11 DEF UpInv
<1>16. GamestateInv'
  BY <1>7, <1>9, <1>10, <1>12 DEF IInv, GamestateInv
<1>17. LoadingInv'
  BY <1>5, <1>9, <1>10 DEF LoadingInv
<1>18. SnapInv'
  BY <1>7, <1>9, <1>10 DEF IInv, SnapInv
<1>19. DemoInv'
  BY <1>6, <1>9, <1>10 DEF IInv, DemoInv
<1>20. QED
  BY <1>13, <1>14, <1>15, <1>16, <1>17, <1>18, <1>19 DEF IInv

LEMMA FirstSnapshotInv ==
  ASSUME IInv, FirstSnapshot
  PROVE  IInv'
<1>1. /\ loading = <<>> /\ client.phase = "primed" /\ client.snap # 0
      /\ UNCHANGED <<server, demo, pushed, real, up, loading>>
  BY DEF FirstSnapshot
<1>2. /\ client' \in ClientRecord /\ client'.phase = "active"
      /\ client'.cgame = client.cgame
      /\ client'.map = client.map /\ client'.incoming = client.incoming
      /\ client'.message = client.message /\ client'.snap = client.snap
  <2>1. client \in ClientRecord
    BY DEF IInv, TypeOK
  <2>2. client' = [client EXCEPT !.phase = "active"]
    BY DEF FirstSnapshot
  <2>3. QED
    BY <2>1, <2>2 DEF ClientRecord
<1>3. Pending' = Pending
  BY <1>1 DEF Pending
<1>4. TypeOK'
  BY <1>1, <1>2 DEF IInv, TypeOK
<1>5. OrderInv' /\ UpInv' /\ GamestateInv'
  BY <1>1, <1>2, <1>3 DEF IInv, OrderInv, UpInv, GamestateInv
<1>6. LoadingInv'
  BY <1>1, <1>2 DEF IInv, LoadingInv
<1>7. SnapInv' /\ DemoInv'
  BY <1>1, <1>2 DEF IInv, SnapInv, DemoInv
<1>8. QED
  BY <1>4, <1>5, <1>6, <1>7 DEF IInv

LEMMA SendCmdInv ==
  ASSUME IInv, SendCmd
  PROVE  IInv'
<1>1. /\ loading = <<>>
      /\ UNCHANGED <<server, client, demo, pushed, real, loading>>
  BY DEF SendCmd
<1>2. /\ up' \in Seq(Packet)
      /\ \A p \in In(up') :
            /\ p.ack <= client.message /\ p.id <= client.map
            /\ p.delta => p.ack # 0
            /\ p.ack > server.gamestate => p.id = client.map
  <2>1. client \in ClientRecord
    BY DEF IInv, TypeOK
  <2>2. PICK move : move = (client.phase \in {"primed", "active"})
    OBVIOUS
  <2>3. move \in BOOLEAN
    BY <2>2
  <2>4. WritePacket(client, demo, move)
    BY <2>2 DEF SendCmd
  <2>5. QED
    BY <2>1, <2>3, <2>4, WritePacketUp
<1>3. Pending' = Pending
  BY <1>1 DEF Pending
<1>4. TypeOK'
  BY <1>1, <1>2 DEF IInv, TypeOK
<1>5. OrderInv' /\ UpInv' /\ GamestateInv'
  BY <1>1, <1>2, <1>3 DEF IInv, OrderInv, UpInv, GamestateInv
<1>6. LoadingInv'
  BY <1>1 DEF IInv, LoadingInv
<1>7. SnapInv' /\ DemoInv'
  BY <1>1 DEF IInv, SnapInv, DemoInv
<1>8. QED
  BY <1>4, <1>5, <1>6, <1>7 DEF IInv

\* CL_Record_f and CL_StopRecord_f: only the demo changes, and no gamestate is
\* being handled.
LEMMA RecordInv ==
  ASSUME IInv, UNCHANGED <<server, client, pushed, real, up, loading>>,
         loading = <<>>, demo' \in DemoRecord, DemoSound(demo', client.message)
  PROVE  IInv'
<1>1. Pending' = Pending
  BY DEF Pending
<1>2. TypeOK'
  BY DEF IInv, TypeOK
<1>3. OrderInv' /\ UpInv' /\ GamestateInv'
  BY <1>1 DEF IInv, OrderInv, UpInv, GamestateInv
<1>4. LoadingInv'
  BY DEF IInv, LoadingInv
<1>5. SnapInv' /\ DemoInv'
  BY DEF IInv, SnapInv, DemoInv
<1>6. QED
  BY <1>2, <1>3, <1>4, <1>5 DEF IInv

LEMMA StartRecordingInv ==
  ASSUME IInv, StartRecording
  PROVE  IInv'
<1>1. demo \in DemoRecord /\ client \in ClientRecord
  BY DEF IInv, TypeOK
<1>2. demo.started + 1 \in 0 .. MaxRecords
  <2>1. demo.started \in 0 .. MaxRecords
    BY <1>1 DEF DemoRecord
  <2>2. QED
    BY <2>1 DEF StartRecording
<1>3. PICK head : head = [seq |-> client.message, map |-> client.map,
                          commands |-> client.commands]
  OBVIOUS
<1>4. /\ head \in [seq : 0 .. MaxSequence, map : 0 .. MaxMaps, commands : 0 .. MaxCommands]
      /\ head.seq = client.message /\ client.message \in Int
  BY <1>1, <1>3 DEF ClientRecord
<1>5. demo' = [recording |-> TRUE, waiting |-> TRUE, started |-> demo.started + 1,
               head |-> head, file |-> <<>>]
  BY <1>3 DEF StartRecording
<1>6. <<>> \in Seq(FileRecord) /\ Len(<<>>) = 0
  BY EmptySeq
<1>7. demo' \in DemoRecord
  BY <1>2, <1>4, <1>5, <1>6 DEF DemoRecord
<1>8. DemoSound(demo', client.message)
  BY <1>4, <1>5, <1>6 DEF DemoSound
<1>9. QED
  BY <1>7, <1>8, RecordInv DEF StartRecording

LEMMA StopRecordingInv ==
  ASSUME IInv, StopRecording
  PROVE  IInv'
<1>1. demo \in DemoRecord /\ demo' = [demo EXCEPT !.recording = FALSE]
  BY DEF IInv, TypeOK, StopRecording
<1>2. demo' \in DemoRecord /\ demo'.head = demo.head /\ demo'.file = demo.file
  BY <1>1 DEF DemoRecord
<1>3. DemoSound(demo', client.message)
  BY <1>2 DEF IInv, DemoInv, DemoSound
<1>4. QED
  BY <1>2, <1>3, RecordInv DEF StopRecording

LEMMA NextInv ==
  ASSUME IInv, [Next]_vars
  PROVE  IInv'
<1>1. CASE UNCHANGED vars
  BY <1>1 DEF vars, IInv, TypeOK, OrderInv, UpInv, GamestateInv, LoadingInv, SnapInv,
              DemoInv, Pending
<1>2. CASE Next
  BY <1>2, SendSnapshotInv, AddCommandInv, ChangeMapInv, ServerReceivesInv,
     PushEventInv, PacketEventInv, LoadMapInv, FirstSnapshotInv, SendCmdInv,
     StartRecordingInv, StopRecordingInv DEF Next
<1>3. QED
  BY <1>1, <1>2

-----------------------------------------------------------------------------
(* The theorems *)

\* The invariant that relates the queues, the packets under way, the gamestate
\* and the demo.
THEOREM Invariance == Spec => []IInv
<1>1. IInv /\ [Next]_vars => IInv'
  BY NextInv
<1>2. QED
  BY InitInv, <1>1, PTL DEF Spec

LEMMA Arrival ==
  ASSUME IInv
  PROVE  InArrivalOrder
<1>1. pushed \in Seq(Message) /\ real \in Seq(Message)
  BY DEF IInv, TypeOK
<1>2. PICK n \in Nat : n = Len(pushed)
  BY <1>1, InType
<1>3. PICK k \in Nat : k = Len(real)
  BY <1>1, InType
<1>4. PICK w : w = Waiting
  OBVIOUS
<1>5. /\ w \in Seq(Message) /\ Len(w) = n + k
      /\ \A i \in 1 .. n + k : w[i] = IF i <= n THEN pushed[i] ELSE real[i - n]
  BY <1>1, <1>2, <1>3, <1>4, ConcatProperties DEF Waiting
<1>6. DOMAIN w = 1 .. n + k
  BY <1>5, InType
<1>7. ASSUME NEW i \in 1 .. n + k PROVE w[i].seq > client.incoming
  <2>1. w[i] \in Pending
    <3>1. CASE i <= n
      <4>1. i \in 1 .. n
        BY <3>1
      <4>2. QED
        BY <1>2, <1>5, <3>1, <4>1 DEF Pending, In
    <3>2. CASE ~(i <= n)
      <4>1. i - n \in 1 .. k
        BY <3>2
      <4>2. QED
        BY <1>3, <1>5, <3>2, <4>1 DEF Pending, In
    <3>3. QED
      BY <3>1, <3>2
  <2>2. client.incoming < w[i].seq
    BY <2>1 DEF IInv, OrderInv
  <2>3. w[i].seq \in 1 .. MaxSequence
    BY <2>1, QueueType DEF IInv
  <2>4. client.incoming \in 0 .. MaxSequence
    BY ClientType DEF IInv
  <2>5. QED
    BY <2>2, <2>3, <2>4
<1>8. ASSUME NEW i \in 1 .. n + k, NEW j \in 1 .. i - 1 PROVE w[j].seq < w[i].seq
  <2>0. j \in 1 .. n + k /\ j < i
    OBVIOUS
  <2>1. CASE i <= n
    <3>1. i \in 1 .. n /\ j \in 1 .. n /\ j < i /\ j <= n
      BY <2>1
    <3>2. QED
      BY <1>2, <1>5, <2>0, <2>1, <3>1 DEF IInv, OrderInv, Increasing
  <2>2. CASE j <= n /\ ~(i <= n)
    <3>1. j \in 1 .. n /\ i - n \in 1 .. k
      BY <2>2
    <3>2. w[j] \in In(pushed) /\ w[i] \in In(real)
      BY <1>2, <1>3, <1>5, <2>0, <2>2, <3>1 DEF In
    <3>3. QED
      BY <3>2 DEF IInv, OrderInv
  <2>3. CASE ~(j <= n)
    <3>1. j - n \in 1 .. k /\ i - n \in 1 .. k /\ j - n < i - n /\ ~(i <= n)
      BY <2>3
    <3>2. QED
      BY <1>3, <1>5, <2>0, <2>3, <3>1 DEF IInv, OrderInv, Increasing
  <2>4. QED
    BY <2>1, <2>2, <2>3
<1>9. QED
  BY <1>4, <1>6, <1>7, <1>8 DEF InArrivalOrder

\* Com_GetEvent takes events pushed back before newer ones: packets are handled
\* in the order they came, and never a gamestate inside of the handling of
\* another one (CL_DownloadsComplete runs the event loop).
THEOREM Events == Spec => []EventsInOrder
<1>1. ASSUME IInv PROVE EventsInOrder
  <2>1. loading # <<>> => Last(loading) = loading[1]
    BY <1>1, OneLoading
  <2>2. NoNestedGamestate
    BY <1>1, <2>1 DEF IInv, LoadingInv, NoNestedGamestate
  <2>3. QED
    BY <1>1, <2>2, Arrival DEF EventsInOrder, IInv
<1>2. IInv => EventsInOrder
  BY <1>1
<1>3. QED
  BY Invariance, <1>2, PTL

\* The snapshot shown by a client in the game is later than the last gamestate,
\* or of the map the server has left: CL_ParseGamestate clears the snapshot, and
\* no snapshot is handled while its map is being loaded.
THEOREM Snapshot == Spec => []SnapshotOfMap
<1>1. IInv => SnapshotOfMap
  BY DEF IInv, SnapInv, SnapshotOfMap
<1>2. QED
  BY Invariance, <1>1, PTL

\* CL_WriteDemoMessage writes each message once, under its own number and in
\* the order of the numbers, though others are handled inside of the handling of
\* a gamestate.
THEOREM Demo == Spec => []DemoInOrder
<1>1. ASSUME IInv PROVE DemoInOrder
  <2>1. DOMAIN demo.file = 1 .. Len(demo.file)
    <3>1. demo.file \in Seq(FileRecord)
      BY <1>1, DemoType DEF IInv, TypeOK
    <3>2. QED
      BY <3>1, InType
  <2>2. QED
    BY <1>1, <2>1 DEF IInv, DemoInv, DemoSound, DemoInOrder
<1>2. IInv => DemoInOrder
  BY <1>1
<1>3. QED
  BY Invariance, <1>2, PTL
================================================================================
