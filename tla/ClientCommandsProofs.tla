------------------------- MODULE ClientCommandsProofs -------------------------
(***************************************************************************)
(* SV_ClientCommand executes what CL_AddReliableCommand was given, in      *)
(* order, and no acknowledgement or key is ever mistaken, for every ring   *)
(* size, set of texts and schedule, as long as commands have a text and    *)
(* fewer than RingSize are outstanding.                                    *)
(***************************************************************************)
EXTENDS ClientCommands, SharedLemmas

USE RingAssumption, LeaveAssumption, BoundsAssumption

-----------------------------------------------------------------------------
(* Rings and buffers *)

LEMMA SlotType ==
  ASSUME NEW n \in Nat
  PROVE  Slot(n) \in Slots
BY SlotInRing DEF Slot, Slots

LEMMA SlotsApart ==
  ASSUME NEW a \in Nat, NEW b \in Nat, a < b, b - a < RingSize
  PROVE  Slot(a) # Slot(b)
BY SlotsDiffer DEF Slot

\* memcpy of a text leaves a buffer that shows more only if the text is empty.
LEMMA WrittenType ==
  ASSUME NEW b \in Buffer, NEW text \in Text
  PROVE  /\ Written(b, text) \in Buffer
         /\ Written(b, text).text = text
         /\ text # Empty => Written(b, text) = [text |-> text, behind |-> NoText]
<1>1. CASE text # Empty
  BY <1>1 DEF Written, Buffer
<1>2. CASE text = Empty
  BY <1>2 DEF Written, Buffer
<1>3. QED
  BY <1>1, <1>2

LEMMA MaxType ==
  ASSUME NEW n \in Nat, NEW S \in SUBSET (1 .. n), S # {}
  PROVE  Max(S) \in S
<1>1. S \in SUBSET (0 .. n)
  OBVIOUS
<1>2. \E x \in S : \A y \in S : x >= y
  BY <1>1, GreatestNumber
<1>3. QED
  BY <1>2 DEF Max

\* SV_ClientCommand's string after all the texts of a message.
LEMMA OverwrittenType ==
  ASSUME NEW b \in Buffer, NEW texts \in Seq(Text), texts # <<>>
  PROVE  /\ Overwritten(b, texts) \in Buffer
         /\ texts[Len(texts)] # Empty =>
              Overwritten(b, texts) =
                [text |-> texts[Len(texts)], behind |-> NoText]
<1> DEFINE Shows  == {k \in DOMAIN texts : texts[k] # Empty}
           before == IF Shows = {} THEN b ELSE Written(b, texts[Max(Shows)])
<1>1. Len(texts) \in Nat /\ DOMAIN texts = 1 .. Len(texts) /\ Len(texts) # 0
  BY LenProperties, EmptySeq
<1>2. \A k \in DOMAIN texts : texts[k] \in Text
  BY <1>1, ElementOfSeq
<1>3. before \in Buffer
  <2>1. CASE Shows = {}
    BY <2>1
  <2>2. CASE Shows # {}
    <3>1. Max(Shows) \in DOMAIN texts
      BY <1>1, <2>2, MaxType
    <3>2. QED
      BY <1>2, <2>2, <3>1, WrittenType
  <2>3. QED
    BY <2>1, <2>2
<1>4. texts[Len(texts)] \in Text
  BY <1>1, <1>2
<1>5. Overwritten(b, texts) = Written(before, texts[Len(texts)])
  BY DEF Overwritten
<1> HIDE DEF before
<1>6. QED
  BY <1>3, <1>4, <1>5, WrittenType

-----------------------------------------------------------------------------
(* What the server executes of a message *)

\* What it means to execute what was issued, element by element.
LEMMA PrefixElements ==
  ASSUME NEW S, NEW s \in Seq(S), NEW t \in Seq(S), Len(s) <= Len(t)
  PROVE  s = SubSeq(t, 1, Len(s)) <=> \A i \in 1 .. Len(s) : s[i] = t[i]
<1>1. Len(s) \in Nat /\ Len(t) \in Nat
  BY LenProperties
<1>2. \A i \in 1 .. Len(s) : t[i] \in S
  <2>1. \A i \in 1 .. Len(s) : i \in 1 .. Len(t)
    BY <1>1
  <2>2. QED
    BY <2>1, ElementOfSeq
<1>3. /\ SubSeq(t, 1, Len(s)) \in Seq(S)
      /\ Len(SubSeq(t, 1, Len(s))) = Len(s)
      /\ \A i \in 1 .. Len(s) : SubSeq(t, 1, Len(s))[i] = t[i]
  <2> DEFINE n == Len(s)
  <2>1. n \in Int /\ 1 \in Int
    BY <1>1
  <2>2. /\ SubSeq(t, 1, n) \in Seq(S)
        /\ Len(SubSeq(t, 1, n)) = IF 1 <= n THEN n - 1 + 1 ELSE 0
        /\ \A i \in 1 .. n - 1 + 1 : SubSeq(t, 1, n)[i] = t[1 + i - 1]
    <3> HIDE DEF n
    <3>1. \A i \in 1 .. n : t[i] \in S
      BY <1>2 DEF n
    <3>2. QED
      BY <2>1, <3>1, SubSeqProperties
  <2>3. QED
    BY <1>1, <2>2
<1>4. QED
  BY <1>3, SeqEqual

\* A message with a command the server has not executed has one it will stop
\* after, and that is new.
LEMMA UpToType ==
  ASSUME lastClientCommand \in Nat, NEW m,
         m.first \in Nat \ {0}, m.last \in Nat, Fresh(m) # {}
  PROVE  UpTo(m) \in Fresh(m)
<1> DEFINE Stops == {n \in Fresh(m) : n = m.last \/ m.commands[n] = Leave}
<1>1. m.last \in Fresh(m)
  BY DEF Fresh
<1>2. Stops \in SUBSET Nat /\ Stops # {}
  BY <1>1 DEF Fresh
<1>3. \E n \in Stops : \A k \in Stops : n <= k
  <2> HIDE DEF Stops
  <2>1. QED
    BY <1>2, LeastNumber
<1>4. Min(Stops) \in Stops
  BY <1>3 DEF Min
<1>5. QED
  BY <1>4 DEF UpTo

\* Unless its first new command is a later one, a message continues the
\* stream up to there.
LEMMA TextsType ==
  ASSUME lastClientCommand \in Nat, NEW m,
         m.first \in Nat \ {0}, m.last \in Nat,
         \A n \in m.first .. m.last : m.commands[n] \in Text,
         Fresh(m) # {}, ~Lost(m)
  PROVE  LET u == UpTo(m)
         IN  /\ u \in Nat
             /\ lastClientCommand < u
             /\ u <= m.last
             /\ m.first <= lastClientCommand + 1
             /\ Texts(m) \in Seq(Text)
             /\ Len(Texts(m)) = u - lastClientCommand
             /\ \A k \in 1 .. u - lastClientCommand :
                   Texts(m)[k] = m.commands[lastClientCommand + k]
<1> DEFINE u == UpTo(m)
           n == u - lastClientCommand
<1>1. u \in m.first .. m.last /\ u > lastClientCommand
  BY UpToType DEF Fresh
<1>2. u \in Nat /\ n \in Nat
  BY <1>1
<1>3. m.first <= lastClientCommand + 1
  BY DEF Lost, Fresh
<1>4. Texts(m) = [k \in 1 .. n |-> m.commands[lastClientCommand + k]]
  BY DEF Texts
<1>5. \A k \in 1 .. n : lastClientCommand + k \in m.first .. m.last
  BY <1>1, <1>2, <1>3
<1> HIDE DEF u, n
<1>6. Texts(m) \in [1 .. n -> Text]
  BY <1>4, <1>5
<1>7. Texts(m) \in Seq(Text)
  BY <1>2, <1>6, SeqDef
<1>8. Len(Texts(m)) = n
  <2>1. 1 .. Len(Texts(m)) = 1 .. n /\ Len(Texts(m)) \in Nat
    BY <1>6, <1>7, LenProperties
  <2>2. QED
    BY <1>2, <2>1
<1>9. QED
  BY <1>1, <1>2, <1>3, <1>4, <1>7, <1>8 DEF u, n

-----------------------------------------------------------------------------
(* The invariant *)

\* A connection that starts.
LEMMA InitInv == Init => IInv
<1> SUFFICES ASSUME Init PROVE IInv
  OBVIOUS
<1> USE DEF Init
<1>1. Zeroed \in Buffer
  BY DEF Zeroed, Buffer
<1>2. <<>> \in Seq(Text) /\ Len(<<>>) = 0
  BY EmptySeq
<1>3. TypeOK
  BY <1>1, <1>2 DEF TypeOK
<1>4. CountsInv /\ ServerInv
  BY <1>2 DEF CountsInv, ServerInv, BufferOf
<1>5. RingInv
  <2>1. Slot(0) \in Slots
    BY SlotType
  <2>2. QED
    BY <2>1 DEF RingInv, Outstanding, BufferOf
<1>6. ToServerInv /\ ToClientInv
  <2>1. IsSequence(<<>>)
    BY EmptySeq, AnySequence
  <2>2. QED
    BY <1>2, <2>1 DEF ToServerInv, ToClientInv
<1>7. ExecutesIssued /\ Legible /\ AcknowledgedIsExecuted
  <2>1. SubSeq(<<>>, 1, 0) = <<>>
    BY SubSeqEmpty
  <2>2. QED
    BY <1>2, <2>1 DEF ExecutesIssued, Legible, AcknowledgedIsExecuted
<1>8. QED
  BY <1>3, <1>4, <1>5, <1>6, <1>7 DEF IInv

\* CL_AddReliableCommand that raises its overflow error.
LEMMA OverflowInv ==
  ASSUME IInv, NEW text \in Text, AddReliableCommand(text), Overflow
  PROVE  IInv'
<1>1. UNCHANGED <<reliableSequence, reliableAcknowledge, reliableCommands,
                  issued, intact, serverVars, toServer, toClient>>
  BY DEF AddReliableCommand
<1>2. ~intact
  <2>1. Outstanding \in Int
    BY DEF IInv, TypeOK, Outstanding
  <2>2. QED
    BY <2>1 DEF IInv, RingInv, Overflow
<1>3. TypeOK' /\ CountsInv' /\ ServerInv'
  BY <1>1 DEF IInv, TypeOK, CountsInv, ServerInv, BufferOf, serverVars, Buffer
<1>4. RingInv'
  BY <1>1, <1>2 DEF IInv, RingInv
<1>5. ToServerInv' /\ ToClientInv'
  BY <1>1, <1>2 DEF IInv, ToServerInv, ToClientInv, PacketInv, AnswerInv, serverVars
<1>6. ExecutesIssued' /\ Legible' /\ AcknowledgedIsExecuted'
  BY <1>1, <1>2 DEF ExecutesIssued, Legible, AcknowledgedIsExecuted
<1>7. QED
  BY <1>3, <1>4, <1>5, <1>6 DEF IInv

\* CL_AddReliableCommand that writes a command: only the slot of the number a
\* whole ring below is lost, and that one was acknowledged.
LEMMA IssueInv ==
  ASSUME IInv, NEW text \in Text, AddReliableCommand(text), ~Overflow
  PROVE  IInv'
<1> DEFINE n == reliableSequence + 1
<1>1. /\ reliableSequence' = n
      /\ reliableCommands' =
           [reliableCommands EXCEPT ![Slot(n)] = Written(@, text)]
      /\ issued' = Append(issued, text)
      /\ intact' = (intact /\ text # Empty /\ Outstanding + 1 < RingSize)
      /\ UNCHANGED <<failure, reliableAcknowledge, serverVars, toServer,
                     toClient>>
  BY DEF AddReliableCommand
<1>2. /\ reliableSequence \in Nat /\ reliableAcknowledge \in Nat
      /\ lastClientCommand \in Nat
      /\ reliableCommands \in [Slots -> Buffer]
      /\ issued \in Seq(Text) /\ executed \in Seq(Text)
      /\ intact \in BOOLEAN
      /\ Len(issued) = reliableSequence
      /\ lastClientCommand <= reliableSequence
  BY DEF IInv, TypeOK, CountsInv
<1>3. /\ issued' \in Seq(Text)
      /\ Len(issued') = n
      /\ \A k \in 1 .. reliableSequence : issued'[k] = issued[k]
      /\ issued'[n] = text
  BY <1>1, <1>2, AppendProperties
<1>4. n \in Nat /\ Slot(n) \in Slots
  BY <1>2, SlotType
<1>5. /\ reliableCommands' \in [Slots -> Buffer]
      /\ reliableCommands'[Slot(n)].text = text
      /\ text # Empty => reliableCommands'[Slot(n)] = [text |-> text, behind |-> NoText]
      /\ \A s \in Slots : s # Slot(n) => reliableCommands'[s] = reliableCommands[s]
  BY <1>1, <1>2, <1>4, WrittenType
<1> HIDE DEF n
<1>6. intact' => intact /\ text # Empty /\ Outstanding + 1 < RingSize
  BY <1>1, Zenon
<1>7. \A k \in 0 .. reliableSequence : BufferOf(k)' = BufferOf(k)
  BY <1>2, <1>3 DEF BufferOf
<1>8. TypeOK'
  <2>1. intact' \in BOOLEAN
    BY <1>1, <1>2
  <2>2. /\ {reliableSequence, reliableAcknowledge, lastClientCommand}' \subseteq Nat
        /\ lastClientCommandString' \in Buffer
        /\ state' \in {"ACTIVE", "ZOMBIE"}
        /\ executed' \in Seq(Text)
    BY <1>1, <1>2, <1>4 DEF IInv, TypeOK, serverVars
  <2>3. QED
    BY <1>3, <1>5, <2>1, <2>2 DEF TypeOK, Buffer
<1>9. CountsInv'
  BY <1>1, <1>2, <1>3 DEF IInv, CountsInv, serverVars, n
<1>10. RingInv'
  <2>1. ASSUME NEW k \in 1 .. n
        PROVE  reliableCommands'[Slot(k)].text \in Text
    <3>1. CASE Slot(k) = Slot(n)
      BY <1>5, <3>1
    <3>2. CASE Slot(k) # Slot(n)
      <4>1. k \in 1 .. reliableSequence /\ Slot(k) \in Slots
        BY <1>2, <1>4, <3>2, SlotType DEF n
      <4>2. QED
        BY <1>5, <3>2, <4>1 DEF IInv, RingInv
    <3>3. QED
      BY <3>1, <3>2
  <2>2. ASSUME intact'
        PROVE  Outstanding' < RingSize
    BY <1>1, <1>2, <1>6, <2>2 DEF Outstanding, n
  <2>3. ASSUME intact', NEW k \in 1 .. n
        PROVE  issued'[k] # Empty
    <3>1. k = n \/ k \in 1 .. reliableSequence
      BY <1>2 DEF n
    <3>2. QED
      BY <1>1, <1>3, <2>3, <3>1 DEF IInv, RingInv
  <2>4. ASSUME intact', NEW k \in 0 .. n, k > n - RingSize
        PROVE  reliableCommands'[Slot(k)] = BufferOf(k)'
    <3>1. CASE k = n
      <4>1. BufferOf(k)' = [text |-> text, behind |-> NoText]
        BY <1>2, <1>3, <3>1 DEF BufferOf, n
      <4>2. QED
        BY <1>5, <1>6, <2>4, <3>1, <4>1
    <3>2. CASE k # n
      <4>1. /\ k \in 0 .. reliableSequence /\ k \in Nat /\ k < n
            /\ n - k < RingSize /\ k > reliableSequence - RingSize
        BY <1>2, <2>4, <3>2 DEF n
      <4>2. Slot(k) # Slot(n) /\ Slot(k) \in Slots
        BY <1>4, <4>1, SlotsApart, SlotType
      <4>3. reliableCommands[Slot(k)] = BufferOf(k)
        BY <1>6, <2>4, <4>1 DEF IInv, RingInv
      <4>4. QED
        BY <1>5, <1>7, <4>1, <4>2, <4>3
    <3>3. QED
      BY <3>1, <3>2
  <2>5. QED
    BY <1>1, <2>1, <2>2, <2>3, <2>4 DEF RingInv
<1>11. ToServerInv'
  <2>1. ASSUME NEW m, PacketInv(m)
        PROVE  PacketInv(m)'
    <3>1. m.last <= reliableSequence'
      BY <1>1, <1>2, <2>1 DEF PacketInv, n
    <3>2. \A k \in m.first .. m.last : k \in 1 .. reliableSequence
      BY <1>2, <2>1 DEF PacketInv
    <3>3. QED
      BY <1>1, <1>3, <1>6, <2>1, <3>1, <3>2 DEF PacketInv, serverVars
  <2>2. QED
    BY <1>1, <2>1 DEF IInv, ToServerInv
<1>12. ToClientInv'
  <2>1. ASSUME NEW m, AnswerInv(m)
        PROVE  AnswerInv(m)'
    <3>1. m.acknowledge \in 0 .. reliableSequence
      BY <1>2, <2>1 DEF AnswerInv
    <3>2. QED
      BY <1>1, <1>6, <1>7, <2>1, <3>1 DEF AnswerInv, serverVars
  <2>2. QED
    BY <1>1, <2>1 DEF IInv, ToClientInv
<1>13. ServerInv'
  <2>1. lastClientCommand \in 0 .. reliableSequence
    BY <1>2
  <2>2. BufferOf(lastClientCommand)' = BufferOf(lastClientCommand)
    BY <1>1, <1>7, <2>1 DEF serverVars, BufferOf
  <2>3. QED
    BY <1>1, <1>6, <2>2 DEF IInv, ServerInv, serverVars
<1>14. ExecutesIssued'
  <2> SUFFICES ASSUME intact'
               PROVE  /\ Len(executed) <= Len(issued')
                      /\ executed = SubSeq(issued', 1, Len(executed))
    BY <1>1 DEF ExecutesIssued, serverVars
  <2>1. /\ Len(executed) <= Len(issued)
        /\ executed = SubSeq(issued, 1, Len(executed))
    BY <1>6 DEF IInv, ExecutesIssued
  <2>2. Len(executed) \in Nat /\ Len(executed) <= Len(issued')
    BY <1>2, <1>3, <2>1, LenProperties DEF n
  <2>3. \A i \in 1 .. Len(executed) : executed[i] = issued[i]
    BY <1>2, <2>1, PrefixElements
  <2>4. \A i \in 1 .. Len(executed) : i \in 1 .. reliableSequence
    BY <1>2, <2>1, <2>2
  <2>5. \A i \in 1 .. Len(executed) : executed[i] = issued'[i]
    BY <1>3, <2>3, <2>4
  <2>6. QED
    BY <1>2, <1>3, <2>2, <2>5, PrefixElements
<1>15. Legible' /\ AcknowledgedIsExecuted'
  BY <1>1, <1>6 DEF IInv, Legible, AcknowledgedIsExecuted, serverVars
<1>16. QED
  BY <1>8, <1>9, <1>10, <1>11, <1>12, <1>13, <1>14, <1>15 DEF IInv

\* The texts that SV_ClientCommand copies are what the message says.
LEMMA DeliveredInv ==
  ASSUME IInv, NEW i \in 1 .. Len(toServer), toServer' = After(toServer, i),
         lastClientCommand' \in Nat, lastClientCommand <= lastClientCommand',
         UNCHANGED <<reliableSequence, reliableAcknowledge, reliableCommands,
                     issued, intact, toClient>>
  PROVE  /\ ToServerInv' /\ ToClientInv' /\ RingInv'
         /\ \A n : BufferOf(n)' = BufferOf(n)
<1>1. lastClientCommand \in Nat
  BY DEF IInv, TypeOK
<1>2. /\ IsSequence(toServer')
      /\ Len(toServer) - i \in Nat
      /\ Len(toServer') = Len(toServer) - i
      /\ \A k \in 1 .. Len(toServer) - i : toServer'[k] = toServer[i + k]
  BY AfterProperties DEF IInv, ToServerInv
<1>3. ASSUME NEW m, PacketInv(m)
      PROVE  PacketInv(m)'
  BY <1>1, <1>3 DEF PacketInv
<1>4. ToServerInv'
  <2>1. ASSUME NEW k \in 1 .. Len(toServer')
        PROVE  PacketInv(toServer[k])'
    <3>1. i + k \in 1 .. Len(toServer) /\ toServer'[k] = toServer[i + k]
      BY <1>2
    <3>2. PICK m : m = toServer[i + k]
      OBVIOUS
    <3>3. PacketInv(m)
      BY <3>1, <3>2 DEF IInv, ToServerInv
    <3>4. PacketInv(m)' /\ toServer'[k] = m
      BY <1>3, <3>1, <3>2, <3>3
    <3>5. QED
      BY <3>4 DEF PacketInv
  <2>2. IsSequence(toServer)'
    BY <1>2 DEF IsSequence
  <2>3. QED
    BY <2>1, <2>2 DEF ToServerInv
<1>5. \A n : BufferOf(n)' = BufferOf(n)
  BY DEF BufferOf
<1>6. RingInv'
  BY <1>5 DEF IInv, RingInv, Outstanding
<1>7. ToClientInv'
  <2>1. ASSUME NEW m, AnswerInv(m)
        PROVE  AnswerInv(m)'
    BY <1>1, <1>5, <2>1 DEF AnswerInv
  <2>2. QED
    BY <2>1 DEF IInv, ToClientInv, IsSequence
<1>8. QED
  BY <1>4, <1>5, <1>6, <1>7

\* SV_ClientCommand: the server executes what was issued, and nothing is lost.
LEMMA ReceiveFromClientInv ==
  ASSUME IInv, NEW i \in 1 .. Len(toServer), ReceiveFromClient(i)
  PROVE  IInv'
<1>1. PICK m : m = toServer[i]
  OBVIOUS
<1>2. PacketInv(m)
  BY <1>1 DEF IInv, ToServerInv
<1>3. /\ toServer' = After(toServer, i)
      /\ UNCHANGED <<clientVars, toClient>>
  BY DEF ReceiveFromClient
<1>4. /\ lastClientCommand \in Nat /\ reliableSequence \in Nat
      /\ issued \in Seq(Text) /\ executed \in Seq(Text)
      /\ lastClientCommandString \in Buffer
      /\ Len(issued) = reliableSequence
      /\ Len(executed) = lastClientCommand
      /\ lastClientCommand <= reliableSequence
      /\ reliableAcknowledge \in Nat
  BY DEF IInv, TypeOK, CountsInv
<1>5. CASE state = "ZOMBIE" \/ Fresh(m) = {}
  <2>1. UNCHANGED serverVars
    BY <1>1, <1>5 DEF ReceiveFromClient
  <2>2. ToServerInv' /\ ToClientInv' /\ RingInv'
    BY <1>3, <1>4, <2>1, DeliveredInv DEF clientVars, serverVars
  <2>3. TypeOK' /\ CountsInv' /\ ServerInv'
    BY <1>3, <2>1 DEF IInv, TypeOK, CountsInv, ServerInv, BufferOf, Buffer,
                      clientVars, serverVars
  <2>4. ExecutesIssued' /\ Legible' /\ AcknowledgedIsExecuted'
    BY <1>3, <2>1 DEF IInv, ExecutesIssued, Legible, AcknowledgedIsExecuted,
                      clientVars, serverVars
  <2>5. QED
    BY <2>2, <2>3, <2>4 DEF IInv
<1>6. CASE ~(state = "ZOMBIE" \/ Fresh(m) = {}) /\ Lost(m)
  <2>1. /\ state' = "ZOMBIE"
        /\ UNCHANGED <<lastClientCommand, lastClientCommandString, executed>>
    BY <1>1, <1>6 DEF ReceiveFromClient
  <2>2. ~intact
    <3> SUFFICES ASSUME intact PROVE FALSE
      OBVIOUS
    <3>1. PICK k \in m.first .. m.last : k > lastClientCommand
      BY <1>6 DEF Fresh
    <3>2. lastClientCommand + 1 \in m.first .. m.last
      BY <1>2, <1>4, <3>1 DEF PacketInv
    <3>3. QED
      BY <1>4, <1>6, <3>2 DEF Lost, Fresh
  <2>3. ToServerInv' /\ ToClientInv' /\ RingInv'
    BY <1>3, <1>4, <2>1, DeliveredInv DEF clientVars
  <2>4. TypeOK' /\ CountsInv' /\ ServerInv'
    BY <1>3, <2>1 DEF IInv, TypeOK, CountsInv, ServerInv, BufferOf, Buffer,
                      clientVars
  <2>5. ExecutesIssued' /\ Legible' /\ AcknowledgedIsExecuted'
    BY <1>3, <2>2 DEF ExecutesIssued, Legible, AcknowledgedIsExecuted, clientVars
  <2>6. QED
    BY <2>3, <2>4, <2>5 DEF IInv
<1>7. CASE ~(state = "ZOMBIE" \/ Fresh(m) = {}) /\ ~Lost(m)
  <2> DEFINE u == UpTo(m)
  <2>1. /\ lastClientCommand' = u
        /\ lastClientCommandString' =
             Overwritten(lastClientCommandString, Texts(m))
        /\ executed' = executed \o Texts(m)
        /\ \/ state' = "ZOMBIE" /\ dropReason' = "EXE_DISCONNECTED"
           \/ UNCHANGED <<state, dropReason>>
    BY <1>1, <1>7 DEF ReceiveFromClient
  <2>2. /\ u \in Nat /\ lastClientCommand < u /\ u <= m.last
        /\ m.first <= lastClientCommand + 1
        /\ Texts(m) \in Seq(Text)
        /\ Len(Texts(m)) = u - lastClientCommand
        /\ \A k \in 1 .. u - lastClientCommand :
              Texts(m)[k] = m.commands[lastClientCommand + k]
    BY <1>2, <1>4, <1>7, TextsType DEF PacketInv
  <2> HIDE DEF u
  <2>3. /\ m.first \in Nat \ {0} /\ m.last \in Nat /\ m.last <= reliableSequence
    BY <1>2 DEF PacketInv
  <2>4. Texts(m) # <<>> /\ u - lastClientCommand \in Nat \ {0}
    BY <1>4, <2>2, EmptySeq
  <2>5. \A n : BufferOf(n)' = BufferOf(n)
    BY <1>3 DEF BufferOf, clientVars
  <2>6. ToServerInv' /\ ToClientInv' /\ RingInv'
    BY <1>3, <1>4, <2>1, <2>2, DeliveredInv DEF clientVars
  <2>7. /\ lastClientCommandString' \in Buffer
        /\ Texts(m)[u - lastClientCommand] # Empty =>
             lastClientCommandString' =
               [text |-> Texts(m)[u - lastClientCommand], behind |-> NoText]
    BY <1>4, <2>1, <2>2, <2>4, OverwrittenType
  <2>8. /\ executed' \in Seq(Text)
        /\ Len(executed') = u
        /\ \A k \in 1 .. u :
             executed'[k] = IF k <= lastClientCommand
                              THEN executed[k]
                              ELSE Texts(m)[k - lastClientCommand]
    <3>1. lastClientCommand + (u - lastClientCommand) = u
      BY <1>4, <2>2
    <3> DEFINE texts == Texts(m)
    <3>2. texts \in Seq(Text) /\ Len(executed) + Len(texts) = u
      BY <1>4, <2>2, <3>1
    <3> HIDE DEF texts
    <3>3. /\ executed \o texts \in Seq(Text)
          /\ Len(executed \o texts) = Len(executed) + Len(texts)
          /\ \A k \in 1 .. Len(executed) + Len(texts) :
               (executed \o texts)[k] = IF k <= Len(executed)
                                          THEN executed[k]
                                          ELSE texts[k - Len(executed)]
      BY <1>4, <3>2, ConcatProperties
    <3>4. executed' = executed \o texts
      BY <2>1 DEF texts
    <3>5. QED
      BY <1>4, <3>2, <3>3, <3>4 DEF texts
  <2>9. TypeOK'
    <3>1. {reliableSequence, reliableAcknowledge, lastClientCommand}' \subseteq Nat
      BY <1>3, <1>4, <2>1, <2>2 DEF clientVars
    <3>2. reliableCommands' \in [Slots -> Buffer] /\ issued' \in Seq(Text)
      BY <1>3 DEF IInv, TypeOK, clientVars
    <3>3. intact' \in BOOLEAN
      BY <1>3 DEF IInv, TypeOK, clientVars
    <3>4. state' \in {"ACTIVE", "ZOMBIE"}
      BY <2>1 DEF IInv, TypeOK
    <3>5. QED
      BY <2>7, <2>8, <3>1, <3>2, <3>3, <3>4 DEF TypeOK, Buffer
  <2>10. CountsInv'
    BY <1>3, <1>4, <2>1, <2>2, <2>3, <2>8 DEF CountsInv, clientVars
  <2>11. ASSUME intact, NEW k \in lastClientCommand + 1 .. u
         PROVE  Texts(m)[k - lastClientCommand] = issued[k]
    <3>1. k - lastClientCommand \in 1 .. u - lastClientCommand
      BY <1>4, <2>2
    <3>2. lastClientCommand + (k - lastClientCommand) = k
      BY <1>4, <2>2
    <3>3. k \in m.first .. m.last
      BY <1>4, <2>2, <2>3
    <3>4. QED
      BY <1>2, <2>2, <2>11, <3>1, <3>2, <3>3 DEF PacketInv
  <2>12. ServerInv'
    <3> SUFFICES ASSUME intact
                 PROVE  lastClientCommandString' = BufferOf(u)
      BY <1>3, <2>1, <2>5 DEF ServerInv, clientVars, BufferOf
    <3>1. u \in lastClientCommand + 1 .. u /\ u \in 1 .. reliableSequence /\ u # 0
      BY <1>4, <2>2, <2>3
    <3>2. issued[u] # Empty
      BY <3>1 DEF IInv, RingInv
    <3>3. QED
      BY <2>7, <2>11, <3>1, <3>2 DEF BufferOf
  <2>13. ExecutesIssued'
    <3> SUFFICES ASSUME intact
                 PROVE  /\ Len(executed') <= Len(issued)
                        /\ executed' = SubSeq(issued, 1, Len(executed'))
      BY <1>3 DEF ExecutesIssued, clientVars
    <3>1. Len(executed') <= Len(issued)
      BY <1>4, <2>2, <2>3, <2>8
    <3>2. \A k \in 1 .. Len(executed) : executed[k] = issued[k]
      BY <1>4, PrefixElements DEF IInv, ExecutesIssued
    <3>3. ASSUME NEW k \in 1 .. u
          PROVE  executed'[k] = issued[k]
      <4>1. CASE k <= lastClientCommand
        BY <1>4, <2>8, <3>2, <4>1
      <4>2. CASE ~(k <= lastClientCommand)
        <5>1. k \in lastClientCommand + 1 .. u
          BY <1>4, <2>2, <4>2
        <5>2. QED
          BY <2>8, <2>11, <4>2, <5>1
      <4>3. QED
        BY <4>1, <4>2
    <3>4. QED
      BY <1>4, <2>8, <3>1, <3>3, PrefixElements
  <2>14. Legible' /\ AcknowledgedIsExecuted'
    BY <1>3, <1>4, <2>1, <2>2 DEF IInv, Legible, AcknowledgedIsExecuted, clientVars
  <2>15. QED
    BY <2>6, <2>9, <2>10, <2>12, <2>13, <2>14 DEF IInv
<1>8. QED
  BY <1>5, <1>6, <1>7

\* CL_WritePacket
LEMMA SendPacketInv ==
  ASSUME IInv, SendPacket
  PROVE  IInv'
<1> DEFINE packet == [first |-> reliableAcknowledge + 1,
                      last |-> reliableSequence, commands |-> Repeated]
<1>1. /\ toServer' = Send(toServer, packet)
      /\ UNCHANGED <<clientVars, serverVars, toClient>>
  BY DEF SendPacket
<1>2. /\ reliableSequence \in Nat /\ reliableAcknowledge \in Nat
      /\ lastClientCommand \in Nat
  BY DEF IInv, TypeOK
<1>3. PICK m : m = packet
  OBVIOUS
<1>4. PacketInv(m)
  <2>1. m.first = reliableAcknowledge + 1 /\ m.last = reliableSequence
    BY <1>3
  <2>2. ASSUME NEW n \in m.first .. m.last
        PROVE  /\ n \in 1 .. reliableSequence
               /\ n >= reliableAcknowledge + 1
               /\ m.commands[n] = reliableCommands[Slot(n)].text
    BY <1>2, <1>3, <2>1 DEF Repeated
  <2>3. \A n \in m.first .. m.last : m.commands[n] \in Text
    BY <2>2 DEF IInv, RingInv
  <2>4. ASSUME intact, NEW n \in m.first .. m.last
        PROVE  m.commands[n] = issued[n]
    <3>1. n \in 0 .. reliableSequence /\ n # 0 /\ n > reliableSequence - RingSize
      BY <1>2, <2>2, <2>4 DEF IInv, RingInv, Outstanding
    <3>2. reliableCommands[Slot(n)] = BufferOf(n)
      BY <2>4, <3>1 DEF IInv, RingInv
    <3>3. QED
      BY <2>2, <3>1, <3>2 DEF BufferOf
  <2>5. intact => m.first <= lastClientCommand + 1
    BY <1>2, <2>1 DEF IInv, AcknowledgedIsExecuted
  <2>6. QED
    BY <1>2, <2>1, <2>3, <2>4, <2>5 DEF PacketInv
<1> HIDE DEF packet
<1>5. ToServerInv'
  <2>1. IsSequence(toServer')
    BY <1>1, SentProperties, InFlightAssumption DEF IInv, ToServerInv, Send
  <2>2. PICK d \in {0, 1} :
          /\ Len(toServer) - d \in Nat
          /\ Len(toServer') = Len(toServer) - d + 1
          /\ \A i \in 1 .. Len(toServer) - d : toServer'[i] = toServer[i + d]
          /\ toServer'[Len(toServer) - d + 1] = packet
    BY <1>1, SentProperties, InFlightAssumption DEF IInv, ToServerInv, Send
  <2>3. ASSUME NEW i \in 1 .. Len(toServer')
        PROVE  PacketInv(toServer[i])'
    <3>1. PICK q : q = toServer'[i]
      OBVIOUS
    <3>2. PacketInv(q)
      <4>1. CASE i \in 1 .. Len(toServer) - d
        <5>1. Len(toServer) \in Nat
          BY LenProperties DEF IInv, ToServerInv, IsSequence
        <5>2. i + d \in 1 .. Len(toServer)
          BY <4>1, <5>1
        <5>3. QED
          BY <2>2, <3>1, <4>1, <5>2 DEF IInv, ToServerInv
      <4>2. CASE i = Len(toServer) - d + 1
        BY <1>3, <1>4, <2>2, <3>1, <4>2
      <4>3. QED
        BY <2>2, <4>1, <4>2
    <3>3. QED
      BY <1>1, <3>1, <3>2 DEF PacketInv, clientVars, serverVars
  <2>4. QED
    BY <2>1, <2>3 DEF ToServerInv, IsSequence
<1>6. TypeOK' /\ CountsInv' /\ ServerInv' /\ RingInv' /\ ToClientInv'
  BY <1>1 DEF IInv, TypeOK, CountsInv, ServerInv, RingInv, ToClientInv,
              AnswerInv, BufferOf, Outstanding, Buffer, IsSequence,
              clientVars, serverVars
<1>7. ExecutesIssued' /\ Legible' /\ AcknowledgedIsExecuted'
  BY <1>1 DEF IInv, ExecutesIssued, Legible, AcknowledgedIsExecuted,
              clientVars, serverVars
<1>8. QED
  BY <1>5, <1>6, <1>7 DEF IInv

\* SV_SendMessageToClient
LEMMA SendMessageInv ==
  ASSUME IInv, SendMessage
  PROVE  IInv'
<1> DEFINE answer == [acknowledge |-> lastClientCommand,
                      key |-> lastClientCommandString]
<1>1. /\ toClient' = Send(toClient, answer)
      /\ UNCHANGED <<clientVars, serverVars, toServer>>
  BY DEF SendMessage
<1>2. PICK m : m = answer
  OBVIOUS
<1>3. m.acknowledge = lastClientCommand /\ lastClientCommand \in Nat
  BY <1>2 DEF IInv, TypeOK
<1>4. AnswerInv(m)
  BY <1>2, <1>3 DEF AnswerInv, IInv, ServerInv, AcknowledgedIsExecuted
<1> HIDE DEF answer
<1>5. ToClientInv'
  <2>1. IsSequence(toClient')
    BY <1>1, SentProperties, InFlightAssumption DEF IInv, ToClientInv, Send
  <2>2. PICK d \in {0, 1} :
          /\ Len(toClient) - d \in Nat
          /\ Len(toClient') = Len(toClient) - d + 1
          /\ \A i \in 1 .. Len(toClient) - d : toClient'[i] = toClient[i + d]
          /\ toClient'[Len(toClient) - d + 1] = answer
    BY <1>1, SentProperties, InFlightAssumption DEF IInv, ToClientInv, Send
  <2>3. ASSUME NEW i \in 1 .. Len(toClient) - d
        PROVE  /\ i + d \in 1 .. Len(toClient)
               /\ toClient'[i] = toClient[i + d]
    <3>1. Len(toClient) \in Nat
      BY LenProperties DEF IInv, ToClientInv, IsSequence
    <3>2. QED
      BY <2>2, <3>1
  <2>4. ASSUME NEW i \in 1 .. Len(toClient')
        PROVE  AnswerInv(toClient[i])'
    <3>1. PICK q : q = toClient'[i]
      OBVIOUS
    <3>2. AnswerInv(q)
      <4>1. CASE i \in 1 .. Len(toClient) - d
        BY <2>3, <3>1, <4>1 DEF IInv, ToClientInv
      <4>2. CASE i = Len(toClient) - d + 1
        BY <1>2, <1>4, <2>2, <3>1, <4>2
      <4>3. QED
        BY <2>2, <4>1, <4>2
    <3>3. QED
      BY <1>1, <3>1, <3>2 DEF AnswerInv, BufferOf, clientVars, serverVars
  <2>5. ASSUME NEW i \in 1 .. Len(toClient'), NEW j \in 1 .. Len(toClient'), i < j
        PROVE  toClient'[i].acknowledge <= toClient'[j].acknowledge
    <3>1. i \in 1 .. Len(toClient) - d
      BY <2>2, <2>5
    <3>2. CASE j \in 1 .. Len(toClient) - d
      <4>1. i + d < j + d
        BY <2>2, <2>5, <3>2
      <4>2. QED
        BY <2>3, <3>1, <3>2, <4>1 DEF IInv, ToClientInv
    <3>3. CASE j = Len(toClient) - d + 1
      <4>1. toClient'[j].acknowledge = lastClientCommand
        BY <1>2, <1>3, <2>2, <3>3
      <4>2. AnswerInv(toClient[i + d])
        BY <2>3, <3>1 DEF IInv, ToClientInv
      <4>3. QED
        BY <2>3, <3>1, <4>1, <4>2 DEF AnswerInv
    <3>4. QED
      BY <2>2, <3>2, <3>3
  <2>6. QED
    BY <2>1, <2>4, <2>5 DEF ToClientInv, IsSequence
<1>6. TypeOK' /\ CountsInv' /\ ServerInv' /\ RingInv' /\ ToServerInv'
  <2>1. TypeOK' /\ CountsInv' /\ ServerInv'
    <3>1. TypeOK'
      BY <1>1 DEF IInv, TypeOK, clientVars, serverVars
    <3>2. CountsInv'
      BY <1>1 DEF IInv, CountsInv, clientVars, serverVars
    <3>3. ServerInv'
      BY <1>1 DEF IInv, ServerInv, BufferOf, clientVars, serverVars
    <3>4. QED
      BY <3>1, <3>2, <3>3
  <2>2. RingInv'
    BY <1>1 DEF IInv, RingInv, BufferOf, Outstanding, Buffer, clientVars, serverVars
  <2>3. ToServerInv'
    <3>1. \A p : PacketInv(p) => PacketInv(p)'
      BY <1>1 DEF PacketInv, BufferOf, clientVars, serverVars
    <3>2. QED
      BY <1>1, <3>1 DEF IInv, ToServerInv, IsSequence
  <2>4. QED
    BY <2>1, <2>2, <2>3
<1>7. ExecutesIssued' /\ Legible' /\ AcknowledgedIsExecuted'
  BY <1>1 DEF IInv, ExecutesIssued, Legible, AcknowledgedIsExecuted,
              clientVars, serverVars
<1>8. QED
  BY <1>5, <1>6, <1>7 DEF IInv

\* CL_PacketEvent: an acknowledgement is never too old while the ring holds
\* what is outstanding, so the key it selects is the right one.
LEMMA ReceiveFromServerInv ==
  ASSUME IInv, NEW i \in 1 .. Len(toClient), ReceiveFromServer(i)
  PROVE  IInv'
<1>1. PICK m : m = toClient[i]
  OBVIOUS
<1>2. AnswerInv(m)
  BY <1>1 DEF IInv, ToClientInv
<1>3. /\ failure = "none"
      /\ toClient' = After(toClient, i)
      /\ IF TooOld(m.acknowledge)
           THEN reliableAcknowledge' = reliableSequence /\ UNCHANGED failure
           ELSE /\ reliableAcknowledge' = m.acknowledge
                /\ failure' = IF m.key = Key(m.acknowledge)
                                THEN "none" ELSE "illegible server message"
      /\ UNCHANGED <<reliableSequence, reliableCommands, issued, intact,
                     serverVars, toServer>>
  BY <1>1 DEF ReceiveFromServer
<1>4. /\ reliableSequence \in Nat /\ reliableAcknowledge \in Nat
      /\ lastClientCommand \in Nat /\ lastClientCommand <= reliableSequence
      /\ m.acknowledge \in Nat /\ m.acknowledge <= lastClientCommand
  BY <1>2 DEF IInv, TypeOK, CountsInv, AnswerInv
<1>5. reliableAcknowledge' \in Nat
  BY <1>3, <1>4
<1>6. ASSUME intact
      PROVE  /\ reliableAcknowledge' = m.acknowledge
             /\ reliableAcknowledge <= m.acknowledge
             /\ failure' = "none"
  <2>1. reliableAcknowledge <= m.acknowledge /\ m.key = BufferOf(m.acknowledge)
    BY <1>2, <1>6 DEF AnswerInv
  <2>2. m.acknowledge > reliableSequence - RingSize
    BY <1>4, <1>6, <2>1 DEF IInv, RingInv, Outstanding
  <2>3. ~TooOld(m.acknowledge)
    BY <1>4, <2>2 DEF TooOld
  <2>4. m.acknowledge \in 0 .. reliableSequence
    BY <1>4
  <2>5. Key(m.acknowledge) = BufferOf(m.acknowledge)
    BY <1>6, <2>2, <2>4 DEF IInv, RingInv, Key
  <2>6. QED
    BY <1>3, <2>1, <2>3, <2>5
<1>7. TypeOK' /\ CountsInv' /\ ServerInv' /\ ToServerInv'
  <2>1. {reliableSequence, reliableAcknowledge, lastClientCommand}' \subseteq Nat
    BY <1>3, <1>4, <1>5 DEF serverVars
  <2>2. TypeOK'
    BY <1>3, <2>1 DEF IInv, TypeOK, Buffer, serverVars
  <2>3. CountsInv' /\ ServerInv'
    BY <1>3 DEF IInv, CountsInv, ServerInv, BufferOf, serverVars
  <2>4. ToServerInv'
    <3>1. UNCHANGED <<toServer, reliableSequence, lastClientCommand, issued,
                      intact>>
      BY <1>3 DEF serverVars
    <3>2. QED
      BY <3>1 DEF IInv, ToServerInv, PacketInv, IsSequence
  <2>5. QED
    BY <2>2, <2>3, <2>4
<1>8. RingInv'
  <2>1. intact => Outstanding' < RingSize
    BY <1>3, <1>4, <1>6 DEF IInv, RingInv, Outstanding
  <2>2. QED
    BY <1>3, <2>1 DEF IInv, RingInv, BufferOf
<1>9. ToClientInv'
  <2>1. /\ IsSequence(toClient')
        /\ Len(toClient) - i \in Nat
        /\ Len(toClient') = Len(toClient) - i
        /\ \A k \in 1 .. Len(toClient) - i : toClient'[k] = toClient[i + k]
    BY <1>3, AfterProperties DEF IInv, ToClientInv
  <2>2. ASSUME NEW k \in 1 .. Len(toClient')
        PROVE  /\ i + k \in 1 .. Len(toClient)
               /\ i < i + k
               /\ toClient'[k] = toClient[i + k]
    BY <2>1
  <2>3. ASSUME NEW k \in 1 .. Len(toClient')
        PROVE  AnswerInv(toClient[k])'
    <3>1. PICK q : q = toClient'[k]
      OBVIOUS
    <3>2. AnswerInv(q)
      BY <2>2, <3>1 DEF IInv, ToClientInv
    <3>3. m.acknowledge <= q.acknowledge
      BY <1>1, <2>2, <3>1 DEF IInv, ToClientInv
    <3>4. QED
      BY <1>3, <1>6, <3>1, <3>2, <3>3 DEF AnswerInv, BufferOf, serverVars
  <2>4. ASSUME NEW k \in 1 .. Len(toClient'), NEW j \in 1 .. Len(toClient'), k < j
        PROVE  toClient'[k].acknowledge <= toClient'[j].acknowledge
    <3>1. i + k < i + j
      BY <2>4
    <3>2. QED
      BY <2>2, <3>1 DEF IInv, ToClientInv
  <2>5. QED
    BY <2>1, <2>3, <2>4 DEF ToClientInv, IsSequence
<1>10. ExecutesIssued' /\ Legible' /\ AcknowledgedIsExecuted'
  BY <1>3, <1>4, <1>6 DEF IInv, ExecutesIssued, Legible,
                          AcknowledgedIsExecuted, serverVars
<1>11. QED
  BY <1>7, <1>8, <1>9, <1>10 DEF IInv

-----------------------------------------------------------------------------
(* The theorems *)

LEMMA NextInv == IInv /\ [Next]_vars => IInv'
<1> SUFFICES ASSUME IInv, [Next]_vars PROVE IInv'
  OBVIOUS
<1>1. CASE \E text \in Text : AddReliableCommand(text)
  BY <1>1, OverflowInv, IssueInv
<1>2. CASE SendPacket
  BY <1>2, SendPacketInv
<1>3. CASE ReceiveAnswer
  BY <1>3, ReceiveFromServerInv DEF ReceiveAnswer
<1>4. CASE ReceiveAny
  BY <1>4, ReceiveFromClientInv DEF ReceiveAny
<1>5. CASE SendMessage
  BY <1>5, SendMessageInv
<1>6. CASE UNCHANGED vars
  BY <1>6 DEF IInv, TypeOK, CountsInv, RingInv, ToServerInv, ToClientInv,
              ServerInv, PacketInv, AnswerInv, BufferOf, Outstanding, Buffer,
              IsSequence, ExecutesIssued, Legible, AcknowledgedIsExecuted,
              vars, clientVars, serverVars
<1>7. QED
  BY <1>1, <1>2, <1>3, <1>4, <1>5, <1>6 DEF Next

\* The counters, both rings, what is under way and what the server executed
\* stay related as IInv says.
THEOREM Invariance == Spec => []IInv
<1>1. Init => IInv
  BY InitInv
<1>2. QED
  BY <1>1, NextInv, PTL DEF Spec

\* The fields of both records keep their types.
THEOREM TypeCorrect == Spec => []TypeOK
<1>1. IInv => TypeOK
  BY DEF IInv
<1>2. QED
  BY <1>1, Invariance, PTL

\* SV_ClientCommand executes every number once, in order, with the text that
\* CL_AddReliableCommand was given, whatever is lost.
THEOREM Executes == Spec => []ExecutesIssued
<1>1. IInv => ExecutesIssued
  BY DEF IInv
<1>2. QED
  BY <1>1, Invariance, PTL

\* CL_Netchan_Decode uses the text that SV_Netchan_Encode used, and
\* SV_ClientCommand never drops a client for lost commands.
THEOREM AlwaysLegible == Spec => []Legible
<1>1. IInv => Legible
  BY DEF IInv
<1>2. QED
  BY <1>1, Invariance, PTL

\* The client takes for acknowledged only what the server executed.
THEOREM Acknowledged == Spec => []AcknowledgedIsExecuted
<1>1. IInv => AcknowledgedIsExecuted
  BY DEF IInv
<1>2. QED
  BY <1>1, Invariance, PTL
===============================================================================
