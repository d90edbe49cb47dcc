---------------------------- MODULE TransportProofs ----------------------------
(***************************************************************************)
(* Netchan_Process hands up what Netchan_Transmit was given, in order and  *)
(* at most once, for every fragment size, message set and network; and     *)
(* net_loopback.c, for rings of any size, does so for a client and a       *)
(* server of one process.  Over such a transport, the downloads of a tame  *)
(* connection (Tame below) save each pak whole, whatever the paks, their   *)
(* sizes and the window.                                                   *)
(***************************************************************************)
EXTENDS Netchan, Loopback, Download, SharedLemmas

USE SizeAssumption, MessageAssumption, BoundAssumption

\* An offset into a message survives MSG_WriteShort: no 16-bit wrap.
LEMMA ShortIdentity ==
  ASSUME NEW n \in Nat, n < ShortRange
  PROVE  Short(n) = n
BY DEF Short

\* Offsets advance by whole fragments.
LEMMA NextOffset ==
  ASSUME NEW n \in Nat, FragmentOffset(n)
  PROVE  FragmentOffset(n + FragmentSize)
<1>1. PICK k \in 0 .. n : n = k * FragmentSize
  BY DEF FragmentOffset
<1>2. n + FragmentSize = (k + 1) * FragmentSize
  BY <1>1
<1>3. k + 1 \in 0 .. (n + FragmentSize)
  OBVIOUS
<1>4. QED
  BY <1>2, <1>3 DEF FragmentOffset

\* What the fragment of buffer cut at start carries.
Carries(packet, seq, buffer, start) ==
    /\ packet \in Packet
    /\ packet.seq = seq
    /\ packet.fragmented
    /\ packet.start = start
    /\ packet.len = Len(packet.data)
    /\ start + packet.len <= Len(buffer)
    /\ packet.data = SubSeq(buffer, start + 1, start + packet.len)
    /\ EndsMessage(buffer, start) =>
         /\ packet.len # FragmentSize
         /\ start + packet.len = Len(buffer)
    /\ ~EndsMessage(buffer, start) => packet.len = FragmentSize

\* The fragment cut at an offset that Netchan_TransmitNextFragment can be at.
LEMMA FragmentProperties ==
  ASSUME NEW seq \in Nat, NEW buffer \in Seq(Byte), Len(buffer) <= MaxMsgLen,
         NEW start \in 0 .. Len(buffer),
         FragmentOffset(start),
         NEW packet, packet = Fragment(seq, buffer, start)
  PROVE  Carries(packet, seq, buffer, start)
<1> DEFINE len == IF EndsMessage(buffer, start)
                    THEN Len(buffer) - start ELSE FragmentSize
           piece == SubSeq(buffer, start + 1, start + len)
<1>1. /\ len \in 0 .. FragmentSize
      /\ start + len <= Len(buffer)
      /\ EndsMessage(buffer, start) => len # FragmentSize
      /\ EndsMessage(buffer, start) => start + len = Len(buffer)
  BY LenProperties DEF EndsMessage
<1>2. start < ShortRange
  <2>1. start \in 0 .. ShortRange
    BY LenProperties
  <2>2. start # ShortRange
    BY <2>1, OffsetAssumption DEF FragmentOffset
  <2>3. QED
    BY <2>1, <2>2
<1>3. Short(start) = start /\ Short(len) = len
  BY <1>1, <1>2, ShortIdentity
<1>4. piece \in Seq(Byte) /\ Len(piece) = len
  <2>1. \A i \in start + 1 .. start + len : buffer[i] \in Byte
    BY <1>1, ElementOfSeq
  <2>2. start + 1 \in Int /\ start + len \in Int
    BY <1>1
  <2>3. /\ piece \in Seq(Byte)
        /\ Len(piece) = IF start + 1 <= start + len
                          THEN (start + len) - (start + 1) + 1 ELSE 0
    BY <2>1, <2>2, SubSeqProperties
  <2>4. QED
    BY <2>3, <1>1
<1>5. packet = [seq |-> seq, fragmented |-> TRUE, start |-> start,
                len |-> len, data |-> piece]
  BY <1>3 DEF Fragment
<1> HIDE DEF len, piece
<1>6. packet \in Packet
  BY <1>1, <1>4, <1>5 DEF Packet
<1>7. QED
  BY <1>1, <1>4, <1>5, <1>6 DEF piece, len, Carries

-----------------------------------------------------------------------------
\* Netchan_Setup establishes the invariant.
LEMMA InitInv == Init => IInv
<1> SUFFICES ASSUME Init PROVE IInv
  OBVIOUS
<1> USE DEF Init
<1>1. TypeOK
  <2>1. /\ <<>> \in Seq(Byte)
        /\ <<>> \in Seq(Message)
        /\ <<>> \in Seq([seq : Nat, data : Seq(Byte)])
    BY EmptySeq
  <2>2. unsentFragments \in BOOLEAN /\ net \subseteq Packet
    OBVIOUS
  <2>3. /\ outgoingSequence \in Nat \ {0} /\ unsentFragmentStart \in Nat
        /\ incomingSequence \in Nat /\ dropped \in Nat
        /\ fragmentSequence \in Nat
    OBVIOUS
  <2>4. QED
    BY <2>1, <2>2, <2>3, Zenon DEF TypeOK
<1>2. SenderInv /\ NetInv /\ ReassemblyInv
  BY EmptySeq DEF SenderInv, NetInv, ReassemblyInv
<1>3. DeliveredIntact /\ DeliveredInOrder /\ DeliveredUpToIncoming
  BY EmptySeq DEF DeliveredIntact, DeliveredInOrder, DeliveredUpToIncoming
<1>4. QED
  BY <1>1, <1>2, <1>3 DEF IInv

-----------------------------------------------------------------------------
(* Sending: the history only grows, and the new packet agrees with it. *)

\* What was sent or delivered before stays so when Netchan_Transmit adds a
\* message and a packet that is a part of it.
LEMMA SendPreserves ==
  ASSUME IInv, UNCHANGED receiveVars,
         sent' \in Seq(Message), Len(sent) <= Len(sent'),
         \A q \in 1 .. Len(sent) : sent'[q] = sent[q],
         NEW packet \in Packet, net' = net \cup {packet},
         packet.seq \in 1 .. Len(sent'),
         IF packet.fragmented THEN FragmentInv(packet)'
                              ELSE packet.data = sent'[packet.seq]
  PROVE  /\ NetInv'
         /\ ReassemblyInv'
         /\ DeliveredIntact'
         /\ DeliveredInOrder'
         /\ DeliveredUpToIncoming'
<1> USE DEF IInv
<1>0. Len(sent) \in Nat /\ Len(sent') \in Nat
  BY LenProperties DEF TypeOK
<1>1. NetInv'
  <2> SUFFICES ASSUME NEW p \in net
               PROVE  /\ p.seq \in 1 .. Len(sent')
                      /\ IF p.fragmented THEN FragmentInv(p)'
                                         ELSE p.data = sent'[p.seq]
    BY DEF NetInv
  <2>1. p.seq \in 1 .. Len(sent)
    BY DEF NetInv
  <2>2. sent'[p.seq] = sent[p.seq]
    BY <2>1
  <2>3. p.seq \in 1 .. Len(sent')
    BY <2>1, <1>0
  <2>4. CASE p.fragmented
    <3>1. FragmentInv(p)
      BY <2>4 DEF NetInv
    <3>2. FragmentInv(p)'
      BY <2>2, <3>1 DEF FragmentInv
    <3>3. QED
      BY <2>3, <2>4, <3>2
  <2>5. CASE ~p.fragmented
    BY <2>2, <2>3, <2>5 DEF NetInv
  <2>6. QED
    BY <2>4, <2>5
<1>2. ReassemblyInv'
  BY <1>0 DEF ReassemblyInv, receiveVars
<1>3. DeliveredIntact'
  BY <1>0 DEF DeliveredIntact, receiveVars
<1>4. DeliveredInOrder' /\ DeliveredUpToIncoming'
  BY DEF DeliveredInOrder, DeliveredUpToIncoming, receiveVars
<1>5. QED
  BY <1>1, <1>2, <1>3, <1>4

\* One call of Netchan_TransmitNextFragment puts a true stretch of the
\* message on the wire and leaves the sender at the next whole offset.
LEMMA EmitFragmentStep ==
  ASSUME outgoingSequence \in Nat \ {0},
         sent' \in Seq(Message), Len(sent') = outgoingSequence,
         unsentBuffer' = sent'[outgoingSequence],
         Len(unsentBuffer') <= MaxMsgLen,
         NEW start \in 0 .. Len(unsentBuffer'),
         FragmentOffset(start),
         EmitFragment(unsentBuffer', start)
  PROVE  /\ SenderInv'
         /\ outgoingSequence' \in Nat \ {0}
         /\ unsentFragments' \in BOOLEAN
         /\ unsentFragmentStart' \in Nat
         /\ unsentBuffer' \in Seq(Byte)
         /\ \E packet \in Packet :
              /\ net' = net \cup {packet}
              /\ packet.seq = outgoingSequence
              /\ packet.fragmented
              /\ FragmentInv(packet)'
<1> USE DEF SequenceAfter
<1>1. unsentBuffer' \in Seq(Byte)
  BY ElementOfSeq
<1>2. PICK buffer \in Seq(Byte) : buffer = unsentBuffer'
  BY <1>1
<1>3. PICK packet : packet = Fragment(outgoingSequence, buffer, start)
  OBVIOUS
<1>4. EmitFragment(buffer, start)
  BY <1>2
<1>5. Len(buffer) \in Nat
  BY LenProperties
<1>6. Carries(packet, outgoingSequence, buffer, start)
  <2>1. Len(buffer) <= MaxMsgLen /\ start \in 0 .. Len(buffer)
    BY <1>2
  <2>2. outgoingSequence \in Nat
    OBVIOUS
  <2>3. QED
    BY <1>3, <2>1, <2>2, FragmentProperties
<1> USE DEF Carries
<1>7. Len(packet.data) \in Nat
  BY <1>6, LenProperties DEF Packet
<1>8. /\ net' = net \cup {packet}
      /\ unsentFragmentStart' = start + Len(packet.data)
      /\ unsentFragments' = ~EndsMessage(buffer, start)
      /\ outgoingSequence' = IF EndsMessage(buffer, start)
                               THEN outgoingSequence + 1
                               ELSE outgoingSequence
  BY <1>3, <1>4 DEF EmitFragment
<1>9. FragmentInv(packet)'
  BY <1>2, <1>6, <1>7 DEF FragmentInv
<1>10. SenderInv'
  <2>1. CASE EndsMessage(buffer, start)
    <3>1. unsentFragments' = FALSE /\ outgoingSequence' = outgoingSequence + 1
      BY <2>1, <1>8
    <3>2. Len(sent') = outgoingSequence' - 1
      BY <3>1
    <3>3. QED
      BY <3>1, <3>2 DEF SenderInv
  <2>2. CASE ~EndsMessage(buffer, start)
    <3>1. unsentFragmentStart' = start + FragmentSize
      BY <2>2, <1>6, <1>8
    <3>2. FragmentOffset(start + FragmentSize)
      BY NextOffset
    <3>3. QED
      BY <2>2, <3>1, <3>2, <1>2, <1>5, <1>6, <1>8 DEF SenderInv
  <2>3. QED
    BY <2>1, <2>2
<1>11. outgoingSequence' \in Nat \ {0} /\ unsentFragments' \in BOOLEAN
       /\ unsentFragmentStart' \in Nat
  <2>1. outgoingSequence' \in Nat \ {0} /\ unsentFragmentStart' \in Nat
    BY <1>7, <1>8
  <2>2. unsentFragments' \in BOOLEAN
    BY <1>8 DEF EndsMessage
  <2>3. QED
    BY <2>1, <2>2
<1>12. packet \in Packet /\ packet.seq = outgoingSequence /\ packet.fragmented
  BY <1>6
<1>13. QED
  BY <1>1, <1>8, <1>9, <1>10, <1>11, <1>12

\* Netchan_TransmitNextFragment preserves the invariant.
LEMMA TransmitNextFragmentInv ==
  ASSUME IInv, TransmitNextFragment
  PROVE  IInv'
<1> USE DEF IInv, TransmitNextFragment
<1>1. /\ Len(sent') = outgoingSequence
      /\ unsentBuffer' = sent'[outgoingSequence]
      /\ Len(unsentBuffer') <= MaxMsgLen
      /\ EmitFragment(unsentBuffer', unsentFragmentStart)
      /\ sent' \in Seq(Message)
      /\ outgoingSequence \in Nat \ {0}
  BY DEF TypeOK, SenderInv
<1>2. PICK start \in 0 .. Len(unsentBuffer') :
        /\ FragmentOffset(start)
        /\ EmitFragment(unsentBuffer', start)
  BY LenProperties DEF TypeOK, SenderInv
<1>3. /\ SenderInv'
      /\ outgoingSequence' \in Nat \ {0}
      /\ unsentFragments' \in BOOLEAN
      /\ unsentFragmentStart' \in Nat
      /\ unsentBuffer' \in Seq(Byte)
      /\ \E packet \in Packet :
           /\ net' = net \cup {packet}
           /\ packet.seq = outgoingSequence
           /\ packet.fragmented
           /\ FragmentInv(packet)'
  BY <1>1, <1>2, EmitFragmentStep
<1>4. PICK packet \in Packet :
           /\ net' = net \cup {packet}
           /\ packet.seq = outgoingSequence
           /\ packet.fragmented
           /\ FragmentInv(packet)'
  BY <1>3
<1>5. /\ packet.seq \in 1 .. Len(sent')
      /\ Len(sent) <= Len(sent')
      /\ \A q \in 1 .. Len(sent) : sent'[q] = sent[q]
      /\ UNCHANGED receiveVars
  BY <1>1, <1>4
<1>6. NetInv' /\ ReassemblyInv' /\ DeliveredIntact' /\ DeliveredInOrder'
        /\ DeliveredUpToIncoming'
  BY <1>1, <1>4, <1>5, SendPreserves
<1>7. net' \subseteq Packet
  BY <1>4 DEF TypeOK
<1>8. TypeOK'
  BY <1>1, <1>3, <1>5, <1>7 DEF TypeOK, receiveVars
<1>9. QED
  BY <1>3, <1>6, <1>8

\* Netchan_Transmit preserves the invariant.
LEMMA TransmitInv ==
  ASSUME IInv, NEW m \in Message, Transmit(m)
  PROVE  IInv'
<1> USE DEF IInv, Transmit, TransmitBody
<1>1. /\ sent' = Append(sent, m)
      /\ sent \in Seq(Message)
      /\ m \in Seq(Byte)
      /\ outgoingSequence = Len(sent) + 1
      /\ outgoingSequence \in Nat \ {0}
  BY LenProperties DEF TypeOK, SenderInv
<1>2. /\ sent' \in Seq(Message)
      /\ Len(sent') = outgoingSequence
      /\ sent'[outgoingSequence] = m
      /\ \A q \in 1 .. Len(sent) : sent'[q] = sent[q]
  BY <1>1, AppendProperties
<1>3. Len(sent) <= Len(sent') /\ UNCHANGED receiveVars
  BY <1>1, <1>2
<1>4. CASE Len(m) >= FragmentSize
  <2>1. unsentBuffer' = m /\ EmitFragment(m, 0)
    BY <1>4
  <2>2. /\ unsentBuffer' = sent'[outgoingSequence]
        /\ Len(unsentBuffer') <= MaxMsgLen
        /\ 0 \in 0 .. Len(unsentBuffer')
        /\ EmitFragment(unsentBuffer', 0)
    BY <1>1, <1>2, <2>1, LenProperties
  <2>3. FragmentOffset(0)
    BY DEF FragmentOffset
  <2>4. /\ SenderInv'
        /\ outgoingSequence' \in Nat \ {0}
        /\ unsentFragments' \in BOOLEAN
        /\ unsentFragmentStart' \in Nat
        /\ unsentBuffer' \in Seq(Byte)
        /\ \E packet \in Packet :
             /\ net' = net \cup {packet}
             /\ packet.seq = outgoingSequence
             /\ packet.fragmented
             /\ FragmentInv(packet)'
    BY <1>1, <1>2, <2>2, <2>3, EmitFragmentStep
  <2>5. PICK packet \in Packet :
             /\ net' = net \cup {packet}
             /\ packet.seq = outgoingSequence
             /\ packet.fragmented
             /\ FragmentInv(packet)'
    BY <2>4
  <2>6. packet.seq \in 1 .. Len(sent')
    BY <1>1, <1>2, <2>5
  <2>7. NetInv' /\ ReassemblyInv' /\ DeliveredIntact' /\ DeliveredInOrder'
          /\ DeliveredUpToIncoming'
    BY <1>2, <1>3, <2>5, <2>6, SendPreserves
  <2>8. net' \subseteq Packet
    BY <2>5 DEF TypeOK
  <2>9. TypeOK'
    BY <1>2, <1>3, <2>4, <2>8 DEF TypeOK, receiveVars
  <2>10. QED
    BY <2>4, <2>7, <2>9
<1>5. CASE ~(Len(m) >= FragmentSize)
  <2>1. /\ net' = net \cup {Whole(outgoingSequence, m)}
        /\ outgoingSequence' = outgoingSequence + 1
        /\ unsentFragmentStart' = 0
        /\ UNCHANGED <<unsentBuffer, unsentFragments>>
    BY <1>5
  <2>2. PICK packet : packet = Whole(outgoingSequence, m)
    OBVIOUS
  <2>3. /\ packet \in Packet
        /\ packet.seq = outgoingSequence
        /\ ~packet.fragmented
        /\ packet.data = m
    BY <1>1, <2>2 DEF Whole, Packet
  <2>4. /\ net' = net \cup {packet}
        /\ packet.seq \in 1 .. Len(sent')
        /\ packet.data = sent'[packet.seq]
    BY <1>1, <1>2, <2>1, <2>2, <2>3
  <2>5. NetInv' /\ ReassemblyInv' /\ DeliveredIntact' /\ DeliveredInOrder'
          /\ DeliveredUpToIncoming'
    BY <1>2, <1>3, <2>3, <2>4, SendPreserves
  <2>6. SenderInv'
    BY <1>1, <1>2, <2>1 DEF SenderInv
  <2>7. net' \subseteq Packet /\ unsentFragments' \in BOOLEAN
    BY <2>1, <2>3, <2>4 DEF TypeOK
  <2>8. TypeOK'
    BY <1>1, <1>2, <1>3, <2>1, <2>7 DEF TypeOK, receiveVars
  <2>9. QED
    BY <2>5, <2>6, <2>8
<1>6. QED
  BY <1>4, <1>5

-----------------------------------------------------------------------------
(* Receiving *)

\* Handing up a newer packet's message preserves what the invariant says of
\* delivered messages.
LEMMA AcceptInv ==
  ASSUME TypeOK, DeliveredIntact, DeliveredInOrder, DeliveredUpToIncoming,
         NEW seq \in 1 .. Len(sent), seq > incomingSequence,
         Accept(seq, sent[seq]), UNCHANGED sent
  PROVE  /\ incomingSequence' \in Nat
         /\ delivered' \in Seq([seq : Nat, data : Seq(Byte)])
         /\ DeliveredIntact'
         /\ DeliveredInOrder'
         /\ DeliveredUpToIncoming'
<1> DEFINE D == [seq : Nat, data : Seq(Byte)]
           new == [seq |-> seq, data |-> sent[seq]]
<1>0. Len(sent) \in Nat /\ sent[seq] \in Seq(Byte)
  BY LenProperties, ElementOfSeq DEF TypeOK
<1>1. new \in D /\ delivered \in Seq(D)
  BY <1>0 DEF TypeOK
<1>2. delivered' = Append(delivered, new) /\ incomingSequence' = seq
  BY DEF Accept
<1> HIDE DEF D, new
<1>3. /\ delivered' \in Seq(D)
      /\ Len(delivered) \in Nat
      /\ delivered' # <<>>
      /\ Len(delivered') = Len(delivered) + 1
      /\ \A i \in 1 .. Len(delivered) : delivered'[i] = delivered[i]
      /\ delivered'[Len(delivered) + 1] = new
  BY <1>1, <1>2, AppendProperties, LenProperties
<1>4. \A i \in 1 .. Len(delivered) : delivered[i].seq \in Nat
  <2>1. \A i \in 1 .. Len(delivered) : delivered[i] \in D
    BY <1>1, ElementOfSeq
  <2>2. QED
    BY <2>1 DEF D
<1>5. new.seq = seq /\ new.data = sent[seq]
  BY DEF new
<1>6. \A i \in 1 .. Len(delivered) : delivered[i].seq < seq
  <2>1. incomingSequence \in Nat
    BY DEF TypeOK
  <2>2. \A i \in 1 .. Len(delivered) : delivered[i].seq <= incomingSequence
    BY DEF DeliveredUpToIncoming
  <2>3. QED
    BY <1>0, <1>4, <2>1, <2>2
<1>7. DeliveredIntact'
  BY <1>3, <1>5 DEF DeliveredIntact
<1>8. DeliveredInOrder'
  <2> SUFFICES ASSUME NEW i \in 1 .. Len(delivered'),
                      NEW j \in 1 .. Len(delivered'), i < j
               PROVE  delivered'[i].seq < delivered'[j].seq
    BY DEF DeliveredInOrder
  <2>1. i \in 1 .. Len(delivered)
    BY <1>3
  <2>2. CASE j = Len(delivered')
    BY <1>3, <1>5, <1>6, <2>1, <2>2
  <2>3. CASE j # Len(delivered')
    <3>1. j \in 1 .. Len(delivered)
      BY <1>3, <2>3
    <3>2. QED
      BY <1>3, <2>1, <3>1 DEF DeliveredInOrder
  <2>4. QED
    BY <2>2, <2>3
<1>9. DeliveredUpToIncoming'
  <2>1. \A i \in 1 .. Len(delivered') : delivered'[i].seq <= seq
    <3> SUFFICES ASSUME NEW i \in 1 .. Len(delivered')
                 PROVE  delivered'[i].seq <= seq
      OBVIOUS
    <3>1. CASE i \in 1 .. Len(delivered)
      BY <1>0, <1>3, <1>4, <1>6, <3>1
    <3>2. CASE i = Len(delivered) + 1
      BY <1>0, <1>3, <1>5, <3>2
    <3>3. QED
      BY <1>3, <3>1, <3>2
  <2>2. delivered'[Len(delivered')].seq = seq
    BY <1>3, <1>5
  <2>3. QED
    BY <1>2, <1>3, <2>1, <2>2 DEF DeliveredUpToIncoming
<1>10. QED
  BY <1>0, <1>2, <1>3, <1>7, <1>8, <1>9 DEF D

\* Fragments continue a message byte for byte.
LEMMA ProcessFragmentInv ==
  ASSUME IInv, NEW packet \in net, packet.fragmented, Newer(packet),
         ProcessFragment(packet), UNCHANGED <<sendVars, net>>,
         dropped' \in Nat
  PROVE  IInv'
<1> USE DEF IInv
<1> DEFINE message == sent[packet.seq]
           assembled == Assembled(packet)
           extended == assembled \o SubSeq(packet.data, 1, packet.len)
<1>1. /\ packet \in Packet
      /\ packet.seq \in 1 .. Len(sent)
      /\ FragmentInv(packet)
  BY DEF NetInv, TypeOK
<1>2. /\ Len(sent) \in Nat
      /\ message \in Seq(Byte)
      /\ Len(message) \in Nat
      /\ packet.seq \in Nat
      /\ packet.data \in Seq(Byte)
      /\ packet.start \in Nat
      /\ packet.len \in Nat
      /\ packet.start + packet.len <= Len(message)
  <2>1. Len(sent) \in Nat /\ message \in Message
    BY <1>1, ElementOfSeq, LenProperties DEF TypeOK
  <2>2. message \in Seq(Byte) /\ Len(message) \in Nat
    BY <2>1, LenProperties
  <2>3. packet.seq \in Nat /\ packet.data \in Seq(Byte)
          /\ packet.start \in Int
    BY <1>1 DEF Packet
  <2>4. /\ packet.start >= 0
        /\ packet.len = Len(packet.data)
        /\ packet.start + packet.len <= Len(message)
    BY <1>1 DEF FragmentInv
  <2>5. packet.len \in Nat
    BY <2>3, <2>4, LenProperties
  <2>6. QED
    BY <2>1, <2>2, <2>3, <2>4, <2>5
<1>3. SubSeq(packet.data, 1, packet.len) =
        SubSeq(message, packet.start + 1, packet.start + packet.len)
  BY <1>1, <1>2, SubSeqFull DEF FragmentInv
<1>4. /\ assembled \in Seq(Byte)
      /\ Len(assembled) \in Nat
      /\ Len(assembled) <= Len(message)
      /\ assembled = SubSeq(message, 1, Len(assembled))
  <2>1. CASE packet.seq = fragmentSequence /\ fragmentBuffer # <<>>
    BY <2>1, LenProperties DEF ReassemblyInv, Assembled, TypeOK
  <2>2. CASE ~(packet.seq = fragmentSequence /\ fragmentBuffer # <<>>)
    <3>1. assembled = <<>>
      BY <2>2 DEF Assembled
    <3>2. SubSeq(message, 1, 0) = <<>>
      BY SubSeqEmpty
    <3>3. QED
      BY <3>1, <3>2, <1>2, EmptySeq
  <2>3. QED
    BY <2>1, <2>2
<1> HIDE DEF assembled, message
<1>5. CASE ~(Continues(packet) /\ LegalLength(packet))
  <2>1. /\ fragmentSequence' = packet.seq
        /\ fragmentBuffer' = assembled
        /\ UNCHANGED <<incomingSequence, delivered>>
    BY <1>5 DEF ProcessFragment, assembled
  <2>2. ReassemblyInv'
    BY <1>1, <1>4, <2>1 DEF ReassemblyInv, sendVars, message
  <2>3. TypeOK'
    BY <1>2, <1>4, <2>1 DEF TypeOK, sendVars
  <2>4. QED
    BY <2>1, <2>2, <2>3 DEF sendVars, SenderInv, NetInv, FragmentInv,
       DeliveredIntact, DeliveredInOrder, DeliveredUpToIncoming
<1>6. CASE Continues(packet) /\ LegalLength(packet)
  <2>1. packet.start = Len(assembled)
    BY <1>6 DEF Continues, assembled
  <2>2. /\ extended \in Seq(Byte)
        /\ Len(extended) = packet.start + packet.len
        /\ extended = SubSeq(message, 1, packet.start + packet.len)
    <3>1. SubSeq(message, 1, packet.start)
            \o SubSeq(message, packet.start + 1, packet.start + packet.len)
            = SubSeq(message, 1, packet.start + packet.len)
      <4>1. /\ 1 \in 1 .. Len(message) + 1
            /\ packet.start \in 1 - 1 .. Len(message)
            /\ packet.start + packet.len \in packet.start .. Len(message)
        BY <1>2
      <4>2. QED
        BY <4>1, <1>2, ConcatAdjacentSubSeq
    <3>2. extended = SubSeq(message, 1, packet.start + packet.len)
      BY <3>1, <2>1, <1>3, <1>4
    <3>3. \A i \in 1 .. packet.start + packet.len : message[i] \in Byte
      BY <1>2, ElementOfSeq
    <3>4. /\ SubSeq(message, 1, packet.start + packet.len) \in Seq(Byte)
          /\ Len(SubSeq(message, 1, packet.start + packet.len)) =
               IF 1 <= packet.start + packet.len
                 THEN packet.start + packet.len - 1 + 1 ELSE 0
      BY <1>2, <3>3, SubSeqProperties
    <3>5. Len(SubSeq(message, 1, packet.start + packet.len)) =
            packet.start + packet.len
      BY <1>2, <3>4
    <3>6. QED
      BY <3>2, <3>4, <3>5
  <2> HIDE DEF extended
  <2>3. CASE packet.len # FragmentSize /\ Len(extended) <= MaxSize
    <3>1. /\ fragmentSequence' = packet.seq
          /\ fragmentBuffer' = <<>>
          /\ Accept(packet.seq, extended)
      BY <1>6, <2>3 DEF ProcessFragment, extended, assembled
    <3>2. extended = sent[packet.seq]
      <4>1. packet.start + packet.len = Len(message)
        BY <1>1, <2>3 DEF FragmentInv, message
      <4>2. extended = SubSeq(message, 1, Len(message))
        BY <2>2, <4>1
      <4>3. QED
        BY <1>2, <4>2, SubSeqFull DEF message
    <3>3. /\ incomingSequence' \in Nat
          /\ delivered' \in Seq([seq : Nat, data : Seq(Byte)])
          /\ DeliveredIntact'
          /\ DeliveredInOrder'
          /\ DeliveredUpToIncoming'
      BY <1>1, <3>1, <3>2, AcceptInv DEF Newer, sendVars
    <3>4. ReassemblyInv'
      BY <3>1 DEF ReassemblyInv
    <3>5. TypeOK'
      BY <1>2, <3>1, <3>3, EmptySeq DEF TypeOK, sendVars
    <3>6. QED
      BY <3>3, <3>4, <3>5 DEF sendVars, SenderInv, NetInv, FragmentInv
  <2>4. CASE ~(packet.len # FragmentSize /\ Len(extended) <= MaxSize)
    <3>1. /\ fragmentSequence' = packet.seq
          /\ fragmentBuffer' = extended
          /\ UNCHANGED <<incomingSequence, delivered>>
      BY <1>6, <2>4 DEF ProcessFragment, extended, assembled
    <3>2. ReassemblyInv'
      BY <1>1, <1>2, <2>2, <3>1 DEF ReassemblyInv, sendVars, message
    <3>3. TypeOK'
      BY <1>2, <2>2, <3>1 DEF TypeOK, sendVars
    <3>4. QED
      BY <3>1, <3>2, <3>3 DEF sendVars, SenderInv, NetInv, FragmentInv,
         DeliveredIntact, DeliveredInOrder, DeliveredUpToIncoming
  <2>5. QED
    BY <2>3, <2>4
<1>7. QED
  BY <1>5, <1>6

\* Netchan_Process preserves the invariant.
LEMMA ProcessInv ==
  ASSUME IInv, NEW packet \in net, Process(packet)
  PROVE  IInv'
<1> USE DEF IInv
<1>1. /\ packet \in Packet
      /\ packet.seq \in 1 .. Len(sent)
      /\ Newer(packet)
      /\ UNCHANGED <<sendVars, net>>
  BY DEF Process, NetInv, TypeOK
<1>2. dropped' \in Nat
  <2>1. packet.seq \in Nat
    BY <1>1 DEF Packet
  <2>2. incomingSequence \in Nat
    BY DEF TypeOK
  <2>3. packet.seq > incomingSequence /\ dropped' = packet.seq - incomingSequence - 1
    BY DEF Process, Newer
  <2>4. QED
    BY ONLY <2>1, <2>2, <2>3
<1>3. CASE packet.fragmented /\ ProcessFragment(packet)
  BY <1>1, <1>2, <1>3, ProcessFragmentInv
<1>4. CASE ~packet.fragmented /\ ProcessWhole(packet)
  <2>1. /\ Accept(packet.seq, sent[packet.seq])
        /\ UNCHANGED <<fragmentSequence, fragmentBuffer>>
    BY <1>4 DEF ProcessWhole, NetInv
  <2>2. /\ incomingSequence' \in Nat
        /\ delivered' \in Seq([seq : Nat, data : Seq(Byte)])
        /\ DeliveredIntact'
        /\ DeliveredInOrder'
        /\ DeliveredUpToIncoming'
    BY <1>1, <2>1, AcceptInv DEF Newer, sendVars
  <2>3. TypeOK'
    BY <1>1, <1>2, <2>1, <2>2 DEF TypeOK, sendVars
  <2>4. QED
    BY <1>1, <2>1, <2>2, <2>3 DEF sendVars, SenderInv, NetInv, FragmentInv,
       ReassemblyInv
<1>5. QED
  BY <1>3, <1>4 DEF Process

-----------------------------------------------------------------------------
\* Every step preserves the invariant.
LEMMA NextInv ==
  ASSUME IInv, [Next]_vars
  PROVE  IInv'
<1>1. CASE \E m \in Message : Transmit(m)
  BY <1>1, TransmitInv
<1>2. CASE TransmitNextFragment
  BY <1>2, TransmitNextFragmentInv
<1>3. CASE \E packet \in net : Process(packet)
  BY <1>3, ProcessInv
<1>4. CASE UNCHANGED vars
  BY <1>4 DEF vars, sendVars, receiveVars, IInv, TypeOK, SenderInv, NetInv,
     FragmentInv, ReassemblyInv, DeliveredIntact, DeliveredInOrder,
     DeliveredUpToIncoming
<1>5. QED
  BY <1>1, <1>2, <1>3, <1>4 DEF Next

\* The inductive invariant holds of every execution of netchan.c's sender and
\* receiver over UDP.
THEOREM Invariance == Spec => []IInv
<1>1. Init => IInv
  BY InitInv
<1>2. IInv /\ [Next]_vars => IInv'
  BY NextInv
<1>3. QED
  BY <1>1, <1>2, PTL DEF Spec

\* Every field of the two netchan_t keeps its type.
THEOREM TypeCorrect == Spec => []TypeOK
<1>1. IInv => TypeOK
  BY DEF IInv
<1>2. QED
  BY <1>1, Invariance, PTL

\* A message is handed up by Netchan_Process exactly as Netchan_Transmit got
\* it: reassembly never splices fragments.
THEOREM Intact == Spec => []DeliveredIntact
<1>1. IInv => DeliveredIntact
  BY DEF IInv
<1>2. QED
  BY <1>1, Invariance, PTL

\* Netchan_Process never repeats or reorders messages.
THEOREM InOrder == Spec => []DeliveredInOrder
<1>1. IInv => DeliveredInOrder
  BY DEF IInv
<1>2. QED
  BY <1>1, Invariance, PTL

-----------------------------------------------------------------------------
(* netchan.c implements OrderedChannel. *)

\* Accept delivers the next message the abstract channel may deliver.
LEMMA AcceptDelivers ==
  ASSUME IInv, NEW seq \in 1 .. Len(sent), seq > incomingSequence,
         Accept(seq, sent[seq]), UNCHANGED sent
  PROVE  Channel!Next
<1>1. Channel!LastDelivered = incomingSequence
  BY DEF IInv, DeliveredUpToIncoming, Channel!LastDelivered
<1>2. Channel!Deliver(seq)
  BY <1>1 DEF Accept, Channel!Deliver
<1>3. QED
  BY <1>2 DEF Channel!Next

\* Every step of netchan.c is a step of OrderedChannel or leaves it alone.
LEMMA StepRefines ==
  ASSUME IInv, IInv', [Next]_vars
  PROVE  [Channel!Next]_Channel!vars
<1> USE DEF Channel!vars
<1>1. CASE \E m \in Message : Transmit(m)
  <2>1. PICK m \in Message : Transmit(m)
    BY <1>1
  <2>2. Channel!Send(m)
    BY <2>1 DEF Transmit, TransmitBody, receiveVars, Channel!Send
  <2>3. QED
    BY <2>2 DEF Channel!Next
<1>2. CASE TransmitNextFragment
  BY <1>2 DEF TransmitNextFragment, receiveVars
<1>3. CASE \E packet \in net : Process(packet)
  <2>1. PICK packet \in net : Process(packet)
    BY <1>3
  <2>2. CASE UNCHANGED delivered
    BY <2>1, <2>2 DEF Process, sendVars
  <2>3. CASE delivered' # delivered
    <3>1. \E data : Accept(packet.seq, data)
      BY <2>1, <2>3 DEF Process, ProcessWhole, ProcessFragment
    <3>2. PICK data : Accept(packet.seq, data)
      BY <3>1
    <3>3. packet.seq \in 1 .. Len(sent) /\ UNCHANGED sent /\ Newer(packet)
      BY <2>1 DEF IInv, NetInv, Process, sendVars
    <3>4. data = sent[packet.seq]
      <4>1. delivered' = Append(delivered, [seq |-> packet.seq, data |-> data])
        BY <3>2 DEF Accept
      <4>2. QED
        BY <4>1, <3>3 DEF IInv, DeliveredIntact
    <3>5. QED
      BY <3>2, <3>3, <3>4, AcceptDelivers DEF Newer
  <2>4. QED
    BY <2>2, <2>3
<1>4. CASE UNCHANGED vars
  BY <1>4 DEF vars, sendVars, receiveVars
<1>5. QED
  BY <1>1, <1>2, <1>3, <1>4 DEF Next

\* Over any UDP network the code of netchan.c is an ordered, at-most-once
\* channel of unaltered messages.
THEOREM Refinement == Spec => ImplementsOrderedChannel
<1>1. Init => Channel!Init
  BY DEF Init, Channel!Init
<1>2. IInv /\ IInv' /\ [Next]_vars => [Channel!Next]_Channel!vars
  BY StepRefines
<1>3. QED
  BY <1>1, <1>2, Invariance, PTL DEF Spec, ImplementsOrderedChannel,
     Channel!Spec


-----------------------------------------------------------------------------
(* The loopback rings *)

\* What is left in the ring is what was put last.
Held == \A q \in 0 .. send - 1 : q >= send - RingSize => msgs[Slot(q)] = put[q + 1]

CountersAgree == Len(put) = send /\ get <= send

UpToGet == get = RingChannel!LastDelivered

RingIInv == RingTypeOK /\ CountersAgree /\ Held /\ UpToGet /\ SkippedWereOverwritten

\* The oldest message of the ring is one that was put, not read, and not
\* overwritten.
LEMMA OldestHeld ==
  ASSUME RingTypeOK, CountersAgree, Held, Oldest(get, send) < send
  PROVE  /\ Oldest(get, send) \in Nat
         /\ Oldest(get, send) >= get
         /\ Oldest(get, send) = get \/ Oldest(get, send) = send - RingSize
         /\ msgs[Slot(Oldest(get, send))] = put[Oldest(get, send) + 1]
<1> DEFINE q == Oldest(get, send)
<1>1. get \in Nat /\ send \in Nat /\ RingSize \in Nat \ {0}
  BY RingAssumption, MaxSentAssumption DEF RingTypeOK
<1>2. q \in Nat /\ q >= get /\ q >= send - RingSize /\ (q = get \/ q = send - RingSize)
  BY <1>1 DEF Oldest
<1>3. q \in 0 .. send - 1
  BY <1>1, <1>2
<1>4. QED
  BY <1>2, <1>3 DEF Held

\* The last element of a sequence after Append.
LEMMA LastOfAppend ==
  ASSUME NEW S, NEW s \in Seq(S), NEW e \in S
  PROVE  /\ Append(s, e) # <<>>
         /\ Len(Append(s, e)) = Len(s) + 1
         /\ Append(s, e)[Len(Append(s, e))] = e
         /\ \A i \in 1 .. Len(s) : Append(s, e)[i] = s[i]
BY AppendProperties

LEMMA SendInductive ==
  ASSUME RingIInv, NEW m \in Datagram, NET_SendLoopPacket(m)
  PROVE  RingIInv'
<1> USE RingAssumption, MaxSentAssumption
<1>1. get \in Nat /\ send \in Nat /\ m \in Fitting
  BY DEF NET_SendLoopPacket, Accepted, RingIInv, RingTypeOK
<1>2. Slot(send) \in 0 .. RingSize - 1
  BY <1>1, SlotInRing DEF Slot
<1>3. /\ put' \in Seq(Fitting)
      /\ Len(put') = Len(put) + 1
      /\ put'[Len(put')] = m
      /\ \A i \in 1 .. Len(put) : put'[i] = put[i]
  BY <1>1, LastOfAppend, AppendProperties DEF NET_SendLoopPacket, RingIInv, RingTypeOK
<1>4. RingTypeOK'
  <2>1. msgs' \in [0 .. RingSize - 1 -> Fitting \cup {Empty}]
    BY <1>1, <1>2 DEF NET_SendLoopPacket, RingIInv, RingTypeOK
  <2>2. send' \in 0 .. MaxSent /\ get' \in 0 .. MaxSent
    BY <1>1 DEF NET_SendLoopPacket, RingIInv, RingTypeOK
  <2>3. taken' \in Seq([seq : Nat, data : Fitting \cup {Empty}])
    BY DEF NET_SendLoopPacket, RingIInv, RingTypeOK
  <2>4. QED
    BY <1>3, <2>1, <2>2, <2>3 DEF RingTypeOK
<1>5. CountersAgree'
  BY <1>1, <1>3 DEF NET_SendLoopPacket, RingIInv, CountersAgree
<1>6. Held'
  <2> SUFFICES ASSUME NEW q \in 0 .. send' - 1, q >= send' - RingSize
               PROVE  msgs'[Slot(q)] = put'[q + 1]
    BY DEF Held, Slot
  <2>1. send' = send + 1 /\ msgs' = [msgs EXCEPT ![Slot(send)] = m]
    BY DEF NET_SendLoopPacket
  <2>2. msgs \in [0 .. RingSize - 1 -> Fitting \cup {Empty}] /\ Len(put) = send
    BY DEF RingIInv, RingTypeOK, CountersAgree
  <2>3. q \in Nat /\ Slot(q) \in 0 .. RingSize - 1
    BY <1>1, <2>1, SlotInRing DEF Slot
  <2>4. CASE q = send
    BY <1>1, <1>2, <1>3, <2>1, <2>2, <2>4
  <2>5. CASE q < send
    <3>1. Slot(q) # Slot(send)
      <4>1. q < send /\ send - q < RingSize
        BY <1>1, <2>1, <2>3, <2>5
      <4>2. QED
        BY <1>1, <2>3, <4>1, SlotsDiffer DEF Slot
    <3>2. msgs[Slot(q)] = put[q + 1]
      BY <1>1, <2>1, <2>3, <2>5 DEF RingIInv, Held
    <3>3. put'[q + 1] = put[q + 1]
      BY <1>1, <1>3, <2>2, <2>3, <2>5
    <3>4. QED
      BY <1>2, <2>1, <2>2, <2>3, <3>1, <3>2, <3>3
  <2>6. QED
    BY <1>1, <2>1, <2>3, <2>4, <2>5
<1>7. UpToGet'
  BY DEF NET_SendLoopPacket, RingIInv, UpToGet, RingChannel!LastDelivered
<1>8. SkippedWereOverwritten'
  BY <1>1 DEF NET_SendLoopPacket, RingIInv, SkippedWereOverwritten, Taken
<1>9. QED
  BY <1>4, <1>5, <1>6, <1>7, <1>8 DEF RingIInv

LEMMA GetInductive ==
  ASSUME RingIInv, NET_GetLoopPacket
  PROVE  RingIInv'
<1> USE RingAssumption, MaxSentAssumption
<1> DEFINE next == Oldest(get, send)
           d == [seq |-> next + 1, data |-> msgs[Slot(next)]]
<1>1. get \in Nat /\ send \in Nat /\ Len(put) = send
  BY DEF RingIInv, RingTypeOK, CountersAgree
<1>2. /\ next \in Nat /\ next >= get /\ next < send
      /\ next = get \/ next = send - RingSize
      /\ msgs[Slot(next)] = put[next + 1]
  BY OldestHeld DEF RingIInv, NET_GetLoopPacket
<1>3. /\ taken' = Append(taken, d) /\ get' = next + 1
      /\ msgs' = msgs /\ send' = send /\ put' = put
  BY DEF NET_GetLoopPacket
<1>4. d \in [seq : Nat, data : Fitting \cup {Empty}]
  <2>1. msgs[Slot(next)] \in Fitting \cup {Empty}
    BY <1>2, SlotInRing DEF RingIInv, RingTypeOK, Slot
  <2>2. QED
    BY <1>2, <2>1
<1> HIDE DEF next, d
<1>5. taken \in Seq([seq : Nat, data : Fitting \cup {Empty}])
  BY DEF RingIInv, RingTypeOK
<1>6. /\ taken' \in Seq([seq : Nat, data : Fitting \cup {Empty}])
      /\ taken' # <<>> /\ Len(taken') = Len(taken) + 1
      /\ taken'[Len(taken')] = d
      /\ \A i \in 1 .. Len(taken) : taken'[i] = taken[i]
  <2>1. PICK D : D = [seq : Nat, data : Fitting \cup {Empty}]
    OBVIOUS
  <2>2. taken \in Seq(D) /\ d \in D
    BY <1>4, <1>5, <2>1
  <2>3. /\ Append(taken, d) \in Seq(D) /\ Append(taken, d) # <<>>
        /\ Len(Append(taken, d)) = Len(taken) + 1
        /\ Append(taken, d)[Len(Append(taken, d))] = d
        /\ \A i \in 1 .. Len(taken) : Append(taken, d)[i] = taken[i]
    BY <2>2, LastOfAppend, AppendProperties
  <2>4. QED
    BY <1>3, <2>1, <2>3
<1>7. d.seq = next + 1
  BY DEF d
<1>8. RingTypeOK'
  <2>1. get' \in 0 .. MaxSent
    BY <1>1, <1>2, <1>3 DEF RingIInv, RingTypeOK
  <2>2. QED
    BY <1>3, <1>6, <2>1 DEF RingIInv, RingTypeOK
<1>9. CountersAgree'
  BY <1>1, <1>2, <1>3 DEF CountersAgree
<1>10. Held'
  BY <1>3 DEF RingIInv, Held, Slot
<1>11. UpToGet'
  BY <1>3, <1>6, <1>7 DEF UpToGet, RingChannel!LastDelivered
<1>12. SkippedWereOverwritten'
  <2> SUFFICES ASSUME NEW q \in 1 .. get', q \notin Taken'
               PROVE  q + RingSize <= send
    BY <1>3 DEF SkippedWereOverwritten
  <2>1. next + 1 \in Taken'
    <3>1. Len(taken') \in DOMAIN taken'
      BY <1>6, LenProperties
    <3>2. QED
      BY <1>6, <1>7, <3>1 DEF Taken
  <2>2. Taken \subseteq Taken'
    <3> SUFFICES ASSUME NEW i \in DOMAIN taken
                 PROVE  taken[i].seq \in Taken'
      BY DEF Taken
    <3>1. i \in 1 .. Len(taken) /\ i \in DOMAIN taken'
      BY <1>5, <1>6, LenProperties
    <3>2. QED
      BY <1>6, <3>1 DEF Taken
  <2>3. q <= next
    BY <1>2, <1>3, <2>1
  <2>4. CASE q <= get
    BY <1>1, <1>3, <2>2, <2>4 DEF RingIInv, SkippedWereOverwritten
  <2>5. CASE q > get
    BY <1>1, <1>2, <2>3, <2>5
  <2>6. QED
    BY <1>1, <2>4, <2>5
<1>13. QED
  BY <1>8, <1>9, <1>10, <1>11, <1>12 DEF RingIInv

\* The inductive invariant of net_loopback.c.
THEOREM RingInvariance == RingSpec => []RingIInv
<1>1. RingInit => RingIInv
  <2> SUFFICES ASSUME RingInit PROVE RingIInv
    OBVIOUS
  <2>1. RingTypeOK
    BY RingAssumption, MaxSentAssumption DEF RingInit, RingTypeOK
  <2>2. CountersAgree /\ Held /\ UpToGet /\ SkippedWereOverwritten
    BY RingAssumption
       DEF RingInit, CountersAgree, Held, UpToGet, RingChannel!LastDelivered,
           SkippedWereOverwritten
  <2>3. QED
    BY <2>1, <2>2 DEF RingIInv
<1>2. RingIInv /\ [RingNext]_ringVars => RingIInv'
  <2> SUFFICES ASSUME RingIInv, [RingNext]_ringVars PROVE RingIInv'
    OBVIOUS
  <2>1. CASE \E m \in Datagram : NET_SendLoopPacket(m)
    BY <2>1, SendInductive
  <2>2. CASE NET_GetLoopPacket
    BY <2>2, GetInductive
  <2>3. CASE UNCHANGED ringVars
    BY <2>3 DEF ringVars, RingIInv, RingTypeOK, CountersAgree, Held, Slot, UpToGet,
                RingChannel!LastDelivered, SkippedWereOverwritten, Taken
  <2>4. QED
    BY <2>1, <2>2, <2>3 DEF RingNext
<1>3. QED
  BY <1>1, <1>2, PTL DEF RingSpec

\* Only messages overwritten by a whole ring of newer ones are missed
\* (net_loopback.c:23).
THEOREM MissesOnlyOverwritten == RingSpec => []SkippedWereOverwritten
<1>1. RingIInv => SkippedWereOverwritten
  BY DEF RingIInv
<1>2. QED
  BY <1>1, RingInvariance, PTL

\* Every step of net_loopback.c is a step of OrderedChannel.
LEMMA RingStepRefines ==
  ASSUME RingIInv, [RingNext]_ringVars
  PROVE  [RingChannel!Next]_RingChannel!vars
<1> USE DEF RingChannel!vars
<1>1. CASE \E m \in Datagram : NET_SendLoopPacket(m)
  BY <1>1 DEF NET_SendLoopPacket, RingChannel!Next, RingChannel!Send
<1>2. CASE NET_GetLoopPacket
  <2> DEFINE q == Oldest(get, send) + 1
  <2>1. /\ Oldest(get, send) \in Nat /\ Oldest(get, send) >= get
        /\ Oldest(get, send) < send
        /\ msgs[Slot(Oldest(get, send))] = put[q]
    BY <1>2, OldestHeld DEF RingIInv, NET_GetLoopPacket
  <2>2. get \in Nat /\ Len(put) = send /\ send \in Nat
    BY MaxSentAssumption DEF RingIInv, RingTypeOK, CountersAgree
  <2>3. q \in 1 .. Len(put) /\ q > RingChannel!LastDelivered
    BY <2>1, <2>2 DEF RingIInv, UpToGet
  <2>4. taken' = Append(taken, [seq |-> q, data |-> put[q]]) /\ put' = put
    BY <1>2, <2>1 DEF NET_GetLoopPacket
  <2>5. RingChannel!Deliver(q)
    BY <2>3, <2>4 DEF RingChannel!Deliver
  <2>6. QED
    BY <2>3, <2>5 DEF RingChannel!Next
<1>3. CASE UNCHANGED ringVars
  BY <1>3 DEF ringVars
<1>4. QED
  BY <1>1, <1>2, <1>3 DEF RingNext

\* The loopback is an OrderedChannel, as the UDP netchan is: the code above
\* both may rely on nothing less.
THEOREM LoopbackIsOrderedChannel == RingSpec => RingImplementsOrderedChannel
<1>1. RingInit => RingChannel!Init
  BY DEF RingInit, RingChannel!Init
<1>2. RingIInv /\ [RingNext]_ringVars => [RingChannel!Next]_RingChannel!vars
  BY RingStepRefines
<1>3. QED
  BY <1>1, <1>2, RingInvariance, PTL DEF RingSpec, RingImplementsOrderedChannel, RingChannel!Spec

-----------------------------------------------------------------------------
(* Downloads *)

HIDE SizeAssumption
HIDE MessageAssumption
HIDE BoundAssumption
USE DownloadAssumption

\* The network keeps what it is given and delivers it before a timer runs out.
Orderly == ~Lossy /\ Prompt

\* The connections that the theorems are about: those that the code answers
\* for.  In band, the client must be able to write the paks; and since no block
\* names its pak, nothing may be repeated unless there is one pak.  A redirect
\* must not be repeated after the transfer it started.
Tame(s) ==
    IF s.redirects
      THEN s.prompt
      ELSE /\ s.lacks \subseteq Writable
           /\ (~s.lossy /\ s.prompt) \/ \A f, g \in s.lacks : f = g

DownloadRecord ==
    [kind : {"redirect", "block", "gamestate", "refused"},
     number : Int, data : Block \cup {Eof}]

\* Block n of a pak; the one after the last is empty.
BlockOf(f, n) == IF n < Blocks[f] THEN [file |-> f, number |-> n] ELSE Eof

\* Types, and what holds of every download.
PakTyped ==
    /\ session \in Session /\ Tame(session)
    /\ download \in ServerRecord
    /\ client \in ClientRecord /\ client.commands = <<>>
    /\ toServer \in Seq(ClientCommand)
    /\ toClient \in Seq(DownloadRecord)
    /\ present = TRUE
    /\ download.acknowledged <= download.buffered
    /\ download.buffered <= download.acknowledged + Window
    /\ SavedWhole
    /\ File \ client.loaded \subseteq session.lacks

\* The client has said which pak it wants next, or that it wants no more.
Wants(m) == m.command \in {"download", "donedl"}
WantsMore == \E i \in DOMAIN toServer : Wants(toServer[i])

\* The server is done with one pak and was not asked for another.
Idle == ~WantsMore /\ ~download.open /\ download.name = None

\* In band: the client writes the blocks of one pak, in order.
ClientCopies ==
    /\ ~client.wwwActive /\ ~client.wwwAborting
    /\ client.transfer = None /\ client.original = None
    /\ client.name = client.temp
    /\ client.temp \in session.lacks \cup {None}
    /\ client.list \in Seq(session.lacks)
    /\ client.temp = None =>
         client.copy = <<>> /\ ~client.open /\ ~client.restart
    /\ client.temp # None =>
         /\ client.block <= Blocks[client.temp]
         /\ client.copy = SubSeq(WholePak(client.temp), 1, client.block)
         /\ client.open <=> client.block > 0
         /\ client.restart
    /\ ~Orderly /\ client.temp = None => client.loaded = File
    /\ ~Orderly /\ client.temp # None => client.list = <<>>
    /\ client.state = "refused" => Idle

\* In band: the server's counters and its window.
ServerServes ==
    /\ ~download.redirectAcknowledged
    /\ download.open =>
         /\ download.name \in session.lacks
         /\ download.read <= Blocks[download.name]
         /\ download.buffered = download.read + IF download.eof THEN 1 ELSE 0
         /\ download.eof => download.read = Blocks[download.name]
         /\ download.transmit <= download.buffered
         /\ download.acknowledged <= Blocks[download.name]
    /\ WindowHeld

\* The client answered the blocks below this one, of the pak that is served.
High == IF WantsMore THEN Blocks[download.name] + 1 ELSE client.block

Answers(n) ==
    \E i \in DOMAIN toServer :
       toServer[i].command = "nextdl" /\ toServer[i].block = n

CommandFits(i, m) ==
    /\ m.command \in {"download", "nextdl", "retransdl", "donedl"}
    /\ m.command = "retransdl" => ~Orderly
    /\ Wants(m) => i = Len(toServer)
    /\ m.command = "download" =>
         m.file # None /\ m.file = client.temp /\ client.block = 0
    /\ m.command = "donedl" => client.temp = None
    /\ m.command = "nextdl" =>
         download.open /\ m.block >= download.acknowledged /\ m.block < High

\* In band: the commands under way answer each block once, in order, and
\* then ask for more.
CommandsFit ==
    /\ \A i \in DOMAIN toServer : CommandFits(i, toServer[i])
    /\ \A i, j \in DOMAIN toServer :
          i < j /\ toServer[i].command = "nextdl" /\ toServer[j].command = "nextdl"
            => toServer[i].block < toServer[j].block
    /\ download.open =>
          \A n \in Nat : download.acknowledged <= n /\ n < High => Answers(n)

Due(n, data) ==
    /\ ~WantsMore /\ download.open /\ client.temp # None
    /\ n < download.buffered
    /\ data = BlockOf(client.temp, n)

RecordFits(r) ==
    /\ r.kind # "redirect"
    /\ r.kind = "block" =>
         \E n \in Nat : /\ r.number = AsShort(n)
                        /\ n >= client.block => Due(n, r.data)
    /\ r.kind = "gamestate" => Idle /\ client.temp = None
    /\ r.kind = "refused" => Idle /\ client.temp # None /\ client.block = 0

\* In band: a block under way is one that the client has, or it is of the pak
\* that the client copies.
RecordsFit == \A i \in DOMAIN toClient : RecordFits(toClient[i])

\* In band: how far the server and the client are apart.
Finishing ==
    /\ download.buffered = Blocks[download.name] + 1
    /\ Orderly => download.transmit = download.buffered /\ toClient = <<>>
    /\ ~Orderly => client.temp = None /\ client.block = Blocks[download.name] + 1

Asking ==
    /\ download.name = None
    /\ Orderly => toClient = <<>>
    /\ client.temp # None => toClient = <<>>

Copying ==
    /\ client.temp = download.name
    /\ download.acknowledged <= client.block
    /\ client.block <= download.buffered
    /\ Orderly /\ client.block < ShortLimit =>
         /\ Len(toClient) = download.transmit - client.block
         /\ \A i \in DOMAIN toClient :
               toClient[i] = BlockRecord(client.block + i - 1,
                                BlockOf(client.temp, client.block + i - 1))

Beginning ==
    /\ client.temp = download.name /\ client.block = 0
    /\ toClient = <<>> /\ toServer = <<>>

Resting ==
    /\ client.temp # None => client.block = 0
    /\ \A i \in DOMAIN toClient :
          toClient[i].kind = "block" => ~Orderly /\ client.temp = None
    /\ Orderly /\ client.temp = None => Len(toClient) <= 1

Phases ==
    /\ WantsMore /\ download.open => Finishing
    /\ WantsMore /\ ~download.open => Asking
    /\ ~WantsMore /\ download.open => Copying
    /\ ~WantsMore /\ ~download.open /\ download.name # None => Beginning
    /\ Idle => Resting

InBand ==
    /\ ClientCopies
    /\ ServerServes
    /\ CommandsFit
    /\ RecordsFit
    /\ Phases

CommandName == {"download", "nextdl", "retransdl", "stopdl", "donedl",
                "wwwdl_ack", "wwwdl_done", "wwwdl_fail"}

LEMMA CommandFields ==
  ASSUME NEW s \in CommandName
  PROVE  /\ Command(s) \in ClientCommand
         /\ Command(s).command = s /\ Command(s).block = 0 /\ Command(s).file = None
BY DEF Command, ClientCommand, CommandName

LEMMA BlockCommandFields ==
  ASSUME NEW s \in CommandName, NEW n \in Nat
  PROVE  /\ BlockCommand(s, n) \in ClientCommand
         /\ BlockCommand(s, n).command = s /\ BlockCommand(s, n).block = n
<1>1. PICK m : m = Command(s)
  OBVIOUS
<1>2. m \in ClientCommand /\ m.command = s
  BY <1>1, CommandFields
<1>3. BlockCommand(s, n) = [m EXCEPT !.block = n]
  BY <1>1 DEF BlockCommand
<1>4. QED
  BY <1>2, <1>3 DEF ClientCommand, CommandName

LEMMA FileCommandFields ==
  ASSUME NEW s \in CommandName, NEW f \in File
  PROVE  /\ FileCommand(s, f) \in ClientCommand
         /\ FileCommand(s, f).command = s /\ FileCommand(s, f).file = f
<1>1. PICK m : m = Command(s)
  OBVIOUS
<1>2. m \in ClientCommand /\ m.command = s
  BY <1>1, CommandFields
<1>3. FileCommand(s, f) = [m EXCEPT !.file = f]
  BY <1>1 DEF FileCommand
<1>4. QED
  BY <1>2, <1>3 DEF ClientCommand, CommandName

LEMMA SaySomething ==
  ASSUME NEW c \in ClientRecord, NEW m \in ClientCommand
  PROVE  /\ Say(c, m) = [c EXCEPT !.commands = Append(c.commands, m)]
         /\ Say(c, m) \in ClientRecord
<1>1. c.commands \in Seq(ClientCommand)
  BY DEF ClientRecord
<1>2. Append(c.commands, m) \in Seq(ClientCommand)
  BY <1>1, AppendProperties
<1>3. Say(c, m) = [c EXCEPT !.commands = Append(c.commands, m)]
  BY DEF Say
<1>4. QED
  BY <1>2, <1>3 DEF ClientRecord

LEMMA NextDownloadMore ==
  ASSUME NEW c \in ClientRecord, c.list # <<>>
  PROVE  LET f == Head(c.list) IN
         /\ f \in File /\ NextDownload(c) \in ClientRecord
         /\ NextDownload(c) =
              [c EXCEPT !.name = f, !.temp = f, !.block = 0,
                        !.commands = Append(c.commands, FileCommand("download", f)),
                        !.restart = TRUE, !.list = Tail(c.list)]
<1>1. Head(c.list) \in File /\ Tail(c.list) \in Seq(File)
  BY DEF ClientRecord
<1>2. FileCommand("download", Head(c.list)) \in ClientCommand
  <2>1. "download" \in CommandName
    BY DEF CommandName
  <2>2. QED
    BY <1>1, <2>1, FileCommandFields
<1>3. Append(c.commands, FileCommand("download", Head(c.list))) \in Seq(ClientCommand)
  BY <1>2, AppendProperties DEF ClientRecord
<1>4. NextDownload(c) \in ClientRecord
  BY <1>1, <1>3 DEF NextDownload, BeginDownload, Say, ClientRecord
<1>5. NextDownload(c) =
              [c EXCEPT !.name = Head(c.list), !.temp = Head(c.list), !.block = 0,
                        !.commands = Append(c.commands, FileCommand("download", Head(c.list))),
                        !.restart = TRUE, !.list = Tail(c.list)]
  BY DEF NextDownload, BeginDownload, Say, ClientRecord
<1>6. QED
  BY <1>1, <1>4, <1>5

LEMMA NextDownloadNoMore ==
  ASSUME NEW c \in ClientRecord, c.list = <<>>, c.restart
  PROVE  /\ NextDownload(c) \in ClientRecord
         /\ NextDownload(c) =
              [c EXCEPT !.loaded = c.loaded \cup {f \in File : c.disk[f] = WholePak(f)},
                        !.commands = Append(c.commands, Command("donedl")),
                        !.restart = FALSE, !.temp = None, !.name = None,
                        !.original = None]
<1>1. PICK l : l = c.loaded \cup {f \in File : c.disk[f] = WholePak(f)}
  OBVIOUS
<1>2. PICK m : m = Append(c.commands, Command("donedl"))
  OBVIOUS
<1>3. m \in Seq(ClientCommand)
  <2>1. "donedl" \in CommandName
    BY DEF CommandName
  <2>2. Command("donedl") \in ClientCommand /\ c.commands \in Seq(ClientCommand)
    BY <2>1, CommandFields DEF ClientRecord
  <2>3. QED
    BY <1>2, <2>2, AppendProperties
<1>4. l \in SUBSET File
  BY <1>1 DEF ClientRecord
<1>5. NextDownload(c) =
        [c EXCEPT !.loaded = l, !.commands = m, !.restart = FALSE,
                  !.temp = None, !.name = None, !.original = None]
  BY <1>1, <1>2
     DEF NextDownload, DownloadsComplete, ClearStaticDownload, Say, ClientRecord
<1>6. [c EXCEPT !.loaded = l, !.commands = m, !.restart = FALSE,
                !.temp = None, !.name = None, !.original = None] \in ClientRecord
  BY <1>3, <1>4 DEF ClientRecord
<1>7. QED
  BY <1>1, <1>2, <1>5, <1>6

LEMMA OrderOfNone ==
  SetToSeq({}) = <<>>
<1>1. Cardinality({}) = 0
  BY FS_EmptySet
<1>2. <<>> \in [1 .. 0 -> {}] /\ IsInjective(<<>>)
  BY DEF IsInjective
<1>3. SetToSeq({}) \in [1 .. 0 -> {}]
  BY <1>1, <1>2 DEF SetToSeq
<1>4. SetToSeq({}) \in Seq({}) /\ Len(SetToSeq({})) = 0
  BY <1>3, SeqDef
<1>5. QED
  BY <1>4, EmptySeq

LEMMA OrderOfSome ==
  ASSUME NEW S \in SUBSET File
  PROVE  /\ SetToSeq(S) \in Seq(S) /\ Len(SetToSeq(S)) = Cardinality(S)
         /\ Cardinality(S) \in Nat
         /\ SetToSeq(S) = <<>> <=> S = {}
<1>1. IsFiniteSet(S) /\ Cardinality(S) \in Nat
  BY FS_Subset, FS_CardinalityType
<1>2. PICK g \in [1 .. Cardinality(S) -> S] : IsInjective(g)
  <2>1. ExistsBijection(1 .. Cardinality(S), S)
    BY ONLY <1>1, FS_CardinalityType
  <2>2. PICK h : h \in Bijection(1 .. Cardinality(S), S)
    BY ONLY <2>1 DEF ExistsBijection
  <2>3. QED
    BY ONLY <2>2 DEF Bijection, Injection, IsInjective
<1>3. SetToSeq(S) \in [1 .. Cardinality(S) -> S]
  BY <1>2 DEF SetToSeq
<1>4. SetToSeq(S) \in Seq(S) /\ Len(SetToSeq(S)) = Cardinality(S)
  <2>1. PICK s : s = SetToSeq(S)
    OBVIOUS
  <2>2. PICK n : n = Cardinality(S)
    OBVIOUS
  <2>3. s \in [1 .. n -> S] /\ n \in Nat
    BY ONLY <1>1, <1>3, <2>1, <2>2
  <2>4. s \in Seq(S)
    BY ONLY <2>3, SeqDef
  <2>5. Len(s) = n
    BY ONLY <2>3, <2>4, LenProperties
  <2>6. QED
    BY ONLY <2>1, <2>2, <2>4, <2>5
<1>5. Cardinality(S) = 0 <=> S = {}
  BY <1>1, FS_EmptySet
<1>6. QED
  BY <1>1, <1>4, <1>5, EmptySeq

LEMMA InitDownloadsDone ==
  ASSUME NEW c \in ClientRecord, File \ c.loaded = {}
  PROVE  /\ InitDownloads(c) \in ClientRecord
         /\ InitDownloads(c) =
              [c EXCEPT !.wwwActive = FALSE, !.wwwAborting = FALSE,
                        !.restart = FALSE, !.temp = None, !.name = None,
                        !.original = None, !.state = "loading"]
<1>1. SetToSeq(File \ c.loaded) = <<>>
  BY OrderOfNone
<1>2. InitDownloads(c) =
        [c EXCEPT !.wwwActive = FALSE, !.wwwAborting = FALSE,
                  !.restart = FALSE, !.temp = None, !.name = None,
                  !.original = None, !.state = "loading"]
  <2> DEFINE fresh == ClearStaticDownload(
                        [c EXCEPT !.wwwActive = FALSE, !.wwwAborting = FALSE])
  <2>1. InitDownloads(c) = DownloadsComplete(fresh)
    BY <1>1 DEF InitDownloads
  <2>2. ~fresh.restart
    BY DEF ClearStaticDownload, ClientRecord
  <2>3. DownloadsComplete(fresh) = [fresh EXCEPT !.state = "loading"]
    <3> HIDE DEF fresh
    <3>1. QED
      BY <2>2 DEF DownloadsComplete
  <2>4. QED
    BY <2>1, <2>3 DEF ClearStaticDownload
<1>3. QED
  <2>1. c \in ClientRecord
    OBVIOUS
  <2>2. [c EXCEPT !.wwwActive = FALSE, !.wwwAborting = FALSE,
                  !.restart = FALSE, !.temp = None, !.name = None,
                  !.original = None, !.state = "loading"] \in ClientRecord
    BY ONLY <2>1 DEF ClientRecord
  <2>3. QED
    BY ONLY <1>2, <2>2

LEMMA InitDownloadsMore ==
  ASSUME NEW c \in ClientRecord, File \ c.loaded # {}
  PROVE  LET missing == SetToSeq(File \ c.loaded)
             f == Head(missing)
         IN  /\ missing \in Seq(File \ c.loaded) /\ missing # <<>>
             /\ Len(missing) = Cardinality(File \ c.loaded)
             /\ f \in File \ c.loaded
             /\ InitDownloads(c) \in ClientRecord
             /\ InitDownloads(c) =
                  [c EXCEPT !.wwwActive = FALSE, !.wwwAborting = FALSE,
                            !.original = None, !.state = "connected",
                            !.name = f, !.temp = f, !.block = 0,
                            !.commands = Append(c.commands, FileCommand("download", f)),
                            !.restart = TRUE, !.list = Tail(missing)]
<1> DEFINE missing == SetToSeq(File \ c.loaded)
           fresh == [c EXCEPT !.wwwActive = FALSE, !.wwwAborting = FALSE,
                              !.restart = FALSE, !.temp = None, !.name = None,
                              !.original = None, !.state = "connected",
                              !.list = missing]
<1>1. /\ missing \in Seq(File \ c.loaded) /\ missing # <<>>
      /\ Len(missing) = Cardinality(File \ c.loaded)
  <2>1. File \ c.loaded \in SUBSET File
    OBVIOUS
  <2>2. QED
    BY <2>1, OrderOfSome
<1>2. Head(missing) \in File \ c.loaded
  <2> HIDE DEF missing
  <2>1. QED
    BY <1>1
<1>3. missing \in Seq(File)
  <2>1. File \ c.loaded \subseteq File
    OBVIOUS
  <2> HIDE DEF missing
  <2>2. QED
    BY <1>1, <2>1, SeqMonotonic
<1>4. InitDownloads(c) = NextDownload(fresh)
  BY <1>1 DEF InitDownloads, ClearStaticDownload
<1> HIDE DEF missing
<1>5. fresh \in ClientRecord
  BY <1>3 DEF ClientRecord
<1>6. fresh.list = missing /\ fresh.commands = c.commands
  BY DEF ClientRecord
<1>7. LET f == Head(missing) IN
      /\ NextDownload(fresh) \in ClientRecord
      /\ NextDownload(fresh) =
            [fresh EXCEPT !.name = f, !.temp = f, !.block = 0,
                      !.commands = Append(c.commands, FileCommand("download", f)),
                      !.restart = TRUE, !.list = Tail(missing)]
  <2> HIDE DEF fresh
  <2>1. fresh.list # <<>>
    BY <1>1, <1>6
  <2>2. QED
    BY <1>5, <1>6, <2>1, NextDownloadMore
<1>8. LET f == Head(missing) IN
        [fresh EXCEPT !.name = f, !.temp = f, !.block = 0,
                      !.commands = Append(c.commands, FileCommand("download", f)),
                      !.restart = TRUE, !.list = Tail(missing)]
      = [c EXCEPT !.wwwActive = FALSE, !.wwwAborting = FALSE,
                            !.original = None, !.state = "connected",
                            !.name = f, !.temp = f, !.block = 0,
                            !.commands = Append(c.commands, FileCommand("download", f)),
                            !.restart = TRUE, !.list = Tail(missing)]
  <2>1. PICK f : f = Head(missing)
    OBVIOUS
  <2>2. PICK k : k = Append(c.commands, FileCommand("download", Head(missing)))
    OBVIOUS
  <2>3. PICK t : t = Tail(missing)
    OBVIOUS
  <2>4. c \in ClientRecord
    OBVIOUS
  <2>5. [fresh EXCEPT !.name = f, !.temp = f, !.block = 0, !.commands = k,
                      !.restart = TRUE, !.list = t]
        = [c EXCEPT !.wwwActive = FALSE, !.wwwAborting = FALSE,
                    !.original = None, !.state = "connected",
                    !.name = f, !.temp = f, !.block = 0, !.commands = k,
                    !.restart = TRUE, !.list = t]
    BY ONLY <2>4 DEF ClientRecord
  <2>6. QED
    BY ONLY <2>1, <2>2, <2>3, <2>5
<1>9. QED
  BY <1>1, <1>2, <1>4, <1>7, <1>8 DEF missing

\* Block numbers are known by their low 16 bits.
LEMMA ShortBelow ==
  ASSUME NEW n \in Nat
  PROVE  AsShort(n) \in Int /\ AsShort(n) <= n /\ AsShort(n) < ShortLimit
<1>1. ShortLimit \in Nat \ {0} /\ 2 * ShortLimit \in Nat \ {0} /\ n + ShortLimit \in Nat
  OBVIOUS
<1>2. ASSUME NEW r \in Nat \ {0}, NEW m \in Nat
      PROVE  m % r \in Nat /\ m % r <= m /\ m % r < r
  BY <1>2
<1>3. LET t == (n + ShortLimit) % (2 * ShortLimit) IN
      t \in Nat /\ t <= n + ShortLimit /\ t < 2 * ShortLimit
  BY ONLY <1>1, <1>2
<1>4. QED
  BY <1>1, <1>3 DEF AsShort

LEMMA ShortExact ==
  ASSUME NEW n \in Nat, NEW b \in Nat, AsShort(n) = b, n < b + 2 * ShortLimit
  PROVE  n = b
<1> DEFINE R == 2 * ShortLimit
           x == b + ShortLimit
           y == n + ShortLimit
<1>1. ShortLimit \in Nat \ {0} /\ R \in Nat \ {0} /\ x \in Nat /\ y \in Nat
  OBVIOUS
<1>2. b <= n /\ b < ShortLimit
  BY ShortBelow
<1>3. y % R = x
  <2>1. y % R \in Int /\ (y % R) - ShortLimit = b
    BY <1>1 DEF AsShort
  <2>2. QED
    BY <1>1, <2>1
<1>4. x % R = x
  <2>1. (0 * R + x) % R = x
    <3>1. x \in 0 .. R - 1 /\ 0 \in Int
      BY <1>1, <1>2
    <3> HIDE DEF R, x
    <3>2. QED
      BY <1>1, <3>1, Remainder
  <2>2. 0 * R + x = x
    BY <1>1
  <2>3. QED
    BY <2>1, <2>2
<1>5. CASE b < n
  <2>1. x < y /\ y - x < R
    BY <1>1, <1>5
  <2> HIDE DEF R, x, y
  <2>2. x % R # y % R
    BY <1>1, <2>1, SlotsDiffer
  <2>3. QED
    BY <1>3, <1>4, <2>2
<1>6. QED
  BY <1>2, <1>5

LEMMA BlockOfProperties ==
  ASSUME NEW f \in File, NEW n \in Nat
  PROVE  /\ Blocks[f] \in Nat \ {0}
         /\ BlockOf(f, n) \in Block \cup {Eof}
         /\ BlockOf(f, n) = Eof <=> n >= Blocks[f]
         /\ n < Blocks[f] => BlockOf(f, n) = WholePak(f)[n + 1]
<1>1. Blocks[f] \in Nat \ {0} /\ f # None
  OBVIOUS
<1>2. [file |-> f, number |-> n] \in Block
  BY DEF Block
<1>3. [file |-> f, number |-> n] # Eof
  <2>1. [file |-> f, number |-> n].file = f /\ Eof.file = None
    BY DEF Eof
  <2>2. QED
    BY <1>1, <2>1
<1>4. n < Blocks[f] => [file |-> f, number |-> n] = WholePak(f)[n + 1]
  <2> SUFFICES ASSUME n < Blocks[f]
               PROVE  [file |-> f, number |-> n] = WholePak(f)[n + 1]
    OBVIOUS
  <2>1. n + 1 \in 1 .. Blocks[f] /\ (n + 1) - 1 = n
    BY <1>1
  <2>2. QED
    BY <2>1 DEF WholePak
<1>5. QED
  BY <1>1, <1>2, <1>3, <1>4 DEF BlockOf

LEMMA WholePakProperties ==
  ASSUME NEW f \in File
  PROVE  /\ WholePak(f) \in Seq(Block) /\ WholePak(f) \in Seq(Block \cup {Eof})
         /\ Len(WholePak(f)) = Blocks[f]
<1>1. Blocks[f] \in Nat \ {0}
  OBVIOUS
<1>2. \A n \in 1 .. Blocks[f] : [file |-> f, number |-> n - 1] \in Block
  <2> SUFFICES ASSUME NEW n \in 1 .. Blocks[f]
               PROVE  [file |-> f, number |-> n - 1] \in Block
    OBVIOUS
  <2>1. n - 1 \in Nat
    BY <1>1
  <2>2. QED
    BY <2>1 DEF Block
<1>3. WholePak(f) \in [1 .. Blocks[f] -> Block]
  BY <1>2 DEF WholePak
<1>4. WholePak(f) \in Seq(Block) /\ Len(WholePak(f)) = Blocks[f]
  BY <1>1, <1>3, SeqDef
<1>5. WholePak(f) \in Seq(Block \cup {Eof})
  BY <1>4, SeqMonotonic
<1>6. QED
  BY <1>4, <1>5

\* One block more of a pak.
LEMMA NextBlock ==
  ASSUME NEW f \in File, NEW n \in Nat, n < Blocks[f]
  PROVE  Append(SubSeq(WholePak(f), 1, n), BlockOf(f, n)) =
            SubSeq(WholePak(f), 1, n + 1)
<1>1. /\ WholePak(f) \in Seq(Block) /\ Len(WholePak(f)) = Blocks[f]
      /\ Blocks[f] \in Nat /\ BlockOf(f, n) = WholePak(f)[n + 1]
  BY WholePakProperties, BlockOfProperties
<1> DEFINE w == WholePak(f)
           p == SubSeq(w, 1, n)
           q == SubSeq(w, 1, n + 1)
<1>2. \A i \in 1 .. n + 1 : w[i] \in Block
  <2>1. \A i \in 1 .. n + 1 : i \in 1 .. Len(w)
    BY <1>1
  <2> HIDE DEF w
  <2>2. QED
    BY <1>1, <2>1, ElementOfSeq DEF w
<1> HIDE DEF w
<1>3. /\ p \in Seq(Block) /\ Len(p) = n
      /\ \A i \in 1 .. n : p[i] = w[i]
  <2>1. \A i \in 1 .. n : w[i] \in Block
    BY <1>2
  <2>2. /\ p \in Seq(Block) /\ Len(p) = IF 1 <= n THEN n - 1 + 1 ELSE 0
        /\ \A i \in 1 .. n - 1 + 1 : p[i] = w[1 + i - 1]
    BY <2>1, SubSeqProperties
  <2>3. \A i \in 1 .. n : 1 + i - 1 = i
    OBVIOUS
  <2>4. n - 1 + 1 = n
    OBVIOUS
  <2> HIDE DEF p
  <2>5. QED
    BY <2>2, <2>3, <2>4
<1>4. /\ q \in Seq(Block) /\ Len(q) = n + 1
      /\ \A i \in 1 .. n + 1 : q[i] = w[i]
  <2>2. /\ q \in Seq(Block) /\ Len(q) = IF 1 <= n + 1 THEN (n + 1) - 1 + 1 ELSE 0
        /\ \A i \in 1 .. (n + 1) - 1 + 1 : q[i] = w[1 + i - 1]
    BY <1>2, SubSeqProperties
  <2>3. \A i \in 1 .. n + 1 : 1 + i - 1 = i
    OBVIOUS
  <2>4. (n + 1) - 1 + 1 = n + 1
    OBVIOUS
  <2> HIDE DEF q
  <2>5. QED
    BY <2>2, <2>3, <2>4
<1>5. n + 1 \in 1 .. n + 1 /\ w[n + 1] \in Block
  BY <1>2
<1> DEFINE a == Append(p, w[n + 1])
<1>6. a \in Seq(Block) /\ Len(a) = n + 1
      /\ (\A i \in 1 .. n : a[i] = p[i]) /\ a[n + 1] = w[n + 1]
  <2> HIDE DEF p
  <2>1. QED
    BY <1>3, <1>5, AppendProperties
<1>7. \A i \in 1 .. n + 1 : a[i] = q[i]
  <2> HIDE DEF a, p, q
  <2>1. \A i \in 1 .. n + 1 : i \in 1 .. n \/ i = n + 1
    OBVIOUS
  <2>2. QED
    BY <1>3, <1>4, <1>6, <2>1
<1>8. a = q
  <2> HIDE DEF a, p, q
  <2>1. QED
    BY <1>4, <1>6, <1>7, SeqEqual
<1>9. QED
  BY <1>1, <1>8 DEF w

LEMMA NoBlocks ==
  ASSUME NEW f \in File
  PROVE  SubSeq(WholePak(f), 1, 0) = <<>> /\ SubSeq(WholePak(f), 1, Blocks[f]) = WholePak(f)
<1>1. WholePak(f) \in Seq(Block) /\ Len(WholePak(f)) = Blocks[f]
  BY WholePakProperties
<1>2. QED
  BY <1>1, SubSeqEmpty, SubSeqFull

LEMMA RestOf ==
  ASSUME NEW S, NEW s \in Seq(S), NEW k \in 1 .. Len(s),
         NEW t, t = SubSeq(s, k + 1, Len(s))
  PROVE  /\ t \in Seq(S) /\ Len(s) - k \in Nat /\ Len(t) = Len(s) - k
         /\ \A j \in DOMAIN t : j + k \in DOMAIN s /\ t[j] = s[j + k]
<1>1. IsSequence(s) /\ k \in 1 .. Len(s)
  BY AnySequence
<1>2. /\ Len(s) - k \in Nat /\ Len(After(s, k)) = Len(s) - k
      /\ \A j \in 1 .. Len(s) - k : After(s, k)[j] = s[k + j]
  BY <1>1, AfterProperties
<1>3. After(s, k) \in Seq(S)
  <2>1. Len(s) \in Nat
    BY LenProperties
  <2>2. \A j \in k + 1 .. Len(s) : j \in 1 .. Len(s)
    BY <2>1
  <2>3. \A j \in k + 1 .. Len(s) : s[j] \in S
    BY <2>2, ElementOfSeq
  <2>4. k + 1 \in Int /\ Len(s) \in Int
    BY <2>1
  <2>5. QED
    BY <2>3, <2>4, SubSeqProperties DEF After
<1>4. DOMAIN After(s, k) = 1 .. Len(s) - k /\ DOMAIN s = 1 .. Len(s)
  BY <1>2, <1>3, LenProperties
<1>5. \A j \in 1 .. Len(s) - k : j + k = k + j /\ j + k \in 1 .. Len(s)
  BY <1>2, LenProperties
<1>6. QED
  BY <1>2, <1>3, <1>4, <1>5 DEF After

LEMMA TailOf ==
  ASSUME NEW S, NEW s \in Seq(S), s # <<>>
  PROVE  /\ Tail(s) \in Seq(S) /\ Len(s) \in Nat \ {0} /\ Len(Tail(s)) = Len(s) - 1
         /\ Head(s) = s[1] /\ 1 \in DOMAIN s /\ s[1] \in S
         /\ \A j \in DOMAIN Tail(s) : j \in Nat \ {0} /\ j + 1 \in DOMAIN s /\ Tail(s)[j] = s[j + 1]
         /\ \A j \in DOMAIN s : j # 1 => j - 1 \in DOMAIN Tail(s) /\ Tail(s)[j - 1] = s[j]
<1>1. Len(s) \in Nat \ {0} /\ DOMAIN s = 1 .. Len(s)
  BY EmptySeq, LenProperties
<1>2. /\ Tail(s) \in Seq(S) /\ Len(Tail(s)) = Len(s) - 1 /\ Head(s) = s[1]
      /\ \A j \in 1 .. Len(Tail(s)) : Tail(s)[j] = s[j + 1]
  BY HeadTailProperties
<1>3. DOMAIN Tail(s) = 1 .. Len(s) - 1
  BY <1>2, LenProperties
<1>4. \A j \in DOMAIN Tail(s) : j \in Nat \ {0} /\ j + 1 \in DOMAIN s /\ Tail(s)[j] = s[j + 1]
  BY <1>1, <1>2, <1>3
<1>5. \A j \in DOMAIN s : j # 1 => j - 1 \in DOMAIN Tail(s) /\ (j - 1) + 1 = j
  BY <1>1, <1>3
<1>6. 1 \in DOMAIN s
  BY <1>1
<1>7. s[1] \in S
  BY <1>6, LenProperties, ElementOfSeq
<1>8. QED
  BY <1>1, <1>2, <1>4, <1>5, <1>6, <1>7

LEMMA WithOne ==
  ASSUME NEW S, NEW s \in Seq(S), NEW m \in S
  PROVE  /\ s \o <<m>> \in Seq(S) /\ Len(s) \in Nat /\ Len(s \o <<m>>) = Len(s) + 1
         /\ \A j \in DOMAIN s : j \in DOMAIN (s \o <<m>>) /\ (s \o <<m>>)[j] = s[j]
         /\ (s \o <<m>>)[Len(s) + 1] = m /\ Len(s) + 1 \in DOMAIN (s \o <<m>>)
         /\ \A j \in DOMAIN (s \o <<m>>) : j \in DOMAIN s \/ j = Len(s) + 1
<1>1. s \o <<m>> = Append(s, m)
  BY AppendIsConcat
<1>2. /\ Append(s, m) \in Seq(S) /\ Len(s) \in Nat /\ Len(Append(s, m)) = Len(s) + 1
      /\ \A j \in 1 .. Len(s) : Append(s, m)[j] = s[j]
      /\ Append(s, m)[Len(s) + 1] = m
  BY AppendProperties, LenProperties
<1>3. DOMAIN Append(s, m) = 1 .. Len(s) + 1 /\ DOMAIN s = 1 .. Len(s)
  BY <1>2, LenProperties
<1>4. QED
  BY <1>1, <1>2, <1>3

\* What is unacknowledged is in the window.
Holds(d) ==
    \A n \in Nat : d.acknowledged <= n /\ n < d.buffered =>
                      d.slots[n % Window] = BlockOf(d.name, n)

Counted(d) ==
    /\ d.name \in File
    /\ d.acknowledged <= d.buffered /\ d.buffered <= d.acknowledged + Window
    /\ d.acknowledged <= Blocks[d.name]
    /\ d.read <= Blocks[d.name]
    /\ d.buffered = d.read + IF d.eof THEN 1 ELSE 0
    /\ d.eof => d.read = Blocks[d.name]

\* SV_WriteDownloadToClient, reading: the blocks enter the window under their
\* numbers, and none that is unacknowledged leaves it.
LEMMA FillProperties ==
  ASSUME NEW d \in ServerRecord, Counted(d), Holds(d)
  PROVE  /\ Fill(d) \in ServerRecord /\ Counted(Fill(d)) /\ Holds(Fill(d))
         /\ Fill(d).name = d.name /\ Fill(d).open = d.open
         /\ Fill(d).transmit = d.transmit /\ Fill(d).acknowledged = d.acknowledged
         /\ Fill(d).redirectAcknowledged = d.redirectAcknowledged
         /\ Fill(d).buffered >= d.buffered
<1> DEFINE size == Blocks[d.name]
           room == Window - (d.buffered - d.acknowledged)
           count == Smaller(room, size - d.read)
           ends == d.read + count = size /\ ~d.eof /\ count < room
           slot(read, buffered) == [s \in Slots |->
             IF \E n \in d.buffered .. buffered - 1 : n % Window = s
               THEN LET n == CHOOSE n \in d.buffered .. buffered - 1 :
                                n % Window = s
                    IN  IF n < read THEN [file |-> d.name, number |-> n] ELSE Eof
               ELSE d.slots[s]]
<1>1. PICK read : read = d.read + count
  OBVIOUS
<1>2. PICK buffered : buffered = d.buffered + count + (IF ends THEN 1 ELSE 0)
  OBVIOUS
<1>3. PICK slots : slots = slot(read, buffered)
  OBVIOUS
<1>4. PICK eof : eof = (d.eof \/ ends)
  OBVIOUS
<1>5. Fill(d) = [d EXCEPT !.read = read, !.buffered = buffered, !.eof = eof,
                          !.slots = slots]
  BY <1>1, <1>2, <1>3, <1>4 DEF Fill
<1>6. /\ d.name \in File /\ d.read \in Nat /\ d.buffered \in Nat /\ d.acknowledged \in Nat
      /\ d.eof \in BOOLEAN /\ d.slots \in [Slots -> Block \cup {Eof}]
  BY DEF ServerRecord, Counted
<1>7. size \in Nat /\ Window \in Nat \ {0}
  BY <1>6
<1>8. /\ room \in Nat /\ count \in Nat /\ count <= room /\ d.read + count <= size
      /\ count < room => d.read + count = size
      /\ d.eof => count = 0
  BY <1>6, <1>7 DEF Counted, Smaller
<1>9. ends \in BOOLEAN /\ eof \in BOOLEAN
  BY <1>4, <1>6
<1>10. /\ read \in Nat /\ buffered \in Nat /\ buffered >= d.buffered /\ read <= size
       /\ buffered <= d.acknowledged + Window
  <2>1. read \in Nat /\ read <= size
    BY <1>1, <1>6, <1>7, <1>8
  <2>2. CASE ends
    BY <1>2, <1>6, <1>7, <1>8, <2>1, <2>2
  <2>3. CASE ~ends
    <3>1. buffered = d.buffered + count
      BY <1>2, <1>6, <1>8, <2>3
    <3> HIDE DEF count
    <3>2. QED
      BY <1>6, <1>7, <1>8, <2>1, <3>1
  <2>4. QED
    BY <2>2, <2>3
<1>11. /\ buffered = read + IF eof THEN 1 ELSE 0
       /\ eof => read = size
  <2>1. CASE d.eof
    <3>1. count = 0 /\ ~ends /\ eof /\ d.read = size /\ d.buffered = d.read + 1
      BY <1>4, <1>6, <1>8, <2>1 DEF Counted
    <3>2. QED
      BY <1>1, <1>2, <1>6, <3>1
  <2>2. CASE ~d.eof
    <3>1. d.buffered = d.read
      BY <1>6, <2>2 DEF Counted
    <3>2. CASE ends
      BY <1>1, <1>2, <1>4, <1>6, <1>8, <3>1, <3>2
    <3>3. CASE ~ends
      <4>1. buffered = d.buffered + count /\ ~eof
        BY <1>2, <1>4, <1>6, <1>8, <2>2, <3>3
      <4> HIDE DEF count
      <4>2. QED
        BY <1>1, <1>6, <1>8, <3>1, <4>1
    <3>4. QED
      BY <3>2, <3>3
  <2>3. QED
    BY <2>1, <2>2
<1> HIDE DEF size, room, count, ends
<1>12. ASSUME NEW s \in Slots PROVE slots[s] \in Block \cup {Eof}
  <2>1. CASE \E n \in d.buffered .. buffered - 1 : n % Window = s
    <3>1. PICK n : n = CHOOSE m \in d.buffered .. buffered - 1 : m % Window = s
      OBVIOUS
    <3>2. n \in d.buffered .. buffered - 1
      BY <2>1, <3>1
    <3>3. n \in Nat
      BY <1>6, <1>10, <3>2
    <3>4. [file |-> d.name, number |-> n] \in Block
      BY <1>6, <3>3 DEF Block
    <3>5. slots[s] = IF n < read THEN [file |-> d.name, number |-> n] ELSE Eof
      BY <1>3, <2>1, <3>1
    <3>6. QED
      BY <3>4, <3>5
  <2>2. CASE ~\E n \in d.buffered .. buffered - 1 : n % Window = s
    <3>1. slots[s] = d.slots[s]
      BY <1>3, <2>2
    <3>2. QED
      BY <1>6, <3>1
  <2>3. QED
    BY <2>1, <2>2
<1>13. slots \in [Slots -> Block \cup {Eof}]
  <2>1. slots = [s \in Slots |-> slots[s]]
    BY <1>3
  <2>2. QED
    BY <1>12, <2>1
<1>14. Fill(d) \in ServerRecord
  BY <1>5, <1>9, <1>10, <1>13 DEF ServerRecord
<1>15. /\ Fill(d).name = d.name /\ Fill(d).open = d.open
       /\ Fill(d).transmit = d.transmit /\ Fill(d).acknowledged = d.acknowledged
       /\ Fill(d).redirectAcknowledged = d.redirectAcknowledged
       /\ Fill(d).read = read /\ Fill(d).buffered = buffered /\ Fill(d).eof = eof
       /\ Fill(d).slots = slots
  BY <1>5 DEF ServerRecord
<1>16. Counted(Fill(d))
  BY <1>6, <1>10, <1>11, <1>15 DEF Counted, size
<1>17. ASSUME NEW n \in Nat, d.acknowledged <= n, n < buffered
       PROVE  slots[n % Window] = BlockOf(d.name, n)
  <2>1. n % Window \in Slots
    BY <1>7, SlotInRing DEF Slots
  <2>2. ASSUME NEW m \in Nat, d.acknowledged <= m, m < buffered,
               m % Window = n % Window
        PROVE  m = n
    <3>1. CASE m < n
      <4>1. n - m < Window
        BY <1>6, <1>7, <1>10, <1>17, <2>2
      <4>2. QED
        BY <1>7, <2>2, <3>1, <4>1, SlotsDiffer
    <3>2. CASE n < m
      <4>1. m - n < Window
        BY <1>6, <1>7, <1>10, <1>17, <2>2
      <4>2. QED
        BY <1>7, <2>2, <3>2, <4>1, SlotsDiffer
    <3>3. QED
      BY <2>2, <3>1, <3>2
  <2>3. \A m \in d.buffered .. buffered - 1 :
           m \in Nat /\ d.acknowledged <= m /\ m < buffered
    BY <1>6, <1>10 DEF Counted
  <2>4. CASE n >= d.buffered
    <3>1. n \in d.buffered .. buffered - 1
      BY <1>6, <1>10, <1>17, <2>4
    <3>2. PICK m : m = CHOOSE k \in d.buffered .. buffered - 1 : k % Window = n % Window
      OBVIOUS
    <3>3. m \in d.buffered .. buffered - 1 /\ m % Window = n % Window
      BY <3>1, <3>2
    <3>4. m = n
      BY <2>2, <2>3, <3>3
    <3>5. slots[n % Window] =
            IF m < read THEN [file |-> d.name, number |-> m] ELSE Eof
      BY <1>3, <2>1, <3>1, <3>2
    <3>6. n < read <=> n < Blocks[d.name]
      <4>1. eof => read = Blocks[d.name]
        BY <1>11 DEF size
      <4>2. ~eof => buffered = read
        BY <1>9, <1>10, <1>11
      <4>3. read <= Blocks[d.name] /\ Blocks[d.name] \in Nat
        BY <1>7, <1>10 DEF size
      <4>4. QED
        BY <1>10, <1>17, <4>1, <4>2, <4>3
    <3>7. QED
      BY <3>4, <3>5, <3>6 DEF BlockOf
  <2>5. CASE n < d.buffered
    <3>1. ~\E m \in d.buffered .. buffered - 1 : m % Window = n % Window
      <4>1. \A m \in d.buffered .. buffered - 1 : m # n
        BY <1>6, <1>10, <2>5
      <4>2. QED
        BY <2>2, <2>3, <4>1
    <3>2. slots[n % Window] = d.slots[n % Window]
      BY <1>3, <2>1, <3>1
    <3>3. QED
      BY <1>17, <2>5, <3>2 DEF Holds
  <2>6. QED
    BY <1>6, <2>4, <2>5
<1>18. Holds(Fill(d))
  BY <1>15, <1>17 DEF Holds
<1>19. QED
  BY <1>10, <1>14, <1>15, <1>16, <1>18

\* The blocks of one message follow each other.
LEMMA RecordsProperties ==
  ASSUME NEW d \in ServerRecord, NEW first \in Nat, first <= d.buffered,
         \A n \in Nat : d.slots[n % Window] \in Block \cup {Eof}
  PROVE  /\ Records(d, first) \in Seq(DownloadRecord)
         /\ Len(Records(d, first)) \in Nat
         /\ first + Len(Records(d, first)) <= d.buffered
         /\ \A i \in DOMAIN Records(d, first) :
               /\ i \in 1 .. Len(Records(d, first)) /\ first + i - 1 \in Nat
               /\ Records(d, first)[i] =
                    BlockRecord(first + i - 1, d.slots[(first + i - 1) % Window])
<1> DEFINE last == Smaller(Budget, d.buffered - first)
<1>1. d.buffered \in Nat
  BY DEF ServerRecord
<1>2. last \in Nat /\ first + last <= d.buffered
  BY <1>1 DEF Smaller
<1>3. ASSUME NEW i \in 1 .. last
      PROVE  /\ first + i - 1 \in Nat
             /\ BlockRecord(first + i - 1, d.slots[(first + i - 1) % Window]) \in DownloadRecord
  <2>1. first + i - 1 \in Nat
    BY <1>2
  <2>2. AsShort(first + i - 1) \in Int
    BY <2>1, ShortBelow
  <2>3. QED
    BY <2>1, <2>2 DEF BlockRecord, DownloadRecord
<1>4. Records(d, first) \in [1 .. last -> DownloadRecord]
  BY <1>3 DEF Records
<1>5. /\ \A i \in 1 .. last : Records(d, first)[i] =
            BlockRecord(first + i - 1, d.slots[(first + i - 1) % Window])
  BY DEF Records
<1> HIDE DEF last
<1>6. Records(d, first) \in Seq(DownloadRecord) /\ Len(Records(d, first)) = last
      /\ DOMAIN Records(d, first) = 1 .. last
  BY <1>2, <1>4, SeqDef
<1>7. QED
  BY <1>2, <1>3, <1>5, <1>6

-----------------------------------------------------------------------------
(* In band: the server *)

\* The commands leave, and nothing else changes.
LEMMA CommandsLeave ==
  ASSUME NEW c \in ClientRecord, NEW d, d = [c EXCEPT !.commands = <<>>]
  PROVE  d \in ClientRecord /\ d.commands = <<>>
<1>1. c \in ClientRecord /\ d = [c EXCEPT !.commands = <<>>]
  OBVIOUS
<1>2. <<>> \in Seq(ClientCommand)
  BY EmptySeq
<1>3. QED
  BY ONLY <1>1, <1>2 DEF ClientRecord

LEMMA TheRestStays ==
  ASSUME NEW c \in ClientRecord, NEW d, d = [c EXCEPT !.commands = <<>>]
  PROVE  /\ d.state = c.state
         /\ d.list = c.list
         /\ d.name = c.name
         /\ d.temp = c.temp
         /\ d.original = c.original
         /\ d.block = c.block
         /\ d.open = c.open
         /\ d.copy = c.copy
         /\ d.restart = c.restart
         /\ d.wwwActive = c.wwwActive
         /\ d.wwwAborting = c.wwwAborting
         /\ d.transfer = c.transfer
         /\ d.disk = c.disk
         /\ d.loaded = c.loaded
<1>1. c \in ClientRecord /\ d = [c EXCEPT !.commands = <<>>]
  OBVIOUS
<1>2. QED
  BY ONLY <1>1 DEF ClientRecord

LEMMA SaidAndLeft ==
  ASSUME NEW c \in ClientRecord, c.commands = <<>>, NEW m,
         NEW s, s = [c EXCEPT !.commands = <<m>>],
         NEW d, d = [s EXCEPT !.commands = <<>>]
  PROVE  d = c
<1>1. d = [c EXCEPT !.commands = <<>>]
  BY DEF ClientRecord
<1>2. c \in ClientRecord /\ c.commands = <<>>
  OBVIOUS
<1>3. QED
  BY ONLY <1>1, <1>2 DEF ClientRecord

\* What a step does to the files of the client.
Copies == [Copied!Next]_(Copied!vars)

LEMMA CopyStays ==
  ASSUME client'.temp = client.temp, client'.copy = client.copy, client'.disk = client.disk
  PROVE  Copies
BY DEF Copies, Copied!vars

LEMMA CopyBegins ==
  ASSUME client'.temp \in File \cup {None}, client'.copy = <<>>, client'.disk = client.disk
  PROVE  Copies
BY DEF Copies, Copied!Next, Copied!Begin

LEMMA CopyGrows ==
  ASSUME NEW f \in File, client.temp = f, client'.temp = f, client'.disk = client.disk,
         NEW n \in Nat, n < Blocks[f], client.copy = SubSeq(WholePak(f), 1, n),
         client'.copy = SubSeq(WholePak(f), 1, n + 1)
  PROVE  Copies
<1>1. WholePak(f) \in Seq(Block) /\ Len(WholePak(f)) = Blocks[f] /\ Blocks[f] \in Nat
  BY WholePakProperties
<1>2. Len(client.copy) = n
  <2>1. \A i \in 1 .. n : WholePak(f)[i] \in Block
    BY <1>1, ElementOfSeq
  <2>2. Len(SubSeq(WholePak(f), 1, n)) = n
    BY <1>1, <2>1, SubSeqProperties
  <2>3. QED
    BY <2>2
<1>3. n + 1 \in Len(client.copy) + 1 .. Blocks[f]
  BY <1>1, <1>2
<1>4. f # None
  OBVIOUS
<1>5. Copied!Whole(f) = WholePak(f)
  BY DEF Copied!Whole, WholePak
<1>6. Copied!Extend
  BY <1>3, <1>4, <1>5 DEF Copied!Extend
<1>7. QED
  BY <1>6 DEF Copies, Copied!Next

LEMMA CopySaved ==
  ASSUME NEW f \in File, client.temp = f, client'.temp \in File \cup {None},
         client'.copy = <<>>, client'.disk = [client.disk EXCEPT ![f] = WholePak(f)]
  PROVE  Copies
<1>1. f # None
  OBVIOUS
<1>2. Copied!Whole(f) = WholePak(f)
  BY DEF Copied!Whole, WholePak
<1>3. Copied!Save
  BY <1>1, <1>2 DEF Copied!Save
<1>4. QED
  BY <1>3 DEF Copies, Copied!Next

\* The types that leave of the parts an action does not touch.
LEMMA ServerTyped ==
  ASSUME PakTyped, UNCHANGED <<client, session>>,
         download' \in ServerRecord, toServer' \in Seq(ClientCommand),
         toClient' \in Seq(DownloadRecord), present' = TRUE,
         download'.acknowledged <= download'.buffered,
         download'.buffered <= download'.acknowledged + Window
  PROVE  PakTyped'
BY DEF PakTyped, SavedWhole

LEMMA InBandFile ==
  ASSUME PakTyped, InBand
  PROVE  /\ session.lacks \in SUBSET File
         /\ client.temp \in session.lacks \cup {None}
         /\ download.open => download.name \in session.lacks
         /\ download.name \in File \cup {None}
         /\ client.block \in Nat
         /\ download.acknowledged \in Nat /\ download.buffered \in Nat
         /\ download.transmit \in Nat /\ download.read \in Nat
         /\ download.open \in BOOLEAN /\ download.eof \in BOOLEAN
         /\ Len(toServer) \in Nat /\ DOMAIN toServer = 1 .. Len(toServer)
         /\ Len(toClient) \in Nat /\ DOMAIN toClient = 1 .. Len(toClient)
         /\ toServer \in Seq(ClientCommand) /\ toClient \in Seq(DownloadRecord)
<1>1. session.lacks \in SUBSET File
  BY DEF PakTyped, Session
<1>2. client.temp \in session.lacks \cup {None}
  BY DEF InBand, ClientCopies
<1>3. download.open => download.name \in session.lacks
  BY DEF InBand, ServerServes
<1>4. download \in ServerRecord /\ client \in ClientRecord
  BY DEF PakTyped
<1>5. /\ download.name \in File \cup {None}
      /\ download.acknowledged \in Nat /\ download.buffered \in Nat
      /\ download.transmit \in Nat /\ download.read \in Nat
      /\ download.open \in BOOLEAN /\ download.eof \in BOOLEAN
  BY <1>4 DEF ServerRecord
<1>6. client.block \in Nat
  BY <1>4 DEF ClientRecord
<1>7. toServer \in Seq(ClientCommand) /\ toClient \in Seq(DownloadRecord)
  BY DEF PakTyped
<1>8. /\ Len(toServer) \in Nat /\ DOMAIN toServer = 1 .. Len(toServer)
      /\ Len(toClient) \in Nat /\ DOMAIN toClient = 1 .. Len(toClient)
  BY <1>7, LenProperties
<1>9. QED
  BY <1>1, <1>2, <1>3, <1>5, <1>6, <1>7, <1>8

LEMMA InBandWindow ==
  ASSUME PakTyped, InBand, download.open
  PROVE  Counted(download) /\ Holds(download)
<1>1. /\ download.name \in File
      /\ download.acknowledged \in Nat /\ download.buffered \in Nat
  BY InBandFile
<1>2. Counted(download)
  BY <1>1 DEF PakTyped, InBand, ServerServes, Counted
<1>3. Holds(download)
  <2> SUFFICES ASSUME NEW n \in Nat, download.acknowledged <= n, n < download.buffered
               PROVE  download.slots[n % Window] = BlockOf(download.name, n)
    BY DEF Holds
  <2>1. n \in download.acknowledged .. download.buffered - 1
    BY <1>1
  <2>2. QED
    BY <2>1 DEF InBand, ServerServes, WindowHeld, BlockOf
<1>4. QED
  BY <1>2, <1>3

LEMMA WindowFromHolds ==
  ASSUME NEW d \in ServerRecord, Holds(d)
  PROVE  \A n \in d.acknowledged .. d.buffered - 1 :
           d.slots[n % Window] =
              IF n < Blocks[d.name] THEN [file |-> d.name, number |-> n] ELSE Eof
<1> SUFFICES ASSUME NEW n \in d.acknowledged .. d.buffered - 1
             PROVE  d.slots[n % Window] =
                      IF n < Blocks[d.name] THEN [file |-> d.name, number |-> n] ELSE Eof
  OBVIOUS
<1>1. d.acknowledged \in Nat /\ d.buffered \in Nat
  BY DEF ServerRecord
<1>2. n \in Nat /\ d.acknowledged <= n /\ n < d.buffered
  BY <1>1
<1>3. QED
  BY <1>2 DEF Holds, BlockOf

\* SV_WriteDownloadToClient, a pak that the server does not give away.
LEMMA RefuseInBand ==
  ASSUME PakTyped, InBand, WriteDownloadToClient, Refuse
  PROVE  PakTyped' /\ InBand'
<1>1. /\ ~download.open /\ download.name # None
      /\ download' = [download EXCEPT !.name = None]
      /\ toClient' = toClient \o <<Refusal>>
      /\ UNCHANGED <<present, toServer, client, session>>
  BY DEF WriteDownloadToClient, Refuse, Post
<1>2. Beginning
  BY <1>1 DEF InBand, Phases, Asking
<1>3. Refusal \in DownloadRecord
  BY DEF Refusal, DownloadRecord
<1>4. /\ toClient' = <<Refusal>> /\ toServer' = <<>> /\ toServer = <<>>
      /\ client.temp = download.name /\ client.block = 0
  BY <1>1, <1>2 DEF Beginning
<1>5. /\ toClient' \in Seq(DownloadRecord) /\ toServer' \in Seq(ClientCommand)
      /\ Len(toClient') = 1 /\ DOMAIN toClient' = {1} /\ toClient'[1] = Refusal
      /\ DOMAIN toServer' = {}
  BY <1>3, <1>4
<1>6. /\ download \in ServerRecord /\ download' \in ServerRecord /\ ~download'.open
      /\ download'.name = None
      /\ download'.acknowledged = download.acknowledged
      /\ download'.buffered = download.buffered
      /\ download'.redirectAcknowledged = download.redirectAcknowledged
  BY <1>1 DEF PakTyped, ServerRecord
<1>7. PakTyped'
  <2>1. present' = TRUE /\ download'.acknowledged <= download'.buffered
        /\ download'.buffered <= download'.acknowledged + Window
    BY <1>1, <1>6 DEF PakTyped
  <2>2. QED
    BY <1>1, <1>5, <1>6, <2>1, ServerTyped
<1>8. Idle'
  BY <1>5, <1>6 DEF Idle, WantsMore
<1>9. ClientCopies'
  BY <1>1, <1>8 DEF InBand, ClientCopies, Orderly, Lossy, Prompt
<1>10. ServerServes'
  BY <1>6 DEF InBand, ServerServes, WindowHeld
<1>11. CommandsFit'
  BY <1>5, <1>6 DEF CommandsFit
<1>12. RecordsFit'
  <2>1. RecordFits(toClient[1])'
    BY <1>1, <1>4, <1>5, <1>8 DEF RecordFits, Refusal
  <2>2. QED
    BY <1>5, <2>1 DEF RecordsFit
<1>13. Phases'
  <2>1. Resting'
    BY <1>1, <1>4, <1>5 DEF Resting, Refusal
  <2>2. QED
    BY <1>8, <2>1 DEF Phases, Idle
<1>14. QED
  BY <1>7, <1>9, <1>10, <1>11, <1>12, <1>13 DEF InBand

\* What the server serves from, once the file is open.
ServesFrom(e) ==
    /\ e \in ServerRecord /\ e.open /\ ~e.redirectAcknowledged
    /\ e.name \in session.lacks /\ Counted(e) /\ Holds(e)
    /\ e.transmit <= e.buffered

\* How far the client is with the pak that is served from.
CopiesFrom(e) ==
    /\ client.temp = e.name
    /\ e.acknowledged <= client.block /\ client.block <= e.buffered
    /\ \A n \in Nat : e.acknowledged <= n /\ n < client.block => Answers(n)
    /\ Orderly /\ client.block < ShortLimit =>
         /\ Len(toClient) = e.transmit - client.block
         /\ \A i \in DOMAIN toClient :
               toClient[i] = BlockRecord(client.block + i - 1,
                                BlockOf(client.temp, client.block + i - 1))
    /\ toClient # <<>> => download.open

LEMMA OpenFileProperties ==
  ASSUME PakTyped, InBand, download.open \/ download.name # None,
         NEW e, e = OpenFile(download)
  PROVE  /\ ServesFrom(e)
         /\ download.open => e = download
         /\ ~download.open => ~WantsMore /\ Beginning /\ e.acknowledged = 0
         /\ ~WantsMore => CopiesFrom(e)
<1>1. /\ session.lacks \in SUBSET File
      /\ client.temp \in session.lacks \cup {None}
      /\ download.name \in File \cup {None} /\ None \notin File
      /\ download.open \in BOOLEAN /\ client.block \in Nat
      /\ download \in ServerRecord
  BY InBandFile DEF PakTyped
<1>2. CASE download.open
  <2>1. e = download
    BY <1>2 DEF OpenFile
  <2>2. Counted(download) /\ Holds(download)
    BY <1>2, InBandWindow
  <2>3. ServesFrom(e)
    BY <1>1, <1>2, <2>1, <2>2 DEF ServesFrom, InBand, ServerServes
  <2>4. ASSUME ~WantsMore PROVE CopiesFrom(e)
    <3>1. Copying
      BY <1>2, <2>4 DEF InBand, Phases
    <3>2. \A n \in Nat : download.acknowledged <= n /\ n < client.block => Answers(n)
      BY <1>2, <2>4 DEF InBand, CommandsFit, High
    <3>3. QED
      BY <1>2, <2>1, <3>1, <3>2 DEF Copying, CopiesFrom
  <2>5. QED
    BY <1>2, <2>1, <2>3, <2>4
<1>3. CASE ~download.open
  <2>1. download.name # None
    BY <1>3
  <2>2. ~WantsMore /\ Beginning
    BY <1>3, <2>1 DEF InBand, Phases, Asking
  <2>3. e = [download EXCEPT !.redirectActive = FALSE, !.open = TRUE, !.transmit = 0,
                     !.acknowledged = 0, !.buffered = 0, !.read = 0, !.eof = FALSE]
    BY <1>3 DEF OpenFile
  <2>4. /\ e \in ServerRecord /\ e.open /\ e.transmit = 0 /\ e.acknowledged = 0
        /\ e.buffered = 0 /\ e.read = 0 /\ ~e.eof /\ e.name = download.name
        /\ e.redirectAcknowledged = download.redirectAcknowledged
    <3>1. [download EXCEPT !.redirectActive = FALSE, !.open = TRUE, !.transmit = 0,
                     !.acknowledged = 0, !.buffered = 0, !.read = 0, !.eof = FALSE]
            \in ServerRecord
      <4>1. download \in ServerRecord
        BY <1>1
      <4>2. QED
        BY ONLY <4>1 DEF ServerRecord
    <3>2. /\ e.open /\ e.transmit = 0 /\ e.acknowledged = 0
          /\ e.buffered = 0 /\ e.read = 0 /\ ~e.eof
      BY <1>1, <2>3 DEF ServerRecord
    <3>3. /\ e.name = download.name
          /\ e.redirectAcknowledged = download.redirectAcknowledged
      BY <1>1, <2>3 DEF ServerRecord
    <3>4. QED
      BY <2>3, <3>1, <3>2, <3>3
  <2>5. /\ client.temp = download.name /\ client.block = 0
        /\ toClient = <<>> /\ Len(toClient) = 0 /\ DOMAIN toClient = {}
    BY <2>2 DEF Beginning
  <2>6. e.name \in session.lacks /\ e.name \in File
    BY <1>1, <2>1, <2>4, <2>5
  <2>7. Counted(e)
    <3>1. Blocks[e.name] \in Nat /\ Window \in Nat
      BY <2>6
    <3>2. QED
      BY <2>4, <2>6, <3>1 DEF Counted
  <2>8. Holds(e)
    BY <2>4 DEF Holds
  <2>9. ServesFrom(e)
    BY <2>4, <2>6, <2>7, <2>8 DEF ServesFrom, InBand, ServerServes
  <2>10. CopiesFrom(e)
    BY <2>4, <2>5 DEF CopiesFrom
  <2>11. QED
    BY <1>3, <2>2, <2>4, <2>9, <2>10
<1>4. QED
  BY <1>1, <1>2, <1>3

\* SV_WriteDownloadToClient, the blocks that are due.
LEMMA WriteBlocksInBand ==
  ASSUME PakTyped, InBand, WriteDownloadToClient, WriteBlocks
  PROVE  PakTyped' /\ InBand'
<1>1. PICK e : e = OpenFile(download)
  OBVIOUS
<1>2. PICK d : d = Fill(e)
  OBVIOUS
<1>3. PICK first : first = IF d.transmit = d.buffered THEN d.acknowledged ELSE d.transmit
  OBVIOUS
<1>4. PICK records : records = Records(d, first)
  OBVIOUS
<1>5. /\ d.acknowledged # d.buffered
      /\ d.transmit = d.buffered => Stalled
      /\ download' = [d EXCEPT !.transmit = first + Len(records)]
      /\ toClient' = toClient \o records
      /\ UNCHANGED <<present, toServer, client, session>>
      /\ download.open \/ download.name # None
  BY <1>1, <1>2, <1>3, <1>4 DEF WriteDownloadToClient, WriteBlocks, Post
<1>6. /\ ServesFrom(e)
      /\ download.open => e = download
      /\ ~download.open => ~WantsMore /\ Beginning /\ e.acknowledged = 0
      /\ ~WantsMore => CopiesFrom(e)
  BY <1>1, <1>5, OpenFileProperties
<1>7. /\ d \in ServerRecord /\ Counted(d) /\ Holds(d) /\ d.name = e.name /\ d.open
      /\ d.transmit = e.transmit /\ d.acknowledged = e.acknowledged
      /\ d.redirectAcknowledged = e.redirectAcknowledged /\ d.buffered >= e.buffered
  BY <1>2, <1>6, FillProperties DEF ServesFrom
<1>8. /\ e.transmit \in Nat /\ e.buffered \in Nat /\ e.acknowledged \in Nat
      /\ d.transmit \in Nat /\ d.buffered \in Nat /\ d.acknowledged \in Nat /\ d.read \in Nat
      /\ client.block \in Nat /\ d.eof \in BOOLEAN
      /\ Blocks[d.name] \in Nat /\ d.name \in File
      /\ session.lacks \in SUBSET File /\ None \notin File /\ d.name # None
      /\ download.open \in BOOLEAN
      /\ Len(toClient) \in Nat /\ DOMAIN toClient = 1 .. Len(toClient)
  BY <1>6, <1>7, InBandFile DEF ServesFrom, ServerRecord, Counted
<1>9. d.transmit <= d.buffered /\ d.acknowledged < d.buffered
  <2>1. e.transmit <= e.buffered /\ d.acknowledged <= d.buffered
    BY ONLY <1>6, <1>7 DEF ServesFrom, Counted
  <2>2. QED
    BY ONLY <1>5, <1>7, <1>8, <2>1
<1>10. first \in Nat /\ first <= d.buffered
  BY ONLY <1>3, <1>8, <1>9
<1>11. \A n \in Nat : d.slots[n % Window] \in Block \cup {Eof}
  <2>1. d.slots \in [Slots -> Block \cup {Eof}]
    BY <1>7 DEF ServerRecord
  <2>2. \A n \in Nat : n % Window \in Slots
    BY SlotInRing DEF Slots
  <2>3. QED
    BY <2>1, <2>2
<1>12. /\ records \in Seq(DownloadRecord) /\ Len(records) \in Nat
       /\ first + Len(records) <= d.buffered
       /\ \A i \in DOMAIN records :
             /\ i \in 1 .. Len(records) /\ first + i - 1 \in Nat
             /\ records[i] = BlockRecord(first + i - 1, d.slots[(first + i - 1) % Window])
  <2>1. /\ d \in ServerRecord /\ first \in Nat /\ first <= d.buffered
        /\ \A n \in Nat : d.slots[n % Window] \in Block \cup {Eof}
    BY ONLY <1>7, <1>10, <1>11
  <2>2. /\ Records(d, first) \in Seq(DownloadRecord)
        /\ Len(Records(d, first)) \in Nat
        /\ first + Len(Records(d, first)) <= d.buffered
        /\ \A i \in DOMAIN Records(d, first) :
              /\ i \in 1 .. Len(Records(d, first)) /\ first + i - 1 \in Nat
              /\ Records(d, first)[i] =
                   BlockRecord(first + i - 1, d.slots[(first + i - 1) % Window])
    BY ONLY <2>1, RecordsProperties
  <2>3. QED
    BY ONLY <1>4, <2>2
<1>13. /\ download' \in ServerRecord /\ download'.open /\ download'.name = d.name
       /\ download'.transmit = first + Len(records)
       /\ download'.acknowledged = d.acknowledged /\ download'.buffered = d.buffered
       /\ download'.read = d.read /\ download'.eof = d.eof /\ download'.slots = d.slots
       /\ download'.redirectAcknowledged = d.redirectAcknowledged
  <2>1. first + Len(records) \in Nat
    BY <1>10, <1>12
  <2>2. QED
    BY <1>5, <1>7, <2>1 DEF ServerRecord
<1>14. /\ toClient' \in Seq(DownloadRecord)
       /\ Len(toClient') = Len(toClient) + Len(records)
       /\ DOMAIN toClient' = 1 .. Len(toClient) + Len(records)
       /\ \A i \in DOMAIN toClient' :
             \/ i \in DOMAIN toClient /\ toClient'[i] = toClient[i]
             \/ \E n \in Nat :
                  /\ n = first + (i - Len(toClient)) - 1 /\ n < d.buffered
                  /\ toClient'[i] = BlockRecord(n, d.slots[n % Window])
  <2>1. toClient \in Seq(DownloadRecord)
    BY DEF PakTyped
  <2>2. /\ toClient \o records \in Seq(DownloadRecord)
        /\ Len(toClient \o records) = Len(toClient) + Len(records)
        /\ \A i \in 1 .. Len(toClient) + Len(records) : (toClient \o records)[i] =
              IF i <= Len(toClient) THEN toClient[i] ELSE records[i - Len(toClient)]
    BY <1>12, <2>1, ConcatProperties
  <2>3. DOMAIN (toClient \o records) = 1 .. Len(toClient) + Len(records)
    BY <2>2, LenProperties
  <2>4. DOMAIN records = 1 .. Len(records)
    BY <1>12, LenProperties
  <2>5. ASSUME NEW i \in 1 .. Len(toClient) + Len(records), ~(i <= Len(toClient))
        PROVE  \E n \in Nat :
                  /\ n = first + (i - Len(toClient)) - 1 /\ n < d.buffered
                  /\ toClient'[i] = BlockRecord(n, d.slots[n % Window])
    <3>1. PICK k : k = i - Len(toClient)
      OBVIOUS
    <3>2. k \in 1 .. Len(records)
      BY ONLY <1>8, <1>12, <2>5, <3>1
    <3>3. PICK n : n = first + k - 1
      OBVIOUS
    <3>4. n \in Nat /\ n < d.buffered
      BY ONLY <1>8, <1>10, <1>12, <3>2, <3>3
    <3>5. records[k] = BlockRecord(n, d.slots[n % Window])
      BY <1>12, <2>4, <3>2, <3>3
    <3>6. toClient'[i] = records[k]
      BY <1>5, <2>2, <2>5, <3>1
    <3>7. QED
      BY <3>1, <3>3, <3>4, <3>5, <3>6
  <2>6. ASSUME NEW i \in 1 .. Len(toClient) + Len(records), i <= Len(toClient)
        PROVE  i \in DOMAIN toClient /\ toClient'[i] = toClient[i]
    BY <1>5, <1>8, <1>12, <2>2, <2>6
  <2>7. DOMAIN toClient' = 1 .. Len(toClient) + Len(records)
    BY <1>5, <2>3
  <2>8. toClient' \in Seq(DownloadRecord) /\ Len(toClient') = Len(toClient) + Len(records)
    BY <1>5, <2>2
  <2>9. QED
    BY <2>5, <2>6, <2>7, <2>8
<1>15. WantsMore' <=> WantsMore
  BY <1>5 DEF WantsMore
<1>16. Orderly' <=> Orderly
  BY <1>5 DEF Orderly, Lossy, Prompt
<1>17. PakTyped'
  <2>1. present' = TRUE /\ download'.acknowledged <= download'.buffered
        /\ download'.buffered <= download'.acknowledged + Window
        /\ toServer' \in Seq(ClientCommand)
    BY <1>5, <1>7, <1>13 DEF PakTyped, Counted
  <2>2. QED
    BY <1>5, <1>13, <1>14, <2>1, ServerTyped
<1>18. ClientCopies'
  <2>1. client.state # "refused"
    BY <1>6, <1>8, <1>5 DEF InBand, ClientCopies, Idle, Beginning
  <2>2. QED
    BY <1>5, <1>16, <2>1 DEF InBand, ClientCopies
<1>19. ServerServes'
  <2>1. ~download'.redirectAcknowledged /\ download'.name \in session'.lacks
    BY <1>5, <1>6, <1>7, <1>13 DEF ServesFrom
  <2>2. WindowHeld'
    <3>1. \A n \in d.acknowledged .. d.buffered - 1 :
             d.slots[n % Window] =
                IF n < Blocks[d.name] THEN [file |-> d.name, number |-> n] ELSE Eof
      BY <1>7, WindowFromHolds
    <3>2. QED
      BY <1>13, <3>1 DEF WindowHeld
  <2>3. /\ download'.read <= Blocks[download'.name]
        /\ download'.buffered = download'.read + IF download'.eof THEN 1 ELSE 0
        /\ download'.eof => download'.read = Blocks[download'.name]
        /\ download'.acknowledged <= Blocks[download'.name]
    BY <1>7, <1>13 DEF Counted
  <2>4. download'.transmit <= download'.buffered
    BY <1>12, <1>13
  <2>5. QED
    BY <2>1, <2>2, <2>3, <2>4 DEF ServerServes
<1>20. d.buffered <= Blocks[d.name] + 1
  BY ONLY <1>7, <1>8 DEF Counted
<1>21. CASE WantsMore
  <2>1. download.open /\ e = download /\ Finishing
    BY <1>6, <1>8, <1>21 DEF InBand, Phases
  <2>2. d.buffered = Blocks[d.name] + 1 /\ download.buffered = d.buffered
    BY ONLY <1>7, <1>8, <1>20, <2>1 DEF Finishing
  <2>3. ~Orderly
    <3> SUFFICES ASSUME Orderly PROVE FALSE
      OBVIOUS
    <3>1. d.transmit = d.buffered
      BY <1>7, <2>1, <2>2 DEF Finishing
    <3>2. toServer = <<>>
      BY <1>5, <3>1 DEF Stalled, Orderly
    <3>3. QED
      BY <1>21, <3>2 DEF WantsMore
  <2>4. client.temp = None /\ client.block = Blocks[d.name] + 1
    BY <1>7, <2>1, <2>3 DEF Finishing
  <2>5. Finishing'
    BY <1>5, <1>13, <1>16, <2>2, <2>3, <2>4 DEF Finishing
  <2>6. Phases'
    BY <1>13, <1>15, <1>21, <2>5 DEF Phases, Idle
  <2>7. CommandsFit'
    <3>1. download'.acknowledged = download.acknowledged /\ download'.open
          /\ download'.name = download.name
      BY <1>7, <1>13, <2>1
    <3>2. High' = High
      BY <1>15, <1>21, <3>1 DEF High
    <3>3. ASSUME NEW i \in DOMAIN toServer' PROVE CommandFits(i, toServer[i])'
      <4>1. CommandFits(i, toServer[i])
        BY <1>5, <3>3 DEF InBand, CommandsFit
      <4>2. QED
        BY <1>5, <1>16, <2>1, <3>1, <3>2, <4>1 DEF CommandFits, Wants
    <3>4. \A n \in Nat : download.acknowledged <= n /\ n < High => Answers(n)
      BY <2>1 DEF InBand, CommandsFit
    <3>5. \A n \in Nat : Answers(n)' <=> Answers(n)
      BY <1>5 DEF Answers
    <3>6. \A n \in Nat : (download.acknowledged <= n /\ n < High => Answers(n))'
      BY <3>1, <3>2, <3>4, <3>5
    <3>7. (\A i, j \in DOMAIN toServer :
              i < j /\ toServer[i].command = "nextdl" /\ toServer[j].command = "nextdl"
                => toServer[i].block < toServer[j].block)'
      BY <1>5 DEF InBand, CommandsFit
    <3>8. QED
      BY <3>3, <3>6, <3>7 DEF CommandsFit
  <2>8. RecordsFit'
    <3> SUFFICES ASSUME NEW i \in DOMAIN toClient' PROVE RecordFits(toClient[i])'
      BY DEF RecordsFit
    <3>1. ~Idle /\ ~Idle'
      BY <1>15, <1>21 DEF Idle
    <3>2. CASE i \in DOMAIN toClient /\ toClient'[i] = toClient[i]
      <4>1. RecordFits(toClient[i])
        BY <3>2 DEF InBand, RecordsFit
      <4>2. \A n \in Nat : ~Due(n, toClient[i].data)
        BY <1>21 DEF Due
      <4>3. QED
        BY <1>5, <3>1, <3>2, <4>1, <4>2 DEF RecordFits
    <3>3. CASE \E n \in Nat :
                 /\ n = first + (i - Len(toClient)) - 1 /\ n < d.buffered
                 /\ toClient'[i] = BlockRecord(n, d.slots[n % Window])
      <4>1. PICK n \in Nat : /\ n = first + (i - Len(toClient)) - 1 /\ n < d.buffered
                             /\ toClient'[i] = BlockRecord(n, d.slots[n % Window])
        BY <3>3
      <4>2. toClient'[i].kind = "block" /\ toClient'[i].number = AsShort(n)
        BY <4>1 DEF BlockRecord
      <4>3. ~(n >= client.block)
        BY <1>8, <2>2, <2>4, <4>1
      <4>4. QED
        BY <1>5, <4>2, <4>3 DEF RecordFits
    <3>4. QED
      BY <1>14, <3>2, <3>3
  <2>9. QED
    BY <1>17, <1>18, <1>19, <2>6, <2>7, <2>8 DEF InBand
<1>22. CASE ~WantsMore
  <2>1. CopiesFrom(e)
    BY <1>6, <1>22
  <2>2. /\ client.temp = d.name /\ d.acknowledged <= client.block
        /\ client.block <= d.buffered /\ client.temp # None
    BY <1>7, <1>8, <2>1 DEF CopiesFrom
  <2>3. ASSUME NEW n \in Nat, client.block <= n, n < d.buffered
        PROVE  d.slots[n % Window] = BlockOf(client.temp, n)
    <3>1. d.acknowledged <= n
      BY ONLY <1>8, <2>2, <2>3
    <3>2. QED
      BY ONLY <1>7, <2>2, <2>3, <3>1 DEF Holds
  <2>4. CommandsFit'
    <3>1. \A n \in Nat : download'.acknowledged <= n /\ n < client.block => Answers(n)
      BY <1>7, <1>13, <2>1 DEF CopiesFrom
    <3>2. High' = client.block
      BY <1>5, <1>15, <1>22 DEF High
    <3>3. \A n \in Nat : Answers(n)' <=> Answers(n)
      BY <1>5 DEF Answers
    <3>4. \A n \in Nat : (download.acknowledged <= n /\ n < High => Answers(n))'
      BY <3>1, <3>2, <3>3
    <3>5. (\A i, j \in DOMAIN toServer :
              i < j /\ toServer[i].command = "nextdl" /\ toServer[j].command = "nextdl"
                => toServer[i].block < toServer[j].block)'
      BY <1>5 DEF InBand, CommandsFit
    <3>6. ASSUME NEW i \in DOMAIN toServer' PROVE CommandFits(i, toServer[i])'
      <4>1. download.open /\ e = download
        <5>1. toServer # <<>>
          BY <1>5, <3>6
        <5>2. QED
          BY <1>6, <1>8, <5>1 DEF Beginning
      <4>2. CommandFits(i, toServer[i])
        BY <1>5, <3>6 DEF InBand, CommandsFit
      <4>3. High = client.block
        BY <1>22 DEF High
      <4>4. download'.acknowledged = download.acknowledged
        BY <1>7, <1>13, <4>1
      <4>5. QED
        BY <1>5, <1>13, <1>16, <3>2, <4>2, <4>3, <4>4 DEF CommandFits, Wants
    <3>7. QED
      BY <3>4, <3>5, <3>6 DEF CommandsFit
  <2>5. RecordsFit'
    <3> SUFFICES ASSUME NEW i \in DOMAIN toClient' PROVE RecordFits(toClient[i])'
      BY DEF RecordsFit
    <3>1. CASE i \in DOMAIN toClient /\ toClient'[i] = toClient[i]
      <4>1. RecordFits(toClient[i])
        BY <3>1 DEF InBand, RecordsFit
      <4>2. download.open /\ e = download
        BY ONLY <1>6, <1>8, <3>1 DEF Beginning
      <4>3. ASSUME NEW n \in Nat, Due(n, toClient[i].data)
            PROVE  Due(n, toClient[i].data)'
        <5>1. n < download'.buffered
          BY <1>7, <1>8, <1>13, <4>2, <4>3 DEF Due
        <5>2. QED
          BY <1>5, <1>13, <1>15, <3>1, <4>3, <5>1 DEF Due
      <4>4. ~Idle
        BY <4>2 DEF Idle
      <4>5. QED
        BY <1>5, <3>1, <4>1, <4>3, <4>4 DEF RecordFits
    <3>2. CASE \E n \in Nat :
                 /\ n = first + (i - Len(toClient)) - 1 /\ n < d.buffered
                 /\ toClient'[i] = BlockRecord(n, d.slots[n % Window])
      <4>1. PICK n \in Nat : /\ n = first + (i - Len(toClient)) - 1 /\ n < d.buffered
                             /\ toClient'[i] = BlockRecord(n, d.slots[n % Window])
        BY <3>2
      <4>2. /\ toClient'[i].kind = "block" /\ toClient'[i].number = AsShort(n)
            /\ toClient'[i].data = d.slots[n % Window]
        BY <4>1 DEF BlockRecord
      <4>3. ASSUME n >= client.block PROVE Due(n, toClient[i].data)'
        <5>1. toClient'[i].data = BlockOf(client.temp, n)
          BY <1>8, <2>3, <4>1, <4>2, <4>3
        <5>2. QED
          BY <1>5, <1>13, <1>15, <1>22, <2>2, <4>1, <5>1 DEF Due
      <4>4. QED
        BY <1>5, <4>2, <4>3 DEF RecordFits
    <3>3. QED
      BY <1>14, <3>1, <3>2
  <2>6. Copying'
    <3>1. /\ client'.temp = download'.name
          /\ download'.acknowledged <= client'.block
          /\ client'.block <= download'.buffered
      BY <1>5, <1>13, <2>2
    <3>2. ASSUME Orderly, client.block < ShortLimit
          PROVE  /\ Len(toClient') = download'.transmit - client.block
                 /\ \A i \in DOMAIN toClient' :
                      toClient'[i] = BlockRecord(client.block + i - 1,
                                BlockOf(client.temp, client.block + i - 1))
      <4>1. /\ Len(toClient) = d.transmit - client.block
            /\ \A i \in DOMAIN toClient :
                 toClient[i] = BlockRecord(client.block + i - 1,
                                BlockOf(client.temp, client.block + i - 1))
        BY <1>7, <2>1, <3>2 DEF CopiesFrom
      <4>2. d.transmit # d.buffered
        <5> SUFFICES ASSUME d.transmit = d.buffered PROVE FALSE
          OBVIOUS
        <5>1. toClient = <<>> /\ toServer = <<>>
          BY <1>5, <3>2 DEF Stalled, Orderly
        <5>2. Len(toClient) = 0
          BY <5>1
        <5>3. d.acknowledged < client.block
          <6>1. 0 = d.transmit - client.block
            BY <4>1, <5>2
          <6>2. QED
            BY <1>8, <1>9, <6>1
        <5>4. Answers(d.acknowledged)
          BY <1>7, <1>8, <2>1, <5>3 DEF CopiesFrom
        <5>5. QED
          BY <5>1, <5>4 DEF Answers
      <4>3. first = d.transmit
        BY <1>3, <4>2
      <4>4. Len(toClient') = download'.transmit - client.block
        <5>1. /\ Len(toClient') = Len(toClient) + Len(records)
              /\ Len(toClient) = d.transmit - client.block
              /\ download'.transmit = d.transmit + Len(records)
          BY <1>13, <1>14, <4>1, <4>3
        <5>2. QED
          BY ONLY <1>8, <1>12, <5>1
      <4>5. ASSUME NEW i \in DOMAIN toClient'
            PROVE  toClient'[i] = BlockRecord(client.block + i - 1,
                                BlockOf(client.temp, client.block + i - 1))
        <5>1. CASE i \in DOMAIN toClient /\ toClient'[i] = toClient[i]
          BY <4>1, <5>1
        <5>2. CASE \E n \in Nat :
                     /\ n = first + (i - Len(toClient)) - 1 /\ n < d.buffered
                     /\ toClient'[i] = BlockRecord(n, d.slots[n % Window])
          <6>1. PICK n \in Nat : /\ n = first + (i - Len(toClient)) - 1 /\ n < d.buffered
                                 /\ toClient'[i] = BlockRecord(n, d.slots[n % Window])
            BY <5>2
          <6>2. i \in Nat /\ i >= 1
            BY <1>8, <1>12, <1>14
          <6>3. n = client.block + i - 1
            <7>1. /\ n = d.transmit + (i - Len(toClient)) - 1
                  /\ Len(toClient) = d.transmit - client.block
              BY <4>1, <4>3, <6>1
            <7>2. d.transmit \in Nat /\ client.block \in Nat /\ Len(toClient) \in Nat
              BY <1>8
            <7>3. QED
              BY ONLY <6>2, <7>1, <7>2
          <6>4. client.block <= n
            BY <1>8, <6>2, <6>3
          <6>5. d.slots[n % Window] = BlockOf(client.temp, n)
            BY <2>3, <6>1, <6>4
          <6>6. QED
            BY <6>1, <6>3, <6>5
        <5>3. QED
          BY <1>14, <5>1, <5>2
      <4>6. QED
        BY <4>4, <4>5
    <3>3. QED
      BY <1>5, <1>16, <3>1, <3>2 DEF Copying
  <2>7. Phases'
    BY <1>13, <1>15, <1>22, <2>6 DEF Phases, Idle
  <2>8. QED
    BY <1>17, <1>18, <1>19, <2>4, <2>5, <2>7 DEF InBand
<1>23. QED
  BY <1>21, <1>22

\* SV_ClientCommand: what is under way once the oldest command is executed.
LEMMA AfterCommand ==
  ASSUME PakTyped, InBand, toServer # <<>>, toServer' = Tail(toServer)
  PROVE  /\ toServer' \in Seq(ClientCommand) /\ toServer[1] \in ClientCommand
         /\ Head(toServer) = toServer[1]
         /\ 1 \in DOMAIN toServer /\ CommandFits(1, toServer[1])
         /\ Len(toServer) \in Nat /\ Len(toServer') = Len(toServer) - 1
         /\ \A j \in DOMAIN toServer' :
               /\ j \in Nat \ {0} /\ j + 1 \in DOMAIN toServer
               /\ toServer'[j] = toServer[j + 1]
         /\ \A j \in DOMAIN toServer :
               j # 1 => j - 1 \in DOMAIN toServer' /\ toServer'[j - 1] = toServer[j]
         /\ Wants(toServer[1]) => WantsMore /\ toServer' = <<>> /\ ~WantsMore'
         /\ ~Wants(toServer[1]) => (WantsMore' <=> WantsMore)
<1>1. toServer \in Seq(ClientCommand)
  BY DEF PakTyped
<1>2. /\ toServer' \in Seq(ClientCommand) /\ toServer[1] \in ClientCommand
      /\ Head(toServer) = toServer[1] /\ 1 \in DOMAIN toServer
      /\ Len(toServer) \in Nat \ {0} /\ Len(toServer') = Len(toServer) - 1
      /\ \A j \in DOMAIN toServer' :
            /\ j \in Nat \ {0} /\ j + 1 \in DOMAIN toServer
            /\ toServer'[j] = toServer[j + 1]
      /\ \A j \in DOMAIN toServer :
            j # 1 => j - 1 \in DOMAIN toServer' /\ toServer'[j - 1] = toServer[j]
  BY <1>1, TailOf
<1>3. CommandFits(1, toServer[1])
  BY <1>2 DEF InBand, CommandsFit
<1>4. ASSUME Wants(toServer[1]) PROVE WantsMore /\ toServer' = <<>> /\ ~WantsMore'
  <2>1. Len(toServer) = 1
    BY <1>3, <1>4 DEF CommandFits
  <2>2. Len(toServer') = 0
    BY <1>2, <2>1
  <2>3. toServer' = <<>>
    BY <1>2, <2>2, EmptySeq
  <2>4. WantsMore
    BY <1>2, <1>4 DEF WantsMore
  <2>5. ~WantsMore'
    BY <2>3 DEF WantsMore
  <2>6. QED
    BY <2>3, <2>4, <2>5
<1>5. ASSUME ~Wants(toServer[1]) PROVE WantsMore' <=> WantsMore
  <2>1. ASSUME WantsMore PROVE WantsMore'
    <3>1. PICK j \in DOMAIN toServer : Wants(toServer[j])
      BY <2>1 DEF WantsMore
    <3>2. j - 1 \in DOMAIN toServer' /\ toServer'[j - 1] = toServer[j]
      BY <1>2, <1>5, <3>1
    <3>3. QED
      BY <3>1, <3>2 DEF WantsMore, Wants
  <2>2. ASSUME WantsMore' PROVE WantsMore
    <3>1. PICK j \in DOMAIN toServer' : Wants(toServer'[j])
      BY <2>2 DEF WantsMore, Wants
    <3>2. j + 1 \in DOMAIN toServer /\ toServer'[j] = toServer[j + 1]
      BY <1>2
    <3>3. QED
      BY <3>1, <3>2 DEF WantsMore
  <2>3. QED
    BY <2>1, <2>2
<1>6. QED
  BY <1>2, <1>3, <1>4, <1>5

\* SV_BeginDownload_f
LEMMA BeginInBand ==
  ASSUME PakTyped, InBand, toServer # <<>>, toServer[1].command = "download",
         BeginDownload_f(toServer[1].file), toServer' = Tail(toServer),
         UNCHANGED <<client, session>>
  PROVE  PakTyped' /\ InBand'
<1>1. PICK f : f = toServer[1].file
  OBVIOUS
<1>2. Wants(toServer[1])
  BY DEF Wants
<1>3. /\ toServer[1] \in ClientCommand /\ CommandFits(1, toServer[1])
      /\ WantsMore /\ toServer' = <<>> /\ ~WantsMore' /\ Len(toServer) = 1
      /\ DOMAIN toServer = {1} /\ 1 \in DOMAIN toServer
  <2>1. /\ toServer[1] \in ClientCommand /\ CommandFits(1, toServer[1])
        /\ WantsMore /\ toServer' = <<>> /\ ~WantsMore' /\ 1 \in DOMAIN toServer
    BY <1>2, AfterCommand
  <2>2. Len(toServer) = 1
    BY <1>2, <2>1 DEF CommandFits
  <2>3. DOMAIN toServer = 1 .. 1
    BY <2>2, InBandFile
  <2>4. QED
    BY <2>1, <2>2, <2>3
<1>4. /\ f = client.temp /\ client.temp # None /\ client.block = 0
  BY <1>1, <1>3 DEF CommandFits
<1>5. f \in session.lacks /\ f \in File /\ session.lacks \in SUBSET File
  BY <1>4, InBandFile
<1>6. ~download.open
  <2> SUFFICES ASSUME download.open PROVE FALSE
    BY InBandFile
  <2>1. Finishing
    BY <1>3 DEF InBand, Phases
  <2>2. /\ download.acknowledged <= Blocks[download.name]
        /\ download.acknowledged \in Nat /\ Blocks[download.name] \in Nat
    BY InBandFile DEF InBand, ServerServes
  <2>3. High = Blocks[download.name] + 1
    BY <1>3 DEF High
  <2>4. Answers(download.acknowledged)
    <3>1. download.acknowledged < High
      BY <2>2, <2>3
    <3>2. QED
      BY <2>2, <3>1 DEF InBand, CommandsFit
  <2>5. QED
    BY <1>3, <2>4 DEF Answers
<1>7. Asking
  BY <1>3, <1>6 DEF InBand, Phases
<1>8. toClient = <<>>
  BY <1>4, <1>7 DEF Asking
<1>9. /\ download' = [CloseDownload(download) EXCEPT !.name = f]
      /\ UNCHANGED <<present, toClient>>
  BY <1>1 DEF BeginDownload_f
<1>10. /\ download \in ServerRecord /\ download' \in ServerRecord
       /\ ~download'.open /\ download'.name = f
       /\ download'.acknowledged = download.acknowledged
       /\ download'.buffered = download.buffered
       /\ download'.redirectAcknowledged = download.redirectAcknowledged
  BY <1>5, <1>9 DEF CloseDownload, PakTyped, ServerRecord
<1>11. PakTyped'
  <2>1. /\ present' = TRUE /\ download'.acknowledged <= download'.buffered
        /\ download'.buffered <= download'.acknowledged + Window
        /\ toServer' \in Seq(ClientCommand) /\ toClient' \in Seq(DownloadRecord)
    BY <1>3, <1>9, <1>10 DEF PakTyped
  <2>2. QED
    BY <1>10, <2>1, ServerTyped
<1>12. client.state # "refused"
  BY <1>3 DEF InBand, ClientCopies, Idle
<1>13. ClientCopies'
  BY <1>12 DEF InBand, ClientCopies, Orderly, Lossy, Prompt
<1>14. ServerServes'
  BY <1>10 DEF InBand, ServerServes, WindowHeld
<1>15. CommandsFit'
  <2>1. DOMAIN toServer' = {}
    BY <1>3
  <2>2. QED
    BY <1>10, <2>1 DEF CommandsFit
<1>16. RecordsFit'
  BY <1>8, <1>9 DEF RecordsFit
<1>17. Phases'
  <2>1. Beginning'
    BY <1>3, <1>4, <1>8, <1>9, <1>10 DEF Beginning
  <2>2. f # None
    BY <1>5
  <2>3. QED
    BY <1>3, <1>10, <2>1, <2>2 DEF Phases, Idle
<1>18. QED
  BY <1>11, <1>13, <1>14, <1>15, <1>16, <1>17 DEF InBand

\* SV_DoneDownload_f
LEMMA DoneInBand ==
  ASSUME PakTyped, InBand, toServer # <<>>, toServer[1].command = "donedl",
         DoneDownload_f, toServer' = Tail(toServer), UNCHANGED <<client, session>>
  PROVE  PakTyped' /\ InBand'
<1>1. Wants(toServer[1])
  BY DEF Wants
<1>2. /\ CommandFits(1, toServer[1])
      /\ WantsMore /\ toServer' = <<>> /\ ~WantsMore' /\ Len(toServer) = 1
      /\ DOMAIN toServer = {1}
  <2>1. /\ CommandFits(1, toServer[1]) /\ 1 \in DOMAIN toServer
        /\ WantsMore /\ toServer' = <<>> /\ ~WantsMore'
    BY <1>1, AfterCommand
  <2>2. Len(toServer) = 1
    BY <1>1, <2>1 DEF CommandFits
  <2>3. DOMAIN toServer = 1 .. 1
    BY <2>2, InBandFile
  <2>4. QED
    BY <2>1, <2>2, <2>3
<1>3. client.temp = None
  BY <1>2 DEF CommandFits
<1>4. ~download.open
  <2> SUFFICES ASSUME download.open PROVE FALSE
    BY InBandFile
  <2>1. /\ download.acknowledged <= Blocks[download.name]
        /\ download.acknowledged \in Nat /\ Blocks[download.name] \in Nat
    BY InBandFile DEF InBand, ServerServes
  <2>2. High = Blocks[download.name] + 1
    BY <1>2 DEF High
  <2>3. Answers(download.acknowledged)
    <3>1. download.acknowledged < High
      BY <2>1, <2>2
    <3>2. QED
      BY <2>1, <3>1 DEF InBand, CommandsFit
  <2>4. QED
    BY <1>2, <2>3 DEF Answers
<1>5. Asking
  BY <1>2, <1>4 DEF InBand, Phases
<1>6. /\ toClient' = toClient \o <<GameState>> /\ UNCHANGED <<download, present>>
  BY DEF DoneDownload_f, Post
<1>7. /\ toClient \in Seq(DownloadRecord) /\ GameState \in DownloadRecord
  BY DEF PakTyped, GameState, DownloadRecord
<1>8. /\ toClient' \in Seq(DownloadRecord) /\ Len(toClient') = Len(toClient) + 1
      /\ \A j \in DOMAIN toClient' :
            \/ j \in DOMAIN toClient /\ toClient'[j] = toClient[j]
            \/ toClient'[j] = GameState
  BY <1>6, <1>7, WithOne
<1>9. PakTyped'
  <2>1. /\ present' = TRUE /\ download'.acknowledged <= download'.buffered
        /\ download'.buffered <= download'.acknowledged + Window
        /\ toServer' \in Seq(ClientCommand) /\ download' \in ServerRecord
    BY <1>2, <1>6 DEF PakTyped
  <2>2. QED
    BY <1>8, <2>1, ServerTyped
<1>10. Idle'
  BY <1>2, <1>4, <1>5, <1>6 DEF Idle, Asking
<1>11. ClientCopies'
  BY <1>10 DEF InBand, ClientCopies, Orderly, Lossy, Prompt
<1>12. ServerServes'
  BY <1>4, <1>6 DEF InBand, ServerServes, WindowHeld
<1>13. CommandsFit'
  <2>1. DOMAIN toServer' = {}
    BY <1>2
  <2>2. QED
    BY <1>4, <1>6, <2>1 DEF CommandsFit
<1>14. RecordsFit'
  <2> SUFFICES ASSUME NEW j \in DOMAIN toClient' PROVE RecordFits(toClient[j])'
    BY DEF RecordsFit
  <2>1. CASE j \in DOMAIN toClient /\ toClient'[j] = toClient[j]
    <3>1. RecordFits(toClient[j])
      BY <2>1 DEF InBand, RecordsFit
    <3>2. ~Idle /\ \A n \in Nat : ~Due(n, toClient[j].data)
      BY <1>2 DEF Idle, Due
    <3>3. QED
      BY <2>1, <3>1, <3>2 DEF RecordFits
  <2>2. CASE toClient'[j] = GameState
    BY <1>3, <1>10, <2>2 DEF RecordFits, GameState
  <2>3. QED
    BY <1>8, <2>1, <2>2
<1>15. Resting'
  <2>1. Orderly => toClient = <<>>
    BY <1>5 DEF Asking
  <2>2. Orderly => Len(toClient') = 1
    BY <1>8, <2>1
  <2>3. ASSUME NEW j \in DOMAIN toClient', toClient'[j].kind = "block"
        PROVE  ~Orderly
    <3>1. toClient'[j] # GameState
      BY <2>3 DEF GameState
    <3>2. j \in DOMAIN toClient
      BY <1>8, <3>1
    <3>3. toClient # <<>>
      BY <3>2
    <3>4. QED
      BY <2>1, <3>3
  <2>4. (Orderly' <=> Orderly) /\ client'.temp = None
    BY <1>3 DEF Orderly, Lossy, Prompt
  <2>5. \A j \in DOMAIN toClient' :
           toClient'[j].kind = "block" => ~Orderly' /\ client'.temp = None
    BY <2>3, <2>4
  <2>6. Orderly' /\ client'.temp = None => Len(toClient') <= 1
    <3>1. Orderly' => Orderly
      BY <2>4
    <3>2. Len(toClient') = 1 => Len(toClient') <= 1
      OBVIOUS
    <3>3. QED
      BY <2>2, <3>1, <3>2
  <2>7. QED
    BY <2>4, <2>5, <2>6 DEF Resting
<1>16. Phases'
  BY <1>10, <1>15 DEF Phases, Idle
<1>17. QED
  BY <1>9, <1>11, <1>12, <1>13, <1>14, <1>16 DEF InBand

\* SV_RetransmitDownload_f
LEMMA RetransmitInBand ==
  ASSUME PakTyped, InBand, toServer # <<>>, toServer[1].command = "retransdl",
         RetransmitDownload_f(toServer[1].block), toServer' = Tail(toServer),
         UNCHANGED <<client, session>>
  PROVE  PakTyped' /\ InBand'
<1>1. PICK n : n = toServer[1].block
  OBVIOUS
<1>2. ~Wants(toServer[1])
  BY DEF Wants
<1>3. /\ toServer' \in Seq(ClientCommand) /\ toServer[1] \in ClientCommand
      /\ CommandFits(1, toServer[1])
      /\ Len(toServer) \in Nat /\ Len(toServer') = Len(toServer) - 1
      /\ \A j \in DOMAIN toServer' :
            /\ j \in Nat \ {0} /\ j + 1 \in DOMAIN toServer
            /\ toServer'[j] = toServer[j + 1]
      /\ \A j \in DOMAIN toServer :
            j # 1 => j - 1 \in DOMAIN toServer' /\ toServer'[j - 1] = toServer[j]
      /\ WantsMore' <=> WantsMore
  BY <1>2, AfterCommand
<1>4. ~Orderly
  BY <1>3 DEF CommandFits
<1>5. n \in Nat
  BY <1>1, <1>3 DEF ClientCommand
<1>6. PICK t : t = IF n = download.acknowledged THEN n ELSE download.transmit
  OBVIOUS
<1>7. /\ download' = [download EXCEPT !.transmit = t]
      /\ UNCHANGED <<present, toClient>>
  BY <1>1, <1>6 DEF RetransmitDownload_f
<1>8. download \in ServerRecord /\ t \in Nat
  BY <1>5, <1>6 DEF PakTyped, ServerRecord
<1>9. /\ download' \in ServerRecord /\ download'.transmit = t
      /\ download'.open = download.open /\ download'.name = download.name
      /\ download'.acknowledged = download.acknowledged
      /\ download'.buffered = download.buffered
      /\ download'.read = download.read /\ download'.eof = download.eof
      /\ download'.slots = download.slots
      /\ download'.redirectAcknowledged = download.redirectAcknowledged
  BY <1>7, <1>8 DEF ServerRecord
<1>10. PakTyped'
  <2>1. /\ present' = TRUE /\ download'.acknowledged <= download'.buffered
        /\ download'.buffered <= download'.acknowledged + Window
        /\ toClient' \in Seq(DownloadRecord)
    BY <1>7, <1>9 DEF PakTyped
  <2>2. QED
    BY <1>3, <1>9, <2>1, ServerTyped
<1>11. (Idle' <=> Idle) /\ (Orderly' <=> Orderly) /\ High' = High
  BY <1>3, <1>9 DEF Idle, Orderly, Lossy, Prompt, High
<1>12. ClientCopies'
  BY <1>11 DEF InBand, ClientCopies
<1>13. ServerServes'
  <2>1. download.open => download'.transmit <= download'.buffered
    BY <1>6, <1>8, <1>9 DEF InBand, ServerServes, PakTyped
  <2>2. WindowHeld'
    BY <1>9 DEF InBand, ServerServes, WindowHeld
  <2>3. QED
    BY <1>9, <2>1, <2>2 DEF InBand, ServerServes
<1>14. CommandsFit'
  <2>1. ASSUME NEW j \in DOMAIN toServer' PROVE CommandFits(j, toServer[j])'
    <3>1. /\ j \in Nat \ {0} /\ j + 1 \in DOMAIN toServer
          /\ toServer'[j] = toServer[j + 1]
      BY <1>3
    <3>2. CommandFits(j + 1, toServer[j + 1])
      BY <3>1 DEF InBand, CommandsFit
    <3>3. Wants(toServer'[j]) => j = Len(toServer')
      BY <1>3, <3>1, <3>2 DEF CommandFits
    <3>4. QED
      BY <1>9, <1>11, <3>1, <3>2, <3>3 DEF CommandFits, Wants
  <2>2. ASSUME NEW j \in DOMAIN toServer', NEW k \in DOMAIN toServer', j < k,
               toServer'[j].command = "nextdl", toServer'[k].command = "nextdl"
        PROVE  toServer'[j].block < toServer'[k].block
    <3>1. /\ j \in Nat /\ j + 1 \in DOMAIN toServer /\ toServer'[j] = toServer[j + 1]
          /\ k \in Nat /\ k + 1 \in DOMAIN toServer /\ toServer'[k] = toServer[k + 1]
      BY <1>3
    <3>2. j + 1 < k + 1
      BY <2>2, <3>1
    <3>3. QED
      BY <2>2, <3>1, <3>2 DEF InBand, CommandsFit
  <2>3. ASSUME NEW x \in Nat, Answers(x) PROVE Answers(x)'
    <3>1. PICK j \in DOMAIN toServer :
             toServer[j].command = "nextdl" /\ toServer[j].block = x
      BY <2>3 DEF Answers
    <3>2. j # 1
      BY <3>1
    <3>3. j - 1 \in DOMAIN toServer' /\ toServer'[j - 1] = toServer[j]
      BY <1>3, <3>2
    <3>4. QED
      BY <3>1, <3>3 DEF Answers
  <2>4. (download.open =>
          \A x \in Nat : download.acknowledged <= x /\ x < High => Answers(x))'
    BY <1>9, <1>11, <2>3 DEF InBand, CommandsFit
  <2>5. QED
    BY <2>1, <2>2, <2>4 DEF CommandsFit
<1>15. RecordsFit'
  <2> SUFFICES ASSUME NEW j \in DOMAIN toClient' PROVE RecordFits(toClient[j])'
    BY DEF RecordsFit
  <2>1. RecordFits(toClient[j]) /\ toClient'[j] = toClient[j]
    BY <1>7 DEF InBand, RecordsFit
  <2>2. \A x \in Nat : Due(x, toClient[j].data)' <=> Due(x, toClient[j].data)
    BY <1>3, <1>7, <1>9 DEF Due
  <2>3. QED
    BY <1>11, <2>1, <2>2 DEF RecordFits
<1>16. Phases'
  <2>1. Finishing => Finishing'
    BY <1>4, <1>9, <1>11 DEF Finishing
  <2>2. Asking => Asking'
    BY <1>7, <1>9, <1>11 DEF Asking
  <2>3. Copying => Copying'
    BY <1>4, <1>9, <1>11 DEF Copying
  <2>4. ~Beginning
    BY DEF Beginning
  <2>5. Resting => Resting'
    BY <1>7, <1>11 DEF Resting
  <2>6. QED
    BY <1>3, <1>9, <1>11, <2>1, <2>2, <2>3, <2>4, <2>5 DEF InBand, Phases
<1>17. QED
  BY <1>10, <1>12, <1>13, <1>14, <1>15, <1>16 DEF InBand

\* SV_NextDownload_f: the answer is the one that the server waits for.
LEMMA NextInBand ==
  ASSUME PakTyped, InBand, toServer # <<>>, toServer[1].command = "nextdl",
         NextDownload_f(toServer[1].block), toServer' = Tail(toServer),
         UNCHANGED <<client, session>>
  PROVE  PakTyped' /\ InBand'
<1>1. PICK n : n = toServer[1].block
  OBVIOUS
<1>2. ~Wants(toServer[1])
  BY DEF Wants
<1>3. /\ toServer' \in Seq(ClientCommand) /\ toServer[1] \in ClientCommand
      /\ 1 \in DOMAIN toServer /\ CommandFits(1, toServer[1])
      /\ Len(toServer) \in Nat /\ Len(toServer') = Len(toServer) - 1
      /\ \A j \in DOMAIN toServer' :
            /\ j \in Nat \ {0} /\ j + 1 \in DOMAIN toServer
            /\ toServer'[j] = toServer[j + 1]
      /\ \A j \in DOMAIN toServer :
            j # 1 => j - 1 \in DOMAIN toServer' /\ toServer'[j - 1] = toServer[j]
      /\ WantsMore' <=> WantsMore
  BY <1>2, AfterCommand
<1>4. /\ download.open /\ download.acknowledged <= n /\ n < High /\ n \in Nat
  <2>1. n \in Nat
    BY <1>1, <1>3 DEF ClientCommand
  <2>2. QED
    BY <1>1, <1>3, <2>1 DEF CommandFits
<1>5. PICK a : a = download.acknowledged
  OBVIOUS
<1>6. /\ a \in Nat /\ download.buffered \in Nat /\ client.block \in Nat
      /\ download.name \in session.lacks /\ download.name \in File
      /\ Blocks[download.name] \in Nat
      /\ DOMAIN toServer = 1 .. Len(toServer)
  BY <1>4, <1>5, InBandFile
<1>7. High \in Nat
  BY <1>6 DEF High
<1>8. \A j \in DOMAIN toServer : j # 1 /\ toServer[j].command = "nextdl" =>
         toServer[j].block > n
  <2> SUFFICES ASSUME NEW j \in DOMAIN toServer, j # 1, toServer[j].command = "nextdl"
               PROVE  toServer[j].block > n
    OBVIOUS
  <2>1. 1 < j
    BY <1>6
  <2>2. toServer[1].block < toServer[j].block
    BY <1>3, <2>1 DEF InBand, CommandsFit
  <2>3. toServer[j].block \in Nat
    <3>1. toServer[j] \in ClientCommand
      BY <1>6, ElementOfSeq DEF PakTyped
    <3>2. QED
      BY <3>1 DEF ClientCommand
  <2>4. QED
    BY <1>1, <1>4, <2>2, <2>3
<1>9. n = a
  <2>1. a < High
    BY <1>4, <1>5, <1>6, <1>7
  <2>2. Answers(a)
    BY <1>4, <1>5, <1>6, <2>1 DEF InBand, CommandsFit
  <2>3. PICK j \in DOMAIN toServer : toServer[j].command = "nextdl" /\ toServer[j].block = a
    BY <2>2 DEF Answers
  <2>4. CASE j = 1
    BY <1>1, <2>3, <2>4
  <2>5. CASE j # 1
    <3>1. a > n
      BY <1>8, <2>3, <2>5
    <3>2. QED
      BY <1>4, <1>5, <1>6, <3>1
  <2>6. QED
    BY <2>4, <2>5
<1>10. a < download.buffered
  <2>1. CASE WantsMore
    <3>1. Finishing
      BY <1>4, <2>1 DEF InBand, Phases
    <3>2. QED
      BY <1>4, <1>6, <1>9, <2>1, <3>1 DEF Finishing, High
  <2>2. CASE ~WantsMore
    <3>1. Copying
      BY <1>4, <2>2 DEF InBand, Phases
    <3>2. QED
      BY <1>4, <1>6, <1>9, <2>2, <3>1 DEF Copying, High
  <2>3. QED
    BY <2>1, <2>2
<1>11. /\ download.slots[a % Window] = BlockOf(download.name, a)
       /\ BlockOf(download.name, a) = Eof <=> a >= Blocks[download.name]
  <2>1. Holds(download)
    BY <1>4, InBandWindow
  <2>2. download.slots[a % Window] = BlockOf(download.name, a)
    BY <1>5, <1>6, <1>10, <2>1 DEF Holds
  <2>3. BlockOf(download.name, a) = Eof <=> a >= Blocks[download.name]
    BY <1>6, BlockOfProperties
  <2>4. QED
    BY <2>2, <2>3
<1>12. /\ present' = present /\ toClient' = toClient
       /\ download' = IF a >= Blocks[download.name]
                        THEN CloseDownload(download)
                        ELSE [download EXCEPT !.acknowledged = a + 1]
  BY <1>1, <1>5, <1>9, <1>11 DEF NextDownload_f
<1>13. (Orderly' <=> Orderly) /\ download \in ServerRecord
  BY DEF Orderly, Lossy, Prompt, PakTyped
<1>14. ASSUME NEW j \in DOMAIN toServer', NEW k \in DOMAIN toServer', j < k,
              toServer'[j].command = "nextdl", toServer'[k].command = "nextdl"
       PROVE  toServer'[j].block < toServer'[k].block
  <2>1. /\ j \in Nat /\ j + 1 \in DOMAIN toServer /\ toServer'[j] = toServer[j + 1]
        /\ k \in Nat /\ k + 1 \in DOMAIN toServer /\ toServer'[k] = toServer[k + 1]
    BY <1>3
  <2>2. j + 1 < k + 1
    BY <1>14, <2>1
  <2>3. QED
    BY <1>14, <2>1, <2>2 DEF InBand, CommandsFit
<1>15. ASSUME NEW j \in DOMAIN toServer'
       PROVE  /\ j + 1 \in DOMAIN toServer /\ toServer'[j] = toServer[j + 1]
              /\ CommandFits(j + 1, toServer'[j])
              /\ Wants(toServer'[j]) => j = Len(toServer')
              /\ toServer'[j].command = "nextdl" => toServer'[j].block > n
  <2>1. /\ j \in Nat \ {0} /\ j + 1 \in DOMAIN toServer
        /\ toServer'[j] = toServer[j + 1]
    BY <1>3
  <2>2. CommandFits(j + 1, toServer'[j])
    BY <2>1 DEF InBand, CommandsFit
  <2>3. Wants(toServer'[j]) => j = Len(toServer')
    BY <1>3, <2>1, <2>2 DEF CommandFits
  <2>4. j + 1 # 1
    BY <2>1
  <2>5. QED
    BY <1>8, <2>1, <2>2, <2>3, <2>4
<1>16. CASE a >= Blocks[download.name]
  <2>1. WantsMore /\ n = Blocks[download.name]
    <3>1. ASSUME ~WantsMore PROVE FALSE
      <4>1. Copying /\ High = client.block
        BY <1>4, <3>1 DEF InBand, Phases, High
      <4>2. client.temp = download.name /\ client.temp # None
        BY <1>6, <4>1 DEF Copying
      <4>3. client.block <= Blocks[download.name]
        BY <4>2 DEF InBand, ClientCopies
      <4>4. QED
        BY <1>4, <1>6, <1>9, <1>16, <4>1, <4>3
    <3>2. High = Blocks[download.name] + 1
      BY <3>1 DEF High
    <3>3. QED
      BY <1>4, <1>6, <1>9, <1>16, <3>1, <3>2
  <2>2. /\ download' \in ServerRecord /\ ~download'.open /\ download'.name = None
        /\ download'.acknowledged = download.acknowledged
        /\ download'.buffered = download.buffered
        /\ download'.redirectAcknowledged = download.redirectAcknowledged
    BY <1>12, <1>13, <1>16 DEF CloseDownload, ServerRecord
  <2>3. Finishing
    BY <1>4, <2>1 DEF InBand, Phases
  <2>4. PakTyped'
    <3>1. /\ present' = TRUE /\ download'.acknowledged <= download'.buffered
          /\ download'.buffered <= download'.acknowledged + Window
          /\ toClient' \in Seq(DownloadRecord)
      BY <1>12, <2>2 DEF PakTyped
    <3>2. QED
      BY <1>3, <2>2, <3>1, ServerTyped
  <2>5. ClientCopies'
    <3>1. client.state # "refused"
      BY <2>1 DEF InBand, ClientCopies, Idle
    <3>2. QED
      BY <1>13, <3>1 DEF InBand, ClientCopies
  <2>6. ServerServes'
    BY <2>2 DEF InBand, ServerServes, WindowHeld
  <2>7. CommandsFit'
    <3>1. ASSUME NEW j \in DOMAIN toServer' PROVE CommandFits(j, toServer[j])'
      <4>1. toServer'[j].command # "nextdl"
        <5> SUFFICES ASSUME toServer'[j].command = "nextdl" PROVE FALSE
          OBVIOUS
        <5>1. toServer'[j].block > n /\ toServer'[j].block < High
          BY <1>15 DEF CommandFits
        <5>2. High = n + 1
          BY <2>1 DEF High
        <5>3. toServer'[j] \in ClientCommand
          <6>1. j + 1 \in 1 .. Len(toServer) /\ toServer'[j] = toServer[j + 1]
            BY <1>6, <1>15
          <6>2. QED
            BY <6>1, ElementOfSeq DEF PakTyped
        <5>4. toServer'[j].block \in Nat
          BY <5>3 DEF ClientCommand
        <5>5. QED
          BY <1>4, <5>1, <5>2, <5>4
      <4>2. QED
        BY <1>13, <1>15, <4>1 DEF CommandFits, Wants
    <3>2. QED
      BY <1>14, <2>2, <3>1 DEF CommandsFit
  <2>8. RecordsFit'
    <3> SUFFICES ASSUME NEW j \in DOMAIN toClient' PROVE RecordFits(toClient[j])'
      BY DEF RecordsFit
    <3>1. RecordFits(toClient[j]) /\ toClient'[j] = toClient[j]
      BY <1>12 DEF InBand, RecordsFit
    <3>2. ~Idle /\ ~Idle' /\ \A x \in Nat : ~Due(x, toClient[j].data)
      BY <1>3, <2>1 DEF Idle, Due
    <3>3. QED
      BY <3>1, <3>2 DEF RecordFits
  <2>9. Phases'
    <3>1. Asking'
      <4>1. Orderly => toClient' = <<>>
        BY <1>12, <2>3 DEF Finishing
      <4>2. ~Orderly => client'.temp = None
        BY <2>3 DEF Finishing
      <4>3. QED
        BY <1>13, <2>2, <4>1, <4>2 DEF Asking
    <3>2. QED
      BY <1>3, <2>1, <2>2, <3>1 DEF Phases, Idle
  <2>10. QED
    BY <2>4, <2>5, <2>6, <2>7, <2>8, <2>9 DEF InBand
<1>17. CASE a < Blocks[download.name]
  <2>1. download' = [download EXCEPT !.acknowledged = a + 1]
    BY <1>6, <1>12, <1>17
  <2>2. /\ download' \in ServerRecord /\ download'.open /\ download'.name = download.name
        /\ download'.acknowledged = a + 1
        /\ download'.buffered = download.buffered
        /\ download'.transmit = download.transmit
        /\ download'.read = download.read /\ download'.eof = download.eof
        /\ download'.slots = download.slots
        /\ download'.redirectAcknowledged = download.redirectAcknowledged
    <3>1. PICK b : b = a + 1
      OBVIOUS
    <3>2. b \in Nat /\ download' = [download EXCEPT !.acknowledged = b]
      BY <1>6, <2>1, <3>1
    <3>3. download' \in ServerRecord
      BY <1>13, <3>2 DEF ServerRecord
    <3>4. QED
      BY <1>4, <1>13, <3>1, <3>2, <3>3 DEF ServerRecord
  <2>3. PakTyped'
    <3>1. /\ download'.acknowledged <= download'.buffered
          /\ download'.buffered <= download'.acknowledged + Window
      <4>1. download.buffered <= download.acknowledged + Window /\ Window \in Nat
        BY DEF PakTyped
      <4>2. QED
        BY ONLY <1>5, <1>6, <1>10, <2>2, <4>1
    <3>2. present' = TRUE /\ toClient' \in Seq(DownloadRecord)
      BY <1>12 DEF PakTyped
    <3>3. QED
      BY <1>3, <2>2, <3>1, <3>2, ServerTyped
  <2>4. High' = High /\ ~Idle /\ ~Idle'
    BY <1>3, <1>4, <2>2 DEF High, Idle
  <2>5. ClientCopies'
    BY <1>13, <2>4 DEF InBand, ClientCopies
  <2>6. ServerServes'
    <3>1. download'.acknowledged <= Blocks[download'.name]
      BY <1>6, <1>17, <2>2
    <3>2. WindowHeld'
      <4>1. \A x \in a + 1 .. download.buffered - 1 : x \in a .. download.buffered - 1
        BY <1>6
      <4>2. QED
        BY <1>4, <1>5, <2>2, <4>1 DEF InBand, ServerServes, WindowHeld
    <3>3. QED
      BY <1>4, <2>2, <3>1, <3>2 DEF InBand, ServerServes
  <2>7. CommandsFit'
    <3>1. ASSUME NEW j \in DOMAIN toServer' PROVE CommandFits(j, toServer[j])'
      <4>1. toServer'[j].command = "nextdl" => toServer'[j].block >= download'.acknowledged
        <5> SUFFICES ASSUME toServer'[j].command = "nextdl"
                     PROVE  toServer'[j].block >= download'.acknowledged
          OBVIOUS
        <5>1. toServer'[j].block > n
          BY <1>15
        <5>2. toServer'[j] \in ClientCommand
          <6>1. j + 1 \in 1 .. Len(toServer) /\ toServer'[j] = toServer[j + 1]
            BY <1>6, <1>15
          <6>2. QED
            BY <6>1, ElementOfSeq DEF PakTyped
        <5>3. toServer'[j].block \in Nat
          BY <5>2 DEF ClientCommand
        <5>4. QED
          BY <1>4, <1>9, <2>2, <5>1, <5>3
      <4>2. QED
        BY <1>13, <1>15, <2>2, <2>4, <4>1 DEF CommandFits, Wants
    <3>2. ASSUME NEW x \in Nat, download'.acknowledged <= x, x < High'
          PROVE  Answers(x)'
      <4>1. a <= x /\ x # n
        BY <1>6, <1>9, <2>2, <3>2
      <4>2. Answers(x)
        BY <1>4, <1>5, <2>4, <3>2, <4>1 DEF InBand, CommandsFit
      <4>3. PICK j \in DOMAIN toServer :
               toServer[j].command = "nextdl" /\ toServer[j].block = x
        BY <4>2 DEF Answers
      <4>4. j # 1
        BY <1>1, <4>1, <4>3
      <4>5. j - 1 \in DOMAIN toServer' /\ toServer'[j - 1] = toServer[j]
        BY <1>3, <4>4
      <4>6. QED
        BY <4>3, <4>5 DEF Answers
    <3>3. QED
      BY <1>14, <3>1, <3>2 DEF CommandsFit
  <2>8. RecordsFit'
    <3> SUFFICES ASSUME NEW j \in DOMAIN toClient' PROVE RecordFits(toClient[j])'
      BY DEF RecordsFit
    <3>1. RecordFits(toClient[j]) /\ toClient'[j] = toClient[j]
      BY <1>12 DEF InBand, RecordsFit
    <3>2. \A x \in Nat : Due(x, toClient[j].data)' <=> Due(x, toClient[j].data)
      BY <1>3, <1>4, <1>12, <2>2 DEF Due
    <3>3. QED
      BY <2>4, <3>1, <3>2 DEF RecordFits
  <2>9. Phases'
    <3>1. Finishing => Finishing'
      BY <1>12, <1>13, <2>2 DEF Finishing
    <3>2. ASSUME Copying, ~WantsMore PROVE Copying'
      <4>1. a + 1 <= client.block
        BY <1>4, <1>6, <1>9, <3>2 DEF High
      <4>2. QED
        BY <1>12, <1>13, <2>2, <3>2, <4>1 DEF Copying
    <3>3. QED
      BY <1>3, <1>4, <2>2, <2>4, <3>1, <3>2 DEF InBand, Phases
  <2>10. QED
    BY <2>3, <2>5, <2>6, <2>7, <2>8, <2>9 DEF InBand
<1>18. QED
  BY <1>6, <1>16, <1>17

-----------------------------------------------------------------------------
(* In band: the client *)

LEMMA ShortSame ==
  ASSUME NEW n \in Nat, n < ShortLimit
  PROVE  AsShort(n) = n
<1> DEFINE R == 2 * ShortLimit
           x == n + ShortLimit
<1>1. R \in Nat \ {0} /\ x \in 0 .. R - 1 /\ 0 \in Int
  OBVIOUS
<1>2. x % R = x
  <2>1. 0 * R + x = x
    BY <1>1
  <2> HIDE DEF R, x
  <2>2. (0 * R + x) % R = x
    BY <1>1, Remainder
  <2>3. QED
    BY <2>1, <2>2
<1>3. x - ShortLimit = n
  OBVIOUS
<1>4. QED
  BY <1>2, <1>3 DEF AsShort

\* CL_ParseDownload, a block that is due: it is written and answered.
LEMMA ParseData ==
  ASSUME NEW c \in ClientRecord, c.commands = <<>>, c.temp \in File,
         c.temp \in Writable, NEW data \in Block, data # Eof
  PROVE  /\ ParseBlock(c, c.block, data) \in ClientRecord
         /\ ParseBlock(c, c.block, data) =
              [c EXCEPT !.open = TRUE, !.copy = Append(c.copy, data),
                        !.commands = <<BlockCommand("nextdl", c.block)>>,
                        !.block = c.block + 1]
<1>1. PICK copy : copy = Append(c.copy, data)
  OBVIOUS
<1>2. PICK commands : commands = <<BlockCommand("nextdl", c.block)>>
  OBVIOUS
<1>3. PICK b : b = c.block + 1
  OBVIOUS
<1>4. c.block \in Nat /\ b \in Nat
  <2>1. c \in ClientRecord
    OBVIOUS
  <2>2. QED
    BY ONLY <1>3, <2>1 DEF ClientRecord
<1>5. copy \in Seq(Block \cup {Eof})
  <2>1. c.copy \in Seq(Block \cup {Eof}) /\ data \in Block \cup {Eof}
    BY DEF ClientRecord
  <2>2. QED
    BY <1>1, <2>1, AppendProperties
<1>6. commands \in Seq(ClientCommand)
  <2>1. "nextdl" \in CommandName
    BY DEF CommandName
  <2>2. BlockCommand("nextdl", c.block) \in ClientCommand
    BY <1>4, <2>1, BlockCommandFields
  <2>3. QED
    BY <1>2, <2>2
<1>7. Append(c.commands, BlockCommand("nextdl", c.block)) = commands
  BY <1>2
<1>8. /\ ~(c.block < c.block) /\ ~(c.block > c.block)
      /\ c.temp # None /\ c.temp \notin File \ Writable
  BY <1>4
<1>9. ParseBlock(c, c.block, data) =
        [c EXCEPT !.open = TRUE, !.copy = copy, !.commands = commands, !.block = b]
  <2>1. ParseBlock(c, c.block, data) =
          [Say([[c EXCEPT !.open = TRUE] EXCEPT !.copy = Append(@, data)],
               BlockCommand("nextdl", c.block)) EXCEPT !.block = @ + 1]
    BY <1>8 DEF ParseBlock
  <2>2. QED
    BY <1>1, <1>3, <1>7, <2>1 DEF Say, ClientRecord
<1>10. [c EXCEPT !.open = TRUE, !.copy = copy, !.commands = commands, !.block = b]
          \in ClientRecord
  BY <1>4, <1>5, <1>6 DEF ClientRecord
<1>11. QED
  BY <1>1, <1>2, <1>3, <1>9, <1>10

\* CL_ParseDownload, the empty block that is due: the file is complete.
LEMMA ParseEnd ==
  ASSUME NEW c \in ClientRecord, c.commands = <<>>, c.temp \in File,
         c.name = c.temp, c.temp \in Writable,
         NEW m, m = [c EXCEPT !.open = FALSE, !.copy = <<>>,
                              !.disk = [c.disk EXCEPT ![c.temp] = c.copy],
                              !.name = None, !.temp = None,
                              !.commands = <<BlockCommand("nextdl", c.block)>>,
                              !.block = c.block + 1]
  PROVE  /\ m \in ClientRecord
         /\ ParseBlock(c, c.block, Eof) = NextDownload(m)
<1>1. PICK disk : disk = [c.disk EXCEPT ![c.temp] = c.copy]
  OBVIOUS
<1>2. PICK commands : commands = <<BlockCommand("nextdl", c.block)>>
  OBVIOUS
<1>3. PICK b : b = c.block + 1
  OBVIOUS
<1>4. c.block \in Nat /\ b \in Nat
  <2>1. c \in ClientRecord
    OBVIOUS
  <2>2. QED
    BY ONLY <1>3, <2>1 DEF ClientRecord
<1>5. disk \in [File -> Seq(Block \cup {Eof})]
  <2>1. c.copy \in Seq(Block \cup {Eof}) /\ c.disk \in [File -> Seq(Block \cup {Eof})]
    BY DEF ClientRecord
  <2>2. QED
    BY <1>1, <2>1
<1>6. commands \in Seq(ClientCommand)
  <2>1. "nextdl" \in CommandName
    BY DEF CommandName
  <2>2. BlockCommand("nextdl", c.block) \in ClientCommand
    BY <1>4, <2>1, BlockCommandFields
  <2>3. QED
    BY <1>2, <2>2
<1>7. Append(c.commands, BlockCommand("nextdl", c.block)) = commands
  BY <1>2
<1>8. /\ ~(c.block < c.block) /\ ~(c.block > c.block)
      /\ c.temp # None /\ c.temp \notin File \ Writable
  BY <1>4
<1>9. m = [c EXCEPT !.open = FALSE, !.copy = <<>>, !.disk = disk, !.name = None,
                    !.temp = None, !.commands = commands, !.block = b]
  BY <1>1, <1>2, <1>3
<1>10. m \in ClientRecord
  <2>1. <<>> \in Seq(Block \cup {Eof})
    OBVIOUS
  <2>2. [c EXCEPT !.open = FALSE, !.copy = <<>>, !.disk = disk, !.name = None,
                  !.temp = None, !.commands = commands, !.block = b] \in ClientRecord
    BY <1>4, <1>5, <1>6, <2>1 DEF ClientRecord
  <2>3. QED
    BY <1>9, <2>2
<1>11. ParseBlock(c, c.block, Eof) = NextDownload(m)
  <2>1. PICK k : k = [Say([c EXCEPT !.open = TRUE], BlockCommand("nextdl", c.block))
                        EXCEPT !.block = @ + 1]
    OBVIOUS
  <2>2. k = [c EXCEPT !.open = TRUE, !.commands = commands, !.block = b]
    BY <1>3, <1>7, <2>1 DEF Say, ClientRecord
  <2>3. ParseBlock(c, c.block, Eof) = Finish(k)
    BY <1>8, <2>1 DEF ParseBlock
  <2>4. [k EXCEPT !.open = FALSE, !.copy = <<>>, !.disk[k.name] = k.copy,
                  !.name = None, !.temp = None] = m
    <3>1. c \in ClientRecord
      OBVIOUS
    <3>2. k.name = c.name /\ k.copy = c.copy /\ k.disk = c.disk
      BY ONLY <2>2, <3>1, SMTT(20) DEF ClientRecord
    <3>3. [k EXCEPT !.open = FALSE, !.copy = <<>>, !.disk[k.name] = k.copy,
                    !.name = None, !.temp = None] =
          [k EXCEPT !.open = FALSE, !.copy = <<>>,
                    !.disk = [c.disk EXCEPT ![c.name] = c.copy],
                    !.name = None, !.temp = None]
      BY ONLY <3>2
    <3>4. disk = [c.disk EXCEPT ![c.name] = c.copy]
      BY <1>1
    <3>5. [k EXCEPT !.open = FALSE, !.copy = <<>>, !.disk = disk,
                    !.name = None, !.temp = None] = m
      BY ONLY <1>9, <2>2, <3>1 DEF ClientRecord
    <3>6. QED
      BY ONLY <3>3, <3>4, <3>5
  <2>5. QED
    BY <2>3, <2>4 DEF Finish
<1>12. QED
  BY <1>10, <1>11

\* What the client has read is no longer under way.
LEMMA Received ==
  ASSUME PakTyped, InBand, NEW i \in DOMAIN toClient,
         toClient' = SubSeq(toClient, i + 1, Len(toClient))
  PROVE  /\ toClient[i] \in DownloadRecord /\ RecordFits(toClient[i])
         /\ toClient' \in Seq(DownloadRecord) /\ toClient # <<>>
         /\ i \in Nat \ {0} /\ Len(toClient) \in Nat
         /\ Len(toClient') = Len(toClient) - i /\ Len(toClient') \in Nat
         /\ \A j \in DOMAIN toClient' :
               /\ j \in Nat \ {0} /\ j + i \in DOMAIN toClient
               /\ toClient'[j] = toClient[j + i] /\ RecordFits(toClient[j + i])
<1>1. toClient \in Seq(DownloadRecord)
  BY DEF PakTyped
<1>2. DOMAIN toClient = 1 .. Len(toClient) /\ Len(toClient) \in Nat
  BY <1>1, LenProperties
<1>3. i \in 1 .. Len(toClient)
  BY <1>2
<1>4. /\ toClient' \in Seq(DownloadRecord) /\ Len(toClient) - i \in Nat
      /\ Len(toClient') = Len(toClient) - i
      /\ \A j \in DOMAIN toClient' : j + i \in DOMAIN toClient /\ toClient'[j] = toClient[j + i]
  <2>1. PICK t : t = SubSeq(toClient, i + 1, Len(toClient))
    OBVIOUS
  <2>2. /\ t \in Seq(DownloadRecord) /\ Len(toClient) - i \in Nat
        /\ Len(t) = Len(toClient) - i
        /\ \A j \in DOMAIN t : j + i \in DOMAIN toClient /\ t[j] = toClient[j + i]
    BY ONLY <1>1, <1>3, <2>1, RestOf
  <2>3. QED
    BY <2>1, <2>2
<1>5. DOMAIN toClient' = 1 .. Len(toClient) - i
  BY <1>4, LenProperties
<1>6. \A j \in DOMAIN toClient : RecordFits(toClient[j])
  BY DEF InBand, RecordsFit
<1>7. toClient[i] \in DownloadRecord
  BY <1>1, <1>3, ElementOfSeq
<1>8. toClient # <<>>
  BY <1>2, <1>3
<1>9. \A j \in DOMAIN toClient' : j \in Nat \ {0}
  <2>1. \A k \in Nat : \A j \in 1 .. k : j \in Nat \ {0}
    OBVIOUS
  <2>2. QED
    BY <1>4, <1>5, <2>1
<1>10. i \in Nat \ {0}
  BY <1>3, <1>2
<1>11. QED
  BY <1>2, <1>4, <1>6, <1>7, <1>8, <1>9, <1>10

\* A block that the client does not ignore is of the pak that it copies.
LEMMA BlockReceived ==
  ASSUME PakTyped, InBand, NEW i \in DOMAIN toClient, i = 1 \/ Lossy,
         toClient[i].kind = "block", toClient[i].number >= client.block
  PROVE  /\ client.temp \in session.lacks /\ client.temp # None
         /\ ~WantsMore /\ download.open /\ Copying /\ client.block < ShortLimit
         /\ toClient[i].number = client.block =>
              /\ client.block < download.buffered
              /\ toClient[i].data = BlockOf(client.temp, client.block)
         /\ Orderly => i = 1 /\ toClient[i].number = client.block
<1>1. PICK r : r = toClient[i]
  OBVIOUS
<1>2. /\ client.block \in Nat /\ download.acknowledged \in Nat
      /\ download.buffered \in Nat /\ session.lacks \in SUBSET File
      /\ client.temp \in session.lacks \cup {None}
  BY InBandFile
<1>3. PICK n \in Nat : r.number = AsShort(n) /\ (n >= client.block => Due(n, r.data))
  BY <1>1 DEF InBand, RecordsFit, RecordFits
<1>4. AsShort(n) \in Int /\ AsShort(n) <= n /\ AsShort(n) < ShortLimit
  BY ShortBelow
<1>5. n >= client.block /\ client.block < ShortLimit
  BY <1>1, <1>2, <1>3, <1>4
<1>6. Due(n, r.data)
  BY <1>3, <1>5
<1>7. ~WantsMore /\ download.open /\ client.temp # None /\ n < download.buffered
      /\ r.data = BlockOf(client.temp, n)
  BY <1>6 DEF Due
<1>8. Copying
  BY <1>7 DEF InBand, Phases
<1>9. ASSUME r.number = client.block PROVE n = client.block
  <2>1. n < client.block + 2 * ShortLimit
    <3>1. download.buffered <= download.acknowledged + Window
      BY DEF PakTyped
    <3>2. download.acknowledged <= client.block
      BY <1>8 DEF Copying
    <3>3. QED
      BY <1>2, <1>7, <3>1, <3>2
  <2>2. QED
    BY <1>2, <1>3, <1>9, <2>1, ShortExact
<1>10. ASSUME Orderly PROVE i = 1 /\ r.number = client.block
  <2>1. i = 1
    BY <1>10 DEF Orderly
  <2>2. toClient[1] = BlockRecord(client.block + 1 - 1,
                                BlockOf(client.temp, client.block + 1 - 1))
    BY <1>5, <1>8, <1>10, <2>1 DEF Copying
  <2>3. client.block + 1 - 1 = client.block
    BY <1>2
  <2>4. r.number = AsShort(client.block)
    BY <1>1, <2>1, <2>2, <2>3 DEF BlockRecord
  <2>5. QED
    BY <1>2, <1>5, <2>1, <2>4, ShortSame
<1>11. QED
  BY <1>1, <1>2, <1>5, <1>7, <1>8, <1>9, <1>10

\* The client read on, and nothing of its download changed.
LEMMA ReadOn ==
  ASSUME PakTyped, InBand, UNCHANGED <<download, present, toServer, session>>,
         client' \in ClientRecord, client'.commands = <<>>,
         \A x \in {client.wwwActive, client.wwwAborting} : ~x,
         ~client'.wwwActive, ~client'.wwwAborting,
         client'.transfer = client.transfer, client'.original = client.original,
         client'.name = client.name, client'.temp = client.temp,
         client'.list = client.list, client'.copy = client.copy,
         client'.open = client.open, client'.restart = client.restart,
         client'.block = client.block, client'.loaded = client.loaded,
         client'.disk = client.disk,
         client'.state = "refused" => Idle,
         toClient' \in Seq(DownloadRecord), Len(toClient') <= Len(toClient),
         toClient = <<>> => toClient' = <<>>,
         \A j \in DOMAIN toClient' : \E k \in DOMAIN toClient : toClient'[j] = toClient[k],
         Orderly /\ ~WantsMore /\ download.open => client.block >= ShortLimit
  PROVE  PakTyped' /\ InBand' /\ Copies
<1>1. /\ WantsMore' <=> WantsMore
      /\ Orderly' <=> Orderly
      /\ \A n \in Nat : Answers(n)' <=> Answers(n)
  BY DEF WantsMore, Orderly, Lossy, Prompt, Answers
<1>2. High' = High /\ (Idle' <=> Idle)
  BY <1>1 DEF High, Idle
<1>3. PakTyped'
  BY DEF PakTyped, SavedWhole
<1>4. ClientCopies'
  BY <1>1, <1>2 DEF InBand, ClientCopies
<1>5. ServerServes'
  BY DEF InBand, ServerServes, WindowHeld
<1>6. CommandsFit'
  <2>1. ASSUME NEW j \in DOMAIN toServer' PROVE CommandFits(j, toServer[j])'
    <3>1. CommandFits(j, toServer[j])
      BY <2>1 DEF InBand, CommandsFit
    <3>2. QED
      BY <1>1, <1>2, <3>1 DEF CommandFits, Wants
  <2>2. (\A j, k \in DOMAIN toServer :
           j < k /\ toServer[j].command = "nextdl" /\ toServer[k].command = "nextdl"
             => toServer[j].block < toServer[k].block)'
    BY DEF InBand, CommandsFit
  <2>3. (download.open =>
          \A n \in Nat : download.acknowledged <= n /\ n < High => Answers(n))'
    BY <1>1, <1>2 DEF InBand, CommandsFit
  <2>4. QED
    BY <2>1, <2>2, <2>3 DEF CommandsFit
<1>7. RecordsFit'
  <2> SUFFICES ASSUME NEW j \in DOMAIN toClient' PROVE RecordFits(toClient[j])'
    BY DEF RecordsFit
  <2>1. PICK k \in DOMAIN toClient : toClient'[j] = toClient[k]
    OBVIOUS
  <2>2. RecordFits(toClient[k])
    BY DEF InBand, RecordsFit
  <2>3. \A n \in Nat : Due(n, toClient[k].data) => Due(n, toClient[j].data)'
    BY <1>1, <2>1 DEF Due
  <2>4. QED
    BY <1>2, <2>1, <2>2, <2>3 DEF RecordFits
<1>8. Phases'
  <2>1. Finishing => Finishing'
    BY <1>1 DEF Finishing
  <2>2. Asking => Asking'
    BY <1>1 DEF Asking
  <2>3. Copying /\ ~WantsMore /\ download.open => Copying'
    <3> SUFFICES ASSUME Copying, ~WantsMore, download.open PROVE Copying'
      OBVIOUS
    <3>1. ~(Orderly' /\ client'.block < ShortLimit)
      <4>1. client.block \in Nat
        BY InBandFile
      <4>2. QED
        BY <1>1, <4>1
    <3>2. QED
      BY <3>1 DEF Copying
  <2>4. Beginning => Beginning'
    BY DEF Beginning
  <2>5. Resting => Resting'
    <3> SUFFICES ASSUME Resting PROVE Resting'
      OBVIOUS
    <3>1. Orderly /\ client.temp = None => Len(toClient') <= 1
      <4>1. Len(toClient') \in Nat /\ Len(toClient) \in Nat
        BY InBandFile, LenProperties
      <4>2. QED
        BY <4>1 DEF Resting
    <3>2. \A j \in DOMAIN toClient' :
             toClient'[j].kind = "block" => ~Orderly /\ client.temp = None
      BY DEF Resting
    <3>3. QED
      BY <1>1, <3>1, <3>2 DEF Resting
  <2>6. download'.open = download.open /\ download'.name = download.name
    OBVIOUS
  <2>7. QED
    BY <1>1, <1>2, <2>1, <2>2, <2>3, <2>4, <2>5, <2>6 DEF InBand, Phases
<1>9. Copies
  BY CopyStays
<1>10. QED
  BY <1>9, <1>3, <1>4, <1>5, <1>6, <1>7, <1>8 DEF InBand

\* CL_ParseDownload, a block that the client has, or waits for in vain.
LEMMA ReceiveStale ==
  ASSUME PakTyped, InBand, NEW i \in DOMAIN toClient, ReceiveFromServer(i),
         \/ client.state = "refused"
         \/ toClient[i].kind = "block" /\ toClient[i].number < client.block
  PROVE  PakTyped' /\ InBand' /\ Copies
<1>1. /\ i = 1 \/ Lossy
      /\ Update(Parse(client, toClient[i]))
      /\ toClient' = SubSeq(toClient, i + 1, Len(toClient))
      /\ UNCHANGED <<download, present, session>>
  BY DEF ReceiveFromServer
<1>2. /\ toClient[i] \in DownloadRecord /\ RecordFits(toClient[i])
      /\ toClient' \in Seq(DownloadRecord) /\ toClient # <<>>
      /\ i \in Nat \ {0} /\ Len(toClient) \in Nat
      /\ Len(toClient') = Len(toClient) - i /\ Len(toClient') \in Nat
      /\ \A j \in DOMAIN toClient' :
            /\ j \in Nat \ {0} /\ j + i \in DOMAIN toClient
            /\ toClient'[j] = toClient[j + i] /\ RecordFits(toClient[j + i])
  BY <1>1, Received
<1>3. client \in ClientRecord /\ client.commands = <<>> /\ toServer \in Seq(ClientCommand)
  BY DEF PakTyped
<1>4. Parse(client, toClient[i]) = client
  <2>1. CASE client.state = "refused"
    BY <2>1 DEF Parse
  <2>2. CASE /\ client.state # "refused"
             /\ toClient[i].kind = "block" /\ toClient[i].number < client.block
    <3>1. client.block \in Nat /\ toClient[i].number \in Int
      BY <1>2, <1>3 DEF ClientRecord, DownloadRecord
    <3>2. /\ toClient[i].number < client.block
          /\ ~(toClient[i].number > client.block) /\ toClient[i].number # client.block
      BY <2>2, <3>1
    <3>3. ParseBlock(client, toClient[i].number, toClient[i].data) = client
      BY <3>2 DEF ParseBlock
    <3>4. QED
      BY <2>2, <3>3 DEF Parse
  <2>3. QED
    BY <2>1, <2>2
<1>5. client' = client /\ toServer' = toServer
  <2>1. client' = [client EXCEPT !.commands = <<>>]
    BY <1>1, <1>4 DEF Update
  <2>2. client' = client
    BY <1>3, <2>1 DEF ClientRecord
  <2>3. toServer' = toServer \o <<>>
    BY <1>1, <1>3, <1>4 DEF Update
  <2>4. toServer \o <<>> = toServer
    BY <1>3, ConcatEmptySeq
  <2>5. QED
    BY <2>2, <2>3, <2>4
<1>6. ASSUME Orderly, ~WantsMore, download.open PROVE client.block >= ShortLimit
  <2> SUFFICES ASSUME ~(client.block >= ShortLimit) PROVE FALSE
    OBVIOUS
  <2>1. client.block \in Nat /\ client.block < ShortLimit
    <3>1. PICK b \in Nat : b = client.block
      BY InBandFile
    <3>2. ShortLimit \in Nat /\ ~(b >= ShortLimit)
      BY <3>1, DownloadAssumption
    <3>3. b < ShortLimit
      BY ONLY <3>2, b \in Nat
    <3>4. QED
      BY <3>1, <3>3
  <2>2. Copying
    BY <1>6 DEF InBand, Phases
  <2>3. i = 1
    BY <1>1, <1>6 DEF Orderly
  <2>4. toClient[1] = BlockRecord(client.block + 1 - 1,
                                BlockOf(client.temp, client.block + 1 - 1))
    BY <1>6, <2>1, <2>2, <2>3 DEF Copying
  <2>5. client.block + 1 - 1 = client.block
    BY <2>1
  <2>6. toClient[i].kind = "block" /\ toClient[i].number = AsShort(client.block)
    BY <2>3, <2>4, <2>5 DEF BlockRecord
  <2>7. toClient[i].number = client.block
    BY <2>1, <2>6, ShortSame
  <2>8. client.state = "refused"
    BY <2>1, <2>7
  <2>9. QED
    BY <1>6, <2>8 DEF InBand, ClientCopies, Idle
<1>7. /\ client' \in ClientRecord /\ client'.commands = <<>>
      /\ client'.state = "refused" => Idle
  BY <1>3, <1>5 DEF InBand, ClientCopies
<1>8. ~client.wwwActive /\ ~client.wwwAborting
  BY DEF InBand, ClientCopies
<1>9. Len(toClient') <= Len(toClient)
  BY <1>2
<1>10. \A j \in DOMAIN toClient' : \E k \in DOMAIN toClient : toClient'[j] = toClient[k]
  BY <1>2
<1>11. UNCHANGED <<download, present, toServer, session>>
  BY <1>1, <1>5
<1>12. QED
  BY <1>2, <1>5, <1>6, <1>7, <1>8, <1>9, <1>10, <1>11, ReadOn

\* SV_DropClient's message, or a gamestate with nothing left to download.
LEMMA ReceiveEnd ==
  ASSUME PakTyped, InBand, NEW i \in DOMAIN toClient, ReceiveFromServer(i),
         client.state # "refused",
         \/ toClient[i].kind = "refused"
         \/ toClient[i].kind = "gamestate" /\ File \ client.loaded = {}
  PROVE  PakTyped' /\ InBand' /\ Copies
<1>1. /\ Update(Parse(client, toClient[i]))
      /\ toClient' = SubSeq(toClient, i + 1, Len(toClient))
      /\ UNCHANGED <<download, present, session>>
  BY DEF ReceiveFromServer
<1>2. /\ RecordFits(toClient[i])
      /\ toClient' \in Seq(DownloadRecord) /\ toClient # <<>>
      /\ i \in Nat \ {0} /\ Len(toClient) \in Nat
      /\ Len(toClient') = Len(toClient) - i
      /\ \A j \in DOMAIN toClient' :
            j + i \in DOMAIN toClient /\ toClient'[j] = toClient[j + i]
  BY <1>1, Received
<1>3. client \in ClientRecord /\ client.commands = <<>> /\ toServer \in Seq(ClientCommand)
  BY DEF PakTyped
<1>4. PICK c : c = Parse(client, toClient[i])
  OBVIOUS
<1>5. Idle
  BY <1>2 DEF RecordFits
<1>6. /\ ~client.wwwActive /\ ~client.wwwAborting
      /\ client.transfer = None /\ client.original = None
      /\ client.name = client.temp
      /\ client.temp = None => ~client.restart
  BY DEF InBand, ClientCopies
<1>7. /\ c \in ClientRecord /\ c.commands = <<>> /\ ~c.wwwActive /\ ~c.wwwAborting
      /\ c.transfer = client.transfer /\ c.original = client.original
      /\ c.name = client.name /\ c.temp = client.temp
      /\ c.list = client.list /\ c.copy = client.copy
      /\ c.open = client.open /\ c.restart = client.restart
      /\ c.block = client.block /\ c.loaded = client.loaded
      /\ c.disk = client.disk
  <2>1. CASE toClient[i].kind = "refused"
    <3>1. c = [client EXCEPT !.state = "refused"]
      BY <1>4, <2>1 DEF Parse
    <3>2. c \in ClientRecord
      BY <1>3, <3>1 DEF ClientRecord
    <3>3. QED
      BY <1>3, <1>6, <3>1, <3>2 DEF ClientRecord
  <2>2. CASE toClient[i].kind = "gamestate" /\ File \ client.loaded = {}
    <3>1. c = InitDownloads(client)
      BY <1>4, <2>2 DEF Parse
    <3>2. /\ c \in ClientRecord
          /\ c = [client EXCEPT !.wwwActive = FALSE, !.wwwAborting = FALSE,
                        !.restart = FALSE, !.temp = None, !.name = None,
                        !.original = None, !.state = "loading"]
      BY <1>3, <2>2, <3>1, InitDownloadsDone
    <3>3. client.temp = None
      BY <1>2, <2>2 DEF RecordFits
    <3>4. client.restart \in BOOLEAN
      BY <1>3 DEF ClientRecord
    <3>5. /\ c.commands = <<>> /\ ~c.wwwActive /\ ~c.wwwAborting
          /\ c.transfer = client.transfer /\ c.original = client.original
          /\ c.name = client.name /\ c.temp = client.temp
          /\ c.list = client.list /\ c.copy = client.copy
      BY <1>3, <1>6, <3>2, <3>3 DEF ClientRecord
    <3>6. /\ c.open = client.open /\ c.restart = client.restart
          /\ c.block = client.block /\ c.loaded = client.loaded
          /\ c.disk = client.disk
      BY <1>3, <1>6, <3>2, <3>3, <3>4 DEF ClientRecord
    <3>7. QED
      BY <3>2, <3>5, <3>6
  <2>3. QED
    BY <2>1, <2>2
<1>8. client' = c /\ toServer' = toServer
  <2>1. client' = [c EXCEPT !.commands = <<>>]
    BY <1>1, <1>4 DEF Update
  <2>2. client' = c
    BY <1>7, <2>1 DEF ClientRecord
  <2>3. toServer' = toServer \o <<>>
    BY <1>1, <1>4, <1>7 DEF Update
  <2>4. toServer \o <<>> = toServer
    BY <1>3, ConcatEmptySeq
  <2>5. QED
    BY <2>2, <2>3, <2>4
<1>9. Len(toClient') <= Len(toClient)
  BY <1>2
<1>10. \A j \in DOMAIN toClient' : \E k \in DOMAIN toClient : toClient'[j] = toClient[k]
  BY <1>2
<1>11. UNCHANGED <<download, present, toServer, session>>
  BY <1>1, <1>8
<1>12. ~download.open
  BY <1>5 DEF Idle
<1>13. QED
  BY <1>2, <1>5, <1>6, <1>7, <1>8, <1>9, <1>10, <1>11, <1>12, ReadOn

\* The types that leave of the parts a reception does not touch.
LEMMA ClientTyped ==
  ASSUME PakTyped, UNCHANGED <<download, present, session>>,
         client' \in ClientRecord, client'.commands = <<>>,
         toServer' \in Seq(ClientCommand), toClient' \in Seq(DownloadRecord),
         \A f \in File : client'.disk[f] \in {<<>>, WholePak(f)},
         File \ client'.loaded \subseteq session.lacks
  PROVE  PakTyped'
BY DEF PakTyped, SavedWhole

\* CL_ParseDownload, a block after the one that is due: "retransdl".
LEMMA ReceiveGap ==
  ASSUME PakTyped, InBand, NEW i \in DOMAIN toClient, ReceiveFromServer(i),
         client.state # "refused", toClient[i].kind = "block",
         toClient[i].number > client.block
  PROVE  PakTyped' /\ InBand' /\ Copies
<1>1. /\ i = 1 \/ Lossy
      /\ Update(Parse(client, toClient[i]))
      /\ toClient' = SubSeq(toClient, i + 1, Len(toClient))
      /\ UNCHANGED <<download, present, session>>
  BY DEF ReceiveFromServer
<1>2. /\ toClient[i] \in DownloadRecord
      /\ toClient' \in Seq(DownloadRecord)
      /\ \A j \in DOMAIN toClient' :
            j + i \in DOMAIN toClient /\ toClient'[j] = toClient[j + i]
            /\ RecordFits(toClient[j + i])
  BY <1>1, Received
<1>3. client \in ClientRecord /\ client.commands = <<>> /\ toServer \in Seq(ClientCommand)
  BY DEF PakTyped
<1>4. client.block \in Nat /\ toClient[i].number \in Int
  BY <1>2, <1>3 DEF ClientRecord, DownloadRecord
<1>5. /\ client.temp # None /\ ~WantsMore /\ download.open /\ Copying /\ ~Orderly
  <2>1. toClient[i].number >= client.block /\ toClient[i].number # client.block
    BY <1>4
  <2>2. QED
    BY <1>1, <2>1, BlockReceived
<1>6. PICK m : m = BlockCommand("retransdl", client.block)
  OBVIOUS
<1>7. m \in ClientCommand /\ m.command = "retransdl"
  <2>1. "retransdl" \in CommandName
    BY DEF CommandName
  <2>2. QED
    BY <1>4, <1>6, <2>1, BlockCommandFields
<1>8. Parse(client, toClient[i]) = Say(client, m)
  <2>1. /\ toClient[i].number > client.block
        /\ ~(toClient[i].number < client.block) /\ toClient[i].number # client.block
    BY <1>4
  <2>2. ParseBlock(client, toClient[i].number, toClient[i].data) = Say(client, m)
    BY <1>6, <2>1 DEF ParseBlock
  <2>3. QED
    BY <2>2 DEF Parse
<1>9. client' = client /\ toServer' = toServer \o <<m>>
  <2>1. Say(client, m) = [client EXCEPT !.commands = Append(client.commands, m)]
    BY <1>3, <1>7, SaySomething
  <2>2. Append(client.commands, m) = <<m>>
    BY <1>3
  <2>3. Say(client, m) = [client EXCEPT !.commands = <<m>>]
    BY <2>1, <2>2
  <2>4. client' = [Say(client, m) EXCEPT !.commands = <<>>]
        /\ toServer' = toServer \o Say(client, m).commands
    BY <1>1, <1>8 DEF Update
  <2>5. client' = client
    <3>1. PICK c : c = client
      OBVIOUS
    <3>2. PICK s : s = Say(client, m)
      OBVIOUS
    <3>3. c \in ClientRecord /\ c.commands = <<>> /\ s = [c EXCEPT !.commands = <<m>>]
      BY ONLY <1>3, <2>3, <3>1, <3>2
    <3>4. [s EXCEPT !.commands = <<>>] = c
      BY ONLY <3>3, SaidAndLeft
    <3>5. QED
      BY ONLY <2>4, <3>1, <3>2, <3>4
  <2>6. Say(client, m).commands = <<m>>
    BY <1>3, <2>3 DEF ClientRecord
  <2>7. QED
    BY <2>4, <2>5, <2>6
<1>10. /\ toServer' \in Seq(ClientCommand) /\ Len(toServer) \in Nat
       /\ \A j \in DOMAIN toServer : j \in DOMAIN toServer' /\ toServer'[j] = toServer[j]
       /\ toServer'[Len(toServer) + 1] = m
       /\ \A j \in DOMAIN toServer' : j \in DOMAIN toServer \/ j = Len(toServer) + 1
  BY <1>3, <1>7, <1>9, WithOne
<1>11. \A j \in DOMAIN toServer : ~Wants(toServer[j])
  BY <1>5 DEF WantsMore
<1>12. ~WantsMore' /\ ~Orderly' /\ ~Idle /\ ~Idle'
  <2>1. ~Wants(m)
    BY <1>7 DEF Wants
  <2>2. ~WantsMore'
    BY <1>10, <1>11, <2>1 DEF WantsMore, Wants
  <2>3. QED
    BY <1>1, <1>5, <2>2 DEF Orderly, Lossy, Prompt, Idle
<1>13. High' = client.block /\ High = client.block
  BY <1>5, <1>9, <1>12 DEF High
<1>14. PakTyped'
  <2>1. /\ \A f \in File : client'.disk[f] \in {<<>>, WholePak(f)}
        /\ File \ client'.loaded \subseteq session.lacks
    BY <1>9 DEF PakTyped, SavedWhole
  <2>2. QED
    BY <1>1, <1>2, <1>3, <1>9, <1>10, <2>1, ClientTyped
<1>15. ClientCopies'
  <2>1. client.state # "refused"
    OBVIOUS
  <2>2. QED
    BY <1>1, <1>5, <1>9, <1>12, <2>1 DEF InBand, ClientCopies
<1>16. ServerServes'
  BY <1>1 DEF InBand, ServerServes, WindowHeld
<1>17. CommandsFit'
  <2>1. ASSUME NEW j \in DOMAIN toServer' PROVE CommandFits(j, toServer[j])'
    <3>1. CASE j \in DOMAIN toServer
      <4>1. CommandFits(j, toServer[j]) /\ ~Wants(toServer[j]) /\ toServer'[j] = toServer[j]
        BY <1>10, <1>11, <3>1 DEF InBand, CommandsFit
      <4>2. QED
        BY <1>1, <1>9, <1>12, <1>13, <4>1 DEF CommandFits, Wants
    <3>2. CASE j = Len(toServer) + 1
      BY <1>7, <1>10, <1>12, <3>2 DEF CommandFits, Wants
    <3>3. QED
      BY <1>10, <3>1, <3>2
  <2>2. ASSUME NEW j \in DOMAIN toServer', NEW k \in DOMAIN toServer', j < k,
               toServer'[j].command = "nextdl", toServer'[k].command = "nextdl"
        PROVE  toServer'[j].block < toServer'[k].block
    <3>1. j \in DOMAIN toServer /\ k \in DOMAIN toServer
      BY <1>7, <1>10, <2>2
    <3>2. QED
      BY <1>10, <2>2, <3>1 DEF InBand, CommandsFit
  <2>3. ASSUME NEW n \in Nat, download'.acknowledged <= n, n < High' PROVE Answers(n)'
    <3>1. Answers(n)
      BY <1>1, <1>5, <1>13, <2>3 DEF InBand, CommandsFit
    <3>2. QED
      BY <1>10, <3>1 DEF Answers
  <2>4. QED
    BY <2>1, <2>2, <2>3 DEF CommandsFit
<1>18. RecordsFit'
  <2> SUFFICES ASSUME NEW j \in DOMAIN toClient' PROVE RecordFits(toClient[j])'
    BY DEF RecordsFit
  <2>1. RecordFits(toClient[j + i]) /\ toClient'[j] = toClient[j + i]
    BY <1>2
  <2>2. \A n \in Nat : Due(n, toClient[j + i].data) => Due(n, toClient[j].data)'
    BY <1>1, <1>9, <1>12, <2>1 DEF Due
  <2>3. QED
    BY <1>9, <1>12, <2>1, <2>2 DEF RecordFits
<1>19. Phases'
  <2>1. Copying'
    BY <1>1, <1>5, <1>9, <1>12 DEF Copying
  <2>2. QED
    BY <1>1, <1>5, <1>12, <2>1 DEF Phases
<1>20. Copies
  BY <1>9, CopyStays
<1>21. QED
  BY <1>20, <1>14, <1>15, <1>16, <1>17, <1>18, <1>19 DEF InBand

\* CL_ParseDownload, the block that is due.
LEMMA ReceiveData ==
  ASSUME PakTyped, InBand, ~session.redirects,
         NEW i \in DOMAIN toClient, ReceiveFromServer(i),
         client.state # "refused", toClient[i].kind = "block",
         toClient[i].number = client.block, toClient[i].data # Eof
  PROVE  PakTyped' /\ InBand' /\ Copies
<1>1. /\ i = 1 \/ Lossy
      /\ Update(Parse(client, toClient[i]))
      /\ toClient' = SubSeq(toClient, i + 1, Len(toClient))
      /\ UNCHANGED <<download, present, session>>
  BY DEF ReceiveFromServer
<1>2. /\ toClient[i] \in DownloadRecord
      /\ toClient' \in Seq(DownloadRecord) /\ Len(toClient) \in Nat
      /\ i \in Nat \ {0} /\ Len(toClient') = Len(toClient) - i
      /\ \A j \in DOMAIN toClient' :
            j \in Nat \ {0} /\ j + i \in DOMAIN toClient /\ toClient'[j] = toClient[j + i]
            /\ RecordFits(toClient[j + i])
  BY <1>1, Received
<1>3. client \in ClientRecord /\ client.commands = <<>> /\ toServer \in Seq(ClientCommand)
  BY DEF PakTyped
<1>4. PICK b : b = client.block
  OBVIOUS
<1>5. PICK f : f = client.temp
  OBVIOUS
<1>6. /\ b \in Nat /\ session.lacks \in SUBSET File
      /\ download.acknowledged \in Nat /\ download.buffered \in Nat
      /\ download.transmit \in Nat
  BY <1>4, InBandFile
<1>7. /\ f \in session.lacks /\ f \in File /\ f # None
      /\ ~WantsMore /\ download.open /\ Copying
      /\ b < ShortLimit /\ b < download.buffered
      /\ toClient[i].data = BlockOf(f, b)
      /\ Orderly => i = 1
  <2>1. toClient[i].number >= client.block
    BY <1>4, <1>6
  <2>2. QED
    BY <1>1, <1>4, <1>5, <1>6, <2>1, BlockReceived
<1>8. b < Blocks[f] /\ Blocks[f] \in Nat /\ BlockOf(f, b) \in Block
  <2>1. /\ Blocks[f] \in Nat \ {0} /\ BlockOf(f, b) \in Block \cup {Eof}
        /\ BlockOf(f, b) = Eof <=> b >= Blocks[f]
    BY <1>6, <1>7, BlockOfProperties
  <2>2. QED
    BY <1>6, <1>7, <2>1
<1>9. f \in Writable
  BY <1>7 DEF PakTyped, Tame
<1>10. PICK c : c = Parse(client, toClient[i])
  OBVIOUS
<1>11. PICK m : m = BlockCommand("nextdl", b)
  OBVIOUS
<1>12. PICK copy : copy = Append(client.copy, BlockOf(f, b))
  OBVIOUS
<1>13. m \in ClientCommand /\ m.command = "nextdl" /\ m.block = b
  <2>1. "nextdl" \in CommandName
    BY DEF CommandName
  <2>2. QED
    BY <1>6, <1>11, <2>1, BlockCommandFields
<1>14. /\ c \in ClientRecord
       /\ c = [client EXCEPT !.open = TRUE, !.copy = copy, !.commands = <<m>>,
                             !.block = b + 1]
  <2>1. c = ParseBlock(client, client.block, toClient[i].data)
    BY <1>10 DEF Parse
  <2>2. toClient[i].data \in Block /\ client.temp \in File /\ client.temp \in Writable
    BY <1>5, <1>7, <1>8, <1>9
  <2>3. /\ ParseBlock(client, client.block, toClient[i].data) \in ClientRecord
        /\ ParseBlock(client, client.block, toClient[i].data) =
              [client EXCEPT !.open = TRUE,
                 !.copy = Append(client.copy, toClient[i].data),
                 !.commands = <<BlockCommand("nextdl", client.block)>>,
                 !.block = client.block + 1]
    BY <1>3, <2>2, ParseData
  <2>4. QED
    BY <1>4, <1>7, <1>11, <1>12, <2>1, <2>3
<1>15. /\ client' \in ClientRecord /\ client'.commands = <<>>
       /\ client'.open /\ client'.copy = copy /\ client'.block = b + 1
       /\ toServer' = toServer \o <<m>>
  <2>1. client' = [c EXCEPT !.commands = <<>>] /\ toServer' = toServer \o c.commands
    BY <1>1, <1>10 DEF Update
  <2>2. c.commands = <<m>> /\ c.open /\ c.copy = copy /\ c.block = b + 1
    BY <1>3, <1>14 DEF ClientRecord
  <2>3. client' \in ClientRecord
    BY <1>14, <2>1, CommandsLeave
  <2>4. QED
    BY <1>14, <2>1, <2>2, <2>3 DEF ClientRecord
<1>16. /\ client'.state = client.state /\ client'.list = client.list
       /\ client'.name = client.name /\ client'.temp = client.temp
       /\ client'.original = client.original /\ client'.restart = client.restart
       /\ client'.wwwActive = client.wwwActive /\ client'.wwwAborting = client.wwwAborting
       /\ client'.transfer = client.transfer /\ client'.disk = client.disk
       /\ client'.loaded = client.loaded
  <2>1. client' = [c EXCEPT !.commands = <<>>]
    BY <1>1, <1>10 DEF Update
  <2>2. QED
    BY <1>3, <1>14, <2>1 DEF ClientRecord
<1>17. /\ toServer' \in Seq(ClientCommand) /\ Len(toServer) \in Nat
       /\ \A j \in DOMAIN toServer : j \in DOMAIN toServer' /\ toServer'[j] = toServer[j]
       /\ toServer'[Len(toServer) + 1] = m /\ Len(toServer) + 1 \in DOMAIN toServer'
       /\ \A j \in DOMAIN toServer' : j \in DOMAIN toServer \/ j = Len(toServer) + 1
  BY <1>3, <1>13, <1>15, WithOne
<1>18. DOMAIN toServer = 1 .. Len(toServer)
  BY <1>3, LenProperties
<1>19. \A j \in DOMAIN toServer : ~Wants(toServer[j])
  BY <1>7 DEF WantsMore
<1>20. ~WantsMore' /\ (Orderly' <=> Orderly) /\ ~Idle /\ ~Idle'
  <2>1. ~Wants(m)
    BY <1>13 DEF Wants
  <2>2. ~WantsMore'
    BY <1>17, <1>19, <2>1 DEF WantsMore, Wants
  <2>3. QED
    BY <1>1, <1>7, <2>2 DEF Orderly, Lossy, Prompt, Idle
<1>21. High' = b + 1 /\ High = b
  BY <1>4, <1>7, <1>15, <1>20 DEF High
<1>22. download.acknowledged <= b /\ f = download.name
  BY <1>4, <1>5, <1>7 DEF Copying
<1>23. PakTyped'
  <2>1. /\ \A g \in File : client'.disk[g] \in {<<>>, WholePak(g)}
        /\ File \ client'.loaded \subseteq session.lacks
    BY <1>16 DEF PakTyped, SavedWhole
  <2>2. QED
    BY <1>1, <1>2, <1>15, <1>17, <2>1, ClientTyped
<1>24. ClientCopies'
  <2>1. client'.temp # None /\ client'.temp = f /\ client.temp # None
    BY <1>5, <1>7, <1>16
  <2>2. client'.block <= Blocks[client'.temp] /\ client'.block > 0
    BY <1>6, <1>8, <1>15, <2>1
  <2>3. client'.copy = SubSeq(WholePak(client'.temp), 1, client'.block)
    <3>1. client.copy = SubSeq(WholePak(f), 1, b)
      BY <1>4, <1>5, <1>7 DEF InBand, ClientCopies
    <3>2. QED
      <4>1. f \in File /\ b \in Nat /\ b < Blocks[f]
        BY ONLY <1>6, <1>7, <1>8
      <4>2. Append(SubSeq(WholePak(f), 1, b), BlockOf(f, b)) = SubSeq(WholePak(f), 1, b + 1)
        BY ONLY <4>1, NextBlock
      <4>3. QED
        BY ONLY <1>12, <1>15, <2>1, <3>1, <4>2
  <2>4. client'.restart /\ client'.open
    BY <1>5, <1>7, <1>15, <1>16 DEF InBand, ClientCopies
  <2>5. /\ ~client'.wwwActive /\ ~client'.wwwAborting
        /\ client'.transfer = None /\ client'.original = None
        /\ client'.name = client'.temp
        /\ client'.temp \in session'.lacks \cup {None}
        /\ client'.list \in Seq(session'.lacks)
    BY <1>1, <1>16 DEF InBand, ClientCopies
  <2>6. ~Orderly' /\ client'.temp # None => client'.list = <<>>
    BY <1>16, <1>20 DEF InBand, ClientCopies
  <2>7. client'.state # "refused"
    BY <1>16
  <2>8. QED
    BY <2>1, <2>2, <2>3, <2>4, <2>5, <2>6, <2>7 DEF ClientCopies
<1>25. ServerServes'
  BY <1>1 DEF InBand, ServerServes, WindowHeld
<1>26. CommandsFit'
  <2>1. ASSUME NEW j \in DOMAIN toServer' PROVE CommandFits(j, toServer[j])'
    <3>1. CASE j \in DOMAIN toServer
      <4>1. CommandFits(j, toServer[j]) /\ ~Wants(toServer[j]) /\ toServer'[j] = toServer[j]
        BY <1>17, <1>19, <3>1 DEF InBand, CommandsFit
      <4>2. toServer[j].block \in Nat
        <5>1. toServer[j] \in ClientCommand
          BY <1>3, <1>18, <3>1, ElementOfSeq
        <5>2. QED
          BY <5>1 DEF ClientCommand
      <4>3. toServer[j].block < High => toServer[j].block < High'
        BY <1>6, <1>21, <4>2
      <4>4. QED
        BY <1>1, <1>20, <4>1, <4>3 DEF CommandFits, Wants
    <3>2. CASE j = Len(toServer) + 1
      <4>1. m.block >= download'.acknowledged /\ m.block < High' /\ download'.open
        BY <1>1, <1>6, <1>7, <1>13, <1>21, <1>22
      <4>2. QED
        BY <1>13, <1>17, <3>2, <4>1 DEF CommandFits, Wants
    <3>3. QED
      BY <1>17, <3>1, <3>2
  <2>2. ASSUME NEW j \in DOMAIN toServer', NEW k \in DOMAIN toServer', j < k,
               toServer'[j].command = "nextdl", toServer'[k].command = "nextdl"
        PROVE  toServer'[j].block < toServer'[k].block
    <3>1. j \in DOMAIN toServer /\ toServer'[j] = toServer[j]
      BY <1>17, <1>18, <2>2
    <3>2. CASE k \in DOMAIN toServer
      BY <1>17, <2>2, <3>1, <3>2 DEF InBand, CommandsFit
    <3>3. CASE k = Len(toServer) + 1
      <4>1. toServer[j].block < High
        BY <2>2, <3>1 DEF InBand, CommandsFit, CommandFits
      <4>2. QED
        BY <1>13, <1>17, <1>21, <3>1, <3>3, <4>1
    <3>4. QED
      BY <1>17, <3>2, <3>3
  <2>3. ASSUME NEW n \in Nat, download'.acknowledged <= n, n < High' PROVE Answers(n)'
    <3>1. CASE n < High
      <4>1. Answers(n)
        BY <1>1, <1>7, <2>3, <3>1 DEF InBand, CommandsFit
      <4>2. QED
        BY <1>17, <4>1 DEF Answers
    <3>2. CASE ~(n < High)
      <4>1. n = b
        BY <1>6, <1>21, <2>3, <3>2
      <4>2. QED
        BY <1>13, <1>17, <4>1 DEF Answers
    <3>3. QED
      BY <3>1, <3>2
  <2>4. QED
    BY <2>1, <2>2, <2>3 DEF CommandsFit
<1>27. RecordsFit'
  <2> SUFFICES ASSUME NEW j \in DOMAIN toClient' PROVE RecordFits(toClient[j])'
    BY DEF RecordsFit
  <2>1. RecordFits(toClient[j + i]) /\ toClient'[j] = toClient[j + i]
    BY <1>2
  <2>2. \A n \in Nat : Due(n, toClient[j + i].data) => Due(n, toClient[j].data)'
    BY <1>1, <1>16, <1>20, <2>1 DEF Due
  <2>3. \A n \in Nat : n >= client'.block => n >= client.block
    BY <1>4, <1>6, <1>15
  <2>4. toClient[j + i].kind # "gamestate" /\ toClient[j + i].kind # "refused"
    BY <1>20, <2>1 DEF RecordFits
  <2>5. QED
    BY <2>1, <2>2, <2>3, <2>4 DEF RecordFits
<1>28. Phases'
  <2>1. Copying'
    <3>1. /\ client'.temp = download'.name
          /\ download'.acknowledged <= client'.block
          /\ client'.block <= download'.buffered
      <4>1. client'.temp = download'.name
        BY <1>1, <1>5, <1>7, <1>16, <1>22
      <4>2. /\ download' = download /\ client'.block = b + 1 /\ b \in Nat
            /\ download.acknowledged \in Nat /\ download.buffered \in Nat
            /\ b < download.buffered
        BY <1>1, <1>4, <1>5, <1>6, <1>7, <1>15
      <4>3. QED
        BY ONLY <1>22, <4>1, <4>2
    <3>2. ASSUME Orderly, b + 1 < ShortLimit
          PROVE  /\ Len(toClient') = download.transmit - (b + 1)
                 /\ \A j \in DOMAIN toClient' :
                      toClient'[j] = BlockRecord((b + 1) + j - 1,
                                        BlockOf(f, (b + 1) + j - 1))
      <4>1. /\ i = 1 /\ Len(toClient) = download.transmit - b
            /\ \A j \in DOMAIN toClient :
                  toClient[j] = BlockRecord(b + j - 1, BlockOf(f, b + j - 1))
        <5>1. i = 1 /\ Orderly /\ client.block < ShortLimit
          BY <1>4, <1>7, <3>2
        <5>2. /\ Len(toClient) = download.transmit - client.block
              /\ \A j \in DOMAIN toClient :
                    toClient[j] = BlockRecord(client.block + j - 1,
                                     BlockOf(client.temp, client.block + j - 1))
          BY <1>7, <5>1 DEF Copying
        <5>3. QED
          BY <1>4, <1>5, <5>1, <5>2
      <4>2. Len(toClient') = download.transmit - (b + 1)
        <5>1. PICK t \in Nat : t = download.transmit
          BY <1>6
        <5>2. PICK l \in Nat : l = Len(toClient)
          BY <1>2
        <5>3. Len(toClient') = l - 1 /\ l = t - b
          BY <1>2, <4>1, <5>1, <5>2
        <5>4. t - b - 1 = t - (b + 1)
          BY ONLY <1>6, t \in Nat
        <5>5. QED
          BY <5>1, <5>3, <5>4
      <4>3. ASSUME NEW j \in DOMAIN toClient'
            PROVE  toClient'[j] = BlockRecord((b + 1) + j - 1, BlockOf(f, (b + 1) + j - 1))
        <5>1. j \in Nat /\ j + 1 \in DOMAIN toClient /\ toClient'[j] = toClient[j + 1]
          BY <1>2, <4>1
        <5>2. b + (j + 1) - 1 = (b + 1) + j - 1
          BY <1>6, <5>1
        <5>3. toClient[j + 1] = BlockRecord(b + (j + 1) - 1, BlockOf(f, b + (j + 1) - 1))
          BY <4>1, <5>1
        <5>4. QED
          BY <5>1, <5>2, <5>3
      <4>4. QED
        BY <4>2, <4>3
    <3>3. QED
      BY <1>1, <1>5, <1>15, <1>16, <1>20, <3>1, <3>2 DEF Copying
  <2>2. QED
    BY <1>1, <1>7, <1>20, <2>1 DEF Phases
<1>29. Copies
  <2>1. client.copy = SubSeq(WholePak(f), 1, b)
    BY <1>4, <1>5, <1>7 DEF InBand, ClientCopies
  <2>2. client'.copy = SubSeq(WholePak(f), 1, b + 1)
    BY <1>6, <1>7, <1>8, <1>12, <1>15, <2>1, NextBlock
  <2>3. client.temp = f /\ client'.temp = f /\ client'.disk = client.disk
    BY <1>5, <1>16
  <2>4. QED
    BY <1>6, <1>7, <1>8, <2>1, <2>2, <2>3, CopyGrows
<1>30. QED
  BY <1>29, <1>23, <1>24, <1>25, <1>26, <1>27, <1>28 DEF InBand

LEMMA TwoInTurn ==
  ASSUME NEW x, NEW y
  PROVE  Append(<<x>>, y) = <<x, y>>
<1>1. /\ <<x>> \in Seq({x, y}) /\ <<x, y>> \in Seq({x, y})
      /\ Len(<<x>>) = 1 /\ Len(<<x, y>>) = 2
  OBVIOUS
<1>2. /\ Append(<<x>>, y) \in Seq({x, y}) /\ Len(Append(<<x>>, y)) = 2
      /\ \A i \in 1 .. 1 : Append(<<x>>, y)[i] = <<x>>[i]
      /\ Append(<<x>>, y)[2] = y
  BY <1>1, AppendProperties
<1>3. ASSUME NEW i \in 1 .. 2 PROVE Append(<<x>>, y)[i] = <<x, y>>[i]
  <2>1. CASE i = 1
    BY <1>2, <2>1
  <2>2. CASE i = 2
    BY <1>2, <2>2
  <2>3. QED
    BY <2>1, <2>2
<1>4. QED
  BY <1>1, <1>2, <1>3, SeqEqual

\* What the client holds next and what it says at the end of a pak.
Finished(c, p, d, y) ==
    /\ d \in ClientRecord /\ d.commands = <<>>
    /\ ~d.open /\ d.copy = <<>> /\ d.disk = [c.disk EXCEPT ![c.temp] = c.copy]
    /\ d.name = d.temp /\ d.state = c.state
    /\ d.wwwActive = c.wwwActive /\ d.wwwAborting = c.wwwAborting
    /\ d.transfer = c.transfer
    /\ c.original = None => d.original = None
    /\ y \in ClientCommand
    /\ p.commands = <<BlockCommand("nextdl", c.block), y>>
    /\ c.list = <<>> =>
         /\ y.command = "donedl" /\ d.temp = None /\ d.list = <<>>
         /\ d.block = c.block + 1 /\ ~d.restart
         /\ d.loaded = c.loaded \cup {f \in File : d.disk[f] = WholePak(f)}
    /\ c.list # <<>> =>
         /\ y.command = "download" /\ y.file = d.temp
         /\ d.temp = Head(c.list) /\ d.list = Tail(c.list)
         /\ d.block = 0 /\ d.restart /\ d.loaded = c.loaded

\* CL_ParseDownload, the empty block.
LEMMA FinishedClient ==
  ASSUME NEW c \in ClientRecord, c.commands = <<>>, c.temp \in Writable, c.temp \in File,
         c.name = c.temp, c.restart,
         NEW p, p = ParseBlock(c, c.block, Eof),
         NEW d, d = [p EXCEPT !.commands = <<>>],
         NEW y, y = IF c.list = <<>> THEN Command("donedl")
                                     ELSE FileCommand("download", Head(c.list))
  PROVE  Finished(c, p, d, y)
<1>1. PICK x : x = BlockCommand("nextdl", c.block)
  OBVIOUS
<1>2. PICK disk : disk = [c.disk EXCEPT ![c.temp] = c.copy]
  OBVIOUS
<1>3. PICK b : b = c.block + 1
  OBVIOUS
<1>4. PICK m : m = [c EXCEPT !.open = FALSE, !.copy = <<>>, !.disk = disk,
                              !.name = None, !.temp = None,
                              !.commands = <<x>>, !.block = b]
  OBVIOUS
<1>5. m \in ClientRecord /\ p = NextDownload(m)
  <2>1. m = [c EXCEPT !.open = FALSE, !.copy = <<>>,
                              !.disk = [c.disk EXCEPT ![c.temp] = c.copy],
                              !.name = None, !.temp = None,
                              !.commands = <<BlockCommand("nextdl", c.block)>>,
                              !.block = c.block + 1]
    BY <1>1, <1>2, <1>3, <1>4
  <2>2. m \in ClientRecord /\ ParseBlock(c, c.block, Eof) = NextDownload(m)
    BY <2>1, ParseEnd
  <2>3. QED
    BY <2>2
<1>6. /\ ~m.open /\ m.copy = <<>> /\ m.disk = disk /\ m.name = None /\ m.temp = None
      /\ m.commands = <<x>> /\ m.block = b
      /\ m.list = c.list /\ m.state = c.state /\ m.loaded = c.loaded
      /\ m.wwwActive = c.wwwActive /\ m.wwwAborting = c.wwwAborting
      /\ m.transfer = c.transfer /\ m.original = c.original /\ m.restart
  BY <1>4 DEF ClientRecord
<1>7. CASE c.list = <<>>
  <2>1. PICK l : l = m.loaded \cup {f \in File : m.disk[f] = WholePak(f)}
    OBVIOUS
  <2>2. y = Command("donedl")
    BY <1>7
  <2>3. PICK k : k = Append(m.commands, y)
    OBVIOUS
  <2>4. y \in ClientCommand /\ y.command = "donedl"
    <3>1. "donedl" \in CommandName
      BY DEF CommandName
    <3>2. QED
      BY <2>2, <3>1, CommandFields
  <2>5. k = <<x, y>>
    BY <1>6, <2>3, TwoInTurn
  <2>6. p \in ClientRecord /\
        p = [m EXCEPT !.loaded = l, !.commands = k, !.restart = FALSE,
                      !.temp = None, !.name = None, !.original = None]
    <3>1. m.list = <<>> /\ m.restart /\ m \in ClientRecord
      BY <1>5, <1>6, <1>7
    <3>2. QED
      BY <1>5, <2>1, <2>2, <2>3, <3>1, NextDownloadNoMore
  <2>7. d \in ClientRecord /\ d.commands = <<>>
    BY <2>6, CommandsLeave
  <2>8. p.commands = <<x, y>>
    BY <1>5, <2>5, <2>6 DEF ClientRecord
  <2>9. /\ ~d.open /\ d.copy = <<>> /\ d.disk = disk
        /\ d.name = d.temp /\ d.state = c.state
        /\ d.wwwActive = c.wwwActive /\ d.wwwAborting = c.wwwAborting
        /\ d.transfer = c.transfer /\ d.original = None
        /\ d.temp = None /\ d.list = <<>> /\ d.block = b /\ ~d.restart /\ d.loaded = l
    <3>1. m \in ClientRecord /\ d = [p EXCEPT !.commands = <<>>]
      BY <1>5
    <3>2. QED
      BY ONLY <1>6, <1>7, <2>6, <3>1 DEF ClientRecord
  <2>10. /\ p.commands = <<BlockCommand("nextdl", c.block), y>>
         /\ d.disk = [c.disk EXCEPT ![c.temp] = c.copy]
         /\ d.block = c.block + 1
         /\ d.loaded = c.loaded \cup {f \in File : d.disk[f] = WholePak(f)}
    <3>1. m.loaded = c.loaded /\ m.disk = d.disk
      BY <1>6, <2>9
    <3>2. l = c.loaded \cup {f \in File : d.disk[f] = WholePak(f)}
      BY <2>1, <3>1
    <3>3. QED
      BY ONLY <1>1, <1>2, <1>3, <2>8, <2>9, <3>2
  <2>11. QED
    BY <1>7, <2>4, <2>7, <2>9, <2>10 DEF Finished
<1>8. CASE c.list # <<>>
  <2>1. PICK g : g = Head(m.list)
    OBVIOUS
  <2>2. y = FileCommand("download", g)
    BY <1>6, <1>8, <2>1
  <2>3. PICK k : k = Append(m.commands, y)
    OBVIOUS
  <2>4. PICK t : t = Tail(m.list)
    OBVIOUS
  <2>5. /\ g \in File /\ p \in ClientRecord
        /\ p = [m EXCEPT !.name = g, !.temp = g, !.block = 0, !.commands = k,
                         !.restart = TRUE, !.list = t]
    <3>1. /\ m \in ClientRecord /\ m.list # <<>> /\ p = NextDownload(m)
      BY ONLY <1>5, <1>6, <1>8
    <3>2. /\ Head(m.list) \in File /\ NextDownload(m) \in ClientRecord
          /\ NextDownload(m) =
               [m EXCEPT !.name = Head(m.list), !.temp = Head(m.list), !.block = 0,
                         !.commands = Append(m.commands, FileCommand("download", Head(m.list))),
                         !.restart = TRUE, !.list = Tail(m.list)]
      BY ONLY <3>1, NextDownloadMore
    <3>3. QED
      BY ONLY <2>1, <2>2, <2>3, <2>4, <3>1, <3>2
  <2>6. y \in ClientCommand /\ y.command = "download" /\ y.file = g
    <3>1. "download" \in CommandName
      BY DEF CommandName
    <3>2. QED
      BY <2>2, <2>5, <3>1, FileCommandFields
  <2>7. k = <<x, y>>
    BY <1>6, <2>3, TwoInTurn
  <2>8. d \in ClientRecord /\ d.commands = <<>>
    BY <2>5, CommandsLeave
  <2>9. p.commands = <<x, y>>
    BY <1>5, <2>7, <2>5 DEF ClientRecord
  <2>10. /\ ~d.open /\ d.copy = <<>> /\ d.disk = disk
         /\ d.name = d.temp /\ d.state = c.state
         /\ d.wwwActive = c.wwwActive /\ d.wwwAborting = c.wwwAborting
         /\ d.transfer = c.transfer /\ d.original = c.original
         /\ d.temp = g /\ d.list = t /\ d.block = 0 /\ d.restart /\ d.loaded = c.loaded
    <3>1. m \in ClientRecord /\ d = [p EXCEPT !.commands = <<>>]
      BY <1>5
    <3>2. QED
      BY ONLY <1>6, <2>5, <3>1 DEF ClientRecord
  <2>11. QED
    BY <1>1, <1>2, <1>6, <1>8, <2>1, <2>4, <2>6, <2>8, <2>9, <2>10 DEF Finished
<1>9. QED
  BY <1>7, <1>8

\* CL_ParseDownload, the empty block that ends the pak.
LEMMA ReceiveFinish ==
  ASSUME PakTyped, InBand, ~session.redirects,
         NEW i \in DOMAIN toClient, ReceiveFromServer(i),
         client.state # "refused", toClient[i].kind = "block",
         toClient[i].number = client.block, toClient[i].data = Eof
  PROVE  PakTyped' /\ InBand' /\ Copies
<1>1. /\ i = 1 \/ Lossy
      /\ Update(Parse(client, toClient[i]))
      /\ toClient' = SubSeq(toClient, i + 1, Len(toClient))
      /\ UNCHANGED <<download, present, session>>
  BY DEF ReceiveFromServer
<1>2. /\ toClient[i] \in DownloadRecord
      /\ toClient' \in Seq(DownloadRecord) /\ Len(toClient) \in Nat
      /\ i \in Nat \ {0} /\ Len(toClient') = Len(toClient) - i
      /\ \A j \in DOMAIN toClient' :
            j \in Nat \ {0} /\ j + i \in DOMAIN toClient /\ toClient'[j] = toClient[j + i]
            /\ RecordFits(toClient[j + i])
  BY <1>1, Received
<1>3. client \in ClientRecord /\ client.commands = <<>> /\ toServer \in Seq(ClientCommand)
  BY DEF PakTyped
<1>4. PICK b : b = client.block
  OBVIOUS
<1>5. PICK f : f = client.temp
  OBVIOUS
<1>6. /\ b \in Nat /\ session.lacks \in SUBSET File
      /\ download.acknowledged \in Nat /\ download.buffered \in Nat
      /\ download.transmit \in Nat /\ download.read \in Nat /\ download.eof \in BOOLEAN
  BY <1>4, InBandFile
<1>7. /\ f \in session.lacks /\ f \in File /\ f # None
      /\ ~WantsMore /\ download.open /\ Copying
      /\ b < ShortLimit /\ b < download.buffered
      /\ toClient[i].data = BlockOf(f, b)
      /\ Orderly => i = 1
  <2>1. toClient[i].number >= client.block
    BY <1>4, <1>6
  <2>2. QED
    BY <1>1, <1>4, <1>5, <1>6, <2>1, BlockReceived
<1>8. b = Blocks[f] /\ Blocks[f] \in Nat \ {0}
  <2>1. /\ Blocks[f] \in Nat \ {0}
        /\ BlockOf(f, b) = Eof <=> b >= Blocks[f]
    BY <1>6, <1>7, BlockOfProperties
  <2>2. b <= Blocks[f]
    BY <1>4, <1>5, <1>7 DEF InBand, ClientCopies
  <2>3. b >= Blocks[f]
    BY <1>7, <2>1
  <2>4. QED
    BY ONLY <1>6, <2>1, <2>2, <2>3
<1>9. f \in Writable
  BY <1>7 DEF PakTyped, Tame
<1>10. download.acknowledged <= b /\ f = download.name
  BY <1>4, <1>5, <1>7 DEF Copying
<1>11. download.buffered = b + 1 /\ download.transmit <= b + 1
  <2>1. /\ download.read <= Blocks[f]
        /\ download.buffered = download.read + IF download.eof THEN 1 ELSE 0
        /\ download.transmit <= download.buffered
    BY <1>7, <1>10 DEF InBand, ServerServes
  <2>2. QED
    BY ONLY <1>6, <1>7, <1>8, <2>1
<1>12. /\ client.copy = WholePak(f) /\ client.restart /\ client.name = client.temp
       /\ client.original = None /\ client.transfer = None
       /\ ~client.wwwActive /\ ~client.wwwAborting
       /\ client.list \in Seq(session.lacks)
       /\ ~Orderly => client.list = <<>>
  <2>1. /\ client.copy = SubSeq(WholePak(f), 1, b) /\ client.restart
        /\ ~Orderly => client.list = <<>>
    BY <1>4, <1>5, <1>7 DEF InBand, ClientCopies
  <2>2. client.copy = WholePak(f)
    BY <1>7, <1>8, <2>1, NoBlocks
  <2>3. QED
    BY <2>1, <2>2 DEF InBand, ClientCopies
<1>13. PICK p : p = ParseBlock(client, client.block, Eof)
  OBVIOUS
<1>14. client' = [p EXCEPT !.commands = <<>>] /\ toServer' = toServer \o p.commands
  <2>1. p = Parse(client, toClient[i])
    BY <1>13 DEF Parse
  <2>2. QED
    BY <1>1, <2>1 DEF Update
<1>15. PICK x : x = BlockCommand("nextdl", b)
  OBVIOUS
<1>16. x \in ClientCommand /\ x.command = "nextdl" /\ x.block = b
  <2>1. "nextdl" \in CommandName
    BY DEF CommandName
  <2>2. QED
    BY <1>6, <1>15, <2>1, BlockCommandFields
<1>17. PICK y : y = IF client.list = <<>> THEN Command("donedl")
                       ELSE FileCommand("download", Head(client.list))
  OBVIOUS
<1>18. PICK d : d = client'
  OBVIOUS
<1>19. /\ d \in ClientRecord /\ d.commands = <<>>
       /\ ~d.open /\ d.copy = <<>>
       /\ d.disk = [client.disk EXCEPT ![client.temp] = client.copy]
       /\ d.name = d.temp /\ d.state = client.state
       /\ d.wwwActive = client.wwwActive /\ d.wwwAborting = client.wwwAborting
       /\ d.transfer = client.transfer
       /\ client.original = None => d.original = None
       /\ y \in ClientCommand
       /\ p.commands = <<BlockCommand("nextdl", client.block), y>>
       /\ client.list = <<>> =>
            /\ y.command = "donedl" /\ d.temp = None /\ d.list = <<>>
            /\ d.block = client.block + 1 /\ ~d.restart
            /\ d.loaded = client.loaded \cup {g \in File : d.disk[g] = WholePak(g)}
       /\ client.list # <<>> =>
            /\ y.command = "download" /\ y.file = d.temp
            /\ d.temp = Head(client.list) /\ d.list = Tail(client.list)
            /\ d.block = 0 /\ d.restart /\ d.loaded = client.loaded
  <2>1. client.temp \in Writable /\ client.temp \in File
    BY <1>5, <1>7, <1>9
  <2>2. d = [p EXCEPT !.commands = <<>>]
    BY <1>14, <1>18
  <2>3. client.name = client.temp /\ client.restart
    BY <1>12
  <2>4. PICK c : c = client
    OBVIOUS
  <2>5. /\ c \in ClientRecord /\ c.commands = <<>> /\ c.temp \in Writable /\ c.temp \in File
        /\ c.name = c.temp /\ c.restart
    BY <1>3, <2>1, <2>3, <2>4
  <2>6. p = ParseBlock(c, c.block, Eof)
    BY <1>13, <2>4
  <2>7. y = IF c.list = <<>> THEN Command("donedl") ELSE FileCommand("download", Head(c.list))
    BY <1>17, <2>4
  <2>8. Finished(c, p, d, y)
    BY <2>2, <2>5, <2>6, <2>7, FinishedClient
  <2>9. QED
    BY ONLY <2>4, <2>8 DEF Finished
<1>20. /\ y \in ClientCommand /\ p.commands = <<x, y>>
       /\ client' \in ClientRecord /\ client'.commands = <<>>
       /\ ~client'.open /\ client'.copy = <<>>
       /\ client'.disk = [client.disk EXCEPT ![f] = WholePak(f)]
       /\ client'.name = client'.temp /\ client'.state = client.state
       /\ ~client'.wwwActive /\ ~client'.wwwAborting
       /\ client'.transfer = None /\ client'.original = None
  BY <1>4, <1>5, <1>12, <1>15, <1>18, <1>19
<1>21. client.list = <<>> =>
         /\ y.command = "donedl" /\ client'.temp = None /\ client'.list = <<>>
         /\ client'.block = b + 1 /\ ~client'.restart
         /\ client'.loaded =
               client.loaded \cup {g \in File : client'.disk[g] = WholePak(g)}
  BY <1>4, <1>18, <1>19
<1>22. client.list # <<>> =>
         /\ y.command = "download" /\ y.file = client'.temp
         /\ client'.temp = Head(client.list) /\ client'.list = Tail(client.list)
         /\ client'.block = 0 /\ client'.restart /\ client'.loaded = client.loaded
  BY <1>18, <1>19
<1>23. Wants(y) /\ ~Wants(x)
  BY <1>16, <1>20, <1>21, <1>22 DEF Wants
<1>24. PICK s : s = toServer \o <<x>>
  OBVIOUS
<1>25. /\ s \in Seq(ClientCommand) /\ Len(toServer) \in Nat /\ Len(s) = Len(toServer) + 1
       /\ \A j \in DOMAIN toServer : j \in DOMAIN s /\ s[j] = toServer[j]
       /\ s[Len(toServer) + 1] = x /\ Len(toServer) + 1 \in DOMAIN s
       /\ \A j \in DOMAIN s : j \in DOMAIN toServer \/ j = Len(toServer) + 1
  BY <1>3, <1>16, <1>24, WithOne
<1>26. toServer' = s \o <<y>>
  <2>1. <<x, y>> = <<x>> \o <<y>>
    <3>1. <<x>> \in Seq(ClientCommand)
      BY <1>16
    <3>2. QED
      BY <1>20, <1>21, <1>22, <3>1, TwoInTurn, AppendIsConcat
  <2>2. <<x>> \in Seq(ClientCommand) /\ <<y>> \in Seq(ClientCommand)
    BY <1>16, <1>20
  <2>3. toServer \o (<<x>> \o <<y>>) = (toServer \o <<x>>) \o <<y>>
    BY <1>3, <2>2, ConcatAssociative
  <2>4. QED
    BY <1>14, <1>20, <1>21, <1>22, <1>24, <2>1, <2>3
<1>27. /\ toServer' \in Seq(ClientCommand) /\ Len(toServer') = Len(s) + 1
       /\ \A j \in DOMAIN s : j \in DOMAIN toServer' /\ toServer'[j] = s[j]
       /\ toServer'[Len(s) + 1] = y /\ Len(s) + 1 \in DOMAIN toServer'
       /\ \A j \in DOMAIN toServer' : j \in DOMAIN s \/ j = Len(s) + 1
  BY <1>20, <1>21, <1>22, <1>25, <1>26, WithOne
<1>28. PICK k : k = Len(toServer)
  OBVIOUS
<1>29. /\ k \in Nat /\ DOMAIN toServer = 1 .. k
       /\ \A j \in DOMAIN toServer : j \in DOMAIN toServer' /\ toServer'[j] = toServer[j]
       /\ toServer'[k + 1] = x /\ k + 1 \in DOMAIN toServer'
       /\ toServer'[k + 2] = y /\ k + 2 \in DOMAIN toServer' /\ Len(toServer') = k + 2
       /\ \A j \in DOMAIN toServer' : j \in DOMAIN toServer \/ j = k + 1 \/ j = k + 2
  <2>1. (k + 1) + 1 = k + 2 /\ k \in Nat
    BY <1>25, <1>28
  <2>2. DOMAIN toServer = 1 .. k
    BY <1>3, <1>28, LenProperties
  <2>3. QED
    BY <1>25, <1>27, <1>28, <2>1, <2>2
<1>30. \A j \in DOMAIN toServer : ~Wants(toServer[j])
  BY <1>7 DEF WantsMore
<1>31. WantsMore' /\ (Orderly' <=> Orderly) /\ ~Idle /\ ~Idle'
  <2>1. WantsMore'
    BY <1>23, <1>29 DEF WantsMore, Wants
  <2>2. QED
    BY <1>1, <1>7, <2>1 DEF Orderly, Lossy, Prompt, Idle
<1>32. High' = b + 1 /\ High = b
  BY <1>1, <1>4, <1>7, <1>8, <1>10, <1>31 DEF High
<1>33. client.list # <<>> =>
         /\ client'.temp \in session.lacks /\ client'.temp # None
         /\ client'.list \in Seq(session.lacks)
  <2>1. ASSUME client.list # <<>>
        PROVE  Head(client.list) \in session.lacks /\ Tail(client.list) \in Seq(session.lacks)
    <3>1. PICK l : l = client.list
      OBVIOUS
    <3>2. PICK S : S = session.lacks
      OBVIOUS
    <3>3. l \in Seq(S) /\ l # <<>>
      BY <1>12, <2>1, <3>1, <3>2
    <3>4. Head(l) \in S /\ Tail(l) \in Seq(S)
      BY <3>3, TailOf
    <3>5. QED
      BY <3>1, <3>2, <3>4
  <2>2. QED
    BY <1>6, <1>20, <1>21, <1>22, <2>1
<1>34. PakTyped'
  <2>1. \A g \in File : client'.disk[g] \in {<<>>, WholePak(g)}
    <3>1. client.disk \in [File -> Seq(Block \cup {Eof})]
      BY <1>3 DEF ClientRecord
    <3>2. \A g \in File : client.disk[g] \in {<<>>, WholePak(g)}
      BY DEF PakTyped, SavedWhole
    <3>3. QED
      BY <1>20, <1>21, <1>22, <3>1, <3>2
  <2>2. client.loaded \subseteq client'.loaded
    BY <1>20, <1>21, <1>22
  <2>3. File \ client'.loaded \subseteq session.lacks
    BY <2>2 DEF PakTyped
  <2>4. QED
    BY <1>1, <1>2, <1>20, <1>21, <1>22, <1>27, <2>1, <2>3, ClientTyped
<1>35. ASSUME ~Orderly PROVE client.list = <<>> /\ client'.loaded = File
  <2>1. client.list = <<>>
    BY <1>12, <1>35
  <2>2. client'.disk[f] = WholePak(f)
    <3>1. client.disk \in [File -> Seq(Block \cup {Eof})]
      BY <1>3 DEF ClientRecord
    <3>2. QED
      BY <1>7, <1>20, <1>21, <1>22, <3>1
  <2>3. \A g \in session.lacks : g = f
    BY <1>7, <1>35 DEF PakTyped, Tame, Orderly, Lossy, Prompt
  <2>4. File \ client.loaded \subseteq session.lacks
    BY DEF PakTyped
  <2>5. client'.loaded \subseteq File
    BY <1>20 DEF ClientRecord
  <2>6. QED
    <3>1. client'.loaded = client.loaded \cup {g \in File : client'.disk[g] = WholePak(g)}
      BY ONLY <1>21, <2>1
    <3>2. ASSUME NEW g \in File PROVE g \in client'.loaded
      <4>1. CASE g \in client.loaded
        BY ONLY <3>1, <4>1
      <4>2. CASE g \notin client.loaded
        <5>1. g = f
          BY ONLY <2>3, <2>4, <3>2, <4>2
        <5>2. QED
          BY ONLY <2>2, <3>1, <3>2, <5>1
      <4>3. QED
        BY ONLY <4>1, <4>2
    <3>3. QED
      BY ONLY <2>1, <2>5, <3>2
<1>36. ClientCopies'
  <2>1. CASE client.list = <<>>
    <3>1. <<>> \in Seq(session'.lacks)
      BY EmptySeq
    <3>2. client'.temp = None /\ client'.list = <<>> /\ ~client'.restart
      BY <1>20, <1>21, <1>22, <2>1
    <3>3. ~Orderly' => client'.loaded = File
      BY <1>31, <1>35
    <3>4. client'.state # "refused"
      BY <1>20, <1>21, <1>22
    <3>5. QED
      BY <1>20, <1>21, <1>22, <3>1, <3>2, <3>3, <3>4 DEF ClientCopies
  <2>2. CASE client.list # <<>>
    <3>1. /\ client'.temp \in session'.lacks /\ client'.temp # None
          /\ client'.list \in Seq(session'.lacks)
      BY <1>1, <1>33, <2>2
    <3>2. client'.temp \in File
      BY <1>1, <1>6, <3>1
    <3>3. client'.block = 0 /\ client'.restart
      BY <1>20, <1>21, <1>22, <2>2
    <3>4. client'.copy = SubSeq(WholePak(client'.temp), 1, client'.block)
      BY <1>20, <1>21, <1>22, <3>2, <3>3, NoBlocks
    <3>5. Blocks[client'.temp] \in Nat
      BY <3>2
    <3>6. client'.block <= Blocks[client'.temp] /\ ~(client'.block > 0)
      BY <3>3, <3>5
    <3>7. Orderly'
      BY <1>12, <1>31, <2>2
    <3>8. client'.state # "refused"
      BY <1>20, <1>21, <1>22
    <3>9. QED
      BY <1>20, <1>21, <1>22, <3>1, <3>3, <3>4, <3>6, <3>7, <3>8 DEF ClientCopies
  <2>3. QED
    BY <2>1, <2>2
<1>37. ServerServes'
  BY <1>1 DEF InBand, ServerServes, WindowHeld
<1>38. CommandsFit'
  <2>1. ASSUME NEW j \in DOMAIN toServer' PROVE CommandFits(j, toServer[j])'
    <3>1. CASE j \in DOMAIN toServer
      <4>1. CommandFits(j, toServer[j]) /\ ~Wants(toServer[j]) /\ toServer'[j] = toServer[j]
        BY <1>29, <1>30, <3>1 DEF InBand, CommandsFit
      <4>2. toServer[j].block \in Nat
        <5>1. toServer[j] \in ClientCommand
          BY <1>3, <1>29, <3>1, ElementOfSeq
        <5>2. QED
          BY <5>1 DEF ClientCommand
      <4>3. toServer[j].block < High => toServer[j].block < High'
        BY <1>6, <1>32, <4>2
      <4>4. QED
        BY <1>1, <1>31, <4>1, <4>3 DEF CommandFits, Wants
    <3>2. CASE j = k + 1
      <4>1. x.block >= download'.acknowledged /\ x.block < High' /\ download'.open
        BY <1>1, <1>6, <1>7, <1>10, <1>16, <1>32
      <4>2. QED
        BY <1>16, <1>29, <3>2, <4>1 DEF CommandFits, Wants
    <3>3. CASE j = k + 2
      <4>1. \/ y.command = "donedl" /\ client'.temp = None
            \/ /\ y.command = "download" /\ y.file = client'.temp
               /\ client'.temp # None /\ client'.block = 0
        <5>1. CASE client.list = <<>>
          BY <1>20, <1>21, <1>22, <5>1
        <5>2. CASE client.list # <<>>
          BY <1>20, <1>21, <1>22, <1>33, <5>2
        <5>3. QED
          BY <5>1, <5>2
      <4>2. QED
        BY <1>29, <3>3, <4>1 DEF CommandFits, Wants
    <3>4. QED
      BY <1>29, <3>1, <3>2, <3>3
  <2>2. ASSUME NEW j \in DOMAIN toServer', NEW l \in DOMAIN toServer', j < l,
               toServer'[j].command = "nextdl", toServer'[l].command = "nextdl"
        PROVE  toServer'[j].block < toServer'[l].block
    <3>1. l # k + 2 /\ j # k + 2
      BY <1>20, <1>21, <1>22, <1>29, <2>2
    <3>2. j \in DOMAIN toServer /\ toServer'[j] = toServer[j]
      BY <1>29, <2>2, <3>1
    <3>3. CASE l \in DOMAIN toServer
      BY <1>29, <2>2, <3>2, <3>3 DEF InBand, CommandsFit
    <3>4. CASE l = k + 1
      <4>1. toServer[j].block < High
        BY <2>2, <3>2 DEF InBand, CommandsFit, CommandFits
      <4>2. QED
        BY <1>16, <1>29, <1>32, <3>2, <3>4, <4>1
    <3>5. QED
      BY <1>29, <3>1, <3>3, <3>4
  <2>3. ASSUME NEW n \in Nat, download'.acknowledged <= n, n < High' PROVE Answers(n)'
    <3>1. CASE n < High
      <4>1. Answers(n)
        BY <1>1, <1>7, <2>3, <3>1 DEF InBand, CommandsFit
      <4>2. QED
        BY <1>29, <4>1 DEF Answers
    <3>2. CASE ~(n < High)
      <4>1. n = b
        BY <1>6, <1>32, <2>3, <3>2
      <4>2. QED
        BY <1>16, <1>29, <4>1 DEF Answers
    <3>3. QED
      BY <3>1, <3>2
  <2>4. QED
    BY <2>1, <2>2, <2>3 DEF CommandsFit
<1>39. Orderly => toClient' = <<>> /\ download.transmit = b + 1
  <2> SUFFICES ASSUME Orderly PROVE toClient' = <<>> /\ download.transmit = b + 1
    OBVIOUS
  <2>1. Len(toClient) = download.transmit - b
    BY <1>4, <1>7 DEF Copying
  <2>2. i = 1 /\ Len(toClient) >= 1
    <3>1. DOMAIN toClient = 1 .. Len(toClient)
      BY InBandFile
    <3>2. QED
      BY <1>2, <1>7, <3>1
  <2>3. download.transmit = b + 1 /\ Len(toClient') = 0
    <3>1. PICK n : n = Len(toClient)
      OBVIOUS
    <3>2. PICK t : t = download.transmit
      OBVIOUS
    <3>3. /\ n \in Nat /\ t \in Nat /\ b \in Nat
      BY <1>2, <1>6, <1>11, <3>1, <3>2
    <3>4. n >= 1 /\ n = t - b /\ t <= b + 1
      BY ONLY <1>11, <2>1, <2>2, <3>1, <3>2
    <3>5. Len(toClient') = n - i
      BY ONLY <1>2, <3>1
    <3>6. QED
      BY ONLY <2>2, <3>2, <3>3, <3>4, <3>5
  <2>4. QED
    BY <1>2, <2>3, EmptySeq
<1>40. RecordsFit'
  <2> SUFFICES ASSUME NEW j \in DOMAIN toClient' PROVE RecordFits(toClient[j])'
    BY DEF RecordsFit
  <2>1. RecordFits(toClient[j + i]) /\ toClient'[j] = toClient[j + i]
    BY <1>2
  <2>2. ~Orderly
    BY <1>39
  <2>3. client'.block = b + 1
    BY <1>20, <1>21, <1>22, <1>35, <2>2
  <2>4. \A n \in Nat : (n >= client.block => n < b + 1) => ~(n >= client'.block)
    BY <1>4, <1>6, <2>3
  <2>5. \A n \in Nat : Due(n, toClient[j + i].data) => n < b + 1
    BY <1>11 DEF Due
  <2>6. toClient[j + i].kind # "gamestate" /\ toClient[j + i].kind # "refused"
    BY <1>31, <2>1 DEF RecordFits
  <2>7. QED
    BY <2>1, <2>4, <2>5, <2>6 DEF RecordFits
<1>41. Phases'
  <2>1. Finishing'
    <3>1. download'.buffered = Blocks[download'.name] + 1
      BY <1>1, <1>8, <1>10, <1>11
    <3>2. Orderly' => download'.transmit = download'.buffered /\ toClient' = <<>>
      BY <1>1, <1>11, <1>31, <1>39
    <3>3. ~Orderly' => client'.temp = None /\ client'.block = Blocks[download'.name] + 1
      BY <1>1, <1>8, <1>10, <1>20, <1>21, <1>22, <1>31, <1>35
    <3>4. QED
      BY <3>1, <3>2, <3>3 DEF Finishing
  <2>2. QED
    BY <1>1, <1>7, <1>31, <2>1 DEF Phases
<1>42. Copies
  <2>1. client'.temp \in File \cup {None}
    BY <1>20 DEF ClientRecord
  <2>2. QED
    BY <1>5, <1>7, <1>20, <2>1, CopySaved
<1>43. QED
  BY <1>42, <1>34, <1>36, <1>37, <1>38, <1>40, <1>41 DEF InBand

\* A message is lost.
LEMMA LoseInBand ==
  ASSUME PakTyped, InBand, Lose
  PROVE  PakTyped' /\ InBand' /\ Copies
<1>1. /\ Lossy /\ toClient # <<>> /\ toClient' = Tail(toClient)
      /\ UNCHANGED <<download, present, toServer, client, session>>
  BY DEF Lose
<1>2. toClient \in Seq(DownloadRecord) /\ client \in ClientRecord /\ client.commands = <<>>
  BY DEF PakTyped
<1>3. /\ toClient' \in Seq(DownloadRecord)
      /\ Len(toClient) \in Nat /\ Len(toClient') = Len(toClient) - 1
      /\ \A j \in DOMAIN toClient' :
            j + 1 \in DOMAIN toClient /\ toClient'[j] = toClient[j + 1]
  BY <1>1, <1>2, TailOf
<1>4. Len(toClient') <= Len(toClient)
  BY <1>3
<1>5. \A j \in DOMAIN toClient' : \E k \in DOMAIN toClient : toClient'[j] = toClient[k]
  BY <1>3
<1>6. ~Orderly
  BY <1>1 DEF Orderly
<1>7. /\ ~client.wwwActive /\ ~client.wwwAborting
      /\ client.state = "refused" => Idle
  BY DEF InBand, ClientCopies
<1>8. QED
  BY <1>1, <1>2, <1>3, <1>4, <1>5, <1>6, <1>7, ReadOn

\* CL_ParseGamestate while a pak is lacking: the downloads begin.
LEMMA ReceiveGameState ==
  ASSUME PakTyped, InBand, ~session.redirects,
         NEW i \in DOMAIN toClient, ReceiveFromServer(i),
         client.state # "refused", toClient[i].kind = "gamestate",
         File \ client.loaded # {}
  PROVE  PakTyped' /\ InBand' /\ Copies
<1>1. /\ Update(Parse(client, toClient[i]))
      /\ toClient' = SubSeq(toClient, i + 1, Len(toClient))
      /\ UNCHANGED <<download, present, session>>
  BY DEF ReceiveFromServer
<1>2. /\ RecordFits(toClient[i])
      /\ toClient' \in Seq(DownloadRecord) /\ Len(toClient) \in Nat
      /\ i \in Nat \ {0} /\ Len(toClient') = Len(toClient) - i /\ Len(toClient') \in Nat
  BY <1>1, Received
<1>3. client \in ClientRecord /\ client.commands = <<>> /\ toServer \in Seq(ClientCommand)
  BY DEF PakTyped
<1>4. Idle /\ client.temp = None
  BY <1>2 DEF RecordFits
<1>5. /\ ~client.wwwActive /\ ~client.wwwAborting
      /\ client.transfer = None /\ client.original = None
      /\ client.copy = <<>> /\ ~client.open
  BY <1>4 DEF InBand, ClientCopies
<1>6. Orderly
  <2>1. client.loaded \subseteq File
    BY <1>3 DEF ClientRecord
  <2>2. QED
    BY <1>4, <2>1 DEF InBand, ClientCopies
<1>7. toClient' = <<>>
  <2>1. Len(toClient) <= 1
    BY <1>4, <1>6 DEF InBand, Phases, Resting
  <2>2. Len(toClient') = 0
    BY ONLY <1>2, <2>1
  <2>3. QED
    BY <1>2, <2>2, EmptySeq
<1>8. toServer = <<>>
  <2> SUFFICES ASSUME toServer # <<>> PROVE FALSE
    OBVIOUS
  <2>1. 1 \in DOMAIN toServer
    BY <1>3, TailOf
  <2>2. CommandFits(1, toServer[1])
    BY <2>1 DEF InBand, CommandsFit
  <2>3. ~Wants(toServer[1])
    BY <1>4, <2>1 DEF Idle, WantsMore
  <2>4. ~download.open
    BY <1>4 DEF Idle
  <2>5. QED
    BY <1>6, <2>2, <2>3, <2>4 DEF CommandFits, Wants
<1>9. PICK f : f = Head(SetToSeq(File \ client.loaded))
  OBVIOUS
<1>10. PICK t : t = Tail(SetToSeq(File \ client.loaded))
  OBVIOUS
<1>11. PICK m : m = FileCommand("download", f)
  OBVIOUS
<1>12. PICK c : c = Parse(client, toClient[i])
  OBVIOUS
<1>13. /\ f \in File \ client.loaded /\ c \in ClientRecord
       /\ SetToSeq(File \ client.loaded) \in Seq(File \ client.loaded)
       /\ SetToSeq(File \ client.loaded) # <<>>
       /\ c = [client EXCEPT !.wwwActive = FALSE, !.wwwAborting = FALSE,
                             !.original = None, !.state = "connected",
                             !.name = f, !.temp = f, !.block = 0,
                             !.commands = Append(client.commands, m),
                             !.restart = TRUE, !.list = t]
  <2>1. c = InitDownloads(client)
    BY <1>12 DEF Parse
  <2>2. QED
    BY <1>3, <1>9, <1>10, <1>11, <2>1, InitDownloadsMore
<1>14. /\ m \in ClientCommand /\ m.command = "download" /\ m.file = f
  <2>1. "download" \in CommandName
    BY DEF CommandName
  <2>2. QED
    BY <1>11, <1>13, <2>1, FileCommandFields
<1>15. File \ client.loaded \subseteq session.lacks /\ session.lacks \in SUBSET File
  BY InBandFile DEF PakTyped
<1>16. f \in session.lacks /\ f \in File /\ f # None /\ t \in Seq(session.lacks)
  <2>1. PICK S : S = File \ client.loaded
    OBVIOUS
  <2>2. PICK l : l = SetToSeq(S)
    OBVIOUS
  <2>3. l \in Seq(S) /\ l # <<>>
    BY <1>13, <2>1, <2>2
  <2>4. Tail(l) \in Seq(S)
    BY <2>3, TailOf
  <2>5. Tail(l) \in Seq(session.lacks)
    BY <1>15, <2>1, <2>4
  <2>6. QED
    BY <1>10, <1>13, <1>15, <2>1, <2>2, <2>5
<1>17. client' = [c EXCEPT !.commands = <<>>] /\ toServer' = toServer \o c.commands
  BY <1>1, <1>12 DEF Update
<1>18. client' \in ClientRecord /\ client'.commands = <<>>
  BY <1>13, <1>17, CommandsLeave
<1>19. Append(client.commands, m) = <<m>>
  BY <1>3
<1>20. /\ client'.state = "connected" /\ client'.name = f /\ client'.temp = f
       /\ client'.block = 0 /\ client'.restart /\ client'.list = t
       /\ client'.original = None /\ ~client'.wwwActive /\ ~client'.wwwAborting
       /\ client'.transfer = None /\ client'.copy = <<>> /\ ~client'.open
       /\ client'.loaded = client.loaded /\ client'.disk = client.disk
       /\ c.commands = <<m>>
  <2>1. /\ c.state = "connected" /\ c.name = f /\ c.temp = f
        /\ c.block = 0 /\ c.restart /\ c.list = t
        /\ c.original = None /\ ~c.wwwActive /\ ~c.wwwAborting
        /\ c.transfer = client.transfer /\ c.copy = client.copy /\ c.open = client.open
        /\ c.loaded = client.loaded /\ c.disk = client.disk
        /\ c.commands = Append(client.commands, m)
    <3>1. PICK d : d = client
      OBVIOUS
    <3>2. PICK k : k = Append(client.commands, m)
      OBVIOUS
    <3>3. d \in ClientRecord
      BY ONLY <1>3, <3>1
    <3>4. c = [d EXCEPT !.wwwActive = FALSE, !.wwwAborting = FALSE,
                        !.original = None, !.state = "connected",
                        !.name = f, !.temp = f, !.block = 0,
                        !.commands = k, !.restart = TRUE, !.list = t]
      BY ONLY <1>13, <3>1, <3>2
    <3>5. QED
      BY ONLY <3>1, <3>2, <3>3, <3>4, SMTT(20) DEF ClientRecord
  <2>2. PICK d : d = client'
    OBVIOUS
  <2>3. c \in ClientRecord /\ d = [c EXCEPT !.commands = <<>>]
    BY <1>13, <1>17, <2>2
  <2>4. /\ d.state = c.state /\ d.name = c.name /\ d.temp = c.temp
        /\ d.block = c.block /\ d.restart = c.restart /\ d.list = c.list
        /\ d.original = c.original /\ d.wwwActive = c.wwwActive
        /\ d.wwwAborting = c.wwwAborting /\ d.transfer = c.transfer
        /\ d.copy = c.copy /\ d.open = c.open /\ d.loaded = c.loaded /\ d.disk = c.disk
    BY <2>3, TheRestStays
  <2>5. QED
    BY ONLY <1>5, <1>19, <2>1, <2>2, <2>4
<1>21. toServer' = <<m>> /\ toServer' \in Seq(ClientCommand)
       /\ DOMAIN toServer' = {1} /\ toServer'[1] = m /\ Len(toServer') = 1
  <2>1. <<m>> \in Seq(ClientCommand)
    BY <1>14
  <2>2. toServer' = <<m>>
    BY <1>8, <1>17, <1>20, <2>1, ConcatEmptySeq
  <2>3. QED
    BY <2>1, <2>2
<1>22. Wants(m)
  BY <1>14 DEF Wants
<1>23. WantsMore' /\ ~Idle' /\ Orderly'
  BY <1>1, <1>6, <1>21, <1>22 DEF WantsMore, Idle, Orderly, Lossy, Prompt
<1>24. ~download.open /\ download.name = None
  BY <1>4 DEF Idle
<1>25. PakTyped'
  <2>1. /\ \A g \in File : client'.disk[g] \in {<<>>, WholePak(g)}
        /\ File \ client'.loaded \subseteq session.lacks
    BY <1>20 DEF PakTyped, SavedWhole
  <2>2. QED
    BY <1>1, <1>2, <1>18, <1>21, <2>1, ClientTyped
<1>26. ClientCopies'
  <2>1. client'.copy = SubSeq(WholePak(f), 1, client'.block)
    BY <1>16, <1>20, NoBlocks
  <2>2. Blocks[f] \in Nat
    BY <1>16
  <2>3. client'.block <= Blocks[f] /\ ~(client'.block > 0)
    BY <1>20, <2>2
  <2>4. QED
    BY <1>1, <1>16, <1>20, <1>23, <2>1, <2>3 DEF ClientCopies
<1>27. ServerServes'
  BY <1>1 DEF InBand, ServerServes, WindowHeld
<1>28. CommandsFit'
  <2>1. CommandFits(1, toServer[1])'
    BY <1>14, <1>16, <1>20, <1>21 DEF CommandFits, Wants
  <2>2. ~download'.open
    BY <1>1, <1>24
  <2>3. QED
    BY <1>14, <1>21, <2>1, <2>2 DEF CommandsFit
<1>29. RecordsFit'
  BY <1>7 DEF RecordsFit
<1>30. Phases'
  BY <1>1, <1>7, <1>23, <1>24 DEF Phases, Asking
<1>31. Copies
  <2>1. client'.temp \in File \cup {None} /\ client'.copy = <<>> /\ client'.disk = client.disk
    BY <1>16, <1>20
  <2>2. QED
    BY <2>1, CopyBegins
<1>32. QED
  BY <1>31, <1>25, <1>26, <1>27, <1>28, <1>29, <1>30 DEF InBand

-----------------------------------------------------------------------------
(* The first state of a connection *)

\* Nothing was said but what the client asks for first.
Starting ==
    /\ download.name = None /\ ~download.open /\ ~download.redirectAcknowledged
    /\ toClient = <<>>
    /\ ~client.wwwActive /\ ~client.wwwAborting
    /\ client.transfer = None /\ client.original = None /\ client.name = client.temp
    /\ client.copy = <<>> /\ ~client.open /\ client.block = 0
    /\ client.state # "refused" /\ client.disk = [f \in File |-> <<>>]

NothingLacked ==
    /\ client.temp = None /\ ~client.restart /\ client.list = <<>>
    /\ toServer = <<>> /\ client.loaded = File

FirstAsked ==
    /\ client.temp \in session.lacks /\ client.restart
    /\ client.list \in Seq(session.lacks)
    /\ Len(client.list) = Cardinality(session.lacks) - 1
    /\ toServer = <<FileCommand("download", client.temp)>>

LEMMA PakInit ==
  ASSUME DownloadInit, Tame(session)
  PROVE  PakTyped /\ Starting /\ (NothingLacked \/ FirstAsked)
<1>1. session \in Session /\ Tame(session) /\ session.lacks \in SUBSET File
  BY DEF DownloadInit, Session
<1>2. PICK z : z = [f \in File |-> <<>>]
  OBVIOUS
<1>3. PICK l : l = File \ session.lacks
  OBVIOUS
<1>4. PICK c0 : c0 =
        [state |-> "connected", list |-> <<>>, name |-> None,
         temp |-> None, original |-> None, block |-> 0,
         open |-> FALSE, copy |-> <<>>, restart |-> FALSE,
         wwwActive |-> FALSE, wwwAborting |-> FALSE,
         transfer |-> None, disk |-> z, loaded |-> l, commands |-> <<>>]
  OBVIOUS
<1>5. /\ z \in [File -> Seq(Block \cup {Eof})] /\ l \in SUBSET File
      /\ <<>> \in Seq(File) /\ <<>> \in Seq(Block \cup {Eof}) /\ <<>> \in Seq(ClientCommand)
      /\ None \notin File
  <2>1. <<>> \in Seq(File) /\ <<>> \in Seq(Block \cup {Eof}) /\ <<>> \in Seq(ClientCommand)
    BY EmptySeq
  <2>2. QED
    BY <1>2, <1>3, <2>1
<1>6. c0 \in ClientRecord
  BY ONLY <1>4, <1>5 DEF ClientRecord
<1>7. PICK c : c = InitDownloads(c0)
  OBVIOUS
<1>8. client = [c EXCEPT !.commands = <<>>] /\ toServer = c.commands
  BY <1>2, <1>3, <1>4, <1>7 DEF DownloadInit
<1>9. /\ c0.commands = <<>> /\ c0.list = <<>> /\ c0.temp = None /\ c0.name = None
      /\ c0.original = None /\ c0.block = 0 /\ ~c0.open /\ c0.copy = <<>>
      /\ c0.transfer = None /\ c0.disk = z /\ c0.loaded = l
  BY ONLY <1>4
<1>10. File \ c0.loaded = session.lacks
  BY <1>1, <1>3, <1>9
<1>11. download \in ServerRecord /\ download.name = None /\ ~download.open
       /\ ~download.redirectAcknowledged /\ download.acknowledged = 0
       /\ download.buffered = 0
  <2>1. PICK e : e = [s \in Slots |-> Eof]
    OBVIOUS
  <2>2. e \in [Slots -> Block \cup {Eof}]
    BY <2>1
  <2>3. download = [name |-> None, open |-> FALSE, transmit |-> 0,
                   acknowledged |-> 0, buffered |-> 0, read |-> 0, eof |-> FALSE,
                   slots |-> e,
                   redirectActive |-> FALSE, redirectAcknowledged |-> FALSE,
                   redirectFailed |-> FALSE]
    BY <2>1 DEF DownloadInit
  <2>4. QED
    BY ONLY <2>2, <2>3 DEF ServerRecord
<1>12. toClient = <<>> /\ present = TRUE /\ toClient \in Seq(DownloadRecord)
  BY EmptySeq DEF DownloadInit
<1>13. ASSUME client \in ClientRecord, client.commands = <<>>, toServer \in Seq(ClientCommand),
              client.disk = z, client.loaded = l
       PROVE  PakTyped
  <2>1. SavedWhole
    BY <1>2, <1>13 DEF SavedWhole
  <2>2. /\ download.acknowledged <= download.buffered
        /\ download.buffered <= download.acknowledged + Window
    BY <1>11
  <2>3. File \ client.loaded \subseteq session.lacks
    BY <1>3, <1>13
  <2>4. QED
    BY <1>1, <1>11, <1>12, <1>13, <2>1, <2>2, <2>3 DEF PakTyped
<1>14. CASE session.lacks = {}
  <2>1. /\ c \in ClientRecord
        /\ c = [c0 EXCEPT !.wwwActive = FALSE, !.wwwAborting = FALSE,
                          !.restart = FALSE, !.temp = None, !.name = None,
                          !.original = None, !.state = "loading"]
    BY <1>6, <1>7, <1>10, <1>14, InitDownloadsDone
  <2>2. /\ ~c.wwwActive /\ ~c.wwwAborting /\ ~c.restart /\ c.temp = None /\ c.name = None
        /\ c.original = None /\ c.state = "loading" /\ c.commands = <<>> /\ c.list = <<>>
        /\ c.block = 0 /\ ~c.open /\ c.copy = <<>> /\ c.transfer = None /\ c.disk = z
        /\ c.loaded = l
    BY ONLY <1>6, <1>9, <2>1 DEF ClientRecord
  <2>3. PICK d : d = client
    OBVIOUS
  <2>4. d = [c EXCEPT !.commands = <<>>]
    BY <1>8, <2>3
  <2>5. d \in ClientRecord /\ d.commands = <<>>
    BY <2>1, <2>4, CommandsLeave
  <2>6. /\ d.state = c.state /\ d.name = c.name /\ d.temp = c.temp
        /\ d.block = c.block /\ d.restart = c.restart /\ d.list = c.list
        /\ d.original = c.original /\ d.wwwActive = c.wwwActive
        /\ d.wwwAborting = c.wwwAborting /\ d.transfer = c.transfer
        /\ d.copy = c.copy /\ d.open = c.open /\ d.loaded = c.loaded /\ d.disk = c.disk
    BY <2>1, <2>4, TheRestStays
  <2>7. PakTyped
    BY <1>5, <1>8, <1>13, <2>2, <2>3, <2>5, <2>6
  <2>8. Starting
    BY ONLY <1>2, <1>11, <1>12, <2>2, <2>3, <2>6 DEF Starting
  <2>9. NothingLacked
    <3>1. client.loaded = File
      BY <1>3, <1>14, <2>2, <2>3, <2>6
    <3>2. QED
      BY ONLY <1>8, <2>2, <2>3, <2>6, <3>1 DEF NothingLacked
  <2>10. QED
    BY <2>7, <2>8, <2>9
<1>15. CASE session.lacks # {}
  <2>1. PICK f : f = Head(SetToSeq(session.lacks))
    OBVIOUS
  <2>2. PICK t : t = Tail(SetToSeq(session.lacks))
    OBVIOUS
  <2>3. PICK m : m = FileCommand("download", f)
    OBVIOUS
  <2>4. /\ f \in session.lacks /\ c \in ClientRecord
        /\ SetToSeq(session.lacks) \in Seq(session.lacks)
        /\ SetToSeq(session.lacks) # <<>>
        /\ Len(SetToSeq(session.lacks)) = Cardinality(session.lacks)
        /\ c = [c0 EXCEPT !.wwwActive = FALSE, !.wwwAborting = FALSE,
                          !.original = None, !.state = "connected",
                          !.name = f, !.temp = f, !.block = 0,
                          !.commands = Append(c0.commands, m),
                          !.restart = TRUE, !.list = t]
    <3>1. File \ c0.loaded # {}
      BY <1>10, <1>15
    <3>2. QED
      BY <1>6, <1>7, <1>10, <2>1, <2>2, <2>3, <3>1, InitDownloadsMore
  <2>5. m \in ClientCommand
    <3>1. "download" \in CommandName
      BY DEF CommandName
    <3>2. QED
      BY <1>1, <2>3, <2>4, <3>1, FileCommandFields
  <2>6. Append(c0.commands, m) = <<m>> /\ <<m>> \in Seq(ClientCommand)
    BY <1>9, <2>5
  <2>7. /\ ~c.wwwActive /\ ~c.wwwAborting /\ c.restart /\ c.temp = f /\ c.name = f
        /\ c.original = None /\ c.state = "connected" /\ c.commands = <<m>> /\ c.list = t
        /\ c.block = 0 /\ ~c.open /\ c.copy = <<>> /\ c.transfer = None /\ c.disk = z
        /\ c.loaded = l
    <3>1. PICK k : k = Append(c0.commands, m)
      OBVIOUS
    <3>2. /\ c0 \in ClientRecord
          /\ c = [c0 EXCEPT !.wwwActive = FALSE, !.wwwAborting = FALSE,
                          !.original = None, !.state = "connected",
                          !.name = f, !.temp = f, !.block = 0,
                          !.commands = k, !.restart = TRUE, !.list = t]
      BY <1>6, <2>4, <3>1
    <3>3. /\ ~c.wwwActive /\ ~c.wwwAborting /\ c.restart /\ c.temp = f /\ c.name = f
          /\ c.original = None /\ c.state = "connected" /\ c.commands = k /\ c.list = t
          /\ c.block = 0 /\ c.open = c0.open /\ c.copy = c0.copy
          /\ c.transfer = c0.transfer /\ c.disk = c0.disk /\ c.loaded = c0.loaded
      BY ONLY <3>2 DEF ClientRecord
    <3>4. QED
      BY ONLY <1>9, <2>6, <3>1, <3>3
  <2>8. PICK d : d = client
    OBVIOUS
  <2>9. d = [c EXCEPT !.commands = <<>>]
    BY <1>8, <2>8
  <2>10. d \in ClientRecord /\ d.commands = <<>>
    BY <2>4, <2>9, CommandsLeave
  <2>11. /\ d.state = c.state /\ d.name = c.name /\ d.temp = c.temp
         /\ d.block = c.block /\ d.restart = c.restart /\ d.list = c.list
         /\ d.original = c.original /\ d.wwwActive = c.wwwActive
         /\ d.wwwAborting = c.wwwAborting /\ d.transfer = c.transfer
         /\ d.copy = c.copy /\ d.open = c.open /\ d.loaded = c.loaded /\ d.disk = c.disk
    BY <2>4, <2>9, TheRestStays
  <2>12. PakTyped
    BY <1>8, <1>13, <2>6, <2>7, <2>8, <2>10, <2>11
  <2>13. Starting
    BY ONLY <1>2, <1>11, <1>12, <2>7, <2>8, <2>11 DEF Starting
  <2>14. FirstAsked
    <3>1. PICK S : S = session.lacks
      OBVIOUS
    <3>2. PICK s : s = SetToSeq(S)
      OBVIOUS
    <3>3. s \in Seq(S) /\ s # <<>> /\ t = Tail(s) /\ Len(s) = Cardinality(S)
      BY <2>2, <2>4, <3>1, <3>2
    <3>4. t \in Seq(S) /\ Len(t) = Len(s) - 1
      BY <3>3, TailOf
    <3>5. t \in Seq(session.lacks) /\ Len(t) = Cardinality(session.lacks) - 1
      BY <3>1, <3>3, <3>4
    <3>6. client.temp = f /\ client.restart /\ client.list = t
      BY <2>7, <2>8, <2>11
    <3>7. toServer = <<FileCommand("download", client.temp)>>
      BY <1>8, <2>3, <2>7, <3>6
    <3>8. QED
      BY <2>4, <3>5, <3>6, <3>7 DEF FirstAsked
  <2>15. QED
    BY <2>12, <2>13, <2>14
<1>16. QED
  BY <1>14, <1>15

\* In band, the connection begins as it goes on.
LEMMA InBandInit ==
  ASSUME PakTyped, Starting, NothingLacked \/ FirstAsked, ~session.redirects
  PROVE  InBand
<1>1. session.lacks \in SUBSET File /\ session \in Session /\ client \in ClientRecord
  BY DEF PakTyped, Session
<1>2. RecordsFit
  BY DEF Starting, RecordsFit
<1>3. ServerServes
  BY DEF Starting, ServerServes, WindowHeld
<1>4. CASE NothingLacked
  <2>1. <<>> \in Seq(session.lacks)
    BY EmptySeq
  <2>2. ~WantsMore
    BY <1>4 DEF NothingLacked, WantsMore
  <2>3. ClientCopies
    BY <1>4, <2>1 DEF NothingLacked, Starting, ClientCopies
  <2>4. CommandsFit
    BY <1>4 DEF NothingLacked, Starting, CommandsFit
  <2>5. Resting
    BY <1>4 DEF NothingLacked, Starting, Resting
  <2>6. QED
    BY <1>2, <1>3, <2>2, <2>3, <2>4, <2>5 DEF InBand, Phases, Starting
<1>5. CASE FirstAsked
  <2>1. PICK f : f = client.temp
    OBVIOUS
  <2>2. f \in session.lacks /\ f \in File /\ f # None
    BY <1>1, <1>5, <2>1 DEF FirstAsked
  <2>3. PICK m : m = FileCommand("download", f)
    OBVIOUS
  <2>4. m \in ClientCommand /\ m.command = "download" /\ m.file = f
    <3>1. "download" \in CommandName
      BY DEF CommandName
    <3>2. QED
      BY <2>2, <2>3, <3>1, FileCommandFields
  <2>5. toServer = <<m>> /\ DOMAIN toServer = {1} /\ toServer[1] = m /\ Len(toServer) = 1
    <3>1. toServer = <<m>>
      BY <1>5, <2>1, <2>3 DEF FirstAsked
    <3>2. QED
      BY <3>1
  <2>6. Wants(m)
    BY <2>4 DEF Wants
  <2>7. WantsMore
    BY <2>5, <2>6 DEF WantsMore
  <2>8. ~Orderly => client.list = <<>>
    <3> SUFFICES ASSUME ~Orderly PROVE client.list = <<>>
      OBVIOUS
    <3>1. \A g \in session.lacks : g = f
      BY <2>2 DEF PakTyped, Tame, Orderly, Lossy, Prompt
    <3>2. session.lacks = {f}
      BY <2>2, <3>1
    <3>3. Cardinality(session.lacks) = 1
      BY <3>2, FS_Singleton
    <3>4. Len(client.list) = 0 /\ client.list \in Seq(session.lacks)
      BY <1>5, <3>3 DEF FirstAsked
    <3>5. QED
      BY <3>4, EmptySeq
  <2>9. ClientCopies
    <3>1. client.copy = SubSeq(WholePak(f), 1, client.block)
      BY <2>2, NoBlocks DEF Starting
    <3>2. Blocks[f] \in Nat
      BY <2>2
    <3>3. client.block <= Blocks[f] /\ ~(client.block > 0)
      BY <3>2 DEF Starting
    <3>4. QED
      BY <1>5, <2>1, <2>2, <2>8, <3>1, <3>3 DEF FirstAsked, Starting, ClientCopies
  <2>10. CommandsFit
    <3>1. CommandFits(1, toServer[1])
      BY <2>1, <2>2, <2>4, <2>5 DEF CommandFits, Wants, Starting
    <3>2. QED
      BY <2>4, <2>5, <3>1 DEF CommandsFit, Starting
  <2>11. QED
    BY <1>2, <1>3, <2>7, <2>9, <2>10 DEF InBand, Phases, Asking, Idle, Starting
<1>6. QED
  BY <1>4, <1>5

\* In band, every step keeps what the server and the client agree on.
LEMMA InBandNext ==
  ASSUME PakTyped, InBand, ~session.redirects, [DownloadNext]_downloadVars
  PROVE  PakTyped' /\ InBand' /\ Copies
<1>1. CASE UNCHANGED downloadVars
  BY <1>1, CopyStays DEF downloadVars, PakTyped, SavedWhole, InBand, ClientCopies, ServerServes,
       WindowHeld, CommandsFit, CommandFits, RecordsFit, RecordFits, Due, Phases, Finishing,
       Asking, Copying, Beginning, Resting, Idle, WantsMore, Answers, High, Orderly,
       Lossy, Prompt
<1>2. CASE WriteDownloadToClient
  <2>1. ~Redirect /\ ~ForgetFailure
    BY DEF Redirect, ForgetFailure
  <2>2. Refuse \/ WriteBlocks
    BY <1>2, <2>1 DEF WriteDownloadToClient
  <2>3. QED
    BY <1>2, <2>2, RefuseInBand, WriteBlocksInBand, CopyStays DEF WriteDownloadToClient
<1>3. CASE ExecuteClientCommand
  <2>1. /\ toServer # <<>> /\ toServer' = Tail(toServer) /\ UNCHANGED <<client, session>>
    BY <1>3 DEF ExecuteClientCommand
  <2>2. Head(toServer) = toServer[1] /\ CommandFits(1, toServer[1])
    BY <2>1, AfterCommand
  <2>3. toServer[1].command \in {"download", "nextdl", "retransdl", "donedl"}
    BY <2>2 DEF CommandFits
  <2>4. PICK m : m = toServer[1]
    OBVIOUS
  <2>5. \/ m.command = "download"   /\ BeginDownload_f(m.file)
        \/ m.command = "nextdl"     /\ NextDownload_f(m.block)
        \/ m.command = "retransdl"  /\ RetransmitDownload_f(m.block)
        \/ m.command = "donedl"     /\ DoneDownload_f
    <3>1. m = Head(toServer) /\ m.command \in {"download", "nextdl", "retransdl", "donedl"}
      BY <2>2, <2>3, <2>4
    <3>2. QED
      BY <1>3, <3>1 DEF ExecuteClientCommand
  <2>6. Copies
    BY <2>1, CopyStays
  <2>7. CASE m.command = "download" /\ BeginDownload_f(m.file)
    BY <2>1, <2>4, <2>6, <2>7, BeginInBand
  <2>8. CASE m.command = "nextdl" /\ NextDownload_f(m.block)
    BY <2>1, <2>4, <2>6, <2>8, NextInBand
  <2>9. CASE m.command = "retransdl" /\ RetransmitDownload_f(m.block)
    BY <2>1, <2>4, <2>6, <2>9, RetransmitInBand
  <2>10. CASE m.command = "donedl" /\ DoneDownload_f
    BY <2>1, <2>4, <2>6, <2>10, DoneInBand
  <2>11. QED
    BY <2>5, <2>7, <2>8, <2>9, <2>10
<1>4. ASSUME NEW i \in DOMAIN toClient, ReceiveFromServer(i)
      PROVE  PakTyped' /\ InBand' /\ Copies
  <2>1. toClient[i] \in DownloadRecord /\ RecordFits(toClient[i])
    BY <1>4, Received DEF ReceiveFromServer
  <2>2. client.block \in Nat /\ toClient[i].number \in Int
    BY <2>1, InBandFile DEF DownloadRecord
  <2>3. CASE client.state = "refused"
    BY <1>4, <2>3, ReceiveStale
  <2>4. CASE client.state # "refused" /\ toClient[i].kind = "refused"
    BY <1>4, <2>4, ReceiveEnd
  <2>5. CASE client.state # "refused" /\ toClient[i].kind = "gamestate"
    <3>1. CASE File \ client.loaded = {}
      BY <1>4, <2>5, <3>1, ReceiveEnd
    <3>2. CASE File \ client.loaded # {}
      BY <1>4, <2>5, <3>2, ReceiveGameState
    <3>3. QED
      BY <3>1, <3>2
  <2>6. CASE client.state # "refused" /\ toClient[i].kind = "block"
    <3>1. CASE toClient[i].number < client.block
      BY <1>4, <2>6, <3>1, ReceiveStale
    <3>2. CASE toClient[i].number > client.block
      BY <1>4, <2>6, <3>2, ReceiveGap
    <3>3. CASE toClient[i].number = client.block /\ toClient[i].data = Eof
      BY <1>4, <2>6, <3>3, ReceiveFinish
    <3>4. CASE toClient[i].number = client.block /\ toClient[i].data # Eof
      BY <1>4, <2>6, <3>4, ReceiveData
    <3>5. toClient[i].number < client.block \/ toClient[i].number > client.block
          \/ toClient[i].number = client.block
      BY ONLY <2>2
    <3>6. QED
      BY <3>1, <3>2, <3>3, <3>4, <3>5
  <2>7. toClient[i].kind \in {"block", "gamestate", "refused"}
    BY <2>1 DEF DownloadRecord, RecordFits
  <2>8. QED
    BY <2>3, <2>4, <2>5, <2>6, <2>7
<1>5. CASE Lose
  BY <1>5, LoseInBand
<1>6. ~Downloading
  BY DEF Downloading, InBand, ClientCopies
<1>7. ~TransferEnds /\ ~TransferFails
  BY <1>6 DEF TransferEnds, TransferFails
<1>8. QED
  BY <1>1, <1>2, <1>3, <1>4, <1>5, <1>7 DEF DownloadNext

-----------------------------------------------------------------------------
(* By redirect *)

Calm == ~client.wwwActive /\ ~client.wwwAborting /\ client.transfer = None

\* What the client asks for once it has a pak.
Wish == IF client.temp = None THEN Command("donedl")
                              ELSE FileCommand("download", client.temp)

Offers(f) == \A i \in DOMAIN toClient : toClient[i] = RedirectRecord(f)

Wishing ==
    /\ Calm /\ toClient = <<>> /\ toServer = <<Wish>>
    /\ download.name = None /\ ~download.redirectAcknowledged

Ending ==
    /\ Calm /\ toClient = <<>> /\ toServer = <<Command("wwwdl_done"), Wish>>
    /\ download.redirectAcknowledged /\ download.redirectActive

Offering ==
    /\ Calm /\ toServer = <<>>
    /\ client.temp # None /\ client.temp = download.name
    /\ ~download.redirectAcknowledged
    /\ Offers(client.temp)
    /\ toClient # <<>> => download.redirectActive /\ download.name \in Offered

Waiting ==
    /\ Calm /\ toServer = <<>> /\ toClient \in {<<>>, <<GameState>>, <<Refusal>>}
    /\ download.name = None /\ ~download.redirectAcknowledged

Following ==
    /\ client.wwwActive /\ ~client.wwwAborting
    /\ client.temp # None /\ client.temp = download.name
    /\ client.original = client.temp /\ client.transfer = client.temp
    /\ download.name \in Offered /\ download.redirectActive
    /\ Offers(client.temp)
    /\ \/ toServer = <<Command("wwwdl_ack")>> /\ ~download.redirectAcknowledged
       \/ toServer = <<>> /\ download.redirectAcknowledged

Withdrawing ==
    /\ client.wwwAborting /\ client.transfer = None
    /\ toServer = <<Command("wwwdl_fail")>> /\ toClient = <<>>
    /\ download.redirectActive /\ download.redirectAcknowledged

Again ==
    /\ client.wwwAborting /\ client.transfer = None
    /\ toServer = <<>> /\ toClient \in {<<>>, <<GameState>>}
    /\ download.name = None /\ ~download.redirectAcknowledged

\* By redirect, nothing is written in band, and each side waits for the other.
ByRedirect ==
    /\ ~client.open /\ client.copy = <<>> /\ ~download.open
    /\ client.name = client.temp
    /\ client.temp # None => client.restart
    /\ client.state = "refused" => Waiting /\ toClient = <<>>
    /\ Wishing \/ Ending \/ Offering \/ Waiting \/ Following \/ Withdrawing \/ Again

LEMMA WishFields ==
  ASSUME client \in ClientRecord
  PROVE  /\ Wish \in ClientCommand
         /\ client.temp = None => Wish.command = "donedl"
         /\ client.temp # None =>
              Wish.command = "download" /\ Wish.file = client.temp /\ client.temp \in File
<1>1. PICK f : f = client.temp
  OBVIOUS
<1>2. f \in File \cup {None}
  BY <1>1 DEF ClientRecord
<1>3. "donedl" \in CommandName /\ "download" \in CommandName
  BY DEF CommandName
<1>4. CASE f = None
  <2>1. Wish = Command("donedl")
    BY <1>1, <1>4 DEF Wish
  <2>2. QED
    BY <1>1, <1>3, <1>4, <2>1, CommandFields
<1>5. CASE f # None
  <2>1. Wish = FileCommand("download", f) /\ f \in File
    BY <1>1, <1>2, <1>5 DEF Wish
  <2>2. QED
    BY <1>1, <1>3, <1>5, <2>1, FileCommandFields
<1>6. QED
  BY <1>4, <1>5

LEMMA InTurn ==
  ASSUME NEW S, NEW x \in S, NEW y \in S
  PROVE  /\ Head(<<x>>) = x /\ Tail(<<x>>) = <<>>
         /\ Head(<<x, y>>) = x /\ Tail(<<x, y>>) = <<y>>
         /\ <<x>> \in Seq(S) /\ <<x, y>> \in Seq(S) /\ <<>> \in Seq(S)
         /\ <<x>> # <<>> /\ <<x, y>> # <<>>
<1>1. <<x>> \in Seq(S) /\ <<x, y>> \in Seq(S) /\ <<>> \in Seq(S)
  BY EmptySeq
<1>2. Len(<<x>>) = 1 /\ Len(<<x, y>>) = 2 /\ <<x>>[1] = x /\ <<x, y>>[1] = x /\ <<x, y>>[2] = y
  OBVIOUS
<1>3. <<x>> # <<>> /\ <<x, y>> # <<>>
  BY <1>1, <1>2, EmptySeq
<1>4. Head(<<x>>) = x /\ Head(<<x, y>>) = x
  BY <1>1, <1>2, <1>3, HeadTailProperties
<1>5. Tail(<<x>>) = <<>>
  <2>1. Tail(<<x>>) \in Seq(S) /\ Len(Tail(<<x>>)) = 0
    BY <1>1, <1>2, <1>3, HeadTailProperties
  <2>2. QED
    BY <2>1, EmptySeq
<1>6. Tail(<<x, y>>) = <<y>>
  <2>1. /\ Tail(<<x, y>>) \in Seq(S) /\ Len(Tail(<<x, y>>)) = 1
        /\ \A i \in 1 .. 1 : Tail(<<x, y>>)[i] = <<x, y>>[i + 1]
    BY <1>1, <1>2, <1>3, HeadTailProperties
  <2>2. Tail(<<x, y>>)[1] = y
    BY <1>2, <2>1
  <2>3. <<y>> \in Seq(S) /\ Len(<<y>>) = 1 /\ <<y>>[1] = y
    OBVIOUS
  <2>4. \A i \in 1 .. 1 : Tail(<<x, y>>)[i] = <<y>>[i]
    BY <2>2, <2>3
  <2>5. QED
    BY <2>1, <2>3, <2>4, SeqEqual
<1>7. QED
  BY <1>1, <1>3, <1>4, <1>5, <1>6

LEMMA RedirectFields ==
  /\ \A f \in File : /\ RedirectRecord(f) \in DownloadRecord
                     /\ RedirectRecord(f).kind = "redirect" /\ RedirectRecord(f).data.file = f
  /\ Refusal \in DownloadRecord /\ Refusal.kind = "refused"
  /\ GameState \in DownloadRecord /\ GameState.kind = "gamestate"
<1>1. ASSUME NEW f \in File
      PROVE  /\ RedirectRecord(f) \in DownloadRecord
             /\ RedirectRecord(f).kind = "redirect" /\ RedirectRecord(f).data.file = f
  <2>1. PICK b : b = [file |-> f, number |-> 0]
    OBVIOUS
  <2>2. b \in Block /\ b.file = f
    BY <2>1 DEF Block
  <2>3. RedirectRecord(f) = [kind |-> "redirect", number |-> -1, data |-> b]
    BY <2>1 DEF RedirectRecord
  <2>4. QED
    BY <2>2, <2>3 DEF DownloadRecord
<1>2. QED
  BY <1>1 DEF Refusal, GameState, DownloadRecord

\* By redirect, the connection begins as it goes on.
LEMMA ByRedirectInit ==
  ASSUME PakTyped, Starting, NothingLacked \/ FirstAsked
  PROVE  ByRedirect
<1>1. session.lacks \in SUBSET File /\ client \in ClientRecord
  BY DEF PakTyped, Session
<1>2. Calm
  BY DEF Starting, Calm
<1>3. CASE NothingLacked
  BY <1>2, <1>3 DEF NothingLacked, Starting, ByRedirect, Waiting
<1>4. CASE FirstAsked
  <2>1. client.temp # None
    BY <1>1, <1>4 DEF FirstAsked
  <2>2. toServer = <<Wish>>
    BY <1>4, <2>1 DEF FirstAsked, Wish
  <2>3. QED
    BY <1>2, <1>4, <2>2 DEF FirstAsked, Starting, ByRedirect, Wishing
<1>5. QED
  BY <1>3, <1>4

\* SV_WriteDownloadToClient, with a redirect.
LEMMA OfferByRedirect ==
  ASSUME PakTyped, ByRedirect, session.redirects, WriteDownloadToClient
  PROVE  PakTyped' /\ ByRedirect'
<1>1. /\ download.name # None /\ ~download.redirectAcknowledged /\ ~download.open
      /\ UNCHANGED <<present, toServer, client, session>>
      /\ Refuse \/ Redirect \/ ForgetFailure
  BY DEF WriteDownloadToClient, ByRedirect, WriteBlocks
<1>2. Offering \/ Following
  BY <1>1 DEF ByRedirect, Wishing, Ending, Waiting, Withdrawing, Again
<1>3. PICK f : f = download.name
  OBVIOUS
<1>4. f = client.temp /\ f \in File /\ Offers(f) /\ f # None
  <2>1. f = client.temp /\ Offers(f) /\ f # None
    BY <1>2, <1>3 DEF Offering, Following
  <2>2. f \in File \cup {None}
    BY <1>3 DEF PakTyped, ServerRecord
  <2>3. QED
    BY <2>1, <2>2
<1>5. /\ download \in ServerRecord /\ toClient \in Seq(DownloadRecord)
      /\ toServer' \in Seq(ClientCommand) /\ present' = TRUE
      /\ download.acknowledged <= download.buffered
      /\ download.buffered <= download.acknowledged + Window
  BY <1>1 DEF PakTyped
<1>6. client.state # "refused"
  BY <1>1 DEF ByRedirect, Waiting
<1>7. ASSUME download' \in ServerRecord, toClient' \in Seq(DownloadRecord),
             download'.acknowledged = download.acknowledged,
             download'.buffered = download.buffered
      PROVE  PakTyped'
  <2>1. /\ download'.acknowledged <= download'.buffered
        /\ download'.buffered <= download'.acknowledged + Window
    BY <1>5, <1>7
  <2>2. QED
    BY <1>1, <1>5, <1>7, <2>1, ServerTyped
<1>8. CASE Refuse
  <2>1. /\ download.name \notin Offered /\ download' = [download EXCEPT !.name = None]
        /\ toClient' = toClient \o <<Refusal>>
    BY <1>8 DEF Refuse, Post
  <2>2. /\ download' \in ServerRecord /\ download'.name = None /\ ~download'.open
        /\ download'.redirectAcknowledged = download.redirectAcknowledged
        /\ download'.acknowledged = download.acknowledged
        /\ download'.buffered = download.buffered
    BY <1>1, <1>5, <2>1 DEF ServerRecord
  <2>3. Offering /\ toClient = <<>>
    BY <1>2, <2>1 DEF Offering, Following
  <2>4. toClient' = <<Refusal>> /\ toClient' \in Seq(DownloadRecord)
    <3>1. <<Refusal>> \in Seq(DownloadRecord)
      BY RedirectFields
    <3>2. QED
      BY <2>1, <2>3, <3>1, ConcatEmptySeq
  <2>5. PakTyped'
    BY <1>7, <2>2, <2>4
  <2>6. Waiting'
    BY <1>1, <2>2, <2>3, <2>4 DEF Offering, Waiting, Calm
  <2>7. QED
    BY <1>1, <1>6, <2>2, <2>5, <2>6 DEF ByRedirect
<1>9. CASE Redirect
  <2>1. /\ download.name \in Offered /\ download' = [download EXCEPT !.redirectActive = TRUE]
        /\ toClient' = toClient \o <<RedirectRecord(f)>>
    BY <1>3, <1>9 DEF Redirect, Post
  <2>2. /\ download' \in ServerRecord /\ download'.name = f /\ ~download'.open
        /\ download'.redirectActive
        /\ download'.redirectAcknowledged = download.redirectAcknowledged
        /\ download'.acknowledged = download.acknowledged
        /\ download'.buffered = download.buffered
    BY <1>1, <1>3, <1>5, <2>1 DEF ServerRecord
  <2>3. PICK r : r = RedirectRecord(f)
    OBVIOUS
  <2>4. r \in DownloadRecord
    BY <1>4, <2>3, RedirectFields
  <2>5. /\ toClient' \in Seq(DownloadRecord)
        /\ \A j \in DOMAIN toClient : toClient'[j] = toClient[j]
        /\ toClient'[Len(toClient) + 1] = r
        /\ \A j \in DOMAIN toClient' : j \in DOMAIN toClient \/ j = Len(toClient) + 1
    BY <1>5, <2>1, <2>3, <2>4, WithOne
  <2>6. Offers(f)'
    BY <1>4, <2>3, <2>5 DEF Offers
  <2>7. PakTyped'
    BY <1>7, <2>2, <2>5
  <2>8. Offering => Offering'
    BY <1>1, <1>3, <1>4, <2>1, <2>2, <2>6 DEF Offering, Calm, Offered
  <2>9. Following => Following'
    BY <1>1, <1>3, <1>4, <2>1, <2>2, <2>6 DEF Following, Offered
  <2>10. QED
    BY <1>1, <1>2, <1>6, <2>2, <2>7, <2>8, <2>9 DEF ByRedirect
<1>10. CASE ForgetFailure
  <2>1. /\ download' = [download EXCEPT !.redirectFailed = FALSE] /\ toClient' = toClient
    BY <1>10 DEF ForgetFailure
  <2>2. /\ download' \in ServerRecord /\ download'.name = download.name /\ ~download'.open
        /\ download'.redirectActive = download.redirectActive
        /\ download'.redirectAcknowledged = download.redirectAcknowledged
        /\ download'.acknowledged = download.acknowledged
        /\ download'.buffered = download.buffered
    BY <1>1, <1>5, <2>1 DEF ServerRecord
  <2>3. PakTyped'
    BY <1>5, <1>7, <2>1, <2>2
  <2>4. Offering => Offering'
    BY <1>1, <2>1, <2>2 DEF Offering, Calm, Offered, Offers
  <2>5. Following => Following'
    BY <1>1, <2>1, <2>2 DEF Following, Offered, Offers
  <2>6. QED
    BY <1>1, <1>2, <1>6, <2>2, <2>3, <2>4, <2>5 DEF ByRedirect
<1>11. QED
  BY <1>1, <1>8, <1>9, <1>10

\* The server executes a command of a client that follows redirects.
LEMMA ExecuteByRedirect ==
  ASSUME PakTyped, ByRedirect, session.redirects, ExecuteClientCommand
  PROVE  PakTyped' /\ ByRedirect'
<1>1. /\ toServer # <<>> /\ toServer' = Tail(toServer)
      /\ UNCHANGED <<client, session>>
  BY DEF ExecuteClientCommand
<1>2. /\ download \in ServerRecord /\ client \in ClientRecord
      /\ toClient \in Seq(DownloadRecord) /\ present = TRUE
      /\ download.acknowledged <= download.buffered
      /\ download.buffered <= download.acknowledged + Window
  BY DEF PakTyped
<1>3. client.state # "refused"
  BY <1>1 DEF ByRedirect, Waiting
<1>4. /\ Wish \in ClientCommand
      /\ client.temp = None => Wish.command = "donedl"
      /\ client.temp # None =>
           Wish.command = "download" /\ Wish.file = client.temp /\ client.temp \in File
  BY <1>2, WishFields
<1>5. Wish' = Wish
  BY <1>1 DEF Wish
<1>6. ASSUME download' \in ServerRecord, toClient' \in Seq(DownloadRecord),
             toServer' \in Seq(ClientCommand), present' = TRUE,
             download'.acknowledged = download.acknowledged,
             download'.buffered = download.buffered
      PROVE  PakTyped'
  <2>1. /\ download'.acknowledged <= download'.buffered
        /\ download'.buffered <= download'.acknowledged + Window
    BY <1>2, <1>6
  <2>2. QED
    BY <1>1, <1>6, <2>1, ServerTyped
<1>7. Wishing \/ Ending \/ Following \/ Withdrawing
  BY <1>1 DEF ByRedirect, Offering, Waiting, Again
<1>8. PICK m : m = Head(toServer)
  OBVIOUS
<1>9. \/ m.command = "download"   /\ BeginDownload_f(m.file)
      \/ m.command = "nextdl"     /\ NextDownload_f(m.block)
      \/ m.command = "retransdl"  /\ RetransmitDownload_f(m.block)
      \/ m.command = "stopdl"     /\ StopDownload_f
      \/ m.command = "donedl"     /\ DoneDownload_f
      \/ m.command = "wwwdl_ack"  /\ AcknowledgeRedirect
      \/ m.command = "wwwdl_done" /\ EndRedirect(FALSE)
      \/ m.command = "wwwdl_fail" /\ EndRedirect(TRUE)
  BY <1>8 DEF ExecuteClientCommand
<1>10. toClient = <<>> /\ <<GameState>> \in Seq(DownloadRecord) =>
         (Post(<<GameState>>) => toClient' = <<GameState>>)
  BY ConcatEmptySeq DEF Post
<1>11. <<GameState>> \in Seq(DownloadRecord)
  BY RedirectFields
<1>12. CASE Wishing
  <2>1. /\ toServer = <<Wish>> /\ toClient = <<>> /\ Calm
        /\ download.name = None /\ ~download.redirectAcknowledged
    BY <1>12 DEF Wishing
  <2>2. m = Wish /\ toServer' = <<>> /\ toServer' \in Seq(ClientCommand)
    BY <1>1, <1>4, <1>8, <2>1, InTurn
  <2>3. CASE client.temp = None
    <3>1. DoneDownload_f
      BY <1>4, <1>9, <2>2, <2>3
    <3>2. UNCHANGED <<download, present>> /\ toClient' = <<GameState>>
      BY <1>10, <1>11, <2>1, <3>1 DEF DoneDownload_f
    <3>3. PakTyped'
      BY <1>2, <1>6, <1>11, <2>2, <3>2
    <3>4. Waiting'
      BY <1>1, <2>1, <2>2, <3>2 DEF Waiting, Calm
    <3>5. QED
      BY <1>1, <1>3, <3>2, <3>3, <3>4 DEF ByRedirect
  <2>4. CASE client.temp # None
    <3>1. PICK f : f = client.temp
      OBVIOUS
    <3>2. BeginDownload_f(f) /\ f \in File /\ f # None
      BY <1>4, <1>9, <2>2, <2>4, <3>1
    <3>3. /\ download' = [[download EXCEPT !.open = FALSE, !.name = None] EXCEPT !.name = f]
          /\ UNCHANGED <<present, toClient>>
      BY <3>2 DEF BeginDownload_f, CloseDownload
    <3>4. /\ download' \in ServerRecord /\ download'.name = f /\ ~download'.open
          /\ download'.redirectAcknowledged = download.redirectAcknowledged
          /\ download'.acknowledged = download.acknowledged
          /\ download'.buffered = download.buffered
      BY ONLY <1>2, <3>2, <3>3 DEF ServerRecord
    <3>5. PakTyped'
      BY <1>2, <1>6, <2>2, <3>3, <3>4
    <3>6. Offering'
      BY <1>1, <2>1, <2>2, <3>1, <3>2, <3>3, <3>4 DEF Offering, Calm, Offers
    <3>7. QED
      BY <1>1, <1>3, <3>4, <3>5, <3>6 DEF ByRedirect
  <2>5. QED
    BY <2>3, <2>4
<1>13. CASE Ending
  <2>1. /\ toServer = <<Command("wwwdl_done"), Wish>> /\ toClient = <<>> /\ Calm
        /\ download.redirectAcknowledged /\ download.redirectActive
    BY <1>13 DEF Ending
  <2>2. PICK e : e = Command("wwwdl_done")
    OBVIOUS
  <2>3. e \in ClientCommand /\ e.command = "wwwdl_done"
    <3>1. "wwwdl_done" \in CommandName
      BY DEF CommandName
    <3>2. QED
      BY <2>2, <3>1, CommandFields
  <2>4. m = e /\ toServer' = <<Wish>> /\ toServer' \in Seq(ClientCommand)
    <3>1. PICK w : w = Wish
      OBVIOUS
    <3>2. w \in ClientCommand
      BY <1>4, <3>1
    <3>3. Head(<<e, w>>) = e /\ Tail(<<e, w>>) = <<w>> /\ <<w>> \in Seq(ClientCommand)
      <4>1. e \in ClientCommand /\ w \in ClientCommand
        BY <2>3, <3>2
      <4>2. QED
        BY ONLY <4>1, InTurn, Zenon
    <3>4. toServer = <<e, w>>
      BY <2>1, <2>2, <3>1
    <3>5. QED
      BY <1>1, <1>8, <3>1, <3>3, <3>4
  <2>5. EndRedirect(FALSE)
    BY <1>9, <2>3, <2>4
  <2>6. /\ download' = [download EXCEPT !.open = FALSE, !.name = None,
                             !.redirectAcknowledged = FALSE,
                             !.redirectFailed = @ \/ FALSE]
        /\ UNCHANGED <<present, toClient>>
    BY <2>1, <2>5 DEF EndRedirect
  <2>7. /\ download' \in ServerRecord /\ download'.name = None /\ ~download'.open
        /\ ~download'.redirectAcknowledged
        /\ download'.acknowledged = download.acknowledged
        /\ download'.buffered = download.buffered
    BY ONLY <1>2, <2>6 DEF ServerRecord
  <2>8. PakTyped'
    BY <1>2, <1>6, <2>4, <2>6, <2>7
  <2>9. Wishing'
    BY <1>1, <1>5, <2>1, <2>4, <2>6, <2>7 DEF Wishing, Calm
  <2>10. QED
    BY <1>1, <1>3, <2>7, <2>8, <2>9 DEF ByRedirect
<1>14. CASE Following
  <2>1. /\ toServer = <<Command("wwwdl_ack")>> /\ download.redirectActive
        /\ ~download.redirectAcknowledged
    BY <1>1, <1>14 DEF Following
  <2>2. PICK e : e = Command("wwwdl_ack")
    OBVIOUS
  <2>3. e \in ClientCommand /\ e.command = "wwwdl_ack"
    <3>1. "wwwdl_ack" \in CommandName
      BY DEF CommandName
    <3>2. QED
      BY <2>2, <3>1, CommandFields
  <2>4. m = e /\ toServer' = <<>> /\ toServer' \in Seq(ClientCommand)
    <3>1. Head(<<e>>) = e /\ Tail(<<e>>) = <<>> /\ <<>> \in Seq(ClientCommand)
      BY <2>3, InTurn
    <3>2. toServer = <<e>>
      BY <2>1, <2>2
    <3>3. QED
      BY <1>1, <1>8, <3>1, <3>2
  <2>5. AcknowledgeRedirect
    BY <1>9, <2>3, <2>4
  <2>6. /\ download' = [download EXCEPT !.redirectAcknowledged = TRUE]
        /\ present' = TRUE /\ UNCHANGED toClient
    <3>1. download.redirectActive \in BOOLEAN
      BY <1>2 DEF ServerRecord
    <3>2. download.redirectActive = TRUE
      BY <2>1, <3>1
    <3>3. QED
      BY <2>5, <3>2 DEF AcknowledgeRedirect
  <2>7. /\ download' \in ServerRecord /\ download'.name = download.name
        /\ download'.open = download.open
        /\ download'.redirectAcknowledged
        /\ download'.redirectActive = download.redirectActive
        /\ download'.acknowledged = download.acknowledged
        /\ download'.buffered = download.buffered
    BY ONLY <1>2, <2>6 DEF ServerRecord
  <2>8. PakTyped'
    BY <1>2, <1>6, <2>4, <2>6, <2>7
  <2>9. Following'
    BY <1>1, <1>14, <2>4, <2>6, <2>7 DEF Following, Offered, Offers
  <2>10. QED
    BY <1>1, <1>3, <2>7, <2>8, <2>9 DEF ByRedirect
<1>15. CASE Withdrawing
  <2>1. /\ toServer = <<Command("wwwdl_fail")>> /\ toClient = <<>> /\ download.redirectActive
        /\ download.redirectAcknowledged /\ client.wwwAborting /\ client.transfer = None
    BY <1>15 DEF Withdrawing
  <2>2. PICK e : e = Command("wwwdl_fail")
    OBVIOUS
  <2>3. e \in ClientCommand /\ e.command = "wwwdl_fail"
    <3>1. "wwwdl_fail" \in CommandName
      BY DEF CommandName
    <3>2. QED
      BY <2>2, <3>1, CommandFields
  <2>4. m = e /\ toServer' = <<>> /\ toServer' \in Seq(ClientCommand)
    <3>1. Head(<<e>>) = e /\ Tail(<<e>>) = <<>> /\ <<>> \in Seq(ClientCommand)
      BY <2>3, InTurn
    <3>2. toServer = <<e>>
      BY <2>1, <2>2
    <3>3. QED
      BY <1>1, <1>8, <3>1, <3>2
  <2>5. EndRedirect(TRUE)
    BY <1>9, <2>3, <2>4
  <2>6. /\ download' = [download EXCEPT !.open = FALSE, !.name = None,
                             !.redirectAcknowledged = FALSE,
                             !.redirectFailed = @ \/ TRUE]
        /\ UNCHANGED present /\ toClient' = <<GameState>>
    BY <1>10, <1>11, <2>1, <2>5 DEF EndRedirect
  <2>7. /\ download' \in ServerRecord /\ download'.name = None /\ ~download'.open
        /\ ~download'.redirectAcknowledged
        /\ download'.acknowledged = download.acknowledged
        /\ download'.buffered = download.buffered
    BY ONLY <1>2, <2>6 DEF ServerRecord
  <2>8. PakTyped'
    BY <1>2, <1>6, <1>11, <2>4, <2>6, <2>7
  <2>9. Again'
    BY <1>1, <2>1, <2>4, <2>6, <2>7 DEF Again
  <2>10. QED
    BY <1>1, <1>3, <2>7, <2>8, <2>9 DEF ByRedirect
<1>16. QED
  BY <1>7, <1>12, <1>13, <1>14, <1>15

\* CL_ParseDownload, a redirect that the client follows.
LEMMA ParseOffer ==
  ASSUME NEW c \in ClientRecord, c.commands = <<>>, ~c.wwwActive, c.transfer = None,
         NEW f \in File, c.temp = f, f # None,
         NEW m, m = Command("wwwdl_ack")
  PROVE  /\ ParseRedirect(c, f) \in ClientRecord
         /\ ParseRedirect(c, f) =
              [c EXCEPT !.original = c.name, !.name = f, !.wwwActive = TRUE,
                        !.commands = <<m>>, !.transfer = f]
<1>1. m \in ClientCommand
  <2>1. "wwwdl_ack" \in CommandName
    BY DEF CommandName
  <2>2. QED
    BY <2>1, CommandFields
<1>2. PICK k : k = <<m>>
  OBVIOUS
<1>3. k \in Seq(ClientCommand) /\ Append(c.commands, m) = k
  <2>1. <<m>> \in Seq(ClientCommand)
    BY ONLY <1>1
  <2>2. c.commands = <<>>
    OBVIOUS
  <2>3. Append(c.commands, m) = <<m>>
    BY ONLY <2>2
  <2>4. QED
    BY <1>2, <2>1, <2>3
<1>4. PICK n : n = c.name
  OBVIOUS
<1>5. n \in File \cup {None}
  BY <1>4 DEF ClientRecord
<1>6. ParseRedirect(c, f) = [c EXCEPT !.original = n, !.name = f, !.wwwActive = TRUE,
                                      !.commands = k, !.transfer = f]
  BY <1>3, <1>4 DEF ParseRedirect, Say, ClientRecord
<1>7. f \in File \cup {None} /\ c \in ClientRecord
  OBVIOUS
<1>8. [c EXCEPT !.original = n, !.name = f, !.wwwActive = TRUE,
                !.commands = k, !.transfer = f] \in ClientRecord
  BY ONLY <1>3, <1>5, <1>7 DEF ClientRecord
<1>9. QED
  BY <1>2, <1>4, <1>6, <1>8

\* CL_ParseGamestate, by redirect: the client asks for what it lacks.
LEMMA BeginAgain ==
  ASSUME PakTyped, ByRedirect, client.state # "refused",
         UNCHANGED <<download, present, session>>,
         download.name = None, ~download.redirectAcknowledged,
         client.transfer = None, toServer = <<>>, toClient' = <<>>,
         NEW c, c = InitDownloads(client),
         client' = [c EXCEPT !.commands = <<>>], toServer' = toServer \o c.commands
  PROVE  PakTyped' /\ ByRedirect' /\ Copies
<1>1. /\ client \in ClientRecord /\ client.commands = <<>>
      /\ File \ client.loaded \subseteq session.lacks /\ session.lacks \in SUBSET File
      /\ <<>> \in Seq(ClientCommand) /\ <<>> \in Seq(DownloadRecord)
  BY EmptySeq DEF PakTyped, Session
<1>2. ~client.open /\ client.copy = <<>> /\ ~download.open /\ client.name = client.temp
  BY DEF ByRedirect
<1>3. PICK d : d = client'
  OBVIOUS
<1>4. d = [c EXCEPT !.commands = <<>>]
  BY <1>3
<1>5. ASSUME c \in ClientRecord, c.disk = client.disk, c.loaded = client.loaded,
             toServer' \in Seq(ClientCommand)
      PROVE  /\ PakTyped' /\ (d.copy = <<>> => Copies)
             /\ d.state = c.state /\ d.name = c.name /\ d.temp = c.temp
             /\ d.restart = c.restart
             /\ d.wwwActive = c.wwwActive /\ d.wwwAborting = c.wwwAborting
             /\ d.transfer = c.transfer /\ d.copy = c.copy /\ d.open = c.open
  <2>1. /\ d.state = c.state /\ d.name = c.name /\ d.temp = c.temp
        /\ d.restart = c.restart
        /\ d.wwwActive = c.wwwActive /\ d.wwwAborting = c.wwwAborting
        /\ d.transfer = c.transfer /\ d.copy = c.copy /\ d.open = c.open
        /\ d.loaded = c.loaded /\ d.disk = c.disk
    BY <1>4, <1>5, TheRestStays
  <2>2. d \in ClientRecord /\ d.commands = <<>>
    BY <1>4, <1>5, CommandsLeave
  <2>3. \A f \in File : d.disk[f] \in {<<>>, WholePak(f)}
    BY <1>5, <2>1 DEF PakTyped, SavedWhole
  <2>4. PakTyped'
    BY <1>1, <1>3, <1>5, <2>1, <2>2, <2>3, ClientTyped
  <2>5. d.copy = <<>> => Copies
    <3>1. d.temp \in File \cup {None} /\ d.disk = client.disk
      BY <1>5, <2>1, <2>2 DEF ClientRecord
    <3>2. QED
      BY <1>3, <3>1, CopyBegins
  <2>6. QED
    BY <2>1, <2>4, <2>5
<1>6. CASE File \ client.loaded = {}
  <2>1. /\ c \in ClientRecord
        /\ c = [client EXCEPT !.wwwActive = FALSE, !.wwwAborting = FALSE,
                        !.restart = FALSE, !.temp = None, !.name = None,
                        !.original = None, !.state = "loading"]
    BY <1>1, <1>6, InitDownloadsDone
  <2>2. /\ ~c.wwwActive /\ ~c.wwwAborting /\ c.temp = None /\ c.name = None
        /\ c.state = "loading" /\ c.commands = <<>> /\ ~c.open /\ c.copy = <<>>
        /\ c.transfer = None /\ c.disk = client.disk /\ c.loaded = client.loaded
    BY ONLY <1>1, <1>2, <2>1, client.transfer = None DEF ClientRecord
  <2>3. toServer' = <<>> /\ toServer' \in Seq(ClientCommand)
    BY <1>1, <2>2, ConcatEmptySeq
  <2>4. /\ PakTyped' /\ (d.copy = <<>> => Copies) /\ d.state = c.state /\ d.name = c.name /\ d.temp = c.temp
        /\ d.wwwActive = c.wwwActive /\ d.wwwAborting = c.wwwAborting
        /\ d.transfer = c.transfer /\ d.copy = c.copy /\ d.open = c.open
    BY <1>5, <2>1, <2>2, <2>3
  <2>5. Waiting'
    BY <1>3, <2>2, <2>3, <2>4 DEF Waiting, Calm
  <2>6. QED
    BY <1>2, <1>3, <2>2, <2>4, <2>5 DEF ByRedirect
<1>7. CASE File \ client.loaded # {}
  <2>1. PICK f : f = Head(SetToSeq(File \ client.loaded))
    OBVIOUS
  <2>2. PICK t : t = Tail(SetToSeq(File \ client.loaded))
    OBVIOUS
  <2>3. PICK m : m = FileCommand("download", f)
    OBVIOUS
  <2>4. PICK k : k = Append(client.commands, m)
    OBVIOUS
  <2>5. /\ f \in File \ client.loaded /\ c \in ClientRecord
        /\ c = [client EXCEPT !.wwwActive = FALSE, !.wwwAborting = FALSE,
                              !.original = None, !.state = "connected",
                              !.name = f, !.temp = f, !.block = 0,
                              !.commands = k, !.restart = TRUE, !.list = t]
    BY <1>1, <1>7, <2>1, <2>2, <2>3, <2>4, InitDownloadsMore
  <2>6. m \in ClientCommand /\ f # None
    <3>1. "download" \in CommandName
      BY DEF CommandName
    <3>2. QED
      BY <2>3, <2>5, <3>1, FileCommandFields
  <2>7. k = <<m>> /\ <<m>> \in Seq(ClientCommand)
    BY <1>1, <2>4, <2>6
  <2>8. /\ ~c.wwwActive /\ ~c.wwwAborting /\ c.temp = f /\ c.name = f
        /\ c.state = "connected" /\ c.commands = k /\ ~c.open /\ c.copy = <<>>
        /\ c.restart /\ c.transfer = None /\ c.disk = client.disk
        /\ c.loaded = client.loaded
    <3>1. /\ ~c.wwwActive /\ ~c.wwwAborting /\ c.temp = f /\ c.name = f
          /\ c.state = "connected" /\ c.commands = k /\ c.open = client.open
          /\ c.copy = client.copy /\ c.restart /\ c.transfer = client.transfer
          /\ c.disk = client.disk /\ c.loaded = client.loaded
      <4>1. PICK e : e = client
        OBVIOUS
      <4>2. e \in ClientRecord
        BY ONLY <1>1, <4>1
      <4>3. c = [e EXCEPT !.wwwActive = FALSE, !.wwwAborting = FALSE,
                          !.original = None, !.state = "connected",
                          !.name = f, !.temp = f, !.block = 0,
                          !.commands = k, !.restart = TRUE, !.list = t]
        BY ONLY <2>5, <4>1
      <4>4. QED
        BY ONLY <4>1, <4>2, <4>3, SMTT(20) DEF ClientRecord
    <3>2. QED
      BY <1>2, <3>1
  <2>9. toServer' = <<m>> /\ toServer' \in Seq(ClientCommand)
    BY <1>1, <2>7, <2>8, ConcatEmptySeq
  <2>10. /\ PakTyped' /\ (d.copy = <<>> => Copies) /\ d.state = c.state /\ d.name = c.name /\ d.temp = c.temp
         /\ d.restart = c.restart
         /\ d.wwwActive = c.wwwActive /\ d.wwwAborting = c.wwwAborting
         /\ d.transfer = c.transfer /\ d.copy = c.copy /\ d.open = c.open
    BY <1>5, <2>5, <2>8, <2>9
  <2>11. toServer' = <<Wish'>>
    BY <1>3, <2>3, <2>6, <2>8, <2>9, <2>10 DEF Wish
  <2>12. Wishing'
    BY <1>3, <2>8, <2>10, <2>11 DEF Wishing, Calm
  <2>13. QED
    BY <1>2, <1>3, <2>8, <2>10, <2>12 DEF ByRedirect
<1>8. QED
  BY <1>6, <1>7

\* CL_ParseServerMessage, at a client that follows redirects.
LEMMA ReceiveByRedirect ==
  ASSUME PakTyped, ByRedirect, session.redirects,
         NEW i \in DOMAIN toClient, ReceiveFromServer(i)
  PROVE  PakTyped' /\ ByRedirect' /\ Copies
<1>1. /\ Update(Parse(client, toClient[i]))
      /\ toClient' = SubSeq(toClient, i + 1, Len(toClient))
      /\ UNCHANGED <<download, present, session>>
  BY DEF ReceiveFromServer
<1>2. /\ client \in ClientRecord /\ client.commands = <<>> /\ toServer \in Seq(ClientCommand)
      /\ toClient \in Seq(DownloadRecord)
      /\ File \ client.loaded \subseteq session.lacks
      /\ \A g \in File : client.disk[g] \in {<<>>, WholePak(g)}
  BY DEF PakTyped, SavedWhole
<1>3. DOMAIN toClient = 1 .. Len(toClient) /\ Len(toClient) \in Nat
  BY <1>2, LenProperties
<1>4. i \in 1 .. Len(toClient) /\ toClient # <<>>
  <2>1. DOMAIN toClient = 1 .. Len(toClient)
    BY <1>3
  <2>2. QED
    BY <2>1
<1>5. /\ toClient' \in Seq(DownloadRecord) /\ Len(toClient') = Len(toClient) - i
      /\ \A j \in DOMAIN toClient' :
            j + i \in DOMAIN toClient /\ toClient'[j] = toClient[j + i]
  <2>1. PICK s : s = toClient
    OBVIOUS
  <2>2. PICK t : t = toClient'
    OBVIOUS
  <2>3. s \in Seq(DownloadRecord) /\ i \in 1 .. Len(s) /\ t = SubSeq(s, i + 1, Len(s))
    BY <1>1, <1>2, <1>4, <2>1, <2>2
  <2>4. /\ t \in Seq(DownloadRecord) /\ Len(t) = Len(s) - i
        /\ \A j \in DOMAIN t : j + i \in DOMAIN s /\ t[j] = s[j + i]
    BY ONLY <2>3, RestOf
  <2>5. QED
    BY <2>1, <2>2, <2>4
<1>6. client.state # "refused"
  BY <1>4 DEF ByRedirect
<1>7. Offering \/ Waiting \/ Following \/ Again
  BY <1>4 DEF ByRedirect, Wishing, Ending, Withdrawing
<1>8. PICK c : c = Parse(client, toClient[i])
  OBVIOUS
<1>9. client' = [c EXCEPT !.commands = <<>>] /\ toServer' = toServer \o c.commands
  BY <1>1, <1>8 DEF Update
<1>10. /\ ~client.open /\ client.copy = <<>> /\ ~download.open
       /\ client.name = client.temp /\ (client.temp # None => client.restart)
  BY DEF ByRedirect
<1>11. CASE Offering
  <2>1. PICK f : f = client.temp
    OBVIOUS
  <2>2. /\ Calm /\ toServer = <<>> /\ f # None /\ f = download.name
        /\ ~download.redirectAcknowledged /\ Offers(f)
        /\ download.redirectActive /\ download.name \in Offered
    BY <1>4, <1>11, <2>1 DEF Offering
  <2>3. f \in File
    BY <1>2, <2>1, <2>2 DEF ClientRecord
  <2>4. PICK m : m = Command("wwwdl_ack")
    OBVIOUS
  <2>5. toClient[i] = RedirectRecord(f)
    BY <2>2 DEF Offers
  <2>6. c = ParseRedirect(client, f)
    <3>1. toClient[i].kind = "redirect" /\ toClient[i].data.file = f
      BY <2>3, <2>5, RedirectFields
    <3>2. QED
      BY <1>6, <1>8, <3>1 DEF Parse
  <2>7. /\ c \in ClientRecord
        /\ c = [client EXCEPT !.original = client.name, !.name = f, !.wwwActive = TRUE,
                              !.commands = <<m>>, !.transfer = f]
    <3>1. ~client.wwwActive /\ client.transfer = None /\ client.temp = f
      BY <2>1, <2>2 DEF Calm
    <3>2. QED
      <4>1. PICK d : d = client
        OBVIOUS
      <4>2. /\ d \in ClientRecord /\ d.commands = <<>> /\ ~d.wwwActive /\ d.transfer = None
            /\ d.temp = f
        BY ONLY <1>2, <3>1, <4>1
      <4>3. /\ ParseRedirect(d, f) \in ClientRecord
            /\ ParseRedirect(d, f) =
                 [d EXCEPT !.original = d.name, !.name = f, !.wwwActive = TRUE,
                           !.commands = <<m>>, !.transfer = f]
        <5>1. f \in File /\ f # None /\ m = Command("wwwdl_ack")
          BY ONLY <2>2, <2>3, <2>4
        <5>2. QED
          BY ONLY <4>2, <5>1, ParseOffer
      <4>4. QED
        BY ONLY <2>6, <4>1, <4>3
  <2>8. /\ c.original = f /\ c.name = f /\ c.temp = f /\ c.wwwActive /\ ~c.wwwAborting
        /\ c.commands = <<m>> /\ c.transfer = f /\ c.restart /\ ~c.open /\ c.copy = <<>>
        /\ c.disk = client.disk /\ c.loaded = client.loaded /\ c.state # "refused"
    <3>1. /\ client.name = f /\ client.temp = f /\ ~client.wwwAborting /\ client.restart
      BY <1>10, <2>1, <2>2 DEF Calm
    <3>2. QED
      BY ONLY <1>2, <1>6, <1>10, <2>7, <3>1 DEF ClientRecord
  <2>9. PICK d : d = client'
    OBVIOUS
  <2>10. d = [c EXCEPT !.commands = <<>>]
    BY <1>9, <2>9
  <2>11. d \in ClientRecord /\ d.commands = <<>>
    BY <2>7, <2>10, CommandsLeave
  <2>12. /\ d.state = c.state /\ d.name = c.name /\ d.temp = c.temp
         /\ d.original = c.original /\ d.restart = c.restart
         /\ d.wwwActive = c.wwwActive /\ d.wwwAborting = c.wwwAborting
         /\ d.transfer = c.transfer /\ d.copy = c.copy /\ d.open = c.open
         /\ d.loaded = c.loaded /\ d.disk = c.disk
    BY <2>7, <2>10, TheRestStays
  <2>13. toServer' = <<Command("wwwdl_ack")>> /\ toServer' \in Seq(ClientCommand)
    <3>1. "wwwdl_ack" \in CommandName
      BY DEF CommandName
    <3>2. m \in ClientCommand
      BY <2>4, <3>1, CommandFields
    <3>3. <<m>> \in Seq(ClientCommand)
      BY <3>2
    <3>4. QED
      BY <1>9, <2>2, <2>4, <2>8, <3>3, ConcatEmptySeq
  <2>14. PakTyped'
    <3>1. /\ client' \in ClientRecord /\ client'.commands = <<>>
          /\ client'.disk = client.disk /\ client'.loaded = client.loaded
      BY <2>8, <2>9, <2>11, <2>12
    <3>2. QED
      BY <1>1, <1>2, <1>5, <2>13, <3>1, ClientTyped
  <2>15. Following'
    <3>1. Offers(f)'
      BY <1>5, <2>2 DEF Offers
    <3>2. QED
      BY <1>1, <2>2, <2>8, <2>9, <2>12, <2>13, <3>1 DEF Following, Offered
  <2>16. Copies
    BY <1>10, <2>1, <2>8, <2>9, <2>12, CopyStays
  <2>17. QED
    BY <1>1, <1>10, <2>8, <2>9, <2>12, <2>14, <2>15, <2>16 DEF ByRedirect
<1>12. CASE Following
  <2>1. PICK f : f = client.temp
    OBVIOUS
  <2>2. f # None /\ Offers(f) /\ client.wwwActive
    BY <1>12, <2>1 DEF Following
  <2>3. f \in File
    BY <1>2, <2>1, <2>2 DEF ClientRecord
  <2>4. c = client
    <3>1. toClient[i].kind = "redirect" /\ toClient[i].data.file = f
      BY <2>2, <2>3, RedirectFields DEF Offers
    <3>2. QED
      BY <1>6, <1>8, <2>2, <3>1 DEF Parse, ParseRedirect
  <2>5. client' = client /\ toServer' = toServer
    <3>1. client' = [client EXCEPT !.commands = <<>>]
      BY <1>9, <2>4
    <3>2. client' = client
      BY <1>2, <3>1 DEF ClientRecord
    <3>3. toServer' = toServer \o <<>>
      BY <1>2, <1>9, <2>4
    <3>4. QED
      BY <1>2, <3>2, <3>3, ConcatEmptySeq
  <2>6. PakTyped'
    BY <1>1, <1>2, <1>5, <2>5, ClientTyped
  <2>7. Offers(f)'
    BY <1>5, <2>2 DEF Offers
  <2>8. Following'
    BY <1>1, <1>12, <2>1, <2>5, <2>7 DEF Following, Offered
  <2>9. Copies
    BY <2>5, CopyStays
  <2>10. QED
    BY <1>1, <1>6, <1>10, <2>5, <2>6, <2>8, <2>9 DEF ByRedirect
<1>13. CASE Waiting \/ Again
  <2>1. /\ toServer = <<>> /\ toClient \in {<<GameState>>, <<Refusal>>}
        /\ download.name = None /\ ~download.redirectAcknowledged
        /\ client.transfer = None
        /\ toClient = <<Refusal>> => Calm
    BY <1>4, <1>13, RedirectFields DEF Waiting, Again, Calm
  <2>2. toClient' = <<>> /\ i = 1
    <3>1. Len(toClient) = 1 /\ i = 1
      BY <1>4, <2>1
    <3>2. Len(toClient') = 0
      BY <1>5, <3>1
    <3>3. QED
      BY <1>5, <3>1, <3>2, EmptySeq
  <2>3. CASE toClient = <<GameState>>
    <3>1. toClient[i] = GameState
      BY <2>2, <2>3
    <3>2. c = InitDownloads(client)
      BY <1>6, <1>8, <3>1, RedirectFields DEF Parse
    <3>3. QED
      BY <1>1, <1>6, <1>9, <2>1, <2>2, <3>2, BeginAgain
  <2>4. CASE toClient = <<Refusal>>
    <3>1. toClient[i] = Refusal
      BY <2>2, <2>4
    <3>2. c = [client EXCEPT !.state = "refused"]
      BY <1>6, <1>8, <3>1, RedirectFields DEF Parse
    <3>3. c \in ClientRecord /\ c.commands = <<>> /\ c.disk = client.disk
          /\ c.loaded = client.loaded /\ c.wwwActive = client.wwwActive
          /\ c.wwwAborting = client.wwwAborting /\ c.transfer = client.transfer
          /\ c.open = client.open /\ c.copy = client.copy /\ c.name = client.name
          /\ c.temp = client.temp /\ c.restart = client.restart
      BY ONLY <1>2, <3>2 DEF ClientRecord
    <3>4. client' = c
      BY <1>9, <3>3 DEF ClientRecord
    <3>5. toServer' = <<>> /\ toServer' \in Seq(ClientCommand)
      BY <1>2, <1>9, <2>1, <3>3, ConcatEmptySeq
    <3>6. PakTyped'
      BY <1>1, <1>2, <1>5, <3>3, <3>4, <3>5, ClientTyped
    <3>7. Waiting'
      BY <1>1, <2>1, <2>2, <2>4, <3>3, <3>4, <3>5 DEF Waiting, Calm
    <3>8. Copies
      BY <3>3, <3>4, CopyStays
    <3>9. QED
      BY <1>1, <1>10, <2>2, <3>3, <3>4, <3>6, <3>7, <3>8 DEF ByRedirect
  <2>5. QED
    BY <2>1, <2>3, <2>4
<1>14. QED
  BY <1>7, <1>11, <1>12, <1>13

\* CL_WWWDownload, the transfer succeeded.
LEMMA TransferEndsByRedirect ==
  ASSUME PakTyped, ByRedirect, session.redirects, TransferEnds
  PROVE  PakTyped' /\ ByRedirect' /\ Copies
<1>1. /\ client.state = "connected" /\ client.wwwActive /\ ~client.wwwAborting
      /\ UNCHANGED <<download, present, toClient, session>>
  BY DEF TransferEnds, Downloading
<1>2. toClient = <<>> /\ toServer = <<>>
  BY DEF TransferEnds, Downloading, PakTyped, Tame, Prompt
<1>3. /\ client \in ClientRecord /\ client.commands = <<>>
      /\ toClient \in Seq(DownloadRecord)
      /\ File \ client.loaded \subseteq session.lacks
      /\ \A g \in File : client.disk[g] \in {<<>>, WholePak(g)}
  BY DEF PakTyped, SavedWhole
<1>4. Following
  BY <1>1 DEF ByRedirect, Wishing, Ending, Offering, Waiting, Withdrawing, Again, Calm
<1>5. PICK f : f = client.temp
  OBVIOUS
<1>6. /\ f # None /\ client.original = f /\ client.transfer = f
      /\ download.redirectActive /\ download.redirectAcknowledged
  BY <1>2, <1>4, <1>5, InTurn DEF Following
<1>7. f \in File
  BY <1>3, <1>5, <1>6 DEF ClientRecord
<1>8. /\ ~client.open /\ client.copy = <<>> /\ ~download.open
      /\ client.name = f /\ client.restart
  BY <1>5, <1>6 DEF ByRedirect
<1>9. PICK x : x = Command("wwwdl_done")
  OBVIOUS
<1>10. x \in ClientCommand
  <2>1. "wwwdl_done" \in CommandName
    BY DEF CommandName
  <2>2. QED
    BY <1>9, <2>1, CommandFields
<1>11. PICK disk : disk = [client.disk EXCEPT ![f] = WholePak(f)]
  OBVIOUS
<1>12. disk \in [File -> Seq(Block \cup {Eof})]
  BY <1>3, <1>7, <1>11, WholePakProperties DEF ClientRecord
<1>13. \A g \in File : disk[g] \in {<<>>, WholePak(g)}
  BY <1>3, <1>7, <1>11 DEF ClientRecord
<1>14. PICK k : k = <<x>>
  OBVIOUS
<1>15. k \in Seq(ClientCommand)
  BY <1>10, <1>14
<1>16. PICK s : s = [client EXCEPT !.disk = disk, !.commands = k, !.transfer = None,
                                   !.name = None, !.temp = None, !.wwwActive = FALSE]
  OBVIOUS
<1>17. s \in ClientRecord
  BY ONLY <1>3, <1>12, <1>15, <1>16 DEF ClientRecord
<1>18. PICK p : p = NextDownload(s)
  OBVIOUS
<1>19. client' = [p EXCEPT !.commands = <<>>] /\ toServer' = toServer \o p.commands
  <2>1. PICK saved : saved = [client EXCEPT !.disk[client.original] = WholePak(client.transfer)]
    OBVIOUS
  <2>2. saved = [client EXCEPT !.disk = disk]
    BY <1>6, <1>11, <2>1
  <2>3. Append(client.commands, x) = k
    BY ONLY <1>3, <1>14
  <2>4. Say(saved, x) = [client EXCEPT !.disk = disk, !.commands = k]
    <3>1. saved.commands = client.commands
      BY ONLY <1>3, <2>2 DEF ClientRecord
    <3>2. Say(saved, x) = [saved EXCEPT !.commands = k]
      BY <2>3, <3>1 DEF Say
    <3>3. QED
      BY <2>2, <3>2
  <2>5. [Say(saved, x) EXCEPT !.transfer = None, !.name = None, !.temp = None,
                              !.wwwActive = FALSE] = s
    BY <1>16, <2>4
  <2>6. Update(NextDownload(s))
    BY <1>6, <1>9, <2>1, <2>5 DEF TransferEnds
  <2>7. QED
    BY <1>18, <2>6 DEF Update
<1>20. /\ s.disk = disk /\ s.commands = k /\ s.transfer = None /\ s.restart
       /\ ~s.wwwActive /\ ~s.wwwAborting /\ ~s.open /\ s.copy = <<>>
       /\ s.loaded = client.loaded /\ s.state = "connected"
  BY ONLY <1>1, <1>3, <1>8, <1>16 DEF ClientRecord
<1>21. PICK d : d = client'
  OBVIOUS
<1>22. d = [p EXCEPT !.commands = <<>>]
  BY <1>19, <1>21
<1>23. ASSUME p \in ClientRecord, NEW y \in ClientCommand, p.commands = <<x, y>>,
              p.disk = disk, File \ p.loaded \subseteq session.lacks,
              p.name = p.temp, p.temp # None => p.restart,
              y = IF p.temp = None THEN Command("donedl") ELSE FileCommand("download", p.temp),
              ~p.wwwActive, ~p.wwwAborting, p.transfer = None, ~p.open, p.copy = <<>>,
              p.state = "connected"
       PROVE  PakTyped' /\ ByRedirect' /\ Copies
  <2>1. d \in ClientRecord /\ d.commands = <<>>
    BY <1>22, <1>23, CommandsLeave
  <2>2. /\ d.state = p.state /\ d.name = p.name /\ d.temp = p.temp
        /\ d.restart = p.restart
        /\ d.wwwActive = p.wwwActive /\ d.wwwAborting = p.wwwAborting
        /\ d.transfer = p.transfer /\ d.copy = p.copy /\ d.open = p.open
        /\ d.loaded = p.loaded /\ d.disk = p.disk
    BY <1>22, <1>23, TheRestStays
  <2>3. toServer' = <<x, y>> /\ toServer' \in Seq(ClientCommand)
    <3>1. <<x, y>> \in Seq(ClientCommand)
      BY ONLY <1>10, <1>23
    <3>2. toServer' = <<>> \o <<x, y>>
      BY <1>2, <1>19, <1>23
    <3>3. QED
      BY <3>1, <3>2, ConcatEmptySeq
  <2>4. \A g \in File : d.disk[g] \in {<<>>, WholePak(g)}
    BY <1>13, <1>23, <2>2
  <2>5. PakTyped'
    <3>1. /\ client' \in ClientRecord /\ client'.commands = <<>>
          /\ \A g \in File : client'.disk[g] \in {<<>>, WholePak(g)}
          /\ File \ client'.loaded \subseteq session.lacks
      BY <1>21, <1>23, <2>1, <2>2, <2>4
    <3>2. QED
      BY <1>1, <1>3, <2>3, <3>1, ClientTyped
  <2>6. toServer' = <<Command("wwwdl_done"), Wish'>>
    BY <1>9, <1>21, <1>23, <2>2, <2>3 DEF Wish
  <2>7. Ending'
    BY <1>1, <1>2, <1>6, <1>21, <1>23, <2>2, <2>6 DEF Ending, Calm
  <2>8. Copies
    <3>1. /\ client'.temp \in File \cup {None} /\ client'.copy = <<>>
          /\ client'.disk = [client.disk EXCEPT ![f] = WholePak(f)]
      BY <1>11, <1>21, <1>23, <2>1, <2>2 DEF ClientRecord
    <3>2. QED
      BY <1>5, <1>7, <3>1, CopySaved
  <2>9. QED
    BY <1>1, <1>8, <1>21, <1>23, <2>2, <2>5, <2>7, <2>8 DEF ByRedirect
<1>24. CASE s.list = <<>>
  <2>1. PICK l : l = s.loaded \cup {g \in File : s.disk[g] = WholePak(g)}
    OBVIOUS
  <2>2. PICK y : y = Command("donedl")
    OBVIOUS
  <2>3. PICK c : c = Append(s.commands, y)
    OBVIOUS
  <2>4. y \in ClientCommand
    <3>1. "donedl" \in CommandName
      BY DEF CommandName
    <3>2. QED
      BY <2>2, <3>1, CommandFields
  <2>5. c = <<x, y>>
    BY <1>14, <1>20, <2>3, TwoInTurn
  <2>6. p \in ClientRecord /\
        p = [s EXCEPT !.loaded = l, !.commands = c, !.restart = FALSE,
                      !.temp = None, !.name = None, !.original = None]
    BY <1>17, <1>18, <1>20, <1>24, <2>1, <2>2, <2>3, NextDownloadNoMore
  <2>7. /\ p.commands = c /\ p.disk = disk /\ p.loaded = l /\ p.name = None /\ p.temp = None
        /\ ~p.wwwActive /\ ~p.wwwAborting /\ p.transfer = None /\ ~p.open /\ p.copy = <<>>
        /\ p.state = "connected"
    BY ONLY <1>17, <1>20, <2>6 DEF ClientRecord
  <2>8. File \ p.loaded \subseteq session.lacks
    BY <1>3, <1>20, <2>1, <2>7
  <2>9. QED
    BY <1>23, <2>2, <2>4, <2>5, <2>6, <2>7, <2>8
<1>25. CASE s.list # <<>>
  <2>1. PICK g : g = Head(s.list)
    OBVIOUS
  <2>2. PICK y : y = FileCommand("download", g)
    OBVIOUS
  <2>3. PICK c : c = Append(s.commands, y)
    OBVIOUS
  <2>4. PICK t : t = Tail(s.list)
    OBVIOUS
  <2>5. /\ g \in File /\ p \in ClientRecord
        /\ p = [s EXCEPT !.name = g, !.temp = g, !.block = 0, !.commands = c,
                         !.restart = TRUE, !.list = t]
    BY <1>17, <1>18, <1>25, <2>1, <2>2, <2>3, <2>4, NextDownloadMore
  <2>6. y \in ClientCommand /\ g # None
    <3>1. "download" \in CommandName
      BY DEF CommandName
    <3>2. QED
      BY <2>2, <2>5, <3>1, FileCommandFields
  <2>7. c = <<x, y>>
    BY <1>14, <1>20, <2>3, TwoInTurn
  <2>8. /\ p.commands = c /\ p.disk = disk /\ p.loaded = client.loaded
        /\ p.name = g /\ p.temp = g /\ p.restart
        /\ ~p.wwwActive /\ ~p.wwwAborting /\ p.transfer = None /\ ~p.open /\ p.copy = <<>>
        /\ p.state = "connected"
    BY ONLY <1>17, <1>20, <2>5 DEF ClientRecord
  <2>9. File \ p.loaded \subseteq session.lacks
    BY <1>3, <2>8
  <2>10. QED
    BY <1>23, <2>2, <2>5, <2>6, <2>7, <2>8, <2>9
<1>26. QED
  BY <1>24, <1>25

\* CL_WWWDownload, the transfer failed.
LEMMA TransferFailsByRedirect ==
  ASSUME PakTyped, ByRedirect, session.redirects, TransferFails
  PROVE  PakTyped' /\ ByRedirect' /\ Copies
<1>1. /\ client.state = "connected" /\ client.wwwActive /\ ~client.wwwAborting
      /\ UNCHANGED <<download, present, toClient, session>>
      /\ Update(RefuseRedirect([client EXCEPT !.transfer = None]))
  BY DEF TransferFails, Downloading
<1>2. toClient = <<>> /\ toServer = <<>>
  BY DEF TransferFails, Downloading, PakTyped, Tame, Prompt
<1>3. /\ client \in ClientRecord /\ client.commands = <<>>
      /\ toClient \in Seq(DownloadRecord)
      /\ File \ client.loaded \subseteq session.lacks
      /\ \A g \in File : client.disk[g] \in {<<>>, WholePak(g)}
  BY DEF PakTyped, SavedWhole
<1>4. Following
  BY <1>1 DEF ByRedirect, Wishing, Ending, Offering, Waiting, Withdrawing, Again, Calm
<1>5. download.redirectActive /\ download.redirectAcknowledged
  BY <1>2, <1>4, InTurn DEF Following
<1>6. PICK x : x = Command("wwwdl_fail")
  OBVIOUS
<1>7. x \in ClientCommand
  <2>1. "wwwdl_fail" \in CommandName
    BY DEF CommandName
  <2>2. QED
    BY <1>6, <2>1, CommandFields
<1>8. PICK k : k = <<x>>
  OBVIOUS
<1>9. k \in Seq(ClientCommand) /\ Append(client.commands, x) = k
  <2>1. k \in Seq(ClientCommand)
    BY <1>7, <1>8
  <2>2. QED
    BY ONLY <1>3, <1>8, <2>1
<1>10. PICK p : p = RefuseRedirect([client EXCEPT !.transfer = None])
  OBVIOUS
<1>11. p = [client EXCEPT !.transfer = None, !.wwwAborting = TRUE, !.commands = k]
  BY <1>3, <1>6, <1>9, <1>10 DEF RefuseRedirect, Say, ClientRecord
<1>12. p \in ClientRecord
  BY ONLY <1>3, <1>9, <1>11 DEF ClientRecord
<1>13. /\ p.commands = k /\ p.transfer = None /\ p.wwwAborting
       /\ p.state = client.state /\ p.name = client.name /\ p.temp = client.temp
       /\ p.restart = client.restart /\ p.copy = client.copy /\ p.open = client.open
       /\ p.loaded = client.loaded /\ p.disk = client.disk
  BY ONLY <1>3, <1>11 DEF ClientRecord
<1>14. client' = [p EXCEPT !.commands = <<>>] /\ toServer' = toServer \o p.commands
  BY <1>1, <1>10 DEF Update
<1>15. PICK d : d = client'
  OBVIOUS
<1>16. d = [p EXCEPT !.commands = <<>>]
  BY <1>14, <1>15
<1>17. d \in ClientRecord /\ d.commands = <<>>
  BY <1>12, <1>16, CommandsLeave
<1>18. /\ d.state = p.state /\ d.name = p.name /\ d.temp = p.temp
       /\ d.restart = p.restart /\ d.wwwAborting = p.wwwAborting
       /\ d.transfer = p.transfer /\ d.copy = p.copy /\ d.open = p.open
       /\ d.loaded = p.loaded /\ d.disk = p.disk
  BY <1>12, <1>16, TheRestStays
<1>19. toServer' = <<Command("wwwdl_fail")>> /\ toServer' \in Seq(ClientCommand)
  BY <1>2, <1>6, <1>8, <1>9, <1>13, <1>14, ConcatEmptySeq
<1>20. PakTyped'
  <2>1. /\ client' \in ClientRecord /\ client'.commands = <<>>
        /\ client'.disk = client.disk /\ client'.loaded = client.loaded
    BY <1>13, <1>15, <1>17, <1>18
  <2>2. QED
    BY <1>1, <1>3, <1>19, <2>1, ClientTyped
<1>21. Withdrawing'
  BY <1>1, <1>2, <1>5, <1>13, <1>15, <1>18, <1>19 DEF Withdrawing
<1>22. Copies
  BY <1>13, <1>15, <1>18, CopyStays
<1>23. QED
  BY <1>22, <1>1, <1>13, <1>15, <1>18, <1>20, <1>21 DEF ByRedirect

\* By redirect, every step keeps what the server and the client agree on.
\* By redirect, a record that is lost is sent again or was of no use.
LEMMA LoseByRedirect ==
  ASSUME PakTyped, ByRedirect, session.redirects, Lose
  PROVE  PakTyped' /\ ByRedirect' /\ Copies
<1>1. /\ toClient # <<>> /\ toClient' = Tail(toClient)
      /\ UNCHANGED <<download, present, toServer, client, session>>
  BY DEF Lose
<1>2. toClient \in Seq(DownloadRecord) /\ client \in ClientRecord /\ client.commands = <<>>
      /\ toServer \in Seq(ClientCommand)
  BY DEF PakTyped
<1>3. /\ toClient' \in Seq(DownloadRecord)
      /\ Len(toClient) \in Nat /\ Len(toClient') = Len(toClient) - 1
      /\ \A j \in DOMAIN toClient' :
            j + 1 \in DOMAIN toClient /\ toClient'[j] = toClient[j + 1]
  BY <1>1, <1>2, TailOf
<1>4. PakTyped'
  <2>1. /\ \A g \in File : client'.disk[g] \in {<<>>, WholePak(g)}
        /\ File \ client'.loaded \subseteq session.lacks
    BY <1>1 DEF PakTyped, SavedWhole
  <2>2. QED
    BY <1>1, <1>2, <1>3, <2>1, ClientTyped
<1>5. Copies
  BY <1>1, CopyStays
<1>6. \A f \in File : Offers(f) => Offers(f)'
  BY <1>1, <1>3 DEF Offers
<1>7. client.temp \in File \cup {None}
  BY <1>2 DEF ClientRecord
<1>8. Offering \/ Waiting \/ Following \/ Again
  BY <1>1 DEF ByRedirect, Wishing, Ending, Withdrawing
<1>9. CASE Offering
  <2>1. Offers(client.temp)'
    BY <1>1, <1>6, <1>7, <1>9 DEF Offering, Offers
  <2>2. Offering'
    BY <1>1, <1>9, <2>1 DEF Offering, Calm, Offered
  <2>3. QED
    BY <1>1, <1>4, <1>5, <2>2 DEF ByRedirect
<1>10. CASE Following
  <2>1. Offers(client.temp)'
    BY <1>1, <1>6, <1>7, <1>10 DEF Following, Offers
  <2>2. Following'
    BY <1>1, <1>10, <2>1 DEF Following, Offered
  <2>3. QED
    BY <1>1, <1>4, <1>5, <2>2 DEF ByRedirect
<1>11. CASE Waiting \/ Again
  <2>1. toClient \in {<<GameState>>, <<Refusal>>}
    BY <1>1, <1>11 DEF Waiting, Again
  <2>2. toClient' = <<>>
    <3>1. Len(toClient') = 0
      BY <1>3, <2>1
    <3>2. QED
      BY <1>3, <3>1, EmptySeq
  <2>3. Waiting' \/ Again'
    BY <1>1, <1>11, <2>2 DEF Waiting, Again, Calm
  <2>4. QED
    BY <1>1, <1>4, <1>5, <2>2, <2>3 DEF ByRedirect
<1>12. QED
  BY <1>8, <1>9, <1>10, <1>11

LEMMA ByRedirectNext ==
  ASSUME PakTyped, ByRedirect, session.redirects, [DownloadNext]_downloadVars
  PROVE  PakTyped' /\ ByRedirect' /\ Copies
<1>1. CASE UNCHANGED downloadVars
  BY <1>1, CopyStays DEF downloadVars, PakTyped, SavedWhole, ByRedirect, Wishing, Ending, Offering,
       Waiting, Following, Withdrawing, Again, Calm, Wish, Offers, Offered
<1>2. WriteDownloadToClient \/ ExecuteClientCommand => Copies
  BY CopyStays DEF WriteDownloadToClient, ExecuteClientCommand
<1>3. QED
  BY <1>1, <1>2, LoseByRedirect, OfferByRedirect, ExecuteByRedirect, ReceiveByRedirect,
     TransferEndsByRedirect, TransferFailsByRedirect DEF DownloadNext

\* What holds of every tame connection.
PakIInv == PakTyped /\ IF session.redirects THEN ByRedirect ELSE InBand

LEMMA PakInductive ==
  ASSUME PakIInv, [DownloadNext]_downloadVars
  PROVE  PakIInv' /\ Copies
<1>1. session' = session
  BY DEF downloadVars, DownloadNext, WriteDownloadToClient, ExecuteClientCommand,
     ReceiveFromServer, Lose, TransferEnds, TransferFails, Downloading
<1>2. CASE session.redirects
  BY <1>1, <1>2, ByRedirectNext DEF PakIInv
<1>3. CASE ~session.redirects
  BY <1>1, <1>3, InBandNext DEF PakIInv
<1>4. QED
  BY <1>2, <1>3

LEMMA PakInvariance == DownloadSpec /\ Tame(session) => []PakIInv
<1>1. DownloadInit /\ Tame(session) => PakIInv
  BY PakInit, InBandInit, ByRedirectInit DEF PakIInv
<1>2. PakIInv /\ [DownloadNext]_downloadVars => PakIInv'
  BY PakInductive
<1>3. QED
  BY <1>1, <1>2, PTL DEF DownloadSpec

\* SV_WriteDownloadToClient, SV_NextDownload_f and SV_WWWDownload_f: in a tame
\* connection the window holds every block that is not acknowledged, and no
\* answer of the client gets it dropped.
THEOREM ServerAnswers == DownloadSpec /\ Tame(session) => []ServerHolds
<1>1. PakIInv => ServerHolds
  <2> SUFFICES ASSUME PakIInv PROVE ServerHolds
    OBVIOUS
  <2>1. DownloadTypeOK
    BY DEF PakIInv, PakTyped, DownloadTypeOK, ClientRecord
  <2>2. WindowHeld
    BY DEF PakIInv, InBand, ServerServes, ByRedirect, WindowHeld
  <2>3. NeverBroken
    BY DEF PakIInv, PakTyped, NeverBroken
  <2>4. QED
    BY <2>1, <2>2, <2>3 DEF ServerHolds
<1>2. QED
  BY <1>1, PakInvariance, PTL

\* CL_ParseDownload and CL_WWWDownload: in a tame connection, what is saved
\* under the name of a pak is that pak.
THEOREM PaksSavedWhole == DownloadSpec /\ Tame(session) => []SavedWhole
<1>1. PakIInv => SavedWhole
  BY DEF PakIInv, PakTyped
<1>2. QED
  BY <1>1, PakInvariance, PTL

\* CL_BeginDownload, CL_ParseDownload and CL_WWWDownload: a tame connection
\* copies one file after another, each block once and in order.
THEOREM PakRefinement == DownloadSpec /\ Tame(session) => ImplementsFileCopy
<1>1. DownloadInit /\ Tame(session) => Copied!Init
  <2> SUFFICES ASSUME DownloadInit, Tame(session) PROVE Copied!Init
    OBVIOUS
  <2>1. PakTyped /\ Starting
    BY PakInit
  <2>2. client.temp \in File \cup {None}
    BY <2>1 DEF PakTyped, ClientRecord
  <2>3. client.disk = [f \in File |-> <<>>]
    BY <2>1 DEF Starting
  <2>4. QED
    BY <2>1, <2>2, <2>3 DEF Starting, Copied!Init
<1>2. PakIInv /\ [DownloadNext]_downloadVars => [Copied!Next]_(Copied!vars)
  BY PakInductive DEF Copies
<1>3. QED
  BY <1>1, <1>2, PakInvariance, PTL DEF DownloadSpec, ImplementsFileCopy, Copied!Spec
================================================================================
