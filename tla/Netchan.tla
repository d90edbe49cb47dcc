------------------------------ MODULE Netchan ------------------------------
(***************************************************************************)
(* qcommon/netchan.c: one direction of a netchan_t pair.  The sender cuts  *)
(* messages of at least FragmentSize bytes into fragments that share one   *)
(* sequence number; the receiver reassembles them.  Between the two is     *)
(* UDP: every packet ever sent stays in net, and the receiver may be given *)
(* any of them at any time, again, or never, which is loss, duplication,   *)
(* delay and reordering at once.                                           *)
(***************************************************************************)
EXTENDS Integers, Sequences

CONSTANTS
    Byte,            \* what messages are made of
    Message,         \* the messages transmitted
    FragmentSize,    \* NETCHAN_FRAGMENT_SIZE, 1300 in the code
    MaxMsgLen,       \* MAX_MSGLEN, 32768: capacity of both channel buffers
    MaxSize,         \* message->maxsize of the caller's receive buffer
    ShortRange,      \* 2^15: MSG_WriteShort carries -2^15 .. 2^15 - 1
    MaxMessages      \* bound: messages transmitted in one behaviour

ASSUME MessageAssumption == Message \subseteq Seq(Byte)

\* 1300 bytes, 32768 bytes and 16 bits in the code.
ASSUME SizeAssumption ==
    /\ FragmentSize \in Nat \ {0}
    /\ MaxMsgLen \in Nat
    /\ MaxSize \in Nat
    /\ ShortRange \in Nat
    /\ FragmentSize < ShortRange
    /\ MaxMsgLen <= ShortRange

\* 2^15 is no multiple of 1300: no fragment begins at an offset a short wraps.
ASSUME OffsetAssumption ==
    \A k \in 0 .. ShortRange : k * FragmentSize # ShortRange

ASSUME BoundAssumption == MaxMessages \in Nat

VARIABLES
    (* the sending netchan_t *)
    outgoingSequence,
    unsentFragments,         \* qtrue while fragments of unsentBuffer remain
    unsentFragmentStart,
    unsentBuffer,            \* unsentBuffer[0 .. unsentLength - 1]
    (* the receiving netchan_t *)
    incomingSequence,
    dropped,
    fragmentSequence,
    fragmentBuffer,          \* fragmentBuffer[0 .. fragmentLength - 1]
    (* the wire, and what the two callers have seen *)
    net,
    sent,                    \* history: the messages given to Netchan_Transmit
    delivered                \* history: [seq, data] for each qtrue of Process

sendVars    == <<outgoingSequence, unsentFragments, unsentFragmentStart,
                 unsentBuffer, sent>>
receiveVars == <<incomingSequence, dropped, fragmentSequence, fragmentBuffer,
                 delivered>>
vars == <<sendVars, receiveVars, net>>

-----------------------------------------------------------------------------
\* MSG_WriteShort then MSG_ReadShort: the low 16 bits, read back signed.
Short(n) == ((n + ShortRange) % (2 * ShortRange)) - ShortRange

Packet ==
    [seq : Nat, fragmented : BOOLEAN, start : Int, len : Int, data : Seq(Byte)]

\* A fragment shorter than FragmentSize, possibly empty, ends its message.
EndsMessage(buffer, start) == start + FragmentSize > Len(buffer)

\* The fragment of buffer that begins at start, under sequence number seq.
Fragment(seq, buffer, start) ==
    LET len == IF EndsMessage(buffer, start)
                 THEN Len(buffer) - start ELSE FragmentSize
    IN  [seq |-> seq, fragmented |-> TRUE, start |-> Short(start),
         len |-> Short(len), data |-> SubSeq(buffer, start + 1, start + len)]

Whole(seq, m) ==
    [seq |-> seq, fragmented |-> FALSE, start |-> 0, len |-> 0, data |-> m]

\* Netchan_Setup on both ends.
Init ==
    /\ outgoingSequence = 1
    /\ unsentFragments = FALSE
    /\ unsentFragmentStart = 0
    /\ unsentBuffer = <<>>
    /\ incomingSequence = 0
    /\ dropped = 0
    /\ fragmentSequence = 0
    /\ fragmentBuffer = <<>>
    /\ net = {}
    /\ sent = <<>>
    /\ delivered = <<>>

-----------------------------------------------------------------------------
(* Sending *)

SequenceAfterMutant(buffer, start) == outgoingSequence
\* The sequence number after the fragment at start has been sent.
SequenceAfter(buffer, start) ==
    IF EndsMessage(buffer, start) THEN outgoingSequence + 1
                                  ELSE outgoingSequence

\* The body of Netchan_TransmitNextFragment.
EmitFragment(buffer, start) ==
    LET packet == Fragment(outgoingSequence, buffer, start)
    IN  /\ net' = net \cup {packet}
        /\ unsentFragmentStart' = start + Len(packet.data)
        /\ unsentFragments' = ~EndsMessage(buffer, start)
        /\ outgoingSequence' = SequenceAfter(buffer, start)

TransmitNextFragment ==
    /\ unsentFragments
    /\ EmitFragment(unsentBuffer, unsentFragmentStart)
    /\ UNCHANGED <<unsentBuffer, sent, receiveVars>>

\* The body of Netchan_Transmit; a longer message is a Com_Error(ERR_DROP).
TransmitBody(m) ==
    /\ Len(m) <= MaxMsgLen
    /\ Len(sent) < MaxMessages
    /\ sent' = Append(sent, m)
    /\ IF Len(m) >= FragmentSize
         THEN /\ unsentBuffer' = m
              /\ EmitFragment(m, 0)
         ELSE /\ net' = net \cup {Whole(outgoingSequence, m)}
              /\ outgoingSequence' = outgoingSequence + 1
              /\ unsentFragmentStart' = 0
              /\ UNCHANGED <<unsentBuffer, unsentFragments>>
    /\ UNCHANGED receiveVars

\* SV_SendClientMessages and CL_WritePacket transmit a new message only when
\* no fragment of the previous one remains.
Transmit(m) ==
    /\ ~unsentFragments
    /\ TransmitBody(m)

\* SV_ExecuteClientMessage (unpure client) and SV_FinalMessage (shutdown)
\* send a snapshot at once, abandoning the fragments that remain.
TransmitImmediately(m) ==
    /\ unsentFragments
    /\ TransmitBody(m)

-----------------------------------------------------------------------------
(* Receiving *)

Accept(seq, data) ==
    /\ incomingSequence' = seq
    /\ delivered' = Append(delivered, [seq |-> seq, data |-> data])

ProcessWhole(packet) ==
    /\ Accept(packet.seq, packet.data)
    /\ UNCHANGED <<fragmentSequence, fragmentBuffer>>

AssembledMutant(packet) == fragmentBuffer
\* A fragment of another message than the one being assembled restarts the
\* assembly.
Assembled(packet) ==
    IF packet.seq = fragmentSequence THEN fragmentBuffer ELSE <<>>

ContinuesMutant(packet) == TRUE
Continues(packet) == packet.start = Len(Assembled(packet))

LegalLength(packet) ==
    /\ packet.len >= 0
    /\ packet.len <= Len(packet.data)
    /\ Len(Assembled(packet)) + packet.len <= MaxMsgLen

ProcessFragment(packet) ==
    LET extended == Assembled(packet) \o SubSeq(packet.data, 1, packet.len)
        complete == packet.len # FragmentSize /\ Len(extended) <= MaxSize
    IN  /\ fragmentSequence' = packet.seq
        /\ IF Continues(packet) /\ LegalLength(packet)
             THEN IF complete
                    THEN fragmentBuffer' = <<>> /\ Accept(packet.seq, extended)
                    ELSE /\ fragmentBuffer' = extended
                         /\ UNCHANGED <<incomingSequence, delivered>>
             ELSE /\ fragmentBuffer' = Assembled(packet)
                  /\ UNCHANGED <<incomingSequence, delivered>>

NewerMutant(packet) == packet.seq >= incomingSequence
Newer(packet) == packet.seq > incomingSequence

\* Netchan_Process; it returns without a change on a sequence number that is
\* not newer than the last accepted one.
Process(packet) ==
    /\ Newer(packet)
    /\ dropped' = packet.seq - incomingSequence - 1
    /\ \/ ~packet.fragmented /\ ProcessWhole(packet)
       \/ packet.fragmented /\ ProcessFragment(packet)
    /\ UNCHANGED <<sendVars, net>>

Next ==
    \/ \E m \in Message : Transmit(m)
    \/ TransmitNextFragment
    \/ \E packet \in net : Process(packet)

Spec == Init /\ [][Next]_vars

\* The same channel, its callers also interrupting a fragmented message.
NextImmediate == Next \/ \E m \in Message : TransmitImmediately(m)

SpecImmediate == Init /\ [][NextImmediate]_vars

-----------------------------------------------------------------------------
(* Properties *)

\* The values each field may hold.
TypeOK ==
    /\ outgoingSequence \in Nat \ {0}
    /\ unsentFragments \in BOOLEAN
    /\ unsentFragmentStart \in Nat
    /\ unsentBuffer \in Seq(Byte)
    /\ incomingSequence \in Nat
    /\ dropped \in Nat
    /\ fragmentSequence \in Nat
    /\ fragmentBuffer \in Seq(Byte)
    /\ net \subseteq Packet
    /\ sent \in Seq(Message)
    /\ delivered \in Seq([seq : Nat, data : Seq(Byte)])

\* What Netchan_Process hands up under a sequence number is, byte for byte,
\* the message Netchan_Transmit was given under that number: fragments of two
\* messages, or two runs of one message's fragments, are never spliced.
DeliveredIntact ==
    \A i \in 1 .. Len(delivered) :
        /\ delivered[i].seq \in 1 .. Len(sent)
        /\ delivered[i].data = sent[delivered[i].seq]

\* Netchan_Process never hands up a message twice, nor an older message after
\* a newer one, whatever UDP repeats or reorders.
DeliveredInOrder ==
    \A i, j \in 1 .. Len(delivered) :
        i < j => delivered[i].seq < delivered[j].seq

\* Even when a caller abandons a fragmented message half way, each byte that
\* Netchan_Process hands up was transmitted at that offset of some message.
BytesInPlace ==
    \A i \in 1 .. Len(delivered) : \A p \in 1 .. Len(delivered[i].data) :
        \E k \in 1 .. Len(sent) :
            /\ p <= Len(sent[k])
            /\ sent[k][p] = delivered[i].data[p]

(***************************************************************************)
(* The inductive invariant behind these: sent[q] is the one message that   *)
(* ever travels under sequence number q, a fragment in the network is a    *)
(* stretch of it, and the reassembly buffer is a beginning of it.          *)
(***************************************************************************)
FragmentOffset(n) == \E k \in 0 .. n : n = k * FragmentSize

SenderInv ==
    /\ Len(sent) = IF unsentFragments THEN outgoingSequence
                                      ELSE outgoingSequence - 1
    /\ unsentFragments =>
         /\ unsentBuffer = sent[outgoingSequence]
         /\ Len(unsentBuffer) <= MaxMsgLen
         /\ unsentFragmentStart <= Len(unsentBuffer)
         /\ FragmentOffset(unsentFragmentStart)

FragmentInv(packet) ==
    LET message == sent[packet.seq]
    IN  /\ packet.start >= 0
        /\ packet.len = Len(packet.data)
        /\ packet.start + packet.len <= Len(message)
        /\ packet.data =
              SubSeq(message, packet.start + 1, packet.start + packet.len)
        /\ packet.len # FragmentSize =>
              packet.start + packet.len = Len(message)

NetInv ==
    \A packet \in net :
        /\ packet.seq \in 1 .. Len(sent)
        /\ IF packet.fragmented THEN FragmentInv(packet)
                                ELSE packet.data = sent[packet.seq]

ReassemblyInv ==
    fragmentBuffer # <<>> =>
        /\ fragmentSequence \in 1 .. Len(sent)
        /\ Len(fragmentBuffer) <= Len(sent[fragmentSequence])
        /\ fragmentBuffer =
              SubSeq(sent[fragmentSequence], 1, Len(fragmentBuffer))

DeliveredUpToIncoming ==
    /\ delivered = <<>> => incomingSequence = 0
    /\ delivered # <<>> => incomingSequence = delivered[Len(delivered)].seq
    /\ \A i \in 1 .. Len(delivered) : delivered[i].seq <= incomingSequence

IInv == /\ TypeOK
        /\ SenderInv
        /\ NetInv
        /\ ReassemblyInv
        /\ DeliveredIntact
        /\ DeliveredInOrder
        /\ DeliveredUpToIncoming

\* The channel netchan.c builds out of UDP is the abstract OrderedChannel.
Channel == INSTANCE OrderedChannel WITH
    Message <- Message, sent <- sent, delivered <- delivered

ImplementsOrderedChannel == Channel!Spec
=============================================================================
