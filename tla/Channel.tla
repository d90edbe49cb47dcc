------------------------------- MODULE Channel -------------------------------
(***************************************************************************)
(* One direction of a connection as its two ends see it through the        *)
(* netchan: any message may be lost, none is repeated or overtaken         *)
(* (OrderedChannel).  A channel is the sequence of the messages under way. *)
(***************************************************************************)
EXTENDS Integers, Sequences

\* Netchan_Transmit: a full channel loses its oldest message.
Sent(channel, capacity, m) ==
    IF Len(channel) < capacity THEN Append(channel, m)
                               ELSE Append(Tail(channel), m)

\* Netchan_Process: what is still under way after message i arrived.
After(channel, i) == SubSeq(channel, i + 1, Len(channel))

\* A channel of messages of any kind.
IsSequence(channel) ==
    channel \in Seq({channel[i] : i \in DOMAIN channel})
=============================================================================
