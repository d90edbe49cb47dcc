---------------------------- MODULE MCTransport ----------------------------
(***************************************************************************)
(* NET_SendPacket (netchan.c) takes a packet to the other machine through  *)
(* UDP, or to the other side of the same process through the loopback      *)
(* ring.  One run checks both: at the start it is decided which of the two *)
(* machines runs; the other one stays as it is.                            *)
(***************************************************************************)
EXTENDS Netchan, Loopback

CONSTANTS Lengths,      \* the lengths of the messages transmitted
          Colours,      \* how many different messages there are of a length
          a, b, oversize

\* Each byte names its message and its place in it.
MCMessage == {[i \in 1 .. n |-> <<c, n, i>>] : c \in Colours, n \in Lengths}
MCByte == Colours \X Lengths \X (1 .. MaxMsgLen)

MCDatagram == {a, b, oversize}
MCFitting == MCDatagram \ {oversize}

VARIABLE local    \* whether both sides are in one process

MCVars == <<vars, ringVars, local>>

MCInit == Init /\ RingInit /\ local \in BOOLEAN

Remote == ~local /\ UNCHANGED <<ringVars, local>>
Local == local /\ UNCHANGED <<vars, local>>

MCNext == (Remote /\ Next) \/ (Local /\ RingNext)
MCNextImmediate == (Remote /\ NextImmediate) \/ (Local /\ RingNext)

MCSpec == MCInit /\ [][MCNext]_MCVars
MCSpecImmediate == MCInit /\ [][MCNextImmediate]_MCVars
=============================================================================
