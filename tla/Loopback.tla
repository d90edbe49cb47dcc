------------------------------ MODULE Loopback ------------------------------
(***************************************************************************)
(* qcommon/net_loopback.c: the packets between the client and the server   *)
(* of one process, in one direction.  net_loopbacks[source] is a ring of   *)
(* messages with two counters; the writer never looks at the reader's, and *)
(* a reader that is more than a ring behind skips to what is left.         *)
(***************************************************************************)
EXTENDS Integers, Sequences

CONSTANTS
    Datagram,      \* what may be sent
    Fitting,       \* those of at most NET_LOOPBACK_MESSAGE_BYTES
    RingSize,      \* NET_LOOPBACK_MESSAGE_COUNT, 16
    Empty,         \* a message of the zeroed ring
    MaxSent        \* bound: messages sent

ASSUME RingAssumption == RingSize \in Nat \ {0}
ASSUME DatagramAssumption == Fitting \subseteq Datagram
ASSUME MaxSentAssumption == MaxSent \in Nat

VARIABLES
    msgs, get, send,   \* loopback_t
    put,               \* history: every message put into the ring
    taken              \* history: [seq, data] of every message taken out

ringVars == <<msgs, get, send, put, taken>>

\* The index of a counter's message.
Slot(counter) == counter % RingSize

RingInit ==
    /\ msgs = [i \in 0 .. RingSize - 1 |-> Empty]
    /\ get = 0 /\ send = 0
    /\ put = <<>> /\ taken = <<>>

AcceptedMutant(m) == TRUE

\* A message too long is refused.
Accepted(m) == m \in Fitting

NET_SendLoopPacket(m) ==
    /\ Accepted(m)
    /\ send < MaxSent
    /\ msgs' = [msgs EXCEPT ![Slot(send)] = m]
    /\ send' = send + 1
    /\ put' = Append(put, m)
    /\ UNCHANGED <<get, taken>>

OldestNeverSkipsMutant(g, s) == g
OldestSkipsOneMoreMutant(g, s) == IF s - g >= RingSize THEN s - RingSize + 1 ELSE g

\* The counter of the oldest message still in the ring.
Oldest(g, s) == IF s - g > RingSize THEN s - RingSize ELSE g

\* NET_GetLoopPacket with a message waiting.
NET_GetLoopPacket ==
    /\ Oldest(get, send) < send
    /\ LET next == Oldest(get, send)
       IN  /\ taken' = Append(taken, [seq |-> next + 1, data |-> msgs[Slot(next)]])
           /\ get' = next + 1
    /\ UNCHANGED <<msgs, send, put>>

RingNext ==
    \/ \E m \in Datagram : NET_SendLoopPacket(m)
    \/ NET_GetLoopPacket

RingSpec == RingInit /\ [][RingNext]_ringVars

-----------------------------------------------------------------------------
\* Types of all variables.
RingTypeOK ==
    /\ msgs \in [0 .. RingSize - 1 -> Fitting \cup {Empty}]
    /\ get \in 0 .. MaxSent /\ send \in 0 .. MaxSent
    /\ put \in Seq(Fitting)
    /\ taken \in Seq([seq : Nat, data : Fitting \cup {Empty}])

\* The ring is the channel the code above takes it for: NET_GetLoopPacket
\* (net_loopback.c:24) returns messages unchanged, in order and once each,
\* also when the writer has gone round the ring in between.
RingChannel == INSTANCE OrderedChannel WITH
    Message <- Datagram, sent <- put, delivered <- taken

RingImplementsOrderedChannel == RingChannel!Spec

Taken == {taken[i].seq : i \in DOMAIN taken}

\* A message passed over by the reader was overwritten (net_loopback.c:23):
\* a whole ring of newer ones had been sent.
SkippedWereOverwritten ==
    \A q \in 1 .. get : q \in Taken \/ q + RingSize <= send
=============================================================================
