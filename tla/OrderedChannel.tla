--------------------------- MODULE OrderedChannel ---------------------------
(***************************************************************************)
(* What a netchan_t promises the code above it: messages get the sequence  *)
(* numbers 1, 2, 3, ... in the order they are transmitted; each is handed  *)
(* to the receiver unchanged, at most once and never after a later one;    *)
(* any of them may be lost.                                                *)
(***************************************************************************)
EXTENDS Naturals, Sequences

CONSTANT Message             \* what may be transmitted

VARIABLES
    sent,                    \* sent[q] is the message with sequence number q
    delivered                \* the messages handed up: [seq, data] records

vars == <<sent, delivered>>

LastDelivered ==
    IF delivered = <<>> THEN 0 ELSE delivered[Len(delivered)].seq

Init == sent = <<>> /\ delivered = <<>>

Send(m) ==
    /\ sent' = Append(sent, m)
    /\ UNCHANGED delivered

Deliver(q) ==
    /\ q > LastDelivered
    /\ delivered' = Append(delivered, [seq |-> q, data |-> sent[q]])
    /\ UNCHANGED sent

Next == \/ \E m \in Message : Send(m)
        \/ \E q \in 1 .. Len(sent) : Deliver(q)

Spec == Init /\ [][Next]_vars
=============================================================================
