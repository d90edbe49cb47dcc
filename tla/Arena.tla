------------------------------- MODULE Arena -------------------------------
(***************************************************************************)
(* What the script memory allocator promises its callers: a request gets a *)
(* run of blocks that is large enough and no larger than need be, aligned  *)
(* to its own length and disjoint from every other run handed out; and it  *)
(* is refused only when the size is not dealt in or the arena has no run   *)
(* of the length that this size needs.                                     *)
(***************************************************************************)
EXTENDS Naturals, FiniteSets

CONSTANTS
    Width,          \* the arena has 2^Width blocks, and block 0 is nobody's
    BlockSize,      \* bytes in a block
    Limit,          \* what the arena does not deal in any more
    Sizes           \* the sizes asked for

VARIABLES
    used,           \* the runs handed out: first block |-> size asked for
    refused         \* the size asked for, if the last request was not met

vars == <<used, refused>>

Block == 1 .. 2^Width - 1

Run(first, order) == first .. first + 2^order - 1

\* The least power of two of blocks that holds size bytes.
Order(size) ==
    CHOOSE n \in 0 .. Width :
        /\ size <= BlockSize * 2^n
        /\ \A m \in 0 .. n - 1 : BlockSize * 2^m < size

InUse == UNION {Run(b, Order(used[b])) : b \in DOMAIN used}

Vacant(order) ==
    LET left == Block \ InUse
    IN  {b \in left : b % 2^order = 0 /\ Run(b, order) \subseteq left}

With(first, size) ==
    [b \in DOMAIN used \cup {first} |-> IF b = first THEN size ELSE used[b]]

Init ==
    /\ used = <<>>
    /\ refused = {}

Valid == {size \in Sizes : size > 0 /\ size < Limit}

Grant ==
    /\ refused' = {}
    /\ \E size \in Valid : \E b \in Vacant(Order(size)) : used' = With(b, size)

Refuse ==
    /\ UNCHANGED used
    /\ \E size \in Sizes :
          /\ refused' = {size}
          /\ size \in Valid => Vacant(Order(size)) = {}

GiveBack ==
    /\ refused' = {}
    /\ \E b \in DOMAIN used : used' = [c \in DOMAIN used \ {b} |-> used[c]]

\* A larger run in exchange, taken before the old one is given back, or the
\* same one if it is still large enough.
Exchange ==
    /\ refused' = {}
    /\ \E size \in Valid : \E b \in DOMAIN used :
          \/ /\ Order(size) = Order(used[b])
             /\ used' = With(b, size)
          \/ /\ Order(size) > Order(used[b])
             /\ \E c \in Vacant(Order(size)) :
                   LET both == With(c, size)
                   IN  used' = [d \in DOMAIN both \ {b} |-> both[d]]

Next == Grant \/ Refuse \/ GiveBack \/ Exchange

Spec == Init /\ [][Next]_vars
=============================================================================
