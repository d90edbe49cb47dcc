---------------------------- MODULE MCSnapshots ----------------------------
(* Small instances of Snapshots. *)
EXTENDS Snapshots, TLC

CONSTANTS entities, clients, a, b

Kinds == {entities, clients}
Values == {a, b}
NoRecord == <<>>

\* An entity that comes and goes while the other one changes.
Changing ==
    {[k \in Kinds |-> IF k = entities THEN (2 :> a) ELSE (1 :> a)],
     [k \in Kinds |-> IF k = entities THEN (1 :> b) @@ (2 :> a) ELSE (1 :> a)]}

One == {[k \in Kinds |-> (1 :> a)]}

\* The names of two clients, in a world without entities.
Renamed ==
    {[k \in Kinds |-> IF k = entities THEN NoRecord ELSE (1 :> v) @@ (2 :> a)] :
       v \in Values}

\* Many entities appear at once below the one that was there before.
Crowd ==
    {[k \in Kinds |-> IF k = entities THEN (4 :> a) ELSE NoRecord],
     [k \in Kinds |-> IF k = entities THEN [n \in 1 .. 4 |-> IF n = 4 THEN a ELSE b]
                                      ELSE NoRecord]}

NewName == {w \in Renamed : w[clients][1] = b}

Rings(e, c) == [k \in Kinds |-> IF k = entities THEN e ELSE c]
RingsFive == Rings(5, 12)
RingsLarge == Rings(20, 12)
JustEntities == {entities}
=============================================================================
