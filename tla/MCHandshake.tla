----------------------------- MODULE MCHandshake -----------------------------
(***************************************************************************)
(* Packets and the authorize server's answers as late as they like, in two *)
(* scenes: two players on one server, whose table overflows, or one player *)
(* who moves between two servers.  The crowd has one packet under way, and *)
(* two with the questions to the authorize server: what comes late there   *)
(* is the answers, and whatever a client does with an old challenge.       *)
(***************************************************************************)
EXTENDS Handshake, TLC

CONSTANTS c1, c2, s1, s2

VARIABLE scene

MCVars == <<vars, scene>>

MCVerdicts == {"accept", "needcdkey", "deny"}

\* The connect commands of each: of the player the server has to clear, and of
\* the exempt one, whose connections use the rows up.
MayTry(c, s, attempts) ==
    \/ scene = "crowd" /\ s = s1 /\ attempts <= IF c = c1 THEN 1 ELSE 2
    \/ scene = "mover" /\ c = c2

MCInit == Init /\ scene \in {"crowd", "mover"}

MCNext ==
    /\ Next
    /\ \A c \in Client : client'[c].state # "DISCONNECTED" =>
          MayTry(c, client'[c].server, client'[c].attempts)
    /\ scene = "crowd" => /\ Cardinality(net') <= 1
                          /\ Cardinality(net' \cup asks') <= 2
    /\ UNCHANGED scene

MCSpec == MCInit /\ [][MCNext]_MCVars
================================================================================
