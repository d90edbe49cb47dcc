--------------------------- MODULE MCHandshakeLive ---------------------------
(***************************************************************************)
(* One player on one server, who is told yes or no, and no late packets.   *)
(***************************************************************************)
EXTENDS Handshake, TLC

CONSTANTS c1, s1

Definite == {"accept", "deny"}
================================================================================
