---------------------------- MODULE MCPacketPump ----------------------------
(* Small instances of PacketPump. *)
EXTENDS PacketPump
=============================================================================
