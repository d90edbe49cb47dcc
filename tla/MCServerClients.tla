--------------------------- MODULE MCServerClients ---------------------------
(* Small instances of ServerClients. *)
EXTENDS ServerClients

=============================================================================
