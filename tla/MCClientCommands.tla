-------------------------- MODULE MCClientCommands --------------------------
(* Small instances of ClientCommands. *)
EXTENDS ClientCommands

=============================================================================
