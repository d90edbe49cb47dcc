-------------------------- MODULE MCServerCommands --------------------------
(* Small instances of ServerCommands. *)
EXTENDS ServerCommands

CONSTANT Types        \* the types of the commands the game issues

MCCommand == [type : Types, key : {0}, value : {1}]

\* Nothing is claimed of a client whose stream was broken or that has left.
InGame == intact /\ failure = "none"
=============================================================================
