--------------------------- MODULE MCScriptStore ---------------------------
(***************************************************************************)
(* The two stores below the script VM: the arena of script_memory.c and    *)
(* the table of script_string.c whose strings live in it.  Each is modelled*)
(* by itself and one run checks both: at the start it is decided which of  *)
(* the two machines runs; the other one stays as it is.                    *)
(***************************************************************************)
EXTENDS ScriptMemory, ScriptStrings, TLC

CONSTANTS text_a, text_b, text_c, text_d, user_1, user_2

\* Two bytes a block: a size of each bucket, at the ends where rounding counts,
\* and a size on either side of what is valid.
MCSizes == {0, 2, 3, 8, 9, 16}

\* Three texts of one hash, and one whose slot their ring grows into.  With
\* four slots that may be the ring's last one, which Evict walks to.
MCHash == [text \in Text |-> IF text = text_d THEN 2 ELSE 1]

\* Texts of one hash are alike, and so are the owners.
Symmetry ==
    Permutations({text \in Text : MCHash[text] = 1}) \cup Permutations(Users)

VARIABLE store    \* which of the two runs

MCVars == <<vars, stringVars, store>>

MCInit == Init /\ StringsInit /\ store \in {"memory", "strings"}

Memory == store = "memory" /\ UNCHANGED <<stringVars, store>>
Strings == store = "strings" /\ UNCHANGED <<vars, store>>

MCNext == (Memory /\ Next) \/ (Strings /\ StringsNext)

MCSpec == MCInit /\ [][MCNext]_MCVars
=============================================================================
