------------------------------ MODULE FileCopy ------------------------------
(***************************************************************************)
(* What downloading promises the rest of the client: one file at a time is *)
(* copied from its first block on, without gap or repetition, and what is  *)
(* saved under a file's name is that whole file.                           *)
(***************************************************************************)
EXTENDS Naturals, Sequences

CONSTANTS
    File,
    Blocks,      \* how many blocks each file has
    None         \* no file

VARIABLES
    file,        \* the file being copied
    copy,        \* its blocks so far
    disk         \* what is saved under each name, <<>> for nothing

vars == <<file, copy, disk>>

Whole(f) == [n \in 1 .. Blocks[f] |-> [file |-> f, number |-> n - 1]]

Init ==
    /\ file \in File \cup {None}
    /\ copy = <<>>
    /\ disk = [f \in File |-> <<>>]

\* The next file, whether or not the last one was finished.
Begin ==
    /\ file' \in File \cup {None}
    /\ copy' = <<>>
    /\ UNCHANGED disk

Extend ==
    /\ file # None
    /\ \E n \in Len(copy) + 1 .. Blocks[file] :
          copy' = SubSeq(Whole(file), 1, n)
    /\ UNCHANGED <<file, disk>>

Save ==
    /\ file # None
    /\ disk' = [disk EXCEPT ![file] = Whole(file)]
    /\ file' \in File \cup {None}
    /\ copy' = <<>>

Next == Begin \/ Extend \/ Save

Spec == Init /\ [][Next]_vars
=============================================================================
