----------------------------- MODULE MCDownload -----------------------------
(* Small instances of Download. *)
EXTENDS Download, TLC

CONSTANTS pak1, pak2, pak3, pak4, pak5

OneFile == {pak1}
TwoFiles == {pak1, pak2}
PartlyWritable == {pak1, pak2, pak5}
FourFiles == {pak1, pak2, pak3, pak4}
FiveFiles == FourFiles \cup {pak5}
Five == (pak5 :> 5)
MixedSizes == (pak1 :> 3) @@ (pak2 :> 4) @@ (pak3 :> 2) @@ (pak4 :> 1)
Sizes == MixedSizes @@ Five
Two == (pak1 :> 2)
TwoAndOne == (pak1 :> 2) @@ (pak2 :> 1)

\* One large pak over a lossy network.
Lossy5 == [lacks |-> {pak5}, offered |-> {pak5}, redirects |-> FALSE,
           lossy |-> TRUE, prompt |-> FALSE]
\* Four paks in turn, the last of which the server refuses.
InTurn(redirects) ==
    [lacks |-> FourFiles, offered |-> FourFiles \ {pak4},
     redirects |-> redirects, lossy |-> FALSE, prompt |-> TRUE]
OneOrFour == {Lossy5, InTurn(FALSE), InTurn(TRUE)}

\* One pak or two over networks the code does not answer for.
OneLossy == {[lacks |-> {pak1}, offered |-> {pak1}, redirects |-> FALSE,
              lossy |-> TRUE, prompt |-> FALSE]}
TwoLossy == {[lacks |-> TwoFiles, offered |-> TwoFiles, redirects |-> FALSE,
              lossy |-> TRUE, prompt |-> TRUE]}
TwoRedirected == {[lacks |-> TwoFiles, offered |-> TwoFiles, redirects |-> TRUE,
                   lossy |-> FALSE, prompt |-> FALSE]}
\* Three paks in turn, the first of which the client cannot write.
ThreeFiles == {pak1, pak2, pak3}
TwoOneTwo == TwoAndOne @@ (pak3 :> 2)
AllButFirst == {pak2, pak3}
FirstUnwritable == {[lacks |-> ThreeFiles, offered |-> ThreeFiles, redirects |-> FALSE,
                     lossy |-> FALSE, prompt |-> TRUE]}
=============================================================================
