------------------------------ MODULE Download ------------------------------
(***************************************************************************)
(* server/engine/server_download.c, CL_ParseDownload and                   *)
(* client/engine/client/download_protocol.c: how a client fetches the paks *)
(* it lacks.  In band, the server keeps a window of blocks and sends them  *)
(* in its unreliable messages; the client answers each with the reliable   *)
(* command "nextdl", asks for a block it misses with "retransdl" and the   *)
(* server repeats the window when nothing happened for a second.  With a   *)
(* redirect, the server repeats a URL until the client's "wwwdl ack" and   *)
(* the client fetches the file by HTTP.  Server messages may be lost but   *)
(* keep their order (OrderedChannel); client commands arrive each once, in *)
(* order, at any later time (ClientCommands).  A message may hold several  *)
(* records; CL_ParseServerMessage calls CL_ParseDownload for each, while   *)
(* the server, another process, goes on.  The map stays the same.          *)
(***************************************************************************)
EXTENDS Integers, Sequences, FiniteSets, SequencesExt

CONSTANTS
    File,          \* the paks the server refers to
    Blocks,        \* the number of blocks of each pak
    None,          \* the empty name
    Writable,      \* the paks whose temporary file the client can create
    Window,        \* MAX_DOWNLOAD_WINDOW, 8
    Budget,        \* the blocks that the client's rate allows per snapshot
    ShortLimit,    \* 2^15: block numbers travel as signed 16-bit integers
    Follows,       \* the client's cl_wwwDownload
    Sessions,      \* what connections there may be, see Session
    InFlight,      \* bound: with so many records under way nothing is sent
    MaxCommands    \* bound: with so many commands under way nothing is sent

Session ==
    [lacks : SUBSET File,      \* the paks the client does not have
     offered : SUBSET File,    \* the paks the server may send and can open
     redirects : BOOLEAN,      \* sv_wwwDownload with a usable sv_wwwBaseURL
     lossy : BOOLEAN,          \* server messages may be lost
     prompt : BOOLEAN]         \* all under way arrives before a timer runs out

ASSUME DownloadAssumption ==
    /\ None \notin File /\ IsFiniteSet(File)
    /\ Blocks \in [File -> Nat \ {0}]
    /\ Writable \subseteq File
    /\ {Window, Budget, ShortLimit} \subseteq Nat \ {0} /\ Window <= ShortLimit
    /\ {InFlight, MaxCommands} \subseteq Nat \ {0}
    /\ Follows \in BOOLEAN
    /\ Sessions \subseteq Session

VARIABLES
    download,      \* client_t.download, see ServerRecord
    present,       \* FALSE once SV_DropClient was called
    toClient,      \* the download records of the messages under way
    toServer,      \* reliable client commands
    client,        \* the client's side, see ClientRecord
    session        \* what connection this is; it never changes

downloadVars == <<download, present, toClient, toServer, client, session>>

Offered == session.offered
Lossy == session.lossy
Prompt == session.prompt

-----------------------------------------------------------------------------
(* Files and blocks *)

Block == [file : File, number : Nat]
Eof == [file |-> None, number |-> 0]       \* blockByteCounts[...] == 0
WholePak(f) == [n \in 1 .. Blocks[f] |-> [file |-> f, number |-> n - 1]]

\* MSG_WriteShort and MSG_ReadShort.
AsShort(n) == ((n + ShortLimit) % (2 * ShortLimit)) - ShortLimit

Slots == 0 .. Window - 1

ServerRecord ==
    [name : File \cup {None}, open : BOOLEAN,
     transmit : Nat, acknowledged : Nat, buffered : Nat, read : Nat,
     eof : BOOLEAN,                        \* eofBlockQueued
     slots : [Slots -> Block \cup {Eof}],
     redirectActive : BOOLEAN, redirectAcknowledged : BOOLEAN,
     redirectFailed : BOOLEAN]

\* "wwwdl_ack" stands for the command "wwwdl ack" of the code, and so on.
ClientCommand ==
    [command : {"download", "nextdl", "retransdl", "stopdl", "donedl",
                "wwwdl_ack", "wwwdl_done", "wwwdl_fail"},
     block : Nat, file : File \cup {None}]

ClientRecord ==
    [state : {"connected", "loading", "refused"},
     list : Seq(File),                     \* clc.downloadList
     name : File \cup {None},              \* downloadName, or the pak of its URL
     temp : File \cup {None},              \* downloadTempName
     original : File \cup {None},          \* originalDownloadName
     block : Nat,                          \* clc.downloadBlock
     open : BOOLEAN, copy : Seq(Block \cup {Eof}),
     restart : BOOLEAN,                    \* downloadRestart
     wwwActive : BOOLEAN, wwwAborting : BOOLEAN,
     transfer : File \cup {None},          \* the URL libwww fetches
     disk : [File -> Seq(Block \cup {Eof})],
     loaded : SUBSET File,                 \* paks found by the last FS_Restart
     commands : Seq(ClientCommand)]

Command(c) == [command |-> c, block |-> 0, file |-> None]
BlockCommand(c, n) == [Command(c) EXCEPT !.block = n]
FileCommand(c, f) == [Command(c) EXCEPT !.file = f]

-----------------------------------------------------------------------------
(* The client's operations; its reliable commands gather in "commands" *)

\* CL_AddReliableCommand
Say(c, command) == [c EXCEPT !.commands = Append(@, command)]

\* CL_ClearStaticDownload
ClearStaticDownload(c) ==
    [c EXCEPT !.restart = FALSE, !.temp = None, !.name = None,
              !.original = None]

\* CL_DownloadsComplete.  The restart finds every pak that is whole.
DownloadsComplete(c) ==
    IF c.restart
      THEN ClearStaticDownload(
             Say([c EXCEPT !.loaded = @ \cup {f \in File : c.disk[f] = WholePak(f)}],
                 Command("donedl")))
      ELSE [c EXCEPT !.state = "loading"]

\* CL_BeginDownload
BeginDownload(c, f) ==
    Say([c EXCEPT !.name = f, !.temp = f, !.block = 0],
        FileCommand("download", f))

\* CL_NextDownload
NextDownload(c) ==
    IF c.list = <<>>
      THEN DownloadsComplete(c)
      ELSE [BeginDownload(c, Head(c.list)) EXCEPT
              !.restart = TRUE, !.list = Tail(@)]

\* CL_InitDownloads, with FS_ComparePaks: any order of the paks will do.
InitDownloads(c) ==
    LET fresh == ClearStaticDownload(
                   [c EXCEPT !.wwwActive = FALSE, !.wwwAborting = FALSE])
        missing == SetToSeq(File \ c.loaded)
    IN  IF missing = <<>>
          THEN DownloadsComplete(fresh)
          ELSE NextDownload([fresh EXCEPT !.state = "connected",
                                          !.list = missing])

\* A redirect whose file cannot be fetched.
RefuseRedirect(c) ==
    Say([c EXCEPT !.wwwAborting = TRUE], Command("wwwdl_fail"))

\* CL_ParseDownload, block number -1.
ParseRedirect(c, f) ==
    LET taken == Say([c EXCEPT !.original = c.name, !.name = f,
                               !.wwwActive = TRUE], Command("wwwdl_ack"))
    IN  IF c.wwwActive
          THEN c
          ELSE IF c.temp = None \/ c.transfer # None
            THEN RefuseRedirect(taken)
            ELSE [taken EXCEPT !.transfer = f]

FinishMutant(c) ==
    NextDownload([c EXCEPT !.disk[c.name] = c.copy, !.name = None, !.temp = None])

\* The last, empty block: the temporary file gets its name.
Finish(c) ==
    NextDownload(
      [c EXCEPT !.open = FALSE, !.copy = <<>>,
                !.disk[c.name] = c.copy,
                !.name = None, !.temp = None])

ParseBlockMutant(c, number, data) ==
    LET opened  == [c EXCEPT !.open = TRUE]
        written == IF data = Eof THEN opened
                                 ELSE [opened EXCEPT !.copy = Append(@, data)]
        counted == [Say(written, BlockCommand("nextdl", c.block))
                      EXCEPT !.block = @ + 1]
    IN  IF number # c.block
          THEN IF number < c.block
                 THEN c
                 ELSE counted
          ELSE IF data = Eof THEN Finish(counted) ELSE counted

ParseBlockRepeatMutant(c, number, data) ==
    LET counted == [c EXCEPT !.open = TRUE, !.block = @ + 1,
                             !.copy = IF data = Eof THEN @ ELSE Append(@, data)]
    IN  IF number > c.block
          THEN Say(c, BlockCommand("retransdl", c.block))
          ELSE LET said == Say(IF number = c.block THEN counted ELSE c,
                               BlockCommand("nextdl", number))
               IN  IF number = c.block /\ data = Eof THEN Finish(said) ELSE said

\* CL_ParseDownload, a block of data.
ParseBlock(c, number, data) ==
    LET opened  == [c EXCEPT !.open = TRUE]
        written == IF data = Eof THEN opened
                                 ELSE [opened EXCEPT !.copy = Append(@, data)]
        counted == [Say(written, BlockCommand("nextdl", c.block))
                      EXCEPT !.block = @ + 1]
    IN  CASE number < c.block -> c
          [] number > c.block -> Say(c, BlockCommand("retransdl", c.block))
          [] number = c.block /\ ~c.open /\ c.temp = None ->
               Say(c, Command("stopdl"))
          [] number = c.block /\ ~c.open /\ c.temp \in File \ Writable ->
               NextDownload(Say(c, Command("stopdl")))
          [] OTHER -> IF data = Eof THEN Finish(counted) ELSE counted

\* What a record of a server message does to the client.
Parse(c, r) ==
    IF c.state = "refused"
      THEN c
      ELSE CASE r.kind = "gamestate" -> InitDownloads(c)
             [] r.kind = "refused"   -> [c EXCEPT !.state = "refused"]
             [] r.kind = "redirect"  -> ParseRedirect(c, r.data.file)
             [] r.kind = "block"     -> ParseBlock(c, r.number, r.data)

\* The commands leave with the client's next packets.
Update(c) ==
    /\ client' = [c EXCEPT !.commands = <<>>]
    /\ toServer' = toServer \o c.commands

-----------------------------------------------------------------------------
\* A client that just connected, without some of the paks, and a client_t of
\* zeros.
DownloadInit ==
    /\ session \in Sessions
    /\ download = [name |-> None, open |-> FALSE, transmit |-> 0,
                   acknowledged |-> 0, buffered |-> 0, read |-> 0, eof |-> FALSE,
                   slots |-> [s \in Slots |-> Eof],
                   redirectActive |-> FALSE, redirectAcknowledged |-> FALSE,
                   redirectFailed |-> FALSE]
    /\ present = TRUE
    /\ LET c == InitDownloads(
                  [state |-> "connected", list |-> <<>>, name |-> None,
                   temp |-> None, original |-> None, block |-> 0,
                   open |-> FALSE, copy |-> <<>>, restart |-> FALSE,
                   wwwActive |-> FALSE, wwwAborting |-> FALSE,
                   transfer |-> None, disk |-> [f \in File |-> <<>>],
                   loaded |-> File \ session.lacks, commands |-> <<>>])
       IN  client = [c EXCEPT !.commands = <<>>] /\ toServer = c.commands
    /\ toClient = <<>>

-----------------------------------------------------------------------------
(* The server sends *)

\* The records of one message.
Post(records) ==
    /\ Len(toClient) < InFlight
    /\ toClient' = toClient \o records

RedirectRecord(f) ==
    [kind |-> "redirect", number |-> -1, data |-> [file |-> f, number |-> 0]]
BlockRecord(n, data) == [kind |-> "block", number |-> AsShort(n), data |-> data]
Refusal == [kind |-> "refused", number |-> 0, data |-> Eof]
GameState == [kind |-> "gamestate", number |-> 0, data |-> Eof]

Smaller(a, b) == IF a < b THEN a ELSE b

OpenFileMutant(d) ==
    IF d.open
      THEN d
      ELSE [d EXCEPT !.redirectActive = FALSE, !.open = TRUE, !.transmit = 0,
                     !.buffered = 0, !.read = 0, !.eof = FALSE]

\* FS_SV_FOpenFileRead and the counters of a new file.
OpenFile(d) ==
    IF d.open
      THEN d
      ELSE [d EXCEPT !.redirectActive = FALSE, !.open = TRUE, !.transmit = 0,
                     !.acknowledged = 0, !.buffered = 0, !.read = 0,
                     !.eof = FALSE]

FillMutant(d) ==
    LET count == Blocks[d.name] - d.read
        read  == d.read + count
    IN  [d EXCEPT !.read = read, !.buffered = d.buffered + count + 1, !.eof = TRUE,
                  !.slots = [s \in Slots |->
                     IF \E n \in d.buffered .. d.buffered + count : n % Window = s
                       THEN LET n == CHOOSE n \in d.buffered .. d.buffered + count :
                                        n % Window = s
                            IN  IF n < Blocks[d.name]
                                  THEN [file |-> d.name, number |-> n] ELSE Eof
                       ELSE d.slots[s]]]

\* Blocks are read while the window has room, then the empty block follows.
Fill(d) ==
    LET room     == Window - (d.buffered - d.acknowledged)
        count    == Smaller(room, Blocks[d.name] - d.read)
        read     == d.read + count
        ends     == read = Blocks[d.name] /\ ~d.eof /\ count < room
        buffered == d.buffered + count + (IF ends THEN 1 ELSE 0)
    IN  [d EXCEPT
          !.read = read, !.buffered = buffered, !.eof = @ \/ ends,
          !.slots = [s \in Slots |->
             IF \E n \in d.buffered .. buffered - 1 : n % Window = s
               THEN LET n == CHOOSE n \in d.buffered .. buffered - 1 :
                                n % Window = s
                    IN  IF n < read THEN [file |-> d.name, number |-> n] ELSE Eof
               ELSE d.slots[s]]]

\* The blocks that go into one message, from block number "first" on.
Records(d, first) ==
    [i \in 1 .. Smaller(Budget, d.buffered - first) |->
        BlockRecord(first + i - 1, d.slots[(first + i - 1) % Window])]

StalledMutant == FALSE

\* More than a second without activity.  A prompt network delivers whatever
\* is under way in that time.
Stalled == Prompt => toClient = <<>> /\ toServer = <<>>

\* SV_WriteDownloadToClient: a file the server does not give away.
Refuse ==
    /\ ~download.open /\ download.name \notin Offered
    /\ download' = [download EXCEPT !.name = None]
    /\ Post(<<Refusal>>)

RedirectMutant ==
    /\ ~download.open /\ download.name \in Offered
    /\ session.redirects /\ Follows /\ ~download.redirectFailed
    /\ UNCHANGED download
    /\ Post(<<RedirectRecord(download.name)>>)

\* ... a redirect, repeated until it is acknowledged,
Redirect ==
    /\ ~download.open /\ download.name \in Offered
    /\ session.redirects /\ Follows /\ ~download.redirectFailed
    /\ download' = [download EXCEPT !.redirectActive = TRUE]
    /\ Post(<<RedirectRecord(download.name)>>)

\* ... a redirect that failed, forgotten without falling back,
ForgetFailure ==
    /\ ~download.open /\ download.name \in Offered
    /\ session.redirects /\ Follows /\ download.redirectFailed
    /\ download' = [download EXCEPT !.redirectFailed = FALSE]
    /\ UNCHANGED toClient

\* ... or the blocks that are due.
WriteBlocks ==
    LET d     == Fill(OpenFile(download))
        stall == d.transmit = d.buffered
        first == IF stall THEN d.acknowledged ELSE d.transmit
    IN  /\ download.open \/ (download.name \in Offered /\ ~session.redirects)
        /\ d.acknowledged # d.buffered
        /\ stall => Stalled
        /\ download' = [d EXCEPT !.transmit = first + Len(Records(d, first))]
        /\ Post(Records(d, first))

\* A snapshot, as far as it concerns the download.
WriteDownloadToClient ==
    /\ present
    /\ download.name # None /\ ~download.redirectAcknowledged
    /\ Len(toServer) < MaxCommands
    /\ Refuse \/ Redirect \/ ForgetFailure \/ WriteBlocks
    /\ UNCHANGED <<present, toServer, client, session>>

-----------------------------------------------------------------------------
(* The server executes the client's commands *)

\* SV_CloseDownload.  The counters keep their values.
CloseDownload(d) == [d EXCEPT !.open = FALSE, !.name = None]

\* SV_BeginDownload_f
BeginDownload_f(f) ==
    /\ download' = [CloseDownload(download) EXCEPT !.name = f]
    /\ UNCHANGED <<present, toClient>>

\* SV_NextDownload_f
NextDownload_f(n) ==
    /\ IF n # download.acknowledged
         THEN present' = FALSE /\ download' = CloseDownload(download)
         ELSE /\ download' =
                   IF download.slots[n % Window] = Eof
                     THEN CloseDownload(download)
                     ELSE [download EXCEPT !.acknowledged = @ + 1]
              /\ UNCHANGED present
    /\ UNCHANGED toClient

\* SV_RetransmitDownload_f
RetransmitDownload_f(n) ==
    /\ download' = [download EXCEPT
                      !.transmit = IF n = download.acknowledged THEN n ELSE @]
    /\ UNCHANGED <<present, toClient>>

\* SV_StopDownload_f
StopDownload_f ==
    /\ download' = CloseDownload(download)
    /\ UNCHANGED <<present, toClient>>

\* SV_DoneDownload_f
DoneDownload_f ==
    /\ Post(<<GameState>>)
    /\ UNCHANGED <<download, present>>

EndRedirectMutant(failed) ==
    /\ download' = [download EXCEPT !.open = FALSE, !.name = None,
                                    !.redirectFailed = @ \/ failed]
    /\ IF failed THEN Post(<<GameState>>) ELSE UNCHANGED toClient
    /\ UNCHANGED present

EndRedirectKeepsMutant(failed) ==
    /\ download' = [download EXCEPT !.redirectAcknowledged = FALSE,
                                    !.redirectFailed = @ \/ failed]
    /\ IF failed THEN Post(<<GameState>>) ELSE UNCHANGED toClient
    /\ UNCHANGED present

\* SV_WWWDownload_f: the answer that ends a redirect.
EndRedirect(failed) ==
    IF download.redirectActive /\ download.redirectAcknowledged
      THEN /\ download' = [download EXCEPT
                             !.open = FALSE, !.name = None,
                             !.redirectAcknowledged = FALSE,
                             !.redirectFailed = @ \/ failed]
           /\ IF failed THEN Post(<<GameState>>) ELSE UNCHANGED toClient
           /\ UNCHANGED present
      ELSE /\ present' = FALSE
           /\ download' = CloseDownload(download)
           /\ UNCHANGED toClient

\* SV_WWWDownload_f: "ack".
AcknowledgeRedirect ==
    /\ download' = IF download.redirectActive
                     THEN [download EXCEPT !.redirectAcknowledged = TRUE]
                     ELSE CloseDownload(download)
    /\ present' = download.redirectActive
    /\ UNCHANGED toClient

\* SV_ClientCommand: the oldest command that is not executed yet.
ExecuteClientCommand ==
    /\ present /\ toServer # <<>>
    /\ LET m == Head(toServer) IN
          \/ m.command = "download"   /\ BeginDownload_f(m.file)
          \/ m.command = "nextdl"     /\ NextDownload_f(m.block)
          \/ m.command = "retransdl"  /\ RetransmitDownload_f(m.block)
          \/ m.command = "stopdl"     /\ StopDownload_f
          \/ m.command = "donedl"     /\ DoneDownload_f
          \/ m.command = "wwwdl_ack"  /\ AcknowledgeRedirect
          \/ m.command = "wwwdl_done" /\ EndRedirect(FALSE)
          \/ m.command = "wwwdl_fail" /\ EndRedirect(TRUE)
    /\ toServer' = Tail(toServer)
    /\ UNCHANGED <<client, session>>

-----------------------------------------------------------------------------
(* The client *)

\* CL_ParseServerMessage, up to the next record; those before it were lost.
ReceiveFromServer(i) ==
    /\ i = 1 \/ Lossy
    /\ Update(Parse(client, toClient[i]))
    /\ toClient' = SubSeq(toClient, i + 1, Len(toClient))
    /\ UNCHANGED <<download, present, session>>

Lose ==
    /\ Lossy /\ toClient # <<>>
    /\ toClient' = Tail(toClient)
    /\ UNCHANGED <<download, present, toServer, client, session>>

\* CL_WWWDownload runs each frame; a transfer outlasts what is under way.
Downloading ==
    /\ client.state = "connected" /\ client.wwwActive /\ ~client.wwwAborting
    /\ Prompt => toClient = <<>> /\ toServer = <<>>
    /\ UNCHANGED <<download, present, toClient, session>>

\* CL_WWWDownload, DL_DOWNLOAD_SUCCESS.  Without a transfer DL_DownloadLoop
\* reports success as well.
TransferEnds ==
    /\ Downloading
    /\ client.original # None
    /\ LET saved == IF client.transfer = None
                      THEN client
                      ELSE [client EXCEPT
                              !.disk[client.original] = WholePak(client.transfer)]
       IN  Update(NextDownload(
             [Say(saved, Command("wwwdl_done")) EXCEPT
                !.transfer = None, !.name = None, !.temp = None,
                !.wwwActive = FALSE]))

\* CL_WWWDownload, DL_DOWNLOAD_FAILURE.
TransferFails ==
    /\ Downloading
    /\ client.transfer # None
    /\ Update(RefuseRedirect([client EXCEPT !.transfer = None]))

-----------------------------------------------------------------------------
DownloadNext ==
    \/ WriteDownloadToClient
    \/ ExecuteClientCommand
    \/ \E i \in DOMAIN toClient : ReceiveFromServer(i)
    \/ Lose
    \/ TransferEnds
    \/ TransferFails

DownloadSpec == DownloadInit /\ [][DownloadNext]_downloadVars

\* The client executes frames and the server sends snapshots again and again;
\* a record that is sent again and again arrives in the end; the transfer of a
\* pak that is tried again and again succeeds in the end.
Brings(i, f, n) == toClient[i].data = [file |-> f, number |-> n]
Repeated == UNION {s.lacks : s \in {t \in Sessions : t.lossy}}
Redirected == UNION {s.lacks : s \in {t \in Sessions : t.redirects}}
Fairness ==
    /\ WF_downloadVars(WriteDownloadToClient)
    /\ WF_downloadVars(ExecuteClientCommand)
    /\ WF_downloadVars(\E i \in DOMAIN toClient : ReceiveFromServer(i))
    /\ \A f \in Repeated : \A n \in 0 .. Blocks[f] :
          SF_downloadVars(\E i \in DOMAIN toClient : Brings(i, f, n) /\ ReceiveFromServer(i))
    /\ SF_downloadVars(\E i \in DOMAIN toClient : Brings(i, None, 0) /\ ReceiveFromServer(i))
    /\ \A f \in Redirected : SF_downloadVars(TransferEnds /\ client.transfer = f)

FairSpec == DownloadSpec /\ Fairness

-----------------------------------------------------------------------------
(* Properties *)

DownloadTypeOK ==
    /\ download \in ServerRecord
    /\ present \in BOOLEAN
    /\ client.state \in {"connected", "loading", "refused"}
    /\ {client.name, client.temp, client.original, client.transfer}
          \subseteq File \cup {None}
    /\ client.loaded \subseteq File
    /\ download.acknowledged <= download.buffered
    /\ download.buffered <= download.acknowledged + Window

\* The slots of SV_WriteDownloadToClient: whatever has not been acknowledged
\* is still there under its number.
WindowHeld ==
    download.open =>
      \A n \in download.acknowledged .. download.buffered - 1 :
         download.slots[n % Window] =
            IF n < Blocks[download.name]
              THEN [file |-> download.name, number |-> n] ELSE Eof

\* SV_NextDownload_f and SV_WWWDownload_f drop a client whose answers do not
\* fit; a client that follows the protocol is never dropped.
NeverBroken == present

\* CL_ParseDownload: "all other values belong to the ordered in-band block
\* stream": what is saved under a pak's name is that pak.
SavedWhole == \A f \in File : client.disk[f] \in {<<>>, WholePak(f)}

Copied == INSTANCE FileCopy WITH
    File <- File, Blocks <- Blocks, None <- None,
    file <- client.temp, copy <- client.copy, disk <- client.disk

ImplementsFileCopy == Copied!Spec

\* CL_InitDownloads asks for the paks in turn (download_protocol.c): each one
\* before the first the server refuses is on the disk in the end, but for those
\* that cannot be written in band; if these are all, the client has loaded them.
Asked == SetToSeq(session.lacks)
BeforeRefusal ==
    {Asked[i] : i \in {j \in DOMAIN Asked : \A k \in 1 .. j : Asked[k] \in Offered}}
Fetchable == IF session.redirects THEN BeforeRefusal ELSE BeforeRefusal \cap Writable
EventuallyCopied ==
    <>[](/\ \A f \in Fetchable : client.disk[f] = WholePak(f)
         /\ Fetchable = session.lacks => client.loaded = File)

\* SV_ExecuteClientMessage, "dropped gamestate, resending": a client that
\* reported the end of its downloads gets into the game.
EventuallyLoading == client.loaded = File ~> client.state = "loading"

\* SV_WriteDownloadToClient, SV_NextDownload_f and SV_WWWDownload_f: the
\* server holds what the client still needs and takes every answer of it.
ServerHolds == DownloadTypeOK /\ WindowHeld /\ NeverBroken
=============================================================================
