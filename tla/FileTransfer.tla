----------------------------- MODULE FileTransfer -----------------------------
(***************************************************************************)
(* File transfer on one node, end to end: the agent's fileManager with its *)
(* download goroutines (src/agent/internal/terminal/file.go), the relay by *)
(* session id (FileHub) and the browser's FileTransferModal.  The control  *)
(* channel is FIFO in both directions and may be lost with what is on it;  *)
(* the relay's own races are the subject of SessionHub.                    *)
(*                                                                         *)
(* Each tab opens one session and does at most one download and one upload *)
(* in it; one of the tabs also does up to MaxRequests directory requests.  *)
(***************************************************************************)
EXTENDS Naturals, SequencesExt

CONSTANTS
    Tabs,        \* tabs, each with one session; the tab names the session
    Files,       \* remote files that can be downloaded
    Paths,       \* paths on the node a file can be uploaded to
    Chunks,      \* chunks of every file, remote or uploaded
    MaxRequests, \* list, mkdir, delete and rename requests, all from one tab
    MaxDrops,    \* losses of the control channel
    None         \* "" in Go, None in Python, null in TypeScript

ASSUME TransferAssumption ==
    /\ Chunks \in Nat \ {0} /\ MaxRequests \in Nat /\ MaxDrops \in Nat
    /\ None \notin Tabs /\ None \notin Files /\ None \notin Paths

VARIABLES
    slot,   \* AgentLink.file_session_id with file_browser
    down,   \* frames from the server to the agent
    up,     \* frames from the agent to the server
    tab,    \* FileTransferModal of each tab
    mgr,    \* fileManager of the current connection
    stream, \* streamDownload goroutine started for each tab
    disk,   \* the file at each path: its chunks, and whether its upload has ended
    late,   \* history: frames a stream sent after it was superseded
    drops

vars == <<slot, down, up, tab, mgr, stream, disk, late, drops>>
-----------------------------------------------------------------------------
SessionId == Tabs \union {None}
Piece == [file : Files, pos : 1..Chunks]

Frame == [type : {"start", "stop", "download", "upload_start", "upload_chunk",
                  "upload_end", "list", "op"},
          session : SessionId, file : Files \union {None}]
Report == [type : {"ready", "chunk", "download_done", "upload_done", "error",
                   "listing", "op_ok"},
           session : SessionId, piece : Piece \union {None}]

TypeOK ==
    /\ slot \in SessionId
    /\ down \in Seq(Frame) /\ up \in Seq(Report)
    /\ tab \in [Tabs -> [state : {"new", "connecting", "active", "closed"},
                         transfer : {"none", "download", "upload"},
                         want : Files \union {None}, got : Seq(Piece),
                         sent : 0..(Chunks + 1), downloaded : BOOLEAN, uploaded : BOOLEAN,
                         requests : 0..MaxRequests,
                         saved : SUBSET [file : Files, content : Seq(Piece)]]]
    /\ mgr \in [session : SessionId, upload : Paths \union {None}, at : Paths \union {None},
                received : 0..Chunks, generation : Nat]
    /\ stream \in [Tabs -> [at : {"off", "open", "check", "send", "final", "done"},
                            file : Files \union {None}, gen : Nat, pos : 0..Chunks]]
    /\ disk \in [Paths -> [chunks : 0..Chunks,
                           state : {"absent", "partial", "orphan", "finished"}]]
    /\ late \in [Tabs -> Nat]
    /\ drops \in 0..MaxDrops

\* "upload" is the path of the open uploadFile (None: no upload is under way), "at"
\* the path that file has on disk now: a request may move it, replace it or remove it.
NewManager == [session |-> None, upload |-> None, at |-> None, received |-> 0, generation |-> 0]

Removed == [chunks |-> 0, state |-> "absent"]

Init ==
    /\ slot = None /\ down = <<>> /\ up = <<>> /\ drops = 0
    /\ tab = [s \in Tabs |->
                [state |-> "new", transfer |-> "none", want |-> None, got |-> <<>>, sent |-> 0,
                 downloaded |-> FALSE, uploaded |-> FALSE, requests |-> 0, saved |-> {}]]
    /\ mgr = NewManager
    /\ stream = [s \in Tabs |-> [at |-> "off", file |-> None, gen |-> 0, pos |-> 0]]
    /\ disk = [p \in Paths |-> Removed]
    /\ late = [s \in Tabs |-> 0]

FrameOf(type, s, file) == [type |-> type, session |-> s, file |-> file]
-----------------------------------------------------------------------------
\* The browser tab

\* The modal's state goes with it; nothing reads that of a modal that lost its socket.
Closed(t) == [t EXCEPT !.state = "closed", !.transfer = "none", !.want = None, !.got = <<>>]

\* start_session: the preempted tab is closed, its session stopped on the agent.
Open(s) ==
    /\ tab[s].state = "new"
    /\ slot' = s
    /\ down' = down \o (IF slot = None THEN <<>> ELSE <<FrameOf("stop", slot, None)>>)
                    \o <<FrameOf("start", s, None)>>
    /\ tab' = [r \in Tabs |-> IF r = s THEN [tab[r] EXCEPT !.state = "connecting"]
                              ELSE IF r = slot THEN Closed(tab[r])
                              ELSE tab[r]]
    /\ UNCHANGED <<up, mgr, stream, disk, late, drops>>

\* The modal is closed; its handler's finally stops the session.
Close(s) ==
    /\ slot = s
    /\ slot' = None
    /\ down' = Append(down, FrameOf("stop", s, None))
    /\ tab' = [tab EXCEPT ![s] = Closed(@)]
    /\ UNCHANGED <<up, mgr, stream, disk, late, drops>>

Idle(s) == tab[s].state = "active" /\ slot = s /\ tab[s].transfer = "none"

\* downloadFile
StartDownload(s, f) ==
    /\ Idle(s)
    /\ ~tab[s].downloaded
    /\ tab' = [tab EXCEPT ![s].transfer = "download", ![s].want = f, ![s].got = <<>>,
                          ![s].downloaded = TRUE]
    /\ down' = Append(down, FrameOf("download", s, f))
    /\ UNCHANGED <<slot, up, mgr, stream, disk, late, drops>>

\* uploadFile announces the file, sends it chunk by chunk, then ends the upload.  A tab
\* uploads once, a bound: a download_done stamped with its session would let it start
\* another beside the first.
StartUpload(s) ==
    /\ Idle(s)
    /\ ~tab[s].uploaded
    /\ tab' = [tab EXCEPT ![s].transfer = "upload", ![s].sent = 0, ![s].uploaded = TRUE]
    /\ down' = Append(down, FrameOf("upload_start", s, None))
    /\ UNCHANGED <<slot, up, mgr, stream, disk, late, drops>>

\* The loop of uploadFile looks at the socket only, not at the modal's transfer.
SendChunk(s) ==
    /\ slot = s /\ tab[s].uploaded /\ tab[s].sent <= Chunks
    /\ tab' = [tab EXCEPT ![s].sent = @ + 1]
    /\ down' = Append(down,
            FrameOf(IF tab[s].sent < Chunks THEN "upload_chunk" ELSE "upload_end", s, None))
    /\ UNCHANGED <<slot, up, mgr, stream, disk, late, drops>>

\* openDir, refresh ("list"), makeFolder, deleteEntry, renameEntry ("op")
Request(s, type) ==
    /\ Idle(s)
    /\ tab[s].requests < MaxRequests /\ \A r \in Tabs \ {s} : tab[r].requests = 0
    /\ tab' = [tab EXCEPT ![s].requests = @ + 1]
    /\ down' = Append(down, FrameOf(type, s, None))
    /\ UNCHANGED <<slot, up, mgr, stream, disk, late, drops>>

\* What ws.onmessage does with a frame, and whether it asks for a new listing.
Shown(t, m) ==
    CASE m.type = "ready" -> [t EXCEPT !.state = "active"]
      [] m.type = "chunk" -> IF t.want = None THEN t ELSE [t EXCEPT !.got = Append(@, m.piece)]
      [] m.type = "download_done" ->
            [t EXCEPT !.transfer = "none", !.want = None, !.got = <<>>,
                !.saved = IF t.want = None THEN @
                          ELSE @ \union {[file |-> t.want, content |-> t.got]}]
      [] m.type = "upload_done" -> [t EXCEPT !.transfer = "none"]
      [] OTHER -> t

Relists(m) == m.type \in {"ready", "upload_done", "op_ok"}

\* FileHub relays a frame to the tab of the current session, drops any other.
Current(m) == slot # None /\ m.session = slot

Relay ==
    /\ up # <<>>
    /\ up' = Tail(up)
    /\ IF Current(up[1])
       THEN /\ tab' = [tab EXCEPT ![slot] = Shown(@, up[1])]
            /\ down' = IF Relists(up[1]) THEN Append(down, FrameOf("list", slot, None)) ELSE down
       ELSE UNCHANGED <<tab, down>>
    /\ UNCHANGED <<slot, mgr, stream, disk, late, drops>>
-----------------------------------------------------------------------------
\* The agent's read loop: fileManager.handle, one frame at a time

\* fileManager.send stamps the frame with the session that is current now.
Stamped(type, piece) == [type |-> type, session |-> mgr.session, piece |-> piece]
Send(type, piece) == up' = Append(up, Stamped(type, piece))

Arrives(type) == down # <<>> /\ down[1].type = type
Mine == down[1].session = mgr.session
Took == down' = Tail(down)

\* The bug closes the partial upload without removing it.
DiscardedKept == disk

\* The partial upload is closed, and what its path names now is removed.
Discarded == IF mgr.upload = None THEN disk ELSE [disk EXCEPT ![mgr.upload] = Removed]

Reset(s) == [session |-> s, upload |-> None, at |-> None, received |-> 0,
             generation |-> mgr.generation + 1]

FileStart ==
    /\ Arrives("start")
    /\ Took
    /\ disk' = Discarded
    /\ mgr' = Reset(down[1].session)
    /\ up' = Append(up, [type |-> "ready", session |-> down[1].session, piece |-> None])
    /\ UNCHANGED <<slot, tab, stream, late, drops>>

FileStop ==
    /\ Arrives("stop") /\ Mine
    /\ Took
    /\ disk' = Discarded
    /\ mgr' = Reset(None)
    /\ UNCHANGED <<slot, up, tab, stream, late, drops>>

\* A listing, a new folder, or a request that fails before it changes a file.  The
\* requests run in the read loop and answer at once.
FileRequest(ok) ==
    /\ Arrives("list") \/ Arrives("op")
    /\ Mine
    /\ Took
    /\ Send(IF ~ok THEN "error" ELSE IF down[1].type = "list" THEN "listing" ELSE "op_ok", None)
    /\ UNCHANGED <<slot, tab, mgr, stream, disk, late, drops>>

\* os.RemoveAll: the files below the path, or those it reached before it failed.
\* (So does the rename of a folder to somewhere that is none of Paths.)
FileDelete(ok, gone) ==
    /\ Arrives("op") /\ Mine
    /\ Took
    /\ disk' = [p \in Paths |-> IF p \in gone THEN Removed ELSE disk[p]]
    /\ mgr' = [mgr EXCEPT !.at = IF @ \in gone THEN None ELSE @]
    /\ Send(IF ok THEN "op_ok" ELSE "error", None)
    /\ UNCHANGED <<slot, tab, stream, late, drops>>

\* os.Rename replaces what is at q.  An open file keeps being written where it is.
FileRename(p, q) ==
    /\ Arrives("op") /\ Mine
    /\ p # q /\ disk[p].state # "absent"
    /\ Took
    /\ disk' = [disk EXCEPT ![p] = Removed,
                   ![q] = IF disk[p].state = "partial" THEN [disk[p] EXCEPT !.state = "orphan"]
                          ELSE disk[p]]
    /\ mgr' = [mgr EXCEPT !.at = IF @ = p THEN q ELSE IF @ = q THEN None ELSE @]
    /\ Send("op_ok", None)
    /\ UNCHANGED <<slot, tab, stream, late, drops>>

FileDownload ==
    /\ Arrives("download") /\ Mine
    /\ Took
    /\ stream' = [stream EXCEPT ![down[1].session] =
            [at |-> "open", file |-> down[1].file, gen |-> mgr.generation, pos |-> 0]]
    /\ UNCHANGED <<slot, up, tab, mgr, disk, late, drops>>

\* os.Create truncates whatever the path names, a finished upload too.
UploadStart(p) ==
    /\ Arrives("upload_start") /\ Mine
    /\ Took
    /\ mgr' = [mgr EXCEPT !.upload = p, !.at = p, !.received = 0]
    /\ disk' = [Discarded EXCEPT ![p] = [chunks |-> 0, state |-> "partial"]]
    /\ UNCHANGED <<slot, up, tab, stream, late, drops>>

\* The announced size is over the limit, or os.Create fails.  No upload is under
\* way: a tab uploads once, and the session of the tab before was reset.
UploadStartFails ==
    /\ Arrives("upload_start") /\ Mine
    /\ mgr.upload = None
    /\ Took
    /\ Send("error", None)
    /\ UNCHANGED <<slot, tab, mgr, stream, disk, late, drops>>

\* The write goes to the open file, at the path a request may have left it at, if any.
UploadChunk ==
    /\ Arrives("upload_chunk") /\ Mine /\ mgr.upload # None
    /\ Took
    /\ mgr' = [mgr EXCEPT !.received = @ + 1]
    /\ disk' = IF mgr.at = None THEN disk ELSE [disk EXCEPT ![mgr.at].chunks = @ + 1]
    /\ UNCHANGED <<slot, up, tab, stream, late, drops>>

\* The bug goes on with the removed upload after a failed write.
UploadChunkFailsOn ==
    /\ Arrives("upload_chunk") /\ Mine /\ mgr.upload # None
    /\ Took
    /\ mgr' = [mgr EXCEPT !.received = @ + 1]
    /\ disk' = Discarded
    /\ Send("error", None)
    /\ UNCHANGED <<slot, tab, stream, late, drops>>

\* The write fails: the upload is over, the rest of its frames will be ignored.
UploadChunkFails ==
    /\ Arrives("upload_chunk") /\ Mine /\ mgr.upload # None
    /\ Took
    /\ mgr' = [mgr EXCEPT !.received = @ + 1, !.upload = None, !.at = None]
    /\ disk' = Discarded
    /\ Send("error", None)
    /\ UNCHANGED <<slot, tab, stream, late, drops>>

\* The bug forgets to clear m.uploadFile.
AfterEndKept == mgr

AfterEnd == [mgr EXCEPT !.upload = None, !.at = None]

UploadEnd ==
    /\ Arrives("upload_end") /\ Mine /\ mgr.upload # None
    /\ Took
    /\ mgr' = AfterEnd
    /\ disk' = IF mgr.at = None THEN disk ELSE [disk EXCEPT ![mgr.at].state = "finished"]
    /\ Send("upload_done", None)
    /\ UNCHANGED <<slot, tab, stream, late, drops>>

\* A frame of another session, or of an upload that has ended, is ignored.
Ignored ==
    /\ down # <<>>
    /\ down[1].type # "start"
    /\ ~Mine \/ (down[1].type \in {"upload_chunk", "upload_end"} /\ mgr.upload = None)
    /\ Took
    /\ UNCHANGED <<slot, up, tab, mgr, stream, disk, late, drops>>
-----------------------------------------------------------------------------
\* streamDownload, a goroutine beside the read loop

Superseded(s) == mgr.generation # stream[s].gen

\* A frame of a superseded stream is counted.
StreamSend(s, type, piece) ==
    /\ Send(type, piece)
    /\ late' = IF Superseded(s) THEN [late EXCEPT ![s] = @ + 1] ELSE late

Off == [at |-> "off", file |-> None, gen |-> 0, pos |-> 0]

StreamOpens(s) ==
    /\ stream[s].at = "open"
    /\ stream' = [stream EXCEPT ![s].at = "check"]
    /\ UNCHANGED <<slot, down, up, tab, mgr, disk, late, drops>>

\* Open, Stat or a read fails, or the file is too large.
StreamFails(s) ==
    /\ stream[s].at \in {"open", "send"}
    /\ stream' = [stream EXCEPT ![s] = Off]
    /\ StreamSend(s, "error", None)
    /\ UNCHANGED <<slot, down, tab, mgr, disk, drops>>

\* The bug does not look at the generation before it sends.
StreamUnchecked(s) ==
    /\ stream[s].at = "check"
    /\ stream' = [stream EXCEPT ![s].at = "send"]
    /\ UNCHANGED <<slot, down, up, tab, mgr, disk, late, drops>>

StreamChecks(s) ==
    /\ stream[s].at = "check"
    /\ stream' = [stream EXCEPT ![s] = IF Superseded(s) THEN Off ELSE [@ EXCEPT !.at = "send"]]
    /\ UNCHANGED <<slot, down, up, tab, mgr, disk, late, drops>>

\* The bug reads once more past the end.
StreamSendsMore(s) ==
    /\ stream[s].at = "send" /\ stream[s].pos <= Chunks
    /\ stream' = [stream EXCEPT ![s].at = "check", ![s].pos = @ + 1]
    /\ StreamSend(s, "chunk", [file |-> stream[s].file, pos |-> stream[s].pos + 1])
    /\ UNCHANGED <<slot, down, tab, mgr, disk, drops>>

StreamSends(s) ==
    /\ stream[s].at = "send" /\ stream[s].pos < Chunks
    /\ stream' = [stream EXCEPT ![s].at = "check", ![s].pos = @ + 1]
    /\ StreamSend(s, "chunk", [file |-> stream[s].file, pos |-> stream[s].pos + 1])
    /\ UNCHANGED <<slot, down, tab, mgr, disk, drops>>

\* The bug takes a short read for the end of the file.
StreamEndsShort(s) ==
    /\ stream[s].at = "send" /\ stream[s].pos > 0
    /\ stream' = [stream EXCEPT ![s].at = "final"]
    /\ UNCHANGED <<slot, down, up, tab, mgr, disk, late, drops>>

StreamEnds(s) ==
    /\ stream[s].at = "send" /\ stream[s].pos = Chunks
    /\ stream' = [stream EXCEPT ![s].at = "final"]
    /\ UNCHANGED <<slot, down, up, tab, mgr, disk, late, drops>>

StreamFinalCheck(s) ==
    /\ stream[s].at = "final"
    /\ stream' = [stream EXCEPT ![s] = IF Superseded(s) THEN Off ELSE [@ EXCEPT !.at = "done"]]
    /\ UNCHANGED <<slot, down, up, tab, mgr, disk, late, drops>>

StreamDone(s) ==
    /\ stream[s].at = "done"
    /\ stream' = [stream EXCEPT ![s] = Off]
    /\ StreamSend(s, "download_done", None)
    /\ UNCHANGED <<slot, down, tab, mgr, disk, drops>>
-----------------------------------------------------------------------------
\* The channel is lost.  The server closes the tab, runOnce returns and drops the
\* fileManager as it is, its partial upload stays on disk; what old goroutines still
\* send goes nowhere.  The agent reconnects with a fileManager of its own.
ChannelLost ==
    /\ drops < MaxDrops
    /\ drops' = drops + 1
    /\ slot' = None /\ down' = <<>> /\ up' = <<>>
    /\ tab' = [s \in Tabs |-> IF s = slot THEN Closed(tab[s]) ELSE tab[s]]
    /\ mgr' = NewManager
    /\ stream' = [s \in Tabs |-> Off]
    /\ disk' = [p \in Paths |-> IF disk[p].state = "partial"
                               THEN [disk[p] EXCEPT !.state = "orphan"] ELSE disk[p]]
    /\ UNCHANGED late

BrowserStep(s) ==
    \/ Open(s) \/ Close(s) \/ StartUpload(s) \/ SendChunk(s)
    \/ \E f \in Files : StartDownload(s, f)
    \/ \E type \in {"list", "op"} : Request(s, type)

DirectoryStep ==
    \/ \E ok \in BOOLEAN : FileRequest(ok) \/ \E gone \in SUBSET Paths : FileDelete(ok, gone)
    \/ \E p, q \in Paths : FileRename(p, q)

ReadLoopStep ==
    \/ FileStart \/ FileStop \/ FileDownload \/ DirectoryStep
    \/ \E p \in Paths : UploadStart(p)
    \/ UploadStartFails \/ UploadChunk \/ UploadChunkFails \/ UploadEnd
    \/ Ignored

StreamStep(s) ==
    \/ StreamOpens(s) \/ StreamFails(s) \/ StreamChecks(s) \/ StreamSends(s)
    \/ StreamEnds(s) \/ StreamFinalCheck(s) \/ StreamDone(s)

Next ==
    \/ \E s \in Tabs : BrowserStep(s) \/ StreamStep(s)
    \/ ReadLoopStep \/ Relay \/ ChannelLost

Spec == Init /\ [][Next]_vars
-----------------------------------------------------------------------------
\* Properties

\* "upload_done" is only said of a file that holds every chunk it was announced with.
UploadDoneIsComplete == \A p \in Paths : disk[p].state = "finished" => disk[p].chunks = Chunks

\* A finished upload is replaced, moved or removed only by a frame of the session that
\* is current: another upload to its path, or a request that names it.  What ends an
\* upload - its last frame, a failed write, a stop, another tab's start - never takes a
\* finished file with it, except one a rename put in the place of the upload's own.
FinishedUploadStays ==
    [][\A p \in Paths :
          disk[p].state = "finished" /\ disk'[p] # disk[p] =>
             \/ Arrives("upload_start") /\ Mine /\ Took /\ mgr'.upload = p
             \/ Arrives("op") /\ Mine /\ Took
             \/ mgr.upload = p /\ mgr.at # p]_vars

\* A superseded download puts at most one more frame on the wire.
OneLateFrame == \A s \in Tabs : late[s] <= 1

\* A file on disk that is not finished is the one being uploaded now: closing,
\* preemption and failing writes remove the partial file.  (An orphan is the partial file
\* a lost channel leaves, runOnce defers nothing for the fileManager, or a renamed one.)
NoTruncatedFile ==
    \A p \in Paths : disk[p].state = "partial" => mgr.upload = p /\ mgr.at = p

\* An upload ends whole and stays until somebody names it, or is gone, or is under way.
UploadsAreWhole == [](UploadDoneIsComplete /\ NoTruncatedFile) /\ FinishedUploadStays

\* The file the browser saves is the file it asked for.
Whole(f) == [i \in 1..Chunks |-> [file |-> f, pos |-> i]]
SavedIsIntact == \A s \in Tabs : \A d \in tab[s].saved : d.content = Whole(d.file)

\* ... as long as no second tab has been opened: a late frame of a download is
\* stamped with the session of the tab that preempted it.
AloneIsIntact ==
    (\E s \in Tabs : \A r \in Tabs \ {s} : tab[r].state = "new") => SavedIsIntact

\* All that a superseded download can do to others is one frame in a second tab's file.
DownloadsStayApart == OneLateFrame /\ AloneIsIntact
=============================================================================
