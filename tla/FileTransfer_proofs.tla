------------------------ MODULE FileTransfer_proofs -------------------------
(***************************************************************************)
(* Proofs about FileTransfer, for every number of tabs, files, chunks,     *)
(* requests and losses of the control channel: an upload that is called    *)
(* done is whole and stays until a request names it, and a tab that has    *)
(* the agent to itself saves what it asked for.                            *)
(*                                                                         *)
(* Three facts about the frames in flight carry them. The upload frames    *)
(* of a tab are numbered: they continue what the agent has written and     *)
(* end where the tab has sent up to. A tab asks for its download once, so  *)
(* one goroutine at most streams it; one that was superseded sends at      *)
(* most one more frame. And the chunks that an undisturbed tab still has   *)
(* to get continue what it has got, up to where its stream is.             *)
(***************************************************************************)
EXTENDS FileTransfer, SequenceTheorems, TLAPS

\* What is sent names a session, a download its file and a chunk its piece.
GoodFrame == {x \in Frame : x.session \in Tabs /\ (x.type = "download" => x.file \in Files)}
GoodReport == {x \in Report : x.type = "chunk" => x.piece \in Piece}

\* What the variables hold; an upload belongs to the current session.
TabSet ==
    [state : {"new", "connecting", "active", "closed"}, transfer : {"none", "download", "upload"},
     want : Files \union {None}, got : Seq(Piece), sent : 0..(Chunks + 1),
     downloaded : BOOLEAN, uploaded : BOOLEAN, requests : 0..MaxRequests,
     saved : SUBSET [file : Files, content : Seq(Piece)]]
ManagerSet ==
    {x \in [session : SessionId, upload : Paths \union {None}, at : Paths \union {None},
            received : 0..Chunks, generation : Nat] : x.upload # None => x.session # None}
StreamSet ==
    {x \in [at : {"off", "open", "check", "send", "final", "done"},
            file : Files \union {None}, gen : Nat, pos : 0..Chunks] : x.at # "off" => x.file \in Files}
DiskSet == [chunks : 0..Chunks, state : {"absent", "partial", "orphan", "finished"}]

\* TypeOK with what the types leave open.
TransferTyped ==
    /\ slot \in SessionId
    /\ down \in Seq(GoodFrame) /\ up \in Seq(GoodReport)
    /\ tab \in [Tabs -> TabSet] /\ mgr \in ManagerSet
    /\ stream \in [Tabs -> StreamSet] /\ disk \in [Paths -> DiskSet]
    /\ late \in [Tabs -> Nat] /\ drops \in 0..MaxDrops

\* Where the frames of tab s of some types are in a queue.
From(q, s, types) == {i \in DOMAIN q : q[i].session = s /\ q[i].type \in types}
Quiet(s, types) == From(down, s, types) = {}
Data == {"chunk", "download_done"}
Uploading == {"upload_start", "upload_chunk", "upload_end"}

\* A tab that was never opened has left no trace; each tab uploads and downloads once.
NewFits(s) ==
    tab[s].state = "new" =>
      /\ slot # s /\ mgr.session # s
      /\ ~tab[s].downloaded /\ ~tab[s].uploaded
      /\ tab[s].saved = {} /\ tab[s].want = None
      /\ \A i \in DOMAIN down : down[i].session # s
      /\ \A i \in DOMAIN up : up[i].session # s

\* The number of an upload frame: the announcement, the chunks, the end.
KindFits(type, v) ==
    type = IF v = 0 THEN "upload_start" ELSE IF v <= Chunks THEN "upload_chunk" ELSE "upload_end"

\* The upload frames of tab s that are on their way are numbered from the one the agent
\* needs next to the last one sent.
NumberedIn(q, n, s, from, last) ==
    /\ from <= last + 1
    /\ \A i \in From(q, s, Uploading) : n[i] \in from..last /\ KindFits(q[i].type, n[i])
    /\ \A i, k \in From(q, s, Uploading) : i < k => n[i] < n[k]
    /\ \A v \in from..last : \E i \in From(q, s, Uploading) : n[i] = v

Numbered(n, s, from) == NumberedIn(down, n, s, from, tab[s].sent)

\* The upload that is under way is tab s's.
Busy(s) == mgr.upload # None /\ mgr.session = s

Arriving(n, s) == Busy(s) /\ Numbered(n, s, mgr.received + 1)
Announced(n, s) == ~Busy(s) /\ Numbered(n, s, 0)
Over(s) == ~Busy(s) /\ Quiet(s, {"upload_start"})

UploadFits(n, s) ==
    /\ Arriving(n, s) \/ Announced(n, s) \/ Over(s)
    /\ ~tab[s].uploaded => ~Busy(s) /\ Quiet(s, Uploading)

UploadInv == \A s \in Tabs : \E n \in [Nat -> Nat] : UploadFits(n, s)

\* The files: the partial one is the upload's, and the open file holds what was received,
\* wherever a request has moved it.
DiskFits ==
    /\ UploadDoneIsComplete /\ NoTruncatedFile
    /\ mgr.upload # None /\ mgr.at # None =>
         disk[mgr.at].state \in {"partial", "orphan"} /\ disk[mgr.at].chunks = mgr.received

\* An upload is announced to some path.
Announce == \E p \in Paths : UploadStart(p)

\* A stream is started once; a superseded one that has sent its last frame ends.
StreamFits(s) ==
    /\ \A i, k \in From(down, s, {"download"}) : i = k
    /\ stream[s].at # "off" \/ late[s] > 0 => tab[s].downloaded /\ Quiet(s, {"download"})
    /\ ~tab[s].downloaded => Quiet(s, {"download"})
    /\ stream[s].at # "off" => stream[s].gen <= mgr.generation
    /\ late[s] <= 1
    /\ late[s] = 1 => stream[s].at = "off" \/ (stream[s].at = "check" /\ Superseded(s))

\* A tab that is alone.
Alone(s) == \A r \in Tabs \ {s} : tab[r].state = "new"
Begun(s) == tab[s].state = "active" \/ From(up, s, {"ready"}) # {}

\* The session of a tab that is alone is current with the agent, once it has begun.
SessionFits(s) ==
    /\ Quiet(s, {"stop"})
    /\ \A i, k \in From(down, s, {"start"}) : i = k
    /\ Begun(s) => mgr.session = s /\ Quiet(s, {"start"})
    /\ ~tab[s].downloaded => tab[s].want = None /\ From(up, s, Data) = {}
    /\ tab[s].want # None => tab[s].state = "active"

\* The chunks on their way to it go on where what it has got, g pieces of f, ends.
ChunksIn(q, s, f, g) ==
    /\ \A i \in From(q, s, {"chunk"}) :
         /\ q[i].piece.file = f /\ q[i].piece.pos > g
         /\ \A v \in (g + 1)..q[i].piece.pos : \E k \in From(q, s, {"chunk"}) : k <= i /\ q[k].piece.pos = v
    /\ \A i, k \in From(q, s, {"chunk"}) : q[i].piece.pos = q[k].piece.pos => i = k
    /\ \A i \in From(q, s, {"download_done"}) :
         \A v \in (g + 1)..Chunks : \E k \in From(q, s, {"chunk"}) : k < i /\ q[k].piece.pos = v

ChunksFit(s) ==
    /\ Len(tab[s].got) <= Chunks
    /\ \A i \in 1..Len(tab[s].got) : tab[s].got[i] = [file |-> tab[s].want, pos |-> i]
    /\ ChunksIn(up, s, tab[s].want, Len(tab[s].got))

\* Its stream, at p, follows what it has sent.
SourceIn(q, s, g, p) ==
    /\ g <= p /\ From(q, s, {"download_done"}) = {}
    /\ \A i \in From(q, s, {"chunk"}) : q[i].piece.pos <= p
    /\ \A v \in (g + 1)..p : \E k \in From(q, s, {"chunk"}) : q[k].piece.pos = v

SourceFits(s) ==
    /\ \A i \in From(down, s, {"download"}) :
         down[i].file = tab[s].want /\ tab[s].got = <<>> /\ From(up, s, Data) = {}
    /\ stream[s].at # "off" =>
         /\ stream[s].file = tab[s].want /\ stream[s].gen = mgr.generation
         /\ SourceIn(up, s, Len(tab[s].got), stream[s].pos)
         /\ stream[s].at \in {"final", "done"} => stream[s].pos = Chunks

TabFits(s) == SessionFits(s) /\ (tab[s].want # None => ChunksFit(s) /\ SourceFits(s))

AloneFits(s) ==
    Alone(s) => /\ \A d \in tab[s].saved : d.content = Whole(d.file)
                /\ slot = s => TabFits(s)

TransferInv ==
    /\ TransferTyped /\ UploadInv /\ DiskFits
    /\ \A s \in Tabs : NewFits(s) /\ StreamFits(s) /\ AloneFits(s)
-----------------------------------------------------------------------------
\* A queue, longer at its end, or without its head.
Longer(q, r) ==
    /\ Len(q) \in Nat /\ DOMAIN q = 1..Len(q) /\ Len(r) \in Nat /\ DOMAIN r = 1..Len(r)
    /\ Len(q) <= Len(r) /\ \A i \in 1..Len(q) : r[i] = q[i]
Added(q, r) == (Len(q) + 1)..Len(r)
Shorter(q, r) ==
    /\ Len(q) \in Nat /\ Len(q) >= 1 /\ DOMAIN q = 1..Len(q)
    /\ Len(r) = Len(q) - 1 /\ DOMAIN r = 1..(Len(q) - 1) /\ \A i \in 1..(Len(q) - 1) : r[i] = q[i + 1]

\* What Append and Tail do to a queue.
LEMMA Appended ==
    ASSUME NEW S, NEW q \in Seq(S), NEW x \in S
    PROVE  /\ Append(q, x) \in Seq(S) /\ Longer(q, Append(q, x))
           /\ Len(Append(q, x)) = Len(q) + 1 /\ Append(q, x)[Len(q) + 1] = x
           /\ Added(q, Append(q, x)) = {Len(q) + 1}
<1>1. Append(q, x) \in Seq(S) /\ Len(Append(q, x)) = Len(q) + 1
      /\ \A i \in 1..Len(q) : Append(q, x)[i] = q[i]
      /\ Append(q, x)[Len(q) + 1] = x
  BY AppendProperties
<1>2. Len(q) \in Nat /\ DOMAIN q = 1..Len(q) /\ DOMAIN Append(q, x) = 1..Len(Append(q, x))
  BY <1>1, LenProperties
<1>3. Added(q, Append(q, x)) = {Len(q) + 1}
  BY <1>1, <1>2 DEF Added
<1> QED BY <1>1, <1>2, <1>3 DEF Longer

\* A queue that is not empty yields its first element and gets shorter.
LEMMA Tailed ==
    ASSUME NEW S, NEW q \in Seq(S), q # <<>>
    PROVE  q[1] \in S /\ Tail(q) \in Seq(S) /\ Shorter(q, Tail(q))
<1>1. /\ Tail(q) \in Seq(S) /\ Len(Tail(q)) = Len(q) - 1
      /\ \A i \in 1..Len(Tail(q)) : Tail(q)[i] = q[i + 1]
  BY HeadTailProperties
<1>2. Len(q) \in Nat /\ DOMAIN q = 1..Len(q) /\ DOMAIN Tail(q) = 1..Len(Tail(q)) /\ Len(q) # 0
  BY <1>1, LenProperties, EmptySeq
<1>3. q[1] \in S
  BY <1>2, ElementOfSeq
<1> QED BY <1>1, <1>2, <1>3 DEF Shorter

\* A queue that stays as it is has got nothing added.
LEMMA Same ==
    ASSUME NEW S, NEW q \in Seq(S)
    PROVE  Longer(q, q) /\ Added(q, q) = {} /\ Len(q) \in Nat /\ DOMAIN q = 1..Len(q)
<1>1. Len(q) \in Nat /\ DOMAIN q = 1..Len(q)
  BY LenProperties
<1>2. Added(q, q) = {}
  BY <1>1 DEF Added
<1> QED BY <1>1, <1>2 DEF Longer

-----------------------------------------------------------------------------
\* The tabs

\* What a tab becomes.
LEMMA TabForms ==
    ASSUME NEW t \in TabSet
    PROVE  /\ [t EXCEPT !.state = "connecting"] \in TabSet
           /\ Closed(t) \in TabSet
           /\ [t EXCEPT !.state = "active"] \in TabSet
           /\ [t EXCEPT !.transfer = "none"] \in TabSet
           /\ [t EXCEPT !.transfer = "upload"] \in TabSet
           /\ t.sent <= Chunks => [t EXCEPT !.sent = t.sent + 1] \in TabSet
           /\ t.requests < MaxRequests => [t EXCEPT !.requests = t.requests + 1] \in TabSet
<1>0. Closed(t) \in TabSet
  <2>1. <<>> \in Seq(Piece)
    OBVIOUS
  <2> QED BY <2>1 DEF Closed, TabSet
<1>1. /\ [t EXCEPT !.state = "connecting"] \in TabSet
      /\ [t EXCEPT !.state = "active"] \in TabSet
      /\ [t EXCEPT !.transfer = "none"] \in TabSet /\ [t EXCEPT !.transfer = "upload"] \in TabSet
  BY DEF TabSet
<1>2. ASSUME t.sent <= Chunks PROVE [t EXCEPT !.sent = t.sent + 1] \in TabSet
  <2>1. t.sent \in 0..(Chunks + 1)
    BY DEF TabSet
  <2>2. PICK n \in 0..(Chunks + 1) : n = t.sent + 1
    BY <1>2, <2>1, TransferAssumption
  <2>3. [t EXCEPT !.sent = n] \in TabSet
    BY DEF TabSet
  <2> QED BY <2>2, <2>3
<1>3. ASSUME t.requests < MaxRequests PROVE [t EXCEPT !.requests = t.requests + 1] \in TabSet
  <2>1. t.requests \in 0..MaxRequests
    BY DEF TabSet
  <2>2. PICK n \in 0..MaxRequests : n = t.requests + 1
    BY <1>3, <2>1, TransferAssumption
  <2>3. [t EXCEPT !.requests = n] \in TabSet
    BY DEF TabSet
  <2> QED BY <2>2, <2>3
<1> QED BY <1>0, <1>1, <1>2, <1>3

\* What is left of a tab that is closed.
LEMMA ClosedForms ==
    ASSUME NEW t \in TabSet
    PROVE  /\ Closed(t).state = "closed" /\ Closed(t).want = None
           /\ \A a \in {"sent", "downloaded", "uploaded", "requests", "saved"} : Closed(t)[a] = t[a]
BY DEF Closed, TabSet

\* A tab that starts an upload is still a tab.
LEMMA UploadForms ==
    ASSUME NEW t \in TabSet
    PROVE  [t EXCEPT !.transfer = "upload", !.sent = 0, !.uploaded = TRUE] \in TabSet
<1>1. 0 \in 0..(Chunks + 1)
  BY TransferAssumption
<1> QED BY <1>1 DEF TabSet

\* ... and so is one that starts a download.
LEMMA MoreForms ==
    ASSUME NEW t \in TabSet, NEW f \in Files
    PROVE  [t EXCEPT !.transfer = "download", !.want = f, !.got = <<>>, !.downloaded = TRUE] \in TabSet
<1>1. <<>> \in Seq(Piece)
  OBVIOUS
<1> QED BY <1>1 DEF TabSet

\* A frame shown.
LEMMA ShownForms ==
    ASSUME NEW t \in TabSet, NEW m \in GoodReport
    PROVE  /\ Shown(t, m) \in TabSet
           /\ \A a \in {"sent", "downloaded", "uploaded", "requests"} : Shown(t, m)[a] = t[a]
           /\ m.type = "ready" => Shown(t, m) = [t EXCEPT !.state = "active"]
           /\ m.type = "chunk" => Shown(t, m) = IF t.want = None THEN t ELSE [t EXCEPT !.got = Append(t.got, m.piece)]
           /\ m.type = "download_done" =>
                /\ Shown(t, m).want = None /\ Shown(t, m).state = t.state /\ Shown(t, m).transfer = "none"
                /\ Shown(t, m).saved = IF t.want = None THEN t.saved
                                       ELSE t.saved \union {[file |-> t.want, content |-> t.got]}
           /\ m.type = "upload_done" => Shown(t, m) = [t EXCEPT !.transfer = "none"]
           /\ m.type \notin {"ready", "chunk", "download_done", "upload_done"} => Shown(t, m) = t
<1>1. CASE m.type = "chunk"
  <2>1. m.piece \in Piece
    BY <1>1 DEF GoodReport
  <2>2. t.got \in Seq(Piece)
    BY DEF TabSet
  <2>3. Append(t.got, m.piece) \in Seq(Piece)
    BY <2>1, <2>2, Appended
  <2>4. PICK g \in Seq(Piece) : g = Append(t.got, m.piece)
    BY <2>3
  <2>5. Shown(t, m) = IF t.want = None THEN t ELSE [t EXCEPT !.got = g]
    BY <1>1, <2>4 DEF Shown
  <2>6. [t EXCEPT !.got = g] \in TabSet
    BY DEF TabSet
  <2> QED BY <1>1, <2>4, <2>5, <2>6 DEF TabSet
<1>2. CASE m.type = "download_done"
  <2>1. <<>> \in Seq(Piece)
    OBVIOUS
  <2>2. PICK d \in SUBSET [file : Files, content : Seq(Piece)] :
          d = IF t.want = None THEN t.saved ELSE t.saved \union {[file |-> t.want, content |-> t.got]}
    <3>1. t.saved \in SUBSET [file : Files, content : Seq(Piece)]
      BY DEF TabSet
    <3>2. t.want \in Files \union {None} /\ t.got \in Seq(Piece)
      BY DEF TabSet
    <3>3. t.want # None => [file |-> t.want, content |-> t.got] \in [file : Files, content : Seq(Piece)]
      BY <3>2
    <3> QED BY <3>1, <3>3
  <2>3. Shown(t, m) = [t EXCEPT !.transfer = "none", !.want = None, !.got = <<>>, !.saved = d]
    BY <1>2, <2>2 DEF Shown
  <2>4. [t EXCEPT !.transfer = "none", !.want = None, !.got = <<>>, !.saved = d] \in TabSet
    BY <2>1 DEF TabSet
  <2> QED BY <1>2, <2>2, <2>3, <2>4 DEF TabSet
<1>3. CASE m.type = "ready"
  BY <1>3 DEF Shown, TabSet
<1>4. CASE m.type = "upload_done"
  BY <1>4 DEF Shown, TabSet
<1>5. CASE m.type \notin {"ready", "chunk", "download_done", "upload_done"}
  <2>1. Shown(t, m) = t
    BY <1>5 DEF Shown
  <2> QED BY <1>5, <2>1
<1> QED BY <1>1, <1>2, <1>3, <1>4, <1>5

-----------------------------------------------------------------------------
\* The two directions of the channel

\* A frame that a tab sends.
LEMMA FrameForms ==
    ASSUME NEW s \in Tabs, NEW f \in Files \union {None},
           NEW type \in {"start", "stop", "download", "upload_start", "upload_chunk", "upload_end", "list", "op"},
           type = "download" => f \in Files
    PROVE  FrameOf(type, s, f) \in GoodFrame
BY DEF FrameOf, GoodFrame, Frame, SessionId

\* One frame is added by the tab s.
OneMore(type, s, f) ==
    /\ down' \in Seq(GoodFrame) /\ Longer(down, down') /\ Added(down, down') = {Len(down) + 1}
    /\ Len(down') = Len(down) + 1
    /\ down'[Len(down) + 1] = FrameOf(type, s, f)

\* What a tab sends is one more frame for the agent.
LEMMA FrameSent ==
    ASSUME down \in Seq(GoodFrame), NEW s \in Tabs, NEW f \in Files \union {None},
           NEW type \in {"start", "stop", "download", "upload_start", "upload_chunk", "upload_end", "list", "op"},
           type = "download" => f \in Files,
           down' = Append(down, FrameOf(type, s, f))
    PROVE  OneMore(type, s, f)
<1>1. PICK x \in GoodFrame : x = FrameOf(type, s, f)
  BY FrameForms
<1>2. /\ Append(down, x) \in Seq(GoodFrame) /\ Longer(down, Append(down, x))
      /\ Len(Append(down, x)) = Len(down) + 1 /\ Append(down, x)[Len(down) + 1] = x
      /\ Added(down, Append(down, x)) = {Len(down) + 1}
  BY <1>1, Appended
<1>3. down' = Append(down, x)
  BY <1>1
<1> QED BY <1>1, <1>2, <1>3 DEF OneMore

\* The frames of an opening: the stop of the session that is preempted, and the start.
Opened(s) ==
    /\ down' \in Seq(GoodFrame) /\ Longer(down, down') /\ Len(down') \in Added(down, down')
    /\ down'[Len(down')].type = "start" /\ down'[Len(down')].session = s
    /\ \A i \in Added(down, down') \ {Len(down')} :
         down'[i].type = "stop" /\ down'[i].session = slot /\ slot # None

\* Opening a session sends its start, after a stop for the tab that had the slot.
LEMMA OpenSends ==
    ASSUME down \in Seq(GoodFrame), slot \in SessionId, NEW s \in Tabs, Open(s)
    PROVE  Opened(s)
<1>1. PICK x \in GoodFrame : x = FrameOf("start", s, None)
  BY FrameForms
<1>2. x.type = "start" /\ x.session = s
  BY <1>1 DEF FrameOf
<1>3. CASE slot = None
  <2>1. down' = (down \o <<>>) \o <<x>>
    BY <1>1, <1>3 DEF Open
  <2>2. down' = Append(down, x)
    <3>1. down \o <<>> = down
      BY ConcatEmptySeq
    <3>2. down \o <<x>> = Append(down, x)
      BY AppendIsConcat
    <3> QED BY <2>1, <3>1, <3>2
  <2>3. /\ Append(down, x) \in Seq(GoodFrame) /\ Longer(down, Append(down, x))
        /\ Len(Append(down, x)) = Len(down) + 1 /\ Append(down, x)[Len(down) + 1] = x
        /\ Added(down, Append(down, x)) = {Len(down) + 1}
    BY Appended
  <2> QED BY <1>2, <2>2, <2>3 DEF Opened
<1>4. CASE slot # None
  <2>1. PICK y \in GoodFrame : y = FrameOf("stop", slot, None)
    BY <1>4, FrameForms DEF SessionId
  <2>2. y.type = "stop" /\ y.session = slot
    BY <2>1 DEF FrameOf
  <2>3. down' = (down \o <<y>>) \o <<x>>
    BY <1>1, <1>4, <2>1 DEF Open
  <2>4. PICK q : q = Append(down, y)
    OBVIOUS
  <2>5. /\ q \in Seq(GoodFrame) /\ Longer(down, q) /\ Len(q) = Len(down) + 1 /\ q[Len(down) + 1] = y
    BY <2>4, Appended
  <2>6. down \o <<y>> = q /\ q \o <<x>> = Append(q, x)
    BY <2>4, <2>5, AppendIsConcat
  <2>7. down' = Append(q, x)
    BY <2>3, <2>6
  <2>8. /\ Append(q, x) \in Seq(GoodFrame) /\ Longer(q, Append(q, x))
        /\ Len(Append(q, x)) = Len(q) + 1 /\ Append(q, x)[Len(q) + 1] = x
    BY <2>5, Appended
  <2>9. /\ down' \in Seq(GoodFrame) /\ Longer(q, down') /\ Len(down') = Len(q) + 1 /\ down'[Len(q) + 1] = x
    BY <2>7, <2>8
  <2>10. Longer(down, down') /\ Added(down, down') = {Len(down) + 1, Len(down) + 2} /\ Len(down') = Len(down) + 2
    BY <2>5, <2>9 DEF Longer, Added
  <2>11. down'[Len(down) + 1] = y /\ down'[Len(down) + 2] = x
    BY <2>5, <2>9 DEF Longer
  <2> QED BY <1>2, <1>4, <2>2, <2>9, <2>10, <2>11 DEF Opened
<1> QED BY <1>3, <1>4

\* The agent takes a frame.
LEMMA FrameTaken ==
    ASSUME down \in Seq(GoodFrame), down # <<>>, Took
    PROVE  down[1] \in GoodFrame /\ down[1].session \in Tabs /\ down' \in Seq(GoodFrame) /\ Shorter(down, down')
           /\ 1 \in DOMAIN down
<1>1. down[1] \in GoodFrame /\ down' \in Seq(GoodFrame) /\ Shorter(down, down')
  BY Tailed DEF Took
<1> QED BY <1>1 DEF GoodFrame, Shorter

\* The agent sends one frame.
OneReport(type, piece, session) ==
    /\ up' \in Seq(GoodReport) /\ Longer(up, up') /\ Added(up, up') = {Len(up) + 1} /\ Len(up') = Len(up) + 1
    /\ up'[Len(up) + 1].type = type /\ up'[Len(up) + 1].session = session /\ up'[Len(up) + 1].piece = piece

\* What the agent sends is one more report for the relay.
LEMMA ReportSent ==
    ASSUME up \in Seq(GoodReport), NEW session \in SessionId, NEW piece \in Piece \union {None},
           NEW type \in {"ready", "chunk", "download_done", "upload_done", "error", "listing", "op_ok"},
           type = "chunk" => piece \in Piece,
           up' = Append(up, [type |-> type, session |-> session, piece |-> piece])
    PROVE  OneReport(type, piece, session)
<1>1. PICK x \in GoodReport : x = [type |-> type, session |-> session, piece |-> piece]
  BY DEF GoodReport, Report
<1>2. /\ Append(up, x) \in Seq(GoodReport) /\ Longer(up, Append(up, x))
      /\ Len(Append(up, x)) = Len(up) + 1 /\ Append(up, x)[Len(up) + 1] = x
      /\ Added(up, Append(up, x)) = {Len(up) + 1}
  BY <1>1, Appended
<1>3. up' = Append(up, x)
  BY <1>1
<1> QED BY <1>1, <1>2, <1>3 DEF OneReport

-----------------------------------------------------------------------------
\* Types

\* The next chunk of an upload is one that was announced.
ChunkFits ==
    UploadChunk \/ UploadChunkFails =>
        mgr.received < Chunks /\ (mgr.at # None => disk[mgr.at].chunks < Chunks)

\* The slot and the tabs keep their types (file_hub.py, FileTransferModal).
LEMMA TabsTyped == ASSUME TransferTyped, [Next]_vars PROVE slot' \in SessionId /\ tab' \in [Tabs -> TabSet]
<1>0. slot \in SessionId /\ tab \in [Tabs -> TabSet]
  BY DEF TransferTyped
<1>1. ASSUME NEW s \in Tabs, Open(s) PROVE slot' \in SessionId /\ tab' \in [Tabs -> TabSet]
  <2>1. \A r \in Tabs : [tab[r] EXCEPT !.state = "connecting"] \in TabSet
                        /\ Closed(tab[r]) \in TabSet /\ tab[r] \in TabSet
    BY <1>0, TabForms
  <2> QED BY <1>1, <2>1 DEF Open, SessionId
<1>2. ASSUME NEW s \in Tabs, Close(s) PROVE slot' \in SessionId /\ tab' \in [Tabs -> TabSet]
  <2>1. Closed(tab[s]) \in TabSet
    BY <1>0, TabForms
  <2> QED BY <1>0, <1>2, <2>1 DEF Close, SessionId
<1>3. ASSUME NEW s \in Tabs, NEW f \in Files, StartDownload(s, f)
      PROVE  slot' \in SessionId /\ tab' \in [Tabs -> TabSet]
  <2>1. PICK x \in TabSet :
          x = [tab[s] EXCEPT !.transfer = "download", !.want = f, !.got = <<>>, !.downloaded = TRUE]
    BY <1>0, MoreForms
  <2>2. tab' = [tab EXCEPT ![s] = x]
    BY <1>0, <1>3, <2>1 DEF StartDownload
  <2>3. slot' = slot
    BY <1>3 DEF StartDownload
  <2> QED BY <1>0, <2>2, <2>3
<1>4. ASSUME NEW s \in Tabs, StartUpload(s) PROVE slot' \in SessionId /\ tab' \in [Tabs -> TabSet]
  <2>1. PICK x \in TabSet : x = [tab[s] EXCEPT !.transfer = "upload", !.sent = 0, !.uploaded = TRUE]
    BY <1>0, UploadForms
  <2>2. tab' = [tab EXCEPT ![s] = x]
    BY <1>0, <1>4, <2>1 DEF StartUpload
  <2>3. slot' = slot
    BY <1>4 DEF StartUpload
  <2> QED BY <1>0, <2>2, <2>3
<1>5. ASSUME NEW s \in Tabs, SendChunk(s) PROVE slot' \in SessionId /\ tab' \in [Tabs -> TabSet]
  <2>1. [tab[s] EXCEPT !.sent = tab[s].sent + 1] \in TabSet
    BY <1>0, <1>5, TabForms DEF SendChunk
  <2> QED BY <1>0, <1>5, <2>1 DEF SendChunk
<1>6. ASSUME NEW s \in Tabs, NEW type, Request(s, type) PROVE slot' \in SessionId /\ tab' \in [Tabs -> TabSet]
  <2>1. [tab[s] EXCEPT !.requests = tab[s].requests + 1] \in TabSet
    BY <1>0, <1>6, TabForms DEF Request
  <2> QED BY <1>0, <1>6, <2>1 DEF Request
<1>7. CASE Relay
  <2>1. CASE Current(up[1])
    <3>1. up[1] \in GoodReport
      BY <1>7, Tailed DEF TransferTyped, Relay
    <3>2. slot \in Tabs
      BY <1>0, <2>1 DEF Current, SessionId
    <3>3. Shown(tab[slot], up[1]) \in TabSet
      BY <1>0, <3>1, <3>2, ShownForms
    <3>4. tab' = [tab EXCEPT ![slot] = Shown(tab[slot], up[1])]
      BY <1>7, <2>1 DEF Relay
    <3> QED BY <1>0, <1>7, <3>2, <3>3, <3>4 DEF Relay
  <2>2. CASE ~Current(up[1])
    BY <1>0, <1>7, <2>2 DEF Relay
  <2> QED BY <2>1, <2>2
<1>8. CASE ChannelLost
  <2>1. \A r \in Tabs : Closed(tab[r]) \in TabSet /\ tab[r] \in TabSet
    BY <1>0, TabForms
  <2> QED BY <1>8, <2>1 DEF ChannelLost, SessionId
<1>9. CASE ReadLoopStep \/ \E s \in Tabs : StreamStep(s)
  BY <1>0, <1>9
     DEF ReadLoopStep, FileStart, FileStop, FileDownload, DirectoryStep, FileRequest, FileDelete, FileRename, Announce, UploadStart, UploadStartFails,
         UploadChunk, UploadChunkFails, UploadEnd, Ignored, StreamStep, StreamOpens, StreamFails,
         StreamChecks, StreamSends, StreamEnds, StreamFinalCheck, StreamDone
<1>10. CASE UNCHANGED vars
  BY <1>0, <1>10 DEF vars
<1> QED BY <1>1, <1>2, <1>3, <1>4, <1>5, <1>6, <1>7, <1>8, <1>9, <1>10 DEF Next, BrowserStep

\* What the browsers and the relay put on the channel.
LEMMA BrowserSends ==
    ASSUME TransferTyped, NEW s \in Tabs
    PROVE  /\ Open(s) => Opened(s)
           /\ Close(s) => OneMore("stop", s, None)
           /\ \A f \in Files : StartDownload(s, f) => OneMore("download", s, f)
           /\ StartUpload(s) => OneMore("upload_start", s, None)
           /\ SendChunk(s) => OneMore(IF tab[s].sent < Chunks THEN "upload_chunk" ELSE "upload_end", s, None)
           /\ \A type \in {"list", "op"} : Request(s, type) => OneMore(type, s, None)
<1>1. down \in Seq(GoodFrame) /\ slot \in SessionId
  BY DEF TransferTyped
<1>2. Open(s) => Opened(s)
  BY <1>1, OpenSends
<1>3. Close(s) => OneMore("stop", s, None)
  BY <1>1, FrameSent DEF Close
<1>4. ASSUME NEW f \in Files, StartDownload(s, f) PROVE OneMore("download", s, f)
  BY <1>1, <1>4, FrameSent DEF StartDownload
<1>5. StartUpload(s) => OneMore("upload_start", s, None)
  BY <1>1, FrameSent DEF StartUpload
<1>6. ASSUME SendChunk(s) PROVE OneMore(IF tab[s].sent < Chunks THEN "upload_chunk" ELSE "upload_end", s, None)
  <2>1. CASE tab[s].sent < Chunks
    BY <1>1, <1>6, <2>1, FrameSent DEF SendChunk
  <2>2. CASE ~(tab[s].sent < Chunks)
    BY <1>1, <1>6, <2>2, FrameSent DEF SendChunk
  <2> QED BY <2>1, <2>2
<1>7. ASSUME NEW type \in {"list", "op"}, Request(s, type) PROVE OneMore(type, s, None)
  BY <1>1, <1>7, FrameSent DEF Request
<1> QED BY <1>2, <1>3, <1>4, <1>5, <1>6, <1>7

\* The relay takes the first report, shows it to the tab in the slot if it is of the
\* current session, and the modal asks for a listing at most.
LEMMA RelaySends ==
    ASSUME TransferTyped, Relay
    PROVE  /\ up[1] \in GoodReport /\ up' \in Seq(GoodReport) /\ Shorter(up, up')
           /\ down' \in Seq(GoodFrame) /\ Longer(down, down')
           /\ \A i \in Added(down, down') : down'[i].type = "list" /\ down'[i].session = slot /\ slot \in Tabs
           /\ IF Current(up[1]) THEN slot \in Tabs /\ tab' = [tab EXCEPT ![slot] = Shown(tab[slot], up[1])]
                                ELSE tab' = tab
<1>1. down \in Seq(GoodFrame) /\ slot \in SessionId /\ up \in Seq(GoodReport)
  BY DEF TransferTyped
<1>2. up[1] \in GoodReport /\ up' \in Seq(GoodReport) /\ Shorter(up, up')
  BY <1>1, Tailed DEF Relay
<1>3. CASE down' = down
  <2>1. Longer(down, down) /\ Added(down, down) = {}
    BY <1>1, Same
  <2> QED BY <1>1, <1>2, <1>3, <2>1 DEF Relay, Current, SessionId
<1>4. CASE Current(up[1]) /\ down' = Append(down, FrameOf("list", slot, None))
  <2>1. slot \in Tabs
    BY <1>1, <1>4 DEF Current, SessionId
  <2>2. OneMore("list", slot, None)
    BY <1>1, <1>4, <2>1, FrameSent
  <2> QED BY <1>2, <1>4, <2>1, <2>2 DEF Relay, OneMore, FrameOf
<1> QED BY <1>3, <1>4 DEF Relay

\* What the agent puts on the channel.
LEMMA AgentSends ==
    ASSUME TransferTyped
    PROVE  /\ FileStart => OneReport("ready", None, down[1].session)
           /\ DirectoryStep =>
                \E type \in {"error", "listing", "op_ok"} : OneReport(type, None, mgr.session)
           /\ UploadStartFails \/ UploadChunkFails => OneReport("error", None, mgr.session)
           /\ UploadEnd => OneReport("upload_done", None, mgr.session)
<1>1. down \in Seq(GoodFrame) /\ up \in Seq(GoodReport) /\ mgr.session \in SessionId
  BY DEF TransferTyped, ManagerSet
<1>2. ASSUME FileStart PROVE OneReport("ready", None, down[1].session)
  <2>1. down[1].session \in SessionId
    BY <1>1, <1>2, FrameTaken DEF FileStart, Arrives, SessionId
  <2> QED BY <1>1, <1>2, <2>1, ReportSent DEF FileStart
<1>3. ASSUME DirectoryStep
      PROVE  \E type \in {"error", "listing", "op_ok"} : OneReport(type, None, mgr.session)
  <2>1. PICK type \in {"error", "listing", "op_ok"} :
          up' = Append(up, [type |-> type, session |-> mgr.session, piece |-> None])
    BY <1>3 DEF DirectoryStep, FileRequest, FileDelete, FileRename, Send, Stamped
  <2>2. OneReport(type, None, mgr.session)
    BY <1>1, <2>1, ReportSent
  <2> QED BY <2>2
<1>4. UploadStartFails \/ UploadChunkFails => OneReport("error", None, mgr.session)
  BY <1>1, ReportSent DEF UploadStartFails, UploadChunkFails, Send, Stamped
<1>5. UploadEnd => OneReport("upload_done", None, mgr.session)
  BY <1>1, ReportSent DEF UploadEnd, Send, Stamped
<1> QED BY <1>2, <1>3, <1>4, <1>5

\* A directory request leaves the tabs and streams alone, and of the manager it moves at
\* most where the open file is.
LEMMA DirectoryKeeps ==
    ASSUME TransferTyped, DirectoryStep
    PROVE  /\ UNCHANGED <<slot, tab, stream, late, drops>>
           /\ mgr' \in ManagerSet
           /\ mgr'.session = mgr.session /\ mgr'.generation = mgr.generation
           /\ mgr'.upload = mgr.upload /\ mgr'.received = mgr.received
           /\ down # <<>> /\ Took /\ Mine /\ down[1].type \in {"list", "op"}
<1>1. mgr \in ManagerSet
  BY DEF TransferTyped
<1>2. CASE \E ok \in BOOLEAN : FileRequest(ok)
  BY <1>1, <1>2 DEF FileRequest, Arrives
<1>3. ASSUME NEW at \in Paths \union {None}, mgr' = [mgr EXCEPT !.at = at]
      PROVE  /\ mgr' \in ManagerSet
             /\ mgr'.session = mgr.session /\ mgr'.generation = mgr.generation
             /\ mgr'.upload = mgr.upload /\ mgr'.received = mgr.received
  BY <1>1, <1>3 DEF ManagerSet
<1>4. mgr.at \in Paths \union {None}
  BY <1>1 DEF ManagerSet
<1>5. ASSUME NEW ok \in BOOLEAN, NEW gone \in SUBSET Paths, FileDelete(ok, gone)
      PROVE  /\ UNCHANGED <<slot, tab, stream, late, drops>>
             /\ \E at \in Paths \union {None} : mgr' = [mgr EXCEPT !.at = at]
             /\ down # <<>> /\ Took /\ Mine /\ down[1].type \in {"list", "op"}
  BY <1>4, <1>5 DEF FileDelete, Arrives
<1>6. ASSUME NEW p \in Paths, NEW q \in Paths, FileRename(p, q)
      PROVE  /\ UNCHANGED <<slot, tab, stream, late, drops>>
             /\ \E at \in Paths \union {None} : mgr' = [mgr EXCEPT !.at = at]
             /\ down # <<>> /\ Took /\ Mine /\ down[1].type \in {"list", "op"}
  BY <1>4, <1>6 DEF FileRename, Arrives
<1>7. CASE \E ok \in BOOLEAN : \E gone \in SUBSET Paths : FileDelete(ok, gone)
  BY <1>3, <1>5, <1>7
<1>8. CASE \E p, q \in Paths : FileRename(p, q)
  BY <1>3, <1>6, <1>8
<1> QED BY <1>2, <1>7, <1>8 DEF DirectoryStep

\* What each step of a stream puts on the wire, under the session that is current then.
LEMMA StreamSent ==
    ASSUME TransferTyped, NEW s \in Tabs
    PROVE  /\ StreamFails(s) => OneReport("error", None, mgr.session)
           /\ StreamSends(s) =>
                OneReport("chunk", [file |-> stream[s].file, pos |-> stream[s].pos + 1], mgr.session)
           /\ StreamDone(s) => OneReport("download_done", None, mgr.session)
<1>1. up \in Seq(GoodReport) /\ mgr.session \in SessionId /\ stream[s] \in StreamSet
  BY DEF TransferTyped, ManagerSet
<1>2. StreamFails(s) => OneReport("error", None, mgr.session)
  BY <1>1, ReportSent DEF StreamFails, StreamSend, Send, Stamped
<1>3. ASSUME StreamSends(s)
      PROVE  OneReport("chunk", [file |-> stream[s].file, pos |-> stream[s].pos + 1], mgr.session)
  <2>1. stream[s].file \in Files /\ stream[s].pos + 1 \in 1..Chunks
    BY <1>1, <1>3, TransferAssumption DEF StreamSends, StreamSet
  <2>2. PICK p \in Piece : p = [file |-> stream[s].file, pos |-> stream[s].pos + 1]
    BY <2>1 DEF Piece
  <2>3. up' = Append(up, [type |-> "chunk", session |-> mgr.session, piece |-> p])
    BY <1>3, <2>2 DEF StreamSends, StreamSend, Send, Stamped
  <2> QED BY <1>1, <2>2, <2>3, ReportSent
<1>4. StreamDone(s) => OneReport("download_done", None, mgr.session)
  BY <1>1, ReportSent DEF StreamDone, StreamSend, Send, Stamped
<1> QED BY <1>2, <1>3, <1>4

\* The channel keeps its types.
LEMMA ChannelTyped == ASSUME TransferTyped, [Next]_vars PROVE down' \in Seq(GoodFrame) /\ up' \in Seq(GoodReport)
<1>0. down \in Seq(GoodFrame) /\ up \in Seq(GoodReport)
  BY DEF TransferTyped
<1>1. ASSUME NEW s \in Tabs, BrowserStep(s) PROVE down' \in Seq(GoodFrame) /\ up' \in Seq(GoodReport)
  <2>1. up' = up
    BY <1>1 DEF BrowserStep, Open, Close, StartUpload, SendChunk, StartDownload, Request
  <2>2. down' \in Seq(GoodFrame)
    BY <1>1, BrowserSends DEF BrowserStep, Opened, OneMore
  <2> QED BY <1>0, <2>1, <2>2
<1>2. CASE Relay
  BY <1>2, RelaySends
<1>3. CASE ReadLoopStep
  <2>1. down' \in Seq(GoodFrame)
    <3>1. down # <<>> /\ Took
      BY <1>3 DEF ReadLoopStep, FileStart, FileStop, FileDownload, DirectoryStep, FileRequest, FileDelete, FileRename, Announce, UploadStart, UploadStartFails,
         UploadChunk, UploadChunkFails, UploadEnd, Ignored, Arrives
    <3> QED BY <1>0, <3>1, FrameTaken
  <2>2. CASE FileStop \/ FileDownload \/ Announce \/ UploadChunk \/ Ignored
    BY <1>0, <2>1, <2>2 DEF FileStop, FileDownload, Announce, UploadStart, UploadChunk, Ignored
  <2>3. CASE FileStart \/ UploadStartFails \/ UploadChunkFails \/ UploadEnd \/ DirectoryStep
    <3>1. \E type, session : OneReport(type, None, session)
      BY <2>3, AgentSends
    <3> QED BY <2>1, <3>1 DEF OneReport
  <2> QED BY <1>3, <2>2, <2>3 DEF ReadLoopStep, Announce
<1>4. ASSUME NEW s \in Tabs, StreamStep(s) PROVE down' \in Seq(GoodFrame) /\ up' \in Seq(GoodReport)
  <2>1. down' = down
    BY <1>4 DEF StreamStep, StreamOpens, StreamFails, StreamChecks, StreamSends, StreamEnds, StreamFinalCheck,
       StreamDone
  <2>2. CASE StreamOpens(s) \/ StreamChecks(s) \/ StreamEnds(s) \/ StreamFinalCheck(s)
    BY <1>0, <2>1, <2>2 DEF StreamOpens, StreamChecks, StreamEnds, StreamFinalCheck
  <2>3. CASE StreamFails(s) \/ StreamSends(s) \/ StreamDone(s)
    <3>1. \E type, piece, session : OneReport(type, piece, session)
      BY <2>3, StreamSent
    <3> QED BY <1>0, <2>1, <3>1 DEF OneReport
  <2> QED BY <1>4, <2>2, <2>3 DEF StreamStep
<1>5. CASE ChannelLost
  BY <1>5 DEF ChannelLost
<1>6. CASE UNCHANGED vars
  BY <1>0, <1>6 DEF vars
<1> QED BY <1>1, <1>2, <1>3, <1>4, <1>5, <1>6 DEF Next

\* The agent's records keep their types.
LEMMA AgentTyped ==
    ASSUME TransferTyped, [Next]_vars, ChunkFits
    PROVE  mgr' \in ManagerSet /\ disk' \in [Paths -> DiskSet] /\ drops' \in 0..MaxDrops
<1>0. /\ mgr \in ManagerSet /\ disk \in [Paths -> DiskSet] /\ drops \in 0..MaxDrops
      /\ down \in Seq(GoodFrame)
      /\ mgr.session \in SessionId /\ mgr.upload \in Paths \union {None} /\ mgr.at \in Paths \union {None}
      /\ mgr.received \in 0..Chunks
      /\ mgr.generation \in Nat /\ Chunks \in Nat /\ 0 \in 0..Chunks /\ MaxDrops \in Nat
  BY TransferAssumption DEF TransferTyped, ManagerSet
<1>1. Discarded \in [Paths -> DiskSet] /\ Removed \in DiskSet
  <2>1. Removed \in DiskSet
    BY <1>0 DEF Removed, DiskSet
  <2> QED BY <1>0, <2>1 DEF Discarded
<1>2. \A s \in SessionId : Reset(s) \in ManagerSet
  <2>1. mgr.generation + 1 \in Nat /\ None \in SessionId
    BY <1>0 DEF SessionId
  <2> QED BY <1>0, <2>1 DEF Reset, ManagerSet
<1>3. NewManager \in ManagerSet
  BY <1>0 DEF NewManager, ManagerSet, SessionId
<1>4. ASSUME UNCHANGED <<mgr, disk, drops>>
      PROVE  mgr' \in ManagerSet /\ disk' \in [Paths -> DiskSet] /\ drops' \in 0..MaxDrops
  BY <1>0, <1>4
<1>5. CASE FileStart \/ FileStop
  <2>1. down[1].session \in SessionId /\ None \in SessionId
    BY <1>0, <1>5, FrameTaken DEF FileStart, FileStop, Arrives, SessionId
  <2> QED BY <1>0, <1>1, <1>2, <1>5, <2>1 DEF FileStart, FileStop
<1>6. ASSUME NEW p \in Paths, UploadStart(p)
      PROVE  mgr' \in ManagerSet /\ disk' \in [Paths -> DiskSet] /\ drops' \in 0..MaxDrops
  <2>1. mgr.session # None
    BY <1>0, <1>6, FrameTaken, TransferAssumption DEF UploadStart, Arrives, Mine
  <2>2. mgr' = [mgr EXCEPT !.upload = p, !.at = p, !.received = 0] /\ drops' = drops
    BY <1>6 DEF UploadStart
  <2>3. mgr' \in ManagerSet
    BY <1>0, <2>1, <2>2 DEF ManagerSet
  <2>4. [chunks |-> 0, state |-> "partial"] \in DiskSet
    BY <1>0 DEF DiskSet
  <2>5. disk' = [Discarded EXCEPT ![p] = [chunks |-> 0, state |-> "partial"]]
    BY <1>6 DEF UploadStart
  <2> QED BY <1>0, <1>1, <2>2, <2>3, <2>4, <2>5
<1>7. CASE UploadChunk \/ UploadChunkFails
  <2>1. mgr.received < Chunks /\ (mgr.at # None => disk[mgr.at].chunks < Chunks) /\ mgr.upload # None
        /\ drops' = drops
    BY <1>0, <1>7 DEF ChunkFits, UploadChunk, UploadChunkFails
  <2>2. PICK n \in 0..Chunks : n = mgr.received + 1
    BY <1>0, <2>1
  <2>3. CASE UploadChunk
    <3>1. disk' \in [Paths -> DiskSet]
      <4>1. CASE mgr.at = None
        BY <1>0, <2>3, <4>1 DEF UploadChunk
      <4>2. CASE mgr.at # None
        <5>1. mgr.at \in Paths /\ disk[mgr.at] \in DiskSet /\ disk[mgr.at].chunks \in 0..Chunks
          BY <1>0, <4>2 DEF DiskSet
        <5>2. PICK c \in 0..Chunks : c = disk[mgr.at].chunks + 1
          BY <1>0, <2>1, <4>2, <5>1
        <5>3. [disk[mgr.at] EXCEPT !.chunks = c] \in DiskSet
          BY <5>1 DEF DiskSet
        <5>4. disk' = [disk EXCEPT ![mgr.at] = [disk[mgr.at] EXCEPT !.chunks = c]]
          BY <2>3, <4>2, <5>2 DEF UploadChunk
        <5> QED BY <1>0, <5>1, <5>3, <5>4
      <4> QED BY <4>1, <4>2
    <3>2. mgr' = [mgr EXCEPT !.received = n]
      BY <2>2, <2>3 DEF UploadChunk
    <3>3. mgr' \in ManagerSet
      BY <1>0, <3>2 DEF ManagerSet
    <3> QED BY <1>0, <2>1, <3>1, <3>3
  <2>4. CASE UploadChunkFails
    <3>1. mgr' = [mgr EXCEPT !.received = n, !.upload = None, !.at = None]
      BY <2>2, <2>4 DEF UploadChunkFails
    <3>2. mgr' \in ManagerSet
      BY <1>0, <3>1 DEF ManagerSet
    <3> QED BY <1>0, <1>1, <2>1, <2>4, <3>2 DEF UploadChunkFails
  <2> QED BY <1>7, <2>3, <2>4
<1>8. CASE UploadEnd
  <2>1. mgr' = [mgr EXCEPT !.upload = None, !.at = None] /\ drops' = drops
    BY <1>0, <1>8 DEF UploadEnd, AfterEnd
  <2>2. mgr' \in ManagerSet
    BY <1>0, <2>1 DEF ManagerSet
  <2>3. mgr.at # None => [disk[mgr.at] EXCEPT !.state = "finished"] \in DiskSet
    BY <1>0 DEF DiskSet
  <2>4. disk' = IF mgr.at = None THEN disk
                ELSE [disk EXCEPT ![mgr.at] = [disk[mgr.at] EXCEPT !.state = "finished"]]
    BY <1>8 DEF UploadEnd
  <2> QED BY <1>0, <2>1, <2>2, <2>3, <2>4
<1>9. CASE ChannelLost
  <2>1. \A p \in Paths : [disk[p] EXCEPT !.state = "orphan"] \in DiskSet /\ disk[p] \in DiskSet
    BY <1>0 DEF DiskSet
  <2>2. disk' \in [Paths -> DiskSet]
    BY <1>9, <2>1 DEF ChannelLost
  <2> QED BY <1>0, <1>3, <1>9, <2>2 DEF ChannelLost
<1>10. CASE UNCHANGED vars
  BY <1>4, <1>10 DEF vars
<1>11. CASE FileDownload \/ UploadStartFails \/ Ignored
  BY <1>4, <1>11 DEF FileDownload, UploadStartFails, Ignored
<1>12. CASE Relay \/ \E s \in Tabs : BrowserStep(s)
  BY <1>4, <1>12 DEF Relay, BrowserStep, Open, Close, StartUpload, SendChunk, StartDownload, Request
<1>13. CASE \E s \in Tabs : StreamStep(s)
  BY <1>4, <1>13 DEF StreamStep, StreamOpens, StreamFails, StreamChecks, StreamSends, StreamEnds,
     StreamFinalCheck, StreamDone
<1>14. CASE DirectoryStep
  <2>1. mgr' \in ManagerSet /\ drops' = drops
    BY <1>14, DirectoryKeeps
  <2>2. disk' \in [Paths -> DiskSet]
    <3>1. CASE \E ok \in BOOLEAN : FileRequest(ok)
      BY <1>0, <3>1 DEF FileRequest
    <3>2. CASE \E ok \in BOOLEAN : \E gone \in SUBSET Paths : FileDelete(ok, gone)
      BY <1>0, <1>1, <3>2 DEF FileDelete
    <3>3. ASSUME NEW p \in Paths, NEW q \in Paths, FileRename(p, q) PROVE disk' \in [Paths -> DiskSet]
      <4>1. disk[p] \in DiskSet /\ [disk[p] EXCEPT !.state = "orphan"] \in DiskSet
        BY <1>0 DEF DiskSet
      <4> QED BY <1>0, <1>1, <3>3, <4>1 DEF FileRename
    <3> QED BY <1>14, <3>1, <3>2, <3>3 DEF DirectoryStep
  <2> QED BY <1>0, <2>1, <2>2
<1> QED BY <1>5, <1>6, <1>7, <1>8, <1>9, <1>10, <1>11, <1>12, <1>13, <1>14 DEF Next, ReadLoopStep

\* What a step of a stream does to it.
LEMMA StreamForms ==
    ASSUME NEW x \in StreamSet
    PROVE  /\ Off \in StreamSet
           /\ \A at \in {"check", "send", "final", "done"} :
                x.at # "off" => [x EXCEPT !.at = at] \in StreamSet
           /\ x.at # "off" /\ x.pos < Chunks => [x EXCEPT !.at = "check", !.pos = x.pos + 1] \in StreamSet
<1>1. Off \in StreamSet
  BY TransferAssumption DEF Off, StreamSet
<1>2. ASSUME NEW at \in {"check", "send", "final", "done"}, x.at # "off"
      PROVE  [x EXCEPT !.at = at] \in StreamSet
  BY <1>2 DEF StreamSet
<1>3. ASSUME x.at # "off", x.pos < Chunks PROVE [x EXCEPT !.at = "check", !.pos = x.pos + 1] \in StreamSet
  <2>1. PICK n \in 0..Chunks : n = x.pos + 1
    BY <1>3, TransferAssumption DEF StreamSet
  <2>2. [x EXCEPT !.at = "check", !.pos = n] \in StreamSet
    BY <1>3 DEF StreamSet
  <2> QED BY <2>1, <2>2
<1> QED BY <1>1, <1>2, <1>3

\* Streams and the counts of late frames keep their types.
LEMMA StreamsTyped ==
    ASSUME TransferTyped, [Next]_vars
    PROVE  stream' \in [Tabs -> StreamSet] /\ late' \in [Tabs -> Nat]
<1>0. stream \in [Tabs -> StreamSet] /\ late \in [Tabs -> Nat] /\ down \in Seq(GoodFrame) /\ mgr.generation \in Nat
  BY DEF TransferTyped, ManagerSet
<1>1. CASE UNCHANGED <<stream, late>>
  BY <1>0, <1>1
<1>2. ASSUME NEW s \in Tabs, NEW y \in StreamSet, stream' = [stream EXCEPT ![s] = y],
             late' = late \/ late' = [late EXCEPT ![s] = late[s] + 1]
      PROVE  stream' \in [Tabs -> StreamSet] /\ late' \in [Tabs -> Nat]
  BY <1>0, <1>2
<1>3. CASE FileDownload
  <2>1. down[1].session \in Tabs /\ down[1].file \in Files
    BY <1>0, <1>3, FrameTaken DEF FileDownload, Arrives, GoodFrame
  <2>2. [at |-> "open", file |-> down[1].file, gen |-> mgr.generation, pos |-> 0] \in StreamSet
    BY <1>0, <2>1, TransferAssumption DEF StreamSet
  <2> QED BY <1>0, <1>3, <2>1, <2>2 DEF FileDownload
<1>4. ASSUME NEW s \in Tabs, StreamStep(s) PROVE stream' \in [Tabs -> StreamSet] /\ late' \in [Tabs -> Nat]
  <2>1. stream[s] \in StreamSet /\ Off \in StreamSet
    BY <1>0, StreamForms
  <2>2. CASE StreamOpens(s)
    <3>1. [stream[s] EXCEPT !.at = "check"] \in StreamSet
      BY <2>1, <2>2, StreamForms DEF StreamOpens
    <3> QED BY <1>2, <2>2, <3>1 DEF StreamOpens
  <2>3. CASE StreamFails(s) \/ StreamDone(s)
    <3>1. stream' = [stream EXCEPT ![s] = Off] /\ (late' = late \/ late' = [late EXCEPT ![s] = late[s] + 1])
      BY <2>3 DEF StreamFails, StreamDone, StreamSend
    <3> QED BY <1>2, <2>1, <3>1
  <2>4. CASE StreamChecks(s) \/ StreamFinalCheck(s)
    <3>1. stream[s].at # "off" /\ late' = late
      BY <2>4 DEF StreamChecks, StreamFinalCheck
    <3>2. [stream[s] EXCEPT !.at = "send"] \in StreamSet /\ [stream[s] EXCEPT !.at = "done"] \in StreamSet
      BY <2>1, <3>1, StreamForms
    <3>3. \E y \in {Off, [stream[s] EXCEPT !.at = "send"], [stream[s] EXCEPT !.at = "done"]} :
            stream' = [stream EXCEPT ![s] = y]
      BY <2>4 DEF StreamChecks, StreamFinalCheck
    <3> QED BY <1>2, <2>1, <3>1, <3>2, <3>3
  <2>5. CASE StreamEnds(s)
    <3>1. [stream[s] EXCEPT !.at = "final"] \in StreamSet
      BY <2>1, <2>5, StreamForms DEF StreamEnds
    <3> QED BY <1>2, <2>5, <3>1 DEF StreamEnds
  <2>6. CASE StreamSends(s)
    <3>1. PICK y \in StreamSet : y = [stream[s] EXCEPT !.at = "check", !.pos = stream[s].pos + 1]
      BY <2>1, <2>6, StreamForms DEF StreamSends
    <3>2. stream' = [stream EXCEPT ![s] = y] /\ (late' = late \/ late' = [late EXCEPT ![s] = late[s] + 1])
      BY <1>0, <2>6, <3>1 DEF StreamSends, StreamSend
    <3> QED BY <1>2, <3>2
  <2> QED BY <1>4, <2>2, <2>3, <2>4, <2>5, <2>6 DEF StreamStep
<1>5. CASE ChannelLost
  BY <1>0, <1>5, StreamForms DEF ChannelLost
<1>6. CASE Relay \/ \E s \in Tabs : BrowserStep(s)
  BY <1>1, <1>6 DEF Relay, BrowserStep, Open, Close, StartUpload, SendChunk, StartDownload, Request
<1>7. CASE ReadLoopStep /\ ~FileDownload
  BY <1>1, <1>7
     DEF ReadLoopStep, FileStart, FileStop, DirectoryStep, FileRequest, FileDelete, FileRename, Announce, UploadStart, UploadStartFails,
         UploadChunk, UploadChunkFails, UploadEnd, Ignored
<1> QED BY <1>1, <1>3, <1>4, <1>5, <1>6, <1>7 DEF Next, vars

\* Every step keeps the types, as long as no upload gets more chunks than announced.
LEMMA TypedStep == ASSUME TransferTyped, [Next]_vars, ChunkFits PROVE TransferTyped'
BY TabsTyped, ChannelTyped, AgentTyped, StreamsTyped DEF TransferTyped
-----------------------------------------------------------------------------
\* Tabs that were never opened

\* A tab that has not been opened stays without frames and reports.
LEMMA NewKeeps ==
    ASSUME TransferTyped, \A r \in Tabs : NewFits(r), [Next]_vars, NEW s \in Tabs
    PROVE  NewFits(s)'
<1>0. /\ tab \in [Tabs -> TabSet] /\ tab' \in [Tabs -> TabSet] /\ slot \in SessionId /\ None \notin Tabs
      /\ mgr.session \in SessionId /\ mgr \in ManagerSet
  BY TabsTyped, TransferAssumption DEF TransferTyped, ManagerSet
<1>1. SUFFICES ASSUME tab'[s].state = "new" PROVE NewFits(s)'
  BY DEF NewFits
<1>2. ASSUME NEW q, NEW r, Longer(q, r), \A i \in DOMAIN q : q[i].session # s,
             \A i \in Added(q, r) : r[i].session # s
      PROVE  \A i \in DOMAIN r : r[i].session # s
  BY <1>2 DEF Longer, Added
<1>3. ASSUME NEW q, NEW r, Shorter(q, r), \A i \in DOMAIN q : q[i].session # s
      PROVE  \A i \in DOMAIN r : r[i].session # s
  BY <1>3 DEF Shorter
\* It was new before, and nobody else is.
<1>4. ASSUME NEW r \in Tabs, BrowserStep(r) PROVE NewFits(s)'
  <2>1. s # r
    <3>1. CASE Open(r)
      BY <1>0, <1>1, <3>1 DEF Open
    <3>2. CASE ~Open(r)
      <4>1. tab[r].state # "new" /\ tab'[r].state # "new"
        <5>1. CASE Close(r)
          BY <1>0, <5>1 DEF Close, Closed, TabSet, NewFits
        <5>2. CASE ~Close(r)
          <6>1. tab[r].state # "new"
            BY <1>0, <1>4, <3>2, <5>2 DEF BrowserStep, SendChunk, StartUpload, StartDownload, Request, Idle, NewFits
          <6>2. tab'[r].state = tab[r].state
            <7>0. tab[r] \in TabSet
              BY <1>0
            <7>1. CASE \E f \in Files : StartDownload(r, f)
              BY <1>0, <7>0, <7>1 DEF StartDownload, TabSet
            <7>2. CASE StartUpload(r)
              BY <1>0, <7>0, <7>2 DEF StartUpload, TabSet
            <7>3. CASE SendChunk(r) \/ \E type \in {"list", "op"} : Request(r, type)
              BY <1>0, <7>0, <7>3 DEF SendChunk, Request, TabSet
            <7> QED BY <1>4, <3>2, <5>2, <7>1, <7>2, <7>3 DEF BrowserStep
          <6> QED BY <6>1, <6>2
        <5> QED BY <5>1, <5>2
      <4> QED BY <1>1, <4>1
    <3> QED BY <3>1, <3>2
  <2>2. tab[s].state = "new" /\ tab'[s] = tab[s] /\ slot' # s /\ mgr' = mgr /\ up' = up
    <3>1. CASE Open(r)
      <4>1. tab'[s] \in {tab[s], Closed(tab[s])} /\ Closed(tab[s]).state = "closed"
        BY <1>0, <2>1, <3>1, ClosedForms DEF Open
      <4>2. tab'[s] = tab[s]
        BY <1>1, <4>1
      <4> QED BY <1>1, <2>1, <3>1, <4>2 DEF Open
    <3>2. CASE ~Open(r)
      BY <1>0, <1>1, <1>4, <2>1, <3>2 DEF BrowserStep, Close, SendChunk, StartUpload, StartDownload, Request, Idle
    <3> QED BY <3>1, <3>2
  <2>3. NewFits(s)
    OBVIOUS
  <2>4. \A i \in DOMAIN down' : down'[i].session # s
    <3>1. Longer(down, down') /\ \A i \in Added(down, down') : down'[i].session # s
      <4>1. CASE Open(r)
        <5>1. Opened(r)
          BY <4>1, BrowserSends
        <5>2. slot # s
          BY <2>2, <2>3 DEF NewFits
        <5> QED BY <2>1, <5>1, <5>2 DEF Opened
      <4>2. CASE ~Open(r)
        <5>1. PICK type, f : OneMore(type, r, f)
          BY <1>4, <4>2, BrowserSends DEF BrowserStep
        <5>2. FrameOf(type, r, f).session = r
          BY DEF FrameOf
        <5> QED BY <2>1, <5>1, <5>2 DEF OneMore
      <4> QED BY <4>1, <4>2
    <3> QED BY <1>2, <2>2, <2>3, <3>1 DEF NewFits
  <2> QED BY <2>2, <2>3, <2>4 DEF NewFits
<1>5. CASE Relay
  <2>1. tab[s].state = "new" /\ tab'[s] = tab[s] /\ slot # s
    <3>1. CASE Current(up[1])
      <4>1. slot \in Tabs /\ tab' = [tab EXCEPT ![slot] = Shown(tab[slot], up[1])] /\ up[1] \in GoodReport
        BY <1>5, <3>1, RelaySends
      <4>2. tab[slot].state # "new"
        BY <4>1 DEF NewFits
      <4>3. Shown(tab[slot], up[1]).state # "new"
        <5>1. tab[slot] \in TabSet
          BY <1>0, <4>1
        <5> QED BY <4>2, <5>1 DEF Shown, TabSet
      <4> QED BY <1>0, <1>1, <4>1, <4>2, <4>3
    <3>2. CASE ~Current(up[1])
      <4>1. tab' = tab
        BY <1>5, <3>2, RelaySends
      <4> QED BY <1>1, <4>1 DEF NewFits
    <3> QED BY <3>1, <3>2
  <2>2. NewFits(s) /\ slot' = slot /\ mgr' = mgr
    BY <1>5 DEF Relay
  <2>3. \A i \in DOMAIN up' : up'[i].session # s
    BY <1>3, <1>5, <2>1, <2>2, RelaySends DEF NewFits
  <2>4. \A i \in DOMAIN down' : down'[i].session # s
    BY <1>2, <1>5, <2>1, <2>2, RelaySends DEF NewFits
  <2> QED BY <2>1, <2>2, <2>3, <2>4 DEF NewFits
\* The agent's steps leave the tabs alone, and stamp the session of a frame it had.
<1>6. ASSUME UNCHANGED <<slot, tab>>,
             (Longer(down, down') /\ Added(down, down') = {}) \/ Shorter(down, down'),
             Longer(up, up'), \A i \in Added(up, up') : up'[i].session # s, mgr'.session # s
      PROVE  NewFits(s)'
  <2>1. NewFits(s) /\ tab[s].state = "new"
    BY <1>1, <1>6
  <2>2. \A i \in DOMAIN up' : up'[i].session # s
    BY <1>2, <1>6, <2>1 DEF NewFits
  <2>3. \A i \in DOMAIN down' : down'[i].session # s
    BY <1>2, <1>3, <1>6, <2>1 DEF NewFits
  <2> QED BY <1>6, <2>1, <2>2, <2>3 DEF NewFits
<1>7. CASE ReadLoopStep
  <2>1. UNCHANGED <<slot, tab>> /\ down # <<>> /\ Took
    BY <1>7 DEF ReadLoopStep, FileStart, FileStop, FileDownload, DirectoryStep, FileRequest, FileDelete, FileRename, Announce, UploadStart, UploadStartFails,
         UploadChunk, UploadChunkFails, UploadEnd, Ignored, Arrives
  <2>2. Shorter(down, down') /\ 1 \in DOMAIN down
    BY <2>1, FrameTaken DEF TransferTyped
  <2>3. down[1].session # s /\ mgr.session # s /\ NewFits(s)
    BY <1>1, <2>1, <2>2 DEF NewFits
  <2>4. mgr'.session # s
    <3>1. CASE FileStart \/ FileStop
      BY <1>0, <2>3, <3>1 DEF FileStart, FileStop, Reset
    <3>2. CASE Announce
      BY <1>0, <2>3, <3>2 DEF Announce, UploadStart, ManagerSet
    <3>3. CASE UploadChunk \/ UploadChunkFails \/ UploadEnd
      BY <1>0, <2>3, <3>3 DEF UploadChunk, UploadChunkFails, UploadEnd, AfterEnd, ManagerSet
    <3>4. CASE FileDownload \/ UploadStartFails \/ Ignored \/ DirectoryStep
      BY <2>3, <3>4, DirectoryKeeps DEF FileDownload, UploadStartFails, Ignored
    <3> QED BY <1>7, <3>1, <3>2, <3>3, <3>4 DEF ReadLoopStep, Announce
  <2>5. Longer(up, up') /\ \A i \in Added(up, up') : up'[i].session # s
    <3>1. CASE up' = up
      BY <3>1, Same DEF TransferTyped
    <3>2. CASE FileStart \/ UploadStartFails \/ UploadChunkFails \/ UploadEnd
               \/ DirectoryStep
      <4>1. \E type : \E session \in {mgr.session, down[1].session} : OneReport(type, None, session)
        BY <3>2, AgentSends
      <4> QED BY <2>3, <4>1 DEF OneReport
    <3> QED BY <1>7, <3>1, <3>2 DEF ReadLoopStep, FileStop, FileDownload, Announce, UploadStart, UploadChunk, Ignored
  <2> QED BY <1>6, <2>1, <2>2, <2>4, <2>5
<1>8. ASSUME NEW r \in Tabs, StreamStep(r) PROVE NewFits(s)'
  <2>1. UNCHANGED <<slot, tab, down, mgr>>
    BY <1>8 DEF StreamStep, StreamOpens, StreamFails, StreamChecks, StreamSends, StreamEnds, StreamFinalCheck,
       StreamDone
  <2>2. Longer(down, down') /\ Added(down, down') = {}
    BY <2>1, Same DEF TransferTyped
  <2>3. mgr.session # s
    BY <1>1, <2>1 DEF NewFits
  <2>4. Longer(up, up') /\ \A i \in Added(up, up') : up'[i].session # s
    <3>1. CASE up' = up
      BY <3>1, Same DEF TransferTyped
    <3>2. CASE StreamFails(r) \/ StreamSends(r) \/ StreamDone(r)
      <4>1. \E type, piece : OneReport(type, piece, mgr.session)
        BY <3>2, StreamSent
      <4> QED BY <2>3, <4>1 DEF OneReport
    <3> QED BY <1>8, <3>1, <3>2 DEF StreamStep, StreamOpens, StreamChecks, StreamEnds, StreamFinalCheck
  <2> QED BY <1>6, <2>1, <2>2, <2>3, <2>4
<1>9. CASE ChannelLost
  <2>1. tab[s].state = "new" /\ tab'[s] = tab[s]
    <3>1. tab'[s] \in {tab[s], Closed(tab[s])} /\ Closed(tab[s]).state = "closed"
      BY <1>0, <1>9, ClosedForms DEF ChannelLost
    <3> QED BY <1>1, <3>1
  <2>2. slot' # s /\ mgr'.session # s /\ down' = <<>> /\ up' = <<>>
    BY <1>0, <1>9 DEF ChannelLost, NewManager
  <2>3. DOMAIN down' = {} /\ DOMAIN up' = {}
    BY <2>2
  <2> QED BY <2>1, <2>2, <2>3 DEF NewFits
<1>10. CASE UNCHANGED vars
  BY <1>10 DEF vars, NewFits
<1> QED BY <1>4, <1>5, <1>7, <1>8, <1>9, <1>10 DEF Next

-----------------------------------------------------------------------------
(* The upload frames in the queue *)

\* A tab's frames when a queue grows, and when its head is taken.
LEMMA FromLonger ==
    ASSUME NEW q, NEW r, Longer(q, r), NEW s, NEW types,
           \A i \in Added(q, r) : ~(r[i].session = s /\ r[i].type \in types)
    PROVE  From(r, s, types) = From(q, s, types) /\ \A i \in From(q, s, types) : r[i] = q[i]
BY DEF From, Longer, Added

Grown(q, r, x) ==
    /\ Longer(q, r) /\ Added(q, r) = {Len(q) + 1} /\ Len(r) = Len(q) + 1 /\ r[Len(q) + 1] = x

Gains(q, r, s, types) ==
    /\ Len(q) \in Nat /\ Len(q) + 1 \in From(r, s, types)
    /\ \A i \in From(r, s, types) : i = Len(q) + 1 \/ i \in From(q, s, types)
    /\ \A i \in From(q, s, types) : i \in 1..Len(q) /\ r[i] = q[i] /\ i \in From(r, s, types)

\* A frame of a tab that is appended is the only one the tab gains.
LEMMA FromAdded ==
    ASSUME NEW q, NEW r, NEW x, NEW s, NEW types, Grown(q, r, x), x.session = s, x.type \in types
    PROVE  Gains(q, r, s, types)
BY DEF From, Grown, Longer, Added, Gains

Moves(q, r, s, types) ==
    /\ \A i \in From(r, s, types) : i \in Nat /\ i >= 1 /\ i + 1 \in From(q, s, types) /\ r[i] = q[i + 1]
    /\ \A i \in From(q, s, types) : i \in Nat /\ i >= 1 /\ (i # 1 => i - 1 \in From(r, s, types) /\ r[i - 1] = q[i])

\* Taking the first frame moves the others of a tab one place forward.
LEMMA FromTail ==
    ASSUME NEW q, NEW r, NEW s, NEW types, Shorter(q, r)
    PROVE  Moves(q, r, s, types)
BY DEF From, Shorter, Moves

\* The numbers of the frames when the head is taken.
Shift(n) == [i \in Nat |-> n[i + 1]]

\* The numbering survives what is not an upload frame of the tab ...
LEMMA NumberLonger ==
    ASSUME NEW q, NEW r, Longer(q, r), NEW s,
           \A i \in Added(q, r) : ~(r[i].session = s /\ r[i].type \in Uploading),
           NEW n, NEW from, NEW last, NumberedIn(q, n, s, from, last)
    PROVE  NumberedIn(r, n, s, from, last)
BY FromLonger DEF NumberedIn

\* Taking a frame that is no upload frame of the tab keeps the numbering of the rest.
LEMMA NumberTail ==
    ASSUME NEW q, NEW r, Shorter(q, r), NEW s, 1 \notin From(q, s, Uploading),
           NEW n \in [Nat -> Nat], NEW from, NEW last, NumberedIn(q, n, s, from, last)
    PROVE  NumberedIn(r, Shift(n), s, from, last)
<1>1. /\ \A i \in From(r, s, Uploading) : i \in Nat /\ i + 1 \in From(q, s, Uploading) /\ r[i] = q[i + 1]
      /\ \A i \in From(q, s, Uploading) : i \in Nat /\ i - 1 \in From(r, s, Uploading)
  <2>1. Moves(q, r, s, Uploading)
    BY FromTail
  <2> QED BY <2>1 DEF Moves
<1>2. \A i \in From(r, s, Uploading) : Shift(n)[i] = n[i + 1]
  BY <1>1 DEF Shift
<1>3. \A i \in From(r, s, Uploading) : Shift(n)[i] \in from..last /\ KindFits(r[i].type, Shift(n)[i])
  BY <1>1, <1>2 DEF NumberedIn
<1>4. \A i, k \in From(r, s, Uploading) : i < k => Shift(n)[i] < Shift(n)[k]
  BY <1>1, <1>2 DEF NumberedIn
<1>5. ASSUME NEW v \in from..last PROVE \E i \in From(r, s, Uploading) : Shift(n)[i] = v
  <2>1. PICK i \in From(q, s, Uploading) : n[i] = v
    BY DEF NumberedIn
  <2>2. i - 1 \in From(r, s, Uploading) /\ Shift(n)[i - 1] = n[(i - 1) + 1] /\ (i - 1) + 1 = i
    BY <1>1, <1>2
  <2> QED BY <2>1, <2>2
<1> QED BY <1>3, <1>4, <1>5 DEF NumberedIn

\* ... the head is the one the agent needs ...
LEMMA NumberHead ==
    ASSUME NEW q, NEW r, Shorter(q, r), NEW s, 1 \in From(q, s, Uploading),
           NEW n \in [Nat -> Nat], NEW from \in Nat, NEW last \in Int, NumberedIn(q, n, s, from, last)
    PROVE  /\ n[1] = from /\ from <= last /\ KindFits(q[1].type, from)
           /\ NumberedIn(r, Shift(n), s, from + 1, last)
<1>1. /\ \A i \in From(r, s, Uploading) : i \in Nat /\ i >= 1 /\ i + 1 \in From(q, s, Uploading) /\ r[i] = q[i + 1]
      /\ \A i \in From(q, s, Uploading) : i \in Nat /\ i >= 1 /\ (i # 1 => i - 1 \in From(r, s, Uploading))
  BY FromTail DEF Moves
<1>2. \A i \in From(q, s, Uploading) : n[i] \in from..last /\ KindFits(q[i].type, n[i])
  BY DEF NumberedIn
<1>3. n[1] = from /\ from <= last
  <2>1. n[1] \in from..last
    BY <1>2
  <2>2. PICK i \in From(q, s, Uploading) : n[i] = from
    BY <2>1 DEF NumberedIn
  <2>3. i # 1 => n[1] < n[i]
    BY <1>1 DEF NumberedIn
  <2> QED BY <2>1, <2>2, <2>3
<1>4. \A i \in From(r, s, Uploading) : Shift(n)[i] = n[i + 1]
  BY <1>1 DEF Shift
<1>5. ASSUME NEW i \in From(r, s, Uploading)
      PROVE  Shift(n)[i] \in (from + 1)..last /\ KindFits(r[i].type, Shift(n)[i])
  <2>1. i \in Nat /\ 1 < i + 1 /\ i + 1 \in From(q, s, Uploading)
    BY <1>1
  <2>2. n[1] < n[i + 1]
    BY <2>1 DEF NumberedIn
  <2>3. n[i + 1] \in from..last /\ KindFits(q[i + 1].type, n[i + 1])
    BY <1>2, <2>1
  <2>4. n[i + 1] \in (from + 1)..last
    BY <1>3, <2>2, <2>3
  <2> QED BY <1>1, <1>4, <2>3, <2>4
<1>6. \A i, k \in From(r, s, Uploading) : i < k => Shift(n)[i] < Shift(n)[k]
  BY <1>1, <1>4 DEF NumberedIn
<1>7. ASSUME NEW v \in (from + 1)..last PROVE \E i \in From(r, s, Uploading) : Shift(n)[i] = v
  <2>1. v \in from..last /\ v # from
    OBVIOUS
  <2>2. PICK i \in From(q, s, Uploading) : n[i] = v
    BY <2>1 DEF NumberedIn
  <2>3. i # 1 /\ i - 1 \in From(r, s, Uploading)
    BY <1>1, <1>3, <2>1, <2>2
  <2>4. Shift(n)[i - 1] = n[(i - 1) + 1] /\ (i - 1) + 1 = i
    BY <1>1, <1>4, <2>3
  <2> QED BY <2>2, <2>3, <2>4
<1> QED BY <1>2, <1>3, <1>5, <1>6, <1>7 DEF NumberedIn

\* ... and a frame that is sent is numbered next.
Follows(next, last) == next \in Nat /\ last \in Int /\ next = last + 1

\* A new upload frame of the tab is numbered by what the tab sends next.
LEMMA NumberAdded ==
    ASSUME NEW q, NEW r, NEW x, Grown(q, r, x), NEW s, x.session = s, x.type \in Uploading,
           NEW n \in [Nat -> Nat], NEW from \in Nat, NEW last, NumberedIn(q, n, s, from, last),
           NEW next, Follows(next, last), KindFits(x.type, next)
    PROVE  \E m \in [Nat -> Nat] : NumberedIn(r, m, s, from, next)
<1>0. last \in Int /\ next \in Nat /\ next = last + 1
  BY DEF Follows
<1>1. Gains(q, r, s, Uploading)
  BY FromAdded
<1>2. PICK e \in Nat : e = Len(q) + 1
  BY DEF Grown, Longer
<1>3. PICK A : A = From(q, s, Uploading)
  OBVIOUS
<1>4. PICK m \in [Nat -> Nat] : m = [n EXCEPT ![e] = next]
  BY <1>0
<1>5. From(r, s, Uploading) = A \union {e} /\ Len(q) \in Nat /\ \A i \in A : i \in Nat /\ i < e /\ r[i] = q[i]
  <2>1. From(r, s, Uploading) = A \union {e} /\ \A i \in A : i \in 1..Len(q) /\ r[i] = q[i]
    BY <1>1, <1>2, <1>3 DEF Gains
  <2>2. Len(q) \in Nat
    BY <1>1 DEF Gains
  <2>3. \A i \in 1..Len(q) : i \in Nat /\ i < e
    BY <1>2, <2>2
  <2> QED BY <2>1, <2>2, <2>3
<1>6. m[e] = next /\ \A i \in A : m[i] = n[i]
  BY <1>4, <1>5
<1>7. from <= next /\ \A i \in A : n[i] \in from..last /\ KindFits(q[i].type, n[i])
  BY <1>0, <1>3 DEF NumberedIn
<1>8. /\ \A i, k \in A : i < k => n[i] < n[k]
      /\ \A v \in from..last : \E i \in A : n[i] = v
  BY <1>0, <1>3 DEF NumberedIn
<1>9. next \in from..next /\ \A v \in from..last : v \in from..next /\ v < next
  <2>1. next \in from..next
    BY <1>0, <1>7
  <2>2. ASSUME NEW v \in from..last PROVE v \in from..next /\ v < next
    BY <1>0, <2>2
  <2> QED BY <2>1, <2>2
<1>10. \A i \in A \union {e} : m[i] \in from..next /\ KindFits(r[i].type, m[i])
  <2>1. m[e] \in from..next /\ KindFits(r[e].type, m[e])
    BY <1>0, <1>2, <1>6, <1>9 DEF Grown
  <2>2. \A i \in A : m[i] \in from..next /\ KindFits(r[i].type, m[i])
    BY <1>5, <1>6, <1>7, <1>9
  <2> QED BY <2>1, <2>2
<1>11. \A i, k \in A \union {e} : i < k => m[i] < m[k]
  <2>1. \A i, k \in A : i < k => m[i] < m[k]
    BY <1>6, <1>8
  <2>2. \A i \in A : m[i] < m[e] /\ ~(e < i)
    <3>1. ASSUME NEW i \in A PROVE m[i] < m[e] /\ ~(e < i)
      <4>1. n[i] < next
        BY <1>7, <1>9
      <4>2. i \in Nat /\ i < e
        BY <1>5
      <4> QED BY <1>6, <4>1, <4>2
    <3> QED BY <3>1
  <2>3. ~(e < e)
    OBVIOUS
  <2> QED BY <2>1, <2>2, <2>3
<1>12. ASSUME NEW v \in from..next PROVE \E i \in A \union {e} : m[i] = v
  <2>1. CASE v = next
    BY <1>6, <2>1
  <2>2. CASE v # next
    <3>1. v \in from..last
      BY <1>0, <2>2
    <3> QED BY <1>6, <1>8, <3>1
  <2> QED BY <2>1, <2>2
<1>13. NumberedIn(r, m, s, from, next)
  <2>1. From(r, s, Uploading) = A \union {e}
    BY <1>5
  <2>2. from <= next + 1
    BY <1>0, <1>7
  <2> QED BY <1>10, <1>11, <1>12, <2>1, <2>2 DEF NumberedIn
<1> QED BY <1>13

\* No announcement is among frames that are numbered from one on.
LEMMA NumberedOn ==
    ASSUME NEW q, NEW n, NEW s, NEW from \in Nat \ {0}, NEW last \in Int, NumberedIn(q, n, s, from, last)
    PROVE  From(q, s, {"upload_start"}) = {}
<1>1. \A i \in From(q, s, {"upload_start"}) : i \in From(q, s, Uploading) /\ q[i].type = "upload_start"
  BY DEF From, Uploading
<1>2. \A i \in From(q, s, Uploading) : q[i].type # "upload_start"
  <2>1. \A v \in from..last : v # 0
    OBVIOUS
  <2>2. \A i \in From(q, s, Uploading) : n[i] # 0 /\ KindFits(q[i].type, n[i])
    BY <2>1 DEF NumberedIn
  <2> QED BY <2>2 DEF KindFits
<1> QED BY <1>1, <1>2

-----------------------------------------------------------------------------
(* Uploads *)

\* Nothing about the upload changes, whatever else moves in the queue.
LEMMA UploadStays ==
    ASSUME NEW s \in Tabs, NEW n, NEW m, UploadFits(n, s),
           \A from : NumberedIn(down, n, s, from, tab[s].sent) => NumberedIn(down', m, s, from, tab[s].sent),
           Quiet(s, {"upload_start"}) => Quiet(s, {"upload_start"})', Quiet(s, Uploading) => Quiet(s, Uploading)',
           Busy(s)' <=> Busy(s), Busy(s) => mgr'.received = mgr.received,
           tab'[s].sent = tab[s].sent, tab'[s].uploaded = tab[s].uploaded
    PROVE  UploadFits(m, s)'
<1>1. Arriving(n, s) => Arriving(m, s)'
  BY DEF Arriving, Numbered
<1>2. Announced(n, s) => Announced(m, s)'
  BY DEF Announced, Numbered
<1>3. Over(s) => Over(s)'
  BY DEF Over
<1>4. Arriving(m, s)' \/ Announced(m, s)' \/ Over(s)'
  BY <1>1, <1>2, <1>3 DEF UploadFits
<1>5. ~tab'[s].uploaded => ~Busy(s)' /\ Quiet(s, Uploading)'
  BY DEF UploadFits
<1> QED BY <1>4, <1>5 DEF UploadFits

\* The upload is over.
LEMMA UploadEnds ==
    ASSUME NEW s \in Tabs, NEW m, ~Busy(s)', Quiet(s, {"upload_start"})',
           tab'[s].uploaded \/ Quiet(s, Uploading)'
    PROVE  UploadFits(m, s)'
BY DEF UploadFits, Over

\* The queue grows by what is not an upload frame of the tab.
LEMMA UploadMore ==
    ASSUME NEW s \in Tabs, NEW n, UploadFits(n, s), Longer(down, down'),
           \A i \in Added(down, down') : ~(down'[i].session = s /\ down'[i].type \in Uploading),
           mgr' = mgr, tab'[s].sent = tab[s].sent, tab'[s].uploaded = tab[s].uploaded
    PROVE  UploadFits(n, s)'
<1>1. From(down', s, Uploading) = From(down, s, Uploading)
  BY FromLonger
<1>2. \A i \in Added(down, down') : ~(down'[i].session = s /\ down'[i].type \in {"upload_start"})
  BY DEF Uploading
<1>3. From(down', s, {"upload_start"}) = From(down, s, {"upload_start"})
  BY <1>2, FromLonger
<1>4. \A from : NumberedIn(down, n, s, from, tab[s].sent) => NumberedIn(down', n, s, from, tab[s].sent)
  BY NumberLonger
<1>5. /\ Quiet(s, {"upload_start"}) => Quiet(s, {"upload_start"})'
      /\ Quiet(s, Uploading) => Quiet(s, Uploading)'
  BY <1>1, <1>3 DEF Quiet
<1>6. Busy(s)' <=> Busy(s)
  BY DEF Busy
<1> QED BY <1>4, <1>5, <1>6, UploadStays

\* The head is taken and is not an upload frame of the tab.
LEMMA UploadPassed ==
    ASSUME NEW s \in Tabs, NEW n \in [Nat -> Nat], UploadFits(n, s), Shorter(down, down'),
           1 \notin From(down, s, Uploading), UNCHANGED tab,
           Busy(s)' <=> Busy(s), Busy(s) => mgr'.received = mgr.received
    PROVE  UploadFits(Shift(n), s)'
<1>1. \A from : NumberedIn(down, n, s, from, tab[s].sent) => NumberedIn(down', Shift(n), s, from, tab[s].sent)
  BY NumberTail
<1>2. Moves(down, down', s, Uploading) /\ Moves(down, down', s, {"upload_start"})
  BY FromTail
<1>3. /\ Quiet(s, {"upload_start"}) => Quiet(s, {"upload_start"})'
      /\ Quiet(s, Uploading) => Quiet(s, Uploading)'
  BY <1>2 DEF Quiet, Moves
<1> QED BY <1>1, <1>3, UploadStays

\* The agent takes an upload frame of the tab: it is the announcement, the chunk or the
\* end that comes next, or the upload is over.
Needed(n, s, from) ==
    /\ from <= tab[s].sent /\ KindFits(down[1].type, from)
    /\ NumberedIn(down', Shift(n), s, from + 1, tab[s].sent)

\* The upload frame the agent reads next: it continues the file, announces it, or comes
\* after the end of its upload.
LEMMA UploadHead ==
    ASSUME TransferTyped, NEW s \in Tabs, NEW n \in [Nat -> Nat], UploadFits(n, s), Shorter(down, down'),
           down[1].session = s, down[1].type \in Uploading
    PROVE  /\ tab[s].uploaded /\ From(down', s, {"upload_start"}) = {}
           /\ \/ Arriving(n, s) /\ Needed(n, s, mgr.received + 1) /\ down[1].type # "upload_start"
              \/ Announced(n, s) /\ Needed(n, s, 0) /\ down[1].type = "upload_start"
              \/ Over(s) /\ down[1].type # "upload_start"
<1>0. 1 \in From(down, s, Uploading) /\ (down[1].type = "upload_start" => 1 \in From(down, s, {"upload_start"}))
  BY DEF Shorter, From
<1>1. tab[s].uploaded
  BY <1>0 DEF UploadFits, Quiet
<1>2. mgr.received \in 0..Chunks /\ tab[s].sent \in 0..(Chunks + 1)
  BY DEF TransferTyped, ManagerSet, TabSet
<1>3. ASSUME NEW from \in Nat, NumberedIn(down, n, s, from, tab[s].sent)
      PROVE  Needed(n, s, from) /\ From(down', s, {"upload_start"}) = {}
  <2>1. tab[s].sent \in Int
    BY <1>2, TransferAssumption
  <2>2. from <= tab[s].sent /\ KindFits(down[1].type, from) /\ NumberedIn(down', Shift(n), s, from + 1, tab[s].sent)
    BY <1>0, <1>3, <2>1, NumberHead
  <2>3. from + 1 \in Nat \ {0}
    OBVIOUS
  <2>4. From(down', s, {"upload_start"}) = {}
    BY <2>1, <2>2, <2>3, NumberedOn
  <2> QED BY <2>2, <2>4 DEF Needed
<1>4. CASE Arriving(n, s)
  <2>1. PICK from \in Nat \ {0} : from = mgr.received + 1
    BY <1>2, TransferAssumption
  <2>2. NumberedIn(down, n, s, from, tab[s].sent)
    BY <1>4, <2>1 DEF Arriving, Numbered
  <2>3. Needed(n, s, from) /\ From(down', s, {"upload_start"}) = {}
    BY <1>3, <2>2
  <2>4. down[1].type # "upload_start"
    BY <2>3 DEF Needed, KindFits
  <2> QED BY <1>1, <1>4, <2>1, <2>3, <2>4
<1>5. CASE Announced(n, s)
  <2>1. NumberedIn(down, n, s, 0, tab[s].sent)
    BY <1>5 DEF Announced, Numbered
  <2>2. Needed(n, s, 0) /\ From(down', s, {"upload_start"}) = {}
    BY <1>3, <2>1
  <2>3. down[1].type = "upload_start"
    BY <2>2 DEF Needed, KindFits
  <2> QED BY <1>1, <1>5, <2>2, <2>3
<1>6. CASE Over(s)
  <2>1. down[1].type # "upload_start"
    BY <1>0, <1>6 DEF Over, Quiet
  <2>2. Moves(down, down', s, {"upload_start"})
    BY FromTail
  <2>3. From(down', s, {"upload_start"}) = {}
    BY <1>6, <2>2 DEF Over, Quiet, Moves
  <2> QED BY <1>1, <1>6, <2>1, <2>3
<1> QED BY <1>4, <1>5, <1>6 DEF UploadFits

\* An upload frame the agent acts on is the next of the upload under way.
LEMMA UploadNext ==
    ASSUME TransferTyped, UploadInv, down # <<>>, Took, down[1].type \in {"upload_chunk", "upload_end"},
           Mine, mgr.upload # None
    PROVE  /\ mgr.received \in 0..Chunks
           /\ down[1].type = "upload_chunk" => mgr.received < Chunks
           /\ down[1].type = "upload_end" => mgr.received = Chunks
<1>1. down[1].session \in Tabs /\ Shorter(down, down')
  BY FrameTaken DEF TransferTyped
<1>2. PICK s \in Tabs : s = mgr.session /\ down[1].session = s
  BY <1>1 DEF Mine
<1>3. PICK n \in [Nat -> Nat] : UploadFits(n, s)
  BY DEF UploadInv
<1>4. Arriving(n, s) /\ Needed(n, s, mgr.received + 1)
  <2>1. down[1].type \in Uploading
    BY DEF Uploading
  <2>2. ~Announced(n, s) /\ ~Over(s)
    BY <1>2 DEF Announced, Over, Busy
  <2> QED BY <1>1, <1>2, <1>3, <2>1, <2>2, UploadHead
<1>5. mgr.received \in 0..Chunks
  BY DEF TransferTyped, ManagerSet
<1>6. KindFits(down[1].type, mgr.received + 1)
  BY <1>4 DEF Needed
<1> QED BY <1>5, <1>6, TransferAssumption DEF KindFits

\* No more chunks are written than the file has.
LEMMA ChunksCounted == ASSUME TransferTyped, UploadInv, DiskFits PROVE ChunkFits
<1>1. SUFFICES ASSUME UploadChunk \/ UploadChunkFails
               PROVE  mgr.received < Chunks /\ (mgr.at # None => disk[mgr.at].chunks < Chunks)
  BY DEF ChunkFits
<1>2. down # <<>> /\ Took /\ down[1].type = "upload_chunk" /\ Mine /\ mgr.upload # None
  BY <1>1 DEF UploadChunk, UploadChunkFails, Arrives
<1>3. mgr.received < Chunks
  BY <1>2, UploadNext
<1> QED BY <1>2, <1>3 DEF DiskFits

\* The browsers
LEMMA UploadsSent ==
    ASSUME TransferTyped, NEW r \in Tabs, BrowserStep(r), NEW s \in Tabs, NEW n \in [Nat -> Nat], UploadFits(n, s)
    PROVE  \E m \in [Nat -> Nat] : UploadFits(m, s)'
<1>0. tab \in [Tabs -> TabSet] /\ tab[s] \in TabSet /\ tab[s].sent \in 0..(Chunks + 1)
  BY DEF TransferTyped, TabSet
<1>1. mgr' = mgr
  BY DEF BrowserStep, Open, Close, StartUpload, SendChunk, StartDownload, Request
<1>2. CASE Open(r)
  <2>1. Opened(r)
    BY <1>2, BrowserSends
  <2>2. Longer(down, down') /\ \A i \in Added(down, down') : down'[i].type \notin Uploading
    BY <2>1 DEF Opened, Uploading
  <2>3. tab'[s].sent = tab[s].sent /\ tab'[s].uploaded = tab[s].uploaded
    <3>1. Closed(tab[s]).sent = tab[s].sent /\ Closed(tab[s]).uploaded = tab[s].uploaded
      BY <1>0, ClosedForms
    <3> QED BY <1>0, <1>2, <3>1 DEF Open, Closed, TabSet
  <2> QED BY <1>1, <2>2, <2>3, UploadMore
<1>3. CASE Close(r) \/ (\E f \in Files : StartDownload(r, f)) \/ \E type \in {"list", "op"} : Request(r, type)
  <2>1. PICK type, f : OneMore(type, r, f) /\ type \notin Uploading
    BY <1>3, BrowserSends DEF Uploading
  <2>2. Longer(down, down') /\ \A i \in Added(down, down') : down'[i].type \notin Uploading
    BY <2>1 DEF OneMore, FrameOf
  <2>3. tab'[s].sent = tab[s].sent /\ tab'[s].uploaded = tab[s].uploaded
    <3>1. CASE Close(r)
      <4>1. \A t \in TabSet : Closed(t).sent = t.sent /\ Closed(t).uploaded = t.uploaded
        BY ClosedForms
      <4> QED BY <1>0, <3>1, <4>1 DEF Close
    <3>2. ASSUME NEW g \in Files, StartDownload(r, g)
          PROVE  tab'[s].sent = tab[s].sent /\ tab'[s].uploaded = tab[s].uploaded
      BY <1>0, <3>2 DEF StartDownload, TabSet
    <3>3. ASSUME NEW kind \in {"list", "op"}, Request(r, kind)
          PROVE  tab'[s].sent = tab[s].sent /\ tab'[s].uploaded = tab[s].uploaded
      BY <1>0, <3>3 DEF Request, TabSet
    <3> QED BY <1>3, <3>1, <3>2, <3>3
  <2> QED BY <1>1, <2>2, <2>3, UploadMore
<1>4. CASE (StartUpload(r) \/ SendChunk(r)) /\ r # s
  <2>1. PICK type, f : OneMore(type, r, f)
    BY <1>4, BrowserSends
  <2>2. Longer(down, down') /\ \A i \in Added(down, down') : down'[i].session # s
    BY <1>4, <2>1 DEF OneMore, FrameOf
  <2>3. tab'[s] = tab[s]
    BY <1>0, <1>4 DEF StartUpload, SendChunk
  <2> QED BY <1>1, <2>2, <2>3, UploadMore
<1>5. CASE StartUpload(s)
  <2>1. ~tab[s].uploaded
    BY <1>5 DEF StartUpload
  <2>2. ~Busy(s) /\ Quiet(s, Uploading)
    BY <2>1 DEF UploadFits
  <2>3. PICK x : x = FrameOf("upload_start", s, None)
    OBVIOUS
  <2>4. Grown(down, down', x) /\ x.session = s /\ x.type = "upload_start"
    BY <1>5, <2>3, BrowserSends DEF OneMore, Grown, FrameOf
  <2>5. PICK last \in Int : last = 0 - 1
    OBVIOUS
  <2>6. NumberedIn(down, n, s, 0, last)
    BY <2>2, <2>5 DEF NumberedIn, Quiet
  <2>7. PICK m \in [Nat -> Nat] : NumberedIn(down', m, s, 0, 0)
    <3>1. x.type \in Uploading /\ KindFits(x.type, 0) /\ Follows(0, last)
      BY <2>4, <2>5 DEF Uploading, KindFits, Follows
    <3> QED BY <2>4, <2>6, <3>1, NumberAdded
  <2>8. tab'[s].sent = 0 /\ tab'[s].uploaded
    BY <1>0, <1>5 DEF StartUpload, TabSet
  <2>9. Announced(m, s)'
    BY <1>1, <2>2, <2>7, <2>8 DEF Announced, Numbered, Busy
  <2>10. UploadFits(m, s)'
    BY <2>8, <2>9 DEF UploadFits
  <2> QED BY <2>10
<1>6. CASE SendChunk(s)
  <2>1. tab[s].uploaded /\ tab[s].sent <= Chunks
    BY <1>6 DEF SendChunk
  <2>2. PICK x : x = FrameOf(IF tab[s].sent < Chunks THEN "upload_chunk" ELSE "upload_end", s, None)
    OBVIOUS
  <2>3. Grown(down, down', x)
    BY <1>6, <2>2, BrowserSends DEF OneMore, Grown
  <2>4. x.session = s /\ x.type = IF tab[s].sent < Chunks THEN "upload_chunk" ELSE "upload_end"
    BY <2>2 DEF FrameOf
  <2>5. PICK next \in Nat : next = tab[s].sent + 1
    BY <1>0, TransferAssumption
  <2>6. x.type \in Uploading /\ KindFits(x.type, next) /\ x.type # "upload_start" /\ Follows(next, tab[s].sent)
    BY <1>0, <2>4, <2>5, TransferAssumption DEF Uploading, KindFits, Follows
  <2>7. tab'[s].sent = next /\ tab'[s].uploaded
    BY <1>0, <1>6, <2>1, <2>5 DEF SendChunk, TabSet
  <2>8. \A from \in Nat : NumberedIn(down, n, s, from, tab[s].sent) =>
          \E m \in [Nat -> Nat] : NumberedIn(down', m, s, from, next)
    <3>1. ASSUME NEW from \in Nat, NumberedIn(down, n, s, from, tab[s].sent)
          PROVE  \E m \in [Nat -> Nat] : NumberedIn(down', m, s, from, next)
      BY <2>3, <2>4, <2>6, <3>1, NumberAdded
    <3> QED BY <3>1
  <2>9. CASE Over(s)
    <3>1. \A i \in Added(down, down') : ~(down'[i].session = s /\ down'[i].type \in {"upload_start"})
      BY <2>3, <2>6 DEF Grown
    <3>2. Over(s)'
      BY <1>1, <2>3, <2>9, <3>1, FromLonger DEF Over, Quiet, Grown, Busy
    <3>3. UploadFits(n, s)'
      BY <1>1, <2>7, <3>2 DEF UploadFits
    <3> QED BY <3>3
  <2>10. CASE Arriving(n, s)
    <3>1. PICK from \in Nat : from = mgr.received + 1
      BY TransferAssumption DEF TransferTyped, ManagerSet
    <3>2. PICK m \in [Nat -> Nat] : NumberedIn(down', m, s, from, next)
      BY <2>8, <2>10, <3>1 DEF Arriving, Numbered
    <3>3. Arriving(m, s)'
      BY <1>1, <2>7, <2>10, <3>1, <3>2 DEF Arriving, Numbered, Busy
    <3>4. UploadFits(m, s)'
      BY <1>1, <2>7, <2>10, <3>3 DEF UploadFits, Arriving
    <3> QED BY <3>4
  <2>11. CASE Announced(n, s)
    <3>1. PICK m \in [Nat -> Nat] : NumberedIn(down', m, s, 0, next)
      BY <2>8, <2>11 DEF Announced, Numbered
    <3>2. Announced(m, s)'
      BY <1>1, <2>7, <2>11, <3>1 DEF Announced, Numbered, Busy
    <3>3. UploadFits(m, s)'
      BY <2>7, <3>2 DEF UploadFits
    <3> QED BY <3>3
  <2> QED BY <2>9, <2>10, <2>11 DEF UploadFits
<1> QED BY <1>2, <1>3, <1>4, <1>5, <1>6 DEF BrowserStep

\* The upload is given up while another frame is taken.
LEMMA UploadDropped ==
    ASSUME TransferTyped, NEW s \in Tabs, NEW n \in [Nat -> Nat], UploadFits(n, s), Shorter(down, down'),
           1 \notin From(down, s, Uploading), tab' = tab, Busy(s), ~Busy(s)'
    PROVE  UploadFits(n, s)'
<1>1. Arriving(n, s) /\ tab[s].uploaded
  BY DEF UploadFits, Announced, Over
<1>2. PICK from \in Nat \ {0} : from = mgr.received + 1
  <2>1. mgr.received \in 0..Chunks
    BY DEF TransferTyped, ManagerSet
  <2> QED BY <2>1, TransferAssumption
<1>3. NumberedIn(down, n, s, from, tab[s].sent)
  BY <1>1, <1>2 DEF Arriving, Numbered
<1>4. NumberedIn(down', Shift(n), s, from, tab[s].sent)
  BY <1>3, NumberTail
<1>5. tab[s].sent \in Int
  BY TransferAssumption DEF TransferTyped, TabSet
<1>6. From(down', s, {"upload_start"}) = {}
  BY <1>4, <1>5, NumberedOn
<1> QED BY <1>1, <1>6, UploadEnds DEF Quiet

\* The agent
LEMMA UploadsTaken ==
    ASSUME TransferTyped, ReadLoopStep, NEW s \in Tabs, NEW n \in [Nat -> Nat], UploadFits(n, s)
    PROVE  \E m \in [Nat -> Nat] : UploadFits(m, s)'
<1>0. mgr \in ManagerSet /\ tab' = tab /\ Shift(n) \in [Nat -> Nat] /\ None \notin Paths /\ None \notin Tabs
  <2>1. tab' = tab
    BY DEF ReadLoopStep, FileStart, FileStop, FileDownload, DirectoryStep, FileRequest, FileDelete, FileRename,
       UploadStart, UploadStartFails, UploadChunk, UploadChunkFails, UploadEnd, Ignored
  <2>2. Shift(n) \in [Nat -> Nat]
    BY DEF Shift
  <2> QED BY <2>1, <2>2, TransferAssumption DEF TransferTyped
<1>1. down # <<>> /\ Took
  BY DEF ReadLoopStep, FileStart, FileStop, FileDownload, DirectoryStep, FileRequest, FileDelete, FileRename,
     UploadStart, UploadStartFails, UploadChunk, UploadChunkFails, UploadEnd, Ignored, Arrives
<1>2. Shorter(down, down') /\ down[1].session \in Tabs
  BY <1>1, FrameTaken DEF TransferTyped
<1>3. mgr.session \in SessionId /\ mgr.received \in 0..Chunks
  BY <1>0 DEF ManagerSet
<1>4. CASE ~(down[1].session = s /\ down[1].type \in Uploading)
  <2>0. 1 \notin From(down, s, Uploading)
    BY <1>4 DEF From
  <2>1. \/ (Busy(s)' <=> Busy(s)) /\ (Busy(s) => mgr'.received = mgr.received)
        \/ Busy(s) /\ ~Busy(s)'
    <3>1. CASE FileStart \/ FileStop
      <4>1. mgr'.upload = None
        BY <3>1 DEF FileStart, FileStop, Reset
      <4> QED BY <4>1 DEF Busy
    <3>2. ASSUME NEW p \in Paths, UploadStart(p) PROVE ~Busy(s) /\ ~Busy(s)'
      <4>1. mgr.session # s
        BY <1>4, <3>2 DEF UploadStart, Arrives, Mine, Uploading
      <4>2. mgr'.session = mgr.session
        BY <1>0, <3>2 DEF UploadStart, ManagerSet
      <4> QED BY <4>1, <4>2 DEF Busy
    <3>3. CASE UploadChunk \/ UploadChunkFails \/ UploadEnd
      <4>1. mgr.session # s
        BY <1>4, <3>3 DEF UploadChunk, UploadChunkFails, UploadEnd, Arrives, Mine, Uploading
      <4>2. mgr'.session = mgr.session
        BY <1>0, <3>3 DEF UploadChunk, UploadChunkFails, UploadEnd, AfterEnd, ManagerSet
      <4> QED BY <4>1, <4>2 DEF Busy
    <3>4. CASE FileDownload \/ UploadStartFails \/ Ignored
      BY <3>4 DEF FileDownload, UploadStartFails, Ignored, Busy
    <3>5. CASE DirectoryStep
      BY <3>5, DirectoryKeeps DEF Busy
    <3> QED BY <3>1, <3>2, <3>3, <3>4, <3>5 DEF ReadLoopStep
  <2>2. UploadFits(Shift(n), s)' \/ UploadFits(n, s)'
    BY <1>0, <1>2, <2>0, <2>1, UploadPassed, UploadDropped
  <2> QED BY <1>0, <2>2
<1>5. CASE down[1].session = s /\ down[1].type \in Uploading
  <2>1. tab[s].uploaded /\ Quiet(s, {"upload_start"})'
    BY <1>2, <1>5, UploadHead DEF Quiet
  <2>2. \/ Arriving(n, s) /\ Needed(n, s, mgr.received + 1) /\ down[1].type # "upload_start"
        \/ Announced(n, s) /\ Needed(n, s, 0) /\ down[1].type = "upload_start"
        \/ Over(s) /\ down[1].type # "upload_start"
    BY <1>2, <1>5, UploadHead
  <2>4. ASSUME NEW p \in Paths, UploadStart(p) PROVE UploadFits(Shift(n), s)'
    <3>1. Needed(n, s, 0) /\ mgr.session = s
      BY <1>5, <2>2, <2>4 DEF UploadStart, Arrives, Mine
    <3>2. mgr'.upload = p /\ mgr'.received = 0 /\ mgr'.session = s
      BY <1>0, <2>4, <3>1 DEF UploadStart, ManagerSet
    <3>3. NumberedIn(down', Shift(n), s, 0 + 1, tab[s].sent)
      BY <3>1 DEF Needed
    <3>4. Arriving(Shift(n), s)'
      BY <1>0, <3>2, <3>3 DEF Arriving, Numbered, Busy
    <3> QED BY <1>0, <2>1, <3>4 DEF UploadFits
  <2>5. CASE UploadChunk
    <3>1. Busy(s)
      BY <1>5, <2>5 DEF UploadChunk, Mine, Busy
    <3>2. Arriving(n, s) /\ Needed(n, s, mgr.received + 1)
      BY <2>2, <3>1 DEF Announced, Over
    <3>3. PICK d \in Nat : d = mgr.received + 1
      BY <1>3, TransferAssumption
    <3>4. mgr'.upload = mgr.upload /\ mgr'.session = mgr.session /\ mgr'.received = d
      BY <1>0, <2>5, <3>3 DEF UploadChunk, ManagerSet
    <3>5. NumberedIn(down', Shift(n), s, d + 1, tab[s].sent)
      BY <3>2, <3>3 DEF Needed
    <3>6. Arriving(Shift(n), s)'
      BY <1>0, <3>1, <3>4, <3>5 DEF Arriving, Numbered, Busy
    <3>7. UploadFits(Shift(n), s)'
      BY <1>0, <2>1, <3>6 DEF UploadFits
    <3> QED BY <1>0, <3>7
  <2>6. CASE UploadChunkFails \/ UploadEnd
    <3>1. mgr'.upload = None
      BY <1>0, <2>6 DEF UploadChunkFails, UploadEnd, AfterEnd, ManagerSet
    <3>2. UploadFits(n, s)'
      BY <1>0, <2>1, <3>1, UploadEnds DEF Busy
    <3> QED BY <3>2
  <2>8. CASE UploadStartFails \/ Ignored
    <3>1. mgr' = mgr /\ ~Busy(s)
      BY <1>5, <2>8 DEF UploadStartFails, Ignored, Mine, Busy, Arrives, Uploading
    <3>2. UploadFits(n, s)'
      BY <1>0, <2>1, <3>1, UploadEnds DEF Busy
    <3> QED BY <3>2
  <2>9. ~FileStart /\ ~FileStop /\ ~FileDownload /\ ~DirectoryStep
    <3>1. ~FileStart /\ ~FileStop /\ ~FileDownload
      BY <1>5 DEF FileStart, FileStop, FileDownload, Arrives, Uploading
    <3>2. ~DirectoryStep
      BY <1>5, DirectoryKeeps DEF Uploading
    <3> QED BY <3>1, <3>2
  <2>10. ReadLoopStep => UploadStartFails \/ UploadChunk \/ UploadChunkFails \/ UploadEnd \/ Ignored
                         \/ \E p \in Paths : UploadStart(p)
    BY <2>9 DEF ReadLoopStep
  <2> QED BY <1>0, <2>4, <2>5, <2>6, <2>8, <2>10
<1> QED BY <1>4, <1>5

\* Every step keeps the numbering of every tab's upload frames.
LEMMA UploadStep == ASSUME TransferTyped, UploadInv, [Next]_vars PROVE UploadInv'
<1>1. SUFFICES ASSUME NEW s \in Tabs PROVE \E m \in [Nat -> Nat] : UploadFits(m, s)'
  BY DEF UploadInv
<1>2. PICK n \in [Nat -> Nat] : UploadFits(n, s)
  BY DEF UploadInv
<1>3. ASSUME NEW r \in Tabs, BrowserStep(r) PROVE \E m \in [Nat -> Nat] : UploadFits(m, s)'
  BY <1>2, <1>3, UploadsSent
<1>4. CASE ReadLoopStep
  BY <1>2, <1>4, UploadsTaken
<1>5. CASE Relay
  <2>1. /\ Longer(down, down') /\ \A i \in Added(down, down') : down'[i].type = "list"
        /\ up[1] \in GoodReport
        /\ IF Current(up[1]) THEN slot \in Tabs /\ tab' = [tab EXCEPT ![slot] = Shown(tab[slot], up[1])]
                             ELSE tab' = tab
    BY <1>5, RelaySends
  <2>2. \A i \in Added(down, down') : down'[i].type \notin Uploading
    BY <2>1 DEF Uploading
  <2>3. mgr' = mgr
    BY <1>5 DEF Relay
  <2>4. tab'[s].sent = tab[s].sent /\ tab'[s].uploaded = tab[s].uploaded
    <3>1. CASE tab'[s] = tab[s]
      BY <3>1
    <3>2. CASE tab'[s] = Shown(tab[s], up[1])
      <4>1. tab[s] \in TabSet
        BY DEF TransferTyped
      <4>2. PICK t : t = Shown(tab[s], up[1])
        OBVIOUS
      <4>3. t.sent = tab[s].sent /\ t.uploaded = tab[s].uploaded
        BY <2>1, <4>1, <4>2 DEF Shown, TabSet
      <4> QED BY <3>2, <4>2, <4>3
    <3> QED BY <2>1, <3>1, <3>2 DEF TransferTyped
  <2>5. UploadFits(n, s)'
    BY <1>2, <2>1, <2>2, <2>3, <2>4, UploadMore
  <2> QED BY <2>5
<1>6. CASE (\E r \in Tabs : StreamStep(r)) \/ UNCHANGED vars
  <2>1. UNCHANGED <<down, tab, mgr>>
    BY <1>6 DEF StreamStep, StreamOpens, StreamFails, StreamChecks, StreamSends, StreamEnds, StreamFinalCheck,
       StreamDone, vars
  <2>2. Longer(down, down') /\ Added(down, down') = {}
    BY <2>1, Same DEF TransferTyped
  <2>3. UploadFits(n, s)'
    BY <1>2, <2>1, <2>2, UploadMore
  <2> QED BY <2>3
<1>7. CASE ChannelLost
  <2>1. mgr'.upload = None /\ tab'[s].uploaded = tab[s].uploaded
    <3>1. tab[s] \in TabSet /\ Closed(tab[s]).uploaded = tab[s].uploaded
      BY ClosedForms DEF TransferTyped
    <3> QED BY <1>7, <3>1 DEF ChannelLost, NewManager
  <2>2. down' = <<>> /\ DOMAIN down' = {}
    BY <1>7 DEF ChannelLost
  <2>3. Quiet(s, {"upload_start"})' /\ Quiet(s, Uploading)'
    BY <2>2 DEF Quiet, From
  <2>4. UploadFits(n, s)'
    BY <2>1, <2>3, UploadEnds DEF Busy
  <2> QED BY <1>2, <2>4
<1> QED BY <1>3, <1>4, <1>5, <1>6, <1>7 DEF Next
-----------------------------------------------------------------------------
(* The files on disk *)

\* What a step of the read loop that keeps the files and the open one changes nothing of.
LEMMA DiskSame == ASSUME DiskFits, UNCHANGED disk,
                         mgr'.upload = mgr.upload /\ mgr'.at = mgr.at /\ mgr'.received = mgr.received
                  PROVE  DiskFits'
BY DEF DiskFits, UploadDoneIsComplete, NoTruncatedFile

\* Where no upload is under way no file is partial.
LEMMA DiskClosed ==
    ASSUME mgr'.upload = None, \A p \in Paths : disk'[p].state # "partial",
           \A p \in Paths : disk'[p].state = "finished" => disk'[p].chunks = Chunks
    PROVE  DiskFits'
BY DEF DiskFits, UploadDoneIsComplete, NoTruncatedFile

\* What the end of an upload leaves: no partial file, and the finished ones.
LEMMA DiscardedFits ==
    ASSUME TransferTyped, DiskFits
    PROVE  /\ Discarded \in [Paths -> DiskSet]
           /\ \A p \in Paths :
                /\ Discarded[p].state # "partial"
                /\ Discarded[p].state = "finished" => Discarded[p].chunks = Chunks
<1>1. disk \in [Paths -> DiskSet] /\ None \notin Paths /\ mgr.upload \in Paths \union {None}
  BY TransferAssumption DEF TransferTyped, ManagerSet
<1>2. Removed \in DiskSet /\ Removed.state = "absent"
  BY TransferAssumption DEF Removed, DiskSet
<1>3. Discarded \in [Paths -> DiskSet]
  BY <1>1, <1>2 DEF Discarded
<1>4. ASSUME NEW p \in Paths
      PROVE  Discarded[p].state # "partial" /\ (Discarded[p].state = "finished" => Discarded[p].chunks = Chunks)
  <2>1. CASE mgr.upload = p
    BY <1>1, <1>2, <2>1 DEF Discarded
  <2>2. CASE mgr.upload # p
    BY <1>1, <2>2 DEF Discarded, DiskFits, UploadDoneIsComplete, NoTruncatedFile
  <2> QED BY <2>1, <2>2
<1> QED BY <1>3, <1>4

\* A request may move or remove any file; it leaves none partial but the upload's.
LEMMA DirectoryFits == ASSUME TransferTyped, DiskFits, DirectoryStep PROVE DiskFits'
<1>1. /\ disk \in [Paths -> DiskSet] /\ None \notin Paths /\ mgr.at \in Paths \union {None}
      /\ mgr'.upload = mgr.upload /\ mgr'.received = mgr.received /\ mgr \in ManagerSet
  BY DirectoryKeeps, TransferAssumption DEF TransferTyped, ManagerSet
<1>2. Removed.state = "absent"
  BY DEF Removed
<1>3. CASE \E ok \in BOOLEAN : FileRequest(ok)
  BY <1>3, DiskSame DEF FileRequest
<1>4. ASSUME NEW ok \in BOOLEAN, NEW gone \in SUBSET Paths, FileDelete(ok, gone) PROVE DiskFits'
  <2>1. disk' = [p \in Paths |-> IF p \in gone THEN Removed ELSE disk[p]]
        /\ mgr'.at = IF mgr.at \in gone THEN None ELSE mgr.at
    BY <1>1, <1>4 DEF FileDelete, ManagerSet
  <2>2. UploadDoneIsComplete' /\ NoTruncatedFile'
    BY <1>1, <1>2, <2>1 DEF DiskFits, UploadDoneIsComplete, NoTruncatedFile
  <2>3. mgr'.upload # None /\ mgr'.at # None =>
          disk'[mgr'.at].state \in {"partial", "orphan"} /\ disk'[mgr'.at].chunks = mgr'.received
    BY <1>1, <2>1 DEF DiskFits
  <2> QED BY <2>2, <2>3 DEF DiskFits
<1>5. ASSUME NEW p \in Paths, NEW q \in Paths, FileRename(p, q) PROVE DiskFits'
  <2>1. PICK f : f = IF disk[p].state = "partial" THEN [disk[p] EXCEPT !.state = "orphan"] ELSE disk[p]
    OBVIOUS
  <2>2. /\ f.chunks = disk[p].chunks /\ f.state # "partial"
        /\ f.state = "finished" => disk[p].state = "finished"
        /\ disk[p].state \in {"partial", "orphan"} => f.state = "orphan"
    BY <1>1, <2>1 DEF DiskSet
  <2>3. /\ disk' = [disk EXCEPT ![p] = Removed, ![q] = f] /\ p # q
        /\ mgr'.at = IF mgr.at = p THEN q ELSE IF mgr.at = q THEN None ELSE mgr.at
    BY <1>1, <1>5, <2>1 DEF FileRename, ManagerSet
  <2>4. disk'[q] = f /\ disk'[p] = Removed /\ \A r \in Paths \ {p, q} : disk'[r] = disk[r]
    BY <1>1, <2>3
  <2>5. UploadDoneIsComplete' /\ NoTruncatedFile'
    BY <1>1, <1>2, <2>2, <2>3, <2>4 DEF DiskFits, UploadDoneIsComplete, NoTruncatedFile
  <2>6. mgr'.upload # None /\ mgr'.at # None =>
          disk'[mgr'.at].state \in {"partial", "orphan"} /\ disk'[mgr'.at].chunks = mgr'.received
    BY <1>1, <2>2, <2>3, <2>4 DEF DiskFits
  <2> QED BY <2>5, <2>6 DEF DiskFits
<1>6. CASE \E ok \in BOOLEAN : \E gone \in SUBSET Paths : FileDelete(ok, gone)
  BY <1>4, <1>6
<1>7. CASE \E p, q \in Paths : FileRename(p, q)
  BY <1>5, <1>7
<1> QED BY <1>3, <1>6, <1>7 DEF DirectoryStep

\* Every step keeps the files whole or under way.
LEMMA DiskStep == ASSUME TransferTyped, UploadInv, DiskFits, [Next]_vars PROVE DiskFits'
<1>1. /\ disk \in [Paths -> DiskSet] /\ None \notin Paths /\ mgr \in ManagerSet /\ Chunks \in Nat
      /\ mgr.at \in Paths \union {None} /\ mgr.upload \in Paths \union {None}
  BY TransferAssumption DEF TransferTyped, ManagerSet
<1>2. CASE FileStart \/ FileStop \/ UploadChunkFails
  <2>1. disk' = Discarded /\ mgr'.upload = None
    <3>1. CASE FileStart \/ FileStop
      BY <3>1 DEF FileStart, FileStop, Reset
    <3>2. CASE UploadChunkFails
      BY <1>1, <3>2 DEF UploadChunkFails, ManagerSet
    <3> QED BY <1>2, <3>1, <3>2
  <2> QED BY <2>1, DiscardedFits, DiskClosed
<1>3. ASSUME NEW p \in Paths, UploadStart(p) PROVE DiskFits'
  <2>1. PICK f : f = [chunks |-> 0, state |-> "partial"]
    OBVIOUS
  <2>2. disk' = [Discarded EXCEPT ![p] = f] /\ mgr'.upload = p /\ mgr'.at = p /\ mgr'.received = 0
    BY <1>1, <1>3, <2>1 DEF UploadStart, ManagerSet
  <2>3. disk'[p] = f /\ \A r \in Paths \ {p} : disk'[r] = Discarded[r]
    BY <2>2, DiscardedFits
  <2>4. UploadDoneIsComplete' /\ NoTruncatedFile'
    BY <2>1, <2>2, <2>3, DiscardedFits DEF UploadDoneIsComplete, NoTruncatedFile
  <2> QED BY <2>1, <2>2, <2>3, <2>4 DEF DiskFits
<1>4. CASE UploadChunk
  <2>1. mgr'.upload = mgr.upload /\ mgr'.at = mgr.at /\ mgr'.received = mgr.received + 1 /\ mgr.upload # None
    BY <1>1, <1>4 DEF UploadChunk, ManagerSet
  <2>2. CASE mgr.at = None
    <3>1. disk' = disk
      BY <1>4, <2>2 DEF UploadChunk
    <3> QED BY <2>1, <2>2, <3>1 DEF DiskFits, UploadDoneIsComplete, NoTruncatedFile
  <2>3. CASE mgr.at # None
    <3>1. mgr.at \in Paths /\ disk[mgr.at] \in DiskSet
      BY <1>1, <2>3
    <3>2. PICK f : f = [disk[mgr.at] EXCEPT !.chunks = disk[mgr.at].chunks + 1]
      OBVIOUS
    <3>3. f.state = disk[mgr.at].state /\ f.chunks = mgr.received + 1 /\ f.state \in {"partial", "orphan"}
      BY <2>1, <2>3, <3>1, <3>2 DEF DiskSet, DiskFits
    <3>4. disk' = [disk EXCEPT ![mgr.at] = f]
      BY <1>4, <2>3, <3>2 DEF UploadChunk
    <3>5. disk'[mgr.at] = f /\ \A r \in Paths \ {mgr.at} : disk'[r] = disk[r]
      BY <1>1, <3>1, <3>4
    <3>6. UploadDoneIsComplete' /\ NoTruncatedFile'
      BY <2>1, <3>1, <3>3, <3>5 DEF DiskFits, UploadDoneIsComplete, NoTruncatedFile
    <3> QED BY <2>1, <3>3, <3>5, <3>6 DEF DiskFits
  <2> QED BY <2>2, <2>3
<1>5. CASE UploadEnd
  <2>1. mgr'.upload = None /\ mgr.upload # None
    BY <1>1, <1>5 DEF UploadEnd, AfterEnd, ManagerSet
  <2>2. mgr.received = Chunks
    BY <1>5, UploadNext DEF UploadEnd, Arrives
  <2>3. CASE mgr.at = None
    <3>1. disk' = disk
      BY <1>5, <2>3 DEF UploadEnd
    <3>2. \A p \in Paths : disk[p].state # "partial"
      BY <1>1, <2>3 DEF DiskFits, NoTruncatedFile
    <3> QED BY <2>1, <3>1, <3>2, DiskClosed DEF DiskFits, UploadDoneIsComplete
  <2>4. CASE mgr.at # None
    <3>1. mgr.at \in Paths /\ disk[mgr.at] \in DiskSet
      BY <1>1, <2>4
    <3>2. PICK f : f = [disk[mgr.at] EXCEPT !.state = "finished"]
      OBVIOUS
    <3>3. f.state = "finished" /\ f.chunks = Chunks
      BY <2>1, <2>2, <2>4, <3>1, <3>2 DEF DiskSet, DiskFits
    <3>4. disk' = [disk EXCEPT ![mgr.at] = f]
      BY <1>5, <2>4, <3>2 DEF UploadEnd
    <3>5. disk'[mgr.at] = f /\ \A r \in Paths \ {mgr.at} : disk'[r] = disk[r]
      BY <1>1, <3>1, <3>4
    <3>6. /\ \A p \in Paths : disk'[p].state # "partial"
          /\ \A p \in Paths : disk'[p].state = "finished" => disk'[p].chunks = Chunks
      BY <3>1, <3>3, <3>5 DEF DiskFits, UploadDoneIsComplete, NoTruncatedFile
    <3> QED BY <2>1, <3>6, DiskClosed
  <2> QED BY <2>3, <2>4
<1>6. CASE DirectoryStep
  BY <1>6, DirectoryFits
<1>7. CASE ChannelLost
  <2>1. mgr'.upload = None
    BY <1>7 DEF ChannelLost, NewManager
  <2>2. ASSUME NEW p \in Paths
        PROVE  disk'[p].state # "partial" /\ (disk'[p].state = "finished" => disk'[p].chunks = Chunks)
    <3>1. disk[p] \in DiskSet /\ disk'[p] = IF disk[p].state = "partial" THEN [disk[p] EXCEPT !.state = "orphan"] ELSE disk[p]
      BY <1>1, <1>7 DEF ChannelLost
    <3> QED BY <3>1 DEF DiskSet, DiskFits, UploadDoneIsComplete
  <2> QED BY <2>1, <2>2, DiskClosed
<1>8. CASE FileDownload \/ UploadStartFails \/ Ignored \/ Relay \/ UNCHANGED vars
  BY <1>8, DiskSame DEF FileDownload, UploadStartFails, Ignored, Relay, vars
<1>9. CASE \E s \in Tabs : BrowserStep(s)
  BY <1>9, DiskSame DEF BrowserStep, Open, Close, StartUpload, SendChunk, StartDownload, Request
<1>10. CASE \E s \in Tabs : StreamStep(s)
  BY <1>10, DiskSame DEF StreamStep, StreamOpens, StreamFails, StreamChecks, StreamSends, StreamEnds,
     StreamFinalCheck, StreamDone
<1> QED BY <1>2, <1>3, <1>4, <1>5, <1>6, <1>7, <1>8, <1>9, <1>10 DEF Next, ReadLoopStep

\* A step touches a finished upload only on the word of the frame that arrives, or where a
\* rename has put it in the place of the upload that ends.
LEMMA FinishedKept ==
    ASSUME TransferTyped, DiskFits, [Next]_vars, NEW p \in Paths, disk[p].state = "finished", disk'[p] # disk[p]
    PROVE  \/ Arrives("upload_start") /\ Mine /\ Took /\ mgr'.upload = p
           \/ Arrives("op") /\ Mine /\ Took
           \/ mgr.upload = p /\ mgr.at # p
<1>1. /\ disk \in [Paths -> DiskSet] /\ None \notin Paths /\ mgr \in ManagerSet
      /\ mgr.at \in Paths \union {None} /\ mgr.upload \in Paths \union {None}
  BY TransferAssumption DEF TransferTyped, ManagerSet
<1>2. mgr.upload # None => mgr.at # p
  BY <1>1 DEF DiskFits
<1>3. Discarded[p] # disk[p] => mgr.upload = p
  BY <1>1 DEF Discarded
<1>4. CASE FileStart \/ FileStop \/ UploadChunkFails
  BY <1>1, <1>2, <1>3, <1>4 DEF FileStart, FileStop, UploadChunkFails
<1>5. ASSUME NEW q \in Paths, UploadStart(q)
      PROVE  \/ Arrives("upload_start") /\ Mine /\ Took /\ mgr'.upload = p
             \/ mgr.upload = p /\ mgr.at # p
  <2>1. mgr'.upload = q /\ Arrives("upload_start") /\ Mine /\ Took
    BY <1>1, <1>5 DEF UploadStart, ManagerSet
  <2>2. q # p => disk'[p] = Discarded[p]
    BY <1>1, <1>5, DiscardedFits DEF UploadStart
  <2> QED BY <1>1, <1>2, <1>3, <2>1, <2>2
<1>6. ~UploadChunk /\ ~UploadEnd
  BY <1>1, <1>2 DEF UploadChunk, UploadEnd
<1>7. CASE DirectoryStep
  BY <1>7 DEF DirectoryStep, FileRequest, FileDelete, FileRename
<1>8. ~ChannelLost
  BY <1>1 DEF ChannelLost
<1>9. ~FileDownload /\ ~UploadStartFails /\ ~Ignored /\ ~Relay /\ ~UNCHANGED vars
  BY DEF FileDownload, UploadStartFails, Ignored, Relay, vars
<1>10. ~\E s \in Tabs : BrowserStep(s) \/ StreamStep(s)
  BY DEF BrowserStep, Open, Close, StartUpload, SendChunk, StartDownload, Request, StreamStep, StreamOpens,
     StreamFails, StreamChecks, StreamSends, StreamEnds, StreamFinalCheck, StreamDone
<1> QED BY <1>4, <1>5, <1>6, <1>7, <1>8, <1>9, <1>10 DEF Next, ReadLoopStep

-----------------------------------------------------------------------------
(* Streams *)

\* What is still on its way to the agent of the download of a tab.
AskedOnce(s) == \A i, k \in From(down, s, {"download"}) : i = k

\* Nobody asks for the download while the agent works on another one.
LEMMA AskedStays ==
    ASSUME NEW s \in Tabs, AskedOnce(s),
           \/ Longer(down, down') /\ \A i \in Added(down, down') : ~(down'[i].session = s /\ down'[i].type = "download")
           \/ Shorter(down, down')
           \/ down' = <<>>
    PROVE  AskedOnce(s)' /\ (Quiet(s, {"download"}) => Quiet(s, {"download"})')
<1>1. CASE Longer(down, down') /\ \A i \in Added(down, down') : ~(down'[i].session = s /\ down'[i].type = "download")
  <2>1. \A i \in Added(down, down') : ~(down'[i].session = s /\ down'[i].type \in {"download"})
    BY <1>1
  <2>2. From(down', s, {"download"}) = From(down, s, {"download"})
    BY <1>1, <2>1, FromLonger
  <2> QED BY <2>2 DEF AskedOnce, Quiet
<1>2. CASE Shorter(down, down')
  <2>1. Moves(down, down', s, {"download"})
    BY <1>2, FromTail
  <2> QED BY <2>1 DEF Moves, AskedOnce, Quiet
<1>3. CASE down' = <<>>
  <2>1. DOMAIN down' = {}
    BY <1>3
  <2>2. From(down', s, {"download"}) = {}
    BY <2>1 DEF From
  <2> QED BY <2>2 DEF AskedOnce, Quiet
<1> QED BY <1>1, <1>2, <1>3

\* A stream that is left alone, while the generation may grow.
LEMMA StreamStays ==
    ASSUME TransferTyped, NEW s \in Tabs, StreamFits(s), AskedOnce(s)',
           Quiet(s, {"download"}) => Quiet(s, {"download"})', tab'[s].downloaded = tab[s].downloaded,
           stream'[s] = stream[s] \/ stream'[s].at = "off", late'[s] = late[s],
           mgr'.generation = mgr.generation \/ mgr'.generation = mgr.generation + 1 \/ stream'[s].at = "off"
    PROVE  StreamFits(s)'
<1>1. late[s] \in Nat /\ stream[s].gen \in Nat /\ mgr.generation \in Nat
  BY DEF TransferTyped, StreamSet, ManagerSet
<1>2. stream'[s].at # "off" => stream'[s] = stream[s] /\ stream[s].at # "off"
  OBVIOUS
<1>3. stream'[s].at # "off" \/ late'[s] > 0 => tab'[s].downloaded /\ Quiet(s, {"download"})'
  BY <1>2 DEF StreamFits
<1>4. ~tab'[s].downloaded => Quiet(s, {"download"})'
  BY DEF StreamFits
<1>5. stream'[s].at # "off" => stream'[s].gen <= mgr'.generation
  BY <1>1, <1>2 DEF StreamFits
<1>6. late'[s] <= 1
  BY DEF StreamFits
<1>7. late'[s] = 1 => stream'[s].at = "off" \/ (stream'[s].at = "check" /\ mgr'.generation # stream'[s].gen)
  <2>1. SUFFICES ASSUME late'[s] = 1, stream'[s].at # "off"
                 PROVE  stream'[s].at = "check" /\ mgr'.generation # stream'[s].gen
    OBVIOUS
  <2>2. stream[s].at = "check" /\ mgr.generation # stream[s].gen /\ stream[s].gen <= mgr.generation
    BY <1>2, <2>1 DEF StreamFits, Superseded
  <2> QED BY <1>1, <1>2, <2>1, <2>2
<1> QED BY <1>3, <1>4, <1>5, <1>6, <1>7 DEF StreamFits, AskedOnce, Superseded

\* The browsers and the relay.
LEMMA StreamsAsked ==
    ASSUME TransferTyped, NEW s \in Tabs, StreamFits(s), (\E r \in Tabs : BrowserStep(r)) \/ Relay
    PROVE  StreamFits(s)'
<1>0. tab \in [Tabs -> TabSet] /\ tab[s] \in TabSet /\ AskedOnce(s)
  BY DEF TransferTyped, StreamFits, AskedOnce
<1>1. mgr' = mgr /\ stream' = stream /\ late' = late
  BY DEF BrowserStep, Open, Close, StartUpload, SendChunk, StartDownload, Request, Relay
<1>2. CASE \E f \in Files : StartDownload(s, f)
  <2>1. PICK f \in Files : StartDownload(s, f)
    BY <1>2
  <2>2. ~tab[s].downloaded /\ tab'[s].downloaded
    BY <1>0, <2>1 DEF StartDownload, TabSet
  <2>3. From(down, s, {"download"}) = {} /\ stream[s].at = "off" /\ ~(late[s] > 0)
    BY <2>2 DEF StreamFits, Quiet
  <2>4. late[s] = 0
    BY <2>3 DEF TransferTyped
  <2>5. PICK x : x = FrameOf("download", s, f)
    OBVIOUS
  <2>6. Grown(down, down', x) /\ x.session = s /\ x.type \in {"download"}
    BY <2>1, <2>5, BrowserSends DEF OneMore, Grown, FrameOf
  <2>7. Gains(down, down', s, {"download"})
    BY <2>6, FromAdded
  <2>8. AskedOnce(s)'
    BY <2>3, <2>7 DEF Gains, AskedOnce
  <2> QED BY <1>1, <2>2, <2>3, <2>4, <2>8 DEF StreamFits, AskedOnce
<1>3. CASE ~(\E f \in Files : StartDownload(s, f))
  <2>1. Longer(down, down') /\ \A i \in Added(down, down') : ~(down'[i].session = s /\ down'[i].type = "download")
    <3>1. CASE Relay
      BY <3>1, RelaySends
    <3>2. ASSUME NEW r \in Tabs, Open(r)
          PROVE  Longer(down, down') /\ \A i \in Added(down, down') : down'[i].type # "download"
      BY <3>2, BrowserSends DEF Opened
    <3>3. ASSUME NEW r \in Tabs, BrowserStep(r), ~Open(r)
          PROVE  Longer(down, down') /\ \A i \in Added(down, down') : ~(down'[i].session = s /\ down'[i].type = "download")
      <4>1. PICK type, f : OneMore(type, r, f) /\ (r # s \/ type # "download")
        BY <1>3, <3>3, BrowserSends DEF BrowserStep
      <4> QED BY <4>1 DEF OneMore, FrameOf
    <3> QED BY <3>1, <3>2, <3>3
  <2>2. AskedOnce(s)' /\ (Quiet(s, {"download"}) => Quiet(s, {"download"})')
    BY <1>0, <2>1, AskedStays
  <2>3. tab'[s].downloaded = tab[s].downloaded
    <3>1. CASE Relay
      <4>1. CASE tab'[s] = tab[s]
        BY <4>1
      <4>2. CASE tab'[s] = Shown(tab[s], up[1])
        <5>1. up[1] \in GoodReport
          BY <3>1, RelaySends
        <5> QED BY <1>0, <4>2, <5>1 DEF Shown, TabSet
      <4> QED BY <1>0, <3>1, <4>1, <4>2, RelaySends
    <3>2. ASSUME NEW r \in Tabs, BrowserStep(r) PROVE tab'[s].downloaded = tab[s].downloaded
      <4>1. CASE Open(r)
        BY <1>0, <4>1 DEF Open, Closed, TabSet
      <4>2. CASE Close(r) \/ StartUpload(r) \/ SendChunk(r)
        <5>1. CASE Close(r)
          BY <1>0, <5>1 DEF Close, Closed, TabSet
        <5>2. CASE StartUpload(r)
          BY <1>0, <5>2 DEF StartUpload, TabSet
        <5>3. CASE SendChunk(r)
          BY <1>0, <5>3 DEF SendChunk, TabSet
        <5> QED BY <4>2, <5>1, <5>2, <5>3
      <4>3. ASSUME NEW f \in Files, StartDownload(r, f) PROVE tab'[s].downloaded = tab[s].downloaded
        BY <1>0, <1>3, <4>3 DEF StartDownload, TabSet
      <4>4. ASSUME NEW type \in {"list", "op"}, Request(r, type) PROVE tab'[s].downloaded = tab[s].downloaded
        BY <1>0, <4>4 DEF Request, TabSet
      <4> QED BY <3>2, <4>1, <4>2, <4>3, <4>4 DEF BrowserStep
    <3> QED BY <3>1, <3>2
  <2> QED BY <1>1, <2>2, <2>3, StreamStays
<1> QED BY <1>2, <1>3

\* The agent.
LEMMA StreamsTaken ==
    ASSUME TransferTyped, NEW s \in Tabs, StreamFits(s), ReadLoopStep
    PROVE  StreamFits(s)'
<1>0. tab' = tab /\ late' = late /\ AskedOnce(s)
  BY DEF ReadLoopStep, FileStart, FileStop, FileDownload, DirectoryStep, FileRequest, FileDelete, FileRename, Announce, UploadStart, UploadStartFails,
     UploadChunk, UploadChunkFails, UploadEnd, Ignored, StreamFits, AskedOnce
<1>1. down # <<>> /\ Took
  BY DEF ReadLoopStep, FileStart, FileStop, FileDownload, DirectoryStep, FileRequest, FileDelete, FileRename, Announce, UploadStart, UploadStartFails,
     UploadChunk, UploadChunkFails, UploadEnd, Ignored, Arrives
<1>2. Shorter(down, down') /\ down[1].session \in Tabs /\ 1 \in DOMAIN down
  BY <1>1, FrameTaken DEF TransferTyped
<1>3. AskedOnce(s)' /\ (Quiet(s, {"download"}) => Quiet(s, {"download"})')
  BY <1>0, <1>2, AskedStays
<1>4. stream \in [Tabs -> StreamSet] /\ mgr \in ManagerSet /\ late[s] \in Nat
  BY DEF TransferTyped
<1>5. CASE FileDownload /\ down[1].session = s
  <2>1. 1 \in From(down, s, {"download"})
    BY <1>2, <1>5 DEF From, FileDownload, Arrives
  <2>2. stream[s].at = "off" /\ ~(late[s] > 0) /\ tab[s].downloaded
    BY <2>1 DEF StreamFits, Quiet
  <2>3. late[s] = 0
    BY <1>4, <2>2
  <2>4. Moves(down, down', s, {"download"})
    BY <1>2, FromTail
  <2>5. From(down', s, {"download"}) = {}
    <3>1. SUFFICES ASSUME NEW i \in From(down', s, {"download"}) PROVE FALSE
      OBVIOUS
    <3>2. i \in Nat /\ i >= 1 /\ i + 1 \in From(down, s, {"download"})
      BY <2>4, <3>1 DEF Moves
    <3>3. i + 1 = 1
      BY <1>0, <2>1, <3>2 DEF AskedOnce
    <3> QED BY <3>2, <3>3
  <2>6. stream'[s].gen = mgr.generation /\ mgr' = mgr /\ mgr.generation \in Nat
    BY <1>4, <1>5 DEF FileDownload, ManagerSet
  <2> QED BY <1>0, <1>3, <2>2, <2>3, <2>5, <2>6 DEF StreamFits, AskedOnce, Quiet
<1>6. CASE ~(FileDownload /\ down[1].session = s)
  <2>1. stream'[s] = stream[s]
    <3>1. CASE FileDownload
      BY <1>4, <1>6, <3>1 DEF FileDownload
    <3>2. CASE ~FileDownload
      BY <3>2 DEF ReadLoopStep, FileStart, FileStop, FileDownload, DirectoryStep, FileRequest, FileDelete, FileRename, Announce, UploadStart, UploadStartFails,
         UploadChunk, UploadChunkFails, UploadEnd, Ignored
    <3> QED BY <3>1, <3>2
  <2>2. mgr'.generation = mgr.generation \/ mgr'.generation = mgr.generation + 1
    <3>1. CASE FileStart \/ FileStop
      BY <3>1 DEF FileStart, FileStop, Reset
    <3>2. CASE Announce \/ UploadChunk
      BY <1>4, <3>2 DEF Announce, UploadStart, UploadChunk, ManagerSet
    <3>3. CASE UploadChunkFails \/ UploadEnd
      BY <1>4, <3>3 DEF UploadChunkFails, UploadEnd, AfterEnd, ManagerSet
    <3>4. CASE FileDownload \/ UploadStartFails \/ Ignored \/ DirectoryStep
      BY <3>4, DirectoryKeeps DEF FileDownload, UploadStartFails, Ignored
    <3> QED BY <3>1, <3>2, <3>3, <3>4 DEF ReadLoopStep, Announce
  <2> QED BY <1>0, <1>3, <2>1, <2>2, StreamStays
<1> QED BY <1>5, <1>6

\* The streams.
LEMMA StreamsMove ==
    ASSUME TransferTyped, NEW s \in Tabs, StreamFits(s), NEW r \in Tabs, StreamStep(r)
    PROVE  StreamFits(s)'
<1>0. /\ tab' = tab /\ down' = down /\ mgr' = mgr
      /\ stream \in [Tabs -> StreamSet] /\ late \in [Tabs -> Nat] /\ stream[s] \in StreamSet /\ late[s] \in Nat
  BY DEF StreamStep, StreamOpens, StreamFails, StreamChecks, StreamSends, StreamEnds, StreamFinalCheck, StreamDone,
     TransferTyped
<1>1. CASE r # s
  <2>1. stream'[s] = stream[s]
    BY <1>0, <1>1 DEF StreamStep, StreamOpens, StreamFails, StreamChecks, StreamSends, StreamEnds, StreamFinalCheck,
       StreamDone
  <2>2. late'[s] = late[s]
    BY <1>0, <1>1 DEF StreamStep, StreamOpens, StreamFails, StreamChecks, StreamSends, StreamEnds, StreamFinalCheck,
       StreamDone, StreamSend
  <2>3. AskedOnce(s)' /\ (Quiet(s, {"download"}) => Quiet(s, {"download"})')
    BY <1>0 DEF AskedOnce, StreamFits, Quiet
  <2> QED BY <1>0, <2>1, <2>2, <2>3, StreamStays
<1>2. CASE r = s
  <2>0. stream[s].at # "off"
    BY <1>2 DEF StreamStep, StreamOpens, StreamFails, StreamChecks, StreamSends, StreamEnds, StreamFinalCheck, StreamDone
  <2>1. tab[s].downloaded /\ Quiet(s, {"download"})
    BY <2>0 DEF StreamFits
  <2>2. SUFFICES ASSUME TRUE
                 PROVE  /\ stream'[s].at # "off" => stream'[s].gen = stream[s].gen
                        /\ late'[s] <= 1
                        /\ late'[s] = 1 => stream'[s].at = "off" \/ (stream'[s].at = "check" /\ Superseded(s))
    BY <1>0, <2>0, <2>1 DEF StreamFits, Superseded, Quiet
  <2>3. stream[s].at # "check" => late[s] = 0
    BY <1>0, <2>0 DEF StreamFits
  <2>4. late'[s] = late[s] \/ (Superseded(s) /\ late'[s] = late[s] + 1)
    BY <1>0, <1>2 DEF StreamStep, StreamOpens, StreamFails, StreamChecks, StreamSends, StreamEnds, StreamFinalCheck,
       StreamDone, StreamSend
  <2>5. CASE StreamOpens(s) \/ StreamEnds(s)
    BY <1>0, <2>3, <2>5 DEF StreamOpens, StreamEnds, StreamSet
  <2>6. CASE StreamFails(s) \/ StreamDone(s)
    BY <1>0, <2>3, <2>4, <2>6 DEF StreamFails, StreamDone, Off
  <2>7. CASE StreamChecks(s) \/ StreamFinalCheck(s)
    <3>1. late'[s] = late[s] /\ (stream'[s].at # "off" => ~Superseded(s) /\ stream'[s].gen = stream[s].gen)
      BY <1>0, <2>7 DEF StreamChecks, StreamFinalCheck, StreamSet, Off
    <3> QED BY <2>0, <3>1 DEF StreamFits
  <2>8. CASE StreamSends(s)
    <3>1. late[s] = 0 /\ stream'[s].at = "check" /\ stream'[s].gen = stream[s].gen
      BY <1>0, <2>3, <2>8 DEF StreamSends, StreamSet
    <3> QED BY <2>4, <3>1
  <2> QED BY <1>2, <2>5, <2>6, <2>7, <2>8 DEF StreamStep
<1> QED BY <1>1, <1>2

\* Every step keeps what is known of one tab's download and its stream.
LEMMA StreamsStep == ASSUME TransferTyped, NEW s \in Tabs, StreamFits(s), [Next]_vars PROVE StreamFits(s)'
<1>1. CASE (\E r \in Tabs : BrowserStep(r)) \/ Relay
  BY <1>1, StreamsAsked
<1>2. CASE ReadLoopStep
  BY <1>2, StreamsTaken
<1>3. CASE \E r \in Tabs : StreamStep(r)
  BY <1>3, StreamsMove
<1>4. CASE ChannelLost
  <2>1. down' = <<>> /\ late' = late /\ stream'[s].at = "off"
    BY <1>4 DEF ChannelLost, Off
  <2>2. AskedOnce(s)
    BY DEF StreamFits, AskedOnce
  <2>3. AskedOnce(s)' /\ (Quiet(s, {"download"}) => Quiet(s, {"download"})')
    BY <2>1, <2>2, AskedStays
  <2>4. tab'[s].downloaded = tab[s].downloaded
    <3>1. tab[s] \in TabSet
      BY DEF TransferTyped
    <3> QED BY <1>4, <3>1 DEF ChannelLost, Closed, TabSet
  <2> QED BY <2>1, <2>3, <2>4, StreamStays
<1>5. CASE UNCHANGED vars
  BY <1>5 DEF vars, StreamFits, Quiet, Superseded
<1> QED BY <1>1, <1>2, <1>3, <1>4, <1>5 DEF Next

-----------------------------------------------------------------------------
(* The chunks in the queue *)

PiecesIn(q, s) == \A i \in From(q, s, {"chunk"}) : q[i].piece \in Piece

\* Every chunk on its way carries a piece of a file.
LEMMA PiecesFit == ASSUME NEW q \in Seq(GoodReport), NEW s PROVE PiecesIn(q, s)
<1>1. \A i \in DOMAIN q : q[i] \in GoodReport
  BY LenProperties, ElementOfSeq
<1>2. \A i \in From(q, s, {"chunk"}) : i \in DOMAIN q /\ q[i].type = "chunk"
  BY DEF From
<1> QED BY <1>1, <1>2 DEF PiecesIn, GoodReport

\* A tab gets no data exactly if it gets neither chunks nor the end of a download.
LEMMA DataForms ==
    ASSUME NEW q, NEW s
    PROVE  From(q, s, Data) = {} <=> From(q, s, {"chunk"}) = {} /\ From(q, s, {"download_done"}) = {}
BY DEF From, Data

\* Reports that are no data change nothing.
LEMMA DataLonger ==
    ASSUME NEW q, NEW r, Longer(q, r), NEW s, \A i \in Added(q, r) : ~(r[i].session = s /\ r[i].type \in Data)
    PROVE  /\ From(r, s, {"chunk"}) = From(q, s, {"chunk"}) /\ \A i \in From(q, s, {"chunk"}) : r[i] = q[i]
           /\ From(r, s, {"download_done"}) = From(q, s, {"download_done"})
           /\ \A f, g : ChunksIn(q, s, f, g) => ChunksIn(r, s, f, g)
           /\ \A g, p : SourceIn(q, s, g, p) => SourceIn(r, s, g, p)
<1>0. \A i \in Added(q, r) : /\ ~(r[i].session = s /\ r[i].type \in {"chunk"})
                             /\ ~(r[i].session = s /\ r[i].type \in {"download_done"})
  BY DEF Data
<1>1. From(r, s, {"chunk"}) = From(q, s, {"chunk"}) /\ \A i \in From(q, s, {"chunk"}) : r[i] = q[i]
  BY <1>0, FromLonger
<1>2. From(r, s, {"download_done"}) = From(q, s, {"download_done"})
  BY <1>0, FromLonger
<1>3. ASSUME NEW f, NEW g, ChunksIn(q, s, f, g) PROVE ChunksIn(r, s, f, g)
  BY <1>1, <1>2, <1>3 DEF ChunksIn
<1>4. ASSUME NEW g, NEW p, SourceIn(q, s, g, p) PROVE SourceIn(r, s, g, p)
  BY <1>1, <1>2, <1>4 DEF SourceIn
<1> QED BY <1>1, <1>2, <1>3, <1>4

\* Taking a report that is not the tab's data keeps its chunks in order.
LEMMA ChunksTail ==
    ASSUME NEW q, NEW r, Shorter(q, r), NEW s, 1 \notin From(q, s, Data), NEW f, NEW g, ChunksIn(q, s, f, g)
    PROVE  ChunksIn(r, s, f, g)
<1>1. Moves(q, r, s, {"chunk"}) /\ Moves(q, r, s, {"download_done"})
  BY FromTail
<1>2. 1 \notin From(q, s, {"chunk"}) /\ 1 \notin From(q, s, {"download_done"})
  BY DEF From, Data
<1>3. /\ \A i \in From(r, s, {"chunk"}) : i \in Nat /\ i + 1 \in From(q, s, {"chunk"}) /\ r[i] = q[i + 1]
      /\ \A i \in From(q, s, {"chunk"}) : i \in Nat /\ i - 1 \in From(r, s, {"chunk"}) /\ r[i - 1] = q[i]
      /\ \A i \in From(r, s, {"download_done"}) : i \in Nat /\ i + 1 \in From(q, s, {"download_done"})
  BY <1>1, <1>2 DEF Moves
<1>4. ASSUME NEW i \in From(r, s, {"chunk"})
      PROVE  /\ r[i].piece.file = f /\ r[i].piece.pos > g
             /\ \A v \in (g + 1)..r[i].piece.pos : \E k \in From(r, s, {"chunk"}) : k <= i /\ r[k].piece.pos = v
  <2>1. i \in Nat /\ i + 1 \in From(q, s, {"chunk"}) /\ r[i] = q[i + 1]
    BY <1>3
  <2>2. r[i].piece.file = f /\ r[i].piece.pos > g
    BY <2>1 DEF ChunksIn
  <2>3. ASSUME NEW v \in (g + 1)..r[i].piece.pos
        PROVE  \E k \in From(r, s, {"chunk"}) : k <= i /\ r[k].piece.pos = v
    <3>1. PICK k \in From(q, s, {"chunk"}) : k <= i + 1 /\ q[k].piece.pos = v
      BY <2>1 DEF ChunksIn
    <3>2. k - 1 \in From(r, s, {"chunk"}) /\ k - 1 <= i /\ r[k - 1].piece.pos = v
      BY <1>3, <2>1, <3>1
    <3> QED BY <3>2
  <2> QED BY <2>2, <2>3
<1>5. \A i, k \in From(r, s, {"chunk"}) : r[i].piece.pos = r[k].piece.pos => i = k
  <2>1. SUFFICES ASSUME NEW i \in From(r, s, {"chunk"}), NEW k \in From(r, s, {"chunk"}),
                        r[i].piece.pos = r[k].piece.pos
                 PROVE  i = k
    OBVIOUS
  <2>2. i \in Nat /\ k \in Nat /\ i + 1 = k + 1
    BY <1>3, <2>1 DEF ChunksIn
  <2> QED BY <2>2
<1>6. ASSUME NEW i \in From(r, s, {"download_done"}), NEW v \in (g + 1)..Chunks
      PROVE  \E k \in From(r, s, {"chunk"}) : k < i /\ r[k].piece.pos = v
  <2>1. i \in Nat /\ i + 1 \in From(q, s, {"download_done"})
    BY <1>3
  <2>2. PICK k \in From(q, s, {"chunk"}) : k < i + 1 /\ q[k].piece.pos = v
    BY <2>1 DEF ChunksIn
  <2>3. k - 1 \in From(r, s, {"chunk"}) /\ k - 1 < i /\ r[k - 1].piece.pos = v
    BY <1>3, <2>1, <2>2
  <2> QED BY <2>3
<1> QED BY <1>4, <1>5, <1>6 DEF ChunksIn

\* Taking a report that is not the tab's data keeps them up to where the stream is.
LEMMA SourceTail ==
    ASSUME NEW q, NEW r, Shorter(q, r), NEW s, 1 \notin From(q, s, Data), NEW g, NEW p, SourceIn(q, s, g, p)
    PROVE  SourceIn(r, s, g, p)
<1>1. Moves(q, r, s, {"chunk"}) /\ Moves(q, r, s, {"download_done"})
  BY FromTail
<1>2. 1 \notin From(q, s, {"chunk"})
  BY DEF From, Data
<1>3. /\ \A i \in From(r, s, {"chunk"}) : i + 1 \in From(q, s, {"chunk"}) /\ r[i] = q[i + 1]
      /\ \A i \in From(q, s, {"chunk"}) : i - 1 \in From(r, s, {"chunk"}) /\ r[i - 1] = q[i]
      /\ \A i \in From(r, s, {"download_done"}) : i + 1 \in From(q, s, {"download_done"})
  BY <1>1, <1>2 DEF Moves
<1>4. From(r, s, {"download_done"}) = {}
  BY <1>3 DEF SourceIn
<1>5. \A i \in From(r, s, {"chunk"}) : r[i].piece.pos <= p
  BY <1>3 DEF SourceIn
<1>6. ASSUME NEW v \in (g + 1)..p PROVE \E k \in From(r, s, {"chunk"}) : r[k].piece.pos = v
  <2>1. PICK k \in From(q, s, {"chunk"}) : q[k].piece.pos = v
    BY DEF SourceIn
  <2> QED BY <1>3, <2>1
<1> QED BY <1>4, <1>5, <1>6 DEF SourceIn

\* The chunk at the head is the next one.
LEMMA ChunkShown ==
    ASSUME NEW q, NEW r, Shorter(q, r), NEW s, 1 \in From(q, s, {"chunk"}), PiecesIn(q, s),
           NEW f, NEW g \in Nat, ChunksIn(q, s, f, g)
    PROVE  /\ q[1].piece = [file |-> f, pos |-> g + 1] /\ g + 1 <= Chunks
           /\ ChunksIn(r, s, f, g + 1)
           /\ \A p \in Nat : SourceIn(q, s, g, p) => SourceIn(r, s, g + 1, p)
<1>1. Moves(q, r, s, {"chunk"}) /\ Moves(q, r, s, {"download_done"})
  BY FromTail
<1>2. 1 \notin From(q, s, {"download_done"})
  BY DEF From
<1>3. /\ \A i \in From(r, s, {"chunk"}) : i \in Nat /\ i >= 1 /\ i + 1 \in From(q, s, {"chunk"}) /\ r[i] = q[i + 1]
      /\ \A i \in From(q, s, {"chunk"}) :
           i \in Nat /\ i >= 1 /\ (i # 1 => i - 1 \in From(r, s, {"chunk"}) /\ r[i - 1] = q[i])
      /\ \A i \in From(r, s, {"download_done"}) : i \in Nat /\ i + 1 \in From(q, s, {"download_done"})
  BY <1>1 DEF Moves
<1>4. \A i \in From(q, s, {"chunk"}) : q[i].piece \in Piece /\ q[i].piece.pos \in 1..Chunks
  BY DEF PiecesIn, Piece
<1>5. q[1].piece.file = f /\ q[1].piece.pos > g
  BY DEF ChunksIn
<1>6. q[1].piece.pos = g + 1
  <2>1. g + 1 \in (g + 1)..q[1].piece.pos
    BY <1>4, <1>5, TransferAssumption
  <2>2. PICK k \in From(q, s, {"chunk"}) : k <= 1 /\ q[k].piece.pos = g + 1
    BY <2>1 DEF ChunksIn
  <2>3. k = 1
    BY <1>3, <2>2
  <2> QED BY <2>2, <2>3
<1>7. q[1].piece = [file |-> f, pos |-> g + 1]
  BY <1>4, <1>5, <1>6 DEF Piece
<1>8. g + 1 <= Chunks
  BY <1>4, <1>6, TransferAssumption
<1>9. \A i \in From(q, s, {"chunk"}) : i # 1 => q[i].piece.pos > g + 1
  <2>1. SUFFICES ASSUME NEW i \in From(q, s, {"chunk"}), i # 1 PROVE q[i].piece.pos > g + 1
    OBVIOUS
  <2>2. q[i].piece.pos > g /\ q[i].piece.pos # g + 1
    BY <1>6, <2>1 DEF ChunksIn
  <2>3. q[i].piece.pos \in Nat
    BY <1>4, TransferAssumption
  <2> QED BY <2>2, <2>3
<1>10. ASSUME NEW i \in From(r, s, {"chunk"})
       PROVE  /\ r[i].piece.file = f /\ r[i].piece.pos > g + 1
              /\ \A v \in (g + 2)..r[i].piece.pos : \E k \in From(r, s, {"chunk"}) : k <= i /\ r[k].piece.pos = v
  <2>1. i \in Nat /\ i >= 1 /\ i + 1 \in From(q, s, {"chunk"}) /\ r[i] = q[i + 1]
    BY <1>3
  <2>2. r[i].piece.file = f
    BY <2>1 DEF ChunksIn
  <2>3. r[i].piece.pos > g + 1
    BY <1>9, <2>1
  <2>4. ASSUME NEW v \in (g + 2)..r[i].piece.pos
        PROVE  \E k \in From(r, s, {"chunk"}) : k <= i /\ r[k].piece.pos = v
    <3>1. v \in (g + 1)..q[i + 1].piece.pos /\ v # g + 1
      BY <2>1
    <3>2. PICK k \in From(q, s, {"chunk"}) : k <= i + 1 /\ q[k].piece.pos = v
      BY <2>1, <3>1 DEF ChunksIn
    <3>3. k # 1
      BY <1>6, <3>1, <3>2
    <3>4. k - 1 \in From(r, s, {"chunk"}) /\ k - 1 <= i /\ r[k - 1].piece.pos = v
      BY <1>3, <2>1, <3>2, <3>3
    <3> QED BY <3>4
  <2> QED BY <2>2, <2>3, <2>4
<1>11. \A i, k \in From(r, s, {"chunk"}) : r[i].piece.pos = r[k].piece.pos => i = k
  <2>1. SUFFICES ASSUME NEW i \in From(r, s, {"chunk"}), NEW k \in From(r, s, {"chunk"}),
                        r[i].piece.pos = r[k].piece.pos
                 PROVE  i = k
    OBVIOUS
  <2>2. i \in Nat /\ k \in Nat /\ i + 1 = k + 1
    BY <1>3, <2>1 DEF ChunksIn
  <2> QED BY <2>2
<1>12. ASSUME NEW i \in From(r, s, {"download_done"}), NEW v \in (g + 2)..Chunks
       PROVE  \E k \in From(r, s, {"chunk"}) : k < i /\ r[k].piece.pos = v
  <2>1. i \in Nat /\ i + 1 \in From(q, s, {"download_done"})
    BY <1>3
  <2>2. v \in (g + 1)..Chunks /\ v # g + 1
    BY TransferAssumption
  <2>3. PICK k \in From(q, s, {"chunk"}) : k < i + 1 /\ q[k].piece.pos = v
    BY <2>1, <2>2 DEF ChunksIn
  <2>4. k # 1
    BY <1>6, <2>2, <2>3
  <2>5. k - 1 \in From(r, s, {"chunk"}) /\ k - 1 < i /\ r[k - 1].piece.pos = v
    BY <1>3, <2>1, <2>3, <2>4
  <2> QED BY <2>5
<1>13. ChunksIn(r, s, f, g + 1)
  <2>1. (g + 1) + 1 = g + 2
    OBVIOUS
  <2> QED BY <1>10, <1>11, <1>12, <2>1 DEF ChunksIn
<1>14. ASSUME NEW p \in Nat, SourceIn(q, s, g, p) PROVE SourceIn(r, s, g + 1, p)
  <2>1. From(r, s, {"download_done"}) = {}
    BY <1>3, <1>14 DEF SourceIn
  <2>2. \A i \in From(r, s, {"chunk"}) : r[i].piece.pos <= p
    BY <1>3, <1>14 DEF SourceIn
  <2>3. g + 1 <= p
    BY <1>6, <1>14 DEF SourceIn
  <2>4. ASSUME NEW v \in ((g + 1) + 1)..p PROVE \E k \in From(r, s, {"chunk"}) : r[k].piece.pos = v
    <3>1. v \in (g + 1)..p /\ v # g + 1
      OBVIOUS
    <3>2. PICK k \in From(q, s, {"chunk"}) : q[k].piece.pos = v
      BY <1>14, <3>1 DEF SourceIn
    <3> QED BY <1>3, <1>6, <3>1, <3>2
  <2> QED BY <2>1, <2>2, <2>3, <2>4 DEF SourceIn
<1> QED BY <1>7, <1>8, <1>13, <1>14

\* When the end is at the head, every chunk has come.
LEMMA DoneShown ==
    ASSUME NEW q, NEW s, 1 \in From(q, s, {"download_done"}), DOMAIN q = 1..Len(q), Len(q) \in Nat,
           NEW f, NEW g \in Nat, g <= Chunks, ChunksIn(q, s, f, g)
    PROVE  g = Chunks
<1>1. SUFFICES ASSUME g < Chunks PROVE FALSE
  BY TransferAssumption
<1>2. Chunks \in (g + 1)..Chunks
  BY <1>1, TransferAssumption
<1>3. PICK k \in From(q, s, {"chunk"}) : k < 1
  BY <1>2 DEF ChunksIn
<1>4. k \in 1..Len(q)
  BY <1>3 DEF From
<1> QED BY <1>3, <1>4

\* The stream sends the next chunk ...
LEMMA ChunkAdded ==
    ASSUME NEW q, NEW r, NEW x, Grown(q, r, x), NEW s, x.session = s, x.type = "chunk", PiecesIn(q, s),
           NEW f, NEW g \in Nat, NEW p \in Nat, x.piece = [file |-> f, pos |-> p + 1],
           ChunksIn(q, s, f, g), SourceIn(q, s, g, p)
    PROVE  ChunksIn(r, s, f, g) /\ SourceIn(r, s, g, p + 1)
<1>1. Gains(q, r, s, {"chunk"})
  BY FromAdded
<1>2. \A i \in Added(q, r) : ~(r[i].session = s /\ r[i].type \in {"download_done"})
  BY DEF Grown
<1>3. From(r, s, {"download_done"}) = {}
  <2>1. From(r, s, {"download_done"}) = From(q, s, {"download_done"})
    BY <1>2, FromLonger DEF Grown
  <2> QED BY <2>1 DEF SourceIn
<1>4. PICK e \in Nat : e = Len(q) + 1
  BY <1>1 DEF Gains
<1>5. r[e].piece.file = f /\ r[e].piece.pos = p + 1
  BY <1>4 DEF Grown
<1>6. /\ e \in From(r, s, {"chunk"})
      /\ \A i \in From(r, s, {"chunk"}) : i = e \/ i \in From(q, s, {"chunk"})
      /\ \A i \in From(q, s, {"chunk"}) : i \in Nat /\ i < e /\ r[i] = q[i] /\ i \in From(r, s, {"chunk"})
  <2>1. Len(q) \in Nat
    BY <1>1 DEF Gains
  <2>2. \A i \in 1..Len(q) : i \in Nat /\ i < e
    BY <1>4, <2>1
  <2> QED BY <1>1, <1>4, <2>2 DEF Gains
<1>7. \A i \in From(q, s, {"chunk"}) : q[i].piece.pos \in Nat /\ q[i].piece.pos <= p
  BY TransferAssumption DEF PiecesIn, Piece, SourceIn
<1>8. \A v \in (g + 1)..(p + 1) : \E k \in From(r, s, {"chunk"}) : r[k].piece.pos = v
  <2>1. SUFFICES ASSUME NEW v \in (g + 1)..(p + 1) PROVE \E k \in From(r, s, {"chunk"}) : r[k].piece.pos = v
    OBVIOUS
  <2>2. CASE v = p + 1
    BY <1>5, <1>6, <2>2
  <2>3. CASE v # p + 1
    <3>1. v \in (g + 1)..p
      BY <2>3
    <3>2. PICK k \in From(q, s, {"chunk"}) : q[k].piece.pos = v
      BY <3>1 DEF SourceIn
    <3> QED BY <1>6, <3>2
  <2> QED BY <2>2, <2>3
<1>9. g <= p
  BY DEF SourceIn
<1>10. SourceIn(r, s, g, p + 1)
  <2>1. \A i \in From(r, s, {"chunk"}) : r[i].piece.pos <= p + 1
    BY <1>5, <1>6, <1>7
  <2>2. g <= p + 1
    BY <1>9
  <2> QED BY <1>3, <1>8, <2>1, <2>2 DEF SourceIn
<1>11. ASSUME NEW i \in From(r, s, {"chunk"})
       PROVE  /\ r[i].piece.file = f /\ r[i].piece.pos > g
              /\ \A v \in (g + 1)..r[i].piece.pos : \E k \in From(r, s, {"chunk"}) : k <= i /\ r[k].piece.pos = v
  <2>1. CASE i = e
    <3>1. r[i].piece.pos > g
      BY <1>5, <1>9, <2>1
    <3>2. \A k \in From(r, s, {"chunk"}) : k <= e
      BY <1>6
    <3> QED BY <1>5, <1>8, <2>1, <3>1, <3>2
  <2>2. CASE i \in From(q, s, {"chunk"})
    <3>1. r[i] = q[i]
      BY <1>6, <2>2
    <3>2. r[i].piece.file = f /\ r[i].piece.pos > g
      BY <2>2, <3>1 DEF ChunksIn
    <3>3. ASSUME NEW v \in (g + 1)..r[i].piece.pos
          PROVE  \E k \in From(r, s, {"chunk"}) : k <= i /\ r[k].piece.pos = v
      <4>1. PICK k \in From(q, s, {"chunk"}) : k <= i /\ q[k].piece.pos = v
        BY <2>2, <3>1 DEF ChunksIn
      <4> QED BY <1>6, <4>1
    <3> QED BY <3>2, <3>3
  <2> QED BY <1>6, <2>1, <2>2
<1>12. \A i, k \in From(r, s, {"chunk"}) : r[i].piece.pos = r[k].piece.pos => i = k
  <2>1. \A i, k \in From(q, s, {"chunk"}) : r[i].piece.pos = r[k].piece.pos => i = k
    BY <1>6 DEF ChunksIn
  <2>2. \A i \in From(q, s, {"chunk"}) : r[i].piece.pos # p + 1
    BY <1>6, <1>7
  <2> QED BY <1>5, <1>6, <2>1, <2>2
<1> QED BY <1>3, <1>10, <1>11, <1>12 DEF ChunksIn

\* ... and the end when every chunk is sent.
LEMMA DoneAdded ==
    ASSUME NEW q, NEW r, NEW x, Grown(q, r, x), NEW s, x.session = s, x.type = "download_done",
           NEW f, NEW g, ChunksIn(q, s, f, g), SourceIn(q, s, g, Chunks)
    PROVE  ChunksIn(r, s, f, g)
<1>1. Gains(q, r, s, {"download_done"})
  BY FromAdded
<1>2. \A i \in Added(q, r) : ~(r[i].session = s /\ r[i].type \in {"chunk"})
  BY DEF Grown
<1>3. From(r, s, {"chunk"}) = From(q, s, {"chunk"}) /\ \A i \in From(q, s, {"chunk"}) : r[i] = q[i]
  BY <1>2, FromLonger DEF Grown
<1>4. From(r, s, {"download_done"}) = {Len(q) + 1} /\ Len(q) \in Nat
  BY <1>1 DEF Gains, SourceIn
<1>5. \A k \in From(q, s, {"chunk"}) : k < Len(q) + 1
  <2>1. \A k \in From(q, s, {"chunk"}) : k \in 1..Len(q)
    BY DEF From, Grown, Longer
  <2> QED BY <1>4, <2>1
<1>6. \A i \in From(r, s, {"download_done"}) :
        \A v \in (g + 1)..Chunks : \E k \in From(r, s, {"chunk"}) : k < i /\ r[k].piece.pos = v
  BY <1>3, <1>4, <1>5 DEF SourceIn
<1> QED BY <1>3, <1>6 DEF ChunksIn

\* A download that nothing has been sent of.
LEMMA NothingSent ==
    ASSUME NEW q, NEW s, From(q, s, Data) = {}, NEW f
    PROVE  ChunksIn(q, s, f, 0) /\ SourceIn(q, s, 0, 0)
<1>1. From(q, s, {"chunk"}) = {} /\ From(q, s, {"download_done"}) = {}
  BY DataForms
<1> QED BY <1>1 DEF ChunksIn, SourceIn

-----------------------------------------------------------------------------
(* A tab that is alone *)

\* A tab never becomes new again.
LEMMA NewBefore ==
    ASSUME TransferTyped, \A r \in Tabs : NewFits(r), [Next]_vars, NEW s \in Tabs, tab'[s].state = "new"
    PROVE  tab[s].state = "new"
<1>0. tab \in [Tabs -> TabSet] /\ tab[s] \in TabSet
  BY DEF TransferTyped
<1>1. ASSUME NEW r \in Tabs, BrowserStep(r) PROVE tab[s].state = "new"
  <2>1. CASE Open(r)
    BY <1>0, <2>1 DEF Open, Closed, TabSet
  <2>2. CASE Close(r)
    BY <1>0, <2>2 DEF Close, Closed, TabSet
  <2>3. CASE StartUpload(r)
    BY <1>0, <2>3 DEF StartUpload, TabSet
  <2>4. CASE SendChunk(r)
    BY <1>0, <2>4 DEF SendChunk, TabSet
  <2>5. ASSUME NEW f \in Files, StartDownload(r, f) PROVE tab[s].state = "new"
    BY <1>0, <2>5 DEF StartDownload, TabSet
  <2>6. ASSUME NEW type \in {"list", "op"}, Request(r, type) PROVE tab[s].state = "new"
    BY <1>0, <2>6 DEF Request, TabSet
  <2> QED BY <1>1, <2>1, <2>2, <2>3, <2>4, <2>5, <2>6 DEF BrowserStep
<1>2. CASE Relay
  <2>1. CASE tab'[s] = Shown(tab[s], up[1])
    <3>1. up[1] \in GoodReport
      BY <1>2, RelaySends
    <3> QED BY <1>0, <2>1, <3>1 DEF Shown, TabSet
  <2> QED BY <1>0, <1>2, <2>1, RelaySends
<1>3. CASE ChannelLost
  BY <1>0, <1>3 DEF ChannelLost, Closed, TabSet
<1>4. CASE ReadLoopStep \/ (\E r \in Tabs : StreamStep(r)) \/ UNCHANGED vars
  <2>1. tab' = tab
    BY <1>4 DEF ReadLoopStep, FileStart, FileStop, FileDownload, DirectoryStep, FileRequest, FileDelete, FileRename, Announce, UploadStart, UploadStartFails,
       UploadChunk, UploadChunkFails, UploadEnd, Ignored, StreamStep, StreamOpens, StreamFails, StreamChecks,
       StreamSends, StreamEnds, StreamFinalCheck, StreamDone, vars
  <2> QED BY <2>1
<1> QED BY <1>1, <1>2, <1>3, <1>4 DEF Next

\* Nothing is on its way from or to another tab.
LEMMA AloneOwns ==
    ASSUME TransferTyped, \A r \in Tabs : NewFits(r) /\ StreamFits(r), NEW s \in Tabs, Alone(s)
    PROVE  /\ slot \in {s, None} /\ mgr.session \in {s, None}
           /\ \A i \in DOMAIN down : down[i].session = s
           /\ \A i \in DOMAIN up : up[i].session \in {s, None}
           /\ \A r \in Tabs \ {s} : tab[r].state = "new" /\ stream[r].at = "off"
<1>1. \A r \in Tabs \ {s} : tab[r].state = "new" /\ ~tab[r].downloaded
  BY DEF Alone, NewFits
<1>2. \A r \in Tabs \ {s} : stream[r].at = "off"
  BY <1>1 DEF StreamFits
<1>3. slot \in Tabs \union {None} /\ mgr.session \in Tabs \union {None}
  BY DEF TransferTyped, ManagerSet, SessionId
<1>4. \A i \in DOMAIN down : down[i].session \in Tabs
  <2>1. \A i \in DOMAIN down : down[i] \in GoodFrame
    BY LenProperties, ElementOfSeq DEF TransferTyped
  <2> QED BY <2>1 DEF GoodFrame
<1>5. \A i \in DOMAIN up : up[i].session \in Tabs \union {None}
  <2>1. \A i \in DOMAIN up : up[i] \in GoodReport
    BY LenProperties, ElementOfSeq DEF TransferTyped
  <2> QED BY <2>1 DEF GoodReport, Report, SessionId
<1> QED BY <1>1, <1>2, <1>3, <1>4, <1>5 DEF NewFits

\* The queues lose nothing that matters and gain nothing.
DownKeeps(s) ==
    /\ Quiet(s, {"stop"}) => From(down', s, {"stop"}) = {}
    /\ Quiet(s, {"start"}) => From(down', s, {"start"}) = {}
    /\ (\A i, k \in From(down, s, {"start"}) : i = k) => \A i, k \in From(down', s, {"start"}) : i = k
    /\ \A i \in From(down', s, {"download"}) : \E k \in From(down, s, {"download"}) : down'[i] = down[k]
UpKeeps(s) ==
    /\ From(up, s, {"ready"}) = {} => From(up', s, {"ready"}) = {}
    /\ From(up, s, Data) = {} => From(up', s, Data) = {}
    /\ \A f, g : ChunksIn(up, s, f, g) => ChunksIn(up', s, f, g)
    /\ \A g, p : SourceIn(up, s, g, p) => SourceIn(up', s, g, p)

\* Frames that neither start, stop nor download change nothing for the tab's session.
LEMMA DownSame ==
    ASSUME NEW s, \/ Longer(down, down') /\ \A i \in Added(down, down') : down'[i].type \notin {"stop", "start", "download"}
                  \/ Shorter(down, down')
                  \/ down' = down
    PROVE  DownKeeps(s)
<1>1. CASE Longer(down, down') /\ \A i \in Added(down, down') : down'[i].type \notin {"stop", "start", "download"}
  <2>1. ASSUME NEW types \in {{"stop"}, {"start"}, {"download"}}
        PROVE  From(down', s, types) = From(down, s, types) /\ \A i \in From(down, s, types) : down'[i] = down[i]
    <3>1. \A i \in Added(down, down') : ~(down'[i].session = s /\ down'[i].type \in types)
      BY <1>1
    <3> QED BY <1>1, <3>1, FromLonger
  <2>2. From(down', s, {"stop"}) = From(down, s, {"stop"}) /\ From(down', s, {"start"}) = From(down, s, {"start"})
    BY <2>1
  <2>3. From(down', s, {"download"}) = From(down, s, {"download"}) /\ \A i \in From(down, s, {"download"}) : down'[i] = down[i]
    BY <2>1
  <2> QED BY <2>2, <2>3 DEF DownKeeps, Quiet
<1>2. CASE Shorter(down, down')
  <2>1. Moves(down, down', s, {"stop"}) /\ Moves(down, down', s, {"start"}) /\ Moves(down, down', s, {"download"})
    BY <1>2, FromTail
  <2>2. \A i \in From(down', s, {"stop"}) : i + 1 \in From(down, s, {"stop"})
    BY <2>1 DEF Moves
  <2>3. \A i \in From(down', s, {"start"}) : i \in Nat /\ i + 1 \in From(down, s, {"start"})
    BY <2>1 DEF Moves
  <2>4. \A i \in From(down', s, {"download"}) : i + 1 \in From(down, s, {"download"}) /\ down'[i] = down[i + 1]
    BY <2>1 DEF Moves
  <2> QED BY <2>2, <2>3, <2>4 DEF DownKeeps, Quiet
<1>3. CASE down' = down
  BY <1>3 DEF DownKeeps, Quiet
<1> QED BY <1>1, <1>2, <1>3

\* Reports that are not the tab's data change nothing for what it gets.
LEMMA UpSame ==
    ASSUME NEW s, \/ Longer(up, up') /\ \A i \in Added(up, up') : up'[i].session = s => up'[i].type \notin {"ready"} \union Data
                  \/ Shorter(up, up') /\ 1 \notin From(up, s, Data)
                  \/ up' = up
    PROVE  UpKeeps(s)
<1>1. CASE Longer(up, up') /\ \A i \in Added(up, up') : up'[i].session = s => up'[i].type \notin {"ready"} \union Data
  <2>1. \A i \in Added(up, up') : /\ ~(up'[i].session = s /\ up'[i].type \in {"ready"})
                                  /\ ~(up'[i].session = s /\ up'[i].type \in Data)
    BY <1>1
  <2>2. From(up', s, {"ready"}) = From(up, s, {"ready"}) /\ From(up', s, Data) = From(up, s, Data)
    BY <1>1, <2>1, FromLonger
  <2>3. /\ \A f, g : ChunksIn(up, s, f, g) => ChunksIn(up', s, f, g)
        /\ \A g, p : SourceIn(up, s, g, p) => SourceIn(up', s, g, p)
    BY <1>1, <2>1, DataLonger
  <2> QED BY <2>2, <2>3 DEF UpKeeps
<1>2. CASE Shorter(up, up') /\ 1 \notin From(up, s, Data)
  <2>1. Moves(up, up', s, {"ready"}) /\ Moves(up, up', s, Data)
    BY <1>2, FromTail
  <2>2. /\ From(up, s, {"ready"}) = {} => From(up', s, {"ready"}) = {}
        /\ From(up, s, Data) = {} => From(up', s, Data) = {}
    BY <2>1 DEF Moves
  <2>3. \A f, g : ChunksIn(up, s, f, g) => ChunksIn(up', s, f, g)
    BY <1>2, ChunksTail
  <2>4. \A g, p : SourceIn(up, s, g, p) => SourceIn(up', s, g, p)
    BY <1>2, SourceTail
  <2> QED BY <2>2, <2>3, <2>4 DEF UpKeeps
<1>3. CASE up' = up
  BY <1>3 DEF UpKeeps
<1> QED BY <1>1, <1>2, <1>3

\* A step that leaves the tab and the agent's session alone keeps them agreeing.
LEMMA SessionKeeps ==
    ASSUME NEW s \in Tabs, SessionFits(s), DownKeeps(s), Begun(s)' => Begun(s),
           Begun(s) => mgr'.session = mgr.session, tab'[s].downloaded = tab[s].downloaded,
           tab'[s].want = tab[s].want \/ tab'[s].want = None, tab[s].state = "active" => tab'[s].state = "active",
           ~tab[s].downloaded => From(up', s, Data) = {}
    PROVE  SessionFits(s)'
<1>1. Quiet(s, {"stop"})' /\ \A i, k \in From(down', s, {"start"}) : i = k
  BY DEF SessionFits, DownKeeps, Quiet
<1>2. Begun(s)' => mgr'.session = s /\ Quiet(s, {"start"})'
  BY DEF SessionFits, DownKeeps, Quiet
<1>3. ~tab'[s].downloaded => tab'[s].want = None /\ From(up', s, Data) = {}
  BY DEF SessionFits
<1>4. tab'[s].want # None => tab'[s].state = "active"
  BY DEF SessionFits
<1> QED BY <1>1, <1>2, <1>3, <1>4 DEF SessionFits

\* What concerns the tab stays as it is.
LEMMA TabKeeps ==
    ASSUME NEW s \in Tabs, TabFits(s), DownKeeps(s), UpKeeps(s), Begun(s)' => Begun(s),
           Begun(s) => mgr'.session = mgr.session /\ mgr'.generation = mgr.generation,
           tab'[s].downloaded = tab[s].downloaded, tab'[s].want = tab[s].want, tab'[s].got = tab[s].got,
           tab[s].state = "active" => tab'[s].state = "active",
           stream'[s] = stream[s]
    PROVE  TabFits(s)'
<1>1. SessionFits(s)'
  <2>1. ~tab[s].downloaded => From(up', s, Data) = {}
    BY DEF TabFits, SessionFits, UpKeeps
  <2> QED BY <2>1, SessionKeeps DEF TabFits
<1>2. ASSUME tab'[s].want # None PROVE ChunksFit(s)' /\ SourceFits(s)'
  <2>1. ChunksFit(s) /\ SourceFits(s) /\ Begun(s)
    BY <1>2 DEF TabFits, SessionFits, Begun
  <2>2. ChunksFit(s)'
    BY <2>1 DEF ChunksFit, UpKeeps
  <2>3. \A i \in From(down', s, {"download"}) :
          down'[i].file = tab'[s].want /\ tab'[s].got = <<>> /\ From(up', s, Data) = {}
    BY <2>1 DEF SourceFits, DownKeeps, UpKeeps
  <2>4. stream'[s].at # "off" =>
          /\ stream'[s].file = tab'[s].want /\ stream'[s].gen = mgr'.generation
          /\ SourceIn(up', s, Len(tab'[s].got), stream'[s].pos)
          /\ stream'[s].at \in {"final", "done"} => stream'[s].pos = Chunks
    BY <2>1 DEF SourceFits, UpKeeps
  <2> QED BY <2>2, <2>3, <2>4 DEF SourceFits
<1> QED BY <1>1, <1>2 DEF TabFits

\* The tab is opened.
LEMMA OpenFits ==
    ASSUME TransferTyped, NEW s \in Tabs, NewFits(s), \A i \in DOMAIN down : down[i].session = s,
           slot \in {s, None}, Open(s)
    PROVE  TabFits(s)' /\ tab'[s].saved = tab[s].saved
<1>0. tab \in [Tabs -> TabSet] /\ tab[s] \in TabSet
  BY DEF TransferTyped
<1>1. /\ slot = None /\ tab[s].want = None /\ ~tab[s].downloaded /\ tab[s].state = "new"
      /\ (\A i \in DOMAIN down : down[i].session # s) /\ \A i \in DOMAIN up : up[i].session # s
  BY DEF NewFits, Open
<1>2. tab'[s] = [tab[s] EXCEPT !.state = "connecting"] /\ up' = up
  BY <1>0 DEF Open
<1>3. /\ tab'[s].state = "connecting" /\ tab'[s].want = None /\ tab'[s].downloaded = tab[s].downloaded
      /\ tab'[s].saved = tab[s].saved
  BY <1>0, <1>1, <1>2 DEF TabSet
<1>4. \A types : From(up', s, types) = {} /\ From(down, s, types) = {}
  BY <1>1, <1>2 DEF From
<1>5. PICK x : x = FrameOf("start", s, None)
  OBVIOUS
<1>6. Grown(down, down', x) /\ x.session = s /\ x.type = "start"
  <2>1. down' = Append(down, x)
    <3>1. down \in Seq(GoodFrame) /\ x \in GoodFrame
      <4>1. x \in GoodFrame
        BY <1>5, FrameForms
      <4> QED BY <4>1 DEF TransferTyped
    <3>2. down' = (down \o <<>>) \o <<x>>
      BY <1>1, <1>5 DEF Open
    <3>3. down \o <<>> = down
      BY <3>1
    <3>4. down \o <<x>> = Append(down, x)
      BY <3>1
    <3> QED BY <3>2, <3>3, <3>4
  <2>2. x.session = s /\ x.type = "start" /\ x = FrameOf("start", s, None)
    BY <1>5 DEF FrameOf
  <2>3. OneMore("start", s, None)
    BY <1>5, <2>1, FrameSent DEF TransferTyped
  <2> QED BY <1>5, <2>2, <2>3 DEF OneMore, Grown
<1>7. Gains(down, down', s, {"start"})
  BY <1>6, FromAdded
<1>8. \A i, k \in From(down', s, {"start"}) : i = k
  BY <1>4, <1>7 DEF Gains
<1>9. From(down', s, {"stop"}) = {}
  <2>1. \A i \in Added(down, down') : ~(down'[i].session = s /\ down'[i].type \in {"stop"})
    BY <1>6 DEF Grown
  <2>2. From(down', s, {"stop"}) = From(down, s, {"stop"})
    BY <1>6, <2>1, FromLonger DEF Grown
  <2> QED BY <1>4, <2>2
<1>10. ~Begun(s)'
  BY <1>3, <1>4 DEF Begun
<1> QED BY <1>3, <1>4, <1>8, <1>9, <1>10 DEF TabFits, SessionFits, Quiet

\* The tab asks for a file.
LEMMA AskFits ==
    ASSUME TransferTyped, NEW s \in Tabs, NEW f \in Files, TabFits(s), StreamFits(s), StartDownload(s, f)
    PROVE  TabFits(s)' /\ tab'[s].saved = tab[s].saved
<1>0. tab \in [Tabs -> TabSet] /\ tab[s] \in TabSet /\ None \notin Files
  BY TransferAssumption DEF TransferTyped
<1>1. tab[s].state = "active" /\ ~tab[s].downloaded /\ UNCHANGED <<up, mgr, stream>>
  BY DEF StartDownload, Idle
<1>2. /\ tab'[s].want = f /\ tab'[s].got = <<>> /\ tab'[s].downloaded /\ tab'[s].state = "active"
      /\ tab'[s].saved = tab[s].saved
  BY <1>0, <1>1 DEF StartDownload, TabSet
<1>3. Begun(s) /\ mgr.session = s /\ Quiet(s, {"start"}) /\ Quiet(s, {"stop"}) /\ From(up, s, Data) = {}
  BY <1>1 DEF TabFits, SessionFits, Begun
<1>4. stream[s].at = "off" /\ From(down, s, {"download"}) = {}
  BY <1>1 DEF StreamFits, Quiet
<1>5. PICK x : x = FrameOf("download", s, f)
  OBVIOUS
<1>6. Grown(down, down', x) /\ x.session = s /\ x.type = "download" /\ x.file = f
  BY <1>5, BrowserSends DEF OneMore, Grown, FrameOf
<1>7. Gains(down, down', s, {"download"})
  BY <1>6, FromAdded
<1>8. \A i \in From(down', s, {"download"}) : down'[i].file = f
  BY <1>4, <1>6, <1>7 DEF Gains, Grown
<1>9. From(down', s, {"stop"}) = {} /\ From(down', s, {"start"}) = {}
  <2>1. \A i \in Added(down, down') : /\ ~(down'[i].session = s /\ down'[i].type \in {"stop"})
                                      /\ ~(down'[i].session = s /\ down'[i].type \in {"start"})
    BY <1>6 DEF Grown
  <2>2. From(down', s, {"stop"}) = From(down, s, {"stop"}) /\ From(down', s, {"start"}) = From(down, s, {"start"})
    BY <1>6, <2>1, FromLonger DEF Grown
  <2> QED BY <1>3, <2>2 DEF Quiet
<1>10. SessionFits(s)'
  BY <1>1, <1>2, <1>3, <1>9 DEF SessionFits, Quiet
<1>11. Len(tab'[s].got) = 0
  BY <1>2
<1>12. ChunksFit(s)'
  <2>1. ChunksIn(up', s, f, 0)
    BY <1>1, <1>3, NothingSent
  <2>2. 0 <= Chunks /\ 1..0 = {}
    BY TransferAssumption
  <2> QED BY <1>2, <1>11, <2>1, <2>2 DEF ChunksFit
<1>13. SourceFits(s)'
  BY <1>1, <1>2, <1>3, <1>4, <1>8 DEF SourceFits
<1> QED BY <1>2, <1>10, <1>12, <1>13 DEF TabFits

-----------------------------------------------------------------------------
\* The relay shows the tab what came for it.
LEMMA RelayFits ==
    ASSUME TransferTyped, NEW s \in Tabs, slot = s, TabFits(s), Relay, up[1].session \in {s, None},
           \A d \in tab[s].saved : d.content = Whole(d.file)
    PROVE  TabFits(s)' /\ \A d \in tab'[s].saved : d.content = Whole(d.file)
<1>0. /\ tab \in [Tabs -> TabSet] /\ tab[s] \in TabSet /\ up \in Seq(GoodReport) /\ s # None
      /\ UNCHANGED <<slot, mgr, stream>>
  BY TransferAssumption DEF TransferTyped, Relay
<1>1. /\ up[1] \in GoodReport /\ Shorter(up, up') /\ Longer(down, down')
      /\ \A i \in Added(down, down') : down'[i].type = "list"
  BY RelaySends
<1>2. DownKeeps(s)
  BY <1>1, DownSame
<1>3. 1 \in DOMAIN up
  BY <1>1 DEF Shorter
<1>4. Moves(up, up', s, {"ready"}) /\ Moves(up, up', s, Data)
  BY <1>1, FromTail
<1>5. /\ From(up', s, {"ready"}) # {} => From(up, s, {"ready"}) # {}
      /\ From(up, s, Data) = {} => From(up', s, Data) = {}
  BY <1>4 DEF Moves
<1>6. CASE up[1].session = None
  <2>1. tab' = tab
    BY <1>0, <1>6, RelaySends DEF Current
  <2>2. 1 \notin From(up, s, Data)
    BY <1>0, <1>6 DEF From
  <2>3. UpKeeps(s)
    BY <1>1, <2>2, UpSame
  <2>4. Begun(s)' => Begun(s)
    BY <1>5, <2>1 DEF Begun
  <2> QED BY <1>0, <1>2, <2>1, <2>3, <2>4, TabKeeps
<1>7. CASE up[1].session = s
  <2>0. PICK t : t = Shown(tab[s], up[1])
    OBVIOUS
  <2>1. tab'[s] = t
    BY <1>0, <1>7, <2>0, RelaySends DEF Current
  <2>2. t \in TabSet /\ t.downloaded = tab[s].downloaded
    BY <1>0, <1>1, <2>0, ShownForms
  <2>3. CASE up[1].type \notin Data
    <3>1. 1 \notin From(up, s, Data)
      BY <2>3 DEF From
    <3>2. UpKeeps(s)
      BY <1>1, <3>1, UpSame
    <3>3. t.want = tab[s].want /\ t.got = tab[s].got /\ t.saved = tab[s].saved
          /\ (tab[s].state = "active" => t.state = "active")
          /\ (up[1].type # "ready" => t.state = tab[s].state)
      BY <1>0, <1>1, <2>0, <2>3 DEF Shown, TabSet, Data
    <3>4. Begun(s)' => Begun(s)
      <4>1. CASE up[1].type = "ready"
        <5>1. 1 \in From(up, s, {"ready"})
          BY <1>3, <1>7, <4>1 DEF From
        <5> QED BY <5>1 DEF Begun
      <4>2. CASE up[1].type # "ready"
        BY <1>5, <2>1, <3>3, <4>2 DEF Begun
      <4> QED BY <4>1, <4>2
    <3> QED BY <1>0, <1>2, <2>1, <2>2, <3>2, <3>3, <3>4, TabKeeps
  <2>4. CASE up[1].type \in Data
    <3>1. 1 \in From(up, s, Data)
      BY <1>3, <1>7, <2>4 DEF From
    <3>2. tab[s].downloaded
      BY <3>1 DEF TabFits, SessionFits
    <3>3. t.state = tab[s].state
      BY <1>0, <1>1, <2>0, <2>4 DEF Shown, TabSet, Data
    <3>4. Begun(s)' => Begun(s)
      BY <1>5, <2>1, <3>3 DEF Begun
    <3>5. down' = down
      <4>1. ~Relists(up[1])
        BY <2>4 DEF Relists, Data
      <4> QED BY <4>1 DEF Relay
    <3>6. CASE up[1].type = "chunk"
      <4>1. t = IF tab[s].want = None THEN tab[s] ELSE [tab[s] EXCEPT !.got = Append(tab[s].got, up[1].piece)]
        BY <1>0, <1>1, <2>0, <3>6, ShownForms
      <4>2. t.want = tab[s].want /\ t.saved = tab[s].saved
        BY <1>0, <4>1 DEF TabSet
      <4>3. SessionFits(s)'
        BY <1>0, <1>2, <2>1, <2>2, <3>2, <3>3, <3>4, <4>2, SessionKeeps DEF TabFits
      <4>4. ASSUME tab[s].want # None PROVE ChunksFit(s)' /\ SourceFits(s)'
        <5>0. PICK h \in Seq(Piece) : h = tab[s].got
          BY <1>0 DEF TabSet
        <5>1. PICK g \in Nat : g = Len(h)
          BY LenProperties
        <5>2. ChunksFit(s) /\ SourceFits(s)
          BY <4>4 DEF TabFits
        <5>3. /\ ChunksIn(up, s, tab[s].want, g)
              /\ g <= Chunks /\ \A i \in 1..g : h[i] = [file |-> tab[s].want, pos |-> i]
          BY <5>0, <5>1, <5>2 DEF ChunksFit
        <5>4. PiecesIn(up, s) /\ 1 \in From(up, s, {"chunk"})
          BY <1>0, <1>3, <1>7, <3>6, PiecesFit DEF From
        <5>5. /\ up[1].piece = [file |-> tab[s].want, pos |-> g + 1] /\ g + 1 <= Chunks
              /\ ChunksIn(up', s, tab[s].want, g + 1)
              /\ \A p \in Nat : SourceIn(up, s, g, p) => SourceIn(up', s, g + 1, p)
          BY <1>1, <5>3, <5>4, ChunkShown
        <5>6. up[1].piece \in Piece
          BY <5>4 DEF PiecesIn
        <5>7. PICK k \in Seq(Piece) : k = Append(h, up[1].piece)
          BY <5>6, Appended
        <5>8. t.got = k
          BY <1>0, <4>1, <4>4, <5>0, <5>7 DEF TabSet
        <5>9. /\ Len(k) = g + 1 /\ (\A i \in 1..g : k[i] = h[i])
              /\ k[g + 1] = [file |-> tab[s].want, pos |-> g + 1]
          BY <5>1, <5>5, <5>6, <5>7, AppendProperties
        <5>10. \A i \in 1..(g + 1) : k[i] = [file |-> tab[s].want, pos |-> i]
          <6>1. SUFFICES ASSUME NEW i \in 1..(g + 1) PROVE k[i] = [file |-> tab[s].want, pos |-> i]
            OBVIOUS
          <6>2. CASE i = g + 1
            BY <5>9, <6>2
          <6>3. CASE i # g + 1
            <7>1. i \in 1..g
              BY <6>3
            <7> QED BY <5>3, <5>9, <7>1
          <6> QED BY <6>2, <6>3
        <5>11. ChunksFit(s)'
          BY <2>1, <4>2, <5>5, <5>8, <5>9, <5>10 DEF ChunksFit
        <5>12. From(down', s, {"download"}) = {}
          BY <3>1, <3>5, <5>2 DEF SourceFits
        <5>13. stream[s].pos \in Nat
          BY TransferAssumption DEF TransferTyped, StreamSet
        <5>14. stream[s].at # "off" => SourceIn(up', s, g + 1, stream[s].pos)
          BY <5>0, <5>1, <5>2, <5>5, <5>13 DEF SourceFits
        <5>15. SourceFits(s)'
          BY <1>0, <2>1, <4>2, <5>2, <5>8, <5>9, <5>12, <5>14 DEF SourceFits
        <5> QED BY <5>11, <5>15
      <4> QED BY <2>1, <4>2, <4>3, <4>4 DEF TabFits
    <3>7. CASE up[1].type = "download_done"
      <4>1. /\ t.want = None
            /\ t.saved = IF tab[s].want = None THEN tab[s].saved
                         ELSE tab[s].saved \union {[file |-> tab[s].want, content |-> tab[s].got]}
        BY <1>0, <1>1, <2>0, <3>7, ShownForms
      <4>2. SessionFits(s)'
        BY <1>0, <1>2, <2>1, <2>2, <3>2, <3>3, <3>4, <4>1, SessionKeeps DEF TabFits
      <4>3. ASSUME tab[s].want # None PROVE tab[s].got = Whole(tab[s].want)
        <5>0. PICK h \in Seq(Piece) : h = tab[s].got
          BY <1>0 DEF TabSet
        <5>1. Len(h) \in Nat /\ h \in [1..Len(h) -> Piece]
          BY LenProperties
        <5>2. /\ ChunksIn(up, s, tab[s].want, Len(h)) /\ Len(h) <= Chunks
              /\ \A i \in 1..Len(h) : h[i] = [file |-> tab[s].want, pos |-> i]
          BY <4>3, <5>0 DEF TabFits, ChunksFit
        <5>3. 1 \in From(up, s, {"download_done"}) /\ DOMAIN up = 1..Len(up) /\ Len(up) \in Nat
          BY <1>1, <1>3, <1>7, <3>7 DEF From, Shorter
        <5>4. Len(h) = Chunks
          BY <5>1, <5>2, <5>3, DoneShown
        <5> QED BY <5>0, <5>1, <5>2, <5>4 DEF Whole
      <4>4. \A d \in t.saved : d.content = Whole(d.file)
        BY <4>1, <4>3
      <4> QED BY <2>1, <4>1, <4>2, <4>4 DEF TabFits
    <3> QED BY <2>4, <3>6, <3>7 DEF Data
  <2> QED BY <2>3, <2>4
<1> QED BY <1>6, <1>7

\* The agent takes a frame of the tab.
LEMMA TakeFits ==
    ASSUME TransferTyped, NEW s \in Tabs, slot = s, TabFits(s), StreamFits(s), ReadLoopStep,
           \A i \in DOMAIN down : down[i].session = s
    PROVE  TabFits(s)'
<1>0. /\ tab' = tab /\ mgr \in ManagerSet /\ stream \in [Tabs -> StreamSet] /\ up \in Seq(GoodReport)
      /\ down # <<>> /\ Took
  <2>1. tab' = tab /\ down # <<>> /\ Took
    BY DEF ReadLoopStep, FileStart, FileStop, FileDownload, DirectoryStep, FileRequest, FileDelete, FileRename, Announce, UploadStart, UploadStartFails,
       UploadChunk, UploadChunkFails, UploadEnd, Ignored, Arrives
  <2> QED BY <2>1 DEF TransferTyped
<1>1. Shorter(down, down') /\ 1 \in DOMAIN down /\ down[1].session = s
  BY <1>0, FrameTaken DEF TransferTyped
<1>2. DownKeeps(s)
  BY <1>1, DownSame
<1>3. CASE FileStart
  <2>1. 1 \in From(down, s, {"start"})
    BY <1>1, <1>3 DEF FileStart, Arrives, From
  <2>2. ~Begun(s)
    BY <2>1 DEF TabFits, SessionFits, Quiet
  <2>3. tab[s].want = None /\ tab[s].state # "active"
    BY <2>2 DEF TabFits, SessionFits, Begun
  <2>4. From(down', s, {"start"}) = {}
    <3>1. Moves(down, down', s, {"start"})
      BY <1>1, FromTail
    <3>2. SUFFICES ASSUME NEW i \in From(down', s, {"start"}) PROVE FALSE
      OBVIOUS
    <3>3. i \in Nat /\ i >= 1 /\ i + 1 \in From(down, s, {"start"})
      BY <3>1, <3>2 DEF Moves
    <3>4. i + 1 = 1
      BY <2>1, <3>3 DEF TabFits, SessionFits
    <3> QED BY <3>3, <3>4
  <2>5. mgr'.session = s
    BY <1>1, <1>3 DEF FileStart, Reset
  <2>6. From(up, s, Data) = {} => From(up', s, Data) = {}
    <3>1. OneReport("ready", None, down[1].session)
      BY <1>3, AgentSends
    <3>2. Longer(up, up') /\ \A i \in Added(up, up') : up'[i].type = "ready"
      BY <3>1 DEF OneReport
    <3>3. \A i \in Added(up, up') : ~(up'[i].session = s /\ up'[i].type \in Data)
      BY <3>2 DEF Data
    <3> QED BY <3>2, <3>3, FromLonger
  <2>7. SessionFits(s)'
    BY <1>0, <1>2, <2>3, <2>4, <2>5, <2>6 DEF TabFits, SessionFits, DownKeeps, Quiet
  <2> QED BY <1>0, <2>3, <2>7 DEF TabFits
<1>4. CASE FileStop
  <2>1. 1 \in From(down, s, {"stop"})
    BY <1>1, <1>4 DEF FileStop, Arrives, From
  <2> QED BY <2>1 DEF TabFits, SessionFits, Quiet
<1>5. CASE FileDownload
  <2>1. /\ up' = up /\ mgr' = mgr
        /\ stream'[s] = [at |-> "open", file |-> down[1].file, gen |-> mgr.generation, pos |-> 0]
    BY <1>0, <1>1, <1>5 DEF FileDownload
  <2>2. 1 \in From(down, s, {"download"})
    BY <1>1, <1>5 DEF FileDownload, Arrives, From
  <2>3. Begun(s)' => Begun(s)
    BY <1>0, <2>1 DEF Begun
  <2>4. SessionFits(s)'
    BY <1>0, <1>2, <2>1, <2>3, SessionKeeps DEF TabFits, SessionFits
  <2>5. ASSUME tab[s].want # None PROVE ChunksFit(s)' /\ SourceFits(s)'
    <3>1. ChunksFit(s) /\ SourceFits(s)
      BY <2>5 DEF TabFits
    <3>2. down[1].file = tab[s].want /\ tab[s].got = <<>> /\ From(up, s, Data) = {}
      BY <2>2, <3>1 DEF SourceFits
    <3>3. ChunksFit(s)'
      BY <1>0, <2>1, <3>1 DEF ChunksFit
    <3>4. \A i \in From(down', s, {"download"}) : down'[i].file = tab[s].want
      BY <1>2, <3>1 DEF DownKeeps, SourceFits
    <3>5. SourceIn(up', s, Len(tab[s].got), 0)
      <4>1. Len(tab[s].got) = 0
        BY <3>2
      <4> QED BY <2>1, <3>2, <4>1, NothingSent
    <3>6. SourceFits(s)'
      BY <1>0, <2>1, <3>2, <3>4, <3>5 DEF SourceFits
    <3> QED BY <3>3, <3>6
  <2> QED BY <1>0, <2>4, <2>5 DEF TabFits
<1>6. CASE ~FileStart /\ ~FileStop /\ ~FileDownload
  <2>1. stream' = stream
    BY <1>6 DEF ReadLoopStep, DirectoryStep, FileRequest, FileDelete, FileRename, Announce, UploadStart, UploadStartFails, UploadChunk, UploadChunkFails, UploadEnd, Ignored
  <2>2. mgr'.session = mgr.session /\ mgr'.generation = mgr.generation
    <3>1. CASE Announce \/ UploadChunk
      BY <1>0, <3>1 DEF Announce, UploadStart, UploadChunk, ManagerSet
    <3>2. CASE UploadChunkFails \/ UploadEnd
      BY <1>0, <3>2 DEF UploadChunkFails, UploadEnd, AfterEnd, ManagerSet
    <3>3. CASE UploadStartFails \/ Ignored \/ DirectoryStep
      BY <3>3, DirectoryKeeps DEF UploadStartFails, Ignored
    <3> QED BY <1>6, <3>1, <3>2, <3>3 DEF ReadLoopStep, Announce
  <2>3. /\ UpKeeps(s)
        /\ From(up', s, {"ready"}) # {} => From(up, s, {"ready"}) # {}
    <3>1. CASE up' = up
      BY <3>1, UpSame
    <3>2. CASE UploadStartFails \/ UploadChunkFails \/ UploadEnd \/ DirectoryStep
      <4>1. \E type \in {"error", "listing", "op_ok", "upload_done"} : OneReport(type, None, mgr.session)
        BY <3>2, AgentSends
      <4>2. Longer(up, up') /\ \A i \in Added(up, up') : up'[i].type \notin {"ready"} \union Data
        BY <4>1 DEF OneReport, Data
      <4>3. UpKeeps(s)
        BY <4>2, UpSame
      <4> QED BY <4>3 DEF UpKeeps
    <3> QED BY <1>6, <3>1, <3>2 DEF ReadLoopStep, Announce, UploadStart, UploadChunk, Ignored
  <2>4. Begun(s)' => Begun(s)
    BY <1>0, <2>3 DEF Begun
  <2> QED BY <1>0, <1>2, <2>1, <2>2, <2>3, <2>4, TabKeeps
<1> QED BY <1>3, <1>4, <1>5, <1>6

\* The tab's stream moves.
LEMMA MoveFits ==
    ASSUME TransferTyped, NEW s \in Tabs, slot = s, TabFits(s), StreamFits(s), StreamStep(s)
    PROVE  TabFits(s)'
<1>0. /\ tab' = tab /\ down' = down /\ mgr' = mgr /\ stream[s].at # "off"
      /\ stream \in [Tabs -> StreamSet] /\ stream[s] \in StreamSet /\ up \in Seq(GoodReport)
  BY DEF StreamStep, StreamOpens, StreamFails, StreamChecks, StreamSends, StreamEnds, StreamFinalCheck, StreamDone,
     TransferTyped
<1>1. DownKeeps(s)
  BY <1>0, DownSame
<1>2. tab[s].downloaded /\ From(down', s, {"download"}) = {}
  BY <1>0 DEF StreamFits, Quiet
<1>3. From(up', s, {"ready"}) = From(up, s, {"ready"})
  <2>1. CASE up' = up
    BY <2>1
  <2>2. CASE StreamFails(s) \/ StreamSends(s) \/ StreamDone(s)
    <3>1. \E type \in {"error", "chunk", "download_done"} : \E piece : OneReport(type, piece, mgr.session)
      BY <2>2, StreamSent
    <3>2. Longer(up, up') /\ \A i \in Added(up, up') : ~(up'[i].session = s /\ up'[i].type \in {"ready"})
      BY <3>1 DEF OneReport
    <3> QED BY <3>2, FromLonger
  <2> QED BY <2>1, <2>2 DEF StreamStep, StreamOpens, StreamChecks, StreamEnds, StreamFinalCheck
<1>4. Begun(s)' => Begun(s)
  BY <1>0, <1>3 DEF Begun
<1>5. SessionFits(s)'
  BY <1>0, <1>1, <1>2, <1>4, SessionKeeps DEF TabFits
<1>6. ASSUME tab[s].want # None PROVE ChunksFit(s)' /\ SourceFits(s)'
  <2>1. mgr.session = s
    BY <1>6 DEF TabFits, SessionFits, Begun
  <2>2. ChunksFit(s) /\ SourceFits(s)
    BY <1>6 DEF TabFits
  <2>3. PICK g \in Nat : g = Len(tab[s].got)
    <3>1. tab[s].got \in Seq(Piece)
      BY DEF TransferTyped, TabSet
    <3> QED BY <3>1, LenProperties
  <2>4. /\ ChunksIn(up, s, tab[s].want, g) /\ SourceIn(up, s, g, stream[s].pos)
        /\ stream[s].file = tab[s].want /\ stream[s].gen = mgr.generation
        /\ stream[s].at \in {"final", "done"} => stream[s].pos = Chunks
    BY <1>0, <2>2, <2>3 DEF ChunksFit, SourceFits
  <2>5. SUFFICES /\ ChunksIn(up', s, tab[s].want, g)
                 /\ stream'[s].at # "off" =>
                      /\ stream'[s].file = tab[s].want /\ stream'[s].gen = mgr.generation
                      /\ SourceIn(up', s, g, stream'[s].pos)
                      /\ stream'[s].at \in {"final", "done"} => stream'[s].pos = Chunks
    BY <1>0, <1>2, <2>2, <2>3 DEF ChunksFit, SourceFits
  <2>6. CASE StreamOpens(s) \/ StreamEnds(s)
    <3>1. CASE StreamOpens(s)
      <4>1. up' = up /\ stream'[s] = [stream[s] EXCEPT !.at = "check"]
        BY <1>0, <3>1 DEF StreamOpens
      <4> QED BY <1>0, <2>4, <4>1 DEF StreamSet
    <3>2. CASE StreamEnds(s)
      <4>1. /\ up' = up /\ stream'[s] = [stream[s] EXCEPT !.at = "final"]
            /\ stream[s].pos = Chunks
        BY <1>0, <3>2 DEF StreamEnds
      <4> QED BY <1>0, <2>4, <4>1 DEF StreamSet
    <3> QED BY <2>6, <3>1, <3>2
  <2>7. CASE StreamChecks(s) \/ StreamFinalCheck(s)
    <3>1. CASE StreamChecks(s)
      <4>1. up' = up /\ (stream'[s] = Off \/ stream'[s] = [stream[s] EXCEPT !.at = "send"])
        BY <1>0, <3>1 DEF StreamChecks
      <4> QED BY <1>0, <2>4, <4>1 DEF StreamSet, Off
    <3>2. CASE StreamFinalCheck(s)
      <4>1. /\ up' = up /\ stream[s].at = "final"
            /\ stream'[s] = Off \/ stream'[s] = [stream[s] EXCEPT !.at = "done"]
        BY <1>0, <3>2 DEF StreamFinalCheck
      <4> QED BY <1>0, <2>4, <4>1 DEF StreamSet, Off
    <3> QED BY <2>7, <3>1, <3>2
  <2>8. CASE StreamFails(s)
    <3>1. OneReport("error", None, mgr.session)
      BY <2>8, StreamSent
    <3>2. Longer(up, up') /\ \A i \in Added(up, up') : ~(up'[i].session = s /\ up'[i].type \in Data)
      BY <3>1 DEF OneReport, Data
    <3>3. ChunksIn(up', s, tab[s].want, g)
      BY <2>4, <3>2, DataLonger
    <3>4. stream'[s].at = "off"
      BY <1>0, <2>8 DEF StreamFails, Off
    <3> QED BY <3>3, <3>4
  <2>9. CASE StreamSends(s)
    <3>1. OneReport("chunk", [file |-> stream[s].file, pos |-> stream[s].pos + 1], mgr.session)
      BY <2>9, StreamSent
    <3>2. PICK x : x = up'[Len(up) + 1]
      OBVIOUS
    <3>3. Grown(up, up', x)
      BY <3>1, <3>2 DEF OneReport, Grown
    <3>4. x.session = s /\ x.type = "chunk" /\ x.piece = [file |-> tab[s].want, pos |-> stream[s].pos + 1]
      BY <2>1, <2>4, <3>1, <3>2 DEF OneReport
    <3>5. PiecesIn(up, s) /\ stream[s].pos \in Nat
      BY <1>0, PiecesFit, TransferAssumption DEF StreamSet
    <3>6. ChunksIn(up', s, tab[s].want, g) /\ SourceIn(up', s, g, stream[s].pos + 1)
      BY <2>4, <3>3, <3>4, <3>5, ChunkAdded
    <3>7. /\ stream'[s].at = "check" /\ stream'[s].pos = stream[s].pos + 1
          /\ stream'[s].file = stream[s].file /\ stream'[s].gen = stream[s].gen
      BY <1>0, <2>9 DEF StreamSends, StreamSet
    <3> QED BY <2>4, <3>6, <3>7
  <2>10. CASE StreamDone(s)
    <3>1. OneReport("download_done", None, mgr.session)
      BY <2>10, StreamSent
    <3>2. PICK x : x = up'[Len(up) + 1]
      OBVIOUS
    <3>3. Grown(up, up', x) /\ x.session = s /\ x.type = "download_done"
      BY <2>1, <3>1, <3>2 DEF OneReport, Grown
    <3>4. stream[s].pos = Chunks /\ stream'[s].at = "off"
      BY <1>0, <2>4, <2>10 DEF StreamDone, Off
    <3>5. ChunksIn(up', s, tab[s].want, g)
      BY <2>4, <3>3, <3>4, DoneAdded
    <3> QED BY <3>4, <3>5
  <2> QED BY <2>6, <2>7, <2>8, <2>9, <2>10 DEF StreamStep
<1> QED BY <1>0, <1>5, <1>6 DEF TabFits

-----------------------------------------------------------------------------
\* A tab that stays alone.
LEMMA AloneStep ==
    ASSUME TransferTyped, \A r \in Tabs : NewFits(r) /\ StreamFits(r), NEW s \in Tabs, AloneFits(s), [Next]_vars
    PROVE  AloneFits(s)'
<1>0. /\ tab \in [Tabs -> TabSet] /\ tab[s] \in TabSet /\ s # None
      /\ \A r \in Tabs : tab[r] \in TabSet
  BY TransferAssumption DEF TransferTyped
<1>1. SUFFICES ASSUME Alone(s)'
               PROVE  /\ \A d \in tab'[s].saved : d.content = Whole(d.file)
                      /\ slot' = s => TabFits(s)'
  BY DEF AloneFits, Whole
<1>2. Alone(s)
  <2>1. \A r \in Tabs \ {s} : tab'[r].state = "new"
    BY <1>1 DEF Alone
  <2> QED BY <2>1, NewBefore DEF Alone
<1>3. /\ slot \in {s, None} /\ mgr.session \in {s, None}
      /\ \A i \in DOMAIN down : down[i].session = s
      /\ \A i \in DOMAIN up : up[i].session \in {s, None}
      /\ \A r \in Tabs \ {s} : tab[r].state = "new" /\ stream[r].at = "off"
  BY <1>2, AloneOwns
<1>4. /\ \A d \in tab[s].saved : d.content = Whole(d.file)
      /\ slot = s => TabFits(s)
  BY <1>2 DEF AloneFits
<1>5. NewFits(s) /\ StreamFits(s)
  OBVIOUS
<1>6. ASSUME NEW r \in Tabs, BrowserStep(r)
      PROVE  /\ \A d \in tab'[s].saved : d.content = Whole(d.file)
             /\ slot' = s => TabFits(s)'
  <2>1. r = s
    <3>1. SUFFICES ASSUME r # s PROVE FALSE
      OBVIOUS
    <3>2. tab[r].state = "new" /\ tab'[r].state = "new" /\ slot # r
      <4>1. tab[r].state = "new" /\ tab'[r].state = "new"
        BY <1>1, <1>3, <3>1 DEF Alone
      <4>2. slot # r
        BY <4>1 DEF NewFits
      <4> QED BY <4>1, <4>2
    <3>3. ~Open(r)
      BY <1>0, <3>2 DEF Open, Closed, TabSet
    <3>4. ~Close(r) /\ ~StartUpload(r) /\ ~SendChunk(r)
      BY <3>2 DEF Close, StartUpload, SendChunk, Idle
    <3>5. \A f \in Files : ~StartDownload(r, f)
      BY <3>2 DEF StartDownload, Idle
    <3>6. \A type \in {"list", "op"} : ~Request(r, type)
      BY <3>2 DEF Request, Idle
    <3> QED BY <1>6, <3>3, <3>4, <3>5, <3>6 DEF BrowserStep
  <2>2. CASE Open(s)
    BY <1>3, <1>4, <1>5, <2>2, OpenFits
  <2>3. CASE Close(s)
    <3>1. slot' # s /\ tab'[s].saved = tab[s].saved
      BY <1>0, <2>3 DEF Close, Closed, TabSet
    <3> QED BY <1>4, <3>1
  <2>4. ASSUME NEW f \in Files, StartDownload(s, f)
        PROVE  TabFits(s)' /\ tab'[s].saved = tab[s].saved
    <3>1. slot = s
      BY <2>4 DEF StartDownload, Idle
    <3> QED BY <1>4, <1>5, <2>4, <3>1, AskFits
  <2>5. CASE StartUpload(s) \/ SendChunk(s) \/ \E type \in {"list", "op"} : Request(s, type)
    <3>1. slot = s /\ UNCHANGED <<up, mgr, stream>>
      BY <2>5 DEF StartUpload, SendChunk, Request, Idle
    <3>2. /\ tab'[s].state = tab[s].state /\ tab'[s].downloaded = tab[s].downloaded /\ tab'[s].want = tab[s].want
          /\ tab'[s].got = tab[s].got /\ tab'[s].saved = tab[s].saved
      <4>1. CASE StartUpload(s)
        BY <1>0, <4>1 DEF StartUpload, TabSet
      <4>2. CASE SendChunk(s)
        BY <1>0, <4>2 DEF SendChunk, TabSet
      <4>3. ASSUME NEW type \in {"list", "op"}, Request(s, type)
            PROVE  /\ tab'[s].state = tab[s].state /\ tab'[s].downloaded = tab[s].downloaded
                   /\ tab'[s].want = tab[s].want /\ tab'[s].got = tab[s].got /\ tab'[s].saved = tab[s].saved
        BY <1>0, <4>3 DEF Request, TabSet
      <4> QED BY <2>5, <4>1, <4>2, <4>3
    <3>3. PICK type \in {"upload_start", "upload_chunk", "upload_end", "list", "op"} : OneMore(type, s, None)
      BY <2>5, BrowserSends
    <3>4. Longer(down, down') /\ \A i \in Added(down, down') : down'[i].type \notin {"stop", "start", "download"}
      BY <3>3 DEF OneMore, FrameOf
    <3>5. DownKeeps(s) /\ UpKeeps(s)
      BY <3>1, <3>4, DownSame, UpSame
    <3>6. Begun(s)' => Begun(s)
      BY <3>1, <3>2 DEF Begun
    <3>7. TabFits(s)'
      BY <1>4, <3>1, <3>2, <3>5, <3>6, TabKeeps
    <3> QED BY <1>4, <3>2, <3>7
  <2> QED BY <1>4, <1>6, <2>1, <2>2, <2>3, <2>4, <2>5 DEF BrowserStep
<1>7. CASE Relay
  <2>1. slot' = slot /\ Shorter(up, up')
    BY <1>7, RelaySends DEF Relay
  <2>2. up[1].session \in {s, None}
    <3>1. 1 \in DOMAIN up
      BY <2>1 DEF Shorter
    <3> QED BY <1>3, <3>1
  <2>3. CASE slot = s
    BY <1>4, <1>7, <2>2, <2>3, RelayFits
  <2>4. CASE slot = None
    <3>1. tab' = tab
      BY <1>7, <2>4, RelaySends DEF Current
    <3> QED BY <1>0, <1>4, <2>1, <2>4, <3>1
  <2> QED BY <1>3, <2>3, <2>4
<1>8. CASE ReadLoopStep
  <2>1. tab' = tab /\ slot' = slot
    BY <1>8 DEF ReadLoopStep, FileStart, FileStop, FileDownload, DirectoryStep, FileRequest, FileDelete, FileRename, Announce, UploadStart, UploadStartFails,
       UploadChunk, UploadChunkFails, UploadEnd, Ignored
  <2>2. slot = s => TabFits(s)'
    BY <1>3, <1>4, <1>5, <1>8, TakeFits
  <2> QED BY <1>4, <2>1, <2>2
<1>9. ASSUME NEW r \in Tabs, StreamStep(r)
      PROVE  /\ \A d \in tab'[s].saved : d.content = Whole(d.file)
             /\ slot' = s => TabFits(s)'
  <2>1. tab' = tab /\ slot' = slot /\ stream[r].at # "off"
    BY <1>9 DEF StreamStep, StreamOpens, StreamFails, StreamChecks, StreamSends, StreamEnds, StreamFinalCheck, StreamDone
  <2>2. r = s
    BY <1>3, <2>1
  <2>3. slot = s => TabFits(s)'
    BY <1>4, <1>5, <1>9, <2>2, MoveFits
  <2> QED BY <1>4, <2>1, <2>3
<1>10. CASE ChannelLost
  <2>1. slot' # s /\ tab'[s].saved = tab[s].saved
    BY <1>0, <1>10 DEF ChannelLost, Closed, TabSet
  <2> QED BY <1>4, <2>1
<1>11. CASE UNCHANGED vars
  <2>1. UNCHANGED <<slot, down, up, tab, mgr, stream>>
    BY <1>11 DEF vars
  <2>2. DownKeeps(s) /\ UpKeeps(s)
    BY <2>1, DownSame, UpSame
  <2>3. Begun(s)' => Begun(s)
    BY <2>1 DEF Begun
  <2>4. slot = s => TabFits(s)'
    BY <1>4, <2>1, <2>2, <2>3, TabKeeps
  <2> QED BY <1>4, <2>1, <2>4
<1> QED BY <1>6, <1>7, <1>8, <1>9, <1>10, <1>11 DEF Next
-----------------------------------------------------------------------------
\* The invariant

\* The invariant holds before any tab is opened.
LEMMA TransferStarts == Init => TransferInv
<1>1. SUFFICES ASSUME Init PROVE TransferInv
  OBVIOUS
<1>2. TransferTyped
  <2>1. slot \in SessionId /\ drops \in 0..MaxDrops
    BY <1>1, TransferAssumption DEF Init, SessionId
  <2>2. down \in Seq(GoodFrame) /\ up \in Seq(GoodReport)
    BY <1>1 DEF Init
  <2>3. tab \in [Tabs -> TabSet]
    <3>1. <<>> \in Seq(Piece) /\ 0 \in 0..(Chunks + 1) /\ 0 \in 0..MaxRequests
      BY TransferAssumption
    <3> QED BY <1>1, <3>1 DEF Init, TabSet
  <2>4. mgr \in ManagerSet
    BY <1>1, TransferAssumption DEF Init, NewManager, ManagerSet, SessionId
  <2>5. stream \in [Tabs -> StreamSet]
    BY <1>1, TransferAssumption DEF Init, StreamSet
  <2>6. disk \in [Paths -> DiskSet] /\ late \in [Tabs -> Nat]
    BY <1>1, TransferAssumption DEF Init, DiskSet, Removed
  <2> QED BY <2>1, <2>2, <2>3, <2>4, <2>5, <2>6 DEF TransferTyped
<1>3. \A q, s, types : q = <<>> => From(q, s, types) = {}
  BY DEF From
<1>4. ASSUME NEW s \in Tabs
      PROVE  /\ slot # s /\ mgr.session # s /\ down = <<>> /\ up = <<>>
             /\ ~tab[s].downloaded /\ ~tab[s].uploaded /\ tab[s].saved = {} /\ tab[s].want = None
             /\ stream[s].at = "off" /\ late[s] = 0
  BY <1>1, TransferAssumption DEF Init, NewManager
<1>5. UploadInv
  <2>1. SUFFICES ASSUME NEW s \in Tabs PROVE \E n \in [Nat -> Nat] : UploadFits(n, s)
    BY DEF UploadInv
  <2>2. PICK n \in [Nat -> Nat] : n = [i \in Nat |-> 0]
    OBVIOUS
  <2>3. Over(s) /\ Quiet(s, Uploading)
    BY <1>3, <1>4 DEF Over, Quiet, Busy
  <2>4. UploadFits(n, s)
    BY <1>4, <2>3 DEF UploadFits, Over
  <2> QED BY <2>4
<1>6. ASSUME NEW s \in Tabs PROVE NewFits(s) /\ StreamFits(s) /\ AloneFits(s)
  <2>1. NewFits(s)
    BY <1>4 DEF NewFits
  <2>2. StreamFits(s)
    BY <1>3, <1>4 DEF StreamFits, Quiet
  <2>3. AloneFits(s)
    BY <1>4 DEF AloneFits
  <2> QED BY <2>1, <2>2, <2>3
<1>7. DiskFits
  BY <1>1, TransferAssumption
     DEF Init, NewManager, Removed, DiskFits, UploadDoneIsComplete, NoTruncatedFile
<1> QED BY <1>2, <1>5, <1>6, <1>7 DEF TransferInv

\* Every step of a tab, the relay, the agent and its streams keeps the invariant.
LEMMA TransferStep == TransferInv /\ [Next]_vars => TransferInv'
<1>1. SUFFICES ASSUME TransferInv, [Next]_vars PROVE TransferInv'
  OBVIOUS
<1>2. TransferTyped /\ UploadInv /\ DiskFits /\ \A s \in Tabs : NewFits(s) /\ StreamFits(s) /\ AloneFits(s)
  BY <1>1 DEF TransferInv
<1>3. TransferTyped' /\ UploadInv' /\ DiskFits'
  BY <1>1, <1>2, ChunksCounted, TypedStep, UploadStep, DiskStep
<1>4. \A s \in Tabs : NewFits(s)'
  BY <1>1, <1>2, NewKeeps
<1>5. \A s \in Tabs : StreamFits(s)'
  BY <1>1, <1>2, StreamsStep
<1>6. \A s \in Tabs : AloneFits(s)'
  BY <1>1, <1>2, AloneStep
<1> QED BY <1>3, <1>4, <1>5, <1>6 DEF TransferInv

\* The invariant of a file transfer holds in every state.
LEMMA TransferHolds == Spec => []TransferInv
BY TransferStarts, TransferStep, PTL DEF Spec

\* The variables of a file transfer keep their types: what travels names a session, an
\* upload never receives more chunks than its file has.
THEOREM TransferTypes == Spec => []TypeOK
<1>1. TransferInv => TypeOK
  <2>1. SUFFICES ASSUME TransferTyped PROVE TypeOK
    BY DEF TransferInv
  <2>2. down \in Seq(Frame) /\ up \in Seq(Report)
    <3>1. GoodFrame \subseteq Frame /\ GoodReport \subseteq Report
      BY DEF GoodFrame, GoodReport
    <3>2. \A i \in DOMAIN down : down[i] \in Frame
      BY <2>1, <3>1, LenProperties, ElementOfSeq DEF TransferTyped
    <3>3. \A i \in DOMAIN up : up[i] \in Report
      BY <2>1, <3>1, LenProperties, ElementOfSeq DEF TransferTyped
    <3>4. down \in Seq(Frame)
      BY <2>1, <3>2, LenProperties DEF TransferTyped
    <3>5. up \in Seq(Report)
      BY <2>1, <3>3, LenProperties DEF TransferTyped
    <3> QED BY <3>4, <3>5
  <2>3. tab \in [Tabs -> TabSet] /\ stream \in [Tabs -> StreamSet] /\ disk \in [Paths -> DiskSet] /\ mgr \in ManagerSet
    BY <2>1 DEF TransferTyped
  <2>4. mgr \in [session : SessionId, upload : Paths \union {None}, at : Paths \union {None},
                 received : 0..Chunks, generation : Nat]
    BY <2>3 DEF ManagerSet
  <2>5. stream \in [Tabs -> [at : {"off", "open", "check", "send", "final", "done"},
                             file : Files \union {None}, gen : Nat, pos : 0..Chunks]]
    BY <2>3 DEF StreamSet
  <2> QED BY <2>1, <2>2, <2>3, <2>4, <2>5 DEF TypeOK, TransferTyped, TabSet, DiskSet
<1> QED BY <1>1, TransferHolds, PTL

\* An upload is only called done when it holds every announced chunk; a partial file is the
\* one being uploaded; and a finished one is replaced, moved or removed only by the frame
\* of the current session that arrives then, an upload to its path or a request, or when
\* the upload ends in whose place a rename has put it: whatever tabs preempt each other,
\* wherever writing fails and the channel is lost (src/agent/internal/terminal/file.go).
THEOREM UploadsWhole == Spec => UploadsAreWhole
<1> DEFINE Named(p) == \/ Arrives("upload_start") /\ Mine /\ Took /\ mgr'.upload = p
                       \/ Arrives("op") /\ Mine /\ Took
                       \/ mgr.upload = p /\ mgr.at # p
<1>1. TransferInv => UploadDoneIsComplete /\ NoTruncatedFile
  BY DEF TransferInv, DiskFits
<1>2. TransferInv /\ [Next]_vars =>
        \A p \in Paths : disk[p].state = "finished" /\ disk'[p] # disk[p] => Named(p)
  BY FinishedKept DEF TransferInv
<1>3. TransferInv /\ [Next]_vars =>
        [\A p \in Paths : disk[p].state = "finished" /\ disk'[p] # disk[p] => Named(p)]_vars
  BY <1>2
<1> QED BY <1>1, <1>3, TransferHolds, PTL DEF Spec, UploadsAreWhole, FinishedUploadStays

\* A superseded download puts at most one frame on the wire, and a tab nobody preempts
\* saves the files it asked for, whole and in order: the check of the generation is not
\* atomic with the sending, and no more than that can come of it.
THEOREM StreamsApart == Spec => []DownloadsStayApart
<1>1. TransferInv => DownloadsStayApart
  <2>1. SUFFICES ASSUME TransferInv PROVE OneLateFrame /\ AloneIsIntact
    BY DEF DownloadsStayApart
  <2>2. OneLateFrame
    BY <2>1 DEF TransferInv, StreamFits, OneLateFrame
  <2>3. AloneIsIntact
    <3>1. SUFFICES ASSUME NEW s \in Tabs, Alone(s) PROVE SavedIsIntact
      BY DEF AloneIsIntact, Alone
    <3>2. \A d \in tab[s].saved : d.content = Whole(d.file)
      BY <2>1, <3>1 DEF TransferInv, AloneFits
    <3>3. \A r \in Tabs \ {s} : tab[r].saved = {}
      BY <2>1, <3>1 DEF TransferInv, NewFits, Alone
    <3> QED BY <3>2, <3>3 DEF SavedIsIntact
  <2> QED BY <2>2, <2>3
<1> QED BY <1>1, TransferHolds, PTL
=============================================================================
