------------------------------ MODULE SessionHub ------------------------------
(***************************************************************************)
(* The live session relay of one node: TerminalHub and FileHub             *)
(* (src/app/terminal_hub.py), the browser handlers (src/app/api/nodes.py), *)
(* the control-channel handler (src/app/api/agent.py) and the agent's      *)
(* session managers (src/agent/internal/terminal).                         *)
(*                                                                         *)
(* The server is one asyncio process.  A coroutine runs alone from one     *)
(* await to the next, so every action of a handler resumes one coroutine   *)
(* and runs it to the await it suspends on.  AgentLink.send is a FIFO lock *)
(* around a write: the queue of a link holds the sends that wait for it.   *)
(* A session belongs to the one tab it was made for, so the tab names it.  *)
(***************************************************************************)
EXTENDS Naturals, Sequences

CONSTANTS
    TerminalTabs, \* browser tabs that open /terminal/ws
    FileTabs,     \* browser tabs that open /files/ws
    MaxLinks,     \* control channels the agent opens, one after the other
    MaxInput,     \* frames the tabs send
    MaxOutput,    \* frames the shells and transfers produce
    MaxDrops,     \* control channels the network drops
    None          \* Python's None

Tabs  == TerminalTabs \union FileTabs
Links == 1..MaxLinks
Kinds == {"terminal", "file"}
Kind(b) == IF b \in TerminalTabs THEN "terminal" ELSE "file"

ASSUME HubAssumption ==
    /\ MaxLinks \in Nat /\ MaxInput \in Nat /\ MaxOutput \in Nat /\ MaxDrops \in Nat
    /\ TerminalTabs \intersect FileTabs = {}
    /\ None \notin Tabs /\ None \notin Links

VARIABLES
    registry, \* TerminalHub._agents[node]
    link,     \* AgentLink objects with the coroutine that serves each
    tab,      \* browser WebSockets with the coroutine that serves each
    toAgent,  \* frames on the control channel, server to agent
    toServer, \* frames on the control channel, agent to server
    agent,    \* the agent's session managers and shells
    seen,     \* history: sessions shown in each tab, sessions each tab typed into
    budget    \* what is left of the bounds

vars == <<registry, link, tab, toAgent, toServer, agent, seen, budget>>
-----------------------------------------------------------------------------
TabOrNone == Tabs \union {None}

Frame == [type : {"start", "input", "stop"}, session : TabOrNone, by : Tabs]
Report == [type : {"started", "output", "exited"}, session : Tabs]

LinkRecord ==
    [conn : {"unused", "up", "gone", "received", "closed"},
     slot : [Kinds -> TabOrNone],
     queue : Seq(Frame),
     at : {"receive", "relay", "tell", "close", "done"},
     kind : Kinds, target : TabOrNone, type : {"started", "output", "exited"},
     session : TabOrNone]

TabRecord ==
    [at : {"idle", "tell", "close", "stopOld", "start", "greet", "receive",
           "relay", "stopping", "done"},
     on : Links \union {None}, target : TabOrNone,
     peer : {"up", "gone"}, client : {"up", "gone"}, app : {"up", "closed"}]

TypeOK ==
    /\ registry \in Links \union {None}
    /\ link \in [Links -> LinkRecord]
    /\ tab \in [Tabs -> TabRecord]
    /\ toAgent \in [Links -> Seq(Frame)]
    /\ toServer \in [Links -> Seq(Report)]
    /\ agent \in [link : Links \union {None}, cur : [Kinds -> TabOrNone],
                  shell : [Tabs -> {"none", "running", "ended", "reported"}]]
    /\ seen \in [shown : [Tabs -> SUBSET Tabs], typed : [Tabs -> SUBSET Tabs]]
    /\ budget \in [input : 0..MaxInput, output : 0..MaxOutput, drops : 0..MaxDrops]

Init ==
    /\ registry = None
    /\ link = [l \in Links |->
                [conn |-> "unused", slot |-> [k \in Kinds |-> None], queue |-> <<>>,
                 at |-> "receive", kind |-> "terminal", target |-> None,
                 type |-> "output", session |-> None]]
    /\ tab = [b \in Tabs |->
                [at |-> "idle", on |-> None, target |-> None,
                 peer |-> "up", client |-> "up", app |-> "up"]]
    /\ toAgent = [l \in Links |-> <<>>]
    /\ toServer = [l \in Links |-> <<>>]
    /\ agent = [link |-> None, cur |-> [k \in Kinds |-> None],
                shell |-> [b \in Tabs |-> "none"]]
    /\ seen = [shown |-> [b \in Tabs |-> {}], typed |-> [b \in Tabs |-> {}]]
    /\ budget = [input |-> MaxInput, output |-> MaxOutput, drops |-> MaxDrops]
-----------------------------------------------------------------------------
\* What a send does.  Starlette skips it when it has received a disconnect
\* (client_state, the only state the code tests), raises when the server itself
\* has sent a close (application_state), and raises or loses the frame when the
\* connection is dead and nobody has read the disconnect yet.

TabSend(b) ==
    IF tab[b].client = "gone" THEN {"skipped"}
    ELSE IF tab[b].app = "closed" THEN {"raised"}
    ELSE IF tab[b].peer = "gone" THEN {"skipped", "raised"}
    ELSE {"sent"}

LinkSend(l) ==
    CASE link[l].conn = "up" -> {"sent"}
      [] link[l].conn = "gone" -> {"skipped", "raised"}
      [] link[l].conn = "received" -> {"skipped"}
      [] OTHER -> {"raised"}

\* websocket.close() returns when the closing handshake is over.  The end of
\* the connection wakes a receive that waits on it before it wakes the close.
\* The bug waits for the tab's handler to have read the disconnect.
HandshakeRead(b) == tab[b].client = "gone"

HandshakeOver(b) == tab[b].peer = "gone" /\ tab[b].at # "receive"

Enqueue(l, type, session, b) ==
    Append(link[l].queue, [type |-> type, session |-> session, by |-> b])

\* The slot of b's kind on the link b holds.
Slot(b) == link[tab[b].on].slot[Kind(b)]
-----------------------------------------------------------------------------
\* The slots of a link without kind k's.
Clear(l, k) == [link[l].slot EXCEPT ![k] = None]

\* start_session, nodes.py:node_terminal_ws and node_files_ws

\* Nothing to preempt: the slot is taken at once and the start frame queued.
TakeSlot(b, l, queue) ==
    /\ link' = [link EXCEPT
            ![l].slot[Kind(b)] = b,
            ![l].queue = Append(queue, [type |-> "start", session |-> b, by |-> b])]
    /\ tab' = [tab EXCEPT ![b].at = "start", ![b].on = l, ![b].target = None]

OpenRefused(b) ==
    /\ tab[b].at = "idle"
    /\ registry = None
    /\ tab' = [tab EXCEPT ![b].at = "done", ![b].peer = "gone", ![b].app = "closed"]
    /\ UNCHANGED <<registry, link, toAgent, toServer, agent, seen, budget>>

OpenFree(b) ==
    /\ tab[b].at = "idle"
    /\ registry # None
    /\ link[registry].slot[Kind(b)] = None
    /\ TakeSlot(b, registry, link[registry].queue)
    /\ UNCHANGED <<registry, toAgent, toServer, agent, seen, budget>>

OpenPreempting(b) ==
    /\ tab[b].at = "idle"
    /\ registry # None
    /\ link[registry].slot[Kind(b)] # None
    /\ tab' = [tab EXCEPT ![b].at = "tell", ![b].on = registry,
                          ![b].target = link[registry].slot[Kind(b)]]
    /\ UNCHANGED <<registry, link, toAgent, toServer, agent, seen, budget>>

\* The send of the preemption notice raised: the handler ends before its try.
TellRaised(b) ==
    /\ tab[b].at = "tell"
    /\ "raised" \in TabSend(tab[b].target)
    /\ tab' = [tab EXCEPT ![b].at = "done", ![b].peer = "gone"]
    /\ UNCHANGED <<registry, link, toAgent, toServer, agent, seen, budget>>

Closable(b) == Slot(b) \in {v \in Tabs : tab[v].app = "up"}

\* After the notice, agent.browser is read again and closed: it may be None or
\* closed already, which raises inside the try.
Told(b) ==
    /\ tab[b].at = "tell"
    /\ TabSend(tab[b].target) # {"raised"}
    /\ Closable(b)
    /\ tab' = [tab EXCEPT ![b].at = "close", ![b].target = Slot(b),
                          ![Slot(b)].app = "closed"]
    /\ UNCHANGED <<registry, link, toAgent, toServer, agent, seen, budget>>

QueueStopOld(b) ==
    /\ link' = [link EXCEPT ![tab[b].on].queue = Enqueue(tab[b].on, "stop", Slot(b), b)]
    /\ tab' = [tab EXCEPT ![b].at = "stopOld", ![b].target = None]
    /\ UNCHANGED <<registry, toAgent, toServer, agent, seen, budget>>

ToldNothingToClose(b) ==
    /\ tab[b].at = "tell"
    /\ TabSend(tab[b].target) # {"raised"}
    /\ ~Closable(b)
    /\ QueueStopOld(b)

VictimClosed(b) ==
    /\ tab[b].at = "close"
    /\ HandshakeOver(tab[b].target)
    /\ QueueStopOld(b)

\* The "connecting" frame goes out before the handler's try.
Greet(b) ==
    /\ tab[b].at = "greet"
    /\ tab[b].app = "up" /\ tab[b].peer = "up"
    /\ tab' = [tab EXCEPT ![b].at = "receive"]
    /\ UNCHANGED <<registry, link, toAgent, toServer, agent, seen, budget>>

GreetRaised(b) ==
    /\ tab[b].at = "greet"
    /\ tab[b].app = "closed" \/ tab[b].peer = "gone"
    /\ tab' = [tab EXCEPT ![b].at = "done", ![b].peer = "gone"]
    /\ UNCHANGED <<registry, link, toAgent, toServer, agent, seen, budget>>
-----------------------------------------------------------------------------
\* The receive loop, handle_browser_message and the finally with stop_session

\* stop_session: the stop names the session that is current when it is called.
\* With an empty slot there is nothing to send.  q is the queue it joins, c
\* whether the handler has received the tab's disconnect.
LeaveHandler(b, l, q, c) ==
    IF link[l].slot[Kind(b)] = None
    THEN /\ link' = [link EXCEPT ![l].queue = q]
         /\ tab' = [tab EXCEPT ![b].at = "done", ![b].peer = "gone", ![b].client = c]
    ELSE /\ link' = [link EXCEPT ![l].queue =
                Append(q, [type |-> "stop", session |-> link[l].slot[Kind(b)], by |-> b])]
         /\ tab' = [tab EXCEPT ![b].at = "stopping", ![b].client = c]

\* The user leaves, the tab answers a close, or a close times out.
TabGone(b) ==
    /\ tab[b].at \notin {"idle", "done"}
    /\ tab[b].peer = "up"
    /\ tab' = [tab EXCEPT ![b].peer = "gone"]
    /\ UNCHANGED <<registry, link, toAgent, toServer, agent, seen, budget>>

ReceiveDisconnect(b) ==
    /\ tab[b].at = "receive"
    /\ tab[b].peer = "gone"
    /\ LeaveHandler(b, tab[b].on, link[tab[b].on].queue, "gone")
    /\ UNCHANGED <<registry, toAgent, toServer, agent, seen, budget>>

\* The session a tab's input is sent to: whatever the slot holds.
InputSession(b) == Slot(b)

BrowserInput(b) ==
    /\ tab[b].at = "receive"
    /\ tab[b].peer = "up"
    /\ budget.input > 0
    /\ InputSession(b) # None
    /\ link' = [link EXCEPT ![tab[b].on].queue = Enqueue(tab[b].on, "input", InputSession(b), b)]
    /\ tab' = [tab EXCEPT ![b].at = "relay"]
    /\ budget' = [budget EXCEPT !.input = @ - 1]
    /\ UNCHANGED <<registry, toAgent, toServer, agent, seen>>
-----------------------------------------------------------------------------
\* AgentLink.send: the oldest waiting send finishes and its coroutine goes on

First(l) == link[l].queue[1]
Rest(l)  == Tail(link[l].queue)
Sender(l, at) == link[l].queue # <<>> /\ tab[First(l).by].at = at

\* The bug repeats a send that was written already.
WrittenTwice(l) ==
    toAgent' = IF link[l].conn = "up"
               THEN [toAgent EXCEPT ![l] = @ \o <<First(l), First(l)>>] ELSE toAgent

Written(l) ==
    toAgent' = IF link[l].conn = "up" THEN [toAgent EXCEPT ![l] = Append(@, First(l))]
               ELSE toAgent

StopOldSent(l) ==
    /\ Sender(l, "stopOld")
    /\ LinkSend(l) # {"raised"}
    /\ Written(l)
    /\ TakeSlot(First(l).by, l, Rest(l))
    /\ UNCHANGED <<registry, toServer, agent, seen, budget>>

StartSent(l) ==
    /\ Sender(l, "start")
    /\ LinkSend(l) # {"raised"}
    /\ Written(l)
    /\ link' = [link EXCEPT ![l].queue = Rest(l)]
    /\ tab' = [tab EXCEPT ![First(l).by].at = "greet"]
    /\ UNCHANGED <<registry, toServer, agent, seen, budget>>

\* Back to receive_text, which raises once the server has closed this tab.
InputSent(l) ==
    /\ Sender(l, "relay")
    /\ LinkSend(l) # {"raised"}
    /\ Written(l)
    /\ IF tab[First(l).by].app = "closed"
       THEN LeaveHandler(First(l).by, l, Rest(l), tab[First(l).by].client)
       ELSE /\ link' = [link EXCEPT ![l].queue = Rest(l)]
            /\ tab' = [tab EXCEPT ![First(l).by].at = "receive"]
    /\ UNCHANGED <<registry, toServer, agent, seen, budget>>

\* The tail of stop_session: whatever session is in the slot now is forgotten.
StopSent(l) ==
    /\ Sender(l, "stopping")
    /\ LinkSend(l) # {"raised"}
    /\ Written(l)
    /\ link' = [link EXCEPT ![l].queue = Rest(l), ![l].slot = Clear(l, Kind(First(l).by))]
    /\ tab' = [tab EXCEPT ![First(l).by].at = "done", ![First(l).by].peer = "gone"]
    /\ UNCHANGED <<registry, toServer, agent, seen, budget>>

\* A send that raises ends the handler; only the receive loop has a finally.
SendRaised(l) ==
    /\ link[l].queue # <<>>
    /\ "raised" \in LinkSend(l)
    /\ IF Sender(l, "relay")
       THEN LeaveHandler(First(l).by, l, Rest(l), tab[First(l).by].client)
       ELSE /\ link' = [link EXCEPT ![l].queue = Rest(l)]
            /\ tab' = [tab EXCEPT ![First(l).by].at = "done", ![First(l).by].peer = "gone"]
    /\ UNCHANGED <<registry, toAgent, toServer, agent, seen, budget>>
-----------------------------------------------------------------------------
\* agent_terminal_ws: the control channel's handler

Serving(l) == link[l].conn \in {"up", "gone"} /\ link[l].at = "receive"

\* The bug relays whatever arrives for an open slot.
RelevantAny(l, m) == TRUE

\* handle_agent_message drops what is not of the session in its kind's slot.
Relevant(l, m) == link[l].slot[Kind(m.session)] = m.session

LinkReceive(l) ==
    /\ Serving(l)
    /\ toServer[l] # <<>>
    /\ LET m == toServer[l][1] IN
        /\ toServer' = [toServer EXCEPT ![l] = Tail(@)]
        /\ IF Relevant(l, m) /\ link[l].slot[Kind(m.session)] # None
           THEN link' = [link EXCEPT ![l].at = "relay", ![l].kind = Kind(m.session),
                            ![l].target = link[l].slot[Kind(m.session)],
                            ![l].type = m.type, ![l].session = m.session]
           ELSE UNCHANGED link
    /\ UNCHANGED <<registry, tab, toAgent, agent, seen, budget>>

\* The relayed frame is out; "exited" and "error" then clear the slot.
Relayed(l) ==
    /\ link[l].at = "relay"
    /\ TabSend(link[l].target) # {"raised"}
    /\ seen' = IF tab[link[l].target].peer = "up"
               THEN [seen EXCEPT !.shown[link[l].target] = @ \union {link[l].session}]
               ELSE seen
    /\ link' = [link EXCEPT ![l].at = "receive", ![l].target = None, ![l].session = None,
                    ![l].slot = IF link[l].type = "exited" THEN Clear(l, link[l].kind) ELSE @]
    /\ UNCHANGED <<registry, tab, toAgent, toServer, agent, budget>>

\* The bug removes whatever link is registered, a successor included.
UnregisterAny(l, conn) ==
    /\ registry' = None
    /\ link' = [link EXCEPT ![l].at = "done", ![l].target = None, ![l].session = None,
                    ![l].conn = IF conn = "received" THEN conn ELSE "closed"]

\* The finally block: tell and close both tabs, terminal first, then unregister.
Unregister(l, conn) ==
    /\ registry' = IF registry = l THEN None ELSE registry
    /\ link' = [link EXCEPT ![l].at = "done", ![l].target = None, ![l].session = None,
                    ![l].conn = IF conn = "received" THEN conn ELSE "closed"]

TellTab(l, k, conn) ==
    /\ link' = [link EXCEPT ![l].at = "tell", ![l].kind = k, ![l].session = None,
                    ![l].target = link[l].slot[k], ![l].conn = conn]
    /\ UNCHANGED registry

StartFinally(l, conn) ==
    IF link[l].slot["terminal"] # None THEN TellTab(l, "terminal", conn)
    ELSE IF link[l].slot["file"] # None THEN TellTab(l, "file", conn)
    ELSE Unregister(l, conn)

\* The bug goes back to the first kind, whose slot is still set.
RepeatFinally(l) == StartFinally(l, link[l].conn)

NextFinally(l) ==
    IF link[l].kind = "terminal" /\ link[l].slot["file"] # None
    THEN TellTab(l, "file", link[l].conn)
    ELSE Unregister(l, link[l].conn)

LinkDisconnected(l) ==
    /\ Serving(l)
    /\ link[l].conn = "gone" /\ toServer[l] = <<>>
    /\ StartFinally(l, "received")
    /\ UNCHANGED <<tab, toAgent, toServer, agent, seen, budget>>

\* Sending to the tab raised: nothing catches it but the handler's finally.
RelayRaised(l) ==
    /\ link[l].at = "relay"
    /\ "raised" \in TabSend(link[l].target)
    /\ StartFinally(l, link[l].conn)
    /\ UNCHANGED <<tab, toAgent, toServer, agent, seen, budget>>

FinallyTold(l) ==
    /\ link[l].at = "tell"
    /\ TabSend(link[l].target) # {"raised"}
    /\ LET v == link[l].slot[link[l].kind] IN
        IF v # None /\ tab[v].app = "up"
        THEN /\ tab' = [tab EXCEPT ![v].app = "closed"]
             /\ link' = [link EXCEPT ![l].at = "close", ![l].target = v]
             /\ UNCHANGED registry
        ELSE NextFinally(l) /\ UNCHANGED tab
    /\ UNCHANGED <<toAgent, toServer, agent, seen, budget>>

FinallyTellRaised(l) ==
    /\ link[l].at = "tell"
    /\ "raised" \in TabSend(link[l].target)
    /\ NextFinally(l)
    /\ UNCHANGED <<tab, toAgent, toServer, agent, seen, budget>>

FinallyClosed(l) ==
    /\ link[l].at = "close"
    /\ HandshakeOver(link[l].target)
    /\ NextFinally(l)
    /\ UNCHANGED <<tab, toAgent, toServer, agent, seen, budget>>
-----------------------------------------------------------------------------
\* The agent: runOnce, sessionManager and (its session only) fileManager

\* The bug reports without the session id.
ReportUnstamped(type, b) == [type |-> type, session |-> None]

ReportOf(type, b) == [type |-> type, session |-> b]

\* runOnce has dialled, agent_terminal_ws has registered the new link.
\* Run dials again and again, whenever there is no channel.
Dials == agent.link = None

\* The newest channel replaces whatever was registered.
Register(l) == registry' = l

AgentConnect(l) ==
    /\ Dials
    /\ link[l].conn = "unused" /\ \A m \in 1..(l - 1) : link[m].conn # "unused"
    /\ agent' = [agent EXCEPT !.link = l]
    /\ link' = [link EXCEPT ![l].conn = "up"]
    /\ Register(l)
    /\ UNCHANGED <<tab, toAgent, toServer, seen, budget>>

\* The bug starts the next shell without stopCurrent.
ShellsKept == agent.shell

\* stopCurrent closes the pty; the shell behind it ends.
ShellsAfterStop ==
    [b \in Tabs |-> IF b = agent.cur["terminal"] /\ agent.shell[b] = "running"
                    THEN "ended" ELSE agent.shell[b]]

\* runOnce returns: the deferred stopCurrent runs, a pump that still reports
\* writes to the dead connection.  The frames in flight to the server may be
\* lost, those to the agent are.
AgentLosesChannel(l) ==
    /\ agent.link = l
    /\ \/ link[l].conn = "up" /\ budget.drops > 0
          /\ budget' = [budget EXCEPT !.drops = @ - 1]
          /\ link' = [link EXCEPT ![l].conn = "gone"]
       \/ link[l].conn = "closed" /\ UNCHANGED <<budget, link>>
    /\ agent' = [agent EXCEPT !.link = None, !.cur = [k \in Kinds |-> None],
                    !.shell = [b \in Tabs |->
                        IF ShellsAfterStop[b] = "ended" THEN "reported" ELSE ShellsAfterStop[b]]]
    /\ toAgent' = [toAgent EXCEPT ![l] = <<>>]
    /\ \E kept \in {toServer[l], <<>>} : toServer' = [toServer EXCEPT ![l] = kept]
    /\ UNCHANGED <<registry, tab, seen>>

Incoming(type, k) ==
    /\ agent.link # None
    /\ toAgent[agent.link] # <<>>
    /\ toAgent[agent.link][1].type = type
    /\ Kind(toAgent[agent.link][1].by) = k

Taken == toAgent' = [toAgent EXCEPT ![agent.link] = Tail(@)]
Reply(type, b) == toServer' = [toServer EXCEPT ![agent.link] = Append(@, ReportOf(type, b))]

AgentStartsShell ==
    /\ Incoming("start", "terminal")
    /\ LET b == toAgent[agent.link][1].session IN
        /\ agent' = [agent EXCEPT !.cur["terminal"] = b,
                                  !.shell = [ShellsAfterStop EXCEPT ![b] = "running"]]
        /\ Reply("started", b)
    /\ Taken
    /\ UNCHANGED <<registry, link, tab, seen, budget>>

\* startShell failed: the "error" frame ends the session like "exited" does.
AgentShellFails ==
    /\ Incoming("start", "terminal")
    /\ agent' = [agent EXCEPT !.cur["terminal"] = None, !.shell = ShellsAfterStop]
    /\ Reply("exited", toAgent[agent.link][1].session)
    /\ Taken
    /\ UNCHANGED <<registry, link, tab, seen, budget>>

AgentStartsFiles ==
    /\ Incoming("start", "file")
    /\ agent' = [agent EXCEPT !.cur["file"] = toAgent[agent.link][1].session]
    /\ Reply("started", toAgent[agent.link][1].session)
    /\ Taken
    /\ UNCHANGED <<registry, link, tab, seen, budget>>

\* Input counts when its session is the current one; a file request is answered.
AgentInput ==
    /\ \E k \in Kinds : Incoming("input", k)
    /\ LET m == toAgent[agent.link][1]
           mine == agent.cur[Kind(m.by)] = m.session IN
        /\ seen' = IF mine THEN [seen EXCEPT !.typed[m.by] = @ \union {m.session}] ELSE seen
        /\ IF mine /\ Kind(m.by) = "file" THEN Reply("output", m.session) ELSE UNCHANGED toServer
    /\ Taken
    /\ UNCHANGED <<registry, link, tab, agent, budget>>

AgentStop ==
    /\ \E k \in Kinds : Incoming("stop", k)
    /\ LET m == toAgent[agent.link][1] IN
        agent' = IF agent.cur[Kind(m.by)] # m.session THEN agent
                 ELSE [agent EXCEPT !.cur[Kind(m.by)] = None,
                            !.shell = IF Kind(m.by) = "terminal" THEN ShellsAfterStop ELSE @]
    /\ Taken
    /\ UNCHANGED <<registry, link, tab, toServer, seen, budget>>

\* pumpOutput of a shell, or a download streaming chunks of the current session.
AgentOutput(b) ==
    /\ agent.link # None /\ budget.output > 0
    /\ agent.shell[b] = "running" \/ (b \in FileTabs /\ agent.cur["file"] = b)
    /\ Reply("output", b)
    /\ budget' = [budget EXCEPT !.output = @ - 1]
    /\ UNCHANGED <<registry, link, tab, toAgent, agent, seen>>

ShellExits(b) ==
    /\ agent.shell[b] = "running"
    /\ agent' = [agent EXCEPT !.shell[b] = "ended"]
    /\ UNCHANGED <<registry, link, tab, toAgent, toServer, seen, budget>>

\* The read failed: forget the session if it is still this one, report the exit.
PumpEnds(b) ==
    /\ agent.link # None
    /\ agent.shell[b] = "ended"
    /\ agent' = [agent EXCEPT !.shell[b] = "reported",
                    !.cur["terminal"] = IF @ = b THEN None ELSE @]
    /\ Reply("exited", b)
    /\ UNCHANGED <<registry, link, tab, toAgent, seen, budget>>
-----------------------------------------------------------------------------
TabStep(b) ==
    \/ OpenRefused(b) \/ OpenFree(b) \/ OpenPreempting(b)
    \/ TellRaised(b) \/ Told(b) \/ ToldNothingToClose(b) \/ VictimClosed(b)
    \/ Greet(b) \/ GreetRaised(b)
    \/ TabGone(b) \/ ReceiveDisconnect(b) \/ BrowserInput(b)

LinkStep(l) ==
    \/ StopOldSent(l) \/ StartSent(l) \/ InputSent(l) \/ StopSent(l) \/ SendRaised(l)
    \/ LinkReceive(l) \/ Relayed(l) \/ LinkDisconnected(l) \/ RelayRaised(l)
    \/ FinallyTold(l) \/ FinallyTellRaised(l) \/ FinallyClosed(l)
    \/ AgentConnect(l) \/ AgentLosesChannel(l)

AgentStep ==
    \/ AgentStartsShell \/ AgentShellFails \/ AgentStartsFiles
    \/ AgentInput \/ AgentStop
    \/ \E b \in Tabs : AgentOutput(b) \/ ShellExits(b) \/ PumpEnds(b)

Next ==
    \/ \E b \in Tabs : TabStep(b)
    \/ \E l \in Links : LinkStep(l)
    \/ AgentStep

Spec == Init /\ [][Next]_vars
-----------------------------------------------------------------------------
\* Properties

\* A tab is only ever sent frames of the session it opened, although the frame
\* waits for the tab's lock while sessions are started, stopped and replaced.
OutputStaysInSession == \A b \in Tabs : seen.shown[b] \subseteq {b}

\* The agent runs one shell at a time: the one of its current session, and only
\* while its control channel is up (terminal.go, sessionManager).
OneShell ==
    \A b \in Tabs : agent.shell[b] = "running" =>
        agent.link # None /\ agent.cur["terminal"] = b

\* The registry holds the newest control channel exactly as long as its handler
\* runs: the late cleanup of an older channel does not remove its successor.
NewestLinkRegistered ==
    \A l \in Links :
        registry = l <=> /\ link[l].conn # "unused" /\ link[l].at # "done"
                         /\ \A m \in Links : m > l => link[m].conn = "unused"

\* A stuck tab does not block its successor for ever: an opener gets through or fails.
OpenerFinishes ==
    \A b \in Tabs : tab[b].at \in {"tell", "close", "stopOld", "start", "greet"}
                    ~> tab[b].at \in {"receive", "relay", "stopping", "done"}

\* The handler of a dead control channel does not wait for ever for its tabs.
ChannelHandlerFinishes ==
    \A l \in Links : link[l].conn \in {"gone", "received"} ~> link[l].at = "done"

\* No handler waits for ever, whatever the ones it waits for are doing.
HandlersFinish == OpenerFinishes /\ ChannelHandlerFinishes

\* What a tab types goes to the session it opened and to no other.
InputStaysInSession == \A b \in Tabs : seen.typed[b] \subseteq {b}

\* How far the terminal session of a tab has come.
SessionLife(b) ==
    IF tab[b].at = "idle" THEN "none"
    ELSE IF agent.shell[b] = "none" THEN "opened"
    ELSE IF agent.shell[b] = "running" THEN "running" ELSE "over"

Lives == [b \in TerminalTabs |-> SessionLife(b)]

Terminal == INSTANCE ShellContract WITH
    Sessions <- TerminalTabs, channel <- agent.link # None,
    life <- Lives

\* Under every order of preemptions, late stops, dying pumps and lost channels,
\* the agent gives a session one shell at most and never revives it.
KeepsShellContract == Terminal!Spec

Fairness ==
    /\ \A b \in Tabs :
        /\ WF_vars(TellRaised(b) \/ Told(b) \/ ToldNothingToClose(b))
        /\ WF_vars(VictimClosed(b))
        /\ WF_vars(Greet(b) \/ GreetRaised(b))
        /\ WF_vars(ReceiveDisconnect(b))
        /\ WF_vars(TabGone(b) /\ tab[b].app = "closed")
    /\ \A l \in Links :
        /\ WF_vars(StopOldSent(l) \/ StartSent(l) \/ InputSent(l) \/ StopSent(l) \/ SendRaised(l))
        /\ WF_vars(LinkReceive(l))
        /\ WF_vars(Relayed(l) \/ RelayRaised(l))
        /\ WF_vars(LinkDisconnected(l))
        /\ WF_vars(FinallyTold(l) \/ FinallyTellRaised(l))
        /\ WF_vars(FinallyClosed(l))

FairSpec == Spec /\ Fairness
=============================================================================
