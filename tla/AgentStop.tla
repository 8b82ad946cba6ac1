------------------------------ MODULE AgentStop -------------------------------
(***************************************************************************)
(* The end of an agent under systemd (agent/internal/svcrun/svcrun_unix.go, *)
(* the unlock grant and the control files of internal/config/config.go,      *)
(* pollStopRequests in internal/agentloop/loop.go, the stops and restarts of *)
(* internal/svcinstall/svcinstall_linux.go, cmd/pktnode-tray).  A SIGTERM     *)
(* ends the agent only if it finds a grant of the last two minutes.  A grant *)
(* is a file: writing it is an open that empties it and a write, consuming    *)
(* it a read and a removal.  systemd is external: it sends one SIGTERM for a  *)
(* stop, waits for ever, and starts an agent that ended by itself again.      *)
(***************************************************************************)
EXTENDS Naturals

CONSTANTS
  Shells,     \* administrators' command lines
  MaxGrants,  \* bound: grants that are written
  MaxLosses   \* bound: kills of the agent

ASSUME StopAssumption == MaxGrants \in Nat /\ MaxLosses \in Nat

VARIABLES
  unit,      \* what systemd does with the service
  agent,     \* the process: its loop, its signal handler, its goroutine for the tray
  shell,     \* per command line: the command, and where it is
  grant,     \* unlock.grant: is it there, whose content; 0: empty
  linked,    \* the writers that have the file open that is still in the directory
  control,   \* stop-request.json, stop-response.json
  tray,
  stopped,   \* the flag in status.json
  granted,   \* how many grants were written, and how many of these are too old
  honored,   \* history: how often a grant ended an agent
  losses

stopVars == <<unit, agent, shell, grant, linked, control, tray, stopped, granted, honored, losses>>

Loop == "loop"   \* the agent's own writers: RestartForUpdate ...
Poll == "poll"   \* ... and pollStopRequests
Writers  == Shells \cup {Loop, Poll}
Commands == {"unlock", "install", "uninstall"}
Steps    == {"idle", "open", "write", "act"}

Process(at) == [at |-> at, signal |-> FALSE, judges |-> FALSE, found |-> 0,
                loop |-> "idle", poll |-> "idle", saved |-> FALSE]
NewAgent == Process("up")
NoAgent  == Process("down")
NoGrant  == [there |-> FALSE, id |-> 0]
NoShell  == [at |-> "idle", runs |-> "unlock"]

StopTypeOK ==
  /\ unit \in {"active", "stopping", "restarting", "waiting", "inactive"}
  /\ agent \in [at : {"up", "closing", "marked", "down"}, signal : BOOLEAN, judges : BOOLEAN,
                found : 0..MaxGrants, loop : Steps, poll : Steps, saved : BOOLEAN]
  /\ shell \in [Shells -> [at : Steps, runs : Commands]]
  /\ grant \in [there : BOOLEAN, id : 0..MaxGrants]
  /\ linked \subseteq Writers
  /\ control \in [request : {"none", "right", "wrong"}, response : {"none", "yes", "no"}]
  /\ tray \in {"shown", "asking", "gone"}
  /\ stopped \in BOOLEAN
  /\ granted \in [all : 0..MaxGrants, old : 0..MaxGrants]
  /\ honored \in [1..MaxGrants -> 0..2]
  /\ losses \in 0..MaxLosses
  /\ agent.at = "down" => agent = NoAgent
  /\ unit \in {"waiting", "inactive"} <=> agent.at = "down"

StopInit ==
  /\ unit = "active" /\ agent = NewAgent
  /\ shell = [s \in Shells |-> NoShell]
  /\ grant = NoGrant /\ linked = {}
  /\ control = [request |-> "none", response |-> "none"]
  /\ tray = "shown" /\ stopped = FALSE
  /\ granted = [all |-> 0, old |-> 0]
  /\ honored = [g \in 1..MaxGrants |-> 0]
  /\ losses = 0
-----------------------------------------------------------------------------
(* systemd *)

\* sigCh holds one signal; another one before it is taken is dropped.
Signalled(a) == IF a.at = "down" THEN a ELSE [a EXCEPT !.signal = TRUE]

\* systemctl stop.  A unit that is stopping already gets no second SIGTERM.
AskStop(a) ==
  /\ unit' = IF unit \in {"active", "restarting"} THEN "stopping"
             ELSE IF unit = "waiting" THEN "inactive" ELSE unit
  /\ agent' = IF unit = "active" THEN Signalled(a) ELSE a

\* systemctl restart, also of a unit that is not running.
AskRestart(a) ==
  /\ unit' = IF unit \in {"active", "stopping"} THEN "restarting"
             ELSE IF unit = "inactive" THEN "waiting" ELSE unit
  /\ agent' = IF unit = "active" THEN Signalled(a) ELSE a

\* Restart=always, unless somebody had asked for a stop.  What the process had open is closed.
Ends ==
  /\ unit' = IF unit = "stopping" THEN "inactive" ELSE "waiting"
  /\ agent' = NoAgent
  /\ linked' = linked \ {Loop, Poll}

Start ==
  /\ unit = "waiting"
  /\ unit' = "active" /\ agent' = NewAgent
  /\ UNCHANGED <<shell, grant, linked, control, tray, stopped, granted, honored, losses>>

\* systemctl stop, start and restart by an administrator, with a grant or without.
OperateUnit ==
  /\ \/ AskStop(agent) \/ AskRestart(agent)
     \/ unit = "inactive" /\ unit' = "waiting" /\ UNCHANGED agent
  /\ UNCHANGED <<shell, grant, linked, control, tray, stopped, granted, honored, losses>>

\* kill -9, or the agent crashes.
Killed ==
  /\ agent.at # "down" /\ losses < MaxLosses
  /\ Ends
  /\ losses' = losses + 1
  /\ UNCHANGED <<shell, grant, control, tray, stopped, granted, honored>>
-----------------------------------------------------------------------------
(* The grant *)

\* WriteUnlockGrant opens the file, which empties or makes it ...
OpenGrant(w) ==
  /\ grant' = [there |-> TRUE, id |-> 0]
  /\ linked' = linked \cup {w}
  /\ UNCHANGED granted

\* ... and writes it; if the file was removed in between, into nothing.
WriteGrant(w) ==
  /\ granted.all < MaxGrants
  /\ granted' = [granted EXCEPT !.all = @ + 1]
  /\ grant' = IF w \in linked THEN [there |-> TRUE, id |-> granted.all + 1] ELSE grant
  /\ linked' = linked \ {w}

TwoMinutes ==
  /\ \E n \in (granted.old + 1)..granted.all : granted' = [granted EXCEPT !.old = n]
  /\ UNCHANGED <<unit, agent, shell, grant, linked, control, tray, stopped, honored, losses>>

\* The signal handler takes a signal and reads the grant ...
ReadGrant ==
  /\ agent.at = "up" /\ agent.signal /\ ~agent.judges
  /\ agent' = [agent EXCEPT !.signal = FALSE, !.judges = TRUE, !.found = grant.id]
  /\ UNCHANGED <<unit, shell, grant, linked, control, tray, stopped, granted, honored, losses>>

Judged(a, g) == [a EXCEPT !.judges = FALSE, !.found = 0,
                          !.at = IF g > granted.old THEN "closing" ELSE @]

\* A slip in ConsumeUnlockGrant: a grant that counts is left where it is.
JudgeOnly ==
  /\ agent.judges
  /\ agent' = Judged(agent, agent.found)
  /\ honored' = IF agent.found > granted.old THEN [honored EXCEPT ![agent.found] = @ + 1] ELSE honored
  /\ UNCHANGED <<unit, shell, grant, linked, control, tray, stopped, granted, losses>>

\* ... removes the file, whatever was written to it since, and closes stopCh if what it
\* read is a time of the last two minutes.
ConsumeGrant ==
  /\ agent.judges
  /\ grant' = NoGrant /\ linked' = {}
  /\ agent' = Judged(agent, agent.found)
  /\ honored' = IF agent.found > granted.old THEN [honored EXCEPT ![agent.found] = @ + 1] ELSE honored
  /\ UNCHANGED <<unit, shell, control, tray, stopped, granted, losses>>
-----------------------------------------------------------------------------
(* The agent's loop *)

\* checkinOnce saves the status, which clears the flag.
Checkin ==
  /\ agent.at \in {"up", "closing"} /\ agent.loop = "idle"
  /\ agent' = [agent EXCEPT !.saved = TRUE]
  /\ stopped' = FALSE
  /\ UNCHANGED <<unit, shell, grant, linked, control, tray, granted, honored, losses>>

\* An update_agent command: a grant, and a SIGTERM to itself.
BeginUpdate ==
  /\ agent.at \in {"up", "closing"} /\ agent.loop = "idle" /\ granted.all < MaxGrants
  /\ agent' = [agent EXCEPT !.loop = "open"]
  /\ UNCHANGED <<unit, shell, grant, linked, control, tray, stopped, granted, honored, losses>>

RestartForUpdate ==
  /\ \/ agent.loop = "open" /\ OpenGrant(Loop) /\ agent' = [agent EXCEPT !.loop = "write"]
     \/ agent.loop = "write" /\ WriteGrant(Loop) /\ agent' = [agent EXCEPT !.loop = "act"]
     \/ /\ agent.loop = "act" /\ agent' = Signalled([agent EXCEPT !.loop = "idle"])
        /\ UNCHANGED <<grant, linked, granted>>
  /\ UNCHANGED <<unit, shell, control, tray, stopped, honored, losses>>

\* The loop finds stopCh closed, says so in the status, and the process ends.
MarkStopped ==
  /\ agent.at = "closing" /\ agent.loop = "idle"
  /\ agent' = [agent EXCEPT !.at = "marked"]
  /\ stopped' = TRUE
  /\ UNCHANGED <<unit, shell, grant, linked, control, tray, granted, honored, losses>>

Exit ==
  /\ agent.at = "marked"
  /\ Ends
  /\ UNCHANGED <<shell, grant, control, tray, stopped, granted, honored, losses>>

\* WriteStopRequest; ReadAndClearStopRequest and, where the code is wrong or once it was
\* found right, WriteStopResponse; ReadAndClearStopResponse.
Asked(code)    == [control EXCEPT !.request = code]
Responded(yes) == [request |-> "none", response |-> IF yes THEN "yes" ELSE "no"]
Collected      == [control EXCEPT !.response = "none"]

\* pollStopRequests takes a request; a wrong code is answered and that is all.
TakeRequest ==
  /\ agent.at # "down" /\ agent.poll = "idle" /\ control.request # "none"
  /\ LET right == control.request = "right"
     IN /\ control' = Responded(right)
        /\ agent' = [agent EXCEPT !.poll = IF right THEN "open" ELSE "idle"]
  /\ UNCHANGED <<unit, shell, grant, linked, tray, stopped, granted, honored, losses>>

\* A right one is answered first; then come the grant and systemctl stop.
StopForTray ==
  /\ \/ agent.poll = "open" /\ OpenGrant(Poll)
        /\ agent' = [agent EXCEPT !.poll = "write"] /\ UNCHANGED unit
     \/ agent.poll = "write" /\ WriteGrant(Poll)
        /\ agent' = [agent EXCEPT !.poll = "act"] /\ UNCHANGED unit
     \/ /\ agent.poll = "act" /\ AskStop([agent EXCEPT !.poll = "idle"])
        /\ UNCHANGED <<grant, linked, granted>>
  /\ UNCHANGED <<shell, control, tray, stopped, honored, losses>>
-----------------------------------------------------------------------------
(* The tray and the command line *)

\* The request, the answer (also one that an earlier request gave up on), the end of the
\* five seconds; and the tray leaves when the status says so.  A login brings it back.
AskByTray(code) ==
  /\ tray = "shown"
  /\ control' = Asked(code)
  /\ tray' = "asking"
  /\ UNCHANGED <<unit, agent, shell, grant, linked, stopped, granted, honored, losses>>

TrayEnds ==
  /\ tray = "asking" /\ tray' = "shown"
  /\ control' \in {control, Collected}
  /\ UNCHANGED <<unit, agent, shell, grant, linked, stopped, granted, honored, losses>>

RefreshTray ==
  /\ tray' = IF tray = "gone" THEN "shown" ELSE IF stopped THEN "gone" ELSE tray
  /\ UNCHANGED <<unit, agent, shell, grant, linked, control, stopped, granted, honored, losses>>

\* unlock, install and uninstall write a grant once the code, or the enrolment, is accepted.
RunCommand(s, command) ==
  /\ shell[s].at = "idle" /\ granted.all < MaxGrants
  /\ shell' = [shell EXCEPT ![s] = [at |-> "open", runs |-> command]]
  /\ UNCHANGED <<unit, agent, grant, linked, control, tray, stopped, granted, honored, losses>>

\* install restarts the service, uninstall stops it, after unlock that is left to others.
GoOn(s) ==
  /\ \/ shell[s].at = "open" /\ OpenGrant(s)
        /\ shell' = [shell EXCEPT ![s].at = "write"] /\ UNCHANGED <<unit, agent>>
     \/ shell[s].at = "write" /\ WriteGrant(s)
        /\ shell' = [shell EXCEPT ![s].at = "act"] /\ UNCHANGED <<unit, agent>>
     \/ /\ shell[s].at = "act" /\ shell' = [shell EXCEPT ![s] = NoShell]
        /\ CASE shell[s].runs = "install"   -> AskRestart(agent)
             [] shell[s].runs = "uninstall" -> AskStop(agent)
             [] OTHER                       -> UNCHANGED <<unit, agent>>
        /\ UNCHANGED <<grant, linked, granted>>
  /\ UNCHANGED <<control, tray, stopped, honored, losses>>

StopNext ==
  \/ Start \/ OperateUnit \/ Killed \/ TwoMinutes \/ ReadGrant \/ ConsumeGrant
  \/ Checkin \/ BeginUpdate \/ RestartForUpdate \/ MarkStopped \/ Exit
  \/ TakeRequest \/ StopForTray \/ TrayEnds \/ RefreshTray
  \/ \E code \in {"right", "wrong"} : AskByTray(code)
  \/ \E s \in Shells : GoOn(s) \/ \E c \in Commands : RunCommand(s, c)

StopSpec == StopInit /\ [][StopNext]_stopVars
-----------------------------------------------------------------------------
\* However many signals, commands, requests and restarts overlap, every agent that stops
\* by itself has used up a grant of its own, also when the grant is written anew between
\* its read and its removal.  The status says "stopped" only until the next agent's first
\* check-in, and only after such a stop.
OneStopPerGrant ==
  /\ \A g \in 1..MaxGrants : honored[g] <= 1
  /\ stopped => ~(agent.at = "up" /\ agent.saved) /\ \E g \in 1..MaxGrants : honored[g] = 1
=============================================================================
