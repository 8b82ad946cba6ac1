--------------------------- MODULE CommandDelivery ---------------------------
(***************************************************************************)
(* How a remote action travels: an analyst queues a row in the server's    *)
(* `commands` table (app/api/nodes.py), the agent's next check-in picks up  *)
(* every pending row and marks it sent (app/api/agent.py), the agent's loop *)
(* executes the batch and reports each result over HTTP                     *)
(* (agent/internal/agentloop/loop.go, apiclient/client.go).                 *)
(*                                                                         *)
(* One node is modelled.  A check-in is two database transactions: the      *)
(* token lookup (dependencies.py, committed on its own) and the handler.    *)
(* An HTTP exchange may fail at any point: the request never arrives, or    *)
(* the server commits and the answer is lost.  The agent may die at any     *)
(* point and its service manager starts it again.                           *)
(***************************************************************************)
EXTENDS Naturals

CONSTANTS
  Cmds,       \* rows the commands table may ever hold
  Reqs,       \* slots for HTTP exchanges the server is working on at once
  Live,       \* docker_* / vm_* commands: nudged when queued, refresh when run
  Updates,    \* update_agent commands: a completed one restarts the agent
  MaxFaults   \* bound on lost exchanges, agent deaths and re-enrolments

ASSUME CmdAssumption == /\ Live \subseteq Cmds
                        /\ Updates \subseteq Cmds
                        /\ Live \cap Updates = {}
                        /\ MaxFaults \in Nat

VARIABLES
  handler,   \* the queue_command request for a row: before / inside / after
  status,    \* commands.status
  active,    \* nodes.is_active
  token,     \* the running agent's bearer token, as agent_tokens sees it
  req,       \* the HTTP exchanges
  phase,     \* what the agent's check-in goroutine is doing
  todo,      \* commands of the current batch not yet executed
  changed,   \* checkinOnce's inventoryChanged
  stopping,  \* stopCh is closed: the loop leaves at its next select
  pushed,    \* a checkin_now message is on the control channel
  nudge,     \* checkinNowCh holds its one element
  ran,       \* how often the agent has executed a command (history)
  dropped,   \* commands whose hand-out or result was lost (history)
  leftover,  \* commands that a refresh check-in's answer carried (history)
  faults     \* faults so far

serverVars == <<handler, status, active>>
agentVars  == <<phase, todo, changed, stopping>>
pushVars   == <<pushed, nudge>>
history    == <<ran, dropped, leftover>>
vars == <<serverVars, token, req, agentVars, pushVars, history, faults>>

Recorded == {"completed", "failed"}
Checkins == {"checkin", "refresh"}

\* One HTTP exchange.  `ok` is the outcome: of the executed command in a
\* report, of the exchange in an answered check-in.  `waited` holds while the
\* agent's http.Client still waits for the answer.
Exchange == [stage: {"free", "sent", "authed", "answered"},
             op: Checkins \cup {"report"}, batch: SUBSET Cmds,
             ok: BOOLEAN, waited: BOOLEAN]

FreeSlot == [stage |-> "free", op |-> "checkin", batch |-> {},
             ok |-> FALSE, waited |-> FALSE]

TypeOK ==
  /\ handler \in [Cmds -> {"none", "checked", "done"}]
  /\ status \in [Cmds -> {"absent", "pending", "sent"} \cup Recorded]
  /\ active \in BOOLEAN
  /\ token \in {"valid", "revoked", "replaced"}
  /\ req \in [Reqs -> Exchange]
  /\ phase \in {"down", "idle", "checkin", "exec", "report", "refresh"}
  /\ todo \subseteq Cmds
  /\ changed \in BOOLEAN /\ stopping \in BOOLEAN
  /\ pushed \in BOOLEAN /\ nudge \in BOOLEAN
  /\ ran \in [Cmds -> Nat]
  /\ dropped \subseteq Cmds /\ leftover \subseteq Cmds
  /\ faults \in Nat

Init ==
  /\ handler = [c \in Cmds |-> "none"]
  /\ status = [c \in Cmds |-> "absent"]
  /\ active = TRUE
  /\ token = "valid"
  /\ req = [r \in Reqs |-> FreeSlot]
  /\ phase = "idle" /\ todo = {} /\ changed = FALSE /\ stopping = FALSE
  /\ pushed = FALSE /\ nudge = FALSE
  /\ ran = [c \in Cmds |-> 0]
  /\ dropped = {} /\ leftover = {}
  /\ faults = 0

-----------------------------------------------------------------------------
(* The server: queueing *)

\* queue_command / push_agent_update: the is_active SELECT runs on its own,
\* outside the transaction of the INSERT.
CheckNodeActive(c) ==
  /\ handler[c] = "none" /\ active
  /\ handler' = [handler EXCEPT ![c] = "checked"]
  /\ UNCHANGED <<status, active, token, req, agentVars, pushVars, history, faults>>

\* A row of queue_command, or of push_agent_update for one of its targets.
Queued(c) == [status EXCEPT ![c] = "pending"]

\* INSERT, commit, and for container/VM actions the best-effort nudge on the
\* agent's control channel, if it has one.
InsertCommand(c) ==
  /\ handler[c] = "checked"
  /\ handler' = [handler EXCEPT ![c] = "done"]
  /\ status' = Queued(c)
  /\ pushed' = (pushed \/ (c \in Live /\ phase # "down"))
  /\ UNCHANGED <<active, token, req, agentVars, nudge, history, faults>>

\* POST /{node_id}/checkin-now
CheckinNow ==
  /\ active /\ phase # "down" /\ ~pushed
  /\ pushed' = TRUE
  /\ UNCHANGED <<serverVars, token, req, agentVars, nudge, history, faults>>

(* The server: node lifecycle, as far as delivery depends on it *)

Decommission ==
  /\ active
  /\ active' = FALSE
  /\ token' = "revoked"
  /\ UNCHANGED <<handler, status, req, agentVars, pushVars, history, faults>>

\* The installer enrols again: the node is (re)activated, every older token is
\* revoked, the new one is on the agent's disk until the process restarts.
Reenroll ==
  /\ faults < MaxFaults /\ faults' = faults + 1
  /\ active' = TRUE
  /\ token' = "replaced"
  /\ UNCHANGED <<handler, status, req, agentVars, pushVars, history>>

(* The server: one HTTP exchange *)

\* get_current_node: a committed token lookup before the handler's own
\* transaction.  A rejected check-in is answered 401, a rejected report is
\* only logged by the agent, so the result is lost.
Authenticate(r) ==
  /\ req[r].stage = "sent"
  /\ IF token = "valid"
     THEN /\ req' = [req EXCEPT ![r].stage = "authed"]
          /\ UNCHANGED dropped
     ELSE /\ req' = [req EXCEPT ![r] =
                       IF req[r].waited
                       THEN [@ EXCEPT !.stage = "answered", !.ok = FALSE]
                       ELSE FreeSlot]
          /\ dropped' = IF req[r].op = "report" THEN dropped \cup req[r].batch
                                                ELSE dropped
  /\ UNCHANGED <<serverVars, token, agentVars, pushVars, ran, leftover, faults>>

\* Mutants of Pending: "retry" rows already handed out; LIMIT 1.
PendingOrSent == {c \in Cmds : status[c] \in {"pending", "sent"}}
FirstPending == LET rows == {c \in Cmds : status[c] = "pending"}
                IN IF rows = {} THEN {} ELSE {CHOOSE c \in rows : TRUE}

\* The SELECT of a check-in and the UPDATE that follows it.
Pending == {c \in Cmds : status[c] = "pending"}

\* A mutant of MarkSent: it already records success.
MarkCompleted == [c \in Cmds |-> IF status[c] = "pending" THEN "completed" ELSE status[c]]

MarkSent == [c \in Cmds |-> IF status[c] = "pending" THEN "sent" ELSE status[c]]

\* The check-in transaction: hand back every pending row and mark it sent,
\* under the write lock the UPDATE of the node row already took.
CommitCheckin(r) ==
  /\ req[r].stage = "authed" /\ req[r].op \in Checkins
  /\ status' = MarkSent
  /\ req' = [req EXCEPT ![r] =
               IF req[r].waited
               THEN [@ EXCEPT !.stage = "answered", !.ok = TRUE, !.batch = Pending]
               ELSE FreeSlot]
  /\ dropped' = IF req[r].waited THEN dropped ELSE dropped \cup Pending
  /\ leftover' = IF req[r].op = "refresh" THEN leftover \cup Pending ELSE leftover
  /\ UNCHANGED <<handler, active, token, agentVars, pushVars, ran, faults>>

\* Mutants of ResultStatus: the client's word is stored as it came; only a
\* pending row is updated.
RawStatus(r, c) == IF req[r].ok THEN "completed" ELSE "error"
GuardedStatus(r, c) == IF status[c] # "pending" THEN status[c]
                       ELSE IF req[r].ok THEN "completed" ELSE "failed"

\* Anything but `failed` is stored as `completed`.
ResultStatus(r, c) == IF req[r].ok THEN "completed" ELSE "failed"

\* report_command_result: an unconditional UPDATE of the row.
CommitReport(r) ==
  /\ req[r].stage = "authed" /\ req[r].op = "report"
  /\ status' = [c \in Cmds |-> IF c \in req[r].batch THEN ResultStatus(r, c)
                                                     ELSE status[c]]
  /\ req' = [req EXCEPT ![r] = IF req[r].waited
                               THEN [@ EXCEPT !.stage = "answered"]
                               ELSE FreeSlot]
  /\ UNCHANGED <<handler, active, token, agentVars, pushVars, history, faults>>

-----------------------------------------------------------------------------
(* The agent's check-in goroutine *)

Send(r, kind, cmds, verdict) ==
  /\ req[r].stage = "free"
  /\ req' = [req EXCEPT ![r] = [stage |-> "sent", op |-> kind, batch |-> cmds,
                                ok |-> verdict, waited |-> TRUE]]

\* Run's select: the interval elapsed, or checkinNowCh was readable.  A closed
\* stopCh beats a fresh timer, not a buffered nudge.
StartCheckin(r) ==
  /\ phase = "idle"
  /\ changed' = FALSE
  /\ phase' = "checkin"
  /\ Send(r, "checkin", {}, FALSE)
  /\ UNCHANGED <<serverVars, token, todo, stopping, pushed, history, faults>>

TimerCheckin(r)  == ~stopping /\ StartCheckin(r) /\ UNCHANGED nudge
NudgedCheckin(r) == nudge /\ nudge' = FALSE /\ StartCheckin(r)

\* The check-in answer: a batch to execute, or an error that ends the cycle.
TakeBatch(r) ==
  /\ phase = "checkin" /\ req[r].waited /\ req[r].stage = "answered"
  /\ req' = [req EXCEPT ![r] = FreeSlot]
  /\ todo' = req[r].batch
  /\ phase' = IF req[r].ok THEN "exec" ELSE "idle"
  /\ UNCHANGED <<serverVars, token, changed, stopping, pushVars, history, faults>>

\* execUpdateAgent: a release that was verified and put in place restarts the agent.
UpdateRestarts(c, verdict) == c \in Updates /\ verdict

\* commands.Execute, then the result is posted once.
Execute(c, r) ==
  /\ phase = "exec" /\ c \in todo
  /\ todo' = todo \ {c}
  /\ ran' = [ran EXCEPT ![c] = @ + 1]
  /\ changed' = (changed \/ c \in Live)
  /\ phase' = "report"
  /\ \E verdict \in BOOLEAN :
        /\ Send(r, "report", {c}, verdict)
        /\ stopping' = (stopping \/ UpdateRestarts(c, verdict))
  /\ UNCHANGED <<serverVars, token, pushVars, dropped, leftover, faults>>

ReportAnswered(r) ==
  /\ phase = "report" /\ req[r].waited /\ req[r].stage = "answered"
  /\ req' = [req EXCEPT ![r] = FreeSlot]
  /\ phase' = "exec"
  /\ UNCHANGED <<serverVars, token, todo, changed, stopping, pushVars, history, faults>>

\* The batch is done: one extra check-in if a container or VM was touched.
EndBatch ==
  /\ phase = "exec" /\ todo = {} /\ ~changed
  /\ phase' = "idle"
  /\ UNCHANGED <<serverVars, token, req, todo, changed, stopping, pushVars, history, faults>>

StartRefresh(r) ==
  /\ phase = "exec" /\ todo = {} /\ changed
  /\ phase' = "refresh"
  /\ Send(r, "refresh", {}, FALSE)
  /\ UNCHANGED <<serverVars, token, todo, changed, stopping, pushVars, history, faults>>

\* The refresh's answer is discarded, whatever commands it carried.
RefreshAnswered(r) ==
  /\ phase = "refresh" /\ req[r].waited /\ req[r].stage = "answered"
  /\ req' = [req EXCEPT ![r] = FreeSlot]
  /\ phase' = "idle"
  /\ dropped' = dropped \cup req[r].batch
  /\ UNCHANGED <<serverVars, token, todo, changed, stopping, pushVars, ran, leftover, faults>>

\* Mutant of NudgeArrives: an unbuffered checkinNowCh, received only in select.
NudgeUnbuffered ==
  /\ pushed /\ phase # "down"
  /\ pushed' = FALSE /\ nudge' = (phase = "idle")
  /\ UNCHANGED <<serverVars, token, req, agentVars, history, faults>>

\* The control channel's goroutine: a non-blocking send on checkinNowCh.
NudgeArrives ==
  /\ pushed /\ phase # "down"
  /\ pushed' = FALSE /\ nudge' = TRUE
  /\ UNCHANGED <<serverVars, token, req, agentVars, history, faults>>

-----------------------------------------------------------------------------
(* Faults *)

\* What is lost for good when the agent stops waiting for exchange r: an answer
\* that was on its way, and a report that did not reach the server.
LostWith(r, arrived) ==
  IF req[r].op = "report"
  THEN IF arrived THEN {} ELSE req[r].batch
  ELSE req[r].batch

\* The client's side of an exchange is over without an answer; the server may
\* not have received the request, or goes on with it on its own.
Abandon(r, arrived) ==
  IF req[r].stage \in {"sent", "authed"} /\ arrived
  THEN [req[r] EXCEPT !.waited = FALSE]
  ELSE FreeSlot

\* Mutant of AfterFailure: the goroutine ends on an error.
StuckAfterFailure == phase

\* checkinOnce logs the error; after a report it goes on with the batch.
AfterFailure == IF phase = "report" THEN "exec" ELSE "idle"

\* Connection refused or reset, or the client's 30 second timeout.
ExchangeFails(r) ==
  /\ faults < MaxFaults /\ faults' = faults + 1
  /\ req[r].waited
  /\ \E arrived \in {req[r].stage # "sent", TRUE} :
        /\ req' = [req EXCEPT ![r] = Abandon(r, arrived)]
        /\ dropped' = dropped \cup LostWith(r, arrived)
  /\ phase' = AfterFailure
  /\ UNCHANGED <<serverVars, token, todo, changed, stopping, pushVars, ran, leftover>>

\* The process ends: every open exchange is abandoned, the batch in memory and
\* the two channels' contents are gone.
Die ==
  /\ phase # "down"
  /\ \E arrived \in [Reqs -> BOOLEAN] :
        /\ \A r \in Reqs : req[r].stage # "sent" => arrived[r]
        /\ req' = [r \in Reqs |-> IF req[r].waited THEN Abandon(r, arrived[r])
                                                   ELSE req[r]]
        /\ dropped' = dropped \cup todo \cup
                      UNION {LostWith(r, arrived[r]) :
                               r \in {s \in Reqs : req[s].waited}}
  /\ phase' = "down" /\ todo' = {} /\ changed' = FALSE /\ stopping' = FALSE
  /\ pushed' = FALSE /\ nudge' = FALSE
  /\ UNCHANGED <<serverVars, token, ran, leftover>>

\* A power cut, a reboot command, SIGKILL.
Crash == faults < MaxFaults /\ faults' = faults + 1 /\ Die

\* Once it has enrolled, the installer restarts the service: an authorised
\* SIGTERM, on which the signal handler closes stopCh.
InstallerRestart ==
  /\ token = "replaced" /\ phase # "down" /\ ~stopping
  /\ stopping' = TRUE
  /\ UNCHANGED <<serverVars, token, req, phase, todo, changed, pushVars, history, faults>>

\* stopCh is closed: Run returns at its select, the process exits.
StopLoop == phase = "idle" /\ stopping /\ Die /\ UNCHANGED faults

\* Restart=always: the service manager starts the agent, which reads its token
\* from disk and checks in at once.
Restart ==
  /\ phase = "down"
  /\ phase' = "idle"
  /\ token' = IF token = "replaced" THEN "valid" ELSE token
  /\ UNCHANGED <<serverVars, req, todo, changed, stopping, pushVars, history, faults>>

-----------------------------------------------------------------------------
ServerStep(r) == Authenticate(r) \/ CommitCheckin(r) \/ CommitReport(r)

AgentStep == \/ EndBatch
             \/ \E r \in Reqs : \/ TakeBatch(r) \/ ReportAnswered(r)
                                \/ StartRefresh(r) \/ RefreshAnswered(r)
                                \/ \E c \in Cmds : Execute(c, r)

Next ==
  \/ \E c \in Cmds : CheckNodeActive(c) \/ InsertCommand(c)
  \/ CheckinNow \/ Decommission \/ Reenroll
  \/ \E r \in Reqs : ServerStep(r) \/ TimerCheckin(r) \/ NudgedCheckin(r)
                     \/ ExchangeFails(r)
  \/ AgentStep \/ StopLoop \/ NudgeArrives
  \/ Crash \/ InstallerRestart \/ Restart

Spec == Init /\ [][Next]_vars

\* The server answers, the goroutines run, the service manager restarts.  Go's
\* select picks at random among its ready cases, so a closed stopCh is not
\* passed over for ever.  No fairness for analysts, administrators or faults.
Progress == /\ \A r \in Reqs : WF_vars(ServerStep(r))
            /\ WF_vars(AgentStep)
            /\ WF_vars(NudgeArrives)
            /\ WF_vars(\E r \in Reqs : NudgedCheckin(r))
            /\ SF_vars(StopLoop)
            /\ WF_vars(InstallerRestart)
            /\ WF_vars(Restart)

\* ... and every interval elapses.
IntervalElapses == WF_vars(\E r \in Reqs : TimerCheckin(r))
FairSpec == Spec /\ Progress /\ IntervalElapses

\* The same without the interval timer, to see what the nudge does on its own.
NudgeSpec == Spec /\ Progress

-----------------------------------------------------------------------------
(* Properties *)

\* No command is executed twice, whatever is lost, retried or restarted: the
\* row leaves `pending` in the transaction that hands it out.
AtMostOnce == \A c \in Cmds : ran[c] <= 1

\* A result is recorded only for a command the agent executed, and a command is
\* only executed after the server marked it sent.
NoResultWithoutRun ==
  \A c \in Cmds : /\ status[c] \in Recorded => ran[c] > 0
                  /\ ran[c] > 0 => status[c] \notin {"absent", "pending"}

\* A command marked sent and not executed is somewhere: in an answer the agent
\* still waits for, in its batch, or among those a fault or a discarded refresh
\* answer dropped.  The transaction marks exactly the rows it hands out.
SentIsAccountedFor ==
  \A c \in Cmds :
    status[c] = "sent" /\ ran[c] = 0 =>
      \/ c \in todo \/ c \in dropped
      \/ \E r \in Reqs : req[r].op \in Checkins /\ c \in req[r].batch

Order(s) == CASE s = "absent" -> 0 [] s = "pending" -> 1
              [] s = "sent" -> 2 [] OTHER -> 3

\* commands.status only moves forward, and a recorded result never changes:
\* report_command_result updates without looking at the row's state, so this
\* rests on each result being posted once.
StatusOnlyAdvances ==
  [][\A c \in Cmds : \/ status'[c] = status[c]
                     \/ Order(status'[c]) > Order(status[c])]_vars

\* The comment on checkinOnce's refresh: commands the follow-up check-in
\* receives "are simply left for the next regular cycle", so they run.
LeftForNextCycle ==
  \A c \in Cmds : c \in leftover ~> (ran[c] > 0 \/ ~active)

\* A pending command of a node that stays active is handed out, if the interval
\* keeps elapsing: check-ins go on after every kind of failure.
PendingIsHandedOut ==
  IntervalElapses =>
    \A c \in Cmds : status[c] = "pending" ~> (status[c] # "pending" \/ ~active)

\* A command the agent executed gets its result recorded, unless the exchange
\* that carried it was lost.
RunIsRecorded ==
  \A c \in Cmds : ran[c] > 0 ~> (status[c] \in Recorded \/ c \in dropped)

\* What is queued is handed out, and what was run is recorded.
CommandsComplete == PendingIsHandedOut /\ RunIsRecorded

\* checkinNowCh's one-element buffer is enough: a checkin_now that arrives in
\* the middle of a cycle still gets the rows pending then handed out, with no
\* help from the interval timer.
NudgeIsNotLost ==
  \A c \in Cmds :
    (pushed /\ status[c] = "pending") ~>
      (status[c] # "pending" \/ ~active \/ faults > 0 \/ stopping)

\* What the contract sees of a command.
Life(c) == IF status[c] \in Recorded THEN "recorded"
           ELSE IF status[c] = "sent" THEN IF ran[c] > 0 THEN "run" ELSE "taken"
           ELSE IF status[c] = "pending" THEN "queued" ELSE "none"

Contract == INSTANCE CommandContract
              WITH life <- [c \in Cmds |-> Life(c)], runs <- ran

\* The pipeline, with its lost answers, deaths and restarts, keeps the contract.
KeepsContract == Contract!Spec
=============================================================================
