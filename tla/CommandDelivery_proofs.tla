----------------------- MODULE CommandDelivery_proofs -----------------------
(***************************************************************************)
(* Proofs about CommandDelivery, for any set of commands, exchange slots    *)
(* and bound on faults: typing, at-most-once execution, no result without   *)
(* a run, statuses only advance, and the refinement of CommandContract.     *)
(*                                                                         *)
(* The argument: between the transaction that marks a command sent and its  *)
(* recorded result, at most one thing "holds" the command - an answered     *)
(* check-in, the agent's batch, or an unfinished report.                    *)
(***************************************************************************)
EXTENDS CommandDelivery, TLAPS

\* Exchange x still matters for command c: it hands it out, or reports on it.
Holds(x, c) == /\ c \in x.batch
               /\ x.op \in Checkins \/ x.stage \in {"sent", "authed"}

\* A row is absent until its handler has inserted it.
Absent == \A c \in Cmds : handler[c] # "done" => status[c] = "absent"

\* A held command is sent; it has run exactly when the holder is its report.
Held == \A r \in Reqs : \A c \in Cmds :
          Holds(req[r], c) => /\ status[c] = "sent"
                              /\ c \notin todo
                              /\ ran[c] = IF req[r].op = "report" THEN 1 ELSE 0

HeldOnce == \A r, s \in Reqs : \A c \in Cmds :
              Holds(req[r], c) /\ Holds(req[s], c) => r = s

Batch == \A c \in todo : status[c] = "sent" /\ ran[c] = 0

Counted == \A c \in Cmds : /\ ran[c] \in {0, 1}
                           /\ ran[c] = 1 => status[c] \in {"sent"} \cup Recorded
                           /\ status[c] \in Recorded => ran[c] = 1

\* A report is about one command.
OneEach == \A r \in Reqs : req[r].op = "report" =>
             \E c \in Cmds : req[r].batch = {c}

\* The agent waits for one exchange at a time, the one its phase names.
Waiting == \A r \in Reqs :
             req[r].waited => /\ phase = req[r].op
                              /\ \A s \in Reqs : req[s].waited => s = r

CustodyInv == TypeOK /\ Absent /\ Held /\ HeldOnce /\ Batch /\ Counted /\ OneEach

IInv == CustodyInv /\ Waiting

USE DEF Recorded, Checkins

-----------------------------------------------------------------------------
(* Typing *)

\* A slot without an exchange has its type.
LEMMA FreeSlotType == FreeSlot \in Exchange
BY DEF FreeSlot, Exchange

\* An exchange that advances, is answered or is abandoned by its client has its type.
LEMMA UpdateType ==
  ASSUME NEW x \in Exchange, NEW b \in BOOLEAN, NEW cmds \in SUBSET Cmds,
         NEW st \in {"free", "sent", "authed", "answered"}
  PROVE  /\ [x EXCEPT !.stage = st] \in Exchange
         /\ [x EXCEPT !.stage = st, !.ok = b] \in Exchange
         /\ [x EXCEPT !.stage = st, !.ok = b, !.batch = cmds] \in Exchange
         /\ [x EXCEPT !.waited = b] \in Exchange
BY DEF Exchange

\* Sending a request leaves exchanges in the slots.
LEMMA SendType ==
  ASSUME TypeOK, NEW r \in Reqs, NEW kind \in Checkins \cup {"report"},
         NEW cmds \in SUBSET Cmds, NEW verdict \in BOOLEAN,
         Send(r, kind, cmds, verdict)
  PROVE  req' \in [Reqs -> Exchange]
<1>1. [stage |-> "sent", op |-> kind, batch |-> cmds, ok |-> verdict, waited |-> TRUE]
        \in Exchange
  BY DEF Exchange
<1> QED BY <1>1 DEF Send, TypeOK

\* Giving up waiting leaves an exchange and loses commands only.
LEMMA AbandonType ==
  ASSUME TypeOK, NEW r \in Reqs, NEW arrived \in BOOLEAN
  PROVE  Abandon(r, arrived) \in Exchange /\ LostWith(r, arrived) \subseteq Cmds
<1>1. req[r] \in Exchange
  BY DEF TypeOK
<1>2. [req[r] EXCEPT !.waited = FALSE] \in Exchange
  BY <1>1, UpdateType
<1>3. req[r].batch \subseteq Cmds
  BY <1>1 DEF Exchange
<1> QED BY <1>2, <1>3, FreeSlotType DEF Abandon, LostWith

\* The end of the agent's process keeps the types.
LEMMA DieType ==
  ASSUME TypeOK, Die, faults' \in Nat
  PROVE  TypeOK'
<1>1. PICK arrived \in [Reqs -> BOOLEAN] :
        /\ req' = [r \in Reqs |-> IF req[r].waited THEN Abandon(r, arrived[r])
                                                   ELSE req[r]]
        /\ dropped' = dropped \cup todo \cup
                      UNION {LostWith(r, arrived[r]) :
                               r \in {s \in Reqs : req[s].waited}}
  BY DEF Die
<1>2. req' \in [Reqs -> Exchange]
  BY <1>1, AbandonType DEF TypeOK
<1>3. dropped' \subseteq Cmds
  <2>1. \A r \in Reqs : LostWith(r, arrived[r]) \subseteq Cmds
    BY AbandonType
  <2> QED BY <1>1, <2>1 DEF TypeOK
<1>4. /\ phase' = "down" /\ todo' = {} /\ changed' = FALSE /\ stopping' = FALSE
      /\ pushed' = FALSE /\ nudge' = FALSE
      /\ UNCHANGED <<handler, status, active, token, ran, leftover>>
  BY DEF Die, serverVars
<1> QED BY <1>2, <1>3, <1>4 DEF TypeOK

\* Every variable keeps its type.
LEMMA TypeStep == TypeOK /\ [Next]_vars => TypeOK'
<1> SUFFICES ASSUME TypeOK, [Next]_vars PROVE TypeOK'
  OBVIOUS
<1> USE DEF serverVars, agentVars, pushVars, history
<1>1. ASSUME NEW c \in Cmds, CheckNodeActive(c) \/ InsertCommand(c) PROVE TypeOK'
  BY <1>1 DEF TypeOK, CheckNodeActive, InsertCommand, Queued
<1>2. CASE CheckinNow \/ Decommission \/ Reenroll \/ InstallerRestart \/ NudgeArrives \/ Restart \/ EndBatch
  <2>1. CASE CheckinNow BY <2>1 DEF TypeOK, CheckinNow
  <2>2. CASE Decommission BY <2>2 DEF TypeOK, Decommission
  <2>3. CASE Reenroll BY <2>3 DEF TypeOK, Reenroll
  <2>4. CASE NudgeArrives BY <2>4 DEF TypeOK, NudgeArrives
  <2>5. CASE Restart BY <2>5 DEF TypeOK, Restart
  <2>6. CASE EndBatch BY <2>6 DEF TypeOK, EndBatch
  <2>7. CASE InstallerRestart
    <3>1. stopping' \in BOOLEAN BY <2>7 DEF InstallerRestart
    <3> QED BY <2>7, <3>1 DEF TypeOK, InstallerRestart
  <2> QED BY <1>2, <2>1, <2>2, <2>3, <2>4, <2>5, <2>6, <2>7
<1>3. ASSUME NEW r \in Reqs, Authenticate(r) PROVE TypeOK'
  <2>1. req[r] \in Exchange /\ req[r].batch \subseteq Cmds
    BY DEF TypeOK, Exchange
  <2>2. req' \in [Reqs -> Exchange]
    BY <1>3, <2>1, FreeSlotType, UpdateType DEF TypeOK, Authenticate
  <2>3. dropped' \subseteq Cmds
    BY <1>3, <2>1 DEF TypeOK, Authenticate
  <2> QED BY <1>3, <2>2, <2>3 DEF TypeOK, Authenticate
<1>4. ASSUME NEW r \in Reqs, CommitCheckin(r) PROVE TypeOK'
  <2>1. Pending \subseteq Cmds /\ MarkSent \in [Cmds -> {"absent", "pending", "sent"} \cup Recorded]
    BY DEF Pending, MarkSent, TypeOK
  <2>2. req' \in [Reqs -> Exchange]
    BY <1>4, <2>1, FreeSlotType, UpdateType DEF TypeOK, CommitCheckin
  <2> QED BY <1>4, <2>1, <2>2 DEF TypeOK, CommitCheckin
<1>5. ASSUME NEW r \in Reqs, CommitReport(r) PROVE TypeOK'
  BY <1>5, FreeSlotType DEF TypeOK, CommitReport, ResultStatus, Exchange
<1>6. ASSUME NEW r \in Reqs, TimerCheckin(r) \/ NudgedCheckin(r) \/ StartRefresh(r)
      PROVE TypeOK'
  <2>1. CASE TimerCheckin(r)
    <3>1. Send(r, "checkin", {}, FALSE) BY <2>1 DEF TimerCheckin, StartCheckin
    <3>2. req' \in [Reqs -> Exchange] BY <3>1, SendType
    <3> QED BY <2>1, <3>2 DEF TypeOK, TimerCheckin, StartCheckin
  <2>2. CASE NudgedCheckin(r)
    <3>1. Send(r, "checkin", {}, FALSE) BY <2>2 DEF NudgedCheckin, StartCheckin
    <3>2. req' \in [Reqs -> Exchange] BY <3>1, SendType
    <3> QED BY <2>2, <3>2 DEF TypeOK, NudgedCheckin, StartCheckin
  <2>3. CASE StartRefresh(r)
    <3>1. Send(r, "refresh", {}, FALSE) BY <2>3 DEF StartRefresh
    <3>2. req' \in [Reqs -> Exchange] BY <3>1, SendType
    <3> QED BY <2>3, <3>2 DEF TypeOK, StartRefresh
  <2> QED BY <1>6, <2>1, <2>2, <2>3
<1>7. ASSUME NEW r \in Reqs, TakeBatch(r) \/ ReportAnswered(r) \/ RefreshAnswered(r)
      PROVE TypeOK'
  BY <1>7, FreeSlotType DEF TypeOK, TakeBatch, ReportAnswered, RefreshAnswered, Exchange
<1>8. ASSUME NEW r \in Reqs, NEW c \in Cmds, Execute(c, r) PROVE TypeOK'
  <2>1. PICK verdict \in BOOLEAN :
          /\ Send(r, "report", {c}, verdict)
          /\ stopping' = (stopping \/ (c \in Updates /\ verdict))
    BY <1>8 DEF Execute, UpdateRestarts
  <2>2. req' \in [Reqs -> Exchange] BY <2>1, SendType
  <2>3. stopping' \in BOOLEAN /\ changed' \in BOOLEAN
    BY <1>8, <2>1 DEF Execute, UpdateRestarts
  <2> QED BY <1>8, <2>2, <2>3 DEF TypeOK, Execute, UpdateRestarts
<1>9. ASSUME NEW r \in Reqs, ExchangeFails(r) PROVE TypeOK'
  <2>1. PICK arrived \in BOOLEAN :
          /\ req' = [req EXCEPT ![r] = Abandon(r, arrived)]
          /\ dropped' = dropped \cup LostWith(r, arrived)
    BY <1>9 DEF ExchangeFails
  <2> QED BY <1>9, <2>1, AbandonType DEF TypeOK, ExchangeFails, AfterFailure
<1>10. CASE Crash \/ StopLoop
  <2>1. Die /\ faults' \in Nat
    BY <1>10 DEF Crash, StopLoop, TypeOK
  <2> QED BY <2>1, DieType
<1>11. CASE UNCHANGED vars
  BY <1>11 DEF TypeOK, vars
<1> QED
  BY <1>1, <1>2, <1>3, <1>4, <1>5, <1>6, <1>7, <1>8, <1>9, <1>10, <1>11
  DEF Next, ServerStep, AgentStep

\* The types hold before the first command.
LEMMA InitType == Init => TypeOK
<1> SUFFICES ASSUME Init PROVE TypeOK
  OBVIOUS
<1>1. req \in [Reqs -> Exchange] BY FreeSlotType DEF Init
<1>2. ran \in [Cmds -> Nat] /\ faults \in Nat BY DEF Init
<1> QED BY <1>1, <1>2, Zenon DEF Init, TypeOK

\* Type correctness, for any commands, slots and bound.
THEOREM Typing == Spec => []TypeOK
BY InitType, TypeStep, PTL DEF Spec

-----------------------------------------------------------------------------
(* The inductive invariant *)

\* A step that neither runs nor hands out nor records anything: no exchange
\* starts to hold a command.
LEMMA QuietStep ==
  ASSUME CustodyInv, TypeOK', UNCHANGED <<handler, status, ran>>, todo' \subseteq todo,
         \A r \in Reqs : \A c \in Cmds :
           Holds(req'[r], c) => Holds(req[r], c) /\ req'[r].op = req[r].op,
         \A r \in Reqs : req'[r].op = "report" => \E c \in Cmds : req'[r].batch = {c}
  PROVE  CustodyInv'
<1>1. Absent' BY DEF CustodyInv, Absent
<1>2. Held' BY DEF CustodyInv, Held
<1>3. HeldOnce' BY DEF CustodyInv, HeldOnce
<1>4. Batch' BY DEF CustodyInv, Batch, TypeOK
<1>5. Counted' BY DEF CustodyInv, Counted
<1>6. OneEach' BY DEF OneEach
<1> QED BY <1>1, <1>2, <1>3, <1>4, <1>5, <1>6 DEF CustodyInv

\* What an exchange may turn into without holding anything new.
Fades(x, y) == /\ \A c \in Cmds : Holds(y, c) => Holds(x, c) /\ y.op = x.op
               /\ y.op = "report" => y.op = x.op /\ y.batch = x.batch

\* The forms an exchange takes while no command is added to what it carries.
LEMMA Fading ==
  ASSUME NEW x \in Exchange
  PROVE  /\ Fades(x, x)
         /\ Fades(x, FreeSlot)
         /\ Fades(x, [x EXCEPT !.waited = FALSE])
         /\ x.stage \in {"sent", "authed"} =>
              /\ Fades(x, [x EXCEPT !.stage = "authed"])
              /\ Fades(x, [x EXCEPT !.stage = "answered", !.ok = FALSE])
BY DEF Fades, Holds, FreeSlot, Exchange

\* The form QuietStep takes when every exchange fades.
LEMMA FadingStep ==
  ASSUME CustodyInv, TypeOK', UNCHANGED <<handler, status, ran>>, todo' \subseteq todo,
         \A r \in Reqs : Fades(req[r], req'[r])
  PROVE  CustodyInv'
<1>1. \A r \in Reqs : \A c \in Cmds :
        Holds(req'[r], c) => Holds(req[r], c) /\ req'[r].op = req[r].op
  BY DEF Fades
<1>2. \A r \in Reqs : req'[r].op = "report" => \E c \in Cmds : req'[r].batch = {c}
  BY DEF Fades, CustodyInv, OneEach
<1> QED BY <1>1, <1>2, QuietStep

\* A check-in is sent off: its exchange carries no command yet.
LEMMA SendStep ==
  ASSUME CustodyInv, TypeOK', UNCHANGED <<handler, status, ran, todo>>,
         NEW r \in Reqs, NEW kind \in Checkins, Send(r, kind, {}, FALSE)
  PROVE  CustodyInv'
<1>1. \A s \in Reqs : \A c \in Cmds :
        Holds(req'[s], c) => Holds(req[s], c) /\ req'[s].op = req[s].op
  BY DEF Send, Holds, CustodyInv, TypeOK
<1>2. \A s \in Reqs : req'[s].op = "report" => \E c \in Cmds : req'[s].batch = {c}
  BY DEF Send, CustodyInv, OneEach, TypeOK
<1> QED BY <1>1, <1>2, QuietStep

\* The end of the process leaves every command with one custodian at most.
LEMMA DieStep ==
  ASSUME CustodyInv, TypeOK', Die
  PROVE  CustodyInv'
<1>1. PICK arrived \in [Reqs -> BOOLEAN] :
        req' = [r \in Reqs |-> IF req[r].waited THEN Abandon(r, arrived[r]) ELSE req[r]]
  BY DEF Die
<1>2. \A r \in Reqs : req[r] \in Exchange
  BY DEF CustodyInv, TypeOK
<1>3. \A r \in Reqs : Fades(req[r], req'[r])
  BY <1>1, <1>2, Fading DEF Abandon
<1>4. UNCHANGED <<handler, status, ran>> /\ todo' \subseteq todo
  BY DEF Die, serverVars
<1> QED BY <1>3, <1>4, FadingStep

\* A new command is nobody's yet.
LEMMA InsertStep ==
  ASSUME CustodyInv, TypeOK', NEW d \in Cmds, InsertCommand(d)
  PROVE  CustodyInv'
<1> USE DEF serverVars, agentVars, pushVars, history
<1>1. /\ UNCHANGED <<req, todo, ran>> /\ status[d] = "absent"
      /\ status' = [status EXCEPT ![d] = "pending"]
      /\ handler' = [handler EXCEPT ![d] = "done"]
  BY DEF InsertCommand, Queued, CustodyInv, Absent
<1>2. Absent' BY <1>1 DEF CustodyInv, Absent, TypeOK
<1>3. Held' BY <1>1 DEF CustodyInv, Held, TypeOK
<1>4. HeldOnce' BY <1>1 DEF CustodyInv, HeldOnce
<1>5. Batch' BY <1>1 DEF CustodyInv, Batch, TypeOK
<1>6. Counted' BY <1>1 DEF CustodyInv, Counted, TypeOK
<1>7. OneEach' BY <1>1 DEF CustodyInv, OneEach
<1> QED BY <1>2, <1>3, <1>4, <1>5, <1>6, <1>7 DEF CustodyInv

\* Pending rows are held by nothing, so the new answer is their only holder.
LEMMA CommitCheckinStep ==
  ASSUME CustodyInv, TypeOK', NEW r \in Reqs, CommitCheckin(r)
  PROVE  CustodyInv'
<1> USE DEF serverVars, agentVars, pushVars, history
<1> DEFINE y == req'[r]
<1>1. /\ UNCHANGED <<handler, todo, ran>>
      /\ \A s \in Reqs : s # r => req'[s] = req[s]
      /\ \A c \in Cmds : status'[c] = IF c \in Pending THEN "sent" ELSE status[c]
  BY DEF CommitCheckin, MarkSent, Pending, CustodyInv, TypeOK
<1>2. y.op \in Checkins /\ \A c \in Cmds : Holds(y, c) => c \in Pending
  BY DEF CommitCheckin, Holds, FreeSlot, CustodyInv, TypeOK, Exchange
<1>3. \A c \in Pending : /\ c \in Cmds /\ ran[c] = 0 /\ c \notin todo
                         /\ \A s \in Reqs : ~Holds(req[s], c)
  BY DEF Pending, CustodyInv, Counted, Held, Batch
<1> HIDE DEF y
<1>4. Absent' BY <1>1 DEF CustodyInv, Absent, Pending
<1>5. Held'
  <2> SUFFICES ASSUME NEW s \in Reqs, NEW c \in Cmds, Holds(req'[s], c)
               PROVE  /\ status'[c] = "sent" /\ c \notin todo'
                      /\ ran'[c] = IF req'[s].op = "report" THEN 1 ELSE 0
    BY DEF Held
  <2>1. CASE s = r BY <2>1, <1>1, <1>2, <1>3 DEF y
  <2>2. CASE s # r BY <2>2, <1>1, <1>3 DEF CustodyInv, Held
  <2> QED BY <2>1, <2>2
<1>6. HeldOnce'
  <2> SUFFICES ASSUME NEW s \in Reqs, NEW t \in Reqs, NEW c \in Cmds,
                      Holds(req'[s], c), Holds(req'[t], c)
               PROVE  s = t
    BY DEF HeldOnce
  <2>1. CASE s # r /\ t # r BY <2>1, <1>1 DEF CustodyInv, HeldOnce
  <2>2. CASE s = r \/ t = r BY <2>2, <1>1, <1>2, <1>3 DEF y
  <2> QED BY <2>1, <2>2
<1>7. Batch' BY <1>1, <1>3 DEF CustodyInv, Batch, TypeOK
<1>8. Counted' BY <1>1, <1>3 DEF CustodyInv, Counted
<1>9. OneEach' BY <1>1, <1>2 DEF CustodyInv, OneEach, y
<1> QED BY <1>4, <1>5, <1>6, <1>7, <1>8, <1>9 DEF CustodyInv

\* The report held its command, so nothing else does once it is recorded.
LEMMA CommitReportStep ==
  ASSUME CustodyInv, TypeOK', NEW r \in Reqs, CommitReport(r)
  PROVE  CustodyInv'
<1> USE DEF serverVars, agentVars, pushVars, history
<1>1. PICK d \in Cmds : req[r].batch = {d}
  BY DEF CommitReport, CustodyInv, OneEach
<1>2. Holds(req[r], d) /\ status[d] = "sent" /\ ran[d] = 1 /\ d \notin todo
  BY <1>1 DEF CommitReport, Holds, CustodyInv, Held
<1>3. /\ UNCHANGED <<handler, todo, ran>>
      /\ \A s \in Reqs : s # r => req'[s] = req[s]
      /\ status'[d] \in Recorded
      /\ \A c \in Cmds : c # d => status'[c] = status[c]
  BY <1>1 DEF CommitReport, ResultStatus, CustodyInv, TypeOK
<1>4. \A c \in Cmds : ~Holds(req'[r], c)
  BY DEF CommitReport, Holds, FreeSlot, CustodyInv, TypeOK, Exchange
<1>5. Absent' BY <1>2, <1>3 DEF CustodyInv, Absent
<1>6. Held' BY <1>2, <1>3, <1>4 DEF CustodyInv, Held, HeldOnce
<1>7. HeldOnce' BY <1>3, <1>4 DEF CustodyInv, HeldOnce
<1>8. Batch' BY <1>2, <1>3 DEF CustodyInv, Batch, TypeOK
<1>9. Counted' BY <1>2, <1>3 DEF CustodyInv, Counted
<1>10. req'[r].op = "report" => req'[r].batch = {d}
  BY <1>1 DEF CommitReport, FreeSlot, CustodyInv, TypeOK, Exchange
<1>11. OneEach' BY <1>3, <1>10 DEF CustodyInv, OneEach
<1> QED BY <1>5, <1>6, <1>7, <1>8, <1>9, <1>11 DEF CustodyInv

\* The batch moves from the answered check-in to the agent's list.
LEMMA TakeBatchStep ==
  ASSUME CustodyInv, Waiting, TypeOK', NEW r \in Reqs, TakeBatch(r)
  PROVE  CustodyInv'
<1> USE DEF serverVars, agentVars, pushVars, history
<1>1. /\ UNCHANGED <<handler, status, ran>>
      /\ req' = [req EXCEPT ![r] = FreeSlot]
      /\ todo' = req[r].batch
  BY DEF TakeBatch
<1>2. req[r].op = "checkin"
  BY DEF TakeBatch, Waiting
<1>3. \A c \in todo' : c \in Cmds /\ Holds(req[r], c)
  BY <1>1, <1>2 DEF Holds, CustodyInv, TypeOK, Exchange
<1>4. \A c \in Cmds : ~Holds(FreeSlot, c)
  BY DEF Holds, FreeSlot
<1>5. \A s \in Reqs : req'[s] = IF s = r THEN FreeSlot ELSE req[s]
  BY <1>1 DEF CustodyInv, TypeOK
<1>6. Absent' BY <1>1 DEF CustodyInv, Absent
<1>7. Held' BY <1>1, <1>3, <1>4, <1>5 DEF CustodyInv, Held, HeldOnce
<1>8. HeldOnce' BY <1>4, <1>5 DEF CustodyInv, HeldOnce
<1>9. Batch' BY <1>1, <1>2, <1>3 DEF CustodyInv, Held, Batch
<1>10. Counted' BY <1>1 DEF CustodyInv, Counted
<1>11. OneEach' BY <1>5 DEF CustodyInv, OneEach, FreeSlot
<1> QED BY <1>6, <1>7, <1>8, <1>9, <1>10, <1>11 DEF CustodyInv

\* Execution moves a command from the batch to its report and counts the run.
LEMMA ExecuteStep ==
  ASSUME CustodyInv, TypeOK', NEW r \in Reqs, NEW d \in Cmds, Execute(d, r)
  PROVE  CustodyInv'
<1> USE DEF serverVars, agentVars, pushVars, history
<1>1. PICK verdict \in BOOLEAN : Send(r, "report", {d}, verdict)
  BY DEF Execute, UpdateRestarts
<1>2. /\ UNCHANGED <<handler, status>>
      /\ d \in todo /\ todo' = todo \ {d}
      /\ status[d] = "sent" /\ ran[d] = 0 /\ ran'[d] = 1
      /\ \A c \in Cmds : c # d => ran'[c] = ran[c]
  BY DEF Execute, UpdateRestarts, CustodyInv, Batch, TypeOK
<1>3. \A s \in Reqs : s # r => req'[s] = req[s]
  BY <1>1 DEF Send, CustodyInv, TypeOK
<1>4. req'[r].op = "report" /\ req'[r].batch = {d}
  BY <1>1 DEF Send, CustodyInv, TypeOK
<1>5. \A s \in Reqs : ~Holds(req[s], d)
  BY <1>2 DEF CustodyInv, Held
<1>6. Absent' BY <1>2 DEF CustodyInv, Absent
<1>7. Held'
  <2> SUFFICES ASSUME NEW s \in Reqs, NEW c \in Cmds, Holds(req'[s], c)
               PROVE  /\ status'[c] = "sent" /\ c \notin todo'
                      /\ ran'[c] = IF req'[s].op = "report" THEN 1 ELSE 0
    BY DEF Held
  <2>1. CASE s = r
    <3>1. c = d BY <2>1, <1>4 DEF Holds
    <3> QED BY <3>1, <2>1, <1>2, <1>4
  <2>2. CASE s # r
    <3>1. Holds(req[s], c) /\ req'[s] = req[s] BY <2>2, <1>3
    <3>2. c # d BY <3>1, <1>5
    <3> QED BY <3>1, <3>2, <1>2 DEF CustodyInv, Held
  <2> QED BY <2>1, <2>2
<1>8. HeldOnce'
  <2> SUFFICES ASSUME NEW s \in Reqs, NEW t \in Reqs, NEW c \in Cmds,
                      Holds(req'[s], c), Holds(req'[t], c)
               PROVE  s = t
    BY DEF HeldOnce
  <2>1. CASE s # r /\ t # r BY <2>1, <1>3 DEF CustodyInv, HeldOnce
  <2>2. CASE s = r \/ t = r
    <3>1. c = d BY <2>2, <1>4 DEF Holds
    <3> QED BY <3>1, <2>2, <1>3, <1>5
  <2> QED BY <2>1, <2>2
<1>9. Batch' BY <1>2 DEF CustodyInv, Batch, TypeOK
<1>10. Counted' BY <1>2 DEF CustodyInv, Counted
<1>11. OneEach' BY <1>3, <1>4 DEF CustodyInv, OneEach
<1> QED BY <1>6, <1>7, <1>8, <1>9, <1>10, <1>11 DEF CustodyInv

\* Every step hands a command from one custodian to the next.
LEMMA CustodyStep == IInv /\ [Next]_vars => CustodyInv'
<1> SUFFICES ASSUME CustodyInv, Waiting, [Next]_vars PROVE CustodyInv'
  BY DEF IInv
<1> USE DEF serverVars, agentVars, pushVars, history
<1>1. TypeOK' BY TypeStep DEF CustodyInv
<1>2. \A r \in Reqs : req[r] \in Exchange BY DEF CustodyInv, TypeOK
<1>3. ASSUME UNCHANGED <<handler, status, ran, req, todo>> PROVE CustodyInv'
  <2>1. \A r \in Reqs : Fades(req[r], req'[r]) BY <1>2, <1>3, Fading
  <2> QED BY <2>1, <1>1, <1>3, FadingStep
<1>4. ASSUME NEW c \in Cmds, CheckNodeActive(c) PROVE CustodyInv'
  <2>1. Absent' BY <1>4 DEF CheckNodeActive, CustodyInv, Absent, TypeOK
  <2>2. UNCHANGED <<status, ran, req, todo>> BY <1>4 DEF CheckNodeActive
  <2> QED BY <2>1, <2>2, <1>1
          DEF CustodyInv, Held, HeldOnce, Batch, Counted, OneEach
<1>5. ASSUME NEW c \in Cmds, InsertCommand(c) PROVE CustodyInv'
  BY <1>1, <1>5, InsertStep
<1>6. CASE CheckinNow \/ Decommission \/ Reenroll \/ InstallerRestart \/ NudgeArrives \/ Restart \/ EndBatch
  BY <1>3, <1>6 DEF CheckinNow, Decommission, Reenroll, InstallerRestart, NudgeArrives, Restart, EndBatch
<1>7. ASSUME NEW r \in Reqs, Authenticate(r) PROVE CustodyInv'
  <2>1. \A s \in Reqs : Fades(req[s], req'[s])
    BY <1>2, <1>7, Fading DEF Authenticate, CustodyInv, TypeOK
  <2>2. UNCHANGED <<handler, status, ran, todo>> BY <1>7 DEF Authenticate
  <2> QED BY <2>1, <2>2, <1>1, FadingStep
<1>8. ASSUME NEW r \in Reqs, CommitCheckin(r) PROVE CustodyInv'
  BY <1>1, <1>8, CommitCheckinStep
<1>9. ASSUME NEW r \in Reqs, CommitReport(r) PROVE CustodyInv'
  BY <1>1, <1>9, CommitReportStep
<1>10. ASSUME NEW r \in Reqs, TimerCheckin(r) \/ NudgedCheckin(r) PROVE CustodyInv'
  <2>1. Send(r, "checkin", {}, FALSE) /\ UNCHANGED <<handler, status, ran, todo>>
    BY <1>10 DEF TimerCheckin, NudgedCheckin, StartCheckin
  <2> QED BY <2>1, <1>1, SendStep
<1>11. ASSUME NEW r \in Reqs, StartRefresh(r) PROVE CustodyInv'
  <2>1. Send(r, "refresh", {}, FALSE) /\ UNCHANGED <<handler, status, ran, todo>>
    BY <1>11 DEF StartRefresh
  <2> QED BY <2>1, <1>1, SendStep
<1>12. ASSUME NEW r \in Reqs, TakeBatch(r) PROVE CustodyInv'
  BY <1>1, <1>12, TakeBatchStep
<1>13. ASSUME NEW r \in Reqs, ReportAnswered(r) \/ RefreshAnswered(r) PROVE CustodyInv'
  <2>1. req' = [req EXCEPT ![r] = FreeSlot] /\ UNCHANGED <<handler, status, ran, todo>>
    BY <1>13 DEF ReportAnswered, RefreshAnswered
  <2>2. \A s \in Reqs : Fades(req[s], req'[s])
    BY <1>2, <2>1, Fading DEF CustodyInv, TypeOK
  <2> QED BY <2>1, <2>2, <1>1, FadingStep
<1>14. ASSUME NEW r \in Reqs, NEW c \in Cmds, Execute(c, r) PROVE CustodyInv'
  BY <1>1, <1>14, ExecuteStep
<1>15. ASSUME NEW r \in Reqs, ExchangeFails(r) PROVE CustodyInv'
  <2>1. PICK arrived \in BOOLEAN : req' = [req EXCEPT ![r] = Abandon(r, arrived)]
    BY <1>15 DEF ExchangeFails
  <2>2. \A s \in Reqs : Fades(req[s], req'[s])
    BY <1>2, <2>1, Fading DEF Abandon, CustodyInv, TypeOK
  <2>3. UNCHANGED <<handler, status, ran, todo>> BY <1>15 DEF ExchangeFails
  <2> QED BY <2>2, <2>3, <1>1, FadingStep
<1>16. CASE Crash \/ StopLoop
  BY <1>1, <1>16, DieStep DEF Crash, StopLoop
<1>17. CASE UNCHANGED vars
  BY <1>3, <1>17 DEF vars
<1> QED
  BY <1>4, <1>5, <1>6, <1>7, <1>8, <1>9, <1>10, <1>11, <1>12, <1>13, <1>14,
     <1>15, <1>16, <1>17
  DEF Next, ServerStep, AgentStep

\* The server's part of an exchange starts no wait and keeps the operation.
Keeps(x, y) == y.waited => x.waited /\ y.op = x.op

\* The forms an exchange takes while its client goes on waiting.
LEMMA Keeping ==
  ASSUME NEW x \in Exchange, NEW cmds
  PROVE  /\ Keeps(x, x) /\ Keeps(x, FreeSlot)
         /\ Keeps(x, [x EXCEPT !.stage = "authed"])
         /\ Keeps(x, [x EXCEPT !.stage = "answered"])
         /\ Keeps(x, [x EXCEPT !.stage = "answered", !.ok = FALSE])
         /\ Keeps(x, [x EXCEPT !.stage = "answered", !.ok = TRUE, !.batch = cmds])
BY DEF Keeps, FreeSlot, Exchange

\* Every step keeps what is known of the exchange the agent waits for.
LEMMA WaitingStep == TypeOK /\ Waiting /\ [Next]_vars => Waiting'
<1> SUFFICES ASSUME TypeOK, Waiting, [Next]_vars PROVE Waiting'
  OBVIOUS
<1> USE DEF serverVars, agentVars, pushVars, history
<1>1. \A r \in Reqs : req[r] \in Exchange BY DEF TypeOK
<1>2. ASSUME UNCHANGED <<req, phase>> PROVE Waiting'
  BY <1>2 DEF Waiting
<1>3. ASSUME NEW c \in Cmds, CheckNodeActive(c) \/ InsertCommand(c) PROVE Waiting'
  BY <1>2, <1>3 DEF CheckNodeActive, InsertCommand, Queued
<1>4. CASE CheckinNow \/ Decommission \/ Reenroll \/ InstallerRestart \/ NudgeArrives
  BY <1>2, <1>4 DEF CheckinNow, Decommission, Reenroll, InstallerRestart, NudgeArrives
<1>5. ASSUME NEW r \in Reqs, ServerStep(r) PROVE Waiting'
  <2>1. /\ UNCHANGED phase
        /\ \A s \in Reqs : Keeps(req[s], req'[s])
    <3>1. CASE Authenticate(r)
      BY <1>1, <3>1, Keeping DEF Authenticate, TypeOK
    <3>2. CASE CommitCheckin(r)
      BY <1>1, <3>2, Keeping DEF CommitCheckin, TypeOK
    <3>3. CASE CommitReport(r)
      BY <1>1, <3>3, Keeping DEF CommitReport, TypeOK
    <3> QED BY <1>5, <3>1, <3>2, <3>3 DEF ServerStep
  <2> QED BY <2>1 DEF Waiting, Keeps
<1>6. ASSUME NEW r \in Reqs, NEW kind \in Checkins \cup {"report"}, NEW cmds, NEW v,
             Send(r, kind, cmds, v), phase \in {"idle", "exec"}, phase' = kind
      PROVE  Waiting'
  <2>1. \A s \in Reqs : ~req[s].waited
    BY <1>1, <1>6 DEF Waiting, Exchange
  <2>2. req'[r].op = kind /\ \A s \in Reqs : s # r => req'[s] = req[s]
    BY <1>6 DEF Send, TypeOK
  <2> QED BY <2>1, <2>2, <1>6 DEF Waiting
<1>7. ASSUME NEW r \in Reqs, TimerCheckin(r) \/ NudgedCheckin(r) PROVE Waiting'
  BY <1>6, <1>7 DEF TimerCheckin, NudgedCheckin, StartCheckin
<1>8. ASSUME NEW r \in Reqs, StartRefresh(r) PROVE Waiting'
  BY <1>6, <1>8 DEF StartRefresh
<1>9. ASSUME NEW r \in Reqs, NEW c \in Cmds, Execute(c, r) PROVE Waiting'
  BY <1>6, <1>9 DEF Execute, UpdateRestarts
<1>10. ASSUME NEW r \in Reqs, req[r].waited,
              \A s \in Reqs : s # r => req'[s] = req[s], ~req'[r].waited
       PROVE  Waiting'
  BY <1>10 DEF Waiting
<1>11. ASSUME NEW r \in Reqs, TakeBatch(r) \/ ReportAnswered(r) \/ RefreshAnswered(r)
       PROVE  Waiting'
  BY <1>10, <1>11 DEF TakeBatch, ReportAnswered, RefreshAnswered, FreeSlot, TypeOK
<1>12. ASSUME NEW r \in Reqs, ExchangeFails(r) PROVE Waiting'
  BY <1>1, <1>10, <1>12 DEF ExchangeFails, Abandon, FreeSlot, TypeOK, Exchange
<1>13. CASE Crash \/ StopLoop
  <2>1. \A s \in Reqs : ~req'[s].waited
    BY <1>1, <1>13 DEF Crash, StopLoop, Die, Abandon, FreeSlot, Exchange
  <2> QED BY <2>1 DEF Waiting
<1>14. CASE Restart
  <2>1. phase = "down" /\ UNCHANGED req BY <1>14 DEF Restart
  <2>2. \A s \in Reqs : ~req[s].waited BY <1>1, <2>1 DEF Waiting, Exchange
  <2> QED BY <2>1, <2>2 DEF Waiting
<1>15. CASE EndBatch
  <2>1. phase = "exec" /\ UNCHANGED req BY <1>15 DEF EndBatch
  <2>2. \A s \in Reqs : ~req[s].waited BY <1>1, <2>1 DEF Waiting, Exchange
  <2> QED BY <2>1, <2>2 DEF Waiting
<1>16. CASE UNCHANGED vars
  BY <1>2, <1>16 DEF vars
<1> QED
  BY <1>3, <1>4, <1>5, <1>7, <1>8, <1>9, <1>11, <1>12, <1>13, <1>14, <1>15, <1>16
  DEF Next, AgentStep

\* The inductive invariant holds in every reachable state.
THEOREM Invariance == Spec => []IInv
<1>1. Init => IInv
  <2> SUFFICES ASSUME Init PROVE IInv
    OBVIOUS
  <2>1. TypeOK BY InitType
  <2>2. \A r \in Reqs : \A c \in Cmds : ~Holds(req[r], c)
    BY DEF Init, Holds, FreeSlot
  <2>3. Absent /\ Held /\ HeldOnce /\ Batch /\ Counted
    BY <2>2 DEF Init, Absent, Held, HeldOnce, Batch, Counted
  <2>4. OneEach /\ Waiting
    BY DEF Init, OneEach, Waiting, FreeSlot
  <2> QED BY <2>1, <2>3, <2>4 DEF IInv, CustodyInv
<1>2. IInv /\ [Next]_vars => IInv'
  BY CustodyStep, WaitingStep DEF IInv, CustodyInv
<1> QED BY <1>1, <1>2, PTL DEF Spec

-----------------------------------------------------------------------------
(* What was handed out is accounted for *)

\* Only a successful answer of a check-in carries commands.
AnswersCarry ==
  \A r \in Reqs :
    req[r].op \in Checkins /\ (req[r].stage # "answered" \/ ~req[r].ok) => req[r].batch = {}

\* The agent has a batch only while it works on it, so that the next answer
\* overwrites nothing.
BatchInWork == todo # {} => phase \in {"exec", "report"}

Accounting == SentIsAccountedFor /\ AnswersCarry /\ BatchInWork

\* A command stays accounted for if what it was in hands it on, drops it or
\* runs it, and nothing new is sent.
LEMMA HandedOn ==
  ASSUME SentIsAccountedFor, UNCHANGED status,
         \A c \in Cmds : ran'[c] = 0 => ran[c] = 0,
         \A c \in todo : c \in todo' \cup dropped' \/ ran'[c] # 0,
         dropped \subseteq dropped',
         \A r \in Reqs : req[r].op \in Checkins =>
           \A c \in req[r].batch :
             \/ c \in todo' \cup dropped'
             \/ req'[r].op \in Checkins /\ c \in req'[r].batch
  PROVE  SentIsAccountedFor'
<1> SUFFICES ASSUME NEW c \in Cmds, status[c] = "sent", ran'[c] = 0
             PROVE  \/ c \in todo' \/ c \in dropped'
                    \/ \E r \in Reqs : req'[r].op \in Checkins /\ c \in req'[r].batch
  BY DEF SentIsAccountedFor
<1>1. \/ c \in todo \/ c \in dropped
      \/ \E r \in Reqs : req[r].op \in Checkins /\ c \in req[r].batch
  BY DEF SentIsAccountedFor
<1> QED BY <1>1

\* The same for a step that leaves every exchange but one alone.
LEMMA HandedOnAt ==
  ASSUME SentIsAccountedFor, UNCHANGED status,
         \A c \in Cmds : ran'[c] = 0 => ran[c] = 0,
         \A c \in todo : c \in todo' \cup dropped' \/ ran'[c] # 0,
         dropped \subseteq dropped',
         NEW r \in Reqs, \A s \in Reqs : s # r => req'[s] = req[s],
         req[r].op \in Checkins =>
           \A c \in req[r].batch :
             \/ c \in todo' \cup dropped'
             \/ req'[r].op \in Checkins /\ c \in req'[r].batch
  PROVE  SentIsAccountedFor'
<1>1. \A s \in Reqs : req[s].op \in Checkins =>
        \A c \in req[s].batch : \/ c \in todo' \cup dropped'
                                \/ req'[s].op \in Checkins /\ c \in req'[s].batch
  OBVIOUS
<1> HIDE DEF Checkins
<1> QED BY <1>1, HandedOn

\* Only the exchange that changes has to be looked at.
LEMMA AnswersCarryAt ==
  ASSUME AnswersCarry, NEW r \in Reqs, \A s \in Reqs : s # r => req'[s] = req[s],
         req'[r].op \in Checkins /\ (req'[r].stage # "answered" \/ ~req'[r].ok)
           => req'[r].batch = {}
  PROVE  AnswersCarry'
BY DEF AnswersCarry

\* What one exchange may become.
LEMMA ExchangeForms ==
  ASSUME NEW x \in Exchange
  PROVE  /\ LET y == [x EXCEPT !.stage = "authed"]
            IN  y.op = x.op /\ y.batch = x.batch /\ y.stage = "authed"
         /\ LET y == [x EXCEPT !.stage = "answered"]
            IN  y.op = x.op /\ y.batch = x.batch /\ y.stage = "answered"
         /\ LET y == [x EXCEPT !.stage = "answered", !.ok = FALSE]
            IN  y.op = x.op /\ y.batch = x.batch /\ ~y.ok
         /\ LET y == [x EXCEPT !.waited = FALSE]
            IN  y.op = x.op /\ y.batch = x.batch /\ y.stage = x.stage
         /\ FreeSlot.op = "checkin" /\ FreeSlot.batch = {}
         /\ x.batch \subseteq Cmds
BY DEF Exchange, FreeSlot

\* The answer to a check-in carries its batch.
LEMMA AnswerForm ==
  ASSUME NEW x \in Exchange, NEW S \in SUBSET Cmds
  PROVE  LET y == [x EXCEPT !.stage = "answered", !.ok = TRUE, !.batch = S]
         IN  y.op = x.op /\ y.batch = S /\ y.stage = "answered" /\ y.ok
BY DEF Exchange

\* The agent's channel, the queue and the node's life touch no command on its way.
LEMMA ApartStep ==
  ASSUME Accounting, UNCHANGED <<status, req, ran, todo, dropped>>,
         todo # {} => phase' \in {"exec", "report"}
  PROVE  Accounting'
BY DEF Accounting, SentIsAccountedFor, AnswersCarry, BatchInWork

\* Queueing a command sends none.
LEMMA InsertAccounted ==
  ASSUME TypeOK, Accounting, NEW d \in Cmds, InsertCommand(d)
  PROVE  Accounting'
<1> USE DEF agentVars, history
<1>1. /\ UNCHANGED <<req, ran, todo, dropped, phase>>
      /\ status' = [status EXCEPT ![d] = "pending"]
  BY DEF InsertCommand, Queued
<1>2. SentIsAccountedFor' BY <1>1 DEF Accounting, SentIsAccountedFor, TypeOK
<1> QED BY <1>1, <1>2 DEF Accounting, AnswersCarry, BatchInWork

\* Looking up the token of a request sends no command.
LEMMA AuthenticateAccounted ==
  ASSUME TypeOK, Accounting, NEW r \in Reqs, Authenticate(r)
  PROVE  Accounting'
<1> USE DEF serverVars, agentVars, history
<1>1. req[r] \in Exchange /\ req[r].stage = "sent" BY DEF TypeOK, Authenticate
<1>2. UNCHANGED <<status, ran, todo, phase>> /\ dropped \subseteq dropped'
  BY DEF Authenticate
<1>3. \A s \in Reqs : s # r => req'[s] = req[s]
  BY DEF Authenticate, TypeOK
<1>4. \/ req'[r] = FreeSlot
      \/ req'[r].op = req[r].op /\ req'[r].batch = req[r].batch
  <2>1. \/ req'[r] = [req[r] EXCEPT !.stage = "authed"]
        \/ req'[r] = [req[r] EXCEPT !.stage = "answered", !.ok = FALSE]
        \/ req'[r] = FreeSlot
    BY DEF Authenticate, TypeOK
  <2> QED BY <1>1, <2>1, ExchangeForms
<1>5. req[r].op \in Checkins => req[r].batch = {}
  BY <1>1 DEF Accounting, AnswersCarry
<1>6. req'[r].op \in Checkins => req'[r].batch = {}
  BY <1>1, <1>4, <1>5, ExchangeForms
<1>7. SentIsAccountedFor' BY <1>2, <1>3, <1>5, HandedOnAt DEF Accounting
<1>8. AnswersCarry' BY <1>3, <1>6, AnswersCarryAt DEF Accounting
<1> QED BY <1>2, <1>7, <1>8 DEF Accounting, BatchInWork

\* The rows the transaction marks are those its answer, or its loss, takes over.
LEMMA CommitCheckinAccounted ==
  ASSUME TypeOK, Accounting, NEW r \in Reqs, CommitCheckin(r)
  PROVE  Accounting'
<1> USE DEF agentVars
<1>1. /\ req[r] \in Exchange /\ req[r].stage = "authed" /\ req[r].op \in Checkins
      /\ Pending \subseteq Cmds
  BY DEF CommitCheckin, TypeOK, Pending
<1>2. UNCHANGED <<ran, todo, phase>> BY DEF CommitCheckin
<1>3. \A s \in Reqs : s # r => req'[s] = req[s]
  BY DEF CommitCheckin, TypeOK
<1>4. req[r].batch = {} BY <1>1 DEF Accounting, AnswersCarry
<1>5. ASSUME req[r].waited
      PROVE  /\ req'[r].op \in Checkins /\ req'[r].batch = Pending
             /\ req'[r].stage = "answered" /\ req'[r].ok /\ dropped' = dropped
  <2>1. req'[r] = [req[r] EXCEPT !.stage = "answered", !.ok = TRUE, !.batch = Pending]
        /\ dropped' = dropped
    BY <1>5 DEF CommitCheckin, TypeOK
  <2> QED BY <1>1, <2>1, AnswerForm
<1>6. ASSUME ~req[r].waited
      PROVE  req'[r].batch = {} /\ dropped' = dropped \cup Pending
  BY <1>6, <1>1, ExchangeForms DEF CommitCheckin, TypeOK
<1>7. /\ dropped \subseteq dropped'
      /\ \/ req'[r].op \in Checkins /\ req'[r].batch = Pending
            /\ req'[r].stage = "answered" /\ req'[r].ok
         \/ req'[r].batch = {} /\ Pending \subseteq dropped'
  BY <1>5, <1>6
<1>8. \A c \in Cmds : status'[c] = "sent" => status[c] = "sent" \/ c \in Pending
  BY DEF CommitCheckin, MarkSent, Pending
<1>9. SentIsAccountedFor'
  <2> SUFFICES ASSUME NEW c \in Cmds, status'[c] = "sent", ran'[c] = 0
               PROVE  \/ c \in todo' \/ c \in dropped'
                      \/ \E s \in Reqs : req'[s].op \in Checkins /\ c \in req'[s].batch
    BY DEF SentIsAccountedFor
  <2>1. CASE c \in Pending BY <2>1, <1>7
  <2>2. CASE status[c] = "sent"
    <3>1. \/ c \in todo \/ c \in dropped
          \/ \E s \in Reqs : req[s].op \in Checkins /\ c \in req[s].batch
      BY <2>2, <1>2 DEF Accounting, SentIsAccountedFor
    <3> QED BY <3>1, <1>2, <1>3, <1>4, <1>7
  <2> QED BY <2>1, <2>2, <1>8
<1>10. AnswersCarry' BY <1>3, <1>7, AnswersCarryAt DEF Accounting
<1> QED BY <1>2, <1>9, <1>10 DEF Accounting, BatchInWork

\* A recorded result ends the wait for its command.
LEMMA CommitReportAccounted ==
  ASSUME TypeOK, Accounting, NEW r \in Reqs, CommitReport(r)
  PROVE  Accounting'
<1> USE DEF agentVars, history
<1>1. req[r] \in Exchange /\ req[r].op = "report" BY DEF CommitReport, TypeOK
<1>2. UNCHANGED <<ran, todo, phase, dropped>> BY DEF CommitReport
<1>3. \A s \in Reqs : s # r => req'[s] = req[s]
  BY DEF CommitReport, TypeOK
<1>4. \/ req'[r] = FreeSlot
      \/ req'[r].op = "report"
  BY <1>1, ExchangeForms DEF CommitReport, TypeOK
<1>5. \A c \in Cmds : status'[c] = "sent" => status[c] = "sent"
  BY DEF CommitReport, ResultStatus
<1>6. SentIsAccountedFor'
  BY <1>1, <1>2, <1>3, <1>5 DEF Accounting, SentIsAccountedFor
<1>7. AnswersCarry' BY <1>3, <1>4, ExchangeForms, AnswersCarryAt DEF Accounting, FreeSlot
<1> QED BY <1>2, <1>6, <1>7 DEF Accounting, BatchInWork

\* A new exchange takes a free slot, which carried nothing.
LEMMA SendAccounted ==
  ASSUME TypeOK, Accounting, NEW r \in Reqs, NEW kind \in Checkins \cup {"report"},
         NEW cmds, NEW verdict, Send(r, kind, cmds, verdict),
         kind \in Checkins => cmds = {}, UNCHANGED <<status, dropped>>,
         \A c \in Cmds : ran'[c] = 0 => ran[c] = 0,
         \A c \in todo : c \in todo' \/ ran'[c] # 0,
         BatchInWork'
  PROVE  Accounting'
<1>1. /\ req[r].stage = "free" /\ \A s \in Reqs : s # r => req'[s] = req[s]
      /\ req'[r].op = kind /\ req'[r].batch = cmds
  BY DEF Send, TypeOK
<1>2. req[r].op \in Checkins => req[r].batch = {}
  BY <1>1 DEF Accounting, AnswersCarry
<1>3. SentIsAccountedFor' BY <1>1, <1>2, HandedOnAt DEF Accounting
<1>4. AnswersCarry' BY <1>1, AnswersCarryAt DEF Accounting
<1> QED BY <1>3, <1>4 DEF Accounting

\* The answered exchange the agent reads is freed; its batch is taken or dropped.
LEMMA ReadAccounted ==
  ASSUME TypeOK, Accounting, NEW r \in Reqs, req' = [req EXCEPT ![r] = FreeSlot],
         UNCHANGED <<status, ran>>, todo \subseteq todo', dropped \subseteq dropped',
         req[r].op \in Checkins => req[r].batch \subseteq todo' \cup dropped',
         BatchInWork'
  PROVE  Accounting'
<1>1. req'[r] = FreeSlot /\ \A s \in Reqs : s # r => req'[s] = req[s]
  BY DEF TypeOK
<1>2. SentIsAccountedFor'
  BY <1>1, HandedOnAt DEF Accounting
<1>3. AnswersCarry' BY <1>1, AnswersCarryAt DEF Accounting, FreeSlot
<1> QED BY <1>2, <1>3 DEF Accounting

\* What becomes of an exchange the agent stops waiting for.
LEMMA AbandonedExchange ==
  ASSUME TypeOK, AnswersCarry, NEW r \in Reqs, NEW arrived
  PROVE  /\ req[r].op \in Checkins => LostWith(r, arrived) = req[r].batch
         /\ Abandon(r, arrived).op \in Checkins => Abandon(r, arrived).batch = {}
<1>1. req[r] \in Exchange BY DEF TypeOK
<1>2. req[r].op \in Checkins /\ req[r].stage \in {"sent", "authed"} => req[r].batch = {}
  BY DEF AnswersCarry
<1> QED BY <1>1, <1>2, ExchangeForms DEF LostWith, Abandon

\* An exchange that fails counts its batch as lost.
LEMMA ExchangeFailsAccounted ==
  ASSUME TypeOK, Accounting, Waiting, NEW r \in Reqs, ExchangeFails(r)
  PROVE  Accounting'
<1> USE DEF serverVars, pushVars
<1>1. PICK arrived \in BOOLEAN :
        /\ req' = [req EXCEPT ![r] = Abandon(r, arrived)]
        /\ dropped' = dropped \cup LostWith(r, arrived)
  BY DEF ExchangeFails
<1>2. /\ UNCHANGED <<status, ran, todo>> /\ phase' = AfterFailure
      /\ phase \in {"checkin", "refresh", "report"}
  BY DEF ExchangeFails, Waiting, TypeOK, Exchange
<1>3. req'[r] = Abandon(r, arrived) /\ \A s \in Reqs : s # r => req'[s] = req[s]
  BY <1>1 DEF TypeOK
<1>4. AnswersCarry BY DEF Accounting
<1>5. SentIsAccountedFor'
  <2>1. req[r].op \in Checkins => \A c \in req[r].batch : c \in dropped'
    BY <1>1, <1>4, AbandonedExchange
  <2> QED BY <1>1, <1>2, <1>3, <2>1, HandedOnAt DEF Accounting
<1>6. AnswersCarry'
  BY <1>3, <1>4, AbandonedExchange, AnswersCarryAt
<1>7. BatchInWork' BY <1>2 DEF Accounting, BatchInWork, AfterFailure
<1> QED BY <1>5, <1>6, <1>7 DEF Accounting

\* The end of the process counts the agent's batch as lost.
LEMMA DieAccounted ==
  ASSUME TypeOK, Accounting, Die
  PROVE  Accounting'
<1> USE DEF serverVars
<1>1. PICK arrived \in [Reqs -> BOOLEAN] :
        /\ req' = [r \in Reqs |-> IF req[r].waited THEN Abandon(r, arrived[r])
                                                   ELSE req[r]]
        /\ dropped' = dropped \cup todo \cup
                      UNION {LostWith(r, arrived[r]) :
                               r \in {s \in Reqs : req[s].waited}}
  BY DEF Die
<1>2. UNCHANGED <<status, ran>> /\ todo' = {} BY DEF Die
<1>3. AnswersCarry BY DEF Accounting
<1>4. ASSUME NEW r \in Reqs, req[r].op \in Checkins, NEW c \in req[r].batch
      PROVE  c \in dropped' \/ (req'[r].op \in Checkins /\ c \in req'[r].batch)
  <2>1. CASE req[r].waited
    <3>1. c \in LostWith(r, arrived[r]) BY <1>3, <1>4, AbandonedExchange
    <3> QED BY <1>1, <2>1, <3>1
  <2>2. CASE ~req[r].waited BY <1>1, <1>4, <2>2
  <2> QED BY <2>1, <2>2
<1>5. dropped \subseteq dropped' /\ \A c \in todo : c \in dropped'
  BY <1>1
<1>6. SentIsAccountedFor'
  BY <1>2, <1>4, <1>5, HandedOn DEF Accounting
<1>7. AnswersCarry'
  <2> SUFFICES ASSUME NEW r \in Reqs, req'[r].op \in Checkins,
                      req'[r].stage # "answered" \/ ~req'[r].ok
               PROVE  req'[r].batch = {}
    BY DEF AnswersCarry
  <2>1. CASE req[r].waited BY <1>1, <1>3, <2>1, AbandonedExchange
  <2>2. CASE ~req[r].waited BY <1>1, <1>3, <2>2 DEF AnswersCarry
  <2> QED BY <2>1, <2>2
<1> QED BY <1>2, <1>6, <1>7 DEF Accounting, BatchInWork

\* Every step accounts for the commands it moves.
LEMMA AccountingStep == IInv /\ Accounting /\ [Next]_vars => Accounting'
<1> SUFFICES ASSUME IInv, Accounting, [Next]_vars PROVE Accounting'
  OBVIOUS
<1> USE DEF serverVars, agentVars, pushVars, history
<1>1. TypeOK /\ Waiting BY DEF IInv, CustodyInv
<1>2. BatchInWork /\ AnswersCarry BY DEF Accounting
<1>3. ASSUME NEW c \in Cmds, CheckNodeActive(c) PROVE Accounting'
  BY <1>2, <1>3, ApartStep DEF CheckNodeActive, BatchInWork
<1>4. ASSUME NEW c \in Cmds, InsertCommand(c) PROVE Accounting'
  BY <1>1, <1>4, InsertAccounted
<1>5. CASE CheckinNow \/ Decommission \/ Reenroll \/ InstallerRestart \/ NudgeArrives
  BY <1>2, <1>5, ApartStep
  DEF CheckinNow, Decommission, Reenroll, InstallerRestart, NudgeArrives, BatchInWork
<1>6. CASE Restart \/ EndBatch
  BY <1>2, <1>6, ApartStep DEF Restart, EndBatch, BatchInWork
<1>7. ASSUME NEW r \in Reqs, ServerStep(r) PROVE Accounting'
  BY <1>1, <1>7, AuthenticateAccounted, CommitCheckinAccounted, CommitReportAccounted
  DEF ServerStep
<1>8. ASSUME NEW r \in Reqs, TimerCheckin(r) \/ NudgedCheckin(r) PROVE Accounting'
  <2>1. /\ Send(r, "checkin", {}, FALSE) /\ phase = "idle"
        /\ UNCHANGED <<status, dropped, ran, todo>>
    BY <1>8 DEF TimerCheckin, NudgedCheckin, StartCheckin
  <2>2. BatchInWork' BY <1>2, <2>1 DEF BatchInWork
  <2> QED BY <1>1, <2>1, <2>2, SendAccounted
<1>9. ASSUME NEW r \in Reqs, StartRefresh(r) PROVE Accounting'
  <2>1. /\ Send(r, "refresh", {}, FALSE) /\ todo = {}
        /\ UNCHANGED <<status, dropped, ran, todo>>
    BY <1>9 DEF StartRefresh
  <2>2. BatchInWork' BY <2>1 DEF BatchInWork
  <2> QED BY <1>1, <2>1, <2>2, SendAccounted
<1>10. ASSUME NEW r \in Reqs, TakeBatch(r) PROVE Accounting'
  <2>1. /\ req' = [req EXCEPT ![r] = FreeSlot] /\ UNCHANGED <<status, ran, dropped>>
        /\ todo' = req[r].batch /\ phase' = IF req[r].ok THEN "exec" ELSE "idle"
        /\ phase = "checkin"
    BY <1>10 DEF TakeBatch
  <2>2. req[r].op = "checkin" BY <1>1, <1>10 DEF TakeBatch, Waiting
  <2>3. todo = {} BY <1>2, <2>1 DEF BatchInWork
  <2>4. ~req[r].ok => req[r].batch = {} BY <1>2, <2>2 DEF AnswersCarry
  <2>5. BatchInWork' BY <2>1, <2>4 DEF BatchInWork
  <2> QED BY <1>1, <2>1, <2>3, <2>5, ReadAccounted
<1>11. ASSUME NEW r \in Reqs, ReportAnswered(r) PROVE Accounting'
  <2>1. /\ req' = [req EXCEPT ![r] = FreeSlot]
        /\ UNCHANGED <<status, ran, dropped, todo>> /\ phase' = "exec"
    BY <1>11 DEF ReportAnswered
  <2>2. req[r].op = "report" BY <1>1, <1>11 DEF ReportAnswered, Waiting
  <2>3. BatchInWork' BY <2>1 DEF BatchInWork
  <2> QED BY <1>1, <2>1, <2>2, <2>3, ReadAccounted
<1>12. ASSUME NEW r \in Reqs, RefreshAnswered(r) PROVE Accounting'
  <2>1. /\ req' = [req EXCEPT ![r] = FreeSlot] /\ UNCHANGED <<status, ran, todo>>
        /\ dropped' = dropped \cup req[r].batch /\ phase = "refresh"
    BY <1>12 DEF RefreshAnswered
  <2>2. BatchInWork' BY <1>2, <2>1 DEF BatchInWork
  <2> QED BY <1>1, <2>1, <2>2, ReadAccounted
<1>13. ASSUME NEW r \in Reqs, NEW c \in Cmds, Execute(c, r) PROVE Accounting'
  <2>1. PICK verdict \in BOOLEAN : Send(r, "report", {c}, verdict)
    BY <1>13 DEF Execute, UpdateRestarts
  <2>2. /\ UNCHANGED <<status, dropped>> /\ phase' = "report"
        /\ todo' = todo \ {c} /\ ran' = [ran EXCEPT ![c] = @ + 1]
    BY <1>13 DEF Execute, UpdateRestarts
  <2>3. ran[c] \in Nat /\ ran'[c] = ran[c] + 1 /\ \A d \in Cmds : d # c => ran'[d] = ran[d]
    BY <1>1, <2>2 DEF TypeOK
  <2>4. \A d \in Cmds : ran'[d] = 0 => ran[d] = 0 BY <2>3
  <2>5. \A d \in todo : d \in todo' \/ ran'[d] # 0 BY <2>2, <2>3
  <2>6. BatchInWork' BY <2>2 DEF BatchInWork
  <2> QED BY <1>1, <2>1, <2>2, <2>4, <2>5, <2>6, SendAccounted
<1>14. ASSUME NEW r \in Reqs, ExchangeFails(r) PROVE Accounting'
  BY <1>1, <1>14, ExchangeFailsAccounted
<1>15. CASE Crash \/ StopLoop
  BY <1>1, <1>15, DieAccounted DEF Crash, StopLoop
<1>16. CASE UNCHANGED vars
  BY <1>2, <1>16, ApartStep DEF vars, BatchInWork
<1> QED
  BY <1>3, <1>4, <1>5, <1>6, <1>7, <1>8, <1>9, <1>10, <1>11, <1>12, <1>13, <1>14,
     <1>15, <1>16
  DEF Next, AgentStep

\* Whatever is lost, a command marked sent has run, is on its way, or was
\* dropped by a fault the model names: no other path forgets one.
THEOREM SentAccounted == Spec => []SentIsAccountedFor
<1>1. Init => Accounting
  BY DEF Init, FreeSlot, Accounting, SentIsAccountedFor, AnswersCarry, BatchInWork
<1>2. IInv /\ Accounting /\ [Next]_vars => Accounting'
  BY AccountingStep
<1>3. Accounting => SentIsAccountedFor BY DEF Accounting
<1> QED BY <1>1, <1>2, <1>3, Invariance, PTL DEF Spec

-----------------------------------------------------------------------------
(* The results *)

\* No command is executed twice, over any run of lost answers and restarts.
THEOREM ExecutedAtMostOnce == Spec => []AtMostOnce
<1>1. ASSUME IInv PROVE AtMostOnce
  <2>1. Counted /\ ran \in [Cmds -> Nat] BY <1>1 DEF IInv, CustodyInv, TypeOK
  <2>2. ASSUME NEW c \in Cmds PROVE ran[c] <= 1
    BY <2>1 DEF Counted
  <2> QED BY <2>2 DEF AtMostOnce
<1> QED BY <1>1, Invariance, PTL

\* A recorded result was produced by a run, and a run follows a hand-out.
THEOREM RecordedAfterRun == Spec => []NoResultWithoutRun
<1>1. ASSUME IInv PROVE NoResultWithoutRun
  <2>1. Counted /\ ran \in [Cmds -> Nat] BY <1>1 DEF IInv, CustodyInv, TypeOK
  <2>2. ASSUME NEW c \in Cmds, status[c] \in Recorded PROVE ran[c] > 0
    BY <2>1, <2>2 DEF Counted
  <2>3. ASSUME NEW c \in Cmds, ran[c] > 0 PROVE status[c] \notin {"absent", "pending"}
    BY <2>1, <2>3 DEF Counted
  <2> QED BY <2>2, <2>3 DEF NoResultWithoutRun
<1> QED BY <1>1, Invariance, PTL

\* What a step may do to one status.
LEMMA StatusStep ==
  ASSUME IInv, [Next]_vars, NEW c \in Cmds
  PROVE  \/ status'[c] = status[c]
         \/ status[c] = "absent" /\ status'[c] = "pending"
         \/ status[c] = "pending" /\ status'[c] = "sent"
         \/ status[c] = "sent" /\ status'[c] \in Recorded
<1> USE DEF serverVars, agentVars, pushVars, history
<1>1. ASSUME NEW d \in Cmds, InsertCommand(d) PROVE status[d] = "absent"
  BY <1>1 DEF InsertCommand, Queued, IInv, CustodyInv, Absent
<1>2. ASSUME NEW r \in Reqs, CommitReport(r), c \in req[r].batch
      PROVE  status[c] = "sent"
  BY <1>2 DEF CommitReport, IInv, CustodyInv, Held, Holds
<1>3. CASE \E d \in Cmds : InsertCommand(d)
  BY <1>1, <1>3 DEF InsertCommand, Queued, IInv, CustodyInv, TypeOK
<1>4. CASE \E r \in Reqs : CommitCheckin(r)
  BY <1>4 DEF CommitCheckin, MarkSent
<1>5. CASE \E r \in Reqs : CommitReport(r)
  BY <1>2, <1>5 DEF CommitReport, ResultStatus
<1>6. CASE UNCHANGED status
  BY <1>6
<1>7. \/ \E d \in Cmds : InsertCommand(d)
      \/ \E r \in Reqs : CommitCheckin(r) \/ CommitReport(r)
      \/ UNCHANGED status
  BY DEF Next, ServerStep, AgentStep, vars, CheckNodeActive, CheckinNow, Decommission,
         Reenroll, Authenticate, TimerCheckin, NudgedCheckin, StartCheckin, TakeBatch,
         Execute, UpdateRestarts, ReportAnswered, EndBatch, StartRefresh, RefreshAnswered, NudgeArrives,
         ExchangeFails, Crash, InstallerRestart, StopLoop, Die, Restart
<1> QED BY <1>3, <1>4, <1>5, <1>6, <1>7

\* commands.status never goes back and a recorded result is final.
THEOREM StatusAdvances == Spec => StatusOnlyAdvances
<1>1. IInv /\ [Next]_vars =>
        [\A c \in Cmds : \/ status'[c] = status[c]
                         \/ Order(status'[c]) > Order(status[c])]_vars
  BY StatusStep DEF Order
<1> QED BY <1>1, Invariance, PTL DEF Spec, StatusOnlyAdvances

-----------------------------------------------------------------------------
(* Refinement of CommandContract *)

\* A step that leaves statuses and runs alone is invisible to the contract.
LEMMA Invisible ==
  ASSUME UNCHANGED <<status, ran>>
  PROVE  UNCHANGED Contract!vars
BY DEF Contract!vars, Life

\* Inserting the row queues the command in the contract.
LEMMA QueueRefined ==
  ASSUME IInv, NEW c \in Cmds, InsertCommand(c)
  PROVE  Contract!Queue(c)
<1>1. /\ status[c] = "absent" /\ status \in [Cmds -> {"absent", "pending", "sent"} \cup Recorded]
      /\ status' = [status EXCEPT ![c] = "pending"] /\ ran' = ran
  BY DEF InsertCommand, Queued, IInv, CustodyInv, Absent, TypeOK, history
<1> QED BY <1>1 DEF Contract!Queue, Life

\* A check-in takes all that is queued, or nothing if nothing is.
LEMMA TakeRefined ==
  ASSUME IInv, NEW r \in Reqs, CommitCheckin(r)
  PROVE  Contract!TakeAll \/ UNCHANGED Contract!vars
<1>1. /\ status \in [Cmds -> {"absent", "pending", "sent"} \cup Recorded]
      /\ status' = [c \in Cmds |-> IF status[c] = "pending" THEN "sent" ELSE status[c]]
      /\ ran' = ran
  BY DEF CommitCheckin, MarkSent, IInv, CustodyInv, TypeOK
<1>2. ASSUME NEW c \in Cmds, status[c] = "pending" PROVE ran[c] = 0
  BY <1>2 DEF IInv, CustodyInv, Counted
<1>3. CASE \E c \in Cmds : status[c] = "pending"
  <2>1. \E c \in Cmds : Life(c) = "queued"
    BY <1>3 DEF Life
  <2>2. \A c \in Cmds : Life(c)' = IF Life(c) = "queued" THEN "taken" ELSE Life(c)
    BY <1>1, <1>2 DEF Life
  <2> QED BY <1>1, <2>1, <2>2 DEF Contract!TakeAll
<1>4. CASE ~\E c \in Cmds : status[c] = "pending"
  <2>1. status' = status BY <1>1, <1>4
  <2> QED BY <1>1, <2>1, Invisible
<1> QED BY <1>3, <1>4

\* Executing a command is a run of the contract.
LEMMA RunRefined ==
  ASSUME IInv, NEW r \in Reqs, NEW c \in Cmds, Execute(c, r)
  PROVE  Contract!Run(c)
<1>1. /\ status[c] = "sent" /\ ran[c] = 0 /\ ran \in [Cmds -> Nat]
      /\ status' = status /\ ran' = [ran EXCEPT ![c] = @ + 1]
  BY DEF Execute, UpdateRestarts, IInv, CustodyInv, Batch, TypeOK, serverVars
<1>2. \A d \in Cmds : Life(d)' = IF d = c THEN "run" ELSE Life(d)
  BY <1>1 DEF Life
<1>3. Life(c) = "taken"
  BY <1>1 DEF Life
<1> QED BY <1>1, <1>2, <1>3 DEF Contract!Run

\* Committing a report records a result in the contract.
LEMMA RecordRefined ==
  ASSUME IInv, NEW r \in Reqs, CommitReport(r)
  PROVE  \E c \in Cmds : Contract!Record(c)
<1>1. PICK c \in Cmds : req[r].batch = {c}
  BY DEF CommitReport, IInv, CustodyInv, OneEach
<1>2. status[c] = "sent" /\ ran[c] = 1
  BY <1>1 DEF CommitReport, Holds, IInv, CustodyInv, Held
<1>3. /\ status'[c] \in Recorded /\ ran' = ran
      /\ \A d \in Cmds : d # c => status'[d] = status[d]
  BY <1>1 DEF CommitReport, ResultStatus, history
<1>4. \A d \in Cmds : Life(d)' = IF d = c THEN "recorded" ELSE Life(d)
  BY <1>2, <1>3 DEF Life
<1>5. Life(c) = "run"
  BY <1>2 DEF Life
<1>6. Contract!Record(c)
  BY <1>3, <1>4, <1>5 DEF Contract!Record
<1> QED BY <1>6

\* The pipeline implements the contract: nothing a lost answer, a dead agent or
\* a revoked token does is visible as anything but a command that stays put.
THEOREM ImplementsContract == Spec => KeepsContract
<1>1. Init => Contract!Init
  BY DEF Init, Contract!Init, Life
<1>2. IInv /\ [Next]_vars => [Contract!Next]_(Contract!vars)
  <2> SUFFICES ASSUME IInv, [Next]_vars PROVE [Contract!Next]_(Contract!vars)
    OBVIOUS
  <2> USE DEF serverVars, agentVars, pushVars, history
  <2>1. ASSUME NEW c \in Cmds, InsertCommand(c) PROVE [Contract!Next]_(Contract!vars)
    BY <2>1, QueueRefined DEF Contract!Next
  <2>2. ASSUME NEW r \in Reqs, CommitCheckin(r) PROVE [Contract!Next]_(Contract!vars)
    BY <2>2, TakeRefined DEF Contract!Next
  <2>3. ASSUME NEW r \in Reqs, NEW c \in Cmds, Execute(c, r)
        PROVE  [Contract!Next]_(Contract!vars)
    BY <2>3, RunRefined DEF Contract!Next
  <2>4. ASSUME NEW r \in Reqs, CommitReport(r) PROVE [Contract!Next]_(Contract!vars)
    BY <2>4, RecordRefined DEF Contract!Next
  <2>5. CASE UNCHANGED <<status, ran>>
    BY <2>5, Invisible
  <2>6. \/ \E c \in Cmds : InsertCommand(c)
        \/ \E r \in Reqs : CommitCheckin(r) \/ CommitReport(r)
        \/ \E r \in Reqs, c \in Cmds : Execute(c, r)
        \/ UNCHANGED <<status, ran>>
    BY DEF Next, ServerStep, AgentStep, vars, CheckNodeActive, CheckinNow, Decommission,
           Reenroll, Authenticate, TimerCheckin, NudgedCheckin, StartCheckin, TakeBatch,
           ReportAnswered, EndBatch, StartRefresh, RefreshAnswered, NudgeArrives,
           ExchangeFails, Crash, InstallerRestart, StopLoop, Die, Restart
  <2> QED BY <2>1, <2>2, <2>3, <2>4, <2>5, <2>6
<1> QED BY <1>1, <1>2, Invariance, PTL DEF Spec, KeepsContract, Contract!Spec
=============================================================================
