--------------------------- MODULE Enrollment_proofs ---------------------------
(***************************************************************************)
(* Proofs about Enrollment, for any machines, tokens, limits and attempts: *)
(* typing, single use, one current credential per node, one row per UUID.  *)
(*                                                                         *)
(* Types makes UUIDs and machines of attempts that are under way known.    *)
(* Each safety property is inductive next to it; the transactions only     *)
(* have to be looked at where they write.                                  *)
(***************************************************************************)
EXTENDS Enrollment, TLAPS

\* An attempt under way knows its machine, its token and its UUID.
Named ==
    \A a \in Attempts : attempt[a].at \notin {"new", "refused"} =>
        attempt[a].machine \in Machines /\ attempt[a].token \in Tokens /\ attempt[a].uuid \in Attempts

\* A check-in handler knows its node.
Visiting == \A m \in Machines : checkin[m].busy => checkin[m].node \in Attempts

\* What is on disk, and what a process has loaded, was saved by an installer.
Delivered == {a \in Attempts : attempt[a].at \in {"saved", "installed"}}
Saved == \A m \in Machines : config[m] # None => config[m] \in Delivered
Loaded == \A m \in Machines : agent[m].creds # None => agent[m].creds \in Delivered

Types == TypeOK /\ Named /\ Visiting /\ Saved /\ Loaded
-----------------------------------------------------------------------------
\* The shape of the records

\* Rows, attempts and handlers that are not used yet have their types.
LEMMA Fresh == NoToken \in TokenRow /\ NoNode \in NodeRow /\ NoAttempt \in AttemptRecord /\ Idle \in Handler
BY DEF NoToken, NoNode, NoAttempt, Idle, TokenRow, NodeRow, AttemptRecord, Handler

\* A token row keeps its type when one of its columns is written.
LEMMA TokenWrites ==
    ASSUME NEW x \in TokenRow, NEW k \in Nat
    PROVE  /\ [x EXCEPT !.state = "row"] \in TokenRow /\ [x EXCEPT !.used = k] \in TokenRow
           /\ [x EXCEPT !.revoked = TRUE] \in TokenRow /\ [x EXCEPT !.expired = TRUE] \in TokenRow
           /\ [NoToken EXCEPT !.state = "gone"] \in TokenRow
BY DEF TokenRow, NoToken

\* A node row keeps its type when enrol, check-in or decommission write it.
LEMMA NodeWrites ==
    ASSUME NEW x \in NodeRow, NEW a \in Attempts, NEW u \in Attempts, NEW t \in Tokens,
           NEW m \in Machines
    PROVE  /\ [x EXCEPT !.token = None] \in NodeRow
           /\ [x EXCEPT !.row = TRUE, !.uuid = u, !.active = TRUE, !.token = t, !.secret = a] \in NodeRow
           /\ [x EXCEPT !.serial = Serial[m]] \in NodeRow
           /\ [x EXCEPT !.active = FALSE, !.secret = None] \in NodeRow
BY DEF NodeRow

\* The nodes without their references to a token are still nodes.
LEMMA WithoutType ==
    ASSUME NEW t, NEW f \in [Attempts -> NodeRow]
    PROVE  Without(t, f) \in [Attempts -> NodeRow]
<1>1. \A n \in Attempts : [f[n] EXCEPT !.token = None] \in NodeRow
  BY DEF NodeRow
<1> QED BY <1>1 DEF Without

\* ... and differ in nothing else.
LEMMA WithoutKeeps ==
    ASSUME NEW t, NEW f \in [Attempts -> NodeRow], NEW n \in Attempts
    PROVE  LET g == Without(t, f)[n] IN
           /\ g.row = f[n].row /\ g.uuid = f[n].uuid /\ g.active = f[n].active
           /\ g.secret = f[n].secret /\ g.serial = f[n].serial
BY DEF Without, NodeRow

\* Deleting a token leaves a table of tokens.
LEMMA DeletedType ==
    ASSUME token \in [Tokens -> TokenRow], NEW t \in Tokens
    PROVE  Deleted(t) \in [Tokens -> TokenRow]
BY TokenWrites DEF Deleted, NoToken, TokenRow

\* An attempt keeps its type when it moves on.
LEMMA AttemptWrites ==
    ASSUME NEW x \in AttemptRecord, NEW n \in Attempts \union {None}, NEW k \in Nat,
           NEW p \in {"sent", "accepted", "found", "committed", "saved", "installed", "refused"},
           NEW m \in Machines, NEW t \in Tokens, NEW u \in Attempts
    PROVE  /\ [x EXCEPT !.waiting = FALSE] \in AttemptRecord
           /\ [x EXCEPT !.at = p, !.count = k] \in AttemptRecord
           /\ [x EXCEPT !.at = p, !.target = n] \in AttemptRecord
           /\ [x EXCEPT !.at = p] \in AttemptRecord
           /\ [x EXCEPT !.at = p, !.waiting = FALSE] \in AttemptRecord
           /\ [NoAttempt EXCEPT !.at = "refused"] \in AttemptRecord
           /\ [NoAttempt EXCEPT !.at = "sent", !.waiting = TRUE, !.machine = m, !.token = t,
                                !.uuid = u] \in AttemptRecord
<1>1. [x EXCEPT !.waiting = FALSE] \in AttemptRecord
  BY DEF AttemptRecord
<1>2. [x EXCEPT !.at = p, !.count = k] \in AttemptRecord
  BY DEF AttemptRecord
<1>3. [x EXCEPT !.at = p, !.target = n] \in AttemptRecord
  BY DEF AttemptRecord
<1>4. [x EXCEPT !.at = p] \in AttemptRecord
  BY DEF AttemptRecord
<1>5. [x EXCEPT !.at = p, !.waiting = FALSE] \in AttemptRecord
  BY DEF AttemptRecord
<1>6. [NoAttempt EXCEPT !.at = "refused"] \in AttemptRecord
  BY DEF AttemptRecord, NoAttempt
<1>7. [NoAttempt EXCEPT !.at = "sent", !.waiting = TRUE, !.machine = m, !.token = t, !.uuid = u]
        \in AttemptRecord
  BY DEF AttemptRecord, NoAttempt
<1> QED BY <1>1, <1>2, <1>3, <1>4, <1>5, <1>6, <1>7
-----------------------------------------------------------------------------
\* Typing

\* Administering tokens keeps the types.
LEMMA TokenTypes ==
    ASSUME Types, NEW t \in Tokens, TokenStep(t)
    PROVE  Types'
<1>1. CASE CreateToken(t) \/ RotateToken(t) \/ RevokeToken(t) \/ Expire(t)
  <2>0. /\ [token[t] EXCEPT !.state = "row"] \in TokenRow /\ [token[t] EXCEPT !.used = 0] \in TokenRow
        /\ [token[t] EXCEPT !.revoked = TRUE] \in TokenRow
        /\ [token[t] EXCEPT !.expired = TRUE] \in TokenRow
    BY TokenWrites DEF Types, TypeOK
  <2>1. token' \in [Tokens -> TokenRow]
    BY <1>1, <2>0 DEF CreateToken, RotateToken, RevokeToken, Expire, Types, TypeOK
  <2> QED BY <1>1, <2>1 DEF CreateToken, RotateToken, RevokeToken, Expire, Types, TypeOK,
             Named, Visiting, Saved, Loaded, Delivered
<1>2. CASE DeleteToken(t) \/ CleanupToken(t)
  <2>1. token' \in [Tokens -> TokenRow]
    BY <1>2, DeletedType DEF DeleteToken, CleanupToken, Types, TypeOK
  <2>2. node' \in [Attempts -> NodeRow]
    BY <1>2, WithoutType DEF DeleteToken, CleanupToken, Types, TypeOK
  <2> QED BY <1>2, <2>1, <2>2 DEF DeleteToken, CleanupToken, Types, TypeOK,
             Named, Visiting, Saved, Loaded, Delivered
<1> QED BY <1>1, <1>2 DEF TokenStep

\* Decommissioning and deleting a node keep the types.
LEMMA NodeTypes ==
    ASSUME Types, NEW n \in Attempts, Decommission(n) \/ DeleteNode(n)
    PROVE  Types'
<1>1. [node[n] EXCEPT !.active = FALSE, !.secret = None] \in NodeRow
  BY DEF Types, TypeOK, NodeRow
<1>2. node' \in [Attempts -> NodeRow]
  BY <1>1, Fresh DEF Decommission, DeleteNode, Types, TypeOK
<1>3. agentToken' \in [Attempts -> Attempts \union {None}]
  BY DEF Decommission, DeleteNode, Types, TypeOK
<1> QED BY <1>2, <1>3 DEF Decommission, DeleteNode, Types, TypeOK,
           Named, Visiting, Saved, Loaded, Delivered

\* An installer that starts is given the UUID on disk or one of its own.
LEMMA InstallTypes ==
    ASSUME Types, NEW a \in Attempts, NEW m \in Machines, NEW t \in Tokens, Install(a, m, t)
    PROVE  Types'
<1> DEFINE u == IF config[m] = None THEN a ELSE attempt[config[m]].uuid
           r == [NoAttempt EXCEPT !.at = "sent", !.waiting = TRUE, !.machine = m, !.token = t, !.uuid = u]
<1>1. u \in Attempts
  BY DEF Types, Saved, Named, Delivered
<1> HIDE DEF u
<1>2. r \in AttemptRecord
  BY <1>1 DEF NoAttempt, AttemptRecord
<1>3. r.machine = m /\ r.token = t /\ r.uuid = u
  BY DEF NoAttempt
<1>4. attempt' = [attempt EXCEPT ![a] = r] /\ attempt[a].at = "new"
  BY DEF Install, u
<1>5. UNCHANGED <<token, node, agentToken, config, agent, checkin, speedtests>>
  BY DEF Install
<1> HIDE DEF r
<1> QED BY <1>1, <1>2, <1>3, <1>4, <1>5 DEF Types, TypeOK, Named, Visiting, Saved, Loaded, Delivered

\* The steps of an installer and its handler that write no table keep the types.
LEMMA ReadTypes ==
    ASSUME Types, NEW a \in Attempts,
           GiveUp(a) \/ ReadToken(a) \/ FindNode(a) \/ EnrollFails(a)
    PROVE  Types'
<1>1. attempt[a] \in AttemptRecord
  BY DEF Types, TypeOK
<1>2. UNCHANGED <<token, node, agentToken, config, agent, checkin, speedtests>>
  BY DEF GiveUp, ReadToken, FindNode, EnrollFails
<1>3. CASE GiveUp(a)
  <2>1. [attempt[a] EXCEPT !.waiting = FALSE] \in AttemptRecord
    BY <1>1 DEF AttemptRecord
  <2> QED BY <1>1, <1>2, <1>3, <2>1 DEF GiveUp, Types, TypeOK, Named, Visiting, Saved, Loaded,
             Delivered, AttemptRecord
<1>4. CASE attempt[a].at \in {"sent", "accepted", "found"} /\ Refuse(a)
  <2>1. [NoAttempt EXCEPT !.at = "refused"] \in AttemptRecord
    BY DEF NoAttempt, AttemptRecord
  <2> QED BY <1>2, <1>4, <2>1 DEF Refuse, NoAttempt, Types, TypeOK, Named, Visiting, Saved, Loaded,
             Delivered
<1>5. CASE /\ attempt[a].at = "sent" /\ Usable(attempt[a].token)
           /\ attempt' = [attempt EXCEPT ![a].at = "accepted",
                                         ![a].count = token[attempt[a].token].used]
  <2>1. attempt[a].token \in Tokens
    BY <1>5 DEF Types, Named
  <2>2. token[attempt[a].token].used \in Nat
    BY <2>1 DEF Types, TypeOK, TokenRow
  <2>3. [attempt[a] EXCEPT !.at = "accepted", !.count = token[attempt[a].token].used] \in AttemptRecord
    BY <1>1, <2>2 DEF AttemptRecord
  <2> QED BY <1>1, <1>2, <1>5, <2>3 DEF Types, TypeOK, Named, Visiting, Saved, Loaded,
             Delivered, AttemptRecord
<1>6. CASE FindNode(a)
  <2>1. PICK n \in Attempts \union {None} :
          attempt' = [attempt EXCEPT ![a].at = "found", ![a].target = n]
    BY <1>6 DEF FindNode, Matches, ByUuid, BySerial
  <2>2. [attempt[a] EXCEPT !.at = "found", !.target = n] \in AttemptRecord
    BY <1>1 DEF AttemptRecord
  <2>3. attempt[a].at = "accepted"
    BY <1>6 DEF FindNode
  <2> QED BY <1>1, <1>2, <2>1, <2>2, <2>3 DEF Types, TypeOK, Named, Visiting, Saved, Loaded,
             Delivered, AttemptRecord
<1> QED BY <1>3, <1>4, <1>5, <1>6 DEF ReadToken, EnrollFails

\* What an enrolment that found its rows writes is typed.
LEMMA CommitTypes ==
    ASSUME Types, NEW a \in Attempts, EnrollCommit(a)
    PROVE  Types'
<1> DEFINE t == attempt[a].token
<1>1. /\ attempt[a] \in AttemptRecord /\ attempt[a].at = "found"
      /\ t \in Tokens /\ attempt[a].uuid \in Attempts /\ Written(a) \in Attempts
  BY DEF EnrollCommit, Types, TypeOK, Named, AttemptRecord, Written
<1>2. Enrolled(a) \in [Attempts -> NodeRow]
  <2>1. node[Written(a)] \in NodeRow
    BY <1>1 DEF Types, TypeOK
  <2>2. [node[Written(a)] EXCEPT !.row = TRUE, !.uuid = attempt[a].uuid, !.active = TRUE,
                                 !.token = attempt[a].token, !.secret = a] \in NodeRow
    BY <1>1, <2>1 DEF NodeRow
  <2> QED BY <1>1, <2>2 DEF Enrolled, Types, TypeOK
<1>3. node' \in [Attempts -> NodeRow]
  BY <1>2, WithoutType DEF EnrollCommit
<1>4. token' \in [Tokens -> TokenRow]
  <2>1. [token[t] EXCEPT !.used = attempt[a].count + 1] \in TokenRow
    <3>1. token[t] \in TokenRow /\ attempt[a].count + 1 \in Nat
      BY <1>1 DEF Types, TypeOK, AttemptRecord
    <3> QED BY <3>1 DEF TokenRow
  <2>2. Counted(a) \in [Tokens -> TokenRow]
    BY <1>1, <2>1 DEF Counted, Types, TypeOK
  <2> QED BY <1>1, <2>2, DeletedType DEF EnrollCommit, Types, TypeOK
<1>5. agentToken' \in [Attempts -> Attempts \union {None}]
  BY <1>1 DEF EnrollCommit, Issued, Types, TypeOK
<1>6. [attempt[a] EXCEPT !.at = "committed", !.count = 0] \in AttemptRecord
  BY <1>1 DEF AttemptRecord
<1>7. /\ attempt' = [attempt EXCEPT ![a].at = "committed", ![a].count = 0]
      /\ UNCHANGED <<config, agent, checkin, speedtests>>
  BY DEF EnrollCommit
<1> QED BY <1>1, <1>3, <1>4, <1>5, <1>6, <1>7 DEF Types, TypeOK, Named, Visiting, Saved, Loaded,
           Delivered, AttemptRecord

\* Saving a config and restarting the service hand an attempt on.
LEMMA DeliverTypes ==
    ASSUME Types, NEW a \in Attempts, SaveConfig(a) \/ RestartService(a)
    PROVE  Types'
<1>1. attempt[a] \in AttemptRecord /\ attempt[a].at \in {"committed", "saved"}
  BY DEF Types, TypeOK, SaveConfig, ConfigWith, RestartService
<1>2. attempt[a].machine \in Machines
  BY <1>1 DEF Types, Named
<1>3. CASE SaveConfig(a)
  <2>1. [attempt[a] EXCEPT !.at = "saved"] \in AttemptRecord
    BY <1>1 DEF AttemptRecord
  <2> QED BY <1>1, <1>2, <1>3, <2>1 DEF SaveConfig, ConfigWith, Types, TypeOK, Named, Visiting, Saved, Loaded,
             Delivered, AttemptRecord
<1>4. CASE RestartService(a)
  <2>1. [attempt[a] EXCEPT !.at = "installed", !.waiting = FALSE] \in AttemptRecord
    BY <1>1 DEF AttemptRecord
  <2>2. [creds |-> config[attempt[a].machine], doing |-> "wait"] \in AgentProcess
    BY <1>2 DEF AgentProcess, Types, TypeOK
  <2> QED BY <1>1, <1>2, <1>4, <2>1, <2>2 DEF RestartService, Started, Types, TypeOK, Named,
             Visiting, Saved, Loaded, Delivered, AttemptRecord, AgentProcess
<1> QED BY <1>3, <1>4

\* So do the steps of an agent that concern its process and its disk.
LEMMA ProcessTypes ==
    ASSUME Types, NEW m \in Machines,
           AgentRestarts(m) \/ Wipe(m) \/ CheckinTimeout(m) \/ SpeedtestEnds(m) \/ SpeedtestFails(m)
    PROVE  Types'
<1>1. agent[m] \in AgentProcess /\ config[m] \in Attempts \union {None}
  BY DEF Types, TypeOK
<1>2. [agent[m] EXCEPT !.doing = "wait"] \in AgentProcess /\ agent[m].creds \in Attempts \union {None}
  BY <1>1 DEF AgentProcess
<1>3. [creds |-> config[m], doing |-> "wait"] \in AgentProcess
      /\ [creds |-> None, doing |-> "wait"] \in AgentProcess
  BY <1>1 DEF AgentProcess
<1>4. CASE AgentRestarts(m)
  BY <1>3, <1>4 DEF AgentRestarts, Started, Types, TypeOK, Named, Visiting, Saved, Loaded, Delivered
<1>5. CASE Wipe(m)
  <2>1. \A a \in Attempts : [attempt[a] EXCEPT !.waiting = FALSE] \in AttemptRecord
    BY DEF Types, TypeOK, AttemptRecord
  <2>2. attempt' \in [Attempts -> AttemptRecord]
    BY <1>5, <2>1 DEF Wipe, Types, TypeOK
  <2>3. \A a \in Attempts : /\ attempt'[a].at = attempt[a].at /\ attempt'[a].machine = attempt[a].machine
                            /\ attempt'[a].token = attempt[a].token /\ attempt'[a].uuid = attempt[a].uuid
    BY <1>5 DEF Wipe, Types, TypeOK, AttemptRecord
  <2> QED BY <1>3, <1>5, <2>2, <2>3 DEF Wipe, Types, TypeOK, Named, Visiting, Saved, Loaded, Delivered
<1>6. CASE CheckinTimeout(m) \/ SpeedtestFails(m)
  BY <1>1, <1>2, <1>6, SMTT(20) DEF CheckinTimeout, SpeedtestFails, Types, TypeOK, Named, Visiting, Saved, Loaded,
     Delivered, AgentProcess
<1>7. CASE SpeedtestEnds(m)
  <2>1. speedtests' \in 0..MaxSpeedtests
    BY <1>7, EnrollmentAssumption DEF SpeedtestEnds, ConfigWith, Types, TypeOK
  <2> QED BY <1>1, <1>2, <1>7, <2>1 DEF SpeedtestEnds, ConfigWith, Types, TypeOK, Named, Visiting, Saved, Loaded,
     Delivered, AgentProcess
<1> QED BY <1>4, <1>5, <1>6, <1>7

\* So do a check-in's authentication and its handler.
LEMMA CheckinTypes ==
    ASSUME Types, NEW m \in Machines, Checkin(m) \/ CheckinCommit(m) \/ CheckinFails(m)
    PROVE  Types'
<1>1. agent[m] \in AgentProcess /\ checkin[m] \in Handler
  BY DEF Types, TypeOK
<1>2. \A next \in {"wait", "checkin", "speedtest"} : [agent[m] EXCEPT !.doing = next] \in AgentProcess
  BY <1>1 DEF AgentProcess
<1>3. CASE Checkin(m)
  <2> DEFINE n == agentToken[agent[m].creds]
  <2>1. n \in Attempts
    BY <1>1, <1>3 DEF Checkin, AgentProcess, Types, TypeOK
  <2>2. [busy |-> TRUE, node |-> n, token |-> node[n].token] \in Handler
    BY <2>1 DEF Handler, Types, TypeOK, NodeRow
  <2>3. checkin' = [checkin EXCEPT ![m] = [busy |-> TRUE, node |-> n, token |-> node[n].token]]
        /\ agent' = [agent EXCEPT ![m].doing = "checkin"]
        /\ UNCHANGED <<token, node, agentToken, attempt, config, speedtests>>
    BY <1>3 DEF Checkin
  <2> HIDE DEF n
  <2> QED BY <1>1, <1>2, <2>1, <2>2, <2>3 DEF Types, TypeOK, Named, Visiting, Saved, Loaded,
             Delivered, AgentProcess
<1>4. CASE CheckinCommit(m) \/ CheckinFails(m)
  <2>1. PICK next \in {"wait", "speedtest"} : Answered(m, next)
    BY <1>4 DEF CheckinCommit, CheckinFails
  <2>2. agent' \in [Machines -> AgentProcess] /\ \A k \in Machines : agent'[k].creds = agent[k].creds
    BY <1>1, <1>2, <2>1 DEF Answered, Types, TypeOK, AgentProcess
  <2>3. checkin' = [checkin EXCEPT ![m] = Idle]
        /\ UNCHANGED <<agentToken, attempt, config, speedtests>>
    BY <1>4 DEF CheckinCommit, CheckinFails
  <2>4. token' \in [Tokens -> TokenRow] /\ node' \in [Attempts -> NodeRow]
    <3>1. checkin[m].busy
      BY <1>4 DEF CheckinCommit, CheckinFails
    <3>2. checkin[m].node \in Attempts /\ checkin[m].token \in Tokens \union {None}
      BY <1>1, <3>1 DEF Types, Visiting, Handler
    <3>3. [node[checkin[m].node] EXCEPT !.serial = Serial[m]] \in NodeRow
      BY <3>2, SMTT(20) DEF Types, TypeOK, NodeRow
    <3> DEFINE updated == IF node[checkin[m].node].row
                          THEN [node EXCEPT ![checkin[m].node].serial = Serial[m]] ELSE node
    <3>4. updated \in [Attempts -> NodeRow]
      BY <3>2, <3>3 DEF Types, TypeOK
    <3>5. CASE CheckinFails(m)
      BY <3>5 DEF CheckinFails, Types, TypeOK
    <3>6. CASE CheckinCommit(m)
      <4>1. node' = IF HasRow(checkin[m].token) THEN Without(checkin[m].token, updated) ELSE updated
        BY <3>6 DEF CheckinCommit
      <4>2. token' = IF HasRow(checkin[m].token) THEN Deleted(checkin[m].token) ELSE token
        BY <3>6 DEF CheckinCommit
      <4> HIDE DEF updated
      <4>3. node' \in [Attempts -> NodeRow]
        BY <3>4, <4>1, WithoutType
      <4> QED BY <3>2, <4>2, <4>3, DeletedType DEF HasRow, Types, TypeOK
    <3> QED BY <1>4, <3>5, <3>6
  <2> QED BY <2>2, <2>3, <2>4, Fresh DEF Types, TypeOK, Named, Visiting, Saved, Loaded, Delivered, Idle
<1> QED BY <1>3, <1>4

\* The strengthened types hold at the start.
LEMMA TypesInit == Init => Types
BY Fresh, EnrollmentAssumption DEF Init, Types, TypeOK, Named, Visiting, Saved, Loaded, Delivered,
   NoAttempt, Idle, AgentProcess

\* Every step keeps the strengthened types.
LEMMA TypesStep == Types /\ [Next]_vars => Types'
<1> SUFFICES ASSUME Types, [Next]_vars PROVE Types'
  OBVIOUS
<1>1. CASE \E t \in Tokens : TokenStep(t)
  BY <1>1, TokenTypes
<1>2. CASE \E a \in Attempts : AttemptStep(a)
  BY <1>2, InstallTypes, ReadTypes, CommitTypes, DeliverTypes DEF AttemptStep
<1>3. CASE \E m \in Machines : MachineStep(m)
  BY <1>3, ProcessTypes, CheckinTypes DEF MachineStep
<1>4. CASE \E n \in Attempts : Decommission(n) \/ DeleteNode(n)
  BY <1>4, NodeTypes
<1>5. CASE UNCHANGED vars
  BY <1>5 DEF vars, Types, TypeOK, Named, Visiting, Saved, Loaded, Delivered
<1> QED BY <1>1, <1>2, <1>3, <1>4, <1>5 DEF Next

\* The strengthened types hold in every state.
LEMMA TypesHold == Spec => []Types
<1> QED BY TypesInit, TypesStep, PTL DEF Spec

\* Every variable keeps its type (TypeOK), whatever is enrolled and administered.
THEOREM Typing == Spec => []TypeOK
<1>1. Types => TypeOK
  BY DEF Types
<1> QED BY <1>1, TypesHold, PTL
-----------------------------------------------------------------------------
\* Single use

\* What a step does to the state of a token and to an attempt's enrolment.
LEMMA EnrolmentsOnlyGrow ==
    ASSUME Types, [Next]_vars
    PROVE  /\ \A t \in Tokens : token[t].state = "gone" => token'[t].state = "gone"
           /\ \A a \in Attempts : HasEnrolled(a) =>
                HasEnrolled(a)' /\ attempt'[a].token = attempt[a].token
           /\ \A a \in Attempts : (~HasEnrolled(a) /\ HasEnrolled(a)') => EnrollCommit(a)
<1>0. /\ \A t \in Tokens : token[t] \in TokenRow
      /\ \A a \in Attempts : attempt[a] \in AttemptRecord
  BY DEF Types, TypeOK
<1>1. CASE \E t \in Tokens : TokenStep(t)
  BY <1>0, <1>1 DEF TokenStep, CreateToken, RotateToken, RevokeToken, Expire, DeleteToken, CleanupToken,
     Deleted, HasRow, HasEnrolled, Types, TypeOK, TokenRow, NoToken
<1>2. ASSUME NEW a \in Attempts, AttemptStep(a), ~EnrollCommit(a)
      PROVE  /\ UNCHANGED token
             /\ \A b \in Attempts : HasEnrolled(b) <=> HasEnrolled(b)'
             /\ \A b \in Attempts : HasEnrolled(b) => attempt'[b].token = attempt[b].token
  <2>1. CASE \E m \in Machines, t \in Tokens : Install(a, m, t)
    BY <1>0, <2>1 DEF Install, NoAttempt, HasEnrolled, Types, TypeOK
  <2>2. CASE GiveUp(a) \/ SaveConfig(a) \/ RestartService(a)
    BY <1>0, <2>2, SMTT(20) DEF GiveUp, SaveConfig, ConfigWith, RestartService, HasEnrolled, Types, TypeOK, AttemptRecord
  <2>3. CASE ReadToken(a) \/ EnrollFails(a)
    BY <1>0, <2>3 DEF ReadToken, EnrollFails, Refuse, NoAttempt, HasEnrolled, Types, TypeOK, AttemptRecord
  <2>4. CASE FindNode(a)
    BY <1>0, <2>4 DEF FindNode, HasEnrolled, Types, TypeOK, AttemptRecord
  <2> QED BY <1>2, <2>1, <2>2, <2>3, <2>4 DEF AttemptStep
<1>3. ASSUME NEW a \in Attempts, EnrollCommit(a)
      PROVE  /\ \A t \in Tokens : token[t].state = "gone" => token'[t].state = "gone"
             /\ \A b \in Attempts \ {a} : attempt'[b] = attempt[b]
             /\ ~HasEnrolled(a) /\ HasEnrolled(a)'
  BY <1>0, <1>3 DEF EnrollCommit, ConstraintsHold, HasRow, Counted, Deleted, HasEnrolled, Types, TypeOK,
     TokenRow, AttemptRecord, NoToken
<1>4. CASE \E m \in Machines : MachineStep(m)
  <2>1. \A a \in Attempts : attempt'[a].at = attempt[a].at /\ attempt'[a].token = attempt[a].token
    BY <1>0, <1>4 DEF MachineStep, AgentRestarts, Wipe, Checkin, CheckinCommit, CheckinFails,
       CheckinTimeout, SpeedtestEnds, ConfigWith, SpeedtestFails, Types, TypeOK, AttemptRecord
  <2>2. \A t \in Tokens : token[t].state = "gone" => token'[t].state = "gone"
    BY <1>0, <1>4 DEF MachineStep, AgentRestarts, Wipe, Checkin, CheckinCommit, CheckinFails,
       CheckinTimeout, SpeedtestEnds, ConfigWith, SpeedtestFails, Deleted, HasRow, Types, TypeOK, NoToken
  <2> QED BY <2>1, <2>2 DEF HasEnrolled
<1>5. CASE \E n \in Attempts : Decommission(n) \/ DeleteNode(n)
  BY <1>5 DEF Decommission, DeleteNode, HasEnrolled
<1>6. CASE UNCHANGED vars
  BY <1>6 DEF vars, HasEnrolled
<1>7. CASE \E a \in Attempts : AttemptStep(a)
  BY <1>2, <1>3, <1>7 DEF HasEnrolled
<1> QED BY <1>1, <1>4, <1>5, <1>6, <1>7 DEF Next

\* An enrolment with a single-use token finds its row and deletes it.
LEMMA SingleUseCommit ==
    ASSUME Types, NEW a \in Attempts, EnrollCommit(a), Limit[attempt[a].token] = 1
    PROVE  token[attempt[a].token].state = "row" /\ token'[attempt[a].token].state = "gone"
<1>1. attempt[a] \in AttemptRecord /\ attempt[a].token \in Tokens
  BY DEF EnrollCommit, Types, TypeOK, Named
<1>2. Spent(a)
  BY <1>1 DEF Spent, AttemptRecord
<1> QED BY <1>1, <1>2 DEF EnrollCommit, ConstraintsHold, HasRow, Deleted, Types, TypeOK, NoToken

\* A single-use token enrols one node at most and is gone with it (SingleUseToken):
\* the foreign key refuses the second transaction, whatever its handler has read.
THEOREM SingleUse == Spec => []SingleUseToken
<1>1. Init => SingleUseToken
  BY DEF Init, SingleUseToken, HasEnrolled, NoAttempt
<1>2. Types /\ SingleUseToken /\ [Next]_vars => SingleUseToken'
  <2> SUFFICES ASSUME Types, SingleUseToken, [Next]_vars,
                      NEW a \in Attempts, NEW b \in Attempts,
                      HasEnrolled(a)', Limit[attempt'[a].token] = 1
               PROVE  /\ token'[attempt'[a].token].state = "gone"
                      /\ HasEnrolled(b)' /\ attempt'[b].token = attempt'[a].token => a = b
    BY DEF SingleUseToken, HasEnrolled
  <2>1. \A c \in Attempts : HasEnrolled(c) => attempt[c].token \in Tokens
    BY DEF Types, Named, HasEnrolled
  <2>2. \A c \in Attempts : EnrollCommit(c) =>
            /\ attempt'[c].token = attempt[c].token
            /\ attempt[c].token \in Tokens
            /\ \A d \in Attempts \ {c} : attempt'[d] = attempt[d]
    BY DEF EnrollCommit, Types, TypeOK, Named, AttemptRecord
  <2>3. CASE HasEnrolled(a)
    <3>1. attempt'[a].token = attempt[a].token /\ token'[attempt'[a].token].state = "gone"
      BY <2>1, <2>3, EnrolmentsOnlyGrow DEF SingleUseToken
    <3>2. CASE HasEnrolled(b)
      BY <2>3, <3>1, <3>2, EnrolmentsOnlyGrow DEF SingleUseToken
    <3>3. CASE HasEnrolled(b)' /\ ~HasEnrolled(b)
      <4>1. EnrollCommit(b)
        BY <3>3, EnrolmentsOnlyGrow
      <4>2. token[attempt[b].token].state # "gone" \/ Limit[attempt[b].token] # 1
        BY <4>1, SingleUseCommit
      <4> QED BY <2>2, <2>3, <3>1, <4>1, <4>2 DEF SingleUseToken
    <3> QED BY <3>1, <3>2, <3>3
  <2>4. CASE ~HasEnrolled(a)
    <3>1. EnrollCommit(a)
      BY <2>4, EnrolmentsOnlyGrow
    <3>2. /\ attempt'[a].token = attempt[a].token
          /\ token[attempt[a].token].state = "row" /\ token'[attempt[a].token].state = "gone"
      BY <2>2, <3>1, SingleUseCommit
    <3>3. ASSUME HasEnrolled(b)', attempt'[b].token = attempt'[a].token, a # b PROVE FALSE
      <4>1. attempt'[b] = attempt[b]
        BY <2>2, <3>1, <3>3
      <4>2. HasEnrolled(b)
        BY <3>3, <4>1 DEF HasEnrolled
      <4> QED BY <3>2, <3>3, <4>1, <4>2 DEF SingleUseToken
    <3> QED BY <3>2, <3>3
  <2> QED BY <2>3, <2>4
<1> QED BY <1>1, <1>2, TypesHold, PTL DEF Spec
-----------------------------------------------------------------------------
\* Credentials and UUIDs

\* The tables nodes and agent_tokens change in five transactions only.
TableWrites ==
    \/ \E t \in Tokens : DeleteToken(t)
    \/ \E a \in Attempts : EnrollCommit(a)
    \/ \E m \in Machines : CheckinCommit(m)
    \/ \E n \in Attempts : Decommission(n) \/ DeleteNode(n)

\* Nodes and agent tokens are written by the handlers that TableWrites lists, and by no
\* other step.
LEMMA OnlyTableWrites == [Next]_vars => TableWrites \/ UNCHANGED <<node, agentToken>>
<1> SUFFICES ASSUME [Next]_vars PROVE TableWrites \/ UNCHANGED <<node, agentToken>>
  OBVIOUS
<1>1. CASE \E t \in Tokens : TokenStep(t)
  BY <1>1 DEF TokenStep, TableWrites, CreateToken, RotateToken, RevokeToken, Expire, CleanupToken
<1>2. CASE \E a \in Attempts : AttemptStep(a)
  BY <1>2 DEF AttemptStep, TableWrites, Install, GiveUp, ReadToken, FindNode, EnrollFails, SaveConfig, ConfigWith,
     RestartService
<1>3. CASE \E m \in Machines : MachineStep(m)
  BY <1>3 DEF MachineStep, TableWrites, AgentRestarts, Wipe, Checkin, CheckinFails, CheckinTimeout,
     SpeedtestEnds, ConfigWith, SpeedtestFails
<1>4. CASE \E n \in Attempts : Decommission(n) \/ DeleteNode(n)
  BY <1>4 DEF TableWrites
<1>5. CASE UNCHANGED vars
  BY <1>5 DEF vars
<1> QED BY <1>1, <1>2, <1>3, <1>4, <1>5 DEF Next

\* Two states of nodes agree on what identifies and activates each node.
SameNodes(f, g) ==
    \A n \in Attempts : /\ f[n].row = g[n].row /\ f[n].uuid = g[n].uuid
                        /\ f[n].active = g[n].active /\ f[n].secret = g[n].secret

\* Deleting an enrolment token and checking in touch neither.
LEMMA SideWrites ==
    ASSUME Types, (\E t \in Tokens : DeleteToken(t)) \/ \E m \in Machines : CheckinCommit(m)
    PROVE  SameNodes(node', node) /\ UNCHANGED agentToken
<1>1. CASE \E t \in Tokens : DeleteToken(t)
  BY <1>1, WithoutKeeps DEF DeleteToken, SameNodes, Types, TypeOK
<1>2. ASSUME NEW m \in Machines, CheckinCommit(m)
      PROVE  SameNodes(node', node) /\ UNCHANGED agentToken
  <2> DEFINE n == checkin[m].node
             updated == IF node[n].row THEN [node EXCEPT ![n].serial = Serial[m]] ELSE node
  <2>1. node' = IF HasRow(checkin[m].token) THEN Without(checkin[m].token, updated) ELSE updated
    BY <1>2 DEF CheckinCommit
  <2>2. n \in Attempts
    BY <1>2 DEF CheckinCommit, Types, Visiting
  <2>3. updated \in [Attempts -> NodeRow] /\ SameNodes(updated, node)
    <3>1. [node[n] EXCEPT !.serial = Serial[m]] \in NodeRow
      BY <2>2 DEF Types, TypeOK, NodeRow
    <3> QED BY <2>2, <3>1 DEF SameNodes, Types, TypeOK, NodeRow
  <2> HIDE DEF updated
  <2>4. SameNodes(node', node)
    BY <2>1, <2>3, WithoutKeeps DEF SameNodes
  <2> QED BY <1>2, <2>4 DEF CheckinCommit
<1> QED BY <1>1, <1>2

\* An enrolment writes one row: its node, now active, with its UUID and its secret.
LEMMA CommitWrites ==
    ASSUME Types, NEW a \in Attempts, EnrollCommit(a)
    PROVE  /\ Written(a) \in Attempts
           /\ node'[Written(a)].row /\ node'[Written(a)].active
           /\ node'[Written(a)].uuid = attempt[a].uuid /\ node'[Written(a)].secret = a
           /\ \A n \in Attempts \ {Written(a)} :
                /\ node'[n].row = node[n].row /\ node'[n].uuid = node[n].uuid
                /\ node'[n].active = node[n].active /\ node'[n].secret = node[n].secret
           /\ agentToken' = Issued(a)
<1>1. attempt[a] \in AttemptRecord /\ attempt[a].token \in Tokens /\ attempt[a].uuid \in Attempts
  BY DEF EnrollCommit, Types, TypeOK, Named
<1>2. Written(a) \in Attempts
  BY <1>1 DEF Written, AttemptRecord
<1>3. node[Written(a)] \in NodeRow
  BY <1>2 DEF Types, TypeOK
<1> DEFINE x == [node[Written(a)] EXCEPT !.row = TRUE, !.uuid = attempt[a].uuid, !.active = TRUE,
                                         !.token = attempt[a].token, !.secret = a]
<1>4. /\ x \in NodeRow /\ x.row = TRUE /\ x.active = TRUE /\ x.uuid = attempt[a].uuid /\ x.secret = a
  BY <1>1, <1>3 DEF NodeRow
<1>5. Enrolled(a) = [node EXCEPT ![Written(a)] = x]
  BY DEF Enrolled
<1> HIDE DEF x
<1>6. Enrolled(a) \in [Attempts -> NodeRow]
  BY <1>2, <1>4, <1>5 DEF Types, TypeOK
<1>7. SameNodes(node', Enrolled(a))
  BY <1>6, WithoutKeeps DEF EnrollCommit, SameNodes
<1>8. \A n \in Attempts \ {Written(a)} : Enrolled(a)[n] = node[n]
  BY <1>5 DEF Types, TypeOK
<1>9. Enrolled(a)[Written(a)] = x
  BY <1>2, <1>5 DEF Types, TypeOK
<1> QED BY <1>2, <1>4, <1>7, <1>8, <1>9 DEF SameNodes, EnrollCommit

\* A valid agent token is the one of its node's last enrolment, and the node is
\* active (AgentTokenIsCurrent): re-enrolling and decommissioning revoke in the
\* transaction that changes the node.
THEOREM CurrentToken == Spec => []AgentTokenIsCurrent
<1>1. Init => AgentTokenIsCurrent
  BY DEF Init, AgentTokenIsCurrent
<1>2. Types /\ AgentTokenIsCurrent /\ [Next]_vars => AgentTokenIsCurrent'
  <2> SUFFICES ASSUME Types, AgentTokenIsCurrent, [Next]_vars,
                      NEW b \in Attempts, agentToken'[b] # None
               PROVE  /\ node'[agentToken'[b]].row /\ node'[agentToken'[b]].active
                      /\ node'[agentToken'[b]].secret = b
    BY DEF AgentTokenIsCurrent
  <2>1. agentToken[b] \in Attempts \union {None}
    BY DEF Types, TypeOK
  <2>2. CASE UNCHANGED <<node, agentToken>>
    BY <2>2 DEF AgentTokenIsCurrent
  <2>3. CASE (\E t \in Tokens : DeleteToken(t)) \/ \E m \in Machines : CheckinCommit(m)
    BY <2>1, <2>3, SideWrites DEF SameNodes, AgentTokenIsCurrent
  <2>4. ASSUME NEW a \in Attempts, EnrollCommit(a)
        PROVE  /\ node'[agentToken'[b]].row /\ node'[agentToken'[b]].active
               /\ node'[agentToken'[b]].secret = b
    <3>1. CASE a = b
      BY <2>4, <3>1, CommitWrites DEF Issued
    <3>2. CASE a # b
      <4>1. agentToken'[b] = agentToken[b] /\ agentToken[b] \in Attempts \ {Written(a)}
        BY <2>1, <2>4, <3>2, CommitWrites DEF Issued
      <4> QED BY <2>4, <4>1, CommitWrites DEF AgentTokenIsCurrent
    <3> QED BY <3>1, <3>2
  <2>5. ASSUME NEW n \in Attempts, Decommission(n) \/ DeleteNode(n)
        PROVE  /\ node'[agentToken'[b]].row /\ node'[agentToken'[b]].active
               /\ node'[agentToken'[b]].secret = b
    <3>1. agentToken'[b] = agentToken[b] /\ agentToken[b] \in Attempts \ {n}
      BY <2>1, <2>5 DEF Decommission, DeleteNode
    <3>2. node'[agentToken[b]] = node[agentToken[b]]
      BY <2>5, <3>1 DEF Decommission, DeleteNode, Types, TypeOK
    <3> QED BY <3>1, <3>2 DEF AgentTokenIsCurrent
  <2> QED BY <2>2, <2>3, <2>4, <2>5, OnlyTableWrites DEF TableWrites
<1> QED BY <1>1, <1>2, TypesHold, PTL DEF Spec

-----------------------------------------------------------------------------
\* The credentials a machine runs on

\* A valid agent token belongs to an enrolment, and an active node's secret was
\* issued with the token that is valid for it now.
Minted == \A a \in Attempts : agentToken[a] # None => HasEnrolled(a)
SecretIsKnown ==
    \A n \in Attempts : (node[n].row /\ node[n].active) =>
        node[n].secret \in Attempts /\ agentToken[node[n].secret] = n

\* One installer at a time waits on a machine, and what it saved stays on disk
\* until it ends.
OneInstaller ==
    \A a, b \in Attempts :
        (attempt[a].waiting /\ attempt[b].waiting /\ attempt[a].machine = attempt[b].machine) => a = b
SavedIsOnDisk ==
    speedtests = 0 => \A a \in Attempts :
        (attempt[a].at = "saved" /\ attempt[a].waiting) => config[attempt[a].machine] = a

\* The attempts whose credentials machine m runs on, or is about to.
Latest(m) ==
    {x \in Attempts : \/ x = config[m]
                      \/ x = agent[m].creds
                      \/ /\ attempt[x].waiting /\ attempt[x].machine = m
                         /\ attempt[x].at \in {"committed", "saved"}}

\* No other installer that came to its end on m enrolled their node after them.
LatestIsLast ==
    speedtests = 0 => \A m \in Machines : \A x \in Latest(m) : \A b \in Attempts \ {x} :
        (attempt[b].machine = m /\ attempt[b].at = "installed") => node[Written(x)].secret # b

InstallInv == /\ Types /\ Minted /\ SecretIsKnown
              /\ OneInstaller /\ SavedIsOnDisk /\ LatestIsLast

\* What a step may do to one attempt.
Kept(a) == attempt'[a].machine = attempt[a].machine /\ attempt'[a].target = attempt[a].target
Asks(a) ==
    /\ attempt[a].at = "new" /\ attempt'[a].at = "sent"
    /\ \A b \in Attempts : attempt[b].machine = attempt'[a].machine => ~attempt[b].waiting
    /\ \A b \in Attempts \ {a} : attempt'[b] = attempt[b]
Reads(a) ==
    /\ attempt[a].at \in {"sent", "accepted"} /\ attempt'[a].at \in {"accepted", "found"}
    /\ attempt'[a].waiting = attempt[a].waiting /\ attempt'[a].machine = attempt[a].machine
IsRefused(a) ==
    /\ attempt[a].at \in {"sent", "accepted", "found"} /\ attempt'[a].at = "refused"
    /\ ~attempt'[a].waiting
Commits(a) == EnrollCommit(a) /\ attempt'[a].at = "committed" /\ attempt'[a].waiting = attempt[a].waiting
Saves(a) == SaveConfig(a) /\ attempt'[a].at = "saved" /\ attempt'[a].waiting = attempt[a].waiting
Ends(a) == RestartService(a) /\ attempt'[a].at = "installed" /\ ~attempt'[a].waiting

Fate(a) ==
    \/ attempt'[a] = attempt[a]
    \/ Asks(a) \/ Reads(a) \/ IsRefused(a)
    \/ Kept(a) /\ (Commits(a) \/ Saves(a) \/ Ends(a))
    \/ Kept(a) /\ attempt'[a].at = attempt[a].at /\ ~attempt'[a].waiting

\* What one step may do to one attempt: begin it, get on with it, end its wait, or nothing.
LEMMA Fates ==
    ASSUME Types, [Next]_vars, NEW a \in Attempts
    PROVE  Fate(a)
<1>0. attempt \in [Attempts -> AttemptRecord] /\ attempt[a] \in AttemptRecord
  BY DEF Types, TypeOK
<1>1. ASSUME NEW b \in Attempts, NEW x, attempt' = [attempt EXCEPT ![b] = x], a # b
      PROVE  Fate(a)
  BY <1>0, <1>1 DEF Fate
<1>2. ASSUME NEW x, attempt' = [attempt EXCEPT ![a] = x] PROVE attempt'[a] = x
  BY <1>0, <1>2
<1>3. ASSUME NEW b \in Attempts, \E m \in Machines, t \in Tokens : Install(b, m, t)
      PROVE  Fate(a)
  <2>1. PICK m \in Machines, t \in Tokens : Install(b, m, t)
    BY <1>3
  <2>2. CASE a = b
    <3>1. attempt'[a].at = "sent" /\ attempt'[a].machine = m
      BY <1>0, <2>1, <2>2 DEF Install, NoAttempt
    <3>2. \A c \in Attempts \ {a} : attempt'[c] = attempt[c]
      BY <1>0, <2>1, <2>2 DEF Install
    <3>3. Asks(a)
      BY <2>1, <2>2, <3>1, <3>2 DEF Install, Asks
    <3> QED BY <3>3 DEF Fate
  <2>3. CASE a # b
    BY <1>0, <2>1, <2>3 DEF Install, Fate
  <2> QED BY <2>2, <2>3
<1>4. ASSUME NEW b \in Attempts, Refuse(b), attempt[b].at \in {"sent", "accepted", "found"}
      PROVE  Fate(a)
  <2>1. CASE a = b
    <3>1. attempt'[a].at = "refused" /\ ~attempt'[a].waiting
      BY <1>0, <1>4, <2>1 DEF Refuse, NoAttempt
    <3> QED BY <1>4, <2>1, <3>1 DEF Fate, IsRefused
  <2>2. CASE a # b
    BY <1>0, <1>4, <2>2 DEF Refuse, Fate
  <2> QED BY <2>1, <2>2
<1>5. ASSUME NEW b \in Attempts, GiveUp(b) PROVE Fate(a)
  BY <1>0, <1>5 DEF GiveUp, Fate, Kept, AttemptRecord
<1>6. ASSUME NEW b \in Attempts, ReadToken(b) PROVE Fate(a)
  <2>1. CASE Refuse(b)
    BY <1>4, <1>6, <2>1 DEF ReadToken
  <2>2. CASE attempt' = [attempt EXCEPT ![b].at = "accepted",
                                        ![b].count = token[attempt[b].token].used]
    BY <1>0, <1>6, <2>2 DEF ReadToken, Fate, Reads, AttemptRecord
  <2> QED BY <1>6, <2>1, <2>2 DEF ReadToken
<1>7. ASSUME NEW b \in Attempts, FindNode(b) PROVE Fate(a)
  <2>1. PICK n : attempt' = [attempt EXCEPT ![b].at = "found", ![b].target = n]
    BY <1>7 DEF FindNode
  <2>2. attempt[b].at = "accepted"
    BY <1>7 DEF FindNode
  <2> QED BY <1>0, <2>1, <2>2 DEF Fate, Reads, AttemptRecord
<1>8. ASSUME NEW b \in Attempts, EnrollCommit(b) PROVE Fate(a)
  <2>1. attempt' = [attempt EXCEPT ![b].at = "committed", ![b].count = 0]
    BY <1>8 DEF EnrollCommit
  <2> QED BY <1>0, <1>8, <2>1 DEF Fate, Commits, Kept, AttemptRecord
<1>9. ASSUME NEW b \in Attempts, EnrollFails(b) PROVE Fate(a)
  BY <1>4, <1>9 DEF EnrollFails
<1>10. ASSUME NEW b \in Attempts, SaveConfig(b) PROVE Fate(a)
  <2>1. attempt' = [attempt EXCEPT ![b].at = "saved"]
    BY <1>10 DEF SaveConfig, ConfigWith
  <2> QED BY <1>0, <1>10, <2>1 DEF Fate, Saves, Kept, AttemptRecord
<1>11. ASSUME NEW b \in Attempts, RestartService(b) PROVE Fate(a)
  <2>1. attempt' = [attempt EXCEPT ![b].at = "installed", ![b].waiting = FALSE]
    BY <1>11 DEF RestartService
  <2> QED BY <1>0, <1>11, <2>1 DEF Fate, Ends, Kept, AttemptRecord
<1>12. ASSUME NEW m \in Machines, Wipe(m) PROVE Fate(a)
  BY <1>0, <1>12 DEF Wipe, Fate, Kept, AttemptRecord
<1>13. CASE UNCHANGED attempt
  BY <1>13 DEF Fate
<1>14. ASSUME NEW b \in Attempts, AttemptStep(b) PROVE Fate(a)
  BY <1>3, <1>5, <1>6, <1>7, <1>8, <1>9, <1>10, <1>11, <1>14 DEF AttemptStep
<1>15. ASSUME NEW t \in Tokens, TokenStep(t) PROVE UNCHANGED attempt
  BY <1>15 DEF TokenStep, CreateToken, RotateToken, RevokeToken, Expire, DeleteToken, CleanupToken
<1>16. ASSUME NEW m \in Machines, MachineStep(m) PROVE Wipe(m) \/ UNCHANGED attempt
  BY <1>16 DEF MachineStep, AgentRestarts, Checkin, CheckinCommit, CheckinFails, CheckinTimeout,
     SpeedtestEnds, ConfigWith, SpeedtestFails
<1>17. ASSUME NEW n \in Attempts, Decommission(n) \/ DeleteNode(n) PROVE UNCHANGED attempt
  BY <1>17 DEF Decommission, DeleteNode
<1>18. CASE UNCHANGED vars
  BY <1>13, <1>18 DEF vars
<1> QED BY <1>12, <1>13, <1>14, <1>15, <1>16, <1>17, <1>18 DEF Next

\* What a step may do to the credentials on a machine, while no speed test has
\* written its config back: only an installer that ends brings new ones.
LEMMA Disks ==
    ASSUME Types, [Next]_vars, NEW m \in Machines, speedtests' = 0
    PROVE  /\ speedtests = 0
           /\ \/ config'[m] = config[m] /\ agent'[m].creds \in {agent[m].creds, config[m]}
              \/ /\ config'[m] = None /\ agent'[m].creds = None
                 /\ \A a \in Attempts : attempt[a].machine = m => ~attempt'[a].waiting
              \/ /\ \E a \in Attempts : /\ SaveConfig(a) /\ attempt[a].machine = m
                                        /\ config'[m] = a
                 /\ agent'[m].creds = agent[m].creds
<1>0. /\ config \in [Machines -> Attempts \union {None}]
      /\ agent \in [Machines -> AgentProcess] /\ speedtests \in Nat
  BY EnrollmentAssumption DEF Types, TypeOK
<1>1. CASE UNCHANGED <<config, agent, speedtests>>
  BY <1>1
<1>2. ASSUME NEW a \in Attempts, SaveConfig(a)
      PROVE  /\ UNCHANGED <<agent, speedtests>>
             /\ config'[m] = IF m = attempt[a].machine THEN a ELSE config[m]
  BY <1>0, <1>2 DEF SaveConfig, ConfigWith
<1>3. ASSUME NEW a \in Attempts, RestartService(a)
      PROVE  UNCHANGED <<config, speedtests>> /\ agent'[m].creds \in {agent[m].creds, config[m]}
  BY <1>0, <1>3 DEF RestartService, Started
<1>4. ASSUME NEW k \in Machines, AgentRestarts(k) \/ Checkin(k) \/ CheckinCommit(k) \/ CheckinFails(k)
             \/ CheckinTimeout(k) \/ SpeedtestFails(k)
      PROVE  UNCHANGED <<config, speedtests>> /\ agent'[m].creds \in {agent[m].creds, config[m]}
  <2>1. UNCHANGED <<config, speedtests>>
    BY <1>4 DEF AgentRestarts, Checkin, CheckinCommit, CheckinFails, CheckinTimeout, SpeedtestFails
  <2>2. agent'[m].creds \in {agent[m].creds, config[m]}
    BY <1>0, <1>4 DEF AgentRestarts, Checkin, CheckinCommit, CheckinFails, CheckinTimeout,
       SpeedtestFails, Answered, Started, AgentProcess
  <2> QED BY <2>1, <2>2
<1>5. ASSUME NEW k \in Machines, Wipe(k)
      PROVE  /\ speedtests = 0
             /\ k # m => config'[m] = config[m] /\ agent'[m] = agent[m]
             /\ k = m => config'[m] = None /\ agent'[m].creds = None
             /\ k = m => \A a \in Attempts : attempt[a].machine = m => ~attempt'[a].waiting
  <2>1. \A a \in Attempts : attempt[a].machine = k => ~attempt'[a].waiting
    BY <1>5 DEF Wipe, Types, TypeOK, AttemptRecord
  <2> QED BY <1>0, <1>5, <2>1 DEF Wipe
<1>6. ASSUME NEW k \in Machines, SpeedtestEnds(k) PROVE FALSE
  BY <1>0, <1>6 DEF SpeedtestEnds, ConfigWith
<1>7. ASSUME NEW t \in Tokens, TokenStep(t) PROVE UNCHANGED <<config, agent, speedtests>>
  BY <1>7 DEF TokenStep, CreateToken, RotateToken, RevokeToken, Expire, DeleteToken, CleanupToken
<1>8. ASSUME NEW a \in Attempts, AttemptStep(a)
      PROVE  SaveConfig(a) \/ RestartService(a) \/ UNCHANGED <<config, agent, speedtests>>
  BY <1>8 DEF AttemptStep, Install, GiveUp, ReadToken, FindNode, EnrollCommit, EnrollFails
<1>9. ASSUME NEW n \in Attempts, Decommission(n) \/ DeleteNode(n)
      PROVE  UNCHANGED <<config, agent, speedtests>>
  BY <1>9 DEF Decommission, DeleteNode
<1>10. ASSUME NEW k \in Machines, MachineStep(k)
       PROVE  \/ Wipe(k)
              \/ UNCHANGED <<config, speedtests>> /\ agent'[m].creds \in {agent[m].creds, config[m]}
  BY <1>4, <1>6, <1>10 DEF MachineStep
<1>11. CASE \E a \in Attempts : AttemptStep(a)
  BY <1>1, <1>2, <1>3, <1>8, <1>11
<1>12. CASE \E k \in Machines : MachineStep(k)
  BY <1>5, <1>10, <1>12
<1>13. CASE UNCHANGED vars
  BY <1>1, <1>13 DEF vars
<1> QED BY <1>1, <1>7, <1>9, <1>11, <1>12, <1>13 DEF Next

\* What a step may do to a node's secret: only an enrolment of the node issues one.
LEMMA Secrets ==
    ASSUME Types, [Next]_vars, NEW n \in Attempts
    PROVE  \/ node'[n].secret = node[n].secret
           \/ node'[n].secret = None
           \/ \E c \in Attempts : EnrollCommit(c) /\ n = Written(c) /\ node'[n].secret = c
<1>1. CASE UNCHANGED <<node, agentToken>>
  BY <1>1
<1>2. CASE (\E t \in Tokens : DeleteToken(t)) \/ \E m \in Machines : CheckinCommit(m)
  BY <1>2, SideWrites DEF SameNodes
<1>3. ASSUME NEW c \in Attempts, EnrollCommit(c)
      PROVE  node'[n].secret = node[n].secret \/ (n = Written(c) /\ node'[n].secret = c)
  BY <1>3, CommitWrites
<1>4. ASSUME NEW k \in Attempts, Decommission(k) \/ DeleteNode(k)
      PROVE  node'[n].secret = node[n].secret \/ node'[n].secret = None
  BY <1>4, SMTT(20) DEF Decommission, DeleteNode, NoNode, Types, TypeOK, NodeRow
<1> QED BY <1>1, <1>2, <1>3, <1>4, OnlyTableWrites DEF TableWrites

\* Every step keeps that a valid agent token belongs to an enrolment.
LEMMA MintedStep == Types /\ Minted /\ [Next]_vars => Minted'
<1> SUFFICES ASSUME Types, Minted, [Next]_vars, NEW b \in Attempts, agentToken'[b] # None
             PROVE  HasEnrolled(b)'
  BY DEF Minted, HasEnrolled
<1>1. ASSUME agentToken[b] # None PROVE HasEnrolled(b)'
  BY <1>1, EnrolmentsOnlyGrow DEF Minted
<1>2. CASE UNCHANGED <<node, agentToken>>
  BY <1>1, <1>2
<1>3. CASE (\E t \in Tokens : DeleteToken(t)) \/ \E m \in Machines : CheckinCommit(m)
  BY <1>1, <1>3, SideWrites
<1>4. ASSUME NEW a \in Attempts, EnrollCommit(a) PROVE HasEnrolled(b)'
  <2>1. CASE a = b
    BY <1>4, <2>1 DEF EnrollCommit, HasEnrolled, Types, TypeOK, AttemptRecord
  <2>2. CASE a # b
    BY <1>1, <1>4, <2>2 DEF EnrollCommit, Issued
  <2> QED BY <2>1, <2>2
<1>5. ASSUME NEW n \in Attempts, Decommission(n) \/ DeleteNode(n) PROVE HasEnrolled(b)'
  BY <1>1, <1>5 DEF Decommission, DeleteNode
<1> QED BY <1>2, <1>3, <1>4, <1>5, OnlyTableWrites DEF TableWrites

\* Every step keeps that the token valid for an active node is the one it was issued.
LEMMA SecretStep == Types /\ Minted /\ SecretIsKnown /\ [Next]_vars => SecretIsKnown'
<1> SUFFICES ASSUME Types, Minted, SecretIsKnown, [Next]_vars,
                    NEW n \in Attempts, node'[n].row, node'[n].active
             PROVE  node'[n].secret \in Attempts /\ agentToken'[node'[n].secret] = n
  BY DEF SecretIsKnown
<1>1. CASE UNCHANGED <<node, agentToken>>
  BY <1>1 DEF SecretIsKnown
<1>2. CASE (\E t \in Tokens : DeleteToken(t)) \/ \E m \in Machines : CheckinCommit(m)
  BY <1>2, SideWrites DEF SameNodes, SecretIsKnown
<1>3. ASSUME NEW a \in Attempts, EnrollCommit(a)
      PROVE  node'[n].secret \in Attempts /\ agentToken'[node'[n].secret] = n
  <2>1. CASE n = Written(a)
    BY <1>3, <2>1, CommitWrites DEF Issued
  <2>2. CASE n # Written(a)
    <3>1. /\ node'[n].secret = node[n].secret /\ node[n].secret \in Attempts
          /\ agentToken[node[n].secret] = n
      BY <1>3, <2>2, CommitWrites DEF SecretIsKnown
    <3>2. node[n].secret # a
      BY <1>3, <3>1, EnrollmentAssumption DEF Minted, HasEnrolled, EnrollCommit
    <3> QED BY <1>3, <2>2, <3>1, <3>2, CommitWrites DEF Issued
  <2> QED BY <2>1, <2>2
<1>4. ASSUME NEW k \in Attempts, Decommission(k) \/ DeleteNode(k)
      PROVE  node'[n].secret \in Attempts /\ agentToken'[node'[n].secret] = n
  <2>1. n # k
    BY <1>4 DEF Decommission, DeleteNode, NoNode, Types, TypeOK, NodeRow
  <2>2. node'[n] = node[n]
    BY <1>4, <2>1 DEF Decommission, DeleteNode, Types, TypeOK
  <2> QED BY <1>4, <2>1, <2>2 DEF SecretIsKnown, Decommission, DeleteNode
<1> QED BY <1>1, <1>2, <1>3, <1>4, OnlyTableWrites DEF TableWrites

\* A second installer starts on a machine only when none is waiting there.
LEMMA OneInstallerStep == Types /\ OneInstaller /\ [Next]_vars => OneInstaller'
<1> SUFFICES ASSUME Types, OneInstaller, [Next]_vars, NEW a \in Attempts, NEW b \in Attempts,
                    attempt'[a].waiting, attempt'[b].waiting,
                    attempt'[a].machine = attempt'[b].machine, a # b
             PROVE  FALSE
  BY DEF OneInstaller
<1>1. ASSUME NEW c \in Attempts, attempt'[c].waiting
      PROVE  \/ Asks(c)
             \/ attempt[c].waiting /\ attempt'[c].machine = attempt[c].machine
  BY <1>1, Fates DEF Fate, Reads, IsRefused, Kept, Commits, Saves, Ends
<1>2. CASE ~Asks(a) /\ ~Asks(b)
  BY <1>1, <1>2 DEF OneInstaller
<1>3. CASE Asks(a)
  BY <1>1, <1>3 DEF Asks
<1>4. CASE Asks(b)
  BY <1>1, <1>4 DEF Asks
<1> QED BY <1>2, <1>3, <1>4

\* Every step keeps what a waiting installer has saved on its machine's disk.
LEMMA OnDiskStep == Types /\ OneInstaller /\ SavedIsOnDisk /\ [Next]_vars => SavedIsOnDisk'
<1> SUFFICES ASSUME Types, OneInstaller, SavedIsOnDisk, [Next]_vars, speedtests' = 0,
                    NEW a \in Attempts, attempt'[a].at = "saved", attempt'[a].waiting
             PROVE  config'[attempt'[a].machine] = a
  BY DEF SavedIsOnDisk
<1>1. \/ attempt'[a] = attempt[a]
      \/ SaveConfig(a) /\ attempt'[a].machine = attempt[a].machine
  BY Fates DEF Fate, Asks, Reads, IsRefused, Kept, Commits, Saves, Ends
<1> DEFINE m == attempt'[a].machine
<1>2. m = attempt[a].machine /\ attempt[a].waiting
  BY <1>1 DEF SaveConfig, ConfigWith
<1>3. m \in Machines
  BY <1>1, <1>2 DEF SaveConfig, ConfigWith, Types, Named
<1>4. CASE SaveConfig(a)
  BY <1>2, <1>3, <1>4 DEF SaveConfig, ConfigWith, Types, TypeOK
<1>5. CASE attempt'[a] = attempt[a] /\ ~SaveConfig(a)
  <2>1. speedtests = 0 /\ config[m] = a
    BY <1>3, <1>5, Disks DEF SavedIsOnDisk
  <2>2. ASSUME NEW c \in Attempts, SaveConfig(c), attempt[c].machine = m PROVE FALSE
    BY <1>2, <1>5, <2>2 DEF SaveConfig, ConfigWith, OneInstaller
  <2>3. config'[m] = config[m]
    BY <1>2, <1>3, <2>2, Disks
  <2> QED BY <2>1, <2>3
<1> QED BY <1>1, <1>4, <1>5

\* A step adds to the latest credentials of a machine only those of an enrolment
\* it commits.
LEMMA LatestStep ==
    ASSUME Types, [Next]_vars, speedtests' = 0, NEW m \in Machines, NEW x \in Latest(m)'
    PROVE  x \in Latest(m) \/ EnrollCommit(x)
<1>0. x \in Attempts /\ x # None
  BY EnrollmentAssumption DEF Latest
<1>1. \/ x = config'[m]
      \/ x = agent'[m].creds
      \/ /\ attempt'[x].waiting /\ attempt'[x].machine = m
         /\ attempt'[x].at \in {"committed", "saved"}
  BY DEF Latest
<1>2. ASSUME NEW a \in Attempts, SaveConfig(a), attempt[a].machine = m PROVE a \in Latest(m)
  BY <1>2 DEF SaveConfig, ConfigWith, Latest
<1>3. CASE x = config'[m] \/ x = agent'[m].creds
  BY <1>0, <1>2, <1>3, Disks DEF Latest
<1>4. CASE /\ attempt'[x].waiting /\ attempt'[x].machine = m
           /\ attempt'[x].at \in {"committed", "saved"}
  <2>1. \/ attempt'[x] = attempt[x]
        \/ EnrollCommit(x)
        \/ SaveConfig(x) /\ attempt'[x].machine = attempt[x].machine
    BY <1>0, <1>4, Fates DEF Fate, Asks, Reads, IsRefused, Kept, Commits, Saves, Ends
  <2> QED BY <1>0, <1>2, <1>4, <2>1 DEF Latest
<1> QED BY <1>1, <1>3, <1>4

\* When an installer ends, its credentials are the only latest ones.
LEMMA EndsAlone ==
    ASSUME InstallInv, [Next]_vars, speedtests' = 0, NEW b \in Attempts, RestartService(b),
           NEW m \in Machines, m = attempt[b].machine, NEW x \in Latest(m)'
    PROVE  x = b
<1>1. /\ Types /\ attempt[b].waiting /\ attempt[b].at = "saved"
      /\ UNCHANGED <<config, speedtests>>
  BY DEF RestartService, InstallInv
<1>2. config[m] = b
  BY <1>1 DEF InstallInv, SavedIsOnDisk
<1>3. config'[m] = b /\ agent'[m].creds = b
  BY <1>1, <1>2 DEF RestartService, Started, Types, TypeOK
<1>4. ASSUME NEW y \in Attempts, attempt'[y].waiting, attempt'[y].machine = m PROVE FALSE
  <2>1. CASE y = b
    BY <1>1, <1>4, <2>1 DEF RestartService, Types, TypeOK, AttemptRecord
  <2>2. CASE y # b
    BY <1>1, <1>4, <2>2 DEF RestartService, InstallInv, OneInstaller, Types, TypeOK
  <2> QED BY <2>1, <2>2
<1> QED BY <1>3, <1>4 DEF Latest

\* Every step keeps that no other installer ended after the one whose credentials run.
LEMMA LatestIsLastStep == InstallInv /\ [Next]_vars => LatestIsLast'
<1> SUFFICES ASSUME InstallInv, [Next]_vars, speedtests' = 0,
                    NEW m \in Machines, NEW x \in Latest(m)', NEW b \in Attempts \ {x},
                    attempt'[b].machine = m, attempt'[b].at = "installed",
                    node'[Written(x)'].secret = b
             PROVE  FALSE
  BY DEF LatestIsLast
<1>1. Types /\ speedtests = 0 /\ x \in Attempts /\ x # None
  BY Disks, EnrollmentAssumption DEF InstallInv, Latest
<1>2. \/ attempt[b].machine = m /\ attempt[b].at = "installed"
      \/ RestartService(b) /\ attempt[b].machine = m
  BY <1>1, Fates DEF Fate, Asks, Reads, IsRefused, Kept, Commits, Saves, Ends
<1>3. ~RestartService(b)
  BY <1>2, EndsAlone
<1>4. x \in Latest(m) \/ EnrollCommit(x)
  BY <1>1, LatestStep
<1>5. attempt'[x].target = attempt[x].target
  <2>1. HasEnrolled(x) \/ EnrollCommit(x)
    BY <1>1, <1>4 DEF Latest, Types, Saved, Loaded, Delivered, HasEnrolled
  <2>2. attempt[x].at \notin {"new", "sent", "accepted"}
    BY <2>1 DEF HasEnrolled, EnrollCommit
  <2>3. EnrollCommit(x) => attempt'[x].target = attempt[x].target
    BY <1>1 DEF EnrollCommit, Types, TypeOK, AttemptRecord
  <2>4. HasEnrolled(x) => attempt'[x].target = attempt[x].target
    BY <1>1, Fates DEF Fate, Asks, Reads, IsRefused, Kept, HasEnrolled
  <2> QED BY <2>1, <2>3, <2>4
<1>6. Written(x)' = Written(x) /\ Written(x) \in Attempts
  BY <1>1, <1>5 DEF Written, Types, TypeOK, AttemptRecord
<1>7. CASE EnrollCommit(x)
  BY <1>1, <1>6, <1>7, CommitWrites
<1>8. CASE x \in Latest(m)
  <2>1. node[Written(x)].secret # b
    BY <1>1, <1>2, <1>3, <1>8 DEF InstallInv, LatestIsLast
  <2>2. b # None /\ ~EnrollCommit(b)
    BY <1>2, <1>3, EnrollmentAssumption DEF EnrollCommit
  <2> QED BY <1>1, <1>6, <2>1, <2>2, Secrets
<1> QED BY <1>4, <1>7, <1>8

\* A running agent can check in (InstalledAgentIsKnown): whatever installers,
\* restarts, wipes and administrators do, its token is the node's, unless a later
\* enrolment elsewhere, or one that did not come to its end, took it over.
THEOREM AgentIsKnown == Spec => []InstalledAgentIsKnown
<1>1. Init => InstallInv
  <2> SUFFICES ASSUME Init PROVE InstallInv
    OBVIOUS
  <2>1. Types
    BY TypesInit
  <2> QED BY <2>1 DEF Init, InstallInv, Minted, SecretIsKnown, OneInstaller, SavedIsOnDisk, LatestIsLast,
             Latest, NoAttempt, NoNode
<1>2. InstallInv /\ [Next]_vars => InstallInv'
  BY TypesStep, MintedStep, SecretStep, OneInstallerStep, OnDiskStep, LatestIsLastStep DEF InstallInv
<1>3. InstallInv => InstalledAgentIsKnown
  <2> SUFFICES ASSUME InstallInv, NEW m \in Machines, agent[m].creds # None, speedtests = 0,
                      node[Written(agent[m].creds)].row, node[Written(agent[m].creds)].active,
                      attempt[node[Written(agent[m].creds)].secret].machine = m,
                      attempt[node[Written(agent[m].creds)].secret].at = "installed"
               PROVE  agentToken[agent[m].creds] = Written(agent[m].creds)
    BY DEF InstalledAgentIsKnown
  <2> DEFINE a == agent[m].creds
             n == Written(a)
             b == node[n].secret
  <2>1. a \in Attempts /\ a \in Latest(m)
    BY DEF InstallInv, Types, Loaded, Delivered, Latest
  <2>2. n \in Attempts
    BY <2>1 DEF Written, InstallInv, Types, TypeOK, AttemptRecord
  <2>3. b \in Attempts /\ agentToken[b] = n
    BY <2>2 DEF InstallInv, SecretIsKnown
  <2>4. b = a
    BY <2>1, <2>3 DEF InstallInv, LatestIsLast
  <2> QED BY <2>3, <2>4
<1> QED BY <1>1, <1>2, <1>3, PTL DEF Spec
=============================================================================
