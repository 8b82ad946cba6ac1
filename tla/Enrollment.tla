------------------------------ MODULE Enrollment ------------------------------
(***************************************************************************)
(* Enrolment and the life of a node: enrolment tokens                      *)
(* (src/app/api/enrollment.py, enrollment_cleanup.py), the enrol and       *)
(* check-in handlers (src/app/api/agent.py), decommissioning and deletion  *)
(* (src/app/api/nodes.py), and on each machine the installer, the config   *)
(* file and the running agent process (agentloop/loop.go).                 *)
(*                                                                         *)
(* An attempt is one run of the installer.  It names what it may create:   *)
(* its UUID, its agent token and override secret, and its row in nodes.    *)
(* Handlers interleave between their reads; their writes up to the commit  *)
(* are one SQLite transaction with foreign keys on.                        *)
(***************************************************************************)
EXTENDS Naturals, FiniteSets

CONSTANTS
    Machines,
    Serial,        \* the serial number a machine reports, None if unreadable
    Tokens,        \* rows of enrollment_tokens
    Limit,         \* max_uses of each, 0 for NULL (unlimited)
    Expiring,      \* tokens with an expires_at
    Attempts,      \* runs of the installer
    MaxSpeedtests, \* scheduled speed tests that complete
    None

ASSUME EnrollmentAssumption ==
    /\ Limit \in [Tokens -> Nat] /\ Expiring \subseteq Tokens
    /\ MaxSpeedtests \in Nat
    /\ None \notin Machines \union Tokens \union Attempts

VARIABLES
    token,      \* rows of enrollment_tokens
    node,       \* rows of nodes, by the attempt that inserted them
    agentToken, \* the node whose unrevoked agent_tokens row an attempt minted
    attempt,    \* installer runs with their enrol handlers
    config,     \* config.json: the attempt whose answer it holds
    agent,      \* the agent process: the config it loaded, and what it does
    checkin,    \* the check-in handler of each machine's latest check-in
    speedtests

vars == <<token, node, agentToken, attempt, config, agent, checkin, speedtests>>
-----------------------------------------------------------------------------
NoToken == [state |-> "none", revoked |-> FALSE, expired |-> FALSE, used |-> 0]
NoNode == [row |-> FALSE, uuid |-> None, active |-> FALSE, serial |-> None,
           token |-> None, secret |-> None]
NoAttempt == [at |-> "new", waiting |-> FALSE, machine |-> None, token |-> None,
              uuid |-> None, count |-> 0, target |-> None]
Idle == [busy |-> FALSE, node |-> None, token |-> None]

TokenRow == [state : {"none", "row", "gone"}, revoked : BOOLEAN, expired : BOOLEAN, used : Nat]
NodeRow == [row : BOOLEAN, uuid : Attempts \union {None}, active : BOOLEAN,
            serial : {Serial[m] : m \in Machines} \union {None},
            token : Tokens \union {None}, secret : Attempts \union {None}]
AttemptRecord ==
    [at : {"new", "sent", "accepted", "found", "committed", "saved", "installed", "refused"},
     waiting : BOOLEAN, machine : Machines \union {None}, token : Tokens \union {None},
     uuid : Attempts \union {None}, count : Nat, target : Attempts \union {None}]
AgentProcess == [creds : Attempts \union {None}, doing : {"wait", "checkin", "speedtest"}]
Handler == [busy : BOOLEAN, node : Attempts \union {None}, token : Tokens \union {None}]

TypeOK ==
    /\ token \in [Tokens -> TokenRow]
    /\ node \in [Attempts -> NodeRow]
    /\ agentToken \in [Attempts -> Attempts \union {None}]
    /\ attempt \in [Attempts -> AttemptRecord]
    /\ config \in [Machines -> Attempts \union {None}]
    /\ agent \in [Machines -> AgentProcess]
    /\ checkin \in [Machines -> Handler]
    /\ speedtests \in 0..MaxSpeedtests

Init ==
    /\ token = [t \in Tokens |-> NoToken]
    /\ node = [a \in Attempts |-> NoNode]
    /\ agentToken = [a \in Attempts |-> None]
    /\ attempt = [a \in Attempts |-> NoAttempt]
    /\ config = [m \in Machines |-> None]
    /\ agent = [m \in Machines |-> [creds |-> None, doing |-> "wait"]]
    /\ checkin = [m \in Machines |-> Idle]
    /\ speedtests = 0
-----------------------------------------------------------------------------
\* Enrolment tokens

HasRow(t) == t # None /\ token[t].state = "row"

CreateToken(t) ==
    /\ token[t].state = "none"
    /\ token' = [token EXCEPT ![t].state = "row"]
    /\ UNCHANGED <<node, agentToken, attempt, config, agent, checkin, speedtests>>

\* A new secret for the same row.  Installers already past ReadToken go on.
RotateToken(t) ==
    /\ HasRow(t) /\ ~token[t].revoked
    /\ token' = [token EXCEPT ![t].used = 0]
    /\ UNCHANGED <<node, agentToken, attempt, config, agent, checkin, speedtests>>

RevokeToken(t) ==
    /\ HasRow(t)
    /\ token' = [token EXCEPT ![t].revoked = TRUE]
    /\ UNCHANGED <<node, agentToken, attempt, config, agent, checkin, speedtests>>

Expire(t) ==
    /\ t \in Expiring /\ HasRow(t)
    /\ token' = [token EXCEPT ![t].expired = TRUE]
    /\ UNCHANGED <<node, agentToken, attempt, config, agent, checkin, speedtests>>

\* DELETE FROM enrollment_tokens with ON DELETE SET NULL.
Without(t, nodes) ==
    [n \in Attempts |-> IF nodes[n].token = t THEN [nodes[n] EXCEPT !.token = None] ELSE nodes[n]]
Deleted(t) == [token EXCEPT ![t] = [NoToken EXCEPT !.state = "gone"]]

DeleteToken(t) ==
    /\ HasRow(t)
    /\ token' = Deleted(t)
    /\ node' = Without(t, node)
    /\ UNCHANGED <<agentToken, attempt, config, agent, checkin, speedtests>>

\* The daily sweep; its connection leaves foreign keys off, so nodes keep the
\* number of the row (ids are never used again).
CleanupToken(t) ==
    /\ HasRow(t) /\ ~token[t].revoked
    /\ token[t].expired \/ (Limit[t] # 0 /\ token[t].used = 0)
    /\ token' = Deleted(t)
    /\ UNCHANGED <<node, agentToken, attempt, config, agent, checkin, speedtests>>
-----------------------------------------------------------------------------
\* The installer asks

\* One installer at a time waits on a machine.  It keeps the UUID on disk.
Install(a, m, t) ==
    /\ attempt[a].at = "new" /\ HasRow(t)
    /\ \A b \in Attempts : attempt[b].machine = m => ~attempt[b].waiting
    /\ attempt' = [attempt EXCEPT ![a] =
            [NoAttempt EXCEPT !.at = "sent", !.waiting = TRUE, !.machine = m, !.token = t,
                !.uuid = IF config[m] = None THEN a ELSE attempt[config[m]].uuid]]
    /\ UNCHANGED <<token, node, agentToken, config, agent, checkin, speedtests>>

\* The client timed out, or the installer was interrupted; the handler goes on.
GiveUp(a) ==
    /\ attempt[a].waiting
    /\ attempt' = [attempt EXCEPT ![a].waiting = FALSE]
    /\ UNCHANGED <<token, node, agentToken, config, agent, checkin, speedtests>>
-----------------------------------------------------------------------------
\* POST /api/agent/enroll

Refuse(a) == attempt' = [attempt EXCEPT ![a] = [NoAttempt EXCEPT !.at = "refused"]]

Usable(t) ==
    /\ HasRow(t) /\ ~token[t].revoked /\ ~token[t].expired
    /\ Limit[t] = 0 \/ token[t].used < Limit[t]

ReadToken(a) ==
    /\ attempt[a].at = "sent"
    /\ IF Usable(attempt[a].token)
       THEN attempt' = [attempt EXCEPT ![a].at = "accepted",
                                       ![a].count = token[attempt[a].token].used]
       ELSE Refuse(a)
    /\ UNCHANGED <<token, node, agentToken, config, agent, checkin, speedtests>>

\* The node with this UUID, else a decommissioned one with this serial number.
ByUuid(u) == {n \in Attempts : node[n].row /\ node[n].uuid = u}
BySerial(s) == {n \in Attempts : node[n].row /\ ~node[n].active /\ s # None /\ node[n].serial = s}
Matches(a) ==
    IF ByUuid(attempt[a].uuid) # {} THEN ByUuid(attempt[a].uuid)
    ELSE BySerial(Serial[attempt[a].machine])

\* Mutant: all rows instead of the first.
FindAllNodes(a) ==
    /\ attempt[a].at = "accepted"
    /\ attempt' = [attempt EXCEPT ![a].at = "found", ![a].target = Matches(a)]
    /\ UNCHANGED <<token, node, agentToken, config, agent, checkin, speedtests>>

FindNode(a) ==
    /\ attempt[a].at = "accepted"
    /\ \E n \in IF Matches(a) = {} THEN {None} ELSE Matches(a) :
        attempt' = [attempt EXCEPT ![a].at = "found", ![a].target = n]
    /\ UNCHANGED <<token, node, agentToken, config, agent, checkin, speedtests>>

\* The row an attempt writes: the one it found, or one of its own.
Written(a) == IF attempt[a].target = None THEN a ELSE attempt[a].target

\* Mutant: foreign keys are off, as on the sweep's connection.
ForeignKeysOff(a) == \A n \in Attempts \ {Written(a)} : node[n].row => node[n].uuid # attempt[a].uuid

\* What the database accepts: the referenced token and node are still there, and
\* the UUID is not that of another row.
ConstraintsHold(a) ==
    /\ HasRow(attempt[a].token)
    /\ attempt[a].target # None => node[attempt[a].target].row
    /\ \A n \in Attempts \ {Written(a)} : node[n].row => node[n].uuid # attempt[a].uuid

Enrolled(a) ==
    [node EXCEPT ![Written(a)] =
        [@ EXCEPT !.row = TRUE, !.uuid = attempt[a].uuid, !.active = TRUE,
                  !.token = attempt[a].token, !.secret = a]]

\* Mutant: the older tokens of the node stay valid.
IssuedBeside(a) == [agentToken EXCEPT ![a] = Written(a)]

\* Mutant: the older tokens are revoked after the new one is stored.
IssuedThenRevoked(a) == [b \in Attempts |-> IF agentToken[b] = Written(a) \/ b = a THEN None ELSE agentToken[b]]

\* UPDATE agent_tokens SET revoked=1 for the node, then INSERT.
Issued(a) ==
    [b \in Attempts |-> IF b = a THEN Written(a)
                        ELSE IF agentToken[b] = Written(a) THEN None ELSE agentToken[b]]

\* The use count is the one read before, plus one.
Spent(a) == Limit[attempt[a].token] # 0 /\ attempt[a].count + 1 >= Limit[attempt[a].token]

\* Nothing reads the use count of an unlimited token; it is left out.
Counted(a) ==
    LET t == attempt[a].token IN
    IF Limit[t] = 0 THEN token ELSE [token EXCEPT ![t].used = attempt[a].count + 1]

EnrollCommit(a) ==
    /\ attempt[a].at = "found" /\ ConstraintsHold(a)
    /\ agentToken' = Issued(a)
    /\ LET t == attempt[a].token IN
        IF Spent(a)
        THEN token' = Deleted(t) /\ node' = Without(t, Enrolled(a))
        ELSE token' = Counted(a) /\ node' = Enrolled(a)
    /\ attempt' = [attempt EXCEPT ![a].at = "committed", ![a].count = 0]
    /\ UNCHANGED <<config, agent, checkin, speedtests>>

\* A constraint fails, the database stays locked, or the server stops: rollback.
EnrollFails(a) ==
    /\ attempt[a].at \in {"sent", "accepted", "found"}
    /\ Refuse(a)
    /\ UNCHANGED <<token, node, agentToken, config, agent, checkin, speedtests>>
-----------------------------------------------------------------------------
\* The installer goes on, and the agent runs

\* config.Save replaces the whole file.
ConfigWith(m, creds) == [config EXCEPT ![m] = creds]

\* Enroll ends with config.Save.
SaveConfig(a) ==
    /\ attempt[a].at = "committed" /\ attempt[a].waiting
    /\ config' = ConfigWith(attempt[a].machine, a)
    /\ attempt' = [attempt EXCEPT ![a].at = "saved"]
    /\ UNCHANGED <<token, node, agentToken, agent, checkin, speedtests>>

Started(m) == [agent EXCEPT ![m] = [creds |-> config[m], doing |-> "wait"]]

\* svcinstall.Install: the old process leaves its loop between two cycles, the new
\* one loads the config.
RestartService(a) ==
    LET m == attempt[a].machine IN
    /\ attempt[a].at = "saved" /\ attempt[a].waiting /\ agent[m].doing = "wait"
    /\ agent' = Started(m)
    /\ attempt' = [attempt EXCEPT ![a].at = "installed", ![a].waiting = FALSE]
    /\ UNCHANGED <<token, node, agentToken, config, checkin, speedtests>>

\* The process dies or the machine reboots; the service manager starts it again.
AgentRestarts(m) ==
    /\ agent[m].creds # None
    /\ agent' = Started(m)
    /\ UNCHANGED <<token, node, agentToken, attempt, config, checkin, speedtests>>

\* The machine is wiped, with an installer that may be running on it.
Wipe(m) ==
    /\ config[m] # None
    /\ config' = [config EXCEPT ![m] = None]
    /\ agent' = [agent EXCEPT ![m] = [creds |-> None, doing |-> "wait"]]
    /\ attempt' = [a \in Attempts |-> IF attempt[a].machine = m
                                      THEN [attempt[a] EXCEPT !.waiting = FALSE] ELSE attempt[a]]
    /\ UNCHANGED <<token, node, agentToken, checkin, speedtests>>

\* get_current_node: a revoked or unknown token is answered with 401.  Bound: one
\* check-in handler per machine.
Checkin(m) ==
    /\ agent[m].doing = "wait" /\ agent[m].creds # None /\ ~checkin[m].busy
    /\ agentToken[agent[m].creds] # None
    /\ LET n == agentToken[agent[m].creds] IN
        checkin' = [checkin EXCEPT ![m] = [busy |-> TRUE, node |-> n, token |-> node[n].token]]
    /\ agent' = [agent EXCEPT ![m].doing = "checkin"]
    /\ UNCHANGED <<token, node, agentToken, attempt, config, speedtests>>

Answered(m, next) ==
    agent' = IF agent[m].doing = "checkin" THEN [agent EXCEPT ![m].doing = next] ELSE agent

\* The handler's transaction, with what it read of the node when it authenticated:
\* the node's enrolment token is deleted, and the node is updated.  A speed test
\* that is due runs in the same cycle.
CheckinCommit(m) ==
    LET n == checkin[m].node
        t == checkin[m].token
        updated == IF node[n].row THEN [node EXCEPT ![n].serial = Serial[m]] ELSE node
    IN
    /\ checkin[m].busy
    /\ token' = IF HasRow(t) THEN Deleted(t) ELSE token
    /\ node' = IF HasRow(t) THEN Without(t, updated) ELSE updated
    /\ checkin' = [checkin EXCEPT ![m] = Idle]
    /\ Answered(m, "wait") \/ (speedtests < MaxSpeedtests /\ Answered(m, "speedtest"))
    /\ UNCHANGED <<agentToken, attempt, config, speedtests>>

\* The node was deleted meanwhile and metrics or inventory refer to it, the
\* database stays locked, or the server stops.
CheckinFails(m) ==
    /\ checkin[m].busy
    /\ checkin' = [checkin EXCEPT ![m] = Idle]
    /\ Answered(m, "wait")
    /\ UNCHANGED <<token, node, agentToken, attempt, config, speedtests>>

\* The client's timeout; the handler goes on.
CheckinTimeout(m) ==
    /\ agent[m].doing = "checkin"
    /\ agent' = [agent EXCEPT ![m].doing = "wait"]
    /\ UNCHANGED <<token, node, agentToken, attempt, config, checkin, speedtests>>

\* maybeRunScheduledSpeedtest saves the whole config the process once loaded.
SpeedtestEnds(m) ==
    /\ agent[m].doing = "speedtest"
    /\ speedtests < MaxSpeedtests
    /\ speedtests' = speedtests + 1
    /\ config' = ConfigWith(m, agent[m].creds)
    /\ agent' = [agent EXCEPT ![m].doing = "wait"]
    /\ UNCHANGED <<token, node, agentToken, attempt, checkin>>

\* speedtest.Run returns an error and nothing is saved.
SpeedtestFails(m) ==
    /\ agent[m].doing = "speedtest"
    /\ agent' = [agent EXCEPT ![m].doing = "wait"]
    /\ UNCHANGED <<token, node, agentToken, attempt, config, checkin, speedtests>>
-----------------------------------------------------------------------------
\* Administration of nodes

Decommission(n) ==
    /\ node[n].row
    /\ node' = [node EXCEPT ![n].active = FALSE, ![n].secret = None]
    /\ agentToken' = [a \in Attempts |-> IF agentToken[a] = n THEN None ELSE agentToken[a]]
    /\ UNCHANGED <<token, attempt, config, agent, checkin, speedtests>>

\* DELETE FROM nodes; its agent_tokens go with it (ON DELETE CASCADE).
DeleteNode(n) ==
    /\ node[n].row
    /\ node' = [node EXCEPT ![n] = NoNode]
    /\ agentToken' = [a \in Attempts |-> IF agentToken[a] = n THEN None ELSE agentToken[a]]
    /\ UNCHANGED <<token, attempt, config, agent, checkin, speedtests>>
-----------------------------------------------------------------------------
TokenStep(t) ==
    \/ CreateToken(t) \/ RotateToken(t) \/ RevokeToken(t) \/ Expire(t)
    \/ DeleteToken(t) \/ CleanupToken(t)

AttemptStep(a) ==
    \/ \E m \in Machines, t \in Tokens : Install(a, m, t)
    \/ GiveUp(a) \/ ReadToken(a) \/ FindNode(a) \/ EnrollCommit(a) \/ EnrollFails(a)
    \/ SaveConfig(a) \/ RestartService(a)

MachineStep(m) ==
    \/ AgentRestarts(m) \/ Wipe(m)
    \/ Checkin(m) \/ CheckinCommit(m) \/ CheckinFails(m) \/ CheckinTimeout(m)
    \/ SpeedtestEnds(m) \/ SpeedtestFails(m)

Next ==
    \/ \E t \in Tokens : TokenStep(t)
    \/ \E a \in Attempts : AttemptStep(a)
    \/ \E m \in Machines : MachineStep(m)
    \/ \E n \in Attempts : Decommission(n) \/ DeleteNode(n)

Spec == Init /\ [][Next]_vars
-----------------------------------------------------------------------------
\* Properties

HasEnrolled(a) == attempt[a].at \in {"committed", "saved", "installed"}

\* A single-use token enrols one node at most and is gone with it, although the
\* handler counts with a value it read before: the second transaction refers to a
\* deleted row and fails (agent.py, enroll).
SingleUseToken ==
    \A a, b \in Attempts :
        (HasEnrolled(a) /\ Limit[attempt[a].token] = 1) =>
            /\ token[attempt[a].token].state = "gone"
            /\ HasEnrolled(b) /\ attempt[b].token = attempt[a].token => a = b

\* A valid agent token is the one of the node's last enrolment, which also issued
\* its override secret, and the node is active: no older copy and no
\* decommissioned node checks in.
AgentTokenIsCurrent ==
    \A a \in Attempts : agentToken[a] # None =>
        LET n == node[agentToken[a]] IN n.row /\ n.active /\ n.secret = a

\* A running agent can check in, as long as no scheduled speed test wrote its
\* config back, unless its node was removed or decommissioned, or a later
\* enrolment of the node by another machine, or by an installer that has not come
\* to its end here, replaced its token.
InstalledAgentIsKnown ==
    \A m \in Machines :
        LET a == agent[m].creds IN
        (a # None /\ speedtests = 0) =>
            LET n == Written(a)
                b == node[n].secret
            IN  \/ agentToken[a] = n
                \/ ~node[n].row \/ ~node[n].active
                \/ attempt[b].machine # m \/ attempt[b].at # "installed"

\* svcinstall_linux.go: "restart is correct either way", so that the agent does not
\* keep "running on its old, now-stale token".
RestartTakesNewConfig ==
    [][\A a \in Attempts :
        (attempt[a].at = "saved" /\ attempt'[a].at = "installed")
            => agent'[attempt[a].machine].creds = a]_vars
=============================================================================
