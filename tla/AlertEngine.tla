----------------------------- MODULE AlertEngine -----------------------------
(***************************************************************************)
(* The alert engine (src/app/alerts/engine.py): once a minute it reads the *)
(* enabled rules and, rule by rule, the nodes, opens an event for every    *)
(* node that a rule finds in a bad state and resolves the events of the    *)
(* others.  Administrators edit rules, groups and nodes meanwhile, agents  *)
(* check in and time passes.                                               *)
(*                                                                         *)
(* One evaluation is one database connection.  Until its first write each  *)
(* SELECT sees the database of its own moment; the first INSERT or UPDATE  *)
(* opens a transaction that keeps every other writer out until the commit  *)
(* at the end, or until an exception rolls it back.                        *)
(***************************************************************************)
EXTENDS Integers, FiniteSets, SequencesExt

CONSTANTS
    Nodes,      \* rows of nodes
    Rules,      \* ids of alert_rules
    Groups,     \* names of groups
    Kinds,      \* rule types in use
    Levels,     \* readings, a higher one being worse: CPU, memory, used disk
    Thresholds, \* a reading above the threshold is bad
    Default,    \* the threshold of a new rule
    Inherit, NoReading, Invalid,
    Earlier,    \* what a rule's overrides may be at the start
    MaxUpsets   \* bound: administrators' changes and broken-off evaluations

Measured == Kinds \ {"node_offline"}

VARIABLES
    rule,       \* alert_rules: state, kind, threshold
    node,       \* nodes: row, seen, readings, groups, alert_host_down_override
    groups,     \* names of the groups that exist
    overrides,  \* group_alert_overrides of each rule, in the order of their ids
    hostDown,   \* the setting alert_host_down_enabled
    events,     \* committed open events of each rule and node
    engine,     \* the evaluation in progress
    upsets

vars == <<rule, node, groups, overrides, hostDown, events, engine, upsets>>
config == <<rule, groups, overrides, hostDown>>

-----------------------------------------------------------------------------
\* Data

RuleSet == [state : {"absent", "on", "off", "deleted"}, kind : Kinds,
            threshold : Thresholds \union {Invalid}]
NodeSet == [row : {"active", "inactive", "deleted"}, seen : {"never", "recent", "late"},
            reading : [Measured -> Levels \union {NoReading}],
            groups : SUBSET Groups, alert : BOOLEAN \union {Inherit}]
\* saved is updated_at, counted in changes; what was saved before the start has 0 or less.
OverrideSet == [group : Groups, enabled : BOOLEAN \union {Inherit},
                threshold : Thresholds \union {Inherit}, saved : Int]

ASSUME AlertAssumption ==
    /\ Rules \subseteq Nat 
    /\ Kinds \subseteq {"node_offline", "disk_low", "cpu_high", "mem_high"}
    /\ Levels \subseteq Nat /\ Thresholds \subseteq Nat /\ Default \in Thresholds
    /\ Inherit \notin Thresholds /\ Inherit \notin BOOLEAN
    /\ NoReading \notin Levels /\ Invalid \notin Thresholds
    /\ MaxUpsets \in Nat
    /\ Earlier \subseteq Seq(OverrideSet)
    /\ \A rows \in Earlier : \A i, j \in DOMAIN rows : rows[i].group = rows[j].group => i = j

Events == [Rules -> [Nodes -> Nat]]

NoEvents == [r \in Rules |-> [n \in Nodes |-> 0]]
NoRule   == [id |-> 0, kind |-> "none", threshold |-> 0]
NoJobs   == [n \in Nodes |-> "none"]

\* No evaluation in progress.
Asleep == [phase |-> "asleep", todo |-> {}, current |-> NoRule, hostDown |-> TRUE,
           overrides |-> <<>>, jobs |-> NoJobs, locked |-> FALSE, events |-> NoEvents]

\* A node that has enrolled and not checked in yet.
Enrolled == [row |-> "active", seen |-> "never", groups |-> {}, alert |-> Inherit,
             reading |-> [k \in Measured |-> NoReading]]

Init ==
    /\ rule \in [Rules -> [state : {"on", "absent"}, kind : Kinds, threshold : {Default}]]
    /\ \E S \in SUBSET Groups :
         node = [n \in Nodes |-> [Enrolled EXCEPT !.groups = S]]
    /\ groups = Groups
    /\ overrides \in [Rules -> Earlier]
    /\ \A r \in Rules : rule[r].state = "absent" => overrides[r] = <<>>
    /\ hostDown = TRUE
    /\ events = NoEvents
    /\ engine = Asleep
    /\ upsets = 0

Exists(r)   == rule[r].state \in {"on", "off"}
HasRow(n)   == node[n].row # "deleted"
CanWrite    == ~engine.locked

-----------------------------------------------------------------------------
\* Administrators.  Every handler is one transaction.

Edit == CanWrite /\ upsets < MaxUpsets /\ upsets' = upsets + 1 /\ UNCHANGED engine

\* What POST and PUT /api/alerts/rules accept, and a row of an import.
RuleValues == [state : {"on", "off"}, kind : Kinds, threshold : Thresholds \union {Invalid}]

CreateRule(r) ==
    /\ Edit
    /\ rule[r].state = "absent"
    /\ \E v \in RuleValues : rule' = [rule EXCEPT ![r] = v]
    /\ UNCHANGED <<node, groups, overrides, hostDown, events>>

\* import_rules_csv: every row that can be read is inserted, in one transaction.
ImportRules ==
    /\ Edit
    /\ \E rows \in SUBSET {r \in Rules : rule[r].state = "absent"} :
         \E new \in [rows -> RuleValues] :
           rule' = [r \in Rules |-> IF r \in rows THEN new[r] ELSE rule[r]]
    /\ UNCHANGED <<node, groups, overrides, hostDown, events>>

UpdateRule(r) ==
    /\ Edit
    /\ Exists(r)
    /\ \E v \in RuleValues : rule' = [rule EXCEPT ![r] = v]
    /\ UNCHANGED <<node, groups, overrides, hostDown, events>>

\* The new value is computed from a row read before the transaction, so two
\* toggles at once may write the same one.
ToggleRule(r) ==
    /\ Edit
    /\ Exists(r)
    /\ \E on \in {"on", "off"} : rule' = [rule EXCEPT ![r].state = on]
    /\ UNCHANGED <<node, groups, overrides, hostDown, events>>

DeleteRule(r) ==
    /\ Edit
    /\ Exists(r)
    /\ rule' = [rule EXCEPT ![r].state = "deleted"]
    /\ overrides' = [overrides EXCEPT ![r] = <<>>]
    /\ events' = [events EXCEPT ![r] = NoEvents[r]]
    /\ UNCHANGED <<node, groups, hostDown>>

CreateGroup(g) ==
    /\ Edit
    /\ g \notin groups
    /\ groups' = groups \union {g}
    /\ UNCHANGED <<rule, node, overrides, hostDown, events>>

\* The row of a group among the overrides of a rule goes; there is one at most.
WithoutGroup(rows, g) ==
    IF \E i \in DOMAIN rows : rows[i].group = g
    THEN RemoveAt(rows, CHOOSE i \in DOMAIN rows : rows[i].group = g)
    ELSE rows

DeleteGroup(g) ==
    /\ Edit
    /\ g \in groups
    /\ groups' = groups \ {g}
    /\ overrides' = [r \in Rules |-> WithoutGroup(overrides[r], g)]
    /\ node' = [n \in Nodes |-> IF HasRow(n) THEN [node[n] EXCEPT !.groups = @ \ {g}] ELSE node[n]]
    /\ UNCHANGED <<rule, hostDown, events>>

\* Mutant: saving an override again adds a second row.
AppendedAlways(rows, o) == Append(rows, o)

\* An upsert: an existing row of the group keeps its id, and so its place, although it
\* is now the one saved last.
Upserted(rows, o) ==
    IF \E i \in DOMAIN rows : rows[i].group = o.group
    THEN [i \in DOMAIN rows |-> IF rows[i].group = o.group THEN o ELSE rows[i]]
    ELSE Append(rows, o)

SetGroupOverride(g, r) ==
    /\ Edit
    /\ g \in groups /\ Exists(r)
    /\ \E o \in [group : {g}, enabled : BOOLEAN \union {Inherit}, threshold : Thresholds \union {Inherit},
             saved : {upsets + 1}] :
         overrides' = [overrides EXCEPT ![r] =
             IF o.enabled = Inherit /\ o.threshold = Inherit
             THEN WithoutGroup(@, g)
             ELSE Upserted(@, o)]
    /\ UNCHANGED <<rule, node, groups, hostDown, events>>

SetHostDown ==
    /\ Edit
    /\ hostDown' \in BOOLEAN
    /\ UNCHANGED <<rule, node, groups, overrides, events>>

SetAlertOverride(n) ==
    /\ Edit
    /\ HasRow(n)
    /\ \E v \in BOOLEAN \union {Inherit} : node' = [node EXCEPT ![n].alert = v]
    /\ UNCHANGED <<config, events>>

\* The names are looked up before the transaction: a group deleted meanwhile may
\* still be among them.
AssignGroups(n) ==
    /\ Edit
    /\ HasRow(n)
    /\ \E S \in SUBSET Groups : node' = [node EXCEPT ![n].groups = S]
    /\ UNCHANGED <<config, events>>

Decommission(n) ==
    /\ Edit
    /\ HasRow(n)
    /\ node' = [node EXCEPT ![n].row = "inactive"]
    /\ UNCHANGED <<config, events>>

\* The foreign key takes the resolved events along with the node.
DeleteNode(n) ==
    /\ Edit
    /\ HasRow(n)
    /\ node' = [node EXCEPT ![n] = [Enrolled EXCEPT !.row = "deleted"]]
    /\ events' = [r \in Rules |-> [events[r] EXCEPT ![n] = 0]]
    /\ UNCHANGED config

Administer ==
    \/ \E r \in Rules : CreateRule(r) \/ UpdateRule(r) \/ ToggleRule(r) \/ DeleteRule(r)
    \/ \E g \in Groups : CreateGroup(g) \/ DeleteGroup(g) \/ \E r \in Rules : SetGroupOverride(g, r)
    \/ ImportRules \/ SetHostDown
    \/ \E n \in Nodes : SetAlertOverride(n) \/ AssignGroups(n) \/ Decommission(n) \/ DeleteNode(n)

-----------------------------------------------------------------------------
\* Agents, time and retention

\* The check-in may have authenticated before the node was decommissioned.
Checkin(n) ==
    /\ CanWrite
    /\ HasRow(n)
    /\ \E f \in [Measured -> Levels \union {NoReading}] :
         /\ \A k \in Measured : f[k] = NoReading => node[n].reading[k] = NoReading
         /\ node' = [node EXCEPT ![n].seen = "recent", ![n].reading = f]
    /\ UNCHANGED <<config, events, engine, upsets>>

Reenroll(n) ==
    /\ CanWrite
    /\ node[n].row = "inactive"
    /\ node' = [node EXCEPT ![n].row = "active"]
    /\ UNCHANGED <<config, events, engine, upsets>>

FallSilent(n) ==
    /\ node[n].seen = "recent"
    /\ node' = [node EXCEPT ![n].seen = "late"]
    /\ UNCHANGED <<config, events, engine, upsets>>

\* Samples leave the time window of a CPU or memory rule.
WindowMoves(n, k) ==
    /\ k # "disk_low"
    /\ node[n].reading[k] # NoReading
    /\ \E v \in Levels \union {NoReading} : node' = [node EXCEPT ![n].reading[k] = v]
    /\ UNCHANGED <<config, events, engine, upsets>>

\* An event older than the retention time is deleted, also an open one.
Cleanup(r, n) ==
    /\ CanWrite
    /\ events[r][n] > 0
    /\ events' = [events EXCEPT ![r][n] = 0]
    /\ UNCHANGED <<config, node, engine, upsets>>

Environment ==
    \E n \in Nodes :
        \/ Checkin(n) \/ Reenroll(n) \/ FallSilent(n)
        \/ \E k \in Measured : WindowMoves(n, k)
        \/ \E r \in Rules : Cleanup(r, n)

-----------------------------------------------------------------------------
\* One evaluation

\* The open events as the evaluation sees them.
Seen == IF engine.locked THEN engine.events ELSE events

\* Mutant: _fire does not look for an open event.
FireAgain(table, r, n) == [table EXCEPT ![r][n] = @ + 1]

Fire(table, r, n)    == IF table[r][n] > 0 THEN table ELSE [table EXCEPT ![r][n] = @ + 1]
Resolve(table, r, n) == [table EXCEPT ![r][n] = 0]

\* Mutant: the first override that sets the field wins.
FirstSet(values, dflt) ==
    FoldRight(LAMBDA v, acc : IF v = Inherit THEN acc ELSE v, values, dflt)

\* Of the overrides of a node's groups the one with the highest id wins, for
\* each field by itself; dflt when none sets the field.
LastSet(values, dflt) == FoldLeft(LAMBDA acc, v : IF v = Inherit THEN acc ELSE v, dflt, values)
Matching(rows, S)     == SelectSeq(rows, LAMBDA o : o.group \in S)
GroupEnabled(n, dflt) ==
    LET rows == Matching(engine.overrides, node[n].groups)
    IN  LastSet([i \in DOMAIN rows |-> rows[i].enabled], dflt)
GroupThreshold(n, dflt) ==
    LET rows == Matching(engine.overrides, node[n].groups)
    IN  LastSet([i \in DOMAIN rows |-> rows[i].threshold], dflt)

EffectiveEnabled(n) ==
    IF node[n].alert # Inherit THEN node[n].alert ELSE GroupEnabled(n, engine.hostDown)

Evaluating(phase) == engine.phase = phase /\ UNCHANGED <<node, config, upsets>>
JobsDone == engine.jobs = NoJobs

StartEvaluation ==
    /\ Evaluating("asleep")
    /\ engine' = [engine EXCEPT !.phase = "rules",
                  !.todo = {[id |-> r, kind |-> rule[r].kind, threshold |-> rule[r].threshold] :
                              r \in {x \in Rules : rule[x].state = "on"}}]
    /\ UNCHANGED events

\* The next rule, as it was read at the start, with its overrides and the
\* setting as they are now.
NextRule ==
    /\ Evaluating("rules")
    /\ \E r \in engine.todo :
         /\ \A x \in engine.todo : r.id <= x.id
         /\ r.kind \in Measured => r.threshold # Invalid
         /\ engine' = [engine EXCEPT !.phase = "nodes", !.todo = @ \ {r}, !.current = r,
                       !.overrides = overrides[r.id], !.hostDown = hostDown]
    /\ UNCHANGED events

\* A threshold that is no number raises, and the whole evaluation is lost.
RuleRaises ==
    /\ Evaluating("rules")
    /\ \E r \in engine.todo :
         /\ \A x \in engine.todo : r.id <= x.id
         /\ r.kind \in Measured /\ r.threshold = Invalid
    /\ engine' = Asleep
    /\ UNCHANGED events

Current == engine.current

Plan(phase, jobs) == engine' = [engine EXCEPT !.phase = phase, !.jobs = jobs] /\ UNCHANGED events

FindLate ==
    /\ Evaluating("nodes")
    /\ Current.kind = "node_offline"
    /\ Plan("late", [n \in Nodes |->
           IF node[n].row = "active" /\ node[n].seen = "late" /\ EffectiveEnabled(n)
           THEN "fire" ELSE "none"])

FindRecovered ==
    /\ Evaluating("late")
    /\ JobsDone
    /\ Plan("recovered", [n \in Nodes |->
           IF /\ Seen[Current.id][n] > 0 /\ HasRow(n)
              /\ node[n].row = "inactive" \/ node[n].seen = "recent"
           THEN "resolve" ELSE "none"])

FindSuppressed ==
    /\ Evaluating("recovered")
    /\ JobsDone
    /\ Plan("last", [n \in Nodes |->
           IF Seen[Current.id][n] > 0 /\ HasRow(n) /\ ~EffectiveEnabled(n)
           THEN "resolve" ELSE "none"])

Judged(n, r) == node[n].row = "active" /\ node[n].reading[r.kind] # NoReading

FindMeasured ==
    /\ Evaluating("nodes")
    /\ Current.kind \in Measured
    /\ Plan("last", [n \in Nodes |->
           IF ~Judged(n, Current) THEN "none"
           ELSE IF GroupEnabled(n, TRUE)
                   /\ node[n].reading[Current.kind] > GroupThreshold(n, Current.threshold)
           THEN "fire" ELSE "resolve"])

\* A write opens the transaction; firing what is open already writes nothing.
ApplyJob(n) ==
    LET table == IF engine.jobs[n] = "fire" THEN Fire(Seen, Current.id, n)
                 ELSE Resolve(Seen, Current.id, n)
        writes == engine.jobs[n] = "resolve" \/ table # Seen
    IN  /\ engine.jobs[n] # "none"
        /\ engine' = [engine EXCEPT !.jobs[n] = "none",
                      !.locked = @ \/ writes,
                      !.events = IF writes THEN table ELSE @]
        /\ UNCHANGED <<node, config, events, upsets>>

RuleDone ==
    /\ Evaluating("last")
    /\ JobsDone
    /\ engine' = [engine EXCEPT !.phase = "rules", !.current = NoRule, !.overrides = <<>>, !.hostDown = TRUE]
    /\ UNCHANGED events

Commit ==
    /\ Evaluating("rules")
    /\ engine.todo = {}
    /\ events' = Seen
    /\ engine' = Asleep

\* "database is locked", or the server goes down: nothing is committed.
BreakOff ==
    /\ engine.phase # "asleep"
    /\ upsets < MaxUpsets
    /\ upsets' = upsets + 1
    /\ engine' = Asleep
    /\ UNCHANGED <<node, config, events>>

Evaluate ==
    \/ StartEvaluation \/ NextRule \/ RuleRaises
    \/ FindLate \/ FindRecovered \/ FindSuppressed \/ FindMeasured
    \/ \E n \in Nodes : ApplyJob(n)
    \/ RuleDone \/ Commit

Next == Administer \/ Environment \/ Evaluate \/ BreakOff

Spec == Init /\ [][Next]_vars

\* The loop sleeps a minute and goes on, whatever an evaluation raised.
FairSpec == Spec /\ WF_vars(Evaluate)

-----------------------------------------------------------------------------
\* Properties

\* Every variable keeps its type, and a rule has one override of a group at most
\* (UNIQUE(group_name, rule_id)).
TypeOK ==
    /\ rule \in [Rules -> RuleSet]
    /\ node \in [Nodes -> NodeSet]
    /\ groups \subseteq Groups
    /\ \A r \in Rules :
         /\ overrides[r] \in Seq(OverrideSet)
         /\ \A i, j \in DOMAIN overrides[r] :
              overrides[r][i].group = overrides[r][j].group => i = j
    /\ hostDown \in BOOLEAN
    /\ events \in Events
    /\ engine.jobs \in [Nodes -> {"none", "fire", "resolve"}]
    /\ engine.events \in Events

\* "One rule fires at most one open (unresolved) event per node at a time"
\* (engine.py:31), although nothing but the SELECT in _fire prevents a second.
OneOpenEvent == \A r \in Rules, n \in Nodes : events[r][n] <= 1

\* What the documents say of the override chain: of the groups of a node that set a
\* field "whichever group's setting was saved most recently wins" (README.md:753-757).
Setting(r, n, field, dflt) ==
    LET rows == overrides[r]
        set  == {i \in DOMAIN rows : rows[i].group \in node[n].groups /\ rows[i][field] # Inherit}
    IN  IF set = {} THEN dflt
        ELSE rows[CHOOSE i \in set : \A j \in set : rows[j].saved <= rows[i].saved][field]

\* No override was saved again after a later group's.  The engine goes by the id of the
\* row, which a second save keeps; engine.py:19-21 takes the two for the same.
SavedInOrder(r) ==
    \A i, j \in DOMAIN overrides[r] : i < j => overrides[r][i].saved < overrides[r][j].saved

AlertOn(r, n) ==
    IF rule[r].kind # "node_offline" THEN Setting(r, n, "enabled", TRUE)
    ELSE IF node[n].alert # Inherit THEN node[n].alert
    ELSE Setting(r, n, "enabled", hostDown)

Bad(r, n) ==
    IF rule[r].kind = "node_offline" THEN node[n].seen = "late"
    ELSE /\ node[n].reading[rule[r].kind] # NoReading
         /\ node[n].reading[rule[r].kind] > Setting(r, n, "threshold", rule[r].threshold)

\* One enabled rule whose threshold is no number stops all the others.
Sound == \A r \in Rules : rule[r].state = "on" /\ rule[r].kind \in Measured
                            => rule[r].threshold # Invalid

Wanted(r, n) == rule[r].state = "on" /\ node[n].row = "active" /\ AlertOn(r, n) /\ Bad(r, n)

\* The engine can decide: a measured rule looks at active nodes with a reading
\* only, and so leaves the events of the others open.
Decided(r, n) ==
    /\ rule[r].state = "on" /\ HasRow(n)
    /\ rule[r].kind \in Measured => Judged(n, rule[r])

\* A node that stays in a bad state, with the alert on, gets its event, and gets
\* it again whenever retention or an administrator removed it.
AlertOpens == \A r \in Rules, n \in Nodes :
    <>[](Sound /\ SavedInOrder(r) /\ Wanted(r, n)) => []<>(events[r][n] > 0)

\* Once the state is good, the node is decommissioned (node_offline) or the alert
\* is turned off at any level, the event is resolved for good, whatever overlapped.
AlertClears == \A r \in Rules, n \in Nodes :
    <>[](Sound /\ SavedInOrder(r) /\ Decided(r, n) /\ ~Wanted(r, n)) => <>[](events[r][n] = 0)

\* What is open is in the end what the documents' override chain says of the nodes,
\* unless an override was edited after a later one was added: then the engine follows
\* the row added last, not the one saved last.
EventsFollowNodes == AlertOpens /\ AlertClears
=============================================================================
