-------------------------- MODULE AlertEngine_proofs --------------------------
(***************************************************************************)
(* Proofs about AlertEngine, for any nodes, rules, groups, readings and     *)
(* thresholds and any number of administrators' changes and broken-off      *)
(* evaluations: typing, with one override of a group for each rule, and at  *)
(* most one open event of a rule for a node.                                *)
(***************************************************************************)
EXTENDS AlertEngine, SequenceTheorems, TLAPS

\* A row of alert_rules as an evaluation read it, and the state of an evaluation.
RuleRow == [id : Rules, kind : Kinds, threshold : Thresholds \union {Invalid}]
Jobs == [Nodes -> {"none", "fire", "resolve"}]
Evaluations ==
    [phase : {"asleep", "rules", "nodes", "late", "recovered", "last"},
     todo : SUBSET RuleRow, current : RuleRow \union {NoRule}, hostDown : BOOLEAN,
     overrides : Seq(OverrideSet), jobs : Jobs, locked : BOOLEAN, events : Events]

\* A rule has one override of a group at most.
OneOfEach(rows) == \A i, j \in DOMAIN rows : rows[i].group = rows[j].group => i = j

\* The type invariant with the shape of the evaluation, so that its record can be
\* written field by field.
TypeInv ==
    /\ rule \in [Rules -> RuleSet]
    /\ node \in [Nodes -> NodeSet]
    /\ groups \subseteq Groups
    /\ overrides \in [Rules -> Seq(OverrideSet)]
    /\ \A r \in Rules : OneOfEach(overrides[r])
    /\ hostDown \in BOOLEAN
    /\ events \in Events
    /\ engine \in Evaluations
    /\ upsets \in Nat
-----------------------------------------------------------------------------
\* The rows of an override table

\* A sequence without its element i: what was before it stays, the rest moves up.
LEMMA RemoveAtProperties ==
    ASSUME NEW S, NEW rows \in Seq(S), NEW i \in 1 .. Len(rows)
    PROVE  /\ RemoveAt(rows, i) \in Seq(S)
           /\ Len(RemoveAt(rows, i)) = Len(rows) - 1
           /\ \A k \in 1 .. Len(rows) - 1 :
                RemoveAt(rows, i)[k] = IF k < i THEN rows[k] ELSE rows[k + 1]
<1> DEFINE front == SubSeq(rows, 1, i - 1)
           back  == SubSeq(rows, i + 1, Len(rows))
<1>1. Len(rows) \in Nat /\ \A k \in 1 .. Len(rows) : rows[k] \in S
  BY ElementOfSeq, LenProperties
<1>2. /\ front \in Seq(S) /\ Len(front) = i - 1
      /\ \A k \in 1 .. i - 1 : front[k] = rows[k]
  <2>1. \A k \in 1 .. i - 1 : rows[k] \in S
    BY <1>1
  <2>2. 1 \in Int /\ i - 1 \in Int
    BY <1>1
  <2> HIDE DEF front
  <2>3. /\ front \in Seq(S) /\ Len(front) = IF 1 <= i - 1 THEN (i - 1) - 1 + 1 ELSE 0
        /\ \A k \in 1 .. (i - 1) - 1 + 1 : front[k] = rows[1 + k - 1]
    BY <2>1, <2>2, SubSeqProperties DEF front
  <2> QED BY <1>1, <2>3
<1>3. /\ back \in Seq(S) /\ Len(back) = Len(rows) - i
      /\ \A k \in 1 .. Len(rows) - i : back[k] = rows[i + k]
  <2>1. \A k \in i + 1 .. Len(rows) : rows[k] \in S
    BY <1>1
  <2>2. i + 1 \in Int /\ Len(rows) \in Int
    BY <1>1
  <2> HIDE DEF back
  <2>3. /\ back \in Seq(S)
        /\ Len(back) = IF i + 1 <= Len(rows) THEN Len(rows) - (i + 1) + 1 ELSE 0
        /\ \A k \in 1 .. Len(rows) - (i + 1) + 1 : back[k] = rows[(i + 1) + k - 1]
    BY <2>1, <2>2, SubSeqProperties DEF back
  <2> QED BY <1>1, <2>3
<1> HIDE DEF front, back
<1>4. /\ front \o back \in Seq(S) /\ Len(front \o back) = Len(front) + Len(back)
      /\ \A k \in 1 .. Len(front) + Len(back) :
           (front \o back)[k] = IF k <= Len(front) THEN front[k] ELSE back[k - Len(front)]
  BY <1>2, <1>3, ConcatProperties
<1>5. RemoveAt(rows, i) = front \o back
  BY DEF RemoveAt, front, back
<1>6. ASSUME NEW k \in 1 .. Len(rows) - 1
      PROVE  (front \o back)[k] = IF k < i THEN rows[k] ELSE rows[k + 1]
  <2>1. (front \o back)[k] = IF k <= i - 1 THEN front[k] ELSE back[k - (i - 1)]
    BY <1>1, <1>2, <1>3, <1>4
  <2>2. CASE k < i
    <3>1. k <= i - 1 /\ k \in 1 .. i - 1
      BY <1>1, <2>2
    <3> QED BY <1>2, <2>1, <2>2, <3>1
  <2>3. CASE ~(k < i)
    <3>1. ~(k <= i - 1) /\ k - (i - 1) \in 1 .. Len(rows) - i /\ i + (k - (i - 1)) = k + 1
      BY <1>1, <2>3
    <3> QED BY <1>3, <2>1, <2>3, <3>1
  <2> QED BY <2>2, <2>3
<1>7. Len(front \o back) = Len(rows) - 1
  BY <1>1, <1>2, <1>3, <1>4
<1> HIDE DEF RemoveAt
<1> QED BY <1>4, <1>5, <1>6, <1>7

\* Dropping an override leaves one of each group.
LEMMA WithoutGroupKeeps ==
    ASSUME NEW rows \in Seq(OverrideSet), OneOfEach(rows), NEW g
    PROVE  WithoutGroup(rows, g) \in Seq(OverrideSet) /\ OneOfEach(WithoutGroup(rows, g))
<1>1. CASE ~\E i \in DOMAIN rows : rows[i].group = g
  BY <1>1 DEF WithoutGroup
<1>2. CASE \E i \in DOMAIN rows : rows[i].group = g
  <2> DEFINE c == CHOOSE i \in DOMAIN rows : rows[i].group = g
             new == RemoveAt(rows, c)
  <2>1. c \in 1 .. Len(rows) /\ WithoutGroup(rows, g) = new
    BY <1>2, LenProperties DEF WithoutGroup
  <2> HIDE DEF c
  <2>2. /\ new \in Seq(OverrideSet) /\ Len(new) = Len(rows) - 1
        /\ \A k \in 1 .. Len(rows) - 1 : new[k] = IF k < c THEN rows[k] ELSE rows[k + 1]
    BY <2>1, RemoveAtProperties
  <2> HIDE DEF new
  <2>3. DOMAIN new = 1 .. Len(rows) - 1 /\ DOMAIN rows = 1 .. Len(rows) /\ Len(rows) \in Nat
    BY <2>2, LenProperties
  <2>4. ASSUME NEW i \in DOMAIN new, NEW j \in DOMAIN new, new[i].group = new[j].group
        PROVE  i = j
    <3> DEFINE at(k) == IF k < c THEN k ELSE k + 1
    <3>1. /\ at(i) \in DOMAIN rows /\ at(j) \in DOMAIN rows
          /\ new[i] = rows[at(i)] /\ new[j] = rows[at(j)]
      BY <2>1, <2>2, <2>3
    <3>2. at(i) = at(j)
      BY <2>4, <3>1 DEF OneOfEach
    <3> QED BY <2>1, <2>3, <3>2
  <2> QED BY <2>1, <2>2, <2>4 DEF OneOfEach
<1> QED BY <1>1, <1>2

\* Saving an override replaces the row of its group or adds the first one.
LEMMA UpsertedKeeps ==
    ASSUME NEW rows \in Seq(OverrideSet), OneOfEach(rows), NEW o \in OverrideSet
    PROVE  Upserted(rows, o) \in Seq(OverrideSet) /\ OneOfEach(Upserted(rows, o))
<1>0. /\ Len(rows) \in Nat /\ DOMAIN rows = 1 .. Len(rows)
      /\ \A k \in 1 .. Len(rows) : rows[k] \in OverrideSet
  BY LenProperties, ElementOfSeq
<1>1. CASE \E i \in DOMAIN rows : rows[i].group = o.group
  <2> DEFINE new == [i \in DOMAIN rows |-> IF rows[i].group = o.group THEN o ELSE rows[i]]
  <2>1. Upserted(rows, o) = new
    BY <1>1 DEF Upserted
  <2>2. \A k \in 1 .. Len(rows) : new[k] \in OverrideSet
    BY <1>0
  <2>3. new \in Seq(OverrideSet)
    BY <1>0, <2>2, IsASeq
  <2>4. DOMAIN new = DOMAIN rows /\ \A i \in DOMAIN rows : new[i].group = rows[i].group
    OBVIOUS
  <2> HIDE DEF new
  <2>5. OneOfEach(new)
    BY <2>4 DEF OneOfEach
  <2> QED BY <2>1, <2>3, <2>5
<1>2. CASE ~\E i \in DOMAIN rows : rows[i].group = o.group
  <2> DEFINE new == Append(rows, o)
  <2>1. Upserted(rows, o) = new
    BY <1>2 DEF Upserted
  <2>2. /\ new \in Seq(OverrideSet) /\ Len(new) = Len(rows) + 1
        /\ \A k \in 1 .. Len(rows) : new[k] = rows[k]
        /\ new[Len(rows) + 1] = o
    BY AppendProperties
  <2> HIDE DEF new
  <2>3. DOMAIN new = 1 .. Len(rows) + 1
    BY <2>2, LenProperties
  <2>4. ASSUME NEW i \in DOMAIN new, NEW j \in DOMAIN new, new[i].group = new[j].group
        PROVE  i = j
    <3>1. CASE i <= Len(rows) /\ j <= Len(rows)
      BY <1>0, <2>2, <2>3, <2>4, <3>1 DEF OneOfEach
    <3>2. CASE i = Len(rows) + 1 \/ j = Len(rows) + 1
      BY <1>0, <1>2, <2>2, <2>3, <2>4, <3>2
    <3> QED BY <1>0, <2>3, <3>1, <3>2
  <2> QED BY <2>1, <2>2, <2>4 DEF OneOfEach
<1> QED BY <1>1, <1>2
-----------------------------------------------------------------------------
\* Typing

\* A row of nodes keeps its type when one of its columns is written.
LEMMA NodeForms ==
    ASSUME NEW x \in NodeSet, NEW p \in {"active", "inactive", "deleted"},
           NEW s \in {"never", "recent", "late"}, NEW f \in [Measured -> Levels \union {NoReading}],
           NEW S \in SUBSET Groups, NEW v \in BOOLEAN \union {Inherit}
    PROVE  /\ [x EXCEPT !.row = p] \in NodeSet
           /\ [x EXCEPT !.seen = s] \in NodeSet
           /\ [x EXCEPT !.seen = s, !.reading = f] \in NodeSet
           /\ [x EXCEPT !.reading = f] \in NodeSet
           /\ [x EXCEPT !.groups = S] \in NodeSet
           /\ [x EXCEPT !.alert = v] \in NodeSet
BY DEF NodeSet

\* A node that has enrolled, joined groups or been deleted has a row of its type.
LEMMA EnrolledTypes ==
    ASSUME NEW S \in SUBSET Groups
    PROVE  /\ Enrolled \in NodeSet
           /\ [Enrolled EXCEPT !.groups = S] \in NodeSet
           /\ [Enrolled EXCEPT !.row = "deleted"] \in NodeSet
<1>1. Enrolled \in NodeSet
  BY DEF Enrolled, NodeSet
<1> QED BY <1>1 DEF NodeSet

\* Events that are closed for a rule, a node or both leave a table of events.
LEMMA EventForms ==
    ASSUME NEW table \in Events, NEW r \in Rules, NEW n \in Nodes
    PROVE  /\ [table EXCEPT ![r] = NoEvents[r]] \in Events
           /\ [table EXCEPT ![r][n] = 0] \in Events
           /\ [q \in Rules |-> [table[q] EXCEPT ![n] = 0]] \in Events
           /\ NoEvents \in Events
BY DEF Events, NoEvents

\* An evaluation that has not begun has its type.
LEMMA AsleepType == Asleep \in Evaluations
<1>1. NoEvents \in Events /\ NoJobs \in Jobs
  BY DEF NoEvents, Events, NoJobs, Jobs
<1>2. <<>> \in Seq(OverrideSet)
  BY EmptySeq
<1> HIDE DEF Events, Jobs
<1> QED BY <1>1, <1>2 DEF Asleep, Evaluations

\* Whatever administrators do, each in one transaction, keeps the types.
LEMMA RuleEdits ==
    ASSUME TypeInv,
           \/ \E r \in Rules : CreateRule(r) \/ UpdateRule(r) \/ ToggleRule(r) \/ DeleteRule(r)
           \/ ImportRules
    PROVE  TypeInv'
<1> USE DEF Edit
<1>1. ASSUME NEW r \in Rules, CreateRule(r) \/ UpdateRule(r) PROVE TypeInv'
  <2>1. PICK v \in RuleValues : rule' = [rule EXCEPT ![r] = v]
    BY <1>1 DEF CreateRule, UpdateRule
  <2>2. v \in RuleSet
    BY DEF RuleValues, RuleSet
  <2> QED BY <1>1, <2>1, <2>2 DEF CreateRule, UpdateRule, TypeInv
<1>2. ASSUME NEW r \in Rules, ToggleRule(r) PROVE TypeInv'
  <2>1. PICK on \in {"on", "off"} : rule' = [rule EXCEPT ![r].state = on]
    BY <1>2 DEF ToggleRule
  <2>2. [rule[r] EXCEPT !.state = on] \in RuleSet
    BY DEF TypeInv, RuleSet
  <2>3. rule' \in [Rules -> RuleSet]
    BY <2>1, <2>2 DEF TypeInv
  <2> QED BY <1>2, <2>3 DEF ToggleRule, TypeInv
<1>3. ASSUME NEW r \in Rules, DeleteRule(r) PROVE TypeInv'
  <2>1. [rule[r] EXCEPT !.state = "deleted"] \in RuleSet
    BY DEF TypeInv, RuleSet
  <2>2. overrides' \in [Rules -> Seq(OverrideSet)] /\ \A q \in Rules : OneOfEach(overrides'[q])
    BY <1>3, EmptySeq DEF DeleteRule, TypeInv, OneOfEach
  <2>3. events' \in Events
    BY <1>3, EventForms DEF DeleteRule, TypeInv, Events, NoEvents
  <2> QED BY <1>3, <2>1, <2>2, <2>3 DEF DeleteRule, TypeInv
<1>4. CASE ImportRules
  <2>0. PICK rows \in SUBSET {r \in Rules : rule[r].state = "absent"} :
          \E new \in [rows -> RuleValues] :
            rule' = [r \in Rules |-> IF r \in rows THEN new[r] ELSE rule[r]]
    BY <1>4 DEF ImportRules
  <2>1. PICK new \in [rows -> RuleValues] :
          rule' = [r \in Rules |-> IF r \in rows THEN new[r] ELSE rule[r]]
    BY <2>0
  <2>2. rule' \in [Rules -> RuleSet]
    BY <2>1 DEF TypeInv, RuleValues, RuleSet
  <2> QED BY <1>4, <2>2 DEF ImportRules, TypeInv
<1> QED BY <1>1, <1>2, <1>3, <1>4

\* What administrators do to groups and their overrides keeps the types.
LEMMA GroupEdits ==
    ASSUME TypeInv, NEW g \in Groups,
           CreateGroup(g) \/ DeleteGroup(g) \/ \E r \in Rules : SetGroupOverride(g, r)
    PROVE  TypeInv'
<1> USE DEF Edit
<1>1. CASE CreateGroup(g)
  BY <1>1 DEF CreateGroup, TypeInv
<1>2. CASE DeleteGroup(g)
  <2>1. overrides' \in [Rules -> Seq(OverrideSet)] /\ \A r \in Rules : OneOfEach(overrides'[r])
    BY <1>2, WithoutGroupKeeps DEF DeleteGroup, TypeInv
  <2>2. \A n \in Nodes : [node[n] EXCEPT !.groups = @ \ {g}] \in NodeSet
    BY DEF TypeInv, NodeSet
  <2>3. node' \in [Nodes -> NodeSet]
    BY <1>2, <2>2 DEF DeleteGroup, TypeInv
  <2> QED BY <1>2, <2>1, <2>3 DEF DeleteGroup, TypeInv
<1>3. ASSUME NEW r \in Rules, SetGroupOverride(g, r) PROVE TypeInv'
  <2>1. PICK o \in [group : {g}, enabled : BOOLEAN \union {Inherit},
                    threshold : Thresholds \union {Inherit}, saved : {upsets + 1}] :
          overrides' = [overrides EXCEPT ![r] =
             IF o.enabled = Inherit /\ o.threshold = Inherit
             THEN WithoutGroup(@, g) ELSE Upserted(@, o)]
    BY <1>3 DEF SetGroupOverride
  <2>0. o \in OverrideSet
    BY <2>1 DEF OverrideSet, TypeInv
  <2>2. overrides[r] \in Seq(OverrideSet) /\ OneOfEach(overrides[r])
    BY DEF TypeInv
  <2>3. overrides' \in [Rules -> Seq(OverrideSet)] /\ \A q \in Rules : OneOfEach(overrides'[q])
    BY <2>0, <2>1, <2>2, WithoutGroupKeeps, UpsertedKeeps DEF TypeInv
  <2> QED BY <1>3, <2>3 DEF SetGroupOverride, TypeInv
<1> QED BY <1>1, <1>2, <1>3

\* What administrators do to nodes keeps the types.
LEMMA NodeEdits ==
    ASSUME TypeInv,
           \/ SetHostDown
           \/ \E n \in Nodes : SetAlertOverride(n) \/ AssignGroups(n) \/ Decommission(n) \/ DeleteNode(n)
    PROVE  TypeInv'
<1> USE DEF Edit, config
<1>1. CASE SetHostDown
  BY <1>1 DEF SetHostDown, TypeInv
<1>2. ASSUME NEW n \in Nodes, SetAlertOverride(n) PROVE TypeInv'
  <2>1. PICK v \in BOOLEAN \union {Inherit} : node' = [node EXCEPT ![n].alert = v]
    BY <1>2 DEF SetAlertOverride
  <2>2. [node[n] EXCEPT !.alert = v] \in NodeSet
    BY DEF TypeInv, NodeSet
  <2> QED BY <1>2, <2>1, <2>2 DEF SetAlertOverride, TypeInv
<1>3. ASSUME NEW n \in Nodes, AssignGroups(n) PROVE TypeInv'
  <2>1. PICK S \in SUBSET Groups : node' = [node EXCEPT ![n].groups = S]
    BY <1>3 DEF AssignGroups
  <2>2. [node[n] EXCEPT !.groups = S] \in NodeSet
    BY DEF TypeInv, NodeSet
  <2> QED BY <1>3, <2>1, <2>2 DEF AssignGroups, TypeInv
<1>4. ASSUME NEW n \in Nodes, Decommission(n) PROVE TypeInv'
  <2>1. [node[n] EXCEPT !.row = "inactive"] \in NodeSet
    BY DEF TypeInv, NodeSet
  <2> QED BY <1>4, <2>1 DEF Decommission, TypeInv
<1>5. ASSUME NEW n \in Nodes, DeleteNode(n) PROVE TypeInv'
  <2>1. events' \in Events
    BY <1>5 DEF DeleteNode, TypeInv, Events
  <2>2. node' \in [Nodes -> NodeSet]
    BY <1>5, EnrolledTypes DEF DeleteNode, TypeInv
  <2> QED BY <1>5, <2>1, <2>2 DEF DeleteNode, TypeInv
<1> QED BY <1>1, <1>2, <1>3, <1>4, <1>5

\* So do check-ins, time and retention.
LEMMA EnvironmentTypes == ASSUME TypeInv, Environment PROVE TypeInv'
<1> USE DEF config
<1>1. ASSUME NEW n \in Nodes, Checkin(n) PROVE TypeInv'
  <2>1. PICK f \in [Measured -> Levels \union {NoReading}] :
          node' = [node EXCEPT ![n].seen = "recent", ![n].reading = f]
    BY <1>1 DEF Checkin
  <2>2. [node[n] EXCEPT !.seen = "recent", !.reading = f] \in NodeSet
    BY DEF TypeInv, NodeSet
  <2> QED BY <1>1, <2>1, <2>2 DEF Checkin, TypeInv
<1>2. ASSUME NEW n \in Nodes, Reenroll(n) \/ FallSilent(n) PROVE TypeInv'
  <2>1. [node[n] EXCEPT !.row = "active"] \in NodeSet /\ [node[n] EXCEPT !.seen = "late"] \in NodeSet
    BY DEF TypeInv, NodeSet
  <2> QED BY <1>2, <2>1 DEF Reenroll, FallSilent, TypeInv
<1>3. ASSUME NEW n \in Nodes, NEW k \in Measured, WindowMoves(n, k) PROVE TypeInv'
  <2>1. PICK v \in Levels \union {NoReading} : node' = [node EXCEPT ![n].reading[k] = v]
    BY <1>3 DEF WindowMoves
  <2>2. [node[n].reading EXCEPT ![k] = v] \in [Measured -> Levels \union {NoReading}]
    BY DEF TypeInv, NodeSet
  <2>3. [node[n] EXCEPT !.reading = [node[n].reading EXCEPT ![k] = v]] \in NodeSet
    BY <2>2 DEF TypeInv, NodeSet
  <2> QED BY <1>3, <2>1, <2>3 DEF WindowMoves, TypeInv
<1>4. ASSUME NEW n \in Nodes, NEW r \in Rules, Cleanup(r, n) PROVE TypeInv'
  <2>1. events' \in Events
    BY <1>4 DEF Cleanup, TypeInv, Events
  <2> QED BY <1>4, <2>1 DEF Cleanup, TypeInv
<1> QED BY <1>1, <1>2, <1>3, <1>4 DEF Environment

\* What an evaluation writes into its own record.
LEMMA EvaluationForms ==
    ASSUME NEW x \in Evaluations, NEW q \in RuleRow, NEW S \in SUBSET RuleRow,
           NEW p \in {"rules", "nodes", "late", "recovered", "last"},
           NEW h \in BOOLEAN, NEW rows \in Seq(OverrideSet), NEW j \in Jobs,
           NEW l \in BOOLEAN, NEW e \in Events
    PROVE  /\ [x EXCEPT !.phase = p, !.todo = S] \in Evaluations
           /\ [x EXCEPT !.phase = p, !.todo = S, !.current = q, !.overrides = rows, !.hostDown = h]
                \in Evaluations
           /\ [x EXCEPT !.phase = p, !.jobs = j] \in Evaluations
           /\ [x EXCEPT !.jobs = j, !.locked = l, !.events = e] \in Evaluations
           /\ [x EXCEPT !.phase = p, !.current = NoRule, !.overrides = <<>>, !.hostDown = h]
                \in Evaluations
<1>1. <<>> \in Seq(OverrideSet)
  BY EmptySeq
<1> HIDE DEF RuleRow, Jobs, Events, NoRule
<1>2. [x EXCEPT !.phase = p, !.todo = S] \in Evaluations /\ [x EXCEPT !.phase = p, !.jobs = j] \in Evaluations
  BY DEF Evaluations
<1>3. [x EXCEPT !.phase = p, !.todo = S, !.current = q, !.overrides = rows, !.hostDown = h]
        \in Evaluations
  BY DEF Evaluations
<1>4. [x EXCEPT !.jobs = j, !.locked = l, !.events = e] \in Evaluations
  BY DEF Evaluations
<1>5. [x EXCEPT !.phase = p, !.current = NoRule, !.overrides = <<>>, !.hostDown = h] \in Evaluations
  BY <1>1 DEF Evaluations
<1> QED BY <1>2, <1>3, <1>4, <1>5

\* Firing and resolving an event leave a table of events.
LEMMA TableForms ==
    ASSUME NEW table \in Events, NEW r, NEW n \in Nodes
    PROVE  Fire(table, r, n) \in Events /\ Resolve(table, r, n) \in Events
<1>1. [table EXCEPT ![r][n] = 0] \in Events /\ [table EXCEPT ![r][n] = table[r][n] + 1] \in Events
  <2>1. CASE r \in Rules
    BY <2>1 DEF Events
  <2>2. CASE r \notin Rules
    BY <2>2 DEF Events
  <2> QED BY <2>1, <2>2
<1> QED BY <1>1 DEF Fire, Resolve

\* The open events as an evaluation sees them have the type of the table.
LEMMA SeenType == ASSUME TypeInv PROVE Seen \in Events
BY DEF TypeInv, Evaluations, Seen

\* The steps of an evaluation keep the types.
LEMMA EvaluateTypes == ASSUME TypeInv, Evaluate \/ BreakOff PROVE TypeInv'
<1> USE DEF config, Evaluating
<1>0. /\ engine \in Evaluations /\ Asleep \in Evaluations
      /\ engine.todo \subseteq RuleRow /\ engine.jobs \in Jobs /\ engine.locked \in BOOLEAN
      /\ engine.events \in Events
  BY AsleepType DEF TypeInv, Evaluations
<1>1. ASSUME engine' \in Evaluations, events' \in Events, UNCHANGED <<node, config>>
      PROVE  TypeInv'
  <2>1. upsets' \in {upsets, upsets + 1}
    BY DEF Evaluate, StartEvaluation, NextRule, RuleRaises, FindLate, FindRecovered, FindSuppressed,
       FindMeasured, ApplyJob, RuleDone, Commit, BreakOff
  <2> QED BY <1>1, <2>1 DEF TypeInv
<1>2. CASE StartEvaluation
  <2> DEFINE S == {[id |-> r, kind |-> rule[r].kind, threshold |-> rule[r].threshold] :
                     r \in {x \in Rules : rule[x].state = "on"}}
  <2>1. S \subseteq RuleRow
    BY DEF TypeInv, RuleSet, RuleRow
  <2>2. engine' = [engine EXCEPT !.phase = "rules", !.todo = S]
    BY <1>2 DEF StartEvaluation
  <2> HIDE DEF S
  <2>3. engine' \in Evaluations
    BY <1>0, <2>1, <2>2 DEF Evaluations
  <2> QED BY <1>1, <1>2, <2>3 DEF StartEvaluation, TypeInv
<1>3. CASE NextRule
  <2>1. PICK q \in engine.todo :
          engine' = [engine EXCEPT !.phase = "nodes", !.todo = @ \ {q}, !.current = q,
                                   !.overrides = overrides[q.id], !.hostDown = hostDown]
    BY <1>3 DEF NextRule
  <2>2. /\ q \in RuleRow /\ engine.todo \ {q} \in SUBSET RuleRow
        /\ overrides[q.id] \in Seq(OverrideSet) /\ hostDown \in BOOLEAN
    BY <1>0 DEF TypeInv, RuleRow
  <2>3. engine' \in Evaluations
    BY <1>0, <2>1, <2>2, EvaluationForms, ZenonT(20)
  <2> QED BY <1>1, <1>3, <2>3 DEF NextRule, TypeInv
<1>4. ASSUME NEW p \in {"late", "recovered", "last"}, NEW j \in Jobs, Plan(p, j),
             UNCHANGED <<node, config>>
      PROVE  TypeInv'
  <2>1. engine' \in Evaluations
    BY <1>0, <1>4 DEF Plan, Evaluations
  <2> QED BY <1>1, <1>4, <2>1 DEF Plan, TypeInv
<1>5. CASE FindLate \/ FindRecovered \/ FindSuppressed \/ FindMeasured
  <2>2. CASE FindLate
    <3>1. PICK j : Plan("late", j) /\ j \in Jobs
      BY <2>2 DEF FindLate, Jobs
    <3> QED BY <1>4, <2>2, <3>1 DEF FindLate
  <2>3. CASE FindRecovered
    <3>1. PICK j : Plan("recovered", j) /\ j \in Jobs
      BY <2>3 DEF FindRecovered, Jobs
    <3> QED BY <1>4, <2>3, <3>1 DEF FindRecovered
  <2>4. CASE FindSuppressed
    <3>1. PICK j : Plan("last", j) /\ j \in Jobs
      BY <2>4 DEF FindSuppressed, Jobs
    <3> QED BY <1>4, <2>4, <3>1 DEF FindSuppressed
  <2>5. CASE FindMeasured
    <3> DEFINE plan == [n \in Nodes |->
           IF ~Judged(n, Current) THEN "none"
           ELSE IF GroupEnabled(n, TRUE)
                   /\ node[n].reading[Current.kind] > GroupThreshold(n, Current.threshold)
           THEN "fire" ELSE "resolve"]
    <3>1. Plan("last", plan)
      BY <2>5 DEF FindMeasured
    <3>2. plan \in Jobs
      BY DEF Jobs
    <3> HIDE DEF plan
    <3> QED BY <1>4, <2>5, <3>1, <3>2 DEF FindMeasured
  <2> QED BY <1>5, <2>2, <2>3, <2>4, <2>5
<1>6. ASSUME NEW n \in Nodes, ApplyJob(n) PROVE TypeInv'
  <2> DEFINE table == IF engine.jobs[n] = "fire" THEN Fire(Seen, Current.id, n)
                      ELSE Resolve(Seen, Current.id, n)
             writes == engine.jobs[n] = "resolve" \/ table # Seen
             jobs == [engine.jobs EXCEPT ![n] = "none"]
             locked == engine.locked \/ writes
             table2 == IF writes THEN table ELSE engine.events
  <2>1. table \in Events
    BY SeenType, TableForms
  <2>2. writes \in BOOLEAN
    OBVIOUS
  <2>3. engine' = [engine EXCEPT !.jobs = jobs, !.locked = locked, !.events = table2]
    BY <1>6 DEF ApplyJob
  <2> HIDE DEF table, writes
  <2>4. jobs \in Jobs /\ locked \in BOOLEAN /\ table2 \in Events
    BY <1>0, <2>1, <2>2 DEF Jobs
  <2> HIDE DEF jobs, locked, table2
  <2>5. engine' \in Evaluations
    BY <1>0, <2>3, <2>4 DEF Evaluations
  <2> QED BY <1>1, <1>6, <2>5 DEF ApplyJob, TypeInv
<1>7. CASE RuleDone
  <2>1. engine' \in Evaluations
    BY <1>0, <1>7, EmptySeq DEF RuleDone, Evaluations
  <2> QED BY <1>1, <1>7, <2>1 DEF RuleDone, TypeInv
<1>8. CASE RuleRaises
  BY <1>0, <1>1, <1>8 DEF RuleRaises, TypeInv
<1>9. CASE Commit
  BY <1>0, <1>1, <1>9, SeenType DEF Commit
<1>10. CASE BreakOff
  BY <1>0, <1>1, <1>10 DEF BreakOff, TypeInv
<1> QED
  BY <1>2, <1>3, <1>5, <1>6, <1>7, <1>8, <1>9, <1>10 DEF Evaluate

\* Every step keeps the types.
LEMMA TypeStep == TypeInv /\ [Next]_vars => TypeInv'
<1>1. CASE UNCHANGED vars
  BY <1>1 DEF vars, TypeInv
<1> QED BY <1>1, RuleEdits, GroupEdits, NodeEdits, EnvironmentTypes, EvaluateTypes DEF Next, Administer

\* The types hold before the first evaluation.
LEMMA TypeInit == Init => TypeInv
<1> SUFFICES ASSUME Init PROVE TypeInv
  OBVIOUS
<1>1. rule \in [Rules -> RuleSet]
  BY AlertAssumption DEF Init, RuleSet
<1>2. node \in [Nodes -> NodeSet]
  BY EnrolledTypes DEF Init
<1>3. overrides \in [Rules -> Seq(OverrideSet)] /\ \A r \in Rules : OneOfEach(overrides[r])
  BY AlertAssumption DEF Init, OneOfEach
<1>4. events \in Events /\ engine \in Evaluations
  BY AsleepType DEF Init, NoEvents, Events
<1> QED BY <1>1, <1>2, <1>3, <1>4 DEF Init, TypeInv

\* The strengthened types hold in every state.
LEMMA TypesHold == Spec => []TypeInv
BY TypeInit, TypeStep, PTL DEF Spec

\* Every variable keeps its type, and a rule has one override of a group at most,
\* however overrides are saved, dropped and taken along with their groups.
THEOREM Typing == Spec => []TypeOK
<1>1. TypeInv => TypeOK
  BY DEF TypeInv, TypeOK, OneOfEach, Evaluations, Jobs
<1> QED BY <1>1, TypesHold, PTL
-----------------------------------------------------------------------------
\* One open event

\* No rule has two events for a node in a table, committed or not.
OneEach(table) == \A r \in Rules, n \in Nodes : table[r][n] <= 1
EventInv == OneEach(events) /\ OneEach(engine.events)

\* Firing adds an event only where none is open, and resolving adds none.
LEMMA OneEachForms ==
    ASSUME NEW table \in Events, OneEach(table), NEW r, NEW n \in Nodes
    PROVE  /\ OneEach(Fire(table, r, n))
           /\ OneEach(Resolve(table, r, n))
BY DEF OneEach, Fire, Resolve, Events

\* Every step of the evaluation and of the handlers beside it keeps one open event each.
LEMMA EventStep == TypeInv /\ EventInv /\ [Next]_vars => EventInv'
<1> SUFFICES ASSUME TypeInv, EventInv, [Next]_vars PROVE EventInv'
  OBVIOUS
<1> USE DEF config, Edit, Evaluating
<1>0. /\ engine \in Evaluations /\ events \in Events /\ Seen \in Events
      /\ OneEach(Seen) /\ OneEach(events) /\ OneEach(engine.events) /\ OneEach(NoEvents)
  BY SeenType DEF TypeInv, EventInv, Seen, OneEach, NoEvents
<1>1. ASSUME UNCHANGED events, engine' = Asleep PROVE EventInv'
  BY <1>0, <1>1 DEF EventInv, Asleep
<1>2. ASSUME UNCHANGED events, engine'.events = engine.events PROVE EventInv'
  BY <1>0, <1>2 DEF EventInv
<1>3. ASSUME NEW r \in Rules, DeleteRule(r) PROVE EventInv'
  BY <1>0, <1>3 DEF DeleteRule, EventInv, OneEach, Events, NoEvents
<1>4. ASSUME NEW n \in Nodes, DeleteNode(n) PROVE EventInv'
  BY <1>0, <1>4 DEF DeleteNode, EventInv, OneEach, Events
<1>5. ASSUME NEW n \in Nodes, NEW r \in Rules, Cleanup(r, n) PROVE EventInv'
  BY <1>0, <1>5 DEF Cleanup, EventInv, OneEach, Events
<1>6. ASSUME NEW n \in Nodes, ApplyJob(n) PROVE EventInv'
  <2>1. engine'.events \in {engine.events, Fire(Seen, Current.id, n), Resolve(Seen, Current.id, n)}
    BY <1>0, <1>6 DEF ApplyJob, Evaluations
  <2> QED BY <1>0, <1>6, <2>1, OneEachForms DEF ApplyJob, EventInv
<1>7. CASE Commit
  BY <1>0, <1>7 DEF Commit, EventInv, Asleep
<1>8. CASE RuleRaises \/ BreakOff
  BY <1>1, <1>8 DEF RuleRaises, BreakOff
<1>9. CASE StartEvaluation \/ NextRule \/ RuleDone
  <2>1. engine'.events = engine.events /\ UNCHANGED events
    BY <1>0, <1>9 DEF StartEvaluation, NextRule, RuleDone, Evaluations
  <2> QED BY <1>2, <2>1
<1>10. CASE FindLate \/ FindRecovered \/ FindSuppressed \/ FindMeasured
  <2>1. PICK p, j : Plan(p, j)
    BY <1>10 DEF FindLate, FindRecovered, FindSuppressed, FindMeasured
  <2>2. engine'.events = engine.events /\ UNCHANGED events
    BY <1>0, <2>1 DEF Plan, Evaluations
  <2> QED BY <1>2, <2>2
<1>11. ASSUME Environment PROVE EventInv' 
  <2>1. (\E n \in Nodes, r \in Rules : Cleanup(r, n)) \/ UNCHANGED <<events, engine>>
    BY <1>11 DEF Environment, Checkin, Reenroll, FallSilent, WindowMoves
  <2> QED BY <1>2, <1>5, <2>1
<1>12. ASSUME Administer PROVE EventInv'
  <2>1. \/ \E r \in Rules : DeleteRule(r)
        \/ \E n \in Nodes : DeleteNode(n)
        \/ UNCHANGED <<events, engine>>
    BY <1>12 DEF Administer, CreateRule, UpdateRule, ToggleRule, CreateGroup, DeleteGroup,
       SetGroupOverride, ImportRules, SetHostDown, SetAlertOverride, AssignGroups, Decommission
  <2> QED BY <1>2, <1>3, <1>4, <2>1
<1>13. CASE UNCHANGED vars
  BY <1>2, <1>13 DEF vars
<1> QED
  BY <1>6, <1>7, <1>8, <1>9, <1>10, <1>11, <1>12, <1>13 DEF Next, Evaluate

\* A rule has at most one open event for a node, committed or about to be, although
\* no constraint of the table forbids a second one.
THEOREM OneEventAtATime == Spec => []OneOpenEvent
<1>1. Init => EventInv
  BY DEF Init, EventInv, OneEach, NoEvents, Asleep
<1>2. TypeInv /\ EventInv /\ [Next]_vars => EventInv'
  BY EventStep
<1>3. EventInv => OneOpenEvent
  BY DEF EventInv, OneEach, OneOpenEvent
<1> QED BY <1>1, <1>2, <1>3, TypesHold, PTL DEF Spec
=============================================================================
