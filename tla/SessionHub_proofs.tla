--------------------------- MODULE SessionHub_proofs ---------------------------
(***************************************************************************)
(* The safety of the session hub for any number of tabs, control channels   *)
(* and frames.  Three invariants carry it: a channel that was never opened   *)
(* has no handler and no successor (Unopened), a handler that waits to relay *)
(* a frame holds the tab of the frame's own session (Paired), and the frames *)
(* on their way to the agent name a session unless they are stops            *)
(* (GoodFrame, GoodLink).  That a session gets one shell needs more: a       *)
(* coroutine waits for one send at a time (Sends), so the start of a session *)
(* is in one place, and has no shell while it is on its way (Fresh).         *)
(***************************************************************************)
EXTENDS SessionHub, SequenceTheorems, TLAPS

\* Frames to the agent: only a stop may name no session.
GoodFrame == {f \in Frame : f.type # "stop" => f.session \in Tabs}

Conns  == {"unused", "up", "gone", "received", "closed"}
Places == {"receive", "relay", "tell", "close", "done"}
Types  == {"started", "output", "exited"}
Moods  == {"idle", "tell", "close", "stopOld", "start", "greet", "receive",
           "relay", "stopping", "done"}
Ends   == {"up", "gone"}
Shells == {"none", "running", "ended", "reported"}

\* Links whose queue holds such frames.
GoodLink ==
  [conn : Conns, slot : [Kinds -> TabOrNone], queue : Seq(GoodFrame), at : Places,
   kind : Kinds, target : TabOrNone, type : Types, session : TabOrNone]

AgentRecord == [link : Links \union {None}, cur : [Kinds -> TabOrNone], shell : [Tabs -> Shells]]
SeenRecord  == [shown : [Tabs -> SUBSET Tabs], typed : [Tabs -> SUBSET Tabs]]
Budget      == [input : 0..MaxInput, output : 0..MaxOutput, drops : 0..MaxDrops]

HubTypes ==
  /\ registry \in Links \union {None}
  /\ link \in [Links -> GoodLink]
  /\ tab \in [Tabs -> TabRecord]
  /\ toAgent \in [Links -> Seq(GoodFrame)]
  /\ toServer \in [Links -> Seq(Report)]
  /\ agent \in AgentRecord
  /\ seen \in SeenRecord
  /\ budget \in Budget

\* A channel that was never opened has no handler, and neither has any later one.
Unopened ==
  \A l \in Links : link[l].conn = "unused" =>
    link[l].at = "receive" /\ \A m \in Links : m > l => link[m].conn = "unused"

\* A frame that waits to be relayed waits for the tab of its own session.
Paired == \A l \in Links : link[l].at = "relay" => link[l].target = link[l].session

HubInv ==
  HubTypes /\ Unopened /\ Paired /\ NewestLinkRegistered /\ OutputStaysInSession /\ OneShell

-----------------------------------------------------------------------------
(* One field of one record *)

\* The fields of a link.
LEMMA LinkFields ==
  ASSUME NEW r \in GoodLink
  PROVE  /\ r.conn \in Conns /\ r.slot \in [Kinds -> TabOrNone] /\ r.queue \in Seq(GoodFrame)
         /\ r.at \in Places /\ r.kind \in Kinds /\ r.target \in TabOrNone
         /\ r.type \in Types /\ r.session \in TabOrNone
  BY Zenon DEF GoodLink

\* Another conn of a link.
LEMMA Link_conn ==
  ASSUME NEW r \in GoodLink, NEW x \in Conns
  PROVE  /\ [r EXCEPT !.conn = x] \in GoodLink /\ [r EXCEPT !.conn = x].conn = x
         /\ [r EXCEPT !.conn = x].slot = r.slot /\ [r EXCEPT !.conn = x].queue = r.queue
         /\ [r EXCEPT !.conn = x].at = r.at /\ [r EXCEPT !.conn = x].kind = r.kind
         /\ [r EXCEPT !.conn = x].target = r.target /\ [r EXCEPT !.conn = x].type = r.type
         /\ [r EXCEPT !.conn = x].session = r.session
  BY SMT DEF GoodLink

\* Another slot of a link.
LEMMA Link_slot ==
  ASSUME NEW r \in GoodLink, NEW x \in [Kinds -> TabOrNone]
  PROVE  /\ [r EXCEPT !.slot = x] \in GoodLink /\ [r EXCEPT !.slot = x].slot = x
         /\ [r EXCEPT !.slot = x].conn = r.conn /\ [r EXCEPT !.slot = x].queue = r.queue
         /\ [r EXCEPT !.slot = x].at = r.at /\ [r EXCEPT !.slot = x].kind = r.kind
         /\ [r EXCEPT !.slot = x].target = r.target /\ [r EXCEPT !.slot = x].type = r.type
         /\ [r EXCEPT !.slot = x].session = r.session
  BY SMT DEF GoodLink

\* Another queue of a link.
LEMMA Link_queue ==
  ASSUME NEW r \in GoodLink, NEW x \in Seq(GoodFrame)
  PROVE  /\ [r EXCEPT !.queue = x] \in GoodLink /\ [r EXCEPT !.queue = x].queue = x
         /\ [r EXCEPT !.queue = x].conn = r.conn /\ [r EXCEPT !.queue = x].slot = r.slot
         /\ [r EXCEPT !.queue = x].at = r.at /\ [r EXCEPT !.queue = x].kind = r.kind
         /\ [r EXCEPT !.queue = x].target = r.target /\ [r EXCEPT !.queue = x].type = r.type
         /\ [r EXCEPT !.queue = x].session = r.session
  BY SMT DEF GoodLink

\* Another at of a link.
LEMMA Link_at ==
  ASSUME NEW r \in GoodLink, NEW x \in Places
  PROVE  /\ [r EXCEPT !.at = x] \in GoodLink /\ [r EXCEPT !.at = x].at = x
         /\ [r EXCEPT !.at = x].conn = r.conn /\ [r EXCEPT !.at = x].slot = r.slot
         /\ [r EXCEPT !.at = x].queue = r.queue /\ [r EXCEPT !.at = x].kind = r.kind
         /\ [r EXCEPT !.at = x].target = r.target /\ [r EXCEPT !.at = x].type = r.type
         /\ [r EXCEPT !.at = x].session = r.session
  BY SMT DEF GoodLink

\* Another kind of a link.
LEMMA Link_kind ==
  ASSUME NEW r \in GoodLink, NEW x \in Kinds
  PROVE  /\ [r EXCEPT !.kind = x] \in GoodLink /\ [r EXCEPT !.kind = x].kind = x
         /\ [r EXCEPT !.kind = x].conn = r.conn /\ [r EXCEPT !.kind = x].slot = r.slot
         /\ [r EXCEPT !.kind = x].queue = r.queue /\ [r EXCEPT !.kind = x].at = r.at
         /\ [r EXCEPT !.kind = x].target = r.target /\ [r EXCEPT !.kind = x].type = r.type
         /\ [r EXCEPT !.kind = x].session = r.session
  BY SMT DEF GoodLink

\* Another target of a link.
LEMMA Link_target ==
  ASSUME NEW r \in GoodLink, NEW x \in TabOrNone
  PROVE  /\ [r EXCEPT !.target = x] \in GoodLink /\ [r EXCEPT !.target = x].target = x
         /\ [r EXCEPT !.target = x].conn = r.conn /\ [r EXCEPT !.target = x].slot = r.slot
         /\ [r EXCEPT !.target = x].queue = r.queue /\ [r EXCEPT !.target = x].at = r.at
         /\ [r EXCEPT !.target = x].kind = r.kind /\ [r EXCEPT !.target = x].type = r.type
         /\ [r EXCEPT !.target = x].session = r.session
  BY SMT DEF GoodLink

\* Another type of a link.
LEMMA Link_type ==
  ASSUME NEW r \in GoodLink, NEW x \in Types
  PROVE  /\ [r EXCEPT !.type = x] \in GoodLink /\ [r EXCEPT !.type = x].type = x
         /\ [r EXCEPT !.type = x].conn = r.conn /\ [r EXCEPT !.type = x].slot = r.slot
         /\ [r EXCEPT !.type = x].queue = r.queue /\ [r EXCEPT !.type = x].at = r.at
         /\ [r EXCEPT !.type = x].kind = r.kind /\ [r EXCEPT !.type = x].target = r.target
         /\ [r EXCEPT !.type = x].session = r.session
  BY SMT DEF GoodLink

\* Another session of a link.
LEMMA Link_session ==
  ASSUME NEW r \in GoodLink, NEW x \in TabOrNone
  PROVE  /\ [r EXCEPT !.session = x] \in GoodLink /\ [r EXCEPT !.session = x].session = x
         /\ [r EXCEPT !.session = x].conn = r.conn /\ [r EXCEPT !.session = x].slot = r.slot
         /\ [r EXCEPT !.session = x].queue = r.queue /\ [r EXCEPT !.session = x].at = r.at
         /\ [r EXCEPT !.session = x].kind = r.kind /\ [r EXCEPT !.session = x].target = r.target
         /\ [r EXCEPT !.session = x].type = r.type
  BY SMT DEF GoodLink

\* No link has the name None.
LEMMA NoLink ==
  ASSUME NEW f \in [Links -> GoodLink], NEW l, l \notin Links, NEW x
  PROVE  [f EXCEPT ![l].queue = x] = f
  BY SMT

\* The tabs after one of them got another at.
LEMMA Tab_at ==
  ASSUME NEW f \in [Tabs -> TabRecord], NEW b \in Tabs, NEW x \in Moods
  PROVE  [f EXCEPT ![b].at = x] \in [Tabs -> TabRecord]
  BY SMT DEF TabRecord, Moods

\* The tabs after one of them got another on.
LEMMA Tab_on ==
  ASSUME NEW f \in [Tabs -> TabRecord], NEW b \in Tabs, NEW x \in Links \union {None}
  PROVE  [f EXCEPT ![b].on = x] \in [Tabs -> TabRecord]
  BY SMT DEF TabRecord

\* The tabs after one of them got another target.
LEMMA Tab_target ==
  ASSUME NEW f \in [Tabs -> TabRecord], NEW b \in Tabs, NEW x \in TabOrNone
  PROVE  [f EXCEPT ![b].target = x] \in [Tabs -> TabRecord]
  BY SMT DEF TabRecord

\* The tabs after one of them got another peer.
LEMMA Tab_peer ==
  ASSUME NEW f \in [Tabs -> TabRecord], NEW b \in Tabs, NEW x \in Ends
  PROVE  [f EXCEPT ![b].peer = x] \in [Tabs -> TabRecord]
  BY SMT DEF TabRecord, Ends

\* The tabs after one of them got another client.
LEMMA Tab_client ==
  ASSUME NEW f \in [Tabs -> TabRecord], NEW b \in Tabs, NEW x \in Ends
  PROVE  [f EXCEPT ![b].client = x] \in [Tabs -> TabRecord]
  BY SMT DEF TabRecord, Ends

\* The tabs after one of them got another app.
LEMMA Tab_app ==
  ASSUME NEW f \in [Tabs -> TabRecord], NEW b \in Tabs, NEW x \in {"up", "closed"}
  PROVE  [f EXCEPT ![b].app = x] \in [Tabs -> TabRecord]
  BY SMT DEF TabRecord

-----------------------------------------------------------------------------
(* What the steps have in common *)

\* The control channels and their registry.
LinksFine ==
  /\ registry \in Links \union {None} /\ link \in [Links -> GoodLink]
  /\ Unopened /\ Paired /\ NewestLinkRegistered

\* The parts of the invariant.
LEMMA HubParts ==
  HubInv <=> /\ LinksFine /\ tab \in [Tabs -> TabRecord]
             /\ toAgent \in [Links -> Seq(GoodFrame)] /\ toServer \in [Links -> Seq(Report)]
             /\ agent \in AgentRecord /\ OneShell
             /\ seen \in SeenRecord /\ OutputStaysInSession /\ budget \in Budget
  BY Zenon DEF HubInv, HubTypes, LinksFine

\* The parts after a step.
LEMMA HubPartsNext ==
  ASSUME LinksFine', (tab \in [Tabs -> TabRecord])',
         (toAgent \in [Links -> Seq(GoodFrame)])', (toServer \in [Links -> Seq(Report)])',
         (agent \in AgentRecord)', OneShell', (seen \in SeenRecord)', OutputStaysInSession',
         (budget \in Budget)'
  PROVE  HubInv'
  BY Zenon DEF HubInv, HubTypes, LinksFine

\* What a step leaves alone stays fine.
LEMMA Untouched ==
  ASSUME HubInv
  PROVE  /\ UNCHANGED <<registry, link>> => LinksFine'
         /\ UNCHANGED agent => (agent \in AgentRecord)' /\ OneShell'
         /\ UNCHANGED seen => (seen \in SeenRecord)' /\ OutputStaysInSession'
  <1>1. ASSUME UNCHANGED <<registry, link>> PROVE LinksFine'
    <2>1. registry' = registry /\ link' = link BY <1>1
    <2> QED BY <2>1, HubParts, Zenon DEF LinksFine, Unopened, Paired, NewestLinkRegistered
  <1>2. UNCHANGED agent => (agent \in AgentRecord)' /\ OneShell'
    BY HubParts, Zenon DEF OneShell
  <1>3. UNCHANGED seen => (seen \in SeenRecord)' /\ OutputStaysInSession'
    BY HubParts, Zenon DEF OutputStaysInSession
  <1> QED BY <1>1, <1>2, <1>3

\* One of several links is replaced.
LEMMA OneLink ==
  ASSUME NEW f \in [Links -> GoodLink], NEW l \in Links, NEW r \in GoodLink, NEW g,
         g = [f EXCEPT ![l] = r]
  PROVE  /\ g \in [Links -> GoodLink] /\ g[l] = r
         /\ \A m \in Links : m # l => g[m] = f[m]
  BY SMT

\* A step of one link that neither opens nor ends its handler.
LEMMA CalmLink ==
  ASSUME HubInv, NEW l \in Links, NEW r \in GoodLink, link' = [link EXCEPT ![l] = r],
         UNCHANGED registry, r.conn = "unused" <=> link[l].conn = "unused",
         r.at = "done" <=> link[l].at = "done", r.conn = "unused" => r.at = link[l].at,
         r.at = "relay" => r.target = r.session
  PROVE  LinksFine'
  <1>1. LinksFine BY HubParts
  <1>2. /\ link' \in [Links -> GoodLink] /\ link'[l] = r
        /\ \A m \in Links : m # l => link'[m] = link[m]
    BY <1>1, OneLink, Zenon DEF LinksFine
  <1>3. \A m \in Links : link'[m].conn = "unused" <=> link[m].conn = "unused"
    BY <1>2, Zenon
  <1>4. \A m \in Links : link'[m].at = "done" <=> link[m].at = "done"
    BY <1>2, Zenon
  <1>5. \A m \in Links : link'[m].conn = "unused" => link'[m].at = link[m].at
    BY <1>2, Zenon
  <1>6. Unopened' BY <1>1, <1>3, <1>5, Zenon DEF LinksFine, Unopened
  <1>7. Paired' BY <1>1, <1>2, Zenon DEF LinksFine, Paired
  <1>8. NewestLinkRegistered'
    BY <1>1, <1>3, <1>4, Zenon DEF LinksFine, NewestLinkRegistered
  <1> QED BY <1>1, <1>2, <1>6, <1>7, <1>8 DEF LinksFine

\* A step of one link's slots and queue.
LEMMA QuietLink ==
  ASSUME HubInv, NEW l \in Links, NEW r \in GoodLink, link' = [link EXCEPT ![l] = r],
         UNCHANGED registry, r.conn = link[l].conn, r.at = link[l].at,
         r.target = link[l].target, r.session = link[l].session
  PROVE  LinksFine'
  <1>1. link[l].at = "relay" => link[l].target = link[l].session
    BY HubParts DEF LinksFine, Paired
  <1> QED BY <1>1, CalmLink, Zenon

\* A link gets another queue.
LEMMA QueueOnly ==
  ASSUME HubInv, NEW l, NEW q, l \in Links => q \in Seq(GoodFrame),
         link' = [link EXCEPT ![l].queue = q], UNCHANGED registry
  PROVE  LinksFine'
  <1>1. link \in [Links -> GoodLink] BY HubParts DEF LinksFine
  <1>2. CASE l \in Links
    <2> DEFINE r == [link[l] EXCEPT !.queue = q]
    <2>1. link' = [link EXCEPT ![l] = r] BY Zenon
    <2>2. link[l] \in GoodLink BY <1>1, <1>2
    <2>3. /\ r \in GoodLink /\ r.conn = link[l].conn /\ r.at = link[l].at
          /\ r.target = link[l].target /\ r.session = link[l].session
      BY <2>2, <1>2, Link_queue, Zenon
    <2> HIDE DEF r
    <2> QED BY <1>2, <2>1, <2>3, QuietLink, Zenon
  <1>3. CASE l \notin Links
    BY <1>1, <1>3, NoLink, Untouched, Zenon
  <1> QED BY <1>2, <1>3

\* Frames that are queued.
LEMMA Frames ==
  ASSUME NEW b \in Tabs, NEW s \in TabOrNone
  PROVE  /\ [type |-> "start", session |-> b, by |-> b] \in GoodFrame
         /\ [type |-> "stop", session |-> s, by |-> b] \in GoodFrame
         /\ s # None => [type |-> "input", session |-> s, by |-> b] \in GoodFrame
  BY SMT DEF GoodFrame, Frame, TabOrNone

\* A frame of a queue, and the rest.
LEMMA QueueParts ==
  ASSUME NEW S, NEW q \in Seq(S), q # <<>>
  PROVE  q[1] \in S /\ Tail(q) \in Seq(S)
  BY SMT

\* Kinds and what a slot holds.
LEMMA Slots ==
  ASSUME HubInv, NEW l \in Links, NEW b
  PROVE  /\ Kind(b) \in Kinds /\ link[l].slot[Kind(b)] \in TabOrNone
         /\ link[l].queue \in Seq(GoodFrame) /\ link[l] \in GoodLink
  <1>1. link[l] \in GoodLink BY HubParts DEF LinksFine
  <1>2. Kind(b) \in Kinds BY DEF Kind, Kinds
  <1> QED BY <1>1, <1>2, LinkFields

\* A slot is set or cleared.
LEMMA SlotSet ==
  ASSUME NEW s \in [Kinds -> TabOrNone], NEW k \in Kinds, NEW x \in TabOrNone
  PROVE  [s EXCEPT ![k] = x] \in [Kinds -> TabOrNone]
  BY SMT

\* What is left of a bound after one use.
LEMMA Spent ==
  ASSUME NEW r \in Budget
  PROVE  /\ r.input > 0  => [r EXCEPT !.input = @ - 1] \in Budget
         /\ r.output > 0 => [r EXCEPT !.output = @ - 1] \in Budget
         /\ r.drops > 0  => [r EXCEPT !.drops = @ - 1] \in Budget
  <1>1. /\ r.input > 0  => r.input - 1 \in 0..MaxInput
        /\ r.output > 0 => r.output - 1 \in 0..MaxOutput
        /\ r.drops > 0  => r.drops - 1 \in 0..MaxDrops
    BY HubAssumption, SMT DEF Budget
  <1>2. \A n \in 0..MaxInput : [r EXCEPT !.input = n] \in Budget BY SMT DEF Budget
  <1>3. \A n \in 0..MaxOutput : [r EXCEPT !.output = n] \in Budget BY SMT DEF Budget
  <1>4. \A n \in 0..MaxDrops : [r EXCEPT !.drops = n] \in Budget BY SMT DEF Budget
  <1> QED BY <1>1, <1>2, <1>3, <1>4, Zenon

\* A slot of a link is cleared.
LEMMA Cleared ==
  ASSUME HubInv, NEW l \in Links, NEW k \in Kinds
  PROVE  Clear(l, k) \in [Kinds -> TabOrNone]
  <1>1. link[l].slot \in [Kinds -> TabOrNone] BY HubParts, LinkFields, Zenon DEF LinksFine
  <1>2. None \in TabOrNone BY DEF TabOrNone
  <1> QED BY <1>1, <1>2, SlotSet, Zenon DEF Clear

\* What a handler knows of its tab's end.
LEMMA ClientKnown ==
  ASSUME HubInv, NEW b \in Tabs
  PROVE  tab[b].client \in Ends
  <1>1. tab[b] \in TabRecord BY HubParts, Zenon
  <1> QED BY <1>1, Zenon DEF TabRecord, Ends

\* Another history of what was shown, or typed.
LEMMA SeenFields ==
  ASSUME NEW r \in SeenRecord, NEW f \in [Tabs -> SUBSET Tabs]
  PROVE  /\ [r EXCEPT !.shown = f] \in SeenRecord /\ [r EXCEPT !.shown = f].shown = f
         /\ [r EXCEPT !.typed = f] \in SeenRecord /\ [r EXCEPT !.typed = f].shown = r.shown
  BY SMT DEF SeenRecord

\* A function on the tabs gets another value at a tab.
LEMMA TabSet ==
  ASSUME NEW S, NEW g \in [Tabs -> S], NEW v \in Tabs, NEW x \in S
  PROVE  /\ [g EXCEPT ![v] = x] \in [Tabs -> S]
         /\ \A b \in Tabs : [g EXCEPT ![v] = x][b] = IF b = v THEN x ELSE g[b]
  BY SMT

\* A tab is added to what a tab was shown, or typed into.
LEMMA TabAlso ==
  ASSUME NEW g \in [Tabs -> SUBSET Tabs], NEW v \in Tabs, NEW m \in Tabs
  PROVE  [g EXCEPT ![v] = @ \union {m}] \in [Tabs -> SUBSET Tabs]
  <1> DEFINE x == g[v] \union {m}
  <1>1. x \in SUBSET Tabs
    <2>1. g[v] \in SUBSET Tabs OBVIOUS
    <2> QED BY <2>1, Zenon
  <1>2. [g EXCEPT ![v] = @ \union {m}] = [g EXCEPT ![v] = x] BY Zenon
  <1> HIDE DEF x
  <1> QED BY <1>1, <1>2, TabSet, Zenon

\* A frame of a tab's own session is added to what the tab was shown.
LEMMA ShownAlso ==
  ASSUME NEW g \in [Tabs -> SUBSET Tabs], NEW v
  PROVE  /\ [g EXCEPT ![v] = @ \union {v}] \in [Tabs -> SUBSET Tabs]
         /\ \A b \in Tabs :
              g[b] \subseteq {b} => [g EXCEPT ![v] = @ \union {v}][b] \subseteq {b}
  <1>1. CASE v \in Tabs
    <2> DEFINE x == g[v] \union {v}
               f == [g EXCEPT ![v] = x]
    <2>1. [g EXCEPT ![v] = @ \union {v}] = f BY Zenon
    <2>2. x \in SUBSET Tabs
      <3>1. g[v] \in SUBSET Tabs BY <1>1
      <3> QED BY <1>1, <3>1, Zenon
    <2>3. g[v] \subseteq {v} => x \subseteq {v} BY Zenon
    <2> HIDE DEF x
    <2>4. /\ f \in [Tabs -> SUBSET Tabs]
          /\ \A b \in Tabs : f[b] = IF b = v THEN x ELSE g[b]
      BY <1>1, <2>2, TabSet, Zenon
    <2> HIDE DEF f
    <2>5. \A b \in Tabs : g[b] \subseteq {b} => f[b] \subseteq {b} BY <2>3, <2>4, Zenon
    <2> QED BY <2>1, <2>4, <2>5
  <1>2. CASE v \notin Tabs
    <2>1. [g EXCEPT ![v] = @ \union {v}] = g BY <1>2, SMT
    <2> QED BY <2>1
  <1> QED BY <1>1, <1>2
-----------------------------------------------------------------------------
(* Tabs *)

\* Steps that write nothing but tabs and links.
LEMMA TabsAndLinks ==
  ASSUME HubInv, LinksFine', tab' \in [Tabs -> TabRecord],
         UNCHANGED <<toAgent, toServer, agent, seen, budget>>
  PROVE  HubInv'
  <1>1. /\ toAgent' = toAgent /\ toServer' = toServer /\ agent' = agent
        /\ seen' = seen /\ budget' = budget
    OBVIOUS
  <1>2. /\ (tab \in [Tabs -> TabRecord])' /\ (toAgent \in [Links -> Seq(GoodFrame)])'
        /\ (toServer \in [Links -> Seq(Report)])' /\ (budget \in Budget)'
    BY <1>1, HubParts, Zenon
  <1>3. /\ (agent \in AgentRecord)' /\ OneShell'
        /\ (seen \in SeenRecord)' /\ OutputStaysInSession'
    BY <1>1, Untouched, Zenon
  <1> QED BY <1>2, <1>3, HubPartsNext, Zenon

\* Steps that write nothing but tabs.
LEMMA TabsOnly ==
  ASSUME HubInv, tab' \in [Tabs -> TabRecord],
         UNCHANGED <<registry, link, toAgent, toServer, agent, seen, budget>>
  PROVE  HubInv'
  <1>1. LinksFine' BY Untouched
  <1> QED BY <1>1, TabsAndLinks

\* A handler takes the slot of its tab's kind.
LEMMA TakesSlot ==
  ASSUME HubInv, NEW b \in Tabs, NEW l \in Links, NEW queue \in Seq(GoodFrame),
         TakeSlot(b, l, queue), UNCHANGED registry
  PROVE  LinksFine' /\ tab' \in [Tabs -> TabRecord]
  <1> DEFINE slot == [link[l].slot EXCEPT ![Kind(b)] = b]
             q    == Append(queue, [type |-> "start", session |-> b, by |-> b])
             r    == [link[l] EXCEPT !.slot = slot]
             s    == [r EXCEPT !.queue = q]
             t    == [tab EXCEPT ![b].at = "start"]
             u    == [t EXCEPT ![b].on = l]
  <1>1. link' = [link EXCEPT ![l] = s] BY Zenon DEF TakeSlot
  <1>2. tab' = [u EXCEPT ![b].target = None] BY Zenon DEF TakeSlot
  <1>3. slot \in [Kinds -> TabOrNone]
    <2>1. link[l].slot \in [Kinds -> TabOrNone] /\ Kind(b) \in Kinds BY Slots, LinkFields, Zenon
    <2>2. b \in TabOrNone BY DEF TabOrNone
    <2> QED BY <2>1, <2>2, SlotSet, Zenon
  <1>4. q \in Seq(GoodFrame)
    <2>1. [type |-> "start", session |-> b, by |-> b] \in GoodFrame
      BY Frames, Zenon DEF TabOrNone
    <2> QED BY <2>1, AppendProperties
  <1>5. link[l] \in GoodLink BY Slots, Zenon
  <1>6. t \in [Tabs -> TabRecord]
    <2>1. "start" \in Moods BY DEF Moods
    <2> QED BY <2>1, HubParts, Tab_at, Zenon
  <1> HIDE DEF slot, q, t
  <1>7. u \in [Tabs -> TabRecord] BY <1>6, Tab_on, Zenon
  <1> HIDE DEF u
  <1>8. tab' \in [Tabs -> TabRecord] BY <1>2, <1>7, Tab_target, Zenon DEF TabOrNone
  <1>9. /\ r \in GoodLink /\ r.conn = link[l].conn /\ r.at = link[l].at
        /\ r.target = link[l].target /\ r.session = link[l].session
    BY <1>3, <1>5, Link_slot, Zenon
  <1> HIDE DEF r
  <1>10. /\ s \in GoodLink /\ s.conn = r.conn /\ s.at = r.at
         /\ s.target = r.target /\ s.session = r.session
    BY <1>4, <1>9, Link_queue, Zenon
  <1> HIDE DEF s
  <1>11. LinksFine' BY <1>1, <1>9, <1>10, QuietLink, Zenon
  <1> QED BY <1>8, <1>11

\* A tab gets another place, and loses its peer.
LEMMA TabEnds ==
  ASSUME HubInv, NEW b \in Tabs
  PROVE  [tab EXCEPT ![b].at = "done", ![b].peer = "gone"] \in [Tabs -> TabRecord]
  <1> DEFINE t == [tab EXCEPT ![b].at = "done"]
  <1>1. t \in [Tabs -> TabRecord]
    <2>1. "done" \in Moods BY DEF Moods
    <2> QED BY <2>1, HubParts, Tab_at, Zenon
  <1>2. [tab EXCEPT ![b].at = "done", ![b].peer = "gone"] = [t EXCEPT ![b].peer = "gone"]
    BY Zenon
  <1>3. "gone" \in Ends BY DEF Ends
  <1> HIDE DEF t
  <1> QED BY <1>1, <1>2, <1>3, Tab_peer, Zenon

\* A tab gets another place.
LEMMA TabMoves ==
  ASSUME HubInv, NEW b \in Tabs, NEW m \in Moods
  PROVE  [tab EXCEPT ![b].at = m] \in [Tabs -> TabRecord]
  BY HubParts, Tab_at, Zenon

\* A handler of a tab leaves its receive loop.
LEMMA LeavesHandler ==
  ASSUME HubInv, NEW b \in Tabs, NEW l, NEW q, NEW c \in Ends,
         l \in Links => q \in Seq(GoodFrame), LeaveHandler(b, l, q, c), UNCHANGED registry
  PROVE  LinksFine' /\ tab' \in [Tabs -> TabRecord]
  <1>1. CASE link[l].slot[Kind(b)] = None
    <2>1. /\ link' = [link EXCEPT ![l].queue = q]
          /\ tab' = [tab EXCEPT ![b].at = "done", ![b].peer = "gone", ![b].client = c]
      BY <1>1, Zenon DEF LeaveHandler
    <2> DEFINE t == [tab EXCEPT ![b].at = "done", ![b].peer = "gone"]
    <2>2. tab' = [t EXCEPT ![b].client = c] BY <2>1, Zenon
    <2>3. t \in [Tabs -> TabRecord] BY TabEnds, Zenon
    <2> HIDE DEF t
    <2>4. tab' \in [Tabs -> TabRecord] BY <2>2, <2>3, Tab_client, Zenon
    <2> QED BY <2>1, <2>4, QueueOnly, Zenon
  <1>2. CASE link[l].slot[Kind(b)] # None
    <2> DEFINE p == Append(q, [type |-> "stop", session |-> link[l].slot[Kind(b)], by |-> b])
               t == [tab EXCEPT ![b].at = "stopping"]
    <2>1. link' = [link EXCEPT ![l].queue = p] /\ tab' = [t EXCEPT ![b].client = c]
      BY <1>2, Zenon DEF LeaveHandler
    <2>2. t \in [Tabs -> TabRecord]
      <3>1. "stopping" \in Moods BY DEF Moods
      <3> QED BY <3>1, TabMoves, Zenon
    <2>3. l \in Links => p \in Seq(GoodFrame)
      <3> SUFFICES ASSUME l \in Links PROVE p \in Seq(GoodFrame) OBVIOUS
      <3>1. [type |-> "stop", session |-> link[l].slot[Kind(b)], by |-> b] \in GoodFrame
        BY Slots, Frames, Zenon
      <3> QED BY <3>1, AppendProperties
    <2> HIDE DEF t, p
    <2>4. tab' \in [Tabs -> TabRecord] BY <2>1, <2>2, Tab_client, Zenon
    <2> QED BY <2>1, <2>3, <2>4, QueueOnly, Zenon
  <1> QED BY <1>1, <1>2

\* An opener queues the stop of the session it replaces.
LEMMA QueuesStopOld ==
  ASSUME HubInv, NEW b \in Tabs, QueueStopOld(b)
  PROVE  HubInv'
  <1> DEFINE l == tab[b].on
             q == Enqueue(l, "stop", Slot(b), b)
             t == [tab EXCEPT ![b].at = "stopOld"]
  <1>1. /\ link' = [link EXCEPT ![l].queue = q] /\ tab' = [t EXCEPT ![b].target = None]
        /\ UNCHANGED <<registry, toAgent, toServer, agent, seen, budget>>
    BY Zenon DEF QueueStopOld
  <1>2. l \in Links => q \in Seq(GoodFrame)
    <2> SUFFICES ASSUME l \in Links PROVE q \in Seq(GoodFrame) OBVIOUS
    <2>1. /\ [type |-> "stop", session |-> link[l].slot[Kind(b)], by |-> b] \in GoodFrame
          /\ link[l].queue \in Seq(GoodFrame)
      BY Slots, Frames, Zenon
    <2> QED BY <2>1, AppendProperties DEF Enqueue, Slot
  <1>3. t \in [Tabs -> TabRecord]
    <2>1. "stopOld" \in Moods BY DEF Moods
    <2> QED BY <2>1, TabMoves, Zenon
  <1> HIDE DEF l, q, t
  <1>4. tab' \in [Tabs -> TabRecord] BY <1>1, <1>3, Tab_target, Zenon DEF TabOrNone
  <1>5. registry' = registry BY <1>1
  <1>6. LinksFine' BY <1>1, <1>2, <1>5, QueueOnly, Zenon
  <1>7. UNCHANGED <<toAgent, toServer, agent, seen, budget>> BY <1>1
  <1> QED BY <1>4, <1>6, <1>7, TabsAndLinks, Zenon

\* Each step of a tab's handler keeps the invariant.
LEMMA TabSteps ==
  ASSUME HubInv, NEW b \in Tabs, TabStep(b)
  PROVE  HubInv'
  <1>1. CASE OpenRefused(b)
    <2> DEFINE t == [tab EXCEPT ![b].at = "done", ![b].peer = "gone"]
    <2>1. tab' = [t EXCEPT ![b].app = "closed"] BY <1>1, Zenon DEF OpenRefused
    <2>2. t \in [Tabs -> TabRecord] BY TabEnds, Zenon
    <2> HIDE DEF t
    <2>3. tab' \in [Tabs -> TabRecord] BY <2>1, <2>2, Tab_app, Zenon
    <2> QED BY <1>1, <2>3, TabsOnly DEF OpenRefused
  <1>2. CASE OpenFree(b)
    <2>1. registry \in Links BY <1>2, HubParts DEF LinksFine, OpenFree
    <2>2. link[registry].queue \in Seq(GoodFrame) BY <2>1, Slots, Zenon
    <2>3. /\ TakeSlot(b, registry, link[registry].queue) /\ registry' = registry
          /\ UNCHANGED <<toAgent, toServer, agent, seen, budget>>
      BY <1>2 DEF OpenFree
    <2>4. LinksFine' /\ tab' \in [Tabs -> TabRecord] BY <2>1, <2>2, <2>3, TakesSlot, Zenon
    <2> QED BY <2>3, <2>4, TabsAndLinks, Zenon
  <1>3. CASE OpenPreempting(b)
    <2> DEFINE v == link[registry].slot[Kind(b)]
               t == [tab EXCEPT ![b].at = "tell"]
               u == [t EXCEPT ![b].on = registry]
    <2>1. tab' = [u EXCEPT ![b].target = v] BY <1>3, Zenon DEF OpenPreempting
    <2>2. registry \in Links BY <1>3, HubParts DEF LinksFine, OpenPreempting
    <2>3. v \in TabOrNone BY <2>2, Slots, Zenon
    <2>4. t \in [Tabs -> TabRecord]
      <3>1. "tell" \in Moods BY DEF Moods
      <3> QED BY <3>1, TabMoves, Zenon
    <2> HIDE DEF t, v
    <2>5. u \in [Tabs -> TabRecord] BY <2>2, <2>4, Tab_on, Zenon
    <2> HIDE DEF u
    <2>6. tab' \in [Tabs -> TabRecord] BY <2>1, <2>3, <2>5, Tab_target, Zenon
    <2> QED BY <1>3, <2>6, TabsOnly DEF OpenPreempting
  <1>4. CASE TellRaised(b)
    <2>1. tab' \in [Tabs -> TabRecord] BY <1>4, TabEnds, Zenon DEF TellRaised
    <2> QED BY <1>4, <2>1, TabsOnly DEF TellRaised
  <1>5. CASE Told(b)
    <2> DEFINE v == Slot(b)
               t == [tab EXCEPT ![b].at = "close"]
               u == [t EXCEPT ![b].target = v]
    <2>1. tab' = [u EXCEPT ![v].app = "closed"] BY <1>5, Zenon DEF Told
    <2>2. v \in Tabs BY <1>5 DEF Told, Closable
    <2>3. t \in [Tabs -> TabRecord]
      <3>1. "close" \in Moods BY DEF Moods
      <3> QED BY <3>1, TabMoves, Zenon
    <2> HIDE DEF t, v
    <2>4. u \in [Tabs -> TabRecord] BY <2>2, <2>3, Tab_target, Zenon DEF TabOrNone
    <2> HIDE DEF u
    <2>5. tab' \in [Tabs -> TabRecord] BY <2>1, <2>2, <2>4, Tab_app, Zenon
    <2> QED BY <1>5, <2>5, TabsOnly DEF Told
  <1>6. CASE ToldNothingToClose(b) \/ VictimClosed(b)
    BY <1>6, QueuesStopOld, Zenon DEF ToldNothingToClose, VictimClosed
  <1>7. CASE Greet(b)
    <2>1. "receive" \in Moods BY DEF Moods
    <2>2. tab' \in [Tabs -> TabRecord] BY <1>7, <2>1, TabMoves, Zenon DEF Greet
    <2> QED BY <1>7, <2>2, TabsOnly DEF Greet
  <1>8. CASE GreetRaised(b)
    <2>1. tab' \in [Tabs -> TabRecord] BY <1>8, TabEnds, Zenon DEF GreetRaised
    <2> QED BY <1>8, <2>1, TabsOnly DEF GreetRaised
  <1>9. CASE TabGone(b)
    <2>1. "gone" \in Ends BY DEF Ends
    <2>2. tab' \in [Tabs -> TabRecord] BY <1>9, <2>1, HubParts, Tab_peer, Zenon DEF TabGone
    <2> QED BY <1>9, <2>2, TabsOnly DEF TabGone
  <1>10. CASE ReceiveDisconnect(b)
    <2> DEFINE l == tab[b].on
    <2>1. /\ LeaveHandler(b, l, link[l].queue, "gone") /\ registry' = registry
          /\ UNCHANGED <<toAgent, toServer, agent, seen, budget>>
      BY <1>10 DEF ReceiveDisconnect
    <2>2. l \in Links => link[l].queue \in Seq(GoodFrame) BY Slots, Zenon
    <2>3. "gone" \in Ends BY DEF Ends
    <2> HIDE DEF l
    <2>4. LinksFine' /\ tab' \in [Tabs -> TabRecord] BY <2>1, <2>2, <2>3, LeavesHandler, Zenon
    <2> QED BY <2>1, <2>4, TabsAndLinks, Zenon
  <1>11. CASE BrowserInput(b)
    <2> DEFINE l == tab[b].on
               q == Enqueue(l, "input", InputSession(b), b)
    <2>1. /\ link' = [link EXCEPT ![l].queue = q] /\ tab' = [tab EXCEPT ![b].at = "relay"]
          /\ budget' = [budget EXCEPT !.input = @ - 1] /\ registry' = registry
          /\ toAgent' = toAgent /\ toServer' = toServer /\ agent' = agent /\ seen' = seen
      BY <1>11 DEF BrowserInput
    <2>2. l \in Links => q \in Seq(GoodFrame)
      <3> SUFFICES ASSUME l \in Links PROVE q \in Seq(GoodFrame) OBVIOUS
      <3>1. link[l].slot[Kind(b)] # None BY <1>11, Zenon DEF BrowserInput, InputSession, Slot
      <3>2. /\ [type |-> "input", session |-> link[l].slot[Kind(b)], by |-> b] \in GoodFrame
            /\ link[l].queue \in Seq(GoodFrame)
        BY <3>1, Slots, Frames, Zenon
      <3> QED BY <3>2, AppendProperties DEF Enqueue, InputSession, Slot
    <2> HIDE DEF l, q
    <2>3. LinksFine' BY <2>1, <2>2, QueueOnly, Zenon
    <2>4. (tab \in [Tabs -> TabRecord])'
      <3>1. "relay" \in Moods BY DEF Moods
      <3> QED BY <2>1, <3>1, TabMoves, Zenon
    <2>5. (budget \in Budget)'
      <3>1. budget \in Budget /\ budget.input > 0 BY <1>11, HubParts DEF BrowserInput
      <3> QED BY <2>1, <3>1, Spent, Zenon
    <2>6. /\ (toAgent \in [Links -> Seq(GoodFrame)])' /\ (toServer \in [Links -> Seq(Report)])'
          /\ (agent \in AgentRecord)' /\ OneShell' /\ (seen \in SeenRecord)' /\ OutputStaysInSession'
      BY <2>1, HubParts, Untouched, Zenon
    <2> QED BY <2>3, <2>4, <2>5, <2>6, HubPartsNext, Zenon
  <1> QED
    BY <1>1, <1>2, <1>3, <1>4, <1>5, <1>6, <1>7, <1>8, <1>9, <1>10, <1>11 DEF TabStep
-----------------------------------------------------------------------------
(* Sends *)

\* The first frame of a queue that is not empty, and its tab.
LEMMA FirstFrame ==
  ASSUME HubInv, NEW l \in Links, link[l].queue # <<>>
  PROVE  /\ First(l) \in GoodFrame /\ First(l).by \in Tabs /\ Rest(l) \in Seq(GoodFrame)
  <1>1. link[l].queue \in Seq(GoodFrame) BY Slots, Zenon
  <1>2. First(l) \in GoodFrame /\ Rest(l) \in Seq(GoodFrame)
    BY <1>1, QueueParts, Zenon DEF First, Rest
  <1>3. First(l).by \in Tabs BY <1>2 DEF GoodFrame, Frame
  <1> QED BY <1>2, <1>3

\* What is written joins the frames to the agent.
LEMMA WrittenFits ==
  ASSUME HubInv, NEW l \in Links, link[l].queue # <<>>, Written(l)
  PROVE  (toAgent \in [Links -> Seq(GoodFrame)])'
  <1>1. toAgent \in [Links -> Seq(GoodFrame)] BY HubParts
  <1>2. CASE link[l].conn = "up"
    <2> DEFINE q == Append(toAgent[l], First(l))
    <2>1. toAgent' = [toAgent EXCEPT ![l] = q] BY <1>2, Zenon DEF Written
    <2>2. q \in Seq(GoodFrame)
      <3>1. toAgent[l] \in Seq(GoodFrame) BY <1>1
      <3>2. First(l) \in GoodFrame BY FirstFrame
      <3> QED BY <3>1, <3>2, AppendProperties
    <2> HIDE DEF q
    <2> QED BY <1>1, <2>1, <2>2
  <1>3. CASE link[l].conn # "up" BY <1>1, <1>3 DEF Written
  <1> QED BY <1>2, <1>3

\* A finished send is written, and changes links and tabs.
LEMMA SendStep ==
  ASSUME HubInv, LinksFine', tab' \in [Tabs -> TabRecord],
         (toAgent \in [Links -> Seq(GoodFrame)])', UNCHANGED <<toServer, agent, seen, budget>>
  PROVE  HubInv'
  <1>1. toServer' = toServer /\ agent' = agent /\ seen' = seen /\ budget' = budget
    OBVIOUS
  <1>2. /\ (tab \in [Tabs -> TabRecord])'
        /\ (toServer \in [Links -> Seq(Report)])' /\ (budget \in Budget)'
    BY <1>1, HubParts, Zenon
  <1>3. /\ (agent \in AgentRecord)' /\ OneShell'
        /\ (seen \in SeenRecord)' /\ OutputStaysInSession'
    BY <1>1, Untouched, Zenon
  <1> QED BY <1>2, <1>3, HubPartsNext, Zenon

\* Each end of a send keeps the invariant.
LEMMA SendSteps ==
  ASSUME HubInv, NEW l \in Links,
         StopOldSent(l) \/ StartSent(l) \/ InputSent(l) \/ StopSent(l) \/ SendRaised(l)
  PROVE  HubInv'
  <1>1. link[l].queue # <<>>
    BY Zenon DEF StopOldSent, StartSent, InputSent, StopSent, SendRaised, Sender
  <1>2. First(l).by \in Tabs /\ Rest(l) \in Seq(GoodFrame) BY <1>1, FirstFrame
  <1> DEFINE b == First(l).by
  <1>3. CASE StopOldSent(l)
    <2>1. /\ Written(l) /\ TakeSlot(b, l, Rest(l)) /\ registry' = registry
          /\ UNCHANGED <<toServer, agent, seen, budget>>
      BY <1>3 DEF StopOldSent
    <2> HIDE DEF b
    <2>2. LinksFine' /\ tab' \in [Tabs -> TabRecord] BY <1>2, <2>1, TakesSlot, Zenon DEF b
    <2> QED BY <1>1, <2>1, <2>2, WrittenFits, SendStep, Zenon
  <1>4. CASE StartSent(l)
    <2>1. /\ Written(l) /\ link' = [link EXCEPT ![l].queue = Rest(l)]
          /\ tab' = [tab EXCEPT ![b].at = "greet"] /\ registry' = registry
          /\ UNCHANGED <<toServer, agent, seen, budget>>
      BY <1>4 DEF StartSent
    <2>2. "greet" \in Moods BY DEF Moods
    <2>3. tab' \in [Tabs -> TabRecord] BY <1>2, <2>1, <2>2, TabMoves, Zenon
    <2>4. LinksFine' BY <1>2, <2>1, QueueOnly, Zenon
    <2> QED BY <1>1, <2>1, <2>3, <2>4, WrittenFits, SendStep, Zenon
  <1>5. CASE InputSent(l)
    <2>1. /\ Written(l) /\ registry' = registry /\ UNCHANGED <<toServer, agent, seen, budget>>
      BY <1>5 DEF InputSent
    <2>2. CASE LeaveHandler(b, l, Rest(l), tab[b].client)
      <3>1. LinksFine' /\ tab' \in [Tabs -> TabRecord]
        BY <1>2, <2>1, <2>2, ClientKnown, LeavesHandler, Zenon
      <3> QED BY <1>1, <2>1, <3>1, WrittenFits, SendStep, Zenon
    <2>3. CASE /\ link' = [link EXCEPT ![l].queue = Rest(l)]
               /\ tab' = [tab EXCEPT ![b].at = "receive"]
      <3>1. "receive" \in Moods BY DEF Moods
      <3>2. tab' \in [Tabs -> TabRecord] BY <1>2, <2>3, <3>1, TabMoves, Zenon
      <3>3. LinksFine' BY <1>2, <2>1, <2>3, QueueOnly, Zenon
      <3> QED BY <1>1, <2>1, <3>2, <3>3, WrittenFits, SendStep, Zenon
    <2> QED BY <1>5, <2>2, <2>3, Zenon DEF InputSent
  <1>6. CASE StopSent(l)
    <2> DEFINE r == [link[l] EXCEPT !.queue = Rest(l)]
               s == [r EXCEPT !.slot = Clear(l, Kind(b))]
    <2>1. /\ Written(l) /\ registry' = registry
          /\ tab' = [tab EXCEPT ![b].at = "done", ![b].peer = "gone"]
          /\ UNCHANGED <<toServer, agent, seen, budget>>
      BY <1>6 DEF StopSent
    <2>2. link' = [link EXCEPT ![l] = s] BY <1>6, Zenon DEF StopSent
    <2>3. Clear(l, Kind(b)) \in [Kinds -> TabOrNone] BY Cleared, Slots, Zenon
    <2>4. /\ r \in GoodLink /\ r.conn = link[l].conn /\ r.at = link[l].at
          /\ r.target = link[l].target /\ r.session = link[l].session
      BY <1>2, Slots, Link_queue, Zenon
    <2> HIDE DEF r
    <2>5. /\ s \in GoodLink /\ s.conn = r.conn /\ s.at = r.at
          /\ s.target = r.target /\ s.session = r.session
      BY <2>3, <2>4, Link_slot, Zenon
    <2> HIDE DEF s
    <2>6. LinksFine' BY <2>1, <2>2, <2>4, <2>5, QuietLink, Zenon
    <2>7. tab' \in [Tabs -> TabRecord] BY <1>2, <2>1, TabEnds, Zenon
    <2> QED BY <1>1, <2>1, <2>6, <2>7, WrittenFits, SendStep, Zenon
  <1>7. CASE SendRaised(l)
    <2>1. /\ registry' = registry /\ toAgent' = toAgent
          /\ UNCHANGED <<toAgent, toServer, agent, seen, budget>>
      BY <1>7 DEF SendRaised
    <2>2. CASE LeaveHandler(b, l, Rest(l), tab[b].client)
      <3>1. LinksFine' /\ tab' \in [Tabs -> TabRecord]
        BY <1>2, <2>1, <2>2, ClientKnown, LeavesHandler, Zenon
      <3> QED BY <2>1, <3>1, TabsAndLinks, Zenon
    <2>3. CASE /\ link' = [link EXCEPT ![l].queue = Rest(l)]
               /\ tab' = [tab EXCEPT ![b].at = "done", ![b].peer = "gone"]
      <3>1. tab' \in [Tabs -> TabRecord] BY <1>2, <2>3, TabEnds, Zenon
      <3>2. LinksFine' BY <1>2, <2>1, <2>3, QueueOnly, Zenon
      <3> QED BY <2>1, <3>1, <3>2, TabsAndLinks, Zenon
    <2> QED BY <1>7, <2>2, <2>3, Zenon DEF SendRaised
  <1> QED BY <1>3, <1>4, <1>5, <1>6, <1>7
-----------------------------------------------------------------------------
(* The handlers of the control channels *)

\* A handler that relays or cleans up has a channel that was opened.
LEMMA Opened ==
  ASSUME HubInv, NEW l \in Links, link[l].at \in {"relay", "tell", "close"} \/ Serving(l)
  PROVE  link[l].conn # "unused" /\ link[l].at # "done"
  BY HubParts DEF LinksFine, Unopened, Serving

\* Steps that leave the agent and its frames alone.
LEMMA ChannelStep ==
  ASSUME HubInv, LinksFine', tab' \in [Tabs -> TabRecord],
         (toServer \in [Links -> Seq(Report)])', (seen \in SeenRecord)', OutputStaysInSession',
         UNCHANGED <<toAgent, agent, budget>>
  PROVE  HubInv'
  <1>1. toAgent' = toAgent /\ agent' = agent /\ budget' = budget OBVIOUS
  <1>2. /\ (tab \in [Tabs -> TabRecord])'
        /\ (toAgent \in [Links -> Seq(GoodFrame)])' /\ (budget \in Budget)'
    BY <1>1, HubParts, Zenon
  <1>3. (agent \in AgentRecord)' /\ OneShell' BY <1>1, Untouched, Zenon
  <1> QED BY <1>2, <1>3, HubPartsNext, Zenon

\* A handler turns to the tab of another slot.
LEMMA TellsTab ==
  ASSUME HubInv, NEW l \in Links, NEW k \in Kinds, NEW c \in Conns, c # "unused",
         link[l].conn # "unused", link[l].at # "done", TellTab(l, k, c)
  PROVE  LinksFine'
  <1> DEFINE r == [link[l] EXCEPT !.at = "tell"]
             s == [r EXCEPT !.kind = k]
             t == [s EXCEPT !.session = None]
             u == [t EXCEPT !.target = link[l].slot[k]]
             w == [u EXCEPT !.conn = c]
  <1>1. link' = [link EXCEPT ![l] = w] /\ registry' = registry BY Zenon DEF TellTab
  <1>2. link[l] \in GoodLink /\ link[l].slot[k] \in TabOrNone
    <2>1. link[l] \in GoodLink BY Slots, Zenon
    <2> QED BY <2>1, LinkFields
  <1>3. "tell" \in Places /\ None \in TabOrNone BY DEF Places, TabOrNone
  <1>4. r \in GoodLink /\ r.at = "tell" BY <1>2, <1>3, Link_at, Zenon
  <1> HIDE DEF r
  <1>5. s \in GoodLink /\ s.at = "tell" BY <1>4, Link_kind, Zenon
  <1> HIDE DEF s
  <1>6. t \in GoodLink /\ t.at = "tell" BY <1>3, <1>5, Link_session, Zenon
  <1> HIDE DEF t
  <1>7. u \in GoodLink /\ u.at = "tell" BY <1>2, <1>6, Link_target, Zenon
  <1> HIDE DEF u
  <1>8. w \in GoodLink /\ w.at = "tell" /\ w.conn = c BY <1>7, Link_conn, Zenon
  <1> HIDE DEF w
  <1> QED BY <1>1, <1>8, CalmLink

\* A handler ends: its link leaves the registry if it is still the one there.
LEMMA Unregisters ==
  ASSUME HubInv, NEW l \in Links, NEW c \in Conns, link[l].conn # "unused", Unregister(l, c)
  PROVE  LinksFine'
  <1> DEFINE d == IF c = "received" THEN c ELSE "closed"
             r == [link[l] EXCEPT !.at = "done"]
             s == [r EXCEPT !.target = None]
             t == [s EXCEPT !.session = None]
             u == [t EXCEPT !.conn = d]
  <1>1. /\ link' = [link EXCEPT ![l] = u]
        /\ registry' = IF registry = l THEN None ELSE registry
    BY Zenon DEF Unregister
  <1>2. link[l] \in GoodLink BY Slots, Zenon
  <1>3. "done" \in Places /\ None \in TabOrNone BY DEF Places, TabOrNone
  <1>4. d \in Conns /\ d # "unused" BY DEF Conns
  <1> HIDE DEF d
  <1>5. r \in GoodLink /\ r.at = "done" BY <1>2, <1>3, Link_at, Zenon
  <1> HIDE DEF r
  <1>6. s \in GoodLink /\ s.at = "done" BY <1>3, <1>5, Link_target, Zenon
  <1> HIDE DEF s
  <1>7. t \in GoodLink /\ t.at = "done" BY <1>3, <1>6, Link_session, Zenon
  <1> HIDE DEF t
  <1>8. u \in GoodLink /\ u.at = "done" /\ u.conn = d BY <1>4, <1>7, Link_conn, Zenon
  <1> HIDE DEF u
  <1>9. LinksFine BY HubParts
  <1>10. /\ link' \in [Links -> GoodLink] /\ link'[l] = u
         /\ \A m \in Links : m # l => link'[m] = link[m]
    BY <1>1, <1>8, <1>9, OneLink, Zenon DEF LinksFine
  <1>11. \A m \in Links : link'[m].conn = "unused" <=> link[m].conn = "unused"
    BY <1>4, <1>8, <1>10, Zenon
  <1>12. Unopened' BY <1>9, <1>10, <1>11, Zenon DEF LinksFine, Unopened
  <1>13. Paired'
    <2>1. link'[l].at # "relay" BY <1>8, <1>10
    <2> QED BY <1>9, <1>10, <2>1, Zenon DEF LinksFine, Paired
  <1>14. NewestLinkRegistered'
    <2> SUFFICES ASSUME NEW m \in Links
                 PROVE  registry' = m <=>
                          /\ link'[m].conn # "unused" /\ link'[m].at # "done"
                          /\ \A n \in Links : n > m => link'[n].conn = "unused"
      BY Zenon DEF NewestLinkRegistered
    <2>1. registry' # l BY <1>1, HubAssumption, Zenon
    <2>2. m # l => (registry' = m <=> registry = m) BY <1>1, HubAssumption, Zenon
    <2>3. registry = m <=> /\ link[m].conn # "unused" /\ link[m].at # "done"
                           /\ \A n \in Links : n > m => link[n].conn = "unused"
      BY <1>9, Zenon DEF LinksFine, NewestLinkRegistered
    <2>4. CASE m = l BY <1>8, <1>10, <2>1, <2>4, Zenon
    <2>5. CASE m # l BY <1>10, <1>11, <2>2, <2>3, <2>5, Zenon
    <2> QED BY <2>4, <2>5
  <1>15. registry' \in Links \union {None} BY <1>1, <1>9 DEF LinksFine
  <1> QED BY <1>10, <1>12, <1>13, <1>14, <1>15 DEF LinksFine

\* The finally block of a handler, from its start or from the terminal's tab on.
LEMMA FinallyGoesOn ==
  ASSUME HubInv, NEW l \in Links, NEW c \in Conns, c # "unused",
         link[l].conn # "unused", link[l].at # "done"
  PROVE  /\ StartFinally(l, c) => LinksFine'
         /\ NextFinally(l) => LinksFine'
  <1>1. "terminal" \in Kinds /\ "file" \in Kinds BY DEF Kinds
  <1>2. link[l].conn \in Conns BY Slots, LinkFields, Zenon
  <1>3. StartFinally(l, c) => LinksFine'
    BY <1>1, TellsTab, Unregisters, Zenon DEF StartFinally
  <1>4. NextFinally(l) => LinksFine'
    BY <1>1, <1>2, TellsTab, Unregisters, Zenon DEF NextFinally
  <1> QED BY <1>3, <1>4

\* The first report of a channel and the rest.
LEMMA FirstReport ==
  ASSUME HubInv, NEW l \in Links, toServer[l] # <<>>
  PROVE  /\ toServer[l][1].session \in Tabs /\ toServer[l][1].type \in Types
         /\ [toServer EXCEPT ![l] = Tail(@)] \in [Links -> Seq(Report)]
  <1>1. toServer \in [Links -> Seq(Report)] BY HubParts
  <1>2. toServer[l] \in Seq(Report) BY <1>1
  <1>3. toServer[l][1] \in Report /\ Tail(toServer[l]) \in Seq(Report) BY <1>2, QueueParts, Zenon
  <1>4. toServer[l][1].session \in Tabs /\ toServer[l][1].type \in Types
    BY <1>3 DEF Report, Types
  <1> QED BY <1>1, <1>3, <1>4

\* A frame of the session in the slot is taken over for that slot's tab.
LEMMA Receives ==
  ASSUME HubInv, NEW l \in Links, LinkReceive(l)
  PROVE  LinksFine'
  <1> DEFINE m == toServer[l][1]
             k == Kind(m.session)
             r == [link[l] EXCEPT !.at = "relay"]
             s == [r EXCEPT !.kind = k]
             t == [s EXCEPT !.target = link[l].slot[k]]
             u == [t EXCEPT !.type = m.type]
             w == [u EXCEPT !.session = m.session]
  <1>1. /\ toServer[l] # <<>> /\ Serving(l) /\ registry' = registry
        /\ \/ Relevant(l, m) /\ link' = [link EXCEPT ![l] = w]
           \/ link' = link
    BY Zenon DEF LinkReceive
  <1>2. m.session \in Tabs /\ m.type \in Types BY <1>1, FirstReport, Zenon
  <1>3. /\ link[l] \in GoodLink /\ k \in Kinds /\ link[l].slot[k] \in TabOrNone
    BY Slots, Zenon
  <1>4. Relevant(l, m) => link[l].slot[k] = m.session BY Zenon DEF Relevant
  <1>5. "relay" \in Places /\ m.session \in TabOrNone BY <1>2 DEF Places, TabOrNone
  <1> HIDE DEF k
  <1>6. r \in GoodLink /\ r.at = "relay" /\ r.conn = link[l].conn
    BY <1>3, <1>5, Link_at, Zenon
  <1> HIDE DEF r
  <1>7. s \in GoodLink /\ s.at = "relay" /\ s.conn = link[l].conn
    BY <1>3, <1>6, Link_kind, Zenon
  <1> HIDE DEF s
  <1>8. /\ t \in GoodLink /\ t.at = "relay" /\ t.conn = link[l].conn
        /\ t.target = link[l].slot[k]
    BY <1>3, <1>7, Link_target, Zenon
  <1> HIDE DEF t
  <1>9. /\ u \in GoodLink /\ u.at = "relay" /\ u.conn = link[l].conn
        /\ u.target = link[l].slot[k]
    BY <1>2, <1>8, Link_type, Zenon
  <1> HIDE DEF u
  <1>10. /\ w \in GoodLink /\ w.at = "relay" /\ w.conn = link[l].conn
         /\ w.target = link[l].slot[k] /\ w.session = m.session
    BY <1>5, <1>9, Link_session, Zenon
  <1> HIDE DEF w, m
  <1>11. link[l].conn # "unused" /\ link[l].at # "done" BY <1>1, Opened, Zenon
  <1>12. ASSUME Relevant(l, m), link' = [link EXCEPT ![l] = w] PROVE LinksFine'
    BY <1>1, <1>4, <1>10, <1>11, <1>12, CalmLink
  <1>13. ASSUME link' = link PROVE LinksFine' BY <1>1, <1>13, Untouched
  <1> QED BY <1>1, <1>12, <1>13

\* A frame is shown in the tab of its own session.
LEMMA Relays ==
  ASSUME HubInv, NEW l \in Links, Relayed(l)
  PROVE  LinksFine' /\ (seen \in SeenRecord)' /\ OutputStaysInSession'
  <1> DEFINE v    == link[l].target
             slot == IF link[l].type = "exited" THEN Clear(l, link[l].kind) ELSE link[l].slot
             r == [link[l] EXCEPT !.at = "receive"]
             s == [r EXCEPT !.target = None]
             t == [s EXCEPT !.session = None]
             u == [t EXCEPT !.slot = slot]
  <1>1. link' = [link EXCEPT ![l] = u] /\ registry' = registry BY Zenon DEF Relayed
  <1>2. link[l] \in GoodLink BY Slots, Zenon
  <1>3. /\ link[l].conn # "unused" /\ link[l].at # "done"
        /\ link[l].session = v
    BY Opened, HubParts, Zenon DEF Relayed, LinksFine, Paired
  <1>4. slot \in [Kinds -> TabOrNone] BY <1>2, LinkFields, Cleared, Zenon
  <1>5. "receive" \in Places /\ None \in TabOrNone BY DEF Places, TabOrNone
  <1>6. r \in GoodLink /\ r.at = "receive" /\ r.conn = link[l].conn
    BY <1>2, <1>5, Link_at, Zenon
  <1> HIDE DEF r, slot
  <1>7. s \in GoodLink /\ s.at = "receive" /\ s.conn = link[l].conn
    BY <1>5, <1>6, Link_target, Zenon
  <1> HIDE DEF s
  <1>8. t \in GoodLink /\ t.at = "receive" /\ t.conn = link[l].conn
    BY <1>5, <1>7, Link_session, Zenon
  <1> HIDE DEF t
  <1>9. u \in GoodLink /\ u.at = "receive" /\ u.conn = link[l].conn
    BY <1>4, <1>8, Link_slot, Zenon
  <1> HIDE DEF u
  <1>10. LinksFine' BY <1>1, <1>3, <1>9, CalmLink
  <1>11. seen' = seen \/ seen' = [seen EXCEPT !.shown[v] = @ \union {v}]
    BY <1>3, Zenon DEF Relayed
  <1> HIDE DEF v
  <1>12. CASE seen' = seen BY <1>10, <1>12, Untouched
  <1>13. CASE seen' = [seen EXCEPT !.shown[v] = @ \union {v}]
    <2>1. seen \in SeenRecord /\ OutputStaysInSession BY HubParts
    <2> DEFINE f == [seen.shown EXCEPT ![v] = @ \union {v}]
    <2>2. seen' = [seen EXCEPT !.shown = f] BY <1>13, Zenon
    <2>3. seen.shown \in [Tabs -> SUBSET Tabs] BY <2>1, Zenon DEF SeenRecord
    <2>4. f \in [Tabs -> SUBSET Tabs] BY <2>3, ShownAlso, Zenon
    <2>5. \A b \in Tabs : seen.shown[b] \subseteq {b} => f[b] \subseteq {b}
      BY <2>3, ShownAlso, Zenon
    <2> HIDE DEF f
    <2>6. [seen EXCEPT !.shown = f] \in SeenRecord /\ [seen EXCEPT !.shown = f].shown = f
      BY <2>1, <2>4, SeenFields
    <2> QED BY <1>10, <2>1, <2>2, <2>5, <2>6, Zenon DEF OutputStaysInSession
  <1> QED BY <1>11, <1>12, <1>13
\* A handler has closed a tab and waits for the closing handshake.
LEMMA ClosesTab ==
  ASSUME HubInv, NEW l \in Links, NEW v \in Tabs, link[l].at = "tell",
         link' = [link EXCEPT ![l].at = "close", ![l].target = v],
         tab' = [tab EXCEPT ![v].app = "closed"], UNCHANGED registry
  PROVE  LinksFine' /\ tab' \in [Tabs -> TabRecord]
  <1> DEFINE r == [link[l] EXCEPT !.at = "close"]
             s == [r EXCEPT !.target = v]
  <1>1. link' = [link EXCEPT ![l] = s] BY Zenon
  <1>2. link[l] \in GoodLink BY Slots, Zenon
  <1>3. "close" \in Places BY DEF Places
  <1>4. r \in GoodLink /\ r.at = "close" /\ r.conn = link[l].conn
    BY <1>2, <1>3, Link_at, Zenon
  <1> HIDE DEF r
  <1>5. s \in GoodLink /\ s.at = "close" /\ s.conn = link[l].conn
    <2>1. v \in TabOrNone BY DEF TabOrNone
    <2> QED BY <1>4, <2>1, Link_target, Zenon
  <1> HIDE DEF s
  <1>6. link[l].conn # "unused" /\ link[l].at # "done" BY Opened
  <1>7. LinksFine' BY <1>1, <1>5, <1>6, CalmLink
  <1>8. tab' \in [Tabs -> TabRecord] BY HubParts, Tab_app, Zenon
  <1> QED BY <1>7, <1>8

\* Each step of a channel's handler keeps the invariant.
LEMMA HandlerSteps ==
  ASSUME HubInv, NEW l \in Links,
         \/ LinkReceive(l) \/ Relayed(l) \/ LinkDisconnected(l) \/ RelayRaised(l)
         \/ FinallyTold(l) \/ FinallyTellRaised(l) \/ FinallyClosed(l)
  PROVE  HubInv'
  <1>1. CASE LinkReceive(l)
    <2>1. LinksFine' BY <1>1, Receives
    <2>2. /\ toServer[l] # <<>> /\ toServer' = [toServer EXCEPT ![l] = Tail(@)]
          /\ UNCHANGED <<toAgent, agent, budget>> /\ tab' = tab /\ seen' = seen
      BY <1>1, Zenon DEF LinkReceive
    <2>3. (toServer \in [Links -> Seq(Report)])' BY <2>2, FirstReport, Zenon
    <2>4. tab' \in [Tabs -> TabRecord] BY <2>2, HubParts, Zenon
    <2>5. (seen \in SeenRecord)' /\ OutputStaysInSession' BY <2>2, Untouched, Zenon
    <2> QED BY <2>1, <2>2, <2>3, <2>4, <2>5, ChannelStep, Zenon
  <1>2. CASE Relayed(l)
    <2>1. LinksFine' /\ (seen \in SeenRecord)' /\ OutputStaysInSession' BY <1>2, Relays
    <2>2. UNCHANGED <<toAgent, agent, budget>> /\ tab' = tab /\ toServer' = toServer
      BY <1>2 DEF Relayed
    <2>3. tab' \in [Tabs -> TabRecord] /\ (toServer \in [Links -> Seq(Report)])'
      BY <2>2, HubParts, Zenon
    <2> QED BY <2>1, <2>2, <2>3, ChannelStep, Zenon
  <1>3. CASE LinkDisconnected(l) \/ RelayRaised(l)
    <2>1. /\ UNCHANGED <<tab, toAgent, toServer, agent, seen, budget>> /\ tab' = tab
          /\ StartFinally(l, "received") \/ StartFinally(l, link[l].conn)
      BY <1>3 DEF LinkDisconnected, RelayRaised
    <2>2. link[l].conn # "unused" /\ link[l].at # "done"
      BY <1>3, Opened, Zenon DEF LinkDisconnected, RelayRaised
    <2>3. link[l].conn \in Conns /\ "received" \in Conns /\ "received" # "unused"
      <3>1. link[l].conn \in Conns BY Slots, LinkFields, Zenon
      <3> QED BY <3>1 DEF Conns
    <2>4. LinksFine' BY <2>1, <2>2, <2>3, FinallyGoesOn
    <2>5. tab' \in [Tabs -> TabRecord] BY <2>1, HubParts, Zenon
    <2> QED BY <2>1, <2>4, <2>5, TabsAndLinks
  <1>4. CASE FinallyTold(l) \/ FinallyTellRaised(l) \/ FinallyClosed(l)
    <2>1. link[l].conn # "unused" /\ link[l].at # "done"
      BY <1>4, Opened, Zenon DEF FinallyTold, FinallyTellRaised, FinallyClosed
    <2>2. UNCHANGED <<toAgent, toServer, agent, seen, budget>>
      BY <1>4 DEF FinallyTold, FinallyTellRaised, FinallyClosed
    <2>3. CASE NextFinally(l) /\ tab' = tab
      <3>1. LinksFine'
        <4>1. link[l].conn \in Conns BY Slots, LinkFields, Zenon
        <4> QED BY <2>1, <2>3, <4>1, FinallyGoesOn, Zenon
      <3>2. tab' \in [Tabs -> TabRecord] BY <2>3, HubParts, Zenon
      <3> QED BY <2>2, <3>1, <3>2, TabsAndLinks
    <2>4. CASE \/ NextFinally(l) /\ tab' = tab
               \/ \E v \in Tabs :
                    /\ link[l].at = "tell" /\ registry' = registry
                    /\ link' = [link EXCEPT ![l].at = "close", ![l].target = v]
                    /\ tab' = [tab EXCEPT ![v].app = "closed"]
      BY <2>2, <2>3, <2>4, ClosesTab, TabsAndLinks, Zenon
    <2>5. CASE FinallyTold(l)
      <3> DEFINE v == link[l].slot[link[l].kind]
      <3>1. v \in TabOrNone
        <4>1. link[l] \in GoodLink BY Slots, Zenon
        <4> QED BY <4>1, LinkFields
      <3>2. v # None => v \in Tabs BY <3>1 DEF TabOrNone
      <3>3. /\ link[l].at = "tell"
            /\ IF v # None /\ tab[v].app = "up"
               THEN /\ tab' = [tab EXCEPT ![v].app = "closed"]
                    /\ link' = [link EXCEPT ![l].at = "close", ![l].target = v]
                    /\ registry' = registry
               ELSE NextFinally(l) /\ tab' = tab
        BY <2>5, Zenon DEF FinallyTold
      <3> HIDE DEF v
      <3> QED BY <2>4, <3>2, <3>3, Zenon
    <2>6. CASE FinallyTellRaised(l) \/ FinallyClosed(l)
      BY <2>3, <2>6 DEF FinallyTellRaised, FinallyClosed
    <2> QED BY <1>4, <2>5, <2>6
  <1> QED BY <1>1, <1>2, <1>3, <1>4
-----------------------------------------------------------------------------
(* The agent *)

\* The agent's shells after the current one was stopped.
LEMMA Stopped ==
  ASSUME HubInv
  PROVE  /\ ShellsAfterStop \in [Tabs -> Shells]
         /\ \A b \in Tabs : ShellsAfterStop[b] # "running"
  <1>1. agent.shell \in [Tabs -> Shells] BY HubParts, Zenon DEF AgentRecord
  <1>2. \A b \in Tabs : agent.shell[b] = "running" => agent.cur["terminal"] = b
    BY HubParts DEF OneShell
  <1>3. "ended" \in Shells BY DEF Shells
  <1> QED BY <1>1, <1>2, <1>3, SMT DEF ShellsAfterStop

\* The fields of the agent.
LEMMA AgentFields ==
  ASSUME NEW r \in AgentRecord
  PROVE  /\ r.link \in Links \union {None} /\ r.cur \in [Kinds -> TabOrNone]
         /\ r.shell \in [Tabs -> Shells]
  BY Zenon DEF AgentRecord

\* Another link of the agent.
LEMMA Agent_link ==
  ASSUME NEW r \in AgentRecord, NEW x \in Links \union {None}
  PROVE  /\ [r EXCEPT !.link = x] \in AgentRecord /\ [r EXCEPT !.link = x].link = x
         /\ [r EXCEPT !.link = x].cur = r.cur /\ [r EXCEPT !.link = x].shell = r.shell
  BY SMT DEF AgentRecord

\* Other current sessions of the agent.
LEMMA Agent_cur ==
  ASSUME NEW r \in AgentRecord, NEW x \in [Kinds -> TabOrNone]
  PROVE  /\ [r EXCEPT !.cur = x] \in AgentRecord /\ [r EXCEPT !.cur = x].cur = x
         /\ [r EXCEPT !.cur = x].link = r.link /\ [r EXCEPT !.cur = x].shell = r.shell
  BY SMT DEF AgentRecord

\* Other shells of the agent.
LEMMA Agent_shell ==
  ASSUME NEW r \in AgentRecord, NEW x \in [Tabs -> Shells]
  PROVE  /\ [r EXCEPT !.shell = x] \in AgentRecord /\ [r EXCEPT !.shell = x].shell = x
         /\ [r EXCEPT !.shell = x].link = r.link /\ [r EXCEPT !.shell = x].cur = r.cur
  BY SMT DEF AgentRecord

\* One of several queues is replaced.
LEMMA OneQueue ==
  ASSUME NEW S, NEW f \in [Links -> S], NEW l \in Links, NEW q \in S
  PROVE  [f EXCEPT ![l] = q] \in [Links -> S]
  BY SMT

\* The agent's next channel is the newest one, and the only one registered.
LEMMA Connects ==
  ASSUME HubInv, NEW l \in Links, AgentConnect(l)
  PROVE  HubInv'
  <1> DEFINE r == [link[l] EXCEPT !.conn = "up"]
  <1>1. /\ link' = [link EXCEPT ![l] = r] /\ registry' = l
        /\ agent' = [agent EXCEPT !.link = l]
        /\ agent.link = None /\ link[l].conn = "unused"
        /\ \A m \in 1..(l - 1) : link[m].conn # "unused"
        /\ tab' = tab /\ toAgent' = toAgent /\ toServer' = toServer /\ seen' = seen
        /\ budget' = budget
    BY Zenon DEF AgentConnect, Dials, Register
  <1>2. LinksFine BY HubParts
  <1>3. link[l].at = "receive" /\ \A m \in Links : m > l => link[m].conn = "unused"
    BY <1>1, <1>2 DEF LinksFine, Unopened
  <1>4. r \in GoodLink /\ r.conn = "up" /\ r.at = "receive"
    <2>1. link[l] \in GoodLink BY Slots, Zenon
    <2>2. "up" \in Conns BY DEF Conns
    <2> QED BY <1>3, <2>1, <2>2, Link_conn, Zenon
  <1> HIDE DEF r
  <1>5. /\ link' \in [Links -> GoodLink] /\ link'[l] = r
        /\ \A m \in Links : m # l => link'[m] = link[m]
    BY <1>1, <1>2, <1>4, OneLink, Zenon DEF LinksFine
  <1>6. \A m \in Links : m < l => link[m].conn # "unused"
    BY <1>1, HubAssumption DEF Links
  <1>7. \A m \in Links : m # l => m < l \/ m > l BY HubAssumption DEF Links
  <1>8. Unopened'
    <2>1. \A m \in Links : link'[m].conn = "unused" => m # l /\ link[m].conn = "unused"
      BY <1>4, <1>5, Zenon
    <2>2. \A m \in Links : link'[m].conn = "unused" => m > l BY <1>6, <1>7, <2>1, Zenon
    <2>3. \A m \in Links : \A n \in Links : m > l /\ n > m => n > l /\ n # l
      BY HubAssumption DEF Links
    <2> QED BY <1>2, <1>3, <1>5, <2>1, <2>2, <2>3, Zenon DEF LinksFine, Unopened
  <1>9. Paired'
    <2>1. link'[l].at # "relay" BY <1>4, <1>5
    <2> QED BY <1>2, <1>5, <2>1, Zenon DEF LinksFine, Paired
  <1>10. NewestLinkRegistered'
    <2> SUFFICES ASSUME NEW m \in Links
                 PROVE  registry' = m <=>
                          /\ link'[m].conn # "unused" /\ link'[m].at # "done"
                          /\ \A n \in Links : n > m => link'[n].conn = "unused"
      BY Zenon DEF NewestLinkRegistered
    <2>1. CASE m = l
      <3>1. \A n \in Links : n > l => n # l BY HubAssumption DEF Links
      <3>2. \A n \in Links : n > m => link'[n].conn = "unused"
        BY <1>3, <1>5, <2>1, <3>1, Zenon
      <3>3. link'[m].conn = "up" /\ link'[m].at = "receive" BY <1>4, <1>5, <2>1, Zenon
      <3> QED BY <1>1, <2>1, <3>2, <3>3
    <2>2. CASE m < l
      <3>1. l > m /\ m # l BY <2>2, HubAssumption DEF Links
      <3> QED BY <1>1, <1>4, <1>5, <3>1
    <2>3. CASE m > l
      <3>1. m # l BY <2>3, HubAssumption DEF Links
      <3> QED BY <1>1, <1>3, <1>5, <2>3, <3>1
    <2> QED BY <1>7, <2>1, <2>2, <2>3
  <1>11. LinksFine' BY <1>1, <1>5, <1>8, <1>9, <1>10 DEF LinksFine
  <1>12. (agent \in AgentRecord)' /\ OneShell'
    <2>1. agent \in AgentRecord /\ OneShell BY HubParts
    <2>2. agent' \in AgentRecord /\ agent'.shell = agent.shell /\ agent'.cur = agent.cur
      BY <1>1, <2>1, Agent_link, Zenon
    <2>3. \A b \in Tabs : agent.shell[b] # "running" BY <1>1, <2>1 DEF OneShell
    <2> QED BY <2>2, <2>3, Zenon DEF OneShell
  <1>13. /\ (tab \in [Tabs -> TabRecord])' /\ (toAgent \in [Links -> Seq(GoodFrame)])'
         /\ (toServer \in [Links -> Seq(Report)])' /\ (budget \in Budget)'
    BY <1>1, HubParts, Zenon
  <1>14. (seen \in SeenRecord)' /\ OutputStaysInSession' BY <1>1, Untouched, Zenon
  <1> QED BY <1>11, <1>12, <1>13, <1>14, HubPartsNext, Zenon

\* Without its channel the agent has no session and no running shell.
LEMMA Disconnects ==
  ASSUME HubInv, NEW l \in Links, AgentLosesChannel(l)
  PROVE  HubInv'
  <1> DEFINE cur   == [k \in Kinds |-> None]
             shell == [b \in Tabs |->
                        IF ShellsAfterStop[b] = "ended" THEN "reported" ELSE ShellsAfterStop[b]]
             r == [agent EXCEPT !.link = None]
             s == [r EXCEPT !.cur = cur]
             t == [link[l] EXCEPT !.conn = "gone"]
  <1>1. /\ agent' = [s EXCEPT !.shell = shell] /\ toAgent' = [toAgent EXCEPT ![l] = <<>>]
        /\ \E kept \in {toServer[l], <<>>} : toServer' = [toServer EXCEPT ![l] = kept]
        /\ registry' = registry /\ tab' = tab /\ seen' = seen
    BY Zenon DEF AgentLosesChannel
  <1>2. (agent \in AgentRecord)' /\ OneShell'
    <2>1. cur \in [Kinds -> TabOrNone] BY DEF TabOrNone
    <2>2. shell \in [Tabs -> Shells] /\ \A b \in Tabs : shell[b] # "running"
      BY Stopped, SMT DEF Shells
    <2>3. agent \in AgentRecord BY HubParts
    <2> HIDE DEF cur, shell
    <2>4. r \in AgentRecord BY <2>3, Agent_link, Zenon
    <2> HIDE DEF r
    <2>5. s \in AgentRecord BY <2>1, <2>4, Agent_cur, Zenon
    <2> HIDE DEF s
    <2>6. agent' \in AgentRecord /\ agent'.shell = shell
      BY <1>1, <2>2, <2>5, Agent_shell, Zenon
    <2> QED BY <2>2, <2>6, Zenon DEF OneShell
  <1>3. LinksFine' /\ (budget \in Budget)'
    <2>1. CASE /\ link[l].conn = "up" /\ budget.drops > 0
               /\ budget' = [budget EXCEPT !.drops = @ - 1]
               /\ link' = [link EXCEPT ![l].conn = "gone"]
      <3>1. link' = [link EXCEPT ![l] = t] BY <2>1, Zenon
      <3>2. link[l] \in GoodLink BY Slots, Zenon
      <3>3. "gone" \in Conns BY DEF Conns
      <3>4. /\ t \in GoodLink /\ t.conn = "gone" /\ t.at = link[l].at
            /\ t.target = link[l].target /\ t.session = link[l].session
        BY <3>2, <3>3, Link_conn, Zenon
      <3> HIDE DEF t
      <3>5. link[l].at = "relay" => link[l].target = link[l].session
        BY HubParts DEF LinksFine, Paired
      <3>6. registry' = registry /\ link[l].conn = "up" BY <1>1, <2>1
      <3>7. LinksFine' BY <3>1, <3>4, <3>5, <3>6, CalmLink
      <3>8. (budget \in Budget)' BY <2>1, HubParts, Spent, Zenon
      <3> QED BY <3>7, <3>8
    <2>2. CASE UNCHANGED <<budget, link>>
      <3>1. budget' = budget /\ link' = link BY <2>2
      <3> QED BY <1>1, <3>1, HubParts, Untouched
    <2> QED BY <2>1, <2>2, Zenon DEF AgentLosesChannel
  <1>4. (toAgent \in [Links -> Seq(GoodFrame)])' /\ (toServer \in [Links -> Seq(Report)])'
    <2>1. toAgent \in [Links -> Seq(GoodFrame)] /\ toServer \in [Links -> Seq(Report)]
      BY HubParts
    <2>2. <<>> \in Seq(GoodFrame) /\ <<>> \in Seq(Report) /\ toServer[l] \in Seq(Report)
      BY <2>1
    <2>3. [toAgent EXCEPT ![l] = <<>>] \in [Links -> Seq(GoodFrame)]
      BY <2>1, <2>2, OneQueue, Zenon
    <2>4. \A kept \in {toServer[l], <<>>} :
            [toServer EXCEPT ![l] = kept] \in [Links -> Seq(Report)]
      <3> SUFFICES ASSUME NEW kept \in {toServer[l], <<>>}
                   PROVE  [toServer EXCEPT ![l] = kept] \in [Links -> Seq(Report)]
        OBVIOUS
      <3>1. kept \in Seq(Report) BY <2>2
      <3> QED BY <2>1, <3>1, OneQueue, Zenon
    <2> QED BY <1>1, <2>3, <2>4, Zenon
  <1>5. (tab \in [Tabs -> TabRecord])' BY <1>1, HubParts, Zenon
  <1>6. (seen \in SeenRecord)' /\ OutputStaysInSession' BY <1>1, Untouched, Zenon
  <1> QED BY <1>2, <1>3, <1>4, <1>5, <1>6, HubPartsNext, Zenon

\* The first frame to the agent, and what it names.
LEMMA FirstToAgent ==
  ASSUME HubInv, agent.link # None, toAgent[agent.link] # <<>>
  PROVE  /\ agent.link \in Links /\ toAgent[agent.link][1] \in GoodFrame
         /\ toAgent[agent.link][1].by \in Tabs
         /\ toAgent[agent.link][1].type # "stop" => toAgent[agent.link][1].session \in Tabs
         /\ Taken => (toAgent \in [Links -> Seq(GoodFrame)])'
  <1>1. agent.link \in Links BY HubParts, AgentFields
  <1>2. toAgent \in [Links -> Seq(GoodFrame)] BY HubParts
  <1> DEFINE q == toAgent[agent.link]
  <1>3. q \in Seq(GoodFrame) BY <1>1, <1>2
  <1>4. q[1] \in GoodFrame /\ Tail(q) \in Seq(GoodFrame) BY <1>3, QueueParts, Zenon
  <1>5. q[1].by \in Tabs /\ (q[1].type # "stop" => q[1].session \in Tabs)
    BY <1>4 DEF GoodFrame, Frame
  <1>6. Taken => toAgent' = [toAgent EXCEPT ![agent.link] = Tail(q)] BY Zenon DEF Taken
  <1> HIDE DEF q
  <1>7. Taken => (toAgent \in [Links -> Seq(GoodFrame)])' BY <1>1, <1>2, <1>4, <1>6, OneQueue, Zenon
  <1> QED BY <1>1, <1>4, <1>5, <1>7 DEF q

\* A report joins the frames to the server.
LEMMA Replies ==
  ASSUME HubInv, agent.link # None, NEW type \in Types, NEW b \in Tabs, Reply(type, b)
  PROVE  (toServer \in [Links -> Seq(Report)])'
  <1> DEFINE q == Append(toServer[agent.link], ReportOf(type, b))
  <1>1. agent.link \in Links BY HubParts, AgentFields
  <1>2. toServer \in [Links -> Seq(Report)] BY HubParts
  <1>3. q \in Seq(Report)
    <2>1. toServer[agent.link] \in Seq(Report) BY <1>1, <1>2
    <2>2. ReportOf(type, b) \in Report BY DEF ReportOf, Report, Types
    <2> QED BY <2>1, <2>2, AppendProperties
  <1>4. toServer' = [toServer EXCEPT ![agent.link] = q] BY Zenon DEF Reply
  <1> HIDE DEF q
  <1> QED BY <1>1, <1>2, <1>3, <1>4, OneQueue, Zenon

\* A step of the agent that writes nothing of the server's but the frames.
LEMMA AgentMoves ==
  ASSUME HubInv, UNCHANGED <<registry, link, tab>>,
         (toAgent \in [Links -> Seq(GoodFrame)])', (toServer \in [Links -> Seq(Report)])',
         (agent \in AgentRecord)', OneShell', (seen \in SeenRecord)', OutputStaysInSession',
         (budget \in Budget)'
  PROVE  HubInv'
  <1>1. UNCHANGED <<registry, link>> /\ tab' = tab OBVIOUS
  <1>2. LinksFine' BY <1>1, Untouched
  <1>3. (tab \in [Tabs -> TabRecord])' BY <1>1, HubParts, Zenon
  <1> QED BY <1>2, <1>3, HubPartsNext, Zenon

\* Another current session of one kind.
LEMMA CurrentSet ==
  ASSUME HubInv, NEW k \in Kinds, NEW x \in TabOrNone
  PROVE  /\ [agent.cur EXCEPT ![k] = x] \in [Kinds -> TabOrNone]
         /\ [agent.cur EXCEPT ![k] = x][k] = x
         /\ \A j \in Kinds : j # k => [agent.cur EXCEPT ![k] = x][j] = agent.cur[j]
  <1>1. agent.cur \in [Kinds -> TabOrNone] BY HubParts, AgentFields
  <1> QED BY <1>1

\* An agent whose shells are fine after the step.
LEMMA ShellsFine ==
  ASSUME NEW r \in AgentRecord, agent' = r,
         \A b \in Tabs : r.shell[b] = "running" => r.link # None /\ r.cur["terminal"] = b
  PROVE  (agent \in AgentRecord)' /\ OneShell'
  BY Zenon DEF OneShell

\* The history and the bounds that a step of the agent leaves alone.
LEMMA KeptAside ==
  ASSUME HubInv
  PROVE  /\ UNCHANGED seen => (seen \in SeenRecord)' /\ OutputStaysInSession'
         /\ UNCHANGED budget => (budget \in Budget)'
         /\ UNCHANGED toServer => (toServer \in [Links -> Seq(Report)])'
         /\ UNCHANGED toAgent => (toAgent \in [Links -> Seq(GoodFrame)])'
         /\ UNCHANGED agent => (agent \in AgentRecord)' /\ OneShell'
  BY HubParts, Untouched, Zenon

\* The agent takes up a session of one kind, and what that says of the shells.
LEMMA OneShellAfter ==
  ASSUME HubInv, NEW x \in TabOrNone, NEW shell \in [Tabs -> Shells],
         agent' = [agent EXCEPT !.cur["terminal"] = x, !.shell = shell],
         \A b \in Tabs : shell[b] = "running" => agent.link # None /\ x = b
  PROVE  (agent \in AgentRecord)' /\ OneShell'
  <1> DEFINE cur == [agent.cur EXCEPT !["terminal"] = x]
             r   == [agent EXCEPT !.cur = cur]
             s   == [r EXCEPT !.shell = shell]
  <1>1. agent' = s BY Zenon
  <1>2. cur \in [Kinds -> TabOrNone] /\ cur["terminal"] = x
    <2>1. "terminal" \in Kinds BY DEF Kinds
    <2> QED BY <2>1, CurrentSet, Zenon
  <1>3. agent \in AgentRecord BY HubParts
  <1> HIDE DEF cur
  <1>4. r \in AgentRecord /\ r.cur = cur /\ r.link = agent.link
    BY <1>2, <1>3, Agent_cur, Zenon
  <1> HIDE DEF r
  <1>5. s \in AgentRecord /\ s.shell = shell /\ s.cur = r.cur /\ s.link = r.link
    BY <1>4, Agent_shell, Zenon
  <1> HIDE DEF s
  <1> QED BY <1>1, <1>2, <1>4, <1>5, ShellsFine

\* A file session does not disturb the shells.
LEMMA OneShellKept ==
  ASSUME HubInv, NEW x \in TabOrNone, agent' = [agent EXCEPT !.cur["file"] = x]
  PROVE  (agent \in AgentRecord)' /\ OneShell'
  <1> DEFINE cur == [agent.cur EXCEPT !["file"] = x]
             r   == [agent EXCEPT !.cur = cur]
  <1>1. agent' = r BY Zenon
  <1>2. cur \in [Kinds -> TabOrNone] /\ cur["terminal"] = agent.cur["terminal"]
    <2>1. "file" \in Kinds /\ "terminal" \in Kinds /\ "terminal" # "file" BY DEF Kinds
    <2> QED BY <2>1, CurrentSet, Zenon
  <1>3. agent \in AgentRecord /\ OneShell BY HubParts
  <1> HIDE DEF cur
  <1>4. /\ r \in AgentRecord /\ r.cur = cur /\ r.link = agent.link
        /\ r.shell = agent.shell
    BY <1>2, <1>3, Agent_cur, Zenon
  <1> HIDE DEF r
  <1> QED BY <1>1, <1>2, <1>3, <1>4, Zenon DEF OneShell

\* A shell that runs no more.
LEMMA ShellSet ==
  ASSUME HubInv, NEW b \in Tabs, NEW x \in Shells, x # "running"
  PROVE  /\ [agent.shell EXCEPT ![b] = x] \in [Tabs -> Shells]
         /\ \A c \in Tabs : [agent.shell EXCEPT ![b] = x][c] = "running" =>
              /\ agent.link # None /\ agent.cur["terminal"] = c /\ c # b
  <1> DEFINE f == [agent.shell EXCEPT ![b] = x]
  <1>1. agent.shell \in [Tabs -> Shells] BY HubParts, AgentFields
  <1>2. f \in [Tabs -> Shells] /\ \A c \in Tabs : f[c] = IF c = b THEN x ELSE agent.shell[c]
    BY <1>1, TabSet, Zenon
  <1>3. \A c \in Tabs : agent.shell[c] = "running" => agent.link # None /\ agent.cur["terminal"] = c
    BY HubParts DEF OneShell
  <1> HIDE DEF f
  <1>4. \A c \in Tabs : f[c] = "running" =>
          agent.link # None /\ agent.cur["terminal"] = c /\ c # b
    BY <1>2, <1>3, Zenon
  <1> QED BY <1>2, <1>4 DEF f

\* Each step of the agent keeps the invariant.
LEMMA AgentSteps ==
  ASSUME HubInv, AgentStep
  PROVE  HubInv'
  <1> DEFINE m == toAgent[agent.link][1]
  <1>1. "terminal" \in Kinds /\ "file" \in Kinds BY DEF Kinds
  <1>2. "started" \in Types /\ "output" \in Types /\ "exited" \in Types BY DEF Types
  <1>3. ShellsAfterStop \in [Tabs -> Shells] /\ \A b \in Tabs : ShellsAfterStop[b] # "running"
    BY Stopped
  <1>4. None \in TabOrNone /\ \A b \in Tabs : b \in TabOrNone BY DEF TabOrNone
  <1>5. CASE AgentStartsShell
    <2> DEFINE b     == m.session
               shell == [ShellsAfterStop EXCEPT ![b] = "running"]
    <2>1. /\ agent.link # None /\ toAgent[agent.link] # <<>> /\ m.type = "start"
          /\ agent' = [agent EXCEPT !.cur["terminal"] = b, !.shell = shell]
          /\ Reply("started", b) /\ Taken
          /\ UNCHANGED <<registry, link, tab>> /\ seen' = seen /\ budget' = budget
      BY <1>5 DEF AgentStartsShell, Incoming
    <2>2. b \in Tabs /\ (toAgent \in [Links -> Seq(GoodFrame)])'
      BY <2>1, FirstToAgent
    <2>3. (toServer \in [Links -> Seq(Report)])' BY <1>2, <2>1, <2>2, Replies, Zenon
    <2>4. "running" \in Shells BY DEF Shells
    <2> HIDE DEF m
    <2>5. /\ shell \in [Tabs -> Shells]
          /\ \A c \in Tabs : shell[c] = IF c = b THEN "running" ELSE ShellsAfterStop[c]
      BY <1>3, <2>2, <2>4, TabSet, Zenon
    <2> HIDE DEF b, shell
    <2>6. \A c \in Tabs : shell[c] = "running" => agent.link # None /\ b = c
      BY <1>3, <2>1, <2>5, Zenon
    <2>7. (agent \in AgentRecord)' /\ OneShell'
      BY <1>4, <2>1, <2>2, <2>5, <2>6, OneShellAfter, Zenon
    <2>8. (seen \in SeenRecord)' /\ OutputStaysInSession' /\ (budget \in Budget)'
      BY <2>1, KeptAside, Zenon
    <2> QED BY <2>1, <2>2, <2>3, <2>7, <2>8, AgentMoves, Zenon
  <1>6. CASE AgentShellFails
    <2> DEFINE shell == ShellsAfterStop
    <2>1. /\ agent.link # None /\ toAgent[agent.link] # <<>> /\ m.type = "start"
          /\ agent' = [agent EXCEPT !.cur["terminal"] = None, !.shell = shell]
          /\ Reply("exited", m.session) /\ Taken
          /\ UNCHANGED <<registry, link, tab>> /\ seen' = seen /\ budget' = budget
      BY <1>6 DEF AgentShellFails, Incoming
    <2>2. m.session \in Tabs /\ (toAgent \in [Links -> Seq(GoodFrame)])'
      BY <2>1, FirstToAgent
    <2>3. (toServer \in [Links -> Seq(Report)])' BY <1>2, <2>1, <2>2, Replies, Zenon
    <2> HIDE DEF m
    <2>4. (agent \in AgentRecord)' /\ OneShell' BY <1>3, <1>4, <2>1, OneShellAfter, Zenon
    <2>5. (seen \in SeenRecord)' /\ OutputStaysInSession' /\ (budget \in Budget)'
      BY <2>1, KeptAside, Zenon
    <2> QED BY <2>1, <2>2, <2>3, <2>4, <2>5, AgentMoves, Zenon
  <1>7. CASE AgentStartsFiles
    <2>1. /\ agent.link # None /\ toAgent[agent.link] # <<>> /\ m.type = "start"
          /\ agent' = [agent EXCEPT !.cur["file"] = m.session]
          /\ Reply("started", m.session) /\ Taken
          /\ UNCHANGED <<registry, link, tab>> /\ seen' = seen /\ budget' = budget
      BY <1>7 DEF AgentStartsFiles, Incoming
    <2>2. m.session \in Tabs /\ (toAgent \in [Links -> Seq(GoodFrame)])'
      BY <2>1, FirstToAgent
    <2>3. (toServer \in [Links -> Seq(Report)])' BY <1>2, <2>1, <2>2, Replies, Zenon
    <2> HIDE DEF m
    <2>4. (agent \in AgentRecord)' /\ OneShell' BY <1>4, <2>1, <2>2, OneShellKept, Zenon
    <2>5. (seen \in SeenRecord)' /\ OutputStaysInSession' /\ (budget \in Budget)'
      BY <2>1, KeptAside, Zenon
    <2> QED BY <2>1, <2>2, <2>3, <2>4, <2>5, AgentMoves, Zenon
  <1>8. CASE AgentInput
    <2>1. /\ agent.link # None /\ toAgent[agent.link] # <<>> /\ m.type = "input"
          /\ seen' = seen \/ seen' = [seen EXCEPT !.typed[m.by] = @ \union {m.session}]
          /\ Reply("output", m.session) \/ toServer' = toServer
          /\ Taken /\ UNCHANGED <<registry, link, tab>> /\ agent' = agent /\ budget' = budget
      BY <1>8, Zenon DEF AgentInput, Incoming
    <2>2. /\ m.session \in Tabs /\ m.by \in Tabs
          /\ (toAgent \in [Links -> Seq(GoodFrame)])'
      BY <2>1, FirstToAgent
    <2>3. (toServer \in [Links -> Seq(Report)])'
      BY <1>2, <2>1, <2>2, Replies, KeptAside, Zenon
    <2>4. (agent \in AgentRecord)' /\ OneShell' /\ (budget \in Budget)'
      BY <2>1, KeptAside, Zenon
    <2> HIDE DEF m
    <2>5. (seen \in SeenRecord)' /\ OutputStaysInSession'
      <3>1. CASE seen' = seen BY <3>1, KeptAside, Zenon
      <3>2. CASE seen' = [seen EXCEPT !.typed[m.by] = @ \union {m.session}]
        <4> DEFINE f == [seen.typed EXCEPT ![m.by] = @ \union {m.session}]
        <4>1. seen' = [seen EXCEPT !.typed = f] BY <3>2, Zenon
        <4>2. seen \in SeenRecord /\ OutputStaysInSession BY HubParts
        <4>3. f \in [Tabs -> SUBSET Tabs]
          <5>1. seen.typed \in [Tabs -> SUBSET Tabs] BY <4>2, Zenon DEF SeenRecord
          <5> QED BY <2>2, <5>1, TabAlso, Zenon
        <4> HIDE DEF f
        <4>4. /\ [seen EXCEPT !.typed = f] \in SeenRecord
              /\ [seen EXCEPT !.typed = f].shown = seen.shown
          BY <4>2, <4>3, SeenFields, Zenon
        <4> QED BY <4>1, <4>2, <4>4, Zenon DEF OutputStaysInSession
      <3> QED BY <2>1, <3>1, <3>2
    <2> QED BY <2>1, <2>2, <2>3, <2>4, <2>5, AgentMoves, Zenon
  <1>9. CASE AgentStop
    <2> DEFINE k == Kind(m.by)
    <2>1. /\ agent.link # None /\ toAgent[agent.link] # <<>>
          /\ \/ agent' = agent
             \/ agent' = [agent EXCEPT !.cur[k] = None,
                            !.shell = IF k = "terminal" THEN ShellsAfterStop ELSE @]
          /\ Taken /\ UNCHANGED <<registry, link, tab>>
          /\ toServer' = toServer /\ seen' = seen /\ budget' = budget
      BY <1>9, Zenon DEF AgentStop, Incoming
    <2>2. (toAgent \in [Links -> Seq(GoodFrame)])' BY <2>1, FirstToAgent
    <2>3. k = "terminal" \/ k = "file" BY DEF Kind
    <2> HIDE DEF k, m
    <2>4. (agent \in AgentRecord)' /\ OneShell'
      <3>1. CASE agent' = agent BY <3>1, KeptAside, Zenon
      <3>2. CASE agent' = [agent EXCEPT !.cur[k] = None,
                             !.shell = IF k = "terminal" THEN ShellsAfterStop ELSE @]
        <4>1. CASE k = "terminal"
          <5>1. agent' = [agent EXCEPT !.cur["terminal"] = None, !.shell = ShellsAfterStop]
            BY <3>2, <4>1, Zenon
          <5> QED BY <1>3, <1>4, <5>1, OneShellAfter, Zenon
        <4>2. CASE k = "file"
          <5> DEFINE cur == [agent.cur EXCEPT !["file"] = None]
                     r   == [agent EXCEPT !.cur = cur]
                     s   == [r EXCEPT !.shell = r.shell]
          <5>1. agent' = s BY <3>2, <4>2, Zenon
          <5>2. agent \in AgentRecord /\ OneShell BY HubParts
          <5>3. cur \in [Kinds -> TabOrNone] /\ cur["terminal"] = agent.cur["terminal"]
            BY <1>1, <1>4, CurrentSet
          <5> HIDE DEF cur
          <5>4. /\ r \in AgentRecord /\ r.shell = agent.shell /\ r.link = agent.link
                /\ r.cur = cur
            BY <5>2, <5>3, Agent_cur, Zenon
          <5> HIDE DEF r
          <5>5. /\ s \in AgentRecord /\ s.shell = agent.shell /\ s.link = agent.link
                /\ s.cur["terminal"] = agent.cur["terminal"]
            <6>1. r.shell \in [Tabs -> Shells] BY <5>4, AgentFields, Zenon
            <6>2. s \in AgentRecord /\ s.shell = r.shell /\ s.link = r.link /\ s.cur = r.cur
              BY <5>4, <6>1, Agent_shell, Zenon
            <6> QED BY <5>3, <5>4, <6>2
          <5> HIDE DEF s
          <5> QED BY <5>1, <5>2, <5>5, ShellsFine DEF OneShell
        <4> QED BY <2>3, <4>1, <4>2
      <3> QED BY <2>1, <3>1, <3>2
    <2>5. /\ (seen \in SeenRecord)' /\ OutputStaysInSession' /\ (budget \in Budget)'
          /\ (toServer \in [Links -> Seq(Report)])'
      BY <2>1, KeptAside, Zenon
    <2> QED BY <2>1, <2>2, <2>4, <2>5, AgentMoves, Zenon
  <1>10. ASSUME NEW b \in Tabs, AgentOutput(b) PROVE HubInv'
    <2>1. /\ agent.link # None /\ budget.output > 0 /\ Reply("output", b)
          /\ budget' = [budget EXCEPT !.output = @ - 1]
          /\ UNCHANGED <<registry, link, tab>> /\ toAgent' = toAgent /\ agent' = agent
          /\ seen' = seen
      BY <1>10 DEF AgentOutput
    <2>2. (toServer \in [Links -> Seq(Report)])' BY <1>2, <2>1, Replies, Zenon
    <2>3. (budget \in Budget)' BY <2>1, HubParts, Spent, Zenon
    <2>4. /\ (seen \in SeenRecord)' /\ OutputStaysInSession' /\ (agent \in AgentRecord)'
          /\ OneShell' /\ (toAgent \in [Links -> Seq(GoodFrame)])'
      BY <2>1, KeptAside, Zenon
    <2> QED BY <2>1, <2>2, <2>3, <2>4, AgentMoves, Zenon
  <1>11. ASSUME NEW b \in Tabs, ShellExits(b) PROVE HubInv'
    <2> DEFINE shell == [agent.shell EXCEPT ![b] = "ended"]
               r     == [agent EXCEPT !.shell = shell]
    <2>1. /\ agent' = r /\ UNCHANGED <<registry, link, tab>>
          /\ toAgent' = toAgent /\ toServer' = toServer /\ seen' = seen /\ budget' = budget
      BY <1>11, Zenon DEF ShellExits
    <2>2. "ended" \in Shells /\ "ended" # "running" BY DEF Shells
    <2>3. /\ shell \in [Tabs -> Shells]
          /\ \A c \in Tabs : shell[c] = "running" =>
               agent.link # None /\ agent.cur["terminal"] = c
      BY <2>2, ShellSet, Zenon
    <2> HIDE DEF shell
    <2>4. r \in AgentRecord /\ r.shell = shell /\ r.link = agent.link /\ r.cur = agent.cur
      BY <2>3, HubParts, Agent_shell, Zenon
    <2> HIDE DEF r
    <2>5. (agent \in AgentRecord)' /\ OneShell' BY <2>1, <2>3, <2>4, Zenon DEF OneShell
    <2>6. /\ (seen \in SeenRecord)' /\ OutputStaysInSession' /\ (budget \in Budget)'
          /\ (toAgent \in [Links -> Seq(GoodFrame)])' /\ (toServer \in [Links -> Seq(Report)])'
      BY <2>1, KeptAside, Zenon
    <2> QED BY <2>1, <2>5, <2>6, AgentMoves, Zenon
  <1>12. ASSUME NEW b \in Tabs, PumpEnds(b) PROVE HubInv'
    <2> DEFINE shell == [agent.shell EXCEPT ![b] = "reported"]
               r     == [agent EXCEPT !.shell = shell]
               x     == IF r.cur["terminal"] = b THEN None ELSE r.cur["terminal"]
               cur   == [r.cur EXCEPT !["terminal"] = x]
               s     == [r EXCEPT !.cur = cur]
    <2>1. /\ agent.link # None /\ Reply("exited", b) /\ agent' = s
          /\ UNCHANGED <<registry, link, tab>> /\ toAgent' = toAgent /\ seen' = seen
          /\ budget' = budget
      BY <1>12, Zenon DEF PumpEnds
    <2>2. "reported" \in Shells /\ "reported" # "running" BY DEF Shells
    <2>3. /\ shell \in [Tabs -> Shells]
          /\ \A c \in Tabs : shell[c] = "running" =>
               agent.link # None /\ agent.cur["terminal"] = c /\ c # b
      BY <2>2, ShellSet, Zenon
    <2> HIDE DEF shell
    <2>4. r \in AgentRecord /\ r.shell = shell /\ r.link = agent.link /\ r.cur = agent.cur
      BY <2>3, HubParts, Agent_shell, Zenon
    <2> HIDE DEF r
    <2>5. x \in TabOrNone
      <3>1. agent.cur["terminal"] \in TabOrNone BY <1>1, HubParts, AgentFields
      <3> QED BY <1>4, <2>4, <3>1
    <2>6. \A c \in Tabs : shell[c] = "running" => x = c BY <2>3, <2>4, Zenon
    <2> HIDE DEF x
    <2>7. cur \in [Kinds -> TabOrNone] /\ cur["terminal"] = x
      <3>1. cur = [agent.cur EXCEPT !["terminal"] = x] BY <2>4, Zenon
      <3> QED BY <1>1, <2>5, <3>1, CurrentSet
    <2> HIDE DEF cur
    <2>8. s \in AgentRecord /\ s.shell = r.shell /\ s.link = r.link /\ s.cur = cur
      BY <2>4, <2>7, Agent_cur, Zenon
    <2> HIDE DEF s
    <2>9. (agent \in AgentRecord)' /\ OneShell'
      BY <2>1, <2>3, <2>4, <2>6, <2>7, <2>8, ShellsFine
    <2>10. (toServer \in [Links -> Seq(Report)])' BY <1>2, <2>1, Replies, Zenon
    <2>11. /\ (seen \in SeenRecord)' /\ OutputStaysInSession' /\ (budget \in Budget)'
           /\ (toAgent \in [Links -> Seq(GoodFrame)])'
      BY <2>1, KeptAside, Zenon
    <2> QED BY <2>1, <2>9, <2>10, <2>11, AgentMoves, Zenon
  <1> QED BY <1>5, <1>6, <1>7, <1>8, <1>9, <1>10, <1>11, <1>12 DEF AgentStep
-----------------------------------------------------------------------------
(* The specification *)

\* The initial state satisfies the invariant.
LEMMA HubStarts == Init => HubInv
  <1> SUFFICES ASSUME Init PROVE HubInv OBVIOUS
  <1>1. /\ "receive" \in Places /\ "unused" \in Conns /\ "output" \in Types
        /\ "none" \in Shells /\ "terminal" \in Kinds /\ None \in TabOrNone
    BY DEF Places, Conns, Types, Shells, Kinds, TabOrNone
  <1>2. registry = None /\ \A l \in Links : link[l].conn = "unused" /\ link[l].at = "receive"
    BY DEF Init
  <1>3. link \in [Links -> GoodLink] BY <1>1, SMT DEF Init, GoodLink
  <1>4. LinksFine
    BY <1>2, <1>3, HubAssumption DEF LinksFine, Unopened, Paired, NewestLinkRegistered
  <1>5. tab \in [Tabs -> TabRecord] BY DEF Init, TabRecord, TabOrNone
  <1>6. toAgent \in [Links -> Seq(GoodFrame)] /\ toServer \in [Links -> Seq(Report)]
    BY DEF Init
  <1>7. agent \in AgentRecord BY <1>1, SMT DEF Init, AgentRecord
  <1>8. OneShell BY DEF Init, OneShell
  <1>9. seen \in SeenRecord /\ OutputStaysInSession
    BY DEF Init, SeenRecord, OutputStaysInSession
  <1>10. budget \in Budget BY HubAssumption DEF Init, Budget
  <1> QED BY <1>4, <1>5, <1>6, <1>7, <1>8, <1>9, <1>10, HubParts

\* Every step keeps the invariant.
LEMMA HubStep == HubInv /\ [Next]_vars => HubInv'
  <1> SUFFICES ASSUME HubInv, [Next]_vars PROVE HubInv' OBVIOUS
  <1>1. CASE UNCHANGED vars
    <2>1. /\ tab' = tab /\ UNCHANGED <<registry, link>>
          /\ UNCHANGED <<toAgent, toServer, agent, seen, budget>>
      BY <1>1 DEF vars
    <2>2. tab' \in [Tabs -> TabRecord] BY <2>1, HubParts, Zenon
    <2> QED BY <2>1, <2>2, Untouched, TabsAndLinks
  <1>2. ASSUME NEW b \in Tabs, TabStep(b) PROVE HubInv' BY <1>2, TabSteps
  <1>3. ASSUME NEW l \in Links, LinkStep(l) PROVE HubInv'
    BY <1>3, SendSteps, HandlerSteps, Connects, Disconnects, Zenon DEF LinkStep
  <1> QED BY <1>1, <1>2, <1>3, AgentSteps DEF Next

\* The invariant holds in every state.
LEMMA HubSafe == Spec => []HubInv
  BY HubStarts, HubStep, PTL DEF Spec

\* TypeOK: the queues, slots, registry and handlers keep their shape.
THEOREM HubTypesHold == Spec => []TypeOK
  <1>1. HubInv => TypeOK
    <2> SUFFICES ASSUME HubInv PROVE TypeOK OBVIOUS
    <2>1. GoodFrame \subseteq Frame BY DEF GoodFrame
    <2>2. Seq(GoodFrame) \subseteq Seq(Frame) BY <2>1
    <2>3. GoodLink \subseteq LinkRecord
      BY <2>2, SMT DEF GoodLink, LinkRecord, Conns, Places, Types
    <2>4. [Links -> GoodLink] \subseteq [Links -> LinkRecord] BY <2>3
    <2>5. [Links -> Seq(GoodFrame)] \subseteq [Links -> Seq(Frame)] BY <2>2
    <2>6. HubTypes BY Zenon DEF HubInv
    <2>7. /\ registry \in Links \union {None} /\ link \in [Links -> LinkRecord]
          /\ tab \in [Tabs -> TabRecord]
          /\ toAgent \in [Links -> Seq(Frame)] /\ toServer \in [Links -> Seq(Report)]
      BY <2>4, <2>5, <2>6, Zenon DEF HubTypes
    <2>8. agent \in AgentRecord /\ seen \in SeenRecord /\ budget \in Budget
      BY <2>6, Zenon DEF HubTypes
    <2> QED BY <2>7, <2>8, Zenon DEF TypeOK, AgentRecord, SeenRecord, Budget, Shells
  <1> QED BY <1>1, HubSafe, PTL

\* OutputStaysInSession: whatever is started, stopped, preempted and dropped
\* meanwhile, a tab is only sent frames of its own session.
THEOREM OutputStays == Spec => []OutputStaysInSession
  <1>1. HubInv => OutputStaysInSession BY Zenon DEF HubInv
  <1> QED BY <1>1, HubSafe, PTL

\* OneShell: the agent runs at most one shell, that of its current session, and
\* none without a control channel.
THEOREM ShellIsOne == Spec => []OneShell
  <1>1. HubInv => OneShell BY Zenon DEF HubInv
  <1> QED BY <1>1, HubSafe, PTL

\* NewestLinkRegistered: the late cleanup of an old control channel never
\* removes its successor from the registry.
THEOREM NewestStaysRegistered == Spec => []NewestLinkRegistered
  <1>1. HubInv => NewestLinkRegistered BY Zenon DEF HubInv
  <1> QED BY <1>1, HubSafe, PTL
-----------------------------------------------------------------------------
(* One shell per session.  A coroutine waits for one send at a time (Sends),  *)
(* so the start of a session is in one queue, then on one channel, and while   *)
(* it is on its way the session has no shell yet (Fresh).                      *)

\* A tab's places before its start is out, and those where it waits for a send.
Unsent  == {"idle", "tell", "close", "stopOld", "start"}
Sending == {"stopOld", "start", "relay", "stopping"}

\* A frame in the queue of link l is the send its tab's handler waits for.
Fits(t, l, f) ==
  /\ f.by \in Tabs /\ t[f.by].on = l /\ t[f.by].at \in Sending
  /\ f.type = "start" <=> t[f.by].at = "start"
  /\ f.type = "start" => f.session = f.by

Queued(t, l, q) == \A i \in DOMAIN q : Fits(t, l, q[i])
Apart(q) == \A i, j \in DOMAIN q : q[i].by = q[j].by => i = j
NoneBy(q, b) == \A i \in DOMAIN q : q[i].by # b
Sends(t, k) == \A l \in Links : Queued(t, l, k[l].queue) /\ Apart(k[l].queue)

\* A handler past its opening has a link.
Placed(t) == \A b \in Tabs : t[b].at \notin {"idle", "done"} => t[b].on \in Links

\* Starts among the frames on a channel.
StartAt(s, i, b) == s[i].type = "start" /\ s[i].by = b
HasStart(s, b)   == \E i \in DOMAIN s : StartAt(s, i, b)
OneStart(s, b)   == \A i, j \in DOMAIN s : StartAt(s, i, b) /\ StartAt(s, j, b) => i = j
Own(s) == \A i \in DOMAIN s : s[i].type = "start" => s[i].session = s[i].by

\* A session has no shell before its start has arrived, and starts once.
NoShellYet(t, h)  == \A b \in Tabs : t[b].at \in Unsent => h[b] = "none"
OwnStarts(w)      == \A l \in Links : Own(w[l]) /\ \A b \in Tabs : OneStart(w[l], b)
OneChannel(w)     == \A l, m \in Links, b \in Tabs :
                       HasStart(w[l], b) /\ HasStart(w[m], b) => l = m
OnItsWay(t, h, w) == \A l \in Links, b \in Tabs :
                       HasStart(w[l], b) => t[b].at \notin Unsent /\ h[b] = "none"
Fresh(t, h, w) == NoShellYet(t, h) /\ OwnStarts(w) /\ OneChannel(w) /\ OnItsWay(t, h, w)

SessionsInv ==
  HubInv /\ Placed(tab) /\ Sends(tab, link) /\ Fresh(tab, agent.shell, toAgent)

\* Only tab b changes its place or its link.
Only(t, u, b) == \A c \in Tabs : c # b => u[c].at = t[c].at /\ u[c].on = t[c].on

\* Tab b waits for no send on another link than l, nor in q.
Clean(t, k, b, l, q) ==
  /\ q \in Seq(GoodFrame) /\ Queued(t, l, q) /\ Apart(q) /\ NoneBy(q, b)
  /\ \A m \in Links : m # l => NoneBy(k[m].queue, b)

\* No queue but link l's changes.
Others(l) == \A m \in Links : m # l => link'[m].queue = link[m].queue

-----------------------------------------------------------------------------
(* The queues of the sends *)

\* A handler that waits for no send has none in any queue.
LEMMA IdleClean ==
  ASSUME NEW t, NEW k \in [Links -> GoodLink], Sends(t, k), NEW b,
         t[b].at \notin Sending, NEW l \in Links
  PROVE  Clean(t, k, b, l, k[l].queue)
  <1>1. \A m \in Links : NoneBy(k[m].queue, b) BY DEF Sends, Queued, Fits, NoneBy
  <1>2. k[l].queue \in Seq(GoodFrame) BY LinkFields
  <1> QED BY <1>1, <1>2 DEF Sends, Clean

\* When the first send of a queue is over, its tab waits for none.
LEMMA FirstClean ==
  ASSUME NEW t, NEW k \in [Links -> GoodLink], Sends(t, k), NEW l \in Links,
         k[l].queue # <<>>
  PROVE  /\ Fits(t, l, k[l].queue[1])
         /\ Clean(t, k, k[l].queue[1].by, l, Tail(k[l].queue))
  <1> DEFINE q == k[l].queue
             b == q[1].by
  <1>1. q \in Seq(GoodFrame) BY LinkFields
  <1>2. Queued(t, l, q) /\ Apart(q) BY DEF Sends
  <1>3. /\ Tail(q) \in Seq(GoodFrame) /\ 1 \in DOMAIN q
        /\ \A i \in DOMAIN Tail(q) : i + 1 \in DOMAIN q /\ Tail(q)[i] = q[i + 1] /\ i + 1 # 1
             /\ i \in Nat
    BY <1>1
  <1>4. Fits(t, l, q[1]) BY <1>2, <1>3 DEF Queued
  <1>5. \A m \in Links : m # l => NoneBy(k[m].queue, b)
    BY <1>4 DEF Sends, Queued, Fits, NoneBy
  <1>6. Queued(t, l, Tail(q)) BY <1>2, <1>3 DEF Queued
  <1>7. NoneBy(Tail(q), b) BY <1>2, <1>3 DEF Apart, NoneBy
  <1>8. Apart(Tail(q))
    <2> SUFFICES ASSUME NEW i \in DOMAIN Tail(q), NEW j \in DOMAIN Tail(q),
                        Tail(q)[i].by = Tail(q)[j].by
                 PROVE  i = j
      BY DEF Apart
    <2>1. i + 1 = j + 1 BY <1>2, <1>3 DEF Apart
    <2> QED BY <1>3, <2>1
  <1> QED BY <1>3, <1>4, <1>5, <1>6, <1>7, <1>8 DEF Clean

\* The queues after a step that took q to be link l's, without a new send.
LEMMA SendsDrop ==
  ASSUME NEW b \in Tabs, NEW l \in Links, NEW q,
         Sends(tab, link), Clean(tab, link, b, l, q), Only(tab, tab', b), link'[l].queue = q,
         Others(l)
  PROVE  Sends(tab', link')
  <1>1. ASSUME NEW m \in Links, NEW p, Queued(tab, m, p), NoneBy(p, b) PROVE Queued(tab', m, p)
    BY <1>1 DEF Queued, NoneBy, Fits, Only
  <1>2. Queued(tab', l, q) /\ Apart(q) BY <1>1 DEF Clean
  <1>3. \A m \in Links : m # l => Queued(tab', m, link'[m].queue) /\ Apart(link'[m].queue)
    BY <1>1 DEF Clean, Sends, Others
  <1> QED BY <1>2, <1>3 DEF Sends

\* The queues after a step that queued the send tab b's handler waits for.
LEMMA SendsAdd ==
  ASSUME NEW b \in Tabs, NEW l \in Links, NEW q, NEW f,
         Sends(tab, link), Clean(tab, link, b, l, q), Only(tab, tab', b), link'[l].queue = Append(q, f),
         Others(l), f.by = b, Fits(tab', l, f)
  PROVE  Sends(tab', link')
  <1>1. ASSUME NEW m \in Links, NEW p, Queued(tab, m, p), NoneBy(p, b) PROVE Queued(tab', m, p)
    BY <1>1 DEF Queued, NoneBy, Fits, Only
  <1>2. Queued(tab', l, q) /\ Apart(q) /\ NoneBy(q, b) /\ q \in Seq(GoodFrame)
    BY <1>1 DEF Clean
  <1>3. \A i \in DOMAIN Append(q, f) :
           \/ i \in DOMAIN q /\ Append(q, f)[i] = q[i]
           \/ i = Len(q) + 1 /\ Append(q, f)[i] = f
    BY <1>2
  <1>4. Queued(tab', l, Append(q, f)) BY <1>2, <1>3 DEF Queued
  <1>5. Apart(Append(q, f)) BY <1>2, <1>3 DEF Apart, NoneBy
  <1>6. \A m \in Links : m # l => Queued(tab', m, link'[m].queue) /\ Apart(link'[m].queue)
    BY <1>1 DEF Clean, Sends, Others
  <1> QED BY <1>4, <1>5, <1>6 DEF Sends

-----------------------------------------------------------------------------
(* The starts on the channels *)

\* Fewer starts, and no session gets a shell unless none of its starts is left.
LEMMA FewerStarts ==
  ASSUME NEW t, NEW h, NEW w, NEW u, NEW g, NEW x, Fresh(t, h, w),
         \A b \in Tabs : u[b].at \in Unsent => t[b].at \in Unsent,
         \A l \in Links : Own(x[l]),
         \A l \in Links, b \in Tabs : /\ HasStart(x[l], b) => HasStart(w[l], b)
                                     /\ OneStart(x[l], b),
         \A b \in Tabs : \/ h[b] = "none" => g[b] = "none"
                         \/ /\ u[b].at \notin Unsent
                            /\ \A l \in Links : ~HasStart(x[l], b)
  PROVE  Fresh(u, g, x)
  <1>1. NoShellYet(u, g) BY DEF Fresh, NoShellYet
  <1>2. OwnStarts(x) BY DEF OwnStarts
  <1>3. OneChannel(x) BY DEF Fresh, OneChannel
  <1>4. OnItsWay(u, g, x) BY DEF Fresh, OnItsWay
  <1> QED BY <1>1, <1>2, <1>3, <1>4 DEF Fresh

\* The same starts.
LEMMA SameStarts ==
  ASSUME NEW t, NEW h, NEW w, NEW u, NEW g, Fresh(t, h, w),
         \A b \in Tabs : u[b].at \in Unsent => t[b].at \in Unsent,
         \A b \in Tabs : h[b] = "none" => g[b] = "none"
  PROVE  Fresh(u, g, w)
  <1>1. \A l \in Links : Own(w[l]) /\ \A b \in Tabs : OneStart(w[l], b)
    BY DEF Fresh, OwnStarts
  <1> QED BY <1>1, FewerStarts

\* Another frame at the end of a channel.
LEMMA Appended ==
  ASSUME NEW s \in Seq(GoodFrame), NEW f, NEW b
  PROVE  /\ f.type # "start" \/ f.by # b =>
              /\ HasStart(Append(s, f), b) => HasStart(s, b)
              /\ OneStart(s, b) => OneStart(Append(s, f), b)
         /\ ~HasStart(s, b) => OneStart(Append(s, f), b)
         /\ Own(s) /\ (f.type = "start" => f.session = f.by) => Own(Append(s, f))
  <1>1. \A i \in DOMAIN Append(s, f) :
           \/ i \in DOMAIN s /\ Append(s, f)[i] = s[i]
           \/ i = Len(s) + 1 /\ Append(s, f)[i] = f
    OBVIOUS
  <1>2. ASSUME f.type # "start" \/ f.by # b
        PROVE  /\ HasStart(Append(s, f), b) => HasStart(s, b)
               /\ OneStart(s, b) => OneStart(Append(s, f), b)
    BY <1>1, <1>2 DEF HasStart, OneStart, StartAt
  <1>3. ~HasStart(s, b) => OneStart(Append(s, f), b)
    BY <1>1 DEF HasStart, OneStart, StartAt
  <1>4. Own(s) /\ (f.type = "start" => f.session = f.by) => Own(Append(s, f))
    BY <1>1 DEF Own
  <1> QED BY <1>2, <1>3, <1>4

\* The first frame of a channel is taken.
LEMMA TakenFirst ==
  ASSUME NEW s \in Seq(GoodFrame), s # <<>>, NEW b
  PROVE  /\ HasStart(Tail(s), b) => HasStart(s, b)
         /\ OneStart(s, b) => OneStart(Tail(s), b)
         /\ Own(s) => Own(Tail(s))
         /\ OneStart(s, b) /\ StartAt(s, 1, b) => HasStart(s, b) /\ ~HasStart(Tail(s), b)
  <1>1. /\ 1 \in DOMAIN s
        /\ \A i \in DOMAIN Tail(s) :
             i + 1 \in DOMAIN s /\ Tail(s)[i] = s[i + 1] /\ i + 1 # 1 /\ i \in Nat
    OBVIOUS
  <1>2. HasStart(Tail(s), b) => HasStart(s, b) BY <1>1 DEF HasStart, StartAt
  <1>3. ASSUME OneStart(s, b) PROVE OneStart(Tail(s), b)
    <2> SUFFICES ASSUME NEW i \in DOMAIN Tail(s), NEW j \in DOMAIN Tail(s),
                        StartAt(Tail(s), i, b), StartAt(Tail(s), j, b)
                 PROVE  i = j
      BY DEF OneStart
    <2>1. i + 1 = j + 1 BY <1>1, <1>3 DEF OneStart, StartAt
    <2> QED BY <1>1, <2>1
  <1>4. Own(s) => Own(Tail(s)) BY <1>1 DEF Own
  <1>5. OneStart(s, b) /\ StartAt(s, 1, b) => HasStart(s, b) /\ ~HasStart(Tail(s), b)
    BY <1>1 DEF OneStart, HasStart, StartAt
  <1> QED BY <1>2, <1>3, <1>4, <1>5

\* An empty channel.
LEMMA NoStarts ==
  ASSUME NEW b
  PROVE  Own(<<>>) /\ OneStart(<<>>, b) /\ ~HasStart(<<>>, b)
  BY DEF Own, OneStart, HasStart

-----------------------------------------------------------------------------
(* What the handlers' steps have in common *)

\* What the steps below are proved to keep.
Extra == Placed(tab) /\ Sends(tab, link) /\ Fresh(tab, agent.shell, toAgent)

SameQueues == \A l \in Links : link'[l].queue = link[l].queue

\* The records the steps change.
LEMMA Records ==
  ASSUME SessionsInv
  PROVE  /\ tab \in [Tabs -> TabRecord] /\ link \in [Links -> GoodLink]
         /\ toAgent \in [Links -> Seq(GoodFrame)] /\ registry \in Links \union {None}
         /\ Placed(tab) /\ Sends(tab, link) /\ Fresh(tab, agent.shell, toAgent)
  BY HubParts, Zenon DEF SessionsInv, LinksFine

\* Nobody changes place, no queue changes.
LEMMA SendsCalm ==
  ASSUME NEW t, NEW k, NEW u, NEW j, Sends(t, k),
         \A c \in Tabs : u[c].at = t[c].at /\ u[c].on = t[c].on,
         \A l \in Links : j[l].queue = k[l].queue
  PROVE  Sends(u, j)
  <1>1. ASSUME NEW l \in Links, NEW q, Queued(t, l, q) PROVE Queued(u, l, q)
    BY <1>1 DEF Queued, Fits
  <1> QED BY <1>1 DEF Sends

\* A step of the channels' handlers.
LEMMA NobodyMoves ==
  ASSUME SessionsInv, SameQueues, UNCHANGED <<toAgent, agent>>,
         \A c \in Tabs : tab'[c].at = tab[c].at /\ tab'[c].on = tab[c].on
  PROVE  Extra'
  <1>1. Sends(tab', link') BY Records, SendsCalm DEF SameQueues
  <1>2. Placed(tab') BY Records DEF Placed
  <1>3. Fresh(tab', agent.shell, toAgent) BY Records, SameStarts
  <1> QED BY <1>1, <1>2, <1>3 DEF Extra

\* A handler gets to another place, with a link, and a start is no longer unsent
\* once it was sent.
GoesOn(b) ==
  /\ Only(tab, tab', b)
  /\ tab'[b].at \notin {"idle", "done"} => tab'[b].on \in Links
  /\ tab'[b].at \in Unsent => tab[b].at \in Unsent

\* What such a step keeps of the handlers' places and of the starts.
LEMMA GoesOnPlaced ==
  ASSUME SessionsInv, NEW b \in Tabs, GoesOn(b)
  PROVE  /\ Placed(tab') /\ \A c \in Tabs : tab'[c].at \in Unsent => tab[c].at \in Unsent
         /\ UNCHANGED <<toAgent, agent>> => Fresh(tab', agent'.shell, toAgent')
  <1>1. \A c \in Tabs : tab'[c].at \in Unsent => tab[c].at \in Unsent
    BY DEF GoesOn, Only
  <1>2. Placed(tab') BY Records DEF Placed, GoesOn, Only
  <1>3. Fresh(tab', agent.shell, toAgent) BY <1>1, Records, SameStarts
  <1> QED BY <1>1, <1>2, <1>3

\* A handler that waits for no send goes to a place where it waits for none.
LEMMA MovesAside ==
  ASSUME SessionsInv, NEW b \in Tabs, GoesOn(b), tab[b].at \notin Sending, SameQueues,
         UNCHANGED <<toAgent, agent>>
  PROVE  Extra'
  <1>1. ASSUME NEW l \in Links PROVE Sends(tab', link')
    <2>1. Clean(tab, link, b, l, link[l].queue) BY Records, IdleClean
    <2>2. Sends(tab, link) BY Records
    <2>3. Only(tab, tab', b) BY DEF GoesOn
    <2>4. link'[l].queue = link[l].queue /\ Others(l) BY DEF SameQueues, Others
    <2> QED BY <2>1, <2>2, <2>3, <2>4, SendsDrop
  <1>2. Sends(tab', link') BY <1>1 DEF Sends
  <1> QED BY <1>2, GoesOnPlaced DEF Extra

\* A handler takes the slot and waits for the send of its start.
LEMMA TakeSlotSends ==
  ASSUME SessionsInv, NEW b \in Tabs, NEW l \in Links, NEW q, Clean(tab, link, b, l, q),
         TakeSlot(b, l, q), tab[b].at \in Unsent
  PROVE  Sends(tab', link') /\ GoesOn(b)
  <1> DEFINE f == [type |-> "start", session |-> b, by |-> b]
  <1>1. /\ tab'[b].at = "start" /\ tab'[b].on = l /\ Only(tab, tab', b)
    <2>1. tab \in [Tabs -> TabRecord] BY Records
    <2> QED BY <2>1, SMT DEF TakeSlot, TabRecord, Only
  <1>2. link'[l].queue = Append(q, f) /\ Others(l)
    <2>1. link \in [Links -> GoodLink] BY Records
    <2> QED BY <2>1, SMT DEF TakeSlot, GoodLink, Others
  <1>3. Fits(tab', l, f) /\ f.by = b BY <1>1 DEF Fits, Sending
  <1> HIDE DEF f
  <1>4. Sends(tab', link') BY <1>1, <1>2, <1>3, Records, SendsAdd
  <1> QED BY <1>1, <1>4 DEF GoesOn

\* A handler leaves its receive loop, and waits for the send of a stop or is done.
LEMMA LeaveSends ==
  ASSUME SessionsInv, NEW b \in Tabs, NEW l \in Links, NEW q, NEW c,
         Clean(tab, link, b, l, q), tab[b].on = l, LeaveHandler(b, l, q, c)
  PROVE  Sends(tab', link') /\ GoesOn(b)
  <1>1. tab \in [Tabs -> TabRecord] /\ link \in [Links -> GoodLink] BY Records
  <1>2. CASE link[l].slot[Kind(b)] = None
    <2>1. tab'[b].at = "done" /\ Only(tab, tab', b)
      <3>1. tab' = [tab EXCEPT ![b].at = "done", ![b].peer = "gone", ![b].client = c]
        BY <1>2, Zenon DEF LeaveHandler
      <3> QED BY <1>1, <3>1, SMT DEF TabRecord, Only
    <2>2. link'[l].queue = q /\ Others(l)
      <3>1. link' = [link EXCEPT ![l].queue = q] BY <1>2, Zenon DEF LeaveHandler
      <3> QED BY <1>1, <3>1, SMT DEF GoodLink, Others
    <2>3. Sends(tab', link') BY <2>1, <2>2, Records, SendsDrop
    <2> QED BY <2>1, <2>3 DEF GoesOn, Unsent
  <1>3. CASE link[l].slot[Kind(b)] # None
    <2> DEFINE f == [type |-> "stop", session |-> link[l].slot[Kind(b)], by |-> b]
    <2>1. tab'[b].at = "stopping" /\ tab'[b].on = l /\ Only(tab, tab', b)
      <3>1. tab' = [tab EXCEPT ![b].at = "stopping", ![b].client = c]
        BY <1>3, Zenon DEF LeaveHandler
      <3> QED BY <1>1, <3>1, SMT DEF TabRecord, Only
    <2>2. f.by = b /\ f.type = "stop" OBVIOUS
    <2>3. link' = [link EXCEPT ![l].queue = Append(q, f)] BY <1>3, Zenon DEF LeaveHandler
    <2> HIDE DEF f
    <2>4. /\ link'[l].queue = Append(q, f)
          /\ Others(l)
      BY <1>1, <2>3, SMT DEF GoodLink, Others
    <2>5. Fits(tab', l, f) BY <2>1, <2>2 DEF Fits, Sending
    <2>6. Sends(tab', link') BY <2>1, <2>2, <2>4, <2>5, Records, SendsAdd
    <2> QED BY <2>1, <2>6 DEF GoesOn, Unsent
  <1> QED BY <1>2, <1>3

\* A handler that waits for no send queues one that is not a start.
LEMMA QueuesSend ==
  ASSUME SessionsInv, NEW b \in Tabs, tab[b].at \notin Sending, tab[b].on \in Links,
         NEW at \in {"stopOld", "relay"}, NEW f, f.by = b, f.type # "start",
         tab'[b].at = at, tab'[b].on = tab[b].on, Only(tab, tab', b),
         at = "stopOld" => tab[b].at \in Unsent,
         link' = [link EXCEPT ![tab[b].on].queue = Append(link[tab[b].on].queue, f)],
         UNCHANGED <<toAgent, agent>>
  PROVE  Extra'
  <1> DEFINE l == tab[b].on
  <1>1. link \in [Links -> GoodLink] BY Records
  <1>2. l \in Links OBVIOUS
  <1>3. /\ link'[l].queue = Append(link[l].queue, f)
        /\ Others(l)
    BY <1>1, SMT DEF GoodLink, Others
  <1>4. Fits(tab', l, f) BY DEF Fits, Sending
  <1>5. Only(tab, tab', b) OBVIOUS
  <1> HIDE DEF l
  <1>6. Clean(tab, link, b, l, link[l].queue) BY <1>2, Records, IdleClean
  <1>7. Sends(tab', link') BY <1>2, <1>3, <1>4, <1>5, <1>6, Records, SendsAdd
  <1>8. GoesOn(b) BY DEF GoesOn, Unsent
  <1> QED BY <1>7, <1>8, GoesOnPlaced DEF Extra

\* An opener queues the stop of the session it replaces.
LEMMA StopOldQueued ==
  ASSUME SessionsInv, NEW b \in Tabs, tab[b].at \in {"tell", "close"}, QueueStopOld(b)
  PROVE  Extra'
  <1>1. tab \in [Tabs -> TabRecord] /\ tab[b].on \in Links /\ tab[b].at \notin Sending
        /\ tab[b].at \in Unsent
    BY Records DEF Placed, Sending, Unsent
  <1> DEFINE f == [type |-> "stop", session |-> Slot(b), by |-> b]
  <1>2. tab' = [tab EXCEPT ![b].at = "stopOld", ![b].target = None]
    BY Zenon DEF QueueStopOld
  <1>3. tab'[b].at = "stopOld" /\ tab'[b].on = tab[b].on /\ Only(tab, tab', b)
    BY <1>1, <1>2, SMT DEF TabRecord, Only
  <1>4. link' = [link EXCEPT ![tab[b].on].queue = Append(link[tab[b].on].queue, f)]
    BY Zenon DEF QueueStopOld, Enqueue
  <1>5. f.by = b /\ f.type # "start" OBVIOUS
  <1>6. UNCHANGED <<toAgent, agent>> BY DEF QueueStopOld
  <1> HIDE DEF f
  <1> QED BY <1>1, <1>3, <1>4, <1>5, <1>6, QueuesSend

\* Each step of a tab's handler keeps the invariant.
LEMMA TabStepsExtra ==
  ASSUME SessionsInv, NEW b \in Tabs, TabStep(b)
  PROVE  Extra'
  <1>1. tab \in [Tabs -> TabRecord] /\ link \in [Links -> GoodLink]
        /\ registry \in Links \union {None} /\ Placed(tab)
    BY Records
  <1>2. CASE OpenRefused(b)
    <2>1. Only(tab, tab', b) /\ tab'[b].at = "done"
      BY <1>1, <1>2, SMT DEF OpenRefused, TabRecord, Only
    <2> QED BY <1>2, <2>1, MovesAside DEF OpenRefused, GoesOn, Unsent, Sending, SameQueues
  <1>3. CASE OpenFree(b)
    <2>1. /\ registry \in Links /\ tab[b].at \notin Sending /\ tab[b].at \in Unsent
          /\ TakeSlot(b, registry, link[registry].queue) /\ UNCHANGED <<toAgent, agent>>
      BY <1>1, <1>3 DEF OpenFree, Sending, Unsent
    <2>2. Clean(tab, link, b, registry, link[registry].queue) BY <2>1, Records, IdleClean
    <2>3. Sends(tab', link') /\ GoesOn(b) BY <2>1, <2>2, TakeSlotSends
    <2> QED BY <2>1, <2>3, GoesOnPlaced DEF Extra
  <1>4. CASE OpenPreempting(b)
    <2>1. registry \in Links /\ Only(tab, tab', b) /\ tab'[b].at = "tell" /\ tab'[b].on = registry
      BY <1>1, <1>4, SMT DEF OpenPreempting, TabRecord, Only
    <2> QED BY <1>4, <2>1, MovesAside
          DEF OpenPreempting, GoesOn, Unsent, Sending, SameQueues
  <1>5. CASE TellRaised(b)
    <2>1. Only(tab, tab', b) /\ tab'[b].at = "done"
      BY <1>1, <1>5, SMT DEF TellRaised, TabRecord, Only
    <2> QED BY <1>5, <2>1, MovesAside DEF TellRaised, GoesOn, Unsent, Sending, SameQueues
  <1>6. CASE Told(b)
    <2>1. Slot(b) \in Tabs BY <1>6 DEF Told, Closable
    <2>2. tab' = [tab EXCEPT ![b].at = "close", ![b].target = Slot(b), ![Slot(b)].app = "closed"]
      BY <1>6, Zenon DEF Told
    <2>3. Only(tab, tab', b) /\ tab'[b].at = "close" /\ tab'[b].on = tab[b].on
      BY <1>1, <2>1, <2>2, SMT DEF TabRecord, Only
    <2>4. tab[b].on \in Links BY <1>1, <1>6 DEF Told, Placed
    <2> QED BY <1>6, <2>3, <2>4, MovesAside DEF Told, GoesOn, Unsent, Sending, SameQueues
  <1>7. CASE ToldNothingToClose(b) \/ VictimClosed(b)
    BY <1>7, StopOldQueued DEF ToldNothingToClose, VictimClosed
  <1>8. CASE Greet(b)
    <2>1. Only(tab, tab', b) /\ tab'[b].at = "receive" /\ tab'[b].on = tab[b].on
      BY <1>1, <1>8, SMT DEF Greet, TabRecord, Only
    <2>2. tab[b].on \in Links BY <1>1, <1>8 DEF Greet, Placed
    <2> QED BY <1>8, <2>1, <2>2, MovesAside DEF Greet, GoesOn, Unsent, Sending, SameQueues
  <1>9. CASE GreetRaised(b)
    <2>1. Only(tab, tab', b) /\ tab'[b].at = "done"
      BY <1>1, <1>9, SMT DEF GreetRaised, TabRecord, Only
    <2> QED BY <1>9, <2>1, MovesAside DEF GreetRaised, GoesOn, Unsent, Sending, SameQueues
  <1>10. CASE TabGone(b)
    <2>1. \A c \in Tabs : tab'[c].at = tab[c].at /\ tab'[c].on = tab[c].on
      BY <1>1, <1>10, SMT DEF TabGone, TabRecord
    <2> QED BY <1>10, <2>1, NobodyMoves DEF TabGone, SameQueues
  <1>11. CASE ReceiveDisconnect(b)
    <2> DEFINE l == tab[b].on
    <2>1. l \in Links /\ tab[b].on = l /\ tab[b].at \notin Sending
      BY <1>1, <1>11 DEF ReceiveDisconnect, Placed, Sending
    <2>2. LeaveHandler(b, l, link[l].queue, "gone") /\ UNCHANGED <<toAgent, agent>>
      BY <1>11 DEF ReceiveDisconnect
    <2> HIDE DEF l
    <2>3. Clean(tab, link, b, l, link[l].queue) BY <2>1, Records, IdleClean
    <2>4. Sends(tab', link') /\ GoesOn(b) BY <2>1, <2>2, <2>3, LeaveSends
    <2> QED BY <2>2, <2>4, GoesOnPlaced DEF Extra
  <1>12. CASE BrowserInput(b)
    <2> DEFINE f == [type |-> "input", session |-> InputSession(b), by |-> b]
    <2>1. tab[b].on \in Links /\ tab[b].at \notin Sending
      BY <1>1, <1>12 DEF BrowserInput, Placed, Sending
    <2>2. Only(tab, tab', b) /\ tab'[b].at = "relay" /\ tab'[b].on = tab[b].on
      BY <1>1, <1>12, SMT DEF BrowserInput, TabRecord, Only
    <2>3. link' = [link EXCEPT ![tab[b].on].queue = Append(link[tab[b].on].queue, f)]
      BY <1>12, Zenon DEF BrowserInput, Enqueue
    <2>4. f.by = b /\ f.type # "start" /\ UNCHANGED <<toAgent, agent>>
      BY <1>12 DEF BrowserInput
    <2> HIDE DEF f
    <2> QED BY <2>1, <2>2, <2>3, <2>4, QueuesSend
  <1> QED
    BY <1>2, <1>3, <1>4, <1>5, <1>6, <1>7, <1>8, <1>9, <1>10, <1>11, <1>12 DEF TabStep

-----------------------------------------------------------------------------
(* The ends of the sends *)

\* The frames on the channels after a send: the one that was sent joins them, or not.
LEMMA WrittenFresh ==
  ASSUME SessionsInv, NEW l \in Links, link[l].queue # <<>>, Written(l),
         GoesOn(First(l).by), UNCHANGED agent,
         tab'[First(l).by].at \in Unsent => First(l).type # "start"
  PROVE  Fresh(tab', agent'.shell, toAgent')
  <1> DEFINE f == First(l)
             b == f.by
             w == toAgent
             h == agent.shell
             s == Append(w[l], f)
  <1>1. /\ \A c \in Tabs : tab'[c].at \in Unsent => tab[c].at \in Unsent
        /\ Fresh(tab', h, w) /\ Fresh(tab, h, w)
    <2>1. \A c \in Tabs : tab'[c].at \in Unsent => tab[c].at \in Unsent
      BY DEF GoesOn, Only
    <2> QED BY <2>1, Records, SameStarts
  <1>2. CASE link[l].conn # "up" BY <1>1, <1>2 DEF Written
  <1>3. CASE link[l].conn = "up"
    <2>1. toAgent' = [toAgent EXCEPT ![l] = s] BY <1>3, Zenon DEF Written
    <2>2. w[l] \in Seq(GoodFrame) BY Records
    <2>3. Fits(tab, l, f)
      <3>1. Fits(tab, l, link[l].queue[1]) BY Records, FirstClean
      <3> QED BY <3>1 DEF First
    <2> HIDE DEF f, s
    <2>4. toAgent'[l] = s /\ \A m \in Links : m # l => toAgent'[m] = w[m]
      <3>1. toAgent \in [Links -> Seq(GoodFrame)] BY Records
      <3> QED BY <2>1, <3>1
    <2>5. \A c \in Tabs : /\ f.type # "start" \/ b # c =>
                               /\ HasStart(s, c) => HasStart(w[l], c)
                               /\ OneStart(w[l], c) => OneStart(s, c)
                          /\ ~HasStart(w[l], c) => OneStart(s, c)
                          /\ Own(w[l]) => Own(s)
      <3>1. f.type = "start" => f.session = f.by BY <2>3 DEF Fits
      <3> QED BY <2>2, <3>1, Appended DEF s
    <2>6. b \in Tabs BY <2>3 DEF Fits
    <2>7. f.type = "start" =>
             tab[b].at \in Unsent /\ tab'[b].at \notin Unsent /\ h[b] = "none"
      BY <1>1, <2>3, <2>6 DEF Fits, Unsent, Fresh, NoShellYet, f
    <2>8. f.type = "start" => \A m \in Links : ~HasStart(w[m], b)
      BY <1>1, <2>6, <2>7 DEF Fresh, OnItsWay
    <2>9. NoShellYet(tab', h) BY <1>1 DEF Fresh
    <2>10. OwnStarts(toAgent')
      BY <1>1, <2>4, <2>5, <2>6, <2>8 DEF Fresh, OwnStarts
    <2>11. OneChannel(toAgent')
      BY <1>1, <2>4, <2>5, <2>6, <2>8 DEF Fresh, OneChannel
    <2>12. OnItsWay(tab', h, toAgent')
      BY <1>1, <2>4, <2>5, <2>6, <2>7 DEF Fresh, OnItsWay
    <2>13. agent'.shell = h OBVIOUS
    <2> HIDE DEF h, w
    <2> QED BY <2>9, <2>10, <2>11, <2>12, <2>13 DEF Fresh
  <1> QED BY <1>2, <1>3

\* Each end of a send keeps the invariant.
LEMMA SendStepsExtra ==
  ASSUME SessionsInv, NEW l \in Links,
         StopOldSent(l) \/ StartSent(l) \/ InputSent(l) \/ StopSent(l) \/ SendRaised(l)
  PROVE  Extra'
  <1> DEFINE b == First(l).by
             q == Rest(l)
  <1>1. link[l].queue # <<>>
    BY Zenon DEF StopOldSent, StartSent, InputSent, StopSent, SendRaised, Sender
  <1>2. /\ tab \in [Tabs -> TabRecord] /\ link \in [Links -> GoodLink]
        /\ Sends(tab, link) /\ Fresh(tab, agent.shell, toAgent)
    BY Records
  <1>3. /\ Fits(tab, l, First(l)) /\ Clean(tab, link, b, l, q)
    BY <1>1, <1>2, FirstClean, Zenon DEF First, Rest
  <1>4. b \in Tabs /\ tab[b].on = l BY <1>3 DEF Fits
  <1>5. First(l).type = "start" => tab[b].at = "start" BY <1>3 DEF Fits
  <1>6. CASE StopOldSent(l)
    <2>1. tab[b].at = "stopOld" /\ TakeSlot(b, l, q) /\ Written(l) /\ UNCHANGED agent
      BY <1>6 DEF StopOldSent, Sender
    <2> HIDE DEF b, q
    <2>2. tab[b].at \in Unsent BY <2>1 DEF Unsent
    <2>3. Sends(tab', link') /\ GoesOn(b) BY <1>3, <1>4, <2>1, <2>2, TakeSlotSends
    <2>4. First(l).type # "start" BY <1>5, <2>1 DEF b
    <2>5. Fresh(tab', agent'.shell, toAgent')
      BY <1>1, <2>1, <2>3, <2>4, WrittenFresh DEF b
    <2>6. Placed(tab') BY <1>4, <2>3, GoesOnPlaced
    <2> QED BY <2>3, <2>5, <2>6 DEF Extra
  <1>7. ASSUME NEW at \in {"greet", "receive", "done"}, tab'[b].at = at, tab'[b].on = l,
               Only(tab, tab', b), Others(l), link'[l].queue = q, UNCHANGED agent,
               Written(l) \/ UNCHANGED toAgent
        PROVE  Extra'
    <2> HIDE DEF b, q
    <2>1. GoesOn(b) BY <1>7 DEF GoesOn, Unsent
    <2>2. Sends(tab', link') BY <1>2, <1>3, <1>4, <1>7, SendsDrop
    <2>3. tab'[b].at \notin Unsent BY <1>7 DEF Unsent
    <2>4. /\ Placed(tab')
          /\ UNCHANGED <<toAgent, agent>> => Fresh(tab', agent'.shell, toAgent')
      BY <1>4, <2>1, GoesOnPlaced
    <2>5. Written(l) => Fresh(tab', agent'.shell, toAgent')
      BY <1>1, <1>7, <2>1, <2>3, WrittenFresh DEF b
    <2> QED BY <1>7, <2>2, <2>4, <2>5 DEF Extra
  <1>8. ASSUME NEW c, LeaveHandler(b, l, q, c), UNCHANGED agent, tab[b].at = "relay",
               Written(l) \/ UNCHANGED toAgent
        PROVE  Extra'
    <2>1. Sends(tab', link') /\ GoesOn(b)
      <3> HIDE DEF b, q
      <3> QED BY <1>3, <1>4, <1>8, LeaveSends
    <2>2. First(l).type # "start" BY <1>5, <1>8
    <2>3. /\ Placed(tab')
          /\ UNCHANGED <<toAgent, agent>> => Fresh(tab', agent'.shell, toAgent')
      <3> HIDE DEF b, q
      <3> QED BY <1>4, <2>1, GoesOnPlaced
    <2>4. Written(l) => Fresh(tab', agent'.shell, toAgent')
      BY <1>1, <1>8, <2>1, <2>2, WrittenFresh
    <2> QED BY <1>8, <2>1, <2>3, <2>4 DEF Extra
  <1>9. CASE StartSent(l)
    <2>1. /\ link' = [link EXCEPT ![l].queue = q] /\ tab' = [tab EXCEPT ![b].at = "greet"]
          /\ Written(l) /\ UNCHANGED agent
      BY <1>9 DEF StartSent
    <2> HIDE DEF b, q
    <2>2. link'[l].queue = q /\ Others(l) BY <1>2, <2>1, SMT DEF GoodLink, Others
    <2>3. tab'[b].at = "greet" /\ tab'[b].on = l /\ Only(tab, tab', b)
      BY <1>2, <1>4, <2>1, SMT DEF TabRecord, Only
    <2> QED BY <1>7, <2>1, <2>2, <2>3
  <1>10. CASE InputSent(l)
    <2>1. tab[b].at = "relay" /\ Written(l) /\ UNCHANGED agent
      BY <1>10 DEF InputSent, Sender
    <2>2. CASE tab[b].app = "closed"
      <3>1. LeaveHandler(b, l, q, tab[b].client) BY <1>10, <2>2 DEF InputSent
      <3> HIDE DEF b, q
      <3> QED BY <1>8, <2>1, <3>1
    <2>3. CASE tab[b].app # "closed"
      <3>1. link' = [link EXCEPT ![l].queue = q] /\ tab' = [tab EXCEPT ![b].at = "receive"]
        BY <1>10, <2>3 DEF InputSent
      <3> HIDE DEF b, q
      <3>2. link'[l].queue = q /\ Others(l) BY <1>2, <3>1, SMT DEF GoodLink, Others
      <3>3. tab'[b].at = "receive" /\ tab'[b].on = l /\ Only(tab, tab', b)
        BY <1>2, <1>4, <3>1, SMT DEF TabRecord, Only
      <3> QED BY <1>7, <2>1, <3>2, <3>3
    <2> QED BY <2>2, <2>3
  <1>11. CASE StopSent(l)
    <2>1. /\ link' = [link EXCEPT ![l].queue = q, ![l].slot = Clear(l, Kind(b))]
          /\ tab' = [tab EXCEPT ![b].at = "done", ![b].peer = "gone"]
          /\ Written(l) /\ UNCHANGED agent
      BY <1>11 DEF StopSent
    <2> HIDE DEF b, q
    <2>2. link'[l].queue = q /\ Others(l) BY <1>2, <2>1, SMT DEF GoodLink, Others
    <2>3. tab'[b].at = "done" /\ tab'[b].on = l /\ Only(tab, tab', b)
      BY <1>2, <1>4, <2>1, SMT DEF TabRecord, Only
    <2> QED BY <1>7, <2>1, <2>2, <2>3
  <1>12. CASE SendRaised(l)
    <2>1. UNCHANGED agent /\ UNCHANGED toAgent BY <1>12 DEF SendRaised
    <2>2. CASE Sender(l, "relay")
      <3>1. LeaveHandler(b, l, q, tab[b].client) /\ tab[b].at = "relay"
        BY <1>12, <2>2 DEF SendRaised, Sender
      <3> HIDE DEF b, q
      <3> QED BY <1>8, <2>1, <3>1
    <2>3. CASE ~Sender(l, "relay")
      <3>1. /\ link' = [link EXCEPT ![l].queue = q]
            /\ tab' = [tab EXCEPT ![b].at = "done", ![b].peer = "gone"]
        BY <1>12, <2>3 DEF SendRaised
      <3> HIDE DEF b, q
      <3>2. link'[l].queue = q /\ Others(l) BY <1>2, <3>1, SMT DEF GoodLink, Others
      <3>3. tab'[b].at = "done" /\ tab'[b].on = l /\ Only(tab, tab', b)
        BY <1>2, <1>4, <3>1, SMT DEF TabRecord, Only
      <3> QED BY <1>7, <2>1, <3>2, <3>3
    <2> QED BY <2>2, <2>3
  <1> QED BY <1>6, <1>9, <1>10, <1>11, <1>12
-----------------------------------------------------------------------------
(* Channels and the agent *)

\* The cleanup of a channel leaves the queues alone.
LEMMA FinallyQueues ==
  ASSUME link \in [Links -> GoodLink], NEW l \in Links, NEW c,
         \/ StartFinally(l, c) \/ NextFinally(l)
  PROVE  SameQueues
  <1>1. ASSUME NEW k, NEW d, TellTab(l, k, d) PROVE SameQueues
    BY <1>1, SMT DEF TellTab, SameQueues, GoodLink
  <1>2. ASSUME NEW d, Unregister(l, d) PROVE SameQueues
    BY <1>2, SMT DEF Unregister, SameQueues, GoodLink
  <1> QED BY <1>1, <1>2 DEF StartFinally, NextFinally

\* Each step of a channel's handler, and its opening, keeps the invariant.
LEMMA HandlerStepsExtra ==
  ASSUME SessionsInv, NEW l \in Links,
         \/ LinkReceive(l) \/ Relayed(l) \/ LinkDisconnected(l) \/ RelayRaised(l)
         \/ FinallyTold(l) \/ FinallyTellRaised(l) \/ FinallyClosed(l)
         \/ AgentConnect(l)
  PROVE  Extra'
  <1>1. tab \in [Tabs -> TabRecord] /\ link \in [Links -> GoodLink] BY Records
  <1>2. CASE LinkReceive(l)
    <2>1. SameQueues
      <3>1. CASE UNCHANGED link BY <3>1 DEF SameQueues
      <3>2. ASSUME NEW m,
                   link' = [link EXCEPT ![l].at = "relay", ![l].kind = Kind(m.session),
                              ![l].target = link[l].slot[Kind(m.session)],
                              ![l].type = m.type, ![l].session = m.session]
            PROVE  SameQueues
        <4> DEFINE k == Kind(m.session)
                   v == link[l].slot[k]
                   y == m.type
                   z == m.session
        <4>1. link' = [link EXCEPT ![l].at = "relay", ![l].kind = k, ![l].target = v,
                                   ![l].type = y, ![l].session = z]
          BY <3>2, Zenon
        <4> HIDE DEF k, v, y, z
        <4> QED BY <1>1, <4>1, SMT DEF SameQueues, GoodLink
      <3> QED BY <1>2, <3>1, <3>2, Zenon DEF LinkReceive
    <2> QED BY <1>2, <2>1, NobodyMoves DEF LinkReceive
  <1>3. CASE Relayed(l)
    <2>1. SameQueues BY <1>1, <1>3, SMT DEF Relayed, SameQueues, GoodLink
    <2> QED BY <1>3, <2>1, NobodyMoves DEF Relayed
  <1>4. CASE LinkDisconnected(l) \/ RelayRaised(l) \/ FinallyTellRaised(l) \/ FinallyClosed(l)
    <2>1. SameQueues
      BY <1>1, <1>4, FinallyQueues
      DEF LinkDisconnected, RelayRaised, FinallyTellRaised, FinallyClosed
    <2> QED BY <1>4, <2>1, NobodyMoves
          DEF LinkDisconnected, RelayRaised, FinallyTellRaised, FinallyClosed
  <1>5. CASE FinallyTold(l)
    <2> DEFINE v == link[l].slot[link[l].kind]
    <2>1. CASE v # None /\ tab[v].app = "up"
      <3>1. /\ tab' = [tab EXCEPT ![v].app = "closed"]
            /\ link' = [link EXCEPT ![l].at = "close", ![l].target = v]
            /\ UNCHANGED <<toAgent, agent>>
        BY <1>5, <2>1 DEF FinallyTold
      <3>2. SameQueues BY <1>1, <3>1, SMT DEF SameQueues, GoodLink
      <3> HIDE DEF v
      <3>3. \A c \in Tabs : tab'[c].at = tab[c].at /\ tab'[c].on = tab[c].on
        BY <1>1, <3>1, SMT DEF TabRecord
      <3> QED BY <3>1, <3>2, <3>3, NobodyMoves
    <2>2. CASE ~(v # None /\ tab[v].app = "up")
      <3>1. NextFinally(l) /\ UNCHANGED tab /\ UNCHANGED <<toAgent, agent>>
        BY <1>5, <2>2 DEF FinallyTold
      <3>2. SameQueues BY <1>1, <3>1, FinallyQueues
      <3> QED BY <3>1, <3>2, NobodyMoves
    <2> QED BY <2>1, <2>2
  <1>6. CASE AgentConnect(l)
    <2>1. SameQueues BY <1>1, <1>6, SMT DEF AgentConnect, Dials, Register, SameQueues, GoodLink
    <2>2. agent'.shell = agent.shell
      <3>1. agent \in AgentRecord BY HubParts DEF SessionsInv
      <3> QED BY <1>6, <3>1, SMT DEF AgentConnect, Dials, Register, AgentRecord
    <2>3. Sends(tab', link')
      <3>1. Sends(tab, link) BY Records
      <3>2. tab' = tab BY <1>6 DEF AgentConnect, Dials, Register
      <3> QED BY <2>1, <3>1, <3>2 DEF Sends, SameQueues
    <2>4. tab' = tab /\ toAgent' = toAgent BY <1>6 DEF AgentConnect, Dials, Register
    <2> QED BY <2>2, <2>3, <2>4, Records DEF Extra
  <1> QED BY <1>2, <1>3, <1>4, <1>5, <1>6

\* No session but b loses its claim to a first shell.
KeepsNone(g, b) == \A c \in Tabs : c # b /\ agent.shell[c] = "none" => g[c] = "none"

\* stopCurrent gives no session a shell and takes none back.
LEMMA StopKeepsNone ==
  ASSUME SessionsInv, NEW b
  PROVE  KeepsNone(ShellsAfterStop, b)
  BY SMT DEF KeepsNone, ShellsAfterStop

\* The agent loses its channel, and with it every frame on it.
LEMMA DisconnectsExtra ==
  ASSUME SessionsInv, NEW l \in Links, AgentLosesChannel(l)
  PROVE  Extra'
  <1>1. /\ tab \in [Tabs -> TabRecord] /\ link \in [Links -> GoodLink]
        /\ toAgent \in [Links -> Seq(GoodFrame)] /\ Sends(tab, link)
        /\ Fresh(tab, agent.shell, toAgent) /\ Placed(tab)
    BY Records
  <1>2. tab' = tab BY DEF AgentLosesChannel
  <1>3. SameQueues
    <2>1. link' = [link EXCEPT ![l].conn = "gone"] \/ link' = link
      BY DEF AgentLosesChannel
    <2>2. CASE link' = link BY <2>2 DEF SameQueues
    <2>3. CASE link' = [link EXCEPT ![l].conn = "gone"]
      BY <1>1, <2>3, SMT DEF SameQueues, GoodLink
    <2> QED BY <2>1, <2>2, <2>3
  <1>4. Sends(tab', link') BY <1>1, <1>2, <1>3 DEF Sends, SameQueues
  <1> DEFINE g == [b \in Tabs |-> IF ShellsAfterStop[b] = "ended" THEN "reported"
                                                                 ELSE ShellsAfterStop[b]]
  <1>5. agent'.shell = g
    <2>1. agent \in AgentRecord BY HubParts DEF SessionsInv
    <2> QED BY <2>1, SMT DEF AgentLosesChannel, AgentRecord
  <1>6. \A b \in Tabs : agent.shell[b] = "none" => g[b] = "none"
    BY SMT DEF ShellsAfterStop
  <1> HIDE DEF g
  <1>7. \A m \in Links : toAgent'[m] = toAgent[m] \/ toAgent'[m] = <<>>
    BY <1>1, SMT DEF AgentLosesChannel
  <1>8. \A m \in Links, b \in Tabs :
          /\ Own(toAgent'[m]) /\ OneStart(toAgent'[m], b)
          /\ HasStart(toAgent'[m], b) => HasStart(toAgent[m], b)
    BY <1>1, <1>7, NoStarts DEF Fresh, OwnStarts
  <1>9. \A m \in Links : Own(toAgent'[m])
    BY <1>1, <1>7, NoStarts DEF Fresh, OwnStarts
  <1>10. Fresh(tab, g, toAgent') BY <1>1, <1>6, <1>8, <1>9, FewerStarts
  <1> QED BY <1>1, <1>2, <1>4, <1>5, <1>10 DEF Extra

\* A start the agent takes is that of a session without a shell, and is sent.
LEMMA StartTaken ==
  ASSUME SessionsInv, agent.link # None, toAgent[agent.link] # <<>>,
         toAgent[agent.link][1].type = "start"
  PROVE  LET m == toAgent[agent.link][1]
         IN  /\ m \in GoodFrame /\ m.session = m.by /\ agent.shell[m.by] = "none"
             /\ tab[m.by].at \notin Unsent
  <1> DEFINE s == toAgent[agent.link]
             m == s[1]
  <1>1. Fresh(tab, agent.shell, toAgent) /\ toAgent \in [Links -> Seq(GoodFrame)] BY Records
  <1>2. agent.link \in Links
    <2>1. agent \in AgentRecord BY HubParts DEF SessionsInv
    <2> QED BY <2>1 DEF AgentRecord
  <1>3. s \in Seq(GoodFrame) /\ 1 \in DOMAIN s /\ m \in GoodFrame BY <1>1, <1>2
  <1>4. m.by \in Tabs BY <1>3 DEF GoodFrame, Frame
  <1>5. Own(s) BY <1>1, <1>2 DEF Fresh, OwnStarts
  <1>6. m.session = m.by BY <1>3, <1>5 DEF Own
  <1>7. HasStart(s, m.by) BY <1>3 DEF HasStart, StartAt
  <1> QED BY <1>1, <1>2, <1>3, <1>4, <1>6, <1>7 DEF Fresh, OnItsWay

\* The agent takes a frame: nobody gets a first shell, or only the session that
\* the frame starts.
LEMMA TakesFrame ==
  ASSUME SessionsInv, agent.link # None, toAgent[agent.link] # <<>>, Taken,
         UNCHANGED <<tab, link>>, NEW m, m = toAgent[agent.link][1],
         \/ KeepsNone(agent'.shell, None)
         \/ m.type = "start" /\ KeepsNone(agent'.shell, m.by)
  PROVE  Extra'
  <1> DEFINE l == agent.link
             s == toAgent[l]
  <1>1. /\ toAgent \in [Links -> Seq(GoodFrame)] /\ Sends(tab, link)
        /\ Fresh(tab, agent.shell, toAgent) /\ Placed(tab)
    BY Records
  <1>2. l \in Links
    <2>1. agent \in AgentRecord BY HubParts DEF SessionsInv
    <2> QED BY <2>1 DEF AgentRecord
  <1>3. s \in Seq(GoodFrame) /\ s # <<>> /\ 1 \in DOMAIN s /\ m \in GoodFrame
    BY <1>1, <1>2
  <1>4. m.by \in Tabs BY <1>3 DEF GoodFrame, Frame
  <1>5. toAgent'[l] = Tail(s) /\ \A k \in Links : k # l => toAgent'[k] = toAgent[k]
    BY <1>1, <1>2 DEF Taken
  <1>6. \A c \in Tabs :
          /\ HasStart(Tail(s), c) => HasStart(s, c)
          /\ OneStart(s, c) => OneStart(Tail(s), c)
          /\ Own(s) => Own(Tail(s))
          /\ OneStart(s, c) /\ StartAt(s, 1, c) => HasStart(s, c) /\ ~HasStart(Tail(s), c)
    BY <1>3, TakenFirst
  <1> HIDE DEF l, s
  <1>7. Own(s) /\ \A c \in Tabs : OneStart(s, c) BY <1>1, <1>2 DEF s, Fresh, OwnStarts
  <1>8. \A k \in Links : Own(toAgent'[k])
    BY <1>1, <1>4, <1>5, <1>6, <1>7 DEF Fresh, OwnStarts
  <1>9. \A k \in Links, c \in Tabs : /\ HasStart(toAgent'[k], c) => HasStart(toAgent[k], c)
                                     /\ OneStart(toAgent'[k], c)
    BY <1>1, <1>5, <1>6, <1>7 DEF s, Fresh, OwnStarts
  <1>10. m = s[1] BY DEF s, l
  <1>11. ASSUME m.type = "start"
         PROVE  /\ HasStart(toAgent[l], m.by) /\ ~HasStart(Tail(s), m.by)
                /\ tab[m.by].at \notin Unsent
    <2>1. StartAt(s, 1, m.by) BY <1>10, <1>11 DEF StartAt
    <2>2. HasStart(s, m.by) /\ ~HasStart(Tail(s), m.by) BY <1>4, <1>6, <1>7, <2>1
    <2>3. HasStart(toAgent[l], m.by) BY <2>2 DEF s
    <2>4. tab[m.by].at \notin Unsent BY <1>11, StartTaken
    <2> QED BY <2>2, <2>3, <2>4
  <1>12. ASSUME m.type = "start", NEW k \in Links PROVE ~HasStart(toAgent'[k], m.by)
    <2>1. CASE k = l BY <1>5, <1>11, <1>12, <2>1
    <2>2. CASE k # l
      <3>1. toAgent'[k] = toAgent[k] BY <1>5, <2>2
      <3>2. OneChannel(toAgent) BY <1>1 DEF Fresh
      <3>3. HasStart(toAgent[l], m.by) BY <1>11, <1>12
      <3> QED BY <1>2, <1>4, <2>2, <3>1, <3>2, <3>3 DEF OneChannel
    <2> QED BY <2>1, <2>2
  <1>13. None \notin Tabs BY HubAssumption
  <1>14. \A c \in Tabs : \/ agent.shell[c] = "none" => agent'.shell[c] = "none"
                         \/ /\ tab[c].at \notin Unsent
                            /\ \A k \in Links : ~HasStart(toAgent'[k], c)
    BY <1>11, <1>12, <1>13 DEF KeepsNone
  <1>15. Fresh(tab, agent'.shell, toAgent')
    <2> DEFINE g == agent'.shell
    <2>1. \A c \in Tabs : \/ agent.shell[c] = "none" => g[c] = "none"
                          \/ /\ tab[c].at \notin Unsent
                             /\ \A k \in Links : ~HasStart(toAgent'[k], c)
      BY <1>14
    <2> HIDE DEF g
    <2>2. Fresh(tab, g, toAgent') BY <1>1, <1>8, <1>9, <2>1, FewerStarts
    <2> QED BY <2>2 DEF g
  <1> QED BY <1>1, <1>15 DEF Extra

\* The shells after each step of the agent.
LEMMA AgentShells ==
  ASSUME SessionsInv
  PROVE  /\ AgentStartsShell =>
              agent'.shell = [ShellsAfterStop EXCEPT ![toAgent[agent.link][1].session] = "running"]
         /\ AgentShellFails => agent'.shell = ShellsAfterStop
         /\ AgentStartsFiles \/ AgentInput => agent'.shell = agent.shell
         /\ AgentStop => agent'.shell = agent.shell \/ agent'.shell = ShellsAfterStop
         /\ \A b : AgentOutput(b) => agent'.shell = agent.shell
         /\ \A b : ShellExits(b) => agent'.shell = [agent.shell EXCEPT ![b] = "ended"]
         /\ \A b : PumpEnds(b) => agent'.shell = [agent.shell EXCEPT ![b] = "reported"]
         /\ AgentStep => agent'.link = agent.link
  <1>1. agent \in AgentRecord BY HubParts DEF SessionsInv
  <1>2. AgentStartsShell =>
          /\ agent'.shell = [ShellsAfterStop EXCEPT ![toAgent[agent.link][1].session] = "running"]
          /\ agent'.link = agent.link
    BY <1>1, SMT DEF AgentStartsShell, AgentRecord
  <1>3. AgentShellFails => agent'.shell = ShellsAfterStop /\ agent'.link = agent.link
    BY <1>1, SMT DEF AgentShellFails, AgentRecord
  <1>4. AgentStartsFiles \/ AgentInput => agent'.shell = agent.shell /\ agent'.link = agent.link
    BY <1>1, SMT DEF AgentStartsFiles, AgentInput, AgentRecord
  <1>5. AgentStop => /\ agent'.shell = agent.shell \/ agent'.shell = ShellsAfterStop
                     /\ agent'.link = agent.link
    BY <1>1, SMT DEF AgentStop, AgentRecord
  <1>6. \A b : AgentOutput(b) => agent'.shell = agent.shell /\ agent'.link = agent.link
    BY <1>1, SMT DEF AgentOutput, AgentRecord
  <1>7. \A b : ShellExits(b) => /\ agent'.shell = [agent.shell EXCEPT ![b] = "ended"]
                                /\ agent'.link = agent.link
    BY <1>1, SMT DEF ShellExits, AgentRecord
  <1>8. \A b : PumpEnds(b) => /\ agent'.shell = [agent.shell EXCEPT ![b] = "reported"]
                              /\ agent'.link = agent.link
    BY <1>1, SMT DEF PumpEnds, AgentRecord
  <1> QED BY <1>2, <1>3, <1>4, <1>5, <1>6, <1>7, <1>8 DEF AgentStep

\* A shell that runs gets another state: no session gets a first one.
LEMMA EndKeepsNone ==
  ASSUME SessionsInv, NEW b \in Tabs, agent.shell[b] # "none", NEW x
  PROVE  KeepsNone([agent.shell EXCEPT ![b] = x], None)
  <1>1. agent.shell \in [Tabs -> Shells] BY HubParts, AgentFields DEF SessionsInv
  <1> QED BY <1>1, SMT DEF KeepsNone

\* Each step of the agent keeps the invariant.
LEMMA AgentStepsExtra ==
  ASSUME SessionsInv, AgentStep
  PROVE  Extra'
  <1> DEFINE m == toAgent[agent.link][1]
  <1>0. agent.shell \in [Tabs -> Shells] BY HubParts, AgentFields DEF SessionsInv
  <1>1. KeepsNone(ShellsAfterStop, None) /\ KeepsNone(agent.shell, None)
    BY StopKeepsNone DEF KeepsNone
  <1>2. CASE AgentShellFails \/ AgentStartsFiles \/ AgentInput \/ AgentStop
    <2>1. /\ agent.link # None /\ toAgent[agent.link] # <<>> /\ Taken
          /\ UNCHANGED <<tab, link>>
      BY <1>2, Zenon DEF AgentShellFails, AgentStartsFiles, AgentInput, AgentStop, Incoming
    <2>2. KeepsNone(agent'.shell, None)
      <3>1. agent'.shell = agent.shell \/ agent'.shell = ShellsAfterStop BY <1>2, AgentShells
      <3> QED BY <1>1, <3>1
    <2> QED BY <2>1, <2>2, TakesFrame
  <1>3. CASE AgentStartsShell
    <2>1. /\ agent.link # None /\ toAgent[agent.link] # <<>> /\ Taken
          /\ UNCHANGED <<tab, link>> /\ m.type = "start"
      BY <1>3, Zenon DEF AgentStartsShell, Incoming
    <2>2. m.session = m.by BY <2>1, StartTaken
    <2>3. KeepsNone(agent'.shell, m.by)
      <3>1. agent'.shell = [ShellsAfterStop EXCEPT ![m.by] = "running"]
        BY <1>3, <2>2, AgentShells
      <3> HIDE DEF m
      <3> QED BY <3>1, SMT DEF KeepsNone, ShellsAfterStop
    <2> HIDE DEF m
    <2> QED BY <2>1, <2>3, TakesFrame DEF m
  <1>4. ASSUME NEW b \in Tabs, AgentOutput(b) \/ ShellExits(b) \/ PumpEnds(b)
        PROVE  Extra'
    <2>1. tab' = tab /\ link' = link /\ toAgent' = toAgent
      BY <1>4 DEF AgentOutput, ShellExits, PumpEnds
    <2>2. KeepsNone(agent'.shell, None)
      <3>1. \/ agent'.shell = agent.shell
            \/ /\ agent.shell[b] # "none"
               /\ \E x : agent'.shell = [agent.shell EXCEPT ![b] = x]
        <4>1. CASE AgentOutput(b) BY <4>1, AgentShells
        <4>2. CASE ShellExits(b)
          <5>1. agent.shell[b] = "running" BY <4>2 DEF ShellExits
          <5>2. agent'.shell = [agent.shell EXCEPT ![b] = "ended"] BY <4>2, AgentShells
          <5> QED BY <5>1, <5>2
        <4>3. CASE PumpEnds(b)
          <5>1. agent.shell[b] = "ended" BY <4>3 DEF PumpEnds
          <5>2. agent'.shell = [agent.shell EXCEPT ![b] = "reported"] BY <4>3, AgentShells
          <5> QED BY <5>1, <5>2
        <4> QED BY <1>4, <4>1, <4>2, <4>3
      <3>2. ASSUME NEW x, agent.shell[b] # "none", agent'.shell = [agent.shell EXCEPT ![b] = x]
            PROVE  KeepsNone(agent'.shell, None)
        <4>1. KeepsNone([agent.shell EXCEPT ![b] = x], None) BY <3>2, EndKeepsNone
        <4> QED BY <3>2, <4>1
      <3> QED BY <1>1, <3>1, <3>2
    <2>3. Fresh(tab, agent'.shell, toAgent)
      <3> DEFINE g == agent'.shell
      <3>1. \A c \in Tabs : agent.shell[c] = "none" => g[c] = "none"
        BY <2>2, HubAssumption DEF KeepsNone
      <3> HIDE DEF g
      <3>2. Fresh(tab, g, toAgent) BY <3>1, Records, SameStarts
      <3> QED BY <3>2 DEF g
    <2> QED BY <2>1, <2>3, Records DEF Extra
  <1> QED BY <1>2, <1>3, <1>4 DEF AgentStep
-----------------------------------------------------------------------------
(* Refinement of ShellContract *)

\* The strengthened invariant holds initially.
LEMMA SessionsStart == Init => SessionsInv
  <1> SUFFICES ASSUME Init PROVE SessionsInv OBVIOUS
  <1>1. Placed(tab) BY DEF Init, Placed
  <1>2. Sends(tab, link)
    <2>1. \A l \in Links : link[l].queue = <<>> BY SMT DEF Init
    <2> QED BY <2>1 DEF Sends, Queued, Apart
  <1>3. Fresh(tab, agent.shell, toAgent)
    <2>1. \A l \in Links : toAgent[l] = <<>> BY DEF Init
    <2>2. \A b \in Tabs : agent.shell[b] = "none" BY DEF Init
    <2>3. NoShellYet(tab, agent.shell) BY <2>2 DEF NoShellYet
    <2>4. OwnStarts(toAgent) BY <2>1, NoStarts DEF OwnStarts
    <2>5. OneChannel(toAgent) /\ OnItsWay(tab, agent.shell, toAgent)
      BY <2>1, NoStarts DEF OneChannel, OnItsWay
    <2> QED BY <2>3, <2>4, <2>5 DEF Fresh
  <1> QED BY <1>1, <1>2, <1>3, HubStarts DEF SessionsInv

\* Every step keeps the strengthened invariant.
LEMMA SessionsStep == SessionsInv /\ [Next]_vars => SessionsInv'
  <1> SUFFICES ASSUME SessionsInv, [Next]_vars PROVE SessionsInv' OBVIOUS
  <1>1. HubInv' BY HubStep DEF SessionsInv
  <1>2. CASE UNCHANGED vars BY <1>1, <1>2, Records DEF vars, SessionsInv
  <1>3. ASSUME NEW b \in Tabs, TabStep(b) PROVE Extra' BY <1>3, TabStepsExtra
  <1>4. ASSUME NEW l \in Links, LinkStep(l) PROVE Extra'
    BY <1>4, SendStepsExtra, HandlerStepsExtra, DisconnectsExtra, Zenon DEF LinkStep
  <1>5. CASE Next
    <2>1. Extra' BY <1>3, <1>4, <1>5, AgentStepsExtra DEF Next
    <2> QED BY <1>1, <2>1 DEF Extra, SessionsInv
  <1> QED BY <1>2, <1>5

\* The strengthened invariant holds in every state.
LEMMA SessionsSafe == Spec => []SessionsInv
  BY SessionsStart, SessionsStep, PTL DEF Spec

\* Nothing the contract knows of a session changes.
SameLife(b) ==
  (tab'[b].at = "idle" <=> tab[b].at = "idle") /\ agent'.shell[b] = agent.shell[b]

\* A step that opens nothing and leaves the shells alone is no step of the contract.
LEMMA Stutters ==
  ASSUME \A b \in TerminalTabs : SameLife(b), agent'.link = agent.link
  PROVE  UNCHANGED Terminal!vars
  <1>1. \A b \in TerminalTabs : SessionLife(b)' = SessionLife(b) BY DEF SameLife, SessionLife
  <1>2. Lives' = Lives BY <1>1 DEF Lives
  <1> QED BY <1>2 DEF Terminal!vars

\* A tab that opened its session never gets back to where it was before, and no
\* step of its handler moves another tab.
LEMMA TabPlaces ==
  ASSUME tab \in [Tabs -> TabRecord], NEW b \in Tabs, TabStep(b)
  PROVE  /\ tab[b].at # "idle" => tab'[b].at # "idle"
         /\ \A c \in Tabs : c # b => tab'[c].at = tab[c].at
  <1>1. CASE OpenRefused(b) \/ OpenPreempting(b) \/ TellRaised(b) \/ Greet(b) \/ GreetRaised(b)
    BY <1>1, SMT DEF OpenRefused, OpenPreempting, TellRaised, Greet, GreetRaised, TabRecord
  <1>2. CASE OpenFree(b) BY <1>2, SMT DEF OpenFree, TakeSlot, TabRecord
  <1>3. CASE Told(b)
    <2>1. tab' = [tab EXCEPT ![b].at = "close", ![b].target = Slot(b), ![Slot(b)].app = "closed"]
      BY <1>3, Zenon DEF Told
    <2>2. Slot(b) \in Tabs BY <1>3 DEF Told, Closable
    <2> QED BY <2>1, <2>2, SMT DEF TabRecord
  <1>4. CASE ToldNothingToClose(b) \/ VictimClosed(b)
    <2>1. tab' = [tab EXCEPT ![b].at = "stopOld", ![b].target = None]
      BY <1>4, Zenon DEF ToldNothingToClose, VictimClosed, QueueStopOld
    <2> QED BY <2>1, SMT DEF TabRecord
  <1>5. CASE TabGone(b) BY <1>5, SMT DEF TabGone, TabRecord
  <1>6. CASE ReceiveDisconnect(b)
    <2>1. \/ tab' = [tab EXCEPT ![b].at = "done", ![b].peer = "gone", ![b].client = "gone"]
          \/ tab' = [tab EXCEPT ![b].at = "stopping", ![b].client = "gone"]
      BY <1>6, Zenon DEF ReceiveDisconnect, LeaveHandler
    <2> QED BY <2>1, SMT DEF TabRecord
  <1>7. CASE BrowserInput(b)
    <2>1. tab' = [tab EXCEPT ![b].at = "relay"] BY <1>7, Zenon DEF BrowserInput
    <2> QED BY <2>1, SMT DEF TabRecord
  <1> QED BY <1>1, <1>2, <1>3, <1>4, <1>5, <1>6, <1>7 DEF TabStep

\* Each step of a tab's handler opens its session, or nothing changes.
LEMMA TabRefines ==
  ASSUME SessionsInv, NEW b \in Tabs, TabStep(b)
  PROVE  [Terminal!Next]_(Terminal!vars)
  <1>1. tab \in [Tabs -> TabRecord] /\ TerminalTabs \subseteq Tabs BY Records DEF Tabs
  <1>2. agent' = agent
    BY DEF TabStep, OpenRefused, OpenFree, OpenPreempting, TellRaised, Told,
           ToldNothingToClose, VictimClosed, QueueStopOld, Greet, GreetRaised, TabGone,
           ReceiveDisconnect, BrowserInput
  <1>3. CASE tab[b].at = "idle"
    <2>1. tab'[b].at # "idle" /\ \A c \in Tabs : c # b => tab'[c].at = tab[c].at
      <3>1. OpenRefused(b) \/ OpenFree(b) \/ OpenPreempting(b)
        BY <1>3 DEF TabStep, TellRaised, Told, ToldNothingToClose, VictimClosed, Greet,
                    GreetRaised, TabGone, ReceiveDisconnect, BrowserInput
      <3> QED BY <1>1, <3>1, SMT DEF OpenRefused, OpenFree, TakeSlot, OpenPreempting, TabRecord
    <2>2. CASE b \notin TerminalTabs
      BY <1>1, <1>2, <2>1, <2>2, Stutters DEF SameLife
    <2>3. CASE b \in TerminalTabs
      <3>1. agent.shell[b] = "none" BY <1>3, Records DEF Fresh, NoShellYet, Unsent
      <3>2. /\ SessionLife(b) = "none" /\ SessionLife(b)' = "opened"
            /\ \A c \in TerminalTabs : c # b => SessionLife(c)' = SessionLife(c)
        BY <1>1, <1>2, <1>3, <2>1, <3>1 DEF SessionLife
      <3>3. Terminal!Open(b) BY <1>2, <2>3, <3>2 DEF Terminal!Open, Lives
      <3> QED BY <2>3, <3>3 DEF Terminal!Next
    <2> QED BY <2>2, <2>3
  <1>4. CASE tab[b].at # "idle"
    <2>1. \A c \in Tabs : tab'[c].at = "idle" <=> tab[c].at = "idle"
      BY <1>1, <1>4, TabPlaces
    <2> QED BY <1>1, <1>2, <2>1, Stutters DEF SameLife
  <1> QED BY <1>3, <1>4

\* No step of a channel opens a session.
LEMMA LinkPlaces ==
  ASSUME SessionsInv, NEW l \in Links, LinkStep(l)
  PROVE  \A c \in Tabs : tab'[c].at = "idle" <=> tab[c].at = "idle"
  <1> DEFINE b == First(l).by
  <1>1. tab \in [Tabs -> TabRecord] /\ link \in [Links -> GoodLink] /\ Sends(tab, link)
    BY Records
  <1>2. CASE StopOldSent(l) \/ StartSent(l) \/ InputSent(l) \/ StopSent(l) \/ SendRaised(l)
    <2>1. link[l].queue # <<>>
      BY <1>2, Zenon DEF StopOldSent, StartSent, InputSent, StopSent, SendRaised, Sender
    <2>2. Fits(tab, l, First(l)) BY <1>1, <2>1, FirstClean DEF First
    <2>3. b \in Tabs /\ tab[b].at # "idle" BY <2>2 DEF Fits, Sending
    <2>4. \/ tab' = [tab EXCEPT ![b].at = "start", ![b].on = l, ![b].target = None]
          \/ \E x : x # "idle" /\ tab' = [tab EXCEPT ![b].at = x]
          \/ tab' = [tab EXCEPT ![b].at = "done", ![b].peer = "gone"]
          \/ tab' = [tab EXCEPT ![b].at = "done", ![b].peer = "gone", ![b].client = tab[b].client]
          \/ tab' = [tab EXCEPT ![b].at = "stopping", ![b].client = tab[b].client]
      BY <1>2, Zenon DEF StopOldSent, StartSent, InputSent, StopSent, SendRaised, TakeSlot,
                         LeaveHandler
    <2> HIDE DEF b
    <2> QED BY <1>1, <2>3, <2>4, SMT DEF TabRecord
  <1>3. CASE FinallyTold(l)
    <2>1. (\E v : tab' = [tab EXCEPT ![v].app = "closed"]) \/ tab' = tab
      BY <1>3, Zenon DEF FinallyTold
    <2> QED BY <1>1, <2>1, SMT DEF TabRecord
  <1>4. CASE tab' = tab BY <1>4
  <1> QED
    BY <1>2, <1>3, <1>4
    DEF LinkStep, LinkReceive, Relayed, LinkDisconnected, RelayRaised, FinallyTellRaised,
        FinallyClosed, AgentConnect, Dials, Register, AgentLosesChannel

\* Each step of a channel opens it, loses it with every shell, or changes nothing.
LEMMA LinkRefines ==
  ASSUME SessionsInv, NEW l \in Links, LinkStep(l)
  PROVE  [Terminal!Next]_(Terminal!vars)
  <1>1. /\ agent \in AgentRecord /\ OneShell /\ TerminalTabs \subseteq Tabs
        /\ \A c \in Tabs : tab'[c].at = "idle" <=> tab[c].at = "idle"
    BY HubParts, LinkPlaces DEF SessionsInv, Tabs
  <1>2. CASE AgentConnect(l)
    <2>1. agent.link = None /\ agent'.link = l /\ agent'.shell = agent.shell
      BY <1>1, <1>2, SMT DEF AgentConnect, Dials, Register, AgentRecord
    <2>2. l # None BY HubAssumption
    <2>3. \A b \in TerminalTabs : SessionLife(b)' = SessionLife(b)
      BY <1>1, <2>1 DEF SessionLife
    <2>4. Lives' = Lives BY <2>3 DEF Lives
    <2>5. Terminal!Connect BY <2>1, <2>2, <2>4 DEF Terminal!Connect
    <2> QED BY <2>5 DEF Terminal!Next
  <1>3. CASE AgentLosesChannel(l)
    <2> DEFINE g == [b \in Tabs |-> IF ShellsAfterStop[b] = "ended" THEN "reported"
                                                                   ELSE ShellsAfterStop[b]]
    <2>1. /\ agent.link = l /\ agent'.link = None /\ agent'.shell = g
      BY <1>1, <1>3, SMT DEF AgentLosesChannel, AgentRecord
    <2>2. l # None BY HubAssumption
    <2>3. \A b \in Tabs : /\ agent.shell[b] = "none" => g[b] = "none"
                          /\ agent.shell[b] # "none" => g[b] = "reported"
      <3> SUFFICES ASSUME NEW b \in Tabs
                   PROVE  /\ agent.shell[b] = "none" => g[b] = "none"
                          /\ agent.shell[b] # "none" => g[b] = "reported"
        OBVIOUS
      <3>1. agent.shell[b] \in Shells BY <1>1, AgentFields
      <3>2. agent.shell[b] = "running" => agent.cur["terminal"] = b BY <1>1 DEF OneShell
      <3>3. g[b] = IF ShellsAfterStop[b] = "ended" THEN "reported" ELSE ShellsAfterStop[b]
        OBVIOUS
      <3> HIDE DEF g
      <3> QED BY <3>1, <3>2, <3>3 DEF ShellsAfterStop, Shells
    <2> HIDE DEF g
    <2>4. \A b \in TerminalTabs :
             SessionLife(b)' = IF SessionLife(b) = "running" THEN "over" ELSE SessionLife(b)
      BY <1>1, <2>1, <2>3 DEF SessionLife
    <2>5. Terminal!Lose
      BY <2>1, <2>2, <2>4 DEF Terminal!Lose, Terminal!Ended, Lives
    <2> QED BY <2>5 DEF Terminal!Next
  <1>4. CASE agent' = agent
    BY <1>1, <1>4, Stutters DEF SameLife
  <1> QED
    BY <1>2, <1>3, <1>4
    DEF LinkStep, StopOldSent, StartSent, InputSent, StopSent, SendRaised, LinkReceive,
        Relayed, LinkDisconnected, RelayRaised, FinallyTold, FinallyTellRaised, FinallyClosed

\* The shell of the current session ends, if it runs.
LEMMA EndRefines ==
  ASSUME SessionsInv, NEW b, tab' = tab, agent'.link = agent.link,
         \A c \in Tabs : agent'.shell[c] = agent.shell[c]
                        \/ /\ c = b /\ agent'.shell[c] \in {"ended", "reported"}
                           /\ agent.shell[c] \in {"running", "ended", "reported"}
  PROVE  [Terminal!Next]_(Terminal!vars)
  <1>1. TerminalTabs \subseteq Tabs BY DEF Tabs
  <1>2. \A c \in TerminalTabs : c # b => SessionLife(c)' = SessionLife(c)
    BY <1>1 DEF SessionLife
  <1>3. \A c \in TerminalTabs : \/ SessionLife(c)' = SessionLife(c)
                                \/ SessionLife(c) = "running" /\ SessionLife(c)' = "over"
    BY <1>1 DEF SessionLife
  <1>4. CASE \A c \in TerminalTabs : SessionLife(c)' = SessionLife(c)
    <2>1. Lives' = Lives BY <1>4 DEF Lives
    <2> QED BY <2>1 DEF Terminal!vars
  <1>5. CASE ~\A c \in TerminalTabs : SessionLife(c)' = SessionLife(c)
    <2>1. b \in TerminalTabs /\ SessionLife(b) = "running" /\ SessionLife(b)' = "over"
      BY <1>2, <1>3, <1>5
    <2>2. Terminal!End(b) BY <1>2, <2>1 DEF Terminal!End, Lives
    <2> QED BY <2>1, <2>2 DEF Terminal!Next
  <1> QED BY <1>4, <1>5

\* The start of a shell, after the one before it was ended.
LEMMA StartRefines ==
  ASSUME SessionsInv, AgentStartsShell
  PROVE  [Terminal!Next]_(Terminal!vars)
  <1> DEFINE m == toAgent[agent.link][1]
             b == m.session
  <1>1. /\ agent.link # None /\ toAgent[agent.link] # <<>> /\ Taken
        /\ UNCHANGED <<tab, link>> /\ m.type = "start" /\ Kind(m.by) = "terminal"
    BY Zenon DEF AgentStartsShell, Incoming
  <1>2. /\ agent'.shell = [ShellsAfterStop EXCEPT ![b] = "running"]
        /\ agent'.link = agent.link
    BY AgentShells DEF AgentStep
  <1>3. OneShell /\ agent.shell \in [Tabs -> Shells] /\ TerminalTabs \subseteq Tabs
    BY HubParts, AgentFields DEF SessionsInv, Tabs
  <1>4. /\ m \in GoodFrame /\ m.session = m.by /\ agent.shell[m.by] = "none"
        /\ tab[m.by].at \notin Unsent
    BY <1>1, StartTaken
  <1>5. b \in TerminalTabs
    <2>1. m.by \in Tabs BY <1>4 DEF GoodFrame, Frame
    <2> QED BY <1>1, <1>4, <2>1 DEF Kind
  <1>6. agent.shell[b] = "none" /\ tab[b].at # "idle" BY <1>4 DEF Unsent
  <1> HIDE DEF b, m
  <1>7. PICK s \in TerminalTabs : s = b BY <1>5
  <1>8. /\ agent'.shell[s] = "running"
        /\ \A c \in Tabs : c # s =>
             agent'.shell[c] = IF agent.shell[c] = "running" THEN "ended" ELSE agent.shell[c]
    BY <1>2, <1>3, <1>7, SMT DEF ShellsAfterStop, OneShell
  <1>9. tab' = tab /\ agent.shell[s] = "none" /\ tab[s].at # "idle" BY <1>1, <1>6, <1>7
  <1>10. SessionLife(s) = "opened" /\ SessionLife(s)' = "running"
    BY <1>8, <1>9 DEF SessionLife
  <1>11. \A c \in TerminalTabs : c # s =>
          SessionLife(c)' = IF SessionLife(c) = "running" THEN "over" ELSE SessionLife(c)
    BY <1>3, <1>8, <1>9 DEF SessionLife
  <1>12. Terminal!Start(s)
    BY <1>1, <1>2, <1>10, <1>11 DEF Terminal!Start, Terminal!Ended, Lives
  <1> QED BY <1>12 DEF Terminal!Next

\* Each step of the agent starts a session's shell, ends one, or changes nothing.
LEMMA AgentRefines ==
  ASSUME SessionsInv, AgentStep
  PROVE  [Terminal!Next]_(Terminal!vars)
  <1>1. CASE AgentStartsShell BY <1>1, StartRefines
  <1>2. agent'.link = agent.link BY AgentShells
  <1>3. ASSUME ~AgentStartsShell PROVE tab' = tab
    BY <1>3 DEF AgentStep, AgentShellFails, AgentStartsFiles, AgentInput, AgentStop,
                AgentOutput, ShellExits, PumpEnds
  <1>4. CASE ~AgentStartsShell /\ agent'.shell = agent.shell
    BY <1>2, <1>3, <1>4, EndRefines
  <1>5. CASE ~AgentStartsShell /\ agent'.shell = ShellsAfterStop
    <2> DEFINE b == agent.cur["terminal"]
    <2>1. \A c \in Tabs : agent'.shell[c] = agent.shell[c]
                          \/ /\ c = b /\ agent'.shell[c] = "ended"
                             /\ agent.shell[c] = "running"
      BY <1>5 DEF ShellsAfterStop
    <2> HIDE DEF b
    <2> QED BY <1>2, <1>3, <1>5, <2>1, EndRefines
  <1>6. ASSUME NEW b \in Tabs, ShellExits(b) \/ PumpEnds(b), ~AgentStartsShell
        PROVE  [Terminal!Next]_(Terminal!vars)
    <2>1. /\ agent.shell[b] \in {"running", "ended"}
          /\ \E x \in {"ended", "reported"} : agent'.shell = [agent.shell EXCEPT ![b] = x]
      BY <1>6, AgentShells DEF ShellExits, PumpEnds
    <2>2. agent.shell \in [Tabs -> Shells] BY HubParts, AgentFields DEF SessionsInv
    <2>3. \A c \in Tabs : agent'.shell[c] = agent.shell[c]
                          \/ /\ c = b /\ agent'.shell[c] \in {"ended", "reported"}
                             /\ agent.shell[c] \in {"running", "ended", "reported"}
      BY <2>1, <2>2
    <2> QED BY <1>2, <1>3, <1>6, <2>3, EndRefines
  <1> QED BY <1>1, <1>4, <1>5, <1>6, AgentShells DEF AgentStep

\* KeepsShellContract: whatever is preempted, dropped, reported late or stopped
\* late, a session gets one shell at most, one runs at a time, only with a channel.
THEOREM ImplementsShellContract == Spec => KeepsShellContract
  <1>1. Init => Terminal!Init
    <2> SUFFICES ASSUME Init PROVE Terminal!Init OBVIOUS
    <2>1. agent.link = None /\ \A b \in Tabs : tab[b].at = "idle" BY DEF Init
    <2>2. \A b \in TerminalTabs : SessionLife(b) = "none" BY <2>1 DEF SessionLife, Tabs
    <2> QED BY <2>1, <2>2 DEF Terminal!Init, Lives
  <1>2. SessionsInv /\ [Next]_vars => [Terminal!Next]_(Terminal!vars)
    <2> SUFFICES ASSUME SessionsInv, [Next]_vars PROVE [Terminal!Next]_(Terminal!vars)
      OBVIOUS
    <2>1. CASE UNCHANGED vars
      <3>1. tab' = tab /\ agent' = agent BY <2>1 DEF vars
      <3> QED BY <3>1, Stutters DEF SameLife
    <2>2. CASE Next BY <2>2, TabRefines, LinkRefines, AgentRefines DEF Next
    <2> QED BY <2>1, <2>2
  <1> QED BY <1>1, <1>2, SessionsSafe, PTL DEF Spec, KeepsShellContract, Terminal!Spec
=============================================================================
