----------------------------- MODULE ManagedMode -----------------------------
(***************************************************************************)
(* Managed mode (app/api/suite.py, _direct_access_lock and health in        *)
(* app/main.py): pktHub locks direct access to this app, its polls keep the *)
(* lock's heartbeat fresh, and a visitor who finds the heartbeat too old    *)
(* releases the lock.  Beside it runs the life of the suite token, which    *)
(* pktHub must present.  Every SELECT and every commit is a step.           *)
(* pktHub itself is external: it polls, flips its own record to Direct when *)
(* the app says it is unlocked, and can be away.                            *)
(***************************************************************************)
EXTENDS Naturals

CONSTANTS
  Visitors,    \* requests from browsers that present no suite token
  Pages,       \* administrators at Settings -> Integrations
  MaxTokens,   \* bound: how many tokens are ever generated
  MaxOutages   \* bound: how often pktHub goes away

ASSUME ManagedAssumption == MaxTokens \in Nat /\ MaxOutages \in Nat

VARIABLES
  lock,     \* the settings rows direct_ui_locked, lock_heartbeat_at, hub_redirect_url
  token,    \* the settings row suite_token; 0: not set
  page,     \* per page: where GET /api/suite/token is, and the token it shows
  hub,      \* pktHub: its token, its record of this app, the request it has under way
  visit,    \* per visitor: where the middleware is
  spent     \* tokens generated and outages so far

managedVars == <<lock, token, page, hub, visit, spent>>

ManagedTypeOK ==
  /\ lock \in [on : BOOLEAN, beat : {"none", "fresh", "old"}, url : BOOLEAN]
  /\ token \in 0..MaxTokens
  /\ page \in [Pages -> [at : {"closed", "generate", "shown"}, shows : 0..MaxTokens]]
  /\ hub \in [token : 0..MaxTokens, alive : BOOLEAN, record : {"direct", "managed"},
              at : {"idle", "lock", "unlock", "poll"}, told : BOOLEAN]
  /\ visit \in [Visitors -> {"away", "look", "release"}]
  /\ spent \in [tokens : 0..MaxTokens, outages : 0..MaxOutages]

ManagedInit ==
  /\ lock = [on |-> FALSE, beat |-> "none", url |-> FALSE]
  /\ token = 0
  /\ page = [p \in Pages |-> [at |-> "closed", shows |-> 0]]
  /\ hub = [token |-> 0, alive |-> TRUE, record |-> "direct", at |-> "idle", told |-> FALSE]
  /\ visit = [v \in Visitors |-> "away"]
  /\ spent = [tokens |-> 0, outages |-> 0]

\* A request with this token passes _suite_token_ok.
Presents(t) == t # 0 /\ t = token

\* pktHub is up and holds the token the app would accept.
HubCalls == hub.alive /\ Presents(hub.token)
-----------------------------------------------------------------------------
(* The suite token *)

\* GET /api/suite/token: a token that is set is shown.
ShowToken(p) ==
  /\ page[p].at = "closed"
  /\ page' = [page EXCEPT ![p] = IF token = 0 THEN [at |-> "generate", shows |-> 0]
                                 ELSE [at |-> "shown", shows |-> token]]
  /\ UNCHANGED <<lock, token, hub, visit, spent>>

\* ... and one that was not set when this request looked is generated and stored,
\* whatever is stored by then.  POST /api/suite/regenerate does the same without looking.
StoreToken(p) ==
  /\ page[p].at \in {"generate", "shown"} /\ spent.tokens < MaxTokens
  /\ token' = spent.tokens + 1
  /\ spent' = [spent EXCEPT !.tokens = @ + 1]
  /\ page' = [page EXCEPT ![p] = [at |-> "shown", shows |-> spent.tokens + 1]]
  /\ UNCHANGED <<lock, hub, visit>>

\* The administrator pastes the token the page shows into pktHub.
PasteToken(p) ==
  /\ page[p].at = "shown" /\ hub.at = "idle"
  /\ hub' = [hub EXCEPT !.token = page[p].shows]
  /\ UNCHANGED <<lock, token, page, visit, spent>>

\* POST /api/suite/register: the token pktHub has is stored as this app's.
RegisterToken ==
  /\ hub.token # 0
  /\ token' = hub.token
  /\ UNCHANGED <<lock, page, hub, visit, spent>>
-----------------------------------------------------------------------------
(* pktHub's requests *)

\* POST /api/suite/direct-access: the token is checked before the body is read ...
AskLock(locked) ==
  /\ HubCalls /\ hub.at = "idle"
  /\ hub' = [hub EXCEPT !.at = IF locked THEN "lock" ELSE "unlock"]
  /\ UNCHANGED <<lock, token, page, visit, spent>>

\* ... then flag, heartbeat and, if one was sent, the address are one transaction.
\* An answer that pktHub is not there to receive leaves its record as it was.
SetDirectAccess(sent) ==
  /\ hub.at \in {"lock", "unlock"}
  /\ lock' = [on |-> hub.at = "lock", beat |-> "fresh", url |-> lock.url \/ sent]
  /\ hub' = [hub EXCEPT !.at = "idle",
               !.record = IF ~hub.alive THEN @ ELSE IF hub.at = "lock" THEN "managed" ELSE "direct"]
  /\ UNCHANGED <<token, page, visit, spent>>

\* A slip with a value that is not "is True": a flag that was ever written reads as on.
PollReadsTruth ==
  /\ hub.alive /\ hub.at = "idle"
  /\ hub' = [hub EXCEPT !.at = "poll", !.told = (lock.beat # "none")]
  /\ UNCHANGED <<lock, token, page, visit, spent>>

\* GET /api/health reads the flag first.
PollReads ==
  /\ hub.alive /\ hub.at = "idle"
  /\ hub' = [hub EXCEPT !.at = "poll", !.told = lock.on]
  /\ UNCHANGED <<lock, token, page, visit, spent>>

\* A slip: any caller of /api/health keeps the lock alive.
AnyPollBeats ==
  /\ hub.at = "poll"
  /\ lock' = [lock EXCEPT !.beat = "fresh"]
  /\ hub' = [hub EXCEPT !.at = "idle", !.told = FALSE,
               !.record = IF hub.alive /\ ~hub.told THEN "direct" ELSE @]
  /\ UNCHANGED <<token, page, visit, spent>>

\* It then refreshes the heartbeat for a caller with the token, and answers.
PollBeats ==
  /\ hub.at = "poll"
  /\ lock' = IF Presents(hub.token) THEN [lock EXCEPT !.beat = "fresh"] ELSE lock
  /\ hub' = [hub EXCEPT !.at = "idle", !.told = FALSE,
               !.record = IF hub.alive /\ ~hub.told THEN "direct" ELSE @]
  /\ UNCHANGED <<token, page, visit, spent>>

\* A user pktHub proxies: the middleware refreshes the heartbeat and serves.
Proxied ==
  /\ HubCalls /\ hub.at = "idle" /\ lock.beat # "fresh"
  /\ lock' = [lock EXCEPT !.beat = "fresh"]
  /\ UNCHANGED <<token, page, hub, visit, spent>>

HubGoes ==
  /\ hub.alive /\ spent.outages < MaxOutages
  /\ hub' = [hub EXCEPT !.alive = FALSE]
  /\ spent' = [spent EXCEPT !.outages = @ + 1]
  /\ UNCHANGED <<lock, token, page, visit>>

HubReturns ==
  /\ ~hub.alive /\ hub.at = "idle"
  /\ hub' = [hub EXCEPT !.alive = TRUE]
  /\ UNCHANGED <<lock, token, page, visit, spent>>

\* Five minutes without a call; pktHub polls well inside that as long as it can.
BeatAges ==
  /\ lock.beat = "fresh" /\ ~HubCalls
  /\ lock' = [lock EXCEPT !.beat = "old"]
  /\ UNCHANGED <<token, page, hub, visit, spent>>
-----------------------------------------------------------------------------
(* A visitor's way through the middleware *)

\* The flag is read; without it the request is served.
Visit(v) ==
  /\ visit[v] = "away" /\ lock.on
  /\ visit' = [visit EXCEPT ![v] = "look"]
  /\ UNCHANGED <<lock, token, page, hub, spent>>

\* The heartbeat is read: no heartbeat counts as expired.  With a fresh one the
\* visitor is redirected, or served if there is no address.
LookAtBeat(v) ==
  /\ visit[v] = "look"
  /\ visit' = [visit EXCEPT ![v] = IF lock.beat = "fresh" THEN "away" ELSE "release"]
  /\ UNCHANGED <<lock, token, page, hub, spent>>

\* The release is written without another look.
Release(v) ==
  /\ visit[v] = "release"
  /\ lock' = [lock EXCEPT !.on = FALSE]
  /\ visit' = [visit EXCEPT ![v] = "away"]
  /\ UNCHANGED <<token, page, hub, spent>>

\* PATCH /api/suite/hub-redirect-url by an administrator.
SetRedirect(set) ==
  /\ lock.url # set
  /\ lock' = [lock EXCEPT !.url = set]
  /\ UNCHANGED <<token, page, hub, visit, spent>>

ManagedNext ==
  \/ \E p \in Pages : ShowToken(p) \/ StoreToken(p) \/ PasteToken(p)
  \/ RegisterToken
  \/ \E b \in BOOLEAN : AskLock(b) \/ SetDirectAccess(b) \/ SetRedirect(b)
  \/ PollReads \/ PollBeats \/ Proxied \/ HubGoes \/ HubReturns \/ BeatAges
  \/ \E v \in Visitors : Visit(v) \/ LookAtBeat(v) \/ Release(v)

\* A request that was accepted is handled to its end, pktHub polls while it is up, time
\* passes, and somebody opens the app now and then.
ManagedFairness ==
  /\ WF_managedVars(PollReads) /\ WF_managedVars(PollBeats)
  /\ WF_managedVars(\E sent \in BOOLEAN : SetDirectAccess(sent))
  /\ WF_managedVars(BeatAges)
  /\ \A v \in Visitors : WF_managedVars(Visit(v) \/ LookAtBeat(v) \/ Release(v))

ManagedSpec == ManagedInit /\ [][ManagedNext]_managedVars /\ ManagedFairness
-----------------------------------------------------------------------------
\* A lock does not outlive pktHub: once pktHub is gone, or no longer holds the token,
\* visitors are let in again, unless it comes back first.
NeverStranded == (lock.on /\ ~HubCalls) ~> (~lock.on \/ HubCalls)

\* pktHub does not go on showing a lock that was released: its record follows.
HubLearns == (hub.record = "managed" /\ ~lock.on) ~> (hub.record = "direct" \/ lock.on \/ ~hub.alive)

\* The lock and pktHub's record of it do not stay apart.
LockFollowsHub == NeverStranded /\ HubLearns
=============================================================================
