# pktNode: a verification development in TLA+

This directory holds TLA+ models of pktNode, a small remote monitoring and
management system: a FastAPI + SQLite server (`src/app`), a Go agent
(`src/agent`) and a React frontend (`src/frontend`). The models are translated
from the code; every definition that stands for code is listed with its lines in
`PROJECT.json` under `map`.

## 1. Inventory: the system's parts

### Server (`src/app`)

| Part | State it keeps | Operations | What is hard |
|---|---|---|---|
| Remote command queue (`api/nodes.py`, `api/agent.py`) | rows of `commands` (`pending`, `sent`, `completed`, `failed`) | queue, bulk update push, check-in hand-out, result | the answer of a check-in is lost after the commit; the agent dies between execution and report |
| Enrolment and node lifecycle (`api/agent.py`, `api/enrollment.py`, `api/nodes.py`, `enrollment_cleanup.py`, `dependencies.py`) | `enrollment_tokens`, `nodes`, `agent_tokens`, inventory tables | enrol, rotate, revoke, clean up, check in, decommission, delete | SELECTs outside the write transaction, a check-in authenticated before a decommission |
| Session hub (`terminal_hub.py`, WebSocket handlers in `api/agent.py`, `api/nodes.py`) | per node one agent link, per kind one browser slot and session id | register, start (preempts), stop, relay, disconnect | every `await` is a scheduling point between reading and using the slot |
| Alert engine (`alerts/engine.py`, `alerts/cleanup.py`) | open and resolved `alert_events` | one evaluation per minute | who resolves an event whose rule or node no longer qualifies |
| Login protection (`auth/lockout.py`, `auth/throttle.py`, `api/auth.py`) | failure counters, lock times, blocked addresses | failed and good logins, expiry | counters read before the password check and used after it |
| Self-update (`self_update.py`) | status record, files of the install directory | check, apply, auto-apply in a window | a swap that is interrupted; two applies at once |
| Resonance client (`integrations/resonance`, `api/resonance.py`) | rate windows, circuit breaker | consume, assert closed, record success/failure | count and look, or read and write, in two statements |
| Start-up (`database.py`, `crypto.py`, `main.py`) | schema, list of scripts that have run, secrets in clear or encrypted, first administrator | migrate, encrypt, seed | SQLite commits the statements of a script one by one; a kill falls between any two |
| Managed mode and suite token (`api/suite.py`, middleware in `main.py`) | token hash, lock and its heartbeat, pktHub's record | create and withdraw a token, poll, visit | three parties read the lock, act on it and write it |
| Backup and restore (`backup.py`, `api/system.py`) | snapshot directories, the live database and its write-ahead log | run, verify, rotate, export, import, restore | two runs in one minute share a directory, a rotation removes what it listed before; a restore under a copy; a copy without the log |
| Log forwarding (`log_forward.py`) | current handler, its bounded queue, its worker thread | enqueue, send, replace, test | the worker opens a socket while the handler is closed |
| Log buffer (`logging_handler.py`) | queue, `app_logs` | enqueue, write, trim, stop | limits, shutdown |
| Accounts, sign-in and API keys (`api/auth.py`, `api/users.py`, `api/user_api_keys.py`, `auth/`) | `users`, keys, the browsers' tokens | sign in, by password, SAML or automatically; create, rename, delete; save keys | a token outlives the account; keys are filed under a name that changes, also between the request's two connections |
| Settings (`api/settings.py`, `pages/Settings.tsx`) | rows of `settings`, each open page's copy | load, reload silently, save | pages save whole copies, some of them stale |
| Dashboards, widgets, data API | none that is written by two parties | read-only reports | - |

### Agent (`src/agent`)

| Part | State it keeps | Operations | What is hard |
|---|---|---|---|
| Check-in loop (`internal/agentloop`, `internal/haosloop`, `internal/apiclient`) | config, batch in memory, `checkinNowCh` | check in, execute, report, refresh | lost answers, death, a nudge in mid-cycle |
| Control channel (`internal/terminal/terminal.go`) | session manager (current session, pty) | start, input, resize, stop, pump | output pump and reader are two goroutines |
| File transfer (`internal/terminal/file.go`) | one generation counter, one upload | list, download, upload | download goroutine outlives its session |
| Stop authorisation (`internal/config`, `internal/svcrun`, `cmd`, tray) | stop request and response files, unlock grant file | request, verify, grant, consume | single use of a grant among several signals, with systemd and an update as further senders |
| Commands, speed test (`internal/commands`, `internal/speedtest`) | the `running` flag | execute | manual and scheduled tests collide |
| Inventory, installers, tray UI | none shared | collect, install | pure I/O |

## 2. How the parts interact

The agent polls: `POST /api/agent/checkin` carries a snapshot and returns the
node's pending commands; each result goes back in a request of its own. A second,
permanent WebSocket carries `checkin_now` pushes and the terminal and file
sessions, which the server relays between one browser and the agent. The
database is the only state the request handlers share. Python's `sqlite3`
opens a transaction at the first DML statement, so SELECTs before it run on
their own and everything from the first write to `commit` is atomic; the models
use exactly these boundaries. The session hub is plain memory of one asyncio
process: code between two `await`s is atomic.

The alert engine and the clean-up loops are tasks of the same process with
connections of their own; they meet the request handlers only in the database.
The self-update ends the process, and with it everything that is not in the
database or on disk. On a node, three actors share `config.json`: the running
agent process, the installer and, through the control directory, the tray.
Browsers hold state of their own that the server does not see change: a token that
names an account, and a Settings page's copy of every setting. pktHub, an outside
service, reads and keeps half of the managed mode.

## 3. Modules

| Module | Models | Checked by | Proved |
|---|---|---|---|
| `CommandDelivery` | remote actions, from the queue to the recorded result | `command_delivery`, `command_refresh` | `CommandDelivery_proofs` |
| `CommandContract` | what that pipeline promises; refined by `CommandDelivery` | `command_delivery` (`KeepsContract`) | the refinement, in `CommandDelivery_proofs` |
| `SessionHub` | terminal and file sessions: hubs, WebSocket handlers, control channel, the agent's shells | `session_hub`, `liveness`, `session_input` | `SessionHub_proofs` |
| `ShellContract` | what a terminal promises; refined by `SessionHub` | `session_hub` (`KeepsShellContract`) | the refinement, in `SessionHub_proofs` |
| `FileTransfer` | file manager, download goroutines, relay, browser modal | `file_transfer`, `file_mixed` | `FileTransfer_proofs` |
| `Enrollment` | enrolment tokens, nodes, agent tokens, installer, config file, agent process | `enrollment`, `enrollment_restart` | `Enrollment_proofs` |
| `AlertEngine` | evaluations beside rule, import, group and node changes | `alert_engine` | `AlertEngine_proofs` |
| `SelfUpdate` | checks, automatic and manual updates, swap, restart | `liveness`, `update_unattended` | `Upkeep_proofs` |
| `ManagedMode` | suite token, lock, heartbeat, visitors, pktHub | `liveness` | `Records_proofs` |
| `LoginProtection` | account lockout and address throttle | `services` | `Guards_proofs` |
| `Resonance` | rate windows and circuit breaker of the Resonance widget | `services` | `Guards_proofs` |
| `Startup` | migrations, encryption of old secrets, first administrator, with kills and upgrades | `services` | `Upkeep_proofs` |
| `Backup` | backup runs, rotation, export, import, restore | `services` | `Records_proofs` |
| `LogForward` | log forwarder: handlers, queue, workers, replacement, test | `services` | `Upkeep_proofs` |
| `LogBuffer` | the table of recent log lines | `services` | `Upkeep_proofs` |
| `Accounts` | accounts, sessions, automatic and SAML sign-in, personal API keys | `services` | `Records_proofs` |
| `SettingsStore` | settings rows and the copies of open pages | `services` | `Records_proofs` |
| `AgentStop` | who may stop an agent: grants, signals, systemd, update, tray | `services` | `Guards_proofs` |

`MC*.tla` give the constants of these modules the values of the runs.
`MCServices` puts small modules that share no state side by side: a behaviour of
its `Spec` is a behaviour of one of them, while the others rest in an initial
state. `MCLiveness` does the same for the parts that must get something done in
the end. Each property therefore means the same as in a run of its own; the type
invariants of `MCServices` are checked as one, `ServicesTypeOK`, and those of
the parts of `MCLiveness` are theorems. Four modules are too large to be explored
whole, and are explored in parts, each with some of their actions (the comment above
`Next` in `MCServices` has the conditions): `limiter` and `breaker`; `backup` (runs
that overlap, beside a database at rest) and `export` (one run beside restores, imports
and an export); `default` (the flag of the default administrator), `signin` (no renaming)
and `keys` (password sign-ins, names that change); `tray` and `shell` (who asks for a
stop). What meets only across two parts is not model-checked; the theorems are about
the modules whole.

Definitions that begin with "A slip" or "The bug" in their comment are not used
by the specification. They are what a plausible mistake in the code would turn
the definition that follows into, and `PROJECT.json` lists which property each
of them breaks.

### 3.1 CommandDelivery

One node. `status` is the `commands` row, `req` the HTTP exchanges (a bounded
number of slots), `phase` with `todo`, `changed` and `stopping` the agent's loop
(`agentloop/loop.go: Run, checkinOnce`), `pushed` and `nudge` the `checkin_now`
message and the one-element channel behind it.

A request is two transactions, as in the code: `Authenticate` (the token lookup,
committed on its own by `get_current_node`) and `CommitCheckin` or
`CommitReport`. `CommitCheckin` reads every pending row and marks it `sent` in
one transaction (`Pending`, `MarkSent`). An answer may be lost (`Exchange` stays
`answered` with nobody waiting), a request may never arrive, the agent may die
anywhere; each of these counts as one of `MaxFaults`. What the agent does with a
batch (`Execute`, report, the refresh check-in after a container command, the
restart after `update_agent`) follows `checkinOnce`.

External assumption: an HTTP client gives up after its timeout, and the server
may still commit afterwards.

### 3.2 SessionHub

The server is one asyncio process, so every action of a handler runs from one
`await` to the next. `link` is an `AgentLink` with the coroutine that serves
it and the FIFO queue of its send lock, `tab` a browser socket with its
coroutine, `agent` the session managers and shells. The tab names the session:
`session_id` is a fresh UUID in the code. `SessionLife` says how far a terminal
session has come, from the place of its tab and the agent's shells: that is the
mapping under which the module refines `ShellContract`.

What a send on a broken socket does comes from the installed Starlette, not from
`src/`: it raises once the server itself has closed, raises or loses the frame
when the peer is gone and nobody has read the disconnect, and is skipped by the
code's own test of `client_state` after that (`TabSend`, `LinkSend`). `close()`
returns when the closing handshake is over; a `receive` that waits on the same
socket is woken first (`HandshakeOver`).

### 3.3 FileTransfer

`mgr` is `fileManager` of the current connection, `stream` the download
goroutine started for each tab, `disk` the files on the node by path. A download is three
steps per chunk, as in `streamDownload`: test the generation, read, send; `Stamped` gives
a frame the session that is current when it is sent, which is what `send` does. Frame
contents are chunk numbers. Both directions of the control channel are FIFO and
may be lost as a whole (`ChannelLost`).

An upload opens a path, and truncates what is there (`UploadStart`); when it is given up
the file that has its path is removed (`Discarded`). A request may list, remove any files
(`FileDelete`, which may fail half way) or rename one over another (`FileRename`). The open
file then goes on being written where it is, so `mgr` has the path it was opened under
and the one it has now (`upload`, `at`). A partial file whose upload has lost its channel
or its name is an "orphan": nothing in the code removes it. `UploadsAreWhole` says that a finished
upload has every chunk, and that only a frame of the current session takes it away
afterwards: another upload to its path, or a request; what ends an upload never does,
except for a file a rename has put in that upload's place. Renaming is POSIX's, which
replaces; on Windows it fails over an existing file. A tab uploads once, and requests come
from one tab: a late `download_done` unlocks the modal of a tab that is uploading, which
could then start a second upload beside the first; that is not modelled.

### 3.4 Enrollment

An attempt is one run of the installer; it names the UUID, token and secret it
may create. The enrol handler's steps are its two reads and its two
transactions (`ReadToken`, `FindNode`, `EnrollCommit` with `Counted`/`Spent`), since the first
transaction revokes old credentials and inserts the new ones, and only a later
`UPDATE` counts the use. Foreign keys and `UNIQUE` are conditions of the
commits (`ConstraintsHold`). A machine has its config file, its agent process
and one check-in handler; the scheduled speed test saves the configuration the process
holds (`SpeedtestEnds`). The use count of unlimited tokens, node status and
inventory are left out.

### 3.5 AlertEngine

`engine` is the evaluation in progress: the rules it has read, and for the rule
at hand the jobs it has found. Until its first write every `SELECT` sees the
database of its moment; then the transaction keeps other writers out until
`Commit` or `BreakOff` (the guard `CanWrite` of every other writer). The reads
of settings and overrides of one rule are one step. Readings are levels and thresholds
numbers compared with them; `Invalid` is a threshold that is no number. `ImportRules` is
the CSV import, which sets values without asking what the form would refuse
(`RuleValues`). `overrides` are rows in the order of their ids; saving one again keeps its
place (`Upserted`) and makes it the last saved (`saved`). The engine takes the last row
that sets a field (`LastSet`), the documents promise the one saved last (`Setting`): the
two agree as long as no override was saved again after a later one was added
(`SavedInOrder`), and `EventsFollowNodes` says that the events settle to the promise in
that case only. There is one evaluator, as the server is one process.

### 3.6 LoginProtection

`user` is the row of each account, `request` the requests in progress, each a
sequence of awaits: block test (`Arrive`), row and password (`Refuse`,
`CheckPassword`), count for the account, count for the address. `AfterFailure`
is the `UPDATE` of `record_failure`. Whether a password is right is a choice.
Time is `LockEnds`, `FailureAges`, `BlockEnds`, at any moment. The limits are
constants; both forms, sign-in and change-password, are modelled.

### 3.7 SelfUpdate

`setting` holds the `self_update_*` rows, `disk` the release each part of the
install comes from, `task` the checks, the "Update now" requests and the loop. A check
is its reads, the answer of GitHub and its write transaction (and for a 304 the
comparison before it); an apply is the read of the assets, the preparation
(download, unpack, packages), then removal and copy of each part, or nothing for a part
the archive does not hold (`Packed`, `SkipPart`), which stays as an earlier release left
it. `Wake` stands for a wake-up inside the window. Parts are three representatives in the
order of the swap: `docs`, which a release may lack, `VERSION`, the built frontend. Installs that refuse to
update themselves and the shown applied tag are left out.

### 3.8 Resonance

`call` holds the requests, `rate` the rows of `resonance_rate`, `breaker` the row
of `resonance_breaker`. Each statement of `limiter.py` that commits or reads is a step
of its own: `CountKnock` and `LetThrough`/`TooMany` are the two halves of `consume`,
`FindClosed`/`FindOpen` is `assert_closed`, `ReadFailures` and `WriteFailure` the two
halves of `record_failure`. A code passes its user's bucket, the one of all codes and the
breaker; a test passes a bucket and not the breaker, counts no failure, and its success
closes the breaker; a report passes a bucket. The end of a window is a choice of the
statement that counts, the end of a pause an action. `passed` counts for one bucket,
the constant `Watched`, which may be any. `MaxCount` and `MaxFailures` bound the two
counters. `BreakerIsHeeded` is three facts together: config failures open the breaker, it
opens after its threshold, and a pause is kept. Left out: who may ask for a code (a request that is refused before
`consume` changes nothing), the contents of a session, and the row of
`resonance_load_failures` that a report leaves.

### 3.9 Startup

A start is the sequence of `lifespan` and `init_db`: every script that has no marker is run
statement by statement, since `executescript` commits what came before and SQLite then
commits each statement alone; then its marker is written, and at the end old
secrets are encrypted, the administrator is seeded, and the server runs. A
script is a sequence of statements (create a table, add a column, build a table, copy
another into it, drop and rename), and a statement fails as SQLite would let it fail: a second
`ALTER TABLE ADD COLUMN` of the same name, a table that is there, one that is missing, a
copy whose rows the new table's foreign keys refuse (`loose`: `010_groups_table.sql:32` copies
overrides into a table that refers to `groups`, which has the groups some node is in).
Inserts and updates that no row can make fail are left out. `MCStartup` has one script
of each shape the migrations have. `MaxKills` kills fall between any two statements, an
upgrade brings the next script, and while the server is up rows become loose or not
(`EditRows`, for tables no script has bound yet).

`StartIsWhole` has two halves. A server that is up has every table and column of its
scripts and every secret under one encryption, except for what comes after a column in a
script that a kill cut (`CutOff`): there the error "duplicate column name" ends the second run of the script.
And a start that fails has no administrator and no password for one, or is at the rebuilding
of a table that a kill or a refused copy broke off (`Stuck`): the half-built table is
there, and `CREATE TABLE` fails at this and every later start. Everything else, kills
between a script and its marker and inside the other scripts included, the next start repairs.

### 3.10 ManagedMode

`lock` is the flag, its heartbeat and the address for redirects, `token` the stored suite
token, `visit` where each visitor's request is in the middleware, which reads the
flag, reads the heartbeat and writes the release in three steps. Open pages show,
generate and replace the token. pktHub is external: it locks and unlocks, polls
`/api/health` with the token it was given, takes what it is told into its own record and
may go away (`MaxOutages`). `LockFollowsHub` is two promises: a lock whose hub has gone,
or holds a token no longer accepted, ends unless the hub comes back (`NeverStranded`),
and the record of a hub that polls follows a release (`HubLearns`).

### 3.11 Backup

`job` holds the runs, each a thread: make the directory, copy, verify, copy `config.yaml`,
list what the rotation will remove, remove it directory by directory, report. Runs
started in the same minute share their directory, and the rotation goes by modification
times (`newer`). Between its listing (`ListOld`) and its removals (`RemoveOld`) any step of
another run may fall: that run may write into, verify and report a directory that is about to go, lose it
under its copy or its verification, or keep it alive against the removal; it answers
"ok" all the same. `listed` marks a run whose directory some rotation has on its list. Of a
database only its condition is kept: whole or damaged, whether commits are beside it in the
write-ahead log, and what is being copied over it: a restore writes over the live file in
two steps, and the backup API, which knows nothing of it, may copy a mixture
(`Overwriting`). `bundle` is an export. `UsableSnapshotStays`: a snapshot that a run reported
as usable while it was on no rotation's list stays there and whole until `Keep` other
directories have changed since or a damaged database was copied into it, whatever
fails, is killed or shares a directory. What a rotation listed before is excluded: that is
what the code loses.

### 3.12 LogForward and LogBuffer

`LogForward`: each handler has its bounded queue and a worker, the worker's socket, and
the moment between its test of the stop flag and its next connection; replacement closes
the handler in use without waiting for its worker and puts another in place, and a test
sends a line through a handler of its own. `CollectorSeesOrder`: what a collector gets of a
handler is in order and nothing twice, at most one line of it comes after the handler was
replaced, no record comes through two handlers, and a test that says ok has sent its
line. The network may lose a line; that UDP, the default, may also reorder or repeat
lines is left out, so the order is that of a TCP collector. `LogBuffer`: the queue, the thread that writes rows and trims, the page that
clears, and the stop at shutdown. `LogIsKept`: the table is in order and within its limit,
only the oldest rows were trimmed, and what was logged before a stop that ended is in the
table unless its write failed or it was trimmed or cleared.

### 3.13 Accounts

`users` are the rows, `session` what a browser's tokens say (an id and a role, no name),
`signin` a sign-in between its statements, `marking` the change of the
account for automatic sign-in between its check and its write, `key` the personal API
keys under their username, `asking` a request for keys between `get_current_user`, which
reads the row, and the statement on another connection that uses the username of that row
(`AskKeys`, then `ReadKeys`, `StoreKey` or `Choose`). pktHub is a caller too: it comes with the
suite token and names a user that need have no row (`AskForHub`). The history `person` tells
apart persons that had the same name or id one after the other, and `handed` collects the
usernames that passed from one account to another, by renaming or deleting, with keys or a
request under them (section 7). `AccountsStayApart`: at most one account has the
default flag, although it is checked before it is set; a session never passes from a
deleted account to a later one; and a user's request finds no key or choice of another
user under the name it read, unless that name is in `handed`. What pktHub stores is taken
for the named user's. Automatic sign-in reads its two settings in two statements, and so
may pass in the middle of a change from one method to the other.

### 3.14 SettingsStore

`row` is the table, `form` each open page: the answers on their way to its loads, the copy
it shows, and which fields were typed into since. An answer masks secrets, a page that
saves sends the mask back, and the handler then keeps what is stored. A click on Save
takes the payload (`Save`), the commit (`BulkUpdate`) and the answer that starts a load come later, and each
request may fail: a failed load leaves the typed copy without its dirty flag
(`LoadFails`). `SecretSurvives` is an action property: a stored secret changes only to what
had been typed into the page when its save was clicked, or is cleared by a page that sent
a blank. Edits that are lost (section 7) are what the code does; no property is about them.

### 3.15 AgentStop

A grant is a file: writing it is an open that empties it and a write, consuming it a read
and a removal, and whoever still has the removed file open writes to nothing (`linked`). The
process takes signals from a channel of one element (`signal`), judges each against the
grant (`judges`, `found`), and polls the control directory for the tray's requests; its
update exits by itself and leaves the restart to systemd. systemd is external: one SIGTERM
for a stop, no kill after a time, since the unit sets `TimeoutStopSec=infinity`, and
`Restart=always`. `OneStopPerGrant`: a grant ends at most one process, however many
signals, commands, requests and restarts overlap, and the status says "stopped" only after
such a stop and until the next process has checked in.

## 4. Runs, bounds, and what they show

| Run | Bounds | Why they are enough |
|---|---|---|
| `command_delivery` | a container command and an `update_agent`, two exchange slots, two faults | the refresh and the restart each need one command; two slots let a late request meet its successor; two faults lose both a hand-out and a result |
| `command_refresh` (violation) | two commands, no fault | the refresh check-in needs one command to run and one to receive |
| `session_hub` | two terminal tabs with two control channels of which one drops, or a file tab that may send a frame; one output frame (`Scene`) | one preemption, one channel that replaces another, one frame that is late; the file hub shares the channel and the send lock, so one frame of it is enough |
| `liveness` | sessions: two file tabs, one channel, one drop, one frame each way; updates: two releases, one check, one click, the loop, one setback; managed mode: two visitors, two pages, two tokens, one outage | the waiting chain is opener, victim, channel handler; one newer release is enough to be wrong about; a second token makes the first one's answers stale |
| `session_input` (violation) | three tabs, one keystroke | needs an exited tab and a later one |
| `file_transfer` | two tabs, one file of two chunks each way, two paths, one request that may list, remove or rename, one lost channel | two chunks tell a truncated file from a whole one; a superseded download needs two tabs, and so does an upload over a finished one; two paths let a rename put a finished file in the way of an upload |
| `file_mixed` (violation) | two tabs, two files of one chunk | the late frame |
| `enrollment` | one machine, three installer runs, a single-use token and an unlimited one that expires, one speed test | two enrolments race, a third comes after; more machines add nothing to a node's own row except a shared serial number |
| `enrollment_restart` (violation) | two runs, one token, one speed test | old process, new config |
| `alert_engine` | one node, in both groups at first, one rule of either kind, without overrides or with one of each group, two changes | two groups are needed to disagree; two changes fall anywhere in an evaluation, and one is enough to save the first group's override again |
| `services` | login: one account, one address, three requests, limits 2 and 4; Resonance: one user, two requests, every limit 1, transient threshold 3, `MaxCount` 2, `MaxFailures` 4; start-up: four scripts, one of them with a copy that loose rows make fail, two kinds of secrets, two kills; backup: two jobs, `Keep` 2, three minutes (beside restores and the export one job and two minutes), one mishap; forwarder: two handlers, a queue of two, three records; buffer: three rows, six records, two troubles; accounts: two names, two accounts, one browser, in the three parts of section 3; settings: one secret, two values, two editors, of which one at a time loads silently; agent stop: one command line, two grants, one kill | three requests overlap beyond the limit of 2; with limits of one, two requests overlap at every statement, across a window and a pause; a kill in a repair of a kill; one handler that replaces another; a third directory makes a rotation list the first; a name that passes from one account to another; two pages of which one is stale; a second grant that meets the leftovers of the first |
| `update_unattended` (violation) | as above without setbacks | - |

`UsableSnapshotStays` assumes nothing about how many runs overlap; it says nothing of a
directory that a rotation had on its list before the run on it reported.

What they show, in short:

- Commands: a command runs at most once whatever is lost or restarted; a result is recorded only for a command that ran; a row that never gets a result belongs to a lost exchange; statuses only advance; the pipeline refines `CommandContract`; pending commands are handed out by the interval alone, and by a nudge alone.
- Sessions: a tab only ever sees frames of its own session, the agent has one shell at most, a session gets one at most and never again (the hub, the channels and the agent refine `ShellContract`), the registry holds the newest channel, preempting tabs and dead channels do not wait for each other.
- Files: `upload_done` means every chunk is there; a finished upload goes only when the current session uploads over it, removes or renames something; a superseded download leaks one frame at most; a tab that is alone saves what it asked for.
- Enrolment: a single-use token enrols one node although uses are counted with a stale value; one valid credential per node; no installed agent is locked out except as the property lists.
- Alerts: never two open events of a rule and node; with evaluations and changes overlapping, events settle to what the documents' override chain says, unless an override was saved again after a later one was added.
- Login: no failure is lost, guesses are bounded, only an administrator ends the lock without an end, a blocked address stops counting but for requests under way.
- Updates: an install has all that one release packs unless a swap was cut off or met another; automatic mode installs the newest release as long as pages are opened.
- Managed mode: a lock whose hub has gone ends with the next visit after the heartbeat has aged, whatever the visitors and pages do; a hub that goes on polling has a true record.
- Start-up: kills, upgrades and restarts leave a server that runs with a whole schema and encrypted secrets; what a kill inside a script can cost is what follows an added column, and only a broken-off or refused rebuilding of a table keeps a server with an administrator from starting.
- Backup: neither a failed or killed run, nor an overlap, nor a restore costs a usable snapshot before its turn, unless a rotation had listed it before it was reported.
- Logs: a collector sees records in order and once, across replacements; a stop loses no line that was logged before it.
- Accounts: no session passes to another person, and no request finds another user's key, whatever is renamed, deleted or created meanwhile, unless the username it goes by passed on with keys or a request under it.
- Settings: no page, however stale, and no failing or late request stores a mask as a secret or brings a secret back.
- Agent stop: one grant ends one process at most, among command line, tray, update, systemd and kills.
- Resonance: a window, the two thresholds and a pause are each exceeded by no more than the requests that overlap.

`CHECK_DEADLOCK FALSE` stands where the bounds let the system come to rest: all
tabs used up, all attempts made.

## 5. Fairness

- `CommandDelivery.Progress`: the server goes on with a request, the agent's goroutines run, a nudge that has arrived is taken, the service manager restarts the process (`Restart=always` in the unit). A closed `stopCh` is taken in the end (strong fairness): Go's `select` picks at random among its ready cases. `IntervalElapses` is a condition of the one property that needs the timer. Nothing is assumed about queueing, administrators or faults.
- `SessionHub.Fairness`: asyncio resumes every coroutine that can go on, closes time out, a channel handler reads what has arrived. A tab leaves by itself only after the server has closed it: nobody has to close a browser.
- `AlertEngine.FairSpec`: the loop goes on (its own `try` catches everything), and each evaluation takes its next step. Check-ins and changes are not fair.
- `SelfUpdate.UpdateFairness`: tasks go on and the loop wakes up inside the window, which is true of windows of an hour or more, the loop's period. Opening a page is not fair; `AutoModeUpdates` states it as a condition.
- `ManagedMode.ManagedFairness`: a request that was accepted is handled, pktHub polls while it is up, a heartbeat ages while nobody refreshes it, and visitors come now and then. Locking, unlocking, tokens, outages and returns are not fair.

In `MCLiveness` only one part moves in a behaviour, so the fairness of each stands in its
property: `HandlersFinishInHub`, `AutoModeUpdatesServer` and `LockFollowsPolls` read
"this part moves and its fairness holds, so its promise is kept".

## 6. Proofs

`tlapm` proves, for every value of the constants:

- `CommandDelivery_proofs`: `TypeOK`, `AtMostOnce`, that results follow runs and statuses only advance (`RecordedAfterRun`, `StatusAdvances`), and the refinement of `CommandContract`. The invariants say nothing of commands on their way, so none is inductive. `CustodyInv` follows a command through its custodians: not yet inserted (`Absent`), in the batch of exactly one exchange (`Held`, `HeldOnce`), in the agent's batch (`Batch`: sent and not run), run and in one report at most (`Counted`, `OneEach`). `Waiting` says who waits for an answer, which is what makes an answered batch the agent's only one. The refinement maps a command's state to its custodian, and shows step by step that each action is a step of the contract or a stutter. `SentIsAccountedFor` needs `Accounting`: an answer that is on its way carries its batch, and only an agent that executes or reports has commands in its batch.
- `FileTransfer_proofs`: `TypeOK`, `UploadsAreWhole` and `DownloadsStayApart`, for any tabs, files, paths, chunks, requests and losses of the channel. Three facts about the frames in flight make `TransferInv`. `UploadFits`: there is a numbering of the frames to the agent under which the upload frames of a tab are consecutive, from the chunks the agent has written to what the tab has sent, so that a finished file has every chunk. `DiskFits` ties the partial file on disk, if there is one, to the open upload and the path a request has left it at: what is given up is that file, and a finished one is taken only by the frames the property names. `StreamFits`: a tab asks for its download once, in a frame on its way, at the agent, or by a stream that exists, never two of these; a stream of an older generation has sent at most the one frame that was due when it was superseded. `AloneFits`: while no second tab has been opened, generation and session are the tab's own, and the chunks on their way to it continue what it has got and end where its stream is (`ChunksFit`, `SourceFits`). The numbering is a function that the proof produces anew for every step, because a recursive count of the queue could not be reasoned about.
- `Enrollment_proofs`: `TypeOK`, `SingleUseToken`, `AgentTokenIsCurrent`, `InstalledAgentIsKnown`. `Types` adds to the type invariant that handlers, files and processes only name attempts and nodes that exist (`Named`, `Visiting`, `Saved`, `Loaded`). Single use follows from the foreign key: the second enrolment writes a row that refers to the deleted token. `InstalledAgentIsKnown` needs `InstallInv`: one installer at a time waits on a machine (`OneInstaller`), what it has saved is on disk (`SavedIsOnDisk`), and no other installer that came to its end there enrolled the node after the credentials in use (`LatestIsLast`); `Fates` says what any step may do to one attempt.
- `Guards_proofs`, login protection: all five properties of the module, for any number of accounts, addresses, requests and any limits. `Counted` (the failures are in the row, and fewer than the limit since the last lockout) is inductive with the type invariant. `Guessing` adds the ladder (two lockouts lock without an end) and counts the requests that have read the row already, `Throttling` those that have passed the block test: both need finite cardinalities.
- `Guards_proofs`, Resonance: `RateIsBounded` and `BreakerIsHeeded`, for any users, limits and overlapping requests, and whichever bucket is watched. Each bound counts the requests that may still add to it: `RateInv` those counted and not yet let through (while the count has not passed the limit; afterwards nobody is), `HeedInv` those that have read a count of zero, which no later request can read before a success, `PauseInv` those that found the breaker closed, among which the one that opens it is not.
- `SessionHub_proofs`: `TypeOK`, `OutputStaysInSession`, `OneShell`, `NewestLinkRegistered`, for any number of tabs, control channels and frames. `HubInv` adds what the handlers know between two awaits: a handler that waits to relay a frame holds the tab of the frame's own session, although the slot may have been taken over meanwhile (`Paired`); a channel that was never opened has no handler and no later channel (`Unopened`), so the one that connects is the newest; and only a stop may name no session (`GoodFrame`), so every shell the agent starts is some tab's. What the tabs and openers do to the slots is not restricted at all: these properties hold through the races of section 7. `ImplementsShellContract` is the refinement of `ShellContract`, under the mapping `Lives` of a tab's place and the agent's shells to the life of a session. `HubInv` is not enough for it: one shell at a time says nothing of a session that gets a second one later. `SessionsInv` adds where the start of a session may be. A coroutine waits for one send at a time (`Sends`), so the start is in one queue and then on one channel; and while it has not been sent, or is on its way, its session has no shell yet (`Fresh`). With that, a start that arrives is a `Start` of the contract, a lost channel its `Lose`, the end of a shell its `End`, and every other action opens a session or is a stutter.
- `Records_proofs`, accounts: `AccountsStayApart`, for any names, browsers and number of accounts. `AccountsInv` adds to it that every row carries the id it was created with and that ids are not used again (`RowsAreNumbered`), so that a session which names an id names its person or nobody. A request for keys uses a username whose row may have changed since, so the keys cannot be tied to the rows alone: `KeysAreOwn` says of a name outside `handed` that all who hold it are one user, where holding is having a row of that name, having stored or chosen something under it, or having a request under way that may yet do so. `OneRowChanges` is the common part of every handler that writes one row.
- `Records_proofs`, settings: `SecretSurvives`, for any fields, values and pages. The invariant `ShowsAnswers` says what a copy can hold of a secret: the mask, a blank, or what was typed into this page, because no answer, however late, carries the value; and the same of what a page has sent to be saved, and of what had been typed when it was (`IsAnswered`, for both).
- `Records_proofs`, backup: the types, and `UsableSnapshotStays` for any number of overlapping runs, directories, exports, restores, kills and failing copies, and any `Keep`. `BackupInv` follows two kinds of directories: that of every run which is on no rotation's list is there, and holds what the run has copied (`RunsFit`), and that of the last report is there, whole or known to be spoiled (`PastFits`). A rotation removes only what it has listed (`Doomed`), and lists only what `Keep` others are newer than. Those newer than the reported directory have all changed since the report, so it is not listed before `Keep` others have changed (`NotItsTurn`).
- `Records_proofs`, managed mode: the types; its promises are liveness and stay with TLC.
- `Guards_proofs`, agent stop: `OneStopPerGrant`, for any command lines, grants and kills. `GrantsFit` is the heart of `StopInv`: a grant in the file, or read and not yet judged, has ended nobody. It holds although the file is emptied, rewritten and removed by several parties, since only an open file can be written and a removal detaches its writers. `StopsFit` ties the flag "stopped" to an agent that has ended or has not checked in since.
- `AlertEngine_proofs`: `TypeOK` and `OneOpenEvent`, for any nodes, rules, groups and changes. `TypeInv` gives the evaluation's record field by field, and an override table has one row of a group whatever is saved, imported or deleted. `EventInv` says of the table and of the open transaction's view of it that no rule has two open events for a node; it is kept because there is one evaluation, and what others commit while it reads only removes or resolves events.
- `Upkeep_proofs`, start-up: `StartIsWhole`, for any list of scripts, kinds of secrets and kills, and whatever rows administrators leave. `StartupInv` explains every table that is missing: it is there under the temporary name of its rebuilt form (`Present`, `Lost`), which happens only while its script runs, or after a kill cut that script or loose rows made its copy fail (`RebuildsWait`, `Broken`), and then no later script has run. A column that is there while its script is not marked means that the script is past it, or had run to its end before the kill (`ColumnsTell`), unless the script was cut: then what follows the column may be missing (`CutOff`), and nothing else. The theorem rests on two assumptions about the scripts, `RebuildAssumption` and `NamesAssumption`, which the files in `src/migrations` satisfy: a table is rebuilt by create, copy, drop and rename in a row in a script that adds no column (010, 011), and the names of columns and of tables being built occur once. They leave out the table that 003 makes and 015 drops for good.
- `Upkeep_proofs`, self-update: `InstallIsWhole`, for any parts, versions, tasks and contents of the archives. `DiskInv` says that as long as nothing was spoiled one task swaps at most, that what it has passed and its release packs is of that release (`SwappedOver`), and that all some release packs is there when nobody swaps.
- `Upkeep_proofs`, log buffer: `LogIsKept`. Table, batch and queue are one run of records in the order of logging, later than what was trimmed (`RecordsInOrder`), none disappears unaccounted for (`NothingVanishes`), and after its last drain the thread leaves nothing queued that was logged before stop (`ThreadFits`).
- `Upkeep_proofs`, log forwarding: `CollectorSeesOrder`, for any number of handlers and records. `ForwardInv` orders what arrived, the line in hand and the queue of each handler (`LinesFit`), keeps the records of two handlers apart, and counts the one line that a worker may still send after its handler was replaced (`WorkFits`).

The assumptions are the named `ASSUME`s of the modules; every one is evaluated
by TLC in a passing run.

Only model-checked: everything with fairness (liveness is out of the provers'
reach). `ServicesTypeOK` puts the type invariants of
several modules side by side; those of `SelfUpdate`, `Startup`, `LogBuffer`,
`LogForward`, `LoginProtection`, `Resonance`, `Accounts`, `SettingsStore`,
`Backup`, `ManagedMode` and `AgentStop` are proved by themselves.

## 7. Where the code and its documents differ

Each of these was met while translating the code. The first five are runs that
TLC refutes; `PROJECT.json` quotes both sides under `findings`.

| Where | The code | The text |
|---|---|---|
| `agentloop/loop.go:235` | commands a refresh check-in receives are marked `sent` and never run | comment at 229-231: left for the next cycle |
| `terminal_hub.py:182` | input goes to the current session, whichever tab sends it | comment at 40-41 |
| `terminal/file.go:280` | a late chunk is stamped with the new session | comment at 257-259 |
| `agentloop/loop.go:269` | the old process saves its old config over a reinstall's | `svcinstall_linux.go:88-92` |
| `self_update.py:445` | the hourly loop never asks GitHub | `docs/ADMIN_GUIDE.md:267-268`, `274-275` |
| `terminal_hub.py:148`, `153` | a slot taken during the awaits of an opener is overwritten without notice; the late `stop_session` of one tab clears the session of a later one | `README.md:474-475` |
| `terminal_hub.py:149` | a tab that is preempting while the channel drops takes the slot of a dead link and waits for ever | `README.md:475-478`: it does not hang |
| `api/agent.py:614` | a failing send to a browser ends the agent's control channel | - |
| `NodeDetail.tsx:706` | the modal stays locked after an error answer | the comment at 642-644 |
| `terminal.go:116` | the partial upload of a lost channel stays on the node | `file.go:81` removes partial files |
| `file.go:134` | an upload to the path of a finished file truncates it at once, and removes it when it fails: both are lost | - |
| `file.go:81` | what is removed is what has the upload's path by then: a file renamed there is lost, the partial one renamed away stays | - |
| `NodeDetail.tsx:689` | a late `download_done` stamped with a new session unlocks its modal in the middle of an upload | comment at 642-644 |
| `api/agent.py:347-351` | the first check-in deletes the token a node enrolled with, also an unlimited one | `docs/ADMIN_GUIDE.md:71`, comment at 157-159 |
| `api/agent.py:150` | parallel enrolments can exceed a use limit of two or more | - |
| `api/agent.py:104` | a node found by serial number may have become active before it is written | comment at 97-99 |
| `api/agent.py:366` | a check-in that authenticated before a decommissioning makes the node `online` again and writes its inventory | `nodes.py:283-301` |
| `nodes.py:353` | deleting a node erases its resolved alert events too (`ON DELETE CASCADE`) | comment at 345-351 |
| `alerts/engine.py:135` | an event for a node or rule deleted during the evaluation is inserted (no foreign keys on this connection) and never resolved | `docs/ADMIN_GUIDE.md:185` |
| `alerts/engine.py:240` | events of nodes without a reading, or of a disabled rule, stay open when the alert is turned off | `README.md:727`, docstring at 28 |
| `alerts/engine.py:116` | of two groups that disagree the row inserted last wins; an override that is saved again keeps its row (`api/groups.py:131-139`) | docstring at 19-21, `README.md:753-757`, `docs/ADMIN_GUIDE.md:181`: the most recently saved |
| `alerts/engine.py:239` | one enabled rule with a threshold that is no number stops every evaluation | - |
| `auth/lockout.py:10` | a request that read the row before the lock still has its password checked and accepted; a burst of twice the limit goes straight to the lock without an end | `lockout.py:6-11`, `docs/ADMIN_GUIDE.md:37` |
| `auth/throttle.py:80` | failures of requests that were under way count during a block | comment at 82 |
| `self_update.py:315` | a swap that is cut off after `VERSION` leaves two releases mixed, seen as up to date; two applies may overlap | docstring of `apply_update` |
| `limiter.py:133` | failures that overlap write the same count, so more than two bad-key calls may leave the breaker closed; a write that read before a success brings the old count back | `limiter.py:14-15`: the breaker opens after two |
| `limiter.py:142` | a transient failure that is written last gives a breaker opened for 300 s by a config failure a pause of 30 s | - |
| `self_update.py:318` | a part the release does not pack is left as an earlier release had it | docstring of `apply_update` |
| `self_update.py:424` | the flag is not compared again before an automatic apply, so a release installed by hand can be replaced by an older one | - |
| `migrations/010_groups_table.sql:32` | an override of a group that no node is in fails the foreign key of the copy; the start fails, and every later one fails at the table it has left behind, although nothing was killed | `database.py:28`: safe to call multiple times |
| `database.py:28` | a kill inside a script: 013 and 021 leave what follows the repeated column unmade and are marked as run, 010 and 011 fail at every later start | docstring: safe to call multiple times (idempotent SQL) |
| `main.py:387-390` | the cookies for the page compare with the token read at import; a regenerated token gets them only after a restart | `api/suite.py:178-179`: applies without a restart |
| `main.py:255` | a visitor who read an old heartbeat releases a lock that pktHub has set since | `api/suite.py:243-244`: a fresh lock starts fresh |
| `api/system.py:201` | the export copies the database file without its write-ahead log | `backup.py:73-81` says why a run does not |
| `api/system.py:281` | a restore replaces the live file and leaves the old write-ahead log beside it | - |
| `backup.py:126` | the rotation counts snapshots whose verification failed, and directories that a later run made anew | `backup.py:114` |
| `backup.py:128-136` | a rotation removes a directory it listed, although another run has written, verified and reported it meanwhile, or has lost it under its copy; that run answers "ok" | - |
| `api/system.py:281` | a restore copies over the live file without SQLite's locks, also while a backup or an export reads it | comment at `backup.py:73-81` |
| `logging_handler.py:141` | the full table is trimmed to 9,999 rows | `logging_handler.py:9`, `27`: 10,000 |
| `api/logs.py:171` | a capture level below the one at start-up has no effect on loggers with a level of their own | `logging_handler.py:68-69` |
| `log_forward.py:133` | the default protocol, UDP, may reorder or repeat lines | - |
| `log_forward.py` | a test may report "not ok" although its line is sent later, and blocks the event loop for up to two seconds; of two reloads the one that read the settings first may come last | - |
| `main.py` | "Shutdown complete" is logged after the buffer has stopped and is never stored | - |
| `user_api_keys.py:91` | keys are found by username: a renamed user loses them, and a later user of the name finds them; a request that read the name before it changed hands stores, or reads, under it afterwards (`dependencies.py:38`); pktHub may name any user | docstring at 5: only their own keys |
| `api/auth.py:154` | automatic sign-in reads its two settings in two statements, and may find both methods off although at every moment one was on | docstring at 147-152 |
| `api/auth.py` | the token of a SAML sign-in carries the role from before the synchronisation; automatic sign-in takes the marked account whatever its role is by then | - |
| `Settings.tsx:1337` | the silent load tests for edits before its `await`, so its answer overwrites what was typed meanwhile; an answer that comes late overwrites a newer one; what is typed between a click on Save and its answer is lost, and after a failed load what was typed no longer counts as an edit | - |
| `api/settings.py` | a page whose copy of a secret is still blank clears one that was set since | - |
| `api/system.py:69` | the manual clean-up deletes alert events before the notifications that refer to them | - |
| `api/alerts.py:335` | a time window such as `--5` passes the test for digits, and the whole import fails | the rows around it are skipped one by one |
| `svcrun_unix.go` | after a `systemctl stop` without a grant the unit stays in `deactivating`; unlocking and stopping again sends no second SIGTERM, and an update then ends the agent for good | `README.md:599-604`, `svcinstall_linux.go:166` |
| `config.go:107` | a grant that is written between the agent's read and its removal is lost; one left over lets the next process be stopped for two minutes | - |
| `cmd/pktnode-tray` | the tray reads an answer left over from an earlier request, and quits while an update restarts the agent | - |
| `api/system.py:484` | certificates are stored, and `server.py` starts uvicorn without them; certificate and key are written one after the other | comment at 484-486, `settings.py:111-114` |

All but the first five rows come from reading the code beside the models; where a
property excludes such a case, its comment says so.

## 8. What is not modelled, and why

Read-only reports (`resonance_data.py`, `widgets.py`, `dashboard.py`), proxies to
outside services, inventory collection, rendering and shell scripts keep no
state that steps of two actors could disagree about. Token encoding, SAML signatures
and TOTP codes are computations of libraries: a code is right or wrong, by choice.
Certificates are stored and never used (section 7). Of the agent's three service
managers only systemd is modelled; launchd and the Windows service control manager
stop and restart in ways of their own, which `src/` shows only in part.
`PROJECT.json` lists every part with its reason.

## 9. Plan

Done: every module of section 3. Left, in order of importance:

1. Safety of `ManagedMode` beside its types and its liveness: what a visitor's release may undo who read the heartbeat before pktHub locked anew.
2. `BrowserSession`: parallel requests of one page that find the access token expired, and a logout meanwhile. `HomeAssistant`: the second check-in loop and its re-enrolments.
3. Compositions: `Enrollment` with `CommandDelivery` (a command queued for a node that is decommissioned and revived); `SessionHub` under `FileTransfer` (the relay with the hub's races instead of a FIFO); `Backup` under `Startup` (a restore of an older schema).
4. Abstract specifications: `WholeFile` (absent, partial, complete) refined by `FileTransfer`.
