----------------------------- MODULE SelfUpdate ------------------------------
(***************************************************************************)
(* The server's self-update (src/app/self_update.py and the handlers of    *)
(* src/app/api/system.py): checks ask GitHub for the latest release and    *)
(* record it; an hourly loop in automatic mode, or an administrator,       *)
(* downloads the recorded release, swaps it in part by part and ends the   *)
(* process, which the service manager starts again.                        *)
(*                                                                         *)
(* All of them are coroutines of one process.  A check may be answered     *)
(* late, two applies may overlap, and the end of the process cuts off      *)
(* whatever else is running.                                               *)
(***************************************************************************)
EXTENDS Naturals, Sequences, Functions

CONSTANTS
    Parts,        \* the parts of an install in the order they are swapped
    MaxVersion,   \* bound: releases published; release 1 is installed
    Packed,       \* per release: the parts its archive holds; some may be left out
    Checks,       \* checks in progress: banner, Settings page
    Clicks,       \* "Update now" requests in progress
    Loop,         \* the hourly loop
    MaxSetbacks   \* bound: failing steps and crashes

ASSUME UpdateAssumption ==
    /\ Parts \in Seq(STRING) /\ "VERSION" \in Range(Parts) /\ IsInjective(Parts)
    /\ MaxVersion \in Nat \ {0} /\ MaxSetbacks \in Nat
    /\ \A v \in 1 .. MaxVersion : Packed[v] \subseteq Range(Parts) /\ "VERSION" \in Packed[v]
    /\ Loop \notin Checks \union Clicks /\ Checks \intersect Clicks = {}

Tasks    == Checks \union Clicks \union {Loop}
Versions == 1 .. MaxVersion
NoRelease == 0    \* no release, a missing file

VARIABLES
    upstream,  \* the newest release on GitHub
    disk,      \* the release each part comes from
    setting,   \* self_update_*: mode, cached, latest, available
    task,
    spoiled,   \* history: a swap was broken off, or two were in progress
    setbacks

updateVars == <<upstream, disk, setting, task, spoiled, setbacks>>

-----------------------------------------------------------------------------
\* Data

SettingSet == [mode : {"manual", "auto"}, available : BOOLEAN,
               cached : Versions \union {NoRelease},   \* release and ETag of the last 200
               latest : Versions \union {NoRelease}]   \* with its assets
Applying == {"assets", "download", "swap"}
TaskSet == [stage : {"idle", "asked", "answered", "unchanged", "judged", "recorded", "leaving"}
                      \union Applying,
            release : Versions \union {NoRelease}, newer : BOOLEAN,
            asset : Versions \union {NoRelease},
            swapped : 0 .. Len(Parts), removed : BOOLEAN]
Resting == [stage |-> "idle", release |-> NoRelease, newer |-> FALSE, asset |-> NoRelease,
            swapped |-> 0, removed |-> FALSE]

UpdateInit ==
    /\ upstream = 1
    /\ disk = [p \in Range(Parts) |-> 1]
    /\ \E mode \in {"manual", "auto"} :
         setting = [mode |-> mode, available |-> FALSE, cached |-> NoRelease, latest |-> NoRelease]
    /\ task = [t \in Tasks |-> Resting]
    /\ spoiled = FALSE
    /\ setbacks = 0

\* current_version: 0.0.0 when the file is missing.
Current == disk["VERSION"]

\* A slip: the frontend, which is not on the list, is not swapped.
SwappedAllButLast(t) == task[t].swapped >= Len(Parts) - 1

SwappedAll(t) == task[t].swapped = Len(Parts)

\* The archive that a task swaps in holds the part with this number.
Packs(t, i) == Parts[i] \in Packed[task[t].asset]

\* Between its first removal and its last copy.
Swapping(t) ==
    /\ task[t].stage = "swap"
    /\ task[t].removed \/ \E i \in 1 .. task[t].swapped : Packs(t, i)
    /\ \E i \in task[t].swapped + 1 .. Len(Parts) : Packs(t, i)

At(t, stage) == task[t].stage = stage
Goto(t, stage) == task' = [task EXCEPT ![t].stage = stage]

-----------------------------------------------------------------------------
\* check_latest, alone or as the first half of apply_now

\* A page is opened or a button pressed.  The ETag and the release it belongs to
\* are read first; the ETag goes along with the request.
Ask(t) ==
    /\ t \in Checks \union Clicks
    /\ At(t, "idle")
    /\ task' = [task EXCEPT ![t] = [Resting EXCEPT !.stage = "asked", !.release = setting.cached]]
    /\ UNCHANGED <<upstream, disk, setting, spoiled, setbacks>>

\* GitHub answers 304 for the release of that ETag, otherwise with the newest one.
Answer(t) ==
    /\ At(t, "asked")
    /\ task' = [task EXCEPT ![t].stage = IF task[t].release = upstream
                                           THEN "unchanged" ELSE "answered",
                            ![t].release = upstream]
    /\ UNCHANGED <<upstream, disk, setting, spoiled, setbacks>>

\* A check ends; apply_now goes on.
AfterCheck(t) == IF t \in Clicks THEN [Resting EXCEPT !.stage = "recorded"] ELSE Resting

\* A slip: a newer release is recorded but not flagged as available.
RecordedUnflagged(v, newer) ==
    [setting EXCEPT !.latest = v, !.available = FALSE]

Recorded(v, newer) ==
    [setting EXCEPT !.latest = v, !.available = newer]

\* A new release: the first of its writes keeps every other writer out.
RecordNew(t) ==
    /\ At(t, "answered")
    /\ setting' = [Recorded(task[t].release, task[t].release > Current)
                     EXCEPT !.cached = task[t].release]
    /\ task' = [task EXCEPT ![t] = AfterCheck(t)]
    /\ UNCHANGED <<upstream, disk, spoiled, setbacks>>

\* 304: the release is the one read with the ETag, and it is compared with the
\* installed version before anything is written.
Judge(t) ==
    /\ At(t, "unchanged")
    /\ task' = [task EXCEPT ![t].stage = "judged", ![t].newer = task[t].release > Current]
    /\ UNCHANGED <<upstream, disk, setting, spoiled, setbacks>>

RecordUnchanged(t) ==
    /\ At(t, "judged")
    /\ setting' = Recorded(task[t].release, task[t].newer)
    /\ task' = [task EXCEPT ![t] = AfterCheck(t)]
    /\ UNCHANGED <<upstream, disk, spoiled, setbacks>>

\* GitHub is not reached, or refuses.
CheckFails(t) ==
    /\ At(t, "asked")
    /\ setbacks < MaxSetbacks
    /\ setbacks' = setbacks + 1
    /\ setting' = [setting EXCEPT !.available = FALSE]
    /\ task' = [task EXCEPT ![t] = AfterCheck(t)]
    /\ UNCHANGED <<upstream, disk, spoiled>>

-----------------------------------------------------------------------------
\* Applying

\* maybe_apply, at a wake-up inside the window.
Wake ==
    /\ At(Loop, "idle")
    /\ setting.mode = "auto" /\ setting.available
    /\ Goto(Loop, "assets")
    /\ UNCHANGED <<upstream, disk, setting, spoiled, setbacks>>

\* apply_now, after its check.
Decide(t) ==
    /\ At(t, "recorded")
    /\ Goto(t, IF setting.available THEN "assets" ELSE "idle")
    /\ UNCHANGED <<upstream, disk, setting, spoiled, setbacks>>

ReadAssets(t) ==
    /\ At(t, "assets")
    /\ task' = [task EXCEPT ![t].stage = "download", ![t].asset = setting.latest]
    /\ UNCHANGED <<upstream, disk, setting, spoiled, setbacks>>

\* Download, unpack and verify, then install the Python packages: the running
\* code is not touched yet.
Prepare(t) ==
    /\ At(t, "download")
    /\ Goto(t, "swap")
    /\ UNCHANGED <<upstream, disk, setting, spoiled, setbacks>>

NextPart(t) == Parts[task[t].swapped + 1]

\* _swap_in, one part: one that the archive does not hold is left as it is.
SkipPart(t) ==
    /\ At(t, "swap") /\ ~SwappedAll(t) /\ ~task[t].removed
    /\ ~Packs(t, task[t].swapped + 1)
    /\ task' = [task EXCEPT ![t].swapped = @ + 1]
    /\ UNCHANGED <<upstream, disk, setting, spoiled, setbacks>>

\* Of the others, what is there is removed, then the new part is copied.
RemovePart(t) ==
    /\ At(t, "swap") /\ ~SwappedAll(t) /\ ~task[t].removed
    /\ Packs(t, task[t].swapped + 1)
    /\ disk' = [disk EXCEPT ![NextPart(t)] = NoRelease]
    /\ task' = [task EXCEPT ![t].removed = TRUE]
    /\ spoiled' = (spoiled \/ \E u \in Tasks \ {t} : Swapping(u))
    /\ UNCHANGED <<upstream, setting, setbacks>>

CopyPart(t) ==
    /\ At(t, "swap") /\ task[t].removed
    /\ disk' = [disk EXCEPT ![NextPart(t)] = task[t].asset]
    /\ task' = [task EXCEPT ![t].removed = FALSE, ![t].swapped = @ + 1]
    /\ UNCHANGED <<upstream, setting, spoiled, setbacks>>

\* The state is recorded, with a tag that was read apart from the assets and is
\* only shown; the process is about to end.
Finish(t) ==
    /\ At(t, "swap") /\ SwappedAll(t)
    /\ setting' = [setting EXCEPT !.available = FALSE]
    /\ task' = [task EXCEPT ![t] = [Resting EXCEPT !.stage = "leaving"]]
    /\ UNCHANGED <<upstream, disk, spoiled, setbacks>>

\* A failed apply leaves the record as it is, so the loop tries again.
ApplyFails(t) ==
    /\ task[t].stage \in Applying
    /\ setbacks < MaxSetbacks
    /\ setbacks' = setbacks + 1
    /\ task' = [task EXCEPT ![t] = Resting]
    /\ spoiled' = (spoiled \/ Swapping(t))
    /\ UNCHANGED <<upstream, disk, setting>>

-----------------------------------------------------------------------------
\* The process, GitHub and administrators

\* os._exit and the restart: every other task is cut off where it is.
Restart ==
    /\ task' = [t \in Tasks |-> Resting]
    /\ spoiled' = (spoiled \/ \E t \in Tasks : Swapping(t))
    /\ UNCHANGED <<upstream, disk, setting>>

Leave(t) == At(t, "leaving") /\ Restart /\ UNCHANGED setbacks

Crash ==
    /\ setbacks < MaxSetbacks
    /\ setbacks' = setbacks + 1
    /\ Restart

Publish ==
    /\ upstream < MaxVersion
    /\ upstream' = upstream + 1
    /\ UNCHANGED <<disk, setting, task, spoiled, setbacks>>

\* save_config.
SetMode ==
    /\ \E mode \in {"manual", "auto"} \ {setting.mode} :
         setting' = [setting EXCEPT !.mode = mode]
    /\ UNCHANGED <<upstream, disk, task, spoiled, setbacks>>

Apply(t) ==
    \/ ReadAssets(t) \/ Prepare(t)
    \/ SkipPart(t) \/ RemovePart(t) \/ CopyPart(t) \/ Finish(t) \/ Leave(t)

Check(t) == Answer(t) \/ RecordNew(t) \/ Judge(t) \/ RecordUnchanged(t) \/ Decide(t)

UpdateNext ==
    \/ \E t \in Tasks : Ask(t) \/ Check(t) \/ CheckFails(t) \/ Apply(t) \/ ApplyFails(t)
    \/ Wake \/ Crash \/ Publish \/ SetMode

\* The server keeps running: every task goes on and the loop wakes up inside the
\* window.  Nobody has to open a page or press a button.
UpdateFairness ==
    /\ \A t \in Tasks : WF_updateVars(Check(t)) /\ WF_updateVars(Apply(t))
    /\ WF_updateVars(Wake)

UpdateSpec == UpdateInit /\ [][UpdateNext]_updateVars /\ UpdateFairness

-----------------------------------------------------------------------------
\* Properties

UpdateTypeOK ==
    /\ upstream \in Versions
    /\ disk \in [Range(Parts) -> Versions \union {NoRelease}]
    /\ setting \in SettingSet
    /\ task \in [Tasks -> TaskSet]
    /\ \A t \in Tasks : task[t].stage \in {"download", "swap"} => task[t].asset \in Versions
    /\ spoiled \in BOOLEAN
    /\ setbacks \in 0 .. MaxSetbacks

\* All that the release v packs is there.
Installed(v) == \A p \in Packed[v] : disk[p] = v

\* Unless a swap was broken off or met another, the server runs one release and
\* not parts of two (apply_update: "never partially overwrites install_dir");
\* what that release does not pack may be an earlier one's.
InstallIsWhole ==
    (~spoiled /\ \A t \in Tasks : ~Swapping(t)) => \E v \in Versions : Installed(v)

\* In automatic mode the newest release gets installed, as long as someone opens
\* the application from time to time, which is what makes the server ask GitHub,
\* and no swap goes wrong.
AutoModeUpdates ==
    \A v \in Versions :
      (/\ [](setting.mode = "auto" /\ ~spoiled)
       /\ <>[](upstream = v)
       /\ []<><<\E t \in Checks : Ask(t)>>_updateVars) => <>Installed(v)

\* What docs/ADMIN_GUIDE.md says of automatic mode: the server checks every hour
\* by itself and installs a new release by itself.
AutoModeUpdatesAlone ==
    \A v \in Versions :
      ([](setting.mode = "auto" /\ ~spoiled) /\ <>[](upstream = v)) => <>Installed(v)
=============================================================================
