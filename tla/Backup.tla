-------------------------------- MODULE Backup --------------------------------
(***************************************************************************)
(* Backups (app/backup.py) and what the administrator does with the         *)
(* database file (export, import and restore in app/api/system.py).  Of a    *)
(* database only its condition is kept: whole, or damaged.  In WAL mode the  *)
(* newest commits of the live one are beside its file until a checkpoint.    *)
(* A snapshot directory is named by the minute its run started in, so runs   *)
(* of one minute share it, and the rotation goes by modification time.       *)
(* Runs, exports and restores are threads: each step below may fall between  *)
(* two steps of another.                                                     *)
(***************************************************************************)
EXTENDS Naturals, FiniteSets

CONSTANTS
  Jobs,        \* backup runs: the scheduler's and the administrators'
  Keep,        \* backup_rotation_count
  MaxMinutes,  \* bound: minutes that pass
  MaxMishaps   \* bound: failing copies and kills

ASSUME BackupAssumption ==
  Keep \in Nat \ {0} /\ MaxMinutes \in Nat /\ MaxMishaps \in Nat

VARIABLES
  live,     \* the database: is it whole, are there commits beside its file, and what
            \* is being copied over it
  minute,
  shelf,    \* the snapshot directories: is it there, a whole database and config.yaml in it
  newer,    \* per directory: those with a later modification time
  job,      \* per run: where it is, its directory; was the live file overwritten while it
            \* was copied; what integrity_check said; has a rotation the directory on its
            \* list; and the list of its own
  bundle,   \* the export: being copied, packed; was the file whole while it was copied
  mishaps,
  past      \* history: the last directory that a run reported as usable, those that
            \* changed since, and those whose last copy was of a damaged database

backupVars == <<live, minute, shelf, newer, job, bundle, mishaps, past>>

Minutes == 0..MaxMinutes
Absent  == [there |-> FALSE, whole |-> FALSE, config |-> FALSE]
Empty   == [Absent EXCEPT !.there = TRUE]
NoJob   == [at |-> "idle", dir |-> 0, mixed |-> FALSE, usable |-> FALSE, listed |-> FALSE, old |-> {}]

BackupTypeOK ==
  /\ live \in [whole : BOOLEAN, wal : BOOLEAN, restoring : {"no", "whole", "damaged"}]
  /\ minute \in Minutes /\ mishaps \in 0..MaxMishaps
  /\ shelf \in [Minutes -> [there : BOOLEAN, whole : BOOLEAN, config : BOOLEAN]]
  /\ newer \in [Minutes -> SUBSET Minutes]
  /\ job \in [Jobs -> [at : {"idle", "copy", "verify", "config", "list", "remove"}, dir : Minutes,
                       mixed : BOOLEAN, usable : BOOLEAN, listed : BOOLEAN, old : SUBSET Minutes]]
  /\ bundle \in [at : {"none", "copying", "packed"}, whole : BOOLEAN]
  /\ past \in [dir : Minutes \cup {MaxMinutes + 1}, since : SUBSET Minutes, spoiled : SUBSET Minutes]

BackupInit ==
  /\ live = [whole |-> TRUE, wal |-> FALSE, restoring |-> "no"]
  /\ minute = 0 /\ mishaps = 0
  /\ shelf = [m \in Minutes |-> Absent]
  /\ newer = [m \in Minutes |-> {}]
  /\ job = [j \in Jobs |-> NoJob]
  /\ bundle = [at |-> "none", whole |-> FALSE]
  /\ past = [dir |-> MaxMinutes + 1, since |-> {}, spoiled |-> {}]

There == {m \in Minutes : shelf[m].there}

\* The directory d gets the newest modification time; or is removed.
Touch(d) == newer' = [m \in Minutes |-> IF m = d \/ m \notin There THEN {} ELSE newer[m] \cup {d}]
Forget(d) == newer' = [m \in Minutes |-> IF m = d THEN {} ELSE newer[m] \ {d}]

\* Since the last report the directory d has changed.
Since(d) == [past EXCEPT !.since = IF past.dir \in Minutes THEN @ \cup {d} ELSE @]

\* The run j goes on, or ends, with its result or an error.
Goes(j, at) == job' = [job EXCEPT ![j].at = at]
Finishes(j) == job' = [job EXCEPT ![j] = NoJob]
-----------------------------------------------------------------------------
(* The live database and the clock *)

\* SQLite moves the -wal to the file now and then, and when the last connection closes.
CommitOrCheckpoint ==
  /\ live.whole
  /\ live' = [live EXCEPT !.wal = ~@]
  /\ bundle' = [bundle EXCEPT !.whole = @ /\ ~(bundle.at = "copying" /\ live.wal)]
  /\ UNCHANGED <<minute, shelf, newer, job, mishaps, past>>

Tick ==
  /\ minute < MaxMinutes
  /\ minute' = minute + 1
  /\ UNCHANGED <<live, shelf, newer, job, bundle, mishaps, past>>
-----------------------------------------------------------------------------
(* A run *)

\* The directory of this minute is made, with an empty pktnode.db in it, or found.
StartRun(j) ==
  /\ job[j].at = "idle"
  /\ job' = [job EXCEPT ![j] = [NoJob EXCEPT !.at = "copy", !.dir = minute,
                                            !.listed = \E k \in Jobs : minute \in job[k].old]]
  /\ IF minute \in There
     THEN UNCHANGED <<shelf, newer, past>>
     ELSE /\ shelf' = [shelf EXCEPT ![minute] = Empty]
          /\ Touch(minute) /\ past' = Since(minute)
  /\ UNCHANGED <<live, minute, bundle, mishaps>>

\* The online-backup API puts the newest commit in place in one transaction, whose
\* journal changes the directory's time; it knows nothing of a restore that writes over the
\* live file meanwhile.  The file may be one that a rotation has unlinked, and a
\* directory that one has removed ends the run.
CopyDatabase(j) ==
  /\ job[j].at = "copy"
  /\ LET d == job[j].dir
     IN IF d \in There
        THEN /\ job' = [job EXCEPT ![j].at = "verify", ![j].mixed = FALSE]
             /\ Touch(d)
             /\ \/ \E good \in BOOLEAN :
                     /\ job[j].mixed \/ good = live.whole
                     /\ shelf' = [shelf EXCEPT ![d].whole = good]
                     /\ past' = [Since(d) EXCEPT !.spoiled = IF good THEN @ \ {d} ELSE @ \cup {d}]
                \/ job[j].listed /\ past' = Since(d) /\ UNCHANGED shelf
        ELSE Finishes(j) /\ UNCHANGED <<shelf, newer, past>>
  /\ UNCHANGED <<live, minute, bundle, mishaps>>

\* integrity_check, which an empty file passes and which may find the file missing or
\* locked by another run: what fails it stays, but is not called usable.
Verify(j) ==
  /\ job[j].at = "verify"
  /\ LET Writing == {k \in Jobs : job[k].at = "copy" /\ job[k].dir = job[j].dir}
     IN \E said \in BOOLEAN :
          /\ shelf[job[j].dir].whole /\ Writing = {} => said
          /\ job[j].dir \notin There => ~said
          /\ job' = [job EXCEPT ![j].at = "config", ![j].usable = said]
  /\ UNCHANGED <<live, minute, shelf, newer, bundle, mishaps, past>>

\* config.yaml is copied beside it; a removed directory makes that raise.
CopyConfig(j) ==
  /\ job[j].at = "config"
  /\ LET d == job[j].dir
     IN IF d \in There
        THEN /\ Goes(j, "list")
             /\ shelf' = [shelf EXCEPT ![d].config = TRUE]
             /\ IF shelf[d].config
                THEN UNCHANGED <<newer, past>>
                ELSE Touch(d) /\ past' = Since(d)
        ELSE Finishes(j) /\ UNCHANGED <<shelf, newer, past>>
  /\ UNCHANGED <<live, minute, bundle, mishaps>>

\* A slip in the sort: reverse=True, as in list_backups_sync, keeps the oldest.
NotOldest == {d \in There : Cardinality(There \ newer[d]) > Keep}

\* All but the newest directories by modification time, whatever they hold.
NotNewest == {d \in There : Cardinality(newer[d]) >= Keep}

\* The rotation lists the directories that are to go.
ListOld(j) ==
  /\ job[j].at = "list"
  /\ job' = [k \in Jobs |->
               [job[k] EXCEPT !.at = IF k = j THEN "remove" ELSE @,
                              !.old = IF k = j THEN NotNewest ELSE @,
                              !.listed = @ \/ (job[k].at # "idle" /\ job[k].dir \in NotNewest)]]
  /\ UNCHANGED <<live, minute, shelf, newer, bundle, mishaps, past>>

\* A directory that another rotation removes between its listing and its stat ends the run.
ListFails(j) ==
  /\ job[j].at = "list" /\ \E k \in Jobs \ {j} : job[k].old # {}
  /\ Finishes(j)
  /\ UNCHANGED <<live, minute, shelf, newer, bundle, mishaps, past>>

\* rmtree of a directory on the list.  It ignores errors: what another run writes there
\* meanwhile keeps the directory.
RemoveOld(j, d) ==
  /\ d \in job[j].old
  /\ job' = [job EXCEPT ![j].old = @ \ {d}]
  /\ \/ /\ shelf' = [shelf EXCEPT ![d] = Absent]
        /\ Forget(d) /\ UNCHANGED past
     \/ /\ d \in There
        /\ \E k \in Jobs \ {j} : job[k].at \in {"copy", "verify", "config"} /\ job[k].dir = d
        /\ shelf' = [shelf EXCEPT ![d] = Empty]
        /\ Touch(d) /\ past' = Since(d)
  /\ UNCHANGED <<live, minute, bundle, mishaps>>

\* The run's result.  It is "ok" also when a rotation has removed what it is about.
Report(j) ==
  /\ job[j].at = "remove" /\ job[j].old = {}
  /\ past' = IF job[j].usable /\ ~job[j].listed
             THEN [past EXCEPT !.dir = job[j].dir, !.since = newer[job[j].dir]] ELSE past
  /\ Finishes(j)
  /\ UNCHANGED <<live, minute, shelf, newer, bundle, mishaps>>

\* The disk is full: the transaction on the copy is rolled back, the directory stays.
CopyFails(j) ==
  /\ job[j].at = "copy" /\ mishaps < MaxMishaps
  /\ Finishes(j)
  /\ mishaps' = mishaps + 1
  /\ UNCHANGED <<live, minute, shelf, newer, bundle, past>>

\* The process is killed: what was written stays on the shelf, a copy with its journal; a
\* restore stays half done.
KilledRuns ==
  /\ mishaps < MaxMishaps
  /\ bundle.at = "copying" \/ live.restoring # "no" \/ \E j \in Jobs : job[j].at # "idle"
  /\ job' = [j \in Jobs |-> NoJob]
  /\ live' = [live EXCEPT !.restoring = "no"]
  /\ bundle' = IF bundle.at = "copying" THEN [at |-> "none", whole |-> FALSE] ELSE bundle
  /\ mishaps' = mishaps + 1
  /\ UNCHANGED <<minute, shelf, newer, past>>
-----------------------------------------------------------------------------
(* Export and restore *)

\* POST /api/system/export copies the database file as it is, without the -wal; a
\* checkpoint meanwhile tears the copy.
StartExport ==
  /\ bundle.at # "copying"
  /\ bundle' = [at |-> "copying", whole |-> live.whole]
  /\ UNCHANGED <<live, minute, shelf, newer, job, mishaps, past>>

FinishExport ==
  /\ bundle.at = "copying"
  /\ bundle' = [bundle EXCEPT !.at = "packed"]
  /\ UNCHANGED <<live, minute, shelf, newer, job, mishaps, past>>

\* _restore_from_dir copies over the live file, whatever is read from it meanwhile.
Overwriting ==
  /\ job' = [j \in Jobs |-> IF job[j].at = "copy" THEN [job[j] EXCEPT !.mixed = TRUE] ELSE job[j]]
  /\ bundle' = [bundle EXCEPT !.whole = @ /\ bundle.at # "copying"]
  /\ UNCHANGED <<minute, shelf, newer, mishaps, past>>

StartRestore(whole) ==
  /\ live' = [live EXCEPT !.whole = FALSE,
                          !.restoring = IF whole \/ @ = "whole" THEN "whole" ELSE "damaged"]
  /\ Overwriting

\* The copy is not checked; a -wal that is still there, a write meanwhile, or a second
\* restore may damage it.
FinishRestore ==
  /\ live.restoring # "no"
  /\ \E good \in {live.restoring = "whole", FALSE} :
       live' = [whole |-> good, wal |-> FALSE, restoring |-> "no"]
  /\ Overwriting

\* POST /api/system/backup/restore/{name}
RestoreSnapshot(m) == m \in There /\ StartRestore(shelf[m].whole)

\* POST /api/system/import of the last export
Import == bundle.at = "packed" /\ StartRestore(bundle.whole)

BackupNext ==
  \/ CommitOrCheckpoint \/ Tick \/ KilledRuns \/ StartExport \/ FinishExport \/ Import
  \/ FinishRestore
  \/ \E j \in Jobs : \/ StartRun(j) \/ CopyDatabase(j) \/ Verify(j) \/ CopyConfig(j)
                     \/ ListOld(j) \/ ListFails(j) \/ Report(j) \/ CopyFails(j)
                     \/ \E d \in Minutes : RemoveOld(j, d)
  \/ \E m \in Minutes : RestoreSnapshot(m)

BackupSpec == BackupInit /\ [][BackupNext]_backupVars
-----------------------------------------------------------------------------
\* A snapshot that a run reported as usable, and that no rotation had on its list by then,
\* stays there and whole although runs share directories, fail and are killed, other
\* rotations remove what they listed long ago, and restores overwrite what is being
\* copied: until as many other directories as the rotation keeps have changed since, or
\* another run has copied a damaged database into it.  Those others need not hold a
\* usable snapshot: the rotation counts every one.
UsableSnapshotStays ==
  past.dir \in Minutes =>
    \/ past.dir \in There /\ (shelf[past.dir].whole \/ past.dir \in past.spoiled)
    \/ Cardinality(past.since \ {past.dir}) >= Keep
=============================================================================
