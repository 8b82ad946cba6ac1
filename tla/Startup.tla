------------------------------- MODULE Startup -------------------------------
(***************************************************************************)
(* The start of the server (lifespan in app/main.py, init_db and seed_admin *)
(* in app/database.py): migration scripts that have no marker yet are run   *)
(* statement by statement, each statement its own commit, and marked; then  *)
(* the secrets an older release stored in plain text are encrypted, once;   *)
(* then the administrator is seeded.  The process can be killed at any      *)
(* point, and systemd starts it again.                                      *)
(***************************************************************************)
EXTENDS Naturals, Sequences

CONSTANTS
  Scripts,    \* the migration files, in the order of their names
  Kept,       \* the kinds of secrets that used to be stored in plain text
  MaxKills    \* bound: how often the process is killed

\* What a statement does to the schema.  "column" is ALTER TABLE ADD COLUMN, which fails
\* if the column is there; "build" a CREATE TABLE without IF NOT EXISTS; "copy" fills the
\* built table from an older one, whose rows its foreign keys may refuse; "rename" gives it
\* the name of the one a "drop" removed.  Inserts and updates that no row can make fail
\* are left out.
Statements == [does : {"create", "column", "build", "copy", "drop", "rename"},
               object : STRING, from : STRING]

ASSUME StartupAssumption ==
  /\ \A f \in DOMAIN Scripts : Scripts[f] \in Seq(Statements) /\ Scripts[f] # <<>>
  /\ Scripts \in Seq(Seq(Statements))
  /\ MaxKills \in Nat

VARIABLES
  schema,    \* tables and columns the database has
  loose,     \* tables with a row that names something that does not exist
  marked,    \* what _migrations holds: the scripts ...
  sealed,    \* ... and the one-time encryptions
  secret,    \* how each kind of secret is stored
  admin,     \* whether the users table has a row
  boot,      \* the process: its stage, and the script and statement it is at
  release,   \* how many of the scripts the installed release has
  password,  \* whether PKTNODE_ADMIN_PASSWORD is set
  torn,      \* history: scripts a kill cut between two of their statements
  kills

startupVars == <<schema, loose, marked, sealed, secret, admin, boot, release, password, torn, kills>>

Stages == {"down", "files", "secrets", "seed", "up", "failed"}

Making == {"create", "column", "rename"}

\* What is there once a script has been run from its first statement to its last.
Made(f) == {st.object : st \in {s \in {Scripts[f][i] : i \in DOMAIN Scripts[f]} : s.does \in Making}}

\* The lines of a script that do one thing.
LinesThat(f, what) == {i \in DOMAIN Scripts[f] : Scripts[f][i].does = what}

\* The tables that a script copies, and those of them no script has bound by foreign keys.
Copied == UNION {{Scripts[f][i].from : i \in LinesThat(f, "copy")} : f \in DOMAIN Scripts}
Unbound == {t \in Copied \cap schema :
              \A f \in marked : \A i \in LinesThat(f, "copy") : Scripts[f][i].from # t}

StartupTypeOK ==
  /\ marked \subseteq DOMAIN Scripts
  /\ loose \subseteq Copied
  /\ sealed \subseteq Kept
  /\ secret \in [Kept -> {"none", "plain", "sealed", "twice"}]
  /\ admin \in BOOLEAN /\ password \in BOOLEAN
  /\ boot \in [at : Stages, file : 0..Len(Scripts) + 1, line : Nat]
  /\ release \in 0..Len(Scripts)
  /\ torn \subseteq DOMAIN Scripts
  /\ kills \in 0..MaxKills

Stage(stage, file, line) == [at |-> stage, file |-> file, line |-> line]

\* How the migration files are written; 003's table, which 015 drops for good, is left
\* out.  A table is rebuilt by a "build", a "copy", a "drop" and a "rename" in a row, in a
\* script that adds no columns, as the script that made it (010, 011).
ASSUME RebuildAssumption ==
  /\ \A f \in DOMAIN Scripts : \A i \in LinesThat(f, "build") :
       /\ i + 1 \in LinesThat(f, "copy") /\ i + 2 \in LinesThat(f, "drop")
       /\ i + 3 \in LinesThat(f, "rename")
       /\ Scripts[f][i + 3].object = Scripts[f][i + 2].object
       /\ Scripts[f][i + 1].from = Scripts[f][i + 2].object
       /\ Scripts[f][i + 3].from = Scripts[f][i].object
       /\ LinesThat(f, "column") = {}
  /\ \A f \in DOMAIN Scripts : \A i \in LinesThat(f, "drop") :
       /\ i - 2 \in LinesThat(f, "build")
       /\ \E g \in 1..(f - 1) : Scripts[f][i].object \in Made(g) /\ LinesThat(g, "column") = {}
  /\ \A f \in DOMAIN Scripts : \A i \in LinesThat(f, "copy") : i - 1 \in LinesThat(f, "build")
  /\ \A f \in DOMAIN Scripts : \A i \in LinesThat(f, "rename") : i - 3 \in LinesThat(f, "build")

\* No other statement makes or drops what has the name of a table that is being built, or
\* of a column.
ASSUME NamesAssumption ==
  \A f, g \in DOMAIN Scripts :
    \A i \in LinesThat(f, "build") \cup LinesThat(f, "column") :
    \A j \in DOMAIN Scripts[g] \ LinesThat(g, "copy") :
      Scripts[g][j].object = Scripts[f][i].object => g = f /\ j = i

\* An empty database, or the one of an older release: it holds secrets in either form.
StartupInit ==
  /\ release \in DOMAIN Scripts
  /\ \E old \in 0..release :
       /\ marked = 1..old
       /\ schema = UNION {Made(f) : f \in 1..old}
       /\ admin = (old > 0)
       /\ secret \in [Kept -> {"none", "plain", "sealed"}]
       /\ old = 0 => \A k \in Kept : secret[k] = "none"
  /\ loose \in SUBSET Unbound
  /\ sealed = {} /\ torn = {} /\ kills = 0
  /\ password \in BOOLEAN
  /\ boot = Stage("down", 0, 0)
-----------------------------------------------------------------------------
\* systemd starts the process (again): the lifespan runs init_db from the first file.
Boot ==
  /\ boot.at \in {"down", "failed"}
  /\ boot' = Stage("files", 1, 0)
  /\ UNCHANGED <<schema, loose, marked, sealed, secret, admin, release, password, torn, kills>>

Running == boot.at = "files" /\ boot.line > 0

Script == Scripts[boot.file]

\* A slip in the order of init_db's writes: the marker first, the script after it.
OpenAndMark ==
  /\ boot.at = "files" /\ boot.line = 0
  /\ boot.file <= release /\ boot.file \notin marked
  /\ boot' = Stage("files", boot.file, 1)
  /\ marked' = marked \cup {boot.file}
  /\ UNCHANGED <<schema, loose, sealed, secret, admin, release, password, torn, kills>>

OpenScript ==
  /\ boot.at = "files" /\ boot.line = 0
  /\ boot.file <= release /\ boot.file \notin marked
  /\ boot' = Stage("files", boot.file, 1)
  /\ UNCHANGED <<schema, loose, marked, sealed, secret, admin, release, password, torn, kills>>

SkipScript ==
  /\ boot.at = "files" /\ boot.line = 0
  /\ boot.file <= release /\ boot.file \in marked
  /\ boot' = Stage("files", boot.file + 1, 0)
  /\ UNCHANGED <<schema, loose, marked, sealed, secret, admin, release, password, torn, kills>>

Effect(st) ==
  CASE st.does = "copy" -> schema
    [] st.does = "drop" -> schema \ {st.object}
    [] st.does = "rename" -> (schema \ {st.from}) \cup {st.object}
    [] OTHER -> schema \cup {st.object}

Duplicate(st) == st.does = "column" /\ st.object \in schema

\* The statements before it stay done: what a failed copy leaves is the built table, so
\* the next start fails at the "build".
Refused(st) ==
  \/ st.does = "build" /\ st.object \in schema
  \/ st.does = "copy" /\ (st.from \in loose \/ st.from \notin schema)
  \/ st.does = "drop" /\ st.object \notin schema

RunStatement ==
  /\ Running /\ boot.line <= Len(Script)
  /\ LET st == Script[boot.line]
     IN /\ ~Duplicate(st) /\ ~Refused(st)
        /\ schema' = Effect(st)
  /\ boot' = [boot EXCEPT !.line = @ + 1]
  /\ UNCHANGED <<loose, marked, sealed, secret, admin, release, password, torn, kills>>

\* "duplicate column name" is taken as "already applied": the rest of the script is
\* not run, and the script is marked.
TakeAsApplied ==
  /\ Running /\ boot.line <= Len(Script)
  /\ Duplicate(Script[boot.line])
  /\ boot' = [boot EXCEPT !.line = Len(Script) + 1]
  /\ UNCHANGED <<schema, loose, marked, sealed, secret, admin, release, password, torn, kills>>

\* Any other error ends the start, and the process.
ScriptFails ==
  /\ Running /\ boot.line <= Len(Script)
  /\ Refused(Script[boot.line])
  /\ boot' = Stage("failed", 0, 0)
  /\ UNCHANGED <<schema, loose, marked, sealed, secret, admin, release, password, torn, kills>>

MarkScript ==
  /\ Running /\ boot.line = Len(Script) + 1
  /\ marked' = marked \cup {boot.file}
  /\ boot' = Stage("files", boot.file + 1, 0)
  /\ UNCHANGED <<schema, loose, sealed, secret, admin, release, password, torn, kills>>

FilesDone ==
  /\ boot.at = "files" /\ boot.file > release
  /\ boot' = Stage("secrets", 0, 0)
  /\ UNCHANGED <<schema, loose, marked, sealed, secret, admin, release, password, torn, kills>>

\* A slip in _encrypt_legacy_api_keys: no test for what is encrypted already.
SealedAgain(form) == CASE form = "plain" -> "sealed" [] form = "sealed" -> "twice" [] OTHER -> form

Sealed(form) == IF form = "plain" THEN "sealed" ELSE form

\* The updates and the marker are one transaction.
EncryptLegacy(k) ==
  /\ boot.at = "secrets" /\ k \in Kept \ sealed
  /\ secret' = [secret EXCEPT ![k] = Sealed(@)]
  /\ sealed' = sealed \cup {k}
  /\ UNCHANGED <<schema, loose, marked, admin, boot, release, password, torn, kills>>

SecretsDone ==
  /\ boot.at = "secrets" /\ sealed = Kept
  /\ boot' = Stage("seed", 0, 0)
  /\ UNCHANGED <<schema, loose, marked, sealed, secret, admin, release, password, torn, kills>>

\* seed_admin: an existing user ends it; an empty table without a password ends the process.
SeedAdmin ==
  /\ boot.at = "seed"
  /\ IF admin \/ password
     THEN admin' = TRUE /\ boot' = Stage("up", 0, 0)
     ELSE boot' = Stage("failed", 0, 0) /\ UNCHANGED admin
  /\ UNCHANGED <<schema, loose, marked, sealed, secret, release, password, torn, kills>>

\* While the server is up: a secret is stored, always encrypted.
StoreSecret(k) ==
  /\ boot.at = "up" /\ secret[k] = "none"
  /\ secret' = [secret EXCEPT ![k] = "sealed"]
  /\ UNCHANGED <<schema, loose, marked, sealed, admin, boot, release, password, torn, kills>>

\* An administrator saves a row that names a group nobody is in, or removes such rows.
EditRows(t) ==
  /\ boot.at = "up" /\ t \in Unbound
  /\ loose' \in {loose \cup {t}, loose \ {t}}
  /\ UNCHANGED <<schema, marked, sealed, secret, admin, boot, release, password, torn, kills>>

\* A new release is installed and the server restarted.
Upgrade ==
  /\ boot.at = "up" /\ release < Len(Scripts)
  /\ release' = release + 1
  /\ boot' = Stage("down", 0, 0)
  /\ UNCHANGED <<schema, loose, marked, sealed, secret, admin, password, torn, kills>>

\* An administrator restarts the service.
RestartService ==
  /\ boot.at = "up"
  /\ boot' = Stage("down", 0, 0)
  /\ UNCHANGED <<schema, loose, marked, sealed, secret, admin, release, password, torn, kills>>

\* The process is killed: what is committed stays.
Kill ==
  /\ boot.at \notin {"down", "failed"} /\ kills < MaxKills
  /\ boot' = Stage("down", 0, 0)
  /\ kills' = kills + 1
  /\ torn' = IF Running /\ boot.line \in 2..Len(Script)
             THEN torn \cup {boot.file} ELSE torn
  /\ UNCHANGED <<schema, loose, marked, sealed, secret, admin, release, password>>

StartupNext ==
  \/ Boot \/ OpenScript \/ SkipScript \/ RunStatement \/ TakeAsApplied \/ ScriptFails
  \/ MarkScript \/ FilesDone \/ SecretsDone \/ SeedAdmin \/ Upgrade
  \/ RestartService \/ Kill
  \/ \E k \in Kept : EncryptLegacy(k) \/ StoreSecret(k)
  \/ \E t \in Copied : EditRows(t)

StartupSpec == StartupInit /\ [][StartupNext]_startupVars
-----------------------------------------------------------------------------
\* After a kill in a script: a column before the line is there, and was taken for a sign
\* that the whole script had been applied.
CutOff(f, j) ==
  f \in torn /\ \E i \in LinesThat(f, "column") : i < j /\ Scripts[f][i].object \in schema

\* The script can never be run: the table it builds is there already, after a kill or
\* a copy that loose rows made fail.
Stuck(f) ==
  \E i \in LinesThat(f, "build") :
    Scripts[f][i].object \in schema /\ (f \in torn \/ Scripts[f][i + 1].from \in loose)

\* A server that is up has every table and column of its migrations, except what comes
\* after a column in a script that a kill cut, and every secret is stored under exactly
\* one encryption.  A server that cannot start has no administrator to seed, or is at a
\* script that was cut in, or left by a failed copy in, the rebuilding of a table: any other
\* kill, also one between a script and its marker, is repaired by the next start.
StartIsWhole ==
  /\ boot.at = "up" =>
       /\ \A f \in 1..release : \A j \in DOMAIN Scripts[f] :
            Scripts[f][j].does \in Making => Scripts[f][j].object \in schema \/ CutOff(f, j)
       /\ \A k \in Kept : secret[k] \in {"none", "sealed"}
  /\ boot.at = "failed" => ~(admin \/ password) \/ \E f \in (1..release) \ marked : Stuck(f)
=============================================================================
