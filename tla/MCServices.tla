----------------------------- MODULE MCServices ------------------------------
(***************************************************************************)
(* The services of the server, and the agent's stop, without a promise to   *)
(* get anything done in the end.  They share no state, and are explored     *)
(* side by side in one run: a behaviour is a behaviour of one of them while *)
(* the others rest in an initial state.                                     *)
(***************************************************************************)
EXTENDS LoginProtection, Resonance, MCStartup, Backup, LogForward, LogBuffer,
        Accounts, SettingsStore, AgentStop

CONSTANTS a1, d1, r1, r2, r3, u1, w1, w2

OneAccount == {a1}
OneAddress == {d1}
ThreeRequests == {r1, r2, r3}
OneUser  == {u1}
TwoCalls == {w1, w2}
AllCodes == <<Everybody, "code">>

VARIABLE service

vars == <<service, loginVars, resonanceVars, startupVars, backupVars, forwardVars,
          bufferVars, accountVars, settingsVars, stopVars>>

Init ==
    /\ service \in {"login", "limiter", "breaker", "startup", "backup", "export", "forward",
                    "buffer", "default", "signin", "keys", "settings", "tray", "shell"}
    /\ LoginInit
    /\ ResonanceInit
    /\ StartupInit
    /\ service # "startup" =>
         release = 1 /\ marked = {} /\ loose = {} /\ password /\ \A k \in Kept : secret[k] = "none"
    /\ BackupInit
    /\ ForwardInit
    /\ BufferInit
    /\ AccountsInit
    /\ users[1].name = NoRow.name
    /\ SettingsInit
    /\ service # "settings" => row = [f \in Fields |-> Blank]
    /\ StopInit

\* What the services that are not explored do.
Rests(names, variables) == service \notin names => UNCHANGED variables

\* A browser logs in or asks for keys.
OnlyLogins == \A b \in Browsers :
    signin'[b].at = "none" \/ (signin'[b].at = "tokens" /\ asking'[b] = NoRequest)

PlainRows == \A i \in Ids : users'[i].there =>
    users'[i].active /\ users'[i].email = users'[i].name /\ users'[i].role = IF i = 1 THEN "admin" ELSE "viewer"

NoRenaming == \A i \in Ids : users[i].there /\ users'[i].there => users'[i].name = users[i].name

\* Of the pages, one at a time loads silently.
OneSilent == Cardinality({e \in Editors : form'[e].asked}) <= 1

\* One run at a time, and no more directories than the rotation keeps.
OneRun == minute' < Keep /\ Cardinality({j \in Jobs : job'[j].at # "idle"}) <= 1

\* The limiter and the breaker meet in no property: the one is explored while Resonance
\* fails nobody, the other while every request is the first of its window.  Overlapping
\* backup runs are explored while the database rests, and what happens to it, its exports
\* and its restores with one run at a time and nothing to rotate;
\* the default flag alone; sign-ins without renamed accounts, keys or changes of the flag;
\* keys with password logins only, while all accounts are active and have emails like
\* their names, and one thing per browser at a time; of two Settings pages one at a time
\* loads silently; an agent is stopped beside the tray, or beside a command line and its own
\* update.  What logs only up to a
\* bound goes on without logging.
Next ==
    /\ UNCHANGED service
    /\ \/ service = "login" /\ LoginNext
       \/ service = "limiter" /\ ResonanceNext /\ UNCHANGED breaker
       \/ service = "breaker" /\ ResonanceNext /\ \A b \in Buckets : rate'[b] <= 1
       \/ service = "startup" /\ StartupNext
       \/ service = "backup" /\ BackupNext /\ UNCHANGED <<live, bundle>>
       \/ service = "export" /\ BackupNext /\ OneRun
       \/ service = "forward" /\ ForwardNext
       \/ service = "buffer" /\ BufferNext
       \/ service = "default" /\ AccountsNext /\ UNCHANGED <<methods, signin, key, asking>>
       \/ service = "signin" /\ AccountsNext /\ UNCHANGED <<key, asking, marking>> /\ NoRenaming
       \/ service = "keys" /\ AccountsNext /\ UNCHANGED <<methods, marking>> /\ OnlyLogins /\ PlainRows
       \/ service = "settings" /\ SettingsNext /\ OneSilent
       \/ service = "tray" /\ StopNext /\ UNCHANGED <<shell, losses>> /\ agent'.loop = "idle"
       \/ service = "shell" /\ StopNext /\ UNCHANGED <<control, tray>>
       \/ service \in {"forward", "buffer"} /\ UNCHANGED <<forwardVars, bufferVars>>
    /\ Rests({"login"}, loginVars)
    /\ Rests({"limiter", "breaker"}, resonanceVars)
    /\ Rests({"startup"}, startupVars)
    /\ Rests({"backup", "export"}, backupVars)
    /\ Rests({"forward"}, forwardVars)
    /\ Rests({"buffer"}, bufferVars)
    /\ Rests({"default", "signin", "keys"}, accountVars)
    /\ Rests({"settings"}, settingsVars)
    /\ Rests({"tray", "shell"}, stopVars)

Spec == Init /\ [][Next]_vars

\* The type invariants of the services; the login part says that no address has
\* reached its limit of counted failures, the Resonance part that only codes wait
\* for the breaker.
ServicesTypeOK ==
    /\ service = "login" => LoginTypeOK
    /\ service \in {"limiter", "breaker"} => ResonanceTypeOK
    /\ service = "startup" => StartupTypeOK
    /\ service \in {"backup", "export"} => BackupTypeOK
    /\ service = "forward" => ForwardTypeOK
    /\ service = "buffer" => BufferTypeOK
    /\ service \in {"default", "signin", "keys"} => AccountsTypeOK
    /\ service = "settings" => SettingsTypeOK
    /\ service \in {"tray", "shell"} => StopTypeOK
=============================================================================
