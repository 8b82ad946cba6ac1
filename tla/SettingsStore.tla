----------------------------- MODULE SettingsStore -----------------------------
(***************************************************************************)
(* The settings table (app/api/settings.py) under open Settings pages        *)
(* (frontend/src/pages/Settings.tsx).  A page holds a copy of all settings,   *)
(* with a mask for every secret that is set, replaces it by what the server    *)
(* answers, once a minute too, and saves the fields of a section that are in   *)
(* it.  A click, the commit of what it sent, and the answer are steps apart;   *)
(* each request may fail.  One section of each page is saved.                  *)
(***************************************************************************)
EXTENDS Naturals

CONSTANTS
  Fields,    \* the keys of a section
  Secrets,   \* _SECRET_KEYS
  Values,    \* what can be typed
  Blank,     \* an empty value, the default
  Mask,      \* what stands for a secret in an answer
  Missing,   \* what a copy has before anything was loaded
  Editors    \* administrators' Settings pages

ASSUME SettingsAssumption ==
  /\ Secrets \subseteq Fields
  /\ Blank \notin Values /\ Mask \notin Values \cup {Blank}
  /\ Missing \notin Values \cup {Blank, Mask}

VARIABLES
  row,    \* the settings table; a field without a row has its default
  form    \* per page: what it does, the answers on their way to load and to silentLoad,
          \* the copy it shows, what its save has sent, its dirty flag, and (history) the
          \* fields typed into the copy, and those typed when it was sent

settingsVars == <<row, form>>

Shown == [Fields -> Values \cup {Blank, Mask, Missing}]

SettingsTypeOK ==
  /\ row \in [Fields -> Values \cup {Blank}]
  /\ form \in [Editors -> [at : {"ready", "saving", "saved", "load"}, asked : BOOLEAN,
                           answer : Shown, silent : Shown, shown : Shown, payload : Shown,
                           dirty : BOOLEAN, typed : SUBSET Fields, sent : SUBSET Fields]]

\* Nothing was loaded, nothing is on its way.
Nothing == [f \in Fields |-> Missing]

\* A slip: the stored value is answered for a secret too.
Unmasked(stored) == stored

\* get_all_settings: what is set and secret is masked.
Masked(stored) == [f \in Fields |-> IF f \in Secrets /\ stored[f] # Blank THEN Mask ELSE stored[f]]

\* The pages have just asked for their first copy of what an earlier session left.
SettingsInit ==
  /\ row \in [Fields -> Values \cup {Blank}]
  /\ form = [e \in Editors |-> [at |-> "load", asked |-> FALSE, answer |-> Masked(row),
                                silent |-> Nothing, shown |-> Nothing, payload |-> Nothing,
                                dirty |-> FALSE, typed |-> {}, sent |-> {}]]

\* set: while load shows its spinner there is nothing to type into.
Type(e, f, v) ==
  /\ form[e].at # "load"
  /\ form' = [form EXCEPT ![e] = [@ EXCEPT !.shown[f] = v, !.dirty = TRUE,
                                           !.typed = form[e].typed \cup {f}]]
  /\ UNCHANGED row

\* silentLoad looks at the dirty flag before it asks ...
StartSilentLoad(e) ==
  /\ ~form[e].asked /\ ~form[e].dirty
  /\ form' = [form EXCEPT ![e] = [@ EXCEPT !.asked = TRUE, !.silent = Masked(row)]]
  /\ UNCHANGED row

\* ... and its answer, however late, replaces what was typed or loaded meanwhile.
FinishSilentLoad(e) ==
  /\ form[e].asked
  /\ form' = [form EXCEPT ![e] = [@ EXCEPT !.asked = FALSE, !.silent = Nothing,
                                           !.shown = form[e].silent, !.typed = {}]]
  /\ UNCHANGED row

\* silentLoad: an error is swallowed.
SilentLoadFails(e) ==
  /\ form[e].asked
  /\ form' = [form EXCEPT ![e] = [@ EXCEPT !.asked = FALSE, !.silent = Nothing]]
  /\ UNCHANGED row

\* A click on Save takes the fields of the section that are in the copy.
Save(e) ==
  /\ form[e].at = "ready"
  /\ form' = [form EXCEPT ![e] = [@ EXCEPT !.at = "saving", !.payload = form[e].shown,
                                           !.sent = form[e].typed]]
  /\ UNCHANGED row

\* A slip in bulk_update: a mask is taken for an emptied field.
AllOf(payload) == [f \in Fields |-> CASE payload[f] = Missing -> row[f]
                                      [] payload[f] = Mask -> Blank
                                      [] OTHER -> payload[f]]

\* The values a save writes: a secret that is still the mask is skipped.
Stored(payload) == [f \in Fields |-> IF payload[f] = Missing \/ (f \in Secrets /\ payload[f] = Mask)
                                     THEN row[f] ELSE payload[f]]

\* POST /api/settings/bulk: in one transaction, whatever the page shows by now.
BulkUpdate(e) ==
  /\ form[e].at = "saving"
  /\ row' = Stored(form[e].payload)
  /\ form' = [form EXCEPT ![e].at = "saved"]

\* The request fails, or its answer is lost: the page stays as it is.
SaveFails(e) ==
  /\ form[e].at \in {"saving", "saved"}
  /\ form' = [form EXCEPT ![e] = [@ EXCEPT !.at = "ready", !.payload = Nothing, !.sent = {}]]
  /\ UNCHANGED row

\* The save's answer makes the page load everything again ...
StartLoad(e) ==
  /\ form[e].at = "saved"
  /\ form' = [form EXCEPT ![e] = [@ EXCEPT !.at = "load", !.answer = Masked(row),
                                           !.payload = Nothing, !.sent = {}]]
  /\ UNCHANGED row

\* ... and what was typed after the save is gone.
FinishLoad(e) ==
  /\ form[e].at = "load"
  /\ form' = [form EXCEPT ![e] = [@ EXCEPT !.at = "ready", !.answer = Nothing, !.dirty = FALSE,
                                           !.shown = form[e].answer, !.typed = {}]]
  /\ UNCHANGED row

\* An error: what was typed stays, but is not known as such any longer.
LoadFails(e) ==
  /\ form[e].at = "load"
  /\ form' = [form EXCEPT ![e] = [@ EXCEPT !.at = "ready", !.answer = Nothing, !.dirty = FALSE]]
  /\ UNCHANGED row

SettingsNext ==
  \E e \in Editors :
    \/ StartSilentLoad(e) \/ FinishSilentLoad(e) \/ SilentLoadFails(e)
    \/ Save(e) \/ BulkUpdate(e) \/ SaveFails(e) \/ StartLoad(e) \/ FinishLoad(e) \/ LoadFails(e)
    \/ \E f \in Fields, v \in Values \cup {Blank} : Type(e, f, v)

SettingsSpec == SettingsInit /\ [][SettingsNext]_settingsVars
-----------------------------------------------------------------------------
\* However old the copies in the open pages are, whichever of them is saved, and whatever
\* fails, is typed or is loaded between a click and its commit: a stored secret becomes
\* another value only when that value had been typed into the page that was saved: no mask
\* and no earlier secret is written back.  It is emptied only by a page that showed it
\* empty, which may also be a copy from before the secret was first set.
SecretSurvives ==
  [][\A s \in Secrets : row'[s] # row[s] =>
       \E e \in Editors : /\ row'[s] = form[e].payload[s]
                          /\ s \in form[e].sent \/ row'[s] = Blank]_settingsVars
=============================================================================
