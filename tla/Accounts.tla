------------------------------- MODULE Accounts -------------------------------
(***************************************************************************)
(* User accounts and the sessions they give (app/api/users.py, refresh,      *)
(* auto-login and the SAML callback in app/api/auth.py, get_current_user in  *)
(* app/dependencies.py), and the keys for lookup services that every user    *)
(* keeps under the username (app/api/user_api_keys.py).  A SELECT and the    *)
(* commit of what follows from it are steps of their own.  Passwords are in  *)
(* LoginProtection; changes of accounts need an administrator, and pktHub's  *)
(* is always there: its callers come with the suite token, and a username    *)
(* that need not have a row.                                                 *)
(***************************************************************************)
EXTENDS Naturals, FiniteSets

CONSTANTS
  Names,      \* usernames; an email is written as the username before its @
  Browsers,   \* each with at most one session, and one sign-in and one request for keys under way
  MaxUsers    \* bound: accounts ever created

ASSUME AccountsAssumption == MaxUsers \in Nat \ {0} /\ Names # {}

VARIABLES
  users,    \* per id: the row of the table users
  born,     \* how many accounts were created
  methods,  \* the settings auth_local_enabled and okta_saml_enabled
  key,      \* per username: who stored the key, and who chose what is shown
  signin,   \* per browser: the sign-in under way
  session,  \* per browser: the id its tokens name, the role they claim
  asking,   \* per browser: the request for keys under way, with the user it is from
  marking,  \* set-default-admin: the account it has checked
  handed    \* history: usernames with keys that changed hands

accountVars == <<users, born, methods, key, signin, session, asking, marking, handed>>

Ids   == 1..MaxUsers
Hub   == MaxUsers + 1          \* whoever a request with the suite token is from
Roles == {"admin", "viewer"}   \* analyst is to these what viewer is
NoRow == [there |-> FALSE, person |-> 0, name |-> CHOOSE n \in Names : TRUE,
          email |-> CHOOSE n \in Names : TRUE, role |-> "viewer", active |-> FALSE, flag |-> FALSE]
NoSession == [id |-> 0, person |-> 0, role |-> "viewer"]
NoSignin == [at |-> "none", email |-> CHOOSE n \in Names : TRUE, name |-> CHOOSE n \in Names : TRUE,
             role |-> "viewer", found |-> NoSession]
NoRequest == [person |-> 0, name |-> CHOOSE n \in Names : TRUE]

AccountsTypeOK ==
  /\ users \in [Ids -> [there : BOOLEAN, person : 0..MaxUsers, name : Names, email : Names,
                       role : Roles, active : BOOLEAN, flag : BOOLEAN]]
  /\ born \in 0..MaxUsers
  /\ methods \in [local : BOOLEAN, saml : BOOLEAN]
  /\ key \in [Names -> [stored : 0..Hub, chose : 0..Hub]]
  /\ signin \in [Browsers ->
       [at : {"none", "no saml", "off", "no default", "no account", "name", "again", "sync", "tokens"},
        email : Names, name : Names, role : Roles,
        found : [id : 0..MaxUsers, person : 0..MaxUsers, role : Roles]]]
  /\ session \in [Browsers -> [id : 0..MaxUsers, person : 0..MaxUsers, role : Roles]]
  /\ asking \in [Browsers -> [person : 0..Hub, name : Names]]
  /\ marking \in 0..MaxUsers
  /\ handed \subseteq Names

\* What seed_admin left: the first account is a default administrator.
AccountsInit ==
  /\ \E n \in Names :
       users = [i \in Ids |-> IF i = 1 THEN [there |-> TRUE, person |-> 1, name |-> n, email |-> n,
                                            role |-> "admin", active |-> TRUE, flag |-> TRUE]
                             ELSE NoRow]
  /\ born = 1
  /\ methods = [local |-> TRUE, saml |-> FALSE]
  /\ key = [n \in Names |-> [stored |-> 0, chose |-> 0]]
  /\ signin = [b \in Browsers |-> NoSignin]
  /\ session = [b \in Browsers |-> NoSession]
  /\ asking = [b \in Browsers |-> NoRequest]
  /\ marking = 0
  /\ handed = {}

Rows  == {i \in Ids : users[i].there}

\* The UNIQUE columns let the row i have this name and email.
Unique(i, name, email) == \A k \in Rows \ {i} : users[k].name # name /\ users[k].email # email
-----------------------------------------------------------------------------
(* The table *)

\* A slip in the schema: without AUTOINCREMENT the id of a deleted last row is used again.
ReusedId == CHOOSE i \in Ids : /\ \A k \in Rows : k < i \/ i = MaxUsers
                              /\ i > 1 => \E k \in Rows : k >= i - 1

\* INTEGER PRIMARY KEY AUTOINCREMENT
NextId == born + 1

\* Those of the names under which a user's keys are kept, or a request of a user is under
\* way: they change hands with the account.
InUse(names) == {n \in names : \/ {key[n].stored, key[n].chose} \cap Ids # {}
                               \/ \E b \in Browsers : asking[b].name = n /\ asking[b].person \in Ids}

Insert(name, email, role) ==
  /\ users' = [users EXCEPT ![NextId] = [there |-> TRUE, person |-> born + 1, name |-> name,
                email |-> email, role |-> role, active |-> TRUE, flag |-> FALSE]]
  /\ born' = born + 1
  /\ handed' = handed \cup InUse({name})

\* POST /api/users; a name or an email that is taken is refused with 409.
CreateUser(name, email, role) ==
  /\ born < MaxUsers /\ Unique(0, name, email)
  /\ Insert(name, email, role)
  /\ UNCHANGED <<methods, key, signin, session, asking, marking>>

\* PUT /api/users/{id}: name, email and role; the keys stay where they are.
UpdateUser(i, name, email, role) ==
  /\ i \in Rows /\ Unique(i, name, email)
  /\ users' = [users EXCEPT ![i] = [users[i] EXCEPT !.name = name, !.email = email, !.role = role]]
  /\ handed' = IF name # users[i].name THEN handed \cup InUse({name, users[i].name}) ELSE handed
  /\ UNCHANGED <<born, methods, key, signin, session, asking, marking>>

SetActive(i, active) ==
  /\ i \in Rows /\ users[i].active # active
  /\ users' = [users EXCEPT ![i].active = active]
  /\ UNCHANGED <<born, methods, key, signin, session, asking, marking, handed>>

\* DELETE /api/users/{id}; a row that an alert or a rule still refers to is refused.
DeleteUser(i) ==
  /\ i \in Rows
  /\ users' = [users EXCEPT ![i] = NoRow]
  /\ UNCHANGED <<born, methods, key, signin, session, asking, marking, handed>>

\* PATCH /api/users/{id}/set-default-admin checks the account ...
CheckDefault(i) ==
  /\ marking = 0 /\ i \in Rows /\ users[i].role = "admin" /\ users[i].active
  /\ marking' = i
  /\ UNCHANGED <<users, born, methods, key, signin, session, asking, handed>>

\* A slip: without the first of the two statements.
MarkedToo(i) == [k \in Ids |-> IF k = i /\ k \in Rows THEN [users[k] EXCEPT !.flag = TRUE] ELSE users[k]]

\* ... and moves the flag in one transaction; the account may be another by then, or gone.
Marked(i) == [k \in Ids |-> [users[k] EXCEPT !.flag = (k = i /\ k \in Rows)]]

MakeDefault ==
  /\ marking # 0
  /\ users' = Marked(marking)
  /\ marking' = 0
  /\ UNCHANGED <<born, methods, key, signin, session, asking, handed>>

\* The Authentication section of the Settings page is saved, in one transaction.
SetMethods(local, saml) ==
  /\ methods' = [local |-> local, saml |-> saml]
  /\ UNCHANGED <<users, born, key, signin, session, asking, marking, handed>>
-----------------------------------------------------------------------------
(* Sessions *)

Session(i) == [id |-> i, person |-> users[i].person, role |-> users[i].role]

Begin(b, where) == signin' = [signin EXCEPT ![b] = where]

\* POST /api/auth/login reads the row; what it takes to pass is in LoginProtection ...
Login(b, i) ==
  /\ signin[b] = NoSignin /\ i \in Rows /\ users[i].active
  /\ Begin(b, [NoSignin EXCEPT !.at = "tokens", !.found = Session(i)])
  /\ UNCHANGED <<users, born, methods, key, session, asking, marking, handed>>

\* ... and the tokens say what was read.
FinishLogin(b) ==
  /\ signin[b].at = "tokens"
  /\ session' = [session EXCEPT ![b] = signin[b].found]
  /\ Begin(b, NoSignin)
  /\ UNCHANGED <<users, born, methods, key, asking, marking, handed>>

\* get_current_user and POST /api/auth/refresh go by the row; refresh renews the claim.
Accepts(b) == session[b].id \in Rows /\ users[session[b].id].active

Refresh(b) ==
  /\ Accepts(b)
  /\ session' = [session EXCEPT ![b].role = users[session[b].id].role]
  /\ UNCHANGED <<users, born, methods, key, signin, asking, marking, handed>>

Logout(b) ==
  /\ session[b] # NoSession
  /\ session' = [session EXCEPT ![b] = NoSession]
  /\ UNCHANGED <<users, born, methods, key, signin, asking, marking, handed>>

\* POST /api/auth/auto-login reads the two settings one after the other ...
AskSaml(b) ==
  /\ signin[b] = NoSignin /\ ~methods.saml
  /\ Begin(b, [NoSignin EXCEPT !.at = "no saml"])
  /\ UNCHANGED <<users, born, methods, key, session, asking, marking, handed>>

AskLocal(b) ==
  /\ signin[b].at = "no saml"
  /\ Begin(b, IF methods.local THEN NoSignin ELSE [NoSignin EXCEPT !.at = "off"])
  /\ UNCHANGED <<users, born, methods, key, session, asking, marking, handed>>

\* ... then looks for the flagged account, whatever its role is by now ...
TakeDefault(b) ==
  /\ signin[b].at = "off"
  /\ LET default == {i \in Rows : users[i].flag /\ users[i].active}
     IN \/ /\ default = {} /\ UNCHANGED session
           /\ Begin(b, [NoSignin EXCEPT !.at = "no default"])
        \/ \E i \in default : session' = [session EXCEPT ![b] = Session(i)] /\ Begin(b, NoSignin)
  /\ UNCHANGED <<users, born, methods, key, asking, marking, handed>>

\* ... or the first administrator; without one there is no session.
TakeFirstAdmin(b) ==
  /\ signin[b].at = "no default"
  /\ LET admins == {i \in Rows : users[i].role = "admin" /\ users[i].active}
     IN \/ admins = {} /\ UNCHANGED session
        \/ \E i \in admins : /\ \A k \in admins : i <= k
                             /\ session' = [session EXCEPT ![b] = Session(i)]
  /\ Begin(b, NoSignin)
  /\ UNCHANGED <<users, born, methods, key, asking, marking, handed>>

\* The row that has the email a browser signs in with: if it is active, the role is
\* synchronised next.
LookUp(b, request) ==
  LET known == {i \in Rows : users[i].email = request.email}
  IN \/ /\ known = {}
        /\ Begin(b, IF request.at = "none" THEN [request EXCEPT !.at = "no account"] ELSE NoSignin)
     \/ \E i \in known : Begin(b, IF users[i].active
                                  THEN [request EXCEPT !.at = "sync", !.found = Session(i)] ELSE NoSignin)

\* The SAML callback: the provider names an email and a role, and the account is looked up.
Callback(b, email, role) ==
  /\ signin[b] = NoSignin /\ methods.saml
  /\ LookUp(b, [NoSignin EXCEPT !.email = email, !.role = role])
  /\ UNCHANGED <<users, born, methods, key, session, asking, marking, handed>>

\* Nobody has that email: the username is that of the email, or, if that is taken, one with
\* a suffix.
FindName(b, name) ==
  /\ signin[b].at = "no account"
  /\ (\E i \in Rows : users[i].name = signin[b].email) <=> name # signin[b].email
  /\ Begin(b, [signin[b] EXCEPT !.at = "name", !.name = name])
  /\ UNCHANGED <<users, born, methods, key, session, asking, marking, handed>>

\* An INSERT that another one came before ends in an error.
Provision(b) ==
  /\ signin[b].at = "name" /\ born < MaxUsers
  /\ LET r == signin[b]
     IN IF Unique(0, r.name, r.email)
        THEN Insert(r.name, r.email, r.role) /\ Begin(b, [r EXCEPT !.at = "again"])
        ELSE Begin(b, NoSignin) /\ UNCHANGED <<users, born, handed>>
  /\ UNCHANGED <<methods, key, session, asking, marking>>

\* The new row is read back.
ReadBack(b) ==
  /\ signin[b].at = "again"
  /\ LookUp(b, signin[b])
  /\ UNCHANGED <<users, born, methods, key, session, asking, marking, handed>>

\* The role is synchronised, of a row that may have been deactivated or deleted since,
\* and the tokens have what was read before.
SyncRole(b) ==
  /\ signin[b].at = "sync"
  /\ LET r == signin[b]
     IN /\ session' = [session EXCEPT ![b] = r.found]
        /\ users' = IF r.found.id \in Rows THEN [users EXCEPT ![r.found.id].role = r.role] ELSE users
  /\ Begin(b, NoSignin)
  /\ UNCHANGED <<born, methods, key, asking, marking, handed>>
-----------------------------------------------------------------------------
(* The keys for lookup services *)

\* A slip in the upserts: every row of the provider, whoever it belongs to.
AnyRow(name) == Names

RowsOf(name) == {name}

AskFor(b, person, name) ==
  /\ asking[b] = NoRequest
  /\ asking' = [asking EXCEPT ![b] = [person |-> person, name |-> name]]
  /\ UNCHANGED <<users, born, methods, key, signin, session, marking, handed>>

\* get_current_user reads the row of the session; what the request does, it does later, on
\* another connection and under the username that was read.
AskKeys(b) == Accepts(b) /\ AskFor(b, users[session[b].id].person, users[session[b].id].name)

\* With the suite token no row is read: the username is what pktHub says.
AskForHub(b, name) == AskFor(b, Hub, name)

Answered(b) ==
  /\ asking[b].person # 0
  /\ asking' = [asking EXCEPT ![b] = NoRequest]
  /\ UNCHANGED <<users, born, methods, signin, session, marking, handed>>

\* GET /api/user-api-keys, and a test of a key at its provider.
ReadKeys(b) == Answered(b) /\ UNCHANGED key

\* PUT /api/user-api-keys/{provider}: the key is stored, or cleared in place.
StoreKey(b, cleared) ==
  /\ Answered(b)
  /\ key' = [n \in Names |-> IF n \in RowsOf(asking[b].name)
               THEN [key[n] EXCEPT !.stored = IF cleared THEN 0 ELSE asking[b].person] ELSE key[n]]

\* The other upserts: shown at all, which fields, the free tier.
Choose(b) ==
  /\ Answered(b)
  /\ key' = [n \in Names |-> IF n \in RowsOf(asking[b].name)
               THEN [key[n] EXCEPT !.chose = asking[b].person] ELSE key[n]]

\* The users whose key and whose choices a request under this name finds.
Found(name) == {key[name].stored, key[name].chose} \cap Ids

AccountsNext ==
  \/ \E n, e \in Names, r \in Roles :
       CreateUser(n, e, r) \/ \E i \in Ids : UpdateUser(i, n, e, r)
  \/ \E i \in Ids : DeleteUser(i) \/ CheckDefault(i) \/ \E a \in BOOLEAN : SetActive(i, a)
  \/ MakeDefault
  \/ \E l, s \in BOOLEAN : SetMethods(l, s)
  \/ \E b \in Browsers :
       \/ FinishLogin(b) \/ Refresh(b) \/ Logout(b) \/ AskSaml(b) \/ AskLocal(b)
       \/ TakeDefault(b) \/ TakeFirstAdmin(b) \/ Provision(b) \/ ReadBack(b) \/ SyncRole(b)
       \/ AskKeys(b) \/ ReadKeys(b) \/ Choose(b)
       \/ \E i \in Ids : Login(b, i)
       \/ \E e \in Names, r \in Roles : Callback(b, e, r)
       \/ \E n \in Names : FindName(b, n) \/ AskForHub(b, n)
       \/ \E c \in BOOLEAN : StoreKey(b, c)

AccountsSpec == AccountsInit /\ [][AccountsNext]_accountVars
-----------------------------------------------------------------------------
\* At most one account is the default administrator, although another request may have
\* changed or deleted it after it was checked.
OneDefault == \A i, k \in Rows : users[i].flag /\ users[k].flag => i = k

\* A session never passes from a deleted account to a later one.  And a user's request
\* finds no key and no choice of another user, although it goes by the username it read
\* before: as long as that has not passed from one account to another with keys under it,
\* or with a request under way that may yet store some.  What pktHub stores
\* under a username is taken for that user's.
NothingIsInherited ==
  /\ \A b \in Browsers : session[b].id \in Rows => users[session[b].id].person = session[b].person
  /\ \A b \in Browsers : asking[b].person \in Ids /\ asking[b].name \notin handed =>
       Found(asking[b].name) \subseteq {asking[b].person}

\* No account is taken for another.
AccountsStayApart == OneDefault /\ NothingIsInherited
=============================================================================
