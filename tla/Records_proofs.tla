--------------------------- MODULE Records_proofs ---------------------------
(***************************************************************************)
(* Proofs about what the server keeps: Accounts, SettingsStore, Backup and *)
(* the rows of ManagedMode, for every set of usernames, every number of    *)
(* browsers and accounts, every number of pages, fields, secrets and       *)
(* values, and every number of backup runs and directories.                *)
(***************************************************************************)
EXTENDS Accounts, SettingsStore, Backup, ManagedMode, FiniteSetTheorems, TLAPS

-----------------------------------------------------------------------------
(* Accounts *)

UserRows == [there : BOOLEAN, person : 0..MaxUsers, name : Names, email : Names,
             role : Roles, active : BOOLEAN, flag : BOOLEAN]
Keys     == [stored : 0..Hub, chose : 0..Hub]
Sessions == {s \in [id : 0..MaxUsers, person : 0..MaxUsers, role : Roles] : s.person = s.id}
Signins  == [at : {"none", "no saml", "off", "no default", "no account", "name", "again", "sync", "tokens"},
             email : Names, name : Names, role : Roles, found : Sessions]
KeyRequests == [person : 0..Hub, name : Names]
Methods  == [local : BOOLEAN, saml : BOOLEAN]

\* An id stands for one person, for ever: AUTOINCREMENT.
RowsAreNumbered == \A i \in Ids : users[i].there => i <= born /\ users[i].person = i

\* The user p has the username n, or has stored something under it, or is about to.
Holds(p, n) ==
  \/ users[p].there /\ users[p].name = n
  \/ key[n].stored = p \/ key[n].chose = p
  \/ \E b \in Browsers : asking[b].person = p /\ asking[b].name = n

\* A username that has not changed hands is one user's.
KeysAreOwn == \A n \in Names, p, q \in Ids : n \notin handed /\ Holds(p, n) /\ Holds(q, n) => p = q

\* The inductive invariant.  That a session names the person of its id is part of its type.
AccountsInv ==
  /\ users \in [Ids -> UserRows] /\ born \in 0..MaxUsers
  /\ methods \in Methods
  /\ key \in [Names -> Keys]
  /\ signin \in [Browsers -> Signins]
  /\ session \in [Browsers -> Sessions]
  /\ asking \in [Browsers -> KeyRequests]
  /\ marking \in 0..MaxUsers /\ handed \subseteq Names
  /\ RowsAreNumbered /\ OneDefault /\ KeysAreOwn

\* Some username.
Anyone == CHOOSE n \in Names : TRUE

\* There is a name.
LEMMA SomeName == Anyone \in Names
BY AccountsAssumption DEF Anyone

\* Ids are numbers between nobody's and pktHub's.
LEMMA IdsAreNumbers ==
  /\ MaxUsers \in Nat /\ Hub \in Nat /\ Hub \notin Ids /\ 0 \notin Ids /\ 0 \in 0..MaxUsers
  /\ Hub \in 0..Hub /\ 0 \in 0..Hub /\ \A i \in Ids : i \in 0..MaxUsers /\ i \in 0..Hub
BY AccountsAssumption DEF Hub, Ids

\* The empty row, session, sign-in and request have their types.
LEMMA EmptyRecords ==
  /\ NoRow \in UserRows /\ ~NoRow.there /\ NoSession \in Sessions /\ NoSignin \in Signins
  /\ NoRequest \in KeyRequests /\ NoRequest.person = 0
<1>1. NoRow = [there |-> FALSE, person |-> 0, name |-> Anyone, email |-> Anyone,
               role |-> "viewer", active |-> FALSE, flag |-> FALSE]
  BY DEF NoRow, Anyone
<1>2. NoSignin = [at |-> "none", email |-> Anyone, name |-> Anyone, role |-> "viewer", found |-> NoSession]
  BY DEF NoSignin, Anyone
<1>3. NoRow \in UserRows /\ ~NoRow.there
  BY <1>1, IdsAreNumbers, SomeName DEF UserRows, Roles
<1>4. NoSession \in Sessions
  BY IdsAreNumbers DEF NoSession, Sessions, Roles
<1>5. NoSignin \in Signins
  BY <1>2, <1>4, SomeName DEF Signins, Roles
<1>6. NoRequest \in KeyRequests /\ NoRequest.person = 0
  BY IdsAreNumbers, SomeName DEF NoRequest, KeyRequests, Anyone
<1> QED BY <1>3, <1>4, <1>5, <1>6

\* The invariant is what the properties say, and more.
LEMMA InvImplies == AccountsInv => AccountsTypeOK /\ AccountsStayApart
<1> SUFFICES ASSUME AccountsInv PROVE AccountsTypeOK /\ AccountsStayApart
  OBVIOUS
<1>1. AccountsTypeOK
  <2>1. \A s \in Sessions : s \in [id : 0..MaxUsers, person : 0..MaxUsers, role : Roles]
    BY DEF Sessions
  <2>2. \A s \in Signins : s \in
          [at : {"none", "no saml", "off", "no default", "no account", "name", "again", "sync", "tokens"},
           email : Names, name : Names, role : Roles,
           found : [id : 0..MaxUsers, person : 0..MaxUsers, role : Roles]]
    BY <2>1 DEF Signins
  <2> QED BY <2>1, <2>2 DEF AccountsInv, AccountsTypeOK, UserRows, Keys, KeyRequests, Methods
<1>2. ASSUME NEW b \in Browsers, session[b].id \in Rows
      PROVE  users[session[b].id].person = session[b].person
  <2>1. session[b] \in Sessions
    BY DEF AccountsInv
  <2>2. session[b].id \in Ids /\ users[session[b].id].there
    BY <1>2 DEF Rows
  <2> QED BY <2>1, <2>2 DEF AccountsInv, RowsAreNumbered, Sessions
<1>3. ASSUME NEW b \in Browsers, asking[b].person \in Ids, asking[b].name \notin handed
      PROVE  Found(asking[b].name) \subseteq {asking[b].person}
  <2>1. asking[b].name \in Names
    BY DEF AccountsInv, KeyRequests
  <2>2. Holds(asking[b].person, asking[b].name)
    BY DEF Holds
  <2>3. \A p \in Found(asking[b].name) : p \in Ids /\ Holds(p, asking[b].name)
    BY DEF Found, Holds
  <2> QED BY <1>3, <2>1, <2>2, <2>3 DEF AccountsInv, KeysAreOwn
<1> QED BY <1>1, <1>2, <1>3 DEF AccountsStayApart, NothingIsInherited, AccountsInv
-----------------------------------------------------------------------------
\* A username stays one user's if nobody comes to it.
LEMMA NobodyComes ==
    ASSUME AccountsInv, handed \subseteq handed',
           \A n \in Names \ handed', p \in Ids : Holds(p, n)' => Holds(p, n)
    PROVE  KeysAreOwn'
<1> SUFFICES ASSUME NEW n \in Names, NEW p \in Ids, NEW q \in Ids, n \notin handed',
                    Holds(p, n)', Holds(q, n)'
             PROVE  p = q
  BY DEF KeysAreOwn, Ids
<1> QED BY DEF AccountsInv, KeysAreOwn

\* One row changes: what it has to be for the invariant to stay.
LEMMA OneRowChanges ==
    ASSUME AccountsInv, NEW i \in Ids, NEW r \in UserRows, users' = [users EXCEPT ![i] = r],
           born' \in 0..MaxUsers, born <= born',
           r.there => i <= born' /\ r.person = i,
           r.there /\ r.flag => \A k \in Rows \ {i} : ~users[k].flag,
           r.there /\ r.name \notin handed' =>
             (users[i].there /\ r.name = users[i].name)
             \/ \A p \in Ids : p # i => ~Holds(p, r.name),
           handed' \subseteq Names, handed \subseteq handed',
           UNCHANGED <<methods, key, asking, marking>>,
           signin' \in [Browsers -> Signins], session' \in [Browsers -> Sessions]
    PROVE  AccountsInv'
<1> USE DEF AccountsInv
<1>1. users' \in [Ids -> UserRows]
  OBVIOUS
<1>2. \A k \in Ids : users'[k] = IF k = i THEN r ELSE users[k]
  OBVIOUS
<1>3. RowsAreNumbered'
  <2> SUFFICES ASSUME NEW k \in Ids, users'[k].there PROVE k <= born' /\ users'[k].person = k
    BY DEF RowsAreNumbered, Ids
  <2>1. CASE k = i
    BY <1>2, <2>1
  <2>2. CASE k # i
    <3>1. k <= born /\ users[k].person = k
      BY <1>2, <2>2 DEF RowsAreNumbered
    <3>2. k \in Nat /\ born \in Nat /\ born' \in Nat
      BY AccountsAssumption DEF Ids
    <3> QED BY <1>2, <2>2, <3>1, <3>2
  <2> QED BY <2>1, <2>2
<1>4. OneDefault'
  <2>1. Rows' = {k \in Ids : users'[k].there}
    BY DEF Rows, Ids
  <2>2. ASSUME NEW k \in Rows', k # i PROVE k \in Rows \ {i} /\ users'[k] = users[k]
    BY <1>2, <2>1, <2>2 DEF Rows
  <2>3. i \in Rows' => r.there
    BY <1>2, <2>1
  <2>4. \A j, k \in Rows' : users'[j].flag /\ users'[k].flag => j = k
    BY <1>2, <2>2, <2>3 DEF OneDefault
  <2> QED BY <2>4 DEF OneDefault
<1>5. KeysAreOwn'
  <2> SUFFICES ASSUME NEW n \in Names, NEW p \in Ids, NEW q \in Ids, n \notin handed',
                      Holds(p, n)', Holds(q, n)'
               PROVE  p = q
    BY DEF KeysAreOwn, Ids
  <2>1. \A x \in Ids : Holds(x, n)' => Holds(x, n) \/ (x = i /\ r.there /\ r.name = n)
    BY <1>2 DEF Holds
  <2>2. CASE ~(r.there /\ r.name = n) \/ (users[i].there /\ users[i].name = n)
    <3>1. Holds(p, n) /\ Holds(q, n)
      BY <2>1, <2>2 DEF Holds
    <3> QED BY <3>1 DEF KeysAreOwn
  <2>3. CASE (r.there /\ r.name = n) /\ ~(users[i].there /\ users[i].name = n)
    BY <2>1, <2>3
  <2> QED BY <2>2, <2>3
<1> QED BY <1>1, <1>3, <1>4, <1>5

\* No row changes.
LEMMA RowsStay ==
    ASSUME AccountsInv, UNCHANGED <<users, born, handed>>,
           methods' \in Methods, key' \in [Names -> Keys], KeysAreOwn',
           signin' \in [Browsers -> Signins], session' \in [Browsers -> Sessions],
           asking' \in [Browsers -> KeyRequests], marking' \in 0..MaxUsers
    PROVE  AccountsInv'
<1>1. RowsAreNumbered'
  BY DEF AccountsInv, RowsAreNumbered, Ids
<1>2. OneDefault'
  BY DEF AccountsInv, OneDefault, Rows, Ids
<1> QED BY <1>1, <1>2 DEF AccountsInv

\* A session is made for the person of a row.
LEMMA SessionOfRow ==
    ASSUME AccountsInv, NEW i \in Rows PROVE Session(i) \in Sessions
<1>1. i \in Ids /\ users[i] \in UserRows /\ users[i].person = i /\ i \in 0..MaxUsers
  BY DEF Rows, AccountsInv, RowsAreNumbered, Ids
<1> QED BY <1>1 DEF Session, Sessions, UserRows

\* The row of an account.
LEMMA RowOf ==
    ASSUME AccountsInv, NEW i \in Rows
    PROVE  /\ i \in Ids /\ i \in 0..MaxUsers /\ users[i] \in UserRows /\ users[i].there
           /\ users[i].person = i /\ i <= born
BY DEF Rows, AccountsInv, RowsAreNumbered, Ids

\* Accounts are apart at the start.
LEMMA InitIsApart == AccountsInit => AccountsInv
<1> SUFFICES ASSUME AccountsInit PROVE AccountsInv
  OBVIOUS
<1>1. MaxUsers \in Nat /\ 1 \in Ids /\ 0 \in 0..MaxUsers /\ 1 \in 0..MaxUsers
  BY AccountsAssumption DEF Ids
<1>2. PICK n \in Names :
        users = [i \in Ids |-> IF i = 1 THEN [there |-> TRUE, person |-> 1, name |-> n, email |-> n,
                                            role |-> "admin", active |-> TRUE, flag |-> TRUE]
                             ELSE NoRow]
  BY DEF AccountsInit
<1>3. users \in [Ids -> UserRows]
  BY <1>1, <1>2, EmptyRecords DEF UserRows, Roles
<1>4. \A i \in Ids : users[i].there => i = 1
  BY <1>2, EmptyRecords
<1>5. users[1].person = 1
  BY <1>1, <1>2
<1>6. RowsAreNumbered
  BY <1>4, <1>5 DEF AccountsInit, RowsAreNumbered
<1>7. OneDefault
  BY <1>4 DEF OneDefault, Rows
<1>8. key \in [Names -> Keys] /\ \A m \in Names : key[m].stored = 0 /\ key[m].chose = 0
  BY IdsAreNumbers DEF AccountsInit, Keys
<1>9. asking \in [Browsers -> KeyRequests] /\ \A b \in Browsers : asking[b].person = 0
  BY EmptyRecords DEF AccountsInit
<1>10. KeysAreOwn
  <2>1. \A m \in Names, p \in Ids : Holds(p, m) => p = 1
    BY <1>4, <1>8, <1>9, IdsAreNumbers DEF Holds
  <2> QED BY <2>1 DEF KeysAreOwn
<1>11. /\ born \in 0..MaxUsers /\ marking \in 0..MaxUsers /\ handed \subseteq Names
       /\ methods \in Methods
  BY <1>1 DEF AccountsInit, Methods
<1>12. signin \in [Browsers -> Signins] /\ session \in [Browsers -> Sessions]
  BY EmptyRecords DEF AccountsInit
<1> QED BY <1>3, <1>6, <1>7, <1>8, <1>9, <1>10, <1>11, <1>12 DEF AccountsInv
-----------------------------------------------------------------------------
(* One lemma per action that writes a row *)

\* A name that is nobody's and not in use is held by nobody.
LEMMA FreeName ==
    ASSUME AccountsInv, NEW i, NEW name \in Names, NEW email, Unique(i, name, email), name \notin InUse({name})
    PROVE  \A p \in Ids : p # i => ~Holds(p, name)
<1>1. \A p \in Ids : p # i => ~(users[p].there /\ users[p].name = name)
  BY DEF Unique, Rows
<1>2. \A p \in Ids : key[name].stored # p /\ key[name].chose # p
  BY DEF InUse
<1>3. \A p \in Ids, b \in Browsers : ~(asking[b].person = p /\ asking[b].name = name)
  BY DEF InUse
<1> QED BY <1>1, <1>2, <1>3 DEF Holds

\* INSERT takes an id nobody had, and a name that is nobody's or changes hands.
LEMMA InsertKeeps ==
    ASSUME AccountsInv, NEW name \in Names, NEW email \in Names, NEW role \in Roles,
           born < MaxUsers, Unique(0, name, email), Insert(name, email, role),
           UNCHANGED <<methods, key, asking, marking>>,
           signin' \in [Browsers -> Signins], session' \in [Browsers -> Sessions]
    PROVE  AccountsInv'
<1> DEFINE r == [there |-> TRUE, person |-> born + 1, name |-> name, email |-> email,
                 role |-> role, active |-> TRUE, flag |-> FALSE]
<1>1. born \in Nat /\ MaxUsers \in Nat /\ born + 1 \in Ids /\ born + 1 \in 0..MaxUsers
  BY AccountsAssumption DEF AccountsInv, Ids
<1>2. r \in UserRows /\ r.there /\ r.person = born + 1 /\ ~r.flag /\ r.name = name /\ r.email = email
  BY <1>1 DEF UserRows
<1>3. /\ users' = [users EXCEPT ![born + 1] = r] /\ born' = born + 1
      /\ handed' = handed \cup InUse({name})
  BY DEF Insert, NextId
<1> HIDE DEF r
<1>4. handed' \subseteq Names /\ handed \subseteq handed'
  BY <1>3 DEF AccountsInv, InUse
<1>5. name \notin handed' => \A p \in Ids : p # 0 => ~Holds(p, name)
  BY <1>3, FreeName
<1>6. r.name \notin handed' => \A p \in Ids : ~Holds(p, r.name)
  BY <1>2, <1>5, IdsAreNumbers
<1>7. born' \in 0..MaxUsers /\ born <= born' /\ born + 1 <= born'
  BY <1>1, <1>3
<1>8. PICK i \in Ids : i = born + 1
  BY <1>1
<1>9. users' = [users EXCEPT ![i] = r] /\ i <= born' /\ r.person = i
  BY <1>2, <1>3, <1>7, <1>8
<1> QED BY <1>2, <1>4, <1>6, <1>7, <1>9, OneRowChanges

\* Editing a user keeps accounts apart, also if the user is renamed.
LEMMA UpdateUserKeeps ==
    ASSUME AccountsInv, NEW i \in Ids, NEW name \in Names, NEW email \in Names,
           NEW role \in Roles, UpdateUser(i, name, email, role)
    PROVE  AccountsInv'
<1> DEFINE r == [users[i] EXCEPT !.name = name, !.email = email, !.role = role]
<1>1. i \in Rows /\ Unique(i, name, email) /\ users' = [users EXCEPT ![i] = r]
  BY DEF UpdateUser
<1>2. users[i] \in UserRows /\ users[i].person = i /\ i <= born /\ users[i].there
  BY <1>1, RowOf
<1>3. /\ r \in UserRows /\ r.person = i /\ r.flag = users[i].flag
      /\ r.name = name /\ r.email = email
  BY <1>2 DEF UserRows
<1> HIDE DEF r
<1>4. handed' = IF name # users[i].name THEN handed \cup InUse({name, users[i].name}) ELSE handed
  BY DEF UpdateUser
<1>5. handed' \subseteq Names /\ handed \subseteq handed'
  BY <1>2, <1>4 DEF AccountsInv, InUse, UserRows
<1>6. name \notin handed' => name = users[i].name \/ \A p \in Ids : p # i => ~Holds(p, name)
  <2>1. CASE name # users[i].name
    <3>1. name \notin handed' => name \notin InUse({name})
      BY <1>4, <2>1 DEF InUse
    <3> QED BY <1>1, <3>1, FreeName
  <2> QED BY <2>1
<1>7. r.flag => \A k \in Rows \ {i} : ~users[k].flag
  BY <1>1, <1>3 DEF AccountsInv, OneDefault
<1>8. /\ UNCHANGED <<methods, key, asking, marking>> /\ born' = born
      /\ signin' \in [Browsers -> Signins] /\ session' \in [Browsers -> Sessions]
      /\ born' \in 0..MaxUsers /\ born <= born'
  BY AccountsAssumption DEF UpdateUser, AccountsInv
<1>9. r.name \notin handed' => (users[i].there /\ r.name = users[i].name)
                               \/ \A p \in Ids : p # i => ~Holds(p, r.name)
  BY <1>2, <1>3, <1>6
<1> QED BY <1>1, <1>2, <1>3, <1>5, <1>7, <1>8, <1>9, OneRowChanges

\* The row keeps its name and its flag: SetActive and SyncRole.
LEMMA RowKeeps ==
    ASSUME AccountsInv, NEW i \in Rows, NEW r \in UserRows, users' = [users EXCEPT ![i] = r],
           r.person = i, r.name = users[i].name, r.flag = users[i].flag,
           UNCHANGED <<born, handed, methods, key, asking, marking>>,
           signin' \in [Browsers -> Signins], session' \in [Browsers -> Sessions]
    PROVE  AccountsInv'
<1>1. i \in Ids /\ users[i].there /\ i <= born
  BY RowOf
<1>2. r.flag => \A k \in Rows \ {i} : ~users[k].flag
  BY DEF AccountsInv, OneDefault
<1>3. born' \in 0..MaxUsers /\ born <= born' /\ handed' \subseteq Names /\ handed \subseteq handed'
  BY AccountsAssumption DEF AccountsInv
<1> QED BY <1>1, <1>2, <1>3, OneRowChanges

\* Deleting a user keeps accounts apart.
LEMMA DeleteUserKeeps ==
    ASSUME AccountsInv, NEW i \in Ids, DeleteUser(i) PROVE AccountsInv'
<1>1. users' = [users EXCEPT ![i] = NoRow] /\ NoRow \in UserRows /\ ~NoRow.there
  BY EmptyRecords DEF DeleteUser
<1>2. /\ UNCHANGED <<methods, key, asking, marking>> /\ born' = born /\ handed' = handed
      /\ signin' \in [Browsers -> Signins] /\ session' \in [Browsers -> Sessions]
      /\ born' \in 0..MaxUsers /\ born <= born' /\ handed' \subseteq Names
  BY AccountsAssumption DEF DeleteUser, AccountsInv
<1> QED BY <1>1, <1>2, OneRowChanges

\* Turning a user on or off keeps accounts apart.
LEMMA SetActiveKeeps ==
    ASSUME AccountsInv, NEW i \in Ids, NEW active \in BOOLEAN, SetActive(i, active) PROVE AccountsInv'
<1> DEFINE r == [there |-> users[i].there, person |-> users[i].person, name |-> users[i].name,
                 email |-> users[i].email, role |-> users[i].role, active |-> active,
                 flag |-> users[i].flag]
<1>1. i \in Rows /\ users' = [users EXCEPT ![i].active = active]
  BY DEF SetActive
<1>2. users \in [Ids -> UserRows] /\ users[i] \in UserRows /\ users[i].person = i
  BY <1>1, RowOf DEF AccountsInv
<1>3. [users[i] EXCEPT !.active = active] = r
  BY <1>2 DEF UserRows
<1>4. r \in UserRows /\ r.person = i
  BY <1>2 DEF UserRows
<1>5. users' = [users EXCEPT ![i] = r]
  BY <1>1, <1>3
<1>6. /\ UNCHANGED <<born, handed, methods, key, asking, marking>>
      /\ signin' \in [Browsers -> Signins] /\ session' \in [Browsers -> Sessions]
  BY DEF SetActive, AccountsInv
<1>7. r.name = users[i].name /\ r.flag = users[i].flag
  OBVIOUS
<1> HIDE DEF r
<1> QED BY <1>1, <1>4, <1>5, <1>6, <1>7, RowKeeps

\* The role from a SAML answer goes to the row that was read, if it is still there.
LEMMA SyncRoleKeeps ==
    ASSUME AccountsInv, NEW b \in Browsers, SyncRole(b) PROVE AccountsInv'
<1>1. signin[b] \in Signins /\ signin[b].role \in Roles /\ signin[b].found \in Sessions
      /\ signin' \in [Browsers -> Signins]
  BY EmptyRecords DEF SyncRole, Begin, AccountsInv, Signins
<1>2. session' \in [Browsers -> Sessions]
  BY <1>1 DEF SyncRole, AccountsInv
<1>3. UNCHANGED <<born, handed, methods, key, asking, marking>>
  BY DEF SyncRole
<1>4. CASE signin[b].found.id \in Rows
  <2>1. PICK i \in Rows : i = signin[b].found.id
    BY <1>4
  <2> DEFINE r == [there |-> users[i].there, person |-> users[i].person, name |-> users[i].name,
                   email |-> users[i].email, role |-> signin[b].role, active |-> users[i].active,
                   flag |-> users[i].flag]
  <2>2. users' = [users EXCEPT ![i].role = signin[b].role]
    BY <1>4, <2>1 DEF SyncRole
  <2>3. users \in [Ids -> UserRows] /\ i \in Ids /\ users[i] \in UserRows /\ users[i].person = i
    BY RowOf DEF AccountsInv
  <2>4. [users[i] EXCEPT !.role = signin[b].role] = r
    BY <2>3 DEF UserRows
  <2>5. r \in UserRows /\ r.person = i
    BY <1>1, <2>3 DEF UserRows
  <2>6. users' = [users EXCEPT ![i] = r]
    BY <2>2, <2>3, <2>4
  <2>7. r.name = users[i].name /\ r.flag = users[i].flag
    OBVIOUS
  <2> HIDE DEF r
  <2> QED BY <1>1, <1>2, <1>3, <2>5, <2>6, <2>7, RowKeeps
<1>5. CASE signin[b].found.id \notin Rows
  <2>1. users' = users
    BY <1>5 DEF SyncRole
  <2>2. KeysAreOwn'
    BY <1>3, <2>1, NobodyComes DEF Holds
  <2>3. /\ methods' \in Methods /\ key' \in [Names -> Keys] /\ marking' \in 0..MaxUsers
        /\ asking' \in [Browsers -> KeyRequests]
    BY <1>3 DEF AccountsInv
  <2> QED BY <1>1, <1>2, <1>3, <2>1, <2>2, <2>3, RowsStay
<1> QED BY <1>4, <1>5

\* The flag is moved in one transaction, so that no two rows have it.
LEMMA MakeDefaultKeeps ==
    ASSUME AccountsInv, MakeDefault PROVE AccountsInv'
<1>1. users \in [Ids -> UserRows] /\ users' = [k \in Ids |->
        [users[k] EXCEPT !.flag = (k = marking /\ k \in Rows)]]
  BY DEF AccountsInv, MakeDefault, Marked
<1>2. ASSUME NEW k \in Ids
      PROVE  /\ users'[k] \in UserRows /\ users'[k].there = users[k].there
             /\ users'[k].person = users[k].person /\ users'[k].name = users[k].name
             /\ users'[k].flag => k = marking
  <2> DEFINE f == (k = marking /\ k \in Rows)
  <2>1. f \in BOOLEAN /\ (f => k = marking)
    OBVIOUS
  <2>2. users'[k] = [users[k] EXCEPT !.flag = f] /\ users[k] \in UserRows
    BY <1>1
  <2> HIDE DEF f
  <2>3. [users[k] EXCEPT !.flag = f] =
          [there |-> users[k].there, person |-> users[k].person, name |-> users[k].name,
           email |-> users[k].email, role |-> users[k].role, active |-> users[k].active, flag |-> f]
    BY <2>2 DEF UserRows
  <2>4. users'[k] \in UserRows
    BY <2>1, <2>2, <2>3 DEF UserRows
  <2>5. users'[k].flag = f
    BY <2>2, <2>3
  <2> QED BY <2>1, <2>2, <2>3, <2>4, <2>5
<1>3. users' \in [Ids -> UserRows]
  BY <1>1, <1>2
<1>4. /\ UNCHANGED <<born, methods, key, signin, session, asking, handed>> /\ marking' = 0
      /\ marking' \in 0..MaxUsers
  BY AccountsAssumption DEF MakeDefault
<1>5. RowsAreNumbered'
  BY <1>2, <1>4 DEF AccountsInv, RowsAreNumbered, Ids
<1>6. OneDefault'
  <2>1. Rows' = Rows
    BY <1>2 DEF Rows, Ids
  <2>2. \A i, k \in Rows : users'[i].flag /\ users'[k].flag => i = k
    BY <1>2 DEF Rows
  <2> QED BY <2>1, <2>2 DEF OneDefault
<1>7. KeysAreOwn'
  <2>1. \A n \in Names, p \in Ids : Holds(p, n)' => Holds(p, n)
    BY <1>2, <1>4 DEF Holds
  <2> QED BY <1>4, <2>1, NobodyComes
<1> QED BY <1>3, <1>4, <1>5, <1>6, <1>7 DEF AccountsInv
-----------------------------------------------------------------------------
(* The keys: what is written under a username comes from who held it *)

\* A request is made by the user who has the name, or by pktHub.
LEMMA AskKeeps ==
    ASSUME AccountsInv, NEW b \in Browsers, AskKeys(b) \/ \E n \in Names : AskForHub(b, n)
    PROVE  AccountsInv'
<1>1. PICK p \in 0..Hub, m \in Names : AskFor(b, p, m) /\ (p \in Ids => Holds(p, m))
  <2>1. CASE AskKeys(b)
    <3>1. session[b].id \in Rows
      BY <2>1 DEF AskKeys, Accepts
    <3>2. PICK i \in Rows : i = session[b].id
      BY <3>1
    <3>3. i \in Ids /\ users[i].person = i /\ users[i].there /\ users[i].name \in Names
      BY RowOf DEF UserRows
    <3>4. Holds(i, users[i].name)
      BY <3>3 DEF Holds
    <3>5. AskFor(b, i, users[i].name)
      BY <2>1, <3>2, <3>3 DEF AskKeys
    <3> QED BY <3>3, <3>4, <3>5, IdsAreNumbers
  <2>2. CASE \E n \in Names : AskForHub(b, n)
    BY <2>2, IdsAreNumbers DEF AskForHub
  <2> QED BY <2>1, <2>2
<1>2. /\ asking' = [asking EXCEPT ![b] = [person |-> p, name |-> m]]
      /\ UNCHANGED <<users, born, methods, key, signin, session, marking, handed>>
  BY <1>1 DEF AskFor
<1>3. asking' \in [Browsers -> KeyRequests]
  BY <1>2 DEF AccountsInv, KeyRequests
<1>4. \A c \in Browsers : asking'[c] = IF c = b THEN [person |-> p, name |-> m] ELSE asking[c]
  BY <1>2 DEF AccountsInv
<1>5. \A n \in Names, q \in Ids : Holds(q, n)' => Holds(q, n)
  <2> SUFFICES ASSUME NEW n \in Names, NEW q \in Ids, Holds(q, n)' PROVE Holds(q, n)
    OBVIOUS
  <2>1. CASE p = q /\ m = n
    BY <1>1, <2>1
  <2>2. CASE ~(p = q /\ m = n)
    BY <1>2, <1>4, <2>2 DEF Holds
  <2> QED BY <2>1, <2>2
<1>6. KeysAreOwn'
  BY <1>2, <1>5, NobodyComes
<1> QED BY <1>2, <1>3, <1>6, RowsStay DEF AccountsInv

\* A request under way is answered: what it stores, its person held before.
LEMMA AnswerKeeps ==
    ASSUME AccountsInv, NEW b \in Browsers, ReadKeys(b) \/ Choose(b) \/ \E c \in BOOLEAN : StoreKey(b, c)
    PROVE  AccountsInv'
<1>1. PICK p \in 0..Hub, m \in Names : p = asking[b].person /\ m = asking[b].name
  BY DEF AccountsInv, KeyRequests
<1>2. Holds(p, m)
  BY <1>1 DEF Holds
<1>3. /\ asking' = [asking EXCEPT ![b] = NoRequest]
      /\ UNCHANGED <<users, born, methods, signin, session, marking, handed>>
  BY DEF ReadKeys, Choose, StoreKey, Answered
<1>4. asking' \in [Browsers -> KeyRequests]
      /\ \A c \in Browsers : asking'[c] = IF c = b THEN NoRequest ELSE asking[c]
  BY <1>3, EmptyRecords DEF AccountsInv
<1>5. /\ key' \in [Names -> Keys]
      /\ \A n \in Names : /\ key'[n].stored \in {0, key[n].stored} \/ (n = m /\ key'[n].stored = p)
                          /\ key'[n].chose = key[n].chose \/ (n = m /\ key'[n].chose = p)
  <2>1. \A k \in Keys, q \in 0..Hub :
          /\ [k EXCEPT !.stored = q] \in Keys /\ [k EXCEPT !.chose = q] \in Keys
          /\ [k EXCEPT !.stored = q].stored = q /\ [k EXCEPT !.stored = q].chose = k.chose
          /\ [k EXCEPT !.chose = q].chose = q /\ [k EXCEPT !.chose = q].stored = k.stored
    BY DEF Keys
  <2>2. key \in [Names -> Keys] /\ 0 \in 0..Hub
    BY IdsAreNumbers DEF AccountsInv
  <2>3. CASE ReadKeys(b)
    BY <2>2, <2>3 DEF ReadKeys
  <2>4. CASE Choose(b)
    <3>1. key' = [n \in Names |-> IF n = m THEN [key[n] EXCEPT !.chose = p] ELSE key[n]]
      BY <1>1, <2>4 DEF Choose, RowsOf
    <3> QED BY <2>1, <2>2, <3>1
  <2>5. ASSUME NEW c \in BOOLEAN, StoreKey(b, c)
        PROVE  /\ key' \in [Names -> Keys]
               /\ \A n \in Names : /\ key'[n].stored \in {0, key[n].stored} \/ (n = m /\ key'[n].stored = p)
                                   /\ key'[n].chose = key[n].chose
    <3>1. PICK q \in 0..Hub : q = (IF c THEN 0 ELSE p)
      BY <2>2
    <3>2. key' = [n \in Names |-> IF n = m THEN [key[n] EXCEPT !.stored = q] ELSE key[n]]
      BY <1>1, <2>5, <3>1 DEF StoreKey, RowsOf
    <3>3. key' \in [Names -> Keys]
      BY <2>1, <2>2, <3>2
    <3>4. \A n \in Names : n = m => key'[n].stored = q /\ key'[n].chose = key[n].chose
      <4>1. key'[m] = [key[m] EXCEPT !.stored = q] /\ key[m] \in Keys
        BY <2>2, <3>2
      <4>2. key'[m].stored = q /\ key'[m].chose = key[m].chose
        BY <2>1, <4>1
      <4> QED BY <4>2
    <3>5. \A n \in Names : n # m => key'[n] = key[n]
      BY <2>2, <3>2
    <3> QED BY <3>1, <3>3, <3>4, <3>5
  <2> QED BY <2>3, <2>4, <2>5
<1>6. \A n \in Names, q \in Ids : Holds(q, n)' => Holds(q, n)
  <2> SUFFICES ASSUME NEW n \in Names, NEW q \in Ids, Holds(q, n)' PROVE Holds(q, n)
    OBVIOUS
  <2>1. q # 0
    BY IdsAreNumbers
  <2>2. CASE users'[q].there /\ users'[q].name = n
    BY <1>3, <2>2 DEF Holds
  <2>3. CASE key'[n].stored = q \/ key'[n].chose = q
    <3>1. CASE q = p /\ n = m
      BY <1>2, <3>1
    <3>2. CASE ~(q = p /\ n = m)
      BY <1>5, <2>1, <2>3, <3>2 DEF Holds
    <3> QED BY <3>1, <3>2
  <2>4. ASSUME NEW c \in Browsers, asking'[c].person = q, asking'[c].name = n PROVE Holds(q, n)
    BY <1>4, <2>1, <2>4, EmptyRecords DEF Holds
  <2> QED BY <2>2, <2>3, <2>4 DEF Holds
<1>7. KeysAreOwn'
  BY <1>3, <1>6, NobodyComes
<1> QED BY <1>3, <1>4, <1>5, <1>7, RowsStay DEF AccountsInv
-----------------------------------------------------------------------------
(* The steps that write no row and no key *)

\* A step that writes neither rows nor keys keeps accounts apart.
LEMMA Unwritten ==
    ASSUME AccountsInv, UNCHANGED <<users, born, key, asking, handed>>,
           methods' \in Methods, marking' \in 0..MaxUsers,
           signin' \in [Browsers -> Signins], session' \in [Browsers -> Sessions]
    PROVE  AccountsInv'
<1>1. KeysAreOwn'
  BY NobodyComes DEF Holds
<1> QED BY <1>1, RowsStay DEF AccountsInv

\* Signing in, refreshing and signing out write neither rows nor keys.
LEMMA TokensKeep ==
    ASSUME AccountsInv, NEW b \in Browsers,
           \/ \E i \in Ids : Login(b, i)
           \/ FinishLogin(b) \/ Refresh(b) \/ Logout(b) \/ TakeDefault(b) \/ TakeFirstAdmin(b)
    PROVE  AccountsInv'
<1>1. /\ methods \in Methods /\ marking \in 0..MaxUsers
      /\ signin \in [Browsers -> Signins] /\ session \in [Browsers -> Sessions]
  BY DEF AccountsInv
<1>2. ASSUME NEW i \in Ids, Login(b, i) PROVE AccountsInv'
  <2>1. Session(i) \in Sessions
    BY <1>2, SessionOfRow DEF Login
  <2>2. [NoSignin EXCEPT !.at = "tokens", !.found = Session(i)] \in Signins
    BY <2>1, EmptyRecords DEF Signins
  <2>3. signin' \in [Browsers -> Signins]
    BY <1>1, <1>2, <2>2 DEF Login, Begin
  <2> QED BY <1>1, <1>2, <2>3, Unwritten DEF Login
<1>3. CASE FinishLogin(b)
  <2>1. signin[b].found \in Sessions
    BY <1>1 DEF Signins
  <2>2. signin' \in [Browsers -> Signins] /\ session' \in [Browsers -> Sessions]
    BY <1>1, <1>3, <2>1, EmptyRecords DEF FinishLogin, Begin
  <2> QED BY <1>1, <1>3, <2>2, Unwritten DEF FinishLogin
<1>4. CASE Refresh(b)
  <2> DEFINE i == session[b].id
  <2>1. i \in Rows /\ users[i] \in UserRows /\ users[i].role \in Roles
    BY <1>4, RowOf DEF Refresh, Accepts, UserRows
  <2>2. [session[b] EXCEPT !.role = users[i].role] \in Sessions
    <3>1. session[b] \in [id : 0..MaxUsers, person : 0..MaxUsers, role : Roles]
          /\ session[b].person = session[b].id
      BY <1>1 DEF Sessions
    <3> QED BY <2>1, <3>1 DEF Sessions
  <2>3. session' = [session EXCEPT ![b].role = users[i].role]
    BY <1>4 DEF Refresh
  <2>4. session' \in [Browsers -> Sessions]
    BY <1>1, <2>2, <2>3
  <2> QED BY <1>1, <1>4, <2>4, Unwritten DEF Refresh
<1>5. CASE Logout(b)
  <2>1. session' \in [Browsers -> Sessions]
    BY <1>1, <1>5, EmptyRecords DEF Logout
  <2> QED BY <1>1, <1>5, <2>1, Unwritten DEF Logout
<1>6. CASE TakeDefault(b)
  <2>1. [NoSignin EXCEPT !.at = "no default"] \in Signins
    BY EmptyRecords DEF Signins
  <2>2. \/ UNCHANGED session /\ Begin(b, [NoSignin EXCEPT !.at = "no default"])
        \/ \E i \in Rows : session' = [session EXCEPT ![b] = Session(i)] /\ Begin(b, NoSignin)
    BY <1>6 DEF TakeDefault
  <2>3. signin' \in [Browsers -> Signins] /\ session' \in [Browsers -> Sessions]
    BY <1>1, <2>1, <2>2, EmptyRecords, SessionOfRow DEF Begin
  <2> QED BY <1>1, <1>6, <2>3, Unwritten DEF TakeDefault
<1>7. CASE TakeFirstAdmin(b)
  <2>1. UNCHANGED session \/ \E i \in Rows : session' = [session EXCEPT ![b] = Session(i)]
    BY <1>7 DEF TakeFirstAdmin
  <2>2. session' \in [Browsers -> Sessions]
    BY <1>1, <2>1, SessionOfRow
  <2>3. signin' \in [Browsers -> Signins]
    BY <1>1, <1>7, EmptyRecords DEF TakeFirstAdmin, Begin
  <2> QED BY <1>1, <1>7, <2>2, <2>3, Unwritten DEF TakeFirstAdmin
<1> QED BY <1>2, <1>3, <1>4, <1>5, <1>6, <1>7

\* What a lookup by email begins.
LEMMA LookUpTypes ==
    ASSUME AccountsInv, NEW b \in Browsers, NEW r \in Signins, LookUp(b, r)
    PROVE  signin' \in [Browsers -> Signins]
<1>1. [r EXCEPT !.at = "no account"] \in Signins
  BY DEF Signins
<1>2. \A i \in Rows : [r EXCEPT !.at = "sync", !.found = Session(i)] \in Signins
  BY SessionOfRow DEF Signins
<1>3. PICK s \in Signins : signin' = [signin EXCEPT ![b] = s]
  BY <1>1, <1>2, EmptyRecords DEF LookUp, Begin
<1> QED BY <1>3 DEF AccountsInv

\* Asking for a sign-in and its answers write neither rows nor keys.
LEMMA RequestsKeep ==
    ASSUME AccountsInv, NEW b \in Browsers,
           \/ AskSaml(b) \/ AskLocal(b) \/ ReadBack(b)
           \/ \E n \in Names : FindName(b, n)
           \/ \E e \in Names, r \in Roles : Callback(b, e, r)
    PROVE  AccountsInv'
<1>1. /\ methods \in Methods /\ marking \in 0..MaxUsers
      /\ signin \in [Browsers -> Signins] /\ session \in [Browsers -> Sessions]
  BY DEF AccountsInv
<1>2. CASE AskSaml(b)
  <2>1. [NoSignin EXCEPT !.at = "no saml"] \in Signins
    BY EmptyRecords DEF Signins
  <2> QED BY <1>1, <1>2, <2>1, Unwritten DEF AskSaml, Begin
<1>3. CASE AskLocal(b)
  <2>1. [NoSignin EXCEPT !.at = "off"] \in Signins
    BY EmptyRecords DEF Signins
  <2> QED BY <1>1, <1>3, <2>1, EmptyRecords, Unwritten DEF AskLocal, Begin
<1>4. ASSUME NEW e \in Names, NEW r \in Roles, Callback(b, e, r) PROVE AccountsInv'
  <2>1. [NoSignin EXCEPT !.email = e, !.role = r] \in Signins
    BY EmptyRecords DEF Signins
  <2>2. signin' \in [Browsers -> Signins]
    BY <1>4, <2>1, LookUpTypes DEF Callback
  <2> QED BY <1>1, <1>4, <2>2, Unwritten DEF Callback
<1>5. CASE ReadBack(b)
  <2>1. signin' \in [Browsers -> Signins]
    <3>1. PICK r \in Signins : r = signin[b]
      BY <1>1
    <3> QED BY <1>5, <3>1, LookUpTypes DEF ReadBack
  <2> QED BY <1>1, <1>5, <2>1, Unwritten DEF ReadBack
<1>6. ASSUME NEW n \in Names, FindName(b, n) PROVE AccountsInv'
  <2>1. [signin[b] EXCEPT !.at = "name", !.name = n] \in Signins
    BY <1>1 DEF Signins
  <2> QED BY <1>1, <1>6, <2>1, Unwritten DEF FindName, Begin
<1> QED BY <1>2, <1>3, <1>4, <1>5, <1>6

\* A row that SAML creates gets an id and a person of its own.
LEMMA ProvisionKeeps ==
    ASSUME AccountsInv, NEW b \in Browsers, Provision(b) PROVE AccountsInv'
<1> DEFINE r == signin[b]
<1>1. /\ methods \in Methods /\ marking \in 0..MaxUsers
      /\ signin \in [Browsers -> Signins] /\ session \in [Browsers -> Sessions]
  BY DEF AccountsInv
<1>2. r \in Signins /\ r.email \in Names /\ r.name \in Names /\ r.role \in Roles
  BY <1>1 DEF Signins
<1>3. CASE Unique(0, r.name, r.email)
  <2>1. Insert(r.name, r.email, r.role) /\ born < MaxUsers
        /\ signin' = [signin EXCEPT ![b] = [r EXCEPT !.at = "again"]]
    BY <1>3 DEF Provision, Begin
  <2>2. [r EXCEPT !.at = "again"] \in Signins
    BY <1>2 DEF Signins
  <2>3. signin' \in [Browsers -> Signins]
    BY <1>1, <2>1, <2>2
  <2>4. PICK n \in Names, e \in Names, o \in Roles : n = r.name /\ e = r.email /\ o = r.role
    BY <1>2
  <2> QED BY <1>1, <1>3, <2>1, <2>3, <2>4, InsertKeeps DEF Provision
<1>4. CASE ~Unique(0, r.name, r.email)
  <2>1. signin' \in [Browsers -> Signins] /\ UNCHANGED <<users, born, handed>>
    BY <1>1, <1>4, EmptyRecords DEF Provision, Begin
  <2> QED BY <1>1, <1>4, <2>1, Unwritten DEF Provision
<1> QED BY <1>3, <1>4
-----------------------------------------------------------------------------
\* Every step keeps accounts apart.
LEMMA StepKeeps == AccountsInv /\ [AccountsNext]_accountVars => AccountsInv'
<1> SUFFICES ASSUME AccountsInv, [AccountsNext]_accountVars PROVE AccountsInv'
  OBVIOUS
<1>1. ASSUME NEW n \in Names, NEW e \in Names, NEW r \in Roles, CreateUser(n, e, r)
      PROVE  AccountsInv'
  BY <1>1, InsertKeeps DEF CreateUser, AccountsInv
<1>2. ASSUME NEW n \in Names, NEW e \in Names, NEW r \in Roles, NEW i \in Ids,
             UpdateUser(i, n, e, r)
      PROVE  AccountsInv'
  BY <1>2, UpdateUserKeeps
<1>3. ASSUME NEW i \in Ids, DeleteUser(i) PROVE AccountsInv'
  BY <1>3, DeleteUserKeeps
<1>4. ASSUME NEW i \in Ids, CheckDefault(i) PROVE AccountsInv'
  <2>1. marking' \in 0..MaxUsers
    BY <1>4, RowOf DEF CheckDefault
  <2> QED BY <1>4, <2>1, Unwritten DEF CheckDefault, AccountsInv
<1>5. ASSUME NEW i \in Ids, NEW a \in BOOLEAN, SetActive(i, a) PROVE AccountsInv'
  BY <1>5, SetActiveKeeps
<1>6. CASE MakeDefault
  BY <1>6, MakeDefaultKeeps
<1>7. ASSUME NEW l \in BOOLEAN, NEW s \in BOOLEAN, SetMethods(l, s) PROVE AccountsInv'
  <2>1. methods' \in Methods
    BY <1>7 DEF SetMethods, Methods
  <2> QED BY <1>7, <2>1, Unwritten DEF SetMethods, AccountsInv
<1>8. ASSUME NEW b \in Browsers, SyncRole(b) PROVE AccountsInv'
  BY <1>8, SyncRoleKeeps
<1>9. ASSUME NEW b \in Browsers, AskKeys(b) \/ \E n \in Names : AskForHub(b, n) PROVE AccountsInv'
  BY <1>9, AskKeeps
<1>10. ASSUME NEW b \in Browsers, ReadKeys(b) \/ Choose(b) \/ \E c \in BOOLEAN : StoreKey(b, c)
       PROVE  AccountsInv'
  BY <1>10, AnswerKeeps
<1>11. ASSUME NEW b \in Browsers, Provision(b) PROVE AccountsInv'
  BY <1>11, ProvisionKeeps
<1>12. ASSUME NEW b \in Browsers,
              \/ \E i \in Ids : Login(b, i)
              \/ FinishLogin(b) \/ Refresh(b) \/ Logout(b) \/ TakeDefault(b) \/ TakeFirstAdmin(b)
       PROVE  AccountsInv'
  BY <1>12, TokensKeep
<1>13. ASSUME NEW b \in Browsers,
              \/ AskSaml(b) \/ AskLocal(b) \/ ReadBack(b)
              \/ \E n \in Names : FindName(b, n)
              \/ \E e \in Names, r \in Roles : Callback(b, e, r)
       PROVE  AccountsInv'
  BY <1>13, RequestsKeep
<1>14. CASE UNCHANGED accountVars
  BY <1>14, Unwritten DEF accountVars, AccountsInv
<1> QED
  BY <1>1, <1>2, <1>3, <1>4, <1>5, <1>6, <1>7, <1>8, <1>9, <1>10, <1>11, <1>12, <1>13, <1>14
  DEF AccountsNext

\* The types, and that no account is ever taken for another: at most one is the default
\* administrator through every interleaving of sign-ins and administration, a session
\* names the account it was made for, and a request for keys finds nothing of another
\* user, unless its username passed from one account to another while it was in use.
THEOREM AccountsNeverMix == AccountsSpec => [](AccountsTypeOK /\ AccountsStayApart)
<1>1. AccountsSpec => []AccountsInv
  BY InitIsApart, StepKeeps, PTL DEF AccountsSpec
<1> QED BY <1>1, InvImplies, PTL

-----------------------------------------------------------------------------
(* SettingsStore *)

Table == [Fields -> Values \cup {Blank}]

Forms == [at : {"ready", "saving", "saved", "load"}, asked : BOOLEAN, answer : Shown,
          silent : Shown, shown : Shown, payload : Shown, dirty : BOOLEAN,
          typed : SUBSET Fields, sent : SUBSET Fields]

\* A copy as the server answers it, or none: a mask or nothing for a secret, no mask elsewhere.
Answers == {copy \in Shown : \A f \in Fields : IF f \in Secrets THEN copy[f] \in {Mask, Blank, Missing}
                                                                ELSE copy[f] # Mask}

\* Where nothing was typed into a copy it has what was answered, and a mask for secrets only.
IsAnswered(copy, typed) ==
  /\ \A f \in Fields : copy[f] = Mask => f \in Secrets
  /\ \A s \in Secrets \ typed : copy[s] \in {Mask, Blank, Missing}

\* So it is with what a page shows and with what its save has sent.
ShowsAnswers(r) ==
  /\ r.answer \in Answers /\ r.silent \in Answers
  /\ IsAnswered(r.shown, r.typed) /\ IsAnswered(r.payload, r.sent)

\* The inductive invariant.
SettingsInv == SettingsTypeOK /\ \A e \in Editors : ShowsAnswers(form[e])

\* get_all_settings masks what is set and secret.
LEMMA MaskedIsAnswer ==
    ASSUME NEW stored \in Table PROVE Masked(stored) \in Answers
<1>1. Masked(stored) \in Shown
  BY DEF Masked, Shown, Table
<1>2. ASSUME NEW f \in Fields
      PROVE  IF f \in Secrets THEN Masked(stored)[f] \in {Mask, Blank} ELSE Masked(stored)[f] # Mask
  BY SettingsAssumption DEF Masked, Table
<1> QED BY <1>1, <1>2 DEF Answers

\* An answer may hold nothing.
LEMMA NothingIsAnswer == Nothing \in Answers
BY SettingsAssumption DEF Nothing, Shown, Answers

\* What is shown after an answer was taken over.
LEMMA AnswerIsShown ==
    ASSUME NEW copy \in Answers, NEW typed
    PROVE  copy \in Shown /\ IsAnswered(copy, typed)
BY SettingsAssumption DEF Answers, IsAnswered

\* One page changes, and keeps its form and what it may show.
LEMMA OnePageChanges ==
    ASSUME SettingsInv, NEW e \in Editors, NEW r \in Forms, ShowsAnswers(r),
           row' \in Table, form' = [form EXCEPT ![e] = r]
    PROVE  SettingsInv'
<1>1. form' \in [Editors -> Forms]
  BY DEF SettingsInv, SettingsTypeOK, Forms
<1>2. ASSUME NEW d \in Editors PROVE ShowsAnswers(form'[d])
  <2>1. CASE d = e
    BY <2>1 DEF SettingsInv, SettingsTypeOK
  <2>2. CASE d # e
    BY <2>2 DEF SettingsInv, SettingsTypeOK
  <2> QED BY <2>1, <2>2
<1> QED BY <1>1, <1>2 DEF SettingsInv, SettingsTypeOK, Forms, Table

\* A page that was not opened shows nothing.
LEMMA InitShowsAnswers == SettingsInit => SettingsInv
<1> SUFFICES ASSUME SettingsInit PROVE SettingsInv
  OBVIOUS
<1>1. row \in Table
  BY DEF SettingsInit, Table
<1>2. Masked(row) \in Answers /\ Nothing \in Answers
  BY <1>1, MaskedIsAnswer, NothingIsAnswer
<1> DEFINE r == [at |-> "load", asked |-> FALSE, answer |-> Masked(row),
                 silent |-> Nothing, shown |-> Nothing, payload |-> Nothing,
                 dirty |-> FALSE, typed |-> {}, sent |-> {}]
<1>3. r \in Forms
  BY <1>2 DEF Forms, Answers
<1>4. ShowsAnswers(r)
  BY <1>2, AnswerIsShown DEF ShowsAnswers
<1>5. form = [e \in Editors |-> r]
  BY DEF SettingsInit
<1> QED BY <1>1, <1>3, <1>4, <1>5 DEF SettingsInv, SettingsTypeOK, Forms, Table

\* Typing: the field is one of those typed, and what is typed is no mask.
LEMMA TypeShowsAnswers ==
    ASSUME SettingsInv, NEW e \in Editors, NEW f \in Fields, NEW v \in Values \cup {Blank}, Type(e, f, v)
    PROVE  SettingsInv'
<1> DEFINE r == [form[e] EXCEPT !.shown = [form[e].shown EXCEPT ![f] = v], !.dirty = TRUE,
                                !.typed = form[e].typed \cup {f}]
<1>1. form' = [form EXCEPT ![e] = r] /\ row' = row
  BY DEF Type
<1>2. form[e] \in Forms /\ ShowsAnswers(form[e]) /\ row \in Table
  BY DEF SettingsInv, SettingsTypeOK, Forms, Table
<1>3. [form[e].shown EXCEPT ![f] = v] \in Shown
  BY <1>2 DEF Forms, Shown
<1>4. r \in Forms
  BY <1>2, <1>3 DEF Forms
<1>5. /\ r.answer = form[e].answer /\ r.silent = form[e].silent
      /\ r.payload = form[e].payload /\ r.sent = form[e].sent
      /\ r.shown = [form[e].shown EXCEPT ![f] = v] /\ r.typed = form[e].typed \cup {f}
  BY <1>2 DEF Forms
<1> HIDE DEF r
<1>6. \A g \in Fields : r.shown[g] = IF g = f THEN v ELSE form[e].shown[g]
  <2>1. form[e].shown \in Shown
    BY <1>2 DEF Forms
  <2> QED BY <1>5, <2>1 DEF Shown
<1>7. IsAnswered(r.shown, r.typed)
  <2>1. v # Mask
    BY SettingsAssumption
  <2> QED BY <1>2, <1>5, <1>6, <2>1, SettingsAssumption DEF ShowsAnswers, IsAnswered
<1>8. ShowsAnswers(r)
  BY <1>2, <1>5, <1>7 DEF ShowsAnswers
<1> QED BY <1>1, <1>2, <1>4, <1>8, OnePageChanges

\* Asking for the settings, in the background or after a save, shows nothing new.
LEMMA AskShowsAnswers ==
    ASSUME SettingsInv, NEW e \in Editors, StartSilentLoad(e) \/ StartLoad(e) PROVE SettingsInv'
<1>1. form[e] \in Forms /\ ShowsAnswers(form[e]) /\ row \in Table
  BY DEF SettingsInv, SettingsTypeOK, Forms, Table
<1>2. Masked(row) \in Answers /\ Nothing \in Answers
  BY <1>1, MaskedIsAnswer, NothingIsAnswer
<1>3. CASE StartSilentLoad(e)
  <2> DEFINE r == [form[e] EXCEPT !.asked = TRUE, !.silent = Masked(row)]
  <2>1. form' = [form EXCEPT ![e] = r] /\ row' = row
    BY <1>3 DEF StartSilentLoad
  <2>2. r \in Forms
    BY <1>1, <1>2 DEF Forms, Answers
  <2>3. ShowsAnswers(r)
    BY <1>1, <1>2 DEF ShowsAnswers, Forms
  <2> QED BY <1>1, <2>1, <2>2, <2>3, OnePageChanges
<1>4. CASE StartLoad(e)
  <2> DEFINE r == [form[e] EXCEPT !.at = "load", !.answer = Masked(row),
                                  !.payload = Nothing, !.sent = {}]
  <2>1. form' = [form EXCEPT ![e] = r] /\ row' = row
    BY <1>4 DEF StartLoad
  <2>2. r \in Forms
    BY <1>1, <1>2 DEF Forms, Answers
  <2>3. /\ r.answer = Masked(row) /\ r.silent = form[e].silent /\ r.payload = Nothing /\ r.sent = {}
        /\ r.shown = form[e].shown /\ r.typed = form[e].typed
    BY <1>1 DEF Forms
  <2> HIDE DEF r
  <2>4. ShowsAnswers(r)
    BY <1>1, <1>2, <2>3, AnswerIsShown DEF ShowsAnswers
  <2> QED BY <1>1, <2>1, <2>2, <2>4, OnePageChanges
<1> QED BY <1>3, <1>4

\* An answer to a load shows masks or blanks.
LEMMA LoadedShowsAnswers ==
    ASSUME SettingsInv, NEW e \in Editors, FinishSilentLoad(e) \/ FinishLoad(e) PROVE SettingsInv'
<1>1. form[e] \in Forms /\ ShowsAnswers(form[e]) /\ row \in Table
  BY DEF SettingsInv, SettingsTypeOK, Forms, Table
<1>2. form[e].silent \in Answers /\ form[e].answer \in Answers /\ Nothing \in Answers
  BY <1>1, NothingIsAnswer DEF ShowsAnswers
<1>3. CASE FinishSilentLoad(e)
  <2> DEFINE r == [form[e] EXCEPT !.asked = FALSE, !.silent = Nothing,
                                  !.shown = form[e].silent, !.typed = {}]
  <2>1. form' = [form EXCEPT ![e] = r] /\ row' = row
    BY <1>3 DEF FinishSilentLoad
  <2>2. r \in Forms
    BY <1>1, <1>2 DEF Forms, Answers
  <2>3. /\ r.answer = form[e].answer /\ r.silent = Nothing /\ r.shown = form[e].silent
        /\ r.typed = {} /\ r.payload = form[e].payload /\ r.sent = form[e].sent
    BY <1>1 DEF Forms
  <2> HIDE DEF r
  <2>4. ShowsAnswers(r)
    BY <1>1, <1>2, <2>3, AnswerIsShown DEF ShowsAnswers
  <2> QED BY <1>1, <2>1, <2>2, <2>4, OnePageChanges
<1>4. CASE FinishLoad(e)
  <2> DEFINE r == [form[e] EXCEPT !.at = "ready", !.answer = Nothing, !.dirty = FALSE,
                                  !.shown = form[e].answer, !.typed = {}]
  <2>1. form' = [form EXCEPT ![e] = r] /\ row' = row
    BY <1>4 DEF FinishLoad
  <2>2. r \in Forms
    BY <1>1, <1>2 DEF Forms, Answers
  <2>3. /\ r.answer = Nothing /\ r.silent = form[e].silent /\ r.shown = form[e].answer
        /\ r.typed = {} /\ r.payload = form[e].payload /\ r.sent = form[e].sent
    BY <1>1 DEF Forms
  <2> HIDE DEF r
  <2>4. ShowsAnswers(r)
    BY <1>1, <1>2, <2>3, AnswerIsShown DEF ShowsAnswers
  <2> QED BY <1>1, <2>1, <2>2, <2>4, OnePageChanges
<1> QED BY <1>3, <1>4

\* A failed request changes nothing that is shown.
LEMMA FailureShowsAnswers ==
    ASSUME SettingsInv, NEW e \in Editors, SilentLoadFails(e) \/ SaveFails(e) \/ LoadFails(e)
    PROVE  SettingsInv'
<1>1. form[e] \in Forms /\ ShowsAnswers(form[e]) /\ row \in Table
  BY DEF SettingsInv, SettingsTypeOK, Forms, Table
<1>2. Nothing \in Answers
  BY NothingIsAnswer
<1>3. CASE SilentLoadFails(e)
  <2> DEFINE r == [form[e] EXCEPT !.asked = FALSE, !.silent = Nothing]
  <2>1. form' = [form EXCEPT ![e] = r] /\ row' = row
    BY <1>3 DEF SilentLoadFails
  <2>2. r \in Forms
    BY <1>1, <1>2 DEF Forms, Answers
  <2>3. ShowsAnswers(r)
    BY <1>1, <1>2 DEF ShowsAnswers, Forms
  <2> QED BY <1>1, <2>1, <2>2, <2>3, OnePageChanges
<1>4. CASE SaveFails(e)
  <2> DEFINE r == [form[e] EXCEPT !.at = "ready", !.payload = Nothing, !.sent = {}]
  <2>1. form' = [form EXCEPT ![e] = r] /\ row' = row
    BY <1>4 DEF SaveFails
  <2>2. r \in Forms
    BY <1>1, <1>2 DEF Forms, Answers
  <2>3. /\ r.answer = form[e].answer /\ r.silent = form[e].silent /\ r.payload = Nothing /\ r.sent = {}
        /\ r.shown = form[e].shown /\ r.typed = form[e].typed
    BY <1>1 DEF Forms
  <2> HIDE DEF r
  <2>4. ShowsAnswers(r)
    BY <1>1, <1>2, <2>3, AnswerIsShown DEF ShowsAnswers
  <2> QED BY <1>1, <2>1, <2>2, <2>4, OnePageChanges
<1>5. CASE LoadFails(e)
  <2> DEFINE r == [form[e] EXCEPT !.at = "ready", !.answer = Nothing, !.dirty = FALSE]
  <2>1. form' = [form EXCEPT ![e] = r] /\ row' = row
    BY <1>5 DEF LoadFails
  <2>2. r \in Forms
    BY <1>1, <1>2 DEF Forms, Answers
  <2>3. ShowsAnswers(r)
    BY <1>1, <1>2 DEF ShowsAnswers, Forms
  <2> QED BY <1>1, <2>1, <2>2, <2>3, OnePageChanges
<1> QED BY <1>3, <1>4, <1>5

\* A click sends what the page shows.
LEMMA SaveShowsAnswers ==
    ASSUME SettingsInv, NEW e \in Editors, Save(e) PROVE SettingsInv'
<1> DEFINE r == [form[e] EXCEPT !.at = "saving", !.payload = form[e].shown, !.sent = form[e].typed]
<1>1. form' = [form EXCEPT ![e] = r] /\ row' = row
  BY DEF Save
<1>2. form[e] \in Forms /\ ShowsAnswers(form[e]) /\ row \in Table
  BY DEF SettingsInv, SettingsTypeOK, Forms, Table
<1>3. r \in Forms
  BY <1>2 DEF Forms
<1>4. ShowsAnswers(r)
  BY <1>2 DEF ShowsAnswers, Forms
<1> QED BY <1>1, <1>2, <1>3, <1>4, OnePageChanges

\* Its commit changes the table, but no page.
LEMMA BulkUpdateShowsAnswers ==
    ASSUME SettingsInv, NEW e \in Editors, BulkUpdate(e) PROVE SettingsInv'
<1> DEFINE r == [form[e] EXCEPT !.at = "saved"]
<1>1. form' = [form EXCEPT ![e] = r] /\ row' = Stored(form[e].payload)
  BY DEF BulkUpdate
<1>2. form[e] \in Forms /\ ShowsAnswers(form[e]) /\ row \in Table
  BY DEF SettingsInv, SettingsTypeOK, Forms, Table
<1>3. Stored(form[e].payload) \in Table
  <2>1. /\ form[e].payload \in Shown
        /\ \A f \in Fields : form[e].payload[f] = Mask => f \in Secrets
    BY <1>2 DEF Forms, ShowsAnswers, IsAnswered
  <2> QED BY <1>2, <2>1 DEF Stored, Table, Shown
<1>4. r \in Forms
  BY <1>2 DEF Forms
<1>5. ShowsAnswers(r)
  BY <1>2 DEF ShowsAnswers, Forms
<1> QED BY <1>1, <1>3, <1>4, <1>5, OnePageChanges

\* Every step keeps what a page can show of a secret.
LEMMA StepShowsAnswers == SettingsInv /\ [SettingsNext]_settingsVars => SettingsInv'
<1> SUFFICES ASSUME SettingsInv, [SettingsNext]_settingsVars PROVE SettingsInv'
  OBVIOUS
<1>1. CASE UNCHANGED settingsVars
  BY <1>1 DEF settingsVars, SettingsInv, SettingsTypeOK, ShowsAnswers
<1>2. ASSUME NEW e \in Editors, StartSilentLoad(e) \/ StartLoad(e) PROVE SettingsInv'
  BY <1>2, AskShowsAnswers
<1>3. ASSUME NEW e \in Editors, FinishSilentLoad(e) \/ FinishLoad(e) PROVE SettingsInv'
  BY <1>3, LoadedShowsAnswers
<1>4. ASSUME NEW e \in Editors, SilentLoadFails(e) \/ SaveFails(e) \/ LoadFails(e)
      PROVE  SettingsInv'
  BY <1>4, FailureShowsAnswers
<1>5. ASSUME NEW e \in Editors, Save(e) PROVE SettingsInv'
  BY <1>5, SaveShowsAnswers
<1>6. ASSUME NEW e \in Editors, BulkUpdate(e) PROVE SettingsInv'
  BY <1>6, BulkUpdateShowsAnswers
<1>7. ASSUME NEW e \in Editors, NEW f \in Fields, NEW v \in Values \cup {Blank}, Type(e, f, v)
      PROVE  SettingsInv'
  BY <1>7, TypeShowsAnswers
<1> QED BY <1>1, <1>2, <1>3, <1>4, <1>5, <1>6, <1>7 DEF SettingsNext

\* Every page keeps its type, and neither shows nor sends a secret that was not typed into
\* it: the answers of get_all_settings, however late they are, hold masks only.
THEOREM PagesHideSecrets == SettingsSpec => [](SettingsTypeOK /\ \A e \in Editors : ShowsAnswers(form[e]))
<1>1. SettingsInit => SettingsInv
  BY InitShowsAnswers
<1>2. SettingsInv /\ [SettingsNext]_settingsVars => SettingsInv'
  BY StepShowsAnswers
<1> QED BY <1>1, <1>2, PTL DEF SettingsSpec, SettingsInv

\* Only the commit of a save changes the table, and a secret only to what the page had sent
\* for it: the value typed into it, or nothing.
LEMMA SaveKeepsSecrets ==
    ASSUME SettingsInv, NEW e \in Editors, BulkUpdate(e), NEW s \in Secrets, row'[s] # row[s]
    PROVE  row'[s] = form[e].payload[s] /\ (s \in form[e].sent \/ row'[s] = Blank)
<1>1. s \in Fields /\ row' = Stored(form[e].payload)
  BY SettingsAssumption DEF BulkUpdate
<1>2. row'[s] = IF form[e].payload[s] \in {Missing, Mask} THEN row[s] ELSE form[e].payload[s]
  BY <1>1 DEF Stored
<1>3. IsAnswered(form[e].payload, form[e].sent)
  BY DEF SettingsInv, ShowsAnswers
<1> QED BY <1>2, <1>3 DEF IsAnswered

\* bulk_update skips a mask: no copy, however old, brings back an earlier secret.
THEOREM SecretsSurvive == SettingsSpec => SecretSurvives
<1>1. SettingsInv /\ [SettingsNext]_settingsVars =>
        [\A s \in Secrets : row'[s] # row[s] =>
           \E e \in Editors : /\ row'[s] = form[e].payload[s]
                              /\ s \in form[e].sent \/ row'[s] = Blank]_settingsVars
  <2> SUFFICES ASSUME SettingsInv, SettingsNext, NEW s \in Secrets, row'[s] # row[s]
               PROVE  \E e \in Editors : /\ row'[s] = form[e].payload[s]
                                         /\ s \in form[e].sent \/ row'[s] = Blank
    OBVIOUS
  <2>1. PICK e \in Editors : BulkUpdate(e)
    BY DEF SettingsNext, StartSilentLoad, FinishSilentLoad, SilentLoadFails, Save, SaveFails,
           StartLoad, FinishLoad, LoadFails, Type
  <2> QED BY <2>1, SaveKeepsSecrets
<1>2. SettingsInit => SettingsInv
  BY InitShowsAnswers
<1>3. SettingsInv /\ [SettingsNext]_settingsVars => SettingsInv'
  BY StepShowsAnswers
<1> QED BY <1>1, <1>2, <1>3, PTL DEF SettingsSpec, SecretSurvives

-----------------------------------------------------------------------------
(* Backup: a snapshot reported as usable stays until its turn.  The        *)
(* strengthening follows the directories of runs: as long as no rotation   *)
(* has the directory of a run on its list, it is there, and what the run   *)
(* copied is whole or known to be spoiled; and those that are newer than   *)
(* the reported one have changed since.                                    *)

\* Fewer directories than the rotation keeps have changed since the last report.
FewSince(p) == p.dir \in Minutes /\ Cardinality(p.since \ {p.dir}) < Keep

\* On the list of a rotation.
Doomed(d) == \E k \in Jobs : d \in job[k].old

\* There, on no list, and whole unless spoiled.
Sound(d) == shelf[d].whole \/ d \in past.spoiled
Safe(d)  == d \in There /\ ~Doomed(d)

\* No directory is newer than itself.
NewerFit == \A d \in Minutes : d \notin newer[d]
\* The reported directory.
PastFits == FewSince(past) => /\ Safe(past.dir) /\ Sound(past.dir)
                           /\ newer[past.dir] \subseteq past.since
\* The directories of runs that are on no list.
RunsFit == \A j \in Jobs : job[j].at # "idle" /\ ~job[j].listed =>
             Safe(job[j].dir) /\ (job[j].at # "copy" => Sound(job[j].dir))

BackupInv == BackupTypeOK /\ NewerFit /\ PastFits /\ RunsFit

\* A set of minutes is finite, and a subset has no more of them.
LEMMA MinutesCount ==
  ASSUME NEW A \in SUBSET Minutes, NEW B \in SUBSET A
  PROVE  Cardinality(A) \in Nat /\ Cardinality(B) \in Nat /\ Cardinality(B) <= Cardinality(A)
<1>1. IsFiniteSet(Minutes)
  BY BackupAssumption, FS_Interval DEF Minutes
<1>2. IsFiniteSet(A) /\ IsFiniteSet(B)
  BY <1>1, FS_Subset
<1> QED BY <1>2, FS_Subset, FS_CardinalityType

\* What the types say of the parts.
LEMMA BackupParts ==
  ASSUME BackupTypeOK
  PROVE  /\ past.since \in SUBSET Minutes /\ past.spoiled \in SUBSET Minutes
         /\ past.dir \in Minutes \cup {MaxMinutes + 1}
         /\ \A m \in Minutes : newer[m] \in SUBSET Minutes
         /\ \A j \in Jobs : job[j].dir \in Minutes /\ job[j].old \in SUBSET Minutes
         /\ There \subseteq Minutes
BY DEF BackupTypeOK, There

\* What may change without a promise.
LEMMA CountGrows ==
  ASSUME BackupTypeOK, NEW d \in Minutes, past'.dir = past.dir,
         past'.since \in {past.since, past.since \cup {d}}, FewSince(past')
  PROVE  FewSince(past)
<1>1. past.since \in SUBSET Minutes /\ past.dir \in Minutes
  BY BackupParts DEF FewSince
<1>2. past'.since \ {past.dir} \in SUBSET Minutes /\ past.since \ {past.dir} \subseteq past'.since \ {past.dir}
  BY <1>1
<1>3. PICK A \in SUBSET Minutes : A = past'.since \ {past.dir}
  BY <1>2
<1>4. PICK B \in SUBSET A : B = past.since \ {past.dir}
  BY <1>2, <1>3
<1>5. Cardinality(A) < Keep
  BY <1>3 DEF FewSince
<1>6. Cardinality(A) \in Nat /\ Cardinality(B) \in Nat /\ Cardinality(B) <= Cardinality(A) /\ Keep \in Nat
  BY MinutesCount, BackupAssumption
<1> QED BY <1>1, <1>4, <1>5, <1>6 DEF FewSince

\* The reported directory is not among those that are to go.
LEMMA NotItsTurn == ASSUME BackupInv, FewSince(past) PROVE past.dir \notin NotNewest
<1>1. past.dir \in Minutes /\ past.since \in SUBSET Minutes /\ newer[past.dir] \subseteq past.since \ {past.dir}
  BY BackupParts DEF BackupInv, NewerFit, PastFits, FewSince
<1>2. PICK A \in SUBSET Minutes : A = past.since \ {past.dir}
  BY <1>1
<1>3. PICK B \in SUBSET A : B = newer[past.dir]
  BY <1>1, <1>2
<1>4. Cardinality(A) < Keep /\ Cardinality(A) \in Nat /\ Cardinality(B) \in Nat
      /\ Cardinality(B) <= Cardinality(A) /\ Keep \in Nat
  BY <1>2, MinutesCount, BackupAssumption DEF FewSince
<1> QED BY <1>3, <1>4 DEF NotNewest

\* What a touch does to the modification times.
LEMMA TouchDoes ==
  ASSUME BackupTypeOK, NEW d \in Minutes, Touch(d)
  PROVE  /\ newer' \in [Minutes -> SUBSET Minutes] /\ newer'[d] = {}
         /\ \A m \in Minutes : newer'[m] \subseteq newer[m] \cup {d} /\ (m # d => d \in newer'[m] \/ newer'[m] = {})
         /\ \A m \in Minutes : m \notin newer[m] => m \notin newer'[m]
BY BackupParts DEF Touch

\* A step that only changes runs, and takes none on.
LEMMA RunsOnly ==
  ASSUME BackupInv, UNCHANGED <<shelf, newer, past>>, BackupTypeOK',
         \A j \in Jobs : job'[j].old \subseteq job[j].old,
         \A j \in Jobs : job'[j].at # "idle" /\ ~job'[j].listed =>
           /\ job[j].at # "idle" /\ ~job[j].listed /\ job'[j].dir = job[j].dir
           /\ job[j].at = "copy" => job'[j].at = "copy"
  PROVE  BackupInv'
<1>1. There' = There /\ \A d : Sound(d)' <=> Sound(d)
  BY DEF There, Sound
<1>2. \A d : Doomed(d)' => Doomed(d)
  BY DEF Doomed
<1>3. PastFits'
  BY <1>1, <1>2 DEF BackupInv, PastFits, FewSince, Safe
<1>4. RunsFit'
  BY <1>1, <1>2 DEF BackupInv, RunsFit, Safe
<1> QED BY <1>3, <1>4 DEF BackupInv, NewerFit

\* A step that changes one directory, which is neither the reported one nor that of a run
\* on no list, or keeps it there and sound; and at most one run.
LEMMA OneDirectory ==
  ASSUME BackupInv, BackupTypeOK', NEW d \in Minutes,
         \/ newer' = newer \/ Forget(d)
         \/ Touch(d) /\ (past'.since = past.since \cup {d} \/ past.dir \notin Minutes),
         past'.dir = past.dir, past'.since \in {past.since, past.since \cup {d}},
         past.spoiled \ {d} \subseteq past'.spoiled,
         \A m \in Minutes \ {d} : shelf'[m] = shelf[m],
         Safe(d) => d \in There' /\ (Sound(d) => Sound(d)'),
         \A j \in Jobs : job'[j].old \subseteq job[j].old,
         \A j \in Jobs : job'[j].at # "idle" /\ ~job'[j].listed =>
           \/ /\ job[j].at # "idle" /\ ~job[j].listed /\ job'[j].dir = job[j].dir
              /\ job[j].at = "copy" => job'[j].at = "copy" \/ Sound(job[j].dir)'
           \/ job'[j].dir = d /\ d \in There' /\ ~Doomed(d) /\ job'[j].at = "copy"
  PROVE  BackupInv'
<1>1. \A m : Doomed(m)' => Doomed(m)
  BY DEF Doomed
<1>2. \A m \in Minutes : Safe(m) => Safe(m)' /\ (Sound(m) => Sound(m)')
  <2> SUFFICES ASSUME NEW m \in Minutes, Safe(m) PROVE Safe(m)' /\ (Sound(m) => Sound(m)')
    OBVIOUS
  <2>1. CASE m = d
    BY <2>1, <1>1 DEF Safe
  <2>2. CASE m # d
    BY <2>2, <1>1 DEF Safe, Sound, There
  <2> QED BY <2>1, <2>2
<1>3. NewerFit'
  <2>1. CASE newer' = newer
    BY <2>1 DEF BackupInv, NewerFit
  <2>2. CASE Touch(d)
    BY <2>2, TouchDoes DEF BackupInv, NewerFit
  <2>3. CASE Forget(d)
    BY <2>3 DEF BackupInv, NewerFit, Forget
  <2> QED BY <2>1, <2>2, <2>3
<1>4. PastFits'
  <2> SUFFICES ASSUME FewSince(past')
               PROVE  (Safe(past.dir) /\ Sound(past.dir) /\ newer[past.dir] \subseteq past.since)'
    BY DEF PastFits
  <2>1. FewSince(past) /\ past.dir \in Minutes
    BY CountGrows DEF BackupInv, FewSince
  <2>2. Safe(past.dir) /\ Sound(past.dir) /\ newer[past.dir] \subseteq past.since
    BY <2>1 DEF BackupInv, PastFits
  <2>3. Safe(past.dir)' /\ Sound(past.dir)'
    BY <2>1, <2>2, <1>2
  <2>4. newer'[past.dir] \subseteq past'.since
    <3>1. past.since \subseteq past'.since
      OBVIOUS
    <3>2. CASE newer' = newer
      BY <2>2, <3>1, <3>2
    <3>3. CASE Touch(d) /\ (past'.since = past.since \cup {d} \/ past.dir \notin Minutes)
      <4>1. newer'[past.dir] \subseteq newer[past.dir] \cup {d}
        BY <3>3, <2>1, TouchDoes DEF BackupInv
      <4>2. past'.since = past.since \cup {d}
        BY <3>3, <2>1
      <4> QED BY <4>1, <4>2, <2>2
    <3>4. CASE Forget(d)
      BY <3>4, <2>1, <2>2, <3>1 DEF Forget
    <3> QED BY <3>2, <3>3, <3>4
  <2> QED BY <2>3, <2>4
<1>5. RunsFit'
  <2> SUFFICES ASSUME NEW j \in Jobs, job'[j].at # "idle", ~job'[j].listed
               PROVE  (Safe(job[j].dir) /\ (job[j].at # "copy" => Sound(job[j].dir)))'
    BY DEF RunsFit
  <2>1. CASE /\ job[j].at # "idle" /\ ~job[j].listed /\ job'[j].dir = job[j].dir
             /\ job[j].at = "copy" => job'[j].at = "copy" \/ Sound(job[j].dir)'
    <3>1. PICK m \in Minutes : m = job[j].dir /\ m = job'[j].dir
      BY <2>1, BackupParts DEF BackupInv
    <3>2. Safe(m) /\ (job[j].at # "copy" => Sound(m))
      BY <2>1, <3>1 DEF BackupInv, RunsFit
    <3>3. Safe(m)' /\ (Sound(m) => Sound(m)')
      BY <3>2, <1>2
    <3>4. job'[j].at # "copy" => Sound(m)'
      BY <2>1, <3>1, <3>2, <3>3 DEF Sound
    <3> QED BY <3>1, <3>3, <3>4 DEF Safe, Sound, Doomed
  <2>2. CASE job'[j].dir = d /\ d \in There' /\ ~Doomed(d) /\ job'[j].at = "copy"
    <3>1. Safe(d)'
      BY <2>2, <1>1 DEF Safe
    <3> QED BY <2>2, <3>1 DEF Safe, Sound, Doomed
  <2> QED BY <2>1, <2>2
<1> QED BY <1>3, <1>4, <1>5 DEF BackupInv

\* The types of the records, and what a change of a field leaves of them.
LiveTypes == [whole : BOOLEAN, wal : BOOLEAN, restoring : {"no", "whole", "damaged"}]
SlotTypes == [there : BOOLEAN, whole : BOOLEAN, config : BOOLEAN]
JobTypes  == [at : {"idle", "copy", "verify", "config", "list", "remove"}, dir : Minutes,
              mixed : BOOLEAN, usable : BOOLEAN, listed : BOOLEAN, old : SUBSET Minutes]
PackTypes == [at : {"none", "copying", "packed"}, whole : BOOLEAN]
PastTypes == [dir : Minutes \cup {MaxMinutes + 1}, since : SUBSET Minutes, spoiled : SUBSET Minutes]

LEMMA TypesByName ==
  BackupTypeOK <=> /\ live \in LiveTypes /\ minute \in Minutes /\ mishaps \in 0..MaxMishaps
                   /\ shelf \in [Minutes -> SlotTypes] /\ newer \in [Minutes -> SUBSET Minutes]
                   /\ job \in [Jobs -> JobTypes] /\ bundle \in PackTypes /\ past \in PastTypes
BY DEF BackupTypeOK, LiveTypes, SlotTypes, JobTypes, PackTypes, PastTypes

LEMMA RecordTypes ==
  /\ Absent \in SlotTypes /\ Empty \in SlotTypes /\ NoJob \in JobTypes
  /\ \A r \in JobTypes : r.dir \in Minutes /\ r.old \in SUBSET Minutes /\ r.listed \in BOOLEAN
                         /\ r.usable \in BOOLEAN
  /\ \A r \in JobTypes, a \in {"idle", "copy", "verify", "config", "list", "remove"} :
       [r EXCEPT !.at = a] \in JobTypes
  /\ \A r \in JobTypes, b \in BOOLEAN :
       /\ [r EXCEPT !.mixed = b] \in JobTypes
       /\ [r EXCEPT !.usable = b] \in JobTypes
       /\ [r EXCEPT !.listed = b] \in JobTypes
  /\ \A r \in JobTypes, D \in SUBSET Minutes : [r EXCEPT !.old = D] \in JobTypes
  /\ \A r \in JobTypes, m \in Minutes : [r EXCEPT !.dir = m] \in JobTypes
  /\ \A r \in PackTypes, b \in BOOLEAN : [r EXCEPT !.whole = b] \in PackTypes
  /\ \A r \in SlotTypes, b \in BOOLEAN : [r EXCEPT !.whole = b] \in SlotTypes
                                         /\ [r EXCEPT !.config = b] \in SlotTypes
<1>1. 0 \in Minutes
  BY BackupAssumption DEF Minutes
<1> QED BY <1>1 DEF Absent, Empty, NoJob, SlotTypes, JobTypes, PackTypes

\* Every step keeps the types.
LEMMA BackupTypesStep == ASSUME BackupTypeOK, [BackupNext]_backupVars PROVE BackupTypeOK'
<1> DEFINE Typed == /\ live \in LiveTypes /\ minute \in Minutes /\ mishaps \in 0..MaxMishaps
                    /\ shelf \in [Minutes -> SlotTypes] /\ newer \in [Minutes -> SUBSET Minutes]
                    /\ job \in [Jobs -> JobTypes] /\ bundle \in PackTypes /\ past \in PastTypes
<1>0. Typed
  BY TypesByName
<1> SUFFICES Typed'
  BY TypesByName, PTL
<1>1. \A d \in Minutes : Touch(d) \/ Forget(d) => newer' \in [Minutes -> SUBSET Minutes]
  BY <1>0 DEF Touch, Forget
<1>2. \A d \in Minutes : Since(d) \in PastTypes
  BY <1>0 DEF Since, PastTypes
<1>3. \A j \in Jobs : Finishes(j) => job' \in [Jobs -> JobTypes]
  BY <1>0, RecordTypes DEF Finishes
<1>4. \A j \in Jobs : job[j] \in JobTypes /\ job[j].dir \in Minutes /\ job[j].old \in SUBSET Minutes
  BY <1>0, RecordTypes
<1>5. NotNewest \in SUBSET Minutes
  BY DEF NotNewest, There
<1>6. CASE CommitOrCheckpoint
  <2>1. live' \in LiveTypes
    BY <1>6, <1>0 DEF CommitOrCheckpoint, LiveTypes
  <2>2. PICK b \in BOOLEAN : bundle' = [bundle EXCEPT !.whole = b]
    <3>1. (bundle.whole /\ ~(bundle.at = "copying" /\ live.wal)) \in BOOLEAN
      OBVIOUS
    <3> QED BY <1>6, <3>1 DEF CommitOrCheckpoint
  <2> QED BY <1>6, <1>0, <2>1, <2>2, RecordTypes DEF CommitOrCheckpoint
<1>7. CASE Tick
  <2>1. minute' \in Minutes
    BY <1>7, <1>0, BackupAssumption DEF Tick, Minutes
  <2> QED BY <1>7, <1>0, <2>1 DEF Tick
<1>8. CASE KilledRuns
  <2>1. live' \in LiveTypes
    BY <1>8, <1>0 DEF KilledRuns, LiveTypes
  <2>2. bundle' \in PackTypes
    BY <1>8, <1>0 DEF KilledRuns, PackTypes
  <2>3. mishaps' \in 0..MaxMishaps
    BY <1>8, <1>0, BackupAssumption DEF KilledRuns
  <2> QED BY <1>8, <1>0, <2>1, <2>2, <2>3, RecordTypes DEF KilledRuns
<1>9. CASE StartExport
  <2>1. bundle' \in PackTypes
    BY <1>9, <1>0 DEF StartExport, PackTypes, LiveTypes
  <2> QED BY <1>9, <1>0, <2>1 DEF StartExport
<1>10. CASE FinishExport
  <2>1. bundle' \in PackTypes
    BY <1>10, <1>0 DEF FinishExport, PackTypes
  <2> QED BY <1>10, <1>0, <2>1 DEF FinishExport
<1>11. ASSUME Overwriting, live' \in LiveTypes PROVE Typed'
  <2>1. job' \in [Jobs -> JobTypes]
    BY <1>11, <1>0, RecordTypes DEF Overwriting
  <2>2. PICK b \in BOOLEAN : bundle' = [bundle EXCEPT !.whole = b]
    <3>1. (bundle.whole /\ bundle.at # "copying") \in BOOLEAN
      OBVIOUS
    <3> QED BY <1>11, <3>1 DEF Overwriting
  <2> QED BY <1>11, <1>0, <2>1, <2>2, RecordTypes DEF Overwriting
<1>12. ASSUME NEW w, StartRestore(w) PROVE Typed'
  BY <1>12, <1>11, <1>0 DEF StartRestore, LiveTypes
<1>13. CASE Import \/ \E m \in Minutes : RestoreSnapshot(m)
  BY <1>13, <1>12 DEF Import, RestoreSnapshot
<1>14. CASE FinishRestore
  <2>1. PICK good \in BOOLEAN : live' = [whole |-> good, wal |-> FALSE, restoring |-> "no"]
    <3>1. {live.restoring = "whole", FALSE} \subseteq BOOLEAN
      OBVIOUS
    <3> QED BY <1>14, <3>1 DEF FinishRestore
  <2> QED BY <1>14, <1>11, <2>1 DEF FinishRestore, LiveTypes
<1>15. ASSUME NEW j \in Jobs, StartRun(j) PROVE Typed'
  <2>1. PICK b \in BOOLEAN : job' = [job EXCEPT ![j] =
          [NoJob EXCEPT !.at = "copy", !.dir = minute, !.listed = b]]
    <3>1. (\E k \in Jobs : minute \in job[k].old) \in BOOLEAN
      OBVIOUS
    <3> QED BY <1>15, <3>1 DEF StartRun
  <2>2. [NoJob EXCEPT !.at = "copy", !.dir = minute, !.listed = b] \in JobTypes
    BY <1>0 DEF NoJob, JobTypes
  <2>3. shelf' \in [Minutes -> SlotTypes] /\ newer' \in [Minutes -> SUBSET Minutes] /\ past' \in PastTypes
    BY <1>15, <1>0, <1>1, <1>2, RecordTypes DEF StartRun
  <2> QED BY <1>15, <1>0, <2>1, <2>2, <2>3 DEF StartRun
<1>16. ASSUME NEW j \in Jobs, CopyDatabase(j) PROVE Typed'
  <2>1. PICK d \in Minutes : d = job[j].dir
    BY <1>4
  <2>2. CASE d \in There
    <3>1. job' \in [Jobs -> JobTypes]
      <4>1. [job[j] EXCEPT !.at = "verify", !.mixed = FALSE] \in JobTypes
        BY <1>4 DEF JobTypes
      <4> QED BY <1>16, <2>1, <2>2, <4>1, <1>0 DEF CopyDatabase
    <3>2. shelf' \in [Minutes -> SlotTypes]
      <4>1. \/ shelf' = shelf
            \/ \E good \in BOOLEAN : shelf' = [shelf EXCEPT ![d].whole = good]
        BY <1>16, <2>1, <2>2 DEF CopyDatabase
      <4>2. \A good \in BOOLEAN : [shelf[d] EXCEPT !.whole = good] \in SlotTypes
        BY <1>0, RecordTypes
      <4> QED BY <4>1, <4>2, <1>0
    <3>3. past' \in PastTypes
      <4>1. \A D \in SUBSET Minutes : [Since(d) EXCEPT !.spoiled = D] \in PastTypes
        BY <1>2 DEF PastTypes
      <4>2. Since(d).spoiled \in SUBSET Minutes
        BY <1>2 DEF PastTypes
      <4>3. \/ past' = Since(d)
            \/ \E good \in BOOLEAN : past' = [Since(d) EXCEPT !.spoiled =
                 IF good THEN Since(d).spoiled \ {d} ELSE Since(d).spoiled \cup {d}]
        BY <1>16, <2>1, <2>2, <4>2, <1>2 DEF CopyDatabase, PastTypes
      <4> QED BY <4>1, <4>2, <4>3, <1>2
    <3>4. newer' \in [Minutes -> SUBSET Minutes]
      BY <1>16, <2>1, <2>2, <1>1 DEF CopyDatabase
    <3> QED BY <1>16, <1>0, <3>1, <3>2, <3>3, <3>4 DEF CopyDatabase
  <2>3. CASE d \notin There
    BY <1>16, <1>0, <2>1, <2>3, <1>3 DEF CopyDatabase
  <2> QED BY <2>2, <2>3
<1>17. ASSUME NEW j \in Jobs, Verify(j) PROVE Typed'
  <2>1. PICK said \in BOOLEAN : job' = [job EXCEPT ![j].at = "config", ![j].usable = said]
    BY <1>17 DEF Verify
  <2>2. [job[j] EXCEPT !.at = "config", !.usable = said] \in JobTypes
    BY <1>4 DEF JobTypes
  <2> QED BY <1>17, <1>0, <2>1, <2>2 DEF Verify
<1>18. ASSUME NEW j \in Jobs, CopyConfig(j) PROVE Typed'
  <2>1. PICK d \in Minutes : d = job[j].dir
    BY <1>4
  <2>2. CASE d \in There
    <3>1. job' = [job EXCEPT ![j].at = "list"] /\ shelf' = [shelf EXCEPT ![d].config = TRUE]
      BY <1>18, <2>1, <2>2 DEF CopyConfig, Goes
    <3>2. [job[j] EXCEPT !.at = "list"] \in JobTypes /\ [shelf[d] EXCEPT !.config = TRUE] \in SlotTypes
      BY <1>4, <1>0, RecordTypes
    <3>3. newer' \in [Minutes -> SUBSET Minutes] /\ past' \in PastTypes
      BY <1>18, <2>1, <2>2, <1>0, <1>1, <1>2 DEF CopyConfig
    <3> QED BY <1>18, <1>0, <3>1, <3>2, <3>3 DEF CopyConfig
  <2>3. CASE d \notin There
    BY <1>18, <1>0, <2>1, <2>3, <1>3 DEF CopyConfig
  <2> QED BY <2>2, <2>3
<1>19. ASSUME NEW j \in Jobs, ListOld(j) PROVE Typed'
  <2>1. \A k \in Jobs : job'[k] \in JobTypes
    <3> SUFFICES ASSUME NEW k \in Jobs PROVE job'[k] \in JobTypes
      OBVIOUS
    <3>1. PICK b \in BOOLEAN : b = (job[k].listed \/ (job[k].at # "idle" /\ job[k].dir \in NotNewest))
      OBVIOUS
    <3>2. job'[k] = [job[k] EXCEPT !.at = IF k = j THEN "remove" ELSE job[k].at,
                                   !.old = IF k = j THEN NotNewest ELSE job[k].old, !.listed = b]
      BY <1>19, <3>1 DEF ListOld
    <3> QED BY <3>2, <1>4, <1>5 DEF JobTypes
  <2>2. job' = [k \in Jobs |-> job'[k]]
    BY <1>19 DEF ListOld
  <2> QED BY <1>19, <1>0, <2>1, <2>2 DEF ListOld
<1>20. ASSUME NEW j \in Jobs, ListFails(j) PROVE Typed'
  BY <1>20, <1>0, <1>3 DEF ListFails
<1>21. ASSUME NEW j \in Jobs, NEW d \in Minutes, RemoveOld(j, d) PROVE Typed'
  <2>1. [job[j] EXCEPT !.old = job[j].old \ {d}] \in JobTypes
    BY <1>4, RecordTypes
  <2>2. job' \in [Jobs -> JobTypes]
    BY <1>21, <1>0, <2>1 DEF RemoveOld
  <2>3. shelf' \in [Minutes -> SlotTypes]
    BY <1>21, <1>0, RecordTypes DEF RemoveOld
  <2>4. newer' \in [Minutes -> SUBSET Minutes] /\ past' \in PastTypes
    BY <1>21, <1>0, <1>1, <1>2 DEF RemoveOld
  <2> QED BY <1>21, <1>0, <2>2, <2>3, <2>4 DEF RemoveOld
<1>22. ASSUME NEW j \in Jobs, Report(j) PROVE Typed'
  <2>1. past' \in PastTypes
    BY <1>22, <1>0, <1>4 DEF Report, PastTypes
  <2> QED BY <1>22, <1>0, <2>1, <1>3 DEF Report
<1>23. ASSUME NEW j \in Jobs, CopyFails(j) PROVE Typed'
  <2>1. mishaps' \in 0..MaxMishaps
    BY <1>23, <1>0, BackupAssumption DEF CopyFails
  <2> QED BY <1>23, <1>0, <2>1, <1>3 DEF CopyFails
<1>24. CASE UNCHANGED backupVars
  BY <1>24, <1>0 DEF backupVars
<1> QED
  <2>1. CASE BackupNext
    BY <2>1, <1>6, <1>7, <1>8, <1>9, <1>10, <1>13, <1>14, <1>15, <1>16, <1>17, <1>18, <1>19,
       <1>20, <1>21, <1>22, <1>23 DEF BackupNext
  <2> QED BY <2>1, <1>24

\* Types of the backups: every variable, the history included, stays in its domain, in
\* every interleaving of runs, rotations, exports and restores.
THEOREM BackupTypes == BackupSpec => []BackupTypeOK
<1>1. BackupInit => BackupTypeOK
  BY BackupAssumption, RecordTypes, TypesByName
     DEF BackupInit, Minutes, LiveTypes, PackTypes, PastTypes
<1> QED BY <1>1, BackupTypesStep, PTL DEF BackupSpec

\* A step of the export, a restore or a checkpoint leaves the shelf and the lists alone.
LEMMA LiveStep ==
  ASSUME BackupInv, BackupTypeOK', UNCHANGED <<shelf, newer, past>>,
         job' = job \/ Overwriting \/ job' = [j \in Jobs |-> NoJob]
  PROVE  BackupInv'
<1>1. CASE job' = job
  BY <1>1, RunsOnly
<1>2. CASE Overwriting
  <2>1. \A j \in Jobs : /\ job'[j].at = job[j].at /\ job'[j].listed = job[j].listed
                        /\ job'[j].dir = job[j].dir /\ job'[j].old = job[j].old
    BY <1>2, TypesByName DEF BackupInv, Overwriting, JobTypes
  <2> QED BY <2>1, RunsOnly
<1>3. CASE job' = [j \in Jobs |-> NoJob]
  BY <1>3, RunsOnly DEF NoJob
<1> QED BY <1>1, <1>2, <1>3

\* A run that ends, or goes on without a change of the shelf.
LEMMA RunStep ==
  ASSUME BackupInv, BackupTypeOK', NEW j \in Jobs,
         Finishes(j) \/ Verify(j), UNCHANGED <<shelf, newer, past>>
  PROVE  BackupInv'
<1>0. job \in [Jobs -> JobTypes]
  BY TypesByName DEF BackupInv
<1>1. CASE Finishes(j)
  <2>1. \A k \in Jobs : job'[k] = job[k] \/ job'[k] = NoJob
    BY <1>0, <1>1 DEF Finishes
  <2> QED BY <2>1, RunsOnly DEF NoJob
<1>2. CASE Verify(j)
  <2>1. \A k \in Jobs : /\ job'[k].listed = job[k].listed /\ job'[k].dir = job[k].dir
                        /\ job'[k].old = job[k].old
                        /\ job'[k].at = job[k].at \/ (k = j /\ job[k].at = "verify" /\ job'[k].at = "config")
    <3>1. PICK said \in BOOLEAN : job' = [job EXCEPT ![j].at = "config", ![j].usable = said]
      BY <1>2 DEF Verify
    <3>2. job[j].at = "verify"
      BY <1>2 DEF Verify
    <3> QED BY <1>0, <3>1, <3>2 DEF JobTypes
  <2> QED BY <2>1, RunsOnly
<1> QED BY <1>1, <1>2

\* A run takes the directory of its minute: a new one, which is nobody's, or the one that
\* is there.
LEMMA StartRunStep == ASSUME BackupInv, BackupTypeOK', NEW j \in Jobs, StartRun(j) PROVE BackupInv'
<1>0. job \in [Jobs -> JobTypes] /\ minute \in Minutes /\ shelf \in [Minutes -> SlotTypes]
      /\ past \in PastTypes
  BY TypesByName DEF BackupInv
<1>n. PICK n \in Minutes : n = minute
  BY <1>0
<1>1. \A k \in Jobs : k # j => job'[k] = job[k]
  BY <1>0 DEF StartRun
<1>2. job'[j].old = {} /\ job'[j].dir = n /\ job'[j].at = "copy"
      /\ (job'[j].listed <=> Doomed(n))
  BY <1>0, <1>n DEF StartRun, NoJob, Doomed
<1>3. n \in There'
  BY <1>0, <1>n DEF StartRun, There, Empty, Absent
<1>4. \A k \in Jobs : job'[k].old \subseteq job[k].old
  BY <1>1, <1>2
<1>5. \A k \in Jobs : job'[k].at # "idle" /\ ~job'[k].listed =>
        \/ job[k].at # "idle" /\ ~job[k].listed /\ job'[k].dir = job[k].dir /\ job'[k].at = job[k].at
        \/ job'[k].dir = n /\ n \in There' /\ ~Doomed(n) /\ job'[k].at = "copy"
  BY <1>1, <1>2, <1>3
<1>6. CASE n \in There
  <2>1. UNCHANGED <<shelf, newer, past>>
    BY <1>6, <1>n DEF StartRun
  <2>2. Sound(n) => Sound(n)'
    BY <1>0, <2>1 DEF StartRun, Sound
  <2> QED BY <1>0, <1>3, <1>4, <1>5, <2>1, <2>2, OneDirectory
<1>7. CASE n \notin There
  <2>1. ~Safe(n)
    BY <1>7 DEF Safe
  <2>2. Touch(n) /\ past' = Since(n) /\ shelf' = [shelf EXCEPT ![n] = Empty]
    BY <1>7, <1>n DEF StartRun
  <2>3. past'.dir = past.dir /\ past'.spoiled = past.spoiled
        /\ past'.since = IF past.dir \in Minutes THEN past.since \cup {n} ELSE past.since
    BY <1>0, <2>2 DEF Since, PastTypes
  <2> QED BY <1>0, <1>4, <1>5, <2>1, <2>2, <2>3, OneDirectory
<1> QED BY <1>6, <1>7

\* The online backup: a copy that is not whole is spoiled.
LEMMA CopyDatabaseStep == ASSUME BackupInv, BackupTypeOK', NEW j \in Jobs, CopyDatabase(j) PROVE BackupInv'
<1>0. job \in [Jobs -> JobTypes] /\ shelf \in [Minutes -> SlotTypes] /\ past \in PastTypes
  BY TypesByName DEF BackupInv
<1>1. PICK d \in Minutes : d = job[j].dir
  BY BackupParts DEF BackupInv
<1>2. CASE d \notin There
  BY <1>1, <1>2, RunStep DEF CopyDatabase
<1>3. CASE d \in There
  <2>1. job' = [job EXCEPT ![j].at = "verify", ![j].mixed = FALSE] /\ Touch(d)
    BY <1>1, <1>3 DEF CopyDatabase
  <2>2. \A k \in Jobs : /\ job'[k].listed = job[k].listed /\ job'[k].dir = job[k].dir
                        /\ job'[k].old = job[k].old
                        /\ job'[k].at = job[k].at \/ (k = j /\ job[k].at = "copy")
    <3>1. job[j].at = "copy"
      BY DEF CopyDatabase
    <3>2. job'[j] = [job[j] EXCEPT !.at = "verify", !.mixed = FALSE] /\ job[j] \in JobTypes
      BY <1>0, <2>1
    <3>3. job'[j].listed = job[j].listed /\ job'[j].dir = job[j].dir /\ job'[j].old = job[j].old
      BY <3>2 DEF JobTypes
    <3>4. \A k \in Jobs : k # j => job'[k] = job[k]
      BY <1>0, <2>1
    <3> QED BY <3>1, <3>3, <3>4
  <2>3. past'.dir = past.dir /\ past.spoiled \ {d} \subseteq past'.spoiled
        /\ past'.since = IF past.dir \in Minutes THEN past.since \cup {d} ELSE past.since
    <3>1. past' = Since(d) \/ \E D \in SUBSET Minutes :
            past.spoiled \ {d} \subseteq D /\ past' = [Since(d) EXCEPT !.spoiled = D]
      <4>1. Since(d).spoiled = past.spoiled /\ past.spoiled \in SUBSET Minutes
        BY <1>0 DEF Since, PastTypes
      <4>2. \/ past' = Since(d)
            \/ past' = [Since(d) EXCEPT !.spoiled = Since(d).spoiled \ {d}]
            \/ past' = [Since(d) EXCEPT !.spoiled = Since(d).spoiled \cup {d}]
        BY <1>1, <1>3 DEF CopyDatabase
      <4> QED BY <4>1, <4>2
    <3> QED BY <1>0, <3>1 DEF Since, PastTypes
  <2>4. /\ \A m \in Minutes \ {d} : shelf'[m] = shelf[m]
        /\ d \in There'
    <3>1. shelf' = shelf \/ \E good \in BOOLEAN : shelf' = [shelf EXCEPT ![d].whole = good]
      BY <1>1, <1>3 DEF CopyDatabase
    <3> QED BY <1>0, <1>3, <3>1 DEF There, SlotTypes
  <2>5. (Sound(d) => Sound(d)') /\ (~job[j].listed => Sound(d)')
    <3>1. CASE job[j].listed /\ past' = Since(d) /\ UNCHANGED shelf
      BY <1>0, <3>1 DEF Sound, Since, PastTypes
    <3>2. ASSUME NEW good \in BOOLEAN, shelf' = [shelf EXCEPT ![d].whole = good],
                 past' = [Since(d) EXCEPT !.spoiled = IF good THEN @ \ {d} ELSE @ \cup {d}]
          PROVE  Sound(d)'
      <4>1. CASE good
        BY <1>0, <3>2, <4>1 DEF Sound, SlotTypes
      <4>2. CASE ~good
        <5>1. past'.spoiled = past.spoiled \cup {d}
          BY <1>0, <3>2, <4>2 DEF Since, PastTypes
        <5> QED BY <5>1 DEF Sound
      <4> QED BY <4>1, <4>2
    <3>3. \/ job[j].listed /\ past' = Since(d) /\ UNCHANGED shelf
          \/ \E good \in BOOLEAN : /\ shelf' = [shelf EXCEPT ![d].whole = good]
                                   /\ past' = [Since(d) EXCEPT !.spoiled = IF good THEN @ \ {d} ELSE @ \cup {d}]
      BY <1>1, <1>3 DEF CopyDatabase
    <3> QED BY <3>1, <3>2, <3>3
  <2>6. \A k \in Jobs : job'[k].at # "idle" /\ ~job'[k].listed =>
          /\ job[k].at # "idle" /\ ~job[k].listed /\ job'[k].dir = job[k].dir
          /\ job[k].at = "copy" => job'[k].at = "copy" \/ Sound(job[k].dir)'
    <3> SUFFICES ASSUME NEW k \in Jobs, job'[k].at # "idle", ~job'[k].listed
                 PROVE  /\ job[k].at # "idle" /\ ~job[k].listed /\ job'[k].dir = job[k].dir
                        /\ job[k].at = "copy" => job'[k].at = "copy" \/ Sound(job[k].dir)'
      OBVIOUS
    <3>1. CASE k = j
      <4>1. job'[k].dir = d /\ ~job[j].listed
        BY <1>1, <2>2, <3>1
      <4>2. Sound(job[k].dir)'
        BY <4>1, <2>5 DEF Sound
      <4> QED BY <4>1, <4>2, <3>1, <2>2
    <3>2. CASE k # j
      BY <3>2, <2>2
    <3> QED BY <3>1, <3>2
  <2> QED BY <1>0, <2>1, <2>2, <2>3, <2>4, <2>5, <2>6, OneDirectory DEF PastTypes
<1> QED BY <1>2, <1>3

\* The copy of config.yaml.
LEMMA CopyConfigStep == ASSUME BackupInv, BackupTypeOK', NEW j \in Jobs, CopyConfig(j) PROVE BackupInv'
<1>0. job \in [Jobs -> JobTypes] /\ shelf \in [Minutes -> SlotTypes] /\ past \in PastTypes
  BY TypesByName DEF BackupInv
<1>1. PICK d \in Minutes : d = job[j].dir
  BY BackupParts DEF BackupInv
<1>2. CASE d \notin There
  BY <1>1, <1>2, RunStep DEF CopyConfig
<1>3. CASE d \in There
  <2>1. job' = [job EXCEPT ![j].at = "list"] /\ shelf' = [shelf EXCEPT ![d].config = TRUE]
        /\ job[j].at = "config"
    BY <1>1, <1>3 DEF CopyConfig, Goes
  <2>2. \A k \in Jobs : /\ job'[k].listed = job[k].listed /\ job'[k].dir = job[k].dir
                        /\ job'[k].old = job[k].old
                        /\ job'[k].at = job[k].at \/ (k = j /\ job[k].at = "config")
    BY <1>0, <2>1 DEF JobTypes
  <2>3. /\ \A m \in Minutes \ {d} : shelf'[m] = shelf[m]
        /\ d \in There' /\ shelf'[d].whole = shelf[d].whole
    BY <1>0, <1>3, <2>1 DEF There, SlotTypes
  <2>4. past'.dir = past.dir /\ past'.spoiled = past.spoiled
        /\ \/ newer' = newer /\ past' = past
           \/ Touch(d) /\ past'.since = IF past.dir \in Minutes THEN past.since \cup {d} ELSE past.since
    BY <1>0, <1>1, <1>3 DEF CopyConfig, Since, PastTypes
  <2>5. Sound(d) => Sound(d)'
    BY <2>3, <2>4 DEF Sound
  <2>6. \A k \in Jobs : job'[k].at # "idle" /\ ~job'[k].listed =>
          job[k].at # "idle" /\ ~job[k].listed /\ job'[k].dir = job[k].dir
          /\ (job[k].at = "copy" => job'[k].at = "copy")
    BY <2>1, <2>2
  <2> QED BY <1>0, <2>2, <2>3, <2>4, <2>5, <2>6, OneDirectory
<1> QED BY <1>2, <1>3

\* A rotation takes a directory off the shelf only from its list.
LEMMA RemoveOldStep ==
  ASSUME BackupInv, BackupTypeOK', NEW j \in Jobs, NEW d \in Minutes, RemoveOld(j, d) PROVE BackupInv'
<1>0. job \in [Jobs -> JobTypes] /\ shelf \in [Minutes -> SlotTypes] /\ past \in PastTypes
  BY TypesByName DEF BackupInv
<1>1. ~Safe(d)
  BY DEF RemoveOld, Safe, Doomed
<1>2. \A k \in Jobs : /\ job'[k].listed = job[k].listed /\ job'[k].dir = job[k].dir
                      /\ job'[k].old \subseteq job[k].old /\ job'[k].at = job[k].at
  BY <1>0 DEF RemoveOld, JobTypes
<1>3. \A m \in Minutes \ {d} : shelf'[m] = shelf[m]
  BY <1>0 DEF RemoveOld
<1>4. past'.dir = past.dir /\ past'.spoiled = past.spoiled
      /\ \/ Forget(d) /\ past' = past
         \/ Touch(d) /\ past'.since = IF past.dir \in Minutes THEN past.since \cup {d} ELSE past.since
  BY <1>0 DEF RemoveOld, Since, PastTypes
<1> QED BY <1>0, <1>1, <1>2, <1>3, <1>4, OneDirectory

\* A listing that leaves out what is newest.
LEMMA ListOldStep == ASSUME BackupInv, BackupTypeOK', NEW j \in Jobs, ListOld(j) PROVE BackupInv'
<1>0. job \in [Jobs -> JobTypes]
  BY TypesByName DEF BackupInv
<1>1. /\ UNCHANGED <<shelf, newer, past>> /\ job[j].at = "list"
  BY DEF ListOld
<1>2. \A k \in Jobs : /\ job'[k].dir = job[k].dir
                      /\ job'[k].old = IF k = j THEN NotNewest ELSE job[k].old
                      /\ job'[k].at = IF k = j THEN "remove" ELSE job[k].at
                      /\ job'[k].listed <=> job[k].listed \/ (job[k].at # "idle" /\ job[k].dir \in NotNewest)
  BY <1>0 DEF ListOld, JobTypes
<1>3. \A m \in Minutes : Doomed(m)' => Doomed(m) \/ m \in NotNewest
  BY <1>2 DEF Doomed
<1>4. There' = There /\ \A m : Sound(m)' <=> Sound(m)
  BY <1>1 DEF There, Sound
<1>5. PastFits'
  BY <1>1, <1>3, <1>4, NotItsTurn DEF BackupInv, PastFits, FewSince, Safe
<1>6. RunsFit'
  <2> SUFFICES ASSUME NEW k \in Jobs, job'[k].at # "idle", ~job'[k].listed
               PROVE  (Safe(job[k].dir) /\ (job[k].at # "copy" => Sound(job[k].dir)))'
    BY DEF RunsFit
  <2>1. PICK m \in Minutes : m = job[k].dir /\ m = job'[k].dir
    BY <1>2, BackupParts DEF BackupInv
  <2>2. job[k].at # "idle" /\ ~job[k].listed /\ m \notin NotNewest
        /\ (job'[k].at # "copy" => job[k].at # "copy")
    BY <1>1, <1>2, <2>1
  <2>3. Safe(m) /\ (job[k].at # "copy" => Sound(m))
    BY <2>1, <2>2 DEF BackupInv, RunsFit
  <2>4. Safe(m)'
    BY <2>2, <2>3, <1>3, <1>4 DEF Safe
  <2> QED BY <1>4, <2>1, <2>2, <2>3, <2>4 DEF Safe, Sound, Doomed
<1> QED BY <1>1, <1>5, <1>6 DEF BackupInv, NewerFit

\* The report of a run whose directory no rotation has had on its list.
LEMMA ReportStep == ASSUME BackupInv, BackupTypeOK', NEW j \in Jobs, Report(j) PROVE BackupInv'
<1>0. job \in [Jobs -> JobTypes] /\ past \in PastTypes
  BY TypesByName DEF BackupInv
<1>1. PICK d \in Minutes : d = job[j].dir
  BY BackupParts DEF BackupInv
<1>2. CASE ~(job[j].usable /\ ~job[j].listed)
  BY <1>2, RunStep DEF Report
<1>3. CASE job[j].usable /\ ~job[j].listed
  <2>1. /\ past' = [past EXCEPT !.dir = d, !.since = newer[d]] /\ UNCHANGED <<shelf, newer>>
        /\ job[j].at = "remove" /\ job' = [job EXCEPT ![j] = NoJob]
    BY <1>1, <1>3 DEF Report, Finishes
  <2>2. past'.dir = d /\ past'.since = newer[d] /\ past'.spoiled = past.spoiled
    BY <1>0, <2>1 DEF PastTypes
  <2>3. \A k \in Jobs : job'[k] = job[k] \/ (job'[k].at = "idle" /\ job'[k].old = {})
    BY <1>0, <2>1 DEF NoJob
  <2>4. There' = There /\ (\A m : Sound(m)' <=> Sound(m)) /\ \A m : Doomed(m)' => Doomed(m)
    BY <2>1, <2>2, <2>3 DEF There, Sound, Doomed
  <2>5. Safe(d) /\ Sound(d)
    BY <1>1, <1>3, <2>1 DEF BackupInv, RunsFit
  <2>6. PastFits'
    BY <2>1, <2>2, <2>4, <2>5 DEF PastFits, Safe, Sound, Doomed
  <2>7. RunsFit'
    <3> SUFFICES ASSUME NEW k \in Jobs, job'[k].at # "idle", ~job'[k].listed
                 PROVE  (Safe(job[k].dir) /\ (job[k].at # "copy" => Sound(job[k].dir)))'
      BY DEF RunsFit
    <3>1. PICK m \in Minutes : m = job[k].dir /\ m = job'[k].dir
      BY <2>3, BackupParts DEF BackupInv
    <3>2. job'[k] = job[k]
      BY <2>3
    <3>3. Safe(m) /\ (job[k].at # "copy" => Sound(m))
      BY <3>1, <3>2 DEF BackupInv, RunsFit
    <3>4. Safe(m)' /\ (job[k].at # "copy" => Sound(m)')
      BY <3>3, <2>4 DEF Safe
    <3> QED BY <3>1, <3>2, <3>4 DEF Safe, Sound, Doomed
  <2> QED BY <2>1, <2>6, <2>7 DEF BackupInv, NewerFit
<1> QED BY <1>2, <1>3

\* Every step keeps the invariant.
LEMMA BackupInvStep == ASSUME BackupInv, [BackupNext]_backupVars PROVE BackupInv'
<1>0. BackupTypeOK'
  BY BackupTypesStep DEF BackupInv
<1>1. CASE CommitOrCheckpoint \/ Tick \/ StartExport \/ FinishExport \/ KilledRuns
  BY <1>0, <1>1, LiveStep DEF CommitOrCheckpoint, Tick, StartExport, FinishExport, KilledRuns
<1>2. CASE Import \/ FinishRestore \/ \E m \in Minutes : RestoreSnapshot(m)
  <2>1. Overwriting
    BY <1>2 DEF Import, FinishRestore, RestoreSnapshot, StartRestore
  <2> QED BY <1>0, <2>1, LiveStep DEF Overwriting
<1>3. ASSUME NEW j \in Jobs, Verify(j) \/ ListFails(j) \/ CopyFails(j) PROVE BackupInv'
  BY <1>0, <1>3, RunStep DEF Verify, ListFails, CopyFails
<1>4. ASSUME NEW j \in Jobs,
             \/ StartRun(j) \/ CopyDatabase(j) \/ CopyConfig(j) \/ ListOld(j) \/ Report(j)
             \/ \E d \in Minutes : RemoveOld(j, d)
      PROVE  BackupInv'
  BY <1>0, <1>4, StartRunStep, CopyDatabaseStep, CopyConfigStep, ListOldStep, ReportStep, RemoveOldStep
<1>5. CASE UNCHANGED backupVars
  BY <1>0, <1>5, LiveStep DEF backupVars
<1> QED
  <2>1. CASE BackupNext
    BY <2>1, <1>1, <1>2, <1>3, <1>4 DEF BackupNext
  <2> QED BY <2>1, <1>5

\* A usable snapshot stays: what a run reported as usable, and no rotation had on its list
\* by then, is there and whole, or known to be spoiled, until as many other directories as
\* the rotation keeps have changed, in every interleaving of runs, rotations and restores.
THEOREM SnapshotsStay == BackupSpec => []UsableSnapshotStays
<1>1. BackupInit => BackupInv
  <2> SUFFICES ASSUME BackupInit PROVE BackupInv
    OBVIOUS
  <2>1. BackupTypeOK
    BY BackupAssumption, RecordTypes, TypesByName
       DEF BackupInit, Minutes, LiveTypes, PackTypes, PastTypes
  <2>2. past.dir \notin Minutes
    BY BackupAssumption DEF BackupInit, Minutes
  <2> QED BY <2>1, <2>2 DEF BackupInit, BackupInv, NewerFit, PastFits, FewSince, RunsFit, NoJob
<1>2. BackupInv => UsableSnapshotStays
  <2> SUFFICES ASSUME BackupInv, past.dir \in Minutes, ~(Cardinality(past.since \ {past.dir}) >= Keep)
               PROVE  past.dir \in There /\ (shelf[past.dir].whole \/ past.dir \in past.spoiled)
    BY DEF UsableSnapshotStays
  <2>1. PICK A \in SUBSET Minutes : A = past.since \ {past.dir}
    BY BackupParts DEF BackupInv
  <2>2. Cardinality(A) \in Nat /\ Keep \in Nat
    BY MinutesCount, BackupAssumption
  <2>3. FewSince(past)
    BY <2>1, <2>2 DEF FewSince
  <2> QED BY <2>3 DEF BackupInv, PastFits, Safe, Sound
<1> QED BY <1>1, <1>2, BackupInvStep, PTL DEF BackupSpec

-----------------------------------------------------------------------------
(* Managed mode *)

Locks  == [on : BOOLEAN, beat : {"none", "fresh", "old"}, url : BOOLEAN]
Tabs   == [at : {"closed", "generate", "shown"}, shows : 0..MaxTokens]
Hubs   == [token : 0..MaxTokens, alive : BOOLEAN, record : {"direct", "managed"},
           at : {"idle", "lock", "unlock", "poll"}, told : BOOLEAN]
Spent  == [tokens : 0..MaxTokens, outages : 0..MaxOutages]

\* The type invariant, set by set.
ManagedTyped ==
  /\ lock \in Locks /\ token \in 0..MaxTokens /\ page \in [Pages -> Tabs]
  /\ hub \in Hubs /\ visit \in [Visitors -> {"away", "look", "release"}] /\ spent \in Spent

\* What becomes of the record when pktHub has its answer.
LEMMA HubAnswered ==
  ASSUME hub \in Hubs, NEW told \in BOOLEAN, NEW record \in {"direct", "managed"}, NEW at \in {"idle", "lock", "unlock", "poll"}
  PROVE  /\ [hub EXCEPT !.at = at] \in Hubs
         /\ [hub EXCEPT !.at = at, !.record = record] \in Hubs
         /\ [hub EXCEPT !.at = at, !.told = told] \in Hubs
         /\ [hub EXCEPT !.at = at, !.told = told, !.record = record] \in Hubs
         /\ [hub EXCEPT !.alive = told] \in Hubs
BY DEF Hubs

\* Tokens are numbered as they are generated, and every step keeps the types.
LEMMA ManagedTypesStep ==
  ASSUME ManagedTyped, [ManagedNext]_managedVars
  PROVE  ManagedTyped'
<1>1. /\ lock \in Locks /\ token \in 0..MaxTokens /\ page \in [Pages -> Tabs]
      /\ hub \in Hubs /\ visit \in [Visitors -> {"away", "look", "release"}] /\ spent \in Spent
      /\ MaxTokens \in Nat /\ MaxOutages \in Nat
  BY ManagedAssumption DEF ManagedTyped
<1>2. ASSUME NEW p \in Pages, ShowToken(p) PROVE ManagedTyped'
  BY <1>1, <1>2 DEF ShowToken, ManagedTyped, Tabs
<1>3. ASSUME NEW p \in Pages, StoreToken(p) PROVE ManagedTyped'
  <2>1. spent.tokens \in 0..MaxTokens /\ spent.tokens < MaxTokens
    BY <1>1, <1>3 DEF StoreToken, Spent
  <2>2. PICK n \in 0..MaxTokens : n = spent.tokens + 1
    BY <1>1, <2>1
  <2>3. /\ token' = n /\ spent' = [spent EXCEPT !.tokens = n]
        /\ page' = [page EXCEPT ![p] = [at |-> "shown", shows |-> n]]
        /\ UNCHANGED <<lock, hub, visit>>
    BY <1>3, <2>2 DEF StoreToken
  <2> QED BY <1>1, <2>3 DEF ManagedTyped, Tabs, Spent
<1>4. ASSUME NEW p \in Pages, PasteToken(p) PROVE ManagedTyped'
  BY <1>1, <1>4 DEF PasteToken, ManagedTyped, Tabs, Hubs
<1>5. CASE RegisterToken
  BY <1>1, <1>5 DEF RegisterToken, ManagedTyped, Hubs
<1>6. ASSUME NEW b \in BOOLEAN, AskLock(b) PROVE ManagedTyped'
  BY <1>1, <1>6, HubAnswered DEF AskLock, ManagedTyped
<1>7. ASSUME NEW b \in BOOLEAN, SetDirectAccess(b) PROVE ManagedTyped'
  <2>1. PICK record \in {"direct", "managed"} : hub' = [hub EXCEPT !.at = "idle", !.record = record]
    <3>1. hub.record \in {"direct", "managed"}
      BY <1>1 DEF Hubs
    <3> QED BY <1>7, <3>1 DEF SetDirectAccess
  <2>2. hub' \in Hubs
    BY <1>1, <2>1, HubAnswered
  <2>3. lock' \in Locks
    BY <1>1, <1>7 DEF SetDirectAccess, Locks
  <2> QED BY <1>1, <1>7, <2>2, <2>3 DEF SetDirectAccess, ManagedTyped
<1>8. ASSUME NEW b \in BOOLEAN, SetRedirect(b) PROVE ManagedTyped'
  BY <1>1, <1>8 DEF SetRedirect, ManagedTyped, Locks
<1>9. CASE PollReads
  <2>1. lock.on \in BOOLEAN
    BY <1>1 DEF Locks
  <2> QED BY <1>1, <1>9, <2>1, HubAnswered DEF PollReads, ManagedTyped
<1>10. CASE PollBeats
  <2>1. PICK record \in {"direct", "managed"} :
          hub' = [hub EXCEPT !.at = "idle", !.told = FALSE, !.record = record]
    <3>1. hub.record \in {"direct", "managed"}
      BY <1>1 DEF Hubs
    <3> QED BY <1>10, <3>1 DEF PollBeats
  <2>2. hub' \in Hubs
    BY <1>1, <2>1, HubAnswered
  <2>3. lock' \in Locks
    BY <1>1, <1>10 DEF PollBeats, Locks
  <2> QED BY <1>1, <1>10, <2>2, <2>3 DEF PollBeats, ManagedTyped
<1>11. CASE Proxied \/ BeatAges
  BY <1>1, <1>11 DEF Proxied, BeatAges, ManagedTyped, Locks
<1>12. CASE HubGoes
  <2>1. spent.outages \in 0..MaxOutages /\ spent.outages < MaxOutages
    BY <1>1, <1>12 DEF HubGoes, Spent
  <2>2. PICK n \in 0..MaxOutages : n = spent.outages + 1
    BY <1>1, <2>1
  <2>3. spent' = [spent EXCEPT !.outages = n] /\ hub' \in Hubs /\ UNCHANGED <<lock, token, page, visit>>
    BY <1>1, <1>12, <2>2, HubAnswered DEF HubGoes
  <2> QED BY <1>1, <2>3 DEF ManagedTyped, Spent
<1>13. CASE HubReturns
  BY <1>1, <1>13, HubAnswered DEF HubReturns, ManagedTyped
<1>14. ASSUME NEW v \in Visitors, Visit(v) \/ LookAtBeat(v) \/ Release(v) PROVE ManagedTyped'
  BY <1>1, <1>14 DEF Visit, LookAtBeat, Release, ManagedTyped, Locks
<1>15. CASE UNCHANGED managedVars
  BY <1>1, <1>15 DEF managedVars, ManagedTyped
<1> QED BY <1>2, <1>3, <1>4, <1>5, <1>6, <1>7, <1>8, <1>9, <1>10, <1>11, <1>12, <1>13, <1>14, <1>15
        DEF ManagedNext

\* The settings rows that suite.py keeps, the pages that show the token and what pktHub
\* holds are well typed in every state.
THEOREM ManagedTypesHold == ManagedSpec => []ManagedTypeOK
<1>1. ManagedInit => ManagedTyped
  BY ManagedAssumption DEF ManagedInit, ManagedTyped, Locks, Tabs, Hubs, Spent
<1>2. ManagedTyped /\ [ManagedNext]_managedVars => ManagedTyped'
  BY ManagedTypesStep
<1>3. ManagedTyped => ManagedTypeOK
  BY DEF ManagedTyped, ManagedTypeOK, Locks, Tabs, Hubs, Spent
<1> QED BY <1>1, <1>2, <1>3, PTL DEF ManagedSpec

=============================================================================
