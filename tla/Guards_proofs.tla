--------------------------- MODULE Guards_proofs ----------------------------
(***************************************************************************)
(* Proofs about the three components that keep callers within limits,      *)
(* LoginProtection, Resonance and AgentStop: for every number of accounts, *)
(* addresses, users, overlapping requests and administrators, every limit, *)
(* and whichever bucket is watched.  They share no state; each section has *)
(* its own invariant.                                                      *)
(***************************************************************************)
EXTENDS LoginProtection, Resonance, AgentStop, FiniteSetTheorems, TLAPS

-----------------------------------------------------------------------------
(* LoginProtection *)

\* A wrong password adds one to what the row stands for, and the count of
\* failures stays below the limit (the UPDATE of lockout.record_failure).
LEMMA FailureAddsOne ==
    ASSUME NEW u \in UserSet, u.failed < Limit
    PROVE  LET v == AfterFailure(u) IN
             /\ v \in UserSet /\ v.row = u.row
             /\ v.failed < Limit
             /\ v.failed + Limit * v.lockouts = u.failed + Limit * u.lockouts + 1
             /\ u.locked => v.locked
             /\ (u.lockouts >= 2 => u.locked) => (v.lockouts >= 2 => v.locked)
<1> USE LoginAssumption
<1> DEFINE v == AfterFailure(u)
<1>1. CASE u.failed + 1 < Limit
  <2>1. v = [u EXCEPT !.failed = @ + 1]
    BY <1>1 DEF AfterFailure
  <2>2. v \in UserSet /\ v.row = u.row /\ v.failed = u.failed + 1
        /\ v.lockouts = u.lockouts /\ v.locked = u.locked
    BY <2>1 DEF UserSet
  <2> QED BY <1>1, <2>2 DEF UserSet
<1>2. CASE ~(u.failed + 1 < Limit)
  <2> DEFINE p == u.locked \/ u.lockouts >= 1
             q == u.waiting \/ u.lockouts = 0
  <2>1. v = [row |-> u.row, failed |-> 0, lockouts |-> u.lockouts + 1, waiting |-> q, locked |-> p]
    BY <1>2 DEF AfterFailure
  <2>2. p \in BOOLEAN /\ q \in BOOLEAN
    OBVIOUS
  <2>3. /\ v \in UserSet /\ v.row = u.row /\ v.failed = 0
        /\ v.lockouts = u.lockouts + 1 /\ v.locked = p
    <3>1. u.row \in {"active", "inactive", "deleted"} /\ u.lockouts + 1 \in Nat
      BY DEF UserSet
    <3> HIDE DEF p, q, v
    <3>2. v \in UserSet
      BY <2>1, <2>2, <3>1 DEF UserSet
    <3> QED BY <2>1, <3>2
  <2>4. (u.locked => v.locked) /\ (v.lockouts >= 2 => v.locked)
    BY <2>3 DEF UserSet
  <2>5. u.failed + 1 = Limit
    BY <1>2 DEF UserSet
  <2>6. Limit * (u.lockouts + 1) = Limit * u.lockouts + Limit
    BY DEF UserSet
  <2> QED BY <2>3, <2>4, <2>5, <2>6 DEF UserSet
<1> QED BY <1>1, <1>2

\* A success leaves a row that stands for no failure, and the lock as it is.
LEMMA SuccessClears ==
    ASSUME NEW u \in UserSet
    PROVE  LET v == AfterSuccess(u) IN
             /\ v \in UserSet /\ v.row = u.row /\ v.locked = u.locked
             /\ v.failed = 0 /\ v.lockouts = 0
             /\ [v EXCEPT !.locked = FALSE] \in UserSet
BY DEF AfterSuccess, UserSet

-----------------------------------------------------------------------------
\* The inductive invariant: the counts agree and none has reached the limit.

Counted ==
    /\ LoginTypeOK
    /\ \A a \in Accounts : user[a].failed < Limit
    /\ FailuresAreCounted

\* A request that is over is a request.
LEMMA IdleIsRequest ==
    ASSUME NEW q \in RequestSet PROVE Idle(q) \in RequestSet
BY DEF Idle, RequestSet

\* A request that gets on is a request.
LEMMA StageIsRequest ==
    ASSUME NEW q \in RequestSet, NEW s \in {"idle", "arrived", "wrong", "right", "refused"}
    PROVE  [q EXCEPT !.stage = s] \in RequestSet
BY DEF RequestSet

\* Rows without failures are counted right.
LEMMA InitCounts == LoginInit => Counted
<1> SUFFICES ASSUME LoginInit PROVE Counted
  OBVIOUS
<1> USE LoginAssumption
<1>1. NewUser \in UserSet /\ NewUser.failed = 0 /\ NewUser.lockouts = 0
  BY DEF NewUser, UserSet
<1>2. request \in [Requests -> RequestSet]
  BY DEF LoginInit, RequestSet
<1>3. LoginTypeOK
  BY <1>1, <1>2 DEF LoginInit, LoginTypeOK
<1>4. \A a \in Accounts : 0 = NewUser.failed + Limit * NewUser.lockouts
  BY <1>1
<1> QED BY <1>1, <1>3, <1>4 DEF LoginInit, Counted, FailuresAreCounted

\* A step that only moves requests, time or addresses keeps every row.
LEMMA RowsUnchanged ==
    ASSUME Counted, LoginTypeOK', UNCHANGED <<user, tally>>
    PROVE  Counted'
BY DEF Counted, FailuresAreCounted

\* Every step keeps that the rows count the failures.
LEMMA NextCounts ==
    ASSUME Counted, [LoginNext]_loginVars
    PROVE  Counted'
<1> USE LoginAssumption DEF Counted
<1>1. ASSUME NEW r \in Requests, Arrive(r) PROVE Counted'
  <2>1. request' \in [Requests -> RequestSet]
    BY <1>1 DEF Arrive, LoginTypeOK, RequestSet
  <2> QED BY <1>1, <2>1, RowsUnchanged DEF Arrive, LoginTypeOK
<1>2. ASSUME NEW r \in Requests, FindNobody(r) PROVE Counted'
  <2>1. request' \in [Requests -> RequestSet]
    BY <1>2, StageIsRequest DEF FindNobody, LoginTypeOK
  <2> QED BY <1>2, <2>1, RowsUnchanged DEF FindNobody, LoginTypeOK
<1>3. ASSUME NEW r \in Requests, Refuse(r) PROVE Counted'
  <2>1. request' \in [Requests -> RequestSet]
    BY <1>3, IdleIsRequest DEF Refuse, LoginTypeOK
  <2> QED BY <1>3, <2>1, RowsUnchanged DEF Refuse, LoginTypeOK
<1>4. ASSUME NEW r \in Requests, CheckPassword(r) PROVE Counted'
  <2>1. request' \in [Requests -> RequestSet]
    <3>1. PICK result \in {"wrong", "right"} :
            request' = [request EXCEPT ![r].stage = result]
      BY <1>4 DEF CheckPassword
    <3>2. [request[r] EXCEPT !.stage = result] \in RequestSet
      BY StageIsRequest DEF LoginTypeOK
    <3> QED BY <3>1, <3>2 DEF LoginTypeOK
  <2> QED BY <1>4, <2>1, RowsUnchanged DEF CheckPassword, LoginTypeOK
<1>5. ASSUME NEW r \in Requests, BreakOff(r) PROVE Counted'
  <2>1. request' \in [Requests -> RequestSet]
    BY <1>5, IdleIsRequest DEF BreakOff, LoginTypeOK
  <2> QED BY <1>5, <2>1, RowsUnchanged DEF BreakOff, LoginTypeOK
<1>6. ASSUME NEW r \in Requests, CountAddress(r) PROVE Counted'
  <2>1. request' \in [Requests -> RequestSet]
    BY <1>6, IdleIsRequest DEF CountAddress, LoginTypeOK
  <2>2. recent' \in [Addresses -> 0 .. AddressLimit - 1] /\ blocked' \in [Addresses -> BOOLEAN]
    <3> DEFINE d == request[r].address
    <3>1. recent \in [Addresses -> 0 .. AddressLimit - 1] /\ blocked \in [Addresses -> BOOLEAN]
      BY DEF LoginTypeOK
    <3>2. d \in Addresses
      BY DEF LoginTypeOK, RequestSet
    <3>3. CASE recent[d] + 1 < AddressLimit
      <4>1. recent' = [recent EXCEPT ![d] = @ + 1] /\ blocked' = blocked
        BY <1>6, <3>3 DEF CountAddress
      <4>2. recent[d] + 1 \in 0 .. AddressLimit - 1
        BY <3>1, <3>2, <3>3
      <4> QED BY <3>1, <4>1, <4>2
    <3>4. CASE ~(recent[d] + 1 < AddressLimit)
      <4>1. recent' = [recent EXCEPT ![d] = 0] /\ blocked' = [blocked EXCEPT ![d] = TRUE]
        BY <1>6, <3>4 DEF CountAddress
      <4>2. 0 \in 0 .. AddressLimit - 1
        OBVIOUS
      <4> QED BY <3>1, <4>1, <4>2
    <3> QED BY <3>3, <3>4
  <2> QED BY <1>6, <2>1, <2>2, RowsUnchanged DEF CountAddress, LoginTypeOK
<1>7. ASSUME NEW d \in Addresses, FailureAges(d) \/ BlockEnds(d) PROVE Counted'
  <2>1. recent' \in [Addresses -> 0 .. AddressLimit - 1] /\ blocked' \in [Addresses -> BOOLEAN]
    <3>1. recent \in [Addresses -> 0 .. AddressLimit - 1] /\ blocked \in [Addresses -> BOOLEAN]
      BY DEF LoginTypeOK
    <3>2. CASE FailureAges(d)
      <4>1. recent[d] - 1 \in 0 .. AddressLimit - 1
        BY <3>1, <3>2 DEF FailureAges
      <4>2. recent' = [recent EXCEPT ![d] = @ - 1] /\ blocked' = blocked
        BY <3>2 DEF FailureAges
      <4> QED BY <3>1, <4>1, <4>2
    <3>3. CASE BlockEnds(d)
      BY <3>1, <3>3 DEF BlockEnds
    <3> QED BY <1>7, <3>2, <3>3
  <2> QED BY <1>7, <2>1, RowsUnchanged DEF FailureAges, BlockEnds, LoginTypeOK
<1>8. ASSUME NEW r \in Requests, CountFailure(r) PROVE Counted'
  <2> DEFINE a == request[r].account
  <2>1. CASE Is(a, "deleted")
    <3>1. request' \in [Requests -> RequestSet]
      BY <1>8, <2>1, IdleIsRequest DEF CountFailure, LoginTypeOK
    <3> QED BY <1>8, <2>1, <3>1, RowsUnchanged DEF CountFailure, LoginTypeOK
  <2>2. CASE ~Is(a, "deleted")
    <3>1. request' \in [Requests -> RequestSet]
      <4>1. request' = [request EXCEPT ![r].stage = "refused"]
        BY <1>8, <2>2 DEF CountFailure
      <4>2. [request[r] EXCEPT !.stage = "refused"] \in RequestSet
        BY StageIsRequest DEF LoginTypeOK
      <4> QED BY <4>1, <4>2 DEF LoginTypeOK
    <3>2. user' = [user EXCEPT ![a] = AfterFailure(@)] /\ tally' = [tally EXCEPT ![a] = @ + 1]
      BY <1>8, <2>2 DEF CountFailure
    <3>3. \A b \in Accounts : user[b] \in UserSet /\ tally[b] \in Nat
      BY DEF LoginTypeOK
    <3>4. ASSUME NEW b \in Accounts
          PROVE  /\ user'[b] \in UserSet /\ tally'[b] \in Nat
                 /\ user'[b].failed < Limit
                 /\ user'[b].row # "deleted" =>
                      tally'[b] = user'[b].failed + Limit * user'[b].lockouts
      <4>1. CASE b = a
        <5>1. user'[b] = AfterFailure(user[b]) /\ tally'[b] = tally[b] + 1
          BY <3>2, <4>1 DEF LoginTypeOK
        <5> QED BY <5>1, <3>3, FailureAddsOne DEF FailuresAreCounted
      <4>2. CASE b # a
        BY <3>2, <3>3, <4>2 DEF LoginTypeOK, FailuresAreCounted
      <4> QED BY <4>1, <4>2
    <3>5. user' \in [Accounts -> UserSet] /\ tally' \in [Accounts -> Nat]
      BY <3>2, <3>4 DEF LoginTypeOK
    <3>6. LoginTypeOK'
      BY <1>8, <3>1, <3>5 DEF CountFailure, LoginTypeOK
    <3> QED BY <3>4, <3>6 DEF FailuresAreCounted
  <2> QED BY <2>1, <2>2
<1>9. ASSUME NEW r \in Requests, Succeed(r) PROVE Counted'
  <2> DEFINE a == request[r].account
  <2>1. request' \in [Requests -> RequestSet]
    BY <1>9, IdleIsRequest DEF Succeed, LoginTypeOK
  <2>2. /\ user' = [user EXCEPT ![a] = IF Is(a, "deleted") THEN @ ELSE AfterSuccess(@)]
        /\ tally' = [tally EXCEPT ![a] = 0]
    BY <1>9 DEF Succeed
  <2>3. \A b \in Accounts : user[b] \in UserSet /\ tally[b] \in Nat
    BY DEF LoginTypeOK
  <2>4. ASSUME NEW b \in Accounts
        PROVE  /\ user'[b] \in UserSet /\ tally'[b] \in Nat
               /\ user'[b].failed < Limit
               /\ user'[b].row # "deleted" =>
                    tally'[b] = user'[b].failed + Limit * user'[b].lockouts
    <3>1. CASE b = a /\ Is(a, "deleted")
      <4>1. user'[b] = user[b] /\ tally'[b] = 0
        BY <2>2, <3>1 DEF LoginTypeOK
      <4> QED BY <4>1, <3>1, <2>3 DEF Is
    <3>2. CASE b = a /\ ~Is(a, "deleted")
      <4>1. user'[b] = AfterSuccess(user[b]) /\ tally'[b] = 0
        BY <2>2, <3>2 DEF LoginTypeOK
      <4>2. 0 = 0 + Limit * 0
        OBVIOUS
      <4>3. user[b] \in UserSet
        BY <2>3
      <4>4. /\ AfterSuccess(user[b]) \in UserSet
            /\ AfterSuccess(user[b]).failed = 0 /\ AfterSuccess(user[b]).lockouts = 0
        BY <4>3, SuccessClears
      <4> QED BY <4>1, <4>2, <4>4
    <3>3. CASE b # a
      BY <2>2, <2>3, <3>3 DEF LoginTypeOK, FailuresAreCounted
    <3> QED BY <3>1, <3>2, <3>3
  <2>5. user' \in [Accounts -> UserSet] /\ tally' \in [Accounts -> Nat]
    BY <2>2, <2>4 DEF LoginTypeOK
  <2>6. LoginTypeOK'
    BY <1>9, <2>1, <2>5 DEF Succeed, LoginTypeOK
  <2> QED BY <2>4, <2>6 DEF FailuresAreCounted
<1>10. ASSUME NEW a \in Accounts, UnlockUser(a) PROVE Counted'
  <2>1. /\ user' = [user EXCEPT ![a] = [AfterSuccess(@) EXCEPT !.locked = FALSE]]
        /\ tally' = [tally EXCEPT ![a] = 0]
    BY <1>10 DEF UnlockUser
  <2>2. \A b \in Accounts : user[b] \in UserSet /\ tally[b] \in Nat
    BY DEF LoginTypeOK
  <2>3. user'[a] = [AfterSuccess(user[a]) EXCEPT !.locked = FALSE]
    BY <2>1 DEF LoginTypeOK
  <2>4. user'[a] \in UserSet
    BY <2>2, <2>3, SuccessClears
  <2>5. user'[a].failed = 0 /\ user'[a].lockouts = 0
    BY <2>2, <2>3 DEF AfterSuccess, UserSet
  <2>6. user' \in [Accounts -> UserSet] /\ tally' \in [Accounts -> Nat]
    BY <2>1, <2>2, <2>3, <2>4 DEF LoginTypeOK
  <2>7. LoginTypeOK'
    BY <1>10, <2>6 DEF UnlockUser, LoginTypeOK
  <2> QED BY <2>1, <2>2, <2>5, <2>7 DEF LoginTypeOK, FailuresAreCounted
<1>11. ASSUME NEW a \in Accounts, SetRow(a) \/ LockEnds(a) PROVE Counted'
  <2>1. \A b \in Accounts : user[b] \in UserSet
    BY DEF LoginTypeOK
  <2>2. \A u \in UserSet : /\ \A s \in {"active", "inactive", "deleted"} :
                                [u EXCEPT !.row = s] \in UserSet
                           /\ [u EXCEPT !.waiting = FALSE] \in UserSet
    BY DEF UserSet
  <2>3. PICK u \in UserSet : /\ user' = [user EXCEPT ![a] = u]
                             /\ u.failed = user[a].failed /\ u.lockouts = user[a].lockouts
                             /\ u.row # "deleted" => user[a].row # "deleted"
    <3>1. CASE SetRow(a)
      <4>1. PICK s \in {"active", "inactive", "deleted"} : user' = [user EXCEPT ![a].row = s]
        BY <3>1 DEF SetRow
      <4>2. /\ [user[a] EXCEPT !.row = s] \in UserSet
            /\ [user[a] EXCEPT !.row = s].failed = user[a].failed
            /\ [user[a] EXCEPT !.row = s].lockouts = user[a].lockouts
        BY <2>1, <2>2 DEF UserSet
      <4> QED BY <3>1, <4>1, <4>2 DEF SetRow
    <3>2. CASE LockEnds(a)
      <4>1. user' = [user EXCEPT ![a].waiting = FALSE]
        BY <3>2 DEF LockEnds
      <4>2. /\ [user[a] EXCEPT !.waiting = FALSE] \in UserSet
            /\ [user[a] EXCEPT !.waiting = FALSE].failed = user[a].failed
            /\ [user[a] EXCEPT !.waiting = FALSE].lockouts = user[a].lockouts
            /\ [user[a] EXCEPT !.waiting = FALSE].row = user[a].row
        <5>1. user[a] \in UserSet /\ [user[a] EXCEPT !.waiting = FALSE] \in UserSet
          BY <2>1, <2>2
        <5> QED BY <5>1 DEF UserSet
      <4> QED BY <4>1, <4>2
    <3> QED BY <1>11, <3>1, <3>2
  <2>4. user' \in [Accounts -> UserSet]
    BY <2>3 DEF LoginTypeOK
  <2>5. LoginTypeOK' /\ UNCHANGED tally
    BY <1>11, <2>4 DEF SetRow, LockEnds, LoginTypeOK
  <2>6. ASSUME NEW b \in Accounts
        PROVE  /\ user'[b].failed < Limit
               /\ user'[b].row # "deleted" =>
                    tally'[b] = user'[b].failed + Limit * user'[b].lockouts
    <3>1. /\ user[b].failed < Limit
          /\ user[b].row # "deleted" => tally[b] = user[b].failed + Limit * user[b].lockouts
      BY DEF FailuresAreCounted
    <3>2. tally'[b] = tally[b]
      BY <2>5
    <3>3. user'[b] = IF b = a THEN u ELSE user[b]
      BY <2>3 DEF LoginTypeOK
    <3>4. /\ user'[b].failed = user[b].failed /\ user'[b].lockouts = user[b].lockouts
          /\ user'[b].row # "deleted" => user[b].row # "deleted"
      BY <2>3, <3>3
    <3> QED BY <3>1, <3>2, <3>4
  <2> QED BY <2>5, <2>6 DEF FailuresAreCounted
<1>12. CASE UNCHANGED loginVars
  BY <1>12 DEF loginVars, LoginTypeOK, FailuresAreCounted
<1> QED
  BY <1>1, <1>2, <1>3, <1>4, <1>5, <1>6, <1>7, <1>8, <1>9, <1>10, <1>11, <1>12 DEF LoginNext

\* The rows count the failures in every state.
LEMMA AlwaysCounted == LoginSpec => []Counted
BY InitCounts, NextCounts, PTL DEF LoginSpec

\* The rows, counts and requests keep their types; in particular no address's
\* count ever reaches its limit.
THEOREM LoginTypesHold == LoginSpec => []LoginTypeOK
BY AlwaysCounted, PTL DEF Counted

\* However many requests overlap, the row of an account accounts for every wrong
\* password checked since the last success or unlock.
THEOREM NoFailureIsLost == LoginSpec => []FailuresAreCounted
BY AlwaysCounted, PTL DEF Counted

\* Only unlock_user ends a permanent lock, whatever requests are in progress.
THEOREM OnlyUnlockEndsLock == LoginSpec => LockedUntilUnlocked
<1> DEFINE Kept == \A a \in Accounts : user[a].locked /\ ~user'[a].locked => UnlockUser(a)
<1>1. ASSUME Counted, [LoginNext]_loginVars PROVE [Kept]_loginVars
  <2> USE LoginAssumption DEF Counted
  <2> SUFFICES ASSUME NEW a \in Accounts, user[a].locked, ~user'[a].locked
               PROVE  UnlockUser(a)
    OBVIOUS
  <2>1. user \in [Accounts -> UserSet] /\ user[a] \in UserSet /\ user[a].failed < Limit
    BY <1>1 DEF LoginTypeOK
  <2>2. ASSUME NEW r \in Requests, CountFailure(r) PROVE FALSE
    <3>1. user'[a] = user[a] \/ user'[a] = AfterFailure(user[a])
      BY <2>1, <2>2 DEF CountFailure
    <3> QED BY <3>1, <2>1, FailureAddsOne
  <2>3. ASSUME NEW r \in Requests, Succeed(r) PROVE FALSE
    <3>1. user'[a] = user[a] \/ user'[a] = AfterSuccess(user[a])
      BY <2>3 DEF Succeed, LoginTypeOK
    <3> QED BY <3>1, <2>1, SuccessClears
  <2>4. ASSUME NEW b \in Accounts, SetRow(b) \/ LockEnds(b) PROVE FALSE
    <3>1. PICK s \in {"active", "inactive", "deleted"} :
            \/ user' = [user EXCEPT ![b].row = s]
            \/ user' = [user EXCEPT ![b].waiting = FALSE]
      BY <2>4 DEF SetRow, LockEnds
    <3>2. user'[a].locked = user[a].locked
      BY <2>1, <3>1 DEF UserSet
    <3> QED BY <3>2
  <2>5. ASSUME NEW b \in Accounts, UnlockUser(b), b # a PROVE FALSE
    BY <2>5 DEF UnlockUser, LoginTypeOK
  <2>6. user' # user
    OBVIOUS
  <2> QED
    BY <1>1, <2>2, <2>3, <2>4, <2>5, <2>6
    DEF LoginNext, loginVars, Arrive, FindNobody, Refuse, CheckPassword, CountAddress,
        BreakOff, FailureAges, BlockEnds
<1> QED BY <1>1, AlwaysCounted, PTL DEF LoginSpec, LockedUntilUnlocked

-----------------------------------------------------------------------------
\* The number of guesses.  A wrong password that was checked is counted already
\* or its request is about to count it; once the account is locked for good no
\* further request joins them.

Checked(a) == {r \in Requests : request[r].stage = "wrong" /\ request[r].account = a}

Guessing ==
    /\ \A a \in Accounts : user[a].lockouts >= 2 => user[a].locked
    /\ \A a \in Accounts :
         tally[a] + Cardinality(Checked(a)) < 2 * Limit + Cardinality(Requests)

\* Sets of requests are finite and no larger than the set of all.
LEMMA RequestsAreFinite ==
    ASSUME NEW S \in SUBSET Requests
    PROVE  /\ IsFiniteSet(S) /\ Cardinality(S) \in Nat /\ Cardinality(Requests) \in Nat
           /\ Cardinality(S) <= Cardinality(Requests)
BY LoginAssumption, FS_Subset, FS_CardinalityType

\* A set of requests is as large as its subsets at least.
LEMMA SmallerSet ==
    ASSUME NEW T \in SUBSET Requests, NEW S \in SUBSET T
    PROVE  Cardinality(S) <= Cardinality(T)
BY RequestsAreFinite, FS_Subset

\* A step that counts nothing and lets no request join keeps the bound.
LEMMA NoNewGuess ==
    ASSUME Counted, Counted', Guessing, NEW a \in Accounts,
           Checked(a)' \subseteq Checked(a), tally'[a] <= tally[a]
    PROVE  tally'[a] + Cardinality(Checked(a)') < 2 * Limit + Cardinality(Requests)
<1>1. Cardinality(Checked(a)') <= Cardinality(Checked(a))
  BY SmallerSet DEF Checked
<1>2. Cardinality(Checked(a)') \in Nat /\ Cardinality(Checked(a)) \in Nat
      /\ Cardinality(Requests) \in Nat
  BY RequestsAreFinite DEF Checked
<1>3. tally[a] \in Nat /\ tally'[a] \in Nat
  BY DEF Counted, LoginTypeOK
<1>4. tally[a] + Cardinality(Checked(a)) < 2 * Limit + Cardinality(Requests)
  BY DEF Guessing
<1> QED BY <1>1, <1>2, <1>3, <1>4, LoginAssumption

\* No guess has been made at the start.
LEMMA InitGuesses == LoginInit => Guessing
<1> SUFFICES ASSUME LoginInit PROVE Guessing
  OBVIOUS
<1>1. \A a \in Accounts : user[a].lockouts = 0 /\ tally[a] = 0 /\ Checked(a) = {}
  BY DEF LoginInit, NewUser, Checked
<1>2. Cardinality({}) = 0 /\ Cardinality(Requests) \in Nat
  BY FS_EmptySet, RequestsAreFinite
<1>3. \A a \in Accounts : user[a].lockouts >= 2 => user[a].locked
  BY <1>1
<1>4. \A a \in Accounts : tally[a] + Cardinality(Checked(a)) < 2 * Limit + Cardinality(Requests)
  BY <1>1, <1>2, LoginAssumption
<1> QED BY <1>3, <1>4 DEF Guessing

\* Steps that leave the accounts alone: at most one request changes its stage,
\* and not to "wrong".
LEMMA RowsStay ==
    ASSUME Counted, Counted', Guessing, UNCHANGED <<user, tally>>,
           \A q \in Requests : \/ request'[q] = request[q]
                               \/ request'[q].stage # "wrong"
    PROVE  Guessing'
<1>1. ASSUME NEW a \in Accounts PROVE Checked(a)' \subseteq Checked(a) /\ tally'[a] <= tally[a]
  BY DEF Checked, Counted, LoginTypeOK
<1>2. \A a \in Accounts : tally'[a] + Cardinality(Checked(a)') < 2 * Limit + Cardinality(Requests)
  BY <1>1, NoNewGuess
<1> QED BY <1>2 DEF Guessing

\* Every step keeps the bound on guesses, those on their way included.
LEMMA NextGuesses ==
    ASSUME Counted, Counted', Guessing, [LoginNext]_loginVars
    PROVE  Guessing'
<1> USE LoginAssumption
<1> DEFINE Moved(r, s) == request' = [request EXCEPT ![r] = s]
<1>1. /\ user \in [Accounts -> UserSet] /\ tally \in [Accounts -> Nat]
      /\ request \in [Requests -> RequestSet]
  BY DEF Counted, LoginTypeOK
<1>2. ASSUME NEW r \in Requests,
             \/ Arrive(r) \/ FindNobody(r) \/ Refuse(r) \/ BreakOff(r) \/ CountAddress(r)
      PROVE  Guessing'
  <2>1. UNCHANGED <<user, tally>>
    BY <1>2 DEF Arrive, FindNobody, Refuse, BreakOff, CountAddress
  <2>2. PICK s : Moved(r, s) /\ s.stage \in {"arrived", "refused", "idle"}
    <3>1. CASE Arrive(r)
      BY <3>1 DEF Arrive
    <3>2. CASE FindNobody(r)
      <4>1. [request[r] EXCEPT !.stage = "refused"].stage = "refused"
        BY <1>1 DEF RequestSet
      <4> QED BY <3>2, <4>1 DEF FindNobody
    <3>3. CASE Refuse(r) \/ BreakOff(r) \/ CountAddress(r)
      <4>1. Idle(request[r]).stage = "idle"
        BY <1>1 DEF Idle, RequestSet
      <4> QED BY <3>3, <4>1 DEF Refuse, BreakOff, CountAddress
    <3> QED BY <1>2, <3>1, <3>2, <3>3
  <2>3. \A q \in Requests : request'[q] = request[q] \/ request'[q].stage # "wrong"
    BY <1>1, <2>2
  <2> QED BY <2>1, <2>3, RowsStay
<1>3. ASSUME NEW d \in Addresses, FailureAges(d) \/ BlockEnds(d) PROVE Guessing'
  BY <1>3, RowsStay DEF FailureAges, BlockEnds
<1>4. CASE UNCHANGED loginVars
  BY <1>4, RowsStay DEF loginVars
<1>5. ASSUME NEW r \in Requests, CheckPassword(r) PROVE Guessing'
  <2> DEFINE a == request[r].account
  <2>1. a \in Accounts /\ ~user[a].locked /\ user[a].row # "deleted" /\ UNCHANGED <<user, tally>>
    BY <1>5 DEF CheckPassword, LockedOut, Is
  <2>2. PICK s : Moved(r, s) /\ s.account = a
    <3>1. PICK result \in {"wrong", "right"} : Moved(r, [request[r] EXCEPT !.stage = result])
      BY <1>5 DEF CheckPassword
    <3>2. [request[r] EXCEPT !.stage = result].account = a
      BY <1>1 DEF RequestSet
    <3> QED BY <3>1, <3>2
  <2>3. ASSUME NEW b \in Accounts
        PROVE  tally'[b] + Cardinality(Checked(b)') < 2 * Limit + Cardinality(Requests)
    <3>1. CASE b = a
      <4>1. user[a].lockouts \in 0 .. 1 /\ user[a].failed < Limit /\ user[a].failed \in Nat
        BY <1>1, <2>1 DEF Guessing, Counted, UserSet
      <4>2. tally[a] = user[a].failed + Limit * user[a].lockouts
        BY <2>1 DEF Counted, FailuresAreCounted
      <4>3. tally[a] < 2 * Limit
        <5>1. CASE user[a].lockouts = 0
          BY <4>1, <4>2, <5>1
        <5>2. CASE user[a].lockouts = 1
          BY <4>1, <4>2, <5>2
        <5> QED BY <4>1, <5>1, <5>2
      <4>4. /\ Cardinality(Checked(b)') <= Cardinality(Requests)
            /\ Cardinality(Checked(b)') \in Nat /\ Cardinality(Requests) \in Nat
        BY RequestsAreFinite DEF Checked
      <4> QED BY <1>1, <2>1, <3>1, <4>3, <4>4
    <3>2. CASE b # a
      <4>1. Checked(b)' \subseteq Checked(b)
        BY <1>1, <2>2, <3>2 DEF Checked
      <4>2. tally'[b] <= tally[b]
        BY <1>1, <2>1
      <4> QED BY <4>1, <4>2, NoNewGuess
    <3> QED BY <3>1, <3>2
  <2> QED BY <2>1, <2>3 DEF Guessing
<1>6. ASSUME NEW r \in Requests, CountFailure(r) PROVE Guessing'
  <2> DEFINE a == request[r].account
  <2>1. PICK s : Moved(r, s) /\ s.stage # "wrong"
    <3>1. Idle(request[r]).stage = "idle" /\ [request[r] EXCEPT !.stage = "refused"].stage = "refused"
      BY <1>1 DEF Idle, RequestSet
    <3> QED BY <1>6, <3>1 DEF CountFailure
  <2>2. CASE Is(a, "deleted")
    <3>1. UNCHANGED <<user, tally>>
      BY <1>6, <2>2 DEF CountFailure
    <3>2. \A q \in Requests : request'[q] = request[q] \/ request'[q].stage # "wrong"
      BY <1>1, <2>1
    <3> QED BY <3>1, <3>2, RowsStay
  <2>3. CASE ~Is(a, "deleted")
    <3>1. user' = [user EXCEPT ![a] = AfterFailure(@)] /\ tally' = [tally EXCEPT ![a] = @ + 1]
      BY <1>6, <2>3 DEF CountFailure
    <3>2. ASSUME NEW b \in Accounts
          PROVE  tally'[b] + Cardinality(Checked(b)') < 2 * Limit + Cardinality(Requests)
      <4>1. CASE b = a
        <5>1. Checked(b)' = Checked(b) \ {r} /\ r \in Checked(b)
          BY <1>1, <1>6, <2>1, <4>1 DEF Checked, CountFailure
        <5>2. /\ IsFiniteSet(Checked(b)) /\ Cardinality(Checked(b)) \in Nat
              /\ Cardinality(Requests) \in Nat
          BY RequestsAreFinite DEF Checked
        <5>3. Cardinality(Checked(b)') = Cardinality(Checked(b)) - 1
          BY <5>1, <5>2, FS_RemoveElement
        <5>4. tally'[b] = tally[b] + 1
          BY <1>1, <3>1, <4>1
        <5>5. tally[b] + Cardinality(Checked(b)) < 2 * Limit + Cardinality(Requests)
          BY DEF Guessing
        <5> QED BY <1>1, <5>2, <5>3, <5>4, <5>5
      <4>2. CASE b # a
        <5>1. Checked(b)' \subseteq Checked(b) /\ tally'[b] <= tally[b]
          BY <1>1, <2>1, <3>1, <4>2 DEF Checked
        <5> QED BY <5>1, NoNewGuess
      <4> QED BY <4>1, <4>2
    <3>3. ASSUME NEW b \in Accounts PROVE user'[b].lockouts >= 2 => user'[b].locked
      <4>1. user[b] \in UserSet /\ user[b].failed < Limit
            /\ (user[b].lockouts >= 2 => user[b].locked)
        BY <1>1 DEF Counted, Guessing
      <4>2. user'[b] = user[b] \/ user'[b] = AfterFailure(user[b])
        BY <1>1, <3>1
      <4> QED BY <4>1, <4>2, FailureAddsOne
    <3> QED BY <3>2, <3>3 DEF Guessing
  <2> QED BY <2>2, <2>3
<1>7. ASSUME NEW r \in Requests, Succeed(r) PROVE Guessing'
  <2>1. \A b \in Accounts : user'[b] = user[b] \/ user'[b] = AfterSuccess(user[b])
    BY <1>1, <1>7 DEF Succeed
  <2>2. \A b \in Accounts : tally'[b] <= tally[b]
    BY <1>1, <1>7 DEF Succeed
  <2>3. Idle(request[r]).stage = "idle"
    BY <1>1 DEF Idle, RequestSet
  <2>4. \A b \in Accounts : Checked(b)' \subseteq Checked(b)
    BY <1>1, <1>7, <2>3 DEF Checked, Succeed
  <2>5. ASSUME NEW b \in Accounts PROVE user'[b].lockouts >= 2 => user'[b].locked
    <3>1. user[b] \in UserSet /\ (user[b].lockouts >= 2 => user[b].locked)
      BY <1>1 DEF Guessing
    <3>2. CASE user'[b] = user[b]
      BY <3>1, <3>2
    <3>3. CASE user'[b] = AfterSuccess(user[b])
      <4>1. AfterSuccess(user[b]).lockouts = 0
        BY <3>1, SuccessClears
      <4> QED BY <3>3, <4>1
    <3> QED BY <2>1, <3>2, <3>3
  <2>6. ASSUME NEW b \in Accounts
        PROVE  tally'[b] + Cardinality(Checked(b)') < 2 * Limit + Cardinality(Requests)
    BY <2>2, <2>4, NoNewGuess
  <2> QED BY <2>5, <2>6 DEF Guessing
<1>8. ASSUME NEW a \in Accounts, UnlockUser(a) PROVE Guessing'
  <2>1. \A b \in Accounts : tally'[b] <= tally[b] /\ Checked(b)' \subseteq Checked(b)
    BY <1>1, <1>8 DEF UnlockUser, Checked
  <2>2. user'[a].lockouts = 0
    BY <1>1, <1>8 DEF UnlockUser, AfterSuccess, UserSet
  <2>3. \A b \in Accounts : b # a => user'[b] = user[b]
    BY <1>1, <1>8 DEF UnlockUser
  <2> QED BY <2>1, <2>2, <2>3, NoNewGuess DEF Guessing
<1>9. ASSUME NEW a \in Accounts, SetRow(a) \/ LockEnds(a) PROVE Guessing'
  <2>1. \A b \in Accounts : tally'[b] <= tally[b] /\ Checked(b)' \subseteq Checked(b)
    BY <1>1, <1>9 DEF SetRow, LockEnds, Checked
  <2>2. PICK s \in {"active", "inactive", "deleted"} :
          user' = [user EXCEPT ![a].row = s] \/ user' = [user EXCEPT ![a].waiting = FALSE]
    BY <1>9 DEF SetRow, LockEnds
  <2>3. ASSUME NEW b \in Accounts
        PROVE  user'[b].lockouts = user[b].lockouts /\ user'[b].locked = user[b].locked
    BY <1>1, <2>2 DEF UserSet
  <2>4. \A b \in Accounts : user'[b].lockouts >= 2 => user'[b].locked
    BY <2>3 DEF Guessing
  <2> QED BY <2>1, <2>4, NoNewGuess DEF Guessing
<1> QED
  BY <1>2, <1>3, <1>4, <1>5, <1>6, <1>7, <1>8, <1>9 DEF LoginNext

\* An account answers fewer than two limits' worth of wrong passwords, plus one for
\* each request that can be in progress, before an administrator has to unlock it.
THEOREM GuessesStayBounded == LoginSpec => []GuessesAreBounded
<1>1. ASSUME Counted, Guessing PROVE GuessesAreBounded
  <2> SUFFICES ASSUME NEW a \in Accounts PROVE tally[a] < 2 * Limit + Cardinality(Requests)
    BY DEF GuessesAreBounded
  <2>1. Cardinality(Checked(a)) \in Nat /\ Cardinality(Requests) \in Nat
    BY RequestsAreFinite DEF Checked
  <2>2. tally[a] \in Nat /\ tally[a] + Cardinality(Checked(a)) < 2 * Limit + Cardinality(Requests)
    BY <1>1 DEF Counted, LoginTypeOK, Guessing
  <2> QED BY <2>1, <2>2, LoginAssumption
<1> QED BY <1>1, InitGuesses, NextGuesses, AlwaysCounted, PTL DEF LoginSpec

-----------------------------------------------------------------------------
\* The address.  A request that has passed the check of its address may still
\* count against it; once the address is blocked no further request joins.

Busy(d) == {r \in Requests : request[r].stage # "idle" /\ request[r].address = d}

Throttling ==
    \A d \in Addresses :
      blocked[d] => recent[d] + Cardinality(Busy(d)) < Cardinality(Requests)

\* The bound of an address stays if nothing is added to its failures and requests.
LEMMA NoNewRequest ==
    ASSUME Counted, Counted', Throttling, NEW d \in Addresses,
           Busy(d)' \subseteq Busy(d), recent'[d] <= recent[d], blocked'[d] => blocked[d]
    PROVE  blocked'[d] => recent'[d] + Cardinality(Busy(d)') < Cardinality(Requests)
<1>1. Cardinality(Busy(d)') <= Cardinality(Busy(d))
  BY SmallerSet DEF Busy
<1>2. Cardinality(Busy(d)') \in Nat /\ Cardinality(Busy(d)) \in Nat
      /\ Cardinality(Requests) \in Nat
  BY RequestsAreFinite DEF Busy
<1>3. recent[d] \in Nat /\ recent'[d] \in Nat
  BY LoginAssumption DEF Counted, LoginTypeOK
<1>4. blocked[d] => recent[d] + Cardinality(Busy(d)) < Cardinality(Requests)
  BY DEF Throttling
<1> QED BY <1>1, <1>2, <1>3, <1>4

\* Every step keeps the bound on the failures and requests of a blocked address.
LEMMA NextThrottles ==
    ASSUME Counted, Counted', Throttling, [LoginNext]_loginVars
    PROVE  Throttling'
<1> USE LoginAssumption
<1>1. /\ recent \in [Addresses -> 0 .. AddressLimit - 1]
      /\ blocked \in [Addresses -> BOOLEAN]
      /\ request \in [Requests -> RequestSet]
  BY DEF Counted, LoginTypeOK
<1>2. ASSUME NEW r \in Requests, Arrive(r) PROVE Throttling'
  <2>1. PICK e \in Addresses, a \in Accounts \union {Nobody}, which \in {"login", "change"} :
          /\ ~blocked[e]
          /\ request' = [request EXCEPT ![r] = [stage |-> "arrived", form |-> which,
                                                account |-> a, address |-> e]]
    BY <1>2 DEF Arrive
  <2>2. UNCHANGED <<recent, blocked>>
    BY <1>2 DEF Arrive
  <2>3. ASSUME NEW d \in Addresses
        PROVE  blocked'[d] => recent'[d] + Cardinality(Busy(d)') < Cardinality(Requests)
    <3>1. CASE d = e
      BY <2>1, <2>2, <3>1
    <3>2. CASE d # e
      <4>1. Busy(d)' \subseteq Busy(d)
        BY <1>1, <2>1, <3>2 DEF Busy
      <4>2. recent'[d] <= recent[d] /\ (blocked'[d] => blocked[d])
        BY <1>1, <2>2
      <4> QED BY <4>1, <4>2, NoNewRequest
    <3> QED BY <3>1, <3>2
  <2> QED BY <2>3 DEF Throttling
<1>3. ASSUME NEW r \in Requests,
             NEW s, request' = [request EXCEPT ![r] = s], s.address = request[r].address,
             s.stage # "idle" => request[r].stage # "idle",
             UNCHANGED <<recent, blocked>>
      PROVE  Throttling'
  <2>1. ASSUME NEW d \in Addresses
        PROVE  blocked'[d] => recent'[d] + Cardinality(Busy(d)') < Cardinality(Requests)
    <3>1. Busy(d)' \subseteq Busy(d)
      BY <1>1, <1>3 DEF Busy
    <3>2. recent'[d] <= recent[d] /\ (blocked'[d] => blocked[d])
      BY <1>1, <1>3
    <3> QED BY <3>1, <3>2, NoNewRequest
  <2> QED BY <2>1 DEF Throttling
<1>4. \A r \in Requests : /\ Idle(request[r]).address = request[r].address
                          /\ Idle(request[r]).stage = "idle"
  BY <1>1 DEF Idle, RequestSet
<1>5. \A r \in Requests : \A s \in {"wrong", "right", "refused"} :
        /\ [request[r] EXCEPT !.stage = s].address = request[r].address
        /\ [request[r] EXCEPT !.stage = s].stage = s
  BY <1>1 DEF RequestSet
<1>6. ASSUME NEW r \in Requests, FindNobody(r) PROVE Throttling'
  <2>1. /\ request' = [request EXCEPT ![r] = [request[r] EXCEPT !.stage = "refused"]]
        /\ request[r].stage # "idle" /\ UNCHANGED <<recent, blocked>>
    BY <1>6 DEF FindNobody
  <2> QED BY <1>3, <1>5, <2>1
<1>7. ASSUME NEW r \in Requests, Refuse(r) \/ BreakOff(r) \/ Succeed(r) PROVE Throttling'
  <2>1. /\ request' = [request EXCEPT ![r] = Idle(request[r])]
        /\ UNCHANGED <<recent, blocked>>
    BY <1>7 DEF Refuse, BreakOff, Succeed
  <2> QED BY <1>3, <1>4, <2>1
<1>8. ASSUME NEW r \in Requests, CheckPassword(r) PROVE Throttling'
  <2>1. PICK result \in {"wrong", "right"} :
          request' = [request EXCEPT ![r] = [request[r] EXCEPT !.stage = result]]
    BY <1>8 DEF CheckPassword
  <2>2. request[r].stage # "idle" /\ UNCHANGED <<recent, blocked>>
    BY <1>8 DEF CheckPassword
  <2> QED BY <1>3, <1>5, <2>1, <2>2
<1>9. ASSUME NEW r \in Requests, CountFailure(r) PROVE Throttling'
  <2>1. request[r].stage # "idle" /\ UNCHANGED <<recent, blocked>>
    BY <1>9 DEF CountFailure
  <2>2. CASE request' = [request EXCEPT ![r] = Idle(request[r])]
    BY <1>3, <1>4, <2>1, <2>2
  <2>3. CASE request' = [request EXCEPT ![r] = [request[r] EXCEPT !.stage = "refused"]]
    BY <1>3, <1>5, <2>1, <2>3
  <2> QED BY <1>9, <2>2, <2>3 DEF CountFailure
<1>10. ASSUME NEW r \in Requests, CountAddress(r) PROVE Throttling'
  <2> DEFINE e == request[r].address
  <2>1. /\ e \in Addresses /\ request[r].stage # "idle"
        /\ request' = [request EXCEPT ![r] = Idle(request[r])]
    BY <1>1, <1>10 DEF CountAddress, RequestSet
  <2>2. ASSUME NEW d \in Addresses
        PROVE  blocked'[d] => recent'[d] + Cardinality(Busy(d)') < Cardinality(Requests)
    <3>1. CASE d # e
      <4>1. recent'[d] = recent[d] /\ blocked'[d] = blocked[d]
        BY <1>1, <1>10, <3>1 DEF CountAddress
      <4>2. Busy(d)' \subseteq Busy(d)
        BY <1>1, <1>4, <2>1 DEF Busy
      <4>3. recent'[d] <= recent[d]
        BY <1>1, <4>1
      <4> QED BY <4>1, <4>2, <4>3, NoNewRequest
    <3>2. CASE d = e
      <4>1. Busy(d)' = Busy(d) \ {r} /\ r \in Busy(d)
        BY <1>1, <1>4, <2>1, <3>2 DEF Busy
      <4>2. IsFiniteSet(Busy(d)) /\ Cardinality(Busy(d)) \in Nat /\ Cardinality(Requests) \in Nat
            /\ Cardinality(Busy(d)) <= Cardinality(Requests)
        BY RequestsAreFinite DEF Busy
      <4>3. Cardinality(Busy(d)') = Cardinality(Busy(d)) - 1
        BY <4>1, <4>2, FS_RemoveElement
      <4>4. CASE recent[e] + 1 < AddressLimit
        <5>1. recent'[d] = recent[d] + 1 /\ blocked'[d] = blocked[d]
          BY <1>1, <1>10, <3>2, <4>4 DEF CountAddress
        <5>2. blocked[d] => recent[d] + Cardinality(Busy(d)) < Cardinality(Requests)
          BY DEF Throttling
        <5>3. recent[d] \in Nat
          BY <1>1
        <5> QED BY <4>2, <4>3, <5>1, <5>2, <5>3
      <4>5. CASE ~(recent[e] + 1 < AddressLimit)
        <5>1. recent'[d] = 0
          BY <1>1, <1>10, <3>2, <4>5 DEF CountAddress
        <5> QED BY <4>2, <4>3, <5>1
      <4> QED BY <4>4, <4>5
    <3> QED BY <3>1, <3>2
  <2> QED BY <2>2 DEF Throttling
<1>11. ASSUME UNCHANGED request,
              \A d \in Addresses : recent'[d] <= recent[d] /\ (blocked'[d] => blocked[d])
       PROVE  Throttling'
  <2>1. \A d \in Addresses : Busy(d)' \subseteq Busy(d)
    BY <1>11 DEF Busy
  <2>2. ASSUME NEW d \in Addresses
        PROVE  blocked'[d] => recent'[d] + Cardinality(Busy(d)') < Cardinality(Requests)
    BY <1>11, <2>1, NoNewRequest
  <2> QED BY <2>2 DEF Throttling
<1>12. ASSUME NEW d \in Addresses, FailureAges(d) \/ BlockEnds(d) PROVE Throttling'
  <2>1. \A e \in Addresses : recent'[e] <= recent[e]
    BY <1>1, <1>12 DEF FailureAges, BlockEnds
  <2>2. \A e \in Addresses : blocked'[e] => blocked[e]
    BY <1>1, <1>12 DEF FailureAges, BlockEnds
  <2> QED BY <1>11, <1>12, <2>1, <2>2 DEF FailureAges, BlockEnds
<1>13. ASSUME NEW a \in Accounts, UnlockUser(a) \/ SetRow(a) \/ LockEnds(a) PROVE Throttling'
  BY <1>1, <1>11, <1>13 DEF UnlockUser, SetRow, LockEnds
<1>14. CASE UNCHANGED loginVars
  BY <1>1, <1>11, <1>14 DEF loginVars
<1> QED
  BY <1>2, <1>6, <1>7, <1>8, <1>9, <1>10, <1>12, <1>13, <1>14 DEF LoginNext

\* While an address is blocked, fewer failures count against it than requests can be
\* in progress at once.
THEOREM BlockedAddressStops == LoginSpec => []BlockStopsAddress
<1>1. LoginInit => Throttling
  BY DEF LoginInit, Throttling
<1>2. ASSUME Counted, Throttling PROVE BlockStopsAddress
  <2>1. ASSUME NEW d \in Addresses, blocked[d] PROVE recent[d] < Cardinality(Requests)
    <3>1. Cardinality(Busy(d)) \in Nat /\ Cardinality(Requests) \in Nat
      BY RequestsAreFinite DEF Busy
    <3>2. recent[d] \in Nat /\ recent[d] + Cardinality(Busy(d)) < Cardinality(Requests)
      BY <1>2, <2>1, LoginAssumption DEF Counted, LoginTypeOK, Throttling
    <3> QED BY <3>1, <3>2
  <2> QED BY <2>1 DEF BlockStopsAddress
<1> QED BY <1>1, <1>2, NextThrottles, AlwaysCounted, PTL DEF LoginSpec

-----------------------------------------------------------------------------
(* Resonance *)

\* A request as ResonanceTypeOK wants it: only codes wait for the breaker or count
\* as failures, and no report is on its way to Resonance.
Fit(c) ==
    /\ c \in CallSet
    /\ c.stage \in {"unchecked", "cleared", "refused", "writing"} => c.bucket = <<Everybody, "code">>
    /\ c.stage \in {"calling", "answered"} => c.bucket = <<Everybody, "code">> \/ c.bucket[2] = "test"

\* The codes of all users have a bucket.
LEMMA AllCodesIsBucket == <<Everybody, "code">> \in Buckets
BY DEF Buckets

\* A request that is over fits its bucket.
LEMMA DoneFits == ASSUME NEW b \in Buckets PROVE Fit(Done(b))
<1>1. Done(b).stage = "idle" /\ Done(b) \in CallSet
  BY DEF Done, CallSet
<1> QED BY <1>1 DEF Fit

\* What a bucket lets through goes on as a request of the right kind, and is no
\* longer counted there; only a code gets to the breaker.
LEMMA NextCheckFits ==
    ASSUME NEW b \in Buckets
    PROVE  /\ Fit(NextCheck(b))
           /\ NextCheck(b).stage \in {"idle", "due", "calling", "unchecked"}
<1> USE ResonanceAssumption
<1> DEFINE all == <<Everybody, "code">>
<1>1. \A s \in {"due", "calling", "unchecked"}, d \in Buckets :
        /\ [Done(d) EXCEPT !.stage = s] \in CallSet
        /\ [Done(d) EXCEPT !.stage = s].stage = s
        /\ [Done(d) EXCEPT !.stage = s].bucket = d
  BY DEF Done, CallSet
<1>2. Fit(Done(all)) /\ Done(all).stage = "idle" /\ all \in Buckets
  BY DoneFits, AllCodesIsBucket DEF Done
<1>3. b[2] \in {"code", "test", "report"} /\ (b[2] # "code" => b[1] # Everybody)
  BY DEF Buckets
<1>4. CASE b[2] = "report"
  <2>1. NextCheck(b) = Done(all)
    BY <1>3, <1>4 DEF NextCheck
  <2> QED BY <2>1, <1>2
<1>5. CASE b[2] = "test"
  <2>1. NextCheck(b) = [Done(b) EXCEPT !.stage = "calling"]
    BY <1>3, <1>5 DEF NextCheck
  <2> QED BY <2>1, <1>1, <1>5 DEF Fit
<1>6. CASE b[2] = "code" /\ b[1] = Everybody
  <2>1. NextCheck(b) = [Done(b) EXCEPT !.stage = "unchecked"]
    BY <1>6 DEF NextCheck
  <2>2. b = all
    BY <1>6 DEF Buckets
  <2> QED BY <2>1, <2>2, <1>1 DEF Fit
<1>7. CASE b[2] = "code" /\ b[1] # Everybody
  <2>1. NextCheck(b) = [Done(all) EXCEPT !.stage = "due"]
    BY <1>7 DEF NextCheck
  <2> QED BY <2>1, <1>1, <1>2 DEF Fit
<1> QED BY <1>3, <1>4, <1>5, <1>6, <1>7

\* A request moves to a stage that its bucket allows.
LEMMA StageFits ==
    ASSUME NEW c, Fit(c),
           NEW s \in {"idle", "due", "counted", "unchecked", "cleared", "calling",
                      "answered", "refused", "writing"},
           s \in {"unchecked", "cleared", "refused", "writing"} => c.bucket = <<Everybody, "code">>,
           s \in {"calling", "answered"} => c.bucket = <<Everybody, "code">> \/ c.bucket[2] = "test"
    PROVE  Fit([c EXCEPT !.stage = s])
<1>1. /\ [c EXCEPT !.stage = s] \in CallSet
      /\ [c EXCEPT !.stage = s].stage = s
      /\ [c EXCEPT !.stage = s].bucket = c.bucket
  BY DEF Fit, CallSet
<1> QED BY <1>1 DEF Fit

\* What the type invariant says of requests.
LEMMA TypesOfCalls ==
    ASSUME ResonanceTypeOK
    PROVE  call \in [Calls -> CallSet] /\ \A r \in Calls : Fit(call[r])
BY DEF ResonanceTypeOK, Fit

\* A step of one request keeps the types of all.
LEMMA OneCallMoves ==
    ASSUME ResonanceTypeOK, NEW r \in Calls, NEW c, Fit(c), call' = [call EXCEPT ![r] = c],
           rate' \in [Buckets -> Nat],
           passed' \in Nat /\ unheeded' \in Nat /\ knocks' \in Nat,
           breaker' \in [failures : 0 .. MaxFailures, open : BOOLEAN]
    PROVE  ResonanceTypeOK'
<1>1. call' \in [Calls -> CallSet]
  BY DEF ResonanceTypeOK, Fit
<1>2. \A q \in Calls : Fit(call'[q])
  BY TypesOfCalls
<1> QED BY <1>1, <1>2 DEF ResonanceTypeOK, Fit

-----------------------------------------------------------------------------
\* The types hold before the first request.
LEMMA InitTypes == ResonanceInit => ResonanceTypeOK
<1> SUFFICES ASSUME ResonanceInit PROVE ResonanceTypeOK
  OBVIOUS
<1>1. Fit(Done(<<Everybody, "code">>))
  BY DoneFits, AllCodesIsBucket
<1>2. breaker \in [failures : 0 .. MaxFailures, open : BOOLEAN]
  BY ResonanceAssumption DEF ResonanceInit
<1> QED BY <1>1, <1>2 DEF ResonanceInit, ResonanceTypeOK, Fit

\* Every step keeps the types.
LEMMA NextTypes ==
    ASSUME ResonanceTypeOK, [ResonanceNext]_resonanceVars
    PROVE  ResonanceTypeOK'
<1> USE ResonanceAssumption
<1> DEFINE all == <<Everybody, "code">>
<1>1. /\ call \in [Calls -> CallSet] /\ \A r \in Calls : Fit(call[r])
      /\ rate \in [Buckets -> Nat] /\ passed \in Nat /\ unheeded \in Nat /\ knocks \in Nat
      /\ breaker \in [failures : 0 .. MaxFailures, open : BOOLEAN]
  BY TypesOfCalls DEF ResonanceTypeOK
<1>2. Fit(Done(all))
  BY DoneFits, AllCodesIsBucket
<1>3. \A r \in Calls : call[r].bucket \in Buckets
  BY <1>1 DEF CallSet
<1>4. ASSUME NEW r \in Calls, Knock(r) PROVE ResonanceTypeOK'
  <2>1. PICK u \in Users, kind \in {"code", "test", "report"} :
          call' = [call EXCEPT ![r] = [Done(<<u, kind>>) EXCEPT !.stage = "due"]]
    BY <1>4 DEF Knock
  <2>2. <<u, kind>> \in Buckets
    BY DEF Buckets
  <2>3. Fit([Done(<<u, kind>>) EXCEPT !.stage = "due"])
    BY <2>2, DoneFits, StageFits
  <2>4. UNCHANGED <<rate, breaker, passed, unheeded, knocks>>
    BY <1>4 DEF Knock
  <2> QED BY <1>1, <2>1, <2>3, <2>4, OneCallMoves
<1>5. ASSUME NEW r \in Calls, CountKnock(r) PROVE ResonanceTypeOK'
  <2>1. Fit([call[r] EXCEPT !.stage = "counted"])
    BY <1>1, StageFits
  <2>2. call' = [call EXCEPT ![r] = [call[r] EXCEPT !.stage = "counted"]]
    BY <1>1, <1>5 DEF CountKnock, MovesTo
  <2>3. rate' \in [Buckets -> Nat] /\ passed' \in Nat
    BY <1>1, <1>3, <1>5 DEF CountKnock
  <2>4. UNCHANGED <<breaker, unheeded, knocks>>
    BY <1>5 DEF CountKnock
  <2> QED BY <1>1, <2>1, <2>2, <2>3, <2>4, OneCallMoves
<1>6. ASSUME NEW r \in Calls, LetThrough(r) PROVE ResonanceTypeOK'
  <2>1. Fit(NextCheck(call[r].bucket))
    BY <1>3, NextCheckFits
  <2>2. call' = [call EXCEPT ![r] = NextCheck(call[r].bucket)] /\ passed' \in Nat
        /\ UNCHANGED <<rate, breaker, unheeded, knocks>>
    BY <1>1, <1>6 DEF LetThrough
  <2> QED BY <1>1, <2>1, <2>2, OneCallMoves
<1>7. ASSUME NEW r \in Calls, TooMany(r) \/ FindOpen(r) \/ GivenUp(r) PROVE ResonanceTypeOK'
  <2>1. call' = [call EXCEPT ![r] = Done(all)] /\ UNCHANGED <<rate, breaker, passed, unheeded, knocks>>
    BY <1>7 DEF TooMany, FindOpen, GivenUp, Over
  <2> QED BY <1>1, <1>2, <2>1, OneCallMoves
<1>8. ASSUME NEW r \in Calls, FindClosed(r) PROVE ResonanceTypeOK'
  <2>1. call[r].bucket = all
    BY <1>1, <1>8 DEF FindClosed, In, Fit
  <2>2. Fit([call[r] EXCEPT !.stage = "cleared"])
    BY <1>1, <2>1, StageFits
  <2>3. call' = [call EXCEPT ![r] = [call[r] EXCEPT !.stage = "cleared"]]
        /\ UNCHANGED <<rate, breaker, passed, unheeded, knocks>>
    BY <1>1, <1>8 DEF FindClosed, MovesTo
  <2> QED BY <1>1, <2>2, <2>3, OneCallMoves
<1>9. ASSUME NEW r \in Calls, CreateSession(r) PROVE ResonanceTypeOK'
  <2>1. call[r].bucket = all
    BY <1>1, <1>9 DEF CreateSession, In, Fit
  <2>2. Fit([call[r] EXCEPT !.stage = "calling"])
    BY <1>1, <2>1, StageFits
  <2>3. call' = [call EXCEPT ![r] = [call[r] EXCEPT !.stage = "calling"]] /\ knocks' \in Nat
        /\ UNCHANGED <<rate, breaker, passed, unheeded>>
    BY <1>1, <1>9 DEF CreateSession, MovesTo
  <2> QED BY <1>1, <2>2, <2>3, OneCallMoves
<1>10. ASSUME NEW r \in Calls, Accepted(r) PROVE ResonanceTypeOK'
  <2>1. call[r].bucket = all \/ call[r].bucket[2] = "test"
    BY <1>1, <1>10 DEF Accepted, In, Fit
  <2>2. Fit([call[r] EXCEPT !.stage = "answered"])
    BY <1>1, <2>1, StageFits
  <2>3. call' = [call EXCEPT ![r] = [call[r] EXCEPT !.stage = "answered"]]
        /\ UNCHANGED <<rate, breaker, passed, unheeded, knocks>>
    BY <1>1, <1>10 DEF Accepted, MovesTo
  <2> QED BY <1>1, <2>2, <2>3, OneCallMoves
<1>11. ASSUME NEW r \in Calls, Rejected(r) PROVE ResonanceTypeOK'
  <2>1. UNCHANGED <<rate, breaker, passed, unheeded, knocks>>
    BY <1>11 DEF Rejected
  <2>2. CASE call[r].bucket[2] = "test"
    <3>1. call' = [call EXCEPT ![r] = Done(all)]
      BY <1>11, <2>2 DEF Rejected, Over
    <3> QED BY <1>1, <1>2, <2>1, <3>1, OneCallMoves
  <2>3. CASE call[r].bucket[2] # "test"
    <3>1. PICK config \in BOOLEAN :
            call' = [call EXCEPT ![r] = [call[r] EXCEPT !.stage = "refused", !.config = config]]
      BY <1>1, <1>11, <2>3 DEF Rejected
    <3> DEFINE c == [call[r] EXCEPT !.stage = "refused", !.config = config]
    <3>2. call[r].bucket = all
      BY <1>1, <1>11, <2>3 DEF Rejected, In, Fit
    <3>3. call[r] \in CallSet
      BY <1>1
    <3>4. c \in CallSet /\ c.stage = "refused" /\ c.bucket = call[r].bucket
      BY <3>3 DEF CallSet
    <3>5. Fit(c)
      BY <3>2, <3>4 DEF Fit
    <3> QED BY <1>1, <2>1, <3>1, <3>5, OneCallMoves
  <2> QED BY <2>2, <2>3
<1>12. ASSUME NEW r \in Calls, RecordSuccess(r) PROVE ResonanceTypeOK'
  <2>1. /\ call' = [call EXCEPT ![r] = Done(all)]
        /\ breaker' = [failures |-> 0, open |-> FALSE]
        /\ unheeded' = 0 /\ knocks' = 0 /\ UNCHANGED <<rate, passed>>
    BY <1>12 DEF RecordSuccess, Over
  <2>2. breaker' \in [failures : 0 .. MaxFailures, open : BOOLEAN]
    BY <2>1
  <2> QED BY <1>1, <1>2, <2>1, <2>2, OneCallMoves
<1>13. ASSUME NEW r \in Calls, ReadFailures(r) PROVE ResonanceTypeOK'
  <2> DEFINE c == [call[r] EXCEPT !.stage = "writing", !.read = breaker.failures]
  <2>1. call[r] \in CallSet /\ breaker.failures \in Nat
    BY <1>1
  <2>2. call[r].bucket = all
    BY <1>1, <1>13 DEF ReadFailures, In, Fit
  <2>3. c \in CallSet /\ c.stage = "writing" /\ c.bucket = call[r].bucket
    BY <2>1 DEF CallSet
  <2>4. Fit(c)
    BY <2>2, <2>3 DEF Fit
  <2>5. call' = [call EXCEPT ![r] = c]
    BY <1>1, <1>13 DEF ReadFailures
  <2>6. UNCHANGED <<rate, breaker, passed, unheeded, knocks>>
    BY <1>13 DEF ReadFailures
  <2> QED BY <1>1, <2>4, <2>5, <2>6, OneCallMoves
<1>14. ASSUME NEW r \in Calls, WriteFailure(r) PROVE ResonanceTypeOK'
  <2> DEFINE failures == call[r].read + 1
             opens == failures >= Threshold(call[r].config)
             open == breaker.open \/ opens
  <2>1. call[r].read \in Nat /\ open \in BOOLEAN /\ unheeded \in Nat
    BY <1>1 DEF CallSet
  <2>2. /\ failures <= MaxFailures
        /\ breaker' = [failures |-> failures, open |-> open]
        /\ unheeded' = IF call[r].config /\ ~opens THEN unheeded + 1 ELSE unheeded
        /\ call' = [call EXCEPT ![r] = Done(all)] /\ UNCHANGED <<rate, passed, knocks>>
    BY <1>14 DEF WriteFailure, Over
  <2> HIDE DEF opens, open
  <2>3. breaker' \in [failures : 0 .. MaxFailures, open : BOOLEAN]
    BY <2>1, <2>2
  <2>4. unheeded' \in Nat
    BY <2>1, <2>2
  <2> QED BY <1>1, <1>2, <2>2, <2>3, <2>4, OneCallMoves
<1>15. CASE PauseEnds
  <2>1. breaker' = [breaker EXCEPT !.open = FALSE] /\ knocks' = 0
        /\ UNCHANGED <<call, rate, passed, unheeded>>
    BY <1>15 DEF PauseEnds
  <2>2. breaker' \in [failures : 0 .. MaxFailures, open : BOOLEAN]
    BY <1>1, <2>1
  <2>3. passed' \in Nat /\ unheeded' \in Nat /\ knocks' \in Nat
    BY <1>1, <2>1
  <2> QED BY <2>1, <2>2, <2>3 DEF ResonanceTypeOK
<1>16. CASE UNCHANGED resonanceVars
  BY <1>16 DEF resonanceVars, ResonanceTypeOK
<1> QED
  BY <1>4, <1>5, <1>6, <1>7, <1>8, <1>9, <1>10, <1>11, <1>12, <1>13, <1>14, <1>15, <1>16
  DEF ResonanceNext

\* Requests, limits and the row of the breaker keep their types; only codes ask
\* the breaker, and only codes and tests get to Resonance.
THEOREM ResonanceTypesHold == ResonanceSpec => []ResonanceTypeOK
BY InitTypes, NextTypes, PTL DEF ResonanceSpec

-----------------------------------------------------------------------------
\* Where each step of a request leaves it; it moves no other.

StepOf(r) ==
    \/ Knock(r) \/ CountKnock(r) \/ LetThrough(r) \/ TooMany(r)
    \/ FindClosed(r) \/ FindOpen(r) \/ CreateSession(r) \/ Accepted(r) \/ Rejected(r)
    \/ RecordSuccess(r) \/ ReadFailures(r) \/ WriteFailure(r) \/ GivenUp(r)

\* A step of one request leaves the others where they are.
LEMMA OthersStay ==
    ASSUME ResonanceTypeOK, NEW r \in Calls, StepOf(r), NEW q \in Calls, q # r
    PROVE  call'[q] = call[q]
<1>1. call \in [Calls -> CallSet]
  BY DEF ResonanceTypeOK
<1> QED
  BY <1>1 DEF StepOf, Knock, CountKnock, LetThrough, TooMany, FindClosed, FindOpen, CreateSession,
              Accepted, Rejected, RecordSuccess, ReadFailures, WriteFailure, GivenUp, MovesTo, Over

\* Where each step takes its request.
LEMMA WhereItLands ==
    ASSUME ResonanceTypeOK, NEW r \in Calls
    PROVE  /\ Knock(r) => call'[r].stage = "due"
           /\ CountKnock(r) => call'[r].stage = "counted" /\ call'[r].bucket = call[r].bucket
           /\ LetThrough(r) => call'[r].stage \in {"idle", "due", "calling", "unchecked"}
           /\ FindClosed(r) => call'[r].stage = "cleared"
           /\ CreateSession(r) => call'[r].stage = "calling"
           /\ Accepted(r) => call'[r].stage = "answered"
           /\ Rejected(r) => call'[r].stage \in {"idle", "refused"}
           /\ ReadFailures(r) => call'[r].stage = "writing" /\ call'[r].read = breaker.failures
           /\ TooMany(r) \/ FindOpen(r) \/ GivenUp(r) \/ RecordSuccess(r) \/ WriteFailure(r)
                => call'[r].stage = "idle"
<1>1. call \in [Calls -> CallSet] /\ call[r] \in CallSet /\ call[r].bucket \in Buckets
  BY DEF ResonanceTypeOK, CallSet
<1>2. \A b : Done(b).stage = "idle" /\ [Done(b) EXCEPT !.stage = "due"].stage = "due"
  BY DEF Done
<1>3. \A s \in {"counted", "cleared", "calling", "answered"} :
        /\ [call[r] EXCEPT !.stage = s].stage = s
        /\ [call[r] EXCEPT !.stage = s].bucket = call[r].bucket
  BY <1>1 DEF CallSet
<1>4. ASSUME NEW s \in {"counted", "cleared", "calling", "answered"}, MovesTo(r, s)
      PROVE  call'[r].stage = s /\ call'[r].bucket = call[r].bucket
  <2>1. call'[r] = [call[r] EXCEPT !.stage = s]
    BY <1>1, <1>4 DEF MovesTo
  <2> QED BY <2>1, <1>3
<1>5. Knock(r) => call'[r].stage = "due"
  BY <1>1, <1>2 DEF Knock
<1>6. CountKnock(r) => call'[r].stage = "counted" /\ call'[r].bucket = call[r].bucket
  BY <1>4 DEF CountKnock
<1>7. LetThrough(r) => call'[r].stage \in {"idle", "due", "calling", "unchecked"}
  BY <1>1, NextCheckFits DEF LetThrough
<1>8. /\ FindClosed(r) => call'[r].stage = "cleared"
      /\ CreateSession(r) => call'[r].stage = "calling"
      /\ Accepted(r) => call'[r].stage = "answered"
  BY <1>4 DEF FindClosed, CreateSession, Accepted
<1>9. ASSUME call' = Over(r) PROVE call'[r].stage = "idle"
  BY <1>1, <1>2, <1>9 DEF Over
<1>10. Rejected(r) => call'[r].stage \in {"idle", "refused"}
  <2> SUFFICES ASSUME Rejected(r), call' # Over(r) PROVE call'[r].stage = "refused"
    BY <1>9
  <2>1. PICK config \in BOOLEAN :
          call' = [call EXCEPT ![r] = [@ EXCEPT !.stage = "refused", !.config = config]]
    BY DEF Rejected
  <2>2. call'[r] = [call[r] EXCEPT !.stage = "refused", !.config = config]
    BY <1>1, <2>1
  <2> QED BY <1>1, <2>2 DEF CallSet
<1>11. ASSUME ReadFailures(r)
       PROVE  call'[r].stage = "writing" /\ call'[r].read = breaker.failures
  <2>1. call'[r] = [call[r] EXCEPT !.stage = "writing", !.read = breaker.failures]
    BY <1>1, <1>11 DEF ReadFailures
  <2> QED BY <1>1, <2>1 DEF CallSet
<1>12. TooMany(r) \/ FindOpen(r) \/ GivenUp(r) \/ RecordSuccess(r) \/ WriteFailure(r)
         => call'[r].stage = "idle"
  BY <1>9 DEF TooMany, FindOpen, GivenUp, RecordSuccess, WriteFailure
<1> QED BY <1>5, <1>6, <1>7, <1>8, <1>10, <1>11, <1>12

-----------------------------------------------------------------------------
\* Counting requests

\* Sets of requests are finite and no larger than the set of all.
LEMMA CallsAreFinite ==
    ASSUME NEW S \in SUBSET Calls
    PROVE  /\ IsFiniteSet(S) /\ Cardinality(S) \in Nat /\ Cardinality(Calls) \in Nat
           /\ Cardinality(S) <= Cardinality(Calls)
BY ResonanceAssumption, FS_Subset, FS_CardinalityType

\* A set of requests is as large as its subsets at least.
LEMMA FewerCalls ==
    ASSUME NEW T \in SUBSET Calls, NEW S \in SUBSET T
    PROVE  Cardinality(S) <= Cardinality(T)
BY CallsAreFinite, FS_Subset

\* Removing a request counts one less.
LEMMA OneCallLess ==
    ASSUME NEW S \in SUBSET Calls, NEW r \in S
    PROVE  Cardinality(S \ {r}) = Cardinality(S) - 1
BY CallsAreFinite, FS_RemoveElement

\* Adding a request counts one more.
LEMMA OneCallMore ==
    ASSUME NEW S \in SUBSET Calls, NEW r \in Calls, r \notin S
    PROVE  Cardinality(S \union {r}) = Cardinality(S) + 1
BY CallsAreFinite, FS_AddElement

\* A set that leaves out a request is smaller than the set of all.
LEMMA WithoutOneCall ==
    ASSUME NEW r \in Calls, NEW S \in SUBSET (Calls \ {r})
    PROVE  Cardinality(S) < Cardinality(Calls)
<1>1. Cardinality(S) <= Cardinality(Calls \ {r})
  BY FewerCalls
<1>2. Cardinality(Calls \ {r}) = Cardinality(Calls) - 1
  BY OneCallLess
<1> QED BY <1>1, <1>2, CallsAreFinite

-----------------------------------------------------------------------------
\* The rate.  As long as the count has not passed the limit, the requests let
\* through and those about to be are as many as the count says, but for those
\* that were counted in an earlier window; after that nobody is let through.

Waiting == {r \in Calls : call[r].stage = "counted" /\ call[r].bucket = Watched}

RateInv ==
    /\ rate[Watched] <= LimitOf(Watched) =>
         passed + Cardinality(Waiting) < rate[Watched] + Cardinality(Calls)
    /\ RateIsBounded

\* The watched bucket lets something through.
LEMMA LimitIsPositive == LimitOf(Watched) \in Nat \ {0}
BY ResonanceAssumption DEF LimitOf

\* The bound on the rate holds before the first request.
LEMMA InitRate == ResonanceInit => RateInv
<1> SUFFICES ASSUME ResonanceInit PROVE RateInv
  OBVIOUS
<1>1. Waiting = {} /\ passed = 0 /\ rate[Watched] = 0
  BY ResonanceAssumption DEF ResonanceInit, Waiting, Done
<1>2. Cardinality({}) = 0
  BY FS_EmptySet
<1>3. Cardinality(Calls) \in Nat /\ Cardinality(Calls) > 0
  BY ResonanceAssumption, FS_EmptySet, FS_CardinalityType
<1> QED BY <1>1, <1>2, <1>3, LimitIsPositive DEF RateInv, RateIsBounded

\* A step that counts nothing and lets nobody through.
LEMMA RateUnmoved ==
    ASSUME ResonanceTypeOK, RateInv, UNCHANGED <<rate, passed>>, Waiting' \subseteq Waiting
    PROVE  RateInv'
<1>1. Cardinality(Waiting') <= Cardinality(Waiting)
  BY FewerCalls DEF Waiting
<1>2. Cardinality(Waiting') \in Nat /\ Cardinality(Waiting) \in Nat /\ Cardinality(Calls) \in Nat
  BY CallsAreFinite DEF Waiting
<1>3. rate[Watched] \in Nat /\ passed \in Nat
  BY ResonanceAssumption DEF ResonanceTypeOK
<1> QED BY <1>1, <1>2, <1>3, LimitIsPositive DEF RateInv, RateIsBounded

\* Every step keeps the bound on the requests let through and on their way.
LEMMA NextRate ==
    ASSUME ResonanceTypeOK, RateInv, [ResonanceNext]_resonanceVars
    PROVE  RateInv'
<1> DEFINE N == Cardinality(Calls)
           W == Cardinality(Waiting)
           L == LimitOf(Watched)
<1>1. /\ call \in [Calls -> CallSet] /\ rate \in [Buckets -> Nat] /\ passed \in Nat
      /\ Watched \in Buckets /\ rate[Watched] \in Nat
  BY ResonanceAssumption DEF ResonanceTypeOK
<1>2. Waiting \in SUBSET Calls /\ W \in Nat /\ N \in Nat /\ L \in Nat \ {0}
  BY CallsAreFinite, LimitIsPositive DEF Waiting
<1>3. /\ rate[Watched] <= L => passed + W < rate[Watched] + N
      /\ passed < L + N
  BY DEF RateInv, RateIsBounded
<1>4. ASSUME NEW r \in Calls, CountKnock(r) PROVE RateInv'
  <2> DEFINE b == call[r].bucket
             W1 == Cardinality(Waiting')
  <2>1. r \notin Waiting /\ call'[r].stage = "counted" /\ call'[r].bucket = b /\ b \in Buckets
    BY <1>1, <1>4, WhereItLands DEF Waiting, CountKnock, In, CallSet
  <2>2. \A q \in Calls \ {r} : call'[q] = call[q]
    BY <1>4, OthersStay DEF StepOf
  <2>3. CASE b # Watched
    <3>1. Waiting' \subseteq Waiting
      BY <2>1, <2>2, <2>3 DEF Waiting
    <3>2. rate'[Watched] = rate[Watched] /\ passed' = passed
      BY <1>1, <1>4, <2>1, <2>3 DEF CountKnock
    <3>3. Cardinality(Waiting') <= W /\ Cardinality(Waiting') \in Nat
      BY <3>1, FewerCalls, CallsAreFinite DEF Waiting
    <3> QED BY <3>2, <3>3, <1>1, <1>2, <1>3 DEF RateInv, RateIsBounded
  <2>4. CASE b = Watched
    <3>1. Waiting' = Waiting \union {r}
      BY <2>1, <2>2, <2>4 DEF Waiting
    <3>2. W1 = W + 1
      BY <1>2, <2>1, <3>1, OneCallMore
    <3>3. W1 <= N
      BY <1>2, <3>1, CallsAreFinite
    <3>4. \/ rate'[Watched] = rate[Watched] + 1 /\ passed' = passed
          \/ rate'[Watched] = 1 /\ passed' = 0
      BY <1>1, <1>4, <2>4 DEF CountKnock
    <3>5. CASE rate'[Watched] = rate[Watched] + 1 /\ passed' = passed
      BY <3>5, <3>2, <1>1, <1>2, <1>3 DEF RateInv, RateIsBounded
    <3>6. CASE rate'[Watched] = 1 /\ passed' = 0
      BY <3>6, <3>2, <3>3, <1>2 DEF RateInv, RateIsBounded
    <3> QED BY <3>4, <3>5, <3>6
  <2> QED BY <2>3, <2>4
<1>5. ASSUME NEW r \in Calls, LetThrough(r) PROVE RateInv'
  <2> DEFINE b == call[r].bucket
  <2>1. call'[r].stage # "counted" /\ b \in Buckets /\ rate' = rate
    BY <1>1, <1>5, WhereItLands DEF LetThrough, CallSet
  <2>2. \A q \in Calls \ {r} : call'[q] = call[q]
    BY <1>5, OthersStay DEF StepOf
  <2>3. CASE b # Watched
    <3>1. Waiting' \subseteq Waiting
      BY <2>1, <2>2, <2>3 DEF Waiting
    <3>2. UNCHANGED <<rate, passed>>
      BY <1>5, <2>1, <2>3 DEF LetThrough
    <3> QED BY <3>1, <3>2, RateUnmoved
  <2>4. CASE b = Watched
    <3>1. r \in Waiting /\ rate[Watched] <= L /\ passed' = passed + 1
      BY <1>1, <1>2, <1>5, <2>4 DEF LetThrough, OverLimit, In, Waiting
    <3>2. Waiting' = Waiting \ {r}
      BY <2>1, <2>2, <2>4 DEF Waiting
    <3>3. Cardinality(Waiting') = W - 1
      BY <1>2, <3>1, <3>2, OneCallLess
    <3>4. passed' + Cardinality(Waiting') < rate[Watched] + N
      BY <3>1, <3>3, <1>1, <1>2, <1>3
    <3>5. Cardinality(Waiting') \in Nat
      BY <3>2, <1>2, CallsAreFinite
    <3>6. passed' < L + N
      BY <3>1, <3>4, <3>5, <1>1, <1>2
    <3> QED BY <3>4, <3>6, <2>1 DEF RateInv, RateIsBounded
  <2> QED BY <2>3, <2>4
<1>6. ASSUME NEW r \in Calls, StepOf(r), ~CountKnock(r), ~LetThrough(r) PROVE RateInv'
  <2>1. call'[r].stage # "counted"
    BY <1>6, WhereItLands DEF StepOf
  <2>2. \A q \in Calls \ {r} : call'[q] = call[q]
    BY <1>6, OthersStay
  <2>3. Waiting' \subseteq Waiting
    BY <2>1, <2>2 DEF Waiting
  <2>4. UNCHANGED <<rate, passed>>
    BY <1>6 DEF StepOf, Knock, TooMany, FindClosed, FindOpen, CreateSession, Accepted, Rejected,
                RecordSuccess, ReadFailures, WriteFailure, GivenUp
  <2> QED BY <2>3, <2>4, RateUnmoved
<1>7. CASE PauseEnds \/ UNCHANGED resonanceVars
  <2>1. UNCHANGED <<call, rate, passed>>
    BY <1>7 DEF PauseEnds, resonanceVars
  <2>2. Waiting' = Waiting
    BY <2>1 DEF Waiting
  <2> QED BY <2>1, <2>2, RateUnmoved
<1> QED BY <1>4, <1>5, <1>6, <1>7 DEF ResonanceNext, StepOf

\* A window of the watched bucket, which may be any, lets through less than its
\* limit and the number of overlapping requests together.
THEOREM RateStaysBounded == ResonanceSpec => []RateIsBounded
<1>1. RateInv => RateIsBounded
  BY DEF RateInv
<1> QED BY <1>1, InitRate, NextRate, ResonanceTypesHold, PTL DEF ResonanceSpec

-----------------------------------------------------------------------------
\* The threshold.  A failure that retrying cannot fix leaves the breaker closed
\* only if its request read a count of zero, and once a failure is written only
\* a success brings the zero back: those that can still do it have read already.

ReadZero == {r \in Calls : call[r].stage = "writing" /\ call[r].read = 0}

HeedInv ==
    /\ breaker.failures = 0 => unheeded = 0
    /\ unheeded + Cardinality(ReadZero) <= Cardinality(Calls)

\* The bound on unheeded failures holds before the first request.
LEMMA InitHeed == ResonanceInit => HeedInv
<1> SUFFICES ASSUME ResonanceInit PROVE HeedInv
  OBVIOUS
<1>1. ReadZero = {} /\ unheeded = 0
  BY DEF ResonanceInit, ReadZero, Done
<1> QED BY <1>1, FS_EmptySet, CallsAreFinite DEF HeedInv

\* Every step keeps the bound on failures that opened nothing.
LEMMA NextHeed ==
    ASSUME ResonanceTypeOK, HeedInv, [ResonanceNext]_resonanceVars
    PROVE  HeedInv'
<1> DEFINE N == Cardinality(Calls)
           Z == Cardinality(ReadZero)
           Z1 == Cardinality(ReadZero')
<1>1. /\ call \in [Calls -> CallSet] /\ unheeded \in Nat
      /\ breaker \in [failures : 0 .. MaxFailures, open : BOOLEAN] /\ breaker.failures \in Nat
  BY ResonanceAssumption DEF ResonanceTypeOK
<1>2. Z \in Nat /\ N \in Nat /\ Z1 \in Nat /\ Z1 <= N
  BY CallsAreFinite DEF ReadZero
<1>3. (breaker.failures = 0 => unheeded = 0) /\ unheeded + Z <= N
  BY DEF HeedInv
<1>4. ASSUME ReadZero' \subseteq ReadZero PROVE Z1 <= Z
  BY <1>4, FewerCalls DEF ReadZero
<1>5. ASSUME NEW r \in Calls, ReadFailures(r) PROVE HeedInv'
  <2>1. call'[r].read = breaker.failures /\ UNCHANGED <<breaker, unheeded>>
    BY <1>5, WhereItLands DEF ReadFailures
  <2>2. \A q \in Calls \ {r} : call'[q] = call[q]
    BY <1>5, OthersStay DEF StepOf
  <2>3. CASE breaker.failures = 0
    BY <2>1, <2>3, <1>2, <1>3 DEF HeedInv
  <2>4. CASE breaker.failures # 0
    <3>1. ReadZero' \subseteq ReadZero
      BY <2>1, <2>2, <2>4 DEF ReadZero
    <3>2. Z1 <= Z
      BY <1>4, <3>1
    <3> QED BY <2>1, <3>2, <1>1, <1>2, <1>3 DEF HeedInv
  <2> QED BY <2>3, <2>4
<1>6. ASSUME NEW r \in Calls, WriteFailure(r) PROVE HeedInv'
  <2> DEFINE failures == call[r].read + 1
             opens == failures >= Threshold(call[r].config)
             open == breaker.open \/ opens
  <2>1. call'[r].stage = "idle" /\ call[r].stage = "writing" /\ call[r].read \in Nat
    BY <1>1, <1>6, WhereItLands DEF WriteFailure, In, CallSet
  <2>2. \A q \in Calls \ {r} : call'[q] = call[q]
    BY <1>6, OthersStay DEF StepOf
  <2>3. ReadZero' = ReadZero \ {r}
    BY <2>1, <2>2 DEF ReadZero
  <2>4. /\ breaker' = [failures |-> failures, open |-> open]
        /\ unheeded' = IF call[r].config /\ ~opens THEN unheeded + 1 ELSE unheeded
    BY <1>6 DEF WriteFailure
  <2>5. breaker'.failures # 0
    <3>1. breaker'.failures = failures
      BY <2>4
    <3> QED BY <3>1, <2>1
  <2>6. CASE call[r].config /\ ~opens
    <3>1. call[r].read = 0
      BY <2>1, <2>6 DEF Threshold, CONFIG_FAILURE_THRESHOLD
    <3>2. Z1 = Z - 1
      <4>1. r \in ReadZero /\ ReadZero \in SUBSET Calls
        BY <2>1, <3>1 DEF ReadZero
      <4> QED BY <2>3, <4>1, OneCallLess
    <3>3. unheeded' = unheeded + 1
      BY <2>4, <2>6
    <3> QED BY <2>5, <3>2, <3>3, <1>1, <1>2, <1>3 DEF HeedInv
  <2>7. CASE ~(call[r].config /\ ~opens)
    <3>1. unheeded' = unheeded
      BY <2>4, <2>7
    <3>2. Z1 <= Z
      BY <1>4, <2>3
    <3> QED BY <2>5, <3>1, <3>2, <1>1, <1>2, <1>3 DEF HeedInv
  <2> QED BY <2>6, <2>7
<1>7. ASSUME NEW r \in Calls, RecordSuccess(r) PROVE HeedInv'
  <2>1. unheeded' = 0
    BY <1>7 DEF RecordSuccess
  <2> QED BY <2>1, <1>2 DEF HeedInv
<1>8. ASSUME breaker'.failures = breaker.failures, unheeded' = unheeded, ReadZero' \subseteq ReadZero
      PROVE  HeedInv'
  <2>1. Z1 <= Z
    BY <1>4, <1>8
  <2> QED BY <1>8, <2>1, <1>1, <1>2, <1>3 DEF HeedInv
<1>9. ASSUME NEW r \in Calls, StepOf(r), ~ReadFailures(r), ~WriteFailure(r), ~RecordSuccess(r)
      PROVE  HeedInv'
  <2>1. call'[r].stage # "writing"
    BY <1>9, WhereItLands DEF StepOf
  <2>2. \A q \in Calls \ {r} : call'[q] = call[q]
    BY <1>9, OthersStay
  <2>3. ReadZero' \subseteq ReadZero
    BY <2>1, <2>2 DEF ReadZero
  <2>4. UNCHANGED <<breaker, unheeded>>
    BY <1>9 DEF StepOf, Knock, CountKnock, LetThrough, TooMany, FindClosed, FindOpen, CreateSession,
                Accepted, Rejected, GivenUp
  <2> QED BY <2>3, <2>4, <1>8
<1>10. CASE PauseEnds \/ UNCHANGED resonanceVars
  <2>1. UNCHANGED <<call, unheeded>> /\ breaker'.failures = breaker.failures
    BY <1>1, <1>10 DEF PauseEnds, resonanceVars
  <2>2. ReadZero' = ReadZero
    BY <2>1 DEF ReadZero
  <2> QED BY <2>1, <2>2, <1>8
<1> QED BY <1>5, <1>6, <1>7, <1>9, <1>10 DEF ResonanceNext, StepOf

\* Between two successes no more config failures leave the breaker closed than
\* there are overlapping requests.
THEOREM ConfigFailuresStayHeeded == ResonanceSpec => []ConfigFailuresOpen
<1>1. ResonanceTypeOK /\ HeedInv => ConfigFailuresOpen
  <2> SUFFICES ASSUME ResonanceTypeOK, HeedInv PROVE ConfigFailuresOpen
    OBVIOUS
  <2>1. Cardinality(ReadZero) \in Nat /\ Cardinality(Calls) \in Nat
    BY CallsAreFinite DEF ReadZero
  <2> QED BY <2>1 DEF HeedInv, ResonanceTypeOK, ConfigFailuresOpen
<1> QED BY <1>1, InitHeed, NextHeed, ResonanceTypesHold, PTL DEF ResonanceSpec

-----------------------------------------------------------------------------
\* The pause.  While the breaker is open nobody joins those that found it closed,
\* and the one that opened it is not among them.

Cleared == {r \in Calls : call[r].stage = "cleared"}

PauseInv ==
    /\ ~breaker.open => knocks = 0
    /\ breaker.open => knocks + Cardinality(Cleared) < Cardinality(Calls)

\* Nothing is asked of an open breaker before the first request.
LEMMA InitPause == ResonanceInit => PauseInv
BY DEF ResonanceInit, PauseInv

\* Every step keeps the bound on codes asked for since the breaker opened.
LEMMA NextPause ==
    ASSUME ResonanceTypeOK, PauseInv, [ResonanceNext]_resonanceVars
    PROVE  PauseInv'
<1> DEFINE N == Cardinality(Calls)
           C == Cardinality(Cleared)
           C1 == Cardinality(Cleared')
<1>1. /\ call \in [Calls -> CallSet] /\ knocks \in Nat
      /\ breaker \in [failures : 0 .. MaxFailures, open : BOOLEAN] /\ breaker.open \in BOOLEAN
  BY DEF ResonanceTypeOK
<1>2. C \in Nat /\ N \in Nat /\ C1 \in Nat
  BY CallsAreFinite DEF Cleared
<1>3. (~breaker.open => knocks = 0) /\ (breaker.open => knocks + C < N)
  BY DEF PauseInv
<1>4. ASSUME breaker'.open = breaker.open, knocks' = knocks, Cleared' \subseteq Cleared
      PROVE  PauseInv'
  <2>1. C1 <= C
    BY <1>4, FewerCalls DEF Cleared
  <2> QED BY <1>4, <2>1, <1>1, <1>2, <1>3 DEF PauseInv
<1>5. ASSUME NEW r \in Calls, FindClosed(r) PROVE PauseInv'
  BY <1>3, <1>5 DEF FindClosed, PauseInv
<1>6. ASSUME NEW r \in Calls, CreateSession(r) PROVE PauseInv'
  <2>1. r \in Cleared /\ Cleared \in SUBSET Calls /\ call'[r].stage = "calling"
    BY <1>6, WhereItLands DEF CreateSession, In, Cleared
  <2>2. \A q \in Calls \ {r} : call'[q] = call[q]
    BY <1>6, OthersStay DEF StepOf
  <2>3. Cleared' = Cleared \ {r}
    BY <2>1, <2>2 DEF Cleared
  <2>4. C1 = C - 1
    BY <2>1, <2>3, OneCallLess
  <2>5. breaker' = breaker /\ knocks' = IF breaker.open THEN knocks + 1 ELSE knocks
    BY <1>6 DEF CreateSession
  <2> QED BY <2>4, <2>5, <1>1, <1>2, <1>3 DEF PauseInv
<1>7. ASSUME NEW r \in Calls, WriteFailure(r) PROVE PauseInv'
  <2> DEFINE failures == call[r].read + 1
             opens == failures >= Threshold(call[r].config)
             open == breaker.open \/ opens
  <2>1. call'[r].stage = "idle"
    BY <1>7, WhereItLands
  <2>2. \A q \in Calls \ {r} : call'[q] = call[q]
    BY <1>7, OthersStay DEF StepOf
  <2>3. Cleared' \subseteq Cleared /\ Cleared' \in SUBSET (Calls \ {r})
    BY <2>1, <2>2 DEF Cleared
  <2>4. breaker'.open = open /\ knocks' = knocks
    <3>1. breaker' = [failures |-> failures, open |-> open] /\ knocks' = knocks
      BY <1>7 DEF WriteFailure
    <3> QED BY <3>1
  <2>5. C1 < N
    BY <2>3, WithoutOneCall
  <2>6. CASE breaker.open
    <3>1. open = TRUE
      BY <2>6
    <3>2. breaker'.open = breaker.open
      BY <1>1, <2>4, <2>6, <3>1
    <3> QED BY <1>4, <2>3, <2>4, <3>2
  <2>7. CASE ~breaker.open
    BY <2>4, <2>5, <2>7, <1>2, <1>3 DEF PauseInv
  <2> QED BY <2>6, <2>7
<1>8. ASSUME NEW r \in Calls, RecordSuccess(r) PROVE PauseInv'
  BY <1>8 DEF RecordSuccess, PauseInv
<1>9. ASSUME NEW r \in Calls, StepOf(r), ~FindClosed(r), ~CreateSession(r), ~WriteFailure(r),
             ~RecordSuccess(r)
      PROVE  PauseInv'
  <2>1. call'[r].stage # "cleared"
    BY <1>9, WhereItLands DEF StepOf
  <2>2. \A q \in Calls \ {r} : call'[q] = call[q]
    BY <1>9, OthersStay
  <2>3. Cleared' \subseteq Cleared
    BY <2>1, <2>2 DEF Cleared
  <2>4. UNCHANGED <<breaker, knocks>>
    BY <1>9 DEF StepOf, Knock, CountKnock, LetThrough, TooMany, FindOpen, Accepted, Rejected,
                ReadFailures, GivenUp
  <2> QED BY <2>3, <2>4, <1>4
<1>10. CASE PauseEnds
  <2>1. breaker'.open = FALSE /\ knocks' = 0
    BY <1>1, <1>10 DEF PauseEnds
  <2> QED BY <2>1 DEF PauseInv
<1>11. CASE UNCHANGED resonanceVars
  <2>1. UNCHANGED <<call, breaker, knocks>>
    BY <1>11 DEF resonanceVars
  <2>2. Cleared' = Cleared
    BY <2>1 DEF Cleared
  <2> QED BY <2>1, <2>2, <1>4
<1> QED BY <1>5, <1>6, <1>7, <1>8, <1>9, <1>10, <1>11 DEF ResonanceNext, StepOf

\* An open breaker lets Resonance hear of fewer codes than there are overlapping
\* requests.
THEOREM PauseStaysKept == ResonanceSpec => []PauseIsKept
<1>1. ResonanceTypeOK /\ PauseInv => PauseIsKept
  <2> SUFFICES ASSUME ResonanceTypeOK, PauseInv, breaker.open PROVE knocks < Cardinality(Calls)
    BY DEF PauseIsKept
  <2>1. Cardinality(Cleared) \in Nat /\ Cardinality(Calls) \in Nat
    BY CallsAreFinite DEF Cleared
  <2> QED BY <2>1 DEF PauseInv, ResonanceTypeOK
<1> QED BY <1>1, InitPause, NextPause, ResonanceTypesHold, PTL DEF ResonanceSpec

\* Both promises of the breaker: it opens in time, and what it keeps away stays away, up
\* to the requests that overlap, whatever these are.
THEOREM BreakerStaysHeeded == ResonanceSpec => []BreakerIsHeeded
<1>1. ConfigFailuresOpen /\ PauseIsKept => BreakerIsHeeded
  BY DEF BreakerIsHeeded
<1> QED BY <1>1, ConfigFailuresStayHeeded, PauseStaysKept, PTL

-----------------------------------------------------------------------------
(* AgentStop: every stop of the agent uses up a grant of its own.  A grant   *)
(* that is in the file, or that the signal handler has read and not judged   *)
(* yet, has ended no agent so far: there is one handler, it removes what it  *)
(* has read before it judges it, and what is written meanwhile is a later    *)
(* grant.                                                                    *)

\* The processes systemd can have.
Agents == [at : {"up", "closing", "marked", "down"}, signal : BOOLEAN, judges : BOOLEAN,
           found : 0..MaxGrants, loop : Steps, poll : Steps, saved : BOOLEAN]

\* A process is there exactly if the unit is in one of the states that have one.
UnitFits(u, a) ==
  /\ a \in Agents
  /\ a.at = "down" => a = NoAgent
  /\ u \in {"active", "stopping", "restarting", "waiting", "inactive"}
  /\ u \in {"waiting", "inactive"} <=> a.at = "down"

\* A grant that nobody has judged yet has ended nobody.
Fresh(g) == g # 0 => honored[g] = 0

\* Some grant has ended an agent.
Ended == \E g \in 1..MaxGrants : honored[g] = 1

GrantsFit ==
  /\ granted.old <= granted.all
  /\ grant.id <= granted.all /\ Fresh(grant.id)
  /\ agent.found <= granted.all /\ Fresh(agent.found)
  /\ \A g \in 1..MaxGrants : honored[g] <= 1 /\ (g > granted.all => honored[g] = 0)

StopsFit ==
  /\ agent.at \in {"closing", "marked"} => Ended
  /\ stopped => Ended
  /\ stopped => ~(agent.at = "up" /\ agent.saved)

StopInv == StopTypeOK /\ GrantsFit /\ StopsFit

-----------------------------------------------------------------------------
\* A process, field by field.
LEMMA ProcessFields ==
  ASSUME NEW a \in Agents
  PROVE  /\ a.at \in {"up", "closing", "marked", "down"} /\ a.found \in 0..MaxGrants
         /\ a.signal \in BOOLEAN /\ a.judges \in BOOLEAN /\ a.saved \in BOOLEAN
         /\ a.loop \in Steps /\ a.poll \in Steps
         /\ a = [at |-> a.at, signal |-> a.signal, judges |-> a.judges, found |-> a.found,
                 loop |-> a.loop, poll |-> a.poll, saved |-> a.saved]
  <1>1. /\ a.at \in {"up", "closing", "marked", "down"} /\ a.found \in 0..MaxGrants
        /\ a.loop \in Steps /\ a.poll \in Steps
    BY Zenon DEF Agents
  <1>2. a.signal \in BOOLEAN /\ a.judges \in BOOLEAN /\ a.saved \in BOOLEAN
    BY Zenon DEF Agents
  <1>3. a = [at |-> a.at, signal |-> a.signal, judges |-> a.judges, found |-> a.found,
             loop |-> a.loop, poll |-> a.poll, saved |-> a.saved]
    BY Zenon DEF Agents
  <1> QED BY <1>1, <1>2, <1>3

\* Fields of the right types make a process.
LEMMA ProcessOfFields ==
  ASSUME NEW at \in {"up", "closing", "marked", "down"}, NEW signal \in BOOLEAN,
         NEW judges \in BOOLEAN, NEW found \in 0..MaxGrants, NEW loop \in Steps,
         NEW poll \in Steps, NEW saved \in BOOLEAN
  PROVE  [at |-> at, signal |-> signal, judges |-> judges, found |-> found,
          loop |-> loop, poll |-> poll, saved |-> saved] \in Agents
  BY Zenon DEF Agents

\* Another value of the pending signal.
LEMMA SignalField ==
  ASSUME NEW a \in Agents, NEW s \in BOOLEAN
  PROVE  /\ [a EXCEPT !.signal = s] \in Agents
         /\ [a EXCEPT !.signal = s].at = a.at /\ [a EXCEPT !.signal = s].found = a.found
         /\ [a EXCEPT !.signal = s].saved = a.saved
  BY SMT DEF Agents

\* A signal changes nothing of a process but its pending signal.
LEMMA SignalIsPending ==
  ASSUME NEW a \in Agents
  PROVE  /\ Signalled(a) \in Agents
         /\ Signalled(a).at = a.at /\ Signalled(a).found = a.found
         /\ Signalled(a).saved = a.saved
         /\ a.at = "down" => Signalled(a) = a
  <1>1. CASE a.at = "down" BY <1>1 DEF Signalled
  <1>2. CASE a.at # "down"
    <2>1. Signalled(a) = [a EXCEPT !.signal = TRUE] BY <1>2, Zenon DEF Signalled
    <2>2. TRUE \in BOOLEAN OBVIOUS
    <2>3. /\ [a EXCEPT !.signal = TRUE] \in Agents
          /\ [a EXCEPT !.signal = TRUE].at = a.at /\ [a EXCEPT !.signal = TRUE].found = a.found
          /\ [a EXCEPT !.signal = TRUE].saved = a.saved
      BY <2>2, SignalField, Zenon
    <2> QED BY <1>2, <2>1, <2>3, Zenon
  <1> QED BY <1>1, <1>2, Zenon

\* The new process and no process are processes.
LEMMA ProcessTypes ==
  ASSUME StopAssumption
  PROVE  /\ NewAgent \in Agents /\ NewAgent.at = "up" /\ NewAgent.found = 0 /\ NewAgent.saved = FALSE
         /\ NoAgent \in Agents /\ NoAgent.at = "down" /\ NoAgent.found = 0 /\ NoAgent.saved = FALSE
         /\ NoAgent.loop = "idle" /\ NoAgent.poll = "idle" /\ NoAgent.judges = FALSE
  <1>1. 0 \in 0..MaxGrants BY SMT DEF StopAssumption
  <1>2. "idle" \in Steps BY DEF Steps
  <1>3. NewAgent \in Agents /\ NoAgent \in Agents
    BY <1>1, <1>2, ProcessOfFields DEF NewAgent, NoAgent, Process
  <1> QED BY <1>3 DEF NewAgent, NoAgent, Process

\* What the commands of systemd leave as it is.
LEMMA SystemdAsks ==
  ASSUME NEW a, UnitFits(unit, a), AskStop(a) \/ AskRestart(a)
  PROVE  /\ UnitFits(unit', agent')
         /\ agent'.at = a.at /\ agent'.found = a.found /\ agent'.saved = a.saved
  <1>1. a \in Agents BY DEF UnitFits
  <1>2. agent' = a \/ agent' = Signalled(a) BY DEF AskStop, AskRestart
  <1>3. /\ agent' \in Agents /\ agent'.at = a.at /\ agent'.found = a.found
        /\ agent'.saved = a.saved /\ (a.at = "down" => agent' = a)
    BY <1>1, <1>2, SignalIsPending
  <1>4. /\ unit' \in {"active", "stopping", "restarting", "waiting", "inactive"}
        /\ unit' \in {"waiting", "inactive"} <=> unit \in {"waiting", "inactive"}
    BY SMT DEF AskStop, AskRestart, UnitFits
  <1> QED BY <1>3, <1>4 DEF UnitFits

\* Another place of a goroutine.
LEMMA GoroutineMoves ==
  ASSUME NEW a \in Agents, NEW p \in Steps
  PROVE  /\ [a EXCEPT !.loop = p] \in Agents
         /\ [a EXCEPT !.loop = p].at = a.at /\ [a EXCEPT !.loop = p].found = a.found
         /\ [a EXCEPT !.loop = p].saved = a.saved
         /\ [a EXCEPT !.poll = p] \in Agents
         /\ [a EXCEPT !.poll = p].at = a.at /\ [a EXCEPT !.poll = p].found = a.found
         /\ [a EXCEPT !.poll = p].saved = a.saved
  BY SMT DEF Agents

\* Another place of the process.
LEMMA ProcessMoves ==
  ASSUME NEW a \in Agents, NEW t \in {"up", "closing", "marked", "down"}
  PROVE  /\ [a EXCEPT !.at = t] \in Agents
         /\ [a EXCEPT !.at = t].at = t /\ [a EXCEPT !.at = t].found = a.found
         /\ [a EXCEPT !.at = t].saved = a.saved
  BY SMT DEF Agents

\* What a check-in saves.
LEMMA ProcessSaves ==
  ASSUME NEW a \in Agents, NEW s \in BOOLEAN
  PROVE  /\ [a EXCEPT !.saved = s] \in Agents
         /\ [a EXCEPT !.saved = s].at = a.at /\ [a EXCEPT !.saved = s].found = a.found
  BY SMT DEF Agents

\* The same for the fields of the signal handler.
LEMMA HandlerField ==
  ASSUME NEW a \in Agents, NEW s \in BOOLEAN
  PROVE  /\ [a EXCEPT !.signal = s] \in Agents
         /\ [a EXCEPT !.signal = s].at = a.at /\ [a EXCEPT !.signal = s].saved = a.saved
         /\ [a EXCEPT !.judges = s] \in Agents
         /\ [a EXCEPT !.judges = s].at = a.at /\ [a EXCEPT !.judges = s].saved = a.saved
  BY SMT DEF Agents

\* What it has found.
LEMMA FoundField ==
  ASSUME NEW a \in Agents, NEW g \in 0..MaxGrants
  PROVE  /\ [a EXCEPT !.found = g] \in Agents
         /\ [a EXCEPT !.found = g].at = a.at /\ [a EXCEPT !.found = g].saved = a.saved
         /\ [a EXCEPT !.found = g].found = g
  BY SMT DEF Agents

\* A process that has read a grant.
LEMMA GrantIsRead ==
  ASSUME NEW a \in Agents, NEW g \in 0..MaxGrants
  PROVE  LET b == [a EXCEPT !.signal = FALSE, !.judges = TRUE, !.found = g]
         IN  b \in Agents /\ b.at = a.at /\ b.found = g /\ b.saved = a.saved
  <1> DEFINE a1 == [a EXCEPT !.signal = FALSE]
             a2 == [a1 EXCEPT !.judges = TRUE]
             a3 == [a2 EXCEPT !.found = g]
  <1>1. [a EXCEPT !.signal = FALSE, !.judges = TRUE, !.found = g] = a3 BY Zenon
  <1>2. a1 \in Agents /\ a1.at = a.at /\ a1.saved = a.saved BY HandlerField, Zenon
  <1> HIDE DEF a1
  <1>3. a2 \in Agents /\ a2.at = a.at /\ a2.saved = a.saved BY <1>2, HandlerField, Zenon
  <1> HIDE DEF a2
  <1>4. a3 \in Agents /\ a3.at = a.at /\ a3.found = g /\ a3.saved = a.saved
    BY <1>3, FoundField, Zenon
  <1> QED BY <1>1, <1>4, Zenon

\* A process that has judged a grant, and goes on or closes.
LEMMA GrantIsJudged ==
  ASSUME NEW a \in Agents, NEW t \in {"up", "closing", "marked", "down"}, StopAssumption
  PROVE  LET b == [a EXCEPT !.judges = FALSE, !.found = 0, !.at = t]
         IN  b \in Agents /\ b.at = t /\ b.found = 0 /\ b.saved = a.saved
  <1> DEFINE b1 == [a EXCEPT !.judges = FALSE]
             b2 == [b1 EXCEPT !.found = 0]
             b3 == [b2 EXCEPT !.at = t]
  <1>1. [a EXCEPT !.judges = FALSE, !.found = 0, !.at = t] = b3 BY Zenon
  <1>2. b1 \in Agents /\ b1.saved = a.saved BY HandlerField, Zenon
  <1>3. 0 \in 0..MaxGrants BY SMT DEF StopAssumption
  <1> HIDE DEF b1
  <1>4. b2 \in Agents /\ b2.found = 0 /\ b2.saved = a.saved BY <1>2, <1>3, FoundField
  <1> HIDE DEF b2
  <1>5. b3 \in Agents /\ b3.at = t /\ b3.found = 0 /\ b3.saved = a.saved
    BY <1>4, SMT DEF Agents
  <1> QED BY <1>1, <1>5, Zenon

-----------------------------------------------------------------------------
\* A step that touches no grant, and neither ends nor saves, keeps what is known of both.
LEMMA NothingUsed ==
  ASSUME StopInv, UNCHANGED <<grant, granted, honored, stopped>>,
         agent'.found = agent.found \/ agent'.found = 0,
         agent'.at \in {"closing", "marked"} => agent'.at = agent.at,
         agent'.at = "up" /\ agent'.saved => agent.at = "up" /\ agent.saved
  PROVE  GrantsFit' /\ StopsFit'
  <1>1. granted.all \in Nat BY SMT DEF StopInv, StopTypeOK
  <1>2. GrantsFit' BY <1>1, SMT DEF StopInv, GrantsFit, Fresh
  <1>3. Ended' <=> Ended BY DEF Ended
  <1>4. StopsFit' BY <1>3, Zenon DEF StopInv, StopsFit
  <1> QED BY <1>2, <1>4

\* Opening the file leaves an empty one, which is nobody's grant.
LEMMA OpeningIsHarmless ==
  ASSUME StopAssumption, StopInv, NEW w \in Writers, OpenGrant(w),
         UNCHANGED <<honored, stopped>>,
         agent'.found = agent.found, agent'.at = agent.at, agent'.saved = agent.saved
  PROVE  /\ GrantsFit' /\ StopsFit'
         /\ grant' \in [there : BOOLEAN, id : 0..MaxGrants] /\ linked' \subseteq Writers
         /\ granted' = granted
  <1>1. grant' = [there |-> TRUE, id |-> 0] /\ granted' = granted /\ linked' = linked \cup {w}
    BY DEF OpenGrant
  <1>2. grant'.id = 0 BY <1>1
  <1>3. granted.all \in Nat BY SMT DEF StopInv, StopTypeOK
  <1>4. GrantsFit' BY <1>1, <1>2, <1>3, SMT DEF StopInv, GrantsFit, Fresh
  <1>5. StopsFit' BY DEF StopInv, StopsFit, Ended
  <1>6. grant' \in [there : BOOLEAN, id : 0..MaxGrants] BY <1>1, SMT DEF StopAssumption
  <1>7. linked' \subseteq Writers BY <1>1 DEF StopInv, StopTypeOK
  <1> QED BY <1>1, <1>4, <1>5, <1>6, <1>7

\* A grant that is written is a later one than all that have ended an agent.
LEMMA WritingIsNew ==
  ASSUME StopAssumption, StopInv, NEW w \in Writers, WriteGrant(w),
         UNCHANGED <<honored, stopped>>,
         agent'.found = agent.found, agent'.at = agent.at, agent'.saved = agent.saved
  PROVE  /\ GrantsFit' /\ StopsFit'
         /\ grant' \in [there : BOOLEAN, id : 0..MaxGrants] /\ linked' \subseteq Writers
         /\ granted' \in [all : 0..MaxGrants, old : 0..MaxGrants]
  <1> DEFINE n == granted.all + 1
  <1>1. /\ granted \in [all : 0..MaxGrants, old : 0..MaxGrants]
        /\ grant \in [there : BOOLEAN, id : 0..MaxGrants] /\ linked \subseteq Writers
        /\ agent.found \in 0..MaxGrants
    BY SMT DEF StopInv, StopTypeOK
  <1>2. granted' = [all |-> n, old |-> granted.old] /\ n \in 1..MaxGrants
    BY <1>1, SMT DEF WriteGrant, StopAssumption
  <1>3. grant' = grant \/ grant' = [there |-> TRUE, id |-> n] BY DEF WriteGrant
  <1>4. granted'.all = n /\ granted'.old = granted.old BY <1>2
  <1>5. /\ granted.old <= granted.all /\ grant.id <= granted.all /\ agent.found <= granted.all
        /\ Fresh(grant.id) /\ Fresh(agent.found)
        /\ \A g \in 1..MaxGrants : honored[g] <= 1 /\ (g > granted.all => honored[g] = 0)
    BY DEF StopInv, GrantsFit
  <1>6. honored[n] = 0 BY <1>1, <1>2, <1>5, SMT
  <1>7. grant'.id = grant.id \/ grant'.id = n BY <1>3
  <1>8. GrantsFit'
    <2>1. granted'.old <= granted'.all /\ grant'.id <= granted'.all /\ agent'.found <= granted'.all
      BY <1>1, <1>4, <1>5, <1>7, SMT DEF StopAssumption
    <2>2. Fresh(grant.id)' /\ Fresh(agent.found)' BY <1>5, <1>6, <1>7 DEF Fresh
    <2>3. \A g \in 1..MaxGrants : honored'[g] <= 1 /\ (g > granted'.all => honored'[g] = 0)
      BY <1>1, <1>4, <1>5, SMT DEF StopAssumption
    <2> QED BY <2>1, <2>2, <2>3 DEF GrantsFit
  <1>9. StopsFit' BY DEF StopInv, StopsFit, Ended
  <1>10. grant' \in [there : BOOLEAN, id : 0..MaxGrants]
    <2>1. n \in 0..MaxGrants BY <1>2, SMT DEF StopAssumption
    <2> HIDE DEF n
    <2>2. [there |-> TRUE, id |-> n] \in [there : BOOLEAN, id : 0..MaxGrants] BY <2>1
    <2> QED BY <1>1, <1>3, <2>2
  <1>11. linked' \subseteq Writers BY <1>1 DEF WriteGrant
  <1>12. granted' \in [all : 0..MaxGrants, old : 0..MaxGrants] BY <1>1, <1>2, SMT DEF StopAssumption
  <1> QED BY <1>8, <1>9, <1>10, <1>11, <1>12

-----------------------------------------------------------------------------
\* The types of everything but the process.
DataTyped ==
  /\ shell \in [Shells -> [at : Steps, runs : Commands]]
  /\ grant \in [there : BOOLEAN, id : 0..MaxGrants]
  /\ linked \subseteq Writers
  /\ control \in [request : {"none", "right", "wrong"}, response : {"none", "yes", "no"}]
  /\ tray \in {"shown", "asking", "gone"}
  /\ stopped \in BOOLEAN
  /\ granted \in [all : 0..MaxGrants, old : 0..MaxGrants]
  /\ honored \in [1..MaxGrants -> 0..2]
  /\ losses \in 0..MaxLosses

\* The type invariant in its two halves.
LEMMA TypeParts == StopTypeOK <=> UnitFits(unit, agent) /\ DataTyped
  BY Zenon DEF StopTypeOK, UnitFits, DataTyped, Agents

\* The same of the next state.
LEMMA NextTypeParts == UnitFits(unit', agent') /\ DataTyped' => StopTypeOK'
  BY Zenon DEF StopTypeOK, UnitFits, DataTyped, Agents

\* The initial state satisfies the invariant.
LEMMA InitIsSafe == ASSUME StopAssumption, StopInit PROVE StopInv
  <1>1. UnitFits(unit, agent) BY ProcessTypes DEF StopInit, UnitFits
  <1>2. DataTyped
    <2>1. 0 \in 0..MaxGrants /\ 0 \in 0..MaxLosses /\ 0 \in 0..2 BY SMT DEF StopAssumption
    <2>2. NoShell \in [at : Steps, runs : Commands] BY DEF NoShell, Steps, Commands
    <2>3. NoGrant \in [there : BOOLEAN, id : 0..MaxGrants] BY <2>1 DEF NoGrant
    <2> QED BY <2>1, <2>2, <2>3 DEF StopInit, DataTyped
  <1>3. GrantsFit BY ProcessTypes, SMT DEF StopInit, GrantsFit, Fresh, NoGrant, StopAssumption
  <1>4. StopsFit BY ProcessTypes DEF StopInit, StopsFit
  <1> QED BY <1>1, <1>2, <1>3, <1>4, TypeParts DEF StopInv

-----------------------------------------------------------------------------
\* What an action needs to keep: the fit of the process, the types of the rest, and what
\* is known of grants and stops.
LEMMA Kept ==
  ASSUME UnitFits(unit', agent'), DataTyped', GrantsFit', StopsFit'
  PROVE  StopInv'
  BY NextTypeParts DEF StopInv

\* The invariant, taken apart.
LEMMA Known ==
  ASSUME StopInv
  PROVE  UnitFits(unit, agent) /\ DataTyped /\ GrantsFit /\ StopsFit /\ agent \in Agents
  BY TypeParts DEF StopInv, UnitFits

\* A new process has found nothing and saved nothing.
LEMMA StartKeeps == ASSUME StopAssumption, StopInv, Start PROVE StopInv'
  <1>1. UnitFits(unit', agent') BY ProcessTypes, Known DEF Start, UnitFits
  <1>2. DataTyped' BY Known DEF Start, DataTyped
  <1>3. GrantsFit' /\ StopsFit' BY ProcessTypes, NothingUsed DEF Start
  <1> QED BY <1>1, <1>2, <1>3, Kept

\* systemd signals, and touches no grant.
LEMMA OperateUnitKeeps == ASSUME StopAssumption, StopInv, OperateUnit PROVE StopInv'
  <1>1. /\ UnitFits(unit', agent')
        /\ agent'.at = agent.at /\ agent'.found = agent.found /\ agent'.saved = agent.saved
    <2>1. CASE AskStop(agent) \/ AskRestart(agent) BY <2>1, Known, SystemdAsks
    <2>2. CASE unit = "inactive" /\ unit' = "waiting" /\ UNCHANGED agent
      BY <2>2, Known DEF UnitFits
    <2> QED BY <2>1, <2>2 DEF OperateUnit
  <1>2. DataTyped' BY Known DEF OperateUnit, DataTyped
  <1>3. GrantsFit' /\ StopsFit' BY <1>1, NothingUsed DEF OperateUnit
  <1> QED BY <1>1, <1>2, <1>3, Kept

\* A process that ends leaves none behind.
LEMMA EndsFits ==
  ASSUME StopAssumption, StopInv, agent.at # "down", Ends
  PROVE  UnitFits(unit', agent') /\ agent'.at = "down" /\ agent'.found = 0 /\ linked' \subseteq linked
  BY ProcessTypes, Known DEF Ends, UnitFits

\* A kill uses up nothing.
LEMMA KilledKeeps == ASSUME StopAssumption, StopInv, Killed PROVE StopInv'
  <1>1. /\ UnitFits(unit', agent') /\ agent'.at = "down" /\ agent'.found = 0
        /\ linked' \subseteq linked
    BY EndsFits DEF Killed
  <1>2. losses' \in 0..MaxLosses BY Known, SMT DEF Killed, DataTyped, StopAssumption
  <1>3. DataTyped' BY <1>1, <1>2, Known, Zenon DEF Killed, DataTyped
  <1>4. GrantsFit' /\ StopsFit' BY <1>1, NothingUsed DEF Killed
  <1> QED BY <1>1, <1>3, <1>4, Kept

\* Nor does the end that the status has announced.
LEMMA ExitKeeps == ASSUME StopAssumption, StopInv, Exit PROVE StopInv'
  <1>1. /\ UnitFits(unit', agent') /\ agent'.at = "down" /\ agent'.found = 0
        /\ linked' \subseteq linked
    BY EndsFits DEF Exit
  <1>2. DataTyped' BY <1>1, Known, Zenon DEF Exit, DataTyped
  <1>3. GrantsFit' /\ StopsFit' BY <1>1, NothingUsed DEF Exit
  <1> QED BY <1>1, <1>2, <1>3, Kept

\* Time makes grants old, and never more of them.
LEMMA TwoMinutesKeeps == ASSUME StopAssumption, StopInv, TwoMinutes PROVE StopInv'
  <1>1. PICK n \in (granted.old + 1)..granted.all : granted' = [granted EXCEPT !.old = n]
    BY DEF TwoMinutes
  <1>2. granted \in [all : 0..MaxGrants, old : 0..MaxGrants] BY Known DEF DataTyped
  <1>3. n \in 0..MaxGrants /\ n <= granted.all BY <1>2, SMT DEF StopAssumption
  <1>4. granted' = [all |-> granted.all, old |-> n] BY <1>1, <1>2, SMT
  <1>5. granted'.all = granted.all /\ granted'.old = n BY <1>4
  <1>6. granted' \in [all : 0..MaxGrants, old : 0..MaxGrants] BY <1>2, <1>3, <1>4, Zenon
  <1>7. DataTyped' BY <1>6, Known, Zenon DEF TwoMinutes, DataTyped
  <1>8. UnitFits(unit', agent') BY Known, Zenon DEF TwoMinutes, UnitFits
  <1>9. UNCHANGED <<agent, grant, honored, stopped>> BY DEF TwoMinutes
  <1>10. GrantsFit' BY <1>3, <1>5, <1>9, Known, Zenon DEF GrantsFit, Fresh
  <1>11. StopsFit' BY <1>9, Known, Zenon DEF StopsFit, Ended
  <1> QED BY <1>7, <1>8, <1>10, <1>11, Kept

\* What the handler reads is what is in the file.
LEMMA ReadGrantKeeps == ASSUME StopAssumption, StopInv, ReadGrant PROVE StopInv'
  <1>1. grant.id \in 0..MaxGrants BY Known, Zenon DEF DataTyped
  <1>2. /\ agent' \in Agents /\ agent'.at = agent.at /\ agent'.saved = agent.saved
        /\ agent'.found = grant.id
    BY <1>1, Known, GrantIsRead DEF ReadGrant
  <1>3. UnitFits(unit', agent') BY <1>2, Known, Zenon DEF ReadGrant, UnitFits
  <1>4. DataTyped' BY Known, Zenon DEF ReadGrant, DataTyped
  <1>5. UNCHANGED <<grant, granted, honored, stopped>> BY DEF ReadGrant
  <1>6. GrantsFit' BY <1>2, <1>5, Known, Zenon DEF GrantsFit, Fresh
  <1>7. StopsFit' BY <1>2, <1>5, Known, Zenon DEF StopsFit, Ended
  <1> QED BY <1>3, <1>4, <1>6, <1>7, Kept

\* The grant that is judged has ended nobody, and is gone for whoever comes next.
LEMMA ConsumeGrantKeeps == ASSUME StopAssumption, StopInv, ConsumeGrant PROVE StopInv'
  <1> DEFINE f == agent.found
  <1>1. /\ granted \in [all : 0..MaxGrants, old : 0..MaxGrants]
        /\ honored \in [1..MaxGrants -> 0..2] /\ f \in 0..MaxGrants
        /\ agent.at # "down" /\ MaxGrants \in Nat
    <2>1. agent.at # "down" BY Known, ProcessTypes, Zenon DEF ConsumeGrant, UnitFits
    <2> QED BY <2>1, Known, ProcessFields, Zenon DEF DataTyped, StopAssumption
  <1>2. /\ granted.old <= granted.all /\ f <= granted.all /\ Fresh(f)
        /\ \A g \in 1..MaxGrants : honored[g] <= 1 /\ (g > granted.all => honored[g] = 0)
    BY Known, Zenon DEF GrantsFit
  <1>3. /\ grant' = NoGrant /\ linked' = {} /\ granted' = granted /\ stopped' = stopped
        /\ UNCHANGED <<unit, shell, control, tray, losses>>
    BY DEF ConsumeGrant
  <1>4. agent' = [agent EXCEPT !.judges = FALSE, !.found = 0,
                               !.at = IF f > granted.old THEN "closing" ELSE agent.at]
    BY Zenon DEF ConsumeGrant, Judged
  <1>5. NoGrant.id = 0 /\ NoGrant \in [there : BOOLEAN, id : 0..MaxGrants]
    BY <1>1, SMT DEF NoGrant
  <1>6. CASE f > granted.old
    <2>1. agent' = [agent EXCEPT !.judges = FALSE, !.found = 0, !.at = "closing"]
      BY <1>4, <1>6, Zenon
    <2>2. agent' \in Agents /\ agent'.at = "closing" /\ agent'.found = 0
      BY <2>1, Known, GrantIsJudged
    <2>3. f \in 1..MaxGrants /\ honored[f] = 0 BY <1>1, <1>2, <1>6, SMT DEF Fresh
    <2>4. honored' = [honored EXCEPT ![f] = honored[f] + 1] BY <1>6, Zenon DEF ConsumeGrant
    <2>5. honored' = [honored EXCEPT ![f] = 1] BY <2>3, <2>4, SMT
    <2>6. /\ honored' \in [1..MaxGrants -> 0..2] /\ honored'[f] = 1
          /\ \A g \in 1..MaxGrants : honored'[g] = IF g = f THEN 1 ELSE honored[g]
      BY <1>1, <2>3, <2>5, SMT
    <2>7. UnitFits(unit', agent') BY <1>1, <1>3, <2>2, Known, Zenon DEF UnitFits
    <2>8. DataTyped' BY <1>3, <1>5, <2>6, Known, Zenon DEF DataTyped
    <2>9. \A g \in 1..MaxGrants : honored'[g] <= 1 /\ (g > granted.all => honored'[g] = 0)
      BY <1>1, <1>2, <2>6, SMT
    <2>10. GrantsFit' BY <1>1, <1>2, <1>3, <1>5, <2>2, <2>9, SMT DEF GrantsFit, Fresh
    <2>11. StopsFit' BY <2>2, <2>3, <2>6, Zenon DEF StopsFit, Ended
    <2> QED BY <2>7, <2>8, <2>10, <2>11, Kept
  <1>7. CASE ~(f > granted.old)
    <2>1. agent' = [agent EXCEPT !.judges = FALSE, !.found = 0, !.at = agent.at]
      BY <1>4, <1>7, Zenon
    <2>2. /\ agent' \in Agents /\ agent'.at = agent.at /\ agent'.found = 0
          /\ agent'.saved = agent.saved
      <3>1. agent.at \in {"up", "closing", "marked", "down"} BY Known, ProcessFields
      <3> QED BY <2>1, <3>1, Known, GrantIsJudged
    <2>3. honored' = honored BY <1>7, Zenon DEF ConsumeGrant
    <2>4. UnitFits(unit', agent') BY <1>1, <1>3, <2>2, Known, Zenon DEF UnitFits
    <2>5. DataTyped' BY <1>3, <1>5, <2>3, Known, Zenon DEF DataTyped
    <2>6. GrantsFit' BY <1>1, <1>2, <1>3, <1>5, <2>2, <2>3, SMT DEF GrantsFit, Fresh
    <2>7. StopsFit' BY <1>3, <2>2, <2>3, Known, Zenon DEF StopsFit, Ended
    <2> QED BY <2>4, <2>5, <2>6, <2>7, Kept
  <1> QED BY <1>6, <1>7

-----------------------------------------------------------------------------
\* A process that has something to do, and goes on with it.
LEMMA GoesOn ==
  ASSUME StopInv, NEW a \in Agents, a.at = agent.at, agent.at # "down"
  PROVE  UnitFits(unit, a)
  BY Known, Zenon DEF UnitFits

\* Whoever is busy is there.
LEMMA BusyIsThere ==
  ASSUME StopAssumption, StopInv, agent.loop # "idle" \/ agent.poll # "idle"
  PROVE  agent.at # "down"
  BY Known, ProcessTypes, Zenon DEF UnitFits

\* A check-in clears the flag.
LEMMA CheckinKeeps == ASSUME StopAssumption, StopInv, Checkin PROVE StopInv'
  <1>1. agent' \in Agents /\ agent'.at = agent.at /\ agent'.found = agent.found
    BY Known, ProcessSaves, Zenon DEF Checkin
  <1>2. agent.at # "down" BY DEF Checkin
  <1>3. UnitFits(unit', agent') BY <1>1, <1>2, GoesOn, Zenon DEF Checkin
  <1>4. DataTyped' BY Known, Zenon DEF Checkin, DataTyped
  <1>5. UNCHANGED <<grant, granted, honored>> /\ stopped' = FALSE BY DEF Checkin
  <1>6. GrantsFit' BY <1>1, <1>5, Known, Zenon DEF GrantsFit, Fresh
  <1>7. StopsFit' BY <1>1, <1>5, Known, Zenon DEF StopsFit, Ended
  <1> QED BY <1>3, <1>4, <1>6, <1>7, Kept

\* An update that begins has written nothing yet.
LEMMA BeginUpdateKeeps == ASSUME StopAssumption, StopInv, BeginUpdate PROVE StopInv'
  <1>1. /\ agent' \in Agents /\ agent'.at = agent.at /\ agent'.found = agent.found
        /\ agent'.saved = agent.saved
    BY Known, GoroutineMoves, Zenon DEF BeginUpdate, Steps
  <1>2. agent.at # "down" BY DEF BeginUpdate
  <1>3. UnitFits(unit', agent') BY <1>1, <1>2, GoesOn, Zenon DEF BeginUpdate
  <1>4. DataTyped' BY Known, Zenon DEF BeginUpdate, DataTyped
  <1>5. GrantsFit' /\ StopsFit' BY <1>1, NothingUsed DEF BeginUpdate
  <1> QED BY <1>3, <1>4, <1>5, Kept

\* An update opens, writes and signals.
LEMMA RestartForUpdateKeeps == ASSUME StopAssumption, StopInv, RestartForUpdate PROVE StopInv'
  <1>1. /\ UNCHANGED <<honored, stopped>>
        /\ UNCHANGED <<unit, shell, control, tray, losses>> /\ Loop \in Writers
    BY DEF RestartForUpdate, Writers
  <1>2. agent.at # "down" BY BusyIsThere DEF RestartForUpdate
  <1>3. \A p \in Steps : [agent EXCEPT !.loop = p] \in Agents
          /\ [agent EXCEPT !.loop = p].at = agent.at
          /\ [agent EXCEPT !.loop = p].found = agent.found
          /\ [agent EXCEPT !.loop = p].saved = agent.saved
    BY Known, GoroutineMoves
  <1>4. CASE OpenGrant(Loop) /\ agent' = [agent EXCEPT !.loop = "write"]
    <2>1. /\ agent' \in Agents /\ agent'.at = agent.at /\ agent'.found = agent.found
          /\ agent'.saved = agent.saved
      BY <1>3, <1>4 DEF Steps
    <2>2. UnitFits(unit', agent') BY <1>1, <1>2, <2>1, GoesOn, Zenon
    <2>3. /\ GrantsFit' /\ StopsFit' /\ linked' \subseteq Writers /\ granted' = granted
          /\ grant' \in [there : BOOLEAN, id : 0..MaxGrants]
      BY <1>1, <1>4, <2>1, OpeningIsHarmless
    <2>4. DataTyped' BY <1>1, <2>3, Known, Zenon DEF DataTyped
    <2> QED BY <2>2, <2>3, <2>4, Kept
  <1>5. CASE WriteGrant(Loop) /\ agent' = [agent EXCEPT !.loop = "act"]
    <2>1. /\ agent' \in Agents /\ agent'.at = agent.at /\ agent'.found = agent.found
          /\ agent'.saved = agent.saved
      BY <1>3, <1>5 DEF Steps
    <2>2. UnitFits(unit', agent') BY <1>1, <1>2, <2>1, GoesOn, Zenon
    <2>3. /\ GrantsFit' /\ StopsFit' /\ linked' \subseteq Writers
          /\ granted' \in [all : 0..MaxGrants, old : 0..MaxGrants]
          /\ grant' \in [there : BOOLEAN, id : 0..MaxGrants]
      BY <1>1, <1>5, <2>1, WritingIsNew
    <2>4. DataTyped' BY <1>1, <2>3, Known, Zenon DEF DataTyped
    <2> QED BY <2>2, <2>3, <2>4, Kept
  <1>6. CASE /\ agent' = Signalled([agent EXCEPT !.loop = "idle"])
             /\ UNCHANGED <<grant, linked, granted>>
    <2> DEFINE a == [agent EXCEPT !.loop = "idle"]
    <2>1. a \in Agents /\ a.at = agent.at /\ a.found = agent.found /\ a.saved = agent.saved
      BY <1>3 DEF Steps
    <2>2. agent' = Signalled(a) BY <1>6
    <2> HIDE DEF a
    <2>3. /\ agent' \in Agents /\ agent'.at = agent.at /\ agent'.found = agent.found
          /\ agent'.saved = agent.saved
      BY <2>1, <2>2, SignalIsPending
    <2>4. UnitFits(unit', agent') BY <1>1, <1>2, <2>3, GoesOn, Zenon
    <2>5. DataTyped' BY <1>1, <1>6, Known, Zenon DEF DataTyped
    <2>6. GrantsFit' /\ StopsFit' BY <1>1, <1>6, <2>3, NothingUsed
    <2> QED BY <2>4, <2>5, <2>6, Kept
  <1> QED BY <1>4, <1>5, <1>6 DEF RestartForUpdate

\* The flag is set by an agent that a grant has closed.
LEMMA MarkStoppedKeeps == ASSUME StopAssumption, StopInv, MarkStopped PROVE StopInv'
  <1>1. agent' \in Agents /\ agent'.at = "marked" /\ agent'.found = agent.found
    BY Known, ProcessMoves, Zenon DEF MarkStopped
  <1>2. UnitFits(unit', agent') BY <1>1, Known, Zenon DEF MarkStopped, UnitFits
  <1>3. DataTyped' BY Known, Zenon DEF MarkStopped, DataTyped
  <1>4. UNCHANGED <<grant, granted, honored>> BY DEF MarkStopped
  <1>5. GrantsFit' BY <1>1, <1>4, Known, Zenon DEF GrantsFit, Fresh
  <1>6. Ended BY Known, Zenon DEF MarkStopped, StopsFit
  <1>7. StopsFit' BY <1>1, <1>4, <1>6, Zenon DEF StopsFit, Ended
  <1> QED BY <1>2, <1>3, <1>5, <1>7, Kept

-----------------------------------------------------------------------------
\* A request of the tray is answered.
LEMMA TakeRequestKeeps == ASSUME StopAssumption, StopInv, TakeRequest PROVE StopInv'
  <1> DEFINE right == control.request = "right"
             p == IF right THEN "open" ELSE "idle"
             c == [request |-> "none", response |-> IF right THEN "yes" ELSE "no"]
  <1>1. agent' = [agent EXCEPT !.poll = p] /\ control' = c /\ agent.at # "down"
        /\ UNCHANGED <<unit, shell, grant, linked, tray, stopped, granted, honored, losses>>
    BY Zenon DEF TakeRequest, Responded
  <1>2. p \in Steps BY DEF Steps
  <1>3. c \in [request : {"none", "right", "wrong"}, response : {"none", "yes", "no"}]
    OBVIOUS
  <1> HIDE DEF p, c, right
  <1>4. /\ agent' \in Agents /\ agent'.at = agent.at /\ agent'.found = agent.found
        /\ agent'.saved = agent.saved
    BY <1>1, <1>2, Known, GoroutineMoves
  <1>5. UnitFits(unit', agent') BY <1>1, <1>4, GoesOn, Zenon
  <1>6. DataTyped' BY <1>1, <1>3, Known, Zenon DEF DataTyped
  <1>7. GrantsFit' /\ StopsFit' BY <1>1, <1>4, NothingUsed
  <1> QED BY <1>5, <1>6, <1>7, Kept

\* The poller opens, writes and asks for the stop.
LEMMA StopForTrayKeeps == ASSUME StopAssumption, StopInv, StopForTray PROVE StopInv'
  <1>1. /\ UNCHANGED <<honored, stopped>>
        /\ UNCHANGED <<shell, control, tray, losses>> /\ Poll \in Writers
    BY DEF StopForTray, Writers
  <1>2. agent.at # "down" BY BusyIsThere DEF StopForTray
  <1>3. \A p \in Steps : [agent EXCEPT !.poll = p] \in Agents
          /\ [agent EXCEPT !.poll = p].at = agent.at
          /\ [agent EXCEPT !.poll = p].found = agent.found
          /\ [agent EXCEPT !.poll = p].saved = agent.saved
    BY Known, GoroutineMoves
  <1>4. CASE OpenGrant(Poll) /\ agent' = [agent EXCEPT !.poll = "write"] /\ UNCHANGED unit
    <2>1. /\ agent' \in Agents /\ agent'.at = agent.at /\ agent'.found = agent.found
          /\ agent'.saved = agent.saved
      BY <1>3, <1>4 DEF Steps
    <2>2. UnitFits(unit', agent') BY <1>2, <1>4, <2>1, GoesOn, Zenon
    <2>3. /\ GrantsFit' /\ StopsFit' /\ linked' \subseteq Writers /\ granted' = granted
          /\ grant' \in [there : BOOLEAN, id : 0..MaxGrants]
      BY <1>1, <1>4, <2>1, OpeningIsHarmless
    <2>4. DataTyped' BY <1>1, <2>3, Known, Zenon DEF DataTyped
    <2> QED BY <2>2, <2>3, <2>4, Kept
  <1>5. CASE WriteGrant(Poll) /\ agent' = [agent EXCEPT !.poll = "act"] /\ UNCHANGED unit
    <2>1. /\ agent' \in Agents /\ agent'.at = agent.at /\ agent'.found = agent.found
          /\ agent'.saved = agent.saved
      BY <1>3, <1>5 DEF Steps
    <2>2. UnitFits(unit', agent') BY <1>2, <1>5, <2>1, GoesOn, Zenon
    <2>3. /\ GrantsFit' /\ StopsFit' /\ linked' \subseteq Writers
          /\ granted' \in [all : 0..MaxGrants, old : 0..MaxGrants]
          /\ grant' \in [there : BOOLEAN, id : 0..MaxGrants]
      BY <1>1, <1>5, <2>1, WritingIsNew
    <2>4. DataTyped' BY <1>1, <2>3, Known, Zenon DEF DataTyped
    <2> QED BY <2>2, <2>3, <2>4, Kept
  <1>6. CASE AskStop([agent EXCEPT !.poll = "idle"]) /\ UNCHANGED <<grant, linked, granted>>
    <2> DEFINE a == [agent EXCEPT !.poll = "idle"]
    <2>1. a \in Agents /\ a.at = agent.at /\ a.found = agent.found /\ a.saved = agent.saved
      BY <1>3 DEF Steps
    <2>2. AskStop(a) BY <1>6
    <2> HIDE DEF a
    <2>3. UnitFits(unit, a) BY <1>2, <2>1, GoesOn
    <2>4. /\ UnitFits(unit', agent') /\ agent'.at = agent.at /\ agent'.found = agent.found
          /\ agent'.saved = agent.saved
      BY <2>1, <2>2, <2>3, SystemdAsks
    <2>5. DataTyped' BY <1>1, <1>6, Known, Zenon DEF DataTyped
    <2>6. GrantsFit' /\ StopsFit' BY <1>1, <1>6, <2>4, NothingUsed
    <2> QED BY <2>4, <2>5, <2>6, Kept
  <1> QED BY <1>4, <1>5, <1>6 DEF StopForTray

\* The tray touches neither grants nor processes.
LEMMA TrayKeeps ==
  ASSUME StopAssumption, StopInv,
         TrayEnds \/ RefreshTray \/ (\E code \in {"right", "wrong"} : AskByTray(code))
  PROVE  StopInv'
  <1> DEFINE Controls == [request : {"none", "right", "wrong"}, response : {"none", "yes", "no"}]
  <1>1. UNCHANGED <<unit, agent, shell, grant, linked, stopped, granted, honored, losses>>
    BY DEF TrayEnds, RefreshTray, AskByTray, Asked, Collected
  <1>2. control \in Controls /\ tray \in {"shown", "asking", "gone"} BY Known DEF DataTyped
  <1>3. /\ [control EXCEPT !.response = "none"] \in Controls
        /\ \A code \in {"right", "wrong"} : [control EXCEPT !.request = code] \in Controls
    BY <1>2, SMT
  <1>4. control' \in Controls
    BY <1>2, <1>3, Zenon DEF TrayEnds, RefreshTray, AskByTray, Asked, Collected
  <1>5. tray' \in {"shown", "asking", "gone"}
    BY <1>2, Zenon DEF TrayEnds, RefreshTray, AskByTray, Asked, Collected
  <1>6. UnitFits(unit', agent') BY <1>1, Known, Zenon DEF UnitFits
  <1>7. DataTyped' BY <1>1, <1>4, <1>5, Known, Zenon DEF DataTyped
  <1>8. GrantsFit' /\ StopsFit' BY <1>1, NothingUsed
  <1> QED BY <1>6, <1>7, <1>8, Kept

\* A command that is given is at its first step.
LEMMA RunCommandKeeps ==
  ASSUME StopAssumption, StopInv, NEW s \in Shells, NEW command \in Commands,
         RunCommand(s, command)
  PROVE  StopInv'
  <1>1. /\ shell' = [shell EXCEPT ![s] = [at |-> "open", runs |-> command]]
        /\ UNCHANGED <<unit, agent, grant, linked, control, tray, stopped, granted, honored, losses>>
    BY DEF RunCommand
  <1>2. shell \in [Shells -> [at : Steps, runs : Commands]] BY Known DEF DataTyped
  <1>3. [at |-> "open", runs |-> command] \in [at : Steps, runs : Commands] BY DEF Steps
  <1>4. shell' \in [Shells -> [at : Steps, runs : Commands]] BY <1>1, <1>2, <1>3, Zenon
  <1>5. UnitFits(unit', agent') BY <1>1, Known, Zenon DEF UnitFits
  <1>6. DataTyped' BY <1>1, <1>4, Known, Zenon DEF DataTyped
  <1>7. GrantsFit' /\ StopsFit' BY <1>1, NothingUsed
  <1> QED BY <1>5, <1>6, <1>7, Kept

\* A command line that goes on, or is done, is one of the command lines.
LEMMA ShellMoves ==
  ASSUME StopInv, NEW s \in Shells, NEW p \in Steps,
         \/ shell' = [shell EXCEPT ![s].at = p]
         \/ shell' = [shell EXCEPT ![s] = NoShell]
  PROVE  shell' \in [Shells -> [at : Steps, runs : Commands]]
  <1>1. shell \in [Shells -> [at : Steps, runs : Commands]] BY Known DEF DataTyped
  <1>2. NoShell \in [at : Steps, runs : Commands] BY DEF NoShell, Steps, Commands
  <1>3. [shell[s] EXCEPT !.at = p] \in [at : Steps, runs : Commands] BY <1>1, SMT
  <1>4. PICK r \in [at : Steps, runs : Commands] : shell' = [shell EXCEPT ![s] = r]
    <2>1. CASE shell' = [shell EXCEPT ![s] = NoShell] BY <1>2, <2>1
    <2>2. CASE shell' = [shell EXCEPT ![s].at = p]
      <3>1. shell' = [shell EXCEPT ![s] = [shell[s] EXCEPT !.at = p]] BY <2>2, Zenon
      <3> QED BY <1>3, <3>1, Zenon
    <2> QED BY <2>1, <2>2
  <1> QED BY <1>1, <1>4, Zenon

\* A command line opens, writes and asks systemd.
LEMMA GoOnKeeps ==
  ASSUME StopAssumption, StopInv, NEW s \in Shells, GoOn(s) PROVE StopInv'
  <1>1. UNCHANGED <<control, tray, stopped, honored, losses>> /\ s \in Writers
    BY DEF GoOn, Writers
  <1>2. CASE OpenGrant(s) /\ shell' = [shell EXCEPT ![s].at = "write"] /\ UNCHANGED <<unit, agent>>
    <2>1. shell' \in [Shells -> [at : Steps, runs : Commands]] BY <1>2, ShellMoves DEF Steps
    <2>2. UnitFits(unit', agent') BY <1>2, Known, Zenon DEF UnitFits
    <2>3. /\ GrantsFit' /\ StopsFit' /\ linked' \subseteq Writers /\ granted' = granted
          /\ grant' \in [there : BOOLEAN, id : 0..MaxGrants]
      BY <1>1, <1>2, OpeningIsHarmless
    <2>4. DataTyped' BY <1>1, <2>1, <2>3, Known, Zenon DEF DataTyped
    <2> QED BY <2>2, <2>3, <2>4, Kept
  <1>3. CASE WriteGrant(s) /\ shell' = [shell EXCEPT ![s].at = "act"] /\ UNCHANGED <<unit, agent>>
    <2>1. shell' \in [Shells -> [at : Steps, runs : Commands]] BY <1>3, ShellMoves DEF Steps
    <2>2. UnitFits(unit', agent') BY <1>3, Known, Zenon DEF UnitFits
    <2>3. /\ GrantsFit' /\ StopsFit' /\ linked' \subseteq Writers
          /\ granted' \in [all : 0..MaxGrants, old : 0..MaxGrants]
          /\ grant' \in [there : BOOLEAN, id : 0..MaxGrants]
      BY <1>1, <1>3, WritingIsNew
    <2>4. DataTyped' BY <1>1, <2>1, <2>3, Known, Zenon DEF DataTyped
    <2> QED BY <2>2, <2>3, <2>4, Kept
  <1>4. CASE /\ shell' = [shell EXCEPT ![s] = NoShell]
             /\ AskRestart(agent) \/ AskStop(agent) \/ UNCHANGED <<unit, agent>>
             /\ UNCHANGED <<grant, linked, granted>>
    <2>1. shell' \in [Shells -> [at : Steps, runs : Commands]] BY <1>4, ShellMoves DEF Steps
    <2>2. /\ UnitFits(unit', agent')
          /\ agent'.at = agent.at /\ agent'.found = agent.found /\ agent'.saved = agent.saved
      <3>1. CASE AskRestart(agent) \/ AskStop(agent) BY <3>1, Known, SystemdAsks
      <3>2. CASE UNCHANGED <<unit, agent>> BY <3>2, Known DEF UnitFits
      <3> QED BY <1>4, <3>1, <3>2
    <2>3. DataTyped' BY <1>1, <1>4, <2>1, Known, Zenon DEF DataTyped
    <2>4. GrantsFit' /\ StopsFit' BY <1>1, <1>4, <2>2, NothingUsed
    <2> QED BY <2>2, <2>3, <2>4, Kept
  <1>5. \/ OpenGrant(s) /\ shell' = [shell EXCEPT ![s].at = "write"] /\ UNCHANGED <<unit, agent>>
        \/ WriteGrant(s) /\ shell' = [shell EXCEPT ![s].at = "act"] /\ UNCHANGED <<unit, agent>>
        \/ /\ shell' = [shell EXCEPT ![s] = NoShell]
           /\ AskRestart(agent) \/ AskStop(agent) \/ UNCHANGED <<unit, agent>>
           /\ UNCHANGED <<grant, linked, granted>>
    <2>1. CASE shell[s].runs = "install" BY <2>1, Zenon DEF GoOn
    <2>2. CASE shell[s].runs = "uninstall" BY <2>2, Zenon DEF GoOn
    <2>3. CASE shell[s].runs \notin {"install", "uninstall"} BY <2>3, Zenon DEF GoOn
    <2> QED BY <2>1, <2>2, <2>3
  <1> QED BY <1>2, <1>3, <1>4, <1>5

\* Every step keeps the invariant.
LEMMA StepIsSafe == ASSUME StopAssumption, StopInv, [StopNext]_stopVars PROVE StopInv'
  <1>1. CASE UNCHANGED stopVars
    <2>1. UnitFits(unit', agent') BY <1>1, Known, Zenon DEF stopVars, UnitFits
    <2>2. DataTyped' BY <1>1, Known, Zenon DEF stopVars, DataTyped
    <2>3. GrantsFit' /\ StopsFit' BY <1>1, NothingUsed DEF stopVars
    <2> QED BY <2>1, <2>2, <2>3, Kept
  <1>2. CASE Start \/ OperateUnit \/ Killed \/ TwoMinutes \/ ReadGrant \/ ConsumeGrant
    BY <1>2, StartKeeps, OperateUnitKeeps, KilledKeeps, TwoMinutesKeeps, ReadGrantKeeps,
       ConsumeGrantKeeps
  <1>3. CASE Checkin \/ BeginUpdate \/ RestartForUpdate \/ MarkStopped \/ Exit
    BY <1>3, CheckinKeeps, BeginUpdateKeeps, RestartForUpdateKeeps, MarkStoppedKeeps, ExitKeeps
  <1>4. CASE TakeRequest \/ StopForTray BY <1>4, TakeRequestKeeps, StopForTrayKeeps
  <1>5. CASE TrayEnds \/ RefreshTray \/ \E code \in {"right", "wrong"} : AskByTray(code)
    BY <1>5, TrayKeeps
  <1>6. CASE \E s \in Shells : GoOn(s) \/ \E c \in Commands : RunCommand(s, c)
    BY <1>6, GoOnKeeps, RunCommandKeeps
  <1> QED BY <1>1, <1>2, <1>3, <1>4, <1>5, <1>6 DEF StopNext

-----------------------------------------------------------------------------
\* The states of the service, the process, the commands and the files fit together: no
\* process is left where systemd has none (svcrun_unix.go, config.go, svcinstall_linux.go).
THEOREM StopTypesHold == StopSpec => []StopTypeOK
  <1>1. StopInit => StopInv BY InitIsSafe, StopAssumption
  <1>2. StopInv /\ [StopNext]_stopVars => StopInv' BY StepIsSafe, StopAssumption
  <1>3. StopInv => StopTypeOK BY DEF StopInv
  <1> QED BY <1>1, <1>2, <1>3, PTL DEF StopSpec

\* For any number of administrators, grants and kills: every stop of the agent has used up
\* a grant of its own, and the status says "stopped" only after one (ConsumeUnlockGrant,
\* Run of svcrun_unix.go, markStopped).
THEOREM StopsUseUpGrants == StopSpec => []OneStopPerGrant
  <1>1. StopInit => StopInv BY InitIsSafe, StopAssumption
  <1>2. StopInv /\ [StopNext]_stopVars => StopInv' BY StepIsSafe, StopAssumption
  <1>3. StopInv => OneStopPerGrant
    BY Zenon DEF StopInv, GrantsFit, StopsFit, Ended, OneStopPerGrant
  <1> QED BY <1>1, <1>2, <1>3, PTL DEF StopSpec
=============================================================================
