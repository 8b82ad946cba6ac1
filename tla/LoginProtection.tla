--------------------------- MODULE LoginProtection ---------------------------
(***************************************************************************)
(* The two guards of password checks: the lockout of an account            *)
(* (src/app/auth/lockout.py) and the throttle of an address                *)
(* (src/app/auth/throttle.py), as the sign-in form (src/app/api/auth.py)   *)
(* and the change-password form (src/app/api/users.py) use them.           *)
(*                                                                         *)
(* A request is a coroutine: others run at each of its awaits.  What it    *)
(* read of the address and of the account may be old when it acts on it.   *)
(* Each counting is one transaction.                                       *)
(***************************************************************************)
EXTENDS Naturals, FiniteSets

CONSTANTS
    Accounts,     \* rows of users
    Addresses,    \* where requests come from
    Requests,     \* requests in progress at the same time
    Nobody,       \* a user name without a row; the user of a trusted proxy
    Limit,        \* login_max_failed_attempts
    AddressLimit  \* address_max_failed_attempts

ASSUME LoginAssumption ==
    /\ Limit \in Nat \ {0} /\ AddressLimit \in Nat \ {0}
    /\ Nobody \notin Accounts
    /\ IsFiniteSet(Requests)

VARIABLES
    user,     \* the row of each account
    tally,    \* history: wrong passwords checked since the last success or unlock
    recent,   \* failures of each address that are still in the window
    blocked,  \* addresses whose block has not ended
    request

loginVars == <<user, tally, recent, blocked, request>>

-----------------------------------------------------------------------------
\* Data

UserSet == [row : {"active", "inactive", "deleted"}, failed : Nat, lockouts : Nat,
            waiting : BOOLEAN,  \* locked_until lies in the future
            locked : BOOLEAN]   \* is_locked
RequestSet == [stage : {"idle", "arrived", "wrong", "right", "refused"},
               form : {"login", "change"}, account : Accounts \union {Nobody},
               address : Addresses]
Idle(r) == [r EXCEPT !.stage = "idle", !.form = "login", !.account = Nobody]

NewUser == [row |-> "active", failed |-> 0, lockouts |-> 0, waiting |-> FALSE, locked |-> FALSE]

LoginInit ==
    /\ user = [a \in Accounts |-> NewUser]
    /\ tally = [a \in Accounts |-> 0]
    /\ recent = [d \in Addresses |-> 0]
    /\ blocked = [d \in Addresses |-> FALSE]
    /\ \E d \in Addresses :
         request = [r \in Requests |->
                      [stage |-> "idle", form |-> "login", account |-> Nobody, address |-> d]]

Is(a, state) == a \in Accounts /\ user[a].row = state

\* A slip: only the lock that ends by itself is looked at.
OnlyWaiting(a) == user[a].waiting

LockedOut(a) == user[a].locked \/ user[a].waiting

\* A slip: the count goes on after a lockout instead of starting again.
CountGoesOn(u) ==
    IF u.failed + 1 < Limit
      THEN [u EXCEPT !.failed = @ + 1]
      ELSE [u EXCEPT !.failed = @ + 1, !.lockouts = @ + 1,
                     !.locked = @ \/ u.lockouts >= 1,
                     !.waiting = @ \/ u.lockouts = 0]

\* The row after a wrong password: every Limit-th locks, and a second lockout
\* has no end.
AfterFailure(u) ==
    IF u.failed + 1 < Limit
      THEN [u EXCEPT !.failed = @ + 1]
      ELSE [row |-> u.row, failed |-> 0, lockouts |-> u.lockouts + 1,
            waiting |-> u.waiting \/ u.lockouts = 0,
            locked  |-> u.locked \/ u.lockouts >= 1]

\* A slip: a success lifts the lock an administrator has to lift.
LiftsLock(u) == [u EXCEPT !.failed = 0, !.lockouts = 0, !.waiting = FALSE, !.locked = FALSE]

AfterSuccess(u) == [u EXCEPT !.failed = 0, !.lockouts = 0, !.waiting = FALSE]

-----------------------------------------------------------------------------
\* Requests

\* A slip: the block is not looked at.
ArriveBlocked(r) ==
    /\ request[r].stage = "idle"
    /\ \E d \in Addresses, a \in Accounts \union {Nobody}, form \in {"login", "change"} :
         /\ form = "change" => a = Nobody \/ Is(a, "active")
         /\ request' = [request EXCEPT ![r] = [stage |-> "arrived", form |-> form,
                                               account |-> a, address |-> d]]
    /\ UNCHANGED <<user, tally, recent, blocked>>

\* The form is sent and the address is not blocked.  Changing a password takes
\* a session, whose user is looked up first.
Arrive(r) ==
    /\ request[r].stage = "idle"
    /\ \E d \in Addresses, a \in Accounts \union {Nobody}, form \in {"login", "change"} :
         /\ ~blocked[d]
         /\ form = "change" => a = Nobody \/ Is(a, "active")
         /\ request' = [request EXCEPT ![r] = [stage |-> "arrived", form |-> form,
                                               account |-> a, address |-> d]]
    /\ UNCHANGED <<user, tally, recent, blocked>>

\* The sign-in form finds no active account of that name.
FindNobody(r) ==
    /\ request[r].stage = "arrived" /\ request[r].form = "login"
    /\ ~Is(request[r].account, "active")
    /\ request' = [request EXCEPT ![r].stage = "refused"]
    /\ UNCHANGED <<user, tally, recent, blocked>>

\* The account is locked, and its password is not looked at; or the user of the
\* session has no row.
Refuse(r) ==
    /\ request[r].stage = "arrived"
    /\ \/ /\ request[r].form = "change"
          /\ request[r].account = Nobody \/ Is(request[r].account, "deleted")
       \/ /\ request[r].account \in Accounts
          /\ ~Is(request[r].account, "deleted")
          /\ request[r].form = "login" => Is(request[r].account, "active")
          /\ LockedOut(request[r].account)
    /\ request' = [request EXCEPT ![r] = Idle(@)]
    /\ UNCHANGED <<user, tally, recent, blocked>>

\* The row is read and the password is compared with it.
CheckPassword(r) ==
    /\ request[r].stage = "arrived"
    /\ request[r].account \in Accounts
    /\ \/ Is(request[r].account, "active")
       \/ (request[r].form = "change" /\ Is(request[r].account, "inactive"))
    /\ ~LockedOut(request[r].account)
    /\ \E result \in {"wrong", "right"} :
         request' = [request EXCEPT ![r].stage = result]
    /\ UNCHANGED <<user, tally, recent, blocked>>

\* lockout.record_failure.  Of a row deleted meanwhile nothing comes back, which
\* raises before the address is counted.
CountFailure(r) ==
    /\ request[r].stage = "wrong"
    /\ LET a == request[r].account IN
       IF Is(a, "deleted")
         THEN /\ request' = [request EXCEPT ![r] = Idle(@)]
              /\ UNCHANGED <<user, tally>>
         ELSE /\ request' = [request EXCEPT ![r].stage = "refused"]
              /\ user' = [user EXCEPT ![a] = AfterFailure(@)]
              /\ tally' = [tally EXCEPT ![a] = @ + 1]
    /\ UNCHANGED <<recent, blocked>>

\* A slip: the address is blocked but its count does not start again.
CountAddressOn(r) ==
    /\ request[r].stage = "refused"
    /\ LET d == request[r].address IN
         /\ recent' = [recent EXCEPT ![d] = @ + 1]
         /\ blocked' = [blocked EXCEPT ![d] = @ \/ recent[d] + 1 >= AddressLimit]
    /\ request' = [request EXCEPT ![r] = Idle(@)]
    /\ UNCHANGED <<user, tally>>

\* throttle.record_failure: the failure that reaches the limit blocks the address
\* and starts its count again.
CountAddress(r) ==
    /\ request[r].stage = "refused"
    /\ LET d == request[r].address IN
       IF recent[d] + 1 < AddressLimit
         THEN recent' = [recent EXCEPT ![d] = @ + 1] /\ UNCHANGED blocked
         ELSE recent' = [recent EXCEPT ![d] = 0] /\ blocked' = [blocked EXCEPT ![d] = TRUE]
    /\ request' = [request EXCEPT ![r] = Idle(@)]
    /\ UNCHANGED <<user, tally>>

\* lockout.record_success, committed with the rest of the answer.  A new password
\* that is too short ends the request without a commit: see BreakOff.
Succeed(r) ==
    /\ request[r].stage = "right"
    /\ LET a == request[r].account IN
         /\ user' = [user EXCEPT ![a] = IF Is(a, "deleted") THEN @ ELSE AfterSuccess(@)]
         /\ tally' = [tally EXCEPT ![a] = 0]
    /\ request' = [request EXCEPT ![r] = Idle(@)]
    /\ UNCHANGED <<recent, blocked>>

\* The request ends between two of its steps: the new password is too short, the
\* database stays locked, the server goes down.  Its transaction is rolled back.
BreakOff(r) ==
    /\ request[r].stage # "idle"
    /\ request' = [request EXCEPT ![r] = Idle(@)]
    /\ UNCHANGED <<user, tally, recent, blocked>>

-----------------------------------------------------------------------------
\* Administrators and time

UnlockUser(a) ==
    /\ user[a].row # "deleted"
    /\ user' = [user EXCEPT ![a] = [AfterSuccess(@) EXCEPT !.locked = FALSE]]
    /\ tally' = [tally EXCEPT ![a] = 0]
    /\ UNCHANGED <<recent, blocked, request>>

\* deactivate_user, activate_user, delete_user.
SetRow(a) ==
    /\ user[a].row # "deleted"
    /\ \E state \in {"active", "inactive", "deleted"} \ {user[a].row} :
         user' = [user EXCEPT ![a].row = state]
    /\ UNCHANGED <<tally, recent, blocked, request>>

\* Thirty minutes have passed.
LockEnds(a) ==
    /\ user[a].waiting
    /\ user' = [user EXCEPT ![a].waiting = FALSE]
    /\ UNCHANGED <<tally, recent, blocked, request>>

FailureAges(d) ==
    /\ recent[d] > 0
    /\ recent' = [recent EXCEPT ![d] = @ - 1]
    /\ UNCHANGED <<user, tally, blocked, request>>

BlockEnds(d) ==
    /\ blocked[d]
    /\ blocked' = [blocked EXCEPT ![d] = FALSE]
    /\ UNCHANGED <<user, tally, recent, request>>

LoginNext ==
    \/ \E r \in Requests :
         \/ Arrive(r) \/ FindNobody(r) \/ Refuse(r) \/ CheckPassword(r)
         \/ CountFailure(r) \/ CountAddress(r) \/ Succeed(r) \/ BreakOff(r)
    \/ \E a \in Accounts : UnlockUser(a) \/ SetRow(a) \/ LockEnds(a)
    \/ \E d \in Addresses : FailureAges(d) \/ BlockEnds(d)

LoginSpec == LoginInit /\ [][LoginNext]_loginVars

-----------------------------------------------------------------------------
\* Properties

LoginTypeOK ==
    /\ user \in [Accounts -> UserSet]
    /\ tally \in [Accounts -> Nat]
    /\ recent \in [Addresses -> 0 .. AddressLimit - 1]
    /\ blocked \in [Addresses -> BOOLEAN]
    /\ request \in [Requests -> RequestSet]

\* However many requests for an account overlap, every wrong password that was
\* checked is in its row: in the count, or as one of its lockouts
\* (lockout.record_failure counts and locks in one UPDATE).
FailuresAreCounted ==
    \A a \in Accounts :
      user[a].row # "deleted" => tally[a] = user[a].failed + Limit * user[a].lockouts

\* Between a success or an unlock and the next, an account answers no more wrong
\* passwords than the two lockouts allow and the requests that had read the row
\* before the second one (lockout.py: "a locked account cannot be guessed at").
GuessesAreBounded ==
    \A a \in Accounts : tally[a] < 2 * Limit + Cardinality(Requests)

\* A lock without an end is lifted by an administrator and by nothing else, not
\* even by a right password that was checked before it (lockout.py:
\* "permanently, until an admin unlocks it").
LockedUntilUnlocked ==
    [][\A a \in Accounts : user[a].locked /\ ~user'[a].locked => UnlockUser(a)]_loginVars

\* While an address is blocked the only failures that count are those of requests
\* that had passed the check before (throttle.blocked_seconds, and the count that
\* starts again with the block).
BlockStopsAddress ==
    \A d \in Addresses : blocked[d] => recent[d] < Cardinality(Requests)
=============================================================================
