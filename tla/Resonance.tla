------------------------------ MODULE Resonance -------------------------------
(***************************************************************************)
(* The rate limiter and the circuit breaker of the Resonance widget        *)
(* (src/app/integrations/resonance/limiter.py) as the routes that mint     *)
(* codes, test a key and report a broken page use them                     *)
(* (src/app/api/resonance.py).                                             *)
(*                                                                         *)
(* Both live in the database, so they outlive the server and are shared by *)
(* its workers.  A call is a coroutine with a connection of its own:       *)
(* between any two of its statements others run, and what it has read may  *)
(* be old.  Time is a choice: a window may be over whenever a call counts, *)
(* a pause ends by an action.                                              *)
(***************************************************************************)
EXTENDS Naturals, FiniteSets

CONSTANTS
    Users,               \* accounts that may use the widget
    Everybody,           \* owner of the bucket all codes count in
    Calls,               \* HTTP requests in progress at the same time
    Watched,             \* any bucket: the one whose requests the history counts
    UserLimit, GlobalLimit, TestLimit, ReportLimit,
    TransientThreshold,  \* TRANSIENT_FAILURE_THRESHOLD
    MaxCount,            \* bound: requests counted in a window
    MaxFailures          \* bound: consecutive failures

CONFIG_FAILURE_THRESHOLD == 2

\* What is counted together: a user's codes, tests or reports, and all codes.
Buckets == (Users \X {"code", "test", "report"}) \union {<<Everybody, "code">>}

ASSUME ResonanceAssumption ==
    /\ {UserLimit, GlobalLimit, TestLimit, ReportLimit} \subseteq Nat \ {0}
    /\ TransientThreshold \in Nat /\ TransientThreshold > CONFIG_FAILURE_THRESHOLD
    /\ MaxCount \in Nat /\ MaxFailures \in Nat
    /\ Everybody \notin Users /\ Watched \in Buckets
    /\ IsFiniteSet(Calls) /\ Calls # {}

VARIABLES
    call,      \* each request
    rate,      \* resonance_rate: what each bucket has counted, 0 without a row
    breaker,   \* the row of resonance_breaker
    passed,    \* history: requests the watched bucket let through in its window
    unheeded,  \* history: config failures since the last success that opened nothing
    knocks     \* history: codes asked of Resonance since the breaker opened

resonanceVars == <<call, rate, breaker, passed, unheeded, knocks>>

-----------------------------------------------------------------------------
\* Data

LimitOf(b) ==
    CASE b[2] = "test"   -> TestLimit
      [] b[2] = "report" -> ReportLimit
      [] b[1] = Everybody -> GlobalLimit
      [] OTHER -> UserLimit

CallSet == [stage : {"idle", "due", "counted", "unchecked", "cleared", "calling",
                     "answered", "refused", "writing"},
            bucket : Buckets,
            config : BOOLEAN,  \* the failure is one that retrying cannot fix
            read : Nat]        \* consecutive_failures when it was read
Done(b) == [stage |-> "idle", bucket |-> b, config |-> FALSE, read |-> 0]
Over(r) == [call EXCEPT ![r] = Done(<<Everybody, "code">>)]

ResonanceInit ==
    /\ call = [r \in Calls |-> Done(<<Everybody, "code">>)]
    /\ rate = [b \in Buckets |-> 0]
    /\ breaker = [failures |-> 0, open |-> FALSE]
    /\ passed = 0
    /\ unheeded = 0
    /\ knocks = 0

In(r, stage) == call[r].stage = stage
MovesTo(r, stage) == call' = [call EXCEPT ![r].stage = stage]

-----------------------------------------------------------------------------
\* The limiter

\* A browser asks for a code, an administrator tests a key, or a page says that
\* the widget did not load.
Knock(r) ==
    /\ In(r, "idle")
    /\ \E u \in Users, kind \in {"code", "test", "report"} :
         call' = [call EXCEPT ![r] = [Done(<<u, kind>>) EXCEPT !.stage = "due"]]
    /\ UNCHANGED <<rate, breaker, passed, unheeded, knocks>>

\* consume, the statement that counts: in the window of the bucket, or as the
\* first of a new one.
CountKnock(r) ==
    /\ In(r, "due")
    /\ LET b == call[r].bucket IN
       \/ /\ rate[b] < MaxCount
          /\ rate' = [rate EXCEPT ![b] = @ + 1]
          /\ UNCHANGED passed
       \/ /\ rate' = [rate EXCEPT ![b] = 1]
          /\ passed' = IF b = Watched THEN 0 ELSE passed
    /\ MovesTo(r, "counted")
    /\ UNCHANGED <<breaker, unheeded, knocks>>

\* A slip: the request that goes over the limit is let through.
OverByOne(b) == rate[b] > LimitOf(b) + 1

OverLimit(b) == rate[b] > LimitOf(b)

\* Where a request goes that its bucket lets through: a code from its user's
\* bucket to the one of all codes and then to the breaker, a test straight to
\* Resonance, a report nowhere.
NextCheck(b) ==
    CASE b[2] = "report" -> Done(<<Everybody, "code">>)
      [] b[2] = "test"   -> [Done(b) EXCEPT !.stage = "calling"]
      [] b[1] = Everybody -> [Done(b) EXCEPT !.stage = "unchecked"]
      [] OTHER -> [Done(<<Everybody, "code">>) EXCEPT !.stage = "due"]

\* consume, the statement that reads the count back.
LetThrough(r) ==
    /\ In(r, "counted")
    /\ LET b == call[r].bucket IN
         /\ ~OverLimit(b)
         /\ passed' = IF b = Watched THEN passed + 1 ELSE passed
         /\ call' = [call EXCEPT ![r] = NextCheck(b)]
    /\ UNCHANGED <<rate, breaker, unheeded, knocks>>

TooMany(r) ==
    /\ In(r, "counted")
    /\ OverLimit(call[r].bucket)
    /\ call' = Over(r)
    /\ UNCHANGED <<rate, breaker, passed, unheeded, knocks>>

-----------------------------------------------------------------------------
\* The breaker

\* A slip: the breaker is not asked.
Unasked(r) ==
    /\ In(r, "unchecked")
    /\ MovesTo(r, "cleared")
    /\ UNCHANGED <<rate, breaker, passed, unheeded, knocks>>

\* assert_closed.
FindClosed(r) ==
    /\ In(r, "unchecked")
    /\ ~breaker.open
    /\ MovesTo(r, "cleared")
    /\ UNCHANGED <<rate, breaker, passed, unheeded, knocks>>

FindOpen(r) ==
    /\ In(r, "unchecked")
    /\ breaker.open
    /\ call' = Over(r)
    /\ UNCHANGED <<rate, breaker, passed, unheeded, knocks>>

\* create_session leaves for Resonance, once the settings have been read.
CreateSession(r) ==
    /\ In(r, "cleared")
    /\ MovesTo(r, "calling")
    /\ knocks' = IF breaker.open THEN knocks + 1 ELSE knocks
    /\ UNCHANGED <<rate, breaker, passed, unheeded>>

Accepted(r) ==
    /\ In(r, "calling")
    /\ MovesTo(r, "answered")
    /\ UNCHANGED <<rate, breaker, passed, unheeded, knocks>>

\* Resonance refuses the key, answers something else, or does not answer.  A test
\* that fails leaves no trace.
Rejected(r) ==
    /\ In(r, "calling")
    /\ IF call[r].bucket[2] = "test"
         THEN call' = Over(r)
         ELSE \E config \in BOOLEAN :
                call' = [call EXCEPT ![r] = [@ EXCEPT !.stage = "refused", !.config = config]]
    /\ UNCHANGED <<rate, breaker, passed, unheeded, knocks>>

\* record_success, of a code and of a test.
RecordSuccess(r) ==
    /\ In(r, "answered")
    /\ breaker' = [failures |-> 0, open |-> FALSE]
    /\ unheeded' = 0
    /\ knocks' = 0
    /\ call' = Over(r)
    /\ UNCHANGED <<rate, passed>>

\* record_failure, the statement that reads the count.
ReadFailures(r) ==
    /\ In(r, "refused")
    /\ call' = [call EXCEPT ![r] = [@ EXCEPT !.stage = "writing", !.read = breaker.failures]]
    /\ UNCHANGED <<rate, breaker, passed, unheeded, knocks>>

\* A slip: every failure is taken for one that clears by itself.
AllTransient(config) == TransientThreshold

Threshold(config) == IF config THEN CONFIG_FAILURE_THRESHOLD ELSE TransientThreshold

\* record_failure, the statement that writes the count it has read, plus one.
WriteFailure(r) ==
    /\ In(r, "writing")
    /\ LET failures == call[r].read + 1
           opens == failures >= Threshold(call[r].config)
       IN  /\ failures <= MaxFailures
           /\ breaker' = [failures |-> failures, open |-> breaker.open \/ opens]
           /\ unheeded' = IF call[r].config /\ ~opens THEN unheeded + 1 ELSE unheeded
    /\ call' = Over(r)
    /\ UNCHANGED <<rate, passed, knocks>>

\* open_until has passed.  The count of failures stays.
PauseEnds ==
    /\ breaker.open
    /\ breaker' = [breaker EXCEPT !.open = FALSE]
    /\ knocks' = 0
    /\ UNCHANGED <<call, rate, passed, unheeded>>

\* The request ends between two statements: the database stays locked, the worker
\* goes down.
GivenUp(r) ==
    /\ ~In(r, "idle")
    /\ call' = Over(r)
    /\ UNCHANGED <<rate, breaker, passed, unheeded, knocks>>

ResonanceNext ==
    \/ \E r \in Calls :
         \/ Knock(r) \/ CountKnock(r) \/ LetThrough(r) \/ TooMany(r)
         \/ FindClosed(r) \/ FindOpen(r) \/ CreateSession(r) \/ Accepted(r) \/ Rejected(r)
         \/ RecordSuccess(r) \/ ReadFailures(r) \/ WriteFailure(r) \/ GivenUp(r)
    \/ PauseEnds

ResonanceSpec == ResonanceInit /\ [][ResonanceNext]_resonanceVars

-----------------------------------------------------------------------------
\* Properties

\* Only codes ask the breaker, and only they and tests reach Resonance.
ResonanceTypeOK ==
    /\ call \in [Calls -> CallSet]
    /\ \A r \in Calls :
         /\ call[r].stage \in {"unchecked", "cleared", "refused", "writing"} =>
              call[r].bucket = <<Everybody, "code">>
         /\ call[r].stage \in {"calling", "answered"} =>
              call[r].bucket = <<Everybody, "code">> \/ call[r].bucket[2] = "test"
    /\ rate \in [Buckets -> Nat]
    /\ breaker \in [failures : 0 .. MaxFailures, open : BOOLEAN]
    /\ passed \in Nat /\ unheeded \in Nat /\ knocks \in Nat

\* The limiter is "slightly racy under concurrency by design": a window lets
\* through no more than its limit and the requests that were under way when it
\* began (limiter.consume, which counts in one statement and looks in another).
RateIsBounded == passed < LimitOf(Watched) + Cardinality(Calls)

\* Between two successes, the failures that retrying cannot fix leave the breaker
\* closed at most once for each request in progress, however many read the same
\* count before one wrote it (limiter.record_failure: two are enough, when the
\* second comes after the first).
ConfigFailuresOpen == unheeded <= Cardinality(Calls)

\* While the breaker is open Resonance hears of no code but those of requests that
\* had found it closed (limiter.assert_closed, and the settings read after it).
PauseIsKept == breaker.open => knocks < Cardinality(Calls)

\* The breaker opens, and keeps Resonance undisturbed, but for requests that overlap.
BreakerIsHeeded == ConfigFailuresOpen /\ PauseIsKept
=============================================================================
