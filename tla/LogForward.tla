------------------------------ MODULE LogForward ------------------------------
(***************************************************************************)
(* Log forwarding (app/log_forward.py, the log-forward calls in              *)
(* app/api/system.py).  Every handler has a bounded queue and a worker       *)
(* thread; (re)configuring closes the handler in use, without waiting for    *)
(* its worker, and may make another.  A test makes a handler for one line.   *)
(* Records are numbered in the order they are logged in; the collectors      *)
(* behind the network are external.                                          *)
(***************************************************************************)
EXTENDS Naturals, Sequences

CONSTANTS
  Handlers,    \* the handlers that are ever made
  NoHandler,
  MaxQueue,    \* _MAX_QUEUE
  MaxRecords   \* bound: records that are logged

ASSUME ForwardAssumption ==
  NoHandler \notin Handlers /\ MaxQueue \in Nat \ {0} /\ MaxRecords \in Nat

VARIABLES
  handler,  \* per handler: its queue, worker, socket, counters, and the lines that arrived
  current,  \* _handler
  tester,   \* the handler of the test under way or over, and what the test reported
  logged    \* how many records were logged

forwardVars == <<handler, current, tester, logged>>

Unused == [at |-> "unused", stop |-> FALSE, queue |-> <<>>, line |-> 0, sock |-> "none",
           sent |-> 0, errors |-> 0, arrived |-> <<>>, late |-> 0]
Fresh  == [Unused EXCEPT !.at = "check"]

\* The worker is before its loop's test, in get, connecting or sending, or has left.
ForwardTypeOK ==
  /\ handler \in [Handlers ->
       [at : {"unused", "check", "get", "connect", "send", "end"}, stop : BOOLEAN,
        queue : Seq(1..MaxRecords), line : 0..MaxRecords, sock : {"none", "open", "closed"},
        sent : 0..MaxRecords, errors : 0..MaxRecords,
        arrived : Seq(1..MaxRecords), late : Nat]]
  /\ \A h \in Handlers : Len(handler[h].queue) <= MaxQueue
  /\ current \in Handlers \cup {NoHandler}
  /\ tester \in [of : Handlers \cup {NoHandler}, said : {"nothing", "ok", "not ok"}]
  /\ logged \in 0..MaxRecords

ForwardInit ==
  /\ handler = [h \in Handlers |-> Unused]
  /\ current = NoHandler
  /\ tester = [of |-> NoHandler, said |-> "nothing"]
  /\ logged = 0
-----------------------------------------------------------------------------
\* emit: a full queue drops the record.
Queued(h, r) == IF Len(handler[h].queue) < MaxQueue THEN Append(handler[h].queue, r)
                 ELSE handler[h].queue

\* A record is logged while a handler is attached.
Log ==
  /\ current # NoHandler /\ logged < MaxRecords
  /\ handler' = [handler EXCEPT ![current].queue = Queued(current, logged + 1)]
  /\ logged' = logged + 1
  /\ UNCHANGED <<current, tester>>

\* close: the stop flag, and the socket if there is one at this moment.
Closed(h) == [handler[h] EXCEPT !.stop = TRUE, !.sock = IF @ = "open" THEN "closed" ELSE @]

\* configure_forwarding closes the handler in use and may make another.
Replaced(new) ==
  [h \in Handlers |-> IF h = current THEN Closed(h) ELSE IF h = new THEN Fresh ELSE handler[h]]

\* POST /api/system/log-forward/reload, and the start of the server: forwarding is off, or
\* goes through a new handler.  It runs in the event loop, at once.
Configure(new) ==
  /\ new \in {NoHandler} \cup {h \in Handlers : handler[h].at = "unused"}
  /\ new # current
  /\ handler' = Replaced(new)
  /\ current' = new
  /\ UNCHANGED <<tester, logged>>

\* send_test_message: a handler of its own with one record in it.
StartTest(h) ==
  /\ tester.of = NoHandler /\ handler[h].at = "unused" /\ logged < MaxRecords
  /\ handler' = [handler EXCEPT ![h] = [Fresh EXCEPT !.queue = <<logged + 1>>]]
  /\ tester' = [of |-> h, said |-> "nothing"]
  /\ logged' = logged + 1
  /\ UNCHANGED current

\* A slip in the test's verdict: the line left the queue and nothing went wrong.
NothingWrong(h) == handler[h].errors = 0

Delivered(h) == handler[h].sent > 0 /\ handler[h].errors = 0

\* The test looks once the queue is empty, the line still in the worker's hand perhaps,
\* or after two seconds; then it closes the handler.
ReportTest ==
  /\ tester.of # NoHandler /\ tester.said = "nothing"
  /\ tester' = [tester EXCEPT !.said = IF Delivered(tester.of) THEN "ok" ELSE "not ok"]
  /\ handler' = [handler EXCEPT ![tester.of] = Closed(tester.of)]
  /\ UNCHANGED <<current, logged>>
-----------------------------------------------------------------------------
(* The worker *)

\* A slip: the worker empties the queue before it looks at the stop flag.
LeaveWhenEmpty(h) ==
  /\ handler[h].at = "check"
  /\ handler' = [handler EXCEPT ![h].at = IF handler[h].stop /\ handler[h].queue = <<>> THEN "end" ELSE "get"]
  /\ UNCHANGED <<current, tester, logged>>

LookAtStop(h) ==
  /\ handler[h].at = "check"
  /\ handler' = [handler EXCEPT ![h].at = IF handler[h].stop THEN "end" ELSE "get"]
  /\ UNCHANGED <<current, tester, logged>>

\* get returns the oldest line, or gives up after half a second.
Get(h) ==
  /\ handler[h].at = "get"
  /\ handler' = [handler EXCEPT ![h] =
       IF @.queue = <<>> THEN [@ EXCEPT !.at = "check"]
       ELSE [@ EXCEPT !.at = IF handler[h].sock = "none" THEN "connect" ELSE "send",
                      !.line = Head(handler[h].queue), !.queue = Tail(handler[h].queue)]]
  /\ UNCHANGED <<current, tester, logged>>

\* A slip in the error path: the line is put back to be sent again.
PutBack(h) ==
  handler' = [handler EXCEPT ![h] =
    [@ EXCEPT !.at = "check", !.line = 0, !.sock = "none",
              !.queue = IF Len(@) < MaxQueue THEN Append(@, handler[h].line) ELSE @,
              !.errors = IF @ < MaxRecords THEN @ + 1 ELSE @]]

\* An error is counted, the line is given up, and the next line connects anew.
GiveUp(h) ==
  handler' = [handler EXCEPT ![h] =
    [@ EXCEPT !.at = "check", !.line = 0, !.sock = "none", !.errors = handler[h].errors + 1]]

\* A connection made after close looked for one is closed by nobody.
Connect(h) ==
  /\ handler[h].at = "connect"
  /\ \/ handler' = [handler EXCEPT ![h] = [@ EXCEPT !.at = "send", !.sock = "open"]]
     \/ GiveUp(h)
  /\ UNCHANGED <<current, tester, logged>>

\* Handed to the network, the line arrives or is lost on the way; that the default, UDP,
\* may also deliver lines in another order or twice is left out.
SendLine(h) ==
  /\ handler[h].at = "send" /\ handler[h].sock = "open"
  /\ \E arrives \in BOOLEAN :
       handler' = [handler EXCEPT ![h] =
         [@ EXCEPT !.at = "check", !.line = 0, !.sent = handler[h].sent + 1,
            !.arrived = IF arrives THEN Append(handler[h].arrived, handler[h].line)
                        ELSE handler[h].arrived,
            !.late = handler[h].late + (IF arrives /\ handler[h].stop THEN 1 ELSE 0)]]
  /\ UNCHANGED <<current, tester, logged>>

\* Sending fails: on a socket that was closed, or in the network.
SendFails(h) == handler[h].at = "send" /\ GiveUp(h) /\ UNCHANGED <<current, tester, logged>>

ForwardNext ==
  \/ Log \/ ReportTest
  \/ \E h \in Handlers \cup {NoHandler} : Configure(h)
  \/ \E h \in Handlers : \/ StartTest(h) \/ LookAtStop(h) \/ Get(h)
                         \/ Connect(h) \/ SendLine(h) \/ SendFails(h)

ForwardSpec == ForwardInit /\ [][ForwardNext]_forwardVars
-----------------------------------------------------------------------------
Increasing(s) == \A i, k \in DOMAIN s : i < k => s[i] < s[k]

\* Over a network that keeps the order and repeats nothing, as TCP does:
\* what a collector gets of one handler is in the order it was logged in, nothing twice,
\* and at most one line of it comes after the handler was replaced: the one its worker
\* took as it was closed.  No record comes through two handlers.  A test that says ok
\* has handed its line to the network.
CollectorSeesOrder ==
  /\ \A h \in Handlers : Increasing(handler[h].arrived) /\ handler[h].late <= 1
  /\ \A g, h \in Handlers : \A i \in DOMAIN handler[g].arrived, k \in DOMAIN handler[h].arrived :
       handler[g].arrived[i] = handler[h].arrived[k] => g = h
  /\ tester.said = "ok" => handler[tester.of].sent = 1
=============================================================================
