------------------------------ MODULE LogBuffer -------------------------------
(***************************************************************************)
(* The log kept for the Logs page (app/logging_handler.py, the table         *)
(* app_logs, DELETE /api/logs): records are queued where they are logged,    *)
(* and a thread writes what it finds in the queue every two seconds, in one   *)
(* transaction that trims the table.  At the end of the lifespan stop waits   *)
(* for the thread.  Records are numbered in the order they are logged in.     *)
(***************************************************************************)
EXTENDS Naturals, Sequences, SequencesExt

CONSTANTS
  MaxRows,      \* _MAX_ROWS
  MaxLogged,    \* bound: records that are logged
  MaxTroubles   \* bound: failed writes, joins that time out

ASSUME BufferAssumption ==
  MaxRows \in Nat \ {0} /\ MaxLogged \in Nat /\ MaxTroubles \in Nat

VARIABLES
  pending,   \* the handler's queue
  batch,     \* what the thread took from it
  rows,      \* app_logs, oldest first
  thread,    \* where the thread is
  server,    \* the lifespan: up, in stop, past it
  kept,      \* history: how many records were logged, and before stop was called
  missing,   \* history: records of failed writes, cleared or trimmed rows
  troubles

bufferVars == <<pending, batch, rows, thread, server, kept, missing, troubles>>

Records == 1..MaxLogged

\* The thread waits, writes, drains once more because of stop, writes that, or has left.
BufferTypeOK ==
  /\ pending \in Seq(Records) /\ batch \in Seq(Records) /\ rows \in Seq(Records)
  /\ thread \in {"wait", "write", "last", "last write", "left"}
  /\ server \in {"up", "stopping", "stopped", "gave up"}
  /\ kept \in [all : 0..MaxLogged, before : 0..MaxLogged]
  /\ missing \in [failed : SUBSET Records, cleared : SUBSET Records, trimmed : SUBSET Records]
  /\ troubles \in 0..MaxTroubles

BufferInit ==
  /\ pending = <<>> /\ batch = <<>> /\ rows = <<>>
  /\ thread = "wait" /\ server = "up"
  /\ kept = [all |-> 0, before |-> 0]
  /\ missing = [failed |-> {}, cleared |-> {}, trimmed |-> {}]
  /\ troubles = 0
-----------------------------------------------------------------------------
\* emit; the lifespan logs after stop too.
LogRecord ==
  /\ kept.all < MaxLogged
  /\ pending' = Append(pending, kept.all + 1)
  /\ kept' = [all |-> kept.all + 1,
              before |-> IF server = "up" THEN kept.all + 1 ELSE kept.before]
  /\ UNCHANGED <<batch, rows, thread, server, missing, troubles>>

\* The thread's wait ends, after two seconds or because of stop, and it empties the queue.
Drain ==
  /\ thread \in {"wait", "last"}
  /\ batch' = pending /\ pending' = <<>>
  /\ thread' = IF thread = "wait" THEN "write" ELSE "last write"
  /\ UNCHANGED <<rows, server, kept, missing, troubles>>

\* The DELETE of a transaction that made the table all: with OFFSET MaxRows - 1 the
\* newest row it removes is the MaxRows-th, so a table that was full keeps one less.
Trimmed(all) == IF Len(all) < MaxRows THEN all ELSE SubSeq(all, Len(all) - MaxRows + 2, Len(all))

\* A slip in _flush_loop: without the drain after the loop.
LeaveAtOnce == IF server = "up" THEN "wait" ELSE "left"

\* The loop's test comes after the drain; one more drain follows the loop.
AfterWrite == IF thread = "last write" THEN "left" ELSE IF server = "up" THEN "wait" ELSE "last"

WriteBatch ==
  /\ thread \in {"write", "last write"}
  /\ LET all == rows \o batch
     IN /\ rows' = IF batch = <<>> THEN rows ELSE Trimmed(all)
        /\ missing' = [missing EXCEPT !.trimmed = @ \cup (ToSet(all) \ ToSet(rows'))]
  /\ batch' = <<>>
  /\ thread' = AfterWrite
  /\ UNCHANGED <<pending, server, kept, troubles>>

\* The database is locked, or app_logs is not there before the first migration: the
\* batch is printed about, and gone.
WriteFails ==
  /\ thread \in {"write", "last write"} /\ batch # <<>> /\ troubles < MaxTroubles
  /\ missing' = [missing EXCEPT !.failed = @ \cup ToSet(batch)]
  /\ batch' = <<>>
  /\ thread' = AfterWrite
  /\ troubles' = troubles + 1
  /\ UNCHANGED <<pending, rows, server, kept>>

\* DELETE /api/logs
ClearLogs ==
  /\ server = "up" /\ rows # <<>>
  /\ missing' = [missing EXCEPT !.cleared = @ \cup ToSet(rows)]
  /\ rows' = <<>>
  /\ UNCHANGED <<pending, batch, thread, server, kept, troubles>>

\* stop: the event that ends the thread's wait, then a join of at most ten seconds.
StopLogging ==
  /\ server = "up"
  /\ server' = "stopping"
  /\ UNCHANGED <<pending, batch, rows, thread, kept, missing, troubles>>

JoinReturns ==
  /\ server = "stopping" /\ thread = "left"
  /\ server' = "stopped"
  /\ UNCHANGED <<pending, batch, rows, thread, kept, missing, troubles>>

JoinTimesOut ==
  /\ server = "stopping" /\ thread # "left" /\ troubles < MaxTroubles
  /\ server' = "gave up"
  /\ troubles' = troubles + 1
  /\ UNCHANGED <<pending, batch, rows, thread, kept, missing>>

BufferNext ==
  \/ LogRecord \/ Drain \/ WriteBatch \/ WriteFails \/ ClearLogs
  \/ StopLogging \/ JoinReturns \/ JoinTimesOut

BufferSpec == BufferInit /\ [][BufferNext]_bufferVars
-----------------------------------------------------------------------------
\* The table is in the order of logging, never over its limit, and what was trimmed is
\* older than everything that stays.  When stop has waited for the thread, every record
\* logged before stop was called is in the table, unless its write failed or it was
\* trimmed or cleared: also one that was queued while the thread was writing.
LogIsKept ==
  /\ Len(rows) <= MaxRows
  /\ \A i, k \in DOMAIN rows : i < k => rows[i] < rows[k]
  /\ \A r \in missing.trimmed, i \in DOMAIN rows : r < rows[i]
  /\ server = "stopped" =>
       1..kept.before \subseteq ToSet(rows) \cup missing.failed \cup missing.cleared \cup missing.trimmed
=============================================================================
