---------------------------- MODULE AsyncLogger ----------------------------
(***************************************************************************)
(* The background log writer (core/async_logger.py): log() puts an entry   *)
(* in a queue, one worker task writes the entries to their files, stop()   *)
(* asks the worker to drain the queue, waits for that for three seconds,   *)
(* and cancels the worker if it is still there.                            *)
(*                                                                         *)
(* Entries are numbered in the order of the log() calls.                   *)
(***************************************************************************)
EXTENDS Naturals, Sequences, Functions

CONSTANTS
    MaxLogs,        \* bound: log() calls
    WritesMayFail   \* whether opening or writing a log file may raise

ASSUME LoggerAssumption == MaxLogs \in Nat /\ WritesMayFail \in BOOLEAN

VARIABLES
    logged,      \* number of log() calls so far
    queue,       \* entries waiting
    unfinished,  \* the count that queue.join() waits for
    worker,      \* where the worker task stands
    entry,       \* the entry it is writing; 0: none
    stop_event,  \* _stop_event
    stopper,     \* where the current or latest call of stop() stands
    due,         \* entries logged before the first stop()
    gave_up,     \* some stop() has given up waiting for the queue
    written,     \* the entries in the files, in the order they were written
    lost         \* entries whose write failed or was interrupted

logVars == <<logged, queue, unfinished, worker, entry, stop_event, stopper, due, gave_up, written, lost>>

\* waiting: in wait_for(queue.get(), 1.0).  cancelling: cancel() was called and the
\* CancelledError is not yet delivered.
WorkerStates == {"waiting", "writing", "cancelling", "done", "cancelled"}

Ended == {"done", "cancelled"}

\* raised: stop() has ended with the worker's CancelledError.
StopperStates == {"idle", "joining", "awaiting", "returned", "raised"}

-----------------------------------------------------------------------------
(* log                                                                     *)

\* n calls of log(), within the bound.
Log(n) ==
    /\ logged + n <= MaxLogs
    /\ logged' = logged + n
    /\ queue' = queue \o [i \in 1..n |-> logged + i]
    /\ unfinished' = unfinished + n

-----------------------------------------------------------------------------
(* The worker                                                              *)

\* The top of the worker's loop: it ends when it was told to stop and the queue is
\* empty, takes the next entry if there is one, waits otherwise.
NextEntry ==
    IF queue # <<>>
    THEN /\ worker' = "writing"
         /\ entry' = Head(queue)
         /\ queue' = Tail(queue)
    ELSE /\ worker' = IF stop_event THEN "done" ELSE "waiting"
         /\ entry' = 0
         /\ UNCHANGED queue

\* wait_for ends: get() returned an entry, or a second has passed.
WorkerWakes ==
    /\ worker = "waiting"
    /\ queue # <<>> \/ stop_event
    /\ NextEntry
    /\ UNCHANGED <<logged, unfinished, stop_event, stopper, due, gave_up, written, lost>>

\* Mutant of WriteEnds: task_done() is only called after a successful write.
WriteEndsDoneIfWritten ==
    /\ worker = "writing"
    /\ \/ written' = Append(written, entry) /\ unfinished' = unfinished - 1 /\ UNCHANGED lost
       \/ WritesMayFail /\ lost' = lost \cup {entry} /\ UNCHANGED <<written, unfinished>>
    /\ NextEntry
    /\ UNCHANGED <<logged, stop_event, stopper, due, gave_up>>

\* _write_log_item ends, with task_done() in any case, and the loop goes round.
WriteEnds ==
    /\ worker = "writing"
    /\ unfinished' = unfinished - 1
    /\ \/ written' = Append(written, entry) /\ UNCHANGED lost
       \/ WritesMayFail /\ lost' = lost \cup {entry} /\ UNCHANGED written
    /\ NextEntry
    /\ UNCHANGED <<logged, stop_event, stopper, due, gave_up>>

\* CancelledError reaches the worker: at the get(), or at the write, which the file
\* thread may or may not still complete; task_done() runs then too.
WorkerCancelled ==
    /\ worker = "cancelling"
    /\ worker' = "cancelled"
    /\ entry' = 0
    /\ IF entry = 0
       THEN UNCHANGED <<unfinished, written, lost>>
       ELSE /\ unfinished' = unfinished - 1
            /\ \/ written' = Append(written, entry) /\ UNCHANGED lost
               \/ lost' = lost \cup {entry} /\ UNCHANGED written
    /\ UNCHANGED <<logged, queue, stop_event, stopper, due, gave_up>>

-----------------------------------------------------------------------------
(* stop                                                                    *)

\* The caller may have logged something in the same step.
StopBegins ==
    /\ stopper \in {"idle", "returned"}
    /\ stopper' = "joining"
    /\ stop_event' = TRUE
    /\ due' = IF stop_event THEN due ELSE logged'
    /\ UNCHANGED <<worker, entry, gave_up, written, lost>>

\* Mutant of StopJoined: the worker is cancelled without waiting for the queue.
StopWithoutJoin ==
    /\ stopper = "joining"
    /\ IF worker \in Ended
       THEN stopper' = "returned" /\ UNCHANGED worker
       ELSE stopper' = "awaiting" /\ worker' = "cancelling"
    /\ UNCHANGED <<logged, queue, unfinished, entry, stop_event, due, gave_up, written, lost>>

\* wait_for(queue.join(), 3.0) is over: the queue is drained, or the time is up.
StopJoined ==
    /\ stopper = "joining"
    /\ gave_up' = (gave_up \/ unfinished > 0)
    /\ IF worker \in Ended
       THEN stopper' = "returned" /\ UNCHANGED worker
       ELSE stopper' = "awaiting" /\ worker' = "cancelling"
    /\ UNCHANGED <<logged, queue, unfinished, entry, stop_event, due, written, lost>>

\* await self._worker_task: the worker's CancelledError comes out of it.
StopAwaited ==
    /\ stopper = "awaiting"
    /\ worker \in Ended
    /\ stopper' = IF worker = "cancelled" THEN "raised" ELSE "returned"
    /\ UNCHANGED <<logged, queue, unfinished, worker, entry, stop_event, due, gave_up, written, lost>>

logInit ==
    /\ logged = 0
    /\ queue = <<>>
    /\ unfinished = 0
    /\ worker = "waiting"
    /\ entry = 0
    /\ stop_event = FALSE
    /\ stopper = "idle"
    /\ due = 0
    /\ gave_up = FALSE
    /\ written = <<>>
    /\ lost = {}

logTasks == WorkerWakes \/ WriteEnds \/ WorkerCancelled \/ StopJoined \/ StopAwaited

-----------------------------------------------------------------------------
(* Properties                                                              *)

\* The types of the logger's fields and of its tasks' local state.
LogTypeOK ==
    /\ logged \in Nat
    /\ queue \in Seq(1..logged)
    /\ unfinished \in Nat
    /\ worker \in WorkerStates
    /\ entry \in 0..logged
    /\ stop_event \in BOOLEAN
    /\ stopper \in StopperStates
    /\ due \in 0..logged
    /\ gave_up \in BOOLEAN
    /\ written \in Seq(1..logged)
    /\ lost \subseteq 1..logged

\* join() counts what is really outstanding, the entry being written included, also
\* after a failed write and after a cancellation: it never returns early and never
\* hangs on an entry that is finished.
JoinCountsOutstanding == unfinished = Len(queue) + (IF entry = 0 THEN 0 ELSE 1)

\* The files hold the entries in the order of the log() calls and none twice, and
\* whatever is still in the worker's hands or in the queue comes after them.
WrittenInOrder ==
    LET line == written \o (IF entry = 0 THEN <<>> ELSE <<entry>>) \o queue
    IN  \A i, j \in DOMAIN line : i < j => line[i] < line[j]

\* No entry vanishes: each is written, waiting, being written, or was lost by a
\* write that failed or was interrupted.
NothingVanishes ==
    1..logged = Range(written) \cup Range(queue) \cup lost \cup ({entry} \ {0})

\* The queue, the worker, its count and the files agree about every entry, through
\* failed writes, stops, cancellations and whatever is logged meanwhile.
EntriesAccountedFor == NothingVanishes /\ WrittenInOrder /\ JoinCountsOutstanding

\* A stop() that ends without having given up on the queue has flushed it: what was
\* logged before it was called is in the files, unless its write failed.
StopFlushes ==
    stopper \in {"returned", "raised"} /\ ~gave_up => 1..due \subseteq Range(written) \cup lost
=============================================================================
