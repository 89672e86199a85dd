------------------------------- MODULE Outputs -------------------------------
(***************************************************************************)
(* An output plugin (output/base.py) with a database behind it (mysql.py,  *)
(* postgresql.py): CyanideLogger.log_event emits events into a bounded     *)
(* queue, a worker thread takes them out, gathers a batch and flushes it,  *)
(* and stop() gives the worker five seconds before it closes the           *)
(* connection.  The three run in threads of their own: between any two     *)
(* looks at running and at the queue the others may step in.               *)
(*                                                                         *)
(* Events are numbered in the order of log_event.                          *)
(***************************************************************************)
EXTENDS Integers, Sequences, Functions

CONSTANTS
    MaxEvents,      \* bound: events
    QueueSize,      \* maxsize of the queue; 10000 in the code
    BatchSize       \* batch_size of the plugin

ASSUME OutputsAssumption == MaxEvents \in Nat /\ QueueSize \in Nat \ {0} /\ BatchSize \in Nat \ {0}

VARIABLES
    emitted,        \* events so far
    running,
    emitting,       \* the event between emit's test of running and its put; 0: none
    oqueue,         \* the queue
    accepted,       \* history: events that were put into the queue
    thread,         \* where the worker thread is
    batch,          \* its batch
    overdue,        \* batch_timeout has passed since last_flush
    rows,           \* the events in the database
    dropped,        \* events whose write failed
    stopping        \* where stop() is

outVars == <<emitted, running, emitting, oqueue, accepted, thread, batch, overdue, rows, dropped, stopping>>

OutputsInit ==
    /\ emitted = 0
    /\ running = TRUE
    /\ emitting = 0
    /\ oqueue = <<>>
    /\ accepted = {}
    /\ thread = "loop"
    /\ batch = <<>>
    /\ overdue = FALSE
    /\ rows = <<>>
    /\ dropped = {}
    /\ stopping = "no"

\* emit: running is looked at first,
Emit ==
    /\ emitted < MaxEvents /\ emitting = 0
    /\ emitted' = emitted + 1
    /\ emitting' = IF running THEN emitted + 1 ELSE 0
    /\ UNCHANGED <<running, oqueue, accepted, thread, batch, rows, dropped, stopping, overdue>>

\* and then the event is put into the queue, or dropped where that is full.
Put ==
    /\ emitting # 0
    /\ emitting' = 0
    /\ IF Len(oqueue) < QueueSize
       THEN oqueue' = Append(oqueue, emitting) /\ accepted' = accepted \cup {emitting}
       ELSE UNCHANGED <<oqueue, accepted>>
    /\ UNCHANGED <<emitted, running, thread, batch, rows, dropped, stopping, overdue>>

\* The condition of the worker's loop.  A batch that is not yet flushed does not
\* keep the thread alive.
LoopCondition ==
    /\ thread = "loop"
    /\ thread' = IF running \/ oqueue # <<>> THEN "get" ELSE "ended"
    /\ UNCHANGED <<emitted, running, emitting, oqueue, accepted, batch, rows, dropped, stopping, overdue>>

\* get(timeout=0.1): an event, or none.
GetEvent ==
    /\ thread = "get"
    /\ \/ /\ oqueue # <<>>
          /\ batch' = Append(batch, Head(oqueue))
          /\ oqueue' = Tail(oqueue)
       \/ oqueue = <<>> /\ UNCHANGED <<batch, oqueue>>
    /\ thread' = IF batch' = <<>> THEN "loop" ELSE "test"
    /\ UNCHANGED <<emitted, running, emitting, accepted, rows, dropped, stopping, overdue>>

\* batch_timeout seconds pass.
TimeUp ==
    /\ ~overdue
    /\ overdue' = TRUE
    /\ UNCHANGED <<emitted, running, emitting, oqueue, accepted, thread, batch, rows, dropped, stopping>>

\* Mutant of FlushCondition: a batch that is not full waits for stop().
FlushConditionNoTimeout ==
    /\ thread = "test"
    /\ thread' = IF Len(batch) >= BatchSize \/ (~running /\ oqueue = <<>>) THEN "flush" ELSE "loop"
    /\ overdue' = (overdue /\ thread' = "loop")
    /\ UNCHANGED <<emitted, running, emitting, oqueue, accepted, batch, rows, dropped, stopping>>

\* A full batch is flushed, one whose time is up, and the last one.
FlushCondition ==
    /\ thread = "test"
    /\ thread' = IF Len(batch) >= BatchSize \/ overdue \/ (~running /\ oqueue = <<>>)
                 THEN "flush" ELSE "loop"
    /\ overdue' = (overdue /\ thread' = "loop")
    /\ UNCHANGED <<emitted, running, emitting, oqueue, accepted, batch, rows, dropped, stopping>>

\* Mutant of WriteEvent: a write whose commit reports an error is tried again.
WriteEventRetry ==
    /\ thread = "flush" /\ batch # <<>>
    /\ rows' = Append(rows, Head(batch))
    /\ batch' \in {Tail(batch), batch} /\ Len(rows) < MaxEvents
    /\ UNCHANGED dropped
    /\ UNCHANGED <<emitted, running, emitting, oqueue, accepted, thread, stopping, overdue>>

\* write of either database: a lost connection is made again first, and the insert
\* is committed; the commit may reach the database and then report an error.
InsertRow(event) == rows' = Append(rows, event) /\ UNCHANGED dropped

\* An event that finds no connection, or whose insert or commit fails, is dropped.
DropEvent(event) == dropped' = dropped \cup {event} /\ UNCHANGED rows

\* flush: one event of the batch after the other, each with its own errors.
WriteEvent ==
    /\ thread = "flush" /\ batch # <<>>
    /\ batch' = Tail(batch)
    /\ InsertRow(Head(batch)) \/ DropEvent(Head(batch))
    /\ UNCHANGED <<emitted, running, emitting, oqueue, accepted, thread, stopping, overdue>>

FlushEnds ==
    /\ thread = "flush" /\ batch = <<>>
    /\ thread' = "loop"
    /\ UNCHANGED <<emitted, running, emitting, oqueue, accepted, batch, rows, dropped, stopping, overdue>>

OutputStop ==
    /\ stopping = "no"
    /\ stopping' = "waiting"
    /\ running' = FALSE
    /\ UNCHANGED <<emitted, emitting, oqueue, accepted, thread, batch, rows, dropped, overdue>>

\* The queue is empty, or five seconds are over: close().  The worker may still
\* hold a batch, and opens the connection again for it.
OutputClose ==
    /\ stopping = "waiting"
    /\ stopping' = "closed"
    /\ UNCHANGED <<emitted, running, emitting, oqueue, accepted, thread, batch, rows, dropped, overdue>>

OutputThread == LoopCondition \/ GetEvent \/ FlushCondition \/ WriteEvent \/ FlushEnds

OutputsNext == Emit \/ Put \/ TimeUp \/ OutputThread \/ OutputStop \/ OutputClose

-----------------------------------------------------------------------------
\* Every event that was accepted is in the database, waiting, in the worker's
\* batch, or its write failed; none twice, and always in the order of log_event,
\* through failed writes, lost connections, full queues and a stop.
EventsInOrder ==
    LET line == rows \o batch \o oqueue
    IN  /\ accepted = Range(line) \cup dropped
        /\ \A i, j \in DOMAIN line : i < j => line[i] < line[j]
        /\ Len(batch) <= BatchSize

\* While nobody stops the plugin, what it accepted does not stay in the queue or in
\* a batch that never gets full.
AcceptedIsWritten ==
    \A e \in 1..MaxEvents :
        (e \in accepted) ~> (e \in Range(rows) \cup dropped \/ ~running)
=============================================================================
