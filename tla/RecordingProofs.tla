--------------------------- MODULE RecordingProofs ---------------------------
(***************************************************************************)
(* What holds of what is recorded, for any number of entries, events,      *)
(* reports and messages.                                                   *)
(*                                                                         *)
(* The background log writer under CyanideServer.stop: no entry is lost,   *)
(* doubled or overtaken, queue.join() counts what is outstanding, and a    *)
(* stop() that did not give up has flushed what was due.  An output        *)
(* plugin: rows, batch and queue form one increasing line of what was      *)
(* accepted, however emit, the worker thread and stop() interleave.        *)
(*                                                                         *)
(* The sequences of entries are compared pointwise; that they form one     *)
(* increasing line follows at the end.                                     *)
(***************************************************************************)
EXTENDS Shutdown, Outputs, IocReports, SessionLog, IncreasingSequences, WellFoundedInduction

-----------------------------------------------------------------------------
(* The entries, wherever they are                                          *)

\* n entries are logged: w is written, e in the worker's hands (0: none), q queued,
\* l lost, and join() waits for u.
Data(w, e, q, l, u, n) ==
    /\ n \in Nat /\ e \in 0..n
    /\ w \in Seq(Nat) /\ q \in Seq(Nat)
    /\ Range(w) \subseteq 1..n /\ Range(q) \subseteq 1..n /\ l \subseteq 1..n
    /\ Increasing(w) /\ Increasing(q) /\ Before(w, q)
    /\ e # 0 => /\ \A i \in DOMAIN w : w[i] < e
                /\ \A i \in DOMAIN q : e < q[i]
    /\ 1..n = Range(w) \cup Range(q) \cup l \cup ({e} \ {0})
    /\ u = Len(q) + (IF e = 0 THEN 0 ELSE 1)

\* log() adds the next number to the queue.
LEMMA Logging ==
    ASSUME NEW w, NEW e, NEW q, NEW l, NEW u, NEW n, Data(w, e, q, l, u, n)
    PROVE  Data(w, e, Append(q, n + 1), l, u + 1, n + 1)
<1>1. /\ n \in Nat /\ n + 1 \in Nat /\ q \in Seq(Nat) /\ w \in Seq(Nat)
      /\ \A i \in DOMAIN q : q[i] \in 1..n
      /\ \A i \in DOMAIN w : w[i] \in 1..n
  BY DEF Data, Range
<1>2. \A i \in DOMAIN q : q[i] < n + 1
  BY <1>1
<1>3. /\ Append(q, n + 1) \in Seq(Nat)
      /\ Increasing(Append(q, n + 1))
      /\ Range(Append(q, n + 1)) = Range(q) \cup {n + 1}
  BY <1>1, <1>2, AppendEntry DEF Data
<1>4. /\ Len(Append(q, n + 1)) = Len(q) + 1
      /\ DOMAIN Append(q, n + 1) = DOMAIN q \cup {Len(q) + 1}
      /\ \A i \in DOMAIN q : Append(q, n + 1)[i] = q[i]
      /\ Append(q, n + 1)[Len(q) + 1] = n + 1
  BY <1>1
<1>5. Before(w, Append(q, n + 1))
  BY <1>1, <1>4 DEF Data, Before
<1>6. 1..(n + 1) = 1..n \cup {n + 1} /\ e \in 0..(n + 1)
  BY <1>1 DEF Data
<1>7. e # 0 => \A i \in DOMAIN Append(q, n + 1) : e < Append(q, n + 1)[i]
  BY <1>1, <1>4 DEF Data
<1>8. u + 1 = Len(Append(q, n + 1)) + (IF e = 0 THEN 0 ELSE 1)
  BY <1>1, <1>4 DEF Data
<1> QED BY <1>1, <1>3, <1>5, <1>6, <1>7, <1>8 DEF Data

\* The worker finishes its entry: it is written, or lost.
LEMMA Finishing ==
    ASSUME NEW w, NEW e, NEW q, NEW l, NEW u, NEW n, Data(w, e, q, l, u, n), e # 0
    PROVE  /\ Data(Append(w, e), 0, q, l, u - 1, n)
           /\ Data(w, 0, q, l \cup {e}, u - 1, n)
<1>1. /\ n \in Nat /\ e \in Nat /\ e \in 1..n /\ q \in Seq(Nat) /\ w \in Seq(Nat)
      /\ \A i \in DOMAIN w : w[i] < e
      /\ Len(q) \in Nat /\ u = Len(q) + 1 /\ u - 1 = Len(q) + 0
  BY DEF Data
<1>2. /\ Append(w, e) \in Seq(Nat)
      /\ Increasing(Append(w, e))
      /\ Range(Append(w, e)) = Range(w) \cup {e}
  BY <1>1, AppendEntry DEF Data
<1>3. /\ DOMAIN Append(w, e) = DOMAIN w \cup {Len(w) + 1}
      /\ \A i \in DOMAIN w : Append(w, e)[i] = w[i]
      /\ Append(w, e)[Len(w) + 1] = e
  BY <1>1
<1>4. Before(Append(w, e), q)
  BY <1>1, <1>3 DEF Data, Before
<1>5. 1..n = Range(w) \cup Range(q) \cup l \cup {e}
  BY <1>1 DEF Data
<1>6. Data(Append(w, e), 0, q, l, u - 1, n)
  BY <1>1, <1>2, <1>4, <1>5 DEF Data
<1>7. Data(w, 0, q, l \cup {e}, u - 1, n)
  BY <1>1, <1>5 DEF Data
<1> QED BY <1>6, <1>7

\* The worker takes the head of the queue.
LEMMA Taking ==
    ASSUME NEW w, NEW q, NEW l, NEW u, NEW n, Data(w, 0, q, l, u, n), q # <<>>
    PROVE  Data(w, Head(q), Tail(q), l, u, n) /\ Head(q) # 0
<1>1. /\ n \in Nat /\ q \in Seq(Nat) /\ w \in Seq(Nat) /\ Increasing(q)
      /\ Range(q) \subseteq 1..n /\ Len(q) \in Nat /\ u = Len(q)
      /\ 1..n = Range(w) \cup Range(q) \cup l
  BY DEF Data
<1>2. /\ Head(q) \in Nat /\ Head(q) \in Range(q)
      /\ Tail(q) \in Seq(Nat) /\ Len(Tail(q)) = Len(q) - 1
      /\ Increasing(Tail(q))
      /\ \A i \in DOMAIN Tail(q) : Head(q) < Tail(q)[i] /\ Tail(q)[i] \in Range(q)
      /\ Range(q) = Range(Tail(q)) \cup {Head(q)}
  BY <1>1, HeadAndTail
<1>3. Head(q) \in 1..n /\ Head(q) # 0 /\ Head(q) \in 0..n
  BY <1>1, <1>2
<1>4. \A i \in DOMAIN w : \A x \in Range(q) : w[i] < x
  BY DEF Data, Before, Range
<1>5. Before(w, Tail(q)) /\ \A i \in DOMAIN w : w[i] < Head(q)
  BY <1>2, <1>4 DEF Before
<1>6. u = Len(Tail(q)) + 1
  BY <1>1, <1>2
<1>7. 1..n = Range(w) \cup Range(Tail(q)) \cup l \cup ({Head(q)} \ {0})
  BY <1>1, <1>2, <1>3
<1>8. Range(Tail(q)) \subseteq 1..n
  BY <1>1, <1>2
<1> QED BY <1>1, <1>2, <1>3, <1>5, <1>6, <1>7, <1>8 DEF Data

-----------------------------------------------------------------------------
(* The inductive invariant                                                 *)

DataInv == Data(written, entry, queue, lost, unfinished, logged)

\* The worker has an entry exactly while it writes, or is cancelled while it does.
WorkerInv ==
    /\ worker = "writing" => entry # 0
    /\ worker \in {"waiting", "done", "cancelled"} => entry = 0

Settled == Range(written) \cup lost

\* From the moment the queue was found drained, what was due is settled.
FlushInv ==
    /\ due \in 0..logged
    /\ gave_up \in BOOLEAN
    /\ stopper \in {"awaiting", "returned", "raised"} /\ ~gave_up => 1..due \subseteq Settled

LogInv == DataInv /\ WorkerInv /\ FlushInv

\* The entry that the worker finishes is settled from then on.
LEMMA LogKeepsData ==
    ASSUME DataInv, NEW n \in {0, 1}, Log(n), UNCHANGED <<written, entry, lost>>
    PROVE  DataInv' /\ logged \in Nat /\ logged' \in Nat /\ logged <= logged'
<1>1. logged \in Nat /\ queue \in Seq(Nat) /\ unfinished \in Nat
  <2>1. logged \in Nat /\ queue \in Seq(Nat)
    BY DEF DataInv, Data
  <2>2. Len(queue) \in Nat
    BY <2>1
  <2> QED BY <2>1, <2>2 DEF DataInv, Data
<1>2. CASE n = 0
  <2>1. logged' = logged /\ queue' = queue /\ unfinished' = unfinished
    BY <1>1, <1>2 DEF Log
  <2> QED BY <2>1, <1>1 DEF DataInv
<1>3. CASE n = 1
  <2>1. queue \o [i \in 1..1 |-> logged + i] = Append(queue, logged + 1)
    BY <1>1
  <2>2. logged' = logged + 1 /\ queue' = Append(queue, logged + 1) /\ unfinished' = unfinished + 1
    BY <1>1, <1>3, <2>1 DEF Log
  <2>3. DataInv'
    BY <2>2, Logging DEF DataInv
  <2> QED BY <2>2, <2>3, <1>1
<1> QED BY <1>2, <1>3

\* Whatever settles more and changes nothing about stops keeps FlushInv.
LEMMA FlushKept ==
    ASSUME FlushInv, UNCHANGED <<due, gave_up, stopper>>, Settled \subseteq Settled',
           logged \in Nat, logged' \in Nat, logged <= logged'
    PROVE  FlushInv'
<1>1. due' \in 0..logged'
  BY DEF FlushInv
<1> QED BY <1>1 DEF FlushInv

\* The top of the worker's loop, after the entry in hand is finished.
LEMMA NextEntryKeeps ==
    ASSUME NEW w, NEW l, NEW u, Data(w, 0, queue, l, u, logged), NextEntry,
           written' = w, lost' = l, unfinished' = u, UNCHANGED logged
    PROVE  DataInv' /\ WorkerInv'
<1>1. CASE queue # <<>>
  <2>1. Data(w, Head(queue), Tail(queue), l, u, logged) /\ Head(queue) # 0
    BY <1>1, Taking
  <2> QED BY <1>1, <2>1 DEF NextEntry, DataInv, WorkerInv
<1>2. CASE queue = <<>>
  BY <1>2 DEF NextEntry, DataInv, WorkerInv
<1> QED BY <1>1, <1>2

\* The entries written only grow when one is appended.
LEMMA WriteEndsKeeps ==
    ASSUME LogInv, WriteEnds
    PROVE  LogInv'
<1>1. /\ Data(Append(written, entry), 0, queue, lost, unfinished - 1, logged)
      /\ Data(written, 0, queue, lost \cup {entry}, unfinished - 1, logged)
      /\ logged \in Nat /\ written \in Seq(Nat) /\ entry \in Nat
      /\ Increasing(written) /\ \A i \in DOMAIN written : written[i] < entry
  <2>1. entry # 0
    BY DEF LogInv, WorkerInv, WriteEnds
  <2>2. /\ Data(Append(written, entry), 0, queue, lost, unfinished - 1, logged)
        /\ Data(written, 0, queue, lost \cup {entry}, unfinished - 1, logged)
    BY <2>1, Finishing DEF LogInv, DataInv
  <2> QED BY <2>1, <2>2 DEF LogInv, DataInv, Data
<1>2. Range(Append(written, entry)) = Range(written) \cup {entry}
  BY <1>1, AppendEntry
<1>3. DataInv' /\ WorkerInv' /\ Settled \subseteq Settled'
  <2>1. CASE written' = Append(written, entry) /\ UNCHANGED lost
    <3>1. DataInv' /\ WorkerInv'
      BY <1>1, <2>1, NextEntryKeeps DEF WriteEnds
    <3> QED BY <3>1, <2>1, <1>2 DEF Settled
  <2>2. CASE lost' = lost \cup {entry} /\ UNCHANGED written
    <3>1. DataInv' /\ WorkerInv'
      BY <1>1, <2>2, NextEntryKeeps DEF WriteEnds
    <3> QED BY <3>1, <2>2 DEF Settled
  <2> QED BY <2>1, <2>2 DEF WriteEnds
<1>4. FlushInv'
  BY <1>1, <1>3, FlushKept DEF LogInv, WriteEnds
<1> QED BY <1>3, <1>4 DEF LogInv

LEMMA WorkerCancelledKeeps ==
    ASSUME LogInv, WorkerCancelled
    PROVE  LogInv'
<1>1. /\ logged \in Nat /\ written \in Seq(Nat) /\ entry \in Nat
      /\ Increasing(written) /\ (entry # 0 => \A i \in DOMAIN written : written[i] < entry)
  BY DEF LogInv, DataInv, Data
<1>2. DataInv' /\ Settled \subseteq Settled'
  <2>1. CASE entry = 0
    <3>1. UNCHANGED <<unfinished, written, lost, logged, queue>> /\ entry' = entry
      BY <2>1 DEF WorkerCancelled
    <3> QED BY <3>1 DEF LogInv, DataInv, Settled
  <2>2. CASE entry # 0
    <3>1. /\ Data(Append(written, entry), 0, queue, lost, unfinished - 1, logged)
          /\ Data(written, 0, queue, lost \cup {entry}, unfinished - 1, logged)
      BY <2>2, Finishing DEF LogInv, DataInv
    <3>2. Range(Append(written, entry)) = Range(written) \cup {entry}
      BY <1>1, <2>2, AppendEntry
    <3>3. /\ entry' = 0 /\ unfinished' = unfinished - 1 /\ UNCHANGED <<logged, queue>>
          /\ \/ written' = Append(written, entry) /\ UNCHANGED lost
             \/ lost' = lost \cup {entry} /\ UNCHANGED written
      BY <2>2 DEF WorkerCancelled
    <3> QED BY <3>1, <3>2, <3>3 DEF DataInv, Settled
  <2> QED BY <2>1, <2>2
<1>3. WorkerInv'
  BY DEF WorkerCancelled, WorkerInv
<1>4. FlushInv'
  BY <1>1, <1>2, FlushKept DEF LogInv, WorkerCancelled
<1> QED BY <1>2, <1>3, <1>4 DEF LogInv

LEMMA WorkerWakesKeeps ==
    ASSUME LogInv, WorkerWakes
    PROVE  LogInv'
<1>1. logged \in Nat /\ Data(written, 0, queue, lost, unfinished, logged)
  BY DEF LogInv, DataInv, Data, WorkerInv, WorkerWakes
<1>2. DataInv' /\ WorkerInv'
  BY <1>1, NextEntryKeeps DEF WorkerWakes
<1>3. Settled' = Settled
  BY DEF WorkerWakes, Settled
<1>4. FlushInv'
  BY <1>1, <1>3, FlushKept DEF LogInv, WorkerWakes
<1> QED BY <1>2, <1>4 DEF LogInv

\* A queue that join() found drained leaves nothing that is due unsettled.
LEMMA StopJoinedKeeps ==
    ASSUME LogInv, StopJoined
    PROVE  LogInv'
<1>1. DataInv' /\ logged \in Nat /\ queue \in Seq(Nat) /\ Len(queue) \in Nat
  <2>1. DataInv'
    BY DEF LogInv, DataInv, StopJoined
  <2>2. logged \in Nat /\ queue \in Seq(Nat)
    BY DEF LogInv, DataInv, Data
  <2> QED BY <2>1, <2>2
<1>2. WorkerInv'
  BY DEF LogInv, WorkerInv, StopJoined, Ended
<1>3. FlushInv'
  <2>1. due' \in 0..logged' /\ gave_up' \in BOOLEAN
    BY <1>1 DEF LogInv, FlushInv, StopJoined, DataInv, Data
  <2>2. ASSUME ~gave_up'
        PROVE  1..due' \subseteq Settled'
    <3>1. unfinished = 0 /\ entry = 0 /\ Len(queue) = 0
      <4>1. ~(unfinished > 0)
        BY <2>2 DEF StopJoined
      <4>2. unfinished = Len(queue) + (IF entry = 0 THEN 0 ELSE 1)
        BY DEF LogInv, DataInv, Data
      <4>3. Len(queue) \in Nat
        BY <1>1
      <4> QED BY <4>1, <4>2, <4>3
    <3>2. Range(queue) = {}
      BY <3>1, <1>1 DEF Range
    <3>3. 1..logged \subseteq Settled
      BY <3>1, <3>2 DEF LogInv, DataInv, Data, Settled
    <3>4. 1..due \subseteq 1..logged
      BY <1>1 DEF LogInv, FlushInv
    <3> QED BY <3>3, <3>4 DEF StopJoined, Settled
  <2> QED BY <2>1, <2>2 DEF FlushInv
<1> QED BY <1>1, <1>2, <1>3 DEF LogInv

\* Beginning another stop() promises nothing yet.
LEMMA StopBeginsKeeps ==
    ASSUME LogInv, NEW n \in {0, 1}, Log(n), StopBegins
    PROVE  LogInv'
<1>1. DataInv' /\ logged \in Nat /\ logged' \in Nat /\ logged <= logged'
  BY LogKeepsData DEF LogInv, StopBegins
<1>2. WorkerInv'
  BY DEF LogInv, WorkerInv, StopBegins
<1>3. FlushInv'
  BY <1>1 DEF LogInv, FlushInv, StopBegins
<1> QED BY <1>1, <1>2, <1>3 DEF LogInv

\* The invariant is inductive under every step of the server and the logger.
LEMMA LogInvStep ==
    ASSUME LogInv, [Next]_vars
    PROVE  LogInv'
<1>1. logged \in Nat /\ queue \in Seq(Nat) /\ unfinished \in Nat
  <2>1. logged \in Nat /\ queue \in Seq(Nat)
    BY DEF LogInv, DataInv, Data
  <2>2. Len(queue) \in Nat
    BY <2>1
  <2> QED BY <2>1, <2>2 DEF LogInv, DataInv, Data
<1>2. ASSUME NEW n \in {0, 1}, Log(n), UNCHANGED taskVars
      PROVE  LogInv'
  <2>1. DataInv' /\ logged' \in Nat /\ logged <= logged'
    BY <1>2, LogKeepsData DEF LogInv, taskVars
  <2>2. WorkerInv' /\ Settled' = Settled
    BY <1>2 DEF LogInv, WorkerInv, taskVars, Settled
  <2>3. FlushInv'
    BY <1>1, <1>2, <2>1, <2>2, FlushKept DEF LogInv, taskVars
  <2> QED BY <2>1, <2>2, <2>3 DEF LogInv
<1>3. CASE SessionLogs
  BY <1>2, <1>3 DEF SessionLogs
<1>4. CASE StopAlone
  BY <1>2, <1>4 DEF StopAlone
<1>5. CASE StopWithProcess
  <2>1. DataInv' /\ logged' \in Nat /\ logged <= logged'
    BY <1>5, LogKeepsData DEF LogInv, StopWithProcess
  <2>2. WorkerInv' /\ Settled' = Settled
    BY <1>5 DEF LogInv, WorkerInv, StopWithProcess, Settled
  <2>3. FlushInv'
    BY <1>1, <1>5, <2>1, <2>2, FlushKept DEF LogInv, StopWithProcess
  <2> QED BY <2>1, <2>2, <2>3 DEF LogInv
<1>6. CASE BackgroundCancelled
  BY <1>2, <1>6 DEF BackgroundCancelled, MayLog
<1>7. CASE CloseServer
  <2>1. Log(0) \/ Log(1)
    BY <1>7 DEF CloseServer, MayLog
  <2> QED BY <1>7, <2>1, StopBeginsKeeps DEF CloseServer
<1>8. CASE StopLogger
  <2>1. DataInv' /\ WorkerInv'
    BY <1>8 DEF StopLogger, StopBegins, LogInv, DataInv, WorkerInv
  <2>2. FlushInv'
    BY <1>1, <1>8 DEF StopLogger, StopBegins, LogInv, FlushInv
  <2> QED BY <2>1, <2>2 DEF LogInv
<1>9. CASE NothingToClose \/ LoggerStopped \/ UNCHANGED vars
  <2>1. UNCHANGED logVars
    BY <1>9 DEF NothingToClose, LoggerStopped, vars
  <2> QED BY <2>1 DEF logVars, LogInv, DataInv, WorkerInv, FlushInv, Settled
<1>10. CASE LoggerStep
  <2>1. CASE StopAwaited
    <3>1. DataInv' /\ WorkerInv' /\ Settled' = Settled
      BY <2>1 DEF StopAwaited, LogInv, DataInv, WorkerInv, Settled
    <3>2. FlushInv'
      BY <2>1, <3>1 DEF StopAwaited, LogInv, FlushInv
    <3> QED BY <3>1, <3>2 DEF LogInv
  <2> QED BY <1>10, <2>1, WorkerWakesKeeps, WriteEndsKeeps, WorkerCancelledKeeps, StopJoinedKeeps
          DEF LoggerStep, logTasks
<1> QED BY <1>3, <1>4, <1>5, <1>6, <1>7, <1>8, <1>9, <1>10 DEF Next

LEMMA LogInvInit == Init => LogInv
<1> SUFFICES ASSUME Init PROVE LogInv
  OBVIOUS
<1>1. Range(<<>>) = {} /\ <<>> \in Seq(Nat) /\ Len(<<>>) = 0 /\ DOMAIN <<>> = {}
  BY DEF Range
<1>2. Increasing(<<>>) /\ Before(<<>>, <<>>)
  BY <1>1 DEF Increasing, Before
<1>3. Data(<<>>, 0, <<>>, {}, 0, 0)
  BY <1>1, <1>2 DEF Data
<1>4. DataInv
  BY <1>3 DEF Init, logInit, DataInv
<1>5. WorkerInv
  BY DEF Init, logInit, WorkerInv, Ended, WorkerStates, StopperStates
<1>6. FlushInv
  <2>1. due = 0 /\ logged = 0 /\ gave_up \in BOOLEAN /\ stopper = "idle"
    BY DEF Init, logInit
  <2>2. due \in 0..logged
    BY <2>1
  <2>3. ~(stopper \in {"awaiting", "returned", "raised"})
    BY <2>1
  <2> QED BY <2>1, <2>2, <2>3 DEF FlushInv
<1> QED BY <1>4, <1>5, <1>6 DEF LogInv

-----------------------------------------------------------------------------
(* The theorems                                                            *)

\* What the invariant says of the whole line of entries.
LEMMA LogInvAccounts ==
    ASSUME LogInv
    PROVE  EntriesAccountedFor /\ StopFlushes
<1>1. /\ written \in Seq(Nat) /\ queue \in Seq(Nat) /\ entry \in Nat
      /\ Increasing(written) /\ Increasing(queue) /\ Before(written, queue)
      /\ entry # 0 => /\ \A i \in DOMAIN written : written[i] < entry
                      /\ \A i \in DOMAIN queue : entry < queue[i]
  BY DEF LogInv, DataInv, Data
<1> DEFINE inhand == IF entry = 0 THEN <<>> ELSE <<entry>>
<1>2. /\ inhand \in Seq(Nat) /\ Increasing(inhand)
      /\ Before(written, inhand) /\ Before(inhand, queue)
  BY <1>1 DEF Increasing, Before
<1>3. /\ written \o inhand \in Seq(Nat) /\ Increasing(written \o inhand)
      /\ Range(written \o inhand) = Range(written) \cup Range(inhand)
  BY <1>1, <1>2, Joined
<1>4. \A i \in DOMAIN (written \o inhand), j \in DOMAIN queue : (written \o inhand)[i] < queue[j]
  <2> SUFFICES ASSUME NEW i \in DOMAIN (written \o inhand), NEW j \in DOMAIN queue
               PROVE  (written \o inhand)[i] < queue[j]
    OBVIOUS
  <2>1. (written \o inhand)[i] \in Range(written) \cup Range(inhand)
    BY <1>3 DEF Range
  <2> QED BY <1>1, <1>2, <2>1 DEF Before, Range
<1>5. Increasing((written \o inhand) \o queue)
  BY <1>1, <1>3, <1>4, Joined DEF Before
<1>6. WrittenInOrder
  BY <1>5 DEF WrittenInOrder, Increasing
<1>7. NothingVanishes /\ JoinCountsOutstanding
  BY DEF LogInv, DataInv, Data, NothingVanishes, JoinCountsOutstanding
<1>8. StopFlushes
  BY DEF LogInv, FlushInv, StopFlushes, Settled
<1> QED BY <1>6, <1>7, <1>8 DEF EntriesAccountedFor

\* No entry given to log() is lost, doubled or overtaken on its way to the files, and
\* queue.join() counts exactly what is outstanding, under every interleaving of
\* sessions, failing writes, cancellations and stops.
THEOREM LogEntriesAccounted == Spec => []EntriesAccountedFor
<1>1. Spec => []LogInv
  BY LogInvInit, LogInvStep, PTL DEF Spec
<1>2. LogInv => EntriesAccountedFor
  BY LogInvAccounts
<1> QED BY <1>1, <1>2, PTL

\* async_logger.stop() flushes what was logged before it, unless it gave up on the
\* queue within its three seconds, even if it then ends with an exception.
THEOREM StopFlushesAlways == Spec => []StopFlushes
<1>1. Spec => []LogInv
  BY LogInvInit, LogInvStep, PTL DEF Spec
<1>2. LogInv => StopFlushes
  BY LogInvAccounts
<1> QED BY <1>1, <1>2, PTL

-----------------------------------------------------------------------------
(* Types                                                                   *)

\* Where the tasks stand; async_logger.stop() is only called at a step that closes a
\* server or the log writer.
StateInv ==
    /\ worker \in WorkerStates /\ stopper \in StopperStates
    /\ stop_event \in BOOLEAN /\ flushing \in BOOLEAN
    /\ pc \in {"running", "raised", "background", "pool", "SSH", "Telnet", "Metrics", "logger", "finished"}
    /\ flushing => pc \in ({"SSH", "Telnet", "Metrics"} \cap Enabled) \cup {"logger"}
    /\ listening \subseteq Enabled

\* Every step but the last has a following one.
LEMMA FollowingStep ==
    ASSUME NEW step \in {"background", "pool", "SSH", "Telnet", "Metrics", "logger"}
    PROVE  Following(step) \in {"pool", "SSH", "Telnet", "Metrics", "logger", "finished"}
<1>1. DOMAIN Steps = 1..7
  BY DEF Steps
<1>2. \E i \in DOMAIN Steps : Steps[i] = step
  <2>1. /\ Steps[1] = "background" /\ Steps[2] = "pool" /\ Steps[3] = "SSH" /\ Steps[4] = "Telnet"
        /\ Steps[5] = "Metrics" /\ Steps[6] = "logger"
    BY DEF Steps
  <2> QED BY <1>1, <2>1
<1> DEFINE i == CHOOSE j \in DOMAIN Steps : Steps[j] = step
<1>3. i \in 1..7 /\ Steps[i] = step
  BY <1>1, <1>2
<1>4. i \in 1..6
  <2>1. Steps[7] = "finished"
    BY DEF Steps
  <2> QED BY <1>3, <2>1
<1> HIDE DEF i
<1>5. Steps[i + 1] \in {"pool", "SSH", "Telnet", "Metrics", "logger", "finished"}
  BY <1>4 DEF Steps
<1> QED BY <1>5 DEF Following, i

LEMMA StateStep == StateInv /\ [Next]_vars => StateInv'
<1> SUFFICES ASSUME StateInv, [Next]_vars PROVE StateInv'
  OBVIOUS
<1> USE DEF StateInv, WorkerStates, StopperStates
<1>1. CASE SessionLogs
  BY <1>1 DEF SessionLogs, taskVars, serverVars
<1>2. CASE StopAlone
  BY <1>2 DEF StopAlone, taskVars
<1>3. CASE StopWithProcess
  BY <1>3 DEF StopWithProcess
<1>4. CASE BackgroundCancelled
  BY <1>4, FollowingStep DEF BackgroundCancelled, taskVars
<1>5. CASE NothingToClose
  <2>1. pc \in {"pool", "SSH", "Telnet", "Metrics"} /\ pc \notin Enabled
    BY <1>5 DEF NothingToClose
  <2>2. pc' \in {"pool", "SSH", "Telnet", "Metrics", "logger", "finished"}
    BY <1>5, <2>1, FollowingStep DEF NothingToClose
  <2>3. UNCHANGED <<worker, stopper, stop_event, flushing, listening>>
    BY <1>5 DEF NothingToClose, logVars
  <2>4. ~flushing
    BY <2>1
  <2> QED BY <2>2, <2>3, <2>4
<1>6. CASE CloseServer
  BY <1>6 DEF CloseServer, StopBegins
<1>7. CASE StopLogger
  BY <1>7 DEF StopLogger, StopBegins
<1>8. CASE LoggerStopped
  BY <1>8, FollowingStep DEF LoggerStopped, logVars
<1>9. CASE LoggerStep
  <2>1. UNCHANGED <<pc, flushing, listening>>
    BY <1>9 DEF LoggerStep, serverVars
  <2>2. worker' \in WorkerStates /\ stopper' \in StopperStates /\ stop_event' \in BOOLEAN
    BY <1>9 DEF LoggerStep, logTasks, WorkerWakes, WriteEnds, NextEntry, WorkerCancelled,
                StopJoined, StopAwaited, Ended
  <2> QED BY <2>1, <2>2
<1>10. CASE UNCHANGED vars
  BY <1>10 DEF vars, logVars, serverVars
<1> QED BY <1>1, <1>2, <1>3, <1>4, <1>5, <1>6, <1>7, <1>8, <1>9, <1>10 DEF Next

\* A sequence of logged entries.
LEMMA EntriesOf ==
    ASSUME NEW w \in Seq(Nat), NEW n \in Nat, Range(w) \subseteq 1..n
    PROVE  w \in Seq(1..n)
<1>1. Len(w) \in Nat /\ w = [i \in 1..Len(w) |-> w[i]]
  OBVIOUS
<1>2. \A i \in 1..Len(w) : w[i] \in 1..n
  BY DEF Range
<1> QED BY <1>1, <1>2

\* The logger's and the server's state keep their types.
THEOREM ShutdownTypesCorrect == Spec => []ShutdownTypeOK
<1>1. Init => LogInv /\ StateInv
  BY LogInvInit DEF Init, logInit, StateInv, WorkerStates, StopperStates
<1>2. LogInv /\ StateInv /\ [Next]_vars => (LogInv /\ StateInv)'
  BY LogInvStep, StateStep
<1>3. LogInv /\ StateInv => ShutdownTypeOK
  <2> SUFFICES ASSUME LogInv, StateInv PROVE ShutdownTypeOK
    OBVIOUS
  <2>1. /\ logged \in Nat /\ entry \in 0..logged /\ lost \subseteq 1..logged
        /\ queue \in Seq(Nat) /\ Range(queue) \subseteq 1..logged
        /\ written \in Seq(Nat) /\ Range(written) \subseteq 1..logged
        /\ unfinished = Len(queue) + (IF entry = 0 THEN 0 ELSE 1)
    BY DEF LogInv, DataInv, Data
  <2>2. queue \in Seq(1..logged) /\ written \in Seq(1..logged)
    BY <2>1, EntriesOf
  <2>3. unfinished \in Nat
    <3>1. Len(queue) \in Nat
      BY <2>1
    <3> QED BY <2>1, <3>1
  <2>4. LogTypeOK
    BY <2>1, <2>2, <2>3 DEF LogTypeOK, LogInv, FlushInv, StateInv
  <2>5. pc \in PCs
    <3>1. Range(Steps) = {"background", "pool", "SSH", "Telnet", "Metrics", "logger", "finished"}
      BY DEF Steps, Range
    <3> QED BY <3>1 DEF StateInv, PCs
  <2> QED BY <2>4, <2>5 DEF ShutdownTypeOK, StateInv
<1> QED BY <1>1, <1>2, <1>3, PTL DEF Spec

-----------------------------------------------------------------------------
(* The output plugins                                                      *)

OutputsSpec == OutputsInit /\ [][OutputsNext]_outVars

-----------------------------------------------------------------------------
(* The events, wherever they are                                           *)

\* r is in the database, b in the batch, q in the queue, l was dropped, a accepted,
\* and the next event to be accepted has a number of at least n.
Line(r, b, q, l, a, n) ==
    /\ n \in Nat
    /\ r \in Seq(Nat) /\ b \in Seq(Nat) /\ q \in Seq(Nat)
    /\ Increasing(r) /\ Increasing(b) /\ Increasing(q)
    /\ Before(r, b) /\ Before(r, q) /\ Before(b, q)
    /\ \A i \in DOMAIN r : r[i] < n
    /\ \A i \in DOMAIN b : b[i] < n
    /\ \A i \in DOMAIN q : q[i] < n
    /\ a = Range(r) \cup Range(b) \cup Range(q) \cup l

\* put: the number goes to the end of the queue.
LEMMA Accepting ==
    ASSUME NEW r, NEW b, NEW q, NEW l, NEW a, NEW n, Line(r, b, q, l, a, n)
    PROVE  Line(r, b, Append(q, n), l, a \cup {n}, n + 1)
<1>1. /\ n \in Nat /\ n + 1 \in Nat /\ q \in Seq(Nat) /\ r \in Seq(Nat) /\ b \in Seq(Nat)
      /\ \A i \in DOMAIN r : r[i] \in Nat
      /\ \A i \in DOMAIN b : b[i] \in Nat
      /\ \A i \in DOMAIN q : q[i] \in Nat
  BY DEF Line
<1>2. /\ Append(q, n) \in Seq(Nat) /\ Increasing(Append(q, n))
      /\ Range(Append(q, n)) = Range(q) \cup {n}
  BY <1>1, AppendEntry DEF Line
<1>3. Before(r, Append(q, n)) /\ Before(b, Append(q, n))
  BY <1>1, BeforeAppend DEF Line
<1>4. \A i \in DOMAIN Append(q, n) : Append(q, n)[i] < n + 1
  <2>1. \A i \in DOMAIN Append(q, n) : Append(q, n)[i] \in Range(q) \cup {n}
    BY <1>2 DEF Range
  <2>2. \A x \in Range(q) : x < n + 1
    BY <1>1 DEF Line, Range
  <2> QED BY <2>1, <2>2, <1>1
<1>5. /\ \A i \in DOMAIN r : r[i] < n + 1
      /\ \A i \in DOMAIN b : b[i] < n + 1
  BY <1>1 DEF Line
<1>6. a \cup {n} = Range(r) \cup Range(b) \cup Range(Append(q, n)) \cup l
  BY <1>2 DEF Line
<1> QED BY <1>1, <1>2, <1>3, <1>4, <1>5, <1>6 DEF Line

\* get: the head of the queue goes to the end of the batch.
LEMMA Batching ==
    ASSUME NEW r, NEW b, NEW q, NEW l, NEW a, NEW n, Line(r, b, q, l, a, n), q # <<>>
    PROVE  Line(r, Append(b, Head(q)), Tail(q), l, a, n)
<1>1. /\ n \in Nat /\ q \in Seq(Nat) /\ r \in Seq(Nat) /\ b \in Seq(Nat)
      /\ Before(r, b) /\ Before(r, q) /\ Before(b, q)
      /\ Increasing(b) /\ Increasing(q)
      /\ \A x \in Range(q) : x < n
      /\ \A i \in DOMAIN b : b[i] < n
  BY DEF Line, Range
<1>2. /\ Head(q) \in Nat /\ Head(q) \in Range(q)
      /\ Tail(q) \in Seq(Nat) /\ Increasing(Tail(q))
      /\ \A i \in DOMAIN Tail(q) : Head(q) < Tail(q)[i] /\ Tail(q)[i] \in Range(q)
      /\ Range(q) = Range(Tail(q)) \cup {Head(q)}
  BY <1>1, HeadAndTail
<1>3. /\ Before(r, Tail(q)) /\ \A i \in DOMAIN r : r[i] < Head(q)
      /\ Before(b, Tail(q)) /\ \A i \in DOMAIN b : b[i] < Head(q)
  BY <1>1, BeforeTail
<1> DEFINE longer == Append(b, Head(q))
<1>4. longer \in Seq(Nat) /\ Increasing(longer) /\ Range(longer) = Range(b) \cup {Head(q)}
  BY <1>1, <1>2, <1>3, AppendEntry
<1>5. Before(r, longer) /\ Before(longer, Tail(q))
  BY <1>1, <1>2, <1>3, BeforeAppend
<1>6. \A i \in DOMAIN longer : longer[i] < n
  <2>1. \A i \in DOMAIN longer : longer[i] \in Range(b) \cup {Head(q)}
    BY <1>4 DEF Range
  <2>2. \A x \in Range(b) : x < n
    BY <1>1 DEF Range
  <2> QED BY <2>1, <2>2, <1>1, <1>2
<1>7. \A i \in DOMAIN Tail(q) : Tail(q)[i] < n
  BY <1>1, <1>2
<1>8. a = Range(r) \cup Range(longer) \cup Range(Tail(q)) \cup l
  BY <1>2, <1>4 DEF Line
<1> HIDE DEF longer
<1>9. Line(r, longer, Tail(q), l, a, n)
  BY <1>2, <1>3, <1>4, <1>5, <1>6, <1>7, <1>8 DEF Line
<1> QED BY <1>9 DEF longer

\* write: the head of the batch is in the database, or dropped.
LEMMA Writing ==
    ASSUME NEW r, NEW b, NEW q, NEW l, NEW a, NEW n, Line(r, b, q, l, a, n), b # <<>>
    PROVE  /\ Line(Append(r, Head(b)), Tail(b), q, l, a, n)
           /\ Line(r, Tail(b), q, l \cup {Head(b)}, a, n)
<1>1. /\ n \in Nat /\ q \in Seq(Nat) /\ r \in Seq(Nat) /\ b \in Seq(Nat)
      /\ Before(r, b) /\ Before(r, q) /\ Before(b, q)
      /\ Increasing(r) /\ Increasing(b)
      /\ \A x \in Range(b) : x < n
      /\ \A i \in DOMAIN r : r[i] < n
  BY DEF Line, Range
<1>2. /\ Head(b) \in Nat /\ Head(b) \in Range(b)
      /\ Tail(b) \in Seq(Nat) /\ Increasing(Tail(b))
      /\ \A i \in DOMAIN Tail(b) : Head(b) < Tail(b)[i] /\ Tail(b)[i] \in Range(b)
      /\ Range(b) = Range(Tail(b)) \cup {Head(b)}
  BY <1>1, HeadAndTail
<1>3. /\ Before(r, Tail(b)) /\ \A i \in DOMAIN r : r[i] < Head(b)
      /\ Before(Tail(b), q) /\ \A i \in DOMAIN q : Head(b) < q[i]
  BY <1>1, BeforeTail
<1>4. \A i \in DOMAIN Tail(b) : Tail(b)[i] < n
  BY <1>1, <1>2
<1> DEFINE longer == Append(r, Head(b))
<1>5. longer \in Seq(Nat) /\ Increasing(longer) /\ Range(longer) = Range(r) \cup {Head(b)}
  BY <1>1, <1>2, <1>3, AppendEntry
<1>6. Before(longer, Tail(b)) /\ Before(longer, q)
  BY <1>1, <1>2, <1>3, BeforeAppend
<1>7. \A i \in DOMAIN longer : longer[i] < n
  <2>1. \A i \in DOMAIN longer : longer[i] \in Range(r) \cup {Head(b)}
    BY <1>5 DEF Range
  <2>2. \A x \in Range(r) : x < n
    BY <1>1 DEF Range
  <2> QED BY <2>1, <2>2, <1>1, <1>2
<1>8. a = Range(longer) \cup Range(Tail(b)) \cup Range(q) \cup l
  BY <1>2, <1>5 DEF Line
<1>9. a = Range(r) \cup Range(Tail(b)) \cup Range(q) \cup (l \cup {Head(b)})
  BY <1>2 DEF Line
<1>10. Line(r, Tail(b), q, l \cup {Head(b)}, a, n)
  BY <1>2, <1>3, <1>4, <1>9 DEF Line
<1> HIDE DEF longer
<1>11. Line(longer, Tail(b), q, l, a, n)
  BY <1>2, <1>3, <1>4, <1>5, <1>6, <1>7, <1>8 DEF Line
<1> QED BY <1>10, <1>11 DEF longer

\* An event that is not accepted only leaves a gap.
LEMMA Skipping ==
    ASSUME NEW r, NEW b, NEW q, NEW l, NEW a, NEW n, Line(r, b, q, l, a, n)
    PROVE  Line(r, b, q, l, a, n + 1)
<1>1. /\ n \in Nat /\ n + 1 \in Nat
      /\ \A i \in DOMAIN r : r[i] \in Nat
      /\ \A i \in DOMAIN b : b[i] \in Nat
      /\ \A i \in DOMAIN q : q[i] \in Nat
  BY DEF Line
<1>2. /\ \A i \in DOMAIN r : r[i] < n + 1
      /\ \A i \in DOMAIN b : b[i] < n + 1
      /\ \A i \in DOMAIN q : q[i] < n + 1
  BY <1>1 DEF Line
<1> QED BY <1>1, <1>2 DEF Line

-----------------------------------------------------------------------------
(* The invariant                                                           *)

\* An event that emit is about to put is the latest one.
NextEvent == IF emitting = 0 THEN emitted + 1 ELSE emitting

LineInv ==
    /\ Line(rows, batch, oqueue, dropped, accepted, NextEvent)
    /\ emitted \in Nat /\ emitting \in {0, emitted}

\* Only a full batch is not extended: the loop comes back with room in it.
BatchInv ==
    /\ batch \in Seq(Nat)
    /\ Len(batch) <= BatchSize
    /\ thread \in {"loop", "get"} => Len(batch) < BatchSize

OutInv == LineInv /\ BatchInv

LEMMA OutInvInit == OutputsInit => OutInv
<1> SUFFICES ASSUME OutputsInit PROVE OutInv
  OBVIOUS
<1>1. <<>> \in Seq(Nat) /\ Len(<<>>) = 0 /\ DOMAIN <<>> = {} /\ Range(<<>>) = {}
  BY DEF Range
<1>2. Increasing(<<>>) /\ Before(<<>>, <<>>)
  BY <1>1 DEF Increasing, Before
<1>3. Line(<<>>, <<>>, <<>>, {}, {}, 1)
  BY <1>1, <1>2 DEF Line
<1>4. NextEvent = 1
  BY DEF OutputsInit, NextEvent
<1>5. LineInv
  BY <1>3, <1>4 DEF OutputsInit, LineInv
<1>6. BatchInv
  BY <1>1, OutputsAssumption DEF OutputsInit, BatchInv
<1> QED BY <1>5, <1>6 DEF OutInv

\* The batch never changes where emit and stop() act.
LEMMA LineStep == OutInv /\ [OutputsNext]_outVars => LineInv'
<1> SUFFICES ASSUME OutInv, [OutputsNext]_outVars PROVE LineInv'
  OBVIOUS
<1>0. LineInv
  BY DEF OutInv
<1>1. CASE UNCHANGED <<rows, batch, oqueue, dropped, accepted, emitted, emitting>>
  BY <1>0, <1>1 DEF LineInv, NextEvent
<1>2. CASE Emit
  <2>1. NextEvent = emitted + 1 /\ emitted + 1 \in Nat /\ emitted + 1 # 0
    BY <1>0, <1>2 DEF Emit, NextEvent, LineInv
  <2>2. Line(rows', batch', oqueue', dropped', accepted', emitted + 1)
    BY <1>0, <1>2, <2>1 DEF Emit, LineInv
  <2>3. CASE running
    <3>1. emitting' = emitted + 1 /\ emitted' = emitted + 1
      BY <1>2, <2>3 DEF Emit
    <3>2. NextEvent' = emitted + 1
      BY <2>1, <3>1 DEF NextEvent
    <3> QED BY <2>1, <2>2, <3>1, <3>2 DEF LineInv
  <2>4. CASE ~running
    <3>1. NextEvent' = (emitted + 1) + 1 /\ emitting' = 0
      BY <1>2, <2>1, <2>4 DEF Emit, NextEvent
    <3>2. Line(rows', batch', oqueue', dropped', accepted', (emitted + 1) + 1)
      BY <2>2, Skipping
    <3> QED BY <2>1, <3>1, <3>2, <1>2 DEF Emit, LineInv
  <2> QED BY <2>3, <2>4
<1>3. CASE Put
  <2>1. /\ emitting = emitted /\ NextEvent = emitting /\ NextEvent' = emitting + 1
        /\ emitting' = 0 /\ emitted' = emitted /\ emitted \in Nat
    BY <1>0, <1>3 DEF Put, NextEvent, LineInv
  <2>2. Line(rows, batch, oqueue, dropped, accepted, emitting)
    BY <1>0, <2>1 DEF LineInv
  <2>3. CASE Len(oqueue) < QueueSize
    <3>1. Line(rows, batch, Append(oqueue, emitting), dropped, accepted \cup {emitting}, emitting + 1)
      BY <2>2, Accepting
    <3> QED BY <2>1, <2>3, <3>1, <1>3 DEF Put, LineInv
  <2>4. CASE ~(Len(oqueue) < QueueSize)
    <3>1. Line(rows, batch, oqueue, dropped, accepted, emitting + 1)
      BY <2>2, Skipping
    <3> QED BY <2>1, <2>4, <3>1, <1>3 DEF Put, LineInv
  <2> QED BY <2>3, <2>4
<1>4. CASE GetEvent
  <2>1. CASE oqueue # <<>> /\ batch' = Append(batch, Head(oqueue)) /\ oqueue' = Tail(oqueue)
    <3>1. Line(rows, Append(batch, Head(oqueue)), Tail(oqueue), dropped, accepted, NextEvent)
      BY <1>0, <2>1, Batching DEF LineInv
    <3> QED BY <1>0, <1>4, <2>1, <3>1 DEF GetEvent, LineInv, NextEvent
  <2> QED BY <2>1, <1>1, <1>4 DEF GetEvent
<1>5. CASE WriteEvent
  <2>1. /\ Line(Append(rows, Head(batch)), Tail(batch), oqueue, dropped, accepted, NextEvent)
        /\ Line(rows, Tail(batch), oqueue, dropped \cup {Head(batch)}, accepted, NextEvent)
    BY <1>0, <1>5, Writing DEF LineInv, WriteEvent
  <2> QED BY <1>0, <1>5, <2>1 DEF WriteEvent, InsertRow, DropEvent, LineInv, NextEvent
<1> QED BY <1>1, <1>2, <1>3, <1>4, <1>5
        DEF OutputsNext, OutputThread, LoopCondition, FlushCondition, FlushEnds, TimeUp,
            OutputStop, OutputClose, outVars

LEMMA BatchStep == OutInv /\ [OutputsNext]_outVars => BatchInv'
<1> SUFFICES ASSUME OutInv, [OutputsNext]_outVars PROVE BatchInv'
  OBVIOUS
<1>0. /\ BatchInv /\ batch \in Seq(Nat) /\ Len(batch) \in Nat /\ BatchSize \in Nat \ {0}
      /\ oqueue \in Seq(Nat)
  BY OutputsAssumption DEF OutInv, BatchInv, LineInv, Line
<1>1. CASE UNCHANGED <<batch, thread>>
  BY <1>0, <1>1 DEF BatchInv
<1>2. CASE LoopCondition
  BY <1>0, <1>2 DEF LoopCondition, BatchInv
<1>3. CASE GetEvent
  <2>1. CASE batch' = Append(batch, Head(oqueue)) /\ oqueue # <<>>
    <3>1. /\ Append(batch, Head(oqueue)) \in Seq(Nat)
          /\ Len(Append(batch, Head(oqueue))) = Len(batch) + 1
          /\ Append(batch, Head(oqueue)) # <<>>
      BY <1>0, <2>1
    <3> QED BY <1>0, <1>3, <2>1, <3>1 DEF GetEvent, BatchInv
  <2> QED BY <2>1, <1>0, <1>3 DEF GetEvent, BatchInv
<1>4. CASE FlushCondition
  BY <1>0, <1>4 DEF FlushCondition, BatchInv
<1>5. CASE WriteEvent
  <2>1. Tail(batch) \in Seq(Nat) /\ Len(Tail(batch)) = Len(batch) - 1
    BY <1>0, <1>5 DEF WriteEvent
  <2> QED BY <1>0, <1>5, <2>1 DEF WriteEvent, BatchInv
<1>6. CASE FlushEnds
  <2>1. Len(batch) = 0
    BY <1>6 DEF FlushEnds
  <2> QED BY <1>0, <1>6, <2>1 DEF FlushEnds, BatchInv
<1> QED BY <1>1, <1>2, <1>3, <1>4, <1>5, <1>6
        DEF OutputsNext, OutputThread, Emit, Put, TimeUp, OutputStop, OutputClose, outVars

LEMMA LineInOrder == OutInv => EventsInOrder
<1> SUFFICES ASSUME OutInv PROVE EventsInOrder
  OBVIOUS
<1>1. /\ rows \in Seq(Nat) /\ batch \in Seq(Nat) /\ oqueue \in Seq(Nat)
      /\ Increasing(rows) /\ Increasing(batch) /\ Increasing(oqueue)
      /\ Before(rows, batch) /\ Before(rows, oqueue) /\ Before(batch, oqueue)
      /\ accepted = Range(rows) \cup Range(batch) \cup Range(oqueue) \cup dropped
      /\ Len(batch) <= BatchSize
  BY DEF OutInv, LineInv, BatchInv, Line
<1>2. /\ rows \o batch \in Seq(Nat) /\ Increasing(rows \o batch)
      /\ Range(rows \o batch) = Range(rows) \cup Range(batch)
  BY <1>1, Joined
<1>3. Before(rows \o batch, oqueue)
  <2>1. \A x \in Range(rows) \cup Range(batch), j \in DOMAIN oqueue : x < oqueue[j]
    BY <1>1 DEF Before, Range
  <2>2. \A i \in DOMAIN (rows \o batch) : (rows \o batch)[i] \in Range(rows) \cup Range(batch)
    BY <1>2 DEF Range
  <2> QED BY <2>1, <2>2 DEF Before
<1>4. /\ Increasing((rows \o batch) \o oqueue)
      /\ Range((rows \o batch) \o oqueue) = Range(rows \o batch) \cup Range(oqueue)
  BY <1>1, <1>2, <1>3, Joined
<1> QED BY <1>1, <1>2, <1>4 DEF EventsInOrder, Increasing

-----------------------------------------------------------------------------
\* What a plugin accepted is in the database, in its batch, in its queue or was
\* dropped by a failed write, once and in the order of log_event, and no batch
\* outgrows its size.
THEOREM EventsStayInOrder == OutputsSpec => []EventsInOrder
<1>1. OutInv /\ [OutputsNext]_outVars => OutInv'
  BY LineStep, BatchStep DEF OutInv
<1> QED BY <1>1, OutInvInit, LineInOrder, PTL DEF OutputsSpec

-----------------------------------------------------------------------------
(* The IOC reports                                                         *)

IocSpec == IocInit /\ [][IocNext]_iocVars

Reporting == {"sleep", "stix", "stix opened", "misp", "misp opened"}

\* The generations of the two files while generation g of them is at a stage, as long
\* as none was cut off.
Files(stage, g, stix, misp) ==
    \/ stage = "sleep" /\ stix = g /\ misp = g
    \/ stage = "stix" /\ stix = g - 1 /\ misp = g - 1
    \/ stage = "stix opened" /\ stix = 0 /\ misp = g - 1
    \/ stage = "misp" /\ stix = g /\ misp = g - 1
    \/ stage = "misp opened" /\ stix = g /\ misp = 0

ReportInv ==
    /\ generation \in Nat
    /\ reporting \in Reporting /\ interrupted \in BOOLEAN
    /\ reporting # "sleep" => generation > 0
    /\ report \in [Formats -> Nat]
    /\ report["stix"] <= generation /\ report["misp"] <= generation
    /\ ~interrupted => Files(reporting, generation, report["stix"], report["misp"])

ReadingInv ==
    /\ reading \in [Formats -> Nat]
    /\ reading["stix"] <= generation
    /\ ReportsConsistent

LEMMA ReportInvInit == IocInit => ReportInv /\ ReadingInv
<1> SUFFICES ASSUME IocInit PROVE ReportInv /\ ReadingInv
  OBVIOUS
<1>1. /\ report = Nothing /\ reading = Nothing /\ generation = 0 /\ reporting = "sleep" /\ bot = "poll"
      /\ Nothing \in [Formats -> Nat] /\ Nothing["stix"] = 0 /\ Nothing["misp"] = 0
  BY DEF IocInit, Nothing, Formats
<1>2. interrupted \in BOOLEAN /\ ~interrupted
  BY DEF IocInit
<1>3. Files(reporting, generation, report["stix"], report["misp"])
  BY <1>1 DEF Files
<1>4. reporting \in Reporting /\ generation \in Nat /\ (reporting # "sleep" => generation > 0)
  BY <1>1 DEF Reporting
<1>5. report["stix"] <= generation /\ report["misp"] <= generation /\ report \in [Formats -> Nat]
  BY <1>1
<1>6. ReportInv
  BY <1>2, <1>3, <1>4, <1>5 DEF ReportInv
<1>7. ReadingInv
  BY <1>1 DEF ReadingInv, ReportsConsistent
<1> QED BY <1>6, <1>7

\* Opening, writing or failing changes one file.
LEMMA FileChanges ==
    ASSUME ReportInv, NEW f \in Formats, NEW g \in Nat, report' = [report EXCEPT ![f] = g]
    PROVE  /\ report' \in [Formats -> Nat]
           /\ f = "stix" => report'["stix"] = g /\ report'["misp"] = report["misp"]
           /\ f = "misp" => report'["misp"] = g /\ report'["stix"] = report["stix"]
BY DEF ReportInv, Formats

LEMMA ReportInvStep == ReportInv /\ [IocNext]_iocVars => ReportInv'
<1> SUFFICES ASSUME ReportInv, [IocNext]_iocVars PROVE ReportInv'
  OBVIOUS
<1>1. ASSUME UNCHANGED <<generation, reporting, interrupted, report>>
      PROVE  ReportInv'
  BY <1>1 DEF ReportInv
<1>2. CASE ToolDetected \/ AnomalyReported \/ AuthAnalysed \/ FileAnalysed
  BY <1>1, <1>2 DEF ToolDetected, AnomalyReported, AuthAnalysed, FileAnalysed, AddIocs
<1>11. /\ generation \in Nat /\ report \in [Formats -> Nat] /\ interrupted \in BOOLEAN
       /\ report["stix"] \in Nat /\ report["misp"] \in Nat
       /\ report["stix"] <= generation /\ report["misp"] <= generation
       /\ ~interrupted => Files(reporting, generation, report["stix"], report["misp"])
       /\ reporting # "sleep" => generation > 0
  BY DEF ReportInv, Formats
<1>3. CASE ReportsBegin
  <2>1. /\ reporting = "sleep" /\ reporting' = "stix" /\ generation' = generation + 1
        /\ report' = report /\ interrupted' = interrupted
    BY <1>3 DEF ReportsBegin
  <2>2. ~interrupted' => Files(reporting', generation', report'["stix"], report'["misp"])
    <3>1. SUFFICES ASSUME ~interrupted
                   PROVE  Files(reporting', generation', report'["stix"], report'["misp"])
      BY <2>1
    <3>2. report["stix"] = generation /\ report["misp"] = generation
      BY <1>11, <2>1, <3>1 DEF Files
    <3> QED BY <1>11, <2>1, <3>2 DEF Files
  <2>3. reporting' \in Reporting /\ generation' \in Nat /\ generation' > 0
    BY <1>11, <2>1 DEF Reporting
  <2>4. report'["stix"] <= generation' /\ report'["misp"] <= generation'
    BY <1>11, <2>1
  <2> QED BY <1>11, <2>1, <2>2, <2>3, <2>4 DEF ReportInv
<1>4. ASSUME NEW f \in Formats, OpenReport(f)
      PROVE  ReportInv'
  <2>1. report' = [report EXCEPT ![f] = 0] /\ reporting = f /\ reporting' = Opened(f)
        /\ UNCHANGED <<generation, interrupted>>
    BY <1>4 DEF OpenReport
  <2>2. CASE f = "stix"
    <3>1. report'["stix"] = 0 /\ report'["misp"] = report["misp"] /\ report' \in [Formats -> Nat]
      BY <2>1, <2>2, <1>11, FileChanges
    <3>2. reporting = "stix" /\ reporting' = "stix opened"
      BY <2>1, <2>2 DEF Opened, NextReport
    <3>3. ~interrupted => Files(reporting', generation, report'["stix"], report'["misp"])
      BY <3>1, <3>2, <1>11 DEF Files
    <3>4. ~interrupted' => Files(reporting', generation', report'["stix"], report'["misp"])
      BY <3>3, <2>1
    <3>5. reporting' \in Reporting /\ (reporting' # "sleep" => generation' > 0)
      BY <3>2, <2>1, <1>11 DEF Reporting
    <3>6. report'["stix"] <= generation' /\ report'["misp"] <= generation'
      BY <3>1, <2>1, <1>11
    <3> QED BY <3>1, <3>4, <3>5, <3>6, <2>1, <1>11 DEF ReportInv
  <2>3. CASE f = "misp"
    <3>1. report'["misp"] = 0 /\ report'["stix"] = report["stix"] /\ report' \in [Formats -> Nat]
      BY <2>1, <2>3, <1>11, FileChanges
    <3>2. reporting = "misp" /\ reporting' = "misp opened"
      BY <2>1, <2>3 DEF Opened, NextReport
    <3>3. ~interrupted => Files(reporting', generation, report'["stix"], report'["misp"])
      BY <3>1, <3>2, <1>11 DEF Files
    <3>4. ~interrupted' => Files(reporting', generation', report'["stix"], report'["misp"])
      BY <3>3, <2>1
    <3>5. reporting' \in Reporting /\ (reporting' # "sleep" => generation' > 0)
      BY <3>2, <2>1, <1>11 DEF Reporting
    <3>6. report'["stix"] <= generation' /\ report'["misp"] <= generation'
      BY <3>1, <2>1, <1>11
    <3> QED BY <3>1, <3>4, <3>5, <3>6, <2>1, <1>11 DEF ReportInv
  <2> QED BY <2>2, <2>3 DEF Formats
<1>5. ASSUME NEW f \in Formats, WriteReport(f)
      PROVE  ReportInv'
  <2>1. report' = [report EXCEPT ![f] = generation] /\ reporting = Opened(f) /\ reporting' = NextReport(f)
        /\ UNCHANGED <<generation, interrupted>> /\ generation \in Nat
    BY <1>5 DEF WriteReport, ReportInv
  <2>2. CASE f = "stix"
    <3>1. report'["stix"] = generation /\ report'["misp"] = report["misp"] /\ report' \in [Formats -> Nat]
      BY <2>1, <2>2, <1>11, FileChanges
    <3>2. reporting = "stix opened" /\ reporting' = "misp"
      BY <2>1, <2>2 DEF Opened, NextReport
    <3>3. ~interrupted => Files(reporting', generation, report'["stix"], report'["misp"])
      BY <3>1, <3>2, <1>11 DEF Files
    <3>4. ~interrupted' => Files(reporting', generation', report'["stix"], report'["misp"])
      BY <3>3, <2>1
    <3>5. reporting' \in Reporting /\ (reporting' # "sleep" => generation' > 0)
      BY <3>2, <2>1, <1>11 DEF Reporting
    <3>6. report'["stix"] <= generation' /\ report'["misp"] <= generation'
      BY <3>1, <2>1, <1>11
    <3> QED BY <3>1, <3>4, <3>5, <3>6, <2>1, <1>11 DEF ReportInv
  <2>3. CASE f = "misp"
    <3>1. report'["misp"] = generation /\ report'["stix"] = report["stix"] /\ report' \in [Formats -> Nat]
      BY <2>1, <2>3, <1>11, FileChanges
    <3>2. reporting = "misp opened" /\ reporting' = "sleep"
      BY <2>1, <2>3 DEF Opened, NextReport
    <3>3. ~interrupted => Files(reporting', generation, report'["stix"], report'["misp"])
      BY <3>1, <3>2, <1>11 DEF Files
    <3>4. ~interrupted' => Files(reporting', generation', report'["stix"], report'["misp"])
      BY <3>3, <2>1
    <3>5. reporting' \in Reporting /\ (reporting' # "sleep" => generation' > 0)
      BY <3>2, <2>1, <1>11 DEF Reporting
    <3>6. report'["stix"] <= generation' /\ report'["misp"] <= generation'
      BY <3>1, <2>1, <1>11
    <3> QED BY <3>1, <3>4, <3>5, <3>6, <2>1, <1>11 DEF ReportInv
  <2> QED BY <2>2, <2>3 DEF Formats
<1>6. ASSUME NEW f \in Formats, ReportFails(f)
      PROVE  ReportInv'
  BY <1>6 DEF ReportFails, ReportInv, Opened, NextReport, Reporting, Formats
<1>7. ASSUME NEW isReport \in BOOLEAN, Chat(isReport)
      PROVE  ReportInv'
  BY <1>1, <1>7 DEF Chat, reportVars
<1>8. CASE BotThread
  BY <1>1, <1>8 DEF BotThread, GetUpdates, TakeUpdate, UpdatesDone, PollChannel, ChannelSeen,
                    ReadReport, Answer, reportVars
<1>9. CASE Restart
  BY <1>9 DEF Restart, ReportInv, Files, Reporting
<1>10. CASE UNCHANGED iocVars
  BY <1>1, <1>10 DEF iocVars
<1> QED BY <1>2, <1>3, <1>4, <1>5, <1>6, <1>7, <1>8, <1>9, <1>10 DEF IocNext

LEMMA ReadingInvStep == ReportInv /\ ReadingInv /\ [IocNext]_iocVars => ReadingInv'
<1> SUFFICES ASSUME ReportInv, ReadingInv, [IocNext]_iocVars PROVE ReadingInv'
  OBVIOUS
<1>1. ASSUME generation' \in Nat, generation <= generation', ~interrupted' => ~interrupted,
             UNCHANGED reading, bot' = bot \/ bot' # "answer"
      PROVE  ReadingInv'
  BY <1>1 DEF ReportInv, ReadingInv, Formats, ReportsConsistent
<1>2. ASSUME generation' \in Nat, reading' = Nothing
      PROVE  ReadingInv'
  BY <1>2 DEF ReadingInv, Nothing, Formats, ReportsConsistent
<1>3. generation \in Nat
  BY DEF ReportInv
<1>4. CASE ToolDetected \/ AnomalyReported \/ AuthAnalysed \/ FileAnalysed
  BY <1>1, <1>3, <1>4 DEF ToolDetected, AnomalyReported, AuthAnalysed, FileAnalysed, AddIocs, botVars
<1>5. CASE ReportsBegin
  BY <1>1, <1>3, <1>5 DEF ReportsBegin, botVars
<1>6. ASSUME NEW f \in Formats, OpenReport(f) \/ WriteReport(f) \/ ReportFails(f)
      PROVE  ReadingInv'
  BY <1>1, <1>3, <1>6 DEF OpenReport, WriteReport, ReportFails, botVars
<1>7. ASSUME NEW isReport \in BOOLEAN, Chat(isReport)
      PROVE  ReadingInv'
  BY <1>1, <1>3, <1>7 DEF Chat, reportVars
<1>8. CASE GetUpdates \/ TakeUpdate \/ UpdatesDone \/ PollChannel \/ ChannelSeen
  BY <1>1, <1>3, <1>8 DEF GetUpdates, TakeUpdate, UpdatesDone, PollChannel, ChannelSeen, reportVars
<1>9. ASSUME NEW f \in Formats, ReadReport(f)
      PROVE  ReadingInv'
  <2>1. PICK content \in {0, report[f]} : reading' = [reading EXCEPT ![f] = content]
    BY <1>9 DEF ReadReport
  <2>2. /\ bot = f /\ bot' = IF f = "stix" THEN "misp" ELSE "answer"
        /\ UNCHANGED <<generation, interrupted>>
    BY <1>9 DEF ReadReport, reportVars
  <2>3. content \in Nat /\ content <= generation
    BY DEF ReportInv, Formats
  <2>4. reading' \in [Formats -> Nat]
    BY <2>1, <2>3 DEF ReadingInv
  <2>5. CASE f = "stix"
    <3>1. reading'["stix"] = content /\ bot' # "answer"
      BY <2>1, <2>2, <2>5 DEF ReadingInv, Formats
    <3> QED BY <3>1, <2>2, <2>3, <2>4 DEF ReadingInv, ReportsConsistent
  <2>6. CASE f = "misp"
    <3>1. reading'["misp"] = content /\ reading'["stix"] = reading["stix"]
      BY <2>1, <2>6 DEF ReadingInv, Formats
    <3>2. reading["stix"] \in Nat /\ reading["stix"] <= generation
      BY DEF ReadingInv, Formats
    <3>3. ~interrupted /\ content > 0 => content + 1 >= generation
      <4>1. ~interrupted => Files(reporting, generation, report["stix"], report["misp"])
        BY DEF ReportInv
      <4>2. content \in {0, report["misp"]} /\ report["misp"] \in Nat
        BY <2>6 DEF ReportInv, Formats
      <4>3. ASSUME Files(reporting, generation, report["stix"], report["misp"]), report["misp"] > 0
            PROVE  report["misp"] + 1 >= generation
        <5>1. report["misp"] \in {generation, generation - 1, 0}
          BY <4>3 DEF Files
        <5> QED BY <4>2, <4>3, <5>1, <1>3
      <4> QED BY <4>1, <4>2, <4>3, <1>3
    <3> QED BY <3>1, <3>2, <3>3, <2>2, <2>3, <2>4, <1>3 DEF ReadingInv, ReportsConsistent
  <2> QED BY <2>5, <2>6 DEF Formats
<1>10. CASE Answer
  BY <1>2, <1>3, <1>10 DEF Answer, reportVars
<1>11. CASE Restart
  BY <1>2, <1>3, <1>11 DEF Restart
<1>12. CASE UNCHANGED iocVars
  BY <1>1, <1>3, <1>12 DEF iocVars
<1> QED BY <1>4, <1>5, <1>6, <1>7, <1>8, <1>9, <1>10, <1>11, <1>12 DEF IocNext, BotThread

\* The two documents of an answer are of one generation or of two that follow each
\* other, unless a report was cut off.
THEOREM ReportsBelongTogether == IocSpec => []ReportsConsistent
<1>1. ReadingInv => ReportsConsistent
  BY DEF ReadingInv
<1> QED BY <1>1, ReportInvInit, ReportInvStep, ReadingInvStep, PTL DEF IocSpec

\* A set of numbers up to n has a largest.
LEMMA Largest ==
    ASSUME NEW n \in Nat, NEW S \in SUBSET (1..n), S # {}
    PROVE  LET m == CHOOSE i \in S : \A k \in S : k <= i
           IN  m \in S /\ \A k \in S : k <= m
<1> DEFINE T == {x \in Nat : n - x \in S}
<1>1. T \in SUBSET Nat /\ T # {}
  <2>1. PICK k \in S : TRUE
    OBVIOUS
  <2>2. n - k \in Nat /\ n - (n - k) = k
    BY <2>1
  <2> QED BY <2>2
<1>2. PICK x \in T : \A y \in T : x <= y
  <2>1. PICK x \in T : \A y \in T : ~(<<y, x>> \in OpToRel(<, Nat))
    BY <1>1, NatLessThanWellFounded, WFMin
  <2>2. \A y \in T : ~(y < x)
    BY <2>1 DEF OpToRel
  <2> QED BY <2>2
<1>3. n - x \in S
  BY <1>2
<1>4. \A k \in S : k <= n - x
  <2> SUFFICES ASSUME NEW k \in S PROVE k <= n - x
    OBVIOUS
  <2>1. k \in Nat /\ n - k \in Nat /\ n - (n - k) = k
    OBVIOUS
  <2>2. n - k \in T
    BY <2>1
  <2>3. x <= n - k
    BY <2>2, <1>2
  <2> QED BY <2>1, <2>3
<1> QED BY <1>3, <1>4

AnswerRecords == [to : Nat, run : Nat]

\* What the bot comes to next lies behind what it has seen, in the order of the chat.
InboxInv ==
    /\ chat \in Seq(BOOLEAN) /\ confirmed \in Nat
    /\ seen \in Nat /\ seen <= Len(chat)
    /\ inbox \in Seq(Nat) /\ \A k \in DOMAIN inbox : inbox[k] <= Len(chat)
    /\ platform = "telegram" => Increasing(inbox) /\ \A k \in DOMAIN inbox : seen < inbox[k]

\* The answers of this run are for messages that the bot has seen, and while it
\* answers one, that one has no answer yet.
AnswerInv ==
    /\ restarts \in Nat
    /\ answers \in Seq(AnswerRecords)
    /\ \A k \in DOMAIN answers :
          /\ answers[k].run <= restarts
          /\ answers[k].run = restarts =>
                /\ answers[k].to <= seen
                /\ bot \in {"stix", "misp", "answer"} => answers[k].to < seen
    /\ AnsweredOnce

LEMMA AnswerInvInit == IocInit => InboxInv /\ AnswerInv
BY DEF IocInit, InboxInv, AnswerInv, AnsweredOnce, Increasing

LEMMA InboxInvStep == InboxInv /\ [IocNext]_iocVars => InboxInv'
<1> SUFFICES ASSUME InboxInv, [IocNext]_iocVars PROVE InboxInv'
  OBVIOUS
<1>0. /\ chat \in Seq(BOOLEAN) /\ Len(chat) \in Nat /\ DOMAIN chat = 1..Len(chat)
      /\ confirmed \in Nat /\ seen \in Nat /\ seen <= Len(chat)
      /\ inbox \in Seq(Nat) /\ DOMAIN inbox = 1..Len(inbox)
      /\ \A k \in DOMAIN inbox : inbox[k] \in Nat /\ inbox[k] <= Len(chat)
  BY DEF InboxInv
<1>1. ASSUME UNCHANGED <<platform, chat, confirmed, seen, inbox>>
      PROVE  InboxInv'
  BY <1>1 DEF InboxInv, Increasing
<1>2. ASSUME inbox' = <<>>, UNCHANGED <<chat, confirmed>>, seen' \in Nat, seen' <= Len(chat)
      PROVE  InboxInv'
  BY <1>0, <1>2 DEF InboxInv, Increasing
<1>3. CASE ToolDetected \/ AnomalyReported \/ AuthAnalysed \/ FileAnalysed
  BY <1>0, <1>1, <1>3 DEF ToolDetected, AnomalyReported, AuthAnalysed, FileAnalysed, AddIocs, botVars
<1>4. CASE ReportsBegin
  BY <1>0, <1>1, <1>4 DEF ReportsBegin, botVars
<1>5. ASSUME NEW f \in Formats, OpenReport(f) \/ WriteReport(f) \/ ReportFails(f)
      PROVE  InboxInv'
  BY <1>0, <1>1, <1>5 DEF OpenReport, WriteReport, ReportFails, botVars
<1>6. ASSUME NEW isReport \in BOOLEAN, Chat(isReport)
      PROVE  InboxInv'
  <2>1. chat' \in Seq(BOOLEAN) /\ Len(chat') = Len(chat) + 1
    BY <1>0, <1>6 DEF Chat
  <2>2. UNCHANGED <<platform, confirmed, seen, inbox>>
    BY <1>6 DEF Chat
  <2>3. seen' <= Len(chat') /\ \A k \in DOMAIN inbox : inbox[k] <= Len(chat')
    BY <2>1, <2>2, <1>0
  <2> QED BY <2>1, <2>2, <2>3 DEF InboxInv, Increasing
<1>7. CASE GetUpdates
  <2>1. UNCHANGED <<platform, chat, seen>> /\ inbox' = Ids(confirmed' + 1)
        /\ confirmed' = IF seen = 0 THEN confirmed ELSE seen
    BY <1>7 DEF GetUpdates
  <2>2. confirmed' \in Nat /\ confirmed' + 1 \in Nat /\ confirmed' + 1 > seen
    BY <2>1, <1>0
  <2>3. PICK first \in Nat : first = confirmed' + 1
    <3>1. \A c \in Nat : \E first \in Nat : first = c + 1
      OBVIOUS
    <3> QED BY <2>2, <3>1
  <2>4. PICK n \in Int : n = Len(chat) + 1 - first
    BY <2>3, <1>0
  <2>5. inbox' = [i \in 1..n |-> first + i - 1]
    BY <2>1, <2>3, <2>4 DEF Ids
  <2>6. CASE n <= 0
    <3>1. 1..n = 1..0
      BY <2>6
    <3>2. inbox' = <<>>
      BY <2>5, <3>1
    <3> QED BY <3>2, <2>1, <2>2, <1>0 DEF InboxInv, Increasing
  <2>7. CASE n > 0
    <3>1. n \in Nat /\ DOMAIN inbox' = 1..n /\ \A i \in 1..n : inbox'[i] = first + i - 1
      BY <2>5, <2>7
    <3>2. \A i \in 1..n : first + i - 1 \in Nat /\ first + i - 1 <= Len(chat) /\ seen < first + i - 1
      <4>1. first > seen
        BY <2>2, <2>3
      <4> QED BY <3>1, <4>1, <2>3, <2>4, <1>0
    <3>3. inbox' \in [1..n -> Nat]
      BY <2>5, <3>2
    <3>4. inbox' \in Seq(Nat)
      BY <3>1, <3>3
    <3>5. \A i, j \in DOMAIN inbox' : i < j => inbox'[i] < inbox'[j]
      BY <3>1, <2>3
    <3>6. \A k \in DOMAIN inbox' : inbox'[k] <= Len(chat) /\ seen < inbox'[k]
      BY <3>1, <3>2
    <3> QED BY <3>4, <3>5, <3>6, <2>1, <2>2, <1>0 DEF InboxInv, Increasing
  <2> QED BY <2>6, <2>7, <2>1, <1>0
<1>8. CASE TakeUpdate
  <2>1. /\ platform = "telegram" /\ inbox # <<>> /\ seen' = Head(inbox) /\ inbox' = Tail(inbox)
        /\ UNCHANGED <<platform, chat, confirmed>>
    BY <1>8 DEF TakeUpdate
  <2>2. Increasing(inbox)
    BY <2>1 DEF InboxInv
  <2>3. /\ seen' \in Nat /\ inbox' \in Seq(Nat) /\ Increasing(inbox')
        /\ \A k \in DOMAIN inbox' : seen' < inbox'[k] /\ inbox'[k] \in Range(inbox)
        /\ seen' \in Range(inbox)
    BY <2>1, <2>2, <1>0, HeadAndTail
  <2>4. seen' <= Len(chat) /\ \A k \in DOMAIN inbox' : inbox'[k] <= Len(chat)
    BY <2>3, <1>0 DEF Range
  <2> QED BY <2>1, <2>3, <2>4, <1>0 DEF InboxInv
<1>9. CASE PollChannel
  <2>1. CASE seen' = Len(chat) /\ UNCHANGED inbox
    BY <1>9, <2>1, <1>0 DEF PollChannel, InboxInv
  <2>2. CASE seen' # Len(chat) \/ inbox' # inbox
    <3> DEFINE asked == {i \in DOMAIN chat : i > Len(chat) - Fetched /\ i > seen /\ chat[i]}
               newest == {i \in DOMAIN chat : i > Len(chat) - Fetched}
    <3>0. asked = {i \in newest : i > seen /\ chat[i]}
      OBVIOUS
    <3>1. /\ asked # {} /\ seen' = CHOOSE i \in asked : \A k \in asked : k <= i
          /\ inbox' = <<Len(chat)>> /\ UNCHANGED <<platform, chat, confirmed>>
          /\ platform = "discord"
      BY <1>9, <2>2, <3>0 DEF PollChannel
    <3>2. asked \in SUBSET (1..Len(chat))
      BY <1>0
    <3> HIDE DEF asked
    <3>3. seen' \in asked
      BY <3>1, <3>2, <1>0, Largest
    <3>4. seen' \in Nat /\ seen' <= Len(chat)
      BY <3>2, <3>3, <1>0
    <3>5. inbox' \in Seq(Nat) /\ DOMAIN inbox' = {1} /\ inbox'[1] = Len(chat)
      BY <3>1, <1>0
    <3>6. \A k \in DOMAIN inbox' : inbox'[k] <= Len(chat)
      BY <3>5, <1>0
    <3> QED BY <3>1, <3>4, <3>5, <3>6, <1>0 DEF InboxInv
  <2> QED BY <2>1, <2>2, <1>9, <1>0 DEF PollChannel
<1>10. CASE ChannelSeen
  <2>1. Head(inbox) \in Nat /\ Head(inbox) <= Len(chat)
    BY <1>0, <1>10 DEF ChannelSeen
  <2>2. seen' \in Nat /\ seen' <= Len(chat)
    BY <1>0, <2>1, <1>10 DEF ChannelSeen
  <2> QED BY <1>0, <1>2, <1>10, <2>2 DEF ChannelSeen
<1>11. CASE UpdatesDone \/ Answer \/ \E f \in Formats : ReadReport(f)
  BY <1>0, <1>1, <1>11 DEF UpdatesDone, Answer, ReadReport
<1>12. CASE Restart
  BY <1>0, <1>2, <1>12 DEF Restart
<1>13. CASE UNCHANGED iocVars
  BY <1>0, <1>1, <1>13 DEF iocVars
<1> QED BY <1>3, <1>4, <1>5, <1>6, <1>7, <1>8, <1>9, <1>10, <1>11, <1>12, <1>13 DEF IocNext, BotThread, InboxInv

LEMMA AnswerInvStep == InboxInv /\ AnswerInv /\ [IocNext]_iocVars => AnswerInv'
<1> SUFFICES ASSUME InboxInv, AnswerInv, [IocNext]_iocVars PROVE AnswerInv'
  OBVIOUS
<1> DEFINE Answering == {"stix", "misp", "answer"}
<1>0. /\ restarts \in Nat /\ answers \in Seq(AnswerRecords) /\ seen \in Nat /\ Len(chat) \in Nat
      /\ seen <= Len(chat)
      /\ DOMAIN answers = 1..Len(answers) /\ Len(answers) \in Nat
      /\ \A k \in DOMAIN answers : answers[k] \in AnswerRecords
      /\ \A k \in DOMAIN answers : answers[k].to \in Nat /\ answers[k].run \in Nat
  <2>1. /\ restarts \in Nat /\ answers \in Seq(AnswerRecords) /\ seen \in Nat /\ seen <= Len(chat)
        /\ chat \in Seq(BOOLEAN)
    BY DEF AnswerInv, InboxInv
  <2>2. /\ DOMAIN answers = 1..Len(answers) /\ Len(answers) \in Nat /\ Len(chat) \in Nat
        /\ \A k \in DOMAIN answers : answers[k] \in AnswerRecords
    BY <2>1
  <2>3. \A a \in AnswerRecords : a.to \in Nat /\ a.run \in Nat
    BY DEF AnswerRecords
  <2> QED BY <2>1, <2>2, <2>3
<1>1. ASSUME UNCHANGED <<answers, restarts>>, seen' \in Nat, seen <= seen',
             bot' \in Answering => seen < seen' \/ (seen' = seen /\ bot \in Answering)
      PROVE  AnswerInv'
  <2>1. ASSUME NEW k \in DOMAIN answers, answers[k].run = restarts
        PROVE  /\ answers[k].to <= seen'
               /\ bot' \in Answering => answers[k].to < seen'
    <3>1. answers[k].to \in Nat /\ answers[k].to <= seen /\ (bot \in Answering => answers[k].to < seen)
      BY <1>0, <2>1 DEF AnswerInv
    <3>2. ASSUME NEW to \in Nat, to <= seen, bot \in Answering => to < seen
          PROVE  to <= seen' /\ (bot' \in Answering => to < seen')
      <4> HIDE DEF Answering
      <4>1. CASE bot' \in Answering
        BY <1>0, <1>1, <3>2, <4>1
      <4>2. CASE ~(bot' \in Answering)
        BY <1>0, <1>1, <3>2, <4>2
      <4> QED BY <4>1, <4>2
    <3> QED BY <3>1, <3>2
  <2> QED BY <1>1, <2>1 DEF AnswerInv, AnsweredOnce
<1>2. ASSUME UNCHANGED <<answers, restarts, seen, bot>>
      PROVE  AnswerInv'
  BY <1>0, <1>1, <1>2
<1>3. CASE ToolDetected \/ AnomalyReported \/ AuthAnalysed \/ FileAnalysed
  BY <1>2, <1>3 DEF ToolDetected, AnomalyReported, AuthAnalysed, FileAnalysed, AddIocs, botVars
<1>4. CASE ReportsBegin
  BY <1>2, <1>4 DEF ReportsBegin, botVars
<1>5. ASSUME NEW f \in Formats, OpenReport(f) \/ WriteReport(f) \/ ReportFails(f)
      PROVE  AnswerInv'
  BY <1>2, <1>5 DEF OpenReport, WriteReport, ReportFails, botVars
<1>6. ASSUME NEW isReport \in BOOLEAN, Chat(isReport)
      PROVE  AnswerInv'
  BY <1>2, <1>6 DEF Chat
<1>7. CASE GetUpdates \/ UpdatesDone
  BY <1>0, <1>1, <1>7 DEF GetUpdates, UpdatesDone
<1>8. CASE TakeUpdate
  <2>1. /\ platform = "telegram" /\ inbox # <<>> /\ seen' = Head(inbox)
        /\ UNCHANGED <<answers, restarts>>
    BY <1>8 DEF TakeUpdate
  <2>2. seen' = inbox[1] /\ 1 \in DOMAIN inbox /\ inbox[1] \in Nat
    BY <2>1 DEF InboxInv
  <2>3. seen < seen' /\ seen' \in Nat
    BY <2>1, <2>2 DEF InboxInv
  <2> HIDE DEF Answering
  <2> QED BY <2>1, <2>3, <1>0, <1>1
<1>9. CASE PollChannel
  <2>1. CASE seen' = Len(chat) /\ UNCHANGED bot
    <3>1. bot = "poll" /\ UNCHANGED <<answers, restarts>>
      BY <1>9 DEF PollChannel
    <3> QED BY <1>0, <1>1, <2>1, <3>1
  <2>2. CASE seen' # Len(chat) \/ bot' # bot
    <3> DEFINE asked == {i \in DOMAIN chat : i > Len(chat) - Fetched /\ i > seen /\ chat[i]}
               newest == {i \in DOMAIN chat : i > Len(chat) - Fetched}
    <3>0. asked = {i \in newest : i > seen /\ chat[i]}
      OBVIOUS
    <3>1. /\ asked # {} /\ seen' = CHOOSE i \in asked : \A k \in asked : k <= i
          /\ UNCHANGED <<answers, restarts>>
      BY <1>9, <2>2, <3>0 DEF PollChannel
    <3>2. asked \in SUBSET (1..Len(chat)) /\ \A i \in asked : i > seen
      BY DEF InboxInv
    <3> HIDE DEF asked
    <3>3. seen' \in asked
      BY <3>1, <3>2, <1>0, Largest
    <3>4. seen' \in Nat /\ seen < seen'
      BY <3>2, <3>3, <1>0
    <3> HIDE DEF Answering
    <3> QED BY <3>1, <3>4, <1>0, <1>1
  <2> QED BY <2>1, <2>2
<1>10. CASE ChannelSeen
  <2>1. Head(inbox) \in Nat
    BY <1>10 DEF ChannelSeen, InboxInv
  <2> QED BY <1>0, <1>1, <1>10, <2>1 DEF ChannelSeen
<1>11. ASSUME NEW f \in Formats, ReadReport(f)
       PROVE  AnswerInv'
  BY <1>0, <1>1, <1>11 DEF ReadReport, Formats
<1>12. CASE Answer
  <2> DEFINE new == [to |-> seen, run |-> restarts]
  <2>1. /\ bot = "answer" /\ answers' = Append(answers, new) /\ bot' = "loop"
        /\ UNCHANGED <<restarts, seen>>
    BY <1>12 DEF Answer
  <2>2. new \in AnswerRecords /\ new.to = seen /\ new.run = restarts
    BY <1>0 DEF AnswerRecords
  <2> HIDE DEF new
  <2>3. /\ answers' \in Seq(AnswerRecords) /\ DOMAIN answers' = DOMAIN answers \cup {Len(answers) + 1}
        /\ answers'[Len(answers) + 1] = new /\ \A k \in DOMAIN answers : answers'[k] = answers[k]
    BY <1>0, <2>1, <2>2
  <2>4. \A k \in DOMAIN answers : /\ answers[k].run <= restarts
                                  /\ answers[k].run = restarts => answers[k].to < seen
    BY <2>1 DEF AnswerInv
  <2>5. ASSUME NEW k \in DOMAIN answers'
        PROVE  answers'[k].run <= restarts /\ (answers'[k].run = restarts => answers'[k].to <= seen)
    BY <1>0, <2>2, <2>3, <2>4
  <2>6. ASSUME NEW i \in DOMAIN answers', NEW j \in DOMAIN answers', i < j
        PROVE  answers'[i].to < answers'[j].to \/ answers'[i].run < answers'[j].run
    <3>1. i \in DOMAIN answers
      BY <1>0, <2>3, <2>6
    <3>2. CASE j \in DOMAIN answers
      BY <2>3, <2>6, <3>1, <3>2 DEF AnswerInv, AnsweredOnce
    <3>3. CASE j = Len(answers) + 1
      BY <1>0, <2>2, <2>3, <2>4, <3>1, <3>3
    <3> QED BY <2>3, <3>2, <3>3
  <2> QED BY <1>0, <2>1, <2>3, <2>5, <2>6 DEF AnswerInv, AnsweredOnce
<1>13. CASE Restart
  <2>1. restarts' = restarts + 1 /\ UNCHANGED answers
    BY <1>13 DEF Restart
  <2>2. \A k \in DOMAIN answers : answers[k].run <= restarts' /\ answers[k].run # restarts'
    BY <1>0, <2>1 DEF AnswerInv
  <2> QED BY <1>0, <2>1, <2>2 DEF AnswerInv, AnsweredOnce
<1>14. CASE UNCHANGED iocVars
  BY <1>2, <1>14 DEF iocVars
<1> QED BY <1>3, <1>4, <1>5, <1>6, <1>7, <1>8, <1>9, <1>10, <1>11, <1>12, <1>13, <1>14
        DEF IocNext, BotThread

\* Within a run of the program no request is answered twice and no answer goes to an
\* older request than the one before.
THEOREM RequestsAnsweredOnce == IocSpec => []AnsweredOnce
<1>1. AnswerInv => AnsweredOnce
  BY DEF AnswerInv
<1> QED BY <1>1, AnswerInvInit, InboxInvStep, AnswerInvStep, PTL DEF IocSpec

-----------------------------------------------------------------------------
(* The event log                                                           *)

Stages == {"new", "connected", "failed", "ended", "closed", "rejected"}
EventNames == {"session.start", "session.end", "telnet_error", "telnet_exception",
               "connection_rejected", "other", "ml", "service"}
Addresses == Clients \cup {NoClient}
Entries == [session : SessionNames, event : EventNames, src_ip : Addresses, about : Addresses]

LogTypes ==
    /\ session_logs \subseteq Clients
    /\ session_to_ip \in [SessionNames -> Addresses]
    /\ journal \in Seq(Entries)
    /\ audit \in [Clients -> Seq(Nat)] /\ ml_analysis \in [Clients -> Seq(Nat)]
    /\ client \in [Clients -> [stage : Stages, shells : Nat]]

\* What AuditIsTheSession says of one client.
AuditInv(c) ==
    /\ Lists(audit[c], {i \in DOMAIN journal : Belongs(c, i)})
    /\ Lists(ml_analysis[c], {i \in DOMAIN journal : Belongs(c, i) /\ journal[i].event = "ml"})
    /\ \A k \in DOMAIN audit[c] : journal[audit[c][k]].src_ip = c

\* No event of that name in c's session so far.
Never(c, event) == \A i \in DOMAIN journal : ~(journal[i].session = c /\ journal[i].event = event)
Silent(c) == \A i \in DOMAIN journal : journal[i].session # c

\* How far a client has got, whether its files are registered, and what has been
\* logged about it go together.
StageInv(c) ==
    /\ client[c].stage \in {"new", "rejected"} =>
          Silent(c) /\ c \notin session_logs /\ client[c].shells = 0
    /\ c \in TelnetClients =>
          /\ client[c].shells = 0
          /\ client[c].stage \in {"connected", "failed", "ended"} => c \in session_logs /\ Never(c, "session.end")
          /\ client[c].stage = "closed" => c \notin session_logs /\ ~Never(c, "session.end")
    /\ c \notin TelnetClients =>
          /\ client[c].stage \notin {"failed", "ended"}
          /\ c \notin session_logs => audit[c] = <<>> /\ Never(c, "session.start")
          /\ c \in session_logs /\ audit[c] = <<>> => Silent(c)
    /\ session_to_ip[c] \in {c, NoClient}
    /\ c \in session_logs => session_to_ip[c] = c

\* What log_event is called with: the session's client is not another's, and what is
\* logged without an address has one by now, if the session is registered.
Call(s, event, src_ip, about, ips, logs) ==
    /\ s \in SessionNames /\ event \in EventNames
    /\ src_ip \in Addresses /\ about \in Addresses
    /\ ips \in [SessionNames -> Addresses] /\ logs \subseteq Clients
    /\ s \in Clients => src_ip \in {s, NoClient} /\ ips[s] \in {s, NoClient}
    /\ s \in logs => src_ip = s \/ ips[s] = s

\* log_event adds one event, and one line to the files of a registered session.
LEMMA LogEventAdds ==
    ASSUME LogTypes,
           NEW s, NEW event, NEW src_ip, NEW about, NEW ips, NEW logs,
           Call(s, event, src_ip, about, ips, logs),
           LogEvent(s, event, src_ip, about, ips, logs)
    PROVE  /\ journal' \in Seq(Entries) /\ Len(journal) \in Nat
           /\ DOMAIN journal = 1..Len(journal) /\ DOMAIN journal' = 1..(Len(journal) + 1)
           /\ \A i \in 1..Len(journal) : journal'[i] = journal[i]
           /\ journal'[Len(journal) + 1].session = s
           /\ journal'[Len(journal) + 1].event = event
           /\ s \in logs => journal'[Len(journal) + 1].src_ip = s
           /\ audit' = IF s \in logs THEN [audit EXCEPT ![s] = Append(@, Len(journal) + 1)] ELSE audit
           /\ ml_analysis' = IF s \in logs /\ event = "ml"
                             THEN [ml_analysis EXCEPT ![s] = Append(@, Len(journal) + 1)]
                             ELSE ml_analysis
           /\ audit' \in [Clients -> Seq(Nat)] /\ ml_analysis' \in [Clients -> Seq(Nat)]
           /\ session_to_ip' \in [SessionNames -> Addresses]
           /\ \A c \in SessionNames \ {s} : session_to_ip'[c] = ips[c]
           /\ s \in Clients => session_to_ip'[s] \in {s, NoClient} /\ (ips[s] = s => session_to_ip'[s] = s)
<1> DEFINE ip == IF src_ip = NoClient THEN ips[s] ELSE src_ip
           r == [session |-> s, event |-> event, src_ip |-> ip, about |-> about]
           n == Len(journal)
<1>1. /\ journal' = Append(journal, r)
      /\ session_to_ip' = IF ips[s] = NoClient THEN [ips EXCEPT ![s] = ip] ELSE ips
      /\ audit' = IF s \in logs THEN [audit EXCEPT ![s] = Append(@, n + 1)] ELSE audit
      /\ ml_analysis' = IF s \in logs /\ event = "ml"
                        THEN [ml_analysis EXCEPT ![s] = Append(@, n + 1)] ELSE ml_analysis
  BY DEF LogEvent
<1>2. ip \in Addresses /\ (s \in logs => ip = s)
  BY SessionLogAssumption DEF Call, Clients
<1>10. s \in Clients => ip \in {s, NoClient}
  BY DEF Call
<1>3. r \in Entries /\ r.session = s /\ r.event = event /\ r.src_ip = ip
  BY <1>2 DEF Call, Entries
<1>4. journal \in Seq(Entries) /\ Len(journal) \in Nat /\ DOMAIN journal = 1..Len(journal)
  BY DEF LogTypes
<1> HIDE DEF r, ip
<1>5. /\ journal' \in Seq(Entries) /\ DOMAIN journal' = 1..(Len(journal) + 1)
      /\ \A i \in 1..Len(journal) : journal'[i] = journal[i]
      /\ journal'[n + 1] = r
  BY <1>1, <1>3, <1>4
<1>6. /\ audit' \in [Clients -> Seq(Nat)] /\ ml_analysis' \in [Clients -> Seq(Nat)]
  <2>1. ASSUME NEW f \in [Clients -> Seq(Nat)], NEW m \in Nat, s \in Clients
        PROVE  [f EXCEPT ![s] = Append(@, m)] \in [Clients -> Seq(Nat)]
    BY <2>1
  <2>2. n + 1 \in Nat /\ (s \in logs => s \in Clients)
    BY <1>4 DEF Call
  <2>3. audit \in [Clients -> Seq(Nat)] /\ ml_analysis \in [Clients -> Seq(Nat)]
    BY DEF LogTypes
  <2> HIDE DEF n
  <2> QED BY <1>1, <2>1, <2>2, <2>3
<1>7. session_to_ip' \in [SessionNames -> Addresses]
  BY <1>1, <1>2 DEF Call
<1>8. \A c \in SessionNames \ {s} : session_to_ip'[c] = ips[c]
  BY <1>1 DEF Call
<1>9. s \in Clients => session_to_ip'[s] \in {s, NoClient} /\ (ips[s] = s => session_to_ip'[s] = s)
  <2>1. ASSUME s \in Clients PROVE s # NoClient
    BY <2>1, SessionLogAssumption
  <2> QED BY <1>1, <1>10, <2>1 DEF Call
<1> QED BY <1>1, <1>2, <1>3, <1>4, <1>5, <1>6, <1>7, <1>8, <1>9

\* The next number is the last of its list.
LEMMA ListsNext ==
    ASSUME NEW s \in Seq(Nat), NEW n \in Nat, NEW S \in SUBSET (1..n), Lists(s, S)
    PROVE  Lists(Append(s, n + 1), S \cup {n + 1})
<1>1. \A i \in DOMAIN s : s[i] < n + 1
  BY DEF Lists, Range
<1>2. Increasing(s) /\ n + 1 \in Nat
  BY DEF Lists, Increasing
<1>3. Increasing(Append(s, n + 1)) /\ Range(Append(s, n + 1)) = Range(s) \cup {n + 1}
  BY <1>1, <1>2, AppendEntry
<1> QED BY <1>3 DEF Lists, Increasing

\* An event that is not c's leaves c's files what they ought to be.
LEMMA OthersEvent ==
    ASSUME NEW c \in Clients, NEW n \in Nat, n = Len(journal), LogTypes, AuditInv(c), journal' \in Seq(Entries),
           DOMAIN journal' = 1..(n + 1),
           \A i \in 1..n : journal'[i] = journal[i],
           journal'[n + 1].session # c,
           UNCHANGED <<audit[c], ml_analysis[c]>>
    PROVE  AuditInv(c)'
<1>1. n \in Nat /\ DOMAIN journal = 1..n /\ audit[c] \in Seq(Nat)
  BY DEF LogTypes
<1>2. \A k \in DOMAIN audit[c] : audit[c][k] \in 1..n
  BY <1>1 DEF AuditInv, Lists, Range
<1>3. ASSUME NEW i \in 1..n
      PROVE  Belongs(c, i)' <=> Belongs(c, i)
  <2>0. (\A j \in 1..i : journal'[j] = journal[j]) /\ (\A j \in 1..(i - 1) : journal'[j] = journal[j])
    BY <1>3
  <2>1. \A e : Happened(c, e, i)' <=> Happened(c, e, i)
    BY <2>0 DEF Happened
  <2>2. \A e : Happened(c, e, i - 1)' <=> Happened(c, e, i - 1)
    BY <2>0 DEF Happened
  <2>3. audit[c] # <<>> => audit[c][1] \in 1..n
    BY <1>1, <1>2
  <2>4. journal'[i] = journal[i] /\ (audit[c] # <<>> => journal'[audit[c][1]] = journal[audit[c][1]])
    BY <1>3, <2>3
  <2>5. audit'[c] = audit[c]
    OBVIOUS
  <2> QED BY <2>1, <2>2, <2>4, <2>5 DEF Belongs
<1>4. ~Belongs(c, n + 1)'
  BY DEF Belongs
<1>5. {i \in DOMAIN journal' : Belongs(c, i)'} = {i \in DOMAIN journal : Belongs(c, i)}
  BY <1>1, <1>3, <1>4
<1>6. {i \in DOMAIN journal' : Belongs(c, i)' /\ journal'[i].event = "ml"}
        = {i \in DOMAIN journal : Belongs(c, i) /\ journal[i].event = "ml"}
  BY <1>1, <1>3, <1>4
<1>7. \A k \in DOMAIN audit'[c] : journal'[audit'[c][k]].src_ip = c
  BY <1>2 DEF AuditInv
<1> QED BY <1>5, <1>6, <1>7 DEF AuditInv, Lists

\* An event of c's session goes into c's files exactly if they are registered, and
\* whether it belongs there is decided by what came before it.
LEMMA OwnEvent ==
    ASSUME NEW c \in Clients, NEW n \in Nat, n = Len(journal), LogTypes, AuditInv(c), NEW event \in EventNames, NEW filed \in BOOLEAN,
           journal' \in Seq(Entries),
           DOMAIN journal' = 1..(n + 1),
           \A i \in 1..n : journal'[i] = journal[i],
           journal'[n + 1].session = c,
           journal'[n + 1].event = event,
           filed => journal'[n + 1].src_ip = c,
           audit'[c] = IF filed THEN Append(audit[c], n + 1) ELSE audit[c],
           ml_analysis'[c] = IF filed /\ event = "ml" THEN Append(ml_analysis[c], n + 1)
                             ELSE ml_analysis[c],
           c \in TelnetClients => (filed <=> Never(c, "session.end")),
           c \notin TelnetClients =>
              /\ ~filed => audit[c] = <<>> /\ Never(c, "session.start") /\ event # "session.start"
              /\ filed /\ audit[c] = <<>> =>
                    Silent(c) \/ (event = "session.start" /\ Never(c, "session.start"))
    PROVE  AuditInv(c)'
<1> DEFINE mine == {i \in DOMAIN journal : Belongs(c, i)}
           ml == {i \in DOMAIN journal : Belongs(c, i) /\ journal[i].event = "ml"}
<1>1. /\ n \in Nat /\ DOMAIN journal = 1..n /\ audit[c] \in Seq(Nat) /\ ml_analysis[c] \in Seq(Nat)
      /\ n + 1 \in Nat /\ n + 1 \notin 1..n /\ DOMAIN journal' = 1..n \cup {n + 1}
  BY DEF LogTypes
<1>2. \A k \in DOMAIN audit[c] : audit[c][k] \in 1..n /\ Belongs(c, audit[c][k])
  BY <1>1 DEF AuditInv, Lists, Range
<1>3. audit[c] # <<>> => audit[c][1] \in 1..n /\ 1 \in DOMAIN audit[c] /\ 1 \in DOMAIN audit'[c]
                         /\ audit'[c] # <<>> /\ audit'[c][1] = audit[c][1]
  <2>1. ASSUME audit[c] # <<>>
        PROVE  1 \in DOMAIN audit[c] /\ audit[c][1] \in 1..n
    BY <1>1, <1>2, <2>1
  <2>2. ASSUME NEW t \in Seq(Nat), NEW m \in Nat, t # <<>>
        PROVE  1 \in DOMAIN Append(t, m) /\ Append(t, m) # <<>> /\ Append(t, m)[1] = t[1]
    BY <2>2
  <2>3. CASE audit'[c] = audit[c]
    BY <2>1, <2>3
  <2>4. CASE audit'[c] = Append(audit[c], n + 1)
    <3>1. audit[c] # <<>> => /\ 1 \in DOMAIN Append(audit[c], n + 1) /\ Append(audit[c], n + 1) # <<>>
                             /\ Append(audit[c], n + 1)[1] = audit[c][1]
      BY <1>1, <2>2
    <3> QED BY <2>1, <2>4, <3>1
  <2> QED BY <2>3, <2>4
<1>4. audit[c] = <<>> => audit'[c] = IF filed THEN <<n + 1>> ELSE <<>>
  OBVIOUS
<1>5. ASSUME NEW i \in 1..n, NEW e
      PROVE  /\ Happened(c, e, i)' <=> Happened(c, e, i)
             /\ Happened(c, e, i - 1)' <=> Happened(c, e, i - 1)
             /\ Happened(c, e, i) => ~Never(c, e)
             /\ journal[i].session = c => ~Silent(c)
             /\ journal'[i] = journal[i]
  <2>1. (\A j \in 1..i : journal'[j] = journal[j]) /\ (\A j \in 1..(i - 1) : journal'[j] = journal[j])
    BY <1>5
  <2>2. Happened(c, e, i)' <=> Happened(c, e, i)
    BY <2>1 DEF Happened
  <2>3. Happened(c, e, i - 1)' <=> Happened(c, e, i - 1)
    BY <2>1 DEF Happened
  <2>4. Happened(c, e, i) => ~Never(c, e)
    <3>1. \A j \in 1..i : j \in DOMAIN journal
      BY <1>1, <1>5
    <3> QED BY <3>1 DEF Happened, Never
  <2>5. journal[i].session = c => ~Silent(c)
    BY <1>1, <1>5 DEF Silent
  <2>6. journal'[i] = journal[i]
    BY <1>5
  <2> QED BY <2>2, <2>3, <2>4, <2>5, <2>6
<1>6. ASSUME NEW e
      PROVE  /\ Happened(c, e, n)' <=> ~Never(c, e)
             /\ Happened(c, e, n + 1)' <=> ~Never(c, e) \/ e = event
  <2>1. \A i \in 1..n : i \in DOMAIN journal' /\ journal'[i] = journal[i]
    BY <1>1
  <2>2. Happened(c, e, n)' <=> ~Never(c, e)
    BY <1>1, <2>1 DEF Happened, Never
  <2>3. 1..(n + 1) = 1..n \cup {n + 1}
    BY <1>1
  <2>4. Happened(c, e, n + 1)' <=> Happened(c, e, n)' \/ e = event
    BY <2>3 DEF Happened
  <2> QED BY <2>2, <2>4
<1> HIDE DEF mine, ml
<1>7. ASSUME NEW i \in 1..n
      PROVE  Belongs(c, i)' <=> Belongs(c, i)
  <2>1. CASE c \in TelnetClients
    BY <1>5, <2>1 DEF Belongs
  <2>2. CASE c \notin TelnetClients /\ audit[c] # <<>>
    <3>1. journal'[audit'[c][1]] = journal[audit[c][1]]
      BY <1>3, <1>5, <2>2
    <3> QED BY <1>3, <1>5, <2>2, <3>1 DEF Belongs
  <2>3. CASE c \notin TelnetClients /\ audit[c] = <<>> /\ ~filed
    BY <1>4, <1>5, <2>3 DEF Belongs
  <2>4. CASE c \notin TelnetClients /\ audit[c] = <<>> /\ filed /\ Silent(c)
    BY <1>5, <2>4 DEF Belongs
  <2>5. CASE c \notin TelnetClients /\ audit[c] = <<>> /\ filed /\ event = "session.start"
             /\ Never(c, "session.start")
    <3>1. audit'[c][1] = n + 1 /\ journal'[n + 1].event = "session.start"
      BY <1>4, <2>5
    <3> QED BY <1>5, <2>5, <3>1 DEF Belongs
  <2> QED BY <2>1, <2>2, <2>3, <2>4, <2>5
<1>8. Belongs(c, n + 1)' <=> filed
  <2>0. journal'[n + 1].session = c /\ journal'[n + 1].event = event /\ (n + 1) - 1 = n
    BY <1>1
  <2>1. CASE c \in TelnetClients
    BY <1>6, <2>0, <2>1 DEF Belongs
  <2>2. CASE c \notin TelnetClients /\ ~filed
    BY <1>4, <1>6, <2>0, <2>2 DEF Belongs
  <2>3. CASE c \notin TelnetClients /\ filed /\ audit[c] = <<>>
    <3>1. audit'[c] # <<>> /\ audit'[c][1] = n + 1
      BY <1>4, <2>3
    <3> QED BY <1>6, <2>0, <2>3, <3>1 DEF Belongs
  <2>4. CASE c \notin TelnetClients /\ filed /\ audit[c] # <<>>
    <3>1. /\ audit'[c] # <<>> /\ audit'[c][1] = audit[c][1] /\ audit[c][1] \in 1..n
          /\ journal[audit[c][1]].session = c
      BY <1>2, <1>3, <2>4 DEF Belongs
    <3>2. journal'[audit'[c][1]] = journal[audit[c][1]]
      BY <1>5, <3>1
    <3>3. journal[audit[c][1]].event = "session.start" => ~Never(c, "session.start")
      BY <1>1, <3>1 DEF Never
    <3> QED BY <1>6, <2>0, <2>4, <3>1, <3>2, <3>3 DEF Belongs
  <2> QED BY <2>1, <2>2, <2>3, <2>4
<1>9. {i \in DOMAIN journal' : Belongs(c, i)'} = IF filed THEN mine \cup {n + 1} ELSE mine
  BY <1>1, <1>7, <1>8 DEF mine
<1>10. {i \in DOMAIN journal' : Belongs(c, i)' /\ journal'[i].event = "ml"}
         = IF filed /\ event = "ml" THEN ml \cup {n + 1} ELSE ml
  <2>1. journal'[n + 1].event = event
    OBVIOUS
  <2>2. \A i \in 1..n : journal'[i] = journal[i]
    BY <1>5
  <2> QED BY <1>1, <1>7, <1>8, <2>1, <2>2 DEF ml
<1>11. mine \in SUBSET (1..n) /\ ml \in SUBSET (1..n) /\ Lists(audit[c], mine) /\ Lists(ml_analysis[c], ml)
  BY <1>1 DEF mine, ml, AuditInv
<1>12. Lists(Append(audit[c], n + 1), mine \cup {n + 1}) /\ Lists(Append(ml_analysis[c], n + 1), ml \cup {n + 1})
  BY <1>1, <1>11, ListsNext
<1>13. /\ Lists(audit'[c], {i \in DOMAIN journal' : Belongs(c, i)'})
       /\ Lists(ml_analysis'[c], {i \in DOMAIN journal' : Belongs(c, i)' /\ journal'[i].event = "ml"})
  BY <1>9, <1>10, <1>11, <1>12
<1>14. \A k \in DOMAIN audit'[c] : journal'[audit'[c][k]].src_ip = c
  <2>1. \A k \in DOMAIN audit[c] : journal'[audit[c][k]].src_ip = c
    BY <1>2, <1>5 DEF AuditInv
  <2>2. CASE filed
    <3>1. journal'[n + 1].src_ip = c
      BY <2>2
    <3>2. audit'[c] = Append(audit[c], n + 1)
      BY <2>2
    <3>3. \A k \in DOMAIN audit'[c] : \/ k \in DOMAIN audit[c] /\ audit'[c][k] = audit[c][k]
                                      \/ audit'[c][k] = n + 1
      BY <1>1, <3>2
    <3> QED BY <2>1, <3>1, <3>3
  <2> QED BY <2>1, <2>2
<1> QED BY <1>13, <1>14 DEF AuditInv, Lists

\* A call of log_event leaves the files of the other clients and what is known about
\* them as they are.
LEMMA BystanderKept ==
    ASSUME NEW c \in Clients, LogTypes, AuditInv(c), StageInv(c),
           NEW s, NEW event, NEW src_ip, NEW about, NEW ips, NEW logs,
           Call(s, event, src_ip, about, ips, logs),
           LogEvent(s, event, src_ip, about, ips, logs),
           s # c, ips[c] = session_to_ip[c], c \in session_logs' <=> c \in session_logs
    PROVE  /\ AuditInv(c)'
           /\ client'[c] = client[c] => StageInv(c)'
           /\ audit'[c] = audit[c] /\ session_to_ip'[c] = session_to_ip[c]
           /\ Silent(c)' <=> Silent(c)
           /\ \A e : Never(c, e)' <=> Never(c, e)
<1>1. PICK n \in Nat : n = Len(journal)
  BY DEF LogTypes
<1>2. /\ journal' \in Seq(Entries)
      /\ DOMAIN journal = 1..n /\ DOMAIN journal' = 1..(n + 1)
      /\ \A i \in 1..n : journal'[i] = journal[i]
      /\ journal'[n + 1].session = s
      /\ audit' = IF s \in logs THEN [audit EXCEPT ![s] = Append(@, n + 1)] ELSE audit
      /\ ml_analysis' = IF s \in logs /\ event = "ml"
                        THEN [ml_analysis EXCEPT ![s] = Append(@, n + 1)] ELSE ml_analysis
      /\ \A d \in SessionNames \ {s} : session_to_ip'[d] = ips[d]
  BY <1>1, LogEventAdds
<1>3. audit'[c] = audit[c] /\ ml_analysis'[c] = ml_analysis[c]
  BY <1>2 DEF LogTypes
<1>4. session_to_ip'[c] = session_to_ip[c]
  BY <1>2 DEF SessionNames
<1>5. AuditInv(c)'
  BY <1>1, <1>2, <1>3, OthersEvent
<1>6. DOMAIN journal' = DOMAIN journal \cup {n + 1}
  BY <1>2
<1>7. Silent(c)' <=> Silent(c)
  BY <1>2, <1>6 DEF Silent
<1>8. \A e : Never(c, e)' <=> Never(c, e)
  BY <1>2, <1>6 DEF Never
<1>9. client'[c] = client[c] => StageInv(c)'
  BY <1>3, <1>4, <1>7, <1>8 DEF StageInv
<1> QED BY <1>3, <1>4, <1>5, <1>7, <1>8, <1>9

\* A call for c itself.
LEMMA OwnKept ==
    ASSUME NEW c \in Clients, LogTypes, AuditInv(c),
           NEW event, NEW src_ip, NEW about, NEW ips, NEW logs,
           Call(c, event, src_ip, about, ips, logs),
           LogEvent(c, event, src_ip, about, ips, logs),
           c \in TelnetClients => (c \in logs <=> Never(c, "session.end")),
           c \notin TelnetClients =>
              /\ c \notin logs => audit[c] = <<>> /\ Never(c, "session.start") /\ event # "session.start"
              /\ c \in logs /\ audit[c] = <<>> =>
                    Silent(c) \/ (event = "session.start" /\ Never(c, "session.start"))
    PROVE  /\ AuditInv(c)'
           /\ \A e : Never(c, e)' <=> Never(c, e) /\ e # event
           /\ c \in logs => audit'[c] # <<>>
           /\ c \notin logs => audit'[c] = audit[c]
           /\ session_to_ip'[c] \in {c, NoClient} /\ (ips[c] = c => session_to_ip'[c] = c)
<1>1. PICK n \in Nat : n = Len(journal)
  BY DEF LogTypes
<1>2. /\ journal' \in Seq(Entries)
      /\ DOMAIN journal = 1..n /\ DOMAIN journal' = 1..(n + 1)
      /\ \A i \in 1..n : journal'[i] = journal[i]
      /\ journal'[n + 1].session = c /\ journal'[n + 1].event = event
      /\ c \in logs => journal'[n + 1].src_ip = c
      /\ audit' = IF c \in logs THEN [audit EXCEPT ![c] = Append(@, n + 1)] ELSE audit
      /\ ml_analysis' = IF c \in logs /\ event = "ml"
                        THEN [ml_analysis EXCEPT ![c] = Append(@, n + 1)] ELSE ml_analysis
      /\ session_to_ip'[c] \in {c, NoClient} /\ (ips[c] = c => session_to_ip'[c] = c)
  BY <1>1, LogEventAdds
<1>3. /\ audit'[c] = IF c \in logs THEN Append(audit[c], n + 1) ELSE audit[c]
      /\ ml_analysis'[c] = IF c \in logs /\ event = "ml" THEN Append(ml_analysis[c], n + 1)
                           ELSE ml_analysis[c]
      /\ audit[c] \in Seq(Nat) /\ event \in EventNames
  BY <1>2 DEF LogTypes, Call
<1>4. PICK filed \in BOOLEAN : filed <=> c \in logs
  OBVIOUS
<1>5. AuditInv(c)'
  BY <1>1, <1>2, <1>3, <1>4, OwnEvent
<1>6. DOMAIN journal' = DOMAIN journal \cup {n + 1}
  BY <1>2
<1>7. \A e : Never(c, e)' <=> Never(c, e) /\ e # event
  BY <1>2, <1>6 DEF Never
<1>8. c \in logs => audit'[c] # <<>>
  BY <1>1, <1>3, SMTT(30)
<1> QED BY <1>2, <1>3, <1>5, <1>7, <1>8

\* What the actions do to a client's record.
LEMMA ClientChanges ==
    ASSUME LogTypes, NEW c \in Clients
    PROVE  /\ client[c].stage \in Stages /\ client[c].shells \in Nat
           /\ \A stage \in Stages :
                 LET new == [client EXCEPT ![c].stage = stage]
                 IN  /\ new \in [Clients -> [stage : Stages, shells : Nat]]
                     /\ new[c].stage = stage /\ new[c].shells = client[c].shells
                     /\ \A d \in Clients \ {c} : new[d] = client[d]
           /\ \A shells \in Nat :
                 LET new == [client EXCEPT ![c].shells = shells]
                 IN  /\ new \in [Clients -> [stage : Stages, shells : Nat]]
                     /\ new[c].shells = shells /\ new[c].stage = client[c].stage
                     /\ \A d \in Clients \ {c} : new[d] = client[d]
BY DEF LogTypes

SessionsInv == LogTypes /\ \A c \in Clients : AuditInv(c) /\ StageInv(c)

\* A step of d that calls log_event once.
LEMMA StepOf ==
    ASSUME SessionsInv, NEW d \in Clients,
           NEW s \in {d, system}, NEW event, NEW src_ip, NEW about, NEW ips, NEW logs,
           Call(s, event, src_ip, about, ips, logs),
           LogEvent(s, event, src_ip, about, ips, logs),
           session_logs' \in {session_logs, session_logs \cup {d}, session_logs \ {d}},
           client' \in [Clients -> [stage : Stages, shells : Nat]],
           \A c \in Clients \ {d} : ips[c] = session_to_ip[c] /\ client'[c] = client[c],
           AuditInv(d)', StageInv(d)'
    PROVE  SessionsInv'
<1>1. LogTypes'
  <2>1. session_logs' \subseteq Clients
    BY DEF SessionsInv, LogTypes
  <2> QED BY <2>1, LogEventAdds DEF SessionsInv, LogTypes
<1>2. ASSUME NEW c \in Clients, c # d
      PROVE  AuditInv(c)' /\ StageInv(c)'
  <2>1. s # c
    BY <1>2, SessionLogAssumption
  <2>2. /\ ips[c] = session_to_ip[c] /\ client'[c] = client[c]
        /\ c \in session_logs' <=> c \in session_logs
    BY <1>2
  <2>3. AuditInv(c) /\ StageInv(c) /\ LogTypes
    BY DEF SessionsInv
  <2> QED BY <2>1, <2>2, <2>3, BystanderKept
<1> QED BY <1>1, <1>2 DEF SessionsInv

\* The calls that the actions make.
LEMMA Calls ==
    ASSUME SessionsInv, NEW d \in Clients, NEW event \in EventNames
    PROVE  /\ Call(d, event, d, d, session_to_ip, session_logs)
           /\ Call(d, event, NoClient, d, session_to_ip, session_logs)
           /\ Call(system, event, d, d, session_to_ip, session_logs)
           /\ Call(system, event, NoClient, NoClient, session_to_ip, session_logs)
           /\ Call(d, event, d, d, Remembered(d), session_logs \cup {d})
           /\ Call(d, event, NoClient, d, Remembered(d), session_logs \cup {d})
<1>1. /\ session_to_ip \in [SessionNames -> Addresses] /\ session_logs \subseteq Clients
      /\ session_to_ip[d] \in {d, NoClient} /\ (d \in session_logs => session_to_ip[d] = d)
  BY DEF SessionsInv, LogTypes, StageInv
<1>2. system \notin Clients /\ d \in SessionNames /\ system \in SessionNames
      /\ d \in Addresses /\ NoClient \in Addresses
  BY SessionLogAssumption DEF SessionNames, Addresses
<1>3. Remembered(d) \in [SessionNames -> Addresses] /\ Remembered(d)[d] = d
  BY <1>1, <1>2 DEF Remembered
<1> QED BY <1>1, <1>2, <1>3 DEF Call

\* An event of d's session while it goes on, registered or not.
LEMMA OwnStep ==
    ASSUME SessionsInv, NEW d \in Clients, NEW event \in EventNames, NEW src_ip \in {d, NoClient},
           client[d].stage \notin {"new", "rejected"}, event # "session.start",
           LogOwn(d, event, src_ip)
    PROVE  /\ AuditInv(d)'
           /\ \A e : Never(d, e)' <=> Never(d, e) /\ e # event
           /\ d \in session_logs => audit'[d] # <<>>
           /\ d \notin session_logs => audit'[d] = audit[d]
           /\ session_to_ip'[d] \in {d, NoClient} /\ (d \in session_logs => session_to_ip'[d] = d)
<1>1. LogTypes /\ AuditInv(d) /\ StageInv(d)
  BY DEF SessionsInv
<1>2. LogEvent(d, event, src_ip, d, session_to_ip, session_logs)
  BY DEF LogOwn
<1>3. Call(d, event, src_ip, d, session_to_ip, session_logs)
  BY Calls
<1>4. client[d].stage \in Stages
  BY <1>1, ClientChanges
<1>5. d \in TelnetClients => (d \in session_logs <=> Never(d, "session.end"))
  BY <1>1, <1>4 DEF StageInv, Stages
<1>6. d \notin TelnetClients =>
        /\ d \notin session_logs => audit[d] = <<>> /\ Never(d, "session.start")
        /\ d \in session_logs /\ audit[d] = <<>> => Silent(d)
  BY <1>1 DEF StageInv
<1>7. d \in session_logs => session_to_ip[d] = d
  BY <1>1 DEF StageInv
<1> QED BY <1>1, <1>2, <1>3, <1>5, <1>6, <1>7, OwnKept

\* An own event of d after which d is at a stage with some shells; session_logs stays.
LEMMA OwnEventOf ==
    ASSUME SessionsInv, NEW d \in Clients, NEW event \in EventNames, NEW src_ip \in {d, NoClient},
           event # "session.start", LogOwn(d, event, src_ip),
           NEW stage \in Stages, NEW shells \in Nat,
           client' \in [Clients -> [stage : Stages, shells : Nat]],
           client'[d].stage = stage, client'[d].shells = shells,
           \A c \in Clients \ {d} : client'[c] = client[c],
           client[d].stage \notin {"new", "rejected"}, stage \notin {"new", "rejected"},
           d \in TelnetClients =>
              /\ shells = client[d].shells
              /\ stage = "closed" <=> client[d].stage = "closed"
              /\ event # "session.end",
           d \notin TelnetClients => stage \notin {"failed", "ended"},
           UNCHANGED session_logs
    PROVE  SessionsInv'
<1>1. /\ AuditInv(d)'
      /\ \A e : Never(d, e)' <=> Never(d, e) /\ e # event
      /\ d \in session_logs => audit'[d] # <<>>
      /\ d \notin session_logs => audit'[d] = audit[d]
      /\ session_to_ip'[d] \in {d, NoClient} /\ (d \in session_logs => session_to_ip'[d] = d)
  BY OwnStep
<1>2. StageInv(d) /\ client[d].stage \in Stages /\ LogTypes
  BY ClientChanges DEF SessionsInv
<1>3. CASE d \in TelnetClients
  <2>1. client[d].shells = 0 /\ shells = 0
    BY <1>2, <1>3 DEF StageInv
  <2>2. stage \in {"connected", "failed", "ended"} => d \in session_logs /\ Never(d, "session.end")
    BY <1>2, <1>3 DEF StageInv, Stages
  <2>3. stage = "closed" => d \notin session_logs /\ ~Never(d, "session.end")
    BY <1>2, <1>3 DEF StageInv
  <2>4. StageInv(d)'
    BY <1>1, <1>3, <2>1, <2>2, <2>3 DEF StageInv
  <2>5. LogEvent(d, event, src_ip, d, session_to_ip, session_logs)
    BY DEF LogOwn
  <2>6. Call(d, event, src_ip, d, session_to_ip, session_logs)
    BY Calls
  <2> QED BY <1>1, <2>4, <2>5, <2>6, StepOf
<1>4. CASE d \notin TelnetClients
  <2>1. d \notin session_logs => audit[d] = <<>> /\ Never(d, "session.start")
    BY <1>2, <1>4 DEF StageInv
  <2>2. StageInv(d)'
    BY <1>1, <1>4, <2>1 DEF StageInv
  <2>3. LogEvent(d, event, src_ip, d, session_to_ip, session_logs)
    BY DEF LogOwn
  <2>4. Call(d, event, src_ip, d, session_to_ip, session_logs)
    BY Calls
  <2> QED BY <1>1, <2>2, <2>3, <2>4, StepOf
<1> QED BY <1>3, <1>4

\* An event of the session "system" that d's action logs.
LEMMA SystemEventOf ==
    ASSUME SessionsInv, NEW d \in Clients, NEW event \in EventNames,
           LogEvent(system, event, d, d, session_to_ip, session_logs),
           NEW stage \in Stages, client' = [client EXCEPT ![d].stage = stage],
           \/ client[d].stage = "new" /\ stage = "rejected"
           \/ client[d].stage = "connected" /\ stage = "failed" /\ d \in TelnetClients,
           UNCHANGED session_logs
    PROVE  SessionsInv'
<1>1. Call(system, event, d, d, session_to_ip, session_logs)
  BY Calls
<1>2. system # d /\ LogTypes /\ AuditInv(d) /\ StageInv(d)
  BY SessionLogAssumption DEF SessionsInv
<1>3. /\ AuditInv(d)' /\ audit'[d] = audit[d] /\ session_to_ip'[d] = session_to_ip[d]
      /\ Silent(d)' <=> Silent(d)
      /\ \A e : Never(d, e)' <=> Never(d, e)
  BY <1>1, <1>2, BystanderKept
<1>4. /\ client' \in [Clients -> [stage : Stages, shells : Nat]]
      /\ client'[d].stage = stage /\ client'[d].shells = client[d].shells
      /\ \A c \in Clients \ {d} : client'[c] = client[c]
  BY <1>2, ClientChanges
<1>5. StageInv(d)'
  <2>1. CASE client[d].stage = "new" /\ stage = "rejected"
    BY <1>2, <1>3, <1>4, <2>1 DEF StageInv
  <2>2. CASE client[d].stage = "connected" /\ stage = "failed" /\ d \in TelnetClients
    BY <1>2, <1>3, <1>4, <2>2 DEF StageInv
  <2> QED BY <2>1, <2>2
<1> QED BY <1>1, <1>3, <1>4, <1>5, StepOf

LEMMA SessionsInvInit == SessionLogInit => SessionsInv
<1> SUFFICES ASSUME SessionLogInit PROVE SessionsInv
  OBVIOUS
<1>1. /\ session_logs = {} /\ session_to_ip = [s \in SessionNames |-> NoClient] /\ journal = <<>>
      /\ audit = [c \in Clients |-> <<>>] /\ ml_analysis = [c \in Clients |-> <<>>]
      /\ client = [c \in Clients |-> [stage |-> "new", shells |-> 0]]
  BY DEF SessionLogInit
<1>2. LogTypes
  BY <1>1 DEF LogTypes, Addresses, Stages
<1>3. ASSUME NEW c \in Clients
      PROVE  AuditInv(c) /\ StageInv(c)
  <2>1. DOMAIN journal = {} /\ audit[c] = <<>> /\ ml_analysis[c] = <<>>
    BY <1>1
  <2>2. AuditInv(c)
    BY <2>1 DEF AuditInv, Lists, Range
  <2>3. Silent(c) /\ \A e : Never(c, e)
    BY <2>1 DEF Silent, Never
  <2>4. client[c].stage = "new" /\ client[c].shells = 0 /\ session_to_ip[c] = NoClient /\ c \notin session_logs
    BY <1>1 DEF SessionNames
  <2> QED BY <2>1, <2>2, <2>3, <2>4 DEF StageInv
<1> QED BY <1>2, <1>3 DEF SessionsInv

LEMMA SessionsInvStep == SessionsInv /\ [SessionLogNext]_slVars => SessionsInv'
<1> SUFFICES ASSUME SessionsInv, [SessionLogNext]_slVars PROVE SessionsInv'
  OBVIOUS
<1>0. LogTypes
  BY DEF SessionsInv
<1>1. ASSUME NEW c \in Clients, SshAccept(c)
      PROVE  SessionsInv'
  <2>1. /\ c \in SshClients /\ client[c].stage = "new" /\ client' = [client EXCEPT ![c].stage = "connected"]
        /\ \/ session_logs' = session_logs \cup {c} /\ session_to_ip' = Remembered(c)
           \/ UNCHANGED <<session_logs, session_to_ip>>
        /\ UNCHANGED <<journal, audit, ml_analysis>>
    BY <1>1 DEF SshAccept, Registered
  <2>2. /\ client' \in [Clients -> [stage : Stages, shells : Nat]] /\ client'[c].stage = "connected"
        /\ \A d \in Clients \ {c} : client'[d] = client[d]
    BY <1>0, <2>1, ClientChanges, ZenonT(30) DEF Stages
  <2>3. c \in SessionNames /\ c \in Addresses
    BY DEF SessionNames, Addresses
  <2>4. Remembered(c) \in [SessionNames -> Addresses] /\ Remembered(c)[c] = c
        /\ \A d \in SessionNames \ {c} : Remembered(c)[d] = session_to_ip[d]
    BY <1>0, <2>3 DEF Remembered, LogTypes
  <2>5. LogTypes'
    BY <1>0, <2>1, <2>2, <2>4 DEF LogTypes
  <2>6. ASSUME NEW d \in Clients
        PROVE  AuditInv(d)' /\ Silent(d)' = Silent(d) /\ \A e : Never(d, e)' = Never(d, e)
    <3>1. AuditInv(d)
      BY DEF SessionsInv
    <3>2. \A i : Belongs(d, i)' <=> Belongs(d, i)
      BY <2>1 DEF Belongs, Happened
    <3>3. AuditInv(d)'
      BY <2>1, <3>1, <3>2 DEF AuditInv, Lists
    <3> QED BY <2>1, <3>3 DEF Silent, Never
  <2>7. ASSUME NEW d \in Clients \ {c}
        PROVE  StageInv(d)'
    <3>1. StageInv(d) /\ client'[d] = client[d] /\ audit'[d] = audit[d] /\ session_to_ip'[d] = session_to_ip[d]
          /\ (d \in session_logs' <=> d \in session_logs)
      BY <2>1, <2>2, <2>4 DEF SessionsInv, SessionNames
    <3>2. (Silent(d)' <=> Silent(d)) /\ \A e : Never(d, e)' <=> Never(d, e)
      BY <2>1 DEF Silent, Never
    <3> QED BY <3>1, <3>2 DEF StageInv
  <2>8. StageInv(c)'
    <3>1. StageInv(c) /\ Silent(c) /\ AuditInv(c) /\ c \notin session_logs /\ c \notin TelnetClients
      BY <2>1, SessionLogAssumption DEF SessionsInv, StageInv
    <3>2. audit'[c] = <<>> /\ Silent(c)' /\ Never(c, "session.start")'
      <4>1. audit[c] = <<>>
        BY <3>1 DEF StageInv
      <4> QED BY <2>1, <3>1, <4>1 DEF Silent, Never
    <3>3. (session_to_ip'[c] = c /\ c \in session_logs')
          \/ (session_to_ip'[c] = session_to_ip[c] /\ c \notin session_logs')
      BY <2>1, <2>4, <3>1
    <3>4. session_to_ip[c] \in {c, NoClient}
      BY <3>1 DEF StageInv
    <3> QED BY <2>2, <3>1, <3>2, <3>3, <3>4 DEF StageInv
  <2> QED BY <2>5, <2>6, <2>7, <2>8 DEF SessionsInv
<1>2. ASSUME NEW c \in Clients, SshShellBegins(c)
      PROVE  SessionsInv'
  <2> DEFINE logs == session_logs \cup {c}
             new == [client EXCEPT ![c].shells = client[c].shells + 1]
  <2>1. /\ c \in SshClients /\ c \notin TelnetClients /\ client[c].stage = "connected"
        /\ session_logs' = logs /\ client' = new
        /\ LogEvent(c, "session.start", NoClient, c, Remembered(c), logs)
    BY <1>2, SessionLogAssumption DEF SshShellBegins, Registered
  <2>2. /\ client' \in [Clients -> [stage : Stages, shells : Nat]] /\ client'[c].stage = "connected"
        /\ \A d \in Clients \ {c} : client'[d] = client[d]
    <3>1. client[c].shells + 1 \in Nat
      BY <1>0, ClientChanges
    <3> QED BY <1>0, <2>1, <3>1, ClientChanges
  <2>3. Call(c, "session.start", NoClient, c, Remembered(c), logs)
    BY Calls DEF EventNames
  <2>4. AuditInv(c) /\ StageInv(c)
    BY DEF SessionsInv
  <2>5. audit[c] = <<>> => Silent(c) \/ Never(c, "session.start")
    BY <2>1, <2>4 DEF StageInv
  <2>6. Remembered(c)[c] = c /\ \A d \in Clients \ {c} : Remembered(c)[d] = session_to_ip[d]
    BY <1>0 DEF Remembered, LogTypes, SessionNames
  <2>7. /\ AuditInv(c)' /\ audit'[c] # <<>> /\ session_to_ip'[c] = c
    BY <1>0, <2>1, <2>3, <2>4, <2>5, <2>6, OwnKept
  <2>8. StageInv(c)'
    BY <2>1, <2>2, <2>7 DEF StageInv
  <2> HIDE DEF new
  <2> QED BY <2>1, <2>2, <2>3, <2>6, <2>7, <2>8, StepOf
<1>3. ASSUME NEW c \in Clients, SshShellEnds(c)
      PROVE  SessionsInv'
  <2>1. /\ client[c].shells > 0 /\ client' = [client EXCEPT ![c].shells = client[c].shells - 1]
        /\ LogOwn(c, "session.end", c) /\ UNCHANGED session_logs
    BY <1>3 DEF SshShellEnds
  <2>2. StageInv(c) /\ client[c].stage \in Stages /\ client[c].shells \in Nat
    BY <1>0, ClientChanges DEF SessionsInv
  <2>3. c \notin TelnetClients /\ client[c].stage \notin {"new", "rejected", "failed", "ended"}
    BY <2>1, <2>2 DEF StageInv
  <2>4. client[c].shells - 1 \in Nat
    BY <2>1, <2>2
  <2>5. PICK shells \in Nat : shells = client[c].shells - 1
    BY <2>4
  <2>6. PICK stage \in Stages : stage = client[c].stage
    BY <2>2
  <2>7. /\ client' \in [Clients -> [stage : Stages, shells : Nat]]
        /\ client'[c].stage = stage /\ client'[c].shells = shells
        /\ \A d \in Clients \ {c} : client'[d] = client[d]
    BY <1>0, <2>1, <2>5, <2>6, ClientChanges
  <2> QED BY <2>1, <2>3, <2>6, <2>7, OwnEventOf DEF EventNames
<1>4. ASSUME NEW c \in Clients, NEW event \in {"session.end", "telnet_exception"},
             NEW src_ip \in {c, NoClient}, NEW stage \in {"closed", "ended"},
             LogOwn(c, event, src_ip), client' = [client EXCEPT ![c].stage = stage],
             UNCHANGED session_logs,
             \/ c \notin TelnetClients /\ client[c].stage = "connected" /\ stage = "closed"
             \/ c \in TelnetClients /\ client[c].stage = "failed" /\ stage = "ended"
                /\ event = "telnet_exception"
      PROVE  SessionsInv'
  <2>1. stage \in Stages /\ client[c].shells \in Nat
    BY <1>0, ClientChanges DEF Stages
  <2>2. PICK shells \in Nat : shells = client[c].shells
    BY <2>1
  <2>3. /\ client' \in [Clients -> [stage : Stages, shells : Nat]]
        /\ client'[c].stage = stage /\ client'[c].shells = shells
        /\ \A d \in Clients \ {c} : client'[d] = client[d]
    BY <1>0, <1>4, <2>1, <2>2, ClientChanges
  <2>4. client[c].stage \notin {"new", "rejected"} /\ stage \notin {"new", "rejected"} /\ event # "session.start"
    BY <1>4
  <2>5. c \in TelnetClients =>
           /\ shells = client[c].shells /\ (stage = "closed" <=> client[c].stage = "closed")
           /\ event # "session.end"
    BY <1>4, <2>2
  <2>6. c \notin TelnetClients => stage \notin {"failed", "ended"}
    BY <1>4
  <2>7. event \in EventNames
    BY <1>4 DEF EventNames
  <2> QED BY <1>4, <2>1, <2>3, <2>4, <2>5, <2>6, <2>7, OwnEventOf DEF EventNames
<1>5. ASSUME NEW c \in Clients, SshLost(c)
      PROVE  SessionsInv'
  BY <1>4, <1>5, SessionLogAssumption DEF SshLost
<1>6. ASSUME NEW c \in Clients, TelnetException(c)
      PROVE  SessionsInv'
  <2>1. client[c].stage = "failed" /\ c \in TelnetClients
    BY <1>6 DEF TelnetException, SessionsInv, StageInv
  <2> QED BY <1>4, <1>6, <2>1 DEF TelnetException
<1>7. ASSUME NEW c \in Clients, TelnetAccept(c)
      PROVE  SessionsInv'
  <2> DEFINE logs == session_logs \cup {c}
             new == [client EXCEPT ![c].stage = "connected"]
  <2>1. /\ c \in TelnetClients /\ client[c].stage = "new" /\ session_logs' = logs /\ client' = new
        /\ LogEvent(c, "session.start", c, c, Remembered(c), logs)
    BY <1>7 DEF TelnetAccept, Registered
  <2>2. /\ client' \in [Clients -> [stage : Stages, shells : Nat]] /\ client'[c].stage = "connected"
        /\ client'[c].shells = client[c].shells
        /\ \A d \in Clients \ {c} : client'[d] = client[d]
    BY <1>0, <2>1, ClientChanges, ZenonT(30) DEF Stages
  <2>3. Call(c, "session.start", c, c, Remembered(c), logs)
    BY Calls DEF EventNames
  <2>4. AuditInv(c) /\ StageInv(c)
    BY DEF SessionsInv
  <2>5. Never(c, "session.end") /\ client[c].shells = 0
    BY <2>1, <2>4 DEF StageInv, Silent, Never
  <2>6. Remembered(c)[c] = c /\ \A d \in Clients \ {c} : Remembered(c)[d] = session_to_ip[d]
    BY <1>0 DEF Remembered, LogTypes, SessionNames
  <2>7. AuditInv(c)' /\ session_to_ip'[c] = c /\ Never(c, "session.end")'
    BY <1>0, <2>1, <2>3, <2>4, <2>5, <2>6, OwnKept
  <2>8. StageInv(c)'
    BY <2>1, <2>2, <2>5, <2>7 DEF StageInv
  <2> HIDE DEF new
  <2> QED BY <2>1, <2>2, <2>3, <2>6, <2>7, <2>8, StepOf
<1>8. ASSUME NEW c \in Clients, TelnetCleanup(c)
      PROVE  SessionsInv'
  <2> DEFINE new == [client EXCEPT ![c].stage = "closed"]
  <2>1. /\ c \in TelnetClients /\ client[c].stage \in {"connected", "ended"}
        /\ session_logs' = session_logs \ {c} /\ client' = new
        /\ LogOwn(c, "session.end", c)
        /\ LogEvent(c, "session.end", c, c, session_to_ip, session_logs)
    BY <1>8 DEF TelnetCleanup, LogOwn
  <2>2. /\ client' \in [Clients -> [stage : Stages, shells : Nat]] /\ client'[c].stage = "closed"
        /\ client'[c].shells = client[c].shells
        /\ \A d \in Clients \ {c} : client'[d] = client[d]
    BY <1>0, <2>1, ClientChanges, ZenonT(30) DEF Stages
  <2>3. /\ AuditInv(c)' /\ ~Never(c, "session.end")' /\ session_to_ip'[c] \in {c, NoClient}
    BY <2>1, OwnStep DEF EventNames
  <2>4. client[c].shells = 0
    BY <2>1 DEF SessionsInv, StageInv
  <2>5. StageInv(c)'
    BY <2>1, <2>2, <2>3, <2>4 DEF StageInv
  <2>6. Call(c, "session.end", c, c, session_to_ip, session_logs)
    BY Calls DEF EventNames
  <2> HIDE DEF new
  <2> QED BY <2>1, <2>2, <2>3, <2>5, <2>6, StepOf
<1>9. ASSUME NEW c \in Clients, TelnetError(c) \/ ConnectionRejected(c)
      PROVE  SessionsInv'
  BY <1>9, SystemEventOf DEF TelnetError, ConnectionRejected, Stages, EventNames
<1>10. ASSUME NEW c \in Clients, SessionEvent(c)
       PROVE  SessionsInv'
  <2>1. PICK event \in {"other", "ml"}, src_ip \in {c, NoClient} : LogOwn(c, event, src_ip)
    BY <1>10 DEF SessionEvent
  <2>2. client[c].stage \in {"connected", "closed"} /\ UNCHANGED <<session_logs, client>>
    BY <1>10 DEF SessionEvent
  <2>3. PICK stage \in Stages : stage = client[c].stage
    BY <1>0, ClientChanges
  <2>4. PICK shells \in Nat : shells = client[c].shells
    BY <1>0, ClientChanges
  <2>5. client' \in [Clients -> [stage : Stages, shells : Nat]]
    BY <1>0, <2>2 DEF LogTypes
  <2> QED BY <2>1, <2>2, <2>3, <2>4, <2>5, OwnEventOf DEF EventNames
<1>11. CASE SystemEvent
  <2>1. /\ LogEvent(system, "service", NoClient, NoClient, session_to_ip, session_logs)
        /\ UNCHANGED <<session_logs, client>>
    BY <1>11 DEF SystemEvent
  <2>3. Call(system, "service", NoClient, NoClient, session_to_ip, session_logs)
    BY <1>0, SessionLogAssumption DEF Call, LogTypes, SessionNames, Addresses, EventNames
  <2>4. LogTypes'
    BY <1>0, <2>1, <2>3, LogEventAdds DEF LogTypes
  <2>5. ASSUME NEW c \in Clients
        PROVE  AuditInv(c)' /\ StageInv(c)'
    <3>1. system # c /\ AuditInv(c) /\ StageInv(c) /\ client'[c] = client[c]
      BY <2>1, SessionLogAssumption DEF SessionsInv
    <3> QED BY <1>0, <2>1, <2>3, <3>1, BystanderKept
  <2> QED BY <2>4, <2>5 DEF SessionsInv
<1>12. CASE UNCHANGED slVars
  <2>1. UNCHANGED <<session_logs, session_to_ip, journal, audit, ml_analysis, client>>
    BY <1>12 DEF slVars
  <2>2. LogTypes'
    BY <1>0, <2>1 DEF LogTypes
  <2>3. ASSUME NEW c \in Clients
        PROVE  AuditInv(c)' /\ StageInv(c)'
    <3>1. AuditInv(c) /\ StageInv(c)
      BY DEF SessionsInv
    <3>2. \A i : Belongs(c, i)' <=> Belongs(c, i)
      BY <2>1 DEF Belongs, Happened
    <3>3. AuditInv(c)'
      BY <2>1, <3>1, <3>2 DEF AuditInv, Lists
    <3>4. StageInv(c)'
      BY <2>1, <3>1 DEF StageInv, Silent, Never
    <3> QED BY <3>3, <3>4
  <2> QED BY <2>2, <2>3 DEF SessionsInv
<1> QED BY <1>1, <1>2, <1>3, <1>5, <1>6, <1>7, <1>8, <1>9, <1>10, <1>11, <1>12 DEF SessionLogNext

\* The files of a session hold the session's events, all of them and in order, with
\* the client's address, however its tasks, the other sessions and the server log in
\* between and whether or not it could be registered when it connected.
THEOREM SessionFilesAreTheJournal == SessionLogSpec => []AuditIsTheSession
<1>1. SessionsInv => AuditIsTheSession
  BY DEF SessionsInv, AuditInv, AuditIsTheSession
<1> QED BY <1>1, SessionsInvInit, SessionsInvStep, PTL DEF SessionLogSpec
=============================================================================
