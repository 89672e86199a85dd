------------------------------ MODULE Shutdown ------------------------------
(***************************************************************************)
(* CyanideServer.stop (core/server.py) with the background log writer that *)
(* it stops after every server it closes, while sessions go on logging.    *)
(*                                                                         *)
(* stop() runs when the task of start() is cancelled: alone, or with every *)
(* other task, the log writer included, when the process exits.            *)
(***************************************************************************)
EXTENDS AsyncLogger

CONSTANT Enabled     \* the services that the configuration starts

Services == {"SSH", "Telnet", "SMTP", "Metrics", "ssh_proxy", "telnet_proxy"}

ASSUME EnabledAssumption == Enabled \subseteq Services

VARIABLES
    pc,          \* the step that CyanideServer.stop is at
    flushing,    \* at that step it is inside async_logger.stop()
    listening    \* services whose listening socket is open

serverVars == <<pc, flushing, listening>>
vars == <<logVars, serverVars>>
taskVars == <<worker, entry, stop_event, stopper, due, gave_up, written, lost>>

\* The steps of stop(), in their order.
Steps == <<"background", "pool", "SSH", "Telnet", "Metrics", "logger", "finished">>

PCs == {"running", "raised"} \cup Range(Steps)

Following(step) == Steps[(CHOOSE i \in DOMAIN Steps : Steps[i] = step) + 1]

\* The event at this step is logged, or there is none.
MayLog == Log(0) \/ Log(1)

\* A session, or a service that still runs, logs an event.
SessionLogs ==
    /\ Log(1)
    /\ UNCHANGED <<taskVars, serverVars>>

\* stop() begins by logging that it does.
StopAlone ==
    /\ pc = "running"
    /\ pc' = "background"
    /\ Log(1)
    /\ UNCHANGED <<taskVars, flushing, listening>>

\* asyncio.run cancels all tasks when main.py's signal handler raises SystemExit.
StopWithProcess ==
    /\ pc = "running"
    /\ pc' = "background"
    /\ Log(1)
    /\ worker' = "cancelling"
    /\ UNCHANGED <<entry, stop_event, stopper, due, gave_up, written, lost, flushing, listening>>

\* The background tasks are cancelled, which ends the metrics server, and get five
\* seconds; a warning is logged if that is not enough.
BackgroundCancelled ==
    /\ pc = "background"
    /\ pc' = Following(pc)
    /\ listening' = listening \ {"Metrics"}
    /\ MayLog
    /\ UNCHANGED <<taskVars, flushing>>

\* vm_pool.stop, and the _close_server of a service that was not started.
NothingToClose ==
    /\ pc \in {"pool", "SSH", "Telnet", "Metrics"} \ Enabled
    /\ pc' = Following(pc)
    /\ UNCHANGED <<logVars, flushing, listening>>

\* _close_server: server.close(), wait_closed() for five seconds, a log event if that
\* failed, except for the metrics server, and then async_logger.stop().
CloseServer ==
    /\ pc \in {"SSH", "Telnet", "Metrics"} \cap Enabled
    /\ ~flushing
    /\ listening' = listening \ {pc}
    /\ IF pc = "Metrics" THEN Log(0) ELSE MayLog
    /\ StopBegins
    /\ flushing' = TRUE
    /\ UNCHANGED pc

StopLogger ==
    /\ pc = "logger"
    /\ ~flushing
    /\ StopBegins
    /\ flushing' = TRUE
    /\ UNCHANGED <<logged, queue, unfinished, pc, listening>>

\* async_logger.stop() ends.  An exception out of it ends CyanideServer.stop.
LoggerStopped ==
    /\ flushing
    /\ stopper \in {"returned", "raised"}
    /\ flushing' = FALSE
    /\ pc' = IF stopper = "returned" THEN Following(pc) ELSE "raised"
    /\ UNCHANGED <<logVars, listening>>

LoggerStep == logTasks /\ UNCHANGED serverVars

Init ==
    /\ logInit
    /\ pc = "running"
    /\ flushing = FALSE
    /\ listening = Enabled

Next ==
    \/ SessionLogs
    \/ StopAlone
    \/ StopWithProcess
    \/ BackgroundCancelled
    \/ NothingToClose
    \/ CloseServer
    \/ StopLogger
    \/ LoggerStopped
    \/ LoggerStep

Spec == Init /\ [][Next]_vars

\* The event loop runs what is ready, files can be written or fail, the time limits
\* of wait_for expire.  stop() need not be called, sessions need not log.
Fairness ==
    /\ WF_vars(BackgroundCancelled \/ NothingToClose \/ CloseServer \/ StopLogger \/ LoggerStopped)
    /\ WF_vars((WorkerWakes \/ WriteEnds \/ WorkerCancelled) /\ UNCHANGED serverVars)
    /\ WF_vars((StopJoined \/ StopAwaited) /\ UNCHANGED serverVars)

FairSpec == Spec /\ Fairness

-----------------------------------------------------------------------------
(* Properties                                                              *)

\* The types of the logger's and of the server's state.
ShutdownTypeOK == LogTypeOK /\ pc \in PCs /\ flushing \in BOOLEAN /\ listening \subseteq Enabled

\* stop() never hangs: with its time limits it ends, normally or not, even when the
\* log writer is gone and its queue can never be drained.
StopEnds == pc = "background" ~> pc \in {"finished", "raised"}

\* While nobody stops the server, what is logged gets written.
LoggedIsWritten ==
    \A i \in 1..MaxLogs : i <= logged ~> i \in Range(written) \cup lost \/ pc # "running"

-----------------------------------------------------------------------------
(* Claims of the code's own comments that the code does not keep           *)

\* CyanideServer.stop: "Stop all services."  stop() gets through all its steps, at
\* least when the log writer keeps up and no time limit expires.
StopGetsThrough == pc = "raised" => gave_up
=============================================================================
