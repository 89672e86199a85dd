------------------------------ MODULE SshProxy ------------------------------
(***************************************************************************)
(* One session of the SSH proxy (network/ssh_proxy.py): ProxyServerSession *)
(* towards the client, ProxyClientChannel towards the backend, and the     *)
(* target that the pool (core/vm_pool.py) reserves for it.  The task of    *)
(* _connect_backend awaits the pool, the backend and the client's request; *)
(* connection_lost can run at each of these awaits and does not end it.    *)
(*                                                                         *)
(* Chunks of data are numbered in each direction.                          *)
(***************************************************************************)
EXTENDS Naturals, Sequences

CONSTANTS
    UsesPool,       \* whether the proxy has a pool
    MaxChunks       \* bound: chunks of data in each direction

ASSUME SshProxyAssumption == UsesPool \in BOOLEAN /\ MaxChunks \in Nat

VARIABLES
    task,           \* where _connect_backend is
    chan,           \* the client's channel: open, closing after close(), lost
    lease,          \* none, held, releasing, released
    backend,        \* backend_conn: none, open, closed
    requested,      \* request_event
    tooLate,        \* history: what was set after connection_lost
    pipe            \* direction -> [received, buffer, delivered, sender]

proxyVars == <<task, chan, lease, backend, requested, tooLate, pipe>>

Directions == {"out", "in"}

SshProxyInit ==
    /\ task = "start"
    /\ chan = "open"
    /\ lease = "none"
    /\ backend = "none"
    /\ requested = FALSE
    /\ tooLate = {}
    /\ pipe = [d \in Directions |->
                [received |-> 0, buffer |-> <<>>, delivered |-> <<>>, sender |-> "none"]]

CloseChannel == chan' = IF chan = "open" THEN "closing" ELSE chan

Arrives(what) == tooLate' = IF chan = "lost" THEN tooLate \cup {what} ELSE tooLate

\* connection_made: the task begins with the pool, if there is one.
GetTarget ==
    /\ task = "start"
    /\ task' = IF UsesPool THEN "reserving" ELSE "connecting"
    /\ UNCHANGED <<chan, lease, backend, requested, tooLate, pipe>>

\* reserve_target of a SimplePool: a lease of one of its targets, or none if it has
\* none; recent failures only change which one, and nothing reports any.
Leases == {"held", "none"}

\* Without a lease the client's channel is closed.
Reserved ==
    /\ task = "reserving"
    /\ lease' \in Leases
    /\ IF lease' = "held"
       THEN task' = "connecting" /\ Arrives("lease") /\ UNCHANGED chan
       ELSE task' = "ended" /\ CloseChannel /\ UNCHANGED tooLate
    /\ UNCHANGED <<backend, requested, pipe>>

\* asyncssh.connect; then the client's request is waited for without a time limit.
Connected ==
    /\ task = "connecting"
    /\ \/ task' = "waiting" /\ backend' = "open" /\ Arrives("backend") /\ UNCHANGED chan
       \/ task' = "ended" /\ CloseChannel /\ UNCHANGED <<backend, tooLate>>
    /\ UNCHANGED <<lease, requested, pipe>>

\* shell_requested or exec_requested.
Requested ==
    /\ chan # "lost" /\ ~requested
    /\ requested' = TRUE
    /\ UNCHANGED <<task, chan, lease, backend, tooLate, pipe>>

\* _setup_backend_session: a session of the backend, if the connection is still open.
SetUp ==
    /\ backend = "open"
    /\ pipe' = [d \in Directions |-> [pipe[d] EXCEPT !.sender = "idle"]]
    /\ UNCHANGED chan

\* After the request the session is set up, and the send loops of both directions run.
Bridged ==
    /\ task = "waiting" /\ requested
    /\ task' = "ended"
    /\ SetUp \/ (CloseChannel /\ UNCHANGED pipe)
    /\ UNCHANGED <<lease, backend, requested, tooLate>>

\* data_received, from the client also before there is a backend.
DataReceived(d) ==
    /\ IF d = "out" THEN chan # "lost"
                    ELSE backend = "open" /\ pipe["in"].sender \notin {"none", "cancelled", "gone"}
    /\ pipe[d].received < MaxChunks
    /\ pipe' = [pipe EXCEPT ![d].received = @ + 1,
                            ![d].buffer = Append(@, pipe[d].received + 1)]
    /\ UNCHANGED <<task, chan, lease, backend, requested, tooLate>>

\* _send_loop: with something in the buffer it sleeps for half a second,
SendLoopWaits(d) ==
    /\ pipe[d].sender = "idle" /\ pipe[d].buffer # <<>>
    /\ pipe' = [pipe EXCEPT ![d].sender = "sleeping"]
    /\ UNCHANGED <<task, chan, lease, backend, requested, tooLate>>

\* Mutant of SendLoopSends: the chunk is joined before the sleep, the buffer emptied after it.
SendLoopSendsOld(d) ==
    /\ pipe[d].sender = "sleeping"
    /\ pipe' = [pipe EXCEPT ![d].delivered = Append(@, Head(pipe[d].buffer)),
                            ![d].buffer = <<>>, ![d].sender = "idle"]
    /\ UNCHANGED <<task, chan, lease, backend, requested, tooLate>>

\* and then takes all there is now.  A write that fails ends the loop, and what it
\* took is lost.
SendLoopSends(d) ==
    /\ pipe[d].sender = "sleeping"
    /\ \/ pipe' = [pipe EXCEPT ![d].delivered = @ \o pipe[d].buffer,
                               ![d].buffer = <<>>, ![d].sender = "idle"]
       \/ pipe' = [pipe EXCEPT ![d].buffer = <<>>, ![d].sender = "failed"]
    /\ UNCHANGED <<task, chan, lease, backend, requested, tooLate>>

\* A loop that is cancelled leaves in the buffer what it has not sent.
Cancelled(sender) == IF sender \in {"idle", "sleeping"} THEN "cancelled" ELSE sender

\* Mutant of ConnectionLost: the lease is only released with a backend connection.
ConnectionLostWithBackend ==
    /\ chan # "lost"
    /\ chan' = "lost"
    /\ pipe' = [pipe EXCEPT !["out"].sender = Cancelled(@)]
    /\ backend' = IF backend = "open" THEN "closed" ELSE backend
    /\ lease' = IF lease = "held" /\ backend = "open" THEN "releasing" ELSE lease
    /\ UNCHANGED <<task, requested, tooLate>>

\* The client goes, or its channel was closed.  What is there now is given back.
ConnectionLost ==
    /\ chan # "lost"
    /\ chan' = "lost"
    /\ pipe' = [pipe EXCEPT !["out"].sender = Cancelled(@)]
    /\ backend' = IF backend = "open" THEN "closed" ELSE backend
    /\ lease' = IF lease = "held" THEN "releasing" ELSE lease
    /\ UNCHANGED <<task, requested, tooLate>>

\* The task of release_target.
Released ==
    /\ lease = "releasing"
    /\ lease' = "released"
    /\ UNCHANGED <<task, chan, backend, requested, tooLate, pipe>>

\* ProxyClientChannel.connection_lost: the backend is gone or was closed.  A loop that
\* had failed before has nothing left to cancel.
BackendLost ==
    /\ pipe["in"].sender \in {"idle", "sleeping", "failed"}
    /\ pipe' = [pipe EXCEPT !["in"].sender = IF @ = "failed" THEN "gone" ELSE "cancelled"]
    /\ CloseChannel
    /\ UNCHANGED <<task, lease, backend, requested, tooLate>>

SshProxyNext ==
    \/ GetTarget \/ Reserved \/ Connected \/ Requested \/ Bridged
    \/ \E d \in Directions : DataReceived(d) \/ SendLoopWaits(d) \/ SendLoopSends(d)
    \/ ConnectionLost \/ Released \/ BackendLost

-----------------------------------------------------------------------------
\* What a session delivers is the beginning of what it received, in both directions:
\* nothing out of order, twice, or behind a hole.  What is not delivered is still in the
\* buffer, also what came before there was a backend or during the half second of a
\* send loop, with one exception, a write that failed.  The buffer is all that a
\* cancelled loop takes with it: when the backend ends a command and closes, the
\* output of the last half second never reaches the client.
ProxyDataInOrder ==
    \A d \in Directions :
        /\ pipe[d].delivered = [i \in DOMAIN pipe[d].delivered |-> i]
        /\ pipe[d].sender \notin {"failed", "gone"} =>
                pipe[d].delivered \o pipe[d].buffer = [i \in 1..pipe[d].received |-> i]

\* A session whose client is gone keeps neither its lease nor its connection to the
\* backend, unless _connect_backend got them after connection_lost had run: those
\* are never given back.
OnlyLateLeasesLeak ==
    chan = "lost" =>
        /\ lease = "held" => "lease" \in tooLate
        /\ backend = "open" => "backend" \in tooLate
=============================================================================
