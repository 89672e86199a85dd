----------------------------- MODULE PoolProxy -----------------------------
(***************************************************************************)
(* The proxy connections of backend mode "pool" (network/tcp_proxy.py,     *)
(* started by core/server.py for SSH and for Telnet) on top of the VM      *)
(* pool: each connection reserves a VM, connects to it, bridges, and       *)
(* releases it.                                                            *)
(***************************************************************************)
EXTENDS LibvirtPool

VARIABLE handler         \* session -> state of its handle_client task

vars == <<poolVars, handler>>

PCs == {"none", "reserving", "connecting", "bridged", "closing", "closed"}

\* A client connects; the handler asks the pool and waits for its lock.
ClientConnected(s) ==
    /\ handler[s].pc = "none"
    /\ handler' = [handler EXCEPT ![s].pc = "reserving"]
    /\ UNCHANGED poolVars

Reserved(s) ==
    /\ handler[s].pc = "reserving"
    /\ \E v \in VmIds :
          /\ ReserveTarget(s, v)
          /\ handler' = [handler EXCEPT ![s] = [pc |-> "connecting", vm |-> v]]

NothingReserved(s) ==
    /\ handler[s].pc = "reserving"
    /\ ReserveTarget(s, NoVm)
    /\ handler' = [handler EXCEPT ![s].pc = "closed"]

\* From here on the client can leave something on the VM.
BackendConnected(s) ==
    /\ handler[s].pc = "connecting"
    /\ handler' = [handler EXCEPT ![s].pc = "bridged"]
    /\ dirty' = dirty \cup {handler[s].vm}
    /\ UNCHANGED <<vms, leases, reverting, restarted, healthVars, running, connected, served>>

\* open_connection raises: the handler closes the client and returns.
BackendFailed(s) ==
    /\ handler[s].pc = "connecting"
    /\ handler' = [handler EXCEPT ![s].pc = "closed"]
    /\ UNCHANGED poolVars

\* One direction of the bridge ends.
BridgeEnds(s) ==
    /\ handler[s].pc = "bridged"
    /\ handler' = [handler EXCEPT ![s].pc = "closing"]
    /\ UNCHANGED poolVars

Released(s) ==
    /\ handler[s].pc = "closing"
    /\ ReleaseTarget(s, handler[s].vm)
    /\ handler' = [handler EXCEPT ![s] = [pc |-> "closed", vm |-> NoVm]]

PoolStep == poolTasks /\ UNCHANGED handler

Init ==
    /\ poolInit
    /\ handler = [s \in Sessions |-> [pc |-> "none", vm |-> NoVm]]

Next ==
    \/ \E s \in Sessions :
          \/ ClientConnected(s)
          \/ Reserved(s)
          \/ NothingReserved(s)
          \/ BackendConnected(s)
          \/ BackendFailed(s)
          \/ BridgeEnds(s)
          \/ Released(s)
    \/ PoolStep

Spec == Init /\ [][Next]_vars

\* asyncio.Lock wakes its waiters in order, so a task that waits for it gets it even
\* if the health check takes it again and again: strong fairness.  The hypervisor
\* answers, with success or failure: weak fairness.  Nothing is assumed of clients
\* and of the network, and none of the loops has to run.
Fairness ==
    /\ \A s \in Sessions : SF_vars(Reserved(s) \/ NothingReserved(s))
    /\ \A v \in VmIds :
          /\ WF_vars(RebuildDomain(v) /\ UNCHANGED handler)
          /\ SF_vars(RebuildDone(v) /\ UNCHANGED handler)
    /\ WF_vars((\E v \in VmIds : HealthProbe(v)) /\ UNCHANGED handler)
    /\ WF_vars(HealthVerdict /\ UNCHANGED handler)
    /\ WF_vars(HealthDone /\ UNCHANGED handler)

FairSpec == Spec /\ Fairness

-----------------------------------------------------------------------------
(* Properties                                                              *)

Holders(v) == {s \in Sessions : handler[s].vm = v}

\* The types of the pool's fields and of the handlers' local state.
ProxyTypeOK ==
    /\ PoolTypeOK
    /\ handler \in [Sessions -> [pc : PCs, vm : VmIds \cup {NoVm}]]

\* A VM belongs to one client at a time, through any interleaving of connections,
\* rebuilds, health checks and recycling: it is leased exactly when one connection
\* holds it, and only a VM that is marked as rebuilding has a rebuild task, one at
\* most, so that no task restarts a VM under a client.  This rests on the lock, on the
\* names being fresh, and on nobody reporting failures of a leased VM.
VmBelongsToOneClient ==
    FreshNames /\ ~FailuresReported =>
        \A v \in DOMAIN vms :
            /\ Cardinality(Holders(v)) = IF vms[v] = "leased" THEN 1 ELSE 0
            /\ Tasks(v) <= IF vms[v] = "rebuilding" THEN 1 ELSE 0

\* leases is what the handlers hold, entry by entry: release_target removes the
\* entry of the session it is given and no other.
LeasesMatchHandlers == \A s \in Sessions : leases[s] = handler[s].vm

\* With snapshots on and a hypervisor that obeys, a VM that served a client of this
\* run comes back to ready through a revert and no other way, so that its next client
\* finds nothing of it.  The exception is what the formula leaves open: a domain found
\* at the start is ready as it is, and its first client finds what was left there
\* before; the revert comes after that client.
RevertedBeforeReuse ==
    save_snapshots /\ ~LibvirtMayFail /\ ~FailuresReported /\ FreshNames /\ connected =>
        \A v \in Ready \cap served : v \notin dirty

\* A connection that waits for the pool gets an answer, a VM or a refusal.
ReservationsAnswered ==
    \A s \in Sessions : handler[s].pc = "reserving" ~> handler[s].pc # "reserving"

\* A VM that is being rebuilt can be used again, unless the pool is stopped.
RebuiltVmsComeBack ==
    \A v \in VmIds :
        (v \in DOMAIN vms /\ vms[v] = "rebuilding") ~> (v \in Ready \/ ~running)

-----------------------------------------------------------------------------
(* A claim of the documentation that the code does not keep                *)

\* docs/developer-reference/networking/network.md: the proxy owns the lifecycle of
\* the VM and releases the lease when the connection is lost.
ClosedConnectionsHoldNothing ==
    \A s \in Sessions : handler[s].pc = "closed" => handler[s].vm = NoVm
=============================================================================
