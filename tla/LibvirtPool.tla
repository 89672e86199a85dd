---------------------------- MODULE LibvirtPool ----------------------------
(***************************************************************************)
(* The pool of backend virtual machines (core/libvirt_pool.py): the state  *)
(* of each VM, the leases, the rebuild tasks that run beside everything    *)
(* else, the periodic health check, which keeps the pool's lock across its *)
(* awaits, and the recycling of unused VMs.                                *)
(*                                                                         *)
(* The name "<guest_tag>-<n>" is the number n; domains that the hypervisor *)
(* runs under other names carrying the tag are other values.  The order of *)
(* the dict, which follows the hypervisor's list, is left open, and so is  *)
(* the clock: any ready VM may have been unused for vm_unused_timeout.     *)
(***************************************************************************)
EXTENDS Naturals, FiniteSets

CONSTANTS
    Sessions,         \* session ids of the proxy connections
    Domains,          \* names with the tag among the hypervisor's running domains
    NoVm,             \* None
    max_vms,
    save_snapshots,   \* pool.save_snapshots, FALSE by default
    LibvirtMayFail,   \* whether reverting or restarting a domain may raise
    FailuresReported  \* whether anyone calls report_failure; nothing in src/ does

ASSUME PoolAssumption ==
    /\ max_vms \in Nat
    /\ save_snapshots \in BOOLEAN
    /\ LibvirtMayFail \in BOOLEAN
    /\ FailuresReported \in BOOLEAN
    /\ IsFiniteSet(Domains)
    /\ NoVm \notin Domains \cup Nat

VARIABLES
    vms,         \* VM -> its state, for the VMs in the pool
    leases,      \* session -> VM; NoVm: no entry
    reverting,   \* VM -> number of its _rebuild_vm tasks still busy with the hypervisor
    restarted,   \* VM -> number of its _rebuild_vm tasks that only need the lock
    locked,      \* the health check holds the lock
    todo,        \* VMs the health check has still to look at
    probing,     \* the VM whose answer the health check awaits
    running,     \* the background loops run: start was called, stop was not
    connected,   \* conn is not None
    dirty,       \* VMs whose disk holds what a client left there
    served       \* history: VMs leased since the start

poolVars ==
    <<vms, leases, reverting, restarted, locked, todo, probing, running, connected, dirty, served>>
healthVars == <<locked, todo, probing>>

VmIds == (1..max_vms) \cup Domains

VmStates == {"ready", "leased", "rebuilding"}

Ready == {v \in DOMAIN vms : vms[v] = "ready"}

Tasks(v) == reverting[v] + restarted[v]

-----------------------------------------------------------------------------
(* reserve_target, release_target, report_failure                          *)

\* _provision_vm: the name is taken from the size of the pool.
NewVmId == Cardinality(DOMAIN vms) + 1

Lease(s, v) ==
    /\ vms' = [i \in DOMAIN vms \cup {v} |-> IF i = v THEN "leased" ELSE vms[i]]
    /\ leases' = [leases EXCEPT ![s] = v]
    /\ served' = served \cup {v}

\* The call reserve_target(s) returns a lease of v, or None.
ReserveTarget(s, v) ==
    /\ ~locked
    /\ \/ /\ v \in Ready
          /\ Lease(s, v)
       \/ /\ Ready = {}
          /\ Cardinality(DOMAIN vms) < max_vms
          /\ v = NewVmId
          /\ Lease(s, v)
       \/ /\ Ready = {}
          /\ Cardinality(DOMAIN vms) >= max_vms
          /\ v = NoVm
          /\ UNCHANGED <<vms, leases, served>>
    /\ UNCHANGED <<reverting, restarted, healthVars, running, connected, dirty>>

\* Mutant of StartRebuild: no task is created.
StartRebuildNoTask(S) ==
    /\ vms' = [v \in DOMAIN vms |-> IF v \in S THEN "rebuilding" ELSE vms[v]]
    /\ UNCHANGED reverting

\* The VMs of S are marked and get a task each.
StartRebuild(S) ==
    /\ vms' = [v \in DOMAIN vms |-> IF v \in S THEN "rebuilding" ELSE vms[v]]
    /\ reverting' = [v \in VmIds |-> IF v \in S THEN reverting[v] + 1 ELSE reverting[v]]

\* Mutants of ReleaseTarget: the VM is offered again at once; the lease stays on record.
ReleaseTargetReady(s, v) ==
    /\ ~locked
    /\ leases' = [leases EXCEPT ![s] = NoVm]
    /\ vms' = [vms EXCEPT ![v] = "ready"]
    /\ reverting' = [reverting EXCEPT ![v] = @ + 1]
    /\ UNCHANGED <<restarted, healthVars, running, connected, dirty, served>>

ReleaseTargetKeepsLease(s, v) ==
    /\ ~locked
    /\ StartRebuild({v} \cap DOMAIN vms)
    /\ UNCHANGED <<leases, restarted, healthVars, running, connected, dirty, served>>

ReleaseTarget(s, v) ==
    /\ ~locked
    /\ leases' = [leases EXCEPT ![s] = NoVm]
    /\ StartRebuild({v} \cap DOMAIN vms)
    /\ UNCHANGED <<restarted, healthVars, running, connected, dirty, served>>

\* Takes no lock.  Under NAT every VM has the same address and the first in the
\* dict is meant, whichever that is.
ReportFailure(v) ==
    /\ FailuresReported
    /\ v \in DOMAIN vms
    /\ vms[v] = "leased"
    /\ StartRebuild({v})
    /\ UNCHANGED <<leases, restarted, healthVars, running, connected, dirty, served>>

-----------------------------------------------------------------------------
(* _rebuild_vm                                                             *)

\* Mutants of RebuildDomain: the snapshot is never reverted; the task waits for a
\* connection that is not there.
RebuildDomainNoRevert(v) ==
    /\ reverting[v] > 0
    /\ reverting' = [reverting EXCEPT ![v] = @ - 1]
    /\ restarted' = [restarted EXCEPT ![v] = @ + 1]
    /\ UNCHANGED <<vms, leases, healthVars, running, connected, dirty, served>>

RebuildDomainNeedsConnection(v) ==
    /\ reverting[v] > 0
    /\ connected
    /\ reverting' = [reverting EXCEPT ![v] = @ - 1]
    /\ restarted' = [restarted EXCEPT ![v] = @ + 1]
    /\ \/ save_snapshots /\ dirty' = dirty \ {v}
       \/ (save_snapshots => LibvirtMayFail) /\ UNCHANGED dirty
    /\ UNCHANGED <<vms, leases, healthVars, running, connected, served>>

\* Stop the domain, revert it if snapshots are on, start it again.  Every failure
\* is caught and the task goes on.
RebuildDomain(v) ==
    /\ reverting[v] > 0
    /\ reverting' = [reverting EXCEPT ![v] = @ - 1]
    /\ restarted' = [restarted EXCEPT ![v] = @ + 1]
    /\ \/ connected /\ save_snapshots /\ dirty' = dirty \ {v}
       \/ (connected /\ save_snapshots => LibvirtMayFail) /\ UNCHANGED dirty
    /\ UNCHANGED <<vms, leases, healthVars, running, connected, served>>

RebuildDone(v) ==
    /\ ~locked
    /\ restarted[v] > 0
    /\ restarted' = [restarted EXCEPT ![v] = @ - 1]
    /\ vms' = [vms EXCEPT ![v] = "ready"]
    /\ UNCHANGED <<leases, reverting, healthVars, running, connected, dirty, served>>

-----------------------------------------------------------------------------
(* The background loops                                                    *)

HealthStart ==
    /\ running
    /\ connected
    /\ ~locked
    /\ locked' = TRUE
    /\ todo' = DOMAIN vms
    /\ UNCHANGED <<vms, leases, reverting, restarted, probing, running, connected, dirty, served>>

\* _check_vm_health up to its awaits, then what it does with the answer.
HealthProbe(v) ==
    /\ locked
    /\ probing = NoVm
    /\ v \in todo
    /\ todo' = todo \ {v}
    /\ probing' = IF vms[v] = "ready" /\ connected THEN v ELSE NoVm
    /\ UNCHANGED <<vms, leases, reverting, restarted, locked, running, connected, dirty, served>>

HealthVerdict ==
    /\ probing # NoVm
    /\ probing' = NoVm
    /\ \/ StartRebuild({probing})                 \* not active
       \/ UNCHANGED <<vms, reverting>>            \* active, or the query failed
    /\ UNCHANGED <<leases, restarted, locked, todo, running, connected, dirty, served>>

\* Mutant of HealthDone: the lock is not given back.
HealthDoneKeepsLock ==
    /\ locked
    /\ todo = {}
    /\ probing = NoVm
    /\ UNCHANGED poolVars

HealthDone ==
    /\ locked
    /\ todo = {}
    /\ probing = NoVm
    /\ locked' = FALSE
    /\ UNCHANGED <<vms, leases, reverting, restarted, todo, probing, running, connected, dirty, served>>

\* One round of _recycle_loop finds the VMs of S unused for too long.
Recycle(S) ==
    /\ running
    /\ connected
    /\ ~locked
    /\ S # {}
    /\ StartRebuild(S)
    /\ UNCHANGED <<leases, restarted, healthVars, running, connected, dirty, served>>

\* stop: every task is cancelled, which ends the health check and frees its lock;
\* then the connection is closed.
StopTasks ==
    /\ running
    /\ running' = FALSE
    /\ reverting' = [v \in VmIds |-> 0]
    /\ restarted' = [v \in VmIds |-> 0]
    /\ locked' = FALSE
    /\ todo' = {}
    /\ probing' = NoVm
    /\ UNCHANGED <<vms, leases, connected, dirty, served>>

StopConnection ==
    /\ ~running
    /\ connected
    /\ connected' = FALSE
    /\ UNCHANGED <<vms, leases, reverting, restarted, healthVars, running, dirty, served>>

\* start: without a connection _sync_vms finds nothing, and an exception may end it
\* early.  The domains it finds are running and go to the pool as ready, with whatever
\* the clients of an earlier run left on them.
poolInit ==
    /\ connected \in BOOLEAN
    /\ \E found \in SUBSET Domains :
          /\ connected \/ found = {}
          /\ vms = [v \in found |-> "ready"]
          /\ dirty \in SUBSET found
    /\ leases = [s \in Sessions |-> NoVm]
    /\ reverting = [v \in VmIds |-> 0]
    /\ restarted = [v \in VmIds |-> 0]
    /\ locked = FALSE
    /\ todo = {}
    /\ probing = NoVm
    /\ running = TRUE
    /\ served = {}

\* What the pool does by itself.
poolTasks ==
    \/ \E v \in VmIds : ReportFailure(v) \/ RebuildDomain(v) \/ RebuildDone(v) \/ HealthProbe(v)
    \/ \E S \in SUBSET Ready : Recycle(S)
    \/ HealthStart
    \/ HealthVerdict
    \/ HealthDone
    \/ StopTasks
    \/ StopConnection

-----------------------------------------------------------------------------
(* Properties                                                              *)

\* The types of the pool's fields and of its tasks' local state.
PoolTypeOK ==
    /\ DOMAIN vms \subseteq VmIds
    /\ vms \in [DOMAIN vms -> VmStates]
    /\ leases \in [Sessions -> VmIds \cup {NoVm}]
    /\ reverting \in [VmIds -> Nat]
    /\ restarted \in [VmIds -> Nat]
    /\ locked \in BOOLEAN
    /\ todo \subseteq DOMAIN vms
    /\ probing \in DOMAIN vms \cup {NoVm}
    /\ running \in BOOLEAN
    /\ connected \in BOOLEAN
    /\ dirty \subseteq DOMAIN vms
    /\ served \subseteq DOMAIN vms

\* No VM is lost to the pool: one that is marked as rebuilding has a task that will
\* make it ready, whoever marked it (a release, the health check, the recycling, a
\* reported failure) and whatever else happened to it meanwhile, until stop cancels
\* the tasks.
RebuildingHasTask ==
    running => \A v \in DOMAIN vms : vms[v] = "rebuilding" => Tasks(v) >= 1

\* The health check reads a VM's state, waits for the hypervisor and then marks the
\* VM.  Because it keeps the lock, the VM it is waiting for is still ready: it can
\* never take a VM away from a client.
ProbedVmStaysReady == probing # NoVm => vms[probing] = "ready"

\* No name of the pool's numbering is ahead of the size of the pool, so that the
\* next name is new.
FreshNames == \A v \in DOMAIN vms \cap Nat : v <= Cardinality(DOMAIN vms)
=============================================================================
