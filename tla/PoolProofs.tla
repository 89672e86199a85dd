----------------------------- MODULE PoolProofs -----------------------------
(***************************************************************************)
(* What holds of the VM pool under its proxy connections, for every set of *)
(* sessions and of discovered domains and every limit of VMs: the types,   *)
(* the leases on record, and that no VM is lost to the pool, shared by two *)
(* clients or handed from one to the next without a revert.                *)
(***************************************************************************)
EXTENDS PoolProxy, FiniteSetTheorems, TLAPS

USE DEF Tasks, Ready, VmStates, PCs

-----------------------------------------------------------------------------
(* The pool's actions, one by one                                          *)

\* Every step is one of these; most of the proofs split along them.
LEMMA StepCases ==
    ASSUME [Next]_vars
    PROVE  \/ UNCHANGED vars
           \/ \E s \in Sessions : \/ ClientConnected(s) \/ Reserved(s) \/ NothingReserved(s)
                                  \/ BackendConnected(s) \/ BackendFailed(s) \/ BridgeEnds(s)
                                  \/ Released(s)
           \/ /\ UNCHANGED handler
              /\ \/ \E v \in VmIds : ReportFailure(v) \/ RebuildDomain(v) \/ RebuildDone(v) \/ HealthProbe(v)
                 \/ \E S \in SUBSET Ready : Recycle(S)
                 \/ HealthStart \/ HealthVerdict \/ HealthDone \/ StopTasks \/ StopConnection
BY DEF Next, PoolStep, poolTasks

\* NoVm is not a VM.
LEMMA NoVmIsNone == NoVm \notin VmIds
<1>1. \A i \in 1..max_vms : i \in Nat
  BY PoolAssumption
<1> QED BY <1>1, PoolAssumption DEF VmIds

\* The pool is finite.
LEMMA PoolIsFinite ==
    ASSUME DOMAIN vms \subseteq VmIds
    PROVE  IsFiniteSet(DOMAIN vms) /\ Cardinality(DOMAIN vms) \in Nat
<1>1. IsFiniteSet(1..max_vms) /\ IsFiniteSet(Domains)
  BY PoolAssumption, FS_Interval
<1>2. IsFiniteSet(VmIds)
  BY <1>1, FS_Union DEF VmIds
<1>3. IsFiniteSet(DOMAIN vms)
  BY <1>2, FS_Subset
<1> QED BY <1>3, FS_CardinalityType

-----------------------------------------------------------------------------
(* Types                                                                   *)

\* Where a handler is says whether it has a VM, and that VM is in the pool.
HandlerInv ==
    \A s \in Sessions :
        /\ handler[s].pc \in {"none", "reserving"} => handler[s].vm = NoVm
        /\ handler[s].pc \in {"connecting", "bridged", "closing"} => handler[s].vm \in DOMAIN vms
        /\ handler[s].vm \in DOMAIN vms \cup {NoVm}

TypeInv == ProxyTypeOK /\ HandlerInv

\* What a lease does to the dict.
LEMMA LeaseTypes ==
    ASSUME TypeInv, NEW s \in Sessions, NEW v \in VmIds, Lease(s, v)
    PROVE  /\ DOMAIN vms' = DOMAIN vms \cup {v}
           /\ vms' \in [DOMAIN vms' -> VmStates] /\ DOMAIN vms' \subseteq VmIds
           /\ vms'[v] = "leased"
           /\ \A i \in DOMAIN vms : i # v => vms'[i] = vms[i]
           /\ leases' \in [Sessions -> VmIds \cup {NoVm}]
BY DEF TypeInv, ProxyTypeOK, PoolTypeOK, Lease

\* What a rebuild's beginning does to the dict and to the tasks.
LEMMA RebuildTypes ==
    ASSUME TypeInv, NEW S, StartRebuild(S)
    PROVE  /\ DOMAIN vms' = DOMAIN vms /\ vms' \in [DOMAIN vms' -> VmStates]
           /\ reverting' \in [VmIds -> Nat]
           /\ \A i \in DOMAIN vms : vms'[i] = IF i \in S THEN "rebuilding" ELSE vms[i]
           /\ \A i \in VmIds : reverting'[i] = IF i \in S THEN reverting[i] + 1 ELSE reverting[i]
BY DEF TypeInv, ProxyTypeOK, PoolTypeOK, StartRebuild

\* The handlers that do not move keep a VM of a pool that does not shrink.
LEMMA HandlersKept ==
    ASSUME TypeInv, DOMAIN vms \subseteq DOMAIN vms', UNCHANGED handler
    PROVE  HandlerInv'
BY DEF TypeInv, HandlerInv

LEMMA TypeInvInit == Init => TypeInv
<1> SUFFICES ASSUME Init PROVE TypeInv
  OBVIOUS
<1>1. PICK found \in SUBSET Domains : vms = [v \in found |-> "ready"]
  BY DEF Init, poolInit
<1>2. DOMAIN vms = found /\ vms \in [DOMAIN vms -> VmStates] /\ DOMAIN vms \subseteq VmIds
  BY <1>1 DEF VmIds
<1>3. PoolTypeOK
  BY <1>2 DEF Init, poolInit, PoolTypeOK
<1>4. /\ handler \in [Sessions -> [pc : PCs, vm : VmIds \cup {NoVm}]]
      /\ \A s \in Sessions : handler[s].pc = "none" /\ handler[s].vm = NoVm
  BY DEF Init
<1> QED BY <1>3, <1>4 DEF TypeInv, ProxyTypeOK, HandlerInv

LEMMA TypeInvStep == TypeInv /\ [Next]_vars => TypeInv'
<1> SUFFICES ASSUME TypeInv, [Next]_vars PROVE TypeInv'
  OBVIOUS
<1>0. /\ PoolTypeOK /\ HandlerInv
      /\ handler \in [Sessions -> [pc : PCs, vm : VmIds \cup {NoVm}]]
  BY DEF TypeInv, ProxyTypeOK
<1>1. CASE UNCHANGED vars
  BY <1>0, <1>1 DEF vars, poolVars, TypeInv, ProxyTypeOK, PoolTypeOK, HandlerInv
<1>2. ASSUME NEW s \in Sessions, ClientConnected(s) \/ BackendFailed(s) \/ BridgeEnds(s)
      PROVE  TypeInv'
  <2>1. UNCHANGED poolVars
    BY <1>2 DEF ClientConnected, BackendFailed, BridgeEnds
  <2>2. PoolTypeOK'
    BY <1>0, <2>1 DEF poolVars, PoolTypeOK
  <2>3. PICK pc \in PCs : handler' = [handler EXCEPT ![s].pc = pc]
    BY <1>2 DEF ClientConnected, BackendFailed, BridgeEnds
  <2>4. /\ handler' \in [Sessions -> [pc : PCs, vm : VmIds \cup {NoVm}]]
        /\ \A t \in Sessions : handler'[t].vm = handler[t].vm
        /\ \A t \in Sessions : t # s => handler'[t] = handler[t]
        /\ handler'[s].pc = pc
    BY <1>0, <2>3
  <2>5. HandlerInv'
    BY <1>0, <1>2, <2>1, <2>4
       DEF HandlerInv, poolVars, ClientConnected, BackendFailed, BridgeEnds
  <2> QED BY <2>2, <2>4, <2>5 DEF TypeInv, ProxyTypeOK
<1>3. ASSUME NEW s \in Sessions, Reserved(s) PROVE TypeInv'
  <2>1. PICK v \in VmIds : /\ ReserveTarget(s, v)
                           /\ handler' = [handler EXCEPT ![s] = [pc |-> "connecting", vm |-> v]]
    BY <1>3 DEF Reserved
  <2>2. /\ Lease(s, v) /\ served' = served \cup {v}
        /\ UNCHANGED <<reverting, restarted, healthVars, running, connected, dirty>>
    BY <2>1, NoVmIsNone DEF ReserveTarget, Lease
  <2>3. PoolTypeOK'
    BY <1>0, <2>2, LeaseTypes DEF PoolTypeOK, healthVars
  <2>4. /\ handler' \in [Sessions -> [pc : PCs, vm : VmIds \cup {NoVm}]]
        /\ handler'[s] = [pc |-> "connecting", vm |-> v]
        /\ \A t \in Sessions : t # s => handler'[t] = handler[t]
    BY <1>0, <2>1
  <2>5. DOMAIN vms' = DOMAIN vms \cup {v}
    BY <2>2, LeaseTypes
  <2>6. HandlerInv'
    BY <1>0, <2>4, <2>5 DEF HandlerInv
  <2> QED BY <2>3, <2>4, <2>6 DEF TypeInv, ProxyTypeOK
<1>4. ASSUME NEW s \in Sessions, NothingReserved(s) PROVE TypeInv'
  <2>1. DOMAIN vms' = DOMAIN vms /\ PoolTypeOK'
    <3>1. CASE UNCHANGED <<vms, leases, served>>
      BY <1>0, <1>4, <3>1 DEF NothingReserved, ReserveTarget, PoolTypeOK, healthVars
    <3>2. NoVm \notin Ready /\ (NewVmId # NoVm \/ ~(Cardinality(DOMAIN vms) < max_vms))
      <4>1. NoVm \notin Ready
        BY <1>0, NoVmIsNone DEF PoolTypeOK
      <4>2. NewVmId # NoVm
        BY <1>0, PoolIsFinite, PoolAssumption DEF PoolTypeOK, NewVmId
      <4> QED BY <4>1, <4>2
    <3> QED BY <1>4, <3>1, <3>2 DEF NothingReserved, ReserveTarget
  <2>2. /\ handler' \in [Sessions -> [pc : PCs, vm : VmIds \cup {NoVm}]]
        /\ handler'[s].pc = "closed" /\ handler'[s].vm = handler[s].vm
        /\ \A t \in Sessions : t # s => handler'[t] = handler[t]
    BY <1>0, <1>4 DEF NothingReserved
  <2>3. HandlerInv'
    BY <1>0, <2>1, <2>2 DEF HandlerInv
  <2> QED BY <2>1, <2>2, <2>3 DEF TypeInv, ProxyTypeOK
<1>5. ASSUME NEW s \in Sessions, BackendConnected(s) PROVE TypeInv'
  <2>1. handler[s].vm \in DOMAIN vms
    BY <1>0, <1>5 DEF BackendConnected, HandlerInv
  <2>2. PoolTypeOK'
    BY <1>0, <1>5, <2>1 DEF BackendConnected, PoolTypeOK, healthVars
  <2>3. /\ handler' \in [Sessions -> [pc : PCs, vm : VmIds \cup {NoVm}]]
        /\ \A t \in Sessions : handler'[t].vm = handler[t].vm
        /\ \A t \in Sessions : t # s => handler'[t] = handler[t]
        /\ handler'[s].pc = "bridged"
    BY <1>0, <1>5 DEF BackendConnected
  <2>4. HandlerInv'
    BY <1>0, <1>5, <2>1, <2>3 DEF HandlerInv, BackendConnected
  <2> QED BY <2>2, <2>3, <2>4 DEF TypeInv, ProxyTypeOK
<1>6. ASSUME NEW s \in Sessions, Released(s) PROVE TypeInv'
  <2>1. /\ StartRebuild({handler[s].vm} \cap DOMAIN vms)
        /\ leases' = [leases EXCEPT ![s] = NoVm]
        /\ UNCHANGED <<restarted, healthVars, running, connected, dirty, served>>
        /\ handler' = [handler EXCEPT ![s] = [pc |-> "closed", vm |-> NoVm]]
    BY <1>6 DEF Released, ReleaseTarget
  <2>2. PoolTypeOK'
    BY <1>0, <2>1, RebuildTypes DEF PoolTypeOK, healthVars
  <2>3. /\ handler' \in [Sessions -> [pc : PCs, vm : VmIds \cup {NoVm}]]
        /\ handler'[s] = [pc |-> "closed", vm |-> NoVm]
        /\ \A t \in Sessions : t # s => handler'[t] = handler[t]
    BY <1>0, <2>1
  <2>4. HandlerInv'
    BY <1>0, <2>1, <2>3, RebuildTypes DEF HandlerInv
  <2> QED BY <2>2, <2>3, <2>4 DEF TypeInv, ProxyTypeOK
<1>7. ASSUME UNCHANGED handler, PoolTypeOK', DOMAIN vms \subseteq DOMAIN vms' PROVE TypeInv'
  BY <1>0, <1>7, HandlersKept DEF TypeInv, ProxyTypeOK
<1>8. ASSUME NEW v \in VmIds, UNCHANGED handler,
             ReportFailure(v) \/ RebuildDomain(v) \/ RebuildDone(v) \/ HealthProbe(v)
      PROVE  TypeInv'
  <2>1. CASE ReportFailure(v)
    <3>1. PoolTypeOK' /\ DOMAIN vms' = DOMAIN vms
      BY <1>0, <2>1, RebuildTypes DEF ReportFailure, PoolTypeOK, healthVars
    <3> QED BY <3>1, <1>7, <1>8
  <2>2. CASE RebuildDomain(v)
    <3>1. PoolTypeOK' /\ DOMAIN vms' = DOMAIN vms
      BY <1>0, <2>2 DEF RebuildDomain, PoolTypeOK, healthVars
    <3> QED BY <3>1, <1>7, <1>8
  <2>3. CASE RebuildDone(v)
    <3>1. /\ DOMAIN vms' = DOMAIN vms /\ vms' \in [DOMAIN vms' -> VmStates]
          /\ restarted' \in [VmIds -> Nat]
      <4>1. /\ vms \in [DOMAIN vms -> VmStates] /\ vms' = [vms EXCEPT ![v] = "ready"]
            /\ restarted \in [VmIds -> Nat] /\ restarted[v] \in Nat /\ restarted[v] > 0
            /\ restarted' = [restarted EXCEPT ![v] = @ - 1]
        BY <1>0, <2>3 DEF RebuildDone, PoolTypeOK
      <4>2. restarted[v] - 1 \in Nat
        BY <4>1
      <4>3. restarted' \in [VmIds -> Nat]
        BY <4>1, <4>2
      <4>4. DOMAIN vms' = DOMAIN vms /\ vms' \in [DOMAIN vms -> VmStates]
        BY <4>1
      <4> QED BY <4>3, <4>4
    <3>2. PoolTypeOK'
      BY <1>0, <2>3, <3>1 DEF RebuildDone, PoolTypeOK, healthVars
    <3> QED BY <3>1, <3>2, <1>7, <1>8
  <2>4. CASE HealthProbe(v)
    <3>1. PoolTypeOK' /\ DOMAIN vms' = DOMAIN vms
      BY <1>0, <2>4 DEF HealthProbe, PoolTypeOK
    <3> QED BY <3>1, <1>7, <1>8
  <2> QED BY <1>8, <2>1, <2>2, <2>3, <2>4
<1>9. ASSUME NEW S \in SUBSET Ready, Recycle(S), UNCHANGED handler PROVE TypeInv'
  <2>1. PoolTypeOK' /\ DOMAIN vms' = DOMAIN vms
    BY <1>0, <1>9, RebuildTypes DEF Recycle, PoolTypeOK, healthVars
  <2> QED BY <2>1, <1>7, <1>9
<1>10. CASE UNCHANGED handler /\ HealthVerdict
  <2>1. PoolTypeOK' /\ DOMAIN vms' = DOMAIN vms
    BY <1>0, <1>10, RebuildTypes DEF HealthVerdict, PoolTypeOK, healthVars
  <2> QED BY <2>1, <1>7, <1>10
<1>11. CASE UNCHANGED handler /\ (HealthStart \/ HealthDone \/ StopTasks \/ StopConnection)
  <2>1. UNCHANGED <<vms, leases, dirty, served>>
    BY <1>11 DEF HealthStart, HealthDone, StopTasks, StopConnection
  <2>2. CASE StopTasks
    BY <1>0, <2>1, <2>2, <1>7, <1>11 DEF StopTasks, PoolTypeOK
  <2>3. CASE HealthStart \/ HealthDone \/ StopConnection
    <3>1. PoolTypeOK'
      BY <1>0, <2>3 DEF HealthStart, HealthDone, StopConnection, PoolTypeOK, healthVars
    <3> QED BY <3>1, <2>1, <1>7, <1>11
  <2> QED BY <1>11, <2>2, <2>3
<1> QED BY <1>1, <1>2, <1>3, <1>4, <1>5, <1>6, <1>8, <1>9, <1>10, <1>11, StepCases

\* The pool's fields and the handlers' local state keep their types; a handler that
\* serves a client has a VM of the pool.
THEOREM PoolTypesCorrect == Spec => [](ProxyTypeOK /\ HandlerInv)
BY TypeInvInit, TypeInvStep, PTL DEF Spec, TypeInv

-----------------------------------------------------------------------------
(* The leases on record                                                    *)

LEMMA LeasesStep == TypeInv /\ LeasesMatchHandlers /\ [Next]_vars => LeasesMatchHandlers'
<1> SUFFICES ASSUME TypeInv, LeasesMatchHandlers, [Next]_vars PROVE LeasesMatchHandlers'
  OBVIOUS
<1>0. /\ leases \in [Sessions -> VmIds \cup {NoVm}]
      /\ handler \in [Sessions -> [pc : PCs, vm : VmIds \cup {NoVm}]]
      /\ \A s \in Sessions : leases[s] = handler[s].vm
  BY DEF TypeInv, ProxyTypeOK, PoolTypeOK, LeasesMatchHandlers
<1>1. ASSUME UNCHANGED leases, \A s \in Sessions : handler'[s].vm = handler[s].vm
      PROVE  LeasesMatchHandlers'
  BY <1>0, <1>1 DEF LeasesMatchHandlers
<1>2. CASE UNCHANGED vars
  BY <1>1, <1>2 DEF vars, poolVars
<1>3. ASSUME NEW s \in Sessions,
             ClientConnected(s) \/ BackendFailed(s) \/ BridgeEnds(s) \/ BackendConnected(s)
      PROVE  LeasesMatchHandlers'
  <2>1. UNCHANGED leases /\ \E pc \in PCs : handler' = [handler EXCEPT ![s].pc = pc]
    BY <1>3 DEF ClientConnected, BackendFailed, BridgeEnds, BackendConnected, poolVars
  <2> QED BY <1>0, <1>1, <2>1
<1>4. ASSUME NEW s \in Sessions, Reserved(s) PROVE LeasesMatchHandlers'
  <2>1. PICK v \in VmIds : /\ leases' = [leases EXCEPT ![s] = v]
                           /\ handler' = [handler EXCEPT ![s] = [pc |-> "connecting", vm |-> v]]
    BY <1>4, NoVmIsNone DEF Reserved, ReserveTarget, Lease
  <2> QED BY <1>0, <2>1 DEF LeasesMatchHandlers
<1>5. ASSUME NEW s \in Sessions, NothingReserved(s) PROVE LeasesMatchHandlers'
  <2>1. handler[s].vm = NoVm
    BY <1>5 DEF NothingReserved, TypeInv, HandlerInv
  <2>2. leases' = leases \/ leases' = [leases EXCEPT ![s] = NoVm]
    BY <1>5 DEF NothingReserved, ReserveTarget, Lease
  <2>3. handler' = [handler EXCEPT ![s].pc = "closed"]
    BY <1>5 DEF NothingReserved
  <2> QED BY <1>0, <2>1, <2>2, <2>3 DEF LeasesMatchHandlers
<1>6. ASSUME NEW s \in Sessions, Released(s) PROVE LeasesMatchHandlers'
  <2>1. /\ leases' = [leases EXCEPT ![s] = NoVm]
        /\ handler' = [handler EXCEPT ![s] = [pc |-> "closed", vm |-> NoVm]]
    BY <1>6 DEF Released, ReleaseTarget
  <2> QED BY <1>0, <2>1 DEF LeasesMatchHandlers
<1>7. CASE /\ UNCHANGED handler
           /\ \/ \E v \in VmIds : ReportFailure(v) \/ RebuildDomain(v) \/ RebuildDone(v) \/ HealthProbe(v)
              \/ \E S \in SUBSET Ready : Recycle(S)
              \/ HealthStart \/ HealthVerdict \/ HealthDone \/ StopTasks \/ StopConnection
  <2>1. UNCHANGED leases
    BY <1>7 DEF ReportFailure, RebuildDomain, RebuildDone, HealthProbe, Recycle, HealthStart,
                HealthVerdict, HealthDone, StopTasks, StopConnection
  <2> QED BY <1>1, <1>7, <2>1
<1> QED BY <1>2, <1>3, <1>4, <1>5, <1>6, <1>7, StepCases

\* Entry by entry the pool's leases are what the handlers hold, for whatever
\* connections come, fail and end.
THEOREM LeasesOnRecord == Spec => []LeasesMatchHandlers
<1>1. Init => LeasesMatchHandlers
  BY DEF Init, poolInit, LeasesMatchHandlers
<1> QED BY <1>1, LeasesStep, TypeInvInit, TypeInvStep, PTL DEF Spec

-----------------------------------------------------------------------------
(* No VM is lost to the pool                                               *)

LEMMA RebuildingStep == TypeInv /\ RebuildingHasTask /\ [Next]_vars => RebuildingHasTask'
<1> SUFFICES ASSUME TypeInv, RebuildingHasTask, [Next]_vars, running',
                    NEW v \in DOMAIN vms', vms'[v] = "rebuilding"
             PROVE  Tasks(v)' >= 1
  BY DEF RebuildingHasTask
<1>0. /\ vms \in [DOMAIN vms -> VmStates] /\ DOMAIN vms \subseteq VmIds
      /\ reverting \in [VmIds -> Nat] /\ restarted \in [VmIds -> Nat]
      /\ running => \A i \in DOMAIN vms : vms[i] = "rebuilding" => Tasks(i) >= 1
      /\ \A i \in VmIds : reverting[i] \in Nat /\ restarted[i] \in Nat
  BY DEF TypeInv, ProxyTypeOK, PoolTypeOK, RebuildingHasTask
<1>1. CASE UNCHANGED <<vms, reverting, restarted, running>>
  BY <1>0, <1>1
<1>2. CASE UNCHANGED vars
  BY <1>1, <1>2 DEF vars, poolVars
<1>3. ASSUME NEW s \in Sessions,
             ClientConnected(s) \/ BackendFailed(s) \/ BridgeEnds(s) \/ BackendConnected(s)
      PROVE  Tasks(v)' >= 1
  BY <1>1, <1>3 DEF ClientConnected, BackendFailed, BridgeEnds, BackendConnected, poolVars
<1>4. ASSUME NEW s \in Sessions, Reserved(s) \/ NothingReserved(s) PROVE Tasks(v)' >= 1
  <2>1. UNCHANGED <<reverting, restarted, running>>
    BY <1>4 DEF Reserved, NothingReserved, ReserveTarget
  <2>2. v \in DOMAIN vms /\ vms[v] = "rebuilding"
    BY <1>4, ZenonT(30) DEF Reserved, NothingReserved, ReserveTarget, Lease
  <2> QED BY <1>0, <2>1, <2>2
<1>5. ASSUME NEW S, StartRebuild(S), UNCHANGED <<restarted, running>> PROVE Tasks(v)' >= 1
  <2>1. /\ v \in DOMAIN vms /\ vms'[v] = (IF v \in S THEN "rebuilding" ELSE vms[v])
        /\ reverting'[v] = IF v \in S THEN reverting[v] + 1 ELSE reverting[v]
    BY <1>0, <1>5, RebuildTypes
  <2> QED BY <1>0, <1>5, <2>1
<1>6. ASSUME NEW s \in Sessions, Released(s) PROVE Tasks(v)' >= 1
  BY <1>5, <1>6 DEF Released, ReleaseTarget
<1>7. ASSUME NEW i \in VmIds, ReportFailure(i) PROVE Tasks(v)' >= 1
  BY <1>5, <1>7 DEF ReportFailure
<1>8. ASSUME NEW i \in VmIds, RebuildDomain(i) PROVE Tasks(v)' >= 1
  <2>1. /\ v \in DOMAIN vms /\ vms[v] = "rebuilding" /\ running
        /\ reverting' = [reverting EXCEPT ![i] = @ - 1]
        /\ restarted' = [restarted EXCEPT ![i] = @ + 1] /\ reverting[i] > 0
    BY <1>8 DEF RebuildDomain
  <2>2. Tasks(v)' = Tasks(v)
    BY <1>0, <2>1
  <2> QED BY <1>0, <2>1, <2>2
<1>9. ASSUME NEW i \in VmIds, RebuildDone(i) PROVE Tasks(v)' >= 1
  <2>1. /\ v # i /\ v \in DOMAIN vms /\ vms[v] = "rebuilding" /\ running
        /\ restarted'[v] = restarted[v] /\ reverting' = reverting
    BY <1>0, <1>9 DEF RebuildDone
  <2> QED BY <1>0, <2>1
<1>10. ASSUME NEW S \in SUBSET Ready, Recycle(S) PROVE Tasks(v)' >= 1
  BY <1>5, <1>10 DEF Recycle
<1>11. CASE HealthVerdict
  BY <1>1, <1>5, <1>11 DEF HealthVerdict
<1>12. CASE HealthStart \/ HealthDone \/ StopTasks \/ StopConnection \/ \E i \in VmIds : HealthProbe(i)
  BY <1>1, <1>12 DEF HealthStart, HealthDone, StopTasks, StopConnection, HealthProbe
<1> QED BY <1>2, <1>3, <1>4, <1>6, <1>7, <1>8, <1>9, <1>10, <1>11, <1>12, StepCases

\* Whoever marks a VM as rebuilding, and however often, a task remains that makes it
\* ready, until the pool is stopped.
THEOREM NoVmIsLost == Spec => []RebuildingHasTask
<1>1. Init => RebuildingHasTask
  BY DEF Init, poolInit, RebuildingHasTask
<1> QED BY <1>1, RebuildingStep, TypeInvInit, TypeInvStep, PTL DEF Spec

-----------------------------------------------------------------------------
(* A VM belongs to one client, who finds it clean                          *)

\* The health check waits for the answer about a ready VM with the lock held.
ProbeInv == probing # NoVm => locked /\ probing \in DOMAIN vms /\ vms[probing] = "ready"

\* Whoever leases or rebuilds a VM does so alone, and a VM that is ready or about to
\* be was reverted.
AloneInv ==
    /\ \A s \in Sessions : handler[s].vm # NoVm => vms[handler[s].vm] = "leased"
    /\ \A s, t \in Sessions : handler[s].vm = handler[t].vm /\ handler[s].vm # NoVm => s = t
    /\ \A v \in DOMAIN vms : vms[v] = "leased" => \E s \in Sessions : handler[s].vm = v
    /\ \A v \in DOMAIN vms : Tasks(v) <= IF vms[v] = "rebuilding" THEN 1 ELSE 0
    /\ \A v \in VmIds \ DOMAIN vms : Tasks(v) = 0

CleanInv ==
    \A v \in DOMAIN vms :
        /\ vms[v] = "ready" /\ v \in served => v \notin dirty
        /\ restarted[v] > 0 => v \notin dirty

Obeyed == save_snapshots /\ ~LibvirtMayFail /\ connected

SharingInv ==
    FreshNames /\ ~FailuresReported => AloneInv /\ (Obeyed => CleanInv)

LEMMA ProbeStep == TypeInv /\ ProbeInv /\ [Next]_vars => ProbeInv'
<1> SUFFICES ASSUME TypeInv, ProbeInv, [Next]_vars, probing' # NoVm
             PROVE  locked' /\ probing' \in DOMAIN vms' /\ vms'[probing'] = "ready"
  BY DEF ProbeInv
<1>0. /\ probing # NoVm => locked /\ probing \in DOMAIN vms /\ vms[probing] = "ready"
      /\ vms \in [DOMAIN vms -> VmStates] /\ todo \subseteq DOMAIN vms
  BY DEF ProbeInv, TypeInv, ProxyTypeOK, PoolTypeOK
<1>1. CASE UNCHANGED <<vms, locked, probing>>
  BY <1>0, <1>1
<1>2. CASE \E s \in Sessions : \/ ClientConnected(s) \/ BackendConnected(s) \/ BackendFailed(s)
                               \/ BridgeEnds(s)
  BY <1>1, <1>2 DEF ClientConnected, BackendFailed, BridgeEnds, BackendConnected, poolVars, healthVars
<1>3. CASE \E s \in Sessions : Reserved(s) \/ NothingReserved(s) \/ Released(s)
  BY <1>0, <1>3 DEF Reserved, NothingReserved, Released, ReserveTarget, ReleaseTarget, healthVars
<1>4. CASE \E v \in VmIds : ReportFailure(v)
  BY <1>0, <1>4 DEF ReportFailure, StartRebuild, healthVars
<1>5. CASE \E v \in VmIds : RebuildDomain(v) \/ RebuildDone(v)
  BY <1>0, <1>1, <1>5 DEF RebuildDomain, RebuildDone, healthVars
<1>6. CASE \E v \in VmIds : HealthProbe(v)
  BY <1>0, <1>6 DEF HealthProbe
<1>7. CASE \E S \in SUBSET Ready : Recycle(S)
  BY <1>0, <1>7 DEF Recycle, healthVars
<1>8. CASE HealthStart \/ HealthVerdict \/ HealthDone \/ StopTasks \/ StopConnection
  BY <1>0, <1>1, <1>8 DEF HealthStart, HealthVerdict, HealthDone, StopTasks, StopConnection, healthVars
<1>9. CASE UNCHANGED vars
  BY <1>1, <1>9 DEF vars, poolVars
<1> QED BY <1>2, <1>3, <1>4, <1>5, <1>6, <1>7, <1>8, <1>9, StepCases

\* Once a name is ahead of the size of the pool, one always is.
LEMMA FreshBefore == TypeInv /\ [Next]_vars /\ FreshNames' => FreshNames
<1> SUFFICES ASSUME TypeInv, [Next]_vars, ~FreshNames PROVE ~FreshNames'
  OBVIOUS
<1>0. IsFiniteSet(DOMAIN vms) /\ Cardinality(DOMAIN vms) \in Nat
  BY PoolIsFinite DEF TypeInv, ProxyTypeOK, PoolTypeOK
<1>1. PICK ahead \in DOMAIN vms \cap Nat : ~(ahead <= Cardinality(DOMAIN vms))
  BY DEF FreshNames
<1>2. CASE DOMAIN vms' = DOMAIN vms
  BY <1>2 DEF FreshNames
<1>3. CASE Ready = {} /\ DOMAIN vms' = DOMAIN vms \cup {NewVmId}
  <2>1. CASE NewVmId \in DOMAIN vms
    BY <1>2, <1>3, <2>1
  <2>2. CASE NewVmId \notin DOMAIN vms
    <3>1. Cardinality(DOMAIN vms') = Cardinality(DOMAIN vms) + 1
      BY <1>0, <1>3, <2>2, FS_AddElement
    <3>2. ahead # Cardinality(DOMAIN vms) + 1
      BY <1>1, <2>2 DEF NewVmId
    <3>3. ~(ahead <= Cardinality(DOMAIN vms'))
      BY <1>0, <1>1, <3>1, <3>2
    <3> QED BY <1>1, <1>3, <3>3 DEF FreshNames
  <2> QED BY <2>1, <2>2
<1>4. ASSUME NEW s \in Sessions, NEW v, Reserved(s) \/ NothingReserved(s)
      PROVE  ~FreshNames'
  <2>1. PICK w : ReserveTarget(s, w)
    BY <1>4 DEF Reserved, NothingReserved
  <2>2. DOMAIN vms' = DOMAIN vms \/ (Ready = {} /\ DOMAIN vms' = DOMAIN vms \cup {NewVmId})
    BY <2>1 DEF ReserveTarget, Lease
  <2> QED BY <1>2, <1>3, <2>2
<1>5. CASE \E s \in Sessions : \/ ClientConnected(s) \/ BackendConnected(s) \/ BackendFailed(s)
                               \/ BridgeEnds(s) \/ Released(s)
  BY <1>2, <1>5 DEF ClientConnected, BackendFailed, BridgeEnds, BackendConnected, Released,
                    ReleaseTarget, StartRebuild, poolVars
<1>6. CASE \/ \E v \in VmIds : ReportFailure(v) \/ RebuildDomain(v) \/ RebuildDone(v) \/ HealthProbe(v)
           \/ \E S \in SUBSET Ready : Recycle(S)
           \/ HealthStart \/ HealthVerdict \/ HealthDone \/ StopTasks \/ StopConnection
  BY <1>2, <1>6 DEF ReportFailure, RebuildDomain, RebuildDone, HealthProbe, Recycle, HealthStart,
                    HealthVerdict, HealthDone, StopTasks, StopConnection, StartRebuild
<1>7. CASE UNCHANGED vars
  BY <1>2, <1>7 DEF vars, poolVars
<1> QED BY <1>4, <1>5, <1>6, <1>7, StepCases

\* A VM that is not being rebuilt has no task.
LEMMA NoTask ==
    ASSUME TypeInv, AloneInv, NEW v \in VmIds, v \in DOMAIN vms => vms[v] # "rebuilding"
    PROVE  reverting[v] = 0 /\ restarted[v] = 0 /\ Tasks(v) = 0
<1>1. reverting[v] \in Nat /\ restarted[v] \in Nat
  BY DEF TypeInv, ProxyTypeOK, PoolTypeOK
<1>2. reverting[v] + restarted[v] <= 0
  <2>1. CASE v \in DOMAIN vms
    BY <2>1 DEF AloneInv
  <2>2. CASE v \notin DOMAIN vms
    BY <1>1, <2>2 DEF AloneInv
  <2> QED BY <2>1, <2>2
<1> QED BY <1>1, <1>2

LEMMA SharingStep ==
    TypeInv /\ ProbeInv /\ SharingInv /\ [Next]_vars => SharingInv'
<1> SUFFICES ASSUME TypeInv, ProbeInv, SharingInv, [Next]_vars, FreshNames', ~FailuresReported
             PROVE  AloneInv' /\ (Obeyed' => CleanInv')
  BY DEF SharingInv
<1>0. /\ vms \in [DOMAIN vms -> VmStates] /\ DOMAIN vms \subseteq VmIds
      /\ reverting \in [VmIds -> Nat] /\ restarted \in [VmIds -> Nat]
      /\ \A v \in VmIds : reverting[v] \in Nat /\ restarted[v] \in Nat
      /\ handler \in [Sessions -> [pc : PCs, vm : VmIds \cup {NoVm}]]
      /\ HandlerInv /\ dirty \subseteq DOMAIN vms /\ served \subseteq DOMAIN vms
  BY DEF TypeInv, ProxyTypeOK, PoolTypeOK
<1>1. FreshNames /\ AloneInv /\ (Obeyed => CleanInv)
  BY FreshBefore DEF SharingInv
<1>2. Obeyed' => connected' /\ save_snapshots /\ ~LibvirtMayFail
  BY DEF Obeyed
<1>3. ASSUME UNCHANGED <<vms, reverting, restarted, dirty, served, connected>>,
             \A s \in Sessions : handler'[s].vm = handler[s].vm
      PROVE  AloneInv' /\ (Obeyed' => CleanInv')
  BY <1>1, <1>3 DEF AloneInv, CleanInv, Obeyed
<1>4. CASE UNCHANGED vars
  BY <1>3, <1>4 DEF vars, poolVars
<1>5. ASSUME NEW s \in Sessions, ClientConnected(s) \/ BackendFailed(s) \/ BridgeEnds(s)
      PROVE  AloneInv' /\ (Obeyed' => CleanInv')
  <2>1. UNCHANGED poolVars /\ \E pc \in PCs : handler' = [handler EXCEPT ![s].pc = pc]
    BY <1>5 DEF ClientConnected, BackendFailed, BridgeEnds
  <2>2. \A t \in Sessions : handler'[t].vm = handler[t].vm
    BY <1>0, <2>1
  <2> QED BY <1>3, <2>1, <2>2 DEF poolVars
<1>6. ASSUME NEW s \in Sessions, Reserved(s) PROVE AloneInv' /\ (Obeyed' => CleanInv')
  <2>1. PICK v \in VmIds : /\ ReserveTarget(s, v)
                           /\ handler' = [handler EXCEPT ![s] = [pc |-> "connecting", vm |-> v]]
    BY <1>6 DEF Reserved
  <2>2. /\ Lease(s, v) /\ served' = served \cup {v}
        /\ UNCHANGED <<reverting, restarted, connected, dirty>>
        /\ v \in Ready \/ v = NewVmId
    BY <2>1, NoVmIsNone DEF ReserveTarget, Lease
  <2>3. v \in DOMAIN vms => vms[v] = "ready"
    <3>1. CASE v = NewVmId
      <4>1. Cardinality(DOMAIN vms) \in Nat
        BY <1>0, PoolIsFinite
      <4>2. NewVmId \in Nat /\ ~(NewVmId <= Cardinality(DOMAIN vms))
        BY <4>1 DEF NewVmId
      <4> QED BY <1>1, <3>1, <4>2 DEF FreshNames
    <3> QED BY <2>2, <3>1
  <2>4. /\ DOMAIN vms' = DOMAIN vms \cup {v} /\ vms'[v] = "leased"
        /\ \A i \in DOMAIN vms : i # v => vms'[i] = vms[i]
    BY <2>2, LeaseTypes
  <2>5. Tasks(v) = 0 /\ reverting[v] = 0 /\ restarted[v] = 0 /\ \A t \in Sessions : handler[t].vm # v
    <3>1. Tasks(v) = 0 /\ reverting[v] = 0 /\ restarted[v] = 0
      BY <1>1, <2>3, NoTask
    <3>2. ASSUME NEW t \in Sessions, handler[t].vm = v
          PROVE  FALSE
      <4>1. v # NoVm
        BY NoVmIsNone
      <4>2. v \in DOMAIN vms /\ vms[v] = "leased"
        BY <1>0, <1>1, <3>2, <4>1 DEF AloneInv, HandlerInv
      <4> QED BY <2>3, <4>2
    <3> QED BY <3>1, <3>2
  <2>6. /\ handler'[s].vm = v /\ v # NoVm
        /\ \A t \in Sessions : t # s => handler'[t].vm = handler[t].vm
    BY <1>0, <2>1, NoVmIsNone
  <2>7. handler[s].vm = NoVm
    BY <1>0, <1>6 DEF Reserved, HandlerInv
  <2>8. /\ \A t \in Sessions : handler'[t].vm # NoVm => vms'[handler'[t].vm] = "leased"
        /\ \A t, u \in Sessions : handler'[t].vm = handler'[u].vm /\ handler'[t].vm # NoVm => t = u
    <3>1. \A t \in Sessions : t # s => handler'[t].vm = handler[t].vm /\ handler'[t].vm # v
      BY <2>5, <2>6
    <3>2. ASSUME NEW t \in Sessions, handler'[t].vm # NoVm
          PROVE  vms'[handler'[t].vm] = "leased"
      <4>1. CASE t = s
        BY <2>4, <2>6, <4>1
      <4>2. CASE t # s
        BY <1>0, <1>1, <2>4, <3>1, <3>2, <4>2 DEF AloneInv, HandlerInv
      <4> QED BY <4>1, <4>2
    <3>3. ASSUME NEW t \in Sessions, NEW u \in Sessions,
                 handler'[t].vm = handler'[u].vm, handler'[t].vm # NoVm
          PROVE  t = u
      <4>1. CASE t # s /\ u # s
        BY <1>1, <3>1, <3>3, <4>1 DEF AloneInv
      <4>2. CASE t = s \/ u = s
        BY <2>6, <3>1, <3>3, <4>2
      <4> QED BY <4>1, <4>2
    <3> QED BY <3>2, <3>3
  <2>9. \A i \in DOMAIN vms' : vms'[i] = "leased" => \E t \in Sessions : handler'[t].vm = i
    <3> SUFFICES ASSUME NEW i \in DOMAIN vms', vms'[i] = "leased", i # v
                 PROVE  \E t \in Sessions : handler'[t].vm = i
      BY <2>6
    <3>1. PICK t \in Sessions : handler[t].vm = i
      BY <1>1, <2>4 DEF AloneInv
    <3>2. t # s
      BY <1>0, <2>4, <2>7, <3>1, NoVmIsNone
    <3> QED BY <2>6, <3>1, <3>2
  <2>10. /\ \A i \in DOMAIN vms' : Tasks(i)' <= IF vms'[i] = "rebuilding" THEN 1 ELSE 0
         /\ \A i \in VmIds \ DOMAIN vms' : Tasks(i)' = 0
    BY <1>0, <1>1, <2>2, <2>4, <2>5 DEF AloneInv
  <2>11. AloneInv'
    BY <2>8, <2>9, <2>10 DEF AloneInv
  <2>12. Obeyed' => CleanInv'
    <3> SUFFICES ASSUME Obeyed', NEW i \in DOMAIN vms',
                        (vms'[i] = "ready" /\ i \in served') \/ restarted'[i] > 0
                 PROVE  i \notin dirty'
      BY DEF CleanInv
    <3>1. i # v
      BY <1>0, <2>1, <2>2, <2>4, <2>5
    <3> QED BY <1>1, <2>2, <2>4, <3>1 DEF Obeyed, CleanInv
  <2> QED BY <2>11, <2>12
<1>7. ASSUME NEW s \in Sessions, NothingReserved(s) PROVE AloneInv' /\ (Obeyed' => CleanInv')
  <2>1. UNCHANGED <<vms, served>>
    <3>1. NoVm \notin Ready /\ NewVmId # NoVm
      BY <1>0, NoVmIsNone, PoolIsFinite, PoolAssumption DEF NewVmId
    <3> QED BY <1>7, <3>1 DEF NothingReserved, ReserveTarget
  <2>2. \A t \in Sessions : handler'[t].vm = handler[t].vm
    BY <1>0, <1>7 DEF NothingReserved
  <2> QED BY <1>3, <1>7, <2>1, <2>2 DEF NothingReserved, ReserveTarget
<1>8. ASSUME NEW s \in Sessions, BackendConnected(s) PROVE AloneInv' /\ (Obeyed' => CleanInv')
  <2>1. handler[s].vm \in DOMAIN vms /\ handler[s].vm # NoVm
    BY <1>0, <1>8, NoVmIsNone DEF BackendConnected, HandlerInv
  <2>2. /\ UNCHANGED <<vms, reverting, restarted, connected, served>> /\ dirty' = dirty \cup {handler[s].vm}
        /\ \A t \in Sessions : handler'[t].vm = handler[t].vm
    BY <1>0, <1>8 DEF BackendConnected
  <2>3. AloneInv'
    BY <1>1, <2>2 DEF AloneInv
  <2>4. vms[handler[s].vm] = "leased" /\ restarted[handler[s].vm] = 0
    <3>1. vms[handler[s].vm] = "leased"
      BY <1>1, <2>1 DEF AloneInv
    <3> QED BY <1>0, <1>1, <2>1, <3>1, NoTask
  <2>5. Obeyed' => CleanInv'
    BY <1>1, <2>2, <2>4 DEF CleanInv, Obeyed
  <2> QED BY <2>3, <2>5
<1>9. ASSUME NEW s \in Sessions, Released(s) PROVE AloneInv' /\ (Obeyed' => CleanInv')
  <2>0. PICK v : v = handler[s].vm
    OBVIOUS
  <2>1. v \in DOMAIN vms /\ v # NoVm
    BY <1>0, <1>9, <2>0, NoVmIsNone DEF Released, HandlerInv
  <2>2. /\ StartRebuild({v} \cap DOMAIN vms) /\ UNCHANGED <<restarted, connected, dirty, served>>
        /\ handler' = [handler EXCEPT ![s] = [pc |-> "closed", vm |-> NoVm]]
    BY <1>9, <2>0 DEF Released, ReleaseTarget
  <2>3. /\ DOMAIN vms' = DOMAIN vms /\ vms'[v] = "rebuilding" /\ reverting'[v] = reverting[v] + 1
        /\ \A i \in DOMAIN vms : i # v => vms'[i] = vms[i]
        /\ \A i \in VmIds : i # v => reverting'[i] = reverting[i]
    BY <1>0, <2>1, <2>2, RebuildTypes
  <2>4. /\ handler'[s].vm = NoVm
        /\ \A t \in Sessions : t # s => handler'[t].vm = handler[t].vm
    BY <1>0, <2>2
  <2>5. /\ vms[v] = "leased" /\ Tasks(v) = 0 /\ reverting[v] = 0 /\ restarted[v] = 0
        /\ \A t \in Sessions : t # s => handler[t].vm # v
    <3>1. vms[v] = "leased" /\ \A t \in Sessions : t # s => handler[t].vm # v
      BY <1>1, <2>0, <2>1 DEF AloneInv
    <3> QED BY <1>0, <1>1, <2>1, <3>1, NoTask
  <2>6. /\ \A t \in Sessions : handler'[t].vm # NoVm => vms'[handler'[t].vm] = "leased"
        /\ \A t, u \in Sessions : handler'[t].vm = handler'[u].vm /\ handler'[t].vm # NoVm => t = u
    <3>1. \A t \in Sessions : handler'[t].vm # NoVm => t # s /\ handler'[t].vm = handler[t].vm
      BY <2>4
    <3>2. ASSUME NEW t \in Sessions, handler'[t].vm # NoVm
          PROVE  vms'[handler'[t].vm] = "leased"
      <4>1. handler[t].vm # v /\ handler[t].vm \in DOMAIN vms /\ vms[handler[t].vm] = "leased"
        BY <1>0, <1>1, <2>5, <3>1, <3>2 DEF AloneInv, HandlerInv
      <4> QED BY <2>3, <3>1, <3>2, <4>1
    <3>3. \A t, u \in Sessions : handler'[t].vm = handler'[u].vm /\ handler'[t].vm # NoVm => t = u
      BY <1>1, <3>1 DEF AloneInv
    <3> QED BY <3>2, <3>3
  <2>7. \A i \in DOMAIN vms' : vms'[i] = "leased" => \E t \in Sessions : handler'[t].vm = i
    <3> SUFFICES ASSUME NEW i \in DOMAIN vms', vms'[i] = "leased"
                 PROVE  \E t \in Sessions : handler'[t].vm = i
      OBVIOUS
    <3>1. i # v /\ vms[i] = "leased" /\ i \in DOMAIN vms
      BY <2>3
    <3>2. PICK t \in Sessions : handler[t].vm = i
      BY <1>1, <3>1 DEF AloneInv
    <3> QED BY <2>0, <2>4, <3>1, <3>2
  <2>8. /\ \A i \in DOMAIN vms' : Tasks(i)' <= IF vms'[i] = "rebuilding" THEN 1 ELSE 0
        /\ \A i \in VmIds \ DOMAIN vms' : Tasks(i)' = 0
    <3>1. v \in VmIds /\ restarted' = restarted
      BY <1>0, <2>1, <2>2
    <3>2. Tasks(v)' = 1
      BY <2>3, <2>5, <3>1
    <3>3. \A i \in VmIds : i # v => Tasks(i)' = Tasks(i)
      BY <2>3, <3>1
    <3> HIDE DEF Tasks
    <3>4. /\ \A i \in DOMAIN vms : Tasks(i) <= IF vms[i] = "rebuilding" THEN 1 ELSE 0
          /\ \A i \in VmIds \ DOMAIN vms : Tasks(i) = 0
      BY <1>1 DEF AloneInv
    <3> QED BY <1>0, <2>1, <2>3, <3>2, <3>3, <3>4
  <2>9. AloneInv'
    BY <2>6, <2>7, <2>8 DEF AloneInv
  <2>10. Obeyed' => CleanInv'
    <3> SUFFICES ASSUME Obeyed', NEW i \in DOMAIN vms',
                        (vms'[i] = "ready" /\ i \in served') \/ restarted'[i] > 0
                 PROVE  i \notin dirty'
      BY DEF CleanInv
    <3>1. i # v
      BY <1>0, <2>1, <2>2, <2>3, <2>5
    <3> QED BY <1>1, <2>2, <2>3, <3>1 DEF Obeyed, CleanInv
  <2> QED BY <2>9, <2>10
<1>10. ASSUME NEW S \in SUBSET Ready, StartRebuild(S),
              UNCHANGED <<handler, restarted, connected, dirty, served>>
       PROVE  AloneInv' /\ (Obeyed' => CleanInv')
  <2>1. /\ DOMAIN vms' = DOMAIN vms
        /\ \A i \in DOMAIN vms : vms'[i] = IF i \in S THEN "rebuilding" ELSE vms[i]
        /\ \A i \in VmIds : reverting'[i] = IF i \in S THEN reverting[i] + 1 ELSE reverting[i]
    BY <1>10, RebuildTypes
  <2>2. \A i \in S : i \in DOMAIN vms /\ vms[i] = "ready" /\ Tasks(i) = 0
    <3> SUFFICES ASSUME NEW i \in S
                 PROVE  i \in DOMAIN vms /\ vms[i] = "ready" /\ Tasks(i) = 0
      OBVIOUS
    <3>1. i \in DOMAIN vms /\ vms[i] = "ready" /\ i \in VmIds
      BY <1>0, <1>10
    <3> QED BY <1>1, <3>1, NoTask
  <2>3. /\ \A s \in Sessions : handler'[s].vm # NoVm => vms'[handler'[s].vm] = "leased"
        /\ \A v \in DOMAIN vms' : vms'[v] = "leased" => \E s \in Sessions : handler'[s].vm = v
    BY <1>0, <1>1, <1>10, <2>1, <2>2 DEF AloneInv, HandlerInv
  <2>4. /\ \A i \in DOMAIN vms' : Tasks(i)' <= IF vms'[i] = "rebuilding" THEN 1 ELSE 0
        /\ \A i \in VmIds \ DOMAIN vms' : Tasks(i)' = 0
    BY <1>0, <1>1, <1>10, <2>1, <2>2 DEF AloneInv
  <2>5. AloneInv'
    BY <1>1, <1>10, <2>3, <2>4 DEF AloneInv
  <2>6. Obeyed' => CleanInv'
    BY <1>1, <1>10, <2>1, <2>2 DEF Obeyed, CleanInv
  <2> QED BY <2>5, <2>6
<1>11. ASSUME NEW S \in SUBSET Ready, Recycle(S), UNCHANGED handler
       PROVE  AloneInv' /\ (Obeyed' => CleanInv')
  BY <1>10, <1>11 DEF Recycle
<1>12. CASE HealthVerdict /\ UNCHANGED handler
  <2>1. {probing} \in SUBSET Ready
    BY <1>12 DEF HealthVerdict, ProbeInv
  <2> QED BY <1>3, <1>10, <1>12, <2>1 DEF HealthVerdict
<1>13. ASSUME NEW v \in VmIds, RebuildDomain(v), UNCHANGED handler
       PROVE  AloneInv' /\ (Obeyed' => CleanInv')
  <2>1. /\ UNCHANGED <<vms, connected, served>> /\ reverting[v] > 0
        /\ reverting' = [reverting EXCEPT ![v] = @ - 1]
        /\ restarted' = [restarted EXCEPT ![v] = @ + 1]
        /\ dirty' = dirty \/ dirty' = dirty \ {v}
        /\ Obeyed' => dirty' = dirty \ {v}
    BY <1>13 DEF RebuildDomain, Obeyed
  <2>2. \A i \in VmIds : Tasks(i)' = Tasks(i)
    BY <1>0, <2>1
  <2>3. AloneInv'
    BY <1>0, <1>1, <1>13, <2>1, <2>2 DEF AloneInv
  <2>4. Obeyed' => CleanInv'
    BY <1>0, <1>1, <2>1 DEF Obeyed, CleanInv
  <2> QED BY <2>3, <2>4
<1>14. ASSUME NEW v \in VmIds, RebuildDone(v), UNCHANGED handler
       PROVE  AloneInv' /\ (Obeyed' => CleanInv')
  <2>1. /\ restarted[v] > 0 /\ UNCHANGED <<reverting, connected, dirty, served>>
        /\ restarted' = [restarted EXCEPT ![v] = @ - 1] /\ vms' = [vms EXCEPT ![v] = "ready"]
    BY <1>14 DEF RebuildDone
  <2>2. v \in DOMAIN vms /\ vms[v] = "rebuilding" /\ Tasks(v) = 1
    BY <1>0, <1>1, <2>1 DEF AloneInv
  <2>3. /\ DOMAIN vms' = DOMAIN vms /\ vms'[v] = "ready" /\ Tasks(v)' = 0
        /\ \A i \in DOMAIN vms : i # v => vms'[i] = vms[i]
        /\ \A i \in VmIds : i # v => restarted'[i] = restarted[i] /\ Tasks(i)' = Tasks(i)
    BY <1>0, <2>1, <2>2
  <2>4. /\ \A s \in Sessions : handler'[s].vm # NoVm => vms'[handler'[s].vm] = "leased"
        /\ \A i \in DOMAIN vms' : vms'[i] = "leased" => \E s \in Sessions : handler'[s].vm = i
    BY <1>0, <1>1, <1>14, <2>2, <2>3 DEF AloneInv, HandlerInv
  <2>5. /\ \A i \in DOMAIN vms' : Tasks(i)' <= IF vms'[i] = "rebuilding" THEN 1 ELSE 0
        /\ \A i \in VmIds \ DOMAIN vms' : Tasks(i)' = 0
    BY <1>0, <1>1, <2>2, <2>3 DEF AloneInv
  <2>6. AloneInv'
    BY <1>1, <1>14, <2>4, <2>5 DEF AloneInv
  <2>7. Obeyed' => CleanInv'
    BY <1>0, <1>1, <2>1, <2>2, <2>3 DEF Obeyed, CleanInv
  <2> QED BY <2>6, <2>7
<1>15. CASE StopTasks /\ UNCHANGED handler
  <2>1. /\ UNCHANGED <<vms, connected, dirty, served>>
        /\ \A i \in VmIds : reverting'[i] = 0 /\ restarted'[i] = 0
    BY <1>15 DEF StopTasks
  <2>2. AloneInv'
    BY <1>0, <1>1, <1>15, <2>1 DEF AloneInv
  <2>3. Obeyed' => CleanInv'
    BY <1>0, <1>1, <2>1 DEF Obeyed, CleanInv
  <2> QED BY <2>2, <2>3
<1>16. CASE StopConnection /\ UNCHANGED handler
  <2>1. UNCHANGED <<vms, reverting, restarted, dirty, served>> /\ ~connected'
    BY <1>16 DEF StopConnection
  <2> QED BY <1>1, <1>16, <2>1 DEF AloneInv, Obeyed
<1>17. CASE /\ UNCHANGED handler
            /\ HealthStart \/ HealthDone \/ \E v \in VmIds : HealthProbe(v) \/ ReportFailure(v)
  BY <1>3, <1>17 DEF HealthStart, HealthDone, HealthProbe, ReportFailure
<1> QED BY <1>4, <1>5, <1>6, <1>7, <1>8, <1>9, <1>11, <1>12, <1>13, <1>14, <1>15, <1>16, <1>17, StepCases

LEMMA SharingInvInit == Init => ProbeInv /\ SharingInv
<1> SUFFICES ASSUME Init PROVE ProbeInv /\ AloneInv /\ CleanInv
  BY DEF SharingInv
<1>1. PICK found \in SUBSET Domains : vms = [v \in found |-> "ready"]
  BY DEF Init, poolInit
<1>2. /\ \A v \in VmIds : Tasks(v) = 0 /\ restarted[v] = 0
      /\ \A v \in DOMAIN vms : vms[v] = "ready" /\ v \in VmIds
      /\ \A s \in Sessions : handler[s].vm = NoVm
      /\ served = {} /\ probing = NoVm
  BY <1>1 DEF Init, poolInit, VmIds
<1> QED BY <1>2 DEF ProbeInv, AloneInv, CleanInv

LEMMA SharingShown ==
    ASSUME TypeInv, SharingInv
    PROVE  VmBelongsToOneClient /\ RevertedBeforeReuse
<1>1. ASSUME AloneInv, NEW v \in DOMAIN vms
      PROVE  /\ Cardinality(Holders(v)) = IF vms[v] = "leased" THEN 1 ELSE 0
             /\ Tasks(v) <= IF vms[v] = "rebuilding" THEN 1 ELSE 0
  <2>1. v # NoVm
    BY NoVmIsNone DEF TypeInv, ProxyTypeOK, PoolTypeOK
  <2>2. CASE vms[v] = "leased"
    <3>1. PICK s \in Sessions : handler[s].vm = v
      BY <1>1, <2>2 DEF AloneInv
    <3>2. Holders(v) = {s}
      BY <1>1, <2>1, <3>1 DEF Holders, AloneInv
    <3> QED BY <1>1, <2>2, <3>2, FS_Singleton DEF AloneInv
  <2>3. CASE vms[v] # "leased"
    <3>1. Holders(v) = {}
      BY <1>1, <2>1, <2>3 DEF Holders, AloneInv
    <3> QED BY <1>1, <2>3, <3>1, FS_EmptySet DEF AloneInv
  <2> QED BY <2>2, <2>3
<1>2. VmBelongsToOneClient
  BY <1>1 DEF SharingInv, VmBelongsToOneClient
<1>3. RevertedBeforeReuse
  BY DEF SharingInv, RevertedBeforeReuse, CleanInv, Obeyed
<1> QED BY <1>2, <1>3

LEMMA SharingAlways == Spec => [](TypeInv /\ ProbeInv /\ SharingInv)
<1>1. Init => TypeInv /\ ProbeInv /\ SharingInv
  BY TypeInvInit, SharingInvInit
<1>2. TypeInv /\ ProbeInv /\ SharingInv /\ [Next]_vars => (TypeInv /\ ProbeInv /\ SharingInv)'
  BY TypeInvStep, ProbeStep, SharingStep
<1> QED BY <1>1, <1>2, PTL DEF Spec

\* The health check never takes a VM away from a client, though it awaits the
\* hypervisor between reading the state of the VM and changing it.
THEOREM HealthCheckSparesClients == Spec => []ProbedVmStaysReady
<1>1. ProbeInv => ProbedVmStaysReady
  BY DEF ProbeInv, ProbedVmStaysReady
<1> QED BY <1>1, SharingAlways, PTL

\* While names are fresh and nobody reports failures, a leased VM has one connection
\* and no rebuild task, and any other VM no connection and one task at most.
THEOREM OneClientPerVm == Spec => []VmBelongsToOneClient
<1>1. TypeInv /\ SharingInv => VmBelongsToOneClient
  BY SharingShown
<1> QED BY <1>1, SharingAlways, PTL

\* With snapshots and a hypervisor that obeys, no client finds what another client of
\* this run left: a VM that was leased is ready again only with a reverted disk.
THEOREM CleanVmsOnly == Spec => []RevertedBeforeReuse
<1>1. TypeInv /\ SharingInv => RevertedBeforeReuse
  BY SharingShown
<1> QED BY <1>1, SharingAlways, PTL
=============================================================================
