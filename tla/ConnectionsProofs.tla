-------------------------- MODULE ConnectionsProofs --------------------------
(***************************************************************************)
(* Proofs about Connections: the connections drive the session manager     *)
(* only through its own steps, so what SessionManagerProofs establishes    *)
(* holds for the server, and the slots of the session table are held by    *)
(* exactly the connections that registered and have not ended.             *)
(***************************************************************************)
EXTENDS Connections, SessionManagerProofs

-----------------------------------------------------------------------------
(* Types                                                                   *)

\* get_filesystem returns a filesystem, cached or new.
LEMMA FilesystemForType ==
    ASSUME ConnTypeOK, NEW c \in Conns, NEW ip \in IPs \cup {None}, NEW user \in Users \cup {None}
    PROVE  FilesystemFor(c, ip, user) \in FsRecord
<1>1. Fs(c, ip, user) \in FsRecord
  BY DEF Fs, FsRecord
<1>2. CASE Hit(ip, user)
  <2>1. CacheHits(ip, user) # {}
    BY <1>2 DEF Hit
  <2>2. (CHOOSE i \in CacheHits(ip, user) : TRUE) \in DOMAIN vfs_cache
    BY <2>1 DEF CacheHits
  <2>3. \A i \in DOMAIN vfs_cache : vfs_cache[i] \in FsRecord
    BY DEF ConnTypeOK
  <2> QED BY <1>2, <2>2, <2>3 DEF FilesystemFor
<1> QED
  BY <1>1, <1>2 DEF FilesystemFor

\* The cache stays a sequence of filesystems.
LEMMA CacheAfterType ==
    ASSUME ConnTypeOK, NEW c \in Conns, NEW ip \in IPs \cup {None}, NEW user \in Users \cup {None}
    PROVE  CacheAfter(c, ip, user) \in Seq(FsRecord)
<1>1. Fs(c, ip, user) \in FsRecord /\ FilesystemFor(c, ip, user) \in FsRecord
  BY FilesystemForType DEF Fs, FsRecord
<1>2. vfs_cache \in Seq(FsRecord) /\ Len(vfs_cache) \in Nat
  BY DEF ConnTypeOK
<1>3. CASE ~vfs_persistence
  BY <1>2, <1>3 DEF CacheAfter
<1>4. CASE vfs_persistence /\ Hit(ip, user)
  <2> DEFINE k == CHOOSE i \in CacheHits(ip, user) : TRUE
  <2>1. k \in 1..Len(vfs_cache)
    BY <1>2, <1>4 DEF Hit, CacheHits
  <2> HIDE DEF k
  <2>2. SubSeq(vfs_cache, 1, k - 1) \in Seq(FsRecord)
    BY <1>2, <2>1, SubSeqProperties
  <2>3. SubSeq(vfs_cache, k + 1, Len(vfs_cache)) \in Seq(FsRecord)
    BY <1>2, <2>1, SubSeqProperties
  <2>4. Without(vfs_cache, k) \in Seq(FsRecord)
    BY <2>2, <2>3 DEF Without
  <2>5. Append(Without(vfs_cache, k), FilesystemFor(c, ip, user)) \in Seq(FsRecord)
    BY <1>1, <2>4
  <2> QED BY <1>4, <2>5 DEF CacheAfter, k
<1>5. CASE vfs_persistence /\ ~Hit(ip, user)
  <2>1. Len(vfs_cache) >= vfs_cache_limit => Tail(vfs_cache) \in Seq(FsRecord)
    BY <1>2, ConnectionsAssumption
  <2>2. CASE Len(vfs_cache) >= vfs_cache_limit
    <3>1. Append(Tail(vfs_cache), Fs(c, ip, user)) \in Seq(FsRecord)
      BY <1>1, <2>1, <2>2
    <3> QED BY <1>5, <2>2, <3>1 DEF CacheAfter
  <2>3. CASE ~(Len(vfs_cache) >= vfs_cache_limit)
    <3>1. Append(vfs_cache, Fs(c, ip, user)) \in Seq(FsRecord)
      BY <1>1, <1>2
    <3> QED BY <1>5, <2>3, <3>1 DEF CacheAfter
  <2> QED BY <2>2, <2>3
<1> QED
  BY <1>3, <1>4, <1>5

\* The address of a handler is known from the moment it starts.
AddressKnown == \A c \in Conns : conn[c].state # "none" => conn[c].ip \in IPs

ConnInv == ConnTypeOK /\ AddressKnown

Handler == [state : States, proto : {"ssh", "telnet", None}, ip : IPs \cup {None}, fs : FsRecord]

\* A step that replaces one handler by a well-typed one that knows its address.
LEMMA HandlerReplaced ==
    ASSUME ConnInv, NEW c \in Conns, NEW h \in Handler, h.ip \in IPs,
           conn' = [conn EXCEPT ![c] = h]
    PROVE  conn' \in [Conns -> Handler] /\ AddressKnown'
<1>1. conn \in [Conns -> Handler]
  BY DEF ConnInv, ConnTypeOK, Handler
<1>2. conn' \in [Conns -> Handler]
  BY <1>1
<1>3. \A d \in Conns : conn'[d] = IF d = c THEN h ELSE conn[d]
  BY <1>1
<1> QED
  BY <1>2, <1>3 DEF ConnInv, AddressKnown

\* Every step of the connections preserves ConnInv.
LEMMA ConnStep == ConnInv /\ [Next]_vars => ConnInv'
<1> SUFFICES ASSUME ConnInv, [Next]_vars PROVE ConnInv'
  OBVIOUS
<1>0. /\ ConnTypeOK /\ conn \in [Conns -> Handler]
      /\ session_logs \subseteq Conns /\ stats_active \in Nat
  BY DEF ConnInv, ConnTypeOK, Handler
<1>a. ASSUME NEW c \in Conns, conn[c].state # "none", NEW st \in States,
             conn' = [conn EXCEPT ![c].state = st]
      PROVE  conn' \in [Conns -> Handler] /\ AddressKnown'
  <2>1. conn[c] \in Handler /\ conn[c].ip \in IPs
    BY <1>0, <1>a DEF ConnInv, AddressKnown
  <2>2. [conn[c] EXCEPT !.state = st] \in Handler /\ [conn[c] EXCEPT !.state = st].ip \in IPs
    BY <2>1 DEF Handler
  <2>3. conn' = [conn EXCEPT ![c] = [conn[c] EXCEPT !.state = st]]
    BY <1>a
  <2> QED BY <2>2, <2>3, HandlerReplaced
<1>b. ASSUME NEW c \in Conns, NEW ip \in IPs, NEW st \in States, NEW pr \in {"ssh", "telnet"},
             conn' = [conn EXCEPT ![c] = [@ EXCEPT !.state = st, !.proto = pr, !.ip = ip]]
      PROVE  conn' \in [Conns -> Handler] /\ AddressKnown'
  <2> DEFINE h == [conn[c] EXCEPT !.state = st, !.proto = pr, !.ip = ip]
  <2>1. conn[c] \in Handler
    BY <1>0
  <2>2. h \in Handler /\ h.ip \in IPs
    BY <2>1 DEF Handler
  <2>3. conn' = [conn EXCEPT ![c] = h]
    BY <1>b
  <2> HIDE DEF h
  <2> QED BY <2>2, <2>3, HandlerReplaced
<1>c. ASSUME NEW c \in Conns, conn[c].state # "none", NEW st \in States, NEW user \in Users \cup {None},
             conn' = [conn EXCEPT ![c].state = st, ![c].fs = FilesystemFor(c, conn[c].ip, user)]
      PROVE  conn' \in [Conns -> Handler] /\ AddressKnown'
  <2> DEFINE f == FilesystemFor(c, conn[c].ip, user)
             h == [conn[c] EXCEPT !.state = st, !.fs = f]
  <2>1. conn[c] \in Handler /\ conn[c].ip \in IPs
    BY <1>0, <1>c DEF ConnInv, AddressKnown
  <2>2. f \in FsRecord
    BY <1>0, <2>1, FilesystemForType
  <2> HIDE DEF f
  <2>3. h \in Handler /\ h.ip \in IPs
    BY <2>1, <2>2 DEF Handler
  <2>4. conn' = [conn EXCEPT ![c] = h]
    BY <1>0, <1>c DEF f
  <2> HIDE DEF h
  <2> QED BY <2>3, <2>4, HandlerReplaced
<1>d. ASSUME conn' \in [Conns -> Handler], AddressKnown',
             vfs_cache' \in Seq(FsRecord), session_logs' \subseteq Conns, stats_active' \in Nat
      PROVE  ConnInv'
  BY <1>d DEF ConnInv, ConnTypeOK, Handler
<1>e. vfs_cache \in Seq(FsRecord)
  BY <1>0 DEF ConnTypeOK
<1>1. ASSUME NEW c \in Conns, NEW ip \in IPs, SshRejected(c, ip) PROVE ConnInv'
  BY <1>0, <1>b, <1>d, <1>e, <1>1 DEF SshRejected, States
<1>2. ASSUME NEW c \in Conns, NEW ip \in IPs, SshConnectionMade(c, ip) PROVE ConnInv'
  <2> DEFINE h == [state |-> "preauth", proto |-> "ssh", ip |-> ip, fs |-> FilesystemFor(c, ip, root)]
  <2>1. FilesystemFor(c, ip, root) \in FsRecord /\ CacheAfter(c, ip, root) \in Seq(FsRecord)
    BY <1>0, FilesystemForType, CacheAfterType, ConnectionsAssumption
  <2>2. h \in Handler /\ h.ip \in IPs
    BY <2>1 DEF Handler, States
  <2>3. conn' = [conn EXCEPT ![c] = h]
    BY <1>2 DEF SshConnectionMade
  <2> HIDE DEF h
  <2>4. conn' \in [Conns -> Handler] /\ AddressKnown'
    BY <2>2, <2>3, HandlerReplaced
  <2>5. vfs_cache' \in Seq(FsRecord) /\ session_logs' \subseteq Conns /\ stats_active' \in Nat
    BY <1>0, <1>2, <2>1 DEF SshConnectionMade
  <2> QED BY <1>d, <2>4, <2>5
<1>3. ASSUME NEW c \in Conns, NEW ip \in IPs, TelnetConnected(c, ip) PROVE ConnInv'
  BY <1>0, <1>b, <1>d, <1>e, <1>3 DEF TelnetConnected, States
<1>4. ASSUME NEW c \in Conns, NEW user \in Users, SshLogin(c, user) \/ TelnetLogin(c, user)
      PROVE  ConnInv'
  <2>1. conn' \in [Conns -> Handler] /\ AddressKnown'
    BY <1>c, <1>4 DEF SshLogin, TelnetLogin, States
  <2>2. CacheAfter(c, conn[c].ip, user) \in Seq(FsRecord)
    BY <1>0, CacheAfterType DEF Handler
  <2> QED BY <1>0, <1>d, <1>4, <2>1, <2>2 DEF SshLogin, TelnetLogin
<1>5. ASSUME NEW c \in Conns, SshConnectionLost(c) \/ TelnetRejected(c) \/ TelnetPrepareCrashes(c)
      PROVE  ConnInv'
  BY <1>0, <1>a, <1>d, <1>e, <1>5 DEF SshConnectionLost, TelnetRejected, TelnetPrepareCrashes, States
<1>6. ASSUME NEW c \in Conns, TelnetPrepared(c) PROVE ConnInv'
  <2>1. conn' \in [Conns -> Handler] /\ AddressKnown'
    BY <1>c, <1>6 DEF TelnetPrepared, States
  <2>2. CacheAfter(c, conn[c].ip, None) \in Seq(FsRecord)
    BY <1>0, CacheAfterType DEF Handler
  <2> QED BY <1>0, <1>d, <1>6, <2>1, <2>2 DEF TelnetPrepared
<1>7. ASSUME NEW c \in Conns, TelnetLoginFailed(c) \/ TelnetExit(c) \/ TelnetTimeout(c)
      PROVE  ConnInv'
  BY <1>0, <1>a, <1>d, <1>e, <1>7 DEF TelnetLoginFailed, TelnetExit, TelnetTimeout, States
<1>8. ASSUME NEW c \in Conns, TelnetCleanup(c) PROVE ConnInv'
  <2>1. conn' \in [Conns -> Handler] /\ AddressKnown'
    BY <1>a, <1>8 DEF TelnetCleanup, States
  <2>2. stats_active' \in Nat /\ session_logs' \subseteq Conns
    BY <1>0, <1>8 DEF TelnetCleanup, Decrement
  <2> QED BY <1>d, <1>e, <1>8, <2>1, <2>2 DEF TelnetCleanup
<1>11. ASSUME NEW c \in Conns, TelnetOutputBlocks(c) \/ TelnetDrained(c) PROVE ConnInv'
  BY <1>0, <1>a, <1>d, <1>e, <1>11 DEF TelnetOutputBlocks, TelnetDrained, States
<1>9. CASE UNCHANGED connVars
  BY <1>9 DEF connVars, ConnInv, ConnTypeOK, AddressKnown
<1>10. ASSUME NEW c \in Conns, ShellCommand(c) \/ ShellFileOp(c) PROVE ConnInv'
  BY <1>9, <1>10 DEF ShellCommand, ShellFileOp
<1> QED
  BY <1>1, <1>2, <1>3, <1>4, <1>5, <1>6, <1>7, <1>8, <1>9, <1>10, <1>11
  DEF Next, ClockTick, vars

\* ConnInv holds initially.
LEMMA ConnInit == Init => ConnInv
<1> SUFFICES ASSUME Init PROVE ConnInv
  OBVIOUS
<1>1. Idle \in Handler
  BY DEF Idle, NoFs, Fs, FsRecord, Handler, States
<1>2. Idle.state = "none"
  BY DEF Idle
<1> QED
  BY <1>1, <1>2 DEF Init, ConnInv, ConnTypeOK, AddressKnown, Handler

\* The handlers' state, the filesystem cache and the registrations keep their types.
THEOREM ConnTypeCorrect == Spec => []ConnTypeOK
<1>1. ConnInv => ConnTypeOK
  BY DEF ConnInv
<1> QED
  BY <1>1, ConnInit, ConnStep, PTL DEF Spec

-----------------------------------------------------------------------------
(* The connections implement the session manager                           *)

\* A step of the file operation counter is a step of the manager even though the
\* filesystem names its creator, whose session may be long gone.
LEMMA FileOpIsManagerStep ==
    ASSUME TypeOK, NEW id, CountFileOp(id)
    PROVE  [smNext]_smVars
<1>1. CASE id \in DOMAIN sessions
  <2>1. id \in SessionIds
    BY <1>1 DEF TypeOK
  <2> QED BY <2>1 DEF smNext
<1>2. CASE id \notin DOMAIN sessions
  BY <1>2 DEF CountFileOp, RecordFileOp, smVars
<1> QED
  BY <1>1, <1>2

\* Every step of the connections is a step of the session manager or leaves it alone.
LEMMA ManagerStep == TypeOK /\ ConnInv /\ [Next]_vars => [smNext]_smVars
<1> SUFFICES ASSUME TypeOK, ConnInv, [Next]_vars PROVE [smNext]_smVars
  OBVIOUS
<1> USE DEF Conns
<1>1. ASSUME NEW c \in Conns, NEW ip \in IPs,
             SshRejected(c, ip) \/ SshConnectionMade(c, ip) \/ TelnetConnected(c, ip)
      PROVE  [smNext]_smVars
  BY <1>1 DEF SshRejected, SshConnectionMade, TelnetConnected, smNext
<1>2. ASSUME NEW c \in Conns, NEW user \in Users, SshLogin(c, user) \/ TelnetLogin(c, user)
      PROVE  [smNext]_smVars
  BY <1>2 DEF SshLogin, TelnetLogin
<1>3. ASSUME NEW c \in Conns,
             SshConnectionLost(c) \/ TelnetCleanup(c) \/ ShellCommand(c) \/ TelnetOutputBlocks(c)
      PROVE  [smNext]_smVars
  BY <1>3 DEF SshConnectionLost, TelnetCleanup, ShellCommand, TelnetOutputBlocks, smNext
<1>4. ASSUME NEW c \in Conns,
             TelnetLoginFailed(c) \/ TelnetExit(c) \/ TelnetTimeout(c) \/ TelnetDrained(c)
      PROVE  [smNext]_smVars
  BY <1>4 DEF TelnetLoginFailed, TelnetExit, TelnetTimeout, TelnetDrained
<1>5. ASSUME NEW c \in Conns, ShellFileOp(c) PROVE [smNext]_smVars
  BY <1>5, FileOpIsManagerStep DEF ShellFileOp
<1>6. ASSUME NEW c \in Conns,
             TelnetRejected(c) \/ TelnetPrepared(c) \/ TelnetPrepareCrashes(c)
      PROVE  [smNext]_smVars
  <2>1. conn[c].ip \in IPs
    BY <1>6 DEF TelnetRejected, TelnetPrepared, TelnetPrepareCrashes, ConnInv, AddressKnown
  <2> QED BY <1>6, <2>1 DEF TelnetRejected, TelnetPrepared, TelnetPrepareCrashes, smNext
<1>7. CASE ClockTick
  BY <1>7 DEF ClockTick, smNext
<1>8. CASE UNCHANGED vars
  BY <1>8 DEF vars
<1> QED
  BY <1>1, <1>2, <1>3, <1>4, <1>5, <1>6, <1>7, <1>8 DEF Next

\* The server drives the session manager only through the manager's own steps.
THEOREM ManagerImplemented == Spec => ImplementsSessionManager
<1>1. Init => smInit
  BY DEF Init
<1>2. smInit => TypeOK
  BY DEF smInit, TypeOK
<1> QED
  BY <1>1, <1>2, ConnInit, ConnStep, TypeStep, ManagerStep, PTL
     DEF Spec, ImplementsSessionManager, smSpec

\* The limits bound the sessions of the running server, not only those of the
\* manager looked at alone.
COROLLARY ServerLimits == Spec => []LimitsHold
BY ManagerImplemented, LimitsCorrect DEF ImplementsSessionManager

-----------------------------------------------------------------------------
(* Slots                                                                   *)

\* The steps that neither register nor unregister keep the handler on the same side.
LEMMA SlotKept ==
    ASSUME ConnInv, SlotsAccountedFor,
           DOMAIN sessions' = DOMAIN sessions,
           \A i \in DOMAIN sessions : sessions'[i].ip = sessions[i].ip,
           \A d \in Conns : (HoldsSlot(d)' <=> HoldsSlot(d)),
           \A d \in Conns : HoldsSlot(d) => conn'[d].ip = conn[d].ip
    PROVE  SlotsAccountedFor'
<1>1. DOMAIN sessions' = {d \in Conns : HoldsSlot(d)'}
  BY DEF SlotsAccountedFor
<1>2. \A d \in DOMAIN sessions' : sessions'[d].ip = conn'[d].ip
  BY DEF SlotsAccountedFor
<1> QED
  BY <1>1, <1>2 DEF SlotsAccountedFor

\* A step that registers connection c for its address.
LEMMA SlotTaken ==
    ASSUME ConnInv, SlotsAccountedFor, NEW c \in Conns, NEW ip \in IPs, Admit(ip, c),
           conn'[c].ip = ip, HoldsSlot(c)',
           \A d \in Conns : d # c => conn'[d] = conn[d]
    PROVE  SlotsAccountedFor'
<1>1. sessions' = [i \in DOMAIN sessions \cup {c} |->
                       IF i = c THEN NewSession(ip) ELSE sessions[i]]
  BY DEF Admit, RegisterSession
<1>2. \A d \in Conns : d # c => (HoldsSlot(d)' <=> HoldsSlot(d))
  BY DEF HoldsSlot
<1>3. DOMAIN sessions' = DOMAIN sessions \cup {c}
  BY <1>1
<1>4. DOMAIN sessions' = {d \in Conns : HoldsSlot(d)'}
  BY <1>2, <1>3 DEF SlotsAccountedFor
<1>5. sessions'[c].ip = ip
  BY <1>1 DEF NewSession
<1>6. \A d \in DOMAIN sessions' : sessions'[d].ip = conn'[d].ip
  BY <1>1, <1>3, <1>5 DEF SlotsAccountedFor
<1> QED
  BY <1>4, <1>6 DEF SlotsAccountedFor

\* A step that ends connection c, which may or may not have held a slot.
LEMMA SlotFreed ==
    ASSUME ConnInv, SlotsAccountedFor, NEW c \in Conns, End(c),
           conn' = [conn EXCEPT ![c].state = "closed"]
    PROVE  SlotsAccountedFor'
<1>0. conn \in [Conns -> Handler]
  BY DEF ConnInv, ConnTypeOK, Handler
<1>1. conn'[c].state = "closed" /\ \A d \in Conns : d # c => conn'[d] = conn[d]
  BY <1>0 DEF Handler
<1>2. ~HoldsSlot(c)' /\ \A d \in Conns : d # c => (HoldsSlot(d)' <=> HoldsSlot(d))
  BY <1>1 DEF HoldsSlot, Live
<1>3. /\ DOMAIN sessions' = DOMAIN sessions \ {c}
      /\ \A i \in DOMAIN sessions' : sessions'[i] = sessions[i]
  BY DEF End, UnregisterSession
<1>4. DOMAIN sessions' = {d \in Conns : HoldsSlot(d)'}
  BY <1>2, <1>3 DEF SlotsAccountedFor
<1>5. \A d \in DOMAIN sessions' : sessions'[d].ip = conn'[d].ip
  BY <1>1, <1>3 DEF SlotsAccountedFor
<1> QED
  BY <1>4, <1>5 DEF SlotsAccountedFor

\* Every step of the connections keeps the slots accounted for.
LEMMA SlotsStep == TypeOK /\ ConnInv /\ SlotsAccountedFor /\ [Next]_vars => SlotsAccountedFor'
<1> SUFFICES ASSUME TypeOK, ConnInv, SlotsAccountedFor, [Next]_vars PROVE SlotsAccountedFor'
  OBVIOUS
<1>0. conn \in [Conns -> Handler]
  BY DEF ConnInv, ConnTypeOK, Handler
<1>a. ASSUME NEW c \in Conns, UNCHANGED sessions,
             \A d \in Conns : d # c => conn'[d] = conn[d],
             HoldsSlot(c)' <=> HoldsSlot(c),
             HoldsSlot(c) => conn'[c].ip = conn[c].ip
      PROVE  SlotsAccountedFor'
  <2>1. \A d \in Conns : (HoldsSlot(d)' <=> HoldsSlot(d)) /\ (HoldsSlot(d) => conn'[d].ip = conn[d].ip)
    BY <1>a DEF HoldsSlot
  <2> QED BY <1>a, <2>1, SlotKept
<1>b. ASSUME UNCHANGED conn, DOMAIN sessions' = DOMAIN sessions,
             \A i \in DOMAIN sessions : sessions'[i].ip = sessions[i].ip
      PROVE  SlotsAccountedFor'
  BY <1>b, SlotKept DEF HoldsSlot
<1>1. ASSUME NEW c \in Conns, NEW ip \in IPs, SshRejected(c, ip) \/ TelnetConnected(c, ip)
      PROVE  SlotsAccountedFor'
  <2>0. PICK st \in {"closing", "new"}, pr \in {"ssh", "telnet"} :
           conn' = [conn EXCEPT ![c] = [conn[c] EXCEPT !.state = st, !.proto = pr, !.ip = ip]]
    BY <1>1 DEF SshRejected, TelnetConnected
  <2>1. conn[c].state = "none" /\ conn'[c].state \in {"closing", "new"} /\ UNCHANGED sessions
    <3>1. conn[c].state = "none" /\ UNCHANGED sessions
      BY <1>1 DEF SshRejected, TelnetConnected, Reject, smVars
    <3>2. conn'[c] = [conn[c] EXCEPT !.state = st, !.proto = pr, !.ip = ip] /\ conn[c] \in Handler
      BY <1>0, <2>0
    <3>3. conn'[c].state = st
      BY <3>2 DEF Handler
    <3> QED BY <3>1, <3>3
  <2>2. \A d \in Conns : d # c => conn'[d] = conn[d]
    BY <1>0, <2>0
  <2> QED BY <1>a, <2>1, <2>2 DEF HoldsSlot, Live
<1>2. ASSUME NEW c \in Conns, NEW ip \in IPs, SshConnectionMade(c, ip) PROVE SlotsAccountedFor'
  <2>1. /\ conn'[c].state = "preauth" /\ conn'[c].ip = ip
        /\ \A d \in Conns : d # c => conn'[d] = conn[d]
    BY <1>0, <1>2 DEF SshConnectionMade
  <2> QED BY <1>2, <2>1, SlotTaken DEF SshConnectionMade, HoldsSlot, Live
<1>3. ASSUME NEW c \in Conns, NEW user \in Users, SshLogin(c, user) \/ TelnetLogin(c, user)
      PROVE  SlotsAccountedFor'
  <2>1. /\ conn[c].state \in {"preauth", "auth"} /\ conn'[c].state = "shell"
        /\ conn'[c].ip = conn[c].ip /\ UNCHANGED sessions
    BY <1>0, <1>3 DEF SshLogin, TelnetLogin, smVars, Handler
  <2>2. \A d \in Conns : d # c => conn'[d] = conn[d]
    BY <1>0, <1>3 DEF SshLogin, TelnetLogin
  <2> QED BY <1>a, <2>1, <2>2 DEF HoldsSlot, Live
<1>4. ASSUME NEW c \in Conns, SshConnectionLost(c) \/ TelnetCleanup(c) PROVE SlotsAccountedFor'
  BY <1>4, SlotFreed DEF SshConnectionLost, TelnetCleanup
<1>5. ASSUME NEW c \in Conns, TelnetRejected(c) PROVE SlotsAccountedFor'
  <2>1. /\ conn[c].state = "new" /\ conn'[c].state = "closed" /\ UNCHANGED sessions
        /\ \A d \in Conns : d # c => conn'[d] = conn[d]
    BY <1>0, <1>5 DEF TelnetRejected, Reject, Handler
  <2> QED BY <1>a, <2>1 DEF HoldsSlot, Live
<1>6. ASSUME NEW c \in Conns, TelnetPrepared(c) \/ TelnetPrepareCrashes(c) PROVE SlotsAccountedFor'
  <2>1. conn[c].ip \in IPs /\ Admit(conn[c].ip, c)
    BY <1>6 DEF TelnetPrepared, TelnetPrepareCrashes, ConnInv, AddressKnown
  <2>2. /\ conn'[c].state \in {"auth", "crashed"} /\ conn'[c].ip = conn[c].ip
        /\ \A d \in Conns : d # c => conn'[d] = conn[d]
    BY <1>0, <1>6 DEF TelnetPrepared, TelnetPrepareCrashes, Handler
  <2> QED BY <2>1, <2>2, SlotTaken DEF HoldsSlot, Live
<1>7. ASSUME NEW c \in Conns,
             TelnetLoginFailed(c) \/ TelnetExit(c) \/ TelnetTimeout(c) \/ TelnetDrained(c)
      PROVE  SlotsAccountedFor'
  <2>1. /\ conn[c].state \in {"auth", "shell", "blocked"} /\ conn'[c].state \in {"shell", "ending"}
        /\ conn'[c].ip = conn[c].ip /\ UNCHANGED sessions
        /\ \A d \in Conns : d # c => conn'[d] = conn[d]
    BY <1>0, <1>7 DEF TelnetLoginFailed, TelnetExit, TelnetTimeout, TelnetDrained, smVars, Handler
  <2> QED BY <1>a, <2>1 DEF HoldsSlot, Live
<1>8. ASSUME NEW c \in Conns, ShellCommand(c) PROVE SlotsAccountedFor'
  BY <1>b, <1>8, CountKeepsAddresses DEF ShellCommand, connVars, Conns
<1>9. ASSUME NEW c \in Conns, ShellFileOp(c) PROVE SlotsAccountedFor'
  <2> DEFINE id == conn[c].fs.owner
  <2>1. CountFileOp(id) /\ UNCHANGED conn
    BY <1>9 DEF ShellFileOp, connVars
  <2> HIDE DEF id
  <2>2. CASE id \in DOMAIN sessions
    BY <1>b, <2>1, <2>2, CountKeepsAddresses DEF TypeOK
  <2>3. CASE id \notin DOMAIN sessions
    BY <1>b, <2>1, <2>3 DEF CountFileOp, RecordFileOp
  <2> QED BY <2>2, <2>3
<1>11. ASSUME NEW c \in Conns, TelnetOutputBlocks(c) PROVE SlotsAccountedFor'
  <2>1. /\ conn[c].state = "shell" /\ conn'[c].state = "blocked" /\ conn'[c].ip = conn[c].ip
        /\ \A d \in Conns : d # c => conn'[d] = conn[d]
    BY <1>0, <1>11 DEF TelnetOutputBlocks, Handler
  <2>2. /\ DOMAIN sessions' = DOMAIN sessions
        /\ \A i \in DOMAIN sessions : sessions'[i].ip = sessions[i].ip
    BY <1>11, CountKeepsAddresses DEF TelnetOutputBlocks, Conns
  <2>3. \A d \in Conns : (HoldsSlot(d)' <=> HoldsSlot(d)) /\ conn'[d].ip = conn[d].ip
    BY <2>1 DEF HoldsSlot, Live
  <2> QED BY <2>2, <2>3, SlotKept
<1>10. CASE ClockTick \/ UNCHANGED vars
  BY <1>b, <1>10 DEF ClockTick, Tick, vars, smVars, connVars
<1> QED
  BY <1>1, <1>2, <1>3, <1>4, <1>5, <1>6, <1>7, <1>8, <1>9, <1>10, <1>11 DEF Next

\* For any number of connections, addresses and users, and whatever the order of
\* rejections, logins, timeouts and disconnections: a slot of the session table is
\* held by exactly the connections that registered and have not ended, and charged
\* to their address.
THEOREM SlotsCorrect == Spec => []SlotsAccountedFor
<1>1. Init => SlotsAccountedFor
  <2> SUFFICES ASSUME Init PROVE SlotsAccountedFor
    OBVIOUS
  <2>1. DOMAIN sessions = {} /\ \A c \in Conns : conn[c].state = "none"
    BY DEF Init, smInit, Idle
  <2> QED BY <2>1 DEF SlotsAccountedFor, HoldsSlot, Live
<1>2. Spec => []TypeOK
  BY ManagerImplemented, TypeCorrect DEF ImplementsSessionManager
<1> QED
  BY <1>1, <1>2, ConnInit, ConnStep, SlotsStep, PTL DEF Spec

-----------------------------------------------------------------------------
(* The filesystem cache                                                    *)

OneEach(s) == \A i, j \in DOMAIN s : s[i].ip = s[j].ip /\ s[i].user = s[j].user => i = j

\* What is left of a sequence without its k-th element.
LEMMA WithoutOne ==
    ASSUME NEW S, NEW s \in Seq(S), NEW k \in 1..Len(s)
    PROVE  /\ Without(s, k) \in Seq(S) /\ Len(Without(s, k)) = Len(s) - 1
           /\ \A i \in 1..(Len(s) - 1) : Without(s, k)[i] = s[IF i < k THEN i ELSE i + 1]
<1> DEFINE l == SubSeq(s, 1, k - 1)
           r == SubSeq(s, k + 1, Len(s))
<1>0. Len(s) \in Nat /\ k \in Nat
  OBVIOUS
<1>1. /\ l \in Seq(S) /\ Len(l) = k - 1
      /\ \A i \in 1..(k - 1) : l[i] = s[i]
  BY <1>0, SubSeqProperties
<1>2. /\ r \in Seq(S) /\ Len(r) = Len(s) - k
      /\ \A i \in 1..(Len(s) - k) : r[i] = s[k + i]
  BY <1>0, SubSeqProperties
<1> HIDE DEF l, r
<1>3. /\ l \o r \in Seq(S) /\ Len(l \o r) = Len(s) - 1
      /\ \A i \in 1..(Len(s) - 1) : (l \o r)[i] = IF i <= Len(l) THEN l[i] ELSE r[i - Len(l)]
  <2>1. l \o r \in Seq(S) /\ Len(l \o r) = Len(l) + Len(r)
    BY <1>1, <1>2, ConcatProperties
  <2>2. \A i \in 1..(Len(l) + Len(r)) : (l \o r)[i] = IF i <= Len(l) THEN l[i] ELSE r[i - Len(l)]
    BY <1>1, <1>2, ConcatProperties
  <2>3. Len(l) + Len(r) = Len(s) - 1
    BY <1>0, <1>1, <1>2
  <2> QED BY <2>1, <2>2, <2>3
<1>4. ASSUME NEW i \in 1..(Len(s) - 1)
      PROVE  (l \o r)[i] = s[IF i < k THEN i ELSE i + 1]
  <2>1. CASE i < k
    BY <1>0, <1>1, <1>3, <2>1
  <2>2. CASE ~(i < k)
    <3>1. i - Len(l) \in 1..(Len(s) - k) /\ k + (i - Len(l)) = i + 1
      BY <1>0, <1>1, <2>2
    <3>2. r[i - Len(l)] = s[i + 1]
      BY <1>2, <3>1
    <3> QED BY <1>0, <1>1, <1>3, <2>2, <3>2
  <2> QED BY <2>1, <2>2
<1>5. Without(s, k) = l \o r
  BY DEF Without, l, r
<1> QED BY <1>3, <1>4, <1>5

\* get_filesystem's cache: it stays within its limit, keeps one filesystem per
\* address and user, and holds nothing but what it held and the new one.
LEMMA CacheAfterSound ==
    ASSUME ConnTypeOK, VfsCacheSound,
           NEW c \in Conns, NEW ip \in IPs, NEW user \in Users \cup {None}
    PROVE  LET after == CacheAfter(c, ip, user)
           IN  /\ Len(after) <= vfs_cache_limit /\ OneEach(after)
               /\ \A i \in DOMAIN after : \/ after[i] = Fs(c, ip, user)
                                          \/ \E j \in DOMAIN vfs_cache : after[i] = vfs_cache[j]
<1>0. /\ vfs_cache \in Seq(FsRecord) /\ Len(vfs_cache) \in Nat /\ OneEach(vfs_cache)
      /\ DOMAIN vfs_cache = 1..Len(vfs_cache)
      /\ Len(vfs_cache) <= vfs_cache_limit /\ vfs_cache_limit \in Nat \ {0}
  BY ConnectionsAssumption DEF ConnTypeOK, VfsCacheSound, OneEach
<1>1. CASE ~vfs_persistence
  BY <1>0, <1>1 DEF CacheAfter
<1>2. CASE vfs_persistence /\ Hit(ip, user)
  <2>1. PICK k \in 1..Len(vfs_cache) :
            /\ CacheAfter(c, ip, user) = Append(Without(vfs_cache, k), vfs_cache[k])
    <3>1. CacheHits(ip, user) # {} /\ CacheHits(ip, user) \subseteq 1..Len(vfs_cache)
      BY <1>0, <1>2 DEF Hit, CacheHits
    <3> QED BY <1>2, <3>1 DEF CacheAfter, FilesystemFor
  <2>2. /\ Without(vfs_cache, k) \in Seq(FsRecord) /\ Len(Without(vfs_cache, k)) = Len(vfs_cache) - 1
        /\ \A i \in 1..(Len(vfs_cache) - 1) :
              Without(vfs_cache, k)[i] = vfs_cache[IF i < k THEN i ELSE i + 1]
    BY <1>0, WithoutOne
  <2>3. vfs_cache[k] \in FsRecord
    BY <1>0
  <2>4. PICK after : after = Append(Without(vfs_cache, k), vfs_cache[k])
    OBVIOUS
  <2>5. /\ Len(after) = Len(vfs_cache) /\ DOMAIN after = 1..Len(vfs_cache)
        /\ \A i \in 1..(Len(vfs_cache) - 1) : after[i] = vfs_cache[IF i < k THEN i ELSE i + 1]
        /\ after[Len(vfs_cache)] = vfs_cache[k]
    <3>1. PICK w : w = Without(vfs_cache, k)
      OBVIOUS
    <3>2. w \in Seq(FsRecord) /\ Len(w) = Len(vfs_cache) - 1 /\ after = Append(w, vfs_cache[k])
      BY <2>2, <2>4, <3>1
    <3>3. /\ Len(after) = Len(w) + 1 /\ DOMAIN after = 1..(Len(w) + 1)
          /\ \A i \in 1..Len(w) : after[i] = w[i]
          /\ after[Len(w) + 1] = vfs_cache[k]
      BY <2>3, <3>2
    <3>4. Len(w) + 1 = Len(vfs_cache)
      BY <1>0, <3>2
    <3> QED BY <2>2, <3>1, <3>2, <3>3, <3>4
  <2> DEFINE at(i) == IF i = Len(vfs_cache) THEN k ELSE IF i < k THEN i ELSE i + 1
  <2>6. \A i \in DOMAIN after : at(i) \in DOMAIN vfs_cache /\ after[i] = vfs_cache[at(i)]
    BY <1>0, <2>5
  <2>7. \A i, j \in DOMAIN after : at(i) = at(j) => i = j
    BY <1>0, <2>5
  <2> HIDE DEF at
  <2>8. OneEach(after)
    BY <1>0, <2>6, <2>7 DEF OneEach
  <2> QED BY <1>0, <2>1, <2>4, <2>5, <2>6, <2>8
<1>3. CASE vfs_persistence /\ ~Hit(ip, user)
  <2>1. PICK fs : fs = Fs(c, ip, user)
    OBVIOUS
  <2>2. fs \in FsRecord /\ fs.ip = ip /\ fs.user = user
    BY <2>1 DEF Fs, FsRecord
  <2>3. \A i \in DOMAIN vfs_cache : ~(vfs_cache[i].ip = ip /\ vfs_cache[i].user = user)
    BY <1>3 DEF Hit, CacheHits
  <2>4. CASE Len(vfs_cache) >= vfs_cache_limit
    <3>1. PICK after : after = Append(Tail(vfs_cache), fs)
      OBVIOUS
    <3>2. CacheAfter(c, ip, user) = after
      BY <1>3, <2>1, <2>4, <3>1 DEF CacheAfter
    <3>3. /\ Tail(vfs_cache) \in Seq(FsRecord) /\ Len(Tail(vfs_cache)) = Len(vfs_cache) - 1
          /\ \A i \in 1..(Len(vfs_cache) - 1) : Tail(vfs_cache)[i] = vfs_cache[i + 1]
      BY <1>0, <2>4
    <3>4. /\ Len(after) = Len(vfs_cache) /\ DOMAIN after = 1..Len(vfs_cache)
          /\ \A i \in 1..(Len(vfs_cache) - 1) : after[i] = vfs_cache[i + 1]
          /\ after[Len(vfs_cache)] = fs
      BY <1>0, <2>2, <2>4, <3>1, <3>3
    <3>5. \A i \in DOMAIN after : \/ i = Len(vfs_cache) /\ after[i] = fs
                                  \/ i + 1 \in DOMAIN vfs_cache /\ after[i] = vfs_cache[i + 1]
      BY <1>0, <3>4
    <3>6. ASSUME NEW i \in DOMAIN after, NEW j \in DOMAIN after,
                 after[i].ip = after[j].ip, after[i].user = after[j].user
          PROVE  i = j
      <4>1. CASE i = Len(vfs_cache) /\ after[i] = fs
        BY <2>2, <2>3, <3>5, <3>6, <4>1
      <4>2. CASE i + 1 \in DOMAIN vfs_cache /\ after[i] = vfs_cache[i + 1]
        <5>1. CASE j = Len(vfs_cache) /\ after[j] = fs
          BY <2>2, <2>3, <3>6, <4>2, <5>1
        <5>2. CASE j + 1 \in DOMAIN vfs_cache /\ after[j] = vfs_cache[j + 1]
          <6>1. i + 1 = j + 1
            BY <1>0, <3>6, <4>2, <5>2 DEF OneEach
          <6> QED BY <1>0, <3>4, <6>1
        <5> QED BY <3>5, <5>1, <5>2
      <4> QED BY <3>5, <4>1, <4>2
    <3>7. OneEach(after)
      BY <3>6 DEF OneEach
    <3> QED BY <3>7, <1>0, <2>1, <3>2, <3>4, <3>5
  <2>5. CASE ~(Len(vfs_cache) >= vfs_cache_limit)
    <3>1. PICK after : after = Append(vfs_cache, fs)
      OBVIOUS
    <3>2. CacheAfter(c, ip, user) = after
      BY <1>3, <2>1, <2>5, <3>1 DEF CacheAfter
    <3>3. /\ Len(after) = Len(vfs_cache) + 1 /\ DOMAIN after = 1..(Len(vfs_cache) + 1)
          /\ \A i \in 1..Len(vfs_cache) : after[i] = vfs_cache[i]
          /\ after[Len(vfs_cache) + 1] = fs
      BY <1>0, <2>2, <3>1
    <3>4. \A i \in DOMAIN after : \/ i = Len(vfs_cache) + 1 /\ after[i] = fs
                                  \/ i \in DOMAIN vfs_cache /\ after[i] = vfs_cache[i]
      BY <1>0, <3>3
    <3>5. OneEach(after)
      BY <1>0, <2>2, <2>3, <3>3, <3>4 DEF OneEach
    <3>6. Len(after) <= vfs_cache_limit
      BY <1>0, <2>5, <3>3
    <3> QED BY <2>1, <3>2, <3>4, <3>5, <3>6
  <2> QED BY <2>4, <2>5
<1> QED BY <1>1, <1>2, <1>3

\* What a handler is like at the places where it stands.
HandlerInv ==
    \A c \in Conns :
        /\ conn[c].state = "none" => /\ conn[c].proto = None /\ conn[c].fs = NoFs
                                     /\ c \notin session_logs
        /\ conn[c].state = "preauth" => conn[c].proto = "ssh"
        /\ conn[c].state \in {"new", "auth", "blocked", "ending"} => conn[c].proto = "telnet"

\* Whoever made a cached filesystem has begun.
OwnersKnown ==
    \A i \in DOMAIN vfs_cache :
        vfs_cache[i].owner \in Conns /\ conn[vfs_cache[i].owner].state # "none"

CacheInv == FilesystemOfOwnAddress /\ VfsCacheSound /\ OwnersKnown

\* What a step does to handler c: it replaces it by h.
Replaces(c, h) == \A d \in Conns : conn'[d] = IF d = c THEN h ELSE conn[d]

\* A step that leaves the cache and the handlers' filesystems alone.
LEMMA CacheKept ==
    ASSUME ConnInv, CacheInv, HandlerInv, NEW c \in Conns, NEW h, Replaces(c, h),
           h.state # "none", h.fs = conn[c].fs,
           conn[c].state # "none" => h.ip = conn[c].ip,
           UNCHANGED vfs_cache
    PROVE  CacheInv'
<1>1. ASSUME NEW d \in Conns, conn'[d].fs # NoFs PROVE conn'[d].fs.ip = conn'[d].ip
  BY <1>1 DEF CacheInv, HandlerInv, FilesystemOfOwnAddress, Replaces
<1>2. ASSUME NEW i \in DOMAIN vfs_cache
      PROVE  /\ vfs_cache[i].owner \in Conns /\ conn'[vfs_cache[i].owner].state # "none"
             /\ conn'[vfs_cache[i].owner].ip = vfs_cache[i].ip
  BY DEF CacheInv, OwnersKnown, FilesystemOfOwnAddress, Replaces
<1>3. FilesystemOfOwnAddress'
  BY <1>1, <1>2 DEF FilesystemOfOwnAddress
<1>4. OwnersKnown'
  BY <1>2 DEF OwnersKnown
<1> QED BY <1>3, <1>4 DEF CacheInv, VfsCacheSound

\* A step that gives connection c a filesystem for its address.
LEMMA CacheUsed ==
    ASSUME ConnInv, CacheInv, NEW c \in Conns, NEW user \in Users \cup {None},
           NEW h, h.ip \in IPs, Replaces(c, h), h.state # "none",
           h.fs = FilesystemFor(c, h.ip, user),
           conn[c].state # "none" => h.ip = conn[c].ip,
           vfs_cache' = CacheAfter(c, h.ip, user)
    PROVE  CacheInv'
<1>0. ConnTypeOK /\ VfsCacheSound /\ FilesystemOfOwnAddress /\ OwnersKnown
  BY DEF ConnInv, CacheInv
<1>1. /\ Len(vfs_cache') <= vfs_cache_limit /\ OneEach(vfs_cache')
      /\ \A i \in DOMAIN vfs_cache' : \/ vfs_cache'[i] = Fs(c, h.ip, user)
                                      \/ \E j \in DOMAIN vfs_cache : vfs_cache'[i] = vfs_cache[j]
  BY <1>0, CacheAfterSound
<1>2. h.fs.ip = h.ip
  <2>1. CASE Hit(h.ip, user)
    BY <2>1 DEF Hit, CacheHits, FilesystemFor
  <2>2. CASE ~Hit(h.ip, user)
    BY <2>2 DEF FilesystemFor, Fs
  <2> QED BY <2>1, <2>2
<1>3. ASSUME NEW i \in DOMAIN vfs_cache'
      PROVE  /\ vfs_cache'[i].owner \in Conns /\ conn'[vfs_cache'[i].owner].state # "none"
             /\ conn'[vfs_cache'[i].owner].ip = vfs_cache'[i].ip
  <2>1. CASE vfs_cache'[i] = Fs(c, h.ip, user)
    BY <2>1 DEF Fs, Replaces
  <2>2. ASSUME NEW j \in DOMAIN vfs_cache, vfs_cache'[i] = vfs_cache[j]
        PROVE  /\ vfs_cache'[i].owner \in Conns /\ conn'[vfs_cache'[i].owner].state # "none"
               /\ conn'[vfs_cache'[i].owner].ip = vfs_cache'[i].ip
    BY <1>0, <2>2 DEF OwnersKnown, FilesystemOfOwnAddress, Replaces
  <2> QED BY <1>1, <2>1, <2>2
<1>4. FilesystemOfOwnAddress'
  BY <1>0, <1>2, <1>3 DEF FilesystemOfOwnAddress, Replaces
<1>5. OwnersKnown'
  BY <1>3 DEF OwnersKnown
<1>6. VfsCacheSound'
  BY <1>1 DEF VfsCacheSound, OneEach
<1> QED BY <1>4, <1>5, <1>6 DEF CacheInv

\* A step that changes handler c and no other's log mirror.
LEMMA HandlerKept ==
    ASSUME HandlerInv, NEW c \in Conns, NEW h, Replaces(c, h), h.state # "none",
           h.state = "preauth" => h.proto = "ssh",
           h.state \in {"new", "auth", "blocked", "ending"} => h.proto = "telnet",
           session_logs' \subseteq session_logs \cup {c}
    PROVE  HandlerInv'
<1> SUFFICES ASSUME NEW d \in Conns
             PROVE  /\ conn'[d].state = "none" => /\ conn'[d].proto = None /\ conn'[d].fs = NoFs
                                                  /\ d \notin session_logs'
                    /\ conn'[d].state = "preauth" => conn'[d].proto = "ssh"
                    /\ conn'[d].state \in {"new", "auth", "blocked", "ending"} => conn'[d].proto = "telnet"
  BY DEF HandlerInv
<1>1. CASE d = c
  BY <1>1 DEF Replaces
<1>2. CASE d # c
  BY <1>2 DEF Replaces, HandlerInv
<1> QED BY <1>1, <1>2

\* A step that moves handler c on replaces it by itself in another state.
LEMMA MovedOn ==
    ASSUME ConnInv, NEW c \in Conns, NEW st, conn' = [conn EXCEPT ![c].state = st]
    PROVE  \E h : /\ Replaces(c, h) /\ h.state = st
                  /\ h.proto = conn[c].proto /\ h.ip = conn[c].ip /\ h.fs = conn[c].fs
<1>1. conn \in [Conns -> Handler]
  BY DEF ConnInv, ConnTypeOK, Handler
<1>2. PICK h : h = [conn[c] EXCEPT !.state = st]
  OBVIOUS
<1>3. h.state = st /\ h.proto = conn[c].proto /\ h.ip = conn[c].ip /\ h.fs = conn[c].fs
  BY <1>1, <1>2 DEF Handler
<1>4. Replaces(c, h)
  BY <1>1, <1>2 DEF Replaces
<1> QED BY <1>3, <1>4

\* The steps that only move one handler on, and what they do to the registrations.
MovesOn(c, st) ==
    /\ conn[c].state \notin {"none", st}
    /\ st \in {"shell", "blocked", "ending", "crashed", "closed"}
    /\ st \in {"blocked", "ending"} => conn[c].proto = "telnet"
    /\ conn' = [conn EXCEPT ![c].state = st]
    /\ UNCHANGED vfs_cache
    /\ \/ UNCHANGED <<session_logs, stats_active>>
       \/ session_logs' = session_logs \ {c}

LEMMA MovingSteps ==
    ASSUME HandlerInv, NEW c \in Conns,
           \/ SshConnectionLost(c) \/ TelnetRejected(c) \/ TelnetPrepareCrashes(c)
           \/ TelnetLoginFailed(c) \/ TelnetExit(c) \/ TelnetOutputBlocks(c)
           \/ TelnetDrained(c) \/ TelnetTimeout(c) \/ TelnetCleanup(c)
    PROVE  \E st : MovesOn(c, st)
<1> USE DEF MovesOn
<1>1. CASE SshConnectionLost(c) \/ TelnetRejected(c) \/ TelnetCleanup(c)
  <2>1. MovesOn(c, "closed")
    BY <1>1 DEF SshConnectionLost, TelnetRejected, TelnetCleanup
  <2> QED BY <2>1
<1>2. CASE TelnetPrepareCrashes(c)
  <2>1. MovesOn(c, "crashed")
    BY <1>2 DEF TelnetPrepareCrashes
  <2> QED BY <2>1
<1>3. CASE TelnetLoginFailed(c) \/ TelnetExit(c) \/ TelnetTimeout(c)
  <2>1. conn[c].state \in {"auth", "shell"} /\ conn[c].proto = "telnet"
    BY <1>3 DEF TelnetLoginFailed, TelnetExit, TelnetTimeout, HandlerInv
  <2>2. MovesOn(c, "ending")
    BY <1>3, <2>1 DEF TelnetLoginFailed, TelnetExit, TelnetTimeout
  <2> QED BY <2>2
<1>4. CASE TelnetOutputBlocks(c)
  <2>1. MovesOn(c, "blocked")
    BY <1>4 DEF TelnetOutputBlocks
  <2> QED BY <2>1
<1>5. CASE TelnetDrained(c)
  <2>1. conn[c].proto = "telnet"
    BY <1>5 DEF TelnetDrained, HandlerInv
  <2>2. PICK st \in {"shell", "ending"} : conn' = [conn EXCEPT ![c].state = st]
    BY <1>5 DEF TelnetDrained
  <2>3. MovesOn(c, st)
    BY <1>5, <2>1, <2>2 DEF TelnetDrained
  <2> QED BY <2>3
<1> QED BY <1>1, <1>2, <1>3, <1>4, <1>5

\* Every step keeps the cache and what is known of the handlers.
LEMMA CacheStep == ConnInv /\ HandlerInv /\ CacheInv /\ [Next]_vars => (HandlerInv /\ CacheInv)'
<1> SUFFICES ASSUME ConnInv, HandlerInv, CacheInv, [Next]_vars PROVE (HandlerInv /\ CacheInv)'
  OBVIOUS
<1>a. conn \in [Conns -> Handler]
  BY DEF ConnInv, ConnTypeOK, Handler
<1>0. \A c \in Conns : conn[c].state # "none" => conn[c].ip \in IPs
  BY DEF ConnInv, AddressKnown
<1>1. ASSUME NEW c \in Conns, NEW ip \in IPs, SshRejected(c, ip) \/ TelnetConnected(c, ip)
      PROVE  (HandlerInv /\ CacheInv)'
  <2>1. PICK st \in {"closing", "new"}, pr \in {"ssh", "telnet"} :
           /\ st = "new" => pr = "telnet"
           /\ conn' = [conn EXCEPT ![c] = [@ EXCEPT !.state = st, !.proto = pr, !.ip = ip]]
    BY <1>1 DEF SshRejected, TelnetConnected
  <2>2. conn[c].state = "none" /\ UNCHANGED <<vfs_cache, session_logs>>
    BY <1>1 DEF SshRejected, TelnetConnected
  <2>3. PICK h : /\ Replaces(c, h) /\ h.state = st
                 /\ h.proto = pr /\ h.ip = ip /\ h.fs = conn[c].fs
    <3>1. PICK h : h = [conn[c] EXCEPT !.state = st, !.proto = pr, !.ip = ip]
      OBVIOUS
    <3>2. h.state = st /\ h.proto = pr /\ h.ip = ip /\ h.fs = conn[c].fs
      BY <1>a, <3>1 DEF Handler
    <3>3. Replaces(c, h)
      BY <1>a, <2>1, <3>1 DEF Replaces
    <3> QED BY <3>2, <3>3
  <2>4. HandlerInv'
    BY <2>1, <2>2, <2>3, HandlerKept
  <2>5. CacheInv'
    BY <2>1, <2>2, <2>3, CacheKept
  <2> QED BY <2>4, <2>5
<1>2. ASSUME NEW c \in Conns, NEW ip \in IPs, SshConnectionMade(c, ip)
      PROVE  (HandlerInv /\ CacheInv)'
  <2>1. PICK h : h = [state |-> "preauth", proto |-> "ssh", ip |-> ip,
                      fs |-> FilesystemFor(c, ip, root)]
    OBVIOUS
  <2>2. h.state = "preauth" /\ h.proto = "ssh" /\ h.ip = ip /\ h.fs = FilesystemFor(c, h.ip, root)
    BY <2>1
  <2>3. Replaces(c, h)
    BY <1>a, <1>2, <2>1 DEF SshConnectionMade, Replaces
  <2>4. /\ conn[c].state = "none" /\ vfs_cache' = CacheAfter(c, h.ip, root)
        /\ session_logs' \subseteq session_logs \cup {c}
    BY <1>2, <2>2 DEF SshConnectionMade
  <2>5. HandlerInv'
    BY <2>2, <2>3, <2>4, HandlerKept
  <2>6. CacheInv'
    BY <2>2, <2>3, <2>4, CacheUsed, ConnectionsAssumption
  <2> QED BY <2>5, <2>6
<1>3. ASSUME NEW c \in Conns, NEW user \in Users \cup {None},
             SshLogin(c, user) \/ TelnetLogin(c, user) \/ (TelnetPrepared(c) /\ user = None)
      PROVE  (HandlerInv /\ CacheInv)'
  <2>1. PICK st \in {"shell", "auth"} :
           /\ st = "auth" => conn[c].proto = "telnet"
           /\ conn' = [conn EXCEPT ![c].state = st, ![c].fs = FilesystemFor(c, conn[c].ip, user)]
    BY <1>3 DEF SshLogin, TelnetLogin, TelnetPrepared, HandlerInv
  <2>2. /\ conn[c].state # "none" /\ vfs_cache' = CacheAfter(c, conn[c].ip, user)
        /\ session_logs' \subseteq session_logs \cup {c}
    BY <1>3 DEF SshLogin, TelnetLogin, TelnetPrepared
  <2>3. PICK h : /\ Replaces(c, h) /\ h.state = st /\ h.proto = conn[c].proto
                 /\ h.ip = conn[c].ip /\ h.fs = FilesystemFor(c, conn[c].ip, user)
    <3>1. PICK h : h = [conn[c] EXCEPT !.state = st, !.fs = FilesystemFor(c, conn[c].ip, user)]
      OBVIOUS
    <3>2. /\ h.state = st /\ h.proto = conn[c].proto
          /\ h.ip = conn[c].ip /\ h.fs = FilesystemFor(c, conn[c].ip, user)
      BY <1>a, <3>1 DEF Handler
    <3>3. Replaces(c, h)
      BY <1>a, <2>1, <3>1 DEF Replaces
    <3> QED BY <3>2, <3>3
  <2>4. HandlerInv'
    BY <2>1, <2>2, <2>3, HandlerKept
  <2>5. CacheInv'
    BY <1>0, <2>1, <2>2, <2>3, CacheUsed
  <2> QED BY <2>4, <2>5
<1>4. ASSUME NEW c \in Conns, NEW st, MovesOn(c, st) PROVE (HandlerInv /\ CacheInv)'
  <2>1. PICK h : /\ Replaces(c, h) /\ h.state = st
                 /\ h.proto = conn[c].proto /\ h.ip = conn[c].ip /\ h.fs = conn[c].fs
    BY <1>4, MovedOn DEF MovesOn
  <2>2. HandlerInv'
    BY <1>4, <2>1, HandlerKept DEF MovesOn
  <2>3. CacheInv'
    BY <1>4, <2>1, CacheKept DEF MovesOn
  <2> QED BY <2>2, <2>3
<1>5. CASE UNCHANGED connVars
  BY <1>5 DEF connVars, HandlerInv, CacheInv, FilesystemOfOwnAddress, VfsCacheSound, OwnersKnown
<1>6. ASSUME NEW c \in Conns, ShellCommand(c) \/ ShellFileOp(c) PROVE (HandlerInv /\ CacheInv)'
  BY <1>5, <1>6 DEF ShellCommand, ShellFileOp
<1> QED BY <1>1, <1>2, <1>3, <1>4, <1>5, <1>6, MovingSteps DEF Next, ClockTick, vars

LEMMA CacheInit == Init => HandlerInv /\ CacheInv
<1> SUFFICES ASSUME Init PROVE HandlerInv /\ CacheInv
  OBVIOUS
<1>1. vfs_cache = <<>> /\ session_logs = {} /\ \A c \in Conns : conn[c] = Idle
  BY DEF Init
<1>2. Idle.state = "none" /\ Idle.proto = None /\ Idle.fs = NoFs
  BY DEF Idle
<1>3. HandlerInv
  BY <1>1, <1>2 DEF HandlerInv
<1>4. CacheInv
  BY <1>1, <1>2, ConnectionsAssumption DEF CacheInv, FilesystemOfOwnAddress, VfsCacheSound, OwnersKnown
<1> QED BY <1>3, <1>4

\* For any number of connections, and any sequence of logins and evictions: a filesystem is
\* only ever used from the address that it was made for.
THEOREM FilesystemsStayApart == Spec => []FilesystemOfOwnAddress
<1>1. CacheInv => FilesystemOfOwnAddress
  BY DEF CacheInv
<1> QED BY <1>1, ConnInit, ConnStep, CacheInit, CacheStep, PTL DEF Spec

\* The cache of get_filesystem keeps its limit and one filesystem per address and user.
THEOREM CacheCorrect == Spec => []VfsCacheSound
<1>1. CacheInv => VfsCacheSound
  BY DEF CacheInv
<1> QED BY <1>1, ConnInit, ConnStep, CacheInit, CacheStep, PTL DEF Spec

-----------------------------------------------------------------------------
(* What a Telnet connection holds                                          *)

TelnetConns == {c \in Conns : conn[c].proto = "telnet"}
Inside == {c \in TelnetConns : conn[c].state \in Live}

TelnetInv ==
    /\ session_logs \cap TelnetConns = Inside
    /\ IsFiniteSet(Inside) /\ stats_active = Cardinality(Inside)

\* A step of connection c that takes nothing and gives nothing back.
LEMMA TelnetKept ==
    ASSUME TelnetInv, NEW c \in Conns, NEW h, Replaces(c, h),
           c \in Inside <=> (h.proto = "telnet" /\ h.state \in Live),
           h.proto = "telnet" => (c \in session_logs' <=> c \in Inside),
           session_logs \ {c} = session_logs' \ {c}, UNCHANGED stats_active
    PROVE  TelnetInv'
<1>1. Inside' = Inside
  BY DEF Inside, TelnetConns, Replaces
<1>2. ASSUME NEW d \in TelnetConns' PROVE d \in session_logs' <=> d \in Inside
  <2>1. CASE d = c
    BY <2>1, <1>2 DEF TelnetConns, Replaces
  <2>2. CASE d # c
    <3>1. d \in TelnetConns
      BY <1>2, <2>2 DEF TelnetConns, Replaces
    <3> QED BY <2>2, <3>1 DEF TelnetInv
  <2> QED BY <2>1, <2>2
<1>3. Inside \subseteq TelnetConns'
  BY <1>1 DEF Inside
<1>4. session_logs' \cap TelnetConns' = Inside
  BY <1>2, <1>3
<1> QED BY <1>1, <1>4 DEF TelnetInv

\* _prepare_session: everything is taken together.
LEMMA TelnetTakes ==
    ASSUME TelnetInv, NEW c \in Conns, NEW h, Replaces(c, h),
           c \notin Inside, h.proto = "telnet", h.state \in Live,
           session_logs' = session_logs \cup {c}, stats_active' = stats_active + 1
    PROVE  TelnetInv'
<1>1. Inside' = Inside \cup {c}
  BY DEF Inside, TelnetConns, Replaces
<1>2. IsFiniteSet(Inside') /\ Cardinality(Inside') = Cardinality(Inside) + 1
  BY <1>1, FS_AddElement DEF TelnetInv
<1>3. TelnetConns' = TelnetConns \cup {c}
  BY DEF TelnetConns, Replaces
<1>4. session_logs' \cap TelnetConns' = Inside'
  BY <1>1, <1>3 DEF TelnetInv
<1> QED BY <1>2, <1>4 DEF TelnetInv

\* _cleanup_session: everything is given back together.
LEMMA TelnetGivesBack ==
    ASSUME TelnetInv, NEW c \in Inside, NEW h, Replaces(c, h),
           h.proto = "telnet", h.state \notin Live,
           session_logs' = session_logs \ {c}, stats_active' = Decrement(stats_active)
    PROVE  TelnetInv'
<1>0. c \in Conns /\ c \in TelnetConns
  BY DEF Inside, TelnetConns
<1>1. Inside' = Inside \ {c}
  BY <1>0 DEF Inside, TelnetConns, Replaces
<1>2. IsFiniteSet(Inside') /\ Cardinality(Inside') = Cardinality(Inside) - 1
  BY <1>1, FS_RemoveElement DEF TelnetInv
<1>3. Cardinality(Inside) \in Nat /\ Cardinality(Inside') \in Nat
  BY <1>2, FS_CardinalityType DEF TelnetInv
<1>4. stats_active' = Cardinality(Inside')
  BY <1>2, <1>3 DEF TelnetInv, Decrement
<1>5. TelnetConns' = TelnetConns
  BY <1>0 DEF TelnetConns, Replaces
<1>6. session_logs' \cap TelnetConns' = Inside'
  BY <1>1, <1>5 DEF TelnetInv
<1> QED BY <1>2, <1>4, <1>6 DEF TelnetInv

\* The steps other than those two leave what a Telnet connection holds as it is.
LEMMA TelnetStep == ConnInv /\ HandlerInv /\ TelnetInv /\ [Next]_vars => TelnetInv'
<1> SUFFICES ASSUME ConnInv, HandlerInv, TelnetInv, [Next]_vars PROVE TelnetInv'
  OBVIOUS
<1>a. conn \in [Conns -> Handler]
  BY DEF ConnInv, ConnTypeOK, Handler
<1>b. ASSUME NEW c \in Conns
      PROVE  /\ c \in Inside <=> (conn[c].proto = "telnet" /\ conn[c].state \in Live)
             /\ conn[c].proto = "telnet" => (c \in session_logs <=> c \in Inside)
  BY DEF Inside, TelnetConns, TelnetInv
<1>1. ASSUME NEW c \in Conns, NEW ip \in IPs, SshRejected(c, ip) \/ TelnetConnected(c, ip)
      PROVE  TelnetInv'
  <2>1. PICK st \in {"closing", "new"}, pr \in {"ssh", "telnet"} :
           conn' = [conn EXCEPT ![c] = [@ EXCEPT !.state = st, !.proto = pr, !.ip = ip]]
    BY <1>1 DEF SshRejected, TelnetConnected
  <2>2. conn[c].state = "none" /\ UNCHANGED <<session_logs, stats_active>>
    BY <1>1 DEF SshRejected, TelnetConnected
  <2>3. PICK h : h = [conn[c] EXCEPT !.state = st, !.proto = pr, !.ip = ip]
    OBVIOUS
  <2>4. h.state = st /\ h.proto = pr
    BY <1>a, <2>3 DEF Handler
  <2>5. Replaces(c, h)
    BY <1>a, <2>1, <2>3 DEF Replaces
  <2>6. c \notin Inside /\ c \notin session_logs /\ h.state \notin Live
    BY <1>b, <2>1, <2>2, <2>4 DEF Live, HandlerInv
  <2> QED BY <2>2, <2>5, <2>6, TelnetKept
<1>2. ASSUME NEW c \in Conns, NEW ip \in IPs, SshConnectionMade(c, ip) PROVE TelnetInv'
  <2>1. PICK h : h = [state |-> "preauth", proto |-> "ssh", ip |-> ip,
                      fs |-> FilesystemFor(c, ip, root)]
    OBVIOUS
  <2>2. Replaces(c, h) /\ h.proto = "ssh"
    BY <1>a, <1>2, <2>1 DEF SshConnectionMade, Replaces
  <2>3. /\ c \notin Inside /\ UNCHANGED stats_active
        /\ session_logs' \ {c} = session_logs \ {c}
    BY <1>2, <1>b DEF SshConnectionMade, Live
  <2> QED BY <2>2, <2>3, TelnetKept
<1>3. ASSUME NEW c \in Conns, NEW user \in Users, SshLogin(c, user) \/ TelnetLogin(c, user)
      PROVE  TelnetInv'
  <2>1. PICK h : h = [conn[c] EXCEPT !.state = "shell", !.fs = FilesystemFor(c, conn[c].ip, user)]
    OBVIOUS
  <2>2. h.state = "shell" /\ h.proto = conn[c].proto
    BY <1>a, <2>1 DEF Handler
  <2>3. Replaces(c, h)
    BY <1>a, <1>3, <2>1 DEF SshLogin, TelnetLogin, Replaces
  <2>4. conn[c].state \in Live /\ UNCHANGED <<session_logs, stats_active>>
    BY <1>3 DEF SshLogin, TelnetLogin, Live
  <2> QED BY <1>b, <2>2, <2>3, <2>4, TelnetKept DEF Live
<1>4. ASSUME NEW c \in Conns, TelnetPrepared(c) PROVE TelnetInv'
  <2>1. PICK h : h = [conn[c] EXCEPT !.state = "auth", !.fs = FilesystemFor(c, conn[c].ip, None)]
    OBVIOUS
  <2>2. h.state = "auth" /\ h.proto = conn[c].proto
    BY <1>a, <2>1 DEF Handler
  <2>3. Replaces(c, h)
    BY <1>a, <1>4, <2>1 DEF TelnetPrepared, Replaces
  <2>4. /\ conn[c].proto = "telnet" /\ c \notin Inside
        /\ session_logs' = session_logs \cup {c} /\ stats_active' = stats_active + 1
    BY <1>4, <1>b DEF TelnetPrepared, Live, HandlerInv
  <2> QED BY <2>2, <2>3, <2>4, TelnetTakes DEF Live
<1>5. ASSUME NEW c \in Conns, TelnetCleanup(c) PROVE TelnetInv'
  <2>1. PICK h : Replaces(c, h) /\ h.state = "closed" /\ h.proto = conn[c].proto
    <3>1. PICK h : h = [conn[c] EXCEPT !.state = "closed"]
      OBVIOUS
    <3>2. h.state = "closed" /\ h.proto = conn[c].proto
      BY <1>a, <3>1 DEF Handler
    <3>3. Replaces(c, h)
      BY <1>a, <1>5, <3>1 DEF TelnetCleanup, Replaces
    <3> QED BY <3>2, <3>3
  <2>2. conn[c].proto = "telnet" /\ c \in Inside
    BY <1>5, <1>b DEF TelnetCleanup, Live, HandlerInv
  <2>3. session_logs' = session_logs \ {c} /\ stats_active' = Decrement(stats_active)
    BY <1>5 DEF TelnetCleanup
  <2> QED BY <2>1, <2>2, <2>3, TelnetGivesBack DEF Live
<1>6. ASSUME NEW c \in Conns, NEW st, conn' = [conn EXCEPT ![c].state = st],
             conn[c].proto = "telnet" => (st \in Live <=> conn[c].state \in Live),
             UNCHANGED <<session_logs, stats_active>>
      PROVE  TelnetInv'
  <2>1. PICK h : Replaces(c, h) /\ h.state = st /\ h.proto = conn[c].proto
    <3>1. PICK h : h = [conn[c] EXCEPT !.state = st]
      OBVIOUS
    <3>2. h.state = st /\ h.proto = conn[c].proto
      BY <1>a, <3>1 DEF Handler
    <3>3. Replaces(c, h)
      BY <1>a, <1>6, <3>1 DEF Replaces
    <3> QED BY <3>2, <3>3
  <2>2. c \in Inside <=> (h.proto = "telnet" /\ h.state \in Live)
    BY <1>6, <1>b, <2>1
  <2>3. h.proto = "telnet" => (c \in session_logs' <=> c \in Inside)
    BY <1>6, <1>b, <2>1
  <2> QED BY <1>6, <2>1, <2>2, <2>3, TelnetKept
<1>7. ASSUME NEW c \in Conns, SshConnectionLost(c) PROVE TelnetInv'
  BY <1>6, <1>7 DEF SshConnectionLost
<1>8. ASSUME NEW c \in Conns, TelnetRejected(c) \/ TelnetPrepareCrashes(c) PROVE TelnetInv'
  BY <1>6, <1>8 DEF TelnetRejected, TelnetPrepareCrashes, Live
<1>9. ASSUME NEW c \in Conns,
             TelnetLoginFailed(c) \/ TelnetExit(c) \/ TelnetOutputBlocks(c) \/ TelnetTimeout(c)
      PROVE  TelnetInv'
  BY <1>6, <1>9 DEF TelnetLoginFailed, TelnetExit, TelnetOutputBlocks, TelnetTimeout, Live
<1>10. ASSUME NEW c \in Conns, TelnetDrained(c) PROVE TelnetInv'
  <2>1. PICK st \in {"shell", "ending"} : conn' = [conn EXCEPT ![c].state = st]
    BY <1>10 DEF TelnetDrained
  <2> QED BY <1>6, <1>10, <2>1 DEF TelnetDrained, Live
<1>11. CASE UNCHANGED connVars
  BY <1>11 DEF connVars, TelnetInv, Inside, TelnetConns
<1>12. ASSUME NEW c \in Conns, ShellCommand(c) \/ ShellFileOp(c) PROVE TelnetInv'
  BY <1>11, <1>12 DEF ShellCommand, ShellFileOp
<1> QED BY <1>1, <1>2, <1>3, <1>4, <1>5, <1>7, <1>8, <1>9, <1>10, <1>11, <1>12
        DEF Next, ClockTick, vars

\* A Telnet connection has its log mirror and its unit of the statistic from
\* _prepare_session to _cleanup_session and at no other time, whichever way it ends.
THEOREM TelnetTakesAllOrNothing == Spec => []TelnetHoldsAllOrNothing
<1>1. Init => TelnetInv
  <2> SUFFICES ASSUME Init PROVE TelnetInv
    OBVIOUS
  <2>1. Inside = {} /\ session_logs = {} /\ stats_active = 0
    BY DEF Init, Idle, Inside, TelnetConns, Live
  <2> QED BY <2>1, FS_EmptySet DEF TelnetInv
<1>2. TelnetInv => TelnetHoldsAllOrNothing
  BY DEF TelnetInv, TelnetHoldsAllOrNothing, Inside, TelnetConns
<1>3. ConnInv /\ HandlerInv /\ CacheInv /\ TelnetInv /\ [Next]_vars
          => (ConnInv /\ HandlerInv /\ CacheInv /\ TelnetInv)'
  BY ConnStep, CacheStep, TelnetStep
<1> QED BY <1>1, <1>2, <1>3, ConnInit, CacheInit, PTL DEF Spec
=============================================================================
