------------------------ MODULE SessionManagerProofs ------------------------
(***************************************************************************)
(* Proofs about SessionManager for every value of its constants.           *)
(***************************************************************************)
EXTENDS SessionManager, FiniteSetTheorems, SequenceTheorems, TLAPS

-----------------------------------------------------------------------------
(* The pruned history                                                      *)

\* Expired(ip) counts some of the positions of the history.
LEMMA ExpiredBounded ==
    ASSUME TypeOK, NEW ip \in IPs
    PROVE  /\ IsFiniteSet(Expired(ip))
           /\ Cardinality(Expired(ip)) \in Nat
           /\ Cardinality(Expired(ip)) <= Len(connection_history[ip])
<1> DEFINE n == Len(connection_history[ip])
<1>1. /\ n \in Nat
      /\ DOMAIN connection_history[ip] = 1..n
  BY DEF TypeOK
<1>2. IsFiniteSet(1..n) /\ Cardinality(1..n) = n
  BY <1>1, FS_Interval
<1>3. Expired(ip) \in SUBSET (1..n)
  BY <1>1 DEF Expired
<1> QED
  BY <1>1, <1>2, <1>3, FS_Subset, FS_CardinalityType

\* Pruning returns a suffix of the history: times of the history, no more of them.
LEMMA RecentIsSuffix ==
    ASSUME TypeOK, NEW ip \in IPs
    PROVE  /\ Recent(ip) \in Seq(Nat)
           /\ Len(Recent(ip)) = Len(connection_history[ip]) - Cardinality(Expired(ip))
           /\ \A i \in 1..Len(Recent(ip)) :
                 /\ i + Cardinality(Expired(ip)) \in 1..Len(connection_history[ip])
                 /\ Recent(ip)[i] = connection_history[ip][i + Cardinality(Expired(ip))]
<1> DEFINE h == connection_history[ip]
           k == Cardinality(Expired(ip))
<1>1. h \in Seq(Nat) /\ Len(h) \in Nat
  BY DEF TypeOK
<1>2. k \in Nat /\ k <= Len(h)
  BY ExpiredBounded
<1> HIDE DEF h, k
<1>3. \A i \in (k + 1)..Len(h) : h[i] \in Nat
  BY <1>1, <1>2
<1>4. k + 1 \in Int /\ Len(h) \in Int
  BY <1>1, <1>2
<1>5. /\ SubSeq(h, k + 1, Len(h)) \in Seq(Nat)
      /\ Len(SubSeq(h, k + 1, Len(h))) = IF k + 1 <= Len(h) THEN Len(h) - (k + 1) + 1 ELSE 0
      /\ \A i \in 1..(Len(h) - (k + 1) + 1) : SubSeq(h, k + 1, Len(h))[i] = h[k + 1 + i - 1]
  BY <1>3, <1>4, SubSeqProperties
<1>6. Recent(ip) = SubSeq(h, k + 1, Len(h))
  BY DEF Recent, h, k
<1>7. Len(Recent(ip)) = Len(h) - k
  BY <1>1, <1>2, <1>5, <1>6
<1>8. \A i \in 1..Len(Recent(ip)) : i + k \in 1..Len(h) /\ Recent(ip)[i] = h[i + k]
  BY <1>1, <1>2, <1>5, <1>6, <1>7
<1> QED
  BY <1>5, <1>6, <1>7, <1>8 DEF h, k

-----------------------------------------------------------------------------
(* Type correctness                                                        *)

\* What can_accept writes has the type of what it overwrites.
LEMMA CanAcceptType ==
    ASSUME TypeOK, NEW ip \in IPs, NEW verdict, CanAccept(ip, verdict)
    PROVE  banned_ips' \in [IPs -> Nat] /\ connection_history' \in [IPs -> Seq(Nat)]
<1>1. Recent(ip) \in Seq(Nat) /\ Append(Recent(ip), now) \in Seq(Nat)
  BY RecentIsSuffix DEF TypeOK
<1>2. now + ban_duration \in Nat
  BY LimitsAssumption DEF TypeOK
<1>3. banned_ips \in [IPs -> Nat] /\ connection_history \in [IPs -> Seq(Nat)]
  BY DEF TypeOK
<1>4. CASE UNCHANGED <<banned_ips, connection_history>>
  BY <1>3, <1>4
<1>5. CASE /\ banned_ips' = [banned_ips EXCEPT ![ip] = now + ban_duration]
           /\ connection_history' = [connection_history EXCEPT ![ip] = Recent(ip)]
  BY <1>1, <1>2, <1>3, <1>5
<1>6. CASE CountAttempt(ip)
  BY <1>1, <1>3, <1>6 DEF CountAttempt
<1> QED
  BY <1>4, <1>5, <1>6 DEF CanAccept

\* Every step of the manager preserves the types.
LEMMA TypeStep == TypeOK /\ [smNext]_smVars => TypeOK'
<1> SUFFICES ASSUME TypeOK, [smNext]_smVars PROVE TypeOK'
  OBVIOUS
<1>1. ASSUME NEW ip \in IPs, Reject(ip) PROVE TypeOK'
  <2>1. banned_ips' \in [IPs -> Nat] /\ connection_history' \in [IPs -> Seq(Nat)]
    BY <1>1, CanAcceptType DEF Reject
  <2> QED BY <1>1, <2>1 DEF Reject, TypeOK
<1>2. ASSUME NEW ip \in IPs, NEW id \in SessionIds, Admit(ip, id) PROVE TypeOK'
  <2>1. banned_ips' \in [IPs -> Nat] /\ connection_history' \in [IPs -> Seq(Nat)]
    BY <1>2, CanAcceptType DEF Admit
  <2>2. NewSession(ip) \in Session
    BY DEF NewSession, Session, TypeOK
  <2>3. /\ DOMAIN sessions' = DOMAIN sessions \cup {id}
        /\ sessions' \in [DOMAIN sessions' -> Session]
    BY <1>2, <2>2 DEF Admit, RegisterSession, TypeOK
  <2>4. active_sessions' \in Nat /\ sessions_per_ip' \in [IPs -> Nat]
    BY <1>2 DEF Admit, RegisterSession, TypeOK
  <2> QED BY <1>2, <2>1, <2>3, <2>4 DEF Admit, TypeOK
<1>3. ASSUME NEW id \in SessionIds, End(id) PROVE TypeOK'
  <2>1. CASE id \notin DOMAIN sessions
    BY <1>3, <2>1 DEF End, UnregisterSession, TypeOK
  <2>2. CASE id \in DOMAIN sessions
    <3>0. active_sessions \in Nat /\ sessions_per_ip \in [IPs -> Nat]
      BY DEF TypeOK
    <3>1. active_sessions' \in Nat /\ sessions_per_ip' \in [IPs -> Nat]
      BY <1>3, <2>2, <3>0 DEF End, UnregisterSession, Decrement
    <3>2. /\ DOMAIN sessions' = DOMAIN sessions \ {id}
          /\ sessions' \in [DOMAIN sessions' -> Session]
      BY <1>3, <2>2 DEF End, UnregisterSession, TypeOK
    <3> QED BY <1>3, <3>1, <3>2 DEF End, TypeOK
  <2> QED BY <2>1, <2>2
<1>4. ASSUME NEW id \in SessionIds, CountCommand(id) PROVE TypeOK'
  <2>1. CASE id \notin DOMAIN sessions
    BY <1>4, <2>1 DEF CountCommand, RecordCommand, TypeOK
  <2>2. CASE id \in DOMAIN sessions
    <3>0. sessions[id] \in Session
      BY <2>2 DEF TypeOK
    <3>1. [sessions[id] EXCEPT !.commands = @ + 1] \in Session
      BY <3>0 DEF Session
    <3>2. sessions' = [sessions EXCEPT ![id] = [sessions[id] EXCEPT !.commands = @ + 1]]
      BY <1>4, <2>2 DEF CountCommand, RecordCommand
    <3>3. DOMAIN sessions' = DOMAIN sessions /\ sessions' \in [DOMAIN sessions -> Session]
      BY <2>2, <3>1, <3>2 DEF TypeOK
    <3> QED BY <1>4, <3>3 DEF CountCommand, TypeOK
  <2> QED BY <2>1, <2>2
<1>5. ASSUME NEW id \in SessionIds, CountFileOp(id) PROVE TypeOK'
  <2>1. CASE id \notin DOMAIN sessions
    BY <1>5, <2>1 DEF CountFileOp, RecordFileOp, TypeOK
  <2>2. CASE id \in DOMAIN sessions
    <3>0. sessions[id] \in Session
      BY <2>2 DEF TypeOK
    <3>1. [sessions[id] EXCEPT !.file_ops = @ + 1] \in Session
      BY <3>0 DEF Session
    <3>2. sessions' = [sessions EXCEPT ![id] = [sessions[id] EXCEPT !.file_ops = @ + 1]]
      BY <1>5, <2>2 DEF CountFileOp, RecordFileOp
    <3>3. DOMAIN sessions' = DOMAIN sessions /\ sessions' \in [DOMAIN sessions -> Session]
      BY <2>2, <3>1, <3>2 DEF TypeOK
    <3> QED BY <1>5, <3>3 DEF CountFileOp, TypeOK
  <2> QED BY <2>1, <2>2
<1>6. ASSUME NEW ip \in IPs, NEW duration \in BanDurations, Ban(ip, duration) PROVE TypeOK'
  BY <1>6, LimitsAssumption DEF Ban, BanIp, BanDurations, TypeOK
<1>7. CASE Tick
  BY <1>7 DEF Tick, TypeOK
<1>8. CASE UNCHANGED smVars
  BY <1>8 DEF smVars, TypeOK
<1> QED
  BY <1>1, <1>2, <1>3, <1>4, <1>5, <1>6, <1>7, <1>8 DEF smNext

\* The fields of the session manager keep their types: no counter goes negative,
\* the table only maps known ids to complete records.
THEOREM TypeCorrect == smSpec => []TypeOK
<1>1. smInit => TypeOK
  BY DEF smInit, TypeOK
<1> QED
  BY <1>1, TypeStep, PTL DEF smSpec

-----------------------------------------------------------------------------
(* The counters, the table and the limits                                  *)

\* Inductive: the counters are the sizes of the finite table they summarise, and
\* those sizes are within the limits.  LimitsHold alone is not inductive, because
\* can_accept looks at the counters only.
TableInv ==
    /\ IsFiniteSet(DOMAIN sessions)
    /\ CountersMatchTable
    /\ LimitsHold

\* can_accept says yes only below both limits.
LEMMA AcceptedBelowLimits ==
    ASSUME TypeOK, NEW ip \in IPs, CanAccept(ip, "accepted")
    PROVE  active_sessions < max_sessions /\ sessions_per_ip[ip] < max_sessions_per_ip
<1>1. LimitVerdict(ip) = "accepted"
  BY DEF CanAccept
<1>2. active_sessions \in Nat /\ sessions_per_ip[ip] \in Nat
  BY DEF TypeOK
<1>3. ~(active_sessions >= max_sessions) /\ ~(sessions_per_ip[ip] >= max_sessions_per_ip)
  BY <1>1 DEF LimitVerdict
<1> QED
  BY <1>2, <1>3, LimitsAssumption

\* The sessions of an address form a finite set when the table is finite.
LEMMA SessionsOfFinite ==
    ASSUME IsFiniteSet(DOMAIN sessions), NEW ip
    PROVE  IsFiniteSet(SessionsOf(ip)) /\ Cardinality(SessionsOf(ip)) \in Nat
<1>1. SessionsOf(ip) \in SUBSET DOMAIN sessions
  BY DEF SessionsOf
<1> QED
  BY <1>1, FS_Subset, FS_CardinalityType

\* An admission adds one session to the table and to its address, below the limits.
LEMMA AdmitStep ==
    ASSUME TypeOK, TableInv, NEW ip \in IPs, NEW id \in SessionIds, Admit(ip, id)
    PROVE  TableInv'
<1>1. /\ id \notin DOMAIN sessions
      /\ active_sessions' = active_sessions + 1
      /\ sessions_per_ip' = [sessions_per_ip EXCEPT ![ip] = @ + 1]
      /\ sessions' = [i \in DOMAIN sessions \cup {id} |->
                          IF i = id THEN NewSession(ip) ELSE sessions[i]]
  BY DEF Admit, RegisterSession
<1>2. active_sessions < max_sessions /\ sessions_per_ip[ip] < max_sessions_per_ip
  BY AcceptedBelowLimits DEF Admit
<1>3. sessions_per_ip \in [IPs -> Nat] /\ active_sessions \in Nat
  BY DEF TypeOK
<1>4. DOMAIN sessions' = DOMAIN sessions \cup {id}
  BY <1>1
<1>5. /\ IsFiniteSet(DOMAIN sessions')
      /\ Cardinality(DOMAIN sessions') = active_sessions + 1
  BY <1>1, <1>4, FS_AddElement DEF TableInv, CountersMatchTable
<1>6. ASSUME NEW a \in IPs
      PROVE  /\ sessions_per_ip'[a] = Cardinality(SessionsOf(a)')
             /\ Cardinality(SessionsOf(a)') <= max_sessions_per_ip
  <2>1. /\ IsFiniteSet(SessionsOf(a))
        /\ sessions_per_ip[a] = Cardinality(SessionsOf(a))
        /\ Cardinality(SessionsOf(a)) <= max_sessions_per_ip
    BY SessionsOfFinite DEF TableInv, CountersMatchTable, LimitsHold
  <2>2. CASE a = ip
    <3>1. SessionsOf(a)' = SessionsOf(a) \cup {id}
      BY <1>1, <2>2 DEF SessionsOf, NewSession
    <3>2. id \notin SessionsOf(a)
      BY <1>1 DEF SessionsOf
    <3>3. Cardinality(SessionsOf(a)') = Cardinality(SessionsOf(a)) + 1
      BY <2>1, <3>1, <3>2, FS_AddElement
    <3> QED BY <1>1, <1>2, <1>3, <2>1, <2>2, <3>3, LimitsAssumption
  <2>3. CASE a # ip
    <3>1. SessionsOf(a)' = SessionsOf(a)
      BY <1>1, <2>3 DEF SessionsOf, NewSession
    <3> QED BY <1>1, <1>3, <2>1, <2>3, <3>1
  <2> QED BY <2>2, <2>3
<1>7. Cardinality(DOMAIN sessions') <= max_sessions
  BY <1>2, <1>3, <1>5, LimitsAssumption
<1> QED
  BY <1>1, <1>5, <1>6, <1>7 DEF TableInv, CountersMatchTable, LimitsHold

\* Unregistering removes one session from the table and from its address, or, the
\* second time, nothing.
LEMMA EndStep ==
    ASSUME TypeOK, TableInv, NEW id \in SessionIds, End(id)
    PROVE  TableInv'
<1>1. CASE id \notin DOMAIN sessions
  BY <1>1 DEF End, UnregisterSession, TableInv, CountersMatchTable, LimitsHold, SessionsOf
<1>2. CASE id \in DOMAIN sessions
  <2> DEFINE ip == sessions[id].ip
  <2>1. /\ active_sessions' = Decrement(active_sessions)
        /\ sessions_per_ip' = [sessions_per_ip EXCEPT ![ip] = Decrement(@)]
        /\ sessions' = [i \in DOMAIN sessions \ {id} |-> sessions[i]]
    BY <1>2 DEF End, UnregisterSession
  <2>2. ip \in IPs /\ sessions_per_ip \in [IPs -> Nat] /\ active_sessions \in Nat
    BY <1>2 DEF TypeOK, Session
  <2>3. DOMAIN sessions' = DOMAIN sessions \ {id}
    BY <2>1
  <2>4. /\ IsFiniteSet(DOMAIN sessions')
        /\ Cardinality(DOMAIN sessions') = active_sessions - 1
    BY <1>2, <2>3, FS_RemoveElement DEF TableInv, CountersMatchTable
  <2>5. Cardinality(DOMAIN sessions') \in Nat
    BY <2>4, FS_CardinalityType
  <2>6. /\ active_sessions' = Cardinality(DOMAIN sessions')
        /\ Cardinality(DOMAIN sessions') <= max_sessions
    BY <2>1, <2>2, <2>4, <2>5, LimitsAssumption
       DEF Decrement, TableInv, CountersMatchTable, LimitsHold
  <2>7. ASSUME NEW a \in IPs
        PROVE  /\ sessions_per_ip'[a] = Cardinality(SessionsOf(a)')
               /\ Cardinality(SessionsOf(a)') <= max_sessions_per_ip
    <3>1. /\ IsFiniteSet(SessionsOf(a))
          /\ sessions_per_ip[a] = Cardinality(SessionsOf(a))
          /\ Cardinality(SessionsOf(a)) <= max_sessions_per_ip
      BY SessionsOfFinite DEF TableInv, CountersMatchTable, LimitsHold
    <3>2. CASE a = ip
      <4>1. SessionsOf(a)' = SessionsOf(a) \ {id}
        BY <2>1 DEF SessionsOf
      <4>2. id \in SessionsOf(a)
        BY <1>2, <3>2 DEF SessionsOf
      <4>3. /\ Cardinality(SessionsOf(a)') = Cardinality(SessionsOf(a)) - 1
            /\ Cardinality(SessionsOf(a)') \in Nat
        BY <3>1, <4>1, <4>2, FS_RemoveElement, FS_CardinalityType
      <4> HIDE DEF ip
      <4>4. sessions_per_ip'[a] = Decrement(sessions_per_ip[a])
        BY <2>1, <2>2, <3>2
      <4> QED BY <2>2, <3>1, <4>3, <4>4, LimitsAssumption DEF Decrement
    <3>3. CASE a # ip
      <4>1. SessionsOf(a)' = SessionsOf(a)
        BY <1>2, <2>1, <3>3 DEF SessionsOf
      <4> HIDE DEF ip
      <4>2. sessions_per_ip'[a] = sessions_per_ip[a]
        BY <2>1, <2>2, <3>3
      <4> QED BY <3>1, <4>1, <4>2
    <3> QED BY <3>2, <3>3
  <2> QED
    BY <2>4, <2>6, <2>7 DEF TableInv, CountersMatchTable, LimitsHold
<1> QED
  BY <1>1, <1>2

\* Counting a command or a file operation changes neither the set of sessions nor
\* the address of any.
LEMMA CountKeepsAddresses ==
    ASSUME TypeOK, NEW id \in SessionIds, CountCommand(id) \/ CountFileOp(id)
    PROVE  /\ DOMAIN sessions' = DOMAIN sessions
           /\ \A i \in DOMAIN sessions : sessions'[i].ip = sessions[i].ip
<1>1. CASE UNCHANGED sessions
  BY <1>1
<1>2. CASE id \in DOMAIN sessions /\ sessions' = [sessions EXCEPT ![id].commands = @ + 1]
  BY <1>2 DEF TypeOK, Session
<1>3. CASE id \in DOMAIN sessions /\ sessions' = [sessions EXCEPT ![id].file_ops = @ + 1]
  BY <1>3 DEF TypeOK, Session
<1> QED
  BY <1>1, <1>2, <1>3 DEF CountCommand, CountFileOp, RecordCommand, RecordFileOp

\* So it keeps the table consistent.
LEMMA CountStep ==
    ASSUME TypeOK, TableInv, NEW id \in SessionIds, CountCommand(id) \/ CountFileOp(id)
    PROVE  TableInv'
<1>1. UNCHANGED <<active_sessions, sessions_per_ip>>
  BY DEF CountCommand, CountFileOp
<1>2. DOMAIN sessions' = DOMAIN sessions /\ \A i \in DOMAIN sessions : sessions'[i].ip = sessions[i].ip
  BY CountKeepsAddresses
<1>3. \A ip : SessionsOf(ip)' = SessionsOf(ip)
  BY <1>2 DEF SessionsOf
<1> QED
  BY <1>1, <1>2, <1>3 DEF TableInv, CountersMatchTable, LimitsHold

\* Every step of the manager preserves TableInv.
LEMMA TableStep == TypeOK /\ TableInv /\ [smNext]_smVars => TableInv'
<1> SUFFICES ASSUME TypeOK, TableInv, [smNext]_smVars PROVE TableInv'
  OBVIOUS
<1>1. CASE UNCHANGED <<active_sessions, sessions_per_ip, sessions>>
  BY <1>1 DEF TableInv, CountersMatchTable, LimitsHold, SessionsOf
<1>2. ASSUME NEW ip \in IPs, NEW id \in SessionIds, Admit(ip, id) PROVE TableInv'
  BY <1>2, AdmitStep
<1>3. ASSUME NEW id \in SessionIds, End(id) PROVE TableInv'
  BY <1>3, EndStep
<1>4. ASSUME NEW id \in SessionIds, CountCommand(id) \/ CountFileOp(id) PROVE TableInv'
  BY <1>4, CountStep
<1>5. ASSUME NEW ip \in IPs, Reject(ip) PROVE TableInv'
  BY <1>1, <1>5 DEF Reject
<1>6. ASSUME NEW ip \in IPs, NEW duration \in BanDurations, Ban(ip, duration) PROVE TableInv'
  BY <1>1, <1>6 DEF Ban
<1>7. CASE Tick
  BY <1>1, <1>7 DEF Tick
<1>8. CASE UNCHANGED smVars
  BY <1>1, <1>8 DEF smVars
<1> QED
  BY <1>2, <1>3, <1>4, <1>5, <1>6, <1>7, <1>8 DEF smNext

\* TableInv holds initially.
LEMMA TableInit == smInit => TableInv
<1> SUFFICES ASSUME smInit PROVE TableInv
  OBVIOUS
<1>1. DOMAIN sessions = {} /\ active_sessions = 0 /\ \A ip \in IPs : sessions_per_ip[ip] = 0
  BY DEF smInit
<1>2. \A ip \in IPs : SessionsOf(ip) = {}
  BY <1>1 DEF SessionsOf
<1>3. IsFiniteSet(DOMAIN sessions) /\ Cardinality(DOMAIN sessions) = 0
  BY <1>1, FS_EmptySet
<1>4. \A ip \in IPs : Cardinality(SessionsOf(ip)) = 0
  BY <1>2, FS_EmptySet
<1> QED
  BY <1>1, <1>3, <1>4, LimitsAssumption DEF TableInv, CountersMatchTable, LimitsHold

\* active_sessions and sessions_per_ip always equal the sizes of the session table
\* they summarise, for any number of sessions and addresses.
THEOREM CountersCorrect == smSpec => []CountersMatchTable
<1>1. TableInv => CountersMatchTable
  BY DEF TableInv
<1> QED
  BY <1>1, TypeCorrect, TableInit, TableStep, PTL DEF smSpec

\* The table never holds more sessions than max_sessions, nor more of one address
\* than max_sessions_per_ip, for any limits.
THEOREM LimitsCorrect == smSpec => []LimitsHold
<1>1. TableInv => LimitsHold
  BY DEF TableInv
<1> QED
  BY <1>1, TypeCorrect, TableInit, TableStep, PTL DEF smSpec

-----------------------------------------------------------------------------
(* The history and the bans                                                *)

\* While an address has a ban on record its history is frozen, and every time in it
\* is at least a window older than the end of the ban.
BanCoversHistory ==
    (\A duration \in BanDurations : duration >= Minute) =>
        \A ip \in IPs : banned_ips[ip] > 0 =>
            \A i \in DOMAIN connection_history[ip] :
                connection_history[ip][i] + Minute <= banned_ips[ip]

\* A history is well formed: bounded, in time order, not in the future.
GoodHistory(h, t) ==
    /\ Len(h) <= max_connections_per_minute
    /\ \A i, j \in 1..Len(h) : i <= j => h[i] <= h[j]
    /\ \A i \in 1..Len(h) : h[i] <= t

\* The invariant that a run checks is GoodHistory of every address.
LEMMA HistoryUnfolded ==
    ASSUME TypeOK
    PROVE  HistoryOrderedAndBounded <=> \A ip \in IPs : GoodHistory(connection_history[ip], now)
<1>1. \A ip \in IPs : DOMAIN connection_history[ip] = 1..Len(connection_history[ip])
  BY DEF TypeOK
<1> QED
  BY <1>1 DEF HistoryOrderedAndBounded, GoodHistory

\* Pruning a well-formed history leaves a well-formed one; so does appending the
\* present time when there is room.
LEMMA RecentGood ==
    ASSUME TypeOK, NEW ip \in IPs, GoodHistory(connection_history[ip], now)
    PROVE  /\ GoodHistory(Recent(ip), now)
           /\ ~RateExceeded(ip) => GoodHistory(Append(Recent(ip), now), now)
<1> DEFINE h == connection_history[ip]
           k == Cardinality(Expired(ip))
           r == Recent(ip)
<1>1. h \in Seq(Nat) /\ Len(h) \in Nat /\ now \in Nat
  BY DEF TypeOK
<1>2. k \in Nat /\ k <= Len(h)
  BY ExpiredBounded
<1>3. /\ r \in Seq(Nat)
      /\ Len(r) = Len(h) - k
      /\ \A i \in 1..Len(r) : i + k \in 1..Len(h) /\ r[i] = h[i + k]
  BY RecentIsSuffix
<1>4. /\ Len(h) <= max_connections_per_minute
      /\ \A i, j \in 1..Len(h) : i <= j => h[i] <= h[j]
      /\ \A i \in 1..Len(h) : h[i] <= now
  BY DEF GoodHistory
<1>5. RateExceeded(ip) <=> Len(r) >= max_connections_per_minute
  BY DEF RateExceeded
<1> HIDE DEF h, k, r
<1>6. Len(r) \in Nat /\ \A i \in 1..Len(r) : r[i] \in Nat
  BY <1>3
<1>7. \A i, j \in 1..Len(r) : i <= j => r[i] <= r[j]
  <2> SUFFICES ASSUME NEW i \in 1..Len(r), NEW j \in 1..Len(r), i <= j PROVE r[i] <= r[j]
    OBVIOUS
  <2>1. i + k \in 1..Len(h) /\ j + k \in 1..Len(h) /\ i + k <= j + k
    BY <1>2, <1>3
  <2> QED BY <1>3, <1>4, <2>1
<1>8. \A i \in 1..Len(r) : r[i] <= now
  BY <1>3, <1>4
<1>9. Len(r) <= max_connections_per_minute
  BY <1>1, <1>2, <1>3, <1>4, LimitsAssumption
<1>10. GoodHistory(r, now)
  BY <1>7, <1>8, <1>9 DEF GoodHistory
<1>11. ASSUME Len(r) < max_connections_per_minute PROVE GoodHistory(Append(r, now), now)
  <2>1. /\ Len(Append(r, now)) = Len(r) + 1
        /\ \A i \in 1..Len(r) : Append(r, now)[i] = r[i]
        /\ Append(r, now)[Len(r) + 1] = now
    BY <1>1, <1>3
  <2>2. Len(Append(r, now)) <= max_connections_per_minute
    BY <1>6, <1>11, <2>1, LimitsAssumption
  <2>3. \A i \in 1..(Len(r) + 1) : Append(r, now)[i] <= now
    BY <1>1, <1>6, <1>8, <2>1
  <2>4. \A i, j \in 1..(Len(r) + 1) : i <= j => Append(r, now)[i] <= Append(r, now)[j]
    <3> SUFFICES ASSUME NEW i \in 1..(Len(r) + 1), NEW j \in 1..(Len(r) + 1), i <= j
                 PROVE  Append(r, now)[i] <= Append(r, now)[j]
      OBVIOUS
    <3>1. CASE j = Len(r) + 1
      BY <2>1, <2>3, <3>1
    <3>2. CASE j # Len(r) + 1
      <4>1. i \in 1..Len(r) /\ j \in 1..Len(r)
        BY <1>6, <3>2
      <4> QED BY <1>7, <2>1, <4>1
    <3> QED BY <3>1, <3>2
  <2> QED BY <2>1, <2>2, <2>3, <2>4 DEF GoodHistory
<1> QED
  BY <1>5, <1>6, <1>10, <1>11, LimitsAssumption DEF r

\* Inductive: every history is well formed, and covered by the ban on record.
HistoryInv == HistoryOrderedAndBounded /\ BanCoversHistory

\* can_accept keeps the histories well formed and covered: it appends only where it
\* also clears the ban, and bans only from the present on.
LEMMA CanAcceptHistory ==
    ASSUME TypeOK, TypeOK', HistoryInv, NEW ip \in IPs, NEW verdict, CanAccept(ip, verdict),
           UNCHANGED now
    PROVE  HistoryInv'
<1> USE DEF HistoryInv
<1>0. /\ connection_history \in [IPs -> Seq(Nat)] /\ connection_history' \in [IPs -> Seq(Nat)]
      /\ banned_ips \in [IPs -> Nat] /\ now \in Nat
  BY DEF TypeOK
<1>1. \A a \in IPs : GoodHistory(connection_history[a], now)
  BY HistoryUnfolded
<1>2. /\ GoodHistory(Recent(ip), now)
      /\ ~RateExceeded(ip) => GoodHistory(Append(Recent(ip), now), now)
  BY <1>1, RecentGood
<1>unfold. (\A a \in IPs : GoodHistory(connection_history'[a], now')) => HistoryOrderedAndBounded'
  <2>1. \A a \in IPs : DOMAIN connection_history'[a] = 1..Len(connection_history'[a])
    BY <1>0
  <2> QED BY <2>1 DEF HistoryOrderedAndBounded, GoodHistory
<1>3. CASE UNCHANGED <<banned_ips, connection_history>>
  BY <1>3 DEF HistoryOrderedAndBounded, BanCoversHistory
<1>4. CASE /\ banned_ips' = [banned_ips EXCEPT ![ip] = now + ban_duration]
           /\ connection_history' = [connection_history EXCEPT ![ip] = Recent(ip)]
  <2>1. \A a \in IPs : GoodHistory(connection_history'[a], now')
    BY <1>0, <1>1, <1>2, <1>4
  <2>2. HistoryOrderedAndBounded'
    BY <1>unfold, <2>1
  <2>3. BanCoversHistory'
    <3> SUFFICES ASSUME \A duration \in BanDurations : duration >= Minute,
                        NEW a \in IPs, banned_ips'[a] > 0,
                        NEW i \in DOMAIN connection_history'[a]
                 PROVE  connection_history'[a][i] + Minute <= banned_ips'[a]
      BY DEF BanCoversHistory, BanDurations
    <3>1. CASE a = ip
      <4>1. ban_duration >= Minute
        BY DEF BanDurations
      <4>2. connection_history'[a] = Recent(ip) /\ banned_ips'[a] = now + ban_duration
        BY <1>0, <1>4, <3>1
      <4>3. Recent(ip) \in Seq(Nat) /\ i \in 1..Len(Recent(ip))
        BY <4>2, RecentIsSuffix
      <4>4. Recent(ip)[i] <= now /\ Recent(ip)[i] \in Nat
        BY <1>2, <4>3 DEF GoodHistory
      <4> QED BY <1>0, <4>1, <4>2, <4>4, LimitsAssumption, TimeAssumption
    <3>2. CASE a # ip
      BY <1>0, <1>4, <3>2 DEF BanCoversHistory
    <3> QED BY <3>1, <3>2
  <2> QED BY <2>2, <2>3
<1>5. CASE CountAttempt(ip)
  <2>1. /\ ~RateExceeded(ip)
        /\ banned_ips' = [banned_ips EXCEPT ![ip] = 0]
        /\ connection_history' = [connection_history EXCEPT ![ip] = Append(Recent(ip), now)]
    BY <1>5 DEF CountAttempt
  <2>2. \A a \in IPs : GoodHistory(connection_history'[a], now')
    BY <1>0, <1>1, <1>2, <2>1
  <2>3. HistoryOrderedAndBounded'
    BY <1>unfold, <2>2
  <2>4. BanCoversHistory'
    <3> SUFFICES ASSUME \A duration \in BanDurations : duration >= Minute,
                        NEW a \in IPs, banned_ips'[a] > 0,
                        NEW i \in DOMAIN connection_history'[a]
                 PROVE  connection_history'[a][i] + Minute <= banned_ips'[a]
      BY DEF BanCoversHistory, BanDurations
    <3>1. a # ip
      BY <1>0, <2>1
    <3> QED BY <1>0, <2>1, <3>1 DEF BanCoversHistory
  <2> QED BY <2>3, <2>4
<1> QED
  BY <1>3, <1>4, <1>5 DEF CanAccept

\* Every step of the manager preserves HistoryInv.
LEMMA HistoryStep == TypeOK /\ TypeOK' /\ HistoryInv /\ [smNext]_smVars => HistoryInv'
<1> SUFFICES ASSUME TypeOK, TypeOK', HistoryInv, [smNext]_smVars PROVE HistoryInv'
  OBVIOUS
<1>0. /\ connection_history \in [IPs -> Seq(Nat)] /\ banned_ips \in [IPs -> Nat] /\ now \in Nat
  BY DEF TypeOK
<1>1. CASE UNCHANGED <<now, banned_ips, connection_history>>
  BY <1>1 DEF HistoryInv, HistoryOrderedAndBounded, BanCoversHistory
<1>2. ASSUME NEW ip \in IPs, Reject(ip) PROVE HistoryInv'
  BY <1>2, CanAcceptHistory DEF Reject
<1>3. ASSUME NEW ip \in IPs, NEW id \in SessionIds, Admit(ip, id) PROVE HistoryInv'
  BY <1>3, CanAcceptHistory DEF Admit
<1>4. ASSUME NEW ip \in IPs, NEW duration \in BanDurations, Ban(ip, duration) PROVE HistoryInv'
  <2>1. /\ banned_ips' = [banned_ips EXCEPT ![ip] = now + duration]
        /\ UNCHANGED <<now, connection_history>>
    BY <1>4 DEF Ban, BanIp
  <2>2. HistoryOrderedAndBounded'
    BY <2>1 DEF HistoryInv, HistoryOrderedAndBounded
  <2>3. duration \in Nat
    BY LimitsAssumption DEF BanDurations
  <2>4. BanCoversHistory'
    <3> SUFFICES ASSUME \A d \in BanDurations : d >= Minute,
                        NEW a \in IPs, banned_ips'[a] > 0,
                        NEW i \in DOMAIN connection_history[a]
                 PROVE  connection_history[a][i] + Minute <= banned_ips'[a]
      BY <2>1 DEF BanCoversHistory, BanDurations
    <3>1. CASE a = ip
      <4>1. connection_history[a][i] <= now
        BY DEF HistoryInv, HistoryOrderedAndBounded
      <4>2. connection_history[a][i] \in Nat
        BY <1>0
      <4>3. duration >= Minute /\ banned_ips'[a] = now + duration
        BY <1>0, <2>1, <3>1
      <4> QED BY <1>0, <2>3, <4>1, <4>2, <4>3, TimeAssumption
    <3>2. CASE a # ip
      BY <1>0, <2>1, <3>2 DEF HistoryInv, BanCoversHistory
    <3> QED BY <3>1, <3>2
  <2> QED BY <2>2, <2>4 DEF HistoryInv
<1>5. CASE Tick
  <2>1. now' = now + 1 /\ UNCHANGED <<banned_ips, connection_history>>
    BY <1>5 DEF Tick
  <2>2. \A ip \in IPs : GoodHistory(connection_history[ip], now)
    BY HistoryUnfolded DEF HistoryInv
  <2>3. \A ip \in IPs : \A i \in 1..Len(connection_history[ip]) :
           connection_history[ip][i] \in Nat
    BY <1>0
  <2>4. \A ip \in IPs : GoodHistory(connection_history[ip], now + 1)
    BY <1>0, <2>2, <2>3 DEF GoodHistory
  <2>5. \A ip \in IPs : DOMAIN connection_history[ip] = 1..Len(connection_history[ip])
    BY <1>0
  <2>6. HistoryOrderedAndBounded'
    BY <2>1, <2>4, <2>5 DEF HistoryOrderedAndBounded, GoodHistory
  <2> QED BY <2>1, <2>6 DEF HistoryInv, BanCoversHistory
<1>6. ASSUME NEW id \in SessionIds, End(id) \/ CountCommand(id) \/ CountFileOp(id)
      PROVE  HistoryInv'
  BY <1>1, <1>6 DEF End, CountCommand, CountFileOp
<1>7. CASE UNCHANGED smVars
  BY <1>1, <1>7 DEF smVars
<1> QED
  BY <1>2, <1>3, <1>4, <1>5, <1>6, <1>7 DEF smNext

\* HistoryInv holds initially.
LEMMA HistoryInit == smInit => HistoryInv
<1> SUFFICES ASSUME smInit PROVE HistoryInv
  OBVIOUS
<1>1. \A ip \in IPs : /\ connection_history[ip] = <<>>
                       /\ Len(connection_history[ip]) = 0
                       /\ DOMAIN connection_history[ip] = {}
                       /\ banned_ips[ip] = 0
  BY DEF smInit
<1> QED
  BY <1>1, LimitsAssumption DEF HistoryInv, HistoryOrderedAndBounded, BanCoversHistory

\* The rate limiter's memory of an address is bounded and in time order, so that
\* the prefix can_accept prunes is exactly the expired part.
THEOREM HistoryCorrect == smSpec => []HistoryOrderedAndBounded
<1>1. HistoryInv => HistoryOrderedAndBounded
  BY DEF HistoryInv
<1> QED
  BY <1>1, TypeCorrect, HistoryInit, HistoryStep, PTL DEF smSpec

\* When every ban lasts at least a window, an address whose ban has run out meets an
\* empty history: no attempt made during the ban is held against it.
THEOREM ServedBanCorrect == smSpec => []ServedBanIsCleanSlate
<1>1. TypeOK /\ HistoryInv => ServedBanIsCleanSlate
  <2> SUFFICES ASSUME TypeOK, HistoryInv, \A duration \in BanDurations : duration >= Minute,
                      NEW ip \in IPs, banned_ips[ip] > 0, ~Banned(ip)
               PROVE  Recent(ip) = <<>>
    BY DEF ServedBanIsCleanSlate
  <2> DEFINE h == connection_history[ip]
  <2>1. h \in Seq(Nat) /\ Len(h) \in Nat /\ now \in Nat /\ banned_ips[ip] \in Nat
    BY DEF TypeOK
  <2>2. now >= banned_ips[ip]
    BY <2>1 DEF Banned
  <2>3. \A i \in 1..Len(h) : h[i] + Minute <= banned_ips[ip] /\ h[i] \in Nat
    BY <2>1 DEF HistoryInv, BanCoversHistory
  <2>4. Expired(ip) = 1..Len(h)
    BY <2>1, <2>2, <2>3, TimeAssumption, SMTT(30) DEF Expired
  <2>5. Cardinality(Expired(ip)) = Len(h)
    BY <2>1, <2>4, FS_Interval, SMTT(30)
  <2>6. SubSeq(h, Len(h) + 1, Len(h)) = <<>>
    BY <2>1, SubSeqEmpty
  <2> QED BY <2>5, <2>6 DEF Recent
<1> QED
  BY <1>1, TypeCorrect, HistoryInit, HistoryStep, PTL DEF smSpec

-----------------------------------------------------------------------------
(* The rate at which sessions begin                                        *)

\* The sessions of a table that an address began at a time or later, and the
\* attempts that a history holds from that time on.
Began(table, ip, from) == {id \in DOMAIN table : table[id].ip = ip /\ table[id].start_time >= from}
Since(h, from) == {i \in 1..Len(h) : h[i] >= from}

\* Inductive, with StartRateHolds: as far back as the limiter's window reaches, the
\* history holds an attempt for every session.  Further back it may have forgotten
\* attempts whose sessions live on.
AttemptsCoverSessions ==
    \A ip \in IPs, from \in Nat : from + Minute > now =>
        Cardinality(Began(sessions, ip, from)) <= Cardinality(Since(connection_history[ip], from))

RateInv == AttemptsCoverSessions /\ StartRateHolds

\* A history holds finitely many attempts, at most its length.
LEMMA SinceFinite ==
    ASSUME NEW h \in Seq(Nat), NEW from
    PROVE  /\ IsFiniteSet(Since(h, from))
           /\ Cardinality(Since(h, from)) \in Nat
           /\ Cardinality(Since(h, from)) <= Len(h)
<1>1. Len(h) \in Nat
  OBVIOUS
<1>2. IsFiniteSet(1..Len(h)) /\ Cardinality(1..Len(h)) = Len(h)
  <2> DEFINE n == Len(h)
  <2>1. n \in Nat
    BY <1>1
  <2> HIDE DEF n
  <2>2. IsFiniteSet(1..n) /\ Cardinality(1..n) = n
    BY <2>1, FS_Interval
  <2> QED BY <2>2 DEF n
<1>3. Since(h, from) \in SUBSET (1..Len(h))
  BY DEF Since
<1> QED BY <1>2, <1>3, FS_Subset, FS_CardinalityType

\* Part of a finite table's sessions are finitely many, and no more.
LEMMA BeganFinite ==
    ASSUME NEW table, IsFiniteSet(DOMAIN table), NEW ip, NEW from
    PROVE  IsFiniteSet(Began(table, ip, from)) /\ Cardinality(Began(table, ip, from)) \in Nat
<1>1. Began(table, ip, from) \in SUBSET DOMAIN table
  BY DEF Began
<1> QED BY <1>1, FS_Subset, FS_CardinalityType

\* Pruning forgets nothing that is still in the window: what has expired is a prefix
\* of the history, so each later attempt moves down by its length.
LEMMA PruningKeepsWindow ==
    ASSUME TypeOK, NEW ip \in IPs, GoodHistory(connection_history[ip], now),
           NEW from \in Nat, from + Minute > now
    PROVE  Cardinality(Since(connection_history[ip], from)) <= Cardinality(Since(Recent(ip), from))
<1> DEFINE h == connection_history[ip]
           k == Cardinality(Expired(ip))
           r == Recent(ip)
<1>1. h \in Seq(Nat) /\ Len(h) \in Nat /\ now \in Nat /\ DOMAIN h = 1..Len(h)
  BY DEF TypeOK
<1>2. k \in Nat /\ k <= Len(h)
  BY ExpiredBounded
<1>3. /\ r \in Seq(Nat)
      /\ Len(r) = Len(h) - k
      /\ \A i \in 1..Len(r) : i + k \in 1..Len(h) /\ r[i] = h[i + k]
  BY RecentIsSuffix
<1>4. \A i, j \in 1..Len(h) : i <= j => h[i] <= h[j]
  BY DEF GoodHistory
<1>5. Expired(ip) = {i \in 1..Len(h) : now - h[i] >= Minute}
  BY <1>1 DEF Expired
<1>6. ASSUME NEW j \in Since(h, from) PROVE j - k \in Since(r, from)
  <2>1. j \in 1..Len(h) /\ h[j] >= from
    BY <1>6 DEF Since
  <2> HIDE DEF h
  <2>2. ASSUME NEW i \in Expired(ip) PROVE i \in 1..(j - 1)
    <3>1. i \in 1..Len(h) /\ h[i] \in Nat /\ h[j] \in Nat /\ now - h[i] >= Minute
      BY <1>1, <1>5, <2>1, <2>2
    <3>2. h[i] < h[j]
      BY <1>1, <2>1, <3>1, TimeAssumption
    <3>3. ~(j <= i)
      BY <1>4, <2>1, <3>1, <3>2
    <3> QED BY <1>1, <2>1, <3>1, <3>3
  <2>3. k <= j - 1
    <3>1. Expired(ip) \in SUBSET (1..(j - 1))
      BY <2>2
    <3>2. j - 1 \in Nat
      BY <1>1, <2>1
    <3>3. IsFiniteSet(1..(j - 1)) /\ Cardinality(1..(j - 1)) = j - 1
      BY <3>2, FS_Interval
    <3> QED BY <3>1, <3>3, FS_Subset, ZenonT(30)
  <2> HIDE DEF k, r
  <2>4. j - k \in 1..Len(r)
    BY <1>1, <1>2, <1>3, <2>1, <2>3
  <2>5. r[j - k] = h[(j - k) + k] /\ (j - k) + k = j
    BY <1>1, <1>2, <1>3, <2>1, <2>4
  <2> QED BY <2>1, <2>4, <2>5 DEF Since
<1> HIDE DEF h, k, r
<1>7. [j \in Since(h, from) |-> j - k] \in Injection(Since(h, from), Since(r, from))
  <2> DEFINE f == [j \in Since(h, from) |-> j - k]
  <2>1. f \in [Since(h, from) -> Since(r, from)]
    BY <1>6
  <2>2. \A i, j \in Since(h, from) : f[i] = f[j] => i = j
    BY <1>1, <1>2 DEF Since
  <2> QED BY <2>1, <2>2 DEF Injection, IsInjective
<1>8. IsFiniteSet(Since(r, from))
  BY <1>3, SinceFinite
<1>9. Cardinality(Since(h, from)) <= Cardinality(Since(r, from))
  BY <1>7, <1>8, FS_Injection
<1> QED BY <1>9 DEF h, r

\* An attempt at the present time counts in every window that reaches it.
LEMMA AttemptCounts ==
    ASSUME NEW h \in Seq(Nat), NEW t \in Nat, NEW from \in Nat
    PROVE  Cardinality(Since(Append(h, t), from))
             = Cardinality(Since(h, from)) + IF t >= from THEN 1 ELSE 0
<1>1. /\ Len(h) \in Nat
      /\ Len(Append(h, t)) = Len(h) + 1
      /\ \A i \in 1..Len(h) : Append(h, t)[i] = h[i]
      /\ Append(h, t)[Len(h) + 1] = t
  OBVIOUS
<1>2. 1..(Len(h) + 1) = (1..Len(h)) \cup {Len(h) + 1} /\ Len(h) + 1 \notin 1..Len(h)
  BY <1>1
<1>3. IsFiniteSet(Since(h, from)) /\ Cardinality(Since(h, from)) \in Nat
  BY SinceFinite
<1>4. CASE t >= from
  <2>1. Since(Append(h, t), from) = Since(h, from) \cup {Len(h) + 1}
    BY <1>1, <1>2, <1>4 DEF Since
  <2>2. Len(h) + 1 \notin Since(h, from)
    BY <1>2 DEF Since
  <2> QED BY <1>3, <1>4, <2>1, <2>2, FS_AddElement
<1>5. CASE ~(t >= from)
  <2>1. Since(Append(h, t), from) = Since(h, from)
    BY <1>1, <1>2, <1>5 DEF Since
  <2> QED BY <1>3, <1>5, <2>1
<1> QED BY <1>4, <1>5

\* So can_accept never takes an attempt out of a window that reaches the present.
LEMMA CanAcceptKeepsWindow ==
    ASSUME TypeOK, NEW ip \in IPs, GoodHistory(connection_history[ip], now),
           NEW verdict, CanAccept(ip, verdict),
           NEW a \in IPs, NEW from \in Nat, from + Minute > now
    PROVE  Cardinality(Since(connection_history[a], from))
             <= Cardinality(Since(connection_history'[a], from))
<1>0. connection_history \in [IPs -> Seq(Nat)] /\ now \in Nat
  BY DEF TypeOK
<1>1. Cardinality(Since(connection_history[ip], from)) <= Cardinality(Since(Recent(ip), from))
  BY PruningKeepsWindow
<1>2. Recent(ip) \in Seq(Nat)
  BY RecentIsSuffix
<1>3. /\ Cardinality(Since(connection_history[a], from)) \in Nat
      /\ Cardinality(Since(connection_history[ip], from)) \in Nat
      /\ Cardinality(Since(Recent(ip), from)) \in Nat
  BY <1>0, <1>2, SinceFinite
<1>4. CASE UNCHANGED connection_history
  BY <1>3, <1>4
<1>5. CASE connection_history' = [connection_history EXCEPT ![ip] = Recent(ip)]
  <2>1. CASE a = ip
    BY <1>0, <1>1, <1>5, <2>1
  <2>2. CASE a # ip
    BY <1>0, <1>3, <1>5, <2>2
  <2> QED BY <2>1, <2>2
<1>6. CASE connection_history' = [connection_history EXCEPT ![ip] = Append(Recent(ip), now)]
  <2>1. CASE a = ip
    <3>1. Cardinality(Since(Append(Recent(ip), now), from))
            = Cardinality(Since(Recent(ip), from)) + IF now >= from THEN 1 ELSE 0
      BY <1>0, <1>2, AttemptCounts
    <3>2. /\ Cardinality(Since(Recent(ip), from))
               <= Cardinality(Since(Append(Recent(ip), now), from))
          /\ Cardinality(Since(Append(Recent(ip), now), from)) \in Nat
      BY <1>3, <3>1
    <3> QED BY <1>0, <1>1, <1>3, <1>6, <2>1, <3>2
  <2>2. CASE a # ip
    BY <1>0, <1>3, <1>6, <2>2
  <2> QED BY <2>1, <2>2
<1> QED BY <1>4, <1>5, <1>6 DEF CanAccept, CountAttempt

\* An admission adds a session that began now and the attempt that let it in.
LEMMA AdmitKeepsCover ==
    ASSUME TypeOK, TableInv, HistoryInv, AttemptsCoverSessions,
           NEW ip \in IPs, NEW id \in SessionIds, Admit(ip, id)
    PROVE  AttemptsCoverSessions'
<1>0. /\ connection_history \in [IPs -> Seq(Nat)] /\ now \in Nat /\ UNCHANGED now
      /\ \A a \in IPs : GoodHistory(connection_history[a], now)
  BY HistoryUnfolded DEF TypeOK, HistoryInv, Admit
<1>1. /\ id \notin DOMAIN sessions
      /\ sessions' = [i \in DOMAIN sessions \cup {id} |->
                          IF i = id THEN NewSession(ip) ELSE sessions[i]]
  BY DEF Admit, RegisterSession
<1> SUFFICES ASSUME NEW a \in IPs, NEW from \in Nat, from + Minute > now
             PROVE  Cardinality(Began(sessions', a, from))
                      <= Cardinality(Since(connection_history'[a], from))
  BY <1>0 DEF AttemptsCoverSessions
<1>2. Cardinality(Began(sessions, a, from)) <= Cardinality(Since(connection_history[a], from))
  BY DEF AttemptsCoverSessions
<1>3. IsFiniteSet(Began(sessions, a, from)) /\ Cardinality(Began(sessions, a, from)) \in Nat
  BY BeganFinite DEF TableInv
<1>4. Cardinality(Since(connection_history[a], from)) \in Nat
  BY <1>0, SinceFinite
<1>5. CanAccept(ip, "accepted")
  BY DEF Admit
<1>6. TypeOK'
  BY TypeStep DEF smNext, Admit
<1>7. Cardinality(Since(connection_history'[a], from)) \in Nat
  BY <1>6, SinceFinite DEF TypeOK
<1>8. CASE a = ip /\ now >= from
  <2>1. Began(sessions', a, from) = Began(sessions, a, from) \cup {id}
    BY <1>0, <1>1, <1>8 DEF Began, NewSession
  <2>2. id \notin Began(sessions, a, from)
    BY <1>1 DEF Began
  <2>3. Cardinality(Began(sessions', a, from)) = Cardinality(Began(sessions, a, from)) + 1
    BY <1>3, <2>1, <2>2, FS_AddElement
  <2>4. connection_history' = [connection_history EXCEPT ![ip] = Append(Recent(ip), now)]
    BY <1>5 DEF CanAccept, CountAttempt
  <2>5. connection_history'[a] = Append(Recent(a), now) /\ Recent(a) \in Seq(Nat)
    BY <1>0, <1>8, <2>4, RecentIsSuffix
  <2>6. Cardinality(Since(connection_history'[a], from)) = Cardinality(Since(Recent(a), from)) + 1
    BY <1>0, <1>8, <2>5, AttemptCounts
  <2>7. Cardinality(Since(connection_history[a], from)) <= Cardinality(Since(Recent(a), from))
    BY <1>0, PruningKeepsWindow
  <2>8. Cardinality(Since(Recent(a), from)) \in Nat
    BY <2>5, SinceFinite
  <2> QED BY <1>2, <1>3, <1>4, <2>3, <2>6, <2>7, <2>8
<1>9. CASE ~(a = ip /\ now >= from)
  <2>1. Began(sessions', a, from) = Began(sessions, a, from)
    BY <1>0, <1>1, <1>9 DEF Began, NewSession
  <2>2. Cardinality(Since(connection_history[a], from))
          <= Cardinality(Since(connection_history'[a], from))
    BY <1>0, <1>5, CanAcceptKeepsWindow
  <2> QED BY <1>2, <1>3, <1>4, <1>7, <2>1, <2>2
<1> QED BY <1>8, <1>9

\* Other steps begin no session: who is in the table afterwards was in it, with the
\* same address and the same time.
LEMMA NothingBegins ==
    ASSUME TypeOK,
           \/ UNCHANGED sessions
           \/ \E id \in SessionIds : End(id) \/ CountCommand(id) \/ CountFileOp(id)
    PROVE  \A i \in DOMAIN sessions' :
               /\ i \in DOMAIN sessions
               /\ sessions'[i].ip = sessions[i].ip
               /\ sessions'[i].start_time = sessions[i].start_time
<1>1. CASE UNCHANGED sessions
  BY <1>1
<1>2. ASSUME NEW id \in SessionIds, End(id)
      PROVE  UNCHANGED sessions \/ sessions' = [i \in DOMAIN sessions \ {id} |-> sessions[i]]
  BY <1>2 DEF End, UnregisterSession
<1>3. ASSUME NEW id \in SessionIds, CountCommand(id) \/ CountFileOp(id)
      PROVE  \/ UNCHANGED sessions
             \/ /\ id \in DOMAIN sessions
                /\ \/ sessions' = [sessions EXCEPT ![id].commands = @ + 1]
                   \/ sessions' = [sessions EXCEPT ![id].file_ops = @ + 1]
  BY <1>3 DEF CountCommand, CountFileOp, RecordCommand, RecordFileOp
<1>4. ASSUME NEW id \in DOMAIN sessions, sessions' = [sessions EXCEPT ![id].commands = @ + 1]
      PROVE  \A i \in DOMAIN sessions' :
                 /\ i \in DOMAIN sessions
                 /\ sessions'[i].ip = sessions[i].ip
                 /\ sessions'[i].start_time = sessions[i].start_time
  BY <1>4 DEF TypeOK, Session
<1>5. ASSUME NEW id \in DOMAIN sessions, sessions' = [sessions EXCEPT ![id].file_ops = @ + 1]
      PROVE  \A i \in DOMAIN sessions' :
                 /\ i \in DOMAIN sessions
                 /\ sessions'[i].ip = sessions[i].ip
                 /\ sessions'[i].start_time = sessions[i].start_time
  BY <1>5 DEF TypeOK, Session
<1> QED BY <1>1, <1>2, <1>3, <1>4, <1>5

\* They keep the sessions covered, if they leave the attempts of the window alone.
LEMMA QuietKeepsCover ==
    ASSUME TypeOK, TypeOK', TableInv, AttemptsCoverSessions, now' \in Nat, now <= now',
           \A i \in DOMAIN sessions' :
               /\ i \in DOMAIN sessions
               /\ sessions'[i].ip = sessions[i].ip
               /\ sessions'[i].start_time = sessions[i].start_time,
           \A a \in IPs, from \in Nat : from + Minute > now =>
               Cardinality(Since(connection_history[a], from))
                 <= Cardinality(Since(connection_history'[a], from))
    PROVE  AttemptsCoverSessions'
<1>0. /\ connection_history \in [IPs -> Seq(Nat)] /\ now \in Nat
      /\ connection_history' \in [IPs -> Seq(Nat)]
  BY DEF TypeOK
<1> SUFFICES ASSUME NEW a \in IPs, NEW from \in Nat, from + Minute > now'
             PROVE  Cardinality(Began(sessions', a, from))
                      <= Cardinality(Since(connection_history'[a], from))
  BY DEF AttemptsCoverSessions
<1>1. from + Minute > now
  BY <1>0, TimeAssumption
<1>2. /\ Cardinality(Began(sessions, a, from)) <= Cardinality(Since(connection_history[a], from))
      /\ Cardinality(Since(connection_history[a], from))
           <= Cardinality(Since(connection_history'[a], from))
  BY <1>1 DEF AttemptsCoverSessions
<1>3. IsFiniteSet(Began(sessions, a, from)) /\ Cardinality(Began(sessions, a, from)) \in Nat
  BY BeganFinite DEF TableInv
<1>4. Began(sessions', a, from) \in SUBSET Began(sessions, a, from)
  BY DEF Began
<1>5. /\ Cardinality(Began(sessions', a, from)) <= Cardinality(Began(sessions, a, from))
      /\ Cardinality(Began(sessions', a, from)) \in Nat
  BY <1>3, <1>4, FS_Subset, FS_CardinalityType
<1>6. /\ Cardinality(Since(connection_history[a], from)) \in Nat
      /\ Cardinality(Since(connection_history'[a], from)) \in Nat
  BY <1>0, SinceFinite
<1> QED BY <1>2, <1>3, <1>5, <1>6

\* Every step keeps the sessions of the window covered by attempts on record.
LEMMA CoverStep ==
    TypeOK /\ TableInv /\ HistoryInv /\ AttemptsCoverSessions /\ [smNext]_smVars
        => AttemptsCoverSessions'
<1> SUFFICES ASSUME TypeOK, TableInv, HistoryInv, AttemptsCoverSessions, [smNext]_smVars
             PROVE  AttemptsCoverSessions'
  OBVIOUS
<1>0. /\ TypeOK' /\ connection_history \in [IPs -> Seq(Nat)] /\ now \in Nat /\ now' \in Nat
      /\ \A a \in IPs : GoodHistory(connection_history[a], now)
  BY TypeStep, HistoryUnfolded DEF TypeOK, HistoryInv
<1>1. \A a \in IPs, from \in Nat : Cardinality(Since(connection_history[a], from)) \in Nat
  BY <1>0, SinceFinite
<1>2. CASE UNCHANGED sessions /\ UNCHANGED connection_history /\ now <= now'
  BY <1>0, <1>1, <1>2, NothingBegins, QuietKeepsCover
<1>3. ASSUME NEW ip \in IPs, Reject(ip) PROVE AttemptsCoverSessions'
  <2>1. UNCHANGED sessions /\ UNCHANGED now
    BY <1>3 DEF Reject
  <2>2. PICK verdict \in Rejections : CanAccept(ip, verdict)
    BY <1>3 DEF Reject
  <2>3. ASSUME NEW a \in IPs, NEW from \in Nat, from + Minute > now
        PROVE  Cardinality(Since(connection_history[a], from))
                 <= Cardinality(Since(connection_history'[a], from))
    BY <1>0, <2>2, <2>3, CanAcceptKeepsWindow
  <2>4. now <= now'
    BY <1>0, <2>1
  <2> QED BY <1>0, <2>1, <2>3, <2>4, QuietKeepsCover
<1>4. ASSUME NEW ip \in IPs, NEW id \in SessionIds, Admit(ip, id) PROVE AttemptsCoverSessions'
  BY <1>4, AdmitKeepsCover
<1>5. ASSUME NEW id \in SessionIds, End(id) \/ CountCommand(id) \/ CountFileOp(id)
      PROVE  AttemptsCoverSessions'
  <2>1. UNCHANGED now /\ UNCHANGED connection_history
    BY <1>5 DEF End, CountCommand, CountFileOp
  <2>2. now <= now'
    BY <1>0, <2>1
  <2> QED BY <1>0, <1>1, <1>5, <2>1, <2>2, NothingBegins, QuietKeepsCover
<1>6. ASSUME NEW ip \in IPs, NEW duration \in BanDurations, Ban(ip, duration)
      PROVE  AttemptsCoverSessions'
  BY <1>0, <1>2, <1>6 DEF Ban
<1>7. CASE Tick
  BY <1>0, <1>2, <1>7 DEF Tick
<1>8. CASE UNCHANGED smVars
  BY <1>0, <1>2, <1>8 DEF smVars
<1> QED
  BY <1>3, <1>4, <1>5, <1>6, <1>7, <1>8 DEF smNext

\* The sessions of an address that began in the window from t.
InWindow(ip, t) == {id \in SessionsOf(ip) : sessions[id].start_time \in t..(t + Minute - 1)}

\* A window that reaches the present is bounded by the length of the history; one
\* that is over gets no new sessions.
LEMMA RateStep ==
    ASSUME TypeOK, TypeOK', TableInv, TableInv', HistoryInv', AttemptsCoverSessions',
           StartRateHolds, [smNext]_smVars
    PROVE  StartRateHolds'
<1> SUFFICES ASSUME NEW ip \in IPs, NEW t \in 0..MaxTime
             PROVE  Cardinality(InWindow(ip, t)') <= max_connections_per_minute
  BY DEF StartRateHolds, InWindow
<1>0. /\ now \in Nat /\ now' \in Nat /\ t \in Nat /\ connection_history' \in [IPs -> Seq(Nat)]
      /\ Len(connection_history'[ip]) <= max_connections_per_minute
      /\ Len(connection_history'[ip]) \in Nat
  BY TimeAssumption DEF TypeOK, HistoryInv, HistoryOrderedAndBounded
<1>1. IsFiniteSet(SessionsOf(ip)) /\ IsFiniteSet(InWindow(ip, t))
  <2>1. IsFiniteSet(SessionsOf(ip))
    BY SessionsOfFinite DEF TableInv
  <2>2. InWindow(ip, t) \in SUBSET SessionsOf(ip)
    BY DEF InWindow
  <2> QED BY <2>1, <2>2, FS_Subset
<1>2. ASSUME NEW id \in DOMAIN sessions' PROVE sessions'[id].start_time \in Nat
  BY DEF TypeOK, Session
<1>3. CASE t + Minute > now'
  <2>1. InWindow(ip, t)' \in SUBSET Began(sessions', ip, t)
    BY <1>0, <1>2, TimeAssumption DEF InWindow, SessionsOf, Began
  <2>2. IsFiniteSet(Began(sessions', ip, t)) /\ Cardinality(Began(sessions', ip, t)) \in Nat
    BY BeganFinite DEF TableInv
  <2>3. /\ Cardinality(InWindow(ip, t)') <= Cardinality(Began(sessions', ip, t))
        /\ Cardinality(InWindow(ip, t)') \in Nat
    BY <2>1, <2>2, FS_Subset, FS_CardinalityType
  <2>4. Cardinality(Began(sessions', ip, t)) <= Cardinality(Since(connection_history'[ip], t))
    BY <1>0, <1>3 DEF AttemptsCoverSessions
  <2>5. /\ Cardinality(Since(connection_history'[ip], t)) \in Nat
        /\ Cardinality(Since(connection_history'[ip], t)) <= Len(connection_history'[ip])
    BY <1>0, SinceFinite
  <2> QED BY <1>0, <2>2, <2>3, <2>4, <2>5, LimitsAssumption
<1>4. CASE t + Minute <= now'
  <2>1. InWindow(ip, t)' \in SUBSET InWindow(ip, t)
    <3>1. ASSUME NEW a \in IPs, NEW id \in SessionIds, Admit(a, id)
          PROVE  InWindow(ip, t)' \in SUBSET InWindow(ip, t)
      <4>1. /\ UNCHANGED now
            /\ sessions' = [i \in DOMAIN sessions \cup {id} |->
                                IF i = id THEN NewSession(a) ELSE sessions[i]]
        BY <3>1 DEF Admit, RegisterSession
      <4>2. id \notin InWindow(ip, t)'
        BY <1>0, <1>4, <4>1, TimeAssumption DEF InWindow, NewSession
      <4> QED BY <4>1, <4>2 DEF InWindow, SessionsOf
    <3>2. CASE \/ UNCHANGED sessions
               \/ \E id \in SessionIds : End(id) \/ CountCommand(id) \/ CountFileOp(id)
      BY <3>2, NothingBegins DEF InWindow, SessionsOf
    <3> QED BY <3>1, <3>2 DEF smNext, smVars, Reject, Ban, Tick
  <2>2. /\ Cardinality(InWindow(ip, t)') <= Cardinality(InWindow(ip, t))
        /\ IsFiniteSet(InWindow(ip, t)')
    BY <1>1, <2>1, FS_Subset
  <2>3. Cardinality(InWindow(ip, t)') \in Nat /\ Cardinality(InWindow(ip, t)) \in Nat
    BY <1>1, <2>2, FS_CardinalityType
  <2>4. Cardinality(InWindow(ip, t)) <= max_connections_per_minute
    BY DEF StartRateHolds, InWindow
  <2> QED BY <2>2, <2>3, <2>4, LimitsAssumption
<1> QED BY <1>0, <1>3, <1>4, TimeAssumption

\* An empty table has no sessions in any window.
LEMMA RateInit == smInit => RateInv
<1> SUFFICES ASSUME smInit PROVE RateInv
  OBVIOUS
<1>1. /\ \A ip, from : Began(sessions, ip, from) = {}
      /\ \A ip, t : InWindow(ip, t) = {}
  BY DEF smInit, Began, InWindow, SessionsOf
<1>2. \A ip \in IPs : connection_history[ip] \in Seq(Nat)
  BY DEF smInit
<1>3. \A ip \in IPs, from \in Nat : Cardinality(Since(connection_history[ip], from)) \in Nat
  BY <1>2, SinceFinite
<1>none. Cardinality({}) = 0
  BY FS_EmptySet
<1>4. AttemptsCoverSessions
  BY <1>1, <1>3, <1>none DEF AttemptsCoverSessions
<1>5. StartRateHolds
  <2>1. \A ip, t : Cardinality(InWindow(ip, t)) = 0
    BY <1>1, <1>none
  <2> QED BY <2>1, LimitsAssumption DEF StartRateHolds, InWindow
<1> QED BY <1>4, <1>5 DEF RateInv

\* No address ever has more sessions alive that began within one window than the
\* permitted rate, though the limiter prunes late, counts attempts that are then
\* refused, and forgets sessions that outlive the window.
THEOREM StartRateCorrect == smSpec => []StartRateHolds
<1>1. /\ TypeOK /\ TypeOK' /\ TableInv /\ TableInv' /\ HistoryInv /\ HistoryInv' /\ RateInv
      /\ [smNext]_smVars
      => RateInv'
  BY CoverStep, RateStep DEF RateInv
<1>2. RateInv => StartRateHolds
  BY DEF RateInv
<1> QED
  BY <1>1, <1>2, TypeCorrect, TableInit, TableStep, HistoryInit, HistoryStep, RateInit, PTL
     DEF smSpec

-----------------------------------------------------------------------------
(* The manager implements the gate                                         *)

\* The gate's state that the refinement mapping computes from the table.
LiveMap == [id \in DOMAIN sessions |-> sessions[id].ip]

\* The gate counts the sessions of an address as the table does.
LEMMA GateCounts == \A ip : Gate!LiveOf(ip) = SessionsOf(ip)
BY DEF Gate!LiveOf, SessionsOf

\* The instance counts as this module does.
LEMMA GateCardinality == \A S : Gate!Cardinality(S) = Cardinality(S)
BY DEF Gate!Cardinality, Cardinality

\* A step that keeps the set of sessions and the address of each is a stutter.
LEMMA GateStutter ==
    ASSUME DOMAIN sessions' = DOMAIN sessions,
           \A i \in DOMAIN sessions : sessions'[i].ip = sessions[i].ip
    PROVE  LiveMap' = LiveMap
BY DEF LiveMap

\* Every step of the manager is a step of the gate or a stutter.  TableInv is what
\* makes an admission an Enter: the counters that can_accept looks at are the sizes
\* the gate is about.
LEMMA GateStep ==
    TypeOK /\ TableInv /\ [smNext]_smVars => [Gate!Next]_LiveMap
<1> SUFFICES ASSUME TypeOK, TableInv, [smNext]_smVars PROVE Gate!Next \/ UNCHANGED LiveMap
  OBVIOUS
<1>1. CASE UNCHANGED sessions
  BY <1>1 DEF LiveMap
<1>2. ASSUME NEW ip \in IPs, NEW id \in SessionIds, Admit(ip, id) PROVE Gate!Enter(ip, id)
  <2>1. /\ id \notin DOMAIN sessions
        /\ sessions' = [i \in DOMAIN sessions \cup {id} |->
                            IF i = id THEN NewSession(ip) ELSE sessions[i]]
    BY <1>2 DEF Admit, RegisterSession
  <2>2. active_sessions < max_sessions /\ sessions_per_ip[ip] < max_sessions_per_ip
    BY <1>2, AcceptedBelowLimits DEF Admit
  <2>3. /\ Cardinality(DOMAIN LiveMap) < max_sessions
        /\ Cardinality(Gate!LiveOf(ip)) < max_sessions_per_ip
    BY <2>2, GateCounts DEF TableInv, CountersMatchTable, LiveMap
  <2>4. LiveMap' = [i \in DOMAIN LiveMap \cup {id} |-> IF i = id THEN ip ELSE LiveMap[i]]
    BY <2>1 DEF LiveMap, NewSession
  <2> QED BY <2>1, <2>3, <2>4, GateCardinality DEF Gate!Enter, LiveMap
<1>3. ASSUME NEW id \in SessionIds, End(id) PROVE Gate!Leave(id) \/ UNCHANGED LiveMap
  <2>1. CASE id \notin DOMAIN sessions
    <3>1. UNCHANGED sessions
      BY <1>3, <2>1 DEF End, UnregisterSession
    <3> QED BY <3>1 DEF LiveMap
  <2>2. CASE id \in DOMAIN sessions
    <3>1. sessions' = [i \in DOMAIN sessions \ {id} |-> sessions[i]]
      BY <1>3, <2>2 DEF End, UnregisterSession
    <3>2. LiveMap' = [i \in DOMAIN LiveMap \ {id} |-> LiveMap[i]]
      BY <3>1 DEF LiveMap
    <3> QED BY <2>2, <3>2 DEF Gate!Leave, LiveMap
  <2> QED BY <2>1, <2>2
<1>4. ASSUME NEW id \in SessionIds, CountCommand(id) \/ CountFileOp(id) PROVE UNCHANGED LiveMap
  BY <1>4, CountKeepsAddresses, GateStutter
<1>5. ASSUME NEW ip \in IPs, Reject(ip) PROVE UNCHANGED LiveMap
  BY <1>5 DEF Reject, LiveMap
<1>6. ASSUME NEW ip \in IPs, NEW duration \in BanDurations, Ban(ip, duration)
      PROVE  UNCHANGED LiveMap
  BY <1>6 DEF Ban, LiveMap
<1>7. CASE Tick
  BY <1>1, <1>7 DEF Tick
<1>8. CASE UNCHANGED smVars
  BY <1>1, <1>8 DEF smVars
<1> QED
  BY <1>2, <1>3, <1>4, <1>5, <1>6, <1>7, <1>8 DEF smNext, Gate!Next

\* Whatever the counters, the ban list and the history do, the session table only
\* changes by a session entering below both limits or by one leaving: the session
\* manager refines SessionGate.
THEOREM GateImplemented == smSpec => ImplementsGate
<1>1. smInit => Gate!Init
  BY DEF smInit, Gate!Init
<1>2. TypeOK /\ TableInv /\ [smNext]_smVars => [Gate!Next]_([id \in DOMAIN sessions |-> sessions[id].ip])
  BY GateStep DEF LiveMap
<1> QED
  BY <1>1, <1>2, TypeCorrect, TableInit, TableStep, PTL DEF smSpec, ImplementsGate, Gate!Spec
=============================================================================
