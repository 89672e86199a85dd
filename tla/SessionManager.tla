--------------------------- MODULE SessionManager ---------------------------
(***************************************************************************)
(* Admission control of the honeypot (services/session_manager.py): the    *)
(* session table, the two counters derived from it, the per-address        *)
(* connection history of the rate limiter and the ban list.                *)
(*                                                                         *)
(* Every method of the class is synchronous, and both protocol front ends  *)
(* call can_accept and register_session with no await in between, so a     *)
(* whole admission is one step of the event loop.                          *)
(***************************************************************************)
EXTENDS Naturals, Sequences, FiniteSets

CONSTANTS
    IPs,                         \* source addresses
    SessionIds,                  \* the uuid-derived ids, one per connection
    max_sessions,                \* global limit
    max_sessions_per_ip,         \* limit per source address
    max_connections_per_minute,  \* attempts per address that the limiter lets through
    ban_duration,                \* length of an automatic ban, and of ban_ip's default
    ManualBans,                  \* other lengths that ban_ip is called with
    Minute,                      \* the limiter's window: 60 s in the code
    MaxTime,                     \* bound: the clock stops here
    MaxOps                       \* bound: recorded commands / file operations per session

ASSUME LimitsAssumption ==
    /\ max_sessions \in Nat
    /\ max_sessions_per_ip \in Nat
    /\ max_connections_per_minute \in Nat
    /\ ban_duration \in Nat
    /\ ManualBans \subseteq Nat

ASSUME TimeAssumption == Minute \in Nat \ {0} /\ MaxTime \in Nat /\ MaxOps \in Nat

VARIABLES
    now,                \* time.time()
    active_sessions,    \* the counter the global limit is compared with
    sessions_per_ip,    \* the counters the per-address limit is compared with; 0: no entry
    sessions,           \* session id -> record, for the registered sessions
    banned_ips,         \* end of the ban of each address; 0: no entry
    connection_history  \* times of the attempts the limiter let through, oldest first

smVars == <<now, active_sessions, sessions_per_ip, sessions, banned_ips, connection_history>>

Session == [ip : IPs, start_time : Nat, commands : Nat, file_ops : Nat]

Rejections == {"ip_banned", "rate_limit_exceeded", "global_limit_reached", "per_ip_limit_reached"}

-----------------------------------------------------------------------------
(* can_accept                                                              *)

Banned(ip) == now < banned_ips[ip]

\* Times of the history that have left the window.  The history is in time
\* order, so these are a prefix and the code's list comprehension keeps the rest.
Expired(ip) == {i \in DOMAIN connection_history[ip] : now - connection_history[ip][i] >= Minute}

Recent(ip) ==
    SubSeq(connection_history[ip], Cardinality(Expired(ip)) + 1, Len(connection_history[ip]))

\* Mutant of RateExceeded: off by one.
RateExceededLate(ip) == Len(Recent(ip)) > max_connections_per_minute

RateExceeded(ip) == Len(Recent(ip)) >= max_connections_per_minute

\* The attempt is within the rate: it enters the history whatever the session
\* limits say next, and an expired ban is forgotten.
CountAttempt(ip) ==
    /\ ~Banned(ip)
    /\ ~RateExceeded(ip)
    /\ banned_ips' = [banned_ips EXCEPT ![ip] = 0]
    /\ connection_history' = [connection_history EXCEPT ![ip] = Append(Recent(ip), now)]

\* Mutant of LimitVerdict: off by one.
LimitVerdictLate(ip) ==
    IF active_sessions > max_sessions THEN "global_limit_reached"
    ELSE IF sessions_per_ip[ip] > max_sessions_per_ip THEN "per_ip_limit_reached"
    ELSE "accepted"

LimitVerdict(ip) ==
    IF active_sessions >= max_sessions THEN "global_limit_reached"
    ELSE IF sessions_per_ip[ip] >= max_sessions_per_ip THEN "per_ip_limit_reached"
    ELSE "accepted"

\* Mutant of CanAccept: the history is updated before the ban is looked at.
CanAcceptCountsBanned(ip, verdict) ==
    \/ /\ Banned(ip)
       /\ verdict = "ip_banned"
       /\ connection_history' = [connection_history EXCEPT ![ip] = Append(Recent(ip), now)]
       /\ UNCHANGED banned_ips
    \/ /\ ~Banned(ip)
       /\ RateExceeded(ip)
       /\ verdict = "rate_limit_exceeded"
       /\ banned_ips' = [banned_ips EXCEPT ![ip] = now + ban_duration]
       /\ connection_history' = [connection_history EXCEPT ![ip] = Recent(ip)]
    \/ /\ CountAttempt(ip)
       /\ verdict = LimitVerdict(ip)

\* The call can_accept(ip) returns verdict.
CanAccept(ip, verdict) ==
    \/ /\ Banned(ip)
       /\ verdict = "ip_banned"
       /\ UNCHANGED <<banned_ips, connection_history>>
    \/ /\ ~Banned(ip)
       /\ RateExceeded(ip)
       /\ verdict = "rate_limit_exceeded"
       /\ banned_ips' = [banned_ips EXCEPT ![ip] = now + ban_duration]
       /\ connection_history' = [connection_history EXCEPT ![ip] = Recent(ip)]
    \/ /\ CountAttempt(ip)
       /\ verdict = LimitVerdict(ip)

-----------------------------------------------------------------------------
(* register_session, unregister_session and the per-session counters       *)

NewSession(ip) == [ip |-> ip, start_time |-> now, commands |-> 0, file_ops |-> 0]

RegisterSession(ip, id) ==
    /\ active_sessions' = active_sessions + 1
    /\ sessions_per_ip' = [sessions_per_ip EXCEPT ![ip] = @ + 1]
    /\ sessions' = [i \in DOMAIN sessions \cup {id} |->
                        IF i = id THEN NewSession(ip) ELSE sessions[i]]

\* max(0, n - 1)
Decrement(n) == IF n > 0 THEN n - 1 ELSE 0

\* Mutant of UnregisterSession: the counter of the address is forgotten.
UnregisterGlobalOnly(id) ==
    IF id \notin DOMAIN sessions
    THEN UNCHANGED <<active_sessions, sessions_per_ip, sessions>>
    ELSE /\ active_sessions' = Decrement(active_sessions)
         /\ sessions' = [i \in DOMAIN sessions \ {id} |-> sessions[i]]
         /\ UNCHANGED sessions_per_ip

UnregisterSession(id) ==
    IF id \notin DOMAIN sessions
    THEN UNCHANGED <<active_sessions, sessions_per_ip, sessions>>
    ELSE /\ active_sessions' = Decrement(active_sessions)
         /\ sessions_per_ip' = [sessions_per_ip EXCEPT ![sessions[id].ip] = Decrement(@)]
         /\ sessions' = [i \in DOMAIN sessions \ {id} |-> sessions[i]]

RecordCommand(id) ==
    IF id \notin DOMAIN sessions
    THEN UNCHANGED sessions
    ELSE /\ sessions[id].commands < MaxOps
         /\ sessions' = [sessions EXCEPT ![id].commands = @ + 1]

RecordFileOp(id) ==
    IF id \notin DOMAIN sessions
    THEN UNCHANGED sessions
    ELSE /\ sessions[id].file_ops < MaxOps
         /\ sessions' = [sessions EXCEPT ![id].file_ops = @ + 1]

BanDurations == {ban_duration} \cup ManualBans

BanIp(ip, duration) == banned_ips' = [banned_ips EXCEPT ![ip] = now + duration]

-----------------------------------------------------------------------------
(* The steps a front end can make the manager take.                        *)

Reject(ip) ==
    /\ \E verdict \in Rejections : CanAccept(ip, verdict)
    /\ UNCHANGED <<now, active_sessions, sessions_per_ip, sessions>>

Admit(ip, id) ==
    /\ id \notin DOMAIN sessions          \* a fresh uuid
    /\ CanAccept(ip, "accepted")
    /\ RegisterSession(ip, id)
    /\ UNCHANGED now

End(id) ==
    /\ UnregisterSession(id)
    /\ UNCHANGED <<now, banned_ips, connection_history>>

CountCommand(id) ==
    /\ RecordCommand(id)
    /\ UNCHANGED <<now, active_sessions, sessions_per_ip, banned_ips, connection_history>>

CountFileOp(id) ==
    /\ RecordFileOp(id)
    /\ UNCHANGED <<now, active_sessions, sessions_per_ip, banned_ips, connection_history>>

Ban(ip, duration) ==
    /\ BanIp(ip, duration)
    /\ UNCHANGED <<now, active_sessions, sessions_per_ip, sessions, connection_history>>

Tick ==
    /\ now < MaxTime
    /\ now' = now + 1
    /\ UNCHANGED <<active_sessions, sessions_per_ip, sessions, banned_ips, connection_history>>

smInit ==
    /\ now = 0
    /\ active_sessions = 0
    /\ sessions_per_ip = [ip \in IPs |-> 0]
    /\ sessions = [id \in {} |-> 0]
    /\ banned_ips = [ip \in IPs |-> 0]
    /\ connection_history = [ip \in IPs |-> <<>>]

smNext ==
    \/ \E ip \in IPs : Reject(ip)
    \/ \E ip \in IPs, id \in SessionIds : Admit(ip, id)
    \/ \E id \in SessionIds : End(id) \/ CountCommand(id) \/ CountFileOp(id)
    \/ \E ip \in IPs, duration \in BanDurations : Ban(ip, duration)
    \/ Tick

smSpec == smInit /\ [][smNext]_smVars

-----------------------------------------------------------------------------
(* Properties                                                              *)

\* The types of the manager's fields: the table maps known ids to complete
\* records, counters never go negative, times are times.
TypeOK ==
    /\ now \in Nat
    /\ active_sessions \in Nat
    /\ sessions_per_ip \in [IPs -> Nat]
    /\ DOMAIN sessions \subseteq SessionIds
    /\ sessions \in [DOMAIN sessions -> Session]
    /\ banned_ips \in [IPs -> Nat]
    /\ connection_history \in [IPs -> Seq(Nat)]

SessionsOf(ip) == {id \in DOMAIN sessions : sessions[id].ip = ip}

\* The two counters that the limits are compared with are exactly the sizes of
\* the table they summarise, after any interleaving of registrations and of
\* (possibly repeated) unregistrations: register_session and unregister_session
\* keep three fields consistent with each other.
CountersMatchTable ==
    /\ active_sessions = Cardinality(DOMAIN sessions)
    /\ \A ip \in IPs : sessions_per_ip[ip] = Cardinality(SessionsOf(ip))

\* The configured limits bound the sessions that are really in the table, not
\* just the counters can_accept reads.
LimitsHold ==
    /\ Cardinality(DOMAIN sessions) <= max_sessions
    /\ \A ip \in IPs : Cardinality(SessionsOf(ip)) <= max_sessions_per_ip

\* can_accept prunes the history lazily and appends to it before the session
\* limits are looked at; still, of the sessions alive no more than the permitted
\* rate of one address began within any one window of a minute.
StartRateHolds ==
    \A ip \in IPs, t \in 0..MaxTime :
        Cardinality({id \in SessionsOf(ip) : sessions[id].start_time \in t..(t + Minute - 1)})
            <= max_connections_per_minute

\* Attempts made during a ban leave no trace: can_accept returns before it touches
\* the history.  So when every ban lasts at least the limiter's window, an address
\* whose ban has run out starts from an empty window and cannot be banned again by
\* what it did before.
ServedBanIsCleanSlate ==
    (\A duration \in BanDurations : duration >= Minute) =>
        \A ip \in IPs : banned_ips[ip] > 0 /\ ~Banned(ip) => Recent(ip) = <<>>

\* The history is in time order and never longer than the permitted rate: the
\* memory an address can occupy in connection_history is bounded.
HistoryOrderedAndBounded ==
    \A ip \in IPs :
        /\ Len(connection_history[ip]) <= max_connections_per_minute
        /\ \A i, j \in DOMAIN connection_history[ip] :
              i <= j => connection_history[ip][i] <= connection_history[ip][j]
        /\ \A i \in DOMAIN connection_history[ip] : connection_history[ip][i] <= now

Gate == INSTANCE SessionGate WITH live <- [id \in DOMAIN sessions |-> sessions[id].ip]

\* The manager implements the gate: whatever happens to the counters, the ban list
\* and the history, the session table only changes by a session entering where
\* there is room or by a session leaving, and no session changes its address.
ImplementsGate == Gate!Spec
=============================================================================
