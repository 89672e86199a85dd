---------------------------- MODULE Connections ----------------------------
(***************************************************************************)
(* The life of the emulated SSH and Telnet connections                     *)
(* (SSHServerFactory in core/server.py, services/telnet_handler.py) on top *)
(* of the session manager: admission, the filesystem each connection is    *)
(* given by CyanideServer.get_filesystem, the registration of its log      *)
(* mirror, and the ways it can end.                                        *)
(*                                                                         *)
(* An action is what the event loop runs between two awaits.  Connection c *)
(* registers under a session id made from its own uuid, so the id is c.    *)
(***************************************************************************)
EXTENDS SessionManager

CONSTANTS
    Users,             \* user names that log in; root is the name SSH starts with
    root,
    vfs_persistence,   \* ssh.vfs_persistence, TRUE by default
    vfs_cache_limit,   \* 100 in the code
    LogDirMayFail      \* whether creating a session's log directory or files may fail

ASSUME ConnectionsAssumption ==
    /\ root \in Users
    /\ vfs_persistence \in BOOLEAN
    /\ vfs_cache_limit \in Nat \ {0}
    /\ LogDirMayFail \in BOOLEAN

VARIABLES
    conn,          \* connection -> its handler's state
    vfs_cache,     \* the LRU cache of filesystems, least recently used first
    session_logs,  \* sessions whose events the logger mirrors
    stats_active   \* StatsManager.active_sessions

connVars == <<conn, vfs_cache, session_logs, stats_active>>
vars == <<smVars, connVars>>

Conns == SessionIds

None == "none"

\* Where a handler stands.  SSH: preauth, shell, closing (the server closed it and
\* connection_lost is still to come).  Telnet: new (the first sleep(0)), auth,
\* shell, blocked (in drain(), while the client does not read), ending (waiting for
\* the GeoIP task before the cleanup), crashed (the handler task died outside its
\* try block).
States == {"none", "new", "preauth", "auth", "shell", "blocked", "closing", "ending", "crashed",
           "closed"}

\* The handlers that have registered a session and not yet unregistered it.
Live == {"preauth", "auth", "shell", "blocked", "ending"}

Fs(c, ip, user) == [owner |-> c, ip |-> ip, user |-> user]

NoFs == Fs(None, None, None)

Idle == [state |-> "none", proto |-> None, ip |-> None, fs |-> NoFs]

-----------------------------------------------------------------------------
(* CyanideServer.get_filesystem                                            *)

\* Mutant of CacheHits: the key is the user name alone.
CacheHitsByUser(ip, user) == {i \in DOMAIN vfs_cache : vfs_cache[i].user = user}

CacheHits(ip, user) == {i \in DOMAIN vfs_cache : vfs_cache[i].ip = ip /\ vfs_cache[i].user = user}

Hit(ip, user) == vfs_persistence /\ CacheHits(ip, user) # {}

\* The filesystem returned: the cached one, with its creator's audit hook and
\* session id, or a new one.
FilesystemFor(c, ip, user) ==
    IF Hit(ip, user) THEN vfs_cache[CHOOSE i \in CacheHits(ip, user) : TRUE] ELSE Fs(c, ip, user)

Without(s, i) == SubSeq(s, 1, i - 1) \o SubSeq(s, i + 1, Len(s))

\* Mutant of CacheAfter: one filesystem too many before the oldest is evicted.
CacheAfterLate(c, ip, user) ==
    IF ~vfs_persistence THEN vfs_cache
    ELSE IF Hit(ip, user)
    THEN Append(Without(vfs_cache, CHOOSE i \in CacheHits(ip, user) : TRUE),
                FilesystemFor(c, ip, user))
    ELSE Append(IF Len(vfs_cache) > vfs_cache_limit THEN Tail(vfs_cache) ELSE vfs_cache,
                Fs(c, ip, user))

CacheAfter(c, ip, user) ==
    IF ~vfs_persistence THEN vfs_cache
    ELSE IF Hit(ip, user)
    THEN Append(Without(vfs_cache, CHOOSE i \in CacheHits(ip, user) : TRUE),
                FilesystemFor(c, ip, user))
    ELSE Append(IF Len(vfs_cache) >= vfs_cache_limit THEN Tail(vfs_cache) ELSE vfs_cache,
                Fs(c, ip, user))

-----------------------------------------------------------------------------
(* SSH                                                                     *)

\* connection_made when can_accept says no: the connection is closed, and
\* asyncssh calls connection_lost later.
SshRejected(c, ip) ==
    /\ conn[c].state = "none"
    /\ Reject(ip)
    /\ conn' = [conn EXCEPT ![c] = [@ EXCEPT !.state = "closing", !.proto = "ssh", !.ip = ip]]
    /\ UNCHANGED <<vfs_cache, session_logs, stats_active>>

\* Mutant of SshConnectionMade: the session is registered without asking can_accept.
SshConnectionUnchecked(c, ip) ==
    /\ conn[c].state = "none"
    /\ RegisterSession(ip, c)
    /\ conn' = [conn EXCEPT ![c] = [state |-> "preauth", proto |-> "ssh", ip |-> ip,
                                    fs |-> FilesystemFor(c, ip, root)]]
    /\ vfs_cache' = CacheAfter(c, ip, root)
    /\ session_logs' = session_logs \cup {c}
    /\ UNCHANGED <<now, banned_ips, connection_history, stats_active>>

\* connection_made when can_accept says yes.  A failure to create the log
\* directory is caught: the connection goes on without a mirror.
SshConnectionMade(c, ip) ==
    /\ conn[c].state = "none"
    /\ Admit(ip, c)
    /\ conn' = [conn EXCEPT ![c] = [state |-> "preauth", proto |-> "ssh", ip |-> ip,
                                    fs |-> FilesystemFor(c, ip, root)]]
    /\ vfs_cache' = CacheAfter(c, ip, root)
    /\ \/ session_logs' = session_logs \cup {c}
       \/ LogDirMayFail /\ UNCHANGED session_logs
    /\ UNCHANGED stats_active

\* validate_password succeeds; a failed attempt changes nothing modelled here.
SshLogin(c, user) ==
    /\ conn[c].state = "preauth"
    /\ conn' = [conn EXCEPT ![c].state = "shell",
                            ![c].fs = FilesystemFor(c, conn[c].ip, user)]
    /\ vfs_cache' = CacheAfter(c, conn[c].ip, user)
    /\ UNCHANGED <<smVars, session_logs, stats_active>>

\* Mutant of SshConnectionLost: the session is not unregistered.
SshLostKeepsSlot(c) ==
    /\ conn[c].proto = "ssh"
    /\ conn[c].state \in {"preauth", "shell", "closing"}
    /\ conn' = [conn EXCEPT ![c].state = "closed"]
    /\ UNCHANGED <<smVars, vfs_cache, session_logs, stats_active>>

\* connection_lost: the client left, the transport failed, or asyncssh gave up.
\* Only SSHSession.connection_lost would drop the log mirror, and asyncssh does
\* not know that object when a process_factory is used.
SshConnectionLost(c) ==
    /\ conn[c].proto = "ssh"
    /\ conn[c].state \in {"preauth", "shell", "closing"}
    /\ End(c)
    /\ conn' = [conn EXCEPT ![c].state = "closed"]
    /\ UNCHANGED <<vfs_cache, session_logs, stats_active>>

-----------------------------------------------------------------------------
(* Telnet                                                                  *)

TelnetConnected(c, ip) ==
    /\ conn[c].state = "none"
    /\ conn' = [conn EXCEPT ![c] = [@ EXCEPT !.state = "new", !.proto = "telnet", !.ip = ip]]
    /\ UNCHANGED <<smVars, vfs_cache, session_logs, stats_active>>

TelnetRejected(c) ==
    /\ conn[c].state = "new"
    /\ Reject(conn[c].ip)
    /\ conn' = [conn EXCEPT ![c].state = "closed"]
    /\ UNCHANGED <<vfs_cache, session_logs, stats_active>>

\* _prepare_session succeeds and handle_connection runs up to the login prompt.
TelnetPrepared(c) ==
    /\ conn[c].state = "new"
    /\ Admit(conn[c].ip, c)
    /\ conn' = [conn EXCEPT ![c].state = "auth",
                            ![c].fs = FilesystemFor(c, conn[c].ip, None)]
    /\ vfs_cache' = CacheAfter(c, conn[c].ip, None)
    /\ session_logs' = session_logs \cup {c}
    /\ stats_active' = stats_active + 1

\* mkdir or touch raises after register_session and outside the try block of
\* handle_connection: the task dies, and no cleanup runs.
TelnetPrepareCrashes(c) ==
    /\ LogDirMayFail
    /\ conn[c].state = "new"
    /\ Admit(conn[c].ip, c)
    /\ conn' = [conn EXCEPT ![c].state = "crashed"]
    /\ UNCHANGED <<vfs_cache, session_logs, stats_active>>

TelnetLogin(c, user) ==
    /\ conn[c].state = "auth"
    /\ conn' = [conn EXCEPT ![c].state = "shell",
                            ![c].fs = FilesystemFor(c, conn[c].ip, user)]
    /\ vfs_cache' = CacheAfter(c, conn[c].ip, user)
    /\ UNCHANGED <<smVars, session_logs, stats_active>>

\* A wrong password, a disconnection while a prompt is open, or bytes that do not
\* decode.
TelnetLoginFailed(c) ==
    /\ conn[c].state = "auth"
    /\ conn' = [conn EXCEPT ![c].state = "ending"]
    /\ UNCHANGED <<smVars, vfs_cache, session_logs, stats_active>>

\* exit, logout, or an exception out of the shell loop.
TelnetExit(c) ==
    /\ conn[c].state = "shell"
    /\ conn[c].proto = "telnet"
    /\ conn' = [conn EXCEPT ![c].state = "ending"]
    /\ UNCHANGED <<smVars, vfs_cache, session_logs, stats_active>>

\* A command whose output the client does not read: drain() waits, with no time limit.
TelnetOutputBlocks(c) ==
    /\ conn[c].state = "shell"
    /\ conn[c].proto = "telnet"
    /\ CountCommand(c)
    /\ conn' = [conn EXCEPT ![c].state = "blocked"]
    /\ UNCHANGED <<vfs_cache, session_logs, stats_active>>

\* The client reads on, and the loop goes round; or the connection breaks, and
\* drain() raises.
TelnetDrained(c) ==
    /\ conn[c].state = "blocked"
    /\ \E next \in {"shell", "ending"} : conn' = [conn EXCEPT ![c].state = next]
    /\ UNCHANGED <<smVars, vfs_cache, session_logs, stats_active>>

\* Mutant of TelnetTimeout: the shell loop goes on after the timeout.
TelnetTimeoutIgnored(c) ==
    /\ conn[c].state = "shell"
    /\ conn[c].proto = "telnet"
    /\ UNCHANGED vars

\* wait_for(readuntil, session_timeout) expires.  Only the shell loop has one.
TelnetTimeout(c) ==
    /\ conn[c].state = "shell"
    /\ conn[c].proto = "telnet"
    /\ conn' = [conn EXCEPT ![c].state = "ending"]
    /\ UNCHANGED <<smVars, vfs_cache, session_logs, stats_active>>

\* Mutant of TelnetCleanup: the log mirror stays registered.
TelnetCleanupKeepsLog(c) ==
    /\ conn[c].state = "ending"
    /\ End(c)
    /\ conn' = [conn EXCEPT ![c].state = "closed"]
    /\ stats_active' = Decrement(stats_active)
    /\ UNCHANGED <<vfs_cache, session_logs>>

\* _cleanup_session, in the finally block
TelnetCleanup(c) ==
    /\ conn[c].state = "ending"
    /\ End(c)
    /\ conn' = [conn EXCEPT ![c].state = "closed"]
    /\ session_logs' = session_logs \ {c}
    /\ stats_active' = Decrement(stats_active)
    /\ UNCHANGED vfs_cache

-----------------------------------------------------------------------------
(* Both shells                                                             *)

\* A command line: AnalyticsService.analyze_command counts it for the session.
ShellCommand(c) ==
    /\ conn[c].state = "shell"
    /\ CountCommand(c)
    /\ UNCHANGED connVars

\* A file operation of a command: FakeFilesystem counts it for the session it was
\* created for, which is not the session using it when the filesystem was cached.
ShellFileOp(c) ==
    /\ conn[c].state = "shell"
    /\ CountFileOp(conn[c].fs.owner)
    /\ UNCHANGED connVars

ClockTick == Tick /\ UNCHANGED connVars

Init ==
    /\ smInit
    /\ conn = [c \in Conns |-> Idle]
    /\ vfs_cache = <<>>
    /\ session_logs = {}
    /\ stats_active = 0

Next ==
    \/ \E c \in Conns, ip \in IPs :
          \/ SshRejected(c, ip)
          \/ SshConnectionMade(c, ip)
          \/ TelnetConnected(c, ip)
    \/ \E c \in Conns, user \in Users :
          \/ SshLogin(c, user)
          \/ TelnetLogin(c, user)
    \/ \E c \in Conns :
          \/ SshConnectionLost(c)
          \/ TelnetRejected(c)
          \/ TelnetPrepared(c)
          \/ TelnetPrepareCrashes(c)
          \/ TelnetLoginFailed(c)
          \/ TelnetExit(c)
          \/ TelnetOutputBlocks(c)
          \/ TelnetDrained(c)
          \/ TelnetTimeout(c)
          \/ TelnetCleanup(c)
          \/ ShellCommand(c)
          \/ ShellFileOp(c)
    \/ ClockTick

Spec == Init /\ [][Next]_vars

\* The server's own steps happen: the event loop resumes a ready task and wait_for
\* fires.  A client sends finitely many commands (MaxOps); nothing else is assumed of
\* clients, and nothing of asyncssh.
Fairness ==
    \A c \in Conns :
        /\ WF_vars(TelnetPrepared(c) \/ TelnetPrepareCrashes(c) \/ TelnetRejected(c))
        /\ WF_vars(TelnetTimeout(c))
        /\ WF_vars(TelnetCleanup(c))

FairSpec == Spec /\ Fairness

-----------------------------------------------------------------------------
(* Properties                                                              *)

FsRecord == [owner : Conns \cup {None}, ip : IPs \cup {None}, user : Users \cup {None}]

\* The types of the handlers' state, the cache and the registrations.
ConnTypeOK ==
    /\ conn \in [Conns -> [state : States, proto : {"ssh", "telnet", None},
                           ip : IPs \cup {None}, fs : FsRecord]]
    /\ vfs_cache \in Seq(FsRecord)
    /\ session_logs \subseteq Conns
    /\ stats_active \in Nat

HoldsSlot(c) == conn[c].state \in Live \cup {"crashed"}

\* A slot of the session table is held by exactly the connections that registered
\* and have not gone through connection_lost or _cleanup_session, and it is charged
\* to the address of that connection.  No order of rejections, logins, timeouts and
\* disconnections frees a slot twice or forgets one; the one way to lose a slot is
\* a Telnet handler that dies between register_session and its try block.
SlotsAccountedFor ==
    /\ DOMAIN sessions = {c \in Conns : HoldsSlot(c)}
    /\ \A c \in DOMAIN sessions : sessions[c].ip = conn[c].ip

\* What a Telnet connection holds it holds together: its slot in the session table,
\* its log mirror and its unit of the active-session statistic, from _prepare_session
\* to _cleanup_session, whichever way it ends.
TelnetHoldsAllOrNothing ==
    LET telnet == {c \in Conns : conn[c].proto = "telnet"}
        inside == {c \in telnet : conn[c].state \in Live}
    IN /\ session_logs \cap telnet = inside
       /\ stats_active = Cardinality(inside)

\* A cached filesystem is only ever handed to a connection from the address
\* that it was made for: visitors from different addresses
\* never see each other's files, through any number of evictions and cache hits.
FilesystemOfOwnAddress ==
    /\ \A c \in Conns : conn[c].fs # NoFs => conn[c].fs.ip = conn[c].ip
    /\ \A i \in DOMAIN vfs_cache : conn[vfs_cache[i].owner].ip = vfs_cache[i].ip

\* The cache never exceeds its limit and holds one filesystem per address and user,
\* so that a later visit cannot find an older copy behind a newer one.
VfsCacheSound ==
    /\ Len(vfs_cache) <= vfs_cache_limit
    /\ \A i, j \in DOMAIN vfs_cache :
          vfs_cache[i].ip = vfs_cache[j].ip /\ vfs_cache[i].user = vfs_cache[j].user => i = j

\* The connections drive the session manager only through its own steps, so what
\* SessionManager guarantees holds for them.
ImplementsSessionManager == smSpec

\* A Telnet shell whose client sends no more ends and gives its slot back, however
\* the client disappears: the read of the shell loop is bounded by session_timeout.
\* The exception is a client that stays connected and leaves output unread.
TelnetShellsEnd ==
    \A c \in Conns :
        conn[c].proto = "telnet" /\ conn[c].state = "shell"
            ~> c \notin DOMAIN sessions \/ conn[c].state = "blocked"

-----------------------------------------------------------------------------
(* Claims of the documentation that the code does not keep                 *)

\* docs/developer-reference/core/core.md: the state of a session, its VFS overlay,
\* is strictly bound to this session.
FilesystemBoundToSession ==
    \A c \in Conns : conn[c].state = "shell" => conn[c].fs.owner = c
=============================================================================
