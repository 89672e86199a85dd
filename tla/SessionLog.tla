----------------------------- MODULE SessionLog -----------------------------
(***************************************************************************)
(* The event log (logger.py) and the sessions that write it: log_event     *)
(* puts every event into a global file and, while its session is           *)
(* registered, into the session's own audit.json and ml_analysis.json; it  *)
(* remembers the address of every session for the events that do not name  *)
(* one.  SSH connections (core/server.py) and Telnet sessions              *)
(* (services/telnet_handler.py) register themselves, and Telnet sessions   *)
(* unregister, while their tasks go on logging.                            *)
(*                                                                         *)
(* journal numbers the events; the global files hold it in parts, chosen   *)
(* by the event's name.  A client stands for its connection and address.   *)
(***************************************************************************)
EXTENDS Naturals, Sequences, Functions

CONSTANTS
    SshClients,
    TelnetClients,
    NoClient,       \* no address
    system,         \* the session "system", of events that belong to none
    MaxEntries      \* bound: events logged

Clients == SshClients \cup TelnetClients
SessionNames == Clients \cup {system}

ASSUME SessionLogAssumption ==
    /\ SshClients \cap TelnetClients = {}
    /\ {NoClient, system} \cap Clients = {}
    /\ MaxEntries \in Nat

VARIABLES
    session_logs,   \* the sessions whose files are registered
    session_to_ip,  \* session -> the address remembered for it
    journal,        \* the events: session, event, src_ip, and whom it is about
    audit,          \* session -> numbers of the events in its audit.json
    ml_analysis,    \* session -> numbers of those in its ml_analysis.json
    client          \* client -> its stage, and its shells that have not ended

slVars == <<session_logs, session_to_ip, journal, audit, ml_analysis, client>>

-----------------------------------------------------------------------------
(* The logger                                                              *)

\* register_session_log; the address is remembered whatever is known already.
Registered(c) == session_logs' = session_logs \cup {c}
Remembered(c) == [session_to_ip EXCEPT ![c] = c]

\* log_event: src_ip as the caller gives it, `ips` what is remembered by now and
\* `logs` who is registered.
LogEvent(session, event, src_ip, about, ips, logs) ==
    LET ip == IF src_ip = NoClient THEN ips[session] ELSE src_ip
        Mirrored(files) ==
            IF session \in logs
            THEN [files EXCEPT ![session] = Append(@, Len(journal) + 1)]
            ELSE files
    IN  /\ Len(journal) < MaxEntries
        /\ journal' = Append(journal, [session |-> session, event |-> event,
                                       src_ip |-> ip, about |-> about])
        /\ session_to_ip' = IF ips[session] = NoClient THEN [ips EXCEPT ![session] = ip] ELSE ips
        /\ audit' = Mirrored(audit)
        /\ ml_analysis' = IF event = "ml" THEN Mirrored(ml_analysis) ELSE ml_analysis

\* An event of c's own session.
LogOwn(c, event, src_ip) == LogEvent(c, event, src_ip, c, session_to_ip, session_logs)

-----------------------------------------------------------------------------
(* SSH                                                                     *)

\* connection_made: the directory that _init_session_logging makes may fail, and the
\* connection goes on without.
SshAccept(c) ==
    /\ c \in SshClients /\ client[c].stage = "new"
    /\ client' = [client EXCEPT ![c].stage = "connected"]
    /\ \/ Registered(c) /\ session_to_ip' = Remembered(c)
       \/ UNCHANGED <<session_logs, session_to_ip>>
    /\ UNCHANGED <<journal, audit, ml_analysis>>

\* A channel's handler: _ensure_tty_log registers the session again and logs
\* session.start, without an address.
SshShellBegins(c) ==
    /\ c \in SshClients /\ client[c].stage = "connected"
    /\ Registered(c)
    /\ LogEvent(c, "session.start", NoClient, c, Remembered(c), session_logs')
    /\ client' = [client EXCEPT ![c].shells = @ + 1]

\* A shell's input is over, as a rule after the connection is: session_ended.
SshShellEnds(c) ==
    /\ client[c].shells > 0
    /\ LogOwn(c, "session.end", c)
    /\ client' = [client EXCEPT ![c].shells = @ - 1]
    /\ UNCHANGED session_logs

\* connection_lost logs the connection's session.end.  Nothing unregisters.
SshLost(c) ==
    /\ c \in SshClients /\ client[c].stage = "connected"
    /\ LogOwn(c, "session.end", c)
    /\ client' = [client EXCEPT ![c].stage = "closed"]
    /\ UNCHANGED session_logs

-----------------------------------------------------------------------------
(* Telnet                                                                  *)

TelnetAccept(c) ==
    /\ c \in TelnetClients /\ client[c].stage = "new"
    /\ Registered(c)
    /\ LogEvent(c, "session.start", c, c, Remembered(c), session_logs')
    /\ client' = [client EXCEPT ![c].stage = "connected"]

\* handle_connection catches an error: an event of the session "system" that names
\* the client, then one of its own that does not.
TelnetError(c) ==
    /\ c \in TelnetClients /\ client[c].stage = "connected"
    /\ LogEvent(system, "telnet_error", c, c, session_to_ip, session_logs)
    /\ client' = [client EXCEPT ![c].stage = "failed"]
    /\ UNCHANGED session_logs

TelnetException(c) ==
    /\ client[c].stage = "failed"
    /\ LogOwn(c, "telnet_exception", NoClient)
    /\ client' = [client EXCEPT ![c].stage = "ended"]
    /\ UNCHANGED session_logs

\* Mutant of TelnetCleanup: the session is unregistered first.
TelnetCleanupUnregistersFirst(c) ==
    /\ c \in TelnetClients /\ client[c].stage \in {"connected", "ended"}
    /\ session_logs' = session_logs \ {c}
    /\ LogEvent(c, "session.end", c, c, session_to_ip, session_logs')
    /\ client' = [client EXCEPT ![c].stage = "closed"]

\* _cleanup_session
TelnetCleanup(c) ==
    /\ c \in TelnetClients /\ client[c].stage \in {"connected", "ended"}
    /\ LogOwn(c, "session.end", c)
    /\ session_logs' = session_logs \ {c}
    /\ client' = [client EXCEPT ![c].stage = "closed"]

-----------------------------------------------------------------------------
(* Both                                                                    *)

\* The limits refuse the client: an event of "system" that names it (an ip_banned
\* before it names it as well).
ConnectionRejected(c) ==
    /\ client[c].stage = "new"
    /\ LogEvent(system, "connection_rejected", c, c, session_to_ip, session_logs)
    /\ client' = [client EXCEPT ![c].stage = "rejected"]
    /\ UNCHANGED session_logs

\* Anything else the session logs: some events name the address (auth, tty, ml, the
\* session.start of a Telnet shell), others do not (auth.publickey, errors).  Tasks
\* that save and scan files or run commands go on after the connection.
SessionEvent(c) ==
    /\ client[c].stage \in {"connected", "closed"}
    /\ \/ \E src_ip \in {c, NoClient} : LogOwn(c, "other", src_ip)
       \/ LogOwn(c, "ml", c)
    /\ UNCHANGED <<session_logs, client>>

\* Servers, pool and metrics log events of "system" that are about no client.
SystemEvent ==
    /\ LogEvent(system, "service", NoClient, NoClient, session_to_ip, session_logs)
    /\ UNCHANGED <<session_logs, client>>

SessionLogInit ==
    /\ session_logs = {}
    /\ session_to_ip = [s \in SessionNames |-> NoClient]
    /\ journal = <<>>
    /\ audit = [c \in Clients |-> <<>>]
    /\ ml_analysis = [c \in Clients |-> <<>>]
    /\ client = [c \in Clients |-> [stage |-> "new", shells |-> 0]]

SessionLogNext ==
    \/ \E c \in Clients :
          \/ SshAccept(c) \/ SshShellBegins(c) \/ SshShellEnds(c) \/ SshLost(c)
          \/ TelnetAccept(c) \/ TelnetError(c) \/ TelnetException(c) \/ TelnetCleanup(c)
          \/ ConnectionRejected(c) \/ SessionEvent(c)
    \/ SystemEvent

SessionLogSpec == SessionLogInit /\ [][SessionLogNext]_slVars

-----------------------------------------------------------------------------
(* Properties                                                              *)

Happened(c, event, i) == \E j \in 1..i : journal[j].session = c /\ journal[j].event = event

\* Whether event i of session c belongs into its audit: up to session.end for
\* Telnet; for SSH always, or, if the session was not registered when it connected,
\* from session.start on.
Belongs(c, i) ==
    /\ journal[i].session = c
    /\ IF c \in TelnetClients
       THEN ~Happened(c, "session.end", i - 1)
       ELSE \/ Happened(c, "session.start", i)
            \/ audit[c] # <<>> /\ journal[audit[c][1]].event # "session.start"

\* The numbers of S, from the lowest to the highest.
Lists(s, S) == Range(s) = S /\ \A j, k \in DOMAIN s : j < k => s[j] < s[k]

\* A session's own files are what the global ones say about the session: the same
\* events in the same order, from the beginning to the end, and each carries its
\* client's address, also those whose caller did not give it.
AuditIsTheSession ==
    \A c \in Clients :
        /\ Lists(audit[c], {i \in DOMAIN journal : Belongs(c, i)})
        /\ Lists(ml_analysis[c], {i \in DOMAIN journal : Belongs(c, i) /\ journal[i].event = "ml"})
        /\ \A k \in DOMAIN audit[c] : journal[audit[c][k]].src_ip = c

-----------------------------------------------------------------------------
(* A claim of the documentation that the code does not keep                *)

\* docs/user-reference/Integrations.md: src_ip of an exported event is "the
\* attacker's source IP".
EventsNameTheirClient ==
    \A i \in DOMAIN journal :
        journal[i].src_ip # NoClient => journal[i].src_ip = journal[i].about
=============================================================================
