# A TLA+ model of the Cyanide honeypot

Cyanide is an SSH/Telnet/SMTP honeypot written in Python on one asyncio event
loop. It answers attackers with an emulated shell on a virtual filesystem, or
hands them to a backend VM, records what they do, and keeps itself alive under
the load they cause. This directory models the parts of it that can go wrong
between two awaits, or between two threads: admission control, the life of
connections, the shell and its prompts, the layered virtual filesystem, file
transfers and the quarantine they fill, the VM pool with both proxies, and what
records all of it: the event log, the log writer, output plugins and IOC reports,
up to the stop of the server. All paths below are relative to the repository
root; the code is in `src/cyanide/`.

## Inventory

| component | state | operations | interacts with | what is hard |
|---|---|---|---|---|
| Session manager `services/session_manager.py` | session table, two counters, ban list, connection history | can_accept, register, unregister, record_*, ban_ip | called by SSH, Telnet, analytics, filesystem | counters derived from the table; lazily pruned window; order of the tests |
| SSH connections `core/server.py` (SSHServerFactory, SSHSession) | connection id, filesystem, log mirror | connection_made, auth, session, connection_lost | session manager, filesystem cache, logger; driven by asyncssh callbacks | callbacks in any order; connection_lost after a rejection |
| Telnet handler `services/telnet_handler.py` | one coroutine per connection | prepare, login, shell loop, cleanup | as SSH, and the statistics | exceptions between registration and `try`; time limit only in the shell loop |
| Filesystem cache `CyanideServer.get_filesystem` | LRU of filesystems by (address, user) | get | both front ends | shared objects, eviction while in use |
| Libvirt pool `core/libvirt_pool.py` | VM states, leases, rebuild tasks, one lock | reserve, release, report_failure, rebuild, health check, recycle, start, stop | TCP proxy, hypervisor | lock held across awaits, tasks that outlive their cause |
| Simple pool, pool wrapper `core/vm_pool.py` | failure times of static targets | reserve, report_failure (which nothing calls) | proxies | - |
| TCP proxy `network/tcp_proxy.py` | one coroutine per connection | reserve, connect, bridge, release | pool | failure between two of these |
| SSH proxy `network/ssh_proxy.py` | backend connection and lease per session | connect, forward, lose | pool | a lease that arrives after the connection is lost |
| Log writer `core/async_logger.py` | queue, worker task, stop event | log, worker, stop | logger, server | cancellation, time limits, `task_done` accounting |
| Start and stop `core/server.py`, `main.py` | servers, background tasks | start, stop, _close_server | everything | one step of several failing; process exit cancels everything at once |
| Event log `logger.py` | registered sessions, their addresses, files | log_event, register, unregister | everything logs through it | events before, between and after registration; remembered addresses |
| Output plugins `output/base.py` and the sinks | a bounded queue, a worker thread and its batch | emit, worker loop, flush, stop | event log | three threads: what is tested may be stale when used |
| Shell emulator `core/emulator.py` and the line editor of SSHSession `core/server.py` | buffer, lock, prompt callback, user | data_received, execute: chains, pipes, scripts, jobs | filesystem, commands | a task per chunk; two line ends; a prompt that any line answers, a job's too; which part of a chain runs |
| Virtual filesystem `vfs/engine.py`, `vfs/profile_loader.py`, `vfs/dynamic.py` | memory overlay, deleted paths, profile, history per address | read, write, mkdir, remove, copy, move | shell, SFTP/SCP/rsync | overlay over profile over static files; deletion and re-creation; rows whose directory has no row |
| SFTP `vfs/sftp.py` | open handles with their buffers | open, read, write, close, remove, rename | filesystem, quarantine | requests that overtake each other, limits on size and number |
| SCP `vfs/scp.py` | sink: directory stack; source: what is being sent | both directions | filesystem, quarantine | headers in any order; acknowledgements that come late |
| rsync `vfs/rsync.py` | position in the handshake and list | handle | log | ends whatever the client does |
| Quarantine `services/quarantine.py`, `core/vt_scanner.py` | files in a directory, scans | save_file, scan | SFTP, SCP, wget, analytics | quota tested before an await; one name for two uploads |
| Statistics, analytics, GeoIP | counters, caches | on_*, analyze_* | everything | - |
| IOC reports `services/ioc_reporter.py`, bots in `output/telegram.py`, `slack.py`, `discord.py` | IOCs, two report files; offset of the bot | generate_reports; poll, answer | analytics, quarantine | files rewritten in place while another thread reads them; restarts |
| SMTP, configuration, emulated commands, ML | - | parsing, formatting, classification | - | data, not control |

What makes them correct: the limits bound the sessions that exist and not only
a counter; whatever a connection takes it gives back, once, whichever way it
ends; visitors of different addresses never share files; a VM belongs to one
client at a time and is cleaned between two clients; no lock is kept forever;
lines are executed in the order they were typed and a password authorises one
command; uploads keep to their limits as far as the tests can enforce them; data
passes a proxy in order and without holes; events and log entries are stored in order and
none vanishes unnoticed; whatever is begun ends, stop() included.

## Modules

| module | models | state | actions |
|---|---|---|---|
| `SessionGate` | what admission control promises (abstract) | `live`: id -> address | `Enter`, `Leave` |
| `SessionManager` | `SessionManager` | its six fields, under their names | `Reject`, `Admit` (can_accept, then register_session: both callers do this without an await), `End`, `CountCommand`, `CountFileOp`, `Ban`, `Tick` |
| `Connections` (extends it) | `SSHServerFactory`, `TelnetHandler`, `get_filesystem` | `conn` (a handler's position, address, filesystem), `vfs_cache`, `session_logs`, `stats_active` | one per stretch of code between two awaits or per asyncssh callback |
| `LibvirtPool` | `LibvirtPool` | VM states, leases, rebuild tasks in their two phases, the health check's lock and position, `dirty` (what clients left, before the start too) | reserve, release, report_failure, the two phases of a rebuild, the health check in four steps, recycling, stop in two steps |
| `PoolProxy` (extends it) | `TCPProxy.handle_client` with a pool | `handler` | connect, reserve, open or fail, bridge, release |
| `AsyncLogger` | `AsyncLogger` | queue, join counter, worker and stopper positions, what was written or lost | `Log`, worker steps, the steps of stop() |
| `Shutdown` (extends it) | `CyanideServer.stop`, `_close_server`, process exit | position of stop(), listening sockets | one per step of stop() |
| `PathMap` | what the filesystem promises (abstract) | `view`: path -> node | `Write`, `MakeDirs`, `Save`, `Drop`, `Rename`, `Freeze` |
| `Filesystem` | `FakeFilesystem`, and the commands and SFTP operations that change it | `fs` (memory overlay and deleted paths), `work` (the calls of a recursive copy under way), `job` | one per command (`Touch`, `Mkdir`, `Rm`, `Rmdir`, `Chmod`, `EditorSave`, `UploadMkdir`, `CopyFile`, `CopyDir`), one per entry of a copied directory |
| `Shell` | one SSHSession's input and the `ShellEmulator` it calls | chunks waiting for the lock, `buf`, the emulator's prompt and user, a stack of calls per session and job | arrival of a chunk, the reader's steps (a line is cut off and is blank, an exit or for the emulator), the steps of execute: chain, command, prompt, script, job; exit, hang-up |
| `Quarantine` | `save_file`, `VTScanner` | `save` (tasks), `stored` (files and which save wrote each cell) | one per stretch of a save between two awaits of aiofiles; the scan |
| `Sftp` | `CyanideSFTPHandler` | `file_handles`, `vfs` (sizes and gaps) | one per request; remove in two steps |
| `Scp` (extends `Quarantine`) | `ScpHandler` | sink: base directory and stack; source: messages and acknowledgements on their way | one per header or message, the time limit of the last acknowledgement |
| `Rsync` | `RsyncHandler` | position, entries read | one per read |
| `Outputs` | `OutputPlugin`, the batches of the SQL sinks | queue, batch, `emit`'s and `stop`'s positions | the two halves of emit, the worker's steps, stop |
| `SshProxy` | `ProxyServerSession`, `ProxyClientChannel`, the lease from `vm_pool.py` | the connecting task, `lease`, `backend`, per direction what was received, buffered, delivered | one per await of `_connect_backend`, callbacks, the send loop in two halves |
| `IocReports` | `IOCReporter.generate_reports`, the bots of Telegram and Discord | report files by generation, the bot's offset and position | writing each file in two steps, polling, answering, a restart |
| `SessionLog` | `CyanideLogger.log_event` and the sessions that call it | `session_logs`, `session_to_ip`, the journal, each session's own files | begin, events, errors, cleanup of SSH and Telnet sessions |
| `IncreasingSequences` | lemmas on increasing sequences of naturals | | |
| `SessionManagerProofs`, `ConnectionsProofs`, `FilesystemProofs`, `PoolProofs`, `ShellProofs` | theorems about the modules of these names, `PoolProofs` about `PoolProxy` | | |
| `TransferProofs` | theorems about `Quarantine`, `Sftp`, `Scp` and `SshProxy`: data on its way through | | |
| `RecordingProofs` | theorems about `AsyncLogger`, `Shutdown`, `Outputs`, `IocReports` and `SessionLog`: what is recorded | | |
| `MCSessionManager`, `MCPoolProxy`, `MCFilesystem`, `MCShell` | symmetry sets, a small profile, what clients type | | |
| `MCServices` | nine services in one run: `focus` names the one that a behaviour drives, as they share no state | `focus` | |

An action is what the event loop runs without suspending. Operators named
`...` after a comment "Mutant of X" are plausible bugs of X; they occur in no
specification and exist so that each property can be seen to fail for one.

Abstractions. Addresses, ids, users and VMs are values without structure, except
that the name `<tag>-<n>` of a VM is the number n, because the code computes it
from the size of the pool. Time is a counter in `SessionManager`, and left open
where only a time limit matters (Telnet's session_timeout, the pool's
vm_unused_timeout, the log writer's three seconds, the five seconds of
_close_server): a limit may expire at any moment. Failures of the hypervisor, of
files and of the network are choices. asyncssh, asyncio.Lock, Queue and wait_for
are external and modelled by what the code relies on. In `Filesystem` a path is a
sequence of names and a node a type and a content; owners, permissions, sizes and
times are left out, as no lookup depends on them. Its methods never await, so a
recursive copy is a run of steps that nothing interrupts; it is taken apart
because its loop reads directories that it has itself changed. Commands with
several operands are several commands. Writers that only call mkfile
(redirections, wget, curl, crontab, visudo, gcc, SFTP and SCP uploads) are
`Touch`. In `Shell` a command is one of a few kinds, told apart by what it does to
the next line (ask for a password, become another user, edit, run a script);
expansion, globbing and the output of commands are left out, and whether an
ordinary command succeeds is a choice. A line of the client is a text and what
ends it, `\n` or `\r`; `\r\n` ends a line and a blank one. Several texts that are read
as one line (below) are some command of `Merged`, since to shlex a `\r` is a space;
entries of a crontab are typed on lines of their own. Contents of uploads are counted in cells
of some megabytes, each marked with its save. Variables commented "history"
record what happened for the properties and guard no action.

## Runs

Every run ends within about two minutes. Deadlock is not checked: every model bounds
the number of connections, log entries or commands, and a server without clients has
nothing to do.

| run | instance | shows |
|---|---|---|
| `Admission` | 2 addresses, 4 ids, limits 3 and 2, rate 1 in a window of 2, bans of 2 and 3, clock to 4 | counters equal the table; limits and rate bound the table; a served ban leaves an empty window; the manager implements `SessionGate` |
| `Connections` | 2 connections, 2 addresses, 2 users, cache of 1, failing log directories, a ban that expires | slots, mirrors, statistics and filesystems belong to the right connection; the composition implements `SessionManager`; silent Telnet shells give their slot back |
| `PoolProxy` | 4 clients, 2 VMs, up to 3 discovered domains, two of them with names the pool would give, with anything left on them | one client per VM, leases match, reverted before reuse |
| `PoolFailures` | 2 clients, 2 VMs, failing hypervisor, reported failures, stop at any time | no VM stuck in rebuilding, reservations answered, VMs come back |
| `Filesystem` | 7 paths over 2 names, a profile of 3 rows, one of them in a directory that has no row, and 2 dynamic files, every sequence of 3 commands, recursion limit 2 | the layers implement `PathMap`; listings agree with lookups; copies are complete |
| `Shell` | 9 inputs of up to 5 lines, 4 with carriage returns and every chain of three commands, cut into chunks in every way, 2 jobs, a script that asks for a password | lines in order, chains as in a shell until a command is skipped, one command per password, all input served |
| `Services` | stop: 4 log entries, 3 services; saves: 2 of 2 sizes, quota 3; SFTP: 2 handles, limit 2; SCP: 4 headers, a tree of 2 directories, refusals of 3 bytes; rsync: list one over its limit; outputs: 4 events, queue and batch of 2; SSH proxy: 2 chunks each way; reports: 3 generations, 2 messages, a restart; event log: an SSH and a Telnet session, 5 events | each service's safety property, and `ServicesProgress`, the conjunction of the six liveness properties |

Why these bounds are enough: each limit (slots, rate, cache, VMs) is reached and
exceeded by one or two more contenders than it admits, every order of events of
that many actors is explored, and the quantities that the theorems cover hold
for every size. The clock of `Admission` spans two windows and a half, so that a
ban begins, ends and is followed by a fresh window. Three commands are enough to
remove a path of any layer, make it again as something else and copy the result;
the profile has one path of each kind (a directory and a file in it, a row whose
directory has no row, a generated file, a dynamic file two directories down), and
paths of two names reach every combination of a directory and its entry. A recursion
limit of 2 lets a copy enter a directory and stops it at the next; with 3 the run
takes twice as long and shows the same. In `Shell` the inputs
are chosen, not enumerated: each is a story of one hazard (a job's line at a
prompt, an exit in pasted text, a prompt in a script or in the middle of a chain,
an editor left by the wrong command, a terminal that sends `\r` or `\r\n`), and TLC explores every cutting into chunks
and every interleaving of it. In `Services` each queue, quota, limit or list is
one shorter than what is thrown at it. Nine services run in one run because their
state is disjoint; a behaviour that mixes them would add nothing but their
product.

Five runs end in a violation: each checks one sentence of the documentation or of
the code's comments that the code does not keep.

| run | sentence | what happens |
|---|---|---|
| `FilesystemBoundToSession` | `docs/developer-reference/core/core.md`: the VFS overlay "is strictly bound to this session" | with ssh.vfs_persistence, the default, a second connection from one address with the same user gets the object of the first, with its session id and audit hook |
| `ClosedConnectionsHoldNothing` | `docs/developer-reference/networking/network.md`: on connection loss the proxy releases the lease | when the backend cannot be reached, `handle_client` returns without `release_target`: the VM stays leased |
| `StopGetsThrough` | `CyanideServer.stop`: "Stop all services." | `_close_server` stops the log writer; the idle worker is cancelled and awaited, CancelledError comes out and ends stop() before the other servers are closed |
| `ChainsFollowShell` | `docs/developer-reference/vfs/shell_emulator.md`: `&&` "stops on failure", `||` "continues on failure" | `_should_skip_node` looks at the operator behind a node that is left out: in `a \|\| b \|\| c` b runs though a succeeded, in `false && b && c` b runs |
| `EventsNameTheirClient` | `docs/user-reference/Integrations.md`: src_ip is "the attacker's source IP" | refused clients are logged under the session "system"; the address of the first one is remembered and put into every later event of the server itself |

Also seen while modelling, and visible in how the properties are stated rather
than in runs of their own: session_timeout is not an inactivity timeout for SSH
shells or the Telnet prompts (`TelnetShellsEnd` speaks of the shell loop only,
and excepts a client that leaves output unread; nothing is said of the prompts, where
the code has no time limit and a silent client keeps its slot); a Telnet handler that dies
between register_session and its try block keeps its slot (the "crashed" state
of `SlotsAccountedFor`); without pool.save_snapshots used VMs are restarted and
not erased (a premise of `RevertedBeforeReuse`); domains found at the start are ready as they are, so the first client of one gets
what was left there before (`RevertedBeforeReuse` is about the clients after it);
discovered VMs are leased beyond
max_vms; the name of a new VM is computed from the size of the pool and can be that
of a discovered VM that is leased, which is then leased twice (`FreshNames`, a
premise of `VmBelongsToOneClient`); the server's proxy asks the pool for
"ssh_proxy", which the pool does not take for "ssh", and so gets the Telnet port
(ports are not in the model); stop() closes neither SMTP nor the proxies; at process exit the log writer is cancelled before
the queue is drained (`gave_up` in `StopFlushes`).

In the shell: `_process_input` splits at a line feed if the buffer has one and only
else at a carriage return, so that of input with both, `a\rb\n`, one chunk makes one
line and two chunks make two (`LinesInOrder` says which ends a line may reach over,
`LinesAreReadWhole` that clients with one kind of end are not concerned); a cron job's line that meets a prompt of the session is taken as the
answer to it (hence `AuthorisedOnce` counts prompts and not users); a line that is
typed while another command runs waits, but a job's does not. In the services: the
quota of the quarantine is exceeded by saves that overlap (`peak` in
`QuotaOvershootBounded`), and two uploads of one name in one session write one
file (`overlapped`); a write that fails leaves what it had written of the upload;
the setting `max_total_upload_mb_per_session` (`app.yaml:92`, `config_schema.py:87`)
and its error, "Session upload limit exceeded", name a limit per session, but
`CyanideSFTPHandler.write` compares it with one handle's buffer: two handles of a
session exceed it together, and a write behind the end of the buffer passes it even
there (`gap`; `OnlyGapsExceedLimit` is about each handle and file);
after a final acknowledgement that took longer than a tenth of a second
SCP is one behind for the rest of the transfer (`late`), and of a refusal, `\x01`, a
text and a line feed, it reads one byte and takes the rest for the answers to the next
messages (`refused`); when the backend of the SSH proxy ends, the send loop to the client
is cancelled in its half second, so the last output of a command is lost
(`ProxyDataInOrder`: the buffer is what a cancelled loop takes with it); a lease or backend
connection that arrives after the client is gone is kept (`tooLate`); reports
that were cut off stay as they are until the next generation (`interrupted`);
on Discord the poll takes the newest message as seen and messages between two
polls can be passed over (`ReportIsAnswered` is about Telegram); nothing
unregisters the log mirror of an SSH session, and an SSH connection that opens no
channel has a session.end without a session.start; over Telnet the coroutine that
would quarantine a download of wget or curl is made and never awaited.

In the filesystem: `rm -r` removes the directory's own path only, what is in it
stays reachable by its full path and is back in the listing after a mkdir (hence
a flat table as the abstract specification, and not a tree); touch or a redirection over
a directory replaces it by a file, mkdir -p a file by a directory; `mv f f` and
`mv f /missing/x` lose the file (`Rename` of `PathMap` is defined so); `cp -r` of
a directory into itself ends in RecursionError with part of the copy made
(`TooDeep`, and why `CopyIsFaithful` is about copies away from their source); a
generated file is neither file nor directory to is_file and is_dir, and chmod freezes it;
the rhel profile has files in /proc and no row for /proc, which is listed and
does not exist (`Implied`); a copy of a directory with such an entry has an empty
file in its place, which the proof of `CopyIsFaithful` brought to light: the
property excepts it, and the profile of the run has one. A profile may give a row a
directory that has none (`tree_folders`, `static` and generators name paths, not
what they are in; `profiles_guide.md` shows it): `SqliteBackend` takes such a directory
to exist, no listing shows it, and mkdir_p leaves it so, until chmod or touch put it
into the overlay (`Unrowed`; `ListingMatchesLookup` excepts it, `View` has it as a
directory, and a copy of what it is in is without it, which is why `CopyIsFaithful`
speaks of what listings reach).

The proof of `PlainChainsFollowShell` did the same for chains: a first form of it,
about the first two commands, is false for chains of three, and the induction showed
what holds of chains of any length, up to the first command that is skipped: a
command runs that should, and one that should not runs only if an operator stands behind it
(`ChainsFollowShell` is the run where it does).

## Fairness

* `Connections`: the loop resumes ready tasks, `wait_for` fires. Of clients nothing is assumed, except that each sends
  finitely many commands (the bound MaxOps): one that goes on sending lines
  legitimately keeps its shell.
* `PoolProxy`: asyncio.Lock serves its waiters in order, hence strong fairness
  for who waits for it; the hypervisor answers or fails. Loops, clients and
  network owe nothing.
* `Shell`: the reader's task runs on, commands return. The client need not type or
  read anything.
* `Services`: ready tasks and threads run, writes and requests end or fail, time
  limits expire, theirs and the peers' (rsync's ten seconds, the batch timeout, the
  three seconds of the log writer). stop() need not be called, sessions need not
  log, clients need not send.

## Proofs

TLAPS checks the seven `...Proofs` modules and `IncreasingSequences`, for
every value of the constants that satisfies the named assumptions (limits and
durations are naturals, the window is positive, `root` is a user, the cache has
room for one; rows, dynamic files and the overlay a filesystem starts with name
paths other than the root, and nothing about the directories they are in; a line with
carriage returns within is a command and no exit; a batch holds at least one event; in a line of the
shell every command but the last has an operator behind it).
No finiteness of addresses, ids, clients or VMs is assumed. Every safety
invariant that a run checks is stated by a theorem.

* `SessionManagerProofs`. `TypeCorrect`: `TypeOK` is inductive.
  `CountersCorrect`, `LimitsCorrect`: the counters are compared with the limits,
  the limits speak of the table, so neither is inductive alone. `TableInv` adds to
  both that the table is finite, without which Cardinality says nothing; the
  lemmas on adding and removing a session carry the three of them.
  `HistoryCorrect`, `ServedBanCorrect`: `HistoryInv` adds `BanCoversHistory`: while a
  ban is recorded, everything in the history is older than its end by a window,
  if bans last a window. The history's order makes the expired entries a prefix,
  which is what `Recent` cuts off.
  `StartRateCorrect`: `AttemptsCoverSessions` says that as far back as the window
  reaches from now, the history holds an attempt for every session alive, so the
  bound on the history is one on them; older windows are bounded because no session
  joins them. Pruning keeps it because what expires is a prefix (`PruningKeepsWindow`).
  `GateImplemented`: each step of the manager is a step of `SessionGate` or a
  stutter under `live <- [id |-> sessions[id].ip]`; needs `TableInv`, because the
  gate counts sessions and the code compares counters.
* `ConnectionsProofs`. `ConnTypeCorrect`: `ConnInv` adds that a connection that has
  begun has an address, without which a step of it need not be a step of the
  manager. `ManagerImplemented`: every step of the connections is a step of the
  manager or leaves it alone, also a file operation through a cached filesystem
  that names a session long gone. With it, `ServerLimits` carries the limits over
  to the composed system. `SlotsCorrect`: `SlotsAccountedFor` is inductive given
  the two type invariants.
  `FilesystemsStayApart`, `CacheCorrect`: `CacheInv` adds to the two properties that
  the owner of a cached filesystem has begun, so that its address no longer changes;
  `CacheAfterSound` says that after a call the cache holds what it held and the new
  entry, one for each address and user. `TelnetTakesAllOrNothing`: `HandlerInv` adds
  which positions belong to which protocol, `TelnetInv` that finitely many handlers
  are inside, without which counting them says nothing.
* `FilesystemProofs` (whose `IInv` is `FsTypeOK`, `Sound` and `FramesInside`).
  `LayersStayDisjoint`: no path is both in the overlay and deleted.
  `ListingAgrees`: that is not enough for listings to agree with lookups (but for the
  directories without rows that the property names), since a
  listing is made from entries further down: `AncestorsKnown` adds that every
  directory on the way to an overlay entry is in some layer, deleted, or implied
  by a dynamic file. mkfile and mkdir_p keep it because they demand or make the
  parent, remove because it leaves the path in deleted_paths.
  `CopiesStayInside`: `FramesInside` says that every call on the stack copies to a
  place under the destination of the command.
  `LayersImplementMap`: each operation on the layers is the operation of `PathMap`
  of that name under `view <- View(fs)`; one lemma per operation says what `View`
  of its result is, from `Sound`.
  `CopiesAreComplete`: `CopyInv` says of every moment of a copy what its end is to
  satisfy, with `Pending`, what the calls on the stack have still to copy: all that
  can be reached and is not pending has its copy (`Copied`), nothing below the
  destination has another origin (`NothingElse`), and the calls stand in
  directories that are themselves not pending (`Walk`). A step takes one entry out
  of `Pending`, or replaces it by the entries of the directory it enters, which are
  all that is reached below it because `ListingAgrees`. The rest is geometry: where
  paths go is injective (`MovedInjective`), what a copy makes on its way is only the
  entry it has come to (`OnlyEntryIsMade`), and a destination away from its
  source never touches it (`Untouched`). No induction over the tree is needed, as
  the steps of the copy are the induction.
* `PoolProofs`. `LeasesOnRecord` and `NoVmIsLost` need only the types and that a
  task in its second phase belongs to a VM being rebuilt. `OneClientPerVm` and
  `CleanVmsOnly` hold while names are fresh and no failure is reported, the premise
  in their properties; their invariant says in addition that a ready VM has no
  lease and no task, and that the VM which the health check is waiting for is
  ready, since it writes that VM's state after its await
  (`HealthCheckSparesClients`). That freshness now implies freshness before
  (`FreshBefore`) makes the premise usable in an induction.
* `TransferProofs`.
  `QuotaKept`: the size of the directory and what admitted saves have still to
  write are together at most the quota and `peak`; both are cardinalities of sets of
  cells, so that opening a file (which cuts it off), writing a cell and failing move
  cells between disjoint sets (`OutstandingAfter`). `SavesStayIntact`: a save that writes a
  file alone is what the file holds, a part of it if the write failed, if every pair of saves that had one name open is on
  record (`OverlapsOnRecord`) and a file just opened is empty (`OpenedEmpty`).
  `UploadLimitKept`: buffers and stored sizes exceed the limit only where a gap was
  written. `AcksInStep`: without a late acknowledgement or a refusal there is at most one on
  its way, and it is for the message that was sent last (`OneMessage`).
  `SinkInPlace`: each entry of `dir_stack` is the base that the client's open
  directories up to there lead to (`IsBase`), so that an E header finds it again.
  `DeliveredInOrder`: delivered and buffered data are what was received, until a write
  fails; a send loop that sleeps has a prefix of it.
  `OnlyLateArrivalsLeak`: ties the position of the connecting task to what it holds.
* `RecordingProofs`.
  `LogEntriesAccounted`: the written entries, the one in the worker's hands and the
  queue form one increasing sequence that lacks exactly the lost ones; the join
  counter is what is not finished of it. `StopFlushesAlways` adds where the stopper
  stands: when it has joined, nothing logged before is left in that sequence's
  tail. `ShutdownTypesCorrect`: stop() only flushes at a step whose service is
  configured. `EventsStayInOrder`: database, batch and queue form one increasing
  sequence, up to the event that emit is about to put.
  `ReportsBelongTogether`: the two files are of the generation that is being
  written or the one before, according to how far the writer is (`Files`), unless
  it was interrupted. `RequestsAnsweredOnce`: what this run has answered is among what
  the bot has seen, without the message it is at, and what is to come is behind
  (`AnswerInv`, `InboxInv`). `SessionFilesAreTheJournal`:
  for each session, where it stands decides which of its events have happened, and
  whether its files are registered (`StageInv`); its files list the indices of
  the events in the journal that belong to them, in increasing order (`Lists`,
  `AuditInv`). A filter over a sequence would be recursive; `Lists` says the same
  of its result.
* `ShellProofs`.
  `PasswordsAuthoriseOnce`: each prompt that was raised is pending, dropped or
  used, and only the one that is pending can be used (`PromptStep`); sessions,
  scripts and jobs go through the same lemma.
  `TypedLinesStayInOrder`: what was typed, the chunks that wait, the reader's chunk,
  the buffer and the lines taken are consecutive stretches of one sequence
  (`Stretch`, `Chunks`), which every step cuts elsewhere; where a line is cut off, the
  ends before it are carriage returns (`CutIsEnd`). `LinesAreReadWhole`: if all ends are
  alike there is none before it, so that each line is two symbols.
  `ChainsFollowShellUntilSkip`: for the chain of every call on every stack
  (`StacksInv`) each command in its log was decided as the property says
  (`Decided`), and `should` is what a shell decides of the next one as long as none
  was skipped (`ChainOk`). A call below the top has found its next command to run
  (`Waits`), so that what returns to it may be logged as that command's status; and
  a stack is empty until its runner was given something to do (`BusyInv`).

Only model-checked: the liveness properties (TLAPS does not handle fairness here)
and what they need, that no lock and no queue stops the rest.

## Not modelled, and why

Left out for good, as data and formatting without shared state: the ML classifier
and rule tables, the output of the emulated commands, configuration parsing (the
settings are the CONSTANTS), SMTP, the individual output sinks beyond their use of
the queue and the batch, prompts, transcripts, GeoIP look-ups, profile files and
their cache. Port forwarding (`direct_tcpip` rules) is called by tests only.
`SimplePool.report_failure` is called by nothing in `src/`, so its picking of
targets has no state to check.

Open: an abstract lease pool that `PoolProxy` implements while names are fresh.
