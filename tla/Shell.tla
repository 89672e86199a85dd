-------------------------------- MODULE Shell --------------------------------
(***************************************************************************)
(* One shell session: SSHSession of core/server.py, which reads the        *)
(* client's characters and hands complete lines to ShellEmulator of        *)
(* core/emulator.py, with the commands that read further input (su,        *)
(* editors, commands below /root) and the jobs that crontab leaves behind. *)
(*                                                                         *)
(* Every chunk of input gets a task of its own; tasks wait for one lock.   *)
(* Session and jobs call the same emulator, whose prompt belongs to nobody *)
(* in particular: a line answers it, whoever submits the line.             *)
(*                                                                         *)
(* Data: the client types the lines of `typed`; line n is the symbols 2n-1 *)
(* (its text, which may be blank) and 2n (what ends it, a line feed or a   *)
(* carriage return; the two together end a line and a blank one).  A       *)
(* command is one of a few kinds, a node the commands of its pipeline.  An ordinary command may  *)
(* suspend and may succeed or fail.  What commands print and redirect is   *)
(* left out; writing files is the subject of Filesystem.                   *)
(***************************************************************************)
EXTENDS Integers, Sequences, SequencesExt, FiniteSets

CONSTANTS
    Inputs,             \* what a client may type: sequences of lines and their ends
    Merged,             \* what several texts may say that are read as one line
    ScriptFile,         \* [lines, owner, group, perms, below_root] of ./script
    Users,              \* names of users other than root
    root,
    max_chain_depth,    \* shell.max_chain_depth
    OutputMayOverflow,  \* may a command print more than shell.max_output_size?
    MaxJobs             \* bound: cron jobs started

Modes == {"r", "w", "x"}
Editors == {"crontab", "visudo", "vi"}
Commands == Editors \cup {"plain", "missing", "su", "protected", "sudo_i", "sudo_su", "bash", "direct"}
Operators == {"&&", "||", ";", "&", "None"}
Nodes == [cmds : Seq(Commands), op : Operators]

\* _parse_chain cuts a line at its operators: only what is behind the last has none.
Chains == {nodes \in Seq(Nodes) : \A i \in 1..(Len(nodes) - 1) : nodes[i].op # "None"}

\* A line as the emulator sees it, and what it says to an editor (DONE, CANCEL, or
\* :wq, :q! and :w for vi); `entry` is what it orders as an entry of a crontab
\* (empty: not an entry).
Lines == [text : {"other", "exit", "save", "quit", "write"}, nodes : Chains, entry : Chains]

Blank == [text |-> "empty", nodes |-> <<>>, entry |-> <<>>]
TypedLines == [line : Lines \cup {Blank}, feed : {"LF", "CR"}]

\* A carriage return within a line is a space to the emulator: some command with more
\* operands, no word for an editor, no exit.  Entries of a crontab are typed alone.
ASSUME MergedAssumption ==
    \A line \in Merged : line \in Lines /\ line.text = "other" /\ line.entry = <<>>

ASSUME ShellAssumption ==
    /\ \A input \in Inputs : input \in Seq(TypedLines)
    /\ ScriptFile.lines \in Seq(Lines)
    /\ ScriptFile.perms \in [{"owner", "group", "other"} -> SUBSET Modes]
    /\ root \notin Users
    /\ max_chain_depth \in Nat /\ MaxJobs \in Nat
    /\ OutputMayOverflow \in BOOLEAN

VARIABLES
    typed,      \* the lines the client types
    sent,       \* how many of their symbols have arrived
    waiting,    \* tasks of _process_input in the order they wait for the lock
    reader,     \* the task that has it: "idle", "delayed" or "looping", and its chunk
    buf,        \* SSHSession.buf
    channel,    \* "open", "closing" (after exit) or "closed"
    taken,      \* history: what was cut off buf, line by line, each with its end
    emulator,   \* ShellEmulator: callback, username; what su was asked for
    capture,    \* the lines every editor command holds
    saved,      \* what it has written
    stack,      \* the calls under way for the session and for every job
    job,        \* the jobs: what each will run, <<>> if there is none
    woken,      \* the jobs whose five seconds are over
    asked,      \* history: how often a command below /root asked for a password
    authorised  \* history: how often one then ran

vars == <<typed, sent, waiting, reader, buf, channel, taken, emulator, stack,
          capture, saved, job, woken, asked, authorised>>
inputVars == <<typed, sent, waiting, buf, channel, taken>>

Runners == {0} \cup (1..MaxJobs)        \* 0 is the session

\* What can be under way: a chain, a script, a command that has got its password.
ChainFrame(nodes) == [kind |-> "chain", nodes |-> nodes, segment |-> 1,
                      should |-> TRUE, rc |-> 0, log |-> <<>>]
ScriptFrame == [kind |-> "script", at |-> 1, rc |-> 0]
AuthFrame == [kind |-> "auth"]

ShellInit ==
    /\ typed \in Inputs
    /\ sent = 0
    /\ waiting = <<>> /\ reader = [state |-> "idle", chunk |-> <<>>]
    /\ buf = <<>> /\ channel = "open" /\ taken = <<>>
    /\ \E user \in Users \cup {root} :
        emulator = [callback |-> "none", username |-> user, target |-> user]
    /\ stack = [r \in Runners |-> <<>>]
    /\ capture = [e \in Editors |-> <<>>] /\ saved = capture
    /\ job = [j \in 1..MaxJobs |-> <<>>] /\ woken = {}
    /\ asked = 0 /\ authorised = 0

-----------------------------------------------------------------------------
(***************************************************************************)
(* Deciding.                                                               *)
(***************************************************************************)

\* _should_skip_node, whose name and whose use disagree: TRUE runs the node.
ShouldSkipNode(node, rc) ==
    /\ ~(node.op = "||" /\ rc # 0)
    /\ node.op \notin {";", "None"}

\* Mutant of NextShouldExecute: || taken for &&.
NextShouldExecuteOnSuccess(node, rc) == node.op \in {"&&", "||"} => rc = 0

\* _get_next_should_execute
NextShouldExecute(node, rc) ==
    CASE node.op = "&&" -> rc = 0
      [] node.op = "||" -> rc # 0
      [] OTHER -> TRUE

\* check_permission: the bits of the first class the user belongs to decide.
CheckPermission(user, file, mode) ==
    \/ user = root
    \/ /\ ~file.below_root
       /\ LET class == CASE user = file.owner -> "owner"
                         [] user # file.owner /\ user = file.group -> "group"
                         [] OTHER -> "other"
          IN mode \in file.perms[class]

\* What the shell of the documentation decides about node j, given what ran.
Skipped == -1
Ran(log, j) == log[j] # Skipped
LastStatus(log, j) ==
    log[CHOOSE i \in 1..(j - 1) : Ran(log, i) /\ \A k \in (i + 1)..(j - 1) : ~Ran(log, k)]
ShellRuns(nodes, log, j) ==
    \/ j = 1
    \/ nodes[j - 1].op \in {";", "&"}
    \/ nodes[j - 1].op = "&&" /\ LastStatus(log, j) = 0
    \/ nodes[j - 1].op = "||" /\ LastStatus(log, j) # 0

-----------------------------------------------------------------------------
(***************************************************************************)
(* Executing, for the session or a job r.                                  *)
(***************************************************************************)

\* A command returned rc to what called it, the top of `below`.  A pipeline
\* goes on with its next segment; then the node has its status.
Returned(below, rc, overflow) ==
    IF below = <<>> THEN <<>>
    ELSE LET f == Last(below) IN
         LET node == f.nodes[Len(f.log) + 1] IN
         CASE f.kind = "script" -> Front(below) \o <<[f EXCEPT !.at = @ + 1, !.rc = rc]>>
           [] f.kind = "chain" /\ node.op # "&" /\ f.segment < Len(node.cmds) ->
                Front(below) \o <<[f EXCEPT !.segment = @ + 1]>>
           [] f.kind = "chain" /\ ~(node.op # "&" /\ f.segment < Len(node.cmds)) ->
                Front(below) \o
                <<[f EXCEPT !.segment = 1,
                            !.log = Append(@, rc),
                            !.rc = IF overflow THEN 1 ELSE rc,
                            !.nodes = IF overflow THEN SubSeq(@, 1, Len(f.log) + 1) ELSE @,
                            !.should = NextShouldExecute(node, rc)]>>

Return(r, below, rc) ==
    \E overflow \in {FALSE} \cup (IF OutputMayOverflow THEN {TRUE} ELSE {}) :
        stack' = [stack EXCEPT ![r] = Returned(below, rc, overflow)]

Push(r, frame) == stack' = [stack EXCEPT ![r] = Append(@, frame)]

Raise(callback) == [emulator EXCEPT !.callback = callback]

\* ShellEmulator.execute with no prompt outstanding.
ExecuteChain(r, line) ==
    /\ emulator.callback = "none"
    /\ \/ Len(line.nodes) \in 1..max_chain_depth /\ Push(r, ChainFrame(line.nodes))
       \/ line.nodes = <<>> /\ Return(r, stack[r], 0)
       \/ Len(line.nodes) > max_chain_depth /\ Return(r, stack[r], 1)
    /\ UNCHANGED <<emulator, capture, saved, job, asked, authorised>>

\* SuCommand._on_password: the configured password or one of a list will do.
AnswerSu(r) ==
    /\ emulator.callback = "su"
    /\ \/ emulator' = [Raise("none") EXCEPT !.username = emulator.target] /\ Return(r, stack[r], 0)
       \/ emulator' = Raise("none") /\ Return(r, stack[r], 1)
    /\ UNCHANGED <<capture, saved, job, asked, authorised>>

\* Mutant of AnswerAuth: the prompt is cleared when the command returns.
AnswerAuthLate(r) ==
    /\ emulator.callback = "auth"
    /\ emulator' = [emulator EXCEPT !.username = root]
    /\ authorised' = authorised + 1
    /\ Push(r, AuthFrame)
    /\ UNCHANGED <<capture, saved, job, asked>>

\* Command._on_password_auth: any line will do, and the user stays root.
AnswerAuth(r) ==
    /\ emulator.callback = "auth"
    /\ emulator' = [Raise("none") EXCEPT !.username = root]
    /\ authorised' = authorised + 1
    /\ Push(r, AuthFrame)
    /\ UNCHANGED <<capture, saved, job, asked>>

\* The jobs that DONE starts: one for every entry, those of before included.
Entries(lines) == {i \in DOMAIN lines : lines[i].entry # <<>>}
Started == Cardinality({j \in 1..MaxJobs : job[j] # <<>>})
StartJobs(lines) ==
    LET Number(i) == Started + Cardinality({k \in Entries(lines) : k <= i})
    IN  /\ Started + Cardinality(Entries(lines)) <= MaxJobs
        /\ job' = [j \in 1..MaxJobs |->
                    IF \E i \in Entries(lines) : Number(i) = j
                    THEN lines[CHOOSE i \in Entries(lines) : Number(i) = j].entry
                    ELSE job[j]]

\* _on_editor_input of crontab and visudo, _on_input of vi and nano
AnswerEditor(r, line) ==
    LET e == emulator.callback IN
    /\ e \in Editors
    /\ \/ /\ line.text = "quit"
          /\ emulator' = Raise("none")
          /\ UNCHANGED <<capture, saved, job>>
       \/ /\ line.text = "save" \/ (line.text = "write" /\ e = "vi")
          /\ emulator' = IF line.text = "write" THEN Raise("vi") ELSE Raise("none")
          /\ saved' = [saved EXCEPT ![e] = capture[e]]
          /\ IF e = "crontab" THEN StartJobs(capture[e]) ELSE UNCHANGED job
          /\ UNCHANGED capture
       \/ /\ line.text = "other" \/ (line.text = "write" /\ e # "vi")
          /\ emulator' = Raise(e)
          /\ capture' = [capture EXCEPT ![e] = Append(@, line)]
          /\ UNCHANGED <<saved, job>>
    /\ Return(r, stack[r], 0)
    /\ UNCHANGED <<asked, authorised>>

Execute(r, line) ==
    ExecuteChain(r, line) \/ AnswerSu(r) \/ AnswerAuth(r) \/ AnswerEditor(r, line)

-----------------------------------------------------------------------------
(***************************************************************************)
(* One command of a pipeline: _execute_single_command, with what the       *)
(* command's auth_and_execute and execute do to the emulator.              *)
(***************************************************************************)
Done(r, rc) == Return(r, stack[r], rc)

RunPlain(r) ==
    /\ \E rc \in {0, 1} : Done(r, rc)
    /\ UNCHANGED <<emulator, asked, authorised>>

RunMissing(r) == Done(r, 127) /\ UNCHANGED <<emulator, asked, authorised>>

RunSu(r) ==
    /\ emulator' = IF emulator.username = root THEN emulator
                   ELSE [Raise("su") EXCEPT !.target = root]
    /\ Done(r, 0)
    /\ UNCHANGED <<asked, authorised>>

\* auth_and_execute of a command with an operand below /root
RunProtected(r) ==
    \/ emulator.username = root /\ RunPlain(r)
    \/ /\ emulator.username # root
       /\ emulator' = Raise("auth")
       /\ asked' = asked + 1
       /\ Done(r, 0)
       /\ UNCHANGED authorised

OpenEditor(r, e) ==
    /\ emulator' = Raise(e)
    /\ capture' = [capture EXCEPT ![e] = saved[e]]
    /\ Done(r, 0)
    /\ UNCHANGED <<asked, authorised>>

\* visudo is for root.
RunVisudo(r) ==
    \/ emulator.username = root /\ OpenEditor(r, "visudo")
    \/ /\ emulator.username # root
       /\ Done(r, 1)
       /\ UNCHANGED <<emulator, capture, asked, authorised>>

RunSudoI(r) ==
    /\ emulator' = [emulator EXCEPT !.username = root]
    /\ Done(r, 0)
    /\ UNCHANGED <<asked, authorised>>

\* sudo with a command runs it in an emulator of its own, as root: a prompt
\* raised there is never seen.
RunSudo(r) == RunPlain(r)

RunBash(r) == Push(r, ScriptFrame) /\ UNCHANGED <<emulator, asked, authorised>>

RunDirect(r) ==
    \/ CheckPermission(emulator.username, ScriptFile, "x") /\ RunBash(r)
    \/ /\ ~CheckPermission(emulator.username, ScriptFile, "x")
       /\ Done(r, 126)
       /\ UNCHANGED <<emulator, asked, authorised>>

RunCommand(r, cmd) ==
    /\ \/ /\ \/ cmd = "plain" /\ RunPlain(r)
             \/ cmd = "missing" /\ RunMissing(r)
             \/ cmd = "su" /\ RunSu(r)
             \/ cmd = "protected" /\ RunProtected(r)
             \/ cmd = "sudo_i" /\ RunSudoI(r)
             \/ cmd = "sudo_su" /\ RunSudo(r)
             \/ cmd = "bash" /\ RunBash(r)
             \/ cmd = "direct" /\ RunDirect(r)
          /\ UNCHANGED capture
       \/ cmd = "crontab" /\ OpenEditor(r, cmd)
       \/ cmd = "vi" /\ OpenEditor(r, cmd)
       \/ cmd = "visudo" /\ RunVisudo(r)
    /\ UNCHANGED <<saved, job>>

-----------------------------------------------------------------------------
(***************************************************************************)
(* What a runner does next.                                                *)
(***************************************************************************)
Top(r) == Last(stack[r])

\* _execute_nodes, one command at a time
ChainStep(r) ==
    /\ stack[r] # <<>> /\ Top(r).kind = "chain"
    /\ LET i == Len(Top(r).log) + 1
           node == Top(r).nodes[i]
           runs == Top(r).should \/ ShouldSkipNode(node, Top(r).rc)
       IN \/ /\ i > Len(Top(r).nodes)
             /\ Return(r, Front(stack[r]), Top(r).rc)
             /\ UNCHANGED <<emulator, capture, saved, job, asked, authorised>>
          \/ /\ i <= Len(Top(r).nodes) /\ ~runs
             /\ stack' = [stack EXCEPT ![r] =
                    Front(@) \o <<[Top(r) EXCEPT !.log = Append(@, Skipped)]>>]
             /\ UNCHANGED <<emulator, capture, saved, job, asked, authorised>>
          \/ /\ i <= Len(Top(r).nodes) /\ runs /\ node.op = "&"
             /\ Done(r, 0)
             /\ UNCHANGED <<emulator, capture, saved, job, asked, authorised>>
          \/ /\ i <= Len(Top(r).nodes) /\ runs /\ node.op # "&"
             /\ RunCommand(r, node.cmds[Top(r).segment])

\* BashCommand.execute: the lines of the file, each through emulator.execute
ScriptStep(r) ==
    /\ stack[r] # <<>> /\ Top(r).kind = "script"
    /\ \/ /\ Top(r).at > Len(ScriptFile.lines)
          /\ Return(r, Front(stack[r]), Top(r).rc)
          /\ UNCHANGED <<emulator, capture, saved, job, asked, authorised>>
       \/ /\ Top(r).at <= Len(ScriptFile.lines)
          /\ Execute(r, ScriptFile.lines[Top(r).at])

\* the command that waited for its password returns
AuthStep(r) ==
    /\ stack[r] # <<>> /\ Top(r).kind = "auth"
    /\ \E rc \in {0, 1} : Return(r, Front(stack[r]), rc)
    /\ UNCHANGED <<emulator, capture, saved, job, asked, authorised>>

Step(r) ==
    /\ ChainStep(r) \/ ScriptStep(r) \/ AuthStep(r)
    /\ UNCHANGED <<inputVars, reader, woken>>

\* _schedule_cron_job: analytics may refuse it; else it runs after five seconds.
Sleeping == {j \in 1..MaxJobs : job[j] # <<>>} \ woken

StartJob(j) ==
    /\ j \in Sleeping
    /\ woken' = woken \cup {j}
    /\ Execute(j, [text |-> "other", nodes |-> job[j], entry |-> <<>>])
    /\ UNCHANGED <<inputVars, reader>>

RefuseJob(j) ==
    /\ j \in Sleeping
    /\ woken' = woken \cup {j}
    /\ UNCHANGED <<inputVars, reader, emulator, stack, capture, saved, job, asked, authorised>>

-----------------------------------------------------------------------------
(***************************************************************************)
(* The session's side.                                                     *)
(***************************************************************************)
shellVars == <<emulator, stack, capture, saved, job, woken, asked, authorised>>

\* data_received: a task for a chunk that may end in the middle of a line
DataReceived(n) ==
    /\ channel # "closed"
    /\ n \in 1..(2 * Len(typed) - sent)
    /\ waiting' = Append(waiting, [i \in 1..n |-> sent + i])
    /\ sent' = sent + n
    /\ UNCHANGED <<typed, reader, buf, channel, taken, shellVars>>

\* Mutant of AcquireLock: the random delay comes first, tasks overtake each other.
AcquireAnyLock ==
    /\ reader.state = "idle"
    /\ \E i \in DOMAIN waiting :
        /\ reader' = [state |-> "delayed", chunk |-> waiting[i]]
        /\ waiting' = RemoveAt(waiting, i)
    /\ UNCHANGED <<typed, sent, buf, channel, taken, shellVars>>

\* the lock is free: its first waiter has it, and sleeps while holding it
AcquireLock ==
    /\ reader.state = "idle" /\ waiting # <<>>
    /\ reader' = [state |-> "delayed", chunk |-> Head(waiting)]
    /\ waiting' = Tail(waiting)
    /\ UNCHANGED <<typed, sent, buf, channel, taken, shellVars>>

AppendChunk ==
    /\ reader.state = "delayed"
    /\ buf' = buf \o reader.chunk
    /\ reader' = [state |-> "looping", chunk |-> <<>>]
    /\ UNCHANGED <<typed, sent, waiting, channel, taken, shellVars>>

\* The line that symbol x belongs to, and the places in buf where one ends.
LineNumber(x) == (x + 1) \div 2
Feeds == {i \in DOMAIN buf : buf[i] % 2 = 0}
LineFeeds == {i \in Feeds : typed[LineNumber(buf[i])].feed = "LF"}

\* split at the first line feed, though a carriage return may come before it; at the
\* first carriage return only if buf has no line feed
Ends == IF LineFeeds # {} THEN LineFeeds ELSE Feeds

CutLine(cut) ==
    /\ reader.state = "looping"
    /\ cut \in Ends /\ \A i \in Ends : cut <= i
    /\ buf' = SubSeq(buf, cut + 1, Len(buf))
    /\ taken' = Append(taken, SubSeq(buf, 1, cut))
    /\ UNCHANGED <<typed, sent, waiting>>

\* The texts of the line that is cut off, and what they say.
Texts(cut) == {n \in {LineNumber(buf[i]) : i \in 1..cut} : typed[n].line # Blank}
ReadAs(cut) ==
    IF \E n \in Texts(cut) : Texts(cut) = {n} THEN {typed[n].line : n \in Texts(cut)} ELSE Merged

\* The prompt is written again; on a closed channel that raises and ends the loop.
TakeBlank(cut) ==
    /\ CutLine(cut)
    /\ Texts(cut) = {}
    /\ reader' = IF channel = "closed" THEN [reader EXCEPT !.state = "idle"] ELSE reader
    /\ UNCHANGED <<channel, shellVars>>

\* exit and logout are not for the emulator, prompt or no prompt; what is left
\* in buf stays there for the next chunk.
TakeExit(cut) ==
    /\ CutLine(cut)
    /\ Texts(cut) # {} /\ \E line \in ReadAs(cut) : line.text = "exit"
    /\ reader' = [state |-> "idle", chunk |-> <<>>]
    /\ channel' = IF channel = "open" THEN "closing" ELSE channel
    /\ UNCHANGED shellVars

TakeLine(cut) ==
    /\ CutLine(cut)
    /\ Texts(cut) # {} /\ \E line \in ReadAs(cut) : line.text # "exit" /\ Execute(0, line)
    /\ reader' = [reader EXCEPT !.state = "running"]
    /\ UNCHANGED <<channel, woken>>

\* Mutant of Respond: the exception leaves the lock held.
RespondAndStick ==
    /\ reader.state = "running" /\ stack[0] = <<>>
    /\ reader' = [reader EXCEPT !.state = IF channel = "closed" THEN "stuck" ELSE "looping"]
    /\ UNCHANGED <<inputVars, shellVars>>

\* The answer is written; on a closed channel that raises and ends the loop.
Respond ==
    /\ reader.state = "running" /\ stack[0] = <<>>
    /\ reader' = [reader EXCEPT !.state = IF channel = "closed" THEN "idle" ELSE "looping"]
    /\ UNCHANGED <<inputVars, shellVars>>

EndOfBuffer ==
    /\ reader.state = "looping" /\ Feeds = {}
    /\ reader' = [reader EXCEPT !.state = "idle"]
    /\ UNCHANGED <<inputVars, shellVars>>

\* _close_session, ten milliseconds after exit
CloseSession ==
    /\ channel = "closing"
    /\ channel' = "closed"
    /\ UNCHANGED <<typed, sent, waiting, reader, buf, taken, shellVars>>

\* The client hangs up: _handle_shell_session reaches the end of stdin and logs
\* session.end.  The tasks of the session go on.
HangUp ==
    /\ channel # "closed"
    /\ channel' = "closed"
    /\ UNCHANGED <<typed, sent, waiting, reader, buf, taken, shellVars>>

ReaderStep ==
    \/ AcquireLock \/ AppendChunk
    \/ \E cut \in DOMAIN buf : TakeBlank(cut) \/ TakeExit(cut) \/ TakeLine(cut)
    \/ Respond \/ EndOfBuffer

ShellNext ==
    \/ \E n \in 1..(2 * Len(typed)) : DataReceived(n)
    \/ ReaderStep
    \/ CloseSession \/ HangUp
    \/ \E r \in Runners : Step(r)
    \/ \E j \in 1..MaxJobs : StartJob(j) \/ RefuseJob(j)

ShellSpec == ShellInit /\ [][ShellNext]_vars

-----------------------------------------------------------------------------
\* What was typed is cut into lines without loss, doubling or exchange, however it
\* arrives: tasks of data_received do not overtake each other, and what an exit or an
\* error leaves in buf stays in its place.  A line ends where the client ended one; it
\* reaches over an earlier end only if that was a carriage return and its own is a line
\* feed.  (Then the chunks decide: "a\rb\n" is one line in one chunk and two in two.)
Begin(k) == IF k = 1 THEN 0 ELSE Last(taken[k - 1])
LinesInOrder ==
    \A k \in DOMAIN taken :
        /\ taken[k] # <<>> /\ \A i \in DOMAIN taken[k] : taken[k][i] = Begin(k) + i
        /\ Last(taken[k]) % 2 = 0
        /\ \A i \in 1..(Len(taken[k]) - 1) : taken[k][i] % 2 = 0 =>
                /\ typed[LineNumber(taken[k][i])].feed = "CR"
                /\ typed[LineNumber(Last(taken[k]))].feed = "LF"

\* The chains under way; the stack of a runner holds a chain, a script, a chain
\* of the script.
ChainFrames == {f \in UNION {{stack[r][i] : i \in DOMAIN stack[r]} : r \in Runners} : f.kind = "chain"}

Follows(f) == \A j \in DOMAIN f.log : Ran(f.log, j) <=> ShellRuns(f.nodes, f.log, j)

\* As long as no command was skipped, _execute_nodes runs what a shell runs, and runs
\* what a shell does not run only if && or || or & stands behind it.  So two commands
\* with nothing behind them are run as in a shell.
PlainChainsFollowShell ==
    \A f \in ChainFrames : \A j \in DOMAIN f.log :
        (\A i \in 1..(j - 1) : Ran(f.log, i)) =>
            /\ ShellRuns(f.nodes, f.log, j) => Ran(f.log, j)
            /\ Ran(f.log, j) => ShellRuns(f.nodes, f.log, j) \/ f.nodes[j].op \in {"&&", "||", "&"}

\* The documentation's reading of && and ||, for every chain.
\* docs/developer-reference/vfs/shell_emulator.md: && "stops on failure".
ChainsFollowShell == \A f \in ChainFrames : Follows(f)

\* A command below /root runs at most once for every time its password was
\* asked for, also when a job and the session submit lines at the same time:
\* execute clears the prompt before it awaits the command.
AuthorisedOnce ==
    authorised + (IF emulator.callback = "auth" THEN 1 ELSE 0) <= asked

\* What has been received is dealt with, whatever the commands do and whether
\* or not the client is still there: no task keeps the lock.
InputIsServed == (waiting # <<>> \/ reader.state # "idle") ~> (waiting = <<>> /\ reader.state = "idle")

\* Commands return, ready tasks run.  The client owes nothing.
ShellFairness ==
    /\ WF_vars(ReaderStep)
    /\ \A r \in Runners : WF_vars(Step(r))
ShellFairSpec == ShellSpec /\ ShellFairness
=============================================================================
