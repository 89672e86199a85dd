--------------------------------- MODULE Scp ---------------------------------
(***************************************************************************)
(* ScpHandler of vfs/scp.py: the sink of uploads (scp -t) and the source   *)
(* of downloads (scp -f), with a client that sends what it likes.  Paths   *)
(* are sequences of names below the path that the command names.           *)
(***************************************************************************)
EXTENDS Quarantine

CONSTANTS
    Listing,        \* source: directory -> what list_dir gives for it; other paths are files
    MaxHeaders,     \* bound: headers of an upload
    Malformed,      \* what a header has for a name that its pattern does not match
    RefusalBytes    \* bytes of the client's "\x01<text>\n", none of them "\0"

ASSUME ScpAssumption == RefusalBytes \in Nat \ {0}

VARIABLES
    scp,            \* where handle() is; rc0 and rc1: it has returned
    sink,           \* [base, dir_stack, name, left, got]
    opened,         \* history: the client's D headers without their E yet
    headers,        \* headers so far
    dirs,           \* directories of the filesystem
    files,          \* files an upload stored
    frames,         \* source: the directories being sent, [dir, todo]
    sent,           \* source: messages sent that the client has to acknowledge
    unanswered,     \* those it has not yet acknowledged
    acks,           \* bytes of the client's answers on their way: [of, ok], ok for "\0"
    hung_up,        \* the client has closed its side
    late,           \* history: a final acknowledgement was not waited for any longer
    refused,        \* history: the client refused a message
    mismatch        \* history: an acknowledgement was taken for that of another message

sinkVars == <<sink, opened, headers, dirs, files>>
sourceVars == <<frames, sent, unanswered, acks, late, refused, mismatch>>
scpVars == <<scp, sinkVars, sourceVars, hung_up>>

Target == <<>>

ScpInit ==
    /\ scp = "start"
    /\ sink = [base |-> Target, dir_stack |-> <<>>, name |-> Malformed, left |-> 0, got |-> 0]
    /\ opened = <<>>
    /\ headers = 0
    /\ dirs \in {{}, {Target}}
    /\ files = [p \in {} |-> 0]
    /\ frames = <<>>
    /\ sent = 0
    /\ unanswered = <<>>
    /\ acks = <<>>
    /\ hung_up = FALSE
    /\ late = FALSE
    /\ refused = FALSE
    /\ mismatch = FALSE

-----------------------------------------------------------------------------
(* The sink                                                                *)

\* handle: -f before -t; neither is an error.
ScpUsage ==
    /\ scp = "start"
    /\ scp' = "rc1"
    /\ UNCHANGED <<sinkVars, sourceVars, hung_up, qVars>>

SinkStart ==
    /\ scp = "start"
    /\ scp' = "header"
    /\ sink' = [sink EXCEPT !.dir_stack = <<Target>>]
    /\ UNCHANGED <<opened, headers, dirs, files, sourceVars, hung_up, qVars>>

Header ==
    /\ scp = "header" /\ ~hung_up
    /\ headers < MaxHeaders
    /\ headers' = headers + 1

\* C: the size is acknowledged and then that much data is read.
CopyHeader(name, size) ==
    /\ Header
    /\ IF name = Malformed
       THEN scp' = "rc1" /\ UNCHANGED sink
       ELSE scp' = "data" /\ sink' = [sink EXCEPT !.name = name, !.left = size, !.got = 0]
    /\ UNCHANGED <<opened, dirs, files, sourceVars, hung_up, qVars>>

FileData ==
    /\ scp = "data" /\ ~hung_up
    /\ \E n \in 1..sink.left : sink' = [sink EXCEPT !.left = @ - n, !.got = @ + n]
    /\ UNCHANGED <<scp, opened, headers, dirs, files, sourceVars, hung_up, qVars>>

\* _save_to_vfs: mkfile does nothing, and says nothing, below a missing directory.
Stored(target) ==
    IF target = Target \/ SubSeq(target, 1, Len(target) - 1) \in dirs
    THEN Override(files, target, sink.got)
    ELSE files

\* All of it, or all there is when the client has hung up, is stored and handed to
\* the quarantine.
FileReceived ==
    /\ scp = "data"
    /\ sink.left = 0 \/ hung_up
    /\ files' = Stored(IF sink.base \in dirs THEN Append(sink.base, sink.name) ELSE sink.base)
    /\ Quarantined(sink.name, sink.got)
    /\ scp' = "header"
    /\ UNCHANGED <<sink, opened, headers, dirs, sourceVars, hung_up>>

\* Mutant of DirHeader: the new directory is pushed instead of the old one.
DirHeaderPushesNew(name) ==
    /\ Header
    /\ opened' = Append(opened, name)
    /\ LET base == IF name = Malformed THEN sink.base ELSE Append(sink.base, name)
       IN  /\ sink' = [sink EXCEPT !.dir_stack = Append(@, base), !.base = base]
           /\ dirs' = IF name = Malformed THEN dirs ELSE dirs \cup {SubSeq(base, 1, i) : i \in 0..Len(base)}
    /\ UNCHANGED <<scp, files, sourceVars, hung_up, qVars>>

\* D: mkdir_p makes the directory and the ones it is in.  A header that does not
\* match is pushed too, and the base stays.
DirHeader(name) ==
    /\ Header
    /\ opened' = Append(opened, name)
    /\ LET base == IF name = Malformed THEN sink.base ELSE Append(sink.base, name)
       IN  /\ sink' = [sink EXCEPT !.dir_stack = Append(@, sink.base), !.base = base]
           /\ dirs' = IF name = Malformed THEN dirs ELSE dirs \cup {SubSeq(base, 1, i) : i \in 0..Len(base)}
    /\ UNCHANGED <<scp, files, sourceVars, hung_up, qVars>>

\* E: the loop ends with the entry that was there at the start.
EndHeader ==
    /\ Header
    /\ LET top == Len(sink.dir_stack)
           rest == SubSeq(sink.dir_stack, 1, top - 1)
       IN  /\ sink' = [sink EXCEPT !.base = sink.dir_stack[top], !.dir_stack = rest]
           /\ scp' = IF rest = <<>> THEN "rc0" ELSE "header"
    /\ opened' = SubSeq(opened, 1, Len(opened) - 1)
    /\ UNCHANGED <<dirs, files, sourceVars, hung_up, qVars>>

\* T is acknowledged, anything else ends the handler.
OtherHeader ==
    /\ Header
    /\ scp' \in {"header", "rc1"}
    /\ UNCHANGED <<sink, opened, dirs, files, sourceVars, hung_up, qVars>>

SinkEof ==
    /\ scp = "header" /\ hung_up
    /\ scp' = "rc0"
    /\ UNCHANGED <<sinkVars, sourceVars, hung_up, qVars>>

-----------------------------------------------------------------------------
(* The source                                                              *)

SourceStart ==
    /\ scp = "start"
    /\ scp' \in {"initial", "rc1"}    \* rc1: there is nothing at the path
    /\ unanswered' = IF scp' = "initial" THEN <<0>> ELSE <<>>
    /\ UNCHANGED <<sinkVars, frames, sent, acks, late, refused, mismatch, hung_up, qVars>>

\* The messages, D header, C header, file data and E, are numbered.
Send ==
    /\ sent' = sent + 1
    /\ unanswered' = Append(unanswered, sent + 1)

\* _send_directory or _send_file of a path.
SendHeader(path, above) ==
    /\ scp' = IF path \in DOMAIN Listing THEN "D" ELSE "C"
    /\ frames' = Append(above, [dir |-> path, todo |-> <<>>])
    /\ Send

\* The loop of the innermost directory goes on with its next entry or with E.
Proceed(above) ==
    IF above = <<>>
    THEN scp' = "rc0" /\ frames' = above /\ UNCHANGED <<sent, unanswered>>
    ELSE LET top == above[Len(above)]
         IN  IF top.todo = <<>>
             THEN scp' = "E" /\ frames' = above /\ Send
             ELSE SendHeader(Append(top.dir, Head(top.todo)),
                             [above EXCEPT ![Len(above)].todo = Tail(top.todo)])

\* _read(1) gives one byte, whichever is next, or nothing when the client has hung
\* up.  What follows the first byte of a refusal stays in the stream.
Take(answer) ==
    \/ /\ acks # <<>>
       /\ answer = IF Head(acks).ok THEN "ok" ELSE "no"
       /\ acks' = Tail(acks)
       /\ mismatch' = (mismatch \/ Head(acks).of # sent)
    \/ /\ acks = <<>> /\ hung_up
       /\ answer = "no"
       /\ UNCHANGED <<acks, mismatch>>

Outer == SubSeq(frames, 1, Len(frames) - 1)

InitialAck ==
    /\ scp = "initial"
    /\ \/ Take("ok") /\ SendHeader(Target, <<>>)
       \/ Take("no") /\ scp' = "rc1" /\ UNCHANGED <<frames, sent, unanswered>>
    /\ UNCHANGED <<sinkVars, late, refused, hung_up, qVars>>

\* A directory that is refused is left without E.
DirAck ==
    /\ scp = "D"
    /\ LET dir == frames[Len(frames)].dir
       IN  \/ Take("ok") /\ Proceed(Append(Outer, [dir |-> dir, todo |-> Listing[dir]]))
           \/ Take("no") /\ Proceed(Outer)
    /\ UNCHANGED <<sinkVars, late, refused, hung_up, qVars>>

\* A file that is accepted is sent with its end mark.
FileAck ==
    /\ scp = "C"
    /\ \/ Take("ok") /\ scp' = "final" /\ Send /\ UNCHANGED frames
       \/ Take("no") /\ Proceed(Outer)
    /\ UNCHANGED <<sinkVars, late, refused, hung_up, qVars>>

\* Mutant of FinalAck: the final acknowledgement is not read.
FinalAckUnread ==
    /\ scp = "final"
    /\ Proceed(Outer)
    /\ UNCHANGED <<sinkVars, late, refused, acks, mismatch, hung_up, qVars>>

\* The final acknowledgement is waited for for a tenth of a second.
FinalAck ==
    /\ scp = "final"
    /\ \/ \E answer \in {"ok", "no"} : Take(answer) /\ UNCHANGED late
       \/ acks = <<>> /\ late' = TRUE /\ UNCHANGED <<acks, mismatch>>
    /\ Proceed(Outer)
    /\ UNCHANGED <<sinkVars, refused, hung_up, qVars>>

EndAck ==
    /\ scp = "E"
    /\ \E answer \in {"ok", "no"} : Take(answer)
    /\ Proceed(Outer)
    /\ UNCHANGED <<sinkVars, late, refused, hung_up, qVars>>

-----------------------------------------------------------------------------
(* The client                                                              *)

\* The answer to message n: one "\0", or a refusal with its text and line feed.
AnswerBytes(n, ok) == [i \in 1..(IF ok THEN 1 ELSE RefusalBytes) |-> [of |-> n, ok |-> ok]]

ClientAnswers ==
    /\ unanswered # <<>> /\ ~hung_up
    /\ \E ok \in BOOLEAN :
          /\ acks' = acks \o AnswerBytes(Head(unanswered), ok)
          /\ refused' = (refused \/ ~ok)
    /\ unanswered' = Tail(unanswered)
    /\ UNCHANGED <<scp, sinkVars, frames, sent, late, mismatch, hung_up, qVars>>

ClientHangsUp ==
    /\ scp \notin {"start", "rc0", "rc1"} /\ ~hung_up
    /\ hung_up' = TRUE
    /\ UNCHANGED <<scp, sinkVars, sourceVars, qVars>>

ScpServer ==
    \/ FileReceived \/ SinkEof
    \/ InitialAck \/ DirAck \/ FileAck \/ FinalAck \/ EndAck

ScpNext ==
    \/ ScpUsage \/ SinkStart \/ FileData \/ EndHeader \/ OtherHeader
    \/ \E name \in QNames \cup {Malformed}, size \in QSizes : CopyHeader(name, size)
    \/ \E name \in QNames \cup {Malformed} : DirHeader(name)
    \/ SourceStart
    \/ ClientAnswers \/ ClientHangsUp
    \/ ScpServer

-----------------------------------------------------------------------------
\* base is the target with the first n of the names, without the malformed ones.
IsBase(base, names, n) ==
    LET named == {j \in 1..n : names[j] # Malformed}
    IN  /\ Len(base) = Cardinality(named)
        /\ \A j \in named : base[Cardinality({i \in named : i <= j})] = names[j]

\* Files go where the client means them to: the base directory of the sink is the
\* target with the directories that the client has opened and not ended, however D
\* and E headers, malformed ones among them, follow each other.
SinkFollowsClient == scp # "start" => IsBase(sink.base, opened, Len(opened))

\* The source takes every answer for that of the message it last sent, until one of two
\* things puts it out of step for the rest of the transfer: a file's final
\* acknowledgement that took more than its tenth of a second, or a refusal, of which it
\* reads one byte and takes the rest for the answers to the messages that follow.
AcksMatchMessages == mismatch => late \/ refused
=============================================================================
