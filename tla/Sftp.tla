-------------------------------- MODULE Sftp --------------------------------
(***************************************************************************)
(* CyanideSFTPHandler of vfs/sftp.py, for one SFTP channel.  A handle is a *)
(* copy of the file in memory; closing it puts the copy into the virtual   *)
(* filesystem and hands it to the quarantine.                              *)
(*                                                                         *)
(* asyncssh starts a task per request, in the order of the requests.       *)
(* open, write, close and rename do not await and run at once; remove      *)
(* begins with sleep(0), so requests sent after it can overtake it.        *)
(*                                                                         *)
(* Of a content only its size is kept, in the cells of Quarantine, and     *)
(* whether it has a gap that write filled with zeros.  The paths are files *)
(* of one existing directory; mkdir_p and list_dir are in Filesystem.      *)
(***************************************************************************)
EXTENDS Quarantine

CONSTANTS
    SftpAllowed,    \* which of "upload", "download" ssh.allow_* permits
    UploadLimit,    \* ssh.max_total_upload_mb_per_session, which write applies per handle
    MaxHandles      \* bound: open requests

ASSUME SftpAssumption == UploadLimit \in Nat /\ MaxHandles \in Nat

VARIABLES
    file_handles,   \* handle number -> [path, size, is_write, gap]
    next_handle_id,
    vfs,            \* path -> [size, gap] of the files there are
    removing        \* paths of remove requests that are at their sleep(0)

sftpVars == <<file_handles, next_handle_id, vfs, removing>>

Smaller(m, n) == IF m < n THEN m ELSE n

\* There is a file already, no larger than an upload may be.
SftpInit ==
    /\ file_handles = [h \in {} |-> <<>>]
    /\ next_handle_id = 0
    /\ \E p \in QNames : vfs = [q \in {p} |-> [size |-> Smaller(1, UploadLimit), gap |-> FALSE]]
    /\ removing = <<>>

Larger(m, n) == IF m > n THEN m ELSE n

Empty == [size |-> 0, gap |-> FALSE]

Permitted(is_write) == (IF is_write THEN "upload" ELSE "download") \in SftpAllowed

\* What a path has now; nothing where there is no file.
Content(p) == IF p \in DOMAIN vfs THEN vfs[p] ELSE Empty

\* FXF_WRITE, FXF_CREAT or FXF_TRUNC make a handle for writing; without FXF_TRUNC
\* it begins with what the file has now.
SftpOpen(p, is_write, trunc) ==
    /\ next_handle_id < MaxHandles
    /\ Permitted(is_write)
    /\ is_write \/ p \in DOMAIN vfs
    /\ LET content == IF is_write /\ trunc THEN Empty ELSE Content(p)
       IN  file_handles' = Override(file_handles, next_handle_id,
                [path |-> p, size |-> content.size, gap |-> content.gap, is_write |-> is_write])
    /\ next_handle_id' = next_handle_id + 1
    /\ UNCHANGED <<vfs, removing, qVars>>

\* Mutant of SftpWrite: the limit is tested against the chunk alone.
SftpWriteChunkwise(h, offset, length) ==
    /\ h \in DOMAIN file_handles /\ file_handles[h].is_write
    /\ length <= UploadLimit
    /\ file_handles' = [file_handles EXCEPT
            ![h].size = Larger(@, offset + length),
            ![h].gap = @ \/ offset > file_handles[h].size]
    /\ UNCHANGED <<next_handle_id, vfs, removing, qVars>>

\* The limit is tested against the buffer and the chunk, wherever the chunk goes.
SftpWrite(h, offset, length) ==
    /\ h \in DOMAIN file_handles /\ file_handles[h].is_write
    /\ file_handles[h].size + length <= UploadLimit
    /\ file_handles' = [file_handles EXCEPT
            ![h].size = Larger(@, offset + length),
            ![h].gap = @ \/ offset > file_handles[h].size]
    /\ UNCHANGED <<next_handle_id, vfs, removing, qVars>>

SftpClose(h) ==
    /\ h \in DOMAIN file_handles
    /\ file_handles' = [k \in DOMAIN file_handles \ {h} |-> file_handles[k]]
    /\ LET fh == file_handles[h]
       IN  IF fh.is_write
           THEN /\ vfs' = Override(vfs, fh.path, [size |-> fh.size, gap |-> fh.gap])
                /\ Quarantined(fh.path, fh.size)
           ELSE UNCHANGED <<vfs, qVars>>
    /\ UNCHANGED <<next_handle_id, removing>>

SftpRemove(p) ==
    /\ Len(removing) < 1    \* bound: one remove request at a time
    /\ removing' = Append(removing, p)
    /\ UNCHANGED <<file_handles, next_handle_id, vfs, qVars>>

\* FakeFilesystem.remove; a path that is gone by now is an error for the client.
SftpRemoved ==
    /\ removing # <<>>
    /\ removing' = Tail(removing)
    /\ vfs' = [q \in DOMAIN vfs \ {Head(removing)} |-> vfs[q]]
    /\ UNCHANGED <<file_handles, next_handle_id, qVars>>

\* FakeFilesystem.move: a copy, and then the source is removed, the copy too if it
\* has the same path.
SftpRename(p, np) ==
    /\ p \in DOMAIN vfs
    /\ vfs' = [q \in (DOMAIN vfs \cup {np}) \ {p} |-> IF q = np THEN vfs[p] ELSE vfs[q]]
    /\ UNCHANGED <<file_handles, next_handle_id, removing, qVars>>

\* The channel closes: its handles, and what was written to them, are dropped.
SftpLost ==
    /\ next_handle_id < MaxHandles
    /\ next_handle_id' = MaxHandles
    /\ file_handles' = [h \in {} |-> <<>>]
    /\ UNCHANGED <<vfs, removing, qVars>>

SftpNext ==
    \/ \E p \in QNames, is_write, trunc \in BOOLEAN : SftpOpen(p, is_write, trunc)
    \/ \E h \in 0..MaxHandles, offset \in 0..(UploadLimit + 1), length \in QSizes :
            SftpWrite(h, offset, length)
    \/ \E h \in 0..MaxHandles : SftpClose(h)
    \/ \E p \in QNames : SftpRemove(p)
    \/ SftpRemoved
    \/ \E p, np \in QNames : SftpRename(p, np)
    \/ SftpLost

-----------------------------------------------------------------------------
\* How far the limit for uploads reaches.  The setting (max_total_upload_mb_per_session)
\* and the error ("Session upload limit exceeded") speak of a session; write compares
\* the limit with one handle's buffer plus the chunk, wherever the chunk goes.  So it
\* bounds no session: two handles exceed it together.  It bounds every file and every
\* handle that was written without gaps, over any number of handles that continue or
\* rename each other's files; a gap gets past it.
OnlyGapsExceedLimit ==
    /\ \A p \in DOMAIN vfs : vfs[p].gap \/ vfs[p].size <= UploadLimit
    /\ \A h \in DOMAIN file_handles : file_handles[h].gap \/ file_handles[h].size <= UploadLimit
=============================================================================
