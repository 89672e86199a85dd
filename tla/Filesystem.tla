----------------------------- MODULE Filesystem -----------------------------
(***************************************************************************)
(* The virtual file system of one client address (vfs/engine.py) and the   *)
(* commands that change it.  A path is looked up in four layers: the set   *)
(* of deleted paths, the memory overlay, the profile's generated files and *)
(* the rows of the profile's database; only the first two ever change.     *)
(*                                                                         *)
(* Every method of the engine is synchronous.  A recursive copy is written *)
(* as the stack of its calls, one step per entry of a directory, and no    *)
(* other operation runs until the stack is empty.  Owner, permissions,     *)
(* size and time of a node are left out: no lookup depends on them.        *)
(***************************************************************************)
EXTENDS Naturals, Sequences

CONSTANTS
    Names,           \* path components; sorted() is their order as numbers
    Paths,           \* bound: the paths that commands name
    Contents,        \* contents of files
    Rows,            \* the profile database: path -> [type, content]
    Dynamic,         \* dynamic_files of the profile: path -> [type, content]
    SystemFiles,     \* path -> [type, content]: the overlay of a new filesystem
    RecursionLimit,  \* nested calls of _copy_recursive that Python lets happen
    MaxOps           \* bound: operations per behaviour

Root == <<>>

Parent(p) == SubSeq(p, 1, Len(p) - 1)

Basename(p) == p[Len(p)]

\* d is p or one of the directories p is in.
Under(d, p) == Len(d) <= Len(p) /\ SubSeq(p, 1, Len(d)) = d

Steps(p) == {SubSeq(p, 1, i) : i \in 1..Len(p)}

Node == [type : {"dir", "file"}, content : Contents]

Dir == [type |-> "dir", content |-> ""]

ASSUME NamesAssumption ==
    /\ Names \subseteq Nat
    /\ Paths \subseteq Seq(Names)
    /\ "" \in Contents

ASSUME BoundsAssumption == RecursionLimit \in Nat \ {0} /\ MaxOps \in Nat

\* The root has no row.  Any other directory may have one or not: tree_folders, the
\* paths under "static" and the generators name a path and not what it is in.
ASSUME RowsAssumption ==
    /\ \A p \in DOMAIN Rows : p \in Seq(Names) \ {Root} /\ Rows[p] \in Node
    /\ \A p \in DOMAIN Rows : Rows[p].type = "dir" => Rows[p] = Dir

ASSUME DynamicAssumption ==
    \A p \in DOMAIN Dynamic :
        /\ p \in Seq(Names) \ {Root}
        /\ Dynamic[p] \in [type : {"file", "generated"}, content : Contents]

\* What the constructor puts into a new overlay: /etc/passwd and /etc/group, the
\* saved history of the address, the homes of the configured users.
ASSUME SystemFilesAssumption ==
    /\ SystemFiles = [p \in DOMAIN SystemFiles |-> SystemFiles[p]]
    /\ \A p \in DOMAIN SystemFiles : p \in Seq(Names) \ {Root} /\ SystemFiles[p] \in Node

\* Directories that exist because a row names them as its parent, and only so: the
\* listing of the directory they are in does not have them.
Unrowed ==
    {Parent(r) : r \in DOMAIN Rows} \ ({Root} \cup DOMAIN Rows \cup DOMAIN Dynamic)

\* Directories on the way to what the profile or the constructor has that do not
\* exist themselves.  The rhel profile has one, /proc, for its dynamic files.
Implied ==
    {q \in UNION {Steps(p) : p \in DOMAIN Rows \cup DOMAIN Dynamic \cup DOMAIN SystemFiles} :
        q \notin DOMAIN Rows \cup DOMAIN Dynamic \cup DOMAIN SystemFiles \cup Unrowed}

VARIABLES
    fs,     \* [memory_overlay, deleted_paths] of the FakeFilesystem
    work,   \* stack of directory copies under way: [src, dst, todo]
    job,    \* the command that copies: [op, src, dst, fresh]
    ops     \* operations so far

fsVars == <<fs, work, job, ops>>

IsLayers(L) ==
    /\ L = [memory_overlay |-> L.memory_overlay, deleted_paths |-> L.deleted_paths]
    /\ L.memory_overlay = [p \in DOMAIN L.memory_overlay |-> L.memory_overlay[p]]
    /\ \A p \in DOMAIN L.memory_overlay : p \in Seq(Names) /\ L.memory_overlay[p] \in Node
    /\ \A p \in L.deleted_paths : p \in Seq(Names)

Frame == [src : Seq(Names), dst : Seq(Names), todo : SUBSET Names]

NoJob == [op |-> "none", src |-> Root, dst |-> Root, fresh |-> FALSE]

-----------------------------------------------------------------------------
(* Lookups.  L is a [memory_overlay, deleted_paths] record.                *)

\* SqliteBackend.exists: a row, or a row that names p as its parent.
BackendExists(p) == p \in DOMAIN Rows \/ \E r \in DOMAIN Rows : Parent(r) = p

exists(L, p) ==
    /\ p \notin L.deleted_paths
    /\ \/ p = Root
       \/ p \in DOMAIN L.memory_overlay
       \/ p \in DOMAIN Dynamic
       \/ BackendExists(p)

\* What the first layer below deleted_paths that knows p has for it.
get_node(L, p) ==
    IF p \in DOMAIN L.memory_overlay THEN L.memory_overlay[p]
    ELSE IF p \in DOMAIN Dynamic THEN Dynamic[p]
    ELSE IF p \in DOMAIN Rows THEN Rows[p]
    ELSE Dir

\* Asks for the root before it asks the layers.
is_dir(L, p) ==
    /\ p \notin L.deleted_paths
    /\ p = Root \/ (exists(L, p) /\ get_node(L, p).type = "dir")

\* A generated file is no "file": neither is_file nor is_dir holds of it.
is_file(L, p) == exists(L, p) /\ get_node(L, p).type = "file"

\* Nothing to read at a missing path, and no error: the content is empty.
get_content(L, p) ==
    IF exists(L, p) /\ get_node(L, p).type # "dir" THEN get_node(L, p).content ELSE ""

\* Mutant of list_dir: deleted names are not filtered out.
ListedWithDeleted(L, d) ==
    IF ~is_dir(L, d) THEN {}
    ELSE {n \in Names : \/ Append(d, n) \in DOMAIN Rows
                        \/ \E p \in DOMAIN Dynamic \cup DOMAIN L.memory_overlay : Under(Append(d, n), p)}

\* The database is asked for children; in the other two layers every path
\* below d contributes its first component after d.
list_dir(L, d) ==
    IF ~is_dir(L, d) THEN {}
    ELSE {n \in Names :
            /\ Append(d, n) \notin L.deleted_paths
            /\ \/ Append(d, n) \in DOMAIN Rows
               \/ \E p \in DOMAIN Dynamic \cup DOMAIN L.memory_overlay : Under(Append(d, n), p)}

\* The listing of its directory has p.
InListing(L, p) == Basename(p) \in list_dir(L, Parent(p))

\* The paths that exist.
Seen(L) ==
    {p \in {Root} \cup DOMAIN L.memory_overlay \cup DOMAIN Dynamic \cup DOMAIN Rows \cup Unrowed :
        p \notin L.deleted_paths}

-----------------------------------------------------------------------------
(* Operations of the engine                                                *)

\* Mutant of mkfile: the path stays deleted.
MkfileStaysDeleted(L, p, c) ==
    IF ~is_dir(L, Parent(p)) THEN L
    ELSE [L EXCEPT !.memory_overlay =
            [q \in DOMAIN @ \cup {p} |-> IF q = p THEN [type |-> "file", content |-> c] ELSE @[q]]]

\* Nothing is written when the parent is missing or no directory; whatever
\* was at p, a directory included, is replaced.  The root is its own parent.
mkfile(L, p, c) ==
    IF ~is_dir(L, Parent(p)) THEN L
    ELSE [memory_overlay |->
            [q \in DOMAIN L.memory_overlay \cup {p} |->
                IF q = p THEN [type |-> "file", content |-> c] ELSE L.memory_overlay[q]],
          deleted_paths |-> L.deleted_paths \ {p}]

mkdir_p(L, p) ==
    LET made == {q \in Steps(p) : ~exists(L, q) \/ is_file(L, q)}
    IN  [memory_overlay |->
            [q \in DOMAIN L.memory_overlay \cup made |->
                IF q \in made THEN Dir ELSE L.memory_overlay[q]],
         deleted_paths |-> L.deleted_paths \ made]

\* Only p itself: what is below p stays in its layer.
remove(L, p) ==
    IF p = Root \/ ~exists(L, p) THEN L
    ELSE [memory_overlay |-> [q \in DOMAIN L.memory_overlay \ {p} |-> L.memory_overlay[q]],
          deleted_paths |-> L.deleted_paths \cup {p}]

\* Mutant of chmod: the copy in the overlay has no content.
ChmodEmpties(L, p) ==
    IF ~exists(L, p) \/ p \in DOMAIN L.memory_overlay THEN L
    ELSE [L EXCEPT !.memory_overlay =
            [q \in DOMAIN @ \cup {p} |-> IF q = p THEN [get_node(L, p) EXCEPT !.content = ""] ELSE @[q]]]

\* chmod and chown: a node of a lower layer is first copied into the overlay,
\* as a plain file with its content of now if it was a generated one.
chmod(L, p) ==
    IF ~exists(L, p) \/ p \in DOMAIN L.memory_overlay THEN L
    ELSE [memory_overlay |->
            [q \in DOMAIN L.memory_overlay \cup {p} |->
                IF q # p THEN L.memory_overlay[q]
                ELSE IF get_node(L, p).type = "dir" THEN Dir
                ELSE [type |-> "file", content |-> get_content(L, p)]],
          deleted_paths |-> L.deleted_paths]

-----------------------------------------------------------------------------
(* Commands                                                                *)

Ready == work = <<>> /\ ops < MaxOps

\* A command that is one step of the event loop.
Becomes(L) ==
    /\ Ready
    /\ fs' = L
    /\ ops' = ops + 1
    /\ UNCHANGED <<work, job>>

\* touch, redirections, downloads and uploads.
Touch(p, c) == Becomes(mkfile(fs, p, c))

\* The editor makes the directory of the file it saves.
EditorSave(p, c) == Becomes(mkfile(mkdir_p(fs, Parent(p)), p, c))

Mkdir(p, parents) ==
    /\ ~exists(fs, p)
    /\ parents \/ is_dir(fs, Parent(p))
    /\ Becomes(mkdir_p(fs, p))

\* The sftp and scp front ends ask nothing first.
UploadMkdir(p) == Becomes(mkdir_p(fs, p))

Rm(p, recursive) ==
    /\ exists(fs, p)
    /\ get_node(fs, p).type = "dir" => recursive
    /\ Becomes(remove(fs, p))

Rmdir(p) ==
    /\ is_dir(fs, p)
    /\ list_dir(fs, p) = {}
    /\ Becomes(remove(fs, p))

Chmod(p) == exists(fs, p) /\ Becomes(chmod(fs, p))

\* Into an existing directory.  The root has no name of its own.
Target(src, dst) ==
    IF ~is_dir(fs, dst) \/ src = Root THEN dst ELSE Append(dst, Basename(src))

\* copy and move of what is no directory: the answer of mkfile is not looked at.
CopyFile(op, src, dst) ==
    LET copied == mkfile(fs, Target(src, dst), get_content(fs, src))
    IN  /\ exists(fs, src) /\ ~is_dir(fs, src)
        /\ Becomes(IF op = "mv" THEN remove(copied, src) ELSE copied)

\* A copy that starts on free ground, away from its source.
Fresh(src, dst) ==
    /\ \A p \in Seen(fs) : ~Under(dst, p)
    /\ ~Under(src, dst) /\ ~Under(dst, src)

EnsureDir(dst) == IF exists(fs, dst) THEN fs ELSE mkdir_p(fs, dst)

CopyDir(op, src, dst) ==
    LET t == Target(src, dst)
    IN  /\ Ready
        /\ is_dir(fs, src)
        /\ ~is_file(fs, t)
        /\ fs' = EnsureDir(t)
        /\ work' = <<[src |-> src, dst |-> t, todo |-> list_dir(fs', src)]>>
        /\ job' = [op |-> op, src |-> src, dst |-> t, fresh |-> Fresh(src, t)]
        /\ ops' = ops + 1

-----------------------------------------------------------------------------
(* The loop of copy and of _copy_recursive                                 *)

Top == work[Len(work)]

\* Entries are copied in sorted order.
First(n) == work # <<>> /\ n \in Top.todo /\ \A m \in Top.todo : n <= m

Advanced(n) == [work EXCEPT ![Len(work)].todo = @ \ {n}]

CopyEntry(n) ==
    /\ First(n)
    /\ ~is_dir(fs, Append(Top.src, n))
    /\ fs' = mkfile(fs, Append(Top.dst, n), get_content(fs, Append(Top.src, n)))
    /\ work' = Advanced(n)
    /\ UNCHANGED <<job, ops>>

\* Mutant of EnterDir: an empty directory is not made.
EnterDirLazily(n) ==
    LET s == Append(Top.src, n)
        d == Append(Top.dst, n)
    IN  /\ First(n)
        /\ is_dir(fs, s)
        /\ Len(work) < RecursionLimit
        /\ fs' = IF list_dir(fs, s) = {} THEN fs ELSE EnsureDir(d)
        /\ work' = Append(Advanced(n), [src |-> s, dst |-> d, todo |-> list_dir(fs', s)])
        /\ UNCHANGED <<job, ops>>

EnterDir(n) ==
    LET s == Append(Top.src, n)
        d == Append(Top.dst, n)
    IN  /\ First(n)
        /\ is_dir(fs, s)
        /\ Len(work) < RecursionLimit
        /\ fs' = EnsureDir(d)
        /\ work' = Append(Advanced(n), [src |-> s, dst |-> d, todo |-> list_dir(fs', s)])
        /\ UNCHANGED <<job, ops>>

\* RecursionError: the command fails and what was copied so far stays.
TooDeep(n) ==
    /\ First(n)
    /\ is_dir(fs, Append(Top.src, n))
    /\ Len(work) = RecursionLimit
    /\ work' = <<>>
    /\ job' = NoJob
    /\ UNCHANGED <<fs, ops>>

LeaveDir ==
    /\ Len(work) > 1 /\ Top.todo = {}
    /\ work' = SubSeq(work, 1, Len(work) - 1)
    /\ UNCHANGED <<fs, job, ops>>

\* move removes its source, and only the source's own path.
CopyDone ==
    /\ Len(work) = 1 /\ Top.todo = {}
    /\ fs' = IF job.op = "mv" THEN remove(fs, job.src) ELSE fs
    /\ work' = <<>>
    /\ job' = NoJob
    /\ UNCHANGED ops

CopyStep ==
    \/ \E n \in Names : CopyEntry(n) \/ EnterDir(n) \/ TooDeep(n)
    \/ LeaveDir
    \/ CopyDone

-----------------------------------------------------------------------------

Init ==
    /\ fs = [memory_overlay |-> SystemFiles, deleted_paths |-> {}]
    /\ work = <<>>
    /\ job = NoJob
    /\ ops = 0

Command ==
    \E p \in Paths :
        \/ \E c \in Contents : Touch(p, c) \/ EditorSave(p, c)
        \/ \E parents \in BOOLEAN : Mkdir(p, parents)
        \/ UploadMkdir(p)
        \/ \E recursive \in BOOLEAN : Rm(p, recursive)
        \/ Rmdir(p)
        \/ Chmod(p)
        \/ \E op \in {"cp", "mv"}, dst \in Paths : CopyFile(op, p, dst) \/ CopyDir(op, p, dst)

Next == Command \/ CopyStep

Spec == Init /\ [][Next]_fsVars

-----------------------------------------------------------------------------
(* Properties                                                              *)

\* The overlay holds plain files and directories only, deleted paths are
\* paths, and the stack of a copy is never deeper than Python allows.
FsTypeOK ==
    /\ IsLayers(fs)
    /\ work \in Seq(Frame) /\ Len(work) <= RecursionLimit
    /\ job \in [op : {"none", "cp", "mv"}, src : Seq(Names), dst : Seq(Names), fresh : BOOLEAN]
    /\ ops \in 0..MaxOps

\* The documented order of the layers asks the overlay first and the deleted
\* paths second, the code (get_node, exists, is_dir, ...) does the opposite.
\* They agree because no path is in both, whatever is removed and made again.
\* The root is never deleted.
LayersDisjoint ==
    /\ DOMAIN fs.memory_overlay \cap fs.deleted_paths = {}
    /\ Root \notin fs.deleted_paths

View(L) == [p \in Seen(L) |-> get_node(L, p)]

\* ls and stat agree but for directories that the profile gives no row: one that a
\* row names as its parent exists unlisted until something puts it into the overlay,
\* one further up may be listed and does not exist.  What keeps it true of all other
\* paths is that an overlay entry whose directory was removed stays behind a deleted
\* path until that path exists again.
ListingMatchesLookup ==
    \A d \in Seen(fs) : is_dir(fs, d) =>
        LET listed == list_dir(fs, d)
        IN  \A n \in Names :
                LET p == Append(d, n)
                IN  /\ exists(fs, p) => n \in listed \/ p \in Unrowed \ DOMAIN fs.memory_overlay
                    /\ n \in listed => exists(fs, p) \/ p \in Implied

\* What can be reached from src by listing one directory after the other.
Reached(src) ==
    {p \in Seen(fs) :
        Under(src, p) /\ \A q \in Steps(p) \ Steps(src) : Under(src, q) => InListing(fs, q)}

Moved(p, src, dst) == dst \o SubSeq(p, Len(src) + 1, Len(p))

Plain(node) == IF node.type = "dir" THEN Dir ELSE [type |-> "file", content |-> node.content]

\* When a recursive copy (cp -r, mv, sftp rename of a directory) reaches its
\* end, a destination that was free holds a copy of all that listings reach from
\* the source, and nothing else but an empty file for a directory that is listed
\* and does not exist.
CopyIsFaithful ==
    Len(work) = 1 /\ work[1].todo = {} /\ job.fresh =>
        /\ \A p \in Reached(job.src) :
            LET q == Moved(p, job.src, job.dst)
            IN  exists(fs, q) /\ get_node(fs, q) = Plain(get_node(fs, p))
        /\ \A q \in Seen(fs) : Under(job.dst, q) =>
            \E p \in Reached(job.src) \cup Implied :
                Under(job.src, p) /\ q = Moved(p, job.src, job.dst)

\* No step of a recursive copy changes a path outside the destination, but
\* for a missing directory on the way to it that is made again.
CopyStaysInside ==
    [][ (\E n \in Names : CopyEntry(n) \/ EnterDir(n)) =>
          \A p \in Seen(fs) \cup Seen(fs') :
            \/ Under(job.dst, p)
            \/ p \in Seen(fs) /\ p \in Seen(fs') /\ get_node(fs, p) = get_node(fs', p)
            \/ p \in Steps(job.dst) /\ is_dir(fs', p) ]_fsVars

\* The four layers behave as one table that is changed in place.
Map == INSTANCE PathMap WITH
            view <- View(fs),
            Start <- View([memory_overlay |-> SystemFiles, deleted_paths |-> {}])

ImplementsPathMap == Map!Spec
=============================================================================
