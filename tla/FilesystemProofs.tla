-------------------------- MODULE FilesystemProofs --------------------------
(***************************************************************************)
(* Theorems about Filesystem, for every profile and every set of names.    *)
(***************************************************************************)
EXTENDS Filesystem, TLAPS

-----------------------------------------------------------------------------
(* Paths                                                                   *)

LEMMA ParentIsPath ==
    ASSUME NEW p \in Seq(Names)
    PROVE  Parent(p) \in Seq(Names)
BY DEF Parent

LEMMA StepsArePaths ==
    ASSUME NEW p \in Seq(Names), NEW q \in Steps(p)
    PROVE  q \in Seq(Names) \ {Root} /\ Len(q) \in 1..Len(p) /\ q = SubSeq(p, 1, Len(q))
BY DEF Steps, Root

\* A path is the last of its own steps.
LEMMA PathIsStep ==
    ASSUME NEW p \in Seq(Names), p # Root
    PROVE  p \in Steps(p) /\ Under(p, p) /\ p = SubSeq(p, 1, Len(p))
BY DEF Steps, Root, Under

LEMMA StepsOfStep ==
    ASSUME NEW p \in Seq(Names), NEW q \in Steps(p), NEW r \in Steps(q)
    PROVE  r \in Steps(p)
<1>1. PICK i \in 1..Len(p) : q = SubSeq(p, 1, i)
    BY DEF Steps
<1>2. PICK j \in 1..Len(q) : r = SubSeq(q, 1, j)
    BY DEF Steps
<1>3. j \in 1..Len(p) /\ SubSeq(q, 1, j) = SubSeq(p, 1, j)
    BY <1>1, <1>2
<1> QED
    BY <1>2, <1>3 DEF Steps

LEMMA StepsOfParent ==
    ASSUME NEW p \in Seq(Names), NEW q \in Steps(p), q # p
    PROVE  q \in Steps(Parent(p))
<1>1. PICK i \in 1..Len(p) : q = SubSeq(p, 1, i)
    BY DEF Steps
<1>2. i # Len(p)
    BY <1>1
<1>3. i \in 1..(Len(p) - 1) /\ Len(Parent(p)) = Len(p) - 1
    BY <1>1, <1>2 DEF Parent
<1>4. SubSeq(Parent(p), 1, i) = SubSeq(p, 1, i)
    BY <1>3 DEF Parent
<1> QED
    BY <1>1, <1>3, <1>4 DEF Steps

LEMMA ParentIsStep ==
    ASSUME NEW p \in Seq(Names), Parent(p) # Root
    PROVE  Parent(p) \in Steps(p) /\ Parent(p) # p
BY DEF Parent, Steps, Root

-----------------------------------------------------------------------------
(* Layers                                                                  *)

\* What the operations of the engine preserve.  Known is the part that is
\* not a property of its own: the directories of an overlay entry exist, or
\* are deleted, or are implied by what the profile or the constructor has.
Known(L, q) ==
    \/ q \in L.deleted_paths
    \/ q \in DOMAIN L.memory_overlay \cup DOMAIN Dynamic \cup DOMAIN Rows \cup Unrowed \cup Implied

\* What the constructor made is in the overlay until it is removed.
SystemKept(L) == DOMAIN SystemFiles \subseteq DOMAIN L.memory_overlay \cup L.deleted_paths

AncestorsKnown(L) ==
    \A p \in DOMAIN L.memory_overlay : \A q \in Steps(p) : q # p => Known(L, q)

Disjoint(L) ==
    /\ DOMAIN L.memory_overlay \cap L.deleted_paths = {}
    /\ Root \notin L.deleted_paths

Sound(L) == IsLayers(L) /\ Disjoint(L) /\ AncestorsKnown(L) /\ SystemKept(L)

\* A directory of the database has a row of its own, or is the parent of one.
LEMMA BackendKnows ==
    ASSUME NEW p \in Seq(Names), p # Root
    PROVE  p \in DOMAIN Dynamic \/ BackendExists(p)
                <=> p \in DOMAIN Dynamic \/ p \in DOMAIN Rows \/ p \in Unrowed
BY DEF BackendExists, Unrowed

LEMMA UnrowedArePaths ==
    ASSUME NEW p \in Unrowed
    PROVE  p \in Seq(Names) \ {Root} /\ \E r \in DOMAIN Rows : p \in Steps(r) \ {r}
<1>1. PICK r \in DOMAIN Rows : p = Parent(r)
    BY DEF Unrowed
<1>2. r \in Seq(Names) /\ p # Root
    BY RowsAssumption DEF Unrowed
<1> QED
    BY <1>1, <1>2, ParentIsPath, ParentIsStep

\* On the way to what the profile or the constructor has.
LEMMA ProfileKnown ==
    ASSUME NEW L, SystemKept(L),
           NEW p \in DOMAIN Dynamic \cup DOMAIN Rows \cup DOMAIN SystemFiles \cup Unrowed,
           NEW q \in Steps(p), q # p
    PROVE  Known(L, q)
<1>1. PICK r \in DOMAIN Dynamic \cup DOMAIN Rows \cup DOMAIN SystemFiles : q \in Steps(r)
    <2>1. CASE p \in Unrowed
        <3>1. PICK r \in DOMAIN Rows : p \in Steps(r)
            BY <2>1, UnrowedArePaths
        <3>2. q \in Steps(r)
            BY <3>1, RowsAssumption, StepsOfStep
        <3> QED
            BY <3>2
    <2> QED
        BY <2>1
<1>2. CASE q \in DOMAIN SystemFiles
    BY <1>2 DEF SystemKept, Known
<1>3. CASE q \notin DOMAIN SystemFiles
    <2> DEFINE onTheWay == UNION {Steps(e) : e \in DOMAIN Rows \cup DOMAIN Dynamic \cup DOMAIN SystemFiles}
    <2>1. q \in onTheWay
        BY <1>1
    <2>2. q \notin DOMAIN Rows \cup DOMAIN Dynamic \cup DOMAIN SystemFiles \cup Unrowed =>
                q \in Implied
        BY <2>1 DEF Implied
    <2> HIDE DEF onTheWay
    <2> QED
        BY <1>3, <2>1, <2>2 DEF Known
<1> QED
    BY <1>2, <1>3

\* What exists is what the view has.
LEMMA ExistsIsSeen ==
    ASSUME NEW L, NEW p \in Seq(Names)
    PROVE  exists(L, p) <=> p \in Seen(L)
<1>1. CASE p = Root
    BY <1>1 DEF exists, Seen
<1>2. CASE p # Root
    BY <1>2, BackendKnows DEF exists, Seen
<1> QED
    BY <1>1, <1>2

LEMMA SeenArePaths ==
    ASSUME NEW L, IsLayers(L), NEW p \in Seen(L)
    PROVE  p \in Seq(Names)
<1>1. Root \in Seq(Names)
    BY DEF Root
<1>2. \A q \in DOMAIN L.memory_overlay : q \in Seq(Names)
    BY DEF IsLayers
<1>3. \A q \in DOMAIN Rows \cup DOMAIN Dynamic : q \in Seq(Names)
    BY RowsAssumption, DynamicAssumption
<1> QED
    BY <1>1, <1>2, <1>3, UnrowedArePaths DEF Seen

LEMMA DirIsNode == Dir \in Node
BY NamesAssumption DEF Dir, Node

\* How IsLayers is shown of a new overlay.
LEMMA LayersBuilt ==
    ASSUME NEW M,
           M = [memory_overlay |-> M.memory_overlay, deleted_paths |-> M.deleted_paths],
           M.memory_overlay = [q \in DOMAIN M.memory_overlay |-> M.memory_overlay[q]],
           \A q \in DOMAIN M.memory_overlay : q \in Seq(Names) /\ M.memory_overlay[q] \in Node,
           \A q \in M.deleted_paths : q \in Seq(Names)
    PROVE  IsLayers(M)
BY DEF IsLayers

LEMMA NodeType ==
    ASSUME NEW L, IsLayers(L), NEW p
    PROVE  /\ get_node(L, p) \in [type : {"dir", "file", "generated"}, content : Contents]
           /\ get_content(L, p) \in Contents
<1>1. get_node(L, p) \in [type : {"dir", "file", "generated"}, content : Contents]
    BY RowsAssumption, DynamicAssumption, NamesAssumption DEF get_node, IsLayers, Node, Dir
<1> QED
    BY <1>1, NamesAssumption DEF get_content

\* A path whose parent is a directory has known ancestors.
LEMMA ParentKnown ==
    ASSUME NEW L, Sound(L), NEW p \in Seq(Names), is_dir(L, Parent(p)),
           NEW q \in Steps(p), q # p
    PROVE  Known(L, q)
<1> DEFINE d == Parent(p)
<1>1. q \in Steps(d) /\ d \in Seq(Names)
    BY StepsOfParent, ParentIsPath
<1>2. d # Root
    BY <1>1 DEF Steps, Root
<1>3. d \in DOMAIN L.memory_overlay \/ d \in DOMAIN Dynamic \cup DOMAIN Rows \cup Unrowed
    BY <1>1, <1>2, BackendKnows DEF is_dir, exists
<1>4. CASE q = d
    BY <1>3, <1>4 DEF Known
<1>5. CASE q # d /\ d \in DOMAIN L.memory_overlay
    BY <1>1, <1>5 DEF Sound, AncestorsKnown
<1>6. CASE q # d /\ d \notin DOMAIN L.memory_overlay
    BY <1>1, <1>3, <1>6, ProfileKnown DEF Sound
<1> QED
    BY <1>4, <1>5, <1>6

LEMMA MkfileSound ==
    ASSUME NEW L, Sound(L), NEW p \in Seq(Names), NEW c \in Contents
    PROVE  Sound(mkfile(L, p, c))
<1> DEFINE M == mkfile(L, p, c)
<1>1. CASE ~is_dir(L, Parent(p))
    BY <1>1 DEF mkfile
<1>2. CASE is_dir(L, Parent(p))
    <2>1. /\ DOMAIN M.memory_overlay = DOMAIN L.memory_overlay \cup {p}
          /\ M.deleted_paths = L.deleted_paths \ {p}
          /\ \A q \in DOMAIN M.memory_overlay : M.memory_overlay[q] =
                IF q = p THEN [type |-> "file", content |-> c] ELSE L.memory_overlay[q]
        BY <1>2 DEF mkfile
    <2>2. IsLayers(M)
        <3>1. /\ M = [memory_overlay |-> M.memory_overlay, deleted_paths |-> M.deleted_paths]
              /\ M.memory_overlay = [q \in DOMAIN M.memory_overlay |-> M.memory_overlay[q]]
            BY <1>2 DEF mkfile
        <3> HIDE DEF M
        <3> QED
            BY <2>1, <3>1 DEF IsLayers, Sound, Node
    <2> HIDE DEF M
    <2>3. Disjoint(M)
        BY <2>1 DEF Disjoint, Sound
    <2>4. \A q : Known(L, q) => Known(M, q)
        BY <2>1 DEF Known
    <2>5. AncestorsKnown(M)
        BY <1>2, <2>1, <2>4, ParentKnown DEF AncestorsKnown, Sound
    <2>6. SystemKept(M)
        BY <2>1 DEF SystemKept, Sound
    <2> QED
        BY <2>2, <2>3, <2>5, <2>6 DEF Sound, M
<1> QED
    BY <1>1, <1>2

LEMMA MkdirSound ==
    ASSUME NEW L, Sound(L), NEW p \in Seq(Names)
    PROVE  Sound(mkdir_p(L, p))
<1> DEFINE M == mkdir_p(L, p)
           made == {q \in Steps(p) : ~exists(L, q) \/ is_file(L, q)}
<1>1. /\ DOMAIN M.memory_overlay = DOMAIN L.memory_overlay \cup made
      /\ M.deleted_paths = L.deleted_paths \ made
      /\ \A q \in DOMAIN M.memory_overlay : M.memory_overlay[q] =
            IF q \in made THEN Dir ELSE L.memory_overlay[q]
    BY DEF mkdir_p
<1>2. /\ M = [memory_overlay |-> M.memory_overlay, deleted_paths |-> M.deleted_paths]
      /\ M.memory_overlay = [q \in DOMAIN M.memory_overlay |-> M.memory_overlay[q]]
    BY DEF mkdir_p
<1>3. \A q \in made : q \in Steps(p) /\ q \in Seq(Names) \ {Root}
    BY StepsArePaths
<1>4. \A r \in Steps(p) : r \in made \/ Known(L, r)
    <2> SUFFICES ASSUME NEW r \in Steps(p), r \notin made
                 PROVE  Known(L, r)
        OBVIOUS
    <2>1. exists(L, r) /\ r \in Seq(Names) \ {Root}
        BY StepsArePaths
    <2> QED
        BY <2>1, BackendKnows DEF exists, Known
<1> HIDE DEF M, made
<1>5. IsLayers(M)
    <2>1. \A q \in DOMAIN M.memory_overlay : q \in Seq(Names) /\ M.memory_overlay[q] \in Node
        BY <1>1, <1>3, DirIsNode DEF IsLayers, Sound
    <2>2. \A q \in M.deleted_paths : q \in Seq(Names)
        BY <1>1 DEF IsLayers, Sound
    <2> QED
        BY <1>2, <2>1, <2>2, LayersBuilt
<1>6. Disjoint(M)
    BY <1>1, <1>3 DEF Disjoint, Sound
<1>7. \A q : q \in made \/ Known(L, q) => Known(M, q)
    BY <1>1 DEF Known
<1>8. AncestorsKnown(M)
    <2> SUFFICES ASSUME NEW q \in DOMAIN M.memory_overlay, NEW r \in Steps(q), r # q
                 PROVE  Known(M, r)
        BY DEF AncestorsKnown
    <2>1. CASE q \in made
        BY <1>3, <1>4, <1>7, <2>1, StepsOfStep
    <2>2. CASE q \in DOMAIN L.memory_overlay
        BY <1>7, <2>2 DEF AncestorsKnown, Sound
    <2> QED
        BY <1>1, <2>1, <2>2
<1>9. SystemKept(M)
    BY <1>1 DEF SystemKept, Sound
<1> QED
    BY <1>5, <1>6, <1>8, <1>9 DEF Sound, M

LEMMA RemoveSound ==
    ASSUME NEW L, Sound(L), NEW p \in Seq(Names)
    PROVE  Sound(remove(L, p))
<1> DEFINE M == remove(L, p)
<1>1. CASE p = Root \/ ~exists(L, p)
    BY <1>1 DEF remove
<1>2. CASE p # Root /\ exists(L, p)
    <2>1. /\ DOMAIN M.memory_overlay = DOMAIN L.memory_overlay \ {p}
          /\ M.deleted_paths = L.deleted_paths \cup {p}
          /\ \A q \in DOMAIN M.memory_overlay : M.memory_overlay[q] = L.memory_overlay[q]
          /\ M = [memory_overlay |-> M.memory_overlay, deleted_paths |-> M.deleted_paths]
          /\ M.memory_overlay = [q \in DOMAIN M.memory_overlay |-> M.memory_overlay[q]]
        BY <1>2 DEF remove
    <2> HIDE DEF M
    <2>2. IsLayers(M)
        BY <2>1 DEF IsLayers, Sound
    <2>3. Disjoint(M)
        BY <1>2, <2>1 DEF Disjoint, Sound
    <2>4. AncestorsKnown(M)
        BY <2>1 DEF AncestorsKnown, Sound, Known
    <2>5. SystemKept(M)
        BY <2>1 DEF SystemKept, Sound
    <2> QED
        BY <2>2, <2>3, <2>4, <2>5 DEF Sound, M
<1> QED
    BY <1>1, <1>2

LEMMA ChmodSound ==
    ASSUME NEW L, Sound(L), NEW p \in Seq(Names)
    PROVE  Sound(chmod(L, p))
<1> DEFINE M == chmod(L, p)
<1>1. CASE ~exists(L, p) \/ p \in DOMAIN L.memory_overlay
    BY <1>1 DEF chmod
<1>2. CASE exists(L, p) /\ p \notin DOMAIN L.memory_overlay
    <2>1. /\ DOMAIN M.memory_overlay = DOMAIN L.memory_overlay \cup {p}
          /\ M.deleted_paths = L.deleted_paths
          /\ \A q \in DOMAIN M.memory_overlay : M.memory_overlay[q] =
                IF q # p THEN L.memory_overlay[q]
                ELSE IF get_node(L, p).type = "dir" THEN Dir
                ELSE [type |-> "file", content |-> get_content(L, p)]
          /\ M = [memory_overlay |-> M.memory_overlay, deleted_paths |-> M.deleted_paths]
          /\ M.memory_overlay = [q \in DOMAIN M.memory_overlay |-> M.memory_overlay[q]]
        BY <1>2 DEF chmod
    <2> HIDE DEF M
    <2>2. IsLayers(M)
        <3>1. get_content(L, p) \in Contents
            BY NodeType DEF Sound
        <3>2. [type |-> "file", content |-> get_content(L, p)] \in Node
            BY <3>1 DEF Node
        <3>3. \A q \in DOMAIN M.memory_overlay : q \in Seq(Names) /\ M.memory_overlay[q] \in Node
            BY <2>1, <3>2, DirIsNode DEF IsLayers, Sound
        <3>4. \A q \in M.deleted_paths : q \in Seq(Names)
            BY <2>1 DEF IsLayers, Sound
        <3> QED
            BY <2>1, <3>3, <3>4, LayersBuilt
    <2>3. Disjoint(M)
        BY <1>2, <2>1 DEF Disjoint, Sound, exists
    <2>4. ASSUME NEW q \in Steps(p), q # p
          PROVE  Known(L, q)
        <3>1. p # Root
            BY <2>4 DEF Steps, Root
        <3>2. p \in DOMAIN Dynamic \cup DOMAIN Rows \cup Unrowed
            BY <1>2, <3>1, BackendKnows DEF exists
        <3> QED
            BY <2>4, <3>2, ProfileKnown DEF Sound
    <2>5. \A q : Known(L, q) => Known(M, q)
        BY <2>1 DEF Known
    <2>6. AncestorsKnown(M)
        BY <2>1, <2>4, <2>5 DEF AncestorsKnown, Sound
    <2>7. SystemKept(M)
        BY <2>1 DEF SystemKept, Sound
    <2> QED
        BY <2>2, <2>3, <2>6, <2>7 DEF Sound, M
<1> QED
    BY <1>1, <1>2

-----------------------------------------------------------------------------
(* The inductive invariant                                                 *)

\* Every call of a copy works below the destination of its command.
FramesInside == \A i \in 1..Len(work) : Under(job.dst, work[i].dst)

IInv == FsTypeOK /\ Sound(fs) /\ FramesInside

LEMMA JobType ==
    ASSUME NEW op \in {"none", "cp", "mv"}, NEW s \in Seq(Names), NEW d \in Seq(Names),
           NEW b \in BOOLEAN
    PROVE  [op |-> op, src |-> s, dst |-> d, fresh |-> b] \in
                [op : {"none", "cp", "mv"}, src : Seq(Names), dst : Seq(Names), fresh : BOOLEAN]
OBVIOUS

LEMMA NoJobType ==
    NoJob \in [op : {"none", "cp", "mv"}, src : Seq(Names), dst : Seq(Names), fresh : BOOLEAN]
<1>1. Root \in Seq(Names)
    BY DEF Root
<1> QED
    BY <1>1, JobType DEF NoJob

LEMMA SoundIsTyped ==
    ASSUME NEW L, Sound(L)
    PROVE  IsLayers(L)
BY DEF Sound

LEMMA InitInv == Init => IInv
<1> SUFFICES ASSUME Init PROVE IInv
    OBVIOUS
<1>1. fs = [memory_overlay |-> SystemFiles, deleted_paths |-> {}] /\ work = <<>>
        /\ job = NoJob /\ ops = 0
    BY DEF Init
<1>2. IsLayers(fs)
    <2>1. fs.memory_overlay = SystemFiles /\ fs.deleted_paths = {}
            /\ fs = [memory_overlay |-> fs.memory_overlay, deleted_paths |-> fs.deleted_paths]
        BY <1>1
    <2> QED
        BY <2>1, SystemFilesAssumption, LayersBuilt
<1>3. Sound(fs)
    <2>1. Disjoint(fs)
        BY <1>1 DEF Disjoint
    <2>2. SystemKept(fs)
        BY <1>1 DEF SystemKept
    <2>3. AncestorsKnown(fs)
        BY <1>1, <2>2, ProfileKnown DEF AncestorsKnown
    <2> QED
        BY <1>2, <2>1, <2>2, <2>3 DEF Sound
<1>4. FsTypeOK
    <2>1. work \in Seq(Frame) /\ Len(work) <= RecursionLimit
        BY <1>1, BoundsAssumption
    <2>2. ops \in 0..MaxOps
        BY <1>1, BoundsAssumption
    <2> QED
        BY <1>1, <1>2, <2>1, <2>2, NoJobType DEF FsTypeOK
<1>5. FramesInside
    BY <1>1 DEF FramesInside
<1> QED
    BY <1>3, <1>4, <1>5 DEF IInv

LEMMA BecomesInv ==
    ASSUME IInv, NEW L, Sound(L), Becomes(L)
    PROVE  IInv'
<1>1. fs' = L /\ ops' = ops + 1 /\ work' = work /\ job' = job /\ ops < MaxOps
    BY DEF Becomes, Ready
<1>2. Sound(fs') /\ IsLayers(fs')
    BY <1>1 DEF Sound
<1>3. ops' \in 0..MaxOps
    BY <1>1, BoundsAssumption DEF IInv, FsTypeOK
<1>4. FsTypeOK'
    BY <1>1, <1>2, <1>3 DEF IInv, FsTypeOK
<1> QED
    BY <1>1, <1>2, <1>4 DEF IInv, FramesInside

LEMMA TargetIsPath ==
    ASSUME NEW src \in Seq(Names), NEW dst \in Seq(Names)
    PROVE  Target(src, dst) \in Seq(Names)
<1>1. CASE src = Root
    BY <1>1 DEF Target
<1>2. CASE src # Root
    <2>1. Basename(src) \in Names
        BY <1>2 DEF Basename, Root
    <2> QED
        BY <2>1 DEF Target
<1> QED
    BY <1>1, <1>2

LEMMA EnsureDirSound ==
    ASSUME Sound(fs), NEW p \in Seq(Names)
    PROVE  Sound(EnsureDir(p))
BY MkdirSound DEF EnsureDir

LEMMA UnderReflexive ==
    ASSUME NEW p \in Seq(Names)
    PROVE  Under(p, p)
BY DEF Under

LEMMA UnderAppend ==
    ASSUME NEW d \in Seq(Names), NEW p \in Seq(Names), NEW n \in Names, Under(d, p)
    PROVE  Under(d, Append(p, n))
<1>1. SubSeq(Append(p, n), 1, Len(d)) = SubSeq(p, 1, Len(d))
    BY DEF Under
<1> QED
    BY <1>1 DEF Under

LEMMA CommandInv ==
    ASSUME IInv, Command
    PROVE  IInv'
<1> Sound(fs)
    BY DEF IInv
<1>1. PICK p \in Paths :
        \/ \E c \in Contents : Touch(p, c) \/ EditorSave(p, c)
        \/ \E parents \in BOOLEAN : Mkdir(p, parents)
        \/ UploadMkdir(p)
        \/ \E recursive \in BOOLEAN : Rm(p, recursive)
        \/ Rmdir(p)
        \/ Chmod(p)
        \/ \E op \in {"cp", "mv"}, dst \in Paths : CopyFile(op, p, dst) \/ CopyDir(op, p, dst)
    BY DEF Command
<1>2. p \in Seq(Names)
    BY NamesAssumption
<1>3. ASSUME NEW c \in Contents, Touch(p, c)
      PROVE  IInv'
    BY <1>2, <1>3, MkfileSound, BecomesInv DEF Touch
<1>4. ASSUME NEW c \in Contents, EditorSave(p, c)
      PROVE  IInv'
    <2>1. Sound(mkdir_p(fs, Parent(p)))
        BY <1>2, ParentIsPath, MkdirSound
    <2>2. Sound(mkfile(mkdir_p(fs, Parent(p)), p, c))
        BY <1>2, <2>1, MkfileSound
    <2> QED
        BY <1>4, <2>2, BecomesInv DEF EditorSave
<1>5. CASE (\E parents \in BOOLEAN : Mkdir(p, parents)) \/ UploadMkdir(p)
    BY <1>2, <1>5, MkdirSound, BecomesInv DEF Mkdir, UploadMkdir
<1>6. CASE (\E recursive \in BOOLEAN : Rm(p, recursive)) \/ Rmdir(p)
    BY <1>2, <1>6, RemoveSound, BecomesInv DEF Rm, Rmdir
<1>7. CASE Chmod(p)
    BY <1>2, <1>7, ChmodSound, BecomesInv DEF Chmod
<1>8. ASSUME NEW op \in {"cp", "mv"}, NEW dst \in Paths, CopyFile(op, p, dst)
      PROVE  IInv'
    <2> DEFINE M == mkfile(fs, Target(p, dst), get_content(fs, p))
    <2>1. Target(p, dst) \in Seq(Names) /\ get_content(fs, p) \in Contents
        BY <1>2, TargetIsPath, NodeType, SoundIsTyped, NamesAssumption
    <2>2. Sound(M)
        BY <2>1, MkfileSound
    <2>3. Sound(IF op = "mv" THEN remove(M, p) ELSE M)
        BY <1>2, <2>2, RemoveSound
    <2> QED
        BY <1>8, <2>3, BecomesInv DEF CopyFile
<1>9. ASSUME NEW op \in {"cp", "mv"}, NEW dst \in Paths, CopyDir(op, p, dst)
      PROVE  IInv'
    <2> DEFINE t == Target(p, dst)
    <2>1. t \in Seq(Names)
        BY <1>2, TargetIsPath, NamesAssumption
    <2> HIDE DEF t
    <2>2. /\ fs' = EnsureDir(t)
          /\ work' = <<[src |-> p, dst |-> t, todo |-> list_dir(fs', p)]>>
          /\ job' = [op |-> op, src |-> p, dst |-> t, fresh |-> Fresh(p, t)]
          /\ ops' = ops + 1 /\ ops < MaxOps
        BY <1>9 DEF CopyDir, Ready, t
    <2>3. Sound(fs')
        BY <2>1, <2>2, EnsureDirSound
    <2>4. work' \in Seq(Frame) /\ Len(work') <= RecursionLimit
        <3>1. list_dir(fs', p) \subseteq Names
            BY DEF list_dir
        <3> QED
            BY <1>2, <2>1, <2>2, <3>1, BoundsAssumption DEF Frame
    <2>5. Fresh(p, t) \in BOOLEAN
        BY DEF Fresh
    <2>6. job' \in [op : {"none", "cp", "mv"}, src : Seq(Names), dst : Seq(Names), fresh : BOOLEAN]
        BY <1>2, <2>1, <2>2, <2>5, JobType
    <2>7. ops' \in 0..MaxOps
        BY <2>2, BoundsAssumption DEF IInv, FsTypeOK
    <2>8. FsTypeOK'
        BY <2>3, <2>4, <2>6, <2>7, SoundIsTyped DEF FsTypeOK
    <2>9. FramesInside'
        BY <2>1, <2>2, UnderReflexive DEF FramesInside
    <2> QED
        BY <2>3, <2>8, <2>9 DEF IInv
<1> QED
    BY <1>1, <1>3, <1>4, <1>5, <1>6, <1>7, <1>8, <1>9

\* The call on top of the stack, with its entry n taken out.
LEMMA AdvancedFacts ==
    ASSUME IInv, NEW n \in Names, First(n)
    PROVE  /\ Len(work) \in Nat \ {0}
           /\ Top \in Frame /\ Under(job.dst, Top.dst)
           /\ Advanced(n) \in Seq(Frame)
           /\ Len(Advanced(n)) = Len(work)
           /\ \A i \in 1..Len(work) : Advanced(n)[i].dst = work[i].dst
           /\ Append(Top.src, n) \in Seq(Names)
           /\ Append(Top.dst, n) \in Seq(Names)
           /\ Under(job.dst, Append(Top.dst, n))
<1>1. work \in Seq(Frame) /\ work # <<>>
    BY DEF IInv, FsTypeOK, First
<1>2. Len(work) \in Nat \ {0} /\ Top \in Frame
    BY <1>1 DEF Top
<1>3. Under(job.dst, Top.dst)
    BY <1>2 DEF IInv, FramesInside, Top
<1>4. \A i \in 1..Len(work) : work[i] \in Frame
    BY <1>1
<1>5. Advanced(n) = [i \in 1..Len(work) |->
            IF i = Len(work) THEN [work[i] EXCEPT !.todo = @ \ {n}] ELSE work[i]]
    <2>1. work \in [1..Len(work) -> Frame]
        BY <1>1
    <2>2. Advanced(n) = [work EXCEPT ![Len(work)] = [work[Len(work)] EXCEPT !.todo = @ \ {n}]]
        BY DEF Advanced
    <2> QED
        BY <2>1, <2>2
<1>6. \A i \in 1..Len(work) : Advanced(n)[i] \in Frame /\ Advanced(n)[i].dst = work[i].dst
    BY <1>4, <1>5 DEF Frame
<1>7. Advanced(n) \in Seq(Frame) /\ Len(Advanced(n)) = Len(work)
    BY <1>1, <1>5, <1>6
<1>8. Top.src \in Seq(Names) /\ Top.dst \in Seq(Names) /\ job.dst \in Seq(Names)
    BY <1>2 DEF Frame, IInv, FsTypeOK
<1>9. Under(job.dst, Append(Top.dst, n))
    BY <1>3, <1>8, UnderAppend
<1> QED
    BY <1>2, <1>3, <1>6, <1>7, <1>8, <1>9

LEMMA CopyStepInv ==
    ASSUME IInv, CopyStep
    PROVE  IInv'
<1> Sound(fs) /\ work \in Seq(Frame) /\ Len(work) <= RecursionLimit
    BY DEF IInv, FsTypeOK
<1>1. ASSUME NEW n \in Names, CopyEntry(n)
      PROVE  IInv'
    <2>1. First(n) /\ work' = Advanced(n) /\ job' = job /\ ops' = ops
        BY <1>1 DEF CopyEntry
    <2>2. get_content(fs, Append(Top.src, n)) \in Contents
        BY NodeType, SoundIsTyped
    <2>3. Sound(fs')
        BY <1>1, <2>1, <2>2, AdvancedFacts, MkfileSound DEF CopyEntry
    <2>4. FsTypeOK'
        BY <2>1, <2>3, AdvancedFacts, SoundIsTyped DEF FsTypeOK, IInv
    <2>5. FramesInside'
        BY <2>1, AdvancedFacts DEF FramesInside, IInv
    <2> QED
        BY <2>3, <2>4, <2>5 DEF IInv
<1>2. ASSUME NEW n \in Names, EnterDir(n)
      PROVE  IInv'
    <2> DEFINE s == Append(Top.src, n)
               d == Append(Top.dst, n)
               frame == [src |-> s, dst |-> d, todo |-> list_dir(fs', s)]
    <2>1. First(n) /\ fs' = EnsureDir(d) /\ work' = Append(Advanced(n), frame)
            /\ job' = job /\ ops' = ops /\ Len(work) < RecursionLimit
        BY <1>2 DEF EnterDir
    <2>2. s \in Seq(Names) /\ d \in Seq(Names) /\ Under(job.dst, d)
        BY <2>1, AdvancedFacts
    <2>3. list_dir(fs', s) \subseteq Names
        BY DEF list_dir
    <2>4. frame \in Frame
        BY <2>2, <2>3 DEF Frame
    <2>5. Sound(fs')
        BY <2>1, <2>2, EnsureDirSound
    <2> HIDE DEF frame
    <2>6. /\ work' \in Seq(Frame) /\ Len(work') = Len(work) + 1
          /\ \A i \in 1..Len(work) : work'[i].dst = work[i].dst
          /\ work'[Len(work) + 1] = frame
        BY <2>1, <2>4, AdvancedFacts
    <2>7. Len(work') <= RecursionLimit
        BY <2>1, <2>6, BoundsAssumption
    <2>8. FsTypeOK'
        BY <2>1, <2>5, <2>6, <2>7, SoundIsTyped DEF FsTypeOK, IInv
    <2>9. FramesInside'
        <3> SUFFICES ASSUME NEW i \in 1..Len(work')
                     PROVE  Under(job'.dst, work'[i].dst)
            BY DEF FramesInside
        <3>1. CASE i \in 1..Len(work)
            BY <2>1, <2>6, <3>1 DEF FramesInside, IInv
        <3>2. CASE i = Len(work) + 1
            BY <2>1, <2>2, <2>6, <3>2 DEF frame
        <3> QED
            BY <2>6, <3>1, <3>2
    <2> QED
        BY <2>5, <2>8, <2>9 DEF IInv
<1>3. CASE work' = <<>> /\ job' = NoJob /\ ops' = ops /\ Sound(fs')
    <2>1. work' \in Seq(Frame) /\ Len(work') <= RecursionLimit
        BY <1>3, BoundsAssumption
    <2>2. FsTypeOK'
        BY <1>3, <2>1, NoJobType, SoundIsTyped DEF FsTypeOK, IInv
    <2>3. FramesInside'
        BY <1>3 DEF FramesInside
    <2> QED
        BY <1>3, <2>2, <2>3 DEF IInv
<1>4. ASSUME NEW n \in Names, TooDeep(n)
      PROVE  IInv'
    BY <1>3, <1>4 DEF TooDeep
<1>5. CASE LeaveDir
    <2>1. /\ work' \in Seq(Frame) /\ Len(work') <= RecursionLimit
          /\ Len(work') = Len(work) - 1
          /\ \A i \in 1..Len(work') : work'[i] = work[i]
        BY <1>5, BoundsAssumption DEF LeaveDir
    <2>2. fs' = fs /\ job' = job /\ ops' = ops
        BY <1>5 DEF LeaveDir
    <2>3. FsTypeOK'
        BY <2>1, <2>2 DEF FsTypeOK, IInv
    <2>4. FramesInside'
        BY <2>1, <2>2 DEF FramesInside, IInv
    <2> QED
        BY <2>2, <2>3, <2>4 DEF IInv
<1>6. CASE CopyDone
    <2>1. job.src \in Seq(Names)
        BY DEF IInv, FsTypeOK
    <2>2. Sound(fs')
        BY <1>6, <2>1, RemoveSound DEF CopyDone
    <2> QED
        BY <1>3, <1>6, <2>2 DEF CopyDone
<1> QED
    BY <1>1, <1>2, <1>4, <1>5, <1>6 DEF CopyStep

LEMMA StutterInv ==
    ASSUME IInv, UNCHANGED fsVars
    PROVE  IInv'
BY DEF IInv, FsTypeOK, FramesInside, fsVars

THEOREM Invariance == Spec => []IInv
<1>1. IInv /\ [Next]_fsVars => IInv'
    BY CommandInv, CopyStepInv, StutterInv DEF Next
<1> QED
    BY InitInv, <1>1, PTL DEF Spec

-----------------------------------------------------------------------------
(* What follows from it                                                    *)

\* Types, and a bounded call stack.
THEOREM TypeCorrect == Spec => []FsTypeOK
<1>1. IInv => FsTypeOK
    BY DEF IInv
<1> QED
    BY Invariance, <1>1, PTL

\* No path is in the overlay and deleted, and the root is never deleted: the
\* documented order of the layers and the order of the code agree.
THEOREM LayersStayDisjoint == Spec => []LayersDisjoint
<1>1. IInv => LayersDisjoint
    BY DEF IInv, Sound, Disjoint, LayersDisjoint
<1> QED
    BY Invariance, <1>1, PTL

LEMMA ListingSound ==
    ASSUME IInv
    PROVE  ListingMatchesLookup
<1> SUFFICES ASSUME NEW d \in Seen(fs), is_dir(fs, d), NEW n \in Names
             PROVE  /\ exists(fs, Append(d, n)) =>
                            n \in list_dir(fs, d) \/ Append(d, n) \in Unrowed \ DOMAIN fs.memory_overlay
                    /\ n \in list_dir(fs, d) =>
                            exists(fs, Append(d, n)) \/ Append(d, n) \in Implied
    BY DEF ListingMatchesLookup
<1> DEFINE c == Append(d, n)
<1>1. Sound(fs) /\ IsLayers(fs) /\ d \in Seq(Names)
    BY SeenArePaths DEF IInv, Sound
<1>2. c \in Seq(Names) /\ c # Root /\ Under(c, c)
    <2>1. c \in Seq(Names) /\ Len(c) = Len(d) + 1
        BY <1>1
    <2> QED
        <3>1. Len(Root) = 0 /\ Len(d) \in Nat
            BY <1>1 DEF Root
        <3> HIDE DEF c
        <3> QED
            BY <2>1, <3>1, UnderReflexive
<1>3. exists(fs, c) <=>
        /\ c \notin fs.deleted_paths
        /\ c \in DOMAIN fs.memory_overlay \cup DOMAIN Dynamic \cup DOMAIN Rows \cup Unrowed
    BY <1>2, BackendKnows DEF exists
<1>4. n \in list_dir(fs, d) <=>
        /\ c \notin fs.deleted_paths
        /\ \/ c \in DOMAIN Rows
           \/ \E p \in DOMAIN Dynamic \cup DOMAIN fs.memory_overlay : Under(c, p)
    BY DEF list_dir
<1> HIDE DEF c
<1>5. exists(fs, c) => n \in list_dir(fs, d) \/ c \in Unrowed \ DOMAIN fs.memory_overlay
    BY <1>2, <1>3, <1>4
<1>6. ASSUME c \notin fs.deleted_paths,
             NEW p \in DOMAIN Dynamic \cup DOMAIN fs.memory_overlay, Under(c, p)
      PROVE  exists(fs, c) \/ c \in Implied
    <2>1. p \in Seq(Names)
        BY <1>1, DynamicAssumption DEF IsLayers
    <2>2. c \in Steps(p)
        <3>1. Len(c) \in 1..Len(p) /\ c = SubSeq(p, 1, Len(c))
            BY <1>2, <1>6, <2>1 DEF Under, Root
        <3> QED
            BY <3>1 DEF Steps
    <2>3. CASE c = p
        BY <1>3, <1>6, <2>3
    <2>4. CASE c # p /\ p \in DOMAIN Dynamic
        <3>1. Known(fs, c)
            BY <1>1, <2>2, <2>4, ProfileKnown DEF Sound
        <3> QED
            BY <1>3, <1>6, <3>1 DEF Known
    <2>5. CASE c # p /\ p \in DOMAIN fs.memory_overlay
        BY <1>1, <1>3, <1>6, <2>2, <2>5 DEF Sound, AncestorsKnown, Known
    <2> QED
        BY <2>3, <2>4, <2>5
<1> QED
    BY <1>3, <1>4, <1>5, <1>6 DEF c

\* ls shows the paths that stat finds, for every profile, and the profile's directories
\* without a row are the only exceptions: an overlay entry that lost its directory
\* stays hidden behind a deleted path.
THEOREM ListingAgrees == Spec => []ListingMatchesLookup
<1>1. IInv => ListingMatchesLookup
    BY ListingSound
<1> QED
    BY Invariance, <1>1, PTL

-----------------------------------------------------------------------------
(* A copy stays below its destination                                      *)

\* Of two directories of the same path, one is in the other.
LEMMA StepsComparable ==
    ASSUME NEW d \in Seq(Names), NEW p \in Seq(Names), Under(d, p), NEW q \in Steps(p)
    PROVE  Under(d, q) \/ q \in Steps(d)
<1>1. PICK i \in 1..Len(p) : q = SubSeq(p, 1, i)
    BY DEF Steps
<1>2. Len(q) = i /\ Len(d) \in Nat /\ Len(d) <= Len(p) /\ SubSeq(p, 1, Len(d)) = d
    BY <1>1 DEF Under
<1>3. CASE Len(d) <= i
    <2>1. SubSeq(q, 1, Len(d)) = SubSeq(p, 1, Len(d))
        BY <1>1, <1>2, <1>3
    <2> QED
        BY <1>2, <1>3, <2>1 DEF Under
<1>4. CASE i < Len(d)
    <2>1. SubSeq(d, 1, i) = SubSeq(p, 1, i) /\ i \in 1..Len(d)
        BY <1>1, <1>2, <1>4
    <2> QED
        BY <1>1, <2>1 DEF Steps
<1> QED
    BY <1>1, <1>2, <1>3, <1>4

LEMMA MkfileChanges ==
    ASSUME NEW L, NEW p, NEW c, NEW q, q # p
    PROVE  /\ q \in Seen(mkfile(L, p, c)) <=> q \in Seen(L)
           /\ get_node(mkfile(L, p, c), q) = get_node(L, q)
<1>1. CASE ~is_dir(L, Parent(p))
    BY <1>1 DEF mkfile
<1>2. CASE is_dir(L, Parent(p))
    BY <1>2 DEF mkfile, Seen, get_node
<1> QED
    BY <1>1, <1>2

LEMMA MkdirChanges ==
    ASSUME NEW L, NEW p \in Seq(Names), NEW q
    PROVE  LET made == {r \in Steps(p) : ~exists(L, r) \/ is_file(L, r)}
           IN  /\ q \in Seen(mkdir_p(L, p)) <=> q \in Seen(L) \/ q \in made
               /\ get_node(mkdir_p(L, p), q) = IF q \in made THEN Dir ELSE get_node(L, q)
<1> DEFINE made == {r \in Steps(p) : ~exists(L, r) \/ is_file(L, r)}
           M == mkdir_p(L, p)
<1>1. /\ DOMAIN M.memory_overlay = DOMAIN L.memory_overlay \cup made
      /\ M.deleted_paths = L.deleted_paths \ made
      /\ \A r \in DOMAIN M.memory_overlay : M.memory_overlay[r] =
            IF r \in made THEN Dir ELSE L.memory_overlay[r]
    BY DEF mkdir_p
<1> HIDE DEF made, M
<1>2. q \in Seen(M) <=> q \in Seen(L) \/ q \in made
    BY <1>1 DEF Seen
<1>3. get_node(M, q) = IF q \in made THEN Dir ELSE get_node(L, q)
    BY <1>1 DEF get_node
<1> QED
    BY <1>2, <1>3 DEF made, M

LEMMA MkdirTouches ==
    ASSUME NEW L, NEW p, NEW q, q \notin {r \in Steps(p) : ~exists(L, r) \/ is_file(L, r)}
    PROVE  /\ q \in DOMAIN L.memory_overlay <=> q \in DOMAIN mkdir_p(L, p).memory_overlay
           /\ q \in L.deleted_paths <=> q \in mkdir_p(L, p).deleted_paths
BY DEF mkdir_p

\* A recursive copy changes nothing outside its destination, but for a
\* missing directory on the way there that becomes a directory again.
THEOREM CopiesStayInside == Spec => CopyStaysInside
<1> DEFINE A == (\E n \in Names : CopyEntry(n) \/ EnterDir(n)) =>
                  \A p \in Seen(fs) \cup Seen(fs') :
                    \/ Under(job.dst, p)
                    \/ p \in Seen(fs) /\ p \in Seen(fs') /\ get_node(fs, p) = get_node(fs', p)
                    \/ p \in Steps(job.dst) /\ is_dir(fs', p)
<1>1. IInv => A
    <2> SUFFICES ASSUME IInv, NEW n \in Names, CopyEntry(n) \/ EnterDir(n),
                        NEW p \in Seen(fs) \cup Seen(fs'), ~Under(job.dst, p)
                 PROVE  \/ p \in Seen(fs) /\ p \in Seen(fs') /\ get_node(fs, p) = get_node(fs', p)
                        \/ p \in Steps(job.dst) /\ is_dir(fs', p)
        OBVIOUS
    <2> DEFINE d == Append(Top.dst, n)
    <2>1. d \in Seq(Names) /\ Under(job.dst, d) /\ job.dst \in Seq(Names)
        BY AdvancedFacts DEF CopyEntry, EnterDir, IInv, FsTypeOK
    <2>2. d # p
        BY <2>1
    <2>3. CASE CopyEntry(n)
        <3>1. fs' = mkfile(fs, d, get_content(fs, Append(Top.src, n)))
            BY <2>3 DEF CopyEntry
        <3> HIDE DEF d
        <3> QED
            BY <2>2, <3>1, MkfileChanges
    <2>4. CASE EnterDir(n)
        <3>1. fs' = EnsureDir(d)
            BY <2>4 DEF EnterDir
        <3> HIDE DEF d
        <3>2. CASE fs' = fs
            BY <3>2
        <3>3. CASE fs' = mkdir_p(fs, d)
            <4> DEFINE made == {r \in Steps(d) : ~exists(fs, r) \/ is_file(fs, r)}
            <4>1. /\ p \in Seen(fs') <=> p \in Seen(fs) \/ p \in made
                  /\ get_node(fs', p) = IF p \in made THEN Dir ELSE get_node(fs, p)
                BY <2>1, <3>3, MkdirChanges
            <4>2. CASE p \in made
                <5>1. p \in Steps(d)
                    BY <4>2
                <5>2. p \in Steps(job.dst)
                    BY <2>1, <5>1, StepsComparable
                <5>3. p \in Seen(fs') /\ get_node(fs', p) = Dir
                    BY <4>1, <4>2
                <5>4. p \in Seq(Names)
                    BY <2>1, <5>1, StepsArePaths
                <5>5. exists(fs', p)
                    BY <5>3, <5>4, ExistsIsSeen
                <5>6. is_dir(fs', p)
                    <6>1. p \notin fs'.deleted_paths
                        BY <5>3 DEF Seen
                    <6>2. get_node(fs', p).type = "dir"
                        <7>1. Dir.type = "dir"
                            BY DEF Dir
                        <7> QED
                            BY <5>3, <7>1
                    <6> QED
                        BY <5>5, <6>1, <6>2 DEF is_dir
                <5> QED
                    BY <5>2, <5>6
            <4>3. CASE p \notin made
                BY <4>1, <4>3
            <4> QED
                BY <4>2, <4>3
        <3> QED
            BY <3>1, <3>2, <3>3 DEF EnsureDir
    <2> QED
        BY <2>3, <2>4
<1> QED
    BY Invariance, <1>1, PTL DEF CopyStaysInside

-----------------------------------------------------------------------------
(* A copy is complete: paths                                               *)

LEMMA SamePath ==
    ASSUME NEW p \in Seq(Names), NEW q \in Seq(Names), Len(p) = Len(q),
           \A i \in 1..Len(p) : p[i] = q[i]
    PROVE  p = q
<1>1. p = [i \in 1..Len(p) |-> p[i]] /\ q = [i \in 1..Len(q) |-> q[i]]
    OBVIOUS
<1> QED
    BY <1>1

LEMMA UnderPointwise ==
    ASSUME NEW d \in Seq(Names), NEW p \in Seq(Names)
    PROVE  Under(d, p) <=> Len(d) <= Len(p) /\ \A i \in 1..Len(d) : p[i] = d[i]
<1>1. CASE Len(d) <= Len(p)
    <2> DEFINE cut == SubSeq(p, 1, Len(d))
    <2>1. cut \in Seq(Names) /\ Len(cut) = Len(d) /\ \A i \in 1..Len(d) : cut[i] = p[i]
        BY <1>1
    <2> HIDE DEF cut
    <2>2. cut = d <=> \A i \in 1..Len(d) : p[i] = d[i]
        BY <2>1, SamePath
    <2> QED
        BY <1>1, <2>2 DEF Under, cut
<1>2. CASE ~(Len(d) <= Len(p))
    BY <1>2 DEF Under
<1> QED
    BY <1>1, <1>2

LEMMA UnderTransitive ==
    ASSUME NEW a \in Seq(Names), NEW b \in Seq(Names), NEW c \in Seq(Names), Under(a, b), Under(b, c)
    PROVE  Under(a, c)
<1>1. Len(a) \in Nat /\ Len(b) \in Nat /\ Len(c) \in Nat
    OBVIOUS
<1>2. /\ Len(a) <= Len(b) /\ Len(b) <= Len(c)
      /\ \A i \in 1..Len(a) : b[i] = a[i]
      /\ \A i \in 1..Len(b) : c[i] = b[i]
    BY UnderPointwise
<1>3. \A i \in 1..Len(a) : i \in 1..Len(b)
    BY <1>1, <1>2
<1> QED
    BY <1>1, <1>2, <1>3, UnderPointwise

\* Two directories of one path.
LEMMA UnderComparable ==
    ASSUME NEW a \in Seq(Names), NEW b \in Seq(Names), NEW p \in Seq(Names), Under(a, p), Under(b, p)
    PROVE  Under(a, b) \/ Under(b, a)
<1>1. /\ Len(a) \in Nat /\ Len(b) \in Nat
      /\ \A i \in 1..Len(a) : p[i] = a[i]
      /\ \A i \in 1..Len(b) : p[i] = b[i]
    BY UnderPointwise
<1>2. CASE Len(a) <= Len(b)
    <2>1. \A i \in 1..Len(a) : i \in 1..Len(b)
        BY <1>1, <1>2
    <2> QED
        BY <1>1, <1>2, <2>1, UnderPointwise
<1>3. CASE Len(b) <= Len(a)
    <2>1. \A i \in 1..Len(b) : i \in 1..Len(a)
        BY <1>1, <1>3
    <2> QED
        BY <1>1, <1>3, <2>1, UnderPointwise
<1> QED
    BY <1>1, <1>2, <1>3

LEMMA UnderSameLength ==
    ASSUME NEW a \in Seq(Names), NEW b \in Seq(Names), Under(a, b), Len(a) >= Len(b)
    PROVE  a = b
<1>1. Len(a) = Len(b) /\ \A i \in 1..Len(a) : b[i] = a[i]
    BY UnderPointwise
<1> QED
    BY <1>1, SamePath

LEMMA UnderOneMore ==
    ASSUME NEW r \in Seq(Names), NEW p \in Seq(Names), NEW n \in Names, Under(r, Append(p, n))
    PROVE  r = Append(p, n) \/ Under(r, p)
<1>1. /\ Append(p, n) \in Seq(Names) /\ Len(Append(p, n)) = Len(p) + 1
      /\ \A i \in 1..Len(p) : Append(p, n)[i] = p[i]
      /\ Len(r) \in Nat /\ Len(p) \in Nat
    OBVIOUS
<1>2. Len(r) <= Len(p) + 1 /\ \A i \in 1..Len(r) : Append(p, n)[i] = r[i]
    BY <1>1, UnderPointwise
<1>3. CASE Len(r) = Len(p) + 1
    <2>1. PICK a \in Seq(Names) : a = Append(p, n)
        BY <1>1
    <2>2. Under(r, a) /\ Len(r) >= Len(a)
        BY <1>1, <1>3, <2>1
    <2>3. r = a
        BY <2>2, UnderSameLength
    <2> QED
        BY <2>1, <2>3
<1>4. CASE Len(r) <= Len(p)
    <2>1. \A i \in 1..Len(r) : i \in 1..Len(p)
        BY <1>1, <1>4
    <2> QED
        BY <1>1, <1>2, <1>4, <2>1, UnderPointwise
<1> QED
    BY <1>1, <1>2, <1>3, <1>4

\* The next step on the way from p to q.
LEMMA NextStep ==
    ASSUME NEW p \in Seq(Names), NEW q \in Seq(Names), Under(p, q), p # q
    PROVE  \E n \in Names : Under(Append(p, n), q) /\ Under(p, Append(p, n))
<1>1. /\ Len(p) \in Nat /\ Len(q) \in Nat /\ Len(p) <= Len(q) /\ \A i \in 1..Len(p) : q[i] = p[i]
    BY UnderPointwise
<1>2. Len(p) < Len(q)
    BY <1>1, SamePath
<1>3. PICK n \in Names : n = q[Len(p) + 1]
    BY <1>1, <1>2
<1>4. /\ Append(p, n) \in Seq(Names) /\ Len(Append(p, n)) = Len(p) + 1
      /\ \A i \in 1..Len(p) : Append(p, n)[i] = p[i]
      /\ Append(p, n)[Len(p) + 1] = n
    OBVIOUS
<1>5. \A i \in 1..(Len(p) + 1) : q[i] = Append(p, n)[i]
    <2> SUFFICES ASSUME NEW i \in 1..(Len(p) + 1) PROVE q[i] = Append(p, n)[i]
        OBVIOUS
    <2>1. i \in 1..Len(p) \/ i = Len(p) + 1
        BY <1>1
    <2> QED
        BY <1>1, <1>3, <1>4, <2>1
<1>6. Under(Append(p, n), q)
    <2>1. PICK a \in Seq(Names) : a = Append(p, n)
        BY <1>4
    <2>2. Len(a) <= Len(q) /\ \A i \in 1..Len(a) : q[i] = a[i]
        BY <1>1, <1>2, <1>4, <1>5, <2>1
    <2>3. Under(a, q)
        BY <2>2, UnderPointwise
    <2> QED
        BY <2>1, <2>3
<1>7. Under(p, Append(p, n))
    BY UnderReflexive, UnderAppend
<1> QED
    BY <1>6, <1>7

LEMMA StepsAreUnder ==
    ASSUME NEW p \in Seq(Names), NEW q \in Seq(Names)
    PROVE  q \in Steps(p) <=> q # Root /\ Under(q, p)
<1>1. ASSUME q \in Steps(p) PROVE q # Root /\ Under(q, p)
    BY <1>1, StepsArePaths DEF Under
<1>2. ASSUME q # Root, Under(q, p) PROVE q \in Steps(p)
    <2>1. Len(q) \in 1..Len(p) /\ SubSeq(p, 1, Len(q)) = q
        BY <1>2 DEF Under, Root
    <2> QED
        BY <2>1 DEF Steps
<1> QED
    BY <1>1, <1>2

\* Where a path of the source goes, name by name.
LEMMA MovedPath ==
    ASSUME NEW src \in Seq(Names), NEW dst \in Seq(Names), NEW p \in Seq(Names), Under(src, p)
    PROVE  /\ Moved(p, src, dst) \in Seq(Names)
           /\ Len(Moved(p, src, dst)) = Len(dst) + (Len(p) - Len(src))
           /\ \A i \in 1..Len(dst) : Moved(p, src, dst)[i] = dst[i]
           /\ \A i \in 1..(Len(p) - Len(src)) : Moved(p, src, dst)[Len(dst) + i] = p[Len(src) + i]
           /\ Under(dst, Moved(p, src, dst))
<1> DEFINE q == Moved(p, src, dst)
<1>2. Len(src) \in Nat /\ Len(dst) \in Nat /\ Len(p) \in Nat
    OBVIOUS
<1>1. PICK k \in Nat : k = Len(p) - Len(src)
    <2>1. Len(p) - Len(src) \in Nat
        BY <1>2 DEF Under
    <2> QED
        BY <2>1
<1> DEFINE rest == SubSeq(p, Len(src) + 1, Len(p))
<1>3. rest \in Seq(Names) /\ Len(rest) = k /\ \A i \in 1..k : rest[i] = p[Len(src) + i]
    <2>1. Len(src) + 1 \in 1..(Len(p) + 1)
        BY <1>1, <1>2
    <2>2. \A i \in 1..k : Len(src) + i \in 1..Len(p) /\ (Len(src) + 1) + i - 1 = Len(src) + i
        BY <1>1, <1>2
    <2>3. rest \in Seq(Names) /\ Len(rest) = k
        BY <1>1, <1>2, <2>1
    <2>4. \A i \in 1..k : rest[i] = p[(Len(src) + 1) + i - 1]
        BY <1>1, <1>2, <2>1
    <2> QED
        BY <2>2, <2>3, <2>4
<1>4. q = dst \o rest
    BY DEF Moved
<1> HIDE DEF q, rest
<1>5. /\ q \in Seq(Names) /\ Len(q) = Len(dst) + k
      /\ \A i \in 1..Len(dst) : q[i] = dst[i]
      /\ \A i \in 1..k : q[Len(dst) + i] = rest[i]
    <2>1. ASSUME NEW a \in Seq(Names), NEW b \in Seq(Names), NEW m \in Nat, m = Len(a),
                 NEW h \in Nat, h = Len(b)
          PROVE  /\ a \o b \in Seq(Names) /\ Len(a \o b) = m + h
                 /\ \A i \in 1..m : (a \o b)[i] = a[i]
                 /\ \A i \in 1..h : (a \o b)[m + i] = b[i]
        BY <2>1
    <2> QED
        BY <1>2, <1>3, <1>4, <2>1
<1>6. Under(dst, q)
    BY <1>2, <1>5, UnderPointwise, SMTT(30)
<1> QED
    BY <1>1, <1>3, <1>5, <1>6 DEF q

LEMMA MovedInjective ==
    ASSUME NEW src \in Seq(Names), NEW dst \in Seq(Names), NEW p \in Seq(Names), NEW r \in Seq(Names),
           Under(src, p), Under(src, r), Moved(p, src, dst) = Moved(r, src, dst)
    PROVE  p = r
<1>1. /\ Len(src) \in Nat /\ Len(dst) \in Nat /\ Len(p) \in Nat /\ Len(r) \in Nat
      /\ Len(src) <= Len(p) /\ Len(src) <= Len(r)
      /\ \A i \in 1..Len(src) : p[i] = src[i]
      /\ \A i \in 1..Len(src) : r[i] = src[i]
    BY UnderPointwise
<1> DEFINE q == Moved(p, src, dst)
<1>5. /\ Len(q) = Len(dst) + (Len(p) - Len(src))
      /\ \A i \in 1..(Len(p) - Len(src)) : q[Len(dst) + i] = p[Len(src) + i]
    BY MovedPath
<1>6. /\ Len(q) = Len(dst) + (Len(r) - Len(src))
      /\ \A i \in 1..(Len(r) - Len(src)) : q[Len(dst) + i] = r[Len(src) + i]
    <2>1. q = Moved(r, src, dst)
        OBVIOUS
    <2>2. /\ Len(Moved(r, src, dst)) = Len(dst) + (Len(r) - Len(src))
          /\ \A i \in 1..(Len(r) - Len(src)) : Moved(r, src, dst)[Len(dst) + i] = r[Len(src) + i]
        BY MovedPath
    <2> HIDE DEF q
    <2> QED
        BY <2>1, <2>2
<1> HIDE DEF q
<1>2. Len(p) = Len(r)
    BY <1>1, <1>5, <1>6
<1>3. \A i \in 1..(Len(p) - Len(src)) : p[Len(src) + i] = r[Len(src) + i]
    BY <1>2, <1>5, <1>6
<1>4. \A i \in 1..Len(p) : p[i] = r[i]
    <2> SUFFICES ASSUME NEW i \in 1..Len(p) PROVE p[i] = r[i]
        OBVIOUS
    <2>1. CASE i \in 1..Len(src)
        BY <1>1, <2>1
    <2>2. CASE i > Len(src)
        <3>1. PICK k \in 1..(Len(p) - Len(src)) : k = i - Len(src)
            <4>1. i - Len(src) \in 1..(Len(p) - Len(src))
                BY <1>1, <2>2
            <4> QED
                BY <4>1
        <3>2. p[Len(src) + k] = r[Len(src) + k]
            BY <1>3
        <3>3. Len(src) + k = i
            BY <1>1, <3>1
        <3> QED
            BY <3>2, <3>3
    <2> QED
        BY <1>1, <2>1, <2>2
<1> QED
    BY <1>2, <1>4, SamePath

LEMMA MovedStep ==
    ASSUME NEW src \in Seq(Names), NEW dst \in Seq(Names), NEW p \in Seq(Names), NEW n \in Names,
           Under(src, p)
    PROVE  Moved(Append(p, n), src, dst) = Append(Moved(p, src, dst), n)
<1> DEFINE a == Moved(Append(p, n), src, dst)
           b == Append(Moved(p, src, dst), n)
<1>1. /\ Append(p, n) \in Seq(Names) /\ Len(Append(p, n)) = Len(p) + 1 /\ Under(src, Append(p, n))
      /\ \A i \in 1..Len(p) : Append(p, n)[i] = p[i]
      /\ Append(p, n)[Len(p) + 1] = n
      /\ Len(src) \in Nat /\ Len(dst) \in Nat /\ Len(p) \in Nat
    BY UnderAppend
<1>2. PICK k \in Nat : k = Len(p) - Len(src)
    <2>1. Len(p) - Len(src) \in Nat
        BY <1>1 DEF Under
    <2> QED
        BY <2>1
<1>3. /\ a \in Seq(Names) /\ Len(a) = Len(dst) + (k + 1)
      /\ \A i \in 1..Len(dst) : a[i] = dst[i]
      /\ \A i \in 1..(k + 1) : a[Len(dst) + i] = Append(p, n)[Len(src) + i]
    <2>1. PICK e \in Seq(Names) : e = Append(p, n)
        BY <1>1
    <2>2. Len(e) - Len(src) = k + 1 /\ Under(src, e) /\ a = Moved(e, src, dst)
        BY <1>1, <1>2, <2>1
    <2>3. /\ Moved(e, src, dst) \in Seq(Names)
          /\ Len(Moved(e, src, dst)) = Len(dst) + (Len(e) - Len(src))
          /\ \A i \in 1..Len(dst) : Moved(e, src, dst)[i] = dst[i]
          /\ \A i \in 1..(Len(e) - Len(src)) : Moved(e, src, dst)[Len(dst) + i] = e[Len(src) + i]
        BY <2>2, MovedPath, ZenonT(30)
    <2> HIDE DEF a
    <2> QED
        BY <2>1, <2>2, <2>3
<1>4. /\ Moved(p, src, dst) \in Seq(Names) /\ Len(Moved(p, src, dst)) = Len(dst) + k
      /\ \A i \in 1..Len(dst) : Moved(p, src, dst)[i] = dst[i]
      /\ \A i \in 1..k : Moved(p, src, dst)[Len(dst) + i] = p[Len(src) + i]
    BY <1>2, MovedPath
<1>5. /\ b \in Seq(Names) /\ Len(b) = Len(dst) + (k + 1)
      /\ \A i \in 1..(Len(dst) + k) : b[i] = Moved(p, src, dst)[i]
      /\ b[Len(dst) + (k + 1)] = n
    BY <1>1, <1>4
<1> HIDE DEF a, b
<1>6. \A i \in 1..Len(a) : a[i] = b[i]
    <2> SUFFICES ASSUME NEW i \in 1..Len(a) PROVE a[i] = b[i]
        OBVIOUS
    <2>1. CASE i \in 1..Len(dst)
        BY <1>1, <1>3, <1>4, <1>5, <2>1
    <2>2. CASE i = Len(dst) + (k + 1)
        <3>1. Len(src) + (k + 1) = Len(p) + 1
            BY <1>1, <1>2
        <3>2. a[Len(dst) + (k + 1)] = Append(p, n)[Len(src) + (k + 1)]
            <4>1. k + 1 \in 1..(k + 1)
                OBVIOUS
            <4> QED
                BY <1>3, <4>1
        <3>3. a[i] = Append(p, n)[Len(p) + 1]
            BY <2>2, <3>1, <3>2
        <3> QED
            BY <1>1, <1>5, <2>2, <3>3
    <2>3. CASE i \in (Len(dst) + 1)..(Len(dst) + k)
        <3>1. PICK j \in 1..k : i = Len(dst) + j
            <4>1. i - Len(dst) \in 1..k /\ i = Len(dst) + (i - Len(dst))
                BY <1>1, <2>3
            <4> QED
                BY <4>1
        <3>2. j \in 1..(k + 1) /\ Len(src) + j \in 1..Len(p) /\ i \in 1..(Len(dst) + k)
            BY <1>1, <1>2, <3>1, <2>3
        <3>3. a[i] = Append(p, n)[Len(src) + j]
            BY <1>3, <3>1, <3>2
        <3>4. b[i] = Moved(p, src, dst)[Len(dst) + j]
            BY <1>5, <3>1, <3>2
        <3> QED
            BY <1>1, <1>4, <3>2, <3>3, <3>4
    <2> QED
        BY <1>1, <1>3, <2>1, <2>2, <2>3
<1>7. a = b
    BY <1>3, <1>5, <1>6, SamePath
<1> QED
    BY <1>7 DEF a, b

LEMMA MovedSource ==
    ASSUME NEW src \in Seq(Names), NEW dst \in Seq(Names)
    PROVE  Moved(src, src, dst) = dst
<1>1. Under(src, src)
    BY UnderReflexive
<1>2. /\ Moved(src, src, dst) \in Seq(Names) /\ Len(Moved(src, src, dst)) = Len(dst)
      /\ \A i \in 1..Len(dst) : Moved(src, src, dst)[i] = dst[i]
    <2>1. Len(dst) + (Len(src) - Len(src)) = Len(dst)
        OBVIOUS
    <2>2. /\ Moved(src, src, dst) \in Seq(Names)
          /\ Len(Moved(src, src, dst)) = Len(dst) + (Len(src) - Len(src))
          /\ \A i \in 1..Len(dst) : Moved(src, src, dst)[i] = dst[i]
        BY <1>1, MovedPath
    <2> QED
        BY <2>1, <2>2
<1> QED
    BY <1>2, SamePath

-----------------------------------------------------------------------------
(* A copy is complete: what has been copied at each of its steps           *)

\* What a copy of src reaches in the layers L.
From(L, src) ==
    {p \in Seen(L) :
        Under(src, p) /\ \A q \in Steps(p) \ Steps(src) : Under(src, q) => InListing(L, q)}

Given(L, src) == From(L, src) \cup {p \in Implied : Under(src, p)}

\* p or a directory it is in is still to be copied by one of the calls w.
Pending(w, p) == \E i \in 1..Len(w) : \E n \in w[i].todo : Under(Append(w[i].src, n), p)

Away(src, dst) == ~Under(src, dst) /\ ~Under(dst, src)

\* The calls stand in the directories on one way from src, and what they have
\* still to copy is below none of these.
Walk(L, w, src, dst) ==
    \A i \in 1..Len(w) :
        /\ w[i].src \in From(L, src) /\ is_dir(L, w[i].src)
        /\ Len(w[i].src) = Len(src) + i - 1
        /\ w[i].dst = Moved(w[i].src, src, dst)
        /\ w[i].todo \subseteq list_dir(L, w[i].src)
        /\ ~Pending(w, w[i].src)

Copied(L, w, src, dst) ==
    \A p \in From(L, src) : ~Pending(w, p) =>
        /\ Moved(p, src, dst) \in Seen(L)
        /\ get_node(L, Moved(p, src, dst)) = Plain(get_node(L, p))

NothingElse(L, w, src, dst) ==
    \A q \in Seen(L) : Under(dst, q) =>
        \E p \in Given(L, src) : q = Moved(p, src, dst) /\ ~Pending(w, p)

Copying(L, w, src, dst) ==
    /\ Away(src, dst)
    /\ Walk(L, w, src, dst)
    /\ Copied(L, w, src, dst)
    /\ NothingElse(L, w, src, dst)

\* v is w after its last call has taken n.
Took(w, n, v) ==
    /\ Len(v) = Len(w) /\ n \in w[Len(w)].todo
    /\ \A i \in 1..Len(w) :
        /\ v[i].src = w[i].src /\ v[i].dst = w[i].dst
        /\ v[i].todo = IF i = Len(w) THEN w[i].todo \ {n} ELSE w[i].todo

\* A listing names what exists or is implied.
Listed(L) ==
    \A d \in Seen(L) : is_dir(L, d) =>
        \A n \in list_dir(L, d) : exists(L, Append(d, n)) \/ Append(d, n) \in Implied

\* The last of the calls w has to copy n, from s to d.
Entry(L, w, src, dst, n, s, d) ==
    /\ Sound(L) /\ Listed(L) /\ w \in Seq(Frame) /\ w # <<>>
    /\ src \in Seq(Names) /\ dst \in Seq(Names) /\ Copying(L, w, src, dst)
    /\ n \in Names /\ n \in w[Len(w)].todo
    /\ s = Append(w[Len(w)].src, n) /\ d = Append(w[Len(w)].dst, n)

LEMMA ImpliedArePaths == \A p \in Implied : p \in Seq(Names) \ {Root}
<1> SUFFICES ASSUME NEW p \in Implied PROVE p \in Seq(Names) \ {Root}
    OBVIOUS
<1>1. PICK r \in DOMAIN Rows \cup DOMAIN Dynamic \cup DOMAIN SystemFiles : p \in Steps(r)
    BY DEF Implied
<1> QED
    BY <1>1, RowsAssumption, DynamicAssumption, SystemFilesAssumption, StepsArePaths

LEMMA DirIsSeen ==
    ASSUME NEW L, NEW q \in Seq(Names), q # Root
    PROVE  is_dir(L, q) <=> q \in Seen(L) /\ get_node(L, q).type = "dir"
<1>1. exists(L, q) <=> q \in Seen(L)
    BY ExistsIsSeen
<1>2. q \in Seen(L) => q \notin L.deleted_paths
    BY DEF Seen
<1> QED
    BY <1>1, <1>2 DEF is_dir

LEMMA AwayPaths ==
    ASSUME NEW src \in Seq(Names), NEW dst \in Seq(Names), Away(src, dst)
    PROVE  /\ src # Root /\ dst # Root
           /\ \A p \in Seq(Names) : ~(Under(src, p) /\ Under(dst, p))
           /\ \A p \in Seq(Names) : Under(src, p) => p # Root
           /\ \A p \in Seq(Names) : Under(dst, p) => p # Root
<1>1. \A p \in Seq(Names) : Under(Root, p)
    BY DEF Under, Root
<1>2. \A p \in Seq(Names) : Under(p, Root) => p = Root
    <2> SUFFICES ASSUME NEW p \in Seq(Names), Under(p, Root) PROVE p = Root
        OBVIOUS
    <2>1. Len(p) = 0
        BY DEF Under, Root
    <2> QED
        BY <2>1 DEF Root
<1>3. src # Root /\ dst # Root
    BY <1>1 DEF Away
<1> QED
    BY <1>2, <1>3, UnderComparable DEF Away

LEMMA ParentOfEntry ==
    ASSUME NEW d \in Seq(Names), NEW n \in Names
    PROVE  Parent(Append(d, n)) = d /\ Basename(Append(d, n)) = n
BY DEF Parent, Basename

\* M has what L has below src, in the same layers.
Untouched(L, M, src) ==
    \A q \in Seq(Names) : Under(src, q) =>
        /\ q \in DOMAIN L.memory_overlay <=> q \in DOMAIN M.memory_overlay
        /\ q \in L.deleted_paths <=> q \in M.deleted_paths
        /\ get_node(M, q) = get_node(L, q)

LEMMA UntouchedIsSeen ==
    ASSUME NEW L, NEW M, NEW src, Untouched(L, M, src)
    PROVE  \A q \in Seq(Names) : Under(src, q) => (q \in Seen(L) <=> q \in Seen(M))
BY DEF Untouched, Seen

LEMMA SourceKept ==
    ASSUME NEW L, NEW M, IsLayers(L), IsLayers(M), NEW src \in Seq(Names), src # Root,
           Untouched(L, M, src)
    PROVE  /\ From(M, src) = From(L, src)
           /\ \A q \in Seq(Names) : Under(src, q) => (is_dir(M, q) <=> is_dir(L, q))
           /\ \A q \in Seq(Names) : Under(src, q) => list_dir(M, q) = list_dir(L, q)
<1>0. \A q \in Seq(Names) : Under(src, q) =>
            (q \in Seen(L) <=> q \in Seen(M)) /\ get_node(M, q) = get_node(L, q)
    BY UntouchedIsSeen DEF Untouched
<1>1. \A q \in Seq(Names) : Under(src, q) => q # Root
    <2> SUFFICES ASSUME Under(src, Root) PROVE FALSE
        OBVIOUS
    <2>1. Len(src) = 0
        BY DEF Under, Root
    <2> QED
        BY <2>1 DEF Root
<1>2. \A q \in Seq(Names) : Under(src, q) => (is_dir(M, q) <=> is_dir(L, q))
    BY <1>0, <1>1, DirIsSeen
<1>3. \A p \in Seen(L) \cup Seen(M) : p \in Seq(Names)
    BY SeenArePaths
<1>4. ASSUME NEW q \in Seq(Names), Under(src, q)
      PROVE  list_dir(M, q) = list_dir(L, q)
    <2>1. ASSUME NEW n \in Names
          PROVE  /\ Append(q, n) \in M.deleted_paths <=> Append(q, n) \in L.deleted_paths
                 /\ (\E p \in DOMAIN Dynamic \cup DOMAIN M.memory_overlay : Under(Append(q, n), p))
                        <=> \E p \in DOMAIN Dynamic \cup DOMAIN L.memory_overlay : Under(Append(q, n), p)
        <3>1. PICK e \in Seq(Names) : e = Append(q, n)
            <4>1. Append(q, n) \in Seq(Names)
                OBVIOUS
            <4> QED
                BY <4>1
        <3>2. Under(src, e)
            BY <1>4, <3>1, UnderAppend
        <3>3. \A p \in Seq(Names) : Under(e, p) => Under(src, p)
            BY <3>2, UnderTransitive
        <3>4. \A p \in DOMAIN M.memory_overlay \cup DOMAIN L.memory_overlay : p \in Seq(Names)
            BY DEF IsLayers
        <3>5. \A p : Under(e, p) => (p \in DOMAIN M.memory_overlay <=> p \in DOMAIN L.memory_overlay)
            BY <3>3, <3>4 DEF Untouched
        <3> QED
            BY <3>1, <3>2, <3>5 DEF Untouched
    <2> QED
        BY <1>2, <1>4, <2>1 DEF list_dir
<1>5. ASSUME NEW p \in Seq(Names), NEW q \in Steps(p) \ Steps(src), Under(src, q)
      PROVE  InListing(M, q) <=> InListing(L, q)
    <2>1. q \in Seq(Names) /\ q # Root /\ q # src
        BY <1>1, <1>5, StepsArePaths, PathIsStep
    <2>2. PICK d \in Seq(Names), n \in Names : q = Append(d, n)
        <3>1. SubSeq(q, 1, Len(q) - 1) \in Seq(Names) /\ q[Len(q)] \in Names
                /\ q = Append(SubSeq(q, 1, Len(q) - 1), q[Len(q)])
            BY <2>1 DEF Root
        <3> QED
            BY <3>1
    <2>3. Under(src, d)
        BY <1>5, <2>1, <2>2, UnderOneMore
    <2> QED
        BY <1>4, <2>2, <2>3, ParentOfEntry DEF InListing
<1>6. \A p \in Seq(Names) : p \in From(M, src) <=> p \in From(L, src)
    BY <1>0, <1>5 DEF From
<1>7. From(M, src) = From(L, src)
    BY <1>3, <1>6 DEF From
<1> QED
    BY <1>2, <1>4, <1>7

\* The next entry of the last call.
LEMMA EntryFacts ==
    ASSUME NEW L, NEW w, NEW src, NEW dst, NEW n, NEW s, NEW d, Entry(L, w, src, dst, n, s, d)
    PROVE  /\ s \in Seq(Names) /\ Under(src, s)
           /\ d \in Seq(Names) /\ Under(dst, d) /\ d = Moved(s, src, dst)
           /\ w[Len(w)].dst \in Seq(Names) /\ is_dir(L, w[Len(w)].dst)
           /\ s \in Given(L, src) /\ (s \in Seen(L) => s \in From(L, src))
<1> /\ Sound(L) /\ Listed(L) /\ w \in Seq(Frame) /\ w # <<>> /\ n \in Names
    /\ src \in Seq(Names) /\ dst \in Seq(Names) /\ Copying(L, w, src, dst)
    /\ n \in w[Len(w)].todo /\ s = Append(w[Len(w)].src, n) /\ d = Append(w[Len(w)].dst, n)
    BY DEF Entry
<1> DEFINE top == w[Len(w)]
<1>1. Len(w) \in 1..Len(w) /\ top \in Frame
    OBVIOUS
<1>2. /\ top.src \in From(L, src) /\ is_dir(L, top.src)
      /\ top.dst = Moved(top.src, src, dst)
      /\ n \in list_dir(L, top.src)
      /\ ~Pending(w, top.src)
    BY <1>1 DEF Copying, Walk
<1>3. top.src \in Seq(Names) /\ top.dst \in Seq(Names) /\ Under(src, top.src)
    BY <1>1, <1>2 DEF Frame, From
<1> HIDE DEF top
<1>4. s \in Seq(Names) /\ Under(src, s) /\ s = Append(top.src, n)
    BY <1>3, UnderAppend DEF top
<1>5. d \in Seq(Names) /\ d = Append(top.dst, n)
    BY <1>3 DEF top
<1>6. d = Moved(s, src, dst)
    BY <1>2, <1>3, <1>4, <1>5, MovedStep
<1>7. Under(dst, d)
    <2>1. Under(dst, Moved(s, src, dst))
        BY <1>4, MovedPath
    <2> QED
        BY <1>6, <2>1
<1>8. top.src # Root /\ top.dst # Root
    <2>1. Under(dst, Moved(top.src, src, dst))
        BY <1>3, MovedPath
    <2>2. Under(dst, top.dst)
        BY <1>2, <2>1
    <2>3. Away(src, dst)
        BY DEF Copying
    <2> QED
        BY <1>3, <2>2, <2>3, AwayPaths
<1>9. top.dst \in Seen(L) /\ get_node(L, top.dst) = Dir
    <2>1. top.dst \in Seen(L) /\ get_node(L, top.dst) = Plain(get_node(L, top.src))
        BY <1>2 DEF Copying, Copied
    <2>2. get_node(L, top.src).type = "dir"
        BY <1>2, <1>3, <1>8, DirIsSeen
    <2> QED
        BY <2>1, <2>2 DEF Plain
<1>10. is_dir(L, top.dst)
    <2>1. get_node(L, top.dst).type = "dir"
        <3>1. Dir.type = "dir"
            BY DEF Dir
        <3> QED
            BY <1>9, <3>1
    <2> QED
        BY <1>3, <1>8, <1>9, <2>1, DirIsSeen
<1>11. s \in Seen(L) => s \in From(L, src)
    <2> SUFFICES ASSUME s \in Seen(L), NEW q \in Steps(s) \ Steps(src), Under(src, q)
                 PROVE  InListing(L, q)
        BY <1>4 DEF From
    <2>1. q \in Seq(Names) /\ q # Root /\ Under(q, s)
        BY <1>4, StepsArePaths, StepsAreUnder
    <2>2. CASE q = s
        BY <1>2, <1>3, <1>4, <2>2, ParentOfEntry DEF InListing
    <2>3. CASE q # s
        <3>1. Under(q, top.src)
            BY <1>3, <1>4, <2>1, <2>3, UnderOneMore
        <3>2. q \in Steps(top.src)
            BY <1>3, <2>1, <3>1, StepsAreUnder
        <3> QED
            BY <1>2, <3>2 DEF From
    <2> QED
        BY <2>2, <2>3
<1>12. s \in Given(L, src)
    <2>1. top.src \in Seen(L)
        BY <1>2 DEF From
    <2>2. exists(L, s) \/ s \in Implied
        BY <1>2, <1>4, <2>1 DEF Listed
    <2>3. s \in Seen(L) \cup Implied
        BY <1>4, <2>2, ExistsIsSeen
    <2> QED
        BY <1>4, <1>11, <2>3 DEF Given
<1> QED
    BY <1>3, <1>4, <1>5, <1>6, <1>7, <1>10, <1>11, <1>12 DEF top

\* What is to be copied after an entry was taken.
LEMMA TookPending ==
    ASSUME NEW L, NEW w, NEW src, NEW dst, NEW n, NEW s, NEW d, Entry(L, w, src, dst, n, s, d),
           NEW v, Took(w, n, v)
    PROVE  /\ Pending(w, s) /\ ~Pending(v, s)
           /\ \A p : Pending(v, p) => Pending(w, p)
           /\ \A p : Pending(w, p) => Pending(v, p) \/ Under(s, p)
<1> /\ w \in Seq(Frame) /\ w # <<>> /\ n \in Names /\ src \in Seq(Names)
    /\ Walk(L, w, src, dst) /\ s = Append(w[Len(w)].src, n)
    BY DEF Entry, Copying
<1> DEFINE N == Len(w)
<1>1. N \in Nat /\ N \in 1..N /\ Len(v) = N /\ \A i \in 1..N : w[i] \in Frame
    BY DEF Took
<1>2. \A i \in 1..N : /\ v[i].src = w[i].src
                      /\ v[i].todo = IF i = N THEN w[i].todo \ {n} ELSE w[i].todo
    BY DEF Took
<1>3. n \in w[N].todo /\ s = Append(w[N].src, n)
    BY DEF Took
<1>4. \A i \in 1..N : /\ w[i].src \in Seq(Names) /\ w[i].todo \subseteq Names
                      /\ Len(w[i].src) = Len(src) + i - 1
                      /\ ~Pending(w, w[i].src)
    BY <1>1 DEF Frame, Walk
<1> HIDE DEF N
<1>5. s \in Seq(Names)
    BY <1>1, <1>3, <1>4
<1>6. \A p : Pending(v, p) => Pending(w, p)
    <2> SUFFICES ASSUME NEW p, Pending(v, p) PROVE Pending(w, p)
        OBVIOUS
    <2>1. PICK i \in 1..N : \E m \in v[i].todo : Under(Append(v[i].src, m), p)
        BY <1>1 DEF Pending
    <2>2. PICK m \in v[i].todo : Under(Append(v[i].src, m), p)
        BY <2>1
    <2>3. m \in w[i].todo /\ v[i].src = w[i].src
        BY <1>2
    <2> QED
        BY <2>2, <2>3 DEF Pending, N
<1>7. \A p : Pending(w, p) => Pending(v, p) \/ Under(s, p)
    <2> SUFFICES ASSUME NEW p, Pending(w, p), ~Under(s, p) PROVE Pending(v, p)
        OBVIOUS
    <2>1. PICK i \in 1..N : \E m \in w[i].todo : Under(Append(w[i].src, m), p)
        BY DEF Pending, N
    <2>2. PICK m \in w[i].todo : Under(Append(w[i].src, m), p)
        BY <2>1
    <2>3. m \in v[i].todo
        BY <1>2, <1>3, <2>2
    <2> QED
        BY <1>1, <1>2, <2>2, <2>3 DEF Pending
<1>8. Pending(w, s)
    BY <1>1, <1>3, <1>5, UnderReflexive DEF Pending, N
<1>9. ~Pending(v, s)
    <2> SUFFICES ASSUME NEW i \in 1..N, NEW m \in v[i].todo, Under(Append(v[i].src, m), s) PROVE FALSE
        BY <1>1 DEF Pending
    <2>1. m \in w[i].todo /\ m \in Names /\ Under(Append(w[i].src, m), s)
        BY <1>2, <1>4
    <2>2. PICK e \in Seq(Names) : e = Append(w[i].src, m)
        <3>1. w[i].src \in Seq(Names)
            BY <1>4
        <3>2. Append(w[i].src, m) \in Seq(Names)
            BY <2>1, <3>1
        <3> QED
            BY <3>2
    <2>3. e = s \/ Under(e, w[N].src)
        BY <1>1, <1>3, <1>4, <2>1, <2>2, UnderOneMore
    <2>4. CASE Under(e, w[N].src)
        BY <1>1, <1>4, <2>1, <2>2, <2>4 DEF Pending, N
    <2>5. CASE e = s
        <3>1. Len(e) = Len(w[i].src) + 1 /\ Len(s) = Len(w[N].src) + 1
            BY <1>1, <1>3, <1>4, <2>2
        <3>2. i = N
            BY <1>1, <1>4, <2>5, <3>1
        <3>3. m = n
            <4>1. e[Len(w[N].src) + 1] = m /\ s[Len(w[N].src) + 1] = n
                BY <1>1, <1>3, <1>4, <2>2, <3>2
            <4> QED
                BY <2>5, <4>1
        <3> QED
            BY <1>1, <1>2, <3>2, <3>3
    <2> QED
        BY <2>3, <2>4, <2>5
<1> QED
    BY <1>6, <1>7, <1>8, <1>9

\* What a copy reaches below a path is below an entry of its listing.
LEMMA BelowIsListed ==
    ASSUME NEW L, Sound(L), NEW src \in Seq(Names), NEW s \in Seq(Names), Under(src, s),
           NEW p \in From(L, src), Under(s, p), p # s
    PROVE  is_dir(L, s) /\ \E m \in list_dir(L, s) : Under(Append(s, m), p)
<1>1. /\ p \in Seq(Names) /\ p \in Seen(L)
      /\ \A q \in Steps(p) \ Steps(src) : Under(src, q) => InListing(L, q)
    BY SeenArePaths, SoundIsTyped DEF From
<1>2. PICK m \in Names : Under(Append(s, m), p) /\ Under(s, Append(s, m))
    BY <1>1, NextStep
<1>3. PICK e \in Seq(Names) : e = Append(s, m)
    <2>1. Append(s, m) \in Seq(Names)
        OBVIOUS
    <2> QED
        BY <2>1
<1>4. Under(e, p) /\ Under(src, e) /\ e # Root
    <2>1. Under(s, e) /\ Under(e, p)
        BY <1>2, <1>3
    <2>2. Len(e) = Len(s) + 1 /\ Len(s) \in Nat
        BY <1>3
    <2>3. e # Root
        BY <2>2 DEF Root
    <2> QED
        BY <2>1, <2>3, UnderTransitive
<1>5. e \notin Steps(src)
    <2>1. ASSUME e \in Steps(src) PROVE FALSE
        <3>1. Len(e) <= Len(src) /\ Len(src) <= Len(s)
            BY <2>1, StepsArePaths DEF Under
        <3>2. Len(e) = Len(s) + 1 /\ Len(s) \in Nat /\ Len(src) \in Nat
            BY <1>3
        <3> QED
            BY <3>1, <3>2
    <2> QED
        BY <2>1
<1>6. m \in list_dir(L, s)
    <2>1. e \in Steps(p)
        BY <1>1, <1>4, StepsAreUnder
    <2>2. InListing(L, e)
        BY <1>1, <1>4, <1>5, <2>1
    <2> QED
        BY <1>3, <2>2, ParentOfEntry DEF InListing
<1>7. is_dir(L, s)
    BY <1>6 DEF list_dir
<1> QED
    BY <1>2, <1>6, <1>7

\* Between a copy's destination and a directory it made there are only
\* directories it made.
LEMMA WayBack ==
    ASSUME NEW src \in Seq(Names), NEW dst \in Seq(Names), NEW t \in Seq(Names), Under(src, t),
           NEW r \in Seq(Names), Under(dst, r), Under(r, Moved(t, src, dst))
    PROVE  \E p \in Seq(Names) : Under(src, p) /\ Under(p, t) /\ r = Moved(p, src, dst)
<1> DEFINE q == Moved(t, src, dst)
<1>1. /\ q \in Seq(Names) /\ Len(q) = Len(dst) + (Len(t) - Len(src))
      /\ \A i \in 1..(Len(t) - Len(src)) : q[Len(dst) + i] = t[Len(src) + i]
    BY MovedPath
<1>2. Under(r, q)
    OBVIOUS
<1> HIDE DEF q
<1>3. /\ Len(r) <= Len(q) /\ \A i \in 1..Len(r) : q[i] = r[i]
      /\ Len(dst) <= Len(r) /\ \A i \in 1..Len(dst) : r[i] = dst[i]
      /\ Len(src) <= Len(t) /\ \A i \in 1..Len(src) : t[i] = src[i]
    BY <1>1, <1>2, UnderPointwise
<1>4. Len(src) \in Nat /\ Len(dst) \in Nat /\ Len(t) \in Nat /\ Len(r) \in Nat
    OBVIOUS
<1>5. PICK k \in Nat : k = Len(r) - Len(dst)
    <2>1. Len(r) - Len(dst) \in Nat
        BY <1>3, <1>4
    <2> QED
        BY <2>1
<1>6. Len(src) + k <= Len(t) /\ Len(src) + k \in Nat
    BY <1>1, <1>3, <1>4, <1>5
<1>7. PICK p \in Seq(Names) : Len(p) = Len(src) + k /\ \A i \in 1..(Len(src) + k) : p[i] = t[i]
    <2>1. /\ SubSeq(t, 1, Len(src) + k) \in Seq(Names) /\ Len(SubSeq(t, 1, Len(src) + k)) = Len(src) + k
          /\ \A i \in 1..(Len(src) + k) : SubSeq(t, 1, Len(src) + k)[i] = t[i]
        BY <1>4, <1>6
    <2> QED
        BY <2>1
<1>8. Under(p, t)
    BY <1>6, <1>7, UnderPointwise
<1>9. Under(src, p)
    <2>1. Len(src) <= Len(p) /\ \A i \in 1..Len(src) : i \in 1..(Len(src) + k)
        BY <1>4, <1>7
    <2>2. \A i \in 1..Len(src) : p[i] = src[i]
        BY <1>3, <1>7, <2>1
    <2> QED
        BY <2>1, <2>2, UnderPointwise
<1>10. /\ Moved(p, src, dst) \in Seq(Names)
       /\ Len(Moved(p, src, dst)) = Len(dst) + (Len(p) - Len(src))
       /\ \A i \in 1..Len(dst) : Moved(p, src, dst)[i] = dst[i]
       /\ \A i \in 1..(Len(p) - Len(src)) : Moved(p, src, dst)[Len(dst) + i] = p[Len(src) + i]
    BY <1>9, MovedPath, ZenonT(60)
<1>11. PICK a \in Seq(Names) : a = Moved(p, src, dst)
    BY <1>10
<1>12. Len(a) = Len(r) /\ Len(p) - Len(src) = k
    BY <1>4, <1>5, <1>7, <1>10, <1>11
<1>13. \A i \in 1..Len(a) : a[i] = r[i]
    <2> SUFFICES ASSUME NEW i \in 1..Len(a) PROVE a[i] = r[i]
        OBVIOUS
    <2>1. CASE i \in 1..Len(dst)
        BY <1>3, <1>10, <1>11, <2>1
    <2>2. CASE i > Len(dst)
        <3>1. PICK j \in 1..k : i = Len(dst) + j
            <4>1. i - Len(dst) \in 1..k /\ i = Len(dst) + (i - Len(dst))
                BY <1>4, <1>5, <1>12, <2>2
            <4> QED
                BY <4>1
        <3>2. a[Len(dst) + j] = p[Len(src) + j]
            BY <1>10, <1>11, <1>12
        <3>3. Len(src) + j \in 1..(Len(src) + k) /\ j \in 1..(Len(t) - Len(src))
            BY <1>4, <1>6
        <3>4. p[Len(src) + j] = t[Len(src) + j] /\ q[Len(dst) + j] = t[Len(src) + j]
            BY <1>1, <1>7, <3>3
        <3>5. q[i] = r[i]
            BY <1>3, <1>12
        <3> QED
            BY <3>1, <3>2, <3>4, <3>5
    <2> QED
        BY <1>4, <1>12, <2>1, <2>2
<1>14. a = r
    BY <1>12, <1>13, SamePath
<1> QED
    BY <1>8, <1>9, <1>11, <1>14

\* After the entry n the copy of s is in place, and nothing else.  x is the stack
\* of the calls after the step: what it adds to v is all that is below s.
LEMMA EntryTaken ==
    ASSUME NEW L, NEW w, NEW src, NEW dst, NEW n, NEW s, NEW d, Entry(L, w, src, dst, n, s, d),
           NEW v, Took(w, n, v), NEW M, Sound(M), NEW x, Untouched(L, M, src),
           \A q \in Seq(Names) : Under(dst, q) =>
                (q \in Seen(M) <=> q \in Seen(L) \/ q = d) /\ (q # d => get_node(M, q) = get_node(L, q)),
           s \in Seen(L) => get_node(M, d) = Plain(get_node(L, s)),
           \A p : Pending(v, p) => Pending(x, p),
           \A p \in Seq(Names) : Pending(x, p) => Pending(v, p) \/ (Under(s, p) /\ p # s),
           \A p \in From(L, src) : Under(s, p) /\ p # s => Pending(x, p)
    PROVE  /\ Copied(M, x, src, dst) /\ NothingElse(M, x, src, dst)
           /\ ~Pending(x, s) /\ \A p \in Seq(Names) : Pending(x, p) => Pending(w, p)
<1>2. /\ s \in Seq(Names) /\ Under(src, s)
      /\ d \in Seq(Names) /\ Under(dst, d) /\ d = Moved(s, src, dst)
      /\ s \in Given(L, src)
    BY EntryFacts
<1>3. /\ Pending(w, s) /\ ~Pending(v, s)
      /\ \A p : Pending(v, p) => Pending(w, p)
      /\ \A p : Pending(w, p) => Pending(v, p) \/ Under(s, p)
    BY TookPending
<1> /\ Sound(L) /\ w \in Seq(Frame) /\ w # <<>> /\ n \in Names
    /\ src \in Seq(Names) /\ dst \in Seq(Names) /\ Copying(L, w, src, dst)
    /\ n \in w[Len(w)].todo /\ s = Append(w[Len(w)].src, n) /\ d = Append(w[Len(w)].dst, n)
    BY DEF Entry
<1>1. Len(w) \in 1..Len(w) /\ Walk(L, w, src, dst) /\ Away(src, dst)
    BY DEF Copying
<1>4. \A p : Under(s, p) => Pending(w, p)
    BY <1>1 DEF Pending
<1>5. src # Root
    BY <1>1, AwayPaths
<1>6. From(M, src) = From(L, src)
    BY <1>5, SoundIsTyped, SourceKept
<1>7. \A p \in From(L, src) : p \in Seq(Names) /\ Under(src, p)
    BY SoundIsTyped, SeenArePaths DEF From
<1>8. ASSUME NEW p \in Seq(Names), Under(src, p), Moved(p, src, dst) = d
      PROVE  p = s
    BY <1>2, <1>8, MovedInjective
<1>9. Copied(M, x, src, dst)
    <2> SUFFICES ASSUME NEW p \in From(L, src), ~Pending(x, p)
                 PROVE  /\ Moved(p, src, dst) \in Seen(M)
                        /\ get_node(M, Moved(p, src, dst)) = Plain(get_node(M, p))
        BY <1>6 DEF Copied
    <2>1. p \in Seq(Names) /\ Under(src, p) /\ get_node(M, p) = get_node(L, p)
        BY <1>7 DEF Untouched
    <2>2. Moved(p, src, dst) \in Seq(Names) /\ Under(dst, Moved(p, src, dst))
        BY <2>1, MovedPath
    <2>3. CASE Pending(w, p)
        <3>1. p = s
            BY <1>3, <2>3
        <3> QED
            BY <1>2, <2>1, <3>1 DEF From
    <2>4. CASE ~Pending(w, p)
        <3>1. /\ Moved(p, src, dst) \in Seen(L)
              /\ get_node(L, Moved(p, src, dst)) = Plain(get_node(L, p))
            BY <2>4 DEF Copying, Copied
        <3>2. Moved(p, src, dst) # d
            BY <1>3, <1>8, <2>1, <2>4
        <3> QED
            BY <2>1, <2>2, <3>1, <3>2
    <2> QED
        BY <2>3, <2>4
<1>10. \A p \in Seq(Names) : Pending(x, p) => Pending(w, p)
    BY <1>3, <1>4
<1>11. ~Pending(x, s)
    BY <1>2, <1>3
<1>12. NothingElse(M, x, src, dst)
    <2> SUFFICES ASSUME NEW q \in Seen(M), Under(dst, q)
                 PROVE  \E p \in Given(L, src) : q = Moved(p, src, dst) /\ ~Pending(x, p)
        BY <1>6 DEF NothingElse, Given
    <2>1. q \in Seq(Names)
        BY SoundIsTyped, SeenArePaths
    <2>2. CASE q = d
        BY <1>2, <1>11, <2>2
    <2>3. CASE q # d
        <3>1. q \in Seen(L)
            BY <2>1, <2>3
        <3>2. PICK p \in Given(L, src) : q = Moved(p, src, dst) /\ ~Pending(w, p)
            BY <3>1 DEF Copying, NothingElse
        <3>3. p \in Seq(Names)
            BY SoundIsTyped, SeenArePaths, ImpliedArePaths DEF Given, From
        <3> QED
            BY <1>10, <3>2, <3>3
    <2> QED
        BY <2>2, <2>3
<1> QED
    BY <1>9, <1>10, <1>11, <1>12

\* A step gives the calls nothing more to copy.
NoMore(w, x) == \A p \in Seq(Names) : Pending(x, p) => Pending(w, p)

\* The calls that were under way go on in the same directories.
LEMMA WalkKept ==
    ASSUME NEW L, NEW w, NEW src, NEW dst, NEW n, NEW s, NEW d, Entry(L, w, src, dst, n, s, d),
           NEW v, Took(w, n, v), NEW M, Sound(M), NEW x,
           NoMore(w, x), Untouched(L, M, src),
           NEW i \in 1..Len(w)
    PROVE  /\ v[i].src \in From(M, src) /\ is_dir(M, v[i].src)
           /\ Len(v[i].src) = Len(src) + i - 1
           /\ v[i].dst = Moved(v[i].src, src, dst)
           /\ v[i].todo \subseteq list_dir(M, v[i].src)
           /\ ~Pending(x, v[i].src)
<1> /\ Sound(L) /\ w \in Seq(Frame) /\ src \in Seq(Names) /\ dst \in Seq(Names)
    /\ Walk(L, w, src, dst) /\ Away(src, dst)
    BY DEF Entry, Copying
<1> \A p \in Seq(Names) : Pending(x, p) => Pending(w, p)
    BY DEF NoMore
<1>1. Walk(L, w, src, dst) /\ src # Root
    BY AwayPaths
<1>2. /\ From(M, src) = From(L, src)
      /\ \A q \in Seq(Names) : Under(src, q) => (is_dir(M, q) <=> is_dir(L, q))
      /\ \A q \in Seq(Names) : Under(src, q) => list_dir(M, q) = list_dir(L, q)
    BY <1>1, SoundIsTyped, SourceKept
<1>3. v[i].src = w[i].src /\ v[i].dst = w[i].dst /\ v[i].todo \subseteq w[i].todo
    BY DEF Took
<1>4. /\ w[i].src \in From(L, src) /\ is_dir(L, w[i].src)
      /\ Len(w[i].src) = Len(src) + i - 1
      /\ w[i].dst = Moved(w[i].src, src, dst)
      /\ w[i].todo \subseteq list_dir(L, w[i].src)
      /\ ~Pending(w, w[i].src)
    BY <1>1 DEF Walk
<1>5. w[i] \in Frame
    OBVIOUS
<1>6. w[i].src \in Seq(Names) /\ Under(src, w[i].src)
    BY <1>4, <1>5 DEF Frame, From
<1> QED
    BY <1>2, <1>3, <1>4, <1>6

\* An entry that is no directory.
LEMMA EntryCopied ==
    ASSUME NEW L, NEW w, NEW src, NEW dst, NEW n, NEW s, NEW d, Entry(L, w, src, dst, n, s, d),
           NEW v, Took(w, n, v), NEW M, Sound(M), ~is_dir(L, s), M = mkfile(L, d, get_content(L, s))
    PROVE  Copying(M, v, src, dst)
<1>1. /\ s \in Seq(Names) /\ Under(src, s)
      /\ d \in Seq(Names) /\ Under(dst, d) /\ d = Moved(s, src, dst)
      /\ w[Len(w)].dst \in Seq(Names) /\ is_dir(L, w[Len(w)].dst)
    BY EntryFacts
<1>2. /\ \A p : Pending(v, p) => Pending(w, p)
    BY TookPending
<1>3. /\ Sound(L) /\ w \in Seq(Frame) /\ w # <<>> /\ n \in Names
      /\ src \in Seq(Names) /\ dst \in Seq(Names) /\ Away(src, dst)
      /\ n \in w[Len(w)].todo /\ d = Append(w[Len(w)].dst, n)
    BY DEF Entry, Copying
<1>4. Parent(d) = w[Len(w)].dst
    <2>1. ASSUME NEW a \in Seq(Names), NEW b \in Names
          PROVE  Parent(Append(a, b)) = a
        BY <2>1 DEF Parent
    <2> QED
        BY <1>1, <1>3, <2>1
<1>5. /\ DOMAIN M.memory_overlay = DOMAIN L.memory_overlay \cup {d}
      /\ M.deleted_paths = L.deleted_paths \ {d}
      /\ M.memory_overlay[d] = [type |-> "file", content |-> get_content(L, s)]
    BY <1>1, <1>4 DEF mkfile
<1>6. \A q : q # d => (q \in Seen(M) <=> q \in Seen(L)) /\ get_node(M, q) = get_node(L, q)
    BY MkfileChanges
<1>7. d \in Seen(M)
    BY <1>5 DEF Seen
<1>8. Untouched(L, M, src)
    <2>1. \A q \in Seq(Names) : Under(src, q) => q # d
        BY <1>1, <1>3, AwayPaths
    <2> QED
        BY <1>5, <1>6, <2>1 DEF Untouched
<1>9. \A q \in Seq(Names) : Under(dst, q) =>
                (q \in Seen(M) <=> q \in Seen(L) \/ q = d) /\ (q # d => get_node(M, q) = get_node(L, q))
    BY <1>6, <1>7
<1>10. s \in Seen(L) => get_node(M, d) = Plain(get_node(L, s))
    <2> SUFFICES ASSUME s \in Seen(L) PROVE get_node(M, d) = Plain(get_node(L, s))
        OBVIOUS
    <2>1. s # Root
        BY <1>1, <1>3, AwayPaths
    <2>2. get_node(L, s).type # "dir" /\ exists(L, s)
        BY <1>1, <2>1, DirIsSeen, ExistsIsSeen
    <2>3. get_content(L, s) = get_node(L, s).content
        BY <2>2 DEF get_content
    <2>4. get_node(M, d) = M.memory_overlay[d]
        BY <1>5 DEF get_node
    <2> QED
        BY <1>5, <2>2, <2>3, <2>4 DEF Plain
<1>11. \A p \in From(L, src) : ~(Under(s, p) /\ p # s)
    <2> SUFFICES ASSUME NEW p \in From(L, src), Under(s, p), p # s PROVE FALSE
        OBVIOUS
    <2>1. is_dir(L, s)
        BY <1>1, <1>3, BelowIsListed
    <2> QED
        BY <2>1
<1>12. /\ Copied(M, v, src, dst) /\ NothingElse(M, v, src, dst)
    BY <1>8, <1>9, <1>10, <1>11, EntryTaken
<1>13. Walk(M, v, src, dst)
    <2>1. Len(v) = Len(w)
        BY DEF Took
    <2>2. ASSUME NEW i \in 1..Len(w)
          PROVE  /\ v[i].src \in From(M, src) /\ is_dir(M, v[i].src)
                 /\ Len(v[i].src) = Len(src) + i - 1
                 /\ v[i].dst = Moved(v[i].src, src, dst)
                 /\ v[i].todo \subseteq list_dir(M, v[i].src)
                 /\ ~Pending(v, v[i].src)
        <3>1. NoMore(w, v)
            BY <1>2 DEF NoMore
        <3> QED
            BY <1>8, <3>1, WalkKept
    <2> QED
        BY <2>1, <2>2 DEF Walk
<1> QED
    BY <1>3, <1>12, <1>13 DEF Copying

\* A copy has not been where it goes next.
LEMMA EntryIsNew ==
    ASSUME NEW L, NEW w, NEW src, NEW dst, NEW n, NEW s, NEW d, Entry(L, w, src, dst, n, s, d)
    PROVE  ~exists(L, d)
<1>1. /\ s \in Seq(Names) /\ Under(src, s)
      /\ d \in Seq(Names) /\ Under(dst, d) /\ d = Moved(s, src, dst)
    BY EntryFacts
<1>2. /\ Sound(L) /\ w \in Seq(Frame) /\ w # <<>> /\ src \in Seq(Names) /\ dst \in Seq(Names)
      /\ n \in w[Len(w)].todo /\ s = Append(w[Len(w)].src, n) /\ NothingElse(L, w, src, dst)
    BY DEF Entry, Copying
<1> SUFFICES ASSUME d \in Seen(L) PROVE FALSE
    BY <1>1, ExistsIsSeen
<1>3. PICK p \in Given(L, src) : d = Moved(p, src, dst) /\ ~Pending(w, p)
    BY <1>1, <1>2 DEF NothingElse
<1>4. p \in Seq(Names) /\ Under(src, p)
    BY <1>2, SoundIsTyped, SeenArePaths, ImpliedArePaths DEF Given, From
<1>5. p = s
    BY <1>1, <1>2, <1>3, <1>4, MovedInjective
<1>6. Pending(w, s)
    <2>1. Under(s, s)
        BY <1>1, UnderReflexive
    <2>2. Len(w) \in 1..Len(w)
        BY <1>2
    <2> QED
        BY <1>2, <2>1, <2>2 DEF Pending
<1> QED
    BY <1>3, <1>5, <1>6

\* On the way to d nothing has to be made but d.
LEMMA OnlyEntryIsMade ==
    ASSUME NEW L, NEW w, NEW src, NEW dst, NEW n, NEW s, NEW d, Entry(L, w, src, dst, n, s, d),
           NEW r \in Steps(d), Under(dst, r), ~exists(L, r) \/ is_file(L, r)
    PROVE  r = d
<1>1. /\ s \in Seq(Names) /\ d \in Seq(Names) /\ Under(dst, d)
      /\ w[Len(w)].dst \in Seq(Names)
    BY EntryFacts
<1>2. /\ Sound(L) /\ w \in Seq(Frame) /\ w # <<>> /\ src \in Seq(Names) /\ dst \in Seq(Names)
      /\ n \in Names /\ d = Append(w[Len(w)].dst, n)
      /\ Walk(L, w, src, dst) /\ Copied(L, w, src, dst) /\ Away(src, dst)
    BY DEF Entry, Copying
<1> SUFFICES ASSUME r # d PROVE FALSE
    OBVIOUS
<1>3. r \in Seq(Names) /\ r # Root /\ Under(r, d)
    BY <1>1, StepsArePaths, StepsAreUnder
<1>4. Under(r, w[Len(w)].dst)
    BY <1>1, <1>2, <1>3, UnderOneMore
<1> DEFINE t == w[Len(w)].src
<1>5. /\ t \in From(L, src) /\ is_dir(L, t) /\ w[Len(w)].dst = Moved(t, src, dst) /\ ~Pending(w, t)
    <2>1. Len(w) \in 1..Len(w)
        BY <1>2
    <2> QED
        BY <1>2, <2>1 DEF Walk
<1> HIDE DEF t
<1>6. /\ t \in Seq(Names) /\ Under(src, t)
      /\ \A q \in Steps(t) \ Steps(src) : Under(src, q) => InListing(L, q)
    BY <1>2, <1>5, SoundIsTyped, SeenArePaths DEF From
<1>7. PICK p \in Seq(Names) : Under(src, p) /\ Under(p, t) /\ r = Moved(p, src, dst)
    BY <1>2, <1>3, <1>4, <1>5, <1>6, WayBack
<1>8. p # Root
    BY <1>2, <1>7, AwayPaths
<1>9. is_dir(L, p)
    <2>1. CASE p = t
        BY <1>5, <2>1
    <2>2. CASE p # t
        BY <1>2, <1>5, <1>7, <2>2, BelowIsListed
    <2> QED
        BY <2>1, <2>2
<1>10. p \in Seen(L) /\ get_node(L, p).type = "dir"
    BY <1>8, <1>9, DirIsSeen
<1>11. p \in From(L, src)
    <2> SUFFICES ASSUME NEW q \in Steps(p) \ Steps(src), Under(src, q) PROVE InListing(L, q)
        BY <1>7, <1>10 DEF From
    <2>1. q \in Seq(Names) /\ q # Root /\ Under(q, p)
        BY StepsArePaths, StepsAreUnder
    <2>2. Under(q, t)
        BY <1>6, <1>7, <2>1, UnderTransitive
    <2>3. q \in Steps(t)
        BY <1>6, <2>1, <2>2, StepsAreUnder
    <2> QED
        BY <1>6, <2>3
<1>12. ~Pending(w, p)
    <2> SUFFICES ASSUME NEW i \in 1..Len(w), NEW m \in w[i].todo, Under(Append(w[i].src, m), p)
                 PROVE  FALSE
        BY DEF Pending
    <2>1. w[i].src \in Seq(Names) /\ m \in Names
        <3>1. w[i] \in Frame
            BY <1>2
        <3> QED
            BY <3>1 DEF Frame
    <2>2. Append(w[i].src, m) \in Seq(Names)
        BY <2>1
    <2>3. Under(Append(w[i].src, m), t)
        BY <1>6, <1>7, <2>2, UnderTransitive
    <2> QED
        BY <1>5, <2>3 DEF Pending
<1>13. r \in Seen(L) /\ get_node(L, r) = Plain(get_node(L, p))
    BY <1>2, <1>7, <1>11, <1>12 DEF Copied
<1>14. exists(L, r)
    BY <1>3, <1>13, ExistsIsSeen
<1>15. get_node(L, r).type = "dir"
    <2>1. get_node(L, r) = Dir
        BY <1>10, <1>13 DEF Plain
    <2>2. Dir.type = "dir"
        BY DEF Dir
    <2> QED
        BY <2>1, <2>2
<1> QED
    BY <1>14, <1>15 DEF is_file

\* An entry that is a directory: it is made, and its entries come next.
LEMMA DirEntered ==
    ASSUME NEW L, NEW w, NEW src, NEW dst, NEW n, NEW s, NEW d, Entry(L, w, src, dst, n, s, d),
           NEW v, Took(w, n, v), v \in Seq(Frame), is_dir(L, s),
           NEW M, Sound(M), M = mkdir_p(L, d),
           NEW x, x = Append(v, [src |-> s, dst |-> d, todo |-> list_dir(M, s)])
    PROVE  Copying(M, x, src, dst)
<1>1. /\ s \in Seq(Names) /\ Under(src, s)
      /\ d \in Seq(Names) /\ Under(dst, d) /\ d = Moved(s, src, dst)
      /\ (s \in Seen(L) => s \in From(L, src))
    BY EntryFacts
<1>2. (\A p : Pending(v, p) => Pending(w, p)) /\ ~Pending(v, s)
    BY TookPending
<1>3. ~exists(L, d)
    BY EntryIsNew
<1>4. \A r \in Steps(d) : Under(dst, r) /\ (~exists(L, r) \/ is_file(L, r)) => r = d
    BY OnlyEntryIsMade
<1>5. /\ Sound(L) /\ w \in Seq(Frame) /\ w # <<>> /\ n \in Names
      /\ src \in Seq(Names) /\ dst \in Seq(Names) /\ Away(src, dst) /\ Walk(L, w, src, dst)
      /\ n \in w[Len(w)].todo /\ s = Append(w[Len(w)].src, n)
    BY DEF Entry, Copying
<1>6. s # Root /\ d # Root /\ src # Root
    BY <1>1, <1>5, AwayPaths
<1>7. s \in Seen(L) /\ s \in From(L, src) /\ get_node(L, s).type = "dir"
    BY <1>1, <1>6, DirIsSeen
<1> DEFINE made == {r \in Steps(d) : ~exists(L, r) \/ is_file(L, r)}
<1>8. \A q : /\ q \in Seen(M) <=> q \in Seen(L) \/ q \in made
             /\ get_node(M, q) = IF q \in made THEN Dir ELSE get_node(L, q)
    BY <1>1, MkdirChanges
<1>9. d \in made /\ \A q \in made : q \in Seq(Names) /\ Under(q, d) /\ (Under(dst, q) => q = d)
    <2>1. d \in Steps(d)
        BY <1>1, <1>6, PathIsStep
    <2> QED
        BY <1>1, <1>3, <1>4, <2>1, StepsArePaths, StepsAreUnder
<1> HIDE DEF made
<1>10. Untouched(L, M, src)
    <2>1. ASSUME NEW q \in Seq(Names), Under(src, q), q \in made
          PROVE  FALSE
        <3>1. Under(src, d)
            BY <1>1, <1>5, <1>9, <2>1, UnderTransitive
        <3> QED
            BY <1>1, <1>5, <3>1, AwayPaths
    <2> QED
        BY <1>8, <2>1, MkdirTouches DEF Untouched, made
<1>11. \A q \in Seq(Names) : Under(dst, q) =>
                (q \in Seen(M) <=> q \in Seen(L) \/ q = d) /\ (q # d => get_node(M, q) = get_node(L, q))
    BY <1>8, <1>9
<1>12. s \in Seen(L) => get_node(M, d) = Plain(get_node(L, s))
    BY <1>7, <1>8, <1>9 DEF Plain
<1>13. From(M, src) = From(L, src) /\ is_dir(M, s) /\ s \in Seen(M)
    <2>1. IsLayers(L) /\ IsLayers(M)
        BY <1>5, SoundIsTyped
    <2>2. /\ From(M, src) = From(L, src)
          /\ \A q \in Seq(Names) : Under(src, q) => (is_dir(M, q) <=> is_dir(L, q))
        BY <1>5, <1>6, <1>10, <2>1, SourceKept
    <2> QED
        BY <1>1, <1>7, <1>10, <2>2, UntouchedIsSeen
<1>14. list_dir(M, s) \subseteq Names
    BY DEF list_dir
<1>15. Len(v) = Len(w) /\ Len(v) \in Nat
    BY DEF Took
<1> DEFINE frame == [src |-> s, dst |-> d, todo |-> list_dir(M, s)]
<1>16. frame \in Frame
    BY <1>1, <1>14 DEF Frame
<1>17. frame.src = s /\ frame.dst = d /\ frame.todo = list_dir(M, s)
    OBVIOUS
<1> HIDE DEF frame
<1>18. /\ Len(x) = Len(w) + 1
       /\ \A i \in 1..Len(w) : x[i] = v[i]
       /\ x[Len(w) + 1] = frame
    <2>1. ASSUME NEW a \in Seq(Frame), NEW f \in Frame, NEW k \in Nat, Len(a) = k
          PROVE  /\ Len(Append(a, f)) = k + 1
                 /\ \A i \in 1..k : Append(a, f)[i] = a[i]
                 /\ Append(a, f)[k + 1] = f
        BY <2>1
    <2>2. x = Append(v, frame)
        BY DEF frame
    <2> QED
        BY <1>15, <1>16, <2>1, <2>2
<1>19. \A p : Pending(x, p) <=> Pending(v, p) \/ \E m \in list_dir(M, s) : Under(Append(s, m), p)
    <2>1. Len(w) \in Nat /\ \A i : i \in 1..(Len(w) + 1) <=> i \in 1..Len(w) \/ i = Len(w) + 1
        BY <1>15
    <2> SUFFICES ASSUME NEW p
                 PROVE  Pending(x, p) <=> Pending(v, p) \/ \E m \in list_dir(M, s) : Under(Append(s, m), p)
        OBVIOUS
    <2> DEFINE Below(i) == \E m \in x[i].todo : Under(Append(x[i].src, m), p)
    <2>2. Pending(x, p) <=> \E i \in 1..(Len(w) + 1) : Below(i)
        BY <1>18 DEF Pending
    <2>3. Pending(v, p) <=> \E i \in 1..Len(w) : Below(i)
        BY <1>15, <1>18 DEF Pending
    <2>4. Below(Len(w) + 1) <=> \E m \in list_dir(M, s) : Under(Append(s, m), p)
        BY <1>17, <1>18
    <2> HIDE DEF Below
    <2> QED
        BY <2>1, <2>2, <2>3, <2>4
<1>20. ASSUME NEW m \in list_dir(M, s), NEW p \in Seq(Names), Under(Append(s, m), p)
       PROVE  Under(s, p) /\ p # s
    <2>1. m \in Names
        BY <1>14, <1>20
    <2>2. PICK k \in Nat : k = Len(s)
        BY <1>1
    <2>3. Len(Append(s, m)) = k + 1 /\ SubSeq(Append(s, m), 1, k) = s
        BY <1>1, <2>1, <2>2
    <2>4. k + 1 <= Len(p) /\ SubSeq(p, 1, k + 1) = Append(s, m)
        BY <1>20, <2>3 DEF Under
    <2>5. k <= Len(p) /\ SubSeq(p, 1, k) = SubSeq(SubSeq(p, 1, k + 1), 1, k)
        BY <2>2, <2>4
    <2>6. Under(s, p)
        BY <2>2, <2>3, <2>4, <2>5 DEF Under
    <2> QED
        BY <2>2, <2>4, <2>6
<1>21. \A p \in Seq(Names) : Pending(x, p) => Pending(v, p) \/ (Under(s, p) /\ p # s)
    BY <1>19, <1>20
<1>22. \A p \in From(L, src) : Under(s, p) /\ p # s => Pending(x, p)
    <2>1. \A p \in From(M, src) : Under(s, p) /\ p # s =>
                \E m \in list_dir(M, s) : Under(Append(s, m), p)
        BY <1>1, <1>5, BelowIsListed
    <2> QED
        BY <1>13, <1>19, <2>1
<1>23. /\ Copied(M, x, src, dst) /\ NothingElse(M, x, src, dst)
       /\ ~Pending(x, s) /\ \A p \in Seq(Names) : Pending(x, p) => Pending(w, p)
    BY <1>10, <1>11, <1>12, <1>19, <1>21, <1>22, EntryTaken
<1>24. Walk(M, x, src, dst)
    <2>1. ASSUME NEW i \in 1..Len(w)
          PROVE  /\ v[i].src \in From(M, src) /\ is_dir(M, v[i].src)
                 /\ Len(v[i].src) = Len(src) + i - 1
                 /\ v[i].dst = Moved(v[i].src, src, dst)
                 /\ v[i].todo \subseteq list_dir(M, v[i].src)
                 /\ ~Pending(x, v[i].src)
        <3>1. NoMore(w, x)
            BY <1>23 DEF NoMore
        <3> QED
            BY <1>10, <3>1, WalkKept
    <2>2. Len(s) = Len(src) + (Len(w) + 1) - 1
        <3>1. Len(w) \in 1..Len(w) /\ w[Len(w)] \in Frame
            BY <1>5
        <3>2. w[Len(w)].src \in Seq(Names) /\ Len(w[Len(w)].src) = Len(src) + Len(w) - 1
            BY <1>5, <3>1 DEF Frame, Walk
        <3>3. Len(s) = Len(w[Len(w)].src) + 1
            BY <1>5, <3>2
        <3> QED
            BY <1>5, <1>15, <3>2, <3>3
    <2> SUFFICES ASSUME NEW i \in 1..(Len(w) + 1)
                 PROVE  /\ x[i].src \in From(M, src) /\ is_dir(M, x[i].src)
                        /\ Len(x[i].src) = Len(src) + i - 1
                        /\ x[i].dst = Moved(x[i].src, src, dst)
                        /\ x[i].todo \subseteq list_dir(M, x[i].src)
                        /\ ~Pending(x, x[i].src)
        BY <1>18 DEF Walk
    <2>4. CASE i \in 1..Len(w)
        BY <1>18, <2>1, <2>4
    <2>5. CASE i = Len(w) + 1
        <3>1. x[i].src = s /\ x[i].dst = d /\ x[i].todo = list_dir(M, s)
            BY <1>17, <1>18, <2>5
        <3>2. s \in From(M, src) /\ is_dir(M, s) /\ d = Moved(s, src, dst) /\ ~Pending(x, s)
            BY <1>1, <1>7, <1>13, <1>23
        <3>3. Len(s) = Len(src) + i - 1
            BY <2>2, <2>5
        <3> QED
            BY <3>1, <3>2, <3>3
    <2>6. i \in 1..Len(w) \/ i = Len(w) + 1
        BY <1>15
    <2> QED
        BY <2>4, <2>5, <2>6
<1> QED
    BY <1>5, <1>23, <1>24 DEF Copying

\* A call that has nothing left to copy returns.
LEMMA DirLeft ==
    ASSUME NEW L, NEW w \in Seq(Frame), NEW src, NEW dst, Copying(L, w, src, dst),
           Len(w) > 1, w[Len(w)].todo = {}, NEW x, x = SubSeq(w, 1, Len(w) - 1)
    PROVE  Copying(L, x, src, dst)
<1>1. PICK k \in Nat : k + 1 = Len(w)
    <2>1. Len(w) - 1 \in Nat /\ (Len(w) - 1) + 1 = Len(w)
        OBVIOUS
    <2> QED
        BY <2>1
<1>2. Len(x) = k /\ \A i \in 1..k : x[i] = w[i]
    <2>1. Len(w) - 1 = k /\ k <= Len(w)
        BY <1>1
    <2> QED
        BY <2>1
<1>3. \A i : i \in 1..Len(w) <=> i \in 1..k \/ i = Len(w)
    BY <1>1
<1>4. \A p : Pending(x, p) <=> Pending(w, p)
    <2> SUFFICES ASSUME NEW p PROVE Pending(x, p) <=> Pending(w, p)
        OBVIOUS
    <2> DEFINE Below(i) == \E m \in w[i].todo : Under(Append(w[i].src, m), p)
    <2>1. Pending(w, p) <=> \E i \in 1..Len(w) : Below(i)
        BY DEF Pending
    <2>2. Pending(x, p) <=> \E i \in 1..k : Below(i)
        BY <1>2 DEF Pending
    <2>3. ~Below(Len(w))
        OBVIOUS
    <2> HIDE DEF Below
    <2> QED
        BY <1>3, <2>1, <2>2, <2>3
<1>5. Walk(L, x, src, dst)
    BY <1>2, <1>3, <1>4 DEF Copying, Walk
<1>6. Copied(L, x, src, dst) /\ NothingElse(L, x, src, dst)
    BY <1>4 DEF Copying, Copied, NothingElse
<1> QED
    BY <1>5, <1>6 DEF Copying

\* Only the source is in place when a copy begins on free ground.
LEMMA CopyBegins ==
    ASSUME Sound(fs), NEW src \in Seq(Names), NEW dst \in Seq(Names), is_dir(fs, src), Fresh(src, dst),
           NEW M, Sound(M), M = EnsureDir(dst),
           NEW w, w = <<[src |-> src, dst |-> dst, todo |-> list_dir(M, src)]>>
    PROVE  Copying(M, w, src, dst)
<1>1. Away(src, dst) /\ src # Root /\ dst # Root
    BY AwayPaths DEF Fresh, Away
<1>2. Under(src, src) /\ Under(dst, dst) /\ Moved(src, src, dst) = dst
    BY UnderReflexive, MovedSource
<1>3. \A q \in Seq(Names) : Under(dst, q) => q \notin Seen(fs)
    BY DEF Fresh
<1>4. M = mkdir_p(fs, dst)
    BY <1>2, <1>3, ExistsIsSeen DEF EnsureDir
<1> DEFINE made == {r \in Steps(dst) : ~exists(fs, r) \/ is_file(fs, r)}
<1>5. \A q : /\ q \in Seen(M) <=> q \in Seen(fs) \/ q \in made
             /\ get_node(M, q) = IF q \in made THEN Dir ELSE get_node(fs, q)
    BY <1>4, MkdirChanges
<1>6. dst \in made
    BY <1>1, <1>2, <1>3, PathIsStep, ExistsIsSeen
<1>7. ASSUME NEW q \in made
      PROVE  q \in Seq(Names) /\ Under(q, dst) /\ (Under(dst, q) => q = dst)
    <2>1. q \in Seq(Names) /\ Under(q, dst)
        BY StepsArePaths, StepsAreUnder
    <2>2. ASSUME Under(dst, q)
          PROVE  q = dst
        <3>1. Len(q) <= Len(dst)
            BY <2>1 DEF Under
        <3> QED
            BY <2>1, <2>2, <3>1, UnderSameLength
    <2> QED
        BY <2>1, <2>2
<1> HIDE DEF made
<1>8. Untouched(fs, M, src)
    <2>1. ASSUME NEW q \in Seq(Names), Under(src, q), q \in made
          PROVE  FALSE
        <3>1. Under(src, dst)
            BY <1>7, <2>1, UnderTransitive
        <3> QED
            BY <1>1, <3>1 DEF Away
    <2> QED
        BY <1>4, <1>5, <2>1, MkdirTouches DEF Untouched, made
<1>9. is_dir(M, src)
    <2>1. \A q \in Seq(Names) : Under(src, q) => (is_dir(M, q) <=> is_dir(fs, q))
        BY <1>1, <1>8, SoundIsTyped, SourceKept
    <2> QED
        BY <1>2, <2>1
<1>10. src \in Seen(M) /\ get_node(M, src).type = "dir"
    BY <1>1, <1>9, DirIsSeen
<1>11. src \in From(M, src)
    BY <1>2, <1>10 DEF From
<1> DEFINE frame == [src |-> src, dst |-> dst, todo |-> list_dir(M, src)]
<1>12. frame.src = src /\ frame.dst = dst /\ frame.todo = list_dir(M, src)
    OBVIOUS
<1> HIDE DEF frame
<1>13. Len(w) = 1 /\ w[1] = frame /\ 1..Len(w) = {1}
    BY DEF frame
<1>14. \A p : Pending(w, p) <=> \E m \in list_dir(M, src) : Under(Append(src, m), p)
    BY <1>12, <1>13 DEF Pending
<1>15. list_dir(M, src) \subseteq Names
    BY DEF list_dir
<1>16. ~Pending(w, src)
    <2> SUFFICES ASSUME NEW m \in list_dir(M, src), Under(Append(src, m), src) PROVE FALSE
        BY <1>14
    <2>1. Len(Append(src, m)) = Len(src) + 1 /\ Len(src) \in Nat
        BY <1>15
    <2>2. Len(Append(src, m)) <= Len(src)
        BY DEF Under
    <2> QED
        BY <2>1, <2>2
<1>17. Walk(M, w, src, dst)
    <2>1. Len(src) = Len(src) + 1 - 1
        OBVIOUS
    <2> QED
        BY <1>2, <1>9, <1>11, <1>12, <1>13, <1>16, <2>1 DEF Walk
<1>18. Copied(M, w, src, dst)
    <2> SUFFICES ASSUME NEW p \in From(M, src), ~Pending(w, p)
                 PROVE  /\ Moved(p, src, dst) \in Seen(M)
                        /\ get_node(M, Moved(p, src, dst)) = Plain(get_node(M, p))
        BY DEF Copied
    <2>1. p = src
        <3>1. Under(src, p)
            BY DEF From
        <3> QED
            BY <1>2, <1>14, <3>1, BelowIsListed
    <2> QED
        BY <1>2, <1>5, <1>6, <1>10, <2>1 DEF Plain
<1>19. NothingElse(M, w, src, dst)
    <2> SUFFICES ASSUME NEW q \in Seen(M), Under(dst, q)
                 PROVE  \E p \in Given(M, src) : q = Moved(p, src, dst) /\ ~Pending(w, p)
        BY DEF NothingElse
    <2>1. q \in Seq(Names)
        BY SoundIsTyped, SeenArePaths
    <2>2. q = dst
        BY <1>3, <1>5, <1>7, <2>1
    <2> QED
        BY <1>2, <1>11, <1>16, <2>2 DEF Given
<1> QED
    BY <1>1, <1>17, <1>18, <1>19 DEF Copying

-----------------------------------------------------------------------------
(* A copy is complete: the invariant                                       *)

CopyInv == job.fresh /\ work # <<>> => Copying(fs, work, job.src, job.dst)

\* Nothing is left to copy.
LEMMA CopyInvFaithful ==
    ASSUME IInv, CopyInv
    PROVE  CopyIsFaithful
<1> SUFFICES ASSUME Len(work) = 1, work[1].todo = {}, job.fresh PROVE CopyIsFaithful
    BY DEF CopyIsFaithful
<1>1. work # <<>> /\ 1..Len(work) = {1}
    OBVIOUS
<1>2. \A p : ~Pending(work, p)
    BY <1>1 DEF Pending
<1>3. Copied(fs, work, job.src, job.dst) /\ NothingElse(fs, work, job.src, job.dst)
    BY <1>1 DEF CopyInv, Copying
<1>4. Sound(fs) /\ job.src \in Seq(Names) /\ job.dst \in Seq(Names)
    BY DEF IInv, FsTypeOK
<1>5. Reached(job.src) = From(fs, job.src)
    BY DEF Reached, From
<1>6. ASSUME NEW p \in Reached(job.src)
      PROVE  /\ exists(fs, Moved(p, job.src, job.dst))
             /\ get_node(fs, Moved(p, job.src, job.dst)) = Plain(get_node(fs, p))
    <2>1. /\ Moved(p, job.src, job.dst) \in Seen(fs)
          /\ get_node(fs, Moved(p, job.src, job.dst)) = Plain(get_node(fs, p))
        BY <1>2, <1>3, <1>5, <1>6 DEF Copied
    <2>2. Moved(p, job.src, job.dst) \in Seq(Names)
        BY <1>4, <2>1, SoundIsTyped, SeenArePaths
    <2> QED
        BY <2>1, <2>2, ExistsIsSeen
<1>7. ASSUME NEW q \in Seen(fs), Under(job.dst, q)
      PROVE  \E p \in Reached(job.src) \cup Implied :
                Under(job.src, p) /\ q = Moved(p, job.src, job.dst)
    <2>1. PICK p \in Given(fs, job.src) : q = Moved(p, job.src, job.dst)
        BY <1>3, <1>7 DEF NothingElse
    <2>2. p \in Reached(job.src) \cup Implied /\ Under(job.src, p)
        BY <1>5 DEF Given, From
    <2> QED
        BY <2>1, <2>2
<1> QED
    BY <1>6, <1>7 DEF CopyIsFaithful

LEMMA AdvancedTook ==
    ASSUME IInv, NEW n \in Names, First(n)
    PROVE  Took(work, n, Advanced(n))
<1>1. work \in [1..Len(work) -> Frame] /\ Len(work) \in Nat \ {0}
    BY DEF IInv, FsTypeOK, First
<1>2. Advanced(n) = [i \in 1..Len(work) |->
            IF i = Len(work) THEN [work[i] EXCEPT !.todo = @ \ {n}] ELSE work[i]]
    <2>1. Advanced(n) = [work EXCEPT ![Len(work)] = [work[Len(work)] EXCEPT !.todo = @ \ {n}]]
        BY DEF Advanced
    <2> QED
        BY <1>1, <2>1
<1>3. Len(Advanced(n)) = Len(work)
    BY AdvancedFacts
<1>4. n \in work[Len(work)].todo
    BY DEF First, Top
<1>5. ASSUME NEW i \in 1..Len(work)
      PROVE  /\ Advanced(n)[i].src = work[i].src /\ Advanced(n)[i].dst = work[i].dst
             /\ Advanced(n)[i].todo = IF i = Len(work) THEN work[i].todo \ {n} ELSE work[i].todo
    <2>1. work[i] \in Frame
        BY <1>1
    <2>2. Advanced(n)[i] = IF i = Len(work) THEN [work[i] EXCEPT !.todo = @ \ {n}] ELSE work[i]
        BY <1>2
    <2> QED
        BY <2>1, <2>2 DEF Frame
<1> QED
    BY <1>3, <1>4, <1>5 DEF Took

LEMMA CopyInvStep ==
    ASSUME IInv, IInv', ListingMatchesLookup, CopyInv, [Next]_fsVars
    PROVE  CopyInv'
<1>1. Sound(fs) /\ Sound(fs') /\ Listed(fs)
    <2>1. \A d \in Seen(fs) : list_dir(fs, d) \subseteq Names
        BY DEF list_dir
    <2> QED
        BY <2>1 DEF IInv, ListingMatchesLookup, Listed
<1>2. job.src \in Seq(Names) /\ job.dst \in Seq(Names) /\ work \in Seq(Frame)
    BY DEF IInv, FsTypeOK
<1>3. ASSUME NEW L, Becomes(L)
      PROVE  CopyInv'
    BY <1>3 DEF Becomes, Ready, CopyInv
<1>4. ASSUME NEW op, NEW p \in Paths, NEW dst \in Paths, CopyDir(op, p, dst)
      PROVE  CopyInv'
    <2> DEFINE t == Target(p, dst)
    <2>1. /\ is_dir(fs, p) /\ fs' = EnsureDir(t)
          /\ work' = <<[src |-> p, dst |-> t, todo |-> list_dir(fs', p)]>>
          /\ job'.src = p /\ job'.dst = t /\ job'.fresh = Fresh(p, t)
        BY <1>4 DEF CopyDir
    <2>2. p \in Seq(Names) /\ t \in Seq(Names)
        BY NamesAssumption, TargetIsPath
    <2> HIDE DEF t
    <2>3. Fresh(p, t) => Copying(fs', work', p, t)
        BY <1>1, <2>1, <2>2, CopyBegins
    <2> QED
        BY <2>1, <2>3 DEF CopyInv
<1>5. ASSUME NEW n \in Names, First(n), job.fresh
      PROVE  /\ Entry(fs, work, job.src, job.dst, n, Append(Top.src, n), Append(Top.dst, n))
             /\ Took(work, n, Advanced(n)) /\ Advanced(n) \in Seq(Frame)
             /\ work # <<>>
    <2>1. work # <<>> /\ n \in work[Len(work)].todo /\ Copying(fs, work, job.src, job.dst)
        BY <1>5 DEF First, CopyInv, Top
    <2>2. Took(work, n, Advanced(n)) /\ Advanced(n) \in Seq(Frame)
        BY <1>5, AdvancedTook, AdvancedFacts
    <2> QED
        BY <1>1, <1>2, <2>1, <2>2 DEF Entry, Top
<1>6. ASSUME NEW n \in Names, CopyEntry(n)
      PROVE  CopyInv'
    <2> DEFINE s == Append(Top.src, n)
               d == Append(Top.dst, n)
    <2>1. First(n) /\ ~is_dir(fs, s) /\ fs' = mkfile(fs, d, get_content(fs, s))
            /\ work' = Advanced(n) /\ job' = job
        BY <1>6 DEF CopyEntry
    <2> HIDE DEF s, d
    <2>2. ASSUME job.fresh
          PROVE  Copying(fs', work', job.src, job.dst)
        <3>1. Entry(fs, work, job.src, job.dst, n, s, d) /\ Took(work, n, work')
            BY <1>5, <2>1, <2>2 DEF s, d
        <3> QED
            BY <1>1, <2>1, <3>1, EntryCopied
    <2> QED
        BY <2>1, <2>2 DEF CopyInv
<1>7. ASSUME NEW n \in Names, EnterDir(n)
      PROVE  CopyInv'
    <2> DEFINE s == Append(Top.src, n)
               d == Append(Top.dst, n)
    <2>1. /\ First(n) /\ is_dir(fs, s) /\ fs' = EnsureDir(d)
          /\ work' = Append(Advanced(n), [src |-> s, dst |-> d, todo |-> list_dir(fs', s)])
          /\ job' = job
        BY <1>7 DEF EnterDir
    <2> HIDE DEF s, d
    <2>2. ASSUME job.fresh
          PROVE  Copying(fs', work', job.src, job.dst)
        <3>1. /\ Entry(fs, work, job.src, job.dst, n, s, d)
              /\ Took(work, n, Advanced(n)) /\ Advanced(n) \in Seq(Frame)
            BY <1>5, <2>1, <2>2 DEF s, d
        <3>2. fs' = mkdir_p(fs, d)
            BY <2>1, <3>1, EntryIsNew DEF EnsureDir
        <3> QED
            BY <1>1, <2>1, <3>1, <3>2, DirEntered
    <2> QED
        BY <2>1, <2>2 DEF CopyInv
<1>8. CASE LeaveDir
    <2>1. /\ Len(work) > 1 /\ work[Len(work)].todo = {} /\ work' = SubSeq(work, 1, Len(work) - 1)
          /\ fs' = fs /\ job' = job
        BY <1>8 DEF LeaveDir, Top
    <2>2. work # <<>>
        BY <2>1
    <2>3. job.fresh => Copying(fs, work', job.src, job.dst)
        BY <1>2, <2>1, <2>2, DirLeft DEF CopyInv
    <2> QED
        BY <2>1, <2>3 DEF CopyInv
<1>9. CASE work' = <<>>
    BY <1>9 DEF CopyInv
<1>10. CASE UNCHANGED fsVars
    BY <1>10 DEF CopyInv, fsVars
<1>11. CASE Command
    BY <1>3, <1>4, <1>11 DEF Command, Touch, EditorSave, Mkdir, UploadMkdir, Rm, Rmdir, Chmod, CopyFile
<1>12. CASE CopyStep
    BY <1>6, <1>7, <1>8, <1>9, <1>12 DEF CopyStep, TooDeep, CopyDone
<1> QED
    BY <1>10, <1>11, <1>12 DEF Next

\* A recursive copy onto free ground that reaches its end has all that listings reach
\* from its source and nothing else, for every profile, those that leave directories
\* without rows among them, and whatever was done to the tree before.
THEOREM CopiesAreComplete == Spec => []CopyIsFaithful
<1>1. Init => CopyInv
    BY DEF Init, NoJob, CopyInv
<1>2. IInv /\ IInv' /\ ListingMatchesLookup /\ CopyInv /\ [Next]_fsVars => CopyInv'
    BY CopyInvStep
<1>3. IInv /\ CopyInv => CopyIsFaithful
    BY CopyInvFaithful
<1> QED
    BY Invariance, ListingAgrees, <1>1, <1>2, <1>3, PTL DEF Spec

-----------------------------------------------------------------------------
(* The layers implement one table                                          *)

LEMMA ViewIsDir ==
    ASSUME NEW L, Sound(L), NEW p \in Seq(Names)
    PROVE  is_dir(L, p) <=> Map!IsDir(View(L), p)
<1>1. exists(L, p) <=> p \in Seen(L)
    BY ExistsIsSeen
<1>2. CASE p = Root
    BY <1>2 DEF is_dir, Map!IsDir, Sound, Disjoint, Root, Map!Root
<1>3. CASE p # Root
    <2>1. p \in Seen(L) => p \notin L.deleted_paths
        BY DEF Seen
    <2> QED
        BY <1>1, <1>3, <2>1 DEF is_dir, Map!IsDir, View, Root, Map!Root
<1> QED
    BY <1>2, <1>3

LEMMA ViewMkfile ==
    ASSUME NEW L, Sound(L), NEW p \in Seq(Names), NEW c
    PROVE  View(mkfile(L, p, c)) = Map!WithFile(View(L), p, c)
<1> DEFINE M == mkfile(L, p, c)
<1>1. is_dir(L, Parent(p)) <=> Map!IsDir(View(L), Map!Parent(p))
    BY ViewIsDir, ParentIsPath DEF Parent, Map!Parent
<1>2. CASE ~is_dir(L, Parent(p))
    BY <1>1, <1>2 DEF mkfile, Map!WithFile
<1>3. CASE is_dir(L, Parent(p))
    <2>1. /\ DOMAIN M.memory_overlay = DOMAIN L.memory_overlay \cup {p}
          /\ M.deleted_paths = L.deleted_paths \ {p}
          /\ \A q \in DOMAIN M.memory_overlay : M.memory_overlay[q] =
                IF q = p THEN [type |-> "file", content |-> c] ELSE L.memory_overlay[q]
        BY <1>3 DEF mkfile
    <2> HIDE DEF M
    <2>2. Seen(M) = Seen(L) \cup {p}
        BY <2>1 DEF Seen
    <2>3. \A q \in Seen(M) : get_node(M, q) =
                IF q = p THEN [type |-> "file", content |-> c] ELSE get_node(L, q)
        BY <2>1 DEF get_node
    <2>4. View(M) = [q \in Seen(L) \cup {p} |->
                IF q = p THEN [type |-> "file", content |-> c] ELSE View(L)[q]]
        BY <2>2, <2>3 DEF View
    <2>5. DOMAIN View(L) = Seen(L)
        BY DEF View
    <2> QED
        BY <1>1, <1>3, <2>4, <2>5 DEF Map!WithFile, M
<1> QED
    BY <1>2, <1>3

LEMMA ViewMkdir ==
    ASSUME NEW L, Sound(L), NEW p \in Seq(Names)
    PROVE  View(mkdir_p(L, p)) = Map!WithDirs(View(L), p)
<1> DEFINE made == {r \in Steps(p) : ~exists(L, r) \/ is_file(L, r)}
           M == mkdir_p(L, p)
<1>1. DOMAIN View(L) = Seen(L) /\ \A q \in Seen(L) : View(L)[q] = get_node(L, q)
    BY DEF View
<1>2. \A q : /\ q \in Seen(M) <=> q \in Seen(L) \/ q \in made
             /\ get_node(M, q) = IF q \in made THEN Dir ELSE get_node(L, q)
    BY MkdirChanges
<1>3. Map!Steps(p) = Steps(p) /\ Map!Dir = Dir
    BY DEF Map!Steps, Steps, Map!Dir, Dir
<1>4. made = {q \in Map!Steps(p) : q \notin DOMAIN View(L) \/ View(L)[q].type = "file"}
    <2>1. \A q \in Steps(p) : exists(L, q) <=> q \in Seen(L)
        BY StepsArePaths, ExistsIsSeen
    <2> QED
        BY <1>1, <1>3, <2>1 DEF is_file
<1> HIDE DEF made, M
<1>5. View(M) = [q \in Seen(L) \cup made |-> IF q \in made THEN Dir ELSE View(L)[q]]
    <2>1. Seen(M) = Seen(L) \cup made
        BY <1>2
    <2> QED
        BY <1>1, <1>2, <2>1 DEF View
<1> QED
    BY <1>1, <1>3, <1>4, <1>5 DEF Map!WithDirs, M

LEMMA ViewRemove ==
    ASSUME NEW L, Sound(L), NEW p \in Seq(Names)
    PROVE  View(remove(L, p)) = Map!Without(View(L), p)
<1> DEFINE M == remove(L, p)
<1>1. DOMAIN View(L) = Seen(L) /\ \A q \in Seen(L) : View(L)[q] = get_node(L, q)
    BY DEF View
<1>2. CASE p = Root \/ ~exists(L, p)
    <2>1. DOMAIN View(L) \ ({p} \ {Root}) = Seen(L)
        BY <1>1, <1>2, ExistsIsSeen
    <2>2. View(L) = [q \in Seen(L) |-> View(L)[q]]
        BY DEF View
    <2> QED
        BY <1>2, <2>1, <2>2 DEF remove, Map!Without, Map!Root, Root
<1>3. CASE p # Root /\ exists(L, p)
    <2>1. /\ DOMAIN M.memory_overlay = DOMAIN L.memory_overlay \ {p}
          /\ M.deleted_paths = L.deleted_paths \cup {p}
          /\ \A q \in DOMAIN M.memory_overlay : M.memory_overlay[q] = L.memory_overlay[q]
        BY <1>3 DEF remove
    <2> HIDE DEF M
    <2>2. Seen(M) = Seen(L) \ {p}
        BY <1>3, <2>1 DEF Seen
    <2>3. \A q \in Seen(M) : get_node(M, q) = get_node(L, q)
        BY <2>1, <2>2 DEF get_node
    <2>4. View(M) = [q \in Seen(L) \ {p} |-> View(L)[q]]
        BY <1>1, <2>2, <2>3 DEF View
    <2>5. DOMAIN View(L) \ ({p} \ {Root}) = Seen(L) \ {p}
        BY <1>1, <1>3
    <2> QED
        BY <2>4, <2>5 DEF Map!Without, M, Map!Root, Root
<1> QED
    BY <1>2, <1>3

LEMMA ViewChmod ==
    ASSUME NEW L, Sound(L), NEW p \in Seq(Names), exists(L, p)
    PROVE  \/ View(chmod(L, p)) = View(L)
           \/ /\ p \in DOMAIN View(L)
              /\ View(L)[p].type = "generated"
              /\ View(chmod(L, p)) = [View(L) EXCEPT ![p].type = "file"]
<1> DEFINE M == chmod(L, p)
           node == get_node(L, p)
           new == IF node.type = "dir" THEN Dir ELSE [type |-> "file", content |-> node.content]
<1>1. p \in Seen(L) /\ DOMAIN View(L) = Seen(L) /\ \A q \in Seen(L) : View(L)[q] = get_node(L, q)
    BY ExistsIsSeen DEF View
<1>2. CASE p \in DOMAIN L.memory_overlay
    BY <1>2 DEF chmod
<1>3. CASE p \notin DOMAIN L.memory_overlay
    <2>1. /\ DOMAIN M.memory_overlay = DOMAIN L.memory_overlay \cup {p}
          /\ M.deleted_paths = L.deleted_paths
          /\ \A q \in DOMAIN M.memory_overlay : M.memory_overlay[q] =
                IF q # p THEN L.memory_overlay[q] ELSE new
        BY <1>3 DEF chmod, get_content
    <2>2. node \in [type : {"dir", "file", "generated"}, content : Contents]
        BY NodeType, SoundIsTyped
    <2>3. node.type = "dir" => node = Dir
        BY <1>3, RowsAssumption, DynamicAssumption DEF get_node
    <2> HIDE DEF M, node, new
    <2>4. Seen(M) = Seen(L)
        BY <1>1, <2>1 DEF Seen
    <2>5. \A q \in Seen(L) : get_node(M, q) = IF q = p THEN new ELSE get_node(L, q)
        BY <2>1 DEF get_node
    <2>6. View(M) = [q \in Seen(L) |-> IF q = p THEN new ELSE View(L)[q]]
        BY <1>1, <2>4, <2>5 DEF View
    <2>7. CASE node.type # "generated"
        <3>1. new = node
            BY <2>2, <2>3, <2>7 DEF new
        <3>2. View(L) = [q \in Seen(L) |-> View(L)[q]]
            BY DEF View
        <3> QED
            BY <1>1, <2>6, <3>1, <3>2 DEF M, node
    <2>8. CASE node.type = "generated"
        <3>1. new = [node EXCEPT !.type = "file"]
            BY <2>2, <2>8 DEF new
        <3>2. View(L)[p] = node
            BY <1>1 DEF node
        <3>3. View(M) = [View(L) EXCEPT ![p].type = "file"]
            BY <1>1, <2>6, <3>1, <3>2 DEF View
        <3> QED
            BY <1>1, <2>8, <3>2, <3>3 DEF M
    <2> QED
        BY <2>7, <2>8
<1> QED
    BY <1>2, <1>3

\* The steps of PathMap that the operations are.  The view of the next state
\* is written View(fs'), what View(fs)' is.
LEMMA MapWrite ==
    ASSUME IInv, NEW p \in Seq(Names), NEW c \in Contents, fs' = mkfile(fs, p, c)
    PROVE  [Map!Next]_(View(fs))
<1>1. View(fs)' = Map!WithFile(View(fs), p, c)
    BY ViewMkfile DEF IInv
<1>2. CASE Map!IsDir(View(fs), Map!Parent(p))
    <2>1. p \in DOMAIN View(fs)'
        BY <1>1, <1>2 DEF Map!WithFile
    <2> QED
        BY <1>1, <2>1 DEF Map!Next, Map!Write
<1>3. CASE ~Map!IsDir(View(fs), Map!Parent(p))
    BY <1>1, <1>3 DEF Map!WithFile
<1> QED
    BY <1>2, <1>3

LEMMA MadeDirsAreSeen ==
    ASSUME NEW L, Sound(L), NEW p \in Seq(Names)
    PROVE  p \in DOMAIN Map!WithDirs(View(L), p)
<1> DEFINE made == {q \in Map!Steps(p) : q \notin DOMAIN View(L) \/ View(L)[q].type = "file"}
<1>1. DOMAIN Map!WithDirs(View(L), p) = DOMAIN View(L) \cup made
    BY DEF Map!WithDirs
<1>2. CASE p = Root
    <2>1. Root \in Seen(L)
        BY DEF Seen, Sound, Disjoint
    <2> QED
        BY <1>1, <1>2, <2>1 DEF View
<1>3. CASE p # Root
    <2>1. p \in Map!Steps(p)
        BY <1>3, PathIsStep DEF Steps, Map!Steps
    <2> QED
        BY <1>1, <2>1
<1> QED
    BY <1>2, <1>3

LEMMA MapMkdir ==
    ASSUME IInv, NEW p \in Seq(Names), fs' = mkdir_p(fs, p)
    PROVE  [Map!Next]_(View(fs))
<1>1. View(fs)' = Map!WithDirs(View(fs), p)
    BY ViewMkdir DEF IInv
<1>2. p \in DOMAIN View(fs)'
    BY <1>1, MadeDirsAreSeen DEF IInv
<1> QED
    BY <1>1, <1>2 DEF Map!Next, Map!MakeDirs

LEMMA MapEnsureDir ==
    ASSUME IInv, NEW p \in Seq(Names), fs' = EnsureDir(p)
    PROVE  [Map!Next]_(View(fs))
<1>1. CASE fs' = fs
    BY <1>1
<1>2. CASE fs' = mkdir_p(fs, p)
    BY <1>2, MapMkdir
<1> QED
    BY <1>1, <1>2 DEF EnsureDir

LEMMA MapRemove ==
    ASSUME IInv, NEW p \in Seq(Names), fs' = remove(fs, p)
    PROVE  [Map!Next]_(View(fs))
<1>1. CASE fs' = fs
    BY <1>1
<1>2. CASE exists(fs, p)
    <2>1. View(fs)' = Map!Without(View(fs), p)
        BY ViewRemove DEF IInv
    <2>2. p \in DOMAIN View(fs)
        BY <1>2, ExistsIsSeen DEF View
    <2> QED
        BY <2>1, <2>2 DEF Map!Next, Map!Drop
<1> QED
    BY <1>1, <1>2 DEF remove

LEMMA MapSave ==
    ASSUME IInv, NEW p \in Seq(Names), NEW c \in Contents,
           fs' = mkfile(mkdir_p(fs, Parent(p)), p, c)
    PROVE  [Map!Next]_(View(fs))
<1> DEFINE d == Parent(p)
           v == Map!WithDirs(View(fs), d)
<1>1. d \in Seq(Names) /\ d = Map!Parent(p)
    BY ParentIsPath DEF Parent, Map!Parent
<1>2. View(mkdir_p(fs, d)) = v
    BY <1>1, ViewMkdir DEF IInv
<1>3. Sound(mkdir_p(fs, d))
    BY <1>1, MkdirSound DEF IInv
<1>4. View(fs)' = Map!WithFile(v, p, c)
    BY <1>2, <1>3, ViewMkfile
<1>5. d \in DOMAIN v
    BY <1>1, MadeDirsAreSeen DEF IInv
<1> HIDE DEF d
<1>6. CASE Map!IsDir(v, d)
    <2> HIDE DEF v
    <2>1. p \in DOMAIN View(fs)'
        BY <1>1, <1>4, <1>6 DEF Map!WithFile
    <2> QED
        BY <1>1, <1>4, <2>1 DEF Map!Next, Map!Save, v
<1>7. CASE ~Map!IsDir(v, d)
    <2>1. View(fs)' = v
        BY <1>1, <1>4, <1>7 DEF Map!WithFile
    <2> QED
        BY <1>5, <2>1 DEF Map!Next, Map!MakeDirs
<1> QED
    BY <1>6, <1>7

LEMMA MapMove ==
    ASSUME IInv, NEW s \in Seq(Names), NEW t \in Seq(Names),
           exists(fs, s), ~is_dir(fs, s),
           fs' = remove(mkfile(fs, t, get_content(fs, s)), s)
    PROVE  [Map!Next]_(View(fs))
<1> DEFINE c == get_content(fs, s)
           v == Map!WithFile(View(fs), t, c)
<1>1. Sound(fs) /\ s # Root
    BY DEF IInv, is_dir, Sound, Disjoint
<1>2. s \in DOMAIN View(fs) /\ View(fs)[s].content = c
    <2>1. s \in Seen(fs) /\ s \notin fs.deleted_paths
        BY ExistsIsSeen DEF Seen
    <2>2. get_node(fs, s).type # "dir"
        BY <2>1 DEF is_dir
    <2>3. c = get_node(fs, s).content
        BY <2>2 DEF get_content
    <2> QED
        BY <2>1, <2>3 DEF View
<1>3. c \in Contents
    BY <1>1, NodeType, SoundIsTyped
<1> HIDE DEF c
<1>4. View(mkfile(fs, t, c)) = v /\ Sound(mkfile(fs, t, c))
    BY <1>1, <1>3, ViewMkfile, MkfileSound
<1>5. View(fs)' = Map!Without(v, s)
    BY <1>4, ViewRemove DEF c
<1>6. CASE t \in DOMAIN View(fs)'
    BY <1>2, <1>5, <1>6 DEF Map!Next, Map!Rename
<1>7. CASE t \notin DOMAIN View(fs)'
    <2>1. View(fs)' = Map!Without(View(fs), s)
        <3>1. CASE ~Map!IsDir(View(fs), Map!Parent(t))
            BY <1>5, <3>1 DEF Map!WithFile
        <3>2. CASE Map!IsDir(View(fs), Map!Parent(t))
            <4>1. /\ DOMAIN v = DOMAIN View(fs) \cup {t}
                  /\ \A q \in DOMAIN v : q # t => v[q] = View(fs)[q]
                BY <3>2 DEF Map!WithFile
            <4>2. DOMAIN View(fs)' = DOMAIN v \ ({s} \ {Map!Root})
                BY <1>5 DEF Map!Without
            <4>3. t = s
                BY <1>7, <4>1, <4>2
            <4> HIDE DEF v
            <4> QED
                BY <1>1, <1>2, <1>5, <4>1, <4>3 DEF Map!Without, Root, Map!Root
        <3> QED
            BY <3>1, <3>2
    <2> QED
        BY <1>2, <2>1 DEF Map!Next, Map!Drop
<1> QED
    BY <1>6, <1>7

LEMMA MapChmod ==
    ASSUME IInv, NEW p \in Seq(Names), exists(fs, p), fs' = chmod(fs, p)
    PROVE  [Map!Next]_(View(fs))
<1>1. CASE View(fs)' = View(fs)
    BY <1>1
<1>2. CASE /\ p \in DOMAIN View(fs)
           /\ View(fs)[p].type = "generated"
           /\ View(fs)' = [View(fs) EXCEPT ![p].type = "file"]
    BY <1>2 DEF Map!Next, Map!Freeze
<1> QED
    BY <1>1, <1>2, ViewChmod DEF IInv

LEMMA MapCommand ==
    ASSUME IInv, Command
    PROVE  [Map!Next]_(View(fs))
<1>1. PICK p \in Paths :
        \/ \E c \in Contents : Touch(p, c) \/ EditorSave(p, c)
        \/ \E parents \in BOOLEAN : Mkdir(p, parents)
        \/ UploadMkdir(p)
        \/ \E recursive \in BOOLEAN : Rm(p, recursive)
        \/ Rmdir(p)
        \/ Chmod(p)
        \/ \E op \in {"cp", "mv"}, dst \in Paths : CopyFile(op, p, dst) \/ CopyDir(op, p, dst)
    BY DEF Command
<1>2. p \in Seq(Names)
    BY NamesAssumption
<1>3. ASSUME NEW c \in Contents, Touch(p, c)
      PROVE  [Map!Next]_(View(fs))
    BY <1>2, <1>3, MapWrite DEF Touch, Becomes
<1>4. ASSUME NEW c \in Contents, EditorSave(p, c)
      PROVE  [Map!Next]_(View(fs))
    BY <1>2, <1>4, MapSave DEF EditorSave, Becomes
<1>5. CASE (\E parents \in BOOLEAN : Mkdir(p, parents)) \/ UploadMkdir(p)
    BY <1>2, <1>5, MapMkdir DEF Mkdir, UploadMkdir, Becomes
<1>6. CASE (\E recursive \in BOOLEAN : Rm(p, recursive)) \/ Rmdir(p)
    BY <1>2, <1>6, MapRemove DEF Rm, Rmdir, Becomes
<1>7. CASE Chmod(p)
    BY <1>2, <1>7, MapChmod DEF Chmod, Becomes
<1>8. ASSUME NEW op \in {"cp", "mv"}, NEW dst \in Paths, CopyFile(op, p, dst)
      PROVE  [Map!Next]_(View(fs))
    <2>1. Target(p, dst) \in Seq(Names) /\ get_content(fs, p) \in Contents
        BY <1>2, TargetIsPath, NodeType, SoundIsTyped, NamesAssumption DEF IInv
    <2>2. CASE op = "mv"
        BY <1>2, <1>8, <2>1, <2>2, MapMove DEF CopyFile, Becomes
    <2>3. CASE op # "mv"
        BY <1>8, <2>1, <2>3, MapWrite DEF CopyFile, Becomes
    <2> QED
        BY <2>2, <2>3
<1>9. ASSUME NEW op \in {"cp", "mv"}, NEW dst \in Paths, CopyDir(op, p, dst)
      PROVE  [Map!Next]_(View(fs))
    <2>1. Target(p, dst) \in Seq(Names)
        BY <1>2, TargetIsPath, NamesAssumption
    <2> QED
        BY <1>9, <2>1, MapEnsureDir DEF CopyDir
<1> QED
    BY <1>1, <1>3, <1>4, <1>5, <1>6, <1>7, <1>8, <1>9

LEMMA MapCopyStep ==
    ASSUME IInv, CopyStep
    PROVE  [Map!Next]_(View(fs))
<1>1. ASSUME NEW n \in Names, CopyEntry(n)
      PROVE  [Map!Next]_(View(fs))
    <2>1. get_content(fs, Append(Top.src, n)) \in Contents
        BY NodeType, SoundIsTyped DEF IInv
    <2> QED
        BY <1>1, <2>1, AdvancedFacts, MapWrite DEF CopyEntry
<1>2. ASSUME NEW n \in Names, EnterDir(n)
      PROVE  [Map!Next]_(View(fs))
    BY <1>2, AdvancedFacts, MapEnsureDir DEF EnterDir
<1>3. CASE fs' = fs
    BY <1>3
<1>4. CASE CopyDone
    <2>1. job.src \in Seq(Names)
        BY DEF IInv, FsTypeOK
    <2> QED
        BY <1>3, <1>4, <2>1, MapRemove DEF CopyDone
<1> QED
    BY <1>1, <1>2, <1>3, <1>4 DEF CopyStep, TooDeep, LeaveDir

\* Whatever the profile and whatever the commands, the overlay and the
\* deleted paths together behave as one table that is changed in place.
THEOREM LayersImplementMap == Spec => ImplementsPathMap
<1>1. Init => Map!Init
    BY DEF Init, Map!Init
<1>2. IInv /\ [Next]_fsVars => [Map!Next]_(View(fs))
    <2> SUFFICES ASSUME IInv, [Next]_fsVars PROVE [Map!Next]_(View(fs))
        OBVIOUS
    <2>1. CASE UNCHANGED fsVars
        BY <2>1 DEF fsVars
    <2> QED
        BY <2>1, MapCommand, MapCopyStep DEF Next
<1> QED
    BY Invariance, <1>1, <1>2, PTL DEF Spec, ImplementsPathMap, Map!Spec
=============================================================================
