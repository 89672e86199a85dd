------------------------------ MODULE PathMap ------------------------------
(***************************************************************************)
(* What the virtual file system promises its users, and nothing of its     *)
(* layers: one table from paths to nodes that starts as the profile's and  *)
(* that every operation changes in place.  Removing a directory removes    *)
(* the directory and not what is in it: the code's table is flat.          *)
(***************************************************************************)
EXTENDS Naturals, Sequences

CONSTANTS Contents, Start

VARIABLE view    \* path -> [type, content], for the paths that exist

Root == <<>>

Parent(p) == SubSeq(p, 1, Len(p) - 1)

\* Every path on the way to p, p included and the root left out.
Steps(p) == {SubSeq(p, 1, i) : i \in 1..Len(p)}

Dir == [type |-> "dir", content |-> ""]

IsDir(v, p) == p = Root \/ (p \in DOMAIN v /\ v[p].type = "dir")

WithFile(v, p, c) ==
    IF IsDir(v, Parent(p))
    THEN [q \in DOMAIN v \cup {p} |-> IF q = p THEN [type |-> "file", content |-> c] ELSE v[q]]
    ELSE v

\* A missing step becomes a directory, and so does a plain file in the way.
WithDirs(v, p) ==
    LET made == {q \in Steps(p) : q \notin DOMAIN v \/ v[q].type = "file"}
    IN  [q \in DOMAIN v \cup made |-> IF q \in made THEN Dir ELSE v[q]]

Without(v, p) == [q \in DOMAIN v \ ({p} \ {Root}) |-> v[q]]

\* A path that an operation makes is one that exists after it.
Write == \E p \in DOMAIN view', c \in Contents : view' = WithFile(view, p, c)

MakeDirs == \E p \in DOMAIN view' : view' = WithDirs(view, p)

Save == \E p \in DOMAIN view', c \in Contents : view' = WithFile(WithDirs(view, Parent(p)), p, c)

Drop == \E p \in DOMAIN view : view' = Without(view, p)

Rename ==
    \E s \in DOMAIN view, t \in DOMAIN view' :
        view' = Without(WithFile(view, t, view[s].content), s)

\* A generated file becomes a plain one, with what was generated then.
Freeze ==
    \E p \in DOMAIN view :
        /\ view[p].type = "generated"
        /\ view' = [view EXCEPT ![p].type = "file"]

Init == view = Start

Next == Write \/ MakeDirs \/ Save \/ Drop \/ Rename \/ Freeze

Spec == Init /\ [][Next]_view
=============================================================================
