---------------------------- MODULE MCFilesystem ----------------------------
(***************************************************************************)
(* A profile of five files and directories over two names.  /1 is a        *)
(* directory of the database (as /etc) with a file the overlay replaces    *)
(* from the start (passwd).  /1/2 and /2 have dynamic files, one of them   *)
(* generated, and no rows, as /proc in the rhel profile.  /2/2 has no row  *)
(* either and a row below it, as a directory of a "static" path may.       *)
(***************************************************************************)
EXTENDS Filesystem

MCPaths == UNION {[1..n -> Names] : n \in 0..2}

MCRows == [p \in {<<1>>, <<1, 1>>, <<2, 2, 2>>} |->
            IF p = <<1>> THEN Dir ELSE [type |-> "file", content |-> ""]]

MCDynamic == [p \in {<<1, 2, 1>>, <<2, 1>>} |->
            [type |-> IF p = <<2, 1>> THEN "generated" ELSE "file", content |-> "x"]]

MCSystemFiles == [p \in {<<1, 1>>} |-> [type |-> "file", content |-> "x"]]
=============================================================================
