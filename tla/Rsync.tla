-------------------------------- MODULE Rsync --------------------------------
(***************************************************************************)
(* RsyncHandler of vfs/rsync.py: a handshake, for a push the list of files *)
(* that the client means to send, and a denial in any case.  A read gives  *)
(* what the client sent, or nothing once ten seconds are over or the       *)
(* client has closed; nothing is assumed of the client.                    *)
(***************************************************************************)
EXTENDS Naturals

CONSTANT MaxListed      \* the length of a list that is still read on; 1000 in the code

ASSUME RsyncAssumption == MaxListed \in Nat

VARIABLES
    rsync,      \* where handle() is; rc1 and rc13: it has returned
    listed      \* files read from the list

rsyncVars == <<rsync, listed>>

RsyncInit ==
    /\ rsync = "start"
    /\ listed = 0

\* What the client sent, or nothing when the ten seconds of a read are over.
Read(received, missing) == rsync' \in {received, missing}

\* The version is written unless ssh.rsync.enabled is off.
RsyncStart ==
    /\ rsync = "start"
    /\ rsync' \in {"version", "rc1"}
    /\ UNCHANGED listed

\* A short version ends it, and an exception, which is logged.
RsyncVersion ==
    /\ rsync = "version"
    /\ Read("flags", "rc1")
    /\ UNCHANGED listed

\* A pull is denied at once, a push after its list.
RsyncPull ==
    /\ rsync = "version"
    /\ rsync' \in {"rc13", "rc1"}
    /\ UNCHANGED listed

\* The flags of an entry, or the end of the list.
RsyncFlags ==
    /\ rsync = "flags"
    /\ Read("name", "deny")
    /\ UNCHANGED listed

\* Without the length of its name an entry is dropped and the list with it.
RsyncName ==
    /\ rsync = "name"
    /\ Read("fields", "deny")
    /\ UNCHANGED listed

\* Size, time and mode, whichever arrive: the entry is listed without the others.
RsyncFields ==
    /\ rsync = "fields"
    /\ listed' = listed + 1
    /\ rsync' = IF listed' > MaxListed THEN "deny" ELSE "flags"

\* The denial; writing it may fail.
RsyncDeny ==
    /\ rsync = "deny"
    /\ rsync' \in {"rc13", "rc1"}
    /\ UNCHANGED listed

RsyncNext ==
    RsyncStart \/ RsyncVersion \/ RsyncPull \/ RsyncFlags \/ RsyncName \/ RsyncFields \/ RsyncDeny

-----------------------------------------------------------------------------
\* handle() returns whatever the client does: silent, gone, or with a list that
\* has no end.  Every read has its ten seconds, and the list its limit.
RsyncEnds == (rsync # "start") ~> (rsync \in {"rc1", "rc13"})
=============================================================================
