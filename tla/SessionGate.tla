---------------------------- MODULE SessionGate ----------------------------
(***************************************************************************)
(* What the session manager promises, and nothing of how it counts: a      *)
(* session enters only while there is room for it, globally and for its    *)
(* address, it keeps its address for as long as it lives, and it leaves    *)
(* once.                                                                   *)
(***************************************************************************)
EXTENDS Naturals, FiniteSets

CONSTANTS IPs, SessionIds, max_sessions, max_sessions_per_ip

VARIABLE live    \* session id -> source address, for the sessions inside

LiveOf(ip) == {id \in DOMAIN live : live[id] = ip}

Enter(ip, id) ==
    /\ id \notin DOMAIN live
    /\ Cardinality(DOMAIN live) < max_sessions
    /\ Cardinality(LiveOf(ip)) < max_sessions_per_ip
    /\ live' = [i \in DOMAIN live \cup {id} |-> IF i = id THEN ip ELSE live[i]]

Leave(id) ==
    /\ id \in DOMAIN live
    /\ live' = [i \in DOMAIN live \ {id} |-> live[i]]

Init == live = [i \in {} |-> 0]

Next ==
    \/ \E ip \in IPs, id \in SessionIds : Enter(ip, id)
    \/ \E id \in SessionIds : Leave(id)

Spec == Init /\ [][Next]_live
=============================================================================
