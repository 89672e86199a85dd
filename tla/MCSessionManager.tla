-------------------------- MODULE MCSessionManager --------------------------
(***************************************************************************)
(* Small instances of SessionManager.  Addresses and ids are model values; *)
(* neither is ordered or computed with, so both sets are symmetric.        *)
(***************************************************************************)
EXTENDS SessionManager, TLC

Symmetry == Permutations(IPs) \cup Permutations(SessionIds)
=============================================================================
