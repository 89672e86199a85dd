---------------------------- MODULE MCPoolProxy ----------------------------
(***************************************************************************)
(* Small instances of PoolProxy.  Domains mixes numbers, which stand for   *)
(* names of the pool's own scheme, with a model value for another name.    *)
(***************************************************************************)
EXTENDS PoolProxy, TLC

Symmetry == Permutations(Sessions)
=============================================================================
