------------------------------ MODULE MCRanker ------------------------------
(***************************************************************************)
(* Instances of Ranker for TLC.  Capacity runs per runner are as many as   *)
(* the bound says are ever in flight; the pool is large enough for all     *)
(* runners at once, and for one of them to exceed the bound if it could.   *)
(***************************************************************************)
EXTENDS Ranker

ASSUME PoolSuffices == Cardinality(Runs) >= MaxStarts * Capacity
=============================================================================
