----------------------------- MODULE MCPoolCache -----------------------------
(* Small instances of PoolCache for TLC.                                   *)
EXTENDS PoolCache
=============================================================================
