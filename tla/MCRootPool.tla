----------------------------- MODULE MCRootPool -----------------------------
(* Small instances of RootPool.                                            *)
EXTENDS RootPool, TLC

PoolSymmetry == Permutations(Threads) \cup Permutations(Values)
=============================================================================
