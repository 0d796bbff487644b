---------------------------- MODULE MCWeakChain ----------------------------
(* WeakChain for TLC.                                                      *)
EXTENDS WeakChain, TLC

(* Any two threads and any two pools are alike.                            *)
Symmetry == Permutations(Threads) \cup Permutations(Pools)
=============================================================================
