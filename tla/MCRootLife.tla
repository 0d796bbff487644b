----------------------------- MODULE MCRootLife -----------------------------
(* RootLife for TLC.                                                       *)
EXTENDS RootLife, TLC

(* Any two threads and any two scopes are alike.                           *)
Symmetry == Permutations(Threads) \cup Permutations(Scopes)
=============================================================================
