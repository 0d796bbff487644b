----------------------------- MODULE MCSlotLife -----------------------------
(* SlotLife for TLC.                                                       *)
EXTENDS SlotLife, TLC

(* Any two threads, any two Retains and any two views are alike.           *)
Symmetry == Permutations(Threads) \cup Permutations(Retains)
                \cup Permutations(Views)
=============================================================================
