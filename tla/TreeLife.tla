------------------------------ MODULE TreeLife ------------------------------
(***************************************************************************)
(* What root_.rs promises of a tree of scopes, seen from outside: scopes   *)
(* are created while the root is open and retire one by one; closing the   *)
(* root is a signal that frees nothing by itself; the root is gone, for    *)
(* good, only after it was closed and every scope of it has retired.       *)
(***************************************************************************)
CONSTANT Scopes

VARIABLES
    tree,   \* "open", "closing" or "gone"
    live,   \* the scopes that have not retired
    ended   \* the scopes that have

vars == <<tree, live, ended>>

Init == tree = "open" /\ live = {} /\ ended = {}

Create(s) ==
    /\ tree = "open" /\ s \notin live \cup ended
    /\ live' = live \cup {s}
    /\ UNCHANGED <<tree, ended>>

Retire(s) ==
    /\ tree # "gone" /\ s \in live
    /\ live' = live \ {s} /\ ended' = ended \cup {s}
    /\ UNCHANGED tree

Close == tree = "open" /\ tree' = "closing" /\ UNCHANGED <<live, ended>>

Free == tree = "closing" /\ live = {} /\ tree' = "gone" /\ UNCHANGED <<live, ended>>

Next == (\E s \in Scopes : Create(s) \/ Retire(s)) \/ Close \/ Free

(* A closed tree without scopes is freed.                                  *)
Fairness == WF_vars(Free)

Spec == Init /\ [][Next]_vars /\ Fairness
=============================================================================
