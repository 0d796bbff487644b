------------------------------ MODULE WordOps ------------------------------
(***************************************************************************)
(* The state word of a weak slot as a value: lock bit, DataState and weak  *)
(* count share one 32-bit word, and every operation on it maps the whole   *)
(* word to a whole word and leaves the parts it is not about alone.        *)
(***************************************************************************)
EXTENDS Naturals

CONSTANT CountMod  \* the weak count is kept modulo this (2^28 in the code)

ASSUME CountModAssumption == CountMod \in Nat \ {0, 1}

DataStates == {"Reclaimed", "Created", "Owning", "Sharing",
               "Destroying", "Destroyed"}

Words == [locked : BOOLEAN, state : DataStates, count : 0 .. CountMod - 1]
EmptyWord == [locked |-> FALSE, state |-> "Reclaimed", count |-> 0]

(* The conditional transitions: the state they start from and end in.      *)
Moves == {"own", "share", "endOwning", "endSharing", "claim", "mark"}
From == [own        |-> "Created", share |-> "Created",
         endOwning  |-> "Owning",  endSharing |-> "Sharing",
         claim      |-> "Created", mark |-> "Destroying"]
To   == [own        |-> "Owning",  share |-> "Sharing",
         endOwning  |-> "Created", endSharing |-> "Created",
         claim      |-> "Destroying", mark |-> "Destroyed"]

Reads == {"weakCount", "dataState"}
Ops   == Moves \cup Reads
           \cup {"acquire", "release", "incr", "decr", "create", "reset"}

(* The precondition under which an operation writes.                       *)
Applies(op, w) ==
    \/ op \in {"incr", "decr", "create", "reset"}
    \/ op = "acquire" /\ ~w.locked
    \/ op = "release" /\ w.locked
    \/ op \in Moves /\ w.state = From[op]

Plus(c)  == IF c + 1 = CountMod THEN 0 ELSE c + 1
Minus(c) == IF c = 0 THEN CountMod - 1 ELSE c - 1

Effect(op, w) ==
    CASE op = "incr"    -> [w EXCEPT !.count = Plus(@)]
      [] op = "decr"    -> [w EXCEPT !.count = Minus(@)]
      [] op = "acquire" -> [w EXCEPT !.locked = TRUE]
      [] op = "release" -> [w EXCEPT !.locked = FALSE]
      [] op = "create"  -> [w EXCEPT !.state = "Created"]
      [] op = "reset"   -> EmptyWord
      [] OTHER          -> [w EXCEPT !.state = To[op]]

(* What the caller learns: the new count, the state read, or whether it    *)
(* was this call that made the move.                                       *)
CountAnswer(c) == IF c = 0 THEN "zero" ELSE "more"

Answer(op, w) ==
    CASE op \in {"incr", "decr"} -> CountAnswer(Effect(op, w).count)
      [] op = "weakCount"        -> CountAnswer(w.count)
      [] op = "dataState"        -> w.state
      [] OTHER -> IF Applies(op, w) THEN "done" ELSE "refused"

Answers == {"none", "zero", "more", "done", "refused"} \cup DataStates
=============================================================================
