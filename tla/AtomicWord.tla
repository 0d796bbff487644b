----------------------------- MODULE AtomicWord -----------------------------
(***************************************************************************)
(* What the slot's state word promises its callers: every call takes       *)
(* effect in one step between its start and its return, on the word as it  *)
(* is at that step, and the answer is about that word. Only an attempt to  *)
(* lock may end without a look at the word, once its token is cancelled.   *)
(***************************************************************************)
EXTENDS WordOps

CONSTANTS Threads, NoCall

VARIABLES
    word,      \* the state word
    call,      \* the operation each thread has started and not finished
    answer,    \* the answer to the one it finished, until it has acted on it
    cancelled  \* the token given to its attempt to lock is cancelled

vars == <<word, call, answer, cancelled>>

Init ==
    /\ word = EmptyWord
    /\ call = [t \in Threads |-> NoCall]
    /\ answer = [t \in Threads |-> "none"]
    /\ cancelled = [t \in Threads |-> FALSE]

Call(t, op) ==
    /\ call[t] = NoCall
    /\ call' = [call EXCEPT ![t] = op]
    /\ answer' = [answer EXCEPT ![t] = "none"]
    /\ \E c \in BOOLEAN : cancelled' = [cancelled EXCEPT ![t] = c]
    /\ UNCHANGED word

Finish(t, a) ==
    /\ call' = [call EXCEPT ![t] = NoCall]
    /\ answer' = [answer EXCEPT ![t] = a]
    /\ cancelled' = [cancelled EXCEPT ![t] = FALSE]

Apply(t) ==
    /\ call[t] # NoCall /\ Applies(call[t], word)
    /\ word' = Effect(call[t], word)
    /\ Finish(t, Answer(call[t], word))

(* Reads, and calls whose precondition the word does not meet.             *)
Refuse(t) ==
    /\ call[t] \notin {NoCall, "acquire"} /\ ~Applies(call[t], word)
    /\ Finish(t, Answer(call[t], word))
    /\ UNCHANGED word

GiveUp(t) ==
    /\ call[t] = "acquire" /\ cancelled[t]
    /\ Finish(t, "refused")
    /\ UNCHANGED word

Cancel(t) ==
    /\ call[t] = "acquire"
    /\ cancelled' = [cancelled EXCEPT ![t] = TRUE]
    /\ UNCHANGED <<word, call, answer>>

Return(t) ==
    /\ call[t] = NoCall
    /\ answer' = [answer EXCEPT ![t] = "none"]
    /\ UNCHANGED <<word, call, cancelled>>

Next == \E t \in Threads :
    \/ \E op \in Ops : Call(t, op)
    \/ Apply(t) \/ Refuse(t) \/ GiveUp(t) \/ Cancel(t) \/ Return(t)

Spec == Init /\ [][Next]_vars
=============================================================================
