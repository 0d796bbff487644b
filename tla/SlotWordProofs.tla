--------------------------- MODULE SlotWordProofs ---------------------------
(***************************************************************************)
(* The compare-exchange loops of the slot's state word implement the       *)
(* atomic word, for any number of threads and any width of the weak count; *)
(* the lock is exclusive, and both counts are exact.                       *)
(***************************************************************************)
EXTENDS SlotWord, Integers, FiniteSetTheorems, TLAPS

(* What a thread is about to do with the word fits the call it is in, and  *)
(* the value it expects is one that its call may replace.                  *)
CallFits(t) ==
    /\ call[t] \in Ops \cup {NoCall}
    /\ pc[t] \in {"idle", "load", "cas", "seeToken", "store"}
    /\ pc[t] = "idle" <=> call[t] = NoCall
    /\ pc[t] = "store" <=> call[t] = "reset"
    /\ pc[t] = "cas" => Applies(call[t], cur[t])
    /\ pc[t] = "seeToken" => call[t] = "acquire"
    /\ at[t] \notin DOMAIN CallAt => call[t] = NoCall

WordTypes ==
    /\ word \in Words
    /\ call \in [Threads -> Ops \cup {NoCall}]
    /\ answer \in [Threads -> Answers]
    /\ cancelled \in [Threads -> BOOLEAN]
    /\ pc \in [Threads -> {"idle", "load", "cas", "seeToken", "store"}]
    /\ cur \in [Threads -> Words]
    /\ at \in [Threads -> Places]

WordInv == WordTypes /\ \A t \in Threads : CallFits(t)

-----------------------------------------------------------------------------
(* Every place that calls the word calls one of its operations.            *)
LEMMA CallAtIsOp == ASSUME NEW p \in DOMAIN CallAt
                    PROVE  CallAt[p] \in Ops
  <1> DEFINE D == {"create", "first", "clone", "drop", "unheld", "created",
                   "claim", "mark", "dead", "destroyed", "reset", "own",
                   "endOwn", "share", "join", "endShare", "scan", "lock",
                   "unlock"}
  <1>1. p \in D
    BY DEF CallAt
  <1>2. CASE p \in {"create", "first", "clone", "drop", "unheld", "created"}
    BY <1>2 DEF CallAt, Ops, Moves, Reads
  <1>3. CASE p \in {"claim", "mark", "dead", "destroyed", "reset", "own"}
    BY <1>3 DEF CallAt, Ops, Moves, Reads
  <1>4. CASE p \in {"endOwn", "share", "join", "endShare", "scan", "lock", "unlock"}
    BY <1>4 DEF CallAt, Ops, Moves, Reads
  <1> QED
    BY <1>1, <1>2, <1>3, <1>4
USE CountModAssumption, SlotWordAssumption

(* An operation that writes turns a word into a word, and every answer is  *)
(* one that the callers know.                                              *)
LEMMA EffectType == ASSUME NEW w \in Words, NEW op \in Ops, Applies(op, w)
                    PROVE  Effect(op, w) \in Words
  <1>1. Plus(w.count) \in 0 .. CountMod - 1 /\ Minus(w.count) \in 0 .. CountMod - 1
    BY DEF Words, Plus, Minus
  <1>2. CASE op \in Moves
    BY <1>2 DEF Effect, Words, Moves, To, DataStates
  <1>3. CASE op \in {"incr", "decr"}
    BY <1>1, <1>3 DEF Effect, Words
  <1>4. CASE op \in {"acquire", "release"}
    BY <1>4 DEF Effect, Words
  <1>5. CASE op = "create"
    BY <1>5 DEF Effect, Words, DataStates
  <1>6. CASE op = "reset"
    <2>1. EmptyWord \in Words
      BY DEF Words, EmptyWord, DataStates
    <2> QED
      BY <1>6, <2>1 DEF Effect
  <1> QED
    BY <1>2, <1>3, <1>4, <1>5, <1>6 DEF Applies

LEMMA AnswerType == ASSUME NEW w \in Words, NEW op
                    PROVE  Answer(op, w) \in Answers
  BY DEF Answer, Answers, CountAnswer, Words
-----------------------------------------------------------------------------
(* The steps of the loops, each a step of the atomic word or none at all.  *)
AtomicStep == [Atomic!Next]_(Atomic!vars)

(* A thread that ends its call hands over the answer and is idle.          *)
LEMMA FinishKeeps ==
  ASSUME WordInv, NEW t \in Threads, NEW a \in Answers, Finish(t, a),
         call[t] # NoCall, word' \in Words, UNCHANGED at
  PROVE  WordInv'
  <1>1. EmptyWord \in Words /\ NoCall # "reset"
    BY DEF Words, EmptyWord, DataStates, Ops
  <1> QED
    BY <1>1 DEF WordInv, WordTypes, CallFits, Finish

(* A thread that tries again expects a value that it may replace.          *)
LEMMA RetryKeeps ==
  ASSUME WordInv, NEW t \in Threads, UNCHANGED <<word, at>>, call[t] # NoCall,
         \/ Applies(call[t], word) /\ call[t] # "reset" /\ Retry(t, "cas", word)
         \/ call[t] = "acquire" /\ Retry(t, "seeToken", EmptyWord)
         \/ call[t] # "reset" /\ Retry(t, "load", EmptyWord)
  PROVE  WordInv'
  <1>1. EmptyWord \in Words
    BY DEF Words, EmptyWord, DataStates
  <1> QED
    BY <1>1 DEF WordInv, WordTypes, CallFits, Retry
(* The operations are those of the atomic word.                            *)
LEMMA SameWord == /\ Atomic!Ops = Ops /\ Atomic!EmptyWord = EmptyWord
  BY DEF Atomic!Ops, Ops, Atomic!Moves, Moves, Atomic!Reads, Reads,
         Atomic!EmptyWord, EmptyWord

LEMMA SameApplies == ASSUME NEW op, NEW w
                     PROVE  Atomic!Applies(op, w) <=> Applies(op, w)
  BY DEF Atomic!Applies, Applies, Atomic!Moves, Moves, Atomic!From, From

LEMMA SameEffect == ASSUME NEW op, NEW w
                    PROVE  Atomic!Effect(op, w) = Effect(op, w)
  BY DEF Atomic!Effect, Effect, Atomic!To, To, Atomic!EmptyWord, EmptyWord,
         Atomic!Plus, Plus, Atomic!Minus, Minus

LEMMA SameAnswer == ASSUME NEW op, NEW w
                    PROVE  Atomic!Answer(op, w) = Answer(op, w)
  BY SameApplies, SameEffect DEF Atomic!Answer, Answer,
         Atomic!CountAnswer, CountAnswer

(* A call that ends, and what it has written, is one step of the word.     *)
LEMMA FinishIsAtomic ==
  ASSUME WordInv, NEW t \in Threads, call[t] # NoCall,
         Finish(t, Answer(call[t], word)),
         \/ Applies(call[t], word) /\ word' = Effect(call[t], word)
         \/ /\ ~Applies(call[t], word) /\ call[t] # "acquire"
            /\ UNCHANGED word
  PROVE  AtomicStep
  <1>1. Atomic!Finish(t, Atomic!Answer(call[t], word))
    BY SameAnswer DEF Atomic!Finish, Finish
  <1>2. Atomic!Apply(t) \/ Atomic!Refuse(t)
    BY <1>1, SameApplies, SameEffect DEF Atomic!Apply, Atomic!Refuse
  <1> QED
    BY <1>2 DEF AtomicStep, Atomic!Next

LEMMA RetryIsHidden ==
  ASSUME UNCHANGED word, NEW t \in Threads, NEW label, NEW w, Retry(t, label, w)
  PROVE  AtomicStep
  BY DEF AtomicStep, Atomic!vars, Retry

(* What a call makes of a value it has just seen.                          *)
LEMMA InspectStep ==
  ASSUME WordInv, NEW t \in Threads, Inspect(t), UNCHANGED at,
         pc[t] \in {"load", "cas"}, call[t] # "reset"
  PROVE  WordInv' /\ AtomicStep
  <1>1. call[t] # NoCall
    BY DEF WordInv, CallFits
  <1>2. CASE Applies(call[t], word) /\ Retry(t, "cas", word)
    BY <1>1, <1>2, RetryKeeps, RetryIsHidden DEF Inspect
  <1>3. CASE ~Applies(call[t], word) /\ call[t] = "acquire" /\ Retry(t, "seeToken", EmptyWord)
    BY <1>1, <1>3, RetryKeeps, RetryIsHidden DEF Inspect
  <1>4. CASE /\ ~Applies(call[t], word) /\ call[t] # "acquire"
             /\ Finish(t, Answer(call[t], word))
    <2>1. word \in Words /\ word' \in Words /\ Answer(call[t], word) \in Answers
      BY AnswerType DEF WordInv, WordTypes, Inspect
    <2> QED
      BY <1>1, <1>4, <2>1, FinishKeeps, FinishIsAtomic DEF Inspect
  <1> QED
    BY <1>2, <1>3, <1>4 DEF Inspect

LEMMA WordStepKeeps ==
  ASSUME WordInv, NEW t \in Threads, WordStep(t)
  PROVE  WordInv' /\ AtomicStep
  <1> USE DEF WordStep, clientVars
  <1>1. CASE Load(t)
    BY <1>1, InspectStep DEF Load, WordInv, CallFits
  <1>2. CASE CasSucceeds(t)
    <2>1. /\ call[t] \in Ops /\ call[t] # NoCall /\ Applies(call[t], word)
          /\ word \in Words /\ cur[t] = word
      BY <1>2 DEF CasSucceeds, WordInv, WordTypes, CallFits
    <2>2. word' \in Words /\ Answer(call[t], word) \in Answers
      BY <1>2, <2>1, EffectType, AnswerType DEF CasSucceeds
    <2> QED
      BY <1>2, <2>1, <2>2, FinishKeeps, FinishIsAtomic DEF CasSucceeds
  <1>3. CASE CasFails(t)
    <2>1. call[t] \notin {"reset", NoCall}
      BY <1>3 DEF CasFails, WordInv, CallFits
    <2> QED
      BY <1>3, <2>1, InspectStep, RetryKeeps, RetryIsHidden DEF CasFails
  <1>4. CASE SeeToken(t)
    <2>1. call[t] = "acquire" /\ call[t] # NoCall
      BY <1>4 DEF SeeToken, WordInv, CallFits
    <2>2. CASE cancelled[t] /\ Finish(t, "refused")
      <3>1. WordInv'
        BY <1>4, <2>1, <2>2, FinishKeeps DEF SeeToken, WordInv, WordTypes, Answers
      <3>2. AtomicStep
        BY <1>4, <2>1, <2>2 DEF SeeToken, Finish, AtomicStep, Atomic!Next,
              Atomic!GiveUp, Atomic!Finish
      <3> QED
        BY <3>1, <3>2
    <2>3. CASE Retry(t, "load", EmptyWord)
      BY <1>4, <2>1, <2>3, RetryKeeps, RetryIsHidden DEF SeeToken
    <2> QED
      BY <1>4, <2>2, <2>3 DEF SeeToken
  <1>5. CASE Store(t)
    <2>1. call[t] = "reset" /\ call[t] # NoCall /\ call[t] \in Ops
      BY <1>5 DEF Store, WordInv, CallFits, Ops
    <2>2. /\ Applies(call[t], word) /\ Effect(call[t], word) = EmptyWord
          /\ Answer(call[t], word) = "done"
      BY <2>1 DEF Applies, Effect, Answer
    <2>3. word' \in Words /\ "done" \in Answers
      BY <1>5 DEF Store, Words, EmptyWord, DataStates, Answers
    <2> QED
      BY <1>5, <2>1, <2>2, <2>3, FinishKeeps, FinishIsAtomic DEF Store
  <1> QED
    BY <1>1, <1>2, <1>3, <1>4, <1>5
-----------------------------------------------------------------------------
(* The client's steps: a call, a return, or nothing that the word sees.    *)
LEMMA ProceedKeeps ==
  ASSUME WordInv, NEW t \in Threads, NEW p \in Places, Proceed(t, p),
         call[t] = NoCall
  PROVE  WordInv' /\ AtomicStep
  <1>1. "none" \in Answers /\ pc[t] = "idle"
    BY DEF Answers, WordInv, CallFits
  <1>2. CASE p \in DOMAIN CallAt
    <2>1. CallAt[p] \in Ops /\ (CallAt[p] = "reset" <=> p = "reset")
      BY <1>2, CallAtIsOp DEF CallAt
    <2>2. WordInv'
      BY <1>1, <1>2, <2>1 DEF WordInv, WordTypes, CallFits, Proceed
    <2>3. Atomic!Call(t, CallAt[p])
      BY <1>2 DEF Atomic!Call, Proceed
    <2> QED
      BY <2>1, <2>2, <2>3, SameWord DEF AtomicStep, Atomic!Next
  <1>3. CASE p \notin DOMAIN CallAt
    <2>1. WordInv'
      BY <1>1, <1>3 DEF WordInv, WordTypes, CallFits, Proceed
    <2>2. Atomic!Return(t)
      BY <1>3 DEF Atomic!Return, Proceed
    <2> QED
      BY <2>1, <2>2 DEF AtomicStep, Atomic!Next
  <1> QED
    BY <1>2, <1>3

(* Where a client goes is a place of its code.                             *)
LEMMA FollowType == ASSUME NEW p, NEW a PROVE Follow(p, a) \in Places
  BY DEF Follow, Places, CallAt

LEMMA BeginKeeps ==
  ASSUME WordInv, NEW t \in Threads, Begin(t)
  PROVE  WordInv' /\ AtomicStep
  <1>1. {"create", "clone", "drop", "own", "share", "lock", "bump", "endOwn",
         "dip", "scan", "unlock"} \subseteq Places
    BY DEF Places, CallAt
  <1>2. CASE Leak(t)
    BY <1>2 DEF Leak, wordVars, WordInv, WordTypes, CallFits, AtomicStep, Atomic!vars
  <1>3. CASE Idle(t) \/ at[t] = "guard"
    <2>1. call[t] = NoCall
      BY <1>3 DEF WordInv, CallFits, Idle, CallAt
    <2>2. ASSUME NEW p \in Places, Proceed(t, p) PROVE WordInv' /\ AtomicStep
      BY <2>1, <2>2, ProceedKeeps
    <2>3. CASE Leak(t)
      BY <1>2, <2>3
    <2>4. CASE ~Leak(t)
      <3>1. PICK p \in Places : Proceed(t, p)
        BY <1>1, <2>4 DEF Begin, BeginPut, BeginClone, BeginDrop, BeginBorrow,
              BeginCloneShare, BeginEndOwn, BeginEndShare, BeginFlush, Unlock,
              GoTo, Borrow
      <3> QED
        BY <2>2, <3>1
    <2> QED
      BY <2>3, <2>4
  <1> QED
    BY <1>3 DEF Begin, BeginPut, BeginClone, BeginDrop, BeginBorrow,
          BeginCloneShare, BeginEndOwn, BeginEndShare, BeginFlush, Unlock, Leak

LEMMA ContinueKeeps ==
  ASSUME WordInv, NEW t \in Threads, Continue(t)
  PROVE  WordInv' /\ AtomicStep
  <1>1. CASE WordStep(t)
    BY <1>1, WordStepKeeps
  <1>2. CASE Bump(t) \/ Dip(t)
    <2>1. call[t] = NoCall
      BY <1>2 DEF Bump, Dip, WordInv, CallFits, CallAt
    <2>2. PICK p \in {"idle", "endShare"} : Proceed(t, p)
      BY <1>2 DEF Bump, Dip, GoTo
    <2>3. p \in Places
      BY DEF Places, CallAt
    <2> QED
      BY <2>1, <2>2, <2>3, ProceedKeeps
  <1>3. CASE Resume(t)
    <2>1. NextPlace(t) \in Places
      BY FollowType DEF NextPlace, Places
    <2> QED
      BY <1>3, <2>1, ProceedKeeps DEF Resume, Answered, GoTo
  <1> QED
    BY <1>1, <1>2, <1>3 DEF Continue

LEMMA CancelKeeps ==
  ASSUME WordInv, NEW t \in Threads, Cancel(t)
  PROVE  WordInv' /\ AtomicStep
  <1>1. WordInv'
    BY DEF Cancel, WordInv, WordTypes, CallFits, clientVars
  <1>2. Atomic!Cancel(t)
    BY DEF Cancel, Atomic!Cancel
  <1> QED
    BY <1>1, <1>2 DEF AtomicStep, Atomic!Next

LEMMA StepKeeps == WordInv /\ [Next]_vars => WordInv' /\ AtomicStep
  <1> SUFFICES ASSUME WordInv, [Next]_vars PROVE WordInv' /\ AtomicStep
    OBVIOUS
  <1>1. CASE UNCHANGED vars
    BY <1>1 DEF vars, wordVars, clientVars, WordInv, WordTypes, CallFits,
          AtomicStep, Atomic!vars
  <1>2. CASE Next
    BY <1>2, BeginKeeps, ContinueKeeps, CancelKeeps DEF Next
  <1> QED
    BY <1>1, <1>2

LEMMA InitFits == Init => WordInv /\ Atomic!Init
  <1>1. EmptyWord \in Words /\ "none" \in Answers /\ "idle" \in Places
    BY DEF Words, EmptyWord, DataStates, Answers, Places
  <1>2. "idle" \notin DOMAIN CallAt /\ NoCall # "reset" /\ NoCall # "acquire"
    BY DEF CallAt, Ops
  <1> QED
    BY <1>1, <1>2, SameWord DEF Init, Atomic!Init, WordInv, WordTypes, CallFits

(* The loops implement the atomic word: whatever the other threads do and  *)
(* however often an exchange fails, a call on the state word takes effect  *)
(* in one step, on the word as it is at that step.                         *)
THEOREM WordIsAtomic == Spec => ImplementsAtomic
  <1>1. Init => WordInv /\ Atomic!Init
    BY InitFits
  <1>2. WordInv /\ [Next]_vars => WordInv' /\ [Atomic!Next]_(Atomic!vars)
    BY StepKeeps DEF AtomicStep
  <1> QED
    BY <1>1, <1>2, PTL DEF Spec, ImplementsAtomic, Atomic!Spec

-----------------------------------------------------------------------------
(* The client's variables keep their types too: no count drops below zero, *)
(* and the word of the strong count stays in its bits.                     *)
ClientTypes ==
    /\ refc \in 0 .. 4 * StrongMod - 1 /\ flags \in 0 .. 3
    /\ retains \in Nat /\ owning \in Nat /\ sharing \in Nat /\ leaked \in Nat
    /\ writer \in Threads \cup {NoThread}
    /\ borrows \subseteq Threads /\ free \in BOOLEAN

(* The word of the strong count wraps around at its four fields' end.      *)
LEMMA RefcType ==
  ASSUME refc \in 0 .. 4 * StrongMod - 1
  PROVE  /\ \A f \in ChunkFlags : f \in 0 .. 3 /\ f * StrongMod \in 0 .. 4 * StrongMod - 1
         /\ \A n \in Nat : AddToRefc(n) => refc' \in 0 .. 4 * StrongMod - 1
  <1>1. ASSUME NEW f \in ChunkFlags
        PROVE  f \in 0 .. 3 /\ f * StrongMod \in 0 .. 4 * StrongMod - 1
    <2>1. f = 0 \/ f = 1 \/ f = 2 \/ f = 3
      OBVIOUS
    <2> QED
      BY <2>1
  <1>2. ASSUME NEW n \in Nat, AddToRefc(n)
        PROVE  refc' \in 0 .. 4 * StrongMod - 1
    <2> DEFINE M == 4 * StrongMod
    <2>1. M \in Nat /\ M > 0 /\ refc + n \in Nat
      OBVIOUS
    <2>2. (refc + n) % M \in 0 .. M - 1
      BY <2>1
    <2> QED
      BY <1>2, <2>2 DEF AddToRefc
  <1> QED
    BY <1>1, <1>2

(* No step of a client takes out what it has not.                          *)
LEMMA ClientKeeps ==
  ASSUME WordInv, ClientTypes, [Next]_vars
  PROVE  ClientTypes'
  <1> USE DEF ClientTypes, GoTo, Borrow
  <1>1. CASE UNCHANGED vars
    BY <1>1 DEF vars, clientVars, chunkVars
  <1>2. ASSUME NEW t \in Threads, Begin(t)
        PROVE  ClientTypes'
    <2>1. CASE BeginPut(t)
      BY <2>1, RefcType DEF BeginPut
    <2>2. CASE BeginDrop(t)
      BY <2>2 DEF BeginDrop, Lent, chunkVars
    <2>3. CASE BeginEndOwn(t) \/ BeginEndShare(t) \/ Leak(t)
      BY <2>3 DEF BeginEndOwn, BeginEndShare, Leak, chunkVars
    <2>4. CASE BeginClone(t) \/ BeginBorrow(t) \/ BeginCloneShare(t)
      BY <2>4 DEF BeginClone, BeginBorrow, BeginCloneShare, chunkVars
    <2>5. CASE BeginFlush(t) \/ Unlock(t)
      BY <2>5 DEF BeginFlush, Unlock, chunkVars
    <2> QED
      BY <1>2, <2>1, <2>2, <2>3, <2>4, <2>5 DEF Begin
  <1>3. ASSUME NEW t \in Threads, Continue(t)
        PROVE  ClientTypes'
    <2>1. CASE WordStep(t)
      BY <2>1 DEF WordStep, clientVars, chunkVars
    <2>2. CASE Bump(t)
      BY <2>2, RefcType DEF Bump
    <2>3. CASE Dip(t)
      BY <2>3, RefcType DEF Dip
    <2>4. CASE Resume(t)
      BY <2>4 DEF Resume, chunkVars
    <2> QED
      BY <1>3, <2>1, <2>2, <2>3, <2>4 DEF Continue
  <1>4. ASSUME NEW t \in Threads, Cancel(t)
        PROVE  ClientTypes'
    BY <1>4 DEF Cancel, clientVars, chunkVars
  <1> QED
    BY <1>1, <1>2, <1>3, <1>4 DEF Next

(* Every variable has the type that the code gives it.                     *)
THEOREM WordTypeCorrect == Spec => []TypeOK
  <1>1. Init => WordInv /\ ClientTypes
    BY InitFits DEF Init, ClientTypes
  <1>2. WordInv /\ ClientTypes /\ [Next]_vars => WordInv' /\ ClientTypes'
    BY StepKeeps, ClientKeeps
  <1>3. WordInv /\ ClientTypes => TypeOK
    BY DEF WordInv, WordTypes, ClientTypes, TypeOK
  <1> QED
    BY <1>1, <1>2, <1>3, PTL DEF Spec
-----------------------------------------------------------------------------
(* Where a client may be, and who is alone with the slot: an operation on  *)
(* behalf of a handle is at one of LentPlaces while it borrows the Retain, *)
(* the code that looks whether an object is unreachable is at TailPlaces,  *)
(* as far as HookPlaces for a view or the flush.                           *)
LentPlaces == {"clone", "own", "share", "join", "bump", "lock", "guard",
               "unlock", "endOwn", "dip", "endShare"}
HookPlaces == {"unheld", "created", "claim", "mark"}
TailPlaces == HookPlaces \cup {"dead", "destroyed", "reset"}

PlaceFits(t) ==
    /\ call[t] # NoCall => at[t] \in DOMAIN CallAt /\ call[t] = CallAt[at[t]]
    /\ t \in borrows => at[t] \in LentPlaces \cup HookPlaces
    /\ at[t] \in LentPlaces => t \in borrows
    /\ writer = t => /\ at[t] \in {"create", "first", "scan", "claim", "mark"}
                     /\ t \notin borrows
    /\ at[t] \in {"create", "first", "scan"} => writer = t
PlaceInv == \A t \in Threads : PlaceFits(t)

(* Views and operations in progress keep a Retain alive.                   *)
LendingInv == Lent <= retains

(* The thread that puts the object, until the first Retain is counted, and *)
(* the one that gave the last Retain back are alone: nothing is counted    *)
(* and nobody else puts or ends, as while the slot is free.                *)
Fresh(t)  == at[t] = "create" \/ (at[t] = "first" /\ call[t] # NoCall)
IsLast(t) == /\ t \notin borrows /\ writer # t
             /\ \/ at[t] \in TailPlaces
                \/ at[t] = "drop" /\ call[t] = NoCall /\ answer[t] = "zero"
Alone(t)  == Fresh(t) \/ IsLast(t)
Quiet     == retains = 0 /\ Counted = {}
AloneInv ==
    /\ free \/ (\E t \in Threads : Alone(t)) => Quiet
    /\ free => \A t \in Threads : ~Alone(t)
    /\ \A t, u \in Threads : Alone(t) /\ Alone(u) => t = u

(* Who goes to return the slot has seen it Destroyed, and it still is.     *)
Saw(t) == \/ at[t] = "destroyed" /\ call[t] = NoCall /\ answer[t] = "Destroyed"
          \/ at[t] = "reset" /\ call[t] # NoCall
SawInv == \A t \in Threads : Saw(t) => word.state = "Destroyed"

(* The weak count is exact and has room for the increments under way.      *)
RoomInv  == retains + Cardinality(Underway) <= MaxRetains
ExactInv == word.count = retains + Cardinality(Counted)

UseInv == /\ WordInv /\ ClientTypes /\ PlaceInv /\ LendingInv /\ AloneInv
          /\ SawInv /\ RoomInv /\ ExactInv /\ GuardExclusive

-----------------------------------------------------------------------------
(* A step of t is a step of no other thread.                               *)
Others(t) == \A u \in Threads \ {t} :
    /\ at'[u] = at[u] /\ call'[u] = call[u] /\ answer'[u] = answer[u]
    /\ u \in borrows' <=> u \in borrows
    /\ writer' = u <=> writer = u

(* So what is said of the others goes on holding.                          *)
LEMMA OthersSame ==
  ASSUME NEW t \in Threads, Others(t), NEW u \in Threads \ {t}
  PROVE  /\ PlaceFits(u) => PlaceFits(u)'
         /\ Alone(u) <=> Alone(u)'
         /\ Saw(u) <=> Saw(u)'
         /\ HoldsGuard(u) <=> HoldsGuard(u)'
         /\ u \in Counted <=> u \in Counted'
         /\ u \in Underway <=> u \in Underway'
  <1> USE DEF Others
  <1>1. PlaceFits(u) => PlaceFits(u)'
    BY DEF PlaceFits
  <1>2. Alone(u) <=> Alone(u)'
    BY DEF Alone, Fresh, IsLast
  <1>3. Saw(u) <=> Saw(u)'
    BY DEF Saw
  <1>4. HoldsGuard(u) <=> HoldsGuard(u)'
    BY DEF HoldsGuard
  <1>5. /\ u \in Counted <=> u \in Counted'
        /\ u \in Underway <=> u \in Underway'
    BY DEF Counted, Underway
  <1> QED
    BY <1>1, <1>2, <1>3, <1>4, <1>5

(* A set of threads that gains or loses t, or stays as it is.              *)
One(b) == IF b THEN 1 ELSE 0
Moved(A, B, before, after) ==
    /\ Cardinality(A) \in Nat /\ Cardinality(B) \in Nat
    /\ Cardinality(B) = Cardinality(A) - One(before) + One(after)

LEMMA CardMoves ==
  ASSUME NEW A \in SUBSET Threads, NEW B \in SUBSET Threads, NEW t \in Threads,
         \A u \in Threads \ {t} : u \in A <=> u \in B
  PROVE  Moved(A, B, t \in A, t \in B)
  <1>1. IsFiniteSet(A) /\ IsFiniteSet(B)
    BY FS_Subset
  <1>2. Cardinality(A) \in Nat /\ Cardinality(B) \in Nat
    BY <1>1, FS_CardinalityType
  <1>3. CASE t \in A /\ t \notin B
    <2>1. B = A \ {t}
      BY <1>3
    <2> QED
      BY <1>1, <1>2, <1>3, <2>1, FS_RemoveElement DEF One, Moved
  <1>4. CASE t \notin A /\ t \in B
    <2>1. B = A \cup {t}
      BY <1>4
    <2> QED
      BY <1>1, <1>2, <1>4, <2>1, FS_AddElement DEF One, Moved
  <1>5. CASE t \in A <=> t \in B
    <2>1. A = B
      BY <1>5
    <2> QED
      BY <1>2, <2>1 DEF One, Moved
  <1> QED
    BY <1>3, <1>4, <1>5

LEMMA CountsMove ==
  ASSUME NEW t \in Threads, Others(t)
  PROVE  /\ Moved(Counted, Counted', t \in Counted, t \in Counted')
         /\ Moved(Underway, Underway', t \in Underway, t \in Underway')
  <1>1. \A u \in Threads \ {t} : /\ u \in Counted <=> u \in Counted'
                                 /\ u \in Underway <=> u \in Underway'
    BY OthersSame
  <1>2. Moved(Counted, Counted', t \in Counted, t \in Counted')
    BY <1>1, CardMoves DEF Counted
  <1>3. Moved(Underway, Underway', t \in Underway, t \in Underway')
    BY <1>1, CardMoves DEF Underway
  <1> QED
    BY <1>2, <1>3

(* The ways in which a step keeps AloneInv.                                *)
LEMMA AloneKeeps ==
  ASSUME AloneInv, NEW t \in Threads, Others(t), retains \in Nat,
         \/ /\ Alone(t)' => Alone(t)
            /\ free' => free
            /\ Quiet => (retains' = 0 /\ (t \in Counted' => t \in Counted))
         \/ Alone(t) /\ ~Alone(t)' /\ ~free'
         \/ Alone(t) /\ ~Alone(t)' /\ free' /\ retains' = retains /\ t \notin Counted'
         \/ free /\ ~free' /\ retains' = retains /\ t \notin Counted'
         \/ ~Quiet /\ (Alone(t)' => Quiet') /\ ~free' /\ ~free
  PROVE  AloneInv'
  <1>1. \A u \in Threads \ {t} : /\ Alone(u) <=> Alone(u)'
                                 /\ u \in Counted <=> u \in Counted'
    BY OthersSame
  <1>2. Counted \subseteq Threads /\ Counted' \subseteq Threads
    BY DEF Counted
  <1>3. Counted = {} /\ (t \in Counted' => t \in Counted) => Counted' = {}
    BY <1>1, <1>2
  <1> QED
    BY <1>1, <1>3 DEF AloneInv, Quiet

-----------------------------------------------------------------------------
(* A step of the loop is invisible to the others, or ends the call: with   *)
(* its effect, or without because the word or the token says so.           *)
Hidden(t) ==
    /\ UNCHANGED <<word, call, answer>>
    /\ UNCHANGED <<clientVars, chunkVars>>
Ended(t) ==
    /\ call[t] # NoCall
    /\ call' = [call EXCEPT ![t] = NoCall]
    /\ \E a \in Answers :
         /\ answer' = [answer EXCEPT ![t] = a]
         /\ \/ /\ Applies(call[t], word) /\ word' = Effect(call[t], word)
               /\ a = Answer(call[t], word)
            \/ /\ ~Applies(call[t], word) /\ call[t] # "acquire"
               /\ UNCHANGED word /\ a = Answer(call[t], word)
            \/ call[t] = "acquire" /\ UNCHANGED word /\ a = "refused"
    /\ UNCHANGED <<clientVars, chunkVars>>

LEMMA WordStepShape ==
  ASSUME WordInv, NEW t \in Threads, WordStep(t)
  PROVE  Hidden(t) \/ Ended(t)
  <1>1. /\ UNCHANGED <<clientVars, chunkVars>>
        /\ pc[t] # "idle" => call[t] # NoCall
        /\ word \in Words /\ Answer(call[t], word) \in Answers
        /\ "done" \in Answers /\ "refused" \in Answers
    BY AnswerType DEF WordStep, WordInv, WordTypes, CallFits, Answers
  <1>2. ASSUME Inspect(t), pc[t] # "idle"
        PROVE  Hidden(t) \/ Ended(t)
    BY <1>1, <1>2 DEF Inspect, Retry, Finish, Hidden, Ended
  <1>3. CASE Load(t)
    BY <1>2, <1>3 DEF Load
  <1>4. CASE CasSucceeds(t)
    <2>1. Applies(call[t], word) /\ cur[t] = word
      BY <1>4 DEF CasSucceeds, WordInv, CallFits
    <2> QED
      BY <1>1, <1>4, <2>1 DEF CasSucceeds, Finish, Ended
  <1>5. CASE CasFails(t)
    BY <1>1, <1>2, <1>5 DEF CasFails, Retry, Hidden
  <1>6. CASE SeeToken(t)
    <2>1. call[t] = "acquire"
      BY <1>6 DEF SeeToken, WordInv, CallFits
    <2> QED
      BY <1>1, <1>6, <2>1 DEF SeeToken, Retry, Finish, Hidden, Ended
  <1>7. CASE Store(t)
    <2>1. call[t] = "reset"
      BY <1>7 DEF Store, WordInv, CallFits
    <2>2. /\ Applies(call[t], word) /\ Effect(call[t], word) = EmptyWord
          /\ Answer(call[t], word) = "done"
      BY <2>1 DEF Applies, Effect, Answer
    <2> QED
      BY <1>1, <1>7, <2>2 DEF Store, Finish, Ended
  <1> QED
    BY <1>3, <1>4, <1>5, <1>6, <1>7 DEF WordStep

(* What holds of a thread in a call by the place it is at.                 *)
LEMMA InCall ==
  ASSUME WordInv, PlaceInv, NEW t \in Threads, call[t] # NoCall
  PROVE  /\ at[t] \in DOMAIN CallAt /\ call[t] = CallAt[at[t]]
         /\ t \in Counted <=> at[t] = "drop"
         /\ t \in Underway <=> at[t] \in {"first", "clone", "drop"}
         /\ HoldsGuard(t) <=> at[t] = "unlock"
         /\ Alone(t) <=> \/ at[t] \in {"create", "first"}
                         \/ t \notin borrows /\ writer # t /\ at[t] \in TailPlaces
  <1>1. at[t] \in DOMAIN CallAt /\ call[t] = CallAt[at[t]]
    BY DEF PlaceInv, PlaceFits
  <1>2. "guard" \notin DOMAIN CallAt
    BY DEF CallAt
  <1> QED
    BY <1>1, <1>2 DEF Counted, Underway, HoldsGuard, Alone, Fresh, IsLast,
       TailPlaces, HookPlaces

(* And when its call has ended.                                            *)
LEMMA AfterCall ==
  ASSUME WordInv, NEW t \in Threads, Ended(t)
  PROVE  /\ at' = at /\ borrows' = borrows /\ writer' = writer /\ free' = free
         /\ retains' = retains /\ call'[t] = NoCall
         /\ t \in Counted' <=> at[t] \in {"first", "clone"}
         /\ t \in Underway' <=> at[t] \in {"first", "clone"}
         /\ HoldsGuard(t)' <=> \/ at[t] = "lock" /\ answer'[t] = "done"
                               \/ at[t] = "guard"
         /\ Alone(t)' <=> \/ at[t] = "create"
                          \/ /\ t \notin borrows /\ writer # t
                             /\ \/ at[t] \in TailPlaces
                                \/ at[t] = "drop" /\ answer'[t] = "zero"
         /\ Others(t)
  <1>1. UNCHANGED <<at, borrows, writer, free, retains>> /\ call'[t] = NoCall
    BY DEF Ended, clientVars, WordInv, WordTypes
  <1>2. Others(t)
    BY DEF Ended, clientVars, Others, WordInv, WordTypes
  <1> QED
    BY <1>1, <1>2 DEF Counted, Underway, HoldsGuard, Alone, Fresh, IsLast

(* A borrowed Retain is not counted down: nobody is alone then.            *)
LEMMA BorrowedIsLive ==
  ASSUME LendingInv, AloneInv, ClientTypes,
         borrows # {} \/ owning + sharing > 0
  PROVE  retains > 0 /\ ~Quiet /\ ~free /\ \A u \in Threads : ~Alone(u)
  BY DEF LendingInv, Lent, AloneInv, Quiet, ClientTypes

(* Whoever holds a guard borrows a Retain.                                 *)
LEMMA GuardBorrows ==
  ASSUME PlaceInv, NEW t \in Threads, HoldsGuard(t)
  PROVE  t \in borrows
  BY DEF PlaceInv, PlaceFits, HoldsGuard, LentPlaces

-----------------------------------------------------------------------------
(* The end of a call, by what the call does to the word.                   *)
EndedOk(t) == /\ AloneInv' /\ SawInv' /\ RoomInv' /\ ExactInv' /\ GuardExclusive'

(* Most leave the count and the lock alone.                                *)
LEMMA OtherCallEnds ==
  ASSUME UseInv, NEW t \in Threads, Ended(t),
         at[t] \notin {"first", "clone", "drop", "lock", "unlock", "reset"}
  PROVE  EndedOk(t)
  <1>1. call[t] # NoCall /\ at[t] \in DOMAIN CallAt /\ call[t] = CallAt[at[t]]
    BY InCall DEF UseInv, Ended
  <1>2. call[t] \in Moves \cup Reads \cup {"create"}
    BY <1>1 DEF CallAt, Moves, Reads
  <1>3. /\ word'.count = word.count /\ word'.locked = word.locked
        /\ \/ word'.state = word.state
           \/ word.state # "Destroyed"
           \/ at[t] = "create"
    <2>1. CASE call[t] = "create"
      <3>1. at[t] = "create"
        BY <1>1, <2>1 DEF CallAt
      <3> QED
        BY <2>1, <3>1 DEF Ended, Effect, Applies, UseInv, WordInv, WordTypes, Words
    <2>2. CASE call[t] \in Reads
      <3>1. ~Applies(call[t], word)
        BY <2>2 DEF Reads, Applies, Moves
      <3> QED
        BY <2>2, <3>1 DEF Ended, Reads
    <2>3. CASE call[t] \in Moves
      <3>1. Applies(call[t], word) => word.state # "Destroyed"
        BY <2>3 DEF Moves, Applies, From
      <3>2. /\ Effect(call[t], word).count = word.count
            /\ Effect(call[t], word).locked = word.locked
        BY <2>3 DEF Moves, Effect, UseInv, WordInv, WordTypes, Words
      <3> QED
        BY <2>3, <3>1, <3>2 DEF Ended, Moves
    <2> QED
      BY <1>2, <2>1, <2>2, <2>3
  <1>4. /\ Others(t) /\ (Alone(t) <=> Alone(t)')
        /\ t \notin Counted /\ t \notin Counted'
        /\ t \notin Underway /\ t \notin Underway'
        /\ ~HoldsGuard(t) /\ ~HoldsGuard(t)'
        /\ at[t] \in {"create", "destroyed"} /\ t \notin borrows /\ writer # t => Alone(t)
        /\ at[t] = "create" => Alone(t)
    <2>1. at[t] # "guard" /\ at[t] # "idle"
      BY <1>1 DEF CallAt
    <2> QED
      BY <1>1, <2>1, InCall, AfterCall DEF UseInv, TailPlaces, HookPlaces
  <1>5. AloneInv'
    BY <1>4, AfterCall, AloneKeeps DEF UseInv, Quiet, ClientTypes
  <1>6. ASSUME NEW u \in Threads, Saw(u)'
        PROVE  word'.state = "Destroyed"
    <2>1. CASE u = t
      <3>1. at[t] = "destroyed" /\ answer'[t] = "Destroyed" /\ call[t] = "dataState"
        BY <1>1, <1>6, <2>1, AfterCall DEF Saw, UseInv, CallAt
      <3>2. ~Applies(call[t], word) /\ Answer(call[t], word) = word.state
        BY <3>1 DEF Applies, Moves, Answer
      <3> QED
        BY <3>1, <3>2 DEF Ended, UseInv, WordInv, WordTypes
    <2>2. CASE u # t
      <3>1. Saw(u) /\ word.state = "Destroyed"
        BY <1>4, <1>6, <2>2, OthersSame DEF UseInv, SawInv
      <3>2. Alone(u)
        BY <3>1 DEF Saw, Alone, IsLast, UseInv, PlaceInv, PlaceFits, TailPlaces,
           HookPlaces, LentPlaces
      <3>3. at[t] # "create"
        BY <1>4, <2>2, <3>2 DEF UseInv, AloneInv
      <3> QED
        BY <1>3, <3>1, <3>3
    <2> QED
      BY <2>1, <2>2
  <1>7. RoomInv' /\ ExactInv'
    BY <1>3, <1>4, CountsMove, AfterCall
       DEF UseInv, RoomInv, ExactInv, Moved, One, ClientTypes
  <1>8. GuardExclusive'
    BY <1>3, <1>4, OthersSame DEF UseInv, GuardExclusive
  <1> QED
    BY <1>5, <1>6, <1>7, <1>8 DEF EndedOk, SawInv

(* One more Retain is counted: the count does not wrap around.             *)
LEMMA IncrementEnds ==
  ASSUME UseInv, NEW t \in Threads, Ended(t), at[t] \in {"first", "clone"}
  PROVE  EndedOk(t)
  <1>1. call[t] # NoCall /\ call[t] = "incr"
    BY InCall DEF Ended, UseInv, CallAt
  <1>2. /\ Others(t) /\ ~Alone(t)' /\ (Alone(t) <=> at[t] = "first")
        /\ t \notin Counted /\ t \in Counted'
        /\ t \in Underway /\ t \in Underway'
        /\ ~HoldsGuard(t) /\ ~HoldsGuard(t)' /\ ~Saw(t)'
    BY <1>1, InCall, AfterCall DEF UseInv, TailPlaces, HookPlaces, Saw
  <1>3. word.count + 1 < CountMod
    <2>1. Counted \cup {t} \subseteq Underway
      BY <1>2 DEF Counted, Underway
    <2>2. IsFiniteSet(Counted) /\ IsFiniteSet(Underway)
      BY FS_Subset DEF Counted, Underway
    <2>3. /\ Cardinality(Counted \cup {t}) = Cardinality(Counted) + 1
          /\ IsFiniteSet(Counted \cup {t})
          /\ Cardinality(Counted) \in Nat /\ Cardinality(Underway) \in Nat
      BY <1>2, <2>2, FS_AddElement, FS_CardinalityType
    <2>4. Cardinality(Counted \cup {t}) <= Cardinality(Underway)
      BY <2>1, <2>2, FS_Subset
    <2> QED
      BY <2>3, <2>4 DEF UseInv, RoomInv, ExactInv, ClientTypes
  <1>4. /\ word'.count = word.count + 1 /\ word'.locked = word.locked
        /\ word'.state = word.state
    BY <1>1, <1>3 DEF Ended, Applies, Effect, Plus, UseInv, WordInv, WordTypes, Words
  <1>5. AloneInv'
    <2>1. CASE at[t] = "first"
      BY <1>2, <2>1, AfterCall, AloneKeeps DEF UseInv, AloneInv, ClientTypes
    <2>2. CASE at[t] = "clone"
      <3>1. t \in borrows
        BY <2>2 DEF UseInv, PlaceInv, PlaceFits, LentPlaces
      <3>2. ~Quiet /\ ~free
        BY <3>1, BorrowedIsLive DEF UseInv
      <3> QED
        BY <1>2, <3>2, AfterCall, AloneKeeps DEF UseInv, ClientTypes
    <2> QED
      BY <2>1, <2>2
  <1>6. SawInv'
    BY <1>2, <1>4, OthersSame DEF UseInv, SawInv
  <1>7. RoomInv' /\ ExactInv'
    BY <1>2, <1>4, CountsMove, AfterCall
       DEF UseInv, RoomInv, ExactInv, Moved, One, ClientTypes
  <1>8. GuardExclusive'
    BY <1>2, <1>4, OthersSame DEF UseInv, GuardExclusive
  <1> QED
    BY <1>5, <1>6, <1>7, <1>8 DEF EndedOk

(* A Retain less: the one that learns of zero was the last.                *)
LEMMA DecrementEnds ==
  ASSUME UseInv, NEW t \in Threads, Ended(t), at[t] = "drop"
  PROVE  EndedOk(t)
  <1>1. call[t] # NoCall /\ call[t] = "decr"
    BY InCall DEF Ended, UseInv, CallAt
  <1>2. /\ Others(t)
        /\ t \in Counted /\ t \notin Counted'
        /\ t \in Underway /\ t \notin Underway'
        /\ ~HoldsGuard(t) /\ ~HoldsGuard(t)' /\ ~Saw(t)'
        /\ Alone(t)' => answer'[t] = "zero"
    BY <1>1, InCall, AfterCall DEF UseInv, TailPlaces, HookPlaces, Saw
  <1>3. /\ Moved(Counted, Counted', TRUE, FALSE)
        /\ Moved(Underway, Underway', TRUE, FALSE)
    BY <1>2, CountsMove DEF Moved, One
  <1>4. word.count > 0
    BY <1>3 DEF UseInv, ExactInv, Moved, One, ClientTypes
  <1>5. /\ word'.count = word.count - 1 /\ word'.locked = word.locked
        /\ word'.state = word.state
        /\ answer'[t] = "zero" => word'.count = 0
    <2>1. /\ word' = [word EXCEPT !.count = @ - 1]
          /\ answer'[t] = CountAnswer(word'.count)
      BY <1>1, <1>4 DEF Ended, Applies, Effect, Minus, Answer, UseInv, WordInv,
         WordTypes, Words
    <2> QED
      BY <2>1 DEF CountAnswer, UseInv, WordInv, WordTypes, Words
  <1>6. RoomInv' /\ ExactInv'
    BY <1>3, <1>5, AfterCall
       DEF UseInv, RoomInv, ExactInv, Moved, One, ClientTypes
  <1>7. AloneInv'
    <2>1. ~Quiet /\ ~free /\ free' = free
      BY <1>2, AfterCall DEF UseInv, AloneInv, Quiet
    <2>2. word'.count = 0 => Quiet'
      <3>1. IsFiniteSet(Counted')
        BY FS_Subset DEF Counted
      <3>2. retains' \in Nat /\ Cardinality(Counted') \in Nat
        BY <1>3, AfterCall DEF Moved, UseInv, ClientTypes
      <3>3. word'.count = 0 => retains' = 0 /\ Cardinality(Counted') = 0
        BY <1>6, <3>2 DEF ExactInv
      <3> QED
        BY <3>1, <3>3, FS_EmptySet DEF Quiet
    <2> QED
      BY <1>2, <1>5, <2>1, <2>2, AloneKeeps DEF UseInv, ClientTypes
  <1>8. SawInv'
    BY <1>2, <1>5, OthersSame DEF UseInv, SawInv
  <1>9. GuardExclusive'
    BY <1>2, <1>5, OthersSame DEF UseInv, GuardExclusive
  <1> QED
    BY <1>6, <1>7, <1>8, <1>9 DEF EndedOk

(* A lock that is granted was not held, and is held by one from then on.   *)
LEMMA LockEnds ==
  ASSUME UseInv, NEW t \in Threads, Ended(t), at[t] \in {"lock", "unlock"}
  PROVE  EndedOk(t)
  <1>1. call[t] # NoCall /\ call[t] = IF at[t] = "lock" THEN "acquire" ELSE "release"
    BY InCall DEF Ended, UseInv, CallAt
  <1>2. /\ Others(t) /\ ~Alone(t) /\ ~Alone(t)'
        /\ t \notin Counted /\ t \notin Counted'
        /\ t \notin Underway /\ t \notin Underway' /\ ~Saw(t)'
        /\ HoldsGuard(t) <=> at[t] = "unlock"
        /\ HoldsGuard(t)' <=> at[t] = "lock" /\ answer'[t] = "done"
    BY <1>1, InCall, AfterCall DEF UseInv, TailPlaces, HookPlaces, Saw
  <1>3. word'.count = word.count /\ word'.state = word.state
    BY <1>1 DEF Ended, Effect, UseInv, WordInv, WordTypes, Words
  <1>4. AloneInv'
    BY <1>2, AfterCall, AloneKeeps DEF UseInv, Quiet, ClientTypes
  <1>5. SawInv'
    BY <1>2, <1>3, OthersSame DEF UseInv, SawInv
  <1>6. RoomInv' /\ ExactInv'
    BY <1>2, <1>3, CountsMove, AfterCall
       DEF UseInv, RoomInv, ExactInv, Moved, One, ClientTypes
  <1>7. GuardExclusive'
    <2>1. CASE at[t] = "lock"
      <3>1. \/ ~word.locked /\ word'.locked /\ answer'[t] = "done"
            \/ word' = word /\ answer'[t] = "refused"
        BY <1>1, <2>1 DEF Ended, Applies, Moves, Effect, Answer, UseInv, WordInv,
           WordTypes, Words
      <3> QED
        BY <1>2, <2>1, <3>1, OthersSame DEF UseInv, GuardExclusive
    <2>2. CASE at[t] = "unlock"
      <3>1. word.locked /\ Applies(call[t], word)
        BY <1>1, <1>2, <2>2 DEF UseInv, GuardExclusive, Applies
      <3>2. ~word'.locked
        BY <1>1, <2>2, <3>1 DEF Ended, Effect, UseInv, WordInv, WordTypes, Words
      <3> QED
        BY <1>2, <2>2, <3>2, OthersSame DEF UseInv, GuardExclusive
    <2> QED
      BY <2>1, <2>2
  <1> QED
    BY <1>4, <1>5, <1>6, <1>7 DEF EndedOk

(* The store of the empty word meets a word that nobody uses: not locked,  *)
(* Destroyed, counted down to zero.                                        *)
LEMMA StoreMeetsQuiet ==
  ASSUME UseInv, NEW t \in Threads, at[t] = "reset", call[t] # NoCall
  PROVE  /\ word = [locked |-> FALSE, state |-> "Destroyed", count |-> 0]
         /\ Alone(t) /\ borrows = {}
  <1>1. Alone(t)
    BY DEF UseInv, PlaceInv, PlaceFits, LentPlaces, HookPlaces, Alone, IsLast, TailPlaces
  <1>2. Quiet /\ borrows = {}
    BY <1>1, BorrowedIsLive DEF UseInv, AloneInv
  <1>3. word.count = 0
    BY <1>2, FS_EmptySet DEF UseInv, ExactInv, Quiet
  <1>4. ~word.locked
    BY <1>2, GuardBorrows DEF UseInv, GuardExclusive
  <1>5. word.state = "Destroyed"
    BY DEF UseInv, SawInv, Saw
  <1> QED
    BY <1>1, <1>2, <1>3, <1>4, <1>5 DEF UseInv, WordInv, WordTypes, Words

LEMMA ResetEnds ==
  ASSUME UseInv, NEW t \in Threads, Ended(t), at[t] = "reset"
  PROVE  EndedOk(t)
  <1>1. call[t] # NoCall /\ call[t] = "reset"
    BY InCall DEF Ended, UseInv, CallAt
  <1>2. /\ Others(t) /\ Alone(t)
        /\ t \notin Counted /\ t \notin Counted'
        /\ t \notin Underway /\ t \notin Underway' /\ ~Saw(t)'
        /\ ~HoldsGuard(t) /\ ~HoldsGuard(t)'
    BY <1>1, InCall, AfterCall, StoreMeetsQuiet DEF UseInv, TailPlaces, HookPlaces, Saw
  <1>3. word' = EmptyWord /\ word'.count = word.count /\ word'.locked = word.locked
    <2>1. word' = EmptyWord
      BY <1>1 DEF Ended, Applies, Effect
    <2>2. word = [locked |-> FALSE, state |-> "Destroyed", count |-> 0]
      BY <1>1, StoreMeetsQuiet
    <2> QED
      BY <2>1, <2>2 DEF EmptyWord
  <1>4. AloneInv'
    BY <1>2, AfterCall, AloneKeeps DEF UseInv, Quiet, ClientTypes
  <1>5. SawInv'
    <2>1. ASSUME NEW u \in Threads, Saw(u)' PROVE FALSE
      <3>1. u # t /\ Saw(u)
        BY <1>2, <2>1, OthersSame
      <3>2. Alone(u)
        BY <3>1 DEF Saw, Alone, IsLast, UseInv, PlaceInv, PlaceFits, TailPlaces,
           HookPlaces, LentPlaces
      <3> QED
        BY <1>2, <3>1, <3>2 DEF UseInv, AloneInv
    <2> QED
      BY <2>1 DEF SawInv
  <1>6. RoomInv' /\ ExactInv'
    BY <1>2, <1>3, CountsMove, AfterCall
       DEF UseInv, RoomInv, ExactInv, Moved, One, ClientTypes
  <1>7. GuardExclusive'
    BY <1>2, <1>3, OthersSame DEF UseInv, GuardExclusive
  <1> QED
    BY <1>4, <1>5, <1>6, <1>7 DEF EndedOk

LEMMA WordStepKeepsUse ==
  ASSUME UseInv, NEW t \in Threads, WordStep(t)
  PROVE  PlaceInv' /\ LendingInv' /\ EndedOk(t)
  <1>1. CASE Hidden(t)
    BY <1>1 DEF Hidden, clientVars, UseInv, EndedOk, PlaceInv, PlaceFits,
       LendingInv, Lent, AloneInv, Alone, Fresh, IsLast, Quiet, Counted, SawInv,
       Saw, RoomInv, Underway, ExactInv, GuardExclusive, HoldsGuard
  <1>2. CASE Ended(t)
    <2>1. PlaceInv' /\ LendingInv'
      BY <1>2 DEF Ended, clientVars, UseInv, PlaceInv, PlaceFits, LendingInv,
         Lent, WordInv, WordTypes
    <2> QED
      BY <1>2, <2>1, OtherCallEnds, IncrementEnds, DecrementEnds, LockEnds, ResetEnds
  <1> QED
    BY <1>1, <1>2, WordStepShape DEF UseInv

-----------------------------------------------------------------------------
(* A client that goes to place p, and what holds of it there.              *)
Went(t, p) ==
    /\ at' = [at EXCEPT ![t] = p]
    /\ call' = [call EXCEPT ![t] = IF p \in DOMAIN CallAt THEN CallAt[p] ELSE NoCall]
    /\ UNCHANGED word

LEMMA ProceedGoes ==
  ASSUME WordInv, NEW t \in Threads, NEW p, Proceed(t, p), call[t] = NoCall
  PROVE  /\ Went(t, p)
         /\ answer' = [answer EXCEPT ![t] = "none"]
  BY DEF Proceed, Went, WordInv, WordTypes

LEMMA AtNewPlace ==
  ASSUME WordInv, NEW t \in Threads, NEW p \in Places, Went(t, p)
  PROVE  /\ at'[t] = p
         /\ call'[t] # NoCall => p \in DOMAIN CallAt /\ call'[t] = CallAt[p]
         /\ t \in Counted' <=> p = "drop"
         /\ t \in Underway' <=> p \in {"first", "clone", "drop"}
         /\ HoldsGuard(t)' <=> p \in {"guard", "unlock"}
         /\ Saw(t)' <=> p = "reset"
         /\ Alone(t)' <=> \/ p \in {"create", "first"}
                          \/ t \notin borrows' /\ writer' # t /\ p \in TailPlaces
  <1>1. /\ at'[t] = p
        /\ call'[t] = IF p \in DOMAIN CallAt THEN CallAt[p] ELSE NoCall
    BY DEF Went, WordInv, WordTypes
  <1>2. \A q \in DOMAIN CallAt : CallAt[q] # NoCall
    BY CallAtIsOp
  <1>3. {"first", "clone", "drop", "lock", "unlock", "reset", "destroyed"}
          \subseteq DOMAIN CallAt
    BY DEF CallAt
  <1> QED
    BY <1>1, <1>2, <1>3 DEF Counted, Underway, HoldsGuard, Saw, Alone, Fresh,
       IsLast, TailPlaces, HookPlaces

(* What holds of a thread outside the word's calls, by its place.          *)
LEMMA OutOfCall ==
  ASSUME NEW t \in Threads, call[t] = NoCall
  PROVE  /\ t \in Counted <=> at[t] \in {"first", "clone"}
         /\ t \in Underway <=> at[t] \in {"first", "clone"}
         /\ HoldsGuard(t) <=> \/ at[t] = "lock" /\ answer[t] = "done"
                              \/ at[t] = "guard"
         /\ Alone(t) <=> \/ at[t] = "create"
                         \/ /\ t \notin borrows /\ writer # t
                            /\ \/ at[t] \in TailPlaces
                               \/ at[t] = "drop" /\ answer[t] = "zero"
  BY DEF Counted, Underway, HoldsGuard, Alone, Fresh, IsLast

(* A client's step that leaves the word alone.                             *)
UseOk == /\ PlaceInv' /\ LendingInv' /\ AloneInv' /\ SawInv' /\ RoomInv'
         /\ ExactInv' /\ GuardExclusive'

(* What a set loses to a number leaves their sum as it was.                *)
LEMMA SumStays ==
  ASSUME NEW A, NEW B, NEW before, NEW after, Moved(A, B, before, after),
         NEW n \in Nat, NEW m \in Nat, m + One(after) = n + One(before)
  PROVE  m + Cardinality(B) = n + Cardinality(A)
  BY DEF Moved, One

(* It keeps what is said of the word if t is counted where it was before,  *)
(* in retains or on its way.                                               *)
LEMMA ClientStepOk ==
  ASSUME UseInv, NEW t \in Threads, Others(t), UNCHANGED word,
         retains' \in Nat, PlaceFits(t)', LendingInv', AloneInv',
         Saw(t)' => Saw(t), HoldsGuard(t) <=> HoldsGuard(t)',
         retains' + One(t \in Counted') = retains + One(t \in Counted),
         \/ retains' + One(t \in Underway') = retains + One(t \in Underway)
         \/ RoomInv'
  PROVE  UseOk
  <1>1. PlaceInv'
    BY OthersSame DEF UseInv, PlaceInv
  <1>2. SawInv' /\ GuardExclusive'
    BY OthersSame DEF UseInv, SawInv, GuardExclusive
  <1>3. RoomInv' /\ ExactInv'
    <2>1. /\ Moved(Counted, Counted', t \in Counted, t \in Counted')
          /\ Moved(Underway, Underway', t \in Underway, t \in Underway')
          /\ retains \in Nat
      BY CountsMove DEF UseInv, ClientTypes
    <2>2. retains' + Cardinality(Counted') = retains + Cardinality(Counted)
      BY <2>1, SumStays
    <2>3. ExactInv'
      BY <2>2 DEF UseInv, ExactInv
    <2>4. RoomInv'
      <3>1. CASE retains' + One(t \in Underway') = retains + One(t \in Underway)
        <4>1. retains' + Cardinality(Underway') = retains + Cardinality(Underway)
          BY <2>1, <3>1, SumStays
        <4> QED
          BY <4>1 DEF UseInv, RoomInv
      <3> QED
        BY <3>1
    <2> QED
      BY <2>3, <2>4
  <1> QED
    BY <1>1, <1>2, <1>3 DEF UseOk

(* The beginning of an operation.                                          *)
LEMMA BeginShape ==
  ASSUME UseInv, NEW t \in Threads, Idle(t)
  PROVE  /\ call[t] = NoCall /\ t \notin borrows /\ writer # t /\ at[t] = "idle"
         /\ t \notin Counted /\ t \notin Underway /\ ~HoldsGuard(t) /\ ~Alone(t)
         /\ ~Saw(t)
  <1>1. call[t] = NoCall /\ at[t] = "idle"
    BY DEF UseInv, WordInv, CallFits, Idle, CallAt
  <1>2. t \notin borrows /\ writer # t
    BY <1>1 DEF UseInv, PlaceInv, PlaceFits, LentPlaces, HookPlaces
  <1> QED
    BY <1>1, <1>2, OutOfCall DEF Saw, TailPlaces, HookPlaces

LEMMA BeginPutOk ==
  ASSUME UseInv, NEW t \in Threads, BeginPut(t)
  PROVE  UseOk
  <1>1. /\ Went(t, "create") /\ answer' = [answer EXCEPT ![t] = "none"]
        /\ "create" \in Places
    BY BeginShape, ProceedGoes DEF BeginPut, GoTo, UseInv, Places, CallAt
  <1>2. /\ UNCHANGED <<word, retains, owning, sharing, borrows>>
        /\ free /\ ~free' /\ writer = NoThread /\ writer' = t
    BY <1>1 DEF BeginPut, GoTo, Went
  <1>3. Others(t)
    BY <1>1, <1>2 DEF Others, Went, UseInv, WordInv, WordTypes
  <1>4. /\ t \notin Counted' /\ t \notin Underway'
        /\ ~HoldsGuard(t)' /\ ~Saw(t)' /\ PlaceFits(t)'
    BY <1>1, <1>2, BeginShape, AtNewPlace DEF BeginPut, UseInv, PlaceFits, LentPlaces,
       HookPlaces
  <1>5. AloneInv'
    BY <1>2, <1>3, <1>4, AloneKeeps DEF UseInv, ClientTypes
  <1>6. LendingInv'
    BY <1>2 DEF UseInv, LendingInv, Lent
  <1> QED
    BY <1>2, <1>3, <1>4, <1>5, <1>6, BeginShape, ClientStepOk
       DEF BeginPut, UseInv, ClientTypes, One

LEMMA BeginFlushOk ==
  ASSUME UseInv, NEW t \in Threads, BeginFlush(t)
  PROVE  UseOk
  <1>1. /\ Went(t, "scan") /\ answer' = [answer EXCEPT ![t] = "none"]
        /\ "scan" \in Places
    BY BeginShape, ProceedGoes DEF BeginFlush, GoTo, UseInv, Places, CallAt
  <1>2. /\ UNCHANGED <<word, retains, owning, sharing, borrows, free>>
        /\ writer = NoThread /\ writer' = t
    BY <1>1 DEF BeginFlush, GoTo, Went
  <1>3. Others(t)
    BY <1>1, <1>2 DEF Others, Went, UseInv, WordInv, WordTypes
  <1>4. /\ t \notin Counted' /\ t \notin Underway' /\ ~Alone(t)'
        /\ ~HoldsGuard(t)' /\ ~Saw(t)' /\ PlaceFits(t)'
    BY <1>1, <1>2, BeginShape, AtNewPlace DEF BeginFlush, UseInv, PlaceFits,
       LentPlaces, HookPlaces, TailPlaces
  <1>5. AloneInv'
    BY <1>2, <1>3, <1>4, AloneKeeps DEF UseInv, ClientTypes, Quiet
  <1>6. LendingInv'
    BY <1>2 DEF UseInv, LendingInv, Lent
  <1> QED
    BY <1>2, <1>3, <1>4, <1>5, <1>6, BeginShape, ClientStepOk
       DEF BeginFlush, UseInv, ClientTypes, One

(* Room is made for the increment before it is made.                       *)
LEMMA BeginCloneOk ==
  ASSUME UseInv, NEW t \in Threads, BeginClone(t)
  PROVE  UseOk
  <1>1. /\ Went(t, "clone") /\ answer' = [answer EXCEPT ![t] = "none"]
        /\ "clone" \in Places
    BY BeginShape, ProceedGoes DEF BeginClone, Borrow, UseInv, Places, CallAt
  <1>2. /\ UNCHANGED <<word, retains, owning, sharing, free, writer>>
        /\ borrows' = borrows \cup {t} /\ retains > 0
    BY <1>1 DEF BeginClone, Borrow, Went
  <1>3. Others(t)
    BY <1>1, <1>2 DEF Others, Went, UseInv, WordInv, WordTypes
  <1>4. /\ t \notin Counted' /\ t \in Underway' /\ ~Alone(t)'
        /\ ~HoldsGuard(t)' /\ ~Saw(t)' /\ PlaceFits(t)'
    BY <1>1, <1>2, BeginShape, AtNewPlace DEF BeginClone, UseInv, PlaceFits,
       LentPlaces, HookPlaces, TailPlaces
  <1>5. AloneInv'
    BY <1>2, <1>3, <1>4, AloneKeeps DEF UseInv, ClientTypes, Quiet
  <1>6. LendingInv'
    BY <1>2 DEF UseInv, LendingInv, Lent, ClientTypes
  <1>7. RoomInv'
    BY <1>2, <1>3, <1>4, BeginShape, CountsMove
       DEF BeginClone, RoomInv, Moved, One, UseInv, ClientTypes
  <1> QED
    BY <1>2, <1>3, <1>4, <1>5, <1>6, <1>7, BeginShape, ClientStepOk
       DEF BeginClone, UseInv, ClientTypes, One

LEMMA BeginDropOk ==
  ASSUME UseInv, NEW t \in Threads, BeginDrop(t)
  PROVE  UseOk
  <1>1. /\ Went(t, "drop") /\ answer' = [answer EXCEPT ![t] = "none"]
        /\ "drop" \in Places
    BY BeginShape, ProceedGoes DEF BeginDrop, GoTo, UseInv, Places, CallAt
  <1>2. /\ UNCHANGED <<word, owning, sharing, free, writer, borrows>>
        /\ retains' = retains - 1 /\ retains > Lent /\ Lent \in 0 .. 1
    BY <1>1 DEF BeginDrop, GoTo, Went, Lent
  <1>3. Others(t)
    BY <1>1, <1>2 DEF Others, Went, UseInv, WordInv, WordTypes
  <1>4. /\ t \in Counted' /\ t \in Underway' /\ ~Alone(t)'
        /\ ~HoldsGuard(t)' /\ ~Saw(t)' /\ PlaceFits(t)'
    BY <1>1, <1>2, BeginShape, AtNewPlace DEF BeginDrop, UseInv, PlaceFits,
       LentPlaces, HookPlaces, TailPlaces
  <1>5. AloneInv'
    <2>1. ~Quiet /\ ~free
      BY <1>2 DEF Quiet, UseInv, AloneInv
    <2> QED
      BY <1>2, <1>3, <1>4, <2>1, AloneKeeps DEF UseInv, ClientTypes
  <1>6. LendingInv'
    BY <1>2 DEF UseInv, LendingInv, Lent, ClientTypes
  <1> QED
    BY <1>2, <1>3, <1>4, <1>5, <1>6, BeginShape, ClientStepOk
       DEF BeginDrop, UseInv, ClientTypes, One

(* The operations that borrow a Retain and change no count of Retains.     *)
LEMMA BeginBorrowOk ==
  ASSUME UseInv, NEW t \in Threads,
         \/ BeginBorrow(t) \/ BeginCloneShare(t)
         \/ BeginEndOwn(t) \/ BeginEndShare(t)
  PROVE  UseOk
  <1> DEFINE P == {"own", "lock", "share", "bump", "endOwn", "dip"}
  <1>0. Idle(t)
    BY DEF BeginBorrow, BeginCloneShare, BeginEndOwn, BeginEndShare
  <1>1. PICK p \in P : Borrow(t, p)
    BY DEF BeginBorrow, BeginCloneShare, BeginEndOwn, BeginEndShare
  <1>2. /\ Went(t, p) /\ answer' = [answer EXCEPT ![t] = "none"]
        /\ p \in Places /\ p \in LentPlaces
    <2>1. p \in Places /\ p \in LentPlaces
      BY DEF Places, CallAt, LentPlaces
    <2> QED
      BY <1>0, <1>1, <2>1, BeginShape, ProceedGoes DEF Borrow, UseInv
  <1>3. /\ UNCHANGED <<word, retains, free, writer>>
        /\ borrows' = borrows \cup {t} /\ retains > 0
    <2>1. owning + sharing > 0 => retains > 0
      BY BorrowedIsLive DEF UseInv
    <2>2. owning > 0 \/ sharing > 0 => owning + sharing > 0
      BY DEF UseInv, ClientTypes
    <2> QED
      BY <1>1, <1>2, <2>1, <2>2 DEF BeginBorrow, BeginCloneShare, BeginEndOwn,
         BeginEndShare, Borrow, Went
  <1>4. Others(t)
    BY <1>2, <1>3 DEF Others, Went, UseInv, WordInv, WordTypes
  <1>5. /\ t \notin Counted' /\ t \notin Underway' /\ ~Alone(t)'
        /\ ~HoldsGuard(t)' /\ ~Saw(t)' /\ PlaceFits(t)'
    BY <1>0, <1>2, <1>3, BeginShape, AtNewPlace DEF UseInv, PlaceFits,
       LentPlaces, HookPlaces, TailPlaces
  <1>6. AloneInv'
    BY <1>3, <1>4, <1>5, AloneKeeps DEF UseInv, ClientTypes, Quiet
  <1>7. LendingInv'
    BY <1>3 DEF UseInv, LendingInv, Lent, ClientTypes
  <1> QED
    BY <1>0, <1>3, <1>4, <1>5, <1>6, <1>7, BeginShape, ClientStepOk
       DEF UseInv, ClientTypes, One

LEMMA LeakOk ==
  ASSUME UseInv, NEW t \in Threads, Leak(t)
  PROVE  UseOk
  <1>1. LendingInv'
    BY DEF Leak, UseInv, LendingInv, Lent, ClientTypes
  <1> QED
    BY <1>1 DEF Leak, wordVars, UseOk, UseInv, PlaceInv, PlaceFits, AloneInv, Alone,
       Fresh, IsLast, Quiet, Counted, SawInv, Saw, RoomInv, Underway, ExactInv,
       GuardExclusive, HoldsGuard

LEMMA UnlockOk ==
  ASSUME UseInv, NEW t \in Threads, Unlock(t)
  PROVE  UseOk
  <1>0. call[t] = NoCall /\ at[t] = "guard"
    BY DEF Unlock, UseInv, WordInv, CallFits, CallAt
  <1>1. /\ Went(t, "unlock") /\ answer' = [answer EXCEPT ![t] = "none"]
        /\ "unlock" \in Places
    BY <1>0, ProceedGoes DEF Unlock, GoTo, UseInv, Places, CallAt
  <1>2. UNCHANGED <<word, retains, owning, sharing, free, writer, borrows>>
    BY <1>1 DEF Unlock, GoTo, Went
  <1>3. Others(t)
    BY <1>1, <1>2 DEF Others, Went, UseInv, WordInv, WordTypes
  <1>4. /\ t \notin Counted /\ t \notin Underway /\ HoldsGuard(t)
        /\ t \in borrows /\ writer # t
    BY <1>0, OutOfCall DEF UseInv, PlaceInv, PlaceFits, LentPlaces
  <1>5. /\ t \notin Counted' /\ t \notin Underway' /\ ~Alone(t)'
        /\ HoldsGuard(t)' /\ ~Saw(t)' /\ PlaceFits(t)'
    BY <1>1, <1>2, <1>4, AtNewPlace DEF UseInv, PlaceFits,
       LentPlaces, HookPlaces, TailPlaces
  <1>6. AloneInv'
    BY <1>2, <1>3, <1>5, AloneKeeps DEF UseInv, ClientTypes, Quiet
  <1>7. LendingInv'
    BY <1>2 DEF UseInv, LendingInv, Lent, ClientTypes
  <1> QED
    BY <1>2, <1>3, <1>4, <1>5, <1>6, <1>7, ClientStepOk
       DEF UseInv, ClientTypes, One

LEMMA CancelOk ==
  ASSUME UseInv, NEW t \in Threads, Cancel(t)
  PROVE  UseOk
  BY DEF Cancel, clientVars, UseOk, UseInv, LendingInv, Lent, PlaceInv, PlaceFits,
     AloneInv, Alone, Fresh, IsLast, Quiet, Counted, SawInv, Saw, RoomInv,
     Underway, ExactInv, GuardExclusive, HoldsGuard

(* The steps of a view: the strong count, under a borrowed Retain.         *)
LEMMA BumpDipOk ==
  ASSUME UseInv, NEW t \in Threads, Bump(t) \/ Dip(t)
  PROVE  UseOk
  <1>0. call[t] = NoCall /\ at[t] \in {"bump", "dip"}
    BY DEF Bump, Dip, UseInv, WordInv, CallFits, CallAt
  <1>1. PICK p \in {"idle", "endShare"} : GoTo(t, p) /\ (at[t] = "bump" => p = "idle")
    BY DEF Bump, Dip
  <1>2. /\ Went(t, p) /\ answer' = [answer EXCEPT ![t] = "none"] /\ p \in Places
    <2>1. p \in Places
      BY DEF Places, CallAt
    <2> QED
      BY <1>0, <1>1, <2>1, ProceedGoes DEF GoTo, UseInv
  <1>3. /\ UNCHANGED <<word, retains, owning, free, writer>>
        /\ borrows' = IF p = "idle" THEN borrows \ {t} ELSE borrows
    BY <1>1, <1>2 DEF Bump, Dip, GoTo, Went
  <1>4. Others(t)
    BY <1>2, <1>3 DEF Others, Went, UseInv, WordInv, WordTypes
  <1>5. /\ t \notin Counted /\ t \notin Underway /\ ~HoldsGuard(t)
        /\ t \in borrows /\ writer # t
    BY <1>0, OutOfCall DEF UseInv, PlaceInv, PlaceFits, LentPlaces
  <1>6. /\ t \notin Counted' /\ t \notin Underway' /\ ~Alone(t)'
        /\ ~HoldsGuard(t)' /\ ~Saw(t)' /\ PlaceFits(t)'
    BY <1>2, <1>3, <1>5, AtNewPlace DEF UseInv, PlaceFits,
       LentPlaces, HookPlaces, TailPlaces
  <1>7. AloneInv'
    BY <1>3, <1>4, <1>6, AloneKeeps DEF UseInv, ClientTypes, Quiet
  <1>8. LendingInv'
    BY <1>3, <1>5, BorrowedIsLive DEF UseInv, LendingInv, Lent, ClientTypes
  <1> QED
    BY <1>3, <1>4, <1>5, <1>6, <1>7, <1>8, ClientStepOk
       DEF UseInv, ClientTypes, One

-----------------------------------------------------------------------------
(* Where the client's code goes with an answer.                            *)
LEMMA NextPlaceShape ==
  ASSUME UseInv, NEW t \in Threads, Answered(t)
  PROVE  LET p == at[t]
             q == NextPlace(t)
         IN  /\ q \in Places
             /\ p = "create" <=> q = "first"
             /\ q = "guard" <=> p = "lock" /\ answer[t] = "done"
             /\ p \in TailPlaces => q \in TailPlaces \cup {"idle"}
             /\ p = "drop" => q \in {"idle"} \cup
                                (IF answer[t] = "zero" THEN {"unheld"} ELSE {})
             /\ p \in {"own", "share", "join", "lock", "endOwn", "endShare"} =>
                  q \in LentPlaces \cup {"unheld", "idle"}
             /\ p = "scan" => q \in {"claim", "idle"}
             /\ p \in {"first", "clone", "unlock", "reset"} => q = "idle"
             /\ q = "reset" => p = "destroyed" /\ answer[t] = "Destroyed"
             /\ q \in {"dead", "destroyed", "reset"} => t \notin borrows /\ writer # t
             /\ p \in {"claim", "mark"} => q \in {"mark", "dead", "idle"}
             /\ q \in {"clone", "drop", "create", "scan", "unlock"} => FALSE
  <1>1. /\ at[t] \in DOMAIN CallAt
        /\ t \in borrows => at[t] \notin {"dead", "destroyed", "reset"}
        /\ writer = t => at[t] \notin {"dead", "destroyed", "reset"}
    BY DEF Answered, UseInv, PlaceInv, PlaceFits, LentPlaces, HookPlaces
  <1>2. NextPlace(t) \in Places
    BY FollowType DEF NextPlace, Places
  <1> USE DEF NextPlace, Follow, TailPlaces, HookPlaces, LentPlaces
  <1>3. CASE at[t] \in {"create", "first", "clone", "unlock", "reset"}
    BY <1>1, <1>2, <1>3
  <1>4. CASE at[t] \in {"drop", "unheld", "created"}
    BY <1>1, <1>2, <1>4
  <1>5. CASE at[t] \in {"claim", "mark", "dead", "destroyed", "scan"}
    BY <1>1, <1>2, <1>5
  <1>6. CASE at[t] \in {"own", "endOwn", "share", "join", "endShare", "lock"}
    BY <1>1, <1>2, <1>6
  <1> QED
    BY <1>1, <1>3, <1>4, <1>5, <1>6 DEF CallAt

LEMMA ResumeOk ==
  ASSUME UseInv, NEW t \in Threads, Resume(t)
  PROVE  UseOk
  <1> DEFINE p == at[t]
             q == NextPlace(t)
  <1>0. call[t] = NoCall /\ p \in DOMAIN CallAt /\ Answered(t) /\ q \in Places
    BY NextPlaceShape DEF Resume, Answered
  <1>1. Went(t, q) /\ answer' = [answer EXCEPT ![t] = "none"]
    BY <1>0, ProceedGoes DEF Resume, GoTo, UseInv
  <1>2. /\ UNCHANGED <<word, sharing>>
        /\ borrows' = IF q = "idle" THEN borrows \ {t} ELSE borrows
        /\ retains' = IF p \in {"first", "clone"} THEN retains + 1 ELSE retains
        /\ owning' = IF p = "own" /\ answer[t] = "done" THEN owning + 1 ELSE owning
        /\ writer' = IF writer = t /\ q = "idle" THEN NoThread ELSE writer
        /\ free' = (free \/ p = "reset")
    BY <1>1 DEF Resume, GoTo, Went
  <1>3. Others(t)
    BY <1>1, <1>2 DEF Others, Went, UseInv, WordInv, WordTypes
  <1>4. PlaceFits(t)
    BY DEF UseInv, PlaceInv
  <1>5. /\ t \in Counted <=> p \in {"first", "clone"}
        /\ t \in Underway <=> p \in {"first", "clone"}
        /\ HoldsGuard(t) <=> p = "lock" /\ answer[t] = "done"
        /\ Alone(t) <=> \/ p = "create"
                        \/ /\ t \notin borrows /\ writer # t
                           /\ \/ p \in TailPlaces
                              \/ p = "drop" /\ answer[t] = "zero"
    <2>1. p # "guard"
      BY <1>0 DEF CallAt
    <2> QED
      BY <1>0, <2>1, OutOfCall
  <1>6. /\ p = "create" <=> q = "first"
        /\ q = "guard" <=> p = "lock" /\ answer[t] = "done"
        /\ p \in TailPlaces => q \in TailPlaces \cup {"idle"}
        /\ p = "drop" => q \in {"idle"} \cup
                           (IF answer[t] = "zero" THEN {"unheld"} ELSE {})
        /\ p \in {"own", "share", "join", "lock", "endOwn", "endShare"} =>
             q \in LentPlaces \cup {"unheld", "idle"}
        /\ p = "scan" => q \in {"claim", "idle"}
        /\ p \in {"first", "clone", "unlock", "reset"} => q = "idle"
        /\ q = "reset" => p = "destroyed" /\ answer[t] = "Destroyed"
        /\ q \in {"dead", "destroyed", "reset"} => t \notin borrows /\ writer # t
        /\ p \in {"claim", "mark"} => q \in {"mark", "dead", "idle"}
        /\ q \notin {"clone", "drop", "create", "scan", "unlock"}
    BY <1>0, NextPlaceShape
  <1>7. p \in {"create", "first", "clone", "drop", "scan", "own", "share", "join",
               "lock", "endOwn", "endShare", "unlock"} \cup TailPlaces
    BY <1>0 DEF CallAt, TailPlaces, HookPlaces
  <1>8. /\ t \notin Counted'
        /\ t \in Underway' <=> p = "create"
        /\ HoldsGuard(t)' <=> HoldsGuard(t)
        /\ Saw(t)' <=> q = "reset"
        /\ Alone(t)' <=> \/ p = "create"
                         \/ t \notin borrows' /\ writer' # t /\ q \in TailPlaces
        /\ at'[t] = q
        /\ call'[t] # NoCall => q \in DOMAIN CallAt /\ call'[t] = CallAt[q]
    BY <1>0, <1>1, <1>5, <1>6, AtNewPlace DEF UseInv
  <1> HIDE DEF p, q
  <1>9. PlaceFits(t)'
    BY <1>2, <1>4, <1>6, <1>7, <1>8
       DEF p, PlaceFits, LentPlaces, HookPlaces, TailPlaces, UseInv
  <1>10. LendingInv'
    BY <1>2, <1>4, <1>6, BorrowedIsLive
       DEF p, LendingInv, Lent, UseInv, ClientTypes, PlaceFits, LentPlaces
  <1>11. (Alone(t)' => Alone(t)) /\ (Saw(t)' => Saw(t))
    <2>1. Alone(t)' => Alone(t)
      BY <1>2, <1>4, <1>5, <1>6, <1>7, <1>8
         DEF p, PlaceFits, LentPlaces, HookPlaces, TailPlaces
    <2>2. Saw(t)' => Saw(t)
      BY <1>0, <1>6, <1>8 DEF p, Saw
    <2> QED
      BY <2>1, <2>2
  <1>12. AloneInv'
    <2>1. CASE p \in {"first", "clone"}
      <3>1. t \in Counted /\ ~Quiet /\ ~free
        BY <1>5, <2>1 DEF Quiet, UseInv, AloneInv
      <3>2. ~Alone(t)'
        BY <1>6, <1>8, <2>1 DEF TailPlaces, HookPlaces
      <3> QED
        BY <1>2, <1>3, <2>1, <3>1, <3>2, AloneKeeps DEF UseInv, ClientTypes
    <2>2. CASE p = "reset"
      <3>1. Alone(t) /\ ~Alone(t)'
        BY <1>4, <1>5, <1>6, <1>8, <2>2
           DEF p, PlaceFits, LentPlaces, HookPlaces, TailPlaces
      <3> QED
        BY <1>2, <1>3, <1>8, <2>2, <3>1, AloneKeeps DEF UseInv, ClientTypes
    <2>3. CASE p \notin {"first", "clone", "reset"}
      BY <1>2, <1>3, <1>8, <1>11, <2>3, AloneKeeps DEF UseInv, ClientTypes, Quiet
    <2> QED
      BY <2>1, <2>2, <2>3
  <1>13. retains' \in Nat /\ retains' + One(t \in Counted') = retains + One(t \in Counted)
    BY <1>2, <1>5, <1>8 DEF One, UseInv, ClientTypes
  <1>14. \/ retains' + One(t \in Underway') = retains + One(t \in Underway)
         \/ RoomInv'
    <2>1. CASE p # "create"
      BY <1>2, <1>5, <1>8, <2>1 DEF One, UseInv, ClientTypes
    <2>2. CASE p = "create"
      <3>1. Alone(t) /\ Quiet /\ borrows = {} /\ retains' = 0
        BY <1>2, <1>5, <2>2, BorrowedIsLive DEF UseInv, AloneInv, Quiet
      <3>2. ASSUME NEW u \in Threads, u # t PROVE u \notin Underway
        <4>1. at[u] # "clone"
          BY <3>1 DEF UseInv, PlaceInv, PlaceFits, LentPlaces
        <4>2. ~(at[u] = "drop" /\ call[u] # NoCall) /\ ~(at[u] = "first" /\ call[u] = NoCall)
          BY <3>1 DEF Quiet, Counted
        <4>3. ~(at[u] = "first" /\ call[u] # NoCall)
          BY <3>1, <3>2 DEF UseInv, AloneInv, Alone, Fresh
        <4> QED
          BY <4>1, <4>2, <4>3 DEF Underway
      <3>3. Underway' = {t}
        <4>1. \A u \in Threads : u \in Underway' => u = t
          BY <1>3, <3>2, OthersSame
        <4>2. Underway' \subseteq Threads /\ t \in Underway'
          BY <1>8, <2>2 DEF Underway
        <4> QED
          BY <4>1, <4>2
      <3>4. Cardinality(Underway') = 1
        BY <3>3, FS_Singleton
      <3> QED
        BY <3>1, <3>4 DEF RoomInv
    <2> QED
      BY <2>1, <2>2
  <1> QED
    BY <1>2, <1>3, <1>8, <1>9, <1>10, <1>11, <1>12, <1>13, <1>14, ClientStepOk

-----------------------------------------------------------------------------
LEMMA UseStep == UseInv /\ [Next]_vars => UseInv'
  <1> SUFFICES ASSUME UseInv, [Next]_vars PROVE UseInv'
    OBVIOUS
  <1>1. WordInv' /\ ClientTypes'
    BY StepKeeps, ClientKeeps DEF UseInv
  <1>2. UseOk
    <2>1. CASE UNCHANGED vars
      BY <2>1 DEF vars, wordVars, clientVars, UseOk, UseInv, PlaceInv, PlaceFits,
         LendingInv, Lent, AloneInv, Alone, Fresh, IsLast, Quiet, Counted, SawInv,
         Saw, RoomInv, Underway, ExactInv, GuardExclusive, HoldsGuard
    <2>2. ASSUME NEW t \in Threads, Begin(t)
          PROVE  UseOk
      BY <2>2, BeginPutOk, BeginCloneOk, BeginDropOk, BeginBorrowOk, LeakOk,
         BeginFlushOk, UnlockOk DEF Begin
    <2>3. ASSUME NEW t \in Threads, Continue(t)
          PROVE  UseOk
      BY <2>3, WordStepKeepsUse, BumpDipOk, ResumeOk DEF Continue, EndedOk, UseOk
    <2> QED
      BY <2>1, <2>2, <2>3, CancelOk DEF Next
  <1> QED
    BY <1>1, <1>2 DEF UseInv, UseOk

LEMMA UseInit == Init => UseInv
  <1> SUFFICES ASSUME Init PROVE UseInv
    OBVIOUS
  <1>1. WordInv /\ ClientTypes
    BY InitFits DEF Init, ClientTypes
  <1>2. \A t \in Threads : /\ at[t] = "idle" /\ call[t] = NoCall
                           /\ t \notin borrows /\ writer # t
    BY DEF Init
  <1>3. Counted = {} /\ Underway = {} /\ Cardinality({}) = 0
    BY <1>2, FS_EmptySet DEF Counted, Underway
  <1>4. PlaceInv
    BY <1>2 DEF PlaceInv, PlaceFits, LentPlaces
  <1>5. AloneInv
    BY <1>2, <1>3 DEF Init, AloneInv, Quiet, Alone, Fresh, IsLast, TailPlaces,
       HookPlaces
  <1>6. SawInv /\ GuardExclusive
    BY <1>2 DEF Init, EmptyWord, SawInv, Saw, GuardExclusive, HoldsGuard
  <1>7. LendingInv
    BY DEF Init, LendingInv, Lent
  <1>8. RoomInv /\ ExactInv
    BY <1>3 DEF Init, EmptyWord, RoomInv, ExactInv
  <1> QED
    BY <1>1, <1>4, <1>5, <1>6, <1>7, <1>8 DEF UseInv

LEMMA UseAlways == Spec => []UseInv
  BY UseInit, UseStep, PTL DEF Spec

(* The lock bit is set exactly while one guard is alive, for any number of *)
(* threads: no transition or count of another one, and no return of the    *)
(* slot, clears the bit under a guard.                                     *)
THEOREM GuardIsExclusive == Spec => []GuardExclusive
  <1>1. UseInv => GuardExclusive
    BY DEF UseInv
  <1> QED
    BY <1>1, UseAlways, PTL

(* The weak count is that of the Retains, for any width of the count that  *)
(* has room for them, and the store of the empty word loses no update.     *)
THEOREM WeakCountExact == Spec => []CountIsExact
  <1>1. UseInv => CountIsExact
    <2> SUFFICES ASSUME UseInv PROVE CountIsExact
      OBVIOUS
    <2>1. ASSUME NEW t \in Threads, pc[t] = "store"
          PROVE  word = [locked |-> FALSE, state |-> "Destroyed", count |-> 0]
      <3>1. call[t] = "reset" /\ call[t] # NoCall
        BY <2>1 DEF UseInv, WordInv, CallFits, Ops
      <3>2. at[t] = "reset"
        BY <3>1, InCall DEF UseInv, CallAt
      <3> QED
        BY <3>1, <3>2, StoreMeetsQuiet
    <2> QED
      BY <2>1 DEF CountIsExact, UseInv, ExactInv
  <1> QED
    BY <1>1, UseAlways, PTL

-----------------------------------------------------------------------------
(* The strong count has its own bits: below the flags there is room for    *)
(* every view, for those that come and for those that go.                  *)
Dipping == {t \in Threads : at[t] = "dip"}
Joining == {t \in Threads : at[t] \in {"share", "join", "bump"}}
Shares  == sharing + leaked + Cardinality(Dipping)
StrongInv == /\ refc = flags * StrongMod + Shares
             /\ Shares + Cardinality(Joining) <= MaxStrong

(* Reading the two fields of a word, and counting modulo more than one has.*)
LEMMA Fields ==
  ASSUME NEW m \in Nat \ {0}, NEW q \in 0 .. 3, NEW r \in 0 .. m - 1
  PROVE  (q * m + r) % m = r /\ (q * m + r) \div m = q
  <1>1. r % m = r /\ r \div m = 0
    OBVIOUS
  <1>2. (m + r) % m = r /\ (m + r) \div m = 1
    OBVIOUS
  <1>3. (2 * m + r) % m = r /\ (2 * m + r) \div m = 2
    OBVIOUS
  <1>4. (3 * m + r) % m = r /\ (3 * m + r) \div m = 3
    OBVIOUS
  <1>5. q = 0 \/ q = 1 \/ q = 2 \/ q = 3
    OBVIOUS
  <1> QED
    BY <1>1, <1>2, <1>3, <1>4, <1>5

(* So the strong count reads as the number of views while the invariant    *)
(* holds, and an addition or a subtraction of one stays within its bits.   *)
LEMMA StrongFits ==
  ASSUME StrongInv, ClientTypes
  PROVE  /\ StrongCount = Shares /\ refc \div StrongMod = flags
         /\ Cardinality(Dipping) \in Nat /\ Cardinality(Joining) \in Nat
         /\ Shares \in 0 .. StrongMod - 1
         /\ Shares < MaxStrong => (AddToRefc(1) <=> refc' = refc + 1)
         /\ Shares > 0 => (AddToRefc(4 * StrongMod - 1) <=> refc' = refc - 1)
  <1>1. IsFiniteSet(Dipping) /\ IsFiniteSet(Joining)
    BY FS_Subset DEF Dipping, Joining
  <1>2. Cardinality(Dipping) \in Nat /\ Cardinality(Joining) \in Nat
    BY <1>1, FS_CardinalityType
  <1>3. Shares \in 0 .. StrongMod - 1 /\ Shares <= MaxStrong
    BY <1>2 DEF Shares, StrongInv, ClientTypes
  <1>4. StrongCount = Shares /\ refc \div StrongMod = flags
    BY <1>3, Fields DEF StrongInv, StrongCount, ClientTypes
  <1>5. /\ refc \in 0 .. 4 * StrongMod - 1
        /\ Shares < MaxStrong => refc + 1 \in 0 .. 4 * StrongMod - 1
        /\ Shares > 0 => refc >= 1
    <2>1. PICK k \in 0 .. 3 * StrongMod : k = flags * StrongMod
      <3>1. flags = 0 \/ flags = 1 \/ flags = 2 \/ flags = 3
        BY DEF ClientTypes
      <3> QED
        BY <3>1
    <2>2. refc = k + Shares
      BY <2>1 DEF StrongInv
    <2> QED
      BY <1>3, <2>2
  <1>6. ASSUME NEW m \in Nat \ {0}, NEW r \in 0 .. m - 1
        PROVE  /\ r % m = r
               /\ r >= 1 => (r + (m - 1)) % m = r - 1
    <2>1. r % m = r
      OBVIOUS
    <2>2. ASSUME r >= 1 PROVE (r + (m - 1)) % m = r - 1
      <3>1. r - 1 \in 0 .. m - 1 /\ r + (m - 1) = 1 * m + (r - 1)
        BY <2>2
      <3>2. (1 * m + (r - 1)) % m = r - 1
        BY <3>1, Fields
      <3> QED
        BY <3>1, <3>2
    <2> QED
      BY <2>1, <2>2
  <1>7. PICK m \in Nat \ {0} : m = 4 * StrongMod
    OBVIOUS
  <1>8. Shares < MaxStrong => (refc + 1) % (4 * StrongMod) = refc + 1
    <2>1. Shares < MaxStrong => refc + 1 \in 0 .. m - 1
      BY <1>5, <1>7
    <2>2. Shares < MaxStrong => (refc + 1) % m = refc + 1
      BY <1>6, <2>1
    <2> QED
      BY <1>7, <2>2
  <1>9. Shares > 0 => (refc + (4 * StrongMod - 1)) % (4 * StrongMod) = refc - 1
    <2>1. refc \in 0 .. m - 1
      BY <1>5, <1>7
    <2>2. Shares > 0 => (refc + (m - 1)) % m = refc - 1
      BY <1>5, <1>6, <2>1
    <2> QED
      BY <1>7, <2>2
  <1> QED
    BY <1>2, <1>3, <1>4, <1>8, <1>9 DEF AddToRefc

-----------------------------------------------------------------------------
(* Who comes and who goes, by the place.                                   *)
LEMMA SharesMove ==
  ASSUME NEW t \in Threads, Others(t)
  PROVE  /\ Moved(Dipping, Dipping', at[t] = "dip", at'[t] = "dip")
         /\ Moved(Joining, Joining', at[t] \in {"share", "join", "bump"},
                  at'[t] \in {"share", "join", "bump"})
  <1>1. \A u \in Threads \ {t} : /\ u \in Dipping <=> u \in Dipping'
                                 /\ u \in Joining <=> u \in Joining'
    BY DEF Others, Dipping, Joining
  <1>2. Moved(Dipping, Dipping', t \in Dipping, t \in Dipping')
    BY <1>1, CardMoves DEF Dipping
  <1>3. Moved(Joining, Joining', t \in Joining, t \in Joining')
    BY <1>1, CardMoves DEF Joining
  <1> QED
    BY <1>2, <1>3 DEF Moved, One, Dipping, Joining

(* The strong word changes with the sum of the views and of those that go; *)
(* those that come were in the sum already.                                *)
LEMMA StrongKeeps ==
  ASSUME StrongInv, ClientTypes, NEW t \in Threads, Others(t),
         flags' = flags, ClientTypes',
         NEW d, NEW d2, NEW j, NEW j2,
         d = One(at[t] = "dip"), d2 = One(at'[t] = "dip"),
         j = One(at[t] \in {"share", "join", "bump"}),
         j2 = One(at'[t] \in {"share", "join", "bump"}),
         refc' + sharing + leaked + d = refc + sharing' + leaked' + d2,
         \/ sharing' + leaked' + d2 + j2 <= sharing + leaked + d + j
         \/ /\ sharing' + leaked' + d2 + j2 <= sharing + leaked + d + j + 1
            /\ MayJoin
  PROVE  StrongInv'
  <1>1. /\ Cardinality(Dipping) \in Nat /\ Cardinality(Joining) \in Nat
        /\ Cardinality(Dipping') = Cardinality(Dipping) - d + d2
        /\ Cardinality(Joining') = Cardinality(Joining) - j + j2
        /\ Cardinality(Dipping') \in Nat /\ Cardinality(Joining') \in Nat
    BY SharesMove DEF Moved
  <1>2. d \in 0 .. 1 /\ d2 \in 0 .. 1 /\ j \in 0 .. 1 /\ j2 \in 0 .. 1
    BY DEF One
  <1>3. MayJoin <=> Shares + Cardinality(Joining) < MaxStrong
    BY StrongFits DEF MayJoin, Joining
  <1>4. PICK k : k = flags * StrongMod
    OBVIOUS
  <1>5. refc = k + Shares /\ Shares + Cardinality(Joining) <= MaxStrong /\ k \in Nat
    <2>1. flags * StrongMod \in Nat
      BY DEF ClientTypes
    <2> QED
      BY <1>4, <2>1 DEF StrongInv
  <1>6. /\ refc \in Nat /\ sharing \in Nat /\ leaked \in Nat
        /\ refc' \in Nat /\ sharing' \in Nat /\ leaked' \in Nat
    BY DEF ClientTypes
  <1>7. refc' = k + (sharing' + leaked' + Cardinality(Dipping'))
    <2>1. refc = k + (sharing + leaked + Cardinality(Dipping))
      BY <1>5 DEF Shares
    <2>2. refc' = refc + sharing' + leaked' + d2 - (sharing + leaked + d)
      BY <1>2, <1>6
    <2> QED
      BY <1>1, <1>2, <1>5, <1>6, <2>1, <2>2
  <1>8. Shares' + Cardinality(Joining') <= MaxStrong
    BY <1>1, <1>2, <1>3, <1>5, <1>6 DEF Shares
  <1> QED
    BY <1>4, <1>7, <1>8 DEF StrongInv, Shares

LEMMA OthersStay ==
  ASSUME UseInv, NEW t \in Threads, Begin(t) \/ Continue(t)
  PROVE  Others(t)
  <1>1. at \in [Threads -> Places] /\ call \in [Threads -> Ops \cup {NoCall}]
        /\ answer \in [Threads -> Answers]
    BY DEF UseInv, WordInv, WordTypes
  <1>2. ASSUME NEW p, Proceed(t, p)
        PROVE  \A u \in Threads \ {t} : /\ at'[u] = at[u] /\ call'[u] = call[u]
                                        /\ answer'[u] = answer[u]
    BY <1>1, <1>2 DEF Proceed
  <1>3. CASE WordStep(t)
    <2>1. CASE Hidden(t)
      BY <2>1 DEF Hidden, clientVars, Others
    <2> QED
      BY <1>3, <2>1, WordStepShape, AfterCall DEF UseInv
  <1>4. CASE Begin(t) /\ ~Leak(t)
    <2>1. PICK p : Proceed(t, p)
      BY <1>4 DEF Begin, BeginPut, BeginClone, BeginDrop, BeginBorrow,
         BeginCloneShare, BeginEndOwn, BeginEndShare, BeginFlush, Unlock,
         GoTo, Borrow
    <2>2. \A u \in Threads \ {t} : /\ u \in borrows' <=> u \in borrows
                                   /\ writer' = u <=> writer = u
      BY <1>4 DEF Begin, BeginPut, BeginClone, BeginDrop, BeginBorrow,
         BeginCloneShare, BeginEndOwn, BeginEndShare, BeginFlush, Unlock,
         GoTo, Borrow
    <2> QED
      BY <1>2, <2>1, <2>2 DEF Others
  <1>5. CASE Leak(t)
    BY <1>5 DEF Leak, wordVars, Others
  <1>6. CASE Bump(t) \/ Dip(t) \/ Resume(t)
    <2>1. PICK p : Proceed(t, p)
      BY <1>6 DEF Bump, Dip, Resume, GoTo
    <2>2. \A u \in Threads \ {t} : /\ u \in borrows' <=> u \in borrows
                                   /\ writer' = u <=> writer = u
      BY <1>6 DEF Bump, Dip, Resume, GoTo
    <2> QED
      BY <1>2, <2>1, <2>2 DEF Others
  <1> QED
    BY <1>3, <1>4, <1>5, <1>6 DEF Continue

(* Where a client goes, in terms of the place alone.                       *)
LEMMA GoesTo ==
  ASSUME UseInv, NEW t \in Threads, NEW p, Proceed(t, p)
  PROVE  at'[t] = p
  BY DEF Proceed, UseInv, WordInv, WordTypes

LEMMA StrongStep ==
  ASSUME UseInv, StrongInv, [Next]_vars
  PROVE  StrongInv'
  <1> USE DEF One
  <1>0. ClientTypes'
    BY ClientKeeps DEF UseInv
  <1>1. CASE UNCHANGED vars
    BY <1>1 DEF vars, clientVars, chunkVars, StrongInv, Shares, Dipping, Joining
  <1>2. ASSUME NEW t \in Threads, WordStep(t) \/ Cancel(t)
        PROVE  StrongInv'
    BY <1>2, WordStepShape DEF Cancel, Hidden, Ended, UseInv, clientVars, chunkVars,
       StrongInv, Shares, Dipping, Joining
  <1>3. ASSUME NEW t \in Threads, BeginPut(t)
        PROVE  StrongInv'
    <2>1. sharing' = 0 /\ leaked' = 0 /\ borrows = {}
      <3>1. borrows = {} /\ ~(owning + sharing > 0)
        BY <1>3, BorrowedIsLive DEF BeginPut, UseInv
      <3> QED
        BY <1>3, <3>1 DEF BeginPut, UseInv, ClientTypes
    <2>2. \A u \in Threads : at'[u] \notin LentPlaces
      <3>1. at' = [at EXCEPT ![t] = "create"]
        BY <1>3 DEF BeginPut, GoTo, Proceed
      <3>2. \A u \in Threads : at[u] \notin LentPlaces
        BY <2>1 DEF UseInv, PlaceInv, PlaceFits
      <3> QED
        BY <3>1, <3>2 DEF LentPlaces, UseInv, WordInv, WordTypes
    <2>3. Dipping' = {} /\ Joining' = {} /\ Cardinality({}) = 0
      BY <2>2, FS_EmptySet DEF Dipping, Joining, LentPlaces
    <2>4. \A f \in ChunkFlags : f * StrongMod \in Nat
      OBVIOUS
    <2> QED
      BY <1>3, <2>1, <2>3, <2>4 DEF BeginPut, StrongInv, Shares
  <1>4. ASSUME NEW t \in Threads, Begin(t), ~BeginPut(t)
        PROVE  StrongInv'
    <2>1. Others(t)
      BY <1>4, OthersStay
    <2>2. CASE BeginClone(t) \/ BeginDrop(t) \/ BeginFlush(t) \/ Unlock(t) \/ BeginEndOwn(t)
      <3>1. /\ at'[t] \in {"clone", "drop", "scan", "unlock", "endOwn"}
            /\ at[t] \in {"idle", "guard"} /\ UNCHANGED <<chunkVars, sharing, leaked>>
        BY <2>2, GoesTo DEF BeginClone, BeginDrop, BeginFlush, Unlock, BeginEndOwn,
           GoTo, Borrow, Idle
      <3> QED
        BY <1>0, <2>1, <3>1, StrongKeeps DEF UseInv, ClientTypes, chunkVars
    <2>3. CASE BeginBorrow(t) \/ BeginCloneShare(t)
      <3>1. /\ at[t] = "idle" /\ UNCHANGED <<chunkVars, sharing, leaked>>
            /\ \/ at'[t] \in {"own", "lock"}
               \/ MayJoin /\ at'[t] \in {"share", "bump"}
        BY <2>3, GoesTo DEF BeginBorrow, BeginCloneShare, Borrow, Idle
      <3> QED
        BY <1>0, <2>1, <3>1, StrongKeeps DEF UseInv, ClientTypes, chunkVars
    <2>4. CASE BeginEndShare(t)
      <3>1. /\ at[t] = "idle" /\ UNCHANGED <<chunkVars, leaked>> /\ at'[t] = "dip"
            /\ sharing > 0 /\ sharing' = sharing - 1
        BY <2>4, GoesTo DEF BeginEndShare, Borrow, Idle
      <3> QED
        BY <1>0, <2>1, <3>1, StrongKeeps DEF UseInv, ClientTypes, chunkVars
    <2>5. CASE Leak(t)
      <3>1. Dipping' = Dipping /\ Joining' = Joining /\ UNCHANGED chunkVars
        BY <2>5 DEF Leak, Dipping, Joining
      <3>2. sharing' + leaked' = sharing + leaked
        BY <2>5 DEF Leak, UseInv, ClientTypes
      <3> QED
        BY <3>1, <3>2 DEF StrongInv, Shares, chunkVars
    <2> QED
      BY <1>4, <2>2, <2>3, <2>4, <2>5 DEF Begin
  <1>5. ASSUME NEW t \in Threads, Bump(t)
        PROVE  StrongInv'
    <2>1. Others(t) /\ at[t] = "bump" /\ at'[t] = "idle" /\ sharing' = sharing + 1
          /\ leaked' = leaked /\ flags' = flags
      BY <1>5, OthersStay, GoesTo DEF Bump, GoTo, Continue
    <2>2. Cardinality(Joining) > 0
      <3>1. IsFiniteSet(Joining) /\ t \in Joining
        BY <2>1, FS_Subset DEF Joining
      <3> QED
        BY <3>1, FS_EmptySet, FS_CardinalityType
    <2>3. refc' = refc + 1
      <3>1. Shares < MaxStrong
        BY <2>2, StrongFits DEF StrongInv, UseInv
      <3> QED
        BY <1>5, <3>1, StrongFits DEF Bump, UseInv
    <2> QED
      BY <1>0, <2>1, <2>3, StrongKeeps DEF UseInv, ClientTypes
  <1>6. ASSUME NEW t \in Threads, Dip(t)
        PROVE  StrongInv'
    <2>1. Others(t) /\ at[t] = "dip" /\ at'[t] \in {"idle", "endShare"}
          /\ sharing' = sharing /\ leaked' = leaked /\ flags' = flags
      BY <1>6, OthersStay, GoesTo DEF Dip, GoTo, Continue
    <2>2. Cardinality(Dipping) > 0
      <3>1. IsFiniteSet(Dipping) /\ t \in Dipping
        BY <2>1, FS_Subset DEF Dipping
      <3> QED
        BY <3>1, FS_EmptySet, FS_CardinalityType
    <2>3. refc' = refc - 1
      <3>1. Shares > 0
        BY <2>2, StrongFits DEF Shares, UseInv, ClientTypes
      <3> QED
        BY <1>6, <3>1, StrongFits DEF Dip, UseInv
    <2> QED
      BY <1>0, <2>1, <2>3, StrongKeeps DEF UseInv, ClientTypes
  <1>7. ASSUME NEW t \in Threads, Resume(t)
        PROVE  StrongInv'
    <2>1. Others(t) /\ at'[t] = NextPlace(t) /\ Answered(t)
          /\ UNCHANGED <<chunkVars, sharing, leaked>>
      BY <1>7, OthersStay, GoesTo DEF Resume, GoTo, Continue
    <2>2. /\ at[t] # "dip" /\ NextPlace(t) # "dip"
          /\ NextPlace(t) \in {"share", "join", "bump"} => at[t] \in {"share", "join"}
      BY <2>1 DEF Answered, CallAt, NextPlace, Follow
    <2> QED
      BY <1>0, <2>1, <2>2, StrongKeeps DEF UseInv, ClientTypes, chunkVars
  <1> QED
    BY <1>1, <1>2, <1>3, <1>4, <1>5, <1>6, <1>7 DEF Next, Continue

(* The strong count is that of the views, the forgotten ones included, and *)
(* never runs into the flag bits beside it, for any width of the count     *)
(* that has room for them.                                                 *)
THEOREM StrongCountIsExact == Spec => []StrongCountExact
  <1>1. Init => StrongInv
    <2> SUFFICES ASSUME Init PROVE StrongInv
      OBVIOUS
    <2>1. Dipping = {} /\ Joining = {} /\ Cardinality({}) = 0
      BY FS_EmptySet DEF Init, Dipping, Joining
    <2> QED
      BY <2>1 DEF Init, StrongInv, Shares
  <1>2. UseInv /\ StrongInv /\ [Next]_vars => StrongInv'
    BY StrongStep
  <1>3. UseInv /\ StrongInv => StrongCountExact
    BY StrongFits DEF UseInv, StrongCountExact, Shares, Dipping
  <1> QED
    BY <1>1, <1>2, <1>3, UseAlways, PTL DEF Spec
=============================================================================
