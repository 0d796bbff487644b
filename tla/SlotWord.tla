------------------------------ MODULE SlotWord ------------------------------
(***************************************************************************)
(* The state word of a weak slot as the code implements it: a load and a   *)
(* weak compare-exchange for every update, retried from the value that the *)
(* failed exchange returns, a plain store when the slot is returned, and   *)
(* beside it the strong count, which shares its word with two flag bits.   *)
(* The clients are the operations on handles and views that use the word:  *)
(* at[t] is the call that a thread is in, or whose answer it has to act on.*)
(***************************************************************************)
EXTENDS WordOps, FiniteSets

CONSTANTS
    Threads, NoCall, NoThread,
    MaxRetains,  \* bound: Retain handles at a time, those coming and going too
    MaxStrong,   \* bound: strong count
    ChunkFlags,  \* the flag bits a chunk may have (any of the four)
    StrongMod    \* the strong count has its bits below this (2^30 in the code)

ASSUME SlotWordAssumption ==
    /\ IsFiniteSet(Threads) /\ NoThread \notin Threads /\ NoCall \notin Ops
    /\ MaxRetains \in Nat \ {0} /\ MaxRetains < CountMod
    /\ StrongMod \in Nat \ {0} /\ ChunkFlags \subseteq 0 .. 3
    /\ MaxStrong \in Nat /\ MaxStrong < StrongMod

VARIABLES
    word,       \* the state word
    call,       \* the operation on the word that a thread is inside
    answer,     \* the answer to the one it finished, until it acts on it
    cancelled,  \* the token given to its attempt to lock is cancelled
    pc,         \* the next access of a thread to the word
    cur,        \* the value that its next compare-exchange expects
    at,         \* the place in the client's code
    refc,       \* the strong count with the two flag bits above it
    flags,      \* the flag bits that the chunk was created with
    retains,    \* how many Retain handles exist
    owning,     \* how many Owning views exist
    sharing,    \* how many Sharing views exist
    borrows,    \* the threads inside an operation that borrows a Retain
    leaked,     \* how many Sharing views were forgotten
    writer,     \* the thread that holds the scope's write lock
    free        \* the slot is in the free list of its pool

wordVars   == <<word, call, answer, cancelled, pc, cur>>
clientVars == <<at, borrows, retains, owning, sharing, leaked, writer, free>>
chunkVars  == <<refc, flags>>
vars == <<wordVars, clientVars, chunkVars>>

(* The operation that the client's code calls at each place.               *)
CallAt ==
    [create   |-> "create",  first     |-> "incr",      clone   |-> "incr",
     drop     |-> "decr",    unheld    |-> "weakCount", created |-> "dataState",
     claim    |-> "claim",   mark      |-> "mark",      dead |-> "weakCount",
     destroyed |-> "dataState", reset  |-> "reset",     own     |-> "own",
     endOwn   |-> "endOwning", share   |-> "share",     join    |-> "dataState",
     endShare |-> "endSharing", scan   |-> "dataState", lock    |-> "acquire",
     unlock   |-> "release"]

Places == DOMAIN CallAt \cup {"idle", "bump", "dip", "guard"}

StrongCount == refc % StrongMod

Init ==
    /\ word = EmptyWord
    /\ call = [t \in Threads |-> NoCall]
    /\ answer = [t \in Threads |-> "none"]
    /\ cancelled = [t \in Threads |-> FALSE]
    /\ pc = [t \in Threads |-> "idle"]
    /\ cur = [t \in Threads |-> EmptyWord]
    /\ at = [t \in Threads |-> "idle"]
    /\ refc = 0 /\ flags = 0
    /\ retains = 0 /\ owning = 0 /\ sharing = 0 /\ leaked = 0
    /\ borrows = {} /\ writer = NoThread /\ free = TRUE

-----------------------------------------------------------------------------
(* The word's operations. Each ends by handing its answer to the caller.   *)
Finish(t, a) ==
    /\ call' = [call EXCEPT ![t] = NoCall]
    /\ answer' = [answer EXCEPT ![t] = a]
    /\ pc' = [pc EXCEPT ![t] = "idle"]
    /\ cur' = [cur EXCEPT ![t] = EmptyWord]
    /\ cancelled' = [cancelled EXCEPT ![t] = FALSE]

Retry(t, label, w) ==
    /\ pc' = [pc EXCEPT ![t] = label]
    /\ cur' = [cur EXCEPT ![t] = w]
    /\ UNCHANGED <<call, answer, cancelled>>

(* What a call does with a value of the word that it has just seen: it     *)
(* goes on to exchange it, it is done because the value says so, or it     *)
(* waits for the lock.                                                     *)
Inspect(t) ==
    /\ \/ Applies(call[t], word) /\ Retry(t, "cas", word)
       \/ /\ ~Applies(call[t], word) /\ call[t] # "acquire"
          /\ Finish(t, Answer(call[t], word))
       \/ /\ ~Applies(call[t], word) /\ call[t] = "acquire"
          /\ Retry(t, "seeToken", EmptyWord)
    /\ UNCHANGED word

Load(t) ==
    /\ pc[t] = "load"
    /\ Inspect(t)

(* Wrong: what was computed from the loaded value is stored, whatever the  *)
(* word has become meanwhile.                                              *)
StoresComputed(t) ==
    /\ pc[t] = "cas"
    /\ word' = Effect(call[t], cur[t])
    /\ Finish(t, Answer(call[t], cur[t]))

CasSucceeds(t) ==
    /\ pc[t] = "cas" /\ word = cur[t]
    /\ word' = Effect(call[t], cur[t])
    /\ Finish(t, Answer(call[t], cur[t]))

(* The weak exchange fails when the word has changed, and may fail anyway. *)
(* All but the attempt to lock go on with the value it returns.            *)
CasFails(t) ==
    /\ pc[t] = "cas"
    /\ \/ call[t] # "acquire" /\ Inspect(t)
       \/ /\ call[t] = "acquire" /\ Retry(t, "seeToken", EmptyWord)
          /\ UNCHANGED word

(* acquire_ looks at the token after every failed attempt, never before    *)
(* the first one.                                                          *)
SeeToken(t) ==
    /\ pc[t] = "seeToken"
    /\ IF cancelled[t] THEN Finish(t, "refused") ELSE Retry(t, "load", EmptyWord)
    /\ UNCHANGED word

(* reset_all stores, it does not exchange.                                 *)
Store(t) ==
    /\ pc[t] = "store"
    /\ word' = EmptyWord
    /\ Finish(t, "done")

WordStep(t) ==
    /\ Load(t) \/ CasSucceeds(t) \/ CasFails(t) \/ SeeToken(t) \/ Store(t)
    /\ UNCHANGED <<clientVars, chunkVars>>

(* Whoever holds the token may cancel it at any time.                      *)
Cancel(t) ==
    /\ call[t] = "acquire" /\ ~cancelled[t]
    /\ cancelled' = [cancelled EXCEPT ![t] = TRUE]
    /\ UNCHANGED <<word, call, answer, pc, cur, clientVars, chunkVars>>

-----------------------------------------------------------------------------
(* The client goes on to place p, which calls the word unless it is one of *)
(* the places without a call.                                              *)
Proceed(t, p) ==
    /\ at' = [at EXCEPT ![t] = p]
    /\ answer' = [answer EXCEPT ![t] = "none"]
    /\ IF p \in DOMAIN CallAt
         THEN /\ call' = [call EXCEPT ![t] = CallAt[p]]
              /\ pc' = [pc EXCEPT ![t] = IF p = "reset" THEN "store" ELSE "load"]
              /\ \E c \in BOOLEAN :
                   /\ c => p = "lock"
                   /\ cancelled' = [cancelled EXCEPT ![t] = c]
         ELSE UNCHANGED <<call, pc, cancelled>>
    /\ UNCHANGED <<word, cur>>

(* The operation returns when it goes to idle, and its borrow ends.        *)
GoTo(t, p) ==
    /\ Proceed(t, p)
    /\ borrows' = IF p = "idle" THEN borrows \ {t} ELSE borrows

(* An operation begins that borrows a Retain until it returns.             *)
Borrow(t, p) == Proceed(t, p) /\ borrows' = borrows \cup {t}

Idle(t) == at[t] = "idle"

(* A Retain that a view or a running operation borrows is not dropped.     *)
Lent == IF owning + sharing > 0 \/ borrows # {} THEN 1 ELSE 0

(* Retains that come into being, or go without having been discounted.     *)
Underway == {t \in Threads : \/ at[t] \in {"first", "clone"}
                             \/ at[t] = "drop" /\ call[t] # NoCall}

(* Room for one more under the bound of the strong count.                  *)
MayJoin == StrongCount + Cardinality({t \in Threads :
                  at[t] \in {"share", "join", "bump"}}) < MaxStrong

(* put_value_with_: the slot leaves the free list, the chunk header is     *)
(* written, then init_slot_created_ publishes in two steps. The scope's    *)
(* write lock is held throughout.                                          *)
BeginPut(t) ==
    /\ Idle(t) /\ free /\ writer = NoThread
    /\ free' = FALSE /\ writer' = t
    /\ \E f \in ChunkFlags : flags' = f /\ refc' = f * StrongMod
    /\ leaked' = 0
    /\ GoTo(t, "create")
    /\ UNCHANGED <<retains, owning, sharing>>

BeginClone(t) ==
    /\ Idle(t) /\ retains > 0 /\ retains + Cardinality(Underway) < MaxRetains
    /\ Borrow(t, "clone")
    /\ UNCHANGED <<retains, owning, sharing, leaked, writer, free, chunkVars>>

BeginDrop(t) ==
    /\ Idle(t) /\ retains > Lent
    /\ retains' = retains - 1
    /\ GoTo(t, "drop")
    /\ UNCHANGED <<owning, sharing, leaked, writer, free, chunkVars>>

(* try_owning, try_sharing and the lock borrow a Retain while they run.    *)
BeginBorrow(t) ==
    /\ Idle(t) /\ retains > 0
    /\ \/ Borrow(t, "own") \/ Borrow(t, "lock")
       \/ MayJoin /\ Borrow(t, "share")
    /\ UNCHANGED <<retains, owning, sharing, leaked, writer, free, chunkVars>>

(* Sharing::clone borrows from the same Retain.                            *)
BeginCloneShare(t) ==
    /\ Idle(t) /\ sharing > 0 /\ MayJoin
    /\ Borrow(t, "bump")
    /\ UNCHANGED <<retains, owning, sharing, leaked, writer, free, chunkVars>>

BeginEndOwn(t) ==
    /\ Idle(t) /\ owning > 0 /\ owning' = owning - 1
    /\ Borrow(t, "endOwn")
    /\ UNCHANGED <<retains, sharing, leaked, writer, free, chunkVars>>

BeginEndShare(t) ==
    /\ Idle(t) /\ sharing > 0 /\ sharing' = sharing - 1
    /\ Borrow(t, "dip")
    /\ UNCHANGED <<retains, owning, leaked, writer, free, chunkVars>>

(* mem::forget of a view: the count it stands for is never given back.     *)
Leak(t) ==
    /\ Idle(t)
    /\ \/ /\ owning > 0 /\ owning' = owning - 1
          /\ UNCHANGED <<sharing, leaked>>
       \/ /\ sharing > 0 /\ sharing' = sharing - 1 /\ leaked' = leaked + 1
          /\ UNCHANGED owning
    /\ UNCHANGED <<wordVars, at, borrows, retains, writer, free, chunkVars>>

(* flush_data_ looks at the slot under the scope's write lock.             *)
BeginFlush(t) ==
    /\ Idle(t) /\ ~free /\ writer = NoThread
    /\ writer' = t
    /\ GoTo(t, "scan")
    /\ UNCHANGED <<retains, owning, sharing, leaked, free, chunkVars>>

Unlock(t) ==
    /\ at[t] = "guard"
    /\ GoTo(t, "unlock")
    /\ UNCHANGED <<retains, owning, sharing, leaked, writer, free, chunkVars>>

-----------------------------------------------------------------------------
(* The strong count is a fetch_add and a fetch_sub on the whole word.      *)
AddToRefc(n) == refc' = (refc + n) % (4 * StrongMod)

(* Wrong: every join sets the strong count to 1, as the first one may.     *)
JoinSetsOne(t) ==
    /\ at[t] = "bump"
    /\ refc' = flags * StrongMod + 1
    /\ sharing' = sharing + 1
    /\ GoTo(t, "idle")
    /\ UNCHANGED <<retains, owning, leaked, writer, free, flags>>

Bump(t) ==
    /\ at[t] = "bump"
    /\ AddToRefc(1)
    /\ sharing' = sharing + 1
    /\ GoTo(t, "idle")
    /\ UNCHANGED <<retains, owning, leaked, writer, free, flags>>

(* Sharing::drop: the decrement that reaches zero gives the state back.    *)
Dip(t) ==
    /\ at[t] = "dip"
    /\ AddToRefc(4 * StrongMod - 1)
    /\ GoTo(t, IF StrongCount = 1 THEN "endShare" ELSE "idle")
    /\ UNCHANGED <<retains, owning, sharing, leaked, writer, free, flags>>

-----------------------------------------------------------------------------
(* What a client does with an answer; after the check for an unreachable   *)
(* object a Retain drop looks whether the slot can be returned.            *)
Follow(p, a) ==
    CASE p = "create"                          -> "first"
      [] p = "drop"    /\ a = "zero"           -> "unheld"
      [] p \in {"endOwn", "endShare"}          -> "unheld"
      [] p = "unheld"  /\ a = "zero"           -> "created"
      [] p = "unheld"  /\ a = "more"           -> "dead"
      [] p = "created" /\ a = "Created"        -> "claim"
      [] p = "created" /\ a # "Created"        -> "dead"
      [] p = "scan"    /\ a = "Created"        -> "claim"
      [] p = "claim"   /\ a = "done"           -> "mark"
      [] p \in {"claim", "mark"}               -> "dead"
      [] p = "dead"    /\ a = "zero"           -> "destroyed"
      [] p = "destroyed" /\ a = "Destroyed"    -> "reset"
      [] p = "share"   /\ a = "done"           -> "bump"
      [] p = "share"   /\ a # "done"           -> "join"
      [] p = "join"    /\ a = "Sharing"        -> "bump"
      [] p = "join"    /\ a = "Created"        -> "share"
      [] p = "lock"    /\ a = "done"           -> "guard"
      [] OTHER                                 -> "idle"

(* A view drop, which borrows a Retain, and the flush stop there.          *)
(* Wrong: the flush returns the slot as the last drop does.                *)
FlushReturnsToo(t) ==
    LET p == Follow(at[t], answer[t])
    IN  IF p = "dead" /\ t \in borrows THEN "idle" ELSE p

NextPlace(t) ==
    LET p == Follow(at[t], answer[t])
    IN  IF p = "dead" /\ (writer = t \/ t \in borrows) THEN "idle" ELSE p

Answered(t) == at[t] \in DOMAIN CallAt /\ call[t] = NoCall

Resume(t) ==
    /\ Answered(t)
    /\ GoTo(t, NextPlace(t))
    /\ retains' = IF at[t] \in {"first", "clone"} THEN retains + 1 ELSE retains
    /\ owning' = IF at[t] = "own" /\ answer[t] = "done"
                   THEN owning + 1 ELSE owning
    /\ writer' = IF writer = t /\ NextPlace(t) = "idle" THEN NoThread ELSE writer
    /\ free' = (free \/ at[t] = "reset")
    /\ UNCHANGED <<sharing, leaked, chunkVars>>

-----------------------------------------------------------------------------
Begin(t) ==
    \/ BeginPut(t) \/ BeginClone(t) \/ BeginDrop(t) \/ BeginBorrow(t)
    \/ BeginCloneShare(t) \/ BeginEndOwn(t) \/ BeginEndShare(t)
    \/ Leak(t) \/ BeginFlush(t) \/ Unlock(t)

Continue(t) == WordStep(t) \/ Bump(t) \/ Dip(t) \/ Resume(t)

Next == \E t \in Threads : Begin(t) \/ Continue(t) \/ Cancel(t)

Spec == Init /\ [][Next]_vars

-----------------------------------------------------------------------------
(* Every variable has the type that the code gives it, and a call in       *)
(* progress is at one of its own accesses.                                 *)
TypeOK ==
    /\ word \in Words
    /\ call \in [Threads -> Ops \cup {NoCall}]
    /\ answer \in [Threads -> Answers]
    /\ cancelled \in [Threads -> BOOLEAN]
    /\ pc \in [Threads -> {"idle", "load", "cas", "seeToken", "store"}]
    /\ cur \in [Threads -> Words]
    /\ at \in [Threads -> Places]
    /\ refc \in 0 .. 4 * StrongMod - 1 /\ flags \in 0 .. 3
    /\ retains \in Nat /\ owning \in Nat /\ sharing \in Nat /\ leaked \in Nat
    /\ writer \in Threads \cup {NoThread}
    /\ borrows \subseteq Threads /\ free \in BOOLEAN

(* The lock bit is set exactly while one guard is alive: two threads never *)
(* hold a guard, and the transitions and counts of the others never clear  *)
(* the bit under it (slot_.rs:192, WeakSlotGuard::drop).                   *)
HoldsGuard(t) ==
    \/ at[t] = "lock" /\ call[t] = NoCall /\ answer[t] = "done"
    \/ at[t] = "guard"
    \/ at[t] = "unlock" /\ call[t] # NoCall

GuardExclusive ==
    /\ \A t, u \in Threads : HoldsGuard(t) /\ HoldsGuard(u) => t = u
    /\ word.locked <=> \E t \in Threads : HoldsGuard(t)

(* No update of the weak count is lost or made twice, whatever else writes *)
(* the word between its load and its exchange (update_weak_count_); nor by *)
(* reset_all, which stores the empty word without looking: what another    *)
(* thread had written since the last look would be lost.                   *)
Counted == {t \in Threads : \/ at[t] = "drop" /\ call[t] # NoCall
                            \/ at[t] \in {"first", "clone"} /\ call[t] = NoCall}

CountIsExact ==
    /\ word.count = retains + Cardinality(Counted)
    /\ \A t \in Threads : pc[t] = "store" =>
          word = [locked |-> FALSE, state |-> "Destroyed", count |-> 0]

(* The strong count is that of the views, the forgotten ones included, and *)
(* never runs into the flag bits beside it, which say whether the chunk    *)
(* has metadata and a PreDrop object (chunk_.rs:245).                      *)
StrongCountExact ==
    /\ refc \div StrongMod = flags
    /\ StrongCount = sharing + leaked
                       + Cardinality({t \in Threads : at[t] = "dip"})

(* Every call on the word takes effect in one step, on the word as it is.  *)
Atomic == INSTANCE AtomicWord
ImplementsAtomic == Atomic!Spec
=============================================================================
